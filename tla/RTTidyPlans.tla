----------------------------- MODULE RTTidyPlans -----------------------------
(***************************************************************************)
(* The plans of RTPlans are tidy: for each test that may run, the walks    *)
(* that lead on from its starts, one call after the other.                 *)
(***************************************************************************)
EXTENDS RTTidy, RTPlans

RECURSIVE Reached(_, _, _, _)
Reached(steps, whole, found, new) ==
    IF new = {} THEN found
    ELSE LET next == UNION {Moves(steps, w, whole) : w \in new} \ found
         IN  Reached(steps, whole, found \cup next, next)
From(steps, whole, starts) == Reached(steps, whole, starts, starts)

\* What the tests of each plan may leave behind.
Left ==
    << {roce(1), staticLease(1), noOptions(1), lease(1)},
       {peering(1, 2), serverAddr(1), dummy(1)},
       {staticLease(1), lease(1)},
       {} >>

WalksOf(p, n) ==
    LET st == AllPlans[p].suites[n]
        left == IF st.wipe THEN LastingOf(Left[p]) ELSE Left[p]
    IN  [k \in DOMAIN st.tests |-> From(st.tests[k].steps, TRUE, Starts(left))]
WipedWalksOf(p, n) ==
    LET st == AllPlans[p].suites[n]
    IN  [k \in DOMAIN st.tests |-> From(st.tests[k].steps, FALSE, WipedStarts(Left[p]))]
Certificates ==
    [p \in DOMAIN Left |->
        [left |-> Left[p],
         walks |-> [n \in 1..AllPlans[p].count |-> WalksOf(p, n)],
         wiped |-> [n \in 1..AllPlans[p].count |-> WipedWalksOf(p, n)]]]

ASSUME TidyPlans == \A p \in DOMAIN Left : TidyPlan(AllPlans[p], Certificates[p])
=============================================================================
