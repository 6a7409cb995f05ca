------------------------------- MODULE RTTidy -------------------------------
(***************************************************************************)
(* What a release test owes the runner, said of its script alone.  A walk  *)
(* is a test that runs, without anything else of the runner: at, the step  *)
(* it is at (0 once it has returned), items and matrix, how it finds the   *)
(* fabric, the reverts it has gathered, and undo, what is left of the one  *)
(* that is being applied.                                                  *)
(*                                                                         *)
(* While no cleanup fails the walk is over the whole fabric.  After a      *)
(* deferred cleanup has failed switches and connections may be anyhow, and *)
(* only the kinds of items a setup wipes are followed: whole is FALSE, and *)
(* every call may succeed or fail.                                         *)
(***************************************************************************)
EXTENDS ReleaseTest

Walk(at, xs, m, rs, us) ==
    [at |-> at, items |-> xs, matrix |-> m, reverts |-> rs, undo |-> us]
WipedOf(xs) == {x \in xs : x[1] \in Wiped}
LastingOf(xs) == {x \in xs : x[1] \notin Wiped}
Over(w) == w.at = 0 /\ w.reverts = <<>> /\ w.undo = <<>>

\* What the steps of a test and of a revert do to a walk.
Works(c, w, whole) == whole => Possible(c, w.items)
Leaves(c, w, whole) == IF whole THEN Effect(c, w.items) ELSE WipedOf(Effect(c, w.items))
Sees(c, xs, m) ==
    CASE c.op = "populate" -> [m EXCEPT !.view = Reach(xs), !.decided = ~NatPeered(xs)]
      [] c.op = "overlay" -> [m EXCEPT !.decided = TRUE]
      [] c.op = "rebind" ->
           [m EXCEPT !.view = {x \in @ : x[1] # "serverip"} \cup {x \in Reach(xs) : x[1] = "serverip"}]
      [] OTHER -> m
Shows(c, w, whole) == IF whole THEN Sees(c, w.items, w.matrix) ELSE w.matrix
Registers(c, rs) == IF c.op = "register" THEN Append(rs, c.undo) ELSE rs
Fails(c, whole) == c.op \notin {"register", "bail", "skip"} /\ (whole => ~c.clean)
FailsTo(c, at) == IF c.err = "goto" THEN at + 1 + c.skip ELSE 0
Keeps(c, rs) == IF c.err = "drop" THEN <<>> ELSE rs
Returns(c) == c.op = "bail" \/ (c.op = "skip" /\ c.err # "never")

Only(condition, w) == IF condition THEN {w} ELSE {}
TestMoves(c, w, whole) ==
    Only(Works(c, w, whole) /\ c.err # "must",
         Walk(w.at + 1, Leaves(c, w, whole), Shows(c, w, whole), Registers(c, w.reverts), <<>>))
    \cup Only(c.opt > 0, Walk(w.at + c.opt, w.items, w.matrix, w.reverts, <<>>))
    \cup Only(Fails(c, whole), Walk(FailsTo(c, w.at), w.items, w.matrix, Keeps(c, w.reverts), <<>>))
    \cup Only(Returns(c), Walk(0, w.items, w.matrix, w.reverts, <<>>))
RevertMoves(w, whole) ==
    IF w.undo = <<>>
    THEN Only(w.reverts # <<>>, Walk(0, w.items, w.matrix, SubSeq(w.reverts, 1, Len(w.reverts) - 1),
                                     w.reverts[Len(w.reverts)]))
    ELSE LET c == Head(w.undo)
         IN  Only(Works(c, w, whole), Walk(0, Leaves(c, w, whole), Shows(c, w, whole), w.reverts, Tail(w.undo)))
Moves(steps, w, whole) ==
    IF w.at = 0 THEN RevertMoves(w, whole)
    ELSE IF w.at > Len(steps) THEN {Walk(0, w.items, w.matrix, w.reverts, <<>>)}
    ELSE TestMoves(steps[w.at], w, whole)

\* A connectivity check is about the present fabric, a revert finds what it expects.
Fresh(c, w) ==
    c.op = "matrix" =>
        w.matrix.up /\ w.matrix.view = Reach(w.items) /\ (NatPeered(w.items) => w.matrix.decided)
Doable(c, w, kinds) ==
    Possible(c, w.items) \/ (c.on # {} /\ \A x \in c.on : x[1] \in kinds)

\* A test starts among no more than the items left, the matrix as a setup or the
\* test before has left it.
Matrices(left) == [up : {TRUE}, view : SUBSET Reach(left), decided : BOOLEAN]
Starts(left) == {Walk(1, xs, m, <<>>, <<>>) : xs \in SUBSET left, m \in Matrices(left)}
WipedStarts(left) == {Walk(1, xs, NoMatrix, <<>>, <<>>) : xs \in SUBSET WipedOf(left)}

\* The walks over the whole fabric: the set holds every start and every move, and
\* whatever fails on the way, no check is stale, every revert is possible, and the
\* test leaves no more than the items left (what a setup wipes, if one follows).
TidyWhole(steps, walks, left, kinds, wipe) ==
    /\ Starts(IF wipe THEN LastingOf(left) ELSE left) \subseteq walks
    /\ \A w \in walks :
          /\ Moves(steps, w, TRUE) \subseteq walks
          /\ w.at \in DOMAIN steps => Fresh(steps[w.at], w)
          /\ w.at = 0 /\ w.undo # <<>> => Fresh(Head(w.undo), w) /\ Doable(Head(w.undo), w, kinds)
          /\ Over(w) => LastingOf(w.items) \subseteq left
          /\ Over(w) /\ ~wipe => w.items \subseteq left /\ w.matrix \in Matrices(left)

\* The walks over what a setup wipes: it is left as it was found even if a deferred
\* cleanup of switches has failed, in this test or before.
TidyWiped(steps, wiped, left) ==
    /\ WipedStarts(left) \subseteq wiped
    /\ \A w \in wiped : Moves(steps, w, FALSE) \subseteq wiped /\ (Over(w) => w.items \subseteq left)

\* A plan is tidy if each test that may run is, with the walks given for it: walks
\* and wiped per suite and test.  The suites without a setup come first.
TidyTest(p, n, k, walks, wiped, left) ==
    LET st == p.suites[n]
        steps == st.tests[k].steps
    IN  /\ TidyWhole(steps, walks, left, p.tolerated, st.wipe)
        /\ ~st.noSetup /\ ~st.wipe => TidyWiped(steps, wiped, left)
TidyPlan(p, cert) ==
    /\ \A x \in cert.left : x[1] \in p.tolerated
    /\ \A n \in 1..p.count :
          /\ p.suites[n].noSetup => ~p.suites[n].wipe
          /\ p.suites[n].noSetup => \A m \in 1..n : p.suites[m].noSetup
          /\ \A k \in DOMAIN p.suites[n].tests :
                p.suites[n].tests[k].flags \cap p.skipFlags = {} =>
                    TidyTest(p, n, k, cert.walks[n][k], cert.wiped[n][k], cert.left)
Tidy(certs) == \A p \in Chosen : TidyPlan(Plans[p], certs[p])
=============================================================================
