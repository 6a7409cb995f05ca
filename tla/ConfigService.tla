--------------------------- MODULE ConfigService ---------------------------
(***************************************************************************)
(* What the fabricator controller promises to everyone who only looks at   *)
(* the Fabricator object: the install and upgrade recipes, WaitReady and   *)
(* the user.  There is a request, a number of objects made from it, and    *)
(* one claim, "applied".  The claim speaks of the past as soon as there is *)
(* a new request, it is withdrawn before any object is touched, and it is  *)
(* made only when the objects that the request needs are all made from it  *)
(* by one release.                                                         *)
(***************************************************************************)
CONSTANTS Cfg, Object, Release,
    NeededFor   \* the objects a configuration needs

VARIABLES
    want,   \* the request: a configuration and the release of its defaults
    claim,  \* "Config applied": of the present request, of a past one, or not
    made    \* the objects: the configuration and release each is made from

service == <<want, claim, made>>

Fits(cfg) ==
    \E r \in Release : \A o \in NeededFor[cfg] : made[o] = [cfg |-> cfg, ver |-> r]

Init ==
    /\ want \in [cfg : Cfg, defs : Release]
    /\ claim = "none"
    /\ made \in [Object -> [cfg : Cfg, ver : Release \cup {0}]]

Request ==
    /\ want' # want
    /\ claim' = IF claim = "present" THEN "past" ELSE claim
    /\ UNCHANGED made

Withdraw == claim # "none" /\ claim' = "none" /\ UNCHANGED <<want, made>>

Make(o) ==
    /\ claim = "none"
    /\ \E cfg \in Cfg, r \in Release : made' = [made EXCEPT ![o] = [cfg |-> cfg, ver |-> r]]
    /\ UNCHANGED <<want, claim>>

Confirm == claim = "none" /\ Fits(want.cfg) /\ claim' = "present" /\ UNCHANGED <<want, made>>

Next == Request \/ Withdraw \/ Confirm \/ \E o \in Object : Make(o)
Spec == Init /\ [][Next]_service
=============================================================================
