--------------------------- MODULE Dissemination ---------------------------
(***************************************************************************)
(* What the flooding of one router's advertisement promises: the origin    *)
(* issues version after version; any other router only ever moves forward, *)
(* to a version that was issued.  At the beginning a router may hold any   *)
(* version issued before, or none.                                         *)
(***************************************************************************)
EXTENDS Integers

CONSTANTS Router, Origin

VARIABLE held    \* held[r]: the version r holds, -1 if none

Init ==
  /\ held \in [Router -> Nat \cup {-1}]
  /\ \A r \in Router : held[r] <= held[Origin]

Issue == held' = [held EXCEPT ![Origin] = @ + 1]

Learn(r) ==
  \E v \in 0 .. held[Origin] :
    /\ r # Origin /\ held[r] < v
    /\ held' = [held EXCEPT ![r] = v]

Next == Issue \/ \E r \in Router : Learn(r)

Spec == Init /\ [][Next]_held

=============================================================================
