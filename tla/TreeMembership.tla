--------------------------- MODULE TreeMembership ---------------------------
(***************************************************************************)
(* What registration promises, seen from a parent: for every root and      *)
(* every son its list holds the effect of one request that the son really  *)
(* made, and it only ever moves on to a request the son made later.        *)
(***************************************************************************)
EXTENDS Integers

CONSTANTS Router, Root

VARIABLES
  issued,   \* the requests made so far
  stamp,    \* stamp[p][root][s]: time of the request in effect, 0 if none
  member    \* member[p][root]: the sons

avars == <<issued, stamp, member>>

AInit ==
  /\ issued = {}
  /\ stamp = [p \in Router |-> [root \in Root |-> [s \in Router |-> 0]]]
  /\ member = [p \in Router |-> [root \in Root |-> {}]]

\* A router never makes a request older than one it made before.
Issue ==
  /\ issued \subseteq issued'
  /\ \A new \in issued' \ issued : \A old \in issued : old.from = new.from => old.ts <= new.ts
  /\ UNCHANGED <<stamp, member>>

\* A parent moves on to a later request.
Learn(q) ==
  /\ q \in issued
  /\ q.ts > stamp[q.to][q.root][q.from]
  /\ stamp' = [stamp EXCEPT ![q.to][q.root][q.from] = q.ts]
  /\ member' = [member EXCEPT ![q.to][q.root] =
                  IF q.op = "register" THEN @ \cup {q.from} ELSE @ \ {q.from}]
  /\ UNCHANGED issued

ANext == Issue \/ \E q \in issued : Learn(q)

ASpec == AInit /\ [][ANext]_avars
=============================================================================
