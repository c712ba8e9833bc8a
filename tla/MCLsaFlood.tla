----------------------------- MODULE MCLsaFlood -----------------------------
(***************************************************************************)
(* Instance of LsaFlood for TLC: three routers, each linked to the others; *)
(* a has o as its parent, b may have either.                               *)
(***************************************************************************)
EXTENDS LsaFlood, TLC

CONSTANTS o, a, b

MCNeighbours == (o :> {a, b}) @@ (a :> {o, b}) @@ (b :> {o, a})
MCCloser == (o :> {}) @@ (a :> {o}) @@ (b :> {o, a})

\* Origin has a version, a router registers without it, and one fault happens; a
\* router is given the version by an exchange, and one fault happens (no router is
\* forgotten); or nobody has a version, two routers register, or one and then
\* databases are exchanged.
MCScenarios ==
  {[first |-> 0, kinds |-> Fault, faults |-> 1, exchanges |-> 0, rebuilds |-> 1],
   [first |-> 0, kinds |-> Fault \ {"forget"}, faults |-> 1, exchanges |-> 1, rebuilds |-> 0],
   [first |-> -1, kinds |-> {}, faults |-> 0, exchanges |-> 0, rebuilds |-> 2],
   [first |-> -1, kinds |-> {}, faults |-> 0, exchanges |-> 1, rebuilds |-> 1]}

=============================================================================
