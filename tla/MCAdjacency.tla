----------------------------- MODULE MCAdjacency -----------------------------
(***************************************************************************)
(* Instances of Adjacency: one router starts with an empty database, the   *)
(* other holds the LSA of a router elsewhere.                              *)
(***************************************************************************)
EXTENDS Adjacency, TLC
CONSTANTS a, b, c

Learnt == a :> (a :> -1 @@ b :> -1 @@ c :> -1) @@ b :> (a :> -1 @@ b :> -1 @@ c :> 2)

Faults(loss, late, early, dead, info, differ, drag) ==
  "loss" :> loss @@ "late" :> late @@ "early" :> early @@ "dead" :> dead
    @@ "info" :> info @@ "differ" :> differ @@ "drag" :> drag

Mixed == Faults(2, 1, 1, 1, 1, 1, 1)
Unreliable == Faults(1, 1, 0, 0, 1, 0, 9)
Differing == Faults(0, 0, 0, 0, 0, 2, 0)
=============================================================================
