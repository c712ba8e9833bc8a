------------------------------ MODULE MCRoutes ------------------------------
(***************************************************************************)
(* Routers 1 to 4 in a square with a second link between 1 and 2, 5 linked *)
(* to 2 and 4; LSAs arrive in any order, links come and go at one end      *)
(* before the other.                                                       *)
(***************************************************************************)
EXTENDS Routes

MCRouter == 1 .. 5
MCNet == {"a", "b", "c", "d", "e", "f", "g"}

To(r, n, c) == [to |-> r, net |-> n, cost |-> c]
Lsa(r, ks) == [origin |-> r, links |-> ks]

\* Networks a and e join 1 and 2, b 1 and 3, c 2 and 4, d 3 and 4,
\* f 4 and 5, g 2 and 5.
MCIssued ==
    { Lsa(1, {To(2, "a", 3), To(2, "e", 2), To(3, "b", 1)}), Lsa(1, {To(3, "b", 1)}),
      Lsa(2, {To(1, "a", 3), To(1, "e", 1), To(4, "c", 1), To(5, "g", 2)}),
      Lsa(2, {To(4, "c", 1)}),
      Lsa(3, {To(1, "b", 1), To(4, "d", 2)}), Lsa(3, {To(4, "d", 2)}),
      Lsa(4, {To(2, "c", 1), To(3, "d", 1), To(5, "f", 1)}), Lsa(4, {To(3, "d", 1)}),
      Lsa(5, {To(4, "f", 1), To(2, "g", 1)}) }
=============================================================================
