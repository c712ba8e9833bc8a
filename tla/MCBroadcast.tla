----------------------------- MODULE MCBroadcast -----------------------------
EXTENDS Broadcast, TLC
CONSTANTS a, p, q, m
\* A triangle of a leader, a root and another router, with a second root behind
\* the first.
Routers == {a, p, q, m}
Roots == {p, q}
TriangleWithTail == a :> {p, m} @@ m :> {a, p} @@ p :> {a, m, q} @@ q :> {p}
=============================================================================
