--------------------------- MODULE MCRegistration ---------------------------
EXTENDS Registration
CONSTANTS a, b, c
Routers == {a, b, c}
Roots == {c}
\* The parent b between a and the root, which b has not heard yet.  a makes three
\* requests, the fewest with which a stale deregistration can follow a newer
\* registration.
Line == [r \in Routers |-> IF r = b THEN {a, c} ELSE {b}]
HeardOnLine == [r \in Routers |-> IF r = b THEN {a} ELSE {b}]
ThreeRequests == [r \in Routers |-> IF r = a THEN 4 ELSE 1]

\* A triangle in which a has not heard b, the root; two requests of a.
Triangle == [r \in Routers |-> Routers \ {r}]
HeardAtStart == [r \in Routers |-> IF r = a THEN {c} ELSE Routers \ {r}]
UnheardRoot == {b}
TwoRequests == [r \in Routers |-> IF r = a THEN 3 ELSE 1]
=============================================================================
