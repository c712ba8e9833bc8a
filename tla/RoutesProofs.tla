---------------------------- MODULE RoutesProofs ----------------------------
(***************************************************************************)
(* Theorems about Routes, for every network, every set of LSAs in any      *)
(* order and every order of the loops: the types, that the trees are       *)
(* minimum-hop trees and the paths shortest, and that the parents and the  *)
(* table they give lead closer to the root and to the network.             *)
(***************************************************************************)
EXTENDS Routes, FiniteSetTheorems, WellFoundedInduction, TLAPS

\* The search for a tree: nodes wait for expansion in two layers, one level
\* apart, and an expanded node has all its neighbours in the tree.
Searching ==
    /\ layer \subseteq tree /\ nextLayer \subseteq tree
    /\ \E k \in Nat : /\ \A t \in layer : t.level = k
                      /\ \A t \in nextLayer : t.level = k + 1
                      /\ \A t \in tree : t.level =< k + 1
    /\ \A t \in tree : t.level > 0 => \E s \in tree :
         s.node = t.parent /\ t.node \in Adjacent(s.node) /\ t.level = s.level + 1
    /\ \A t \in tree \ (layer \cup nextLayer) : \A v \in Adjacent(t.node) :
         \E s \in tree : s.node = v /\ s.level =< t.level + 1

\* The search for paths: what is in the queue extends a settled path, costs
\* no less than any, and holds every edge out of the settled vertices.
Chained ==
    \A f \in res \cup queue : f # Origin =>
        \E e \in res : f.target \in Adjacent(e.target) /\ f = Extend(e, f.target)
Ordered == \A e \in res, f \in queue : e.cost =< f.cost
Queued ==
    \A e \in res : \A v \in Adjacent(e.target) : Settled(v) \/ Extend(e, v) \in queue
Single == \A e, f \in res : e.target = f.target => e = f
Short ==
    \A e, f \in res : f.target \in Adjacent(e.target) =>
        f.cost =< e.cost + Weight(e.target, f.target)
Idle == (pc \notin {"paths", "insert"} => res = {}) /\ (pc # "paths" => queue = {})

Paths == Chained /\ Ordered /\ Queued /\ Single /\ Short /\ Idle

IInv == TypeOK /\ (pc = "layer" => Searching) /\ Paths

-----------------------------------------------------------------------------
\* A set of costs has a least one.
LEMMA Least ==
    ASSUME NEW S \in SUBSET Nat, S # {}
    PROVE  \E m \in S : \A n \in S : m =< n
<1>1. \A x, y \in Nat : x < y => <<x, y>> \in OpToRel(<, Nat)
  BY Zenon DEF OpToRel
<1>2. PICK m \in S : \A n \in S : ~ (<<n, m>> \in OpToRel(<, Nat))
  BY NatLessThanWellFounded, WFMin, Zenon
<1>3. \A n \in S : ~ (n < m)
  BY <1>1, <1>2, Zenon
<1>. QED
  BY <1>3

\* The weight of an edge is a cost some LSA claims.
LEMMA Weights ==
    ASSUME TypeOK, NEW u \in Router, NEW v \in Adjacent(u)
    PROVE  v \in Router /\ Weight(u, v) \in Nat
<1>1. v \in Router /\ Claims(u, v) # {}
  BY DEF Adjacent
<1>2. Claims(u, v) \subseteq Nat
  BY <1>1 DEF Claims, TypeOK, Link
<1>3. \E c \in Claims(u, v) : \A d \in Claims(u, v) : c =< d
  BY <1>1, <1>2, Least
<1>. QED
  BY <1>1, <1>2, <1>3 DEF Weight

LEMMA ExtendType ==
    ASSUME TypeOK, NEW e \in Edge, NEW v \in Adjacent(e.target)
    PROVE  /\ Extend(e, v) \in Edge /\ Extend(e, v).target = v
           /\ Extend(e, v).cost = e.cost + Weight(e.target, v)
           /\ e.cost =< Extend(e, v).cost
<1>1. e.target \in Router /\ e.cost \in Nat /\ e.nextHop \in Router /\ e.nextnextHop \in Router
  BY DEF Edge
<1>2. v \in Router /\ Weight(e.target, v) \in Nat
  BY <1>1, Weights
<1> DEFINE w == Weight(e.target, v)
<1>3. e.cost + w \in Nat /\ e.cost =< e.cost + w
  BY <1>1, <1>2
<1> HIDE DEF w
<1>. QED
  BY <1>1, <1>2, <1>3 DEF Extend, Edge, w

\* The graph is the database's.
LEMMA SameGraph ==
    ASSUME UNCHANGED links
    PROVE  /\ \A u : Adjacent(u)' = Adjacent(u)
           /\ \A u, v : Weight(u, v)' = Weight(u, v)
           /\ \A e, v : Extend(e, v)' = Extend(e, v)
BY DEF Adjacent, Claims, Weight, Extend

LEMMA VertexType == TypeOK => Vertex \subseteq Router
BY DEF TypeOK, Vertex, Link

LEMMA Plans ==
    /\ <<"trees", "routes">> \in Seq({"trees", "routes"})
    /\ <<"routes", "trees">> \in Seq({"trees", "routes"})
OBVIOUS

LEMMA InitOK == ASSUME Init PROVE IInv
BY DEF Init, IInv, TypeOK, Paths, Chained, Ordered, Queued, Single, Short, Idle

-----------------------------------------------------------------------------
(* The steps.                                                              *)

LEMMA TypeStep ==
    ASSUME TypeOK, Next
    PROVE  TypeOK'
<1> USE RouterAssumption, IssuedAssumption
    DEF TypeOK, dbVars, treeVars, pathVars
<1>1. ASSUME NEW l \in Issued, NewLsa(l) \/ RegisteredLsa(l) PROVE TypeOK'
  <2>1. l.origin \in Router /\ l.links \in SUBSET Link
    OBVIOUS
  <2>2. held' \subseteq Router /\ links' \in [Router -> SUBSET Link]
    BY <1>1, <2>1 DEF insertLsa, NewLsa, RegisteredLsa
  <2>3. plan' \in Seq({"trees", "routes"})
    BY <1>1, Plans DEF NewLsa, RegisteredLsa
  <2>. QED
    BY <1>1, <2>2, <2>3 DEF insertLsa, NewLsa, RegisteredLsa
<1>2. ASSUME StartTrees PROVE TypeOK'
  <2>1. todo' \subseteq Router
    BY <1>2, VertexType DEF StartTrees
  <2>2. plan' \in Seq({"trees", "routes"})
    BY <1>2 DEF StartTrees
  <2>. QED
    BY <1>2, <2>1, <2>2 DEF StartTrees
<1>4. ASSUME NEW p \in todo, StartTree(p) PROVE TypeOK'
  <2>1. {[node |-> p, parent |-> p, level |-> 0]} \subseteq Node
    BY DEF Node
  <2>. QED
    BY <1>4, <2>1 DEF StartTree
<1>5. ASSUME NEW t \in layer, Expand(t) PROVE TypeOK'
  <2>1. t.node \in Router /\ t.level + 1 \in Nat
    BY DEF Node
  <2>2. Children(t) \subseteq Node
    BY <2>1 DEF Children, Node, Adjacent
  <2>. QED
    BY <1>5, <2>2 DEF Expand
<1>6. ASSUME EndTree PROVE TypeOK'
  <2>1. ParentOnTree \subseteq Router \X Router
    BY DEF ParentOnTree, Node
  <2>. QED
    BY <1>6, <2>1 DEF EndTree
<1>7. ASSUME NextLayer \/ EndTrees PROVE TypeOK'
  BY <1>7 DEF NextLayer, EndTrees
<1>8. ASSUME StartRoutes PROVE TypeOK'
  <2>1. {Origin} \subseteq Edge
    BY DEF Origin, Edge
  <2>2. plan' \in Seq({"trees", "routes"})
    BY <1>8 DEF StartRoutes
  <2>. QED
    BY <1>8, <2>1, <2>2 DEF StartRoutes
<1>9. ASSUME NEW e \in queue, Skip(e) PROVE TypeOK'
  BY <1>9 DEF Skip
<1>10. ASSUME NEW e \in queue, Settle(e) PROVE TypeOK'
  <2>1. \A v \in Adjacent(e.target) : Extend(e, v) \in Edge
    BY ExtendType
  <2>2. queue' \subseteq Edge /\ res' \subseteq Edge
    BY <1>10, <2>1 DEF Settle
  <2>. QED
    BY <1>10, <2>2 DEF Settle
<1>11. ASSUME EndPaths PROVE TypeOK'
  <2>1. {e.target : e \in res} \subseteq Router
    BY DEF Edge
  <2>. QED
    BY <1>11, <2>1 DEF EndPaths
<1>12. ASSUME NEW e \in res, Insert(e) PROVE TypeOK'
  <2>1. insertList' \subseteq [net : Net, hop : Router, link : Net, cost : Nat]
    <3>1. CASE UNCHANGED insertList
      BY <3>1
    <3>2. ASSUME NEW k \in Through(e.nextHop), NEW new \in SUBSET Nets(e.target),
                 insertList' = {i \in insertList : i.net \notin new} \cup
                    [net : new, hop : {e.nextHop}, link : {k.net}, cost : {e.cost}]
          PROVE  insertList' \subseteq [net : Net, hop : Router, link : Net, cost : Nat]
      <4>1. k.net \in Net
        BY DEF Through, Link
      <4>2. e.target \in Router /\ e.nextHop \in Router /\ e.cost \in Nat
        BY DEF Edge
      <4>3. Nets(e.target) \subseteq Net
        BY <4>2 DEF Nets, Link
      <4>4. [net : new, hop : {e.nextHop}, link : {k.net}, cost : {e.cost}]
               \subseteq [net : Net, hop : Router, link : Net, cost : Nat]
        BY <4>1, <4>2, <4>3
      <4>. QED
        BY <3>2, <4>4
    <3>3. \/ UNCHANGED insertList
          \/ \E k \in Through(e.nextHop) : \E new \in SUBSET Nets(e.target) :
                insertList' = {i \in insertList : i.net \notin new} \cup
                    [net : new, hop : {e.nextHop}, link : {k.net}, cost : {e.cost}]
      BY <1>12 DEF Insert
    <3>. QED
      BY <3>1, <3>2, <3>3
  <2>. QED
    BY <1>12, <2>1 DEF Insert
<1>13. ASSUME Install PROVE TypeOK'
  BY <1>13 DEF Install
<1>. QED
  BY <1>1, <1>2, <1>4, <1>5, <1>6, <1>7, <1>8, <1>9, <1>10, <1>11, <1>12, <1>13 DEF Next

\* A step of the search for a tree.
LEMMA SearchStep ==
    ASSUME IInv, Next, pc' = "layer"
    PROVE  Searching'
<1> USE DEF dbVars, treeVars
<1>0. TypeOK /\ (pc = "layer" => Searching)
  BY DEF IInv
<1>1. ASSUME NEW p \in todo, StartTree(p) PROVE Searching'
  <2>1. tree' = {[node |-> p, parent |-> p, level |-> 0]} /\ layer' = tree' /\ nextLayer' = {}
    BY <1>1 DEF StartTree
  <2>. QED
    BY <2>1 DEF Searching
<1>2. ASSUME NEW t \in layer, Expand(t) PROVE Searching'
  <2>1. /\ Searching /\ UNCHANGED links /\ tree' = tree \cup Children(t)
        /\ nextLayer' = nextLayer \cup Children(t) /\ layer' = layer \ {t}
    BY <1>0, <1>2 DEF Expand
  <2>2. t \in tree /\ \A s \in tree : s.level \in Nat
    BY <1>0, <2>1 DEF Searching, TypeOK, Node
  <2>3. \A u : Adjacent(u)' = Adjacent(u)
    BY <2>1, SameGraph
  <2>4. PICK k \in Nat : /\ \A s \in layer : s.level = k
                         /\ \A s \in nextLayer : s.level = k + 1
                         /\ \A s \in tree : s.level =< k + 1
    BY <2>1 DEF Searching
  <2>5. \A c \in Children(t) : /\ c.node \in Adjacent(t.node) /\ c.parent = t.node
                              /\ c.level = k + 1
    BY <2>4 DEF Children
  <2>6. layer' \subseteq tree' /\ nextLayer' \subseteq tree'
    BY <2>1 DEF Searching
  <2>7. \E m \in Nat : /\ \A s \in layer' : s.level = m
                       /\ \A s \in nextLayer' : s.level = m + 1
                       /\ \A s \in tree' : s.level =< m + 1
    BY <2>1, <2>4, <2>5
  <2>8. ASSUME NEW c \in tree', c.level > 0
        PROVE  \E s \in tree' : s.node = c.parent /\ c.node \in Adjacent(s.node) /\ c.level = s.level + 1
    <3>1. CASE c \in tree
      BY <2>1, <2>8, <3>1 DEF Searching
    <3>2. CASE c \in Children(t)
      BY <2>1, <2>2, <2>4, <2>5, <3>2
    <3>. QED
      BY <2>1, <3>1, <3>2
  <2>9. ASSUME NEW c \in tree' \ (layer' \cup nextLayer'), NEW v \in Adjacent(c.node)
        PROVE  \E s \in tree' : s.node = v /\ s.level =< c.level + 1
    <3>1. CASE c # t
      BY <2>1, <2>9, <3>1 DEF Searching
    <3>2. CASE c = t /\ InTree(v)
      BY <2>1, <2>4, <3>2 DEF InTree
    <3>3. CASE c = t /\ ~InTree(v)
      <4>1. [node |-> v, parent |-> t.node, level |-> t.level + 1] \in Children(t)
        BY <2>9, <3>3 DEF Children
      <4>2. t.level + 1 =< t.level + 1
        BY <2>2
      <4>. QED
        BY <2>1, <3>3, <4>1, <4>2
    <3>. QED
      BY <3>1, <3>2, <3>3
  <2>. QED
    BY <2>3, <2>6, <2>7, <2>8, <2>9 DEF Searching
<1>3. ASSUME NextLayer PROVE Searching'
  <2>1. /\ Searching /\ UNCHANGED <<links, tree>> /\ layer = {}
        /\ layer' = nextLayer /\ nextLayer' = {}
    BY <1>0, <1>3 DEF NextLayer
  <2>2. \A u : Adjacent(u)' = Adjacent(u)
    BY <2>1, SameGraph
  <2>3. PICK k \in Nat : /\ \A s \in nextLayer : s.level = k + 1
                         /\ \A s \in tree : s.level =< k + 1
    BY <2>1 DEF Searching
  <2>4. \A s \in tree : s.level \in Nat
    BY <1>0 DEF TypeOK, Node
  <2>5. \E m \in Nat : /\ \A s \in layer' : s.level = m
                       /\ \A s \in nextLayer' : s.level = m + 1
                       /\ \A s \in tree' : s.level =< m + 1
    <3>1. k + 1 \in Nat /\ \A s \in tree : s.level =< (k + 1) + 1
      BY <2>3, <2>4
    <3>. QED
      BY <2>1, <2>3, <3>1
  <2>. QED
    BY <2>1, <2>2, <2>5 DEF Searching
<1>4. ASSUME \/ \E l \in Issued : NewLsa(l) \/ RegisteredLsa(l)
             \/ StartTrees \/ EndTree \/ EndTrees \/ StartRoutes \/ EndPaths \/ Install
             \/ \E e \in queue : Skip(e) \/ Settle(e)
             \/ \E e \in res : Insert(e)
      PROVE  pc' # "layer"
  BY <1>4 DEF NewLsa, RegisteredLsa, insertLsa, StartTrees, EndTree, EndTrees, StartRoutes, EndPaths, Install,
              Skip, Settle, Insert
<1>. QED
  BY <1>1, <1>2, <1>3, <1>4 DEF Next

\* The search for paths does not run, or its result is read.
LEMMA PathsKept ==
    ASSUME Paths, UNCHANGED <<links, pathVars>>,
           pc' \in {"paths", "insert"} <=> pc \in {"paths", "insert"},
           pc' = "paths" <=> pc = "paths"
    PROVE  Paths'
<1>1. /\ \A u : Adjacent(u)' = Adjacent(u)
      /\ \A u, v : Weight(u, v)' = Weight(u, v)
      /\ \A e, v : Extend(e, v)' = Extend(e, v)
  BY SameGraph
<1>2. res' = res /\ queue' = queue
  BY DEF pathVars
<1>3. \A v : Settled(v)' = Settled(v)
  BY <1>2 DEF Settled
<1>4. Origin' = Origin
  BY DEF Origin
<1>5. Chained'
  BY <1>1, <1>2, <1>4 DEF Paths, Chained
<1>6. Ordered' /\ Single'
  BY <1>2 DEF Paths, Ordered, Single
<1>7. Queued'
  BY <1>1, <1>2, <1>3 DEF Paths, Queued
<1>8. Short'
  BY <1>1, <1>2 DEF Paths, Short
<1>9. Idle'
  BY <1>2 DEF Paths, Idle
<1>. QED
  BY <1>5, <1>6, <1>7, <1>8, <1>9 DEF Paths

LEMMA PathsEmpty ==
    ASSUME res' = {}, queue' = {}
    PROVE  Paths'
BY DEF Paths, Chained, Ordered, Queued, Single, Short, Idle

\* Settling the cheapest entry.
LEMMA SettleStep ==
    ASSUME TypeOK, Paths, NEW e \in queue, Settle(e)
    PROVE  Paths'
<1> DEFINE new == {Extend(e, v) : v \in Adjacent(e.target)}
<1>1. /\ pc = "paths" /\ pc' = pc /\ UNCHANGED links /\ ~Settled(e.target)
      /\ res' = res \cup {e} /\ queue' = (queue \ {e}) \cup new
      /\ \A f \in queue : e.cost =< f.cost
  BY DEF Settle, dbVars, Cheapest
<1>2. /\ \A u : Adjacent(u)' = Adjacent(u)
      /\ \A u, v : Weight(u, v)' = Weight(u, v)
      /\ \A f, v : Extend(f, v)' = Extend(f, v)
  BY <1>1, SameGraph
<1>3. e \in Edge /\ res \subseteq Edge /\ queue \subseteq Edge
  BY DEF TypeOK
<1>4. \A f \in Edge : f.cost \in Nat /\ f.target \in Router
  BY DEF Edge
<1>5. ASSUME NEW f \in Edge, NEW v \in Adjacent(f.target)
      PROVE  /\ Extend(f, v) \in Edge /\ Extend(f, v).target = v
             /\ Extend(f, v).cost = f.cost + Weight(f.target, v)
             /\ f.cost =< Extend(f, v).cost
  BY ExtendType
<1>6. \A f \in new : \E v \in Adjacent(e.target) : f = Extend(e, v)
  OBVIOUS
<1>7. \A v \in Adjacent(e.target) : Extend(e, v) \in new
  OBVIOUS
<1> HIDE DEF new
<1>8. \A f \in new : f.target \in Adjacent(e.target) /\ f = Extend(e, f.target) /\ e.cost =< f.cost
                     /\ f.cost \in Nat
  BY <1>3, <1>4, <1>5, <1>6
<1>9. \A v : Settled(v)' <=> Settled(v) \/ v = e.target
  BY <1>1 DEF Settled
<1>10. Chained'
  <2>1. ASSUME NEW f \in res' \cup queue', f # Origin
        PROVE  \E d \in res' : f.target \in Adjacent(d.target) /\ f = Extend(d, f.target)
    <3>1. CASE f \in new
      BY <1>1, <1>8, <3>1
    <3>2. CASE f \in res \cup queue
      BY <1>1, <2>1, <3>2 DEF Paths, Chained
    <3>. QED
      BY <1>1, <3>1, <3>2
  <2>2. Origin' = Origin
    BY DEF Origin
  <2>. QED
    BY <1>2, <2>1, <2>2 DEF Chained
<1>11. Ordered'
  <2>1. ASSUME NEW d \in res', NEW f \in queue' PROVE d.cost =< f.cost
    <3>1. d.cost =< e.cost /\ d.cost \in Nat /\ e.cost \in Nat
      BY <1>1, <1>3, <1>4 DEF Paths, Ordered
    <3>2. e.cost =< f.cost /\ f.cost \in Nat
      BY <1>1, <1>3, <1>4, <1>8
    <3>. QED
      BY <3>1, <3>2
  <2>. QED
    BY <2>1 DEF Ordered
<1>12. Queued'
  <2>1. ASSUME NEW d \in res', NEW v \in Adjacent(d.target)
        PROVE  Settled(v)' \/ Extend(d, v) \in queue'
    <3>1. CASE d = e
      BY <1>1, <1>7, <2>1, <3>1
    <3>2. CASE d \in res
      <4>1. Settled(v) \/ Extend(d, v) \in queue
        BY <2>1, <3>2 DEF Paths, Queued
      <4>2. Extend(d, v).target = v
        BY <1>3, <1>5, <2>1, <3>2
      <4>. QED
        BY <1>1, <1>9, <4>1, <4>2
    <3>. QED
      BY <1>1, <3>1, <3>2
  <2>. QED
    BY <1>2, <2>1 DEF Queued
<1>13. Single'
  BY <1>1 DEF Single, Paths, Settled
<1>14. Short'
  <2>1. ASSUME NEW d \in res', NEW f \in res', f.target \in Adjacent(d.target)
        PROVE  f.cost =< d.cost + Weight(d.target, f.target)
    <3>1. /\ d \in Edge /\ f \in Edge /\ d.cost \in Nat /\ f.cost \in Nat /\ e.cost \in Nat
          /\ Weight(d.target, f.target) \in Nat
      BY <1>1, <1>3, <1>4, <2>1, Weights
    <3>2. CASE d = e
      <4>1. f.cost =< e.cost
        BY <1>1, <3>1 DEF Paths, Ordered
      <4>. QED
        BY <3>1, <3>2, <4>1
    <3>3. CASE d \in res /\ f \in res
      BY <2>1, <3>3 DEF Paths, Short
    <3>4. CASE d \in res /\ f = e
      <4>1. Extend(d, e.target) \in queue
        BY <1>1, <2>1, <3>4 DEF Paths, Queued
      <4>2. e.cost =< Extend(d, e.target).cost
        BY <1>1, <4>1
      <4>. QED
        BY <1>5, <2>1, <3>1, <3>4, <4>2
    <3>. QED
      BY <1>1, <3>2, <3>3, <3>4
  <2>. QED
    BY <1>2, <2>1 DEF Short
<1>15. Idle'
  BY <1>1 DEF Idle
<1>. QED
  BY <1>10, <1>11, <1>12, <1>13, <1>14, <1>15 DEF Paths

LEMMA PathStep ==
    ASSUME TypeOK, Paths, Next
    PROVE  Paths'
<1> USE DEF dbVars, treeVars
<1>1. ASSUME \E l \in Issued : NewLsa(l) \/ RegisteredLsa(l)
      PROVE  Paths'
  <2>1. res = {} /\ queue = {} /\ UNCHANGED pathVars
    BY <1>1 DEF Paths, Idle, NewLsa, RegisteredLsa, insertLsa
  <2>. QED
    BY <2>1, PathsEmpty DEF pathVars
<1>2. ASSUME \/ \E p \in todo : StartTree(p)
             \/ \E t \in layer : Expand(t)
             \/ StartTrees \/ NextLayer \/ EndTree \/ EndTrees
             \/ \E e \in res : Insert(e)
      PROVE  Paths'
  <2>1. UNCHANGED <<links, pathVars>>
    BY <1>2 DEF StartTrees, StartTree, Expand, NextLayer, EndTree, EndTrees, Insert
  <2>2. /\ pc' \in {"paths", "insert"} <=> pc \in {"paths", "insert"}
        /\ pc' = "paths" <=> pc = "paths"
    BY <1>2 DEF StartTrees, StartTree, Expand, NextLayer, EndTree, EndTrees, Insert
  <2>. QED
    BY <2>1, <2>2, PathsKept
<1>3. ASSUME StartRoutes
      PROVE  Paths'
  <2>1. res = {} /\ queue = {} /\ res' = {}
    BY <1>3 DEF StartRoutes, Paths, Idle
  <2>2. (queue' = {Origin} /\ pc' = "paths") \/ queue' = {}
    BY <1>3, <2>1 DEF StartRoutes, pathVars
  <2>3. CASE queue' = {Origin} /\ pc' = "paths"
    <3>1. Origin' = Origin
      BY DEF Origin
    <3>. QED
      BY <2>1, <2>3, <3>1 DEF Paths, Chained, Ordered, Queued, Single, Short, Idle
  <2>. QED
    BY <2>1, <2>2, <2>3, PathsEmpty
<1>4. ASSUME NEW e \in queue, Skip(e)
      PROVE  Paths'
  <2>1. /\ pc = "paths" /\ pc' = pc /\ UNCHANGED links /\ Settled(e.target)
        /\ res' = res /\ queue' = queue \ {e}
    BY <1>4 DEF Skip
  <2>2. /\ \A u : Adjacent(u)' = Adjacent(u)
        /\ \A u, v : Weight(u, v)' = Weight(u, v)
        /\ \A f, v : Extend(f, v)' = Extend(f, v)
    BY <2>1, SameGraph
  <2>3. \A v : Settled(v)' = Settled(v)
    BY <2>1 DEF Settled
  <2>4. \A d \in res : \A v \in Adjacent(d.target) : Extend(d, v).target = v
    BY ExtendType DEF TypeOK
  <2>5. Chained'
    BY <2>1, <2>2 DEF Paths, Chained, Origin
  <2>6. Ordered' /\ Single'
    BY <2>1 DEF Paths, Ordered, Single
  <2>7. Queued'
    BY <2>1, <2>2, <2>3, <2>4 DEF Paths, Queued
  <2>8. Short' /\ Idle'
    BY <2>1, <2>2 DEF Paths, Short, Idle
  <2>. QED
    BY <2>5, <2>6, <2>7, <2>8 DEF Paths
<1>5. ASSUME NEW e \in queue, Settle(e)
      PROVE  Paths'
  BY <1>5, SettleStep
<1>6. ASSUME EndPaths
      PROVE  Paths'
  <2>1. CASE res' = {}
    BY <1>6, <2>1, PathsEmpty DEF EndPaths
  <2>2. CASE pc' = "insert" /\ UNCHANGED res
    <3>1. pc = "paths" /\ queue = {} /\ UNCHANGED <<links, queue, res>>
      BY <1>6, <2>2 DEF EndPaths
    <3>2. /\ \A u : Adjacent(u)' = Adjacent(u)
          /\ \A u, v : Weight(u, v)' = Weight(u, v)
          /\ \A f, v : Extend(f, v)' = Extend(f, v)
      BY <3>1, SameGraph
    <3>3. \A v : Settled(v)' = Settled(v)
      BY <3>1 DEF Settled
    <3>4. Chained' /\ Ordered' /\ Single'
      BY <3>1, <3>2 DEF Paths, Chained, Ordered, Single, Origin
    <3>5. Queued'
      BY <3>1, <3>2, <3>3 DEF Paths, Queued
    <3>6. Short' /\ Idle'
      BY <2>2, <3>1, <3>2 DEF Paths, Short, Idle
    <3>. QED
      BY <3>4, <3>5, <3>6 DEF Paths
  <2>. QED
    BY <1>6, <2>1, <2>2 DEF EndPaths
<1>7. ASSUME Install
      PROVE  Paths'
  <2>1. res' = {} /\ queue' = {}
    BY <1>7 DEF Install, Paths, Idle
  <2>. QED
    BY <2>1, PathsEmpty
<1>. QED
  BY <1>1, <1>2, <1>3, <1>4, <1>5, <1>6, <1>7 DEF Next

\* The invariant, of every state of every behaviour.
LEMMA Invariant == Spec => []IInv
<1>1. Init => IInv
  BY InitOK
<1>2. IInv /\ [Next]_vars => IInv'
  <2>1. CASE Next
    BY <2>1, TypeStep, SearchStep, PathStep DEF IInv
  <2>2. CASE UNCHANGED vars
    <3>1. UNCHANGED <<links, pathVars, pc>>
      BY <2>2 DEF vars, dbVars
    <3>2. ASSUME IInv PROVE Paths'
      BY <3>1, <3>2, PathsKept DEF IInv
    <3>3. ASSUME IInv PROVE TypeOK'
      BY <2>2, <3>3 DEF IInv, TypeOK, vars, dbVars, treeVars, pathVars
    <3>4. ASSUME IInv, pc' = "layer" PROVE Searching'
      <4>1. Searching /\ UNCHANGED <<layer, nextLayer, tree>>
        BY <2>2, <3>1, <3>4 DEF IInv, vars, treeVars
      <4>2. \A u : Adjacent(u)' = Adjacent(u)
        BY <3>1, SameGraph
      <4>. QED
        BY <4>1, <4>2 DEF Searching
    <3>. QED
      BY <3>2, <3>3, <3>4 DEF IInv
  <2>. QED
    BY <2>1, <2>2
<1>. QED
  BY <1>1, <1>2, PTL DEF Spec

-----------------------------------------------------------------------------
(* Paths and their costs.                                                  *)

\* Induction along an interval.
LEMMA Upto ==
    ASSUME NEW n \in Nat, NEW S, 1 \in S, \A k \in 1 .. n - 1 : k \in S => k + 1 \in S
    PROVE  \A k \in 1 .. n : k \in S
<1> DEFINE bad == {k \in 1 .. n : k \notin S}
<1>1. bad \in SUBSET Nat
  OBVIOUS
<1>2. SUFFICES ASSUME bad # {} PROVE FALSE
  OBVIOUS
<1>3. PICK m \in bad : \A k \in bad : m =< k
  BY <1>1, <1>2, Least
<1>4. m - 1 \in 1 .. n - 1 /\ m - 1 \notin bad
  BY <1>3
<1>. QED
  BY <1>3, <1>4

\* An element none is below is the least.
LEMMA MinIs ==
    ASSUME NEW S \in SUBSET Nat, NEW m \in S, \A x \in S : m =< x
    PROVE  Min(S) = m
<1> DEFINE Least1(x) == x \in S /\ \A y \in S : x =< y
<1>1. Least1(CHOOSE x : Least1(x))
  <2>1. Least1(m)
    OBVIOUS
  <2> HIDE DEF Least1
  <2>. QED
    BY <2>1
<1>2. Min(S) = CHOOSE x : Least1(x)
  BY Zenon DEF Min
<1>3. Min(S) \in S /\ \A x \in S : Min(S) =< x
  BY <1>1, <1>2
<1>4. \A x, y \in Nat : x =< y /\ y =< x => x = y
  OBVIOUS
<1>5. Min(S) \in Nat /\ m \in Nat /\ m =< Min(S) /\ Min(S) =< m
  BY <1>3
<1>. QED
  BY <1>4, <1>5

\* A path without repetition is one of SimplePaths.
LEMMA IsSimple ==
    ASSUME NEW n \in Nat \ {0}, NEW p \in [1 .. n -> Router],
           \A j, k \in 1 .. n : p[j] = p[k] => j = k
    PROVE  p \in SimplePaths /\ Len(p) = n
<1>1. p \in Injection(1 .. n, Router)
  BY DEF Injection, IsInjective
<1>2. Cardinality(1 .. n) = n
  <2>1. 1 \in Int /\ n \in Int /\ (IF 1 > n THEN 0 ELSE n - 1 + 1) = n
    OBVIOUS
  <2>2. Cardinality(1 .. n) = IF 1 > n THEN 0 ELSE n - 1 + 1
    BY <2>1, FS_Interval
  <2>. QED
    BY <2>1, <2>2
<1>3. Cardinality(Router) \in Nat
  BY RouterAssumption, FS_CardinalityType
<1>4. n =< Cardinality(Router)
  BY <1>1, <1>2, RouterAssumption, FS_Injection
<1>5. n \in 1 .. Cardinality(Router)
  BY <1>3, <1>4
<1>. QED
  BY <1>5 DEF SimplePaths

LEMMA PathType ==
    ASSUME NEW p \in SimplePaths
    PROVE  Len(p) \in Nat \ {0} /\ p \in [1 .. Len(p) -> Router]
<1>1. Cardinality(Router) \in Nat
  BY RouterAssumption, FS_CardinalityType
<1>2. PICK n \in 1 .. Cardinality(Router) : p \in [1 .. n -> Router]
  BY DEF SimplePaths
<1>3. n \in Nat \ {0}
  BY <1>1
<1>. QED
  BY <1>2, <1>3

\* The costs along a path are its weights, added up.
LEMMA CostsAre ==
    ASSUME NEW n \in Nat \ {0}, NEW p \in [1 .. n -> Router]
    PROVE  /\ Costs(p)[1] = 0
           /\ \A k \in 1 .. n - 1 : Costs(p)[k + 1] = Costs(p)[k] + Weight(p[k], p[k + 1])
<1> DEFINE Step(c, k) == IF k = 1 THEN 0 ELSE c[k - 1] + Weight(p[k - 1], p[k])
           Sums(c) == c = [k \in DOMAIN p |-> Step(c, k)]
           S == {m \in 1 .. n : \E c : c = [k \in 1 .. m |-> Step(c, k)]}
<1>1. 1 \in S
  <2> DEFINE c == [k \in 1 .. 1 |-> 0]
  <2>1. c = [k \in 1 .. 1 |-> Step(c, k)]
    OBVIOUS
  <2> HIDE DEF c, Step
  <2>2. \E d : d = [k \in 1 .. 1 |-> Step(d, k)]
    BY <2>1
  <2>. QED
    BY <2>2
<1>2. ASSUME NEW m \in 1 .. n - 1, m \in S PROVE m + 1 \in S
  <2>1. PICK c : c = [k \in 1 .. m |-> Step(c, k)]
    BY <1>2
  <2> DEFINE d == [k \in 1 .. m + 1 |-> IF k = m + 1 THEN Step(c, k) ELSE c[k]]
  <2>2. ASSUME NEW k \in 1 .. m + 1 PROVE d[k] = Step(d, k)
    <3>1. CASE k = m + 1
      <4>1. k - 1 \in 1 .. m + 1 /\ k - 1 # m + 1 /\ d[k - 1] = c[k - 1]
        BY <3>1
      <4>. QED
        BY <3>1, <4>1
    <3>2. CASE k # m + 1
      <4>1. k \in 1 .. m /\ d[k] = c[k] /\ c[k] = Step(c, k)
        BY <2>1, <3>2
      <4>2. k # 1 => d[k - 1] = c[k - 1]
        BY <4>1
      <4>. QED
        BY <4>1, <4>2
    <3>. QED
      BY <3>1, <3>2
  <2>3. d = [k \in 1 .. m + 1 |-> d[k]]
    OBVIOUS
  <2>4. d = [k \in 1 .. m + 1 |-> Step(d, k)]
    <3> HIDE DEF d
    <3>. QED
      BY <2>2, <2>3
  <2> HIDE DEF d, Step
  <2>5. \E e : e = [k \in 1 .. m + 1 |-> Step(e, k)]
    BY <2>4
  <2>. QED
    BY <2>5
<1>3. n \in S
  <2> HIDE DEF S
  <2>1. \A k \in 1 .. n : k \in S
    BY <1>1, <1>2, Upto
  <2>. QED
    BY <2>1
<1>4. Sums(CHOOSE c : Sums(c))
  <2>1. \E c : Sums(c)
    BY <1>3
  <2> HIDE DEF Sums
  <2>. QED
    BY <2>1
<1>5. Costs(p) = CHOOSE c : Sums(c)
  BY DEF Costs
<1>6. Costs(p) = [k \in 1 .. n |-> Step(Costs(p), k)]
  BY <1>4, <1>5
<1>. QED
  BY <1>6

\* Whoever adds them up gets the same.
LEMMA CostsUnique ==
    ASSUME NEW n \in Nat \ {0}, NEW p \in [1 .. n -> Router], NEW c,
           c[1] = 0, \A k \in 1 .. n - 1 : c[k + 1] = c[k] + Weight(p[k], p[k + 1])
    PROVE  \A k \in 1 .. n : Costs(p)[k] = c[k]
<1> DEFINE S == {k \in 1 .. n : Costs(p)[k] = c[k]}
<1>1. 1 \in S
  BY CostsAre
<1>2. ASSUME NEW k \in 1 .. n - 1, k \in S PROVE k + 1 \in S
  BY <1>2, CostsAre
<1> HIDE DEF S
<1>3. \A k \in 1 .. n : k \in S
  BY <1>1, <1>2, Upto
<1>. QED
  BY <1>3 DEF S

-----------------------------------------------------------------------------
(* The graph.                                                              *)

\* An edge leads both ways, and is worth something.
LEMMA Edges ==
    ASSUME TypeOK, NEW u \in Router, NEW v \in Adjacent(u)
    PROVE  v \in Router /\ u \in Adjacent(v) /\ Weight(u, v) \in Nat \ {0}
<1>1. v \in Router /\ Claims(u, v) # {}
  BY DEF Adjacent
<1>2. Claims(u, v) \subseteq Nat \ {0}
  BY <1>1 DEF Claims, TypeOK, Link
<1>3. \E c \in Claims(u, v) : \A d \in Claims(u, v) : c =< d
  BY <1>1, <1>2, Least
<1>4. Weight(u, v) \in Claims(u, v)
  BY <1>3 DEF Weight
<1>5. Claims(v, u) = Claims(u, v)
  BY DEF Claims
<1>. QED
  BY <1>1, <1>2, <1>4, <1>5 DEF Adjacent

\* The costs of a path grow.
LEMMA CostsGrow ==
    ASSUME TypeOK, NEW n \in Nat \ {0}, NEW p \in [1 .. n -> Router],
           \A k \in 1 .. n - 1 : p[k + 1] \in Adjacent(p[k])
    PROVE  /\ \A k \in 1 .. n : Costs(p)[k] \in Nat
           /\ \A j, k \in 1 .. n : j < k => Costs(p)[j] < Costs(p)[k]
<1> DEFINE c == Costs(p)
           S == {k \in 1 .. n : c[k] \in Nat /\ \A j \in 1 .. k - 1 : c[j] \in Nat /\ c[j] < c[k]}
<1>1. /\ c[1] = 0
      /\ \A k \in 1 .. n - 1 : c[k + 1] = c[k] + Weight(p[k], p[k + 1])
  BY CostsAre
<1>2. \A k \in 1 .. n - 1 : Weight(p[k], p[k + 1]) \in Nat \ {0}
  BY Edges
<1> HIDE DEF c
<1>3. 1 \in S
  BY <1>1
<1>4. ASSUME NEW k \in 1 .. n - 1, k \in S PROVE k + 1 \in S
  <2>1. c[k + 1] \in Nat /\ c[k] < c[k + 1] /\ c[k] \in Nat
    BY <1>1, <1>2, <1>4
  <2>2. ASSUME NEW j \in 1 .. k PROVE c[j] \in Nat /\ c[j] < c[k + 1]
    BY <1>4, <2>1
  <2>. QED
    BY <2>1, <2>2
<1> HIDE DEF S
<1>5. \A k \in 1 .. n : k \in S
  BY <1>3, <1>4, Upto
<1>6. \A k \in 1 .. n : c[k] \in Nat /\ \A j \in 1 .. k - 1 : c[j] < c[k]
  BY <1>5 DEF S
<1>. QED
  BY <1>6 DEF c

\* The networks, paths and distances are those of the database.
LEMMA SamePaths ==
    ASSUME UNCHANGED dbVars
    PROVE  /\ Vertex' = Vertex /\ (Consistent <=> Consistent')
           /\ \A u, v : Between(u, v)' = Between(u, v) /\ Hops(u, v)' = Hops(u, v)
           /\ \A u, n : CostsTo(u, n)' = CostsTo(u, n)
<1>1. held' = held /\ links' = links
  BY DEF dbVars
<1>2. Vertex' = Vertex /\ Consistent' = Consistent
  BY <1>1 DEF Vertex, Consistent
<1>3. \A u, v : Between(u, v)' = Between(u, v)
  BY <1>1 DEF Between, Adjacent, Claims
<1>4. \A u, v : Hops(u, v)' = Hops(u, v)
  BY <1>3 DEF Hops
<1>5. \A p : Costs(p)' = Costs(p)
  BY <1>1 DEF Costs, Weight, Claims
<1>6. \A u, n : CostsTo(u, n)' = CostsTo(u, n)
  BY <1>1, <1>3, <1>5 DEF CostsTo, Nets
<1>. QED
  BY <1>2, <1>3, <1>4, <1>6

-----------------------------------------------------------------------------
(* The parents.                                                            *)

Root(t) == t \in tree /\ t.level = 0

\* A tree has one root, which has been taken off the list of roots, and a
\* router is in it once.
Growing ==
    /\ \A s, t \in tree : s.node = t.node => s = t
    /\ \E r \in tree : /\ r.level = 0 /\ r.node \in Vertex \ todo
                       /\ \A t \in tree : t.level = 0 => t = r

\* The roots whose trees are finished.
Finished ==
    {v \in Vertex : /\ pc \in {"trees", "layer"} => v \notin todo
                    /\ pc = "layer" => \A t \in tree : Root(t) => t.node # v}

Closer(p) == p[1] # me => Nearer(me, p[2], p[1])

Parented ==
    plan \in {<<>>, <<"routes">>} =>
        /\ \A p \in parents : Closer(p)
        /\ {p[1] : p \in parents} = {r \in Finished : Between(me, r) # {}}

Planned ==
    /\ pc = "idle" => plan \in {<<>>, <<"routes">>, <<"trees">>,
                                <<"trees", "routes">>, <<"routes", "trees">>}
    /\ pc \in {"trees", "layer"} => plan \in {<<>>, <<"routes">>} /\ todo \subseteq Vertex
    /\ pc \in {"paths", "insert"} => plan \in {<<>>, <<"trees">>}

\* A path of n routers along the tree, from the router of t to the root.
Leads(r, t, n) ==
    \E p \in [1 .. n -> Router] :
      /\ p[1] = t.node /\ p[n] = r.node
      /\ \A k \in 1 .. n - 1 : p[k + 1] \in Adjacent(p[k])
      /\ \A k \in 1 .. n : \E s \in tree : s.node = p[k] /\ s.level = n - k

\* A finished tree has a path from each of its routers to the root, of as many
\* hops as its level.
LEMMA TreePath ==
    ASSUME TypeOK, Searching, Growing, NEW r, Root(r), NEW t \in tree
    PROVE  Leads(r, t, t.level + 1)
<1> DEFINE stray == {s \in tree : ~Leads(r, s, s.level + 1)}
           bad == {s.level : s \in stray}
<1>1. \A s \in tree : s.level \in Nat /\ s.node \in Router
  BY DEF TypeOK, Node
<1>2. ASSUME NEW s \in tree, s.level = 0 PROVE Leads(r, s, s.level + 1)
  <2>1. s = r
    BY <1>2 DEF Growing, Root
  <2> DEFINE p == [k \in 1 .. 1 |-> s.node]
  <2>2. p \in [1 .. 1 -> Router] /\ p[1] = s.node
    BY <1>1
  <2>3. \A k \in 1 .. 1 : s.node = p[k] /\ s.level = 1 - k
    BY <1>2
  <2> HIDE DEF p
  <2>4. Leads(r, s, 1)
    BY <2>1, <2>2, <2>3 DEF Leads
  <2>. QED
    BY <1>2, <2>4
<1>3. ASSUME NEW s \in tree, NEW d \in tree, s.level = d.level + 1, Leads(r, d, d.level + 1),
             s.node \in Adjacent(d.node)
      PROVE  Leads(r, s, s.level + 1)
  <2> DEFINE n == d.level + 1
  <2>1. n \in Nat \ {0} /\ s.level = n /\ s.node \in Router /\ d.node \in Router
    BY <1>1, <1>3
  <2>2. PICK q \in [1 .. n -> Router] :
               /\ q[1] = d.node /\ q[n] = r.node
               /\ \A k \in 1 .. n - 1 : q[k + 1] \in Adjacent(q[k])
               /\ \A k \in 1 .. n : \E x \in tree : x.node = q[k] /\ x.level = n - k
    BY <1>3 DEF Leads
  <2> HIDE DEF n
  <2> DEFINE p == [k \in 1 .. n + 1 |-> IF k = 1 THEN s.node ELSE q[k - 1]]
  <2>3. p \in [1 .. n + 1 -> Router] /\ p[1] = s.node /\ \A k \in 1 .. n : p[k + 1] = q[k]
    BY <2>1
  <2> HIDE DEF p
  <2>4. p[n + 1] = r.node
    BY <2>1, <2>2, <2>3
  <2>5. d.node \in Adjacent(s.node)
    BY <1>3, <2>1, Edges
  <2>6. ASSUME NEW k \in 1 .. n PROVE p[k + 1] \in Adjacent(p[k])
    <3>1. CASE k = 1
      BY <2>1, <2>2, <2>3, <2>5, <3>1
    <3>2. CASE k # 1
      <4>1. k - 1 \in 1 .. n - 1 /\ p[(k - 1) + 1] = q[k - 1] /\ p[k + 1] = q[(k - 1) + 1]
        BY <2>1, <2>3, <3>2
      <4>2. (k - 1) + 1 = k
        OBVIOUS
      <4>. QED
        BY <2>2, <4>1, <4>2
    <3>. QED
      BY <3>1, <3>2
  <2>7. ASSUME NEW k \in 1 .. n + 1
        PROVE  \E x \in tree : x.node = p[k] /\ x.level = n + 1 - k
    <3>1. CASE k = 1
      BY <2>1, <2>3, <3>1
    <3>2. CASE k # 1
      <4>1. k - 1 \in 1 .. n /\ (k - 1) + 1 = k /\ n - (k - 1) = n + 1 - k
        BY <2>1, <3>2
      <4>. QED
        BY <2>2, <2>3, <4>1
    <3>. QED
      BY <3>1, <3>2
  <2>8. \A k \in 1 .. (n + 1) - 1 : p[k + 1] \in Adjacent(p[k])
    <3>1. (n + 1) - 1 = n
      BY <2>1
    <3>. QED
      BY <2>6, <3>1
  <2>9. PICK m \in Nat : m = n + 1
    BY <2>1
  <2>10. Leads(r, s, m)
    <3>1. p \in [1 .. m -> Router] /\ p[1] = s.node /\ p[m] = r.node
      BY <2>3, <2>4, <2>9
    <3>2. \A k \in 1 .. m - 1 : p[k + 1] \in Adjacent(p[k])
      BY <2>8, <2>9
    <3>3. ASSUME NEW k \in 1 .. m PROVE \E x \in tree : x.node = p[k] /\ x.level = m - k
      <4>1. k \in 1 .. n + 1 /\ m - k = n + 1 - k
        BY <2>1, <2>9
      <4>. QED
        BY <2>7, <4>1
    <3>. QED
      BY <3>1, <3>2, <3>3 DEF Leads
  <2>. QED
    BY <2>1, <2>9, <2>10
<1>4. \A s \in tree : s.level # 0 =>
        \E d \in tree : s.node \in Adjacent(d.node) /\ s.level = d.level + 1
  BY <1>1 DEF Searching
<1>5. bad = {}
  <2>1. SUFFICES ASSUME bad # {} PROVE FALSE
    OBVIOUS
  <2>2. bad \in SUBSET Nat
    BY <1>1
  <2>3. PICK m \in bad : \A n \in bad : m =< n
    BY <2>1, <2>2, Least
  <2>4. PICK s \in tree : ~Leads(r, s, s.level + 1) /\ s.level = m
    BY <2>3
  <2>5. PICK d \in tree : s.node \in Adjacent(d.node) /\ s.level = d.level + 1
    BY <1>2, <1>4, <2>4
  <2>6. d.level \in Nat /\ ~(m =< d.level)
    BY <1>1, <2>4, <2>5
  <2>7. d.level \notin bad
    BY <2>3, <2>6
  <2>8. Leads(r, d, d.level + 1)
    BY <2>7
  <2>. QED
    BY <1>3, <2>4, <2>5, <2>8
<1>. QED
  BY <1>5

\* In a finished tree whoever has a path to the root has its place, and no
\* path to the root is shorter than that.
LEMMA TreeBound ==
    ASSUME TypeOK, Searching, layer = {}, nextLayer = {}, NEW r, Root(r),
           NEW v, NEW p \in Between(v, r.node)
    PROVE  \E t \in tree : t.node = v /\ t.level =< Len(p) - 1
<1> DEFINE n == Len(p)
           S == {j \in 1 .. n : \E t \in tree : t.node = p[n + 1 - j] /\ t.level =< j - 1}
<1>1. n \in Nat \ {0} /\ p \in [1 .. n -> Router] /\ p[1] = v /\ p[n] = r.node
  BY PathType DEF Between
<1>2. \A k \in 1 .. n - 1 : p[k + 1] \in Adjacent(p[k])
  BY DEF Between
<1> HIDE DEF n
<1>3. \A t \in tree : t.level \in Nat /\ t.node \in Router
  BY DEF TypeOK, Node
<1>4. 1 \in S
  <2>1. r \in tree /\ r.node = p[n + 1 - 1] /\ r.level =< 1 - 1
    BY <1>1 DEF Root
  <2>. QED
    BY <1>1, <2>1
<1>5. ASSUME NEW j \in 1 .. n - 1, j \in S PROVE j + 1 \in S
  <2>1. PICK t \in tree : t.node = p[n + 1 - j] /\ t.level =< j - 1
    BY <1>5
  <2> DEFINE k == n - j
  <2>2. k \in 1 .. n - 1 /\ k + 1 = n + 1 - j /\ k = n + 1 - (j + 1)
    BY <1>1
  <2>3. p[k] \in Router /\ p[k + 1] \in Adjacent(p[k])
    BY <1>1, <1>2, <2>2
  <2>4. p[k] \in Adjacent(t.node)
    BY <2>1, <2>2, <2>3, Edges
  <2>5. PICK s \in tree : s.node = p[k] /\ s.level =< t.level + 1
    BY <2>4 DEF Searching
  <2>6. s.level =< (j + 1) - 1
    BY <1>3, <2>1, <2>5
  <2>. QED
    BY <1>1, <2>2, <2>5, <2>6
<1> HIDE DEF S
<1>6. \A j \in 1 .. n : j \in S
  BY <1>1, <1>4, <1>5, Upto
<1>7. n \in S /\ n + 1 - n = 1
  BY <1>1, <1>6
<1>. QED
  BY <1>1, <1>7 DEF S, n

\* The levels of a finished tree are the distances from its root.
LEMMA Levels ==
    ASSUME TypeOK, Searching, Growing, layer = {}, nextLayer = {}, NEW r, Root(r), NEW t \in tree
    PROVE  Between(t.node, r.node) # {} /\ Hops(t.node, r.node) = t.level
<1> DEFINE n == t.level + 1
           lengths == {Len(q) - 1 : q \in Between(t.node, r.node)}
<1>1. t.level \in Nat /\ n \in Nat \ {0}
  BY DEF TypeOK, Node
<1>2. PICK p \in [1 .. n -> Router] :
             /\ p[1] = t.node /\ p[n] = r.node
             /\ \A k \in 1 .. n - 1 : p[k + 1] \in Adjacent(p[k])
             /\ \A k \in 1 .. n : \E s \in tree : s.node = p[k] /\ s.level = n - k
  <2>1. Leads(r, t, n)
    BY TreePath
  <2>. QED
    BY <2>1 DEF Leads
<1>3. \A j, k \in 1 .. n : p[j] = p[k] => j = k
  <2>1. ASSUME NEW j \in 1 .. n, NEW k \in 1 .. n, p[j] = p[k] PROVE j = k
    <3>1. PICK x \in tree : x.node = p[j] /\ x.level = n - j
      BY <1>2
    <3>2. PICK y \in tree : y.node = p[k] /\ y.level = n - k
      BY <1>2
    <3>3. x = y
      BY <2>1, <3>1, <3>2 DEF Growing
    <3>. QED
      BY <1>1, <3>1, <3>2, <3>3
  <2>. QED
    BY <2>1
<1>4. p \in SimplePaths /\ Len(p) = n
  BY <1>1, <1>3, IsSimple
<1>5. p \in Between(t.node, r.node)
  BY <1>2, <1>4 DEF Between
<1>6. t.level \in lengths
  BY <1>1, <1>4, <1>5
<1>7. ASSUME NEW q \in Between(t.node, r.node) PROVE Len(q) - 1 \in Nat /\ t.level =< Len(q) - 1
  <2>1. Len(q) \in Nat \ {0}
    BY PathType DEF Between
  <2>2. PICK s \in tree : s.node = t.node /\ s.level =< Len(q) - 1
    BY TreeBound
  <2>3. s = t
    BY <2>2 DEF Growing
  <2>. QED
    BY <2>1, <2>2, <2>3
<1>8. Min(lengths) = t.level
  <2>1. lengths \in SUBSET Nat /\ \A x \in lengths : t.level =< x
    BY <1>7
  <2> HIDE DEF lengths
  <2>. QED
    BY <1>6, <2>1, MinIs
<1>. QED
  BY <1>5, <1>8 DEF Hops

\* A router whose LSA is not held has no links.
Listed == \A r \in Router \ held : links[r] = {}

\* The tree that is being searched.
Grown == pc = "layer" => Growing

\* A router with an edge is a vertex.
LEMMA Ends ==
    ASSUME TypeOK, Listed, NEW u \in Router, NEW v \in Adjacent(u)
    PROVE  u \in Vertex /\ v \in Vertex
<1>1. v \in Router /\ Claims(u, v) # {}
  BY DEF Adjacent
<1>2. CASE \E l \in links[u] : l.to = v
  <2>1. u \in held
    BY <1>2 DEF Listed
  <2>. QED
    BY <1>2, <2>1 DEF Vertex
<1>3. CASE \E l \in links[v] : l.to = u
  <2>1. v \in held
    BY <1>1, <1>3 DEF Listed
  <2>. QED
    BY <1>3, <2>1 DEF Vertex
<1>. QED
  BY <1>1, <1>2, <1>3 DEF Claims

\* Who is no vertex reaches none.
LEMMA NoVertex ==
    ASSUME TypeOK, Listed, NEW u \in Router \ Vertex, NEW v \in Vertex
    PROVE  Between(u, v) = {}
<1>1. SUFFICES ASSUME NEW p \in Between(u, v) PROVE FALSE
  OBVIOUS
<1>2. Len(p) \in Nat \ {0} /\ p[1] = u /\ p[Len(p)] = v
      /\ \A k \in 1 .. Len(p) - 1 : p[k + 1] \in Adjacent(p[k])
  BY PathType DEF Between
<1>3. CASE Len(p) = 1
  BY <1>2, <1>3
<1>4. CASE Len(p) # 1
  <2>1. 1 \in 1 .. Len(p) - 1
    BY <1>2, <1>4
  <2>. QED
    BY <1>2, <2>1, Ends
<1>. QED
  BY <1>3, <1>4

\* A router has links only once its LSA has come.
LEMMA ListedStep ==
    ASSUME TypeOK, Listed, Next
    PROVE  Listed'
<1>1. ASSUME NEW l \in Issued, insertLsa(l) PROVE Listed'
  <2>1. l.origin \in Router
    BY IssuedAssumption
  <2>2. held' = held \cup {l.origin} /\ \A r \in Router \ {l.origin} : links'[r] = links[r]
    BY <1>1, <2>1 DEF insertLsa, TypeOK
  <2>. QED
    BY <2>2 DEF Listed
<1>2. CASE UNCHANGED dbVars
  BY <1>2 DEF Listed, dbVars
<1>3. UNCHANGED dbVars \/ \E l \in Issued : insertLsa(l)
  BY DEF Next, NewLsa, RegisteredLsa, StartTrees, StartTree, Expand, NextLayer, EndTree, EndTrees,
         StartRoutes, Skip, Settle, EndPaths, Insert, Install
<1>. QED
  BY <1>1, <1>2, <1>3

\* What is left of a plan.
LEMMA Rests ==
    \A a, b : Tail(<<a>>) = <<>> /\ Tail(<<a, b>>) = <<b>>
OBVIOUS

\* What is still to be computed, in each stage.
LEMMA PlannedStep ==
    ASSUME TypeOK, Planned, Next
    PROVE  Planned'
<1>1. ASSUME \E l \in Issued : NewLsa(l) \/ RegisteredLsa(l) PROVE Planned'
  BY <1>1 DEF Planned, NewLsa, RegisteredLsa, insertLsa
<1>2. ASSUME StartTrees PROVE Planned'
  <2>1. Vertex' = Vertex
    BY <1>2, SamePaths DEF StartTrees
  <2>2. plan \in {<<"trees">>, <<"trees", "routes">>}
    BY <1>2 DEF StartTrees, Planned
  <2>3. plan' \in {<<>>, <<"routes">>}
    BY <1>2, <2>2, Rests, Zenon DEF StartTrees
  <2>. QED
    BY <1>2, <2>1, <2>3 DEF StartTrees, Planned
<1>3. ASSUME StartRoutes PROVE Planned'
  <2>1. plan \in {<<"routes">>, <<"routes", "trees">>}
    BY <1>3 DEF StartRoutes, Planned
  <2>2. plan' \in {<<>>, <<"trees">>}
    BY <1>3, <2>1, Rests, Zenon DEF StartRoutes
  <2>. QED
    BY <1>3, <2>2 DEF StartRoutes, Planned
<1>4. ASSUME \/ \E p \in todo : StartTree(p)
             \/ \E t \in layer : Expand(t)
             \/ NextLayer \/ EndTree \/ EndTrees
      PROVE  Planned'
  <2>1. Vertex' = Vertex
    BY <1>4, SamePaths DEF StartTree, Expand, NextLayer, EndTree, EndTrees
  <2>2. plan \in {<<>>, <<"routes">>} /\ todo \subseteq Vertex
    BY <1>4 DEF StartTree, Expand, NextLayer, EndTree, EndTrees, Planned
  <2>. QED
    BY <1>4, <2>1, <2>2 DEF StartTree, Expand, NextLayer, EndTree, EndTrees, Planned
<1>5. ASSUME \/ \E e \in queue : Skip(e) \/ Settle(e)
             \/ EndPaths \/ Install
             \/ \E e \in res : Insert(e)
      PROVE  Planned'
  BY <1>5 DEF Skip, Settle, EndPaths, Install, Insert, Planned
<1>. QED
  BY <1>1, <1>2, <1>3, <1>4, <1>5 DEF Next

\* A tree grows by nodes it did not have.
LEMMA GrowStep ==
    ASSUME TypeOK, Searching \/ pc # "layer", Grown, Planned, Next, pc' = "layer"
    PROVE  Growing'
<1>1. ASSUME NEW p \in todo, StartTree(p) PROVE Growing'
  <2>1. /\ tree' = {[node |-> p, parent |-> p, level |-> 0]} /\ todo' = todo \ {p}
        /\ UNCHANGED dbVars /\ p \in Vertex
    BY <1>1 DEF StartTree, Planned
  <2>. QED
    BY <2>1, SamePaths DEF Growing
<1>2. ASSUME NEW t \in layer, Expand(t) PROVE Growing'
  <2>1. /\ Growing /\ Searching /\ UNCHANGED <<dbVars, todo>> /\ tree' = tree \cup Children(t)
    BY <1>2 DEF Expand, Grown
  <2>2. t.level \in Nat
    BY DEF TypeOK, Node
  <2>3. /\ \A c \in Children(t) : ~InTree(c.node) /\ c.level # 0
        /\ \A c, d \in Children(t) : c.node = d.node => c = d
    BY <2>2 DEF Children
  <2>4. \A c, d \in tree' : c.node = d.node => c = d
    BY <2>1, <2>3 DEF Growing, InTree
  <2>5. PICK r \in tree : /\ r.level = 0 /\ r.node \in Vertex \ todo
                          /\ \A c \in tree : c.level = 0 => c = r
    BY <2>1 DEF Growing
  <2>6. /\ r \in tree' /\ r.level = 0 /\ r.node \in Vertex' \ todo'
        /\ \A c \in tree' : c.level = 0 => c = r
    BY <2>1, <2>3, <2>5, SamePaths
  <2>. QED
    BY <2>4, <2>6 DEF Growing
<1>3. ASSUME NextLayer PROVE Growing'
  <2>1. Growing /\ UNCHANGED <<dbVars, todo, tree>>
    BY <1>3 DEF NextLayer, Grown
  <2>. QED
    BY <2>1, SamePaths DEF Growing
<1>4. ASSUME \/ \E l \in Issued : NewLsa(l) \/ RegisteredLsa(l)
             \/ StartTrees \/ EndTree \/ EndTrees \/ StartRoutes \/ EndPaths \/ Install
             \/ \E e \in queue : Skip(e) \/ Settle(e)
             \/ \E e \in res : Insert(e)
      PROVE  pc' # "layer"
  BY <1>4 DEF NewLsa, RegisteredLsa, insertLsa, StartTrees, EndTree, EndTrees, StartRoutes, EndPaths, Install,
              Skip, Settle, Insert
<1>. QED
  BY <1>1, <1>2, <1>3, <1>4 DEF Next

\* Steps that finish no tree.
LEMMA ParentsKept ==
    ASSUME Parented, UNCHANGED <<dbVars, parents>>, Finished' = Finished,
           plan' \in {<<>>, <<"routes">>} => plan \in {<<>>, <<"routes">>}
    PROVE  Parented'
<1>1. /\ \A u, v : Between(u, v)' = Between(u, v) /\ Hops(u, v)' = Hops(u, v)
      /\ \A u : Adjacent(u)' = Adjacent(u)
  BY SamePaths, SameGraph DEF dbVars
<1>2. \A p : Closer(p)' = Closer(p)
  BY <1>1 DEF Closer, Nearer
<1>3. parents' = parents
  OBVIOUS
<1>. QED
  BY <1>1, <1>2, <1>3 DEF Parented

\* The tree that ends gives the parent it has for us, if it reaches us.
LEMMA EndTreeStep ==
    ASSUME TypeOK, Searching, Growing, Parented, Planned, EndTree
    PROVE  Parented'
<1>1. /\ pc = "layer" /\ layer = {} /\ nextLayer = {} /\ parents' = parents \cup ParentOnTree
      /\ pc' = "trees" /\ UNCHANGED <<dbVars, plan, todo>> /\ plan \in {<<>>, <<"routes">>}
  BY DEF EndTree, Planned
<1>2. PICK r \in tree : /\ r.level = 0 /\ r.node \in Vertex \ todo
                        /\ \A t \in tree : t.level = 0 => t = r
  BY DEF Growing
<1>3. /\ Vertex' = Vertex
      /\ \A u, v : Between(u, v)' = Between(u, v) /\ Hops(u, v)' = Hops(u, v)
      /\ \A u : Adjacent(u)' = Adjacent(u)
  BY <1>1, SamePaths, SameGraph DEF dbVars
<1>4. Finished' = Finished \cup {r.node}
  <2>1. Finished = {v \in Vertex : v \notin todo /\ r.node # v}
    BY <1>1, <1>2 DEF Finished, Root
  <2>2. Finished' = {v \in Vertex : v \notin todo}
    BY <1>1, <1>3 DEF Finished
  <2>. QED
    BY <1>2, <2>1, <2>2
<1>5. Root(r)
  BY <1>2 DEF Root
<1>6. \A p \in ParentOnTree : \E t \in tree : t.node = me /\ p = <<r.node, t.parent>>
  BY <1>2 DEF ParentOnTree
<1>7. \A t \in tree : t.node = me => <<r.node, t.parent>> \in ParentOnTree
  BY <1>2 DEF ParentOnTree
<1>8. ASSUME NEW p \in ParentOnTree PROVE Closer(p)' /\ p[1] = r.node
  <2>1. PICK t \in tree : t.node = me /\ p = <<r.node, t.parent>>
    BY <1>6
  <2>2. p[1] = r.node /\ p[2] = t.parent
    BY <2>1
  <2>3. ASSUME r.node # me
        PROVE  Nearer(me, t.parent, r.node)
    <3>1. t.level \in Nat /\ t.level # 0
      BY <1>2, <2>1, <2>3 DEF TypeOK, Node
    <3>2. PICK s \in tree : s.node = t.parent /\ t.node \in Adjacent(s.node) /\ t.level = s.level + 1
      BY <3>1 DEF Searching
    <3>3. Hops(me, r.node) = t.level /\ Hops(s.node, r.node) = s.level /\ Between(s.node, r.node) # {}
      BY <1>1, <1>5, <2>1, Levels
    <3>4. s.node \in Router
      BY DEF TypeOK, Node
    <3>. QED
      BY <2>1, <3>2, <3>3, <3>4, Edges DEF Nearer
  <2>4. \A q : Closer(q)' = Closer(q)
    BY <1>3 DEF Closer, Nearer
  <2>. QED
    BY <2>2, <2>3, <2>4 DEF Closer
<1>9. (\E p : p \in ParentOnTree) <=> Between(me, r.node) # {}
  <2>1. ASSUME NEW p \in ParentOnTree PROVE Between(me, r.node) # {}
    <3>1. PICK t \in tree : t.node = me
      BY <1>6
    <3>. QED
      BY <1>1, <1>5, <3>1, Levels
  <2>2. ASSUME NEW p \in Between(me, r.node) PROVE \E q : q \in ParentOnTree
    BY <1>1, <1>5, <1>7, TreeBound
  <2>. QED
    BY <2>1, <2>2
<1>10. /\ \A p \in parents : Closer(p)
       /\ {p[1] : p \in parents} = {v \in Finished : Between(me, v) # {}}
  BY <1>1 DEF Parented
<1>11. \A p \in parents' : Closer(p)'
  <2>1. \A p : Closer(p)' = Closer(p)
    BY <1>3 DEF Closer, Nearer
  <2>. QED
    BY <1>1, <1>8, <1>10, <2>1
<1>12. {p[1] : p \in parents'} = {v \in Finished' : Between(me, v)' # {}}
  <2>1. {p[1] : p \in parents'} = {p[1] : p \in parents} \cup {p[1] : p \in ParentOnTree}
    BY <1>1
  <2>2. {p[1] : p \in ParentOnTree} = {v \in {r.node} : Between(me, v) # {}}
    BY <1>8, <1>9
  <2>. QED
    BY <1>3, <1>4, <1>10, <2>1, <2>2
<1>. QED
  BY <1>11, <1>12 DEF Parented

\* The parents, step by step.
LEMMA ParentStep ==
    ASSUME TypeOK, pc = "layer" => Searching, Grown, Planned, Listed, Parented, Next
    PROVE  Parented'
<1>1. ASSUME \E l \in Issued : NewLsa(l) \/ RegisteredLsa(l) PROVE Parented'
  <2>1. plan' = <<"trees", "routes">> \/ plan' = <<"routes", "trees">>
    BY <1>1 DEF NewLsa, RegisteredLsa
  <2>2. plan' \notin {<<>>, <<"routes">>}
    BY <2>1
  <2>. QED
    BY <2>2 DEF Parented
<1>2. ASSUME StartTrees PROVE Parented'
  <2>1. parents' = {} /\ pc' = "trees" /\ UNCHANGED dbVars
        /\ todo' = IF me \in Vertex THEN Vertex ELSE {}
    BY <1>2 DEF StartTrees
  <2>2. Vertex' = Vertex /\ \A u, v : Between(u, v)' = Between(u, v)
    BY <2>1, SamePaths
  <2>3. \A v \in Finished' : Between(me, v)' = {}
    BY <2>1, <2>2, NoVertex, RouterAssumption DEF Finished
  <2>. QED
    BY <2>1, <2>3 DEF Parented
<1>3. ASSUME NEW p \in todo, StartTree(p) PROVE Parented'
  <2>1. /\ pc = "trees" /\ pc' = "layer" /\ todo' = todo \ {p}
        /\ tree' = {[node |-> p, parent |-> p, level |-> 0]} /\ UNCHANGED <<dbVars, parents, plan>>
    BY <1>3 DEF StartTree
  <2>2. Vertex' = Vertex
    BY <2>1, SamePaths
  <2>3. Finished' = Finished
    <3>1. Finished = {v \in Vertex : v \notin todo}
      BY <2>1 DEF Finished
    <3>2. \A v : (\A t \in tree' : Root(t)' => t.node # v) <=> v # p
      BY <2>1 DEF Root
    <3>3. Finished' = {v \in Vertex : v \notin todo \ {p} /\ v # p}
      BY <2>1, <2>2, <3>2 DEF Finished
    <3>. QED
      BY <1>3, <3>1, <3>3
  <2>. QED
    BY <2>1, <2>3, ParentsKept
<1>4. ASSUME NEW t \in layer, Expand(t) PROVE Parented'
  <2>1. /\ pc = "layer" /\ pc' = pc /\ tree' = tree \cup Children(t)
        /\ UNCHANGED <<dbVars, parents, plan, todo>>
    BY <1>4 DEF Expand
  <2>2. Vertex' = Vertex
    BY <2>1, SamePaths
  <2>3. \A c : Root(c)' <=> Root(c)
    <3>1. t.level \in Nat
      BY DEF TypeOK, Node
    <3>2. \A c \in Children(t) : c.level # 0
      BY <3>1 DEF Children
    <3>. QED
      BY <2>1, <3>2 DEF Root
  <2>4. Finished' = Finished
    BY <2>1, <2>2, <2>3 DEF Finished, Root
  <2>. QED
    BY <2>1, <2>4, ParentsKept
<1>5. ASSUME NextLayer PROVE Parented'
  <2>1. pc' = pc /\ UNCHANGED <<dbVars, parents, plan, todo, tree>>
    BY <1>5 DEF NextLayer
  <2>2. Finished' = Finished
    BY <2>1, SamePaths DEF Finished, Root
  <2>. QED
    BY <2>1, <2>2, ParentsKept
<1>6. ASSUME EndTree PROVE Parented'
  <2>1. Searching /\ Growing
    BY <1>6 DEF EndTree, Grown
  <2>. QED
    BY <1>6, <2>1, EndTreeStep
<1>7. ASSUME EndTrees PROVE Parented'
  <2>1. pc = "trees" /\ pc' = "idle" /\ todo = {} /\ UNCHANGED <<dbVars, parents, plan>>
    BY <1>7 DEF EndTrees, treeVars
  <2>2. Finished' = Finished
    BY <2>1, SamePaths DEF Finished
  <2>. QED
    BY <2>1, <2>2, ParentsKept
<1>8. ASSUME StartRoutes PROVE Parented'
  <2>1. /\ pc = "idle" /\ pc' \in {"idle", "paths"} /\ UNCHANGED <<dbVars, parents>>
    BY <1>8 DEF StartRoutes, treeVars
  <2>2. Finished' = Finished
    BY <2>1, SamePaths DEF Finished
  <2>3. plan \in {<<"routes">>, <<"routes", "trees">>}
    BY <1>8 DEF StartRoutes, Planned
  <2>4. CASE plan = <<"routes">>
    BY <2>1, <2>2, <2>4, ParentsKept
  <2>5. CASE plan = <<"routes", "trees">>
    <3>1. plan' = <<"trees">>
      BY <1>8, <2>5, Rests, Zenon DEF StartRoutes
    <3>. QED
      BY <3>1 DEF Parented
  <2>. QED
    BY <2>3, <2>4, <2>5
<1>9. ASSUME \/ \E e \in queue : Skip(e) \/ Settle(e)
             \/ EndPaths \/ Install
             \/ \E e \in res : Insert(e)
      PROVE  Parented'
  <2>1. /\ pc \notin {"trees", "layer"} /\ pc' \notin {"trees", "layer"}
        /\ UNCHANGED <<dbVars, parents, plan>>
    BY <1>9 DEF Skip, Settle, EndPaths, Install, Insert, treeVars
  <2>2. Finished' = Finished
    BY <2>1, SamePaths DEF Finished
  <2>. QED
    BY <2>1, <2>2, ParentsKept
<1>. QED
  BY <1>1, <1>2, <1>3, <1>4, <1>5, <1>6, <1>7, <1>8, <1>9 DEF Next

-----------------------------------------------------------------------------
(* The table.                                                              *)

\* The search starts with ourselves, and inserting serves the others it found.
Begun ==
    /\ pc = "paths" => Origin \in res \/ (res = {} /\ queue = {Origin})
    /\ pc = "insert" => /\ Origin \in res /\ me \in held
                        /\ todo \subseteq {e.target : e \in res} \ {me}
    /\ pc # "insert" => insertList = {}

\* The paths whose networks have been inserted.
Visited == {e \in res : e.target \notin todo /\ e.target # me}

\* Each item comes from such a path, and none to its network is cheaper.
Collected ==
    pc = "insert" /\ Consistent =>
        /\ \A i \in insertList : \E e \in Visited :
             /\ i.net \in Nets(e.target) \ Nets(me) /\ i.hop = e.nextHop /\ i.cost = e.cost
             /\ \E k \in Through(i.hop) : i.link = k.net
        /\ \A i, j \in insertList : i.net = j.net => i = j
        /\ \A e \in Visited : \A n \in Nets(e.target) \ Nets(me) :
             \E i \in insertList : i.net = n /\ i.cost =< e.cost

\* What RoutesCloser says of the table.
TableCloser ==
    /\ {i.net : i \in table} = {n \in Net \ Nets(me) : CostsTo(me, n) # {}}
    /\ \A i, j \in table : i.net = j.net => i = j
    /\ \A i \in table : /\ Cheaper(me, i.hop, i.net)
                        /\ \E k \in Through(i.hop) : i.link = k.net

\* Once a computation of the routes has ended.
Tabled ==
    plan \in {<<>>, <<"trees">>} /\ pc \notin {"paths", "insert"} /\ Consistent /\ me \in held => TableCloser

\* A path from the next hop of e to its target through settled vertices, and
\* what each is away from us.
Traces(e, n, p, c) ==
    /\ n \in Nat \ {0} /\ p \in [1 .. n -> Router] /\ c \in [1 .. n -> Nat]
    /\ p[1] = e.nextHop /\ c[1] = Weight(me, e.nextHop) /\ e.nextHop \in Adjacent(me)
    /\ p[n] = e.target /\ c[n] = e.cost
    /\ \A k \in 1 .. n - 1 : p[k + 1] \in Adjacent(p[k]) /\ c[k + 1] = c[k] + Weight(p[k], p[k + 1])
    /\ \A k \in 1 .. n : \E f \in res : f.target = p[k] /\ f.cost = c[k]
Way(e) == \E n, p, c : Traces(e, n, p, c)

\* Every settled path but our own to ourselves has such a way.
LEMMA Traced ==
    ASSUME TypeOK, Chained, Single, Origin \in res, NEW e \in res, e.target # me
    PROVE  Way(e)
<1> DEFINE lost == {f \in res : f.target # me /\ ~Way(f)}
           bad == {f.cost : f \in lost}
<1>1. \A f \in res : f \in Edge /\ f.target \in Router /\ f.cost \in Nat /\ f.nextHop \in Router
  BY DEF TypeOK, Edge
<1>2. Origin.target = me /\ Origin.cost = 0
  BY DEF Origin
<1>3. ASSUME NEW f \in res, f.target # me
      PROVE  \E d \in res :
               /\ f.target \in Adjacent(d.target) /\ f.cost = d.cost + Weight(d.target, f.target)
               /\ d.cost < f.cost
               /\ f.nextHop = IF d.target = me THEN f.target ELSE d.nextHop
  <2>1. PICK d \in res : f.target \in Adjacent(d.target) /\ f = Extend(d, f.target)
    BY <1>2, <1>3 DEF Chained
  <2>2. Weight(d.target, f.target) \in Nat \ {0}
    BY <1>1, <2>1, Edges
  <2>3. f.cost = d.cost + Weight(d.target, f.target) /\ f.nextHop = IF d.target = me THEN f.target ELSE d.nextHop
    BY <2>1 DEF Extend
  <2>4. d.cost < f.cost
    BY <1>1, <2>2, <2>3
  <2>. QED
    BY <2>1, <2>3, <2>4
<1>4. ASSUME NEW f \in res, f.target \in Adjacent(me), f.cost = Weight(me, f.target), f.nextHop = f.target
      PROVE  Way(f)
  <2> DEFINE p == [k \in 1 .. 1 |-> f.target]
             c == [k \in 1 .. 1 |-> f.cost]
  <2>1. p \in [1 .. 1 -> Router] /\ c \in [1 .. 1 -> Nat] /\ p[1] = f.target /\ c[1] = f.cost
    BY <1>1
  <2> HIDE DEF p, c
  <2>2. \A k \in 1 .. 1 : p[k] = f.target /\ c[k] = f.cost
    BY <2>1
  <2>3. Traces(f, 1, p, c)
    BY <1>4, <2>1, <2>2 DEF Traces
  <2>. QED
    BY <2>3 DEF Way
<1>5. ASSUME NEW f \in res, NEW d \in res, Way(d), f.target \in Adjacent(d.target), f.nextHop = d.nextHop,
             f.cost = d.cost + Weight(d.target, f.target)
      PROVE  Way(f)
  <2>8. PICK n, p, c : Traces(d, n, p, c)
    BY <1>5 DEF Way
  <2>1. /\ n \in Nat \ {0} /\ p \in [1 .. n -> Router] /\ c \in [1 .. n -> Nat]
        /\ p[1] = d.nextHop /\ c[1] = Weight(me, d.nextHop) /\ d.nextHop \in Adjacent(me)
        /\ p[n] = d.target /\ c[n] = d.cost
        /\ \A k \in 1 .. n - 1 : p[k + 1] \in Adjacent(p[k]) /\ c[k + 1] = c[k] + Weight(p[k], p[k + 1])
        /\ \A k \in 1 .. n : \E g \in res : g.target = p[k] /\ g.cost = c[k]
    BY <2>8 DEF Traces
  <2>2. PICK m \in Nat \ {0} : m = n + 1
    BY <2>1
  <2> DEFINE q == [k \in 1 .. m |-> IF k = m THEN f.target ELSE p[k]]
             b == [k \in 1 .. m |-> IF k = m THEN f.cost ELSE c[k]]
  <2>3. /\ q \in [1 .. m -> Router] /\ b \in [1 .. m -> Nat]
        /\ q[m] = f.target /\ b[m] = f.cost
        /\ \A k \in 1 .. n : q[k] = p[k] /\ b[k] = c[k]
    BY <1>1, <2>1, <2>2
  <2> HIDE DEF q, b
  <2>4. q[1] = f.nextHop /\ b[1] = Weight(me, f.nextHop)
    BY <1>5, <2>1, <2>3
  <2>5. ASSUME NEW k \in 1 .. m - 1
        PROVE  q[k + 1] \in Adjacent(q[k]) /\ b[k + 1] = b[k] + Weight(q[k], q[k + 1])
    <3>1. CASE k = n
      <4>1. q[k] = d.target /\ b[k] = d.cost /\ k + 1 = m
        BY <2>1, <2>2, <2>3, <3>1
      <4>. QED
        BY <1>5, <2>3, <4>1
    <3>2. CASE k # n
      <4>1. k \in 1 .. n - 1 /\ k \in 1 .. n /\ k + 1 \in 1 .. n
        BY <2>1, <2>2, <3>2
      <4>. QED
        BY <2>1, <2>3, <4>1
    <3>. QED
      BY <3>1, <3>2
  <2>6. ASSUME NEW k \in 1 .. m PROVE \E g \in res : g.target = q[k] /\ g.cost = b[k]
    <3>1. CASE k = m
      BY <2>3, <3>1
    <3>2. CASE k # m
      <4>1. k \in 1 .. n
        BY <2>1, <2>2, <3>2
      <4>. QED
        BY <2>1, <2>3, <4>1
    <3>. QED
      BY <3>1, <3>2
  <2>7. Traces(f, m, q, b)
    BY <1>5, <2>1, <2>3, <2>4, <2>5, <2>6 DEF Traces
  <2>. QED
    BY <2>7 DEF Way
<1>6. bad = {}
  <2>1. SUFFICES ASSUME bad # {} PROVE FALSE
    OBVIOUS
  <2>2. bad \in SUBSET Nat
    BY <1>1
  <2>3. PICK m \in bad : \A n \in bad : m =< n
    BY <2>1, <2>2, Least
  <2>4. PICK f \in res : f.target # me /\ ~Way(f) /\ f.cost = m
    BY <2>3
  <2>5. PICK d \in res : /\ f.target \in Adjacent(d.target) /\ f.cost = d.cost + Weight(d.target, f.target)
                         /\ d.cost < f.cost
                         /\ f.nextHop = IF d.target = me THEN f.target ELSE d.nextHop
    BY <1>3, <2>4
  <2>6. CASE d.target = me
    <3>1. d.cost = 0
      BY <1>2, <2>6 DEF Single
    <3>2. Weight(me, f.target) \in Nat
      BY <1>1, <2>5, <2>6, Edges
    <3>. QED
      BY <1>4, <2>4, <2>5, <2>6, <3>1, <3>2
  <2>7. CASE d.target # me
    <3>1. d.cost \in Nat /\ ~(m =< d.cost)
      BY <1>1, <2>4, <2>5
    <3>2. d.cost \notin bad
      BY <2>3, <3>1
    <3>3. Way(d)
      BY <2>7, <3>2
    <3>. QED
      BY <1>5, <2>4, <2>5, <2>7, <3>3
  <2>. QED
    BY <2>6, <2>7
<1>. QED
  BY <1>6

\* No path out of a settled vertex is cheaper than the settled ones.
LEMMA Reached ==
    ASSUME TypeOK, Queued, Short, queue = {}, NEW e \in res, NEW v, NEW p \in Between(e.target, v)
    PROVE  /\ Costs(p)[Len(p)] \in Nat
           /\ \E f \in res : f.target = v /\ f.cost =< e.cost + Costs(p)[Len(p)]
<1> DEFINE n == Len(p)
           c == Costs(p)
           S == {k \in 1 .. n : \E f \in res : f.target = p[k] /\ f.cost =< e.cost + c[k]}
<1>1. n \in Nat \ {0} /\ p \in [1 .. n -> Router] /\ p[1] = e.target /\ p[n] = v
  BY PathType DEF Between
<1>2. \A k \in 1 .. n - 1 : p[k + 1] \in Adjacent(p[k])
  BY DEF Between
<1>3. \A f \in res : f \in Edge /\ f.target \in Router /\ f.cost \in Nat
  BY DEF TypeOK, Edge
<1> HIDE DEF n
<1>4. c[1] = 0 /\ (\A k \in 1 .. n - 1 : c[k + 1] = c[k] + Weight(p[k], p[k + 1]))
      /\ \A k \in 1 .. n : c[k] \in Nat
  BY <1>1, <1>2, CostsAre, CostsGrow
<1> HIDE DEF c
<1>5. 1 \in S
  BY <1>1, <1>3, <1>4
<1>6. ASSUME NEW k \in 1 .. n - 1, k \in S PROVE k + 1 \in S
  <2>1. PICK f \in res : f.target = p[k] /\ f.cost =< e.cost + c[k]
    BY <1>6
  <2>2. p[k + 1] \in Adjacent(f.target)
    BY <1>2, <2>1
  <2>3. PICK g \in res : g.target = p[k + 1]
    BY <2>2 DEF Queued, Settled
  <2>4. g.cost =< f.cost + Weight(f.target, g.target)
    BY <2>2, <2>3 DEF Short
  <2>5. Weight(f.target, g.target) \in Nat
    BY <1>3, <2>2, <2>3, Edges
  <2> DEFINE w == Weight(f.target, g.target)
  <2>6. c[k + 1] = c[k] + w /\ c[k] \in Nat /\ k + 1 \in 1 .. n
    BY <1>1, <1>4, <2>1, <2>3
  <2>7. g.cost \in Nat /\ f.cost \in Nat /\ e.cost \in Nat
    BY <1>3
  <2> HIDE DEF w
  <2>8. g.cost =< e.cost + (c[k] + w)
    BY <2>1, <2>4, <2>5, <2>6, <2>7 DEF w
  <2>. QED
    BY <2>3, <2>6, <2>8
<1> HIDE DEF S
<1>7. \A k \in 1 .. n : k \in S
  BY <1>1, <1>5, <1>6, Upto
<1>8. n \in 1 .. n
  BY <1>1
<1>. QED
  BY <1>1, <1>4, <1>7, <1>8 DEF S, n, c

\* Of a settled path there is a path of its cost from us to its target, and
\* one from its next hop, a neighbour settled at the cost of the edge to it.
LEMMA Ways ==
    ASSUME TypeOK, Chained, Single, Origin \in res, NEW e \in res, e.target # me
    PROVE  /\ e.nextHop \in Adjacent(me)
           /\ \E g \in res : g.target = e.nextHop /\ g.cost = Weight(me, e.nextHop)
           /\ \E p \in Between(me, e.target) : Costs(p)[Len(p)] = e.cost
           /\ \E p \in Between(e.nextHop, e.target) : Costs(p)[Len(p)] = e.cost - Weight(me, e.nextHop)
<1>1. PICK n, p, c : Traces(e, n, p, c)
  BY Traced DEF Way
<1>2. /\ n \in Nat \ {0} /\ p \in [1 .. n -> Router] /\ c \in [1 .. n -> Nat]
      /\ p[1] = e.nextHop /\ c[1] = Weight(me, e.nextHop) /\ e.nextHop \in Adjacent(me)
      /\ p[n] = e.target /\ c[n] = e.cost
      /\ \A k \in 1 .. n - 1 : p[k + 1] \in Adjacent(p[k]) /\ c[k + 1] = c[k] + Weight(p[k], p[k + 1])
      /\ \A k \in 1 .. n : \E f \in res : f.target = p[k] /\ f.cost = c[k]
  BY <1>1 DEF Traces
<1>3. PICK m \in Nat \ {0} : m = n + 1
  BY <1>2
<1>4. PICK w \in Nat \ {0} : w = Weight(me, e.nextHop)
  BY <1>2, Edges, RouterAssumption
<1> DEFINE q == [k \in 1 .. m |-> IF k = 1 THEN me ELSE p[k - 1]]
           b == [k \in 1 .. m |-> IF k = 1 THEN 0 ELSE c[k - 1]]
           a == [k \in 1 .. n |-> c[k] - w]
<1>5. /\ q \in [1 .. m -> Router] /\ b \in [1 .. m -> Nat] /\ q[1] = me /\ b[1] = 0
      /\ \A k \in 1 .. n : q[k + 1] = p[k] /\ b[k + 1] = c[k]
  BY <1>2, <1>3, RouterAssumption
<1>6. \A k \in 1 .. n : a[k] = c[k] - w /\ c[k] \in Nat
  BY <1>2
<1> HIDE DEF q, b, a
<1>7. ASSUME NEW k \in 1 .. m - 1
      PROVE  q[k + 1] \in Adjacent(q[k]) /\ b[k + 1] = b[k] + Weight(q[k], q[k + 1])
  <2>1. CASE k = 1
    <3>1. q[k + 1] = e.nextHop /\ b[k + 1] = w /\ q[k] = me /\ b[k] = 0
      BY <1>2, <1>3, <1>4, <1>5, <2>1
    <3>. QED
      BY <1>2, <1>4, <3>1
  <2>2. CASE k # 1
    <3>1. PICK j \in 1 .. n - 1 : k = j + 1
      <4>1. k - 1 \in 1 .. n - 1 /\ k = (k - 1) + 1
        BY <1>2, <1>3, <2>2
      <4>. QED
        BY <4>1
    <3>2. j \in 1 .. n /\ j + 1 \in 1 .. n
      BY <1>2
    <3>3. q[k] = p[j] /\ b[k] = c[j] /\ q[k + 1] = p[j + 1] /\ b[k + 1] = c[j + 1]
      BY <1>5, <3>1, <3>2
    <3>. QED
      BY <1>2, <3>3
  <2>. QED
    BY <2>1, <2>2
<1>8. \A k \in 1 .. m : Costs(q)[k] = b[k]
  <2>1. m \in Nat \ {0} /\ q \in [1 .. m -> Router] /\ b[1] = 0
    BY <1>3, <1>5
  <2>2. \A k \in 1 .. m - 1 : b[k + 1] = b[k] + Weight(q[k], q[k + 1])
    BY <1>7
  <2>. QED
    BY <2>1, <2>2, CostsUnique
<1>9. \A k \in 1 .. n : Costs(p)[k] = a[k]
  <2>1. a[1] = 0
    BY <1>2, <1>4, <1>6
  <2>2. ASSUME NEW k \in 1 .. n - 1 PROVE a[k + 1] = a[k] + Weight(p[k], p[k + 1])
    <3>1. k \in 1 .. n /\ k + 1 \in 1 .. n
      BY <1>2
    <3>2. p[k] \in Router /\ p[k + 1] \in Adjacent(p[k])
      BY <1>2, <3>1
    <3>3. PICK v \in Nat : v = Weight(p[k], p[k + 1])
      BY <3>2, Edges
    <3>4. a[k] = c[k] - w /\ a[k + 1] = c[k + 1] - w /\ c[k + 1] = c[k] + v /\ c[k] \in Nat
      BY <1>2, <1>6, <3>1, <3>3
    <3>. QED
      BY <3>3, <3>4
  <2>. QED
    <3>1. n \in Nat \ {0} /\ p \in [1 .. n -> Router]
      BY <1>2
    <3>2. \A k \in 1 .. n - 1 : a[k + 1] = a[k] + Weight(p[k], p[k + 1])
      BY <2>2
    <3>. QED
      BY <2>1, <3>1, <3>2, CostsUnique
<1>10. \A j, k \in 1 .. m : q[j] = q[k] => j = k
  <2>1. \A k \in 1 .. m : \E f \in res : f.target = q[k] /\ f.cost = b[k]
    <3>1. ASSUME NEW k \in 1 .. m PROVE \E f \in res : f.target = q[k] /\ f.cost = b[k]
      <4>1. CASE k = 1
        BY <1>5, <4>1 DEF Origin
      <4>2. CASE k # 1
        <5>1. PICK j \in 1 .. n : k = j + 1
          <6>1. k - 1 \in 1 .. n /\ k = (k - 1) + 1
            BY <1>2, <1>3, <4>2
          <6>. QED
            BY <6>1
        <5>2. q[k] = p[j] /\ b[k] = c[j]
          BY <1>5, <5>1
        <5>3. PICK f \in res : f.target = p[j] /\ f.cost = c[j]
          BY <1>2, <5>1
        <5>. QED
          BY <5>2, <5>3
      <4>. QED
        BY <4>1, <4>2
    <3>. QED
      BY <3>1
  <2>2. \A j, k \in 1 .. m : q[j] = q[k] => b[j] = b[k]
    BY <2>1 DEF Single
  <2>3. \A j, k \in 1 .. m : j < k => b[j] < b[k]
    BY <1>5, <1>7, <1>8, CostsGrow
  <2>4. ASSUME NEW j \in 1 .. m, NEW k \in 1 .. m, q[j] = q[k] PROVE j = k
    <3>1. b[j] = b[k] /\ b[j] \in Nat
      BY <1>5, <2>2, <2>4
    <3>2. ~(j < k) /\ ~(k < j)
      BY <2>3, <3>1
    <3>. QED
      BY <3>2
  <2>. QED
    BY <2>4
<1>11. \A j, k \in 1 .. n : p[j] = p[k] => j = k
  <2>1. ASSUME NEW j \in 1 .. n, NEW k \in 1 .. n, p[j] = p[k] PROVE j = k
    <3>1. q[j + 1] = q[k + 1] /\ j + 1 \in 1 .. m /\ k + 1 \in 1 .. m
      BY <1>2, <1>3, <1>5, <2>1
    <3>2. j + 1 = k + 1
      BY <1>10, <3>1
    <3>. QED
      BY <3>2
  <2>. QED
    BY <2>1
<1>12. /\ q \in Between(me, e.target) /\ Costs(q)[Len(q)] = e.cost
  <2>1. q \in SimplePaths /\ Len(q) = m
    BY <1>5, <1>10, IsSimple
  <2>2. q[m] = e.target /\ b[m] = e.cost
    BY <1>2, <1>3, <1>5
  <2>3. q[1] = me /\ q[Len(q)] = e.target
    BY <1>5, <2>1, <2>2
  <2>4. \A k \in 1 .. Len(q) - 1 : q[k + 1] \in Adjacent(q[k])
    BY <1>7, <2>1
  <2>5. Costs(q)[Len(q)] = e.cost
    BY <1>8, <2>1, <2>2
  <2>. QED
    BY <2>1, <2>3, <2>4, <2>5 DEF Between
<1>13. /\ p \in Between(e.nextHop, e.target) /\ Costs(p)[Len(p)] = e.cost - w
  <2>1. p \in SimplePaths /\ Len(p) = n
    BY <1>2, <1>11, IsSimple
  <2>2. Costs(p)[n] = e.cost - w
    BY <1>2, <1>6, <1>9
  <2>. QED
    BY <1>2, <2>1, <2>2 DEF Between
<1>14. \E g \in res : g.target = e.nextHop /\ g.cost = w
  BY <1>2, <1>4
<1>. QED
  BY <1>2, <1>4, <1>12, <1>13, <1>14

\* In a network whose LSAs agree we have a link to each neighbour.
LEMMA Linked ==
    ASSUME TypeOK, Listed, Consistent, NEW v \in Adjacent(me)
    PROVE  v \in held /\ Through(v) # {}
<1>1. v \in Router /\ v \in held
  BY Ends, RouterAssumption DEF Consistent, Adjacent
<1>2. \E k \in links[me] : k.to = v
  <2>1. CASE \E l \in links[v] : l.to = me
    BY <1>1, <2>1 DEF Consistent
  <2>. QED
    BY <2>1 DEF Adjacent, Claims
<1> DEFINE mine == {k \in links[me] : k.to = v}
           costs == {k.cost : k \in mine}
<1>3. \A k \in mine : k.cost \in Nat
  BY RouterAssumption DEF TypeOK, Link
<1>4. costs \in SUBSET Nat /\ costs # {}
  BY <1>2, <1>3
<1>5. PICK m \in costs : \A n \in costs : m =< n
  BY <1>4, Least
<1>6. PICK k \in mine : k.cost = m
  OBVIOUS
<1>7. k \in Through(v)
  BY <1>5, <1>6 DEF Through
<1>. QED
  BY <1>1, <1>7
\* The first to be settled is ourselves.
LEMMA BegunStep ==
    ASSUME Idle, Begun, Next
    PROVE  Begun'
<1>0. Origin' = Origin
  BY DEF Origin
<1>1. ASSUME StartRoutes PROVE Begun'
  <2>1. insertList' = {} /\ res' = {} /\ pc' # "insert" /\ (pc' = "paths" => queue' = {Origin})
    BY <1>1 DEF StartRoutes, Begun, Idle
  <2>. QED
    BY <1>0, <2>1 DEF Begun
<1>2. ASSUME NEW e \in queue, Skip(e) PROVE Begun'
  <2>1. Origin \in res /\ pc' = "paths" /\ res' = res /\ insertList' = {}
    BY <1>2 DEF Skip, Settled, Begun
  <2>. QED
    BY <1>0, <2>1 DEF Begun
<1>3. ASSUME NEW e \in queue, Settle(e) PROVE Begun'
  <2>1. Origin \in res' /\ pc' = "paths" /\ insertList' = {}
    BY <1>3 DEF Settle, Begun
  <2>. QED
    BY <1>0, <2>1 DEF Begun
<1>4. ASSUME EndPaths PROVE Begun'
  <2>1. Origin \in res /\ insertList' = {}
    BY <1>4 DEF EndPaths, Begun
  <2>2. CASE me \in held
    BY <1>0, <1>4, <2>1, <2>2 DEF EndPaths, Begun, dbVars
  <2>3. CASE me \notin held
    BY <1>4, <2>1, <2>3 DEF EndPaths, Begun
  <2>. QED
    BY <2>2, <2>3
<1>5. ASSUME NEW e \in res, Insert(e) PROVE Begun'
  <2>1. /\ pc = "insert" /\ pc' = pc /\ res' = res /\ held' = held /\ todo' \subseteq todo
    BY <1>5 DEF Insert, dbVars, pathVars
  <2>. QED
    BY <1>0, <2>1 DEF Begun
<1>6. ASSUME Install PROVE Begun'
  BY <1>6 DEF Install, Begun
<1>7. ASSUME \/ \E l \in Issued : NewLsa(l) \/ RegisteredLsa(l)
             \/ \E p \in todo : StartTree(p)
             \/ \E t \in layer : Expand(t)
             \/ StartTrees \/ NextLayer \/ EndTree \/ EndTrees
      PROVE  Begun'
  <2>1. pc' \notin {"paths", "insert"} /\ pc # "insert" /\ insertList' = insertList
    BY <1>7 DEF NewLsa, RegisteredLsa, insertLsa, StartTree, Expand, StartTrees, NextLayer, EndTree, EndTrees
  <2>. QED
    BY <2>1 DEF Begun
<1>. QED
  BY <1>1, <1>2, <1>3, <1>4, <1>5, <1>6, <1>7 DEF Next

\* Inserting the networks of one more target.
LEMMA InsertStep ==
    ASSUME TypeOK, Paths, Listed, Begun, Collected, NEW e \in res, Insert(e)
    PROVE  Collected'
<1>1. /\ pc = "insert" /\ e.target \in todo /\ todo' = todo \ {e.target} /\ res' = res
      /\ UNCHANGED dbVars /\ e.target # me /\ Origin \in res /\ Chained /\ Single
  BY DEF Insert, pathVars, Begun, Paths
<1>2. /\ (Consistent <=> Consistent') /\ \A r : Nets(r)' = Nets(r)
      /\ \A r : Through(r)' = Through(r)
  BY <1>1, SamePaths DEF Nets, Through, dbVars
<1>3. SUFFICES ASSUME Consistent
               PROVE  /\ \A i \in insertList' : \E d \in Visited' :
                           /\ i.net \in Nets(d.target) \ Nets(me) /\ i.hop = d.nextHop /\ i.cost = d.cost
                           /\ \E k \in Through(i.hop) : i.link = k.net
                      /\ \A i, j \in insertList' : i.net = j.net => i = j
                      /\ \A d \in Visited' : \A n \in Nets(d.target) \ Nets(me) :
                           \E i \in insertList' : i.net = n /\ i.cost =< d.cost
  BY <1>2 DEF Collected
<1>4. Visited' = Visited \cup {e}
  BY <1>1 DEF Visited, Single
<1>5. {e.target, e.nextHop} \subseteq held /\ Through(e.nextHop) # {}
  <2>1. e.nextHop \in Adjacent(me)
    BY <1>1, Ways
  <2>2. e # Origin
    BY <1>1 DEF Origin
  <2>3. PICK d \in res : e.target \in Adjacent(d.target)
    BY <1>1, <2>2 DEF Chained
  <2>4. d.target \in Router
    BY DEF TypeOK, Edge
  <2>5. e.target \in held
    BY <1>3, <2>3, <2>4, Ends DEF Consistent
  <2>. QED
    BY <1>3, <2>1, <2>5, Linked
<1> DEFINE new == {n \in Nets(e.target) \ Nets(me) : GivesWay(n, e.cost)}
<1>6. PICK k \in Through(e.nextHop) :
        insertList' = {i \in insertList : i.net \notin new} \cup
                      [net : new, hop : {e.nextHop}, link : {k.net}, cost : {e.cost}]
  BY <1>5 DEF Insert
<1> DEFINE added == [net : new, hop : {e.nextHop}, link : {k.net}, cost : {e.cost}]
<1>7. /\ \A i \in added : i.net \in new /\ i.hop = e.nextHop /\ i.link = k.net /\ i.cost = e.cost
      /\ \A i, j \in added : i.net = j.net => i = j
      /\ \A n \in new : \E i \in added : i.net = n
  <2>1. \A n \in new : [net |-> n, hop |-> e.nextHop, link |-> k.net, cost |-> e.cost] \in added
    OBVIOUS
  <2>2. \A n \in new : \E i \in added : i.net = n
    BY <2>1
  <2>. QED
    BY <2>2
<1>8. /\ insertList' = {i \in insertList : i.net \notin new} \cup added
      /\ \A n : n \in new <=> n \in Nets(e.target) \ Nets(me) /\ GivesWay(n, e.cost)
  BY <1>6
<1> HIDE DEF new, added
<1>9. /\ \A i \in insertList : \E d \in Visited :
           /\ i.net \in Nets(d.target) \ Nets(me) /\ i.hop = d.nextHop /\ i.cost = d.cost
           /\ \E l \in Through(i.hop) : i.link = l.net
      /\ \A i, j \in insertList : i.net = j.net => i = j
      /\ \A d \in Visited : \A n \in Nets(d.target) \ Nets(me) :
           \E i \in insertList : i.net = n /\ i.cost =< d.cost
  BY <1>1, <1>3 DEF Collected
<1>10. ASSUME NEW i \in insertList'
       PROVE  \E d \in Visited' :
                /\ i.net \in Nets(d.target) \ Nets(me) /\ i.hop = d.nextHop /\ i.cost = d.cost
                /\ \E l \in Through(i.hop) : i.link = l.net
  <2>1. CASE i \in added
    BY <1>4, <1>7, <1>8, <2>1
  <2>2. CASE i \in insertList
    BY <1>4, <1>9, <2>2
  <2>. QED
    BY <1>8, <2>1, <2>2
<1>11. \A i, j \in insertList' : i.net = j.net => i = j
  BY <1>7, <1>8, <1>9
<1>12. ASSUME NEW d \in Visited', NEW n \in Nets(d.target) \ Nets(me)
       PROVE  \E i \in insertList' : i.net = n /\ i.cost =< d.cost
  <2>1. (\A f \in res : f.cost \in Nat) /\ (\A i \in insertList : i.cost \in Nat) /\ d \in res
    BY <1>4 DEF TypeOK, Edge, Visited
  <2>2. CASE d = e
    <3>1. CASE n \in new
      BY <1>7, <1>8, <2>1, <2>2, <3>1
    <3>2. CASE n \notin new
      <4>1. PICK i \in insertList : i.net = n /\ i.cost < e.cost
        BY <1>8, <1>12, <2>2, <3>2 DEF GivesWay
      <4>2. i \in insertList' /\ i.cost =< d.cost
        BY <1>8, <2>1, <2>2, <3>2, <4>1
      <4>. QED
        BY <4>1, <4>2
    <3>. QED
      BY <3>1, <3>2
  <2>3. CASE d \in Visited
    <3>1. PICK i \in insertList : i.net = n /\ i.cost =< d.cost
      BY <1>9, <1>12, <2>3
    <3>2. CASE n \in new
      <4>1. ~(i.cost < e.cost)
        BY <1>8, <3>1, <3>2 DEF GivesWay
      <4>2. e.cost =< d.cost
        BY <2>1, <3>1, <4>1
      <4>. QED
        BY <1>7, <1>8, <3>2, <4>2
    <3>3. CASE n \notin new
      BY <1>8, <3>1, <3>3
    <3>. QED
      BY <3>2, <3>3
  <2>. QED
    BY <1>4, <2>2, <2>3
<1>. QED
  BY <1>10, <1>11, <1>12

\* The list starts empty and grows by Insert only.
LEMMA CollectedStep ==
    ASSUME TypeOK, Paths, Listed, Begun, Collected, Next
    PROVE  Collected'
<1>1. ASSUME NEW e \in res, Insert(e) PROVE Collected'
  BY <1>1, InsertStep
<1>2. ASSUME EndPaths PROVE Collected'
  <2>1. CASE me \in held
    <3>1. insertList' = {} /\ res' = res /\ todo' = {e.target : e \in res} \ {me}
      BY <1>2, <2>1 DEF EndPaths, Begun
    <3>2. Visited' = {}
      BY <3>1 DEF Visited
    <3>. QED
      BY <3>1, <3>2 DEF Collected
  <2>2. CASE me \notin held
    BY <1>2, <2>2 DEF EndPaths, Collected
  <2>. QED
    BY <2>1, <2>2
<1>3. ASSUME \/ \E l \in Issued : NewLsa(l) \/ RegisteredLsa(l)
             \/ \E p \in todo : StartTree(p)
             \/ \E t \in layer : Expand(t)
             \/ StartTrees \/ NextLayer \/ EndTree \/ EndTrees \/ StartRoutes \/ Install
             \/ \E e \in queue : Skip(e) \/ Settle(e)
      PROVE  Collected'
  <2>1. pc' # "insert"
    BY <1>3 DEF NewLsa, RegisteredLsa, insertLsa, StartTree, Expand, StartTrees, NextLayer, EndTree, EndTrees,
                StartRoutes, Skip, Settle, Install
  <2>. QED
    BY <2>1 DEF Collected
<1>. QED
  BY <1>1, <1>2, <1>3 DEF Next
\* Steps that install nothing.
LEMMA TabledKept ==
    ASSUME Tabled, UNCHANGED <<dbVars, table>>,
           plan' \in {<<>>, <<"trees">>} => plan \in {<<>>, <<"trees">>},
           pc' \notin {"paths", "insert"} => pc \notin {"paths", "insert"}
    PROVE  Tabled'
<1>1. /\ held' = held /\ links' = links /\ table' = table
      /\ (Consistent <=> Consistent') /\ \A u, n : CostsTo(u, n)' = CostsTo(u, n)
  BY SamePaths DEF dbVars
<1>2. \A u, v : Weight(u, v)' = Weight(u, v)
  BY <1>1, SameGraph
<1>3. /\ \A r : Nets(r)' = Nets(r) /\ Through(r)' = Through(r)
      /\ \A u : Adjacent(u)' = Adjacent(u)
  BY <1>1, SameGraph DEF Nets, Through
<1>4. TableCloser => TableCloser'
  BY <1>1, <1>2, <1>3 DEF TableCloser, Cheaper
<1>. QED
  BY <1>1, <1>4 DEF Tabled

\* What a finished computation installs.
LEMMA InstallStep ==
    ASSUME TypeOK, Paths, Listed, Begun, Collected, Install
    PROVE  Tabled'
<1>1. /\ pc = "insert" /\ todo = {} /\ queue = {} /\ UNCHANGED dbVars
      /\ table' = {[net |-> i.net, hop |-> i.hop, link |-> i.link] : i \in insertList}
      /\ Origin \in res /\ Chained /\ Queued /\ Single /\ Short
  BY DEF Install, Begun, Paths, Idle
<1>2. /\ held' = held /\ links' = links /\ (Consistent <=> Consistent')
      /\ \A u, n : CostsTo(u, n)' = CostsTo(u, n)
      /\ \A u, v : Weight(u, v)' = Weight(u, v)
      /\ \A r : Nets(r)' = Nets(r) /\ Through(r)' = Through(r) /\ Adjacent(r)' = Adjacent(r)
  BY <1>1, SamePaths, SameGraph DEF dbVars, Nets, Through
<1>3. SUFFICES ASSUME Consistent
               PROVE  /\ {i.net : i \in table'} = {n \in Net \ Nets(me) : CostsTo(me, n) # {}}
                      /\ \A i, j \in table' : i.net = j.net => i = j
                      /\ \A i \in table' : /\ Cheaper(me, i.hop, i.net)
                                           /\ \E k \in Through(i.hop) : i.link = k.net
  BY <1>2 DEF Tabled, TableCloser, Cheaper
<1>4. /\ \A i \in insertList : \E d \in Visited :
           /\ i.net \in Nets(d.target) \ Nets(me) /\ i.hop = d.nextHop /\ i.cost = d.cost
           /\ \E k \in Through(i.hop) : i.link = k.net
      /\ \A i, j \in insertList : i.net = j.net => i = j
      /\ \A d \in Visited : \A n \in Nets(d.target) \ Nets(me) :
           \E i \in insertList : i.net = n /\ i.cost =< d.cost
  BY <1>1, <1>3 DEF Collected
<1>5. \A d : d \in Visited <=> d \in res /\ d.target # me
  BY <1>1 DEF Visited
<1>6. /\ \A d \in res : d.cost \in Nat /\ d.target \in Router
      /\ \A i \in insertList : i.net \in Net /\ i.cost \in Nat
  BY DEF TypeOK, Edge
<1>7. Origin.target = me /\ Origin.cost = 0
  BY DEF Origin
<1>8. \A i \in table' : \E x \in insertList : i.net = x.net /\ i.hop = x.hop /\ i.link = x.link
  BY <1>1
<1>9. \A x \in insertList : \E i \in table' : i.net = x.net
  <2>1. \A x \in insertList : [net |-> x.net, hop |-> x.hop, link |-> x.link] \in table'
    BY <1>1
  <2>. QED
    BY <2>1
<1>10. \A r \in Router : Nets(r) # {} => r \in held
  BY DEF Listed, Nets
\* A path to a network is of no lower cost than the item for it.
<1>11. ASSUME NEW g \in res, NEW n \in Net \ Nets(me), NEW r \in held, n \in Nets(r),
              NEW p \in Between(g.target, r)
       PROVE  /\ Costs(p)[Len(p)] \in Nat
              /\ \E x \in insertList : x.net = n /\ x.cost =< g.cost + Costs(p)[Len(p)]
  <2>1. Costs(p)[Len(p)] \in Nat
    BY <1>1, Reached
  <2> DEFINE z == Costs(p)[Len(p)]
  <2>2. PICK f \in res : f.target = r /\ f.cost =< g.cost + z
    BY <1>1, Reached
  <2>3. f \in Visited
    BY <1>5, <1>11, <2>2
  <2>4. PICK x \in insertList : x.net = n /\ x.cost =< f.cost
    BY <1>4, <1>11, <2>2, <2>3
  <2> HIDE DEF z
  <2>5. x.cost =< g.cost + z
    <3>1. z \in Nat /\ f.cost \in Nat /\ g.cost \in Nat /\ x.cost \in Nat
      BY <1>6, <2>1 DEF z
    <3>. QED
      BY <2>2, <2>4, <3>1
  <2>. QED
    BY <2>1, <2>4, <2>5 DEF z
<1>12. ASSUME NEW u, NEW n, NEW y \in CostsTo(u, n)
       PROVE  \E r \in held : n \in Nets(r) /\ \E p \in Between(u, r) : y = Costs(p)[Len(p)]
  BY DEF CostsTo
<1>13. ASSUME NEW u, NEW n, NEW r \in held, n \in Nets(r), NEW p \in Between(u, r)
       PROVE  Costs(p)[Len(p)] \in CostsTo(u, n)
  BY <1>13 DEF CostsTo
<1>14. {i.net : i \in table'} = {n \in Net \ Nets(me) : CostsTo(me, n) # {}}
  <2>1. ASSUME NEW i \in table'
        PROVE  i.net \in Net \ Nets(me) /\ CostsTo(me, i.net) # {}
    <3>1. PICK x \in insertList : i.net = x.net
      BY <1>8
    <3>2. PICK d \in Visited : x.net \in Nets(d.target) \ Nets(me)
      BY <1>4
    <3>3. d \in res /\ d.target # me /\ d.target \in held
      BY <1>5, <1>6, <1>10, <3>2
    <3>4. \E p \in Between(me, d.target) : Costs(p)[Len(p)] = d.cost
      BY <1>1, <3>3, Ways
    <3>. QED
      BY <1>6, <1>13, <3>1, <3>2, <3>3, <3>4
  <2>2. ASSUME NEW n \in Net \ Nets(me), CostsTo(me, n) # {}
        PROVE  \E i \in table' : i.net = n
    <3>1. PICK r \in held : n \in Nets(r) /\ Between(me, r) # {}
      BY <1>12, <2>2
    <3>2. \E x \in insertList : x.net = n
      BY <1>1, <1>7, <1>11, <3>1
    <3>. QED
      BY <1>9, <3>2
  <2>. QED
    BY <2>1, <2>2
<1>15. \A i, j \in table' : i.net = j.net => i = j
  BY <1>1, <1>4
<1>16. ASSUME NEW i \in table'
       PROVE  Cheaper(me, i.hop, i.net) /\ \E k \in Through(i.hop) : i.link = k.net
  <2> DEFINE n == i.net
             h == i.hop
  <2>1. PICK x \in insertList : n = x.net /\ h = x.hop /\ i.link = x.link
    BY <1>8
  <2>2. PICK e \in Visited :
          /\ n \in Nets(e.target) \ Nets(me) /\ h = e.nextHop /\ x.cost = e.cost
          /\ \E k \in Through(h) : i.link = k.net
    BY <1>4, <2>1
  <2>3. e \in res /\ e.target # me /\ e.target \in held /\ e.cost \in Nat /\ n \in Net
    BY <1>5, <1>6, <1>10, <2>1, <2>2
  <2>4. PICK w \in Nat \ {0} : w = Weight(me, h)
    BY <1>1, <2>2, <2>3, Ways, Edges, RouterAssumption
  <2>5. PICK g \in res : g.target = h /\ g.cost = w
    BY <1>1, <2>2, <2>3, <2>4, Ways
  <2>6. e.cost \in CostsTo(me, n)
    BY <1>1, <1>13, <2>2, <2>3, Ways
  <2>7. e.cost - w \in CostsTo(h, n)
    BY <1>1, <1>13, <2>2, <2>3, <2>4, Ways
  <2> HIDE DEF n, h
  <2>8. ASSUME NEW f \in res, NEW y \in CostsTo(f.target, n)
        PROVE  y \in Nat /\ e.cost =< f.cost + y
    <3>1. PICK r \in held : n \in Nets(r) /\ \E p \in Between(f.target, r) : y = Costs(p)[Len(p)]
      BY <1>12
    <3>2. y \in Nat /\ \E z \in insertList : z.net = n /\ z.cost =< f.cost + y
      BY <1>11, <2>2, <2>3, <3>1
    <3>. QED
      BY <1>4, <2>1, <2>2, <3>2
  <2>9. Min(CostsTo(me, n)) = e.cost
    <3>1. ASSUME NEW y \in CostsTo(me, n) PROVE y \in Nat /\ e.cost =< y
      <4>1. y \in Nat /\ e.cost =< 0 + y
        BY <1>1, <1>7, <2>8
      <4>. QED
        BY <4>1
    <3>2. CostsTo(me, n) \in SUBSET Nat
      BY <3>1
    <3>. QED
      BY <2>6, <3>1, <3>2, MinIs
  <2>10. Min(CostsTo(h, n)) = e.cost - w
    <3>1. ASSUME NEW y \in CostsTo(h, n) PROVE y \in Nat /\ e.cost - w =< y
      <4>1. y \in Nat /\ e.cost =< w + y
        BY <2>5, <2>8
      <4>. QED
        BY <2>3, <4>1
    <3>2. CostsTo(h, n) \in SUBSET Nat
      BY <3>1
    <3>. QED
      BY <2>7, <3>1, <3>2, MinIs
  <2>11. Min(CostsTo(me, n)) = w + Min(CostsTo(h, n))
    BY <2>3, <2>9, <2>10
  <2>12. h \in Adjacent(me)
    BY <1>1, <2>2, <2>3, Ways
  <2>. QED
    BY <2>2, <2>4, <2>7, <2>11, <2>12 DEF n, h, Cheaper
<1>. QED
  BY <1>14, <1>15, <1>16

\* The table, step by step.
LEMMA TabledStep ==
    ASSUME TypeOK, Paths, Planned, Listed, Begun, Collected, Tabled, Next
    PROVE  Tabled'
<1>1. ASSUME \E l \in Issued : NewLsa(l) \/ RegisteredLsa(l) PROVE Tabled'
  <2>1. plan' = <<"trees", "routes">> \/ plan' = <<"routes", "trees">>
    BY <1>1 DEF NewLsa, RegisteredLsa
  <2>2. plan' \notin {<<>>, <<"trees">>}
    BY <2>1
  <2>. QED
    BY <2>2 DEF Tabled
<1>2. ASSUME StartTrees PROVE Tabled'
  <2>1. pc = "idle" /\ pc' = "trees" /\ UNCHANGED <<dbVars, table>>
    BY <1>2 DEF StartTrees
  <2>2. plan \in {<<"trees">>, <<"trees", "routes">>}
    BY <1>2 DEF StartTrees, Planned
  <2>3. CASE plan = <<"trees">>
    BY <2>1, <2>3, TabledKept
  <2>4. CASE plan = <<"trees", "routes">>
    <3>1. plan' = <<"routes">>
      BY <1>2, <2>4, Rests, Zenon DEF StartTrees
    <3>. QED
      BY <3>1 DEF Tabled
  <2>. QED
    BY <2>2, <2>3, <2>4
<1>3. ASSUME StartRoutes PROVE Tabled'
  <2>1. CASE me \in held
    <3>1. me \in Vertex
      BY <2>1 DEF Vertex
    <3>. QED
      BY <1>3, <3>1 DEF StartRoutes, Tabled
  <2>2. CASE me \notin held
    BY <1>3, <2>2 DEF StartRoutes, Tabled, dbVars
  <2>. QED
    BY <2>1, <2>2
<1>4. ASSUME EndPaths PROVE Tabled'
  <2>1. CASE me \in held
    BY <1>4, <2>1 DEF EndPaths, Tabled
  <2>2. CASE me \notin held
    BY <1>4, <2>2 DEF EndPaths, Tabled, dbVars
  <2>. QED
    BY <2>1, <2>2
<1>5. ASSUME Install PROVE Tabled'
  BY <1>5, InstallStep
<1>6. ASSUME \/ \E p \in todo : StartTree(p)
             \/ \E t \in layer : Expand(t)
             \/ NextLayer \/ EndTree \/ EndTrees
             \/ \E e \in queue : Skip(e) \/ Settle(e)
             \/ \E e \in res : Insert(e)
      PROVE  Tabled'
  <2>1. /\ UNCHANGED <<dbVars, table, plan>>
        /\ pc' \notin {"paths", "insert"} => pc \notin {"paths", "insert"}
    BY <1>6 DEF StartTree, Expand, NextLayer, EndTree, EndTrees, Skip, Settle, Insert
  <2>. QED
    BY <2>1, TabledKept
<1>. QED
  BY <1>1, <1>2, <1>3, <1>4, <1>5, <1>6 DEF Next

-----------------------------------------------------------------------------
(* The theorems.                                                           *)

\* The variables keep their types, in every network.
THEOREM TypeCorrect == Spec => []TypeOK
<1>1. IInv => TypeOK
  BY DEF IInv
<1>. QED
  BY <1>1, Invariant, PTL

\* calculateMinHopTree yields minimum-hop trees, whatever the order in which
\* the LSAs arrived and the vertices got their indexes.
THEOREM TreesAreMinimum == Spec => []MinimumHops
<1>1. IInv => MinimumHops
  BY DEF IInv, Searching, MinimumHops
<1>. QED
  BY <1>1, Invariant, PTL

\* calculateShortestPath yields shortest paths and their first two hops, in
\* whatever order the queue hands out entries of one cost.
THEOREM PathsAreShortest == Spec => []ShortestPaths
<1>1. ASSUME IInv PROVE ShortestPaths
  <2>1. Chained /\ Queued /\ Single /\ Short /\ Idle
    BY <1>1 DEF IInv, Paths
  <2>2. ASSUME pc = "insert", NEW e \in res, NEW v \in Adjacent(e.target) PROVE Settled(v)
    BY <2>1, <2>2 DEF Queued, Idle
  <2>. QED
    BY <2>1, <2>2 DEF ShortestPaths, Chained, Single, Short
<1>. QED
  BY <1>1, Invariant, PTL

\* The parents and the table, whatever is being computed.
Outcome == Planned /\ Listed /\ Grown /\ Parented /\ Begun /\ Collected /\ Tabled

\* ... of every state of every behaviour.
LEMMA OutcomeKept == Spec => []Outcome
<1>1. ASSUME Init PROVE Outcome
  <2>1. /\ held = {} /\ links = [r \in Router |-> {}] /\ pc = "idle" /\ plan = <<>> /\ todo = {}
        /\ parents = {} /\ insertList = {}
    BY <1>1 DEF Init
  <2>2. Planned /\ Listed /\ Grown /\ Begun /\ Collected
    BY <2>1 DEF Planned, Listed, Grown, Begun, Collected
  <2>3. Vertex = {}
    BY <2>1 DEF Vertex
  <2>4. Parented
    BY <2>1, <2>3 DEF Parented, Finished
  <2>5. Tabled
    BY <2>1 DEF Tabled
  <2>. QED
    BY <2>2, <2>4, <2>5 DEF Outcome
<1>2. IInv /\ Outcome /\ [Next]_vars => Outcome'
  <2>1. ASSUME IInv, Outcome, Next PROVE Outcome'
    <3>1. /\ TypeOK /\ (pc = "layer" => Searching) /\ Paths /\ Idle
          /\ Planned /\ Listed /\ Grown /\ Parented /\ Begun /\ Collected /\ Tabled
      BY <2>1 DEF IInv, Outcome, Paths
    <3>2. Planned' /\ Listed' /\ Begun'
      BY <2>1, <3>1, PlannedStep, ListedStep, BegunStep
    <3>3. Grown'
      BY <2>1, <3>1, GrowStep DEF Grown
    <3>4. Parented'
      BY <2>1, <3>1, ParentStep
    <3>5. Collected' /\ Tabled'
      BY <2>1, <3>1, CollectedStep, TabledStep
    <3>. QED
      BY <3>2, <3>3, <3>4, <3>5 DEF Outcome
  <2>2. ASSUME Outcome, UNCHANGED vars PROVE Outcome'
    <3>1. UNCHANGED <<dbVars, pc, plan, todo, layer, nextLayer, tree, parents, queue, res, insertList, table>>
      BY <2>2 DEF vars, treeVars, pathVars
    <3>2. /\ Vertex' = Vertex /\ (Consistent <=> Consistent') /\ UNCHANGED <<held, links>>
      BY <3>1, SamePaths DEF dbVars
    <3>3. Planned' /\ Listed' /\ Begun'
      BY <2>2, <3>1, <3>2 DEF Outcome, Planned, Listed, Begun, Origin
    <3>4. Grown'
      BY <2>2, <3>1, <3>2 DEF Outcome, Grown, Growing
    <3>5. Parented'
      <4>1. Finished' = Finished
        BY <3>1, <3>2 DEF Finished, Root
      <4>. QED
        BY <2>2, <3>1, <4>1, ParentsKept DEF Outcome
    <3>6. Collected'
      <4>1. (\A r : Nets(r)' = Nets(r) /\ Through(r)' = Through(r)) /\ Visited' = Visited
        BY <3>1, <3>2 DEF Nets, Through, Visited
      <4>. QED
        BY <2>2, <3>1, <3>2, <4>1 DEF Outcome, Collected
    <3>7. Tabled'
      BY <2>2, <3>1, TabledKept DEF Outcome
    <3>. QED
      BY <3>3, <3>4, <3>5, <3>6, <3>7 DEF Outcome
  <2>. QED
    BY <2>1, <2>2
<1>. QED
  BY <1>1, <1>2, Invariant, PTL DEF Spec

\* The parents calculateMinHopTree leaves are neighbours one hop closer to the
\* root, and there is one for every root within reach, whatever the order of
\* the LSAs and of the loops, also when an LSA came with a registration.
THEOREM ParentsLeadToRoot == Spec => []ParentsCloser
<1>1. ASSUME Outcome PROVE ParentsCloser
  <2>1. SUFFICES ASSUME pc = "idle", plan = <<>>
                 PROVE  /\ \A p \in parents : Closer(p)
                        /\ {p[1] : p \in parents} = {r \in Vertex : Between(me, r) # {}}
    BY DEF ParentsCloser, Closer
  <2>2. Finished = Vertex
    BY <2>1 DEF Finished
  <2>. QED
    BY <1>1, <2>1, <2>2 DEF Outcome, Parented
<1>. QED
  BY <1>1, OutcomeKept, PTL

\* In a network whose LSAs agree, calculateRoutingTable installs one item for
\* every network within reach but our own, over a next hop that is closer to it
\* by the cost of the link.
THEOREM RoutesLeadToNet == Spec => []RoutesCloser
<1>1. Outcome => RoutesCloser
  BY DEF Outcome, Tabled, TableCloser, RoutesCloser
<1>. QED
  BY <1>1, OutcomeKept, PTL

-----------------------------------------------------------------------------
(* All routers of a network.                                               *)

\* Who starts at u and follows hop inside S comes to one of last.
Comes(S, hop, u, last) ==
    \E n \in Nat \ {0} : \E p \in [1 .. n -> S] :
      /\ p[1] = u /\ p[n] \in last
      /\ \A k \in 1 .. n - 1 : p[k + 1] = hop[p[k]]

LEMMA Descent ==
    ASSUME NEW S, NEW rank \in [S -> Nat], NEW last, NEW hop,
           \A u \in S : u \notin last => hop[u] \in S /\ rank[hop[u]] < rank[u],
           NEW u \in S
    PROVE  Comes(S, hop, u, last)
<1> DEFINE Down(v) == Comes(S, hop, v, last)
           lost == {v \in S : ~Down(v)}
           bad == {rank[v] : v \in lost}
<1>1. ASSUME NEW v \in S, v \in last PROVE Down(v)
  <2>1. PICK n \in Nat \ {0} : n = 1
    OBVIOUS
  <2> DEFINE p == [k \in 1 .. n |-> v]
  <2>2. p \in [1 .. n -> S] /\ p[1] = v /\ p[n] = v
    BY <2>1
  <2>3. \A k \in 1 .. n - 1 : p[k + 1] = hop[p[k]]
    BY <2>1
  <2> HIDE DEF p
  <2>. QED
    BY <1>1, <2>2, <2>3 DEF Comes
<1>2. ASSUME NEW v \in S, Down(hop[v]), hop[v] \in S PROVE Down(v)
  <2>1. PICK n \in Nat \ {0} : \E p \in [1 .. n -> S] :
               /\ p[1] = hop[v] /\ p[n] \in last
               /\ \A k \in 1 .. n - 1 : p[k + 1] = hop[p[k]]
    BY <1>2 DEF Comes
  <2>2. PICK p \in [1 .. n -> S] :
               /\ p[1] = hop[v] /\ p[n] \in last
               /\ \A k \in 1 .. n - 1 : p[k + 1] = hop[p[k]]
    BY <2>1
  <2>3. PICK m \in Nat \ {0} : m = n + 1
    OBVIOUS
  <2> DEFINE q == [k \in 1 .. m |-> IF k = 1 THEN v ELSE p[k - 1]]
  <2>4. q \in [1 .. m -> S] /\ q[1] = v /\ \A k \in 1 .. n : q[k + 1] = p[k]
    BY <2>3
  <2> HIDE DEF q
  <2>5. q[m] \in last
    BY <2>2, <2>3, <2>4
  <2>6. ASSUME NEW k \in 1 .. m - 1 PROVE q[k + 1] = hop[q[k]]
    <3>1. CASE k = 1
      BY <2>2, <2>4, <3>1
    <3>2. CASE k # 1
      <4>1. k - 1 \in 1 .. n - 1 /\ k - 1 \in 1 .. n /\ (k - 1) + 1 = k /\ k \in 1 .. n
        BY <2>3, <3>2
      <4>2. q[(k - 1) + 1] = p[k - 1] /\ p[(k - 1) + 1] = hop[p[k - 1]] /\ q[k + 1] = p[k]
        BY <2>2, <2>4, <4>1
      <4>. QED
        BY <4>1, <4>2
    <3>. QED
      BY <3>1, <3>2
  <2>. QED
    BY <2>4, <2>5, <2>6 DEF Comes
<1> HIDE DEF Down
<1>3. bad = {}
  <2>1. SUFFICES ASSUME bad # {} PROVE FALSE
    OBVIOUS
  <2>2. bad \in SUBSET Nat
    OBVIOUS
  <2>3. PICK m \in bad : \A n \in bad : m =< n
    BY <2>1, <2>2, Least
  <2>4. PICK v \in S : ~Down(v) /\ rank[v] = m
    BY <2>3
  <2>5. hop[v] \in S /\ rank[hop[v]] < rank[v]
    BY <1>1, <2>4
  <2>6. ~(m =< rank[hop[v]])
    BY <2>4, <2>5
  <2>7. rank[hop[v]] \notin bad
    BY <2>3, <2>6
  <2>8. Down(hop[v])
    BY <2>5, <2>7
  <2>. QED
    BY <1>2, <2>4, <2>5, <2>8
<1>. QED
  BY <1>3 DEF Down

\* There are shortest paths.
LEMMA MinOf ==
    ASSUME NEW S \in SUBSET Nat, S # {}
    PROVE  Min(S) \in S
<1>1. PICK m \in S : \A x \in S : m =< x
  BY Least
<1>. QED
  BY <1>1, MinIs

\* Where every router reached follows a parent that is Nearer, as ParentsCloser
\* says of each router with this database (calculateMinHopTree breaks ties in
\* each router by an order of its own), a packet for the root comes to the root.
THEOREM PacketsReachRoot ==
    ASSUME NEW root \in Router, NEW parent,
           \A v \in Router \ {root} : Between(v, root) # {} => Nearer(v, parent[v], root),
           NEW u \in Router, Between(u, root) # {}
    PROVE  Comes(Router, parent, u, {root})
<1> DEFINE S == {v \in Router : Between(v, root) # {}}
           rank == [v \in S |-> Hops(v, root)]
<1>1. ASSUME NEW v \in S PROVE Hops(v, root) \in Nat
  <2> DEFINE lengths == {Len(p) - 1 : p \in Between(v, root)}
  <2>1. lengths \in SUBSET Nat /\ lengths # {}
    BY PathType DEF Between
  <2> HIDE DEF lengths
  <2>2. Min(lengths) \in Nat
    BY <2>1, MinOf
  <2>. QED
    BY <2>2 DEF Hops, lengths
<1>2. ASSUME NEW v \in S, v # root PROVE parent[v] \in S /\ rank[parent[v]] < rank[v]
  <2>1. Nearer(v, parent[v], root)
    BY <1>2
  <2>2. parent[v] \in S /\ Hops(v, root) = Hops(parent[v], root) + 1
    BY <2>1 DEF Nearer, Adjacent
  <2>. QED
    BY <1>1, <2>2
<1>3. rank \in [S -> Nat]
  BY <1>1
<1>4. u \in S /\ S \subseteq Router
  OBVIOUS
<1> HIDE DEF S, rank
<1> DEFINE last == {root}
<1>5. \A v \in S : v \notin last => parent[v] \in S /\ rank[parent[v]] < rank[v]
  BY <1>2
<1> HIDE DEF last
<1>6. Comes(S, parent, u, last)
  BY <1>3, <1>4, <1>5, Descent
<1>. QED
  BY <1>4, <1>6 DEF Comes, last

\* Where every router within reach of a network it is not on follows a next hop
\* that is Cheaper, as RoutesCloser says of each router with this database, a
\* packet for the network comes to a router on it.
THEOREM PacketsReachNet ==
    ASSUME TypeOK, NEW n, NEW hop,
           \A v \in Router : n \notin Nets(v) /\ CostsTo(v, n) # {} => Cheaper(v, hop[v], n),
           NEW u \in Router, CostsTo(u, n) # {}
    PROVE  Comes(Router, hop, u, {v \in Router : n \in Nets(v)})
<1> DEFINE S == {v \in Router : CostsTo(v, n) # {}}
           rank == [v \in S |-> Min(CostsTo(v, n))]
           last == {v \in Router : n \in Nets(v)}
<1>1. ASSUME NEW v \in S PROVE Min(CostsTo(v, n)) \in Nat
  <2>1. ASSUME NEW y \in CostsTo(v, n) PROVE y \in Nat
    <3>1. PICK r \in held : \E p \in Between(v, r) : y = Costs(p)[Len(p)]
      BY DEF CostsTo
    <3>2. PICK p \in Between(v, r) : y = Costs(p)[Len(p)]
      BY <3>1
    <3>3. /\ Len(p) \in Nat \ {0} /\ p \in [1 .. Len(p) -> Router]
          /\ \A k \in 1 .. Len(p) - 1 : p[k + 1] \in Adjacent(p[k])
      BY PathType DEF Between
    <3>4. Len(p) \in 1 .. Len(p)
      BY <3>3
    <3>5. \A k \in 1 .. Len(p) : Costs(p)[k] \in Nat
      BY <3>3, CostsGrow
    <3>. QED
      BY <3>2, <3>4, <3>5
  <2>2. CostsTo(v, n) \in SUBSET Nat /\ CostsTo(v, n) # {}
    BY <2>1
  <2>. QED
    BY <2>2, MinOf
<1>2. ASSUME NEW v \in S, v \notin last PROVE hop[v] \in S /\ rank[hop[v]] < rank[v]
  <2>1. /\ hop[v] \in Adjacent(v) /\ hop[v] \in S
        /\ Min(CostsTo(v, n)) = Weight(v, hop[v]) + Min(CostsTo(hop[v], n))
    BY <1>2 DEF Cheaper, Adjacent
  <2>2. Weight(v, hop[v]) \in Nat \ {0}
    BY <2>1, Edges
  <2>3. Min(CostsTo(hop[v], n)) < Min(CostsTo(v, n))
    BY <1>1, <2>1, <2>2
  <2>. QED
    BY <2>1, <2>3
<1>3. rank \in [S -> Nat]
  BY <1>1
<1>4. u \in S /\ S \subseteq Router
  OBVIOUS
<1>5. \A v \in S : v \notin last => hop[v] \in S /\ rank[hop[v]] < rank[v]
  BY <1>2
<1> HIDE DEF S, rank, last
<1>6. Comes(S, hop, u, last)
  BY <1>3, <1>4, <1>5, Descent
<1>. QED
  BY <1>4, <1>6 DEF Comes, last
=============================================================================
