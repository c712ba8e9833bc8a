------------------------------- MODULE Routes -------------------------------
(***************************************************************************)
(* What a routing daemon computes from its LSA database (LsaDatabase and   *)
(* Graph): for every other router its parent on the minimum-hop tree of    *)
(* that router, and the items of the kernel's routing table.               *)
(*                                                                         *)
(* The loops of the two graph algorithms are steps.  An iteration order    *)
(* the code takes from an unordered_map, from the index a vertex gets when *)
(* the graph is built, or from equal costs in the priority queue is any    *)
(* order.  STUB and TRANSIT links and RCH LSAs, which no router issues,    *)
(* are left out.                                                           *)
(***************************************************************************)
EXTENDS Integers, Sequences, FiniteSetsExt

CONSTANTS
    Router,   \* router ids
    Net,      \* networks, one for each point-to-point link
    me,       \* the router that computes
    Issued    \* the ADJ LSAs that may reach its database

Link == [to : Router, net : Net, cost : Nat \ {0}]

ASSUME RouterAssumption == IsFiniteSet(Router) /\ me \in Router
ASSUME IssuedAssumption == Issued \subseteq [origin : Router, links : SUBSET Link]

VARIABLES
    held, links,        \* adjLsa: the origins of the LSAs, their links
    pc,                 \* what is being computed
    plan,               \* what is computed after it, in this order
    todo,               \* vertices the running loop has still to visit
    layer, nextLayer,   \* calculateMinHopTree: nodes to expand now and next
    tree,               \* ... and its result: node, parent, layer number
    parents,            \* <<root, our parent on the tree of root>>
    queue, res,         \* calculateShortestPath: the queue and the result
    insertList,         \* items collected for the routing table
    table               \* the routing table's items of the daemon

dbVars == <<held, links>>
treeVars == <<layer, nextLayer, tree, parents>>
pathVars == <<queue, res>>
vars == <<dbVars, pc, plan, todo, treeVars, pathVars, insertList, table>>

-----------------------------------------------------------------------------
(* The graph of the database.                                              *)

Vertex == held \cup {k.to : k \in UNION {links[r] : r \in held}}

\* An LSA adds each of its links in both directions.
Claims(u, v) ==
    {k.cost : k \in {l \in links[u] : l.to = v} \cup {l \in links[v] : l.to = u}}

Adjacent(u) == {v \in Router : Claims(u, v) # {}}

\* Of duplicated edges the cheapest counts.
Weight(u, v) ==
    CHOOSE c \in Claims(u, v) : \A d \in Claims(u, v) : c <= d

Init ==
    /\ held = {} /\ links = [r \in Router |-> {}]
    /\ pc = "idle" /\ plan = <<>> /\ todo = {}
    /\ layer = {} /\ nextLayer = {} /\ tree = {} /\ parents = {}
    /\ queue = {} /\ res = {} /\ insertList = {} /\ table = {}

insertLsa(l) ==
    /\ pc = "idle" /\ plan = <<>>
    /\ held' = held \cup {l.origin}
    /\ links' = [links EXCEPT ![l.origin] = l.links]
    /\ UNCHANGED <<pc, todo, treeVars, pathVars, insertList, table>>

\* A new LSA, our own (triggerNewLsa) or one the network sent (LsaController).
NewLsa(l) == insertLsa(l) /\ plan' = <<"trees", "routes">>

\* An LSA that came with the answer of its origin's parent to a registration.
RegisteredLsa(l) ==
    /\ \E p \in parents : p[1] = l.origin
    /\ insertLsa(l) /\ plan' = <<"routes", "trees">>

-----------------------------------------------------------------------------
(* Minimum-hop trees: a breadth-first search from every vertex.            *)

\* A router that is no vertex yet has no parents.
StartTrees ==
    /\ pc = "idle" /\ plan # <<>> /\ Head(plan) = "trees"
    /\ pc' = "trees" /\ plan' = Tail(plan) /\ parents' = {}
    /\ todo' = IF me \in Vertex THEN Vertex ELSE {}
    /\ UNCHANGED <<dbVars, layer, nextLayer, tree, pathVars, insertList, table>>

InTree(v) == \E t \in tree : t.node = v

StartTree(p) ==
    /\ pc = "trees" /\ p \in todo
    /\ pc' = "layer" /\ todo' = todo \ {p}
    /\ tree' = {[node |-> p, parent |-> p, level |-> 0]}
    /\ layer' = tree' /\ nextLayer' = {}
    /\ UNCHANGED <<dbVars, plan, parents, pathVars, insertList, table>>

Children(t) ==
    {[node |-> v, parent |-> t.node, level |-> t.level + 1] :
        v \in {v \in Adjacent(t.node) : ~InTree(v)}}

\* (Variant: a node's children join the layer that is being expanded.)
ExpandAtOnce(t) ==
    /\ pc = "layer" /\ t \in layer
    /\ tree' = tree \cup Children(t)
    /\ layer' = (layer \ {t}) \cup Children(t)
    /\ UNCHANGED <<dbVars, plan, pc, todo, nextLayer, parents, pathVars,
                   insertList, table>>

Expand(t) ==
    /\ pc = "layer" /\ t \in layer
    /\ tree' = tree \cup Children(t)
    /\ nextLayer' = nextLayer \cup Children(t)
    /\ layer' = layer \ {t}
    /\ UNCHANGED <<dbVars, plan, pc, todo, parents, pathVars, insertList, table>>

NextLayer ==
    /\ pc = "layer" /\ layer = {} /\ nextLayer # {}
    /\ layer' = nextLayer /\ nextLayer' = {}
    /\ UNCHANGED <<dbVars, plan, pc, todo, tree, parents, pathVars, insertList, table>>

\* (Variant: the parent is looked up under the root instead of ourselves.)
ParentOfRoot == {<<t.node, t.parent>> : t \in {t \in tree : t.level = 0}}

\* reverseTree[sourceVertexIndex], if the tree reaches us.
ParentOnTree ==
    {<<r.node, t.parent>> : r \in {r \in tree : r.level = 0},
                            t \in {t \in tree : t.node = me}}

EndTree ==
    /\ pc = "layer" /\ layer = {} /\ nextLayer = {}
    /\ parents' = parents \cup ParentOnTree
    /\ pc' = "trees" /\ tree' = {}
    /\ UNCHANGED <<dbVars, plan, todo, layer, nextLayer, pathVars, insertList, table>>

EndTrees ==
    /\ pc = "trees" /\ todo = {} /\ pc' = "idle"
    /\ UNCHANGED <<dbVars, plan, todo, treeVars, pathVars, insertList, table>>

-----------------------------------------------------------------------------
(* The routing table: Dijkstra's algorithm from ourselves.                 *)

\* (Variant: the hops of the first entry are not set.)
OriginUnset == [target |-> me, cost |-> 0, nextHop |-> 0, nextnextHop |-> 0]

Origin == [target |-> me, cost |-> 0, nextHop |-> me, nextnextHop |-> me]

\* Without a vertex of our own the table stays as it was.
StartRoutes ==
    /\ pc = "idle" /\ plan # <<>> /\ Head(plan) = "routes" /\ plan' = Tail(plan)
    /\ IF me \in Vertex THEN pc' = "paths" /\ queue' = {Origin}
                        ELSE UNCHANGED <<pc, queue>>
    /\ UNCHANGED <<dbVars, todo, treeVars, res, insertList, table>>

Settled(v) == \E e \in res : e.target = v

\* (Variant: the priority queue hands out the most expensive entry first.)
Dearest(e) == \A f \in queue : e.cost >= f.cost

Cheapest(e) == \A f \in queue : e.cost <= f.cost

\* The path e, extended to neighbour v of its end.
Extend(e, v) ==
    [target |-> v,
     cost |-> e.cost + Weight(e.target, v),
     nextHop |-> IF e.target = me THEN v ELSE e.nextHop,
     nextnextHop |-> IF e.target = me \/ e.nextHop = e.target THEN v
                     ELSE e.nextnextHop]

Skip(e) ==
    /\ pc = "paths" /\ e \in queue /\ Cheapest(e) /\ Settled(e.target)
    /\ queue' = queue \ {e}
    /\ UNCHANGED <<dbVars, plan, pc, todo, treeVars, res, insertList, table>>

Settle(e) ==
    /\ pc = "paths" /\ e \in queue /\ Cheapest(e) /\ ~Settled(e.target)
    /\ res' = res \cup {e}
    /\ queue' = (queue \ {e}) \cup {Extend(e, v) : v \in Adjacent(e.target)}
    /\ UNCHANGED <<dbVars, plan, pc, todo, treeVars, insertList, table>>

\* Without an LSA of our own the table stays as it was.
EndPaths ==
    /\ pc = "paths" /\ queue = {}
    /\ IF me \in held
         THEN pc' = "insert" /\ todo' = {e.target : e \in res} \ {me} /\ UNCHANGED res
         ELSE pc' = "idle" /\ res' = {} /\ UNCHANGED todo
    /\ UNCHANGED <<dbVars, plan, treeVars, queue, insertList, table>>

Nets(r) == {k.net : k \in links[r]}

\* (Variant: a network reached through several routers keeps the last.)
KeepLast(n, cost) == TRUE

\* A network on the list gives way unless its item is cheaper.
GivesWay(n, cost) == \A i \in insertList : i.net = n => ~(i.cost < cost)

\* Our cheapest links to router h.
Through(h) ==
    {k \in links[me] : k.to = h /\ \A l \in links[me] : l.to = h => k.cost <= l.cost}

\* The networks of target e that are not ours, by e's next hop.  A target
\* without an LSA, or whose next hop has none or is not in ours, is left out.
Insert(e) ==
    /\ pc = "insert" /\ e \in res /\ e.target \in todo
    /\ todo' = todo \ {e.target}
    /\ IF {e.target, e.nextHop} \subseteq held /\ Through(e.nextHop) # {}
         THEN \E k \in Through(e.nextHop) :
                LET new == {n \in Nets(e.target) \ Nets(me) : GivesWay(n, e.cost)}
                IN  insertList' =
                      {i \in insertList : i.net \notin new} \cup
                      [net : new, hop : {e.nextHop}, link : {k.net}, cost : {e.cost}]
         ELSE UNCHANGED insertList
    /\ UNCHANGED <<dbVars, plan, pc, treeVars, pathVars, table>>

\* removeAllItem, then addRoutingTableItem for each item.
Install ==
    /\ pc = "insert" /\ todo = {}
    /\ table' = {[net |-> i.net, hop |-> i.hop, link |-> i.link] : i \in insertList}
    /\ pc' = "idle" /\ res' = {} /\ insertList' = {}
    /\ UNCHANGED <<dbVars, plan, todo, treeVars, queue>>

-----------------------------------------------------------------------------
Next ==
    \/ \E l \in Issued : NewLsa(l) \/ RegisteredLsa(l)
    \/ \E p \in todo : StartTree(p)
    \/ \E t \in layer : Expand(t)
    \/ StartTrees \/ NextLayer \/ EndTree \/ EndTrees \/ StartRoutes
    \/ \E e \in queue : Skip(e) \/ Settle(e)
    \/ EndPaths
    \/ \E e \in res : Insert(e)
    \/ Install

Spec == Init /\ [][Next]_vars

-----------------------------------------------------------------------------
Edge == [target : Router, cost : Nat, nextHop : Router, nextnextHop : Router]
Node == [node : Router, parent : Router, level : Nat]

\* The variables have their types: every hop is a router of the network,
\* none the 0 an edge of the graph holds in its place.
TypeOK ==
    /\ held \subseteq Router /\ links \in [Router -> SUBSET Link]
    /\ pc \in {"idle", "trees", "layer", "paths", "insert"}
    /\ plan \in Seq({"trees", "routes"})
    /\ todo \subseteq Router
    /\ layer \subseteq Node /\ nextLayer \subseteq Node /\ tree \subseteq Node
    /\ parents \subseteq Router \X Router
    /\ queue \subseteq Edge /\ res \subseteq Edge
    /\ insertList \subseteq [net : Net, hop : Router, link : Net, cost : Nat]
    /\ table \subseteq [net : Net, hop : Router, link : Net]

\* The search is by layers: in a finished tree a node is one layer below its
\* parent, a neighbour of it, and no neighbour is two layers above: the layer
\* numbers are distances in hops, whatever order the indexes give.
MinimumHops ==
    pc = "layer" /\ layer = {} /\ nextLayer = {} =>
        \A t \in tree :
            /\ t.level > 0 => \E s \in tree :
                 /\ s.node = t.parent /\ t.node \in Adjacent(s.node)
                 /\ t.level = s.level + 1
            /\ \A v \in Adjacent(t.node) : \E s \in tree :
                 s.node = v /\ s.level <= t.level + 1

\* The paths are shortest: no edge leads from a settled vertex to another at
\* a lower cost than that one's, every vertex but ourselves was reached from
\* one it extends, hops included, and no neighbour is missed at the end.
ShortestPaths ==
    /\ \A e, f \in res :
         /\ e.target = f.target => e = f
         /\ f.target \in Adjacent(e.target) =>
              f.cost <= e.cost + Weight(e.target, f.target)
    /\ \A f \in res :
         f # Origin =>
           \E e \in res : f.target \in Adjacent(e.target) /\ f = Extend(e, f.target)
    /\ pc = "insert" => \A e \in res : \A v \in Adjacent(e.target) : Settled(v)

(***************************************************************************)
(* Distances, defined by all paths.                                        *)
(***************************************************************************)

\* The paths that visit no router twice.
SimplePaths == {p \in UNION {[1 .. n -> Router] : n \in 1 .. Cardinality(Router)} :
                  \A j, k \in DOMAIN p : p[j] = p[k] => j = k}
Between(u, v) ==
    {p \in SimplePaths : /\ p[1] = u /\ p[Len(p)] = v
                         /\ \A k \in 1 .. Len(p) - 1 : p[k + 1] \in Adjacent(p[k])}
\* What each router of a path is away from its start.
Costs(p) ==
    LET c[k \in DOMAIN p] == IF k = 1 THEN 0 ELSE c[k - 1] + Weight(p[k - 1], p[k])
    IN  c
Hops(u, v) == Min({Len(p) - 1 : p \in Between(u, v)})
\* The costs of the paths from u to a router with network n.
CostsTo(u, n) ==
    {Costs(p)[Len(p)] : p \in UNION {Between(u, r) : r \in {r \in held : n \in Nets(r)}}}

\* Router h is next to u, and one hop closer to r.
Nearer(u, h, r) ==
    h \in Adjacent(u) /\ Between(h, r) # {} /\ Hops(u, r) = Hops(h, r) + 1

\* When the computations that follow a new LSA have ended, our parent on the
\* tree of a root is one hop closer to it than we are, and every root we reach
\* has a tree.  As this holds of each router, a packet that follows the parents
\* of routers with one database reaches the root, although each router breaks
\* ties by an order of its own.
ParentsCloser ==
    pc = "idle" /\ plan = <<>> =>
        /\ \A p \in parents : p[1] # me => Nearer(me, p[2], p[1])
        /\ {p[1] : p \in parents} = {r \in Vertex : Between(me, r) # {}}

\* Every vertex has sent its LSA and both ends list each link.
Consistent ==
    /\ Vertex \subseteq held
    /\ \A r \in held : \A k \in links[r] :
         \E l \in links[k.to] : l.to = r /\ l.net = k.net

\* Router h is next to u, and closer to network n by the cost of the edge.
Cheaper(u, h, n) ==
    /\ h \in Adjacent(u) /\ CostsTo(h, n) # {}
    /\ Min(CostsTo(u, n)) = Weight(u, h) + Min(CostsTo(h, n))

\* In a network whose LSAs agree, the table has one item for every network
\* within reach but our own, its next hop is closer to the network, and its link
\* the cheapest of ours to that hop: the tables of routers with one database
\* send no packet in a circle.
RoutesCloser ==
    pc = "idle" /\ plan = <<>> /\ Consistent /\ me \in held =>
        /\ {i.net : i \in table} = {n \in Net \ Nets(me) : CostsTo(me, n) # {}}
        /\ \A i, j \in table : i.net = j.net => i = j
        /\ \A i \in table : /\ Cheaper(me, i.hop, i.net)
                            /\ \E k \in Through(i.hop) : i.link = k.net
=============================================================================
