# TLA+ models of the NDN routing and address daemons

The repository implements a link-state routing protocol (`ndnRouting`) and an
address assignment protocol (`ndnAddr`) on top of a small NDN forwarder. This
directory holds models of its protocols in TLA+, the configurations that check
small instances with TLC, and proofs checked with TLAPS. Paths below are relative
to `src/src/`; `PROJECT.json` maps every definition to the lines it models.

## The system

| Component | State | Operations | Interacts with |
|---|---|---|---|
| Forwarder (`networkLayer/ndn`) | pending-interest table, dead nonce list, content store (never read) | incoming interest, incoming data, expiry, resize | timers, raw sockets, the two protocols above |
| Adjacency (`ndnRouting/model/neighbor`, `HelloController`, `DDController`) | one object per neighbour: state, database summary, description packs, indices, list of pending LSAs, its timers | hello, request and answer of a description, request and answer of an LSA, inactivity, one-way, wrong hash | LSA database, timers |
| Registration (`MinimumHopTree`, `RegisterController`, `DeRegisterController`) | parents and sons per root, time of the last operation of each son | registerParents, register, deregister, their answers and retransmissions | LSA database, flooding |
| Flooding (`LsaController`, `InfoController`, `LsaDatabase`) | LSA database, list of flooded requests | INFO, LSA request and answer, retransmission | registration, graph, routing table |
| Graph (`Graph.cpp`, `LsaDatabase::calculate...`) | none kept | shortest paths, minimum-hop tree | LSA database, kernel routes |
| Timer (`util/timer`) | running timers by name | start, cancel, fire and restart | everything |
| Address assignment (`ndnAddr`) | state of each interface, leader, requests, address pool | hello, election, request, revocation | chain |
| Chain (`blockchain`, `AddrChainController`) | blocks, buffer of a block | generate, save, exchange | address assignment |
| Support | - | ACL (its verdict is discarded), audit, ciphers, hashes, encodings, NICs, flags | - |

**Threads and locks.** One thread reads the raw sockets and runs the forwarder
and the handlers above it. Every timer has a thread of its own. A handler of the
routing daemon runs under `NdnRoutingProtocol::mutexLock`, from its first line to
its last, sends included; the forwarder has `protocolLock`, which it releases
around sends and upcalls; the timer table has its own lock. A timer is taken out
of the table before its callback runs, and the callback then waits for the
protocol's lock. From then on `cancelTimer` finds nothing, and this is the source
of most of the interleavings the models are about.

**What is hard here.**
- Timers that fire while an answer is being handled, and whose callback retransmits
  or restarts itself afterwards; timers that share a name.
- Requests that are lost, repeated, or overtaken by later ones of the same router.
- Objects that are reset while packets of their previous life are under way.
- A parent's sequence number read at one end and compared at the other.
- State left behind by early returns: a parent recorded without being told, a
  flooded request without a timer.
- Limits: retransmissions, dead nonces, indices into lists that were rebuilt.
- A request that is asked once, a chain that flushes what another router recorded.
- Tables that every router computes by itself, with ties broken by the order of a hash
  table, and that packets cross together.

`PROJECT.json` lists each of them at its line, with the property that covers it.

**What makes the components correct.**
- Forwarder: every pending entry ends, by data or by its timer; an interest is
  sent on once while it is pending; the nonces of an entry that ended are
  remembered.
- Registration: parent and son agree once they have finished talking; a son misses
  no version of the root's LSA between its registration and the notifications;
  retransmission ends.
- Adjacency: a full neighbour's database has been loaded; the exchange ends, and
  ends in full adjacency when the link is good enough.
- Flooding: databases only move forward, to versions that were issued; a version is marked
  as requested only while it is; no son is left untold; a son catches up with its parent.
- Graph and routing table: trees are breadth-first, paths shortest, and every parent and
  next hop is closer to its destination, so that routers with one database send no packet in
  a circle.
- Broadcasts: every other router hears each once, and a leader gets one answer.
- Address assignment: no address is held twice unless the pools of two roots meet, and then
  one of the holders gives it up; both ends of a link are in one block; no
  interface is left for good without an address.
- Chain: the chains of all routers are level when none is under way.

## Modules

| Module | Models | Extends |
|---|---|---|
| `Registration` | registration on the minimum-hop trees | - |
| `TreeMembership` | what registration promises: a parent's list only moves on to later requests of the son | - |
| `RegistrationProofs` | proofs about `Registration` | `Registration`, `TLAPS` |
| `Forwarder` | pending-interest table, expiry, dead nonces | - |
| `ForwarderProofs` | proofs about `Forwarder` | `Forwarder`, `TLAPS` |
| `Adjacency` | two routers at the ends of a link become neighbours | - |
| `AdjacencyProofs` | proofs about `Adjacency` | `Adjacency`, `TLAPS` |
| `LsaFlood` | how the versions of one router's LSA spread through forwarders, handlers and trees | - |
| `Dissemination` | what flooding and the exchange of databases promise: they move forward, to versions that were issued | - |
| `LsaFloodProofs` | proofs about `LsaFlood`: types, marks, refinement of `Dissemination`, no son left behind | `LsaFlood`, `TLAPS` |
| `AddrAssign` | election, blocks, addresses, confirmations and chains of the address daemon | - |
| `AddrAssignProofs` | proofs about `AddrAssign`: types, elections, addresses, confirmations, chains | `AddrAssign`, `TLAPS` |
| `AddrServedProofs` | proof that no interface is left without an address | `AddrAssignProofs` |
| `Broadcast` | requests, answers and confirmations of the address daemon on their way through the forwarders | - |
| `BroadcastProofs` | proofs about `Broadcast` | `Broadcast`, `TLAPS` |
| `Routes` | minimum-hop trees and routing table computed from a database | - |
| `RoutesProofs` | proofs about `Routes`: trees, paths, parents, table, and packets that follow those of all routers | `Routes`, `TLAPS` |
| `MCRegistration`, `MCForwarder`, `MCAdjacency`, `MCLsaFlood`, `MCAddrAssign`, `MCBroadcast`, `MCRoutes` | the instances TLC checks | the module above |

`LsaFlood` is where the components meet: it runs the forwarder's pipelines, the
handlers of the LSA names and the registered trees of several routers together, with the
handshakes of `Registration` and `Adjacency` reduced to their outcome. `Routes` computes the
parents that `Registration` and `LsaFlood` leave open. `Broadcast` runs the forwarders of all
routers under the address daemons; `AddrAssign` takes from it that a broadcast reaches every other
router once and that one answer reaches the leader.

### Registration

One action is one handler: `ReceiveRegister` is `RegisterController::onReceiveInterest`
with the answer it sends; `ReceiveReply` is `onReceiveData`, including the LSA a parent
may put into its answer, its insertion, the notification of the sons and the call of
`registerParents` that follows. `registerParents` computes a tree that the model leaves
open (`Tree`): any parent for which `calculateMinHopTree` could find an edge, an edge
being in the database if either end lists it. The deregistration and registration
requests of one call are sent and stamped in the order of the code. `known` is the set
of neighbour objects; the code skips requests to a neighbour without an object but
records the parent all the same, and so does the model.

The names of these requests are under `/routing/local` and bypass the PIT, so the network
between two neighbours is the link: a set of packets in which a packet can be repeated
(by retransmission), overtaken, or left for ever. A retransmission timer is a record of the
request and its count; `armed` are those running and `firing` those whose callback
waits for the lock.

A timestamp has millisecond resolution. With `SameMillisecond = TRUE` the requests of one
call may share one; name, timer and the "newer" test of the parent are then shared too.
Two requests of one millisecond to the same parent are mistaken for one another if they are of one kind (one answer
acknowledges both) or about one root (the parent takes the first that arrives). `Agreement` is about
the requests of which none is mistaken (`Apart`); without that premise TLC finds two neighbours
that disagree for good as soon as two requests share a millisecond. The run has distinct timestamps, for which the premise always
holds (`DistinctAreApart`); with shared ones the state space of its instance is out of TLC's reach, and the
theorem speaks. The refinement of `TreeMembership` asks for nothing of the kind.

### Forwarder

An interest is checked against the dead nonces before `protocolLock` is taken
(`CheckInterest`), and recorded in the table under it (`Record`, `DropLooping`). The
expiry timer is named after the interest. `armed[n]` is the number of the start the
running timer belongs to, which is how the model tells whether the timer that ends an
entry is that of its last in-record. `Finalize` is the callback once it has the lock; it ends
whatever entry has the name by then. Faces are chosen by the strategies after the
last access to the table and are not in the model. INFO and names under `local` do
not enter the table.

### Adjacency

`nbr[r]` is the object router `r` has for its peer, field by field as in
`NdnRoutingNeighbor.h`. The methods of the class and its state objects are operators
that take the object and return it changed (`clear`, `sendDDInterest`, `sendDDData`,
`dragPeerToInit`, `ExchangeDone`, ...); `out` collects what they send, and the handler
that ran puts it on the link (`Commit`, `Answer`). The link is a queue per direction that may
lose its head. What is kept of the code's peculiarities: the answer to request 0 pushes the
packs onto a list that may not be empty; a description is processed in any state; the
name of an LSA request's timer has no origin; a hash that differs takes a full neighbour back to
Exchange without resetting its indices; an answer may carry a newer version than was
asked for. `described` is a history variable: what the peer has described since the
object was last cleared. In one respect the model lets more through than the code: the hello of `dragPeerToInit` carries
the peer's public key (NdnRoutingNeighbor.cpp:215) under its sender's signature, so a receiver that is still below
Exchange, which checks the signature with the key in the packet, drops it, and only one at or beyond Exchange, which checks
with the key it stored, acts on it (HelloController.cpp:50-62). `ReceiveHello` acts on it in every state; below
Exchange all it does there is what an ordinary hello that lists no neighbour does, that is, the object is in Init and watched.

Flooding runs beside the exchange: `Info` is an LSA that is announced and requested,
`FloodAnswer` its arrival (or its being given up). `differ` bounds how often a hello shows another database than the
peer's; the code looks at the hash only if all its other neighbours are full too,
which is open in the model. `drag` bounds how often an end starts the exchange
again because of an index out of order: both ends do so in answer to each other, and
requests of the old exchange set off the next restart, so it repeats itself without
bound.

### LsaFlood

Every key of the code (database, pending list, timer, name) carries the type and the origin of an
advertisement, so one type and one origin stand for all. `pending[r]` is
`broadcastLsaPendingRequestList`: the marks that keep an INFO from setting off a second
request. A mark goes when the answer comes or the last retransmission was made, but
not when the timer is cancelled by an answer of the database exchange, which has the
same timer name; and `InfoController` returns with the mark set when it does not
find the neighbour object of its parent. Both are in the model, as is the empty answer with
which a router that has a newer version than the one asked for settles the request.

`ReceiveRequest` and `ReceiveData` are the forwarder's pipeline and the handler above it,
because the sockets have one reader. `pit[r][v]` has the in-records of a name; a request that a
router passes up to its own parent adds the router itself as a face, with the same nonce
(`SimpleStrategy` keeps the packet). `missed` is a history variable with what a router cannot know of:
announcements lost or skipped, and requests given up. Registrations travel reliably and in order
here; `registerParents` may choose any parent that some tree gives (`Closer`), and a
router has one registration under way at a time. A tree needs a link to the origin in the LSA of
some router and not the origin's own LSA, so `Rebuild`, the new tree after the LSA of
another router, does not ask what the router holds: it registers with -1 if it holds nothing, the
parent answers with its version if it has one, and the router takes it with the announcement to all neighbours that a
first version gets (`ReceiveOffer`, `Accept`). At first nobody else has a version; the origin may have
none either. `Exchange` is the outcome of a database exchange.
Timers run for seconds and packets for milliseconds: a timer that fires while its request is
under way is counted as a disturbance (`"early"`), and the entry of a name expires only when
none is.

### AddrAssign

The two ends of a link exchange hellos (`Hello`; sent and received in one step, a lost one
delays the exchange only) and count to their decision in `AddrCronjobController`. `EndWait`
is the time at which an interface decides with what it has heard; that it
decides without having heard its peer is the fault `"unheard"`. `BecomeRootLeader` takes a block
from the pool; `BecomeLeader` broadcasts a request, once, that each root may answer and of
which the forwarder passes the first answer on; `ReceiveOffer` takes the block and confirms
it. `LocalRequest` of the other end has no state of its own and is repeated until it is
answered. `ReceiveConf` records a block as used, and gives up the address of an interface
that holds one of a block another router confirms (`Fallback`, 10.0.0.1, taken to be outside
all pools). `RevokeAssignment` is the timer of a root that has heard no confirmation, and
`GenerateBlock`, `ReceiveChain` the chain of records.

Peculiarities kept: a hello makes the larger router id the leader without asking whether one has been
declared; the follower of a leader that has given up a contested block still gets an address of it;
a router does not hear its own confirmations; a root that gives itself a block does not look at the known
addresses; `prevBuffer` is assigned after `blockBuffer` was cleared and is always empty, so
that the records of a block that a longer chain flushes are not made again, although the
comment at `NdnAddrAssignment.cpp:197` says that they are kept for that. `returnAddress` does nothing.
The `routerID` and `interfaceIndex` of an answer taken from an uninitialised wrapper are
taken never to match: each leader asks once, so only ids of another router could be
in what is left there.

### Broadcast

A face is the router at the other end of a link, or `Up`, the daemon above the forwarder. The thread that
reads the sockets takes a packet off the link and checks it against the dead nonces (`Check`, `DropDead`); then it
takes `protocolLock`, and the rest of `onIncomingInterest` is `Idle` (a loop, or a record in a pending entry),
`Forward`, or `ForwardAnswered`. In between, the expiry timer of the same name can end the entry. What the daemon does with a
packet happens inside the call that hands it up, so it is part of the step: a root that has a block answers, and its
own answer uses up the entry of the request before the request is sent on to the other links. Between the upcall and
the sends the lock is free, but the reader is the only thread that brings packets in. `PassBack` and
`Receive` are `onIncomingData`, the second at the leader, whose daemon may take the block and confirm it in the same
call; whether it does is `AddrAssign`'s matter and open here. A copy goes out on the links of all
faces but the one it came from (`MyNextHopStrategy`), an answer to the faces in the entry (`MyForwardStrategy`).

A name is sent once, with one nonce, because ids, blocks and random numbers are in it; so an entry is a set of
faces and the dead nonce list a set of names. A link between two routers carries a packet once, in any order. The history
variables say which daemon was handed which name from where, and how many answers a leader was handed.
Faults are a packet lost, an entry that ends while packets of its name are
under way (6 s have passed, or the flood took as long), and the same between the check and the lock (`"race"`).

### Routes

The loops of `Graph::calculateMinHopTree` and `Graph::calculateShortestPath` are steps. Where
the code takes an order from an `unordered_map`, from the index a vertex got when the
graph was built, or from equal costs in the priority queue, the model takes any order, since
routers with one database have different orders. An edge is in the graph if either
end lists the link: `Graph.h` says that only bidirectional edges count, but the check is commented
out, and `generateLsa` lists a neighbour whatever its state, so one-sided links occur. The
cheapest of parallel edges counts. A new LSA computes trees and then routes; one that came with the answer to
a registration the other way round (`plan`). `Install` is `removeAllItem` and the
additions that follow; the moment in between, in which the kernel has none of the routes, is not
modelled. The cost of an interface is 1 (`setCost` has no caller); the model takes any
positive costs, as the tests of `Graph` do.

`RoutesCloser` asks for databases whose advertisements agree at both ends of each link. Without
that premise TLC finds a table that sends packets for a network to the farther of its
two routers, which may send them back, until the other end's LSA arrives.

## Runs

| Run | Instance | Result |
|---|---|---|
| `registration` | three routers in a line, the root at the end and not yet heard by the parent in the middle; three requests of the son, the fewest with which an old deregistration can follow a newer registration; two versions; retransmission up to 2 | `TypeOK`, `NoVersionMissed`, `Agreement`, `LastRequestStands`, `RetransmissionEnds`, `MovesOn` (refinement of `TreeMembership`) hold |
| `unheard_parent` | three routers in a triangle, the root being a neighbour that one of them has not heard | `RegisteredParentWasTold` is violated: the parent is recorded, no request was ever sent |
| `forwarder` | two names (one hop name), one network face and the upper layer, two nonces, three interests, one resize | `TypeOK`, `PendingWillEnd`, `Aggregated`, `EntryEnds`, `RememberedIfRoom` hold |
| `stale_expiry` | the same | `LastRecordExpires` is violated: a callback that waited ends a renewed entry |
| `dead_nonces` | the same, two resizes | `NoncesRemembered` is violated: the limit only falls, to 1 |
| `adjacency` | two routers and the LSA of a third, up to two faults of any kind | `TypeOK`, `LoadingWaits`, `DescriptionsExistAtFirst`, `FullMeansHeld`, `Disseminates` (refinement of `Dissemination`, for the LSA of each of the three) hold |
| `adjacency_forms` | the same; one loss, one needless retransmission, one flooded LSA | `AdjacencyForms` holds |
| `dd_overrun` | the same; databases differ twice | `DescriptionsExist` is violated: a description past the end of the list is read |
| `lsa_flood` | three routers in a triangle, two versions; one disturbance after a registration without an LSA or a database exchange, or empty databases and two such registrations, or one and an exchange | `TypeOK`, `NoMarkForgotten`, `NoSonLeftBehind`, `CatchesUp`, `Disseminates` (refinement of `Dissemination`) hold |
| `addr_assign` | three routers in a line, roots at both ends, pools that meet, one fault of three kinds | `TypeOK`, `UniqueAddress`, `OnlyLeadersServe`, `ContestedYield`, `SameSubnet`, `ChainsLevel`, `NoneStranded` hold |
| `broadcast` | a triangle of a leader, a root and another router, with a second root behind the first; one fault of three kinds | `TypeOK`, `NoneTwice`, `Reached`, `OneAnswer`, `Spreads` hold |
| `routes` | five routers, seven links, two of them parallel, nine LSAs in any order | `TypeOK`, `MinimumHops`, `ShortestPaths`, `ParentsCloser`, `RoutesCloser` hold |

**Bounds.** `MaxRetry` is 2 in registration (3 in the code): the second expiry already meets a
timer that was restarted by its own callback. `MaxTime` bounds the requests of a router
and `MaxSeq` the versions of an LSA; three requests are enough for every order of
register, deregister, register at the parent. Three interests are enough to renew an
entry, end it, and create it anew with the old timer. In `Adjacency`, `MaxQueue` is the
receive queue of the socket; one LSA in one of the databases gives an exchange with
nothing to describe in one direction and something to load in the other, and the
LSA every router issues as it becomes full or after 15 s gives descriptions of
two packs.

In `LsaFlood` a triangle is the smallest graph in which a request travels two hops and a router can
change its parent; two versions are enough for an announcement to overtake the answer to an
older one. A behaviour belongs to one of the `Scenarios`, which say whether the origin has issued a version at first, which
kinds of disturbance happen, and bound the disturbances, the exchanges and the rebuilds in which a router without a
parent gets one (accepting a version can give a first parent at any time, unbounded); `budget` is what
is left of them. The run has four:

- the origin has a version, a router registers with -1, there is one disturbance of any kind;
- the origin has a version, a router gets it by an exchange, there is one disturbance, but no neighbour is forgotten;
- nobody has a version, both other routers may register with -1 before the origin issues anything;
- nobody has a version, one router may register so, and there is an exchange.

A neighbour forgotten beside an exchange, a disturbance while the origin has no version, and more of
either make millions of states and are left to the theorems, which hold for any scenarios; `CatchesUp`,
a liveness property, is checked in these only.

In `AddrAssign` the line 1 - 2 - 3
has a leader that is no root, a root that answers another router and a root whose pool
meets that of the other: the pool of 1 starts at block 1 and that of 3 at block 0; `MaxChain`
is 2, so that a chain can fork and one fork win. In `Broadcast` the triangle is the smallest graph in which a copy
meets the entry of another, and the tail one in which a request has to pass a root that has answered
it and two answers meet. In `Routes` router 1 computes; routers 1 to 4
form a square with two links between 1 and 2, 5 is a neighbour of 2 and 4, and four of the
LSAs have a second version in which links are gone. The distances that `ParentsCloser` and `RoutesCloser`
speak of are defined by all simple paths (at the end of `Routes`), not by another algorithm.

The deadlock check is off where the system rests: all requests answered, all
interests ended, the bound on restarts reached.

**Fairness.** Weak fairness of the timer threads (a thread that has slept its time runs,
and its callback gets the lock), of the expiry of pending entries in `LsaFlood`, of the reader
thread in `Adjacency`, `LsaFlood` and `Broadcast` (there of the reader threads together: some reader reads while there is something to read), and of the periodic hello in `Adjacency`. `AddrAssign` and
`Routes` state no liveness: `NoneStranded` and `ParentsCloser` are the safety forms of what
has to happen. No fairness is assumed of the network: a packet may
be left, or lost, within the bounds. In `Adjacency` and `LsaFlood` the liveness properties are checked
for a bounded number of losses; `Spreads` speaks of broadcasts of which nothing was lost.

**What the liveness run does not hold for.** With two lost packets, or with one loss while a router has already issued its
own LSA, the routers can stay in Loading for ever. A description request that is
retransmitted needlessly makes the peer push all its digests once more into packs that already hold
them; the router then has the same LSA twice in its pending list, but only one timer. The
first answer takes one entry off the list and cancels the timer; if the second answer is lost nobody
asks again, and hellos do not take a neighbour out of Loading.

## Proofs

`TypeCorrect`, proved for each of the seven models, is the type invariant, for all values of the
constants that meet the named assumptions of the module.
In `Adjacency` these are two distinct routers, finitely many others, and a database in which
every origin has a version or none, and what a router has of its neighbour's own LSA the neighbour has issued (ids are drawn
anew at every start, so there is none from a former life); in `LsaFlood`, that links have two directions, parents are neighbours and the origin has none;
in `AddrAssign`, that every link has two ends in different routers; in `Broadcast`, that links have two directions and the network
is connected; in `Routes`, that there are finitely many routers and links have
positive costs.

`SonsAgree` (`RegistrationProofs`): `Agreement` speaks of names that were acknowledged, which
says nothing by itself about the parent; the inductive invariant adds what an acknowledgement
is worth. Its parts: every packet, timer and answer stems from a request that was issued, and no request has
a later time than the clock of who issued it; of an answered name there is a request no later than the parent's
`lastOp` for that son and root; `lastOp` is the time of an issued request that says whether the son is in
the list; and of the last requests about a root that a router issued to a neighbour one says whether
that neighbour is its parent now. All this holds although requests share a millisecond. Where none of the requests
to that parent about that root is mistaken for another (`Apart`), the answered request, the one in effect and the last one are the same.
`DistinctAreApart` shows that distinct timestamps are enough for that.
The last of these parts is a theorem of its own, `LastRequestHolds`: with a neighbour known from the start, what
`unheard_parent` refutes for others is true, of former parents as of present ones.

`RegistrationRefines` shows that every step of `Registration` is a step of
`TreeMembership` or leaves its variables alone. It needs the origin of packets
and the order of timestamps only.

`VersionsAnnounced` makes `NoVersionMissed` a theorem: a parent that holds a newer advertisement than
a registered son has told it, or an answer to the registration is still to come. Its
invariant has three more parts. The sequence number in a registration is not larger than
what its sender holds, because databases do not go back, so the comparison at the parent can
only offer too much. The versions a parent has told a son are not forgotten. And when a version
arrives every son is told but for the router that sent it, which holds it. No
assumption about timestamps or the network is needed.

`EntriesWillEnd` and `EntriesAggregate` (`ForwarderProofs`) hold by one inductive
invariant: a pending entry has a running timer or a callback that waits for the lock. It is
preserved by `Record` because the timer that `startTimer` finds running on an entry that
is not pending is left to run, and by `Finalize` and `Data` because they end the entry as
they take the callback, or the timer, away.

Two more theorems of that module narrow down what the runs `dead_nonces` and `stale_expiry` show.
`NoncesRememberedIfRoom`: an entry that ends is forgotten at once only if it has more in-records than the
limit of the dead nonce list, for what is appended last is dropped last (`NewestHolds`). The list does not
have to be empty and the limit may have fallen. `PromptExpires` is about `PromptSpec`, the behaviours in
which no interest is recorded while a fired timer's callback waits for `protocolLock`: there an entry
expires by the timer of its last in-record, because no timer then outlives its entry (`Timely`). So
the delayed callback is the only cause of the disagreement, not the timer that is named
after the interest or `startTimer`'s refusal. `PromptSpec` is no run's specification.

`FullIsHeld` and `LoadingIsWaiting` (`AdjacencyProofs`): `FullMeansHeld` speaks of the
step into Full, in which nothing is left of the requests that were made. The inductive invariant
adds `Held`: what the peer has described since the object was cleared is in the
database, or a request for that version or a newer one is on the pending list. A
description preserves it because what is neither missing nor left to flooding is held; an
answer because the one request it takes off the list is for a version not newer than the
one it brings, which is then in the database; the restarts because they give up descriptions and
requests together. Full is entered only with an empty list, so everything described is held.
Loading is entered only with a list that is not empty, and left by the answer that
empties it, which is the other theorem. Most methods of the neighbour object share
one relation between the object before and after (`Kept`), proved once per method;
the lemmas `CommitStep` and `HandledStep` then carry it to the variables.
The limits on faults are arbitrary constants: the theorems hold for any number of them.

`DescriptionsExistFirst` bounds what `dd_overrun` finds. A request that passes the check of its index is answered from `ddList`
beyond its end only if an exchange starts from an object that has sent packs before, or made them
for an older summary. There are two ways to such a start: a neighbour that is Down answers request 0, and Full goes back to Exchange.
The theorem says that there is no third: while no object has been Down and no hello has taken a full one back, every
pack sent exists, for any databases and any number of losses, late requests, restarts and early timers. The inductive
invariant (`Prepared`) says that an object that waits for a two-way hello has sent nothing, that once it has sent a pack there
is one for every digest of its summary (`Listed`), and that the packs under way exist (`Intact`). Resent requests keep it because
the answer to request 0 only makes the list longer, restarts because `clear()` takes indices, list and summary together.

`ExchangeDisseminates` says that the exchange keeps the promise of flooding, `Dissemination`, for the LSA of every
router; `ImplementsDissemination` says it of each origin by the abstract module's own specification. A router elsewhere stands for its newest
version in either database (`Newest`), since nothing else of it is modelled. What is needed besides the types is
`Backed`: no database, no LSA under way and no mark of the flooding is ahead of the origin. A neighbour object sends
no LSAs (`Message`), and `LsaController` sends what is held, so nothing unissued gets onto the link;
a router's own LSA is never replaced by one it receives, as the latter is not newer. A handler that ends with the
neighbour full may learn a version and issue one of its own in the same step; they are steps of two different origins
(`DatabaseStep`).

`MarksPursued` (`LsaFloodProofs`): `NoMarkForgotten` is inductive once the packets under way are known to
be genuine, that is, an answer carries the version its name asks for, or none, and an
answer of the database exchange, which cancels a timer without taking its mark away, carries at
least the version of its name. So the mark it leaves behind is for a version that is held.
`FloodDisseminates` uses the same facts: whatever is accepted is newer than what was held and not newer
than what the origin has issued.

`SonsReached` (`LsaFloodProofs`) is about the gaps between a registration, the announcements and the answers.
Its invariant, `SonsInv`, says of packets that they are backed (`Vouched`): an answer or an offer holds no more than
its sender does, an empty answer is to a request for a version that is no longer the newest, a
registration under way names the sender's parent and a deregistration a former one. So a registered son that
lags behind a parent with the newest version has a mark, an announcement or an offer of that version
under way, has missed it, or has a deregistration under way (`Reached`). The steps share one argument (`CalmStep`): a packet goes
only when its work is done (`Done`), a mark only when the version arrived, is old or is given up
(`MarksEnd`), and who learns a version tells its sons (`Notified`), except the one that sent it. A son that registers
with nothing is no special case: its registration carries -1, the parent's answer is newer if there
is anything to answer, and if there is not, the parent has the son on its list when it learns its first version. Only the
issue of a version and the coming and going of neighbours are argued apart.

`AddrAssignProofs` proves the properties of its run but `NoneStranded` by one invariant in six
parts. `Elected`: a leader field names an end that chose it, the larger id follows only a
declared leader, and while no wait was cut short only the larger id leads. `Numbered`: a leader has the first
address of its block and gives the second, to its peer only. `Allotted`: blocks offered or
taken twice were given by two roots. These give `LeadersServe`, `Subnet` and `Unique`. `Warned`: of two leaders
that keep one block one has a confirmation to receive, since each sent one to all others when it took the
block; this is `Yield`. `Catching`: a router behind a chain, or behind a chain message, has one as long
on its way to it; this is `Level`. The theorems hold for any network of two-ended links and any number of faults,
including an unheard hello at every interface, which the run has at one.

`Served` (`AddrServedProofs`) makes `NoneStranded` a theorem for networks with at least one root. The request of
a leader is asked once, so an answer that is refused is the last. Blocks that are known, recorded or
confirmed were taken by an interface (`Traced`), and a block that was taken is known to every
other router or on its way there (`Spread`); so a leader that refuses an answer hears of
or holds a block that was taken before, and which by `Allotted` two roots gave. A leader without a block either still waits for
its answer or is in that case (`Asked`); a follower has a leader, by `Elected`.

`BroadcastProofs` has one inductive invariant for its four theorems. `HeardOnce` needs that a name leaves its mark
wherever it was handled: a router has an entry for it, or has it among its dead nonces, exactly if its daemon sent it or was handed it
(`Remembered`), and what a reader has checked is still alive when it takes the lock unless the entry ended in a
race (`Reading`). `ReachesAll` needs that a name spreads edge by edge: the neighbour of a router that has sent it on has it too,
or a copy is on its way, or one was lost (`Spreading`); at rest the set of routers that have it is closed under
links, and the network is connected. It does not matter that a root answers, or that entries end, on the way.
`AnsweredOnce` is about the way back. An entry has one face only, its own daemon's or that of the router from which the daemon heard the name
(`Entries`), and who heard a name from whom has no circles (`Rooted`: routers that all heard it from one another
have its sender among them). While nothing fails, a router whose entry is gone was used by an answer, and the router it heard the name
from has lost its entry too or has an answer on its way (`Returning`); so the routers without an entry, once nothing is under way, have the leader
among them, whose entry goes with the answer that its daemon is handed (`Used`). The assumption that the network is connected is used for `ReachesAll` only.

`RoutesProofs`: `TreesAreMinimum` follows from an invariant of the layers (the
nodes to expand are one layer, those found the next, and the neighbours of what has been expanded are at most
one layer below it). `PathsAreShortest` follows from six facts about the queue: each entry extends a settled one
(`Chained`), costs no less than any settled one (`Ordered`), the neighbours of what is settled are settled or
queued (`Queued`), and a vertex is settled once (`Single`) at a cost no edge betters (`Short`). That a cheapest
parallel edge exists rests on the well-foundedness of the numbers (lemma `Least`). Both hold for any
graph and any order among equals.

`ParentsLeadToRoot` makes `ParentsCloser` a theorem. It compares the algorithm with distances defined by all simple
paths, so it needs both directions: in a finished tree the chain of parents of a node is a path to the root of as many hops
as its level (`TreePath`; it repeats no router because a router is in the tree once), and along any path to the root the level
falls by one at most in each step (`TreeBound`). Hence levels are distances (`Levels`), and who is not in the tree has no
path. Between the trees the invariant (`Parented`) says that exactly the roots whose trees are finished
(`Finished`) have a parent, if we reach them. A new LSA makes it void until the trees are computed again, in
whichever order the trees and the routes are planned; and a router without an LSA of its own and without a link
in another's is no vertex and reaches nobody (`NoVertex`).

`RoutesLeadToNet` makes `RoutesCloser` a theorem. Of every settled path there is a path of vertices settled before, with the
costs they were settled at, that starts at its next hop (`Traced`, by the cost of the settled path, which grows along
`Extend`); costs that grow repeat no router, so it is one of the simple paths, as is the same path
with ourselves in front (`Ways`). Conversely no simple path out of a settled vertex is cheaper than the settled
ones (`Reached`). While the table is collected an item comes from a settled path that was visited, and no path visited leads to its
network at a lower cost (`Collected`); that the databases agree is what makes every target and next hop one with an LSA, to which
we have a link (`Linked`). When all are visited the two bounds meet, for us and for the next hop.

`PacketsReachRoot` and `PacketsReachNet` say what these are for: if in every router the parent is nearer (`Nearer`), or the
next hop cheaper (`Cheaper`), which is what the two theorems establish for `me` and so for each router with this
database, then whoever follows them comes to the root, or to a router on the network. The
distance falls in every step (`Descent`); no assumption is made on how ties are broken.

Only model-checked: the liveness properties (`RetransmissionEnds`, `EntryEnds`, `AdjacencyForms`, `CatchesUp`, `Spreads`),
which the prover cannot express with their fairness.

## Not modelled

- **Content store, ACL, audit.** The store is filled and never read; the verdict of the ACL is discarded; the audit log is
  written only.
- **Encodings, ciphers, signatures, NICs.** The models use decoded fields and assume that signatures verify. Interfaces never
  go down: the observer of NIC events is empty. Fragments of a chain travel as one message.
- **Crash and restart.** Nothing is stored. A router that restarts draws a new key and so a new identity, and appears to its
  neighbours as another router.
- **Reachability LSAs, STUB and TRANSIT links.** Never generated. `Graph::removeVertex` and `removeEdge` are never called.
- **Lock order.** A handler under its lock is one step; the places where a lock is released in between are in `Forwarder`
  and in the timers of every module. `protocolLock` and the timer table's lock are never held across a call into a protocol, so no
  two locks are ever waited for in both orders. The command that prints the database
  returns without releasing `mutexLock` (`NdnRoutingProtocol.h:95`): after it nothing runs, and there is no later
  state to state a property of.
- **Links with more than two routers** in the address daemon, where the addresses of a /30 block can run out
  (the todo at `NdnAddrInterface.cpp:100`); the repository's topologies have none. The inactivity timer of a neighbour there
  changes nothing that is read after the election.
- **Router ids of 32 bits** (`LsaDatabase.cpp:87`): ids are taken as distinct.
- **The kernel table** between `removeAllItem` and the additions, and failing route commands.

## Plan

What is left, in order of weight:

1. An interest that starves behind a pending entry of another (`NdnProtocol.cpp:124`): several consumers that repeat a
   request in `Broadcast`, which takes every name to be sent once.
2. The time between hellos in `Adjacency`: a neighbour that falls silent in each of its states.
