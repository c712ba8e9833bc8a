--------------------------- MODULE AdjacencyProofs ---------------------------
(***************************************************************************)
(* Type correctness of Adjacency, and that a router becomes full only with *)
(* everything in its database that was described to it, for every database,*)
(* and any number of faults; no database falls back or gets ahead.         *)
(***************************************************************************)
EXTENDS Adjacency, TLAPS, FiniteSetTheorems, SequenceTheorems, WellFoundedInduction

\* An object in Loading waits for an answer.
Waits(o) == o.state = "LOADING" => o.pending # <<>>

\* What the methods of the neighbour object preserve: requests that are pending
\* and descriptions that were received are kept, or given up together, and the
\* object becomes full only with nothing pending, and is in Loading only with
\* something pending.
Kept(o, n) ==
  /\ n \in Object
  /\ \/ n.pending = o.pending /\ n.described = o.described
     \/ n.pending = <<>> /\ n.described = {}
  /\ n.state = "FULL" => o.state = "FULL" \/ n.pending = <<>>
  /\ Waits(o) => Waits(n)

LEMMA KeptTrans ==
  ASSUME NEW o, NEW n, NEW m, Kept(o, n), Kept(n, m)
  PROVE  Kept(o, m)
BY DEF Kept

LEMMA NameType == \A q \in Request : NameOf(q) \in RequestName
BY DEF Request, RequestName, NameOf, Digest

LEMMA RequestIsMessage == \A s \in Seq(Request) : s \in Seq(Message)
BY DEF Message

LEMMA StartedType ==
  ASSUME NEW timers \in SUBSET RetryTimer, NEW req \in Seq(Request)
  PROVE  Started(timers, req) \in SUBSET RetryTimer
BY BoundAssumption DEF Started, RetryTimer

LEMMA AskKept ==
  ASSUME NEW o \in Object, NEW req \in Seq(Request)
  PROVE  Kept(o, Ask(o, req))
<1>1. Started(o.timers, req) \in SUBSET RetryTimer
  BY StartedType DEF Object
<1>2. o.out \o req \in Seq(Message)
  BY RequestIsMessage DEF Object
<1>3. o.activeTimers \cup {NameOf(req[i]) : i \in DOMAIN req} \in SUBSET RequestName
  BY NameType DEF Object
<1>4. QED
  BY <1>1, <1>2, <1>3 DEF Kept, Waits, Object, Ask

LEMMA DeleteTimerKept ==
  ASSUME NEW o \in Object, NEW name
  PROVE  Kept(o, deleteTimer(o, name))
BY DEF Kept, Waits, Object, deleteTimer

LEMMA ClearType ==
  ASSUME NEW o \in Object
  PROVE  /\ clear(o) \in Object /\ clear(o).state = o.state
         /\ clear(o).pending = <<>> /\ clear(o).described = {}
<1> DEFINE t == {x \in o.timers : NameOf(x.pkt) \notin o.activeTimers}
           n == [[o EXCEPT !.timers = t] EXCEPT !.watched = FALSE]
           m == [[n EXCEPT !.summary = <<>>] EXCEPT !.ddList = <<>>]
           k == [[m EXCEPT !.pending = <<>>] EXCEPT !.receivingIndex = 0]
           l == [[k EXCEPT !.sendingIndex = 0] EXCEPT !.described = {}]
<1>1. <<>> \in Seq(Digest) /\ <<>> \in Seq(Pack)
  OBVIOUS
<1>2. t \in SUBSET RetryTimer
  BY DEF Object
<1>3. n \in Object /\ n.state = o.state
  <2> HIDE DEF t
  <2> QED BY <1>2 DEF Object
<1> HIDE DEF n
<1>4. m \in Object /\ m.state = o.state
  BY <1>1, <1>3 DEF Object
<1> HIDE DEF m
<1>5. k \in Object /\ k.state = o.state /\ k.pending = <<>>
  BY <1>1, <1>4 DEF Object
<1> HIDE DEF k
<1>6. l \in Object /\ l.state = o.state /\ l.pending = <<>> /\ l.described = {}
  BY <1>5 DEF Object
<1>7. clear(o) = l
  BY DEF clear, k, m, n
<1>8. QED
  BY <1>6, <1>7

LEMMA SendDDInterestKept ==
  ASSUME NEW o \in Object
  PROVE  Kept(o, sendDDInterest(o))
<1>1. <<DDInterest(o.receivingIndex)>> \in Seq(Request)
  BY DEF Object, Request, DDInterest
<1>2. QED
  BY <1>1, AskKept DEF sendDDInterest

LEMMA SummariesType ==
  ASSUME NEW row \in Row, NEW s \in Summaries(row)
  PROVE  s \in Seq(Digest)
<1> DEFINE names == {x \in Origin : row[x] >= 0}
           held == {[origin |-> o, seq |-> row[o]] : o \in names}
           image == [x \in names |-> [origin |-> x, seq |-> row[x]]]
<1>1. IsFiniteSet(Router)
  <2>1. IsFiniteSet({A} \cup {B})
    BY FS_AddElement, FS_Singleton
  <2>2. QED
    BY <2>1, Zenon DEF Router
<1>2. IsFiniteSet(Origin)
  BY <1>1, RouterAssumption, FS_Union, Zenon DEF Origin
<1>3. IsFiniteSet(names)
  BY <1>2, FS_Subset
<1>4. image \in Surjection(names, held)
  BY DEF Surjection
<1>5. IsFiniteSet(held)
  BY <1>3, <1>4, FS_Surjection, Zenon
<1>6. Cardinality(held) \in Nat
  BY <1>5, FS_CardinalityType
<1>7. held \subseteq Digest
  BY DEF Digest, Row
<1>8. s \in [1 .. Cardinality(held) -> held]
  BY DEF Summaries
<1> HIDE DEF held
<1>9. QED
  BY <1>6, <1>7, <1>8

LEMMA ExchangeKept ==
  ASSUME NEW o \in Object, NEW summary \in Seq(Digest)
  PROVE  Kept(o, Exchange(o, summary))
<1> DEFINE n == [o EXCEPT !.summary = summary]
           m == sendDDInterest(n)
<1>1. Kept(o, n)
  BY DEF Kept, Waits, Object
<1>2. Kept(n, m)
  BY <1>1, SendDDInterestKept DEF Kept
<1>3. Kept(m, [m EXCEPT !.state = "EXCHANGE"])
  BY <1>2 DEF Kept, Waits, Object, State
<1>4. QED
  BY <1>1, <1>2, <1>3, KeptTrans DEF Exchange

LEMMA OneWayKept ==
  ASSUME NEW o \in Object
  PROVE  Kept(o, OneWay(o))
BY ClearType DEF Kept, Waits, Object, OneWay, State

LEMMA HelloKept ==
  ASSUME NEW o \in Object
  PROVE  Kept(o, HelloReceived(o))
BY DEF Kept, Waits, Object, HelloReceived, State

LEMMA DragKept ==
  ASSUME NEW o \in Object
  PROVE  Kept(o, dragPeerToInit(o))
<1> DEFINE n == OneWay(clear(o))
<1>1. clear(o) \in Object /\ clear(o).pending = <<>> /\ clear(o).described = {}
  BY ClearType
<1>2. Kept(o, n)
  <2>1. Kept(clear(o), n)
    BY <1>1, OneWayKept
  <2>2. n.pending = <<>> /\ n.described = {}
    BY <1>1, <2>1 DEF Kept
  <2>3. n.state # "LOADING" /\ n.state # "FULL"
    BY <1>1, ClearType DEF OneWay, AtLeastExchange, Object
  <2>4. QED
    BY <2>1, <2>2, <2>3 DEF Kept, Waits
<1>3. Hello(FALSE, <<>>) \in Message
  BY DEF Message, Hello
<1>4. n \in Object
  BY <1>2 DEF Kept
<1> HIDE DEF n
<1>5. Append(n.out, Hello(FALSE, <<>>)) \in Seq(Message)
  <2>1. n.out \in Seq(Message)
    BY <1>4 DEF Object
  <2>2. QED
    BY <1>3, <2>1, AppendProperties
<1>6. Kept(n, [n EXCEPT !.out = Append(@, Hello(FALSE, <<>>))])
  BY <1>4, <1>5 DEF Kept, Waits, Object
<1>7. QED
  BY <1>2, <1>6, KeptTrans DEF dragPeerToInit, n

LEMMA DoneKept ==
  ASSUME NEW o \in Object
  PROVE  Kept(o, ExchangeDone(o)) /\ Kept(o, LoadingDone(o)) /\ Waits(LoadingDone(o))
BY DEF Kept, Waits, Object, ExchangeDone, LoadingDone, Full, State

LEMMA PackedType ==
  ASSUME NEW ddList \in Seq(Pack), NEW summary \in Seq(Digest)
  PROVE  Packed(ddList, summary) \in Seq(Pack)
<1> DEFINE n == Len(summary)
           fresh == [i \in 1 .. n |-> [ls |-> <<>>, total |-> n]]
           longer == ddList \o (IF n = 0 THEN <<[ls |-> <<>>, total |-> 0]>> ELSE fresh)
<1>1. n \in Nat /\ \A i \in 1 .. n : summary[i] \in Digest
  OBVIOUS
<1>2. fresh \in Seq(Pack)
  <2>1. [ls |-> <<>>, total |-> n] \in Pack
    BY <1>1 DEF Pack
  <2>2. QED
    BY <1>1, <2>1
<1>3. <<[ls |-> <<>>, total |-> 0]>> \in Seq(Pack)
  BY DEF Pack
<1>4. longer \in Seq(Pack)
  <2> HIDE DEF fresh
  <2> QED BY <1>2, <1>3, ConcatProperties
<1> HIDE DEF longer
<1>5. ASSUME NEW i \in DOMAIN longer
      PROVE  (IF i <= n THEN [longer[i] EXCEPT !.ls = Append(@, summary[i])] ELSE longer[i]) \in Pack
  <2>1. longer[i] \in Pack /\ i \in Nat \ {0}
    BY <1>4
  <2>2. CASE i <= n
    <3>1. summary[i] \in Digest
      BY <1>1, <2>1, <2>2
    <3>2. Append(longer[i].ls, summary[i]) \in Seq(Digest)
      BY <2>1, <3>1, AppendProperties DEF Pack
    <3>3. QED
      BY <2>1, <2>2, <3>2 DEF Pack
  <2>3. QED
    BY <2>1, <2>2
<1> DEFINE pack(i) == IF i <= n THEN [longer[i] EXCEPT !.ls = Append(@, summary[i])] ELSE longer[i]
<1>6. Packed(ddList, summary) = [i \in DOMAIN longer |-> pack(i)]
  BY DEF Packed, longer
<1>7. DOMAIN longer = 1 .. Len(longer) /\ Len(longer) \in Nat
  BY <1>4
<1>8. \A i \in 1 .. Len(longer) : pack(i) \in Pack
  BY <1>5, <1>7
<1> HIDE DEF pack
<1>9. QED
  BY <1>6, <1>7, <1>8

LEMMA SendDDDataKept ==
  ASSUME NEW o \in Object, NEW index \in Nat
  PROVE  Kept(o, sendDDData(o, index))
<1> DEFINE list == IF index = 0 THEN Packed(o.ddList, o.summary) ELSE o.ddList
           intact == index < Len(list)
           pack == IF intact THEN list[index + 1] ELSE [ls |-> <<>>, total |-> 0]
           pkt == [type |-> "ddData", index |-> index, intact |-> intact,
                   ls |-> pack.ls, total |-> pack.total]
           out == Append(o.out, pkt)
<1>1. list \in Seq(Pack)
  BY PackedType DEF Object
<1> HIDE DEF list
<1>2. pack \in Pack
  <2>1. CASE intact
    <3>1. index + 1 \in 1 .. Len(list)
      BY <1>1, <2>1
    <3>2. QED
      BY <1>1, <2>1, <3>1
  <2>2. CASE ~intact
    <3>1. <<>> \in Seq(Digest)
      OBVIOUS
    <3>2. QED
      BY <2>2, <3>1 DEF Pack
  <2>3. QED
    BY <2>1, <2>2
<1> HIDE DEF pack
<1>3. pkt \in Message
  BY <1>2 DEF Message, Pack
<1> HIDE DEF pkt
<1>4. out \in Seq(Message)
  <2>1. o.out \in Seq(Message)
    BY DEF Object
  <2>2. QED
    BY <1>3, <2>1, AppendProperties
<1>5. sendDDData(o, index) =
        [[[o EXCEPT !.ddList = list] EXCEPT !.sendingIndex = index + 1] EXCEPT !.out = out]
  BY DEF sendDDData, list, intact, pack, pkt
<1> HIDE DEF out
<1> DEFINE l == [o EXCEPT !.ddList = list]
           m == [l EXCEPT !.sendingIndex = index + 1]
<1>6. Kept(o, l)
  BY <1>1 DEF Kept, Waits, Object
<1> HIDE DEF l
<1>7. Kept(l, m)
  <2>1. l \in Object /\ index + 1 \in Nat
    BY <1>6 DEF Kept
  <2>2. m \in Object
    BY <2>1 DEF Object
  <2>3. m.pending = l.pending /\ m.described = l.described /\ m.state = l.state
    BY <2>1 DEF Object
  <2> HIDE DEF m
  <2>4. QED
    BY <2>2, <2>3 DEF Kept, Waits
<1> HIDE DEF m
<1>8. Kept(m, [m EXCEPT !.out = out])
  BY <1>4, <1>7 DEF Kept, Waits, Object
<1>9. QED
  BY <1>5, <1>6, <1>7, <1>8, KeptTrans DEF l, m

\* Any set of numbers that is not empty has a least element.
LEMMA LeastNumber ==
  ASSUME NEW S \in SUBSET Nat, S # {}
  PROVE  \E i \in S : \A j \in S : i <= j
<1>1. PICK i \in S : \A j \in S : <<j, i>> \notin OpToRel(<, Nat)
  BY NatLessThanWellFounded, WFMin, Zenon
<1>2. \A j \in S : ~(j < i)
  BY <1>1 DEF OpToRel
<1>3. QED
  BY <1>2

LEMMA WithoutFacts ==
  ASSUME NEW pending \in Seq(Digest), NEW d \in Digest
  PROVE  /\ Without(pending, d) \in Seq(Digest)
         /\ \A i \in DOMAIN pending :
              \/ \E j \in DOMAIN Without(pending, d) : Without(pending, d)[j] = pending[i]
              \/ pending[i].origin = d.origin /\ pending[i].seq <= d.seq
<1> DEFINE hits == {i \in DOMAIN pending : pending[i].origin = d.origin /\ pending[i].seq <= d.seq}
           first == CHOOSE i \in hits : \A j \in hits : i <= j
           rest == [i \in 1 .. Len(pending) - 1 |-> IF i < first THEN pending[i] ELSE pending[i + 1]]
<1>1. CASE hits = {}
  BY <1>1 DEF Without
<1>2. CASE hits # {}
  <2>1. hits \in SUBSET Nat
    OBVIOUS
  <2>2. \E i \in hits : \A j \in hits : i <= j
    BY <1>2, <2>1, LeastNumber
  <2>3. first \in hits
    BY <2>2
  <2>4. first \in 1 .. Len(pending) /\ Len(pending) \in Nat
    BY <2>3
  <2>5. Without(pending, d) = rest
    BY <1>2 DEF Without
  <2>6. pending[first].origin = d.origin /\ pending[first].seq <= d.seq
    BY <2>3
  <2> HIDE DEF hits, first
  <2>7. rest \in Seq(Digest)
    <3>1. \A i \in 1 .. Len(pending) - 1 : rest[i] \in Digest
      BY <2>4
    <3>2. QED
      BY <2>4, <3>1
  <2>8. ASSUME NEW i \in DOMAIN pending, i # first
        PROVE  \E j \in DOMAIN rest : rest[j] = pending[i]
    <3>1. CASE i < first
      BY <2>4, <3>1
    <3>2. CASE i > first
      <4>1. i - 1 \in DOMAIN rest /\ ~(i - 1 < first) /\ (i - 1) + 1 = i
        BY <2>4, <3>2
      <4>2. QED
        BY <4>1
    <3>3. QED
      BY <2>4, <2>8, <3>1, <3>2
  <2>9. QED
    BY <2>5, <2>6, <2>7, <2>8
<1>3. QED
  BY <1>1, <1>2

-----------------------------------------------------------------------------
(***************************************************************************)
(* The inductive invariant.                                                *)
(***************************************************************************)

\* What the peer has described is in the database, or a request for that version or
\* a newer one is pending.
Covered(o, row) ==
  \A d \in o.described :
    \/ row[d.origin] >= d.seq
    \/ \E i \in DOMAIN o.pending : o.pending[i].origin = d.origin /\ o.pending[i].seq >= d.seq

Held == \A r \in Router : Covered(nbr[r], db[r])
IInv == TypeOK /\ Held /\ LoadingWaits

BecomesFull ==
  \A r \in Router :
    nbr[r].state # "FULL" /\ nbr'[r].state = "FULL" =>
      \A d \in nbr'[r].described : db'[r][d.origin] >= d.seq

\* The parts of the invariant, for the variables that actions change together.
ObjectsOK ==
  /\ nbr \in [Router -> Object] /\ \A r \in Router : nbr[r].out = <<>>
  /\ db \in [Router -> Row]
  /\ Held
  /\ \A r \in Router : Waits(nbr[r])
NetOK == net \in [Router -> Seq(Packet)] /\ \A r \in Router : Len(net[r]) <= MaxQueue
UsedOK == used \in [Fault -> Nat] /\ \A f \in Fault : used[f] <= Limit[f]

LEMMA CoveredKept ==
  ASSUME NEW o, NEW n, NEW row, Covered(o, row), Kept(o, n)
  PROVE  Covered(n, row)
BY DEF Covered, Kept

\* What a handler does that works through the neighbour object: it takes a packet, sends
\* messages of the object, and at most issues a new version of its own LSA.
Replies(r) ==
  \E out \in Seq(Message) :
    /\ Answer(r, out)
    /\ \/ UNCHANGED db
       \/ db' = [db EXCEPT ![r] = [db[r] EXCEPT ![r] = db[r][r] + 1]]

LEMMA MessageIsPacket == \A s \in Seq(Message) : s \in Seq(Packet)
BY DEF Packet

LEMMA PeerType == \A r \in Router : Peer(r) \in Router /\ Peer(r) # r
BY RouterAssumption DEF Router, Peer

LEMMA CommitStep ==
  ASSUME ObjectsOK, NEW r \in Router, NEW o \in Object, NEW row \in Row,
         Covered(o, row),
         o.state = "FULL" => nbr[r].state = "FULL" \/ o.pending = <<>>,
         Waits(o), Commit(r, o, row)
  PROVE  ObjectsOK' /\ BecomesFull
<1> DEFINE n == [o EXCEPT !.out = <<>>,
                   !.activeTimers = @ \cap {NameOf(t.pkt) : t \in o.timers \cup firing[r]}]
           line == IF o.state = "FULL" /\ nbr[r].state # "FULL" THEN [row EXCEPT ![r] = @ + 1] ELSE row
<1>1. n \in Object /\ n.out = <<>>
  <2> DEFINE names == o.activeTimers \cap {NameOf(t.pkt) : t \in o.timers \cup firing[r]}
             l == [o EXCEPT !.out = <<>>]
  <2>1. names \in SUBSET RequestName
    BY DEF Object
  <2>2. <<>> \in Seq(Message)
    OBVIOUS
  <2>3. l \in Object /\ l.out = <<>>
    BY <2>2 DEF Object
  <2>4. n = [l EXCEPT !.activeTimers = names]
    OBVIOUS
  <2> HIDE DEF l, names, n
  <2>5. QED
    BY <2>1, <2>3, <2>4 DEF Object
<1>2. n.state = o.state /\ n.pending = o.pending /\ n.described = o.described
  BY DEF Object
<1>3. line \in Row /\ \A x \in Origin : line[x] >= row[x]
  BY DEF Row, Origin
<1>4. nbr' = [nbr EXCEPT ![r] = n] /\ db' = [db EXCEPT ![r] = line]
  BY DEF Commit
<1>5. \A d \in o.described : d.origin \in Origin /\ d.seq \in Nat
  BY DEF Object, Digest
<1>6. Covered(n, line)
  <2> HIDE DEF n, line
  <2> SUFFICES ASSUME NEW d \in o.described,
                      ~\E i \in DOMAIN o.pending :
                         o.pending[i].origin = d.origin /\ o.pending[i].seq >= d.seq
               PROVE  line[d.origin] >= d.seq
    BY <1>2 DEF Covered
  <2>1. row[d.origin] >= d.seq
    BY DEF Covered
  <2>2. QED
    BY <1>3, <1>5, <2>1 DEF Row
<1> HIDE DEF n, line
<1>7. /\ nbr' \in [Router -> Object] /\ db' \in [Router -> Row]
      /\ \A q \in Router : nbr'[q].out = <<>>
  <2>1. nbr \in [Router -> Object] /\ db \in [Router -> Row] /\ \A q \in Router : nbr[q].out = <<>>
    BY DEF ObjectsOK
  <2>2. nbr' \in [Router -> Object]
    BY <1>1, <1>4, <2>1
  <2>3. db' \in [Router -> Row]
    BY <1>3, <1>4, <2>1
  <2>4. ASSUME NEW q \in Router PROVE nbr'[q].out = <<>>
    BY <1>1, <1>4, <2>1
  <2>5. QED
    BY <2>2, <2>3, <2>4
<1>8. \A q \in Router : Covered(nbr'[q], db'[q])
  BY <1>4, <1>6 DEF ObjectsOK, Held
<1>9. BecomesFull
  <2> SUFFICES ASSUME NEW q \in Router, nbr[q].state # "FULL", nbr'[q].state = "FULL",
                      NEW d \in nbr'[q].described
               PROVE  db'[q][d.origin] >= d.seq
    BY DEF BecomesFull
  <2>1. q = r /\ nbr'[q] = n /\ db'[q] = line
    BY <1>4 DEF ObjectsOK
  <2>2. n.pending = <<>>
    BY <1>2, <2>1
  <2>3. QED
    BY <1>6, <2>1, <2>2 DEF Covered
<1>10. \A q \in Router : Waits(nbr'[q])
  BY <1>2, <1>4 DEF ObjectsOK, Waits
<1>11. QED
  BY <1>7, <1>8, <1>9, <1>10 DEF ObjectsOK, Held, Waits

LEMMA QueueType ==
  ASSUME NetOK, NEW q \in Router, NEW out \in Seq(Packet)
  PROVE  Queue(q, out) \in Seq(Packet) /\ Len(Queue(q, out)) <= MaxQueue
<1> DEFINE all == net[q] \o out
<1>1. all \in Seq(Packet)
  BY ConcatProperties DEF NetOK
<1> HIDE DEF all
<1>2. Len(all) \in Nat /\ MaxQueue \in Nat \ {0}
  BY <1>1, BoundAssumption
<1>3. Queue(q, out) = IF Len(all) > MaxQueue THEN SubSeq(all, 1, MaxQueue) ELSE all
  BY DEF Queue, all
<1>4. CASE Len(all) > MaxQueue
  <2>1. SubSeq(all, 1, MaxQueue) \in Seq(Packet) /\ Len(SubSeq(all, 1, MaxQueue)) = MaxQueue
    BY <1>1, <1>2, <1>4, SubSeqProperties
  <2>2. QED
    BY <1>2, <1>3, <1>4, <2>1
<1>5. CASE ~(Len(all) > MaxQueue)
  BY <1>1, <1>2, <1>3, <1>5
<1>6. QED
  BY <1>4, <1>5

LEMMA AnswerStep ==
  ASSUME NetOK, NEW r \in Router, net[r] # <<>>, NEW out \in Seq(Packet), Answer(r, out)
  PROVE  NetOK'
<1>1. Tail(net[r]) \in Seq(Packet) /\ Len(Tail(net[r])) <= MaxQueue
  <2>1. net[r] \in Seq(Packet) /\ Len(net[r]) <= MaxQueue /\ MaxQueue \in Nat
    BY BoundAssumption DEF NetOK
  <2>2. QED
    BY <2>1, HeadTailProperties
<1>2. Queue(Peer(r), out) \in Seq(Packet) /\ Len(Queue(Peer(r), out)) <= MaxQueue
  BY QueueType, PeerType
<1>3. net' = [net EXCEPT ![r] = Tail(net[r]), ![Peer(r)] = Queue(Peer(r), out)]
  BY PeerType DEF Answer, NetOK
<1>4. QED
  BY <1>1, <1>2, <1>3, PeerType DEF NetOK

LEMMA HandledStep ==
  ASSUME ObjectsOK, NetOK, NEW r \in Router, net[r] # <<>>, NEW o \in Object,
         Covered(o, db[r]),
         o.state = "FULL" => nbr[r].state = "FULL" \/ o.pending = <<>>,
         Waits(o), Handled(r, o)
  PROVE  ObjectsOK' /\ BecomesFull /\ NetOK' /\ Replies(r)
<1>1. db[r] \in Row
  BY DEF ObjectsOK
<1>2. ObjectsOK' /\ BecomesFull
  BY <1>1, CommitStep DEF Handled
<1>3. o.out \in Seq(Message)
  BY DEF Object
<1>4. NetOK'
  BY <1>3, MessageIsPacket, AnswerStep DEF Handled
<1>5. Replies(r)
  <2>1. Answer(r, o.out)
    BY DEF Handled
  <2>2. \/ db' = [db EXCEPT ![r] = [db[r] EXCEPT ![r] = @ + 1]]
        \/ db' = [db EXCEPT ![r] = db[r]]
    BY DEF Handled, Commit
  <2>3. db \in [Router -> Row]
    BY DEF ObjectsOK
  <2>4. QED
    BY <1>3, <2>1, <2>2, <2>3 DEF Replies
<1>6. QED
  BY <1>2, <1>4, <1>5

LEMMA HandledKept ==
  ASSUME ObjectsOK, NetOK, NEW r \in Router, net[r] # <<>>, NEW o, Kept(nbr[r], o), Handled(r, o)
  PROVE  ObjectsOK' /\ BecomesFull /\ NetOK' /\ Replies(r)
<1>1. o \in Object /\ (o.state = "FULL" => nbr[r].state = "FULL" \/ o.pending = <<>>)
  BY DEF Kept
<1>2. Covered(o, db[r]) /\ Waits(o)
  BY CoveredKept DEF ObjectsOK, Held, Kept
<1>3. QED
  BY <1>1, <1>2, HandledStep

LEMMA SpendStep ==
  ASSUME UsedOK, NEW f \in Fault, Spend(f)
  PROVE  UsedOK'
<1>1. used \in [Fault -> Nat] /\ used[f] < Limit[f] /\ \A g \in Fault : used[g] <= Limit[g]
  BY DEF UsedOK, Spend
<1>2. used' = [used EXCEPT ![f] = used[f] + 1]
  BY DEF Spend
<1>3. \A g \in Fault : Limit[g] \in Nat
  BY BoundAssumption
<1>4. used' \in [Fault -> Nat]
  BY <1>1, <1>2
<1>5. ASSUME NEW g \in Fault PROVE used'[g] <= Limit[g]
  BY <1>1, <1>2, <1>3
<1>6. QED
  BY <1>4, <1>5 DEF UsedOK

LEMMA PacketCases ==
  ASSUME NEW m \in Packet
  PROVE  /\ m.type = "ddInterest" => m.index \in Nat
         /\ m.type = "ddData" => /\ m.index \in Nat /\ m.total \in Nat
                                 /\ m.intact \in BOOLEAN /\ m.ls \in Seq(Digest)
         /\ m.type \in {"lsaInterest", "lsaData"} => m.lsa \in Digest
BY DEF Packet, Message, Request

LEMMA HeadType ==
  ASSUME NetOK, NEW r \in Router, net[r] # <<>>
  PROVE  Head(net[r]) \in Packet
<1>1. net[r] \in Seq(Packet)
  BY DEF NetOK
<1>2. QED
  BY <1>1, HeadTailProperties

LEMMA SameObject == ASSUME NEW o \in Object PROVE Kept(o, o)
BY DEF Kept

-----------------------------------------------------------------------------
(***************************************************************************)
(* One lemma for each action.                                              *)
(***************************************************************************)

Parts ==
  /\ ObjectsOK /\ NetOK /\ UsedOK
  /\ requested \in [Router -> SUBSET Digest]
  /\ firing \in [Router -> SUBSET RetryTimer]
  /\ lapsed \in [Router -> BOOLEAN]

LEMMA InvParts == IInv <=> Parts
BY DEF IInv, Parts, LoadingWaits, Waits, TypeOK, ObjectsOK, NetOK, UsedOK

LEMMA ReceiveHelloStep ==
  ASSUME Parts, NEW r \in Router, ReceiveHello(r)
  PROVE  Parts' /\ BecomesFull /\ Replies(r)
<1> DEFINE o == HelloReceived(nbr[r])
<1>1. nbr[r] \in Object /\ net[r] # <<>> /\ db[r] \in Row
  BY DEF Parts, ObjectsOK, ReceiveHello, Receives
<1>2. Kept(nbr[r], o) /\ o \in Object
  BY <1>1, HelloKept DEF Kept
<1>3. Kept(nbr[r], OneWay(o))
  BY <1>2, OneWayKept, KeptTrans
<1>4. \A summary \in Summaries(db[r]) : Kept(nbr[r], Exchange(o, summary))
  BY <1>1, <1>2, SummariesType, ExchangeKept, KeptTrans
<1>5. \/ \E summary \in Summaries(db[r]) : Handled(r, Exchange(o, summary))
      \/ Handled(r, o)
      \/ Handled(r, OneWay(o))
  BY DEF ReceiveHello
<1>6. ObjectsOK' /\ BecomesFull /\ NetOK' /\ Replies(r)
  <2> HIDE DEF o
  <2> QED BY <1>1, <1>2, <1>3, <1>4, <1>5, HandledKept DEF Parts
<1>7. UsedOK'
  <2>1. Spend("differ") \/ UNCHANGED used
    BY DEF ReceiveHello
  <2>2. CASE UNCHANGED used
    BY <2>2 DEF Parts, UsedOK
  <2>3. QED
    BY <2>1, <2>2, SpendStep DEF Parts, Fault
<1>8. UNCHANGED <<requested, firing, lapsed>>
  BY DEF ReceiveHello
<1>9. QED
  BY <1>6, <1>7, <1>8 DEF Parts

LEMMA ReplyStep ==
  ASSUME Parts, NEW r \in Router, net[r] # <<>>, NEW o \in Object, Kept(nbr[r], o),
         NEW index \in Nat, Reply(r, o, index)
  PROVE  ObjectsOK' /\ BecomesFull /\ NetOK' /\ UsedOK' /\ Replies(r)
<1>1. Kept(nbr[r], sendDDData(o, index)) /\ Kept(nbr[r], dragPeerToInit(o))
  BY SendDDDataKept, DragKept, KeptTrans
<1>2. \/ Handled(r, sendDDData(o, index)) /\ UNCHANGED used
      \/ Handled(r, dragPeerToInit(o)) /\ Spend("drag")
  BY DEF Reply
<1>3. ObjectsOK' /\ BecomesFull /\ NetOK' /\ Replies(r)
  BY <1>1, <1>2, HandledKept DEF Parts
<1>4. CASE UNCHANGED used
  BY <1>3, <1>4 DEF Parts, UsedOK
<1>5. CASE Spend("drag")
  BY <1>3, <1>5, SpendStep DEF Parts, Fault
<1>6. QED
  BY <1>2, <1>4, <1>5

LEMMA AnswerOnly ==
  ASSUME Parts, NEW r \in Router, net[r] # <<>>, NEW out \in Seq(Packet), Answer(r, out),
         UNCHANGED <<nbr, db, requested, firing, lapsed, used>>
  PROVE  Parts' /\ BecomesFull
<1>1. NetOK'
  BY AnswerStep DEF Parts
<1>2. ObjectsOK' /\ UsedOK'
  BY DEF Parts, ObjectsOK, Held, Covered, Waits, UsedOK
<1>3. BecomesFull
  BY DEF BecomesFull
<1>4. QED
  BY <1>1, <1>2, <1>3 DEF Parts

LEMMA ReceiveDDInterestStep ==
  ASSUME Parts, NEW r \in Router, ReceiveDDInterest(r)
  PROVE  Parts' /\ BecomesFull /\ Replies(r)
<1> DEFINE index == Head(net[r]).index
<1>1. /\ nbr[r] \in Object /\ net[r] # <<>> /\ Head(net[r]).type = "ddInterest" /\ db[r] \in Row
      /\ UNCHANGED <<requested, firing, lapsed>>
  BY DEF Parts, ObjectsOK, ReceiveDDInterest, Receives
<1>2. index \in Nat
  BY <1>1, HeadType, PacketCases DEF Parts
<1> HIDE DEF index
<1>3. \/ Answer(r, <<>>) /\ UNCHANGED <<nbr, db, used>>
      \/ \E summary \in Summaries(db[r]) : Reply(r, Exchange(nbr[r], summary), index)
      \/ Reply(r, nbr[r], index)
  BY DEF ReceiveDDInterest, index
<1>4. CASE Answer(r, <<>>) /\ UNCHANGED <<nbr, db, used>>
  <2>1. <<>> \in Seq(Packet) /\ <<>> \in Seq(Message)
    OBVIOUS
  <2>2. Parts' /\ BecomesFull
    BY <1>1, <1>4, <2>1, AnswerOnly
  <2>3. QED
    BY <1>4, <2>1, <2>2 DEF Replies
<1>5. ASSUME NEW summary \in Summaries(db[r]), Reply(r, Exchange(nbr[r], summary), index)
      PROVE  Parts' /\ BecomesFull /\ Replies(r)
  <2>1. Kept(nbr[r], Exchange(nbr[r], summary))
    BY <1>1, SummariesType, ExchangeKept
  <2>2. Exchange(nbr[r], summary) \in Object
    BY <2>1 DEF Kept
  <2>3. ObjectsOK' /\ BecomesFull /\ NetOK' /\ UsedOK' /\ Replies(r)
    BY <1>1, <1>2, <1>5, <2>1, <2>2, ReplyStep
  <2>4. QED
    BY <1>1, <2>3 DEF Parts
<1>6. CASE Reply(r, nbr[r], index)
  <2>1. ObjectsOK' /\ BecomesFull /\ NetOK' /\ UsedOK' /\ Replies(r)
    BY <1>1, <1>2, <1>6, SameObject, ReplyStep
  <2>2. QED
    BY <1>1, <2>1 DEF Parts
<1>7. QED
  BY <1>3, <1>4, <1>5, <1>6

LEMMA PositionsFinite ==
  ASSUME NEW ls \in Seq(Digest), NEW W \in SUBSET DOMAIN ls
  PROVE  Cardinality(W) \in Nat
<1> DEFINE n == Len(ls)
<1>1. n \in Nat /\ W \in SUBSET (1 .. n)
  OBVIOUS
<1> HIDE DEF n
<1>2. n \in Int /\ 1 \in Int
  BY <1>1
<1>3. IsFiniteSet(1 .. n)
  BY <1>2, FS_Interval
<1>4. IsFiniteSet(W)
  BY <1>1, <1>3, FS_Subset, Zenon
<1>5. QED
  BY <1>4, FS_CardinalityType

LEMMA PickedType ==
  ASSUME NEW ls \in Seq(Digest), NEW W \in SUBSET DOMAIN ls,
         NEW c \in Nat, NEW pos \in [1 .. c -> W]
  PROVE  [k \in DOMAIN pos |-> ls[pos[k]]] \in Seq(Digest)
<1>1. \A i \in DOMAIN ls : ls[i] \in Digest
  OBVIOUS
<1> DEFINE item(k) == ls[pos[k]]
<1>2. \A k \in 1 .. c : item(k) \in Digest
  BY <1>1
<1>3. [k \in DOMAIN pos |-> ls[pos[k]]] = [k \in 1 .. c |-> item(k)]
  OBVIOUS
<1> HIDE DEF item
<1>4. [k \in 1 .. c |-> item(k)] \in Seq(Digest)
  BY <1>2
<1>5. QED
  BY <1>3, <1>4

LEMMA AcceptStep ==
  ASSUME Parts, NEW r \in Router, net[r] # <<>>, NEW o \in Object,
         o.state = nbr[r].state, Covered(o, db[r]), Waits(o),
         NEW m, m.ls \in Seq(Digest), Accept(r, o, m)
  PROVE  ObjectsOK' /\ BecomesFull /\ NetOK' /\ Replies(r)
<1> DEFINE wanted == {i \in DOMAIN m.ls : Missing(r, m.ls[i])}
           done == m.total \in {0, o.receivingIndex + 1}
           news == {m.ls[i] : i \in {j \in DOMAIN m.ls : m.ls[j] \notin requested[r]}}
<1>1. wanted \in SUBSET DOMAIN m.ls
  OBVIOUS
<1>2. Cardinality(wanted) \in Nat
  <2> HIDE DEF wanted
  <2> QED BY <1>1, PositionsFinite, Zenon
<1> DEFINE asked(pos) == [k \in DOMAIN pos |-> m.ls[pos[k]]]
           start(pos) == [o EXCEPT !.pending = @ \o asked(pos), !.receivingIndex = @ + 1,
                                   !.described = @ \cup news]
           req(pos) == [k \in DOMAIN asked(pos) |-> LsaInterest(asked(pos)[k])]
           next(pos) == Ask(start(pos), req(pos))
<1>3. PICK pos \in [1 .. Cardinality(wanted) -> wanted] :
        /\ \A i \in wanted : \E k \in DOMAIN pos : pos[k] = i
        /\ Handled(r, IF done THEN ExchangeDone(next(pos)) ELSE sendDDInterest(next(pos)))
  BY DEF Accept
<1> DEFINE a == asked(pos)
           s == start(pos)
           q == req(pos)
           n == next(pos)
           f == IF done THEN ExchangeDone(n) ELSE sendDDInterest(n)
<1>4. a \in Seq(Digest)
  <2> HIDE DEF wanted
  <2> QED BY <1>1, <1>2, PickedType, Zenon
<1>5. \A d \in news : d \in Digest
  OBVIOUS
<1>6. \A i \in wanted : \E k \in DOMAIN a : a[k] = m.ls[i]
  BY <1>3
<1>7. q = [k \in DOMAIN a |-> LsaInterest(a[k])] /\ n = Ask(s, q)
  OBVIOUS
<1>8. s = [[[o EXCEPT !.pending = o.pending \o a] EXCEPT !.receivingIndex = o.receivingIndex + 1]
             EXCEPT !.described = o.described \cup news]
  BY DEF Object
<1>9. Handled(r, f)
  BY <1>3
<1>10. \A i \in DOMAIN m.ls : m.ls[i] \in news => m.ls[i] \notin requested[r]
  OBVIOUS
<1>11. \A d \in news : \E i \in DOMAIN m.ls : d = m.ls[i] /\ d \notin requested[r]
  OBVIOUS
<1>12. \A i \in DOMAIN m.ls : Missing(r, m.ls[i]) => i \in wanted
  OBVIOUS
<1> HIDE DEF f, n, q, s, a, asked, start, req, next, news, wanted
<1>13. q \in Seq(Request)
  <2>1. \A k \in 1 .. Len(a) : LsaInterest(a[k]) \in Request
    BY <1>4 DEF LsaInterest, Request
  <2>2. DOMAIN a = 1 .. Len(a) /\ Len(a) \in Nat
    BY <1>4
  <2>3. QED
    BY <1>7, <2>1, <2>2
<1>14. s \in Object /\ s.state = o.state /\ s.pending = o.pending \o a /\ s.described = o.described \cup news
  <2> DEFINE u == [o EXCEPT !.pending = o.pending \o a]
             v == [u EXCEPT !.receivingIndex = o.receivingIndex + 1]
  <2>1. o.pending \o a \in Seq(Digest) /\ o.receivingIndex + 1 \in Nat
    BY <1>4, ConcatProperties DEF Object
  <2>2. u \in Object /\ u.state = o.state /\ u.pending = o.pending \o a /\ u.described = o.described
    <3> DEFINE p == o.pending \o a
    <3>1. p \in Seq(Digest) /\ u = [o EXCEPT !.pending = p]
      BY <2>1
    <3> HIDE DEF p
    <3>2. [o EXCEPT !.pending = p] \in Object /\ [o EXCEPT !.pending = p].state = o.state
      BY <3>1 DEF Object
    <3>3. [o EXCEPT !.pending = p].pending = p /\ [o EXCEPT !.pending = p].described = o.described
      BY DEF Object
    <3>4. QED
      BY <3>1, <3>2, <3>3 DEF p
  <2> HIDE DEF u
  <2>3. v \in Object /\ v.state = u.state /\ v.pending = u.pending /\ v.described = u.described
    BY <2>1, <2>2 DEF Object
  <2> HIDE DEF v
  <2>4. o.described \cup news \in SUBSET Digest
    BY <1>5 DEF Object
  <2>5. s = [v EXCEPT !.described = o.described \cup news]
    BY <1>8 DEF u, v
  <2> HIDE DEF v
  <2>6. s \in Object /\ s.state = v.state /\ s.pending = v.pending
    BY <2>3, <2>4, <2>5 DEF Object
  <2>7. s.described = o.described \cup news
    BY <2>3, <2>5 DEF Object
  <2>8. QED
    BY <2>2, <2>3, <2>6, <2>7
<1>15. Covered(s, db[r])
  <2> SUFFICES ASSUME NEW d \in s.described, ~(db[r][d.origin] >= d.seq)
               PROVE  \E i \in DOMAIN s.pending :
                        s.pending[i].origin = d.origin /\ s.pending[i].seq >= d.seq
    BY DEF Covered
  <2>1. o.pending \in Seq(Digest) /\ Len(o.pending) \in Nat /\ Len(a) \in Nat
    BY <1>4 DEF Object
  <2>2. /\ DOMAIN s.pending = 1 .. Len(o.pending) + Len(a)
        /\ \A i \in 1 .. Len(o.pending) : s.pending[i] = o.pending[i]
        /\ \A k \in 1 .. Len(a) : s.pending[Len(o.pending) + k] = a[k]
    BY <1>4, <1>14, <2>1
  <2>3. CASE d \in o.described
    <3>1. PICK i \in 1 .. Len(o.pending) : o.pending[i].origin = d.origin /\ o.pending[i].seq >= d.seq
      BY <2>1, <2>3 DEF Covered
    <3>2. i \in DOMAIN s.pending
      BY <2>1, <2>2
    <3>3. QED
      BY <2>2, <3>1, <3>2
  <2>4. CASE d \in news
    <3>1. PICK i \in DOMAIN m.ls : d = m.ls[i] /\ d \notin requested[r]
      BY <1>11, <2>4
    <3>2. d \in Digest /\ db[r] \in Row
      BY <1>5, <2>4, Zenon DEF Parts, ObjectsOK
    <3>3. db[r][d.origin] < d.seq
      BY <3>2 DEF Row, Digest
    <3>4. Missing(r, d)
      BY <3>1, <3>3 DEF Missing
    <3>5. PICK k \in 1 .. Len(a) : a[k] = d
      BY <1>4, <1>6, <1>12, <3>1, <3>4
    <3>6. Len(o.pending) + k \in DOMAIN s.pending /\ s.pending[Len(o.pending) + k] = d
      BY <2>1, <2>2, <3>5
    <3>7. d.seq >= d.seq
      BY <3>2 DEF Digest
    <3>8. QED
      BY <3>6, <3>7
  <2>5. QED
    BY <1>14, <2>3, <2>4
<1>16. Kept(s, n) /\ n \in Object
  BY <1>7, <1>13, <1>14, AskKept DEF Kept
<1>17. Kept(n, f)
  BY <1>16, DoneKept, SendDDInterestKept DEF f
<1>18. Kept(s, f) /\ Waits(s)
  <2>1. o.pending # <<>> => s.pending # <<>>
    BY <1>4, <1>14 DEF Object
  <2>2. QED
    BY <1>14, <1>16, <1>17, <2>1, KeptTrans DEF Waits
<1>19. Covered(f, db[r])
  BY <1>15, <1>18, CoveredKept
<1>20. f \in Object /\ (f.state = "FULL" => nbr[r].state = "FULL" \/ f.pending = <<>>)
  BY <1>14, <1>18 DEF Kept
<1>21. Waits(f)
  BY <1>18 DEF Kept
<1>22. QED
  BY <1>9, <1>19, <1>20, <1>21, HandledStep DEF Parts

LEMMA ReceiveDDDataStep ==
  ASSUME Parts, NEW r \in Router, ReceiveDDData(r)
  PROVE  Parts' /\ BecomesFull /\ Replies(r)
<1> DEFINE m == Head(net[r])
           o == nbr[r]
           n == deleteTimer(o, <<"dd", m.index>>)
<1>1. o \in Object /\ net[r] # <<>> /\ m.type = "ddData" /\ UNCHANGED <<requested, firing, lapsed>>
  BY DEF Parts, ObjectsOK, ReceiveDDData, Receives
<1>2. m.ls \in Seq(Digest)
  BY <1>1, HeadType, PacketCases DEF Parts
<1>3. \/ Handled(r, o) /\ UNCHANGED used
      \/ Handled(r, dragPeerToInit(o)) /\ Spend("drag")
      \/ Accept(r, n, m) /\ UNCHANGED used
      \/ Handled(r, n) /\ UNCHANGED used
  BY DEF ReceiveDDData
<1>4. Kept(o, o) /\ Kept(o, dragPeerToInit(o)) /\ Kept(o, n)
  BY <1>1, SameObject, DragKept, DeleteTimerKept
<1>5. n \in Object /\ n.state = o.state
  BY <1>1, <1>4 DEF Kept, Object, deleteTimer
<1>6. Covered(n, db[r]) /\ Waits(n)
  BY <1>4, CoveredKept DEF Parts, ObjectsOK, Held, Kept
<1> HIDE DEF m, n
<1>7. ObjectsOK' /\ BecomesFull /\ NetOK' /\ Replies(r)
  <2>1. CASE Accept(r, n, m)
    BY <1>1, <1>2, <1>5, <1>6, <2>1, AcceptStep
  <2>2. QED
    BY <1>1, <1>3, <1>4, <2>1, HandledKept DEF Parts
<1>8. UsedOK'
  <2>1. CASE UNCHANGED used
    BY <2>1 DEF Parts, UsedOK
  <2>2. QED
    BY <1>3, <2>1, SpendStep DEF Parts, Fault
<1>9. QED
  BY <1>1, <1>7, <1>8 DEF Parts

LEMMA ReceiveLsaInterestStep ==
  ASSUME Parts, NEW r \in Router, ReceiveLsaInterest(r)
  PROVE  Parts' /\ BecomesFull
<1> DEFINE d == Head(net[r]).lsa
           held == db[r][d.origin]
           data == [type |-> "lsaData", lsa |-> [origin |-> d.origin, seq |-> held]]
           out == IF nbr[r].state # "NONE" /\ held >= 0 THEN <<data>> ELSE <<>>
<1>1. /\ net[r] # <<>> /\ Head(net[r]).type = "lsaInterest" /\ db[r] \in Row
      /\ Answer(r, out) /\ UNCHANGED <<nbr, db, requested, firing, lapsed, used>>
  BY DEF Parts, ObjectsOK, ReceiveLsaInterest, Receives
<1>2. d \in Digest
  BY <1>1, HeadType, PacketCases DEF Parts
<1> HIDE DEF d
<1> DEFINE e == [origin |-> d.origin, seq |-> held]
<1>3. d.origin \in Origin
  BY <1>2 DEF Digest
<1>4. held \in Nat \cup {-1}
  BY <1>1, <1>3 DEF Row
<1> HIDE DEF held
<1>5. held >= 0 => e \in Digest
  BY <1>3, <1>4 DEF Digest
<1> HIDE DEF e
<1>6. held >= 0 => [type |-> "lsaData", lsa |-> e] \in Packet
  BY <1>5 DEF Packet
<1>7. data = [type |-> "lsaData", lsa |-> e]
  BY DEF e
<1>8. held >= 0 => data \in Packet
  BY <1>6, <1>7
<1> HIDE DEF data
<1>9. out \in Seq(Packet)
  BY <1>8
<1> HIDE DEF out
<1>10. QED
  BY <1>1, <1>9, AnswerOnly DEF out, data, held, d

\* A database that only grows covers what it covered.
LEMMA CoveredGrows ==
  ASSUME NEW o \in Object, NEW row \in Row, NEW line \in Row, Covered(o, row),
         \A x \in Origin : line[x] >= row[x]
  PROVE  Covered(o, line)
<1> SUFFICES ASSUME NEW d \in o.described, row[d.origin] >= d.seq
             PROVE  line[d.origin] >= d.seq
  BY DEF Covered
<1>1. d.origin \in Origin /\ d.seq \in Nat
  BY DEF Object, Digest
<1>2. QED
  BY <1>1 DEF Row

LEMMA ReceiveLsaDataStep ==
  ASSUME Parts, NEW r \in Router, ReceiveLsaData(r)
  PROVE  Parts' /\ BecomesFull
<1> DEFINE d == Head(net[r]).lsa
           row == IF db[r][d.origin] < d.seq THEN [db[r] EXCEPT ![d.origin] = d.seq] ELSE db[r]
           n == cancelLsaInterestRequest(nbr[r], d)
           o == IF nbr[r].state \in AtLeastExchange THEN LoadingDone(n) ELSE nbr[r]
<1>1. /\ net[r] # <<>> /\ Head(net[r]).type = "lsaData" /\ db[r] \in Row /\ nbr[r] \in Object
      /\ Commit(r, o, row) /\ Answer(r, <<>>) /\ UNCHANGED <<requested, firing, lapsed, used>>
  BY DEF Parts, ObjectsOK, ReceiveLsaData, Receives
<1>2. d \in Digest
  BY <1>1, HeadType, PacketCases DEF Parts
<1> HIDE DEF d
<1>3. row \in Row /\ (\A x \in Origin : row[x] >= db[r][x]) /\ row[d.origin] >= d.seq
  BY <1>1, <1>2 DEF Row, Digest
<1>4. Covered(nbr[r], row)
  BY <1>1, <1>3, CoveredGrows DEF Parts, ObjectsOK, Held
<1> HIDE DEF row
<1> DEFINE t == deleteTimer(nbr[r], <<"lsa", d.seq>>)
           w == Without(nbr[r].pending, d)
<1>5. n \in Object /\ n.state = nbr[r].state /\ n.pending = w /\ n.described = nbr[r].described
  <2>1. w \in Seq(Digest)
    BY <1>1, <1>2, WithoutFacts DEF Object
  <2>2. t \in Object
    BY <1>1, DeleteTimerKept DEF Kept
  <2>3. t.state = nbr[r].state /\ t.pending = nbr[r].pending /\ t.described = nbr[r].described
    BY <1>1 DEF Object, deleteTimer
  <2>4. n = [t EXCEPT !.pending = w]
    BY <2>3 DEF cancelLsaInterestRequest
  <2> HIDE DEF t, w, n
  <2>5. QED
    BY <2>1, <2>2, <2>3, <2>4 DEF Object
<1>6. Covered(n, row)
  <2> HIDE DEF n, t
  <2> SUFFICES ASSUME NEW e \in nbr[r].described, ~(row[e.origin] >= e.seq)
               PROVE  \E j \in DOMAIN w : w[j].origin = e.origin /\ w[j].seq >= e.seq
    BY <1>5 DEF Covered
  <2>1. PICK i \in DOMAIN nbr[r].pending :
          nbr[r].pending[i].origin = e.origin /\ nbr[r].pending[i].seq >= e.seq
    BY <1>4 DEF Covered
  <2>2. nbr[r].pending \in Seq(Digest) /\ e \in Digest
    BY <1>1 DEF Object
  <2>3. nbr[r].pending[i] \in Digest
    BY <2>2
  <2>4. CASE nbr[r].pending[i].origin = d.origin /\ nbr[r].pending[i].seq <= d.seq
    <3>1. e.origin = d.origin /\ d.seq >= e.seq
      BY <1>2, <2>1, <2>2, <2>3, <2>4 DEF Digest
    <3>2. row[e.origin] >= e.seq
      BY <1>2, <1>3, <2>2, <3>1 DEF Digest, Row
    <3>3. QED
      BY <3>2
  <2>5. CASE \E j \in DOMAIN w : w[j] = nbr[r].pending[i]
    BY <2>1, <2>5
  <2>6. QED
    BY <1>2, <2>2, <2>4, <2>5, WithoutFacts
<1>7. Kept(n, LoadingDone(n)) /\ Waits(LoadingDone(n))
  BY <1>5, DoneKept
<1>8. /\ o \in Object /\ Covered(o, row) /\ Waits(o)
      /\ o.state = "FULL" => nbr[r].state = "FULL" \/ o.pending = <<>>
  <2>1. CASE nbr[r].state \in AtLeastExchange
    <3>1. Covered(LoadingDone(n), row)
      BY <1>6, <1>7, CoveredKept
    <3> HIDE DEF n
    <3>2. QED
      BY <1>5, <1>7, <2>1, <3>1 DEF Kept
  <2>2. CASE nbr[r].state \notin AtLeastExchange
    BY <1>1, <1>4, <2>2 DEF Parts, ObjectsOK
  <2>3. QED
    BY <2>1, <2>2
<1> HIDE DEF o
<1>9. ObjectsOK' /\ BecomesFull
  BY <1>1, <1>3, <1>8, CommitStep DEF Parts
<1>10. NetOK'
  <2>1. <<>> \in Seq(Packet)
    OBVIOUS
  <2>2. QED
    BY <1>1, <2>1, AnswerStep DEF Parts
<1>11. UsedOK'
  BY <1>1 DEF Parts, UsedOK
<1>12. QED
  BY <1>1, <1>9, <1>10, <1>11 DEF Parts

\* Steps that do not put an object into Full.
LEMMA ObjectStep ==
  ASSUME ObjectsOK, NEW r \in Router, NEW n, Kept(nbr[r], n), n.out = <<>>,
         n.state = "FULL" => nbr[r].state = "FULL",
         NEW line \in Row, \A x \in Origin : line[x] >= db[r][x],
         nbr' = [nbr EXCEPT ![r] = n], db' = [db EXCEPT ![r] = line]
  PROVE  ObjectsOK' /\ BecomesFull
<1>1. /\ nbr \in [Router -> Object] /\ db \in [Router -> Row] /\ \A q \in Router : nbr[q].out = <<>>
      /\ \A q \in Router : Covered(nbr[q], db[q]) /\ Waits(nbr[q])
  BY DEF ObjectsOK, Held
<1>2. n \in Object
  BY DEF Kept
<1>3. Covered(n, line)
  <2>1. Covered(n, db[r])
    BY <1>1, CoveredKept
  <2>2. QED
    BY <1>1, <1>2, <2>1, CoveredGrows
<1>4. nbr' \in [Router -> Object] /\ db' \in [Router -> Row]
  BY <1>1, <1>2
<1>5. \A q \in Router : nbr'[q].out = <<>>
  BY <1>1
<1>6. \A q \in Router : Covered(nbr'[q], db'[q])
  BY <1>1, <1>3
<1>7. BecomesFull
  BY <1>1 DEF BecomesFull
<1>8. \A q \in Router : Waits(nbr'[q])
  BY <1>1 DEF Kept
<1>9. QED
  BY <1>4, <1>5, <1>6, <1>7, <1>8 DEF ObjectsOK, Held, Waits

LEMMA SameDatabase ==
  ASSUME ObjectsOK, NEW r \in Router, UNCHANGED db
  PROVE  db[r] \in Row /\ (\A x \in Origin : db[r][x] >= db[r][x]) /\ db' = [db EXCEPT ![r] = db[r]]
<1>1. db \in [Router -> Row]
  BY DEF ObjectsOK
<1>2. QED
  BY <1>1 DEF Row

LEMMA SameObjects ==
  ASSUME ObjectsOK, UNCHANGED <<nbr, db>>
  PROVE  ObjectsOK' /\ BecomesFull
BY DEF ObjectsOK, Held, Covered, Waits, BecomesFull

LEMMA SendHelloStep ==
  ASSUME Parts, NEW r \in Router, SendHello(r)
  PROVE  Parts' /\ BecomesFull
<1> DEFINE hello == Hello(nbr[r].state # "NONE", db[r])
<1>1. /\ net' = [net EXCEPT ![Peer(r)] = <<hello>>]
      /\ UNCHANGED <<nbr, db, requested, firing, lapsed, used>>
  BY DEF SendHello
<1>2. hello \in Packet
  BY DEF Hello, Packet, Message, Parts, ObjectsOK
<1> HIDE DEF hello
<1>3. NetOK'
  <2>1. <<hello>> \in Seq(Packet) /\ Len(<<hello>>) = 1 /\ MaxQueue \in Nat \ {0}
    BY <1>2, BoundAssumption
  <2>2. net \in [Router -> Seq(Packet)] /\ \A q \in Router : Len(net[q]) <= MaxQueue
    BY DEF Parts, NetOK
  <2>3. QED
    BY <1>1, <2>1, <2>2, PeerType DEF NetOK
<1>4. ObjectsOK' /\ BecomesFull
  BY <1>1, SameObjects DEF Parts
<1>5. QED
  BY <1>1, <1>3, <1>4 DEF Parts, UsedOK

LEMMA LsaTriggerStep ==
  ASSUME Parts, NEW r \in Router, LsaTrigger(r)
  PROVE  Parts' /\ BecomesFull
<1> DEFINE n == [nbr[r] EXCEPT !.needTriggerLsa = FALSE]
           line == [db[r] EXCEPT ![r] = @ + 1]
<1>1. /\ nbr[r] \in Object /\ nbr[r].out = <<>> /\ db[r] \in Row
      /\ Spend("early") /\ UNCHANGED <<requested, net, firing, lapsed>>
      /\ nbr' = [nbr EXCEPT ![r] = n] /\ db' = [db EXCEPT ![r] = line]
  BY DEF Parts, ObjectsOK, LsaTrigger
<1>2. Kept(nbr[r], n) /\ n.out = <<>> /\ n.state = nbr[r].state
  BY <1>1 DEF Kept, Waits, Object
<1>3. line \in Row /\ \A x \in Origin : line[x] >= db[r][x]
  BY <1>1 DEF Row, Origin
<1> HIDE DEF n, line
<1>4. ObjectsOK' /\ BecomesFull
  BY <1>1, <1>2, <1>3, ObjectStep DEF Parts
<1>5. UsedOK'
  BY <1>1, SpendStep DEF Parts, Fault
<1>6. QED
  BY <1>1, <1>4, <1>5 DEF Parts, NetOK

LEMMA RetryUpStep ==
  ASSUME Parts, NEW r \in Router, NEW t \in nbr[r].timers, RetryUp(r, t)
  PROVE  Parts' /\ BecomesFull
<1> DEFINE n == [nbr[r] EXCEPT !.timers = @ \ {t}]
<1>1. /\ nbr[r] \in Object /\ nbr[r].out = <<>>
      /\ UNCHANGED <<db, requested, net, lapsed>>
      /\ nbr' = [nbr EXCEPT ![r] = n] /\ firing' = [firing EXCEPT ![r] = firing[r] \cup {t}]
      /\ Spend("late") \/ UNCHANGED used
  BY DEF Parts, ObjectsOK, RetryUp
<1>2. Kept(nbr[r], n) /\ n.out = <<>> /\ n.state = nbr[r].state /\ t \in RetryTimer
  BY <1>1 DEF Kept, Waits, Object
<1> HIDE DEF n
<1>3. ObjectsOK' /\ BecomesFull
  BY <1>1, <1>2, ObjectStep, SameDatabase DEF Parts
<1>4. firing' \in [Router -> SUBSET RetryTimer]
  BY <1>1, <1>2 DEF Parts
<1>5. UsedOK'
  <2>1. CASE UNCHANGED used
    BY <2>1 DEF Parts, UsedOK
  <2>2. QED
    BY <1>1, <2>1, SpendStep DEF Parts, Fault
<1>6. QED
  BY <1>1, <1>3, <1>4, <1>5 DEF Parts, NetOK

LEMMA RetryCallbackStep ==
  ASSUME Parts, NEW r \in Router, NEW t \in firing[r], RetryCallback(r, t)
  PROVE  Parts' /\ BecomesFull
<1> DEFINE next == [t EXCEPT !.count = @ + 1]
           again == next.count < MaxRetry /\ \A s \in nbr[r].timers : NameOf(s.pkt) # NameOf(t.pkt)
           timers == IF again THEN nbr[r].timers \cup {next} ELSE nbr[r].timers
           n == [nbr[r] EXCEPT !.timers = timers]
<1>1. /\ nbr[r] \in Object /\ nbr[r].out = <<>> /\ t \in RetryTimer
      /\ UNCHANGED <<db, requested, lapsed, used>>
      /\ nbr' = [nbr EXCEPT ![r] = n] /\ firing' = [firing EXCEPT ![r] = firing[r] \ {t}]
      /\ net' = [net EXCEPT ![Peer(r)] = Queue(Peer(r), <<t.pkt>>)]
  BY DEF Parts, ObjectsOK, RetryCallback
<1>2. timers \in SUBSET RetryTimer
  <2>1. t.pkt \in Request /\ t.count \in Nat
    BY <1>1 DEF RetryTimer
  <2>2. next.pkt = t.pkt /\ next.count = t.count + 1 /\ next = [pkt |-> t.pkt, count |-> t.count + 1]
    BY <1>1 DEF RetryTimer
  <2> HIDE DEF next
  <2>3. again => next \in RetryTimer
    BY <2>1, <2>2, BoundAssumption DEF RetryTimer
  <2> HIDE DEF again
  <2>4. QED
    BY <1>1, <2>3 DEF Object
<1> HIDE DEF timers
<1>3. Kept(nbr[r], n) /\ n.out = <<>> /\ n.state = nbr[r].state
  BY <1>1, <1>2 DEF Kept, Waits, Object
<1> HIDE DEF n
<1>4. ObjectsOK' /\ BecomesFull
  BY <1>1, <1>3, ObjectStep, SameDatabase DEF Parts
<1>5. NetOK'
  <2>1. <<t.pkt>> \in Seq(Packet)
    BY <1>1 DEF RetryTimer, Packet, Message
  <2>2. Queue(Peer(r), <<t.pkt>>) \in Seq(Packet) /\ Len(Queue(Peer(r), <<t.pkt>>)) <= MaxQueue
    BY <2>1, QueueType, PeerType DEF Parts
  <2>3. net \in [Router -> Seq(Packet)] /\ \A q \in Router : Len(net[q]) <= MaxQueue
    BY DEF Parts, NetOK
  <2>4. QED
    BY <1>1, <2>2, <2>3, PeerType DEF NetOK
<1>6. firing' \in [Router -> SUBSET RetryTimer]
  BY <1>1 DEF Parts
<1>7. QED
  BY <1>1, <1>4, <1>5, <1>6 DEF Parts, UsedOK

LEMMA InactivityUpStep ==
  ASSUME Parts, NEW r \in Router, InactivityUp(r)
  PROVE  Parts' /\ BecomesFull
<1> DEFINE n == [nbr[r] EXCEPT !.watched = FALSE]
<1>1. /\ nbr[r] \in Object /\ nbr[r].out = <<>>
      /\ UNCHANGED <<db, requested, net, firing>>
      /\ nbr' = [nbr EXCEPT ![r] = n] /\ lapsed' = [lapsed EXCEPT ![r] = TRUE]
      /\ Spend("dead")
  BY DEF Parts, ObjectsOK, InactivityUp
<1>2. Kept(nbr[r], n) /\ n.out = <<>> /\ n.state = nbr[r].state
  BY <1>1 DEF Kept, Waits, Object
<1> HIDE DEF n
<1>3. ObjectsOK' /\ BecomesFull
  BY <1>1, <1>2, ObjectStep, SameDatabase DEF Parts
<1>4. UsedOK'
  BY <1>1, SpendStep DEF Parts, Fault
<1>5. QED
  BY <1>1, <1>3, <1>4 DEF Parts, NetOK

LEMMA InactivityCallbackStep ==
  ASSUME Parts, NEW r \in Router, InactivityCallback(r)
  PROVE  Parts' /\ BecomesFull
<1> DEFINE c == clear(nbr[r])
           n == IF nbr[r].state = "DOWN" THEN nbr[r] ELSE [c EXCEPT !.state = "DOWN"]
<1>1. /\ nbr[r] \in Object /\ nbr[r].out = <<>>
      /\ UNCHANGED <<db, requested, net, firing, used>>
      /\ nbr' = [nbr EXCEPT ![r] = n] /\ lapsed' = [lapsed EXCEPT ![r] = FALSE]
  BY DEF Parts, ObjectsOK, InactivityCallback
<1>2. c \in Object /\ c.pending = <<>> /\ c.described = {}
  BY <1>1, ClearType
<1>3. c.out = nbr[r].out
  BY <1>1 DEF clear, Object
<1> HIDE DEF c
<1>4. Kept(nbr[r], n) /\ n.out = <<>> /\ n.state # "FULL"
  BY <1>1, <1>2, <1>3 DEF Kept, Waits, Object, State
<1> HIDE DEF n
<1>5. ObjectsOK' /\ BecomesFull
  BY <1>1, <1>4, ObjectStep, SameDatabase DEF Parts
<1>6. QED
  BY <1>1, <1>5 DEF Parts, NetOK, UsedOK

LEMMA LoseStep ==
  ASSUME Parts, NEW r \in Router, Lose(r)
  PROVE  Parts' /\ BecomesFull
<1>1. /\ net[r] # <<>> /\ net' = [net EXCEPT ![r] = Tail(net[r])] /\ Spend("loss")
      /\ UNCHANGED <<nbr, db, requested, firing, lapsed>>
  BY DEF Lose
<1>2. net \in [Router -> Seq(Packet)] /\ \A q \in Router : Len(net[q]) <= MaxQueue
  BY DEF Parts, NetOK
<1>3. Tail(net[r]) \in Seq(Packet) /\ Len(Tail(net[r])) <= MaxQueue
  <2>1. net[r] \in Seq(Packet) /\ Len(net[r]) <= MaxQueue /\ MaxQueue \in Nat
    BY <1>2, BoundAssumption
  <2>2. QED
    BY <1>1, <2>1, HeadTailProperties
<1>4. NetOK'
  BY <1>1, <1>2, <1>3 DEF NetOK
<1>5. QED
  BY <1>1, <1>4, SameObjects, SpendStep DEF Parts, Fault

LEMMA InfoStep ==
  ASSUME Parts, NEW r \in Router, NEW o \in Origin, Info(r, [origin |-> o, seq |-> db[Peer(r)][o]])
  PROVE  Parts' /\ BecomesFull
<1> DEFINE d == [origin |-> o, seq |-> db[Peer(r)][o]]
<1>1. /\ db[r][o] < db[Peer(r)][o] /\ Spend("info")
      /\ requested' = [requested EXCEPT ![r] = requested[r] \cup {d}]
      /\ UNCHANGED <<nbr, db, net, firing, lapsed>>
  BY DEF Info
<1>2. db[r][o] \in Nat \cup {-1} /\ db[Peer(r)][o] \in Nat \cup {-1}
  BY PeerType DEF Parts, ObjectsOK, Row
<1>3. d \in Digest
  BY <1>1, <1>2 DEF Digest
<1> HIDE DEF d
<1>4. requested' \in [Router -> SUBSET Digest]
  BY <1>1, <1>3 DEF Parts
<1>5. QED
  BY <1>1, <1>4, SameObjects, SpendStep DEF Parts, Fault, NetOK

LEMMA FloodAnswerStep ==
  ASSUME Parts, NEW r \in Router, NEW d \in requested[r], FloodAnswer(r, d)
  PROVE  Parts' /\ BecomesFull
<1> DEFINE line == IF db[r][d.origin] < d.seq THEN [db[r] EXCEPT ![d.origin] = d.seq] ELSE db[r]
<1>1. /\ nbr[r] \in Object /\ nbr[r].out = <<>> /\ db[r] \in Row /\ d \in Digest
      /\ nbr \in [Router -> Object] /\ db \in [Router -> Row]
  BY DEF Parts, ObjectsOK
<1>2. /\ requested' = [requested EXCEPT ![r] = requested[r] \ {d}]
      /\ UNCHANGED <<nbr, net, firing, lapsed, used>>
      /\ UNCHANGED db \/ db' = [db EXCEPT ![r] = line]
  BY <1>1 DEF FloodAnswer
<1>3. line \in Row /\ \A x \in Origin : line[x] >= db[r][x]
  BY <1>1 DEF Row, Digest
<1> HIDE DEF line
<1>4. ObjectsOK' /\ BecomesFull
  <2>1. CASE UNCHANGED db
    BY <1>2, <2>1, SameObjects DEF Parts
  <2>2. CASE db' = [db EXCEPT ![r] = line]
    <3>1. nbr' = [nbr EXCEPT ![r] = nbr[r]]
      BY <1>1, <1>2
    <3>2. Kept(nbr[r], nbr[r])
      BY <1>1, SameObject
    <3>3. QED
      BY <1>1, <1>3, <2>2, <3>1, <3>2, ObjectStep DEF Parts
  <2>3. QED
    BY <1>2, <2>1, <2>2
<1>5. requested' \in [Router -> SUBSET Digest]
  BY <1>2 DEF Parts
<1>6. QED
  BY <1>2, <1>4, <1>5 DEF Parts, NetOK, UsedOK

-----------------------------------------------------------------------------
LEMMA InitInv == Init => IInv
<1> SUFFICES ASSUME Init PROVE Parts
  BY InvParts
<1>1. NoObject \in Object /\ NoObject.out = <<>> /\ NoObject.described = {} /\ Waits(NoObject)
  <2>1. <<>> \in Seq(Digest) /\ <<>> \in Seq(Pack) /\ <<>> \in Seq(Message)
    OBVIOUS
  <2>2. QED
    BY <2>1 DEF NoObject, Object, State, Waits
<1>2. ObjectsOK
  <2>1. nbr \in [Router -> Object] /\ \A r \in Router : nbr[r].out = <<>>
    BY <1>1 DEF Init
  <2>2. db \in [Router -> Row]
    BY DatabaseAssumption DEF Init, Row
  <2>3. Held
    BY <1>1 DEF Init, Held, Covered
  <2>4. \A r \in Router : Waits(nbr[r])
    BY <1>1 DEF Init
  <2>5. QED
    BY <2>1, <2>2, <2>3, <2>4 DEF ObjectsOK
<1>3. NetOK
  <2>1. <<>> \in Seq(Packet) /\ Len(<<>>) = 0 /\ MaxQueue \in Nat
    BY BoundAssumption
  <2>2. QED
    BY <2>1 DEF Init, NetOK
<1>4. UsedOK
  BY BoundAssumption DEF Init, UsedOK
<1>5. QED
  BY <1>2, <1>3, <1>4 DEF Init, Parts

LEMMA NextInv == IInv /\ [Next]_vars => IInv' /\ BecomesFull
<1> SUFFICES ASSUME Parts, [Next]_vars PROVE Parts' /\ BecomesFull
  BY InvParts DEF IInv, Parts, LoadingWaits, Waits, TypeOK, ObjectsOK, NetOK, UsedOK
<1>1. CASE UNCHANGED vars
  <2>1. UNCHANGED <<nbr, db, requested, net, firing, lapsed, used>>
    BY <1>1 DEF vars
  <2>2. ObjectsOK' /\ BecomesFull
    BY <2>1, SameObjects DEF Parts
  <2>3. QED
    BY <2>1, <2>2 DEF Parts, NetOK, UsedOK
<1>2. ASSUME NEW r \in Router, Receive(r) PROVE Parts' /\ BecomesFull
  BY <1>2, ReceiveHelloStep, ReceiveDDInterestStep, ReceiveDDDataStep,
     ReceiveLsaInterestStep, ReceiveLsaDataStep DEF Receive
<1>3. ASSUME NEW r \in Router, SendHello(r) \/ LsaTrigger(r) PROVE Parts' /\ BecomesFull
  BY <1>3, SendHelloStep, LsaTriggerStep
<1>4. ASSUME NEW r \in Router, NEW t \in nbr[r].timers, RetryUp(r, t) PROVE Parts' /\ BecomesFull
  BY <1>4, RetryUpStep
<1>5. ASSUME NEW r \in Router, NEW t \in firing[r], RetryCallback(r, t) PROVE Parts' /\ BecomesFull
  BY <1>5, RetryCallbackStep
<1>6. ASSUME NEW r \in Router, InactivityUp(r) \/ InactivityCallback(r) \/ Lose(r)
      PROVE  Parts' /\ BecomesFull
  BY <1>6, InactivityUpStep, InactivityCallbackStep, LoseStep
<1>7. ASSUME NEW r \in Router, NEW o \in Origin, Info(r, [origin |-> o, seq |-> db[Peer(r)][o]])
      PROVE  Parts' /\ BecomesFull
  BY <1>7, InfoStep
<1>8. ASSUME NEW r \in Router, NEW d \in requested[r], FloodAnswer(r, d)
      PROVE  Parts' /\ BecomesFull
  BY <1>8, FloodAnswerStep
<1>9. QED
  BY <1>1, <1>2, <1>3, <1>4, <1>5, <1>6, <1>7, <1>8 DEF Next

\* Every field of the neighbour objects and of the packets keeps its type, no queue
\* outgrows its socket, and no fault happens more often than its bound allows.
THEOREM TypeCorrect == Spec => []TypeOK
<1>1. IInv => TypeOK
  BY DEF IInv
<1>2. QED
  BY <1>1, InitInv, NextInv, PTL DEF Spec

\* A router in Loading has a request pending, whose answer will take it out.
THEOREM LoadingIsWaiting == Spec => []LoadingWaits
<1>1. IInv => LoadingWaits
  BY DEF IInv
<1>2. QED
  BY <1>1, InitInv, NextInv, PTL DEF Spec

\* A router becomes fully adjacent only when its database holds every version its peer
\* has described to it, for every pair of databases and any number of faults.
THEOREM FullIsHeld == Spec => FullMeansHeld
<1>1. IInv /\ [Next]_vars => [BecomesFull]_vars
  BY NextInv
<1>2. Spec => [][BecomesFull]_vars
  BY <1>1, InitInv, NextInv, PTL DEF Spec
<1>3. [][BecomesFull]_vars <=> FullMeansHeld
  BY DEF FullMeansHeld, BecomesFull
<1>4. QED
  BY <1>2, <1>3
-----------------------------------------------------------------------------
(***************************************************************************)
(* Every database only moves forward, and only to versions that their      *)
(* origin has issued (Disseminates): what is requested of the flooding and *)
(* what is under way was issued, too.                                      *)
(***************************************************************************)

Issued == [x \in Origin |-> Newest(x)]
Bounded == \A q \in Router : \A x \in Origin : db[q][x] <= Issued[x]
Genuine(s, issued) ==
  \A i \in DOMAIN s : s[i].type = "lsaData" => s[i].lsa.seq <= issued[s[i].lsa.origin]

Backed ==
  /\ Bounded
  /\ \A q \in Router : Genuine(net[q], Issued)
  /\ \A q \in Router : \A d \in requested[q] : d.seq <= Issued[d.origin]

LEMMA IssuedType == ObjectsOK => Issued \in Row
<1> SUFFICES ASSUME ObjectsOK, NEW x \in Origin PROVE Newest(x) \in Nat \cup {-1}
  BY DEF Issued, Row
<1>1. CASE x \in Router
  BY <1>1 DEF Newest, ObjectsOK, Row
<1>2. CASE x \notin Router
  BY <1>2, DatabaseAssumption DEF Newest, Router
<1>3. QED
  BY <1>1, <1>2

\* A router issues a version, or learns versions of others that were issued.
LEMMA DatabaseStep ==
  ASSUME ObjectsOK, Bounded, NEW r \in Router, NEW line \in Row,
         db' = [db EXCEPT ![r] = line],
         line[r] \in {db[r][r], db[r][r] + 1},
         \A x \in Origin \ {r} : db[r][x] <= line[x] /\ line[x] <= Issued[x]
  PROVE  Bounded' /\ Forward /\ \A x \in Origin : Issued[x] <= Issued'[x]
<1>1. db \in [Router -> Row] /\ r \in Origin /\ Issued \in Row
  BY IssuedType DEF ObjectsOK, Origin
<1>2. /\ \A x \in Origin : db[r][x] \in Int /\ line[x] \in Int /\ Issued[x] \in Int
      /\ \A q \in Router : \A x \in Origin : db[q][x] \in Int
  BY <1>1 DEF Row
<1>3. db'[r] = line /\ \A q \in Router \ {r} : db'[q] = db[q]
  BY <1>1
<1>4. \A x \in Origin \ {r} : Newest(x)' = Newest(x)
  BY <1>3 DEF Newest
<1>5. Newest(r) = db[r][r] /\ Newest(r)' = line[r]
  BY <1>3 DEF Newest
<1>6. \A x \in Origin : Issued[x] <= Issued'[x]
  BY <1>1, <1>2, <1>4, <1>5 DEF Issued
<1>7. Bounded'
  <2> SUFFICES ASSUME NEW q \in Router, NEW x \in Origin PROVE db'[q][x] <= Issued'[x]
    BY DEF Bounded
  <2>1. db[q][x] <= Issued[x] /\ Issued[x] <= Issued'[x] /\ Issued'[x] \in Int
    BY <1>2, <1>4, <1>5, <1>6 DEF Bounded, Issued
  <2>2. CASE q = r /\ x = r
    BY <1>2, <1>3, <1>5, <2>2 DEF Issued
  <2>3. CASE q = r /\ x # r
    BY <1>2, <1>3, <2>1, <2>3
  <2>4. CASE q # r
    BY <1>2, <1>3, <2>1, <2>4
  <2>5. QED
    BY <2>2, <2>3, <2>4
<1>8. ASSUME NEW x \in Origin PROVE D(x)!Next \/ UNCHANGED HeldOf(x)
  <2>1. HeldOf(x)' = [HeldOf(x) EXCEPT ![r] = line[x]]
    <3> DEFINE at(q) == IF q \in Router THEN db'[q][x] ELSE Newest(x)'
               was(q) == IF q \in Router THEN db[q][x] ELSE Newest(x)
    <3>1. HeldOf(x) = [q \in Router \cup {x} |-> was(q)]
      BY DEF HeldOf
    <3>2. HeldOf(x)' = [q \in Router \cup {x} |-> at(q)]
      BY DEF HeldOf
    <3>3. at(r) = line[x] /\ \A q \in (Router \cup {x}) \ {r} : at(q) = was(q)
      BY <1>3, <1>4
    <3> HIDE DEF at, was
    <3>4. QED
      BY <3>1, <3>2, <3>3
  <2>2. HeldOf(x)[x] = Newest(x) /\ HeldOf(x)[r] = db[r][x]
    BY DEF HeldOf, Newest
  <2>3. CASE x = r
    <3>1. CASE line[r] = db[r][r] + 1
      <4>1. HeldOf(x)' = [HeldOf(x) EXCEPT ![x] = HeldOf(x)[x] + 1]
        BY <2>1, <2>2, <2>3, <3>1
      <4>2. QED
        BY <4>1 DEF D!Next, D!Issue
    <3>2. CASE line[r] = db[r][r]
      BY <2>1, <2>2, <2>3, <3>2 DEF HeldOf
    <3>3. QED
      BY <3>1, <3>2
  <2>4. CASE x # r /\ line[x] = db[r][x]
    BY <2>1, <2>2, <2>4 DEF HeldOf
  <2>5. CASE x # r /\ line[x] # db[r][x]
    <3>1. line[x] \in 0 .. HeldOf(x)[x] /\ HeldOf(x)[r] < line[x]
      <4>1. db[r][x] \in Nat \cup {-1} /\ line[x] \in Nat \cup {-1} /\ Issued[x] \in Nat \cup {-1}
        BY <1>1 DEF Row
      <4>2. db[r][x] <= line[x] /\ line[x] <= Issued[x] /\ HeldOf(x)[x] = Issued[x]
        BY <2>2, <2>5 DEF Issued
      <4>3. QED
        BY <2>2, <2>5, <4>1, <4>2
    <3>2. D(x)!Learn(r)
      BY <2>1, <2>5, <3>1 DEF D!Learn
    <3>3. r \in Router \cup {x}
      OBVIOUS
    <3>4. QED
      BY <3>2, <3>3 DEF D!Next
  <2>6. QED
    BY <2>3, <2>4, <2>5
<1>9. QED
  BY <1>6, <1>7, <1>8 DEF Forward
LEMMA MessagesGenuine ==
  ASSUME NEW out \in Seq(Message), NEW issued
  PROVE  Genuine(out, issued)
<1>1. \A i \in DOMAIN out : out[i] \in Message
  OBVIOUS
<1>2. \A m \in Message : m.type # "lsaData"
  BY DEF Message, Request
<1>3. QED
  BY <1>1, <1>2 DEF Genuine

LEMMA GenuineGrows ==
  ASSUME NEW s \in Seq(Packet), NEW old \in Row, NEW new \in Row, Genuine(s, old),
         \A x \in Origin : old[x] <= new[x]
  PROVE  Genuine(s, new)
<1> SUFFICES ASSUME NEW i \in DOMAIN s, s[i].type = "lsaData"
             PROVE  s[i].lsa.seq <= new[s[i].lsa.origin]
  BY DEF Genuine
<1>1. s[i].lsa \in Digest
  <2>1. s[i] \in Packet
    OBVIOUS
  <2>2. QED
    BY <2>1, PacketCases
<1>2. s[i].lsa.seq <= old[s[i].lsa.origin]
  BY DEF Genuine
<1>3. s[i].lsa.origin \in Origin /\ s[i].lsa.seq \in Nat
  BY <1>1 DEF Digest
<1>4. /\ old[s[i].lsa.origin] \in Nat \cup {-1} /\ new[s[i].lsa.origin] \in Nat \cup {-1}
      /\ old[s[i].lsa.origin] <= new[s[i].lsa.origin]
  BY <1>3 DEF Row
<1> DEFINE a == s[i].lsa.seq
           b == old[s[i].lsa.origin]
           c == new[s[i].lsa.origin]
<1>5. a <= b /\ b <= c /\ a \in Int /\ b \in Int /\ c \in Int
  BY <1>2, <1>3, <1>4
<1> HIDE DEF a, b, c
<1>6. a <= c
  BY <1>5
<1>. QED
  BY <1>6 DEF a, c

LEMMA HeadIsFirst ==
  ASSUME NEW s \in Seq(Packet), s # <<>>
  PROVE  1 \in DOMAIN s /\ s[1] = Head(s)
OBVIOUS

LEMMA GenuineTail ==
  ASSUME NEW s \in Seq(Packet), s # <<>>, NEW issued, Genuine(s, issued)
  PROVE  Genuine(Tail(s), issued)
<1>1. \A i \in DOMAIN Tail(s) : i + 1 \in DOMAIN s /\ Tail(s)[i] = s[i + 1]
  OBVIOUS
<1>2. QED
  BY <1>1 DEF Genuine

LEMMA GenuineQueue ==
  ASSUME NetOK, NEW q \in Router, NEW out \in Seq(Packet), NEW issued,
         Genuine(net[q], issued), Genuine(out, issued)
  PROVE  Genuine(Queue(q, out), issued)
<1> DEFINE all == net[q] \o out
<1>1. net[q] \in Seq(Packet)
  BY DEF NetOK
<1>2. /\ all \in Seq(Packet) /\ Len(all) = Len(net[q]) + Len(out)
      /\ \A i \in 1 .. Len(net[q]) : all[i] = net[q][i]
      /\ \A i \in 1 .. Len(out) : all[Len(net[q]) + i] = out[i]
  BY <1>1, ConcatProperties
<1>3. Genuine(all, issued)
  <2> SUFFICES ASSUME NEW i \in 1 .. Len(all), all[i].type = "lsaData"
               PROVE  all[i].lsa.seq <= issued[all[i].lsa.origin]
    BY <1>2 DEF Genuine
  <2> HIDE DEF all
  <2>1. CASE i \in 1 .. Len(net[q])
    <3>1. all[i] = net[q][i] /\ i \in DOMAIN net[q]
      BY <1>1, <1>2, <2>1
    <3>2. QED
      BY <3>1 DEF Genuine
  <2>2. CASE i \notin 1 .. Len(net[q])
    <3>1. i - Len(net[q]) \in 1 .. Len(out) /\ Len(net[q]) + (i - Len(net[q])) = i
      BY <1>1, <1>2, <2>2
    <3>2. all[i] = out[i - Len(net[q])]
      BY <1>2, <3>1
    <3>3. PICK j \in 1 .. Len(out) : j = i - Len(net[q])
      BY <3>1
    <3>4. all[i] = out[j] /\ j \in DOMAIN out
      BY <3>2, <3>3
    <3>5. QED
      BY <3>4 DEF Genuine
  <2>3. QED
    BY <2>1, <2>2
<1> HIDE DEF all
<1>4. CASE Len(all) > MaxQueue
  <2>1. MaxQueue \in Nat \ {0}
    BY BoundAssumption
  <2>2. \A i \in DOMAIN SubSeq(all, 1, MaxQueue) :
          i \in DOMAIN all /\ SubSeq(all, 1, MaxQueue)[i] = all[i]
    BY <1>2, <1>4, <2>1
  <2>3. Queue(q, out) = SubSeq(all, 1, MaxQueue)
    BY <1>4 DEF Queue, all
  <2>4. QED
    BY <1>3, <2>2, <2>3 DEF Genuine
<1>5. CASE ~(Len(all) > MaxQueue)
  BY <1>3, <1>5 DEF Queue, all
<1>6. QED
  BY <1>4, <1>5

\* A router takes a packet and answers with what it may say.
LEMMA GenuineAnswer ==
  ASSUME NetOK, NEW r \in Router, net[r] # <<>>, NEW out \in Seq(Packet), NEW issued,
         \A q \in Router : Genuine(net[q], issued), Genuine(out, issued), Answer(r, out)
  PROVE  \A q \in Router : Genuine(net'[q], issued)
<1>1. net \in [Router -> Seq(Packet)] /\ Peer(r) \in Router /\ Peer(r) # r
  BY PeerType DEF NetOK
<1>2. net' = [net EXCEPT ![r] = Tail(net[r]), ![Peer(r)] = Queue(Peer(r), out)]
  BY <1>1 DEF Answer
<1>3. Genuine(Tail(net[r]), issued) /\ Genuine(Queue(Peer(r), out), issued)
  BY <1>1, GenuineTail, GenuineQueue
<1>4. ASSUME NEW q \in Router PROVE Genuine(net'[q], issued)
  <2>1. net'[q] = IF q = r THEN Tail(net[r]) ELSE IF q = Peer(r) THEN Queue(Peer(r), out) ELSE net[q]
    BY <1>1, <1>2
  <2>2. QED
    BY <1>3, <2>1
<1>5. QED
  BY <1>4

\* Packets and requests that were issued before a step are issued after it.
LEMMA BackedStep ==
  ASSUME Parts, Parts', Backed, Bounded', \A x \in Origin : Issued[x] <= Issued'[x],
         \A q \in Router : Genuine(net'[q], Issued),
         \A q \in Router : \A d \in requested'[q] : d.seq <= Issued[d.origin]
  PROVE  Backed'
<1>1. Issued \in Row /\ Issued' \in Row
  <2>1. ObjectsOK' => (Issued \in Row)'
    BY IssuedType, PTL
  <2>2. QED
    BY IssuedType, <2>1 DEF Parts
<1>2. ASSUME NEW q \in Router PROVE Genuine(net'[q], Issued')
  <2>1. net'[q] \in Seq(Packet)
    BY DEF Parts, NetOK
  <2>2. QED
    BY <1>1, <2>1, GenuineGrows
<1>3. ASSUME NEW q \in Router, NEW d \in requested'[q] PROVE d.seq <= Issued'[d.origin]
  <2>1. d \in Digest
    BY DEF Parts
  <2>2. d.origin \in Origin /\ d.seq \in Nat
    BY <2>1 DEF Digest
  <2>3. Issued[d.origin] \in Int /\ Issued'[d.origin] \in Int
    BY <1>1, <2>2 DEF Row
  <2>4. d.seq <= Issued[d.origin] /\ Issued[d.origin] <= Issued'[d.origin]
    BY <2>2
  <2>5. QED
    BY <2>2, <2>3, <2>4
<1>4. QED
  BY <1>2, <1>3 DEF Backed
LEMMA RepliesSpreads ==
  ASSUME Parts, Parts', Backed, NEW r \in Router, net[r] # <<>>, Replies(r), UNCHANGED requested
  PROVE  Backed' /\ Forward
<1> DEFINE issues == [db[r] EXCEPT ![r] = db[r][r] + 1]
<1>1. PICK out \in Seq(Message) :
        Answer(r, out) /\ (UNCHANGED db \/ db' = [db EXCEPT ![r] = issues])
  BY DEF Replies
<1>2. \A q \in Router : Genuine(net'[q], Issued)
  <2>1. out \in Seq(Packet) /\ Genuine(out, Issued)
    BY MessageIsPacket, MessagesGenuine
  <2>2. QED
    BY <1>1, <2>1, GenuineAnswer DEF Parts, Backed
<1>3. /\ db \in [Router -> Row] /\ db[r] \in Row /\ r \in Origin
      /\ \A x \in Origin : db[r][x] \in Nat \cup {-1}
  BY DEF Parts, ObjectsOK, Row, Origin
<1>4. PICK line \in {db[r], issues} : db' = [db EXCEPT ![r] = line]
  BY <1>1, <1>3
<1>5. /\ line \in Row /\ line[r] \in {db[r][r], db[r][r] + 1}
      /\ \A x \in Origin \ {r} : line[x] = db[r][x]
  BY <1>3, <1>4 DEF Row
<1>6. \A x \in Origin \ {r} : db[r][x] <= line[x] /\ line[x] <= Issued[x]
  BY <1>3, <1>5 DEF Backed, Bounded
<1>7. Bounded' /\ Forward /\ \A x \in Origin : Issued[x] <= Issued'[x]
  BY <1>4, <1>5, <1>6, DatabaseStep DEF Parts, Backed
<1>8. QED
  BY <1>2, <1>7, BackedStep DEF Backed

LEMMA LsaInterestSpreads ==
  ASSUME Parts, Parts', Backed, NEW r \in Router, ReceiveLsaInterest(r)
  PROVE  Backed' /\ UNCHANGED db
<1> DEFINE d == Head(net[r]).lsa
           held == db[r][d.origin]
           e == [origin |-> d.origin, seq |-> held]
           data == [type |-> "lsaData", lsa |-> e]
           out == IF nbr[r].state # "NONE" /\ held >= 0 THEN <<data>> ELSE <<>>
<1>1. /\ net[r] # <<>> /\ Head(net[r]).type = "lsaInterest" /\ db[r] \in Row
      /\ Answer(r, out) /\ UNCHANGED <<db, requested>>
  BY DEF Parts, ObjectsOK, ReceiveLsaInterest, Receives
<1>2. d.origin \in Origin
  <2>1. d \in Digest
    BY <1>1, HeadType, PacketCases DEF Parts
  <2>2. QED
    BY <2>1 DEF Digest
<1> HIDE DEF d
<1>3. held \in Nat \cup {-1} /\ held <= Issued[d.origin]
  BY <1>1, <1>2 DEF Row, Backed, Bounded
<1> HIDE DEF held
<1>4. e.origin = d.origin /\ e.seq = held /\ (held >= 0 => e \in Digest)
  BY <1>2, <1>3 DEF Digest
<1> HIDE DEF e
<1>5. data.type = "lsaData" /\ data.lsa = e /\ (held >= 0 => data \in Packet)
  BY <1>4 DEF Packet
<1> HIDE DEF data
<1>6. out \in Seq(Packet) /\ Genuine(out, Issued)
  <2>1. CASE out = <<>>
    BY <2>1 DEF Genuine
  <2>2. CASE out = <<data>> /\ held >= 0
    BY <1>3, <1>4, <1>5, <2>2 DEF Genuine
  <2>3. QED
    BY <2>1, <2>2
<1> HIDE DEF out
<1>7. \A q \in Router : Genuine(net'[q], Issued)
  BY <1>1, <1>6, GenuineAnswer DEF Parts, Backed
<1>8. UNCHANGED Issued
  BY <1>1 DEF Issued, Newest
<1>9. QED
  BY <1>1, <1>7, <1>8 DEF Backed, Bounded
LEMMA LsaDataSpreads ==
  ASSUME Parts, Parts', Backed, NEW r \in Router, ReceiveLsaData(r)
  PROVE  Backed' /\ Forward
<1> DEFINE d == Head(net[r]).lsa
           row == IF db[r][d.origin] < d.seq THEN [db[r] EXCEPT ![d.origin] = d.seq] ELSE db[r]
           o == IF nbr[r].state \in AtLeastExchange
                THEN LoadingDone(cancelLsaInterestRequest(nbr[r], d)) ELSE nbr[r]
           line == IF o.state = "FULL" /\ nbr[r].state # "FULL" THEN [row EXCEPT ![r] = @ + 1] ELSE row
<1>1. /\ net[r] # <<>> /\ Head(net[r]).type = "lsaData" /\ Answer(r, <<>>) /\ UNCHANGED requested
      /\ db' = [db EXCEPT ![r] = line]
  BY DEF ReceiveLsaData, Receives, Commit
<1>2. d \in Digest /\ d.seq <= Issued[d.origin]
  <2>1. d \in Digest
    BY <1>1, HeadType, PacketCases DEF Parts
  <2>2. net[r] \in Seq(Packet) /\ Genuine(net[r], Issued)
    <3>1. net \in [Router -> Seq(Packet)]
      BY DEF Parts, NetOK
    <3>2. Genuine(net[r], Issued)
      BY DEF Backed
    <3>3. QED
      BY <3>1, <3>2
  <2>3. 1 \in DOMAIN net[r] /\ net[r][1] = Head(net[r])
    BY <1>1, <2>2, HeadIsFirst
  <2>4. net[r][1].type = "lsaData" => net[r][1].lsa.seq <= Issued[net[r][1].lsa.origin]
    BY <2>2, <2>3 DEF Genuine
  <2>5. net[r][1].type = "lsaData" /\ net[r][1].lsa = d
    BY <1>1, <2>3
  <2>6. QED
    BY <2>1, <2>4, <2>5
<1> HIDE DEF d
<1>3. d.origin \in Origin /\ d.seq \in Nat /\ r \in Origin
  BY <1>2 DEF Digest, Origin
<1>4. /\ db[r] \in Row /\ Issued \in Row /\ Issued[r] = db[r][r]
      /\ \A x \in Origin : db[r][x] <= Issued[x]
  BY <1>3, IssuedType DEF Parts, ObjectsOK, Backed, Bounded, Issued, Newest
<1>5. \A x \in Origin : db[r][x] \in Nat \cup {-1} /\ Issued[x] \in Nat \cup {-1}
  BY <1>4 DEF Row
<1>6. /\ row \in Row /\ row[r] = db[r][r]
      /\ \A x \in Origin : db[r][x] <= row[x] /\ row[x] <= Issued[x]
  <2>1. CASE db[r][d.origin] < d.seq
    <3>1. d.origin # r
      BY <1>2, <1>3, <1>4, <1>5, <2>1
    <3>2. row = [db[r] EXCEPT ![d.origin] = d.seq]
      BY <2>1
    <3> HIDE DEF row
    <3>3. row \in Row
      BY <1>3, <1>4, <3>2 DEF Row
    <3>4. row[d.origin] = d.seq /\ \A x \in Origin \ {d.origin} : row[x] = db[r][x]
      BY <1>3, <1>4, <3>2 DEF Row
    <3>5. QED
      BY <1>2, <1>3, <1>4, <1>5, <2>1, <3>1, <3>3, <3>4
  <2>2. CASE ~(db[r][d.origin] < d.seq)
    BY <1>4, <1>5, <2>2
  <2>3. QED
    BY <2>1, <2>2
<1> HIDE DEF row, o
<1>7. /\ line \in Row /\ line[r] \in {db[r][r], db[r][r] + 1}
      /\ \A x \in Origin \ {r} : line[x] = row[x]
  BY <1>3, <1>5, <1>6 DEF Row
<1> HIDE DEF line
<1>8. Bounded' /\ Forward /\ \A x \in Origin : Issued[x] <= Issued'[x]
  BY <1>1, <1>6, <1>7, DatabaseStep DEF Parts, Backed
<1>9. \A q \in Router : Genuine(net'[q], Issued)
  <2>1. <<>> \in Seq(Packet) /\ Genuine(<<>>, Issued)
    BY DEF Genuine
  <2>2. QED
    BY <1>1, <2>1, GenuineAnswer DEF Parts, Backed
<1>10. QED
  BY <1>1, <1>8, <1>9, BackedStep DEF Backed

\* A router adds a version of its own without a packet: the timer of its neighbour
\* object fires.
LEMMA TriggerSpreads ==
  ASSUME Parts, Parts', Backed, NEW r \in Router, LsaTrigger(r)
  PROVE  Backed' /\ Forward
<1> DEFINE line == [db[r] EXCEPT ![r] = db[r][r] + 1]
<1>1. db \in [Router -> Row] /\ db[r] \in Row /\ r \in Origin
  BY DEF Parts, ObjectsOK, Origin
<1>2. \A x \in Origin : db[r][x] \in Nat \cup {-1}
  BY <1>1 DEF Row
<1>3. db' = [db EXCEPT ![r] = line] /\ UNCHANGED <<net, requested>>
  <2>1. db' = [db EXCEPT ![r][r] = db[r][r] + 1]
    BY DEF LsaTrigger
  <2>2. QED
    BY <1>1, <2>1 DEF LsaTrigger
<1>4. /\ line \in Row /\ line[r] = db[r][r] + 1
      /\ \A x \in Origin \ {r} : line[x] = db[r][x]
  BY <1>1, <1>2 DEF Row
<1>5. \A x \in Origin \ {r} : db[r][x] <= line[x] /\ line[x] <= Issued[x]
  BY <1>2, <1>4 DEF Backed, Bounded
<1> HIDE DEF line
<1>6. Bounded' /\ Forward /\ \A x \in Origin : Issued[x] <= Issued'[x]
  BY <1>3, <1>4, <1>5, DatabaseStep DEF Parts, Backed
<1>7. QED
  BY <1>3, <1>6, BackedStep DEF Backed

LEMMA FloodAnswerSpreads ==
  ASSUME Parts, Parts', Backed, NEW r \in Router, NEW d \in requested[r], FloodAnswer(r, d)
  PROVE  Backed' /\ Forward
<1>1. d \in Digest /\ d.seq <= Issued[d.origin]
  BY DEF Parts, Backed
<1>2. d.origin \in Origin /\ d.seq \in Nat /\ r \in Origin
  BY <1>1 DEF Digest, Origin
<1>3. /\ db \in [Router -> Row] /\ db[r] \in Row /\ Issued \in Row /\ Issued[r] = db[r][r]
      /\ \A x \in Origin : db[r][x] <= Issued[x]
  BY <1>2, IssuedType DEF Parts, ObjectsOK, Backed, Bounded, Issued, Newest
<1>4. \A x \in Origin : db[r][x] \in Nat \cup {-1} /\ Issued[x] \in Nat \cup {-1}
  BY <1>3 DEF Row
<1> DEFINE newer == [db[r] EXCEPT ![d.origin] = d.seq]
<1>5. db' = db \/ (db[r][d.origin] < d.seq /\ db' = [db EXCEPT ![r] = newer])
  <2>1. \/ db' = db
        \/ db[r][d.origin] < d.seq /\ db' = [db EXCEPT ![r][d.origin] = d.seq]
    BY DEF FloodAnswer
  <2>2. [db EXCEPT ![r][d.origin] = d.seq] = [db EXCEPT ![r] = newer]
    BY <1>3
  <2>3. QED
    BY <2>1, <2>2
<1>6. PICK line \in {db[r], newer} :
        /\ line = db[r] \/ (line = newer /\ db[r][d.origin] < d.seq)
        /\ db' = [db EXCEPT ![r] = line]
  BY <1>3, <1>5
<1>7. /\ line \in Row /\ line[r] \in {db[r][r], db[r][r] + 1}
      /\ \A x \in Origin \ {r} : db[r][x] <= line[x] /\ line[x] <= Issued[x]
  <2>1. CASE line = db[r]
    BY <1>2, <1>3, <1>4, <2>1
  <2>2. CASE line = newer /\ db[r][d.origin] < d.seq
    <3>1. line \in Row
      BY <1>2, <1>3, <2>2 DEF Row
    <3>2. line[d.origin] = d.seq /\ \A x \in Origin \ {d.origin} : line[x] = db[r][x]
      BY <1>2, <1>3, <2>2 DEF Row
    <3>3. d.origin # r
      BY <1>1, <1>2, <1>3, <1>4, <2>2
    <3>4. QED
      BY <1>1, <1>2, <1>3, <1>4, <2>2, <3>1, <3>2, <3>3
  <2>3. QED
    BY <1>6, <2>1, <2>2
<1>8. Bounded' /\ Forward /\ \A x \in Origin : Issued[x] <= Issued'[x]
  BY <1>6, <1>7, DatabaseStep DEF Parts, Backed
<1>9. UNCHANGED net /\ \A q \in Router : requested'[q] \subseteq requested[q]
  BY DEF FloodAnswer, Parts
<1>10. QED
  BY <1>8, <1>9, BackedStep DEF Backed
\* Steps that do not touch the databases: one packet is sent or lost, or none, and at
\* most a request for what the peer holds is added to the flooding.
LEMMA QuietSpreads ==
  ASSUME Parts, Parts', Backed, UNCHANGED db,
         \A q \in Router : Genuine(net'[q], Issued),
         \A q \in Router : \A d \in requested'[q] : d.seq <= Issued[d.origin]
  PROVE  Backed' /\ Forward
<1>1. UNCHANGED Issued /\ \A x \in Origin : UNCHANGED HeldOf(x)
  BY DEF Issued, Newest, HeldOf
<1>2. Bounded'
  BY <1>1 DEF Backed, Bounded
<1>3. Backed'
  BY <1>1, <1>2 DEF Backed
<1>4. QED
  BY <1>1, <1>3 DEF Forward

LEMMA SendSpreads ==
  ASSUME Parts, Parts', Backed, NEW r \in Router,
         \/ SendHello(r)
         \/ \E t \in firing[r] : RetryCallback(r, t)
         \/ Lose(r)
  PROVE  Backed' /\ Forward
<1>1. net \in [Router -> Seq(Packet)] /\ Peer(r) \in Router /\ UNCHANGED <<db, requested>>
  BY PeerType DEF Parts, NetOK, SendHello, RetryCallback, Lose
<1>2. ASSUME NEW p \in Router, NEW s, net' = [net EXCEPT ![p] = s], Genuine(s, Issued)
      PROVE  \A q \in Router : Genuine(net'[q], Issued)
  BY <1>1, <1>2 DEF Backed
<1>3. CASE SendHello(r)
  <2> DEFINE hello == Hello(nbr[r].state # "NONE", db[r])
  <2>1. Genuine(<<hello>>, Issued)
    BY DEF Genuine, Hello
  <2>2. net' = [net EXCEPT ![Peer(r)] = <<hello>>]
    BY <1>3 DEF SendHello
  <2> HIDE DEF hello
  <2>3. QED
    BY <1>1, <1>2, <2>1, <2>2, QuietSpreads DEF Backed
<1>4. ASSUME NEW t \in firing[r], RetryCallback(r, t) PROVE Backed' /\ Forward
  <2>1. t.pkt \in Request
    BY DEF Parts, RetryTimer
  <2>2. <<t.pkt>> \in Seq(Message)
    BY <2>1 DEF Message
  <2>3. Genuine(Queue(Peer(r), <<t.pkt>>), Issued)
    BY <1>1, <2>2, MessageIsPacket, MessagesGenuine, GenuineQueue DEF Parts, Backed
  <2>4. net' = [net EXCEPT ![Peer(r)] = Queue(Peer(r), <<t.pkt>>)]
    BY <1>4 DEF RetryCallback
  <2>5. QED
    BY <1>1, <1>2, <2>3, <2>4, QuietSpreads DEF Backed
<1>5. CASE Lose(r)
  <2>1. Genuine(Tail(net[r]), Issued)
    BY <1>1, <1>5, GenuineTail DEF Lose, Backed
  <2>2. net' = [net EXCEPT ![r] = Tail(net[r])]
    BY <1>5 DEF Lose
  <2>3. QED
    BY <1>1, <1>2, <2>1, <2>2, QuietSpreads DEF Backed
<1>6. QED
  BY <1>3, <1>4, <1>5

LEMMA InfoSpreads ==
  ASSUME Parts, Parts', Backed, NEW r \in Router, NEW o \in Origin,
         Info(r, [origin |-> o, seq |-> db[Peer(r)][o]])
  PROVE  Backed' /\ Forward
<1> DEFINE e == [origin |-> o, seq |-> db[Peer(r)][o]]
<1>1. requested' = [requested EXCEPT ![r] = requested[r] \cup {e}] /\ UNCHANGED <<db, net>>
  BY DEF Info
<1>2. e.origin = o /\ e.seq = db[Peer(r)][o] /\ e.seq <= Issued[e.origin]
  BY PeerType DEF Backed, Bounded
<1> HIDE DEF e
<1>3. requested \in [Router -> SUBSET Digest]
  BY DEF Parts
<1>4. \A q \in Router : \A d \in requested'[q] : d \in requested[q] \/ d = e
  BY <1>1, <1>3
<1>5. QED
  BY <1>1, <1>2, <1>4, QuietSpreads DEF Backed

LEMMA SpreadInv ==
  ASSUME Parts, Parts', Backed, [Next]_vars
  PROVE  Backed' /\ Forward
<1>1. ASSUME NEW r \in Router, Receive(r) PROVE Backed' /\ Forward
  <2>1. CASE ReceiveHello(r)
    BY <2>1, ReceiveHelloStep, RepliesSpreads DEF ReceiveHello, Receives
  <2>2. CASE ReceiveDDInterest(r)
    BY <2>2, ReceiveDDInterestStep, RepliesSpreads DEF ReceiveDDInterest, Receives
  <2>3. CASE ReceiveDDData(r)
    BY <2>3, ReceiveDDDataStep, RepliesSpreads DEF ReceiveDDData, Receives
  <2>4. CASE ReceiveLsaInterest(r)
    BY <2>4, LsaInterestSpreads DEF Forward, HeldOf, Newest
  <2>5. CASE ReceiveLsaData(r)
    BY <2>5, LsaDataSpreads
  <2>6. QED
    BY <1>1, <2>1, <2>2, <2>3, <2>4, <2>5 DEF Receive
<1>2. CASE UNCHANGED <<db, net, requested>>
  BY <1>2, QuietSpreads DEF Backed
<1>3. UNCHANGED vars => UNCHANGED <<db, net, requested>>
  BY DEF vars
<1>4. ASSUME NEW r \in Router,
             \/ \E t \in nbr[r].timers : RetryUp(r, t)
             \/ InactivityUp(r) \/ InactivityCallback(r)
      PROVE  UNCHANGED <<db, net, requested>>
  BY <1>4 DEF RetryUp, InactivityUp, InactivityCallback
<1>5. QED
  BY <1>1, <1>2, <1>3, <1>4, SendSpreads, TriggerSpreads, InfoSpreads, FloodAnswerSpreads DEF Next

LEMMA SpreadInit == Init => Backed /\ \A x \in Origin : D(x)!Init
<1> SUFFICES ASSUME Init PROVE Backed /\ \A x \in Origin : D(x)!Init
  OBVIOUS
<1>1. db = InitialSeq /\ \A q \in Router : net[q] = <<>> /\ requested[q] = {}
  BY DEF Init
<1>2. ASSUME NEW q \in Router, NEW x \in Origin
      PROVE  db[q][x] <= Newest(x) /\ db[q][x] \in Nat \cup {-1} /\ Newest(x) \in Nat \cup {-1}
  <2>1. \A p \in Router : db[p][x] \in Nat \cup {-1}
    BY <1>1, DatabaseAssumption
  <2>2. CASE x \in Router
    <3>1. q = x \/ q = Peer(x)
      BY <2>2 DEF Router, Peer
    <3>2. db[Peer(x)][x] <= db[x][x]
      BY <1>1, <2>2, DatabaseAssumption
    <3>3. QED
      BY <2>1, <2>2, <3>1, <3>2 DEF Newest
  <2>3. CASE x \notin Router
    <3>1. A \in Router /\ B \in Router /\ (q = A \/ q = B)
      BY DEF Router
    <3>2. QED
      BY <1>1, <2>1, <2>3, <3>1 DEF Newest
  <2>4. QED
    BY <2>2, <2>3
<1>3. Backed
  BY <1>1, <1>2 DEF Backed, Bounded, Genuine, Issued
<1>4. ASSUME NEW x \in Origin PROVE D(x)!Init
  <2>1. \A q \in Router : HeldOf(x)[q] = db[q][x]
    BY DEF HeldOf
  <2>2. HeldOf(x)[x] = Newest(x)
    BY DEF HeldOf, Newest
  <2>3. Newest(x) \in Nat \cup {-1} /\ \A q \in Router : db[q][x] \in Nat \cup {-1}
    BY <1>2 DEF Router
  <2>4. HeldOf(x) \in [Router \cup {x} -> Nat \cup {-1}]
    BY <2>3 DEF HeldOf
  <2>5. \A q \in Router \cup {x} : HeldOf(x)[q] <= HeldOf(x)[x]
    BY <1>2, <2>1, <2>2, <2>3
  <2>6. QED
    BY <2>4, <2>5 DEF D!Init
<1>5. QED
  BY <1>3, <1>4

LEMMA PartsKept == Parts /\ [Next]_vars => Parts'
BY NextInv, InvParts, PTL

\* Exchange, loading and flooding together keep what flooding alone promises: for every
\* origin no database falls back to an older version or gets ahead of the router that
\* issues it, for every pair of databases and any number of faults.
THEOREM ExchangeDisseminates == Spec => Disseminates
<1>1. Init => Parts /\ Backed
  BY InitInv, InvParts, SpreadInit
<1>2. Parts /\ Backed /\ [Next]_vars => Parts' /\ Backed' /\ Forward
  BY PartsKept, SpreadInv
<1>3. Spec => [][Forward]_db
  BY <1>1, <1>2, PTL DEF Spec
<1>4. Init => Starts
  BY SpreadInit DEF Starts
<1>5. QED
  BY <1>3, <1>4, PTL DEF Spec, Disseminates

\* The same, said of the module Dissemination: for every origin, the databases of the
\* two routers implement it.
THEOREM ImplementsDissemination ==
  ASSUME NEW CONSTANT x \in Origin
  PROVE  Spec => D(x)!Spec
<1>1. Init => Parts /\ Backed /\ D(x)!Init
  BY InitInv, InvParts, SpreadInit
<1>2. Parts /\ Backed /\ [Next]_vars => Parts' /\ Backed' /\ [D(x)!Next]_(HeldOf(x))
  BY PartsKept, SpreadInv DEF Forward
<1>3. QED
  BY <1>1, <1>2, PTL DEF Spec, D!Spec

-----------------------------------------------------------------------------
(***************************************************************************)
(* A legal request is answered with a pack that exists as long as no       *)
(* neighbour has been Down and none has gone back from Full to Exchange:   *)
(* then every exchange starts from an object that clear() has emptied.     *)
(***************************************************************************)

\* Once a pack of this exchange has been sent, there is one for every digest.
Listed(o) ==
  /\ o.state # "DOWN"
  /\ o.state \in {"NONE", "INIT"} => o.sendingIndex = 0
  /\ o.sendingIndex > 0 => Len(o.summary) <= Len(o.ddList)
Intact(s) == \A i \in DOMAIN s : s[i].type = "ddData" => s[i].intact
Fit(o) == Listed(o) /\ Intact(o.out)

First == used["dead"] = 0 /\ used["differ"] = 0
Prepared == \A r \in Router : ~lapsed[r] /\ Listed(nbr[r]) /\ Intact(net[r])
FirstInv == First => Prepared

LEMMA IntactConcat ==
  ASSUME NEW s \in Seq(Packet), NEW t \in Seq(Packet), Intact(s), Intact(t)
  PROVE  Intact(s \o t)
<1> DEFINE all == s \o t
<1>1. /\ all \in Seq(Packet) /\ Len(all) = Len(s) + Len(t)
      /\ \A i \in 1 .. Len(s) : all[i] = s[i]
      /\ \A i \in 1 .. Len(t) : all[Len(s) + i] = t[i]
  BY ConcatProperties
<1> HIDE DEF all
<1> SUFFICES ASSUME NEW i \in 1 .. Len(all), all[i].type = "ddData" PROVE all[i].intact
  BY <1>1 DEF Intact, all
<1>2. CASE i \in 1 .. Len(s)
  <2>1. all[i] = s[i] /\ i \in DOMAIN s
    BY <1>1, <1>2
  <2>2. QED
    BY <2>1 DEF Intact
<1>3. CASE i \notin 1 .. Len(s)
  <2>1. i - Len(s) \in 1 .. Len(t) /\ Len(s) + (i - Len(s)) = i
    BY <1>1, <1>3
  <2>2. all[i] = t[i - Len(s)]
    BY <1>1, <2>1
  <2>3. PICK j \in 1 .. Len(t) : j = i - Len(s)
    BY <2>1
  <2>4. all[i] = t[j] /\ j \in DOMAIN t
    BY <2>2, <2>3
  <2>5. QED
    BY <2>4 DEF Intact
<1>4. QED
  BY <1>2, <1>3

LEMMA IntactTail ==
  ASSUME NEW s \in Seq(Packet), s # <<>>, Intact(s)
  PROVE  Intact(Tail(s))
<1>1. \A i \in DOMAIN Tail(s) : i + 1 \in DOMAIN s /\ Tail(s)[i] = s[i + 1]
  OBVIOUS
<1>2. QED
  BY <1>1 DEF Intact

LEMMA IntactOne ==
  ASSUME NEW m \in Packet, m.type = "ddData" => m.intact
  PROVE  <<m>> \in Seq(Packet) /\ Intact(<<m>>)
BY DEF Intact

LEMMA IntactAppend ==
  ASSUME NEW s \in Seq(Packet), NEW m \in Packet, Intact(s), m.type = "ddData" => m.intact
  PROVE  Intact(Append(s, m))
<1>1. /\ Len(Append(s, m)) = Len(s) + 1 /\ Append(s, m)[Len(s) + 1] = m
      /\ \A i \in 1 .. Len(s) : Append(s, m)[i] = s[i]
      /\ Append(s, m) \in Seq(Packet)
  BY AppendProperties
<1> DEFINE all == Append(s, m)
<1> HIDE DEF all
<1>2. ASSUME NEW i \in 1 .. Len(s) + 1, all[i].type = "ddData" PROVE all[i].intact
  <2>1. CASE i = Len(s) + 1
    BY <1>1, <1>2, <2>1 DEF all
  <2>2. CASE i # Len(s) + 1
    <3>1. i \in 1 .. Len(s)
      BY <2>2
    <3>2. all[i] = s[i] /\ i \in DOMAIN s
      BY <1>1, <3>1 DEF all
    <3>3. QED
      BY <1>2, <3>2 DEF Intact
  <2>3. QED
    BY <2>1, <2>2
<1>3. DOMAIN all = 1 .. Len(s) + 1
  BY <1>1 DEF all
<1>4. QED
  BY <1>2, <1>3 DEF Intact, all

LEMMA RequestsIntact == \A s \in Seq(Request) : s \in Seq(Packet) /\ Intact(s)
<1> SUFFICES ASSUME NEW s \in Seq(Request) PROVE Intact(s)
  BY RequestIsMessage, MessageIsPacket
<1>1. \A i \in DOMAIN s : s[i] \in Request
  OBVIOUS
<1>2. \A q \in Request : q.type # "ddData"
  BY DEF Request
<1>3. QED
  BY <1>1, <1>2 DEF Intact

\* What has the same place in the exchange and sends intact packets is as fit.
LEMMA FitSame ==
  ASSUME NEW o, NEW n, Listed(o), n.state = o.state, n.sendingIndex = o.sendingIndex,
         n.summary = o.summary, n.ddList = o.ddList, Intact(n.out)
  PROVE  Fit(n)
BY DEF Fit, Listed

LEMMA AskFit ==
  ASSUME NEW o \in Object, NEW req \in Seq(Request), Fit(o)
  PROVE  Fit(Ask(o, req)) /\ Ask(o, req).state = o.state
<1>1. o.out \in Seq(Packet) /\ Intact(o.out)
  BY MessageIsPacket DEF Object, Fit
<1>2. Intact(o.out \o req)
  BY <1>1, RequestsIntact, IntactConcat
<1> DEFINE n == Ask(o, req)
<1>3. /\ n.state = o.state /\ n.sendingIndex = o.sendingIndex
      /\ n.summary = o.summary /\ n.ddList = o.ddList /\ n.out = o.out \o req
  BY DEF Ask, Object
<1> HIDE DEF n
<1>4. QED
  BY <1>2, <1>3, FitSame DEF Fit, n

LEMMA SendDDInterestFit ==
  ASSUME NEW o \in Object, Fit(o)
  PROVE  Fit(sendDDInterest(o)) /\ sendDDInterest(o).state = o.state
<1>1. <<DDInterest(o.receivingIndex)>> \in Seq(Request)
  BY DEF Object, Request, DDInterest
<1>2. QED
  BY <1>1, AskFit DEF sendDDInterest

LEMMA DeleteTimerFit ==
  ASSUME NEW o \in Object, NEW name, Fit(o)
  PROVE  Fit(deleteTimer(o, name)) /\ deleteTimer(o, name).state = o.state
<1> DEFINE n == deleteTimer(o, name)
<1>1. /\ n.state = o.state /\ n.sendingIndex = o.sendingIndex
      /\ n.summary = o.summary /\ n.ddList = o.ddList /\ n.out = o.out
  BY DEF deleteTimer, Object
<1> HIDE DEF n
<1>2. QED
  BY <1>1, FitSame DEF Fit, n

LEMMA ClearFit ==
  ASSUME NEW o \in Object, Fit(o)
  PROVE  Fit(clear(o)) /\ clear(o).sendingIndex = 0 /\ clear(o).state = o.state
<1> DEFINE n == clear(o)
<1>1. n.state = o.state /\ n.sendingIndex = 0 /\ n.out = o.out
  BY DEF clear, Object
<1> HIDE DEF n
<1>2. QED
  BY <1>1 DEF Fit, Listed, n

\* An exchange begins with nothing sent.
LEMMA ExchangeFit ==
  ASSUME NEW o \in Object, NEW summary \in Seq(Digest), Fit(o), o.state = "INIT"
  PROVE  Fit(Exchange(o, summary)) /\ Exchange(o, summary).state = "EXCHANGE"
<1> DEFINE n == [o EXCEPT !.summary = summary]
           m == sendDDInterest(n)
<1>1. n \in Object /\ n.state = "INIT" /\ n.sendingIndex = 0 /\ n.out = o.out
  BY DEF Object, Fit, Listed
<1>2. Fit(n)
  BY <1>1 DEF Fit, Listed
<1> HIDE DEF n
<1>3. Fit(m) /\ m \in Object /\ m.state = "INIT"
  BY <1>1, <1>2, SendDDInterestFit, SendDDInterestKept DEF Kept
<1>4. Exchange(o, summary) = [m EXCEPT !.state = "EXCHANGE"]
  BY DEF Exchange, n
<1> HIDE DEF m
<1> DEFINE e == [m EXCEPT !.state = "EXCHANGE"]
<1>5. e.state = "EXCHANGE" /\ e.sendingIndex = m.sendingIndex /\ e.out = m.out
  BY <1>3 DEF Object
<1>6. e.sendingIndex = 0
  BY <1>3, <1>5 DEF Fit, Listed
<1> HIDE DEF e
<1>7. QED
  BY <1>3, <1>4, <1>5, <1>6 DEF Fit, Listed, e

LEMMA OneWayFit ==
  ASSUME NEW o \in Object, Fit(o)
  PROVE  Fit(OneWay(o))
<1>1. CASE o.state \notin AtLeastExchange
  BY <1>1 DEF OneWay
<1>2. CASE o.state \in AtLeastExchange
  <2> DEFINE c == clear(o)
             n == [c EXCEPT !.state = "INIT"]
  <2>1. c \in Object /\ Fit(c) /\ c.sendingIndex = 0
    BY ClearType, ClearFit
  <2> HIDE DEF c
  <2>2. n.state = "INIT" /\ n.sendingIndex = 0 /\ n.out = c.out
    BY <2>1 DEF Object
  <2>3. OneWay(o) = n
    BY <1>2 DEF OneWay, c
  <2> HIDE DEF n
  <2>4. QED
    BY <2>1, <2>2, <2>3 DEF Fit, Listed
<1>3. QED
  BY <1>1, <1>2

LEMMA HelloFit ==
  ASSUME NEW o \in Object, Fit(o)
  PROVE  Fit(HelloReceived(o))
<1> DEFINE n == HelloReceived(o)
<1>1. /\ n.state = IF o.state \in {"NONE", "DOWN"} THEN "INIT" ELSE o.state
      /\ n.sendingIndex = o.sendingIndex
      /\ n.summary = o.summary /\ n.ddList = o.ddList /\ n.out = o.out
  BY DEF HelloReceived, Object
<1> HIDE DEF n
<1>2. QED
  BY <1>1 DEF Fit, Listed, n

LEMMA DragFit ==
  ASSUME NEW o \in Object, Fit(o)
  PROVE  Fit(dragPeerToInit(o))
<1> DEFINE n == OneWay(clear(o))
           h == Hello(FALSE, <<>>)
           m == [n EXCEPT !.out = Append(n.out, h)]
<1>1. clear(o) \in Object /\ Fit(clear(o))
  BY ClearType, ClearFit
<1>2. n \in Object /\ Fit(n)
  BY <1>1, OneWayKept, OneWayFit DEF Kept
<1>3. h \in Packet /\ h.type # "ddData"
  BY DEF Packet, Message, Hello
<1>4. dragPeerToInit(o) = m
  BY DEF dragPeerToInit
<1> HIDE DEF n, h
<1>5. n.out \in Seq(Packet)
  BY <1>2, MessageIsPacket DEF Object
<1>6. Intact(Append(n.out, h))
  BY <1>2, <1>3, <1>5, IntactAppend DEF Fit
<1>7. /\ m.state = n.state /\ m.sendingIndex = n.sendingIndex
      /\ m.summary = n.summary /\ m.ddList = n.ddList /\ m.out = Append(n.out, h)
  BY <1>2 DEF Object
<1> HIDE DEF m
<1>8. QED
  BY <1>2, <1>4, <1>6, <1>7, FitSame DEF Fit

LEMMA DoneFit ==
  ASSUME NEW o \in Object, Fit(o)
  PROVE  Fit(ExchangeDone(o)) /\ Fit(LoadingDone(o))
<1>1. ASSUME NEW n \in {ExchangeDone(o), LoadingDone(o)}
      PROVE  Fit(n)
  <2>1. /\ n.state = o.state \/ (n.state \in {"LOADING", "FULL"} /\ o.state \in AtLeastExchange)
        /\ n.sendingIndex = o.sendingIndex
        /\ n.summary = o.summary /\ n.ddList = o.ddList /\ n.out = o.out
    BY DEF ExchangeDone, LoadingDone, Full, AtLeastExchange, Object
  <2>2. QED
    BY <2>1 DEF Fit, Listed
<1>2. QED
  BY <1>1

LEMMA CancelFit ==
  ASSUME NEW o \in Object, NEW d \in Digest, Fit(o)
  PROVE  Fit(cancelLsaInterestRequest(o, d)) /\ cancelLsaInterestRequest(o, d) \in Object
<1> DEFINE t == deleteTimer(o, <<"lsa", d.seq>>)
           w == Without(t.pending, d)
           n == [t EXCEPT !.pending = w]
<1>1. t \in Object /\ Fit(t)
  BY DeleteTimerKept, DeleteTimerFit DEF Kept
<1>2. cancelLsaInterestRequest(o, d) = n
  BY DEF cancelLsaInterestRequest
<1> HIDE DEF t
<1>3. w \in Seq(Digest)
  BY <1>1, WithoutFacts DEF Object
<1> HIDE DEF w
<1>4. /\ n \in Object /\ n.state = t.state /\ n.sendingIndex = t.sendingIndex
      /\ n.summary = t.summary /\ n.ddList = t.ddList /\ n.out = t.out
  BY <1>1, <1>3 DEF Object
<1> HIDE DEF n
<1>5. QED
  BY <1>1, <1>2, <1>4, FitSame DEF Fit

\* The answer to request 0 leaves a pack for every digest, and one in any case.
LEMMA PackedLength ==
  ASSUME NEW ddList \in Seq(Pack), NEW summary \in Seq(Digest)
  PROVE  Len(summary) <= Len(Packed(ddList, summary)) /\ 0 < Len(Packed(ddList, summary))
<1> DEFINE n == Len(summary)
           fresh == [i \in 1 .. n |-> [ls |-> <<>>, total |-> n]]
           none == <<[ls |-> <<>>, total |-> 0]>>
           added == IF n = 0 THEN none ELSE fresh
           longer == ddList \o added
           pack(i) == IF i <= n THEN [longer[i] EXCEPT !.ls = Append(@, summary[i])] ELSE longer[i]
<1>1. n \in Nat
  OBVIOUS
<1>2. [ls |-> <<>>, total |-> n] \in Pack /\ [ls |-> <<>>, total |-> 0] \in Pack
  BY <1>1 DEF Pack
<1>3. fresh \in Seq(Pack) /\ Len(fresh) = n /\ none \in Seq(Pack) /\ Len(none) = 1
  BY <1>1, <1>2
<1>4. added \in Seq(Pack) /\ n <= Len(added) /\ 0 < Len(added)
  <2> HIDE DEF fresh, none, n
  <2>1. CASE n = 0
    <3>1. added = none
      BY <2>1
    <3>2. QED
      BY <1>3, <2>1, <3>1
  <2>2. CASE n # 0
    <3>1. added = fresh /\ 0 < n
      BY <1>1, <2>2
    <3>2. QED
      BY <1>1, <1>3, <3>1
  <2>3. QED
    BY <2>1, <2>2
<1> HIDE DEF added
<1>5. longer \in Seq(Pack) /\ Len(longer) = Len(ddList) + Len(added)
  BY <1>4, ConcatProperties
<1>6. Packed(ddList, summary) = [i \in DOMAIN longer |-> pack(i)]
  BY DEF Packed, longer, added, fresh, none
<1> HIDE DEF longer, pack, n
<1>7. DOMAIN longer = 1 .. Len(longer) /\ Len(longer) \in Nat
  BY <1>5
<1>8. Len([i \in 1 .. Len(longer) |-> pack(i)]) = Len(longer)
  BY <1>7
<1>9. Len(Packed(ddList, summary)) = Len(longer) /\ Len(ddList) \in Nat /\ Len(added) \in Nat
  BY <1>4, <1>6, <1>7, <1>8
<1>10. QED
  BY <1>1, <1>4, <1>5, <1>9 DEF n

LEMMA SendDDDataFit ==
  ASSUME NEW o \in Object, NEW index \in Nat, Fit(o), Legal(o, index),
         o.state \notin {"NONE", "INIT"}
  PROVE  Fit(sendDDData(o, index))
<1> DEFINE list == IF index = 0 THEN Packed(o.ddList, o.summary) ELSE o.ddList
           intact == index < Len(list)
           pack == IF intact THEN list[index + 1] ELSE [ls |-> <<>>, total |-> 0]
           pkt == [type |-> "ddData", index |-> index, intact |-> intact,
                   ls |-> pack.ls, total |-> pack.total]
           out == Append(o.out, pkt)
           l == [o EXCEPT !.ddList = list]
           m == [l EXCEPT !.sendingIndex = index + 1]
           n == [m EXCEPT !.out = out]
<1>1. o.summary \in Seq(Digest) /\ o.ddList \in Seq(Pack) /\ o.sendingIndex \in Nat
  BY DEF Object
<1>2. list \in Seq(Pack) /\ Len(list) \in Nat /\ Len(o.summary) \in Nat
  BY <1>1, PackedType
<1>3. Len(o.summary) <= Len(list) /\ index < Len(list)
  <2>1. CASE index = 0
    BY <1>1, <2>1, PackedLength
  <2>2. CASE index # 0
    <3>1. o.sendingIndex > 0 /\ index < Len(o.summary)
      BY <1>1, <2>2 DEF Legal
    <3>2. Len(o.summary) <= Len(o.ddList) /\ list = o.ddList
      BY <2>2, <3>1 DEF Fit, Listed
    <3>3. QED
      BY <1>2, <3>1, <3>2
  <2>3. QED
    BY <2>1, <2>2
<1> HIDE DEF list
<1>4. pack \in Pack
  BY <1>2, <1>3
<1> HIDE DEF pack
<1>5. pkt \in Packet /\ pkt.intact
  BY <1>3, <1>4 DEF Packet, Message, Pack
<1>6. sendDDData(o, index) = n
  BY DEF sendDDData, list, intact, pack, pkt
<1> HIDE DEF pkt
<1>7. o.out \in Seq(Packet) /\ Intact(o.out)
  BY MessageIsPacket DEF Object, Fit
<1>8. Intact(out)
  BY <1>5, <1>7, IntactAppend
<1> HIDE DEF out
<1>9. l \in Object /\ l.ddList = list /\ l.state = o.state /\ l.summary = o.summary
  BY <1>2 DEF Object
<1> HIDE DEF l
<1>10. /\ m \in Object /\ m.ddList = list /\ m.state = o.state /\ m.summary = o.summary
       /\ m.sendingIndex = index + 1
  <2>1. PICK k \in Nat : k = index + 1
    OBVIOUS
  <2>2. m = [l EXCEPT !.sendingIndex = k]
    BY <2>1
  <2> HIDE DEF m
  <2>3. QED
    BY <1>9, <2>1, <2>2 DEF Object
<1> HIDE DEF m
<1>11. /\ n.ddList = list /\ n.state = o.state /\ n.summary = o.summary /\ n.out = out
  BY <1>10 DEF Object
<1> HIDE DEF n
<1>12. QED
  BY <1>3, <1>6, <1>8, <1>11 DEF Fit, Listed

LEMMA IntactQueue ==
  ASSUME NetOK, NEW q \in Router, NEW out \in Seq(Packet), Intact(net[q]), Intact(out)
  PROVE  Intact(Queue(q, out))
<1> DEFINE all == net[q] \o out
<1>1. net[q] \in Seq(Packet)
  BY DEF NetOK
<1>2. all \in Seq(Packet) /\ Intact(all)
  BY <1>1, IntactConcat, ConcatProperties
<1> HIDE DEF all
<1>3. CASE Len(all) > MaxQueue
  <2>1. MaxQueue \in Nat \ {0}
    BY BoundAssumption
  <2>2. \A i \in DOMAIN SubSeq(all, 1, MaxQueue) :
          i \in DOMAIN all /\ SubSeq(all, 1, MaxQueue)[i] = all[i]
    BY <1>2, <1>3, <2>1
  <2>3. Queue(q, out) = SubSeq(all, 1, MaxQueue)
    BY <1>3 DEF Queue, all
  <2>4. QED
    BY <1>2, <2>2, <2>3 DEF Intact
<1>4. CASE ~(Len(all) > MaxQueue)
  BY <1>2, <1>4 DEF Queue, all
<1>5. QED
  BY <1>3, <1>4

LEMMA IntactAnswer ==
  ASSUME NetOK, NEW r \in Router, net[r] # <<>>, NEW out \in Seq(Packet),
         \A q \in Router : Intact(net[q]), Intact(out), Answer(r, out)
  PROVE  \A q \in Router : Intact(net'[q])
<1>1. net \in [Router -> Seq(Packet)] /\ Peer(r) \in Router /\ Peer(r) # r
  BY PeerType DEF NetOK
<1>2. net' = [net EXCEPT ![r] = Tail(net[r]), ![Peer(r)] = Queue(Peer(r), out)]
  BY <1>1 DEF Answer
<1>3. Intact(Tail(net[r])) /\ Intact(Queue(Peer(r), out))
  BY <1>1, IntactTail, IntactQueue
<1>4. ASSUME NEW q \in Router PROVE Intact(net'[q])
  <2>1. net'[q] = IF q = r THEN Tail(net[r]) ELSE IF q = Peer(r) THEN Queue(Peer(r), out) ELSE net[q]
    BY <1>1, <1>2
  <2>2. QED
    BY <1>3, <2>1
<1>5. QED
  BY <1>4

LEMMA CommitPrepared ==
  ASSUME ObjectsOK, Prepared, NEW r \in Router, NEW o \in Object, Listed(o),
         NEW row, Commit(r, o, row)
  PROVE  \A q \in Router : Listed(nbr'[q])
<1> DEFINE names == o.activeTimers \cap {NameOf(t.pkt) : t \in o.timers \cup firing[r]}
           n == [o EXCEPT !.out = <<>>, !.activeTimers = names]
<1>1. nbr' = [nbr EXCEPT ![r] = n]
  BY DEF Commit
<1> HIDE DEF names
<1>2. /\ n.state = o.state /\ n.sendingIndex = o.sendingIndex
      /\ n.summary = o.summary /\ n.ddList = o.ddList
  BY DEF Object
<1> HIDE DEF n
<1>3. Listed(n)
  BY <1>2 DEF Listed
<1>4. nbr \in [Router -> Object] /\ \A q \in Router : Listed(nbr[q])
  BY DEF ObjectsOK, Prepared
<1>5. QED
  BY <1>1, <1>3, <1>4

\* A handler that works through a fit object leaves everything prepared.
LEMMA HandledPrepared ==
  ASSUME Parts, Prepared, NEW r \in Router, net[r] # <<>>, NEW o \in Object, Fit(o),
         Handled(r, o), UNCHANGED lapsed
  PROVE  Prepared'
<1>1. \A q \in Router : Listed(nbr'[q])
  BY CommitPrepared DEF Handled, Fit, Parts
<1>2. o.out \in Seq(Packet)
  BY MessageIsPacket DEF Object
<1>3. \A q \in Router : Intact(net'[q])
  BY <1>2, IntactAnswer DEF Handled, Fit, Parts, Prepared
<1>4. QED
  BY <1>1, <1>3 DEF Prepared

LEMMA FitNow ==
  ASSUME Parts, Prepared, NEW r \in Router
  PROVE  nbr[r] \in Object /\ Fit(nbr[r]) /\ db[r] \in Row
<1>1. nbr[r] \in Object /\ nbr[r].out = <<>> /\ db[r] \in Row
  BY DEF Parts, ObjectsOK
<1>2. Intact(<<>>)
  BY DEF Intact
<1>3. QED
  BY <1>1, <1>2 DEF Fit, Prepared

\* What is spent is not given back.
LEMMA SpendsOnce ==
  ASSUME UsedOK, NEW f \in Fault, Spend(f)
  PROVE  used'[f] # 0 /\ \A g \in Fault : used'[g] = 0 => used[g] = 0
<1>1. used \in [Fault -> Nat] /\ used' = [used EXCEPT ![f] = used[f] + 1]
  BY DEF UsedOK, Spend
<1>2. used[f] \in Nat /\ used'[f] = used[f] + 1 /\ \A g \in Fault \ {f} : used'[g] = used[g]
  BY <1>1
<1>3. used[f] + 1 # 0
  BY <1>2
<1>4. QED
  BY <1>2, <1>3

LEMMA HelloPrepared ==
  ASSUME Parts, Prepared, First', NEW r \in Router, ReceiveHello(r)
  PROVE  Prepared'
<1> DEFINE o == HelloReceived(nbr[r])
<1>1. nbr[r] \in Object /\ Fit(nbr[r]) /\ db[r] \in Row /\ net[r] # <<>> /\ UNCHANGED lapsed
  BY FitNow DEF ReceiveHello, Receives
<1>2. o \in Object /\ Fit(o)
  BY <1>1, HelloKept, HelloFit DEF Kept
<1>3. OneWay(o) \in Object /\ Fit(OneWay(o))
  BY <1>2, OneWayKept, OneWayFit DEF Kept
<1>4. ~Spend("differ")
  BY SpendsOnce DEF Parts, First, Fault
<1>5. \/ o.state = "INIT" /\ \E summary \in Summaries(db[r]) : Handled(r, Exchange(o, summary))
      \/ Handled(r, o)
      \/ Handled(r, OneWay(o))
  BY <1>4 DEF ReceiveHello
<1> HIDE DEF o
<1>6. ASSUME NEW summary \in Summaries(db[r]), o.state = "INIT", Handled(r, Exchange(o, summary))
      PROVE  Prepared'
  <2>1. summary \in Seq(Digest)
    BY <1>1, SummariesType
  <2>2. Exchange(o, summary) \in Object /\ Fit(Exchange(o, summary))
    BY <1>2, <1>6, <2>1, ExchangeKept, ExchangeFit DEF Kept
  <2>3. QED
    BY <1>1, <1>6, <2>2, HandledPrepared
<1>7. QED
  BY <1>1, <1>2, <1>3, <1>5, <1>6, HandledPrepared

LEMMA ReplyPrepared ==
  ASSUME Parts, Prepared, NEW r \in Router, net[r] # <<>>, NEW o \in Object, Fit(o),
         o.state \notin {"NONE", "INIT"}, NEW index \in Nat, Reply(r, o, index), UNCHANGED lapsed
  PROVE  Prepared'
<1>1. CASE Legal(o, index) /\ Handled(r, sendDDData(o, index))
  <2>1. sendDDData(o, index) \in Object /\ Fit(sendDDData(o, index))
    BY <1>1, SendDDDataKept, SendDDDataFit DEF Kept
  <2>2. QED
    BY <1>1, <2>1, HandledPrepared
<1>2. CASE Handled(r, dragPeerToInit(o))
  <2>1. dragPeerToInit(o) \in Object /\ Fit(dragPeerToInit(o))
    BY DragKept, DragFit DEF Kept
  <2>2. QED
    BY <1>2, <2>1, HandledPrepared
<1>3. QED
  BY <1>1, <1>2 DEF Reply

LEMMA DDInterestPrepared ==
  ASSUME Parts, Prepared, NEW r \in Router, ReceiveDDInterest(r)
  PROVE  Prepared'
<1> DEFINE index == Head(net[r]).index
           o == nbr[r]
<1>1. /\ o \in Object /\ Fit(o) /\ db[r] \in Row /\ net[r] # <<>> /\ UNCHANGED lapsed
      /\ Head(net[r]).type = "ddInterest"
  BY FitNow DEF ReceiveDDInterest, Receives
<1>2. index \in Nat
  BY <1>1, HeadType, PacketCases DEF Parts
<1> HIDE DEF index
<1>3. \/ Answer(r, <<>>) /\ UNCHANGED nbr
      \/ o.state = "INIT" /\ \E summary \in Summaries(db[r]) : Reply(r, Exchange(o, summary), index)
      \/ o.state \notin {"NONE", "INIT"} /\ Reply(r, o, index)
  BY DEF ReceiveDDInterest, index
<1>4. CASE Answer(r, <<>>) /\ UNCHANGED nbr
  <2>1. <<>> \in Seq(Packet) /\ Intact(<<>>)
    BY DEF Intact
  <2>2. \A q \in Router : Intact(net'[q])
    BY <1>1, <1>4, <2>1, IntactAnswer DEF Parts, Prepared
  <2>3. QED
    BY <1>1, <1>4, <2>2 DEF Prepared
<1>5. ASSUME NEW summary \in Summaries(db[r]), o.state = "INIT",
             Reply(r, Exchange(o, summary), index)
      PROVE  Prepared'
  <2>1. summary \in Seq(Digest)
    BY <1>1, SummariesType
  <2>2. /\ Exchange(o, summary) \in Object /\ Fit(Exchange(o, summary))
        /\ Exchange(o, summary).state = "EXCHANGE"
    BY <1>1, <1>5, <2>1, ExchangeKept, ExchangeFit DEF Kept
  <2>3. QED
    BY <1>1, <1>2, <1>5, <2>2, ReplyPrepared
<1>6. QED
  BY <1>1, <1>2, <1>3, <1>4, <1>5, ReplyPrepared

LEMMA AcceptPrepared ==
  ASSUME Parts, Prepared, NEW r \in Router, net[r] # <<>>, NEW o \in Object, Fit(o),
         NEW m, m.ls \in Seq(Digest), Accept(r, o, m), UNCHANGED lapsed
  PROVE  Prepared'
<1> DEFINE wanted == {i \in DOMAIN m.ls : Missing(r, m.ls[i])}
           done == m.total \in {0, o.receivingIndex + 1}
           news == {m.ls[i] : i \in {j \in DOMAIN m.ls : m.ls[j] \notin requested[r]}}
           asked(pos) == [k \in DOMAIN pos |-> m.ls[pos[k]]]
           start(pos) == [o EXCEPT !.pending = @ \o asked(pos), !.receivingIndex = @ + 1,
                                   !.described = @ \cup news]
           req(pos) == [k \in DOMAIN asked(pos) |-> LsaInterest(asked(pos)[k])]
           next(pos) == Ask(start(pos), req(pos))
<1>1. wanted \in SUBSET DOMAIN m.ls
  OBVIOUS
<1>2. Cardinality(wanted) \in Nat
  <2> HIDE DEF wanted
  <2> QED BY <1>1, PositionsFinite, Zenon
<1>3. PICK pos \in [1 .. Cardinality(wanted) -> wanted] :
        /\ \A i \in wanted : \E k \in DOMAIN pos : pos[k] = i
        /\ Handled(r, IF done THEN ExchangeDone(next(pos)) ELSE sendDDInterest(next(pos)))
  BY DEF Accept
<1> DEFINE a == asked(pos)
           s == start(pos)
           q == req(pos)
           n == next(pos)
           f == IF done THEN ExchangeDone(n) ELSE sendDDInterest(n)
<1>4. a \in Seq(Digest)
  <2> HIDE DEF wanted
  <2> QED BY <1>1, <1>2, PickedType, Zenon
<1>5. \A d \in news : d \in Digest
  OBVIOUS
<1>6. q = [k \in DOMAIN a |-> LsaInterest(a[k])] /\ n = Ask(s, q)
  OBVIOUS
<1>7. s = [[[o EXCEPT !.pending = o.pending \o a] EXCEPT !.receivingIndex = o.receivingIndex + 1]
             EXCEPT !.described = o.described \cup news]
  BY DEF Object
<1>8. Handled(r, f)
  BY <1>3
<1> HIDE DEF f, n, q, s, a, asked, start, req, next, news, wanted
<1>9. q \in Seq(Request)
  <2>1. \A k \in 1 .. Len(a) : LsaInterest(a[k]) \in Request
    BY <1>4 DEF LsaInterest, Request
  <2>2. DOMAIN a = 1 .. Len(a) /\ Len(a) \in Nat
    BY <1>4
  <2>3. QED
    BY <1>6, <2>1, <2>2
<1>10. s \in Object /\ Fit(s)
  <2> DEFINE p == o.pending \o a
             i == o.receivingIndex + 1
             e == o.described \cup news
             u == [o EXCEPT !.pending = p]
             v == [u EXCEPT !.receivingIndex = i]
             w == [v EXCEPT !.described = e]
  <2>1. p \in Seq(Digest) /\ i \in Nat /\ e \in SUBSET Digest
    BY <1>4, <1>5, ConcatProperties DEF Object
  <2>2. s = w
    BY <1>7
  <2> HIDE DEF p, i, e
  <2>3. /\ u \in Object /\ u.state = o.state /\ u.sendingIndex = o.sendingIndex
        /\ u.summary = o.summary /\ u.ddList = o.ddList /\ u.out = o.out
    BY <2>1 DEF Object
  <2> HIDE DEF u
  <2>4. /\ v \in Object /\ v.state = u.state /\ v.sendingIndex = u.sendingIndex
        /\ v.summary = u.summary /\ v.ddList = u.ddList /\ v.out = u.out
    BY <2>1, <2>3 DEF Object
  <2> HIDE DEF v
  <2>5. /\ w \in Object /\ w.state = v.state /\ w.sendingIndex = v.sendingIndex
        /\ w.summary = v.summary /\ w.ddList = v.ddList /\ w.out = v.out
    BY <2>1, <2>4 DEF Object
  <2> HIDE DEF w
  <2>6. QED
    BY <2>2, <2>3, <2>4, <2>5, FitSame DEF Fit
<1>11. n \in Object /\ Fit(n)
  BY <1>6, <1>9, <1>10, AskKept, AskFit DEF Kept
<1>12. f \in Object /\ Fit(f)
  BY <1>11, DoneKept, DoneFit, SendDDInterestKept, SendDDInterestFit DEF Kept, f
<1>13. QED
  BY <1>8, <1>12, HandledPrepared

LEMMA DDDataPrepared ==
  ASSUME Parts, Prepared, NEW r \in Router, ReceiveDDData(r)
  PROVE  Prepared'
<1> DEFINE m == Head(net[r])
           o == nbr[r]
           n == deleteTimer(o, <<"dd", m.index>>)
<1>1. o \in Object /\ Fit(o) /\ net[r] # <<>> /\ m.type = "ddData" /\ UNCHANGED lapsed
  BY FitNow DEF ReceiveDDData, Receives
<1>2. m.ls \in Seq(Digest)
  BY <1>1, HeadType, PacketCases DEF Parts
<1>3. \/ Handled(r, o)
      \/ Handled(r, dragPeerToInit(o))
      \/ Accept(r, n, m)
      \/ Handled(r, n)
  BY DEF ReceiveDDData
<1>4. n \in Object /\ Fit(n)
  BY <1>1, DeleteTimerKept, DeleteTimerFit DEF Kept
<1>5. dragPeerToInit(o) \in Object /\ Fit(dragPeerToInit(o))
  BY <1>1, DragKept, DragFit DEF Kept
<1> HIDE DEF m, n
<1>6. QED
  BY <1>1, <1>2, <1>3, <1>4, <1>5, AcceptPrepared, HandledPrepared

\* A handler of LsaController sends no description.
LEMMA LsaInterestPrepared ==
  ASSUME Parts, Prepared, NEW r \in Router, ReceiveLsaInterest(r)
  PROVE  Prepared'
<1> DEFINE d == Head(net[r]).lsa
           held == db[r][d.origin]
           e == [origin |-> d.origin, seq |-> held]
           data == [type |-> "lsaData", lsa |-> e]
           out == IF nbr[r].state # "NONE" /\ held >= 0 THEN <<data>> ELSE <<>>
<1>1. /\ net[r] # <<>> /\ Head(net[r]).type = "lsaInterest" /\ db[r] \in Row
      /\ Answer(r, out) /\ UNCHANGED <<nbr, lapsed>>
  BY DEF Parts, ObjectsOK, ReceiveLsaInterest, Receives
<1>2. d.origin \in Origin
  <2>1. d \in Digest
    BY <1>1, HeadType, PacketCases DEF Parts
  <2>2. QED
    BY <2>1 DEF Digest
<1> HIDE DEF d
<1>3. held \in Nat \cup {-1}
  BY <1>1, <1>2 DEF Row
<1> HIDE DEF held
<1>4. held >= 0 => e \in Digest
  BY <1>2, <1>3 DEF Digest
<1> HIDE DEF e
<1>5. data.type = "lsaData" /\ (held >= 0 => data \in Packet)
  BY <1>4 DEF Packet
<1> HIDE DEF data
<1>6. out \in Seq(Packet) /\ Intact(out)
  <2>1. CASE out = <<>>
    BY <2>1 DEF Intact
  <2>2. CASE out = <<data>> /\ held >= 0
    BY <1>5, <2>2, IntactOne
  <2>3. QED
    BY <2>1, <2>2
<1> HIDE DEF out
<1>7. \A q \in Router : Intact(net'[q])
  BY <1>1, <1>6, IntactAnswer DEF Parts, Prepared
<1>8. QED
  BY <1>1, <1>7 DEF Prepared

LEMMA LsaDataPrepared ==
  ASSUME Parts, Prepared, NEW r \in Router, ReceiveLsaData(r)
  PROVE  Prepared'
<1> DEFINE d == Head(net[r]).lsa
           row == IF db[r][d.origin] < d.seq THEN [db[r] EXCEPT ![d.origin] = d.seq] ELSE db[r]
           n == cancelLsaInterestRequest(nbr[r], d)
           o == IF nbr[r].state \in AtLeastExchange THEN LoadingDone(n) ELSE nbr[r]
<1>1. /\ nbr[r] \in Object /\ Fit(nbr[r]) /\ net[r] # <<>> /\ Head(net[r]).type = "lsaData"
      /\ Commit(r, o, row) /\ Answer(r, <<>>) /\ UNCHANGED lapsed
  BY FitNow DEF ReceiveLsaData, Receives
<1>2. d \in Digest
  BY <1>1, HeadType, PacketCases DEF Parts
<1> HIDE DEF d
<1>3. n \in Object /\ Fit(n)
  BY <1>1, <1>2, CancelFit
<1> HIDE DEF n
<1>4. o \in Object /\ Fit(o)
  BY <1>1, <1>3, DoneKept, DoneFit DEF Kept
<1> HIDE DEF o, row
<1>5. \A q \in Router : Listed(nbr'[q])
  BY <1>1, <1>4, CommitPrepared DEF Parts, Fit
<1>6. <<>> \in Seq(Packet) /\ Intact(<<>>)
  BY DEF Intact
<1>7. \A q \in Router : Intact(net'[q])
  BY <1>1, <1>6, IntactAnswer DEF Parts, Prepared
<1>8. QED
  BY <1>1, <1>5, <1>7 DEF Prepared

\* Steps at one object that leave its place in the exchange alone, or none at all.
LEMMA ObjectPrepared ==
  ASSUME Parts, Prepared, UNCHANGED <<net, lapsed>>, NEW r \in Router, NEW n,
         nbr' = [nbr EXCEPT ![r] = n], n.state = nbr[r].state,
         n.sendingIndex = nbr[r].sendingIndex, n.summary = nbr[r].summary,
         n.ddList = nbr[r].ddList
  PROVE  Prepared'
<1>1. nbr \in [Router -> Object] /\ Listed(nbr[r])
  BY DEF Parts, ObjectsOK, Prepared
<1>2. Listed(n)
  BY <1>1 DEF Listed
<1>3. \A q \in Router : Listed(nbr'[q])
  BY <1>1, <1>2 DEF Prepared
<1>4. QED
  BY <1>3 DEF Prepared

LEMMA QueuePrepared ==
  ASSUME Parts, Prepared, UNCHANGED <<nbr, lapsed>>, NEW p \in Router, NEW s,
         net' = [net EXCEPT ![p] = s], Intact(s)
  PROVE  Prepared'
<1>1. net \in [Router -> Seq(Packet)]
  BY DEF Parts, NetOK
<1>2. \A q \in Router : Intact(net'[q])
  BY <1>1 DEF Prepared
<1>3. QED
  BY <1>2 DEF Prepared

LEMMA RetryPrepared ==
  ASSUME Parts, Prepared, NEW r \in Router, NEW t \in firing[r], RetryCallback(r, t)
  PROVE  Prepared'
<1> DEFINE next == [t EXCEPT !.count = @ + 1]
           again == next.count < MaxRetry /\ \A s \in nbr[r].timers : NameOf(s.pkt) # NameOf(t.pkt)
           timers == IF again THEN nbr[r].timers \cup {next} ELSE nbr[r].timers
           n == [nbr[r] EXCEPT !.timers = timers]
<1>1. /\ nbr[r] \in Object /\ t \in RetryTimer /\ nbr \in [Router -> Object]
      /\ nbr' = [nbr EXCEPT ![r] = n] /\ UNCHANGED lapsed
      /\ net' = [net EXCEPT ![Peer(r)] = Queue(Peer(r), <<t.pkt>>)]
  BY DEF Parts, ObjectsOK, RetryCallback
<1> HIDE DEF timers
<1>2. /\ n.state = nbr[r].state /\ n.sendingIndex = nbr[r].sendingIndex
      /\ n.summary = nbr[r].summary /\ n.ddList = nbr[r].ddList
  BY <1>1 DEF Object
<1> HIDE DEF n
<1>3. Listed(n)
  BY <1>2 DEF Prepared, Listed
<1>4. \A q \in Router : Listed(nbr'[q])
  BY <1>1, <1>3 DEF Prepared
<1>5. <<t.pkt>> \in Seq(Request)
  BY <1>1 DEF RetryTimer
<1>6. Peer(r) \in Router /\ net \in [Router -> Seq(Packet)]
  BY PeerType DEF Parts, NetOK
<1>7. Intact(Queue(Peer(r), <<t.pkt>>))
  BY <1>5, <1>6, RequestsIntact, IntactQueue DEF Parts, Prepared
<1>8. \A q \in Router : Intact(net'[q])
  BY <1>1, <1>6, <1>7 DEF Prepared
<1>9. QED
  BY <1>1, <1>4, <1>8 DEF Prepared

\* Every step uses up one fault or none.
LEMMA OneFault == Next => UNCHANGED used \/ \E f \in Fault : Spend(f)
<1> SUFFICES ASSUME Next PROVE UNCHANGED used \/ \E f \in Fault : Spend(f)
  OBVIOUS
<1>1. {"loss", "late", "early", "dead", "info", "differ", "drag"} = Fault
  BY DEF Fault
<1>2. ASSUME NEW r \in Router, Receive(r)
      PROVE  UNCHANGED used \/ Spend("differ") \/ Spend("drag")
  BY <1>2 DEF Receive, ReceiveHello, ReceiveDDInterest, ReceiveDDData, ReceiveLsaInterest,
     ReceiveLsaData, Reply
<1>3. ASSUME NEW r \in Router,
             \/ SendHello(r)
             \/ \E t \in firing[r] : RetryCallback(r, t)
             \/ InactivityCallback(r)
             \/ \E d \in requested[r] : FloodAnswer(r, d)
      PROVE  UNCHANGED used
  BY <1>3 DEF SendHello, RetryCallback, InactivityCallback, FloodAnswer
<1>4. ASSUME NEW r \in Router,
             \/ LsaTrigger(r)
             \/ \E t \in nbr[r].timers : RetryUp(r, t)
             \/ InactivityUp(r) \/ Lose(r)
             \/ \E o \in Origin : Info(r, [origin |-> o, seq |-> db[Peer(r)][o]])
      PROVE  UNCHANGED used \/ \E f \in {"early", "late", "dead", "loss", "info"} : Spend(f)
  BY <1>4 DEF LsaTrigger, RetryUp, InactivityUp, Lose, Info
<1>5. QED
  BY <1>1, <1>2, <1>3, <1>4 DEF Next

LEMMA FirstBefore == Parts /\ First' /\ [Next]_vars => First
<1> SUFFICES ASSUME Parts, First', [Next]_vars PROVE First
  OBVIOUS
<1>1. CASE UNCHANGED used
  BY <1>1 DEF First
<1>2. ASSUME NEW f \in Fault, Spend(f) PROVE First
  BY <1>2, SpendsOnce DEF Parts, First, Fault
<1>3. QED
  BY <1>1, <1>2, OneFault DEF vars

LEMMA PreparedStep ==
  ASSUME Parts, Prepared, First', [Next]_vars
  PROVE  Prepared'
<1>1. CASE UNCHANGED vars
  BY <1>1 DEF vars, Prepared
<1>2. ASSUME NEW r \in Router, Receive(r) PROVE Prepared'
  BY <1>2, HelloPrepared, DDInterestPrepared, DDDataPrepared, LsaInterestPrepared,
     LsaDataPrepared DEF Receive
<1>3. ASSUME NEW r \in Router, SendHello(r) PROVE Prepared'
  <2> DEFINE hello == Hello(nbr[r].state # "NONE", db[r])
  <2>1. net' = [net EXCEPT ![Peer(r)] = <<hello>>] /\ UNCHANGED <<nbr, lapsed>>
    BY <1>3 DEF SendHello
  <2>2. Intact(<<hello>>)
    BY DEF Intact, Hello
  <2> HIDE DEF hello
  <2>3. QED
    BY <2>1, <2>2, PeerType, QueuePrepared
<1>4. ASSUME NEW r \in Router, LsaTrigger(r) PROVE Prepared'
  <2> DEFINE n == [nbr[r] EXCEPT !.needTriggerLsa = FALSE]
  <2>1. nbr[r] \in Object /\ nbr' = [nbr EXCEPT ![r] = n] /\ UNCHANGED <<net, lapsed>>
    BY <1>4 DEF LsaTrigger, Parts, ObjectsOK
  <2>2. /\ n.state = nbr[r].state /\ n.sendingIndex = nbr[r].sendingIndex
        /\ n.summary = nbr[r].summary /\ n.ddList = nbr[r].ddList
    BY <2>1 DEF Object
  <2> HIDE DEF n
  <2>3. QED
    BY <2>1, <2>2, ObjectPrepared
<1>5. ASSUME NEW r \in Router, NEW t \in nbr[r].timers, RetryUp(r, t) PROVE Prepared'
  <2> DEFINE n == [nbr[r] EXCEPT !.timers = nbr[r].timers \ {t}]
  <2>1. nbr[r] \in Object /\ nbr' = [nbr EXCEPT ![r] = n] /\ UNCHANGED <<net, lapsed>>
    BY <1>5 DEF RetryUp, Parts, ObjectsOK
  <2>2. /\ n.state = nbr[r].state /\ n.sendingIndex = nbr[r].sendingIndex
        /\ n.summary = nbr[r].summary /\ n.ddList = nbr[r].ddList
    BY <2>1 DEF Object
  <2> HIDE DEF n
  <2>3. QED
    BY <2>1, <2>2, ObjectPrepared
<1>6. ASSUME NEW r \in Router, NEW t \in firing[r], RetryCallback(r, t) PROVE Prepared'
  BY <1>6, RetryPrepared
<1>7. ASSUME NEW r \in Router, InactivityUp(r) PROVE Prepared'
  <2>1. Spend("dead")
    BY <1>7 DEF InactivityUp
  <2>2. QED
    BY <2>1, SpendsOnce DEF Parts, First, Fault
<1>8. ASSUME NEW r \in Router, InactivityCallback(r) PROVE Prepared'
  BY <1>8 DEF InactivityCallback, Prepared
<1>9. ASSUME NEW r \in Router, Lose(r) PROVE Prepared'
  <2>1. net[r] # <<>> /\ net' = [net EXCEPT ![r] = Tail(net[r])] /\ UNCHANGED <<nbr, lapsed>>
    BY <1>9 DEF Lose
  <2>2. net[r] \in Seq(Packet) /\ Intact(net[r])
    BY DEF Parts, NetOK, Prepared
  <2>3. QED
    BY <2>1, <2>2, IntactTail, QueuePrepared
<1>10. ASSUME NEW r \in Router,
              \/ \E o \in Origin : Info(r, [origin |-> o, seq |-> db[Peer(r)][o]])
              \/ \E d \in requested[r] : FloodAnswer(r, d)
       PROVE  Prepared'
  <2>1. UNCHANGED <<nbr, net, lapsed>>
    BY <1>10 DEF Info, FloodAnswer
  <2>2. QED
    BY <2>1 DEF Prepared
<1>11. QED
  BY <1>1, <1>2, <1>3, <1>4, <1>5, <1>6, <1>7, <1>8, <1>9, <1>10 DEF Next

LEMMA FirstInit == Init => FirstInv
<1> SUFFICES ASSUME Init PROVE Prepared
  BY DEF FirstInv
<1>1. Listed(NoObject) /\ Intact(<<>>)
  BY DEF Listed, Intact, NoObject
<1>2. QED
  BY <1>1 DEF Init, Prepared

LEMMA FirstStep == Parts /\ FirstInv /\ [Next]_vars => FirstInv'
BY FirstBefore, PreparedStep DEF FirstInv

\* As long as no neighbour has been Down and none has gone back from Full to Exchange,
\* a request that passes the check is answered with a pack that exists, for every pair
\* of databases, whatever is lost, sent again, or begun anew.
THEOREM DescriptionsExistFirst == Spec => []DescriptionsExistAtFirst
<1>1. Init => Parts /\ FirstInv
  BY InitInv, InvParts, FirstInit
<1>2. Parts /\ FirstInv /\ [Next]_vars => Parts' /\ FirstInv'
  BY PartsKept, FirstStep
<1>3. FirstInv => DescriptionsExistAtFirst
  BY DEF FirstInv, First, Prepared, Intact, DescriptionsExistAtFirst, DescriptionsExist
<1>4. QED
  BY <1>1, <1>2, <1>3, PTL DEF Spec
=============================================================================
