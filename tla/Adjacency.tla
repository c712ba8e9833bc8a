------------------------------ MODULE Adjacency ------------------------------
(***************************************************************************)
(* Two routers at the ends of a link become neighbours: hello packets, the *)
(* exchange of database descriptions, the loading of the LSAs that were    *)
(* described, and the fall back when the databases turn out to differ.     *)
(*                                                                         *)
(* One action is one handler run under NdnRoutingProtocol::mutexLock.  The *)
(* methods of NdnRoutingNeighbor are operators that take the neighbour     *)
(* object and return it changed; its field out collects what they send.    *)
(* The link is point to point and read by one thread: packets arrive in    *)
(* the order they were sent in, unless they are lost.                      *)
(*                                                                         *)
(* Router ids are drawn anew whenever the program starts, so a router that *)
(* restarts is another router.  Nothing raises INTERFACE_DOWN (the handler *)
(* of NIC events is empty), so neighbour objects are never removed.  All   *)
(* LSAs are adjacency LSAs: nothing generates the other kind.              *)
(***************************************************************************)
EXTENDS Integers, Sequences, FiniteSets, FiniteSetsExt

CONSTANTS
  A, B,        \* the two routers
  Others,      \* routers elsewhere whose LSAs are in the databases
  InitialSeq,  \* InitialSeq[r][o]: version of o's LSA at r, -1 if it has none
  MaxRetry,    \* retransmissions of a request (3 in the code)
  MaxQueue,    \* packets the socket of a router holds; those beyond are lost
  Limit,       \* Limit[f]: how often fault f may happen
  MaxFaults    \* faults in all

Router == {A, B}
Peer(r) == IF r = A THEN B ELSE A
Origin == Router \cup Others

\* loss: of a packet; late: a retransmission although the answer is under way;
\* early: the 15 s timer of a neighbour object fires before it has become full;
\* dead: 40 s without a hello; info: an LSA announced by flooding; differ: all
\* neighbours full, nothing requested, and yet another database than the peer's;
\* drag: a request or description out of order, after which both ends start again;
\* that is no fault, but it repeats itself and fills the queues.  Where the bound on
\* it is reached the packet stays unread.
Fault == {"loss", "late", "early", "dead", "info", "differ", "drag"}

ASSUME RouterAssumption == A # B /\ IsFiniteSet(Others)
\* What anybody holds of a router's own LSA has been issued by that router.
ASSUME DatabaseAssumption ==
  /\ InitialSeq \in [Router -> [Origin -> Nat \cup {-1}]]
  /\ \A r \in Router : InitialSeq[Peer(r)][r] <= InitialSeq[r][r]
ASSUME BoundAssumption ==
  MaxRetry \in Nat \ {0} /\ MaxQueue \in Nat \ {0} /\ Limit \in [Fault -> Nat]
  /\ MaxFaults \in Nat

VARIABLES
  nbr,        \* nbr[r]: the object r has for its peer
  db,         \* db[r][o]: version of o's LSA in the database of r, or -1
  requested,  \* broadcastLsaPendingRequestList of r
  net,        \* net[r]: packets on their way to r
  firing,     \* retransmission timers whose callback waits for mutexLock
  lapsed,     \* lapsed[r]: so does the callback of the inactivity timer
  used        \* used[f]: how often fault f has happened

vars == <<nbr, db, requested, net, firing, lapsed, used>>

Digest == [origin : Origin, seq : Nat]
Pack == [ls : Seq(Digest), total : Nat]
DDInterest(i) == [type |-> "ddInterest", index |-> i]
LsaInterest(d) == [type |-> "lsaInterest", lsa |-> d]
Hello(heard, hash) == [type |-> "hello", heard |-> heard, hash |-> hash]

\* Names of the retransmission timers: that of a request for an LSA holds its
\* sequence number but not its origin.
NameOf(pkt) == IF pkt.type = "ddInterest" THEN <<"dd", pkt.index>> ELSE <<"lsa", pkt.lsa.seq>>

NoObject ==
  [state |-> "NONE", summary |-> <<>>, ddList |-> <<>>, pending |-> <<>>,
   receivingIndex |-> 0, sendingIndex |-> 0,
   timers |-> {},             \* retransmission timers that are running
   activeTimers |-> {},       \* names the object remembers for clear()
   watched |-> FALSE,         \* is the inactivity timer running?
   needTriggerLsa |-> FALSE,  \* does the timer of the constructor still count?
   described |-> {},          \* history: digests the peer has described since clear()
   out |-> <<>>]

Init ==
  /\ nbr = [r \in Router |-> NoObject]
  /\ db = InitialSeq
  /\ requested = [r \in Router |-> {}]
  /\ net = [r \in Router |-> <<>>]
  /\ firing = [r \in Router |-> {}]
  /\ lapsed = [r \in Router |-> FALSE]
  /\ used = [f \in Fault |-> 0]

FaultCount == MapThenSumSet(LAMBDA g : used[g], Fault)
Spend(f) ==
  /\ used[f] < Limit[f]
  /\ FaultCount < MaxFaults
  /\ used' = [used EXCEPT ![f] = @ + 1]

-----------------------------------------------------------------------------
(***************************************************************************)
(* Methods of NdnRoutingNeighbor and its states.                           *)
(***************************************************************************)

\* startTimer for the requests of a sequence: refused for a name that is running.
Started(timers, req) ==
  LET Taken(i) == \/ \E t \in timers : NameOf(t.pkt) = NameOf(req[i])
                  \/ \E j \in 1 .. i - 1 : NameOf(req[j]) = NameOf(req[i])
  IN timers \cup {[pkt |-> req[i], count |-> 0] : i \in {j \in DOMAIN req : ~Taken(j)}}

Ask(o, req) ==
  [o EXCEPT !.timers = Started(@, req), !.out = @ \o req,
            !.activeTimers = @ \cup {NameOf(req[i]) : i \in DOMAIN req}]

deleteTimer(o, name) ==
  [o EXCEPT !.timers = {t \in @ : NameOf(t.pkt) # name}, !.activeTimers = @ \ {name}]

\* clear cancels what activeTimers names, the inactivity timer included.
clear(o) ==
  [o EXCEPT !.timers = {t \in @ : NameOf(t.pkt) \notin o.activeTimers},
            !.watched = FALSE, !.summary = <<>>, !.ddList = <<>>, !.pending = <<>>,
            !.receivingIndex = 0, !.sendingIndex = 0, !.described = {}]

sendDDInterest(o) == Ask(o, <<DDInterest(o.receivingIndex)>>)

\* The possible values of databaseSummary: the database in some order.
Summaries(row) ==
  LET held == {[origin |-> o, seq |-> row[o]] : o \in {x \in Origin : row[x] >= 0}}
  IN {s \in [1 .. Cardinality(held) -> held] : \A d \in held : \E i \in DOMAIN s : s[i] = d}

\* Two-way in Init, or a wrong hash in Full.
Exchange(o, summary) ==
  [sendDDInterest([o EXCEPT !.summary = summary]) EXCEPT !.state = "EXCHANGE"]

AtLeastExchange == {"EXCHANGE", "LOADING", "FULL"}
OneWay(o) == IF o.state \in AtLeastExchange THEN [clear(o) EXCEPT !.state = "INIT"] ELSE o

HelloReceived(o) ==
  [o EXCEPT !.state = IF @ \in {"NONE", "DOWN"} THEN "INIT" ELSE @, !.watched = TRUE,
            !.needTriggerLsa = @ \/ o.state = "NONE"]

dragPeerToInit(o) ==
  LET n == OneWay(clear(o)) IN [n EXCEPT !.out = Append(@, Hello(FALSE, <<>>))]

Full(o) == [o EXCEPT !.state = "FULL", !.needTriggerLsa = FALSE]
\* (Variants for the mutation runs: Loading is entered with nothing to load; Full is
\* entered although other LSAs are still being loaded.)
ExchangeDoneAlways(o) == IF o.state = "EXCHANGE" THEN [o EXCEPT !.state = "LOADING"] ELSE o
LoadingDoneEarly(o) == IF o.state = "LOADING" THEN Full(o) ELSE o

ExchangeDone(o) ==
  CASE o.state # "EXCHANGE" -> o
    [] o.state = "EXCHANGE" /\ o.pending # <<>> -> [o EXCEPT !.state = "LOADING"]
    [] o.state = "EXCHANGE" /\ o.pending = <<>> -> Full(o)
LoadingDone(o) == IF o.state = "LOADING" /\ o.pending = <<>> THEN Full(o) ELSE o

\* (Variant for the mutation runs: an empty summary makes no pack.)
PackedNone(ddList, summary) ==
  LET n == Len(summary)
      longer == ddList \o [i \in 1 .. n |-> [ls |-> <<>>, total |-> n]]
  IN [i \in DOMAIN longer |->
        IF i <= n THEN [longer[i] EXCEPT !.ls = Append(@, summary[i])] ELSE longer[i]]

\* The answer to request 0 adds one pack per digest to ddList, then writes the
\* digests into the first packs of the list, which may be older ones.
Packed(ddList, summary) ==
  LET n == Len(summary)
      fresh == [i \in 1 .. n |-> [ls |-> <<>>, total |-> n]]
      longer == ddList \o (IF n = 0 THEN <<[ls |-> <<>>, total |-> 0]>> ELSE fresh)
  IN [i \in DOMAIN longer |->
        IF i <= n THEN [longer[i] EXCEPT !.ls = Append(@, summary[i])] ELSE longer[i]]

Legal(o, index) ==
  /\ index \in {o.sendingIndex, o.sendingIndex - 1}
  /\ index = 0 \/ index < Len(o.summary)

\* What lies behind the end of ddList is read as a pack all the same; whatever it
\* is, its signature is not the one the peer expects.
sendDDData(o, index) ==
  LET list == IF index = 0 THEN Packed(o.ddList, o.summary) ELSE o.ddList
      intact == index < Len(list)
      pack == IF intact THEN list[index + 1] ELSE [ls |-> <<>>, total |-> 0]
  IN [o EXCEPT !.ddList = list, !.sendingIndex = index + 1,
               !.out = Append(@, [type |-> "ddData", index |-> index, intact |-> intact,
                                  ls |-> pack.ls, total |-> pack.total])]

\* Takes the first request that an LSA answers off localLsaPendingRequestList.
Without(pending, d) ==
  LET hits == {i \in DOMAIN pending : pending[i].origin = d.origin /\ pending[i].seq <= d.seq}
      first == CHOOSE i \in hits : \A j \in hits : i <= j
  IN IF hits = {} THEN pending
     ELSE [i \in 1 .. Len(pending) - 1 |-> IF i < first THEN pending[i] ELSE pending[i + 1]]

cancelLsaInterestRequest(o, d) ==
  [deleteTimer(o, <<"lsa", d.seq>>) EXCEPT !.pending = Without(@, d)]

-----------------------------------------------------------------------------
(***************************************************************************)
(* Handlers of packets.                                                    *)
(***************************************************************************)

\* The handler at r leaves the object o; row is the database before the object
\* became full, which makes the router issue a new version of its own LSA.  Names
\* of timers that are gone are dropped from activeTimers: to cancel them is no-op.
Commit(r, o, row) ==
  /\ nbr' = [nbr EXCEPT ![r] =
       [o EXCEPT !.out = <<>>, !.activeTimers = @ \cap {NameOf(t.pkt) : t \in o.timers \cup firing[r]}]]
  /\ db' = [db EXCEPT ![r] =
       IF o.state = "FULL" /\ nbr[r].state # "FULL" THEN [row EXCEPT ![r] = @ + 1] ELSE row]

Receives(r, type) == net[r] # <<>> /\ Head(net[r]).type = type
Queue(q, out) ==
  LET all == net[q] \o out IN IF Len(all) > MaxQueue THEN SubSeq(all, 1, MaxQueue) ELSE all
Answer(r, out) == net' = [net EXCEPT ![r] = Tail(@), ![Peer(r)] = Queue(Peer(r), out)]
Handled(r, o) == Commit(r, o, db[r]) /\ Answer(r, o.out)

\* HelloController.  The hash matters only if the router's other neighbours are full.
ReceiveHello(r) ==
  LET m == Head(net[r])
      o == HelloReceived(nbr[r])
  IN /\ Receives(r, "hello")
     /\ \/ /\ m.heard /\ o.state = "INIT"
           /\ \E summary \in Summaries(db[r]) : Handled(r, Exchange(o, summary))
           /\ UNCHANGED used
        \/ /\ m.heard /\ o.state = "FULL" /\ requested[r] = {} /\ m.hash # db[r]
           /\ \E summary \in Summaries(db[r]) : Handled(r, Exchange(o, summary))
           /\ Spend("differ")
        \/ /\ m.heard /\ o.state # "INIT"
           /\ Handled(r, o)
           /\ UNCHANGED used
        \/ /\ ~m.heard
           /\ Handled(r, OneWay(o))
           /\ UNCHANGED used
     /\ UNCHANGED <<requested, firing, lapsed>>

\* DDController::onReceiveInterest: o is the object in Exchange or beyond.
Reply(r, o, index) ==
  \/ Legal(o, index) /\ Handled(r, sendDDData(o, index)) /\ UNCHANGED used
  \/ ~Legal(o, index) /\ Handled(r, dragPeerToInit(o)) /\ Spend("drag")

ReceiveDDInterest(r) ==
  LET index == Head(net[r]).index
  IN /\ Receives(r, "ddInterest")
     /\ \/ /\ nbr[r].state = "NONE"
           /\ Answer(r, <<>>) /\ UNCHANGED <<nbr, db, used>>
        \/ /\ nbr[r].state = "INIT"
           /\ \E summary \in Summaries(db[r]) : Reply(r, Exchange(nbr[r], summary), index)
        \/ /\ nbr[r].state \notin {"NONE", "INIT"}
           /\ Reply(r, nbr[r], index)
     /\ UNCHANGED <<requested, firing, lapsed>>

\* DDController::onReceiveData.  A state other than Exchange is only logged.  The
\* digests asked for are those of LSAs the router does not have, or has in an older
\* version that flooding has not been asked for; they are asked for in order.
Missing(r, d) == db[r][d.origin] = -1 \/ (db[r][d.origin] < d.seq /\ d \notin requested[r])

Accept(r, o, m) ==
  LET wanted == {i \in DOMAIN m.ls : Missing(r, m.ls[i])}
      done == m.total \in {0, o.receivingIndex + 1}
  IN \E pos \in [1 .. Cardinality(wanted) -> wanted] :
       /\ \A i \in wanted : \E k \in DOMAIN pos : pos[k] = i
       /\ \A k, l \in DOMAIN pos : k < l => pos[k] < pos[l]
       /\ LET asked == [k \in DOMAIN pos |-> m.ls[pos[k]]]
              n == Ask([o EXCEPT !.pending = @ \o asked, !.receivingIndex = @ + 1,
                          !.described = @ \cup
                             {m.ls[i] : i \in {j \in DOMAIN m.ls : m.ls[j] \notin requested[r]}}],
                       [k \in DOMAIN asked |-> LsaInterest(asked[k])])
          IN Handled(r, IF done THEN ExchangeDone(n) ELSE sendDDInterest(n))

ReceiveDDData(r) ==
  LET m == Head(net[r])
      o == nbr[r]
      n == deleteTimer(o, <<"dd", m.index>>)
  IN /\ Receives(r, "ddData")
     /\ \/ /\ o.state = "NONE" \/ m.index < o.receivingIndex
           /\ Handled(r, o) /\ UNCHANGED used
        \/ /\ o.state # "NONE" /\ m.index > o.receivingIndex
           /\ Handled(r, dragPeerToInit(o)) /\ Spend("drag")
        \/ /\ o.state # "NONE" /\ m.index = o.receivingIndex
           /\ IF m.intact THEN Accept(r, n, m) ELSE Handled(r, n)
           /\ UNCHANGED used
     /\ UNCHANGED <<requested, firing, lapsed>>

\* LsaController::onReceiveInterest, local: the version held is sent, whichever
\* was asked for.
ReceiveLsaInterest(r) ==
  LET d == Head(net[r]).lsa
      held == db[r][d.origin]
      data == [type |-> "lsaData", lsa |-> [origin |-> d.origin, seq |-> held]]
  IN /\ Receives(r, "lsaInterest")
     /\ Answer(r, IF nbr[r].state # "NONE" /\ held >= 0 THEN <<data>> ELSE <<>>)
     /\ UNCHANGED <<nbr, db, requested, firing, lapsed, used>>

\* (Variant: what was asked for is stored, whatever flooding has brought since.)
StoreAlways(r) ==
  LET d == Head(net[r]).lsa
      o == IF nbr[r].state \in AtLeastExchange
           THEN LoadingDone(cancelLsaInterestRequest(nbr[r], d)) ELSE nbr[r]
  IN /\ Receives(r, "lsaData")
     /\ Commit(r, o, [db[r] EXCEPT ![d.origin] = d.seq]) /\ Answer(r, <<>>)
     /\ UNCHANGED <<requested, firing, lapsed, used>>

\* LsaController::onReceiveData, local.
ReceiveLsaData(r) ==
  LET d == Head(net[r]).lsa
      row == IF db[r][d.origin] < d.seq THEN [db[r] EXCEPT ![d.origin] = d.seq] ELSE db[r]
      o == IF nbr[r].state \in AtLeastExchange
           THEN LoadingDone(cancelLsaInterestRequest(nbr[r], d)) ELSE nbr[r]
  IN /\ Receives(r, "lsaData")
     /\ Commit(r, o, row) /\ Answer(r, <<>>)
     /\ UNCHANGED <<requested, firing, lapsed, used>>

-----------------------------------------------------------------------------
(***************************************************************************)
(* Timers.                                                                 *)
(***************************************************************************)

\* The periodic hello lists the peer if there is an object for it, in any state.
\* In 10 s the link delivers what is under way.
SendHello(r) ==
  /\ net[Peer(r)] = <<>>
  /\ net' = [net EXCEPT ![Peer(r)] = <<Hello(nbr[r].state # "NONE", db[r])>>]
  /\ UNCHANGED <<nbr, db, requested, firing, lapsed, used>>

\* The timer every neighbour object starts when it is constructed.
LsaTrigger(r) ==
  /\ nbr[r].needTriggerLsa
  /\ Spend("early")
  /\ nbr' = [nbr EXCEPT ![r].needTriggerLsa = FALSE]
  /\ db' = [db EXCEPT ![r][r] = @ + 1]
  /\ UNCHANGED <<requested, net, firing, lapsed>>

Quiet == \A r \in Router : \A i \in DOMAIN net[r] : net[r][i].type = "hello"

RetryUp(r, t) ==
  /\ t \in nbr[r].timers
  /\ nbr' = [nbr EXCEPT ![r].timers = @ \ {t}]
  /\ firing' = [firing EXCEPT ![r] = @ \cup {t}]
  /\ IF Quiet THEN UNCHANGED used ELSE Spend("late")
  /\ UNCHANGED <<db, requested, net, lapsed>>

\* (Variant: one retransmission too many.)
RetryOnceMore(r, t) ==
  LET next == [t EXCEPT !.count = @ + 1]
      again == next.count <= MaxRetry /\ \A s \in nbr[r].timers : NameOf(s.pkt) # NameOf(t.pkt)
  IN /\ t \in firing[r]
     /\ firing' = [firing EXCEPT ![r] = @ \ {t}]
     /\ net' = [net EXCEPT ![Peer(r)] = Queue(Peer(r), <<t.pkt>>)]
     /\ nbr' = [nbr EXCEPT ![r].timers = IF again THEN @ \cup {next} ELSE @]
     /\ UNCHANGED <<db, requested, lapsed, used>>

\* (Variant: only the exchange retransmits.)
RetryInExchange(r, t) ==
  /\ t \in firing[r]
  /\ firing' = [firing EXCEPT ![r] = @ \ {t}]
  /\ net' = IF nbr[r].state = "EXCHANGE"
            THEN [net EXCEPT ![Peer(r)] = Queue(Peer(r), <<t.pkt>>)] ELSE net
  /\ UNCHANGED <<nbr, db, requested, lapsed, used>>

\* ddInterestExpireCronJob and localLsaExpireCronJob.
RetryCallback(r, t) ==
  LET next == [t EXCEPT !.count = @ + 1]
      again == next.count < MaxRetry /\ \A s \in nbr[r].timers : NameOf(s.pkt) # NameOf(t.pkt)
  IN /\ t \in firing[r]
     /\ firing' = [firing EXCEPT ![r] = @ \ {t}]
     /\ net' = [net EXCEPT ![Peer(r)] = Queue(Peer(r), <<t.pkt>>)]
     /\ nbr' = [nbr EXCEPT ![r].timers = IF again THEN @ \cup {next} ELSE @]
     /\ UNCHANGED <<db, requested, lapsed, used>>

\* 40 s without a hello: nothing that was sent before is still under way.
InactivityUp(r) ==
  /\ nbr[r].watched /\ ~lapsed[r] /\ net[r] = <<>>
  /\ nbr' = [nbr EXCEPT ![r].watched = FALSE]
  /\ lapsed' = [lapsed EXCEPT ![r] = TRUE]
  /\ Spend("dead")
  /\ UNCHANGED <<db, requested, net, firing>>

\* neighborInactivityCronJob.
InactivityCallback(r) ==
  /\ lapsed[r]
  /\ lapsed' = [lapsed EXCEPT ![r] = FALSE]
  /\ nbr' = [nbr EXCEPT ![r] =
       IF @.state = "DOWN" THEN @ ELSE [clear(@) EXCEPT !.state = "DOWN"]]
  /\ UNCHANGED <<db, requested, net, firing, used>>

-----------------------------------------------------------------------------
(***************************************************************************)
(* The network, and the flooding of LSAs that runs beside the exchange.    *)
(***************************************************************************)
Lose(r) ==
  /\ net[r] # <<>>
  /\ net' = [net EXCEPT ![r] = Tail(@)]
  /\ Spend("loss")
  /\ UNCHANGED <<nbr, db, requested, firing, lapsed>>

\* InfoController: a version newer than the one held is requested.
Info(r, d) ==
  /\ d.origin # r /\ db[r][d.origin] < d.seq /\ d \notin requested[r]
  /\ requested' = [requested EXCEPT ![r] = @ \cup {d}]
  /\ Spend("info")
  /\ UNCHANGED <<nbr, db, net, firing, lapsed>>

\* The request of flooding is answered with that version, with an empty packet, or
\* given up after its retransmissions.
FloodAnswer(r, d) ==
  /\ d \in requested[r]
  /\ requested' = [requested EXCEPT ![r] = @ \ {d}]
  /\ db' \in {db, IF db[r][d.origin] < d.seq THEN [db EXCEPT ![r][d.origin] = d.seq] ELSE db}
  /\ UNCHANGED <<nbr, net, firing, lapsed, used>>

Receive(r) ==
  \/ ReceiveHello(r)
  \/ ReceiveDDInterest(r) \/ ReceiveDDData(r)
  \/ ReceiveLsaInterest(r) \/ ReceiveLsaData(r)

Next ==
  \E r \in Router :
    \/ Receive(r)
    \/ SendHello(r) \/ LsaTrigger(r)
    \/ \E t \in nbr[r].timers : RetryUp(r, t)
    \/ \E t \in firing[r] : RetryCallback(r, t)
    \/ InactivityUp(r) \/ InactivityCallback(r)
    \/ Lose(r)
    \/ \E o \in Origin : Info(r, [origin |-> o, seq |-> db[Peer(r)][o]])
    \/ \E d \in requested[r] : FloodAnswer(r, d)

Spec == Init /\ [][Next]_vars

\* The reader thread takes the next packet, the periodic hello is sent, and a timer
\* thread that has slept its time runs and gets the lock.
FairSpec ==
  /\ Spec
  /\ \A r \in Router :
       /\ WF_vars(Receive(r)) /\ WF_vars(SendHello(r))
       /\ WF_vars(\E t \in nbr[r].timers : RetryUp(r, t))
       /\ WF_vars(\E t \in firing[r] : RetryCallback(r, t))
       /\ WF_vars(InactivityCallback(r))

-----------------------------------------------------------------------------
(***************************************************************************)
(* Properties.                                                             *)
(***************************************************************************)

State == {"NONE", "DOWN", "INIT", "EXCHANGE", "LOADING", "FULL"}
Row == [Origin -> Nat \cup {-1}]
Request == [type : {"ddInterest"}, index : Nat] \cup [type : {"lsaInterest"}, lsa : Digest]
RequestName == {"dd", "lsa"} \X Nat
RetryTimer == [pkt : Request, count : 0 .. MaxRetry - 1]
\* What a neighbour object sends; LSAs are sent by LsaController.
Message == Request
  \cup [type : {"hello"}, heard : BOOLEAN, hash : Row \cup {<<>>}]
  \cup [type : {"ddData"}, index : Nat, intact : BOOLEAN, ls : Seq(Digest), total : Nat]
Packet == Message \cup [type : {"lsaData"}, lsa : Digest]
Object ==
  [state : State, summary : Seq(Digest), ddList : Seq(Pack), pending : Seq(Digest),
   receivingIndex : Nat, sendingIndex : Nat, timers : SUBSET RetryTimer,
   activeTimers : SUBSET RequestName, watched : BOOLEAN, needTriggerLsa : BOOLEAN,
   described : SUBSET Digest, out : Seq(Message)]

TypeOK ==
  /\ nbr \in [Router -> Object] /\ \A r \in Router : nbr[r].out = <<>>
  /\ db \in [Router -> Row]
  /\ requested \in [Router -> SUBSET Digest]
  /\ net \in [Router -> Seq(Packet)] /\ \A r \in Router : Len(net[r]) <= MaxQueue
  /\ firing \in [Router -> SUBSET RetryTimer]
  /\ lapsed \in [Router -> BOOLEAN]
  /\ used \in [Fault -> Nat] /\ \A f \in Fault : used[f] <= Limit[f]

\* A router becomes fully adjacent only when it holds every LSA version its peer
\* has described in this exchange, whatever was lost, repeated, or superseded in
\* the meantime (versions already requested by flooding are left to it).
FullMeansHeld ==
  [][\A r \in Router :
       nbr[r].state # "FULL" /\ nbr'[r].state = "FULL" =>
         \A d \in nbr'[r].described : db'[r][d.origin] >= d.seq]_vars

\* Exchange, loading and flooding together keep what flooding alone promises (module
\* Dissemination), for the LSA of every router: whatever is requested twice, answered
\* late or overtaken by a newer version, no database falls back to an older version,
\* and none gets ahead of the router that issues it.  Of a router elsewhere no more
\* is known than the newest version that reached either database.
Newest(o) ==
  IF o \in Router THEN db[o][o]
  ELSE IF InitialSeq[A][o] <= InitialSeq[B][o] THEN InitialSeq[B][o] ELSE InitialSeq[A][o]
HeldOf(o) == [r \in Router \cup {o} |-> IF r \in Router THEN db[r][o] ELSE Newest(o)]
D(o) == INSTANCE Dissemination
          WITH Router <- Router \cup {o}, Origin <- o, held <- HeldOf(o)
Forward == \A o \in Origin : D(o)!Next \/ UNCHANGED HeldOf(o)
Starts == \A o \in Origin : D(o)!Init
Disseminates == Starts /\ [][Forward]_db

\* A router in Loading has something left to load, else nothing would ever take
\* it out: LOADING_DONE is raised only when a request is taken off the list.
LoadingWaits == \A r \in Router : nbr[r].state = "LOADING" => nbr[r].pending # <<>>

\* In the end both routers regard each other as full and stay so.
AdjacencyForms == <>[](\A r \in Router : nbr[r].state = "FULL")

\* "Check whether requestIndex is legal" (NdnRoutingNeighbor.cpp:138): a request
\* that passes the check is answered with a pack of ddList.
DescriptionsExist ==
  \A r \in Router : \A i \in DOMAIN net[r] :
    net[r][i].type = "ddData" => net[r][i].intact

\* It is answered so as long as no neighbour has been Down, where request 0 is
\* answered although nothing has been summarised (DDController.cpp:32), and none has
\* gone back from Full to Exchange: every other way into an exchange, through
\* whatever losses, repetitions and restarts, goes by clear().
DescriptionsExistAtFirst ==
  used["dead"] = 0 /\ used["differ"] = 0 => DescriptionsExist
=============================================================================
