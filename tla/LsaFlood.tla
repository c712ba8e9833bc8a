------------------------------ MODULE LsaFlood ------------------------------
(***************************************************************************)
(* How the versions of one router's link state advertisement spread: INFO  *)
(* announcements down the registered sons, hop requests up the registered  *)
(* parents, their marks and retransmission timers, and the answers coming  *)
(* back through the pending-interest tables (InfoController, LsaController,*)
(* infoLsaExpireCronJob).  Every key of the code carries type and origin,  *)
(* so one origin and one type stand for all.                               *)
(*                                                                         *)
(* Links are point to point.  A packet that goes up runs the forwarder and *)
(* the handler in one action: the sockets have one reader, and a handler   *)
(* holds mutexLock to its end.  Registrations travel reliably and in order *)
(* here: Registration is about the ways in which they do not.              *)
(***************************************************************************)
EXTENDS Integers, FiniteSets

CONSTANTS
  Router,
  Origin,      \* the router whose advertisement spreads
  Neighbours,  \* Neighbours[r]: the routers r shares a link with
  Closer,      \* Closer[r]: those a tree rooted at Origin can give r as parent
  None,        \* no parent
  MaxRetry,    \* retransmissions of a request (3 in the code)
  MaxSeq,      \* bound on the versions issued
  Scenarios    \* the version a behaviour finds at Origin, the kinds of its faults, and bounds
               \* on the number of faults, exchanges and rebuilds that give a first parent

Fault == {"lose", "early", "forget", "move"}
Scenario == [first : {-1, 0}, kinds : SUBSET Fault,
             faults : Nat, exchanges : Nat, rebuilds : Nat]

ASSUME GraphAssumption ==
  /\ Origin \in Router /\ None \notin Router
  /\ Neighbours \in [Router -> SUBSET Router]
  /\ \A r \in Router : r \notin Neighbours[r] /\ \A q \in Neighbours[r] : r \in Neighbours[q]
  /\ Closer \in [Router -> SUBSET Router] /\ Closer[Origin] = {}
  /\ \A r \in Router : Closer[r] \subseteq Neighbours[r]
ASSUME BoundAssumption ==
  /\ MaxRetry \in Nat \ {0} /\ MaxSeq \in Nat
  /\ Scenarios \subseteq Scenario

Seq0 == 0 .. MaxSeq
Held == Seq0 \cup {-1}          \* -1: no advertisement (findLsa gives nullptr)
Nonce == Router \X Nat
Face == Router                  \* a neighbour, or the router itself for NDN_ROUTING

VARIABLES
  db,       \* db[r]: sequence number of the advertisement r holds
  pending,  \* pending[r]: broadcastLsaPendingRequestList
  armed,    \* running global_lsa_interest timers
  firing,   \* timers that fired and whose callback waits for mutexLock
  pit,      \* pit[r][v]: in-records <<face, nonce>> of the name of version v
  dead,     \* dead[r]: pairs <<version, nonce>> in the dead nonce list
  sent,     \* sent[r]: requests r has drawn a nonce for
  parent,   \* parent[r]: registered parent
  sons,     \* sons[r]: registered sons
  known,    \* known[r]: neighbours r has an object for
  net,      \* packets in transit
  missed,   \* history: missed[r]: versions r was not told of, or gave up on
  budget    \* the scenario, with what is left of its bounds

forwarderVars == <<pit, dead>>
timerVars == <<armed, firing>>
treeVars == <<parent, sons, known>>
vars == <<db, pending, timerVars, forwarderVars, sent, treeVars, net, missed, budget>>

Retry == [router : Router, seq : Seq0, to : SUBSET Router, count : 0 .. MaxRetry - 1]
Packet ==
  [type : {"info"}, from : Router, to : Router, seq : Seq0]
  \cup [type : {"request"}, from : Router, to : Router, seq : Seq0, nonce : Nonce]
  \cup [type : {"data", "local"}, from : Router, to : Router, seq : Seq0, held : Held]
  \cup [type : {"register", "deregister", "offer"}, from : Router, to : Router, seq : Held]

Init ==
  /\ budget \in Scenarios
  /\ db = [r \in Router |-> IF r = Origin THEN budget.first ELSE -1]
  /\ pending = [r \in Router |-> {}]
  /\ armed = {} /\ firing = {}
  /\ pit = [r \in Router |-> [v \in Seq0 |-> {}]]
  /\ dead = [r \in Router |-> {}]
  /\ sent = [r \in Router |-> 0]
  /\ parent = [r \in Router |-> None]
  /\ sons = [r \in Router |-> {}]
  /\ known = Neighbours
  /\ net = {}
  /\ missed = [r \in Router |-> {}]

Spend(what) == budget[what] > 0 /\ budget' = [budget EXCEPT ![what] = @ - 1]
Disturb(kind) == kind \in budget.kinds /\ Spend("faults")

-----------------------------------------------------------------------------
(***************************************************************************)
(* Announcements.                                                          *)
(***************************************************************************)
Info(r, S, v) == {[type |-> "info", from |-> r, to |-> s, seq |-> v] : s \in S}

\* Sons r has no neighbour object for are left out.
sendInfoToChildren(r, v) == Info(r, sons[r] \cap known[r], v)
sendInfoToAll(r, v, except) == Info(r, Neighbours[r] \ {except}, v)

Miss(S, v) == missed' = [r \in Router |-> IF r \in S THEN missed[r] \cup {v} ELSE missed[r]]

\* triggerNewLsa.
Issue ==
  LET v == db[Origin] + 1
  IN /\ v <= MaxSeq
     /\ db' = [db EXCEPT ![Origin] = v]
     /\ net' = net \cup sendInfoToChildren(Origin, v)
     /\ Miss(sons[Origin] \ known[Origin], v)
     /\ UNCHANGED <<pending, timerVars, forwarderVars, sent, treeVars, budget>>

\* The parent of r becomes another that some tree gives, or none.  The advertisement
\* of Origin need not be there for that: a link to Origin in another router's will do
\* (calculateMinHopTree), and seq, what r holds by now, may be -1.  rest is what is in
\* transit besides what this sends.
ChangeParent(r, seq, rest) ==
  \E q \in (Closer[r] \cup {None}) \ {parent[r]} :
    /\ \A m \in net : m.type \in {"register", "deregister"} => m.from # r
    /\ parent' = [parent EXCEPT ![r] = q]
    /\ net' = rest
         \cup {[type |-> "register", from |-> r, to |-> p, seq |-> seq] :
                 p \in {q} \cap known[r]}
         \cup {[type |-> "deregister", from |-> r, to |-> p, seq |-> seq] :
                 p \in {parent[r]} \cap known[r]}

\* registerParents ends every rebuild.  The tree depends on the advertisements of
\* all routers, so the parent stays or changes.
registerParents(r, seq, rest) ==
  \/ net' = rest /\ UNCHANGED <<parent, budget>>
  \/ /\ ChangeParent(r, seq, rest)
     /\ IF parent[r] = None THEN UNCHANGED budget ELSE Disturb("move")

\* (Variant for the mutation runs: whatever is not what r holds replaces it.)
AcceptAny(r, v, src, rest) ==
  /\ db' = [db EXCEPT ![r] = v]
  /\ \/ db[r] = -1 /\ registerParents(r, v, rest \cup sendInfoToAll(r, v, src)) /\ UNCHANGED missed
     \/ /\ db[r] # -1 /\ registerParents(r, v, rest \cup sendInfoToChildren(r, v))
        /\ Miss(sons[r] \ known[r], v)

\* An advertisement of version v has come from src.  Sons are told of v even when
\* it is not new.
Accept(r, v, src, rest) ==
  \/ /\ db[r] = -1
     /\ db' = [db EXCEPT ![r] = v]
     /\ registerParents(r, v, rest \cup sendInfoToAll(r, v, src))
     /\ UNCHANGED missed
  \/ /\ db[r] \in 0 .. v - 1
     /\ db' = [db EXCEPT ![r] = v]
     /\ registerParents(r, v, rest \cup sendInfoToChildren(r, v))
     /\ Miss(sons[r] \ known[r], v)
  \/ /\ db[r] >= v
     /\ net' = rest \cup sendInfoToChildren(r, v)
     /\ Miss(sons[r] \ known[r], v)
     /\ UNCHANGED <<db, parent, budget>>

-----------------------------------------------------------------------------
(***************************************************************************)
(* Requests.  The forwarder's part: an interest from the router itself is  *)
(* always sent on, one from a neighbour only if the name is not pending.   *)
(***************************************************************************)
Request(r, S, v, n) ==
  {[type |-> "request", from |-> r, to |-> s, seq |-> v, nonce |-> n] : s \in S}

Record(r, v, face, n) == [pit EXCEPT ![r][v] = @ \cup {<<face, n>>}]

\* The entry of version v at r ends: its nonces become dead.
Settle(r, v) ==
  /\ pit' = [pit EXCEPT ![r][v] = {}]
  /\ dead' = [dead EXCEPT ![r] = @ \cup {<<v, i[2]>> : i \in pit[r][v]}]

\* Without preferred faces an interest of NDN_ROUTING leaves by every interface.
Targets(r) == IF parent[r] = None THEN Neighbours[r] ELSE {parent[r]}

Start(e) == armed' = armed \cup
  {x \in {e} : \A f \in armed : <<f.router, f.seq>> # <<x.router, x.seq>>}

\* InfoController::onReceiveInterest.
ReceiveInfo(m) ==
  LET r == m.to
      v == m.seq
      wanted == v > db[r] /\ v \notin pending[r]
      lost == wanted /\ parent[r] # None /\ parent[r] \notin known[r]
      n == <<r, sent[r]>>
      rest == net \ {m}
      forwarded == sendInfoToChildren(r, v)
  IN /\ m \in net /\ m.type = "info"
     /\ UNCHANGED <<db, firing, dead, treeVars, budget>>
     /\ \/ /\ r = Origin
           /\ net' = rest
           /\ UNCHANGED <<pending, armed, pit, sent, missed>>
        \/ /\ r # Origin /\ ~wanted
           /\ net' = rest \cup forwarded
           /\ Miss(sons[r] \ known[r], v)
           /\ UNCHANGED <<pending, armed, pit, sent>>
        \/ /\ r # Origin /\ wanted /\ ~lost
           /\ pending' = [pending EXCEPT ![r] = @ \cup {v}]
           /\ Start([router |-> r, seq |-> v, to |-> Targets(r), count |-> 0])
           /\ pit' = Record(r, v, r, n)
           /\ sent' = [sent EXCEPT ![r] = @ + 1]
           /\ net' = rest \cup Request(r, Targets(r), v, n) \cup forwarded
           /\ Miss(sons[r] \ known[r], v)
        \/ /\ r # Origin /\ lost          \* returns with the mark set
           /\ pending' = [pending EXCEPT ![r] = @ \cup {v}]
           /\ net' = rest
           /\ Miss({r}, v)
           /\ UNCHANGED <<armed, pit, sent>>

\* (Variant: only a version older than asked for is passed up; the one asked for
\* counts as expired.)
AnswerExpired(r, q, v, n, rest) ==
  /\ q \in known[r]
  /\ \/ /\ db[r] >= v
        /\ net' = rest \cup {[type |-> "data", from |-> r, to |-> q, seq |-> v, held |-> -1]}
        /\ dead' = [dead EXCEPT ![r] = @ \cup {<<v, n>>}]
        /\ UNCHANGED pit
     \/ /\ db[r] < v
        /\ pit' = [pit EXCEPT ![r][v] = {<<q, n>>, <<r, n>>}]
        /\ net' = rest \cup Request(r, {parent[r]} \ {None}, v, n)
        /\ UNCHANGED dead

\* LsaController::onReceiveInterest for a name under hop, past the forwarder.
Answer(r, q, v, n, rest) ==
  \/ /\ q \notin known[r]
     /\ pit' = Record(r, v, q, n) /\ net' = rest /\ UNCHANGED dead
  \/ /\ q \in known[r] /\ db[r] >= v
     /\ net' = rest \cup {[type |-> "data", from |-> r, to |-> q, seq |-> v,
                           held |-> IF db[r] = v THEN v ELSE -1]}
     /\ dead' = [dead EXCEPT ![r] = @ \cup {<<v, n>>}]
     /\ UNCHANGED pit
  \/ /\ q \in known[r] /\ db[r] < v /\ parent[r] \in known[r]
     /\ pit' = [pit EXCEPT ![r][v] = {<<q, n>>, <<r, n>>}]
     /\ net' = rest \cup Request(r, {parent[r]}, v, n)
     /\ UNCHANGED dead
  \/ /\ q \in known[r] /\ db[r] < v /\ parent[r] \notin known[r]
     /\ pit' = Record(r, v, q, n) /\ net' = rest /\ UNCHANGED dead

ReceiveRequest(m) ==
  LET r == m.to
      v == m.seq
      n == m.nonce
      entry == pit[r][v]
      rest == net \ {m}
      looping == <<v, n>> \in dead[r] \/ \E i \in entry : i[1] # m.from /\ i[2] = n
  IN /\ m \in net /\ m.type = "request"
     /\ UNCHANGED <<db, pending, timerVars, sent, treeVars, missed, budget>>
     /\ \/ looping /\ net' = rest /\ UNCHANGED forwarderVars
        \/ /\ ~looping /\ entry # {}
           /\ pit' = Record(r, v, m.from, n) /\ net' = rest /\ UNCHANGED dead
        \/ ~looping /\ entry = {} /\ Answer(r, m.from, v, n, rest)

-----------------------------------------------------------------------------
(***************************************************************************)
(* Answers.                                                                *)
(***************************************************************************)
cancelTimer(r, v) == armed' = {e \in armed : <<e.router, e.seq>> # <<r, v>>}

\* (Variant: an empty answer leaves the mark.)
EmptyKeepsMark(m) ==
  LET r == m.to
      v == m.seq
      faces == {i[1] : i \in pit[r][v]} \ {m.from, r}
      rest == (net \ {m}) \cup {[m EXCEPT !.from = r, !.to = f] : f \in faces}
  IN /\ m \in net /\ m.type = "data" /\ pit[r][v] # {}
     /\ Settle(r, v)
     /\ cancelTimer(r, v)
     /\ \/ m.held = -1 /\ net' = rest /\ UNCHANGED <<db, pending, parent, missed, budget>>
        \/ /\ m.held # -1 /\ Accept(r, m.held, m.from, rest)
           /\ pending' = [pending EXCEPT ![r] = @ \ {v}]
     /\ UNCHANGED <<firing, sent, sons, known>>

\* LsaController::onReceiveData for a name under hop.  The forwarder passes the
\* answer to every face that asked, and up.
ReceiveData(m) ==
  LET r == m.to
      v == m.seq
      faces == {i[1] : i \in pit[r][v]} \ {m.from, r}
      rest == (net \ {m}) \cup {[m EXCEPT !.from = r, !.to = f] : f \in faces}
  IN /\ m \in net /\ m.type = "data"
     /\ UNCHANGED <<firing, sent, sons, known>>
     /\ \/ /\ pit[r][v] = {}
           /\ net' = net \ {m}
           /\ UNCHANGED <<db, pending, armed, forwarderVars, parent, missed, budget>>
        \/ /\ pit[r][v] # {}
           /\ Settle(r, v)
           /\ cancelTimer(r, v)
           /\ pending' = [pending EXCEPT ![r] = @ \ {v}]
           /\ \/ m.held = -1 /\ net' = rest /\ UNCHANGED <<db, parent, missed, budget>>
              \/ m.held # -1 /\ Accept(r, m.held, m.from, rest)

\* The answer to a request of the database exchange: the name carries the version
\* described, the content the version held when the answer left.  No mark goes.
ReceiveLocalData(m) ==
  LET r == m.to
  IN /\ m \in net /\ m.type = "local"
     /\ cancelTimer(r, m.seq)
     /\ Accept(r, m.held, m.from, net \ {m})
     /\ UNCHANGED <<pending, firing, forwarderVars, sent, sons, known>>

\* External: two neighbours exchange databases (Adjacency); r has asked q for the
\* version v that q described.
Exchange(r, q, v) ==
  /\ q \in known[r] /\ r \in known[q] /\ r # Origin
  /\ db[r] < v /\ v <= db[q]
  /\ Spend("exchanges")
  /\ net' = net \cup {[type |-> "local", from |-> q, to |-> r, seq |-> v, held |-> db[q]]}
  /\ UNCHANGED <<db, pending, timerVars, forwarderVars, sent, treeVars, missed>>

-----------------------------------------------------------------------------
(***************************************************************************)
(* Timers.                                                                 *)
(***************************************************************************)
InTransit(v) == \E m \in net : m.type \in {"request", "data"} /\ m.seq = v

\* A timer runs for 5 s and a packet arrives within milliseconds: a firing while
\* the request is still in transit is counted as a fault.
TimerUp(e) ==
  /\ e \in armed
  /\ \/ ~InTransit(e.seq) /\ UNCHANGED budget
     \/ InTransit(e.seq) /\ Disturb("early")
  /\ armed' = armed \ {e}
  /\ firing' = firing \cup {e}
  /\ UNCHANGED <<db, pending, forwarderVars, sent, treeVars, net, missed>>

\* (Variant: one retransmission too many.)
RetryOnceMore(e) ==
  LET r == e.router
      v == e.seq
      n == <<r, sent[r]>>
      last == e.count + 1 > MaxRetry
  IN /\ e \in firing
     /\ firing' = firing \ {e}
     /\ sent' = [sent EXCEPT ![r] = @ + 1]
     /\ pit' = Record(r, v, r, n)
     /\ net' = net \cup Request(r, e.to, v, n)
     /\ IF last THEN UNCHANGED armed ELSE Start([e EXCEPT !.count = @ + 1])
     /\ pending' = [pending EXCEPT ![r] = @ \ {x \in {v} : last}]
     /\ UNCHANGED <<db, dead, treeVars, missed, budget>>

\* infoLsaExpireCronJob: the request is repeated to where it first went.
infoLsaExpireCronJob(e) ==
  LET r == e.router
      v == e.seq
      n == <<r, sent[r]>>
      last == e.count + 1 >= MaxRetry
  IN /\ e \in firing
     /\ firing' = firing \ {e}
     /\ sent' = [sent EXCEPT ![r] = @ + 1]
     /\ pit' = Record(r, v, r, n)
     /\ net' = net \cup Request(r, e.to, v, n)
     /\ \/ /\ last
           /\ pending' = [pending EXCEPT ![r] = @ \ {v}]
           /\ Miss({r}, v)
           /\ UNCHANGED armed
        \/ /\ ~last
           /\ Start([e EXCEPT !.count = @ + 1])
           /\ UNCHANGED <<pending, missed>>
     /\ UNCHANGED <<db, dead, treeVars, budget>>

\* onInterestFinalize, 6 s after the last interest of the name.
Finalize(r, v) ==
  /\ pit[r][v] # {} /\ ~InTransit(v)
  /\ Settle(r, v)
  /\ UNCHANGED <<db, pending, timerVars, sent, treeVars, net, missed, budget>>

-----------------------------------------------------------------------------
(***************************************************************************)
(* The tree.                                                               *)
(***************************************************************************)

\* The advertisement of another router was new, and with it the tree, whether or not
\* r holds Origin's (sendRegisterPacket registers with -1 if it does not).
Rebuild(r) ==
  /\ ChangeParent(r, db[r], net)
  /\ IF parent[r] = None THEN Spend("rebuilds") ELSE Disturb("move")
  /\ UNCHANGED <<db, pending, timerVars, forwarderVars, sent, sons, known, missed>>

\* (Variant: a registration is answered without the advertisement.)
RegisterSilently(m) ==
  /\ m \in net /\ m.type = "register"
  /\ sons' = [sons EXCEPT ![m.to] = @ \cup {m.from}]
  /\ net' = net \ {m}
  /\ UNCHANGED <<db, pending, timerVars, forwarderVars, sent, parent, known, missed, budget>>

\* RegisterController::onReceiveInterest answers with its version if newer.
ReceiveRegister(m) ==
  LET p == m.to
  IN /\ m \in net /\ m.type = "register"
     /\ sons' = [sons EXCEPT ![p] = @ \cup {m.from}]
     /\ net' = (net \ {m}) \cup
          {[type |-> "offer", from |-> p, to |-> m.from, seq |-> v] :
             v \in {db[p]} \cap (m.seq + 1 .. MaxSeq)}
     /\ UNCHANGED <<db, pending, timerVars, forwarderVars, sent, parent, known, missed, budget>>

ReceiveDeregister(m) ==
  /\ m \in net /\ m.type = "deregister"
  /\ sons' = [sons EXCEPT ![m.to] = @ \ {m.from}]
  /\ net' = net \ {m}
  /\ UNCHANGED <<db, pending, timerVars, forwarderVars, sent, parent, known, missed, budget>>

\* RegisterController::onReceiveData.
ReceiveOffer(m) ==
  LET r == m.to
  IN /\ m \in net /\ m.type = "offer"
     /\ LET fits == m.from \in known[r] /\ parent[r] = m.from /\ m.seq > db[r]
        IN \/ fits /\ Accept(r, m.seq, m.from, net \ {m})
           \/ ~fits /\ net' = net \ {m} /\ UNCHANGED <<db, parent, missed, budget>>
     /\ UNCHANGED <<pending, timerVars, forwarderVars, sent, sons, known>>

\* The neighbour object of q goes after a dead interval and comes with a hello
\* (Adjacency).  These take seconds: r waits for no packet and no registration.
Idle(r) == \A m \in net : m.to # r /\ (m.type = "register" => m.from # r)

Forget(r, q) ==
  /\ q \in known[r] /\ Idle(r)
  /\ Disturb("forget")
  /\ known' = [known EXCEPT ![r] = @ \ {q}]
  /\ UNCHANGED <<db, pending, timerVars, forwarderVars, sent, parent, sons, net, missed>>

Meet(r, q) ==
  /\ q \in Neighbours[r] \ known[r] /\ Idle(r)
  /\ known' = [known EXCEPT ![r] = @ \cup {q}]
  /\ UNCHANGED <<db, pending, timerVars, forwarderVars, sent, parent, sons, net, missed, budget>>

Lose(m) ==
  /\ m \in net /\ m.type \in {"info", "request", "data"}
  /\ Disturb("lose")
  /\ net' = net \ {m}
  /\ IF m.type = "info" THEN Miss({m.to}, m.seq) ELSE UNCHANGED missed
  /\ UNCHANGED <<db, pending, timerVars, forwarderVars, sent, treeVars>>

-----------------------------------------------------------------------------
Receive(m) ==
  \/ ReceiveInfo(m)
  \/ ReceiveRequest(m)
  \/ ReceiveData(m)
  \/ ReceiveLocalData(m)
  \/ ReceiveRegister(m)
  \/ ReceiveDeregister(m)
  \/ ReceiveOffer(m)

Next ==
  \/ Issue
  \/ \E m \in net : Receive(m)
  \/ \E m \in net : Lose(m)
  \/ \E e \in armed : TimerUp(e)
  \/ \E e \in firing : infoLsaExpireCronJob(e)
  \/ \E r \in Router, v \in Seq0 : Finalize(r, v)
  \/ \E r \in Router : Rebuild(r)
  \/ \E r, q \in Router : Forget(r, q)
  \/ \E r, q \in Router : Meet(r, q)
  \/ \E r, q \in Router, v \in Seq0 : Exchange(r, q, v)

Spec == Init /\ [][Next]_vars

FairSpec ==
  /\ Spec
  /\ WF_vars(\E m \in net : Receive(m))
  /\ WF_vars(\E e \in armed : TimerUp(e))
  /\ WF_vars(\E e \in firing : infoLsaExpireCronJob(e))
  /\ WF_vars(\E r \in Router, v \in Seq0 : Finalize(r, v))

-----------------------------------------------------------------------------
\* Every variable has its type; a timer that is to fire again has fired fewer times
\* than a request is repeated (CronJobHandler.cpp, infoLsaExpireCronJob).
TypeOK ==
  /\ db \in [Router -> Held]
  /\ pending \in [Router -> SUBSET Seq0]
  /\ armed \subseteq Retry /\ firing \subseteq Retry
  /\ pit \in [Router -> [Seq0 -> SUBSET (Face \X Nonce)]]
  /\ dead \in [Router -> SUBSET (Seq0 \X Nonce)]
  /\ sent \in [Router -> Nat]
  /\ parent \in [Router -> Router \cup {None}]
  /\ sons \in [Router -> SUBSET Router]
  /\ known \in [Router -> SUBSET Router]
  /\ net \subseteq Packet
  /\ missed \in [Router -> SUBSET Seq0]
  /\ budget \in Scenario

Pursued(r, v) == \E e \in armed \cup firing : e.router = r /\ e.seq = v

\* A version is marked as requested only while the request is pursued: its timer runs
\* or its callback waits, unless r has it by now, gave up, or did not know its parent.
\* A mark left behind would keep r from ever asking for that version again
\* (InfoController.cpp:56); timers are cancelled by answers that remove no mark
\* (LsaController.cpp:185), and an answered request can come back to life.
NoMarkForgotten ==
  \A r \in Router : \A v \in pending[r] : Pursued(r, v) \/ v <= db[r] \/ v \in missed[r]

\* s is about to learn of version v.
Told(s, v) ==
  \/ v \in pending[s]
  \/ \E m \in net : m.type \in {"info", "offer", "local"} /\ m.to = s /\ m.seq = v

\* A parent that holds the newest version has no registered son that lags behind and
\* knows nothing of it, unless the announcement was lost or skipped or the son gave
\* up: announcements are sent once, so the registration, the notification of sons and
\* the answers must leave no gap between them (LsaController.cpp:240-247,
\* RegisterController.cpp:49-52, InfoController.cpp:122).
NoSonLeftBehind ==
  \A p \in Router, s \in Router :
    s \in sons[p] /\ parent[s] = p /\ db[p] = db[Origin] /\ db[s] < db[p]
      => Told(s, db[p]) \/ db[p] \in missed[s]

\* A son that was told of every version, and never gave up on one, ends up with what
\* its parent holds, although a request or an answer was lost or a timer was early.
CatchesUp ==
  <>[](\A s \in Router, p \in Router :
         parent[s] = p /\ s \in sons[p] /\ missed[s] = {} => db[s] >= db[p])

\* What flooding promises, whichever way versions travel (module Dissemination).
D == INSTANCE Dissemination WITH held <- db
Disseminates == D!Spec

=============================================================================
