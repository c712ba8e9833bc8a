---------------------------- MODULE Registration ----------------------------
(***************************************************************************)
(* The minimum-hop trees of the routing daemon.  For every root a router   *)
(* registers as a son with the neighbour that is its first hop towards     *)
(* that root, and deregisters from the neighbour that used to be.  The     *)
(* parent keeps the sons (MinimumHopTree), answers a registration with a   *)
(* newer LSA of the root if it has one, and later notifies its sons with   *)
(* INFO interests.  Requests are retransmitted by timers whose identity is *)
(* the name of the request.                                                *)
(*                                                                         *)
(* One action is one handler run under NdnRoutingProtocol::mutexLock, with *)
(* the calls to registerParents, sendInfoToAll and sendInfoToChildren made *)
(* inside it.  Names under /routing/local bypass the PIT, so the network   *)
(* between two adjacent routers is the bare link: a set of packets that    *)
(* arrive in any order.  No action is obliged to take a packet, and a      *)
(* packet nobody takes any more is a lost one.                             *)
(***************************************************************************)
EXTENDS Integers, FiniteSets

CONSTANTS
  Router,          \* the routers
  Root,            \* the routers whose trees are followed
  Adjacent,        \* Adjacent[r]: the routers r shares a link with
  KnownAtStart,    \* KnownAtStart[r]: those whose hello r has already received
  NoRouter,        \* "no registered parent"
  NoLsa,           \* a reply without an LSA
  SameMillisecond, \* may two requests of a router carry the same timestamp?
  MaxRetry,        \* retransmissions of a request (3 in the code)
  MaxTime,         \* MaxTime[r]: bound on the timestamps of r
  MaxSeq           \* bound on the sequence numbers of LSAs

ASSUME RouterAssumption ==
  /\ Root \subseteq Router
  /\ Adjacent \in [Router -> SUBSET Router]
  /\ KnownAtStart \in [Router -> SUBSET Router]
  /\ \A r \in Router : r \notin Adjacent[r] /\ KnownAtStart[r] \subseteq Adjacent[r]
  /\ \A r, q \in Router : q \in Adjacent[r] <=> r \in Adjacent[q]
  /\ NoRouter \notin Router

ASSUME BoundAssumption ==
  /\ SameMillisecond \in BOOLEAN
  /\ MaxRetry \in Nat \ {0}
  /\ MaxTime \in [Router -> Nat]
  /\ MaxSeq \in Nat

Time == Nat \ {0}
Seq0 == -1 .. MaxSeq        \* -1: the LSA is not in the database

Name == [op : {"register", "deregister"}, from : Router, to : Router, ts : Time]
Request == [op : {"register", "deregister"}, from : Router, to : Router,
            ts : Time, root : Root, seq : Seq0]
Lsa == [root : Root, seq : 0 .. MaxSeq]
Reply == [name : Name, lsa : Lsa \cup {NoLsa}]
RetryTimer == [pkt : Request, count : 0 .. MaxRetry - 1]
Announcement == [from : Router, to : Router, root : Root, seq : 0 .. MaxSeq]

ASSUME NoLsaAssumption == NoLsa \notin Lsa

NameOf(q) == [op |-> q.op, from |-> q.from, to |-> q.to, ts |-> q.ts]

VARIABLES
  known,      \* known[r]: neighbours r has an object for
  db,         \* db[r][root]: sequence number of root's adjacency LSA at r
  parents,    \* parents[r][root]: registeredParents of r
  sons,       \* sons[p][root]: registeredSons of p
  lastOp,     \* lastOp[p][root][s]: lastOperationTime of p, 0 if never set
  clock,      \* clock[r]: timestamp of r's last request
  interests,  \* requests on the wire
  replies,    \* data packets on the wire
  armed,      \* retransmission timers that are running
  firing,     \* timers that fired and whose callback waits for mutexLock
  offered,    \* LSA versions announced to a router by INFO or by a reply
  issued,     \* history: every request a router has made
  acked       \* history: names whose answer has come back

treeVars == <<parents, sons, lastOp>>
wireVars == <<interests, replies>>
timerVars == <<armed, firing>>
vars == <<known, db, treeVars, clock, wireVars, timerVars, offered, issued, acked>>

Init ==
  /\ known = KnownAtStart
  /\ db = [r \in Router |-> [root \in Root |-> -1]]
  /\ parents = [r \in Router |-> [root \in Root |-> NoRouter]]
  /\ sons = [p \in Router |-> [root \in Root |-> {}]]
  /\ lastOp = [p \in Router |-> [root \in Root |-> [s \in Router |-> 0]]]
  /\ clock = [r \in Router |-> 1]
  /\ interests = {} /\ replies = {}
  /\ armed = {} /\ firing = {}
  /\ offered = {} /\ issued = {} /\ acked = {}

-----------------------------------------------------------------------------
(***************************************************************************)
(* registerParents.  tree is the result of calculateMinHopTree: the parent *)
(* for every root, or NoRouter.  Which parent it finds is left open, as    *)
(* the database changes for many reasons; but an edge is in the database   *)
(* only if one end lists the other in its LSA, and one end is enough, so a *)
(* parent may be a neighbour this router has not heard.                    *)
(***************************************************************************)
Tree(r, row) ==
  {t \in [Root -> Adjacent[r] \cup {NoRouter}] :
     \A root \in Root :
       \/ t[root] = NoRouter
       \/ root # r /\ t[root] \in known[r]
       \/ root # r /\ r \in known[t[root]] /\ (t[root] \in Root => row[t[root]] >= 0)}

\* (Variant for the mutation runs: a root that left the tree is not deregistered.)
DeregistrationsInTree(r, tree) ==
  {[op |-> "deregister", from |-> r, to |-> parents[r][root], root |-> root] :
     root \in {x \in Root : parents[r][x] \in known[r] /\ tree[x] \notin {NoRouter, parents[r][x]}}}

\* The requests of one call: the ones to a neighbour that is not known are
\* skipped with a warning, after which the new parent is recorded all the same.
Deregistrations(r, tree) ==
  {[op |-> "deregister", from |-> r, to |-> parents[r][root], root |-> root] :
     root \in {x \in Root : parents[r][x] \in known[r] /\ tree[x] # parents[r][x]}}
Registrations(r, tree) ==
  {[op |-> "register", from |-> r, to |-> tree[root], root |-> root] :
     root \in {x \in Root : tree[x] \in known[r] /\ tree[x] # parents[r][x]}}
Calls(r, tree) == Deregistrations(r, tree) \cup Registrations(r, tree)

\* The order in which one call of registerParents sends: for each root of the
\* tree deregistration before registration; roots that left the tree come last.
Before(c, d, tree) ==
  \/ c.root = d.root /\ c.op = "deregister" /\ d.op = "register"
  \/ tree[c.root] # NoRouter /\ tree[d.root] = NoRouter

\* The millisecond each request of the call is stamped with.
Stampings(r, tree) ==
  {at \in [Calls(r, tree) -> clock[r] .. MaxTime[r]] :
     /\ \A c, d \in Calls(r, tree) : Before(c, d, tree) => at[c] <= at[d]
     /\ ~SameMillisecond => \A c \in Calls(r, tree) :
           at[c] > clock[r] /\ \A d \in Calls(r, tree) \ {c} : at[c] # at[d]}

Stamped(at, newDb) ==
  {[op |-> c.op, from |-> c.from, to |-> c.to, ts |-> at[c], root |-> c.root,
    seq |-> newDb[c.root]] : c \in DOMAIN at}

\* startTimer refuses a name that is running: of the requests that share a name
\* one gets the timer, and none if an earlier request still has it.
StartRetry(timers, req) ==
  LET running == {NameOf(e.pkt) : e \in timers}
      free == {q \in req : NameOf(q) \notin running}
  IN \E first \in SUBSET free :
       /\ \A q \in free : \E p \in first : NameOf(p) = NameOf(q)
       /\ \A p, q \in first : NameOf(p) = NameOf(q) => p = q
       /\ armed' = timers \cup {[pkt |-> q, count |-> 0] : q \in first}

\* row is the database row of r at the time of the call, timers the ones running.
registerParents(r, row, timers) ==
  \E tree \in Tree(r, row) : \E at \in Stampings(r, tree) :
    LET req == Stamped(at, row)
    IN /\ parents' = [parents EXCEPT ![r] = tree]
       /\ \E now \in {clock[r]} \cup {q.ts : q \in req} :
            /\ \A q \in req : q.ts <= now
            /\ clock' = [clock EXCEPT ![r] = now]
       /\ interests' = interests \cup req
       /\ issued' = issued \cup req
       /\ StartRetry(timers, req)

\* (A variant for the mutation runs: the INFO goes to the parent.)
sendInfoToParent(r, root, seq) ==
  {[from |-> r, to |-> s, root |-> root, seq |-> seq] : s \in {parents[r][root]} \cap known[r]}

\* INFO interests: to the registered sons that are known neighbours, or, for an
\* origin never seen before, to every interface but the one the LSA came from.
sendInfoToChildren(r, root, seq) ==
  {[from |-> r, to |-> s, root |-> root, seq |-> seq] : s \in sons[r][root] \cap known[r]}
sendInfoToAll(r, exempted, root, seq) ==
  {[from |-> r, to |-> q, root |-> root, seq |-> seq] : q \in Adjacent[r] \ {exempted}}

\* Insertion of a version of root's LSA newer than the one r holds, received
\* from q, by LsaController::onReceiveData or RegisterController::onReceiveData.
AcceptLsa(r, q, root, seq, timers) ==
  LET newDb == [db EXCEPT ![r][root] = seq]
  IN /\ db[r][root] < seq
     /\ db' = newDb
     /\ offered' = offered \cup
          (IF db[r][root] = -1 THEN sendInfoToAll(r, q, root, seq)
                               ELSE sendInfoToChildren(r, root, seq))
     /\ registerParents(r, newDb[r], timers)

-----------------------------------------------------------------------------
(***************************************************************************)
(* Handlers.                                                               *)
(***************************************************************************)

\* HelloController creates the object of a neighbour; it is never removed.
Hear(r, q) ==
  /\ q \in Adjacent[r] \ known[r]
  /\ known' = [known EXCEPT ![r] = @ \cup {q}]
  /\ UNCHANGED <<db, treeVars, clock, wireVars, timerVars, offered, issued, acked>>

\* triggerNewLsa: a new version of the router's own LSA.
TriggerNewLsa(r) ==
  /\ r \in Root /\ db[r][r] < MaxSeq
  /\ db' = [db EXCEPT ![r][r] = @ + 1]
  /\ registerParents(r, db'[r], armed)
  /\ offered' = offered \cup sendInfoToChildren(r, r, db[r][r] + 1)
  /\ UNCHANGED <<known, sons, lastOp, replies, firing, acked>>

\* LsaController::onReceiveData for an adjacency LSA that neighbour q sent: a
\* version q holds, or held when it sent it.  q answers neighbours it knows.  A version that is not newer is
\* announced to the sons once more.
ReceiveLsa(r, q, root) ==
  /\ q \in Adjacent[r] /\ r \in known[q]
  /\ \E seq \in 0 .. db[q][root] :
       \/ AcceptLsa(r, q, root, seq, armed)
       \/ /\ db[r][root] >= seq
          /\ offered' = offered \cup sendInfoToChildren(r, root, seq)
          /\ UNCHANGED <<db, parents, clock, interests, armed, issued>>
  /\ UNCHANGED <<known, sons, lastOp, replies, firing, acked>>

\* (Variant: the time of the registration is not recorded.)
RegisterWithoutStamp(m) ==
  LET newer == m.ts > lastOp[m.to][m.root][m.from]
  IN /\ m \in interests /\ m.op = "register"
     /\ interests' = interests \ {m}
     /\ sons' = IF newer THEN [sons EXCEPT ![m.to][m.root] = @ \cup {m.from}] ELSE sons
     /\ replies' = replies \cup {[name |-> NameOf(m), lsa |-> NoLsa]}
     /\ UNCHANGED <<known, db, parents, lastOp, clock, timerVars, offered, issued, acked>>

\* RegisterController::onReceiveInterest.  A registration no newer than the last
\* one seen from this son is answered without being applied.
ReceiveRegister(m) ==
  LET p == m.to
      newer == m.ts > lastOp[p][m.root][m.from]
      lsa == IF newer /\ db[p][m.root] > m.seq
             THEN [root |-> m.root, seq |-> db[p][m.root]] ELSE NoLsa
  IN /\ m \in interests /\ m.op = "register"
     /\ interests' = interests \ {m}
     /\ \/ /\ newer
           /\ sons' = [sons EXCEPT ![p][m.root] = @ \cup {m.from}]
           /\ lastOp' = [lastOp EXCEPT ![p][m.root][m.from] = m.ts]
        \/ ~newer /\ UNCHANGED <<sons, lastOp>>
     /\ replies' = replies \cup {[name |-> NameOf(m), lsa |-> lsa]}
     /\ offered' = offered \cup
          {[from |-> p, to |-> m.from, root |-> l.root, seq |-> l.seq] : l \in {lsa} \ {NoLsa}}
     /\ UNCHANGED <<known, db, parents, clock, timerVars, issued, acked>>

\* (Variant: a deregistration is applied however old it is.)
DeregisterUnguarded(m) ==
  /\ m \in interests /\ m.op = "deregister"
  /\ interests' = interests \ {m}
  /\ sons' = [sons EXCEPT ![m.to][m.root] = @ \ {m.from}]
  /\ lastOp' = [lastOp EXCEPT ![m.to][m.root][m.from] = m.ts]
  /\ replies' = replies \cup {[name |-> NameOf(m), lsa |-> NoLsa]}
  /\ UNCHANGED <<known, db, parents, clock, timerVars, offered, issued, acked>>

\* DeRegisterController::onReceiveInterest.
ReceiveDeregister(m) ==
  LET p == m.to
      newer == m.ts > lastOp[p][m.root][m.from]
  IN /\ m \in interests /\ m.op = "deregister"
     /\ interests' = interests \ {m}
     /\ \/ /\ newer
           /\ sons' = [sons EXCEPT ![p][m.root] = @ \ {m.from}]
           /\ lastOp' = [lastOp EXCEPT ![p][m.root][m.from] = m.ts]
        \/ ~newer /\ UNCHANGED <<sons, lastOp>>
     /\ replies' = replies \cup {[name |-> NameOf(m), lsa |-> NoLsa]}
     /\ UNCHANGED <<known, db, parents, clock, timerVars, offered, issued, acked>>

\* cancelTimer: a timer that has fired is out of its reach.
CancelRetry(name) == {e \in armed : NameOf(e.pkt) # name}

\* RegisterController::onReceiveData and DeRegisterController::onReceiveData.
\* The LSA of an answer is taken only from the current parent for its root.
ReceiveReply(d) ==
  LET s == d.name.from
      p == d.name.to
      useful == d.lsa # NoLsa /\ parents[s][d.lsa.root] = p /\ db[s][d.lsa.root] < d.lsa.seq
  IN /\ d \in replies /\ p \in known[s]
     /\ replies' = replies \ {d}
     /\ acked' = acked \cup {d.name}
     /\ \/ useful /\ AcceptLsa(s, p, d.lsa.root, d.lsa.seq, CancelRetry(d.name))
        \/ /\ ~useful
           /\ armed' = CancelRetry(d.name)
           /\ UNCHANGED <<db, offered, parents, clock, interests, issued>>
     /\ UNCHANGED <<known, sons, lastOp, firing>>

\* Timer::onTimerUp takes the entry out before it calls back.
TimerUp(e) ==
  /\ e \in armed
  /\ armed' = armed \ {e}
  /\ firing' = firing \cup {e}
  /\ UNCHANGED <<known, db, treeVars, clock, wireVars, offered, issued, acked>>

\* (Variants: the retransmission is not counted; one too many is allowed.)
RetryUncounted(e) ==
  /\ e \in firing
  /\ firing' = firing \ {e}
  /\ interests' = interests \cup {e.pkt}
  /\ armed' = armed \cup {x \in {e} : \A f \in armed : NameOf(f.pkt) # NameOf(x.pkt)}
  /\ UNCHANGED <<known, db, treeVars, clock, replies, offered, issued, acked>>

RetryOnceMore(e) ==
  LET next == [e EXCEPT !.count = @ + 1]
  IN /\ e \in firing
     /\ firing' = firing \ {e}
     /\ interests' = interests \cup {e.pkt}
     /\ armed' = armed \cup {x \in {next} : /\ x.count <= MaxRetry
                                            /\ \A f \in armed : NameOf(f.pkt) # NameOf(x.pkt)}
     /\ UNCHANGED <<known, db, treeVars, clock, replies, offered, issued, acked>>

\* registerExpireCronJob and deRegisterExpireCronJob, then the restart that
\* onTimerUp makes when they return true, unless the name is running again.
RetryCallback(e) ==
  LET next == [e EXCEPT !.count = @ + 1]
  IN /\ e \in firing
     /\ firing' = firing \ {e}
     /\ interests' = interests \cup {e.pkt}
     /\ armed' = armed \cup {x \in {next} : /\ x.count < MaxRetry
                                            /\ \A f \in armed : NameOf(f.pkt) # NameOf(x.pkt)}
     /\ UNCHANGED <<known, db, treeVars, clock, replies, offered, issued, acked>>

Next ==
  \/ \E r, q \in Router : Hear(r, q)
  \/ \E r \in Router : TriggerNewLsa(r)
  \/ \E r, q \in Router, root \in Root : ReceiveLsa(r, q, root)
  \/ \E m \in interests : ReceiveRegister(m) \/ ReceiveDeregister(m)
  \/ \E d \in replies : ReceiveReply(d)
  \/ \E e \in armed : TimerUp(e)
  \/ \E e \in firing : RetryCallback(e)

Spec == Init /\ [][Next]_vars

\* A timer thread that has slept its time runs, and its callback gets the lock.
FairSpec ==
  /\ Spec
  /\ WF_vars(\E e \in armed : TimerUp(e))
  /\ WF_vars(\E e \in firing : RetryCallback(e))

-----------------------------------------------------------------------------
(***************************************************************************)
(* Properties.                                                             *)
(***************************************************************************)

TypeOK ==
  /\ known \in [Router -> SUBSET Router]
  /\ db \in [Router -> [Root -> Seq0]]
  /\ parents \in [Router -> [Root -> Router \cup {NoRouter}]]
  /\ sons \in [Router -> [Root -> SUBSET Router]]
  /\ lastOp \in [Router -> [Root -> [Router -> Nat]]]
  /\ clock \in [Router -> Time]
  /\ interests \subseteq Request /\ replies \subseteq Reply
  /\ armed \subseteq RetryTimer /\ firing \subseteq RetryTimer
  /\ offered \subseteq Announcement
  /\ issued \subseteq Request /\ acked \subseteq Name

\* The requests that s has made to p about root.
IssuedTo(s, p, root) == {q \in issued : q.from = s /\ q.to = p /\ q.root = root}

\* Two requests of one millisecond to p are mistaken for one another if they are of the
\* same kind, as they share their name, or about the same root, as p takes the first
\* that arrives.  Of the requests of s to p about root none is mistaken.
Apart(s, p, root) ==
  \A q \in IssuedTo(s, p, root), x \in issued :
    x.from = s /\ x.to = p /\ x.ts = q.ts /\ (x.op = q.op \/ x.root = root) => x = q

\* Once every request of s to p about a root has been answered, p counts s among
\* its sons exactly if s regards p as its parent: whatever was lost, repeated or
\* reordered, the parent's list is the son's last word.  (MinimumHopTree,
\* RegisterController and DeRegisterController; p is a neighbour s knows.)
Agreement ==
  \A s, p \in Router, root \in Root :
    /\ p \in KnownAtStart[s]
    /\ \A q \in IssuedTo(s, p, root) : NameOf(q) \in acked
    /\ Apart(s, p, root)
    => (s \in sons[p][root] <=> parents[s][root] = p)

\* A parent that holds a newer LSA of the root than its son has told the son of
\* that version, by an INFO or in the answer to the registration: no version
\* falls between the registration and the notifications.
NoVersionMissed ==
  \A p, s \in Router, root \in Root :
    s \in sons[p][root] /\ s \in KnownAtStart[p] /\ db[p][root] > db[s][root] =>
      [from |-> p, to |-> s, root |-> root, seq |-> db[p][root]] \in offered

\* "root->parents: with whom we have registered as a son in the tree of root"
\* (MinimumHopTree.h:29): the last request made to a recorded parent, a known
\* neighbour, is a registration.
RegisteredParentWasTold ==
  \A s, p \in Router, root \in Root :
    parents[s][root] = p /\ p \in known[s] =>
      \E q \in IssuedTo(s, p, root) : /\ q.op = "register"
                                      /\ \A x \in IssuedTo(s, p, root) : x.ts <= q.ts

\* So it is, and for former parents too, with the neighbours a router has known from the
\* start: the last request about a root that it made to one of them (one of the last, if
\* they share a millisecond) says whether that neighbour is its parent in the tree now,
\* however often the tree has changed, and although the root may have left it.
LastRequestStands ==
  \A s, p \in Router, root \in Root :
    p \in KnownAtStart[s] =>
      \/ IssuedTo(s, p, root) = {} /\ parents[s][root] # p
      \/ \E q \in IssuedTo(s, p, root) : /\ \A x \in IssuedTo(s, p, root) : x.ts <= q.ts
                                         /\ q.op = "register" <=> parents[s][root] = p

\* A parent's list of sons is the effect of requests the sons made, the latest
\* that reached it: what a registration protocol promises (TreeMembership).
Membership == INSTANCE TreeMembership WITH stamp <- lastOp, member <- sons
MovesOn == Membership!ASpec

\* Retransmission comes to an end, answered or not, even if an answer arrives
\* between the expiry of the timer and its callback, which restarts the timer.
RetransmissionEnds == <>[](armed \cup firing = {})
=============================================================================
