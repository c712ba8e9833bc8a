------------------------------ MODULE Broadcast ------------------------------
(***************************************************************************)
(* Interests under /addr/broadcast on their way through the forwarders of  *)
(* the network: the requests of leaders that are no roots, the answers the *)
(* roots send back along the pending entries, and the confirmations of the *)
(* blocks.  AddrAssign takes such a flood to reach every other router once *)
(* and one answer to reach the leader; here is what that rests on.         *)
(*                                                                         *)
(* A face is the router at the other end of the link, or Up, the daemon.   *)
(* The one thread that reads a router's sockets checks an interest against *)
(* the dead nonces (Check) before it takes protocolLock for the rest of the*)
(* pipeline (Idle, Forward, ForwardAnswered).  What the daemon does when it*)
(* is handed a packet happens in that call and is part of the step.        *)
(*                                                                         *)
(* Every name is sent once, with one nonce: the nonce is left out, a record*)
(* of an entry is a face, and the dead nonce list holds names.  The list is*)
(* as long as it has to be; Forwarder has its limit.                       *)
(***************************************************************************)
EXTENDS Integers, FiniteSets

CONSTANTS
    Router, Root,  \* the routers; those started with --root
    Leader,        \* the routers that lead one of their links
    Neighbor,      \* Neighbor[r]: the routers at the other ends of r's links
    Up,            \* the face of the daemon
    MaxFaults      \* bound on the faults of a behaviour

ASSUME RouterAssumption ==
    Root \subseteq Router /\ Leader \subseteq Router /\ Up \notin Router
ASSUME LinkAssumption ==
    /\ Neighbor \in [Router -> SUBSET Router]
    /\ \A r \in Router : r \notin Neighbor[r] /\ \A s \in Neighbor[r] : r \in Neighbor[s]
ASSUME ConnectedAssumption ==
    \A S \in SUBSET Router : S # {} /\ (\A r \in S : Neighbor[r] \subseteq S) => S = Router
ASSUME BoundAssumption == MaxFaults \in Nat

(***************************************************************************)
(* A request has the id of the leader in its name, a confirmation the block*)
(* and a random number drawn by the root that gives the block.  The routers*)
(* seed their numbers differently (cmd/ndnaddr/main.cpp), so different     *)
(* floods have different names: <<kind, giver, sender>>.                   *)
(***************************************************************************)
Request(a) == <<"req", a, a>>
Given(g, r) == <<"conf", g, r>>
Name == {Request(a) : a \in Leader \ Root} \cup {Given(g, r) : g \in Root, r \in Leader}
Face == Router \cup {Up}

Interest == [type : {"interest"}, name : Name, from : Router, to : Router]
Data == [type : {"data"}, name : Name, by : Root, from : Router, to : Router]
Fault == [kind : {"loss", "early", "race"}, name : Name]

VARIABLES
    pit,       \* pit[r][n]: the faces in the records of r's entry of n
    dead,      \* dead[r]: the names of entries that ended
    net,       \* packets on the links
    checking,  \* checking[r]: the interest r's reader has checked, or none
    sent,      \* history: <<r, n>> if r's daemon has sent n
    heard,     \* history: <<r, n, f>> if r's daemon was handed n from face f,
    again,     \*          and <<r, n>> if it was handed n a second time
    answered,  \* history: the roots that answered, with the name
    answers,   \* history: answers[a]: how many answers a's daemon was handed
    faults     \* history: losses, and expiries before the flood was over

vars == <<pit, dead, net, checking, sent, heard, again, answered, answers, faults>>

Init ==
    /\ pit = [r \in Router |-> [n \in Name |-> {}]]
    /\ dead = [r \in Router |-> {}]
    /\ net = {} /\ checking = [r \in Router |-> {}]
    /\ sent = {} /\ heard = {} /\ again = {} /\ answered = {}
    /\ answers = [a \in Leader |-> 0] /\ faults = {}

-----------------------------------------------------------------------------
(* The parts of the pipelines.                                             *)

Pending(r, n) == pit[r][n] # {}
IsDead(r, n) == n \in dead[r]

Looping(r, n, f) == \E g \in pit[r][n] : g # f

\* Copies on all links but the one the interest came from (MyNextHopStrategy).
Copies(r, n, f) ==
    [type : {"interest"}, name : {n}, from : {r}, to : Neighbor[r] \ {f}]
Answer(r, n, root, faces) ==
    [type : {"data"}, name : {n}, by : {root}, from : {r}, to : faces]

\* (Variants for the mutation runs: daemons count as routers; the faces are read
\* after the entry was taken out of the table.)
AllFacesOf(r, n, f) == pit[r][n] \ {f}
FacesLeft(r, n, f) == pit'[r][n] \ {f, Up}

\* Where data that came from face f goes (MyForwardStrategy).
FacesOf(r, n, f) == pit[r][n] \ {f, Up}

\* (Variant: the nonces of the entry are forgotten with it.)
EndUsed(r, n) == pit' = [pit EXCEPT ![r][n] = {}] /\ UNCHANGED dead

\* An entry ends: its nonces are dead.
End(r, n) ==
    /\ pit' = [pit EXCEPT ![r][n] = {}]
    /\ dead' = [dead EXCEPT ![r] = @ \cup {n}]

HasHeard(r, n) == \E f \in Router : <<r, n, f>> \in heard

\* The daemon of r is handed n.
Hear(r, n, f) ==
    /\ heard' = heard \cup {<<r, n, f>>}
    /\ again' = IF HasHeard(r, n) THEN again \cup {<<r, n>>} ELSE again

-----------------------------------------------------------------------------
(* Interests.                                                              *)

\* The interest of r's own daemon, unless it is dead or loops.
Passes(r, n) == ~IsDead(r, n) /\ ~Looping(r, n, Up)
OwnCopies(r, n) == IF Passes(r, n) /\ ~Pending(r, n) THEN Copies(r, n, Up) ELSE {}
WithOwn(r, n) == IF Passes(r, n) THEN [pit EXCEPT ![r][n] = @ \cup {Up}] ELSE pit

\* What a leader sends when its wait ends: it announces a block of its own pool,
\* or asks the roots for one, once.
Send(r) ==
    LET n == IF r \in Root THEN Given(r, r) ELSE Request(r)
    IN  /\ <<r, n>> \notin sent
        /\ sent' = sent \cup {<<r, n>>}
        /\ net' = net \cup OwnCopies(r, n)
        /\ pit' = WithOwn(r, n)
        /\ UNCHANGED <<dead, checking, heard, again, answered, answers, faults>>

\* onIncomingInterest up to the lock.
DropDead(m) ==
    /\ m.type = "interest" /\ checking[m.to] = {} /\ IsDead(m.to, m.name)
    /\ net' = net \ {m}
    /\ UNCHANGED <<pit, dead, checking, sent, heard, again, answered, answers, faults>>

Check(m) ==
    /\ m.type = "interest" /\ checking[m.to] = {} /\ ~IsDead(m.to, m.name)
    /\ net' = net \ {m}
    /\ checking' = [checking EXCEPT ![m.to] = {m}]
    /\ UNCHANGED <<pit, dead, sent, heard, again, answered, answers, faults>>

\* The rest of it, in three cases.  An interest that meets an entry is dropped
\* as a loop, or recorded, and goes no further;
Idle(m) ==
    LET r == m.to  n == m.name
    IN  /\ Pending(r, n)
        /\ checking' = [checking EXCEPT ![r] = {}]
        /\ pit' = IF Looping(r, n, m.from) THEN pit
                  ELSE [pit EXCEPT ![r][n] = @ \cup {m.from}]
        /\ UNCHANGED <<dead, net, sent, heard, again, answered, answers, faults>>

\* any other is handed to the daemon and sent on.
Forward(m) ==
    LET r == m.to  n == m.name
    IN  /\ ~Pending(r, n)
        /\ checking' = [checking EXCEPT ![r] = {}]
        /\ pit' = [pit EXCEPT ![r][n] = {m.from}]
        /\ net' = net \cup Copies(r, n, m.from)
        /\ Hear(r, n, m.from)
        /\ UNCHANGED <<dead, sent, answered, answers, faults>>

CanAnswer(m) == ~Pending(m.to, m.name) /\ m.to \in Root /\ m.name[1] = "req"

\* (Variant: a request that was answered goes no further.)
AnswerOnly(m) ==
    LET r == m.to  n == m.name
    IN  /\ CanAnswer(m)
        /\ checking' = [checking EXCEPT ![r] = {}]
        /\ dead' = [dead EXCEPT ![r] = @ \cup {n}]
        /\ net' = net \cup Answer(r, n, r, {m.from})
        /\ Hear(r, n, m.from)
        /\ answered' = answered \cup {<<r, n>>}
        /\ UNCHANGED <<pit, sent, answers, faults>>

\* A root that has a block for a request answers it in the call that hands it
\* up: that uses its entry up, and then the request still goes to the others.
ForwardAnswered(m) ==
    LET r == m.to  n == m.name
    IN  /\ CanAnswer(m)
        /\ checking' = [checking EXCEPT ![r] = {}]
        /\ dead' = [dead EXCEPT ![r] = @ \cup {n}]
        /\ net' = net \cup Answer(r, n, r, {m.from}) \cup Copies(r, n, m.from)
        /\ Hear(r, n, m.from)
        /\ answered' = answered \cup {<<r, n>>}
        /\ UNCHANGED <<pit, sent, answers, faults>>

-----------------------------------------------------------------------------
(* Data.                                                                   *)

\* Without an entry it is unsolicited.
Unsolicited(m) ==
    /\ m.type = "data" /\ checking[m.to] = {} /\ ~Pending(m.to, m.name)
    /\ net' = net \ {m}
    /\ UNCHANGED <<pit, dead, checking, sent, heard, again, answered, answers, faults>>

\* With one it uses the entry up and goes back where the interest came from; the
\* daemon takes no notice of the answer to another router's request.
PassBack(m) ==
    LET r == m.to  n == m.name
    IN  /\ m.type = "data" /\ checking[r] = {} /\ Pending(r, n) /\ n # Request(r)
        /\ End(r, n)
        /\ net' = (net \ {m}) \cup Answer(r, n, m.by, FacesOf(r, n, m.from))
        /\ UNCHANGED <<checking, sent, heard, again, answered, answers, faults>>

\* The leader's daemon is handed the answer.  If it takes the block (a choice that
\* AddrAssign makes) it confirms it in the same call.
Receive(m, takes) ==
    LET r == m.to  n == m.name  c == Given(m.by, r)
        uses == takes /\ <<r, c>> \notin sent
    IN  /\ m.type = "data" /\ checking[r] = {} /\ Pending(r, n) /\ n = Request(r)
        /\ pit' = [(IF uses THEN WithOwn(r, c) ELSE pit) EXCEPT ![r][n] = {}]
        /\ dead' = [dead EXCEPT ![r] = @ \cup {n}]
        /\ net' = (net \ {m}) \cup Answer(r, n, m.by, FacesOf(r, n, m.from))
                      \cup (IF uses THEN OwnCopies(r, c) ELSE {})
        /\ sent' = IF uses THEN sent \cup {<<r, c>>} ELSE sent
        /\ answers' = [answers EXCEPT ![r] = @ + 1]
        /\ UNCHANGED <<checking, heard, again, answered, faults>>

-----------------------------------------------------------------------------
(* Expiry and loss.                                                        *)

Fail(kind, n) ==
    LET f == [kind |-> kind, name |-> n]
    IN  /\ f \in faults \/ Cardinality(faults) < MaxFaults
        /\ faults' = faults \cup {f}
Faulty(kind, n) == [kind |-> kind, name |-> n] \in faults

InFlight(n) ==
    {m \in net \cup UNION {checking[r] : r \in Router} : m.name = n}

\* The expiry timer of r's entry calls back.  An entry lives 6 s, longer than a
\* flood takes: one that ends earlier is a fault, and a race if it ends while the
\* reader is between the check of the same name and the lock.
Expire(r, n) ==
    /\ Pending(r, n)
    /\ End(r, n)
    /\ IF InFlight(n) = {} THEN UNCHANGED faults
       ELSE Fail(IF \E m \in checking[r] : m.name = n THEN "race" ELSE "early", n)
    /\ UNCHANGED <<net, checking, sent, heard, again, answered, answers>>

Lose(m) ==
    /\ net' = net \ {m}
    /\ Fail("loss", m.name)
    /\ UNCHANGED <<pit, dead, checking, sent, heard, again, answered, answers>>

\* A step of the thread that reads r's sockets.
Read(r) ==
    \/ \E m \in net : m.to = r /\ \/ DropDead(m) \/ Check(m) \/ Unsolicited(m)
                                  \/ PassBack(m) \/ Receive(m, TRUE) \/ Receive(m, FALSE)
    \/ \E m \in checking[r] : Idle(m) \/ Forward(m) \/ ForwardAnswered(m)

Next ==
    \/ \E r \in Leader : Send(r)
    \/ \E r \in Router : Read(r)
    \/ \E r \in Router, n \in Name : Expire(r, n)
    \/ \E m \in net : Lose(m)

Spec == Init /\ [][Next]_vars

\* As long as there is something to read, some reader reads.
FairSpec == Spec /\ WF_vars(\E r \in Router : Read(r))

-----------------------------------------------------------------------------
\* The variables have their types: above all, no packet is put on a link to Up.
TypeOK ==
    /\ pit \in [Router -> [Name -> SUBSET Face]]
    /\ dead \in [Router -> SUBSET Name]
    /\ net \subseteq Interest \cup Data
    /\ checking \in [Router -> SUBSET Interest]
    /\ sent \subseteq Router \X Name /\ heard \subseteq Router \X Name \X Router
    /\ again \subseteq Router \X Name /\ answered \subseteq Root \X Name
    /\ answers \in [Leader -> Nat]
    /\ faults \subseteq Fault

\* No daemon is handed a broadcast twice, although copies come on every link, and
\* after the entry was used up or has expired: unless one was between the check
\* of the dead nonces and the lock when the entry ended.
NoneTwice == \A p \in again : Faulty("race", p[2])

\* When the copies of a broadcast have come to rest, every router but the sender
\* has heard it, whichever copies were dropped as loops, aggregated, met a root
\* that answered or found the entry expired: unless one was lost.
Reached ==
    \A p \in sent : \/ \E m \in InFlight(p[2]) : m.type = "interest"
                    \/ Faulty("loss", p[2])
                    \/ \A r \in Router \ {p[1]} : HasHeard(r, p[2])

Smooth(n) == \A kind \in {"loss", "early", "race"} : ~Faulty(kind, n)

\* The answers of all the roots meet in the pending entries: the leader is handed
\* at most one, and when nothing is under way, and nothing failed, it has been.
OneAnswer ==
    \A a \in Leader \ Root :
        /\ answers[a] > 1 => Faulty("race", Request(a))
        /\ /\ InFlight(Request(a)) = {} /\ Smooth(Request(a))
           /\ \E r \in Root : <<r, Request(a)>> \in answered
           => answers[a] = 1

\* The broadcasts that have not reached everyone, and of which nothing was lost.
Underway ==
    {p \in sent : ~Faulty("loss", p[2]) /\ \E r \in Router \ {p[1]} : ~HasHeard(r, p[2])}

\* What a daemon broadcasts reaches all the others in the end.
Spreads == []<>(Underway = {})
=============================================================================
