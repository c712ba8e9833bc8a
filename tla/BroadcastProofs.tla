--------------------------- MODULE BroadcastProofs ---------------------------
(***************************************************************************)
(* The broadcasts of the address assignment, for any connected network, any*)
(* leaders and roots and any faults: types, no daemon is handed a broadcast*)
(* twice (NoneTwice), a broadcast at rest has reached everyone (Reached),  *)
(* and a leader is handed one answer (OneAnswer).                          *)
(***************************************************************************)
EXTENDS Broadcast, TLAPS

Told(r, n) == HasHeard(r, n) \/ <<r, n>> \in sent
Raced(n) == Faulty("race", n)
OnTheWay(m) == m \in net \/ \E r \in Router : m \in checking[r]
Coming(t, n) == \E m : OnTheWay(m) /\ m.type = "interest" /\ m.name = n /\ m.to = t
Returned(t, n) == \E m \in net : m.type = "data" /\ m.name = n /\ m.to = t
Sender(n) == n[3]

\* A reader checks one interest of its own at a time, and what it has found alive
\* stays alive until it has the lock.
Reading ==
  \A r \in Router : \A m \in checking[r] :
    /\ m.to = r
    /\ \A k \in checking[r] : k = m
    /\ Raced(m.name) \/ ~IsDead(r, m.name)

\* A router has a live or a dead entry of exactly the names its daemon knows.
Remembered ==
  \A r \in Router, n \in Name : Told(r, n) <=> Pending(r, n) \/ IsDead(r, n)

\* Whatever is on its way, or has been heard, comes from a router that knows it, and
\* in the end from the one that may send it.
Origins ==
  /\ \A p \in sent : p[1] = Sender(p[2])
  /\ \A r \in Router, n \in Name : Told(r, n) => <<Sender(n), n>> \in sent
  /\ \A r \in Router, n \in Name, f \in Router : <<r, n, f>> \in heard => f # r /\ Told(f, n)
  /\ \A m : OnTheWay(m) /\ m.type = "interest" => m.from # m.to /\ Told(m.from, m.name)
  /\ \A m \in net : m.type = "data" => <<m.from, m.name, m.to>> \in heard

\* The neighbour of a router that knows a name knows it, or is about to.
Spreading ==
  \A n \in Name, s \in Router : \A t \in Neighbor[s] :
    Told(s, n) => Told(t, n) \/ Faulty("loss", n) \/ Coming(t, n)

\* An entry has one face: the daemon's own, or the one the name was heard from.
Entries ==
  \A r \in Router, n \in Name : \A f \in pit[r][n] :
    /\ pit[r][n] = {f}
    /\ IF f = Up THEN <<r, n>> \in sent ELSE <<r, n, f>> \in heard

\* Nobody hears his own.
Alone == \A n \in Name : Raced(n) \/ ~HasHeard(Sender(n), n)

\* An answer uses an entry up, at the root and at the leader.
Used ==
  /\ \A p \in answered : IsDead(p[1], p[2])
  /\ \A a \in Leader \ Root :
       /\ answers[a] >= 1 => IsDead(a, Request(a))
       /\ answers[a] >= 1 => ~Pending(a, Request(a)) \/ Raced(Request(a))
       /\ answers[a] > 1 => Raced(Request(a))

\* Who heard a name from whom leads back to its sender: there are no circles.
Rooted ==
  \A n \in Name : Raced(n) \/ \A S \in SUBSET Router :
    /\ S # {}
    /\ \A r \in S : r = Sender(n) \/ \E f \in S : <<r, n, f>> \in heard
    => Sender(n) \in S

\* An entry that an answer has used up was heard from a router whose entry is used
\* up, too, or which an answer is on its way to.
Passed(t, n) ==
  IsDead(t, n) => \E f \in Router : <<t, n, f>> \in heard /\ (IsDead(f, n) \/ Returned(f, n))
Silent(n) ==
  /\ \A m : OnTheWay(m) => m.name # n
  /\ <<Sender(n), n>> \in sent
  /\ \A g \in Root : <<g, n>> \notin answered
Returning ==
  \A a \in Leader \ Root : LET n == Request(a) IN
    Smooth(n) => \/ answers[a] >= 1
                 \/ Silent(n)
                 \/ ~IsDead(a, n) /\ \A t \in Router : Passed(t, n)

IInv ==
  /\ TypeOK /\ Reading /\ Remembered /\ Origins /\ Spreading /\ Entries /\ Alone
  /\ Used /\ Rooted /\ Returning /\ NoneTwice

-----------------------------------------------------------------------------
(* Names and packets.                                                      *)

LEMMA Requests ==
  ASSUME NEW a \in Leader \ Root
  PROVE /\ Request(a) \in Name /\ Request(a)[1] = "req" /\ Sender(Request(a)) = a
        /\ \A r : r # a => Request(r) # Request(a)
  BY DEF Name, Request, Sender

LEMMA Gifts ==
  ASSUME NEW g \in Root, NEW r \in Leader
  PROVE /\ Given(g, r) \in Name /\ Given(g, r)[1] = "conf" /\ Sender(Given(g, r)) = r
        /\ \A s : Request(s) # Given(g, r)
  BY DEF Name, Request, Given, Sender

LEMMA Names ==
  ASSUME NEW n \in Name
  PROVE /\ Sender(n) \in Leader /\ Sender(n) \in Router
        /\ n[1] = "req" => Sender(n) \in Leader \ Root /\ n = Request(Sender(n))
        /\ \A r : n = Request(r) => r \in Leader \ Root /\ Sender(n) = r
  BY RouterAssumption DEF Name, Request, Given, Sender

LEMMA CopiesAre ==
  ASSUME NEW r \in Router, NEW n \in Name, NEW f
  PROVE /\ Copies(r, n, f) \subseteq Interest
        /\ \A m \in Copies(r, n, f) :
             m.type = "interest" /\ m.name = n /\ m.from = r /\ m.to \in Neighbor[r] \ {f}
        /\ \A t \in Neighbor[r] \ {f} : \E m \in Copies(r, n, f) :
             m.type = "interest" /\ m.name = n /\ m.to = t
<1>1. Neighbor[r] \subseteq Router
  BY LinkAssumption
<1>2. ASSUME NEW t \in Neighbor[r] \ {f}
      PROVE [type |-> "interest", name |-> n, from |-> r, to |-> t] \in Copies(r, n, f)
  BY DEF Copies
<1>3. QED
  BY <1>1, <1>2 DEF Copies, Interest

LEMMA AnswersAre ==
  ASSUME NEW r \in Router, NEW n \in Name, NEW g \in Root, NEW faces \in SUBSET Router
  PROVE /\ Answer(r, n, g, faces) \subseteq Data
        /\ \A m \in Answer(r, n, g, faces) :
             m.type = "data" /\ m.name = n /\ m.from = r /\ m.to \in faces
        /\ \A t \in faces : \E m \in Answer(r, n, g, faces) :
             m.type = "data" /\ m.name = n /\ m.to = t
<1>1. ASSUME NEW t \in faces
      PROVE [type |-> "data", name |-> n, by |-> g, from |-> r, to |-> t]
              \in Answer(r, n, g, faces)
  BY DEF Answer
<1>2. QED
  BY <1>1 DEF Answer, Data

LEMMA Packets ==
  ASSUME TypeOK, NEW m, m \in net \/ \E r \in Router : m \in checking[r]
  PROVE /\ m.name \in Name /\ m.from \in Router /\ m.to \in Router
        /\ m.type = "interest" => m \in Interest
        /\ m.type = "data" => m.by \in Root
        /\ (\E r \in Router : m \in checking[r]) => m.type = "interest"
  BY DEF TypeOK, Interest, Data

LEMMA FacesAre ==
  ASSUME TypeOK, NEW r \in Router, NEW n \in Name, NEW f
  PROVE FacesOf(r, n, f) \in SUBSET Router
  BY DEF TypeOK, FacesOf, Face

-----------------------------------------------------------------------------
(* Steps.                                                                  *)

\* What a daemon that sends c does, whatever else the step does.
Puts(r, c) ==
  /\ <<r, c>> \notin sent
  /\ sent' = sent \cup {<<r, c>>}
  /\ pit'[r][c] = IF Passes(r, c) THEN pit[r][c] \cup {Up} ELSE pit[r][c]
  /\ Passes(r, c) /\ ~Pending(r, c) => Copies(r, c, Up) \subseteq net'

LEMMA SendIs ==
  ASSUME TypeOK, NEW r \in Leader, Send(r)
  PROVE \E c \in Name :
          /\ Sender(c) = r /\ Puts(r, c)
          /\ pit' \in [Router -> [Name -> SUBSET Face]]
          /\ \A s \in Router, k \in Name : s # r \/ k # c => pit'[s][k] = pit[s][k]
          /\ net \subseteq net' /\ net' \subseteq net \cup Copies(r, c, Up)
          /\ UNCHANGED <<dead, checking, heard, again, answered, answers, faults>>
<1> DEFINE c == IF r \in Root THEN Given(r, r) ELSE Request(r)
<1>1. c \in Name /\ Sender(c) = r /\ r \in Router
  BY Requests, Gifts, RouterAssumption
<1>2. /\ <<r, c>> \notin sent /\ sent' = sent \cup {<<r, c>>}
      /\ net' = net \cup OwnCopies(r, c) /\ pit' = WithOwn(r, c)
      /\ UNCHANGED <<dead, checking, heard, again, answered, answers, faults>>
  BY DEF Send
<1> HIDE DEF c
<1>3. /\ pit' \in [Router -> [Name -> SUBSET Face]]
      /\ pit'[r][c] = IF Passes(r, c) THEN pit[r][c] \cup {Up} ELSE pit[r][c]
      /\ \A s \in Router, k \in Name : s # r \/ k # c => pit'[s][k] = pit[s][k]
  <2>1. pit \in [Router -> [Name -> SUBSET Face]] /\ Up \in Face
    BY DEF TypeOK, Face
  <2>2. CASE Passes(r, c)
    <3>1. pit' = [pit EXCEPT ![r][c] = @ \cup {Up}]
      BY <1>2, <2>2 DEF WithOwn
    <3>. QED
      BY <1>1, <2>1, <2>2, <3>1
  <2>3. CASE ~Passes(r, c)
    BY <1>2, <2>1, <2>3 DEF WithOwn
  <2>. QED
    BY <2>2, <2>3
<1>4. /\ OwnCopies(r, c) \subseteq Copies(r, c, Up)
      /\ Passes(r, c) /\ ~Pending(r, c) => OwnCopies(r, c) = Copies(r, c, Up)
  BY DEF OwnCopies
<1>5. net \subseteq net' /\ OwnCopies(r, c) \subseteq net' /\ net' \subseteq net \cup Copies(r, c, Up)
  BY <1>2, <1>4
<1>6. Puts(r, c)
  BY <1>2, <1>3, <1>4, <1>5 DEF Puts
<1>. QED
  BY <1>1, <1>2, <1>3, <1>5, <1>6

LEMMA ReceiveIs ==
  ASSUME TypeOK, NEW m \in net, NEW b \in BOOLEAN, Receive(m, b)
  PROVE LET r == m.to  n == m.name  c == Given(m.by, r)  out == Answer(r, n, m.by, FacesOf(r, n, m.from))
        IN  /\ m.type = "data" /\ checking[r] = {} /\ Pending(r, n) /\ n = Request(r)
            /\ r \in Router /\ r \in Leader \ Root /\ n \in Name /\ m.by \in Root
            /\ c \in Name /\ c # n /\ Sender(c) = r /\ c[1] = "conf"
            /\ pit' \in [Router -> [Name -> SUBSET Face]]
            /\ pit'[r][n] = {}
            /\ \A s \in Router, k \in Name : s # r \/ k \notin {n, c} => pit'[s][k] = pit[s][k]
            /\ \/ Puts(r, c)
               \/ (pit'[r][c] = pit[r][c] /\ sent' = sent)
            /\ dead' \in [Router -> SUBSET Name]
            /\ \A s \in Router, k \in Name : k \in dead'[s] <=> (k \in dead[s] \/ (s = r /\ k = n))
            /\ out \subseteq net'
            /\ net \ {m} \subseteq net'
            /\ net' \subseteq (net \ {m}) \cup out \cup Copies(r, c, Up)
            /\ sent' \subseteq sent \cup {<<r, c>>}
            /\ answers' \in [Leader -> Nat]
            /\ \A a \in Leader : answers'[a] = IF a = r THEN answers[a] + 1 ELSE answers[a]
            /\ UNCHANGED <<checking, heard, again, answered, faults>>
<1> DEFINE r == m.to  n == m.name  c == Given(m.by, r)
           uses == b /\ <<r, c>> \notin sent
           out == Answer(r, n, m.by, FacesOf(r, n, m.from))
<1>1. /\ m.type = "data" /\ checking[r] = {} /\ Pending(r, n) /\ n = Request(r)
      /\ pit' = [(IF uses THEN WithOwn(r, c) ELSE pit) EXCEPT ![r][n] = {}]
      /\ dead' = [dead EXCEPT ![r] = @ \cup {n}]
      /\ net' = (net \ {m}) \cup out \cup (IF uses THEN OwnCopies(r, c) ELSE {})
      /\ sent' = IF uses THEN sent \cup {<<r, c>>} ELSE sent
      /\ answers' = [answers EXCEPT ![r] = @ + 1]
      /\ UNCHANGED <<checking, heard, again, answered, faults>>
  BY DEF Receive
<1>2. r \in Router /\ n \in Name /\ m.by \in Root
  BY <1>1, Packets
<1>3. r \in Leader \ Root
  BY <1>1, <1>2, Names
<1>4. c \in Name /\ c # n /\ Sender(c) = r /\ c[1] = "conf"
  BY <1>1, <1>2, <1>3, Gifts
<1> DEFINE q == IF uses THEN WithOwn(r, c) ELSE pit
<1>5. /\ q \in [Router -> [Name -> SUBSET Face]]
      /\ \A s \in Router, k \in Name : s # r \/ k # c => q[s][k] = pit[s][k]
      /\ q[r][c] = IF uses /\ Passes(r, c) THEN pit[r][c] \cup {Up} ELSE pit[r][c]
  BY <1>2, <1>4 DEF WithOwn, TypeOK, Face
<1> HIDE DEF q, c
<1>6. /\ pit' \in [Router -> [Name -> SUBSET Face]]
      /\ pit'[r][n] = {}
      /\ \A s \in Router, k \in Name : s # r \/ k # n => pit'[s][k] = q[s][k]
  <2>1. pit' = [q EXCEPT ![r][n] = {}]
    BY <1>1 DEF q
  <2>2. QED
    BY <2>1, <1>2, <1>5
<1>7. pit'[r][c] = q[r][c]
  BY <1>6, <1>2, <1>4
<1>8. Puts(r, c) \/ (pit'[r][c] = pit[r][c] /\ sent' = sent)
  <2>1. CASE uses
    BY <2>1, <1>1, <1>5, <1>7 DEF Puts, OwnCopies
  <2>2. CASE ~uses
    BY <2>2, <1>1, <1>5, <1>7
  <2>3. QED
    BY <2>1, <2>2
<1>9. net' \subseteq (net \ {m}) \cup out \cup Copies(r, c, Up)
  BY <1>1 DEF OwnCopies
<1>10. QED
  <2>1. \A s \in Router, k \in Name : s # r \/ k \notin {n, c} => pit'[s][k] = pit[s][k]
    BY <1>5, <1>6
  <2>2. out \subseteq net' /\ net \ {m} \subseteq net' /\ sent' \subseteq sent \cup {<<r, c>>}
    BY <1>1
  <2>3. /\ dead' \in [Router -> SUBSET Name]
        /\ \A s \in Router, k \in Name : k \in dead'[s] <=> (k \in dead[s] \/ (s = r /\ k = n))
    BY <1>1, <1>2 DEF TypeOK
  <2>4. /\ answers' \in [Leader -> Nat]
        /\ \A a \in Leader : answers'[a] = IF a = r THEN answers[a] + 1 ELSE answers[a]
    BY <1>1, <1>3 DEF TypeOK
  <2>5. QED
    BY <1>1, <1>2, <1>3, <1>4, <1>6, <1>8, <1>9, <2>1, <2>2, <2>3, <2>4 DEF c

\* The daemon of r is handed what its reader has checked.
LEMMA HearIs ==
  ASSUME TypeOK, Reading, NEW r \in Router, NEW m \in checking[r],
         Forward(m) \/ ForwardAnswered(m)
  PROVE LET n == m.name
        IN  /\ m.to = r /\ m.type = "interest" /\ n \in Name /\ m.from \in Router
            /\ ~Pending(r, n) /\ checking' \in [Router -> SUBSET Interest]
            /\ \A s \in Router : checking'[s] = IF s = r THEN {} ELSE checking[s]
            /\ Copies(r, n, m.from) \subseteq net' /\ net \subseteq net'
            /\ heard' = heard \cup {<<r, n, m.from>>}
            /\ again' = IF HasHeard(r, n) THEN again \cup {<<r, n>>} ELSE again
            /\ UNCHANGED <<sent, answers, faults>>
            /\ pit' \in [Router -> [Name -> SUBSET Face]]
            /\ dead' \in [Router -> SUBSET Name]
            /\ \A s \in Router, k \in Name : s # r \/ k # n =>
                 pit'[s][k] = pit[s][k] /\ (k \in dead'[s] <=> k \in dead[s])
            /\ \/ /\ pit'[r][n] = {m.from}
                  /\ net' = net \cup Copies(r, n, m.from)
                  /\ UNCHANGED <<dead, answered>>
               \/ /\ r \in Root /\ n[1] = "req"
                  /\ n \in dead'[r]
                  /\ \A x \in net' : \/ x \in net \/ x \in Copies(r, n, m.from)
                                     \/ /\ x \in Data /\ x.type = "data" /\ x.name = n
                                        /\ x.from = r /\ x.to = m.from
                  /\ Returned(m.from, n)'
                  /\ answered' = answered \cup {<<r, n>>}
                  /\ pit' = pit
<1>1. /\ m.to = r /\ m.type = "interest" /\ m.name \in Name
      /\ m.from \in Router /\ m.from \in Face
  BY Packets DEF Reading, Face
<1>2. CASE Forward(m)
  <2>1. /\ pit' = [pit EXCEPT ![r][m.name] = {m.from}] /\ dead' = dead
        /\ checking' = [checking EXCEPT ![r] = {}]
    BY <1>1, <1>2 DEF Forward
  <2>2. /\ pit' \in [Router -> [Name -> SUBSET Face]] /\ dead' \in [Router -> SUBSET Name]
        /\ checking' \in [Router -> SUBSET Interest]
        /\ \A s \in Router : checking'[s] = IF s = r THEN {} ELSE checking[s]
        /\ pit'[r][m.name] = {m.from}
        /\ \A s \in Router, k \in Name : s # r \/ k # m.name => pit'[s][k] = pit[s][k]
    BY <1>1, <2>1 DEF TypeOK
  <2>3. QED
    BY <1>1, <1>2, <2>2 DEF Forward, Hear
<1>3. CASE ForwardAnswered(m)
  <2>1. /\ dead' = [dead EXCEPT ![r] = @ \cup {m.name}] /\ pit' = pit
        /\ checking' = [checking EXCEPT ![r] = {}]
    BY <1>1, <1>3 DEF ForwardAnswered
  <2>2. /\ pit' \in [Router -> [Name -> SUBSET Face]] /\ dead' \in [Router -> SUBSET Name]
        /\ checking' \in [Router -> SUBSET Interest]
        /\ \A s \in Router : checking'[s] = IF s = r THEN {} ELSE checking[s]
        /\ m.name \in dead'[r]
        /\ \A s \in Router, k \in Name : s # r \/ k # m.name => (k \in dead'[s] <=> k \in dead[s])
    BY <1>1, <2>1 DEF TypeOK
  <2> DEFINE back == Answer(r, m.name, r, {m.from})
  <2>3. /\ ~Pending(r, m.name) /\ r \in Root /\ m.name[1] = "req"
        /\ net' = net \cup back \cup Copies(r, m.name, m.from)
        /\ heard' = heard \cup {<<r, m.name, m.from>>}
        /\ again' = IF HasHeard(r, m.name) THEN again \cup {<<r, m.name>>} ELSE again
        /\ answered' = answered \cup {<<r, m.name>>}
        /\ UNCHANGED <<sent, answers, faults>>
    BY <1>1, <1>3 DEF ForwardAnswered, CanAnswer, Hear
  <2>4. /\ \A x \in back : /\ x \in Data /\ x.type = "data" /\ x.name = m.name
                           /\ x.from = r /\ x.to = m.from
        /\ \E x \in back : x.type = "data" /\ x.name = m.name /\ x.to = m.from
    <3> DEFINE F == {m.from}
    <3>1. F \in SUBSET Router
      BY <1>1
    <3> HIDE DEF F
    <3>2. /\ Answer(r, m.name, r, F) \subseteq Data
          /\ \A x \in Answer(r, m.name, r, F) :
               x.type = "data" /\ x.name = m.name /\ x.from = r /\ x.to \in F
          /\ \A t \in F : \E x \in Answer(r, m.name, r, F) :
               x.type = "data" /\ x.name = m.name /\ x.to = t
      BY <3>1, <2>3, <1>1, AnswersAre
    <3>3. QED
      BY <3>2 DEF F
  <2> HIDE DEF back
  <2>5. Returned(m.from, m.name)'
    BY <2>3, <2>4 DEF Returned
  <2>6. QED
    BY <1>1, <2>1, <2>2, <2>3, <2>4, <2>5
<1>4. QED
  BY <1>2, <1>3

\* An entry that ends by an answer or by its timer.
LEMMA EndIs ==
  ASSUME TypeOK, NEW r \in Router, NEW n \in Name, End(r, n)
  PROVE /\ pit'[r][n] = {} /\ dead' \in [Router -> SUBSET Name]
        /\ \A s \in Router, k \in Name : k \in dead'[s] <=> (k \in dead[s] \/ (s = r /\ k = n))
        /\ pit' \in [Router -> [Name -> SUBSET Face]]
        /\ \A s \in Router, k \in Name : s # r \/ k # n => pit'[s][k] = pit[s][k]
  BY DEF End, TypeOK

\* The entry that meets another copy has the same face already, or no longer.
LEMMA IdleIs ==
  ASSUME TypeOK, Reading, Entries, NEW r \in Router, NEW m \in checking[r], Idle(m)
  PROVE /\ m.to = r /\ m.name \in Name /\ Pending(r, m.name)
        /\ checking' = [checking EXCEPT ![r] = {}]
        /\ \A s \in Router : checking'[s] = IF s = r THEN {} ELSE checking[s]
        /\ UNCHANGED <<pit, dead, net, sent, heard, again, answered, answers, faults>>
<1> DEFINE n == m.name
<1>1. m.to = r /\ n \in Name
  BY Packets DEF Reading
<1>2. /\ Pending(r, n) /\ checking' = [checking EXCEPT ![r] = {}]
      /\ pit' = IF Looping(r, n, m.from) THEN pit
                ELSE [pit EXCEPT ![r][n] = @ \cup {m.from}]
      /\ UNCHANGED <<dead, net, sent, heard, again, answered, answers, faults>>
  BY <1>1 DEF Idle
<1>3. ~Looping(r, n, m.from) => pit[r][n] \cup {m.from} = pit[r][n]
  BY <1>2 DEF Looping, Pending
<1>4. pit' = pit
  BY <1>1, <1>2, <1>3 DEF TypeOK
<1>5. \A s \in Router : checking'[s] = IF s = r THEN {} ELSE checking[s]
  BY <1>2 DEF TypeOK
<1>6. QED
  BY <1>1, <1>2, <1>4, <1>5

LEMMA Cases ==
  ASSUME TypeOK, Next
  PROVE \/ \E r \in Leader : Send(r)
        \/ \E m \in net : DropDead(m)
        \/ \E m \in net : Check(m)
        \/ \E m \in net : Unsolicited(m)
        \/ \E m \in net : PassBack(m)
        \/ \E m \in net, b \in BOOLEAN : Receive(m, b)
        \/ \E r \in Router : \E m \in checking[r] : Idle(m)
        \/ \E r \in Router : \E m \in checking[r] : Forward(m) \/ ForwardAnswered(m)
        \/ \E r \in Router, n \in Name : Expire(r, n)
        \/ \E m \in net : Lose(m)
  BY DEF Next, Read

LEMMA Fails ==
  ASSUME TypeOK, NEW n \in Name, NEW kind \in {"loss", "early", "race"}, Fail(kind, n)
  PROVE Faulty(kind, n)' /\ faults \subseteq faults' /\ faults' \subseteq Fault
  BY DEF Fail, Faulty, Fault, TypeOK

LEMMA ExpireIs ==
  ASSUME TypeOK, NEW r \in Router, NEW n \in Name, Expire(r, n)
  PROVE /\ Pending(r, n) /\ End(r, n) /\ faults \subseteq faults' /\ faults' \subseteq Fault
        /\ \A m \in checking[r] : m.name = n => Raced(n)'
        /\ \/ \A m : OnTheWay(m) => m.name # n
           \/ Faulty("early", n)' \/ Raced(n)'
        /\ UNCHANGED <<net, checking, sent, heard, again, answered, answers>>
<1>1. CASE InFlight(n) = {}
  BY <1>1 DEF Expire, InFlight, OnTheWay, TypeOK
<1>2. CASE InFlight(n) # {}
  BY <1>2, Fails DEF Expire, Raced
<1>3. QED
  BY <1>1, <1>2

-----------------------------------------------------------------------------
(* Types.                                                                  *)

LEMMA TypeStep ==
  ASSUME TypeOK, Reading, Entries, [Next]_vars
  PROVE TypeOK'
<1>1. ASSUME NEW r \in Leader, Send(r)
      PROVE TypeOK'
  <2>1. PICK c \in Name :
          /\ Puts(r, c) /\ pit' \in [Router -> [Name -> SUBSET Face]]
          /\ net' \subseteq net \cup Copies(r, c, Up)
          /\ UNCHANGED <<dead, checking, heard, again, answered, answers, faults>>
    BY <1>1, SendIs
  <2>2. r \in Router /\ Copies(r, c, Up) \subseteq Interest
    BY CopiesAre, RouterAssumption
  <2>3. QED
    BY <2>1, <2>2 DEF TypeOK, Puts
<1>2. ASSUME NEW m \in net, DropDead(m) \/ Unsolicited(m)
      PROVE TypeOK'
  BY <1>2 DEF TypeOK, DropDead, Unsolicited
<1>3. ASSUME NEW m \in net, Check(m)
      PROVE TypeOK'
  <2>1. m \in Interest
    BY <1>3, Packets DEF Check
  <2>2. QED
    BY <1>3, <2>1 DEF TypeOK, Check
<1>4. ASSUME NEW m \in net, PassBack(m)
      PROVE TypeOK'
  <2>1. m.to \in Router /\ m.name \in Name /\ m.by \in Root
    BY <1>4, Packets DEF PassBack
  <2>2. Answer(m.to, m.name, m.by, FacesOf(m.to, m.name, m.from)) \subseteq Data
    BY <2>1, FacesAre, AnswersAre
  <2>3. End(m.to, m.name)
    BY <1>4 DEF PassBack
  <2>4. QED
    BY <1>4, <2>1, <2>2, <2>3, EndIs DEF TypeOK, PassBack
<1>5. ASSUME NEW m \in net, NEW b \in BOOLEAN, Receive(m, b)
      PROVE TypeOK'
  <2> DEFINE r == m.to  n == m.name  c == Given(m.by, r)
             out == Answer(r, n, m.by, FacesOf(r, n, m.from))
  <2>1. /\ r \in Router /\ r \in Leader \ Root /\ n \in Name /\ m.by \in Root /\ c \in Name
        /\ pit' \in [Router -> [Name -> SUBSET Face]]
        /\ dead' \in [Router -> SUBSET Name]
        /\ net' \subseteq (net \ {m}) \cup out \cup Copies(r, c, Up)
        /\ sent' \subseteq sent \cup {<<r, c>>}
        /\ answers' \in [Leader -> Nat]
        /\ UNCHANGED <<checking, heard, again, answered, faults>>
    BY <1>5, ReceiveIs
  <2>2. out \subseteq Data /\ Copies(r, c, Up) \subseteq Interest
    BY <2>1, FacesAre, AnswersAre, CopiesAre
  <2> HIDE DEF c, out
  <2>3. QED
    BY <2>1, <2>2 DEF TypeOK
<1>6. ASSUME NEW r \in Router, NEW m \in checking[r], Idle(m)
      PROVE TypeOK'
  BY <1>6, IdleIs DEF TypeOK
<1>7. ASSUME NEW r \in Router, NEW m \in checking[r], Forward(m) \/ ForwardAnswered(m)
      PROVE TypeOK'
  <2> DEFINE n == m.name
  <2>1. /\ n \in Name /\ m.from \in Router
        /\ checking' \in [Router -> SUBSET Interest]
        /\ pit' \in [Router -> [Name -> SUBSET Face]]
        /\ dead' \in [Router -> SUBSET Name]
        /\ heard' = heard \cup {<<r, n, m.from>>}
        /\ again' = IF HasHeard(r, n) THEN again \cup {<<r, n>>} ELSE again
        /\ UNCHANGED <<sent, answers, faults>>
        /\ \/ net' = net \cup Copies(r, n, m.from) /\ answered' = answered
           \/ /\ \A x \in net' : x \in net \/ x \in Copies(r, n, m.from) \/ x \in Data
              /\ r \in Root /\ answered' = answered \cup {<<r, n>>}
    BY <1>7, HearIs
  <2>2. Copies(r, n, m.from) \subseteq Interest
    BY <2>1, CopiesAre
  <2>3. net' \subseteq Interest \cup Data /\ answered' \subseteq Root \X Name
    BY <2>1, <2>2 DEF TypeOK
  <2>4. QED
    BY <2>1, <2>3 DEF TypeOK
<1>8. ASSUME NEW r \in Router, NEW n \in Name, Expire(r, n)
      PROVE TypeOK'
  BY <1>8, ExpireIs, EndIs DEF TypeOK
<1>9. ASSUME NEW m \in net, Lose(m)
      PROVE TypeOK'
  <2>1. m.name \in Name
    BY Packets
  <2>2. QED
    BY <1>9, <2>1, Fails DEF TypeOK, Lose
<1>10. CASE UNCHANGED vars
  BY <1>10 DEF TypeOK, vars
<1>11. QED
  BY <1>1, <1>2, <1>3, <1>4, <1>5, <1>6, <1>7, <1>8, <1>9, <1>10, Cases

-----------------------------------------------------------------------------
(* What is known stays known.                                              *)

LEMMA Grows ==
  ASSUME TypeOK, Reading, Entries, [Next]_vars
  PROVE /\ sent \subseteq sent' /\ heard \subseteq heard' /\ faults \subseteq faults'
        /\ \A r \in Router : dead[r] \subseteq dead'[r]
<1>1. ASSUME NEW r \in Leader, Send(r)
      PROVE sent \subseteq sent' /\ UNCHANGED <<dead, heard, faults>>
  BY <1>1 DEF Send
<1>2. ASSUME NEW m \in net, DropDead(m) \/ Unsolicited(m) \/ Check(m)
      PROVE UNCHANGED <<sent, dead, heard, faults>>
  BY <1>2 DEF DropDead, Unsolicited, Check
<1>3. ASSUME NEW m \in net, PassBack(m)
      PROVE /\ \A r \in Router : dead[r] \subseteq dead'[r]
            /\ UNCHANGED <<sent, heard, faults>>
  BY <1>3 DEF PassBack, End, TypeOK
<1>4. ASSUME NEW m \in net, NEW b \in BOOLEAN, Receive(m, b)
      PROVE /\ \A r \in Router : dead[r] \subseteq dead'[r]
            /\ sent \subseteq sent' /\ UNCHANGED <<heard, faults>>
  BY <1>4 DEF Receive, TypeOK
<1>5. ASSUME NEW r \in Router, NEW m \in checking[r], Idle(m)
      PROVE UNCHANGED <<sent, dead, heard, faults>>
  BY <1>5, IdleIs
<1>6. ASSUME NEW r \in Router, NEW m \in checking[r], Forward(m) \/ ForwardAnswered(m)
      PROVE /\ \A s \in Router : dead[s] \subseteq dead'[s]
            /\ heard \subseteq heard' /\ UNCHANGED <<sent, faults>>
  <2>1. dead \in [Router -> SUBSET Name]
    BY DEF TypeOK
  <2>2. /\ dead' \in [Router -> SUBSET Name]
        /\ \A s \in Router, k \in Name : k \in dead[s] => k \in dead'[s]
        /\ heard \subseteq heard' /\ UNCHANGED <<sent, faults>>
    BY <1>6, HearIs
  <2>3. QED
    BY <2>1, <2>2
<1>7. ASSUME NEW r \in Router, NEW n \in Name, Expire(r, n)
      PROVE /\ \A s \in Router : dead[s] \subseteq dead'[s]
            /\ faults \subseteq faults' /\ UNCHANGED <<sent, heard>>
  <2>1. dead \in [Router -> SUBSET Name]
    BY DEF TypeOK
  <2>2. QED
    BY <1>7, <2>1, ExpireIs, EndIs
<1>8. ASSUME NEW m \in net, Lose(m)
      PROVE faults \subseteq faults' /\ UNCHANGED <<sent, dead, heard>>
  BY <1>8 DEF Lose, Fail
<1>9. CASE UNCHANGED vars
  BY <1>9 DEF vars
<1>10. QED
  BY <1>1, <1>2, <1>3, <1>4, <1>5, <1>6, <1>7, <1>8, <1>9, Cases

LEMMA GrowsToo ==
  ASSUME TypeOK, Reading, Entries, [Next]_vars
  PROVE /\ \A r \in Router, n \in Name :
             /\ HasHeard(r, n) => HasHeard(r, n)'
             /\ Told(r, n) => Told(r, n)'
             /\ IsDead(r, n) => IsDead(r, n)'
        /\ \A n \in Name : \A kind : Faulty(kind, n) => Faulty(kind, n)'
        /\ \A n \in Name : Raced(n) => Raced(n)'
  BY Grows DEF HasHeard, Told, IsDead, Faulty, Raced

-----------------------------------------------------------------------------
(* The reader between the check and the lock.                              *)

LEMMA ReadingStep ==
  ASSUME TypeOK, Reading, Entries, [Next]_vars
  PROVE Reading'
<1>1. ASSUME NEW r \in Router, NEW m \in checking'[r], m \in checking[r],
             checking'[r] = checking[r], ~IsDead(r, m.name)' \/ IsDead(r, m.name) \/ Raced(m.name)'
      PROVE /\ m.to = r /\ \A k \in checking'[r] : k = m
            /\ Raced(m.name)' \/ ~IsDead(r, m.name)'
  <2>1. m.name \in Name
    BY <1>1, Packets
  <2>2. QED
    BY <1>1, <2>1, GrowsToo DEF Reading
<1>2. ASSUME NEW r \in Leader, Send(r)
      PROVE Reading'
  BY <1>1, <1>2 DEF Send, Reading, IsDead
<1>3. ASSUME NEW m \in net, DropDead(m) \/ Unsolicited(m)
      PROVE Reading'
  BY <1>1, <1>3 DEF DropDead, Unsolicited, Reading, IsDead
<1>4. ASSUME NEW m \in net, Check(m)
      PROVE Reading'
  <2>1. /\ m.to \in Router /\ checking' = [checking EXCEPT ![m.to] = {m}]
        /\ dead' = dead /\ ~IsDead(m.to, m.name)
    BY <1>4, Packets DEF Check
  <2>2. \A r \in Router : checking'[r] = IF r = m.to THEN {m} ELSE checking[r]
    BY <2>1 DEF TypeOK
  <2>3. ASSUME NEW r \in Router, NEW k \in checking'[r]
        PROVE /\ k.to = r /\ \A j \in checking'[r] : j = k
              /\ Raced(k.name)' \/ ~IsDead(r, k.name)'
    <3>1. CASE r = m.to
      BY <3>1, <2>1, <2>2 DEF IsDead
    <3>2. CASE r # m.to
      BY <3>2, <1>1, <2>1, <2>2 DEF IsDead
    <3>3. QED
      BY <3>1, <3>2
  <2>4. QED
    BY <2>3 DEF Reading
<1>5. ASSUME NEW m \in net, PassBack(m) \/ \E b \in BOOLEAN : Receive(m, b)
      PROVE Reading'
  <2>1. /\ m.to \in Router /\ checking[m.to] = {} /\ checking' = checking
        /\ \A r \in Router : r # m.to => dead'[r] = dead[r]
    BY <1>5, Packets DEF PassBack, Receive, End, TypeOK
  <2>2. QED
    BY <1>1, <2>1 DEF Reading, IsDead
<1>6. ASSUME NEW r \in Router, NEW m \in checking[r], Idle(m)
      PROVE Reading'
  <2>1. /\ dead' = dead /\ \A s \in Router : checking'[s] = IF s = r THEN {} ELSE checking[s]
    BY <1>6, IdleIs
  <2>2. QED
    BY <1>1, <2>1 DEF Reading, IsDead
<1>7. ASSUME NEW r \in Router, NEW m \in checking[r], Forward(m) \/ ForwardAnswered(m)
      PROVE Reading'
  <2>1. \A s \in Router : checking'[s] = IF s = r THEN {} ELSE checking[s]
    BY <1>7, HearIs
  <2>2. m.name \in Name /\ \A s \in Router, k \in Name : s # r => (k \in dead'[s] <=> k \in dead[s])
    BY <1>7, HearIs
  <2>3. \A s \in Router : \A k \in checking[s] : k.name \in Name
    BY Packets
  <2>4. QED
    BY <1>1, <2>1, <2>2, <2>3 DEF Reading, IsDead
<1>8. ASSUME NEW r \in Router, NEW n \in Name, Expire(r, n)
      PROVE Reading'
  <2>1. /\ checking' = checking
        /\ \A s \in Router, k \in Name : k \in dead'[s] <=> (k \in dead[s] \/ (s = r /\ k = n))
        /\ \A m \in checking[r] : m.name = n => Raced(n)'
    BY <1>8, ExpireIs, EndIs
  <2>2. \A s \in Router : \A k \in checking[s] : k.name \in Name
    BY Packets
  <2>3. QED
    BY <1>1, <2>1, <2>2 DEF Reading, IsDead
<1>9. ASSUME NEW m \in net, Lose(m)
      PROVE Reading'
  BY <1>1, <1>9 DEF Lose, Reading, IsDead
<1>10. CASE UNCHANGED vars
  BY <1>1, <1>10 DEF vars, Reading, IsDead
<1>11. QED
  BY <1>2, <1>3, <1>4, <1>5, <1>6, <1>7, <1>8, <1>9, <1>10, Cases

-----------------------------------------------------------------------------
(* A router has an entry, live or dead, of exactly what it knows.          *)

LEMMA PutRemembers ==
  ASSUME TypeOK, NEW r \in Router, NEW c \in Name, Puts(r, c), dead[r] \subseteq dead'[r]
  PROVE Pending(r, c)' \/ IsDead(r, c)'
<1>1. CASE Passes(r, c)
  BY <1>1 DEF Puts, Pending
<1>2. CASE ~Passes(r, c)
  BY <1>2 DEF Puts, Passes, Pending, IsDead, Looping
<1>3. QED
  BY <1>1, <1>2

LEMMA RememberedStep ==
  ASSUME TypeOK, Reading, Entries, Remembered, [Next]_vars
  PROVE Remembered'
<1> DEFINE Same(r, n) == (Told(r, n) <=> Pending(r, n) \/ IsDead(r, n))'
<1>1. ASSUME NEW r \in Router, NEW n \in Name,
             pit'[r][n] = pit[r][n], n \in dead'[r] <=> n \in dead[r],
             Told(r, n)' <=> Told(r, n)
      PROVE Same(r, n)
  BY <1>1 DEF Remembered, Pending, IsDead
<1>2. ASSUME NEW q \in Leader, Send(q)
      PROVE Remembered'
  <2>1. PICK c \in Name :
          /\ Puts(q, c)
          /\ \A s \in Router, k \in Name : s # q \/ k # c => pit'[s][k] = pit[s][k]
          /\ UNCHANGED <<dead, heard>>
    BY <1>2, SendIs
  <2>2. q \in Router
    BY RouterAssumption
  <2>3. Same(q, c)
    BY <2>1, <2>2, PutRemembers DEF Puts, Told
  <2>4. ASSUME NEW r \in Router, NEW n \in Name, r # q \/ n # c
        PROVE Same(r, n)
    <3>1. Told(r, n)' <=> Told(r, n)
      BY <2>1, <2>4 DEF Told, HasHeard, Puts
    <3>2. QED
      BY <3>1, <2>1, <2>4, <1>1
  <2>5. QED
    BY <2>3, <2>4 DEF Remembered
<1>3. ASSUME NEW m \in net, DropDead(m) \/ Unsolicited(m) \/ Check(m)
      PROVE Remembered'
  BY <1>3 DEF DropDead, Unsolicited, Check, Remembered, Told, HasHeard, Pending, IsDead
<1>4. ASSUME NEW m \in net, PassBack(m)
      PROVE Remembered'
  <2>1. /\ m.to \in Router /\ m.name \in Name /\ Pending(m.to, m.name) /\ End(m.to, m.name)
        /\ UNCHANGED <<sent, heard>>
    BY <1>4, Packets DEF PassBack
  <2>2. Same(m.to, m.name)
    BY <2>1, EndIs DEF Remembered, IsDead, Told, HasHeard
  <2>3. ASSUME NEW r \in Router, NEW n \in Name, r # m.to \/ n # m.name
        PROVE Same(r, n)
    <3>1. pit'[r][n] = pit[r][n] /\ (n \in dead'[r] <=> n \in dead[r])
      BY <2>1, <2>3, EndIs
    <3>2. Told(r, n)' <=> Told(r, n)
      BY <2>1 DEF Told, HasHeard
    <3>3. QED
      BY <3>1, <3>2, <1>1
  <2>4. QED
    BY <2>2, <2>3 DEF Remembered
<1>5. ASSUME NEW m \in net, NEW b \in BOOLEAN, Receive(m, b)
      PROVE Remembered'
  <2> DEFINE q == m.to  k == m.name  c == Given(m.by, q)
  <2>1. /\ q \in Router /\ k \in Name /\ c \in Name /\ c # k /\ Pending(q, k)
        /\ pit'[q][k] = {}
        /\ \A s \in Router, j \in Name : s # q \/ j \notin {k, c} => pit'[s][j] = pit[s][j]
        /\ Puts(q, c) \/ (pit'[q][c] = pit[q][c] /\ sent' = sent)
        /\ \A s \in Router, j \in Name : j \in dead'[s] <=> (j \in dead[s] \/ (s = q /\ j = k))
        /\ heard' = heard
        /\ sent' \subseteq sent \cup {<<q, c>>}
    BY <1>5, ReceiveIs
  <2> HIDE DEF c
  <2>2. sent \subseteq sent' /\ \A s \in Router : dead[s] \subseteq dead'[s]
    BY Grows
  <2>3. Same(q, k)
    BY <2>1, <2>2 DEF Remembered, IsDead, Told, HasHeard
  <2>4. Same(q, c)
    <3>1. CASE Puts(q, c)
      BY <3>1, <2>1, <2>2, PutRemembers DEF Puts, Told
    <3>2. CASE pit'[q][c] = pit[q][c] /\ sent' = sent
      BY <3>2, <2>1, <2>2, <1>1 DEF Told, HasHeard
    <3>3. QED
      BY <2>1, <3>1, <3>2
  <2>5. ASSUME NEW r \in Router, NEW n \in Name, r # q \/ n \notin {k, c}
        PROVE Same(r, n)
    <3>1. Told(r, n)' <=> Told(r, n)
      BY <2>1, <2>2, <2>5 DEF Told, HasHeard
    <3>2. QED
      BY <3>1, <2>1, <2>2, <2>5, <1>1
  <2>6. QED
    BY <2>3, <2>4, <2>5 DEF Remembered
<1>6. ASSUME NEW r \in Router, NEW m \in checking[r], Idle(m)
      PROVE Remembered'
  BY <1>6, IdleIs DEF Remembered, Told, HasHeard, Pending, IsDead
<1>7. ASSUME NEW q \in Router, NEW m \in checking[q], Forward(m) \/ ForwardAnswered(m)
      PROVE Remembered'
  <2>1. /\ m.name \in Name /\ m.from \in Router /\ heard' = heard \cup {<<q, m.name, m.from>>}
        /\ sent' = sent
    BY <1>7, HearIs
  <2>2. \A s \in Router, j \in Name :
          s # q \/ j # m.name => pit'[s][j] = pit[s][j] /\ (j \in dead'[s] <=> j \in dead[s])
    BY <1>7, HearIs
  <2>3. Pending(q, m.name)' \/ IsDead(q, m.name)'
    <3>1. pit'[q][m.name] = {m.from} \/ m.name \in dead'[q]
      BY <1>7, HearIs
    <3>2. QED
      BY <3>1 DEF Pending, IsDead
  <2>4. Same(q, m.name)
    BY <2>1, <2>3 DEF Told, HasHeard
  <2>5. ASSUME NEW r \in Router, NEW n \in Name, r # q \/ n # m.name
        PROVE Same(r, n)
    <3>1. Told(r, n)' <=> Told(r, n)
      BY <2>1, <2>5 DEF Told, HasHeard
    <3>2. QED
      BY <3>1, <2>2, <2>5, <1>1
  <2>6. QED
    BY <2>4, <2>5 DEF Remembered
<1>8. ASSUME NEW q \in Router, NEW k \in Name, Expire(q, k)
      PROVE Remembered'
  <2>1. Pending(q, k) /\ End(q, k) /\ UNCHANGED <<sent, heard>>
    BY <1>8, ExpireIs
  <2>2. Same(q, k)
    BY <2>1, EndIs DEF Remembered, IsDead, Told, HasHeard
  <2>3. ASSUME NEW r \in Router, NEW n \in Name, r # q \/ n # k
        PROVE Same(r, n)
    <3>1. pit'[r][n] = pit[r][n] /\ (n \in dead'[r] <=> n \in dead[r])
      BY <2>1, <2>3, EndIs
    <3>2. Told(r, n)' <=> Told(r, n)
      BY <2>1 DEF Told, HasHeard
    <3>3. QED
      BY <3>1, <3>2, <1>1
  <2>4. QED
    BY <2>2, <2>3 DEF Remembered
<1>9. ASSUME NEW m \in net, Lose(m)
      PROVE Remembered'
  BY <1>9 DEF Lose, Remembered, Told, HasHeard, Pending, IsDead
<1>10. CASE UNCHANGED vars
  BY <1>10 DEF vars, Remembered, Told, HasHeard, Pending, IsDead
<1>11. QED
  BY <1>2, <1>3, <1>4, <1>5, <1>6, <1>7, <1>8, <1>9, <1>10, Cases

-----------------------------------------------------------------------------
(* Where names and packets come from.                                      *)

LEMMA Learns ==
  ASSUME TypeOK, Reading, Entries, [Next]_vars
  PROVE /\ \/ sent' = sent
           \/ \E r \in Router, c \in Name :
                Sender(c) = r /\ Puts(r, c) /\ heard' = heard
        /\ \/ heard' = heard
           \/ \E r \in Router : \E m \in checking[r] :
                /\ Forward(m) \/ ForwardAnswered(m)
                /\ heard' = heard \cup {<<r, m.name, m.from>>} /\ sent' = sent
<1>1. ASSUME NEW r \in Leader, Send(r)
      PROVE \E c \in Name : r \in Router /\ Sender(c) = r /\ Puts(r, c) /\ heard' = heard
  BY <1>1, SendIs, RouterAssumption
<1>2. ASSUME NEW m \in net, NEW b \in BOOLEAN, Receive(m, b)
      PROVE /\ heard' = heard
            /\ sent' = sent \/ \E r \in Router, c \in Name : Sender(c) = r /\ Puts(r, c)
  <2>1. /\ heard' = heard /\ m.to \in Router /\ Given(m.by, m.to) \in Name
        /\ Sender(Given(m.by, m.to)) = m.to
        /\ \/ Puts(m.to, Given(m.by, m.to))
           \/ sent' = sent
    BY <1>2, ReceiveIs
  <2>2. QED
    BY <2>1
<1>3. ASSUME NEW r \in Router, NEW m \in checking[r], Forward(m) \/ ForwardAnswered(m)
      PROVE heard' = heard \cup {<<r, m.name, m.from>>} /\ sent' = sent
  BY <1>3, HearIs
<1>4. ASSUME \/ \E m \in net : DropDead(m) \/ Check(m) \/ Unsolicited(m) \/ PassBack(m) \/ Lose(m)
             \/ \E r \in Router : \E m \in checking[r] : Idle(m)
             \/ \E r \in Router, n \in Name : Expire(r, n)
             \/ UNCHANGED vars
      PROVE sent' = sent /\ heard' = heard
  BY <1>4 DEF DropDead, Check, Unsolicited, PassBack, Lose, Idle, Expire, vars
<1>5. QED
  BY <1>1, <1>2, <1>3, <1>4, Cases

LEMMA PassedOn ==
  ASSUME TypeOK, Entries, NEW r \in Router, NEW n \in Name, NEW g \in Root, NEW f,
         NEW m \in Answer(r, n, g, FacesOf(r, n, f))
  PROVE m.type = "data" /\ m.name = n /\ m.from = r /\ m.to \in Router /\ <<r, n, m.to>> \in heard
<1>1. /\ m.type = "data" /\ m.name = n /\ m.from = r
      /\ m.to \in FacesOf(r, n, f) /\ m.to \in Router
  BY FacesAre, AnswersAre
<1>2. QED
  BY <1>1 DEF FacesOf, Entries

LEMMA NewPackets ==
  ASSUME TypeOK, Reading, Entries, [Next]_vars, NEW x, OnTheWay(x)'
  PROVE \/ OnTheWay(x)
        \/ /\ x.type = "interest" /\ x.from \in Router /\ x.name \in Name /\ x.from # x.to
           /\ Told(x.from, x.name)'
        \/ x.type = "data" /\ <<x.from, x.name, x.to>> \in heard'
<1> DEFINE Made == /\ x.type = "interest" /\ x.from \in Router /\ x.name \in Name
                   /\ x.from # x.to /\ Told(x.from, x.name)'
           Back == x.type = "data" /\ <<x.from, x.name, x.to>> \in heard'
<1>1. ASSUME NEW r \in Router, NEW c \in Name, NEW f, x \in Copies(r, c, f), Told(r, c)'
      PROVE Made
  BY <1>1, CopiesAre, LinkAssumption
<1>2. ASSUME checking' = checking, x \notin net'
      PROVE OnTheWay(x)
  BY <1>2 DEF OnTheWay
<1>3. ASSUME NEW r \in Leader, Send(r)
      PROVE OnTheWay(x) \/ Made
  <2>1. PICK c \in Name : /\ r \in Router /\ <<r, c>> \in sent' /\ checking' = checking
                          /\ net' \subseteq net \cup Copies(r, c, Up)
    BY <1>3, SendIs, RouterAssumption DEF Puts
  <2>2. QED
    BY <1>1, <1>2, <2>1 DEF OnTheWay, Told
<1>4. ASSUME NEW m \in net, DropDead(m) \/ Unsolicited(m) \/ Check(m) \/ Lose(m)
      PROVE OnTheWay(x)
  <2>1. CASE Check(m)
    <3>1. \A s \in Router : checking'[s] = checking[s] \/ checking'[s] = {m}
      BY <2>1 DEF Check, TypeOK
    <3>2. net' \subseteq net
      BY <2>1 DEF Check
    <3>3. QED
      BY <3>1, <3>2 DEF OnTheWay
  <2>2. CASE ~Check(m)
    BY <2>2, <1>4 DEF DropDead, Unsolicited, Lose, OnTheWay
  <2>3. QED
    BY <2>1, <2>2
<1>5. ASSUME NEW m \in net, PassBack(m)
      PROVE OnTheWay(x) \/ Back
  <2>1. /\ m.to \in Router /\ m.name \in Name /\ m.by \in Root /\ m.from \in Router
        /\ checking' = checking /\ heard' = heard
        /\ net' = (net \ {m}) \cup Answer(m.to, m.name, m.by, FacesOf(m.to, m.name, m.from))
    BY <1>5, Packets DEF PassBack
  <2>2. CASE x \in Answer(m.to, m.name, m.by, FacesOf(m.to, m.name, m.from))
    <3>1. /\ x.type = "data" /\ x.name = m.name /\ x.from = m.to
          /\ <<m.to, m.name, x.to>> \in heard
      BY <2>1, <2>2, PassedOn
    <3>2. QED
      BY <2>1, <3>1
  <2>3. CASE x \notin Answer(m.to, m.name, m.by, FacesOf(m.to, m.name, m.from))
    BY <2>1, <2>3 DEF OnTheWay
  <2>4. QED
    BY <2>2, <2>3
<1>6. ASSUME NEW m \in net, NEW b \in BOOLEAN, Receive(m, b)
      PROVE OnTheWay(x) \/ Made \/ Back
  <2> DEFINE r == m.to  n == m.name  c == Given(m.by, r)
             out == Answer(r, n, m.by, FacesOf(r, n, m.from))
  <2>1. /\ r \in Router /\ n \in Name /\ m.by \in Root /\ c \in Name
        /\ \/ Puts(r, c)
           \/ sent' = sent
        /\ net' \subseteq (net \ {m}) \cup out \cup Copies(r, c, Up)
        /\ checking' = checking /\ heard' = heard
    BY <1>6, ReceiveIs
  <2>2. CASE x \in out
    <3>1. x.type = "data" /\ x.name = n /\ x.from = r /\ <<r, n, x.to>> \in heard
      BY <2>1, <2>2, PassedOn
    <3>2. QED
      BY <2>1, <3>1
  <2>3. CASE x \in Copies(r, c, Up) /\ <<r, c>> \in sent'
    BY <1>1, <2>1, <2>3 DEF Told
  <2>4. CASE x \in net' /\ <<r, c>> \notin sent'
    <3>1. net' \subseteq net \cup out
      BY <1>6, <2>4 DEF Receive
    <3>2. QED
      BY <2>2, <2>4, <3>1 DEF OnTheWay
  <2>5. QED
    BY <1>2, <2>1, <2>2, <2>3, <2>4 DEF OnTheWay
<1>7. ASSUME NEW r \in Router, NEW m \in checking[r], Idle(m)
      PROVE OnTheWay(x)
  BY <1>7, IdleIs DEF OnTheWay
<1>8. ASSUME NEW r \in Router, NEW m \in checking[r], Forward(m) \/ ForwardAnswered(m)
      PROVE OnTheWay(x) \/ Made \/ Back
  <2> DEFINE n == m.name
  <2>1. /\ n \in Name /\ m.from \in Router
        /\ \A s \in Router : checking'[s] = IF s = r THEN {} ELSE checking[s]
        /\ heard' = heard \cup {<<r, n, m.from>>}
        /\ \A y \in net' : \/ y \in net \/ y \in Copies(r, n, m.from)
                           \/ y.type = "data" /\ y.name = n /\ y.from = r /\ y.to = m.from
    BY <1>8, HearIs
  <2>2. Told(r, n)'
    BY <2>1 DEF Told, HasHeard
  <2>3. CASE x \in net'
    BY <1>1, <2>1, <2>2, <2>3 DEF OnTheWay
  <2>4. CASE x \notin net'
    BY <2>1, <2>4 DEF OnTheWay
  <2>5. QED
    BY <2>3, <2>4
<1>9. ASSUME NEW r \in Router, NEW n \in Name, Expire(r, n)
      PROVE OnTheWay(x)
  BY <1>9, ExpireIs DEF OnTheWay
<1>10. CASE UNCHANGED vars
  BY <1>10 DEF vars, OnTheWay
<1>11. QED
  BY <1>3, <1>4, <1>5, <1>6, <1>7, <1>8, <1>9, <1>10, Cases

LEMMA OriginsStep ==
  ASSUME TypeOK, Reading, Entries, Origins, [Next]_vars
  PROVE Origins'
<1>1. \A m \in net : m.type = "data" => <<m.from, m.name, m.to>> \in heard
  BY DEF Origins
<1>2. ASSUME NEW p \in sent'
      PROVE p[1] = Sender(p[2])
  <2>1. CASE p \in sent
    BY <2>1 DEF Origins
  <2>2. CASE p \notin sent
    <3>1. PICK r \in Router, c \in Name : Sender(c) = r /\ sent' = sent \cup {<<r, c>>}
      BY <2>2, Learns DEF Puts
    <3>2. QED
      BY <2>2, <3>1
  <2>3. QED
    BY <2>1, <2>2
<1>3. ASSUME NEW r \in Router, NEW n \in Name, Told(r, n)'
      PROVE <<Sender(n), n>> \in sent'
  <2>1. CASE Told(r, n)
    BY <2>1, Grows DEF Origins
  <2>2. CASE ~Told(r, n) /\ sent' # sent
    <3>1. PICK s \in Router, c \in Name :
            Sender(c) = s /\ sent' = sent \cup {<<s, c>>} /\ heard' = heard
      BY <2>2, Learns DEF Puts
    <3>2. r = s /\ n = c
      BY <1>3, <2>2, <3>1 DEF Told, HasHeard
    <3>3. QED
      BY <3>1, <3>2
  <2>3. CASE ~Told(r, n) /\ sent' = sent
    <3>1. heard' # heard
      BY <1>3, <2>3 DEF Told, HasHeard
    <3>2. PICK s \in Router : \E m \in checking[s] :
            heard' = heard \cup {<<s, m.name, m.from>>}
      BY <3>1, Learns
    <3>3. PICK m \in checking[s] : heard' = heard \cup {<<s, m.name, m.from>>}
      BY <3>2
    <3>4. n = m.name
      BY <1>3, <2>3, <3>3 DEF Told, HasHeard
    <3>5. Told(m.from, m.name) /\ m.from \in Router
      BY Packets DEF Origins, OnTheWay
    <3>6. QED
      BY <2>3, <3>4, <3>5 DEF Origins
  <2>4. QED
    BY <2>1, <2>2, <2>3
<1>4. ASSUME NEW r \in Router, NEW n \in Name, NEW f \in Router, <<r, n, f>> \in heard'
      PROVE f # r /\ Told(f, n)'
  <2>1. CASE <<r, n, f>> \in heard
    BY <2>1, GrowsToo DEF Origins
  <2>2. CASE <<r, n, f>> \notin heard
    <3>1. PICK s \in Router : \E m \in checking[s] :
            heard' = heard \cup {<<s, m.name, m.from>>}
      BY <1>4, <2>2, Learns
    <3>2. PICK m \in checking[s] : heard' = heard \cup {<<s, m.name, m.from>>}
      BY <3>1
    <3>3. r = s /\ n = m.name /\ f = m.from
      BY <1>4, <2>2, <3>2
    <3>4. m.to = s /\ m.type = "interest" /\ OnTheWay(m)
      BY Packets DEF Reading, OnTheWay
    <3>5. m.from # m.to /\ Told(m.from, m.name)
      BY <3>4 DEF Origins
    <3>6. QED
      BY <3>3, <3>4, <3>5, GrowsToo
  <2>3. QED
    BY <2>1, <2>2
<1>5. ASSUME NEW m, OnTheWay(m)', m.type = "interest"
      PROVE m.from # m.to /\ Told(m.from, m.name)'
  <2>1. CASE OnTheWay(m)
    <3>1. m.from \in Router /\ m.name \in Name
      BY <2>1, Packets DEF OnTheWay
    <3>2. QED
      BY <1>5, <2>1, <3>1, GrowsToo DEF Origins
  <2>2. CASE ~OnTheWay(m)
    BY <1>5, <2>2, NewPackets
  <2>3. QED
    BY <2>1, <2>2
<1>6. ASSUME NEW m \in net', m.type = "data"
      PROVE <<m.from, m.name, m.to>> \in heard'
  <2>1. OnTheWay(m)'
    BY <1>6 DEF OnTheWay
  <2>2. CASE OnTheWay(m)
    <3>1. m \in net
      BY <1>6, <2>2, Packets DEF OnTheWay
    <3>2. QED
      BY <1>1, <1>6, <3>1, Grows
  <2>3. CASE ~OnTheWay(m)
    BY <1>6, <2>1, <2>3, NewPackets
  <2>4. QED
    BY <2>2, <2>3
<1>7. QED
  BY <1>2, <1>3, <1>4, <1>5, <1>6 DEF Origins

-----------------------------------------------------------------------------
(* Copies arrive, or are lost.                                             *)

\* Unless an entry ended under the reader, a daemon is handed only what it does
\* not know.
LEMMA Unknown ==
  ASSUME TypeOK, Reading, Remembered, NEW r \in Router, NEW m \in checking[r],
         Forward(m) \/ ForwardAnswered(m), ~Raced(m.name)
  PROVE ~Told(r, m.name)
<1>1. m.name \in Name /\ ~Pending(r, m.name)
  BY HearIs
<1>2. ~IsDead(r, m.name)
  BY DEF Reading
<1>3. QED
  BY <1>1, <1>2 DEF Remembered

LEMMA Arrives ==
  ASSUME TypeOK, Reading, Entries, Remembered, [Next]_vars,
         NEW t \in Router, NEW n \in Name, Coming(t, n)
  PROVE Coming(t, n)' \/ Told(t, n)' \/ Faulty("loss", n)'
<1>1. PICK m : OnTheWay(m) /\ m.type = "interest" /\ m.name = n /\ m.to = t
  BY DEF Coming
<1>2. SUFFICES ASSUME ~OnTheWay(m)'
               PROVE Told(t, n)' \/ Faulty("loss", n)'
  BY <1>1 DEF Coming
<1>3. ASSUME NEW k, net' = net \/ net \subseteq net' \/ (net \ {k} \subseteq net' /\ k # m),
             checking' = checking
      PROVE FALSE
  BY <1>1, <1>2, <1>3 DEF OnTheWay
<1>4. ASSUME Told(t, n)
      PROVE Told(t, n)'
  BY <1>4, GrowsToo
<1>5. ASSUME NEW r \in Leader, Send(r)
      PROVE FALSE
  BY <1>5, <1>3, SendIs
<1>6. ASSUME NEW k \in net, DropDead(k)
      PROVE Told(t, n)'
  <2>1. k = m
    BY <1>6, <1>3 DEF DropDead
  <2>2. QED
    BY <1>1, <1>4, <1>6, <2>1 DEF DropDead, Remembered
<1>7. ASSUME NEW k \in net, Check(k)
      PROVE FALSE
  <2>1. /\ k.to \in Router /\ checking[k.to] = {} /\ net' = net \ {k}
        /\ checking' = [checking EXCEPT ![k.to] = {k}]
    BY <1>7, Packets DEF Check
  <2>2. \A s \in Router : checking'[s] = IF s = k.to THEN {k} ELSE checking[s]
    BY <2>1 DEF TypeOK
  <2>3. QED
    BY <1>1, <1>2, <2>1, <2>2 DEF OnTheWay
<1>8. ASSUME NEW k \in net, Unsolicited(k) \/ PassBack(k)
      PROVE FALSE
  BY <1>1, <1>8, <1>3 DEF Unsolicited, PassBack
<1>9. ASSUME NEW k \in net, NEW b \in BOOLEAN, Receive(k, b)
      PROVE FALSE
  <2>1. k.type = "data" /\ net \ {k} \subseteq net' /\ checking' = checking
    BY <1>9, ReceiveIs
  <2>2. QED
    BY <1>1, <1>3, <2>1
<1>10. ASSUME NEW r \in Router, NEW k \in checking[r], Idle(k)
       PROVE Told(t, n)'
  <2>1. /\ k.to = r /\ Pending(r, k.name) /\ net' = net
        /\ \A s \in Router : checking'[s] = IF s = r THEN {} ELSE checking[s]
    BY <1>10, IdleIs
  <2>2. m \in checking[r]
    BY <1>1, <1>2, <2>1 DEF OnTheWay
  <2>3. k = m
    BY <2>2 DEF Reading
  <2>4. QED
    BY <1>1, <1>4, <2>1, <2>3 DEF Remembered
<1>11. ASSUME NEW r \in Router, NEW k \in checking[r], Forward(k) \/ ForwardAnswered(k)
       PROVE Told(t, n)'
  <2>1. /\ k.to = r /\ net \subseteq net' /\ k.from \in Router
        /\ \A s \in Router : checking'[s] = IF s = r THEN {} ELSE checking[s]
        /\ heard' = heard \cup {<<r, k.name, k.from>>}
    BY <1>11, HearIs
  <2>2. m \in checking[r]
    BY <1>1, <1>2, <2>1 DEF OnTheWay
  <2>3. k = m
    BY <2>2 DEF Reading
  <2>4. QED
    BY <1>1, <2>1, <2>3 DEF Told, HasHeard
<1>12. ASSUME NEW r \in Router, NEW k \in Name, Expire(r, k)
       PROVE FALSE
  BY <1>12, <1>3, ExpireIs
<1>13. ASSUME NEW k \in net, Lose(k)
       PROVE Faulty("loss", n)'
  <2>1. k = m
    BY <1>13, <1>3 DEF Lose
  <2>2. QED
    BY <1>1, <1>13, <2>1, Fails DEF Lose
<1>14. CASE UNCHANGED vars
  BY <1>14, <1>3 DEF vars
<1>15. QED
  BY <1>5, <1>6, <1>7, <1>8, <1>9, <1>10, <1>11, <1>12, <1>13, <1>14, Cases

LEMMA SpreadingStep ==
  ASSUME TypeOK, Reading, Entries, Remembered, Origins, Spreading, [Next]_vars
  PROVE Spreading'
<1>1. SUFFICES ASSUME NEW n \in Name, NEW s \in Router, NEW t \in Neighbor[s], Told(s, n)'
               PROVE Told(t, n)' \/ Faulty("loss", n)' \/ Coming(t, n)'
  BY DEF Spreading
<1>2. t \in Router /\ t # Up
  BY LinkAssumption, RouterAssumption
<1>3. ASSUME NEW f, f # t, Copies(s, n, f) \subseteq net'
      PROVE Coming(t, n)'
  <2>1. \E m \in Copies(s, n, f) : m.type = "interest" /\ m.name = n /\ m.to = t
    BY <1>3, CopiesAre
  <2>2. QED
    BY <1>3, <2>1 DEF Coming, OnTheWay
<1>4. CASE Told(s, n)
  <2>1. Told(t, n) \/ Faulty("loss", n) \/ Coming(t, n)
    BY <1>4, <1>2 DEF Spreading
  <2>2. QED
    BY <1>2, <2>1, GrowsToo, Arrives
<1>5. CASE ~Told(s, n) /\ sent' # sent
  <2>1. PICK r \in Router, c \in Name : Puts(r, c) /\ heard' = heard
    BY <1>5, Learns
  <2>2. r = s /\ c = n
    BY <1>1, <1>5, <2>1 DEF Puts, Told, HasHeard
  <2>3. Passes(s, n) /\ ~Pending(s, n)
    BY <1>5 DEF Remembered, Passes, Looping, Pending
  <2>4. QED
    BY <1>2, <1>3, <2>1, <2>2, <2>3 DEF Puts
<1>6. CASE ~Told(s, n) /\ sent' = sent
  <2>1. heard' # heard
    BY <1>1, <1>6 DEF Told, HasHeard
  <2>2. PICK r \in Router : \E m \in checking[r] :
          /\ Forward(m) \/ ForwardAnswered(m)
          /\ heard' = heard \cup {<<r, m.name, m.from>>}
    BY <2>1, Learns
  <2>3. PICK m \in checking[r] : /\ Forward(m) \/ ForwardAnswered(m)
                                 /\ heard' = heard \cup {<<r, m.name, m.from>>}
    BY <2>2
  <2>4. r = s /\ m.name = n
    BY <1>1, <1>6, <2>3 DEF Told, HasHeard
  <2>5. Copies(s, n, m.from) \subseteq net' /\ m.type = "interest" /\ m.from \in Router
    BY <2>3, <2>4, HearIs
  <2>6. Told(m.from, n)
    BY <2>4, <2>5 DEF Origins, OnTheWay
  <2>7. QED
    BY <1>3, <2>5, <2>6, GrowsToo
<1>7. QED
  BY <1>4, <1>5, <1>6

-----------------------------------------------------------------------------
(* One face to an entry.                                                   *)

LEMMA PitIs ==
  ASSUME TypeOK, Reading, Entries, [Next]_vars, NEW r \in Router, NEW n \in Name
  PROVE \/ pit'[r][n] = pit[r][n] \/ pit'[r][n] = {}
        \/ /\ Passes(r, n) /\ pit'[r][n] = pit[r][n] \cup {Up}
           /\ Puts(r, n)
        \/ \E m \in checking[r] :
             /\ Forward(m) \/ ForwardAnswered(m)
             /\ m.name = n /\ pit'[r][n] = {m.from}
<1>1. ASSUME NEW q \in Leader, Send(q)
      PROVE \/ pit'[r][n] = pit[r][n]
            \/ Passes(r, n) /\ pit'[r][n] = pit[r][n] \cup {Up} /\ Puts(r, n)
  <2>1. PICK c \in Name :
          /\ Puts(q, c)
          /\ \A s \in Router, k \in Name : s # q \/ k # c => pit'[s][k] = pit[s][k]
    BY <1>1, SendIs
  <2>2. CASE r = q /\ n = c
    BY <2>1, <2>2 DEF Puts
  <2>3. CASE r # q \/ n # c
    BY <2>1, <2>3
  <2>4. QED
    BY <2>2, <2>3
<1>2. ASSUME NEW m \in net, NEW b \in BOOLEAN, Receive(m, b)
      PROVE \/ pit'[r][n] = pit[r][n] \/ pit'[r][n] = {}
            \/ Passes(r, n) /\ pit'[r][n] = pit[r][n] \cup {Up} /\ Puts(r, n)
  <2> DEFINE q == m.to  k == m.name  c == Given(m.by, q)
  <2>1. /\ pit'[q][k] = {}
        /\ \A s \in Router, j \in Name : s # q \/ j \notin {k, c} => pit'[s][j] = pit[s][j]
        /\ Puts(q, c) \/ pit'[q][c] = pit[q][c]
    BY <1>2, ReceiveIs
  <2> HIDE DEF c
  <2>2. CASE r = q /\ n = c
    BY <2>1, <2>2 DEF Puts
  <2>3. CASE r = q /\ n = k
    BY <2>1, <2>3
  <2>4. CASE r # q \/ n \notin {k, c}
    BY <2>1, <2>4
  <2>5. QED
    BY <2>2, <2>3, <2>4
<1>3. ASSUME NEW q \in Router, NEW m \in checking[q], Forward(m) \/ ForwardAnswered(m)
      PROVE pit'[r][n] = pit[r][n] \/ (r = q /\ n = m.name /\ pit'[r][n] = {m.from})
  BY <1>3, HearIs
<1>4. ASSUME NEW q \in Router, NEW k \in Name, End(q, k)
      PROVE pit'[r][n] = pit[r][n] \/ pit'[r][n] = {}
  BY <1>4, EndIs
<1>5. ASSUME \/ \E m \in net : DropDead(m) \/ Check(m) \/ Unsolicited(m) \/ Lose(m)
             \/ UNCHANGED vars
      PROVE pit' = pit
  BY <1>5 DEF DropDead, Check, Unsolicited, Lose, vars
<1>6. ASSUME NEW q \in Router, NEW m \in checking[q], Idle(m)
      PROVE pit' = pit
  BY <1>6, IdleIs
<1>7. ASSUME NEW m \in net, PassBack(m)
      PROVE \E q \in Router, k \in Name : End(q, k)
  BY <1>7, Packets DEF PassBack
<1>8. ASSUME NEW q \in Router, NEW k \in Name, Expire(q, k)
      PROVE End(q, k)
  BY <1>8 DEF Expire
<1>9. QED
  BY <1>1, <1>2, <1>3, <1>4, <1>5, <1>6, <1>7, <1>8, Cases

LEMMA EntriesStep ==
  ASSUME TypeOK, Reading, Entries, [Next]_vars
  PROVE Entries'
<1>1. SUFFICES ASSUME NEW r \in Router, NEW n \in Name, NEW f \in pit'[r][n]
               PROVE /\ pit'[r][n] = {f}
                     /\ IF f = Up THEN <<r, n>> \in sent' ELSE <<r, n, f>> \in heard'
  BY DEF Entries
<1>2. CASE pit'[r][n] = pit[r][n]
  BY <1>1, <1>2, Grows DEF Entries
<1>3. CASE Passes(r, n) /\ pit'[r][n] = pit[r][n] \cup {Up} /\ Puts(r, n)
  BY <1>1, <1>3 DEF Passes, Looping, Puts
<1>4. CASE \E m \in checking[r] :
             /\ Forward(m) \/ ForwardAnswered(m)
             /\ m.name = n /\ pit'[r][n] = {m.from}
  <2>1. PICK m \in checking[r] : /\ Forward(m) \/ ForwardAnswered(m)
                                 /\ m.name = n /\ pit'[r][n] = {m.from}
    BY <1>4
  <2>2. m.from \in Router /\ heard' = heard \cup {<<r, m.name, m.from>>}
    BY <2>1, HearIs
  <2>3. QED
    BY <1>1, <2>1, <2>2, RouterAssumption
<1>5. QED
  BY <1>1, <1>2, <1>3, <1>4, PitIs

\* An entry that has ended does not come back, unless it ended under the reader.
LEMMA Gone ==
  ASSUME TypeOK, Reading, Entries, [Next]_vars, NEW r \in Router, NEW n \in Name,
         IsDead(r, n), ~Pending(r, n), Pending(r, n)'
  PROVE Raced(n)
<1>1. PICK m \in checking[r] : m.name = n
  BY PitIs DEF Pending, Passes
<1>2. QED
  BY <1>1 DEF Reading

LEMMA AloneStep ==
  ASSUME TypeOK, Reading, Entries, Remembered, Origins, Alone, [Next]_vars
  PROVE Alone'
<1>1. SUFFICES ASSUME NEW n \in Name, ~Raced(n)', HasHeard(Sender(n), n)'
               PROVE FALSE
  BY DEF Alone
<1>2. ~Raced(n) /\ Sender(n) \in Router
  BY <1>1, GrowsToo, Names
<1>3. ~HasHeard(Sender(n), n)
  BY <1>2 DEF Alone
<1>4. heard' # heard
  BY <1>1, <1>3 DEF HasHeard
<1>5. PICK r \in Router : \E m \in checking[r] :
        /\ Forward(m) \/ ForwardAnswered(m)
        /\ heard' = heard \cup {<<r, m.name, m.from>>}
  BY <1>4, Learns
<1>6. PICK m \in checking[r] : /\ Forward(m) \/ ForwardAnswered(m)
                               /\ heard' = heard \cup {<<r, m.name, m.from>>}
  BY <1>5
<1>7. r = Sender(n) /\ m.name = n
  BY <1>1, <1>3, <1>6 DEF HasHeard
<1>8. Told(m.from, n) /\ m.from \in Router
  BY <1>7, Packets DEF Origins, OnTheWay
<1>9. Told(Sender(n), n)
  BY <1>2, <1>8 DEF Origins, Told
<1>10. QED
  BY <1>2, <1>6, <1>7, <1>9, Unknown

LEMMA DeadIs ==
  ASSUME TypeOK, Reading, Entries, [Next]_vars, NEW r \in Router, NEW n \in Name,
         IsDead(r, n)', ~IsDead(r, n)
  PROVE \/ \E m \in net : PassBack(m) /\ m.to = r /\ m.name = n
        \/ \E m \in net, b \in BOOLEAN : Receive(m, b) /\ m.to = r /\ m.name = n
        \/ \E m \in checking[r] : (Forward(m) \/ ForwardAnswered(m)) /\ m.name = n
        \/ Expire(r, n)
<1>1. ASSUME NEW q \in Router, NEW k \in Name, End(q, k)
      PROVE q = r /\ k = n
  BY <1>1, EndIs DEF IsDead
<1>2. ASSUME \/ \E q \in Leader : Send(q)
             \/ \E m \in net : DropDead(m) \/ Check(m) \/ Unsolicited(m) \/ Lose(m)
             \/ \E q \in Router : \E m \in checking[q] : Idle(m)
             \/ UNCHANGED vars
      PROVE FALSE
  BY <1>2 DEF Send, DropDead, Check, Unsolicited, Lose, Idle, vars, IsDead
<1>3. ASSUME NEW m \in net, PassBack(m)
      PROVE m.to = r /\ m.name = n
  BY <1>1, <1>3, Packets DEF PassBack
<1>4. ASSUME NEW m \in net, NEW b \in BOOLEAN, Receive(m, b)
      PROVE m.to = r /\ m.name = n
  <2>1. \A s \in Router, k \in Name :
          k \in dead'[s] <=> (k \in dead[s] \/ (s = m.to /\ k = m.name))
    BY <1>4, ReceiveIs
  <2>2. QED
    BY <2>1 DEF IsDead
<1>5. ASSUME NEW q \in Router, NEW m \in checking[q], Forward(m) \/ ForwardAnswered(m)
      PROVE q = r /\ m.name = n
  <2>1. \A s \in Router, k \in Name : s # q \/ k # m.name => (k \in dead'[s] <=> k \in dead[s])
    BY <1>5, HearIs
  <2>2. QED
    BY <2>1 DEF IsDead
<1>6. ASSUME NEW q \in Router, NEW k \in Name, Expire(q, k)
      PROVE q = r /\ k = n
  BY <1>1, <1>6 DEF Expire
<1>7. QED
  BY <1>2, <1>3, <1>4, <1>5, <1>6, Cases

\* Answers are counted where they are handed to the leader.
LEMMA AnswersCount ==
  ASSUME TypeOK, [Next]_vars, NEW a \in Leader
  PROVE \/ answers'[a] = answers[a]
        \/ /\ answers'[a] = answers[a] + 1 /\ Pending(a, Request(a))
           /\ Request(a) \in dead'[a] /\ pit'[a][Request(a)] = {} /\ heard' = heard
<1>1. ASSUME NEW m \in net, NEW b \in BOOLEAN, Receive(m, b)
      PROVE \/ answers'[a] = answers[a]
            \/ /\ answers'[a] = answers[a] + 1 /\ Pending(a, Request(a))
               /\ Request(a) \in dead'[a] /\ pit'[a][Request(a)] = {} /\ heard' = heard
  <2>1. /\ m.to \in Router /\ m.name \in Name /\ m.name = Request(m.to)
        /\ Pending(m.to, m.name) /\ pit'[m.to][m.name] = {} /\ heard' = heard
        /\ \A s \in Router, k \in Name :
             k \in dead'[s] <=> (k \in dead[s] \/ (s = m.to /\ k = m.name))
        /\ answers'[a] = IF a = m.to THEN answers[a] + 1 ELSE answers[a]
    BY <1>1, ReceiveIs
  <2>2. QED
    BY <2>1
<1>2. ASSUME \/ \E q \in Leader : Send(q)
             \/ \E m \in net : DropDead(m) \/ Check(m) \/ Unsolicited(m) \/ PassBack(m) \/ Lose(m)
             \/ \E q \in Router : \E m \in checking[q] : Idle(m)
             \/ \E q \in Router : \E m \in checking[q] : Forward(m) \/ ForwardAnswered(m)
             \/ \E q \in Router, k \in Name : Expire(q, k)
             \/ UNCHANGED vars
      PROVE answers' = answers
  BY <1>2 DEF Send, DropDead, Check, Unsolicited, PassBack, Lose, Idle, Forward,
              ForwardAnswered, Expire, vars
<1>3. QED
  BY <1>1, <1>2, Cases

LEMMA AnsweredIs ==
  ASSUME TypeOK, Reading, [Next]_vars
  PROVE \/ answered' = answered
        \/ \E r \in Root : \E m \in checking[r] :
             /\ ForwardAnswered(m) /\ m.name \in dead'[r] /\ m.name \in Name
             /\ answered' = answered \cup {<<r, m.name>>}
<1>1. ASSUME NEW r \in Router, NEW m \in checking[r], Forward(m) \/ ForwardAnswered(m)
      PROVE \/ answered' = answered
            \/ /\ r \in Root /\ m.name \in dead'[r] /\ m.name \in Name
               /\ answered' = answered \cup {<<r, m.name>>}
  BY <1>1, HearIs
<1>2. ASSUME NEW m, Forward(m)
      PROVE answered' = answered
  BY <1>2 DEF Forward
<1>3. ASSUME \/ \E q \in Leader : Send(q)
             \/ \E m \in net : DropDead(m) \/ Check(m) \/ Unsolicited(m) \/ PassBack(m) \/ Lose(m)
             \/ \E m \in net, b \in BOOLEAN : Receive(m, b)
             \/ \E q \in Router : \E m \in checking[q] : Idle(m)
             \/ \E q \in Router, k \in Name : Expire(q, k)
             \/ UNCHANGED vars
      PROVE answered' = answered
  BY <1>3 DEF Send, DropDead, Check, Unsolicited, PassBack, Receive, Lose, Idle, Expire, vars
<1>4. QED
  BY <1>1, <1>2, <1>3, Cases

LEMMA UsedStep ==
  ASSUME TypeOK, Reading, Entries, Used, [Next]_vars
  PROVE Used'
<1>1. ASSUME NEW p \in answered'
      PROVE IsDead(p[1], p[2])'
  <2>1. CASE p \in answered
    <3>1. p[1] \in Router /\ p[2] \in Name
      BY <2>1, RouterAssumption DEF TypeOK
    <3>2. QED
      BY <2>1, <3>1, GrowsToo DEF Used
  <2>2. CASE p \notin answered
    BY <1>1, <2>2, AnsweredIs DEF IsDead
  <2>3. QED
    BY <2>1, <2>2
<1>2. ASSUME NEW a \in Leader \ Root
      PROVE /\ answers'[a] >= 1 => IsDead(a, Request(a))'
            /\ answers'[a] >= 1 => ~Pending(a, Request(a))' \/ Raced(Request(a))'
            /\ answers'[a] > 1 => Raced(Request(a))'
  <2>1. a \in Router /\ Request(a) \in Name /\ answers[a] \in Nat
    BY RouterAssumption, Requests DEF TypeOK
  <2>2. /\ answers[a] >= 1 => IsDead(a, Request(a))
        /\ answers[a] >= 1 => ~Pending(a, Request(a)) \/ Raced(Request(a))
        /\ answers[a] > 1 => Raced(Request(a))
    BY DEF Used
  <2>3. /\ IsDead(a, Request(a)) => IsDead(a, Request(a))'
        /\ Raced(Request(a)) => Raced(Request(a))'
    BY <2>1, GrowsToo
  <2>4. CASE answers'[a] = answers[a]
    BY <2>1, <2>2, <2>3, <2>4, Gone
  <2>5. CASE /\ answers'[a] = answers[a] + 1 /\ Pending(a, Request(a))
             /\ Request(a) \in dead'[a] /\ pit'[a][Request(a)] = {}
    <3>1. IsDead(a, Request(a))' /\ ~Pending(a, Request(a))'
      BY <2>5 DEF IsDead, Pending
    <3>2. answers'[a] > 1 => answers[a] >= 1
      BY <2>1, <2>5
    <3>3. QED
      BY <2>2, <2>3, <2>5, <3>1, <3>2
  <2>6. QED
    BY <2>4, <2>5, AnswersCount
<1>3. QED
  BY <1>1, <1>2 DEF Used

-----------------------------------------------------------------------------
(* No circles.                                                             *)

LEMMA RootedStep ==
  ASSUME TypeOK, Reading, Entries, Remembered, Origins, Rooted, [Next]_vars
  PROVE Rooted'
<1>1. SUFFICES ASSUME NEW n \in Name, ~Raced(n)', NEW S \in SUBSET Router, S # {},
                      \A r \in S : r = Sender(n) \/ \E f \in S : <<r, n, f>> \in heard',
                      Sender(n) \notin S
               PROVE FALSE
  BY DEF Rooted
<1>2. ~Raced(n)
  BY <1>1, GrowsToo
<1>3. \A T \in SUBSET Router :
        T # {} /\ (\A r \in T : r = Sender(n) \/ \E f \in T : <<r, n, f>> \in heard)
          => Sender(n) \in T
  BY <1>2 DEF Rooted
<1>4. heard' # heard
  BY <1>1, <1>3
<1>5. PICK s \in Router : \E m \in checking[s] :
        /\ Forward(m) \/ ForwardAnswered(m)
        /\ heard' = heard \cup {<<s, m.name, m.from>>}
  BY <1>4, Learns
<1>6. PICK m \in checking[s] : /\ Forward(m) \/ ForwardAnswered(m)
                               /\ heard' = heard \cup {<<s, m.name, m.from>>}
  BY <1>5
<1>7. m.name = n /\ s \in S
  <2>1. CASE m.name # n \/ s \notin S
    <3>1. \A r \in S, f \in S : <<r, n, f>> \in heard' => <<r, n, f>> \in heard
      BY <1>6, <2>1
    <3>2. QED
      BY <1>1, <1>3, <3>1
  <2>2. QED
    BY <2>1
<1>8. ~Told(s, n)
  BY <1>2, <1>6, <1>7, Unknown
<1>9. m.from \in Router /\ m.from # s
  <2>1. m.to = s /\ m.type = "interest" /\ OnTheWay(m) /\ m.from \in Router
    BY Packets DEF Reading, OnTheWay
  <2>2. QED
    BY <2>1 DEF Origins
<1> DEFINE T == S \ {s}
<1>10. m.from \in T
  <2>1. PICK f \in S : <<s, n, f>> \in heard'
    BY <1>1, <1>7
  <2>2. <<s, n, f>> \notin heard
    BY <1>8 DEF Told, HasHeard
  <2>3. QED
    BY <1>6, <1>9, <2>1, <2>2
<1>11. ASSUME NEW r \in T
       PROVE \E f \in T : <<r, n, f>> \in heard
  <2>1. PICK f \in S : <<r, n, f>> \in heard'
    BY <1>1
  <2>2. <<r, n, f>> \in heard
    BY <1>6, <2>1
  <2>3. Told(f, n)
    BY <2>2 DEF Origins
  <2>4. QED
    BY <1>8, <2>2, <2>3
<1>12. QED
  BY <1>1, <1>3, <1>10, <1>11

-----------------------------------------------------------------------------
(* The answer comes back.                                                  *)

\* What comes onto the links belongs to a name that is on its way already, or that
\* its sender has just sent.
LEMMA Stirs ==
  ASSUME TypeOK, Reading, Entries, [Next]_vars, NEW x, OnTheWay(x)'
  PROVE \/ \E m : OnTheWay(m) /\ m.name = x.name
        \/ <<Sender(x.name), x.name>> \notin sent
<1>1. CASE OnTheWay(x)
  BY <1>1
<1>2. ASSUME NEW r \in Leader, Send(r), ~OnTheWay(x)
      PROVE <<Sender(x.name), x.name>> \notin sent
  <2>1. PICK c \in Name : /\ Sender(c) = r /\ <<r, c>> \notin sent /\ checking' = checking
                          /\ net' \subseteq net \cup Copies(r, c, Up)
    BY <1>2, SendIs DEF Puts
  <2>2. x.name = c
    BY <1>2, <2>1, CopiesAre, RouterAssumption DEF OnTheWay
  <2>3. QED
    BY <2>1, <2>2
<1>3. ASSUME NEW m \in net, PassBack(m), ~OnTheWay(x)
      PROVE x.name = m.name
  <2>1. /\ m.to \in Router /\ m.name \in Name /\ m.by \in Root /\ checking' = checking
        /\ net' = (net \ {m}) \cup Answer(m.to, m.name, m.by, FacesOf(m.to, m.name, m.from))
    BY <1>3, Packets DEF PassBack
  <2>2. x \in Answer(m.to, m.name, m.by, FacesOf(m.to, m.name, m.from))
    BY <1>3, <2>1 DEF OnTheWay
  <2>3. FacesOf(m.to, m.name, m.from) \in SUBSET Router
    BY <2>1, FacesAre
  <2>4. x.name = m.name
    BY <2>1, <2>2, <2>3, AnswersAre
  <2>5. QED
    BY <2>4
<1>4. ASSUME NEW m \in net, NEW b \in BOOLEAN, Receive(m, b), ~OnTheWay(x)
      PROVE x.name = m.name \/ <<Sender(x.name), x.name>> \notin sent
  <2> DEFINE r == m.to  n == m.name  c == Given(m.by, r)
             out == Answer(r, n, m.by, FacesOf(r, n, m.from))
  <2>1. /\ r \in Router /\ n \in Name /\ m.by \in Root /\ c \in Name /\ Sender(c) = r
        /\ \/ Puts(r, c)
           \/ sent' = sent
        /\ net' \subseteq (net \ {m}) \cup out \cup Copies(r, c, Up)
        /\ checking' = checking
    BY <1>4, ReceiveIs
  <2>2. CASE x \in out
    <3>1. FacesOf(r, n, m.from) \in SUBSET Router
      BY <2>1, FacesAre
    <3>2. QED
      BY <2>1, <2>2, <3>1, AnswersAre
  <2>3. CASE x \in net' /\ x \notin out
    <3>1. /\ x \in Copies(r, c, Up)
      BY <1>4, <2>1, <2>3 DEF OnTheWay
    <3>2. x.name = c
      BY <2>1, <3>1, CopiesAre
    <3>3. <<r, c>> \notin sent
      BY <1>4, <2>3 DEF Receive, OnTheWay
    <3>4. QED
      BY <2>1, <3>2, <3>3
  <2>4. QED
    BY <1>4, <2>1, <2>2, <2>3 DEF OnTheWay
<1>5. ASSUME NEW r \in Router, NEW m \in checking[r], Forward(m) \/ ForwardAnswered(m), ~OnTheWay(x)
      PROVE x.name = m.name
  <2>1. /\ m.name \in Name /\ \A s \in Router : checking'[s] = IF s = r THEN {} ELSE checking[s]
        /\ \A y \in net' : y \in net \/ y \in Copies(r, m.name, m.from) \/ y.name = m.name
    BY <1>5, HearIs
  <2>2. x \in Copies(r, m.name, m.from) \/ x.name = m.name
    BY <1>5, <2>1 DEF OnTheWay
  <2>3. QED
    BY <2>1, <2>2, CopiesAre
<1>6. ASSUME NEW m \in net, DropDead(m) \/ Unsolicited(m) \/ Check(m) \/ Lose(m)
      PROVE OnTheWay(x)
  <2>1. CASE Check(m)
    <3>1. \A s \in Router : checking'[s] = checking[s] \/ checking'[s] = {m}
      BY <2>1 DEF Check, TypeOK
    <3>2. net' \subseteq net
      BY <2>1 DEF Check
    <3>3. QED
      BY <3>1, <3>2 DEF OnTheWay
  <2>2. CASE ~Check(m)
    BY <2>2, <1>6 DEF DropDead, Unsolicited, Lose, OnTheWay
  <2>3. QED
    BY <2>1, <2>2
<1>7. ASSUME NEW r \in Router, NEW m \in checking[r], Idle(m)
      PROVE OnTheWay(x)
  BY <1>7, IdleIs DEF OnTheWay
<1>8. ASSUME NEW r \in Router, NEW n \in Name, Expire(r, n)
      PROVE OnTheWay(x)
  BY <1>8, ExpireIs DEF OnTheWay
<1>9. CASE UNCHANGED vars
  BY <1>9 DEF vars, OnTheWay
<1>10. QED
  BY <1>1, <1>2, <1>3, <1>4, <1>5, <1>6, <1>7, <1>8, <1>9, Cases DEF OnTheWay

LEMMA SilentStep ==
  ASSUME TypeOK, Reading, Entries, [Next]_vars, NEW n \in Name, Silent(n)
  PROVE Silent(n)'
<1>1. \A m : OnTheWay(m)' => m.name # n
  BY Stirs DEF Silent
<1>2. <<Sender(n), n>> \in sent'
  BY Grows DEF Silent
<1>3. ASSUME NEW g \in Root
      PROVE <<g, n>> \notin answered'
  <2>1. \A r \in Router : \A m \in checking[r] : m.name # n
    BY DEF Silent, OnTheWay
  <2>2. QED
    BY <2>1, AnsweredIs, RouterAssumption DEF Silent
<1>4. QED
  BY <1>1, <1>2, <1>3 DEF Silent

\* Data lands, and uses an entry up that it meets.
LEMMA Lands ==
  ASSUME TypeOK, Reading, Entries, Remembered, Origins, [Next]_vars,
         NEW f \in Router, NEW n \in Name, Returned(f, n)
  PROVE Returned(f, n)' \/ IsDead(f, n)' \/ Faulty("loss", n)'
<1>1. PICK x \in net : x.type = "data" /\ x.name = n /\ x.to = f
  BY DEF Returned
<1>2. SUFFICES ASSUME x \notin net'
               PROVE IsDead(f, n)' \/ Faulty("loss", n)'
  BY <1>1 DEF Returned
<1>3. Pending(f, n) \/ IsDead(f, n)
  <2>1. x.from \in Router /\ <<x.from, n, f>> \in heard
    BY <1>1, Packets DEF Origins
  <2>2. QED
    BY <2>1 DEF Origins, Remembered
<1>4. ASSUME NEW k \in net, DropDead(k) \/ Check(k)
      PROVE FALSE
  BY <1>1, <1>2, <1>4 DEF DropDead, Check
<1>5. ASSUME NEW k \in net, Unsolicited(k)
      PROVE IsDead(f, n)'
  <2>1. k = x
    BY <1>2, <1>5 DEF Unsolicited
  <2>2. IsDead(f, n)
    BY <1>1, <1>3, <1>5, <2>1 DEF Unsolicited
  <2>3. QED
    BY <2>2, GrowsToo
<1>6. ASSUME NEW k \in net, PassBack(k)
      PROVE IsDead(f, n)'
  <2>1. k = x /\ End(f, n)
    BY <1>1, <1>2, <1>6 DEF PassBack
  <2>2. QED
    BY <2>1, EndIs DEF IsDead
<1>7. ASSUME NEW k \in net, NEW b \in BOOLEAN, Receive(k, b)
      PROVE IsDead(f, n)'
  <2>1. /\ net \ {k} \subseteq net'
        /\ \A s \in Router, j \in Name :
             j \in dead'[s] <=> (j \in dead[s] \/ (s = k.to /\ j = k.name))
    BY <1>7, ReceiveIs
  <2>2. k = x
    BY <1>2, <2>1
  <2>3. QED
    BY <1>1, <2>1, <2>2 DEF IsDead
<1>8. ASSUME NEW k \in net, Lose(k)
      PROVE Faulty("loss", n)'
  <2>1. k = x
    BY <1>2, <1>8 DEF Lose
  <2>2. QED
    BY <1>1, <1>8, <2>1, Fails DEF Lose
<1>9. ASSUME NEW r \in Leader, Send(r)
      PROVE FALSE
  BY <1>2, <1>9, SendIs
<1>10. ASSUME NEW r \in Router, NEW k \in checking[r], Idle(k)
       PROVE FALSE
  BY <1>2, <1>10, IdleIs
<1>11. ASSUME NEW r \in Router, NEW k \in checking[r], Forward(k) \/ ForwardAnswered(k)
       PROVE FALSE
  <2>1. net \subseteq net'
    BY <1>11, HearIs
  <2>2. QED
    BY <1>2, <2>1
<1>12. ASSUME NEW r \in Router, NEW k \in Name, Expire(r, k)
       PROVE FALSE
  BY <1>2, <1>12, ExpireIs
<1>13. CASE UNCHANGED vars
  BY <1>2, <1>13 DEF vars
<1>14. QED
  BY <1>4, <1>5, <1>6, <1>7, <1>8, <1>9, <1>10, <1>11, <1>12, <1>13, Cases

\* Back along who heard it from whom, from a root that answered to the leader.
LEMMA Chain ==
  ASSUME TypeOK, Rooted, Used, NEW a \in Leader \ Root, ~Raced(Request(a)),
         \A m : OnTheWay(m) => m.name # Request(a),
         \A t \in Router : Passed(t, Request(a)),
         NEW g \in Root, <<g, Request(a)>> \in answered
  PROVE IsDead(a, Request(a))
<1> DEFINE n == Request(a)
           S == {t \in Router : IsDead(t, n)}
<1>1. n \in Name /\ Sender(n) = a
  BY Requests
<1>2. g \in S
  BY RouterAssumption DEF Used
<1>3. ASSUME NEW r \in S
      PROVE \E f \in S : <<r, n, f>> \in heard
  <2>1. PICK f \in Router : <<r, n, f>> \in heard /\ (IsDead(f, n) \/ Returned(f, n))
    BY DEF Passed
  <2>2. ~Returned(f, n)
    BY DEF Returned, OnTheWay
  <2>3. QED
    BY <2>1, <2>2
<1>4. a \in S
  <2>1. S \in SUBSET Router /\ S # {}
    BY <1>2
  <2> HIDE DEF S
  <2>2. QED
    BY <1>1, <1>3, <2>1 DEF Rooted
<1>5. QED
  BY <1>4

LEMMA PassBackReturns ==
  ASSUME TypeOK, Reading, Entries, Remembered, Origins, Alone, Rooted, [Next]_vars,
         NEW a \in Leader \ Root, ~Raced(Request(a)),
         NEW m \in net, PassBack(m), m.name = Request(a)
  PROVE /\ m.to # a
        /\ \E f \in Router : <<m.to, m.name, f>> \in heard' /\ Returned(f, m.name)'
<1> DEFINE t == m.to  n == m.name
<1>1. n \in Name /\ Sender(n) = a /\ t \in Router /\ m.from \in Router /\ m.by \in Root
  BY Requests, Packets DEF PassBack
<1>2. /\ Pending(t, n) /\ n # Request(t) /\ heard' = heard /\ m.type = "data"
      /\ net' = (net \ {m}) \cup Answer(t, n, m.by, FacesOf(t, n, m.from))
  BY DEF PassBack
<1>3. t # a
  BY <1>2
<1>4. PICK f \in pit[t][n] : TRUE
  BY <1>2 DEF Pending
<1>5. f # Up
  <2>1. f = Up => <<t, n>> \in sent
    BY <1>1, <1>4 DEF Entries
  <2>2. <<t, n>> \in sent => t = Sender(n)
    BY DEF Origins
  <2>3. QED
    BY <1>1, <1>3, <2>1, <2>2
<1>6. f \in Router /\ <<t, n, f>> \in heard
  <2>1. pit[t][n] \subseteq Router \cup {Up}
    BY <1>1 DEF TypeOK, Face
  <2>2. QED
    BY <1>1, <1>4, <1>5, <2>1 DEF Entries
<1>7. f # m.from
  <2>1. SUFFICES ASSUME f = m.from
                 PROVE FALSE
    OBVIOUS
  <2>2. <<m.from, n, t>> \in heard
    BY <1>2 DEF Origins
  <2>3. \A S \in SUBSET Router :
          S # {} /\ (\A r \in S : r = a \/ \E g \in S : <<r, n, g>> \in heard) => a \in S
    BY <1>1 DEF Rooted
  <2> DEFINE S == {t, m.from}
  <2>4. /\ S \in SUBSET Router /\ S # {}
        /\ \A r \in S : \E g \in S : <<r, n, g>> \in heard
    BY <1>1, <1>6, <2>1, <2>2
  <2>5. HasHeard(a, n)
    <3> HIDE DEF S
    <3>1. a \in S
      BY <2>3, <2>4
    <3>2. a = m.from
      BY <1>3, <3>1 DEF S
    <3>3. QED
      BY <1>1, <2>2, <3>2 DEF HasHeard
  <2>6. QED
    BY <1>1, <2>5 DEF Alone
<1>8. f \in FacesOf(t, n, m.from)
  BY <1>4, <1>5, <1>7 DEF FacesOf
<1>9. FacesOf(t, n, m.from) \in SUBSET Router
  BY <1>1, FacesAre
<1>10. \E x \in Answer(t, n, m.by, FacesOf(t, n, m.from)) :
         x.type = "data" /\ x.name = n /\ x.to = f
  BY <1>1, <1>8, <1>9, AnswersAre
<1>11. Returned(f, n)'
  BY <1>2, <1>10 DEF Returned
<1>12. QED
  BY <1>2, <1>3, <1>6, <1>11

LEMMA ReturningStep ==
  ASSUME IInv, [Next]_vars
  PROVE Returning'
<1> USE DEF IInv
<1>1. SUFFICES ASSUME NEW a \in Leader \ Root, Smooth(Request(a))'
               PROVE \/ answers'[a] >= 1
                     \/ Silent(Request(a))'
                     \/ /\ ~IsDead(a, Request(a))'
                        /\ \A t \in Router : Passed(t, Request(a))'
  BY DEF Returning
<1> DEFINE n == Request(a)
<1>2. n \in Name /\ Sender(n) = a /\ a \in Router /\ answers[a] \in Nat
  BY Requests, RouterAssumption DEF TypeOK
<1>3. Smooth(n) /\ ~Raced(n) /\ ~Raced(n)' /\ ~Faulty("loss", n)' /\ ~Faulty("early", n)'
  BY <1>1, <1>2, GrowsToo DEF Smooth, Raced
<1>4. CASE answers[a] >= 1
  BY <1>2, <1>4, AnswersCount
<1>5. CASE Silent(n)
  BY <1>2, <1>5, SilentStep
<1>6. CASE answers[a] < 1 /\ ~Silent(n) /\ answers'[a] = answers[a]
  <2>1. ~IsDead(a, n) /\ \A t \in Router : Passed(t, n)
    BY <1>2, <1>3, <1>6 DEF Returning
  <2>2. ASSUME NEW k \in Name, NEW q \in Router, Expire(q, k), k = n
        PROVE Silent(n)'
    <3>1. /\ \A m : OnTheWay(m) => m.name # n
          /\ Pending(q, n) /\ UNCHANGED <<net, checking, sent, answered>>
      BY <2>2, <1>3, ExpireIs
    <3>2. \A g \in Root : <<g, n>> \notin answered
      BY <3>1, <2>1, <1>3, Chain
    <3>3. <<Sender(n), n>> \in sent
      BY <3>1, <1>2 DEF Remembered, Origins
    <3>4. QED
      BY <3>1, <3>2, <3>3 DEF Silent, OnTheWay
  <2>3. CASE \E q \in Router : Expire(q, n)
    BY <2>2, <2>3, <1>2
  <2>4. ASSUME NEW t \in Router, IsDead(t, n)', ~IsDead(t, n), ~\E q \in Router : Expire(q, n)
        PROVE /\ t # a
              /\ \E f \in Router : <<t, n, f>> \in heard' /\ Returned(f, n)'
    <3>1. ASSUME NEW m \in net, PassBack(m), m.to = t, m.name = n
          PROVE /\ t # a
                /\ \E f \in Router : <<t, n, f>> \in heard' /\ Returned(f, n)'
      BY <3>1, <1>3, PassBackReturns
    <3>2. ASSUME NEW m \in net, NEW b \in BOOLEAN, Receive(m, b), m.to = t, m.name = n
          PROVE FALSE
      <4>1. /\ n = Request(t) /\ t \in Leader
            /\ \A s \in Leader : answers'[s] = IF s = t THEN answers[s] + 1 ELSE answers[s]
        BY <3>2, ReceiveIs
      <4>2. a = t
        BY <4>1, <1>2, Names
      <4>3. QED
        BY <4>1, <4>2, <1>2, <1>6
    <3>3. ASSUME NEW m \in checking[t], Forward(m) \/ ForwardAnswered(m), m.name = n
          PROVE /\ t # a
                /\ \E f \in Router : <<t, n, f>> \in heard' /\ Returned(f, n)'
      <4>1. /\ m.from \in Router /\ heard' = heard \cup {<<t, n, m.from>>}
            /\ dead' = dead \/ (t \in Root /\ Returned(m.from, n)')
        BY <3>3, HearIs
      <4>2. dead' # dead
        BY <2>4 DEF IsDead
      <4>3. QED
        BY <4>1, <4>2
    <3>4. QED
      BY <2>4, <3>1, <3>2, <3>3, <1>2, DeadIs
  <2>5. ASSUME ~\E q \in Router : Expire(q, n)
        PROVE ~IsDead(a, n)' /\ \A t \in Router : Passed(t, n)'
    <3>1. ~IsDead(a, n)'
      BY <2>1, <2>4, <2>5, <1>2
    <3>2. ASSUME NEW t \in Router, IsDead(t, n)'
          PROVE \E f \in Router : <<t, n, f>> \in heard' /\ (IsDead(f, n)' \/ Returned(f, n)')
      <4>1. CASE IsDead(t, n)
        <5>1. PICK f \in Router : <<t, n, f>> \in heard /\ (IsDead(f, n) \/ Returned(f, n))
          BY <4>1, <2>1 DEF Passed
        <5>2. IsDead(f, n)' \/ Returned(f, n)'
          BY <5>1, <1>2, <1>3, GrowsToo, Lands
        <5>3. QED
          BY <5>1, <5>2, Grows
      <4>2. CASE ~IsDead(t, n)
        BY <4>2, <3>2, <2>4, <2>5
      <4>3. QED
        BY <4>1, <4>2
    <3>3. QED
      BY <3>1, <3>2 DEF Passed
  <2>6. QED
    BY <2>3, <2>5
<1>7. CASE answers[a] < 1 /\ ~Silent(n) /\ answers'[a] # answers[a]
  BY <1>2, <1>7, AnswersCount
<1>8. QED
  BY <1>2, <1>4, <1>5, <1>6, <1>7

-----------------------------------------------------------------------------
(* The invariant, and what follows from it.                                *)

LEMMA NoneTwiceStep ==
  ASSUME IInv, [Next]_vars
  PROVE NoneTwice'
<1> USE DEF IInv
<1>1. ASSUME NEW r \in Router, NEW m \in checking[r], Forward(m) \/ ForwardAnswered(m)
      PROVE NoneTwice'
  <2>1. /\ m.name \in Name
        /\ again' = IF HasHeard(r, m.name) THEN again \cup {<<r, m.name>>} ELSE again
    BY <1>1, HearIs
  <2>2. HasHeard(r, m.name) => Raced(m.name)'
    BY <1>1, <2>1, Unknown, GrowsToo DEF Told
  <2>3. \A p \in again : p[2] \in Name /\ Faulty("race", p[2])
    BY DEF NoneTwice, TypeOK
  <2>4. ASSUME NEW p \in again'
        PROVE Faulty("race", p[2])'
    <3>1. CASE p \in again
      BY <2>3, <3>1, GrowsToo
    <3>2. CASE p \notin again
      BY <2>1, <2>2, <2>4, <3>2 DEF Raced
    <3>3. QED
      BY <3>1, <3>2
  <2>5. QED
    BY <2>4 DEF NoneTwice
<1>2. ASSUME again' = again
      PROVE NoneTwice'
  <2>1. \A p \in again : p[2] \in Name /\ Faulty("race", p[2])
    BY DEF NoneTwice, TypeOK
  <2>2. QED
    BY <1>2, <2>1, GrowsToo DEF NoneTwice
<1>3. ASSUME \/ \E q \in Leader : Send(q)
             \/ \E m \in net : DropDead(m) \/ Check(m) \/ Unsolicited(m) \/ PassBack(m) \/ Lose(m)
             \/ \E m \in net, b \in BOOLEAN : Receive(m, b)
             \/ \E q \in Router : \E m \in checking[q] : Idle(m)
             \/ \E q \in Router, k \in Name : Expire(q, k)
             \/ UNCHANGED vars
      PROVE again' = again
  BY <1>3 DEF Send, DropDead, Check, Unsolicited, PassBack, Receive, Lose, Idle, Expire, vars
<1>4. QED
  BY <1>1, <1>2, <1>3, Cases

LEMMA Start ==
  ASSUME Init
  PROVE IInv
<1>1. TypeOK
  BY DEF Init, TypeOK
<1>2. \A m : ~OnTheWay(m)
  BY DEF Init, OnTheWay
<1>3. \A r \in Router, n \in Name : ~Told(r, n) /\ ~HasHeard(r, n) /\ pit[r][n] = {} /\ ~IsDead(r, n)
  BY DEF Init, Told, HasHeard, IsDead
<1>4. Reading /\ Remembered /\ Spreading /\ Entries
  BY <1>3, LinkAssumption DEF Init, Reading, Remembered, Pending, Spreading, Entries
<1>5. Origins
  BY <1>2, <1>3 DEF Init, Origins
<1>6. Alone /\ NoneTwice
  BY <1>3, Names DEF Init, Alone, NoneTwice
<1>7. Used
  <2>1. \A a \in Leader : answers[a] = 0
    BY DEF Init
  <2>2. QED
    BY <2>1 DEF Init, Used
<1>8. Rooted
  <2>1. ASSUME NEW n \in Name, NEW S \in SUBSET Router, S # {},
               \A r \in S : r = Sender(n) \/ \E f \in S : <<r, n, f>> \in heard
        PROVE Sender(n) \in S
    BY <2>1 DEF Init
  <2>2. QED
    BY <2>1 DEF Rooted
<1>9. Returning
  <2>1. ASSUME NEW a \in Leader \ Root
        PROVE ~IsDead(a, Request(a)) /\ \A t \in Router : Passed(t, Request(a))
    BY <1>3, Requests, RouterAssumption DEF Passed
  <2>2. QED
    BY <2>1 DEF Returning
<1>10. QED
  BY <1>1, <1>4, <1>5, <1>6, <1>7, <1>8, <1>9 DEF IInv

LEMMA Step ==
  ASSUME IInv, [Next]_vars
  PROVE IInv'
<1>1. TypeOK' /\ Reading' /\ Entries'
  BY TypeStep, ReadingStep, EntriesStep DEF IInv
<1>2. Remembered' /\ Origins'
  BY RememberedStep, OriginsStep DEF IInv
<1>3. Spreading' /\ Alone' /\ Used' /\ Rooted'
  BY SpreadingStep, AloneStep, UsedStep, RootedStep DEF IInv
<1>4. Returning' /\ NoneTwice'
  BY ReturningStep, NoneTwiceStep
<1>5. QED
  BY <1>1, <1>2, <1>3, <1>4 DEF IInv

\* In every behaviour the invariant holds: what a router knows, holds and has heard
\* fits together.
THEOREM Invariance == Spec => []IInv
<1>1. Init => IInv
  BY Start
<1>2. IInv /\ [Next]_vars => IInv'
  BY Step
<1>3. QED
  BY <1>1, <1>2, PTL DEF Spec

\* In every behaviour the variables have their types.
THEOREM TypeCorrect == Spec => []TypeOK
<1>1. IInv => TypeOK
  BY DEF IInv
<1>2. QED
  BY <1>1, Invariance, PTL

\* A daemon is handed no broadcast twice, unless an entry ended while the reader was
\* between the dead nonce list and the lock.
THEOREM HeardOnce == Spec => []NoneTwice
<1>1. IInv => NoneTwice
  BY DEF IInv
<1>2. QED
  BY <1>1, Invariance, PTL

LEMMA AtRest ==
  ASSUME IInv
  PROVE Reached
<1>1. SUFFICES ASSUME NEW p \in sent, ~Faulty("loss", p[2]),
                      ~\E m \in InFlight(p[2]) : m.type = "interest",
                      NEW r \in Router \ {p[1]}
               PROVE HasHeard(r, p[2])
  BY DEF Reached
<1> DEFINE n == p[2]
           S == {s \in Router : Told(s, n)}
<1>2. n \in Name /\ p[1] \in Router /\ p = <<p[1], n>> /\ p[1] = Sender(n)
  BY DEF IInv, TypeOK, Origins
<1>3. \A t \in Router : ~Coming(t, n)
  BY <1>1 DEF Coming, OnTheWay, InFlight
<1>4. p[1] \in S
  BY <1>2 DEF Told
<1>5. ASSUME NEW s \in S
      PROVE Neighbor[s] \subseteq S
  <2>1. Neighbor[s] \subseteq Router
    BY LinkAssumption
  <2>2. QED
    BY <1>1, <1>2, <1>3, <2>1 DEF IInv, Spreading
<1>6. S = Router
  <2>1. S \in SUBSET Router /\ S # {}
    BY <1>4
  <2> HIDE DEF S
  <2>2. QED
    BY <1>5, <2>1, ConnectedAssumption
<1>7. Told(r, n)
  BY <1>6
<1>8. <<r, n>> \notin sent
  BY <1>2 DEF IInv, Origins
<1>9. QED
  BY <1>7, <1>8 DEF Told

\* A broadcast of which nothing was lost has reached every router when its copies
\* have come to rest, in every connected network.
THEOREM ReachesAll == Spec => []Reached
<1>1. IInv => Reached
  BY AtRest
<1>2. QED
  BY <1>1, Invariance, PTL

LEMMA Once ==
  ASSUME IInv
  PROVE OneAnswer
<1> USE DEF IInv
<1>1. SUFFICES ASSUME NEW a \in Leader \ Root
               PROVE /\ answers[a] > 1 => Faulty("race", Request(a))
                     /\ /\ InFlight(Request(a)) = {} /\ Smooth(Request(a))
                        /\ \E r \in Root : <<r, Request(a)>> \in answered
                        => answers[a] = 1
  BY DEF OneAnswer
<1>2. answers[a] > 1 => Faulty("race", Request(a))
  BY DEF Used, Raced
<1>3. ASSUME InFlight(Request(a)) = {}, Smooth(Request(a)),
             NEW g \in Root, <<g, Request(a)>> \in answered
      PROVE answers[a] = 1
  <2>1. \A m : OnTheWay(m) => m.name # Request(a)
    BY <1>3 DEF OnTheWay, InFlight
  <2>2. ~Raced(Request(a)) /\ answers[a] \in Nat
    BY <1>3 DEF Smooth, Raced, TypeOK
  <2>3. ~Silent(Request(a))
    BY <1>3 DEF Silent
  <2>4. answers[a] >= 1
    <3>1. SUFFICES ASSUME ~(answers[a] >= 1)
                   PROVE FALSE
      OBVIOUS
    <3>2. ~IsDead(a, Request(a)) /\ \A t \in Router : Passed(t, Request(a))
      BY <1>3, <2>3, <3>1 DEF Returning
    <3>3. QED
      BY <1>3, <2>1, <2>2, <3>2, Chain
  <2>5. QED
    BY <1>2, <2>2, <2>4 DEF Raced
<1>4. QED
  BY <1>2, <1>3

\* A leader is handed at most one answer, and has been handed one when the flood is
\* over, a root has answered and nothing failed.
THEOREM AnsweredOnce == Spec => []OneAnswer
<1>1. IInv => OneAnswer
  BY Once
<1>2. QED
  BY <1>1, Invariance, PTL
=============================================================================
