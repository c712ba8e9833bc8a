--------------------------- MODULE LsaFloodProofs ---------------------------
(***************************************************************************)
(* Flooding, for any routers, links, losses and bounds: types, no mark is  *)
(* forgotten, LsaFlood implements Dissemination, no son is left behind.    *)
(***************************************************************************)
EXTENDS LsaFlood, TLAPS

\* What is in transit speaks of versions that were issued, and an answer holds what
\* its name asks for, or something newer from a database exchange.
Genuine(m) ==
  /\ m.type = "data" => m.held \in {-1, m.seq} /\ m.held <= db[Origin]
  /\ m.type = "local" => m.seq <= m.held /\ m.held <= db[Origin]
  /\ m.type = "offer" => m.seq <= db[Origin]

Versions ==
  /\ \A r \in Router : db[r] <= db[Origin]
  /\ \A m \in net : Genuine(m)

IInv == TypeOK /\ Versions /\ NoMarkForgotten

\* Packets that carry no version to be stored.
Plain == {m \in Packet : m.type \in {"info", "request", "register", "deregister"}}

-----------------------------------------------------------------------------
LEMMA PacketFields ==
  ASSUME NEW m \in Packet
  PROVE  /\ m.from \in Router /\ m.to \in Router /\ m.seq \in Held
         /\ m.type \in {"info", "request", "data", "local"} => m.seq \in Seq0
         /\ m.type \in {"data", "local"} => m.held \in Held
         /\ m.type = "request" => m.nonce \in Nonce
BY DEF Packet, Held

LEMMA HeldNumbers ==
  /\ Seq0 \subseteq Held /\ Held \subseteq Int /\ Seq0 \subseteq Nat
  /\ \A v \in Held : v >= -1 /\ v <= MaxSeq /\ (v >= 0 => v \in Seq0)
BY BoundAssumption DEF Seq0, Held

\* Announcements, requests and registrations are well formed.
LEMMA InfoPlain ==
  ASSUME NEW r \in Router, NEW S \in SUBSET Router, NEW v \in Seq0
  PROVE  Info(r, S, v) \subseteq Plain
<1> SUFFICES ASSUME NEW m \in Info(r, S, v) PROVE m \in Plain
  OBVIOUS
<1>1. PICK s \in S : m = [type |-> "info", from |-> r, to |-> s, seq |-> v]
  BY DEF Info
<1>2. m \in Packet
  BY <1>1 DEF Packet
<1>3. QED
  BY <1>1, <1>2 DEF Plain

LEMMA RequestPlain ==
  ASSUME NEW r \in Router, NEW S \in SUBSET Router, NEW v \in Seq0, NEW n \in Nonce
  PROVE  Request(r, S, v, n) \subseteq Plain
<1> SUFFICES ASSUME NEW m \in Request(r, S, v, n) PROVE m \in Plain
  OBVIOUS
<1>1. PICK s \in S :
        m = [type |-> "request", from |-> r, to |-> s, seq |-> v, nonce |-> n]
  BY DEF Request
<1>2. m \in Packet
  BY <1>1 DEF Packet
<1>3. QED
  BY <1>1, <1>2 DEF Plain

LEMMA TreePlain ==
  ASSUME NEW r \in Router, NEW q \in Router, NEW v \in Held,
         NEW k \in {"register", "deregister"}
  PROVE  [type |-> k, from |-> r, to |-> q, seq |-> v] \in Plain
BY DEF Packet, Plain

LEMMA SonsPlain ==
  ASSUME TypeOK, NEW r \in Router, NEW v \in Seq0, NEW src
  PROVE  sendInfoToChildren(r, v) \subseteq Plain /\ sendInfoToAll(r, v, src) \subseteq Plain
<1>1. sons[r] \cap known[r] \in SUBSET Router /\ Neighbours[r] \ {src} \in SUBSET Router
  BY GraphAssumption DEF TypeOK
<1>2. QED
  BY <1>1, InfoPlain DEF sendInfoToChildren, sendInfoToAll

LEMMA MissType ==
  ASSUME TypeOK, NEW S, NEW v \in Seq0, Miss(S, v)
  PROVE  /\ missed' \in [Router -> SUBSET Seq0]
         /\ \A r \in Router : missed[r] \subseteq missed'[r]
         /\ \A r \in S \cap Router : v \in missed'[r]
BY DEF TypeOK, Miss

\* A bound that is drawn on remains one.
LEMMA SpendType ==
  ASSUME budget \in Scenario, NEW what \in {"faults", "exchanges", "rebuilds"}, Spend(what)
  PROVE  budget' \in Scenario
<1>1. budget[what] \in Nat /\ budget[what] - 1 \in Nat
  BY DEF Spend, Scenario
<1>2. QED
  BY <1>1 DEF Spend, Scenario

LEMMA DisturbType ==
  ASSUME budget \in Scenario, NEW kind, Disturb(kind)
  PROVE  budget' \in Scenario
BY SpendType DEF Disturb

\* The parent that takes the place of another, and what is sent.
LEMMA ChangeFacts ==
  ASSUME TypeOK, NEW r \in Router, NEW v \in Held, NEW rest, ChangeParent(r, v, rest)
  PROVE  /\ parent' \in [Router -> Router \cup {None}]
         /\ net' \subseteq rest \cup Plain
<1>1. PICK q \in (Closer[r] \cup {None}) \ {parent[r]} :
        /\ parent' = [parent EXCEPT ![r] = q]
        /\ net' = rest
              \cup {[type |-> "register", from |-> r, to |-> p, seq |-> v] :
                      p \in {q} \cap known[r]}
              \cup {[type |-> "deregister", from |-> r, to |-> p, seq |-> v] :
                      p \in {parent[r]} \cap known[r]}
  BY DEF ChangeParent
<1>2. known[r] \subseteq Router /\ Closer[r] \subseteq Router
  BY GraphAssumption DEF TypeOK
<1>3. parent' \in [Router -> Router \cup {None}]
  BY <1>1, <1>2 DEF TypeOK
<1>4. ASSUME NEW m \in net' PROVE m \in rest \cup Plain
  <2>1. CASE m \in rest
    BY <2>1
  <2>2. CASE \E p \in {q} \cap known[r] :
               m = [type |-> "register", from |-> r, to |-> p, seq |-> v]
    BY <1>2, <2>2, TreePlain
  <2>3. CASE \E p \in {parent[r]} \cap known[r] :
               m = [type |-> "deregister", from |-> r, to |-> p, seq |-> v]
    <3>1. PICK p \in {parent[r]} \cap known[r] :
                 m = [type |-> "deregister", from |-> r, to |-> p, seq |-> v]
      BY <2>3
    <3>2. p \in Router
      BY <1>2
    <3>3. QED
      BY <3>1, <3>2, TreePlain
  <2>4. QED
    BY <1>1, <2>1, <2>2, <2>3
<1>5. QED
  BY <1>3, <1>4

\* The parent that registerParents records, and what it sends.
LEMMA RegisterFacts ==
  ASSUME TypeOK, NEW r \in Router, NEW v \in Held, NEW rest, registerParents(r, v, rest)
  PROVE  /\ parent' \in [Router -> Router \cup {None}]
         /\ net' \subseteq rest \cup Plain
         /\ budget' \in Scenario
<1>1. CASE net' = rest /\ UNCHANGED <<parent, budget>>
  BY <1>1 DEF TypeOK
<1>2. CASE /\ ChangeParent(r, v, rest)
           /\ IF parent[r] = None THEN UNCHANGED budget ELSE Disturb("move")
  <2>1. budget' \in Scenario
    BY <1>2, DisturbType DEF TypeOK
  <2>2. QED
    BY <1>2, <2>1, ChangeFacts
<1>3. QED
  BY <1>1, <1>2 DEF registerParents

\* What a new advertisement changes: databases only grow, and r holds v at least.
LEMMA AcceptFacts ==
  ASSUME TypeOK, NEW r \in Router, NEW v \in Seq0, NEW src, NEW rest,
         Accept(r, v, src, rest)
  PROVE  /\ parent' \in [Router -> Router \cup {None}]
         /\ net' \subseteq rest \cup Plain
         /\ budget' \in Scenario
         /\ missed' \in [Router -> SUBSET Seq0]
         /\ \A s \in Router : missed[s] \subseteq missed'[s]
         /\ \/ db' = db
            \/ db[r] < v /\ db' = [db EXCEPT ![r] = v]
         /\ db'[r] >= v
<1>0. db[r] \in Held /\ v \in Held /\ v \in Nat
  BY HeldNumbers DEF TypeOK
<1>1. CASE /\ db[r] = -1 /\ db' = [db EXCEPT ![r] = v]
           /\ registerParents(r, v, rest \cup sendInfoToAll(r, v, src))
           /\ UNCHANGED missed
  <2>1. /\ parent' \in [Router -> Router \cup {None}]
        /\ net' \subseteq (rest \cup sendInfoToAll(r, v, src)) \cup Plain
        /\ budget' \in Scenario
    BY <1>0, <1>1, RegisterFacts
  <2>2. net' \subseteq rest \cup Plain
    BY <2>1, SonsPlain
  <2>3. missed' \in [Router -> SUBSET Seq0] /\ \A s \in Router : missed[s] \subseteq missed'[s]
    BY <1>1 DEF TypeOK
  <2>4. db[r] < v /\ db'[r] >= v
    BY <1>0, <1>1 DEF TypeOK
  <2>5. QED
    BY <1>1, <2>1, <2>2, <2>3, <2>4
<1>2. CASE /\ db[r] \in 0 .. v - 1 /\ db' = [db EXCEPT ![r] = v]
           /\ registerParents(r, v, rest \cup sendInfoToChildren(r, v))
           /\ Miss(sons[r] \ known[r], v)
  <2>1. /\ parent' \in [Router -> Router \cup {None}]
        /\ net' \subseteq (rest \cup sendInfoToChildren(r, v)) \cup Plain
        /\ budget' \in Scenario
    BY <1>0, <1>2, RegisterFacts
  <2>2. net' \subseteq rest \cup Plain
    BY <2>1, SonsPlain
  <2>3. missed' \in [Router -> SUBSET Seq0] /\ \A s \in Router : missed[s] \subseteq missed'[s]
    BY <1>2, MissType
  <2>4. db[r] < v /\ db'[r] >= v
    BY <1>0, <1>2 DEF TypeOK
  <2>5. QED
    BY <1>2, <2>1, <2>2, <2>3, <2>4
<1>3. CASE /\ db[r] >= v /\ net' = rest \cup sendInfoToChildren(r, v)
           /\ Miss(sons[r] \ known[r], v) /\ UNCHANGED <<db, parent, budget>>
  <2>1. net' \subseteq rest \cup Plain
    BY <1>3, SonsPlain
  <2>2. missed' \in [Router -> SUBSET Seq0] /\ \A s \in Router : missed[s] \subseteq missed'[s]
    BY <1>3, MissType
  <2>3. QED
    BY <1>3, <2>1, <2>2 DEF TypeOK
<1>4. QED
  BY <1>1, <1>2, <1>3 DEF Accept

LEMMA DbFacts ==
  ASSUME TypeOK, Versions
  PROVE  /\ db \in [Router -> Held] /\ Origin \in Router
         /\ \A s \in Router : /\ db[s] \in Int /\ db[s] >= -1
                             /\ db[s] <= db[s] /\ db[s] <= db[Origin]
<1>1. db \in [Router -> Held] /\ Origin \in Router
  BY GraphAssumption DEF TypeOK
<1>2. \A s \in Router : db[s] \in Int /\ db[s] >= -1
  BY <1>1, HeldNumbers
<1>3. \A s \in Router : db[s] <= db[Origin]
  BY DEF Versions
<1>4. QED
  BY <1>1, <1>2, <1>3

\* Versions hold on when databases grow and what is sent is genuine.
LEMMA GrowthKeepsVersions ==
  ASSUME TypeOK, Versions, db' \in [Router -> Held],
         \A s \in Router : db[s] <= db'[s] /\ db'[s] <= db'[Origin],
         \A m \in net' : m \in net \/ Genuine(m)'
  PROVE  Versions'
<1> SUFFICES ASSUME NEW m \in net PROVE Genuine(m)'
  BY DEF Versions
<1>1. m \in Packet /\ Genuine(m)
  BY DEF TypeOK, Versions
<1>2. /\ m.type \in {"data", "local"} => m.held \in Int
      /\ m.seq \in Int
  BY <1>1, PacketFields, HeldNumbers
<1>3. db[Origin] \in Int /\ db'[Origin] \in Int /\ db[Origin] <= db'[Origin]
  BY GraphAssumption, HeldNumbers DEF TypeOK
<1>4. QED
  BY <1>1, <1>2, <1>3 DEF Genuine

\* The version an answer brings was issued.
LEMMA AnswerVersion ==
  ASSUME NEW m \in Packet, Genuine(m), m.type = "local" \/ (m.type = "data" /\ m.held # -1)
  PROVE  m.held \in Seq0 /\ m.held <= db[Origin]
<1>1. m.held \in Held /\ m.seq \in Seq0
  BY PacketFields
<1>2. m.held <= db[Origin]
  BY DEF Genuine
<1>3. CASE m.type = "local"
  <2>1. m.seq <= m.held /\ m.seq \in Nat /\ m.held \in Int
    BY <1>1, <1>3, HeldNumbers DEF Genuine
  <2>2. m.held >= 0
    BY <2>1
  <2>3. QED
    BY <1>1, <1>2, <2>2, HeldNumbers
<1>4. CASE m.held # -1
  BY <1>1, <1>2, <1>4 DEF Held
<1>5. QED
  BY <1>3, <1>4

LEMMA PlainGenuine == \A m \in Plain : Genuine(m) /\ Genuine(m)'
BY DEF Plain, Genuine

\* A version that was issued is stored nowhere but where it is new.
LEMMA AcceptKeeps ==
  ASSUME TypeOK, Versions, NEW r \in Router, NEW v \in Seq0, NEW src, NEW rest,
         Accept(r, v, src, rest), v <= db[Origin],
         rest \subseteq Packet, \A m \in rest : Genuine(m)
  PROVE  /\ db' \in [Router -> Held] /\ net' \subseteq Packet /\ Versions'
         /\ \A s \in Router : db[s] <= db'[s]
         /\ db'[r] >= v
         /\ \/ db' = db
            \/ r # Origin /\ db[r] < v /\ db' = [db EXCEPT ![r] = v]
<1>1. /\ net' \subseteq rest \cup Plain
      /\ \/ db' = db
         \/ db[r] < v /\ db' = [db EXCEPT ![r] = v]
      /\ db'[r] >= v
  BY AcceptFacts
<1>2. v \in Held /\ v \in Int /\ Held \subseteq Int /\ Origin \in Router
  BY HeldNumbers, GraphAssumption
<1>3. db \in [Router -> Held] /\ \A s \in Router : db[s] \in Int /\ db[s] <= db[Origin]
  BY <1>2 DEF TypeOK, Versions
<1>4. /\ db' \in [Router -> Held]
      /\ \A s \in Router : db[s] <= db'[s] /\ db'[s] <= db[Origin]
      /\ db'[Origin] = db[Origin]
      /\ \/ db' = db
         \/ r # Origin /\ db[r] < v /\ db' = [db EXCEPT ![r] = v]
  <2>1. CASE db' = db
    BY <1>3, <2>1
  <2>2. CASE db[r] < v /\ db' = [db EXCEPT ![r] = v]
    <3>1. db' \in [Router -> Held]
      BY <1>2, <1>3, <2>2
    <3>2. \A s \in Router : db'[s] = IF s = r THEN v ELSE db[s]
      BY <1>3, <2>2
    <3>3. r # Origin
      BY <1>2, <1>3, <2>2
    <3>4. QED
      BY <1>2, <1>3, <2>2, <3>1, <3>2, <3>3
  <2>3. QED
    BY <1>1, <2>1, <2>2
<1>5. \A s \in Router : db'[s] <= db'[Origin]
  BY <1>4
<1>6. net' \subseteq Packet
  BY <1>1 DEF Plain
<1>7. \A m \in rest \cup Plain : Genuine(m)'
  BY <1>4, PlainGenuine DEF Genuine
<1>8. Versions'
  BY <1>1, <1>5, <1>7 DEF Versions
<1>9. QED
  BY <1>1, <1>4, <1>6, <1>8

\* Marks stay pursued when none is set, no timer ends without trace, and what was
\* learnt or missed stays so.
LEMMA QuietKeepsMarks ==
  ASSUME TypeOK, NoMarkForgotten, db' \in [Router -> Held],
         \A s \in Router : /\ db[s] <= db'[s] /\ missed[s] \subseteq missed'[s]
                          /\ pending'[s] \subseteq pending[s],
         \A s \in Router : \A v \in pending'[s] :
           Pursued(s, v) => Pursued(s, v)' \/ v <= db'[s] \/ v \in missed'[s]
  PROVE  NoMarkForgotten'
<1> SUFFICES ASSUME NEW s \in Router, NEW v \in pending'[s]
             PROVE  Pursued(s, v)' \/ v <= db'[s] \/ v \in missed'[s]
  BY DEF NoMarkForgotten
<1>1. v \in pending[s] /\ v \in Int /\ db[s] \in Int /\ db'[s] \in Int
  BY HeldNumbers DEF TypeOK
<1>2. Pursued(s, v) \/ v <= db[s] \/ v \in missed[s]
  BY <1>1 DEF NoMarkForgotten
<1>3. QED
  BY <1>1, <1>2

-----------------------------------------------------------------------------
\* At first nobody holds anything, but for Origin where the scenario has it.
LEMMA InitDb ==
  ASSUME Init
  PROVE  /\ budget \in Scenario /\ Origin \in Router
         /\ db \in [Router -> {-1, 0}]
         /\ \A r \in Router : db[r] <= db[Origin]
<1>1. budget \in Scenario /\ Origin \in Router
  BY BoundAssumption, GraphAssumption DEF Init
<1>2. budget.first \in {-1, 0}
  BY <1>1 DEF Scenario
<1> DEFINE first == budget.first
<1> HIDE DEF first
<1>3. first \in {-1, 0} /\ db = [r \in Router |-> IF r = Origin THEN first ELSE -1]
  BY <1>2 DEF Init, first
<1>4. db \in [Router -> {-1, 0}]
  BY <1>3
<1>5. \A r \in Router : db[r] = -1 \/ db[r] = db[Origin]
  BY <1>1, <1>3
<1>6. db[Origin] >= -1 /\ db[Origin] <= db[Origin]
  BY <1>1, <1>4
<1>7. QED
  BY <1>1, <1>4, <1>5, <1>6

LEMMA InitInv == Init => IInv
<1> SUFFICES ASSUME Init PROVE IInv
  OBVIOUS
<1>1. 0 \in Seq0 /\ 0 \in Held /\ -1 \in Held
  BY BoundAssumption DEF Seq0, Held
<1>2. TypeOK
  <2>1. db \in [Router -> Held] /\ budget \in Scenario
    BY <1>1, InitDb
  <2>2. QED
    BY <1>1, <2>1, GraphAssumption DEF Init, TypeOK
<1>3. Versions
  BY InitDb DEF Init, Versions
<1>4. NoMarkForgotten
  BY DEF Init, NoMarkForgotten
<1>5. QED
  BY <1>2, <1>3, <1>4 DEF IInv

-----------------------------------------------------------------------------
LEMMA RecordType ==
  ASSUME TypeOK, NEW r \in Router, NEW v \in Seq0, NEW f \in Router, NEW n \in Nonce
  PROVE  Record(r, v, f, n) \in [Router -> [Seq0 -> SUBSET (Face \X Nonce)]]
<1>1. pit[r] \in [Seq0 -> SUBSET (Face \X Nonce)] /\ <<f, n>> \in Face \X Nonce
  BY DEF TypeOK, Face
<1>2. [pit[r] EXCEPT ![v] = @ \cup {<<f, n>>}] \in [Seq0 -> SUBSET (Face \X Nonce)]
  BY <1>1
<1>3. QED
  BY <1>2 DEF TypeOK, Record

LEMMA SettleType ==
  ASSUME TypeOK, NEW r \in Router, NEW v \in Seq0, Settle(r, v)
  PROVE  /\ pit' \in [Router -> [Seq0 -> SUBSET (Face \X Nonce)]]
         /\ dead' \in [Router -> SUBSET (Seq0 \X Nonce)]
<1>1. pit[r] \in [Seq0 -> SUBSET (Face \X Nonce)] /\ pit[r][v] \subseteq Face \X Nonce
  BY DEF TypeOK
<1>2. [pit[r] EXCEPT ![v] = {}] \in [Seq0 -> SUBSET (Face \X Nonce)]
  BY <1>1
<1>3. pit' \in [Router -> [Seq0 -> SUBSET (Face \X Nonce)]]
  BY <1>2 DEF TypeOK, Settle
<1>4. {<<v, i[2]>> : i \in pit[r][v]} \subseteq Seq0 \X Nonce
  BY <1>1
<1>5. dead' \in [Router -> SUBSET (Seq0 \X Nonce)]
  BY <1>4 DEF TypeOK, Settle
<1>6. QED
  BY <1>3, <1>5

LEMMA StartFacts ==
  ASSUME TypeOK, NEW e \in Retry, Start(e)
  PROVE  /\ armed' \subseteq Retry /\ armed \subseteq armed'
         /\ \E f \in armed' : f.router = e.router /\ f.seq = e.seq
BY DEF TypeOK, Start

LEMMA cancelTimerFacts ==
  ASSUME TypeOK, NEW r, NEW v, cancelTimer(r, v)
  PROVE  /\ armed' \subseteq Retry
         /\ \A e \in armed : e \in armed' \/ (e.router = r /\ e.seq = v)
BY DEF TypeOK, cancelTimer

LEMMA TargetsType ==
  ASSUME TypeOK, NEW r \in Router
  PROVE  Targets(r) \in SUBSET Router
BY GraphAssumption DEF TypeOK, Targets

LEMMA IssueStep ==
  ASSUME IInv, Issue
  PROVE  IInv'
<1> DEFINE v == db[Origin] + 1
<1>1. /\ TypeOK /\ Versions /\ NoMarkForgotten
      /\ v <= MaxSeq /\ db' = [db EXCEPT ![Origin] = v]
      /\ net' = net \cup sendInfoToChildren(Origin, v)
      /\ Miss(sons[Origin] \ known[Origin], v)
      /\ UNCHANGED <<pending, timerVars, forwarderVars, sent, treeVars, budget>>
  BY DEF Issue, IInv
<1>2. /\ db \in [Router -> Held] /\ Origin \in Router /\ Held \subseteq Int
      /\ db[Origin] \in Held /\ db[Origin] >= -1
  BY <1>1, GraphAssumption, HeldNumbers DEF TypeOK
<1>3. v \in Seq0 /\ v \in Held
  BY <1>1, <1>2, BoundAssumption DEF Seq0, Held
<1>4. /\ db' \in [Router -> Held]
      /\ \A s \in Router : db[s] <= db'[s] /\ db'[s] <= db'[Origin]
  <2>1. \A s \in Router : db'[s] = IF s = Origin THEN v ELSE db[s]
    BY <1>1, <1>2
  <2>2. \A s \in Router : db[s] \in Int /\ db[s] <= db[Origin]
    BY <1>1, <1>2 DEF Versions
  <2>3. QED
    BY <1>1, <1>2, <1>3, <2>1, <2>2
<1> HIDE DEF v
<1>5. sendInfoToChildren(Origin, v) \subseteq Plain
  BY <1>1, <1>2, <1>3, SonsPlain
<1>6. /\ missed' \in [Router -> SUBSET Seq0]
      /\ \A s \in Router : missed[s] \subseteq missed'[s]
  BY <1>1, <1>3, MissType
<1>7. TypeOK'
  BY <1>1, <1>4, <1>5, <1>6
     DEF TypeOK, timerVars, forwarderVars, treeVars, Plain
<1>8. Versions'
  BY <1>1, <1>4, <1>5, PlainGenuine, GrowthKeepsVersions
<1>9. NoMarkForgotten'
  BY <1>1, <1>4, <1>6, QuietKeepsMarks DEF Pursued, timerVars
<1>10. QED
  BY <1>7, <1>8, <1>9 DEF IInv

\* Actions that touch neither databases, marks nor timers.
LEMMA StillStep ==
  ASSUME IInv, TypeOK', UNCHANGED <<db, pending, armed, firing>>,
         \A s \in Router : missed[s] \subseteq missed'[s],
         \A m \in net' : m \in net \/ Genuine(m)
  PROVE  IInv'
<1>1. TypeOK /\ Versions /\ NoMarkForgotten
  BY DEF IInv
<1>2. \A m \in net' : m \in net \/ Genuine(m)'
  BY DEF Genuine
<1>3. db' \in [Router -> Held] /\ \A s \in Router : db[s] <= db'[s] /\ db'[s] <= db'[Origin]
  BY <1>1, DbFacts
<1>4. Versions'
  BY <1>1, <1>2, <1>3, GrowthKeepsVersions
<1>5. NoMarkForgotten'
  BY <1>1, <1>3, QuietKeepsMarks DEF Pursued
<1>6. QED
  BY <1>4, <1>5 DEF IInv

LEMMA ReceiveInfoStep ==
  ASSUME IInv, NEW m, ReceiveInfo(m)
  PROVE  IInv'
<1> DEFINE r == m.to
           v == m.seq
           n == <<r, sent[r]>>
           e == [router |-> r, seq |-> v, to |-> Targets(r), count |-> 0]
           forwarded == sendInfoToChildren(r, v)
           asked == Request(r, Targets(r), v, n)
<1>1. TypeOK /\ Versions /\ NoMarkForgotten /\ m \in net /\ m.type = "info"
  BY DEF ReceiveInfo, IInv
<1>2. r \in Router /\ v \in Seq0 /\ sent[r] \in Nat /\ n \in Nonce
  BY <1>1, PacketFields DEF TypeOK, Nonce
<1>3. Targets(r) \in SUBSET Router /\ e \in Retry
  BY <1>1, <1>2, TargetsType, BoundAssumption DEF Retry
<1>4. forwarded \subseteq Plain /\ asked \subseteq Plain
  BY <1>1, <1>2, <1>3, SonsPlain, RequestPlain
<1>5. /\ UNCHANGED <<db, firing, dead, treeVars, budget>>
      /\ net' \subseteq net \cup forwarded \cup asked
      /\ \/ UNCHANGED <<pending, armed, pit, sent>> /\ (UNCHANGED missed \/ \E S : Miss(S, v))
         \/ /\ pending' = [pending EXCEPT ![r] = @ \cup {v}]
            /\ Start(e) /\ pit' = Record(r, v, r, n) /\ sent' = [sent EXCEPT ![r] = @ + 1]
            /\ \E S : Miss(S, v)
         \/ /\ pending' = [pending EXCEPT ![r] = @ \cup {v}]
            /\ UNCHANGED <<armed, pit, sent>> /\ Miss({r}, v)
  BY Zenon DEF ReceiveInfo
<1> HIDE DEF r, v, n, e, forwarded, asked
<1>6. /\ missed' \in [Router -> SUBSET Seq0]
      /\ \A s \in Router : missed[s] \subseteq missed'[s]
  BY <1>1, <1>2, <1>5, MissType DEF TypeOK
<1>7. \A p \in net' : p \in net \/ p \in Plain
  BY <1>4, <1>5
<1>8. db' \in [Router -> Held] /\ \A s \in Router : db[s] <= db'[s] /\ db'[s] <= db'[Origin]
  BY <1>1, <1>5, DbFacts
<1>9. Versions'
  BY <1>1, <1>7, <1>8, PlainGenuine, GrowthKeepsVersions
<1>10. net' \subseteq Packet
  BY <1>1, <1>7 DEF TypeOK, Plain
<1>11. CASE UNCHANGED <<pending, armed, pit, sent>>
  <2>1. TypeOK'
    BY <1>1, <1>5, <1>6, <1>10, <1>11 DEF TypeOK, treeVars
  <2>2. NoMarkForgotten'
    BY <1>1, <1>5, <1>6, <1>8, <1>11, QuietKeepsMarks DEF Pursued
  <2>3. QED
    BY <1>9, <2>1, <2>2 DEF IInv
<1>12. CASE /\ pending' = [pending EXCEPT ![r] = @ \cup {v}]
            /\ Start(e) /\ pit' = Record(r, v, r, n) /\ sent' = [sent EXCEPT ![r] = @ + 1]
  <2>1. /\ armed' \subseteq Retry /\ armed \subseteq armed'
        /\ \E f \in armed' : f.router = r /\ f.seq = v
    BY <1>1, <1>3, <1>12, StartFacts DEF e
  <2>2. pit' \in [Router -> [Seq0 -> SUBSET (Face \X Nonce)]]
    BY <1>1, <1>2, <1>12, RecordType
  <2>3. pending' \in [Router -> SUBSET Seq0] /\ sent' \in [Router -> Nat]
    BY <1>1, <1>2, <1>12 DEF TypeOK
  <2>4. TypeOK'
    BY <1>1, <1>5, <1>6, <1>10, <2>1, <2>2, <2>3 DEF TypeOK, treeVars
  <2>5. ASSUME NEW s \in Router, NEW u \in pending'[s]
        PROVE  Pursued(s, u)' \/ u <= db'[s] \/ u \in missed'[s]
    <3>1. CASE s = r /\ u = v
      BY <2>1, <3>1 DEF Pursued
    <3>2. CASE u \in pending[s]
      <4>1. Pursued(s, u) \/ u <= db[s] \/ u \in missed[s]
        BY <1>1, <3>2 DEF NoMarkForgotten
      <4>2. QED
        BY <1>5, <1>6, <2>1, <4>1 DEF Pursued
    <3>3. QED
      BY <1>1, <1>2, <1>12, <3>1, <3>2 DEF TypeOK
  <2>6. QED
    BY <1>9, <2>4, <2>5 DEF IInv, NoMarkForgotten
<1>13. CASE /\ pending' = [pending EXCEPT ![r] = @ \cup {v}]
            /\ UNCHANGED <<armed, pit, sent>> /\ Miss({r}, v)
  <2>1. TypeOK'
    BY <1>1, <1>2, <1>5, <1>6, <1>10, <1>13 DEF TypeOK, treeVars
  <2>2. v \in missed'[r]
    BY <1>1, <1>2, <1>13, MissType
  <2>3. ASSUME NEW s \in Router, NEW u \in pending'[s]
        PROVE  Pursued(s, u)' \/ u <= db'[s] \/ u \in missed'[s]
    <3>1. CASE s = r /\ u = v
      BY <2>2, <3>1
    <3>2. CASE u \in pending[s]
      <4>1. Pursued(s, u) \/ u <= db[s] \/ u \in missed[s]
        BY <1>1, <3>2 DEF NoMarkForgotten
      <4>2. QED
        BY <1>5, <1>6, <1>13, <4>1 DEF Pursued
    <3>3. QED
      BY <1>1, <1>2, <1>13, <3>1, <3>2 DEF TypeOK
  <2>4. QED
    BY <1>9, <2>1, <2>3 DEF IInv, NoMarkForgotten
<1>14. QED
  BY <1>5, <1>11, <1>12, <1>13

\* The answer to a request holds the version that was asked for, or none.
LEMMA ReceiveRequestStep ==
  ASSUME IInv, NEW m, ReceiveRequest(m)
  PROVE  IInv'
<1> DEFINE r == m.to
           v == m.seq
           n == m.nonce
           data == [type |-> "data", from |-> r, to |-> m.from, seq |-> v,
                    held |-> IF db[r] = v THEN v ELSE -1]
<1>1. TypeOK /\ Versions /\ m \in net /\ m.type = "request"
  BY DEF ReceiveRequest, IInv
<1>2. /\ r \in Router /\ v \in Seq0 /\ m.from \in Router /\ n \in Nonce
      /\ v \in Int /\ v \in Held /\ -1 \in Held
  BY <1>1, PacketFields, HeldNumbers DEF TypeOK, Held
<1>3. data \in Packet /\ Genuine(data)
  <2>1. (IF db[r] = v THEN v ELSE -1) \in Held
    BY <1>2
  <2>2. data \in Packet
    BY <1>2, <2>1 DEF Packet
  <2>3. db[r] <= db[Origin] /\ db[Origin] \in Int /\ db[Origin] >= -1
    BY <1>1, <1>2, GraphAssumption, HeldNumbers DEF Versions, TypeOK
  <2>4. QED
    BY <1>2, <2>2, <2>3 DEF Genuine
<1>4. /\ UNCHANGED <<db, pending, timerVars, sent, treeVars, missed, budget>>
      /\ \/ net' \subseteq net
         \/ net' \subseteq net \cup {data}
         \/ parent[r] \in known[r] /\ net' \subseteq net \cup Request(r, {parent[r]}, v, n)
      /\ \/ UNCHANGED pit
         \/ pit' = Record(r, v, m.from, n)
         \/ pit' = [pit EXCEPT ![r][v] = {<<m.from, n>>, <<r, n>>}]
      /\ \/ UNCHANGED dead
         \/ dead' = [dead EXCEPT ![r] = @ \cup {<<v, n>>}]
  BY Zenon DEF ReceiveRequest, Answer, forwarderVars
<1> HIDE DEF r, v, n, data
<1>5. parent[r] \in known[r] => Request(r, {parent[r]}, v, n) \subseteq Plain
  <2>1. parent[r] \in known[r] => {parent[r]} \in SUBSET Router
    BY <1>1, <1>2 DEF TypeOK
  <2>2. QED
    BY <1>2, <2>1, RequestPlain
<1>6. net' \subseteq net \cup (Plain \cup {data})
  BY <1>4, <1>5
<1>7. pit' \in [Router -> [Seq0 -> SUBSET (Face \X Nonce)]]
  <2>1. pit[r] \in [Seq0 -> SUBSET (Face \X Nonce)]
    BY <1>1, <1>2 DEF TypeOK
  <2>2. {<<m.from, n>>, <<r, n>>} \in SUBSET (Face \X Nonce)
    BY <1>2 DEF Face
  <2>3. [pit[r] EXCEPT ![v] = {<<m.from, n>>, <<r, n>>}]
          \in [Seq0 -> SUBSET (Face \X Nonce)]
    BY <2>1, <2>2
  <2>4. [pit EXCEPT ![r][v] = {<<m.from, n>>, <<r, n>>}]
          \in [Router -> [Seq0 -> SUBSET (Face \X Nonce)]]
    BY <1>1, <2>3 DEF TypeOK
  <2>5. /\ pit \in [Router -> [Seq0 -> SUBSET (Face \X Nonce)]]
        /\ Record(r, v, m.from, n) \in [Router -> [Seq0 -> SUBSET (Face \X Nonce)]]
    BY <1>1, <1>2, RecordType DEF TypeOK
  <2>6. QED
    BY <1>4, <2>4, <2>5
<1>8. dead' \in [Router -> SUBSET (Seq0 \X Nonce)]
  <2>1. <<v, n>> \in Seq0 \X Nonce
    BY <1>2
  <2>2. dead \in [Router -> SUBSET (Seq0 \X Nonce)]
    BY <1>1 DEF TypeOK
  <2>3. CASE dead' = [dead EXCEPT ![r] = @ \cup {<<v, n>>}]
    BY <2>1, <2>2, <2>3
  <2>4. QED
    BY <1>4, <2>2, <2>3
<1>9. TypeOK'
  BY <1>1, <1>3, <1>4, <1>6, <1>7, <1>8 DEF TypeOK, timerVars, treeVars, Plain
<1>10. \A p \in Plain \cup {data} : Genuine(p)
  BY <1>3, PlainGenuine
<1>11. QED
  BY <1>4, <1>6, <1>9, <1>10, StillStep DEF timerVars

LEMMA ReceiveDataStep ==
  ASSUME IInv, NEW m, ReceiveData(m)
  PROVE  IInv'
<1> DEFINE r == m.to
           v == m.seq
           faces == {i[1] : i \in pit[r][v]} \ {m.from, r}
           passed == {[m EXCEPT !.from = r, !.to = f] : f \in faces}
           rest == (net \ {m}) \cup passed
<1>1. TypeOK /\ Versions /\ NoMarkForgotten /\ m \in net /\ m.type = "data"
  BY DEF ReceiveData, IInv
<1>2. /\ m \in Packet /\ r \in Router /\ v \in Seq0 /\ m.from \in Router /\ m.held \in Held
      /\ Genuine(m)
  BY <1>1, PacketFields DEF TypeOK, Versions
<1>3. passed \subseteq Packet /\ \A p \in passed : Genuine(p)
  <2>1. faces \subseteq Router
    BY <1>1, <1>2 DEF TypeOK, Face
  <2>2. m \in [type : {"data", "local"}, from : Router, to : Router, seq : Seq0, held : Held]
    BY <1>1, <1>2 DEF Packet
  <2>3. ASSUME NEW f \in faces
        PROVE  /\ [m EXCEPT !.from = r, !.to = f] \in Packet
               /\ Genuine([m EXCEPT !.from = r, !.to = f])
    <3>1. f \in Router
      BY <2>1
    <3>2. [m EXCEPT !.from = r, !.to = f]
            \in [type : {"data", "local"}, from : Router, to : Router, seq : Seq0, held : Held]
      BY <1>2, <2>2, <3>1
    <3>3. /\ [m EXCEPT !.from = r, !.to = f].type = "data"
          /\ [m EXCEPT !.from = r, !.to = f].seq = m.seq
          /\ [m EXCEPT !.from = r, !.to = f].held = m.held
      BY <1>1, <2>2
    <3>4. QED
      BY <1>1, <1>2, <3>2, <3>3 DEF Packet, Genuine
  <2>4. QED
    BY <2>3
<1>4. /\ UNCHANGED <<firing, sent, sons, known>>
      /\ \/ /\ net' = net \ {m}
            /\ UNCHANGED <<db, pending, armed, forwarderVars, parent, missed, budget>>
         \/ /\ Settle(r, v) /\ cancelTimer(r, v)
            /\ pending' = [pending EXCEPT ![r] = @ \ {v}]
            /\ \/ net' = rest /\ UNCHANGED <<db, parent, missed, budget>>
               \/ m.held # -1 /\ Accept(r, m.held, m.from, rest)
  BY Zenon DEF ReceiveData
<1> HIDE DEF r, v, faces, passed, rest
<1>5. rest \subseteq Packet /\ \A p \in rest : Genuine(p)
  BY <1>1, <1>3 DEF rest, TypeOK, Versions
<1>6. CASE /\ net' = net \ {m}
           /\ UNCHANGED <<db, pending, armed, forwarderVars, parent, missed, budget>>
  <2>1. TypeOK'
    BY <1>1, <1>4, <1>6 DEF TypeOK, forwarderVars
  <2>2. net' \subseteq net
    BY <1>6
  <2>3. QED
    BY <1>4, <1>6, <2>1, <2>2, StillStep
<1>7. CASE /\ Settle(r, v) /\ cancelTimer(r, v)
           /\ pending' = [pending EXCEPT ![r] = @ \ {v}]
           /\ \/ net' = rest /\ UNCHANGED <<db, parent, missed, budget>>
              \/ m.held # -1 /\ Accept(r, m.held, m.from, rest)
  <2>1. /\ db' \in [Router -> Held] /\ net' \subseteq Packet /\ Versions'
        /\ \A s \in Router : db[s] <= db'[s]
        /\ parent' \in [Router -> Router \cup {None}]
        /\ budget' \in Scenario
        /\ missed' \in [Router -> SUBSET Seq0]
        /\ \A s \in Router : missed[s] \subseteq missed'[s]
    <3>1. CASE net' = rest /\ UNCHANGED <<db, parent, missed, budget>>
      <4>1. \A p \in net' : Genuine(p)'
        BY <1>5, <3>1 DEF Genuine
      <4>2. /\ db' \in [Router -> Held] /\ Versions'
            /\ \A s \in Router : db[s] <= db'[s]
        BY <1>1, <3>1, <4>1, DbFacts DEF Versions
      <4>3. QED
        BY <1>1, <1>5, <3>1, <4>2 DEF TypeOK
    <3>2. CASE m.held # -1 /\ Accept(r, m.held, m.from, rest)
      <4>1. m.held \in Seq0 /\ m.held <= db[Origin]
        BY <1>1, <1>2, <3>2, AnswerVersion
      <4>2. QED
        BY <1>1, <1>2, <1>5, <3>2, <4>1, AcceptKeeps, AcceptFacts
    <3>3. QED
      BY <1>7, <3>1, <3>2
  <2>2. /\ armed' \subseteq Retry
        /\ \A e \in armed : e \in armed' \/ (e.router = r /\ e.seq = v)
    BY <1>1, <1>7, cancelTimerFacts
  <2>3. /\ pending' \in [Router -> SUBSET Seq0]
        /\ \A s \in Router : pending'[s] \subseteq pending[s]
        /\ v \notin pending'[r]
    BY <1>1, <1>2, <1>7 DEF TypeOK
  <2>4. /\ pit' \in [Router -> [Seq0 -> SUBSET (Face \X Nonce)]]
        /\ dead' \in [Router -> SUBSET (Seq0 \X Nonce)]
    BY <1>1, <1>2, <1>7, SettleType
  <2>5. TypeOK'
    BY <1>1, <1>4, <2>1, <2>2, <2>3, <2>4 DEF TypeOK
  <2>6. \A s \in Router : \A u \in pending'[s] : Pursued(s, u) => Pursued(s, u)'
    BY <1>4, <2>2, <2>3 DEF Pursued
  <2>7. NoMarkForgotten'
    BY <1>1, <2>1, <2>3, <2>6, QuietKeepsMarks
  <2>8. QED
    BY <2>1, <2>5, <2>7 DEF IInv
<1>8. QED
  BY <1>4, <1>6, <1>7

\* A local answer holds at least the version whose timer it cancels.
LEMMA ReceiveLocalDataStep ==
  ASSUME IInv, NEW m, ReceiveLocalData(m)
  PROVE  IInv'
<1>1. /\ TypeOK /\ Versions /\ NoMarkForgotten /\ m \in net /\ m.type = "local"
      /\ cancelTimer(m.to, m.seq) /\ Accept(m.to, m.held, m.from, net \ {m})
      /\ UNCHANGED <<pending, firing, forwarderVars, sent, sons, known>>
  BY DEF ReceiveLocalData, IInv
<1>2. m \in Packet /\ m.to \in Router /\ m.seq \in Seq0 /\ m.held \in Held /\ Genuine(m)
  BY <1>1, PacketFields DEF TypeOK, Versions
<1>3. m.held \in Seq0 /\ m.seq <= m.held /\ m.held <= db[Origin] /\ m.held \in Int /\ m.seq \in Int
  <2>1. m.held \in Seq0 /\ m.held <= db[Origin]
    BY <1>1, <1>2, AnswerVersion
  <2>2. m.seq <= m.held
    BY <1>1, <1>2 DEF Genuine
  <2>3. QED
    BY <1>2, <2>1, <2>2, HeldNumbers
<1>4. net \ {m} \subseteq Packet /\ \A p \in net \ {m} : Genuine(p)
  BY <1>1 DEF TypeOK, Versions
<1>5. /\ db' \in [Router -> Held] /\ net' \subseteq Packet /\ Versions'
      /\ \A s \in Router : db[s] <= db'[s]
      /\ db'[m.to] >= m.held
  BY <1>1, <1>2, <1>3, <1>4, AcceptKeeps
<1>6. /\ parent' \in [Router -> Router \cup {None}]
      /\ budget' \in Scenario
      /\ missed' \in [Router -> SUBSET Seq0]
      /\ \A s \in Router : missed[s] \subseteq missed'[s]
  BY <1>1, <1>2, <1>3, AcceptFacts
<1>7. /\ armed' \subseteq Retry
      /\ \A e \in armed : e \in armed' \/ (e.router = m.to /\ e.seq = m.seq)
  BY <1>1, cancelTimerFacts
<1>8. TypeOK'
  BY <1>1, <1>5, <1>6, <1>7 DEF TypeOK, forwarderVars
<1>9. db'[m.to] \in Int /\ m.seq <= db'[m.to]
  <2>1. db'[m.to] \in Held
    BY <1>2, <1>5
  <2>2. db'[m.to] \in Int
    BY <2>1, HeldNumbers
  <2>3. m.seq <= m.held /\ m.held <= db'[m.to] /\ m.seq \in Int /\ m.held \in Int
    BY <1>3, <1>5
  <2>4. QED
    BY <2>2, <2>3
<1>10. ASSUME NEW s \in Router, NEW u \in pending'[s], Pursued(s, u)
       PROVE  Pursued(s, u)' \/ u <= db'[s] \/ u \in missed'[s]
  <2>1. CASE s = m.to /\ u = m.seq
    BY <1>9, <2>1
  <2>2. CASE ~(s = m.to /\ u = m.seq)
    BY <1>1, <1>7, <1>10, <2>2 DEF Pursued
  <2>3. QED
    BY <2>1, <2>2
<1>11. NoMarkForgotten'
  BY <1>1, <1>5, <1>6, <1>10, QuietKeepsMarks
<1>12. QED
  BY <1>5, <1>8, <1>11 DEF IInv

LEMMA ReceiveOfferStep ==
  ASSUME IInv, NEW m, ReceiveOffer(m)
  PROVE  IInv'
<1> DEFINE fits == m.from \in known[m.to] /\ parent[m.to] = m.from /\ m.seq > db[m.to]
<1>1. /\ TypeOK /\ Versions /\ NoMarkForgotten /\ m \in net /\ m.type = "offer"
      /\ \/ fits /\ Accept(m.to, m.seq, m.from, net \ {m})
         \/ ~fits /\ net' = net \ {m} /\ UNCHANGED <<db, parent, missed, budget>>
      /\ UNCHANGED <<pending, timerVars, forwarderVars, sent, sons, known>>
  BY DEF ReceiveOffer, IInv
<1>2. m \in Packet /\ m.to \in Router /\ m.seq \in Held /\ Genuine(m)
  BY <1>1, PacketFields DEF TypeOK, Versions
<1>3. CASE net' = net \ {m} /\ UNCHANGED <<db, parent, missed, budget>>
  <2>1. TypeOK'
    BY <1>1, <1>3 DEF TypeOK, timerVars, forwarderVars
  <2>2. net' \subseteq net
    BY <1>3
  <2>3. QED
    BY <1>1, <1>3, <2>1, <2>2, StillStep DEF timerVars
<1>4. CASE fits /\ Accept(m.to, m.seq, m.from, net \ {m})
  <2>1. m.seq \in Seq0 /\ m.seq <= db[Origin]
    <3>1. db[m.to] \in Int /\ db[m.to] >= -1 /\ m.seq \in Int
      BY <1>1, <1>2, HeldNumbers DEF TypeOK
    <3>2. m.seq >= 0
      BY <1>4, <3>1
    <3>3. QED
      BY <1>1, <1>2, <3>2, HeldNumbers DEF Genuine
  <2>2. net \ {m} \subseteq Packet /\ \A p \in net \ {m} : Genuine(p)
    BY <1>1 DEF TypeOK, Versions
  <2>3. /\ db' \in [Router -> Held] /\ net' \subseteq Packet /\ Versions'
        /\ \A s \in Router : db[s] <= db'[s]
    BY <1>1, <1>2, <1>4, <2>1, <2>2, AcceptKeeps
  <2>4. /\ parent' \in [Router -> Router \cup {None}]
        /\ budget' \in Scenario
        /\ missed' \in [Router -> SUBSET Seq0]
        /\ \A s \in Router : missed[s] \subseteq missed'[s]
    BY <1>1, <1>2, <1>4, <2>1, AcceptFacts
  <2>5. TypeOK'
    BY <1>1, <2>3, <2>4 DEF TypeOK, timerVars, forwarderVars
  <2>6. NoMarkForgotten'
    BY <1>1, <2>3, <2>4, QuietKeepsMarks DEF Pursued, timerVars
  <2>7. QED
    BY <2>3, <2>5, <2>6 DEF IInv
<1>5. QED
  BY <1>1, <1>3, <1>4

LEMMA RegistrationSteps ==
  ASSUME IInv, NEW m, ReceiveRegister(m) \/ ReceiveDeregister(m)
  PROVE  IInv'
<1>1. /\ TypeOK /\ Versions /\ m \in net /\ m.type \in {"register", "deregister"}
      /\ UNCHANGED <<db, pending, timerVars, forwarderVars, sent, parent, known, missed, budget>>
  BY DEF ReceiveRegister, ReceiveDeregister, IInv
<1>2. /\ m \in Packet /\ m.to \in Router /\ m.from \in Router /\ m.seq \in Held
      /\ db[m.to] \in Held /\ db[m.to] <= db[Origin]
  BY <1>1, PacketFields DEF TypeOK, Versions
<1> DEFINE offers == {[type |-> "offer", from |-> m.to, to |-> m.from, seq |-> db[m.to]]}
<1>3. offers \subseteq Packet /\ \A p \in offers : Genuine(p)
  BY <1>2 DEF Packet, Genuine
<1>4. net' \subseteq net \cup offers
  BY DEF ReceiveRegister, ReceiveDeregister
<1> HIDE DEF offers
<1>5. sons' \in [Router -> SUBSET Router]
  <2>1. sons \in [Router -> SUBSET Router]
    BY <1>1 DEF TypeOK
  <2>2. \/ sons' = [sons EXCEPT ![m.to] = @ \cup {m.from}]
        \/ sons' = [sons EXCEPT ![m.to] = @ \ {m.from}]
    BY DEF ReceiveRegister, ReceiveDeregister
  <2>3. QED
    BY <1>2, <2>1, <2>2
<1>6. TypeOK'
  <2>1. net' \subseteq Packet
    BY <1>1, <1>3, <1>4 DEF TypeOK
  <2>2. UNCHANGED <<db, pending, armed, firing, pit, dead, sent, parent, known, missed, budget>>
    BY <1>1 DEF timerVars, forwarderVars
  <2>3. QED
    BY <1>1, <1>5, <2>1, <2>2 DEF TypeOK
<1>7. QED
  BY <1>1, <1>3, <1>4, <1>6, StillStep DEF timerVars

LEMMA TimerUpStep ==
  ASSUME IInv, NEW e, TimerUp(e)
  PROVE  IInv'
<1>1. /\ TypeOK /\ Versions /\ NoMarkForgotten
      /\ e \in armed /\ armed' = armed \ {e} /\ firing' = firing \cup {e}
      /\ UNCHANGED <<db, pending, forwarderVars, sent, treeVars, net, missed>>
      /\ UNCHANGED budget \/ Disturb("early")
  BY DEF TimerUp, IInv
<1>2. budget' \in Scenario
  BY <1>1, DisturbType DEF TypeOK
<1>3. TypeOK'
  BY <1>1, <1>2 DEF TypeOK, forwarderVars, treeVars
<1>4. Versions'
  BY <1>1 DEF Versions, Genuine
<1>5. NoMarkForgotten'
  BY <1>1 DEF NoMarkForgotten, Pursued
<1>6. QED
  BY <1>3, <1>4, <1>5 DEF IInv

\* The callback restarts the timer, or gives up and removes the mark.
LEMMA infoLsaExpireCronJobStep ==
  ASSUME IInv, NEW e, infoLsaExpireCronJob(e)
  PROVE  IInv'
<1> DEFINE r == e.router
           v == e.seq
           n == <<r, sent[r]>>
           next == [e EXCEPT !.count = @ + 1]
           asked == Request(r, e.to, v, n)
<1>1. /\ TypeOK /\ Versions /\ NoMarkForgotten
      /\ e \in firing /\ firing' = firing \ {e}
      /\ sent' = [sent EXCEPT ![r] = @ + 1] /\ pit' = Record(r, v, r, n)
      /\ net' = net \cup asked
      /\ UNCHANGED <<db, dead, treeVars, budget>>
      /\ \/ /\ pending' = [pending EXCEPT ![r] = @ \ {v}] /\ Miss({r}, v) /\ UNCHANGED armed
         \/ /\ ~(e.count + 1 >= MaxRetry) /\ Start(next) /\ UNCHANGED <<pending, missed>>
  BY Zenon DEF infoLsaExpireCronJob, IInv
<1>2. /\ e \in Retry /\ r \in Router /\ v \in Seq0 /\ e.to \in SUBSET Router
      /\ sent[r] \in Nat /\ n \in Nonce
  BY <1>1 DEF TypeOK, Retry, Nonce
<1>3. asked \subseteq Plain
  BY <1>2, RequestPlain
<1>4. pit' \in [Router -> [Seq0 -> SUBSET (Face \X Nonce)]] /\ sent' \in [Router -> Nat]
  <2>1. pit' \in [Router -> [Seq0 -> SUBSET (Face \X Nonce)]]
    BY <1>1, <1>2, RecordType
  <2>2. sent' \in [Router -> Nat]
    BY <1>1, <1>2 DEF TypeOK
  <2>3. QED
    BY <2>1, <2>2
<1>5. ~(e.count + 1 >= MaxRetry) =>
        next \in Retry /\ next.router = r /\ next.seq = v
  BY <1>2, BoundAssumption DEF Retry
<1> HIDE DEF r, v, n, next, asked
<1>6. net' \subseteq Packet
  BY <1>1, <1>3 DEF TypeOK, Plain
<1>7. db' \in [Router -> Held] /\ \A s \in Router : db[s] <= db'[s] /\ db'[s] <= db'[Origin]
  BY <1>1, DbFacts
<1>8. Versions'
  BY <1>1, <1>3, <1>7, PlainGenuine, GrowthKeepsVersions
<1>9. CASE pending' = [pending EXCEPT ![r] = @ \ {v}] /\ Miss({r}, v) /\ UNCHANGED armed
  <2>1. /\ missed' \in [Router -> SUBSET Seq0] /\ v \in missed'[r]
        /\ \A s \in Router : missed[s] \subseteq missed'[s]
    BY <1>1, <1>2, <1>9, MissType
  <2>2. /\ pending' \in [Router -> SUBSET Seq0]
        /\ \A s \in Router : pending'[s] \subseteq pending[s]
    BY <1>1, <1>9 DEF TypeOK
  <2>3. TypeOK'
    BY <1>1, <1>4, <1>6, <1>9, <2>1, <2>2 DEF TypeOK, treeVars
  <2>4. ASSUME NEW s \in Router, NEW u \in pending'[s], Pursued(s, u)
        PROVE  Pursued(s, u)' \/ u \in missed'[s]
    <3>1. CASE s = r /\ u = v
      BY <2>1, <3>1
    <3>2. CASE ~(s = r /\ u = v)
      BY <1>1, <1>9, <2>4, <3>2 DEF Pursued, r, v
    <3>3. QED
      BY <3>1, <3>2
  <2>5. NoMarkForgotten'
    BY <1>1, <1>7, <2>1, <2>2, <2>4, QuietKeepsMarks
  <2>6. QED
    BY <1>8, <2>3, <2>5 DEF IInv
<1>10. CASE ~(e.count + 1 >= MaxRetry) /\ Start(next) /\ UNCHANGED <<pending, missed>>
  <2>1. /\ armed' \subseteq Retry /\ armed \subseteq armed'
        /\ \E f \in armed' : f.router = r /\ f.seq = v
    BY <1>1, <1>5, <1>10, StartFacts
  <2>2. TypeOK'
    BY <1>1, <1>4, <1>6, <1>10, <2>1 DEF TypeOK, treeVars
  <2>3. ASSUME NEW s \in Router, NEW u \in pending'[s], Pursued(s, u)
        PROVE  Pursued(s, u)'
    <3>1. CASE s = r /\ u = v
      BY <2>1, <3>1 DEF Pursued
    <3>2. CASE ~(s = r /\ u = v)
      BY <1>1, <2>1, <2>3, <3>2 DEF Pursued, r, v
    <3>3. QED
      BY <3>1, <3>2
  <2>4. NoMarkForgotten'
    BY <1>1, <1>7, <1>10, <2>3, QuietKeepsMarks
  <2>5. QED
    BY <1>8, <2>2, <2>4 DEF IInv
<1>11. QED
  BY <1>1, <1>9, <1>10

LEMMA RebuildStep ==
  ASSUME IInv, NEW r \in Router, Rebuild(r)
  PROVE  IInv'
<1>1. /\ TypeOK /\ db[r] \in Held /\ ChangeParent(r, db[r], net)
      /\ Spend("rebuilds") \/ Disturb("move")
      /\ UNCHANGED <<db, pending, timerVars, forwarderVars, sent, sons, known, missed>>
  BY DEF Rebuild, IInv, TypeOK
<1>2. /\ parent' \in [Router -> Router \cup {None}]
      /\ net' \subseteq net \cup Plain
      /\ budget' \in Scenario
  BY <1>1, ChangeFacts, SpendType, DisturbType DEF TypeOK
<1>3. TypeOK'
  BY <1>1, <1>2 DEF TypeOK, timerVars, forwarderVars, Plain
<1>4. QED
  BY <1>1, <1>2, <1>3, PlainGenuine, StillStep DEF timerVars

LEMMA NeighbourSteps ==
  ASSUME IInv, NEW r \in Router, NEW q \in Router, Forget(r, q) \/ Meet(r, q)
  PROVE  IInv'
<1>1. /\ TypeOK /\ net' \subseteq net
      /\ UNCHANGED <<db, pending, timerVars, forwarderVars, sent, parent, sons, net, missed>>
      /\ UNCHANGED budget \/ Disturb("forget")
      /\ \/ known' = [known EXCEPT ![r] = @ \ {q}]
         \/ known' = [known EXCEPT ![r] = @ \cup {q}]
  BY DEF Forget, Meet, IInv
<1>2. budget' \in Scenario
  <2>1. budget \in Scenario
    BY <1>1 DEF TypeOK
  <2>2. QED
    BY <1>1, <2>1, DisturbType
<1>3. known' \in [Router -> SUBSET Router]
  <2>1. known \in [Router -> SUBSET Router]
    BY <1>1 DEF TypeOK
  <2>2. QED
    BY <1>1, <2>1
<1>4. TypeOK'
  <2>1. UNCHANGED <<db, pending, armed, firing, pit, dead, sent, parent, sons, net, missed>>
    BY <1>1 DEF timerVars, forwarderVars
  <2>2. QED
    BY <1>1, <1>2, <1>3, <2>1 DEF TypeOK
<1>5. QED
  BY <1>1, <1>4, StillStep DEF timerVars

LEMMA LoseStep ==
  ASSUME IInv, NEW m, Lose(m)
  PROVE  IInv'
<1>1. /\ TypeOK /\ m \in net /\ m.type \in {"info", "request", "data"}
      /\ Disturb("lose") /\ net' = net \ {m} /\ net' \subseteq net
      /\ UNCHANGED missed \/ Miss({m.to}, m.seq)
      /\ UNCHANGED <<db, pending, timerVars, forwarderVars, sent, treeVars>>
  BY DEF Lose, IInv
<1>2. m.seq \in Seq0
  BY <1>1, PacketFields DEF TypeOK
<1>3. /\ missed' \in [Router -> SUBSET Seq0]
      /\ \A s \in Router : missed[s] \subseteq missed'[s]
  BY <1>1, <1>2, MissType DEF TypeOK
<1>4. budget' \in Scenario
  BY <1>1, DisturbType DEF TypeOK
<1>5. TypeOK'
  BY <1>1, <1>3, <1>4 DEF TypeOK, timerVars, forwarderVars, treeVars
<1>6. QED
  BY <1>1, <1>3, <1>5, StillStep DEF timerVars

LEMMA FinalizeStep ==
  ASSUME IInv, NEW r \in Router, NEW v \in Seq0, Finalize(r, v)
  PROVE  IInv'
<1>1. /\ TypeOK /\ Settle(r, v) /\ net' \subseteq net
      /\ UNCHANGED <<db, pending, timerVars, sent, treeVars, net, missed, budget>>
  BY DEF Finalize, IInv
<1>2. TypeOK'
  BY <1>1, SettleType DEF TypeOK, timerVars, treeVars
<1>3. QED
  BY <1>1, <1>2, StillStep DEF timerVars

LEMMA ExchangeStep ==
  ASSUME IInv, NEW r \in Router, NEW q \in Router, NEW v \in Seq0, Exchange(r, q, v)
  PROVE  IInv'
<1> DEFINE answer == [type |-> "local", from |-> q, to |-> r, seq |-> v, held |-> db[q]]
<1>1. /\ TypeOK /\ Versions /\ v <= db[q] /\ net' = net \cup {answer}
      /\ Spend("exchanges")
      /\ UNCHANGED <<db, pending, timerVars, forwarderVars, sent, treeVars, missed>>
  BY DEF Exchange, IInv
<1>2. db[q] \in Held /\ db[q] <= db[Origin]
  BY <1>1 DEF TypeOK, Versions
<1>3. answer \in Packet /\ Genuine(answer)
  BY <1>1, <1>2 DEF Packet, Genuine
<1>4. budget' \in Scenario
  BY <1>1, SpendType DEF TypeOK
<1> HIDE DEF answer
<1>5. TypeOK'
  BY <1>1, <1>3, <1>4 DEF TypeOK, timerVars, forwarderVars, treeVars
<1>6. QED
  BY <1>1, <1>3, <1>5, StillStep DEF timerVars

-----------------------------------------------------------------------------
LEMMA StepInv ==
  ASSUME IInv, [Next]_vars
  PROVE  IInv'
<1>1. CASE Issue
  BY <1>1, IssueStep
<1>2. ASSUME NEW m \in net, Receive(m) PROVE IInv'
  BY <1>2, ReceiveInfoStep, ReceiveRequestStep, ReceiveDataStep, ReceiveLocalDataStep,
     RegistrationSteps, ReceiveOfferStep DEF Receive
<1>3. ASSUME NEW m \in net, Lose(m) PROVE IInv'
  BY <1>3, LoseStep
<1>4. ASSUME NEW e \in armed, TimerUp(e) PROVE IInv'
  BY <1>4, TimerUpStep
<1>5. ASSUME NEW e \in firing, infoLsaExpireCronJob(e) PROVE IInv'
  BY <1>5, infoLsaExpireCronJobStep
<1>6. ASSUME NEW r \in Router, NEW v \in Seq0, Finalize(r, v) PROVE IInv'
  BY <1>6, FinalizeStep
<1>7. ASSUME NEW r \in Router, Rebuild(r) PROVE IInv'
  BY <1>7, RebuildStep
<1>8. ASSUME NEW r \in Router, NEW q \in Router, Forget(r, q) \/ Meet(r, q) PROVE IInv'
  BY <1>8, NeighbourSteps
<1>9. ASSUME NEW r \in Router, NEW q \in Router, NEW v \in Seq0, Exchange(r, q, v) PROVE IInv'
  BY <1>9, ExchangeStep
<1>10. CASE UNCHANGED vars
  BY <1>10 DEF vars, timerVars, forwarderVars, treeVars, IInv, TypeOK, Versions,
     Genuine, NoMarkForgotten, Pursued
<1>11. QED
  BY <1>1, <1>2, <1>3, <1>4, <1>5, <1>6, <1>7, <1>8, <1>9, <1>10 DEF Next

LEMMA Invariance == Spec => []IInv
<1>1. Init => IInv
  BY InitInv
<1>2. IInv /\ [Next]_vars => IInv'
  BY StepInv
<1>3. QED
  BY <1>1, <1>2, PTL DEF Spec

\* Databases, marks, timers, pending entries and packets keep their shape, whatever
\* the topology and the bounds (LsaController, InfoController).
THEOREM TypeCorrect == Spec => []TypeOK
<1>1. IInv => TypeOK
  BY DEF IInv
<1>2. QED
  BY <1>1, Invariance, PTL

\* A mark of a request is never left behind without a timer, unless the router has
\* the version, gave up, or did not know its parent (InfoController.cpp:56).
THEOREM MarksPursued == Spec => []NoMarkForgotten
<1>1. IInv => NoMarkForgotten
  BY DEF IInv
<1>2. QED
  BY <1>1, Invariance, PTL

-----------------------------------------------------------------------------
\* Only r learns, and something newer that was issued, when it accepts v.
LEMMA AcceptLearns ==
  ASSUME TypeOK, Versions, NEW r \in Router, NEW v \in Seq0, NEW src, NEW rest,
         v <= db[Origin], Accept(r, v, src, rest)
  PROVE  D!Learn(r) \/ UNCHANGED db
<1>1. \/ db' = db
      \/ db[r] < v /\ db' = [db EXCEPT ![r] = v]
  BY AcceptFacts
<1>2. CASE db[r] < v /\ db' = [db EXCEPT ![r] = v]
  <2>1. v \in Nat /\ db[r] \in Int /\ db[Origin] \in Int
    BY HeldNumbers, GraphAssumption DEF TypeOK
  <2>2. r # Origin
    BY <1>2, <2>1
  <2>3. v \in 0 .. db[Origin]
    BY <2>1
  <2>4. QED
    BY <1>2, <2>2, <2>3 DEF D!Learn
<1>3. QED
  BY <1>1, <1>2

\* Every step of flooding is the origin's issue, a router's learning, or neither.
LEMMA StepDisseminates ==
  ASSUME IInv, [Next]_vars
  PROVE  [D!Next]_db
<1>1. TypeOK /\ Versions
  BY DEF IInv
<1>2. CASE Issue
  BY <1>2 DEF Issue, D!Next, D!Issue
<1>3. ASSUME NEW m \in net, Receive(m) PROVE [D!Next]_db
  <2>1. m \in Packet /\ m.to \in Router /\ m.seq \in Held /\ Genuine(m)
    BY <1>1, PacketFields DEF TypeOK, Versions
  <2>2. CASE ReceiveInfo(m) \/ ReceiveRequest(m) \/ ReceiveRegister(m) \/ ReceiveDeregister(m)
    BY <2>2 DEF ReceiveInfo, ReceiveRequest, ReceiveRegister, ReceiveDeregister
  <2>3. CASE ReceiveData(m)
    <3>1. ASSUME NEW rest, m.held # -1, Accept(m.to, m.held, m.from, rest)
          PROVE  [D!Next]_db
      <4>0. m.type = "data"
        BY <2>3 DEF ReceiveData
      <4>1. m.held \in Seq0 /\ m.held <= db[Origin]
        BY <2>1, <3>1, <4>0, AnswerVersion
      <4>2. QED
        BY <1>1, <2>1, <3>1, <4>1, AcceptLearns DEF D!Next
    <3>2. QED
      BY <2>3, <3>1, Zenon DEF ReceiveData
  <2>4. CASE ReceiveLocalData(m)
    <3>1. m.held \in Seq0 /\ m.held <= db[Origin]
      BY <2>1, <2>4, AnswerVersion DEF ReceiveLocalData
    <3>2. Accept(m.to, m.held, m.from, net \ {m})
      BY <2>4 DEF ReceiveLocalData
    <3>3. QED
      BY <1>1, <2>1, <3>1, <3>2, AcceptLearns DEF D!Next
  <2>5. CASE ReceiveOffer(m)
    <3>1. CASE m.seq > db[m.to] /\ Accept(m.to, m.seq, m.from, net \ {m})
      <4>1. db[m.to] \in Int /\ db[m.to] >= -1 /\ m.seq \in Int
        BY <1>1, <2>1, HeldNumbers DEF TypeOK
      <4>2. m.seq \in Seq0 /\ m.seq <= db[Origin]
        BY <2>1, <2>5, <3>1, <4>1, HeldNumbers DEF Genuine, ReceiveOffer
      <4>3. QED
        BY <1>1, <2>1, <3>1, <4>2, AcceptLearns DEF D!Next
    <3>2. QED
      BY <2>5, <3>1 DEF ReceiveOffer
  <2>6. QED
    BY <1>3, <2>2, <2>3, <2>4, <2>5 DEF Receive
<1>4. ASSUME NEW r \in Router, Rebuild(r) PROVE UNCHANGED db
  BY <1>4 DEF Rebuild
<1>5. ASSUME NEW m \in net, Lose(m) PROVE UNCHANGED db
  BY <1>5 DEF Lose
<1>6. ASSUME NEW e, TimerUp(e) \/ infoLsaExpireCronJob(e) PROVE UNCHANGED db
  BY <1>6 DEF TimerUp, infoLsaExpireCronJob
<1>7. ASSUME NEW r, NEW q, NEW v, Finalize(r, v) \/ Forget(r, q) \/ Meet(r, q) \/ Exchange(r, q, v)
      PROVE  UNCHANGED db
  BY <1>7 DEF Finalize, Forget, Meet, Exchange
<1>8. CASE UNCHANGED vars
  BY <1>8 DEF vars
<1>9. QED
  BY <1>2, <1>3, <1>4, <1>5, <1>6, <1>7, <1>8 DEF Next

\* Flooding implements Dissemination: a router only ever moves forward, and only to a
\* version that its origin has issued, however packets are delayed and repeated.
THEOREM FloodDisseminates == Spec => Disseminates
<1>1. Init => D!Init
  BY InitDb DEF D!Init
<1>2. IInv /\ [Next]_vars => [D!Next]_db
  BY StepDisseminates
<1>3. QED
  BY <1>1, <1>2, Invariance, PTL DEF Spec, Disseminates, D!Spec

-----------------------------------------------------------------------------
(***************************************************************************)
(* No son is left behind (NoSonLeftBehind), for any routers, links, losses *)
(* and bounds: between a registration and the announcements there is no    *)
(* gap through which the newest version could escape a son.                *)
(***************************************************************************)

\* A packet is backed by what its sender holds and by where the tree is: what is
\* sent is held, an empty answer is to a request for an old version, and a
\* registration on its way is to the parent, a deregistration to a former one.
Vouched(m) ==
  /\ m.type = "data" /\ m.held = -1 => m.seq < db[Origin]
  /\ m.type \in {"data", "local"} /\ m.held # -1 => m.held <= db[m.from]
  /\ m.type \in {"offer", "register"} => m.seq <= db[m.from]
  /\ m.type = "register" =>
       parent[m.from] = m.to /\ m.to \in known[m.from] /\ m.from \in Neighbours[m.to]
  /\ m.type = "deregister" => parent[m.from] # m.to
  /\ m.type = "offer" => m.from \in known[m.to]

Leaving(s, p) == \E m \in net : m.type = "deregister" /\ m.from = s /\ m.to = p
Informed(s, v) == \E m \in net : m.type = "info" /\ m.to = s /\ m.seq = v
Offered(s, p, v) ==
  /\ parent[s] = p
  /\ \E m \in net : m.type = "offer" /\ m.from = p /\ m.to = s /\ m.seq = v

\* What is newest at its parent has reached a son, or is on its way, unless it was
\* missed or the son is leaving.
Reached(s, p) ==
  db[p] = db[Origin] /\ db[s] < db[p] /\ ~Leaving(s, p) =>
    \/ db[p] \in pending[s] \cup missed[s]
    \/ Informed(s, db[p]) \/ Offered(s, p, db[p])

SonsInv ==
  /\ \A m \in net : Vouched(m)
  /\ \A p \in Router : sons[p] \subseteq Neighbours[p]
  /\ \A p \in Router : \A s \in sons[p] : Reached(s, p)

-----------------------------------------------------------------------------
LEMMA SonsInit == ASSUME Init PROVE SonsInv
BY DEF Init, SonsInv

\* A router that moves on the tree has no registration in transit, and tells the
\* parent it leaves, if it knows it.
Moves(s) ==
  \/ parent'[s] = parent[s]
  \/ /\ \A m \in net : m.type \in {"register", "deregister"} => m.from # s
     /\ parent[s] \in known[s] =>
          \E m \in net' : m.type = "deregister" /\ m.from = s /\ m.to = parent[s]

\* A packet that has gone has done its work.
Done(m) ==
  /\ m.type = "info" =>
       \/ m.to = Origin
       \/ m.seq \in pending'[m.to] \cup missed'[m.to]
       \/ m.seq <= db'[m.to]
  /\ m.type = "offer" => m.seq <= db'[m.to] \/ parent[m.to] # m.from
  /\ m.type = "deregister" => m.from \notin sons'[m.to]

\* A son that lags behind what its parent just learnt is told, or missed it.
Notified(s, p) ==
  db'[p] # db[p] /\ db'[s] < db'[p] =>
    \/ db'[p] \in missed'[s]
    \/ \E m \in net' : m.type = "info" /\ m.to = s /\ m.seq = db'[p]

\* Nothing newer was issued, and no neighbour was met or forgotten.
Calm ==
  /\ db'[Origin] = db[Origin] /\ known' = known
  /\ \A s \in Router : db[s] <= db'[s] /\ missed[s] \subseteq missed'[s] /\ Moves(s)

\* A mark goes when the version arrived, is no longer the newest, or is given up.
MarksEnd ==
  \A s \in Router : \A u \in pending[s] \ pending'[s] :
    u <= db'[s] \/ u < db[Origin] \/ u \in missed'[s]

-----------------------------------------------------------------------------
LEMMA RouterFacts ==
  ASSUME IInv
  PROVE  /\ \A s \in Router : /\ db[s] \in Int /\ db[s] >= -1 /\ db[s] <= db[Origin]
                             /\ sons[s] \subseteq Router /\ known[s] \subseteq Router
         /\ db[Origin] \in Int
         /\ \A m \in net : m \in Packet /\ m.from \in Router /\ m.to \in Router /\ m.seq \in Int
BY DbFacts, PacketFields, HeldNumbers DEF IInv, TypeOK

\* A packet stays vouched for while databases grow and no neighbour is forgotten.
LEMMA VouchedKept ==
  ASSUME IInv, IInv', SonsInv, Calm, NEW m \in net \cap net'
  PROVE  Vouched(m)'
<1>1. m \in Packet /\ Vouched(m) /\ m.from \in Router /\ m.to \in Router /\ m.seq \in Int
  BY RouterFacts DEF SonsInv
<1>2. /\ db[m.from] \in Int /\ db'[m.from] \in Int /\ db[m.from] <= db'[m.from]
      /\ db'[Origin] = db[Origin]
  BY <1>1, HeldNumbers DEF IInv, TypeOK, Calm
<1>3. m.type \in {"data", "local"} => m.held \in Int
  BY <1>1, PacketFields, HeldNumbers
<1>4. /\ m.type = "data" /\ m.held = -1 => m.seq < db'[Origin]
      /\ m.type \in {"data", "local"} /\ m.held # -1 => m.held <= db'[m.from]
      /\ m.type \in {"offer", "register"} => m.seq <= db'[m.from]
  BY <1>1, <1>2, <1>3 DEF Vouched
<1>5. m.type \in {"register", "deregister"} => parent'[m.from] = parent[m.from]
  BY <1>1 DEF Calm, Moves
<1>6. /\ m.type = "register" =>
           parent'[m.from] = m.to /\ m.to \in known'[m.from] /\ m.from \in Neighbours[m.to]
      /\ m.type = "deregister" => parent'[m.from] # m.to
      /\ m.type = "offer" => m.from \in known'[m.to]
  BY <1>1, <1>5 DEF Vouched, Calm
<1>. QED
  BY <1>4, <1>6 DEF Vouched

\* What reached a son before has reached it now.
LEMMA ReachedKept ==
  ASSUME IInv, IInv', SonsInv, Calm, MarksEnd, \A m \in net \ net' : Done(m),
         NEW p \in Router, NEW s \in sons[p], s \in sons'[p], Notified(s, p)
  PROVE  Reached(s, p)'
<1> DEFINE v == db[Origin]
<1> SUFFICES ASSUME db'[p] = v, db'[s] < v,
                    \A m \in net' : ~(m.type = "deregister" /\ m.from = s /\ m.to = p)
             PROVE  \/ v \in pending'[s] \cup missed'[s]
                    \/ \E m \in net' : m.type = "info" /\ m.to = s /\ m.seq = v
                    \/ /\ parent'[s] = p
                       /\ \E m \in net' : m.type = "offer" /\ m.from = p /\ m.to = s /\ m.seq = v
  BY DEF Reached, Informed, Offered, Leaving, Calm
<1>1. /\ s \in Router /\ db[s] \in Int /\ v \in Int
      /\ db[s] <= db'[s] /\ db'[Origin] = v
  BY RouterFacts DEF Calm
<1>2. db'[s] \in Int
  BY <1>1, HeldNumbers DEF IInv, TypeOK
<1> HIDE DEF v
<1>3. CASE db'[p] # db[p]
  BY <1>3 DEF Notified
<1>4. CASE db'[p] = db[p]
  <2>1. ASSUME NEW m \in net, m.type = "deregister", m.from = s, m.to = p PROVE FALSE
    <3>1. m \in net \ net'
      BY <2>1
    <3>. QED
      BY <2>1, <3>1 DEF Done
  <2>2. db[p] = v /\ db[s] < v /\ ~Leaving(s, p)
    BY <1>1, <1>2, <1>4, <2>1 DEF Leaving
  <2>3. v \in pending[s] \cup missed[s] \/ Informed(s, v) \/ Offered(s, p, v)
    BY <2>2 DEF SonsInv, Reached, v
  <2>4. CASE v \in pending[s] \cup missed[s]
    BY <1>1, <1>2, <2>4 DEF MarksEnd, Calm, v
  <2>5. CASE Informed(s, v)
    <3>1. PICK m \in net : m.type = "info" /\ m.to = s /\ m.seq = v
      BY <2>5 DEF Informed
    <3>2. m \in net' \/ Done(m)
      OBVIOUS
    <3>. QED
      BY <1>1, <1>2, <3>1, <3>2 DEF Done
  <2>6. CASE Offered(s, p, v)
    <3>1. PICK m \in net : m.type = "offer" /\ m.from = p /\ m.to = s /\ m.seq = v
      BY <2>6 DEF Offered
    <3>2. parent[s] = p /\ p \in known[s]
      BY <2>6, <3>1 DEF Offered, SonsInv, Vouched
    <3>3. Moves(s)
      BY <1>1 DEF Calm
    <3>4. parent'[s] = p
      BY <3>2, <3>3 DEF Moves
    <3>5. m \in net' \/ Done(m)
      OBVIOUS
    <3>. QED
      BY <1>1, <1>2, <3>1, <3>2, <3>4, <3>5 DEF Done
  <2>. QED
    BY <2>3, <2>4, <2>5, <2>6
<1>. QED
  BY <1>3, <1>4

\* A calm step that keeps what its parts promise leaves no son behind.
LEMMA CalmStep ==
  ASSUME IInv, IInv', SonsInv, Calm, MarksEnd,
         \A m \in net \ net' : Done(m),
         \A m \in net' \ net : Vouched(m)',
         \A p \in Router : sons'[p] \subseteq Neighbours[p],
         \A p \in Router : \A s \in sons[p] \cap sons'[p] : Notified(s, p),
         \A p \in Router : \A s \in sons'[p] \ sons[p] : Reached(s, p)'
  PROVE  SonsInv'
<1>1. \A m \in net' : Vouched(m)'
  BY VouchedKept
<1>2. ASSUME NEW p \in Router, NEW s \in sons'[p] PROVE Reached(s, p)'
  BY <1>2, ReachedKept
<1>. QED
  BY <1>1, <1>2 DEF SonsInv

-----------------------------------------------------------------------------
\* Only r moves, if anyone, and what it sends about it is true.
Sends(r, rest) ==
  /\ rest \subseteq net'
  /\ \A m \in net' \ rest : Vouched(m)'
  /\ \A s \in Router : Moves(s)

LEMMA InfoVouched ==
  ASSUME NEW r, NEW S, NEW v, NEW m \in Info(r, S, v)
  PROVE  Vouched(m)'
BY DEF Info, Vouched

\* What is sent when the parent of r becomes another, whatever r holds.
LEMMA ChangeSends ==
  ASSUME IInv, SonsInv, NEW r \in Router, NEW v \in Held, v <= db'[r], known' = known,
         NEW rest, ChangeParent(r, v, rest)
  PROVE  Sends(r, rest)
<1>0. PICK q \in (Closer[r] \cup {None}) \ {parent[r]} :
        /\ \A m \in net : m.type \in {"register", "deregister"} => m.from # r
        /\ parent' = [parent EXCEPT ![r] = q]
        /\ net' = rest
              \cup {[type |-> "register", from |-> r, to |-> p, seq |-> v] :
                      p \in {q} \cap known[r]}
              \cup {[type |-> "deregister", from |-> r, to |-> p, seq |-> v] :
                      p \in {parent[r]} \cap known[r]}
  BY DEF ChangeParent
<1>1. parent \in [Router -> Router \cup {None}] /\ known[r] \subseteq Router
  BY DEF IInv, TypeOK
<1>2. parent'[r] = q /\ \A s \in Router \ {r} : parent'[s] = parent[s]
  BY <1>0, <1>1
<1>3. q \in known[r] => r \in Neighbours[q]
  BY <1>1, GraphAssumption
<1>4. ASSUME NEW m \in net' \ rest PROVE Vouched(m)'
  <2>1. CASE q \in known[r] /\ m = [type |-> "register", from |-> r, to |-> q, seq |-> v]
    BY <1>2, <1>3, <2>1 DEF Vouched
  <2>2. CASE m = [type |-> "deregister", from |-> r, to |-> parent[r], seq |-> v]
    BY <1>0, <1>2, <2>2 DEF Vouched
  <2>. QED
    BY <1>0, <2>1, <2>2
<1>5. parent[r] \in known[r] =>
        [type |-> "deregister", from |-> r, to |-> parent[r], seq |-> v] \in net'
  BY <1>0
<1>6. Moves(r)
  BY <1>0, <1>5 DEF Moves
<1>7. \A s \in Router : Moves(s)
  BY <1>2, <1>6 DEF Moves
<1>. QED
  BY <1>0, <1>4, <1>7 DEF Sends

LEMMA RegisterSends ==
  ASSUME IInv, SonsInv, NEW r \in Router, NEW v \in Held, v <= db'[r], known' = known,
         NEW rest, registerParents(r, v, rest)
  PROVE  Sends(r, rest)
<1>1. CASE net' = rest /\ UNCHANGED <<parent, budget>>
  BY <1>1 DEF Sends, Moves
<1>2. CASE ChangeParent(r, v, rest)
  BY <1>2, ChangeSends
<1>. QED
  BY <1>1, <1>2 DEF registerParents

\* r accepts what src holds: its sons are told, or are src.
LEMMA AcceptSends ==
  ASSUME IInv, SonsInv, NEW r \in Router, NEW v \in Seq0, NEW src \in Router, NEW rest,
         Accept(r, v, src, rest), v <= db[src], known' = known, sons' = sons
  PROVE  /\ Sends(r, rest)
         /\ \A p \in Router : \A s \in sons[p] : Notified(s, p)
<1>1. /\ db \in [Router -> Held] /\ v \in Held /\ v \in Int /\ Held \subseteq Int
      /\ db[r] \in Int /\ db[src] \in Int
  BY HeldNumbers DEF IInv, TypeOK
<1>2. sons[r] \subseteq Neighbours[r] /\ r \notin Neighbours[r]
  BY GraphAssumption DEF SonsInv
<1>3. ASSUME db' = [db EXCEPT ![r] = v],
             \A s \in sons[r] \ {src} :
               v \in missed'[s] \/ [type |-> "info", from |-> r, to |-> s, seq |-> v] \in net'
      PROVE  \A p \in Router : \A s \in sons[p] : Notified(s, p)
  <2>1. SUFFICES ASSUME NEW p \in Router, NEW s \in sons[p], db'[p] # db[p], db'[s] < db'[p]
                 PROVE  \/ db'[p] \in missed'[s]
                        \/ \E m \in net' : m.type = "info" /\ m.to = s /\ m.seq = db'[p]
    BY DEF Notified
  <2>2. p = r /\ db'[p] = v
    BY <1>1, <1>3, <2>1
  <2>3. s \in Router /\ s # r
    BY <1>2, <2>2, RouterFacts
  <2>4. db'[s] = db[s]
    BY <1>1, <1>3, <2>3
  <2>5. s # src
    BY <1>1, <2>1, <2>2, <2>4
  <2>6. v \in missed'[s] \/ [type |-> "info", from |-> r, to |-> s, seq |-> v] \in net'
    BY <1>3, <2>1, <2>2, <2>5
  <2>. QED
    BY <2>2, <2>6
<1>4. CASE /\ db' = [db EXCEPT ![r] = v]
           /\ registerParents(r, v, rest \cup sendInfoToAll(r, v, src))
  <2>1. Sends(r, rest \cup sendInfoToAll(r, v, src))
    BY <1>1, <1>4, RegisterSends
  <2>2. Sends(r, rest)
    BY <2>1, InfoVouched DEF Sends, sendInfoToAll
  <2>3. \A s \in sons[r] \ {src} : [type |-> "info", from |-> r, to |-> s, seq |-> v] \in net'
    BY <1>2, <2>1 DEF Sends, sendInfoToAll, Info
  <2>. QED
    BY <1>3, <1>4, <2>2, <2>3
<1>5. CASE /\ db' = [db EXCEPT ![r] = v]
           /\ registerParents(r, v, rest \cup sendInfoToChildren(r, v))
           /\ Miss(sons[r] \ known[r], v)
  <2>1. Sends(r, rest \cup sendInfoToChildren(r, v))
    BY <1>1, <1>5, RegisterSends
  <2>2. Sends(r, rest)
    BY <2>1, InfoVouched DEF Sends, sendInfoToChildren
  <2>3. \A s \in sons[r] \cap known[r] :
          [type |-> "info", from |-> r, to |-> s, seq |-> v] \in net'
    BY <2>1 DEF Sends, sendInfoToChildren, Info
  <2>4. \A s \in sons[r] \ known[r] : v \in missed'[s]
    BY <1>5, MissType, RouterFacts DEF IInv
  <2>. QED
    BY <1>3, <1>5, <2>2, <2>3, <2>4
<1>6. CASE net' = rest \cup sendInfoToChildren(r, v) /\ UNCHANGED <<db, parent, budget>>
  <2>1. Sends(r, rest)
    BY <1>6, InfoVouched DEF Sends, sendInfoToChildren, Moves
  <2>. QED
    BY <1>6, <2>1 DEF Notified
<1>. QED
  BY <1>4, <1>5, <1>6 DEF Accept

-----------------------------------------------------------------------------
(***************************************************************************)
(* The actions.                                                            *)
(***************************************************************************)

\* A version just issued concerns one parent, the origin, which tells its sons.
LEMMA IssueSons ==
  ASSUME IInv, IInv', SonsInv, Issue
  PROVE  SonsInv'
<1> DEFINE v == db[Origin] + 1
<1>1. /\ db' = [db EXCEPT ![Origin] = v]
      /\ net' = net \cup sendInfoToChildren(Origin, v)
      /\ Miss(sons[Origin] \ known[Origin], v)
      /\ UNCHANGED <<pending, parent, sons, known>>
      /\ v \in Seq0
  <2>1. v <= MaxSeq /\ v \in Int /\ v >= 0
    BY RouterFacts, GraphAssumption DEF Issue
  <2>2. v \in Seq0
    BY <2>1, BoundAssumption DEF Seq0
  <2>. QED
    BY <2>2 DEF Issue, treeVars
<1>2. Origin \in Router /\ db \in [Router -> Held] /\ db[Origin] \in Int
  BY RouterFacts, GraphAssumption DEF IInv, TypeOK
<1>3. db'[Origin] = v /\ \A s \in Router \ {Origin} : db'[s] = db[s]
  BY <1>1, <1>2
<1>4. \A s \in Router : db[s] \in Int /\ db[s] <= db[Origin] /\ db[s] <= db'[s]
  BY <1>2, <1>3, RouterFacts
<1>5. ASSUME NEW m \in net' PROVE Vouched(m)'
  <2>1. CASE m \in sendInfoToChildren(Origin, v)
    BY <2>1, InfoVouched DEF sendInfoToChildren
  <2>2. CASE m \in net
    <3>1. m \in Packet /\ Vouched(m) /\ m.from \in Router /\ m.seq \in Int
      BY <2>2, RouterFacts DEF SonsInv
    <3>2. m.type \in {"data", "local"} => m.held \in Int
      BY <3>1, PacketFields, HeldNumbers
    <3>3. db[m.from] \in Int /\ db'[m.from] \in Int /\ db[m.from] <= db'[m.from]
      BY <1>2, <1>3, <1>4, <3>1
    <3>. QED
      BY <1>1, <1>2, <1>3, <3>1, <3>2, <3>3 DEF Vouched
  <2>. QED
    BY <1>1, <2>1, <2>2
<1>6. ASSUME NEW p \in Router, NEW s \in sons'[p] PROVE Reached(s, p)'
  <2>1. SUFFICES ASSUME db'[p] = db'[Origin]
                 PROVE  \/ db'[p] \in missed'[s]
                        \/ \E m \in net' : m.type = "info" /\ m.to = s /\ m.seq = db'[p]
    BY DEF Reached, Informed
  <2>2. p = Origin /\ s \in sons[Origin] /\ s \in Router
    BY <1>1, <1>2, <1>3, <1>4, <2>1, RouterFacts
  <2>3. CASE s \in known[Origin]
    <3>1. [type |-> "info", from |-> Origin, to |-> s, seq |-> v] \in net'
      BY <1>1, <2>2, <2>3 DEF sendInfoToChildren, Info
    <3>. QED
      BY <1>3, <2>2, <3>1
  <2>4. CASE s \notin known[Origin]
    <3>1. v \in missed'[s]
      BY <1>1, <2>2, <2>4, MissType DEF IInv
    <3>. QED
      BY <1>3, <2>2, <3>1
  <2>. QED
    BY <2>3, <2>4
<1>7. \A p \in Router : sons'[p] \subseteq Neighbours[p]
  BY <1>1 DEF SonsInv
<1>. QED
  BY <1>5, <1>6, <1>7 DEF SonsInv

\* A neighbour is met or forgotten while no offer and no registration needs it.
LEMMA NeighbourSons ==
  ASSUME IInv, SonsInv, NEW r \in Router, NEW q \in Router, Forget(r, q) \/ Meet(r, q)
  PROVE  SonsInv'
<1>1. /\ UNCHANGED <<db, pending, parent, sons, net, missed>>
      /\ known' \in [Router -> SUBSET Router]
      /\ \A s \in Router \ {r} : known'[s] = known[s]
      /\ Idle(r)
  <2>1. known \in [Router -> SUBSET Router]
    BY DEF IInv, TypeOK
  <2>2. /\ UNCHANGED <<db, pending, timerVars, forwarderVars, sent, parent, sons, net, missed>>
        /\ Idle(r)
        /\ \/ known' = [known EXCEPT ![r] = @ \ {q}]
           \/ known' = [known EXCEPT ![r] = @ \cup {q}]
    BY Zenon DEF Forget, Meet
  <2>. QED
    BY <2>1, <2>2
<1>2. ASSUME NEW m \in net PROVE Vouched(m)'
  <2>1. Vouched(m) /\ m.from \in Router /\ m.to \in Router
    BY RouterFacts DEF SonsInv
  <2>2. m.to # r /\ (m.type = "register" => m.from # r)
    BY <1>1 DEF Idle
  <2>. QED
    BY <1>1, <2>1, <2>2 DEF Vouched
<1>3. ASSUME NEW p \in Router, NEW s \in sons[p] PROVE Reached(s, p)'
  BY <1>1 DEF SonsInv, Reached, Informed, Offered, Leaving
<1>. QED
  BY <1>1, <1>2, <1>3 DEF SonsInv

\* A step that sends plain or true packets and neither learns nor moves.
LEMMA StillSons ==
  ASSUME IInv, IInv', SonsInv, UNCHANGED <<db, parent, sons, known>>, MarksEnd,
         \A s \in Router : missed[s] \subseteq missed'[s],
         \A m \in net \ net' : Done(m),
         \A m \in net' \ net : Vouched(m)'
  PROVE  SonsInv'
<1>1. Calm
  BY RouterFacts, GraphAssumption DEF Calm, Moves
<1>2. \A p \in Router : \A s \in sons[p] : Notified(s, p)
  BY DEF Notified
<1>3. \A p \in Router : sons'[p] \subseteq Neighbours[p]
  BY DEF SonsInv
<1>4. \A p \in Router : sons'[p] = sons[p]
  OBVIOUS
<1>. QED
  BY <1>1, <1>2, <1>3, <1>4, CalmStep

LEMMA AskingVouched ==
  ASSUME NEW r, NEW S, NEW v, NEW n, NEW m \in Request(r, S, v, n)
  PROVE  Vouched(m)'
BY DEF Request, Vouched

\* An announcement leaves a mark, finds one, or brings nothing new.
LEMMA ReceiveInfoSons ==
  ASSUME IInv, IInv', SonsInv, NEW m, ReceiveInfo(m)
  PROVE  SonsInv'
<1> DEFINE r == m.to
           v == m.seq
           n == <<r, sent[r]>>
           sending == sendInfoToChildren(r, v) \cup Request(r, Targets(r), v, n)
<1>1. m \in net /\ m.type = "info" /\ UNCHANGED <<db, parent, sons, known>>
  BY DEF ReceiveInfo, treeVars
<1>2. r \in Router /\ v \in Seq0 /\ v \in Int /\ db[r] \in Int
  BY <1>1, PacketFields, RouterFacts, HeldNumbers DEF IInv, TypeOK
<1>3. /\ net \ {m} \subseteq net' /\ net' \subseteq net \cup sending
      /\ \/ UNCHANGED pending /\ (r = Origin \/ ~(v > db[r] /\ v \notin pending[r]))
         \/ pending' = [pending EXCEPT ![r] = @ \cup {v}]
      /\ UNCHANGED missed \/ \E S : Miss(S, v)
  BY Zenon DEF ReceiveInfo
<1> HIDE DEF sending, r, v, n
<1>4. \A p \in sending : Vouched(p)'
  BY InfoVouched, AskingVouched DEF sending, sendInfoToChildren
<1>5. \A s \in Router : missed[s] \subseteq missed'[s] /\ pending[s] \subseteq pending'[s]
  <2>1. \A s \in Router : missed[s] \subseteq missed'[s]
    BY <1>2, <1>3, MissType DEF IInv
  <2>2. \A s \in Router : pending[s] \subseteq pending'[s]
    <3>1. pending \in [Router -> SUBSET Seq0]
      BY DEF IInv, TypeOK
    <3>. QED
      BY <1>2, <1>3, <3>1
  <2>. QED
    BY <2>1, <2>2
<1>6. MarksEnd
  BY <1>5 DEF MarksEnd
<1>7. Done(m)
  <2>1. r = Origin \/ v \in pending'[r] \/ v <= db'[r]
    BY <1>1, <1>2, <1>3 DEF IInv, TypeOK
  <2>. QED
    BY <1>1, <2>1 DEF Done, r, v
<1>. QED
  BY <1>1, <1>3, <1>4, <1>5, <1>6, <1>7, StillSons

\* An empty answer is to a request for a version that is no longer the newest.
LEMMA ReceiveRequestSons ==
  ASSUME IInv, IInv', SonsInv, NEW m, ReceiveRequest(m)
  PROVE  SonsInv'
<1> DEFINE r == m.to
           v == m.seq
           data == [type |-> "data", from |-> r, to |-> m.from, seq |-> v,
                    held |-> IF db[r] = v THEN v ELSE -1]
           asked == Request(r, {parent[r]}, v, m.nonce)
<1>1. m \in net /\ m.type = "request" /\ UNCHANGED <<db, pending, parent, sons, known, missed>>
  BY DEF ReceiveRequest, treeVars
<1>2. /\ r \in Router /\ v \in Int /\ v >= 0 /\ db[r] \in Int /\ db[r] <= db[Origin]
      /\ db[Origin] \in Int
  BY <1>1, PacketFields, RouterFacts, HeldNumbers DEF IInv, TypeOK
<1>3. /\ net \ {m} \subseteq net'
      /\ \/ net' \subseteq net \cup asked
         \/ net' \subseteq net \cup {data} /\ db[r] >= v
  BY Zenon DEF ReceiveRequest, Answer
<1>4. ASSUME NEW p, p = data, db[r] >= v PROVE Vouched(p)'
  BY <1>1, <1>2, <1>4 DEF Vouched
<1>5. \A p \in asked : Vouched(p)'
  BY AskingVouched
<1> HIDE DEF data, asked
<1>6. \A p \in net \ net' : Done(p)
  BY <1>1, <1>3 DEF Done
<1>7. \A p \in net' \ net : Vouched(p)'
  BY <1>3, <1>4, <1>5
<1>8. MarksEnd
  BY <1>1 DEF MarksEnd
<1>9. \A s \in Router : missed[s] \subseteq missed'[s]
  BY <1>1
<1>. QED
  BY <1>1, <1>6, <1>7, <1>8, <1>9, StillSons

LEMMA TimerSons ==
  ASSUME IInv, IInv', SonsInv,
         \/ \E e \in armed : TimerUp(e)
         \/ \E e \in firing : infoLsaExpireCronJob(e)
         \/ \E r \in Router, v \in Seq0 : Finalize(r, v)
  PROVE  SonsInv'
<1>1. CASE \/ \E e \in armed : TimerUp(e)
           \/ \E r \in Router, v \in Seq0 : Finalize(r, v)
  <2>1. UNCHANGED <<db, pending, parent, sons, known, net, missed>>
    BY <1>1 DEF TimerUp, Finalize, treeVars
  <2>. QED
    BY <2>1, StillSons DEF MarksEnd
<1>2. ASSUME NEW e \in firing, infoLsaExpireCronJob(e) PROVE SonsInv'
  <2> DEFINE asked == Request(e.router, e.to, e.seq, <<e.router, sent[e.router]>>)
  <2>1. /\ UNCHANGED <<db, parent, sons, known>> /\ net' = net \cup asked
        /\ \/ /\ pending' = [pending EXCEPT ![e.router] = @ \ {e.seq}]
              /\ Miss({e.router}, e.seq)
           \/ UNCHANGED <<pending, missed>>
    BY <1>2, Zenon DEF infoLsaExpireCronJob, treeVars
  <2>2. e.router \in Router /\ e.seq \in Seq0
    BY DEF IInv, TypeOK, Retry
  <2>3. \A p \in asked : Vouched(p)'
    BY AskingVouched
  <2> HIDE DEF asked
  <2>4. \A s \in Router : missed[s] \subseteq missed'[s]
    BY <2>1, <2>2, MissType DEF IInv
  <2>5. MarksEnd
    <3>1. CASE UNCHANGED pending
      BY <3>1 DEF MarksEnd
    <3>2. CASE /\ pending' = [pending EXCEPT ![e.router] = @ \ {e.seq}]
               /\ Miss({e.router}, e.seq)
      BY <2>2, <3>2, MissType DEF IInv, TypeOK, MarksEnd
    <3>. QED
      BY <2>1, <3>1, <3>2
  <2>. QED
    BY <2>1, <2>3, <2>4, <2>5, StillSons
<1>. QED
  BY <1>1, <1>2

LEMMA LoseSons ==
  ASSUME IInv, IInv', SonsInv, NEW m, Lose(m)
  PROVE  SonsInv'
<1>1. /\ m \in net /\ m.type \in {"info", "request", "data"} /\ net' = net \ {m}
      /\ UNCHANGED <<db, pending, parent, sons, known>>
      /\ \/ Miss({m.to}, m.seq)
         \/ m.type # "info" /\ UNCHANGED missed
  BY DEF Lose, treeVars
<1>2. m.to \in Router /\ m.seq \in Seq0
  BY <1>1, PacketFields DEF IInv, TypeOK
<1>3. /\ \A s \in Router : missed[s] \subseteq missed'[s]
      /\ m.type = "info" => m.seq \in missed'[m.to]
  BY <1>1, <1>2, MissType DEF IInv
<1>4. \A p \in net \ net' : Done(p)
  BY <1>1, <1>3 DEF Done
<1>5. MarksEnd
  BY <1>1 DEF MarksEnd
<1>. QED
  BY <1>1, <1>3, <1>4, <1>5, StillSons

LEMMA ExchangeSons ==
  ASSUME IInv, IInv', SonsInv, NEW r \in Router, NEW q \in Router, NEW v \in Seq0,
         Exchange(r, q, v)
  PROVE  SonsInv'
<1> DEFINE answer == [type |-> "local", from |-> q, to |-> r, seq |-> v, held |-> db[q]]
<1>1. UNCHANGED <<db, pending, parent, sons, known, missed>> /\ net' = net \cup {answer}
  BY DEF Exchange, treeVars
<1>2. ASSUME NEW p, p = answer PROVE Vouched(p)'
  BY <1>1, <1>2, RouterFacts DEF Vouched
<1> HIDE DEF answer
<1>3. MarksEnd
  BY <1>1 DEF MarksEnd
<1>. QED
  BY <1>1, <1>2, <1>3, StillSons

LEMMA RebuildSons ==
  ASSUME IInv, IInv', SonsInv, NEW r \in Router, Rebuild(r)
  PROVE  SonsInv'
<1>1. /\ ChangeParent(r, db[r], net)
      /\ UNCHANGED <<db, pending, sons, known, missed>>
  BY DEF Rebuild
<1>2. db[r] \in Held /\ db[r] <= db'[r]
  BY <1>1, DbFacts DEF IInv
<1>3. Sends(r, net)
  BY <1>1, <1>2, ChangeSends
<1>4. Calm
  BY <1>1, <1>3, RouterFacts DEF Calm, Sends
<1>5. MarksEnd
  BY <1>1 DEF MarksEnd
<1>6. /\ \A m \in net \ net' : Done(m)
      /\ \A m \in net' \ net : Vouched(m)'
      /\ \A p \in Router : \A s \in sons[p] : Notified(s, p)
      /\ \A p \in Router : sons'[p] \subseteq Neighbours[p]
      /\ \A p \in Router : sons'[p] = sons[p]
  BY <1>1, <1>3 DEF Sends, Notified, SonsInv
<1>. QED
  BY <1>4, <1>5, <1>6, CalmStep

\* The answer to a registration carries what the son lacks.
LEMMA ReceiveRegisterSons ==
  ASSUME IInv, IInv', SonsInv, NEW m, ReceiveRegister(m)
  PROVE  SonsInv'
<1> DEFINE p == m.to
           s == m.from
<1>1. /\ m \in net /\ m.type = "register"
      /\ sons' = [sons EXCEPT ![p] = @ \cup {s}]
      /\ net' = (net \ {m}) \cup
           {[type |-> "offer", from |-> p, to |-> s, seq |-> v] :
              v \in {db[p]} \cap (m.seq + 1 .. MaxSeq)}
      /\ UNCHANGED <<db, pending, parent, known, missed>>
  BY DEF ReceiveRegister, treeVars
<1>2. /\ p \in Router /\ s \in Router /\ m.seq \in Int
      /\ sons \in [Router -> SUBSET Router]
  BY <1>1, RouterFacts DEF IInv, TypeOK
<1>3. m.seq <= db[s] /\ parent[s] = p /\ p \in known[s] /\ s \in Neighbours[p]
  BY <1>1 DEF SonsInv, Vouched
<1> HIDE DEF p, s
<1>4. /\ sons'[p] = sons[p] \cup {s}
      /\ \A q \in Router \ {p} : sons'[q] = sons[q]
  BY <1>1, <1>2
<1>5. Calm
  BY <1>1, RouterFacts, GraphAssumption DEF Calm, Moves
<1>6. MarksEnd
  BY <1>1 DEF MarksEnd
<1>7. \A k \in net \ net' : Done(k)
  BY <1>1 DEF Done
<1>8. \A k \in net' \ net : Vouched(k)'
  BY <1>1, <1>2, <1>3, RouterFacts DEF Vouched
<1>9. \A q \in Router : sons'[q] \subseteq Neighbours[q]
  BY <1>2, <1>3, <1>4 DEF SonsInv
<1>10. \A q \in Router : \A t \in sons[q] : Notified(t, q)
  BY <1>1 DEF Notified
<1>11. Reached(s, p)'
  <2>1. SUFFICES ASSUME db'[s] < db'[p]
                 PROVE  /\ parent'[s] = p
                        /\ \E k \in net' : k.type = "offer" /\ k.from = p /\ k.to = s /\ k.seq = db'[p]
    BY DEF Reached, Offered
  <2>2. db[p] \in m.seq + 1 .. MaxSeq
    <3>1. db[p] \in Held /\ db[p] \in Int /\ db[s] \in Int
      BY <1>2, RouterFacts DEF IInv, TypeOK
    <3>2. db[p] <= MaxSeq /\ db[s] < db[p]
      BY <1>1, <2>1, <3>1, HeldNumbers
    <3>. QED
      BY <1>2, <1>3, <3>1, <3>2, BoundAssumption
  <2>3. [type |-> "offer", from |-> p, to |-> s, seq |-> db[p]] \in net'
    BY <1>1, <2>2
  <2>. QED
    BY <1>1, <1>3, <2>3
<1>12. ASSUME NEW q \in Router, NEW t \in sons'[q] \ sons[q] PROVE Reached(t, q)'
  BY <1>4, <1>11, <1>12
<1>. QED
  BY <1>5, <1>6, <1>7, <1>8, <1>9, <1>10, <1>12, CalmStep

LEMMA ReceiveDeregisterSons ==
  ASSUME IInv, IInv', SonsInv, NEW m, ReceiveDeregister(m)
  PROVE  SonsInv'
<1>1. /\ m \in net /\ m.type = "deregister" /\ net' = net \ {m}
      /\ sons' = [sons EXCEPT ![m.to] = @ \ {m.from}]
      /\ UNCHANGED <<db, pending, parent, known, missed>>
  BY DEF ReceiveDeregister, treeVars
<1>2. m.to \in Router /\ sons \in [Router -> SUBSET Router]
  BY <1>1, RouterFacts DEF IInv, TypeOK
<1>3. m.from \notin sons'[m.to] /\ \A q \in Router : sons'[q] \subseteq sons[q]
  BY <1>1, <1>2
<1>4. Calm
  BY <1>1, RouterFacts, GraphAssumption DEF Calm, Moves
<1>5. MarksEnd
  BY <1>1 DEF MarksEnd
<1>6. \A k \in net \ net' : Done(k)
  BY <1>1, <1>3 DEF Done
<1>7. \A q \in Router : \A t \in sons[q] : Notified(t, q)
  BY <1>1 DEF Notified
<1>8. \A q \in Router : sons'[q] \subseteq Neighbours[q]
  BY <1>3 DEF SonsInv
<1>. QED
  BY <1>1, <1>3, <1>4, <1>5, <1>6, <1>7, <1>8, CalmStep

\* Whatever brings a version its sender holds, accepting it leaves no son behind.
LEMMA AcceptedSons ==
  ASSUME IInv, IInv', SonsInv, NEW r \in Router, NEW v \in Seq0, NEW src \in Router, NEW rest,
         Accept(r, v, src, rest), v <= db[src], known' = known, sons' = sons,
         MarksEnd, \A m \in net \ rest : Done(m), \A m \in rest \ net : Vouched(m)'
  PROVE  SonsInv'
<1>1. Sends(r, rest) /\ \A p \in Router : \A s \in sons[p] : Notified(s, p)
  BY AcceptSends
<1>2. /\ v \in Int /\ Origin \in Router /\ db \in [Router -> Held]
      /\ \A s \in Router : db[s] \in Int /\ db[s] <= db[Origin]
  BY HeldNumbers, GraphAssumption, RouterFacts DEF IInv, TypeOK
<1>3. \A s \in Router : missed[s] \subseteq missed'[s]
  BY AcceptFacts DEF IInv
<1>4. \/ db' = db
      \/ db[r] < v /\ db' = [db EXCEPT ![r] = v]
  BY AcceptFacts DEF IInv
<1>5. db'[Origin] = db[Origin] /\ \A s \in Router : db[s] <= db'[s]
  <2>1. CASE db' = db
    BY <1>2, <2>1
  <2>2. CASE db[r] < v /\ db' = [db EXCEPT ![r] = v]
    <3>1. v <= db[Origin]
      BY <1>2
    <3>2. r # Origin
      BY <1>2, <2>2, <3>1
    <3>. QED
      BY <1>2, <2>2, <3>2
  <2>. QED
    BY <1>4, <2>1, <2>2
<1>6. Calm
  BY <1>1, <1>3, <1>5 DEF Calm, Sends
<1>7. /\ \A m \in net \ net' : Done(m)
      /\ \A m \in net' \ net : Vouched(m)'
  BY <1>1 DEF Sends
<1>8. \A p \in Router : sons'[p] \subseteq Neighbours[p] /\ sons'[p] = sons[p]
  BY DEF SonsInv
<1>. QED
  BY <1>1, <1>6, <1>7, <1>8, CalmStep

LEMMA ReceiveLocalDataSons ==
  ASSUME IInv, IInv', SonsInv, NEW m, ReceiveLocalData(m)
  PROVE  SonsInv'
<1>1. /\ m \in net /\ m.type = "local" /\ Accept(m.to, m.held, m.from, net \ {m})
      /\ UNCHANGED <<pending, sons, known>>
  BY DEF ReceiveLocalData
<1>2. /\ m \in Packet /\ m.to \in Router /\ m.from \in Router
      /\ Genuine(m) /\ Vouched(m)
  BY <1>1, RouterFacts DEF IInv, Versions, SonsInv
<1>3. m.held \in Seq0 /\ m.held # -1
  BY <1>1, <1>2, AnswerVersion, HeldNumbers
<1>4. m.held <= db[m.from]
  BY <1>1, <1>2, <1>3 DEF Vouched
<1>5. \A k \in net \ (net \ {m}) : Done(k)
  BY <1>1 DEF Done
<1>6. MarksEnd
  BY <1>1 DEF MarksEnd
<1>. QED
  BY <1>1, <1>2, <1>3, <1>4, <1>5, <1>6, AcceptedSons

LEMMA ReceiveOfferSons ==
  ASSUME IInv, IInv', SonsInv, NEW m, ReceiveOffer(m)
  PROVE  SonsInv'
<1> DEFINE fits == m.from \in known[m.to] /\ parent[m.to] = m.from /\ m.seq > db[m.to]
<1>1. /\ m \in net /\ m.type = "offer" /\ UNCHANGED <<pending, sons, known>>
      /\ \/ fits /\ Accept(m.to, m.seq, m.from, net \ {m})
         \/ ~fits /\ net' = net \ {m} /\ UNCHANGED <<db, parent, missed, budget>>
  BY DEF ReceiveOffer
<1>2. /\ m.to \in Router /\ m.from \in Router /\ m.seq \in Held /\ m.seq \in Int
      /\ db[m.to] \in Int /\ db[m.to] >= -1
      /\ m.seq <= db[m.from] /\ m.from \in known[m.to]
  BY <1>1, RouterFacts, PacketFields DEF SonsInv, Vouched
<1>3. MarksEnd
  BY <1>1 DEF MarksEnd
<1>4. CASE fits /\ Accept(m.to, m.seq, m.from, net \ {m})
  <2>1. m.seq \in Seq0
    BY <1>2, <1>4, HeldNumbers
  <2>2. db'[m.to] >= m.seq
    BY <1>2, <1>4, <2>1, AcceptFacts DEF IInv
  <2>3. db'[m.to] \in Int
    BY <1>2, HeldNumbers DEF IInv, TypeOK
  <2>4. Done(m)
    BY <1>1, <1>2, <2>2, <2>3 DEF Done
  <2>. QED
    BY <1>1, <1>2, <1>3, <1>4, <2>1, <2>4, AcceptedSons
<1>5. CASE ~fits /\ net' = net \ {m} /\ UNCHANGED <<db, parent, missed, budget>>
  <2>1. Done(m)
    BY <1>1, <1>2, <1>5 DEF Done
  <2>. QED
    BY <1>1, <1>3, <1>5, <2>1, StillSons
<1>. QED
  BY <1>1, <1>4, <1>5

\* The mark of a version goes when an answer to its request comes: that version, or
\* the news that it is no longer the newest.
LEMMA ReceiveDataSons ==
  ASSUME IInv, IInv', SonsInv, NEW m, ReceiveData(m)
  PROVE  SonsInv'
<1> DEFINE r == m.to
           v == m.seq
           faces == {i[1] : i \in pit[r][v]} \ {m.from, r}
           passed == {[m EXCEPT !.from = r, !.to = f] : f \in faces}
           rest == (net \ {m}) \cup passed
<1>1. m \in net /\ m.type = "data" /\ UNCHANGED <<sons, known>>
  BY DEF ReceiveData
<1>2. /\ m \in Packet /\ r \in Router /\ m.from \in Router /\ v \in Seq0 /\ v \in Int
      /\ m.held \in Held /\ m.held \in Int
      /\ Genuine(m) /\ Vouched(m)
  BY <1>1, RouterFacts, PacketFields, HeldNumbers DEF IInv, Versions, SonsInv
<1>3. /\ m.held = -1 => v < db[Origin]
      /\ m.held # -1 => m.held = v /\ m.held <= db[m.from]
  BY <1>1, <1>2 DEF Vouched, Genuine
<1>4. \/ /\ net' = net \ {m} /\ UNCHANGED <<db, pending, parent, missed>>
      \/ /\ pending' = [pending EXCEPT ![r] = @ \ {v}]
         /\ \/ m.held = -1 /\ net' = rest /\ UNCHANGED <<db, parent, missed>>
            \/ m.held # -1 /\ Accept(r, m.held, m.from, rest)
  BY Zenon DEF ReceiveData
<1>5. ASSUME NEW p \in passed
      PROVE  p.type = "data" /\ p.from = r /\ p.seq = v /\ p.held = m.held
  BY <1>1, <1>2 DEF Packet
<1> HIDE DEF passed
<1>6. Done(m)
  BY <1>1 DEF Done
<1>7. pending \in [Router -> SUBSET Seq0] /\ Origin \in Router
  BY GraphAssumption DEF IInv, TypeOK
<1>8. CASE net' = net \ {m} /\ UNCHANGED <<db, pending, parent, missed>>
  <2>1. MarksEnd
    BY <1>8 DEF MarksEnd
  <2>. QED
    BY <1>1, <1>6, <1>8, <2>1, StillSons
<1>9. CASE /\ pending' = [pending EXCEPT ![r] = @ \ {v}]
           /\ m.held = -1 /\ net' = rest /\ UNCHANGED <<db, parent, missed>>
  <2>1. MarksEnd
    BY <1>2, <1>3, <1>7, <1>9 DEF MarksEnd
  <2>2. \A p \in passed : Vouched(p)'
    BY <1>3, <1>5, <1>9 DEF Vouched
  <2>3. \A p \in net' \ net : Vouched(p)'
    BY <1>9, <2>2
  <2>4. \A p \in net \ net' : Done(p)
    BY <1>6, <1>9
  <2>5. \A s \in Router : missed[s] \subseteq missed'[s]
    BY <1>9
  <2>. QED
    BY <1>1, <1>9, <2>1, <2>3, <2>4, <2>5, StillSons
<1>10. CASE /\ pending' = [pending EXCEPT ![r] = @ \ {v}]
            /\ m.held # -1 /\ Accept(r, m.held, m.from, rest)
  <2>1. m.held \in Seq0
    BY <1>2, <1>3, <1>10
  <2>2. m.held <= db'[r]
    BY <1>2, <1>10, <2>1, AcceptFacts DEF IInv
  <2>3. MarksEnd
    BY <1>2, <1>3, <1>7, <1>10, <2>2 DEF MarksEnd
  <2>4. \A p \in passed : Vouched(p)'
    BY <1>5, <1>10, <2>2 DEF Vouched
  <2>5. \A p \in rest \ net : Vouched(p)'
    BY <2>4
  <2>6. \A p \in net \ rest : Done(p)
    BY <1>6
  <2> HIDE DEF rest
  <2>. QED
    BY <1>1, <1>2, <1>3, <1>10, <2>1, <2>3, <2>5, <2>6, AcceptedSons
<1>. QED
  BY <1>4, <1>8, <1>9, <1>10

-----------------------------------------------------------------------------
LEMMA StepSons ==
  ASSUME IInv, IInv', SonsInv, [Next]_vars
  PROVE  SonsInv'
<1>1. CASE Issue
  BY <1>1, IssueSons
<1>2. ASSUME NEW m \in net, Receive(m) PROVE SonsInv'
  BY <1>2, ReceiveInfoSons, ReceiveRequestSons, ReceiveDataSons, ReceiveLocalDataSons,
     ReceiveRegisterSons, ReceiveDeregisterSons, ReceiveOfferSons DEF Receive
<1>3. ASSUME NEW m \in net, Lose(m) PROVE SonsInv'
  BY <1>3, LoseSons
<1>4. CASE \/ \E e \in armed : TimerUp(e)
           \/ \E e \in firing : infoLsaExpireCronJob(e)
           \/ \E r \in Router, v \in Seq0 : Finalize(r, v)
  BY <1>4, TimerSons
<1>5. ASSUME NEW r \in Router, Rebuild(r) PROVE SonsInv'
  BY <1>5, RebuildSons
<1>6. ASSUME NEW r \in Router, NEW q \in Router, Forget(r, q) \/ Meet(r, q) PROVE SonsInv'
  BY <1>6, NeighbourSons
<1>7. ASSUME NEW r \in Router, NEW q \in Router, NEW v \in Seq0, Exchange(r, q, v)
      PROVE  SonsInv'
  BY <1>7, ExchangeSons
<1>8. CASE UNCHANGED vars
  <2>1. UNCHANGED <<db, pending, parent, sons, known, net, missed>>
    BY <1>8 DEF vars, treeVars
  <2>2. MarksEnd
    BY <2>1 DEF MarksEnd
  <2>. QED
    BY <2>1, <2>2, StillSons
<1>. QED
  BY <1>1, <1>2, <1>3, <1>4, <1>5, <1>6, <1>7, <1>8 DEF Next

LEMMA SonsInvariance == Spec => [](IInv /\ SonsInv)
<1>1. Init => IInv /\ SonsInv
  BY InitInv, SonsInit
<1>2. IInv /\ SonsInv /\ [Next]_vars => IInv' /\ SonsInv'
  BY StepInv, StepSons
<1>. QED
  BY <1>1, <1>2, PTL DEF Spec

LEMMA SonsAreTold ==
  ASSUME IInv, SonsInv
  PROVE  NoSonLeftBehind
<1> SUFFICES ASSUME NEW p \in Router, NEW s \in Router, s \in sons[p], parent[s] = p,
                    db[p] = db[Origin], db[s] < db[p]
             PROVE  Told(s, db[p]) \/ db[p] \in missed[s]
  BY DEF NoSonLeftBehind
<1>1. ~Leaving(s, p)
  BY DEF SonsInv, Vouched, Leaving
<1>2. \/ db[p] \in pending[s] \cup missed[s]
      \/ Informed(s, db[p]) \/ Offered(s, p, db[p])
  BY <1>1 DEF SonsInv, Reached
<1>. QED
  BY <1>2 DEF Told, Informed, Offered

\* A parent that holds the newest version has no son that knows nothing of it, unless
\* the son missed it: notifications, registrations, empty answers and moves on the tree
\* leave no gap (RegisterController.cpp:49-52, LsaController.cpp:240-247).
THEOREM SonsReached == Spec => []NoSonLeftBehind
<1>1. IInv /\ SonsInv => NoSonLeftBehind
  BY SonsAreTold
<1>. QED
  BY <1>1, SonsInvariance, PTL

=============================================================================
