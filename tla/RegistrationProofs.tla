------------------------- MODULE RegistrationProofs -------------------------
(***************************************************************************)
(* Type correctness of registration, its refinement of TreeMembership, and *)
(* the agreement of sons and parents, for any number of routers, any       *)
(* topology and any bounds.                                                *)
(***************************************************************************)
EXTENDS Registration, TLAPS

\* Updates of the nested tables keep their type.
LEMMA UpdateTable ==
  ASSUME NEW A, NEW B, NEW V, NEW f \in [A -> [B -> V]], NEW a \in A, NEW b \in B, NEW v \in V
  PROVE  /\ [f EXCEPT ![a][b] = v] \in [A -> [B -> V]]
         /\ [f EXCEPT ![a][b] = v][a][b] = v
         /\ \A x \in A, y \in B : <<x, y>> # <<a, b>> => [f EXCEPT ![a][b] = v][x][y] = f[x][y]
<1>1. [f EXCEPT ![a][b] = v] = [f EXCEPT ![a] = [f[a] EXCEPT ![b] = v]]
  OBVIOUS
<1>2. [f[a] EXCEPT ![b] = v] \in [B -> V]
  OBVIOUS
<1>3. QED
  BY <1>1, <1>2

LEMMA UpdateTable3 ==
  ASSUME NEW A, NEW B, NEW C, NEW V, NEW f \in [A -> [B -> [C -> V]]],
         NEW a \in A, NEW b \in B, NEW c \in C, NEW v \in V
  PROVE  /\ [f EXCEPT ![a][b][c] = v] \in [A -> [B -> [C -> V]]]
         /\ [f EXCEPT ![a][b][c] = v][a][b][c] = v
         /\ \A x \in A, y \in B, z \in C :
              <<x, y, z>> # <<a, b, c>> => [f EXCEPT ![a][b][c] = v][x][y][z] = f[x][y][z]
<1>1. [f EXCEPT ![a][b][c] = v] = [f EXCEPT ![a] = [f[a] EXCEPT ![b][c] = v]]
  OBVIOUS
<1>2. f[a] \in [B -> [C -> V]]
  OBVIOUS
<1>3. /\ [f[a] EXCEPT ![b][c] = v] \in [B -> [C -> V]]
      /\ [f[a] EXCEPT ![b][c] = v][b][c] = v
      /\ \A y \in B, z \in C : <<y, z>> # <<b, c>> => [f[a] EXCEPT ![b][c] = v][y][z] = f[a][y][z]
  BY <1>2, UpdateTable
<1>4. QED
  BY <1>1, <1>3

LEMMA SonsUpdate ==
  ASSUME sons \in [Router -> [Root -> SUBSET Router]],
         NEW p \in Router, NEW root \in Root, NEW v \in SUBSET Router
  PROVE  /\ [sons EXCEPT ![p][root] = v] \in [Router -> [Root -> SUBSET Router]]
         /\ [sons EXCEPT ![p][root] = v][p][root] = v
         /\ \A x \in Router, y \in Root :
              <<x, y>> # <<p, root>> => [sons EXCEPT ![p][root] = v][x][y] = sons[x][y]
BY UpdateTable

LEMMA LastOpUpdate ==
  ASSUME lastOp \in [Router -> [Root -> [Router -> Nat]]],
         NEW p \in Router, NEW root \in Root, NEW s \in Router, NEW t \in Nat
  PROVE  /\ [lastOp EXCEPT ![p][root][s] = t] \in [Router -> [Root -> [Router -> Nat]]]
         /\ [lastOp EXCEPT ![p][root][s] = t][p][root][s] = t
         /\ \A x \in Router, y \in Root, z \in Router : <<x, y, z>> # <<p, root, s>> =>
              [lastOp EXCEPT ![p][root][s] = t][x][y][z] = lastOp[x][y][z]
BY UpdateTable3

(***************************************************************************)
(* What one call of registerParents does, in the terms the proofs need.    *)
(***************************************************************************)
LEMMA CallsType ==
  ASSUME TypeOK, NEW r \in Router, NEW row \in [Root -> Seq0], NEW tree \in Tree(r, row)
  PROVE  /\ tree \in [Root -> Router \cup {NoRouter}]
         /\ \A c \in Calls(r, tree) :
              /\ c.op \in {"register", "deregister"} /\ c.from = r
              /\ c.to \in Router /\ c.root \in Root
              /\ c.to \in known[r]
              /\ tree[c.root] # parents[r][c.root]
              /\ c.op = "register" => c.to = tree[c.root]
              /\ c.op = "deregister" => c.to = parents[r][c.root]
              /\ c = [op |-> c.op, from |-> r, to |-> c.to, root |-> c.root]
<1>1. tree \in [Root -> Router \cup {NoRouter}]
  BY RouterAssumption DEF Tree
<1>2. known[r] \subseteq Router
  BY DEF TypeOK
<1>3. ASSUME NEW c \in Deregistrations(r, tree)
      PROVE  /\ c.op = "deregister" /\ c.from = r
             /\ c.to \in known[r] /\ c.root \in Root
             /\ tree[c.root] # parents[r][c.root]
             /\ c.to = parents[r][c.root]
             /\ c = [op |-> c.op, from |-> r, to |-> c.to, root |-> c.root]
  BY DEF Deregistrations
<1>4. ASSUME NEW c \in Registrations(r, tree)
      PROVE  /\ c.op = "register" /\ c.from = r
             /\ c.to \in known[r] /\ c.root \in Root
             /\ tree[c.root] # parents[r][c.root]
             /\ c.to = tree[c.root]
             /\ c = [op |-> c.op, from |-> r, to |-> c.to, root |-> c.root]
  BY DEF Registrations
<1>5. QED
  BY <1>1, <1>2, <1>3, <1>4 DEF Calls

\* The requests of the call, with their stamps: of the caller, no older than its
\* clock, carrying the sequence number in its database.
LEMMA RequestsType ==
  ASSUME TypeOK, NEW r \in Router, NEW row \in [Root -> Seq0],
         NEW tree \in Tree(r, row), NEW at \in Stampings(r, tree)
  PROVE  \A q \in Stamped(at, row) :
           /\ q \in Request
           /\ q.from = r /\ q.ts >= clock[r] /\ q.seq = row[q.root]
           /\ q.to \in known[r]
           /\ tree[q.root] # parents[r][q.root]
           /\ q.op = "register" => q.to = tree[q.root]
           /\ q.op = "deregister" => q.to = parents[r][q.root]
<1>1. at \in [Calls(r, tree) -> clock[r] .. MaxTime[r]]
  BY DEF Stampings
<1>2. clock[r] \in Nat \ {0} /\ MaxTime[r] \in Nat
  BY BoundAssumption DEF TypeOK, Time
<1>3. ASSUME NEW c \in Calls(r, tree)
      PROVE  at[c] \in Time /\ at[c] >= clock[r]
  BY <1>1, <1>2 DEF Time
<1>4. SUFFICES ASSUME NEW c \in Calls(r, tree), NEW q,
                      q = [op |-> c.op, from |-> c.from, to |-> c.to, ts |-> at[c],
                           root |-> c.root, seq |-> row[c.root]]
               PROVE  /\ q \in Request
                      /\ q.from = r /\ q.ts >= clock[r] /\ q.seq = row[q.root]
                      /\ q.to \in known[r]
                      /\ tree[q.root] # parents[r][q.root]
                      /\ q.op = "register" => q.to = tree[q.root]
                      /\ q.op = "deregister" => q.to = parents[r][q.root]
  BY <1>1 DEF Stamped
<1>5. /\ c.op \in {"register", "deregister"} /\ c.from = r
      /\ c.to \in Router /\ c.root \in Root /\ c.to \in known[r]
      /\ tree[c.root] # parents[r][c.root]
      /\ c.op = "register" => c.to = tree[c.root]
      /\ c.op = "deregister" => c.to = parents[r][c.root]
  BY CallsType
<1>6. row[c.root] \in Seq0
  BY <1>5
<1>7. QED
  BY <1>3, <1>4, <1>5, <1>6 DEF Request

\* One call of registerParents.
LEMMA RegisterParentsStep ==
  ASSUME TypeOK, NEW r \in Router, NEW row \in [Root -> Seq0],
         NEW timers \in SUBSET RetryTimer,
         registerParents(r, row, timers)
  PROVE  /\ parents' \in [Router -> [Root -> Router \cup {NoRouter}]]
         /\ clock' \in [Router -> Time]
         /\ armed' \subseteq RetryTimer
         /\ issued' \subseteq Request /\ interests' \subseteq Request
         /\ \E req \in SUBSET Request :
              /\ issued' = issued \cup req /\ interests' = interests \cup req
              /\ \A q \in req : /\ q.from = r /\ q.ts >= clock[r] /\ q.ts <= clock'[r]
                                /\ q.seq = row[q.root] /\ q.to \in known[r]
              /\ clock'[r] >= clock[r]
              /\ \A e \in armed' : e \in timers \/ e.pkt \in req
         /\ \A x \in Router \ {r} : parents'[x] = parents[x] /\ clock'[x] = clock[x]
<1>0. PICK tree \in Tree(r, row) : \E at \in Stampings(r, tree) :
        LET req == Stamped(at, row)
        IN /\ parents' = [parents EXCEPT ![r] = tree]
           /\ \E now \in {clock[r]} \cup {q.ts : q \in req} :
                /\ \A q \in req : q.ts <= now
                /\ clock' = [clock EXCEPT ![r] = now]
           /\ interests' = interests \cup req
           /\ issued' = issued \cup req
           /\ StartRetry(timers, req)
  BY DEF registerParents
<1>1. PICK at \in Stampings(r, tree) :
        LET req == Stamped(at, row)
        IN /\ parents' = [parents EXCEPT ![r] = tree]
           /\ \E now \in {clock[r]} \cup {q.ts : q \in req} :
                /\ \A q \in req : q.ts <= now
                /\ clock' = [clock EXCEPT ![r] = now]
           /\ interests' = interests \cup req
           /\ issued' = issued \cup req
           /\ StartRetry(timers, req)
  BY <1>0
<1> DEFINE req == Stamped(at, row)
<1>2. \A q \in req : /\ q \in Request /\ q.from = r /\ q.ts >= clock[r]
                     /\ q.seq = row[q.root] /\ q.to \in known[r]
  BY RequestsType
<1>3. tree \in [Root -> Router \cup {NoRouter}]
  BY CallsType
<1>4. PICK now \in {clock[r]} \cup {q.ts : q \in req} :
        /\ \A q \in req : q.ts <= now
        /\ clock' = [clock EXCEPT ![r] = now]
  BY <1>1
<1>5. /\ clock \in [Router -> Time] /\ clock[r] \in Nat
      /\ parents \in [Router -> [Root -> Router \cup {NoRouter}]]
  BY DEF TypeOK, Time
<1>6. now \in Time /\ now >= clock[r]
  BY <1>2, <1>4, <1>5 DEF Request, Time
<1>7. clock' \in [Router -> Time] /\ clock'[r] = now
  BY <1>4, <1>5, <1>6
<1>8. PICK first \in SUBSET req : armed' = timers \cup {[pkt |-> q, count |-> 0] : q \in first}
  <2>1. StartRetry(timers, req)
    BY <1>1
  <2>2. QED
    BY <2>1 DEF StartRetry
<1>9. armed' \subseteq RetryTimer
  <2>1. ASSUME NEW q \in first PROVE [pkt |-> q, count |-> 0] \in RetryTimer
    BY <1>2, BoundAssumption DEF RetryTimer
  <2>2. QED
    BY <2>1, <1>8
<1>10. parents' \in [Router -> [Root -> Router \cup {NoRouter}]]
  BY <1>1, <1>3, <1>5
<1>11. \A e \in armed' : e \in timers \/ e.pkt \in req
  BY <1>8
<1>12. \A x \in Router \ {r} : parents'[x] = parents[x] /\ clock'[x] = clock[x]
  BY <1>1, <1>4, <1>5
<1>13. req \in SUBSET Request
  BY <1>2
<1>14. issued' = issued \cup req /\ interests' = interests \cup req
  BY <1>1
<1>15. \A q \in req : q.ts <= clock'[r]
  BY <1>4, <1>7
<1>16. issued' \subseteq Request /\ interests' \subseteq Request
  BY <1>13, <1>14 DEF TypeOK
<1> HIDE DEF req
<1>17. QED
  BY <1>16, <1>2, <1>6, <1>7, <1>9, <1>10, <1>11, <1>12, <1>13, <1>14, <1>15

\* An accepted LSA: the database moves to a newer version and announcements are
\* well formed; what registerParents does is RegisterParentsStep.
LEMMA AcceptLsaStep ==
  ASSUME TypeOK, NEW r \in Router, NEW q \in Router, NEW root \in Root,
         NEW seq \in 0 .. MaxSeq, NEW timers \in SUBSET RetryTimer,
         AcceptLsa(r, q, root, seq, timers)
  PROVE  /\ db' \in [Router -> [Root -> Seq0]]
         /\ db'[r] \in [Root -> Seq0]
         /\ db[r][root] < seq /\ db'[r][root] = seq
         /\ \A x \in Router, y \in Root : <<x, y>> # <<r, root>> => db'[x][y] = db[x][y]
         /\ offered' \subseteq Announcement /\ offered \subseteq offered'
         /\ registerParents(r, db'[r], timers)
<1>1. db' = [db EXCEPT ![r][root] = seq]
  BY DEF AcceptLsa
<1>2. db \in [Router -> [Root -> Seq0]] /\ seq \in Seq0
  BY BoundAssumption DEF TypeOK, Seq0
<1>3. /\ db' \in [Router -> [Root -> Seq0]] /\ db'[r] \in [Root -> Seq0]
      /\ db'[r][root] = seq
      /\ \A x \in Router, y \in Root : <<x, y>> # <<r, root>> => db'[x][y] = db[x][y]
  BY <1>1, <1>2
<1>4. /\ sendInfoToAll(r, q, root, seq) \subseteq Announcement
      /\ sendInfoToChildren(r, root, seq) \subseteq Announcement
  <2>1. Adjacent[r] \subseteq Router /\ sons[r][root] \subseteq Router
    BY RouterAssumption DEF TypeOK
  <2>2. QED
    BY <2>1 DEF sendInfoToAll, sendInfoToChildren, Announcement
<1>5. offered' \subseteq Announcement /\ offered \subseteq offered'
  BY <1>4 DEF AcceptLsa, TypeOK
<1>6. registerParents(r, db'[r], timers)
  BY <1>1 DEF AcceptLsa
<1>7. db[r][root] < seq
  BY DEF AcceptLsa
<1>8. QED
  BY <1>3, <1>5, <1>6, <1>7

LEMMA NameOfType == \A q \in Request : NameOf(q) \in Name
BY DEF NameOf, Request, Name

(***************************************************************************)
(* Type correctness: the shape of every table, packet and timer of         *)
(* MinimumHopTree, the register controllers and their cron jobs.           *)
(***************************************************************************)
LEMMA TypeInit == Init => TypeOK
<1> SUFFICES ASSUME Init PROVE TypeOK
  OBVIOUS
<1>1. -1 \in Seq0 /\ 1 \in Time /\ 0 \in Nat
  BY BoundAssumption DEF Seq0, Time
<1>2. QED
  BY <1>1, RouterAssumption DEF Init, TypeOK

LEMMA TypeStep == TypeOK /\ [Next]_vars => TypeOK'
<1> SUFFICES ASSUME TypeOK, [Next]_vars PROVE TypeOK'
  OBVIOUS
<1>1. ASSUME NEW r \in Router, NEW q \in Router, Hear(r, q)
      PROVE  TypeOK'
  BY <1>1, RouterAssumption
  DEF Hear, TypeOK, treeVars, wireVars, timerVars
<1>2. ASSUME NEW r \in Router, TriggerNewLsa(r)
      PROVE  TypeOK'
  <2>1. db' \in [Router -> [Root -> Seq0]] /\ db'[r] \in [Root -> Seq0]
    BY <1>2, BoundAssumption DEF TriggerNewLsa, TypeOK, Seq0
  <2>2. registerParents(r, db'[r], armed) /\ armed \in SUBSET RetryTimer /\ r \in Root
    BY <1>2 DEF TriggerNewLsa, TypeOK
  <2>3. sendInfoToChildren(r, r, db[r][r] + 1) \subseteq Announcement
    <3>1. db[r][r] + 1 \in 0 .. MaxSeq /\ sons[r][r] \subseteq Router
      BY <1>2, BoundAssumption DEF TriggerNewLsa, TypeOK, Seq0
    <3>2. QED
      BY <3>1, <2>2 DEF sendInfoToChildren, Announcement
  <2>4. /\ parents' \in [Router -> [Root -> Router \cup {NoRouter}]] /\ clock' \in [Router -> Time]
        /\ armed' \subseteq RetryTimer /\ issued' \subseteq Request /\ interests' \subseteq Request
    BY <2>1, <2>2, RegisterParentsStep
  <2>5. QED
    BY <1>2, <2>1, <2>3, <2>4 DEF TriggerNewLsa, TypeOK
<1>3. ASSUME NEW r \in Router, NEW q \in Router, NEW root \in Root, ReceiveLsa(r, q, root)
      PROVE  TypeOK'
  <2>1. PICK seq \in 0 .. db[q][root] :
          \/ AcceptLsa(r, q, root, seq, armed)
          \/ /\ db[r][root] >= seq
             /\ offered' = offered \cup sendInfoToChildren(r, root, seq)
             /\ UNCHANGED <<db, parents, clock, interests, armed, issued>>
    BY <1>3 DEF ReceiveLsa
  <2>2. seq \in 0 .. MaxSeq
    BY BoundAssumption DEF TypeOK, Seq0
  <2>3. CASE AcceptLsa(r, q, root, seq, armed)
    <3>1. armed \in SUBSET RetryTimer
      BY DEF TypeOK
    <3>2. /\ db' \in [Router -> [Root -> Seq0]] /\ db'[r] \in [Root -> Seq0]
          /\ offered' \subseteq Announcement /\ registerParents(r, db'[r], armed)
      BY <2>2, <2>3, <3>1, AcceptLsaStep
    <3>3. /\ parents' \in [Router -> [Root -> Router \cup {NoRouter}]] /\ clock' \in [Router -> Time]
          /\ armed' \subseteq RetryTimer /\ issued' \subseteq Request /\ interests' \subseteq Request
      BY <3>1, <3>2, RegisterParentsStep
    <3>4. QED
      BY <1>3, <3>2, <3>3 DEF ReceiveLsa, TypeOK
  <2>4. CASE /\ offered' = offered \cup sendInfoToChildren(r, root, seq)
             /\ UNCHANGED <<db, parents, clock, interests, armed, issued>>
    <3>1. sons[r][root] \subseteq Router
      BY DEF TypeOK
    <3>2. sendInfoToChildren(r, root, seq) \subseteq Announcement
      BY <2>2, <3>1 DEF sendInfoToChildren, Announcement
    <3>3. QED
      BY <1>3, <2>4, <3>2 DEF ReceiveLsa, TypeOK
  <2>5. QED
    BY <2>1, <2>3, <2>4
<1>4. ASSUME NEW m \in interests, ReceiveRegister(m)
      PROVE  TypeOK'
  <2>1. m \in Request
    BY DEF TypeOK
  <2>2. /\ m.from \in Router /\ m.to \in Router /\ m.root \in Root
        /\ m.ts \in Nat /\ NameOf(m) \in Name /\ db[m.to][m.root] \in Seq0 /\ m.seq \in Seq0
    BY <2>1, NameOfType DEF Request, Time, TypeOK
  <2>3. PICK lsa : /\ \/ lsa = NoLsa
                      \/ /\ lsa = [root |-> m.root, seq |-> db[m.to][m.root]]
                         /\ db[m.to][m.root] > m.seq
                   /\ replies' = replies \cup {[name |-> NameOf(m), lsa |-> lsa]}
                   /\ offered' = offered \cup
                        {[from |-> m.to, to |-> m.from, root |-> l.root, seq |-> l.seq] :
                           l \in {lsa} \ {NoLsa}}
    BY <1>4 DEF ReceiveRegister
  <2>4. lsa \in Lsa \cup {NoLsa}
    BY <2>2, <2>3, BoundAssumption DEF Lsa, Seq0
  <2>5. replies' \subseteq Reply
    BY <2>2, <2>3, <2>4 DEF Reply, TypeOK
  <2>6. offered' \subseteq Announcement
    BY <2>2, <2>3, <2>4 DEF Announcement, Lsa, TypeOK
  <2>7. sons' \in [Router -> [Root -> SUBSET Router]]
    <3>1. sons[m.to][m.root] \cup {m.from} \in SUBSET Router
      BY <2>2 DEF TypeOK
    <3>2. PICK v \in SUBSET Router :
            sons' = [sons EXCEPT ![m.to][m.root] = v] \/ sons' = sons
      BY <1>4, <3>1 DEF ReceiveRegister
    <3>3. sons \in [Router -> [Root -> SUBSET Router]]
      BY DEF TypeOK
    <3>4. [sons EXCEPT ![m.to][m.root] = v] \in [Router -> [Root -> SUBSET Router]]
      BY <2>2, <3>3, SonsUpdate
    <3>5. QED
      BY <3>2, <3>3, <3>4
  <2>8. lastOp' \in [Router -> [Root -> [Router -> Nat]]]
    <3>1. lastOp' = [lastOp EXCEPT ![m.to][m.root][m.from] = m.ts] \/ lastOp' = lastOp
      BY <1>4 DEF ReceiveRegister
    <3>2. lastOp \in [Router -> [Root -> [Router -> Nat]]]
      BY DEF TypeOK
    <3>3. [lastOp EXCEPT ![m.to][m.root][m.from] = m.ts] \in [Router -> [Root -> [Router -> Nat]]]
      BY <2>2, <3>2, LastOpUpdate
    <3>4. QED
      BY <3>1, <3>2, <3>3
  <2>9. QED
    BY <1>4, <2>5, <2>6, <2>7, <2>8 DEF ReceiveRegister, TypeOK, timerVars
<1>5. ASSUME NEW m \in interests, ReceiveDeregister(m)
      PROVE  TypeOK'
  <2>1. m \in Request
    BY DEF TypeOK
  <2>2. /\ m.from \in Router /\ m.to \in Router /\ m.root \in Root
        /\ m.ts \in Nat /\ NameOf(m) \in Name
    BY <2>1, NameOfType DEF Request, Time
  <2>3. replies' \subseteq Reply
    BY <1>5, <2>2 DEF ReceiveDeregister, Reply, TypeOK
  <2>4. sons' \in [Router -> [Root -> SUBSET Router]]
    <3>1. sons[m.to][m.root] \ {m.from} \in SUBSET Router
      BY <2>2 DEF TypeOK
    <3>2. PICK v \in SUBSET Router :
            sons' = [sons EXCEPT ![m.to][m.root] = v] \/ sons' = sons
      BY <1>5, <3>1 DEF ReceiveDeregister
    <3>3. sons \in [Router -> [Root -> SUBSET Router]]
      BY DEF TypeOK
    <3>4. [sons EXCEPT ![m.to][m.root] = v] \in [Router -> [Root -> SUBSET Router]]
      BY <2>2, <3>3, SonsUpdate
    <3>5. QED
      BY <3>2, <3>3, <3>4
  <2>5. lastOp' \in [Router -> [Root -> [Router -> Nat]]]
    <3>1. lastOp' = [lastOp EXCEPT ![m.to][m.root][m.from] = m.ts] \/ lastOp' = lastOp
      BY <1>5 DEF ReceiveDeregister
    <3>2. lastOp \in [Router -> [Root -> [Router -> Nat]]]
      BY DEF TypeOK
    <3>3. [lastOp EXCEPT ![m.to][m.root][m.from] = m.ts] \in [Router -> [Root -> [Router -> Nat]]]
      BY <2>2, <3>2, LastOpUpdate
    <3>4. QED
      BY <3>1, <3>2, <3>3
  <2>6. QED
    BY <1>5, <2>3, <2>4, <2>5 DEF ReceiveDeregister, TypeOK, timerVars
<1>6. ASSUME NEW d \in replies, ReceiveReply(d)
      PROVE  TypeOK'
  <2>1. d \in Reply
    BY DEF TypeOK
  <2>2. d.name \in Name /\ d.name.from \in Router /\ d.name.to \in Router
    BY <2>1 DEF Reply, Name
  <2>3. replies' \subseteq Reply /\ acked' \subseteq Name
    BY <1>6, <2>2 DEF ReceiveReply, TypeOK
  <2>4. CancelRetry(d.name) \in SUBSET RetryTimer
    BY DEF CancelRetry, TypeOK
  <2>5. CASE /\ d.lsa # NoLsa
             /\ AcceptLsa(d.name.from, d.name.to, d.lsa.root, d.lsa.seq, CancelRetry(d.name))
    <3>1. d.lsa.root \in Root /\ d.lsa.seq \in 0 .. MaxSeq
      BY <2>1, <2>5 DEF Reply, Lsa
    <3>2. /\ db' \in [Router -> [Root -> Seq0]] /\ db'[d.name.from] \in [Root -> Seq0]
          /\ offered' \subseteq Announcement
          /\ registerParents(d.name.from, db'[d.name.from], CancelRetry(d.name))
      BY <2>2, <2>4, <2>5, <3>1, AcceptLsaStep
    <3>3. /\ parents' \in [Router -> [Root -> Router \cup {NoRouter}]] /\ clock' \in [Router -> Time]
          /\ armed' \subseteq RetryTimer /\ issued' \subseteq Request /\ interests' \subseteq Request
      BY <2>2, <2>4, <3>2, RegisterParentsStep
    <3>4. QED
      BY <1>6, <2>3, <3>2, <3>3 DEF ReceiveReply, TypeOK
  <2>6. CASE /\ armed' = CancelRetry(d.name)
             /\ UNCHANGED <<db, offered, parents, clock, interests, issued>>
    BY <1>6, <2>3, <2>4, <2>6 DEF ReceiveReply, TypeOK
  <2>7. QED
    BY <1>6, <2>5, <2>6 DEF ReceiveReply
<1>7. ASSUME NEW e \in armed, TimerUp(e)
      PROVE  TypeOK'
  BY <1>7 DEF TimerUp, TypeOK, treeVars, wireVars
<1>8. ASSUME NEW e \in firing, RetryCallback(e)
      PROVE  TypeOK'
  <2>1. e \in RetryTimer /\ e.pkt \in Request
    BY DEF TypeOK, RetryTimer
  <2>2. e.count + 1 < MaxRetry => [e EXCEPT !.count = @ + 1] \in RetryTimer
    BY <2>1, BoundAssumption DEF RetryTimer
  <2>3. [e EXCEPT !.count = @ + 1].count = e.count + 1
    BY <2>1 DEF RetryTimer
  <2>4. armed' \subseteq RetryTimer
    BY <1>8, <2>2, <2>3 DEF RetryCallback, TypeOK
  <2>5. QED
    BY <1>8, <2>1, <2>4 DEF RetryCallback, TypeOK, treeVars
<1>9. CASE UNCHANGED vars
  BY <1>9 DEF vars, TypeOK, treeVars, wireVars, timerVars
<1>10. QED
  BY <1>1, <1>2, <1>3, <1>4, <1>5, <1>6, <1>7, <1>8, <1>9 DEF Next

\* Every reachable state is well typed.
THEOREM TypeCorrect == Spec => []TypeOK
<1>1. QED
  BY TypeInit, TypeStep, PTL DEF Spec

-----------------------------------------------------------------------------
(***************************************************************************)
(* The inductive invariant.  An answer speaks of a request of its name     *)
(* (Answered), and both ends can be compared with the log of the requests: *)
(* the parent's list is the effect of a request of the time it has seen    *)
(* last (ViewFromLog), the son's choice is the effect of one it made last  *)
(* (Intent).  Where requests are told apart these are the same request; if *)
(* no two share a millisecond all are (Unique).                            *)
(***************************************************************************)
KnownGrows == \A r \in Router : KnownAtStart[r] \subseteq known[r]

OnTheWire ==
  /\ interests \subseteq issued
  /\ \A e \in armed \cup firing : e.pkt \in issued

Past == \A q \in issued : q.ts <= clock[q.from]

Unique == \A p, q \in issued : p.from = q.from /\ p.ts = q.ts => p = q

Applied(name) ==
  \E q \in issued : NameOf(q) = name /\ lastOp[q.to][q.root][q.from] >= q.ts

Answered == /\ \A d \in replies : Applied(d.name)
            /\ \A n \in acked : Applied(n)

ViewOf(s, p, root) ==
  \/ lastOp[p][root][s] = 0 /\ s \notin sons[p][root]
  \/ \E q \in IssuedTo(s, p, root) : /\ q.ts = lastOp[p][root][s]
                                     /\ q.op = "register" <=> s \in sons[p][root]
ViewFromLog == \A s, p \in Router, root \in Root : ViewOf(s, p, root)

IntentOf(s, p, root) ==
  \/ IssuedTo(s, p, root) = {} /\ parents[s][root] # p
  \/ \E q \in IssuedTo(s, p, root) : /\ \A x \in IssuedTo(s, p, root) : x.ts <= q.ts
                                     /\ q.op = "register" <=> parents[s][root] = p
Intent == \A s, p \in Router, root \in Root : p \in KnownAtStart[s] => IntentOf(s, p, root)

IInv == /\ TypeOK /\ KnownGrows /\ OnTheWire /\ Past /\ (SameMillisecond \/ Unique)
        /\ Answered /\ ViewFromLog /\ Intent

\* The invariant says what is wanted.
LEMMA IInvAgreement == IInv => Agreement
<1> SUFFICES ASSUME IInv, NEW s \in Router, NEW p \in Router, NEW root \in Root,
                    p \in KnownAtStart[s],
                    \A q \in IssuedTo(s, p, root) : NameOf(q) \in acked,
                    Apart(s, p, root)
             PROVE  s \in sons[p][root] <=> parents[s][root] = p
  BY DEF Agreement
<1>1. ViewOf(s, p, root) /\ IntentOf(s, p, root)
  BY DEF IInv, ViewFromLog, Intent
<1>2. CASE IssuedTo(s, p, root) = {} /\ parents[s][root] # p
  BY <1>1, <1>2 DEF ViewOf
<1>3. ASSUME NEW q \in IssuedTo(s, p, root),
             \A x \in IssuedTo(s, p, root) : x.ts <= q.ts,
             q.op = "register" <=> parents[s][root] = p
      PROVE  s \in sons[p][root] <=> parents[s][root] = p
  <2>1. q \in issued /\ q \in Request /\ q.from = s /\ q.to = p /\ q.root = root
    BY DEF IssuedTo, IInv, TypeOK
  <2>2. PICK a \in issued : NameOf(a) = NameOf(q) /\ lastOp[a.to][a.root][a.from] >= a.ts
    BY <1>3 DEF IInv, Answered, Applied
  <2>3. a = q
    BY <2>1, <2>2 DEF NameOf, Apart
  <2>4. q.ts \in Nat /\ q.ts > 0 /\ lastOp[p][root][s] \in Nat
    BY <2>1 DEF Request, Time, IInv, TypeOK
  <2>5. PICK v \in IssuedTo(s, p, root) :
          v.ts = lastOp[p][root][s] /\ (v.op = "register" <=> s \in sons[p][root])
    BY <1>1, <2>1, <2>2, <2>3, <2>4 DEF ViewOf
  <2>6. v \in issued /\ v.from = s /\ v.ts \in Nat
    BY DEF IssuedTo, IInv, TypeOK, Request, Time
  <2>7. v.ts = q.ts
    BY <1>3, <2>1, <2>2, <2>3, <2>4, <2>5, <2>6
  <2>8. v = q
    BY <2>1, <2>7 DEF Apart, IssuedTo
  <2>9. QED
    BY <1>3, <2>5, <2>8
<1>4. QED
  BY <1>1, <1>2, <1>3 DEF IntentOf

LEMMA IInvInit == Init => IInv
<1> SUFFICES ASSUME Init PROVE IInv
  OBVIOUS
<1>1. TypeOK
  BY TypeInit
<1>2. KnownGrows /\ OnTheWire /\ Past /\ Unique /\ Answered
  BY DEF Init, KnownGrows, OnTheWire, Past, Unique, Answered
<1>3. ViewFromLog
  BY DEF Init, ViewFromLog, ViewOf
<1>4. Intent
  BY RouterAssumption DEF Init, Intent, IntentOf, IssuedTo
<1>5. QED
  BY <1>1, <1>2, <1>3, <1>4 DEF IInv

LEMMA CallIsStamped ==
  ASSUME NEW at, NEW row, NEW c \in DOMAIN at
  PROVE  \E q \in Stamped(at, row) : q.to = c.to /\ q.root = c.root
<1> DEFINE q == [op |-> c.op, from |-> c.from, to |-> c.to, ts |-> at[c],
                 root |-> c.root, seq |-> row[c.root]]
<1>1. q \in Stamped(at, row)
  BY DEF Stamped
<1>2. q.to = c.to /\ q.root = c.root
  OBVIOUS
<1>3. QED
  BY <1>1, <1>2

\* req are the requests of a call of registerParents by r: one for each neighbour
\* whose standing changes, of the kind that says what it is now.
Requested(r, timers, req) ==
  /\ issued' = issued \cup req /\ interests' = interests \cup req
  /\ \A e \in armed' : e \in timers \/ e.pkt \in req
  /\ \A q \in req : /\ q.from = r /\ q.ts >= clock[r] /\ q.ts <= clock'[r]
                    /\ q.op = "register" <=> parents'[r][q.root] = q.to
  /\ \/ SameMillisecond
     \/ \A q, x \in req : q.ts > clock[r] /\ (q.ts = x.ts => q = x)
  /\ \A q, x \in req : q.to = x.to /\ q.root = x.root => q = x
  /\ \A p \in known[r], root \in Root :
       \/ parents'[r][root] = p <=> parents[r][root] = p
       \/ \E q \in req : q.to = p /\ q.root = root

LEMMA RegisterParentsIntent ==
  ASSUME TypeOK, NEW r \in Router, NEW row \in [Root -> Seq0],
         NEW timers \in SUBSET RetryTimer, registerParents(r, row, timers)
  PROVE  \E req \in SUBSET Request : Requested(r, timers, req)
<1>0. PICK tree \in Tree(r, row) : \E at \in Stampings(r, tree) :
        LET req == Stamped(at, row)
        IN /\ parents' = [parents EXCEPT ![r] = tree]
           /\ \E now \in {clock[r]} \cup {q.ts : q \in req} :
                /\ \A q \in req : q.ts <= now
                /\ clock' = [clock EXCEPT ![r] = now]
           /\ interests' = interests \cup req
           /\ issued' = issued \cup req
           /\ StartRetry(timers, req)
  BY DEF registerParents
<1>1. PICK at \in Stampings(r, tree) :
        LET req == Stamped(at, row)
        IN /\ parents' = [parents EXCEPT ![r] = tree]
           /\ \E now \in {clock[r]} \cup {q.ts : q \in req} :
                /\ \A q \in req : q.ts <= now
                /\ clock' = [clock EXCEPT ![r] = now]
           /\ interests' = interests \cup req
           /\ issued' = issued \cup req
           /\ StartRetry(timers, req)
  BY <1>0
<1> DEFINE req == Stamped(at, row)
<1>2. /\ \A q \in req : /\ q \in Request /\ q.from = r /\ q.to \in known[r]
                        /\ tree[q.root] # parents[r][q.root]
                        /\ q.op = "register" => q.to = tree[q.root]
                        /\ q.op = "deregister" => q.to = parents[r][q.root]
  BY RequestsType
<1>3. parents'[r] = tree
  BY <1>1 DEF TypeOK
<1>4. at \in [Calls(r, tree) -> clock[r] .. MaxTime[r]] /\ DOMAIN at = Calls(r, tree)
  BY DEF Stampings
<1>5. /\ \A c \in Calls(r, tree) : at[c] >= clock[r]
      /\ \/ SameMillisecond
         \/ \A c \in Calls(r, tree) :
              at[c] > clock[r] /\ \A d \in Calls(r, tree) \ {c} : at[c] # at[d]
  <2>1. \A c \in Calls(r, tree) : at[c] \in clock[r] .. MaxTime[r]
    BY <1>4
  <2>2. clock[r] \in Nat /\ MaxTime[r] \in Nat
    BY BoundAssumption DEF TypeOK, Time
  <2>3. QED
    BY <2>1, <2>2 DEF Stampings
<1>6. \A q \in req : \E c \in Calls(r, tree) :
        /\ q = [op |-> c.op, from |-> c.from, to |-> c.to, ts |-> at[c],
                root |-> c.root, seq |-> row[c.root]]
        /\ q.op = c.op /\ q.to = c.to /\ q.root = c.root /\ q.ts = at[c]
  BY <1>4 DEF Stamped
<1>7. \A q \in req : q.op = "register" <=> parents'[r][q.root] = q.to
  BY <1>2, <1>3 DEF Request
<1>8. \A q \in req : q.ts >= clock[r]
  BY <1>5, <1>6
<1>9. \/ SameMillisecond
      \/ \A q, x \in req : q.ts > clock[r] /\ (q.ts = x.ts => q = x)
  BY <1>5, <1>6
<1>10. \A q, x \in req : q.to = x.to /\ q.root = x.root => q = x
  <2>1. SUFFICES ASSUME NEW q \in req, NEW x \in req, q.to = x.to, q.root = x.root
                 PROVE  q = x
    OBVIOUS
  <2>2. q.op = x.op
    BY <1>2, <1>7, <2>1 DEF Request
  <2>3. PICK c \in Calls(r, tree) :
          /\ q = [op |-> c.op, from |-> c.from, to |-> c.to, ts |-> at[c],
                  root |-> c.root, seq |-> row[c.root]]
          /\ q.op = c.op /\ q.to = c.to /\ q.root = c.root /\ q.ts = at[c]
    BY <1>6
  <2>4. PICK d \in Calls(r, tree) :
          /\ x = [op |-> d.op, from |-> d.from, to |-> d.to, ts |-> at[d],
                  root |-> d.root, seq |-> row[d.root]]
          /\ x.op = d.op /\ x.to = d.to /\ x.root = d.root /\ x.ts = at[d]
    BY <1>6
  <2>5. c = d
    BY <2>1, <2>2, <2>3, <2>4, CallsType
  <2>6. QED
    BY <2>3, <2>4, <2>5
<1>11. ASSUME NEW p \in known[r], NEW root \in Root,
              ~(parents'[r][root] = p <=> parents[r][root] = p)
       PROVE  \E q \in req : q.to = p /\ q.root = root
  <2>1. CASE tree[root] = p
    <3> DEFINE c == [op |-> "register", from |-> r, to |-> tree[root], root |-> root]
    <3>1. c \in Calls(r, tree)
      BY <1>3, <1>11, <2>1 DEF Calls, Registrations
    <3>2. c.to = p /\ c.root = root
      BY <2>1
    <3> HIDE DEF c
    <3>3. QED
      BY <1>4, <3>1, <3>2, CallIsStamped
  <2>2. CASE parents[r][root] = p
    <3> DEFINE c == [op |-> "deregister", from |-> r, to |-> parents[r][root], root |-> root]
    <3>1. c \in Calls(r, tree)
      BY <1>3, <1>11, <2>2 DEF Calls, Deregistrations
    <3>2. c.to = p /\ c.root = root
      BY <2>2
    <3> HIDE DEF c
    <3>3. QED
      BY <1>4, <3>1, <3>2, CallIsStamped
  <2>3. QED
    BY <1>3, <1>11, <2>1, <2>2
<1>12. \A q \in req : q.ts <= clock'[r]
  BY <1>1 DEF TypeOK
<1>13. \A e \in armed' : e \in timers \/ e.pkt \in req
  BY <1>1 DEF StartRetry
<1>14. issued' = issued \cup req /\ interests' = interests \cup req
  BY <1>1
<1>15. req \in SUBSET Request
  BY <1>2
<1>16. \A q \in req : q.from = r
  BY <1>2
<1> HIDE DEF req
<1>17. Requested(r, timers, req)
  BY <1>7, <1>8, <1>9, <1>10, <1>11, <1>12, <1>13, <1>14, <1>16 DEF Requested
<1>18. QED
  BY <1>15, <1>17

\* The handlers that end in registerParents leave the parents' tables alone.
LEMMA RegisteringKeeps ==
  ASSUME IInv, TypeOK', NEW r \in Router, NEW row \in [Root -> Seq0],
         NEW timers \in SUBSET armed, registerParents(r, row, timers),
         UNCHANGED <<known, sons, lastOp, firing>>,
         replies' \subseteq replies,
         \A n \in acked' : n \in acked \/ \E d \in replies : n = d.name
  PROVE  IInv'
<1>1. TypeOK /\ timers \in SUBSET RetryTimer
  BY DEF IInv, TypeOK
<1>0. PICK req \in SUBSET Request : Requested(r, timers, req)
  BY <1>1, RegisterParentsIntent
<1>2. /\ issued' = issued \cup req /\ interests' = interests \cup req
      /\ \A e \in armed' : e \in timers \/ e.pkt \in req
      /\ \A q \in req : /\ q.from = r /\ q.ts >= clock[r] /\ q.ts <= clock'[r]
                        /\ q.op = "register" <=> parents'[r][q.root] = q.to
      /\ \/ SameMillisecond
         \/ \A q, x \in req : q.ts > clock[r] /\ (q.ts = x.ts => q = x)
      /\ \A q, x \in req : q.to = x.to /\ q.root = x.root => q = x
      /\ \A p \in known[r], root \in Root :
           \/ parents'[r][root] = p <=> parents[r][root] = p
           \/ \E q \in req : q.to = p /\ q.root = root
  BY <1>0 DEF Requested
<1>3. /\ clock'[r] >= clock[r]
      /\ \A x \in Router \ {r} : parents'[x] = parents[x] /\ clock'[x] = clock[x]
  BY <1>1, RegisterParentsStep
<1>4. /\ \A x \in Router : clock[x] \in Nat /\ clock'[x] \in Nat /\ clock'[x] >= clock[x]
      /\ \A q \in issued' : q \in Request /\ q.ts \in Nat /\ q.from \in Router
  <2>1. \A x \in Router : clock[x] \in Nat /\ clock'[x] \in Nat
    BY <1>1 DEF TypeOK, Time
  <2>2. \A x \in Router : clock'[x] >= clock[x]
    BY <1>3, <2>1
  <2>3. QED
    BY <2>1, <2>2 DEF TypeOK, Request, Time
<1>5. KnownGrows'
  BY DEF IInv, KnownGrows
<1>6. OnTheWire'
  BY <1>2 DEF IInv, OnTheWire
<1>7. Past'
  <2>1. SUFFICES ASSUME NEW q \in issued' PROVE q.ts <= clock'[q.from]
    BY DEF Past
  <2>2. CASE q \in issued
    BY <1>4, <2>2 DEF IInv, Past
  <2>3. QED
    BY <1>2, <2>2
<1>8. SameMillisecond \/ Unique'
  <2>1. SUFFICES ASSUME ~SameMillisecond,
                        NEW p \in issued', NEW q \in issued', p.from = q.from, p.ts = q.ts
                 PROVE  p = q
    BY DEF Unique
  <2>2. \A x \in issued : x.ts <= clock[x.from]
    BY DEF IInv, Past
  <2>3. CASE p \in issued /\ q \in issued
    BY <2>1, <2>3 DEF IInv, Unique
  <2>4. CASE p \in req /\ q \in req
    BY <1>2, <2>1, <2>4
  <2>5. \A x \in issued, y \in req : ~(x.from = y.from /\ x.ts = y.ts)
    BY <1>2, <1>4, <2>1, <2>2
  <2>6. QED
    BY <1>2, <2>1, <2>3, <2>4, <2>5
<1>9. Answered'
  <2>1. \A n : Applied(n) => Applied(n)'
    BY <1>2 DEF Applied
  <2>2. QED
    BY <2>1 DEF IInv, Answered
<1>10. ViewFromLog'
  <2>1. SUFFICES ASSUME NEW s \in Router, NEW p \in Router, NEW root \in Root
                 PROVE  ViewOf(s, p, root)'
    BY DEF ViewFromLog
  <2>2. ViewOf(s, p, root)
    BY DEF IInv, ViewFromLog
  <2>3. IssuedTo(s, p, root) \subseteq IssuedTo(s, p, root)'
    BY <1>2 DEF IssuedTo
  <2>4. QED
    BY <2>2, <2>3 DEF ViewOf
<1>11. Intent'
  <2>1. SUFFICES ASSUME NEW s \in Router, NEW p \in Router, NEW root \in Root,
                        p \in KnownAtStart[s]
                 PROVE  IntentOf(s, p, root)'
    BY DEF Intent
  <2>2. IntentOf(s, p, root) /\ p \in known[s]
    BY <2>1 DEF IInv, Intent, KnownGrows
  <2>3. CASE \E q \in req : s = r /\ q.to = p /\ q.root = root
    <3>1. PICK q \in req : s = r /\ q.to = p /\ q.root = root
      BY <2>3
    <3>2. q \in IssuedTo(s, p, root)' /\ (q.op = "register" <=> parents'[s][root] = p)
      BY <1>2, <3>1 DEF IssuedTo
    <3>3. ASSUME NEW x \in IssuedTo(s, p, root)' PROVE x.ts <= q.ts
      <4>1. x \in issued' /\ x.from = s /\ x.to = p /\ x.root = root
        BY DEF IssuedTo
      <4>2. CASE x \in req
        BY <1>2, <1>4, <3>1, <4>1, <4>2
      <4>3. CASE x \in issued
        <5>1. x.ts <= clock[r] /\ q.ts >= clock[r] /\ x.ts \in Nat /\ q.ts \in Nat /\ clock[r] \in Nat
          BY <1>2, <1>4, <3>1, <4>1, <4>3 DEF IInv, Past
        <5>2. QED
          BY <5>1
      <4>4. QED
        BY <1>2, <4>1, <4>2, <4>3
    <3>4. QED
      BY <3>2, <3>3 DEF IntentOf
  <2>4. CASE ~\E q \in req : s = r /\ q.to = p /\ q.root = root
    <3>1. IssuedTo(s, p, root)' = IssuedTo(s, p, root)
      BY <1>2, <2>4 DEF IssuedTo
    <3>2. parents'[s][root] = p <=> parents[s][root] = p
      BY <1>2, <1>3, <2>2, <2>4
    <3>3. QED
      BY <2>2, <3>1, <3>2 DEF IntentOf
  <2>5. QED
    BY <2>3, <2>4
<1>12. QED
  BY <1>5, <1>6, <1>7, <1>8, <1>9, <1>10, <1>11 DEF IInv

\* The steps that touch neither the log nor the tables.
LEMMA QuietKeeps ==
  ASSUME IInv, TypeOK',
         UNCHANGED <<parents, sons, lastOp, clock, issued>>,
         \A x \in Router : known[x] \subseteq known'[x],
         interests' \subseteq issued,
         \A e \in armed' \cup firing' : e.pkt \in issued,
         replies' \subseteq replies,
         \A n \in acked' : n \in acked \/ \E d \in replies : n = d.name
  PROVE  IInv'
<1>1. KnownGrows' /\ OnTheWire' /\ Past' /\ (SameMillisecond \/ Unique')
  BY DEF IInv, KnownGrows, OnTheWire, Past, Unique
<1>2. Answered'
  BY DEF IInv, Answered, Applied
<1>3. ViewFromLog' /\ Intent'
  BY DEF IInv, ViewFromLog, ViewOf, Intent, IntentOf, IssuedTo
<1>4. QED
  BY <1>1, <1>2, <1>3 DEF IInv

\* What the handler of request m does to the tables of its receiver: v is the
\* new set of sons, if m is news.
Applies(m, v) ==
  \/ /\ m.ts > lastOp[m.to][m.root][m.from]
     /\ sons' = [sons EXCEPT ![m.to][m.root] = v]
     /\ \A x \in Router \ {m.from} : x \in v <=> x \in sons[m.to][m.root]
     /\ m.from \in v <=> m.op = "register"
     /\ lastOp' = [lastOp EXCEPT ![m.to][m.root][m.from] = m.ts]
  \/ /\ ~(m.ts > lastOp[m.to][m.root][m.from])
     /\ UNCHANGED <<sons, lastOp>>

\* The same, entry by entry.
EntryAfter(m, p, root, s) ==
  \/ /\ p = m.to /\ root = m.root /\ s = m.from
     /\ m.ts > lastOp[p][root][s]
     /\ lastOp'[p][root][s] = m.ts
     /\ s \in sons'[p][root] <=> m.op = "register"
  \/ /\ lastOp'[p][root][s] = lastOp[p][root][s]
     /\ s \in sons'[p][root] <=> s \in sons[p][root]
     /\ p = m.to /\ root = m.root /\ s = m.from => lastOp[p][root][s] >= m.ts

LEMMA AppliesEntry ==
  ASSUME sons \in [Router -> [Root -> SUBSET Router]],
         lastOp \in [Router -> [Root -> [Router -> Nat]]],
         NEW m, m.from \in Router, m.to \in Router, m.root \in Root, m.ts \in Nat,
         NEW v \in SUBSET Router, Applies(m, v),
         NEW p \in Router, NEW root \in Root, NEW s \in Router
  PROVE  EntryAfter(m, p, root, s)
<1>1. CASE /\ ~(m.ts > lastOp[m.to][m.root][m.from])
           /\ UNCHANGED <<sons, lastOp>>
  <2>1. lastOp[p][root][s] \in Nat
    OBVIOUS
  <2>2. p = m.to /\ root = m.root /\ s = m.from => lastOp[p][root][s] >= m.ts
    BY <1>1, <2>1
  <2>3. QED
    BY <1>1, <2>2 DEF EntryAfter
<1>2. CASE /\ m.ts > lastOp[m.to][m.root][m.from]
           /\ sons' = [sons EXCEPT ![m.to][m.root] = v]
           /\ \A x \in Router \ {m.from} : x \in v <=> x \in sons[m.to][m.root]
           /\ m.from \in v <=> m.op = "register"
           /\ lastOp' = [lastOp EXCEPT ![m.to][m.root][m.from] = m.ts]
  <2>1. /\ sons'[m.to][m.root] = v
        /\ \A x \in Router, y \in Root :
             <<x, y>> # <<m.to, m.root>> => sons'[x][y] = sons[x][y]
    BY <1>2, SonsUpdate
  <2>2. lastOp'[p][root][s] =
          IF p = m.to /\ root = m.root /\ s = m.from THEN m.ts ELSE lastOp[p][root][s]
    <3>1. lastOp'[p] = IF p = m.to THEN [lastOp[p] EXCEPT ![m.root][m.from] = m.ts]
                                   ELSE lastOp[p]
      BY <1>2
    <3>2. lastOp'[p][root] =
            IF p = m.to /\ root = m.root THEN [lastOp[p][root] EXCEPT ![m.from] = m.ts]
                                         ELSE lastOp[p][root]
      <4>1. CASE p = m.to
        <5>1. lastOp[p] \in [Root -> [Router -> Nat]]
          OBVIOUS
        <5>2. lastOp'[p] = [lastOp[p] EXCEPT ![m.root] = [lastOp[p][m.root] EXCEPT ![m.from] = m.ts]]
          BY <3>1, <4>1, <5>1
        <5>3. QED
          BY <4>1, <5>1, <5>2
      <4>2. CASE p # m.to
        BY <3>1, <4>2
      <4>3. QED
        BY <4>1, <4>2
    <3>3. lastOp[p][root] \in [Router -> Nat]
      OBVIOUS
    <3>4. QED
      BY <3>2, <3>3
  <2>3. CASE p = m.to /\ root = m.root /\ s = m.from
    BY <1>2, <2>1, <2>2, <2>3 DEF EntryAfter
  <2>4. CASE ~(p = m.to /\ root = m.root /\ s = m.from)
    <3>1. lastOp'[p][root][s] = lastOp[p][root][s]
      BY <2>2, <2>4
    <3>2. s \in sons'[p][root] <=> s \in sons[p][root]
      <4>1. CASE p = m.to /\ root = m.root
        BY <1>2, <2>1, <2>4, <4>1
      <4>2. CASE ~(p = m.to /\ root = m.root)
        BY <2>1, <4>2
      <4>3. QED
        BY <4>1, <4>2
    <3>3. QED
      BY <2>4, <3>1, <3>2 DEF EntryAfter
  <2>5. QED
    BY <2>3, <2>4
<1>3. QED
  BY <1>1, <1>2 DEF Applies

\* A parent applies a request it has not seen before, or answers an old one.
LEMMA ApplyKeeps ==
  ASSUME IInv, TypeOK', NEW m \in interests, NEW v \in SUBSET Router,
         interests' \subseteq interests,
         UNCHANGED <<known, parents, clock, armed, firing, issued, acked>>,
         \A d \in replies' : d \in replies \/ d.name = NameOf(m),
         Applies(m, v)
  PROVE  IInv'
<1>1. /\ m \in issued /\ m \in Request
      /\ m.from \in Router /\ m.to \in Router /\ m.root \in Root /\ m.ts \in Nat
  BY DEF IInv, OnTheWire, TypeOK, Request, Time
<1>2. /\ sons \in [Router -> [Root -> SUBSET Router]]
      /\ lastOp \in [Router -> [Root -> [Router -> Nat]]]
  BY DEF IInv, TypeOK
<1>3. KnownGrows' /\ OnTheWire' /\ Past' /\ (SameMillisecond \/ Unique') /\ Intent'
  BY DEF IInv, KnownGrows, OnTheWire, Past, Unique, Intent, IntentOf, IssuedTo
<1>4. \A p \in Router, root \in Root, s \in Router : EntryAfter(m, p, root, s)
  BY <1>1, <1>2, AppliesEntry
<1>5. ViewFromLog'
  <2>1. SUFFICES ASSUME NEW s \in Router, NEW p \in Router, NEW root \in Root
                 PROVE  ViewOf(s, p, root)'
    BY DEF ViewFromLog
  <2>2. ViewOf(s, p, root) /\ IssuedTo(s, p, root)' = IssuedTo(s, p, root)
    BY DEF IInv, ViewFromLog, IssuedTo
  <2>3. CASE /\ p = m.to /\ root = m.root /\ s = m.from
             /\ lastOp'[p][root][s] = m.ts
             /\ s \in sons'[p][root] <=> m.op = "register"
    BY <1>1, <2>2, <2>3 DEF ViewOf, IssuedTo
  <2>4. CASE /\ lastOp'[p][root][s] = lastOp[p][root][s]
             /\ s \in sons'[p][root] <=> s \in sons[p][root]
    BY <2>2, <2>4 DEF ViewOf
  <2>5. EntryAfter(m, p, root, s)
    BY <1>4
  <2>6. QED
    BY <2>3, <2>4, <2>5 DEF EntryAfter
<1>6. Answered'
  <2>1. \A p \in Router, root \in Root, s \in Router :
          /\ lastOp'[p][root][s] \in Nat /\ lastOp[p][root][s] \in Nat
          /\ lastOp'[p][root][s] >= lastOp[p][root][s]
    <3>1. lastOp' \in [Router -> [Root -> [Router -> Nat]]]
      BY DEF TypeOK
    <3>2. \A p \in Router, root \in Root, s \in Router :
            lastOp'[p][root][s] \in Nat /\ lastOp[p][root][s] \in Nat
      BY <1>2, <3>1
    <3>3. \A p \in Router, root \in Root, s \in Router :
            \/ m.ts > lastOp[p][root][s] /\ lastOp'[p][root][s] = m.ts
            \/ lastOp'[p][root][s] = lastOp[p][root][s]
      BY <1>4 DEF EntryAfter
    <3>4. QED
      BY <1>1, <3>2, <3>3
  <2>2. \A n : Applied(n) => Applied(n)'
    <3>1. SUFFICES ASSUME NEW n, NEW q \in issued, NameOf(q) = n,
                          lastOp[q.to][q.root][q.from] >= q.ts
                   PROVE  Applied(n)'
      BY DEF Applied
    <3>2. q.from \in Router /\ q.to \in Router /\ q.root \in Root /\ q.ts \in Nat
      BY DEF IInv, TypeOK, Request, Time
    <3>3. lastOp'[q.to][q.root][q.from] >= q.ts
      BY <2>1, <3>1, <3>2
    <3>4. QED
      BY <3>1, <3>3 DEF Applied
  <2>3. Applied(NameOf(m))'
    <3>1. EntryAfter(m, m.to, m.root, m.from)
      BY <1>1, <1>4
    <3>2. lastOp'[m.to][m.root][m.from] = m.ts \/ lastOp'[m.to][m.root][m.from] >= m.ts
      BY <3>1 DEF EntryAfter
    <3>3. lastOp'[m.to][m.root][m.from] >= m.ts
      BY <1>1, <3>2
    <3>4. QED
      BY <1>1, <3>3 DEF Applied
  <2>4. QED
    BY <2>2, <2>3 DEF IInv, Answered
<1>7. QED
  BY <1>3, <1>5, <1>6 DEF IInv

LEMMA IInvStep == IInv /\ [Next]_vars => IInv'
<1> SUFFICES ASSUME IInv, [Next]_vars PROVE IInv'
  OBVIOUS
<1>0. TypeOK /\ TypeOK' /\ OnTheWire /\ db \in [Router -> [Root -> Seq0]]
  BY TypeStep DEF IInv, TypeOK
<1>1. ASSUME NEW r \in Router, NEW q \in Router, Hear(r, q)
      PROVE  IInv'
  <2>1. \A x \in Router : known[x] \subseteq known'[x]
    BY <1>0, <1>1 DEF Hear, TypeOK
  <2>2. QED
    BY <1>0, <1>1, <2>1, QuietKeeps DEF Hear, OnTheWire, treeVars, wireVars, timerVars
<1>2. ASSUME NEW r \in Router, TriggerNewLsa(r)
      PROVE  IInv'
  <2>1. db'[r] \in [Root -> Seq0] /\ armed \in SUBSET armed /\ registerParents(r, db'[r], armed)
    BY <1>0, <1>2 DEF TriggerNewLsa, TypeOK
  <2>2. /\ UNCHANGED <<known, sons, lastOp, firing>> /\ replies' \subseteq replies
        /\ \A n \in acked' : n \in acked \/ \E d \in replies : n = d.name
    BY <1>2 DEF TriggerNewLsa
  <2>3. QED
    BY <1>0, <2>1, <2>2, RegisteringKeeps
<1>3. ASSUME NEW r \in Router, NEW q \in Router, NEW root \in Root, ReceiveLsa(r, q, root)
      PROVE  IInv'
  <2>1. PICK seq \in 0 .. db[q][root] :
          \/ AcceptLsa(r, q, root, seq, armed)
          \/ UNCHANGED <<parents, clock, interests, armed, issued>>
    BY <1>3 DEF ReceiveLsa
  <2>2. /\ UNCHANGED <<known, sons, lastOp, firing>> /\ replies' \subseteq replies
        /\ acked' = acked
    BY <1>3 DEF ReceiveLsa
  <2>3. CASE AcceptLsa(r, q, root, seq, armed)
    <3>1. db'[r] \in [Root -> Seq0] /\ registerParents(r, db'[r], armed)
      BY <1>0, <2>3 DEF AcceptLsa, TypeOK
    <3>2. QED
      BY <1>0, <2>2, <3>1, RegisteringKeeps
  <2>4. CASE UNCHANGED <<parents, clock, interests, armed, issued>>
    BY <1>0, <2>2, <2>4, QuietKeeps DEF OnTheWire
  <2>5. QED
    BY <2>1, <2>3, <2>4
<1>4. ASSUME NEW m \in interests, ReceiveRegister(m)
      PROVE  IInv'
  <2>1. m \in Request /\ m.from \in Router /\ sons[m.to][m.root] \in SUBSET Router
    BY <1>0 DEF TypeOK, Request
  <2> DEFINE v == sons[m.to][m.root] \cup {m.from}
  <2>2. v \in SUBSET Router /\ m.op = "register"
    BY <1>4, <2>1 DEF ReceiveRegister
  <2>3. /\ interests' \subseteq interests
        /\ UNCHANGED <<known, parents, clock, armed, firing, issued, acked>>
        /\ \A d \in replies' : d \in replies \/ d.name = NameOf(m)
    <3>1. \E lsa : replies' = replies \cup {[name |-> NameOf(m), lsa |-> lsa]}
      BY <1>4, Zenon DEF ReceiveRegister
    <3>2. \A d \in replies' : d \in replies \/ d.name = NameOf(m)
      BY <3>1
    <3>3. QED
      BY <1>4, <3>2 DEF ReceiveRegister, timerVars
  <2>4. \/ /\ m.ts > lastOp[m.to][m.root][m.from]
           /\ sons' = [sons EXCEPT ![m.to][m.root] = v]
           /\ lastOp' = [lastOp EXCEPT ![m.to][m.root][m.from] = m.ts]
        \/ /\ ~(m.ts > lastOp[m.to][m.root][m.from])
           /\ UNCHANGED <<sons, lastOp>>
    BY <1>4, Zenon DEF ReceiveRegister
  <2>5. /\ \A x \in Router \ {m.from} : x \in v <=> x \in sons[m.to][m.root]
        /\ m.from \in v <=> m.op = "register"
    BY <2>2
  <2> HIDE DEF v
  <2>6. Applies(m, v)
    BY <2>4, <2>5, Zenon DEF Applies
  <2>7. QED
    BY <1>0, <2>2, <2>3, <2>6, ApplyKeeps
<1>5. ASSUME NEW m \in interests, ReceiveDeregister(m)
      PROVE  IInv'
  <2>1. m \in Request /\ m.from \in Router /\ sons[m.to][m.root] \in SUBSET Router
    BY <1>0 DEF TypeOK, Request
  <2> DEFINE v == sons[m.to][m.root] \ {m.from}
  <2>2. v \in SUBSET Router /\ m.op = "deregister"
    BY <1>5, <2>1 DEF ReceiveDeregister
  <2>3. /\ interests' \subseteq interests
        /\ UNCHANGED <<known, parents, clock, armed, firing, issued, acked>>
        /\ \A d \in replies' : d \in replies \/ d.name = NameOf(m)
    BY <1>5 DEF ReceiveDeregister, timerVars
  <2>4. \/ /\ m.ts > lastOp[m.to][m.root][m.from]
           /\ sons' = [sons EXCEPT ![m.to][m.root] = v]
           /\ lastOp' = [lastOp EXCEPT ![m.to][m.root][m.from] = m.ts]
        \/ /\ ~(m.ts > lastOp[m.to][m.root][m.from])
           /\ UNCHANGED <<sons, lastOp>>
    BY <1>5 DEF ReceiveDeregister
  <2>5. /\ \A x \in Router \ {m.from} : x \in v <=> x \in sons[m.to][m.root]
        /\ m.from \in v <=> m.op = "register"
    BY <2>2
  <2> HIDE DEF v
  <2>6. Applies(m, v)
    BY <2>4, <2>5, Zenon DEF Applies
  <2>7. QED
    BY <1>0, <2>2, <2>3, <2>6, ApplyKeeps
<1>6. ASSUME NEW d \in replies, ReceiveReply(d)
      PROVE  IInv'
  <2>1. d \in Reply /\ d.name.from \in Router /\ d.name.to \in Router
    BY <1>0 DEF TypeOK, Reply, Name
  <2>2. /\ UNCHANGED <<known, sons, lastOp, firing>> /\ replies' \subseteq replies
        /\ \A n \in acked' : n \in acked \/ \E x \in replies : n = x.name
    BY <1>6 DEF ReceiveReply
  <2>3. CancelRetry(d.name) \in SUBSET armed
    BY DEF CancelRetry
  <2>4. CASE /\ d.lsa # NoLsa
             /\ AcceptLsa(d.name.from, d.name.to, d.lsa.root, d.lsa.seq, CancelRetry(d.name))
    <3>1. d.lsa.root \in Root /\ d.lsa.seq \in Seq0
      BY <2>1, <2>4, BoundAssumption DEF Reply, Lsa, Seq0
    <3>2. /\ db'[d.name.from] \in [Root -> Seq0]
          /\ registerParents(d.name.from, db'[d.name.from], CancelRetry(d.name))
      BY <1>0, <2>1, <2>4, <3>1 DEF AcceptLsa
    <3>3. QED
      BY <1>0, <2>1, <2>2, <2>3, <3>2, RegisteringKeeps
  <2>5. CASE /\ armed' = CancelRetry(d.name)
             /\ UNCHANGED <<db, offered, parents, clock, interests, issued>>
    BY <1>0, <2>2, <2>3, <2>5, QuietKeeps DEF OnTheWire
  <2>6. QED
    BY <1>6, <2>4, <2>5 DEF ReceiveReply
<1>7. ASSUME NEW e \in armed, TimerUp(e)
      PROVE  IInv'
  BY <1>0, <1>7, QuietKeeps DEF TimerUp, OnTheWire, treeVars, wireVars
<1>8. ASSUME NEW e \in firing, RetryCallback(e)
      PROVE  IInv'
  <2>1. e \in RetryTimer /\ e.pkt \in issued
    BY <1>0 DEF TypeOK, OnTheWire
  <2>2. [e EXCEPT !.count = @ + 1].pkt = e.pkt
    BY <2>1 DEF RetryTimer
  <2>3. \A x \in armed' \cup firing' : x.pkt \in issued
    BY <1>0, <1>8, <2>1, <2>2 DEF RetryCallback, OnTheWire
  <2>4. interests' \subseteq issued
    BY <1>0, <1>8, <2>1 DEF RetryCallback, OnTheWire
  <2>5. QED
    BY <1>0, <1>8, <2>3, <2>4, QuietKeeps DEF RetryCallback, treeVars
<1>9. CASE UNCHANGED vars
  BY <1>0, <1>9, QuietKeeps DEF vars, OnTheWire, treeVars, wireVars, timerVars
<1>10. QED
  BY <1>1, <1>2, <1>3, <1>4, <1>5, <1>6, <1>7, <1>8, <1>9 DEF Next

\* A parent and a son whose exchange is over agree, whatever was lost, repeated or
\* reordered, and although requests share a millisecond, but for the ones that are
\* mistaken for one another.
THEOREM SonsAgree == Spec => []Agreement
<1>1. Init => IInv
  BY IInvInit
<1>2. IInv /\ [Next]_vars => IInv'
  BY IInvStep
<1>3. IInv => Agreement
  BY IInvAgreement
<1>4. QED
  BY <1>1, <1>2, <1>3, PTL DEF Spec

\* The last request to a neighbour known from the start says whether it is the parent now,
\* for any topology, whether or not requests share a millisecond.
THEOREM LastRequestHolds == Spec => []LastRequestStands
<1>1. IInv => LastRequestStands
  BY DEF IInv, Intent, IntentOf, LastRequestStands
<1>2. QED
  BY <1>1, IInvInit, IInvStep, PTL DEF Spec

\* None is mistaken if no two requests of a router carry the same timestamp: then a
\* parent and a son whose exchange is over agree, and nothing else is asked for.
THEOREM DistinctAreApart ==
  ASSUME ~SameMillisecond
  PROVE  Spec => [](\A s, p \in Router, root \in Root : Apart(s, p, root))
<1>1. Unique => \A s, p \in Router, root \in Root : Apart(s, p, root)
  BY DEF Unique, Apart, IssuedTo
<1>2. IInv => Unique
  BY DEF IInv
<1>3. QED
  BY <1>1, <1>2, IInvInit, IInvStep, PTL DEF Spec

-----------------------------------------------------------------------------
(***************************************************************************)
(* Refinement.  Every step issues requests no older than the ones before,  *)
(* moves a parent on to a request it has not seen, or leaves both alone.   *)
(* Two requests may share a millisecond here.                              *)
(***************************************************************************)
Log == TypeOK /\ OnTheWire /\ Past

\* A step that issues requests: all of one router, between its clock and the next.
Issues(r, req) ==
  /\ issued' = issued \cup req
  /\ \A q \in req : q.from = r /\ q.ts >= clock[r] /\ q.ts <= clock'[r]
  /\ interests' \subseteq issued'
  /\ \A e \in armed' \cup firing' : e.pkt \in issued'
  /\ \A x \in Router : clock'[x] >= clock[x]
  /\ UNCHANGED <<sons, lastOp>>

LEMMA RegisteringIssues ==
  ASSUME Log, TypeOK', NEW r \in Router, NEW row \in [Root -> Seq0],
         NEW timers \in SUBSET armed, registerParents(r, row, timers),
         UNCHANGED <<sons, lastOp, firing>>
  PROVE  \E req \in SUBSET Request : Issues(r, req)
<1>1. TypeOK /\ timers \in SUBSET RetryTimer
  BY DEF Log, TypeOK
<1>2. /\ \E req \in SUBSET Request :
           /\ issued' = issued \cup req /\ interests' = interests \cup req
           /\ \A q \in req : /\ q.from = r /\ q.ts >= clock[r] /\ q.ts <= clock'[r]
                             /\ q.seq = row[q.root] /\ q.to \in known[r]
           /\ clock'[r] >= clock[r]
           /\ \A e \in armed' : e \in timers \/ e.pkt \in req
      /\ \A x \in Router \ {r} : clock'[x] = clock[x]
  BY <1>1, RegisterParentsStep
<1>3. PICK req \in SUBSET Request :
        /\ issued' = issued \cup req /\ interests' = interests \cup req
        /\ \A q \in req : q.from = r /\ q.ts >= clock[r] /\ q.ts <= clock'[r]
        /\ clock'[r] >= clock[r]
        /\ \A e \in armed' : e \in timers \/ e.pkt \in req
  BY <1>2
<1>4. \A x \in Router : clock'[x] >= clock[x]
  <2>1. \A x \in Router : clock[x] \in Nat
    BY DEF Log, TypeOK, Time
  <2>2. QED
    BY <1>2, <1>3, <2>1
<1>5. /\ interests' \subseteq issued'
      /\ \A e \in armed' \cup firing' : e.pkt \in issued'
  BY <1>3 DEF Log, OnTheWire
<1>6. Issues(r, req)
  BY <1>3, <1>4, <1>5 DEF Issues
<1>7. QED
  BY <1>6

LEMMA IssuesRefines ==
  ASSUME Log, TypeOK', NEW r \in Router, NEW req \in SUBSET Request, Issues(r, req)
  PROVE  Log' /\ Membership!Issue
<1>1. \A q \in issued : q.from \in Router /\ q.ts \in Nat /\ q.ts <= clock[q.from]
  BY DEF Log, TypeOK, Past, Request, Time
<1>2. \A x \in Router : clock[x] \in Nat /\ clock'[x] \in Nat
  BY DEF Log, TypeOK, Time
<1>3. \A q \in req : q.ts \in Nat
  BY DEF Request, Time
<1>4. Past'
  BY <1>1, <1>2, <1>3 DEF Issues, Past
<1>5. \A new \in issued' \ issued : \A old \in issued : old.from = new.from => old.ts <= new.ts
  BY <1>1, <1>2, <1>3 DEF Issues
<1>6. QED
  BY <1>4, <1>5 DEF Issues, Log, OnTheWire, Membership!Issue

\* A parent applies or ignores a request that is on the wire.
LEMMA ApplyRefines ==
  ASSUME Log, TypeOK', NEW m \in interests, interests' \subseteq interests,
         UNCHANGED <<clock, armed, firing, issued>>,
         \/ /\ m.ts > lastOp[m.to][m.root][m.from]
            /\ sons' = [sons EXCEPT ![m.to][m.root] =
                          IF m.op = "register" THEN @ \cup {m.from} ELSE @ \ {m.from}]
            /\ lastOp' = [lastOp EXCEPT ![m.to][m.root][m.from] = m.ts]
         \/ UNCHANGED <<sons, lastOp>>
  PROVE  Log' /\ [Membership!ANext]_(Membership!avars)
<1>1. m \in issued
  BY DEF Log, OnTheWire
<1>2. Log'
  BY DEF Log, OnTheWire, Past
<1>3. CASE UNCHANGED <<sons, lastOp>>
  BY <1>2, <1>3 DEF Membership!avars
<1>4. CASE /\ m.ts > lastOp[m.to][m.root][m.from]
           /\ sons' = [sons EXCEPT ![m.to][m.root] =
                         IF m.op = "register" THEN @ \cup {m.from} ELSE @ \ {m.from}]
           /\ lastOp' = [lastOp EXCEPT ![m.to][m.root][m.from] = m.ts]
  <2>1. Membership!Learn(m)
    BY <1>1, <1>4 DEF Membership!Learn
  <2>2. QED
    BY <1>1, <1>2, <2>1 DEF Membership!ANext
<1>5. QED
  BY <1>3, <1>4

LEMMA RefinesStep == Log /\ [Next]_vars => Log' /\ [Membership!ANext]_(Membership!avars)
<1> SUFFICES ASSUME Log, [Next]_vars
             PROVE  Log' /\ [Membership!ANext]_(Membership!avars)
  OBVIOUS
<1>0. TypeOK /\ TypeOK' /\ OnTheWire /\ db \in [Router -> [Root -> Seq0]]
  BY TypeStep DEF Log, TypeOK
\* Two ways to leave the lists alone.
<1>a. ASSUME NEW r \in Router, NEW row \in [Root -> Seq0], NEW timers \in SUBSET armed,
             registerParents(r, row, timers), UNCHANGED <<sons, lastOp, firing>>
      PROVE  Log' /\ [Membership!ANext]_(Membership!avars)
  <2>1. PICK req \in SUBSET Request : Issues(r, req)
    BY <1>0, <1>a, RegisteringIssues
  <2>2. Log' /\ Membership!Issue
    BY <1>0, <2>1, IssuesRefines
  <2>3. QED
    BY <2>2 DEF Membership!ANext
<1>b. ASSUME UNCHANGED <<sons, lastOp, clock, issued>>, interests' \subseteq issued,
             \A e \in armed' \cup firing' : e.pkt \in issued
      PROVE  Log' /\ [Membership!ANext]_(Membership!avars)
  BY <1>0, <1>b DEF Log, OnTheWire, Past, Membership!avars
<1>1. ASSUME NEW r \in Router, NEW q \in Router, Hear(r, q)
      PROVE  Log' /\ [Membership!ANext]_(Membership!avars)
  BY <1>0, <1>1, <1>b DEF Hear, OnTheWire, treeVars, wireVars, timerVars
<1>2. ASSUME NEW r \in Router, TriggerNewLsa(r)
      PROVE  Log' /\ [Membership!ANext]_(Membership!avars)
  <2>1. /\ db'[r] \in [Root -> Seq0] /\ registerParents(r, db'[r], armed)
        /\ UNCHANGED <<sons, lastOp, firing>>
    BY <1>0, <1>2 DEF TriggerNewLsa, TypeOK
  <2>2. QED
    BY <2>1, <1>a
<1>3. ASSUME NEW r \in Router, NEW q \in Router, NEW root \in Root, ReceiveLsa(r, q, root)
      PROVE  Log' /\ [Membership!ANext]_(Membership!avars)
  <2>1. PICK seq \in 0 .. db[q][root] :
          \/ AcceptLsa(r, q, root, seq, armed)
          \/ UNCHANGED <<clock, interests, armed, issued>>
    BY <1>3 DEF ReceiveLsa
  <2>2. UNCHANGED <<sons, lastOp, firing>>
    BY <1>3 DEF ReceiveLsa
  <2>3. CASE AcceptLsa(r, q, root, seq, armed)
    <3>1. db'[r] \in [Root -> Seq0] /\ registerParents(r, db'[r], armed)
      BY <1>0, <2>3 DEF AcceptLsa, TypeOK
    <3>2. QED
      BY <2>2, <3>1, <1>a
  <2>4. CASE UNCHANGED <<clock, interests, armed, issued>>
    BY <1>0, <2>2, <2>4, <1>b DEF OnTheWire
  <2>5. QED
    BY <2>1, <2>3, <2>4
<1>4. ASSUME NEW m \in interests, ReceiveRegister(m)
      PROVE  Log' /\ [Membership!ANext]_(Membership!avars)
  <2>1. m.op = "register"
    BY <1>4 DEF ReceiveRegister
  <2>2. /\ interests' \subseteq interests
        /\ UNCHANGED <<clock, armed, firing, issued>>
    BY <1>4 DEF ReceiveRegister, timerVars
  <2>3. \/ /\ m.ts > lastOp[m.to][m.root][m.from]
           /\ sons' = [sons EXCEPT ![m.to][m.root] =
                         IF m.op = "register" THEN @ \cup {m.from} ELSE @ \ {m.from}]
           /\ lastOp' = [lastOp EXCEPT ![m.to][m.root][m.from] = m.ts]
        \/ UNCHANGED <<sons, lastOp>>
    BY <1>4, <2>1 DEF ReceiveRegister
  <2>4. QED
    BY <1>0, <2>2, <2>3, ApplyRefines
<1>5. ASSUME NEW m \in interests, ReceiveDeregister(m)
      PROVE  Log' /\ [Membership!ANext]_(Membership!avars)
  <2>1. m.op = "deregister"
    BY <1>5 DEF ReceiveDeregister
  <2>2. /\ interests' \subseteq interests
        /\ UNCHANGED <<clock, armed, firing, issued>>
    BY <1>5 DEF ReceiveDeregister, timerVars
  <2>3. \/ /\ m.ts > lastOp[m.to][m.root][m.from]
           /\ sons' = [sons EXCEPT ![m.to][m.root] =
                         IF m.op = "register" THEN @ \cup {m.from} ELSE @ \ {m.from}]
           /\ lastOp' = [lastOp EXCEPT ![m.to][m.root][m.from] = m.ts]
        \/ UNCHANGED <<sons, lastOp>>
    BY <1>5, <2>1 DEF ReceiveDeregister
  <2>4. QED
    BY <1>0, <2>2, <2>3, ApplyRefines
<1>6. ASSUME NEW d \in replies, ReceiveReply(d)
      PROVE  Log' /\ [Membership!ANext]_(Membership!avars)
  <2>1. d \in Reply /\ d.name.from \in Router /\ d.name.to \in Router
    BY <1>0 DEF TypeOK, Reply, Name
  <2>2. UNCHANGED <<sons, lastOp, firing>> /\ CancelRetry(d.name) \in SUBSET armed
    BY <1>6 DEF ReceiveReply, CancelRetry
  <2>3. CASE /\ d.lsa # NoLsa
             /\ AcceptLsa(d.name.from, d.name.to, d.lsa.root, d.lsa.seq, CancelRetry(d.name))
    <3>1. d.lsa.root \in Root /\ d.lsa.seq \in Seq0
      BY <2>1, <2>3, BoundAssumption DEF Reply, Lsa, Seq0
    <3>2. /\ db'[d.name.from] \in [Root -> Seq0]
          /\ registerParents(d.name.from, db'[d.name.from], CancelRetry(d.name))
      BY <1>0, <2>1, <2>3, <3>1 DEF AcceptLsa
    <3>3. QED
      BY <2>1, <2>2, <3>2, <1>a
  <2>4. CASE /\ armed' = CancelRetry(d.name)
             /\ UNCHANGED <<clock, interests, issued>>
    BY <1>0, <2>2, <2>4, <1>b DEF OnTheWire
  <2>5. QED
    BY <1>6, <2>3, <2>4 DEF ReceiveReply
<1>7. ASSUME NEW e \in armed, TimerUp(e)
      PROVE  Log' /\ [Membership!ANext]_(Membership!avars)
  BY <1>0, <1>7, <1>b DEF TimerUp, OnTheWire, treeVars, wireVars
<1>8. ASSUME NEW e \in firing, RetryCallback(e)
      PROVE  Log' /\ [Membership!ANext]_(Membership!avars)
  <2>1. e \in RetryTimer /\ e.pkt \in issued
    BY <1>0 DEF TypeOK, OnTheWire
  <2>2. [e EXCEPT !.count = @ + 1].pkt = e.pkt
    BY <2>1 DEF RetryTimer
  <2>3. /\ \A x \in armed' \cup firing' : x.pkt \in issued
        /\ interests' \subseteq issued
    BY <1>0, <1>8, <2>1, <2>2 DEF RetryCallback, OnTheWire
  <2>4. QED
    BY <1>8, <2>3, <1>b DEF RetryCallback, treeVars
<1>9. CASE UNCHANGED vars
  BY <1>0, <1>9, <1>b DEF vars, OnTheWire, treeVars, wireVars, timerVars
<1>10. QED
  BY <1>1, <1>2, <1>3, <1>4, <1>5, <1>6, <1>7, <1>8, <1>9 DEF Next

\* Registration implements TreeMembership: a parent's list moves only from one
\* request of a son to a later one of the same son.
THEOREM RegistrationRefines == Spec => MovesOn
<1>1. Init => Log /\ Membership!AInit
  <2> SUFFICES ASSUME Init PROVE Log /\ Membership!AInit
    OBVIOUS
  <2>1. TypeOK
    BY TypeInit
  <2>2. QED
    BY <2>1 DEF Init, Log, OnTheWire, Past, Membership!AInit
<1>2. Log /\ [Next]_vars => Log' /\ [Membership!ANext]_(Membership!avars)
  BY RefinesStep
<1>3. QED
  BY <1>1, <1>2, PTL DEF Spec, MovesOn, Membership!ASpec

-----------------------------------------------------------------------------
(***************************************************************************)
(* No version is missed.  Beside the log of requests the argument needs    *)
(* what a sequence number in a packet is worth: databases never go back,   *)
(* so its sender still holds that version or a newer one (Current).  A     *)
(* parent that registers a son either tells it of a newer version or has   *)
(* none, and one that gets a newer version tells every son but the router  *)
(* that sent it, which holds it.                                           *)
(***************************************************************************)
Current ==
  /\ \A q \in issued : q.seq <= db[q.from][q.root]
  /\ \A d \in replies : d.lsa # NoLsa => d.lsa.seq <= db[d.name.to][d.lsa.root]

VInv == Log /\ KnownGrows /\ Current /\ NoVersionMissed

\* What a pair needs that the invariant asks of it.
Told(p, s, root) ==
  s \in sons[p][root] /\ s \in KnownAtStart[p] /\ db[p][root] > db[s][root] =>
    [from |-> p, to |-> s, root |-> root, seq |-> db[p][root]] \in offered

\* Databases and announcements only grow.
Grows == /\ \A x \in Router, y \in Root : db[x][y] <= db'[x][y]
         /\ \A x \in Router : known[x] \subseteq known'[x]
         /\ offered \subseteq offered'

\* While the parent's database and list stay, so does what its sons were told.
LEMMA ToldStays ==
  ASSUME TypeOK, TypeOK', Grows, NEW p \in Router, NEW s \in Router, NEW root \in Root,
         Told(p, s, root), db'[p][root] = db[p][root],
         s \in sons'[p][root] => s \in sons[p][root]
  PROVE  Told(p, s, root)'
<1>1. db[p][root] \in Int /\ db[s][root] \in Int /\ db'[s][root] \in Int
  BY BoundAssumption DEF TypeOK, Seq0
<1>2. QED
  BY <1>1 DEF Told, Grows

\* A step without new requests, answers or versions.
LEMMA QuietVInv ==
  ASSUME VInv, Log', Grows, UNCHANGED <<db, issued>>, replies' \subseteq replies,
         \A x \in Router, y \in Root : sons'[x][y] \subseteq sons[x][y]
  PROVE  VInv'
<1>1. TypeOK /\ TypeOK'
  BY DEF VInv, Log
<1>2. KnownGrows' /\ Current'
  BY DEF VInv, KnownGrows, Current, Grows
<1>3. ASSUME NEW p \in Router, NEW s \in Router, NEW root \in Root PROVE Told(p, s, root)'
  <2>1. Told(p, s, root)
    BY DEF VInv, NoVersionMissed, Told
  <2>2. QED
    BY <1>1, <2>1, ToldStays
<1>4. QED
  BY <1>2, <1>3 DEF VInv, NoVersionMissed, Told

\* A newer version of root's LSA at r, announced to the sons, or to everybody
\* but q, who holds it.
LEMMA NewerVersion ==
  ASSUME VInv, Log', NEW r \in Router, NEW root \in Root, NEW seq \in 0 .. MaxSeq,
         db' = [db EXCEPT ![r][root] = seq], db[r][root] < seq,
         NEW timers \in SUBSET RetryTimer, registerParents(r, db'[r], timers),
         NEW new, offered' = offered \cup new,
         \/ new = sendInfoToChildren(r, root, seq)
         \/ \E q \in Router : /\ seq <= db[q][root]
                              /\ new = sendInfoToAll(r, q, root, seq),
         UNCHANGED <<known, sons>>, replies' \subseteq replies
  PROVE  VInv'
<1>1. /\ TypeOK /\ TypeOK' /\ db \in [Router -> [Root -> Seq0]]
      /\ db' \in [Router -> [Root -> Seq0]]
  BY DEF VInv, Log, TypeOK
<1>2. /\ seq \in Int
      /\ \A x \in Router, y \in Root : db[x][y] \in Int /\ db'[x][y] \in Int
  BY <1>1, BoundAssumption DEF Seq0
<1>3. /\ db'[r][root] = seq
      /\ \A x \in Router, y \in Root : <<x, y>> # <<r, root>> => db'[x][y] = db[x][y]
  BY <1>1
<1>4. Grows
  <2>1. ASSUME NEW x \in Router, NEW y \in Root PROVE db[x][y] <= db'[x][y]
    <3>1. db[x][y] \in Int
      BY <1>1, <1>2
    <3>2. CASE <<x, y>> = <<r, root>>
      BY <1>2, <1>3, <3>1, <3>2
    <3>3. CASE <<x, y>> # <<r, root>>
      BY <1>3, <3>1, <3>3
    <3>4. QED
      BY <3>2, <3>3
  <2>2. QED
    BY <2>1 DEF Grows
<1>5. PICK req \in SUBSET Request :
        /\ issued' = issued \cup req
        /\ \A q \in req : q.from = r /\ q.seq = db'[r][q.root]
  <2>1. db'[r] \in [Root -> Seq0]
    BY <1>1
  <2>2. registerParents(r, db'[r], timers)
    OBVIOUS
  <2>3. \E req \in SUBSET Request :
          /\ issued' = issued \cup req /\ interests' = interests \cup req
          /\ \A q \in req : /\ q.from = r /\ q.ts >= clock[r] /\ q.ts <= clock'[r]
                            /\ q.seq = db'[r][q.root] /\ q.to \in known[r]
          /\ clock'[r] >= clock[r]
          /\ \A e \in armed' : e \in timers \/ e.pkt \in req
    BY <1>1, <2>1, <2>2, RegisterParentsStep
  <2>4. QED
    BY <2>3
<1>6. KnownGrows'
  BY DEF VInv, KnownGrows
<1>7. Current'
  <2>1. ASSUME NEW q \in issued' PROVE q.seq <= db'[q.from][q.root]
    <3>1. q \in Request
      BY <1>1 DEF TypeOK
    <3>2. q.from \in Router /\ q.root \in Root /\ q.seq \in Seq0
      BY <3>1 DEF Request
    <3>3. q.seq \in Int
      BY <3>2, BoundAssumption DEF Seq0
    <3>4. CASE q \in issued
      BY <1>2, <1>4, <3>2, <3>3, <3>4 DEF VInv, Current, Grows
    <3>5. CASE q \in req
      BY <1>2, <1>5, <3>2, <3>3, <3>5
    <3>6. QED
      BY <1>5, <3>4, <3>5
  <2>2. ASSUME NEW d \in replies', d.lsa # NoLsa
        PROVE  d.lsa.seq <= db'[d.name.to][d.lsa.root]
    <3>1. d \in replies /\ d \in Reply
      BY <1>1 DEF TypeOK
    <3>2. d.lsa \in Lsa /\ d.name \in Name
      BY <2>2, <3>1 DEF Reply
    <3>3. d.name.to \in Router /\ d.lsa.root \in Root /\ d.lsa.seq \in Int
      BY <3>2 DEF Lsa, Name
    <3>4. d.lsa.seq <= db[d.name.to][d.lsa.root]
      BY <2>2, <3>1 DEF VInv, Current
    <3>5. /\ db[d.name.to][d.lsa.root] \in Int /\ db'[d.name.to][d.lsa.root] \in Int
          /\ db[d.name.to][d.lsa.root] <= db'[d.name.to][d.lsa.root]
      BY <1>1, <1>2, <1>4, <3>3 DEF Grows
    <3>6. QED
      BY <3>3, <3>4, <3>5
  <2>3. QED
    BY <2>1, <2>2 DEF Current
<1>8. ASSUME NEW p \in Router, NEW s \in Router, NEW y \in Root PROVE Told(p, s, y)'
  <2>1. Told(p, s, y)
    BY DEF VInv, NoVersionMissed, Told
  <2>2. CASE <<p, y>> # <<r, root>>
    BY <1>1, <1>3, <1>4, <2>1, <2>2, ToldStays
  <2>3. CASE p = r /\ y = root
    <3> SUFFICES ASSUME s \in sons[r][root], s \in KnownAtStart[r], seq > db'[s][root]
                 PROVE  [from |-> r, to |-> s, root |-> root, seq |-> seq] \in new
      BY <1>3, <2>3 DEF Told
    <3>1. s \in known[r] /\ s \in Adjacent[r]
      BY RouterAssumption DEF VInv, KnownGrows
    <3>2. ASSUME NEW q \in Router, seq <= db[q][root] PROVE s # q
      <4>1. db[q][root] \in Int /\ db'[q][root] \in Int /\ db[q][root] <= db'[q][root]
        BY <1>1, <1>2, <1>4 DEF Grows
      <4>2. QED
        BY <1>2, <3>2, <4>1
    <3>3. QED
      BY <3>1, <3>2 DEF sendInfoToChildren, sendInfoToAll
  <2>4. QED
    BY <2>2, <2>3
<1>9. QED
  BY <1>6, <1>7, <1>8 DEF VInv, NoVersionMissed, Told

\* An LSA accepted from a router that holds it.
LEMMA AcceptedVInv ==
  ASSUME VInv, Log', NEW r \in Router, NEW q \in Router, NEW root \in Root,
         NEW seq \in 0 .. MaxSeq, seq <= db[q][root],
         NEW timers \in SUBSET RetryTimer, AcceptLsa(r, q, root, seq, timers),
         UNCHANGED <<known, sons>>, replies' \subseteq replies
  PROVE  VInv'
<1> DEFINE new == IF db[r][root] = -1 THEN sendInfoToAll(r, q, root, seq)
                                      ELSE sendInfoToChildren(r, root, seq)
<1>1. /\ db' = [db EXCEPT ![r][root] = seq] /\ db[r][root] < seq
      /\ registerParents(r, db'[r], timers)
      /\ offered' = offered \cup new
  BY DEF AcceptLsa
<1>2. \/ new = sendInfoToChildren(r, root, seq)
      \/ \E x \in Router : seq <= db[x][root] /\ new = sendInfoToAll(r, x, root, seq)
  OBVIOUS
<1> HIDE DEF new
<1>3. QED
  BY <1>1, <1>2, NewerVersion

LEMMA VInvStep == VInv /\ [Next]_vars => VInv'
<1> SUFFICES ASSUME VInv, [Next]_vars PROVE VInv'
  OBVIOUS
<1>0. /\ TypeOK /\ TypeOK' /\ Log' /\ db \in [Router -> [Root -> Seq0]]
      /\ Seq0 \subseteq Int
  BY RefinesStep, TypeStep, BoundAssumption DEF VInv, Log, TypeOK, Seq0
<1>a. ASSUME UNCHANGED <<db, issued>>, replies' \subseteq replies, offered \subseteq offered',
             \A x \in Router : known[x] \subseteq known'[x],
             \A x \in Router, y \in Root : sons'[x][y] \subseteq sons[x][y]
      PROVE  VInv'
  <2>1. Grows
    <3>1. \A x \in Router, y \in Root : db[x][y] \in Int /\ db'[x][y] = db[x][y]
      BY <1>0, <1>a
    <3>2. QED
      BY <3>1, <1>a DEF Grows
  <2>2. QED
    BY <1>0, <1>a, <2>1, QuietVInv
<1>1. ASSUME NEW r \in Router, NEW q \in Router, Hear(r, q) PROVE VInv'
  <2>1. \A x \in Router : known[x] \subseteq known'[x]
    BY <1>0, <1>1 DEF Hear, TypeOK
  <2>2. QED
    BY <1>1, <2>1, <1>a DEF Hear, treeVars, wireVars
<1>2. ASSUME NEW r \in Router, TriggerNewLsa(r) PROVE VInv'
  <2>1. r \in Root /\ db[r][r] \in Seq0 /\ db[r][r] < MaxSeq
    BY <1>0, <1>2 DEF TriggerNewLsa
  <2>2. db[r][r] + 1 \in 0 .. MaxSeq /\ db[r][r] < db[r][r] + 1
    BY <2>1, BoundAssumption DEF Seq0
  <2>3. /\ db' = [db EXCEPT ![r][r] = db[r][r] + 1]
        /\ registerParents(r, db'[r], armed)
        /\ offered' = offered \cup sendInfoToChildren(r, r, db[r][r] + 1)
        /\ UNCHANGED <<known, sons>> /\ replies' \subseteq replies
    BY <1>0, <1>2 DEF TriggerNewLsa
  <2>4. armed \in SUBSET RetryTimer
    BY <1>0 DEF TypeOK
  <2>5. QED
    BY <1>0, <2>1, <2>2, <2>3, <2>4, NewerVersion
<1>3. ASSUME NEW r \in Router, NEW q \in Router, NEW root \in Root, ReceiveLsa(r, q, root)
      PROVE  VInv'
  <2>1. PICK seq \in 0 .. db[q][root] :
          \/ AcceptLsa(r, q, root, seq, armed)
          \/ /\ offered' = offered \cup sendInfoToChildren(r, root, seq)
             /\ UNCHANGED <<db, issued>>
    BY <1>3 DEF ReceiveLsa
  <2>2. UNCHANGED <<known, sons, replies>>
    BY <1>3 DEF ReceiveLsa
  <2>3. seq \in 0 .. MaxSeq /\ seq <= db[q][root] /\ armed \in SUBSET RetryTimer
    BY <1>0, BoundAssumption DEF Seq0, TypeOK
  <2>4. QED
    BY <1>0, <1>a, <2>1, <2>2, <2>3, AcceptedVInv
<1>4. ASSUME NEW m \in interests, ReceiveRegister(m) PROVE VInv'
  <2>1. m \in Request /\ m \in issued
    BY <1>0 DEF TypeOK, VInv, Log, OnTheWire
  <2>2. /\ m.from \in Router /\ m.to \in Router /\ m.root \in Root /\ m.seq \in Seq0
        /\ db[m.to][m.root] \in Seq0 /\ db[m.from][m.root] \in Seq0
    BY <1>0, <2>1 DEF Request
  <2>3. m.seq <= db[m.from][m.root]
    BY <2>1 DEF VInv, Current
  <2>4. UNCHANGED <<known, db, issued>>
    BY <1>4 DEF ReceiveRegister
  <2>5. PICK lsa : /\ \/ lsa = NoLsa
                      \/ lsa = [root |-> m.root, seq |-> db[m.to][m.root]]
                   /\ replies' = replies \cup {[name |-> NameOf(m), lsa |-> lsa]}
                   /\ offered' = offered \cup
                        {[from |-> m.to, to |-> m.from, root |-> l.root, seq |-> l.seq] :
                           l \in {lsa} \ {NoLsa}}
                   /\ \/ UNCHANGED sons
                      \/ /\ sons' = [sons EXCEPT ![m.to][m.root] = @ \cup {m.from}]
                         /\ db[m.to][m.root] > m.seq =>
                              lsa = [root |-> m.root, seq |-> db[m.to][m.root]]
    BY <1>4 DEF ReceiveRegister
  <2>6. Grows
    BY <1>0, <2>4, <2>5 DEF Grows
  <2>7. KnownGrows'
    BY <2>4 DEF VInv, KnownGrows
  <2>8. Current'
    <3>1. NameOf(m).to = m.to
      BY DEF NameOf
    <3>2. QED
      BY <1>0, <2>2, <2>4, <2>5, <3>1 DEF VInv, Current
  <2>9. ASSUME NEW p \in Router, NEW s \in Router, NEW root \in Root PROVE Told(p, s, root)'
    <3>1. Told(p, s, root)
      BY DEF VInv, NoVersionMissed, Told
    <3>2. CASE s \in sons'[p][root] => s \in sons[p][root]
      BY <1>0, <2>4, <2>6, <3>1, <3>2, ToldStays
    <3>3. CASE s \in sons'[p][root] /\ s \notin sons[p][root]
      <4>1. /\ sons' = [sons EXCEPT ![m.to][m.root] = @ \cup {m.from}]
            /\ db[m.to][m.root] > m.seq =>
                 lsa = [root |-> m.root, seq |-> db[m.to][m.root]]
        BY <2>5, <3>3
      <4>2. sons \in [Router -> [Root -> SUBSET Router]]
        BY <1>0 DEF TypeOK
      <4>3. p = m.to /\ root = m.root /\ s = m.from
        BY <2>2, <3>3, <4>1, <4>2
      <4>4. CASE db[p][root] > m.seq
        <5>1. lsa \in Lsa /\ lsa.root = root /\ lsa.seq = db[p][root]
          BY <1>0, <2>2, <4>1, <4>3, <4>4, BoundAssumption DEF Lsa, Seq0
        <5>2. lsa # NoLsa
          BY <5>1, NoLsaAssumption
        <5>3. [from |-> p, to |-> s, root |-> root, seq |-> db[p][root]] \in offered'
          BY <2>5, <4>3, <5>1, <5>2
        <5>4. QED
          BY <2>4, <5>3 DEF Told
      <4>5. CASE ~(db[p][root] > m.seq)
        <5>1. db'[p][root] = db[m.to][m.root] /\ db'[s][root] = db[m.from][m.root]
          BY <2>4, <4>3
        <5>2. ~(db[m.to][m.root] > db[m.from][m.root])
          <6>1. /\ db[m.to][m.root] \in Int /\ db[m.from][m.root] \in Int
                /\ m.seq \in Int
            BY <1>0, <2>2
          <6>2. QED
            BY <2>3, <4>3, <4>5, <6>1
        <5>3. QED
          BY <5>1, <5>2 DEF Told
      <4>6. QED
        BY <4>4, <4>5
    <3>4. QED
      BY <3>2, <3>3
  <2>10. QED
    BY <1>0, <2>7, <2>8, <2>9 DEF VInv, NoVersionMissed, Told
<1>5. ASSUME NEW m \in interests, ReceiveDeregister(m) PROVE VInv'
  <2>1. m \in Request
    BY <1>0 DEF TypeOK
  <2>2. m.to \in Router /\ m.root \in Root /\ sons \in [Router -> [Root -> SUBSET Router]]
    BY <1>0, <2>1 DEF Request, TypeOK
  <2>3. \/ UNCHANGED sons
        \/ sons' = [sons EXCEPT ![m.to][m.root] = @ \ {m.from}]
    BY <1>5 DEF ReceiveDeregister
  <2>4. \A x \in Router, y \in Root : sons'[x][y] \subseteq sons[x][y]
    BY <2>2, <2>3
  <2>5. UNCHANGED <<known, db, issued, offered>>
    BY <1>5 DEF ReceiveDeregister
  <2>6. replies' = replies \cup {[name |-> NameOf(m), lsa |-> NoLsa]}
    BY <1>5 DEF ReceiveDeregister
  <2>7. Grows /\ KnownGrows' /\ Current'
    <3>1. \A x \in Router, y \in Root : db[x][y] \in Int
      BY <1>0
    <3>2. KnownGrows' /\ Current'
      BY <2>5, <2>6 DEF VInv, KnownGrows, Current
    <3>3. QED
      BY <2>5, <3>1, <3>2 DEF Grows
  <2>8. ASSUME NEW p \in Router, NEW s \in Router, NEW root \in Root PROVE Told(p, s, root)'
    <3>1. Told(p, s, root)
      BY DEF VInv, NoVersionMissed, Told
    <3>2. QED
      BY <1>0, <2>4, <2>5, <2>7, <3>1, ToldStays
  <2>9. QED
    BY <1>0, <2>7, <2>8 DEF VInv, NoVersionMissed, Told
<1>6. ASSUME NEW d \in replies, ReceiveReply(d) PROVE VInv'
  <2>1. d \in Reply /\ d.name.from \in Router /\ d.name.to \in Router
    BY <1>0 DEF TypeOK, Reply, Name
  <2>2. UNCHANGED <<known, sons>> /\ replies' \subseteq replies
    BY <1>6 DEF ReceiveReply
  <2>3. CASE /\ d.lsa # NoLsa
             /\ AcceptLsa(d.name.from, d.name.to, d.lsa.root, d.lsa.seq, CancelRetry(d.name))
    <3>1. d.lsa.root \in Root /\ d.lsa.seq \in 0 .. MaxSeq
      BY <2>1, <2>3 DEF Reply, Lsa
    <3>2. d.lsa.seq <= db[d.name.to][d.lsa.root]
      BY <2>3 DEF VInv, Current
    <3>3. CancelRetry(d.name) \in SUBSET RetryTimer
      BY <1>0 DEF CancelRetry, TypeOK
    <3>4. QED
      BY <1>0, <2>1, <2>2, <2>3, <3>1, <3>2, <3>3, AcceptedVInv
  <2>4. CASE UNCHANGED <<db, offered, issued>>
    BY <1>a, <2>2, <2>4
  <2>5. QED
    BY <1>6, <2>3, <2>4 DEF ReceiveReply
<1>7. ASSUME NEW e \in armed, TimerUp(e) PROVE VInv'
  BY <1>7, <1>a DEF TimerUp, treeVars, wireVars
<1>8. ASSUME NEW e \in firing, RetryCallback(e) PROVE VInv'
  BY <1>8, <1>a DEF RetryCallback, treeVars
<1>9. CASE UNCHANGED vars
  BY <1>9, <1>a DEF vars, treeVars, wireVars, timerVars
<1>10. QED
  BY <1>1, <1>2, <1>3, <1>4, <1>5, <1>6, <1>7, <1>8, <1>9 DEF Next

\* A parent that holds a newer LSA of the root than its son has told the son:
\* for any topology, any retransmissions and any order of packets.
THEOREM VersionsAnnounced == Spec => []NoVersionMissed
<1>1. Init => VInv
  <2> SUFFICES ASSUME Init PROVE VInv
    OBVIOUS
  <2>1. TypeOK
    BY TypeInit
  <2>2. \A p \in Router, root \in Root : sons[p][root] = {}
    BY DEF Init
  <2>3. QED
    BY <2>1, <2>2
    DEF Init, VInv, Log, OnTheWire, Past, KnownGrows, Current, NoVersionMissed
<1>2. VInv /\ [Next]_vars => VInv'
  BY VInvStep
<1>3. VInv => NoVersionMissed
  BY DEF VInv
<1>4. QED
  BY <1>1, <1>2, <1>3, PTL DEF Spec
=============================================================================
