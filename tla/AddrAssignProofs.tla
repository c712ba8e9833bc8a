-------------------------- MODULE AddrAssignProofs --------------------------
(***************************************************************************)
(* Theorems about AddrAssign, for every network of two-ended links, every  *)
(* set of roots and pools and every choice and number of timing faults:    *)
(* the types, that only leaders serve, that addresses are unique, that a   *)
(* contested block is given up by one of its holders, that both ends of a  *)
(* link are in one block, and that chains end up equally long.             *)
(***************************************************************************)
EXTENDS AddrAssign, TLAPS

Block == [by : Root, records : SUBSET Nat]

\* TypeOK with the types of the chains.
TypeInv ==
    /\ TypeOK
    /\ chain \in [Router -> Seq(Block)] /\ estimated \in [Root -> Seq(Block)]
    /\ chainMsg \subseteq [chain : Seq(Block), to : Router]

\* One of the two ends of j's link has ended its wait for the router of j.
Named(j) == phase[j] = "LEADER" \/ phase[Peer[j]] = "NORMAL"

\* The election: a leader field names an end somebody chose, the larger id
\* follows only a peer that is LEADER, and a wait that heard the peer makes
\* only the larger id a leader.
Elected ==
    \A i \in Interface :
        /\ leader[i] \in {0, Owner[i], Owner[Peer[i]]}
        /\ leader[i] = Owner[i] => Named(i)
        /\ leader[i] = Owner[Peer[i]] => Named(Peer[i])
        /\ phase[i] = "NORMAL" /\ Owner[i] > Owner[Peer[i]]
             => phase[Peer[i]] = "LEADER"
        /\ disturbed = 0 /\ phase[i] = "LEADER" => Owner[i] > Owner[Peer[i]]

\* Addresses: a leader has the first address of its block or gave it up, the
\* other end has the second address of its peer's block or gave it up.
NumberedAt(i) ==
    /\ addrBlock[i] = NoBlock =>
         /\ nextAddr[i] = Unset /\ assignment[i] = Unset
         /\ phase[i] # "NORMAL" => addr[i] = Unset
    /\ addrBlock[i] # NoBlock =>
         /\ phase[i] = "LEADER"
         /\ addr[i] \in {[block |-> addrBlock[i], host |-> 0], Fallback}
         /\ assignment[i] \in {Unset, [block |-> addrBlock[i], host |-> 1]}
         /\ assignment[i] = Unset => nextAddr[i] = [block |-> addrBlock[i], host |-> 1]
    /\ localData[i] # Unset =>
         /\ phase[i] = "NORMAL" /\ addrBlock[Peer[i]] # NoBlock
         /\ localData[i] = [block |-> addrBlock[Peer[i]], host |-> 1]
    /\ phase[i] = "NORMAL" /\ addr[i] \notin {Unset, Fallback} =>
         /\ addrBlock[Peer[i]] # NoBlock
         /\ addr[i] = [block |-> addrBlock[Peer[i]], host |-> 1]
    /\ pending[i] => phase[i] = "LEADER"

Numbered == \A i \in Interface : NumberedAt(i)

Given(r, b) == b \in start[r] .. (ptr[r] - 1)

\* Blocks: what is on offer or taken was given by a root, and what is on offer
\* or taken twice was given by two.
Allotted ==
    /\ \A r \in Root : start[r] =< ptr[r]
    /\ \A o \in offer : Given(o.giver, o.block)
    /\ \A o, p \in offer : o # p /\ o.block = p.block => Contested(o.block)
    /\ \A o \in offer, i \in Interface : addrBlock[i] = o.block => Contested(o.block)
    /\ \A i, j \in Interface :
         i # j /\ addrBlock[i] # NoBlock /\ addrBlock[i] = addrBlock[j]
            => Contested(addrBlock[i])
    /\ \A i \in Interface :
         addrBlock[i] # NoBlock => \E r \in Root : Given(r, addrBlock[i])

\* Of two leaders that both keep a block one has a confirmation of it to receive.
Warned ==
    \A i, j \in Interface :
        /\ Owner[i] # Owner[j] /\ addrBlock[i] # NoBlock
        /\ addrBlock[i] = addrBlock[j]
        /\ addr[i].block = addrBlock[i] /\ addr[j].block = addrBlock[j]
        => \E m \in conf : m.block = addrBlock[i] /\ m.to \in {Owner[i], Owner[j]}

\* A router whose chain is shorter than a chain or a chain message has one as
\* long on its way.
Catching ==
    /\ \A m \in chainMsg : Len(m.chain) > Len(chain[m.to])
    /\ \A r, s \in Router : Len(chain[r]) < Len(chain[s]) =>
         \E m \in chainMsg : m.to = r /\ Len(m.chain) >= Len(chain[s])
    /\ \A r \in Router, n \in chainMsg : Len(chain[r]) < Len(n.chain) =>
         \E m \in chainMsg : m.to = r /\ Len(m.chain) >= Len(n.chain)

IInv == TypeInv /\ Elected /\ Numbered /\ Allotted /\ Warned /\ Catching

-----------------------------------------------------------------------------
LEMMA Links ==
    ASSUME NEW i \in Interface
    PROVE  /\ Peer[i] \in Interface /\ Peer[Peer[i]] = i /\ Peer[i] # i
           /\ Owner[i] \in Nat \ {0} /\ Owner[Peer[i]] \in Nat \ {0}
           /\ Owner[i] \in Router /\ Owner[Peer[i]] \in Router
           /\ Owner[i] # Owner[Peer[i]]
BY RouterAssumption, LinkAssumption

\* The larger of two ids is one of them.
LEMMA Larger == \A a, b \in Nat : Max2(a, b) \in {a, b} /\ Max2(a, b) >= a /\ Max2(a, b) >= b
BY DEF Max2

\* The two ends of a link do not both follow.
LEMMA OneFollows ==
    ASSUME Elected, NEW i \in Interface, phase[i] = "NORMAL"
    PROVE  phase[Peer[i]] # "NORMAL"
<1> DEFINE p == Peer[i]
<1>1. p \in Interface /\ Peer[p] = i /\ Owner[i] \in Nat /\ Owner[p] \in Nat
      /\ Owner[i] # Owner[p]
  BY Links
<1>2. CASE Owner[i] > Owner[p]
  BY <1>1, <1>2 DEF Elected
<1>3. CASE Owner[p] > Owner[i]
  BY <1>1, <1>3 DEF Elected
<1>. QED
  BY <1>1, <1>2, <1>3

\* An interface that answers local requests won its election.
LEMMA ServingLeads ==
    ASSUME TypeInv, Elected, Numbered, NEW i \in Interface, Serves(i)
    PROVE  phase[i] = "LEADER" /\ addrBlock[i] # NoBlock
<1>1. phase[i] # "WAITING"
  BY DEF Serves, Numbered, NumberedAt, TypeInv, TypeOK
<1>2. phase[i] # "NORMAL"
  BY OneFollows DEF Serves, Elected, Named
<1>. QED
  BY <1>1, <1>2 DEF Serves, Numbered, NumberedAt, TypeInv, TypeOK

\* The initial state.
LEMMA InitOK == ASSUME Init PROVE IInv
<1>1. TypeInv
  BY RouterAssumption, LinkAssumption, PoolAssumption
  DEF Init, TypeInv, TypeOK, Held, Unset, NoBlock
<1>2. Elected
  BY Links DEF Init, Elected
<1>3. Numbered
  BY DEF Init, Numbered, NumberedAt, Unset
<1>4. Allotted
  BY PoolAssumption DEF Init, Allotted, NoBlock
<1>5. Warned
  BY DEF Init, Warned, NoBlock
<1>6. Catching
  BY DEF Init, Catching
<1>. QED
  BY <1>1, <1>2, <1>3, <1>4, <1>5, <1>6 DEF IInv
-----------------------------------------------------------------------------
(* The types.                                                              *)

LEMMA ConfTypes ==
    ASSUME NEW r \in Router, NEW b \in Nat, NEW giver \in SUBSET (Root \cup {0})
    PROVE  [block : {b}, giver : giver, to : Others(r)]
             \subseteq [block : Nat, giver : Root \cup {0}, to : Router]
BY DEF Others

LEMMA ChainTypes ==
    ASSUME NEW r \in Router, NEW c \in Seq(Block)
    PROVE  [chain : {c}, to : Others(r)] \subseteq [chain : Seq(Block), to : Router]
BY DEF Others

LEMMA RecordsInNat ==
    ASSUME NEW c \in Seq(Block)
    PROVE  UNION {c[k].records : k \in 1 .. Len(c)} \subseteq Nat
<1>1. \A k \in 1 .. Len(c) : c[k] \in Block
  OBVIOUS
<1>2. \A k \in 1 .. Len(c) : c[k].records \in SUBSET Nat
  BY <1>1 DEF Block
<1>. QED
  BY <1>2

LEMMA LeadersInNat ==
    ASSUME TypeInv, NEW i \in Interface
    PROVE  leader[i] \in Nat
<1>1. leader \in [Interface -> Router \cup {0}]
  BY DEF TypeInv, TypeOK
<1>2. leader[i] \in Router \/ leader[i] = 0
  BY <1>1
<1>3. \A r \in Router : r \in Nat
  BY RouterAssumption
<1>. QED
  BY <1>2, <1>3

LEMMA TypeStep ==
    ASSUME IInv, Next
    PROVE  TypeInv'
<1> USE RouterAssumption, LinkAssumption DEF TypeInv, TypeOK
<1>0. TypeInv /\ Elected /\ Numbered
  BY DEF IInv
<1> USE DEF electVars, addrVars, reqVars, rootVars, confVars, chainVars
<1>1. ASSUME NEW i \in Interface, Hello(i) PROVE TypeInv'
  <2>1. Peer[i] \in Interface /\ leader[i] \in Nat /\ leader[Peer[i]] \in Nat
    BY <1>0, Links, LeadersInNat
  <2>2. Max2(leader[Peer[i]], leader[i]) \in Router \cup {0}
    BY <1>0, <2>1, Larger
  <2>3. /\ heard' \in [Interface -> BOOLEAN] /\ leader' \in [Interface -> Router \cup {0}]
        /\ UNCHANGED <<phase, addrVars, localData, reqVars, rootVars, confVars, chainVars, disturbed>>
    BY <1>0, <1>1, <2>1, <2>2 DEF Hello
  <2>. QED
    BY <1>0, <2>3
<1>2. ASSUME NEW i \in Interface, IdleHello(i) \/ IdleRequest(i) PROVE TypeInv'
  <2>1. UNCHANGED vars
    BY <1>2 DEF IdleHello, IdleRequest
  <2>. QED
    BY <1>0, <2>1 DEF vars
<1>3. ASSUME NEW i \in Interface, NEW b \in Nat, TakeBlock(i, b)
      PROVE  /\ addr' \in [Interface -> Held]
             /\ addrBlock' \in [Interface -> Nat \cup {NoBlock}]
             /\ nextAddr' \in [Interface -> Address \cup {Unset}]
             /\ assignment' \in [Interface -> Address \cup {Unset}]
  <2>1. [block |-> b, host |-> 0] \in Address /\ [block |-> b, host |-> 1] \in Address
    BY DEF Address
  <2>. QED
    BY <1>0, <1>3, <2>1 DEF TakeBlock, Held
<1>4. ASSUME NEW i \in Interface, NEW state \in {"LEADER", "NORMAL"}, EndWait(i, state)
      PROVE  /\ phase' \in [Interface -> {"WAITING", "LEADER", "NORMAL"}]
             /\ leader' \in [Interface -> Router \cup {0}]
             /\ heard' \in [Interface -> BOOLEAN]
             /\ disturbed' \in 0 .. MaxDisturb
  <2>1. calculateLeader(i) \in Router
    BY Links, Larger DEF calculateLeader
  <2>2. disturbed' \in 0 .. MaxDisturb
    BY <1>0, <1>4, PoolAssumption DEF EndWait, OnTime, Disturb
  <2>. QED
    BY <1>0, <1>4, <2>1, <2>2 DEF EndWait
<1>5. ASSUME NEW r \in Router, NEW b \in Nat, NEW giver \in SUBSET (Root \cup {0}), Confirm(r, b, giver)
      PROVE  conf' \subseteq [block : Nat, giver : Root \cup {0}, to : Router]
  BY <1>0, <1>5, ConfTypes DEF Confirm
<1>6. ASSUME NEW i \in Interface, BecomeRootLeader(i) PROVE TypeInv'
  <2> DEFINE r == Owner[i]
  <2>1. r \in Root /\ r \in Router /\ ptr[r] \in Nat
    BY <1>0, <1>6, Links DEF BecomeRootLeader, IsRoot
  <2>2. TakeBlock(i, ptr[r]) /\ EndWait(i, "LEADER") /\ Confirm(r, ptr[r], {0})
    BY <1>6 DEF BecomeRootLeader
  <2>3. /\ phase' \in [Interface -> {"WAITING", "LEADER", "NORMAL"}]
        /\ leader' \in [Interface -> Router \cup {0}]
        /\ heard' \in [Interface -> BOOLEAN]
        /\ disturbed' \in 0 .. MaxDisturb
    BY <1>4, <2>2
  <2>4. /\ addr' \in [Interface -> Held]
        /\ addrBlock' \in [Interface -> Nat \cup {NoBlock}]
        /\ nextAddr' \in [Interface -> Address \cup {Unset}]
        /\ assignment' \in [Interface -> Address \cup {Unset}]
    BY <1>3, <2>1, <2>2
  <2>5. conf' \subseteq [block : Nat, giver : Root \cup {0}, to : Router]
    BY <1>5, <2>1, <2>2
  <2>6. /\ ptr' \in [Root -> Nat] /\ blockBuffer' \in [Root -> SUBSET Nat]
    <3>1. /\ ptr' = [ptr EXCEPT ![r] = ptr[r] + 1]
          /\ blockBuffer' = [blockBuffer EXCEPT ![r] = @ \cup {ptr[r]}]
      BY <1>6 DEF BecomeRootLeader
    <3>2. ptr \in [Root -> Nat] /\ ptr[r] + 1 \in Nat /\ {ptr[r]} \subseteq Nat
      BY <1>0, <2>1
    <3>3. ptr' \in [Root -> Nat]
      BY <3>1, <3>2
    <3>4. blockBuffer' \in [Root -> SUBSET Nat]
      BY <1>0, <3>1, <3>2
    <3>. QED
      BY <3>3, <3>4
  <2>. QED
    BY <1>0, <1>6, <2>3, <2>4, <2>5, <2>6 DEF BecomeRootLeader
<1>7. ASSUME NEW i \in Interface, BecomeLeader(i) PROVE TypeInv'
  <2>1. EndWait(i, "LEADER")
    BY <1>7 DEF BecomeLeader
  <2>2. /\ phase' \in [Interface -> {"WAITING", "LEADER", "NORMAL"}]
        /\ leader' \in [Interface -> Router \cup {0}]
        /\ heard' \in [Interface -> BOOLEAN]
        /\ disturbed' \in 0 .. MaxDisturb
    BY <1>4, <2>1
  <2>. QED
    BY <1>0, <1>7, <2>2 DEF BecomeLeader
<1>8. ASSUME NEW i \in Interface, BecomeNormal(i) PROVE TypeInv'
  <2>1. EndWait(i, "NORMAL")
    BY <1>8 DEF BecomeNormal
  <2>2. /\ phase' \in [Interface -> {"WAITING", "LEADER", "NORMAL"}]
        /\ leader' \in [Interface -> Router \cup {0}]
        /\ heard' \in [Interface -> BOOLEAN]
        /\ disturbed' \in 0 .. MaxDisturb
    BY <1>4, <2>1
  <2>. QED
    BY <1>0, <1>8, <2>2 DEF BecomeNormal
<1>9. ASSUME NEW i \in Interface, NEW r \in Root, AnswerBroadcast(i, r) PROVE TypeInv'
  <2>1. ptr[r] \in Nat /\ [to |-> i, block |-> ptr[r], giver |-> r] \in [to : Interface, block : Nat, giver : Root]
    BY <1>0
  <2>2. offer' \subseteq [to : Interface, block : Nat, giver : Root]
    BY <1>0, <1>9, <2>1 DEF AnswerBroadcast
  <2>3. /\ ptr' \in [Root -> Nat] /\ rootAssignment' \in [Root -> SUBSET Nat]
        /\ expire' \in [Root -> SUBSET Nat]
    BY <1>0, <1>9, <2>1 DEF AnswerBroadcast
  <2>. QED
    BY <1>0, <1>9, <2>2, <2>3 DEF AnswerBroadcast
<1>10. ASSUME NEW o \in offer, ReceiveOffer(o) PROVE TypeInv'
  <2> DEFINE i == o.to
  <2>1. i \in Interface /\ o.block \in Nat /\ o.giver \in Root /\ Owner[i] \in Router
    BY <1>0, Links
  <2>2. /\ offer' \subseteq offer /\ pending' \in [Interface -> BOOLEAN]
        /\ UNCHANGED <<electVars, localData, req, rootVars, known, chainVars, disturbed>>
    BY <1>0, <1>10 DEF ReceiveOffer
  <2>3. CASE TakeBlock(i, o.block) /\ Confirm(Owner[i], o.block, {o.giver})
    <3>1. /\ addr' \in [Interface -> Held]
          /\ addrBlock' \in [Interface -> Nat \cup {NoBlock}]
          /\ nextAddr' \in [Interface -> Address \cup {Unset}]
          /\ assignment' \in [Interface -> Address \cup {Unset}]
      BY <1>3, <2>1, <2>3
    <3>2. conf' \subseteq [block : Nat, giver : Root \cup {0}, to : Router]
      <4>1. {o.giver} \in SUBSET (Root \cup {0})
        BY <2>1
      <4>. QED
        BY <1>5, <2>1, <2>3, <4>1
    <3>. QED
      BY <1>0, <2>2, <3>1, <3>2
  <2>4. CASE UNCHANGED <<addrVars, conf>>
    BY <1>0, <2>2, <2>4
  <2>. QED
    BY <1>10, <2>3, <2>4 DEF ReceiveOffer
<1>11. ASSUME NEW i \in Interface, ExpirePit(i) PROVE TypeInv'
  <2>1. disturbed' \in 0 .. MaxDisturb
    BY <1>0, <1>11, PoolAssumption DEF ExpirePit, Disturb
  <2>2. /\ pending' \in [Interface -> BOOLEAN]
        /\ UNCHANGED <<electVars, addrVars, localData, req, offer, rootVars, confVars, chainVars>>
    BY <1>0, <1>11 DEF ExpirePit
  <2>. QED
    BY <1>0, <2>1, <2>2
<1>12. ASSUME NEW r \in Root, NEW b \in expire[r], RevokeAssignment(r, b) PROVE TypeInv'
  <2>1. disturbed' \in 0 .. MaxDisturb
    BY <1>0, <1>12, PoolAssumption DEF RevokeAssignment, OnTime, Disturb
  <2>. QED
    BY <1>0, <1>12, <2>1 DEF RevokeAssignment
<1>13. ASSUME NEW m \in conf, ReceiveConf(m) PROVE TypeInv'
  <2>1. m.to \in Router /\ m.block \in Nat
    BY <1>0
  <2>2. addr' \in [Interface -> Held]
    BY <1>0, <1>13 DEF ReceiveConf, Held
  <2>3. expire' \in [Root -> SUBSET Nat] /\ blockBuffer' \in [Root -> SUBSET Nat]
    <3>1. CASE UNCHANGED <<expire, blockBuffer>>
      BY <1>0, <3>1
    <3>2. CASE /\ expire' = [expire EXCEPT ![m.to] = @ \ {m.block}]
               /\ blockBuffer' = [blockBuffer EXCEPT ![m.to] = @ \cup {m.block}]
      BY <1>0, <2>1, <3>2
    <3>. QED
      BY <1>13, <3>1, <3>2 DEF ReceiveConf
  <2>4. known' \in [Router -> SUBSET Nat]
    BY <1>0, <1>13, <2>1 DEF ReceiveConf
  <2>. QED
    BY <1>0, <1>13, <2>2, <2>3, <2>4 DEF ReceiveConf
<1>14. ASSUME NEW i \in Interface, LocalRequest(i) PROVE TypeInv'
  <2> DEFINE p == Peer[i]
             gift == IF assignment[p] # Unset THEN assignment[p] ELSE nextAddr[p]
  <2>1. p \in Interface /\ addrBlock[p] # NoBlock
    BY <1>0, <1>14, Links, ServingLeads DEF LocalRequest
  <2>2. gift \in Address /\ (assignment[p] = Unset => Following(nextAddr[p]) \in Address)
    BY <1>0, <2>1 DEF Numbered, NumberedAt, Address, Following, Unset, NoBlock
  <2>3. /\ localData' = [localData EXCEPT ![i] = gift]
        /\ assignment' = [assignment EXCEPT ![p] = gift]
    BY <1>14 DEF LocalRequest
  <2>4. nextAddr' \in [Interface -> Address \cup {Unset}]
    BY <1>0, <1>14, <2>1, <2>2 DEF LocalRequest
  <2>. QED
    BY <1>0, <1>14, <2>2, <2>3, <2>4 DEF LocalRequest
<1>15. ASSUME NEW i \in Interface, ReceiveLocal(i) PROVE TypeInv'
  <2>1. addr' \in [Interface -> Held] /\ localData' \in [Interface -> Address \cup {Unset}]
    BY <1>0, <1>15 DEF ReceiveLocal, Held
  <2>. QED
    BY <1>0, <1>15, <2>1 DEF ReceiveLocal
<1>16. ASSUME NEW r \in Root, GenerateBlock(r) PROVE TypeInv'
  <2> DEFINE flushed == SubSeq(chain[r], 1, Len(estimated[r])) # estimated[r]
             again == IF flushed THEN prevBuffer[r] ELSE {}
             made == [by |-> r, records |-> blockBuffer[r] \cup again]
  <2>1. made \in Block /\ r \in Router /\ chain[r] \in Seq(Block)
    BY <1>0 DEF Block
  <2>2. Append(chain[r], made) \in Seq(Block)
    BY <2>1
  <2>3. /\ chain' = [chain EXCEPT ![r] = Append(chain[r], made)]
        /\ estimated' = [estimated EXCEPT ![r] = Append(chain[r], made)]
        /\ chainMsg' \subseteq chainMsg \cup [chain : {Append(chain[r], made)}, to : Others(r)]
        /\ blockBuffer' = [blockBuffer EXCEPT ![r] = {}]
        /\ prevBuffer' = [prevBuffer EXCEPT ![r] = blockBuffer'[r]]
    BY <1>16 DEF GenerateBlock
  <2>4. chainMsg' \subseteq [chain : Seq(Block), to : Router]
    BY <1>0, <2>1, <2>2, <2>3, ChainTypes
  <2>5. chain' \in [Router -> Seq(Block)] /\ estimated' \in [Root -> Seq(Block)]
    BY <1>0, <2>2, <2>3
  <2>6. blockBuffer' \in [Root -> SUBSET Nat] /\ prevBuffer' \in [Root -> SUBSET Nat]
    BY <1>0, <2>3
  <2>. QED
    BY <1>0, <1>16, <2>4, <2>5, <2>6 DEF GenerateBlock
<1>17. ASSUME NEW m \in chainMsg, ReceiveChain(m) PROVE TypeInv'
  <2>1. m.to \in Router /\ m.chain \in Seq(Block)
    BY <1>0
  <2>3. UNION {m.chain[k].records : k \in 1 .. Len(m.chain)} \subseteq Nat
    BY <2>1, RecordsInNat
  <2>4. chain' \in [Router -> Seq(Block)] /\ validator' \in [Router -> SUBSET Nat]
    BY <1>0, <1>17, <2>1, <2>3 DEF ReceiveChain
  <2>. QED
    BY <1>0, <1>17, <2>4 DEF ReceiveChain
<1>. QED
  BY <1>1, <1>2, <1>6, <1>7, <1>8, <1>9, <1>10, <1>11, <1>12, <1>13, <1>14, <1>15, <1>16, <1>17 DEF Next
-----------------------------------------------------------------------------
(* The election.                                                           *)

\* What a step does to the variables of the election.
LEMMA ElectSteps ==
    ASSUME TypeInv, Next
    PROVE  \/ UNCHANGED electVars /\ (disturbed' = 0 => disturbed = 0)
           \/ \E i \in Interface : Hello(i)
           \/ \E i \in Interface : \E state \in {"LEADER", "NORMAL"} :
                /\ EndWait(i, state)
                /\ (state = "LEADER") = (calculateLeader(i) = Owner[i])
<1> USE DEF TypeInv, TypeOK
<1>1. ASSUME NEW i \in Interface, BecomeRootLeader(i) \/ BecomeLeader(i) \/ BecomeNormal(i)
      PROVE  \E state \in {"LEADER", "NORMAL"} :
                /\ EndWait(i, state)
                /\ (state = "LEADER") = (calculateLeader(i) = Owner[i])
  BY Zenon, <1>1 DEF BecomeRootLeader, BecomeLeader, BecomeNormal
<1>2. ASSUME NEW kind, Disturb(kind)
      PROVE  disturbed' = 0 => disturbed = 0
  BY <1>2 DEF Disturb
<1>3. ASSUME NEW done, NEW kind, OnTime(done, kind)
      PROVE  disturbed' = 0 => disturbed = 0
  BY <1>3, <1>2 DEF OnTime
<1>4. ASSUME NEW i \in Interface, ExpirePit(i)
      PROVE  UNCHANGED electVars /\ (disturbed' = 0 => disturbed = 0)
  BY <1>4, <1>2 DEF ExpirePit
<1>5. ASSUME NEW r \in Root, NEW b \in expire[r], RevokeAssignment(r, b)
      PROVE  UNCHANGED electVars /\ (disturbed' = 0 => disturbed = 0)
  BY <1>5, <1>3 DEF RevokeAssignment
<1>6. ASSUME NEW i \in Interface, IdleHello(i) \/ IdleRequest(i)
      PROVE  UNCHANGED electVars /\ UNCHANGED disturbed
  BY <1>6 DEF IdleHello, IdleRequest, vars
<1>7. ASSUME NEW i \in Interface, LocalRequest(i) \/ ReceiveLocal(i)
      PROVE  UNCHANGED electVars /\ UNCHANGED disturbed
  BY <1>7 DEF LocalRequest, ReceiveLocal
<1>8. ASSUME NEW i \in Interface, NEW r \in Root, AnswerBroadcast(i, r)
      PROVE  UNCHANGED electVars /\ UNCHANGED disturbed
  BY <1>8 DEF AnswerBroadcast
<1>9. ASSUME NEW o \in offer, ReceiveOffer(o)
      PROVE  UNCHANGED electVars /\ UNCHANGED disturbed
  BY <1>9 DEF ReceiveOffer
<1>10. ASSUME NEW m \in conf, ReceiveConf(m)
      PROVE  UNCHANGED electVars /\ UNCHANGED disturbed
  BY <1>10 DEF ReceiveConf
<1>11. ASSUME NEW m \in chainMsg, ReceiveChain(m)
      PROVE  UNCHANGED electVars /\ UNCHANGED disturbed
  BY <1>11 DEF ReceiveChain
<1>12. ASSUME NEW r \in Root, GenerateBlock(r)
      PROVE  UNCHANGED electVars /\ UNCHANGED disturbed
  BY <1>12 DEF GenerateBlock
<1>. QED
  BY <1>1, <1>4, <1>5, <1>6, <1>7, <1>8, <1>9, <1>10, <1>11, <1>12 DEF Next

LEMMA ElectStep ==
    ASSUME IInv, Next
    PROVE  Elected'
<1>0. TypeInv /\ Elected
  BY DEF IInv
<1>1. ASSUME UNCHANGED electVars, disturbed' = 0 => disturbed = 0
      PROVE  Elected'
  BY <1>0, <1>1 DEF electVars, Elected, Named
<1>2. ASSUME NEW i \in Interface, Hello(i)
      PROVE  Elected'
  <2>1. \A j \in Interface : leader'[j] \in {leader[j], leader[Peer[j]]}
    <3>1. Max2(leader[Peer[i]], leader[i]) \in {leader[i], leader[Peer[i]]}
      BY <1>0, Links, LeadersInNat, Larger
    <3>2. leader \in [Interface -> Router \cup {0}]
      BY <1>0 DEF TypeInv, TypeOK
    <3>. QED
      BY <1>2, <3>1, <3>2, Links DEF Hello
  <2>2. UNCHANGED <<phase, disturbed>>
    BY <1>2 DEF Hello
  <2>3. \A j \in Interface : Peer[j] \in Interface /\ Peer[Peer[j]] = j
    BY Links
  <2>. QED
    BY <1>0, <2>1, <2>2, <2>3 DEF Elected, Named
<1>3. ASSUME NEW i \in Interface, NEW state \in {"LEADER", "NORMAL"}, EndWait(i, state),
             (state = "LEADER") = (calculateLeader(i) = Owner[i])
      PROVE  Elected'
  <2> DEFINE p == Peer[i]
  <2>1. /\ p \in Interface /\ Peer[p] = i /\ p # i
        /\ Owner[i] \in Nat \ {0} /\ Owner[p] \in Nat \ {0} /\ Owner[i] # Owner[p]
    BY Links
  <2>2. calculateLeader(i) \in {Owner[i], Owner[p]}
    BY <2>1, Larger DEF calculateLeader
  <2>3. /\ phase[i] = "WAITING" /\ phase'[i] = state /\ leader'[i] = calculateLeader(i)
        /\ \A j \in Interface \ {i} : phase'[j] = phase[j] /\ leader'[j] = leader[j]
    BY <1>0, <1>3 DEF EndWait, TypeInv, TypeOK
  <2>4. /\ state = "LEADER" => leader'[i] = Owner[i]
        /\ state = "NORMAL" => leader'[i] = Owner[p]
    BY <1>3, <2>1, <2>2, <2>3
  <2>5. \A j \in Interface : Named(j) => Named(j)'
    BY <2>1, <2>3, Links DEF Named
  <2>6. ASSUME state = "NORMAL", Owner[i] > Owner[p]
        PROVE  phase[p] = "LEADER"
    <3>1. leader[i] = Owner[p]
      BY <2>6, <2>1, <2>3, <2>4 DEF calculateLeader, Max2
    <3>. QED
      BY <1>0, <3>1, <2>1, <2>3 DEF Elected, Named
  <2>7. ASSUME state = "LEADER", disturbed' = 0
        PROVE  disturbed = 0 /\ Owner[i] > Owner[p]
    <3>1. heard[i] /\ disturbed = 0
      BY <1>0, <1>3, <2>7 DEF EndWait, OnTime, Disturb, TypeInv, TypeOK
    <3>2. calculateLeader(i) = Owner[i]
      BY <1>3, <2>7
    <3>. QED
      BY <2>1, <3>1, <3>2 DEF calculateLeader, Max2
  <2>8. disturbed' = 0 => disturbed = 0
    BY <1>0, <1>3 DEF EndWait, OnTime, Disturb, TypeInv, TypeOK
  <2>9. ASSUME NEW j \in Interface
        PROVE  /\ leader'[j] \in {0, Owner[j], Owner[Peer[j]]}
               /\ leader'[j] = Owner[j] => Named(j)'
               /\ leader'[j] = Owner[Peer[j]] => Named(Peer[j])'
    <3>1. CASE j = i
      BY <3>1, <2>1, <2>3, <2>4 DEF Named
    <3>2. CASE j # i
      BY <1>0, <3>2, <2>3, <2>5, Links DEF Elected
    <3>. QED
      BY <3>1, <3>2
  <2>10. ASSUME NEW j \in Interface, phase'[j] = "NORMAL", Owner[j] > Owner[Peer[j]]
         PROVE  phase'[Peer[j]] = "LEADER"
    <3>1. CASE j = i
      BY <3>1, <2>1, <2>3, <2>6, <2>10
    <3>2. CASE j # i
      <4>1. phase[Peer[j]] = "LEADER"
        BY <1>0, <3>2, <2>3, <2>10 DEF Elected
      <4>. QED
        BY <4>1, <2>3, Links
    <3>. QED
      BY <3>1, <3>2
  <2>11. ASSUME NEW j \in Interface, disturbed' = 0, phase'[j] = "LEADER"
         PROVE  Owner[j] > Owner[Peer[j]]
    BY <1>0, <2>1, <2>3, <2>7, <2>8, <2>11 DEF Elected
  <2>. QED
    BY <2>9, <2>10, <2>11 DEF Elected
<1>. QED
  BY <1>0, <1>1, <1>2, <1>3, ElectSteps
-----------------------------------------------------------------------------
(* Addresses.                                                              *)

\* Taking a block keeps Numbered.
LEMMA TakeNumbers ==
    ASSUME TypeInv, Numbered, NEW i \in Interface, NEW b \in Nat,
           TakeBlock(i, b), addr[i] = Unset, phase[i] # "NORMAL", phase'[i] = "LEADER",
           \A j \in Interface \ {i} : phase'[j] = phase[j],
           localData' = localData, \A j \in Interface : pending'[j] => pending[j]
    PROVE  Numbered'
<1> DEFINE p == Peer[i]
<1>1. p \in Interface /\ Peer[p] = i /\ p # i
  BY Links
<1>2. addrBlock[i] = NoBlock
  <2>1. SUFFICES ASSUME addrBlock[i] # NoBlock PROVE FALSE
    OBVIOUS
  <2>2. addr[i] \in {[block |-> addrBlock[i], host |-> 0], Fallback}
    BY <2>1 DEF Numbered, NumberedAt
  <2>3. addr[i].block = addrBlock[i] \/ addr[i].block = -2
    BY <2>2 DEF Fallback
  <2>4. addr[i].block = NoBlock
    BY DEF Unset, NoBlock
  <2>. QED
    BY <2>1, <2>3, <2>4 DEF NoBlock
<1>3. /\ addrBlock'[i] = b /\ addr'[i] = [block |-> b, host |-> 0]
      /\ nextAddr'[i] = [block |-> b, host |-> 1] /\ assignment'[i] = Unset
      /\ \A j \in Interface \ {i} :
           /\ addrBlock'[j] = addrBlock[j] /\ addr'[j] = addr[j]
           /\ nextAddr'[j] = nextAddr[j] /\ assignment'[j] = assignment[j]
  <2>1. assignment[i] = Unset
    BY <1>2 DEF Numbered, NumberedAt
  <2>. QED
    BY <2>1 DEF TakeBlock, TypeInv, TypeOK
<1>4. NumberedAt(i)'
  <2>1. localData[i] = Unset
    BY DEF Numbered, NumberedAt
  <2>. QED
    BY <1>3, <2>1 DEF NumberedAt, NoBlock
<1>5. NumberedAt(p)'
  <2>1. localData[p] = Unset /\ (phase[p] = "NORMAL" => addr[p] \in {Unset, Fallback})
    BY <1>1, <1>2 DEF Numbered, NumberedAt
  <2>2. p \in Interface \ {i} /\ NumberedAt(p)
    BY <1>1 DEF Numbered
  <2>3. phase'[p] = phase[p] /\ (pending'[p] => pending[p]) /\ localData'[p] = Unset
    BY <2>1, <2>2
  <2>4. /\ addrBlock'[p] = addrBlock[p] /\ addr'[p] = addr[p]
        /\ nextAddr'[p] = nextAddr[p] /\ assignment'[p] = assignment[p]
    BY <1>3, <2>2
  <2>. QED
    BY <2>1, <2>2, <2>3, <2>4 DEF NumberedAt
<1>6. ASSUME NEW j \in Interface \ {i, p} PROVE NumberedAt(j)'
  <2>1. Peer[j] \in Interface \ {i}
    BY <1>1, <1>6, Links
  <2>. QED
    BY <1>3, <1>6, <2>1 DEF Numbered, NumberedAt
<1>. QED
  BY <1>4, <1>5, <1>6 DEF Numbered

\* What an interface that has waited holds: nothing.
LEMMA WaitingEmpty ==
    ASSUME TypeInv, Numbered, NEW i \in Interface, phase[i] = "WAITING"
    PROVE  addr[i] = Unset /\ addrBlock[i] = NoBlock /\ localData[i] = Unset /\ ~pending[i]
BY DEF Numbered, NumberedAt, TypeInv, TypeOK

\* Ending a wait without a block keeps Numbered.
LEMMA WaitNumbers ==
    ASSUME TypeInv, Numbered, NEW i \in Interface, NEW state \in {"LEADER", "NORMAL"},
           EndWait(i, state), UNCHANGED addrVars, UNCHANGED localData,
           \A j \in Interface : pending'[j] => pending[j] \/ (j = i /\ state = "LEADER")
    PROVE  Numbered'
<1>1. phase[i] = "WAITING" /\ phase'[i] = state /\ \A j \in Interface \ {i} : phase'[j] = phase[j]
  BY DEF EndWait, TypeInv, TypeOK
<1>2. addr[i] = Unset /\ addrBlock[i] = NoBlock /\ localData[i] = Unset /\ ~pending[i]
  BY <1>1, WaitingEmpty
<1>3. NumberedAt(i)'
  BY <1>1, <1>2 DEF Numbered, NumberedAt, addrVars
<1>4. ASSUME NEW j \in Interface \ {i} PROVE NumberedAt(j)'
  BY <1>1, <1>4 DEF Numbered, NumberedAt, addrVars
<1>. QED
  BY <1>3, <1>4 DEF Numbered

LEMMA NumberStep ==
    ASSUME IInv, Next
    PROVE  Numbered'
<1> USE DEF electVars, addrVars, reqVars, rootVars, confVars, chainVars
<1>0. TypeInv /\ Elected /\ Numbered
  BY DEF IInv
<1>1. ASSUME UNCHANGED <<phase, addrVars, localData>>, \A i \in Interface : pending'[i] => pending[i]
      PROVE  Numbered'
  BY <1>0, <1>1 DEF Numbered, NumberedAt
<1>2. ASSUME NEW i \in Interface, Hello(i) \/ IdleHello(i) \/ IdleRequest(i) \/ ExpirePit(i)
      PROVE  Numbered'
  <2>1. UNCHANGED <<phase, addrVars, localData>>
    BY <1>2 DEF Hello, IdleHello, IdleRequest, ExpirePit, vars
  <2>2. \A j \in Interface : pending'[j] => pending[j]
    BY <1>0, <1>2 DEF Hello, IdleHello, IdleRequest, ExpirePit, vars, TypeInv, TypeOK
  <2>. QED
    BY <1>1, <2>1, <2>2
<1>3. ASSUME NEW r \in Root, GenerateBlock(r) \/ (\E i \in Interface : AnswerBroadcast(i, r))
                              \/ (\E b \in expire[r] : RevokeAssignment(r, b))
      PROVE  Numbered'
  <2>1. UNCHANGED <<phase, addrVars, localData, pending>>
    BY <1>3 DEF GenerateBlock, AnswerBroadcast, RevokeAssignment
  <2>. QED
    BY <1>1, <2>1
<1>4. ASSUME NEW m \in chainMsg, ReceiveChain(m)
      PROVE  Numbered'
  <2>1. UNCHANGED <<phase, addrVars, localData, pending>>
    BY <1>4 DEF ReceiveChain
  <2>. QED
    BY <1>1, <2>1
<1>5. ASSUME NEW i \in Interface, BecomeRootLeader(i)
      PROVE  Numbered'
  <2>1. /\ Owner[i] \in Root /\ TakeBlock(i, ptr[Owner[i]]) /\ EndWait(i, "LEADER")
        /\ UNCHANGED <<localData, pending>>
    BY <1>5 DEF BecomeRootLeader, IsRoot
  <2>2. phase[i] = "WAITING" /\ phase'[i] = "LEADER" /\ \A j \in Interface \ {i} : phase'[j] = phase[j]
    BY <1>0, <2>1 DEF EndWait, TypeInv, TypeOK
  <2>3. ptr[Owner[i]] \in Nat
    BY <1>0, <2>1 DEF TypeInv, TypeOK
  <2>4. addr[i] = Unset
    BY <1>0, <2>2, WaitingEmpty
  <2>. QED
    BY <1>0, <2>1, <2>2, <2>3, <2>4, TakeNumbers
<1>6. ASSUME NEW i \in Interface, BecomeLeader(i)
      PROVE  Numbered'
  <2>1. EndWait(i, "LEADER") /\ UNCHANGED <<addrVars, localData>>
    BY <1>6 DEF BecomeLeader
  <2>2. \A j \in Interface : pending'[j] => pending[j] \/ j = i
    BY <1>0, <1>6 DEF BecomeLeader, TypeInv, TypeOK
  <2>. QED
    BY <1>0, <2>1, <2>2, WaitNumbers
<1>7. ASSUME NEW i \in Interface, BecomeNormal(i)
      PROVE  Numbered'
  <2>1. EndWait(i, "NORMAL") /\ UNCHANGED <<addrVars, localData, pending>>
    BY <1>7 DEF BecomeNormal
  <2>. QED
    BY <1>0, <2>1, WaitNumbers
<1>8. ASSUME NEW o \in offer, ReceiveOffer(o)
      PROVE  Numbered'
  <2> DEFINE i == o.to
  <2>1. i \in Interface /\ o.block \in Nat
    BY <1>0 DEF TypeInv, TypeOK
  <2>2. UNCHANGED <<phase, localData>> /\ \A j \in Interface : pending'[j] => pending[j]
    BY <1>0, <1>8 DEF ReceiveOffer, TypeInv, TypeOK
  <2>3. CASE UNCHANGED addrVars
    BY <1>1, <2>2, <2>3
  <2>4. CASE pending[i] /\ Acceptable(i, o.block) /\ TakeBlock(i, o.block)
    <3>1. phase[i] = "LEADER" /\ addr[i] = Unset
      BY <1>0, <2>1, <2>4 DEF Numbered, NumberedAt, Acceptable
    <3>. QED
      BY <1>0, <2>1, <2>2, <2>4, <3>1, TakeNumbers
  <2>. QED
    BY <1>8, <2>3, <2>4 DEF ReceiveOffer
<1>9. ASSUME NEW m \in conf, ReceiveConf(m)
      PROVE  Numbered'
  <2>1. UNCHANGED <<phase, addrBlock, nextAddr, assignment, localData, pending>>
    BY <1>9 DEF ReceiveConf
  <2>2. m.block \in Nat
    BY <1>0 DEF TypeInv, TypeOK
  <2>3. ASSUME NEW i \in Interface
        PROVE  addr'[i] = addr[i] \/ (addr'[i] = Fallback /\ addr[i] # Unset)
    BY <1>9, <2>2 DEF ReceiveConf, Unset
  <2>4. ASSUME NEW i \in Interface PROVE NumberedAt(i)'
    BY <1>0, <2>1, <2>3 DEF Numbered, NumberedAt
  <2>. QED
    BY <2>4 DEF Numbered
<1>10. ASSUME NEW i \in Interface, LocalRequest(i)
       PROVE  Numbered'
  <2> DEFINE p == Peer[i]
             gift == IF assignment[p] # Unset THEN assignment[p] ELSE nextAddr[p]
             given == [block |-> addrBlock[p], host |-> 1]
  <2>1. p \in Interface /\ Peer[p] = i /\ p # i /\ phase[p] = "LEADER" /\ addrBlock[p] # NoBlock
    BY <1>0, <1>10, Links, ServingLeads DEF LocalRequest
  <2>2. gift = given
    BY <1>0, <2>1 DEF Numbered, NumberedAt
  <2>3. given # Unset
    BY DEF Unset
  <2>4. /\ phase[i] = "NORMAL" /\ UNCHANGED <<phase, addr, addrBlock, pending>>
        /\ localData' = [localData EXCEPT ![i] = gift]
        /\ assignment' = [assignment EXCEPT ![p] = gift]
        /\ \A j \in Interface \ {p} : nextAddr'[j] = nextAddr[j]
    BY <1>0, <1>10 DEF LocalRequest, Asks, TypeInv, TypeOK
  <2>5. /\ localData'[i] = given /\ assignment'[p] = given
        /\ \A j \in Interface \ {i} : localData'[j] = localData[j]
        /\ \A j \in Interface \ {p} : assignment'[j] = assignment[j]
    BY <1>0, <2>1, <2>2, <2>4 DEF TypeInv, TypeOK
  <2>6. NumberedAt(i)'
    BY <1>0, <2>1, <2>4, <2>5 DEF Numbered, NumberedAt
  <2>7. NumberedAt(p)'
    BY <1>0, <2>1, <2>3, <2>4, <2>5 DEF Numbered, NumberedAt
  <2>8. ASSUME NEW j \in Interface \ {i, p} PROVE NumberedAt(j)'
    BY <1>0, <2>4, <2>5, <2>8 DEF Numbered, NumberedAt
  <2>. QED
    BY <2>6, <2>7, <2>8 DEF Numbered
<1>11. ASSUME NEW i \in Interface, ReceiveLocal(i)
       PROVE  Numbered'
  <2>1. /\ localData[i] # Unset /\ addr'[i] = localData[i]
        /\ \A j \in Interface \ {i} : addr'[j] = addr[j]
        /\ \A j \in Interface : localData'[j] \in {Unset, localData[j]}
        /\ UNCHANGED <<phase, addrBlock, nextAddr, assignment, pending>>
    BY <1>0, <1>11 DEF ReceiveLocal, TypeInv, TypeOK
  <2>2. /\ phase[i] = "NORMAL" /\ addrBlock[Peer[i]] # NoBlock
        /\ localData[i] = [block |-> addrBlock[Peer[i]], host |-> 1]
    BY <1>0, <2>1 DEF Numbered, NumberedAt
  <2>3. NumberedAt(i)'
    BY <1>0, <2>1, <2>2 DEF Numbered, NumberedAt
  <2>4. ASSUME NEW j \in Interface \ {i} PROVE NumberedAt(j)'
    BY <1>0, <2>1, <2>4 DEF Numbered, NumberedAt
  <2>. QED
    BY <2>3, <2>4 DEF Numbered
<1>. QED
  BY <1>2, <1>3, <1>4, <1>5, <1>6, <1>7, <1>8, <1>9, <1>10, <1>11 DEF Next
-----------------------------------------------------------------------------
(* Blocks.                                                                 *)

\* A pool only moves on, so what was given stays given.
LEMMA GivenStays ==
    ASSUME TypeInv, start' = start,
           \A r \in Root : ptr'[r] \in Nat /\ ptr'[r] >= ptr[r]
    PROVE  /\ \A r \in Root, b \in Nat : Given(r, b) => Given(r, b)'
           /\ \A b \in Nat : Contested(b) => Contested(b)'
<1>1. \A r \in Root : start[r] \in Nat /\ ptr[r] \in Nat
  BY DEF TypeInv, TypeOK
<1>2. ASSUME NEW r \in Root, NEW b \in Nat, Given(r, b) PROVE Given(r, b)'
  BY <1>1, <1>2 DEF Given
<1>3. ASSUME NEW b \in Nat, Contested(b) PROVE Contested(b)'
  BY <1>1, <1>3 DEF Contested
<1>. QED
  BY <1>2, <1>3

\* A block two roots have given is contested.
LEMMA GivenTwice ==
    ASSUME NEW r \in Root, NEW s \in Root, r # s, NEW b, Given(r, b), Given(s, b)
    PROVE  Contested(b)
BY DEF Given, Contested

\* The next block of a pool is new to it: another root that gave it contests it.
LEMMA NextBlock ==
    ASSUME TypeInv, NEW r \in Root, NEW b \in Nat, ptr[r] = b, start[r] =< b,
           start' = start, ptr' = [ptr EXCEPT ![r] = b + 1]
    PROVE  /\ \A s \in Root, c \in Nat : Given(s, c) => Given(s, c)'
           /\ \A c \in Nat : Contested(c) => Contested(c)'
           /\ Given(r, b)'
           /\ \A s \in Root : Given(s, b) => Contested(b)'
<1>1. ptr \in [Root -> Nat] /\ start[r] \in Nat
  BY DEF TypeInv, TypeOK
<1>2. ptr'[r] = b + 1 /\ \A s \in Root \ {r} : ptr'[s] = ptr[s]
  BY <1>1
<1>3. \A s \in Root : ptr'[s] \in Nat /\ ptr'[s] >= ptr[s]
  BY <1>1, <1>2
<1>4. /\ \A s \in Root, c \in Nat : Given(s, c) => Given(s, c)'
      /\ \A c \in Nat : Contested(c) => Contested(c)'
  BY <1>3, GivenStays
<1>5. Given(r, b)'
  BY <1>1, <1>2 DEF Given
<1>6. ~Given(r, b)
  BY <1>1 DEF Given
<1>7. ASSUME NEW s \in Root, Given(s, b) PROVE Contested(b)'
  <2>1. s # r /\ Given(s, b)'
    BY <1>4, <1>6, <1>7
  <2>. QED
    BY <1>5, <2>1 DEF Given, Contested
<1>. QED
  BY <1>4, <1>5, <1>7

\* What is taken or on offer has a block number.
LEMMA BlockTypes ==
    ASSUME TypeInv
    PROVE  /\ \A o \in offer : o.block \in Nat /\ o.giver \in Root /\ o.to \in Interface
           /\ \A i \in Interface : addrBlock[i] # NoBlock => addrBlock[i] \in Nat
BY DEF TypeInv, TypeOK

\* Nothing new is taken or on offer.
LEMMA AllotKept ==
    ASSUME TypeInv, Allotted, UNCHANGED addrBlock, offer' \subseteq offer,
           UNCHANGED <<start, ptr>>
    PROVE  Allotted'
BY DEF Allotted, Given, Contested

\* An interface takes block b, which is on no other offer than the one used up.
LEMMA AllotTaken ==
    ASSUME TypeInv, Allotted, NEW i \in Interface, NEW b \in Nat, NEW r \in Root,
           addrBlock'[i] = b, \A j \in Interface \ {i} : addrBlock'[j] = addrBlock[j],
           start' = start, offer' \subseteq offer,
           \A s \in Root : start'[s] =< ptr'[s],
           \A s \in Root, c \in Nat : Given(s, c) => Given(s, c)',
           \A c \in Nat : Contested(c) => Contested(c)',
           Given(r, b)',
           \A o \in offer' : o.block = b => Contested(b)',
           \A j \in Interface : addrBlock[j] = b => Contested(b)'
    PROVE  Allotted'
<1>1. /\ \A o \in offer : o.block \in Nat /\ o.giver \in Root
      /\ \A j \in Interface : addrBlock[j] # NoBlock => addrBlock[j] \in Nat
  BY BlockTypes
<1>2. \A o \in offer' : Given(o.giver, o.block)'
  BY <1>1 DEF Allotted
<1>3. \A o, p \in offer' : o # p /\ o.block = p.block => Contested(o.block)'
  BY <1>1 DEF Allotted
<1>4. ASSUME NEW o \in offer', NEW j \in Interface, addrBlock'[j] = o.block
      PROVE  Contested(o.block)'
  <2>1. CASE j = i
    BY <1>4, <2>1
  <2>2. CASE j # i
    BY <1>1, <1>4, <2>2 DEF Allotted
  <2>. QED
    BY <2>1, <2>2
<1>5. ASSUME NEW j \in Interface, NEW k \in Interface, NEW c, j # k, c # NoBlock,
             addrBlock'[j] = c, addrBlock'[k] = c
      PROVE  Contested(c)'
  <2>1. CASE j # i /\ k # i
    <3>1. addrBlock[j] = c /\ addrBlock[k] = c /\ c \in Nat
      BY <1>1, <1>5, <2>1
    <3>2. Contested(c)
      BY <1>5, <3>1 DEF Allotted
    <3>. QED
      BY <3>1, <3>2
  <2>2. CASE j = i \/ k = i
    BY <1>5, <2>2
  <2>. QED
    BY <2>1, <2>2
<1>6. ASSUME NEW j \in Interface, NEW c, c # NoBlock, addrBlock'[j] = c
      PROVE  \E s \in Root : Given(s, c)'
  <2>1. CASE j = i
    BY <1>6, <2>1
  <2>2. CASE j # i
    <3>1. addrBlock[j] = c /\ c \in Nat
      BY <1>1, <1>6, <2>2
    <3>2. \E s \in Root : Given(s, c)
      BY <1>6, <3>1 DEF Allotted
    <3>. QED
      BY <3>1, <3>2
  <2>. QED
    BY <2>1, <2>2
<1>. QED
  BY <1>2, <1>3, <1>4, <1>5, <1>6 DEF Allotted

\* A root offers block b.
LEMMA AllotOffered ==
    ASSUME TypeInv, Allotted, NEW b \in Nat, NEW new, offer' = offer \cup {new}, new.block = b,
           Given(new.giver, b)', start' = start, addrBlock' = addrBlock,
           \A s \in Root : start'[s] =< ptr'[s],
           \A s \in Root, c \in Nat : Given(s, c) => Given(s, c)',
           \A c \in Nat : Contested(c) => Contested(c)',
           \A s \in Root : Given(s, b) => Contested(b)'
    PROVE  Allotted'
<1>1. /\ \A o \in offer : o.block \in Nat /\ o.giver \in Root
      /\ \A j \in Interface : addrBlock[j] # NoBlock => addrBlock[j] \in Nat
  BY BlockTypes
<1>2. \A o \in offer' : Given(o.giver, o.block)'
  BY <1>1 DEF Allotted
<1>3. \A o \in offer : o.block = b => Contested(b)'
  BY <1>1 DEF Allotted
<1>4. \A o, p \in offer' : o # p /\ o.block = p.block => Contested(o.block)'
  BY <1>1, <1>3 DEF Allotted
<1>5. \A j \in Interface : addrBlock[j] = b => Contested(b)'
  <2>1. b # NoBlock
    BY DEF NoBlock
  <2>2. ASSUME NEW j \in Interface, addrBlock[j] = b PROVE \E s \in Root : Given(s, b)
    BY <2>1, <2>2 DEF Allotted
  <2>. QED
    BY <2>2
<1>6. ASSUME NEW o \in offer', NEW j \in Interface, addrBlock'[j] = o.block
      PROVE  Contested(o.block)'
  <2>1. CASE o \in offer
    BY <1>1, <1>6, <2>1 DEF Allotted
  <2>2. CASE o = new
    BY <1>5, <1>6, <2>2
  <2>. QED
    BY <2>1, <2>2
<1>7. ASSUME NEW j \in Interface, NEW k \in Interface, NEW c, j # k, c # NoBlock,
             addrBlock[j] = c, addrBlock[k] = c
      PROVE  Contested(c)'
  <2>1. c \in Nat /\ Contested(c)
    BY <1>1, <1>7 DEF Allotted
  <2>. QED
    BY <2>1
<1>8. ASSUME NEW j \in Interface, NEW c, c # NoBlock, addrBlock[j] = c
      PROVE  \E s \in Root : Given(s, c)'
  <2>1. c \in Nat /\ \E s \in Root : Given(s, c)
    BY <1>1, <1>8 DEF Allotted
  <2>. QED
    BY <2>1
<1>. QED
  BY <1>2, <1>4, <1>6, <1>7, <1>8 DEF Allotted

LEMMA AllotStep ==
    ASSUME IInv, Next
    PROVE  Allotted'
<1>0. TypeInv /\ Numbered /\ Allotted
  BY DEF IInv
<1>1. ASSUME NEW r \in Root, NEW b \in Nat, ptr[r] = b, start' = start,
             ptr' = [ptr EXCEPT ![r] = b + 1]
      PROVE  start[r] =< b /\ \A s \in Root : start'[s] =< ptr'[s]
  BY <1>0, <1>1 DEF Allotted, TypeInv, TypeOK
<1>2. ASSUME NEW i \in Interface, NEW b \in Nat, TakeBlock(i, b)
      PROVE  addrBlock'[i] = b /\ \A j \in Interface \ {i} : addrBlock'[j] = addrBlock[j]
  BY <1>0, <1>2 DEF TakeBlock, TypeInv, TypeOK
<1>4. ASSUME NEW i \in Interface, BecomeRootLeader(i)
      PROVE  Allotted'
  <2>1. PICK r \in Root : r = Owner[i]
    BY <1>4 DEF BecomeRootLeader, IsRoot
  <2>2. PICK b \in Nat : ptr[r] = b
    BY <1>0 DEF TypeInv, TypeOK
  <2>3. /\ TakeBlock(i, b) /\ start' = start /\ offer' = offer
        /\ ptr' = [ptr EXCEPT ![r] = b + 1]
    BY <1>4, <2>1, <2>2 DEF BecomeRootLeader, reqVars
  <2>4. start[r] =< b /\ \A s \in Root : start'[s] =< ptr'[s]
    BY <1>1, <2>2, <2>3
  <2>5. /\ \A s \in Root, c \in Nat : Given(s, c) => Given(s, c)'
        /\ \A c \in Nat : Contested(c) => Contested(c)'
        /\ Given(r, b)'
        /\ \A s \in Root : Given(s, b) => Contested(b)'
    BY <1>0, <2>2, <2>3, <2>4, NextBlock
  <2>6. \A o \in offer : o.block = b => Contested(b)'
    BY <1>0, <2>5, BlockTypes DEF Allotted
  <2>7. ASSUME NEW j \in Interface, addrBlock[j] = b PROVE Contested(b)'
    BY <1>0, <2>5, <2>7 DEF Allotted, NoBlock
  <2>8. addrBlock'[i] = b /\ \A j \in Interface \ {i} : addrBlock'[j] = addrBlock[j]
    BY <1>2, <2>3
  <2>. QED
    BY <1>0, <2>3, <2>4, <2>5, <2>6, <2>7, <2>8, AllotTaken
<1>5. ASSUME NEW i \in Interface, NEW r \in Root, AnswerBroadcast(i, r)
      PROVE  Allotted'
  <2>1. PICK b \in Nat : ptr[r] = b
    BY <1>0 DEF TypeInv, TypeOK
  <2>2. PICK new : new = [to |-> i, block |-> b, giver |-> r]
    OBVIOUS
  <2>3. /\ start' = start /\ addrBlock' = addrBlock /\ offer' = offer \cup {new}
        /\ ptr' = [ptr EXCEPT ![r] = b + 1]
    BY <1>5, <2>1, <2>2 DEF AnswerBroadcast, addrVars
  <2>4. start[r] =< b /\ \A s \in Root : start'[s] =< ptr'[s]
    BY <1>1, <2>1, <2>3
  <2>5. /\ \A s \in Root, c \in Nat : Given(s, c) => Given(s, c)'
        /\ \A c \in Nat : Contested(c) => Contested(c)'
        /\ Given(r, b)'
        /\ \A s \in Root : Given(s, b) => Contested(b)'
    BY <1>0, <2>1, <2>3, <2>4, NextBlock
  <2>6. new.block = b /\ Given(new.giver, b)'
    <3>1. new.block = b /\ new.giver = r
      BY <2>2
    <3>. QED
      BY <2>5, <3>1
  <2>. QED
    BY <1>0, <2>3, <2>4, <2>5, <2>6, AllotOffered
<1>6. ASSUME NEW o \in offer, ReceiveOffer(o)
      PROVE  Allotted'
  <2>1. PICK i \in Interface, b \in Nat, r \in Root : i = o.to /\ b = o.block /\ r = o.giver
    BY <1>0, BlockTypes
  <2>2. UNCHANGED <<start, ptr>> /\ offer' = offer \ {o}
    BY <1>6 DEF ReceiveOffer, rootVars
  <2>3. CASE UNCHANGED addrBlock
    BY <1>0, <2>2, <2>3, AllotKept
  <2>4. CASE TakeBlock(i, b)
    <3>1. addrBlock'[i] = b /\ \A j \in Interface \ {i} : addrBlock'[j] = addrBlock[j]
      BY <1>2, <2>4
    <3>2. /\ \A s \in Root, c \in Nat : Given(s, c) => Given(s, c)'
          /\ \A c \in Nat : Contested(c) => Contested(c)'
          /\ \A s \in Root : start'[s] =< ptr'[s]
      BY <1>0, <2>2 DEF Given, Contested, Allotted
    <3>3. Given(r, b)'
      BY <1>0, <2>1, <3>2 DEF Allotted
    <3>4. \A p \in offer' : p.block = b => Contested(b)'
      BY <1>0, <2>1, <2>2, <3>2 DEF Allotted
    <3>5. \A j \in Interface : addrBlock[j] = b => Contested(b)'
      BY <1>0, <2>1, <3>2 DEF Allotted
    <3>6. start' = start /\ offer' \subseteq offer
      BY <2>2
    <3>. QED
      BY <1>0, <3>1, <3>2, <3>3, <3>4, <3>5, <3>6, AllotTaken
  <2>5. UNCHANGED addrBlock \/ TakeBlock(i, b)
    BY <1>6, <2>1 DEF ReceiveOffer, addrVars
  <2>. QED
    BY <2>3, <2>4, <2>5
<1>7. ASSUME NEW i \in Interface,
             \/ Hello(i) \/ IdleHello(i) \/ BecomeLeader(i) \/ BecomeNormal(i)
             \/ LocalRequest(i) \/ IdleRequest(i) \/ ReceiveLocal(i) \/ ExpirePit(i)
      PROVE  Allotted'
  <2>1. UNCHANGED <<start, ptr, addrBlock, offer>>
    BY <1>7 DEF Hello, IdleHello, BecomeLeader, BecomeNormal, LocalRequest, IdleRequest,
                ReceiveLocal, ExpirePit, vars, addrVars, reqVars, rootVars
  <2>. QED
    BY <1>0, <2>1, AllotKept
<1>8. ASSUME \/ \E m \in conf : ReceiveConf(m)
             \/ \E m \in chainMsg : ReceiveChain(m)
             \/ \E r \in Root : GenerateBlock(r) \/ \E b \in expire[r] : RevokeAssignment(r, b)
      PROVE  Allotted'
  <2>1. UNCHANGED <<start, ptr, addrBlock, offer>>
    BY <1>8 DEF ReceiveConf, ReceiveChain, GenerateBlock, RevokeAssignment,
                addrVars, reqVars, rootVars
  <2>. QED
    BY <1>0, <2>1, AllotKept
<1>. QED
  BY <1>4, <1>5, <1>6, <1>7, <1>8 DEF Next
-----------------------------------------------------------------------------
(* Contested blocks.                                                       *)

\* Nothing is taken, no confirmation arrives and no leader's address changes.
LEMMA WarnKept ==
    ASSUME Warned, addrBlock' = addrBlock, conf \subseteq conf',
           \A i \in Interface : addrBlock[i] # NoBlock => addr'[i] = addr[i]
    PROVE  Warned'
<1> SUFFICES ASSUME NEW i \in Interface, NEW j \in Interface, NEW c, c # NoBlock,
                    Owner[i] # Owner[j], addrBlock'[i] = c, addrBlock'[j] = c,
                    addr'[i].block = c, addr'[j].block = c
             PROVE  \E m \in conf' : m.block = c /\ m.to \in {Owner[i], Owner[j]}
  BY DEF Warned
<1>1. /\ addrBlock[i] = c /\ addrBlock[j] = c
      /\ addr[i].block = c /\ addr[j].block = c
  OBVIOUS
<1>2. \E m \in conf : m.block = c /\ m.to \in {Owner[i], Owner[j]}
  BY <1>1 DEF Warned
<1>. QED
  BY <1>2

\* A block is taken and confirmed to every other router.
LEMMA WarnTaken ==
    ASSUME TypeInv, Warned, NEW i \in Interface, NEW b \in Nat, NEW g,
           TakeBlock(i, b), Confirm(Owner[i], b, {g})
    PROVE  Warned'
<1> SUFFICES ASSUME NEW j \in Interface, NEW k \in Interface, NEW c, c # NoBlock,
                    Owner[j] # Owner[k], addrBlock'[j] = c, addrBlock'[k] = c,
                    addr'[j].block = c, addr'[k].block = c
             PROVE  \E m \in conf' : m.block = c /\ m.to \in {Owner[j], Owner[k]}
  BY DEF Warned
<1>1. /\ addrBlock'[i] = b
      /\ \A l \in Interface \ {i} : addrBlock'[l] = addrBlock[l] /\ addr'[l] = addr[l]
  BY DEF TakeBlock, TypeInv, TypeOK
<1>2. conf \subseteq conf'
  BY DEF Confirm
<1>3. ASSUME NEW l \in Interface, Owner[l] # Owner[i]
      PROVE  \E m \in conf' : m.block = b /\ m.to = Owner[l]
  <2>1. [block |-> b, giver |-> g, to |-> Owner[l]] \in conf'
    BY <1>3, Links DEF Confirm, Others
  <2>. QED
    BY <2>1
<1>4. CASE j = i \/ k = i
  BY <1>1, <1>3, <1>4
<1>5. CASE j # i /\ k # i
  <2>1. \E m \in conf : m.block = c /\ m.to \in {Owner[j], Owner[k]}
    BY <1>1, <1>5 DEF Warned
  <2>. QED
    BY <1>2, <2>1
<1>. QED
  BY <1>4, <1>5

LEMMA WarnStep ==
    ASSUME IInv, Next
    PROVE  Warned'
<1>0. TypeInv /\ Numbered /\ Warned
  BY DEF IInv
<1>1. ASSUME NEW i \in Interface, BecomeRootLeader(i)
      PROVE  Warned'
  <2>1. PICK b \in Nat : b = ptr[Owner[i]]
    BY <1>0, <1>1 DEF BecomeRootLeader, IsRoot, TypeInv, TypeOK
  <2>2. TakeBlock(i, b) /\ Confirm(Owner[i], b, {0})
    BY <1>1, <2>1 DEF BecomeRootLeader
  <2>. QED
    BY <1>0, <2>2, WarnTaken
<1>2. ASSUME NEW o \in offer, ReceiveOffer(o)
      PROVE  Warned'
  <2>1. PICK i \in Interface, b \in Nat, g \in Root : i = o.to /\ b = o.block /\ g = o.giver
    BY <1>0, BlockTypes
  <2>2. CASE UNCHANGED <<addrVars, conf>>
    <3>1. addr' = addr /\ addrBlock' = addrBlock /\ conf' = conf
      BY <2>2 DEF addrVars
    <3>. QED
      BY <1>0, <3>1, WarnKept
  <2>3. CASE TakeBlock(i, b) /\ Confirm(Owner[i], b, {g})
    BY <1>0, <2>3, WarnTaken
  <2>. QED
    BY <1>2, <2>1, <2>2, <2>3 DEF ReceiveOffer
<1>3. ASSUME NEW n \in conf, ReceiveConf(n)
      PROVE  Warned'
  <2> SUFFICES ASSUME NEW i \in Interface, NEW j \in Interface, NEW c, c # NoBlock,
                      Owner[i] # Owner[j], addrBlock'[i] = c, addrBlock'[j] = c,
                      addr'[i].block = c, addr'[j].block = c
               PROVE  \E m \in conf' : m.block = c /\ m.to \in {Owner[i], Owner[j]}
    BY DEF Warned
  <2>1. addrBlock' = addrBlock /\ conf' = conf \ {n}
    BY <1>3 DEF ReceiveConf
  <2>2. c \in Nat
    BY <1>0, <2>1, BlockTypes
  <2>3. ASSUME NEW k \in Interface, addr'[k].block = c
        PROVE  addr[k].block = c /\ (n.block = c => Owner[k] # n.to)
    BY <1>3, <2>2, <2>3 DEF ReceiveConf, Fallback
  <2>4. \E m \in conf : m.block = c /\ m.to \in {Owner[i], Owner[j]}
    BY <1>0, <2>1, <2>3 DEF Warned
  <2>. QED
    BY <2>1, <2>3, <2>4
<1>4. ASSUME NEW i \in Interface,
             \/ Hello(i) \/ IdleHello(i) \/ BecomeLeader(i) \/ BecomeNormal(i)
             \/ LocalRequest(i) \/ IdleRequest(i) \/ ExpirePit(i)
             \/ \E r \in Root : AnswerBroadcast(i, r)
      PROVE  Warned'
  <2>1. UNCHANGED <<addr, addrBlock, conf>>
    BY <1>4 DEF Hello, IdleHello, BecomeLeader, BecomeNormal, LocalRequest, IdleRequest,
                ExpirePit, AnswerBroadcast, vars, addrVars, confVars
  <2>. QED
    BY <1>0, <2>1, WarnKept
<1>5. ASSUME NEW i \in Interface, ReceiveLocal(i)
      PROVE  Warned'
  <2>1. /\ addrBlock' = addrBlock /\ conf' = conf /\ localData[i] # Unset
        /\ \A j \in Interface \ {i} : addr'[j] = addr[j]
    BY <1>0, <1>5 DEF ReceiveLocal, confVars, TypeInv, TypeOK
  <2>2. addrBlock[i] = NoBlock
    BY <1>0, <2>1 DEF Numbered, NumberedAt
  <2>3. \A j \in Interface : addrBlock[j] # NoBlock => addr'[j] = addr[j]
    BY <2>1, <2>2
  <2>. QED
    BY <1>0, <2>1, <2>3, WarnKept
<1>6. ASSUME \/ \E m \in chainMsg : ReceiveChain(m)
             \/ \E r \in Root : GenerateBlock(r) \/ \E b \in expire[r] : RevokeAssignment(r, b)
      PROVE  Warned'
  <2>1. UNCHANGED <<addr, addrBlock, conf>>
    BY <1>6 DEF ReceiveChain, GenerateBlock, RevokeAssignment, addrVars, confVars
  <2>. QED
    BY <1>0, <2>1, WarnKept
<1>. QED
  BY <1>1, <1>2, <1>3, <1>4, <1>5, <1>6 DEF Next
-----------------------------------------------------------------------------
(* Chains.                                                                 *)

\* Chains only get longer, the messages that are still longer than the chain
\* of their receiver stay, and what became longer is on its way to the others.
LEMMA CatchMoves ==
    ASSUME TypeInv, TypeInv', Catching,
           \A r \in Router : Len(chain'[r]) >= Len(chain[r]),
           \A m \in chainMsg' : Len(m.chain) > Len(chain'[m.to]),
           \A m \in chainMsg : Len(m.chain) > Len(chain'[m.to]) => m \in chainMsg',
           \A r, s \in Router :
             Len(chain'[s]) # Len(chain[s]) /\ Len(chain'[r]) < Len(chain'[s]) =>
               \E m \in chainMsg' : m.to = r /\ Len(m.chain) >= Len(chain'[s]),
           \A r \in Router, n \in chainMsg' \ chainMsg : Len(chain'[r]) < Len(n.chain) =>
             \E m \in chainMsg' : m.to = r /\ Len(m.chain) >= Len(n.chain)
    PROVE  Catching'
<1>1. /\ \A r \in Router : Len(chain[r]) \in Nat /\ Len(chain'[r]) \in Nat
      /\ \A m \in chainMsg \cup chainMsg' : Len(m.chain) \in Nat /\ m.to \in Router
  BY DEF TypeInv
<1>2. ASSUME NEW r \in Router, NEW k \in Nat, Len(chain'[r]) < k,
             \E m \in chainMsg : m.to = r /\ Len(m.chain) >= k
      PROVE  \E m \in chainMsg' : m.to = r /\ Len(m.chain) >= k
  <2>1. PICK m \in chainMsg : m.to = r /\ Len(m.chain) >= k
    BY <1>2
  <2>2. Len(m.chain) > Len(chain'[m.to])
    BY <1>1, <1>2, <2>1
  <2>. QED
    BY <2>1, <2>2
<1>3. ASSUME NEW r \in Router, NEW s \in Router, Len(chain'[r]) < Len(chain'[s])
      PROVE  \E m \in chainMsg' : m.to = r /\ Len(m.chain) >= Len(chain'[s])
  <2>1. CASE Len(chain'[s]) = Len(chain[s])
    <3>1. Len(chain[r]) < Len(chain[s])
      BY <1>1, <1>3, <2>1
    <3>2. \E m \in chainMsg : m.to = r /\ Len(m.chain) >= Len(chain[s])
      BY <3>1 DEF Catching
    <3>. QED
      BY <1>1, <1>2, <1>3, <2>1, <3>2
  <2>. QED
    BY <1>3, <2>1
<1>4. ASSUME NEW r \in Router, NEW n \in chainMsg', Len(chain'[r]) < Len(n.chain)
      PROVE  \E m \in chainMsg' : m.to = r /\ Len(m.chain) >= Len(n.chain)
  <2>1. CASE n \in chainMsg
    <3>1. Len(chain[r]) < Len(n.chain)
      BY <1>1, <1>4, <2>1
    <3>2. \E m \in chainMsg : m.to = r /\ Len(m.chain) >= Len(n.chain)
      BY <2>1, <3>1 DEF Catching
    <3>. QED
      BY <1>1, <1>2, <1>4, <3>2
  <2>. QED
    BY <1>4, <2>1
<1>. QED
  BY <1>3, <1>4 DEF Catching

LEMMA CatchStep ==
    ASSUME IInv, Next, TypeInv'
    PROVE  Catching'
<1>0. TypeInv /\ Catching
  BY DEF IInv
<1>1. /\ \A r \in Router : Len(chain[r]) \in Nat /\ Len(chain'[r]) \in Nat
      /\ \A m \in chainMsg \cup chainMsg' : Len(m.chain) \in Nat /\ m.to \in Router
  BY <1>0 DEF TypeInv
<1>2. ASSUME NEW r \in Root, GenerateBlock(r)
      PROVE  Catching'
  <2>1. PICK new : /\ chain' = [chain EXCEPT ![r] = new] /\ Len(new) = Len(chain[r]) + 1
                   /\ chainMsg' = {m \in chainMsg \cup [chain : {new}, to : Others(r)] :
                                     Len(m.chain) > Len(chain'[m.to])}
    <3> DEFINE flushed == SubSeq(chain[r], 1, Len(estimated[r])) # estimated[r]
               again == IF flushed THEN prevBuffer[r] ELSE {}
               blk == [by |-> r, records |-> blockBuffer[r] \cup again]
               new == Append(chain[r], blk)
    <3>1. /\ chain' = [chain EXCEPT ![r] = new]
          /\ chainMsg' = {m \in chainMsg \cup [chain : {new}, to : Others(r)] :
                            Len(m.chain) > Len(chain'[m.to])}
      BY <1>2 DEF GenerateBlock, Replaces
    <3>2. chain[r] \in Seq(Block)
      BY <1>0, RouterAssumption DEF TypeInv
    <3> HIDE DEF blk
    <3>3. Len(new) = Len(chain[r]) + 1
      BY <3>2
    <3>. QED
      BY <3>1, <3>3
  <2>2. /\ chain'[r] = new /\ \A s \in Router \ {r} : chain'[s] = chain[s]
        /\ r \in Router
    BY <1>0, <2>1, RouterAssumption DEF TypeInv
  <2>3. \A s \in Router : Len(chain'[s]) >= Len(chain[s])
    BY <1>1, <2>1, <2>2
  <2>4. /\ \A m \in chainMsg' : Len(m.chain) > Len(chain'[m.to])
        /\ \A m \in chainMsg : Len(m.chain) > Len(chain'[m.to]) => m \in chainMsg'
    BY <2>1
  <2>5. ASSUME NEW s \in Router, Len(chain'[s]) < Len(new)
        PROVE  [chain |-> new, to |-> s] \in chainMsg'
    <3>1. s # r
      BY <1>1, <2>2, <2>5
    <3>2. [chain |-> new, to |-> s] \in [chain : {new}, to : Others(r)]
      BY <3>1 DEF Others
    <3>3. Len(new) > Len(chain'[s])
      BY <1>1, <2>1, <2>2, <2>5
    <3>. QED
      BY <2>1, <3>2, <3>3
  <2>6. ASSUME NEW a \in Router, NEW s \in Router, Len(chain'[s]) # Len(chain[s]),
               Len(chain'[a]) < Len(chain'[s])
        PROVE  \E m \in chainMsg' : m.to = a /\ Len(m.chain) >= Len(chain'[s])
    <3>1. chain'[s] = new
      BY <2>2, <2>6
    <3>2. [chain |-> new, to |-> a] \in chainMsg'
      BY <2>5, <2>6, <3>1
    <3>. QED
      BY <1>1, <3>1, <3>2
  <2>7. ASSUME NEW a \in Router, NEW n \in chainMsg' \ chainMsg, Len(chain'[a]) < Len(n.chain)
        PROVE  \E m \in chainMsg' : m.to = a /\ Len(m.chain) >= Len(n.chain)
    <3>1. n.chain = new
      BY <2>1, <2>7
    <3>2. [chain |-> new, to |-> a] \in chainMsg'
      BY <2>5, <2>7, <3>1
    <3>. QED
      BY <1>1, <3>1, <3>2
  <2>. QED
    BY <1>0, <2>3, <2>4, <2>6, <2>7, CatchMoves
<1>3. ASSUME NEW m \in chainMsg, ReceiveChain(m)
      PROVE  Catching'
  <2>1. /\ chain' = [chain EXCEPT ![m.to] = m.chain]
        /\ chainMsg' = {n \in chainMsg : Len(n.chain) > Len(chain'[n.to])}
    BY <1>3 DEF ReceiveChain, Replaces
  <2>2. /\ m.to \in Router /\ chain'[m.to] = m.chain
        /\ \A s \in Router \ {m.to} : chain'[s] = chain[s]
    BY <1>0, <1>1, <2>1 DEF TypeInv
  <2>3. \A s \in Router : Len(chain'[s]) >= Len(chain[s])
    BY <1>0, <1>1, <2>2 DEF Catching
  <2>4. /\ \A n \in chainMsg' : Len(n.chain) > Len(chain'[n.to])
        /\ \A n \in chainMsg : Len(n.chain) > Len(chain'[n.to]) => n \in chainMsg'
    BY <2>1
  <2>6. ASSUME NEW a \in Router, NEW s \in Router, Len(chain'[s]) # Len(chain[s]),
               Len(chain'[a]) < Len(chain'[s])
        PROVE  \E n \in chainMsg' : n.to = a /\ Len(n.chain) >= Len(chain'[s])
    <3>1. s = m.to /\ chain'[s] = m.chain /\ a # s
      BY <1>1, <2>2, <2>6
    <3>2. Len(chain[a]) < Len(m.chain)
      BY <2>2, <2>6, <3>1
    <3>3. PICK n \in chainMsg : n.to = a /\ Len(n.chain) >= Len(m.chain)
      BY <1>0, <3>2 DEF Catching
    <3>4. Len(n.chain) > Len(chain'[n.to])
      BY <1>1, <2>6, <3>1, <3>3
    <3>. QED
      BY <2>4, <3>1, <3>3, <3>4
  <2>7. chainMsg' \ chainMsg = {}
    BY <2>1
  <2>. QED
    BY <1>0, <2>3, <2>4, <2>6, <2>7, CatchMoves
<1>4. ASSUME chain' = chain, chainMsg' = chainMsg
      PROVE  Catching'
  BY <1>0, <1>4 DEF Catching
<1>5. ASSUME NEW i \in Interface,
             \/ Hello(i) \/ IdleHello(i) \/ BecomeRootLeader(i) \/ BecomeLeader(i)
             \/ BecomeNormal(i) \/ LocalRequest(i) \/ IdleRequest(i) \/ ReceiveLocal(i)
             \/ ExpirePit(i) \/ \E r \in Root : AnswerBroadcast(i, r)
      PROVE  Catching'
  <2>1. chain' = chain /\ chainMsg' = chainMsg
    BY <1>5 DEF Hello, IdleHello, BecomeRootLeader, BecomeLeader, BecomeNormal, LocalRequest,
                IdleRequest, ReceiveLocal, ExpirePit, AnswerBroadcast, vars, chainVars
  <2>. QED
    BY <1>4, <2>1
<1>6. ASSUME \/ \E o \in offer : ReceiveOffer(o)
             \/ \E m \in conf : ReceiveConf(m)
             \/ \E r \in Root : \E b \in expire[r] : RevokeAssignment(r, b)
      PROVE  Catching'
  <2>1. chain' = chain /\ chainMsg' = chainMsg
    BY <1>6 DEF ReceiveOffer, ReceiveConf, RevokeAssignment, chainVars
  <2>. QED
    BY <1>4, <2>1
<1>. QED
  BY <1>2, <1>3, <1>5, <1>6 DEF Next
-----------------------------------------------------------------------------
(* The theorems.                                                           *)

\* The invariant, of every state of every behaviour.
LEMMA Invariant == Spec => []IInv
<1>1. Init => IInv
  BY InitOK
<1>2. IInv /\ [Next]_vars => IInv'
  <2>1. CASE Next
    BY <2>1, TypeStep, ElectStep, NumberStep, AllotStep, WarnStep, CatchStep DEF IInv
  <2>2. CASE UNCHANGED vars
    <3> USE DEF vars, electVars, addrVars, reqVars, rootVars, confVars, chainVars
    <3>1. UNCHANGED TypeInv
      BY <2>2 DEF TypeInv, TypeOK
    <3>2. UNCHANGED Elected /\ UNCHANGED Numbered
      BY <2>2 DEF Elected, Named, Numbered, NumberedAt
    <3>3. UNCHANGED Allotted /\ UNCHANGED Warned
      BY <2>2 DEF Allotted, Given, Contested, Warned
    <3>4. UNCHANGED Catching
      BY <2>2 DEF Catching
    <3>. QED
      BY <3>1, <3>2, <3>3, <3>4 DEF IInv
  <2>. QED
    BY <2>1, <2>2
<1>. QED
  BY <1>1, <1>2, PTL DEF Spec

\* The variables keep their types: in particular no address leaves its /30
\* block and no interface is given the address nobody wrote.
THEOREM TypeCorrect == Spec => []TypeOK
<1>1. IInv => TypeOK
  BY DEF IInv, TypeInv
<1>. QED
  BY <1>1, Invariant, PTL

\* Only a leader with a block answers local requests (AddrRequestController
\* asks for the leader field, which a hello can change).
THEOREM LeadersServe == Spec => []OnlyLeadersServe
<1>1. IInv => OnlyLeadersServe
  BY ServingLeads DEF IInv, OnlyLeadersServe
<1>. QED
  BY <1>1, Invariant, PTL

\* An interface that holds an address of a block leads the block or follows
\* the interface that does.
LEMMA Holds ==
    ASSUME TypeInv, Elected, Numbered, NEW i \in Interface, addr[i] \in Address
    PROVE  \/ addrBlock[i] # NoBlock /\ addr[i] = [block |-> addrBlock[i], host |-> 0]
           \/ /\ phase[i] = "NORMAL" /\ addrBlock[i] = NoBlock /\ addrBlock[Peer[i]] # NoBlock
              /\ addr[i] = [block |-> addrBlock[Peer[i]], host |-> 1]
<1>1. addr[i] # Unset /\ addr[i] # Fallback
  BY DEF Address, Unset, Fallback
<1>. QED
  BY <1>1 DEF Numbered, NumberedAt

LEMMA HoldsBlock ==
    ASSUME TypeInv, Elected, Numbered, NEW i \in Interface, addr[i] \in Address
    PROVE  /\ addr[i].host = 0 => addrBlock[i] # NoBlock /\ addr[i].block = addrBlock[i]
           /\ addr[i].host = 1 => /\ addrBlock[Peer[i]] # NoBlock
                                 /\ addr[i].block = addrBlock[Peer[i]]
<1>1. CASE addrBlock[i] # NoBlock /\ addr[i] = [block |-> addrBlock[i], host |-> 0]
  BY <1>1
<1>2. CASE /\ addrBlock[i] = NoBlock /\ addrBlock[Peer[i]] # NoBlock
           /\ addr[i] = [block |-> addrBlock[Peer[i]], host |-> 1]
  BY <1>2
<1>. QED
  BY <1>1, <1>2, Holds

\* No two interfaces have one address, whatever is late or lost, but in a
\* block two roots gave.
THEOREM Unique == Spec => []UniqueAddress
<1>1. ASSUME IInv, NEW i \in Interface, NEW j \in Interface, i # j,
             addr[i] \in Address, addr[i] = addr[j]
      PROVE  Contested(addr[i].block)
  <2>0. TypeInv /\ Elected /\ Numbered /\ Allotted
    BY <1>1 DEF IInv
  <2>1. CASE addrBlock[i] # NoBlock
    <3>1. addr[i] = [block |-> addrBlock[i], host |-> 0]
      BY <1>1, <2>0, <2>1, Holds
    <3>2. addrBlock[j] # NoBlock /\ addrBlock[j] = addrBlock[i]
      <4>1. addr[j].host = 0 /\ addr[j].block = addrBlock[i]
        BY <1>1, <3>1
      <4>. QED
        BY <1>1, <2>0, <4>1, HoldsBlock
    <3>. QED
      BY <1>1, <2>0, <2>1, <3>1, <3>2 DEF Allotted
  <2>2. CASE addrBlock[i] = NoBlock
    <3>1. addrBlock[Peer[i]] # NoBlock /\ addr[i] = [block |-> addrBlock[Peer[i]], host |-> 1]
      BY <1>1, <2>0, <2>2, Holds
    <3>2. addrBlock[Peer[j]] = addrBlock[Peer[i]]
      <4>1. addr[j].host = 1 /\ addr[j].block = addrBlock[Peer[i]]
        BY <1>1, <3>1
      <4>. QED
        BY <1>1, <2>0, <4>1, HoldsBlock
    <3>3. Peer[i] \in Interface /\ Peer[j] \in Interface /\ Peer[i] # Peer[j]
      BY <1>1, Links
    <3>4. Contested(addrBlock[Peer[i]])
      BY <2>0, <3>1, <3>2, <3>3 DEF Allotted
    <3>5. addr[i].block = addrBlock[Peer[i]]
      BY <3>1
    <3>. QED
      BY <3>4, <3>5
  <2>. QED
    BY <2>1, <2>2
<1>2. IInv => UniqueAddress
  BY <1>1 DEF UniqueAddress
<1>. QED
  BY <1>2, Invariant, PTL

\* Of two leaders that took one block at most one keeps it once the
\* confirmations have arrived (AddrConfirmationController).
THEOREM Yield == Spec => []ContestedYield
<1>1. IInv => ContestedYield
  BY DEF IInv, Warned, ContestedYield
<1>. QED
  BY <1>1, Invariant, PTL

\* Both ends of a link number themselves from one block, unless a wait for
\* hellos ended before the peer was heard.
THEOREM Subnet == Spec => []SameSubnet
<1>1. ASSUME IInv, disturbed = 0, NEW i \in Interface,
             addr[i] \in Address, addr[Peer[i]] \in Address
      PROVE  addr[i].block = addr[Peer[i]].block
  <2>0. TypeInv /\ Elected /\ Numbered
    BY <1>1 DEF IInv
  <2>1. PICK p \in Interface : p = Peer[i] /\ Peer[p] = i
    BY Links
  <2>2. Owner[i] \in Nat /\ Owner[p] \in Nat /\ addr[p] \in Address
    BY <1>1, <2>1, Links
  <2>3. CASE addrBlock[i] # NoBlock
    <3>1. phase[i] = "LEADER" /\ addr[i].block = addrBlock[i]
      <4>1. phase[i] = "LEADER"
        BY <2>0, <2>3 DEF Numbered, NumberedAt
      <4>2. addr[i] = [block |-> addrBlock[i], host |-> 0]
        BY <1>1, <2>0, <2>3, Holds
      <4>. QED
        BY <4>1, <4>2
    <3>2. Owner[i] > Owner[p]
      BY <1>1, <2>0, <2>1, <3>1 DEF Elected
    <3>3. phase[p] # "LEADER"
      BY <1>1, <2>0, <2>1, <2>2, <3>2 DEF Elected
    <3>4. addrBlock[p] = NoBlock
      BY <2>0, <3>3 DEF Numbered, NumberedAt
    <3>5. addr[p] = [block |-> addrBlock[i], host |-> 1]
      BY <2>0, <2>1, <2>2, <3>4, Holds
    <3>. QED
      BY <2>1, <3>1, <3>5
  <2>4. CASE addrBlock[i] = NoBlock
    <3>1. addr[i] = [block |-> addrBlock[p], host |-> 1] /\ addrBlock[p] # NoBlock
      BY <1>1, <2>0, <2>1, <2>4, Holds
    <3>2. addr[p] = [block |-> addrBlock[p], host |-> 0]
      BY <2>0, <2>2, <3>1, Holds
    <3>. QED
      BY <2>1, <3>1, <3>2
  <2>. QED
    BY <2>3, <2>4
<1>2. IInv => SameSubnet
  BY <1>1 DEF SameSubnet
<1>. QED
  BY <1>2, Invariant, PTL

\* Once every chain has arrived all chains are equally long: no root keeps
\* extending a chain shorter than another's (AddrChainController).
THEOREM Level == Spec => []ChainsLevel
<1>1. ASSUME IInv, chainMsg = {}, NEW r \in Router, NEW s \in Router
      PROVE  Len(chain[r]) = Len(chain[s])
  <2>1. Len(chain[r]) \in Nat /\ Len(chain[s]) \in Nat
    BY <1>1 DEF IInv, TypeInv
  <2>2. ~(Len(chain[r]) < Len(chain[s])) /\ ~(Len(chain[s]) < Len(chain[r]))
    BY <1>1 DEF IInv, Catching
  <2>. QED
    BY <2>1, <2>2
<1>2. IInv => ChainsLevel
  BY <1>1 DEF ChainsLevel
<1>. QED
  BY <1>2, Invariant, PTL
=============================================================================
