-------------------------- MODULE AddrServedProofs --------------------------
(***************************************************************************)
(* No interface is left for good without an address (NoneStranded), for    *)
(* every network of two-ended links with at least one root: a leader that  *)
(* refuses the one answer it gets knows the block as one that two roots    *)
(* gave.                                                                   *)
(***************************************************************************)
EXTENDS AddrAssignProofs

Taken(b) == \E k \in Interface : addrBlock[k] = b
Recorded(c) == \A k \in 1 .. Len(c) : \A b \in c[k].records : Taken(b)

\* What is confirmed, known, to be recorded or recorded was taken.
Traced ==
    /\ \A m \in conf : Taken(m.block)
    /\ \A r \in Router : \A b \in known[r] \cup validator[r] : Taken(b)
    /\ \A r \in Root : \A b \in blockBuffer[r] \cup prevBuffer[r] : Taken(b)
    /\ \A r \in Router : Recorded(chain[r])
    /\ \A m \in chainMsg : Recorded(m.chain)

\* Every other router knows a block that was taken or is about to.
Hears(r, b) == b \in known[r] \/ \E m \in conf : m.to = r /\ m.block = b
Spread ==
    \A k \in Interface : \A r \in Router \ {Owner[k]} :
        addrBlock[k] # NoBlock => Hears(r, addrBlock[k])

\* The pools met in a block that r has or hears of.
Cornered(r) ==
    \E b \in Nat :
        /\ Contested(b)
        /\ Hears(r, b) \/ \E k \in Interface : Owner[k] = r /\ addrBlock[k] = b

\* The one request of i has still to bring an answer.
Waits(i) ==
    pending[i] /\ ((\E r \in Root : <<i, r>> \in req) \/ \E o \in offer : o.to = i)

Decided == \A i \in Interface : phase[i] = "LEADER" => leader[i] # 0
Asked ==
    disturbed = 0 => \A i \in Interface :
        phase[i] = "LEADER" /\ addrBlock[i] = NoBlock => Waits(i) \/ Cornered(Owner[i])

SInv == Traced /\ Spread /\ Decided /\ Asked

-----------------------------------------------------------------------------
LEMMA SInit == ASSUME Init PROVE SInv
<1>1. Traced
  BY RouterAssumption DEF Init, Traced, Recorded
<1>2. Spread
  BY DEF Init, Spread
<1>3. Decided /\ Asked
  BY DEF Init, Decided, Asked
<1>. QED
  BY <1>1, <1>2, <1>3 DEF SInv

\* A block is taken by an interface that has none, and announced.
LEMMA TakeFacts ==
    ASSUME IInv, NEW i \in Interface, NEW b \in Nat, NEW g, addrBlock[i] = NoBlock,
           TakeBlock(i, b), Confirm(Owner[i], b, {g})
    PROVE  /\ addrBlock'[i] = b /\ \A j \in Interface \ {i} : addrBlock'[j] = addrBlock[j]
           /\ \A k \in Interface : addrBlock[k] # NoBlock => addrBlock'[k] = addrBlock[k]
           /\ conf \subseteq conf' /\ \A m \in conf' \ conf : m.block = b
           /\ \A r \in Router \ {Owner[i]} : \E m \in conf' : m.to = r /\ m.block = b
<1>1. /\ addrBlock'[i] = b /\ \A j \in Interface \ {i} : addrBlock'[j] = addrBlock[j]
      /\ \A k \in Interface : addrBlock[k] # NoBlock => addrBlock'[k] = addrBlock[k]
  BY DEF IInv, TypeInv, TypeOK, TakeBlock
<1>2. conf \subseteq conf' /\ \A m \in conf' \ conf : m.block = b
  BY DEF Confirm
<1>3. ASSUME NEW r \in Router \ {Owner[i]} PROVE \E m \in conf' : m.to = r /\ m.block = b
  <2>1. [block |-> b, giver |-> g, to |-> r] \in conf'
    BY <1>3 DEF Confirm, Others
  <2>. QED
    BY <2>1
<1>. QED
  BY <1>1, <1>2, <1>3

\* The two ways to take a block.
LEMMA RootTakes ==
    ASSUME IInv, NEW i \in Interface, BecomeRootLeader(i)
    PROVE  \E b \in Nat : /\ TakeBlock(i, b) /\ Confirm(Owner[i], b, {0})
                          /\ addrBlock[i] = NoBlock
                          /\ \A r \in Root : blockBuffer'[r] \subseteq blockBuffer[r] \cup {b}
<1>1. PICK b \in Nat : b = ptr[Owner[i]]
  BY DEF BecomeRootLeader, IsRoot, IInv, TypeInv, TypeOK
<1>2. TakeBlock(i, b) /\ Confirm(Owner[i], b, {0})
  BY <1>1 DEF BecomeRootLeader
<1>3. phase[i] = "WAITING"
  BY DEF BecomeRootLeader, EndWait
<1>4. addrBlock[i] = NoBlock
  BY <1>3 DEF IInv, Numbered, NumberedAt
<1>5. \A r \in Root : blockBuffer'[r] \subseteq blockBuffer[r] \cup {b}
  BY <1>1 DEF BecomeRootLeader, IInv, TypeInv, TypeOK
<1>. QED
  BY <1>2, <1>4, <1>5

LEMMA OfferTakes ==
    ASSUME IInv, NEW o \in offer, ReceiveOffer(o), ~UNCHANGED <<addrVars, conf>>
    PROVE  /\ o.to \in Interface /\ o.block \in Nat /\ addrBlock[o.to] = NoBlock
           /\ TakeBlock(o.to, o.block) /\ Confirm(Owner[o.to], o.block, {o.giver})
<1>1. o.to \in Interface /\ o.block \in Nat
  BY BlockTypes DEF IInv
<1>2. /\ Acceptable(o.to, o.block)
      /\ TakeBlock(o.to, o.block) /\ Confirm(Owner[o.to], o.block, {o.giver})
  BY DEF ReceiveOffer
<1>3. addr[o.to] = Unset
  BY <1>2 DEF Acceptable
<1>4. addrBlock[o.to] = NoBlock
  <2>1. addrBlock[o.to] # NoBlock =>
          addr[o.to] \in {[block |-> addrBlock[o.to], host |-> 0], Fallback}
    BY <1>1 DEF IInv, Numbered, NumberedAt
  <2>2. addr[o.to].block = NoBlock
    BY <1>3 DEF Unset, NoBlock
  <2>. QED
    BY <2>1, <2>2 DEF Fallback, NoBlock
<1>. QED
  BY <1>1, <1>2, <1>4

\* Blocks that were taken are kept, and so is what is known of them.
LEMMA BlocksStay ==
    ASSUME IInv, Next
    PROVE  \A k \in Interface : addrBlock[k] # NoBlock => addrBlock'[k] = addrBlock[k]
<1>1. ASSUME NEW i \in Interface, BecomeRootLeader(i)
      PROVE  \A k \in Interface : addrBlock[k] # NoBlock => addrBlock'[k] = addrBlock[k]
  BY <1>1, RootTakes, TakeFacts
<1>2. ASSUME NEW o \in offer, ReceiveOffer(o)
      PROVE  \A k \in Interface : addrBlock[k] # NoBlock => addrBlock'[k] = addrBlock[k]
  <2>1. CASE UNCHANGED <<addrVars, conf>>
    BY <2>1 DEF addrVars
  <2>2. CASE ~UNCHANGED <<addrVars, conf>>
    BY <1>2, <2>2, OfferTakes, TakeFacts
  <2>. QED
    BY <2>1, <2>2
<1>3. ASSUME \/ \E i \in Interface :
                  \/ Hello(i) \/ IdleHello(i) \/ BecomeLeader(i) \/ BecomeNormal(i)
                  \/ LocalRequest(i) \/ IdleRequest(i) \/ ReceiveLocal(i) \/ ExpirePit(i)
                  \/ \E r \in Root : AnswerBroadcast(i, r)
             \/ \E m \in conf : ReceiveConf(m)
             \/ \E m \in chainMsg : ReceiveChain(m)
             \/ \E r \in Root : GenerateBlock(r) \/ \E b \in expire[r] : RevokeAssignment(r, b)
      PROVE  addrBlock' = addrBlock
  BY <1>3 DEF Hello, IdleHello, BecomeLeader, BecomeNormal, LocalRequest, IdleRequest, ReceiveLocal,
     ExpirePit, AnswerBroadcast, ReceiveConf, ReceiveChain, GenerateBlock, RevokeAssignment,
     vars, addrVars
<1>. QED
  BY <1>1, <1>2, <1>3 DEF Next

LEMMA TakenStays ==
    ASSUME IInv, Next
    PROVE  \A b \in Nat : Taken(b) => Taken(b)'
BY BlocksStay DEF Taken, NoBlock

LEMMA ContestedStays ==
    ASSUME IInv, Next
    PROVE  \A b \in Nat : Contested(b) => Contested(b)'
<1>1. start' = start /\ \A r \in Root : ptr'[r] \in Nat /\ ptr'[r] >= ptr[r]
  <2>1. ptr \in [Root -> Nat]
    BY DEF IInv, TypeInv, TypeOK
  <2>2. ASSUME NEW r \in Root, ptr' = [ptr EXCEPT ![r] = ptr[r] + 1]
        PROVE  \A s \in Root : ptr'[s] \in Nat /\ ptr'[s] >= ptr[s]
    BY <2>1, <2>2
  <2>3. ASSUME NEW i \in Interface, BecomeRootLeader(i)
        PROVE  start' = start /\ \E r \in Root : ptr' = [ptr EXCEPT ![r] = ptr[r] + 1]
    BY <2>3 DEF BecomeRootLeader, IsRoot
  <2>4. ASSUME NEW i \in Interface, NEW r \in Root, AnswerBroadcast(i, r)
        PROVE  start' = start /\ ptr' = [ptr EXCEPT ![r] = ptr[r] + 1]
    BY <2>4 DEF AnswerBroadcast
  <2>5. ASSUME \/ \E i \in Interface :
                    \/ Hello(i) \/ IdleHello(i) \/ BecomeLeader(i) \/ BecomeNormal(i)
                    \/ LocalRequest(i) \/ IdleRequest(i) \/ ReceiveLocal(i) \/ ExpirePit(i)
               \/ \E o \in offer : ReceiveOffer(o)
               \/ \E m \in conf : ReceiveConf(m)
               \/ \E m \in chainMsg : ReceiveChain(m)
               \/ \E r \in Root : GenerateBlock(r) \/ \E b \in expire[r] : RevokeAssignment(r, b)
        PROVE  UNCHANGED <<start, ptr>>
    BY <2>5 DEF Hello, IdleHello, BecomeLeader, BecomeNormal, LocalRequest, IdleRequest,
       ReceiveLocal, ExpirePit, ReceiveOffer, ReceiveConf, ReceiveChain, GenerateBlock,
       RevokeAssignment, vars, rootVars
  <2>6. /\ start' = start
        /\ ptr' = ptr \/ \E r \in Root : ptr' = [ptr EXCEPT ![r] = ptr[r] + 1]
    BY <2>3, <2>4, <2>5 DEF Next
  <2>. QED
    BY <2>1, <2>2, <2>6
<1>. QED
  BY <1>1, GivenStays DEF IInv

-----------------------------------------------------------------------------
(* Where blocks are named.                                                 *)

LEMMA TracedTypes ==
    ASSUME TypeInv
    PROVE  /\ \A m \in conf : m.block \in Nat /\ m.to \in Router
           /\ \A r \in Router : known[r] \subseteq Nat /\ validator[r] \subseteq Nat
           /\ \A r \in Root : blockBuffer[r] \cup prevBuffer[r] \subseteq Nat
           /\ \A r \in Router : chain[r] \in Seq(Block)
           /\ \A m \in chainMsg : m.chain \in Seq(Block) /\ m.to \in Router
BY DEF TypeInv, TypeOK

\* Recorded blocks stay taken.
LEMMA RecordedStays ==
    ASSUME \A b \in Nat : Taken(b) => Taken(b)', NEW c \in Seq(Block), Recorded(c)
    PROVE  Recorded(c)'
<1> SUFFICES ASSUME NEW k \in 1 .. Len(c), NEW b \in c[k].records PROVE Taken(b)'
  BY DEF Recorded
<1>1. c[k] \in Block
  OBVIOUS
<1>2. b \in Nat
  BY <1>1 DEF Block
<1>3. Taken(b)
  BY DEF Recorded
<1>. QED
  BY <1>2, <1>3

\* A step that leaves the chains alone and names only blocks that are taken.
LEMMA TracedKept ==
    ASSUME TypeInv, Traced, \A b \in Nat : Taken(b) => Taken(b)',
           UNCHANGED <<prevBuffer, chain, validator, chainMsg>>,
           \A m \in conf' \ conf : Taken(m.block)',
           \A r \in Router : \A b \in known'[r] \ known[r] : Taken(b)',
           \A r \in Root : \A b \in blockBuffer'[r] \ blockBuffer[r] : Taken(b)'
    PROVE  Traced'
<1>1. \A m \in conf' : Taken(m.block)'
  BY TracedTypes DEF Traced
<1>2. \A r \in Router : \A b \in known'[r] \cup validator'[r] : Taken(b)'
  BY TracedTypes DEF Traced
<1>3. \A r \in Root : \A b \in blockBuffer'[r] \cup prevBuffer'[r] : Taken(b)'
  BY TracedTypes DEF Traced
<1>4. ASSUME NEW r \in Router PROVE Recorded(chain[r])'
  <2>1. chain[r] \in Seq(Block) /\ Recorded(chain[r]) /\ chain'[r] = chain[r]
    BY TracedTypes DEF Traced
  <2>2. PICK c : c = chain[r]
    OBVIOUS
  <2>3. Recorded(c)'
    BY <2>1, <2>2, RecordedStays
  <2>. QED
    BY <2>1, <2>2, <2>3 DEF Recorded
<1>5. ASSUME NEW m \in chainMsg' PROVE Recorded(m.chain)'
  <2>1. m.chain \in Seq(Block) /\ Recorded(m.chain)
    BY TracedTypes DEF Traced
  <2>. QED
    BY <2>1, RecordedStays
<1>. QED
  BY <1>1, <1>2, <1>3, <1>4, <1>5 DEF Traced

LEMMA RecordedAppend ==
    ASSUME NEW c \in Seq(Block), Recorded(c), NEW blk \in Block, \A b \in blk.records : Taken(b)
    PROVE  Recorded(Append(c, blk))
<1> SUFFICES ASSUME NEW k \in 1 .. Len(Append(c, blk)), NEW b \in Append(c, blk)[k].records
             PROVE  Taken(b)
  BY DEF Recorded
<1>1. CASE k \in 1 .. Len(c)
  <2>1. Append(c, blk)[k] = c[k]
    BY <1>1
  <2>. QED
    BY <1>1, <2>1 DEF Recorded
<1>2. CASE k \notin 1 .. Len(c)
  <2>1. Append(c, blk)[k] = blk
    BY <1>2
  <2>. QED
    BY <2>1
<1>. QED
  BY <1>1, <1>2

\* A root records what it has to record.
LEMMA TracedGenerate ==
    ASSUME IInv, Traced, NEW r \in Root, GenerateBlock(r)
    PROVE  Traced'
<1>0. TypeInv /\ r \in Router
  BY RouterAssumption DEF IInv
<1> DEFINE flushed == SubSeq(chain[r], 1, Len(estimated[r])) # estimated[r]
           again == IF flushed THEN prevBuffer[r] ELSE {}
<1>1. PICK blk : blk = [by |-> r, records |-> blockBuffer[r] \cup again]
  OBVIOUS
<1>2. PICK new : new = Append(chain[r], blk)
  OBVIOUS
<1>3. /\ chain' = [chain EXCEPT ![r] = new]
      /\ \A m \in chainMsg' \ chainMsg : m.chain = new
      /\ blockBuffer' = [blockBuffer EXCEPT ![r] = {}]
      /\ prevBuffer' = [prevBuffer EXCEPT ![r] = blockBuffer'[r]]
  BY <1>1, <1>2 DEF GenerateBlock
<1>4. UNCHANGED <<conf, known, validator, addrBlock>>
  BY DEF GenerateBlock, confVars, addrVars
<1>5. \A b : Taken(b) <=> Taken(b)'
  BY <1>4 DEF Taken
<1>6. blk \in Block /\ \A b \in blk.records : Taken(b)
  <2>1. blk.records \subseteq blockBuffer[r] \cup prevBuffer[r] /\ blk.by = r
    BY <1>1
  <2>2. blk.records \subseteq Nat
    BY <1>0, <2>1, TracedTypes
  <2>3. blk \in Block
    BY <1>1, <2>2 DEF Block
  <2>. QED
    BY <2>1, <2>3 DEF Traced
<1>7. Recorded(new)
  BY <1>0, <1>2, <1>6, TracedTypes, RecordedAppend DEF Traced
<1>8. \A c : Recorded(c) => Recorded(c)'
  BY <1>4 DEF Recorded, Taken
<1>9. \A s \in Router : chain'[s] \in {new, chain[s]}
  BY <1>0, <1>3, TracedTypes DEF TypeInv
<1>10. \A s \in Router : Recorded(chain'[s])
  BY <1>7, <1>9 DEF Traced
<1>11. \A s \in Router : Recorded(chain[s])'
  BY <1>4, <1>10 DEF Recorded, Taken
<1>12. \A m \in chainMsg' : Recorded(m.chain)'
  BY <1>3, <1>7, <1>8 DEF Traced
<1>13. \A s \in Root : blockBuffer'[s] \cup prevBuffer'[s] \subseteq blockBuffer[s] \cup prevBuffer[s]
  BY <1>0, <1>3 DEF TypeInv, TypeOK
<1>14. \A s \in Root : \A b \in blockBuffer'[s] \cup prevBuffer'[s] : Taken(b)'
  BY <1>5, <1>13 DEF Traced
<1>15. /\ \A m \in conf' : Taken(m.block)'
       /\ \A s \in Router : \A b \in known'[s] \cup validator'[s] : Taken(b)'
  BY <1>4, <1>5 DEF Traced
<1>. QED
  BY <1>11, <1>12, <1>14, <1>15 DEF Traced

LEMMA TracedReceive ==
    ASSUME IInv, Traced, NEW m \in chainMsg, ReceiveChain(m)
    PROVE  Traced'
<1>0. TypeInv /\ m.to \in Router /\ m.chain \in Seq(Block) /\ Recorded(m.chain)
  BY TracedTypes DEF IInv, Traced
<1>1. /\ chain' = [chain EXCEPT ![m.to] = m.chain]
      /\ validator' = [validator EXCEPT ![m.to] =
                         UNION {m.chain[k].records : k \in 1 .. Len(m.chain)}]
      /\ chainMsg' \subseteq chainMsg
      /\ UNCHANGED <<conf, known, addrBlock, blockBuffer, prevBuffer>>
  BY DEF ReceiveChain, confVars, addrVars
<1>2. \A b : Taken(b) <=> Taken(b)'
  BY <1>1 DEF Taken
<1>3. \A s \in Router : chain'[s] \in {m.chain, chain[s]}
  BY <1>0, <1>1 DEF TypeInv
<1>4. \A s \in Router : Recorded(chain'[s])
  BY <1>0, <1>3 DEF Traced
<1>5. \A s \in Router : Recorded(chain[s])'
  BY <1>1, <1>4 DEF Recorded, Taken
<1>6. \A n \in chainMsg' : Recorded(n.chain)'
  BY <1>1 DEF Traced, Recorded, Taken
<1>7. \A s \in Router :
        validator'[s] \in {validator[s], UNION {m.chain[k].records : k \in 1 .. Len(m.chain)}}
  BY <1>0, <1>1 DEF TypeInv, TypeOK
<1>8. \A b \in UNION {m.chain[k].records : k \in 1 .. Len(m.chain)} : Taken(b)
  BY <1>0 DEF Recorded
<1>9. \A s \in Router : \A b \in known'[s] \cup validator'[s] : Taken(b)'
  BY <1>1, <1>2, <1>7, <1>8 DEF Traced
<1>10. /\ \A n \in conf' : Taken(n.block)'
       /\ \A s \in Root : \A b \in blockBuffer'[s] \cup prevBuffer'[s] : Taken(b)'
  BY <1>1, <1>2 DEF Traced
<1>. QED
  BY <1>5, <1>6, <1>9, <1>10 DEF Traced

LEMMA TracedStep ==
    ASSUME IInv, Traced, Next
    PROVE  Traced'
<1>0. TypeInv /\ \A b \in Nat : Taken(b) => Taken(b)'
  BY TakenStays DEF IInv
<1>1. ASSUME NEW i \in Interface, BecomeRootLeader(i)
      PROVE  Traced'
  <2>1. PICK b \in Nat : /\ TakeBlock(i, b) /\ Confirm(Owner[i], b, {0})
                         /\ addrBlock[i] = NoBlock
                         /\ \A r \in Root : blockBuffer'[r] \subseteq blockBuffer[r] \cup {b}
    BY <1>1, RootTakes
  <2>2. Taken(b)' /\ \A m \in conf' \ conf : m.block = b
    BY <2>1, TakeFacts DEF Taken
  <2>3. UNCHANGED <<prevBuffer, chain, validator, chainMsg, known>>
    BY <1>1 DEF BecomeRootLeader
  <2>4. /\ \A m \in conf' \ conf : Taken(m.block)'
        /\ \A r \in Root : \A c \in blockBuffer'[r] \ blockBuffer[r] : Taken(c)'
        /\ \A r \in Router : known'[r] \ known[r] = {}
    BY <2>1, <2>2, <2>3
  <2>. QED
    BY <1>0, <2>3, <2>4, TracedKept
<1>2. ASSUME NEW o \in offer, ReceiveOffer(o)
      PROVE  Traced'
  <2>1. UNCHANGED <<prevBuffer, chain, validator, chainMsg, known, blockBuffer>>
    BY <1>2 DEF ReceiveOffer, chainVars
  <2>2. \A m \in conf' \ conf : Taken(m.block)'
    <3>1. CASE conf' = conf
      BY <3>1
    <3>2. CASE conf' # conf
      <4>1. o.to \in Interface /\ addrBlock'[o.to] = o.block /\ \A m \in conf' \ conf : m.block = o.block
        BY <1>2, <3>2, OfferTakes, TakeFacts
      <4>. QED
        BY <4>1 DEF Taken
    <3>. QED
      BY <3>1, <3>2
  <2>. QED
    BY <1>0, <2>1, <2>2, TracedKept
<1>3. ASSUME NEW m \in conf, ReceiveConf(m)
      PROVE  Traced'
  <2>1. /\ conf' = conf \ {m} /\ known' = [known EXCEPT ![m.to] = @ \cup {m.block}]
        /\ UNCHANGED <<prevBuffer, chain, validator, chainMsg>>
    BY <1>3 DEF ReceiveConf
  <2>2. \A r \in Root : blockBuffer'[r] \subseteq blockBuffer[r] \cup {m.block}
    BY <1>0, <1>3 DEF ReceiveConf, TypeInv, TypeOK
  <2>3. Taken(m.block)' /\ \A r \in Router : known'[r] \subseteq known[r] \cup {m.block}
    BY <1>0, <2>1, TracedTypes DEF Traced, TypeInv, TypeOK
  <2>. QED
    BY <1>0, <2>1, <2>2, <2>3, TracedKept
<1>4. ASSUME \/ \E i \in Interface :
                  \/ Hello(i) \/ IdleHello(i) \/ BecomeLeader(i) \/ BecomeNormal(i)
                  \/ LocalRequest(i) \/ IdleRequest(i) \/ ReceiveLocal(i) \/ ExpirePit(i)
                  \/ \E r \in Root : AnswerBroadcast(i, r)
             \/ \E r \in Root : \E b \in expire[r] : RevokeAssignment(r, b)
      PROVE  Traced'
  <2>1. UNCHANGED <<conf, known, blockBuffer, prevBuffer, chain, validator, chainMsg>>
    BY <1>4 DEF Hello, IdleHello, BecomeLeader, BecomeNormal, LocalRequest, IdleRequest,
       ReceiveLocal, ExpirePit, AnswerBroadcast, RevokeAssignment, vars, confVars, chainVars
  <2>. QED
    BY <1>0, <2>1, TracedKept
<1>. QED
  BY <1>1, <1>2, <1>3, <1>4, TracedGenerate, TracedReceive DEF Next

-----------------------------------------------------------------------------
(* Who knows of a block.                                                   *)

\* What a router hears it knows sooner or later, and does not forget.
LEMMA HearsStays ==
    ASSUME IInv, Next
    PROVE  \A r \in Router : \A b \in Nat : Hears(r, b) => Hears(r, b)'
<1>0. TypeInv
  BY DEF IInv
<1>1. ASSUME NEW m \in conf, ReceiveConf(m)
      PROVE  \A r \in Router : \A b \in Nat : Hears(r, b) => Hears(r, b)'
  <2>1. conf' = conf \ {m} /\ known' = [known EXCEPT ![m.to] = @ \cup {m.block}]
    BY <1>1 DEF ReceiveConf
  <2>2. \A r \in Router : /\ known[r] \subseteq known'[r]
                          /\ r = m.to => m.block \in known'[r]
    BY <1>0, <2>1 DEF TypeInv, TypeOK
  <2>. QED
    BY <2>1, <2>2 DEF Hears
<1>2. ASSUME known' = known, conf \subseteq conf'
      PROVE  \A r \in Router : \A b \in Nat : Hears(r, b) => Hears(r, b)'
  BY <1>2 DEF Hears
<1>3. ASSUME NEW i \in Interface, BecomeRootLeader(i)
      PROVE  known' = known /\ conf \subseteq conf'
  BY <1>3 DEF BecomeRootLeader, Confirm
<1>4. ASSUME NEW o \in offer, ReceiveOffer(o)
      PROVE  known' = known /\ conf \subseteq conf'
  BY <1>4 DEF ReceiveOffer, Confirm
<1>5. ASSUME \/ \E i \in Interface :
                  \/ Hello(i) \/ IdleHello(i) \/ BecomeLeader(i) \/ BecomeNormal(i)
                  \/ LocalRequest(i) \/ IdleRequest(i) \/ ReceiveLocal(i) \/ ExpirePit(i)
                  \/ \E r \in Root : AnswerBroadcast(i, r)
             \/ \E m \in chainMsg : ReceiveChain(m)
             \/ \E r \in Root : GenerateBlock(r) \/ \E b \in expire[r] : RevokeAssignment(r, b)
      PROVE  known' = known /\ conf \subseteq conf'
  BY <1>5 DEF Hello, IdleHello, BecomeLeader, BecomeNormal, LocalRequest, IdleRequest,
     ReceiveLocal, ExpirePit, AnswerBroadcast, ReceiveChain, GenerateBlock, RevokeAssignment,
     vars, confVars
<1>. QED
  BY <1>1, <1>2, <1>3, <1>4, <1>5 DEF Next

\* Only the two actions that take a block change who has one.
LEMMA SpreadStep ==
    ASSUME IInv, Spread, Next
    PROVE  Spread'
<1>0. TypeInv /\ \A k \in Interface : addrBlock[k] # NoBlock => addrBlock[k] \in Nat
  BY BlockTypes DEF IInv
<1>1. ASSUME NEW k \in Interface, NEW r \in Router \ {Owner[k]}, NEW c, c # NoBlock, addrBlock[k] = c
      PROVE  Hears(r, c)'
  <2>1. c \in Nat /\ Hears(r, c)
    BY <1>0, <1>1 DEF Spread
  <2>. QED
    BY <2>1, HearsStays
<1>2. ASSUME NEW i \in Interface, NEW b \in Nat, addrBlock'[i] = b,
             \A j \in Interface \ {i} : addrBlock'[j] = addrBlock[j],
             \A r \in Router \ {Owner[i]} : \E m \in conf' : m.to = r /\ m.block = b
      PROVE  Spread'
  <2>1. ASSUME NEW k \in Interface, NEW r \in Router \ {Owner[k]}, NEW c, c # NoBlock,
               addrBlock'[k] = c
        PROVE  Hears(r, c)'
    <3>1. CASE k = i
      BY <1>2, <2>1, <3>1 DEF Hears
    <3>2. CASE k # i
      BY <1>1, <1>2, <2>1, <3>2
    <3>. QED
      BY <3>1, <3>2
  <2>. QED
    BY <2>1 DEF Spread, Hears
<1>3. ASSUME addrBlock' = addrBlock PROVE Spread'
  <2>1. ASSUME NEW k \in Interface, NEW r \in Router \ {Owner[k]}, NEW c, c # NoBlock,
               addrBlock'[k] = c
        PROVE  Hears(r, c)'
    BY <1>1, <1>3, <2>1
  <2>. QED
    BY <2>1 DEF Spread, Hears
<1>4. ASSUME NEW i \in Interface, BecomeRootLeader(i) PROVE Spread'
  <2>1. PICK b \in Nat : /\ TakeBlock(i, b) /\ Confirm(Owner[i], b, {0})
                         /\ addrBlock[i] = NoBlock
    BY <1>4, RootTakes
  <2>2. /\ addrBlock'[i] = b /\ \A j \in Interface \ {i} : addrBlock'[j] = addrBlock[j]
        /\ \A r \in Router \ {Owner[i]} : \E m \in conf' : m.to = r /\ m.block = b
    BY <2>1, TakeFacts
  <2>. QED
    BY <1>2, <2>2
<1>5. ASSUME NEW o \in offer, ReceiveOffer(o) PROVE Spread'
  <2>1. CASE UNCHANGED <<addrVars, conf>>
    BY <1>3, <2>1 DEF addrVars
  <2>2. CASE ~UNCHANGED <<addrVars, conf>>
    <3>1. PICK i \in Interface, b \in Nat :
            /\ TakeBlock(i, b) /\ Confirm(Owner[i], b, {o.giver}) /\ addrBlock[i] = NoBlock
      BY <1>5, <2>2, OfferTakes
    <3>2. /\ addrBlock'[i] = b /\ \A j \in Interface \ {i} : addrBlock'[j] = addrBlock[j]
          /\ \A r \in Router \ {Owner[i]} : \E m \in conf' : m.to = r /\ m.block = b
      BY <3>1, TakeFacts
    <3>. QED
      BY <1>2, <3>2
  <2>. QED
    BY <2>1, <2>2
<1>6. ASSUME \/ \E i \in Interface :
                  \/ Hello(i) \/ IdleHello(i) \/ BecomeLeader(i) \/ BecomeNormal(i)
                  \/ LocalRequest(i) \/ IdleRequest(i) \/ ReceiveLocal(i) \/ ExpirePit(i)
                  \/ \E r \in Root : AnswerBroadcast(i, r)
             \/ \E m \in conf : ReceiveConf(m)
             \/ \E m \in chainMsg : ReceiveChain(m)
             \/ \E r \in Root : GenerateBlock(r) \/ \E b \in expire[r] : RevokeAssignment(r, b)
      PROVE  addrBlock' = addrBlock
  BY <1>6 DEF Hello, IdleHello, BecomeLeader, BecomeNormal, LocalRequest, IdleRequest, ReceiveLocal,
     ExpirePit, AnswerBroadcast, ReceiveConf, ReceiveChain, GenerateBlock, RevokeAssignment,
     vars, addrVars
<1>. QED
  BY <1>3, <1>4, <1>5, <1>6 DEF Next

\* A router stays cornered.
LEMMA CorneredStays ==
    ASSUME IInv, Next, NEW r \in Router, Cornered(r)
    PROVE  Cornered(r)'
<1>1. PICK b \in Nat : /\ Contested(b)
                       /\ Hears(r, b) \/ \E k \in Interface : Owner[k] = r /\ addrBlock[k] = b
  BY DEF Cornered
<1>2. Contested(b)'
  BY <1>1, ContestedStays
<1>3. Hears(r, b) => Hears(r, b)'
  BY HearsStays
<1>4. \A k \in Interface : addrBlock[k] = b => addrBlock'[k] = b
  BY BlocksStay DEF NoBlock
<1>. QED
  BY <1>1, <1>2, <1>3, <1>4 DEF Cornered

\* A leader's leader is itself, if no wait was cut short.
LEMMA LeaderLeads ==
    ASSUME IInv, Decided, disturbed = 0, NEW i \in Interface, phase[i] = "LEADER"
    PROVE  leader[i] = Owner[i] /\ Owner[i] > Owner[Peer[i]]
<1>1. Owner[i] > Owner[Peer[i]] /\ leader[i] \in {0, Owner[i], Owner[Peer[i]]} /\ leader[i] # 0
  BY DEF IInv, Elected, Decided
<1>2. Peer[i] \in Interface /\ Peer[Peer[i]] = i /\ Owner[i] \in Nat /\ Owner[Peer[i]] \in Nat
  BY Links
<1>3. ~Named(Peer[i])
  <2>1. phase[Peer[i]] # "LEADER"
    BY <1>1, <1>2 DEF IInv, Elected
  <2>. QED
    BY <1>2, <2>1 DEF Named
<1>4. leader[i] # Owner[Peer[i]]
  BY <1>3 DEF IInv, Elected
<1>. QED
  BY <1>1, <1>4

LEMMA DecidedStep ==
    ASSUME IInv, Decided, Next
    PROVE  Decided'
<1>0. TypeInv
  BY DEF IInv
<1>1. ASSUME NEW i \in Interface, Hello(i) PROVE Decided'
  <2>1. phase' = phase /\ leader' = [leader EXCEPT ![Peer[i]] = Max2(@, leader[i])]
    BY <1>1 DEF Hello
  <2>2. leader[i] \in Nat /\ leader[Peer[i]] \in Nat /\ Peer[i] \in Interface
    BY <1>0, Links, LeadersInNat
  <2>3. Max2(leader[Peer[i]], leader[i]) >= leader[Peer[i]]
        /\ Max2(leader[Peer[i]], leader[i]) \in Nat
    BY <2>2, Larger
  <2>4. leader'[Peer[i]] = Max2(leader[Peer[i]], leader[i])
        /\ \A j \in Interface \ {Peer[i]} : leader'[j] = leader[j]
    BY <1>0, <2>1, <2>2 DEF TypeInv, TypeOK
  <2>5. leader[Peer[i]] # 0 => leader'[Peer[i]] # 0
    BY <2>2, <2>3, <2>4
  <2>. QED
    BY <2>1, <2>4, <2>5 DEF Decided
<1>2. ASSUME NEW i \in Interface, BecomeRootLeader(i) \/ BecomeLeader(i) PROVE Decided'
  <2>1. /\ leader' = [leader EXCEPT ![i] = Owner[i]]
        /\ phase' = [phase EXCEPT ![i] = "LEADER"]
    BY <1>2 DEF BecomeRootLeader, BecomeLeader, EndWait
  <2>2. Owner[i] # 0
    BY Links
  <2>. QED
    BY <1>0, <2>1, <2>2 DEF Decided, TypeInv, TypeOK
<1>3. ASSUME NEW i \in Interface, BecomeNormal(i) PROVE Decided'
  BY <1>0, <1>3 DEF BecomeNormal, EndWait, Decided, TypeInv, TypeOK
<1>4. ASSUME \/ \E i \in Interface :
                  \/ IdleHello(i) \/ LocalRequest(i) \/ IdleRequest(i) \/ ReceiveLocal(i)
                  \/ ExpirePit(i) \/ \E r \in Root : AnswerBroadcast(i, r)
             \/ \E o \in offer : ReceiveOffer(o)
             \/ \E m \in conf : ReceiveConf(m)
             \/ \E m \in chainMsg : ReceiveChain(m)
             \/ \E r \in Root : GenerateBlock(r) \/ \E b \in expire[r] : RevokeAssignment(r, b)
      PROVE  UNCHANGED <<phase, leader>>
  BY <1>4 DEF IdleHello, LocalRequest, IdleRequest, ReceiveLocal, ExpirePit, AnswerBroadcast,
     ReceiveOffer, ReceiveConf, ReceiveChain, GenerateBlock, RevokeAssignment, vars, electVars
<1>5. UNCHANGED <<phase, leader>> => Decided'
  BY DEF Decided
<1>. QED
  BY <1>1, <1>2, <1>3, <1>4, <1>5 DEF Next

-----------------------------------------------------------------------------
(* The one request of a leader.                                            *)

\* Faults only add up.
LEMMA FaultsAdd ==
    ASSUME IInv, Next, disturbed' = 0
    PROVE  disturbed = 0
<1>0. disturbed \in Nat
  BY PoolAssumption DEF IInv, TypeInv, TypeOK
<1>1. UNCHANGED disturbed \/ disturbed' = disturbed + 1
  BY DEF Next, Hello, IdleHello, BecomeRootLeader, BecomeLeader, BecomeNormal, EndWait, OnTime,
     Disturb, LocalRequest, IdleRequest, ReceiveLocal, ExpirePit, AnswerBroadcast, ReceiveOffer,
     ReceiveConf, ReceiveChain, GenerateBlock, RevokeAssignment, vars
<1>. QED
  BY <1>0, <1>1

\* A refused block was given by two roots, and the leader hears of it.
LEMMA RefusedCorners ==
    ASSUME IInv, SInv, disturbed = 0, NEW o \in offer, NEW i \in Interface, o.to = i,
           phase[i] = "LEADER", addrBlock[i] = NoBlock, ~Acceptable(i, o.block)
    PROVE  Cornered(Owner[i])
<1>0. o.block \in Nat /\ Owner[i] \in Router
  BY BlockTypes, Links DEF IInv
<1>1. leader[i] = Owner[i]
  BY LeaderLeads DEF SInv
<1>2. addr[i] = Unset
  BY DEF IInv, Numbered, NumberedAt
<1>3. o.block \in known[Owner[i]] \cup validator[Owner[i]]
  BY <1>1, <1>2 DEF Acceptable
<1>4. PICK k \in Interface : addrBlock[k] = o.block
  BY <1>0, <1>3 DEF SInv, Traced, Taken
<1>5. Contested(o.block)
  BY <1>4 DEF IInv, Allotted
<1>6. CASE Owner[k] = Owner[i]
  BY <1>0, <1>4, <1>5, <1>6 DEF Cornered
<1>7. CASE Owner[k] # Owner[i]
  <2>1. Hears(Owner[i], o.block)
    BY <1>0, <1>4, <1>7 DEF SInv, Spread, NoBlock
  <2>. QED
    BY <1>0, <1>5, <2>1 DEF Cornered
<1>. QED
  BY <1>6, <1>7

\* An interface whose request is still waited for after the step, or that was
\* cornered before it.
LEMMA AskedKept ==
    ASSUME IInv, SInv, Next,
           \A i \in Interface :
             disturbed' = 0 /\ phase'[i] = "LEADER" /\ addrBlock'[i] = NoBlock =>
               \/ Waits(i)' \/ Cornered(Owner[i])
               \/ phase[i] = "LEADER" /\ addrBlock[i] = NoBlock /\ (Waits(i) => Waits(i)')
    PROVE  Asked'
<1> SUFFICES ASSUME disturbed' = 0, NEW i \in Interface, phase'[i] = "LEADER",
                    addrBlock'[i] = NoBlock
             PROVE  Waits(i)' \/ Cornered(Owner[i])'
  BY DEF Asked, Waits, Cornered, Hears
<1>1. disturbed = 0
  BY FaultsAdd
<1>2. Cornered(Owner[i]) => Cornered(Owner[i])'
  BY Links, CorneredStays
<1>3. phase[i] = "LEADER" /\ addrBlock[i] = NoBlock => Waits(i) \/ Cornered(Owner[i])
  BY <1>1 DEF SInv, Asked
<1>. QED
  BY <1>2, <1>3

LEMMA AskedStep ==
    ASSUME IInv, SInv, Next, Root # {}
    PROVE  Asked'
<1> DEFINE Fine(i) ==
             disturbed' = 0 /\ phase'[i] = "LEADER" /\ addrBlock'[i] = NoBlock =>
               \/ Waits(i)' \/ Cornered(Owner[i])
               \/ phase[i] = "LEADER" /\ addrBlock[i] = NoBlock /\ (Waits(i) => Waits(i)')
<1>0. TypeInv /\ phase \in [Interface -> {"WAITING", "LEADER", "NORMAL"}]
      /\ pending \in [Interface -> BOOLEAN]
  BY DEF IInv, TypeInv, TypeOK
<1>1. ASSUME NEW i \in Interface, BecomeRootLeader(i), NEW j \in Interface PROVE Fine(j)
  <2>1. PICK b \in Nat : /\ TakeBlock(i, b) /\ Confirm(Owner[i], b, {0})
                         /\ addrBlock[i] = NoBlock
    BY <1>1, RootTakes
  <2>2. addrBlock'[i] = b /\ \A k \in Interface \ {i} : addrBlock'[k] = addrBlock[k]
    BY <2>1, TakeFacts
  <2>3. UNCHANGED <<pending, req, offer>> /\ \A k \in Interface \ {i} : phase'[k] = phase[k]
    BY <1>0, <1>1 DEF BecomeRootLeader, EndWait, reqVars
  <2>4. CASE j = i
    BY <2>2, <2>4 DEF NoBlock
  <2>5. CASE j # i
    BY <2>2, <2>3, <2>5 DEF Waits
  <2>. QED
    BY <2>4, <2>5
<1>2. ASSUME NEW i \in Interface, BecomeLeader(i), NEW j \in Interface PROVE Fine(j)
  <2>1. /\ pending' = [pending EXCEPT ![i] = TRUE] /\ req' = req \cup ({i} \X Root)
        /\ offer' = offer /\ addrBlock' = addrBlock
        /\ phase' = [phase EXCEPT ![i] = "LEADER"]
    BY <1>2 DEF BecomeLeader, EndWait, addrVars
  <2>2. CASE j = i
    <3>1. PICK r \in Root : <<i, r>> \in req'
      BY <2>1
    <3>2. pending'[i]
      BY <1>0, <2>1
    <3>. QED
      BY <2>2, <3>1, <3>2 DEF Waits
  <2>3. CASE j # i
    <3>1. pending'[j] = pending[j] /\ phase'[j] = phase[j] /\ req \subseteq req'
      BY <1>0, <2>1, <2>3
    <3>. QED
      BY <2>1, <3>1 DEF Waits
  <2>. QED
    BY <2>2, <2>3
<1>3. ASSUME NEW i \in Interface, BecomeNormal(i), NEW j \in Interface PROVE Fine(j)
  <2>1. /\ phase' = [phase EXCEPT ![i] = "NORMAL"]
        /\ UNCHANGED <<addrBlock, pending, req, offer>>
    BY <1>3 DEF BecomeNormal, EndWait, addrVars, reqVars
  <2>2. j = i \/ phase'[j] = phase[j]
    BY <1>0, <2>1
  <2>3. phase'[i] = "NORMAL"
    BY <1>0, <2>1
  <2>. QED
    BY <2>1, <2>2, <2>3 DEF Waits
<1>4. ASSUME NEW i \in Interface, NEW r \in Root, AnswerBroadcast(i, r), NEW j \in Interface
      PROVE  Fine(j)
  <2>1. /\ req' = req \ {<<i, r>>}
        /\ offer' = offer \cup {[to |-> i, block |-> ptr[r], giver |-> r]}
        /\ UNCHANGED <<phase, addrBlock, pending>>
    BY <1>4 DEF AnswerBroadcast, electVars, addrVars
  <2>2. CASE j = i
    <3>1. [to |-> i, block |-> ptr[r], giver |-> r].to = i
      OBVIOUS
    <3>2. \E o \in offer' : o.to = j
      BY <2>1, <2>2, <3>1
    <3>. QED
      BY <2>1, <3>2 DEF Waits
  <2>3. CASE j # i
    <3>1. \A s \in Root : <<j, s>> # <<i, r>>
      BY <2>3
    <3>. QED
      BY <2>1, <3>1 DEF Waits
  <2>. QED
    BY <2>2, <2>3
<1>5. ASSUME NEW o \in offer, ReceiveOffer(o), NEW j \in Interface PROVE Fine(j)
  <2>1. PICK i \in Interface : i = o.to
    BY <1>0, BlockTypes
  <2>2. /\ offer' = offer \ {o} /\ pending' = [pending EXCEPT ![i] = FALSE]
        /\ UNCHANGED <<phase, req, disturbed>>
    BY <1>5, <2>1 DEF ReceiveOffer, electVars
  <2>3. CASE j # i
    <3>1. pending'[j] = pending[j]
      BY <1>0, <2>2, <2>3
    <3>2. addrBlock'[j] = addrBlock[j]
      <4>1. CASE UNCHANGED <<addrVars, conf>>
        BY <4>1 DEF addrVars
      <4>2. CASE ~UNCHANGED <<addrVars, conf>>
        <5>1. TakeBlock(i, o.block)
          BY <1>5, <2>1, <4>2, OfferTakes
        <5>. QED
          BY <1>0, <2>3, <5>1 DEF TakeBlock, TypeInv, TypeOK
      <4>. QED
        BY <4>1, <4>2
    <3>3. \A p \in offer : p.to = j => p \in offer'
      BY <2>1, <2>2, <2>3
    <3>. QED
      BY <2>2, <3>1, <3>2, <3>3 DEF Waits
  <2>4. ASSUME j = i, disturbed' = 0, phase'[i] = "LEADER", addrBlock'[i] = NoBlock
        PROVE  Cornered(Owner[i])
    <3>1. phase[i] = "LEADER" /\ disturbed = 0
      BY <2>2, <2>4
    <3>2. addrBlock[i] = NoBlock
      BY <2>4, BlocksStay
    <3>3. CASE Waits(i) /\ Acceptable(i, o.block)
      <4>1. TakeBlock(i, o.block) /\ o.block \in Nat
        BY <1>5, <2>1, <3>3, <1>0, BlockTypes DEF ReceiveOffer, Waits
      <4>2. addrBlock'[i] = o.block
        BY <1>0, <4>1 DEF TakeBlock, TypeInv, TypeOK
      <4>. QED
        BY <2>4, <4>1, <4>2 DEF NoBlock
    <3>4. CASE ~Acceptable(i, o.block)
      BY <2>1, <3>1, <3>2, <3>4, RefusedCorners
    <3>5. CASE ~Waits(i)
      BY <3>1, <3>2, <3>5 DEF SInv, Asked
    <3>. QED
      BY <3>3, <3>4, <3>5
  <2>. QED
    BY <2>3, <2>4
<1>6. ASSUME NEW i \in Interface, ExpirePit(i), NEW j \in Interface PROVE Fine(j)
  <2>1. disturbed' = disturbed + 1 /\ disturbed \in Nat
    BY <1>0, <1>6, PoolAssumption DEF ExpirePit, Disturb, TypeInv, TypeOK
  <2>. QED
    BY <2>1
<1>7. ASSUME \/ \E i \in Interface :
                  \/ Hello(i) \/ IdleHello(i) \/ LocalRequest(i) \/ IdleRequest(i) \/ ReceiveLocal(i)
             \/ \E m \in conf : ReceiveConf(m)
             \/ \E m \in chainMsg : ReceiveChain(m)
             \/ \E r \in Root : GenerateBlock(r) \/ \E b \in expire[r] : RevokeAssignment(r, b)
      PROVE  \A j \in Interface : Fine(j)
  <2>1. UNCHANGED <<phase, addrBlock, pending, req, offer>>
    BY <1>7 DEF Hello, IdleHello, LocalRequest, IdleRequest, ReceiveLocal, ReceiveConf,
       ReceiveChain, GenerateBlock, RevokeAssignment, vars, electVars, addrVars, reqVars
  <2>. QED
    BY <2>1 DEF Waits
<1>8. \A j \in Interface : Fine(j)
  BY <1>1, <1>2, <1>3, <1>4, <1>5, <1>6, <1>7 DEF Next
<1>. QED
  BY <1>8, AskedKept

-----------------------------------------------------------------------------
LEMMA ServedInvariant ==
    ASSUME Root # {}
    PROVE  Spec => []SInv
<1>1. Init => SInv
  BY SInit
<1>2. IInv /\ SInv /\ [Next]_vars => SInv'
  <2>1. CASE Next /\ IInv /\ SInv
    <3>1. Traced' /\ Spread' /\ Decided'
      BY <2>1, TracedStep, SpreadStep, DecidedStep DEF SInv
    <3>2. Asked'
      BY <2>1, AskedStep
    <3>. QED
      BY <3>1, <3>2 DEF SInv
  <2>2. CASE UNCHANGED vars /\ SInv
    BY <2>2 DEF SInv, Traced, Recorded, Taken, Spread, Hears, Decided, Asked, Waits, Cornered,
       Contested, vars, electVars, addrVars, reqVars, rootVars, confVars, chainVars
  <2>. QED
    BY <2>1, <2>2
<1>. QED
  BY <1>1, <1>2, Invariant, PTL DEF Spec

\* A leader that has no block although nothing is under way is cornered.
LEMMA QuietLeader ==
    ASSUME IInv, SInv, disturbed = 0, Quiet, NEW i \in Interface, phase[i] = "LEADER"
    PROVE  \/ addr[i] # Unset /\ Serves(i)
           \/ \E b \in InUse(Owner[i]) : Contested(b)
<1>1. CASE addrBlock[i] # NoBlock
  <2>1. addr[i] \in {[block |-> addrBlock[i], host |-> 0], Fallback}
    BY <1>1 DEF IInv, Numbered, NumberedAt
  <2>2. addr[i] # Unset
    <3>1. addr[i].block # -1
      BY <1>1, <2>1 DEF Fallback, NoBlock
    <3>. QED
      BY <3>1 DEF Unset
  <2>3. leader[i] = Owner[i]
    BY LeaderLeads DEF SInv
  <2>. QED
    BY <2>2, <2>3 DEF Serves
<1>2. CASE addrBlock[i] = NoBlock
  <2>1. Cornered(Owner[i])
    BY <1>2 DEF SInv, Asked, Waits, Quiet
  <2>2. PICK b \in Nat : /\ Contested(b)
                         /\ Hears(Owner[i], b) \/ \E k \in Interface : Owner[k] = Owner[i] /\ addrBlock[k] = b
    BY <2>1 DEF Cornered
  <2>3. b \in InUse(Owner[i])
    BY <2>2 DEF Hears, InUse, Quiet
  <2>. QED
    BY <2>2, <2>3
<1>. QED
  BY <1>1, <1>2

\* Without timing faults no interface is left for good without an address unless
\* the pools of two roots met (AddrCronjobController asks once, the handler of the
\* answer may refuse it, and an end without a leader that serves asks in vain).
THEOREM Served ==
    ASSUME Root # {}
    PROVE  Spec => []NoneStranded
<1>1. ASSUME IInv, SInv, disturbed = 0, Quiet, NEW i \in Interface, addr[i] = Unset,
             ~(Asks(i) /\ Serves(Peer[i]))
      PROVE  \E j \in {i, Peer[i]} : \E b \in InUse(Owner[j]) : Contested(b)
  <2>1. phase[i] \in {"LEADER", "NORMAL"}
    BY <1>1 DEF IInv, TypeInv, TypeOK, Quiet
  <2>2. CASE phase[i] = "LEADER"
    BY <1>1, <2>2, QuietLeader
  <2>3. CASE phase[i] = "NORMAL"
    <3>1. PICK p \in Interface : p = Peer[i]
      BY Links
    <3>2. phase[p] = "LEADER"
      BY <1>1, <2>3, <3>1, OneFollows DEF IInv, TypeInv, TypeOK, Quiet
    <3>3. ~Serves(p)
      BY <1>1, <2>3, <3>1 DEF Asks
    <3>. QED
      BY <1>1, <3>1, <3>2, <3>3, QuietLeader
  <2>. QED
    BY <2>1, <2>2, <2>3
<1>2. IInv /\ SInv => NoneStranded
  BY <1>1 DEF NoneStranded
<1>. QED
  BY <1>2, Invariant, ServedInvariant, PTL
=============================================================================
