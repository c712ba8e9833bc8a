----------------------------- MODULE AddrAssign -----------------------------
(***************************************************************************)
(* The address assignment daemon (networkLayerPlus/ndnAddr).  The two ends *)
(* of every link elect a leader by hellos; a leader that is a root takes a *)
(* /30 block from its own pool, any other leader asks the roots for one    *)
(* with a broadcast; the other end asks its leader for an address of the   *)
(* block.  A block in use is announced to every router by a confirmation,  *)
(* and the root that gave it records it on a chain of blocks that every    *)
(* root extends and the longest of which wins.                             *)
(*                                                                         *)
(* Links are the point-to-point links of test/testNdnAddr/MyTopo.py, whose *)
(* roots are started with the first address of their pool (--address).     *)
(* Every handler runs under mutexLock, so a handler is one step.  Floods   *)
(* reach every other router once, in any order.                            *)
(***************************************************************************)
EXTENDS Integers, Sequences

CONSTANTS
    Router,      \* router ids; 0 stands for "no leader yet"
    Root,        \* the routers started with --root
    Interface,   \* the interfaces of all the routers
    Owner,       \* Owner[i]: the router of interface i
    Peer,        \* Peer[i]: the interface at the other end of i's link
    Start,       \* assignments of a first /30 block to the roots
    Fault,       \* kinds of timing fault considered
    MaxChain,    \* bound on the length of a chain
    MaxDisturb   \* bound on the timing faults of a behaviour

ASSUME RouterAssumption == Router \subseteq Nat \ {0} /\ Root \subseteq Router
ASSUME LinkAssumption ==
    /\ Owner \in [Interface -> Router]
    /\ Peer \in [Interface -> Interface]
    /\ \A i \in Interface : Peer[Peer[i]] = i /\ Owner[Peer[i]] # Owner[i]
ASSUME PoolAssumption == Start \subseteq [Root -> Nat] /\ MaxChain \in Nat /\ MaxDisturb \in Nat

VARIABLES
    start, ptr,                \* of each root's pool: first block, next block
    phase, leader, heard,      \* of each interface: the election
    addr, addrBlock,           \* ipv4Addr, addrBlock of each interface
    nextAddr, assignment,      \* what a leader gives next, and gave its peer
    localData,                 \* answer to i's local requests in transit
    pending,                   \* i's own PIT entry of its broadcast request
    req, offer,                \* broadcast requests and answers in transit
    rootAssignment, expire,    \* of each root: blocks given, revoke timers
    known, conf,               \* knownAddress; confirmations in transit
    blockBuffer, prevBuffer,   \* of each root: blocks to record, recorded last
    estimated,                 \* of each root: chain up to its last block
    chain, validator,          \* of each router: chain, blocks it rules out
    chainMsg,                  \* chains in transit
    disturbed                  \* timing faults so far

electVars == <<phase, leader, heard>>
addrVars == <<addr, addrBlock, nextAddr, assignment>>
reqVars == <<pending, req, offer>>
rootVars == <<start, ptr, rootAssignment, expire>>
confVars == <<known, conf>>
chainVars == <<blockBuffer, prevBuffer, estimated, chain, validator, chainMsg>>
vars == <<electVars, addrVars, localData, reqVars, rootVars, confVars,
          chainVars, disturbed>>

NoBlock == -1    \* no block
Address == [block : Nat, host : 0 .. 3]
\* An Ipv4Address nobody has written, and the address 10.0.0.1 that takes the
\* place of an address in a block of somebody else.
Unset == [block |-> -1, host |-> 0]
Fallback == [block |-> -2, host |-> 1]

Max2(a, b) == IF a >= b THEN a ELSE b
IsRoot(i) == Owner[i] \in Root
Others(r) == Router \ {r}

\* The 8 s wait, the 6 s PIT entry and the 10 s revoke timer end before the
\* event they wait for only by a delay or loss, which the bound counts.
Disturb(kind) ==
    kind \in Fault /\ disturbed < MaxDisturb /\ disturbed' = disturbed + 1
OnTime(done, kind) == IF done THEN UNCHANGED disturbed ELSE Disturb(kind)

Init ==
    /\ start \in Start /\ ptr = start
    /\ phase = [i \in Interface |-> "WAITING"]
    /\ leader = [i \in Interface |-> 0]
    /\ heard = [i \in Interface |-> FALSE]
    /\ addr = [i \in Interface |-> Unset]
    /\ addrBlock = [i \in Interface |-> NoBlock]
    /\ nextAddr = [i \in Interface |-> Unset]
    /\ assignment = [i \in Interface |-> Unset]
    /\ localData = [i \in Interface |-> Unset]
    /\ pending = [i \in Interface |-> FALSE] /\ req = {} /\ offer = {}
    /\ rootAssignment = [r \in Root |-> {}] /\ expire = [r \in Root |-> {}]
    /\ known = [r \in Router |-> {}] /\ conf = {}
    /\ blockBuffer = [r \in Root |-> {}] /\ prevBuffer = [r \in Root |-> {}]
    /\ estimated = [r \in Root |-> <<>>]
    /\ chain = [r \in Router |-> <<>>] /\ validator = [r \in Router |-> {}]
    /\ chainMsg = {} /\ disturbed = 0

-----------------------------------------------------------------------------
(* The election.                                                           *)

\* A hello is news to the peer if it has heard none or leads to a larger leader.
News(i) == ~heard[Peer[i]] \/ leader[i] > leader[Peer[i]]

Hello(i) ==
    /\ News(i)
    /\ heard' = [heard EXCEPT ![Peer[i]] = TRUE]
    /\ leader' = [leader EXCEPT ![Peer[i]] = Max2(@, leader[i])]
    /\ UNCHANGED <<phase, addrVars, localData, reqVars, rootVars, confVars,
                   chainVars, disturbed>>

\* A hello without news has no effect at the peer.
IdleHello(i) == ~News(i) /\ UNCHANGED vars

\* (Variant for the mutation runs: the peer's id is not looked at.)
SelfUnlessDeclared(i) ==
    LET peer == Owner[Peer[i]]
    IN  IF heard[i] /\ leader[i] = peer THEN peer ELSE Owner[i]

\* The peer if it has declared itself the leader, else the larger id.
calculateLeader(i) ==
    LET peer == Owner[Peer[i]]
    IN  IF ~heard[i] THEN Owner[i]
        ELSE IF leader[i] = peer THEN peer ELSE Max2(Owner[i], peer)

\* waitingTimerCronJob: the state and the leader it leaves.  All interfaces
\* come up together, so a wait of four hello intervals hears the peer.
EndWait(i, state) ==
    /\ phase[i] = "WAITING"
    /\ leader' = [leader EXCEPT ![i] = calculateLeader(i)]
    /\ phase' = [phase EXCEPT ![i] = state]
    /\ OnTime(heard[i], <<"unheard", i>>)
    /\ UNCHANGED heard

\* (Variants: nextAddr is not set, or set to the address just taken.)
TakeBlockOnly(i, b) ==
    /\ addrBlock' = [addrBlock EXCEPT ![i] = b]
    /\ addr' = [addr EXCEPT ![i] = [block |-> b, host |-> 0]]
    /\ UNCHANGED <<nextAddr, assignment>>
TakeFirstTwice(i, b) ==
    /\ addrBlock' = [addrBlock EXCEPT ![i] = b]
    /\ addr' = [addr EXCEPT ![i] = [block |-> b, host |-> 0]]
    /\ nextAddr' = [nextAddr EXCEPT ![i] = [block |-> b, host |-> 0]]
    /\ UNCHANGED assignment

\* Interface i takes block b and the first address of it.
TakeBlock(i, b) ==
    /\ addrBlock' = [addrBlock EXCEPT ![i] = b]
    /\ addr' = [addr EXCEPT ![i] = [block |-> b, host |-> 0]]
    /\ nextAddr' = [nextAddr EXCEPT ![i] = [block |-> b, host |-> 1]]
    /\ UNCHANGED assignment

\* (Variant: a root does not announce a block of its own.)
ConfirmGiven(r, b, giver) ==
    conf' = conf \cup [block : {b}, giver : giver \ {0}, to : Others(r)]

\* The flood of /addr/broadcast/conf/<nonce>/<block>: only the root that made
\* the nonce (nobody, for a root's own block) finds it in rootAssignment.
Confirm(r, b, giver) ==
    conf' = conf \cup [block : {b}, giver : giver, to : Others(r)]

BecomeRootLeader(i) ==
    /\ IsRoot(i) /\ calculateLeader(i) = Owner[i]
    /\ EndWait(i, "LEADER")
    /\ LET r == Owner[i]
           b == ptr[r]
       IN  /\ ptr' = [ptr EXCEPT ![r] = b + 1]
           /\ TakeBlock(i, b)
           /\ blockBuffer' = [blockBuffer EXCEPT ![r] = @ \cup {b}]
           /\ Confirm(r, b, {0})
    /\ UNCHANGED <<start, localData, reqVars, rootAssignment, expire, known,
                   prevBuffer, estimated, chain, validator, chainMsg>>

BecomeLeader(i) ==
    /\ ~IsRoot(i) /\ calculateLeader(i) = Owner[i]
    /\ EndWait(i, "LEADER")
    /\ pending' = [pending EXCEPT ![i] = TRUE]
    /\ req' = req \cup ({i} \X Root)
    /\ UNCHANGED <<addrVars, localData, offer, rootVars, confVars, chainVars>>

BecomeNormal(i) ==
    /\ calculateLeader(i) # Owner[i]
    /\ EndWait(i, "NORMAL")
    /\ UNCHANGED <<addrVars, localData, reqVars, rootVars, confVars, chainVars>>

-----------------------------------------------------------------------------
(* Blocks for the leaders.                                                 *)

\* A root's answer.  The record it keeps never names the requester (the
\* wrapper's fields are not set), so every request gets a new block.
AnswerBroadcast(i, r) ==
    /\ <<i, r>> \in req
    /\ req' = req \ {<<i, r>>}
    /\ ptr' = [ptr EXCEPT ![r] = @ + 1]
    /\ rootAssignment' = [rootAssignment EXCEPT ![r] = @ \cup {ptr[r]}]
    /\ expire' = [expire EXCEPT ![r] = @ \cup {ptr[r]}]
    /\ offer' = offer \cup {[to |-> i, block |-> ptr[r], giver |-> r]}
    /\ UNCHANGED <<start, electVars, addrVars, localData, pending, confVars,
                   chainVars, disturbed>>

\* (Variant: the loop compares a known address with its own block.)
AcceptableWhenNoneKnown(i, b) ==
    LET r == Owner[i]
    IN  /\ leader[i] = r /\ addr[i] = Unset
        /\ b \notin validator[r] /\ known[r] = {}

\* What the handler of the answer checks before it takes the block.
Acceptable(i, b) ==
    LET r == Owner[i]
    IN  /\ leader[i] = r /\ addr[i] = Unset
        /\ b \notin validator[r] /\ b \notin known[r]

\* The first answer consumes the requester's PIT entry; the forwarder drops
\* every other, and every answer after the entry has expired.
ReceiveOffer(o) ==
    LET i == o.to
    IN  /\ offer' = offer \ {o}
        /\ pending' = [pending EXCEPT ![i] = FALSE]
        /\ IF pending[i] /\ Acceptable(i, o.block)
             THEN /\ TakeBlock(i, o.block)
                  /\ Confirm(Owner[i], o.block, {o.giver})
             ELSE UNCHANGED <<addrVars, conf>>
        /\ UNCHANGED <<electVars, localData, req, rootVars, known, chainVars,
                       disturbed>>

ExpirePit(i) ==
    /\ pending[i] /\ Disturb(<<"unanswered", i>>)
    /\ pending' = [pending EXCEPT ![i] = FALSE]
    /\ UNCHANGED <<electVars, addrVars, localData, req, offer, rootVars,
                   confVars, chainVars>>

\* revokeAssignment: the record goes, the pool never takes the block back.
RevokeAssignment(r, b) ==
    /\ b \in expire[r]
    /\ OnTime(\A m \in offer \cup conf : m.giver # r \/ m.block # b, <<"unconfirmed", r>>)
    /\ expire' = [expire EXCEPT ![r] = @ \ {b}]
    /\ rootAssignment' = [rootAssignment EXCEPT ![r] = @ \ {b}]
    /\ UNCHANGED <<start, ptr, electVars, addrVars, localData, reqVars,
                   confVars, chainVars>>

\* A confirmation: the block is known, an address of ours in it is given up,
\* and the root that gave the block will record it.
ReceiveConf(m) ==
    LET r == m.to
        gave == m.giver = r /\ r \in Root /\ m.block \in rootAssignment[r]
    IN  /\ conf' = conf \ {m}
        /\ known' = [known EXCEPT ![r] = @ \cup {m.block}]
        /\ addr' = [i \in Interface |->
                      IF Owner[i] = r /\ addr[i].block = m.block
                      THEN Fallback ELSE addr[i]]
        /\ IF gave
             THEN /\ expire' = [expire EXCEPT ![r] = @ \ {m.block}]
                  /\ blockBuffer' = [blockBuffer EXCEPT ![r] = @ \cup {m.block}]
             ELSE UNCHANGED <<expire, blockBuffer>>
        /\ UNCHANGED <<start, ptr, rootAssignment, electVars, addrBlock,
                       nextAddr, assignment, localData, reqVars, prevBuffer,
                       estimated, chain, validator, chainMsg, disturbed>>

-----------------------------------------------------------------------------
(* Addresses for the other ends.                                           *)

\* (Variant: the handler does not ask whether it has a block.)
ServesUnassigned(i) == leader[i] = Owner[i]

\* The handler asks for the leader field, not for the state LEADER.
Serves(i) == leader[i] = Owner[i] /\ addr[i] # Unset

Following(a) == [block |-> a.block, host |-> a.host + 1]

\* addr_local_req_timer runs from BecomeNormal to the first answer.
Asks(i) == phase[i] = "NORMAL" /\ addr[i] = Unset

\* A local request and the answer of the peer.  A request has no content, so
\* one that arrives late is one that is sent later.
LocalRequest(i) ==
    LET p == Peer[i]
        stored == assignment[p] # Unset
        gift == IF stored THEN assignment[p] ELSE nextAddr[p]
    IN  /\ Asks(i) /\ localData[i] = Unset /\ Serves(p)
        /\ localData' = [localData EXCEPT ![i] = gift]
        /\ assignment' = [assignment EXCEPT ![p] = gift]
        /\ nextAddr' = [nextAddr EXCEPT ![p] = IF stored THEN @ ELSE Following(@)]
        /\ UNCHANGED <<electVars, addr, addrBlock, reqVars, rootVars, confVars,
                       chainVars, disturbed>>

\* A request the peer does not answer, or answers with an answer on its way.
IdleRequest(i) ==
    Asks(i) /\ (Serves(Peer[i]) => localData[i] # Unset) /\ UNCHANGED vars

\* An answer is taken unconditionally.  Requests repeated while it was on its
\* way leave equal answers behind it.
ReceiveLocal(i) ==
    /\ localData[i] # Unset
    /\ addr' = [addr EXCEPT ![i] = localData[i]]
    /\ localData' \in {localData, [localData EXCEPT ![i] = Unset]}
    /\ UNCHANGED <<electVars, addrBlock, nextAddr, assignment, reqVars,
                   rootVars, confVars, chainVars, disturbed>>

-----------------------------------------------------------------------------
(* The chain.  The genesis block is left out, a block is the root that     *)
(* made it and the address blocks it records, and its hash, a function of  *)
(* the blocks up to it, is the chain that ends in it.                      *)

\* (Variant: the genesis block is counted on one side.)
ReplacesShort(m, ch) == Len(m.chain) > Len(ch[m.to]) + 1

\* Only a longer chain replaces a router's chain.  Chains do not get shorter, so
\* one that is not longer now has no effect whenever it arrives: it is dropped.
Replaces(m, ch) == Len(m.chain) > Len(ch[m.to])

\* generateBlock: if the block it made last is no longer on the chain, what
\* that block recorded (prevBuffer) is recorded again.  prevBuffer is
\* assigned from blockBuffer after blockBuffer was cleared.
GenerateBlock(r) ==
    LET flushed == SubSeq(chain[r], 1, Len(estimated[r])) # estimated[r]
        again == IF flushed THEN prevBuffer[r] ELSE {}
        new == Append(chain[r], [by |-> r, records |-> blockBuffer[r] \cup again])
    IN  /\ blockBuffer[r] # {} /\ Len(chain[r]) < MaxChain
        /\ blockBuffer' = [blockBuffer EXCEPT ![r] = {}]
        /\ prevBuffer' = [prevBuffer EXCEPT ![r] = blockBuffer'[r]]
        /\ chain' = [chain EXCEPT ![r] = new]
        /\ estimated' = [estimated EXCEPT ![r] = new]
        /\ chainMsg' = {m \in chainMsg \cup [chain : {new}, to : Others(r)] :
                          Replaces(m, chain')}
        /\ UNCHANGED <<electVars, addrVars, localData, reqVars, rootVars,
                       confVars, validator, disturbed>>

\* A longer chain replaces ours, and the validator is rebuilt from it.
ReceiveChain(m) ==
    LET now == [chain EXCEPT ![m.to] = m.chain]
    IN  /\ chain' = now
        /\ validator' = [validator EXCEPT ![m.to] =
             UNION {m.chain[k].records : k \in 1 .. Len(m.chain)}]
        /\ chainMsg' = {n \in chainMsg : Replaces(n, now)}
        /\ UNCHANGED <<electVars, addrVars, localData, reqVars, rootVars,
                       confVars, blockBuffer, prevBuffer, estimated, disturbed>>

-----------------------------------------------------------------------------
Next ==
    \/ \E i \in Interface :
         \/ Hello(i) \/ IdleHello(i)
         \/ BecomeRootLeader(i) \/ BecomeLeader(i) \/ BecomeNormal(i)
         \/ LocalRequest(i) \/ IdleRequest(i) \/ ReceiveLocal(i) \/ ExpirePit(i)
         \/ \E r \in Root : AnswerBroadcast(i, r)
    \/ \E o \in offer : ReceiveOffer(o)
    \/ \E m \in conf : ReceiveConf(m)
    \/ \E m \in chainMsg : ReceiveChain(m)
    \/ \E r \in Root : GenerateBlock(r) \/ \E b \in expire[r] : RevokeAssignment(r, b)

Spec == Init /\ [][Next]_vars

-----------------------------------------------------------------------------
Held == Address \cup {Unset, Fallback}

\* The variables have their types; no address leaves its /30 block (a host
\* number above 3) and none is given that nobody wrote.
TypeOK ==
    /\ start \in [Root -> Nat] /\ ptr \in [Root -> Nat]
    /\ phase \in [Interface -> {"WAITING", "LEADER", "NORMAL"}]
    /\ leader \in [Interface -> Router \cup {0}]
    /\ heard \in [Interface -> BOOLEAN]
    /\ addr \in [Interface -> Held]
    /\ addrBlock \in [Interface -> Nat \cup {NoBlock}]
    /\ nextAddr \in [Interface -> Address \cup {Unset}]
    /\ assignment \in [Interface -> Address \cup {Unset}]
    /\ localData \in [Interface -> Address \cup {Unset}]
    /\ pending \in [Interface -> BOOLEAN]
    /\ req \subseteq Interface \X Root
    /\ offer \subseteq [to : Interface, block : Nat, giver : Root]
    /\ rootAssignment \in [Root -> SUBSET Nat] /\ expire \in [Root -> SUBSET Nat]
    /\ known \in [Router -> SUBSET Nat]
    /\ conf \subseteq [block : Nat, giver : Root \cup {0}, to : Router]
    /\ blockBuffer \in [Root -> SUBSET Nat] /\ prevBuffer \in [Root -> SUBSET Nat]
    /\ validator \in [Router -> SUBSET Nat]
    /\ disturbed \in 0 .. MaxDisturb

\* Two roots have given block b.
Contested(b) ==
    \E r, s \in Root : r # s /\ b \in start[r] .. (ptr[r] - 1) \cap start[s] .. (ptr[s] - 1)

\* No two interfaces of the network have the same address, whatever packet
\* is late or lost, unless the pools of two roots met in its block.
UniqueAddress ==
    \A i, j \in Interface :
        i # j /\ addr[i] \in Address /\ addr[i] = addr[j] => Contested(addr[i].block)

\* Only the winner of an election that got a block answers its peer: an
\* interface whose leader field a hello changed to its own router never
\* hands out the nextAddr nobody wrote.
OnlyLeadersServe == \A i \in Interface : Serves(i) => phase[i] = "LEADER"

\* Two leaders that took the same block from pools that meet do not both
\* keep it once the confirmations of the block have arrived.
ContestedYield ==
    \A i, j \in Interface :
        /\ Owner[i] # Owner[j] /\ addrBlock[i] # NoBlock
        /\ addrBlock[i] = addrBlock[j]
        /\ \A m \in conf : m.block # addrBlock[i]
        => addr[i].block # addrBlock[i] \/ addr[j].block # addrBlock[j]

\* If no wait was cut short, both ends of a link have addresses of one block.
SameSubnet ==
    disturbed = 0 => \A i \in Interface :
        addr[i] \in Address /\ addr[Peer[i]] \in Address
            => addr[i].block = addr[Peer[i]].block

\* When no chain is on its way all the chains are equally long (forks of the
\* same length stay).
ChainsLevel ==
    chainMsg = {} => \A r, s \in Router : Len(chain[r]) = Len(chain[s])

\* No election, request, answer or confirmation is under way.
Quiet ==
    /\ req = {} /\ offer = {} /\ conf = {}
    /\ \A i \in Interface : phase[i] # "WAITING" /\ localData[i] = Unset

\* The blocks r knows to be in use: it was told, or its own interfaces have them.
InUse(r) == known[r] \cup {addrBlock[k] : k \in {k \in Interface : Owner[k] = r}}

\* Although a leader asks the roots only once, and its PIT entry takes one
\* answer, no interface is left for good without an address: without timing
\* faults it has one, or may ask a peer that answers, unless the pools met and
\* the leader, at either end, knows a block of both.
NoneStranded ==
    disturbed = 0 /\ Quiet => \A i \in Interface :
        \/ addr[i] # Unset
        \/ Asks(i) /\ Serves(Peer[i])
        \/ \E j \in {i, Peer[i]} : \E b \in InUse(Owner[j]) : Contested(b)
=============================================================================
