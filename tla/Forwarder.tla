------------------------------ MODULE Forwarder ------------------------------
(***************************************************************************)
(* The interest and data pipelines of the NDN forwarder (NdnProtocol) with *)
(* the pending-interest table, its expiry timers and the dead nonce list.  *)
(*                                                                         *)
(* Packets come from the one thread that reads the sockets and from the    *)
(* threads of the upper layer.  A pipeline checks the dead nonce list, then*)
(* takes protocolLock and runs to its end: what follows the lock is one    *)
(* action.  (The lock is let go while the packet is sent, but nothing of   *)
(* the forwarder is read or written after that.)  Names under local, and   *)
(* INFO, bypass the table: they reach no state but the dead nonce list,    *)
(* which never holds them, and are not in Name.  No sender of the program  *)
(* sets a hop limit; the content store never answers (contentHit).         *)
(***************************************************************************)
EXTENDS Integers, Sequences, FiniteSets

CONSTANTS
  Name,         \* names that go through the table
  HopName,      \* those under /routing/hop or /addr/hop
  Nic,          \* faces towards other routers
  Upper,        \* face of the protocol above (a negative interface index)
  Nonce,
  Mark,         \* the mark the resize timer puts into the dead nonce list
  SizeLimit,    \* initial sizeLimit of the dead nonce list (100 in the code)
  MaxInterests, \* bound on the interests that reach the table
  MaxResizes    \* bound on the firings of the resize timer

ASSUME FaceAssumption == Upper \notin Nic
ASSUME NameAssumption == HopName \subseteq Name /\ Mark \notin Name \X Nonce
ASSUME LimitAssumption ==
  SizeLimit \in Nat \ {0} /\ MaxInterests \in Nat /\ MaxResizes \in Nat

Face == Nic \cup {Upper}
Interest == [name : Name, nonce : Nonce, face : Face]
InRecord == Face \X Nonce
Start == 1 .. MaxInterests           \* a start of a timer, by its number
Expiry == [name : Name, start : Start]

VARIABLES
  pit,       \* pit[n]: the in-records of the entry of n, {} if there is none
  armed,     \* armed[n]: which start the running expiry timer of n is, 0 if none
  firing,    \* expiry callbacks that wait for protocolLock
  dead,      \* deadNonceList
  sizeLimit, \* its limit
  resizes,   \* how often the resize timer has fired
  checked,   \* interests past the check of the dead nonce list
  starts,    \* calls of startTimer so far
  latest,    \* history: the start the last in-record of n asked for
  asked      \* history: how many interests the entry of n has sent on

pitVars == <<pit, armed, firing, starts, latest, asked>>
deadVars == <<dead, sizeLimit, resizes>>
vars == <<pitVars, deadVars, checked>>

Init ==
  /\ pit = [n \in Name |-> {}]
  /\ armed = [n \in Name |-> 0]
  /\ firing = {}
  /\ dead = <<>> /\ sizeLimit = SizeLimit /\ resizes = 0
  /\ checked = {}
  /\ starts = 0
  /\ latest = [n \in Name |-> 0]
  /\ asked = [n \in Name |-> 0]

-----------------------------------------------------------------------------
(***************************************************************************)
(* The dead nonce list: insertToList drops the oldest while there are more *)
(* than sizeLimit.                                                         *)
(***************************************************************************)
\* (Variant for the mutation runs: at most one is dropped.)
DropOldest(s, limit) == IF Len(s) > limit THEN Tail(s) ELSE s

\* (Variant: what does not fit is dropped at the other end.)
KeepOldest(s, limit) == IF Len(s) > limit THEN SubSeq(s, 1, limit) ELSE s

Newest(s, limit) == IF Len(s) > limit THEN SubSeq(s, Len(s) - limit + 1, Len(s)) ELSE s

IsDead(n, x) == \E i \in 1 .. Len(dead) : dead[i] = <<n, x>>

\* The nonces of an entry that ends, in the order of its in-records.
Bury(n) ==
  \E s \in [1 .. Cardinality(pit[n]) -> pit[n]] :
    /\ \A r \in pit[n] : \E i \in DOMAIN s : s[i] = r
    /\ dead' = Newest(dead \o [i \in DOMAIN s |-> <<n, s[i][2]>>], sizeLimit)
    /\ UNCHANGED <<sizeLimit, resizes>>

\* onTimerTriggered: the number of marks expected, entryLifeTime / interval, is
\* 6 / 100000 = 0, so the list is never lengthened.
Resize ==
  LET marks == {i \in 1 .. Len(dead) : dead[i] = Mark}
      less == (sizeLimit * 9) \div 10
      limit == IF marks = {} THEN sizeLimit ELSE IF less = 0 THEN 1 ELSE less
  IN /\ resizes < MaxResizes
     /\ resizes' = resizes + 1
     /\ sizeLimit' = limit
     /\ dead' = Newest(Append(dead, Mark), limit)
     /\ UNCHANGED <<pitVars, checked>>

-----------------------------------------------------------------------------
(***************************************************************************)
(* Interests.                                                              *)
(***************************************************************************)

\* onIncomingInterest up to the lock.  The sockets have one reader, and the
\* upper layer sends under its own lock: one interest of each at a time.
CheckInterest(i) ==
  /\ ~IsDead(i.name, i.nonce)
  /\ \A j \in checked : i.face \in Nic <=> j.face \notin Nic
  /\ checked' = checked \cup {i}
  /\ UNCHANGED <<pitVars, deadVars>>

\* PitEntry::isLoopingInterest, and the exemption of the upper layer, which
\* repeats its requests under the same name.
Exempt(i) == i.name \in HopName /\ i.face = Upper
Looping(i) ==
  /\ \E r \in pit[i.name] : r[1] # i.face /\ r[2] = i.nonce
  /\ ~Exempt(i)

DropLooping(i) ==
  /\ i \in checked /\ Looping(i)
  /\ checked' = checked \ {i}
  /\ UNCHANGED <<pitVars, deadVars>>

\* (Variants: the old timer is cancelled after the new one was refused; the entry
\* is looked at after the in-record was added to it.)
RecordCancelLate(i) ==
  LET n == i.name
      pending == pit[n] # {}
  IN /\ i \in checked /\ ~Looping(i) /\ starts < MaxInterests
     /\ checked' = checked \ {i}
     /\ pit' = [pit EXCEPT ![n] = @ \cup {<<i.face, i.nonce>>}]
     /\ starts' = starts + 1
     /\ latest' = [latest EXCEPT ![n] = starts + 1]
     /\ armed' = [armed EXCEPT ![n] = IF pending THEN 0 ELSE IF @ = 0 THEN starts + 1 ELSE @]
     /\ asked' = [asked EXCEPT ![n] = IF ~pending \/ Exempt(i) THEN @ + 1 ELSE @]
     /\ UNCHANGED <<firing, deadVars>>

RecordThenLook(i) ==
  LET n == i.name
      running == IF pit[n] # {} THEN 0 ELSE armed[n]
  IN /\ i \in checked /\ ~Looping(i) /\ starts < MaxInterests
     /\ checked' = checked \ {i}
     /\ pit' = [pit EXCEPT ![n] = @ \cup {<<i.face, i.nonce>>}]
     /\ starts' = starts + 1
     /\ latest' = [latest EXCEPT ![n] = starts + 1]
     /\ armed' = [armed EXCEPT ![n] = IF running = 0 THEN starts + 1 ELSE running]
     /\ asked' = [asked EXCEPT ![n] = IF pit'[n] = {} \/ Exempt(i) THEN @ + 1 ELSE @]
     /\ UNCHANGED <<firing, deadVars>>

\* The rest of onIncomingInterest and onContentStoreMiss: the expiry timer is
\* cancelled if the entry is pending and started again; startTimer refuses if a
\* timer of that name is still running.  Only the first interest is sent on.
Record(i) ==
  LET n == i.name
      pending == pit[n] # {}
      running == IF pending THEN 0 ELSE armed[n]
      start == starts + 1
  IN /\ i \in checked /\ ~Looping(i) /\ starts < MaxInterests
     /\ checked' = checked \ {i}
     /\ pit' = [pit EXCEPT ![n] = @ \cup {<<i.face, i.nonce>>}]
     /\ starts' = start
     /\ latest' = [latest EXCEPT ![n] = start]
     /\ armed' = [armed EXCEPT ![n] = IF running = 0 THEN start ELSE running]
     /\ asked' = [asked EXCEPT ![n] = IF ~pending \/ Exempt(i) THEN @ + 1 ELSE @]
     /\ UNCHANGED <<firing, deadVars>>

\* onIncomingData for a name that is pending; without an entry it is unsolicited
\* and changes nothing.
Data(n) ==
  /\ pit[n] # {}
  /\ Bury(n)
  /\ pit' = [pit EXCEPT ![n] = {}]
  /\ armed' = [armed EXCEPT ![n] = 0]
  /\ asked' = [asked EXCEPT ![n] = 0]
  /\ UNCHANGED <<firing, starts, latest, checked>>

-----------------------------------------------------------------------------
(***************************************************************************)
(* Expiry.                                                                 *)
(***************************************************************************)

\* Timer::onTimerUp takes the timer out before it calls back.
TimerUp(n) ==
  /\ armed[n] # 0
  /\ armed' = [armed EXCEPT ![n] = 0]
  /\ firing' = firing \cup {[name |-> n, start |-> armed[n]]}
  /\ UNCHANGED <<pit, starts, latest, asked, deadVars, checked>>

\* The callback: onInterestFinalize, on whatever entry has that name by then.
Finalize(c) ==
  /\ c \in firing
  /\ firing' = firing \ {c}
  /\ pit' = [pit EXCEPT ![c.name] = {}]
  /\ asked' = [asked EXCEPT ![c.name] = 0]
  /\ IF pit[c.name] = {} THEN UNCHANGED deadVars ELSE Bury(c.name)
  /\ UNCHANGED <<armed, starts, latest, checked>>

Expire == (\E n \in Name : TimerUp(n)) \/ (\E c \in firing : Finalize(c))

Next ==
  \/ \E i \in Interest : CheckInterest(i)
  \/ \E i \in checked : DropLooping(i) \/ Record(i)
  \/ \E n \in Name : Data(n)
  \/ Expire
  \/ Resize

Spec == Init /\ [][Next]_vars

\* A timer thread that has slept its time runs, and its callback gets the lock.
FairSpec == Spec /\ (\A n \in Name : WF_vars(TimerUp(n)))
                 /\ WF_vars(\E c \in firing : Finalize(c))

-----------------------------------------------------------------------------
(***************************************************************************)
(* Properties.                                                             *)
(***************************************************************************)

TypeOK ==
  /\ pit \in [Name -> SUBSET InRecord]
  /\ armed \in [Name -> 0 .. MaxInterests]
  /\ firing \subseteq Expiry
  /\ dead \in Seq((Name \X Nonce) \cup {Mark})
  /\ sizeLimit \in 1 .. SizeLimit /\ resizes \in 0 .. MaxResizes
  /\ checked \subseteq Interest
  /\ starts \in 0 .. MaxInterests
  /\ latest \in [Name -> 0 .. MaxInterests]
  /\ asked \in [Name -> 0 .. MaxInterests]
  /\ Len(dead) <= sizeLimit

\* An entry is never left without something that will end it, although timers
\* are cancelled too late, refused, and inherited from entries that are gone.
PendingWillEnd ==
  \A n \in Name : pit[n] # {} => armed[n] # 0 \/ \E c \in firing : c.name = n

\* An entry has been sent on, and once only unless the upper layer repeats a
\* request of a hop name (onContentStoreMiss).
Aggregated ==
  \A n \in Name :
    /\ pit[n] # {} => asked[n] >= 1
    /\ n \notin HopName => asked[n] <= 1

\* No entry stays for ever once interests for it cease to come.
EntryEnds == \A n \in Name : pit[n] # {} ~> pit[n] = {}

\* "The expiry timer on the PIT entry is set to the time that the last PIT
\* in-record expires" (NdnProtocol.cpp:108-109): an entry that expires does so by
\* the timer of its last in-record.
LastRecordExpires ==
  [][\A c \in firing \ firing' : pit[c.name] # {} => c.start = latest[c.name]]_vars

\* "How long an entry is expected to be alive" (DeadNonceList.h:48, seconds against
\* the milliseconds of the interval): the nonces of an entry are in the list at
\* least when the entry has just ended.
NoncesRemembered ==
  [][\A n \in Name : pit'[n] = {} => \A r \in pit[n] : IsDead(n, r[2])']_vars

\* What the list (insertToList) does guarantee, whatever it held: an entry that ends
\* with no more in-records than the limit at that time has all its nonces in it.
RememberedIfRoom ==
  [][\A n \in Name : pit'[n] = {} /\ Cardinality(pit[n]) <= sizeLimit
       => \A r \in pit[n] : IsDead(n, r[2])']_vars
=============================================================================
