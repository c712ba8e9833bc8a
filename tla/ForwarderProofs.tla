--------------------------- MODULE ForwarderProofs ---------------------------
(***************************************************************************)
(* Type correctness of the forwarder, and the two safety invariants of the *)
(* pending-interest table, for any number of names, faces and nonces.      *)
(***************************************************************************)
EXTENDS Forwarder, FiniteSetTheorems, SequenceTheorems, TLAPS

DeadEntry == (Name \X Nonce) \cup {Mark}

\* insertToList keeps the newest entries, at most as many as the limit.
LEMMA NewestType ==
  ASSUME NEW S, NEW s \in Seq(S), NEW limit \in Nat
  PROVE  Newest(s, limit) \in Seq(S) /\ Len(Newest(s, limit)) <= limit
<1>1. CASE Len(s) > limit
  <2>1. /\ Len(s) - limit + 1 \in 1 .. Len(s) + 1 /\ Len(s) \in 0 .. Len(s)
        /\ Len(s) - limit + 1 \in Nat /\ Len(s) \in Nat
    BY <1>1
  <2>2. /\ SubSeq(s, Len(s) - limit + 1, Len(s)) \in Seq(S)
        /\ Len(SubSeq(s, Len(s) - limit + 1, Len(s))) = limit
    BY <1>1, <2>1
  <2>3. QED
    BY <1>1, <2>2 DEF Newest
<1>2. CASE ~(Len(s) > limit)
  BY <1>2 DEF Newest
<1>3. QED
  BY <1>1, <1>2

(***************************************************************************)
(* The inductive invariant: types; entries are finite, for a nonce is added*)
(* at a time; an entry that is gone has asked nobody; and what is wanted.  *)
(***************************************************************************)
Sound ==
  \A n \in Name :
    /\ IsFiniteSet(pit[n])
    /\ pit[n] = {} => asked[n] = 0
    /\ asked[n] <= starts

IInv == TypeOK /\ Sound /\ PendingWillEnd /\ Aggregated

LEMMA IInvInit == Init => IInv
<1> SUFFICES ASSUME Init PROVE IInv
  OBVIOUS
<1>1. TypeOK
  BY LimitAssumption DEF Init, TypeOK, InRecord, Expiry, Interest
<1>2. Sound /\ PendingWillEnd /\ Aggregated
  BY FS_EmptySet DEF Init, Sound, PendingWillEnd, Aggregated
<1>3. QED
  BY <1>1, <1>2 DEF IInv

LEMMA BuryType ==
  ASSUME IInv, NEW n \in Name, Bury(n)
  PROVE  /\ dead' \in Seq(DeadEntry) /\ Len(dead') <= sizeLimit'
         /\ UNCHANGED <<sizeLimit, resizes>>
<1>1. PICK s \in [1 .. Cardinality(pit[n]) -> pit[n]] :
        dead' = Newest(dead \o [i \in DOMAIN s |-> <<n, s[i][2]>>], sizeLimit)
  BY DEF Bury
<1>2. UNCHANGED <<sizeLimit, resizes>>
  BY DEF Bury
<1>3. Cardinality(pit[n]) \in Nat
  BY FS_CardinalityType DEF IInv, Sound
<1>4. pit[n] \subseteq InRecord
  BY DEF IInv, TypeOK
<1> DEFINE t == [i \in DOMAIN s |-> <<n, s[i][2]>>]
<1>5. t \in Seq(DeadEntry)
  <2>1. DOMAIN s = 1 .. Cardinality(pit[n])
    OBVIOUS
  <2>2. ASSUME NEW i \in DOMAIN s PROVE <<n, s[i][2]>> \in DeadEntry
    <3>1. s[i] \in InRecord
      BY <1>4
    <3>2. s[i][2] \in Nonce
      BY <3>1 DEF InRecord
    <3>3. QED
      BY <3>2 DEF DeadEntry
  <2>3. t \in [1 .. Cardinality(pit[n]) -> DeadEntry]
    BY <2>1, <2>2
  <2>4. QED
    BY <1>3, <2>3
<1> HIDE DEF t
<1>6. dead \in Seq(DeadEntry) /\ sizeLimit \in Nat
  BY LimitAssumption DEF IInv, TypeOK, DeadEntry
<1>7. dead \o t \in Seq(DeadEntry)
  BY <1>5, <1>6
<1>8. dead' = Newest(dead \o t, sizeLimit)
  BY <1>1 DEF t
<1>9. QED
  BY <1>2, <1>6, <1>7, <1>8, NewestType

LEMMA IInvStep == IInv /\ [Next]_vars => IInv'
<1> SUFFICES ASSUME IInv, [Next]_vars PROVE IInv'
  OBVIOUS
<1>0. TypeOK /\ Sound /\ PendingWillEnd /\ Aggregated
  BY DEF IInv
<1>1. ASSUME NEW i \in Interest, CheckInterest(i)
      PROVE  IInv'
  BY <1>0, <1>1 DEF CheckInterest, IInv, TypeOK, Sound, PendingWillEnd, Aggregated, pitVars, deadVars
<1>2. ASSUME NEW i \in checked, DropLooping(i)
      PROVE  IInv'
  BY <1>0, <1>2 DEF DropLooping, IInv, TypeOK, Sound, PendingWillEnd, Aggregated, pitVars, deadVars
<1>3. ASSUME NEW i \in checked, Record(i)
      PROVE  IInv'
  <2>1. /\ i \in Interest /\ i.name \in Name /\ <<i.face, i.nonce>> \in InRecord
        /\ starts \in Nat /\ starts + 1 \in 1 .. MaxInterests
    BY <1>0, <1>3, LimitAssumption DEF Record, TypeOK, Interest, InRecord
  <2>2. /\ pit' = [pit EXCEPT ![i.name] = @ \cup {<<i.face, i.nonce>>}]
        /\ starts' = starts + 1
        /\ latest' = [latest EXCEPT ![i.name] = starts + 1]
        /\ \E v \in {starts + 1, armed[i.name]} : v # 0 /\ armed' = [armed EXCEPT ![i.name] = v]
        /\ \/ asked' = [asked EXCEPT ![i.name] = asked[i.name] + 1]
              /\ (pit[i.name] = {} \/ i.name \in HopName)
           \/ asked' = asked /\ pit[i.name] # {}
        /\ checked' \subseteq checked
        /\ UNCHANGED <<firing, dead, sizeLimit, resizes>>
    <3>1. \E v \in {starts + 1, armed[i.name]} : v # 0 /\ armed' = [armed EXCEPT ![i.name] = v]
      <4>1. CASE armed' = [armed EXCEPT ![i.name] = starts + 1]
        BY <2>1, <4>1
      <4>2. CASE armed[i.name] # 0 /\ armed' = [armed EXCEPT ![i.name] = armed[i.name]]
        BY <4>2
      <4>3. QED
        BY <1>3, <4>1, <4>2 DEF Record
    <3>2. \/ asked' = [asked EXCEPT ![i.name] = asked[i.name] + 1]
             /\ (pit[i.name] = {} \/ i.name \in HopName)
          \/ asked' = asked /\ pit[i.name] # {}
      BY <1>0, <1>3 DEF Record, Exempt, TypeOK
    <3>3. QED
      BY <1>3, <3>1, <3>2 DEF Record, deadVars
  <2>3. /\ pit \in [Name -> SUBSET InRecord] /\ asked \in [Name -> 0 .. MaxInterests]
        /\ armed \in [Name -> 0 .. MaxInterests] /\ latest \in [Name -> 0 .. MaxInterests]
    BY <1>0 DEF TypeOK
  <2>4. asked[i.name] \in Nat /\ asked[i.name] <= starts
    BY <1>0, <2>1, <2>3 DEF Sound
  <2>5. TypeOK'
    <3>1. pit' \in [Name -> SUBSET InRecord] /\ latest' \in [Name -> 0 .. MaxInterests]
      BY <2>1, <2>2, <2>3
    <3>2. armed' \in [Name -> 0 .. MaxInterests]
      BY <2>1, <2>2, <2>3
    <3>3. asked' \in [Name -> 0 .. MaxInterests]
      <4>1. asked[i.name] + 1 \in 0 .. MaxInterests
        BY <2>1, <2>4, LimitAssumption
      <4>2. CASE asked' = [asked EXCEPT ![i.name] = asked[i.name] + 1]
        BY <2>3, <4>1, <4>2
      <4>3. QED
        BY <2>2, <2>3, <4>2
    <3>4. QED
      BY <1>0, <2>1, <2>2, <3>1, <3>2, <3>3 DEF TypeOK
  <2>6. Sound'
    <3>1. \A n \in Name : IsFiniteSet(pit'[n])
      BY <1>0, <2>1, <2>2, <2>3, FS_AddElement DEF Sound
    <3>2. \A n \in Name : asked'[n] <= starts'
      BY <1>0, <2>1, <2>2, <2>3, <2>4 DEF Sound
    <3>3. \A n \in Name : pit'[n] = {} => asked'[n] = 0
      BY <1>0, <2>1, <2>2, <2>3 DEF Sound
    <3>4. QED
      BY <3>1, <3>2, <3>3 DEF Sound
  <2>7. PendingWillEnd'
    BY <1>0, <2>1, <2>2, <2>3 DEF PendingWillEnd
  <2>8. Aggregated'
    <3>1. ASSUME NEW n \in Name, n # i.name
          PROVE  pit'[n] = pit[n] /\ asked'[n] = asked[n]
      BY <2>2, <2>3, <3>1
    <3>2. /\ asked'[i.name] >= 1
          /\ i.name \notin HopName => asked'[i.name] <= 1
      BY <1>0, <2>1, <2>2, <2>3, <2>4 DEF Aggregated, Sound
    <3>3. QED
      BY <1>0, <3>1, <3>2 DEF Aggregated
  <2>9. QED
    BY <2>5, <2>6, <2>7, <2>8 DEF IInv
<1>4. ASSUME NEW n \in Name, Data(n)
      PROVE  IInv'
  <2>1. Bury(n)
    BY <1>4 DEF Data
  <2>2. TypeOK'
    BY <1>0, <1>4, <2>1, BuryType, LimitAssumption DEF Data, TypeOK, DeadEntry
  <2>3. /\ pit' = [pit EXCEPT ![n] = {}] /\ armed' = [armed EXCEPT ![n] = 0]
        /\ asked' = [asked EXCEPT ![n] = 0] /\ UNCHANGED <<firing, starts>>
        /\ starts \in Nat /\ IsFiniteSet({})
    BY <1>0, <1>4, FS_EmptySet, LimitAssumption DEF Data, TypeOK
  <2>4. \A m \in Name : /\ m = n => pit'[m] = {} /\ asked'[m] = 0
                        /\ m # n => /\ pit'[m] = pit[m] /\ asked'[m] = asked[m]
                                    /\ armed'[m] = armed[m]
    BY <1>0, <2>3 DEF TypeOK
  <2>5. Sound'
    <3>1. SUFFICES ASSUME NEW m \in Name
                   PROVE  /\ IsFiniteSet(pit'[m])
                          /\ pit'[m] = {} => asked'[m] = 0
                          /\ asked'[m] <= starts'
      BY DEF Sound
    <3>2. CASE m = n
      BY <2>3, <2>4, <3>2
    <3>3. CASE m # n
      BY <1>0, <2>3, <2>4, <3>3 DEF Sound
    <3>4. QED
      BY <3>2, <3>3
  <2>6. PendingWillEnd'
    BY <1>0, <2>3, <2>4 DEF PendingWillEnd
  <2>7. Aggregated'
    <3>1. SUFFICES ASSUME NEW m \in Name
                   PROVE  /\ pit'[m] # {} => asked'[m] >= 1
                          /\ m \notin HopName => asked'[m] <= 1
      BY DEF Aggregated
    <3>2. CASE m = n
      BY <2>4, <3>2
    <3>3. CASE m # n
      BY <1>0, <2>4, <3>3 DEF Aggregated
    <3>4. QED
      BY <3>2, <3>3
  <2>8. QED
    BY <2>2, <2>5, <2>6, <2>7 DEF IInv
<1>5. ASSUME NEW n \in Name, TimerUp(n)
      PROVE  IInv'
  <2>1. [name |-> n, start |-> armed[n]] \in Expiry
    BY <1>0, <1>5 DEF TimerUp, TypeOK, Expiry, Start
  <2>2. TypeOK'
    BY <1>0, <1>5, <2>1, LimitAssumption DEF TimerUp, TypeOK, deadVars
  <2>3. PendingWillEnd'
    <3>1. ASSUME NEW m \in Name, m # n, pit[m] # {}
          PROVE  armed'[m] # 0 \/ \E c \in firing' : c.name = m
      BY <1>0, <1>5, <3>1 DEF TimerUp, TypeOK, PendingWillEnd
    <3>2. \E c \in firing' : c.name = n
      <4>1. [name |-> n, start |-> armed[n]] \in firing'
        BY <1>5 DEF TimerUp
      <4>2. [name |-> n, start |-> armed[n]].name = n
        OBVIOUS
      <4>3. QED
        BY <4>1, <4>2
    <3>3. QED
      BY <1>5, <3>1, <3>2 DEF TimerUp, PendingWillEnd
  <2>4. Sound' /\ Aggregated'
    BY <1>0, <1>5 DEF TimerUp, Sound, Aggregated
  <2>5. QED
    BY <2>2, <2>3, <2>4 DEF IInv
<1>6. ASSUME NEW c \in firing, Finalize(c)
      PROVE  IInv'
  <2>1. c.name \in Name
    BY <1>0 DEF TypeOK, Expiry
  <2>2. dead' \in Seq(DeadEntry) /\ Len(dead') <= sizeLimit' /\ UNCHANGED <<sizeLimit, resizes>>
    <3>1. CASE UNCHANGED deadVars
      BY <1>0, <3>1 DEF TypeOK, deadVars, DeadEntry
    <3>2. CASE Bury(c.name)
      BY <2>1, <3>2, BuryType
    <3>3. QED
      BY <1>6, <3>1, <3>2 DEF Finalize
  <2>3. TypeOK'
    BY <1>0, <1>6, <2>1, <2>2, LimitAssumption DEF Finalize, TypeOK, DeadEntry
  <2>4. PendingWillEnd'
    <3>1. ASSUME NEW m \in Name, pit'[m] # {}
          PROVE  m # c.name /\ pit[m] # {}
      BY <1>0, <1>6, <2>1, <3>1 DEF Finalize, TypeOK
    <3>2. QED
      BY <1>0, <1>6, <3>1 DEF Finalize, PendingWillEnd
  <2>5. Sound' /\ Aggregated'
    BY <1>0, <1>6, <2>1, FS_EmptySet, LimitAssumption DEF Finalize, TypeOK, Sound, Aggregated
  <2>6. QED
    BY <2>3, <2>4, <2>5 DEF IInv
<1>7. ASSUME Resize
      PROVE  IInv'
  <2>1. sizeLimit \in 1 .. SizeLimit /\ SizeLimit \in Nat /\ dead \in Seq(DeadEntry)
    BY <1>0, LimitAssumption DEF TypeOK, DeadEntry
  <2>2. sizeLimit' \in 1 .. SizeLimit
    <3> DEFINE less == (sizeLimit * 9) \div 10
    <3>1. less \in 0 .. sizeLimit
      BY <2>1
    <3>2. sizeLimit' \in {sizeLimit, 1, less} /\ (sizeLimit' = less => less # 0 \/ sizeLimit' = sizeLimit)
      BY <1>7 DEF Resize
    <3> HIDE DEF less
    <3>3. QED
      BY <2>1, <3>1, <3>2
  <2>3. Append(dead, Mark) \in Seq(DeadEntry) /\ dead' = Newest(Append(dead, Mark), sizeLimit')
    BY <1>7, <2>1 DEF Resize, DeadEntry
  <2>4. dead' \in Seq(DeadEntry) /\ Len(dead') <= sizeLimit'
    <3>1. sizeLimit' \in Nat
      BY <2>1, <2>2
    <3>2. QED
      BY <2>3, <3>1, NewestType
  <2>5. resizes' \in 0 .. MaxResizes
    BY <1>0, <1>7, LimitAssumption DEF Resize, TypeOK
  <2>6. TypeOK'
    BY <1>0, <1>7, <2>2, <2>4, <2>5 DEF Resize, TypeOK, DeadEntry, pitVars
  <2>7. Sound' /\ PendingWillEnd' /\ Aggregated'
    BY <1>0, <1>7 DEF Resize, Sound, PendingWillEnd, Aggregated, pitVars
  <2>8. QED
    BY <2>6, <2>7 DEF IInv
<1>8. CASE UNCHANGED vars
  BY <1>0, <1>8 DEF vars, pitVars, deadVars, IInv, TypeOK, Sound, PendingWillEnd, Aggregated
<1>9. QED
  BY <1>1, <1>2, <1>3, <1>4, <1>5, <1>6, <1>7, <1>8 DEF Next, Expire

\* The tables keep their shape, and the dead nonce list its limit.
THEOREM TypeCorrect == Spec => []TypeOK
<1>1. IInv => TypeOK
  BY DEF IInv
<1>2. QED
  BY <1>1, IInvInit, IInvStep, PTL DEF Spec

\* A pending entry always has a timer that runs or a callback that waits.
THEOREM EntriesWillEnd == Spec => []PendingWillEnd
<1>1. IInv => PendingWillEnd
  BY DEF IInv
<1>2. QED
  BY <1>1, IInvInit, IInvStep, PTL DEF Spec

\* A pending entry has been sent on, once unless the upper layer repeats itself.
THEOREM EntriesAggregate == Spec => []Aggregated
<1>1. IInv => Aggregated
  BY DEF IInv
<1>2. QED
  BY <1>1, IInvInit, IInvStep, PTL DEF Spec

-----------------------------------------------------------------------------
(***************************************************************************)
(* The dead nonce list holds what was put into it last.                    *)
(***************************************************************************)

Holds(s, x) == \E j \in 1 .. Len(s) : s[j] = x

\* What is appended to the list is in it afterwards, if it is no longer than the
\* limit: insertToList drops from the other end.
LEMMA NewestHolds ==
  ASSUME NEW S, NEW s \in Seq(S), NEW t \in Seq(S), NEW limit \in Nat,
         Len(t) <= limit, NEW i \in 1 .. Len(t)
  PROVE  Holds(Newest(s \o t, limit), t[i])
<1> DEFINE q == s \o t
<1>1. /\ q \in Seq(S) /\ Len(q) = Len(s) + Len(t)
      /\ Len(s) \in Nat /\ Len(t) \in Nat /\ i \in Nat /\ i >= 1 /\ i <= Len(t)
  OBVIOUS
<1>2. q[Len(s) + i] = t[i]
  BY <1>1
<1> HIDE DEF q
<1>3. CASE Len(q) > limit
  <2> DEFINE first == Len(q) - limit + 1
             j == i + limit - Len(t)
  <2>1. first \in 1 .. Len(q) + 1 /\ first \in Nat /\ j \in 1 .. limit /\ first + j - 1 = Len(s) + i
    BY <1>1, <1>3
  <2>2. Newest(q, limit) = SubSeq(q, first, Len(q))
    BY <1>3 DEF Newest
  <2> HIDE DEF first, j
  <2>3. Len(q) - first + 1 = limit
    BY <1>1 DEF first
  <2>4. Len(SubSeq(q, first, Len(q))) = limit /\ SubSeq(q, first, Len(q))[j] = q[first + j - 1]
    BY <1>1, <2>1, <2>3
  <2>5. QED
    BY <1>2, <2>1, <2>2, <2>4 DEF q, Holds
<1>4. CASE ~(Len(q) > limit)
  <2>1. Newest(q, limit) = q
    BY <1>4 DEF Newest
  <2>2. Len(s) + i \in 1 .. Len(q)
    BY <1>1
  <2>3. QED
    BY <1>2, <2>1, <2>2 DEF q, Holds
<1>5. QED
  BY <1>3, <1>4

\* An entry that ends leaves the nonce of each of its in-records, if they fit.
LEMMA BuryRemembers ==
  ASSUME IInv, NEW n \in Name, Bury(n), Cardinality(pit[n]) <= sizeLimit, NEW r \in pit[n]
  PROVE  IsDead(n, r[2])'
<1>1. PICK s \in [1 .. Cardinality(pit[n]) -> pit[n]] :
        /\ \A x \in pit[n] : \E i \in DOMAIN s : s[i] = x
        /\ dead' = Newest(dead \o [i \in DOMAIN s |-> <<n, s[i][2]>>], sizeLimit)
  BY DEF Bury
<1>2. Cardinality(pit[n]) \in Nat
  BY FS_CardinalityType DEF IInv, Sound
<1>3. pit[n] \subseteq InRecord
  BY DEF IInv, TypeOK
<1> DEFINE t == [i \in DOMAIN s |-> <<n, s[i][2]>>]
<1>4. t \in Seq(DeadEntry) /\ Len(t) = Cardinality(pit[n])
  <2>1. ASSUME NEW i \in DOMAIN s PROVE <<n, s[i][2]>> \in DeadEntry
    <3>1. s[i][2] \in Nonce
      BY <1>3 DEF InRecord
    <3>2. QED
      BY <3>1 DEF DeadEntry
  <2>2. t \in [1 .. Cardinality(pit[n]) -> DeadEntry]
    BY <2>1
  <2>3. QED
    BY <1>2, <2>2
<1>5. PICK i \in 1 .. Len(t) : t[i] = <<n, r[2]>>
  <2>1. PICK i \in DOMAIN s : s[i] = r
    BY <1>1
  <2>2. DOMAIN s = 1 .. Len(t)
    BY <1>4
  <2>3. t[i] = <<n, r[2]>>
    BY <2>1
  <2>4. QED
    BY <2>2, <2>3
<1>6. dead' = Newest(dead \o t, sizeLimit)
  BY <1>1 DEF t
<1> HIDE DEF t
<1>7. dead \in Seq(DeadEntry) /\ sizeLimit \in Nat
  BY LimitAssumption DEF IInv, TypeOK, DeadEntry
<1>8. Len(t) <= sizeLimit
  BY <1>4
<1>9. Holds(Newest(dead \o t, sizeLimit), t[i])
  BY <1>5, <1>7, <1>4, <1>8, NewestHolds
<1>10. QED
  BY <1>5, <1>6, <1>9 DEF IsDead, Holds

\* Only data and an expiry end an entry.
LEMMA EndsBy ==
  ASSUME IInv, [Next]_vars, NEW n \in Name, pit[n] # {}, pit'[n] = {}
  PROVE  Bury(n)
<1>0. pit \in [Name -> SUBSET InRecord] /\ checked \subseteq Interest /\ firing \subseteq Expiry
  BY DEF IInv, TypeOK
<1>1. ASSUME NEW i \in checked, Record(i) PROVE FALSE
  <2>1. i.name \in Name
    BY <1>0 DEF Interest
  <2>2. QED
    BY <1>0, <1>1, <2>1 DEF Record
<1>2. ASSUME NEW m \in Name, Data(m) PROVE Bury(n)
  <2>1. pit' = [pit EXCEPT ![m] = {}] /\ Bury(m)
    BY <1>2 DEF Data
  <2>2. m = n
    BY <1>0, <2>1
  <2>3. QED
    BY <2>1, <2>2
<1>3. ASSUME NEW c \in firing, Finalize(c) PROVE Bury(n)
  <2>1. c.name \in Name /\ pit' = [pit EXCEPT ![c.name] = {}]
    BY <1>0, <1>3 DEF Finalize, Expiry
  <2>2. c.name = n
    BY <1>0, <2>1
  <2>3. QED
    BY <1>3, <2>2 DEF Finalize
<1>4. ASSUME UNCHANGED pit PROVE FALSE
  BY <1>4
<1>5. ASSUME NEW i \in Interest, CheckInterest(i) PROVE UNCHANGED pit
  BY <1>5 DEF CheckInterest, pitVars
<1>6. ASSUME NEW i \in checked, DropLooping(i) PROVE UNCHANGED pit
  BY <1>6 DEF DropLooping, pitVars
<1>7. ASSUME NEW m \in Name, TimerUp(m) PROVE UNCHANGED pit
  BY <1>7 DEF TimerUp
<1>8. Resize \/ UNCHANGED vars => UNCHANGED pit
  BY DEF Resize, vars, pitVars
<1>9. QED
  BY <1>1, <1>2, <1>3, <1>4, <1>5, <1>6, <1>7, <1>8 DEF Next, Expire

\* Whatever the list held, an entry that ends with no more in-records than the limit
\* has all its nonces in the list.
LEMMA StepRemembers ==
  IInv /\ [Next]_vars =>
    [\A n \in Name : pit'[n] = {} /\ Cardinality(pit[n]) <= sizeLimit
       => \A r \in pit[n] : IsDead(n, r[2])']_vars
<1>1. ASSUME IInv, [Next]_vars, NEW n \in Name, pit'[n] = {}, Cardinality(pit[n]) <= sizeLimit,
             NEW r \in pit[n]
      PROVE  IsDead(n, r[2])'
  <2>1. Bury(n)
    BY <1>1, EndsBy
  <2>2. QED
    BY <1>1, <2>1, BuryRemembers
<1>2. QED
  BY <1>1

\* The nonces of an entry are forgotten at once only when they exceed the limit of
\* the dead nonce list.
THEOREM NoncesRememberedIfRoom == Spec => RememberedIfRoom
<1>1. QED
  BY IInvInit, IInvStep, StepRemembers, PTL DEF Spec, RememberedIfRoom

-----------------------------------------------------------------------------
(***************************************************************************)
(* Why an entry can expire by an older timer than that of its last         *)
(* in-record: an interest was recorded while a callback waited for         *)
(* protocolLock.  Where none is, no entry does.                            *)
(***************************************************************************)
PromptNext == Next /\ (firing # {} => starts' = starts)

PromptSpec == Init /\ [][PromptNext]_vars

\* The timer that runs belongs to an entry, and to its last in-record; one that
\* has fired was that of the last in-record, and no other runs meanwhile.
Timely ==
  \A n \in Name :
    /\ armed[n] # 0 => pit[n] # {} /\ armed[n] = latest[n]
    /\ \A c \in firing : c.name = n => armed[n] = 0 /\ (pit[n] # {} => c.start = latest[n])

PromptInv == IInv /\ Timely

LEMMA PromptInit == Init => PromptInv
<1>1. Init => Timely
  BY DEF Init, Timely
<1>2. QED
  BY <1>1, IInvInit DEF PromptInv

LEMMA PromptStep == PromptInv /\ [PromptNext]_vars => PromptInv'
<1> SUFFICES ASSUME PromptInv, [PromptNext]_vars PROVE Timely'
  BY IInvStep DEF PromptInv, PromptNext
<1>0. /\ IInv /\ Timely /\ [Next]_vars
      /\ pit \in [Name -> SUBSET InRecord] /\ armed \in [Name -> 0 .. MaxInterests]
      /\ latest \in [Name -> 0 .. MaxInterests] /\ starts \in 0 .. MaxInterests
      /\ checked \subseteq Interest /\ firing \subseteq Expiry
  BY DEF PromptInv, PromptNext, IInv, TypeOK
<1>1. ASSUME NEW i \in checked, Record(i), firing = {}
      PROVE  Timely'
  <2>1. i.name \in Name
    BY <1>0 DEF Interest
  <2>2. /\ pit' = [pit EXCEPT ![i.name] = @ \cup {<<i.face, i.nonce>>}]
        /\ latest' = [latest EXCEPT ![i.name] = starts + 1]
        /\ UNCHANGED firing
    BY <1>1 DEF Record
  <2>3. armed' = [armed EXCEPT ![i.name] = starts + 1]
    <3>1. pit[i.name] = {} => armed[i.name] = 0
      BY <1>0, <2>1 DEF Timely
    <3>2. QED
      BY <1>1, <3>1 DEF Record
  <2>4. /\ pit'[i.name] # {} /\ armed'[i.name] = latest'[i.name]
        /\ \A n \in Name \ {i.name} :
             pit'[n] = pit[n] /\ armed'[n] = armed[n] /\ latest'[n] = latest[n]
    BY <1>0, <2>1, <2>2, <2>3
  <2>5. QED
    BY <1>0, <1>1, <2>2, <2>4 DEF Timely
<1>2. ASSUME NEW m \in Name, Data(m)
      PROVE  Timely'
  <2>1. /\ pit' = [pit EXCEPT ![m] = {}] /\ armed' = [armed EXCEPT ![m] = 0]
        /\ UNCHANGED <<firing, latest>>
    BY <1>2 DEF Data
  <2>2. /\ pit'[m] = {} /\ armed'[m] = 0
        /\ \A n \in Name \ {m} : pit'[n] = pit[n] /\ armed'[n] = armed[n]
    BY <1>0, <2>1
  <2>3. QED
    BY <1>0, <2>1, <2>2 DEF Timely
<1>3. ASSUME NEW m \in Name, TimerUp(m)
      PROVE  Timely'
  <2> DEFINE d == [name |-> m, start |-> armed[m]]
  <2>1. /\ armed[m] # 0 /\ armed' = [armed EXCEPT ![m] = 0]
        /\ firing' = firing \cup {d} /\ UNCHANGED <<pit, latest>>
    BY <1>3 DEF TimerUp
  <2>2. d.name = m /\ d.start = latest[m]
    BY <1>0, <2>1 DEF Timely
  <2>3. armed'[m] = 0 /\ \A n \in Name \ {m} : armed'[n] = armed[n]
    BY <1>0, <2>1
  <2> HIDE DEF d
  <2>4. QED
    BY <1>0, <2>1, <2>2, <2>3 DEF Timely
<1>4. ASSUME NEW c \in firing, Finalize(c)
      PROVE  Timely'
  <2>1. /\ c.name \in Name /\ pit' = [pit EXCEPT ![c.name] = {}]
        /\ firing' = firing \ {c} /\ UNCHANGED <<armed, latest>>
    BY <1>0, <1>4 DEF Finalize, Expiry
  <2>2. /\ pit'[c.name] = {} /\ armed[c.name] = 0
        /\ \A n \in Name \ {c.name} : pit'[n] = pit[n]
    BY <1>0, <2>1 DEF Timely
  <2>3. QED
    BY <1>0, <2>1, <2>2 DEF Timely
<1>5. ASSUME NEW i \in Interest, CheckInterest(i) PROVE UNCHANGED pitVars
  BY <1>5 DEF CheckInterest
<1>6. ASSUME NEW i \in checked, DropLooping(i) PROVE UNCHANGED pitVars
  BY <1>6 DEF DropLooping
<1>7. Resize \/ UNCHANGED vars => UNCHANGED pitVars
  BY DEF Resize, vars
<1>8. ASSUME UNCHANGED pitVars PROVE Timely'
  BY <1>0, <1>8 DEF Timely, pitVars
<1>9. ASSUME NEW i \in checked, Record(i) PROVE firing = {} \/ UNCHANGED vars
  <2>1. starts' # starts
    BY <1>0, <1>9, LimitAssumption DEF Record
  <2>2. QED
    BY <2>1 DEF PromptNext
<1>10. QED
  BY <1>0, <1>1, <1>2, <1>3, <1>4, <1>5, <1>6, <1>7, <1>8, <1>9 DEF Next, Expire

\* A callback that ends an entry was that of the entry's last in-record.
LEMMA PromptExpiry ==
  PromptInv /\ [PromptNext]_vars =>
    [\A c \in firing \ firing' : pit[c.name] # {} => c.start = latest[c.name]]_vars
<1>1. ASSUME PromptInv, NEW c \in firing, pit[c.name] # {}
      PROVE  c.start = latest[c.name]
  <2>1. c.name \in Name
    BY <1>1 DEF PromptInv, IInv, TypeOK, Expiry
  <2>2. QED
    BY <1>1, <2>1 DEF PromptInv, Timely
<1>2. QED
  BY <1>1

\* An entry expires by the timer of its last in-record (NdnProtocol.cpp:108-109) if no
\* interest is recorded between the firing of a timer and its callback.
THEOREM PromptExpires == PromptSpec => LastRecordExpires
<1>1. QED
  BY PromptInit, PromptStep, PromptExpiry, PTL DEF PromptSpec, LastRecordExpires
=============================================================================
