--------------------------- MODULE NodePoolProofs ----------------------------
(***************************************************************************)
(* Theorems about the slot pool of one NodeSession, for any finite number  *)
(* of requests and channels and any values of max_streams_per_conn.        *)
(***************************************************************************)
EXTENDS NodePool, FiniteSetTheorems, SequenceTheorems, WellFoundedInduction,
        TLAPS

\* The owner of a slot is a channel, nobody's is none.
Slots == [Requests -> Channels \cup {NoChannel}]

\* Who waits for a slot in n.waiters.
Queued(r) == \E i \in 1..Len(waiters) : waiters[i] = r

\* No request stands twice in n.waiters.
Distinct == \A i, j \in 1..Len(waiters) : waiters[i] = waiters[j] => i = j

\* A handoff that grants the first k waiters what g says and touches nobody
\* else, without the choice of the channels.
Granted(owned, act, total, k, g) ==
    /\ waiters' = SubSeq(waiters, k + 1, Len(waiters))
    /\ waiters' \in Seq(Requests)
    /\ Len(waiters') = Len(waiters) - k
    /\ \A i \in 1..Len(waiters') : waiters'[i] = waiters[k + i]
    /\ active' = Booked(act, g, k)
    /\ activeStreams' = total + k
    /\ slot' \in Slots
    /\ \A i \in 1..k : slot'[waiters[i]] = g[i]
    /\ \A r \in Requests :
         (\A i \in 1..k : waiters[i] # r) => slot'[r] = owned[r]

-----------------------------------------------------------------------------
\* Lemmas about the operators of the pool.

\* What is booked on top of integer counters are integer counters.
LEMMA BookedType ==
    ASSUME NEW act \in [Channels -> Int], NEW k \in Nat, NEW g
    PROVE  Booked(act, g, k) \in [Channels -> Int]
<1>1. \A c \in Channels : Cardinality({j \in 1..k : g[j] = c}) \in Nat
  <2> TAKE c \in Channels
  <2> DEFINE Grants == {j \in 1..k : g[j] = c}
  <2>1. IsFiniteSet(1..k)
    BY FS_Interval
  <2>2. IsFiniteSet(Grants)
    BY <2>1, FS_Subset
  <2> QED
    BY <2>2, FS_CardinalityType
<1> QED
  BY <1>1 DEF Booked

\* What handoffLocked does, without the choice of the channels: the first k
\* waiters own what g grants them, nobody else is touched.
LEMMA HandoffEffect ==
    ASSUME waiters \in Seq(Requests),
           NEW owned \in Slots, NEW act \in [Channels -> Int], NEW total \in Int,
           NEW on \in SUBSET Channels,
           Distinct,
           Handoff(owned, act, total, on)
    PROVE  \E k \in 0..Len(waiters) : \E g \in [1..k -> Channels] :
             Granted(owned, act, total, k, g)
<1> DEFINE Grants(k, g) ==
      /\ waiters' = SubSeq(waiters, k + 1, Len(waiters))
      /\ active' = Booked(act, g, k)
      /\ activeStreams' = total + k
      /\ slot' = [r \in Requests |->
                    IF \E i \in 1..k : waiters[i] = r
                    THEN g[CHOOSE i \in 1..k : waiters[i] = r]
                    ELSE owned[r]]
<1>0. PICK k \in 0..Len(waiters) : \E g \in [1..k -> on] : Grants(k, g)
  BY DEF Handoff
<1>1. PICK g \in [1..k -> on] : Grants(k, g)
  BY <1>0
<1>2. Len(waiters) \in Nat /\ k \in Nat /\ g \in [1..k -> Channels]
  BY <1>1, LenProperties
<1>3. \A i \in 1..Len(waiters) : waiters[i] \in Requests
  BY ElementOfSeq
<1>4. /\ waiters' \in Seq(Requests)
      /\ Len(waiters') = Len(waiters) - k
      /\ \A i \in 1..Len(waiters') : waiters'[i] = waiters[k + i]
  <2>1. \A i \in (k + 1)..Len(waiters) : waiters[i] \in Requests
    BY <1>2, <1>3
  <2>2. /\ SubSeq(waiters, k + 1, Len(waiters)) \in Seq(Requests)
        /\ Len(SubSeq(waiters, k + 1, Len(waiters))) =
             IF k + 1 <= Len(waiters) THEN Len(waiters) - (k + 1) + 1 ELSE 0
        /\ \A i \in 1..(Len(waiters) - (k + 1) + 1) :
             SubSeq(waiters, k + 1, Len(waiters))[i] = waiters[k + 1 + i - 1]
    BY <1>2, <2>1, SubSeqProperties
  <2> QED
    BY <1>1, <1>2, <2>2
<1>5. \A i \in 1..k : slot'[waiters[i]] = g[i]
  <2> TAKE i \in 1..k
  <2>1. i \in 1..Len(waiters)
    BY <1>2
  <2>2. waiters[i] \in Requests
    BY <1>3, <2>1
  <2>3. (CHOOSE j \in 1..k : waiters[j] = waiters[i]) = i
    <3>1. \A j \in 1..k : waiters[j] = waiters[i] => j = i
      BY <1>2, <2>1 DEF Distinct
    <3> QED
      BY <3>1
  <2> QED
    BY <1>1, <2>2, <2>3
<1>6. slot' \in Slots
  <2> SUFFICES ASSUME NEW r \in Requests
               PROVE  (IF \E i \in 1..k : waiters[i] = r
                       THEN g[CHOOSE i \in 1..k : waiters[i] = r]
                       ELSE owned[r]) \in Channels \cup {NoChannel}
    BY <1>1 DEF Slots
  <2>1. CASE \E i \in 1..k : waiters[i] = r
    <3>1. (CHOOSE i \in 1..k : waiters[i] = r) \in 1..k
      BY <2>1
    <3> QED
      BY <1>2, <2>1, <3>1
  <2>2. CASE ~ \E i \in 1..k : waiters[i] = r
    BY <2>2 DEF Slots
  <2> QED
    BY <2>1, <2>2
<1>7. \A r \in Requests : (\A i \in 1..k : waiters[i] # r) => slot'[r] = owned[r]
  BY <1>1
<1> QED
  BY <1>1, <1>2, <1>4, <1>5, <1>6, <1>7 DEF Granted

\* handoffLocked and the queue: who is still queued is who got nothing, and
\* only the queued get something.
LEMMA HandoffQueue ==
    ASSUME waiters \in Seq(Requests), NoChannel \notin Channels,
           NEW owned \in Slots, NEW act \in [Channels -> Int], NEW total \in Int,
           NEW on \in SUBSET Channels,
           Distinct,
           \A r \in Requests : Queued(r) => owned[r] = NoChannel,
           Handoff(owned, act, total, on)
    PROVE  /\ waiters' \in Seq(Requests)
           /\ Distinct'
           /\ active' \in [Channels -> Int]
           /\ activeStreams' \in Int
           /\ slot' \in Slots
           /\ \A r \in Requests : Queued(r)' <=> Queued(r) /\ slot'[r] = NoChannel
           /\ \A r \in Requests : ~Queued(r) => slot'[r] = owned[r]
<1>0. PICK k \in 0..Len(waiters) : \E g \in [1..k -> Channels] :
             Granted(owned, act, total, k, g)
  BY HandoffEffect
<1>1. PICK g \in [1..k -> Channels] : Granted(owned, act, total, k, g)
  BY <1>0
<1>2. Len(waiters) \in Nat /\ k \in Nat
  BY LenProperties
<1>3. Distinct'
  <2> SUFFICES ASSUME NEW i \in 1..Len(waiters'), NEW j \in 1..Len(waiters'),
                      waiters'[i] = waiters'[j]
               PROVE  i = j
    BY DEF Distinct
  <2>1. k + i \in 1..Len(waiters) /\ k + j \in 1..Len(waiters)
    BY <1>1, <1>2 DEF Granted
  <2>2. waiters[k + i] = waiters[k + j]
    BY <1>1 DEF Granted
  <2>3. k + i = k + j
    BY <2>1, <2>2 DEF Distinct
  <2> QED
    BY <1>1, <1>2, <2>3
<1>4. active' \in [Channels -> Int] /\ activeStreams' \in Int
  BY SMTT(30), <1>1, <1>2, BookedType DEF Granted
<1>5. ASSUME NEW r \in Requests
      PROVE  Queued(r)' <=> Queued(r) /\ slot'[r] = NoChannel
  <2>1. ASSUME Queued(r)' PROVE Queued(r) /\ slot'[r] = NoChannel
    <3>1. PICK i \in 1..Len(waiters') : waiters'[i] = r
      BY <2>1 DEF Queued
    <3>2. k + i \in 1..Len(waiters) /\ waiters[k + i] = r
      BY <1>1, <1>2, <3>1 DEF Granted
    <3>3. \A j \in 1..k : waiters[j] # r
      BY <1>2, <3>2 DEF Distinct
    <3>4. Queued(r)
      BY <3>2 DEF Queued
    <3> QED
      BY <1>1, <3>3, <3>4 DEF Granted
  <2>2. ASSUME Queued(r), slot'[r] = NoChannel PROVE Queued(r)'
    <3>1. PICK i \in 1..Len(waiters) : waiters[i] = r
      BY <2>2 DEF Queued
    <3>2. i \notin 1..k
      <4>1. ASSUME i \in 1..k PROVE FALSE
        <5>1. slot'[r] = g[i] /\ g[i] \in Channels
          BY <1>1, <3>1, <4>1 DEF Granted
        <5> QED
          BY <2>2, <5>1
      <4> QED
        BY <4>1
    <3>3. i - k \in 1..Len(waiters') /\ k + (i - k) = i
      BY <1>1, <1>2, <3>1, <3>2 DEF Granted
    <3>4. waiters'[i - k] = r
      BY <1>1, <3>1, <3>3 DEF Granted
    <3> QED
      BY <3>3, <3>4 DEF Queued
  <2> QED
    BY <2>1, <2>2
<1>6. ASSUME NEW r \in Requests, ~Queued(r)
      PROVE  slot'[r] = owned[r]
  <2>1. \A i \in 1..k : waiters[i] # r
    BY <1>2, <1>6 DEF Queued
  <2> QED
    BY <1>1, <2>1 DEF Granted
<1> QED
  BY <1>1, <1>3, <1>4, <1>5, <1>6 DEF Granted

\* The bookings of channels and session agree with who owns what.
Accounts(own, act, total) ==
    /\ \A c \in Channels : act[c] = Cardinality({r \in Requests : own[r] = c})
    /\ total = Cardinality({r \in Requests : own[r] # NoChannel})

\* Granting to waiters who stand at different places of the queue, and own
\* nothing yet, adds as many owners as places.
LEMMA GrantsCount ==
    ASSUME IsFiniteSet(Requests), waiters \in Seq(Requests), Distinct,
           NEW k \in 0..Len(waiters), NEW G \in SUBSET (1..k),
           NEW A \in SUBSET Requests, NEW W \in SUBSET Requests,
           \A r \in Requests : r \in W <=> \E i \in G : waiters[i] = r,
           A \cap W = {}
    PROVE  Cardinality(A \cup W) = Cardinality(A) + Cardinality(G)
<1>1. Len(waiters) \in Nat /\ k \in Nat /\ \A i \in G : i \in 1..Len(waiters)
  BY LenProperties
<1>2. \A i \in G : waiters[i] \in Requests
  BY <1>1, ElementOfSeq
<1>3. IsFiniteSet(G)
  <2>1. IsFiniteSet(1..k)
    BY <1>1, FS_Interval
  <2> QED
    BY <2>1, FS_Subset
<1>4. ExistsBijection(G, W)
  <2> DEFINE place == [i \in G |-> waiters[i]]
  <2>1. place \in [G -> W]
    BY <1>2
  <2>2. \A i, j \in G : place[i] = place[j] => i = j
    BY <1>1 DEF Distinct
  <2>3. \A r \in W : \E i \in G : place[i] = r
    <3> TAKE r \in W
    <3>1. PICK i \in G : waiters[i] = r
      OBVIOUS
    <3> QED
      BY <3>1
  <2>4. place \in Bijection(G, W)
    BY <2>1, <2>2, <2>3 DEF Bijection, Injection, Surjection, IsInjective
  <2> QED
    BY <2>4 DEF ExistsBijection
<1>5. IsFiniteSet(W) /\ Cardinality(W) = Cardinality(G)
  BY <1>3, <1>4, FS_Bijection
<1>6. IsFiniteSet(A)
  BY FS_Subset
<1>7. Cardinality(A \cup W) = Cardinality(A) + Cardinality(W) - Cardinality(A \cap W)
  BY <1>5, <1>6, FS_Union
<1>8. Cardinality(A \cap W) = 0
  BY FS_EmptySet
<1>9. Cardinality(A) \in Nat /\ Cardinality(W) \in Nat
  BY <1>5, <1>6, FS_CardinalityType
<1> QED
  BY <1>5, <1>7, <1>8, <1>9

\* handoffLocked keeps the books: what it finds right it leaves right.
LEMMA HandoffAccounts ==
    ASSUME waiters \in Seq(Requests), NoChannel \notin Channels, IsFiniteSet(Requests),
           NEW owned \in Slots, NEW act \in [Channels -> Int], NEW total \in Int,
           NEW on \in SUBSET Channels,
           Distinct,
           \A r \in Requests : Queued(r) => owned[r] = NoChannel,
           Accounts(owned, act, total),
           Handoff(owned, act, total, on)
    PROVE  SlotAccounting'
<1>0. PICK k \in 0..Len(waiters) : \E g \in [1..k -> Channels] :
             Granted(owned, act, total, k, g)
  BY HandoffEffect
<1>1. PICK g \in [1..k -> Channels] : Granted(owned, act, total, k, g)
  BY <1>0
<1>2. Len(waiters) \in Nat /\ k \in Nat
  BY LenProperties
<1>3. \A i \in 1..k : waiters[i] \in Requests /\ owned[waiters[i]] = NoChannel
  <2> TAKE i \in 1..k
  <2>1. i \in 1..Len(waiters)
    BY <1>2
  <2>2. waiters[i] \in Requests
    BY <2>1, ElementOfSeq
  <2> QED
    BY <2>1, <2>2 DEF Queued
<1>4. ASSUME NEW c \in Channels
      PROVE  active'[c] = Cardinality({r \in Requests : slot'[r] = c})
  <2> DEFINE G == {i \in 1..k : g[i] = c}
             A == {r \in Requests : owned[r] = c}
             W == {r \in Requests : \E i \in G : waiters[i] = r}
  <2>1. {r \in Requests : slot'[r] = c} = A \cup W
    <3>1. ASSUME NEW r \in Requests, slot'[r] = c PROVE r \in A \cup W
      <4>1. CASE \E i \in 1..k : waiters[i] = r
        BY <1>1, <3>1, <4>1 DEF Granted
      <4>2. CASE \A i \in 1..k : waiters[i] # r
        BY <1>1, <3>1, <4>2 DEF Granted
      <4> QED
        BY <4>1, <4>2
    <3>2. ASSUME NEW r \in A PROVE slot'[r] = c
      <4>1. \A i \in 1..k : waiters[i] # r
        BY <1>3
      <4> QED
        BY <1>1, <4>1 DEF Granted
    <3>3. ASSUME NEW r \in W PROVE slot'[r] = c
      BY <1>1 DEF Granted
    <3> QED
      BY <3>1, <3>2, <3>3
  <2>2. A \cap W = {}
    BY <1>3
  <2>3. Cardinality(A \cup W) = Cardinality(A) + Cardinality(G)
    <3> HIDE DEF A, G
    <3>1. A \in SUBSET Requests /\ W \in SUBSET Requests /\ G \in SUBSET (1..k)
      BY DEF A, G
    <3> QED
      BY <2>2, <3>1, GrantsCount
  <2>4. active'[c] = act[c] + Cardinality(G)
    BY <1>1 DEF Granted, Booked
  <2> QED
    BY <2>1, <2>3, <2>4 DEF Accounts
<1>5. activeStreams' = Cardinality({r \in Requests : slot'[r] # NoChannel})
  <2> DEFINE G == 1..k
             A == {r \in Requests : owned[r] # NoChannel}
             W == {r \in Requests : \E i \in G : waiters[i] = r}
  <2>1. {r \in Requests : slot'[r] # NoChannel} = A \cup W
    <3>1. ASSUME NEW r \in Requests, slot'[r] # NoChannel PROVE r \in A \cup W
      BY <1>1, <3>1 DEF Granted
    <3>2. ASSUME NEW r \in A PROVE slot'[r] # NoChannel
      <4>1. \A i \in 1..k : waiters[i] # r
        BY <1>3
      <4> QED
        BY <1>1, <4>1 DEF Granted
    <3>3. ASSUME NEW r \in W PROVE slot'[r] # NoChannel
      BY <1>1 DEF Granted
    <3> QED
      BY <3>1, <3>2, <3>3
  <2>2. A \cap W = {}
    BY <1>3
  <2>3. Cardinality(A \cup W) = Cardinality(A) + Cardinality(G)
    <3> HIDE DEF A, G
    <3>1. A \in SUBSET Requests /\ W \in SUBSET Requests /\ G \in SUBSET (1..k)
      BY DEF A, G
    <3> QED
      BY <2>2, <3>1, GrantsCount
  <2>4. Cardinality(G) = k
    BY <1>2, FS_Interval
  <2> QED
    BY <1>1, <2>1, <2>3, <2>4 DEF Accounts, Granted
<1> QED
  BY <1>4, <1>5 DEF SlotAccounting, Owners, SlotOwners

\* release, before it hands on: one owner less, on the books too.
LEMMA ReleaseAccounts ==
    ASSUME IsFiniteSet(Requests), NoChannel \notin Channels,
           slot \in Slots, active \in [Channels -> Int], activeStreams \in Int,
           SlotAccounting,
           NEW r \in Requests, slot[r] # NoChannel
    PROVE  Accounts([slot EXCEPT ![r] = NoChannel],
                    [active EXCEPT ![slot[r]] = @ - 1],
                    activeStreams - 1)
<1> DEFINE own == [slot EXCEPT ![r] = NoChannel]
           act == [active EXCEPT ![slot[r]] = @ - 1]
<1>1. slot[r] \in Channels
  BY DEF Slots
<1>2. \A s \in Requests : own[s] = IF s = r THEN NoChannel ELSE slot[s]
  BY DEF Slots
<1>3. ASSUME NEW c \in Channels
      PROVE  act[c] = Cardinality({s \in Requests : own[s] = c})
  <2>1. {s \in Requests : own[s] = c} = Owners(c) \ {r}
    BY <1>2 DEF Owners
  <2>2. IsFiniteSet(Owners(c))
    BY FS_Subset DEF Owners
  <2>3. Cardinality(Owners(c) \ {r}) =
          IF r \in Owners(c) THEN Cardinality(Owners(c)) - 1
                             ELSE Cardinality(Owners(c))
    BY <2>2, FS_RemoveElement
  <2>4. act[c] = IF slot[r] = c THEN active[c] - 1 ELSE active[c]
    BY <1>1
  <2>5. r \in Owners(c) <=> slot[r] = c
    BY DEF Owners
  <2>6. active[c] = Cardinality(Owners(c))
    BY DEF SlotAccounting
  <2> QED
    BY <2>1, <2>3, <2>4, <2>5, <2>6
<1>4. activeStreams - 1 = Cardinality({s \in Requests : own[s] # NoChannel})
  <2>1. {s \in Requests : own[s] # NoChannel} = SlotOwners \ {r}
    BY <1>2 DEF SlotOwners
  <2>2. IsFiniteSet(SlotOwners) /\ r \in SlotOwners
    BY FS_Subset DEF SlotOwners
  <2>3. Cardinality(SlotOwners \ {r}) = Cardinality(SlotOwners) - 1
    BY <2>2, FS_RemoveElement
  <2>4. activeStreams = Cardinality(SlotOwners)
    BY DEF SlotAccounting
  <2> QED
    BY <2>1, <2>3, <2>4
<1> QED
  BY <1>3, <1>4 DEF Accounts

\* reserveLocked books what its caller comes to own.
LEMMA ReserveAccounts ==
    ASSUME IsFiniteSet(Requests), NoChannel \notin Channels,
           slot \in Slots, active \in [Channels -> Int], activeStreams \in Int,
           SlotAccounting,
           NEW r \in Requests, slot[r] = NoChannel, NEW c \in Channels,
           slot' = [slot EXCEPT ![r] = c],
           active' = [active EXCEPT ![c] = @ + 1],
           activeStreams' = activeStreams + 1
    PROVE  SlotAccounting'
<1>1. \A s \in Requests : slot'[s] = IF s = r THEN c ELSE slot[s]
  BY DEF Slots
<1>2. ASSUME NEW d \in Channels PROVE active'[d] = Cardinality(Owners(d)')
  <2>1. IsFiniteSet(Owners(d)) /\ r \notin Owners(d)
    BY FS_Subset DEF Owners
  <2>2. active[d] = Cardinality(Owners(d))
    BY DEF SlotAccounting
  <2>3. CASE d = c
    <3>1. Owners(d)' = Owners(d) \cup {r}
      BY <1>1, <2>3 DEF Owners
    <3>2. Cardinality(Owners(d) \cup {r}) = Cardinality(Owners(d)) + 1
      BY <2>1, FS_AddElement
    <3> QED
      BY <2>2, <2>3, <3>1, <3>2
  <2>4. CASE d # c
    <3>1. Owners(d)' = Owners(d)
      BY <1>1, <2>1, <2>4 DEF Owners
    <3> QED
      BY <2>2, <2>4, <3>1
  <2> QED
    BY <2>3, <2>4
<1>3. activeStreams' = Cardinality(SlotOwners')
  <2>1. IsFiniteSet(SlotOwners) /\ r \notin SlotOwners
    BY FS_Subset DEF SlotOwners
  <2>2. SlotOwners' = SlotOwners \cup {r}
    BY <1>1 DEF SlotOwners
  <2>3. Cardinality(SlotOwners \cup {r}) = Cardinality(SlotOwners) + 1
    BY <2>1, FS_AddElement
  <2>4. activeStreams = Cardinality(SlotOwners)
    BY DEF SlotAccounting
  <2> QED
    BY <2>2, <2>3, <2>4
<1> QED
  BY <1>2, <1>3 DEF SlotAccounting

\* Parking adds exactly the one who parks.
LEMMA ParkEffect ==
    ASSUME waiters \in Seq(Requests), Distinct,
           NEW r \in Requests, ~Queued(r),
           waiters' = Append(waiters, r)
    PROVE  /\ waiters' \in Seq(Requests)
           /\ Distinct'
           /\ \A s \in Requests : Queued(s)' <=> Queued(s) \/ s = r
<1>1. /\ Len(waiters) \in Nat
      /\ waiters' \in Seq(Requests)
      /\ Len(waiters') = Len(waiters) + 1
      /\ \A i \in 1..Len(waiters) : waiters'[i] = waiters[i]
      /\ waiters'[Len(waiters) + 1] = r
  BY LenProperties, AppendProperties
<1>2. \A i \in 1..Len(waiters) : waiters[i] # r
  BY DEF Queued
<1>3. Distinct'
  <2> SUFFICES ASSUME NEW i \in 1..Len(waiters'), NEW j \in 1..Len(waiters'),
                      waiters'[i] = waiters'[j]
               PROVE  i = j
    BY DEF Distinct
  <2>1. CASE i \in 1..Len(waiters) /\ j \in 1..Len(waiters)
    BY <1>1, <2>1 DEF Distinct
  <2>2. CASE i = Len(waiters) + 1 \/ j = Len(waiters) + 1
    BY <1>1, <1>2, <2>2
  <2> QED
    BY <1>1, <2>1, <2>2
<1>4. ASSUME NEW s \in Requests PROVE Queued(s)' <=> Queued(s) \/ s = r
  <2>1. ASSUME Queued(s)' PROVE Queued(s) \/ s = r
    <3>1. PICK i \in 1..Len(waiters') : waiters'[i] = s
      BY <2>1 DEF Queued
    <3>2. CASE i \in 1..Len(waiters)
      BY <1>1, <3>1, <3>2 DEF Queued
    <3>3. CASE i = Len(waiters) + 1
      BY <1>1, <3>1, <3>3
    <3> QED
      BY <1>1, <3>2, <3>3
  <2>2. ASSUME Queued(s) PROVE Queued(s)'
    <3>1. PICK i \in 1..Len(waiters) : waiters[i] = s
      BY <2>2 DEF Queued
    <3>2. i \in 1..Len(waiters') /\ waiters'[i] = s
      BY <1>1, <3>1
    <3> QED
      BY <3>2 DEF Queued
  <2>3. ASSUME s = r PROVE Queued(s)'
    <3>1. Len(waiters) + 1 \in 1..Len(waiters')
      BY <1>1
    <3> QED
      BY <1>1, <2>3, <3>1 DEF Queued
  <2> QED
    BY <2>1, <2>2, <2>3
<1> QED
  BY <1>1, <1>3, <1>4

\* abandon's removal takes out exactly the one who leaves, wherever it stood.
LEMMA WithoutEffect ==
    ASSUME waiters \in Seq(Requests), Distinct,
           NEW r \in Requests, Queued(r),
           waiters' = Without(waiters, r)
    PROVE  /\ waiters' \in Seq(Requests)
           /\ Distinct'
           /\ \A s \in Requests : Queued(s)' <=> Queued(s) /\ s # r
<1> DEFINE i == CHOOSE j \in 1..Len(waiters) : waiters[j] = r
           front == SubSeq(waiters, 1, i - 1)
           back == SubSeq(waiters, i + 1, Len(waiters))
           n == Len(waiters)
<1>1. n \in Nat /\ i \in 1..n /\ waiters[i] = r
  BY LenProperties DEF Queued
<1>2. \A j \in 1..n : waiters[j] \in Requests
  BY ElementOfSeq
<1>3. waiters' = front \o back
  BY DEF Without
<1> HIDE DEF i, n
<1>4. /\ front \in Seq(Requests)
      /\ Len(front) = i - 1
      /\ \A j \in 1..(i - 1) : front[j] = waiters[j]
  <2>1. \A j \in 1..(i - 1) : waiters[j] \in Requests
    BY <1>1, <1>2
  <2>2. i - 1 \in Int /\ 1 \in Int
    BY <1>1
  <2>3. /\ front \in Seq(Requests)
        /\ Len(front) = IF 1 <= i - 1 THEN (i - 1) - 1 + 1 ELSE 0
        /\ \A j \in 1..((i - 1) - 1 + 1) : front[j] = waiters[1 + j - 1]
    BY <2>1, <2>2, SubSeqProperties
  <2> QED
    BY <1>1, <2>3
<1>5. /\ back \in Seq(Requests)
      /\ Len(back) = n - i
      /\ \A j \in 1..(n - i) : back[j] = waiters[i + j]
  <2>1. \A j \in (i + 1)..n : waiters[j] \in Requests
    BY <1>1, <1>2
  <2>2. i + 1 \in Int /\ n \in Int
    BY <1>1
  <2>3. /\ back \in Seq(Requests)
        /\ Len(back) = IF i + 1 <= n THEN n - (i + 1) + 1 ELSE 0
        /\ \A j \in 1..(n - (i + 1) + 1) : back[j] = waiters[i + 1 + j - 1]
    BY <2>1, <2>2, SubSeqProperties DEF n
  <2> QED
    BY <1>1, <2>3
<1> HIDE DEF front, back
<1>6. /\ waiters' \in Seq(Requests)
      /\ Len(waiters') = n - 1
      /\ \A j \in 1..(n - 1) :
           waiters'[j] = IF j < i THEN waiters[j] ELSE waiters[j + 1]
  <2>1. /\ front \o back \in Seq(Requests)
        /\ Len(front \o back) = Len(front) + Len(back)
        /\ \A j \in 1..(Len(front) + Len(back)) :
             (front \o back)[j] =
               IF j <= Len(front) THEN front[j] ELSE back[j - Len(front)]
    BY <1>4, <1>5, ConcatProperties
  <2>2. ASSUME NEW j \in 1..(n - 1)
        PROVE  waiters'[j] = IF j < i THEN waiters[j] ELSE waiters[j + 1]
    <3>1. waiters'[j] = IF j <= i - 1 THEN front[j] ELSE back[j - (i - 1)]
      BY SMTT(30), <1>1, <1>3, <1>4, <1>5, <2>1
    <3>2. CASE j < i
      BY <1>1, <1>4, <3>1, <3>2
    <3>3. CASE ~(j < i)
      <4>1. j - (i - 1) \in 1..(n - i) /\ i + (j - (i - 1)) = j + 1
        BY <1>1, <3>3
      <4>2. back[j - (i - 1)] = waiters[j + 1]
        BY <1>5, <4>1
      <4> QED
        BY <1>1, <3>1, <3>3, <4>2
    <3> QED
      BY <3>2, <3>3
  <2> QED
    BY <1>1, <1>3, <1>4, <1>5, <2>1, <2>2
<1>7. \A j \in 1..n, k \in 1..n : waiters[j] = waiters[k] => j = k
  BY DEF Distinct, n
<1>8. Distinct'
  <2> SUFFICES ASSUME NEW j \in 1..(n - 1), NEW k \in 1..(n - 1),
                      waiters'[j] = waiters'[k]
               PROVE  j = k
    BY <1>6 DEF Distinct
  <2> DEFINE old(x) == IF x < i THEN x ELSE x + 1
  <2>1. old(j) \in 1..n /\ old(k) \in 1..n
    BY <1>1
  <2>2. waiters[old(j)] = waiters[old(k)]
    BY <1>6
  <2>3. old(j) = old(k)
    BY <1>7, <2>1, <2>2
  <2> QED
    BY <1>1, <2>3
<1>9. ASSUME NEW s \in Requests PROVE Queued(s)' <=> Queued(s) /\ s # r
  <2>1. ASSUME Queued(s)' PROVE Queued(s) /\ s # r
    <3>1. PICK j \in 1..(n - 1) : waiters'[j] = s
      BY <1>6, <2>1 DEF Queued
    <3>2. PICK m \in 1..n : m # i /\ waiters[m] = s
      BY SMTT(30), <1>1, <1>6, <3>1
    <3>3. Queued(s)
      BY <3>2 DEF Queued, n
    <3> QED
      BY <1>1, <1>7, <3>2, <3>3
  <2>2. ASSUME Queued(s), s # r PROVE Queued(s)'
    <3>1. PICK m \in 1..n : waiters[m] = s
      BY <2>2 DEF Queued, n
    <3>2. m # i
      BY <1>1, <2>2, <3>1
    <3>3. CASE m < i
      <4>1. m \in 1..(n - 1) /\ waiters'[m] = s
        BY <1>1, <1>6, <3>1, <3>3
      <4> QED
        BY <1>6, <4>1 DEF Queued
    <3>4. CASE m > i
      <4>1. m - 1 \in 1..(n - 1) /\ ~(m - 1 < i) /\ (m - 1) + 1 = m
        BY <1>1, <3>1, <3>4
      <4>2. waiters'[m - 1] = s
        BY <1>6, <3>1, <4>1
      <4> QED
        BY <1>6, <4>1, <4>2 DEF Queued
    <3> QED
      BY <1>1, <3>1, <3>2, <3>3, <3>4
  <2> QED
    BY <2>1, <2>2
<1> QED
  BY <1>6, <1>8, <1>9

\* A non-empty set of grants has a last one.
LEMMA LastGrant ==
    ASSUME NEW k \in Nat, NEW N \in SUBSET (1..k), N # {}
    PROVE  \E i \in N : \A j \in N : j <= i
<1> DEFINE T == {k - j : j \in N}
<1>0. \A j \in N : j \in Int /\ 1 <= j /\ j <= k
  OBVIOUS
<1>1. T \in SUBSET Nat /\ T # {}
  <2>1. ASSUME NEW j \in N PROVE k - j \in Nat
    BY <1>0
  <2>2. T # {}
    OBVIOUS
  <2> QED
    BY <2>1, <2>2
<1>2. \E x \in T : \A y \in T : ~ (<<y, x>> \in OpToRel(<, Nat))
  BY <1>1, NatLessThanWellFounded, WFMin
<1>3. PICK x \in T : \A y \in T : ~ (y < x)
  BY <1>1, <1>2 DEF OpToRel
<1>4. PICK i \in N : x = k - i
  BY <1>3
<1>5. ASSUME NEW j \in N PROVE j <= i
  <2>1. ~ (k - j < k - i)
    BY <1>3, <1>4
  <2> QED
    BY <1>0, <2>1
<1> QED
  BY <1>5

\* A slot handoffLocked books is within the limit and on an open channel of
\* the map.
LEMMA HandoffBooksInLimit ==
    ASSUME limit \in Int,
           NEW owned, NEW act \in [Channels -> Int], NEW total,
           NEW on \in SUBSET Channels,
           Handoff(owned, act, total, on),
           waiters \in Seq(Requests),
           NEW c \in Channels, active'[c] > act[c]
    PROVE  active'[c] <= limit /\ c \in on /\ health[c] # "closed"
<1> DEFINE Grants(k, g) ==
      /\ \A i \in 1..k : g[i] \in LeastLoaded(Booked(act, g, i - 1), on)
      /\ active' = Booked(act, g, k)
<1>0. PICK k \in 0..Len(waiters) : \E g \in [1..k -> on] : Grants(k, g)
  BY DEF Handoff
<1>1. PICK g \in [1..k -> on] : Grants(k, g)
  BY <1>0
<1>2. k \in Nat
  BY LenProperties
<1> DEFINE N == {j \in 1..k : g[j] = c}
<1>3. active'[c] = act[c] + Cardinality(N)
  BY <1>1 DEF Booked
<1>4. N # {}
  <2> HIDE DEF N
  <2>1. ASSUME N = {} PROVE FALSE
    <3>1. Cardinality(N) = 0
      BY <2>1, FS_EmptySet
    <3> QED
      BY <1>3, <3>1
  <2> QED
    BY <2>1
<1>5. PICK i \in N : \A j \in N : j <= i
  <2> HIDE DEF N
  <2>1. N \in SUBSET (1..k)
    BY DEF N
  <2> QED
    BY <1>2, <1>4, <2>1, LastGrant
<1> DEFINE Before == {j \in 1..(i - 1) : g[j] = c}
<1>6. N = Before \cup {i} /\ i \notin Before
  <2>1. i \in Int /\ 1 <= i /\ i <= k
    BY <1>2
  <2>2. ASSUME NEW j \in N PROVE j \in Before \cup {i}
    BY <1>5, <2>1
  <2>3. ASSUME NEW j \in Before PROVE j \in N
    BY <1>2, <2>1
  <2>4. i \notin Before
    BY <2>1
  <2> QED
    BY <2>2, <2>3, <2>4
<1>7. Cardinality(N) = Cardinality(Before) + 1 /\ Cardinality(Before) \in Nat
  <2>1. IsFiniteSet(1..(i - 1))
    BY FS_Interval
  <2>2. IsFiniteSet(Before)
    BY <2>1, FS_Subset
  <2>3. Cardinality(Before \cup {i}) = Cardinality(Before) + 1
    BY <1>6, <2>2, FS_AddElement
  <2> QED
    BY <1>6, <2>2, <2>3, FS_CardinalityType
<1>8. c \in Room(Booked(act, g, i - 1), on)
  <2>1. i \in 1..k /\ g[i] = c
    OBVIOUS
  <2>2. g[i] \in LeastLoaded(Booked(act, g, i - 1), on)
    BY <1>1, <2>1
  <2> QED
    BY <2>1, <2>2 DEF LeastLoaded
<1>9. act[c] + Cardinality(Before) < limit /\ c \in on /\ health[c] # "closed"
  BY <1>8 DEF Room, Booked
<1> QED
  BY <1>3, <1>7, <1>9

\* handoffLocked stops only when the queue or the room has run out.
LEMMA HandoffConserves ==
    ASSUME waiters \in Seq(Requests),
           NEW owned, NEW act, NEW total, NEW on,
           Handoff(owned, act, total, on)
    PROVE  waiters' = <<>> \/ Room(active', on) = {}
<1>1. PICK k \in 0..Len(waiters) :
             /\ waiters' = SubSeq(waiters, k + 1, Len(waiters))
             /\ k = Len(waiters) \/ Room(active', on) = {}
  BY DEF Handoff
<1>2. Len(waiters) \in Nat
  BY LenProperties
<1>3. CASE k = Len(waiters)
  <2>1. k + 1 \in Int /\ Len(waiters) \in Int /\ Len(waiters) < k + 1
    BY <1>2, <1>3
  <2> QED
    BY <1>1, <2>1, SubSeqEmpty
<1>4. CASE Room(active', on) = {}
  BY <1>4
<1> QED
  BY <1>1, <1>3, <1>4

-----------------------------------------------------------------------------
\* The inductive invariant.

\* A channel enters n.channels only once its serveData has called AddChannel.
OnlineIsServed == \A c \in online : handler[c] \notin {"absent", "connected"}

\* What the steps keep together: the books rest on who owns what, that on the
\* queue (only the queued are granted a slot), the queue on the phases.
IInv ==
    /\ TypeOK
    /\ SlotOwnedByPhase
    /\ QueueExact
    /\ SlotAccounting
    /\ WorkConserving
    /\ OnlineIsServed

\* A handoff right after the lock was taken (AddChannel, SetConfig).
LEMMA GrantStep ==
    ASSUME IInv, NoChannel \notin Channels, IsFiniteSet(Requests),
           NEW on \in SUBSET Channels,
           Handoff(slot, active, activeStreams, on),
           UNCHANGED <<pc, bad>>
    PROVE  /\ waiters' \in Seq(Requests) /\ slot' \in Slots
           /\ active' \in [Channels -> Int] /\ activeStreams' \in Int
           /\ SlotOwnedByPhase' /\ QueueExact' /\ SlotAccounting'
<1>1. /\ waiters \in Seq(Requests) /\ slot \in Slots
      /\ active \in [Channels -> Int] /\ activeStreams \in Int
  BY DEF IInv, TypeOK, Slots
<1>2. /\ Distinct
      /\ \A r \in Requests :
           (pc[r] \in Waiting /\ slot[r] = NoChannel) <=> Queued(r)
  BY DEF IInv, QueueExact, Distinct, Queued
<1>3. Accounts(slot, active, activeStreams)
  BY DEF IInv, SlotAccounting, Accounts, Owners, SlotOwners
<1>4. \A r \in Requests : Queued(r) => slot[r] = NoChannel
  BY <1>2
<1>5. /\ waiters' \in Seq(Requests)
      /\ Distinct'
      /\ active' \in [Channels -> Int]
      /\ activeStreams' \in Int
      /\ slot' \in Slots
      /\ \A r \in Requests : Queued(r)' <=> Queued(r) /\ slot'[r] = NoChannel
      /\ \A r \in Requests : ~Queued(r) => slot'[r] = slot[r]
  BY <1>1, <1>2, <1>4, HandoffQueue
<1>6. SlotAccounting'
  BY <1>1, <1>2, <1>3, <1>4, HandoffAccounts
<1>7. SlotOwnedByPhase'
  BY <1>2, <1>5 DEF IInv, SlotOwnedByPhase
<1>8. QueueExact'
  <2>1. ASSUME NEW r \in Requests
        PROVE  (pc'[r] \in Waiting /\ slot'[r] = NoChannel) <=> Queued(r)'
    BY <1>2, <1>5
  <2> QED
    BY <1>5, <2>1 DEF QueueExact, Distinct, Queued
<1> QED
  BY <1>5, <1>6, <1>7, <1>8

\* release by a request that goes on to a phase without a slot.
LEMMA ReleaseStep ==
    ASSUME IInv, NoChannel \notin Channels, IsFiniteSet(Requests),
           NEW r \in Requests,
           pc[r] \in {"opening", "streaming"},
           NEW p \in {"dropping", "returned"},
           pc' = [pc EXCEPT ![r] = p],
           bad' = IF p = "dropping" THEN [bad EXCEPT ![r] = slot[r]] ELSE bad,
           Release(r)
    PROVE  /\ waiters' \in Seq(Requests) /\ slot' \in Slots
           /\ active' \in [Channels -> Int] /\ activeStreams' \in Int
           /\ SlotOwnedByPhase' /\ QueueExact' /\ SlotAccounting'
<1> DEFINE own == [slot EXCEPT ![r] = NoChannel]
           act == [active EXCEPT ![slot[r]] = @ - 1]
<1>1. /\ waiters \in Seq(Requests) /\ slot \in Slots
      /\ active \in [Channels -> Int] /\ activeStreams \in Int
      /\ bad \in [Requests -> Channels \cup {NoChannel}]
      /\ pc \in [Requests -> {"idle", "streaming", "returned"} \cup InQueueRegion]
      /\ online \in SUBSET Channels
  BY DEF IInv, TypeOK, Slots
<1>2. /\ Distinct
      /\ \A s \in Requests :
           (pc[s] \in Waiting /\ slot[s] = NoChannel) <=> Queued(s)
  BY DEF IInv, QueueExact, Distinct, Queued
<1>3. slot[r] # NoChannel /\ slot[r] \in Channels /\ ~Queued(r)
  BY <1>1, <1>2 DEF IInv, SlotOwnedByPhase, Slots, Waiting
<1>4. own \in Slots /\ act \in [Channels -> Int] /\ activeStreams - 1 \in Int
  BY <1>1, <1>3 DEF Slots
<1>5. \A s \in Requests : own[s] = IF s = r THEN NoChannel ELSE slot[s]
  BY <1>1 DEF Slots
<1>6. \A s \in Requests : Queued(s) => own[s] = NoChannel
  BY <1>2, <1>5
<1>7. Accounts(own, act, activeStreams - 1)
  BY <1>1, <1>3, ReleaseAccounts DEF IInv
<1>8. Handoff(own, act, activeStreams - 1, online)
  BY DEF Release
<1> HIDE DEF own, act
<1>9. /\ waiters' \in Seq(Requests)
      /\ Distinct'
      /\ active' \in [Channels -> Int]
      /\ activeStreams' \in Int
      /\ slot' \in Slots
      /\ \A s \in Requests : Queued(s)' <=> Queued(s) /\ slot'[s] = NoChannel
      /\ \A s \in Requests : ~Queued(s) => slot'[s] = own[s]
  BY <1>1, <1>2, <1>4, <1>6, <1>8, HandoffQueue
<1>10. SlotAccounting'
  BY <1>1, <1>2, <1>4, <1>6, <1>7, <1>8, HandoffAccounts
<1>11. \A s \in Requests : pc'[s] = IF s = r THEN p ELSE pc[s]
  BY <1>1
<1>12. ASSUME NEW s \in Requests
       PROVE  /\ pc'[s] \in {"opening", "streaming"} => slot'[s] # NoChannel
              /\ slot'[s] # NoChannel => pc'[s] \in Waiting \cup {"opening", "streaming"}
              /\ pc'[s] = "dropping" <=> bad'[s] # NoChannel
              /\ (pc'[s] \in Waiting /\ slot'[s] = NoChannel) <=> Queued(s)'
  <2>1. CASE s = r
    BY <1>1, <1>3, <1>5, <1>9, <1>11, <2>1 DEF IInv, SlotOwnedByPhase, Waiting
  <2>2. CASE s # r
    <3>1. bad'[s] = bad[s] /\ pc'[s] = pc[s] /\ own[s] = slot[s]
      BY <1>1, <1>5, <1>11, <2>2
    <3> QED
      BY <1>2, <1>9, <3>1 DEF IInv, SlotOwnedByPhase
  <2> QED
    BY <2>1, <2>2
<1>13. SlotOwnedByPhase'
  BY <1>12 DEF SlotOwnedByPhase
<1>14. QueueExact'
  BY <1>9, <1>12 DEF QueueExact, Distinct, Queued
<1> QED
  BY <1>9, <1>10, <1>13, <1>14

\* A step of one request between two phases that are alike for pool and queue.
LEMMA PhaseStep ==
    ASSUME IInv, NEW r \in Requests, NEW p,
           pc' = [pc EXCEPT ![r] = p],
           UNCHANGED <<bad, poolVars>>,
           pc[r] # "dropping", p # "dropping",
           slot[r] # NoChannel <=> p \in {"opening", "streaming"},
           p \notin Waiting,
           pc[r] \in Waiting => slot[r] # NoChannel
    PROVE  SlotOwnedByPhase' /\ QueueExact' /\ SlotAccounting'
<1>1. \A s \in Requests : pc'[s] = IF s = r THEN p ELSE pc[s]
  BY DEF IInv, TypeOK
<1>2. slot' = slot /\ waiters' = waiters /\ bad' = bad
  BY DEF poolVars
<1>3. SlotOwnedByPhase'
  BY <1>1, <1>2 DEF IInv, SlotOwnedByPhase
<1>4. QueueExact'
  BY <1>1, <1>2 DEF IInv, QueueExact
<1>5. SlotAccounting'
  BY DEF poolVars, IInv, SlotAccounting, Owners, SlotOwners
<1> QED
  BY <1>3, <1>4, <1>5

\* A step that leaves requests and pool alone keeps what relates the two.
LEMMA PoolStutter ==
    ASSUME IInv, UNCHANGED <<pc, bad, poolVars>>
    PROVE  SlotOwnedByPhase' /\ QueueExact' /\ SlotAccounting'
BY DEF IInv, poolVars, SlotOwnedByPhase, QueueExact, SlotAccounting, Owners,
       SlotOwners

\* A step that adds no waiter and makes no room owes nobody a handoff.
LEMMA NoNewRoom ==
    ASSUME IInv,
           reload' = reload, limit' = limit, active' = active,
           waiters' = <<>> \/ waiters # <<>>,
           online' \subseteq online,
           \A c \in online' : health'[c] # "closed" => health[c] # "closed"
    PROVE  WorkConserving'
BY DEF IInv, WorkConserving, Room

\* acquire keeps the invariant: whether it reserves or parks.
LEMMA AcquireInv ==
    ASSUME IInv, NoChannel \notin Channels, IsFiniteSet(Requests),
           NEW r \in Requests, Acquire(r)
    PROVE  IInv'
<1>1. /\ waiters \in Seq(Requests) /\ slot \in Slots
      /\ active \in [Channels -> Int] /\ activeStreams \in Int
      /\ pc \in [Requests -> {"idle", "streaming", "returned"} \cup InQueueRegion]
      /\ online \subseteq Channels
  BY DEF IInv, TypeOK, Slots
<1>2. Distinct /\ \A s \in Requests :
           (pc[s] \in Waiting /\ slot[s] = NoChannel) <=> Queued(s)
  BY DEF IInv, QueueExact, Distinct, Queued
<1>3. pc[r] = "acquiring" /\ slot[r] = NoChannel /\ ~Queued(r)
  BY <1>2 DEF Acquire, IInv, SlotOwnedByPhase, Waiting
<1>4. bad' = bad /\ UNCHANGED <<timer, channelVars, sessionVars, queueDepth>>
  BY DEF Acquire
<1>5. OnlineIsServed'
  BY <1>4 DEF IInv, OnlineIsServed, channelVars
<1>6. CASE waiters = <<>> /\ Room(active, online) # {}
  <2>1. PICK c \in LeastLoaded(active, online) :
               /\ slot' = [slot EXCEPT ![r] = c]
               /\ active' = [active EXCEPT ![c] = @ + 1]
    BY <1>6 DEF Acquire
  <2>2. /\ activeStreams' = activeStreams + 1
        /\ pc' = [pc EXCEPT ![r] = "opening"]
        /\ waiters' = waiters
    BY <1>6 DEF Acquire
  <2>3. c \in Channels
    BY <1>1 DEF LeastLoaded, Room
  <2>4. \A s \in Requests :
          /\ pc'[s] = IF s = r THEN "opening" ELSE pc[s]
          /\ slot'[s] = IF s = r THEN c ELSE slot[s]
    BY <1>1, <2>1, <2>2 DEF Slots
  <2>5. TypeOK'
    BY <1>1, <1>4, <2>1, <2>2, <2>3
       DEF IInv, TypeOK, Slots, InQueueRegion, channelVars, sessionVars
  <2>6. SlotOwnedByPhase'
    BY <1>3, <1>4, <2>3, <2>4 DEF IInv, SlotOwnedByPhase
  <2>7. QueueExact'
    BY <1>3, <2>2, <2>3, <2>4 DEF IInv, QueueExact, Waiting
  <2>8. SlotAccounting'
    BY <1>1, <1>3, <2>1, <2>2, <2>3, ReserveAccounts DEF IInv
  <2>9. WorkConserving'
    BY <1>6, <2>2 DEF WorkConserving
  <2> QED
    BY <1>5, <2>5, <2>6, <2>7, <2>8, <2>9 DEF IInv
<1>7. CASE ~ (waiters = <<>> /\ Room(active, online) # {})
  <2>1. /\ waiters' = Append(waiters, r)
        /\ pc' = [pc EXCEPT ![r] = "parked"]
        /\ UNCHANGED <<slot, active, activeStreams>>
    BY <1>7 DEF Acquire
  <2>2. \A s \in Requests : pc'[s] = IF s = r THEN "parked" ELSE pc[s]
    BY <1>1, <2>1
  <2>3. /\ waiters' \in Seq(Requests)
        /\ Distinct'
        /\ \A s \in Requests : Queued(s)' <=> Queued(s) \/ s = r
    BY <1>1, <1>2, <1>3, <2>1, ParkEffect
  <2>4. TypeOK'
    BY <1>1, <1>4, <2>1, <2>3
       DEF IInv, TypeOK, Waiting, InQueueRegion, channelVars, sessionVars
  <2>5. SlotOwnedByPhase'
    BY <1>3, <1>4, <2>1, <2>2 DEF IInv, SlotOwnedByPhase
  <2>6. QueueExact'
    <3>1. \A s \in Requests :
            (pc'[s] \in Waiting /\ slot'[s] = NoChannel) <=> Queued(s)'
      BY <1>2, <1>3, <2>1, <2>2, <2>3 DEF Waiting
    <3> QED
      BY <2>3, <3>1 DEF QueueExact, Distinct, Queued
  <2>7. SlotAccounting'
    BY <2>1 DEF IInv, SlotAccounting, Owners, SlotOwners
  <2>8. WorkConserving'
    BY <1>4, <1>7, <2>1 DEF IInv, WorkConserving, Room, channelVars, sessionVars
  <2> QED
    BY <1>5, <2>4, <2>5, <2>6, <2>7, <2>8 DEF IInv
<1> QED
  BY <1>6, <1>7

\* abandon keeps the invariant: whether it leaves or keeps what it was handed.
LEMMA AbandonInv ==
    ASSUME IInv, NEW r \in Requests, Abandon(r)
    PROVE  IInv'
<1>1. /\ waiters \in Seq(Requests) /\ slot \in Slots
      /\ pc \in [Requests -> {"idle", "streaming", "returned"} \cup InQueueRegion]
  BY DEF IInv, TypeOK, Slots
<1>2. Distinct /\ \A s \in Requests :
           (pc[s] \in Waiting /\ slot[s] = NoChannel) <=> Queued(s)
  BY DEF IInv, QueueExact, Distinct, Queued
<1>3. pc[r] \in {"timedOut", "woken"} /\ pc[r] \in Waiting
  BY DEF Abandon, Waiting
<1>4. UNCHANGED <<timer, bad, slot, active, activeStreams, channelVars, sessionVars>>
  BY DEF Abandon
<1>5. OnlineIsServed'
  BY <1>4 DEF IInv, OnlineIsServed, channelVars
<1>6. CASE slot[r] # NoChannel
  <2>1. pc' = [pc EXCEPT ![r] = "opening"] /\ UNCHANGED <<waiters, queueDepth>>
    BY <1>6 DEF Abandon
  <2>2. UNCHANGED <<bad, poolVars>>
    BY <1>4, <2>1 DEF poolVars
  <2>3. SlotOwnedByPhase' /\ QueueExact' /\ SlotAccounting'
    BY <1>3, <1>6, <2>1, <2>2, PhaseStep DEF Waiting
  <2>4. TypeOK'
    BY <1>1, <1>4, <2>1 DEF IInv, TypeOK, InQueueRegion, channelVars, sessionVars
  <2>5. WorkConserving'
    BY <1>4, <2>1 DEF IInv, WorkConserving, Room, channelVars, sessionVars
  <2> QED
    BY <1>5, <2>3, <2>4, <2>5 DEF IInv
<1>7. CASE slot[r] = NoChannel
  <2>1. /\ waiters' = Without(waiters, r)
        /\ pc' = [pc EXCEPT ![r] = "returned"]
        /\ queueDepth' = queueDepth - 1
    BY <1>7 DEF Abandon
  <2>2. \A s \in Requests : pc'[s] = IF s = r THEN "returned" ELSE pc[s]
    BY <1>1, <2>1
  <2>3. Queued(r)
    BY <1>2, <1>3, <1>7
  <2>4. /\ waiters' \in Seq(Requests)
        /\ Distinct'
        /\ \A s \in Requests : Queued(s)' <=> Queued(s) /\ s # r
    BY <1>1, <1>2, <2>1, <2>3, WithoutEffect
  <2>5. TypeOK'
    BY <1>1, <1>4, <2>1, <2>4 DEF IInv, TypeOK, channelVars, sessionVars
  <2>6. SlotOwnedByPhase'
    BY <1>3, <1>4, <1>7, <2>2 DEF IInv, SlotOwnedByPhase
  <2>7. QueueExact'
    <3>1. \A s \in Requests :
            (pc'[s] \in Waiting /\ slot'[s] = NoChannel) <=> Queued(s)'
      BY <1>2, <1>4, <2>2, <2>4 DEF Waiting
    <3> QED
      BY <2>4, <3>1 DEF QueueExact, Distinct, Queued
  <2>8. SlotAccounting'
    BY <1>4 DEF IInv, SlotAccounting, Owners, SlotOwners
  <2>9. WorkConserving'
    <3>1. waiters # <<>>
      BY <2>3 DEF Queued
    <3> QED
      BY <1>4, <3>1 DEF IInv, WorkConserving, Room, channelVars, sessionVars
  <2> QED
    BY <1>5, <2>5, <2>6, <2>7, <2>8, <2>9 DEF IInv
<1> QED
  BY <1>6, <1>7

\* Every step of a request keeps the invariant.
LEMMA RequestInv ==
    ASSUME IInv, NoChannel \notin Channels, IsFiniteSet(Requests),
           NEW r \in Requests, RequestStep(r)
    PROVE  IInv'
<1>1. CASE Arrive(r)
  <2>1. /\ pc[r] = "idle"
        /\ UNCHANGED <<bad, poolVars, channelVars, sessionVars>>
    BY <1>1 DEF Arrive
  <2>2. PICK p \in {"returned", "acquiring"} : pc' = [pc EXCEPT ![r] = p]
    BY <1>1 DEF Arrive
  <2>3. TypeOK'
    <3>1. pc' \in [Requests -> {"idle", "streaming", "returned"} \cup InQueueRegion]
      <4>1. pc \in [Requests -> {"idle", "streaming", "returned"} \cup InQueueRegion]
        BY DEF IInv, TypeOK
      <4>2. p \in {"idle", "streaming", "returned"} \cup InQueueRegion
        BY <2>2 DEF InQueueRegion, Waiting
      <4> QED
        BY <2>2, <4>1, <4>2
    <3>2. timer' \in [Requests -> {"armed", "fired", "consumed"}] /\ queueDepth' \in Int
      <4>1. /\ timer \in [Requests -> {"armed", "fired", "consumed"}]
            /\ queueDepth \in Int
        BY DEF IInv, TypeOK
      <4>2. \/ timer' = timer /\ queueDepth' = queueDepth
            \/ /\ timer' = [timer EXCEPT ![r] = "armed"]
               /\ queueDepth' = queueDepth + 1
        BY <1>1 DEF Arrive
      <4> QED
        BY <4>1, <4>2
    <3> QED
      BY <2>1, <3>1, <3>2 DEF IInv, TypeOK, poolVars, channelVars, sessionVars
  <2>4. slot[r] = NoChannel
    BY <2>1 DEF IInv, SlotOwnedByPhase, Waiting
  <2>5. SlotOwnedByPhase' /\ QueueExact' /\ SlotAccounting'
    BY <2>1, <2>2, <2>4, PhaseStep DEF Waiting
  <2>6. WorkConserving' /\ OnlineIsServed'
    BY <2>1 DEF IInv, WorkConserving, OnlineIsServed, Room, poolVars, channelVars,
                sessionVars
  <2> QED
    BY <2>3, <2>5, <2>6 DEF IInv
<1>2. CASE TimerFires(r)
  <2>1. UNCHANGED <<pc, bad, poolVars, channelVars, sessionVars>>
    BY <1>2 DEF TimerFires
  <2>2. TypeOK'
    BY <1>2 DEF TimerFires, IInv, TypeOK, poolVars, channelVars, sessionVars
  <2>3. SlotOwnedByPhase' /\ QueueExact' /\ SlotAccounting'
    BY <2>1, PoolStutter
  <2>4. WorkConserving' /\ OnlineIsServed'
    BY <2>1 DEF IInv, WorkConserving, OnlineIsServed, Room, poolVars, channelVars,
                sessionVars
  <2> QED
    BY <2>2, <2>3, <2>4 DEF IInv
<1>3. CASE Acquire(r)
  BY <1>3, AcquireInv
<1>4. CASE TakeReady(r) \/ OpenSucceeds(r)
  <2>1. PICK p \in {"opening", "streaming"} : pc' = [pc EXCEPT ![r] = p]
    BY <1>4 DEF TakeReady, OpenSucceeds
  <2>2. /\ UNCHANGED <<bad, poolVars, channelVars, sessionVars>>
        /\ pc[r] \in {"parked", "opening"}
        /\ slot[r] # NoChannel
    BY <1>4 DEF TakeReady, OpenSucceeds, IInv, SlotOwnedByPhase
  <2>3. TypeOK'
    <3>1. pc' \in [Requests -> {"idle", "streaming", "returned"} \cup InQueueRegion]
      BY <2>1 DEF IInv, TypeOK, InQueueRegion
    <3>2. timer' = timer /\ queueDepth' \in Int
      BY <1>4 DEF TakeReady, OpenSucceeds, IInv, TypeOK
    <3> QED
      BY <2>2, <3>1, <3>2 DEF IInv, TypeOK, poolVars, channelVars, sessionVars
  <2>4. SlotOwnedByPhase' /\ QueueExact' /\ SlotAccounting'
    BY <2>1, <2>2, PhaseStep DEF Waiting
  <2>5. WorkConserving' /\ OnlineIsServed'
    BY <2>2 DEF IInv, WorkConserving, OnlineIsServed, Room, poolVars, channelVars,
                sessionVars
  <2> QED
    BY <2>3, <2>4, <2>5 DEF IInv
<1>5. CASE TakeTimeout(r) \/ TakeDone(r)
  <2>1. PICK p \in {"timedOut", "woken"} : pc' = [pc EXCEPT ![r] = p]
    BY <1>5 DEF TakeTimeout, TakeDone
  <2>2. UNCHANGED <<bad, poolVars, channelVars, sessionVars>> /\ pc[r] = "parked"
    BY <1>5 DEF TakeTimeout, TakeDone
  <2>3. TypeOK'
    BY <1>5 DEF TakeTimeout, TakeDone, IInv, TypeOK, Waiting, InQueueRegion,
                poolVars, channelVars, sessionVars
  <2>4. \A s \in Requests : pc'[s] = IF s = r THEN p ELSE pc[s]
    BY <2>1 DEF IInv, TypeOK
  <2>5. SlotOwnedByPhase'
    BY <2>2, <2>4 DEF IInv, SlotOwnedByPhase, Waiting, poolVars
  <2>6. QueueExact'
    BY <2>2, <2>4 DEF IInv, QueueExact, Waiting, poolVars
  <2>7. SlotAccounting'
    BY <2>2 DEF IInv, SlotAccounting, Owners, SlotOwners, poolVars
  <2>8. WorkConserving' /\ OnlineIsServed'
    BY <2>2 DEF IInv, WorkConserving, OnlineIsServed, Room, poolVars, channelVars,
                sessionVars
  <2> QED
    BY <2>3, <2>5, <2>6, <2>7, <2>8 DEF IInv
<1>6. CASE Abandon(r)
  BY <1>6, AbandonInv
<1>7. CASE OpenFails(r) \/ CloseStream(r)
  <2>1. PICK p \in {"dropping", "returned"} :
          /\ pc' = [pc EXCEPT ![r] = p]
          /\ bad' = IF p = "dropping" THEN [bad EXCEPT ![r] = slot[r]] ELSE bad
    BY <1>7 DEF OpenFails, CloseStream
  <2>2. /\ pc[r] \in {"opening", "streaming"}
        /\ Release(r)
        /\ UNCHANGED <<timer, channelVars, sessionVars, queueDepth>>
    BY <1>7 DEF OpenFails, CloseStream
  <2>3. /\ waiters' \in Seq(Requests) /\ slot' \in Slots
        /\ active' \in [Channels -> Int] /\ activeStreams' \in Int
        /\ SlotOwnedByPhase' /\ QueueExact' /\ SlotAccounting'
    BY <2>1, <2>2, ReleaseStep
  <2>4. TypeOK'
    <3>1. pc' \in [Requests -> {"idle", "streaming", "returned"} \cup InQueueRegion]
      BY <2>1 DEF IInv, TypeOK, InQueueRegion
    <3>2. bad' \in [Requests -> Channels \cup {NoChannel}]
      BY <2>1 DEF IInv, TypeOK
    <3> QED
      BY <2>2, <2>3, <3>1, <3>2 DEF IInv, TypeOK, Slots, channelVars, sessionVars
  <2>5. waiters' = <<>> \/ Room(active', online) = {}
    <3>1. waiters \in Seq(Requests)
      BY DEF IInv, TypeOK
    <3> QED
      BY <2>2, <3>1, HandoffConserves DEF Release
  <2>6. WorkConserving' /\ OnlineIsServed'
    BY <2>2, <2>5 DEF IInv, WorkConserving, OnlineIsServed, Room, channelVars,
                      sessionVars
  <2> QED
    BY <2>3, <2>4, <2>6 DEF IInv
<1>8. CASE DropChannel(r)
  <2>1. /\ pc[r] = "dropping"
        /\ pc' = [pc EXCEPT ![r] = "acquiring"]
        /\ bad' = [bad EXCEPT ![r] = NoChannel]
        /\ online' = online \ {bad[r]}
        /\ health' = [health EXCEPT ![bad[r]] = "closed"]
        /\ UNCHANGED <<timer, poolVars, handler, sessionVars, queueDepth>>
    BY <1>8 DEF DropChannel, RemoveChannel
  <2>2. TypeOK'
    BY <2>1 DEF IInv, TypeOK, InQueueRegion, poolVars, sessionVars
  <2>3. \A s \in Requests :
          /\ pc'[s] = IF s = r THEN "acquiring" ELSE pc[s]
          /\ bad'[s] = IF s = r THEN NoChannel ELSE bad[s]
    BY <2>1 DEF IInv, TypeOK
  <2>4. SlotOwnedByPhase'
    BY <2>1, <2>3 DEF IInv, SlotOwnedByPhase, Waiting, poolVars
  <2>5. QueueExact'
    BY <2>1, <2>3 DEF IInv, QueueExact, Waiting, poolVars
  <2>6. SlotAccounting'
    BY <2>1 DEF IInv, SlotAccounting, Owners, SlotOwners, poolVars
  <2>7. \A c \in online' : health'[c] # "closed" => health[c] # "closed"
    BY <2>1 DEF IInv, TypeOK
  <2>8. WorkConserving'
    BY <2>1, <2>7, NoNewRoom DEF poolVars, sessionVars
  <2>9. OnlineIsServed'
    BY <2>1 DEF IInv, OnlineIsServed
  <2> QED
    BY <2>2, <2>4, <2>5, <2>6, <2>8, <2>9 DEF IInv
<1> QED
  BY <1>1, <1>2, <1>3, <1>4, <1>5, <1>6, <1>7, <1>8 DEF RequestStep

\* Every step of a data channel keeps the invariant.
LEMMA ChannelInv ==
    ASSUME IInv, NoChannel \notin Channels, IsFiniteSet(Requests),
           NEW c \in Channels, ChannelStep(c)
    PROVE  IInv'
<1>1. CASE AddChannel(c)
  <2>1. /\ handler' = [handler EXCEPT ![c] = "serving"]
        /\ online' = online \cup {c}
        /\ Handoff(slot, active, activeStreams, online')
        /\ UNCHANGED <<requestVars, health, sessionVars, queueDepth>>
    BY <1>1 DEF AddChannel
  <2>2. online' \in SUBSET Channels
    BY <2>1 DEF IInv, TypeOK
  <2>3. UNCHANGED <<pc, bad>>
    BY <2>1 DEF requestVars
  <2>4. /\ waiters' \in Seq(Requests) /\ slot' \in Slots
        /\ active' \in [Channels -> Int] /\ activeStreams' \in Int
        /\ SlotOwnedByPhase' /\ QueueExact' /\ SlotAccounting'
    BY <2>1, <2>2, <2>3, GrantStep
  <2>5. TypeOK'
    BY <2>1, <2>2, <2>4 DEF IInv, TypeOK, Slots, requestVars, sessionVars
  <2>6. WorkConserving'
    <3>1. waiters \in Seq(Requests)
      BY DEF IInv, TypeOK
    <3>2. waiters' = <<>> \/ Room(active', online') = {}
      BY <2>1, <3>1, HandoffConserves
    <3> QED
      BY <2>1, <3>2 DEF WorkConserving, Room, sessionVars
  <2>7. OnlineIsServed'
    BY <2>1 DEF IInv, TypeOK, OnlineIsServed
  <2> QED
    BY <2>4, <2>5, <2>6, <2>7 DEF IInv
<1>2. CASE Connect(c)
  <2>1. /\ handler[c] = "absent"
        /\ handler' = [handler EXCEPT ![c] = "connected"]
        /\ health' = [health EXCEPT ![c] = "up"]
        /\ UNCHANGED <<requestVars, poolVars, online, sessionVars, queueDepth>>
    BY <1>2 DEF Connect
  <2>2. c \notin online
    BY <2>1 DEF IInv, OnlineIsServed
  <2>3. TypeOK'
    BY <2>1 DEF IInv, TypeOK, requestVars, poolVars, sessionVars
  <2>4. SlotOwnedByPhase' /\ QueueExact' /\ SlotAccounting'
    BY <2>1, PoolStutter DEF requestVars
  <2>5. \A d \in online' : health'[d] # "closed" => health[d] # "closed"
    BY <2>1, <2>2 DEF IInv, TypeOK
  <2>6. WorkConserving'
    BY <2>1, <2>5, NoNewRoom DEF poolVars, sessionVars
  <2>7. OnlineIsServed'
    BY <2>1, <2>2 DEF IInv, TypeOK, OnlineIsServed
  <2> QED
    BY <2>3, <2>4, <2>6, <2>7 DEF IInv
<1>3. CASE ChannelDies(c) \/ WatchDone(c) \/ CloseChannel(c)
  <2>1. PICK h \in {"broken", "closed"} : health' = [health EXCEPT ![c] = h]
    BY <1>3 DEF ChannelDies, WatchDone, CloseChannel
  <2>2. /\ UNCHANGED <<requestVars, poolVars, online, handler, queueDepth>>
        /\ UNCHANGED <<limit, reload, closing, drain, cancelled>>
        /\ toClose' \subseteq toClose
        /\ h = "closed" \/ health[c] = "up"
    BY <1>3, <2>1 DEF ChannelDies, WatchDone, CloseChannel, sessionVars, IInv, TypeOK
  <2>3. TypeOK'
    BY <2>1, <2>2 DEF IInv, TypeOK, requestVars, poolVars
  <2>4. SlotOwnedByPhase' /\ QueueExact' /\ SlotAccounting'
    BY <2>2, PoolStutter DEF requestVars
  <2>5. \A d \in online' : health'[d] # "closed" => health[d] # "closed"
    BY <2>1, <2>2 DEF IInv, TypeOK
  <2>6. WorkConserving'
    BY <2>2, <2>5, NoNewRoom DEF poolVars
  <2>7. OnlineIsServed'
    BY <2>2 DEF IInv, OnlineIsServed
  <2> QED
    BY <2>3, <2>4, <2>6, <2>7 DEF IInv
<1>4. CASE ServeEnds(c)
  <2>1. /\ handler' = [handler EXCEPT ![c] = "gone"]
        /\ online' = online \ {c}
        /\ health' = [health EXCEPT ![c] = "closed"]
        /\ UNCHANGED <<requestVars, poolVars, sessionVars, queueDepth>>
    BY <1>4 DEF ServeEnds, RemoveChannel
  <2>2. TypeOK'
    BY <2>1 DEF IInv, TypeOK, requestVars, poolVars, sessionVars
  <2>3. SlotOwnedByPhase' /\ QueueExact' /\ SlotAccounting'
    BY <2>1, PoolStutter DEF requestVars
  <2>4. \A d \in online' : health'[d] # "closed" => health[d] # "closed"
    BY <2>1 DEF IInv, TypeOK
  <2>5. WorkConserving'
    BY <2>1, <2>4, NoNewRoom DEF poolVars, sessionVars
  <2>6. OnlineIsServed'
    BY <2>1 DEF IInv, TypeOK, OnlineIsServed
  <2> QED
    BY <2>2, <2>3, <2>5, <2>6 DEF IInv
<1> QED
  BY <1>1, <1>2, <1>3, <1>4 DEF ChannelStep

\* Every step of the session keeps the invariant.
LEMMA SessionInv ==
    ASSUME IInv, NoChannel \notin Channels, IsFiniteSet(Requests), SessionStep
    PROVE  IInv'
<1>1. CASE \E l \in Limits : StoreLimit(l)
  <2>1. PICK l \in Limits : StoreLimit(l)
    BY <1>1
  <2>2. /\ limit' = l /\ reload' = "stored"
        /\ UNCHANGED <<requestVars, poolVars, channelVars, closing, toClose, drain,
                       cancelled, queueDepth>>
    BY <2>1 DEF StoreLimit
  <2>3. TypeOK'
    BY <2>2 DEF IInv, TypeOK, requestVars, poolVars, channelVars
  <2>4. SlotOwnedByPhase' /\ QueueExact' /\ SlotAccounting'
    BY <2>2, PoolStutter DEF requestVars
  <2>5. WorkConserving' /\ OnlineIsServed'
    BY <2>2 DEF IInv, WorkConserving, OnlineIsServed, channelVars
  <2> QED
    BY <2>3, <2>4, <2>5 DEF IInv
<1>2. CASE HandoffAfterStore
  <2>1. /\ reload' = "idle"
        /\ Handoff(slot, active, activeStreams, online)
        /\ UNCHANGED <<requestVars, channelVars, limit, closing, toClose, drain,
                       cancelled, queueDepth>>
    BY <1>2 DEF HandoffAfterStore
  <2>2. online \in SUBSET Channels /\ UNCHANGED <<pc, bad>>
    BY <2>1 DEF IInv, TypeOK, requestVars
  <2>3. /\ waiters' \in Seq(Requests) /\ slot' \in Slots
        /\ active' \in [Channels -> Int] /\ activeStreams' \in Int
        /\ SlotOwnedByPhase' /\ QueueExact' /\ SlotAccounting'
    BY <2>1, <2>2, GrantStep
  <2>4. TypeOK'
    BY <2>1, <2>3 DEF IInv, TypeOK, Slots, requestVars, channelVars
  <2>5. WorkConserving'
    <3>1. waiters \in Seq(Requests)
      BY DEF IInv, TypeOK
    <3>2. waiters' = <<>> \/ Room(active', online) = {}
      BY <2>1, <3>1, HandoffConserves
    <3> QED
      BY <2>1, <3>2 DEF WorkConserving, Room, channelVars
  <2>6. OnlineIsServed'
    BY <2>1 DEF IInv, OnlineIsServed, channelVars
  <2> QED
    BY <2>3, <2>4, <2>5, <2>6 DEF IInv
<1>3. CASE StartDrain \/ SeeDrained \/ CloseBegins \/ CloseTakesChannels \/ CancelBase
  <2>1. /\ UNCHANGED <<requestVars, poolVars, handler, health, limit, reload, queueDepth>>
        /\ online' \subseteq online
    BY <1>3 DEF StartDrain, SeeDrained, CloseBegins, CloseTakesChannels, CancelBase,
                channelVars
  <2>2. /\ closing' \in {"no", "done", "emptied"}
        /\ toClose' \subseteq Channels
        /\ drain' \in {"serving", "draining", "drained"}
        /\ cancelled' \in BOOLEAN
    BY <1>3 DEF StartDrain, SeeDrained, CloseBegins, CloseTakesChannels, CancelBase,
                IInv, TypeOK
  <2>3. TypeOK'
    BY <2>1, <2>2 DEF IInv, TypeOK, requestVars, poolVars
  <2>4. SlotOwnedByPhase' /\ QueueExact' /\ SlotAccounting'
    BY <2>1, PoolStutter DEF requestVars
  <2>5. WorkConserving'
    BY <2>1, NoNewRoom DEF poolVars
  <2>6. OnlineIsServed'
    BY <2>1 DEF IInv, OnlineIsServed
  <2> QED
    BY <2>3, <2>4, <2>5, <2>6 DEF IInv
<1> QED
  BY <1>1, <1>2, <1>3 DEF SessionStep

-----------------------------------------------------------------------------
\* The theorems.

\* A node that comes online with an empty pool satisfies the invariant.
LEMMA InitInv == Init => IInv
<1> SUFFICES ASSUME Init PROVE IInv
  OBVIOUS
<1>1. TypeOK
  <2>1. waiters \in Seq(Requests)
    BY EmptySeq DEF Init
  <2>2. limit \in Limits
    BY LimitAssumption DEF Init
  <2>3. /\ pc \in [Requests -> {"idle", "streaming", "returned"} \cup InQueueRegion]
        /\ timer \in [Requests -> {"armed", "fired", "consumed"}]
        /\ slot \in [Requests -> Channels \cup {NoChannel}]
        /\ bad \in [Requests -> Channels \cup {NoChannel}]
    BY DEF Init
  <2>4. /\ active \in [Channels -> Int]
        /\ handler \in [Channels -> {"absent", "connected", "serving", "gone"}]
        /\ health \in [Channels -> {"up", "broken", "closed"}]
    BY DEF Init
  <2>5. /\ online \subseteq Channels /\ toClose \subseteq Channels
        /\ activeStreams \in Int /\ queueDepth \in Int
        /\ reload \in {"idle", "stored"}
        /\ closing \in {"no", "done", "emptied"}
        /\ drain \in {"serving", "draining", "drained"}
    BY DEF Init
  <2>6. cancelled \in BOOLEAN
    BY DEF Init
  <2> QED
    BY <2>1, <2>2, <2>3, <2>4, <2>5, <2>6 DEF TypeOK
<1>2. SlotOwnedByPhase
  BY DEF Init, SlotOwnedByPhase
<1>3. QueueExact
  BY EmptySeq DEF Init, QueueExact, Waiting
<1>4. SlotAccounting
  <2>1. ASSUME NEW c \in Channels PROVE active[c] = Cardinality(Owners(c))
    <3>1. Owners(c) = {}
      BY NoChannelAssumption DEF Init, Owners
    <3>2. active[c] = 0
      BY DEF Init
    <3> QED
      BY <3>1, <3>2, FS_EmptySet
  <2>2. SlotOwners = {} /\ activeStreams = 0
    BY DEF Init, SlotOwners
  <2> QED
    BY <2>1, <2>2, FS_EmptySet DEF SlotAccounting
<1>5. WorkConserving /\ OnlineIsServed
  BY DEF Init, WorkConserving, OnlineIsServed
<1> QED
  BY <1>1, <1>2, <1>3, <1>4, <1>5 DEF IInv

\* No step of any goroutine breaks the invariant.
LEMMA NextInv == IInv /\ [Next]_vars => IInv'
<1> SUFFICES ASSUME IInv, [Next]_vars PROVE IInv'
  OBVIOUS
<1>1. NoChannel \notin Channels /\ IsFiniteSet(Requests)
  BY NoChannelAssumption, FiniteAssumption
<1>2. CASE \E r \in Requests : RequestStep(r)
  BY <1>1, <1>2, RequestInv
<1>3. CASE \E c \in Channels : ChannelStep(c)
  BY <1>1, <1>3, ChannelInv
<1>4. CASE SessionStep
  BY <1>1, <1>4, SessionInv
<1>5. CASE UNCHANGED vars
  <2>1. UNCHANGED <<requestVars, poolVars, channelVars, sessionVars, queueDepth>>
    BY <1>5 DEF vars
  <2>2. TypeOK'
    BY <2>1 DEF IInv, TypeOK, requestVars, poolVars, channelVars, sessionVars
  <2>3. SlotOwnedByPhase' /\ QueueExact' /\ SlotAccounting'
    BY <2>1, PoolStutter DEF requestVars
  <2>4. WorkConserving' /\ OnlineIsServed'
    BY <2>1 DEF IInv, WorkConserving, OnlineIsServed, Room, poolVars, channelVars,
                sessionVars
  <2> QED
    BY <2>2, <2>3, <2>4 DEF IInv
<1> QED
  BY <1>2, <1>3, <1>4, <1>5 DEF Next

\* The invariant holds in every reachable state.
THEOREM Invariant == Spec => []IInv
<1>1. Init => IInv
  BY InitInv
<1>2. IInv /\ [Next]_vars => IInv'
  BY NextInv
<1> QED
  BY <1>1, <1>2, PTL DEF Spec

\* Every variable keeps the values the code can give it: n.waiters is a list of
\* calls, the counters are integers, the map holds ids that were handed out.
THEOREM TypeCorrect == Spec => []TypeOK
BY Invariant, PTL DEF IInv

\* No slot is ever lost or given back twice, for any number of requests and
\* channels: the counters CloseStream, abandon and handoffLocked keep are the
\* slots requests own, so waitDrained reads the truth.
THEOREM SlotsAreAccountedFor == Spec => []SlotAccounting
BY Invariant, PTL DEF IInv

\* A request owns a slot exactly from its grant by acquire or handoffLocked to
\* its release.
THEOREM SlotsFollowPhases == Spec => []SlotOwnedByPhase
BY Invariant, PTL DEF IInv

\* n.waiters holds exactly the requests that wait without a slot, each once,
\* however abandon and handoffLocked race.
THEOREM QueueIsExact == Spec => []QueueExact
BY Invariant, PTL DEF IInv

\* Nobody is parked beside free room outside SetConfig: release, AddChannel and
\* SetConfig hand on what they free under the lock that freed it.
THEOREM RoomIsHandedOn == Spec => []WorkConserving
BY Invariant, PTL DEF IInv

\* A step that books more on a channel finds the channel in the map and open
\* and stays within max_streams_per_conn (reserveLocked, handoffLocked).
THEOREM BookingsAreWithinLimit == Spec => BookingsWithinLimit
<1> DEFINE Within(c) == active'[c] <= limit /\ c \in online' /\ health[c] # "closed"
           Step == \A c \in Channels : active'[c] > active[c] => Within(c)
<1>1. ASSUME IInv, [Next]_vars PROVE Step
  <2> SUFFICES ASSUME NEW c \in Channels, active'[c] > active[c]
               PROVE  Within(c)
    OBVIOUS
  <2>1. /\ waiters \in Seq(Requests) /\ active \in [Channels -> Int]
        /\ limit \in Int /\ online \in SUBSET Channels
    BY <1>1, LimitAssumption DEF IInv, TypeOK
  <2>2. active' # active
    <3>1. ASSUME active' = active PROVE FALSE
      <4>1. active'[c] = active[c] /\ active[c] \in Int
        BY <2>1, <3>1
      <4> QED
        BY <4>1
    <3> QED
      BY <3>1
  <2>3. CASE \E r \in Requests : RequestStep(r)
    <3>1. PICK r \in Requests : RequestStep(r)
      BY <2>3
    <3>2. CASE Acquire(r)
      <4>1. PICK d \in LeastLoaded(active, online) :
              active' = [active EXCEPT ![d] = @ + 1]
        BY <2>2, <3>2 DEF Acquire
      <4>2. d = c
        BY <2>1, <4>1
      <4>3. c \in Room(active, online)
        BY <4>1, <4>2 DEF LeastLoaded
      <4>4. online' = online
        BY <3>2 DEF Acquire, channelVars
      <4> QED
        BY <2>1, <4>1, <4>2, <4>3, <4>4 DEF Room
    <3>3. CASE OpenFails(r) \/ CloseStream(r)
      <4> DEFINE own == [slot EXCEPT ![r] = NoChannel]
                 act == [active EXCEPT ![slot[r]] = @ - 1]
      <4>1. Handoff(own, act, activeStreams - 1, online) /\ online' = online
        BY <3>3 DEF OpenFails, CloseStream, Release, channelVars
      <4>2. act \in [Channels -> Int] /\ act[c] <= active[c]
        <5>1. slot[r] \in Channels
          BY <1>1, <3>3 DEF OpenFails, CloseStream, IInv, TypeOK, SlotOwnedByPhase
        <5>2. act[c] = IF slot[r] = c THEN active[c] - 1 ELSE active[c]
          BY <2>1, <5>1
        <5>3. active[c] \in Int /\ act \in [Channels -> Int]
          BY <2>1, <5>1
        <5> QED
          BY <5>2, <5>3
      <4>3. active'[c] > act[c]
        <5>1. active' \in [Channels -> Int]
          BY <1>1, NextInv DEF IInv, TypeOK
        <5> QED
          BY <2>1, <4>2, <5>1
      <4> HIDE DEF own, act
      <4> QED
        BY <2>1, <4>1, <4>2, <4>3, HandoffBooksInLimit
    <3> QED
      BY <2>2, <3>1, <3>2, <3>3
         DEF RequestStep, Arrive, TimerFires, TakeReady, TakeTimeout, TakeDone,
             Abandon, OpenSucceeds, DropChannel, poolVars
  <2>4. CASE \E d \in Channels : ChannelStep(d)
    <3>1. PICK d \in Channels : ChannelStep(d)
      BY <2>4
    <3>2. AddChannel(d)
      BY <2>2, <3>1 DEF ChannelStep, Connect, ChannelDies, WatchDone, ServeEnds,
                        CloseChannel, poolVars
    <3>3. /\ online' \in SUBSET Channels
          /\ Handoff(slot, active, activeStreams, online')
      BY <2>1, <3>2 DEF AddChannel
    <3> QED
      BY <2>1, <3>3, HandoffBooksInLimit
  <2>5. CASE SessionStep
    <3>1. HandoffAfterStore
      BY <2>2, <2>5 DEF SessionStep, StoreLimit, StartDrain, SeeDrained, CloseBegins,
                        CloseTakesChannels, CancelBase, poolVars
    <3>2. Handoff(slot, active, activeStreams, online) /\ online' = online
      BY <3>1 DEF HandoffAfterStore, channelVars
    <3> QED
      BY <2>1, <3>2, HandoffBooksInLimit
  <2>6. CASE UNCHANGED vars
    BY <2>2, <2>6 DEF vars, poolVars
  <2> QED
    BY <1>1, <2>3, <2>4, <2>5, <2>6 DEF Next
<1>2. IInv /\ [Next]_vars => [Step]_vars
  BY <1>1
<1>3. Spec => [][Step]_vars
  BY <1>2, Invariant, PTL DEF Spec
<1> QED
  BY <1>3 DEF BookingsWithinLimit

-----------------------------------------------------------------------------
\* The pool implements the first-come-first-served service.

\* What handoffLocked means to the service: a prefix of the queue is served.
LEMMA HandoffServes ==
    ASSUME waiters \in Seq(Requests), NoChannel \notin Channels,
           NEW owned \in Slots, NEW act \in [Channels -> Int], NEW total \in Int,
           NEW on \in SUBSET Channels,
           Distinct,
           Handoff(owned, act, total, on)
    PROVE  \E k \in 0..Len(waiters) :
             Fifo!ServeFirst(k, {r \in Requests : owned[r] # NoChannel})
<1>0. PICK k \in 0..Len(waiters) : \E g \in [1..k -> Channels] :
             Granted(owned, act, total, k, g)
  BY HandoffEffect
<1>1. PICK g \in [1..k -> Channels] : Granted(owned, act, total, k, g)
  BY <1>0
<1>2. Len(waiters) \in Nat /\ k \in Nat
  BY LenProperties
<1>3. \A i \in 1..k : waiters[i] \in Requests /\ slot'[waiters[i]] # NoChannel
  <2> TAKE i \in 1..k
  <2>1. i \in 1..Len(waiters)
    BY <1>2
  <2>2. waiters[i] \in Requests
    BY <2>1, ElementOfSeq
  <2>3. slot'[waiters[i]] = g[i] /\ g[i] \in Channels
    BY <1>1 DEF Granted
  <2> QED
    BY <2>2, <2>3
<1> DEFINE A == {r \in Requests : owned[r] # NoChannel}
           W == {waiters[i] : i \in 1..k}
<1>4. SlotOwners' = A \cup W
  <2>1. ASSUME NEW r \in Requests, slot'[r] # NoChannel PROVE r \in A \cup W
    <3>1. CASE \E i \in 1..k : waiters[i] = r
      BY <3>1
    <3>2. CASE \A i \in 1..k : waiters[i] # r
      BY <1>1, <2>1, <3>2 DEF Granted
    <3> QED
      BY <3>1, <3>2
  <2>2. ASSUME NEW r \in A PROVE r \in Requests /\ slot'[r] # NoChannel
    <3>1. CASE \E i \in 1..k : waiters[i] = r
      BY <1>3, <3>1
    <3>2. CASE \A i \in 1..k : waiters[i] # r
      BY <1>1, <3>2 DEF Granted
    <3> QED
      BY <3>1, <3>2
  <2>3. ASSUME NEW r \in W PROVE r \in Requests /\ slot'[r] # NoChannel
    BY <1>3
  <2> QED
    BY <2>1, <2>2, <2>3 DEF SlotOwners
<1> QED
  BY <1>1, <1>4 DEF Granted, Fifo!ServeFirst

\* A handoff without a release lets the queue move up, or changes nothing.
LEMMA GrantServes ==
    ASSUME IInv, NoChannel \notin Channels, NEW on \in SUBSET Channels,
           Handoff(slot, active, activeStreams, on)
    PROVE  [Fifo!Next]_(Fifo!vars)
<1>1. /\ waiters \in Seq(Requests) /\ slot \in Slots
      /\ active \in [Channels -> Int] /\ activeStreams \in Int
      /\ Distinct
  BY DEF IInv, TypeOK, Slots, QueueExact, Distinct
<1>2. PICK k \in 0..Len(waiters) : Fifo!ServeFirst(k, SlotOwners)
  <2>1. SlotOwners = {r \in Requests : slot[r] # NoChannel}
    BY DEF SlotOwners
  <2>2. \E k \in 0..Len(waiters) :
          Fifo!ServeFirst(k, {r \in Requests : slot[r] # NoChannel})
    BY <1>1, HandoffServes
  <2> QED
    BY <2>1, <2>2
<1>3. Len(waiters) \in Nat
  BY <1>1, LenProperties
<1>4. CASE k = 0
  <2>1. waiters' = waiters
    BY <1>1, <1>2, <1>4, SubSeqFull DEF Fifo!ServeFirst
  <2>2. SlotOwners' = SlotOwners
    BY <1>2, <1>4 DEF Fifo!ServeFirst
  <2> QED
    BY <2>1, <2>2 DEF Fifo!vars
<1>5. CASE k # 0
  <2>1. k \in 1..Len(waiters)
    BY <1>3, <1>5
  <2> QED
    BY <1>2, <2>1 DEF Fifo!Next, Fifo!Grow
<1> QED
  BY <1>4, <1>5

\* Every step of the pool is a step of the service or none.
LEMMA FifoStep == IInv /\ [Next]_vars => [Fifo!Next]_(Fifo!vars)
<1> SUFFICES ASSUME IInv, [Next]_vars PROVE [Fifo!Next]_(Fifo!vars)
  OBVIOUS
<1>1. NoChannel \notin Channels
  BY NoChannelAssumption
<1>2. /\ waiters \in Seq(Requests) /\ slot \in Slots
      /\ active \in [Channels -> Int] /\ activeStreams \in Int
      /\ online \in SUBSET Channels
  BY DEF IInv, TypeOK, Slots
<1>3. Distinct /\ \A r \in Requests :
           (pc[r] \in Waiting /\ slot[r] = NoChannel) <=> Queued(r)
  BY DEF IInv, QueueExact, Distinct, Queued
<1>4. ASSUME UNCHANGED poolVars PROVE [Fifo!Next]_(Fifo!vars)
  BY <1>4 DEF poolVars, Fifo!vars, SlotOwners
<1>5. CASE \E r \in Requests : RequestStep(r)
  <2>1. PICK r \in Requests : RequestStep(r)
    BY <1>5
  <2>2. CASE Acquire(r)
    <3>1. slot[r] = NoChannel /\ ~Queued(r)
      BY <1>3, <2>2 DEF Acquire, IInv, SlotOwnedByPhase, Waiting
    <3>2. CASE waiters = <<>> /\ Room(active, online) # {}
      <4>1. PICK c \in LeastLoaded(active, online) :
              slot' = [slot EXCEPT ![r] = c] /\ waiters' = waiters
        BY <2>2, <3>2 DEF Acquire
      <4>2. c \in Channels
        BY <1>2 DEF LeastLoaded, Room
      <4>3. SlotOwners' = SlotOwners \cup {r} /\ r \notin SlotOwners
        BY <1>1, <1>2, <3>1, <4>1, <4>2 DEF SlotOwners, Slots
      <4> QED
        BY <3>2, <4>1, <4>3 DEF Fifo!Next, Fifo!ServeDirectly
    <3>3. CASE ~ (waiters = <<>> /\ Room(active, online) # {})
      <4>1. waiters' = Append(waiters, r) /\ slot' = slot
        BY <2>2, <3>3 DEF Acquire
      <4>2. SlotOwners' = SlotOwners /\ r \notin SlotOwners
        BY <3>1, <4>1 DEF SlotOwners
      <4> QED
        BY <3>1, <4>1, <4>2 DEF Fifo!Next, Fifo!Join, Fifo!Queued, Queued
    <3> QED
      BY <3>2, <3>3
  <2>3. CASE Abandon(r)
    <3>1. CASE slot[r] # NoChannel
      BY <1>4, <2>3, <3>1 DEF Abandon, poolVars
    <3>2. CASE slot[r] = NoChannel
      <4>1. waiters' = Without(waiters, r) /\ slot' = slot
        BY <2>3, <3>2 DEF Abandon
      <4>2. Queued(r)
        BY <1>3, <2>3, <3>2 DEF Abandon, Waiting
      <4> DEFINE i == CHOOSE j \in 1..Len(waiters) : waiters[j] = r
      <4>3. i \in 1..Len(waiters) /\ waiters[i] = r
        BY <4>2 DEF Queued
      <4>4. waiters' = SubSeq(waiters, 1, i - 1) \o SubSeq(waiters, i + 1, Len(waiters))
        BY <4>1 DEF Without
      <4>5. SlotOwners' = SlotOwners
        BY <4>1 DEF SlotOwners
      <4> HIDE DEF i
      <4> QED
        BY <4>3, <4>4, <4>5 DEF Fifo!Next, Fifo!GiveUp
    <3> QED
      BY <3>1, <3>2
  <2>4. CASE OpenFails(r) \/ CloseStream(r)
    <3> DEFINE own == [slot EXCEPT ![r] = NoChannel]
               act == [active EXCEPT ![slot[r]] = @ - 1]
    <3>1. Handoff(own, act, activeStreams - 1, online)
      BY <2>4 DEF OpenFails, CloseStream, Release
    <3>2. slot[r] # NoChannel
      BY <2>4 DEF OpenFails, CloseStream, IInv, SlotOwnedByPhase
    <3>3. own \in Slots /\ act \in [Channels -> Int] /\ activeStreams - 1 \in Int
      BY <1>2, <3>2 DEF Slots
    <3>4. {s \in Requests : own[s] # NoChannel} = SlotOwners \ {r} /\ r \in SlotOwners
      BY <1>2, <3>2 DEF SlotOwners, Slots
    <3> HIDE DEF own, act
    <3>5. \E k \in 0..Len(waiters) :
             Fifo!ServeFirst(k, {s \in Requests : own[s] # NoChannel})
      <4>1. Distinct
        BY <1>3
      <4>2. waiters \in Seq(Requests) /\ online \in SUBSET Channels
        BY <1>2
      <4> QED
        BY ONLY <1>1, <3>1, <3>3, <4>1, <4>2, HandoffServes
    <3>6. PICK k \in 0..Len(waiters) : Fifo!ServeFirst(k, SlotOwners \ {r})
      BY <3>4, <3>5
    <3> QED
      BY <3>4, <3>6 DEF Fifo!Next, Fifo!GiveBack
  <2> QED
    BY <1>4, <2>1, <2>2, <2>3, <2>4
       DEF RequestStep, Arrive, TimerFires, TakeReady, TakeTimeout, TakeDone,
           OpenSucceeds, DropChannel
<1>6. CASE \E c \in Channels : ChannelStep(c)
  <2>1. PICK c \in Channels : ChannelStep(c)
    BY <1>6
  <2>2. CASE AddChannel(c)
    <3>1. online' \in SUBSET Channels /\ Handoff(slot, active, activeStreams, online')
      BY <1>2, <2>2 DEF AddChannel
    <3> QED
      BY <1>1, <3>1, GrantServes
  <2> QED
    BY <1>4, <2>1, <2>2 DEF ChannelStep, Connect, ChannelDies, WatchDone, ServeEnds,
                            CloseChannel
<1>7. CASE SessionStep
  <2>1. CASE HandoffAfterStore
    BY <1>1, <1>2, <2>1, GrantServes DEF HandoffAfterStore
  <2> QED
    BY <1>4, <1>7, <2>1 DEF SessionStep, StoreLimit, StartDrain, SeeDrained,
                            CloseBegins, CloseTakesChannels, CancelBase
<1>8. CASE UNCHANGED vars
  BY <1>4, <1>8 DEF vars
<1> QED
  BY <1>5, <1>6, <1>7, <1>8 DEF Next

\* The pool implements FifoService: for any number of requests and channels,
\* acquire never lets a newcomer overtake the parked, and handoffLocked serves the
\* queue from its head, in order.
THEOREM PoolIsFifo == Spec => FifoSpec
<1>1. Init => Fifo!Init
  BY DEF Init, Fifo!Init, SlotOwners
<1>2. IInv /\ [Next]_vars => [Fifo!Next]_(Fifo!vars)
  BY FifoStep
<1> QED
  BY <1>1, <1>2, Invariant, PTL DEF Spec, FifoSpec, Fifo!Spec

-----------------------------------------------------------------------------
\* The demand gauge.

\* A step of one request moves the gauge when it enters or leaves OpenStream.
LEMMA DepthStep ==
    ASSUME IsFiniteSet(Requests), TypeOK, QueueDepthExact,
           NEW r \in Requests, NEW p,
           pc' = [pc EXCEPT ![r] = p],
           queueDepth' =
             IF pc[r] \notin InQueueRegion /\ p \in InQueueRegion THEN queueDepth + 1
             ELSE IF pc[r] \in InQueueRegion /\ p \notin InQueueRegion THEN queueDepth - 1
             ELSE queueDepth
    PROVE  QueueDepthExact'
<1> DEFINE In == {s \in Requests : pc[s] \in InQueueRegion}
           After == {s \in Requests : pc'[s] \in InQueueRegion}
<1>1. \A s \in Requests : pc'[s] = IF s = r THEN p ELSE pc[s]
  BY DEF TypeOK
<1>2. IsFiniteSet(In) /\ queueDepth = Cardinality(In)
  BY FS_Subset DEF QueueDepthExact
<1>3. CASE pc[r] \notin InQueueRegion /\ p \in InQueueRegion
  <2>1. After = In \cup {r} /\ r \notin In
    BY <1>1, <1>3
  <2> HIDE DEF In, After
  <2>2. Cardinality(In \cup {r}) = Cardinality(In) + 1
    BY <1>2, <2>1, FS_AddElement
  <2>3. queueDepth' = Cardinality(After)
    BY <1>2, <1>3, <2>1, <2>2
  <2> QED
    BY <2>3 DEF QueueDepthExact, After
<1>4. CASE pc[r] \in InQueueRegion /\ p \notin InQueueRegion
  <2>1. After = In \ {r} /\ r \in In
    BY <1>1, <1>4
  <2> HIDE DEF In, After
  <2>2. Cardinality(In \ {r}) = Cardinality(In) - 1
    BY <1>2, <2>1, FS_RemoveElement
  <2>3. queueDepth' = Cardinality(After)
    BY <1>2, <1>4, <2>1, <2>2
  <2> QED
    BY <2>3 DEF QueueDepthExact, After
<1>5. CASE pc[r] \in InQueueRegion <=> p \in InQueueRegion
  <2>1. After = In
    BY <1>1, <1>5
  <2> QED
    BY <1>2, <1>5, <2>1 DEF QueueDepthExact
<1> QED
  BY <1>3, <1>4, <1>5

\* queue_depth in /status counts exactly the requests inside OpenStream, with
\* those that own a slot and are opening their stream, on each of its exits and
\* through every retry, for any number of requests.
THEOREM QueueDepthIsExact == Spec => []QueueDepthExact
<1>1. Init => QueueDepthExact
  <2> SUFFICES ASSUME Init PROVE QueueDepthExact
    OBVIOUS
  <2>1. {r \in Requests : pc[r] \in InQueueRegion} = {}
    BY DEF Init, InQueueRegion, Waiting
  <2> QED
    BY <2>1, FS_EmptySet DEF Init, QueueDepthExact
<1>2. IInv /\ QueueDepthExact /\ [Next]_vars => QueueDepthExact'
  <2> SUFFICES ASSUME IInv, QueueDepthExact, [Next]_vars PROVE QueueDepthExact'
    OBVIOUS
  <2>1. TypeOK /\ IsFiniteSet(Requests)
    BY FiniteAssumption DEF IInv
  <2>2. ASSUME UNCHANGED <<pc, queueDepth>> PROVE QueueDepthExact'
    BY <2>2 DEF QueueDepthExact
  <2>3. CASE \E r \in Requests : RequestStep(r)
    <3>1. PICK r \in Requests : RequestStep(r)
      BY <2>3
    <3>2. CASE Arrive(r)
      <4>1. PICK p \in {"returned", "acquiring"} :
              /\ pc' = [pc EXCEPT ![r] = p]
              /\ queueDepth' = IF p = "acquiring" THEN queueDepth + 1 ELSE queueDepth
        BY <3>2 DEF Arrive
      <4>2. pc[r] = "idle"
        BY <3>2 DEF Arrive
      <4> QED
        BY <2>1, <4>1, <4>2, DepthStep DEF InQueueRegion, Waiting
    <3>3. CASE Acquire(r) \/ TakeReady(r) \/ TakeTimeout(r) \/ TakeDone(r)
                 \/ OpenFails(r) \/ DropChannel(r)
      <4>1. PICK p \in {"opening", "parked", "timedOut", "woken", "dropping", "acquiring"} :
              pc' = [pc EXCEPT ![r] = p]
        BY <3>3 DEF Acquire, TakeReady, TakeTimeout, TakeDone, OpenFails, DropChannel
      <4>2. pc[r] \in {"acquiring", "parked", "opening", "dropping"}
            /\ queueDepth' = queueDepth
        BY <3>3 DEF Acquire, TakeReady, TakeTimeout, TakeDone, OpenFails, DropChannel
      <4>3. pc[r] \in InQueueRegion /\ p \in InQueueRegion
        BY <4>2 DEF InQueueRegion, Waiting
      <4> QED
        BY <2>1, <4>1, <4>2, <4>3, DepthStep
    <3>4. CASE Abandon(r)
      <4>1. PICK p \in {"opening", "returned"} :
              /\ pc' = [pc EXCEPT ![r] = p]
              /\ queueDepth' = IF p = "returned" THEN queueDepth - 1 ELSE queueDepth
        BY <3>4 DEF Abandon
      <4>2. pc[r] \in {"timedOut", "woken"}
        BY <3>4 DEF Abandon
      <4> QED
        BY <2>1, <4>1, <4>2, DepthStep DEF InQueueRegion, Waiting
    <3>5. CASE OpenSucceeds(r)
      <4>1. /\ pc' = [pc EXCEPT ![r] = "streaming"]
            /\ queueDepth' = queueDepth - 1
            /\ pc[r] = "opening"
        BY <3>5 DEF OpenSucceeds
      <4> QED
        BY <2>1, <4>1, DepthStep DEF InQueueRegion, Waiting
    <3>6. CASE CloseStream(r)
      <4>1. /\ pc' = [pc EXCEPT ![r] = "returned"]
            /\ queueDepth' = queueDepth
            /\ pc[r] = "streaming"
        BY <3>6 DEF CloseStream
      <4> QED
        BY <2>1, <4>1, DepthStep DEF InQueueRegion, Waiting
    <3>7. CASE TimerFires(r)
      BY <2>2, <3>7 DEF TimerFires
    <3> QED
      BY <3>1, <3>2, <3>3, <3>4, <3>5, <3>6, <3>7 DEF RequestStep
  <2>4. CASE \E c \in Channels : ChannelStep(c)
    BY <2>2, <2>4 DEF ChannelStep, Connect, AddChannel, ChannelDies, WatchDone,
                      ServeEnds, CloseChannel, requestVars
  <2>5. CASE SessionStep
    BY <2>2, <2>5 DEF SessionStep, StoreLimit, HandoffAfterStore, StartDrain,
                      SeeDrained, CloseBegins, CloseTakesChannels, CancelBase,
                      requestVars
  <2>6. CASE UNCHANGED vars
    BY <2>2, <2>6 DEF vars, requestVars
  <2> QED
    BY <2>3, <2>4, <2>5, <2>6 DEF Next
<1> QED
  BY <1>1, <1>2, Invariant, PTL DEF Spec

\* What the two gauges add up to: the requests that make demand, and once more
\* those that own a slot while they are still counted as queued.
LEMMA GaugesOverlap ==
    ASSUME IsFiniteSet(Requests), SlotOwnedByPhase, SlotAccounting, QueueDepthExact
    PROVE  DemandExact
<1> DEFINE Inside == {r \in Requests : pc[r] \in InQueueRegion}
<1>1. IsFiniteSet(Inside) /\ IsFiniteSet(SlotOwners)
  BY FS_Subset DEF SlotOwners
<1>2. Demanding = Inside \cup SlotOwners
  BY DEF Demanding, SlotOwners, SlotOwnedByPhase, InQueueRegion
<1>3. CountedTwice = Inside \cap SlotOwners
  BY DEF CountedTwice, SlotOwners
<1>4. queueDepth = Cardinality(Inside) /\ activeStreams = Cardinality(SlotOwners)
  BY DEF QueueDepthExact, SlotAccounting
<1>5. IsFiniteSet(Inside \cap SlotOwners)
  BY <1>1, FS_Subset
<1> HIDE DEF Inside
<1>6. /\ Cardinality(Inside) \in Nat
      /\ Cardinality(SlotOwners) \in Nat
      /\ Cardinality(Inside \cap SlotOwners) \in Nat
  BY <1>1, <1>5, FS_CardinalityType
<1>7. Cardinality(Inside \cup SlotOwners) =
          Cardinality(Inside) + Cardinality(SlotOwners) - Cardinality(Inside \cap SlotOwners)
  BY <1>1, FS_Union
<1> QED
  BY <1>2, <1>3, <1>4, <1>6, <1>7 DEF DemandExact

\* The books of the pool, whatever races: ch.active and n.activeStreams are the
\* slots that are owned, n.queueDepth those inside OpenStream, and the demand
\* that is reported exceeds the true one by exactly the slot owners whose stream
\* is not open yet. A request is therefore not "never both at once".
THEOREM CountersAreExact == Spec => []CountersExact
<1>1. IsFiniteSet(Requests)
  BY FiniteAssumption
<1>2. SlotOwnedByPhase /\ SlotAccounting /\ QueueDepthExact => DemandExact
  BY <1>1, GaugesOverlap
<1> QED
  BY <1>2, SlotsFollowPhases, SlotsAreAccountedFor, QueueDepthIsExact, PTL DEF CountersExact
=============================================================================
