--------------------------- MODULE ServicesProofs ---------------------------
(***************************************************************************)
(* Three parts of the server, each by itself.                              *)
(*   InfraRing: RingInv is an inductive invariant of the ring of           *)
(*     infrastructure events, for every capacity, and under it every step  *)
(*     of the ring is a step of EventQueue or a stutter.                   *)
(*   LogTrim: TrimInv is an inductive invariant of the trimming of         *)
(*     log_api, for every table, limit and age.                            *)
(*   CliStore: for any users, reads and changes, and any number of         *)
(*     outages, failures and restarts.                                     *)
(***************************************************************************)
EXTENDS InfraRing, LogTrim, CliStore, SequenceTheorems, FiniteSetTheorems, TLAPS

-----------------------------------------------------------------------------
(* The ring.                                                               *)

\* The slots follow each other around the array.
LEMMA Around ==
    ASSUME NEW a \in Nat, a < 2 * Cap
    PROVE  a % Cap = IF a < Cap THEN a ELSE a - Cap
<1> DEFINE q == a \div Cap
           r == a % Cap
<1>1. Cap \in Nat /\ Cap > 0
  BY RingAssumption
<1>2. q \in Int /\ r \in 0..(Cap - 1)
  BY <1>1
<1>3. a = Cap * q + r
  BY <1>1, SMTT(30)
<1>. HIDE DEF q, r
<1>4. Cap * q \in Int /\ (q >= 2 => Cap * q >= 2 * Cap)
                      /\ (q <= -1 => Cap * q <= -Cap)
  BY <1>1, <1>2
<1>5. q = 0 \/ q = 1
  BY <1>1, <1>2, <1>3, <1>4
<1>6. Cap * 0 = 0 /\ Cap * 1 = Cap
  BY <1>1
<1>7. r = a \/ r = a - Cap
  BY <1>1, <1>2, <1>3, <1>5, <1>6
<1>8. r = IF a < Cap THEN a ELSE a - Cap
  BY <1>1, <1>2, <1>7
<1>9. QED
  BY <1>8 DEF r

LEMMA HeadMoves ==
    ASSUME RingTypeOK
    PROVE  (head + 1) % Cap = IF head + 1 < Cap THEN head + 1 ELSE 0
<1>1. Cap \in Nat /\ Cap > 0 /\ head \in 0..(Cap - 1)
  BY RingAssumption DEF RingTypeOK, Slots
<1>2. head + 1 \in Nat /\ head + 1 < 2 * Cap
  BY <1>1
<1>3. QED
  BY <1>1, <1>2, Around

\* The slots that a drain reads: the first c of them, in order, or all of them
\* from h on.
LEMMA SlotRead ==
    ASSUME NEW c \in 0..Cap, NEW h \in Slots, NEW i \in 1..c
    PROVE  ((IF c = Cap THEN h ELSE 0) + i - 1) % Cap
              = IF c < Cap THEN i - 1
                ELSE IF h + i - 1 < Cap THEN h + i - 1
                ELSE h + i - 1 - Cap
<1> DEFINE a == (IF c = Cap THEN h ELSE 0) + i - 1
<1>1. Cap \in Nat /\ Cap > 0 /\ h \in 0..(Cap - 1)
  BY RingAssumption DEF Slots
<1>2. a \in Nat /\ a < 2 * Cap
  BY <1>1
<1>3. c < Cap => a = i - 1
  BY <1>1
<1>4. c = Cap => a = h + i - 1
  BY <1>1
<1>. HIDE DEF a
<1>5. a % Cap = IF a < Cap THEN a ELSE a - Cap
  BY <1>2, Around
<1>6. a % Cap = IF c < Cap THEN i - 1
                ELSE IF h + i - 1 < Cap THEN h + i - 1
                ELSE h + i - 1 - Cap
  BY <1>1, <1>3, <1>4, <1>5
<1>7. QED
  BY <1>6 DEF a

LEMMA EventsRead ==
    ASSUME NEW c \in 0..Cap, NEW h \in Slots, NEW ev,
           \A s \in Slots : s < c => ev[s] \in Events
    PROVE  LET read == [i \in 1..c |->
                          ev[((IF c = Cap THEN h ELSE 0) + i - 1) % Cap]]
           IN  read \in Seq(Events) /\ Len(read) = c
<1> DEFINE slot(i) == ((IF c = Cap THEN h ELSE 0) + i - 1) % Cap
<1>1. Cap \in Nat /\ Cap > 0 /\ h \in 0..(Cap - 1)
  BY RingAssumption DEF Slots
<1>2. ASSUME NEW i \in 1..c PROVE slot(i) \in Slots /\ slot(i) < c
  <2>1. slot(i) = IF c < Cap THEN i - 1
                  ELSE IF h + i - 1 < Cap THEN h + i - 1
                  ELSE h + i - 1 - Cap
    BY SlotRead
  <2>. HIDE DEF slot
  <2>2. QED
    BY <1>1, <2>1 DEF Slots
<1>. HIDE DEF slot
<1>3. [i \in 1..c |-> ev[slot(i)]] \in [1..c -> Events]
  BY <1>2
<1>4. [i \in 1..c |-> ev[slot(i)]] \in Seq(Events)
        /\ Len([i \in 1..c |-> ev[slot(i)]]) = c
  BY <1>1, <1>3
<1>5. QED
  BY <1>4 DEF slot

\* What drain returns, before a step and after it
LEMMA DrainReturnsEvents ==
    RingInv => Chronological \in Seq(Events) /\ Len(Chronological) = count
  BY EventsRead
     DEF RingInv, RingTypeOK, FilledWithEvents, Chronological, Start

LEMMA DrainReturnsNext ==
    RingInv' => Chronological' \in Seq(Events) /\ Len(Chronological') = count'
  BY EventsRead
     DEF RingInv, RingTypeOK, FilledWithEvents, Chronological, Start

-----------------------------------------------------------------------------
\* What an add and a drain do to the parts of the invariant
LEMMA AddKeeps ==
    ASSUME RingInv, NEW e \in Events, RingAdd(e)
    PROVE  RingInv'
<1>1. Cap \in Nat /\ Cap > 0 /\ head \in 0..(Cap - 1) /\ count \in 0..Cap
  BY RingAssumption DEF RingInv, RingTypeOK, Slots
<1>2. head' = IF head + 1 < Cap THEN head + 1 ELSE 0
  BY HeadMoves DEF RingInv, RingAdd
<1>3. count' = IF count < Cap THEN count + 1 ELSE count
  BY DEF RingAdd
<1>4. events' = [events EXCEPT ![head] = e] /\ UNCHANGED <<stage, entries>>
  BY DEF RingAdd
<1>5. RingTypeOK'
  BY <1>1, <1>2, <1>3, <1>4 DEF RingInv, RingTypeOK, Slots
<1>6. FilledFromZero'
  BY <1>1, <1>2, <1>3 DEF RingInv, FilledFromZero
<1>7. FilledWithEvents'
  <2> SUFFICES ASSUME NEW s \in Slots, s < count' PROVE events'[s] \in Events
    BY DEF FilledWithEvents
  <2>1. s = head => events'[s] = e
    BY <1>4 DEF RingInv, RingTypeOK
  <2>2. s # head => events'[s] = events[s] /\ s < count
    BY <1>1, <1>3, <1>4 DEF RingInv, RingTypeOK, FilledFromZero, Slots
  <2>3. QED
    BY <2>1, <2>2 DEF RingInv, FilledWithEvents
<1>8. HeldWhileInserting'
  BY <1>4 DEF RingInv, HeldWhileInserting
<1>9. QED
  BY <1>5, <1>6, <1>7, <1>8 DEF RingInv

LEMMA DrainKeeps ==
    ASSUME RingInv, NEW f \in Flushers, RingDrain(f)
    PROVE  RingInv'
<1>1. Cap \in Nat /\ Cap > 0 /\ head \in 0..(Cap - 1) /\ count \in 0..Cap
  BY RingAssumption DEF RingInv, RingTypeOK, Slots
<1>2. Chronological \in Seq(Events) /\ Len(Chronological) = count
  BY DrainReturnsEvents
<1>3. count' = 0 /\ head' = IF count = 0 THEN head ELSE 0
  BY DEF RingDrain
<1>4. head' = 0
  BY <1>1, <1>3 DEF RingInv, FilledFromZero
<1>5. RingTypeOK'
  BY <1>1, <1>2, <1>3, <1>4 DEF RingInv, RingTypeOK, RingDrain, Slots
<1>6. FilledFromZero' /\ FilledWithEvents'
  BY <1>3, <1>4 DEF FilledFromZero, FilledWithEvents, Slots
<1>7. count = 0 => Chronological = <<>>
  BY <1>2
<1>8. HeldWhileInserting'
  BY <1>7 DEF RingInv, RingTypeOK, HeldWhileInserting, RingDrain
<1>9. QED
  BY <1>5, <1>6, <1>8 DEF RingInv

\* The array, the next write position and the number of entries of infraRing
\* stay in step through any sequence of add, pending and drain.
THEOREM RingInvariance == RingSpec => []RingInv
<1>1. RingInit => RingInv
  <2> SUFFICES ASSUME RingInit PROVE RingInv
    OBVIOUS
  <2>1. Cap \in Nat /\ Cap > 0
    BY RingAssumption
  <2>2. RingTypeOK
    BY <2>1 DEF RingInit, RingTypeOK, Slots
  <2>3. FilledFromZero /\ FilledWithEvents /\ HeldWhileInserting
    BY DEF RingInit, FilledFromZero, FilledWithEvents, HeldWhileInserting,
           Slots
  <2>4. QED
    BY <2>2, <2>3 DEF RingInv
<1>2. RingInv /\ [RingNext]_ringVars => RingInv'
  <2> SUFFICES ASSUME RingInv, [RingNext]_ringVars PROVE RingInv'
    OBVIOUS
  <2>1. ASSUME NEW e \in Events, RingAdd(e) PROVE RingInv'
    BY <2>1, AddKeeps
  <2>2. ASSUME NEW f \in Flushers, RingDrain(f) PROVE RingInv'
    BY <2>2, DrainKeeps
  <2>3. ASSUME NEW f \in Flushers, Pending(f) PROVE RingInv'
    BY <2>3 DEF Pending, ringFields, RingInv, RingTypeOK, FilledFromZero,
                FilledWithEvents, HeldWhileInserting
  <2>4. ASSUME NEW f \in Flushers, Inserted(f) PROVE RingInv'
    BY <2>4 DEF Inserted, ringFields, RingInv, RingTypeOK, FilledFromZero,
                FilledWithEvents, HeldWhileInserting
  <2>5. CASE UNCHANGED ringVars
    BY <2>5 DEF ringVars, ringFields, RingInv, RingTypeOK, FilledFromZero,
                FilledWithEvents, HeldWhileInserting
  <2>6. QED
    BY <2>1, <2>2, <2>3, <2>4, <2>5 DEF RingNext
<1>3. QED
  BY <1>1, <1>2, PTL DEF RingSpec

-----------------------------------------------------------------------------
\* An event added to a ring with room comes last.
LEMMA AddsLast ==
    ASSUME RingInv, NEW e \in Events, RingAdd(e), count < Cap
    PROVE  Chronological' = Append(Chronological, e)
<1>1. Cap \in Nat /\ Cap > 0 /\ count \in Nat
  BY RingAssumption DEF RingInv, RingTypeOK
<1>2. head = count /\ count' = count + 1
  BY DEF RingInv, FilledFromZero, RingAdd
<1>3. RingInv'
  BY AddKeeps
<1>4. /\ Chronological' \in Seq(Events) /\ Len(Chronological') = count + 1
      /\ Append(Chronological, e) \in Seq(Events)
      /\ Len(Append(Chronological, e)) = count + 1
  BY <1>1, <1>2, <1>3, DrainReturnsEvents, DrainReturnsNext,
     AppendProperties
<1>5. ASSUME NEW i \in 1..(count + 1)
      PROVE  Chronological'[i] = Append(Chronological, e)[i]
  <2>1. (Start' + i - 1) % Cap = i - 1
    <3>1. RingTypeOK' /\ (count' < Cap => head' = count')
      BY <1>3 DEF RingInv, FilledFromZero
    <3>2. count' = Cap => head' = 0
      BY <1>1, <1>2, HeadMoves DEF RingInv, RingAdd
    <3>3. count' \in 0..Cap /\ head' \in Slots /\ i \in 1..count'
      BY <1>2, <3>1 DEF RingTypeOK
    <3>4. QED
      BY <1>1, <1>2, <3>1, <3>2, <3>3, SlotRead DEF Start
  <2>2. Chronological'[i] = events'[i - 1]
    BY <1>2, <2>1 DEF Chronological
  <2>3. events' = [events EXCEPT ![count] = e]
        /\ events \in [Slots -> Events \cup {Nothing}]
    BY <1>2 DEF RingAdd, RingInv, RingTypeOK
  <2>4. CASE i = count + 1
    <3>1. Append(Chronological, e)[i] = e
      BY <2>4, DrainReturnsEvents, AppendProperties
    <3>2. QED
      BY <1>1, <2>2, <2>3, <2>4, <3>1 DEF Slots
  <2>5. CASE i \in 1..count
    <3>1. Append(Chronological, e)[i] = Chronological[i]
      BY <2>5, DrainReturnsEvents, AppendProperties
    <3>2. Chronological[i] = events[i - 1]
      BY <1>1, <2>5, SlotRead DEF RingInv, RingTypeOK, Chronological, Start
    <3>3. QED
      BY <1>1, <2>2, <2>3, <2>5, <3>1, <3>2 DEF Slots
  <2>6. i = count + 1 \/ i \in 1..count
    BY <1>1
  <2>7. QED
    BY <2>4, <2>5, <2>6
<1>6. QED
  BY <1>4, <1>5, SeqEqual

\* An event added to a full ring comes last, and the oldest one is lost.
LEMMA AddsForOldest ==
    ASSUME RingInv, NEW e \in Events, RingAdd(e), count = Cap
    PROVE  Chronological' = Tail(Append(Chronological, e))
<1> DEFINE longer == Append(Chronological, e)
<1>1. Cap \in Nat /\ Cap > 0 /\ head \in 0..(Cap - 1)
  BY RingAssumption DEF RingInv, RingTypeOK, Slots
<1>2. count' = Cap /\ head' = IF head + 1 < Cap THEN head + 1 ELSE 0
  BY <1>1, HeadMoves DEF RingInv, RingAdd
<1>3. RingInv'
  BY AddKeeps
<1>4. /\ Chronological' \in Seq(Events) /\ Len(Chronological') = Cap
      /\ Chronological \in Seq(Events) /\ Len(Chronological) = Cap
  BY <1>2, <1>3, DrainReturnsEvents, DrainReturnsNext
<1>5. /\ longer \in Seq(Events) /\ longer # <<>> /\ Len(longer) = Cap + 1
      /\ \A i \in 1..Cap : longer[i] = Chronological[i]
      /\ longer[Cap + 1] = e
  BY <1>4, AppendProperties
<1>. HIDE DEF longer
<1>6. /\ Tail(longer) \in Seq(Events) /\ Len(Tail(longer)) = Cap
      /\ \A i \in 1..Cap : Tail(longer)[i] = longer[i + 1]
  BY <1>1, <1>5, HeadTailProperties
<1>7. ASSUME NEW i \in 1..Cap PROVE Chronological'[i] = Tail(longer)[i]
  <2>1. (Start' + i - 1) % Cap = IF head' + i - 1 < Cap THEN head' + i - 1
                                 ELSE head' + i - 1 - Cap
    <3>1. count' \in 0..Cap /\ head' \in Slots /\ i \in 1..count'
      BY <1>2, <1>3 DEF RingInv, RingTypeOK
    <3>2. (Start' + i - 1) % Cap
             = IF count' < Cap THEN i - 1
               ELSE IF head' + i - 1 < Cap THEN head' + i - 1
               ELSE head' + i - 1 - Cap
      BY <3>1, SlotRead DEF Start
    <3>3. QED
      BY <1>1, <1>2, <3>2
  <2>2. (Start' + i - 1) % Cap = IF head + i < Cap THEN head + i
                                 ELSE head + i - Cap
    BY <1>1, <1>2, <2>1
  <2>3. Chronological'[i] = events'[(Start' + i - 1) % Cap]
    BY <1>2 DEF Chronological
  <2>4. events' = [events EXCEPT ![head] = e]
        /\ events \in [Slots -> Events \cup {Nothing}]
    BY DEF RingAdd, RingInv, RingTypeOK
  <2>5. CASE i = Cap
    <3>1. (Start' + i - 1) % Cap = head
      BY <1>1, <2>2, <2>5
    <3>2. QED
      BY <1>1, <1>5, <1>6, <2>3, <2>4, <2>5, <3>1 DEF Slots
  <2>6. CASE i < Cap
    <3>1. Tail(longer)[i] = Chronological[i + 1]
      BY <1>1, <1>5, <1>6, <2>6
    <3>2. i + 1 \in 1..count
      BY <1>1, <2>6
    <3>3. (Start + (i + 1) - 1) % Cap
             = IF head + (i + 1) - 1 < Cap THEN head + (i + 1) - 1
               ELSE head + (i + 1) - 1 - Cap
      <4>1. count \in 0..Cap /\ head \in Slots
        BY DEF RingInv, RingTypeOK
      <4>2. (Start + (i + 1) - 1) % Cap
               = IF count < Cap THEN (i + 1) - 1
                 ELSE IF head + (i + 1) - 1 < Cap THEN head + (i + 1) - 1
                 ELSE head + (i + 1) - 1 - Cap
        BY <3>2, <4>1, SlotRead DEF Start
      <4>3. QED
        BY <1>1, <4>2
    <3>4. Chronological[i + 1] = events[(Start + (i + 1) - 1) % Cap]
      BY <3>2 DEF Chronological
    <3>5. (Start + (i + 1) - 1) % Cap = (Start' + i - 1) % Cap
      BY <1>1, <2>2, <3>3
    <3>6. (Start' + i - 1) % Cap \in Slots \ {head}
      BY <1>1, <2>2, <2>6 DEF Slots
    <3>7. QED
      BY <2>3, <2>4, <3>1, <3>4, <3>5, <3>6
  <2>7. i = Cap \/ i < Cap
    BY <1>1
  <2>8. QED
    BY <2>5, <2>6, <2>7
<1>8. Chronological' = Tail(longer)
  BY <1>4, <1>6, <1>7, SeqEqual
<1>9. QED
  BY <1>8 DEF longer

\* infraRing implements a bounded queue, whatever its capacity: what a drain
\* hands to a flush are the newest Cap events since the last drain, in their
\* order, and no other flush gets any of them.
THEOREM RingIsQueue == RingSpec => ImplementsQueue
<1>1. RingInit => Bounded!QueueInit
  <2> SUFFICES ASSUME RingInit PROVE Bounded!QueueInit
    OBVIOUS
  <2>1. Chronological = <<>>
    BY DEF RingInit, Chronological
  <2>2. QED
    BY <2>1 DEF RingInit, Bounded!QueueInit
<1>2. RingInv /\ [RingNext]_ringVars
         => [Bounded!QueueNext]_Bounded!queueVars
  <2> SUFFICES ASSUME RingInv, [RingNext]_ringVars
               PROVE  Bounded!QueueNext \/ UNCHANGED <<Chronological, entries>>
    BY DEF Bounded!queueVars
  <2>1. ASSUME NEW e \in Events, RingAdd(e) PROVE Bounded!Record(e)
    <3>1. Cap \in Nat /\ count \in 0..Cap
      BY RingAssumption DEF RingInv, RingTypeOK
    <3>2. Len(Append(Chronological, e)) = count + 1
      BY DrainReturnsEvents, AppendProperties
    <3>3. Chronological' = Bounded!Newest(Append(Chronological, e))
      BY <2>1, <3>1, <3>2, AddsLast, AddsForOldest DEF Bounded!Newest
    <3>4. QED
      BY <2>1, <3>3 DEF RingAdd, Bounded!Record
  <2>2. ASSUME NEW f \in Flushers, RingDrain(f) PROVE Bounded!Hand(f)
    <3>1. Chronological' = <<>>
      BY <2>2 DEF RingDrain, Chronological
    <3>2. QED
      BY <2>2, <3>1 DEF RingDrain, Bounded!Hand
  <2>3. ASSUME NEW f \in Flushers, Pending(f)
        PROVE  UNCHANGED <<Chronological, entries>>
    BY <2>3 DEF Pending, ringFields, Chronological, Start
  <2>4. ASSUME NEW f \in Flushers, Inserted(f) PROVE Bounded!Settle(f)
    <3>1. UNCHANGED Chronological
      BY <2>4 DEF Inserted, ringFields, Chronological, Start
    <3>2. QED
      BY <2>4, <3>1 DEF Inserted, Bounded!Settle
  <2>5. CASE UNCHANGED ringVars
    BY <2>5 DEF ringVars, ringFields, Chronological, Start
  <2>6. QED
    BY <2>1, <2>2, <2>3, <2>4, <2>5 DEF RingNext, Bounded!QueueNext
<1>3. QED
  BY <1>1, <1>2, RingInvariance, PTL
     DEF RingSpec, ImplementsQueue, Bounded!QueueSpec

-----------------------------------------------------------------------------
(* The trimming of log_api.                                                *)

\* A set of times that is not empty has a last one: of the intervals that begin
\* at its members, one contains no other.
LEMMA LastTime ==
    ASSUME NEW N \in Nat, NEW T \in SUBSET (1..N), T # {}
    PROVE  \E m \in T : \A t \in T : t <= m
<1> DEFINE Begun == {t..N : t \in T}
<1>1. IsFiniteSet(1..N)
  BY FS_Interval
<1>2. IsWellFoundedOn(StrictSubsetOrdering(1..N), SUBSET (1..N))
  BY <1>1, FS_StrictSubsetOrderingWellFounded, FS_FiniteSubsetsOfFinite
<1>3. Begun \subseteq SUBSET (1..N) /\ Begun # {}
  <2>1. ASSUME NEW t \in T PROVE t..N \in SUBSET (1..N)
    OBVIOUS
  <2>2. PICK t \in T : TRUE
    OBVIOUS
  <2>3. t..N \in Begun
    OBVIOUS
  <2>4. QED
    BY <2>1, <2>3
<1>. HIDE DEF Begun
<1>4. PICK x \in Begun :
         \A y \in Begun : ~ (<<y, x>> \in StrictSubsetOrdering(1..N))
  BY <1>2, <1>3, WFMin
<1>. USE DEF Begun
<1>5. PICK m \in T : x = m..N
  BY <1>4
<1>6. ASSUME NEW t \in T, t > m PROVE FALSE
  <2>1. t..N \in Begun /\ m..N \in Begun
    OBVIOUS
  <2>2. t..N \subseteq m..N
    BY <1>6
  <2>3. m \in m..N /\ m \notin t..N
    BY <1>6
  <2>4. <<t..N, m..N>> \in StrictSubsetOrdering(1..N)
    BY <1>3, <2>1, <2>2, <2>3 DEF StrictSubsetOrdering
  <2>5. QED
    BY <1>4, <1>5, <2>1, <2>4
<1>7. QED
  BY <1>6

LEMMA RowsFinite == IsFiniteSet(Rows)
<1>1. IsFiniteSet(Times) /\ IsFiniteSet(1..Together)
  BY FS_Interval, TrimAssumption DEF Times
<1>2. QED
  BY <1>1, FS_Product DEF Rows

\* Whatever part of a table has the newest rows, a bigger table has as many.
LEMMA Grows ==
    ASSUME NEW A, NEW B \in SUBSET Rows, A \subseteq B, NEW t \in Int
    PROVE  /\ Cardinality(A) \in Nat /\ Cardinality(B) \in Nat
           /\ Cardinality(A) <= Cardinality(B)
           /\ Cardinality({r \in A : r[1] >= t}) \in Nat
           /\ Cardinality({r \in A : r[1] >= t})
                 <= Cardinality({r \in B : r[1] >= t})
<1>1. IsFiniteSet(B)
  BY RowsFinite, FS_Subset
<1>2. IsFiniteSet({r \in B : r[1] >= t})
  BY <1>1, FS_Subset
<1>3. A \in SUBSET B
        /\ {r \in A : r[1] >= t} \in SUBSET {r \in B : r[1] >= t}
  OBVIOUS
<1>4. IsFiniteSet(A) /\ IsFiniteSet({r \in A : r[1] >= t})
  BY <1>1, <1>2, <1>3, FS_Subset
<1>5. QED
  BY <1>1, <1>2, <1>3, <1>4, FS_Subset, FS_CardinalityType

\* ORDER BY timestamp DESC LIMIT 1 OFFSET n - 1 finds a row, if there are n.
LEMMA NthNewestExists ==
    ASSUME TrimTypeOK, NEW n \in Nat, n > 0, Cardinality(logApi) >= n
    PROVE  /\ NthNewest(n) \in Times
           /\ Cardinality(Since(NthNewest(n))) >= n
<1> DEFINE T == {t \in Times : Cardinality(Since(t)) >= n}
<1>1. Now \in Nat /\ Now >= 1 /\ 1 \in Times
  BY TrimAssumption DEF TrimTypeOK, Times
<1>2. \A t \in Int : Cardinality(Since(t)) \in Nat
  BY Grows DEF TrimTypeOK, Since
<1>3. Since(1) = logApi
  BY <1>1 DEF Since, TrimTypeOK, Rows, Times
<1>4. T \in SUBSET (1..Now) /\ T # {}
  BY <1>1, <1>3 DEF Times
<1>5. PICK m \in T : \A t \in T : t <= m
  BY <1>1, <1>4, LastTime
<1>6. m \in Times /\ Cardinality(Since(m)) >= n
  BY <1>5
<1>7. Cardinality(Since(m + 1)) < n
  <2>1. CASE m + 1 \in Times
    <3>1. m + 1 \notin T
      BY <1>5, <1>6 DEF Times
    <3>2. QED
      BY <1>2, <2>1, <3>1 DEF Times
  <2>2. CASE m + 1 \notin Times
    <3>1. m = Now
      BY <1>1, <1>6, <2>2 DEF Times
    <3>2. Since(m + 1) = {}
      BY <1>1, <3>1 DEF Since, TrimTypeOK, Rows, Times
    <3>3. QED
      BY <3>2, FS_EmptySet
  <2>3. QED
    BY <2>1, <2>2
<1>8. \E t \in Times : Cardinality(Since(t)) >= n /\ Cardinality(Since(t + 1)) < n
  BY <1>6, <1>7
<1>9. QED
  BY <1>8 DEF NthNewest

-----------------------------------------------------------------------------
LEMMA TrimTypeKept ==
    ASSUME TrimInv, [TrimNext]_trimVars
    PROVE  TrimTypeOK'
<1>. USE TrimAssumption DEF TrimInv
<1>1. ASSUME NEW t \in Times, WriteRow(t) PROVE TrimTypeOK'
  <2>1. written' \in [Times -> 0..Together] /\ written'[t] = written[t] + 1
    BY <1>1 DEF WriteRow, TrimTypeOK
  <2>2. <<t, written[t] + 1>> \in Rows
    BY <1>1 DEF WriteRow, TrimTypeOK, Rows
  <2>3. \A u \in Times : written[u] <= written'[u]
    BY <1>1 DEF WriteRow, TrimTypeOK
  <2>4. logApi' \subseteq {r \in Rows : r[2] <= written'[r[1]]}
    <3> SUFFICES ASSUME NEW r \in logApi' PROVE r \in Rows /\ r[2] <= written'[r[1]]
      OBVIOUS
    <3>1. CASE r \in logApi
      <4>1. r \in Rows /\ r[1] \in Times /\ r[2] \in Nat /\ r[2] <= written[r[1]]
        BY <3>1 DEF TrimTypeOK, Rows
      <4>2. QED
        BY <2>1, <2>3, <4>1 DEF TrimTypeOK
    <3>2. CASE r = <<t, written[t] + 1>>
      BY <2>1, <2>2, <3>2 DEF TrimTypeOK
    <3>3. QED
      BY <1>1, <3>1, <3>2 DEF WriteRow
  <2>5. QED
    BY <1>1, <2>1, <2>4 DEF WriteRow, TrimTypeOK, trimming
<1>2. ASSUME NEW r \in Retentions, ChangeRetention(r) PROVE TrimTypeOK'
  BY <1>2 DEF ChangeRetention, TrimTypeOK, trimming
<1>3. CASE TimePasses
  BY <1>3 DEF TimePasses, TrimTypeOK, trimming
<1>4. CASE TrimFails
  BY <1>4 DEF TrimFails, Begin, TrimTypeOK
<1>5. CASE TrimByCount
  BY <1>5 DEF TrimByCount, Begin, TrimTypeOK
<1>6. CASE TrimByAge
  BY <1>6 DEF TrimByAge, Begin, TrimTypeOK
<1>7. CASE Count
  BY <1>7 DEF Count, Begin, TrimTypeOK
<1>8. CASE Lookup
  <2>1. keep \in Nat /\ keep > 0 /\ Cardinality(logApi) > keep
    BY <1>8 DEF Lookup, EnoughStays, TrimTypeOK
  <2>2. Cardinality(logApi) \in Nat
    BY Grows DEF TrimTypeOK
  <2>3. NthNewest(keep) \in Times
    BY <2>1, <2>2, NthNewestExists
  <2>4. QED
    BY <1>8, <2>1, <2>3 DEF Lookup, Begin, TrimTypeOK, Times
<1>9. CASE DeleteOldLogs
  BY <1>9 DEF DeleteOldLogs, DeleteFrom, Since, TrimTypeOK
<1>10. CASE UNCHANGED trimVars
  BY <1>10 DEF trimVars, TrimTypeOK
<1>11. QED
  BY <1>1, <1>2, <1>3, <1>4, <1>5, <1>6, <1>7, <1>8, <1>9, <1>10
     DEF TrimNext, TrimStep

\* What a step that only adds rows leaves true of a trim that is under way
LEMMA EnoughFrame ==
    ASSUME TrimInv, TrimTypeOK', logApi \subseteq logApi',
           UNCHANGED <<trim, keep, before>>
    PROVE  EnoughStays'
<1>1. /\ Cardinality(logApi) \in Nat /\ Cardinality(logApi') \in Nat
      /\ Cardinality(logApi) <= Cardinality(logApi')
      /\ Cardinality(Since(before)) \in Nat
      /\ Cardinality(Since(before)) <= Cardinality(Since(before)')
  <2>1. before \in Int /\ logApi' \in SUBSET Rows /\ before' = before
    BY DEF TrimInv, TrimTypeOK
  <2>2. QED
    BY <2>1, Grows DEF Since
<1>2. keep \in Nat
  BY DEF TrimInv, TrimTypeOK
<1>3. Cardinality(Since(before)') \in Nat
  <2>1. before' \in Int /\ logApi' \in SUBSET Rows
    BY DEF TrimTypeOK
  <2>2. QED
    BY <2>1, Grows DEF Since
<1>4. QED
  BY <1>1, <1>2, <1>3 DEF TrimInv, EnoughStays

\* Between the statements of a trim only its own steps set what it goes by, and
\* the table only grows.
LEMMA TrimStepKeeps ==
    ASSUME TrimInv, [TrimNext]_trimVars
    PROVE  EnoughStays' /\ OldEnough'
<1>1. TrimTypeOK'
  BY TrimTypeKept
<1>2. /\ keep \in Nat /\ clock \in Nat /\ before \in Int
      /\ retention \in Retentions
      /\ \A r \in Retentions : r.mode \in {"count", "age"} /\ r.n \in Nat
  BY TrimAssumption DEF TrimInv, TrimTypeOK
<1>3. ASSUME logApi \subseteq logApi', UNCHANGED <<trim, keep, before>>,
             clock <= clock', clock' \in Nat
      PROVE  EnoughStays' /\ OldEnough'
  <2>1. EnoughStays'
    BY <1>1, <1>3, EnoughFrame
  <2>2. OldEnough'
    BY <1>2, <1>3 DEF TrimInv, OldEnough
  <2>3. QED
    BY <2>1, <2>2
<1>4. ASSUME NEW t \in Times, WriteRow(t) PROVE EnoughStays' /\ OldEnough'
  BY <1>2, <1>3, <1>4 DEF WriteRow, trimming
<1>5. ASSUME NEW r \in Retentions, ChangeRetention(r)
      PROVE  EnoughStays' /\ OldEnough'
  BY <1>2, <1>3, <1>5 DEF ChangeRetention, trimming
<1>6. CASE TimePasses
  BY <1>2, <1>3, <1>6 DEF TimePasses, trimming
<1>7. CASE TrimFails
  BY <1>7 DEF TrimFails, Begin, EnoughStays, OldEnough
<1>8. CASE TrimByCount
  BY <1>2, <1>8 DEF TrimByCount, Begin, EnoughStays, OldEnough
<1>9. CASE TrimByAge
  <2>1. EnoughStays'
    BY <1>9 DEF TrimByAge, Begin, EnoughStays
  <2>2. before' + retention.n <= clock' /\ retention.mode = "age"
    BY <1>2, <1>9 DEF TrimByAge, Begin
  <2>3. QED
    BY <1>2, <2>1, <2>2 DEF OldEnough
<1>10. CASE Count
  <2>1. Cardinality(logApi) \in Nat
    BY Grows DEF TrimInv, TrimTypeOK
  <2>2. QED
    BY <1>2, <1>10, <2>1 DEF Count, Begin, TrimInv, EnoughStays, OldEnough
<1>11. CASE Lookup
  <2>1. keep > 0 /\ Cardinality(logApi) > keep /\ Cardinality(logApi) \in Nat
    BY <1>11, Grows DEF Lookup, TrimInv, TrimTypeOK, EnoughStays
  <2>2. Cardinality(Since(NthNewest(keep))) >= keep
    BY <1>2, <2>1, NthNewestExists DEF TrimInv
  <2>3. Since(before)' = Since(NthNewest(keep))
    BY <1>11 DEF Lookup, Begin, Since
  <2>4. QED
    BY <1>11, <2>1, <2>2, <2>3 DEF Lookup, Begin, EnoughStays, OldEnough
<1>12. CASE DeleteOldLogs
  BY <1>12 DEF DeleteOldLogs, DeleteFrom, EnoughStays, OldEnough
<1>13. CASE UNCHANGED trimVars
  BY <1>2, <1>3, <1>13 DEF trimVars
<1>14. QED
  BY <1>4, <1>5, <1>6, <1>7, <1>8, <1>9, <1>10, <1>11, <1>12, <1>13
     DEF TrimNext, TrimStep

\* Whatever is written and set between the three statements of cliStore.TrimLogs,
\* what they found out about log_api still holds when it deletes.
THEOREM TrimInvariance == TrimSpec => []TrimInv
<1>1. TrimInit => TrimInv
  BY TrimAssumption
     DEF TrimInit, TrimInv, TrimTypeOK, EnoughStays, OldEnough, Times
<1>2. TrimInv /\ [TrimNext]_trimVars => TrimInv'
  BY TrimTypeKept, TrimStepKeeps DEF TrimInv
<1>3. QED
  BY <1>1, <1>2, PTL DEF TrimSpec

\* A step that deletes rows is the last statement of a trim, which leaves what
\* is not older than its cutoff.
LEMMA OnlyDeletes ==
    ASSUME TrimInv, [TrimNext]_trimVars, NEW r \in logApi \ logApi'
    PROVE  trim = "delete" /\ logApi' = Since(before) /\ r[1] < before
<1>1. DeleteOldLogs
  <2>1. logApi' # logApi
    OBVIOUS
  <2>2. CASE \E t \in Times : WriteRow(t)
    BY <2>2 DEF WriteRow
  <2>3. QED
    BY <2>1, <2>2 DEF TrimNext, TrimStep, trimVars, TimePasses, TrimFails,
       ChangeRetention, TrimByCount, TrimByAge, Count, Lookup, Begin
<1>2. r \notin Since(before)
  BY <1>1 DEF DeleteOldLogs, DeleteFrom
<1>3. r[1] \in Int /\ before \in Int
  BY DEF TrimInv, TrimTypeOK, Rows, Times
<1>4. QED
  BY <1>1, <1>2, <1>3 DEF DeleteOldLogs, DeleteFrom, Since

\* cliStore.TrimLogs and TrimLogsByAge delete no row that the limit or the age
\* they began with keeps, for every limit, age and table.
THEOREM NewestStay == TrimSpec => TrimKeepsNewest
<1>1. TrimInv /\ [TrimNext]_trimVars => KeepsNewest
  <2> SUFFICES ASSUME TrimInv, [TrimNext]_trimVars, NEW r \in logApi \ logApi'
               PROVE  IF keep > 0
                      THEN Cardinality({q \in logApi' : q[1] > r[1]}) >= keep
                      ELSE \E a \in Retentions :
                              a.mode = "age" /\ r[1] + a.n < clock
    BY DEF KeepsNewest
  <2>1. trim = "delete" /\ logApi' = Since(before) /\ r[1] < before
    BY OnlyDeletes
  <2>2. /\ keep \in Nat /\ clock \in Int /\ before \in Int /\ r[1] \in Int
        /\ \A q \in logApi : q[1] \in Int
        /\ \A a \in Retentions : a.n \in Nat
    BY TrimAssumption DEF TrimInv, TrimTypeOK, Rows, Times
  <2>3. CASE keep > 0
    <3>1. {q \in logApi' : q[1] > r[1]} = Since(before)
      BY <2>1, <2>2 DEF Since
    <3>2. Cardinality(Since(before)) >= keep
      BY <2>1, <2>3 DEF TrimInv, EnoughStays
    <3>3. QED
      BY <2>3, <3>1, <3>2
  <2>4. CASE keep = 0
    <3>1. PICK a \in Retentions : a.mode = "age" /\ before + a.n <= clock
      BY <2>1, <2>4 DEF TrimInv, OldEnough
    <3>2. r[1] + a.n < clock
      BY <2>1, <2>2, <3>1
    <3>3. QED
      BY <2>4, <3>1, <3>2
  <2>5. QED
    BY <2>2, <2>3, <2>4
<1>2. QED
  BY <1>1, TrimInvariance, PTL DEF TrimSpec, TrimKeepsNewest

-----------------------------------------------------------------------------
(* The store of the CLI build.                                             *)

USE CliAssumption DEF CliAssumption

-----------------------------------------------------------------------------
(* What is made of answers, and what is stored.                            *)

AllAnswers == {"none", "rows", "empty", "cache", "nothing", "error"}

LEMMA ServedFacts ==
    ASSUME NEW x, NEW k, NEW r
    PROVE  /\ Given(x, Served(k, r)) \in AllAnswers
           /\ Given(x, FromCache(k)) \in AllAnswers
BY DEF Served, Overlaid, FromCache, Given, AllAnswers

LEMMA StoredFacts ==
    ASSUME NEW t \in Tables \ {"articles"}, NEW none, cached \subseteq Tables,
           "content" \in cached => "articles" \in cached
    PROVE  /\ Stored(t, none) \subseteq Tables
           /\ "content" \in Stored(t, none) => "articles" \in Stored(t, none)
           /\ \A k \in {"articles", "feeds"} :
                 k \in cached => k \in Stored(t, none)
BY DEF Stored, Tables

LEMMA AfterFacts ==
    ASSUME NEW t PROVE After(t) \in Tables \cup {"idle"}
BY DEF After, Tables

LEMMA QueryFacts ==
    ASSUME faults \in 0..MaxFaults, NEW k, NEW r, Query(k, r)
    PROVE  faults' \in 0..MaxFaults
BY DEF Query, Fault

\* A replay brings all pending changes to Lance or none; only then the read
\* articles are evicted.
LEMMA ReplayFacts ==
    ASSUME Replay
    PROVE  /\ faults \in 0..MaxFaults => faults' \in 0..MaxFaults
           /\ pending' \in {{}, pending}
           /\ cached' \in Evicted
           /\ cached' # cached => Emptied /\ dataUp
BY DEF Replay, Fault, Evicted, Emptied

-----------------------------------------------------------------------------
(* Type correctness, with its parts by who changes them.                   *)

CacheType ==
    /\ cached \subseteq Tables
    /\ "content" \in cached => "articles" \in cached

ReadsType ==
    /\ asking \in [Readers -> Kinds \cup {"none"}]
    /\ fallback \subseteq {x \in Readers : asking[x] # "none"}
    /\ answer \in [Readers -> AllAnswers]

SnapsType == at \in [Snapshotters -> Tables \cup {"idle"}]

\* The two parts of it
Flags == dataUp \in BOOLEAN /\ stopped \in BOOLEAN /\ isOffline \in BOOLEAN

OtherParts ==
    /\ bare \subseteq Kinds
    /\ pending \subseteq made /\ made \subseteq Changes
    /\ stopping \in {"no", "flush", "stop"}
    /\ probe \in {"wait", "flush", "online"}
    /\ outages \in 0..MaxOutages /\ faults \in 0..MaxFaults
    /\ crashes \in 0..MaxCrashes

PartsType == Flags /\ OtherParts

LEMMA TypeParts ==
    /\ CliTypeOK <=> CacheType /\ ReadsType /\ SnapsType /\ PartsType
    /\ CliTypeOK' <=> CacheType' /\ ReadsType' /\ SnapsType' /\ PartsType'
BY DEF CliTypeOK, CacheType, ReadsType, SnapsType, PartsType, Flags, OtherParts,
       AllAnswers

\* A read, of a user or of a snapshot
LEMMA ReadGoesOnKeeps ==
    ASSUME CliTypeOK, NEW x \in Readers,
           ReadGoesOn(x) \/ \E k \in Kinds : BeginRead(x, k)
    PROVE  CliTypeOK'
<1>1. CacheType /\ ReadsType /\ SnapsType /\ PartsType  BY TypeParts
<1>2. CacheType' /\ SnapsType'
  BY <1>1 DEF ReadGoesOn, BeginRead, QueryFails, QueryEnds, ReadCache, CacheType,
              SnapsType
<1>3. faults' \in 0..MaxFaults
  BY <1>1, QueryFacts
     DEF ReadGoesOn, BeginRead, QueryFails, QueryEnds, ReadCache, PartsType,
         OtherParts, bounds
<1>4. OtherParts'
  BY <1>1, <1>3
     DEF ReadGoesOn, BeginRead, QueryFails, QueryEnds, ReadCache, PartsType,
         OtherParts, engine, writes, bounds
<1>5. Flags'
  <2>1. /\ dataUp' = dataUp /\ stopped' = stopped
        /\ isOffline' = TRUE \/ isOffline' = isOffline
    BY DEF ReadGoesOn, BeginRead, QueryFails, QueryEnds, ReadCache, engine
  <2>2. QED  BY <1>1, <2>1 DEF PartsType, Flags
<1>6. ReadsType'
  <2>1. ASSUME NEW k \in Kinds, BeginRead(x, k) PROVE ReadsType'
    BY <1>1, <2>1 DEF BeginRead, ReadsType, AllAnswers, Kinds, Tables
  <2>2. CASE QueryFails(x)
    BY <1>1, <2>2 DEF QueryFails, ReadsType
  <2>3. ASSUME NEW r, QueryEnds(x, r) PROVE ReadsType'
    BY <1>1, <2>3, ServedFacts DEF QueryEnds, ReadsType
  <2>4. CASE ReadCache(x)
    BY <1>1, <2>4, ServedFacts DEF ReadCache, ReadsType
  <2>5. QED  BY <2>1, <2>2, <2>3, <2>4 DEF ReadGoesOn
<1>7. QED  BY <1>2, <1>4, <1>5, <1>6, TypeParts DEF PartsType

LEMMA ReadsKeep ==
    ASSUME CliTypeOK, NEW u \in Users, ReadStep(u)
    PROVE  CliTypeOK'
<1>1. u \in Readers /\ Reads \subseteq Kinds  BY DEF Readers
<1>2. CASE ReadSetting(u)
  <2>1. CacheType /\ ReadsType /\ SnapsType /\ PartsType  BY TypeParts
  <2>2. ReadsType'
    BY <1>1, <1>2, <2>1 DEF ReadSetting, ReadsType, AllAnswers
  <2>3. CacheType' /\ SnapsType' /\ PartsType'
    BY <1>2, <2>1
       DEF ReadSetting, CacheType, SnapsType, PartsType, Flags, OtherParts,
           engine, writes, bounds
  <2>4. QED  BY <2>2, <2>3, TypeParts
<1>3. QED  BY <1>1, <1>2, ReadGoesOnKeeps DEF ReadStep

LEMMA SnapshotsKeep ==
    ASSUME CliTypeOK, NEW s \in Snapshotters, SnapshotStep(s)
    PROVE  CliTypeOK'
<1>1. CacheType /\ ReadsType /\ SnapsType /\ PartsType  BY TypeParts
<1>2. s \in Readers /\ Tables \subseteq Kinds  BY DEF Readers, Kinds
<1>3. CASE SnapshotRead(s)
  <2>1. at[s] \in Kinds  BY <1>1, <1>2, <1>3 DEF SnapshotRead, SnapsType
  <2>2. QED  BY <1>2, <1>3, <2>1, ReadGoesOnKeeps DEF SnapshotRead
<1>4. CASE SnapshotList(s) \/ SnapshotStore(s)
  <2>1. CacheType'
    BY <1>1, <1>4, StoredFacts DEF SnapshotList, SnapshotStore, CacheType, SnapsType
  <2>2. ReadsType'
    BY <1>1, <1>2, <1>4
       DEF SnapshotList, SnapshotStore, Moves, ReadsType, AllAnswers
  <2>3. SnapsType'
    BY <1>1, <1>4, AfterFacts
       DEF SnapshotList, SnapshotStore, Moves, SnapsType, Tables
  <2>4. PartsType'
    BY <1>1, <1>4
       DEF SnapshotList, SnapshotStore, PartsType, Flags, OtherParts, engine,
           writes, bounds
  <2>5. QED  BY <2>1, <2>2, <2>3, <2>4, TypeParts
<1>5. QED  BY <1>2, <1>3, <1>4, ReadGoesOnKeeps DEF SnapshotStep

\* The steps of the server itself: flush, probe, administrator, restart
LEMMA ServerKeeps ==
    ASSUME CliTypeOK,
           \/ \E c \in Changes : Change(c)
           \/ SnapshotTick \/ FlushStep \/ ProbeStep \/ AdminStep \/ DataStep
           \/ CrashAndOpen
    PROVE  CliTypeOK'
<1>1. CacheType /\ ReadsType /\ SnapsType /\ PartsType  BY TypeParts
<1>2. ASSUME NEW c \in Changes, Change(c) PROVE CliTypeOK'
  <2>1. CacheType' /\ ReadsType' /\ SnapsType' /\ PartsType'
    BY <1>1, <1>2
       DEF Change, CacheType, ReadsType, SnapsType, PartsType, Flags, OtherParts,
           Tables, engine, reads, bounds
  <2>2. QED  BY <2>1, TypeParts
<1>3. CASE FlushStep \/ ReconnectFlush \/ StopFlush
  <2> USE DEF FlushStep, PendingFlush, ApiFlush, ReconnectFlush, StopFlush
  <2>1. /\ faults' \in 0..MaxFaults /\ pending' \in {{}, pending}
        /\ cached' \in Evicted
    BY <1>1, <1>3, ReplayFacts DEF PartsType, OtherParts
  <2>2. CacheType'  BY <1>1, <2>1 DEF CacheType, Evicted
  <2>3. ReadsType' /\ SnapsType'
    BY <1>1, <1>3 DEF ReadsType, SnapsType, reads
  <2>4. Flags'  BY <1>1, <1>3 DEF PartsType, Flags, engine
  <2>5. OtherParts'
    BY <1>1, <1>3, <2>1 DEF PartsType, OtherParts, engine
  <2>6. QED  BY <2>2, <2>3, <2>4, <2>5, TypeParts DEF PartsType
<1>4. CASE SnapshotTick \/ Reconnect
  <2>1. at' \in [Snapshotters -> Tables \cup {"idle"}]
    BY <1>1, <1>4 DEF SnapshotTick, Reconnect, SnapsType, Tables
  <2>2. CacheType' /\ ReadsType' /\ SnapsType'
    BY <1>1, <1>4, <2>1
       DEF SnapshotTick, Reconnect, CacheType, ReadsType, SnapsType, reads
  <2>3. PartsType'
    BY <1>1, <1>4
       DEF SnapshotTick, Reconnect, PartsType, Flags, OtherParts, engine, writes,
           bounds
  <2>4. QED  BY <2>2, <2>3, TypeParts
<1>5. ASSUME NEW r, Probe(r) PROVE CliTypeOK'
  <2>1. faults' \in 0..MaxFaults /\ probe' \in {"wait", "flush", "online"}
    BY <1>1, <1>5, QueryFacts DEF Probe, PartsType, OtherParts
  <2>2. CacheType' /\ ReadsType' /\ SnapsType' /\ PartsType'
    BY <1>1, <1>5, <2>1
       DEF Probe, CacheType, ReadsType, SnapsType, PartsType, Flags, OtherParts,
           engine, reads, writes
  <2>3. QED  BY <2>2, TypeParts
<1>6. CASE Stop \/ StopEnds \/ StartOrRestart \/ DataStep
  <2> USE DEF Stop, StopEnds, StartOrRestart, DataStep, DataGone, DataBack,
              RowsArrive, engine, reads, writes, bounds
  <2>1. CacheType' /\ ReadsType' /\ SnapsType'
    BY <1>1, <1>6 DEF CacheType, ReadsType, SnapsType
  <2>2. OtherParts'  BY <1>1, <1>6 DEF PartsType, OtherParts
  <2>3. Flags'
    <3>1. /\ dataUp' \in {TRUE, FALSE, dataUp} /\ isOffline' = isOffline
          /\ stopped' \in {TRUE, FALSE, stopped}
      BY <1>6
    <3>2. QED  BY <1>1, <3>1 DEF PartsType, Flags
  <2>4. QED  BY <2>1, <2>2, <2>3, TypeParts DEF PartsType
<1>7. CASE CrashAndOpen
  <2>1. SnapsType'
    <3>1. at' \in [Snapshotters -> Tables \cup {"idle"}]
      BY <1>7 DEF CrashAndOpen, Tables
    <3>2. QED  BY <3>1 DEF SnapsType
  <2>2. CacheType' /\ ReadsType'
    BY <1>1, <1>7 DEF CrashAndOpen, CacheType, ReadsType, AllAnswers
  <2>3. Flags'
    <3>1. dataUp' = dataUp /\ stopped' = FALSE /\ isOffline' = FALSE
      BY <1>7 DEF CrashAndOpen
    <3>2. QED  BY <1>1, <3>1, Zenon DEF Flags, PartsType
  <2>4. OtherParts'
    BY <1>1, <1>7 DEF CrashAndOpen, PartsType, OtherParts, writes
  <2>5. QED  BY <2>1, <2>2, <2>3, <2>4, TypeParts DEF PartsType
<1>8. QED
  BY <1>2, <1>3, <1>4, <1>5, <1>6, <1>7 DEF FlushStep, ProbeStep, AdminStep

\* The types, and with them that the text of articles is only cached with the
\* articles, and that who turned to the offline cache is in a read, whatever is
\* out, stopped, failing or restarted.
THEOREM CliTypeCorrect == CliSpec => []CliTypeOK
<1>1. ASSUME CliInit PROVE CliTypeOK
  <2>1. CacheType  BY <1>1 DEF CliInit, CacheType, Kept, Tables
  <2>2. ReadsType  BY <1>1 DEF CliInit, ReadsType, AllAnswers
  <2>3. SnapsType
    <3>1. at \in [Snapshotters -> Tables \cup {"idle"}]
      BY <1>1 DEF CliInit, Tables
    <3>2. QED  BY <3>1 DEF SnapsType
  <2>4. Flags  BY <1>1, Zenon DEF CliInit, Flags
  <2>5. OtherParts  BY <1>1 DEF CliInit, OtherParts, Bare, Kinds
  <2>6. QED  BY <2>1, <2>2, <2>3, <2>4, <2>5, TypeParts DEF PartsType
<1>2. CliTypeOK /\ [CliNext]_cliVars => CliTypeOK'
  <2>1. CASE UNCHANGED cliVars
    BY <2>1 DEF cliVars, engine, reads, writes, bounds, CliTypeOK
  <2>2. QED
    BY <2>1, ReadsKeep, SnapshotsKeep, ServerKeeps DEF CliNext
<1>3. QED  BY <1>1, <1>2, PTL DEF CliSpec

-----------------------------------------------------------------------------
(* The offline cache and those who depend on it.                           *)

\* No step leaves the offline cache without the feeds or the articles it had:
\* not a snapshot that is told there are none, whoever told it so.  A replay, of
\* the loop, of POST /api/flush, of a stop or of a reconnect, may evict the
\* articles, but only when it has brought the pending changes to Lance.
THEOREM CacheIsKept == CliSpec => CacheSurvives
<1>1. ASSUME CliTypeOK, [CliNext]_cliVars,
             NEW t \in {"articles", "feeds"}, t \in cached, t \notin cached'
      PROVE  t = "articles" /\ Emptied /\ dataUp
  <2>1. CacheType /\ SnapsType  BY <1>1, TypeParts
  <2>2. ASSUME NEW s \in Snapshotters, SnapshotStep(s)
        PROVE  FALSE
    <3>1. CASE SnapshotStore(s)
      <4>1. PICK x \in Tables \ {"articles"} : x = at[s]
        BY <2>1, <3>1 DEF SnapshotStore, SnapsType
      <4>2. cached' = Stored(x, answer[s] = "empty")
        BY <3>1, <4>1 DEF SnapshotStore
      <4>3. QED  BY <1>1, <2>1, <4>2, StoredFacts DEF CacheType
    <3>2. QED
      BY <1>1, <2>2, <3>1
         DEF SnapshotStep, SnapshotRead, SnapshotList, BeginRead, ReadGoesOn,
             QueryFails, QueryEnds, ReadCache
  <2>3. ASSUME NEW u \in Users, ReadStep(u) PROVE FALSE
    BY <1>1, <2>3
       DEF ReadStep, BeginRead, ReadSetting, ReadGoesOn, QueryFails, QueryEnds,
           ReadCache
  <2>4. Replay
    BY <1>1, <2>2, <2>3
       DEF CliNext, cliVars, Change, SnapshotTick, FlushStep, PendingFlush,
           ApiFlush, ProbeStep, Probe, ReconnectFlush, Reconnect, AdminStep,
           Stop, StopFlush, StopEnds, StartOrRestart, DataStep, DataGone,
           DataBack, RowsArrive, CrashAndOpen
  <2>5. QED  BY <1>1, <2>4, ReplayFacts DEF Evicted
<1>2. CliTypeOK /\ [CliNext]_cliVars =>
         [/\ "feeds" \in cached => "feeds" \in cached'
          /\ ("articles" \in cached /\ "articles" \notin cached') =>
                Emptied /\ dataUp]_cliVars
  BY <1>1
<1>3. QED  BY <1>2, CliTypeCorrect, PTL DEF CliSpec, CacheSurvives

\* A read ends in one of two ways, with an answer of DuckDB or of the cache.
LEMMA ReadEnds ==
    ASSUME CliTypeOK, [CliNext]_cliVars, NEW u \in Users, NEW k \in Tables,
           asking[u] = k, asking'[u] = "none", crashes' = crashes
    PROVE  ReadCache(u) \/ \E r \in Answers : QueryEnds(u, r)
<1>1. ReadsType /\ SnapsType /\ PartsType  BY TypeParts
<1>2. k # "none" /\ u \in Readers /\ u \notin Snapshotters
  BY DEF Tables, Readers
<1>3. asking'[u] # asking[u]  BY <1>2
<1>4. ASSUME NEW x \in Readers, x # u,
             ReadGoesOn(x) \/ \E j : BeginRead(x, j)
      PROVE  asking'[u] = asking[u]
  <2>1. \/ asking' = asking
        \/ \E j : asking' = [asking EXCEPT ![x] = j]
    BY <1>4 DEF ReadGoesOn, BeginRead, QueryFails, QueryEnds, ReadCache
  <2>2. QED  BY <1>1, <1>2, <1>4, <2>1 DEF ReadsType
<1>5. ASSUME NEW s \in Snapshotters, SnapshotStep(s) PROVE FALSE
  <2>1. s \in Readers /\ s # u  BY <1>2 DEF Readers
  <2>2. CASE SnapshotRead(s) \/ ReadGoesOn(s)
    BY <1>3, <1>4, <2>1, <2>2 DEF SnapshotRead
  <2>3. QED  BY <1>3, <1>5, <2>2 DEF SnapshotStep, SnapshotList, SnapshotStore
<1>6. ~CrashAndOpen  BY <1>1 DEF CrashAndOpen, PartsType, OtherParts
<1>7. PICK v \in Users : ReadStep(v)
  BY <1>3, <1>5, <1>6
     DEF CliNext, cliVars, reads, Change, SnapshotTick, FlushStep, PendingFlush,
         ApiFlush, ProbeStep, Probe, ReconnectFlush, Reconnect, AdminStep, Stop,
         StopFlush, StopEnds, StartOrRestart, DataStep, DataGone, DataBack,
         RowsArrive
<1>8. ~ReadSetting(v)  BY <1>3 DEF ReadSetting
<1>9. v = u
  BY <1>3, <1>4, <1>7, <1>8 DEF ReadStep, Readers
<1>10. ~QueryFails(u) /\ \A j : ~BeginRead(u, j)
  BY <1>2, <1>3 DEF QueryFails, BeginRead
<1>11. QED  BY <1>7, <1>8, <1>9, <1>10 DEF ReadStep, ReadGoesOn

\* A user who reads a cached table is given rows, whether the read began offline,
\* failed, or met a stop, for any number of users, outages and faults; only a
\* statement that silently gives no rows shows the table empty.
THEOREM UsersServed == CliSpec => UsersAreServed
<1>1. ASSUME CliTypeOK, [CliNext]_cliVars, NEW u \in Users, NEW k \in Tables,
             asking[u] = k, asking'[u] = "none", crashes' = crashes
      PROVE  /\ answer'[u] # "error"
             /\ (k \in cached /\ answer'[u] \notin {"rows", "cache"}) =>
                   answer'[u] = "empty" /\ u \notin fallback /\ ~stopped
  <2>1. ReadsType  BY <1>1, TypeParts
  <2>2. u \in Readers /\ u \notin Snapshotters  BY DEF Readers
  <2>3. CASE ReadCache(u)
    <3>1. answer'[u] = FromCache(k)
      BY <1>1, <2>1, <2>2, <2>3 DEF ReadCache, ReadsType, Given
    <3>2. QED  BY <3>1 DEF FromCache
  <2>4. ASSUME NEW r \in Answers, QueryEnds(u, r)
        PROVE  /\ answer'[u] # "error"
               /\ answer'[u] \notin {"rows", "cache"} =>
                     answer'[u] = "empty" /\ u \notin fallback /\ ~stopped
    <3>1. answer'[u] = Served(k, r) /\ Query(k, r) /\ u \notin fallback
      BY <1>1, <2>1, <2>2, <2>4 DEF QueryEnds, ReadsType, Given
    <3>2. r \in {"rows", "empty"}
      BY <1>1, <2>4 DEF QueryEnds, Notices, Answers
    <3>3. ~stopped  BY <3>1, <3>2 DEF Query
    <3>4. QED  BY <3>1, <3>2, <3>3 DEF Served, Overlaid
  <2>5. QED  BY <1>1, <2>3, <2>4, ReadEnds
<1>2. CliTypeOK /\ [CliNext]_cliVars =>
         [\A u \in Users, k \in Tables :
             (asking[u] = k /\ asking'[u] = "none" /\ crashes' = crashes) =>
                /\ answer'[u] # "error"
                /\ (k \in cached /\ answer'[u] \notin {"rows", "cache"}) =>
                      answer'[u] = "empty" /\ u \notin fallback /\ ~stopped]_cliVars
  BY <1>1
<1>3. QED  BY <1>2, CliTypeCorrect, PTL DEF CliSpec, UsersAreServed
=============================================================================
