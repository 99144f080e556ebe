---------------------------- MODULE LogPathProofs ----------------------------
(***************************************************************************)
(* Proofs about LogPath, for all values of its constants.                  *)
(***************************************************************************)
EXTENDS LogPathInv, SequenceTheorems, FiniteSetTheorems, TLAPS

(***************************************************************************)
(* What the sequences of a put-back hold.                                  *)
(***************************************************************************)

LEMMA AppendRange ==
    ASSUME NEW S, NEW s \in Seq(S), NEW e \in S
    PROVE  /\ Range(Append(s, e)) = Range(s) \cup {e}
           /\ IsInjective(s) /\ e \notin Range(s) => IsInjective(Append(s, e))
<1>1. Append(s, e) \in Seq(S) /\ Len(Append(s, e)) = Len(s) + 1
      /\ Append(s, e)[Len(s) + 1] = e
      /\ \A i \in 1..Len(s) : Append(s, e)[i] = s[i]
  BY AppendProperties
<1>2. Len(s) \in Nat /\ DOMAIN s = 1..Len(s)
      /\ DOMAIN Append(s, e) = 1..(Len(s) + 1)
  BY <1>1, LenProperties
<1>3. Range(Append(s, e)) = Range(s) \cup {e}
  BY <1>1, <1>2 DEF Range
<1>4. ASSUME IsInjective(s), e \notin Range(s)
      PROVE  IsInjective(Append(s, e))
  <2>1. \A i \in 1..Len(s) : s[i] # e
    BY <1>2, <1>4 DEF Range
  <2> QED
    BY <1>1, <1>2, <1>4, <2>1 DEF IsInjective
<1> QED
  BY <1>3, <1>4

LEMMA ConcatInjective ==
    ASSUME NEW S, NEW s \in Seq(S), NEW t \in Seq(S),
           IsInjective(s), IsInjective(t), Range(s) \cap Range(t) = {}
    PROVE  IsInjective(s \o t)
<1>1. /\ s \o t \in Seq(S) /\ Len(s \o t) = Len(s) + Len(t)
      /\ \A i \in 1..Len(s) + Len(t) :
            (s \o t)[i] = IF i <= Len(s) THEN s[i] ELSE t[i - Len(s)]
  BY ConcatProperties
<1>2. /\ Len(s) \in Nat /\ Len(t) \in Nat
      /\ DOMAIN s = 1..Len(s) /\ DOMAIN t = 1..Len(t)
      /\ DOMAIN (s \o t) = 1..Len(s) + Len(t)
  BY <1>1, LenProperties
<1>3. \A i \in 1..Len(s), j \in 1..Len(t) : s[i] # t[j]
  BY <1>2 DEF Range
<1>4. SUFFICES ASSUME NEW i \in 1..Len(s) + Len(t), NEW j \in 1..Len(s) + Len(t),
                      (s \o t)[i] = (s \o t)[j]
               PROVE  i = j
  BY <1>2 DEF IsInjective
<1>5. CASE i <= Len(s) /\ j <= Len(s)
  BY <1>1, <1>2, <1>4, <1>5 DEF IsInjective
<1>6. CASE i > Len(s) /\ j > Len(s)
  <2>1. i - Len(s) \in DOMAIN t /\ j - Len(s) \in DOMAIN t
    BY <1>2, <1>6
  <2>2. t[i - Len(s)] = t[j - Len(s)]
    BY <1>1, <1>2, <1>4, <1>6
  <2> QED
    BY <1>2, <2>1, <2>2 DEF IsInjective
<1>7. CASE i <= Len(s) /\ j > Len(s)
  <2>1. j - Len(s) \in 1..Len(t) /\ i \in 1..Len(s)
    BY <1>2, <1>7
  <2> QED
    BY <1>1, <1>2, <1>3, <1>4, <1>7, <2>1
<1>8. CASE i > Len(s) /\ j <= Len(s)
  <2>1. i - Len(s) \in 1..Len(t) /\ j \in 1..Len(s)
    BY <1>2, <1>8
  <2> QED
    BY <1>1, <1>2, <1>3, <1>4, <1>8, <2>1
<1> QED
  BY <1>2, <1>5, <1>6, <1>7, <1>8

\* Dropping from the front: what is dropped and what stays make up the whole.
LEMMA DropFront ==
    ASSUME NEW S, NEW s \in Seq(S), NEW k \in 0..Len(s)
    PROVE  LET rest == SubSeq(s, k + 1, Len(s))
               dropped == {s[i] : i \in 1..k}
           IN  /\ rest \in Seq(S) /\ Len(rest) = Len(s) - k
               /\ dropped \subseteq S
               /\ Range(s) = Range(rest) \cup dropped
               /\ IsInjective(s) => IsInjective(rest)
<1> DEFINE rest == SubSeq(s, k + 1, Len(s))
           dropped == {s[i] : i \in 1..k}
<1>1. Len(s) \in Nat /\ DOMAIN s = 1..Len(s) /\ \A i \in 1..Len(s) : s[i] \in S
  BY LenProperties, ElementOfSeq
<1>2. /\ rest \in Seq(S)
      /\ Len(rest) = IF k + 1 <= Len(s) THEN Len(s) - (k + 1) + 1 ELSE 0
      /\ \A i \in 1..Len(s) - (k + 1) + 1 : rest[i] = s[(k + 1) + i - 1]
  <2>1. \A i \in k + 1..Len(s) : s[i] \in S
    BY <1>1
  <2> QED
    BY <1>1, <2>1, SubSeqProperties
<1> HIDE DEF rest
<1>3. Len(rest) = Len(s) - k /\ \A i \in 1..Len(s) - k : rest[i] = s[k + i]
  <2>1. Len(rest) = Len(s) - k
    <3>1. k \in Nat /\ k <= Len(s) /\ Len(s) \in Nat
      BY <1>1
    <3>2. CASE k + 1 <= Len(s)
      BY <1>2, <3>1, <3>2
    <3>3. CASE ~(k + 1 <= Len(s))
      BY <1>2, <3>1, <3>3
    <3> QED
      BY <3>2, <3>3
  <2>2. ASSUME NEW i \in 1..Len(s) - k PROVE rest[i] = s[k + i]
    <3>1. i \in 1..Len(s) - (k + 1) + 1 /\ (k + 1) + i - 1 = k + i
      BY <1>1
    <3> QED
      BY <1>2, <3>1
  <2> QED
    BY <2>1, <2>2
<1>4. DOMAIN rest = 1..Len(s) - k
  BY <1>2, <1>3, LenProperties
<1>5. dropped \subseteq S
  BY <1>1
<1>6. Range(s) = Range(rest) \cup dropped
  <2>1. ASSUME NEW i \in 1..Len(s) PROVE s[i] \in Range(rest) \cup dropped
    <3>1. CASE i <= k
      BY <1>1, <3>1
    <3>2. CASE i > k
      <4>1. i - k \in 1..Len(s) - k /\ s[k + (i - k)] = s[i]
        BY <1>1, <3>2
      <4>2. rest[i - k] = s[i] /\ i - k \in DOMAIN rest
        BY <1>3, <1>4, <4>1
      <4> QED
        BY <4>2 DEF Range
    <3> QED
      BY <1>1, <3>1, <3>2
  <2>2. ASSUME NEW i \in 1..Len(s) - k PROVE rest[i] \in Range(s)
    <3>1. k + i \in 1..Len(s)
      BY <1>1
    <3> QED
      BY <1>1, <1>3, <3>1 DEF Range
  <2>3. dropped \subseteq Range(s)
    BY <1>1 DEF Range
  <2> QED
    BY <1>1, <1>4, <2>1, <2>2, <2>3 DEF Range
<1>7. ASSUME IsInjective(s) PROVE IsInjective(rest)
  <2>1. SUFFICES ASSUME NEW i \in 1..Len(s) - k, NEW j \in 1..Len(s) - k,
                        rest[i] = rest[j]
                 PROVE  i = j
    BY <1>4 DEF IsInjective
  <2>2. k + i \in DOMAIN s /\ k + j \in DOMAIN s /\ s[k + i] = s[k + j]
    <3>1. k + i \in 1..Len(s) /\ k + j \in 1..Len(s)
      BY <1>1
    <3>2. s[k + i] = rest[i] /\ s[k + j] = rest[j]
      BY <1>3
    <3> QED
      BY <1>1, <2>1, <3>1, <3>2
  <2>3. k + i = k + j
    BY <1>7, <2>2 DEF IsInjective
  <2> QED
    BY <1>1, <2>3
<1> QED
  BY <1>2, <1>3, <1>5, <1>6, <1>7 DEF rest

LEMMA EmptyRange == Range(<<>>) = {} /\ IsInjective(<<>>)
  BY DEF Range, IsInjective

(***************************************************************************)
(* Type correctness.                                                       *)
(***************************************************************************)

LEMMA TypeInit == Init => TypeOK
<1> SUFFICES ASSUME Init PROVE TypeOK
  OBVIOUS
<1>1. next \in 1..MaxLogs + 1 /\ ring \in 0..RingCap
  BY LogAssumption DEF Init, LogAssumption
<1>2. buffer \in Seq(Entries) /\ batch \in [Goroutines -> Seq(Entries)]
  BY EmptySeq DEF Init
<1>3. hand \in [Drainers -> SUBSET Entries]
  BY DEF Init
<1> QED
  BY <1>1, <1>2, <1>3 DEF Init, TypeOK

LEMMA EventType == \A r \in 0..RingCap : Event(r) \in 0..RingCap
  BY LogAssumption DEF Event, LogAssumption

LEMMA ReplacedType ==
    ASSUME TypeOK, NEW g \in Goroutines
    PROVE  Replaced(batch[g]) \subseteq Entries
<1>1. batch[g] \in Seq(Entries)
  BY DEF TypeOK
<1>2. \A i \in DOMAIN batch[g] : batch[g][i] \in Entries
  BY <1>1, LenProperties, ElementOfSeq
<1> QED
  BY <1>2 DEF Replaced, TypeOK

\* What a put-back leaves in the buffer and what it drops are together what it
\* had in its hands.
LEMMA PutBackEffect ==
    ASSUME TypeOK, NEW g \in Goroutines, PutBack(g)
    PROVE  /\ buffer' \in Seq(Entries) /\ Len(buffer') <= MemoryCap
           /\ lost \subseteq lost' /\ lost' \subseteq lost \cup Entries
           /\ Range(batch[g]) \cup Range(buffer) \subseteq Range(buffer') \cup lost'
           /\ Range(buffer') \subseteq Range(batch[g]) \cup Range(buffer)
           /\ IsInjective(batch[g]) /\ IsInjective(buffer)
              /\ Range(batch[g]) \cap Range(buffer) = {} => IsInjective(buffer')
<1> DEFINE all == batch[g] \o buffer
           over == IF Len(all) > MemoryCap THEN Len(all) - MemoryCap ELSE 0
           dropped == {all[i] : i \in 1..over}
<1>1. buffer \in Seq(Entries) /\ batch[g] \in Seq(Entries)
  BY DEF TypeOK
<1>2. all \in Seq(Entries) /\ Range(all) = Range(batch[g]) \cup Range(buffer)
  BY <1>1, ConcatProperties, RangeConcatenation
<1>3. buffer' = SubSeq(all, over + 1, Len(all)) /\ lost' = lost \cup dropped
  BY DEF PutBack
<1>4. IsInjective(batch[g]) /\ IsInjective(buffer)
      /\ Range(batch[g]) \cap Range(buffer) = {} => IsInjective(all)
  BY <1>1, ConcatInjective
<1> HIDE DEF all
<1>5. Len(all) \in Nat /\ over \in 0..Len(all) /\ Len(all) - over <= MemoryCap
  <2>1. Len(all) \in Nat /\ MemoryCap \in Nat
    BY <1>2, LenProperties, LogAssumption DEF LogAssumption
  <2> QED
    BY <2>1
<1> HIDE DEF over
<1>6. /\ buffer' \in Seq(Entries) /\ Len(buffer') = Len(all) - over
      /\ dropped \subseteq Entries
      /\ Range(all) = Range(buffer') \cup dropped
      /\ IsInjective(all) => IsInjective(buffer')
  BY <1>2, <1>3, <1>5, DropFront
<1> QED
  BY <1>2, <1>3, <1>4, <1>5, <1>6

LEMMA TypeStep == TypeOK /\ [Next]_vars => TypeOK'
<1> SUFFICES ASSUME TypeOK, [Next]_vars PROVE TypeOK'
  OBVIOUS
<1>0. <<>> \in Seq(Entries)
  BY EmptySeq
<1>1. ASSUME NEW w \in Writers, Add(w) PROVE TypeOK'
  <2>1. next \in Entries /\ next' \in 1..MaxLogs + 1
    BY <1>1, LogAssumption DEF Add, TypeOK, Entries, LogAssumption
  <2>2. Append(buffer, next) \in Seq(Entries)
    BY <2>1, AppendProperties DEF TypeOK
  <2>3. buffer' \in Seq(Entries) /\ lost' \subseteq Entries
    BY <1>1, <2>1, <2>2 DEF Add, TypeOK
  <2>4. timer' \in {"none", "armed", "fired"}
    BY <1>1 DEF Add, TypeOK, StartTimer
  <2>5. pc' \in [Goroutines -> {"idle", "flush", "lance", "ring", "duck", "back", "done"}]
    BY <1>1 DEF Add, TypeOK
  <2> QED
    BY <1>1, <2>1, <2>3, <2>4, <2>5 DEF Add, TypeOK, draining, env
<1>2. ASSUME NEW t \in Timers, TimerFires(t) PROVE TypeOK'
  BY <1>2 DEF TimerFires, TypeOK, draining, env, history
<1>3. ASSUME NEW r \in Readers, Read(r) PROVE TypeOK'
  BY <1>3 DEF Read, TypeOK, memory, draining, env, history
<1>4. ASSUME NEW g \in Goroutines, FlushTake(g) PROVE TypeOK'
  BY <1>0, <1>4 DEF FlushTake, Return, TypeOK, draining, env, history
<1>5. ASSUME NEW g \in Goroutines, FlushToLance(g) PROVE TypeOK'
  <2>1. Range(batch[g]) \subseteq Entries
    BY RangeOfSeq DEF TypeOK
  <2>2. lance' \subseteq Entries /\ skipped' \subseteq Entries /\ doubtful' \subseteq Entries
    BY <1>5, <2>1 DEF FlushToLance, Written, Skipped, TypeOK
  <2>3. /\ batch' \in [Goroutines -> Seq(Entries)]
        /\ pc' \in [Goroutines -> {"idle", "flush", "lance", "ring", "duck", "back", "done"}]
    BY <1>0, <1>5 DEF FlushToLance, Finish, Return, TypeOK
  <2> QED
    BY <1>5, <2>2, <2>3 DEF FlushToLance, TypeOK, memory, draining, env
<1>6. ASSUME NEW g \in Goroutines, DrainRing(g) PROVE TypeOK'
  <2>1. ring' \in 0..RingCap
    BY <1>6, LogAssumption DEF DrainRing, LogAssumption
  <2> QED
    BY <1>6, <2>1 DEF DrainRing, Return, TypeOK, memory, draining, env, history
<1>7. ASSUME NEW g \in Goroutines, LanceFails(g) PROVE TypeOK'
  <2>1. Range(batch[g]) \subseteq Entries
    BY RangeOfSeq DEF TypeOK
  <2>2. lance' \subseteq Entries /\ skipped' \subseteq Entries /\ doubtful' \subseteq Entries
    BY <1>7, <2>1 DEF LanceFails, NotWritten, TypeOK
  <2>3. ring' \in 0..RingCap
    BY <1>7, EventType DEF LanceFails, TypeOK
  <2> QED
    BY <1>7, <2>2, <2>3 DEF LanceFails, TypeOK, memory, draining, env
<1>8. ASSUME NEW g \in Goroutines, FlushToDuck(g) PROVE TypeOK'
  <2>1. ring' \in 0..RingCap /\ cached' \subseteq Entries
    BY <1>8, EventType, ReplacedType DEF FlushToDuck, TypeOK
  <2> QED
    BY <1>0, <1>8, <2>1
       DEF FlushToDuck, Finish, Return, TypeOK, memory, draining, env, history
<1>9. ASSUME NEW g \in Goroutines, DuckFlushFails(g) PROVE TypeOK'
  <2>1. ring' \in 0..RingCap
    BY <1>9, EventType DEF DuckFlushFails, TypeOK
  <2> QED
    BY <1>9, <2>1 DEF DuckFlushFails, TypeOK, memory, draining, env, history
<1>10. ASSUME NEW g \in Goroutines, PutBack(g) PROVE TypeOK'
  <2>1. buffer' \in Seq(Entries) /\ lost' \subseteq Entries
    BY <1>10, PutBackEffect DEF TypeOK
  <2> QED
    BY <1>0, <1>10, <2>1 DEF PutBack, Finish, Return, TypeOK, draining, env
<1>11. ASSUME NEW d \in Drainers, DrainRead(d) PROVE TypeOK'
  <2>1. hand' \in [Drainers -> SUBSET Entries]
    BY <1>11 DEF DrainRead, TypeOK
  <2> QED
    BY <1>11, <2>1 DEF DrainRead, TypeOK, memory, flushing, env, history
<1>12. ASSUME NEW d \in Drainers, DrainInsert(d) PROVE TypeOK'
  <2>1. lance' \subseteq Entries /\ skipped' \subseteq Entries /\ doubtful' \subseteq Entries
    BY <1>12 DEF DrainInsert, Written, Skipped, NotWritten, TypeOK
  <2>2. /\ hand' \in [Drainers -> SUBSET Entries]
        /\ drain' \in [Drainers -> {"idle", "insert", "delete"}]
    BY <1>12 DEF DrainInsert, Rest, TypeOK
  <2> QED
    BY <1>12, <2>1, <2>2 DEF DrainInsert, TypeOK, memory, flushing, env
<1>13. ASSUME NEW d \in Drainers, DrainDelete(d) PROVE TypeOK'
  <2>1. ring' \in 0..RingCap /\ cached' \subseteq Entries
    BY <1>13, EventType DEF DrainDelete, TypeOK
  <2> QED
    BY <1>13, <2>1 DEF DrainDelete, Rest, TypeOK, memory, flushing, env, history
<1>14. CASE Stop
  BY <1>14 DEF Stop, TypeOK, draining, env, history, Goroutines
<1>15. CASE Restart
  <2>1. InMemory \subseteq Entries
    BY RangeOfSeq DEF InMemory, TypeOK
  <2>2. ring' \in 0..RingCap
    BY <1>15, LogAssumption DEF Restart, LogAssumption
  <2>3. restarts' \in Nat
    BY <1>15 DEF Restart, TypeOK
  <2> QED
    BY <1>0, <1>15, <2>1, <2>2, <2>3 DEF Restart, TypeOK
<1>16. CASE LanceDown
  <2>1. outages' \in Nat
    BY <1>16 DEF LanceDown, TypeOK
  <2> QED
    BY <1>16, <2>1 DEF LanceDown, TypeOK, memory, flushing, draining, history
<1>17. CASE LanceBack
  BY <1>17 DEF LanceBack, TypeOK, memory, flushing, draining, history
<1>18. CASE UNCHANGED vars
  BY <1>18 DEF vars, TypeOK, memory, flushing, draining, env, history
<1> QED
  BY <1>1, <1>2, <1>3, <1>4, <1>5, <1>6, <1>7, <1>8, <1>9, <1>10, <1>11,
     <1>12, <1>13, <1>14, <1>15, <1>16, <1>17, <1>18
     DEF Next, FlushStep, DrainStep

(***************************************************************************)
(* The bound on the buffer.                                                *)
(***************************************************************************)

LEMMA FlushingFinite ==
    ASSUME TypeOK
    PROVE  IsFiniteSet(Flushing) /\ Cardinality(Flushing) \in Nat
<1>1. Flushing \in SUBSET Goroutines
  BY DEF Flushing
<1> QED
  BY <1>1, LogAssumption, FS_Subset, FS_CardinalityType DEF LogAssumption

LEMMA BoundFacts ==
    /\ Bound \in Nat /\ MemoryCap \in Nat /\ Threshold \in Nat
    /\ MemoryCap <= Bound /\ Threshold - 1 <= Bound
  BY LogAssumption DEF LogAssumption, Bound

LEMMA BufferLen == TypeOK => Len(buffer) \in Nat
  BY LenProperties DEF TypeOK

\* As long as the buffer does not grow, only the end of a flush's first
\* critical section lowers the bound.
LEMMA BoundedFrame ==
    ASSUME TypeOK, TypeOK', BufferBounded, buffer' = buffer,
           \A g \in Goroutines : pc[g] = "flush" => pc'[g] = "flush"
    PROVE  BufferBounded'
<1>1. IsFiniteSet(Flushing') /\ Cardinality(Flushing') \in Nat
  BY FlushingFinite, LogAssumption, FS_Subset, FS_CardinalityType
     DEF Flushing, LogAssumption
<1>2. Flushing \in SUBSET (Flushing')
  BY DEF Flushing
<1>3. Cardinality(Flushing) <= Cardinality(Flushing')
  BY <1>1, <1>2, FS_Subset
<1>4. Len(buffer) \in Nat /\ Cardinality(Flushing) \in Nat /\ Bound \in Nat
  BY BufferLen, FlushingFinite, BoundFacts
<1> QED
  BY <1>1, <1>3, <1>4 DEF BufferBounded

LEMMA BoundedSmall ==
    ASSUME TypeOK', Len(buffer') <= Bound
    PROVE  BufferBounded'
<1>1. Flushing' \in SUBSET Goroutines
  BY DEF Flushing
<1>2. Cardinality(Flushing') \in Nat
  BY <1>1, LogAssumption, FS_Subset, FS_CardinalityType DEF LogAssumption
<1>3. Len(buffer') \in Nat /\ Bound \in Nat
  BY LenProperties, BoundFacts DEF TypeOK
<1> QED
  BY <1>2, <1>3 DEF BufferBounded

LEMMA BoundedAdd ==
    ASSUME TypeOK, TypeOK', BufferBounded, NEW w \in Writers, Add(w)
    PROVE  BufferBounded'
<1>1. CASE stopped
  BY <1>1, BoundedFrame DEF Add
<1>2. CASE ~stopped
  <2>1. /\ buffer' = Append(buffer, next) /\ next \in Entries
        /\ pc' = IF Len(buffer') >= Threshold THEN [pc EXCEPT ![w] = "flush"] ELSE pc
    BY <1>2, LogAssumption DEF Add, TypeOK, Entries, LogAssumption
  <2>2. Len(buffer') = Len(buffer) + 1 /\ Len(buffer) \in Nat
    BY <2>1, AppendProperties, BufferLen DEF TypeOK
  <2>3. Bound \in Nat /\ Threshold \in Nat /\ Threshold - 1 <= Bound
    BY BoundFacts
  <2>4. CASE Len(buffer') < Threshold
    BY <2>2, <2>3, <2>4, BoundedSmall
  <2>5. CASE ~(Len(buffer') < Threshold)
    <3>1. w \in Goroutines /\ pc[w] = "idle" /\ pc' = [pc EXCEPT ![w] = "flush"]
      BY <2>1, <2>2, <2>3, <2>5 DEF Add, Goroutines
    <3>2. Flushing' = Flushing \cup {w} /\ w \notin Flushing
      BY <3>1 DEF Flushing, TypeOK
    <3>3. Cardinality(Flushing') = Cardinality(Flushing) + 1
          /\ Cardinality(Flushing) \in Nat
      BY <3>2, FlushingFinite, FS_AddElement
    <3> QED
      BY <2>2, <2>3, <3>3 DEF BufferBounded
  <2> QED
    BY <2>4, <2>5
<1> QED
  BY <1>1, <1>2

LEMMA BoundedStep ==
    TypeOK /\ BufferBounded /\ [Next]_vars => BufferBounded'
<1> SUFFICES ASSUME TypeOK, BufferBounded, [Next]_vars PROVE BufferBounded'
  OBVIOUS
<1>0. TypeOK' /\ Len(<<>>) <= Bound
  BY TypeStep, EmptySeq, BoundFacts
<1>1. ASSUME NEW w \in Writers, Add(w) PROVE BufferBounded'
  BY <1>0, <1>1, BoundedAdd
<1>2. ASSUME NEW g \in Goroutines, FlushTake(g) PROVE BufferBounded'
  BY <1>0, <1>2, BoundedSmall DEF FlushTake
<1>3. ASSUME NEW g \in Goroutines, PutBack(g) PROVE BufferBounded'
  <2>1. Len(buffer') <= MemoryCap /\ Len(buffer') \in Nat
    BY <1>0, <1>3, PutBackEffect, LenProperties DEF TypeOK
  <2> QED
    BY <1>0, <2>1, BoundFacts, BoundedSmall
<1>4. CASE Restart
  BY <1>0, <1>4, BoundedSmall DEF Restart
<1>5. ASSUME NEW t \in Timers, TimerFires(t) PROVE BufferBounded'
  BY <1>0, <1>5, BoundedFrame DEF TimerFires, TypeOK
<1>6. ASSUME NEW r \in Readers, Read(r) PROVE BufferBounded'
  BY <1>0, <1>6, BoundedFrame DEF Read, memory, TypeOK
<1>7. ASSUME NEW g \in Goroutines,
             FlushToLance(g) \/ DrainRing(g) \/ LanceFails(g)
                \/ FlushToDuck(g) \/ DuckFlushFails(g)
      PROVE BufferBounded'
  <2>1. buffer' = buffer /\ \A h \in Goroutines : pc[h] = "flush" => pc'[h] = "flush"
    BY <1>7 DEF FlushToLance, DrainRing, LanceFails, FlushToDuck, DuckFlushFails,
                Finish, Return, memory, TypeOK
  <2> QED
    BY <1>0, <2>1, BoundedFrame
<1>8. ASSUME NEW d \in Drainers, DrainStep(d) PROVE BufferBounded'
  BY <1>0, <1>8, BoundedFrame
     DEF DrainStep, DrainRead, DrainInsert, DrainDelete, memory, flushing
<1>9. CASE Stop
  BY <1>0, <1>9, BoundedFrame DEF Stop, TypeOK
<1>10. CASE LanceDown \/ LanceBack \/ UNCHANGED vars
  BY <1>0, <1>10, BoundedFrame DEF LanceDown, LanceBack, vars, memory, flushing
<1> QED
  BY <1>1, <1>2, <1>3, <1>4, <1>5, <1>6, <1>7, <1>8, <1>9, <1>10
     DEF Next, FlushStep

(***************************************************************************)
(* Batches, and what each step does to the entries in memory.              *)
(***************************************************************************)

LEMMA HeldStep == TypeOK /\ BatchHeld /\ [Next]_vars => BatchHeld'
<1> SUFFICES ASSUME TypeOK, BatchHeld, [Next]_vars PROVE BatchHeld'
  OBVIOUS
<1>1. ASSUME NEW w \in Writers, Add(w) PROVE BatchHeld'
  BY <1>1 DEF Add, BatchHeld, TypeOK
<1>2. ASSUME NEW t \in Timers, TimerFires(t) PROVE BatchHeld'
  BY <1>2 DEF TimerFires, BatchHeld, TypeOK
<1>3. ASSUME NEW r \in Readers, Read(r) PROVE BatchHeld'
  BY <1>3 DEF Read, BatchHeld, TypeOK
<1>4. ASSUME NEW g \in Goroutines, FlushTake(g) PROVE BatchHeld'
  <2>1. \A h \in Goroutines : h # g => pc'[h] = pc[h] /\ batch'[h] = batch[h]
    BY <1>4 DEF FlushTake, Return, TypeOK
  <2>2. batch'[g] # <<>> => pc'[g] = "lance"
    BY <1>4 DEF FlushTake, TypeOK
  <2> QED
    BY <2>1, <2>2 DEF BatchHeld
<1>5. ASSUME NEW g \in Goroutines, FlushToLance(g) \/ FlushToDuck(g) \/ PutBack(g)
      PROVE BatchHeld'
  <2>1. batch'[g] = <<>>
    BY <1>5 DEF FlushToLance, FlushToDuck, PutBack, Finish, TypeOK
  <2>2. \A h \in Goroutines : h # g => pc'[h] = pc[h] /\ batch'[h] = batch[h]
    BY <1>5 DEF FlushToLance, FlushToDuck, PutBack, Finish, Return, TypeOK
  <2> QED
    BY <2>1, <2>2 DEF BatchHeld
<1>6. ASSUME NEW g \in Goroutines, DrainRing(g) \/ LanceFails(g) \/ DuckFlushFails(g)
      PROVE BatchHeld'
  <2>1. \A h \in Goroutines : h # g => pc'[h] = pc[h]
    BY <1>6 DEF DrainRing, LanceFails, DuckFlushFails, Return, TypeOK
  <2>2. batch' = batch /\ (batch[g] # <<>> => pc'[g] \in {"duck", "back"})
    BY <1>6 DEF DrainRing, LanceFails, DuckFlushFails, BatchHeld, TypeOK
  <2> QED
    BY <2>1, <2>2 DEF BatchHeld
<1>7. ASSUME NEW d \in Drainers, DrainStep(d) PROVE BatchHeld'
  BY <1>7 DEF DrainStep, DrainRead, DrainInsert, DrainDelete, flushing, BatchHeld
<1>8. CASE Stop
  BY <1>8 DEF Stop, BatchHeld, TypeOK
<1>9. CASE Restart
  BY <1>9 DEF Restart, BatchHeld
<1>10. CASE LanceDown \/ LanceBack \/ UNCHANGED vars
  BY <1>10 DEF LanceDown, LanceBack, vars, flushing, BatchHeld
<1> QED
  BY <1>1, <1>2, <1>3, <1>4, <1>5, <1>6, <1>7, <1>8, <1>9, <1>10
     DEF Next, FlushStep

\* A goroutine before its first critical section holds nothing
LEMMA TakeEffect ==
    ASSUME TypeOK, BatchHeld, NEW g \in Goroutines, FlushTake(g)
    PROVE  /\ InMemory' = InMemory
           /\ HeldOnce => HeldOnce'
<1>1. batch[g] = <<>> /\ buffer' = <<>> /\ batch' = [batch EXCEPT ![g] = buffer]
  BY DEF FlushTake, BatchHeld
<1>2. /\ Range(batch[g]) = {} /\ Range(buffer') = {} /\ IsInjective(buffer')
      /\ batch'[g] = buffer
      /\ \A h \in Goroutines : h # g => batch'[h] = batch[h]
  BY <1>1, EmptyRange DEF TypeOK
<1>3. InMemory' = InMemory
  BY <1>2 DEF InMemory
<1>4. HeldOnce => HeldOnce'
  BY <1>2 DEF HeldOnce
<1> QED
  BY <1>3, <1>4

LEMMA FinishEffect ==
    ASSUME TypeOK, NEW g \in Goroutines, buffer' = buffer,
           batch' = [batch EXCEPT ![g] = <<>>]
    PROVE  /\ InMemory = InMemory' \cup Range(batch[g])
           /\ HeldOnce => HeldOnce' /\ InMemory' \cap Range(batch[g]) = {}
<1>1. /\ Range(batch'[g]) = {} /\ IsInjective(batch'[g])
      /\ \A h \in Goroutines : h # g => batch'[h] = batch[h]
  BY EmptyRange DEF TypeOK
<1>2. InMemory = InMemory' \cup Range(batch[g])
  BY <1>1 DEF InMemory
<1>3. HeldOnce => HeldOnce'
  BY <1>1 DEF HeldOnce
<1>4. HeldOnce => InMemory' \cap Range(batch[g]) = {}
  <2> SUFFICES ASSUME HeldOnce, NEW n \in InMemory', n \in Range(batch[g])
               PROVE  FALSE
    OBVIOUS
  <2>1. n \notin Range(buffer')
    BY DEF HeldOnce
  <2>2. PICK h \in Goroutines : n \in Range(batch'[h])
    BY <2>1 DEF InMemory
  <2>3. h # g /\ n \in Range(batch[h])
    BY <1>1, <2>2
  <2> QED
    BY <2>3 DEF HeldOnce
<1> QED
  BY <1>2, <1>3, <1>4

LEMMA PutBackMemory ==
    ASSUME TypeOK, NEW g \in Goroutines, PutBack(g)
    PROVE  /\ InMemory \subseteq InMemory' \cup lost'
           /\ InMemory' \subseteq InMemory
           /\ HeldOnce => HeldOnce'
<1>1. /\ Range(batch'[g]) = {} /\ IsInjective(batch'[g])
      /\ \A h \in Goroutines : h # g => batch'[h] = batch[h]
  BY EmptyRange DEF TypeOK, PutBack, Finish
<1>2. /\ Range(batch[g]) \cup Range(buffer) \subseteq Range(buffer') \cup lost'
      /\ Range(buffer') \subseteq Range(batch[g]) \cup Range(buffer)
      /\ IsInjective(batch[g]) /\ IsInjective(buffer)
         /\ Range(batch[g]) \cap Range(buffer) = {} => IsInjective(buffer')
  BY PutBackEffect
<1>3. InMemory \subseteq InMemory' \cup lost'
  BY <1>1, <1>2 DEF InMemory
<1>4. InMemory' \subseteq InMemory
  BY <1>1, <1>2 DEF InMemory
<1>5. HeldOnce => HeldOnce'
  BY <1>1, <1>2 DEF HeldOnce
<1> QED
  BY <1>3, <1>4, <1>5

LEMMA AddMemory ==
    ASSUME TypeOK, NEW w \in Writers, Add(w), ~stopped
    PROVE  /\ InMemory' = InMemory \cup {next}
           /\ HeldOnce /\ next \notin InMemory => HeldOnce'
<1>1. next \in Entries /\ buffer \in Seq(Entries) /\ buffer' = Append(buffer, next)
      /\ batch' = batch
  BY LogAssumption DEF Add, TypeOK, Entries, LogAssumption
<1>2. /\ Range(buffer') = Range(buffer) \cup {next}
      /\ IsInjective(buffer) /\ next \notin Range(buffer) => IsInjective(buffer')
  BY <1>1, AppendRange
<1>3. InMemory' = InMemory \cup {next}
  BY <1>1, <1>2 DEF InMemory
<1>4. HeldOnce /\ next \notin InMemory => HeldOnce'
  <2> SUFFICES ASSUME HeldOnce, next \notin InMemory PROVE HeldOnce'
    OBVIOUS
  <2>1. next \notin Range(buffer) /\ \A g \in Goroutines : next \notin Range(batch[g])
    BY DEF InMemory
  <2>2. IsInjective(buffer')
    BY <1>2, <2>1 DEF HeldOnce
  <2>3. \A g \in Goroutines : Range(batch'[g]) \cap Range(buffer') = {}
    BY <1>1, <1>2, <2>1 DEF HeldOnce
  <2> QED
    BY <1>1, <2>2, <2>3 DEF HeldOnce
<1> QED
  BY <1>3, <1>4

(***************************************************************************)
(* Entries: LInv is inductive.                                             *)
(***************************************************************************)

LEMMA DrainedStep ==
    TypeOK /\ HandsDrained /\ [Next]_vars => HandsDrained'
<1> SUFFICES ASSUME TypeOK, HandsDrained, [Next]_vars PROVE HandsDrained'
  OBVIOUS
<1>1. ASSUME NEW d \in Drainers, DrainRead(d) PROVE HandsDrained'
  BY <1>1 DEF DrainRead, HandsDrained, TypeOK, history
<1>2. ASSUME NEW d \in Drainers, DrainInsert(d) PROVE HandsDrained'
  <2>1. lance \subseteq lance' /\ skipped \subseteq skipped'
        /\ (drain'[d] = "delete" => hand'[d] \subseteq lance' \cup skipped')
    BY <1>2 DEF DrainInsert, Rest, Written, Skipped, NotWritten, TypeOK
  <2>2. \A e \in Drainers : e # d => drain'[e] = drain[e] /\ hand'[e] = hand[e]
    BY <1>2 DEF DrainInsert, Rest, TypeOK
  <2> QED
    BY <2>1, <2>2 DEF HandsDrained
<1>3. ASSUME NEW d \in Drainers, DrainDelete(d) PROVE HandsDrained'
  BY <1>3 DEF DrainDelete, Rest, HandsDrained, TypeOK, history
<1>4. CASE Restart
  BY <1>4 DEF Restart, HandsDrained, TypeOK
<1>5. ASSUME NEW g \in Goroutines, FlushStep(g) PROVE HandsDrained'
  <2>1. lance \subseteq lance' /\ skipped \subseteq skipped'
        /\ drain' = drain /\ hand' = hand
    BY <1>5 DEF FlushStep, FlushTake, FlushToLance, DrainRing, LanceFails,
                FlushToDuck, DuckFlushFails, PutBack, Written, Skipped,
                NotWritten, draining, history
  <2> QED
    BY <2>1 DEF HandsDrained
<1>6. CASE \/ \E w \in Writers : Add(w)
           \/ \E t \in Timers : TimerFires(t)
           \/ \E r \in Readers : Read(r)
           \/ Stop \/ LanceDown \/ LanceBack \/ UNCHANGED vars
  BY <1>6 DEF Add, TimerFires, Read, Stop, LanceDown, LanceBack, vars, draining,
              history, HandsDrained
<1> QED
  BY <1>1, <1>2, <1>3, <1>4, <1>5, <1>6 DEF Next, DrainStep

\* The part of LInv that speaks of single entries
Accounted == NothingLost /\ NotHeldTwice /\ Numbered /\ HandsNotInMemory

LEMMA AccountedFrame ==
    ASSUME Accounted, buffer' = buffer, batch' = batch, next' = next,
           lance' = lance, cached' = cached, hand' = hand,
           lost' = lost, skipped' = skipped, doubtful' = doubtful
    PROVE  Accounted'
  BY DEF Accounted, NothingLost, NotHeldTwice, HeldOnce, Numbered,
         HandsNotInMemory, InMemory, Stored, Hands, Logged

LEMMA AccountedAdd ==
    ASSUME TypeOK, Accounted, NEW w \in Writers, Add(w)
    PROVE  Accounted'
<1>1. /\ Logged' = Logged \cup {next} /\ next \notin Logged
      /\ Stored' = Stored /\ Hands' = Hands
      /\ skipped' = skipped /\ doubtful' = doubtful /\ batch' = batch
  BY LogAssumption DEF Add, TypeOK, Logged, Stored, Hands, draining, LogAssumption
<1>2. CASE stopped
  <2>1. InMemory' = InMemory /\ buffer' = buffer /\ lost' = lost \cup {next}
    BY <1>2 DEF Add, InMemory
  <2> QED
    BY <1>1, <2>1 DEF Accounted, NothingLost, NotHeldTwice, HeldOnce, Numbered,
                      HandsNotInMemory
<1>3. CASE ~stopped
  <2>1. next \notin InMemory \cup Stored \cup Hands
    BY <1>1 DEF Accounted, Numbered
  <2>2. InMemory' = InMemory \cup {next} /\ HeldOnce' /\ lost' = lost
    BY <1>3, <2>1, AddMemory DEF Accounted, NotHeldTwice, Add
  <2> QED
    BY <1>1, <2>1, <2>2 DEF Accounted, NothingLost, NotHeldTwice, Numbered,
                            HandsNotInMemory
<1> QED
  BY <1>2, <1>3

LEMMA AccountedTake ==
    ASSUME TypeOK, BatchHeld, Accounted, NEW g \in Goroutines, FlushTake(g)
    PROVE  Accounted'
<1>1. InMemory' = InMemory /\ HeldOnce'
  BY TakeEffect DEF Accounted, NotHeldTwice
<1>2. /\ Logged' = Logged /\ Stored' = Stored /\ Hands' = Hands
      /\ lost' = lost /\ skipped' = skipped /\ doubtful' = doubtful
  BY DEF FlushTake, Logged, Stored, Hands, draining, history
<1> QED
  BY <1>1, <1>2 DEF Accounted, NothingLost, NotHeldTwice, Numbered, HandsNotInMemory

\* Tier 1 writes the batch, or reports it as written
LEMMA AccountedLance ==
    ASSUME TypeOK, Accounted, NEW g \in Goroutines, FlushToLance(g)
    PROVE  Accounted'
<1>1. buffer' = buffer /\ batch' = [batch EXCEPT ![g] = <<>>]
  BY DEF FlushToLance, Finish, memory
<1>2. /\ InMemory = InMemory' \cup Range(batch[g])
      /\ HeldOnce' /\ InMemory' \cap Range(batch[g]) = {}
  BY <1>1, FinishEffect DEF Accounted, NotHeldTwice
<1>3. /\ Logged' = Logged /\ Hands' = Hands /\ lost' = lost /\ doubtful' = doubtful
      /\ Stored \subseteq Stored' /\ Stored' \subseteq Stored \cup Range(batch[g])
      /\ skipped \subseteq skipped'
      /\ Range(batch[g]) \subseteq Stored' \cup skipped'
  BY DEF FlushToLance, Written, Skipped, Logged, Stored, Hands, draining
<1> QED
  BY <1>2, <1>3 DEF Accounted, NothingLost, NotHeldTwice, Numbered, HandsNotInMemory

\* What Lance wrote and reported as failed is in memory still, and doubtful
LEMMA AccountedFails ==
    ASSUME TypeOK, Accounted, NEW g \in Goroutines, LanceFails(g)
    PROVE  Accounted'
<1>1. InMemory' = InMemory /\ (HeldOnce => HeldOnce')
  BY DEF LanceFails, InMemory, HeldOnce, memory
<1>2. Range(batch[g]) \subseteq InMemory
  BY DEF InMemory
<1>3. /\ Logged' = Logged /\ Hands' = Hands /\ lost' = lost /\ skipped' = skipped
      /\ doubtful \subseteq doubtful' /\ Stored \subseteq Stored'
      /\ Stored' \subseteq Stored \cup (Range(batch[g]) \cap doubtful')
  BY DEF LanceFails, NotWritten, Logged, Stored, Hands, draining
<1> QED
  BY <1>1, <1>2, <1>3
     DEF Accounted, NothingLost, NotHeldTwice, Numbered, HandsNotInMemory

\* INSERT OR REPLACE stores every entry of the batch that has an id, and
\* replaces only entries without one.
LEMMA ReplacedHolds ==
    ASSUME TypeOK, NEW g \in Goroutines, IsInjective(batch[g])
    PROVE  /\ Replaced(batch[g]) \subseteq cached \cup Range(batch[g])
           /\ (cached \cup Range(batch[g])) \ Anonymous \subseteq Replaced(batch[g])
<1> DEFINE b == batch[g]
<1>1. /\ b \in Seq(Entries) /\ DOMAIN b = 1..Len(b) /\ Len(b) \in Nat
      /\ \A i \in DOMAIN b : b[i] \in Entries
  <2>1. b \in Seq(Entries)
    BY DEF TypeOK
  <2> QED
    BY <2>1, LenProperties, ElementOfSeq
<1>2. \A n \in Entries : n \in Nat \ {0}
  BY LogAssumption DEF Entries, LogAssumption
<1>3. \A n \in Entries \ Anonymous, m \in Entries : Id(n) = Id(m) => n = m
  BY <1>2 DEF Id
<1>4. Replaced(b) \subseteq cached \cup Range(b)
  BY DEF Replaced, Range
<1>5. ASSUME NEW n \in cached, n \notin Anonymous PROVE n \in Replaced(b)
  <2>1. CASE n \in Range(b)
    <3>1. PICK i \in DOMAIN b : b[i] = n
      BY <2>1 DEF Range
    <3>2. \A k \in DOMAIN b : k > i => Id(b[k]) # Id(b[i])
      BY <1>1, <1>3, <1>5, <3>1 DEF IsInjective
    <3> QED
      BY <3>1, <3>2 DEF Replaced
  <2>2. CASE n \notin Range(b)
    <3>1. n \in Entries
      BY DEF TypeOK
    <3>2. Id(n) \notin Ids(Range(b))
      BY <1>1, <1>3, <1>5, <2>2, <3>1 DEF Ids, Range
    <3> QED
      BY <3>2 DEF Replaced
  <2> QED
    BY <2>1, <2>2
<1>6. ASSUME NEW n \in Range(b), n \notin Anonymous PROVE n \in Replaced(b)
  <2>1. PICK i \in DOMAIN b : b[i] = n
    BY DEF Range
  <2>2. \A k \in DOMAIN b : k > i => Id(b[k]) # Id(b[i])
    BY <1>1, <1>3, <1>6, <2>1 DEF IsInjective
  <2> QED
    BY <2>1, <2>2 DEF Replaced
<1> QED
  BY <1>4, <1>5, <1>6

LEMMA AccountedDuck ==
    ASSUME TypeOK, Accounted, NEW g \in Goroutines, FlushToDuck(g)
    PROVE  Accounted'
<1>1. /\ InMemory = InMemory' \cup Range(batch[g])
      /\ HeldOnce' /\ InMemory' \cap Range(batch[g]) = {}
  BY FinishEffect DEF FlushToDuck, Finish, memory, Accounted, NotHeldTwice
<1>2. /\ cached' \subseteq cached \cup Range(batch[g])
      /\ (cached \cup Range(batch[g])) \ Anonymous \subseteq cached'
  BY ReplacedHolds DEF FlushToDuck, Accounted, NotHeldTwice, HeldOnce
<1>3. /\ Logged' = Logged /\ Hands' = Hands /\ lance' = lance
      /\ lost' = lost /\ skipped' = skipped /\ doubtful' = doubtful
  BY DEF FlushToDuck, Logged, Hands, draining, history
<1>4. /\ Stored' \subseteq Stored \cup Range(batch[g])
      /\ (Stored \cup Range(batch[g])) \ Anonymous \subseteq Stored'
  BY <1>2, <1>3 DEF Stored
<1> QED
  BY <1>1, <1>3, <1>4
     DEF Accounted, NothingLost, NotHeldTwice, Numbered, HandsNotInMemory

LEMMA AccountedBack ==
    ASSUME TypeOK, Accounted, NEW g \in Goroutines, PutBack(g)
    PROVE  Accounted'
<1>1. InMemory \subseteq InMemory' \cup lost' /\ InMemory' \subseteq InMemory /\ HeldOnce'
  BY PutBackMemory DEF Accounted, NotHeldTwice
<1>2. /\ Logged' = Logged /\ Hands' = Hands /\ Stored' = Stored
      /\ lost \subseteq lost' /\ skipped' = skipped /\ doubtful' = doubtful
  BY PutBackEffect DEF PutBack, Logged, Hands, Stored, draining
<1> QED
  BY <1>1, <1>2 DEF Accounted, NothingLost, NotHeldTwice, Numbered, HandsNotInMemory

LEMMA AccountedDrain ==
    ASSUME TypeOK, HandsDrained, Accounted, NEW d \in Drainers, DrainStep(d)
    PROVE  Accounted'
<1>1. /\ InMemory' = InMemory /\ (HeldOnce => HeldOnce') /\ Logged' = Logged
      /\ lost' = lost
  BY DEF DrainStep, DrainRead, DrainInsert, DrainDelete, InMemory, HeldOnce,
         Logged, memory, flushing, history
<1>2. hand[d] \subseteq Hands
  BY DEF Hands
<1>3. CASE DrainRead(d)
  <2>1. /\ Stored' = Stored /\ skipped' = skipped /\ doubtful' = doubtful
        /\ hand'[d] \subseteq cached
        /\ \A e \in Drainers : e # d => hand'[e] = hand[e]
    BY <1>3 DEF DrainRead, Stored, TypeOK, history
  <2>2. Hands' \subseteq Hands \cup Stored
    BY <2>1 DEF Hands, Stored
  <2> QED
    BY <1>1, <2>1, <2>2
       DEF Accounted, NothingLost, NotHeldTwice, Numbered, HandsNotInMemory
<1>4. CASE DrainInsert(d)
  <2>1. /\ Stored \subseteq Stored' /\ Stored' \subseteq Stored \cup hand[d]
        /\ skipped \subseteq skipped' /\ doubtful \subseteq doubtful'
    BY <1>4 DEF DrainInsert, Written, Skipped, NotWritten, Stored
  <2>2. Hands' \subseteq Hands
    BY <1>4 DEF DrainInsert, Rest, Hands, TypeOK
  <2> QED
    BY <1>1, <1>2, <2>1, <2>2
       DEF Accounted, NothingLost, NotHeldTwice, Numbered, HandsNotInMemory
<1>5. CASE DrainDelete(d)
  <2>1. \A n \in Entries : n # 0
    BY LogAssumption DEF Entries, LogAssumption
  <2>2. hand[d] \subseteq lance \cup skipped /\ hand[d] \subseteq Entries
    BY <1>5 DEF DrainDelete, HandsDrained, TypeOK
  <2>3. ASSUME NEW n \in cached, n \notin Anonymous
        PROVE n \in cached' \cup hand[d]
    <3>1. n # 0 /\ Id(n) = n
      BY <2>1, <2>3 DEF Id, TypeOK
    <3>2. Id(n) \in Ids(hand[d]) => n \in hand[d]
      BY <3>1 DEF Id, Ids
    <3> QED
      BY <1>5, <2>3, <3>2 DEF DrainDelete
  <2>4. /\ cached' \subseteq cached /\ lance' = lance /\ skipped' = skipped
        /\ doubtful' = doubtful
    BY <1>5 DEF DrainDelete, history
  <2>5. Hands' \subseteq Hands
    BY <1>5 DEF DrainDelete, Rest, Hands, TypeOK
  <2> QED
    BY <1>1, <2>2, <2>3, <2>4, <2>5
       DEF Accounted, NothingLost, NotHeldTwice, Numbered, HandsNotInMemory, Stored
<1> QED
  BY <1>3, <1>4, <1>5 DEF DrainStep

\* The end of the process: what was in memory is lost
LEMMA AccountedRestart ==
    ASSUME TypeOK, Accounted, Restart
    PROVE  Accounted'
<1>1. InMemory' = {} /\ HeldOnce' /\ Hands' = {}
  BY EmptyRange DEF Restart, InMemory, HeldOnce, Hands
<1>2. /\ Logged' = Logged /\ Stored' = Stored /\ lost' = lost \cup InMemory
      /\ skipped' = skipped /\ doubtful' = doubtful
  BY DEF Restart, Logged, Stored
<1> QED
  BY <1>1, <1>2 DEF Accounted, NothingLost, NotHeldTwice, Numbered, HandsNotInMemory

LEMMA AccountedStep ==
    TypeOK /\ BatchHeld /\ HandsDrained /\ Accounted /\ [Next]_vars => Accounted'
<1> SUFFICES ASSUME TypeOK, BatchHeld, HandsDrained, Accounted, [Next]_vars
             PROVE  Accounted'
  OBVIOUS
<1>1. ASSUME NEW g \in Goroutines, FlushStep(g) PROVE Accounted'
  <2>1. CASE DrainRing(g) \/ DuckFlushFails(g)
    BY <2>1, AccountedFrame DEF DrainRing, DuckFlushFails, memory, draining, history
  <2> QED
    BY <1>1, <2>1, AccountedTake, AccountedLance, AccountedFails, AccountedDuck,
       AccountedBack DEF FlushStep
<1>2. CASE \/ \E t \in Timers : TimerFires(t)
           \/ \E r \in Readers : Read(r)
           \/ Stop \/ LanceDown \/ LanceBack \/ UNCHANGED vars
  BY <1>2, AccountedFrame
     DEF TimerFires, Read, Stop, LanceDown, LanceBack, vars, memory, flushing,
         draining, history
<1> QED
  BY <1>1, <1>2, AccountedAdd, AccountedDrain, AccountedRestart DEF Next

LEMMA LInvInit == Init => LInv
<1> SUFFICES ASSUME Init PROVE LInv
  OBVIOUS
<1>1. TypeOK
  BY TypeInit
<1>2. InMemory = {} /\ HeldOnce /\ Hands = {} /\ Stored = {} /\ Logged = {}
  BY EmptyRange DEF Init, InMemory, HeldOnce, Hands, Stored, Logged
<1>3. BufferBounded
  <2>1. Len(buffer) = 0 /\ Bound \in Nat /\ Cardinality(Flushing) \in Nat
    BY <1>1, EmptySeq, FlushingFinite, BoundFacts DEF Init
  <2> QED
    BY <2>1 DEF BufferBounded
<1> QED
  BY <1>1, <1>2, <1>3
     DEF Init, LInv, BatchHeld, HandsDrained, NothingLost, NotHeldTwice, Numbered,
         HandsNotInMemory

LEMMA LInvStep == LInv /\ [Next]_vars => LInv'
  BY TypeStep, HeldStep, DrainedStep, AccountedStep, BoundedStep
     DEF LInv, Accounted

\* The state is well formed, batches belong to running flushes, and every entry
\* is accounted for (LInv): flush, flushLogs3Tier, drainCachedLogs, close.
THEOREM LogInvariance == Spec => []LInv
  BY LInvInit, LInvStep, PTL DEF Spec

\* No entry with an id disappears between the tiers (logbuffer.go flush,
\* lance_cgo.go flushLogs3Tier and drainCachedLogs).
THEOREM LogsAccounted == Spec => []NothingLost
<1>1. LInv => NothingLost
  BY DEF LInv
<1> QED
  BY <1>1, LogInvariance, PTL

\* Overlapping flushes never hold or write an entry twice (logbuffer.go flush).
THEOREM LogsOnce == Spec => []NotHeldTwice
<1>1. LInv => NotHeldTwice
  BY DEF LInv
<1> QED
  BY <1>1, LogInvariance, PTL

\* The larger of the memory cap and the entries below the flush threshold
\* bounds the buffer between flushes (logbuffer.go add, flush).
THEOREM LogsBounded == Spec => []BufferBounded
<1>1. LInv => BufferBounded
  BY DEF LInv
<1> QED
  BY <1>1, LogInvariance, PTL
=============================================================================
