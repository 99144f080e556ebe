------------------------------ MODULE LogPath ------------------------------
(***************************************************************************)
(* The log entries of the Go server (server/db): logBuffer collects them   *)
(* in memory; a flush takes them all and, outside the lock, writes them to *)
(* log_api.lance, else to cached_logs in the local DuckDB file, else puts  *)
(* them back; drains move cached_logs to Lance.  infraRing counts what     *)
(* went wrong on the way.                                                  *)
(*                                                                         *)
(* An entry is the number of its WriteLog call.  Grain of atomicity: one   *)
(* critical section of logBuffer, offlineCache or infraRing, or one        *)
(* InsertLogs.  lost, skipped and doubtful are history variables.          *)
(***************************************************************************)
EXTENDS Integers, Sequences, FiniteSets, Functions

CONSTANTS
    Writers,          \* goroutines that call WriteLog
    Timers,           \* goroutines in which an expired flush timer runs
    Readers,          \* GET /api/logs requests
    Threshold,        \* LogBufferConfig.FlushThreshold
    MemoryCap,        \* LogBufferConfig.MemoryCap
    BatchSize,        \* how many entries a drain takes
    RingCap,          \* capacity of infraRing
    Anonymous,        \* entries of emitLog, which gives them no LogID
    DuckMayFail,      \* may a statement on the DuckDB file fail?
    AnswersMayBeLost, \* may Lance write and report an error?
    TableMayVanish,   \* may an outage hide the table's directory?
    MaxLogs,          \* bound on entries
    MaxOutages,       \* bound on outages
    MaxRestarts       \* bound on crashes and shutdowns

Main == "main"        \* the goroutine that closes the store
Goroutines == Writers \cup Timers \cup Readers \cup {Main}
Drainers == {"ticker", "probe"}
Entries == 1..MaxLogs

ASSUME LogAssumption ==
    /\ Threshold \in Nat \ {0} /\ MemoryCap \in Nat \ {0}
    /\ BatchSize \in Nat \ {0} /\ RingCap \in Nat \ {0}
    /\ Anonymous \subseteq Nat
    /\ Writers \cap Timers = {} /\ Writers \cap Readers = {}
    /\ Timers \cap Readers = {} /\ Main \notin Writers \cup Timers \cup Readers
    /\ IsFiniteSet(Goroutines)
    /\ DuckMayFail \in BOOLEAN /\ AnswersMayBeLost \in BOOLEAN
    /\ TableMayVanish \in BOOLEAN
    /\ MaxLogs \in Nat /\ MaxOutages \in Nat /\ MaxRestarts \in Nat

VARIABLES
    next,      \* the next entry
    buffer,    \* logBuffer.entries
    timer,     \* logBuffer.timer: "none", "armed" or "fired"
    stopped,   \* logBuffer.stopped
    pc,        \* where each goroutine is in flush and flushLogs3Tier
    batch,     \* what it has taken from the buffer
    ring,      \* how many events infraRing holds
    lance,     \* the entries in log_api.lance
    lanceUp,   \* can it be written?
    cached,    \* the entries in cached_logs
    drain,     \* where each drain is
    hand,      \* what it has read from cached_logs
    outages, restarts,
    lost,      \* history: dropped by the cap, by close or with the process
    skipped,   \* history: reported as written while the table was not there
    doubtful   \* history: written and reported as failed

memory == <<buffer, timer, stopped>>
flushing == <<pc, batch>>
draining == <<drain, hand>>
env == <<lanceUp, outages, restarts>>
history == <<lost, skipped, doubtful>>
vars == <<next, memory, flushing, ring, lance, cached, draining, env, history>>

Init ==
    /\ next = 1 /\ buffer = <<>> /\ timer = "none" /\ stopped = FALSE
    /\ pc = [g \in Goroutines |-> "idle"]
    /\ batch = [g \in Goroutines |-> <<>>]
    /\ ring = 0
    /\ lance = {} /\ lanceUp = TRUE
    /\ cached = {}
    /\ drain = [d \in Drainers |-> "idle"]
    /\ hand = [d \in Drainers |-> {}]
    /\ outages = 0 /\ restarts = 0
    /\ lost = {} /\ skipped = {} /\ doubtful = {}

\* The primary key of cached_logs: one empty LogID for all anonymous entries
Id(n) == IF n \in Anonymous THEN 0 ELSE n
Ids(E) == {Id(n) : n \in E}

InMemory == Range(buffer) \cup UNION {Range(batch[g]) : g \in Goroutines}

\* close has returned to Close, which closes the DuckDB file next
Closing == pc[Main] = "done"
DuckFails == DuckMayFail \/ Closing

\* infraRing.add: a full ring overwrites its oldest event
Event(r) == IF r < RingCap THEN r + 1 ELSE RingCap

-----------------------------------------------------------------------------
(* InsertLogs of the native writer, for a set of entries.                  *)

Written(E) ==
    /\ lanceUp
    /\ lance' = lance \cup E
    /\ UNCHANGED <<skipped, doubtful>>

\* logAPITableExists finds no directory: nothing written and no error
Skipped(E) ==
    /\ ~lanceUp /\ TableMayVanish
    /\ skipped' = skipped \cup E
    /\ UNCHANGED <<lance, doubtful>>

NotWritten(E) ==
    /\ ~lanceUp
    /\ \/ UNCHANGED <<lance, doubtful>>
       \/ /\ AnswersMayBeLost
          /\ lance' = lance \cup E
          /\ doubtful' = doubtful \cup E
    /\ UNCHANGED skipped

-----------------------------------------------------------------------------
(* logBuffer.                                                              *)

\* startTimerLocked: only the first entry of an empty buffer arms the timer
StartTimer(b) == IF Len(b) = 1 /\ timer = "none" THEN "armed" ELSE timer

\* WriteLog and logBuffer.add; after close the entry is ignored
Add(w) ==
    /\ pc[w] = "idle" /\ next <= MaxLogs
    /\ next' = next + 1
    /\ IF stopped
       THEN lost' = lost \cup {next} /\ UNCHANGED <<buffer, timer, pc>>
       ELSE /\ buffer' = Append(buffer, next)
            /\ timer' = StartTimer(buffer')
            /\ pc' = IF Len(buffer') >= Threshold
                     THEN [pc EXCEPT ![w] = "flush"] ELSE pc
            /\ UNCHANGED lost
    /\ UNCHANGED <<stopped, batch, ring, lance, cached, draining, env,
                   skipped, doubtful>>

TimerFires(t) ==
    /\ timer = "armed" /\ pc[t] = "idle"
    /\ timer' = "fired"
    /\ pc' = [pc EXCEPT ![t] = "flush"]
    /\ UNCHANGED <<next, buffer, stopped, batch, ring, lance, cached, draining,
                   env, history>>

\* GetLogs flushes before it reads
Read(r) ==
    /\ pc[r] = "idle"
    /\ pc' = [pc EXCEPT ![r] = "flush"]
    /\ UNCHANGED <<next, memory, batch, ring, lance, cached, draining, env, history>>

\* close, called by Close when main returns
Stop ==
    /\ pc[Main] = "idle" /\ restarts < MaxRestarts
    /\ stopped' = TRUE
    /\ pc' = [pc EXCEPT ![Main] = "flush"]
    /\ UNCHANGED <<next, buffer, timer, batch, ring, lance, cached, draining,
                   env, history>>

Return(g) == [pc EXCEPT ![g] = IF g = Main THEN "done" ELSE "idle"]

\* Mutation: the taken entries stay in the buffer.
FlushTakeKeeps(g) ==
    /\ pc[g] = "flush"
    /\ timer' = "none"
    /\ batch' = [batch EXCEPT ![g] = buffer]
    /\ pc' = IF buffer = <<>> THEN Return(g) ELSE [pc EXCEPT ![g] = "lance"]
    /\ UNCHANGED <<next, buffer, stopped, ring, lance, cached, draining, env, history>>

\* Mutation: the stopped timer stays in the buffer, so no entry arms another.
FlushTakeKeepsTimer(g) ==
    /\ pc[g] = "flush"
    /\ batch' = [batch EXCEPT ![g] = buffer]
    /\ buffer' = <<>>
    /\ timer' = IF timer = "armed" THEN "fired" ELSE timer
    /\ pc' = IF buffer = <<>> THEN Return(g) ELSE [pc EXCEPT ![g] = "lance"]
    /\ UNCHANGED <<next, stopped, ring, lance, cached, draining, env, history>>

\* flush, first critical section
FlushTake(g) ==
    /\ pc[g] = "flush"
    /\ timer' = "none"
    /\ batch' = [batch EXCEPT ![g] = buffer]
    /\ buffer' = <<>>
    /\ pc' = IF buffer = <<>> THEN Return(g) ELSE [pc EXCEPT ![g] = "lance"]
    /\ UNCHANGED <<next, stopped, ring, lance, cached, draining, env, history>>

-----------------------------------------------------------------------------
(* flushLogs3Tier, run by the goroutine that took the batch.               *)

Finish(g) ==
    /\ batch' = [batch EXCEPT ![g] = <<>>]
    /\ pc' = Return(g)

\* Tier 1, without an error: the batch is done, the ring may be next
FlushToLance(g) ==
    /\ pc[g] = "lance"
    /\ \/ Written(Range(batch[g]))
       \/ Skipped(Range(batch[g]))
    /\ IF ring = 0 THEN Finish(g)
       ELSE /\ batch' = [batch EXCEPT ![g] = <<>>]
            /\ pc' = [pc EXCEPT ![g] = "ring"]
    /\ UNCHANGED <<next, memory, ring, cached, draining, env, lost>>

\* drain empties the ring, whether or not Lance then takes its events
DrainRing(g) ==
    /\ pc[g] = "ring"
    /\ ring' = 0
    /\ pc' = Return(g)
    /\ UNCHANGED <<next, memory, batch, lance, cached, draining, env, history>>

\* Tier 1, with an error
LanceFails(g) ==
    /\ pc[g] = "lance"
    /\ NotWritten(Range(batch[g]))
    /\ ring' = Event(ring)
    /\ pc' = [pc EXCEPT ![g] = "duck"]
    /\ UNCHANGED <<next, memory, batch, cached, draining, env, lost>>

\* Tier 2, insertLogs: one transaction of INSERT OR REPLACE, in order, so that
\* of several entries with one id the last stays
Replaced(b) ==
    {n \in cached : Id(n) \notin Ids(Range(b))}
        \cup {b[i] : i \in {j \in DOMAIN b :
                              \A k \in DOMAIN b : k > j => Id(b[k]) # Id(b[j])}}

FlushToDuck(g) ==
    /\ pc[g] = "duck"
    /\ cached' = Replaced(batch[g])
    /\ ring' = Event(ring)
    /\ Finish(g)
    /\ UNCHANGED <<next, memory, lance, draining, env, history>>

DuckFlushFails(g) ==
    /\ pc[g] = "duck" /\ DuckFails
    /\ ring' = Event(ring)
    /\ pc' = [pc EXCEPT ![g] = "back"]
    /\ UNCHANGED <<next, memory, batch, lance, cached, draining, env, history>>

\* Mutation: the memory cap is not enforced.
PutBackUncapped(g) ==
    /\ pc[g] = "back"
    /\ buffer' = batch[g] \o buffer
    /\ Finish(g)
    /\ UNCHANGED <<next, timer, stopped, ring, lance, cached, draining, env, history>>

\* Tier 3, second critical section of flush: prepend, then drop from the front.
\* The timer is not armed.
PutBack(g) ==
    /\ pc[g] = "back"
    /\ LET all == batch[g] \o buffer
           over == IF Len(all) > MemoryCap THEN Len(all) - MemoryCap ELSE 0
       IN /\ buffer' = SubSeq(all, over + 1, Len(all))
          /\ lost' = lost \cup {all[i] : i \in 1..over}
    /\ Finish(g)
    /\ UNCHANGED <<next, timer, stopped, ring, lance, cached, draining, env,
                   skipped, doubtful>>

-----------------------------------------------------------------------------
(* drainCachedLogs: by runLogDrain's ticker and, after a reconnect, by the *)
(* health probe.  The server's entries have no created_at, so ORDER BY     *)
(* leaves open which ones LIMIT takes.                                     *)

DrainRead(d) ==
    /\ drain[d] = "idle" /\ cached # {}
    /\ \E E \in SUBSET cached :
          /\ Cardinality(E) = IF Cardinality(cached) < BatchSize
                              THEN Cardinality(cached) ELSE BatchSize
          /\ hand' = [hand EXCEPT ![d] = E]
    /\ drain' = [drain EXCEPT ![d] = "insert"]
    /\ UNCHANGED <<next, memory, flushing, ring, lance, cached, env, history>>

Rest(d) ==
    /\ drain' = [drain EXCEPT ![d] = "idle"]
    /\ hand' = [hand EXCEPT ![d] = {}]

DrainInsert(d) ==
    /\ drain[d] = "insert"
    /\ \/ /\ Written(hand[d]) \/ Skipped(hand[d])
          /\ drain' = [drain EXCEPT ![d] = "delete"]
          /\ UNCHANGED hand
       \/ NotWritten(hand[d]) /\ Rest(d)
    /\ UNCHANGED <<next, memory, flushing, ring, cached, env, lost>>

\* Mutation: the table is emptied.
DrainDeleteAll(d) ==
    /\ drain[d] = "delete"
    /\ cached' = {}
    /\ ring' = Event(ring)
    /\ Rest(d)
    /\ UNCHANGED <<next, memory, flushing, lance, env, history>>

\* deleteLogs: by id, so an anonymous entry takes with it the one that has
\* replaced it meanwhile
DrainDelete(d) ==
    /\ drain[d] = "delete"
    /\ \/ /\ cached' = {n \in cached : Id(n) \notin Ids(hand[d])}
          /\ ring' = Event(ring)
       \/ DuckFails /\ UNCHANGED <<cached, ring>>
    /\ Rest(d)
    /\ UNCHANGED <<next, memory, flushing, lance, env, history>>

-----------------------------------------------------------------------------
(* The end of the process, by Close or a crash, and its next start: what   *)
(* was in memory is gone, cached_logs and Lance stay.                      *)

Restart ==
    /\ restarts < MaxRestarts
    /\ restarts' = restarts + 1
    /\ lost' = lost \cup InMemory
    /\ buffer' = <<>> /\ timer' = "none" /\ stopped' = FALSE
    /\ pc' = [g \in Goroutines |-> "idle"]
    /\ batch' = [g \in Goroutines |-> <<>>]
    /\ ring' = 0
    /\ drain' = [d \in Drainers |-> "idle"]
    /\ hand' = [d \in Drainers |-> {}]
    /\ UNCHANGED <<next, lance, cached, lanceUp, outages, skipped, doubtful>>

LanceDown ==
    /\ lanceUp /\ outages < MaxOutages
    /\ lanceUp' = FALSE
    /\ outages' = outages + 1
    /\ UNCHANGED <<next, memory, flushing, ring, lance, cached, draining,
                   restarts, history>>

LanceBack ==
    /\ ~lanceUp
    /\ lanceUp' = TRUE
    /\ UNCHANGED <<next, memory, flushing, ring, lance, cached, draining,
                   outages, restarts, history>>

FlushStep(g) ==
    \/ FlushTake(g) \/ FlushToLance(g) \/ DrainRing(g) \/ LanceFails(g)
    \/ FlushToDuck(g) \/ DuckFlushFails(g) \/ PutBack(g)

DrainStep(d) == DrainRead(d) \/ DrainInsert(d) \/ DrainDelete(d)

Next ==
    \/ \E w \in Writers : Add(w)
    \/ \E t \in Timers : TimerFires(t)
    \/ \E r \in Readers : Read(r)
    \/ \E g \in Goroutines : FlushStep(g)
    \/ \E d \in Drainers : DrainStep(d)
    \/ Stop \/ Restart \/ LanceDown \/ LanceBack

Spec == Init /\ [][Next]_vars

\* The timer expires, what runs goes on, the drain ticker keeps ticking,
\* outages end, and a server that is being closed ends and is started again.
Fairness ==
    /\ WF_vars(\E t \in Timers : TimerFires(t))
    /\ \A g \in Goroutines : WF_vars(FlushStep(g))
    /\ WF_vars(DrainStep("ticker"))
    /\ WF_vars(LanceBack)
    /\ WF_vars(Closing /\ Restart)

LiveSpec == Spec /\ Fairness

-----------------------------------------------------------------------------
TypeOK ==
    /\ next \in 1..MaxLogs + 1
    /\ buffer \in Seq(Entries) /\ batch \in [Goroutines -> Seq(Entries)]
    /\ timer \in {"none", "armed", "fired"} /\ stopped \in BOOLEAN
    /\ pc \in [Goroutines ->
                 {"idle", "flush", "lance", "ring", "duck", "back", "done"}]
    /\ ring \in 0..RingCap
    /\ lance \subseteq Entries /\ cached \subseteq Entries /\ lanceUp \in BOOLEAN
    /\ drain \in [Drainers -> {"idle", "insert", "delete"}]
    /\ hand \in [Drainers -> SUBSET Entries]
    /\ lost \subseteq Entries /\ skipped \subseteq Entries
    /\ doubtful \subseteq Entries
    /\ outages \in Nat /\ restarts \in Nat

Logged == 1..(next - 1)
Stored == lance \cup cached

\* Whatever overlaps or fails on the way, an entry with an id is in memory, in
\* cached_logs or in Lance, unless the cap, the end of the process or a missing
\* table accounts for it.
NothingLost ==
    \A n \in Logged \ Anonymous : n \in InMemory \cup Stored \cup lost \cup skipped

\* The buffer and the batches share no entry and repeat none.
HeldOnce ==
    /\ IsInjective(buffer)
    /\ \A g \in Goroutines :
          /\ IsInjective(batch[g])
          /\ Range(batch[g]) \cap Range(buffer) = {}
          /\ \A h \in Goroutines \ {g} : Range(batch[g]) \cap Range(batch[h]) = {}

\* No entry is in memory twice or both in memory and stored, unless Lance
\* reported an error for what it had written: overlapping flushes and
\* put-backs do not write an entry twice.
NotHeldTwice == HeldOnce /\ InMemory \cap Stored \subseteq doubtful

\* Put-backs leave at most the cap in the buffer, and adds alone fill it up to
\* the threshold, whichever of the two settings is larger; it exceeds them only
\* by entries whose writers are about to flush.
Flushing == {g \in Goroutines : pc[g] = "flush"}
Bound == IF MemoryCap < Threshold THEN Threshold - 1 ELSE MemoryCap
BufferBounded == Len(buffer) <= Bound + Cardinality(Flushing)

\* An entry with an id ends up in Lance, unless the cap, the end of the process
\* or a missing table accounts for it.
EntriesSettle ==
    \A n \in Entries \ Anonymous :
        (n < next) ~> (n \in lance \cup lost \cup skipped)
=============================================================================
