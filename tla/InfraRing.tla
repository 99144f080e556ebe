----------------------------- MODULE InfraRing ------------------------------
(***************************************************************************)
(* The ring of infrastructure events (infraRing, infra_events.go): an      *)
(* array that flushes of the log buffer write when a tier fails, and that  *)
(* a flush drains once its own insert has succeeded.  Every method holds   *)
(* the ring's mutex; a flush looks whether there are events (pending) and  *)
(* drains them in two critical sections, and several flushes run at once.  *)
(* LogPath has the tiers and counts the events; this module has the array. *)
(***************************************************************************)
EXTENDS Integers, Sequences

CONSTANTS
    Cap,       \* entries of the array, 100 in both stores
    Events,    \* what may be recorded
    Flushers,  \* flushes of the log buffer
    Nothing    \* a zero infraEvent

Slots == 0..(Cap - 1)

ASSUME RingAssumption == Cap \in Nat \ {0} /\ Nothing \notin Events

VARIABLES
    events, head, count,   \* the fields of infraRing
    stage,                  \* where each flush is: "idle", "drain" or "insert"
    entries                \* what its drain returned

ringFields == <<events, head, count>>
ringVars == <<ringFields, stage, entries>>

\* newInfraRing
RingInit ==
    /\ events = [s \in Slots |-> Nothing] /\ head = 0 /\ count = 0
    /\ stage = [f \in Flushers |-> "idle"]
    /\ entries = [f \in Flushers |-> <<>>]

-----------------------------------------------------------------------------
\* infraRing.add, by a flush whose insert failed or by a drain of cached_logs
RingAdd(e) ==
    /\ events' = [events EXCEPT ![head] = e]
    /\ head' = (head + 1) % Cap
    /\ count' = IF count < Cap THEN count + 1 ELSE count
    /\ UNCHANGED <<stage, entries>>

\* Mutation: a drain always begins at the first slot.
StartAtZero == 0

\* Of a full ring the slot written next is the oldest.
Start == IF count = Cap THEN head ELSE 0

Chronological == [i \in 1..count |-> events[(Start + i - 1) % Cap]]

\* doLogFlush: the insert succeeded, are there events?
Pending(f) ==
    /\ stage[f] = "idle" /\ count > 0
    /\ stage' = [stage EXCEPT ![f] = "drain"]
    /\ UNCHANGED <<ringFields, entries>>

\* Mutation: a drain leaves the next write position where it was.
RingDrainKeepsHead(f) ==
    /\ stage[f] = "drain"
    /\ entries' = [entries EXCEPT ![f] = Chronological]
    /\ stage' = [stage EXCEPT ![f] = IF count = 0 THEN "idle" ELSE "insert"]
    /\ count' = 0
    /\ UNCHANGED <<events, head>>

\* infraRing.drain; another flush may have been faster
RingDrain(f) ==
    /\ stage[f] = "drain"
    /\ entries' = [entries EXCEPT ![f] = Chronological]
    /\ stage' = [stage EXCEPT ![f] = IF count = 0 THEN "idle" ELSE "insert"]
    /\ head' = IF count = 0 THEN head ELSE 0
    /\ count' = 0
    /\ UNCHANGED events

\* InsertLogs: whether it fails or not, the events are not put back
Inserted(f) ==
    /\ stage[f] = "insert"
    /\ stage' = [stage EXCEPT ![f] = "idle"]
    /\ entries' = [entries EXCEPT ![f] = <<>>]
    /\ UNCHANGED ringFields

RingNext ==
    \/ \E e \in Events : RingAdd(e)
    \/ \E f \in Flushers : Pending(f) \/ RingDrain(f) \/ Inserted(f)

RingSpec == RingInit /\ [][RingNext]_ringVars

-----------------------------------------------------------------------------
RingTypeOK ==
    /\ events \in [Slots -> Events \cup {Nothing}]
    /\ head \in Slots /\ count \in 0..Cap
    /\ stage \in [Flushers -> {"idle", "drain", "insert"}]
    /\ entries \in [Flushers -> Seq(Events)]

\* A ring that is not full is filled from its first slot: what start := 0 in
\* drain relies on.
FilledFromZero == count < Cap => head = count

\* drain returns no slot that was never written.
FilledWithEvents == \A s \in Slots : s < count => events[s] \in Events

\* What a drain has returned is with the flush that called it until its insert.
HeldWhileInserting ==
    \A f \in Flushers : stage[f] # "insert" => entries[f] = <<>>

\* The invariant of the ring: infraRing.add and drain keep the array, the next
\* write position and the number of valid entries in step, across any sequence
\* of calls of any number of flushes.
RingInv ==
    RingTypeOK /\ FilledFromZero /\ FilledWithEvents /\ HeldWhileInserting

Bounded == INSTANCE EventQueue WITH queue <- Chronological, handed <- entries

\* The ring implements a bounded queue: a drain returns the newest Cap events
\* since the last drain, the oldest first, and no event goes to two flushes.
ImplementsQueue == Bounded!QueueSpec
=============================================================================
