---------------------------- MODULE SettingsStore ----------------------------
(***************************************************************************)
(* The settings of the Go server (server/db): a saved setting goes to the  *)
(* in-memory copy and cached_settings, then to pending_changes, one row a  *)
(* key; a replay UPDATEs settings.lance and empties the table; a snapshot  *)
(* reads what a reader sees and puts it in place of the in-memory copy.    *)
(*                                                                         *)
(* Grain of atomicity: one call of an offlineCache method (each holds      *)
(* oc.mu) or one UPDATE sent to Lance.  The article rows of the same table *)
(* are OfflineStore's: here they only make a replay run, fail or clear.    *)
(* want, contested and stale are history variables.                        *)
(***************************************************************************)
EXTENDS Integers

CONSTANTS
    Keys,           \* setting keys
    Values,         \* their values
    None,           \* no row, no entry
    FirstSettings,  \* settings.lance when the server first starts
    Defaults,       \* what the fetcher seeds: None for keys it does not know
    Handlers,       \* HTTP handler goroutines
    Requests,       \* what users may save: several keys at once
    ApiFlushers,    \* concurrent POST /api/flush requests
    Snapshotters,   \* snapshot goroutines (initial, periodic, after reconnect)
    BufferMayFail,  \* may a statement on the DuckDB file fail?
    MaxSaves,       \* bound on saves
    MaxOutages,     \* bound on how often Lance becomes unreachable
    MaxCrashes      \* bound on server crashes

OptValues == Values \cup {None}
Settings == [Keys -> OptValues]
NoSettings == [k \in Keys |-> None]
Flushers == {"loop", "probe"} \cup ApiFlushers

ASSUME SettingsAssumption ==
    /\ None \notin Values /\ None \notin Keys
    /\ FirstSettings \in Settings /\ Defaults \in Settings
    /\ Requests \subseteq Settings
    /\ BufferMayFail \in BOOLEAN
    /\ MaxSaves \in Nat /\ MaxOutages \in Nat /\ MaxCrashes \in Nat

VARIABLES
    lance,      \* settings.lance
    lanceUp,    \* can the data source be reached?
    isOffline,  \* offlineCache.isOffline
    memory,     \* offlineCache.settingsCache
    disk,       \* cached_settings
    pending,    \* the "setting" rows of pending_changes
    todo,       \* what each handler has still to save
    now,        \* the key it has put in memory and not in pending_changes
    pc,         \* where each replay is
    batch,      \* the rows each replay has read
    left,       \* the keys it has still to send
    reading,    \* snapshots that have read the settings and not written them
    snap,       \* what they have read
    saves, outages, crashes,
    want,       \* history: what was last saved, by key
    contested,  \* history: keys whose last save may not reach Lance
    stale       \* history: keys whose last save a reader may not see

request == <<todo, now, saves>>
replay == <<pc, batch, left>>
snapshot == <<reading, snap>>
cache == <<memory, disk>>
history == <<want, contested, stale>>
env == <<lanceUp, outages, crashes>>
vars == <<lance, isOffline, pending, request, replay, snapshot, cache, history, env>>

\* GetSetting and GetSettings online: the in-memory copy over Lance
View(k) == IF memory[k] # None THEN memory[k] ELSE lance[k]
\* Mutation: GetSettings does not overlay the in-memory copy.
SeenLanceOnly == lance
\* What a read answers: offline, the in-memory copy alone
Seen == IF isOffline \/ ~lanceUp THEN memory ELSE [k \in Keys |-> View(k)]

Replaying == \E f \in Flushers : pc[f] \in {"write", "clear"}
InFlight(k) == \E h \in Handlers : now[h] = k

Init ==
    /\ lance = FirstSettings
    /\ lanceUp = TRUE
    /\ isOffline = FALSE
    /\ memory = NoSettings
    /\ disk = NoSettings
    /\ pending = NoSettings
    /\ todo = [h \in Handlers |-> NoSettings]
    /\ now = [h \in Handlers |-> None]
    /\ pc = [f \in Flushers |-> "idle"]
    /\ batch = [f \in Flushers |-> NoSettings]
    /\ left = [f \in Flushers |-> {}]
    /\ reading = {}
    /\ snap = [s \in Snapshotters |-> NoSettings]
    /\ saves = 0 /\ outages = 0 /\ crashes = 0
    /\ want = FirstSettings
    /\ contested = {} /\ stale = {}

-----------------------------------------------------------------------------
(* Requests: PutSetting and PutSettings, key by key in map order.          *)

Save(h, q) ==
    /\ todo[h] = NoSettings /\ saves < MaxSaves
    /\ todo' = [todo EXCEPT ![h] = q]
    /\ saves' = saves + 1
    /\ UNCHANGED <<lance, isOffline, pending, now, replay, snapshot, cache,
                   history, env>>

\* updateCachedSetting; its error is dropped, and then nothing was updated
UpdateCached(h, k) ==
    /\ now[h] = None /\ todo[h][k] # None
    /\ now' = [now EXCEPT ![h] = k]
    /\ \/ /\ disk' = [disk EXCEPT ![k] = todo[h][k]]
          /\ memory' = [memory EXCEPT ![k] = todo[h][k]]
       \/ BufferMayFail /\ UNCHANGED cache
    /\ UNCHANGED <<lance, isOffline, pending, todo, saves, replay, snapshot,
                   history, env>>

\* The save of a key is over: it is what the user wants from now on
Saved(h, k, v) ==
    /\ todo' = [todo EXCEPT ![h][k] = None]
    /\ now' = [now EXCEPT ![h] = None]
    /\ want' = [want EXCEPT ![k] = v]

\* Readers may miss a save when another handler or a snapshot has replaced it
\* in memory, or a snapshot that read something else is about to
Hidden(k, v) == memory[k] # v \/ \E s \in reading : snap[s][k] # v

\* Mutation: the INSERT leaves a row of the key that is already there.
AddPendingKeepsFirst(h) ==
    /\ now[h] # None
    /\ LET k == now[h]
           v == todo[h][k]
       IN /\ pending' = [pending EXCEPT ![k] = IF @ = None THEN v ELSE @]
          /\ Saved(h, k, v)
          /\ contested' = IF Replaying \/ lance[k] = None
                          THEN contested \cup {k} ELSE contested \ {k}
          /\ stale' = IF Hidden(k, v) THEN stale \cup {k} ELSE stale \ {k}
    /\ UNCHANGED <<lance, isOffline, saves, replay, snapshot, cache, env>>

\* addPendingSettingChange: DELETE of the key's row, then INSERT.  The save may
\* not reach Lance when a replay is under way or the key has no row to UPDATE.
AddPending(h) ==
    /\ now[h] # None
    /\ LET k == now[h]
           v == todo[h][k]
       IN /\ pending' = [pending EXCEPT ![k] = v]
          /\ Saved(h, k, v)
          /\ contested' = IF Replaying \/ lance[k] = None
                          THEN contested \cup {k} ELSE contested \ {k}
          /\ stale' = IF Hidden(k, v) THEN stale \cup {k} ELSE stale \ {k}
    /\ UNCHANGED <<lance, isOffline, saves, replay, snapshot, cache, env>>

\* The DELETE fails, or the INSERT after it: the error is dropped
AddPendingFails(h) ==
    /\ BufferMayFail
    /\ now[h] # None
    /\ LET k == now[h]
       IN /\ pending' \in {pending, [pending EXCEPT ![k] = None]}
          /\ Saved(h, k, todo[h][k])
          /\ contested' = contested \cup {k}
    /\ UNCHANGED <<lance, isOffline, saves, replay, snapshot, cache, stale, env>>

-----------------------------------------------------------------------------
(* Replays.                                                                *)

Done(f) == IF f = "probe" THEN "reconnect" ELSE "idle"

\* getPendingChanges.  Whether there are article rows too is not known here:
\* with them, a replay goes on to the clear without any setting to send.
FlushRead(f) ==
    /\ pc[f] = "idle"
    /\ f = "loop" => ~isOffline
    /\ f = "probe" => isOffline /\ lanceUp
    /\ batch' = [batch EXCEPT ![f] = pending]
    /\ left' = [left EXCEPT ![f] = {k \in Keys : pending[k] # None}]
    /\ pc' = [pc EXCEPT ![f] = IF pending = NoSettings THEN "clear" ELSE "write"]
    /\ UNCHANGED <<lance, isOffline, pending, request, snapshot, cache, history, env>>

\* the health probe finds Lance again and there is no row of any kind
ProbeNothingPending ==
    /\ pc["probe"] = "idle"
    /\ isOffline /\ lanceUp
    /\ pending = NoSettings
    /\ pc' = [pc EXCEPT !["probe"] = "reconnect"]
    /\ UNCHANGED <<lance, isOffline, pending, request, batch, left, snapshot, cache,
                   history, env>>

\* PutSettingsBatch: one UPDATE for the keys with the same value, which
\* changes only the rows there are
Group(f, k) == {j \in left[f] : batch[f][j] = batch[f][k]}
\* Mutation: the group's UPDATE names a single key.
GroupOfOne(f, keys) == [j \in Keys |->
    IF lance[j] # None /\ j = (CHOOSE k \in keys : TRUE) THEN batch[f][j]
                                                        ELSE lance[j]]
AfterUpdate(f, keys) == [j \in Keys |->
    IF j \in keys /\ lance[j] # None THEN batch[f][j] ELSE lance[j]]

WriteGroup(f) ==
    /\ pc[f] = "write"
    /\ lanceUp
    /\ \E k \in left[f] :
          /\ lance' = AfterUpdate(f, Group(f, k))
          /\ left' = [left EXCEPT ![f] = @ \ Group(f, k)]
    /\ pc' = [pc EXCEPT ![f] = IF left'[f] = {} THEN "clear" ELSE "write"]
    /\ UNCHANGED <<isOffline, pending, request, batch, snapshot, cache, history, env>>

Over(f) ==
    /\ pc' = [pc EXCEPT ![f] = Done(f)]
    /\ batch' = [batch EXCEPT ![f] = NoSettings]
    /\ left' = [left EXCEPT ![f] = {}]

\* An UPDATE fails, of the articles before the settings or of the settings, and
\* may have reached Lance all the same; or the DELETE fails.
ReplayFails(f) ==
    /\ \/ /\ pc[f] = "write" /\ ~lanceUp
          /\ \/ lance' = lance
             \/ \E k \in left[f] : lance' = AfterUpdate(f, Group(f, k))
       \/ /\ pc[f] = "clear"
          /\ BufferMayFail \/ (~lanceUp /\ batch[f] = NoSettings)
          /\ lance' = lance
    /\ Over(f)
    /\ UNCHANGED <<isOffline, pending, request, snapshot, cache, history, env>>

\* clearPendingChanges: DELETE FROM pending_changes
ClearPending(f) ==
    /\ pc[f] = "clear"
    /\ pending' = NoSettings
    /\ Over(f)
    /\ UNCHANGED <<lance, isOffline, request, snapshot, cache, history, env>>

\* The end of handleReconnect, whether or not the flush succeeded
Reconnect ==
    /\ pc["probe"] = "reconnect"
    /\ isOffline' = FALSE
    /\ pc' = [pc EXCEPT !["probe"] = "idle"]
    /\ UNCHANGED <<lance, pending, request, batch, left, snapshot, cache, history, env>>

-----------------------------------------------------------------------------
(* Reads that fail, and snapshots.                                         *)

GoOffline ==
    /\ ~lanceUp /\ ~isOffline
    /\ isOffline' = TRUE
    /\ UNCHANGED <<lance, pending, request, replay, snapshot, cache, history, env>>

\* Snapshot calls GetSettings ...
SnapshotRead(s) ==
    /\ s \notin reading
    /\ reading' = reading \cup {s}
    /\ snap' = [snap EXCEPT ![s] = Seen]
    /\ isOffline' = (isOffline \/ ~lanceUp)
    /\ UNCHANGED <<lance, pending, request, replay, cache, history, env>>

\* ... and snapshotSettings: cached_settings and the in-memory copy are replaced
SnapshotWrite(s) ==
    /\ s \in reading
    /\ reading' = reading \ {s}
    /\ snap' = [snap EXCEPT ![s] = NoSettings]
    /\ \/ disk' = snap[s] /\ memory' = snap[s]
       \/ BufferMayFail /\ UNCHANGED cache
    /\ UNCHANGED <<lance, isOffline, pending, request, replay, history, env>>

-----------------------------------------------------------------------------
(* The world outside the server.                                           *)

\* The fetcher starts and seeds a setting that has no row (_ensure_settings)
Seed(k) ==
    /\ lance[k] = None /\ Defaults[k] # None
    /\ lance' = [lance EXCEPT ![k] = Defaults[k]]
    /\ want' = [want EXCEPT ![k] = IF k \in contested THEN @ ELSE Defaults[k]]
    /\ UNCHANGED <<isOffline, pending, request, replay, snapshot, cache, contested,
                   stale, env>>

LanceDown ==
    /\ lanceUp /\ outages < MaxOutages
    /\ lanceUp' = FALSE
    /\ outages' = outages + 1
    /\ UNCHANGED <<lance, isOffline, pending, request, replay, snapshot, cache,
                   history, crashes>>

LanceBack ==
    /\ ~lanceUp
    /\ lanceUp' = TRUE
    /\ UNCHANGED <<lance, isOffline, pending, request, replay, snapshot, cache,
                   history, outages, crashes>>

\* The process dies and a new one opens the same DuckDB file: the in-memory
\* copy starts empty, so a save still pending is not seen until it is replayed
Crash ==
    /\ crashes < MaxCrashes
    /\ crashes' = crashes + 1
    /\ isOffline' = FALSE
    /\ memory' = NoSettings
    /\ todo' = [h \in Handlers |-> NoSettings]
    /\ now' = [h \in Handlers |-> None]
    /\ pc' = [f \in Flushers |-> "idle"]
    /\ batch' = [f \in Flushers |-> NoSettings]
    /\ left' = [f \in Flushers |-> {}]
    /\ reading' = {}
    /\ snap' = [s \in Snapshotters |-> NoSettings]
    /\ stale' = {k \in Keys : pending[k] # None}
    /\ UNCHANGED <<lance, pending, disk, saves, want, contested, lanceUp, outages>>

-----------------------------------------------------------------------------
HandlerStep(h) ==
    (\E k \in Keys : UpdateCached(h, k)) \/ AddPending(h) \/ AddPendingFails(h)
FlushStep(f) == FlushRead(f) \/ WriteGroup(f) \/ ReplayFails(f) \/ ClearPending(f)
SnapshotStep(s) == SnapshotRead(s) \/ SnapshotWrite(s)

Next ==
    \/ \E h \in Handlers : HandlerStep(h) \/ \E q \in Requests : Save(h, q)
    \/ \E f \in Flushers : FlushStep(f)
    \/ ProbeNothingPending \/ Reconnect \/ GoOffline
    \/ \E s \in Snapshotters : SnapshotStep(s)
    \/ (\E k \in Keys : Seed(k)) \/ LanceDown \/ LanceBack \/ Crash

Spec == Init /\ [][Next]_vars

\* Handlers finish, the ticker and the probe keep running, snapshots are taken
\* and finish, and outages end; nobody has to save or flush.
ScheduledFlush(f) == FlushStep(f) /\ (f \in ApiFlushers => pc[f] # "idle")
Fairness ==
    /\ \A h \in Handlers : WF_vars(HandlerStep(h))
    /\ \A f \in Flushers : WF_vars(ScheduledFlush(f))
    /\ WF_vars(ProbeNothingPending) /\ WF_vars(Reconnect)
    /\ \A s \in Snapshotters : WF_vars(SnapshotStep(s))
    /\ WF_vars(LanceBack)

LiveSpec == Spec /\ Fairness

-----------------------------------------------------------------------------
(* Properties.                                                             *)

\* Every variable holds a value of the kind the code keeps in it.
TypeOK ==
    /\ lance \in Settings /\ memory \in Settings /\ disk \in Settings
    /\ pending \in Settings /\ want \in Settings
    /\ lanceUp \in BOOLEAN /\ isOffline \in BOOLEAN
    /\ todo \in [Handlers -> Settings]
    /\ now \in [Handlers -> Keys \cup {None}]
    /\ pc \in [Flushers -> {"idle", "write", "clear", "reconnect"}]
    /\ batch \in [Flushers -> Settings]
    /\ left \in [Flushers -> SUBSET Keys]
    /\ reading \subseteq Snapshotters
    /\ snap \in [Snapshotters -> Settings]
    /\ saves \in Nat /\ outages \in Nat /\ crashes \in Nat
    /\ contested \subseteq Keys /\ stale \subseteq Keys

\* A save that was recorded, of a key with a row, with no replay under way, is
\* in Lance once it is not pending, whatever replays fail, overlap or crash.
SavedReachesLance ==
    \A k \in Keys : (k \notin contested /\ pending[k] = None) => lance[k] = want[k]

\* Online, a reader sees the last save of a key from the moment it is recorded
\* until it is in Lance and after, across replays, snapshots and settled crashes.
SavedIsSeen ==
    \A k \in Keys :
        (k \notin contested \cup stale /\ ~InFlight(k)) => View(k) = want[k]

\* In the end readers and Lance agree on the settings saved without a race.
ReadersAgreeWithLance ==
    <>[](\A k \in Keys \ (contested \cup stale) : View(k) = lance[k])
-----------------------------------------------------------------------------
(* SettingsStore as a write-behind buffer: a cell is a key.                *)

Buffer == INSTANCE WriteBehind
    WITH Cells <- Keys, Values <- OptValues, wanted <- want, kept <- lance,
         waiting <- [k \in Keys |-> {pending[k]} \ {None}],
         raced <- contested

\* Every step of saves, replays, snapshots, crashes and the fetcher is one of a
\* write-behind buffer: a replay writes no value but the last one saved, and
\* strikes off no save that Lance does not have.
ImplementsWriteBehind == Buffer!BufferSpec
=============================================================================
