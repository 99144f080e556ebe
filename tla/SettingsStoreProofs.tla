------------------------ MODULE SettingsStoreProofs -------------------------
(***************************************************************************)
(* Theorems about SettingsStore, for every set of keys, values, handlers,  *)
(* flushers and snapshotters and every bound.                              *)
(***************************************************************************)
EXTENDS SettingsStoreInv, TLAPS

USE SettingsAssumption DEF SettingsAssumption

-----------------------------------------------------------------------------
(* Type correctness.                                                       *)

LEMMA EmptyType == NoSettings \in Settings /\ \A k \in Keys : NoSettings[k] = None
BY DEF NoSettings, Settings, OptValues

LEMMA SeenType == ASSUME TypeOK PROVE Seen \in Settings
BY DEF TypeOK, Seen, View, Settings, OptValues

LEMMA InitType == Init => TypeOK
<1> SUFFICES ASSUME Init PROVE TypeOK  OBVIOUS
<1>1. /\ todo \in [Handlers -> Settings]
      /\ batch \in [Flushers -> Settings]
      /\ snap \in [Snapshotters -> Settings]
  BY EmptyType DEF Init
<1>2. QED  BY <1>1, EmptyType DEF Init, TypeOK

LEMMA HandlerType ==
    ASSUME TypeOK, NEW h \in Handlers,
           HandlerStep(h) \/ \E q \in Requests : Save(h, q)
    PROVE  TypeOK'
<1> USE DEF TypeOK, request, replay, snapshot, cache, history, env
<1>1. CASE \E q \in Requests : Save(h, q)
  BY <1>1 DEF Save
<1>2. ASSUME NEW k \in Keys, UpdateCached(h, k) PROVE TypeOK'
  <2>1. memory' \in Settings /\ disk' \in Settings
    <3>1. todo[h][k] \in OptValues  BY DEF Settings
    <3>2. QED  BY <1>2, <3>1 DEF UpdateCached, Settings
  <2>2. QED  BY <1>2, <2>1 DEF UpdateCached
<1>3. ASSUME now[h] # None, Saved(h, now[h], todo[h][now[h]])
      PROVE  /\ todo' \in [Handlers -> Settings]
             /\ now' \in [Handlers -> Keys \cup {None}]
             /\ want' \in Settings
  BY <1>3 DEF Saved, Settings, OptValues
<1>4. CASE AddPending(h)
  <2>1. pending' \in Settings  BY <1>4 DEF AddPending, Settings
  <2>2. contested' \subseteq Keys /\ stale' \subseteq Keys
    BY <1>4 DEF AddPending
  <2>3. QED  BY <1>4, <1>3, <2>1, <2>2 DEF AddPending
<1>5. CASE AddPendingFails(h)
  <2>1. pending' \in Settings  BY <1>5 DEF AddPendingFails, Settings, OptValues
  <2>2. contested' \subseteq Keys  BY <1>5 DEF AddPendingFails
  <2>3. QED  BY <1>5, <1>3, <2>1, <2>2 DEF AddPendingFails
<1>6. QED  BY <1>1, <1>2, <1>4, <1>5 DEF HandlerStep

LEMMA FlushType ==
    ASSUME TypeOK, NEW f \in Flushers, FlushStep(f)
    PROVE  TypeOK'
<1> USE DEF TypeOK, request, replay, snapshot, cache, history, env
<1>1. \A keys : AfterUpdate(f, keys) \in Settings
  BY DEF AfterUpdate, Settings
<1>2. ASSUME Over(f)
      PROVE  /\ pc' \in [Flushers -> {"idle", "write", "clear", "reconnect"}]
             /\ batch' \in [Flushers -> Settings]
             /\ left' \in [Flushers -> SUBSET Keys]
  BY <1>2, EmptyType DEF Over, Done
<1>3. CASE FlushRead(f)  BY <1>3 DEF FlushRead
<1>4. CASE WriteGroup(f)
  BY <1>4, <1>1 DEF WriteGroup
<1>5. CASE ReplayFails(f)
  <2>1. lance' \in Settings  BY <1>5, <1>1 DEF ReplayFails
  <2>2. QED  BY <1>5, <1>2, <2>1 DEF ReplayFails
<1>6. CASE ClearPending(f)  BY <1>6, <1>2, EmptyType DEF ClearPending
<1>7. QED  BY <1>3, <1>4, <1>5, <1>6 DEF FlushStep

LEMMA OtherType ==
    ASSUME TypeOK,
           \/ ProbeNothingPending \/ Reconnect \/ GoOffline
           \/ \E s \in Snapshotters : SnapshotStep(s)
           \/ (\E k \in Keys : Seed(k)) \/ LanceDown \/ LanceBack \/ Crash
    PROVE  TypeOK'
<1> USE DEF TypeOK, request, replay, snapshot, cache, history, env
<1>1. CASE ProbeNothingPending  BY <1>1 DEF ProbeNothingPending
<1>2. CASE Reconnect  BY <1>2 DEF Reconnect
<1>3. CASE GoOffline  BY <1>3 DEF GoOffline
<1>4. ASSUME NEW s \in Snapshotters, SnapshotStep(s) PROVE TypeOK'
  <2>1. CASE SnapshotRead(s)
    <3>1. snap' \in [Snapshotters -> Settings]  BY <2>1, SeenType DEF SnapshotRead
    <3>2. isOffline' \in BOOLEAN  BY <2>1 DEF SnapshotRead
    <3>3. QED  BY <2>1, <3>1, <3>2 DEF SnapshotRead
  <2>2. CASE SnapshotWrite(s)
    <3>1. memory' \in Settings /\ disk' \in Settings  BY <2>2 DEF SnapshotWrite
    <3>2. QED  BY <2>2, <3>1, EmptyType DEF SnapshotWrite
  <2>3. QED  BY <1>4, <2>1, <2>2 DEF SnapshotStep
<1>5. ASSUME NEW k \in Keys, Seed(k) PROVE TypeOK'
  <2>1. lance' \in Settings /\ want' \in Settings
    BY <1>5 DEF Seed, Settings
  <2>2. QED  BY <1>5, <2>1 DEF Seed
<1>6. CASE LanceDown
  <2>1. outages' \in Nat  BY <1>6 DEF LanceDown
  <2>2. lanceUp' \in BOOLEAN  BY <1>6 DEF LanceDown
  <2>3. QED  BY <1>6, <2>1, <2>2 DEF LanceDown
<1>7. CASE LanceBack  BY <1>7 DEF LanceBack
<1>8. CASE Crash
  <2>1. /\ todo' \in [Handlers -> Settings]
        /\ batch' \in [Flushers -> Settings]
        /\ snap' \in [Snapshotters -> Settings]
    BY <1>8, EmptyType DEF Crash
  <2>2. crashes' \in Nat /\ now' \in [Handlers -> Keys \cup {None}]
    BY <1>8 DEF Crash
  <2>3. /\ pc' \in [Flushers -> {"idle", "write", "clear", "reconnect"}]
        /\ left' \in [Flushers -> SUBSET Keys]
    BY <1>8 DEF Crash
  <2>4. QED  BY <1>8, <2>1, <2>2, <2>3, EmptyType DEF Crash
<1>9. QED  BY <1>1, <1>2, <1>3, <1>4, <1>5, <1>6, <1>7, <1>8

LEMMA NextType == ASSUME TypeOK, [Next]_vars PROVE TypeOK'
<1>1. CASE Next  BY <1>1, HandlerType, FlushType, OtherType DEF Next
<1>2. CASE UNCHANGED vars
  BY <1>2 DEF vars, TypeOK, request, replay, snapshot, cache, history, env
<1>3. QED  BY <1>1, <1>2

-----------------------------------------------------------------------------
(* The inductive invariant.                                                *)

LEMMA InitInv == Init => SInv
<1> SUFFICES ASSUME Init PROVE SInv  OBVIOUS
<1>1. TypeOK  BY InitType
<1>2. \A f \in Flushers : ~Active(f) /\ left[f] = {}  BY DEF Init, Active
<1>3. \A k \in Keys : /\ pending[k] = None /\ memory[k] = None
                      /\ lance[k] = want[k]
  BY EmptyType DEF Init
<1>4. HandlersHold /\ reading = {}  BY DEF Init, HandlersHold
<1>5. QED
  BY <1>1, <1>2, <1>3, <1>4
  DEF SInv, PendingIsWanted, BatchCoversPending, WorkLeft, ReadersCurrent,
      SnapshotsCurrent, Current, Active

\* Replays touch Lance and pending_changes alone, so what readers see is kept
\* as long as a pending row only goes away.
LEMMA ReadersFrame ==
    ASSUME SInv, UNCHANGED <<memory, now, reading, snap, history>>,
           \A k \in Keys : pending'[k] \in {pending[k], None}
    PROVE  ReadersCurrent' /\ SnapshotsCurrent'
<1> USE DEF SInv, ReadersCurrent, SnapshotsCurrent, Current, Clean, InFlight, history
<1>1. ReadersCurrent'  OBVIOUS
<1>2. SnapshotsCurrent'  OBVIOUS
<1>3. QED  BY <1>1, <1>2

\* A step of the handlers' or snapshots' that leaves replays and Lance alone
LEMMA ReplayFrame ==
    ASSUME SInv, UNCHANGED <<lance, pending, replay, want, contested>>
    PROVE  PendingIsWanted' /\ BatchCoversPending' /\ WorkLeft'
<1> USE DEF SInv, PendingIsWanted, BatchCoversPending, WorkLeft, Clean, Active, replay
<1>1. PendingIsWanted'  OBVIOUS
<1>2. BatchCoversPending'  OBVIOUS
<1>3. WorkLeft'  OBVIOUS
<1>4. QED  BY <1>1, <1>2, <1>3

LEMMA StartInv ==
    ASSUME SInv, NEW h \in Handlers,
           \/ \E q \in Requests : Save(h, q)
           \/ \E k \in Keys : UpdateCached(h, k)
    PROVE  SInv'
<1>1. TypeOK'  BY HandlerType DEF HandlerStep, SInv
<1>2. PendingIsWanted' /\ BatchCoversPending' /\ WorkLeft'
  BY ReplayFrame DEF Save, UpdateCached, history
<1>3. ASSUME NEW q \in Requests, Save(h, q)
      PROVE  HandlersHold' /\ ReadersCurrent' /\ SnapshotsCurrent'
  <2>1. now[h] = None
    BY <1>3, EmptyType DEF Save, SInv, HandlersHold, TypeOK
  <2>2. HandlersHold'
    BY <1>3, <2>1 DEF Save, SInv, HandlersHold, TypeOK
  <2>3. QED
    BY <1>3, <2>2, ReadersFrame DEF Save, snapshot, cache
<1>4. ASSUME NEW k \in Keys, UpdateCached(h, k)
      PROVE  HandlersHold' /\ ReadersCurrent' /\ SnapshotsCurrent'
  <2>1. HandlersHold'
    BY <1>4 DEF UpdateCached, SInv, HandlersHold, TypeOK
  <2>2. InFlight(k)' /\ \A j \in Keys : InFlight(j) => InFlight(j)'
    BY <1>4 DEF UpdateCached, InFlight, SInv, TypeOK
  <2>3. \A j \in Keys \ {k} : memory'[j] = memory[j]
    BY <1>4 DEF UpdateCached, cache, SInv, TypeOK, Settings
  <2>4. UNCHANGED <<pending, reading, snap, history>>
    BY <1>4 DEF UpdateCached, snapshot
  <2>5. QED
    BY <2>1, <2>2, <2>3, <2>4
    DEF SInv, ReadersCurrent, SnapshotsCurrent, Current, Clean, history
<1>5. QED  BY <1>1, <1>2, <1>3, <1>4 DEF SInv

LEMMA AddPendingInv ==
    ASSUME SInv, NEW h \in Handlers, AddPending(h) \/ AddPendingFails(h)
    PROVE  SInv'
<1>1. PICK k \in Keys, v \in Values : k = now[h] /\ v = todo[h][k] /\ v # None
  <2>1. now[h] \in Keys  BY DEF AddPending, AddPendingFails, SInv, TypeOK
  <2>2. todo[h][now[h]] # None
    BY DEF AddPending, AddPendingFails, SInv, HandlersHold
  <2>3. todo[h][now[h]] \in OptValues  BY <2>1 DEF SInv, TypeOK, Settings
  <2>4. QED  BY <2>1, <2>2, <2>3 DEF OptValues
<1>2. TypeOK'  BY HandlerType DEF HandlerStep, SInv
<1>3. UNCHANGED <<lance, memory, pc, batch, left, reading, snap>>
  BY DEF AddPending, AddPendingFails, replay, snapshot, cache
<1>4. \A j \in Keys \ {k} : /\ pending'[j] = pending[j] /\ want'[j] = want[j]
                            /\ j \in contested' <=> j \in contested
                            /\ j \in stale' <=> j \in stale
  BY <1>1 DEF AddPending, AddPendingFails, Saved, SInv, TypeOK, Settings
<1>5. \A j \in Keys \ {k} : InFlight(j) => InFlight(j)'
  BY <1>1 DEF AddPending, AddPendingFails, Saved, InFlight, SInv, TypeOK
<1>6. Clean(k)' => /\ pending'[k] = v /\ want'[k] = v /\ lance[k] # None
                   /\ ~Replaying
                   /\ k \notin stale' => ~Hidden(k, v)
  BY <1>1 DEF AddPending, AddPendingFails, Saved, Clean, SInv, TypeOK, Settings
<1>7. HandlersHold'
  <2>1. now'[h] = None /\ \A g \in Handlers \ {h} : /\ now'[g] = now[g]
                                                   /\ todo'[g] = todo[g]
    BY DEF AddPending, AddPendingFails, Saved, SInv, TypeOK
  <2>2. QED  BY <2>1 DEF SInv, HandlersHold
<1>8. PendingIsWanted' /\ BatchCoversPending' /\ WorkLeft'
  <2>1. PendingIsWanted'
    BY <1>1, <1>3, <1>4, <1>6 DEF SInv, PendingIsWanted, Clean
  <2>2. BatchCoversPending'
    <3> SUFFICES ASSUME NEW f \in Flushers, NEW j \in Keys, Active(f), Clean(j)'
                 PROVE  /\ pending'[j] # None => batch[f][j] = pending'[j]
                        /\ batch[f][j] # None => batch[f][j] = want'[j] /\ lance[j] # None
                        /\ (batch[f][j] # None /\ j \notin left[f])
                              => lance[j] = batch[f][j]
      BY <1>3 DEF BatchCoversPending, Active
    <3>1. j # k  BY <1>6 DEF Active, Replaying
    <3>2. QED  BY <3>1, <1>4 DEF SInv, BatchCoversPending, Clean
  <2>3. WorkLeft'  BY <1>3 DEF SInv, WorkLeft, Active
  <2>4. QED  BY <2>1, <2>2, <2>3
<1>9. ReadersCurrent' /\ SnapshotsCurrent'
  <2>1. ReadersCurrent'
    BY <1>3, <1>4, <1>5, <1>6 DEF SInv, ReadersCurrent, Current, Clean, Hidden
  <2>2. SnapshotsCurrent'
    BY <1>3, <1>4, <1>5, <1>6 DEF SInv, SnapshotsCurrent, Current, Clean, Hidden
  <2>3. QED  BY <2>1, <2>2
<1>10. QED  BY <1>2, <1>7, <1>8, <1>9 DEF SInv

LEMMA FlushInv ==
    ASSUME SInv, NEW f \in Flushers, FlushStep(f)
    PROVE  SInv'
<1>1. TypeOK'  BY FlushType DEF SInv
<1>2. HandlersHold'
  BY DEF FlushStep, FlushRead, WriteGroup, ReplayFails, ClearPending, request,
         SInv, HandlersHold
<1>3. ReadersCurrent' /\ SnapshotsCurrent'
  <2>1. UNCHANGED <<memory, now, reading, snap, history>>
    BY DEF FlushStep, FlushRead, WriteGroup, ReplayFails, ClearPending, request,
           snapshot, cache
  <2>2. \A k \in Keys : pending'[k] \in {pending[k], None}
    BY EmptyType DEF FlushStep, FlushRead, WriteGroup, ReplayFails, ClearPending
  <2>3. QED  BY <2>1, <2>2, ReadersFrame
<1>4. UNCHANGED <<want, contested>>
  BY DEF FlushStep, FlushRead, WriteGroup, ReplayFails, ClearPending, history
<1>5. ASSUME Over(f)
      PROVE  /\ ~Active(f)' /\ left'[f] = {}
             /\ \A g \in Flushers \ {f} : /\ pc'[g] = pc[g] /\ batch'[g] = batch[g]
                                         /\ left'[g] = left[g]
  BY <1>5 DEF Over, Active, Done, SInv, TypeOK
\* An UPDATE writes batch values, which are the wanted ones on clean keys.
<1>6. ASSUME NEW keys, keys \subseteq left[f], pc[f] = "write"
      PROVE  \A j \in Keys :
               /\ AfterUpdate(f, keys)[j] = None => lance[j] = None
               /\ j \notin keys => AfterUpdate(f, keys)[j] = lance[j]
               /\ (j \in keys /\ Clean(j))
                     => /\ AfterUpdate(f, keys)[j] = batch[f][j]
                        /\ batch[f][j] = want[j] /\ lance[j] # None
  BY <1>6 DEF AfterUpdate, SInv, BatchCoversPending, WorkLeft, Active
<1>7. ASSUME NEW keys, keys \subseteq left[f], pc[f] = "write",
             lance' = AfterUpdate(f, keys), UNCHANGED pending
      PROVE  /\ PendingIsWanted'
             /\ \A g \in Flushers, k \in Keys : (Active(g) /\ Clean(k)) =>
                  /\ pending'[k] # None => batch[g][k] = pending'[k]
                  /\ batch[g][k] # None => batch[g][k] = want'[k] /\ lance'[k] # None
                  /\ (batch[g][k] # None /\ k \notin left[g])
                        => lance'[k] = batch[g][k]
                  /\ (g = f /\ k \in keys) => lance'[k] = batch[g][k]
  <2>1. PendingIsWanted'
    BY <1>4, <1>6, <1>7 DEF SInv, PendingIsWanted, Clean
  <2>2. QED  BY <2>1, <1>4, <1>6, <1>7 DEF SInv, BatchCoversPending, Clean
<1>8. CASE FlushRead(f)
  <2>1. PendingIsWanted'
    BY <1>4, <1>8 DEF FlushRead, SInv, PendingIsWanted, Clean
  <2>2. /\ batch'[f] = pending /\ left'[f] = {k \in Keys : pending[k] # None}
        /\ pc'[f] = "clear" => left'[f] = {}
        /\ pc'[f] \in {"clear", "write"}
        /\ \A g \in Flushers \ {f} : /\ pc'[g] = pc[g] /\ batch'[g] = batch[g]
                                    /\ left'[g] = left[g]
    BY <1>8, EmptyType DEF FlushRead, SInv, TypeOK
  <2>3. UNCHANGED <<lance, pending>>  BY <1>8 DEF FlushRead
  <2>4. BatchCoversPending'
    BY <1>4, <2>2, <2>3 DEF SInv, BatchCoversPending, PendingIsWanted, Clean, Active
  <2>5. WorkLeft'  BY <2>2 DEF SInv, WorkLeft, Active
  <2>6. QED  BY <1>1, <1>2, <1>3, <2>1, <2>4, <2>5 DEF SInv
<1>9. CASE WriteGroup(f)
  <2>1. PICK k \in left[f] : /\ lance' = AfterUpdate(f, Group(f, k))
                             /\ left' = [left EXCEPT ![f] = @ \ Group(f, k)]
    BY <1>9 DEF WriteGroup
  <2>2. Group(f, k) \subseteq left[f] /\ pc[f] = "write" /\ UNCHANGED <<batch, pending>>
    BY <1>9 DEF WriteGroup, Group
  <2>3. /\ left'[f] = left[f] \ Group(f, k)
        /\ pc'[f] \in {"write", "clear"}
        /\ pc'[f] = "clear" => left'[f] = {}
        /\ \A g \in Flushers \ {f} : pc'[g] = pc[g] /\ left'[g] = left[g]
    BY <1>9, <2>1 DEF WriteGroup, SInv, TypeOK
  <2>4. BatchCoversPending'
    <3> SUFFICES ASSUME NEW g \in Flushers, NEW j \in Keys, Active(g)', Clean(j)'
                 PROVE  /\ pending'[j] # None => batch[g][j] = pending'[j]
                        /\ batch[g][j] # None => batch[g][j] = want'[j] /\ lance'[j] # None
                        /\ (batch[g][j] # None /\ j \notin left'[g])
                              => lance'[j] = batch[g][j]
      BY <2>2 DEF BatchCoversPending
    <3>1. Active(g) /\ Clean(j)  BY <1>4, <2>2, <2>3 DEF Active, Clean
    <3>2. j \notin left'[g] => j \notin left[g] \/ (g = f /\ j \in Group(f, k))
      BY <2>3
    <3>3. /\ pending'[j] # None => batch[g][j] = pending'[j]
          /\ batch[g][j] # None => batch[g][j] = want'[j] /\ lance'[j] # None
          /\ (batch[g][j] # None /\ j \notin left[g]) => lance'[j] = batch[g][j]
          /\ (g = f /\ j \in Group(f, k)) => lance'[j] = batch[g][j]
      BY <3>1, <1>7, <2>1, <2>2
    <3>4. QED  BY <3>2, <3>3
  <2>5. WorkLeft'
    <3> SUFFICES ASSUME NEW g \in Flushers
                 PROVE  /\ left'[g] \subseteq {j \in Keys : batch[g][j] # None}
                        /\ pc'[g] = "clear" => left'[g] = {}
                        /\ ~Active(g)' => left'[g] = {}
      BY <2>2 DEF WorkLeft
    <3>1. CASE g = f
      <4>1. left[f] \subseteq {j \in Keys : batch[f][j] # None}
        BY DEF SInv, WorkLeft
      <4>2. Active(f)'  BY <2>3 DEF Active
      <4>3. left'[f] \subseteq left[f]  BY <2>3
      <4>4. QED  BY <3>1, <4>1, <4>2, <4>3, <2>3
    <3>2. CASE g # f  BY <3>2, <2>3 DEF SInv, WorkLeft, Active
    <3>3. QED  BY <3>1, <3>2
  <2>6. QED  BY <1>1, <1>2, <1>3, <1>7, <2>1, <2>2, <2>4, <2>5 DEF SInv
<1>10. CASE ReplayFails(f)
  <2>1. Over(f) /\ UNCHANGED pending  BY <1>10 DEF ReplayFails
  <2>2. CASE UNCHANGED lance
    <3>1. PendingIsWanted'
      BY <1>4, <2>1, <2>2 DEF SInv, PendingIsWanted, Clean
    <3>2. BatchCoversPending'
      BY <1>4, <1>5, <2>1, <2>2 DEF SInv, BatchCoversPending, Clean, Active
    <3>3. WorkLeft'  BY <1>5, <2>1 DEF SInv, WorkLeft, Active
    <3>4. QED  BY <1>1, <1>2, <1>3, <3>1, <3>2, <3>3 DEF SInv
  <2>3. CASE lance' # lance
    <3>1. PICK k \in left[f] : lance' = AfterUpdate(f, Group(f, k)) /\ pc[f] = "write"
      BY <1>10, <2>3 DEF ReplayFails
    <3>2. Group(f, k) \subseteq left[f]  BY DEF Group
    <3>3. BatchCoversPending'
      BY <1>4, <1>5, <1>7, <2>1, <3>1, <3>2 DEF BatchCoversPending, Clean, Active
    <3>4. WorkLeft'  BY <1>5, <2>1 DEF SInv, WorkLeft, Active
    <3>5. QED  BY <1>1, <1>2, <1>3, <1>7, <2>1, <3>1, <3>2, <3>3, <3>4 DEF SInv
  <2>4. QED  BY <2>2, <2>3
<1>11. CASE ClearPending(f)
  <2>1. Over(f) /\ UNCHANGED lance /\ \A k \in Keys : pending'[k] = None
    BY <1>11, EmptyType DEF ClearPending
  <2>2. PendingIsWanted'
    <3> SUFFICES ASSUME NEW k \in Keys, Clean(k) PROVE lance[k] = want[k]
      BY <1>4, <2>1 DEF PendingIsWanted, Clean
    <3>1. Active(f) /\ left[f] = {}
      BY <1>11 DEF ClearPending, Active, SInv, WorkLeft
    <3>2. QED  BY <3>1 DEF SInv, PendingIsWanted, BatchCoversPending
  <2>3. BatchCoversPending'
    BY <1>4, <1>5, <2>1 DEF SInv, BatchCoversPending, Clean, Active
  <2>4. WorkLeft'  BY <1>5, <2>1 DEF SInv, WorkLeft, Active
  <2>5. QED  BY <1>1, <1>2, <1>3, <2>2, <2>3, <2>4 DEF SInv
<1>12. QED  BY <1>8, <1>9, <1>10, <1>11 DEF FlushStep

LEMMA SnapshotInv ==
    ASSUME SInv, NEW s \in Snapshotters, SnapshotStep(s)
    PROVE  SInv'
<1>1. TypeOK'  BY OtherType DEF SInv
<1>2. PendingIsWanted' /\ BatchCoversPending' /\ WorkLeft'
  BY ReplayFrame DEF SnapshotStep, SnapshotRead, SnapshotWrite, history
<1>3. HandlersHold'
  BY DEF SnapshotStep, SnapshotRead, SnapshotWrite, request, SInv, HandlersHold
<1>4. UNCHANGED <<pending, now, want, contested, stale>>
  BY DEF SnapshotStep, SnapshotRead, SnapshotWrite, request, history
<1>5. CASE SnapshotRead(s)
  <2>1. ReadersCurrent'
    BY <1>4, <1>5 DEF SnapshotRead, cache, SInv, ReadersCurrent, Current, Clean,
                      InFlight
  <2>2. ASSUME NEW k \in Keys, Clean(k), k \notin stale, ~InFlight(k)
        PROVE  Current(Seen[k], k)
    <3>1. Current(memory[k], k)  BY <2>2 DEF SInv, ReadersCurrent
    <3>2. memory[k] = None => lance[k] = want[k] \/ want[k] = None
      BY <2>2, <3>1 DEF Current, SInv, PendingIsWanted
    <3>3. Seen[k] = memory[k] \/ Seen[k] = View(k)  BY DEF Seen
    <3>4. memory[k] = None /\ want[k] = None => pending[k] = None
      BY <2>2 DEF SInv, PendingIsWanted
    <3>5. memory[k] = None => lance[k] = want[k]
      BY <2>2, <3>2, <3>4 DEF SInv, PendingIsWanted
    <3>6. QED  BY <3>1, <3>3, <3>5 DEF View, Current
  <2>3. snap'[s] = Seen /\ \A r \in Snapshotters \ {s} : snap'[r] = snap[r]
    BY <1>5 DEF SnapshotRead, SInv, TypeOK
  <2>4. SnapshotsCurrent'
    BY <1>4, <1>5, <2>2, <2>3 DEF SnapshotRead, SInv, SnapshotsCurrent, Current,
                                  Clean, InFlight
  <2>5. QED  BY <1>1, <1>2, <1>3, <2>1, <2>4 DEF SInv
<1>6. CASE SnapshotWrite(s)
  <2>1. s \in reading /\ (memory' = snap[s] \/ memory' = memory)
    BY <1>6 DEF SnapshotWrite, cache
  <2>2. ReadersCurrent'
    BY <1>4, <2>1 DEF SInv, ReadersCurrent, SnapshotsCurrent, Current, Clean, InFlight
  <2>3. \A r \in reading' : r \in reading /\ r # s /\ (r \in Snapshotters => snap'[r] = snap[r])
    BY <1>6 DEF SnapshotWrite, SInv, TypeOK
  <2>4. SnapshotsCurrent'
    BY <1>4, <2>3 DEF SInv, SnapshotsCurrent, Current, Clean, InFlight
  <2>5. QED  BY <1>1, <1>2, <1>3, <2>2, <2>4 DEF SInv
<1>7. QED  BY <1>5, <1>6 DEF SnapshotStep

LEMMA SeedInv ==
    ASSUME SInv, NEW k \in Keys, Seed(k)
    PROVE  SInv'
<1>1. TypeOK'  BY OtherType DEF SInv
<1>2. UNCHANGED <<pending, memory, todo, now, pc, batch, left, reading, snap,
                  contested, stale>>
  BY DEF Seed, request, replay, snapshot, cache
<1>3. \A j \in Keys \ {k} : lance'[j] = lance[j] /\ want'[j] = want[j]
  BY DEF Seed, SInv, TypeOK, Settings
<1>4. Clean(k) => /\ lance'[k] = want'[k] /\ lance'[k] # None
                  /\ pending[k] = None /\ want[k] = None
                  /\ \A f \in Flushers : Active(f) => batch[f][k] = None
  BY DEF Seed, Clean, SInv, TypeOK, Settings, PendingIsWanted, BatchCoversPending
<1>5. HandlersHold' /\ WorkLeft'
  BY <1>2 DEF SInv, HandlersHold, WorkLeft, Active
<1>6. PendingIsWanted'
  BY <1>2, <1>3, <1>4 DEF SInv, PendingIsWanted, Clean
<1>7. BatchCoversPending'
  BY <1>2, <1>3, <1>4 DEF SInv, BatchCoversPending, Clean, Active
<1>8. \A v : \A j \in Keys : (Clean(j) /\ Current(v, j)) => Current(v, j)'
  BY <1>2, <1>3, <1>4 DEF Current
<1>9. ReadersCurrent' /\ SnapshotsCurrent'
  BY <1>2, <1>8 DEF SInv, ReadersCurrent, SnapshotsCurrent, Clean, InFlight
<1>10. QED  BY <1>1, <1>5, <1>6, <1>7, <1>9 DEF SInv

LEMMA CrashInv == ASSUME SInv, Crash PROVE SInv'
<1>1. TypeOK'  BY OtherType DEF SInv
<1>2. \A f \in Flushers : ~Active(f)' /\ left'[f] = {}  BY DEF Crash, Active
<1>3. UNCHANGED <<lance, pending, want, contested>>  BY DEF Crash
<1>4. PendingIsWanted' /\ BatchCoversPending' /\ WorkLeft'
  BY <1>2, <1>3 DEF SInv, PendingIsWanted, BatchCoversPending, WorkLeft, Clean, Active
<1>5. HandlersHold'  BY DEF Crash, HandlersHold
<1>6. \A k \in Keys : memory'[k] = None /\ (k \notin stale' => pending[k] = None)
  BY EmptyType DEF Crash
<1>7. ReadersCurrent' /\ SnapshotsCurrent'
  BY <1>3, <1>6 DEF Crash, ReadersCurrent, SnapshotsCurrent, Current
<1>8. QED  BY <1>1, <1>4, <1>5, <1>7 DEF SInv

LEMMA NextInv == SInv /\ [Next]_vars => SInv'
<1> SUFFICES ASSUME SInv, [Next]_vars PROVE SInv'  OBVIOUS
<1>1. CASE \E h \in Handlers : HandlerStep(h) \/ \E q \in Requests : Save(h, q)
  BY <1>1, StartInv, AddPendingInv DEF HandlerStep
<1>2. CASE \E f \in Flushers : FlushStep(f)  BY <1>2, FlushInv
<1>3. CASE ProbeNothingPending \/ Reconnect
  <2>1. TypeOK'  BY <1>3, OtherType DEF SInv
  <2>2. UNCHANGED <<lance, pending, todo, now, batch, left, memory, reading, snap,
                    want, contested, stale>>
    BY <1>3 DEF ProbeNothingPending, Reconnect, request, snapshot, cache, history
  <2>3. \A f \in Flushers : Active(f)' => Active(f)
    BY <1>3 DEF ProbeNothingPending, Reconnect, Active, SInv, TypeOK
  <2>4. \A f \in Flushers : (left[f] # {} => Active(f)') /\ (pc'[f] = "clear" => pc[f] = "clear")
    BY <1>3 DEF ProbeNothingPending, Reconnect, Active, SInv, TypeOK, WorkLeft
  <2>5. HandlersHold' /\ PendingIsWanted' /\ ReadersCurrent' /\ SnapshotsCurrent'
    BY <2>2 DEF SInv, HandlersHold, PendingIsWanted, ReadersCurrent,
                SnapshotsCurrent, Current, Clean, InFlight
  <2>6. BatchCoversPending'
    BY <2>2, <2>3 DEF SInv, BatchCoversPending, Clean
  <2>7. WorkLeft'  BY <2>2, <2>3, <2>4 DEF SInv, WorkLeft
  <2>8. QED  BY <2>1, <2>5, <2>6, <2>7 DEF SInv
<1>4. CASE GoOffline \/ LanceDown \/ LanceBack \/ UNCHANGED vars
  <2>1. TypeOK'  BY <1>4, NextType DEF SInv
  <2>2. UNCHANGED <<lance, pending, todo, now, pc, batch, left, memory, reading, snap,
                    want, contested, stale>>
    BY <1>4 DEF GoOffline, LanceDown, LanceBack, vars, request, replay, snapshot,
                cache, history
  <2>3. QED
    BY <2>1, <2>2 DEF SInv, HandlersHold, PendingIsWanted, BatchCoversPending,
       WorkLeft, ReadersCurrent, SnapshotsCurrent, Current, Clean, Active, InFlight
<1>5. CASE \E s \in Snapshotters : SnapshotStep(s)  BY <1>5, SnapshotInv
<1>6. CASE (\E k \in Keys : Seed(k)) \/ Crash  BY <1>6, SeedInv, CrashInv
<1>7. QED  BY <1>1, <1>2, <1>3, <1>4, <1>5, <1>6 DEF Next

-----------------------------------------------------------------------------
(* Theorems.                                                               *)

\* SInv holds in every reachable state, for every instance: key by key, memory,
\* snapshots, pending rows, replays and Lance add up to the last save.
THEOREM SettingsInvariance == Spec => []SInv
<1>1. QED  BY InitInv, NextInv, PTL DEF Spec

\* SavedReachesLance: a recorded save is not lost between pending_changes and
\* settings.lance.
THEOREM SettingsSettled == Spec => []SavedReachesLance
<1>1. SInv => SavedReachesLance
  BY DEF SInv, PendingIsWanted, SavedReachesLance, Clean
<1>2. QED  BY <1>1, SettingsInvariance, PTL

\* SavedIsSeen: online, readers see the last save while it is pending and after.
THEOREM SettingsSeen == Spec => []SavedIsSeen
<1>1. ASSUME SInv PROVE SavedIsSeen
  <2> SUFFICES ASSUME NEW k \in Keys, k \notin contested \cup stale, ~InFlight(k)
               PROVE  View(k) = want[k]
    BY DEF SavedIsSeen
  <2>1. Clean(k) /\ Current(memory[k], k)
    BY <1>1 DEF Clean, SInv, ReadersCurrent
  <2>2. pending[k] = None => lance[k] = want[k]
    BY <1>1, <2>1 DEF SInv, PendingIsWanted
  <2>3. want[k] = None => pending[k] = None
    BY <1>1, <2>1 DEF SInv, PendingIsWanted
  <2>4. QED  BY <2>1, <2>2, <2>3 DEF Current, View
<1>2. QED  BY <1>1, SettingsInvariance, PTL

-----------------------------------------------------------------------------
(* The write-behind buffer.                                                *)

\* A save is asked for when its row is recorded.
LEMMA SavesAsk ==
    ASSUME SInv, NEW h \in Handlers, AddPending(h) \/ AddPendingFails(h)
    PROVE  Buffer!Ask
<1>1. now[h] \in Keys /\ UNCHANGED lance
  BY DEF AddPending, AddPendingFails, SInv, TypeOK
<1>2. todo[h][now[h]] # None
  BY DEF AddPending, AddPendingFails, SInv, HandlersHold
<1>3. ASSUME NEW k \in Keys
      PROVE  Buffer!Same(k) \/ Buffer!Asked(k) \/ k \in contested'
  <2>1. CASE k # now[h]
    <3>1. /\ want'[k] = want[k] /\ pending'[k] = pending[k]
          /\ k \in contested' <=> k \in contested
      BY <2>1 DEF AddPending, AddPendingFails, Saved, SInv, TypeOK, Settings
    <3>2. QED
      BY <3>1 DEF Buffer!Same
  <2>2. CASE k = now[h] /\ k \notin contested'
    <3>1. want'[k] = todo[h][k] /\ pending'[k] = todo[h][k]
      BY <2>2 DEF AddPending, AddPendingFails, Saved, SInv, TypeOK, Settings
    <3>2. QED
      BY <1>2, <2>2, <3>1 DEF Buffer!Asked
  <2>3. QED
    BY <2>1, <2>2
<1>4. QED
  BY <1>1, <1>3 DEF Buffer!Ask

\* An UPDATE of a replay writes what is pending, or what Lance already has.
LEMMA UpdatesWrite ==
    ASSUME SInv, NEW f \in Flushers, NEW keys, keys \subseteq left[f],
           pc[f] = "write", lance' = AfterUpdate(f, keys),
           UNCHANGED <<pending, want, contested>>
    PROVE  Buffer!Write
<1>1. ASSUME NEW k \in Keys \ contested
      PROVE  lance'[k] = lance[k]
               \/ (pending[k] # None /\ lance'[k] = pending[k])
  <2>1. CASE k \notin keys \/ lance[k] = None
    BY <2>1 DEF AfterUpdate
  <2>2. CASE k \in keys /\ lance[k] # None
    <3>1. lance'[k] = batch[f][k] /\ batch[f][k] # None
      BY <2>2 DEF AfterUpdate, SInv, WorkLeft
    <3>2. /\ batch[f][k] = want[k]
          /\ pending[k] # None => batch[f][k] = pending[k]
          /\ pending[k] = None => lance[k] = want[k]
      BY <3>1 DEF SInv, BatchCoversPending, PendingIsWanted, Active, Clean
    <3>3. QED
      BY <3>1, <3>2
  <2>3. QED
    BY <2>1, <2>2
<1>2. QED
  BY <1>1 DEF Buffer!Write

LEMMA FlushesBuffer ==
    ASSUME SInv, NEW f \in Flushers, FlushStep(f)
    PROVE  Buffer!Write \/ Buffer!Settle \/ UNCHANGED <<want, lance, pending, contested>>
<1>1. UNCHANGED <<want, contested>>
  BY DEF FlushStep, FlushRead, WriteGroup, ReplayFails, ClearPending, history
<1>2. CASE FlushRead(f)
  BY <1>1, <1>2 DEF FlushRead
<1>3. CASE WriteGroup(f)
  <2>1. PICK k \in left[f] : lance' = AfterUpdate(f, Group(f, k))
    BY <1>3 DEF WriteGroup
  <2>2. QED
    BY <1>1, <1>3, <2>1, UpdatesWrite DEF WriteGroup, Group
<1>4. CASE ReplayFails(f)
  <2>1. CASE UNCHANGED lance
    BY <1>1, <1>4, <2>1 DEF ReplayFails
  <2>2. CASE lance' # lance
    <3>1. PICK k \in left[f] :
             lance' = AfterUpdate(f, Group(f, k)) /\ pc[f] = "write"
      BY <1>4, <2>2 DEF ReplayFails
    <3>2. QED
      BY <1>1, <1>4, <3>1, UpdatesWrite DEF ReplayFails, Group
  <2>3. QED
    BY <2>1, <2>2
<1>5. CASE ClearPending(f)
  <2>1. UNCHANGED lance /\ \A k \in Keys : pending'[k] = None
    BY <1>5, EmptyType DEF ClearPending
  <2>2. SInv'
    BY FlushInv
  <2>3. \A k \in Keys \ contested : lance[k] = want[k]
    BY <1>1, <2>1, <2>2 DEF SInv, PendingIsWanted, Clean
  <2>4. QED
    BY <1>1, <2>1, <2>3 DEF Buffer!Settle, Buffer!NothingWaits
<1>6. QED
  BY <1>2, <1>3, <1>4, <1>5 DEF FlushStep

\* The fetcher seeds a key that has no row, for which nothing is pending.
LEMMA SeedsProvide ==
    ASSUME SInv, NEW k \in Keys, Seed(k)
    PROVE  Buffer!Provide
<1>1. UNCHANGED <<pending, contested>>
  BY DEF Seed
<1>2. \A j \in Keys \ {k} : lance'[j] = lance[j] /\ want'[j] = want[j]
  BY DEF Seed, SInv, TypeOK, Settings
<1>3. k \notin contested => pending[k] = None /\ lance'[k] = want'[k]
  BY DEF Seed, SInv, TypeOK, Settings, PendingIsWanted, Clean
<1>4. QED
  BY <1>1, <1>2, <1>3 DEF Buffer!Provide

\* The settings implement a write-behind buffer: every step of SettingsStore is
\* a step of it or leaves it alone.
THEOREM SettingsWriteBehind == Spec => ImplementsWriteBehind
<1>1. Init => Buffer!BufferInit
  <2> SUFFICES ASSUME Init PROVE Buffer!BufferInit  OBVIOUS
  <2>1. lance = want /\ contested = {} /\ lance \in [Keys -> OptValues]
    BY DEF Init, Settings
  <2>2. [k \in Keys |-> {pending[k]} \ {None}] = [k \in Keys |-> {}]
    BY EmptyType DEF Init
  <2>3. QED
    BY <2>1, <2>2 DEF Buffer!BufferInit, Buffer!NothingWaits
<1>2. SInv /\ [Next]_vars => [Buffer!BufferNext]_Buffer!bufferVars
  <2> SUFFICES ASSUME SInv, [Next]_vars
               PROVE  [Buffer!BufferNext]_Buffer!bufferVars
    OBVIOUS
  <2>1. ASSUME NEW h \in Handlers, AddPending(h) \/ AddPendingFails(h)
        PROVE  Buffer!Ask
    BY <2>1, SavesAsk
  <2>2. ASSUME NEW f \in Flushers, FlushStep(f)
        PROVE  \/ Buffer!Write \/ Buffer!Settle
               \/ UNCHANGED <<want, lance, pending, contested>>
    BY <2>2, FlushesBuffer
  <2>3. ASSUME NEW k \in Keys, Seed(k) PROVE Buffer!Provide
    BY <2>3, SeedsProvide
  <2>4. ASSUME \/ \E h \in Handlers : \/ \E k \in Keys : UpdateCached(h, k)
                                      \/ \E q \in Requests : Save(h, q)
               \/ ProbeNothingPending \/ Reconnect \/ GoOffline
               \/ \E s \in Snapshotters : SnapshotStep(s)
               \/ LanceDown \/ LanceBack \/ Crash \/ UNCHANGED vars
        PROVE  UNCHANGED <<want, lance, pending, contested>>
    BY <2>4 DEF UpdateCached, Save, ProbeNothingPending, Reconnect, GoOffline,
       SnapshotStep, SnapshotRead, SnapshotWrite, LanceDown, LanceBack, Crash,
       vars, history
  <2>5. \/ Buffer!Ask \/ Buffer!Write \/ Buffer!Settle \/ Buffer!Provide
        \/ UNCHANGED <<want, lance, pending, contested>>
    BY <2>1, <2>2, <2>3, <2>4 DEF Next, HandlerStep
  <2>6. Buffer!BufferTypeOK'
    <3>1. TypeOK'
      BY NextType DEF SInv
    <3>2. QED
      BY <3>1 DEF TypeOK, Settings, OptValues, Buffer!BufferTypeOK
  <2>7. QED
    BY <2>5, <2>6 DEF Buffer!BufferNext, Buffer!bufferVars
<1>3. QED
  BY <1>1, <1>2, SettingsInvariance, PTL
     DEF Spec, ImplementsWriteBehind, Buffer!BufferSpec

\* The same buffer, with what is proved of any buffer.
Proved == INSTANCE WriteBehindProofs
    WITH Cells <- Keys, Values <- OptValues, wanted <- want, kept <- lance,
         waiting <- [k \in Keys |-> {pending[k]} \ {None}],
         raced <- contested

LEMMA SameBuffer ==
    /\ Buffer!BufferInit => Proved!BufferInit
    /\ [Buffer!BufferNext]_Buffer!bufferVars
          => [Proved!BufferNext]_Proved!bufferVars
    /\ Proved!NothingIsLost => Buffer!NothingIsLost
    /\ [Proved!StaysSettled]_Proved!bufferVars
          => [Buffer!StaysSettled]_Buffer!bufferVars
<1>1. Buffer!BufferInit => Proved!BufferInit
  BY DEF Buffer!BufferInit, Proved!BufferInit,
         Buffer!NothingWaits, Proved!NothingWaits
<1>2. [Buffer!BufferNext]_Buffer!bufferVars
         => [Proved!BufferNext]_Proved!bufferVars
  BY DEF Buffer!bufferVars, Proved!bufferVars,
         Buffer!BufferNext, Proved!BufferNext,
         Buffer!Ask, Proved!Ask, Buffer!Same, Proved!Same,
         Buffer!Asked, Proved!Asked, Buffer!Write, Proved!Write,
         Buffer!Settle, Proved!Settle, Buffer!NothingWaits, Proved!NothingWaits,
         Buffer!Provide, Proved!Provide,
         Buffer!BufferTypeOK, Proved!BufferTypeOK
<1>3. Proved!NothingIsLost => Buffer!NothingIsLost
  BY DEF Buffer!NothingIsLost, Proved!NothingIsLost
<1>4. [Proved!StaysSettled]_Proved!bufferVars
         => [Buffer!StaysSettled]_Buffer!bufferVars
  BY DEF Buffer!StaysSettled, Proved!StaysSettled,
         Buffer!bufferVars, Proved!bufferVars
<1>5. QED
  BY <1>1, <1>2, <1>3, <1>4

\* A save that meets no replay is in settings.lance or in pending_changes until
\* the next one, and no late replay puts an older value in its place.
THEOREM SettingsLoseNothing == Spec => []Buffer!NothingIsLost /\ Buffer!StaysKept
<1>1. Proved!BufferSpec => []Proved!NothingIsLost /\ Proved!StaysKept
  BY Proved!BufferLosesNothing, Proved!BufferStaysKept
<1>2. QED
  BY <1>1, SameBuffer, SettingsWriteBehind, PTL
     DEF ImplementsWriteBehind, Buffer!BufferSpec, Proved!BufferSpec,
         Buffer!StaysKept, Proved!StaysKept
=============================================================================
