-------------------------- MODULE SettingsStoreInv --------------------------
(***************************************************************************)
(* The inductive invariant behind SavedReachesLance and SavedIsSeen.       *)
(***************************************************************************)
EXTENDS SettingsStore

Active(f) == pc[f] \in {"write", "clear"}
Clean(k) == k \in Keys /\ k \notin contested

\* A key is between its two writes only while its handler still holds its value
HandlersHold == \A h \in Handlers : now[h] # None => todo[h][now[h]] # None

\* What is pending is what is wanted; what is not pending is in Lance
PendingIsWanted == \A k \in Keys : Clean(k) =>
    /\ pending[k] # None => pending[k] = want[k] /\ lance[k] # None
    /\ pending[k] = None => lance[k] = want[k]

\* A replay holds every pending row of a clean key, and has written those it
\* has no longer to send
BatchCoversPending == \A f \in Flushers, k \in Keys : (Active(f) /\ Clean(k)) =>
    /\ pending[k] # None => batch[f][k] = pending[k]
    /\ batch[f][k] # None => batch[f][k] = want[k] /\ lance[k] # None
    /\ (batch[f][k] # None /\ k \notin left[f]) => lance[k] = batch[f][k]

WorkLeft == \A f \in Flushers :
    /\ left[f] \subseteq {k \in Keys : batch[f][k] # None}
    /\ pc[f] = "clear" => left[f] = {}
    /\ ~Active(f) => left[f] = {}

\* What a reader or a snapshot takes for the value of k: the last save, or
\* nothing when nothing is pending
Current(v, k) == v = want[k] \/ (v = None /\ pending[k] = None)

ReadersCurrent == \A k \in Keys :
    (Clean(k) /\ k \notin stale /\ ~InFlight(k)) => Current(memory[k], k)

SnapshotsCurrent == \A k \in Keys, s \in Snapshotters :
    (Clean(k) /\ k \notin stale /\ ~InFlight(k) /\ s \in reading)
        => Current(snap[s][k], k)

\* Saves, replays, snapshots and crashes keep the copies of an uncontested
\* setting in step: the inductive invariant of the offlineCache's settings.
SInv == /\ TypeOK /\ HandlersHold /\ PendingIsWanted /\ BatchCoversPending
        /\ WorkLeft /\ ReadersCurrent /\ SnapshotsCurrent
=============================================================================
