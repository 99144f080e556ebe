----------------------------- MODULE MCServices -----------------------------
(***************************************************************************)
(* Instances of CliStore, LogTrim, Fetcher and InfraRing for TLC.  They     *)
(* share nothing that the models keep, and only some of the actors of a    *)
(* module are needed for a question, so a behaviour moves one cast:        *)
(*   "requests"   a user, the pending flush, the administrator, the probe,  *)
(*                crashes of the server                                    *)
(*   "readers"    two users who read tables, the administrator and the     *)
(*                probe                                                    *)
(*   "snapshots"  the snapshots and the probe                              *)
(*   "trim"       the trimming of log_api                                  *)
(*   "feeds"      one fetcher process and two feeds, with one article each *)
(*   "revival"    one fetcher process and one feed, with two articles      *)
(*   "fetchers"   two fetcher processes and one feed, with one article,    *)
(*                for one day                                              *)
(*   "ring"       flushes that record and drain infrastructure events      *)
(***************************************************************************)
EXTENDS CliStoreClaims, LogTrim, FetcherInv, InfraRing, TLC

CONSTANTS u1, u2, c1, daemon, cron, f1, f2, g1, g2, e1, e2, l1, l2

Retain(m, n) == [mode |-> m, n |-> n]
SomeRetentions ==
    {Retain("count", 0), Retain("count", 1), Retain("count", 2),
     Retain("age", 1)}

OneDayATier ==
    "active" :> 1 @@ "slowing" :> 2 @@ "quiet" :> 2 @@ "dormant" :> 2

VARIABLE moving

Fetching == {"feeds", "revival", "fetchers"}
CliStoring == {"requests", "readers", "snapshots"}
Casts == CliStoring \cup {"trim", "ring"} \cup Fetching

ServicesInit ==
    /\ moving \in Casts
    /\ CliInit /\ TrimInit /\ FetchInit /\ RingInit
    \* What does not move starts in one way only
    /\ moving \notin CliStoring => cached = {}
    /\ moving # "requests" => bare = {}
    /\ moving # "trim" => retention = Retain("count", 0)
    /\ moving \notin Fetching => known = {}
    /\ moving \in {"revival", "fetchers"} => known \subseteq {f1}

RequestsNext ==
    \/ ReadStep(u1)
    \/ \E c \in Changes : Change(c)
    \/ FlushStep \/ AdminStep \/ ProbeStep \/ DataStep \/ CrashAndOpen

ReadersNext ==
    \/ \E u \in Users : ReadStep(u) /\ asking'[u] \notin {"feed", "raw"}
    \/ AdminStep \/ ProbeStep \/ DataStep

SnapshotsNext ==
    \/ SnapshotTick \/ \E s \in Snapshotters : SnapshotStep(s)
    \/ ProbeStep \/ DataStep

FetchNextOf(P, F, G) ==
    /\ \/ \E f \in F : FeedStep(f)
       \/ (P = {daemon} \/ today = 0) /\ DayPasses
       \/ \E p \in P : CycleStep(p) \/ Dies(p)
    /\ published' \in [Feeds -> SUBSET G]

ServicesNext ==
    /\ \/ moving = "requests" /\ RequestsNext
             /\ UNCHANGED <<trimVars, fetchVars, ringVars>>
       \/ moving = "readers" /\ ReadersNext
             /\ UNCHANGED <<trimVars, fetchVars, ringVars>>
       \/ moving = "snapshots" /\ SnapshotsNext
             /\ UNCHANGED <<trimVars, fetchVars, ringVars>>
       \/ moving = "trim" /\ TrimNext
             /\ UNCHANGED <<cliVars, fetchVars, ringVars>>
       \/ moving = "ring" /\ RingNext
             /\ UNCHANGED <<cliVars, trimVars, fetchVars>>
       \/ moving = "feeds" /\ FetchNextOf({daemon}, Feeds, {g1})
             /\ UNCHANGED <<cliVars, trimVars, ringVars>>
       \/ moving = "revival" /\ FetchNextOf({daemon}, {f1}, Guids)
             /\ UNCHANGED <<cliVars, trimVars, ringVars>>
       \/ moving = "fetchers" /\ FetchNextOf(Fetchers, {f1}, {g1})
             /\ UNCHANGED <<cliVars, trimVars, ringVars>>
    /\ UNCHANGED moving

\* CliFairness, TrimFairness and FetchFairness, each for its casts
ServicesSpec ==
    /\ ServicesInit
    /\ [][ServicesNext]_<<moving, cliVars, trimVars, fetchVars, ringVars>>
    /\ WF_cliVars(moving = "requests" /\ PendingFlush)
    /\ WF_cliVars(moving = "snapshots" /\ SnapshotTick)
    /\ WF_cliVars(moving \in CliStoring /\ ProbeStep)
    /\ \A s \in Snapshotters :
          WF_cliVars(moving = "snapshots" /\ SnapshotStep(s))
    /\ WF_trimVars(moving = "trim" /\ TrimStep)
    /\ WF_fetchVars(moving \in Fetching /\ CycleStep(daemon))
    /\ \A f \in Feeds :
          WF_fetchVars(moving \in Fetching /\ Elapses(f))

\* CacheRefills where there are snapshots: once the outages are over, the cache
\* has everything again.
SnapshotsRefill == moving = "snapshots" => CacheRefills
=============================================================================
