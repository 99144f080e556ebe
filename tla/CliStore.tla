------------------------------ MODULE CliStore ------------------------------
(***************************************************************************)
(* The store of the CLI build (server/db/lance_cli.go) around its outages: *)
(* who answers a read, when the server takes itself offline and comes back,*)
(* what snapshots do to the offline cache meanwhile, and the stop and      *)
(* start of DuckDB for an upgrade.                                         *)
(*                                                                         *)
(* The DuckDB process is QueryEngine's: on, or stopped.  The data          *)
(* directory comes and goes without it; then a statement fails silently,   *)
(* that is, it gives no rows, or the process cannot be started.  Of a      *)
(* table the model keeps whether it has rows, in Lance and in the cache;   *)
(* "content" is the text of the cached articles, "settings" the in-memory  *)
(* copy, the only one that is ever read.  A replay is one step, with the   *)
(* eviction of read articles at its end; its own steps and the overlay are *)
(* OfflineStore's, the logs that a reconnect drains LogPath's.  Statements *)
(* on offline_cache.db succeed.                                            *)
(***************************************************************************)
EXTENDS Integers, FiniteSets

CONSTANTS
    Users,         \* goroutines of HTTP requests that read
    Reads,         \* what they read
    Changes,       \* what users change, once each
    MaxOutages,    \* bound on how often the data directory goes away
    MaxFaults,     \* bound on failures while it is there
    MaxCrashes     \* bound on restarts of the server

Tables == {"articles", "content", "feeds", "categories", "settings"}
Snapshotters == {"once", "ticker"}
Readers == Users \cup Snapshotters
Kinds == Tables \cup {"feed", "raw", "status"}

ASSUME CliAssumption ==
    /\ Users \cap Snapshotters = {} /\ Reads \subseteq Kinds
    /\ MaxOutages \in Nat /\ MaxFaults \in Nat /\ MaxCrashes \in Nat

VARIABLES
    dataUp,      \* is the data directory there?
    stopped,     \* is DuckDB stopped for an upgrade?
    bare,        \* what Lance has no rows of yet
    isOffline,   \* offlineCache.isOffline
    cached,      \* the tables the offline cache has rows of
    asking,      \* the read each goroutine is in, or "none"
    fallback,    \* those whose read goes to the offline cache
    answer,      \* what the last read of each was answered
    at,          \* the table each snapshot is at, or "idle"
    pending,     \* the rows of pending_changes
    made,        \* the changes users have made
    stopping,    \* StopDuckDB: "no", "flush" or "stop"
    probe,       \* runHealthProbe: "wait", "flush" or "online"
    outages, faults, crashes

engine == <<dataUp, stopped, bare>>
reads == <<asking, fallback, answer>>
writes == <<pending, made>>
bounds == <<outages, faults, crashes>>
cliVars == <<engine, isOffline, cached, reads, at, writes, stopping, probe,
             bounds>>

\* What earlier runs of the server may have left in offline_cache.db
Kept == {{}, {"articles", "feeds"}, Tables \ {"settings"}}

\* Lance as it is in use, or before the first feed is added
Bare == {{}, Kinds \ {"settings", "raw", "status"}}

CliInit ==
    /\ dataUp = TRUE /\ stopped = FALSE /\ isOffline = FALSE
    /\ bare \in Bare /\ cached \in Kept /\ cached \cap bare = {}
    /\ asking = [r \in Readers |-> "none"] /\ fallback = {}
    /\ answer = [r \in Readers |-> "none"]
    /\ at = [s \in Snapshotters |-> IF s = "once" THEN "articles" ELSE "idle"]
    /\ pending = {} /\ made = {}
    /\ stopping = "no" /\ probe = "wait"
    /\ outages = 0 /\ faults = 0 /\ crashes = 0

-----------------------------------------------------------------------------
(* What DuckDB and the offline cache answer.                               *)

\* A process that dies twice or times out, a statement Lance refuses
Fault == faults < MaxFaults /\ faults' = faults + 1

\* DuckDB gives the rows Lance has, nothing without an error, or an error
Query(k, r) ==
    \/ stopped /\ r = "error" /\ UNCHANGED faults
    \/ /\ ~stopped /\ dataUp
       /\ r = IF k \in bare THEN "empty" ELSE "rows"
       /\ UNCHANGED faults
    \/ ~stopped /\ dataUp /\ r \in {"empty", "error"} /\ Fault
    \/ ~stopped /\ ~dataUp /\ r \in {"empty", "error"} /\ UNCHANGED faults

FromCache(k) == IF k \in cached THEN "cache" ELSE "nothing"

\* Mutation: a read of the settings does not look at isOffline, nor at the cache.
NoticesNoSettings(k) == k \in (Tables \ {"settings"}) \cup {"feed"}

\* Which reads look at isOffline and, when they fail, take the server offline and
\* turn to the cache, which has nothing of a single feed
Notices(k) == k \in Tables \cup {"feed"}

-----------------------------------------------------------------------------
(* Reads, of users and of snapshots.                                       *)

\* The check of isOffline.  Pending feeds, logs, the table viewer and the status
\* go to DuckDB all the same.
BeginRead(x, k) ==
    /\ asking[x] = "none"
    /\ asking' = [asking EXCEPT ![x] = k]
    /\ answer' = [answer EXCEPT ![x] = "none"]
    /\ fallback' = IF isOffline /\ Notices(k) THEN fallback \cup {x} ELSE fallback
    /\ UNCHANGED <<engine, isOffline, cached, at, writes, stopping, probe,
                   bounds>>

\* GetSetting looks at the in-memory copy first
ReadSetting(u) ==
    /\ asking[u] = "none"
    /\ "settings" \in cached
    /\ answer' = [answer EXCEPT ![u] = "cache"]
    /\ UNCHANGED <<engine, isOffline, cached, asking, fallback, at, writes,
                   stopping, probe, bounds>>

\* The in-memory settings are laid over what Lance has, even over nothing
Overlaid(k) == IF k = "settings" /\ k \in cached THEN "cache" ELSE "empty"

\* What is made of the answer of DuckDB, when the read is not given up for the
\* cache
Served(k, r) ==
    CASE r = "rows"  -> "rows"
      [] r = "empty" -> Overlaid(k)
      [] OTHER       -> IF k = "raw" THEN "error" ELSE "nothing"

\* A snapshot cannot tell what the cache gave it from what Lance did
Given(x, a) ==
    CASE x \in Snapshotters /\ a = "cache"   -> "rows"
      [] x \in Snapshotters /\ a = "nothing" -> "empty"
      [] OTHER -> a

\* goOffline, the first time; the cache is read next
QueryFails(x) ==
    /\ asking[x] # "none" /\ x \notin fallback /\ Notices(asking[x])
    /\ Query(asking[x], "error")
    /\ isOffline' = TRUE
    /\ fallback' = fallback \cup {x}
    /\ UNCHANGED <<engine, cached, asking, answer, at, writes, stopping, probe,
                   outages, crashes>>

QueryEnds(x, r) ==
    /\ asking[x] # "none" /\ x \notin fallback
    /\ r = "error" => ~Notices(asking[x])
    /\ Query(asking[x], r)
    /\ answer' = [answer EXCEPT ![x] = Given(x, Served(asking[x], r))]
    /\ asking' = [asking EXCEPT ![x] = "none"]
    /\ UNCHANGED <<engine, isOffline, cached, fallback, at, writes, stopping,
                   probe, outages, crashes>>

\* Whatever has become of the outage meanwhile
ReadCache(x) ==
    /\ x \in fallback
    /\ answer' = [answer EXCEPT ![x] = Given(x, FromCache(asking[x]))]
    /\ asking' = [asking EXCEPT ![x] = "none"]
    /\ fallback' = fallback \ {x}
    /\ UNCHANGED <<engine, isOffline, cached, at, writes, stopping, probe,
                   bounds>>

-----------------------------------------------------------------------------
(* Changes and their replay.                                               *)

\* Of an article, or of a setting, which is in the in-memory copy from then on
Change(c) ==
    /\ c \notin made
    /\ made' = made \cup {c} /\ pending' = pending \cup {c}
    /\ cached' \in {cached, cached \cup {"settings"}}
    /\ UNCHANGED <<engine, isOffline, reads, at, stopping, probe, bounds>>

\* evictReadArticles: every cached article may be a read one, or all with text
Evicted == {cached, cached \ {"content"}, cached \ {"articles", "content"}}

\* FlushPendingChanges: whether the replay failed is known to nobody
Replay ==
    \/ /\ pending # {} /\ dataUp
       /\ pending' = {} /\ cached' \in Evicted
       /\ UNCHANGED faults
    \/ pending # {} /\ dataUp /\ Fault /\ UNCHANGED <<pending, cached>>
    \/ (pending = {} \/ ~dataUp) /\ UNCHANGED <<pending, cached, faults>>

PendingFlush ==
    /\ ~isOffline
    /\ Replay
    /\ UNCHANGED <<engine, isOffline, reads, at, made, stopping,
                   probe, outages, crashes>>

\* POST /api/flush does not look at isOffline
ApiFlush ==
    /\ isOffline
    /\ Replay
    /\ UNCHANGED <<engine, isOffline, reads, at, made, stopping,
                   probe, outages, crashes>>

-----------------------------------------------------------------------------
(* Snapshots.                                                              *)

SnapshotTick ==
    /\ ~isOffline /\ at["ticker"] = "idle"
    /\ at' = [at EXCEPT !["ticker"] = "articles"]
    /\ UNCHANGED <<engine, isOffline, cached, reads, writes, stopping, probe,
                   bounds>>

After(t) ==
    CASE t = "articles" -> "content"
      [] t = "content"  -> "feeds"
      [] t = "feeds"    -> "categories"
      [] t = "categories" -> "settings"
      [] OTHER          -> "idle"

\* A read of the snapshot is a read of the store
SnapshotRead(s) == at[s] # "idle" /\ answer[s] = "none" /\ BeginRead(s, at[s])

Moves(s, t) ==
    /\ at' = [at EXCEPT ![s] = t]
    /\ answer' = [answer EXCEPT ![s] = "none"]

\* No articles, nothing to store; else their content is asked for
SnapshotList(s) ==
    /\ at[s] = "articles" /\ answer[s] # "none"
    /\ Moves(s, IF answer[s] = "empty" THEN "feeds" ELSE "content")
    /\ UNCHANGED <<engine, isOffline, cached, asking, fallback, writes, stopping,
                   probe, bounds>>

\* Mutations: snapshotFeeds replaces the feeds even when it is given none;
\* categories and settings are deleted and not inserted.
StoredUnguarded(t, none) == IF none THEN cached \ {t} ELSE cached \cup {t}
StoredDeletes(t, none) ==
    CASE t = "content" -> IF none THEN (cached \ {t}) \cup {"articles"}
                                  ELSE cached \cup {"articles", t}
      [] t = "feeds"   -> IF none THEN cached ELSE cached \cup {t}
      [] OTHER         -> cached \ {t}

\* snapshotArticles INSERTs OR REPLACEs the articles, with or without content;
\* snapshotFeeds leaves the table alone when there are no feeds; the other two
\* replace everything.
Stored(t, none) ==
    CASE t = "content" -> IF none THEN (cached \ {t}) \cup {"articles"}
                                  ELSE cached \cup {"articles", t}
      [] t = "feeds"   -> IF none THEN cached ELSE cached \cup {t}
      [] OTHER         -> IF none THEN cached \ {t} ELSE cached \cup {t}

SnapshotStore(s) ==
    /\ at[s] \notin {"idle", "articles"} /\ answer[s] # "none"
    /\ cached' = Stored(at[s], answer[s] = "empty")
    /\ Moves(s, After(at[s]))
    /\ UNCHANGED <<engine, isOffline, asking, fallback, writes, stopping, probe,
                   bounds>>

-----------------------------------------------------------------------------
(* The health probe.                                                       *)

\* Alive means a row of feeds; only a server that is offline reacts.
Probe(r) ==
    /\ probe = "wait" /\ isOffline
    /\ Query("feeds", r)
    /\ probe' = IF r = "rows" THEN "flush" ELSE "wait"
    /\ UNCHANGED <<engine, isOffline, cached, reads, at, writes, stopping,
                   outages, crashes>>

\* Mutation: the replay is left to the loop that flushes periodically.
ReconnectWaits ==
    /\ probe = "flush" /\ pending = {}
    /\ probe' = "online"
    /\ UNCHANGED <<engine, isOffline, cached, reads, at, writes, stopping,
                   bounds>>

ReconnectFlush ==
    /\ probe = "flush"
    /\ Replay
    /\ probe' = "online"
    /\ UNCHANGED <<engine, isOffline, reads, at, made, stopping,
                   outages, crashes>>

\* Online, whatever became of the replay; a snapshot is started, unless the
\* initial one or that of an earlier reconnect is still running (a bound)
Reconnect ==
    /\ probe = "online"
    /\ isOffline' = FALSE /\ probe' = "wait"
    /\ at' = IF at["once"] = "idle"
             THEN [at EXCEPT !["once"] = "articles"] ELSE at
    /\ UNCHANGED <<engine, cached, reads, writes, stopping, bounds>>

-----------------------------------------------------------------------------
(* POST /api/duckdb/stop, start and restart.                               *)

Stop ==
    /\ stopping = "no" /\ ~isOffline
    /\ stopping' = "flush"
    /\ UNCHANGED <<engine, isOffline, cached, reads, at, writes, probe,
                   bounds>>

StopFlush ==
    /\ stopping = "flush"
    /\ Replay
    /\ stopping' = "stop"
    /\ UNCHANGED <<engine, isOffline, reads, at, made, probe,
                   outages, crashes>>

StopEnds ==
    /\ stopping = "stop"
    /\ stopped' = TRUE /\ stopping' = "no"
    /\ UNCHANGED <<dataUp, bare, isOffline, cached, reads, at, writes, probe,
                   bounds>>

\* A start that fails has cleared the flag all the same
StartOrRestart ==
    /\ stopped' = FALSE
    /\ UNCHANGED <<dataUp, bare, isOffline, cached, reads, at, writes, stopping,
                   probe, bounds>>

-----------------------------------------------------------------------------
(* The environment.                                                        *)

DataGone ==
    /\ dataUp /\ outages < MaxOutages
    /\ dataUp' = FALSE /\ outages' = outages + 1
    /\ UNCHANGED <<stopped, bare, isOffline, cached, reads, at, writes, stopping,
                   probe, faults, crashes>>

DataBack ==
    /\ ~dataUp
    /\ dataUp' = TRUE
    /\ UNCHANGED <<stopped, bare, isOffline, cached, reads, at, writes, stopping,
                   probe, bounds>>

\* The first feed is added, the first article fetched.  The server adds no
\* categories, and nothing deletes from these tables.
Fillings == {{"feeds", "feed"}, {"articles", "content"}}

RowsArrive(K) ==
    /\ dataUp /\ K \subseteq bare
    /\ "articles" \in K => "feeds" \notin bare
    /\ bare' = bare \ K
    /\ UNCHANGED <<dataUp, stopped, isOffline, cached, reads, at, writes,
                   stopping, probe, bounds>>

\* The server dies and Open runs again: DuckDB is started, the cache and the
\* pending changes are in their file, the in-memory settings are not.
CrashAndOpen ==
    /\ crashes < MaxCrashes /\ crashes' = crashes + 1
    /\ stopped' = FALSE /\ isOffline' = FALSE
    /\ cached' = cached \ {"settings"}
    /\ asking' = [r \in Readers |-> "none"] /\ fallback' = {}
    /\ answer' = [r \in Readers |-> "none"]
    /\ at' = [s \in Snapshotters |-> IF s = "once" THEN "articles" ELSE "idle"]
    /\ stopping' = "no" /\ probe' = "wait"
    /\ UNCHANGED <<dataUp, bare, writes, outages, faults>>

Answers == {"rows", "empty", "error"}

ReadGoesOn(x) ==
    QueryFails(x) \/ ReadCache(x) \/ \E r \in Answers : QueryEnds(x, r)

SnapshotStep(s) ==
    \/ SnapshotRead(s) \/ ReadGoesOn(s)
    \/ SnapshotList(s) \/ SnapshotStore(s)

ProbeStep == ReconnectFlush \/ Reconnect \/ \E r \in Answers : Probe(r)

ReadStep(u) ==
    ReadSetting(u) \/ ReadGoesOn(u) \/ \E k \in Reads : BeginRead(u, k)

FlushStep == PendingFlush \/ ApiFlush
AdminStep == Stop \/ StopFlush \/ StopEnds \/ StartOrRestart
DataStep == DataGone \/ DataBack \/ \E K \in Fillings : RowsArrive(K)

CliNext ==
    \/ \E u \in Users : ReadStep(u)
    \/ \E c \in Changes : Change(c)
    \/ SnapshotTick \/ \E s \in Snapshotters : SnapshotStep(s)
    \/ FlushStep \/ ProbeStep \/ AdminStep \/ DataStep \/ CrashAndOpen

CliSpec == CliInit /\ [][CliNext]_cliVars

\* The loops and the probe run on their timers, a read ends by its timeout
CliFairness ==
    /\ WF_cliVars(PendingFlush) /\ WF_cliVars(SnapshotTick)
    /\ WF_cliVars(ProbeStep)
    /\ \A s \in Snapshotters : WF_cliVars(SnapshotStep(s))

-----------------------------------------------------------------------------
\* The text of articles is only cached with the articles.
CliTypeOK ==
    /\ dataUp \in BOOLEAN /\ stopped \in BOOLEAN /\ isOffline \in BOOLEAN
    /\ bare \subseteq Kinds /\ cached \subseteq Tables
    /\ "content" \in cached => "articles" \in cached
    /\ asking \in [Readers -> Kinds \cup {"none"}]
    /\ fallback \subseteq {x \in Readers : asking[x] # "none"}
    /\ answer \in [Readers ->
                     {"none", "rows", "empty", "cache", "nothing", "error"}]
    /\ at \in [Snapshotters -> Tables \cup {"idle"}]
    /\ pending \subseteq made /\ made \subseteq Changes
    /\ stopping \in {"no", "flush", "stop"}
    /\ probe \in {"wait", "flush", "online"}
    /\ outages \in 0..MaxOutages /\ faults \in 0..MaxFaults
    /\ crashes \in 0..MaxCrashes

\* Everything that was changed is now in Lance
Emptied == pending # {} /\ pending' = {}

\* What a snapshot meets on its way, an outage nobody has noticed, answers from
\* the cache it is about to write, a stop or a restart, never leaves the
\* offline cache without the feeds or the articles it had.  Only a replay that
\* brings the last pending change to Lance takes articles away, those that are
\* read, and so never during an outage.
CacheSurvives ==
    [][/\ "feeds" \in cached => "feeds" \in cached'
       /\ ("articles" \in cached /\ "articles" \notin cached') =>
             Emptied /\ dataUp]_cliVars

\* A user who reads a table that is in the offline cache is given rows, Lance's
\* or the cache's: also when the query fails, DuckDB is stopped, the server was
\* offline when the read began, goes offline meanwhile or comes back.  Only a
\* statement that gives no rows and no error hides what is cached, from a read
\* that has met neither an error nor a server offline.
UsersAreServed ==
    [][\A u \in Users, k \in Tables :
          (asking[u] = k /\ asking'[u] = "none" /\ crashes' = crashes) =>
             /\ answer'[u] # "error"
             /\ (k \in cached /\ answer'[u] \notin {"rows", "cache"}) =>
                   answer'[u] = "empty" /\ u \notin fallback /\ ~stopped]_cliVars

\* What the probe asks for: a row of feeds
Healthy == dataUp /\ ~stopped /\ "feeds" \notin bare

\* Once the data directory is there, Lance has a feed and DuckDB is not stopped,
\* for good, the server is online again and everything users have changed is in
\* Lance, whatever failed, was stopped or restarted before.
Recovers == <>[]Healthy => <>[](~isOffline /\ pending = {})

\* And the offline cache then has everything again that Lance has, also the
\* categories, the content and the settings that snapshots of an outage dropped.
CacheRefills == <>[]Healthy => <>[](Tables \subseteq cached \cup bare)
=============================================================================
