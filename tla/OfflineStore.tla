---------------------------- MODULE OfflineStore ----------------------------
(***************************************************************************)
(* The article state of the Go server (server/db): read and star changes   *)
(* go to an in-memory overlay and to the pending_changes table of the      *)
(* local DuckDB file, a replay writes the pending changes to articles.lance*)
(* and empties the table, and cached_articles serves reads while Lance     *)
(* cannot be reached.                                                      *)
(*                                                                         *)
(* Grain of atomicity: one call of an offlineCache method (each holds      *)
(* oc.mu), of a writeCache method (each holds c.mu), or one UPDATE sent to *)
(* Lance.  Request handlers, replays and snapshots interleave between      *)
(* these steps.  want and contested are history variables: no action of    *)
(* the server reads them.                                                  *)
(***************************************************************************)
EXTENDS Integers

CONSTANTS
    Articles,       \* article ids
    Feeds,          \* feed ids
    FeedOf,         \* the feed of each article
    FirstArticles,  \* the rows of articles.lance when the server first starts
    Handlers,       \* HTTP handler goroutines
    Requests,       \* the changes a user may ask for
    ApiFlushers,    \* concurrent POST /api/flush requests
    Snapshotters,   \* snapshot goroutines (initial, periodic, after reconnect)
    BufferMayFail,  \* may an INSERT into pending_changes fail (disk full)?
    MaxChanges,     \* bound on the change after which no request starts
    MaxOutages,     \* bound on how often Lance becomes unreachable
    MaxCrashes      \* bound on server crashes

Attrs == {"is_read", "is_starred"}
Vals == {"true", "false"}
Unset == "unset"
OptVals == Vals \cup {Unset}
ArticleActions == {"read", "unread", "star", "unstar"}

Request == [action : ArticleActions, target : Articles]
             \cup [action : {"mark_all_read"}, target : Feeds]
Row == [id : Nat, action : ArticleActions, target : Articles]
         \cup [id : Nat, action : {"mark_all_read"}, target : Feeds]
Stages == {"buffer", "cache"}
Flight == [by : Handlers, stage : Stages, action : ArticleActions, target : Articles]
            \cup [by : Handlers, stage : Stages, action : {"mark_all_read"},
                  target : Feeds]

Flushers == {"loop", "probe"} \cup ApiFlushers
Cells == Articles \X Attrs

ASSUME ConstantsAssumption ==
    /\ FeedOf \in [Articles -> Feeds]
    /\ FirstArticles \subseteq Articles
    /\ Requests \subseteq Request
    /\ BufferMayFail \in BOOLEAN
    /\ MaxChanges \in Nat /\ MaxOutages \in Nat /\ MaxCrashes \in Nat

VARIABLES
    lance,        \* read/star columns of articles.lance
    stored,       \* the articles that have a row in articles.lance
    lanceUp,      \* can the data source be reached?
    isOffline,    \* offlineCache.isOffline
    overlay,      \* writeCache.pending
    pending,      \* the rows of pending_changes
    nextId,       \* pending_changes_seq
    cached,       \* cached_articles (all columns Unset: no row)
    inflight,     \* the requests being handled, with the step they are at
    pc,           \* where each replay is
    batch,        \* the rows each replay has read
    feedsLeft,    \* feeds whose MarkAllRead the replay has still to send
    articlesLeft, \* articles whose override the replay has still to send
    snap,         \* the rows each snapshot has read and not yet written
    outages, crashes,
    want,         \* history: what the user last asked for, by cell
    contested     \* history: cells whose last change was not a plain one

durable == <<lance, stored, pending, nextId, cached>>
replay == <<pc, batch, feedsLeft, articlesLeft>>
history == <<want, contested>>
env == <<lanceUp, outages, crashes>>
vars == <<lance, stored, lanceUp, isOffline, overlay, pending, nextId, cached,
          inflight, pc, batch, feedsLeft, articlesLeft, snap, outages, crashes,
          want, contested>>

-----------------------------------------------------------------------------
(* What a change, in flight or in pending_changes, says of a cell.         *)

AttrOf(action) == IF action \in {"star", "unstar"} THEN "is_starred" ELSE "is_read"
ValOf(action) == IF action \in {"unread", "unstar"} THEN "false" ELSE "true"

Overrides(r, a, x) == /\ r.action \in ArticleActions
                      /\ r.target = a
                      /\ AttrOf(r.action) = x
Marks(r, a, x) == /\ r.action = "mark_all_read"
                  /\ r.target = FeedOf[a]
                  /\ x = "is_read"
Touches(r, a, x) == Overrides(r, a, x) \/ Marks(r, a, x)

\* Mutation: the collapse keeps the first change of a cell.
FirstWins(r, rows, a, x) == /\ r \in rows
                            /\ Overrides(r, a, x)
                            /\ \A q \in rows : Overrides(q, a, x) => r.id <= q.id
\* r is the last of rows, by id, to override the cell
Wins(r, rows, a, x) == /\ r \in rows
                       /\ Overrides(r, a, x)
                       /\ \A q \in rows : Overrides(q, a, x) => q.id <= r.id

\* The collapse at the head of Replay: the article override rows add up to
Override(rows, a, x) ==
    IF \E r \in rows : Overrides(r, a, x)
    THEN ValOf((CHOOSE r \in rows : Wins(r, rows, a, x)).action)
    ELSE Unset

Blank == [x \in Attrs |-> Unset]
NoRows == [a \in Articles |-> Blank]
Unread == [x \in Attrs |-> "false"]

\* Online reads: COALESCE(c.is_read, a.is_read)
View(a, x) == IF overlay[a][x] = Unset THEN lance[a][x] ELSE overlay[a][x]

Replaying == \E f \in Flushers : pc[f] \notin {"idle", "reconnect"}
InFlight(a, x) == \E q \in inflight : q.stage = "buffer" /\ Touches(q, a, x)

-----------------------------------------------------------------------------
Init ==
    /\ lance = [a \in Articles |-> Unread]
    /\ stored = FirstArticles
    /\ lanceUp = TRUE
    /\ isOffline = FALSE
    /\ overlay = NoRows
    /\ pending = {}
    /\ nextId = 1
    /\ cached = NoRows
    /\ inflight = {}
    /\ pc = [f \in Flushers |-> "idle"]
    /\ batch = [f \in Flushers |-> {}]
    /\ feedsLeft = [f \in Flushers |-> {}]
    /\ articlesLeft = [f \in Flushers |-> {}]
    /\ snap = [s \in Snapshotters |-> NoRows]
    /\ outages = 0 /\ crashes = 0
    /\ want = [a \in Articles |-> Unread]
    /\ contested = {}

-----------------------------------------------------------------------------
(* Requests: overlay first, then pending_changes, then cached_articles.    *)

Start(h, q) ==
    /\ \A p \in inflight : p.by # h
    /\ nextId <= MaxChanges
    /\ inflight' = inflight \cup {[by |-> h, stage |-> "buffer",
                                   action |-> q.action, target |-> q.target]}

\* Mutation: setRead and setStarred write each other's field.
SetOverlaySwapped(h, q) ==
    /\ q.action \in ArticleActions /\ q.target \in stored
    /\ Start(h, q)
    /\ \E x \in Attrs \ {AttrOf(q.action)} :
          overlay' = [overlay EXCEPT ![q.target][x] = ValOf(q.action)]
    /\ UNCHANGED <<durable, isOffline, replay, snap, history, env>>

\* SetArticleRead and SetArticleStarred: cache.setRead, cache.setStarred
SetOverlay(h, q) ==
    /\ q.action \in ArticleActions /\ q.target \in stored
    /\ Start(h, q)
    /\ overlay' = [overlay EXCEPT ![q.target][AttrOf(q.action)] = ValOf(q.action)]
    /\ UNCHANGED <<durable, isOffline, replay, snap, history, env>>

\* MarkAllRead: setRead for the articles Lance, not the overlay, holds unread;
\* when the query fails the overlay is left alone and the handler goes on
MarkOverlay(h, q) ==
    /\ q.action = "mark_all_read"
    /\ Start(h, q)
    /\ overlay' = [a \in Articles |->
           IF /\ lanceUp /\ a \in stored
              /\ FeedOf[a] = q.target /\ lance[a]["is_read"] = "false"
           THEN [overlay[a] EXCEPT !["is_read"] = "true"] ELSE overlay[a]]
    /\ UNCHANGED <<durable, isOffline, replay, snap, history, env>>

\* A change is plain on a cell when it is recorded with no replay under way,
\* on top of an overlay that agrees with it, and, for a mark_all_read, not
\* after an unflushed "unread" of the article.
Plain(q, a, x) ==
    /\ ~Replaying
    /\ overlay[a][x] \in {Unset, ValOf(q.action)}
    /\ Marks(q, a, x) => Override(pending, a, x) # "false"

Wanted(q) == [a \in Articles |-> [x \in Attrs |->
                 IF a \in stored /\ Touches(q, a, x) THEN ValOf(q.action)
                                                     ELSE want[a][x]]]

NextStep(q) == inflight' = (inflight \ {q}) \cup {[q EXCEPT !.stage = "cache"]}

\* addPendingChange
BufferChange(q) ==
    /\ q.stage = "buffer"
    /\ pending' = pending \cup {[id |-> nextId, action |-> q.action,
                                 target |-> q.target]}
    /\ nextId' = nextId + 1
    /\ NextStep(q)
    /\ want' = Wanted(q)
    /\ contested' = {c \in Cells : IF Touches(q, c[1], c[2])
                                   THEN ~Plain(q, c[1], c[2])
                                   ELSE c \in contested}
    /\ UNCHANGED <<lance, stored, isOffline, overlay, cached, replay, snap, env>>

\* addPendingChange fails: its error is dropped and the request succeeds
BufferFails(q) ==
    /\ BufferMayFail
    /\ q.stage = "buffer"
    /\ NextStep(q)
    /\ want' = Wanted(q)
    /\ contested' = contested \cup {c \in Cells : Touches(q, c[1], c[2])}
    /\ UNCHANGED <<durable, isOffline, overlay, replay, snap, env>>

\* updateCachedArticle, markAllReadCached: an UPDATE, so only rows that exist
UpdateCached(q) ==
    /\ q.stage = "cache"
    /\ inflight' = inflight \ {q}
    /\ cached' = [a \in Articles |-> [x \in Attrs |->
                    IF cached[a] # Blank /\ Touches(q, a, x)
                    THEN ValOf(q.action) ELSE cached[a][x]]]
    /\ UNCHANGED <<lance, stored, isOffline, overlay, pending, nextId, replay,
                   snap, history, env>>

-----------------------------------------------------------------------------
(* Replays: FlushPendingChanges and the Replay it calls.                   *)

MarkedFeeds(rows) == {r.target : r \in {p \in rows : p.action = "mark_all_read"}}
OverriddenArticles(rows) ==
    {a \in Articles : \E x \in Attrs, r \in rows : Overrides(r, a, x)}

\* Mutation: Replay goes from the mark_all_read rows straight to the clear.
StageSkipsOverrides(feeds, articles) == IF feeds # {} THEN "marks" ELSE "clear"
Stage(feeds, articles) == IF feeds # {} THEN "marks"
                          ELSE IF articles # {} THEN "overrides" ELSE "clear"

\* Mutation: runPendingFlush returns after its first replay.
DoneLoopExits(f) == "reconnect"
\* Where a flusher goes when its replay is over
Done(f) == IF f = "probe" THEN "reconnect" ELSE "idle"

\* getPendingChanges and the collapse.  runPendingFlush skips its tick while
\* offline, the probe comes here from handleReconnect, the API at any time.
\* A replay that finds no rows returns at once.
FlushRead(f) ==
    /\ pc[f] = "idle"
    /\ f = "loop" => ~isOffline
    /\ f = "probe" => isOffline /\ lanceUp
    /\ pending # {}
    /\ batch' = [batch EXCEPT ![f] = pending]
    /\ feedsLeft' = [feedsLeft EXCEPT ![f] = MarkedFeeds(pending)]
    /\ articlesLeft' = [articlesLeft EXCEPT ![f] = OverriddenArticles(pending)]
    /\ pc' = [pc EXCEPT ![f] = Stage(feedsLeft'[f], articlesLeft'[f])]
    /\ contested' = IF Replaying
                    THEN contested \cup {c \in Cells : \E r \in pending :
                                            Touches(r, c[1], c[2])}
                    ELSE contested
    /\ UNCHANGED <<durable, isOffline, overlay, inflight, snap, want, env>>

\* Mutation: handleReconnect returns when there was nothing to replay.
ProbeReturnsEarly ==
    /\ pc["probe"] = "idle"
    /\ isOffline /\ lanceUp
    /\ pending = {}
    /\ UNCHANGED vars

\* the health probe finds Lance again and has nothing to replay
ProbeNothingPending ==
    /\ pc["probe"] = "idle"
    /\ isOffline /\ lanceUp
    /\ pending = {}
    /\ pc' = [pc EXCEPT !["probe"] = "reconnect"]
    /\ UNCHANGED <<durable, isOffline, overlay, inflight, batch, feedsLeft,
                   articlesLeft, snap, history, env>>

\* lanceWriter.MarkAllRead: every unread article of the feed, whatever its age
AfterMark(feed) == [a \in Articles |->
    IF a \in stored /\ FeedOf[a] = feed
    THEN [lance[a] EXCEPT !["is_read"] = "true"] ELSE lance[a]]

ReplayMark(f) ==
    /\ pc[f] = "marks"
    /\ lanceUp
    /\ \E feed \in feedsLeft[f] :
         /\ lance' = AfterMark(feed)
         /\ feedsLeft' = [feedsLeft EXCEPT ![f] = @ \ {feed}]
    /\ pc' = [pc EXCEPT ![f] = Stage(feedsLeft'[f], articlesLeft[f])]
    /\ UNCHANGED <<stored, isOffline, overlay, pending, nextId, cached, inflight,
                   batch, articlesLeft, snap, history, env>>

\* FlushOverrides: one UPDATE for all the articles with the same payload,
\* in whatever order the map of groups is ranged over
Payload(f, a) == [x \in Attrs |-> Override(batch[f], a, x)]
Group(f, a) == {b \in articlesLeft[f] : Payload(f, b) = Payload(f, a)}
AfterUpdate(f, group) == [a \in Articles |-> [x \in Attrs |->
    IF a \in group \cap stored /\ Payload(f, a)[x] # Unset
    THEN Payload(f, a)[x] ELSE lance[a][x]]]

ReplayGroup(f) ==
    /\ pc[f] = "overrides"
    /\ lanceUp
    /\ \E a \in articlesLeft[f] :
         /\ lance' = AfterUpdate(f, Group(f, a))
         /\ articlesLeft' = [articlesLeft EXCEPT ![f] = @ \ Group(f, a)]
    /\ pc' = [pc EXCEPT ![f] = Stage({}, articlesLeft'[f])]
    /\ UNCHANGED <<stored, isOffline, overlay, pending, nextId, cached, inflight,
                   batch, feedsLeft, snap, history, env>>

Abandon(f, next) ==
    /\ pc' = [pc EXCEPT ![f] = next]
    /\ batch' = [batch EXCEPT ![f] = {}]
    /\ feedsLeft' = [feedsLeft EXCEPT ![f] = {}]
    /\ articlesLeft' = [articlesLeft EXCEPT ![f] = {}]

\* A writer call fails, PutSettingsBatch (before the clear) included: Replay
\* returns and the rows stay.  The UPDATE whose answer was lost may have
\* reached Lance all the same.
ReplayFails(f) ==
    /\ ~lanceUp
    /\ \/ /\ pc[f] \in {"marks", "overrides", "clear"}
          /\ lance' = lance
       \/ /\ pc[f] = "marks"
          /\ \E feed \in feedsLeft[f] : lance' = AfterMark(feed)
       \/ /\ pc[f] = "overrides"
          /\ \E a \in articlesLeft[f] : lance' = AfterUpdate(f, Group(f, a))
    /\ Abandon(f, Done(f))
    /\ UNCHANGED <<stored, isOffline, overlay, pending, nextId, cached, inflight,
                   snap, history, env>>

\* clearPendingChanges: DELETE FROM pending_changes
ClearPending(f) ==
    /\ pc[f] = "clear"
    /\ pending' = {}
    /\ Abandon(f, "evict")
    /\ UNCHANGED <<lance, stored, isOffline, overlay, nextId, cached, inflight,
                   snap, history, env>>

\* evictReadArticles
Evict(f) ==
    /\ pc[f] = "evict"
    /\ cached' = [a \in Articles |->
                    IF cached[a]["is_read"] = "true" THEN Blank ELSE cached[a]]
    /\ pc' = [pc EXCEPT ![f] = "uncache"]
    /\ UNCHANGED <<lance, stored, isOffline, overlay, pending, nextId, inflight,
                   batch, feedsLeft, articlesLeft, snap, history, env>>

\* FlushPendingChanges after a replay that wrote something: cache.clear
ClearOverlay(f) ==
    /\ pc[f] = "uncache"
    /\ overlay' = NoRows
    /\ pc' = [pc EXCEPT ![f] = Done(f)]
    /\ UNCHANGED <<durable, isOffline, inflight, batch, feedsLeft, articlesLeft,
                   snap, history, env>>

\* The end of handleReconnect, whether or not the flush succeeded
Reconnect ==
    /\ pc["probe"] = "reconnect"
    /\ isOffline' = FALSE
    /\ pc' = [pc EXCEPT !["probe"] = "idle"]
    /\ UNCHANGED <<durable, overlay, inflight, batch, feedsLeft, articlesLeft,
                   snap, history, env>>

-----------------------------------------------------------------------------
(* Reads that fail, and snapshots.                                         *)

\* A read finds Lance unreachable: goOffline, and the answer is the cache's
GoOffline ==
    /\ ~lanceUp /\ ~isOffline
    /\ isOffline' = TRUE
    /\ UNCHANGED <<durable, overlay, inflight, replay, snap, history, env>>

\* Snapshot reads GetArticles: Lance under the overlay, or cached_articles when
\* offline or when the query fails.  The window of ArticleDays is days wide:
\* here every article is inside it.
SnapshotRead(s) ==
    /\ snap[s] = NoRows
    /\ snap' = [snap EXCEPT ![s] = [a \in Articles |->
                  IF ~lanceUp \/ isOffline THEN cached[a]
                  ELSE IF a \in stored THEN [x \in Attrs |-> View(a, x)]
                  ELSE Blank]]
    /\ isOffline' = (isOffline \/ ~lanceUp)
    /\ UNCHANGED <<durable, overlay, inflight, replay, history, env>>

\* Mutation: snapshotArticles inserts and does not replace.
SnapshotInsertOnly(s) ==
    /\ snap[s] # NoRows
    /\ cached' = [a \in Articles |-> IF cached[a] # Blank THEN cached[a]
                                                          ELSE snap[s][a]]
    /\ snap' = [snap EXCEPT ![s] = NoRows]
    /\ UNCHANGED <<lance, stored, isOffline, overlay, pending, nextId, inflight,
                   replay, history, env>>

\* snapshotArticles: INSERT OR REPLACE of the rows read
SnapshotWrite(s) ==
    /\ snap[s] # NoRows
    /\ cached' = [a \in Articles |-> IF snap[s][a] = Blank THEN cached[a]
                                                           ELSE snap[s][a]]
    /\ snap' = [snap EXCEPT ![s] = NoRows]
    /\ UNCHANGED <<lance, stored, isOffline, overlay, pending, nextId, inflight,
                   replay, history, env>>

-----------------------------------------------------------------------------
(* The world outside the server.                                           *)

\* The fetcher adds an article.  It is contested when a mark_all_read of its
\* feed, asked for before it existed, is still to be replayed.
Fetch(a) ==
    /\ a \notin stored
    /\ stored' = stored \cup {a}
    /\ lance' = [lance EXCEPT ![a] = Unread]
    /\ want' = [want EXCEPT ![a] = Unread]
    /\ contested' = contested \cup {<<a, x>> : x \in {y \in Attrs :
           \/ \E r \in pending : Touches(r, a, y)
           \/ \E f \in Flushers : \E r \in batch[f] : Touches(r, a, y)}}
    /\ UNCHANGED <<isOffline, overlay, pending, nextId, cached, inflight, replay,
                   snap, env>>

LanceDown ==
    /\ lanceUp /\ outages < MaxOutages
    /\ lanceUp' = FALSE
    /\ outages' = outages + 1
    /\ UNCHANGED <<durable, isOffline, overlay, inflight, replay, snap, history,
                   crashes>>

LanceBack ==
    /\ ~lanceUp
    /\ lanceUp' = TRUE
    /\ UNCHANGED <<durable, isOffline, overlay, inflight, replay, snap, history,
                   outages, crashes>>

\* The process dies and Open starts a new one on the same DuckDB file
Crash ==
    /\ crashes < MaxCrashes
    /\ crashes' = crashes + 1
    /\ isOffline' = FALSE
    /\ overlay' = NoRows
    /\ inflight' = {}
    /\ pc' = [f \in Flushers |-> "idle"]
    /\ batch' = [f \in Flushers |-> {}]
    /\ feedsLeft' = [f \in Flushers |-> {}]
    /\ articlesLeft' = [f \in Flushers |-> {}]
    /\ snap' = [s \in Snapshotters |-> NoRows]
    /\ UNCHANGED <<durable, history, lanceUp, outages>>

-----------------------------------------------------------------------------
RequestStep ==
    \/ \E h \in Handlers, q \in Requests : SetOverlay(h, q) \/ MarkOverlay(h, q)
    \/ \E q \in inflight : BufferChange(q) \/ BufferFails(q) \/ UpdateCached(q)

FlushStep(f) ==
    \/ FlushRead(f) \/ ReplayMark(f) \/ ReplayGroup(f) \/ ReplayFails(f)
    \/ ClearPending(f) \/ Evict(f) \/ ClearOverlay(f)

SnapshotStep(s) == SnapshotRead(s) \/ SnapshotWrite(s)

Environment == (\E a \in Articles : Fetch(a)) \/ LanceDown \/ LanceBack \/ Crash

Next ==
    \/ RequestStep
    \/ \E f \in Flushers : FlushStep(f)
    \/ ProbeNothingPending \/ Reconnect \/ GoOffline
    \/ \E s \in Snapshotters : SnapshotStep(s)
    \/ Environment

Spec == Init /\ [][Next]_vars

(***************************************************************************)
(* The goroutines keep running: handlers finish, runPendingFlush ticks,    *)
(* a replay under way goes on, the probe keeps polling.  No user has to    *)
(* read, write or call the API.                                            *)
(***************************************************************************)
HandlerStep == \E q \in inflight : BufferChange(q) \/ UpdateCached(q)
ScheduledFlush(f) == FlushStep(f) /\ (f \in ApiFlushers => pc[f] # "idle")

ServerFairness ==
    /\ WF_vars(HandlerStep)
    /\ \A f \in Flushers : WF_vars(ScheduledFlush(f))
    /\ WF_vars(ProbeNothingPending)
    /\ WF_vars(Reconnect)

\* runSnapshotLoop ticks and its snapshots finish
SnapshotFairness == \A s \in Snapshotters : WF_vars(SnapshotStep(s))

\* Every outage ends, and there are only MaxOutages of them
OutagesEnd == WF_vars(LanceBack)

ServerSpec == Spec /\ ServerFairness
LiveSpec == ServerSpec /\ SnapshotFairness /\ OutagesEnd

-----------------------------------------------------------------------------
(* Properties.                                                             *)

\* Every variable holds a value of the kind the code keeps in it.
TypeOK ==
    /\ lance \in [Articles -> [Attrs -> Vals]]
    /\ stored \subseteq Articles
    /\ lanceUp \in BOOLEAN /\ isOffline \in BOOLEAN
    /\ overlay \in [Articles -> [Attrs -> OptVals]]
    /\ pending \subseteq Row
    /\ nextId \in Nat
    /\ cached \in [Articles -> [Attrs -> OptVals]]
    /\ inflight \subseteq Flight
    /\ pc \in [Flushers -> {"idle", "marks", "overrides", "clear", "evict",
                            "uncache", "reconnect"}]
    /\ batch \in [Flushers -> SUBSET Row]
    /\ feedsLeft \in [Flushers -> SUBSET Feeds]
    /\ articlesLeft \in [Flushers -> SUBSET Articles]
    /\ snap \in [Snapshotters -> [Articles -> [Attrs -> OptVals]]]
    /\ outages \in Nat /\ crashes \in Nat
    /\ want \in [Articles -> [Attrs -> Vals]]
    /\ contested \subseteq Cells

\* Once no pending change is left for a cell whose last change was a plain one,
\* Lance holds what the user last asked for: through retries of half-written
\* replays, outages, answers lost after the UPDATE, crashes and evictions.
SettledIsWanted ==
    \A a \in stored, x \in Attrs :
        (<<a, x>> \notin contested /\ ~\E r \in pending : Touches(r, a, x))
            => lance[a][x] = want[a][x]

\* The overlay of such a cell, unless a handler is about to record a change of
\* it, shows what the user last asked for: the overlay, which handlers and
\* replays write in two separate steps from pending_changes, never disagrees
\* with the table about the user's last word.
OverlayIsWanted ==
    \A a \in stored, x \in Attrs :
        (<<a, x>> \notin contested /\ ~InFlight(a, x))
            => overlay[a][x] \in {Unset, want[a][x]}

\* Dropping the overlay at the end of a flush changes nothing a reader sees of
\* such a cell: what the overlay hid is by then in Lance.
KeepsView ==
    \A a \in stored, x \in Attrs :
        (/\ crashes' = crashes
         /\ overlay[a][x] # Unset /\ overlay'[a][x] = Unset
         /\ <<a, x>> \notin contested /\ ~InFlight(a, x))
            => View(a, x)' = View(a, x)
FlushKeepsView == [][KeepsView]_vars

\* Every change recorded is eventually out of pending_changes, if outages end.
PendingDrains == (pending # {}) ~> (pending = {})

\* The server does not stay offline for ever, if outages end.
BackOnline == isOffline ~> ~isOffline

\* Once users, crashes and outages pause, cached_articles catches up with what
\* online readers see, whatever stale snapshots were written before: the rows
\* an outage would then serve are the right ones.
CacheConverges ==
    <>[](\A a \in stored, x \in Attrs :
            cached[a] # Blank => cached[a][x] = View(a, x))
-----------------------------------------------------------------------------
(* OfflineStore as a write-behind buffer of cells.  An article that is not *)
(* stored yet is as the fetcher will write it.                             *)

RowsOf(a, x) == {r \in pending : Touches(r, a, x)}
CellsOf(table) == [c \in Cells |->
    IF c[1] \in stored THEN table[c[1]][c[2]] ELSE "false"]
WaitingValues == [c \in Cells |->
    IF c[1] \in stored THEN {ValOf(r.action) : r \in RowsOf(c[1], c[2])} ELSE {}]

Buffer == INSTANCE WriteBehind
    WITH Values <- Vals, wanted <- CellsOf(want), kept <- CellsOf(lance),
         waiting <- WaitingValues,
         raced <- {c \in contested : c[1] \in stored}

\* Every step of requests, replays, outages, crashes and the fetcher is one of
\* a write-behind buffer: a replay writes no value that is not pending, and
\* strikes off no row of a plain change that Lance does not have.
ImplementsWriteBehind == Buffer!BufferSpec
=============================================================================
