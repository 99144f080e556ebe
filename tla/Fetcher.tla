------------------------------ MODULE Fetcher ------------------------------
(***************************************************************************)
(* The feed fetcher (fetcher/main.py, fetcher/db.py): a cycle reads the    *)
(* feeds that are due, fetches them in a pool of threads that fill two     *)
(* lists, new articles and feed updates, and then writes the articles in   *)
(* one append and the updates one by one.  A process may die, or a write   *)
(* raise, anywhere in between, and nothing keeps two processes (a daemon   *)
(* and a cron job) from running at the same time.                          *)
(*                                                                         *)
(* fetch_one is one step: what it reads matters, not when it appends.      *)
(* Minutes only show in which feeds are due, days in the dates; an         *)
(* interval is named by the tier it belongs to.  The source of a feed      *)
(* keeps what it has published, and has each guid once.                    *)
(***************************************************************************)
EXTENDS Integers, Sequences

CONSTANTS
    Fetchers,     \* fetcher processes
    Daemon,       \* the one that runs for ever
    Feeds, Guids,
    Threshold,    \* days without a new article after which a tier is left
    LastDay,      \* bound on the days that pass
    MaxFailures,  \* bound on fetches that fail
    MaxDeaths     \* bound on processes that die in a cycle

Tiers == <<"active", "slowing", "quiet", "dormant", "dead">>
TierNames == {Tiers[i] : i \in DOMAIN Tiers}
Never == -1

ASSUME FetcherAssumption ==
    /\ Daemon \in Fetchers
    /\ Threshold \in [TierNames \ {"dead"} -> Nat]
    /\ LastDay \in Nat /\ MaxFailures \in Nat /\ MaxDeaths \in Nat

VARIABLES
    known,        \* the feeds that have a row
    tier, interval, lastArticle, due,  \* and what is in it
    articles,     \* how often each article is stored
    published,    \* what the source of each feed has
    today,
    phase,        \* of each process: "idle", "fetch", "articles", "updates"
    todo,         \* feeds it has still to fetch, with the rows it read
    articleBatch, \* db._article_batch
    feedUpdates,  \* db._feed_updates
    failures, deaths,
    seen,         \* history: what the last fetch recorded in the row had found
    overlapped,   \* history: have two cycles run at the same time?
    torn          \* history: feeds whose tier was written without its interval

row == <<known, tier, interval, lastArticle, due>>
cycle == <<phase, todo, articleBatch, feedUpdates>>
world == <<published, today, failures, deaths>>
history == <<seen, overlapped, torn>>
fetchVars == <<row, articles, cycle, world, history>>

Idle(p) == phase[p] = "idle"

FetchInit ==
    /\ known \in SUBSET Feeds
    /\ tier = [f \in Feeds |-> "active"]
    /\ interval = [f \in Feeds |-> "active"]
    /\ lastArticle = [f \in Feeds |-> Never]
    /\ due = [f \in Feeds |-> TRUE]
    /\ articles = [f \in Feeds |-> [g \in Guids |-> 0]]
    /\ published = [f \in Feeds |-> {}]
    /\ today = 0
    /\ phase = [p \in Fetchers |-> "idle"]
    /\ todo = [p \in Fetchers |-> {}]
    /\ articleBatch = [p \in Fetchers |-> {}]
    /\ feedUpdates = [p \in Fetchers |-> <<>>]
    /\ failures = 0 /\ deaths = 0
    /\ seen = [f \in Feeds |-> {}]
    /\ overlapped = FALSE /\ torn = {}

-----------------------------------------------------------------------------
(* The world.                                                              *)

Publish(f, g) ==
    /\ g \notin published[f]
    /\ published' = [published EXCEPT ![f] = @ \cup {g}]
    /\ UNCHANGED <<row, articles, cycle, today, failures, deaths, history>>

DayPasses ==
    /\ today < LastDay
    /\ today' = today + 1
    /\ UNCHANGED <<row, articles, cycle, published, failures, deaths, history>>

\* fetch_interval_mins have passed since last_fetched
Elapses(f) ==
    /\ f \in known /\ ~due[f]
    /\ due' = [due EXCEPT ![f] = TRUE]
    /\ UNCHANGED <<known, tier, interval, lastArticle, articles, cycle, world,
                   history>>

-----------------------------------------------------------------------------
(* --add.                                                                  *)

\* The row is written first.  With no articles, or when the fetch fails, that
\* is all, or last_fetched is set; else making the articles raises (uuid is not
\* imported), and the feed is left as due.
AddFeed(f) ==
    /\ f \notin known
    /\ known' = known \cup {f}
    /\ due' \in {[due EXCEPT ![f] = d] : d \in {TRUE, published[f] # {}}}
    /\ UNCHANGED <<tier, interval, lastArticle, articles, cycle, world,
                   history>>

-----------------------------------------------------------------------------
(* run_once.                                                               *)

\* Mutation: only feeds of the first tier are ever due.
GetFeedsDueActive == {f \in known : due[f] /\ tier[f] = "active"}
GetFeedsDue == {f \in known : due[f] /\ tier[f] # "dead"}

RunOnce(p) ==
    /\ Idle(p) /\ GetFeedsDue # {}
    /\ phase' = [phase EXCEPT ![p] = "fetch"]
    /\ todo' = [todo EXCEPT ![p] =
                  {[feed |-> f, tier |-> tier[f], last |-> lastArticle[f]] :
                      f \in GetFeedsDue}]
    /\ articleBatch' = [articleBatch EXCEPT ![p] = {}]
    /\ feedUpdates' = [feedUpdates EXCEPT ![p] = <<>>]
    /\ overlapped' = (overlapped \/ \E q \in Fetchers : ~Idle(q))
    /\ UNCHANGED <<row, articles, world, seen, torn>>

Place(t) == CHOOSE i \in DOMAIN Tiers : Tiers[i] = t

\* Mutation: the thresholds are compared from the last tier up.
ComputeNewTierLast(current, last, hadNew) ==
    LET passed == {i \in 1..4 : /\ last # Never
                                /\ today - last >= Threshold[Tiers[i]]
                                /\ i + 1 > Place(current)}
    IN CASE hadNew -> IF current = "active" THEN "none" ELSE "active"
         [] ~hadNew /\ passed = {} -> "none"
         [] OTHER -> Tiers[1 + CHOOSE i \in passed : \A j \in passed : i >= j]

\* _compute_new_tier: the first tier that has been left and leads further down
ComputeNewTier(current, last, hadNew) ==
    LET passed == {i \in 1..4 : /\ last # Never
                                /\ today - last >= Threshold[Tiers[i]]
                                /\ i + 1 > Place(current)}
    IN CASE hadNew -> IF current = "active" THEN "none" ELSE "active"
         [] ~hadNew /\ passed = {} -> "none"
         [] OTHER -> Tiers[1 + CHOOSE i \in passed : \A j \in passed : i <= j]

\* Mutation: articles that are stored already are not filtered out.
NewArticlesAll(f) == published[f]
NewArticles(f) == {g \in published[f] : articles[f][g] = 0}

Done(p, r) == todo' = [todo EXCEPT ![p] = @ \ {r}]

AddArticles(p, f) ==
    articleBatch' = [articleBatch EXCEPT ![p] = @ \cup ({f} \X NewArticles(f))]

\* The date of the newest of the new articles, past or to come; or none has one
LastPub(f) == IF NewArticles(f) = {} THEN {Never} ELSE {Never} \cup 0..LastDay

Queue(p, list) == feedUpdates' = [feedUpdates EXCEPT ![p] = @ \o list]

Record(f, date, t) ==
    [feed |-> f, kind |-> "fetched", date |-> date, tier |-> t,
     saw |-> published[f]]
Interval(f, t) ==
    [feed |-> f, kind |-> "interval", date |-> Never, tier |-> t, saw |-> {}]
Failure(f) ==
    [feed |-> f, kind |-> "failed", date |-> Never, tier |-> "none", saw |-> {}]

\* Mutation: the interval of the new tier is not queued.
FetchOneNoInterval(p, r) ==
    /\ phase[p] = "fetch" /\ r \in todo[p]
    /\ Done(p, r)
    /\ AddArticles(p, r.feed)
    /\ LET t == ComputeNewTier(r.tier, r.last, NewArticles(r.feed) # {})
       IN \E date \in LastPub(r.feed) : Queue(p, <<Record(r.feed, date, t)>>)
    /\ UNCHANGED <<row, articles, phase, world, history>>

\* Mutation: the interval is queued before the tier.
FetchOneIntervalFirst(p, r) ==
    /\ phase[p] = "fetch" /\ r \in todo[p]
    /\ Done(p, r)
    /\ AddArticles(p, r.feed)
    /\ LET t == ComputeNewTier(r.tier, r.last, NewArticles(r.feed) # {})
       IN \E date \in LastPub(r.feed) :
             Queue(p, IF t = "none" THEN <<Record(r.feed, date, t)>>
                      ELSE <<Interval(r.feed, t), Record(r.feed, date, t)>>)
    /\ UNCHANGED <<row, articles, phase, world, history>>

FetchOne(p, r) ==
    /\ phase[p] = "fetch" /\ r \in todo[p]
    /\ Done(p, r)
    /\ AddArticles(p, r.feed)
    /\ LET t == ComputeNewTier(r.tier, r.last, NewArticles(r.feed) # {})
       IN \E date \in LastPub(r.feed) :
             Queue(p, IF t = "none" THEN <<Record(r.feed, date, t)>>
                      ELSE <<Record(r.feed, date, t), Interval(r.feed, t)>>)
    /\ UNCHANGED <<row, articles, phase, world, history>>

FetchFails(p, r) ==
    /\ phase[p] = "fetch" /\ r \in todo[p]
    /\ failures < MaxFailures /\ failures' = failures + 1
    /\ Done(p, r)
    /\ Queue(p, <<Failure(r.feed)>>)
    /\ UNCHANGED <<row, articles, phase, articleBatch, published, today, deaths,
                   history>>

\* An exception in the thread, before or after its articles are in the batch
FetchRaises(p, r) ==
    /\ phase[p] = "fetch" /\ r \in todo[p]
    /\ failures < MaxFailures /\ failures' = failures + 1
    /\ Done(p, r)
    /\ AddArticles(p, r.feed) \/ UNCHANGED articleBatch
    /\ UNCHANGED <<row, articles, phase, feedUpdates, published, today, deaths,
                   history>>

-----------------------------------------------------------------------------
(* flush_batch.                                                            *)

\* Mutation: the articles are written after the updates.
FlushArticlesLast(p) ==
    /\ \/ phase[p] = "fetch" /\ todo[p] = {}
          /\ phase' = [phase EXCEPT ![p] = "updates"]
          /\ UNCHANGED articles
       \/ phase[p] = "updates" /\ feedUpdates[p] = <<>>
          /\ phase' = [phase EXCEPT ![p] = "idle"]
          /\ articles' = [f \in Feeds |-> [g \in Guids |->
                articles[f][g] + IF <<f, g>> \in articleBatch[p] THEN 1 ELSE 0]]
    /\ UNCHANGED <<row, todo, articleBatch, feedUpdates, world, history>>

FlushArticles(p) ==
    /\ phase[p] = "fetch" /\ todo[p] = {}
    /\ phase' = [phase EXCEPT ![p] = "updates"]
    /\ articles' = [f \in Feeds |-> [g \in Guids |->
          articles[f][g] + IF <<f, g>> \in articleBatch[p] THEN 1 ELSE 0]]
    /\ UNCHANGED <<row, todo, articleBatch, feedUpdates, world, history>>

\* feeds.update: every kind but the interval sets last_fetched
FlushUpdate(p) ==
    /\ phase[p] = "updates" /\ feedUpdates[p] # <<>>
    /\ LET u == Head(feedUpdates[p])
           f == u.feed
       IN /\ due' = [due EXCEPT ![f] = @ /\ u.kind = "interval"]
          /\ interval' = [interval EXCEPT ![f] =
                            IF u.kind = "interval" THEN u.tier ELSE @]
          /\ tier' = [tier EXCEPT ![f] =
                        IF u.kind = "fetched" /\ u.tier # "none"
                        THEN u.tier ELSE @]
          /\ lastArticle' = [lastArticle EXCEPT ![f] =
                               IF u.date # Never THEN u.date ELSE @]
          /\ seen' = [seen EXCEPT ![f] =
                        IF u.kind = "fetched" THEN u.saw ELSE @]
          /\ torn' = IF u.kind = "interval" THEN torn \ {f} ELSE torn
    /\ feedUpdates' = [feedUpdates EXCEPT ![p] = Tail(@)]
    /\ UNCHANGED <<known, articles, phase, todo, articleBatch, world,
                   overlapped>>

\* What follows, the log batch, compaction and log trimming, changes no feed
CycleEnds(p) ==
    /\ phase[p] = "updates" /\ feedUpdates[p] = <<>>
    /\ phase' = [phase EXCEPT ![p] = "idle"]
    /\ articleBatch' = [articleBatch EXCEPT ![p] = {}]
    /\ UNCHANGED <<row, articles, todo, feedUpdates, world, history>>

\* An exception outside the pool ends the process like a crash; the daemon is
\* started again by whoever runs it
Dies(p) ==
    /\ ~Idle(p)
    /\ deaths < MaxDeaths /\ deaths' = deaths + 1
    /\ phase' = [phase EXCEPT ![p] = "idle"]
    /\ todo' = [todo EXCEPT ![p] = {}]
    /\ articleBatch' = [articleBatch EXCEPT ![p] = {}]
    /\ feedUpdates' = [feedUpdates EXCEPT ![p] = <<>>]
    /\ torn' = IF /\ phase[p] = "updates" /\ feedUpdates[p] # <<>>
                  /\ Head(feedUpdates[p]).kind = "interval"
               THEN torn \cup {Head(feedUpdates[p]).feed} ELSE torn
    /\ UNCHANGED <<row, articles, published, today, failures, seen, overlapped>>

CycleStep(p) ==
    \/ RunOnce(p) \/ FlushArticles(p) \/ FlushUpdate(p) \/ CycleEnds(p)
    \/ \E r \in todo[p] :
          FetchOne(p, r) \/ FetchFails(p, r) \/ FetchRaises(p, r)

FeedStep(f) == Elapses(f) \/ AddFeed(f) \/ \E g \in Guids : Publish(f, g)

FetchNext ==
    \/ \E f \in Feeds : FeedStep(f)
    \/ DayPasses
    \/ \E p \in Fetchers : CycleStep(p) \/ Dies(p)

FetchSpec == FetchInit /\ [][FetchNext]_fetchVars

\* The daemon is kept running, intervals pass
FetchFairness ==
    /\ WF_fetchVars(CycleStep(Daemon))
    /\ \A f \in Feeds : WF_fetchVars(Elapses(f))

-----------------------------------------------------------------------------
\* Nothing is left to be fetched after the fetches, and nothing of the batches
\* between cycles.
FetchTypeOK ==
    /\ known \subseteq Feeds
    /\ tier \in [Feeds -> TierNames] /\ interval \in [Feeds -> TierNames]
    /\ lastArticle \in [Feeds -> {Never} \cup 0..LastDay]
    /\ due \in [Feeds -> BOOLEAN]
    /\ articles \in [Feeds -> [Guids -> Nat]]
    /\ published \in [Feeds -> SUBSET Guids] /\ today \in 0..LastDay
    /\ phase \in [Fetchers -> {"idle", "fetch", "updates"}]
    /\ todo \in [Fetchers -> SUBSET [feed : known, tier : TierNames,
                                     last : {Never} \cup 0..LastDay]]
    /\ articleBatch \in [Fetchers -> SUBSET (known \X Guids)]
    /\ feedUpdates \in [Fetchers ->
          Seq([feed : known, kind : {"fetched", "interval", "failed"},
               date : {Never} \cup 0..LastDay, tier : TierNames \cup {"none"},
               saw : SUBSET Guids])]
    /\ \A p \in Fetchers :
          /\ phase[p] # "fetch" => todo[p] = {}
          /\ Idle(p) => articleBatch[p] = {} /\ feedUpdates[p] = <<>>
    /\ failures \in 0..MaxFailures /\ deaths \in 0..MaxDeaths
    /\ seen \in [Feeds -> SUBSET Guids] /\ overlapped \in BOOLEAN
    /\ torn \subseteq Feeds

\* A feed is only marked as fetched once everything that fetch found is stored:
\* whatever dies between the two writes, nothing is skipped by the next fetch.
FetchedIsStored == \A f \in Feeds : \A g \in seen[f] : articles[f][g] > 0

\* An article is stored once, also when the process died after the articles and
\* before the updates, unless two cycles ran at the same time.
StoredOnce ==
    ~overlapped => \A f \in Feeds, g \in Guids : articles[f][g] <= 1

\* A feed that has had no new article goes down one tier at a time, and up only
\* to "active"; two cycles at once may do otherwise, and so may thresholds,
\* which the settings table may change, that fall from one tier to the next.
TierSteps ==
    [][\A f \in Feeds :
          (tier'[f] # tier[f] /\ ~overlapped) =>
             \/ tier'[f] = "active"
             \/ Place(tier'[f]) = Place(tier[f]) + 1]_fetchVars

\* Between cycles a feed has the interval of its tier, unless a process died
\* between the two updates; a feed torn so when it turns active stays so.
IntervalFitsTier ==
    (\A p \in Fetchers : Idle(p)) /\ ~overlapped =>
        \A f \in Feeds \ torn : interval[f] = tier[f]

\* What a feed publishes is stored in the end, though fetches fail, processes
\* die or --add raises, unless the feed is dead.
EveryArticleArrives ==
    \A f \in Feeds, g \in Guids :
        (f \in known /\ g \in published[f]) ~>
            (articles[f][g] > 0 \/ tier[f] = "dead")
=============================================================================
