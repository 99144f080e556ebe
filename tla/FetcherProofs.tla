--------------------------- MODULE FetcherProofs ---------------------------
(***************************************************************************)
(* Theorems about Fetcher, for any number of fetcher processes, feeds and  *)
(* articles, of days, failures and deaths, and for all thresholds.         *)
(***************************************************************************)
EXTENDS FetcherInv, TLAPS

USE FetcherAssumption DEF FetcherAssumption

Dates == {Never} \cup 0..LastDay
Rows(K) == [feed : K, tier : TierNames, last : Dates]
Updates(K) == [feed : K, kind : {"fetched", "interval", "failed"}, date : Dates,
               tier : TierNames \cup {"none"}, saw : SUBSET Guids]

-----------------------------------------------------------------------------
(* The ladder of tiers.                                                    *)

LEMMA TierFacts ==
    /\ DOMAIN Tiers = 1..5
    /\ TierNames = {"active", "slowing", "quiet", "dormant", "dead"}
    /\ Tiers[1] = "active" /\ Tiers[2] = "slowing" /\ Tiers[3] = "quiet"
    /\ Tiers[4] = "dormant" /\ Tiers[5] = "dead"
<1>1. /\ DOMAIN Tiers = 1..5
      /\ Tiers[1] = "active" /\ Tiers[2] = "slowing" /\ Tiers[3] = "quiet"
      /\ Tiers[4] = "dormant" /\ Tiers[5] = "dead"
  BY DEF Tiers
<1>2. 1..5 = {1, 2, 3, 4, 5}  OBVIOUS
<1>3. TierNames = {"active", "slowing", "quiet", "dormant", "dead"}
  BY <1>1, <1>2 DEF TierNames
<1>4. QED  BY <1>1, <1>3

LEMMA PlaceFacts ==
    /\ \A t \in TierNames : Place(t) \in 1..5 /\ Tiers[Place(t)] = t
    /\ \A i \in 1..5 : Place(Tiers[i]) = i
<1>1. \A i, j \in 1..5 : Tiers[i] = Tiers[j] => i = j
  <2>1. \A i \in 1..5 : i \in {1, 2, 3, 4, 5}  OBVIOUS
  <2>2. QED  BY <2>1, TierFacts
<1>2. ASSUME NEW t \in TierNames
      PROVE  Place(t) \in 1..5 /\ Tiers[Place(t)] = t
  <2>1. \E i \in DOMAIN Tiers : Tiers[i] = t  BY DEF TierNames
  <2>2. QED  BY <2>1, TierFacts DEF Place
<1>3. ASSUME NEW i \in 1..5 PROVE Place(Tiers[i]) = i
  <2>1. Tiers[i] \in TierNames  BY TierFacts DEF TierNames
  <2>2. QED  BY <1>1, <1>2, <2>1
<1>4. QED  BY <1>2, <1>3

LEMMA FirstOf ==
    ASSUME NEW S \in SUBSET (1..4), S # {}
    PROVE  \E i \in S : \A j \in S : i <= j
<1>1. \A j \in S : j \in {1, 2, 3, 4}  OBVIOUS
<1>2. CASE 1 \in S  BY <1>1, <1>2
<1>3. CASE 1 \notin S /\ 2 \in S  BY <1>1, <1>3
<1>4. CASE 1 \notin S /\ 2 \notin S /\ 3 \in S  BY <1>1, <1>4
<1>5. CASE 1 \notin S /\ 2 \notin S /\ 3 \notin S
  <2>1. 4 \in S  BY <1>1, <1>5
  <2>2. QED  BY <1>1, <1>5, <2>1
<1>6. QED  BY <1>2, <1>3, <1>4, <1>5

\* A tier is left for "active" or for the one below it
LEMMA NewTierIsNext ==
    ASSUME today \in Nat, NEW current \in TierNames, NEW last \in Dates,
           NEW hadNew \in BOOLEAN
    PROVE  /\ ComputeNewTier(current, last, hadNew) \in TierNames \cup {"none"}
           /\ Rising =>
                 \/ ComputeNewTier(current, last, hadNew) \in {"none", "active"}
                 \/ StepDown(current, ComputeNewTier(current, last, hadNew))
<1> DEFINE passed == {i \in 1..4 : /\ last # Never
                                   /\ today - last >= Threshold[Tiers[i]]
                                   /\ i + 1 > Place(current)}
           first == CHOOSE i \in passed : \A j \in passed : i <= j
<1>p. Place(current) \in 1..5  BY PlaceFacts
<1>1. CASE hadNew
  <2>1. ComputeNewTier(current, last, hadNew) \in {"none", "active"}
    BY <1>1 DEF ComputeNewTier
  <2>2. QED  BY <2>1, TierFacts
<1>2. CASE ~hadNew /\ passed = {}
  <2>1. ComputeNewTier(current, last, hadNew) = "none"
    BY <1>2 DEF ComputeNewTier
  <2>2. QED  BY <2>1
<1>3. CASE ~hadNew /\ passed # {}
  <2>1. ComputeNewTier(current, last, hadNew) = Tiers[1 + first]
    BY <1>3 DEF ComputeNewTier
  <2>2. first \in passed /\ \A j \in passed : first <= j
    <3>1. passed \in SUBSET (1..4)  OBVIOUS
    <3>2. \E i \in passed : \A j \in passed : i <= j  BY <1>3, <3>1, FirstOf
    <3>3. QED  BY <3>2
  <2>3. first \in 1..4 /\ first + 1 > Place(current)  BY <2>2
  <2> HIDE DEF first
  <2>4. ASSUME Rising PROVE first = Place(current)
    <3>1. Place(current) \in 1..4 /\ Place(current) <= first
      BY <1>p, <2>3
    <3>2. last # Never /\ today - last >= Threshold[Tiers[first]]
      BY <2>2
    <3>3. Threshold[Tiers[Place(current)]] <= Threshold[Tiers[first]]
      BY <2>3, <2>4, <3>1 DEF Rising
    <3>4. /\ Threshold[Tiers[Place(current)]] \in Nat
          /\ Threshold[Tiers[first]] \in Nat
      <4>1. \A i \in 1..4 : Tiers[i] \in TierNames \ {"dead"}
        <5>1. \A i \in 1..4 : i \in {1, 2, 3, 4}  OBVIOUS
        <5>2. QED  BY <5>1, TierFacts
      <4>2. QED  BY <2>3, <3>1, <4>1
    <3>5. today - last \in Int  BY DEF Dates, Never
    <3>6. today - last >= Threshold[Tiers[Place(current)]]
      BY <3>2, <3>3, <3>4, <3>5
    <3>7. Place(current) \in passed  BY <1>p, <3>1, <3>2, <3>6
    <3> HIDE DEF passed
    <3>8. first <= Place(current)  BY <2>2, <3>7
    <3>9. QED  BY <1>p, <2>3, <3>8
  <2> HIDE DEF passed
  <2>5. 1 + first \in 1..5 /\ Tiers[1 + first] \in TierNames
    BY <2>3, TierFacts DEF TierNames
  <2>6. Place(Tiers[1 + first]) = 1 + first  BY <2>5, PlaceFacts
  <2>7. Rising => Place(Tiers[1 + first]) = Place(current) + 1
    BY <1>p, <2>3, <2>4, <2>6
  <2>8. QED  BY <2>1, <2>5, <2>7 DEF StepDown
<1>4. QED  BY <1>1, <1>2, <1>3

-----------------------------------------------------------------------------
(* Type correctness.  RowType and CycleType are the two halves of it.      *)

RowType ==
    /\ known \subseteq Feeds
    /\ tier \in [Feeds -> TierNames] /\ interval \in [Feeds -> TierNames]
    /\ lastArticle \in [Feeds -> Dates]
    /\ due \in [Feeds -> BOOLEAN]
    /\ articles \in [Feeds -> [Guids -> Nat]]
    /\ published \in [Feeds -> SUBSET Guids] /\ today \in 0..LastDay
    /\ failures \in 0..MaxFailures /\ deaths \in 0..MaxDeaths
    /\ seen \in [Feeds -> SUBSET Guids] /\ overlapped \in BOOLEAN
    /\ torn \subseteq Feeds

CycleType ==
    /\ phase \in [Fetchers -> {"idle", "fetch", "updates"}]
    /\ todo \in [Fetchers -> SUBSET Rows(known)]
    /\ articleBatch \in [Fetchers -> SUBSET (known \X Guids)]
    /\ feedUpdates \in [Fetchers -> Seq(Updates(known))]
    /\ \A p \in Fetchers :
          /\ phase[p] # "fetch" => todo[p] = {}
          /\ Idle(p) => articleBatch[p] = {} /\ feedUpdates[p] = <<>>

LEMMA TypeParts == FetchTypeOK <=> RowType /\ CycleType
BY DEF FetchTypeOK, RowType, CycleType, Rows, Updates, Dates

LEMMA UpdatesGrow ==
    ASSUME NEW K, NEW L, K \subseteq L
    PROVE  /\ Rows(K) \subseteq Rows(L) /\ (K \X Guids) \subseteq (L \X Guids)
           /\ Seq(Updates(K)) \subseteq Seq(Updates(L))
<1>1. Rows(K) \subseteq Rows(L) /\ Updates(K) \subseteq Updates(L)
  BY DEF Rows, Updates
<1>2. QED  BY <1>1

LEMMA WorldType ==
    ASSUME RowType, CycleType,
           \/ \E f \in Feeds : FeedStep(f)
           \/ DayPasses
    PROVE  RowType' /\ CycleType'
<1>1. ASSUME NEW f \in Feeds, NEW g \in Guids, Publish(f, g)
      PROVE  RowType' /\ CycleType'
  BY <1>1 DEF Publish, RowType, CycleType, row, cycle, history, Idle
<1>2. ASSUME NEW f \in Feeds, Elapses(f) PROVE RowType' /\ CycleType'
  BY <1>2 DEF Elapses, RowType, CycleType, cycle, world, history, Idle
<1>3. ASSUME NEW f \in Feeds, AddFeed(f) PROVE RowType' /\ CycleType'
  <2>1. RowType'
    <3>1. due' \in [Feeds -> BOOLEAN]  BY <1>3 DEF AddFeed, RowType
    <3>2. QED  BY <1>3, <3>1 DEF AddFeed, RowType, world, history
  <2>2. CycleType'
    <3>1. known \subseteq known' /\ UNCHANGED cycle  BY <1>3 DEF AddFeed
    <3>2. QED  BY <3>1, UpdatesGrow DEF CycleType, cycle, Idle
  <2>3. QED  BY <2>1, <2>2
<1>4. CASE DayPasses
  BY <1>4 DEF DayPasses, RowType, CycleType, row, cycle, history, Idle
<1>5. QED  BY <1>1, <1>2, <1>3, <1>4 DEF FeedStep

\* What fetch_one queues
LEMMA ListType ==
    ASSUME RowType, NEW f \in known, NEW date \in Dates,
           NEW t \in TierNames \cup {"none"}
    PROVE  /\ Record(f, date, t) \in Updates(known)
           /\ Interval(f, t) \in Updates(known)
           /\ Failure(f) \in Updates(known)
BY DEF Record, Interval, Failure, Updates, RowType, Dates

\* A fetch leaves one update, or two, or none, and some articles or none
FetchResult(p, r) ==
    /\ phase[p] = "fetch" /\ r \in todo[p]
    /\ Done(p, r)
    /\ AddArticles(p, r.feed) \/ UNCHANGED articleBatch
    /\ \/ UNCHANGED feedUpdates
       \/ Queue(p, <<Failure(r.feed)>>)
       \/ /\ AddArticles(p, r.feed)
          /\ LET t == ComputeNewTier(r.tier, r.last, NewArticles(r.feed) # {})
             IN \E date \in LastPub(r.feed) :
                   \/ t = "none" /\ Queue(p, <<Record(r.feed, date, t)>>)
                   \/ t # "none" /\ Queue(p, <<Record(r.feed, date, t),
                                               Interval(r.feed, t)>>)
    /\ UNCHANGED <<row, articles, phase, published, today, deaths, history>>

LEMMA FetchResults ==
    ASSUME NEW p \in Fetchers, NEW r,
           FetchOne(p, r) \/ FetchFails(p, r) \/ FetchRaises(p, r)
    PROVE  FetchResult(p, r)
<1>1. CASE FetchOne(p, r)
  BY <1>1 DEF FetchOne, FetchResult, world
<1>2. CASE FetchFails(p, r)
  BY <1>2 DEF FetchFails, FetchResult
<1>3. CASE FetchRaises(p, r)
  BY <1>3 DEF FetchRaises, FetchResult
<1>4. QED  BY <1>1, <1>2, <1>3

LEMMA FetchType ==
    ASSUME RowType, CycleType, NEW p \in Fetchers, NEW r, FetchResult(p, r),
           failures' \in 0..MaxFailures
    PROVE  RowType' /\ CycleType'
<1>1. RowType'
  BY DEF FetchResult, RowType, row, history
<1>2. r.feed \in known /\ r.tier \in TierNames /\ r.last \in Dates
  BY DEF FetchResult, CycleType, Rows
<1>3. todo' \in [Fetchers -> SUBSET Rows(known)]
  BY DEF FetchResult, Done, CycleType
<1>4. articleBatch' \in [Fetchers -> SUBSET (known \X Guids)]
  <2>1. NewArticles(r.feed) \subseteq Guids
    BY <1>2 DEF NewArticles, RowType
  <2>2. {r.feed} \X NewArticles(r.feed) \subseteq known \X Guids
    BY <1>2, <2>1
  <2>3. QED  BY <2>2 DEF FetchResult, AddArticles, CycleType
<1>5. feedUpdates' \in [Fetchers -> Seq(Updates(known))]
  <2>1. CASE UNCHANGED feedUpdates  BY <2>1 DEF CycleType
  <2>2. ASSUME NEW l \in Seq(Updates(known)), Queue(p, l)
        PROVE  feedUpdates' \in [Fetchers -> Seq(Updates(known))]
    BY <2>2 DEF Queue, CycleType
  <2>3. ASSUME NEW date \in LastPub(r.feed)
        PROVE  LET t == ComputeNewTier(r.tier, r.last,
                                       NewArticles(r.feed) # {})
               IN /\ Record(r.feed, date, t) \in Updates(known)
                  /\ Interval(r.feed, t) \in Updates(known)
    <3>1. date \in Dates  BY <2>3 DEF LastPub, Dates
    <3>2. today \in Nat  BY DEF RowType
    <3>3. QED  BY <1>2, <3>1, <3>2, NewTierIsNext, ListType
  <2>4. Failure(r.feed) \in Updates(known)
    BY <1>2, ListType, TierFacts DEF Dates
  <2>5. ASSUME NEW x \in Updates(known), NEW y \in Updates(known)
        PROVE  <<x>> \in Seq(Updates(known)) /\ <<x, y>> \in Seq(Updates(known))
    OBVIOUS
  <2>6. QED  BY <2>1, <2>2, <2>3, <2>4, <2>5 DEF FetchResult
<1>6. \A q \in Fetchers :
          /\ phase'[q] # "fetch" => todo'[q] = {}
          /\ Idle(q)' => articleBatch'[q] = {} /\ feedUpdates'[q] = <<>>
  <2>1. ASSUME NEW q \in Fetchers
        PROVE  /\ Idle(q)' => q # p /\ Idle(q)
               /\ phase'[q] # "fetch" => q # p /\ phase[q] # "fetch"
    BY DEF FetchResult, Idle
  <2>2. QED
    BY <2>1 DEF FetchResult, Done, AddArticles, Queue, CycleType
<1>7. known' = known /\ phase' = phase  BY DEF FetchResult, row
<1>8. QED  BY <1>1, <1>3, <1>4, <1>5, <1>6, <1>7 DEF CycleType

LEMMA CycleStepType ==
    ASSUME RowType, CycleType, IntervalFollows, NEW p \in Fetchers,
           CycleStep(p) \/ Dies(p)
    PROVE  RowType' /\ CycleType'
<1>1. CASE RunOnce(p)
  <2>1. RowType'  BY <1>1 DEF RunOnce, RowType, row, world
  <2>2. {[feed |-> f, tier |-> tier[f], last |-> lastArticle[f]] :
            f \in GetFeedsDue} \in SUBSET Rows(known)
    BY DEF GetFeedsDue, Rows, RowType
  <2>3. QED  BY <1>1, <2>1, <2>2 DEF RunOnce, CycleType, row, Idle
<1>2. ASSUME NEW r \in todo[p],
             FetchOne(p, r) \/ FetchFails(p, r) \/ FetchRaises(p, r)
      PROVE  RowType' /\ CycleType'
  <2>1. failures' \in 0..MaxFailures
    BY <1>2 DEF FetchOne, FetchFails, FetchRaises, world, RowType
  <2>2. QED  BY <1>2, <2>1, FetchResults, FetchType
<1>3. CASE FlushArticles(p)
  <2>1. articles' \in [Feeds -> [Guids -> Nat]]
    BY <1>3 DEF FlushArticles, RowType
  <2>2. RowType'
    BY <1>3, <2>1 DEF FlushArticles, RowType, row, world, history
  <2>3. QED  BY <1>3, <2>2 DEF FlushArticles, CycleType, row, Idle
<1>4. CASE FlushUpdate(p)
  <2>1. /\ feedUpdates[p] \in Seq(Updates(known)) /\ feedUpdates[p] # <<>>
        /\ Head(feedUpdates[p]) \in Updates(known)
        /\ Tail(feedUpdates[p]) \in Seq(Updates(known))
    BY <1>4 DEF FlushUpdate, CycleType
  <2>2. PICK u \in Updates(known) : u = Head(feedUpdates[p])  BY <2>1
  <2>3. u.feed \in Feeds /\ u.date \in Dates /\ u.saw \in SUBSET Guids
        /\ u.tier \in TierNames \cup {"none"}
        /\ u.kind \in {"fetched", "interval", "failed"}
    BY <2>2 DEF Updates, RowType
  <2>4. /\ due' = [due EXCEPT ![u.feed] = @ /\ u.kind = "interval"]
        /\ interval' = [interval EXCEPT ![u.feed] =
                          IF u.kind = "interval" THEN u.tier ELSE @]
        /\ tier' = [tier EXCEPT ![u.feed] =
                      IF u.kind = "fetched" /\ u.tier # "none"
                      THEN u.tier ELSE @]
        /\ lastArticle' = [lastArticle EXCEPT ![u.feed] =
                             IF u.date # Never THEN u.date ELSE @]
        /\ seen' = [seen EXCEPT ![u.feed] =
                      IF u.kind = "fetched" THEN u.saw ELSE @]
        /\ torn' = IF u.kind = "interval" THEN torn \ {u.feed} ELSE torn
    BY <1>4, <2>2 DEF FlushUpdate
  <2>5. u.kind = "interval" => u.tier \in TierNames
    <3>1. 1 \in DOMAIN feedUpdates[p] /\ u = feedUpdates[p][1]
      BY <2>1, <2>2
    <3>2. QED  BY <2>3, <3>1 DEF IntervalFollows
  <2>6. RowType'
    <3>1. /\ due' \in [Feeds -> BOOLEAN] /\ interval' \in [Feeds -> TierNames]
          /\ tier' \in [Feeds -> TierNames]
      BY <2>3, <2>4, <2>5 DEF RowType
    <3>2. /\ lastArticle' \in [Feeds -> Dates]
          /\ seen' \in [Feeds -> SUBSET Guids] /\ torn' \subseteq Feeds
      BY <2>3, <2>4 DEF RowType
    <3>3. UNCHANGED <<known, articles, world, overlapped>>
      BY <1>4 DEF FlushUpdate
    <3>4. QED  BY <3>1, <3>2, <3>3 DEF RowType, world
  <2>7. CycleType'
    BY <1>4, <2>1 DEF FlushUpdate, CycleType, Idle
  <2>8. QED  BY <2>6, <2>7
<1>5. CASE CycleEnds(p)
  <2>1. RowType'  BY <1>5 DEF CycleEnds, RowType, row, world, history
  <2>2. CycleType'  BY <1>5 DEF CycleEnds, CycleType, row, Idle
  <2>3. QED  BY <2>1, <2>2
<1>6. CASE Dies(p)
  <2>1. torn' \subseteq Feeds
    <3>1. feedUpdates[p] # <<>> => Head(feedUpdates[p]).feed \in Feeds
      <4>1. feedUpdates[p] \in Seq(Updates(known))  BY DEF CycleType
      <4>2. feedUpdates[p] # <<>> => Head(feedUpdates[p]) \in Updates(known)
        BY <4>1
      <4>3. QED  BY <4>2 DEF Updates, RowType
    <3>2. QED  BY <1>6, <3>1 DEF Dies, RowType
  <2>2. RowType'  BY <1>6, <2>1 DEF Dies, RowType, row
  <2>3. CycleType'
    <3>1. <<>> \in Seq(Updates(known))  OBVIOUS
    <3>2. QED  BY <1>6, <3>1 DEF Dies, CycleType, row, Idle
  <2>4. QED  BY <2>2, <2>3
<1>7. QED  BY <1>1, <1>2, <1>3, <1>4, <1>5, <1>6 DEF CycleStep

-----------------------------------------------------------------------------
(* The rest of the invariant.                                              *)

Inductive ==
    /\ FetchedIsStored /\ RecordsStored
    /\ OneCycle /\ StoredOnce /\ BatchIsNew
    /\ TodoIsCurrent /\ TiersInStep /\ IntervalFollows /\ IntervalInStep

\* Publish, DayPasses, Elapses and AddFeed touch nothing of it
LEMMA WorldKeeps ==
    ASSUME Inductive,
           UNCHANGED <<tier, interval, articles, phase, todo, articleBatch,
                       feedUpdates, seen, overlapped, torn>>
    PROVE  Inductive'
<1>1. FetchedIsStored' /\ RecordsStored'
  BY DEF Inductive, FetchedIsStored, RecordsStored
<1>2. OneCycle' /\ StoredOnce' /\ BatchIsNew'
  BY DEF Inductive, OneCycle, Idle, StoredOnce, BatchIsNew
<1>3. TodoIsCurrent' /\ TiersInStep'
  BY DEF Inductive, TodoIsCurrent, TiersInStep, NewTier, StepDown, Rising
<1>4. IntervalFollows' /\ IntervalInStep'
  BY DEF Inductive, IntervalFollows, IntervalInStep, HalfWritten, NewTier
<1>5. QED  BY <1>1, <1>2, <1>3, <1>4 DEF Inductive

LEMMA RunOnceKeeps ==
    ASSUME RowType, CycleType, Inductive, NEW p \in Fetchers, RunOnce(p)
    PROVE  Inductive'
<1>r. /\ Idle(p) /\ feedUpdates[p] = <<>>
      /\ phase' = [phase EXCEPT ![p] = "fetch"]
      /\ articleBatch' = [articleBatch EXCEPT ![p] = {}]
      /\ feedUpdates' = [feedUpdates EXCEPT ![p] = <<>>]
      /\ todo' = [todo EXCEPT ![p] =
                    {[feed |-> f, tier |-> tier[f], last |-> lastArticle[f]] :
                        f \in GetFeedsDue}]
      /\ overlapped' = (overlapped \/ \E q \in Fetchers : ~Idle(q))
      /\ UNCHANGED <<tier, interval, articles, seen, torn>>
  BY DEF RunOnce, CycleType, row
<1>p. /\ phase'[p] = "fetch" /\ articleBatch'[p] = {} /\ feedUpdates'[p] = <<>>
      /\ \A q \in Fetchers : q # p =>
            /\ phase'[q] = phase[q] /\ todo'[q] = todo[q]
            /\ articleBatch'[q] = articleBatch[q]
            /\ feedUpdates'[q] = feedUpdates[q]
      /\ feedUpdates' = feedUpdates
  BY <1>r DEF CycleType
<1>i. ~overlapped' => ~overlapped /\ \A q \in Fetchers : Idle(q)
  BY <1>r DEF RowType
<1>1. FetchedIsStored'  BY <1>r DEF Inductive, FetchedIsStored
<1>2. RecordsStored'
  BY <1>p, <1>r DEF Inductive, RecordsStored
<1>3. OneCycle'  BY <1>i, <1>p DEF OneCycle, Idle
<1>4. StoredOnce'  BY <1>i, <1>r DEF Inductive, StoredOnce
<1>5. BatchIsNew'  BY <1>i, <1>p, <1>r DEF BatchIsNew, Idle
<1>6. TodoIsCurrent'
  <2>1. SUFFICES ASSUME ~overlapped', NEW q \in Fetchers, NEW r \in todo'[q]
                 PROVE  /\ r.tier = tier'[r.feed]
                        /\ \A s \in todo'[q] : s.feed = r.feed => s = r
                        /\ \A i \in DOMAIN feedUpdates'[q] :
                              feedUpdates'[q][i].feed # r.feed
    BY DEF TodoIsCurrent
  <2>2. q = p  BY <1>i, <1>p, <2>1 DEF CycleType, Idle
  <2>3. todo'[q] = {[feed |-> f, tier |-> tier[f], last |-> lastArticle[f]] :
                       f \in GetFeedsDue}
    BY <1>r, <2>2 DEF CycleType
  <2>4. QED  BY <1>p, <1>r, <2>1, <2>2, <2>3
<1>7. TiersInStep'
  <2>1. SUFFICES ASSUME ~overlapped'  PROVE TiersInStep'  BY DEF TiersInStep
  <2>2. \A q \in Fetchers : feedUpdates'[q] = <<>>
    BY <1>i, <1>p, <2>1 DEF CycleType
  <2>3. QED  BY <2>2 DEF TiersInStep
<1>8. IntervalFollows'
  BY <1>p DEF Inductive, IntervalFollows, NewTier
<1>9. IntervalInStep'
  BY <1>i, <1>p, <1>r DEF Inductive, IntervalInStep, HalfWritten
<1>10. QED
  BY <1>1, <1>2, <1>3, <1>4, <1>5, <1>6, <1>7, <1>8, <1>9 DEF Inductive

LEMMA QueuedOf ==
    ASSUME NEW S, NEW q \in Seq(S), NEW x \in S, NEW y \in S
    PROVE  /\ q \o <<x>> \in Seq(S) /\ Len(q \o <<x>>) = Len(q) + 1
           /\ \A i \in DOMAIN q : (q \o <<x>>)[i] = q[i]
           /\ (q \o <<x>>)[Len(q) + 1] = x
           /\ q \o <<x, y>> \in Seq(S) /\ Len(q \o <<x, y>>) = Len(q) + 2
           /\ \A i \in DOMAIN q : (q \o <<x, y>>)[i] = q[i]
           /\ (q \o <<x, y>>)[Len(q) + 1] = x
           /\ (q \o <<x, y>>)[Len(q) + 2] = y
<1>1. <<x>> \in Seq(S) /\ <<x, y>> \in Seq(S)  OBVIOUS
<1>2. QED  BY <1>1

\* What a fetch queues: n updates, x, and then y if x has a new tier
Queues(p, r, x, y, n) ==
    /\ feedUpdates[p] \in Seq(Updates(known))
    /\ feedUpdates'[p] \in Seq(Updates(known))
    /\ Len(feedUpdates'[p]) = Len(feedUpdates[p]) + n
    /\ \A i \in DOMAIN feedUpdates[p] : feedUpdates'[p][i] = feedUpdates[p][i]
    /\ n > 0 => /\ feedUpdates'[p][Len(feedUpdates[p]) + 1] = x
                /\ x.feed = r.feed /\ x.kind # "interval"
                /\ NewTier(x) <=> n = 2
                /\ NewTier(x) =>
                      x.tier = ComputeNewTier(r.tier, r.last,
                                              NewArticles(r.feed) # {})
                /\ \/ x.saw = {}
                   \/ x.saw = published[r.feed] /\ AddArticles(p, r.feed)
    /\ n = 2 => /\ feedUpdates'[p][Len(feedUpdates[p]) + 2] = y
                /\ y = Interval(r.feed, x.tier)

LEMMA QueuedUpdates ==
    ASSUME RowType, CycleType, NEW p \in Fetchers, NEW r, FetchResult(p, r)
    PROVE  \E x, y : \E n \in 0..2 : Queues(p, r, x, y, n)
<1>1. /\ feedUpdates[p] \in Seq(Updates(known))
      /\ r.feed \in known /\ r.tier \in TierNames /\ r.last \in Dates
  BY DEF FetchResult, CycleType, Rows
<1>2. \A l : Queue(p, l) => feedUpdates'[p] = feedUpdates[p] \o l
  BY DEF Queue, CycleType
<1>3. CASE UNCHANGED feedUpdates
  <2>1. Queues(p, r, 0, 0, 0)  BY <1>1, <1>3 DEF Queues
  <2>2. QED  BY <2>1
<1>4. CASE Queue(p, <<Failure(r.feed)>>)
  <2>1. Failure(r.feed) \in Updates(known)
    BY <1>1, ListType, TierFacts DEF Dates
  <2>2. /\ Failure(r.feed).feed = r.feed /\ Failure(r.feed).kind = "failed"
        /\ ~NewTier(Failure(r.feed)) /\ Failure(r.feed).saw = {}
    BY DEF Failure, NewTier
  <2>3. PICK x \in Updates(known) : x = Failure(r.feed)  BY <2>1
  <2>4. feedUpdates'[p] = feedUpdates[p] \o <<x>>  BY <1>2, <1>4, <2>3
  <2>5. /\ feedUpdates'[p] \in Seq(Updates(known))
        /\ Len(feedUpdates'[p]) = Len(feedUpdates[p]) + 1
        /\ \A i \in DOMAIN feedUpdates[p] :
              feedUpdates'[p][i] = feedUpdates[p][i]
        /\ feedUpdates'[p][Len(feedUpdates[p]) + 1] = x
    BY <1>1, <2>4, QueuedOf
  <2>6. Queues(p, r, x, 0, 1)  BY <1>1, <2>2, <2>3, <2>5 DEF Queues
  <2>7. QED  BY <2>6
<1>5. ASSUME AddArticles(p, r.feed), NEW date \in LastPub(r.feed), NEW t,
             t = ComputeNewTier(r.tier, r.last, NewArticles(r.feed) # {}),
             \/ t = "none" /\ Queue(p, <<Record(r.feed, date, t)>>)
             \/ t # "none" /\ Queue(p, <<Record(r.feed, date, t),
                                         Interval(r.feed, t)>>)
      PROVE  \E x, y : \E n \in 0..2 : Queues(p, r, x, y, n)
  <2>1. /\ Record(r.feed, date, t) \in Updates(known)
        /\ Interval(r.feed, t) \in Updates(known)
    <3>1. date \in Dates /\ today \in Nat
      BY <1>5 DEF LastPub, Dates, RowType
    <3>2. QED  BY <1>1, <1>5, <3>1, NewTierIsNext, ListType
  <2>2. PICK x \in Updates(known) : x = Record(r.feed, date, t)  BY <2>1
  <2>3. PICK y \in Updates(known) : y = Interval(r.feed, t)  BY <2>1
  <2>4. /\ x.feed = r.feed /\ x.kind = "fetched" /\ x.tier = t
        /\ x.saw = published[r.feed]
    BY <2>2 DEF Record
  <2>5. NewTier(x) <=> t # "none"  BY <2>4 DEF NewTier
  <2>6. CASE t = "none" /\ Queue(p, <<Record(r.feed, date, t)>>)
    <3>1. feedUpdates'[p] = feedUpdates[p] \o <<x>>  BY <1>2, <2>2, <2>6
    <3>2. /\ feedUpdates'[p] \in Seq(Updates(known))
          /\ Len(feedUpdates'[p]) = Len(feedUpdates[p]) + 1
          /\ \A i \in DOMAIN feedUpdates[p] :
                feedUpdates'[p][i] = feedUpdates[p][i]
          /\ feedUpdates'[p][Len(feedUpdates[p]) + 1] = x
      BY <1>1, <3>1, QueuedOf
    <3>3. Queues(p, r, x, 0, 1)
      BY <1>1, <1>5, <2>4, <2>5, <2>6, <3>2 DEF Queues
    <3>4. QED  BY <3>3
  <2>7. CASE t # "none" /\ Queue(p, <<Record(r.feed, date, t),
                                      Interval(r.feed, t)>>)
    <3>1. feedUpdates'[p] = feedUpdates[p] \o <<x, y>>
      BY <1>2, <2>2, <2>3, <2>7
    <3>2. /\ feedUpdates'[p] \in Seq(Updates(known))
          /\ Len(feedUpdates'[p]) = Len(feedUpdates[p]) + 2
          /\ \A i \in DOMAIN feedUpdates[p] :
                feedUpdates'[p][i] = feedUpdates[p][i]
          /\ feedUpdates'[p][Len(feedUpdates[p]) + 1] = x
          /\ feedUpdates'[p][Len(feedUpdates[p]) + 2] = y
      BY <1>1, <3>1, QueuedOf
    <3>3. Queues(p, r, x, y, 2)
      BY <1>1, <1>5, <2>3, <2>4, <2>5, <2>7, <3>2 DEF Queues
    <3>4. QED  BY <3>3
  <2>8. QED  BY <1>5, <2>6, <2>7
<1>6. QED  BY <1>3, <1>4, <1>5 DEF FetchResult

\* Nothing is stored: the list of updates grows, and the batch of articles
LEMMA FetchKeeps ==
    ASSUME RowType, CycleType, Inductive, NEW p \in Fetchers, NEW r,
           FetchResult(p, r)
    PROVE  Inductive'
<1> USE DEF Inductive
<1>r. /\ phase[p] = "fetch" /\ r \in todo[p] /\ r \in Rows(known)
      /\ r.feed \in Feeds
      /\ todo' = [todo EXCEPT ![p] = @ \ {r}]
      /\ \/ articleBatch' = [articleBatch EXCEPT
                               ![p] = @ \cup ({r.feed} \X NewArticles(r.feed))]
         \/ articleBatch' = articleBatch
      /\ UNCHANGED <<phase, tier, interval, articles, seen, overlapped, torn>>
  BY DEF FetchResult, Done, AddArticles, row, history, CycleType, Rows, RowType
<1>o. \A q \in Fetchers : q # p =>
         /\ todo'[q] = todo[q] /\ articleBatch'[q] = articleBatch[q]
         /\ feedUpdates'[q] = feedUpdates[q]
  BY DEF FetchResult, Done, AddArticles, Queue, CycleType
<1>q. PICK x, y : \E n \in 0..2 : Queues(p, r, x, y, n)  BY QueuedUpdates
<1>n. PICK n \in 0..2 : Queues(p, r, x, y, n)  BY <1>q
<1> DEFINE q0 == feedUpdates[p]
           q1 == feedUpdates'[p]
\* Each update is an old one, x or y
<1>d. /\ Len(q0) \in Nat /\ DOMAIN q0 = 1..Len(q0)
      /\ DOMAIN q1 = 1..(Len(q0) + n)
      /\ \A i \in DOMAIN q1 :
            \/ i \in DOMAIN q0 /\ q1[i] = q0[i]
            \/ i = Len(q0) + 1 /\ n > 0 /\ q1[i] = x
            \/ i = Len(q0) + 2 /\ n = 2 /\ q1[i] = y
  BY <1>n DEF Queues
<1>x. n > 0 => /\ x.feed = r.feed /\ x.kind # "interval"
               /\ NewTier(x) <=> n = 2
               /\ NewTier(x) =>
                     x.tier = ComputeNewTier(r.tier, r.last,
                                             NewArticles(r.feed) # {})
               /\ \/ x.saw = {}
                  \/ x.saw = published[r.feed] /\ AddArticles(p, r.feed)
  BY <1>n DEF Queues
<1>y. n = 2 => /\ y = Interval(r.feed, x.tier) /\ y.feed = r.feed
               /\ y.kind = "interval" /\ y.saw = {} /\ ~NewTier(y)
               /\ y.tier = x.tier
  BY <1>n DEF Queues, Interval, NewTier
<1>b. articleBatch[p] \subseteq articleBatch'[p]
  BY <1>r DEF CycleType
<1>1. FetchedIsStored'  BY <1>r DEF FetchedIsStored
<1>2. RecordsStored'
  <2>1. ASSUME n > 0, NEW g \in x.saw
        PROVE  articles[r.feed][g] > 0 \/ <<r.feed, g>> \in articleBatch'[p]
    <3>1. g \in published[r.feed] /\ AddArticles(p, r.feed) /\ g \in Guids
      BY <1>r, <1>x, <2>1 DEF RowType
    <3>2. articles[r.feed][g] \in Nat  BY <1>r, <3>1 DEF RowType
    <3>3. CASE articles[r.feed][g] = 0
      <4>1. g \in NewArticles(r.feed)  BY <3>1, <3>3 DEF NewArticles
      <4>2. QED  BY <3>1, <4>1 DEF AddArticles, CycleType
    <3>4. QED  BY <3>2, <3>3
  <2>2. ASSUME NEW i \in DOMAIN q1, NEW g \in q1[i].saw
        PROVE  \/ articles[q1[i].feed][g] > 0
               \/ <<q1[i].feed, g>> \in articleBatch'[p]
    <3>1. CASE i \in DOMAIN q0 /\ q1[i] = q0[i]
      BY <1>b, <2>2, <3>1 DEF RecordsStored
    <3>2. CASE n > 0 /\ q1[i] = x  BY <1>x, <2>1, <2>2, <3>2
    <3>3. CASE n = 2 /\ q1[i] = y  BY <1>y, <2>2, <3>3
    <3>4. QED  BY <1>d, <3>1, <3>2, <3>3
  <2>3. QED  BY <1>o, <1>r, <2>2 DEF RecordsStored
<1>3. OneCycle'  BY <1>r DEF OneCycle, Idle
<1>4. StoredOnce'  BY <1>r DEF StoredOnce
<1>5. BatchIsNew'
  <2>1. \A g \in NewArticles(r.feed) : articles[r.feed][g] = 0
    BY DEF NewArticles
  <2>2. QED  BY <1>o, <1>r, <2>1 DEF BatchIsNew, CycleType
<1>6. TodoIsCurrent'
  <2>1. SUFFICES ASSUME ~overlapped, NEW s \in todo'[p]
                 PROVE  /\ s.tier = tier[s.feed]
                        /\ \A v \in todo'[p] : v.feed = s.feed => v = s
                        /\ \A i \in DOMAIN q1 : q1[i].feed # s.feed
    BY <1>o, <1>r DEF TodoIsCurrent
  <2>2. s \in todo[p] /\ s # r /\ todo'[p] \subseteq todo[p]
    BY <1>r, <2>1 DEF CycleType
  <2>3. s.feed # r.feed  BY <1>r, <2>1, <2>2 DEF TodoIsCurrent
  <2>4. \A i \in DOMAIN q1 : q1[i].feed # s.feed
    BY <1>d, <1>x, <1>y, <2>1, <2>2, <2>3 DEF TodoIsCurrent
  <2>5. QED  BY <2>1, <2>2, <2>4 DEF TodoIsCurrent
<1>7. TiersInStep'
  <2>1. SUFFICES ASSUME Rising, ~overlapped, NEW i \in DOMAIN q1, NewTier(q1[i])
                 PROVE  /\ \/ q1[i].tier = "active"
                           \/ StepDown(tier[q1[i].feed], q1[i].tier)
                        /\ \A j \in DOMAIN q1 :
                              NewTier(q1[j]) /\ q1[j].feed = q1[i].feed => i = j
    BY <1>o, <1>r DEF TiersInStep, NewTier, StepDown, Rising
  <2>2. /\ r.tier = tier[r.feed]
        /\ \A j \in DOMAIN q0 : q0[j].feed # r.feed
    BY <1>r, <2>1 DEF TodoIsCurrent
  <2>3. ASSUME NewTier(x), n = 2
        PROVE  x.tier = "active" \/ StepDown(tier[r.feed], x.tier)
    <3>1. r.tier \in TierNames /\ r.last \in Dates /\ today \in Nat
      BY <1>r DEF Rows, RowType
    <3>2. PICK h \in BOOLEAN : h = (NewArticles(r.feed) # {})  OBVIOUS
    <3>3. x.tier = ComputeNewTier(r.tier, r.last, h) /\ x.tier # "none"
      BY <1>x, <2>3, <3>2 DEF NewTier
    <3>4. \/ ComputeNewTier(r.tier, r.last, h) \in {"none", "active"}
          \/ StepDown(r.tier, ComputeNewTier(r.tier, r.last, h))
      BY <2>1, <3>1, NewTierIsNext
    <3>5. QED  BY <2>2, <3>3, <3>4
  <2>4. CASE i \in DOMAIN q0 /\ q1[i] = q0[i]
    <3>1. \A j \in DOMAIN q1 : NewTier(q1[j]) /\ q1[j].feed = q1[i].feed =>
             j \in DOMAIN q0 /\ q1[j] = q0[j]
      BY <1>d, <1>x, <1>y, <2>2, <2>4
    <3>2. QED  BY <2>1, <2>4, <3>1 DEF TiersInStep
  <2>5. CASE i = Len(q0) + 1 /\ n = 2 /\ q1[i] = x
    BY <1>d, <1>x, <1>y, <2>1, <2>2, <2>3, <2>5
  <2>6. QED  BY <1>d, <1>x, <1>y, <2>1, <2>4, <2>5
<1>8. IntervalFollows'
  <2>1. SUFFICES ASSUME NEW i \in DOMAIN q1
                 PROVE  /\ NewTier(q1[i]) =>
                              /\ i + 1 \in DOMAIN q1
                              /\ q1[i + 1] = Interval(q1[i].feed, q1[i].tier)
                        /\ q1[i].kind = "interval" =>
                              /\ i # 1 =>
                                    /\ NewTier(q1[i - 1])
                                    /\ q1[i] = Interval(q1[i - 1].feed,
                                                        q1[i - 1].tier)
                              /\ q1[i].tier # "none" /\ i # 1
    BY <1>o, <1>r DEF IntervalFollows, NewTier
  <2>2. CASE i \in DOMAIN q0 /\ q1[i] = q0[i]
    <3>1. q1[i].kind = "interval" => i # 1 /\ i - 1 \in DOMAIN q0
      BY <1>d, <1>r, <2>2 DEF IntervalFollows
    <3>2. \A j \in DOMAIN q0 : q1[j] = q0[j]  BY <1>n DEF Queues
    <3>3. NewTier(q1[i]) => i + 1 \in DOMAIN q0  BY <2>2 DEF IntervalFollows
    <3>4. QED  BY <1>d, <2>2, <3>1, <3>2, <3>3 DEF IntervalFollows
  <2>3. CASE i = Len(q0) + 1 /\ n > 0 /\ q1[i] = x
    <3>1. NewTier(x) => q1[i + 1] = y /\ i + 1 \in DOMAIN q1
      BY <1>d, <1>n, <1>x, <2>3 DEF Queues
    <3>2. QED  BY <1>x, <1>y, <2>3, <3>1
  <2>4. CASE i = Len(q0) + 2 /\ n = 2 /\ q1[i] = y
    <3>1. q1[i - 1] = x  BY <1>d, <1>n, <2>4 DEF Queues
    <3>2. QED  BY <1>d, <1>x, <1>y, <2>4, <3>1 DEF NewTier
  <2>5. QED  BY <1>d, <2>1, <2>2, <2>3, <2>4
<1>9. IntervalInStep'
  <2>1. ~HalfWritten(p) /\ ~HalfWritten(p)'
    <3>1. q0 # <<>> => 1 \in DOMAIN q0 /\ Head(q0) = q0[1]  BY <1>n DEF Queues
    <3>2. q1 # <<>> => 1 \in DOMAIN q1 /\ Head(q1) = q1[1]  BY <1>n DEF Queues
    <3>3. phase[p] = "fetch" /\ phase'[p] = "fetch"  BY <1>r
    <3>4. QED
      BY <1>8, <3>1, <3>2, <3>3 DEF HalfWritten, IntervalFollows
  <2>2. \A q \in Fetchers : q # p =>
           /\ HalfWritten(q)' = HalfWritten(q)
           /\ Head(feedUpdates'[q]) = Head(feedUpdates[q])
    BY <1>o DEF HalfWritten
  <2>3. QED  BY <1>r, <2>1, <2>2 DEF IntervalInStep
<1>10. QED
  BY <1>1, <1>2, <1>3, <1>4, <1>5, <1>6, <1>7, <1>8, <1>9

LEMMA ElementOf ==
    ASSUME NEW S, NEW q \in Seq(S), NEW i \in DOMAIN q
    PROVE  q[i] \in S
OBVIOUS

\* The batch is stored: what the updates record is there, and nothing twice
LEMMA FlushArticlesKeeps ==
    ASSUME RowType, CycleType, Inductive, NEW p \in Fetchers, FlushArticles(p)
    PROVE  Inductive'
<1> USE DEF Inductive
<1>r. /\ phase[p] = "fetch" /\ todo[p] = {}
      /\ phase' = [phase EXCEPT ![p] = "updates"]
      /\ UNCHANGED <<tier, interval, todo, articleBatch, feedUpdates, seen,
                     overlapped, torn>>
  BY DEF FlushArticles, row, history
<1>a. \A f \in Feeds, g \in Guids :
         /\ articles[f][g] \in Nat
         /\ <<f, g>> \in articleBatch[p] => articles'[f][g] = articles[f][g] + 1
         /\ <<f, g>> \notin articleBatch[p] => articles'[f][g] = articles[f][g]
  <2>1. SUFFICES ASSUME NEW f \in Feeds, NEW g \in Guids
        PROVE  /\ articles[f][g] \in Nat
               /\ <<f, g>> \in articleBatch[p] =>
                     articles'[f][g] = articles[f][g] + 1
               /\ <<f, g>> \notin articleBatch[p] =>
                     articles'[f][g] = articles[f][g]
    OBVIOUS
  <2>2. articles[f][g] \in Nat  BY <2>1 DEF RowType
  <2>3. articles'[f][g] =
           articles[f][g] + IF <<f, g>> \in articleBatch[p] THEN 1 ELSE 0
    BY <2>1 DEF FlushArticles
  <2>4. QED  BY <2>2, <2>3
<1>p. /\ phase'[p] = "updates"
      /\ \A q \in Fetchers : q # p => phase'[q] = phase[q]
  BY <1>r DEF CycleType
<1>1. FetchedIsStored'
  <2>1. \A f \in Feeds : \A g \in seen[f] : g \in Guids  BY DEF RowType
  <2>2. ASSUME NEW f \in Feeds, NEW g \in Guids, articles[f][g] > 0
        PROVE  articles'[f][g] > 0
    <3>1. \/ articles'[f][g] = articles[f][g]
          \/ articles'[f][g] = articles[f][g] + 1
      BY <1>a
    <3>2. articles[f][g] \in Nat  BY <1>a
    <3>3. QED  BY <2>2, <3>1, <3>2
  <2>3. QED  BY <1>r, <2>1, <2>2 DEF FetchedIsStored
<1>2. RecordsStored'
  <2>1. SUFFICES ASSUME NEW q \in Fetchers, NEW i \in DOMAIN feedUpdates[q],
                        NEW g \in feedUpdates[q][i].saw
                 PROVE  \/ articles'[feedUpdates[q][i].feed][g] > 0
                        \/ /\ phase'[q] = "fetch"
                           /\ <<feedUpdates[q][i].feed, g>> \in articleBatch[q]
    BY <1>r DEF RecordsStored
  <2>2. feedUpdates[q][i].feed \in Feeds /\ g \in Guids
    <3>1. feedUpdates[q] \in Seq(Updates(known))  BY DEF CycleType
    <3>2. feedUpdates[q][i] \in Updates(known)  BY <3>1, ElementOf
    <3>3. QED  BY <2>1, <3>2 DEF Updates, RowType
  <2>3. QED  BY <1>a, <1>p, <2>1, <2>2 DEF RecordsStored
<1>3. OneCycle'  BY <1>p, <1>r DEF OneCycle, Idle
<1>4. StoredOnce'
  <2>1. SUFFICES ASSUME ~overlapped, NEW f \in Feeds, NEW g \in Guids
                 PROVE  articles'[f][g] <= 1
    BY <1>r DEF StoredOnce
  <2>2. CASE <<f, g>> \in articleBatch[p]
    <3>1. articles[f][g] = 0  BY <1>r, <2>1, <2>2 DEF BatchIsNew
    <3>2. QED  BY <1>a, <2>2, <3>1
  <2>3. CASE <<f, g>> \notin articleBatch[p]
    BY <1>a, <2>1, <2>3 DEF StoredOnce
  <2>4. QED  BY <2>2, <2>3
<1>5. BatchIsNew'
  <2>1. ~overlapped => \A q \in Fetchers : phase'[q] # "fetch"
    BY <1>p, <1>r DEF OneCycle, Idle
  <2>2. QED  BY <1>r, <2>1 DEF BatchIsNew
<1>6. TodoIsCurrent'  BY <1>r DEF TodoIsCurrent
<1>7. TiersInStep'  BY <1>r DEF TiersInStep, NewTier, StepDown, Rising
<1>8. IntervalFollows'  BY <1>p, <1>r DEF IntervalFollows, NewTier
<1>9. IntervalInStep'  BY <1>r DEF IntervalInStep, HalfWritten
<1>10. QED
  BY <1>1, <1>2, <1>3, <1>4, <1>5, <1>6, <1>7, <1>8, <1>9

LEMMA CycleEndsKeeps ==
    ASSUME RowType, CycleType, Inductive, NEW p \in Fetchers, CycleEnds(p)
    PROVE  Inductive'
<1> USE DEF Inductive
<1>r. /\ phase[p] = "updates" /\ feedUpdates[p] = <<>>
      /\ phase' = [phase EXCEPT ![p] = "idle"]
      /\ articleBatch' = [articleBatch EXCEPT ![p] = {}]
      /\ UNCHANGED <<tier, interval, articles, todo, feedUpdates, seen,
                     overlapped, torn>>
  BY DEF CycleEnds, row, history
<1>p. /\ phase'[p] = "idle" /\ articleBatch'[p] = {}
      /\ \A q \in Fetchers : q # p =>
            phase'[q] = phase[q] /\ articleBatch'[q] = articleBatch[q]
  BY <1>r DEF CycleType
<1>1. FetchedIsStored' /\ StoredOnce'
  BY <1>r DEF FetchedIsStored, StoredOnce
<1>2. RecordsStored'  BY <1>p, <1>r DEF RecordsStored
<1>3. OneCycle'  BY <1>p, <1>r DEF OneCycle, Idle
<1>5. BatchIsNew'  BY <1>p, <1>r DEF BatchIsNew
<1>6. TodoIsCurrent'  BY <1>r DEF TodoIsCurrent
<1>7. TiersInStep'  BY <1>r DEF TiersInStep, NewTier, StepDown, Rising
<1>8. IntervalFollows'  BY <1>p, <1>r DEF IntervalFollows, NewTier
<1>9. IntervalInStep'  BY <1>r DEF IntervalInStep, HalfWritten
<1>10. QED  BY <1>1, <1>2, <1>3, <1>5, <1>6, <1>7, <1>8, <1>9

\* What dies takes its updates with it; a feed may be left torn
LEMMA DiesKeeps ==
    ASSUME RowType, CycleType, Inductive, NEW p \in Fetchers, Dies(p)
    PROVE  Inductive'
<1> USE DEF Inductive
<1>r. /\ phase' = [phase EXCEPT ![p] = "idle"]
      /\ todo' = [todo EXCEPT ![p] = {}]
      /\ articleBatch' = [articleBatch EXCEPT ![p] = {}]
      /\ feedUpdates' = [feedUpdates EXCEPT ![p] = <<>>]
      /\ UNCHANGED <<tier, interval, articles, seen, overlapped>>
  BY DEF Dies, row
<1>p. /\ phase'[p] = "idle" /\ articleBatch'[p] = {} /\ todo'[p] = {}
      /\ feedUpdates'[p] = <<>>
      /\ \A q \in Fetchers : q # p =>
            /\ phase'[q] = phase[q] /\ articleBatch'[q] = articleBatch[q]
            /\ todo'[q] = todo[q] /\ feedUpdates'[q] = feedUpdates[q]
  BY <1>r DEF CycleType
<1>t. /\ torn \subseteq torn'
      /\ HalfWritten(p) => Head(feedUpdates[p]).feed \in torn'
  <2>1. HalfWritten(p) => phase[p] = "updates"
    <3>1. feedUpdates[p] \in Seq(Updates(known))  BY DEF CycleType
    <3>2. feedUpdates[p] # <<>> =>
             /\ 1 \in DOMAIN feedUpdates[p]
             /\ Head(feedUpdates[p]) = feedUpdates[p][1]
      BY <3>1
    <3>3. QED  BY <3>2 DEF HalfWritten, IntervalFollows
  <2>2. QED  BY <2>1 DEF Dies, HalfWritten
<1>1. FetchedIsStored' /\ StoredOnce'
  BY <1>r DEF FetchedIsStored, StoredOnce
<1>2. RecordsStored'  BY <1>p, <1>r DEF RecordsStored
<1>3. OneCycle'  BY <1>p, <1>r DEF OneCycle, Idle
<1>5. BatchIsNew'  BY <1>p, <1>r DEF BatchIsNew
<1>6. TodoIsCurrent'  BY <1>p, <1>r DEF TodoIsCurrent
<1>7. TiersInStep'  BY <1>p, <1>r DEF TiersInStep, NewTier, StepDown, Rising
<1>8. IntervalFollows'  BY <1>p, <1>r DEF IntervalFollows, NewTier
<1>9. IntervalInStep'
  <2>1. ~HalfWritten(p)'  BY <1>p DEF HalfWritten
  <2>2. \A q \in Fetchers : q # p =>
           /\ HalfWritten(q)' = HalfWritten(q)
           /\ Head(feedUpdates'[q]) = Head(feedUpdates[q])
    BY <1>p DEF HalfWritten
  <2>3. QED  BY <1>r, <1>t, <2>1, <2>2 DEF IntervalInStep
<1>10. QED  BY <1>1, <1>2, <1>3, <1>5, <1>6, <1>7, <1>8, <1>9

LEMMA RestOf ==
    ASSUME NEW S, NEW q \in Seq(S), q # <<>>
    PROVE  /\ Head(q) = q[1] /\ 1 \in DOMAIN q /\ q[1] \in S
           /\ Tail(q) \in Seq(S) /\ Len(q) \in Nat \ {0}
           /\ DOMAIN q = 1..Len(q) /\ DOMAIN Tail(q) = 1..(Len(q) - 1)
           /\ \A i \in DOMAIN Tail(q) :
                 i + 1 \in DOMAIN q /\ Tail(q)[i] = q[i + 1]
OBVIOUS

\* One update is written; the rest stays in step with the rows
LEMMA FlushUpdateKeeps ==
    ASSUME RowType, CycleType, Inductive, NEW p \in Fetchers, FlushUpdate(p)
    PROVE  Inductive'
<1> USE DEF Inductive
<1> DEFINE q0 == feedUpdates[p]
           q1 == feedUpdates'[p]
<1>q. /\ q0 \in Seq(Updates(known)) /\ q0 # <<>> /\ phase[p] = "updates"
      /\ q1 = Tail(q0)
      /\ \A o \in Fetchers : o # p => feedUpdates'[o] = feedUpdates[o]
      /\ UNCHANGED <<articles, phase, todo, articleBatch, overlapped>>
  BY DEF FlushUpdate, CycleType
<1>u. PICK u \in Updates(known) : u = Head(q0)  BY <1>q, RestOf
<1>r. /\ interval' = [interval EXCEPT ![u.feed] =
                        IF u.kind = "interval" THEN u.tier ELSE @]
      /\ tier' = [tier EXCEPT ![u.feed] = IF NewTier(u) THEN u.tier ELSE @]
      /\ seen' = [seen EXCEPT ![u.feed] =
                    IF u.kind = "fetched" THEN u.saw ELSE @]
      /\ torn' = IF u.kind = "interval" THEN torn \ {u.feed} ELSE torn
  BY <1>u DEF FlushUpdate, NewTier
<1>f. u.feed \in Feeds /\ u.tier \in TierNames \cup {"none"}
  BY DEF Updates, RowType
<1>d. /\ u = q0[1] /\ 1 \in DOMAIN q0 /\ Len(q0) \in Nat \ {0}
      /\ DOMAIN q0 = 1..Len(q0) /\ DOMAIN q1 = 1..(Len(q0) - 1)
      /\ \A i \in DOMAIN q1 : i + 1 \in DOMAIN q0 /\ q1[i] = q0[i + 1]
  BY <1>q, <1>u, RestOf
<1> HIDE DEF q0, q1
<1>i. q0 = feedUpdates[p] /\ q1 = feedUpdates'[p]  BY DEF q0, q1
\* Only this process has a cycle going, unless cycles overlapped
<1>o. ~overlapped => \A o \in Fetchers : o # p =>
         phase[o] = "idle" /\ todo[o] = {} /\ feedUpdates[o] = <<>>
  BY <1>q DEF OneCycle, Idle, CycleType
<1>t. todo[p] = {}  BY <1>q DEF CycleType
<1>1. FetchedIsStored'
  <2>1. \A g \in u.saw : articles[u.feed][g] > 0
    BY <1>d, <1>i, <1>q DEF RecordsStored
  <2>2. QED  BY <1>f, <1>q, <1>r, <2>1 DEF FetchedIsStored, RowType
<1>2. RecordsStored'
  <2>1. \A i \in DOMAIN q1 : \A g \in q1[i].saw : articles[q1[i].feed][g] > 0
    BY <1>d, <1>i, <1>q DEF RecordsStored
  <2>2. QED  BY <1>i, <1>q, <2>1 DEF RecordsStored
<1>3. OneCycle'  BY <1>q DEF OneCycle, Idle
<1>4. StoredOnce' /\ BatchIsNew'  BY <1>q DEF StoredOnce, BatchIsNew
<1>6. TodoIsCurrent'  BY <1>o, <1>q, <1>t DEF TodoIsCurrent
<1>7. TiersInStep'
  <2>1. SUFFICES ASSUME Rising, ~overlapped, NEW i \in DOMAIN q1, NewTier(q1[i])
                 PROVE  /\ \/ q1[i].tier = "active"
                           \/ StepDown(tier'[q1[i].feed], q1[i].tier)
                        /\ \A j \in DOMAIN q1 :
                              NewTier(q1[j]) /\ q1[j].feed = q1[i].feed => i = j
    <3>1. ~overlapped =>
             \A o \in Fetchers : o # p => DOMAIN feedUpdates'[o] = {}
      BY <1>o, <1>q
    <3>2. Rising' <=> Rising  BY DEF Rising
    <3>3. QED
      BY <1>q, <3>1, <3>2 DEF TiersInStep, NewTier, StepDown, q1
  <2>2. /\ NewTier(q0[i + 1]) /\ q1[i] = q0[i + 1] /\ i + 1 \in DOMAIN q0
        /\ i + 1 # 1 /\ i \in Nat
    BY <1>d, <2>1
  <2>3. ~(NewTier(u) /\ u.feed = q1[i].feed)
    BY <1>d, <1>i, <2>1, <2>2 DEF TiersInStep
  <2>4. tier'[q1[i].feed] = tier[q1[i].feed]
    <3>1. q1[i].feed \in Feeds
      <4>1. q0[i + 1] \in Updates(known)  BY <1>q, <2>2, ElementOf
      <4>2. QED  BY <2>2, <4>1 DEF Updates, RowType
    <3>2. QED  BY <1>f, <1>r, <2>3, <3>1 DEF RowType
  <2>5. \/ q1[i].tier = "active"
        \/ StepDown(tier[q1[i].feed], q1[i].tier)
    BY <1>i, <2>1, <2>2 DEF TiersInStep
  <2>6. ASSUME NEW j \in DOMAIN q1, NewTier(q1[j]), q1[j].feed = q1[i].feed
        PROVE  i = j
    <3>1. /\ q1[j] = q0[j + 1] /\ j + 1 \in DOMAIN q0 /\ j \in Nat
      BY <1>d, <2>6
    <3>2. i + 1 = j + 1  BY <1>i, <2>1, <2>2, <2>6, <3>1 DEF TiersInStep
    <3>3. QED  BY <2>2, <3>1, <3>2
  <2>7. QED  BY <2>4, <2>5, <2>6 DEF StepDown
<1>8. IntervalFollows'
  <2>1. SUFFICES ASSUME NEW i \in DOMAIN q1
                 PROVE  /\ NewTier(q1[i]) =>
                              /\ i + 1 \in DOMAIN q1
                              /\ q1[i + 1] = Interval(q1[i].feed, q1[i].tier)
                        /\ q1[i].kind = "interval" /\ i # 1 =>
                              /\ NewTier(q1[i - 1])
                              /\ q1[i] = Interval(q1[i - 1].feed,
                                                  q1[i - 1].tier)
                        /\ q1[i].kind = "interval" => q1[i].tier # "none"
    <3>1. SUFFICES ASSUME NEW o \in Fetchers, NEW i \in DOMAIN feedUpdates'[o]
                   PROVE  LET v == feedUpdates'[o][i]
                          IN /\ NewTier(v) =>
                                   /\ i + 1 \in DOMAIN feedUpdates'[o]
                                   /\ feedUpdates'[o][i + 1] =
                                         Interval(v.feed, v.tier)
                             /\ v.kind = "interval" /\ i # 1 =>
                                   /\ NewTier(feedUpdates'[o][i - 1])
                                   /\ v = Interval(feedUpdates'[o][i - 1].feed,
                                                   feedUpdates'[o][i - 1].tier)
                             /\ v.kind = "interval" =>
                                   /\ v.tier # "none"
                                   /\ i = 1 => phase'[o] = "updates"
      BY DEF IntervalFollows, NewTier
    <3>2. CASE o # p  BY <1>q, <3>1, <3>2 DEF IntervalFollows
    <3>3. CASE o = p  BY <1>q, <2>1, <3>1, <3>3 DEF q1
    <3>4. QED  BY <3>2, <3>3
  <2>2. /\ i + 1 \in DOMAIN q0 /\ q1[i] = q0[i + 1] /\ i \in Nat \ {0}
    BY <1>d, <2>1
  <2>3. NewTier(q1[i]) => i + 2 \in DOMAIN q0
                          /\ q0[i + 2] = Interval(q1[i].feed, q1[i].tier)
    <3>1. (i + 1) + 1 = i + 2  BY <2>2
    <3>2. QED  BY <1>i, <2>2, <3>1 DEF IntervalFollows
  <2>4. i + 2 \in DOMAIN q0 => i + 1 \in DOMAIN q1 /\ q1[i + 1] = q0[i + 2]
    <3>1. i + 2 \in DOMAIN q0 => i + 1 \in DOMAIN q1  BY <1>d, <2>2
    <3>2. (i + 1) + 1 = i + 2  BY <2>2
    <3>3. QED  BY <1>d, <3>1, <3>2
  <2>5. i # 1 => q1[i - 1] = q0[i]
    <3>1. i # 1 => i - 1 \in DOMAIN q1 /\ (i - 1) + 1 = i  BY <1>d, <2>1, <2>2
    <3>2. QED  BY <1>d, <3>1
  <2>6. q1[i].kind = "interval" =>
           /\ NewTier(q0[i]) /\ q1[i].tier # "none"
           /\ q1[i] = Interval(q0[i].feed, q0[i].tier)
    <3>1. (i + 1) - 1 = i /\ i + 1 # 1  BY <2>2
    <3>2. QED  BY <1>i, <2>2, <3>1 DEF IntervalFollows
  <2>7. QED  BY <2>3, <2>4, <2>5, <2>6
<1>9. IntervalInStep'
  <2>1. SUFFICES ASSUME ~overlapped
                 PROVE  /\ HalfWritten(p)' =>
                              Head(q1).tier = tier'[Head(q1).feed]
                        /\ \A f \in Feeds \ torn' :
                              \/ interval'[f] = tier'[f]
                              \/ HalfWritten(p)' /\ Head(q1).feed = f
    <3>1. ~overlapped => \A o \in Fetchers : o # p => ~HalfWritten(o)'
      BY <1>o, <1>q DEF HalfWritten
    <3>2. QED  BY <1>q, <3>1 DEF IntervalInStep, q1
  <2>2. q1 # <<>> =>
           /\ 1 \in DOMAIN q1 /\ Head(q1) = q1[1] /\ 2 \in DOMAIN q0
           /\ q1[1] = q0[2]
    <3>1. q1 \in Seq(Updates(known))  BY <1>i, <1>q, RestOf
    <3>2. q1 # <<>> => 1 \in DOMAIN q1 /\ Head(q1) = q1[1]  BY <3>1, RestOf
    <3>3. 1 + 1 = 2  OBVIOUS
    <3>4. QED  BY <1>d, <3>2, <3>3
  <2>h. HalfWritten(p)' <=> q1 # <<>> /\ Head(q1).kind = "interval"
    BY <1>i DEF HalfWritten
  <2>3. CASE NewTier(u)
    <3>1. 2 \in DOMAIN q0 /\ q0[2] = Interval(u.feed, u.tier)
      <4>1. 1 + 1 = 2  OBVIOUS
      <4>2. QED  BY <1>d, <1>i, <2>3, <4>1 DEF IntervalFollows
    <3>2. q1 # <<>>
      <4>1. 1 \in DOMAIN q1  BY <1>d, <3>1
      <4>2. QED  BY <4>1
    <3>3. /\ HalfWritten(p)' /\ Head(q1).feed = u.feed
          /\ Head(q1).tier = u.tier
      BY <2>2, <2>h, <3>1, <3>2 DEF Interval
    <3>4. ~HalfWritten(p)
      BY <1>i, <1>u, <2>3 DEF HalfWritten, NewTier
    <3>5. \A o \in Fetchers : ~HalfWritten(o)
      BY <1>o, <2>1, <3>4 DEF HalfWritten
    <3>6. \A f \in Feeds : f # u.feed =>
             interval'[f] = interval[f] /\ tier'[f] = tier[f]
      BY <1>f, <1>r DEF RowType
    <3>7. tier'[u.feed] = u.tier  BY <1>f, <1>r, <2>3 DEF RowType
    <3>8. torn' = torn  BY <1>r, <2>3 DEF NewTier
    <3>9. QED  BY <2>1, <3>3, <3>5, <3>6, <3>7, <3>8 DEF IntervalInStep
  <2>4. CASE u.kind = "interval"
    <3>1. HalfWritten(p) /\ Head(q0) = u
      BY <1>i, <1>q, <1>u, <2>4 DEF HalfWritten
    <3>2. u.tier = tier[u.feed] /\ tier' = tier
      <4>1. u.tier = tier[u.feed]
        BY <1>i, <2>1, <3>1 DEF IntervalInStep
      <4>2. ~NewTier(u)  BY <2>4 DEF NewTier
      <4>3. QED  BY <1>f, <1>r, <4>1, <4>2 DEF RowType
    <3>3. /\ interval'[u.feed] = u.tier
          /\ \A f \in Feeds : f # u.feed => interval'[f] = interval[f]
      BY <1>f, <1>r, <2>4 DEF RowType
    <3>4. ~HalfWritten(p)'
      <4>1. q1 # <<>> /\ Head(q1).kind = "interval" => NewTier(q0[1])
        <5>1. 2 - 1 = 1  OBVIOUS
        <5>2. QED  BY <1>i, <2>2, <5>1 DEF IntervalFollows
      <4>2. QED  BY <1>d, <2>4, <2>h, <4>1 DEF NewTier
    <3>5. \A f \in Feeds \ torn' : f # u.feed => f \in Feeds \ torn
      BY <1>r
    <3>6. \A o \in Fetchers : HalfWritten(o) => o = p
      BY <1>o, <2>1 DEF HalfWritten
    <3>7. \A f \in Feeds \ torn' : interval'[f] = tier'[f]
      BY <1>i, <2>1, <3>1, <3>2, <3>3, <3>5, <3>6 DEF IntervalInStep
    <3>8. QED  BY <3>4, <3>7
  <2>5. CASE ~NewTier(u) /\ u.kind # "interval"
    <3>1. tier' = tier /\ interval' = interval /\ torn' = torn
      BY <1>f, <1>r, <2>5 DEF RowType
    <3>2. \A o \in Fetchers : ~HalfWritten(o)
      BY <1>i, <1>o, <1>u, <2>1, <2>5 DEF HalfWritten
    <3>3. ~HalfWritten(p)'
      <4>1. q1 # <<>> /\ Head(q1).kind = "interval" => NewTier(q0[1])
        <5>1. 2 - 1 = 1  OBVIOUS
        <5>2. QED  BY <1>i, <2>2, <5>1 DEF IntervalFollows
      <4>2. QED  BY <1>d, <2>5, <2>h, <4>1
    <3>4. QED  BY <2>1, <3>1, <3>2, <3>3 DEF IntervalInStep
  <2>6. QED  BY <2>3, <2>4, <2>5
<1>10. QED
  BY <1>1, <1>2, <1>3, <1>4, <1>6, <1>7, <1>8, <1>9

-----------------------------------------------------------------------------
(* The theorems.                                                           *)

LEMMA InvParts == FetchInv <=> RowType /\ CycleType /\ Inductive
BY TypeParts DEF FetchInv, Inductive

LEMMA FetchInitially == ASSUME FetchInit PROVE FetchInv
<1>1. "active" \in TierNames /\ Never \in Dates  BY TierFacts DEF Dates
<1>2. RowType
  <2>1. /\ tier \in [Feeds -> TierNames] /\ interval \in [Feeds -> TierNames]
        /\ lastArticle \in [Feeds -> Dates] /\ due \in [Feeds -> BOOLEAN]
    BY <1>1 DEF FetchInit
  <2>2. /\ articles \in [Feeds -> [Guids -> Nat]]
        /\ published \in [Feeds -> SUBSET Guids]
        /\ seen \in [Feeds -> SUBSET Guids]
    BY DEF FetchInit
  <2>3. /\ today \in 0..LastDay /\ failures \in 0..MaxFailures
        /\ deaths \in 0..MaxDeaths
    BY DEF FetchInit
  <2>4. known \subseteq Feeds /\ torn \subseteq Feeds /\ overlapped \in BOOLEAN
    BY DEF FetchInit
  <2>5. QED  BY <2>1, <2>2, <2>3, <2>4 DEF RowType
<1>3. CycleType
  <2>1. <<>> \in Seq(Updates(known))  OBVIOUS
  <2>2. QED  BY <2>1 DEF FetchInit, CycleType, Idle
<1>4. FetchedIsStored /\ RecordsStored /\ IntervalFollows
  BY DEF FetchInit, FetchedIsStored, RecordsStored, IntervalFollows
<1>5. OneCycle /\ StoredOnce /\ BatchIsNew
  BY DEF FetchInit, OneCycle, Idle, StoredOnce, BatchIsNew
<1>6. TodoIsCurrent /\ TiersInStep /\ IntervalInStep
  BY DEF FetchInit, TodoIsCurrent, TiersInStep, IntervalInStep, HalfWritten
<1>7. QED  BY <1>2, <1>3, <1>4, <1>5, <1>6, InvParts DEF Inductive

LEMMA FetchStep ==
    ASSUME FetchInv, [FetchNext]_fetchVars
    PROVE  FetchInv'
<1>1. RowType /\ CycleType /\ Inductive  BY InvParts
<1>p. RowType' /\ CycleType' /\ Inductive' => FetchInv'
  BY DEF FetchInv, Inductive, FetchTypeOK, RowType, CycleType, Rows, Updates,
         Dates
<1>2. CASE UNCHANGED fetchVars
  <2>1. RowType' /\ CycleType'
    BY <1>1, <1>2
       DEF RowType, CycleType, Idle, fetchVars, row, cycle, world, history
  <2>2. Inductive'
    BY <1>1, <1>2, WorldKeeps DEF fetchVars, row, cycle, history
  <2>3. QED  BY <1>p, <2>1, <2>2
<1>3. CASE (\E f \in Feeds : FeedStep(f)) \/ DayPasses
  <2>1. RowType' /\ CycleType'  BY <1>1, <1>3, WorldType
  <2>2. UNCHANGED <<tier, interval, articles, phase, todo, articleBatch,
                    feedUpdates, seen, overlapped, torn>>
    BY <1>3 DEF FeedStep, Elapses, AddFeed, Publish, DayPasses, row, cycle,
                history
  <2>3. QED  BY <1>1, <1>p, <2>1, <2>2, WorldKeeps
<1>4. ASSUME NEW p \in Fetchers, CycleStep(p) \/ Dies(p)
      PROVE  FetchInv'
  <2>1. RowType' /\ CycleType'
    BY <1>1, <1>4, CycleStepType DEF Inductive
  <2>2. ASSUME NEW r \in todo[p],
               FetchOne(p, r) \/ FetchFails(p, r) \/ FetchRaises(p, r)
        PROVE  Inductive'
    BY <1>1, <2>2, FetchResults, FetchKeeps
  <2>3. Inductive'
    BY <1>1, <1>4, <2>2, RunOnceKeeps, FlushArticlesKeeps, FlushUpdateKeeps,
       CycleEndsKeeps, DiesKeeps DEF CycleStep
  <2>4. QED  BY <1>p, <2>1, <2>3
<1>5. QED  BY <1>2, <1>3, <1>4 DEF FetchNext

\* The invariant of the cycle: what run_once, fetch_one and flush_batch keep,
\* whatever fails or dies, and however many processes run.
THEOREM FetchInvariance == FetchSpec => []FetchInv
<1>1. FetchInit => FetchInv  BY FetchInitially
<1>2. FetchInv /\ [FetchNext]_fetchVars => FetchInv'  BY FetchStep
<1>3. QED  BY <1>1, <1>2, PTL DEF FetchSpec

\* No fetch is recorded whose articles are not all stored: flush_batch appends
\* the articles before the first feeds.update.
THEOREM NothingIsSkipped == FetchSpec => []FetchedIsStored
<1>1. FetchInv => FetchedIsStored  BY DEF FetchInv
<1>2. QED  BY <1>1, FetchInvariance, PTL

\* With one cycle at a time an article is stored once, however often a process
\* dies between its articles and its updates.
THEOREM NothingIsDoubled == FetchSpec => []StoredOnce
<1>1. FetchInv => StoredOnce  BY DEF FetchInv
<1>2. QED  BY <1>1, FetchInvariance, PTL

\* Between cycles a feed has the interval of its tier, unless a process died
\* between the two updates of flush_batch that set them.
THEOREM IntervalFits == FetchSpec => []IntervalFitsTier
<1>1. ASSUME FetchInv PROVE IntervalFitsTier
  <2>1. RowType /\ CycleType /\ IntervalInStep
    BY <1>1, InvParts DEF Inductive
  <2>2. \A p \in Fetchers : Idle(p) => ~HalfWritten(p)
    BY <2>1 DEF CycleType, HalfWritten
  <2>3. QED  BY <2>1, <2>2 DEF IntervalInStep, IntervalFitsTier
<1>2. QED  BY <1>1, FetchInvariance, PTL

\* If the thresholds of the settings table rise down the ladder,
\* _compute_new_tier never takes a feed past a tier.
THEOREM TierByTier == Rising => (FetchSpec => TierSteps)
<1>s. SUFFICES ASSUME Rising PROVE FetchSpec => TierSteps
  OBVIOUS
<1>1. ASSUME FetchInv, [FetchNext]_fetchVars
      PROVE  [\A f \in Feeds :
                 (tier'[f] # tier[f] /\ ~overlapped) =>
                    \/ tier'[f] = "active"
                    \/ Place(tier'[f]) = Place(tier[f]) + 1]_fetchVars
  <2>1. RowType /\ CycleType /\ TiersInStep
    BY <1>1, InvParts DEF Inductive
  <2>2. SUFFICES ASSUME NEW f \in Feeds, tier'[f] # tier[f], ~overlapped
                 PROVE  tier'[f] = "active" \/ StepDown(tier[f], tier'[f])
    BY DEF StepDown
  <2>3. PICK p \in Fetchers : FlushUpdate(p)
    BY <1>1, <2>2
       DEF FetchNext, FeedStep, CycleStep, fetchVars, row, Publish, Elapses,
           AddFeed, DayPasses, RunOnce, FlushArticles, CycleEnds, Dies,
           FetchOne, FetchFails, FetchRaises
  <2>4. feedUpdates[p] \in Seq(Updates(known)) /\ feedUpdates[p] # <<>>
    BY <2>1, <2>3 DEF FlushUpdate, CycleType
  <2>5. PICK u \in Updates(known) : u = Head(feedUpdates[p])
    BY <2>4, RestOf
  <2>6. u = feedUpdates[p][1] /\ 1 \in DOMAIN feedUpdates[p]
    BY <2>4, <2>5, RestOf
  <2>7. tier' = [tier EXCEPT ![u.feed] = IF NewTier(u) THEN u.tier ELSE @]
    BY <2>3, <2>5 DEF FlushUpdate, NewTier
  <2>8. f = u.feed /\ NewTier(u) /\ tier'[f] = u.tier
    BY <2>1, <2>2, <2>7 DEF RowType
  <2>9. QED  BY <1>s, <2>1, <2>2, <2>6, <2>8 DEF TiersInStep
<1>2. QED  BY <1>1, FetchInvariance, PTL DEF FetchSpec, TierSteps
=============================================================================
