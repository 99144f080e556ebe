----------------------------- MODULE FetcherInv -----------------------------
(***************************************************************************)
(* The inductive invariant behind FetchedIsStored, StoredOnce, TierSteps   *)
(* and IntervalFitsTier.                                                   *)
(***************************************************************************)
EXTENDS Fetcher

\* What is to be recorded as seen is stored, or in the batch that goes first
RecordsStored ==
    \A p \in Fetchers : \A i \in DOMAIN feedUpdates[p] :
        LET u == feedUpdates[p][i]
        IN \A g \in u.saw :
              \/ articles[u.feed][g] > 0
              \/ phase[p] = "fetch" /\ <<u.feed, g>> \in articleBatch[p]

OneCycle ==
    ~overlapped => \A p, q \in Fetchers : Idle(p) \/ Idle(q) \/ p = q

\* What is to be stored is not stored yet
BatchIsNew ==
    ~overlapped =>
        \A p \in Fetchers, f \in Feeds, g \in Guids :
            phase[p] = "fetch" /\ <<f, g>> \in articleBatch[p] =>
                articles[f][g] = 0

\* The thresholds, which are settings, should rise down the ladder
Rising ==
    \A i, j \in 1..4 : i <= j => Threshold[Tiers[i]] <= Threshold[Tiers[j]]

StepDown(from, to) == Place(to) = Place(from) + 1

\* The rows that were read are the rows that are there; each is fetched once
TodoIsCurrent ==
    ~overlapped =>
        \A p \in Fetchers : \A r \in todo[p] :
            /\ r.tier = tier[r.feed]
            /\ \A s \in todo[p] : s.feed = r.feed => s = r
            /\ \A i \in DOMAIN feedUpdates[p] : feedUpdates[p][i].feed # r.feed

NewTier(u) == u.kind = "fetched" /\ u.tier # "none"

\* Each feed has one new tier at most, a step away from the one it has
TiersInStep ==
    Rising /\ ~overlapped =>
        \A p \in Fetchers : \A i \in DOMAIN feedUpdates[p] :
            LET u == feedUpdates[p][i]
            IN NewTier(u) =>
                  /\ u.tier = "active" \/ StepDown(tier[u.feed], u.tier)
                  /\ \A j \in DOMAIN feedUpdates[p] :
                        (/\ NewTier(feedUpdates[p][j])
                         /\ feedUpdates[p][j].feed = u.feed) => i = j

\* A new tier is followed by its interval, and an interval follows its tier,
\* which may have been written already
IntervalFollows ==
    \A p \in Fetchers : \A i \in DOMAIN feedUpdates[p] :
        LET u == feedUpdates[p][i]
        IN /\ NewTier(u) =>
                 /\ i + 1 \in DOMAIN feedUpdates[p]
                 /\ feedUpdates[p][i + 1] = Interval(u.feed, u.tier)
           /\ u.kind = "interval" /\ i # 1 =>
                 /\ NewTier(feedUpdates[p][i - 1])
                 /\ u = Interval(feedUpdates[p][i - 1].feed,
                                 feedUpdates[p][i - 1].tier)
           /\ u.kind = "interval" => /\ u.tier # "none"
                                     /\ i = 1 => phase[p] = "updates"

HalfWritten(p) ==
    feedUpdates[p] # <<>> /\ Head(feedUpdates[p]).kind = "interval"

\* A feed has the interval of its tier but between the two updates
IntervalInStep ==
    ~overlapped =>
        /\ \A p \in Fetchers : HalfWritten(p) =>
              Head(feedUpdates[p]).tier = tier[Head(feedUpdates[p]).feed]
        /\ \A f \in Feeds \ torn :
              \/ interval[f] = tier[f]
              \/ \E p \in Fetchers :
                    HalfWritten(p) /\ Head(feedUpdates[p]).feed = f

\* Articles before updates, and a tier before its interval: whatever fails or
\* dies, the inductive invariant of run_once, fetch_one and flush_batch.
FetchInv ==
    /\ FetchTypeOK /\ FetchedIsStored /\ RecordsStored
    /\ OneCycle /\ StoredOnce /\ BatchIsNew
    /\ TodoIsCurrent /\ TiersInStep /\ IntervalFollows /\ IntervalInStep
=============================================================================
