------------------------- MODULE OfflineStoreProofs -------------------------
(***************************************************************************)
(* Theorems about OfflineStore, for every set of articles, feeds, handlers *)
(* and flushers and every bound.                                           *)
(***************************************************************************)
EXTENDS OfflineStoreInv, TLAPS

USE ConstantsAssumption DEF ConstantsAssumption

-----------------------------------------------------------------------------
(* Type correctness.                                                       *)

LEMMA ActionTypes ==
    ASSUME NEW action
    PROVE  AttrOf(action) \in Attrs /\ ValOf(action) \in Vals
BY DEF AttrOf, ValOf, Attrs, Vals

LEMMA OverrideType ==
    ASSUME NEW rows, NEW a, NEW x
    PROVE  Override(rows, a, x) \in OptVals
BY ActionTypes DEF Override, OptVals

LEMMA BlankType == NoRows \in [Articles -> [Attrs -> OptVals]]
                   /\ Blank \in [Attrs -> OptVals]
                   /\ Unread \in [Attrs -> Vals]
BY DEF NoRows, Blank, Unread, OptVals, Vals, Unset

LEMMA InitType == Init => TypeOK
<1> SUFFICES ASSUME Init PROVE TypeOK  OBVIOUS
<1>1. /\ lance \in [Articles -> [Attrs -> Vals]]
      /\ want \in [Articles -> [Attrs -> Vals]]
      /\ overlay \in [Articles -> [Attrs -> OptVals]]
      /\ cached \in [Articles -> [Attrs -> OptVals]]
      /\ snap \in [Snapshotters -> [Articles -> [Attrs -> OptVals]]]
  BY BlankType DEF Init
<1>2. /\ pc \in [Flushers -> {"idle", "marks", "overrides", "clear", "evict",
                             "uncache", "reconnect"}]
      /\ batch \in [Flushers -> SUBSET Row]
      /\ feedsLeft \in [Flushers -> SUBSET Feeds]
      /\ articlesLeft \in [Flushers -> SUBSET Articles]
  BY DEF Init
<1>3. QED  BY <1>1, <1>2 DEF Init, TypeOK

\* A request that starts, or one that moves to its next stage, is well typed.
LEMMA FlightTypes ==
    ASSUME TypeOK
    PROVE  /\ \A h \in Handlers, q \in Requests : Start(h, q) => inflight' \subseteq Flight
           /\ \A q \in inflight : NextStep(q) => inflight' \subseteq Flight
           /\ \A q \in inflight : [id |-> nextId, action |-> q.action,
                                   target |-> q.target] \in Row
<1>1. \A h \in Handlers, q \in Requests : Start(h, q) => inflight' \subseteq Flight
  BY DEF TypeOK, Start, Flight, Request, Stages
<1>2. \A q \in inflight : NextStep(q) => inflight' \subseteq Flight
  BY DEF TypeOK, NextStep, Flight, Stages
<1>3. \A q \in inflight : [id |-> nextId, action |-> q.action,
                           target |-> q.target] \in Row
  BY DEF TypeOK, Flight, Row
<1>4. QED  BY <1>1, <1>2, <1>3

LEMMA RequestType == ASSUME TypeOK, RequestStep PROVE TypeOK'
<1> USE DEF TypeOK, durable, replay, history, env
<1>1. ASSUME NEW h \in Handlers, NEW q \in Requests, SetOverlay(h, q)
      PROVE  TypeOK'
  <2>1. inflight' \subseteq Flight  BY <1>1, FlightTypes DEF SetOverlay
  <2>2. overlay' \in [Articles -> [Attrs -> OptVals]]
    BY <1>1, ActionTypes DEF SetOverlay, OptVals
  <2>3. QED  BY <1>1, <2>1, <2>2 DEF SetOverlay
<1>2. ASSUME NEW h \in Handlers, NEW q \in Requests, MarkOverlay(h, q)
      PROVE  TypeOK'
  <2>1. inflight' \subseteq Flight  BY <1>2, FlightTypes DEF MarkOverlay
  <2>2. overlay' \in [Articles -> [Attrs -> OptVals]]
    BY <1>2 DEF MarkOverlay, OptVals, Vals
  <2>3. QED  BY <1>2, <2>1, <2>2 DEF MarkOverlay
<1>3. ASSUME NEW q \in inflight PROVE Wanted(q) \in [Articles -> [Attrs -> Vals]]
  BY ActionTypes DEF Wanted
<1>4. ASSUME NEW q \in inflight, BufferChange(q) PROVE TypeOK'
  <2>1. inflight' \subseteq Flight  BY <1>4, FlightTypes DEF BufferChange
  <2>2. pending' \subseteq Row  BY <1>4, FlightTypes DEF BufferChange
  <2>3. contested' \subseteq Cells  BY <1>4 DEF BufferChange
  <2>4. QED  BY <1>4, <1>3, <2>1, <2>2, <2>3 DEF BufferChange
<1>5. ASSUME NEW q \in inflight, BufferFails(q) PROVE TypeOK'
  <2>1. inflight' \subseteq Flight  BY <1>5, FlightTypes DEF BufferFails
  <2>2. contested' \subseteq Cells  BY <1>5 DEF BufferFails
  <2>3. QED  BY <1>5, <1>3, <2>1, <2>2 DEF BufferFails
<1>6. ASSUME NEW q \in inflight, UpdateCached(q) PROVE TypeOK'
  <2>1. cached' \in [Articles -> [Attrs -> OptVals]]
    BY <1>6, ActionTypes DEF UpdateCached, OptVals
  <2>2. QED  BY <1>6, <2>1 DEF UpdateCached
<1>7. QED  BY <1>1, <1>2, <1>4, <1>5, <1>6 DEF RequestStep

LEMMA FlushType ==
    ASSUME TypeOK, NEW f \in Flushers, FlushStep(f)
    PROVE  TypeOK'
<1> DEFINE PcType == {"idle", "marks", "overrides", "clear", "evict", "uncache",
                      "reconnect"}
<1> USE DEF TypeOK, durable, replay, history, env
<1>1. \A feeds, articles : Stage(feeds, articles) \in PcType  BY DEF Stage
<1>2. Done(f) \in PcType  BY DEF Done
<1>3. \A feed : AfterMark(feed) \in [Articles -> [Attrs -> Vals]]
  BY DEF AfterMark, Vals
<1>4. \A group : AfterUpdate(f, group) \in [Articles -> [Attrs -> Vals]]
  <2>1. \A b \in Articles, x \in Attrs : Payload(f, b)[x] \in OptVals
    BY OverrideType DEF Payload
  <2>2. QED  BY <2>1 DEF AfterUpdate, OptVals
<1>5. ASSUME NEW next \in PcType, Abandon(f, next)
      PROVE  /\ pc' \in [Flushers -> PcType]
             /\ batch' \in [Flushers -> SUBSET Row]
             /\ feedsLeft' \in [Flushers -> SUBSET Feeds]
             /\ articlesLeft' \in [Flushers -> SUBSET Articles]
  BY <1>5 DEF Abandon
<1>6. CASE FlushRead(f)
  <2>1. MarkedFeeds(pending) \subseteq Feeds
    BY DEF MarkedFeeds, Row, ArticleActions
  <2>2. OverriddenArticles(pending) \subseteq Articles  BY DEF OverriddenArticles
  <2>3. contested' \subseteq Cells  BY <1>6 DEF FlushRead
  <2>4. pc' \in [Flushers -> PcType]  BY <1>1, <1>6 DEF FlushRead
  <2>5. QED  BY <1>6, <2>1, <2>2, <2>3, <2>4 DEF FlushRead
<1>7. CASE ReplayMark(f)
  <2>1. pc' \in [Flushers -> PcType]  BY <1>1, <1>7 DEF ReplayMark
  <2>2. lance' \in [Articles -> [Attrs -> Vals]]  BY <1>3, <1>7 DEF ReplayMark
  <2>3. QED  BY <1>7, <2>1, <2>2 DEF ReplayMark
<1>8. CASE ReplayGroup(f)
  <2>1. pc' \in [Flushers -> PcType]  BY <1>1, <1>8 DEF ReplayGroup
  <2>2. lance' \in [Articles -> [Attrs -> Vals]]  BY <1>4, <1>8 DEF ReplayGroup
  <2>3. QED  BY <1>8, <2>1, <2>2 DEF ReplayGroup
<1>9. CASE ReplayFails(f)
  <2>1. lance' \in [Articles -> [Attrs -> Vals]]
    BY <1>3, <1>4, <1>9 DEF ReplayFails
  <2>2. QED  BY <1>2, <1>5, <1>9, <2>1 DEF ReplayFails
<1>10. CASE ClearPending(f)
  BY <1>5, <1>10 DEF ClearPending
<1>11. CASE Evict(f)
  <2>1. cached' \in [Articles -> [Attrs -> OptVals]]
    BY <1>11, BlankType DEF Evict
  <2>2. QED  BY <1>11, <2>1 DEF Evict
<1>12. CASE ClearOverlay(f)
  BY <1>2, <1>12, BlankType DEF ClearOverlay
<1>13. QED
  BY <1>6, <1>7, <1>8, <1>9, <1>10, <1>11, <1>12 DEF FlushStep

LEMMA OtherType ==
    ASSUME TypeOK,
           \/ ProbeNothingPending \/ Reconnect \/ GoOffline
           \/ \E s \in Snapshotters : SnapshotStep(s)
           \/ Environment
    PROVE  TypeOK'
<1> USE DEF TypeOK, durable, replay, history, env
<1>1. CASE ProbeNothingPending \/ Reconnect \/ GoOffline
  BY <1>1 DEF ProbeNothingPending, Reconnect, GoOffline
<1>2. ASSUME NEW s \in Snapshotters, SnapshotRead(s) PROVE TypeOK'
  <2>1. \A a \in Articles, x \in Attrs : View(a, x) \in OptVals
    BY DEF View, OptVals
  <2>2. snap' \in [Snapshotters -> [Articles -> [Attrs -> OptVals]]]
    BY <1>2, <2>1, BlankType DEF SnapshotRead
  <2>3. QED  BY <1>2, <2>2 DEF SnapshotRead
<1>3. ASSUME NEW s \in Snapshotters, SnapshotWrite(s) PROVE TypeOK'
  <2>1. cached' \in [Articles -> [Attrs -> OptVals]]
    BY <1>3 DEF SnapshotWrite
  <2>2. QED  BY <1>3, <2>1, BlankType DEF SnapshotWrite
<1>4. ASSUME NEW a \in Articles, Fetch(a) PROVE TypeOK'
  <2>1. contested' \subseteq Cells  BY <1>4 DEF Fetch, Cells
  <2>2. stored' \subseteq Articles  BY <1>4 DEF Fetch
  <2>3. /\ lance' \in [Articles -> [Attrs -> Vals]]
        /\ want' \in [Articles -> [Attrs -> Vals]]
    BY <1>4, BlankType DEF Fetch
  <2>4. QED  BY <1>4, <2>1, <2>2, <2>3 DEF Fetch
<1>5. CASE LanceDown \/ LanceBack
  <2>1. outages' \in Nat  BY <1>5 DEF LanceDown, LanceBack
  <2>2. lanceUp' \in BOOLEAN  BY <1>5 DEF LanceDown, LanceBack
  <2>3. QED  BY <1>5, <2>1, <2>2 DEF LanceDown, LanceBack
<1>6. CASE Crash
  <2>1. crashes' \in Nat  BY <1>6 DEF Crash
  <2>2. /\ overlay' \in [Articles -> [Attrs -> OptVals]]
        /\ snap' \in [Snapshotters -> [Articles -> [Attrs -> OptVals]]]
    BY <1>6, BlankType DEF Crash
  <2>3. inflight' \subseteq Flight  BY <1>6 DEF Crash
  <2>4. QED  BY <1>6, <2>1, <2>2, <2>3 DEF Crash
<1>7. QED
  BY <1>1, <1>2, <1>3, <1>4, <1>5, <1>6 DEF SnapshotStep, Environment

LEMMA NextType == ASSUME TypeOK, [Next]_vars PROVE TypeOK'
<1>1. CASE UNCHANGED vars  BY <1>1 DEF TypeOK, vars
<1>2. CASE Next  BY <1>2, RequestType, FlushType, OtherType DEF Next
<1>3. QED  BY <1>1, <1>2

\* Whatever the users, the replays, the outages and the crashes do, every
\* variable keeps a value of its kind (TypeOK).
THEOREM TypeCorrect == Spec => []TypeOK
<1>1. QED  BY InitType, NextType, PTL DEF Spec

-----------------------------------------------------------------------------
(* The collapse of a batch.                                                *)

\* A cell no row overrides is left alone, one that is overridden is written.
LEMMA OverrideSet ==
    ASSUME NEW rows, NEW a, NEW x
    PROVE  /\ (\E r \in rows : Overrides(r, a, x)) => Override(rows, a, x) \in Vals
           /\ (~\E r \in rows : Overrides(r, a, x)) => Override(rows, a, x) = Unset
           /\ Unset \notin Vals
BY ActionTypes DEF Override, Vals, Unset

\* Ids are unique, so the value written is the last row's.
LEMMA OverrideLast ==
    ASSUME NEW rows \in SUBSET Row, UniqueIds(rows),
           NEW a, NEW x, NEW r \in rows, Wins(r, rows, a, x)
    PROVE  Override(rows, a, x) = ValOf(r.action)
<1> DEFINE last == CHOOSE q \in rows : Wins(q, rows, a, x)
<1>1. last \in rows /\ Wins(last, rows, a, x)  OBVIOUS
<1>2. r.id <= last.id /\ last.id <= r.id  BY <1>1 DEF Wins
<1>3. r.id \in Nat /\ last.id \in Nat  BY <1>1 DEF Row
<1>4. r.id = last.id  BY <1>2, <1>3
<1>5. last = r  BY <1>1, <1>4 DEF UniqueIds
<1>6. Overrides(r, a, x)  BY DEF Wins
<1>7. QED  BY <1>5, <1>6 DEF Override

\* Batches with the same rows for a cell write it the same value.
LEMMA OverrideAgree ==
    ASSUME NEW rows \in SUBSET Row, UniqueIds(rows), HasLast(rows),
           NEW others \in SUBSET Row, UniqueIds(others),
           NEW a \in Articles, NEW x \in Attrs,
           \A r \in rows \cup others :
              Overrides(r, a, x) => r \in rows /\ r \in others
    PROVE  Override(others, a, x) = Override(rows, a, x)
<1>1. CASE \E r \in rows : Overrides(r, a, x)
  <2>1. PICK r \in rows : Wins(r, rows, a, x)  BY <1>1 DEF HasLast
  <2>2. r \in others /\ Wins(r, others, a, x)  BY <2>1 DEF Wins
  <2>3. QED  BY <2>1, <2>2, OverrideLast
<1>2. CASE ~\E r \in rows : Overrides(r, a, x)
  <2>1. ~\E r \in others : Overrides(r, a, x)  BY <1>2
  <2>2. QED  BY <1>2, <2>1, OverrideSet
<1>3. QED  BY <1>1, <1>2

-----------------------------------------------------------------------------
(* IInv is inductive: one lemma for each group of actions.                 *)

LEMMA InitInv == Init => IInv
<1> SUFFICES ASSUME Init PROVE IInv  OBVIOUS
<1>1. TypeOK  BY InitType
<1>2. RowsOrdered  BY DEF Init, RowsOrdered, UniqueIds, HasLast
<1>3. KnownTargets  BY DEF Init, KnownTargets, NoRows
<1>4. PendingLeadsToWant
  BY OverrideSet DEF Init, PendingLeadsToWant, Outcome, Marked
<1>5. \A f \in Flushers : pc[f] = "idle" /\ ~Active(f)
  BY DEF Init, Active, Holding
<1>6. BatchIsPending /\ OverlapContested /\ ClearedContested /\ WrittenSoFar
  BY <1>5 DEF BatchIsPending, OverlapContested, ClearedContested, WrittenSoFar
<1>7. WorkLeft  BY <1>5 DEF Init, WorkLeft
<1>8. OverlayIsWanted  BY DEF Init, OverlayIsWanted, NoRows, Blank
<1>9. QED  BY <1>1, <1>2, <1>3, <1>4, <1>6, <1>7, <1>8 DEF IInv

\* Steps that leave the rows, the replays and Lance alone keep all of IInv that
\* is not about the overlay and the requests.
LEMMA Frame ==
    ASSUME IInv,
           UNCHANGED <<lance, stored, pending, nextId, pc, batch, feedsLeft,
                       articlesLeft>>,
           \A a \in Articles, x \in Attrs :
              Clean(a, x)' => Clean(a, x) /\ want'[a][x] = want[a][x]
    PROVE  /\ RowsOrdered' /\ PendingLeadsToWant' /\ BatchIsPending'
           /\ OverlapContested' /\ ClearedContested' /\ WorkLeft' /\ WrittenSoFar'
<1> USE DEF IInv
<1>1. RowsOrdered'  BY DEF RowsOrdered
<1>2. PendingLeadsToWant'  BY DEF PendingLeadsToWant, Outcome
<1>3. BatchIsPending'  BY DEF BatchIsPending, Active
<1>4. OverlapContested'  BY DEF OverlapContested, Active
<1>5. ClearedContested'  BY DEF ClearedContested
<1>6. WorkLeft'  BY DEF WorkLeft, Active
<1>7. WrittenSoFar'  BY DEF WrittenSoFar, Active
<1>8. QED  BY <1>1, <1>2, <1>3, <1>4, <1>5, <1>6, <1>7

\* A request writes the overlay: the cells it touches are in flight.
LEMMA StartInv ==
    ASSUME IInv, NEW h \in Handlers, NEW q \in Requests,
           SetOverlay(h, q) \/ MarkOverlay(h, q)
    PROVE  IInv'
<1> USE DEF durable, replay, history, env
<1> DEFINE p == [by |-> h, stage |-> "buffer", action |-> q.action,
                 target |-> q.target]
<1>1. TypeOK /\ TypeOK'
  <2>1. RequestStep  BY DEF RequestStep
  <2>2. QED  BY <2>1, RequestType DEF IInv
<1>2. /\ UNCHANGED <<lance, stored, pending, nextId, pc, batch, feedsLeft,
                     articlesLeft, want, contested>>
      /\ inflight' = inflight \cup {p}
  BY DEF SetOverlay, MarkOverlay, Start
<1>3. /\ RowsOrdered' /\ PendingLeadsToWant' /\ BatchIsPending'
      /\ OverlapContested' /\ ClearedContested' /\ WorkLeft' /\ WrittenSoFar'
  BY <1>2, Frame DEF Clean
<1>4. ASSUME NEW a \in Articles, NEW x \in Attrs, ~Touches(p, a, x) \/ a \notin stored
      PROVE  overlay'[a][x] = overlay[a][x]
  <2>1. CASE SetOverlay(h, q)
    BY <1>1, <1>4, <2>1, ActionTypes DEF SetOverlay, Touches, Overrides, TypeOK
  <2>2. CASE MarkOverlay(h, q)
    BY <1>1, <1>4, <2>2 DEF MarkOverlay, Touches, Marks, TypeOK, Attrs
  <2>3. QED  BY <2>1, <2>2
<1>5. KnownTargets'
  <2>1. q.action \in ArticleActions => q.target \in stored
    BY DEF SetOverlay, MarkOverlay, ArticleActions
  <2>2. ASSUME NEW a \in Articles \ stored PROVE overlay'[a] = Blank
    <3>1. overlay[a] = Blank  BY DEF IInv, KnownTargets
    <3>2. overlay'[a] = overlay[a]
      <4>1. overlay[a] \in [Attrs -> OptVals] /\ overlay'[a] \in [Attrs -> OptVals]
        BY <1>1 DEF TypeOK
      <4>2. \A x \in Attrs : overlay'[a][x] = overlay[a][x]  BY <1>4
      <4>3. QED  BY <4>1, <4>2
    <3>3. QED  BY <3>1, <3>2
  <2>3. QED  BY <1>2, <2>1, <2>2 DEF IInv, KnownTargets
<1>6. OverlayIsWanted'
  <2> SUFFICES ASSUME NEW a \in stored, NEW x \in Attrs,
                      <<a, x>> \notin contested, ~InFlight(a, x)'
               PROVE  overlay'[a][x] \in {Unset, want[a][x]}
    BY <1>2 DEF OverlayIsWanted
  <2>1. ~Touches(p, a, x) /\ ~InFlight(a, x)  BY <1>2 DEF InFlight
  <2>2. a \in Articles  BY <1>1 DEF TypeOK
  <2>3. QED  BY <1>4, <2>1, <2>2 DEF IInv, OverlayIsWanted
<1>7. QED  BY <1>1, <1>3, <1>5, <1>6 DEF IInv

\* What a record does to a cell, it does wherever it is: in flight at any
\* stage or in pending_changes.
LEMMA SameTouch ==
    ASSUME NEW q, NEW p, p.action = q.action, p.target = q.target
    PROVE  \A a \in Articles, x \in Attrs :
              /\ Overrides(p, a, x) <=> Overrides(q, a, x)
              /\ Marks(p, a, x) <=> Marks(q, a, x)
              /\ Touches(p, a, x) <=> Touches(q, a, x)
BY DEF Overrides, Marks, Touches

\* A row recorded with the next id is the last one of the cells it overrides,
\* and no other cell notices.
LEMMA RowsGrow ==
    ASSUME IInv, NEW q \in inflight, BufferChange(q), TypeOK'
    PROVE  RowsOrdered'
<1> DEFINE r0 == [id |-> nextId, action |-> q.action, target |-> q.target]
<1>1. /\ pending' = pending \cup {r0}
      /\ nextId' = nextId + 1
      /\ batch' = batch
  BY DEF BufferChange, replay
<1>2. /\ RowsOrdered /\ nextId \in Nat
      /\ \A r \in pending : r.id \in Nat /\ r.id < nextId
  BY DEF IInv, TypeOK, RowsOrdered, Row
<1>3. r0.id = nextId  OBVIOUS
<1>4. \A r \in pending' : r.id < nextId'
  BY <1>1, <1>2, <1>3
<1>5. UniqueIds(pending')
  BY <1>1, <1>2, <1>3 DEF UniqueIds, RowsOrdered
<1>6. HasLast(pending')
  <2> SUFFICES ASSUME NEW a \in Articles, NEW x \in Attrs,
                      \E r \in pending' : Overrides(r, a, x)
               PROVE  \E r \in pending' : Wins(r, pending', a, x)
    BY DEF HasLast
  <2>1. CASE Overrides(r0, a, x)
    <3>1. \A r \in pending' : r.id <= r0.id  BY <1>1, <1>2, <1>3
    <3>2. QED  BY <1>1, <2>1, <3>1 DEF Wins
  <2>2. CASE ~Overrides(r0, a, x)
    <3>1. PICK r \in pending : Wins(r, pending, a, x)
      BY <1>1, <1>2, <2>2 DEF RowsOrdered, HasLast
    <3>2. QED  BY <1>1, <2>2, <3>1 DEF Wins
  <2>3. QED  BY <2>1, <2>2
<1>7. QED  BY <1>1, <1>2, <1>4, <1>5, <1>6 DEF RowsOrdered

LEMMA BufferInv ==
    ASSUME IInv, NEW q \in inflight, BufferChange(q)
    PROVE  IInv'
<1> DEFINE r0 == [id |-> nextId, action |-> q.action, target |-> q.target]
           moved == [q EXCEPT !.stage = "cache"]
<1>1. TypeOK /\ TypeOK'
  <2>1. RequestStep  BY DEF RequestStep
  <2>2. QED  BY <2>1, RequestType DEF IInv
<1>2. /\ UNCHANGED <<lance, stored, overlay, pc, batch, feedsLeft, articlesLeft>>
      /\ pending' = pending \cup {r0}
      /\ inflight' = (inflight \ {q}) \cup {moved}
  BY DEF BufferChange, NextStep, replay
<1>3. RowsOrdered /\ RowsOrdered'  BY <1>1, RowsGrow DEF IInv
<1>4. /\ moved.stage = "cache" /\ moved.action = q.action /\ moved.target = q.target
      /\ r0.action = q.action /\ r0.target = q.target
  BY <1>1 DEF TypeOK, Flight
<1>5. \A a \in Articles, x \in Attrs :
         /\ Overrides(r0, a, x) <=> Overrides(q, a, x)
         /\ Marks(r0, a, x) <=> Marks(q, a, x)
         /\ Touches(r0, a, x) <=> Touches(q, a, x)
  BY <1>4, SameTouch
\* the cells the change touches
<1>6. ASSUME NEW a \in Articles, NEW x \in Attrs, Touches(q, a, x), Clean(a, x)'
      PROVE  /\ Plain(q, a, x) /\ a \in stored
             /\ want'[a][x] = ValOf(q.action)
  <2>1. <<a, x>> \in Cells /\ <<a, x>> \notin contested' /\ a \in stored
    BY <1>2, <1>6 DEF Clean, Cells
  <2>2. Plain(q, a, x)  BY <1>6, <2>1 DEF BufferChange
  <2>3. QED  BY <1>6, <2>1, <2>2 DEF BufferChange, Wanted
\* the cells it does not touch
<1>7. ASSUME NEW a \in Articles, NEW x \in Attrs, ~Touches(q, a, x), Clean(a, x)'
      PROVE  Clean(a, x) /\ want'[a][x] = want[a][x]
  <2>1. <<a, x>> \in Cells /\ <<a, x>> \notin contested' /\ a \in stored
    BY <1>2, <1>7 DEF Clean, Cells
  <2>2. Clean(a, x)  BY <1>7, <2>1 DEF BufferChange, Clean
  <2>3. QED  BY <1>1, <1>7, <2>1, <2>2 DEF BufferChange, Wanted
<1>8. KnownTargets'
  <2>1. KnownTargets /\ (q.action \in ArticleActions => q.target \in stored)
    BY DEF IInv, KnownTargets
  <2>2. QED  BY <1>2, <1>4, <2>1 DEF KnownTargets
<1>9. PendingLeadsToWant'
  <2> SUFFICES ASSUME NEW a \in Articles, NEW x \in Attrs, Clean(a, x)'
               PROVE  Outcome(pending, a, x)' = want'[a][x]
    BY DEF PendingLeadsToWant
  <2>0. pending \in SUBSET Row /\ pending' \in SUBSET Row
        /\ UniqueIds(pending) /\ UniqueIds(pending') /\ HasLast(pending)
    BY <1>1, <1>3 DEF TypeOK, RowsOrdered
  <2>1. CASE ~Touches(q, a, x)
    <3>1. \A r \in pending \cup pending' :
             Touches(r, a, x) => r \in pending /\ r \in pending'
      BY <1>2, <1>5, <2>1
    <3>2. Override(pending', a, x) = Override(pending, a, x)
      BY <2>0, <3>1, OverrideAgree DEF Touches
    <3>3. Marked(pending', a, x) <=> Marked(pending, a, x)
      BY <3>1, <1>2 DEF Marked, Touches
    <3>4. Outcome(pending, a, x) = want[a][x]
      BY <1>7, <2>1 DEF IInv, PendingLeadsToWant
    <3>5. QED  BY <1>2, <1>7, <2>1, <3>2, <3>3, <3>4 DEF Outcome
  <2>2. CASE Overrides(q, a, x)
    <3>1. Overrides(r0, a, x) /\ r0 \in pending'  BY <1>2, <1>5, <2>2
    <3>2. \A r \in pending' : r.id <= r0.id
      BY <1>1, <1>2, <1>3 DEF TypeOK, RowsOrdered, Row
    <3>3. Wins(r0, pending', a, x)  BY <3>1, <3>2 DEF Wins
    <3>4. Override(pending', a, x) = ValOf(q.action)
      BY <1>4, <2>0, <3>1, <3>3, OverrideLast
    <3>5. Override(pending', a, x) # Unset
      BY <3>4, ActionTypes DEF Vals, Unset
    <3>6. QED  BY <1>6, <2>2, <3>4, <3>5 DEF Outcome, Touches
  <2>3. CASE Marks(q, a, x)
    <3>1. ValOf(q.action) = "true"  BY <2>3 DEF Marks, ValOf
    <3>2. \A r \in pending \cup pending' :
             Overrides(r, a, x) => r \in pending /\ r \in pending'
      BY <1>2, <1>4, <2>3 DEF Marks, Overrides, ArticleActions
    <3>3. Override(pending', a, x) = Override(pending, a, x)
      BY <2>0, <3>2, OverrideAgree
    <3>4. Override(pending, a, x) \in {Unset, "true"}
      BY <1>6, <2>3, OverrideType DEF Plain, Touches, OptVals, Vals
    <3>5. Marked(pending', a, x)  BY <1>2, <1>5, <2>3 DEF Marked
    <3>6. want'[a][x] = "true"  BY <1>6, <2>3, <3>1 DEF Touches
    <3>7. QED  BY <3>3, <3>4, <3>5, <3>6 DEF Outcome
  <2>4. QED  BY <2>1, <2>2, <2>3 DEF Touches
\* a replay under way leaves only the cells the change does not touch clean
<1>10. ASSUME NEW f \in Flushers, pc[f] \notin {"idle", "reconnect"},
              NEW a \in Articles, NEW x \in Attrs, Clean(a, x)'
       PROVE  ~Touches(r0, a, x) /\ Clean(a, x)
  <2>1. Replaying  BY <1>10 DEF Replaying
  <2>2. ~Touches(q, a, x)  BY <1>6, <1>10, <2>1 DEF Plain
  <2>3. QED  BY <1>5, <1>7, <1>10, <2>2
<1>11. \A f \in Flushers : Active(f) => pc[f] \notin {"idle", "reconnect"}
  BY DEF Active, Holding
<1>12. BatchIsPending'
  BY <1>2, <1>10, <1>11 DEF IInv, BatchIsPending, Active
<1>13. OverlapContested'
  BY <1>2, <1>10, <1>11 DEF IInv, OverlapContested, Active
<1>14. ClearedContested'
  BY <1>2, <1>10 DEF IInv, ClearedContested
<1>15. WorkLeft'  BY <1>2 DEF IInv, WorkLeft, Active
<1>16. WrittenSoFar'
  BY <1>2, <1>10, <1>11 DEF IInv, WrittenSoFar, Active
<1>17. OverlayIsWanted'
  <2> SUFFICES ASSUME NEW a \in stored, NEW x \in Attrs,
                      <<a, x>> \notin contested', ~InFlight(a, x)'
               PROVE  overlay[a][x] \in {Unset, want'[a][x]}
    BY <1>2 DEF OverlayIsWanted
  <2>1. a \in Articles /\ Clean(a, x)'  BY <1>1, <1>2 DEF TypeOK, Clean
  <2>2. CASE Touches(q, a, x)
    BY <1>6, <2>1, <2>2 DEF Plain
  <2>3. CASE ~Touches(q, a, x)
    <3>1. ~InFlight(a, x)  BY <1>2, <2>3 DEF InFlight
    <3>2. QED  BY <1>7, <2>1, <2>3, <3>1 DEF IInv, OverlayIsWanted, Clean
  <2>4. QED  BY <2>2, <2>3
<1>18. QED
  BY <1>1, <1>3, <1>8, <1>9, <1>12, <1>13, <1>14, <1>15, <1>16, <1>17 DEF IInv

LEMMA DropInv ==
    ASSUME IInv, NEW q \in inflight, BufferFails(q) \/ UpdateCached(q)
    PROVE  IInv'
<1> USE DEF durable, replay, history, env
<1>1. TypeOK /\ TypeOK'
  <2>1. RequestStep  BY DEF RequestStep
  <2>2. QED  BY <2>1, RequestType DEF IInv
<1>2. UNCHANGED <<lance, stored, overlay, pending, nextId, pc, batch, feedsLeft,
                  articlesLeft>>
  BY DEF BufferFails, UpdateCached
<1>3. ASSUME NEW a \in Articles, NEW x \in Attrs, Clean(a, x)'
      PROVE  /\ Clean(a, x) /\ want'[a][x] = want[a][x]
             /\ BufferFails(q) => ~Touches(q, a, x)
  <2>1. <<a, x>> \in Cells /\ <<a, x>> \notin contested' /\ a \in stored
    BY <1>2, <1>3 DEF Clean, Cells
  <2>2. CASE BufferFails(q)
    <3>1. Clean(a, x) /\ ~Touches(q, a, x)  BY <2>1, <2>2 DEF BufferFails, Clean
    <3>2. QED  BY <1>1, <2>1, <2>2, <3>1 DEF BufferFails, Wanted
  <2>3. CASE UpdateCached(q)
    <3>1. q.stage = "cache"  BY <2>3 DEF UpdateCached
    <3>2. ~BufferFails(q)  BY <3>1 DEF BufferFails
    <3>3. QED  BY <2>1, <2>3, <3>2 DEF UpdateCached, Clean
  <2>4. QED  BY <2>2, <2>3
<1>4. /\ RowsOrdered' /\ PendingLeadsToWant' /\ BatchIsPending'
      /\ OverlapContested' /\ ClearedContested' /\ WorkLeft' /\ WrittenSoFar'
  BY <1>2, <1>3, Frame
<1>5. /\ \A p \in inflight' :
            /\ \E r \in inflight : r.action = p.action /\ r.target = p.target
            /\ p.stage = "buffer" => p \in inflight
      /\ \A p \in inflight : p # q => p \in inflight'
      /\ q.stage = "buffer" => BufferFails(q)
  <2>1. CASE BufferFails(q)
    <3> DEFINE moved == [q EXCEPT !.stage = "cache"]
    <3>1. inflight' = (inflight \ {q}) \cup {moved}
      BY <2>1 DEF BufferFails, NextStep
    <3>2. /\ moved.stage = "cache" /\ moved.action = q.action
          /\ moved.target = q.target
      BY <1>1 DEF TypeOK, Flight
    <3>3. QED  BY <2>1, <3>1, <3>2
  <2>2. CASE UpdateCached(q)
    BY <2>2 DEF UpdateCached
  <2>3. QED  BY <2>1, <2>2
<1>6. KnownTargets'
  BY <1>2, <1>5 DEF IInv, KnownTargets
<1>7. OverlayIsWanted'
  <2> SUFFICES ASSUME NEW a \in stored, NEW x \in Attrs,
                      <<a, x>> \notin contested', ~InFlight(a, x)'
               PROVE  overlay[a][x] \in {Unset, want'[a][x]}
    BY <1>2 DEF OverlayIsWanted
  <2>1. a \in Articles /\ Clean(a, x)'  BY <1>1, <1>2 DEF TypeOK, Clean
  <2>2. ~InFlight(a, x)
    <3> SUFFICES ASSUME NEW p \in inflight, p.stage = "buffer", Touches(p, a, x)
                 PROVE  FALSE
      BY DEF InFlight
    <3>1. CASE p = q  BY <1>3, <1>5, <2>1, <3>1
    <3>2. CASE p # q  BY <1>5, <3>2 DEF InFlight
    <3>3. QED  BY <3>1, <3>2
  <2>3. QED  BY <1>3, <2>1, <2>2 DEF IInv, OverlayIsWanted, Clean
<1>8. QED  BY <1>1, <1>4, <1>6, <1>7 DEF IInv

\* Reads, snapshots and outages touch nothing IInv speaks of.
LEMMA IdleInv ==
    ASSUME IInv,
           \/ UNCHANGED vars
           \/ GoOffline \/ LanceDown \/ LanceBack
           \/ \E s \in Snapshotters : SnapshotStep(s)
    PROVE  IInv'
<1>1. TypeOK /\ TypeOK'
  <2>1. [Next]_vars
    <3>1. CASE UNCHANGED vars  BY <3>1
    <3>2. CASE GoOffline \/ LanceDown \/ LanceBack
      BY <3>2 DEF Next, Environment
    <3>3. CASE \E s \in Snapshotters : SnapshotStep(s)
      BY <3>3 DEF Next
    <3>4. QED  BY <3>1, <3>2, <3>3
  <2>2. QED  BY <2>1, NextType DEF IInv
<1>2. UNCHANGED <<lance, stored, overlay, pending, nextId, inflight, pc, batch,
                  feedsLeft, articlesLeft, want, contested>>
  BY DEF vars, GoOffline, LanceDown, LanceBack, SnapshotStep, SnapshotRead,
         SnapshotWrite, durable, replay, history, env
<1>3. /\ RowsOrdered' /\ PendingLeadsToWant' /\ BatchIsPending'
      /\ OverlapContested' /\ ClearedContested' /\ WorkLeft' /\ WrittenSoFar'
  BY <1>2, Frame DEF IInv, Clean
<1>4. KnownTargets' /\ OverlayIsWanted'
  BY <1>2 DEF IInv, KnownTargets, OverlayIsWanted, InFlight
<1>5. QED  BY <1>1, <1>3, <1>4 DEF IInv

\* The rows a replay holds of a clean cell, and so what they add up to, are
\* those of pending_changes.
LEMMA BatchAgrees ==
    ASSUME IInv, NEW f \in Flushers, Active(f),
           NEW a \in Articles, NEW x \in Attrs, Clean(a, x)
    PROVE  /\ Override(batch[f], a, x) = Override(pending, a, x)
           /\ Marked(batch[f], a, x) <=> Marked(pending, a, x)
           /\ \A r \in batch[f] : Touches(r, a, x) => r \in pending
<1>1. \A r \in pending \cup batch[f] :
         Touches(r, a, x) => r \in pending /\ r \in batch[f]
  BY DEF IInv, BatchIsPending
<1>2. /\ pending \in SUBSET Row /\ batch[f] \in SUBSET Row
      /\ UniqueIds(pending) /\ HasLast(pending) /\ UniqueIds(batch[f])
  BY DEF IInv, TypeOK, RowsOrdered
<1>3. Override(batch[f], a, x) = Override(pending, a, x)
  BY <1>1, <1>2, OverrideAgree DEF Touches
<1>4. Marked(batch[f], a, x) <=> Marked(pending, a, x)
  BY <1>1 DEF Marked, Touches
<1>5. QED  BY <1>1, <1>3, <1>4

\* The two UPDATEs of a replay change only cells its batch touches.
LEMMA MarkWrites ==
    ASSUME IInv, NEW f \in Flushers, NEW feed \in feedsLeft[f],
           lance' = AfterMark(feed), NEW a \in Articles, NEW x \in Attrs,
           lance'[a][x] # lance[a][x]
    PROVE  \E r \in batch[f] : Touches(r, a, x)
<1>1. FeedOf[a] = feed /\ x = "is_read"
  BY DEF AfterMark, IInv, TypeOK, Attrs
<1>2. PICK r \in batch[f] : r.action = "mark_all_read" /\ r.target = feed
  BY DEF IInv, WorkLeft, MarkedFeeds
<1>3. QED  BY <1>1, <1>2 DEF Touches, Marks

LEMMA GroupWrites ==
    ASSUME IInv, NEW f \in Flushers, NEW group,
           lance' = AfterUpdate(f, group), NEW a \in Articles, NEW x \in Attrs,
           lance'[a][x] # lance[a][x]
    PROVE  \E r \in batch[f] : Touches(r, a, x)
<1>1. Override(batch[f], a, x) # Unset  BY DEF AfterUpdate, Payload
<1>2. QED  BY <1>1, OverrideSet DEF Touches

\* Such an UPDATE leaves the wanted outcome as it was, and hides nothing that
\* another replay has written of a clean cell.
LEMMA WriteEffect ==
    ASSUME IInv, NEW f \in Flushers, Active(f),
           UNCHANGED <<stored, pending, want, contested>>,
           \A a \in Articles, x \in Attrs : lance'[a][x] # lance[a][x] =>
              \E r \in batch[f] : Touches(r, a, x)
    PROVE  /\ PendingLeadsToWant'
           /\ \A g \in Flushers \ {f}, a \in Articles, x \in Attrs :
                 (/\ Active(g) /\ Clean(a, x)
                  /\ Override(batch[g], a, x) # Unset \/ Marked(batch[g], a, x))
                 => lance'[a][x] = lance[a][x]
<1>1. PendingLeadsToWant'
  <2> SUFFICES ASSUME NEW a \in Articles, NEW x \in Attrs, Clean(a, x)
               PROVE  Outcome(pending, a, x)' = want[a][x]
    BY DEF PendingLeadsToWant, Clean
  <2>1. Outcome(pending, a, x) = want[a][x]  BY DEF IInv, PendingLeadsToWant
  <2>2. CASE lance'[a][x] = lance[a][x]
    BY <2>1, <2>2 DEF Outcome
  <2>3. CASE lance'[a][x] # lance[a][x]
    <3>1. PICK r \in batch[f] : Touches(r, a, x)  BY <2>3
    <3>2. r \in pending  BY <3>1, BatchAgrees
    <3>3. Override(pending, a, x) # Unset \/ Marked(pending, a, x)
      BY <3>1, <3>2, OverrideSet DEF Touches, Marked
    <3>4. QED  BY <2>1, <3>3 DEF Outcome
  <2>4. QED  BY <2>2, <2>3
<1>2. ASSUME NEW g \in Flushers \ {f}, NEW a \in Articles, NEW x \in Attrs,
             Active(g), Clean(a, x),
             Override(batch[g], a, x) # Unset \/ Marked(batch[g], a, x)
      PROVE  lance'[a][x] = lance[a][x]
  <2>1. PICK r \in batch[g] : Touches(r, a, x)
    BY <1>2, OverrideSet DEF Touches, Marked
  <2>2. r \in pending  BY <1>2, <2>1, BatchAgrees
  <2>3. \A q \in pending : ~Touches(q, a, x)
    BY <1>2 DEF IInv, OverlapContested
  <2>4. QED  BY <2>1, <2>2, <2>3
<1>3. QED  BY <1>1, <1>2

\* The conjuncts that are not about Lance survive any step of a replay that
\* keeps its rows or gives them all up, and sends no request.
LEMMA ReplayFrame ==
    ASSUME IInv, NEW f \in Flushers, pc[f] # "reconnect",
           UNCHANGED <<stored, overlay, pending, nextId, inflight, want, contested>>,
           pc' = [pc EXCEPT ![f] = pc'[f]],
           pc'[f] \in {"evict", "uncache"} => pc[f] \in {"evict", "uncache"},
           \/ batch' = batch /\ Active(f) /\ Active(f)'
           \/ batch' = [batch EXCEPT ![f] = {}] /\ ~Active(f)'
    PROVE  /\ RowsOrdered' /\ KnownTargets' /\ BatchIsPending'
           /\ OverlapContested' /\ ClearedContested' /\ OverlayIsWanted'
<1> USE DEF IInv, TypeOK
<1>1. \A g \in Flushers : g # f => pc'[g] = pc[g] /\ (Active(g)' <=> Active(g))
                                  /\ batch'[g] = batch[g]
  BY DEF Active
<1>2. \A g \in Flushers : batch'[g] \in {batch[g], {}}  OBVIOUS
<1>3. \A g \in Flushers : Active(g)' => Active(g) /\ batch'[g] = batch[g]
  BY <1>1
<1>4. RowsOrdered'
  <2>1. UniqueIds({}) /\ HasLast({})  BY DEF UniqueIds, HasLast
  <2>2. \A g \in Flushers : UniqueIds(batch'[g]) /\ HasLast(batch'[g])
    BY <1>2, <2>1 DEF RowsOrdered
  <2>3. QED  BY <2>2 DEF RowsOrdered
<1>5. KnownTargets'  BY <1>2 DEF KnownTargets
<1>6. BatchIsPending'  BY <1>3 DEF BatchIsPending, Clean
<1>7. OverlapContested'  BY <1>3 DEF OverlapContested, Clean
<1>8. ClearedContested'  BY <1>1 DEF ClearedContested, Clean
<1>9. OverlayIsWanted'  BY DEF OverlayIsWanted, InFlight
<1>10. QED  BY <1>4, <1>5, <1>6, <1>7, <1>8, <1>9

LEMMA ReplayMarkInv ==
    ASSUME IInv, NEW f \in Flushers, ReplayMark(f)
    PROVE  IInv'
<1>1. TypeOK /\ TypeOK'
  <2>1. FlushStep(f)  BY DEF FlushStep
  <2>2. QED  BY <2>1, FlushType DEF IInv
<1>2. PICK feed \in feedsLeft[f] :
         /\ lance' = AfterMark(feed)
         /\ feedsLeft' = [feedsLeft EXCEPT ![f] = @ \ {feed}]
  BY DEF ReplayMark
<1>3. /\ pc[f] = "marks" /\ Active(f)
      /\ pc' = [pc EXCEPT ![f] = Stage(feedsLeft'[f], articlesLeft[f])]
      /\ UNCHANGED <<stored, overlay, pending, nextId, inflight, batch,
                     articlesLeft, want, contested>>
  BY DEF ReplayMark, Active, Holding, history
<1>4. /\ pc'[f] = Stage(feedsLeft'[f], articlesLeft[f])
      /\ pc'[f] \in Holding
  BY <1>1, <1>3 DEF TypeOK, Stage, Holding
<1>5. Active(f)'  BY <1>4 DEF Active
<1>6. /\ RowsOrdered' /\ KnownTargets' /\ BatchIsPending'
      /\ OverlapContested' /\ ClearedContested' /\ OverlayIsWanted'
  <2>1. pc' = [pc EXCEPT ![f] = pc'[f]]  BY <1>3, <1>4
  <2>2. pc'[f] \notin {"evict", "uncache"}  BY <1>4 DEF Holding
  <2>3. QED  BY <1>3, <1>5, <2>1, <2>2, ReplayFrame
<1>7. \A a \in Articles, x \in Attrs : lance'[a][x] # lance[a][x] =>
         \E r \in batch[f] : Touches(r, a, x)
  BY <1>2, MarkWrites
<1>8. /\ PendingLeadsToWant'
      /\ \A g \in Flushers \ {f}, a \in Articles, x \in Attrs :
            (/\ Active(g) /\ Clean(a, x)
             /\ Override(batch[g], a, x) # Unset \/ Marked(batch[g], a, x))
            => lance'[a][x] = lance[a][x]
  BY <1>3, <1>7, WriteEffect
<1>9. \A g \in Flushers : /\ g # f => pc'[g] = pc[g] /\ feedsLeft'[g] = feedsLeft[g]
                          /\ Active(g)' <=> Active(g)
  BY <1>1, <1>2, <1>3, <1>5 DEF TypeOK, Active
<1>10. feedsLeft'[f] = feedsLeft[f] \ {feed}
  BY <1>1, <1>2 DEF TypeOK
<1>11. /\ feedsLeft'[f] # {} => pc'[f] = "marks"
       /\ pc'[f] \in {"marks", "overrides", "clear"}
       /\ pc'[f] = "clear" => articlesLeft[f] = {}
  BY <1>4 DEF Stage
<1>12. WorkLeft'
  <2> SUFFICES ASSUME NEW g \in Flushers
               PROVE  /\ feedsLeft'[g] \subseteq MarkedFeeds(batch[g])
                      /\ articlesLeft[g] \subseteq OverriddenArticles(batch[g])
                      /\ pc'[g] = "marks"
                           => articlesLeft[g] = OverriddenArticles(batch[g])
                      /\ pc'[g] # "marks" => feedsLeft'[g] = {}
                      /\ pc'[g] \notin {"marks", "overrides"} => articlesLeft[g] = {}
                      /\ ~Active(g)' => batch[g] = {}
    BY <1>3 DEF WorkLeft
  <2>1. CASE g = f
    BY <1>3, <1>5, <1>10, <1>11, <2>1 DEF IInv, WorkLeft
  <2>2. CASE g # f
    BY <1>9, <2>2 DEF IInv, WorkLeft
  <2>3. QED  BY <2>1, <2>2
<1>13. WrittenSoFar'
  <2> SUFFICES ASSUME NEW g \in Flushers, NEW a \in Articles, NEW x \in Attrs,
                      Active(g)', Clean(a, x)
               PROVE  /\ (Override(batch[g], a, x) # Unset /\ a \notin articlesLeft[g])
                           => lance'[a][x] = Override(batch[g], a, x)
                      /\ (/\ Override(batch[g], a, x) = Unset
                          /\ Marked(batch[g], a, x)
                          /\ FeedOf[a] \notin feedsLeft'[g])
                           => lance'[a][x] = "true"
    BY <1>3 DEF WrittenSoFar, Clean
  <2>1. CASE g = f
    <3>1. Override(batch[f], a, x) # Unset => a \in articlesLeft[f]
      <4>1. articlesLeft[f] = OverriddenArticles(batch[f])
        BY <1>3 DEF IInv, WorkLeft
      <4>2. QED  BY <4>1, OverrideSet DEF OverriddenArticles
    <3>2. ASSUME Override(batch[f], a, x) = Unset, Marked(batch[f], a, x),
                 FeedOf[a] \notin feedsLeft'[f]
          PROVE  lance'[a][x] = "true"
      <4>1. a \in stored /\ x = "is_read"
        BY <3>2 DEF Marked, Marks, Clean
      <4>2. CASE FeedOf[a] = feed
        BY <1>1, <1>2, <4>1, <4>2 DEF AfterMark, TypeOK
      <4>3. CASE FeedOf[a] # feed
        <5>1. FeedOf[a] \notin feedsLeft[f]  BY <1>10, <3>2, <4>3
        <5>2. lance[a][x] = "true"
          BY <1>3, <3>2, <5>1 DEF IInv, WrittenSoFar
        <5>3. lance'[a] = lance[a]  BY <1>2, <4>3 DEF AfterMark
        <5>4. QED  BY <5>2, <5>3
      <4>4. QED  BY <4>2, <4>3
    <3>3. QED  BY <2>1, <3>1, <3>2
  <2>2. CASE g # f
    <3>1. Active(g) /\ feedsLeft'[g] = feedsLeft[g]  BY <1>9, <2>2
    <3>2. QED  BY <1>8, <2>2, <3>1 DEF IInv, WrittenSoFar
  <2>3. QED  BY <2>1, <2>2
<1>14. QED  BY <1>1, <1>6, <1>8, <1>12, <1>13 DEF IInv

LEMMA ReplayGroupInv ==
    ASSUME IInv, NEW f \in Flushers, ReplayGroup(f)
    PROVE  IInv'
<1>1. TypeOK /\ TypeOK'
  <2>1. FlushStep(f)  BY DEF FlushStep
  <2>2. QED  BY <2>1, FlushType DEF IInv
<1>2. PICK a0 \in articlesLeft[f] :
         /\ lance' = AfterUpdate(f, Group(f, a0))
         /\ articlesLeft' = [articlesLeft EXCEPT ![f] = @ \ Group(f, a0)]
  BY DEF ReplayGroup
<1> DEFINE group == Group(f, a0)
<1>3. /\ pc[f] = "overrides" /\ Active(f)
      /\ pc' = [pc EXCEPT ![f] = Stage({}, articlesLeft'[f])]
      /\ UNCHANGED <<stored, overlay, pending, nextId, inflight, batch,
                     feedsLeft, want, contested>>
  BY DEF ReplayGroup, Active, Holding, history
<1>4. /\ pc'[f] = Stage({}, articlesLeft'[f])
      /\ pc'[f] \in Holding
  BY <1>1, <1>3 DEF TypeOK, Stage, Holding
<1>5. Active(f)'  BY <1>4 DEF Active
<1>6. /\ RowsOrdered' /\ KnownTargets' /\ BatchIsPending'
      /\ OverlapContested' /\ ClearedContested' /\ OverlayIsWanted'
  <2>1. pc' = [pc EXCEPT ![f] = pc'[f]]  BY <1>3, <1>4
  <2>2. pc'[f] \notin {"evict", "uncache"}  BY <1>4 DEF Holding
  <2>3. QED  BY <1>3, <1>5, <2>1, <2>2, ReplayFrame
<1>7. \A a \in Articles, x \in Attrs : lance'[a][x] # lance[a][x] =>
         \E r \in batch[f] : Touches(r, a, x)
  BY <1>2, GroupWrites
<1>8. /\ PendingLeadsToWant'
      /\ \A g \in Flushers \ {f}, a \in Articles, x \in Attrs :
            (/\ Active(g) /\ Clean(a, x)
             /\ Override(batch[g], a, x) # Unset \/ Marked(batch[g], a, x))
            => lance'[a][x] = lance[a][x]
  BY <1>3, <1>7, WriteEffect
<1>9. \A g \in Flushers :
         /\ g # f => pc'[g] = pc[g] /\ articlesLeft'[g] = articlesLeft[g]
         /\ Active(g)' <=> Active(g)
  BY <1>1, <1>2, <1>3, <1>5 DEF TypeOK, Active
<1>10. articlesLeft'[f] = articlesLeft[f] \ group
  BY <1>1, <1>2 DEF TypeOK
<1>11. /\ feedsLeft[f] = {}
       /\ articlesLeft'[f] # {} => pc'[f] = "overrides"
       /\ pc'[f] \in {"overrides", "clear"}
  BY <1>3, <1>4 DEF Stage, IInv, WorkLeft
<1>12. WorkLeft'
  <2> SUFFICES ASSUME NEW g \in Flushers
               PROVE  /\ feedsLeft[g] \subseteq MarkedFeeds(batch[g])
                      /\ articlesLeft'[g] \subseteq OverriddenArticles(batch[g])
                      /\ pc'[g] = "marks"
                           => articlesLeft'[g] = OverriddenArticles(batch[g])
                      /\ pc'[g] # "marks" => feedsLeft[g] = {}
                      /\ pc'[g] \notin {"marks", "overrides"} => articlesLeft'[g] = {}
                      /\ ~Active(g)' => batch[g] = {}
    BY <1>3 DEF WorkLeft
  <2>1. CASE g = f
    BY <1>3, <1>5, <1>10, <1>11, <2>1 DEF IInv, WorkLeft
  <2>2. CASE g # f
    BY <1>9, <2>2 DEF IInv, WorkLeft
  <2>3. QED  BY <2>1, <2>2
<1>13. WrittenSoFar'
  <2> SUFFICES ASSUME NEW g \in Flushers, NEW a \in Articles, NEW x \in Attrs,
                      Active(g)', Clean(a, x)
               PROVE  /\ (Override(batch[g], a, x) # Unset /\ a \notin articlesLeft'[g])
                           => lance'[a][x] = Override(batch[g], a, x)
                      /\ (/\ Override(batch[g], a, x) = Unset
                          /\ Marked(batch[g], a, x)
                          /\ FeedOf[a] \notin feedsLeft[g])
                           => lance'[a][x] = "true"
    BY <1>3 DEF WrittenSoFar, Clean
  <2>1. CASE g = f
    <3> DEFINE o == Override(batch[f], a, x)
    <3>0. Payload(f, a)[x] = o  BY DEF Payload
    <3>1. lance'[a][x] = IF a \in group \cap stored /\ o # Unset
                         THEN o ELSE lance[a][x]
      BY <1>2, <3>0 DEF AfterUpdate
    <3>2. a \in stored  BY DEF Clean
    <3>3. ASSUME o # Unset, a \notin articlesLeft'[f]
          PROVE  lance'[a][x] = o
      <4>1. CASE a \in group  BY <3>1, <3>2, <3>3, <4>1
      <4>2. CASE a \notin group
        <5>1. a \notin articlesLeft[f]  BY <1>10, <3>3, <4>2
        <5>2. lance[a][x] = o
          BY <1>3, <3>3, <5>1 DEF IInv, WrittenSoFar
        <5>3. QED  BY <3>1, <4>2, <5>2
      <4>3. QED  BY <4>1, <4>2
    <3>4. ASSUME o = Unset, Marked(batch[f], a, x), FeedOf[a] \notin feedsLeft[f]
          PROVE  lance'[a][x] = "true"
      BY <1>3, <3>1, <3>4 DEF IInv, WrittenSoFar
    <3>5. QED  BY <2>1, <3>3, <3>4
  <2>2. CASE g # f
    <3>1. Active(g) /\ articlesLeft'[g] = articlesLeft[g]  BY <1>9, <2>2
    <3>2. QED  BY <1>8, <2>2, <3>1 DEF IInv, WrittenSoFar
  <2>3. QED  BY <2>1, <2>2
<1>14. QED  BY <1>1, <1>6, <1>8, <1>12, <1>13 DEF IInv

\* A replay that gives up its batch leaves the others' work as it was.
LEMMA AbandonWork ==
    ASSUME IInv, NEW f \in Flushers, NEW next, next \notin Holding,
           Abandon(f, next)
    PROVE  /\ WorkLeft' /\ ~Active(f)' /\ pc' = [pc EXCEPT ![f] = pc'[f]]
           /\ pc'[f] = next
           /\ batch' = [batch EXCEPT ![f] = {}]
           /\ \A g \in Flushers \ {f} :
                 /\ pc'[g] = pc[g] /\ (Active(g)' <=> Active(g))
                 /\ batch'[g] = batch[g] /\ feedsLeft'[g] = feedsLeft[g]
                 /\ articlesLeft'[g] = articlesLeft[g]
<1> USE DEF IInv, TypeOK
<1>1. /\ pc' = [pc EXCEPT ![f] = next]
      /\ batch' = [batch EXCEPT ![f] = {}]
      /\ feedsLeft' = [feedsLeft EXCEPT ![f] = {}]
      /\ articlesLeft' = [articlesLeft EXCEPT ![f] = {}]
  BY DEF Abandon
<1>2. /\ pc'[f] = next /\ batch'[f] = {} /\ feedsLeft'[f] = {}
      /\ articlesLeft'[f] = {}
  BY <1>1
<1>3. ASSUME NEW g \in Flushers \ {f}
      PROVE  /\ pc'[g] = pc[g] /\ (Active(g)' <=> Active(g))
             /\ batch'[g] = batch[g] /\ feedsLeft'[g] = feedsLeft[g]
             /\ articlesLeft'[g] = articlesLeft[g]
  BY <1>1 DEF Active
<1>4. ~Active(f)'  BY <1>2 DEF Active
<1>5. WorkLeft'
  <2>1. next # "marks"  BY DEF Holding
  <2>2. QED  BY <1>2, <1>3, <1>4, <2>1 DEF WorkLeft
<1>6. QED  BY <1>1, <1>2, <1>3, <1>4, <1>5

LEMMA ReplayFailsInv ==
    ASSUME IInv, NEW f \in Flushers, ReplayFails(f)
    PROVE  IInv'
<1>1. TypeOK /\ TypeOK'
  <2>1. FlushStep(f)  BY DEF FlushStep
  <2>2. QED  BY <2>1, FlushType DEF IInv
<1>2. /\ pc[f] \in Holding /\ Active(f)
      /\ Abandon(f, Done(f))
      /\ UNCHANGED <<stored, overlay, pending, nextId, inflight, want, contested>>
  BY DEF ReplayFails, Active, Holding, history
<1>3. Done(f) \in {"idle", "reconnect"}  BY DEF Done
<1>4. Done(f) \notin Holding  BY <1>3 DEF Holding
<1>5. /\ WorkLeft' /\ ~Active(f)' /\ pc' = [pc EXCEPT ![f] = pc'[f]]
      /\ pc'[f] = Done(f)
      /\ batch' = [batch EXCEPT ![f] = {}]
      /\ \A g \in Flushers \ {f} :
            /\ pc'[g] = pc[g] /\ (Active(g)' <=> Active(g))
            /\ batch'[g] = batch[g] /\ feedsLeft'[g] = feedsLeft[g]
            /\ articlesLeft'[g] = articlesLeft[g]
  BY <1>2, <1>4, AbandonWork
<1>6. /\ RowsOrdered' /\ KnownTargets' /\ BatchIsPending'
      /\ OverlapContested' /\ ClearedContested' /\ OverlayIsWanted'
  <2>1. pc[f] # "reconnect" /\ pc'[f] \notin {"evict", "uncache"}
    BY <1>2, <1>3, <1>5 DEF Holding
  <2>2. QED  BY <1>2, <1>5, <2>1, ReplayFrame
<1>7. \A a \in Articles, x \in Attrs : lance'[a][x] # lance[a][x] =>
         \E r \in batch[f] : Touches(r, a, x)
  <2>1. CASE lance' = lance  BY <2>1
  <2>2. CASE \E feed \in feedsLeft[f] : lance' = AfterMark(feed)
    BY <2>2, MarkWrites
  <2>3. CASE \E a \in articlesLeft[f] : lance' = AfterUpdate(f, Group(f, a))
    BY <2>3, GroupWrites
  <2>4. QED  BY <2>1, <2>2, <2>3 DEF ReplayFails
<1>8. /\ PendingLeadsToWant'
      /\ \A g \in Flushers \ {f}, a \in Articles, x \in Attrs :
            (/\ Active(g) /\ Clean(a, x)
             /\ Override(batch[g], a, x) # Unset \/ Marked(batch[g], a, x))
            => lance'[a][x] = lance[a][x]
  BY <1>2, <1>7, WriteEffect
<1>9. WrittenSoFar'
  <2> SUFFICES ASSUME NEW g \in Flushers, NEW a \in Articles, NEW x \in Attrs,
                      Active(g)', Clean(a, x)
               PROVE  /\ (Override(batch'[g], a, x) # Unset /\ a \notin articlesLeft'[g])
                           => lance'[a][x] = Override(batch'[g], a, x)
                      /\ (/\ Override(batch'[g], a, x) = Unset
                          /\ Marked(batch'[g], a, x)
                          /\ FeedOf[a] \notin feedsLeft'[g])
                           => lance'[a][x] = "true"
    BY <1>2 DEF WrittenSoFar, Clean
  <2>1. g \in Flushers \ {f}  BY <1>5
  <2>2. /\ Active(g) /\ batch'[g] = batch[g] /\ feedsLeft'[g] = feedsLeft[g]
        /\ articlesLeft'[g] = articlesLeft[g]
    BY <1>5, <2>1
  <2>3. QED  BY <1>8, <2>1, <2>2 DEF IInv, WrittenSoFar
<1>10. QED  BY <1>1, <1>5, <1>6, <1>8, <1>9 DEF IInv

\* The clear: what the batch says of a clean cell is by now in Lance.
LEMMA ClearPendingInv ==
    ASSUME IInv, NEW f \in Flushers, ClearPending(f)
    PROVE  IInv'
<1>1. TypeOK /\ TypeOK'
  <2>1. FlushStep(f)  BY DEF FlushStep
  <2>2. QED  BY <2>1, FlushType DEF IInv
<1>2. /\ pc[f] = "clear" /\ Active(f)
      /\ pending' = {}
      /\ Abandon(f, "evict")
      /\ UNCHANGED <<lance, stored, overlay, nextId, inflight, want, contested>>
  BY DEF ClearPending, Active, Holding, history
<1>3. "evict" \notin Holding  BY DEF Holding
<1>4. /\ WorkLeft' /\ ~Active(f)'
      /\ pc'[f] = "evict"
      /\ batch' = [batch EXCEPT ![f] = {}]
      /\ \A g \in Flushers \ {f} :
            /\ pc'[g] = pc[g] /\ (Active(g)' <=> Active(g))
            /\ batch'[g] = batch[g] /\ feedsLeft'[g] = feedsLeft[g]
            /\ articlesLeft'[g] = articlesLeft[g]
  BY <1>2, <1>3, AbandonWork
<1>5. \A g \in Flushers : Active(g)' => /\ g \in Flushers \ {f} /\ Active(g)
                                        /\ batch'[g] = batch[g]
                                        /\ feedsLeft'[g] = feedsLeft[g]
                                        /\ articlesLeft'[g] = articlesLeft[g]
  BY <1>4
<1>6. RowsOrdered'
  <2>1. UniqueIds({}) /\ HasLast({})  BY DEF UniqueIds, HasLast
  <2>2. \A g \in Flushers : batch'[g] \in {batch[g], {}}  BY <1>1, <1>4 DEF TypeOK
  <2>3. \A g \in Flushers : UniqueIds(batch'[g]) /\ HasLast(batch'[g])
    BY <2>1, <2>2 DEF IInv, RowsOrdered
  <2>4. QED  BY <1>2, <2>1, <2>3 DEF RowsOrdered
<1>7. KnownTargets'
  <2>1. \A g \in Flushers : batch'[g] \in {batch[g], {}}  BY <1>1, <1>4 DEF TypeOK
  <2>2. QED  BY <1>2, <2>1 DEF IInv, KnownTargets
<1>8. PendingLeadsToWant'
  <2> SUFFICES ASSUME NEW a \in Articles, NEW x \in Attrs, Clean(a, x)
               PROVE  Outcome({}, a, x) = want[a][x]
    BY <1>2 DEF PendingLeadsToWant, Clean, Outcome
  <2>1. Outcome({}, a, x) = lance[a][x]
    BY OverrideSet DEF Outcome, Marked
  <2>2. Outcome(pending, a, x) = want[a][x]  BY DEF IInv, PendingLeadsToWant
  <2>3. /\ Override(batch[f], a, x) = Override(pending, a, x)
        /\ Marked(batch[f], a, x) <=> Marked(pending, a, x)
    BY <1>2, BatchAgrees
  <2>4. a \notin articlesLeft[f] /\ FeedOf[a] \notin feedsLeft[f]
    BY <1>2 DEF IInv, WorkLeft
  <2>5. Outcome(pending, a, x) = lance[a][x]
    BY <1>2, <2>3, <2>4 DEF IInv, WrittenSoFar, Outcome
  <2>6. QED  BY <2>1, <2>2, <2>5
<1>9. BatchIsPending'
  <2> SUFFICES ASSUME NEW g \in Flushers, NEW a \in Articles, NEW x \in Attrs,
                      Active(g)', Clean(a, x), NEW r \in batch'[g],
                      Touches(r, a, x)
               PROVE  FALSE
    BY <1>2 DEF BatchIsPending, Clean
  <2>1. g # f /\ Active(g) /\ r \in batch[g]  BY <1>5
  <2>2. r \in pending  BY <2>1, BatchAgrees
  <2>3. QED  BY <1>2, <2>1, <2>2 DEF IInv, OverlapContested
<1>10. OverlapContested' /\ ClearedContested'
  BY <1>2 DEF OverlapContested, ClearedContested
<1>11. WrittenSoFar'
  BY <1>2, <1>5 DEF IInv, WrittenSoFar, Clean
<1>12. OverlayIsWanted'
  BY <1>2 DEF IInv, OverlayIsWanted, InFlight
<1>13. QED
  BY <1>1, <1>4, <1>6, <1>7, <1>8, <1>9, <1>10, <1>11, <1>12 DEF IInv

\* After the clear a flush drops the cached rows, then the overlay; the probe
\* goes on to put the server online.
LEMMA AfterClearInv ==
    ASSUME IInv,
           \/ \E f \in Flushers : Evict(f) \/ ClearOverlay(f)
           \/ ProbeNothingPending \/ Reconnect
    PROVE  IInv'
<1> USE DEF durable, replay, history, env
<1>1. TypeOK /\ TypeOK'
  <2>1. CASE \E f \in Flushers : Evict(f) \/ ClearOverlay(f)
    BY <2>1, FlushType DEF FlushStep, IInv
  <2>2. CASE ProbeNothingPending \/ Reconnect
    BY <2>2, OtherType DEF IInv
  <2>3. QED  BY <2>1, <2>2
<1>2. "probe" \in Flushers  BY DEF Flushers
<1>3. /\ UNCHANGED <<lance, stored, pending, nextId, inflight, batch, feedsLeft,
                     articlesLeft, want, contested>>
      /\ overlay' \in {overlay, NoRows}
  BY DEF Evict, ClearOverlay, ProbeNothingPending, Reconnect
<1>4. PICK f \in Flushers :
         /\ pc[f] \notin Holding
         /\ pc'[f] \in {"idle", "uncache", "reconnect"}
         /\ pc'[f] = "uncache" => pc[f] = "evict"
         /\ \A g \in Flushers : g # f => pc'[g] = pc[g]
  <2>1. ASSUME NEW f \in Flushers, Evict(f) \/ ClearOverlay(f)
        PROVE  /\ pc[f] \notin Holding
               /\ pc'[f] \in {"idle", "uncache", "reconnect"}
               /\ pc'[f] = "uncache" => pc[f] = "evict"
               /\ \A g \in Flushers : g # f => pc'[g] = pc[g]
    BY <1>1, <2>1 DEF Evict, ClearOverlay, Done, Holding, TypeOK
  <2>2. ASSUME ProbeNothingPending \/ Reconnect
        PROVE  /\ pc["probe"] \notin Holding
               /\ pc'["probe"] \in {"idle", "uncache", "reconnect"}
               /\ pc'["probe"] = "uncache" => pc["probe"] = "evict"
               /\ \A g \in Flushers : g # "probe" => pc'[g] = pc[g]
    BY <1>1, <1>2, <2>2 DEF ProbeNothingPending, Reconnect, Holding, TypeOK
  <2>3. QED  BY <1>2, <2>1, <2>2
<1>5. /\ \A g \in Flushers : Active(g)' <=> Active(g)
      /\ \A g \in Flushers : pc[g] \in Holding => pc'[g] = pc[g]
      /\ \A g \in Flushers : pc'[g] \in Holding => pc'[g] = pc[g]
      /\ \A g \in Flushers : pc'[g] \in {"evict", "uncache"} =>
                                pc[g] \in {"evict", "uncache"}
  BY <1>4 DEF Active, Holding
<1>6. RowsOrdered'  BY <1>3 DEF IInv, RowsOrdered
<1>7. KnownTargets'  BY <1>3 DEF IInv, KnownTargets, NoRows
<1>8. PendingLeadsToWant'
  BY <1>3 DEF IInv, PendingLeadsToWant, Outcome, Clean
<1>9. BatchIsPending'  BY <1>3, <1>5 DEF IInv, BatchIsPending, Clean
<1>10. OverlapContested'  BY <1>3, <1>5 DEF IInv, OverlapContested, Clean
<1>11. ClearedContested'  BY <1>3, <1>5 DEF IInv, ClearedContested, Clean
<1>12. WorkLeft'
  <2> SUFFICES ASSUME NEW g \in Flushers
               PROVE  /\ feedsLeft[g] \subseteq MarkedFeeds(batch[g])
                      /\ articlesLeft[g] \subseteq OverriddenArticles(batch[g])
                      /\ pc'[g] = "marks"
                           => articlesLeft[g] = OverriddenArticles(batch[g])
                      /\ pc'[g] # "marks" => feedsLeft[g] = {}
                      /\ pc'[g] \notin {"marks", "overrides"} => articlesLeft[g] = {}
                      /\ ~Active(g)' => batch[g] = {}
    BY <1>3 DEF WorkLeft
  <2>1. CASE pc[g] \in Holding
    BY <1>5, <2>1 DEF IInv, WorkLeft
  <2>2. CASE pc[g] \notin Holding
    <3>1. pc'[g] \notin Holding  BY <1>5, <2>2
    <3>2. QED  BY <1>5, <2>2, <3>1 DEF IInv, WorkLeft, Holding, Active
  <2>3. QED  BY <2>1, <2>2
<1>13. WrittenSoFar'  BY <1>3, <1>5 DEF IInv, WrittenSoFar, Clean
<1>14. OverlayIsWanted'
  <2>1. \A a \in stored, x \in Attrs : overlay'[a][x] \in {overlay[a][x], Unset}
    BY <1>1, <1>3 DEF TypeOK, NoRows, Blank
  <2>2. QED  BY <1>3, <2>1 DEF IInv, OverlayIsWanted, InFlight
<1>15. QED
  BY <1>1, <1>6, <1>7, <1>8, <1>9, <1>10, <1>11, <1>12, <1>13, <1>14 DEF IInv

\* A replay starts: it holds every pending row, and cells another replay holds
\* as well are no longer clean.
LEMMA FlushReadInv ==
    ASSUME IInv, NEW f \in Flushers, FlushRead(f)
    PROVE  IInv'
<1>1. TypeOK /\ TypeOK'
  <2>1. FlushStep(f)  BY DEF FlushStep
  <2>2. QED  BY <2>1, FlushType DEF IInv
<1>2. /\ pc[f] = "idle"
      /\ UNCHANGED <<lance, stored, pending, nextId, overlay, inflight, want>>
      /\ contested \subseteq contested'
  BY DEF FlushRead, durable
<1>3. /\ batch'[f] = pending
      /\ feedsLeft'[f] = MarkedFeeds(pending)
      /\ articlesLeft'[f] = OverriddenArticles(pending)
      /\ pc'[f] = Stage(feedsLeft'[f], articlesLeft'[f])
      /\ \A g \in Flushers : g # f =>
            /\ pc'[g] = pc[g] /\ batch'[g] = batch[g]
            /\ feedsLeft'[g] = feedsLeft[g] /\ articlesLeft'[g] = articlesLeft[g]
  BY <1>1 DEF FlushRead, TypeOK
<1>4. /\ pc'[f] \in Holding
      /\ pc'[f] # "marks" => feedsLeft'[f] = {}
      /\ pc'[f] \notin {"marks", "overrides"} => articlesLeft'[f] = {}
  BY <1>3 DEF Stage, Holding
<1>5. ASSUME NEW g \in Flushers, g # f
      PROVE  /\ Active(g)' <=> Active(g)
             /\ pc'[g] = pc[g] /\ batch'[g] = batch[g]
             /\ feedsLeft'[g] = feedsLeft[g] /\ articlesLeft'[g] = articlesLeft[g]
  BY <1>3, <1>5 DEF Active
<1>6. ASSUME NEW a \in Articles, NEW x \in Attrs, Clean(a, x)'
      PROVE  Clean(a, x)
  BY <1>2, <1>6 DEF Clean
\* what a replay under way shares with the new one is contested
<1>7. ASSUME NEW a \in Articles, NEW x \in Attrs, Clean(a, x)',
             NEW g \in Flushers, pc[g] \notin {"idle", "reconnect"}
      PROVE  \A r \in pending : ~Touches(r, a, x)
  <2>1. Replaying  BY <1>7 DEF Replaying
  <2>2. <<a, x>> \in Cells /\ <<a, x>> \notin contested'  BY <1>7 DEF Clean, Cells
  <2>3. QED  BY <2>1, <2>2 DEF FlushRead
<1>8. RowsOrdered'
  <2>1. \A g \in Flushers : UniqueIds(batch'[g]) /\ HasLast(batch'[g])
    BY <1>3, <1>5 DEF IInv, RowsOrdered
  <2>2. QED  BY <1>2, <2>1 DEF IInv, RowsOrdered
<1>9. KnownTargets'
  <2>1. \A g \in Flushers : batch'[g] \in {batch[g], pending}
    BY <1>3, <1>5
  <2>2. QED  BY <1>2, <2>1 DEF IInv, KnownTargets
<1>10. PendingLeadsToWant'
  BY <1>2, <1>6 DEF IInv, PendingLeadsToWant, Outcome
<1>11. BatchIsPending'
  <2> SUFFICES ASSUME NEW g \in Flushers, NEW a \in Articles, NEW x \in Attrs,
                      Active(g)', Clean(a, x)',
                      NEW r \in pending \cup batch'[g], Touches(r, a, x)
               PROVE  r \in pending /\ r \in batch'[g]
    BY <1>2 DEF BatchIsPending
  <2>1. CASE g = f  BY <1>3, <2>1
  <2>2. CASE g # f
    BY <1>5, <1>6, <2>2 DEF IInv, BatchIsPending
  <2>3. QED  BY <2>1, <2>2
<1>12. OverlapContested'
  <2> SUFFICES ASSUME NEW g \in Flushers, NEW k \in Flushers, g # k,
                      NEW a \in Articles, NEW x \in Attrs,
                      Active(g)', Active(k)', Clean(a, x)'
               PROVE  \A r \in pending : ~Touches(r, a, x)
    BY <1>2 DEF OverlapContested
  <2>1. PICK e \in {g, k} : e # f  OBVIOUS
  <2>2. Active(e)  BY <1>5, <2>1
  <2>3. QED  BY <1>7, <2>2 DEF Active, Holding
<1>13. ClearedContested'
  <2> SUFFICES ASSUME NEW g \in Flushers, NEW a \in Articles, NEW x \in Attrs,
                      pc'[g] \in {"evict", "uncache"}, Clean(a, x)'
               PROVE  \A r \in pending : ~Touches(r, a, x)
    BY <1>2 DEF ClearedContested
  <2>1. g # f  BY <1>4 DEF Holding
  <2>2. QED  BY <1>5, <1>7, <2>1
<1>14. WorkLeft'
  <2> SUFFICES ASSUME NEW g \in Flushers
               PROVE  /\ feedsLeft'[g] \subseteq MarkedFeeds(batch'[g])
                      /\ articlesLeft'[g] \subseteq OverriddenArticles(batch'[g])
                      /\ pc'[g] = "marks"
                           => articlesLeft'[g] = OverriddenArticles(batch'[g])
                      /\ pc'[g] # "marks" => feedsLeft'[g] = {}
                      /\ pc'[g] \notin {"marks", "overrides"} => articlesLeft'[g] = {}
                      /\ ~Active(g)' => batch'[g] = {}
    BY DEF WorkLeft
  <2>1. CASE g = f  BY <1>3, <1>4, <2>1 DEF Active
  <2>2. CASE g # f  BY <1>5, <2>2 DEF IInv, WorkLeft
  <2>3. QED  BY <2>1, <2>2
<1>15. WrittenSoFar'
  <2> SUFFICES ASSUME NEW g \in Flushers, NEW a \in Articles, NEW x \in Attrs,
                      Active(g)', Clean(a, x)'
               PROVE  /\ (Override(batch'[g], a, x) # Unset /\ a \notin articlesLeft'[g])
                           => lance[a][x] = Override(batch'[g], a, x)
                      /\ (/\ Override(batch'[g], a, x) = Unset
                          /\ Marked(batch'[g], a, x)
                          /\ FeedOf[a] \notin feedsLeft'[g])
                           => lance[a][x] = "true"
    BY <1>2 DEF WrittenSoFar
  <2>1. CASE g = f
    <3>1. Override(pending, a, x) # Unset => a \in articlesLeft'[f]
      BY <1>3, OverrideSet DEF OverriddenArticles
    <3>2. Marked(pending, a, x) => FeedOf[a] \in feedsLeft'[f]
      BY <1>3 DEF Marked, Marks, MarkedFeeds
    <3>3. QED  BY <1>3, <2>1, <3>1, <3>2
  <2>2. CASE g # f
    BY <1>5, <1>6, <2>2 DEF IInv, WrittenSoFar
  <2>3. QED  BY <2>1, <2>2
<1>16. OverlayIsWanted'
  BY <1>2 DEF IInv, OverlayIsWanted, InFlight
<1>17. QED
  BY <1>1, <1>8, <1>9, <1>10, <1>11, <1>12, <1>13, <1>14, <1>15, <1>16 DEF IInv

\* An article is added: the cells of it that a pending or replayed row already
\* touches are contested, the others are as the fetcher wrote them.
LEMMA FetchInv ==
    ASSUME IInv, NEW a0 \in Articles, Fetch(a0)
    PROVE  IInv'
<1>1. TypeOK /\ TypeOK'
  <2>1. Environment  BY DEF Environment
  <2>2. QED  BY <2>1, OtherType DEF IInv
<1>2. /\ a0 \notin stored /\ stored' = stored \cup {a0}
      /\ UNCHANGED <<overlay, pending, nextId, inflight, pc, batch, feedsLeft,
                     articlesLeft>>
      /\ contested \subseteq contested'
  BY DEF Fetch, replay
<1>3. \A f \in Flushers : Active(f)' <=> Active(f)  BY <1>2 DEF Active
<1>4. \A a \in Articles : a # a0 => lance'[a] = lance[a] /\ want'[a] = want[a]
  BY <1>1 DEF Fetch, TypeOK
<1>5. \A x \in Attrs : lance'[a0][x] = "false" /\ want'[a0][x] = "false"
  BY <1>1 DEF Fetch, TypeOK, Unread
\* the old article cells that stay clean, and the new ones
<1>6. ASSUME NEW a \in Articles, NEW x \in Attrs, Clean(a, x)', a # a0
      PROVE  Clean(a, x)
  BY <1>2, <1>6 DEF Clean
<1>7. ASSUME NEW x \in Attrs, Clean(a0, x)'
      PROVE  /\ \A r \in pending : ~Touches(r, a0, x)
             /\ \A f \in Flushers : \A r \in batch[f] : ~Touches(r, a0, x)
  BY <1>7 DEF Fetch, Clean
<1>8. ASSUME NEW x \in Attrs, Clean(a0, x)'
      PROVE  /\ Override(pending, a0, x) = Unset /\ ~Marked(pending, a0, x)
             /\ \A f \in Flushers : /\ Override(batch[f], a0, x) = Unset
                                    /\ ~Marked(batch[f], a0, x)
  BY <1>7, <1>8, OverrideSet DEF Touches, Marked
<1>9. RowsOrdered'  BY <1>2 DEF IInv, RowsOrdered
<1>10. KnownTargets'  BY <1>2 DEF IInv, KnownTargets
<1>11. PendingLeadsToWant'
  <2> SUFFICES ASSUME NEW a \in Articles, NEW x \in Attrs, Clean(a, x)'
               PROVE  Outcome(pending, a, x)' = want'[a][x]
    BY DEF PendingLeadsToWant
  <2>1. CASE a = a0  BY <1>2, <1>5, <1>8, <2>1 DEF Outcome
  <2>2. CASE a # a0
    BY <1>2, <1>4, <1>6, <2>2 DEF IInv, PendingLeadsToWant, Outcome
  <2>3. QED  BY <2>1, <2>2
<1>12. BatchIsPending'
  <2> SUFFICES ASSUME NEW f \in Flushers, NEW a \in Articles, NEW x \in Attrs,
                      Active(f), Clean(a, x)', NEW r \in pending \cup batch[f],
                      Touches(r, a, x)
               PROVE  r \in pending /\ r \in batch[f]
    BY <1>2, <1>3 DEF BatchIsPending
  <2>1. a # a0  BY <1>7
  <2>2. QED  BY <1>6, <2>1 DEF IInv, BatchIsPending
<1>13. OverlapContested'
  <2> SUFFICES ASSUME NEW f \in Flushers, NEW g \in Flushers, f # g,
                      NEW a \in Articles, NEW x \in Attrs,
                      Active(f), Active(g), Clean(a, x)'
               PROVE  \A r \in pending : ~Touches(r, a, x)
    BY <1>2, <1>3 DEF OverlapContested
  <2>1. CASE a = a0  BY <1>7, <2>1
  <2>2. CASE a # a0  BY <1>6, <2>2 DEF IInv, OverlapContested
  <2>3. QED  BY <2>1, <2>2
<1>14. ClearedContested'
  <2> SUFFICES ASSUME NEW f \in Flushers, NEW a \in Articles, NEW x \in Attrs,
                      pc[f] \in {"evict", "uncache"}, Clean(a, x)'
               PROVE  \A r \in pending : ~Touches(r, a, x)
    BY <1>2 DEF ClearedContested
  <2>1. CASE a = a0  BY <1>7, <2>1
  <2>2. CASE a # a0  BY <1>6, <2>2 DEF IInv, ClearedContested
  <2>3. QED  BY <2>1, <2>2
<1>15. WorkLeft'  BY <1>2 DEF IInv, WorkLeft, Active
<1>16. WrittenSoFar'
  <2> SUFFICES ASSUME NEW f \in Flushers, NEW a \in Articles, NEW x \in Attrs,
                      Active(f), Clean(a, x)'
               PROVE  /\ (Override(batch[f], a, x) # Unset /\ a \notin articlesLeft[f])
                           => lance'[a][x] = Override(batch[f], a, x)
                      /\ (/\ Override(batch[f], a, x) = Unset
                          /\ Marked(batch[f], a, x)
                          /\ FeedOf[a] \notin feedsLeft[f])
                           => lance'[a][x] = "true"
    BY <1>2, <1>3 DEF WrittenSoFar
  <2>1. CASE a = a0  BY <1>8, <2>1
  <2>2. CASE a # a0  BY <1>4, <1>6, <2>2 DEF IInv, WrittenSoFar
  <2>3. QED  BY <2>1, <2>2
<1>17. OverlayIsWanted'
  <2> SUFFICES ASSUME NEW a \in stored', NEW x \in Attrs,
                      <<a, x>> \notin contested', ~InFlight(a, x)
               PROVE  overlay[a][x] \in {Unset, want'[a][x]}
    BY <1>2 DEF OverlayIsWanted, InFlight
  <2>1. CASE a = a0
    <3>1. overlay[a0] = Blank  BY <1>2 DEF IInv, KnownTargets
    <3>2. QED  BY <2>1, <3>1 DEF Blank
  <2>2. CASE a # a0
    <3>1. a \in stored /\ a \in Articles  BY <1>1, <1>2, <2>2 DEF TypeOK
    <3>2. QED  BY <1>2, <1>4, <2>2, <3>1 DEF IInv, OverlayIsWanted
  <2>3. QED  BY <2>1, <2>2
<1>18. QED
  BY <1>1, <1>9, <1>10, <1>11, <1>12, <1>13, <1>14, <1>15, <1>16, <1>17 DEF IInv

\* A crash forgets the overlay and every replay; the rows are all still there.
LEMMA CrashInv == ASSUME IInv, Crash PROVE IInv'
<1>1. TypeOK /\ TypeOK'
  <2>1. Environment  BY DEF Environment
  <2>2. QED  BY <2>1, OtherType DEF IInv
<1>2. /\ UNCHANGED <<lance, stored, pending, nextId, want, contested>>
      /\ overlay' = NoRows /\ inflight' = {}
      /\ \A f \in Flushers : /\ pc'[f] = "idle" /\ batch'[f] = {}
                             /\ feedsLeft'[f] = {} /\ articlesLeft'[f] = {}
  BY DEF Crash, durable, history
<1>3. \A f \in Flushers : ~Active(f)'  BY <1>2 DEF Active, Holding
<1>4. RowsOrdered'
  <2>1. UniqueIds({}) /\ HasLast({})  BY DEF UniqueIds, HasLast
  <2>2. QED  BY <1>2, <2>1 DEF IInv, RowsOrdered
<1>5. KnownTargets'  BY <1>2 DEF IInv, KnownTargets, NoRows
<1>6. PendingLeadsToWant'
  BY <1>2 DEF IInv, PendingLeadsToWant, Outcome, Clean
<1>7. BatchIsPending' /\ OverlapContested' /\ ClearedContested' /\ WrittenSoFar'
  BY <1>2, <1>3 DEF BatchIsPending, OverlapContested, ClearedContested, WrittenSoFar
<1>8. WorkLeft'  BY <1>2 DEF WorkLeft
<1>9. OverlayIsWanted'
  BY <1>1, <1>2 DEF OverlayIsWanted, NoRows, Blank, TypeOK
<1>10. QED  BY <1>1, <1>4, <1>5, <1>6, <1>7, <1>8, <1>9 DEF IInv

-----------------------------------------------------------------------------
(* The theorems.                                                           *)

LEMMA NextInv == ASSUME IInv, [Next]_vars PROVE IInv'
<1>1. CASE RequestStep
  BY <1>1, StartInv, BufferInv, DropInv DEF RequestStep
<1>2. ASSUME NEW f \in Flushers, FlushStep(f) PROVE IInv'
  BY <1>2, FlushReadInv, ReplayMarkInv, ReplayGroupInv, ReplayFailsInv,
     ClearPendingInv, AfterClearInv DEF FlushStep
<1>3. CASE ProbeNothingPending \/ Reconnect  BY <1>3, AfterClearInv
<1>4. CASE Environment
  BY <1>4, FetchInv, CrashInv, IdleInv DEF Environment
<1>5. CASE \/ UNCHANGED vars \/ GoOffline
           \/ \E s \in Snapshotters : SnapshotStep(s)
  BY <1>5, IdleInv
<1>6. QED  BY <1>1, <1>2, <1>3, <1>4, <1>5 DEF Next

\* IInv holds throughout: pending_changes, the replays under way and Lance add
\* up, cell by cell, to what the user wants.
THEOREM Invariance == Spec => []IInv
<1>1. QED  BY InitInv, NextInv, PTL DEF Spec

\* SettledIsWanted, for any number of articles, requests, replays, outages and
\* crashes: no plain change is lost on its way from pending_changes to Lance.
THEOREM Settled == Spec => []SettledIsWanted
<1>1. ASSUME IInv PROVE SettledIsWanted
  <2> SUFFICES ASSUME NEW a \in stored, NEW x \in Attrs,
                      <<a, x>> \notin contested,
                      ~\E r \in pending : Touches(r, a, x)
               PROVE  lance[a][x] = want[a][x]
    BY DEF SettledIsWanted
  <2>1. a \in Articles /\ Clean(a, x)  BY <1>1 DEF IInv, TypeOK, Clean
  <2>2. Override(pending, a, x) = Unset /\ ~Marked(pending, a, x)
    BY OverrideSet DEF Touches, Marked
  <2>3. Outcome(pending, a, x) = want[a][x]
    BY <1>1, <2>1 DEF IInv, PendingLeadsToWant
  <2>4. QED  BY <2>2, <2>3 DEF Outcome
<1>2. QED  BY <1>1, Invariance, PTL

\* OverlayIsWanted: the overlay a reader sees is the user's last word.
THEOREM OverlayCorrect == Spec => []OverlayIsWanted
<1>1. IInv => OverlayIsWanted  BY DEF IInv
<1>2. QED  BY <1>1, Invariance, PTL

\* Only the end of a flush, or a crash, takes an override out of the overlay.
LEMMA OverlayDrops ==
    ASSUME TypeOK, [Next]_vars, NEW a \in Articles, NEW x \in Attrs,
           overlay[a][x] # Unset, overlay'[a][x] = Unset
    PROVE  (\E f \in Flushers : ClearOverlay(f)) \/ Crash
<1> USE DEF durable, replay, history, env
<1>1. ASSUME NEW h \in Handlers, NEW q \in Requests,
             SetOverlay(h, q) \/ MarkOverlay(h, q)
      PROVE  FALSE
  <2>1. ValOf(q.action) # Unset /\ "true" # Unset
    BY ActionTypes DEF Vals, Unset
  <2>2. CASE SetOverlay(h, q)
    BY <2>1, <2>2 DEF SetOverlay, TypeOK
  <2>3. CASE MarkOverlay(h, q)
    BY <2>1, <2>3 DEF MarkOverlay, TypeOK
  <2>4. QED  BY <1>1, <2>2, <2>3
<1>2. ASSUME NEW q \in inflight, BufferChange(q) \/ BufferFails(q) \/ UpdateCached(q)
      PROVE  FALSE
  BY <1>2 DEF BufferChange, BufferFails, UpdateCached
<1>3. ASSUME NEW f \in Flushers,
             \/ FlushRead(f) \/ ReplayMark(f) \/ ReplayGroup(f) \/ ReplayFails(f)
             \/ ClearPending(f) \/ Evict(f)
      PROVE  FALSE
  BY <1>3 DEF FlushRead, ReplayMark, ReplayGroup, ReplayFails, ClearPending, Evict
<1>4. CASE ProbeNothingPending \/ Reconnect \/ GoOffline
  BY <1>4 DEF ProbeNothingPending, Reconnect, GoOffline
<1>5. CASE \E s \in Snapshotters : SnapshotStep(s)
  BY <1>5 DEF SnapshotStep, SnapshotRead, SnapshotWrite
<1>6. CASE (\E b \in Articles : Fetch(b)) \/ LanceDown \/ LanceBack
  BY <1>6 DEF Fetch, LanceDown, LanceBack
<1>7. CASE UNCHANGED vars  BY <1>7 DEF vars
<1>8. QED
  BY <1>1, <1>2, <1>3, <1>4, <1>5, <1>6, <1>7
     DEF Next, RequestStep, FlushStep, Environment

\* FlushKeepsView: no flush makes a reader see an older value of a clean cell.
THEOREM FlushInvisible == Spec => FlushKeepsView
<1>1. ASSUME IInv, [Next]_vars PROVE [KeepsView]_vars
  <2> SUFFICES ASSUME crashes' = crashes, NEW a \in stored, NEW x \in Attrs,
                      overlay[a][x] # Unset, overlay'[a][x] = Unset,
                      <<a, x>> \notin contested, ~InFlight(a, x)
               PROVE  View(a, x)' = View(a, x)
    BY DEF KeepsView
  <2>1. TypeOK /\ a \in Articles /\ Clean(a, x)
    BY <1>1 DEF IInv, TypeOK, Clean
  <2>2. ~Crash  BY <2>1 DEF Crash, TypeOK
  <2>3. PICK f \in Flushers : ClearOverlay(f)
    BY <1>1, <2>1, <2>2, OverlayDrops
  <2>4. \A r \in pending : ~Touches(r, a, x)
    BY <1>1, <2>1, <2>3 DEF IInv, ClearedContested, ClearOverlay
  <2>5. Override(pending, a, x) = Unset /\ ~Marked(pending, a, x)
    BY <2>4, OverrideSet DEF Touches, Marked
  <2>6. lance[a][x] = want[a][x]
    BY <1>1, <2>1, <2>5 DEF IInv, PendingLeadsToWant, Outcome
  <2>7. overlay[a][x] = want[a][x]
    BY <1>1, <2>1 DEF IInv, OverlayIsWanted
  <2>8. lance' = lance  BY <2>3 DEF ClearOverlay, durable
  <2>9. QED  BY <2>6, <2>7, <2>8 DEF View
<1>2. QED  BY <1>1, Invariance, PTL DEF Spec, FlushKeepsView

-----------------------------------------------------------------------------
(* The write-behind buffer.                                                *)

\* A change is asked for when it is recorded, whether or not the INSERT works.
LEMMA ChangesAsk ==
    ASSUME IInv, NEW q \in inflight, BufferChange(q) \/ BufferFails(q)
    PROVE  Buffer!Ask
<1> DEFINE r0 == [id |-> nextId, action |-> q.action, target |-> q.target]
<1>1. UNCHANGED <<lance, stored>> /\ want' = Wanted(q)
  BY DEF BufferChange, BufferFails, durable
<1>2. \A a \in Articles, x \in Attrs : Touches(r0, a, x) <=> Touches(q, a, x)
  BY SameTouch
<1>3. \/ BufferChange(q) /\ pending' = pending \cup {r0}
      \/ BufferFails(q) /\ pending' = pending
  BY DEF BufferChange, BufferFails, durable
<1>. HIDE DEF r0
<1>4. ASSUME NEW a \in Articles, NEW x \in Attrs, a \in stored, ~Touches(q, a, x)
      PROVE  /\ want'[a][x] = want[a][x] /\ RowsOf(a, x)' = RowsOf(a, x)
             /\ <<a, x>> \in contested' <=> <<a, x>> \in contested
  <2>1. want'[a][x] = want[a][x]
    BY <1>1, <1>4 DEF Wanted
  <2>2. RowsOf(a, x)' = RowsOf(a, x)
    BY <1>2, <1>3, <1>4 DEF RowsOf
  <2>3. <<a, x>> \in Cells
    BY DEF Cells
  <2>4. CASE BufferChange(q)
    BY <1>4, <2>1, <2>2, <2>3, <2>4 DEF BufferChange
  <2>5. CASE BufferFails(q)
    BY <1>4, <2>1, <2>2, <2>3, <2>5 DEF BufferFails
  <2>6. QED
    BY <1>3, <2>4, <2>5
<1>5. ASSUME NEW a \in Articles, NEW x \in Attrs, a \in stored, Touches(q, a, x),
             <<a, x>> \notin contested'
      PROVE  /\ want'[a][x] = ValOf(q.action)
             /\ RowsOf(a, x)' = RowsOf(a, x) \cup {r0}
  <2>1. want'[a][x] = ValOf(q.action)
    BY <1>1, <1>5 DEF Wanted
  <2>2. <<a, x>> \in Cells
    BY DEF Cells
  <2>3. ~BufferFails(q)
    BY <1>5, <2>2 DEF BufferFails
  <2>4. pending' = pending \cup {r0}
    BY <1>3, <2>3
  <2>5. QED
    BY <1>2, <1>5, <2>1, <2>4 DEF RowsOf
<1>6. r0.action = q.action
  BY DEF r0
<1>7. ASSUME NEW c \in Cells
      PROVE  Buffer!Same(c) \/ Buffer!Asked(c) \/ (c \in contested' /\ c[1] \in stored')
  <2>1. PICK a \in Articles, x \in Attrs : c = <<a, x>>
    BY DEF Cells
  <2>2. CASE a \notin stored
    BY <1>1, <2>1, <2>2 DEF Buffer!Same, CellsOf, WaitingValues
  <2>3. CASE a \in stored /\ ~Touches(q, a, x)
    BY <1>1, <1>4, <2>1, <2>3 DEF Buffer!Same, CellsOf, WaitingValues
  <2>4. CASE a \in stored /\ Touches(q, a, x) /\ c \notin contested'
    BY <1>1, <1>5, <1>6, <2>1, <2>4 DEF Buffer!Asked, CellsOf, WaitingValues
  <2>5. QED
    BY <1>1, <2>1, <2>2, <2>3, <2>4
<1>8. QED
  BY <1>1, <1>7 DEF Buffer!Ask, CellsOf

\* A replay that meets another one races the cells it reads.
LEMMA ReadsRace ==
    ASSUME IInv, NEW f \in Flushers, FlushRead(f)
    PROVE  Buffer!Ask
<1>1. UNCHANGED <<lance, stored, want, pending>> /\ contested \subseteq contested'
  BY DEF FlushRead, durable
<1>2. ASSUME NEW c \in Cells
      PROVE  Buffer!Same(c) \/ (c \in contested' /\ c[1] \in stored')
  BY <1>1 DEF Buffer!Same, CellsOf, WaitingValues, RowsOf
<1>3. QED
  BY <1>1, <1>2 DEF Buffer!Ask, CellsOf

\* An article the fetcher adds is raced by the rows that touch it already.
LEMMA FetchesAsk ==
    ASSUME IInv, NEW a0 \in Articles, Fetch(a0)
    PROVE  Buffer!Ask
<1>1. /\ a0 \notin stored /\ stored' = stored \cup {a0}
      /\ pending' = pending
  BY DEF Fetch
<1>2. \A a \in Articles \ {a0} : lance'[a] = lance[a] /\ want'[a] = want[a]
  BY DEF Fetch, IInv, TypeOK
<1>3. \A x \in Attrs : lance'[a0][x] = "false" /\ want'[a0][x] = "false"
  BY DEF Fetch, IInv, TypeOK, Unread
<1>4. \A a \in Articles \ {a0}, x \in Attrs :
         <<a, x>> \in contested' <=> <<a, x>> \in contested
  BY DEF Fetch
<1>5. \A x \in Attrs : <<a0, x>> \notin contested' => RowsOf(a0, x) = {}
  BY DEF Fetch, RowsOf
<1>6. ASSUME NEW c \in Cells
      PROVE  /\ CellsOf(lance)'[c] = CellsOf(lance)[c]
             /\ Buffer!Same(c) \/ (c \in contested' /\ c[1] \in stored')
  <2>1. PICK a \in Articles, x \in Attrs : c = <<a, x>>
    BY DEF Cells
  <2>2. CASE a = a0
    <3>1. CellsOf(lance)'[c] = "false" /\ CellsOf(lance)[c] = "false"
      BY <1>1, <1>3, <2>1, <2>2 DEF CellsOf
    <3>2. CellsOf(want)'[c] = "false" /\ CellsOf(want)[c] = "false"
      BY <1>1, <1>3, <2>1, <2>2 DEF CellsOf
    <3>3. WaitingValues[c] = {}
      BY <1>1, <2>1, <2>2 DEF WaitingValues
    <3>4. c \notin contested' => WaitingValues'[c] = {}
      <4>1. RowsOf(a0, x)' = RowsOf(a0, x)
        BY <1>1 DEF RowsOf
      <4>2. QED
        BY <1>5, <2>1, <2>2, <4>1 DEF WaitingValues
    <3>5. QED
      BY <1>1, <2>1, <2>2, <3>1, <3>2, <3>3, <3>4 DEF Buffer!Same
  <2>3. CASE a # a0
    <3>1. RowsOf(a, x)' = RowsOf(a, x) /\ (a \in stored' <=> a \in stored)
      BY <1>1, <2>3 DEF RowsOf
    <3>2. QED
      BY <1>1, <1>2, <1>4, <2>1, <2>3, <3>1
         DEF Buffer!Same, CellsOf, WaitingValues
  <2>4. QED
    BY <2>2, <2>3
<1>7. CellsOf(lance)' = CellsOf(lance)
  BY <1>6 DEF CellsOf
<1>8. QED
  BY <1>6, <1>7 DEF Buffer!Ask

\* An UPDATE of a replay writes what one of its rows asks for.
LEMMA MarkWritesRow ==
    ASSUME IInv, NEW f \in Flushers, NEW feed \in feedsLeft[f],
           lance' = AfterMark(feed), NEW a \in Articles, NEW x \in Attrs,
           lance'[a][x] # lance[a][x]
    PROVE  \E r \in batch[f] : Touches(r, a, x) /\ lance'[a][x] = ValOf(r.action)
<1>1. FeedOf[a] = feed /\ x = "is_read" /\ lance'[a][x] = "true"
  BY DEF AfterMark, IInv, TypeOK, Attrs
<1>2. PICK r \in batch[f] : r.action = "mark_all_read" /\ r.target = feed
  BY DEF IInv, WorkLeft, MarkedFeeds
<1>3. QED
  BY <1>1, <1>2 DEF Touches, Marks, ValOf

LEMMA GroupWritesRow ==
    ASSUME IInv, NEW f \in Flushers, NEW group,
           lance' = AfterUpdate(f, group), NEW a \in Articles, NEW x \in Attrs,
           lance'[a][x] # lance[a][x]
    PROVE  \E r \in batch[f] : Touches(r, a, x) /\ lance'[a][x] = ValOf(r.action)
<1>1. /\ Override(batch[f], a, x) # Unset
      /\ lance'[a][x] = Override(batch[f], a, x)
  BY DEF AfterUpdate, Payload
<1>2. \E r \in batch[f] : Overrides(r, a, x)
  BY <1>1, OverrideSet
<1>3. batch[f] \in SUBSET Row /\ UniqueIds(batch[f]) /\ HasLast(batch[f])
  BY DEF IInv, TypeOK, RowsOrdered
<1>4. PICK r \in batch[f] : Wins(r, batch[f], a, x)
  BY <1>2, <1>3 DEF HasLast
<1>5. Override(batch[f], a, x) = ValOf(r.action)
  BY <1>3, <1>4, OverrideLast
<1>6. QED
  BY <1>1, <1>4, <1>5 DEF Wins, Touches

LEMMA ReplaysWrite ==
    ASSUME IInv, NEW f \in Flushers, Active(f),
           UNCHANGED <<stored, pending, want, contested>>,
           \A a \in Articles, x \in Attrs : lance'[a][x] # lance[a][x] =>
              \E r \in batch[f] : Touches(r, a, x) /\ lance'[a][x] = ValOf(r.action)
    PROVE  Buffer!Write
<1>1. ASSUME NEW c \in Cells, ~(c \in contested /\ c[1] \in stored)
      PROVE  CellsOf(lance)'[c] \in {CellsOf(lance)[c]} \cup WaitingValues[c]
  <2>1. PICK a \in Articles, x \in Attrs : c = <<a, x>>
    BY DEF Cells
  <2>2. CASE a \notin stored \/ lance'[a][x] = lance[a][x]
    BY <2>1, <2>2 DEF CellsOf
  <2>3. CASE a \in stored /\ lance'[a][x] # lance[a][x]
    <3>1. PICK r \in batch[f] : Touches(r, a, x) /\ lance'[a][x] = ValOf(r.action)
      BY <2>3
    <3>2. Clean(a, x)
      BY <1>1, <2>1, <2>3 DEF Clean
    <3>3. r \in RowsOf(a, x)
      BY <3>1, <3>2, BatchAgrees DEF RowsOf
    <3>4. QED
      BY <2>1, <2>3, <3>1, <3>3 DEF CellsOf, WaitingValues
  <2>4. QED
    BY <2>2, <2>3
<1>2. /\ CellsOf(want)' = CellsOf(want) /\ WaitingValues' = WaitingValues
      /\ {c \in contested : c[1] \in stored}' = {c \in contested : c[1] \in stored}
  BY DEF CellsOf, WaitingValues, RowsOf
<1>3. QED
  BY <1>1, <1>2 DEF Buffer!Write

LEMMA ClearsSettle ==
    ASSUME IInv, NEW f \in Flushers, ClearPending(f)
    PROVE  Buffer!Settle
<1>1. UNCHANGED <<lance, stored, want, contested>> /\ pending' = {}
  BY DEF ClearPending, history
<1>2. IInv'
  BY ClearPendingInv
<1>3. ASSUME NEW a \in Articles, NEW x \in Attrs, Clean(a, x)
      PROVE  lance[a][x] = want[a][x]
  <2>1. Outcome(pending, a, x)' = want'[a][x]
    BY <1>1, <1>2, <1>3 DEF IInv, PendingLeadsToWant, Clean
  <2>2. Outcome(pending, a, x)' = lance'[a][x]
    BY <1>1, OverrideSet DEF Outcome, Marked
  <2>3. QED
    BY <1>1, <2>1, <2>2
<1>4. ASSUME NEW c \in Cells, ~(c \in contested /\ c[1] \in stored)
      PROVE  CellsOf(lance)[c] = CellsOf(want)[c]
  <2>1. PICK a \in Articles, x \in Attrs : c = <<a, x>>
    BY DEF Cells
  <2>2. QED
    BY <1>3, <1>4, <2>1 DEF CellsOf, Clean
<1>5. WaitingValues' = [c \in Cells |-> {}]
  <2>1. \A a, x : RowsOf(a, x)' = {}
    BY <1>1 DEF RowsOf
  <2>2. QED
    BY <2>1 DEF WaitingValues
<1>6. QED
  BY <1>1, <1>4, <1>5 DEF Buffer!Settle, Buffer!NothingWaits, CellsOf

LEMMA FlushesBuffer ==
    ASSUME IInv, NEW f \in Flushers, FlushStep(f)
    PROVE  \/ Buffer!Ask \/ Buffer!Write \/ Buffer!Settle
           \/ UNCHANGED <<lance, stored, pending, want, contested>>
<1>1. CASE FlushRead(f)
  BY <1>1, ReadsRace
<1>2. CASE ReplayMark(f)
  <2>1. PICK feed \in feedsLeft[f] : lance' = AfterMark(feed)
    BY <1>2 DEF ReplayMark
  <2>2. Active(f) /\ UNCHANGED <<stored, pending, want, contested>>
    BY <1>2 DEF ReplayMark, Active, Holding, history
  <2>3. QED
    BY <2>1, <2>2, MarkWritesRow, ReplaysWrite
<1>3. CASE ReplayGroup(f)
  <2>1. PICK a \in articlesLeft[f] : lance' = AfterUpdate(f, Group(f, a))
    BY <1>3 DEF ReplayGroup
  <2>2. Active(f) /\ UNCHANGED <<stored, pending, want, contested>>
    BY <1>3 DEF ReplayGroup, Active, Holding, history
  <2>3. QED
    BY <2>1, <2>2, GroupWritesRow, ReplaysWrite
<1>4. CASE ReplayFails(f)
  <2>1. Active(f) /\ UNCHANGED <<stored, pending, want, contested>>
    BY <1>4 DEF ReplayFails, Active, Holding, history
  <2>2. CASE lance' = lance
    BY <2>1, <2>2
  <2>3. CASE \E feed \in feedsLeft[f] : lance' = AfterMark(feed)
    BY <2>1, <2>3, MarkWritesRow, ReplaysWrite
  <2>4. CASE \E a \in articlesLeft[f] : lance' = AfterUpdate(f, Group(f, a))
    BY <2>1, <2>4, GroupWritesRow, ReplaysWrite
  <2>5. QED
    BY <1>4, <2>2, <2>3, <2>4 DEF ReplayFails
<1>5. CASE ClearPending(f)
  BY <1>5, ClearsSettle
<1>6. CASE Evict(f) \/ ClearOverlay(f)
  BY <1>6 DEF Evict, ClearOverlay, durable, history
<1>7. QED
  BY <1>1, <1>2, <1>3, <1>4, <1>5, <1>6 DEF FlushStep

\* The article state implements a write-behind buffer: every step of
\* OfflineStore is a step of it or leaves it alone.
THEOREM ArticlesWriteBehind == Spec => ImplementsWriteBehind
<1>1. Init => Buffer!BufferInit
  <2> SUFFICES ASSUME Init PROVE Buffer!BufferInit  OBVIOUS
  <2>1. /\ CellsOf(lance) \in [Cells -> Vals]
        /\ CellsOf(want) = CellsOf(lance)
    BY DEF Init, CellsOf, Unread, Vals, Cells
  <2>2. WaitingValues = [c \in Cells |-> {}]
    BY DEF Init, WaitingValues, RowsOf
  <2>3. QED
    BY <2>1, <2>2 DEF Init, Buffer!BufferInit, Buffer!NothingWaits
<1>2. IInv /\ [Next]_vars => [Buffer!BufferNext]_Buffer!bufferVars
  <2> SUFFICES ASSUME IInv, [Next]_vars
               PROVE  [Buffer!BufferNext]_Buffer!bufferVars
    OBVIOUS
  <2>1. ASSUME NEW q \in inflight, BufferChange(q) \/ BufferFails(q)
        PROVE  Buffer!Ask
    BY <2>1, ChangesAsk
  <2>2. ASSUME NEW f \in Flushers, FlushStep(f)
        PROVE  \/ Buffer!Ask \/ Buffer!Write \/ Buffer!Settle
               \/ UNCHANGED <<lance, stored, pending, want, contested>>
    BY <2>2, FlushesBuffer
  <2>3. ASSUME NEW a \in Articles, Fetch(a) PROVE Buffer!Ask
    BY <2>3, FetchesAsk
  <2>4. ASSUME \/ \E h \in Handlers, q \in Requests :
                     SetOverlay(h, q) \/ MarkOverlay(h, q)
               \/ \E q \in inflight : UpdateCached(q)
               \/ ProbeNothingPending \/ Reconnect \/ GoOffline
               \/ \E s \in Snapshotters : SnapshotStep(s)
               \/ LanceDown \/ LanceBack \/ Crash \/ UNCHANGED vars
        PROVE  UNCHANGED <<lance, stored, pending, want, contested>>
    BY <2>4 DEF SetOverlay, MarkOverlay, UpdateCached, ProbeNothingPending,
       Reconnect, GoOffline, SnapshotStep, SnapshotRead, SnapshotWrite,
       LanceDown, LanceBack, Crash, vars, durable, history
  <2>5. \/ Buffer!Ask \/ Buffer!Write \/ Buffer!Settle
        \/ UNCHANGED <<lance, stored, pending, want, contested>>
    BY <2>1, <2>2, <2>3, <2>4 DEF Next, RequestStep, Environment
  <2>6. CASE UNCHANGED <<lance, stored, pending, want, contested>>
    BY <2>6 DEF Buffer!bufferVars, CellsOf, WaitingValues, RowsOf
  <2>7. Buffer!BufferTypeOK'
    <3>1. TypeOK'
      BY NextType DEF IInv
    <3>2. CellsOf(want)' \in [Cells -> Vals] /\ CellsOf(lance)' \in [Cells -> Vals]
      BY <3>1 DEF TypeOK, CellsOf, Cells, Vals
    <3>3. WaitingValues' \in [Cells -> SUBSET Vals]
      BY ActionTypes DEF WaitingValues
    <3>4. {c \in contested : c[1] \in stored}' \subseteq Cells
      BY <3>1 DEF TypeOK
    <3>5. QED
      BY <3>2, <3>3, <3>4 DEF Buffer!BufferTypeOK
  <2>8. QED
    BY <2>5, <2>6, <2>7 DEF Buffer!BufferNext
<1>3. QED
  BY <1>1, <1>2, Invariance, PTL
     DEF Spec, ImplementsWriteBehind, Buffer!BufferSpec

\* The same buffer, with what is proved of any buffer.
Proved == INSTANCE WriteBehindProofs
    WITH Values <- Vals, wanted <- CellsOf(want), kept <- CellsOf(lance),
         waiting <- WaitingValues,
         raced <- {c \in contested : c[1] \in stored}

LEMMA SameBuffer ==
    /\ Buffer!BufferInit => Proved!BufferInit
    /\ [Buffer!BufferNext]_Buffer!bufferVars
          => [Proved!BufferNext]_Proved!bufferVars
    /\ Proved!NothingIsLost => Buffer!NothingIsLost
    /\ [Proved!StaysSettled]_Proved!bufferVars
          => [Buffer!StaysSettled]_Buffer!bufferVars
<1>1. Buffer!BufferInit => Proved!BufferInit
  BY DEF Buffer!BufferInit, Proved!BufferInit,
         Buffer!NothingWaits, Proved!NothingWaits
<1>2. [Buffer!BufferNext]_Buffer!bufferVars
         => [Proved!BufferNext]_Proved!bufferVars
  BY DEF Buffer!bufferVars, Proved!bufferVars,
         Buffer!BufferNext, Proved!BufferNext,
         Buffer!Ask, Proved!Ask, Buffer!Same, Proved!Same,
         Buffer!Asked, Proved!Asked, Buffer!Write, Proved!Write,
         Buffer!Settle, Proved!Settle, Buffer!NothingWaits, Proved!NothingWaits,
         Buffer!Provide, Proved!Provide,
         Buffer!BufferTypeOK, Proved!BufferTypeOK
<1>3. Proved!NothingIsLost => Buffer!NothingIsLost
  BY DEF Buffer!NothingIsLost, Proved!NothingIsLost
<1>4. [Proved!StaysSettled]_Proved!bufferVars
         => [Buffer!StaysSettled]_Buffer!bufferVars
  BY DEF Buffer!StaysSettled, Proved!StaysSettled,
         Buffer!bufferVars, Proved!bufferVars
<1>5. QED
  BY <1>1, <1>2, <1>3, <1>4

\* A plain change of a cell is in Lance or in pending_changes until the next one,
\* and no late replay puts an older value in its place.
THEOREM ArticlesLoseNothing == Spec => []Buffer!NothingIsLost /\ Buffer!StaysKept
<1>1. Proved!BufferSpec => []Proved!NothingIsLost /\ Proved!StaysKept
  BY Proved!BufferLosesNothing, Proved!BufferStaysKept
<1>2. QED
  BY <1>1, SameBuffer, ArticlesWriteBehind, PTL
     DEF ImplementsWriteBehind, Buffer!BufferSpec, Proved!BufferSpec,
         Buffer!StaysKept, Proved!StaysKept
=============================================================================
