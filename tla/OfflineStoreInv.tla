-------------------------- MODULE OfflineStoreInv ---------------------------
(***************************************************************************)
(* The inductive invariant behind SettledIsWanted, OverlayIsWanted and     *)
(* FlushKeepsView.  A clean cell is one the properties speak of: its last  *)
(* change was a plain one.                                                 *)
(***************************************************************************)
EXTENDS OfflineStore

Holding == {"marks", "overrides", "clear"}
Active(f) == pc[f] \in Holding
Clean(a, x) == a \in stored /\ <<a, x>> \notin contested
Marked(rows, a, x) == \E r \in rows : Marks(r, a, x)

\* What Lance will hold of a cell once rows, and nothing else, are replayed
Outcome(rows, a, x) == IF Override(rows, a, x) # Unset THEN Override(rows, a, x)
                       ELSE IF Marked(rows, a, x) THEN "true" ELSE lance[a][x]

\* The collapse is well defined: where a cell is overridden, a last row wins
HasLast(rows) == \A a \in Articles, x \in Attrs :
    (\E r \in rows : Overrides(r, a, x)) => \E r \in rows : Wins(r, rows, a, x)
UniqueIds(rows) == \A r, q \in rows : r.id = q.id => r = q

RowsOrdered == /\ \A r \in pending : r.id < nextId
               /\ UniqueIds(pending) /\ HasLast(pending)
               /\ \A f \in Flushers : UniqueIds(batch[f]) /\ HasLast(batch[f])

\* Users act on articles that exist
KnownTargets ==
    /\ \A q \in inflight : q.action \in ArticleActions => q.target \in stored
    /\ \A r \in pending : r.action \in ArticleActions => r.target \in stored
    /\ \A f \in Flushers : \A r \in batch[f] :
          r.action \in ArticleActions => r.target \in stored
    /\ \A a \in Articles \ stored : overlay[a] = Blank

\* Replaying what is pending gives a clean cell the value the user wants
PendingLeadsToWant == \A a \in Articles, x \in Attrs :
    Clean(a, x) => Outcome(pending, a, x) = want[a][x]

\* A replay under way holds exactly the pending rows of each clean cell
BatchIsPending == \A f \in Flushers, a \in Articles, x \in Attrs :
    Active(f) /\ Clean(a, x) =>
        \A r \in pending \cup batch[f] :
            Touches(r, a, x) => r \in pending /\ r \in batch[f]

\* Cells that two replays under way both hold are not clean
OverlapContested == \A f, g \in Flushers, a \in Articles, x \in Attrs :
    f # g /\ Active(f) /\ Active(g) /\ Clean(a, x) =>
        \A r \in pending : ~Touches(r, a, x)

\* After the clear, rows recorded before the overlay is dropped are not clean
ClearedContested == \A f \in Flushers, a \in Articles, x \in Attrs :
    pc[f] \in {"evict", "uncache"} /\ Clean(a, x) =>
        \A r \in pending : ~Touches(r, a, x)

\* What a replay has already written of its batch is in Lance
WorkLeft == \A f \in Flushers :
    /\ feedsLeft[f] \subseteq MarkedFeeds(batch[f])
    /\ articlesLeft[f] \subseteq OverriddenArticles(batch[f])
    /\ pc[f] = "marks" => articlesLeft[f] = OverriddenArticles(batch[f])
    /\ pc[f] # "marks" => feedsLeft[f] = {}
    /\ pc[f] \notin {"marks", "overrides"} => articlesLeft[f] = {}
    /\ ~Active(f) => batch[f] = {}

WrittenSoFar == \A f \in Flushers, a \in Articles, x \in Attrs :
    Active(f) /\ Clean(a, x) =>
        /\ (Override(batch[f], a, x) # Unset /\ a \notin articlesLeft[f])
              => lance[a][x] = Override(batch[f], a, x)
        /\ (/\ Override(batch[f], a, x) = Unset /\ Marked(batch[f], a, x)
            /\ FeedOf[a] \notin feedsLeft[f])
              => lance[a][x] = "true"

\* Cell by cell, pending rows, replays and Lance add up to the user's last word:
\* the inductive invariant of the write buffer and its replays.
IInv == /\ TypeOK /\ RowsOrdered /\ KnownTargets /\ PendingLeadsToWant
        /\ BatchIsPending /\ OverlapContested /\ ClearedContested
        /\ WorkLeft /\ WrittenSoFar /\ OverlayIsWanted
=============================================================================
