--------------------------- MODULE MCOfflineStore ---------------------------
(* Instances of OfflineStore for TLC: two articles of one feed, the second  *)
(* still to be fetched in most runs.                                        *)
EXTENDS OfflineStoreClaims

CONSTANTS a1, a2, f1

OneFeed == [a \in {a1, a2} |-> f1]

Change(action, target) == [action |-> action, target |-> target]
MarkAll == Change("mark_all_read", f1)
ReadChanges == {Change("read", a1), Change("unread", a1)}
ReadRequests == ReadChanges \cup {MarkAll}
=============================================================================
