----------------------------- MODULE LogPathInv -----------------------------
(***************************************************************************)
(* The inductive invariant behind NothingLost, NotHeldTwice, BufferBounded.*)
(***************************************************************************)
EXTENDS LogPath

\* Only a goroutine inside flushLogs3Tier or before its put-back holds a batch
BatchHeld == \A g \in Goroutines :
    batch[g] # <<>> => pc[g] \in {"lance", "duck", "back"}

\* What a drain is about to delete has been written, or reported as written
HandsDrained == \A d \in Drainers :
    drain[d] = "delete" => hand[d] \subseteq lance \cup skipped

\* Entries that do not exist yet are nowhere
Hands == UNION {hand[d] : d \in Drainers}
Numbered == InMemory \cup Stored \cup Hands \subseteq Logged

\* What a drain holds is not in memory either: its insert writes nothing twice
HandsNotInMemory == InMemory \cap Hands \subseteq doubtful

\* Flushes, put-backs, drains and restarts keep every entry accounted for: the
\* inductive invariant of logBuffer, flushLogs3Tier and drainCachedLogs.
LInv == /\ TypeOK /\ BatchHeld /\ HandsDrained /\ NothingLost
        /\ NotHeldTwice /\ Numbered /\ HandsNotInMemory /\ BufferBounded
=============================================================================
