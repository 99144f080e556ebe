-------------------------- MODULE DuckDBProcessInv --------------------------
(***************************************************************************)
(* The inductive invariant behind SafeToReplace and AnswersOwn.            *)
(***************************************************************************)
EXTENDS DuckDBProcess

\* The mutex and the program counter go together; whoever holds the one is in
\* a call that takes more than one step; no engine is stopped meanwhile, and
\* there is a child, if need be a dead one, from Spawn to the next Kill
HolderAtWork ==
    /\ mu = Nobody <=> at = "idle"
    /\ mu # Nobody => /\ op[mu] \in {"query", "restart", "start"}
                      /\ outcome[mu] = "none" /\ ~stopped
    /\ alive \/ at \notin {"idle", "spawn"} => child # "none"
    /\ \A c \in Callers : op[c] # "none" => outcome[c] = "none"

\* Only the statement under way has a first result, and only the second half
\* of sendAndRead knows it
GotIsLocal == got # "none" <=> at = "mark"
GotIsOwn == got = "foreign" => ~trusted

\* Version queries are only made by start
VersionsInStart ==
    /\ versions > 0 => at \in {"send", "real", "mark"}
    /\ at \in {"send", "full", "real", "mark"} /\ op[mu] # "query" =>
          versions > 0

TwinIsNoted == twin => ~trusted

\* Will what is in the two queues be read by somebody?
InUse ==
    /\ child = "up" \/ at \in {"real", "mark"}
    /\ at # "spawn"
    /\ at = "idle" => alive

OnlyErrors(s) == \A i \in DOMAIN s : s[i] = "err"
AtMostOne(t, s) == \A i, j \in DOMAIN s : s[i] = t /\ s[j] = t => i = j
RowFirst(s) ==
    \A i, j \in DOMAIN s : s[i] = "mark" /\ s[j] = "row" => j < i

\* Nothing is owed between two statements; the verification query has one
\* answer; a statement has its row and then its marker, or the marker alone
QuietPipe == stdin = <<>> /\ OnlyErrors(results)

BootPipe ==
    \/ stdin = <<"boot">> /\ OnlyErrors(results)
    \/ /\ stdin = <<>> /\ AtMostOne("boot", results)
       /\ Range(results) \subseteq {"boot", "err"}

StatementPipe ==
    \/ stdin = <<"row", "mark">> /\ OnlyErrors(results)
    \/ stdin = <<"mark">> /\ Range(results) \subseteq {"row", "err"}
    \/ /\ stdin = <<>> /\ RowFirst(results)
       /\ Range(results) \subseteq {"row", "mark", "err"}

PipeInStep ==
    trusted /\ InUse =>
        /\ at \in {"idle", "send", "full"} => QuietPipe
        /\ at = "boot" => BootPipe
        /\ at = "real" => StatementPipe

\* Restarts, retries, timeouts and failing statements keep answers and
\* statements in step: the inductive invariant of query, execStmt, restart,
\* start and sendAndRead.
DuckInv ==
    /\ DuckTypeOK /\ HolderAtWork /\ SafeToReplace
    /\ GotIsLocal /\ GotIsOwn /\ VersionsInStart /\ TwinIsNoted /\ PipeInStep
=============================================================================
