--------------------------- MODULE DuckDBProcess ---------------------------
(***************************************************************************)
(* duckDBProcess (server/db/duckdb_process.go): one long-lived DuckDB      *)
(* child, SQL down its stdin, JSON arrays back through a reader goroutine  *)
(* and the channel resultCh.  Every statement is followed by a marker      *)
(* SELECT, so that a call reads two results: its own and the marker's.  A  *)
(* statement that fails prints nothing, and the marker comes first.        *)
(*                                                                         *)
(* All calls hold d.mu from begin to return (restartMu is only taken       *)
(* inside and adds nothing), so one program counter serves the holder.     *)
(* The child, its reader and the readers of ended children run beside it.  *)
(* A result is what it answers: the verification query ("boot"), the       *)
(* statement under way ("row"), an earlier one ("old"), a marker ("mark"), *)
(* or it is an error of a reader ("err").  What the child has not answered *)
(* yet and what its reader has not read yet are one queue, stdin.          *)
(***************************************************************************)
EXTENDS Integers, Sequences, FiniteSets, Functions

CONSTANTS
    Callers,    \* goroutines that use the process
    Uses,       \* the operations each of them calls
    Capacity    \* of the channel resultCh

Nobody == "nobody"
Operations == {"query", "restart", "stop", "start", "close"}

ASSUME DuckAssumption ==
    /\ Nobody \notin Callers
    /\ Uses \in [Callers -> SUBSET Operations]
    /\ Capacity \in Nat \ {0}

VARIABLES
    op,        \* the call each goroutine is in, or "none"
    outcome,   \* what its last call returned
    mu,        \* who holds d.mu
    at,        \* the holder: "spawn", "boot", "send", "full" (its write waits
               \* for room in the pipe), "real", "mark"; or "idle"
    versions,  \* how many version queries of start are still to be made
    retried,   \* is this the second attempt of the call?
    got,       \* the first result of the statement under way
    alive, stopped,  \* d.alive, d.stoppedForUpgrade
    child,     \* "none", "up" or "dead"
    reader,    \* has the reader of this child not met its end yet?
    stdin, results,  \* see above; resultCh
    late,      \* what readers of ended children may still push
    twin,      \* does one of them read this child's output?
    trusted    \* history: nothing is owed to an earlier statement

calls == <<op, outcome, mu>>
local == <<at, versions, retried, got>>
flags == <<alive, stopped>>
pipe == <<child, reader, stdin, results, late, twin>>
duckVars == <<calls, local, flags, pipe, trusted>>

\* newDuckDBProcess has succeeded
DuckInit ==
    /\ op = [c \in Callers |-> "none"] /\ outcome = [c \in Callers |-> "none"]
    /\ mu = Nobody /\ at = "idle"
    /\ versions = 0 /\ retried = FALSE /\ got = "none"
    /\ alive = TRUE /\ stopped = FALSE
    /\ child = "up" /\ reader = TRUE
    /\ stdin = <<>> /\ results = <<>>
    /\ late = {} /\ twin = FALSE
    /\ trusted = TRUE

\* The statement under way becomes an earlier one
Ended(s) == [i \in DOMAIN s |-> IF s[i] = "row" THEN "old" ELSE s[i]]

\* What the next receive from resultCh would find, and leave
First == IF results = <<>> THEN "none" ELSE Head(results)
Rest == IF results = <<>> THEN <<>> ELSE Tail(results)

Owed(in, out) ==
    /\ child = "up"
    /\ in # <<>> \/ \E i \in DOMAIN out : out[i] # "err"

-----------------------------------------------------------------------------
(* The calls.                                                              *)

Call(c, o) ==
    /\ op[c] = "none"
    /\ op' = [op EXCEPT ![c] = o]
    /\ outcome' = [outcome EXCEPT ![c] = "none"]
    /\ UNCHANGED <<mu, local, flags, pipe, trusted>>

Waits(c, o) == mu = Nobody /\ op[c] = o

Enter(c, where) == mu' = c /\ at' = where /\ UNCHANGED <<op, outcome>>

Answer(c, a) ==
    /\ op' = [op EXCEPT ![c] = "none"]
    /\ outcome' = [outcome EXCEPT ![c] = a]
    /\ mu' = Nobody /\ at' = "idle"
    /\ versions' = 0 /\ retried' = FALSE /\ got' = "none"

\* kill: the readers of the child get an error, or what the child had printed
Leftovers ==
    late \cup (IF reader THEN {"err"} \cup (Range(Ended(stdin)) \ {"boot"}) ELSE {})
         \cup (IF twin THEN {"err"} ELSE {})

Kill ==
    /\ alive' = FALSE
    /\ child' = "none" /\ reader' = FALSE /\ twin' = FALSE
    /\ stdin' = <<>>
    /\ late' = Leftovers
    /\ UNCHANGED <<results, trusted>>

\* Mutation: a stopped process is started again by the next query.
QueryUnstops(c) ==
    /\ Waits(c, "query")
    /\ Enter(c, IF alive THEN "send" ELSE "spawn")
    /\ UNCHANGED <<versions, retried, got, flags, pipe, trusted>>

\* query and execStmt, which differ only in what they do with the rows
Query(c) ==
    /\ Waits(c, "query") /\ ~stopped
    /\ Enter(c, IF alive THEN "send" ELSE "spawn")
    /\ UNCHANGED <<versions, retried, got, flags, pipe, trusted>>

QueryStopped(c) ==
    /\ Waits(c, "query") /\ stopped
    /\ Answer(c, "error")
    /\ UNCHANGED <<flags, pipe, trusted>>

GracefulRestart(c) ==
    /\ Waits(c, "restart")
    /\ alive' = FALSE /\ stopped' = FALSE
    /\ Enter(c, "spawn")
    /\ UNCHANGED <<versions, retried, got, pipe, trusted>>

\* Mutation: the flag is set and the process left running.
StopKeepsProcess(c) ==
    /\ Waits(c, "stop")
    /\ stopped' = TRUE
    /\ Answer(c, "ok")
    /\ UNCHANGED <<alive, pipe, trusted>>

StopForUpgrade(c) ==
    /\ Waits(c, "stop")
    /\ Kill
    /\ stopped' = TRUE
    /\ Answer(c, "ok")

StartAfterUpgrade(c) ==
    /\ Waits(c, "start")
    /\ IF stopped
       THEN /\ stopped' = FALSE
            /\ Enter(c, "spawn")
            /\ UNCHANGED <<versions, retried, got>>
       ELSE Answer(c, "error") /\ UNCHANGED stopped
    /\ UNCHANGED <<alive, pipe, trusted>>

\* close: nothing remembers that the process was closed
Close(c) ==
    /\ Waits(c, "close")
    /\ Kill
    /\ Answer(c, "ok")
    /\ UNCHANGED stopped

-----------------------------------------------------------------------------
(* restart and start.                                                      *)

\* Mutation: what is left in resultCh is not drained.
SpawnNoDrain ==
    /\ at = "spawn"
    /\ alive' = TRUE /\ child' = "up" /\ reader' = TRUE /\ twin' = FALSE
    /\ stdin' = <<"boot">>
    /\ late' = Leftovers
    /\ trusted' = TRUE
    /\ at' = "boot"
    /\ UNCHANGED <<calls, versions, retried, got, stopped, results>>

\* kill the old child, start the new one, drain, send the verification query
Spawn ==
    /\ at = "spawn"
    /\ alive' = TRUE /\ child' = "up" /\ reader' = TRUE /\ twin' = FALSE
    /\ stdin' = <<"boot">> /\ results' = <<>>
    /\ late' = Leftovers
    /\ trusted' = TRUE
    /\ at' = "boot"
    /\ UNCHANGED <<calls, versions, retried, got, stopped>>

\* The data directory or the binary is not there
SpawnFails ==
    /\ at = "spawn"
    /\ Kill
    /\ Answer(mu, "error")
    /\ UNCHANGED stopped

Boot ==
    /\ at = "boot" /\ First = "boot"
    /\ results' = Rest
    /\ versions' = 2 /\ at' = "send"
    /\ UNCHANGED <<calls, retried, got, flags, child, reader, stdin, late, twin,
                   trusted>>

\* A broken pipe, a timeout, or an answer that does not name the extension
BootFails ==
    /\ at = "boot"
    /\ First # "boot"
    /\ Kill
    /\ Answer(mu, "error")
    /\ UNCHANGED stopped

-----------------------------------------------------------------------------
(* sendAndRead, for the two version queries of start (whose errors are     *)
(* ignored) and for the statement of the call.                             *)

Send ==
    /\ at = "send" /\ child = "up"
    /\ stdin' = stdin \o <<"row", "mark">>
    /\ at' = "real"
    /\ UNCHANGED <<calls, versions, retried, got, flags, child, reader, results,
                   late, twin, trusted>>

\* A statement that the pipe does not take at once: the child has none of it
\* that it could execute.  The version queries go into an empty pipe.
SendWaits ==
    /\ at = "send" /\ child = "up" /\ versions = 0
    /\ at' = "full"
    /\ UNCHANGED <<calls, versions, retried, got, flags, pipe, trusted>>

\* How sendAndRead ends with a, and what is then left in the two queues.
\* An error makes query restart the process and try once more.
Finish(a, left) ==
    /\ IF versions > 0
       THEN /\ got' = "none"
            /\ versions' = versions - 1
            /\ IF versions = 1 /\ op[mu] # "query" THEN
                  /\ op' = [op EXCEPT ![mu] = "none"]
                  /\ outcome' = [outcome EXCEPT ![mu] = "ok"]
                  /\ mu' = Nobody /\ at' = "idle" /\ retried' = FALSE
               ELSE at' = "send" /\ UNCHANGED <<calls, retried>>
       ELSE IF a = "error" /\ ~retried
       THEN /\ at' = "spawn" /\ retried' = TRUE
            /\ got' = "none"
            /\ UNCHANGED <<calls, versions>>
       ELSE Answer(mu, a)
    /\ stdin' = Ended(stdin) /\ results' = Ended(left)
    /\ trusted' = (trusted /\ (Owed(stdin, left) => versions = 0 /\ ~alive'))

Retries(a) == a = "error" /\ versions = 0 /\ ~retried

\* Before its restart, query declares the process dead
Fail(left) ==
    /\ alive' = (alive /\ ~Retries("error"))
    /\ Finish("error", left)
    /\ UNCHANGED <<stopped, child, reader, late, twin>>

SendFails == at \in {"send", "full"} /\ child # "up" /\ Fail(results)

ReadResult ==
    /\ at = "real" /\ First \in {"row", "old"}
    /\ got' = IF First = "row" THEN "rows" ELSE "foreign"
    /\ results' = Rest
    /\ at' = "mark"
    /\ UNCHANGED <<calls, versions, retried, flags, child, reader, stdin, late,
                   twin, trusted>>

\* Mutation: the marker is not recognised, and is taken for the answer.
ReadMarkerFirstMissed ==
    /\ at = "real" /\ First = "mark"
    /\ got' = "foreign"
    /\ results' = Rest
    /\ at' = "mark"
    /\ UNCHANGED <<calls, versions, retried, flags, child, reader, stdin, late,
                   twin, trusted>>

\* isSentinelResult: the statement has failed, unless the marker is an earlier
\* one and the answer is still to come
ReadMarkerFirst ==
    /\ at = "real" /\ First = "mark"
    /\ Finish(IF "row" \in Range(stdin) \cup Range(results)
              THEN "foreign" ELSE "empty", Rest)
    /\ UNCHANGED <<flags, child, reader, late, twin>>

ReadError ==
    /\ at = "real" /\ First = "err"
    /\ Fail(Rest)


ReadTimeout == at = "real" /\ results = <<>> /\ Fail(results)

\* The second result is discarded whatever it is; only an error is noticed
ReadMarker ==
    /\ at = "mark" /\ First \notin {"none", "err"}
    /\ Finish(got, Rest)
    /\ UNCHANGED <<flags, child, reader, late, twin>>

MarkerFails ==
    /\ at = "mark"
    /\ First \in {"none", "err"}
    /\ alive' = FALSE
    /\ Finish(got, Rest)
    /\ UNCHANGED <<stopped, child, reader, late, twin>>

HolderStep ==
    \/ Spawn \/ SpawnFails \/ Boot \/ BootFails
    \/ Send \/ SendWaits \/ SendFails \/ ReadResult \/ ReadMarkerFirst \/ ReadError
    \/ ReadTimeout \/ ReadMarker \/ MarkerFails

-----------------------------------------------------------------------------
(* The child and the readers.                                              *)

Push(r) == Len(results) < Capacity /\ results' = Append(results, r)

beside == <<calls, local, flags, trusted>>

\* The child reads on, and the write of the holder returns
SendGoesOn ==
    /\ at = "full" /\ child = "up"
    /\ stdin' = stdin \o <<"row", "mark">>
    /\ at' = "real"
    /\ UNCHANGED <<calls, versions, retried, got, flags, child, reader, results,
                   late, twin, trusted>>

\* One statement is answered and its result read
Deliver ==
    /\ child = "up" /\ stdin # <<>>
    /\ Push(Head(stdin))
    /\ stdin' = Tail(stdin)
    /\ UNCHANGED <<beside, child, reader, late, twin>>

\* A statement fails: the child prints nothing for it
StatementFails ==
    /\ child = "up" /\ stdin # <<>> /\ Head(stdin) \in {"row", "old"}
    /\ stdin' = Tail(stdin)
    /\ UNCHANGED <<beside, child, reader, results, late, twin>>

\* Two readers of one output: a result is torn apart, and is lost or no JSON
Torn ==
    /\ twin /\ child = "up" /\ stdin # <<>>
    /\ stdin' = Tail(stdin)
    /\ Push("err") \/ UNCHANGED results
    /\ UNCHANGED <<beside, child, reader, late, twin>>

ChildDies ==
    /\ child = "up"
    /\ child' = "dead"
    /\ UNCHANGED <<beside, reader, stdin, results, late, twin>>

ReaderEnds ==
    /\ child = "dead" /\ reader
    /\ Push("err")
    /\ reader' = FALSE
    /\ UNCHANGED <<beside, child, stdin, late, twin>>

\* A reader of an ended child pushes what it held.  After an error it returns;
\* after a result it loads d.reader again, which may be this child's.
LateReader(r) ==
    /\ r \in late
    /\ Push(r)
    /\ late' = late \ {r}
    /\ IF r = "err" \/ child = "none" THEN UNCHANGED <<twin, trusted>>
       ELSE twin' = TRUE /\ trusted' = FALSE
    /\ UNCHANGED <<calls, local, flags, child, reader, stdin>>

OutsideStep ==
    \/ SendGoesOn \/ Deliver \/ StatementFails \/ Torn \/ ChildDies \/ ReaderEnds
    \/ \E r \in {"old", "mark", "err"} : LateReader(r)

Begin(c) ==
    \/ Query(c) \/ QueryStopped(c) \/ GracefulRestart(c)
    \/ StopForUpgrade(c) \/ StartAfterUpgrade(c) \/ Close(c)

DuckNext ==
    \/ \E c \in Callers : Begin(c) \/ \E o \in Uses[c] : Call(c, o)
    \/ HolderStep \/ OutsideStep

DuckSpec == DuckInit /\ [][DuckNext]_duckVars

\* Whoever holds the mutex goes on, each read with its timeout.  The child
\* owes nothing: it need not answer, and need not read what is written to it.
DuckFairness == WF_duckVars(HolderStep)

-----------------------------------------------------------------------------
Tokens == {"boot", "row", "old", "mark", "err"}

DuckTypeOK ==
    /\ op \in [Callers -> Operations \cup {"none"}]
    /\ outcome \in [Callers ->
                      {"none", "rows", "empty", "foreign", "ok", "error"}]
    /\ mu \in Callers \cup {Nobody}
    /\ at \in {"idle", "spawn", "boot", "send", "full", "real", "mark"}
    /\ versions \in 0..2 /\ retried \in BOOLEAN
    /\ got \in {"none", "rows", "foreign"}
    /\ alive \in BOOLEAN /\ stopped \in BOOLEAN
    /\ child \in {"none", "up", "dead"} /\ reader \in BOOLEAN
    /\ stdin \in Seq(Tokens) /\ results \in Seq(Tokens)
    /\ late \subseteq Tokens /\ twin \in BOOLEAN /\ trusted \in BOOLEAN

\* While DuckDB is stopped for an upgrade its process is gone, and no query,
\* retry or late answer brings it back: the binary can be replaced.
SafeToReplace == stopped => child = "none" /\ ~alive

\* Unless answers of an earlier statement are known to be under way, a call is
\* given no answer but its own: restarts, retries, failing statements and the
\* readers of killed processes do not shift the answers by one.
AnswersOwn ==
    [][\A c \in Callers :
          (outcome'[c] = "foreign" /\ outcome[c] # "foreign") => ~trusted]_duckVars


\* The callers see an engine that is on or off (QueryEngine): a call that is
\* past its first step and turns the engine on is booting.
Asked(c) ==
    IF mu = c /\ op[c] \in {"restart", "start"} THEN "booting" ELSE op[c]

Engine == INSTANCE QueryEngine WITH
    on <- ~stopped, asked <- [c \in Callers |-> Asked(c)], reply <- outcome

ImplementsEngine == Engine!Spec
=============================================================================
