--------------------------- MODULE WriterProcess ---------------------------
(***************************************************************************)
(* The lanceWriter of the lance_external build (server/db/lance_process.go *)
(* and tools/lance_writer.py): JSON commands down the stdin of a Python    *)
(* child, one line of answer for each, a restart and a second attempt      *)
(* after an error.  w.mu is held from the command to its answer.           *)
(*                                                                         *)
(* The process also logs: emitLog calls the store's WriteLog, and the log  *)
(* buffer flushes in the goroutine that fills it, by an InsertLogs, which  *)
(* is a command like any other.                                            *)
(*                                                                         *)
(* A line in the pipe is what it answers: the command under way ("ok" or   *)
(* "refused"), an earlier one ("old"), or nothing ("noise": some library   *)
(* printed to stdout).                                                     *)
(***************************************************************************)
EXTENDS Integers, Sequences, Functions

CONSTANTS
    Users,          \* goroutines that send commands or write log entries
    FlushThreshold, \* LogBufferConfig.FlushThreshold
    LogTable        \* does log_api.lance exist?

NoUser == "no user"
ASSUME WriterAssumption ==
    /\ NoUser \notin Users
    /\ FlushThreshold \in Nat \ {0}
    /\ LogTable \in BOOLEAN

VARIABLES
    job,        \* is a command of the user under way?
    result,     \* what its last one returned
    applied,    \* history: how often the child has performed it
    wmu,        \* who holds w.mu
    step,       \* where the holder is, "idle" if there is none
    second,     \* is this the second attempt?
    walive,     \* w.alive
    python,     \* the child: "none", "up" or "dead"
    todo,       \* what it has been sent: "new" is under way, "past" is not
    lines,      \* what it has printed and nobody has read
    logged,     \* entries in the log buffer
    wtrusted    \* history: nothing in the pipe answers an earlier command

commands == <<job, result, applied>>
holder == <<wmu, step, second>>
wire == <<python, todo, lines>>
writerVars == <<commands, holder, walive, wire, logged, wtrusted>>

\* newLanceWriter has succeeded
WriterInit ==
    /\ job = [u \in Users |-> FALSE]
    /\ result = [u \in Users |-> "none"]
    /\ applied = [u \in Users |-> 0]
    /\ wmu = NoUser /\ step = "idle" /\ second = FALSE
    /\ walive = TRUE
    /\ python = "up" /\ todo = <<>> /\ lines = <<>>
    /\ logged = 0
    /\ wtrusted = TRUE

Starts(u) ==
    /\ job' = [job EXCEPT ![u] = TRUE]
    /\ result' = [result EXCEPT ![u] = "none"]
    /\ applied' = [applied EXCEPT ![u] = 0]

Command(u) ==
    /\ ~job[u]
    /\ Starts(u)
    /\ UNCHANGED <<holder, walive, wire, logged, wtrusted>>

\* Does one more entry make the buffer flush, and how many does it then hold?
Fills == logged + 1 >= FlushThreshold

Buffered == IF Fills THEN 0 ELSE logged + 1

\* WriteLog: the entry that fills the buffer makes its writer call InsertLogs
WriteLog(u) ==
    /\ ~job[u]
    /\ logged' = Buffered
    /\ IF Fills /\ LogTable THEN Starts(u) ELSE UNCHANGED commands
    /\ UNCHANGED <<holder, walive, wire, wtrusted>>

-----------------------------------------------------------------------------
(* sendCmdLocked, by the holder of w.mu.                                   *)

Acquire(u) ==
    /\ job[u] /\ wmu = NoUser
    /\ wmu' = u
    /\ step' = IF walive THEN "send" ELSE "restart"
    /\ UNCHANGED <<second, commands, walive, wire, logged, wtrusted>>

\* The answers of the command that has ended are somebody else's from now on
Aged(s) ==
    [i \in DOMAIN s |-> CASE s[i] = "new" -> "past"
                          [] s[i] \in {"ok", "refused"} -> "old"
                          [] OTHER -> s[i]]

\* A line that the next command would take for its own
Strays(in, out) == python = "up" /\ (in # <<>> \/ out # <<>>)

Return(a, left) ==
    /\ job' = [job EXCEPT ![wmu] = FALSE]
    /\ result' = [result EXCEPT ![wmu] = a]
    /\ wmu' = NoUser /\ step' = "idle" /\ second' = FALSE
    /\ todo' = Aged(todo) /\ lines' = Aged(left)
    /\ wtrusted' = (wtrusted /\ ~(walive /\ Strays(todo, left)))
    /\ UNCHANGED <<applied, walive, python, logged>>

\* Mutation: each attempt that fails is followed by another.
AttemptFailsAgain(left) ==
    /\ walive' = FALSE
    /\ step' = "failed" /\ second' = TRUE
    /\ lines' = left
    /\ UNCHANGED <<commands, wmu, python, todo, logged, wtrusted>>

\* An error: a restart and one more attempt, or the error is returned
AttemptFails(left) ==
    IF second THEN Return("error", left)
    ELSE /\ walive' = FALSE
         /\ step' = "failed" /\ second' = TRUE
         /\ lines' = left
         /\ UNCHANGED <<commands, wmu, python, todo, logged, wtrusted>>

SendCmd ==
    /\ step = "send" /\ python = "up"
    /\ todo' = Append(todo, "new")
    /\ step' = "read"
    /\ UNCHANGED <<commands, wmu, second, walive, python, lines, logged, wtrusted>>

SendCmdFails == step = "send" /\ python # "up" /\ AttemptFails(lines)

\* An answer that is another command's is taken as this one's
ReadAnswer ==
    /\ step = "read" /\ lines # <<>>
    /\ \/ /\ Head(lines) \in {"ok", "refused"}
          /\ Return(Head(lines), Tail(lines))
       \/ /\ Head(lines) = "old"
          /\ \E a \in {"ok", "refused"} : Return(a, Tail(lines))

\* No JSON, or the end of the pipe.  There is no timeout.
ReadFails ==
    /\ step = "read"
    /\ \/ lines # <<>> /\ Head(lines) = "noise" /\ AttemptFails(Tail(lines))
       \/ lines = <<>> /\ python = "dead" /\ AttemptFails(lines)

\* Mutation: the answers left in the reader survive the restart.
RestartKeepsReader ==
    /\ step = "spawn"
    /\ walive' = TRUE /\ python' = "up"
    /\ todo' = <<>>
    /\ wtrusted' = TRUE
    /\ step' = "started"
    /\ UNCHANGED <<commands, wmu, second, logged, lines>>

\* restartLocked: kill and start, up to the ready line
Restart ==
    /\ step = "spawn"
    /\ walive' = TRUE /\ python' = "up"
    /\ todo' = <<>> /\ lines' = <<>>
    /\ wtrusted' = TRUE
    /\ step' = "started"
    /\ UNCHANGED <<commands, wmu, second, logged>>

RestartFails ==
    /\ step = "spawn"
    /\ walive' = FALSE /\ python' = "none"
    /\ todo' = <<>> /\ lines' = <<>>
    /\ step' = "unstarted"
    /\ UNCHANGED <<commands, wmu, second, logged, wtrusted>>

\* Where the entries of emitLog come, and what is done after each
AfterLog == [failed |-> "restart", restart |-> "spawn", started |-> "send",
             unstarted |-> "giveup"]

\* emitLog, under w.mu: if the entry fills the buffer, the holder of the mutex
\* calls InsertLogs and waits for itself
EmitLog ==
    /\ step \in DOMAIN AfterLog
    /\ logged' = Buffered
    /\ step' = IF Fills /\ LogTable THEN "blocked" ELSE AfterLog[step]
    /\ UNCHANGED <<commands, wmu, second, walive, wire, wtrusted>>

GiveUp == step = "giveup" /\ Return("error", lines)

\* close, by Close: the next command starts the process again
CloseWriter ==
    /\ wmu = NoUser
    /\ walive' = FALSE /\ python' = "none"
    /\ todo' = <<>> /\ lines' = <<>>
    /\ UNCHANGED <<commands, holder, logged, wtrusted>>

-----------------------------------------------------------------------------
(* The child.                                                              *)

\* dispatch: a command is performed or refused, and answered
Perform(u) ==
    /\ python = "up" /\ todo # <<>> /\ Head(todo) = "new" /\ wmu = u
    /\ todo' = Tail(todo)
    /\ \/ /\ applied' = [applied EXCEPT ![u] = @ + 1]
          /\ lines' = Append(lines, "ok")
       \/ /\ lines' = Append(lines, "refused")
          /\ UNCHANGED applied
    /\ UNCHANGED <<job, result, holder, walive, python, logged, wtrusted>>

\* It has been performed, and the child dies before it answers
PerformAndDie(u) ==
    /\ python = "up" /\ todo # <<>> /\ Head(todo) = "new" /\ wmu = u
    /\ applied' = [applied EXCEPT ![u] = @ + 1]
    /\ python' = "dead" /\ todo' = <<>>
    /\ UNCHANGED <<job, result, holder, walive, lines, logged, wtrusted>>

\* A command whose caller has been given an error
PerformPast ==
    /\ python = "up" /\ todo # <<>> /\ Head(todo) = "past"
    /\ todo' = Tail(todo)
    /\ lines' = Append(lines, "old")
    /\ UNCHANGED <<commands, holder, walive, python, logged, wtrusted>>

Noise ==
    /\ python = "up" /\ todo # <<>> /\ lines = <<>>
    /\ lines' = <<"noise">>
    /\ UNCHANGED <<commands, holder, walive, python, todo, logged, wtrusted>>

PythonDies ==
    /\ python = "up"
    /\ python' = "dead" /\ todo' = <<>>
    /\ UNCHANGED <<commands, holder, walive, lines, logged, wtrusted>>

WriterNext ==
    \/ \E u \in Users :
          \/ Command(u) \/ WriteLog(u) \/ Acquire(u)
          \/ Perform(u) \/ PerformAndDie(u)
    \/ SendCmd \/ SendCmdFails \/ ReadAnswer \/ ReadFails \/ Restart \/ RestartFails
    \/ EmitLog \/ GiveUp \/ CloseWriter
    \/ PerformPast \/ Noise \/ PythonDies

WriterSpec == WriterInit /\ [][WriterNext]_writerVars

-----------------------------------------------------------------------------
WriterTypeOK ==
    /\ job \in [Users -> BOOLEAN]
    /\ result \in [Users -> {"none", "ok", "refused", "error"}]
    /\ applied \in [Users -> Nat]
    /\ wmu \in Users \cup {NoUser}
    /\ step \in {"idle", "send", "read", "spawn", "giveup", "blocked"}
                    \cup DOMAIN AfterLog
    /\ second \in BOOLEAN /\ walive \in BOOLEAN
    /\ python \in {"none", "up", "dead"}
    /\ todo \in Seq({"new", "past"})
    /\ lines \in Seq({"ok", "refused", "old", "noise"})
    /\ logged \in 0..FlushThreshold /\ wtrusted \in BOOLEAN

\* A caller is told "ok" only if its own command has been performed, unless a
\* line of an earlier one may be in the pipe; and no command is performed more
\* than twice, whatever dies between a command and its answer (RemoteCall).
Calls == INSTANCE RemoteCall WITH
    Callers <- Users, open <- job, performed <- applied,
    answer <- [u \in Users |-> IF result[u] = "refused" THEN "error" ELSE result[u]],
    trusted <- wtrusted

ImplementsCall == Calls!CallSpec
=============================================================================
