-------------------------- MODULE WriterProcessInv --------------------------
(***************************************************************************)
(* The inductive invariant that makes WriterProcess implement RemoteCall.  *)
(***************************************************************************)
EXTENDS WriterProcess

\* The mutex and the program counter go together; whoever holds the one has a
\* command under way, and writes to a process that it believes to be alive
WriterAtWork ==
    /\ wmu = NoUser <=> step = "idle"
    /\ wmu # NoUser => job[wmu]
    /\ step = "idle" => ~second
    /\ step \in {"send", "read", "started"} => walive

Sent == "new" \in Range(todo)

\* The command under way is in the pipe once, from its sending to the kill of
\* the child
SentOnce ==
    /\ \A i, j \in DOMAIN todo : todo[i] = "new" /\ todo[j] = "new" => i = j
    /\ Sent => step \in {"read", "failed", "restart", "spawn", "blocked"}

Attempts == (IF second THEN 1 ELSE 0) + (IF step = "read" THEN 1 ELSE 0)

\* Each attempt performs the command at most once
PerformedTwice ==
    /\ \A u \in Users : applied[u] <= 2
    /\ \A u \in Users : job[u] /\ wmu # u => applied[u] = 0
    /\ wmu # NoUser => applied[wmu] + (IF Sent THEN 1 ELSE 0) <= Attempts

\* An "ok" that is not known to be an earlier command's is its own
OkIsOwn ==
    "ok" \in Range(lines) => wmu # NoUser /\ applied[wmu] > 0

\* Unless the pipe is known to be out of step, it is empty between commands and
\* then has nothing of an earlier one
PipeIsClean ==
    wtrusted =>
        /\ step \in {"idle", "send", "started"} /\ walive /\ python = "up" =>
              todo = <<>> /\ lines = <<>>
        /\ step = "read" => /\ "past" \notin Range(todo)
                            /\ "old" \notin Range(lines)

\* One mutex, one restart and one more attempt keep commands and answers
\* together: the inductive invariant of sendCmdLocked and restartLocked.
WriterInv ==
    /\ WriterTypeOK /\ WriterAtWork /\ SentOnce
    /\ PerformedTwice /\ OkIsOwn /\ PipeIsClean
=============================================================================
