------------------------ MODULE WriterProcessProofs ------------------------
(***************************************************************************)
(* Theorems about WriterProcess, for every set of users and every flush    *)
(* threshold of the log buffer.                                            *)
(***************************************************************************)
EXTENDS WriterProcessInv, TLAPS

USE WriterAssumption DEF WriterAssumption

Lines == {"ok", "refused", "old", "noise"}
Orders == {"new", "past"}

-----------------------------------------------------------------------------
(* The two sequences of the pipe.                                          *)

LEMMA TailOf ==
    ASSUME NEW S, NEW s \in Seq(S), s # <<>>
    PROVE  /\ Head(s) \in S /\ Tail(s) \in Seq(S)
           /\ Head(s) \in Range(s) /\ Range(Tail(s)) \subseteq Range(s)
           /\ \A i \in DOMAIN Tail(s) :
                 i + 1 \in DOMAIN s /\ Tail(s)[i] = s[i + 1] /\ i + 1 # 1
<1>1. /\ Head(s) \in S /\ Tail(s) \in Seq(S)
      /\ Head(s) = s[1] /\ 1 \in DOMAIN s
      /\ \A i \in DOMAIN Tail(s) :
            i + 1 \in DOMAIN s /\ Tail(s)[i] = s[i + 1] /\ i + 1 # 1
  OBVIOUS
<1>2. QED  BY <1>1 DEF Range

LEMMA AppendOf ==
    ASSUME NEW S, NEW s \in Seq(S), NEW x \in S
    PROVE  /\ Append(s, x) \in Seq(S)
           /\ DOMAIN Append(s, x) = DOMAIN s \cup {Len(s) + 1}
           /\ Len(s) + 1 \notin DOMAIN s
           /\ Append(s, x)[Len(s) + 1] = x
           /\ \A i \in DOMAIN s : Append(s, x)[i] = s[i]
           /\ Range(Append(s, x)) = Range(s) \cup {x}
<1>1. /\ Append(s, x) \in Seq(S)
      /\ DOMAIN Append(s, x) = 1..(Len(s) + 1) /\ DOMAIN s = 1..Len(s)
      /\ Len(s) \in Nat
      /\ Append(s, x)[Len(s) + 1] = x
      /\ \A i \in DOMAIN s : Append(s, x)[i] = s[i]
  OBVIOUS
<1>2. /\ DOMAIN Append(s, x) = DOMAIN s \cup {Len(s) + 1}
      /\ Len(s) + 1 \notin DOMAIN s
  BY <1>1
<1>3. Range(Append(s, x)) = Range(s) \cup {x}
  BY <1>1, <1>2 DEF Range
<1>4. QED  BY <1>1, <1>2, <1>3

LEMMA EmptyRange == Range(<<>>) = {}
BY DEF Range

\* Nothing in the pipe is the next command's
LEMMA AgedOf ==
    /\ \A s \in Seq(Orders) : /\ Aged(s) \in Seq(Orders)
                              /\ "new" \notin Range(Aged(s))
    /\ \A s \in Seq(Lines) : /\ Aged(s) \in Seq(Lines)
                             /\ "ok" \notin Range(Aged(s))
    /\ Aged(<<>>) = <<>>
<1>1. ASSUME NEW s \in Seq(Orders)
      PROVE  Aged(s) \in Seq(Orders) /\ "new" \notin Range(Aged(s))
  <2>1. /\ DOMAIN Aged(s) = 1..Len(s) /\ Len(s) \in Nat
        /\ \A i \in 1..Len(s) : Aged(s)[i] = "past"
    <3>1. DOMAIN s = 1..Len(s) /\ \A i \in 1..Len(s) : s[i] \in Orders
      OBVIOUS
    <3>2. QED  BY <3>1 DEF Aged, Orders
  <2>2. Aged(s) = [i \in 1..Len(s) |-> Aged(s)[i]]  BY <2>1 DEF Aged
  <2>3. QED  BY <2>1, <2>2 DEF Range, Orders
<1>2. ASSUME NEW s \in Seq(Lines)
      PROVE  Aged(s) \in Seq(Lines) /\ "ok" \notin Range(Aged(s))
  <2>1. /\ DOMAIN Aged(s) = 1..Len(s) /\ Len(s) \in Nat
        /\ \A i \in 1..Len(s) : Aged(s)[i] \in {"old", "noise"}
    <3>1. DOMAIN s = 1..Len(s) /\ \A i \in 1..Len(s) : s[i] \in Lines
      OBVIOUS
    <3>2. QED  BY <3>1 DEF Aged, Lines
  <2>2. Aged(s) = [i \in 1..Len(s) |-> Aged(s)[i]]  BY <2>1 DEF Aged
  <2>3. QED  BY <2>1, <2>2 DEF Range, Lines
<1>3. Aged(<<>>) = <<>>
  <2>1. Aged(<<>>) \in Seq(Orders) /\ DOMAIN Aged(<<>>) = {}
    BY <1>1 DEF Aged
  <2>2. QED  BY <2>1
<1>4. QED  BY <1>1, <1>2, <1>3

LEMMA AfterLogSteps ==
    /\ DOMAIN AfterLog = {"failed", "restart", "started", "unstarted"}
    /\ \A s \in DOMAIN AfterLog :
          AfterLog[s] \in {"restart", "spawn", "send", "giveup"}
BY DEF AfterLog

-----------------------------------------------------------------------------
(* Type correctness.                                                       *)

LEMMA BufferedType ==
    ASSUME logged \in 0..FlushThreshold PROVE Buffered \in 0..FlushThreshold
BY DEF Buffered, Fills

LEMMA ReturnType ==
    ASSUME WriterTypeOK, wmu \in Users, NEW a \in {"ok", "refused", "error"},
           NEW left \in Seq(Lines), Return(a, left)
    PROVE  WriterTypeOK'
<1>1. /\ todo' \in Seq(Orders) /\ lines' \in Seq(Lines)
  BY AgedOf DEF Return, WriterTypeOK, Orders
<1>2. wtrusted' \in BOOLEAN
  BY DEF Return, WriterTypeOK, Strays
<1>3. QED
  BY <1>1, <1>2 DEF Return, WriterTypeOK, Orders, Lines

LEMMA AttemptType ==
    ASSUME WriterTypeOK, wmu \in Users, NEW left \in Seq(Lines),
           AttemptFails(left)
    PROVE  WriterTypeOK'
<1>1. CASE second  BY <1>1, ReturnType DEF AttemptFails
<1>2. CASE ~second
  BY <1>2 DEF AttemptFails, WriterTypeOK, AfterLog, commands, Lines
<1>3. QED  BY <1>1, <1>2

LEMMA NextType ==
    ASSUME WriterTypeOK, WriterAtWork, [WriterNext]_writerVars
    PROVE  WriterTypeOK'
<1> USE AfterLogSteps DEF WriterTypeOK, commands, holder, wire
<1>l. lines \in Seq(Lines) /\ todo \in Seq(Orders)  BY DEF Lines, Orders
<1>h. step # "idle" => wmu \in Users  BY DEF WriterAtWork
<1>1. ASSUME NEW u \in Users, Command(u) \/ WriteLog(u) \/ Acquire(u)
      PROVE  WriterTypeOK'
  <2>1. Starts(u) => /\ job' \in [Users -> BOOLEAN]
                     /\ result' \in [Users -> {"none", "ok", "refused",
                                              "error"}]
                     /\ applied' \in [Users -> Nat]
    BY DEF Starts
  <2>2. CASE Command(u)  BY <2>1, <2>2 DEF Command
  <2>3. CASE WriteLog(u)  BY <2>1, <2>3, BufferedType DEF WriteLog
  <2>4. CASE Acquire(u)  BY <2>4 DEF Acquire
  <2>5. QED  BY <1>1, <2>2, <2>3, <2>4
<1>2. ASSUME NEW u \in Users, Perform(u) \/ PerformAndDie(u)
      PROVE  WriterTypeOK'
  <2>1. CASE Perform(u)
    <3>1. todo' \in Seq(Orders)  BY <1>l, <2>1, TailOf DEF Perform
    <3>2. lines' \in Seq(Lines)
      <4>1. /\ Append(lines, "ok") \in Seq(Lines)
            /\ Append(lines, "refused") \in Seq(Lines)
        BY <1>l, AppendOf DEF Lines
      <4>2. QED  BY <2>1, <4>1 DEF Perform
    <3>3. applied' \in [Users -> Nat]  BY <2>1 DEF Perform
    <3>4. QED  BY <2>1, <3>1, <3>2, <3>3 DEF Perform, Lines, Orders
  <2>2. CASE PerformAndDie(u)  BY <2>2 DEF PerformAndDie
  <2>3. QED  BY <1>2, <2>1, <2>2
<1>3. CASE SendCmd
  <2>1. todo' \in Seq(Orders)  BY <1>l, <1>3, AppendOf DEF SendCmd, Orders
  <2>2. QED  BY <1>3, <2>1 DEF SendCmd, Orders
<1>4. CASE SendCmdFails
  BY <1>h, <1>l, <1>4, AttemptType DEF SendCmdFails
<1>5. CASE ReadAnswer
  <2>1. step = "read" /\ lines # <<>>  BY <1>5 DEF ReadAnswer
  <2>2. Tail(lines) \in Seq(Lines)  BY <1>l, <2>1, TailOf
  <2>3. PICK a \in {"ok", "refused"} : Return(a, Tail(lines))
    BY <1>5 DEF ReadAnswer
  <2>4. QED  BY <1>h, <2>1, <2>2, <2>3, ReturnType
<1>6. CASE ReadFails
  <2>1. CASE lines # <<>> /\ AttemptFails(Tail(lines)) /\ step = "read"
    <3>1. Tail(lines) \in Seq(Lines)  BY <1>l, <2>1, TailOf
    <3>2. QED  BY <1>h, <2>1, <3>1, AttemptType
  <2>2. CASE AttemptFails(lines) /\ step = "read"
    BY <1>h, <1>l, <2>2, AttemptType
  <2>3. QED  BY <1>6, <2>1, <2>2 DEF ReadFails
<1>7. CASE Restart \/ RestartFails \/ CloseWriter
  <2>1. <<>> \in Seq(Orders) /\ <<>> \in Seq(Lines)  OBVIOUS
  <2>2. CASE Restart  BY <2>1, <2>2 DEF Restart, Lines, Orders
  <2>3. CASE RestartFails  BY <2>1, <2>3 DEF RestartFails, Lines, Orders
  <2>4. CASE CloseWriter  BY <2>1, <2>4 DEF CloseWriter, Lines, Orders
  <2>5. QED  BY <1>7, <2>2, <2>3, <2>4
<1>8. CASE EmitLog  BY <1>8, BufferedType DEF EmitLog
<1>9. CASE GiveUp  BY <1>h, <1>l, <1>9, ReturnType DEF GiveUp
<1>10. CASE PerformPast
  <2>1. todo' \in Seq(Orders)  BY <1>l, <1>10, TailOf DEF PerformPast
  <2>2. lines' \in Seq(Lines)
    BY <1>l, <1>10, AppendOf DEF PerformPast, Lines
  <2>3. QED  BY <1>10, <2>1, <2>2 DEF PerformPast, Lines, Orders
<1>11. CASE Noise
  <2>1. lines' \in Seq(Lines)  BY <1>11 DEF Noise, Lines
  <2>2. QED  BY <1>11, <2>1 DEF Noise, Lines
<1>12. CASE PythonDies  BY <1>12 DEF PythonDies
<1>13. CASE UNCHANGED writerVars  BY <1>13 DEF writerVars
<1>14. QED
  BY <1>1, <1>2, <1>3, <1>4, <1>5, <1>6, <1>7, <1>8, <1>9, <1>10, <1>11,
     <1>12, <1>13 DEF WriterNext

-----------------------------------------------------------------------------
(* The rest of the invariant.                                              *)

LEMMA ReturnKeeps ==
    ASSUME WriterInv, wmu # NoUser, NEW a, NEW left \in Seq(Lines),
           Return(a, left)
    PROVE  /\ WriterAtWork' /\ SentOnce' /\ PerformedTwice'
           /\ OkIsOwn' /\ PipeIsClean'
<1> USE DEF WriterInv, WriterTypeOK
<1>r. /\ wmu' = NoUser /\ step' = "idle" /\ second' = FALSE
      /\ job' = [job EXCEPT ![wmu] = FALSE]
      /\ todo' = Aged(todo) /\ lines' = Aged(left)
      /\ wtrusted' = (wtrusted /\ ~(walive /\ Strays(todo, left)))
      /\ UNCHANGED <<applied, walive, python>>
  BY DEF Return
<1>n. "new" \notin Range(todo') /\ "ok" \notin Range(lines')
  BY <1>r, AgedOf DEF Orders
<1>1. WriterAtWork'  BY <1>r DEF WriterAtWork
<1>2. SentOnce'  BY <1>n DEF SentOnce, Sent, Range
<1>3. PerformedTwice'
  <2>1. \A u \in Users : applied'[u] <= 2  BY <1>r DEF PerformedTwice
  <2>2. ASSUME NEW u \in Users, job'[u] PROVE applied'[u] = 0
    <3>1. job[u] /\ wmu # u  BY <1>r, <2>2
    <3>2. QED  BY <1>r, <3>1 DEF PerformedTwice
  <2>3. QED  BY <1>r, <2>1, <2>2 DEF PerformedTwice
<1>4. OkIsOwn'  BY <1>n DEF OkIsOwn
<1>5. PipeIsClean'
  <2>1. SUFFICES ASSUME wtrusted', walive', python' = "up"
                 PROVE  todo' = <<>> /\ lines' = <<>>
    BY <1>r DEF PipeIsClean
  <2>2. ~Strays(todo, left)  BY <1>r, <2>1
  <2>3. todo = <<>> /\ left = <<>>  BY <1>r, <2>1, <2>2 DEF Strays
  <2>4. QED  BY <1>r, <2>3, AgedOf
<1>6. QED  BY <1>1, <1>2, <1>3, <1>4, <1>5

LEMMA AttemptKeeps ==
    ASSUME WriterInv, step \in {"send", "read"}, NEW left \in Seq(Lines),
           Range(left) \subseteq Range(lines), AttemptFails(left)
    PROVE  /\ WriterAtWork' /\ SentOnce' /\ PerformedTwice'
           /\ OkIsOwn' /\ PipeIsClean'
<1>m. wmu # NoUser  BY DEF WriterInv, WriterAtWork
<1>1. CASE second  BY <1>m, <1>1, ReturnKeeps DEF AttemptFails
<1>2. CASE ~second
  <2>r. /\ walive' = FALSE /\ step' = "failed" /\ second' = TRUE
        /\ lines' = left
        /\ UNCHANGED <<job, applied, wmu, todo>>
    BY <1>2 DEF AttemptFails, commands
  <2> USE DEF WriterInv, WriterTypeOK
  <2>1. WriterAtWork'  BY <1>m, <2>r DEF WriterAtWork
  <2>2. SentOnce'  BY <2>r DEF SentOnce, Sent
  <2>3. PerformedTwice'
    <3>1. Attempts <= 1 /\ Attempts' = 1  BY <1>2, <2>r DEF Attempts
    <3>2. Sent' = Sent  BY <2>r DEF Sent
    <3>3. applied[wmu] \in Nat /\ Attempts \in 0..1
      BY <1>m, <1>2 DEF Attempts
    <3>4. QED  BY <1>m, <2>r, <3>1, <3>2, <3>3 DEF PerformedTwice
  <2>4. OkIsOwn'  BY <2>r DEF OkIsOwn
  <2>5. PipeIsClean'  BY <2>r DEF PipeIsClean
  <2>6. QED  BY <2>1, <2>2, <2>3, <2>4, <2>5
<1>3. QED  BY <1>1, <1>2

\* Nothing in the pipe moves: what the goroutines do beside it
LEMMA StartKeeps ==
    ASSUME WriterInv, NEW u \in Users, ~job[u],
           job' = [job EXCEPT ![u] = TRUE],
           applied' = [applied EXCEPT ![u] = 0],
           UNCHANGED <<wmu, step, second, walive, python, todo, lines,
                       wtrusted>>
    PROVE  /\ WriterAtWork' /\ SentOnce' /\ PerformedTwice'
           /\ OkIsOwn' /\ PipeIsClean'
<1> USE DEF WriterInv, WriterTypeOK
<1>1. wmu # u  BY DEF WriterAtWork
<1>2. wmu # NoUser => wmu \in Users /\ applied'[wmu] = applied[wmu]
  BY <1>1
<1>3. WriterAtWork'  BY <1>1, <1>2 DEF WriterAtWork
<1>4. SentOnce'  BY DEF SentOnce, Sent
<1>5. PerformedTwice'
  <2>1. \A v \in Users : applied'[v] <= 2  BY DEF PerformedTwice
  <2>2. \A v \in Users : job'[v] /\ wmu' # v => applied'[v] = 0
    BY DEF PerformedTwice
  <2>3. wmu' # NoUser =>
          applied'[wmu'] + (IF Sent' THEN 1 ELSE 0) <= Attempts'
    BY <1>2 DEF PerformedTwice, Sent, Attempts
  <2>4. QED  BY <2>1, <2>2, <2>3 DEF PerformedTwice
<1>6. OkIsOwn'  BY <1>2 DEF OkIsOwn
<1>7. PipeIsClean'  BY DEF PipeIsClean
<1>8. QED  BY <1>3, <1>4, <1>5, <1>6, <1>7

LEMMA UserKeeps ==
    ASSUME WriterInv, NEW u \in Users, Command(u) \/ WriteLog(u) \/ Acquire(u)
    PROVE  /\ WriterAtWork' /\ SentOnce' /\ PerformedTwice'
           /\ OkIsOwn' /\ PipeIsClean'
<1> USE DEF WriterInv, WriterTypeOK
<1>1. CASE Command(u)
  BY <1>1, StartKeeps DEF Command, Starts, holder, wire
<1>2. CASE WriteLog(u)
  <2>1. CASE Fills /\ LogTable
    BY <1>2, <2>1, StartKeeps DEF WriteLog, Starts, holder, wire
  <2>2. CASE ~(Fills /\ LogTable)
    <3>1. UNCHANGED <<job, applied, wmu, step, second, walive, python, todo,
                      lines, wtrusted>>
      BY <1>2, <2>2 DEF WriteLog, commands, holder, wire
    <3>2. QED
      BY <3>1 DEF WriterAtWork, SentOnce, Sent, PerformedTwice, Attempts,
                  OkIsOwn, PipeIsClean
  <2>3. QED  BY <2>1, <2>2
<1>3. CASE Acquire(u)
  <2>r. /\ job[u] /\ wmu = NoUser /\ step = "idle" /\ wmu' = u /\ ~second
        /\ step' = IF walive THEN "send" ELSE "restart"
        /\ UNCHANGED <<second, job, applied, walive, python, todo, lines,
                       wtrusted>>
    BY <1>3 DEF Acquire, commands, wire, WriterAtWork
  <2>n. ~Sent /\ "ok" \notin Range(lines)
    BY <2>r DEF SentOnce, OkIsOwn
  <2>1. WriterAtWork'  BY <2>r DEF WriterAtWork
  <2>2. SentOnce'  BY <2>n, <2>r DEF SentOnce, Sent
  <2>3. PerformedTwice'
    <3>1. applied'[u] = 0 /\ ~Sent' /\ Attempts' = 0
      BY <2>n, <2>r DEF PerformedTwice, Sent, Attempts
    <3>2. QED  BY <2>r, <3>1 DEF PerformedTwice
  <2>4. OkIsOwn'  BY <2>n, <2>r DEF OkIsOwn
  <2>5. PipeIsClean'  BY <2>r DEF PipeIsClean
  <2>6. QED  BY <2>1, <2>2, <2>3, <2>4, <2>5
<1>4. QED  BY <1>1, <1>2, <1>3

\* The pipe is emptied, with the child or without it
LEMMA ClearedKeeps ==
    ASSUME WriterInv, Restart \/ RestartFails \/ CloseWriter
    PROVE  /\ WriterAtWork' /\ SentOnce' /\ PerformedTwice'
           /\ OkIsOwn' /\ PipeIsClean'
<1> USE DEF WriterInv, WriterTypeOK
<1>r. /\ todo' = <<>> /\ lines' = <<>>
      /\ \/ step = "spawn" /\ step' \in {"started", "unstarted"}
            /\ (step' = "started" => walive')
         \/ wmu = NoUser /\ step' = step
      /\ UNCHANGED <<job, applied, wmu, second>>
  BY DEF Restart, RestartFails, CloseWriter, commands, holder
<1>n. ~Sent' /\ "ok" \notin Range(lines')
  BY <1>r, EmptyRange DEF Sent
<1>1. WriterAtWork'  BY <1>r DEF WriterAtWork
<1>2. SentOnce'  BY <1>n DEF SentOnce, Sent, Range
<1>3. PerformedTwice'
  <2>1. Attempts' = Attempts  BY <1>r DEF Attempts, WriterAtWork
  <2>2. wmu # NoUser => applied[wmu] \in Nat  OBVIOUS
  <2>3. Attempts \in 0..2  BY DEF Attempts
  <2>4. QED  BY <1>n, <1>r, <2>1, <2>2, <2>3 DEF PerformedTwice
<1>4. OkIsOwn'  BY <1>n DEF OkIsOwn
<1>5. PipeIsClean'
  <2>1. step' # "read"  BY <1>r DEF WriterAtWork
  <2>2. QED  BY <1>r, <2>1 DEF PipeIsClean
<1>6. QED  BY <1>1, <1>2, <1>3, <1>4, <1>5

LEMMA SendKeeps ==
    ASSUME WriterInv, SendCmd
    PROVE  /\ WriterAtWork' /\ SentOnce' /\ PerformedTwice'
           /\ OkIsOwn' /\ PipeIsClean'
<1> USE DEF WriterInv, WriterTypeOK
<1>r. /\ step = "send" /\ python = "up" /\ step' = "read" /\ walive
      /\ todo' = Append(todo, "new") /\ wmu # NoUser
      /\ UNCHANGED <<job, applied, wmu, second, walive, python, lines,
                     wtrusted>>
  BY DEF SendCmd, commands, WriterAtWork
<1>n. /\ "new" \notin Range(todo)
      /\ DOMAIN todo' = DOMAIN todo \cup {Len(todo) + 1}
      /\ \A i \in DOMAIN todo : todo'[i] = todo[i]
      /\ Range(todo') = Range(todo) \cup {"new"}
  <2>1. todo \in Seq(Orders) /\ "new" \in Orders  BY DEF Orders
  <2>2. QED  BY <1>r, <2>1, AppendOf DEF SentOnce, Sent
<1>1. WriterAtWork'  BY <1>r DEF WriterAtWork
<1>2. SentOnce'
  <2>1. \A i \in DOMAIN todo : todo'[i] # "new"  BY <1>n DEF Range
  <2>2. QED  BY <1>n, <1>r, <2>1 DEF SentOnce
<1>3. PerformedTwice'
  <2>1. Attempts' = Attempts + 1 /\ Attempts \in 0..1
    BY <1>r DEF Attempts
  <2>2. applied[wmu] + 0 <= Attempts /\ applied[wmu] \in Nat
    BY <1>n, <1>r DEF PerformedTwice, Sent
  <2>3. Sent'  BY <1>n DEF Sent
  <2>4. QED  BY <1>r, <2>1, <2>2, <2>3 DEF PerformedTwice
<1>4. OkIsOwn'  BY <1>r DEF OkIsOwn
<1>5. PipeIsClean'
  <2>1. SUFFICES ASSUME wtrusted
                 PROVE  /\ "past" \notin Range(todo')
                        /\ "old" \notin Range(lines')
    BY <1>r DEF PipeIsClean
  <2>2. todo = <<>> /\ lines = <<>>  BY <1>r, <2>1 DEF PipeIsClean
  <2>3. QED  BY <1>n, <1>r, <2>2, EmptyRange
<1>6. QED  BY <1>1, <1>2, <1>3, <1>4, <1>5

LEMMA EmitKeeps ==
    ASSUME WriterInv, EmitLog
    PROVE  /\ WriterAtWork' /\ SentOnce' /\ PerformedTwice'
           /\ OkIsOwn' /\ PipeIsClean'
<1> USE DEF WriterInv, WriterTypeOK
<1>r. /\ step \in {"failed", "restart", "started", "unstarted"}
      /\ \/ step' = "blocked"
         \/ step \in {"failed", "restart"} /\ step' \in {"restart", "spawn"}
         \/ step = "started" /\ step' = "send"
         \/ step = "unstarted" /\ step' = "giveup"
      /\ UNCHANGED <<job, applied, wmu, second, walive, python, todo, lines,
                     wtrusted>>
  BY DEF EmitLog, AfterLog, commands, wire
<1>1. WriterAtWork'  BY <1>r DEF WriterAtWork
<1>2. SentOnce'  BY <1>r DEF SentOnce, Sent
<1>3. PerformedTwice'
  BY <1>r DEF PerformedTwice, Sent, Attempts
<1>4. OkIsOwn'  BY <1>r DEF OkIsOwn
<1>5. PipeIsClean'  BY <1>r DEF PipeIsClean
<1>6. QED  BY <1>1, <1>2, <1>3, <1>4, <1>5

\* The child performs the command under way, and answers or dies
LEMMA PerformKeeps ==
    ASSUME WriterInv, NEW u \in Users, Perform(u) \/ PerformAndDie(u)
    PROVE  /\ WriterAtWork' /\ SentOnce' /\ PerformedTwice'
           /\ OkIsOwn' /\ PipeIsClean'
<1> USE DEF WriterInv, WriterTypeOK
<1>r. /\ wmu = u /\ todo # <<>> /\ Head(todo) = "new"
      /\ todo' = Tail(todo) \/ todo' = <<>>
      /\ applied'[u] \in {applied[u], applied[u] + 1}
      /\ \A v \in Users : v # u => applied'[v] = applied[v]
      /\ UNCHANGED <<job, wmu, step, second, walive, wtrusted>>
  BY DEF Perform, PerformAndDie, holder
<1>l. /\ Range(lines') \subseteq Range(lines) \cup {"ok", "refused"}
      /\ "ok" \in Range(lines') \ Range(lines) => applied'[u] = applied[u] + 1
  <2>1. lines \in Seq(Lines) /\ "ok" \in Lines /\ "refused" \in Lines
    BY DEF Lines
  <2>2. /\ Range(Append(lines, "ok")) = Range(lines) \cup {"ok"}
        /\ Range(Append(lines, "refused")) = Range(lines) \cup {"refused"}
    BY <2>1, AppendOf
  <2>3. CASE Perform(u)
    <3>1. CASE lines' = Append(lines, "ok")
               /\ applied' = [applied EXCEPT ![u] = @ + 1]
      BY <2>2, <3>1
    <3>2. CASE lines' = Append(lines, "refused")
      BY <2>2, <3>2
    <3>3. QED  BY <2>3, <3>1, <3>2 DEF Perform
  <2>4. CASE PerformAndDie(u)  BY <2>4 DEF PerformAndDie
  <2>5. QED  BY <2>3, <2>4
<1>n. /\ Sent /\ ~Sent' /\ Range(todo') \subseteq Range(todo)
      /\ step \in {"read", "failed", "restart", "spawn", "blocked"}
  <2>1. todo \in Seq(Orders)  BY DEF Orders
  <2>2. /\ Head(todo) \in Range(todo) /\ Range(Tail(todo)) \subseteq Range(todo)
        /\ \A i \in DOMAIN Tail(todo) :
              i + 1 \in DOMAIN todo /\ Tail(todo)[i] = todo[i + 1] /\ i + 1 # 1
    BY <1>r, <2>1, TailOf
  <2>3. Sent /\ step \in {"read", "failed", "restart", "spawn", "blocked"}
    BY <1>r, <2>2 DEF Sent, SentOnce
  <2>4. 1 \in DOMAIN todo /\ todo[1] = "new"  BY <1>r, <2>1
  <2>5. \A i \in DOMAIN Tail(todo) : Tail(todo)[i] # "new"
    <3>1. \A i \in DOMAIN todo : todo[i] = "new" => i = 1
      BY <2>4 DEF SentOnce
    <3>2. QED  BY <2>2, <3>1
  <2>6. "new" \notin Range(Tail(todo))  BY <2>5 DEF Range
  <2>7. QED  BY <1>r, <2>2, <2>3, <2>6, EmptyRange DEF Sent
<1>1. WriterAtWork'  BY <1>r DEF WriterAtWork
<1>2. SentOnce'  BY <1>n DEF SentOnce, Sent, Range
<1>3. PerformedTwice'
  <2>1. u # NoUser /\ Attempts \in 0..2 /\ Attempts' = Attempts
    BY <1>r DEF Attempts
  <2>2. applied[u] \in Nat /\ applied[u] + 1 <= Attempts
    BY <1>n, <1>r, <2>1 DEF PerformedTwice
  <2>3. applied'[u] <= 2 /\ applied'[u] <= Attempts
    BY <1>r, <2>1, <2>2
  <2>4. applied'[u] + 0 <= Attempts  BY <1>r, <2>1, <2>2
  <2>5. QED  BY <1>n, <1>r, <2>1, <2>3, <2>4 DEF PerformedTwice
<1>4. OkIsOwn'
  <2>1. u # NoUser /\ applied[u] \in Nat  OBVIOUS
  <2>2. QED  BY <1>l, <1>r, <2>1 DEF OkIsOwn
<1>5. PipeIsClean'  BY <1>l, <1>n, <1>r DEF PipeIsClean
<1>6. QED  BY <1>1, <1>2, <1>3, <1>4, <1>5

LEMMA ChildKeeps ==
    ASSUME WriterInv, PerformPast \/ Noise \/ PythonDies
    PROVE  /\ WriterAtWork' /\ SentOnce' /\ PerformedTwice'
           /\ OkIsOwn' /\ PipeIsClean'
<1> USE DEF WriterInv, WriterTypeOK
<1>r. UNCHANGED <<job, applied, wmu, step, second, walive, wtrusted>>
  BY DEF PerformPast, Noise, PythonDies, commands, holder
<1>o. todo \in Seq(Orders) /\ lines \in Seq(Lines) /\ "old" \in Lines
  BY DEF Orders, Lines
\* Less is sent, and nothing is answered that was asked
<1>t. /\ Range(todo') \subseteq Range(todo)
      /\ \A i, j \in DOMAIN todo' :
            todo'[i] = "new" /\ todo'[j] = "new" => i = j
  <2>1. CASE PerformPast
    <3>1. /\ todo' = Tail(todo) /\ Range(todo') \subseteq Range(todo)
          /\ \A i \in DOMAIN todo' :
                i + 1 \in DOMAIN todo /\ todo'[i] = todo[i + 1] /\ i \in Int
      BY <1>o, <2>1, TailOf DEF PerformPast
    <3>2. QED  BY <3>1 DEF SentOnce
  <2>2. CASE Noise  BY <2>2 DEF Noise, SentOnce
  <2>3. CASE PythonDies  BY <2>3, EmptyRange DEF PythonDies
  <2>4. QED  BY <2>1, <2>2, <2>3
<1>l. Range(lines') \subseteq Range(lines) \cup {"old", "noise"}
  <2>1. CASE PerformPast  BY <1>o, <2>1, AppendOf DEF PerformPast
  <2>2. CASE Noise  BY <2>2 DEF Noise, Range
  <2>3. CASE PythonDies  BY <2>3 DEF PythonDies
  <2>4. QED  BY <2>1, <2>2, <2>3
<1>1. WriterAtWork'  BY <1>r DEF WriterAtWork
<1>2. SentOnce'  BY <1>r, <1>t DEF SentOnce, Sent
<1>3. PerformedTwice'
  <2>1. Sent' => Sent  BY <1>t DEF Sent
  <2>2. Attempts' = Attempts /\ Attempts \in 0..2  BY <1>r DEF Attempts
  <2>3. wmu # NoUser => applied[wmu] \in Nat  OBVIOUS
  <2>4. QED  BY <1>r, <2>1, <2>2, <2>3 DEF PerformedTwice
<1>4. OkIsOwn'  BY <1>l, <1>r DEF OkIsOwn
<1>5. PipeIsClean'
  <2>1. SUFFICES ASSUME wtrusted PROVE PipeIsClean'  BY <1>r DEF PipeIsClean
  <2>2. CASE PerformPast
    <3>1. Head(todo) = "past" /\ todo # <<>> /\ python = "up"
      BY <2>2 DEF PerformPast
    <3>2. "past" \in Range(todo)  BY <1>o, <3>1, TailOf
    <3>3. step # "read" /\ ~(step \in {"idle", "send", "started"} /\ walive)
      BY <2>1, <3>1, <3>2 DEF PipeIsClean
    <3>4. QED  BY <1>r, <3>3 DEF PipeIsClean
  <2>3. CASE Noise
    <3>1. todo # <<>> /\ python = "up" /\ lines' = <<"noise">>
      BY <2>3 DEF Noise
    <3>2. ~(step \in {"idle", "send", "started"} /\ walive)
      BY <2>1, <3>1 DEF PipeIsClean
    <3>3. "old" \notin Range(lines')  BY <3>1 DEF Range
    <3>4. QED  BY <1>r, <1>t, <2>1, <3>2, <3>3 DEF PipeIsClean
  <2>4. CASE PythonDies
    <3>1. python' = "dead" /\ lines' = lines  BY <2>4 DEF PythonDies
    <3>2. QED  BY <1>r, <1>t, <2>1, <3>1 DEF PipeIsClean
  <2>5. QED  BY <2>2, <2>3, <2>4
<1>6. QED  BY <1>1, <1>2, <1>3, <1>4, <1>5

-----------------------------------------------------------------------------
(* The theorems.                                                           *)

LEMMA WriterInitInv == WriterInit => WriterInv
<1> SUFFICES ASSUME WriterInit PROVE WriterInv  OBVIOUS
<1> USE DEF WriterInit
<1>1. WriterTypeOK
  <2>1. /\ todo \in Seq({"new", "past"})
        /\ lines \in Seq({"ok", "refused", "old", "noise"})
    OBVIOUS
  <2>2. /\ job \in [Users -> BOOLEAN] /\ applied \in [Users -> Nat]
        /\ result \in [Users -> {"none", "ok", "refused", "error"}]
    OBVIOUS
  <2>3. logged \in 0..FlushThreshold  OBVIOUS
  <2>4. QED  BY <2>1, <2>2, <2>3 DEF WriterTypeOK
<1>2. ~Sent /\ "ok" \notin Range(lines)  BY EmptyRange DEF Sent
<1>3. WriterAtWork /\ SentOnce  BY <1>2 DEF WriterAtWork, SentOnce
<1>4. PerformedTwice /\ OkIsOwn /\ PipeIsClean
  BY <1>2 DEF PerformedTwice, OkIsOwn, PipeIsClean
<1>5. QED  BY <1>1, <1>3, <1>4 DEF WriterInv

LEMMA WriterNextInv ==
    ASSUME WriterInv, [WriterNext]_writerVars
    PROVE  WriterInv'
<1>l. /\ lines \in Seq(Lines) /\ Range(lines) \subseteq Range(lines)
      /\ lines # <<>> => /\ Tail(lines) \in Seq(Lines)
                         /\ Range(Tail(lines)) \subseteq Range(lines)
  <2>1. lines \in Seq(Lines)  BY DEF WriterInv, WriterTypeOK, Lines
  <2>2. QED  BY <2>1, TailOf
<1>h. step # "idle" => wmu # NoUser  BY DEF WriterInv, WriterAtWork
<1>1. WriterTypeOK'  BY NextType DEF WriterInv
<1>2. /\ WriterAtWork' /\ SentOnce' /\ PerformedTwice' /\ OkIsOwn'
      /\ PipeIsClean'
  <2>1. CASE \E u \in Users : \/ Command(u) \/ WriteLog(u) \/ Acquire(u)
                              \/ Perform(u) \/ PerformAndDie(u)
    BY <2>1, UserKeeps, PerformKeeps
  <2>2. CASE SendCmd  BY <2>2, SendKeeps
  <2>3. CASE SendCmdFails
    BY <1>l, <2>3, AttemptKeeps DEF SendCmdFails
  <2>4. CASE ReadAnswer
    BY <1>h, <1>l, <2>4, ReturnKeeps DEF ReadAnswer
  <2>5. CASE ReadFails
    BY <1>l, <2>5, AttemptKeeps DEF ReadFails
  <2>6. CASE Restart \/ RestartFails \/ CloseWriter
    BY <2>6, ClearedKeeps
  <2>7. CASE EmitLog  BY <2>7, EmitKeeps
  <2>8. CASE GiveUp  BY <1>h, <1>l, <2>8, ReturnKeeps DEF GiveUp
  <2>9. CASE PerformPast \/ Noise \/ PythonDies  BY <2>9, ChildKeeps
  <2>10. CASE UNCHANGED writerVars
    BY <2>10 DEF writerVars, commands, holder, wire, WriterInv, WriterAtWork,
         SentOnce, Sent, PerformedTwice, Attempts, OkIsOwn, PipeIsClean
  <2>11. QED
    BY <2>1, <2>2, <2>3, <2>4, <2>5, <2>6, <2>7, <2>8, <2>9, <2>10
    DEF WriterNext
<1>3. QED  BY <1>1, <1>2 DEF WriterInv

\* One mutex, one restart and one more attempt keep commands and answers
\* together (sendCmd, sendCmdLocked, writeAndRead, restartLocked).
THEOREM WriterInvariance == WriterSpec => []WriterInv
<1>1. QED  BY WriterInitInv, WriterNextInv, PTL DEF WriterSpec

\* The caller's view of an answer
Told == [u \in Users |-> IF result[u] = "refused" THEN "error" ELSE result[u]]

CallStep == Calls!CallNext \/ UNCHANGED <<job, applied, Told, wtrusted>>

LEMMA CallTrust ==
    ASSUME WriterInv, wtrusted' \in BOOLEAN, UNCHANGED <<job, applied, result>>
    PROVE  CallStep
<1>1. Told' = Told  BY DEF Told
<1>2. CASE wtrusted' = wtrusted  BY <1>1, <1>2 DEF CallStep
<1>3. CASE wtrusted' = ~wtrusted
  BY <1>1, <1>3 DEF CallStep, Calls!CallNext, Calls!TrustChanges, Told
<1>4. QED  BY <1>2, <1>3 DEF WriterInv, WriterTypeOK

LEMMA CallStarts ==
    ASSUME WriterInv, NEW u \in Users, ~job[u], Starts(u), wtrusted' = wtrusted
    PROVE  CallStep
<1>1. Told' = [Told EXCEPT ![u] = "none"]
  BY DEF Told, Starts, WriterInv, WriterTypeOK
<1>2. Calls!Open(u)  BY <1>1 DEF Calls!Open, Starts, Told
<1>3. QED  BY <1>2 DEF CallStep, Calls!CallNext

LEMMA CallReturns ==
    ASSUME WriterInv, wmu # NoUser, NEW a \in {"ok", "refused", "error"},
           NEW left, Return(a, left),
           a = "ok" /\ wtrusted => applied[wmu] > 0
    PROVE  CallStep
<1> PICK u \in Users : u = wmu
  BY DEF WriterInv, WriterTypeOK
<1>1. /\ job[u] /\ wtrusted' \in {wtrusted, FALSE}
      /\ job' = [job EXCEPT ![u] = FALSE] /\ applied' = applied
      /\ result' = [result EXCEPT ![u] = a]
  BY DEF Return, WriterInv, WriterTypeOK, WriterAtWork
<1>2. Told' = [Told EXCEPT ![u] = IF a = "ok" THEN "ok" ELSE "error"]
  BY <1>1 DEF Told, WriterInv, WriterTypeOK
<1>3. CASE a = "ok"
  <2>1. Told' = [Told EXCEPT ![u] = "ok"]  BY <1>2, <1>3
  <2>2. wtrusted => applied[u] > 0  BY <1>3
  <2>3. Calls!Ok(u)
    BY <1>1, <2>1, <2>2 DEF Calls!Ok, Calls!Return, Told
  <2>4. QED  BY <2>3 DEF CallStep, Calls!CallNext
<1>4. CASE a # "ok"
  <2>1. Calls!Return(u, "error")
    BY <1>1, <1>2, <1>4 DEF Calls!Return, Told
  <2>2. QED  BY <2>1 DEF CallStep, Calls!CallNext
<1>5. QED  BY <1>3, <1>4

LEMMA CallAttemptFails ==
    ASSUME WriterInv, wmu # NoUser, NEW left, AttemptFails(left)
    PROVE  CallStep
<1>1. CASE second  BY <1>1, CallReturns DEF AttemptFails
<1>2. CASE ~second
  BY <1>2, CallTrust DEF AttemptFails, commands, WriterInv, WriterTypeOK
<1>3. QED  BY <1>1, <1>2

LEMMA CallPerformed ==
    ASSUME WriterInv, NEW u \in Users, Perform(u) \/ PerformAndDie(u)
    PROVE  CallStep
<1>1. /\ wmu = u /\ job[u] /\ todo # <<>> /\ Head(todo) = "new"
      /\ UNCHANGED <<job, result, wtrusted>>
      /\ applied' = [applied EXCEPT ![u] = @ + 1] \/ applied' = applied
  BY DEF Perform, PerformAndDie, holder, WriterInv, WriterAtWork
<1>2. Sent
  <2>1. todo \in Seq(Orders)  BY DEF WriterInv, WriterTypeOK, Orders
  <2>2. QED  BY <1>1, <2>1, TailOf DEF Sent
<1>3. applied[u] < 2
  <2>1. applied[u] \in Nat /\ applied[u] + 1 <= Attempts
    BY <1>1, <1>2 DEF WriterInv, WriterTypeOK, PerformedTwice
  <2>2. Attempts \in 0..2  BY DEF Attempts
  <2>3. QED  BY <2>1, <2>2
<1>4. CASE applied' = applied
  BY <1>1, <1>4, CallTrust DEF WriterInv, WriterTypeOK
<1>5. CASE applied' = [applied EXCEPT ![u] = @ + 1]
  <2>1. Told' = Told  BY <1>1 DEF Told
  <2>2. Calls!Perform(u)  BY <1>1, <1>3, <1>5, <2>1 DEF Calls!Perform, Told
  <2>3. QED  BY <2>2 DEF CallStep, Calls!CallNext
<1>6. QED  BY <1>1, <1>4, <1>5

LEMMA CallAnswered ==
    ASSUME WriterInv, ReadAnswer
    PROVE  CallStep
<1>1. step = "read" /\ lines # <<>> /\ wmu # NoUser
  BY DEF ReadAnswer, WriterInv, WriterAtWork
<1>2. Head(lines) \in Range(lines)
  <2>1. lines \in Seq(Lines)  BY DEF WriterInv, WriterTypeOK, Lines
  <2>2. QED  BY <1>1, <2>1, TailOf
<1>3. CASE Head(lines) \in {"ok", "refused"} /\ Return(Head(lines), Tail(lines))
  <2>1. Head(lines) = "ok" => applied[wmu] > 0
    BY <1>2 DEF WriterInv, OkIsOwn
  <2>2. QED  BY <1>1, <1>3, <2>1, CallReturns
<1>4. CASE /\ Head(lines) = "old"
           /\ \E a \in {"ok", "refused"} : Return(a, Tail(lines))
  <2>1. ~wtrusted  BY <1>1, <1>2, <1>4 DEF WriterInv, PipeIsClean
  <2>2. PICK a \in {"ok", "refused"} : Return(a, Tail(lines))  BY <1>4
  <2>3. QED  BY <1>1, <2>1, <2>2, CallReturns
<1>5. QED  BY <1>3, <1>4 DEF ReadAnswer

\* What the process does between a command and its end is nothing to callers
LEMMA CallSilent ==
    ASSUME WriterInv,
           \/ \E u \in Users : Acquire(u)
           \/ SendCmd \/ Restart \/ RestartFails \/ EmitLog \/ CloseWriter
           \/ PerformPast \/ Noise \/ PythonDies \/ UNCHANGED writerVars
    PROVE  CallStep
<1>1. UNCHANGED <<job, applied, result>> /\ wtrusted' \in {wtrusted, TRUE}
  <2>1. CASE \/ \E u \in Users : Acquire(u)
             \/ SendCmd \/ EmitLog \/ UNCHANGED writerVars
    BY <2>1 DEF Acquire, SendCmd, EmitLog, writerVars, commands
  <2>2. CASE Restart \/ RestartFails \/ CloseWriter
    BY <2>2 DEF Restart, RestartFails, CloseWriter, commands
  <2>3. CASE PerformPast \/ Noise \/ PythonDies
    BY <2>3 DEF PerformPast, Noise, PythonDies, commands
  <2>4. QED  BY <2>1, <2>2, <2>3
<1>2. QED  BY <1>1, CallTrust DEF WriterInv, WriterTypeOK

\* A command that is lost, repeated or left in the pipe does not make the
\* writer promise more than RemoteCall: an "ok" of a pipe that is in step means
\* that the command was performed, and none is performed more than twice.
THEOREM CallRefined == WriterSpec => ImplementsCall
<1>1. WriterInit => Calls!CallInit
  BY DEF WriterInit, Calls!CallInit
<1>2. WriterInv /\ [WriterNext]_writerVars => [Calls!CallNext]_Calls!callVars
  <2>1. SUFFICES ASSUME WriterInv, [WriterNext]_writerVars PROVE CallStep
    BY DEF CallStep, Told, Calls!callVars
  <2>2. step # "idle" => wmu # NoUser  BY <2>1 DEF WriterInv, WriterAtWork
  <2>3. ASSUME NEW u \in Users, Command(u)  PROVE CallStep
    BY <2>1, <2>3, CallStarts DEF Command
  <2>4. ASSUME NEW u \in Users, WriteLog(u)  PROVE CallStep
    <3>1. ~job[u] /\ wtrusted' = wtrusted  BY <2>4 DEF WriteLog
    <3>2. CASE Fills /\ LogTable
      BY <2>1, <2>4, <3>1, <3>2, CallStarts DEF WriteLog
    <3>3. CASE ~(Fills /\ LogTable)
      BY <2>1, <2>4, <3>3, CallTrust
      DEF WriteLog, commands, WriterInv, WriterTypeOK
    <3>4. QED  BY <3>2, <3>3
  <2>5. CASE SendCmdFails
    BY <2>1, <2>2, <2>5, CallAttemptFails DEF SendCmdFails
  <2>6. CASE ReadFails  BY <2>1, <2>2, <2>6, CallAttemptFails DEF ReadFails
  <2>7. CASE GiveUp  BY <2>1, <2>2, <2>7, CallReturns DEF GiveUp
  <2>8. QED
    BY <2>1, <2>3, <2>4, <2>5, <2>6, <2>7, CallPerformed, CallAnswered,
       CallSilent DEF WriterNext
<1>3. QED
  BY <1>1, <1>2, WriterInvariance, PTL
  DEF WriterSpec, ImplementsCall, Calls!CallSpec
=============================================================================
