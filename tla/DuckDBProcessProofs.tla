------------------------ MODULE DuckDBProcessProofs ------------------------
(***************************************************************************)
(* Theorems about DuckDBProcess, for every set of callers, every choice of *)
(* the operations they use and every capacity of the result channel.       *)
(***************************************************************************)
EXTENDS DuckDBProcessInv, TLAPS

USE DuckAssumption DEF DuckAssumption

-----------------------------------------------------------------------------
(* The queues stdin and results.                                           *)

LEMMA SeqFacts ==
    ASSUME NEW s \in Seq(Tokens)
    PROVE  /\ Len(s) \in Nat /\ DOMAIN s = 1..Len(s)
           /\ \A i \in DOMAIN s : s[i] \in Tokens
           /\ Range(s) \subseteq Tokens
           /\ s # <<>> => /\ 1 \in DOMAIN s /\ Head(s) = s[1]
                          /\ Head(s) \in Tokens /\ Tail(s) \in Seq(Tokens)
                          /\ Len(Tail(s)) = Len(s) - 1
                          /\ \A i \in DOMAIN Tail(s) :
                                i + 1 \in DOMAIN s /\ Tail(s)[i] = s[i + 1]
           /\ s = <<>> => Len(s) = 0 /\ DOMAIN s = {}
<1>1. /\ Len(s) \in Nat /\ DOMAIN s = 1..Len(s)
      /\ \A i \in DOMAIN s : s[i] \in Tokens
  OBVIOUS
<1>2. Range(s) \subseteq Tokens  BY <1>1 DEF Range
<1>3. ASSUME s # <<>>
      PROVE  /\ 1 \in DOMAIN s /\ Head(s) = s[1]
             /\ Head(s) \in Tokens /\ Tail(s) \in Seq(Tokens)
             /\ Len(Tail(s)) = Len(s) - 1
             /\ \A i \in DOMAIN Tail(s) :
                   i + 1 \in DOMAIN s /\ Tail(s)[i] = s[i + 1]
  BY <1>3
<1>4. QED  BY <1>1, <1>2, <1>3

LEMMA AppendFacts ==
    ASSUME NEW s \in Seq(Tokens), NEW r \in Tokens
    PROVE  /\ Append(s, r) \in Seq(Tokens)
           /\ DOMAIN Append(s, r) = 1..(Len(s) + 1)
           /\ Append(s, r)[Len(s) + 1] = r
           /\ \A i \in DOMAIN s : Append(s, r)[i] = s[i]
OBVIOUS

LEMMA EndedFacts ==
    ASSUME NEW s \in Seq(Tokens)
    PROVE  /\ Ended(s) \in Seq(Tokens) /\ DOMAIN Ended(s) = DOMAIN s
           /\ s = <<>> => Ended(s) = <<>>
           /\ OnlyErrors(s) => OnlyErrors(Ended(s))
<1>1. DOMAIN Ended(s) = DOMAIN s /\ DOMAIN s = 1..Len(s) /\ Len(s) \in Nat
  BY DEF Ended
<1>2. \A i \in DOMAIN s : Ended(s)[i] \in Tokens
  BY SeqFacts DEF Ended, Tokens
<1>3. Ended(s) \in Seq(Tokens)
  BY <1>1, <1>2 DEF Ended
<1>4. s = <<>> => Ended(s) = <<>>
  BY <1>1, <1>3
<1>5. OnlyErrors(s) => OnlyErrors(Ended(s))
  BY <1>1 DEF OnlyErrors, Ended
<1>6. QED  BY <1>1, <1>3, <1>4, <1>5

LEMMA RestType ==
    ASSUME DuckTypeOK
    PROVE  /\ Rest \in Seq(Tokens)
           /\ OnlyErrors(results) => OnlyErrors(Rest)
           /\ First \in Tokens \cup {"none"}
<1>1. results \in Seq(Tokens)  BY DEF DuckTypeOK
<1>2. CASE results = <<>>  BY <1>1, <1>2 DEF Rest, First
<1>3. CASE results # <<>>
  BY <1>1, <1>3, SeqFacts DEF Rest, First, OnlyErrors
<1>4. QED  BY <1>2, <1>3

LEMMA LeftoversType == ASSUME DuckTypeOK PROVE Leftovers \subseteq Tokens
<1>1. Range(Ended(stdin)) \subseteq Tokens
  BY EndedFacts, SeqFacts DEF DuckTypeOK
<1>2. QED  BY <1>1 DEF DuckTypeOK, Leftovers, Tokens

-----------------------------------------------------------------------------
(* Type correctness.                                                       *)

CallsTypeOK ==
    /\ op \in [Callers -> Operations \cup {"none"}]
    /\ outcome \in [Callers ->
                      {"none", "rows", "empty", "foreign", "ok", "error"}]
    /\ mu \in Callers \cup {Nobody}

LocalTypeOK ==
    /\ at \in {"idle", "spawn", "boot", "send", "full", "real", "mark"}
    /\ versions \in 0..2 /\ retried \in BOOLEAN
    /\ got \in {"none", "rows", "foreign"}

LEMMA InitType == DuckInit => DuckTypeOK
<1> SUFFICES ASSUME DuckInit PROVE DuckTypeOK  OBVIOUS
<1>1. stdin \in Seq(Tokens) /\ results \in Seq(Tokens)
  BY DEF DuckInit
<1>2. CallsTypeOK  BY DEF DuckInit, CallsTypeOK
<1>3. LocalTypeOK
  <2>1. retried \in BOOLEAN  BY Zenon DEF DuckInit
  <2>2. QED  BY <2>1 DEF DuckInit, LocalTypeOK
<1>4. QED  BY <1>1, <1>2, <1>3 DEF DuckInit, DuckTypeOK, CallsTypeOK, LocalTypeOK

LEMMA AnswerType ==
    ASSUME CallsTypeOK, NEW c \in Callers,
           NEW a \in {"rows", "empty", "foreign", "ok", "error"}, Answer(c, a)
    PROVE  CallsTypeOK' /\ LocalTypeOK'
<1>1. op' \in [Callers -> Operations \cup {"none"}]
  BY DEF CallsTypeOK, Answer
<1>2. outcome' \in [Callers ->
                      {"none", "rows", "empty", "foreign", "ok", "error"}]
  BY DEF CallsTypeOK, Answer
<1>3. LocalTypeOK'
  <2>1. retried' \in BOOLEAN  BY Zenon DEF Answer
  <2>2. QED  BY <2>1 DEF LocalTypeOK, Answer
<1>4. QED  BY <1>1, <1>2, <1>3 DEF CallsTypeOK, Answer

LEMMA KillType ==
    ASSUME DuckTypeOK, Kill
    PROVE  /\ alive' \in BOOLEAN
           /\ child' \in {"none", "up", "dead"} /\ reader' \in BOOLEAN
           /\ stdin' \in Seq(Tokens) /\ results' \in Seq(Tokens)
           /\ late' \subseteq Tokens /\ twin' \in BOOLEAN
           /\ trusted' \in BOOLEAN
<1>1. stdin' \in Seq(Tokens)  BY DEF Kill
<1>2. QED  BY <1>1, LeftoversType DEF Kill, DuckTypeOK

LEMMA BeginType ==
    ASSUME DuckTypeOK, NEW c \in Callers,
           Begin(c) \/ \E o \in Uses[c] : Call(c, o)
    PROVE  DuckTypeOK'
<1> USE DEF DuckTypeOK, CallsTypeOK, LocalTypeOK
<1>1. ASSUME NEW o \in Uses[c], Call(c, o) PROVE DuckTypeOK'
  <2>1. o \in Operations  OBVIOUS
  <2>2. CallsTypeOK'  BY <1>1, <2>1 DEF Call, CallsTypeOK
  <2>3. QED  BY <1>1, <2>2 DEF Call, local, flags, pipe, LocalTypeOK
<1>2. CASE Query(c)
  BY <1>2 DEF Query, Enter, CallsTypeOK, LocalTypeOK, flags, pipe
<1>3. CASE QueryStopped(c)
  BY <1>3, AnswerType DEF QueryStopped, flags, pipe
<1>4. CASE GracefulRestart(c)
  BY <1>4 DEF GracefulRestart, Enter, CallsTypeOK, LocalTypeOK, pipe
<1>5. CASE StopForUpgrade(c)
  BY <1>5, AnswerType, KillType DEF StopForUpgrade
<1>6. CASE StartAfterUpgrade(c)
  <2>1. CASE stopped
    BY <1>6, <2>1 DEF StartAfterUpgrade, Enter, CallsTypeOK, LocalTypeOK, pipe
  <2>2. CASE ~stopped
    BY <1>6, <2>2, AnswerType DEF StartAfterUpgrade, pipe
  <2>3. QED  BY <2>1, <2>2
<1>7. CASE Close(c)  BY <1>7, AnswerType, KillType DEF Close
<1>8. QED
  BY <1>1, <1>2, <1>3, <1>4, <1>5, <1>6, <1>7 DEF Begin

LEMMA FinishType ==
    ASSUME DuckTypeOK, mu \in Callers, NEW a \in {"rows", "empty", "foreign",
                                                   "error"},
           NEW left \in Seq(Tokens), Finish(a, left)
    PROVE  /\ CallsTypeOK' /\ LocalTypeOK'
           /\ stdin' \in Seq(Tokens) /\ results' \in Seq(Tokens)
           /\ trusted' \in BOOLEAN
<1>1. stdin' \in Seq(Tokens) /\ results' \in Seq(Tokens)
  BY EndedFacts DEF Finish, DuckTypeOK
<1>2. trusted' \in BOOLEAN  BY DEF Finish, DuckTypeOK
<1>3. CASE versions > 0
  <2>1. versions' \in 0..2 /\ got' = "none"
    BY <1>3 DEF Finish, DuckTypeOK
  <2>2. CASE versions = 1 /\ op[mu] # "query"
    <3>1. /\ op' = [op EXCEPT ![mu] = "none"]
          /\ outcome' = [outcome EXCEPT ![mu] = "ok"]
          /\ mu' = Nobody /\ at' = "idle" /\ retried' = FALSE
      BY <1>3, <2>2 DEF Finish
    <3>2. QED
      BY <1>1, <1>2, <2>1, <3>1 DEF DuckTypeOK, CallsTypeOK, LocalTypeOK
  <2>3. CASE ~(versions = 1 /\ op[mu] # "query")
    <3>1. at' = "send" /\ UNCHANGED <<calls, retried>>
      BY <1>3, <2>3 DEF Finish
    <3>2. QED
      BY <1>1, <1>2, <2>1, <3>1
      DEF DuckTypeOK, CallsTypeOK, LocalTypeOK, calls
  <2>4. QED  BY <2>2, <2>3
<1>4. CASE ~(versions > 0) /\ a = "error" /\ ~retried
  BY <1>1, <1>2, <1>4
  DEF Finish, DuckTypeOK, CallsTypeOK, LocalTypeOK, calls
<1>5. CASE ~(versions > 0) /\ ~(a = "error" /\ ~retried)
  <2>1. Answer(mu, a)  BY <1>5 DEF Finish
  <2>2. CallsTypeOK  BY DEF DuckTypeOK, CallsTypeOK
  <2>3. QED  BY <1>1, <1>2, <2>1, <2>2, AnswerType
<1>6. QED  BY <1>1, <1>2, <1>3, <1>4, <1>5

LEMMA HolderType ==
    ASSUME DuckTypeOK, HolderAtWork, GotIsLocal, HolderStep
    PROVE  DuckTypeOK'
<1>0. at # "idle" => mu \in Callers
  BY DEF HolderAtWork, DuckTypeOK
<1>1. CASE Spawn
  <2>1. stdin' \in Seq(Tokens) /\ results' \in Seq(Tokens)
    <3>1. "boot" \in Tokens  BY DEF Tokens
    <3>2. <<"boot">> \in Seq(Tokens)  BY <3>1
    <3>3. QED  BY <1>1, <3>2 DEF Spawn
  <2>2. QED  BY <1>1, <2>1, LeftoversType DEF Spawn, DuckTypeOK, calls
<1>2. CASE SpawnFails
  BY <1>0, <1>2, AnswerType, KillType
  DEF SpawnFails, DuckTypeOK, CallsTypeOK, LocalTypeOK
<1>3. CASE Boot
  BY <1>3, RestType DEF Boot, DuckTypeOK, calls, flags
<1>4. CASE BootFails
  BY <1>0, <1>4, AnswerType, KillType
  DEF BootFails, DuckTypeOK, CallsTypeOK, LocalTypeOK
<1>5. CASE Send
  <2>1. stdin' \in Seq(Tokens)
    <3>1. <<"row", "mark">> \in Seq(Tokens)  BY DEF Tokens
    <3>2. QED  BY <1>5, <3>1 DEF Send, DuckTypeOK
  <2>2. QED  BY <1>5, <2>1 DEF Send, DuckTypeOK, calls, flags
<1>w. CASE SendWaits
  BY <1>w DEF SendWaits, DuckTypeOK, calls, flags, pipe
<1>6. ASSUME at # "idle", NEW left \in Seq(Tokens), Fail(left)
      PROVE  DuckTypeOK'
  <2>1. alive' \in BOOLEAN  BY <1>6 DEF Fail, DuckTypeOK
  <2>2. QED  BY <1>0, <1>6, <2>1, FinishType
    DEF Fail, DuckTypeOK, CallsTypeOK, LocalTypeOK
<1>7. CASE SendFails
  BY <1>6, <1>7 DEF SendFails, DuckTypeOK
<1>8. CASE ReadResult
  BY <1>8, RestType DEF ReadResult, DuckTypeOK, calls, flags
<1>9. CASE ReadMarkerFirst
  BY <1>0, <1>9, RestType, FinishType
  DEF ReadMarkerFirst, flags, DuckTypeOK, CallsTypeOK, LocalTypeOK
<1>10. CASE ReadError
  BY <1>6, <1>10, RestType DEF ReadError
<1>11. CASE ReadTimeout
  BY <1>6, <1>11 DEF ReadTimeout, DuckTypeOK
<1>12. at = "mark" => got \in {"rows", "foreign"}
  BY DEF GotIsLocal, DuckTypeOK
<1>13. CASE ReadMarker
  BY <1>0, <1>12, <1>13, RestType, FinishType
  DEF ReadMarker, flags, DuckTypeOK, CallsTypeOK, LocalTypeOK
<1>14. CASE MarkerFails
  BY <1>0, <1>12, <1>14, RestType, FinishType
  DEF MarkerFails, DuckTypeOK, CallsTypeOK, LocalTypeOK
<1>15. QED
  BY <1>1, <1>2, <1>3, <1>4, <1>5, <1>w, <1>7, <1>8, <1>9, <1>10, <1>11, <1>13,
     <1>14 DEF HolderStep

LEMMA PushType ==
    ASSUME DuckTypeOK, NEW r \in Tokens, Push(r)
    PROVE  results' \in Seq(Tokens)
BY AppendFacts DEF Push, DuckTypeOK

LEMMA OutsideType ==
    ASSUME DuckTypeOK, OutsideStep
    PROVE  DuckTypeOK'
<1> USE DEF DuckTypeOK, beside, calls, local, flags
<1>0. stdin # <<>> => Head(stdin) \in Tokens /\ Tail(stdin) \in Seq(Tokens)
  BY SeqFacts DEF DuckTypeOK
<1>e. "err" \in Tokens  BY DEF Tokens
<1>w. CASE SendGoesOn
  <2>1. <<"row", "mark">> \in Seq(Tokens)  BY DEF Tokens
  <2>2. stdin' \in Seq(Tokens)  BY <1>w, <2>1 DEF SendGoesOn
  <2>3. QED  BY <1>w, <2>2 DEF SendGoesOn
<1>1. CASE Deliver  BY <1>0, <1>1, PushType DEF Deliver
<1>2. CASE StatementFails  BY <1>0, <1>2 DEF StatementFails
<1>3. CASE Torn  BY <1>0, <1>e, <1>3, PushType DEF Torn
<1>4. CASE ChildDies  BY <1>4 DEF ChildDies
<1>5. CASE ReaderEnds  BY <1>e, <1>5, PushType DEF ReaderEnds
<1>6. ASSUME NEW r \in {"old", "mark", "err"}, LateReader(r) PROVE DuckTypeOK'
  <2>1. r \in Tokens  BY DEF Tokens
  <2>2. results' \in Seq(Tokens)  BY <1>6, <2>1, PushType DEF LateReader
  <2>3. late' \subseteq Tokens  BY <1>6 DEF LateReader
  <2>4. twin' \in BOOLEAN /\ trusted' \in BOOLEAN  BY <1>6 DEF LateReader
  <2>5. QED  BY <1>6, <2>2, <2>3, <2>4 DEF LateReader
<1>7. QED  BY <1>w, <1>1, <1>2, <1>3, <1>4, <1>5, <1>6 DEF OutsideStep

-----------------------------------------------------------------------------
(* How the calls end: Finish.                                              *)

Outcomes == {"rows", "empty", "foreign", "error"}
InStatement == at \in {"send", "full", "real", "mark"}

\* The end of a version query or of a statement leaves mutex, program counter
\* and version queries in agreement
LEMMA FinishControl ==
    ASSUME DuckTypeOK, HolderAtWork, InStatement, NEW a \in Outcomes,
           NEW left \in Seq(Tokens), Finish(a, left),
           UNCHANGED <<stopped, child>>, alive' => alive
    PROVE  HolderAtWork' /\ GotIsLocal' /\ GotIsOwn' /\ VersionsInStart'
<1> USE DEF Outcomes, InStatement
<1>0. mu \in Callers /\ versions \in 0..2 /\ child # "none" /\ ~stopped
      /\ op[mu] # "none" /\ outcome[mu] = "none" /\ mu # Nobody
  BY DEF HolderAtWork, DuckTypeOK
<1>o. \A c \in Callers : op[c] # "none" => outcome[c] = "none"
  BY DEF HolderAtWork
<1>t. /\ op \in [Callers -> Operations \cup {"none"}]
      /\ DOMAIN outcome = Callers
  BY DEF DuckTypeOK
<1>1. CASE versions > 0
  <2>1. got' = "none" /\ versions' = versions - 1  BY <1>1 DEF Finish
  <2>2. CASE versions = 1 /\ op[mu] # "query"
    <3>1. /\ op' = [op EXCEPT ![mu] = "none"]
          /\ outcome' = [outcome EXCEPT ![mu] = "ok"]
          /\ mu' = Nobody /\ at' = "idle"
      BY <1>1, <2>2 DEF Finish
    <3>2. \A c \in Callers : op'[c] # "none" => outcome'[c] = "none"
      BY <3>1, <1>o, <1>t
    <3>3. QED
      BY <1>0, <2>1, <2>2, <3>1, <3>2
      DEF HolderAtWork, GotIsLocal, GotIsOwn, VersionsInStart
  <2>3. CASE ~(versions = 1 /\ op[mu] # "query")
    <3>1. at' = "send" /\ UNCHANGED calls
      BY <1>1, <2>3 DEF Finish
    <3>2. op' = op /\ outcome' = outcome /\ mu' = mu
      BY <3>1 DEF calls
    <3>3. HolderAtWork'
      BY <1>0, <3>1, <3>2 DEF HolderAtWork
    <3>4. VersionsInStart'
      BY <1>0, <1>1, <2>1, <2>3, <3>1, <3>2 DEF VersionsInStart
    <3>5. QED  BY <2>1, <3>1, <3>3, <3>4 DEF GotIsLocal, GotIsOwn
  <2>4. QED  BY <2>2, <2>3
<1>2. CASE ~(versions > 0) /\ a = "error" /\ ~retried
  <2>1. at' = "spawn" /\ got' = "none" /\ UNCHANGED <<calls, versions>>
    BY <1>2 DEF Finish
  <2>2. HolderAtWork'
    BY <1>0, <2>1 DEF HolderAtWork, calls
  <2>3. QED
    BY <1>0, <1>2, <2>1, <2>2 DEF GotIsLocal, GotIsOwn, VersionsInStart
<1>3. CASE ~(versions > 0) /\ ~(a = "error" /\ ~retried)
  <2>1. Answer(mu, a)  BY <1>3 DEF Finish
  <2>2. \A c \in Callers : op'[c] # "none" => outcome'[c] = "none"
    BY <2>1, <1>o, <1>t DEF Answer
  <2>3. QED
    BY <2>1, <2>2, <1>0
    DEF Answer, HolderAtWork, GotIsLocal, GotIsOwn, VersionsInStart
<1>4. QED  BY <1>1, <1>2, <1>3

\* If nothing is owed to a statement that ends, the pipe is quiet, and if
\* something is, this is noted or the process is not used again
LEMMA FinishPipe ==
    ASSUME DuckTypeOK, InStatement, NEW a \in Outcomes,
           NEW left \in Seq(Tokens), Finish(a, left), child' = child
    PROVE  PipeInStep'
<1> USE DEF Outcomes, InStatement
<1>1. at' \in {"send", "idle", "spawn"} /\ (at' = "send" => versions > 0)
  <2>1. CASE versions > 0
    <3>1. CASE versions = 1 /\ op[mu] # "query"
      BY <2>1, <3>1 DEF Finish
    <3>2. CASE ~(versions = 1 /\ op[mu] # "query")
      BY <2>1, <3>2 DEF Finish
    <3>3. QED  BY <3>1, <3>2
  <2>2. CASE ~(versions > 0) /\ a = "error" /\ ~retried
    BY <2>2 DEF Finish
  <2>3. CASE ~(versions > 0) /\ ~(a = "error" /\ ~retried)
    BY <2>3 DEF Finish, Answer
  <2>4. QED  BY <2>1, <2>2, <2>3
<1>2. SUFFICES ASSUME trusted', InUse'
               PROVE  at' \in {"idle", "send"} /\ QuietPipe'
  BY <1>1 DEF PipeInStep
<1>3. child = "up" /\ at' \in {"idle", "send"}
  BY <1>1, <1>2 DEF InUse
<1>4. ~Owed(stdin, left)
  <2>1. Owed(stdin, left) => versions = 0 /\ ~alive'
    BY <1>2 DEF Finish
  <2>2. at' = "idle" => alive'  BY <1>2 DEF InUse
  <2>3. QED  BY <1>1, <1>3, <2>1, <2>2
<1>5. stdin = <<>> /\ OnlyErrors(left)
  BY <1>3, <1>4 DEF Owed, OnlyErrors
<1>6. stdin' = <<>> /\ OnlyErrors(results')
  BY <1>5, EndedFacts DEF Finish, DuckTypeOK
<1>7. QED  BY <1>3, <1>6 DEF QuietPipe, OnlyErrors

-----------------------------------------------------------------------------
(* The first steps of the calls.                                           *)

LEMMA BeginControl ==
    ASSUME DuckInv, NEW c \in Callers,
           Begin(c) \/ \E o \in Uses[c] : Call(c, o)
    PROVE  /\ HolderAtWork' /\ SafeToReplace' /\ GotIsLocal' /\ GotIsOwn'
           /\ VersionsInStart' /\ TwinIsNoted'
<1> USE DEF DuckInv
<1>h. /\ op \in [Callers -> Operations \cup {"none"}]
      /\ DOMAIN outcome = Callers /\ c # Nobody
      /\ \A d \in Callers : op[d] # "none" => outcome[d] = "none"
  BY DEF DuckTypeOK, HolderAtWork
<1>1. ASSUME NEW o \in Uses[c], Call(c, o)
      PROVE  /\ HolderAtWork' /\ SafeToReplace' /\ GotIsLocal' /\ GotIsOwn'
             /\ VersionsInStart' /\ TwinIsNoted'
  <2>1. /\ mu' = mu /\ at' = at /\ versions' = versions /\ got' = got
        /\ stopped' = stopped /\ alive' = alive /\ child' = child
        /\ twin' = twin /\ trusted' = trusted
    BY <1>1 DEF Call, local, flags, pipe
  <2>2. op[c] = "none" /\ op' = [op EXCEPT ![c] = o]
        /\ outcome' = [outcome EXCEPT ![c] = "none"]
    BY <1>1 DEF Call
  <2>3. \A d \in Callers : op'[d] # "none" => outcome'[d] = "none"
    BY <1>h, <2>2
  <2>4. mu # Nobody => mu \in Callers /\ mu # c
    BY <2>2 DEF HolderAtWork, DuckTypeOK
  <2>5. mu # Nobody => op'[mu] = op[mu] /\ outcome'[mu] = outcome[mu]
    BY <1>h, <2>2, <2>4
  <2>6. HolderAtWork'
    BY <2>1, <2>3, <2>5 DEF HolderAtWork
  <2>7. VersionsInStart'
    BY <2>1, <2>5 DEF VersionsInStart, HolderAtWork
  <2>8. QED
    BY <2>1, <2>6, <2>7
    DEF SafeToReplace, GotIsLocal, GotIsOwn, TwinIsNoted
\* With a free mutex there is no first result and no version query
<1>f. mu = Nobody => at = "idle" /\ got = "none" /\ versions = 0
  BY DEF HolderAtWork, GotIsLocal, VersionsInStart, DuckTypeOK
<1>2. ASSUME NEW where \in {"send", "spawn"}, Enter(c, where), mu = Nobody,
             op[c] \in {"query", "restart", "start"}, ~stopped',
             UNCHANGED <<versions, got, child, twin, trusted>>,
             alive' => alive,
             where = "send" => child # "none" /\ op[c] = "query"
      PROVE  /\ HolderAtWork' /\ SafeToReplace' /\ GotIsLocal' /\ GotIsOwn'
             /\ VersionsInStart' /\ TwinIsNoted'
  <2>1. mu' = c /\ at' = where /\ op' = op /\ outcome' = outcome
    BY <1>2 DEF Enter
  <2>2. HolderAtWork'  BY <1>h, <1>2, <2>1 DEF HolderAtWork
  <2>3. QED
    BY <1>f, <1>2, <2>1, <2>2
    DEF SafeToReplace, GotIsLocal, GotIsOwn, VersionsInStart, TwinIsNoted
<1>3. ASSUME NEW a, Answer(c, a), alive' => child' # "none"
      PROVE  HolderAtWork' /\ GotIsLocal' /\ GotIsOwn' /\ VersionsInStart'
  <2>1. \A d \in Callers : op'[d] # "none" => outcome'[d] = "none"
    BY <1>h, <1>3 DEF Answer
  <2>2. QED
    BY <1>3, <2>1
    DEF Answer, HolderAtWork, GotIsLocal, GotIsOwn, VersionsInStart
<1>4. CASE Query(c)
  <2>1. CASE alive
    BY <1>2, <1>4, <2>1
    DEF Query, Waits, flags, pipe, HolderAtWork
  <2>2. CASE ~alive
    BY <1>2, <1>4, <2>2 DEF Query, Waits, flags, pipe
  <2>3. QED  BY <2>1, <2>2
<1>5. CASE QueryStopped(c)
  BY <1>3, <1>5
  DEF QueryStopped, flags, pipe, SafeToReplace, TwinIsNoted, HolderAtWork
<1>6. CASE GracefulRestart(c)
  BY <1>2, <1>6 DEF GracefulRestart, Waits, pipe
<1>7. CASE StopForUpgrade(c)
  BY <1>3, <1>7 DEF StopForUpgrade, Kill, SafeToReplace, TwinIsNoted
<1>8. CASE StartAfterUpgrade(c)
  <2>1. CASE stopped
    BY <1>2, <1>8, <2>1 DEF StartAfterUpgrade, Waits, pipe
  <2>2. CASE ~stopped
    BY <1>3, <1>8, <2>2
    DEF StartAfterUpgrade, pipe, SafeToReplace, TwinIsNoted, HolderAtWork
  <2>3. QED  BY <2>1, <2>2
<1>9. CASE Close(c)
  BY <1>3, <1>9 DEF Close, Kill, SafeToReplace, TwinIsNoted
<1>10. QED
  BY <1>1, <1>4, <1>5, <1>6, <1>7, <1>8, <1>9 DEF Begin

LEMMA BeginPipe ==
    ASSUME DuckInv, NEW c \in Callers,
           Begin(c) \/ \E o \in Uses[c] : Call(c, o)
    PROVE  PipeInStep'
<1> USE DEF DuckInv
<1>1. ASSUME UNCHANGED <<trusted, alive, child, at, stdin, results>>
      PROVE  PipeInStep'
  BY <1>1
  DEF PipeInStep, InUse, QuietPipe, BootPipe, StatementPipe, OnlyErrors,
      RowFirst, AtMostOne
<1>2. mu = Nobody => at = "idle"
  BY DEF HolderAtWork
<1>3. ASSUME at' = "spawn" \/ (child' = "none" /\ at' = "idle")
      PROVE  PipeInStep'
  BY <1>3 DEF PipeInStep, InUse
<1>4. ASSUME NEW o \in Uses[c], Call(c, o) PROVE PipeInStep'
  BY <1>1, <1>4 DEF Call, local, flags, pipe
<1>5. CASE Query(c)
  <2>1. CASE alive
    <3>1. /\ at = "idle" /\ at' = "send"
          /\ UNCHANGED <<trusted, alive, child, stdin, results>>
      BY <1>2, <1>5, <2>1 DEF Query, Waits, Enter, flags, pipe
    <3>2. trusted' /\ InUse' => trusted /\ InUse
      BY <2>1, <3>1 DEF InUse
    <3>3. QED
      BY <3>1, <3>2 DEF PipeInStep, QuietPipe, OnlyErrors
  <2>2. CASE ~alive  BY <1>3, <1>5, <2>2 DEF Query, Enter
  <2>3. QED  BY <2>1, <2>2
<1>6. CASE QueryStopped(c)
  BY <1>1, <1>2, <1>6 DEF QueryStopped, Waits, Answer, flags, pipe
<1>7. CASE GracefulRestart(c)  BY <1>3, <1>7 DEF GracefulRestart, Enter
<1>8. CASE StopForUpgrade(c)  BY <1>3, <1>8 DEF StopForUpgrade, Kill, Answer
<1>9. CASE StartAfterUpgrade(c)
  <2>1. CASE stopped  BY <1>3, <1>9, <2>1 DEF StartAfterUpgrade, Enter
  <2>2. CASE ~stopped
    BY <1>1, <1>2, <1>9, <2>2 DEF StartAfterUpgrade, Waits, Answer, pipe
  <2>3. QED  BY <2>1, <2>2
<1>10. CASE Close(c)  BY <1>3, <1>10 DEF Close, Kill, Answer
<1>11. QED
  BY <1>4, <1>5, <1>6, <1>7, <1>8, <1>9, <1>10 DEF Begin

-----------------------------------------------------------------------------
(* The steps of the holder.                                                *)

\* While a statement is awaited in step, the first result is its row, its
\* marker after which no row comes, or an error
LEMMA FirstIsOwn ==
    ASSUME DuckTypeOK, PipeInStep, trusted, at = "real"
    PROVE  /\ First # "old"
           /\ First = "mark" => "row" \notin Range(stdin) \cup Range(results)
<1>1. StatementPipe  BY DEF PipeInStep, InUse
<1>2. stdin \in Seq(Tokens) /\ results \in Seq(Tokens)  BY DEF DuckTypeOK
<1>3. results # <<>> => First = results[1] /\ 1 \in DOMAIN results
  BY <1>2, SeqFacts DEF First
<1>4. results = <<>> => First = "none"  BY DEF First
<1>5. CASE stdin = <<"row", "mark">> /\ OnlyErrors(results)
  BY <1>3, <1>4, <1>5 DEF OnlyErrors
<1>6. CASE stdin = <<"mark">> /\ Range(results) \subseteq {"row", "err"}
  BY <1>3, <1>4, <1>6 DEF Range
<1>7. CASE /\ stdin = <<>> /\ RowFirst(results)
           /\ Range(results) \subseteq {"row", "mark", "err"}
  <2>1. First # "old"  BY <1>3, <1>4, <1>7 DEF Range
  <2>2. Range(stdin) = {}  BY <1>2, <1>7, SeqFacts DEF Range
  <2>3. ASSUME First = "mark", NEW j \in DOMAIN results, results[j] = "row"
        PROVE  FALSE
    <3>1. 1 \in DOMAIN results /\ results[1] = "mark"
      BY <1>3, <1>4, <2>3
    <3>2. j < 1  BY <1>7, <2>3, <3>1 DEF RowFirst
    <3>3. j \in 1..Len(results) /\ Len(results) \in Nat
      BY <1>2, SeqFacts
    <3>4. QED  BY <3>2, <3>3
  <2>4. QED  BY <2>1, <2>2, <2>3 DEF Range
<1>8. QED  BY <1>1, <1>5, <1>6, <1>7 DEF StatementPipe

LEMMA HolderKeeps ==
    ASSUME DuckInv, HolderStep
    PROVE  /\ HolderAtWork' /\ SafeToReplace' /\ GotIsLocal' /\ GotIsOwn'
           /\ VersionsInStart' /\ TwinIsNoted' /\ PipeInStep'
<1> USE DEF DuckInv
<1> DEFINE Kept == /\ HolderAtWork' /\ SafeToReplace' /\ GotIsLocal'
                   /\ GotIsOwn' /\ VersionsInStart' /\ TwinIsNoted'
                   /\ PipeInStep'
<1>h. at # "idle" => /\ mu \in Callers /\ mu # Nobody /\ ~stopped
                     /\ op[mu] \in {"query", "restart", "start"}
                     /\ outcome[mu] = "none"
  BY DEF HolderAtWork, DuckTypeOK
<1>c. /\ op \in [Callers -> Operations \cup {"none"}]
      /\ DOMAIN outcome = Callers
      /\ \A c \in Callers : op[c] # "none" => outcome[c] = "none"
  BY DEF DuckTypeOK, HolderAtWork
<1>r. /\ results \in Seq(Tokens) /\ Rest \in Seq(Tokens)
      /\ First \in Tokens \cup {"none"}
  BY RestType DEF DuckTypeOK
\* A call that fails to start DuckDB
<1>1. ASSUME at \in {"spawn", "boot"}, Kill, Answer(mu, "error"),
             UNCHANGED stopped
      PROVE  Kept
  <2>1. \A c \in Callers : op'[c] # "none" => outcome'[c] = "none"
    BY <1>c, <1>1, <1>h DEF Answer
  <2>2. HolderAtWork'
    BY <1>1, <2>1 DEF Kill, Answer, HolderAtWork
  <2>3. PipeInStep'  BY <1>1 DEF Kill, Answer, PipeInStep, InUse
  <2>4. QED
    BY <1>1, <2>2, <2>3
    DEF Kill, Answer, SafeToReplace, GotIsLocal, GotIsOwn, VersionsInStart,
        TwinIsNoted
<1>2. CASE Spawn
  <2>1. /\ at' = "boot" /\ UNCHANGED <<op, outcome, mu, versions, got, stopped>>
        /\ child' = "up" /\ twin' = FALSE /\ alive' = TRUE
        /\ stdin' = <<"boot">> /\ results' = <<>>
    BY <1>2 DEF Spawn, calls
  <2>2. at = "spawn"  BY <1>2 DEF Spawn
  <2>3. HolderAtWork'  BY <1>h, <1>c, <2>1, <2>2 DEF HolderAtWork
  <2>4. PipeInStep'
    BY <2>1 DEF PipeInStep, BootPipe, OnlyErrors
  <2>5. versions = 0
    BY <2>2 DEF VersionsInStart, DuckTypeOK
  <2>6. QED
    BY <1>h, <2>1, <2>2, <2>3, <2>4, <2>5
    DEF SafeToReplace, GotIsLocal, GotIsOwn, VersionsInStart, TwinIsNoted
<1>3. CASE SpawnFails  BY <1>1, <1>3 DEF SpawnFails
<1>4. CASE BootFails  BY <1>1, <1>4 DEF BootFails
\* The verification query is answered
<1>5. CASE Boot
  <2>1. /\ at = "boot" /\ at' = "send" /\ versions' = 2 /\ results' = Rest
        /\ UNCHANGED <<op, outcome, mu, got, stopped, alive, child, stdin,
                       twin, trusted>>
        /\ First = "boot"
    BY <1>5 DEF Boot, calls, flags
  <2>2. HolderAtWork'
    BY <1>h, <1>c, <2>1 DEF HolderAtWork
  <2>3. ASSUME trusted', InUse' PROVE QuietPipe'
    <3>1. BootPipe  BY <2>1, <2>3 DEF PipeInStep, InUse
    <3>2. results # <<>> /\ results[1] = "boot" /\ 1 \in DOMAIN results
      BY <1>r, <2>1, SeqFacts DEF First
    <3>3. stdin = <<>> /\ AtMostOne("boot", results)
          /\ Range(results) \subseteq {"boot", "err"}
      BY <3>1, <3>2 DEF BootPipe, OnlyErrors
    <3>4. ASSUME NEW i \in DOMAIN Tail(results)
          PROVE  Tail(results)[i] = "err"
      <4>1. i + 1 \in DOMAIN results /\ Tail(results)[i] = results[i + 1]
            /\ i \in 1..Len(Tail(results)) /\ Len(Tail(results)) \in Nat
        BY <1>r, <3>2, <3>4, SeqFacts
      <4>2. i + 1 # 1  BY <4>1
      <4>3. results[i + 1] # "boot"
        BY <3>2, <3>3, <4>1, <4>2 DEF AtMostOne
      <4>4. QED  BY <3>3, <4>1, <4>3 DEF Range
    <3>5. QED  BY <2>1, <3>2, <3>3, <3>4 DEF QuietPipe, OnlyErrors, Rest
  <2>4. PipeInStep'
    BY <2>1, <2>3 DEF PipeInStep
  <2>5. QED
    BY <2>1, <2>2, <2>4
    DEF SafeToReplace, GotIsLocal, GotIsOwn, VersionsInStart, TwinIsNoted
<1>6. CASE Send
  <2>1. /\ at = "send" /\ at' = "real" /\ child = "up"
        /\ stdin' = stdin \o <<"row", "mark">>
        /\ UNCHANGED <<op, outcome, mu, versions, got, stopped, alive, child,
                       results, twin, trusted>>
    BY <1>6 DEF Send, calls, flags
  <2>2. HolderAtWork'
    BY <1>h, <1>c, <2>1 DEF HolderAtWork
  <2>3. ASSUME trusted', InUse' PROVE StatementPipe'
    <3>1. QuietPipe  BY <2>1, <2>3 DEF PipeInStep, InUse
    <3>2. stdin' = <<"row", "mark">>  BY <2>1, <3>1 DEF QuietPipe
    <3>3. QED  BY <2>1, <3>1, <3>2 DEF QuietPipe, StatementPipe, OnlyErrors
  <2>4. PipeInStep'
    BY <2>1, <2>3 DEF PipeInStep
  <2>5. QED
    BY <2>1, <2>2, <2>4
    DEF SafeToReplace, GotIsLocal, GotIsOwn, VersionsInStart, TwinIsNoted
<1>w. CASE SendWaits
  <2>1. /\ at = "send" /\ at' = "full" /\ child = "up" /\ versions = 0
        /\ UNCHANGED <<op, outcome, mu, versions, got, stopped, alive, child,
                       stdin, results, twin, trusted>>
    BY <1>w DEF SendWaits, calls, flags, pipe
  <2>2. HolderAtWork'
    BY <1>h, <1>c, <2>1 DEF HolderAtWork
  <2>3. InUse' => InUse  BY <2>1 DEF InUse
  <2>4. PipeInStep'
    BY <2>1, <2>3 DEF PipeInStep, QuietPipe, OnlyErrors
  <2>5. op[mu] = "query"  BY <2>1 DEF VersionsInStart
  <2>6. QED
    BY <2>1, <2>2, <2>4, <2>5
    DEF SafeToReplace, GotIsLocal, GotIsOwn, VersionsInStart, TwinIsNoted
<1>7. CASE ReadResult
  <2>1. /\ at = "real" /\ at' = "mark"
        /\ got' = IF First = "row" THEN "rows" ELSE "foreign"
        /\ First \in {"row", "old"}
        /\ UNCHANGED <<op, outcome, mu, versions, stopped, alive, child, stdin,
                       twin, trusted>>
    BY <1>7 DEF ReadResult, calls, flags
  <2>2. HolderAtWork'
    BY <1>h, <1>c, <2>1 DEF HolderAtWork
  <2>3. GotIsOwn'  BY <2>1, FirstIsOwn DEF GotIsOwn
  <2>4. PipeInStep'
    BY <2>1 DEF PipeInStep
  <2>5. QED
    BY <2>1, <2>2, <2>3, <2>4
    DEF SafeToReplace, GotIsLocal, VersionsInStart, TwinIsNoted
\* The steps that end a version query or a statement
<1>8. ASSUME InStatement, NEW a \in Outcomes, NEW left \in Seq(Tokens),
             Finish(a, left), UNCHANGED <<stopped, child, twin>>,
             alive' => alive
      PROVE  Kept
  <2>1. HolderAtWork' /\ GotIsLocal' /\ GotIsOwn' /\ VersionsInStart'
    BY <1>8, FinishControl
  <2>2. PipeInStep'  BY <1>8, FinishPipe
  <2>3. SafeToReplace'  BY <1>8 DEF SafeToReplace
  <2>4. trusted' => trusted  BY <1>8 DEF Finish
  <2>5. TwinIsNoted'  BY <1>8, <2>4 DEF TwinIsNoted
  <2>6. QED  BY <2>1, <2>2, <2>3, <2>5
<1>9. ASSUME InStatement, NEW left \in Seq(Tokens), Fail(left) PROVE Kept
  BY <1>8, <1>9 DEF Fail, Outcomes
<1>10. CASE SendFails  BY <1>9, <1>10, <1>r DEF SendFails, InStatement
<1>11. CASE ReadMarkerFirst
  BY <1>8, <1>11, <1>r DEF ReadMarkerFirst, InStatement, Outcomes, flags
<1>12. CASE ReadError  BY <1>9, <1>12, <1>r DEF ReadError, InStatement
<1>13. CASE ReadTimeout  BY <1>9, <1>13, <1>r DEF ReadTimeout, InStatement
<1>14. at = "mark" => got \in Outcomes
  BY DEF GotIsLocal, DuckTypeOK, Outcomes
<1>15. CASE ReadMarker
  BY <1>8, <1>14, <1>15, <1>r DEF ReadMarker, InStatement, flags
<1>16. CASE MarkerFails
  BY <1>8, <1>14, <1>16, <1>r DEF MarkerFails, InStatement
<1>17. QED
  BY <1>2, <1>3, <1>4, <1>5, <1>6, <1>w, <1>7, <1>10, <1>11, <1>12, <1>13, <1>15,
     <1>16 DEF HolderStep

-----------------------------------------------------------------------------
(* The child and the readers.                                              *)

LEMMA AppendRange ==
    ASSUME NEW s \in Seq(Tokens), NEW r \in Tokens
    PROVE  Range(Append(s, r)) \subseteq Range(s) \cup {r}
<1>1. ASSUME NEW i \in DOMAIN Append(s, r)
      PROVE  Append(s, r)[i] \in Range(s) \cup {r}
  <2>1. i \in DOMAIN s \/ i = Len(s) + 1
    BY AppendFacts, SeqFacts
  <2>2. QED  BY <2>1, AppendFacts DEF Range
<1>2. QED  BY <1>1 DEF Range

LEMMA AppendRowFirst ==
    ASSUME NEW s \in Seq(Tokens), NEW r \in Tokens, RowFirst(s), r # "row"
    PROVE  RowFirst(Append(s, r))
<1> DEFINE t == Append(s, r)
<1>1. SUFFICES ASSUME NEW i \in DOMAIN t, NEW j \in DOMAIN t,
                      t[i] = "mark", t[j] = "row"
               PROVE  j < i
  BY DEF RowFirst
<1>2. /\ Len(s) \in Nat /\ DOMAIN s = 1..Len(s) /\ DOMAIN t = 1..(Len(s) + 1)
      /\ t[Len(s) + 1] = r /\ \A k \in DOMAIN s : t[k] = s[k]
  BY AppendFacts, SeqFacts
<1>3. j \in DOMAIN s /\ s[j] = "row"  BY <1>1, <1>2
<1>4. CASE i \in DOMAIN s  BY <1>1, <1>2, <1>3, <1>4 DEF RowFirst
<1>5. CASE i \notin DOMAIN s  BY <1>2, <1>3, <1>5
<1>6. QED  BY <1>4, <1>5

\* What has only rows and errors has no marker before a row
LEMMA NoMarkRowFirst ==
    ASSUME NEW s, Range(s) \subseteq {"row", "err"}
    PROVE  RowFirst(s)
BY DEF Range, RowFirst

LEMMA ErrorsRange ==
    ASSUME NEW s, OnlyErrors(s)
    PROVE  Range(s) \subseteq {"err"}
BY DEF Range, OnlyErrors

LEMMA RangeErrors ==
    ASSUME NEW s, Range(s) \subseteq {"err"}
    PROVE  OnlyErrors(s)
BY DEF Range, OnlyErrors

LEMMA AppendAtMostOne ==
    ASSUME NEW s \in Seq(Tokens), NEW r \in Tokens,
           \/ AtMostOne("boot", s) /\ r # "boot"
           \/ "boot" \notin Range(s)
    PROVE  AtMostOne("boot", Append(s, r))
<1> DEFINE t == Append(s, r)
<1>1. SUFFICES ASSUME NEW i \in DOMAIN t, NEW j \in DOMAIN t,
                      t[i] = "boot", t[j] = "boot"
               PROVE  i = j
  BY DEF AtMostOne
<1>2. /\ Len(s) \in Nat /\ DOMAIN s = 1..Len(s) /\ DOMAIN t = 1..(Len(s) + 1)
      /\ t[Len(s) + 1] = r /\ \A k \in DOMAIN s : t[k] = s[k]
  BY AppendFacts, SeqFacts
<1>3. CASE AtMostOne("boot", s) /\ r # "boot"
  BY <1>1, <1>2, <1>3 DEF AtMostOne
<1>4. CASE "boot" \notin Range(s)
  <2>1. \A k \in DOMAIN s : t[k] # "boot"  BY <1>2, <1>4 DEF Range
  <2>2. QED  BY <1>1, <1>2, <2>1
<1>5. QED  BY <1>3, <1>4

\* An error in the channel disturbs no pipe
LEMMA ErrorPushed ==
    ASSUME DuckTypeOK, results' = Append(results, "err"), stdin' = stdin
    PROVE  /\ QuietPipe => QuietPipe'
           /\ BootPipe => BootPipe'
           /\ StatementPipe => StatementPipe'
<1>1. results \in Seq(Tokens) /\ "err" \in Tokens
  BY DEF DuckTypeOK, Tokens
<1>2. Range(results') \subseteq Range(results) \cup {"err"}
  BY <1>1, AppendRange
<1>3. OnlyErrors(results) => OnlyErrors(results')
  BY <1>2, ErrorsRange, RangeErrors
<1>4. RowFirst(results) => RowFirst(results')  BY <1>1, AppendRowFirst
<1>5. AtMostOne("boot", results) => AtMostOne("boot", results')
  BY <1>1, AppendAtMostOne
<1>6. QuietPipe => QuietPipe'
  <2>1. SUFFICES ASSUME QuietPipe PROVE QuietPipe'  OBVIOUS
  <2>2. OnlyErrors(results')  BY <1>3, <2>1 DEF QuietPipe
  <2>3. QED  BY <2>1, <2>2 DEF QuietPipe, OnlyErrors
<1>7. BootPipe => BootPipe'
  <2>1. CASE stdin = <<"boot">> /\ OnlyErrors(results)
    BY <1>3, <2>1 DEF BootPipe, OnlyErrors
  <2>2. CASE /\ stdin = <<>> /\ AtMostOne("boot", results)
             /\ Range(results) \subseteq {"boot", "err"}
    BY <1>2, <1>5, <2>2 DEF BootPipe, AtMostOne
  <2>3. QED  BY <2>1, <2>2 DEF BootPipe
<1>8. StatementPipe => StatementPipe'
  <2>1. CASE stdin = <<"row", "mark">> /\ OnlyErrors(results)
    BY <1>3, <2>1 DEF StatementPipe, OnlyErrors
  <2>2. CASE stdin = <<"mark">> /\ Range(results) \subseteq {"row", "err"}
    BY <1>2, <2>2 DEF StatementPipe
  <2>3. CASE /\ stdin = <<>> /\ RowFirst(results)
             /\ Range(results) \subseteq {"row", "mark", "err"}
    BY <1>2, <1>4, <2>3 DEF StatementPipe, RowFirst
  <2>4. QED  BY <2>1, <2>2, <2>3 DEF StatementPipe
<1>9. QED  BY <1>6, <1>7, <1>8

\* One answer goes from the child to the channel
LEMMA AnswerPushed ==
    ASSUME DuckTypeOK, stdin # <<>>, stdin' = Tail(stdin),
           results' = Append(results, Head(stdin))
    PROVE  /\ BootPipe => BootPipe'
           /\ StatementPipe => StatementPipe'
<1>1. results \in Seq(Tokens) /\ Head(stdin) \in Tokens
  BY SeqFacts DEF DuckTypeOK
<1>2. Range(results') \subseteq Range(results) \cup {Head(stdin)}
  BY <1>1, AppendRange
<1>3. BootPipe => BootPipe'
  <2>1. CASE stdin = <<"boot">> /\ OnlyErrors(results)
    <3>1. stdin' = <<>> /\ Head(stdin) = "boot"  BY <2>1
    <3>2. "boot" \notin Range(results) /\ Range(results) \subseteq {"err"}
      BY <2>1, ErrorsRange
    <3>3. AtMostOne("boot", results')  BY <1>1, <3>2, AppendAtMostOne
    <3>4. Range(results') \subseteq {"boot", "err"}
      BY <1>2, <3>1, <3>2
    <3>5. QED  BY <3>1, <3>3, <3>4 DEF BootPipe, AtMostOne
  <2>2. QED  BY <2>1 DEF BootPipe
<1>4. StatementPipe => StatementPipe'
  <2>1. CASE stdin = <<"row", "mark">> /\ OnlyErrors(results)
    <3>1. stdin' = <<"mark">> /\ Head(stdin) = "row"  BY <2>1
    <3>2. Range(results') \subseteq {"row", "err"}
      BY <1>2, <2>1, <3>1, ErrorsRange
    <3>3. QED  BY <3>1, <3>2 DEF StatementPipe
  <2>2. CASE stdin = <<"mark">> /\ Range(results) \subseteq {"row", "err"}
    <3>1. stdin' = <<>> /\ Head(stdin) = "mark"  BY <2>2
    <3>2. RowFirst(results')
      BY <1>1, <2>2, <3>1, NoMarkRowFirst, AppendRowFirst
    <3>3. Range(results') \subseteq {"row", "mark", "err"}
      BY <1>2, <2>2, <3>1
    <3>4. QED  BY <3>1, <3>2, <3>3 DEF StatementPipe, RowFirst
  <2>3. QED  BY <2>1, <2>2 DEF StatementPipe
<1>5. QED  BY <1>3, <1>4

LEMMA OutsideKeeps ==
    ASSUME DuckInv, OutsideStep
    PROVE  /\ HolderAtWork' /\ SafeToReplace' /\ GotIsLocal' /\ GotIsOwn'
           /\ VersionsInStart' /\ TwinIsNoted' /\ PipeInStep'
<1> USE DEF DuckInv
<1> DEFINE Kept == /\ HolderAtWork' /\ SafeToReplace' /\ GotIsLocal'
                   /\ GotIsOwn' /\ VersionsInStart' /\ TwinIsNoted'
                   /\ PipeInStep'
<1>1. ASSUME UNCHANGED <<calls, local, flags>>,
             child' = "none" <=> child = "none",
             trusted' => trusted, twin' => ~trusted', PipeInStep'
      PROVE  Kept
  <2>1. /\ UNCHANGED <<op, outcome, mu, at, versions, got, alive, stopped>>
    BY <1>1 DEF calls, local, flags
  <2>2. QED
    BY <1>1, <2>1
    DEF HolderAtWork, SafeToReplace, GotIsLocal, GotIsOwn, VersionsInStart,
        TwinIsNoted
\* What a pipe in step goes through stays in step
<1>2. ASSUME UNCHANGED <<calls, local, flags>>, trusted' => trusted,
             InUse' => InUse,
             trusted /\ InUse => /\ QuietPipe => QuietPipe'
                                 /\ BootPipe => BootPipe'
                                 /\ StatementPipe => StatementPipe'
      PROVE  PipeInStep'
  <2>1. at' = at  BY <1>2 DEF local
  <2>2. QED  BY <1>2, <2>1 DEF PipeInStep
<1>3. ASSUME UNCHANGED <<calls, local, flags>>, child' = child
      PROVE  InUse' => InUse
  BY <1>3 DEF InUse, local, flags
<1>w. CASE SendGoesOn
  <2>1. /\ at = "full" /\ at' = "real" /\ child = "up"
        /\ stdin' = stdin \o <<"row", "mark">>
        /\ UNCHANGED <<op, outcome, mu, versions, got, stopped, alive, child,
                       results, twin, trusted>>
    BY <1>w DEF SendGoesOn, calls, flags
  <2>2. HolderAtWork'
    BY <2>1 DEF HolderAtWork, DuckTypeOK
  <2>3. ASSUME trusted', InUse' PROVE StatementPipe'
    <3>1. QuietPipe  BY <2>1, <2>3 DEF PipeInStep, InUse
    <3>2. stdin' = <<"row", "mark">>  BY <2>1, <3>1 DEF QuietPipe
    <3>3. QED  BY <2>1, <3>1, <3>2 DEF QuietPipe, StatementPipe, OnlyErrors
  <2>4. PipeInStep'
    BY <2>1, <2>3 DEF PipeInStep
  <2>5. QED
    BY <2>1, <2>2, <2>4
    DEF SafeToReplace, GotIsLocal, GotIsOwn, VersionsInStart, TwinIsNoted
<1>4. CASE Deliver
  <2>1. /\ child = "up" /\ stdin # <<>> /\ stdin' = Tail(stdin)
        /\ results' = Append(results, Head(stdin))
        /\ UNCHANGED <<calls, local, flags, trusted, child, twin>>
    BY <1>4 DEF Deliver, Push, beside
  <2>2. PipeInStep'
    BY <1>2, <1>3, <2>1, AnswerPushed DEF QuietPipe
  <2>3. QED  BY <1>1, <2>1, <2>2 DEF TwinIsNoted
<1>5. CASE StatementFails
  <2>1. /\ stdin # <<>> /\ Head(stdin) \in {"row", "old"}
        /\ stdin' = Tail(stdin)
        /\ UNCHANGED <<calls, local, flags, trusted, child, results, twin>>
    BY <1>5 DEF StatementFails, beside
  <2>2. ~BootPipe  BY <2>1 DEF BootPipe
  <2>3. StatementPipe => StatementPipe'
    <3>1. CASE stdin = <<"row", "mark">> /\ OnlyErrors(results)
      <4>1. stdin' = <<"mark">>  BY <2>1, <3>1
      <4>2. Range(results') \subseteq {"row", "err"}
        BY <2>1, <3>1, ErrorsRange
      <4>3. QED  BY <4>1, <4>2 DEF StatementPipe
    <3>2. QED  BY <2>1, <3>1 DEF StatementPipe
  <2>4. PipeInStep'
    BY <1>2, <1>3, <2>1, <2>2, <2>3 DEF QuietPipe
  <2>5. QED  BY <1>1, <2>1, <2>4 DEF TwinIsNoted
<1>6. CASE Torn
  <2>1. /\ twin /\ UNCHANGED <<calls, local, flags, trusted, child, twin>>
    BY <1>6 DEF Torn, beside
  <2>2. ~trusted'  BY <2>1 DEF TwinIsNoted
  <2>3. PipeInStep'  BY <2>2 DEF PipeInStep
  <2>4. QED  BY <1>1, <2>1, <2>2, <2>3
<1>7. CASE ChildDies
  <2>1. /\ child = "up" /\ child' = "dead"
        /\ UNCHANGED <<calls, local, flags, trusted, stdin, results, twin>>
    BY <1>7 DEF ChildDies, beside
  <2>2. InUse' => InUse  BY <2>1 DEF InUse, local, flags
  <2>3. PipeInStep'
    BY <1>2, <2>1, <2>2
    DEF QuietPipe, BootPipe, StatementPipe, OnlyErrors, AtMostOne, RowFirst
  <2>4. QED  BY <1>1, <2>1, <2>3 DEF TwinIsNoted
<1>8. CASE ReaderEnds
  <2>1. /\ results' = Append(results, "err")
        /\ UNCHANGED <<calls, local, flags, trusted, child, stdin, twin>>
    BY <1>8 DEF ReaderEnds, Push, beside
  <2>2. PipeInStep'  BY <1>2, <1>3, <2>1, ErrorPushed
  <2>3. QED  BY <1>1, <2>1, <2>2 DEF TwinIsNoted
<1>9. ASSUME NEW r \in {"old", "mark", "err"}, LateReader(r) PROVE Kept
  <2>1. /\ results' = Append(results, r)
        /\ UNCHANGED <<calls, local, flags, child, stdin>>
    BY <1>9 DEF LateReader, Push
  <2>2. CASE r = "err"
    <3>1. UNCHANGED <<twin, trusted>>  BY <1>9, <2>2 DEF LateReader
    <3>2. PipeInStep'
      BY <1>2, <1>3, <2>1, <2>2, <3>1, ErrorPushed
    <3>3. QED  BY <1>1, <2>1, <3>1, <3>2 DEF TwinIsNoted
  \* Between a Kill and the next Spawn nobody reads
  <2>3. CASE child = "none"
    <3>1. UNCHANGED <<twin, trusted>>  BY <1>9, <2>3 DEF LateReader
    <3>2. ~InUse  BY <2>3 DEF InUse, HolderAtWork
    <3>3. PipeInStep'  BY <1>3, <2>1, <3>2 DEF PipeInStep
    <3>4. QED  BY <1>1, <2>1, <3>1, <3>3 DEF TwinIsNoted
  <2>4. CASE r # "err" /\ child # "none"
    <3>1. trusted' = FALSE  BY <1>9, <2>4 DEF LateReader
    <3>2. PipeInStep'  BY <3>1 DEF PipeInStep
    <3>3. QED  BY <1>1, <2>1, <3>1, <3>2
  <2>5. QED  BY <2>2, <2>3, <2>4
<1>10. QED
  BY <1>w, <1>4, <1>5, <1>6, <1>7, <1>8, <1>9 DEF OutsideStep

-----------------------------------------------------------------------------
(* The theorems.                                                           *)

LEMMA InitInv == DuckInit => DuckInv
<1> SUFFICES ASSUME DuckInit PROVE DuckInv  OBVIOUS
<1>1. OnlyErrors(results) /\ stdin = <<>>  BY DEF DuckInit, OnlyErrors
<1>2. PipeInStep  BY <1>1 DEF DuckInit, PipeInStep, QuietPipe
<1>3. HolderAtWork  BY DEF DuckInit, HolderAtWork
<1>4. QED
  BY <1>2, <1>3, InitType
  DEF DuckInit, DuckInv, SafeToReplace, GotIsLocal, GotIsOwn, VersionsInStart,
      TwinIsNoted

LEMMA NextInv == ASSUME DuckInv, [DuckNext]_duckVars PROVE DuckInv'
<1>1. ASSUME NEW c \in Callers, Begin(c) \/ \E o \in Uses[c] : Call(c, o)
      PROVE  DuckInv'
  BY <1>1, BeginType, BeginControl, BeginPipe DEF DuckInv
<1>2. CASE HolderStep
  BY <1>2, HolderType, HolderKeeps DEF DuckInv
<1>3. CASE OutsideStep
  BY <1>3, OutsideType, OutsideKeeps DEF DuckInv
<1>4. CASE UNCHANGED duckVars
  BY <1>4
  DEF duckVars, calls, local, flags, pipe, DuckInv, DuckTypeOK, HolderAtWork,
      SafeToReplace, GotIsLocal, GotIsOwn, VersionsInStart, TwinIsNoted,
      PipeInStep, InUse, QuietPipe, BootPipe, StatementPipe, OnlyErrors,
      AtMostOne, RowFirst
<1>5. QED  BY <1>1, <1>2, <1>3, <1>4 DEF DuckNext

\* DuckInv holds whatever is called, dies, hangs or is answered late.
THEOREM DuckInvariance == DuckSpec => []DuckInv
<1>1. DuckInit => DuckInv  BY InitInv
<1>2. DuckInv /\ [DuckNext]_duckVars => DuckInv'  BY NextInv
<1>3. QED  BY <1>1, <1>2, PTL DEF DuckSpec

\* While DuckDB is stopped for an upgrade there is no process, whatever
\* queries, retries and readers are under way (stopForUpgrade).
THEOREM UpgradeSafe == DuckSpec => []SafeToReplace
<1>1. DuckInv => SafeToReplace  BY DEF DuckInv
<1>2. QED  BY <1>1, DuckInvariance, PTL

\* A step that answers a call with another statement's rows starts in a state
\* where something is known to be owed
LEMMA ForeignStep ==
    ASSUME DuckInv, [DuckNext]_duckVars, NEW c \in Callers,
           outcome'[c] = "foreign", outcome[c] # "foreign"
    PROVE  ~trusted
<1> USE DEF DuckInv
<1>t. DOMAIN outcome = Callers  BY DEF DuckTypeOK
<1>1. ASSUME NEW d \in Callers, NEW a, Answer(d, a), a # "foreign"
      PROVE  FALSE
  BY <1>1, <1>t DEF Answer
<1>2. ASSUME outcome' = outcome PROVE FALSE  BY <1>2
<1>3. ASSUME NEW d \in Callers, Begin(d) \/ \E o \in Uses[d] : Call(d, o)
      PROVE  FALSE
  <2>1. ASSUME NEW o \in Uses[d], Call(d, o) PROVE FALSE
    BY <2>1, <1>t DEF Call
  <2>2. CASE Query(d)  BY <1>2, <2>2 DEF Query, Enter
  <2>3. CASE QueryStopped(d)  BY <1>1, <2>3 DEF QueryStopped
  <2>4. CASE GracefulRestart(d)  BY <1>2, <2>4 DEF GracefulRestart, Enter
  <2>5. CASE StopForUpgrade(d)  BY <1>1, <2>5 DEF StopForUpgrade
  <2>6. CASE StartAfterUpgrade(d)
    BY <1>1, <1>2, <2>6 DEF StartAfterUpgrade, Enter
  <2>7. CASE Close(d)  BY <1>1, <2>7 DEF Close
  <2>8. QED  BY <1>3, <2>1, <2>2, <2>3, <2>4, <2>5, <2>6, <2>7 DEF Begin
<1>4. CASE OutsideStep
  <2>1. outcome' = outcome
    BY <1>4
    DEF OutsideStep, SendGoesOn, Deliver, StatementFails, Torn, ChildDies, ReaderEnds,
        LateReader, beside, calls
  <2>2. QED  BY <1>2, <2>1
<1>5. CASE HolderStep
  <2>m. at # "idle" => mu \in Callers
    BY DEF HolderAtWork, DuckTypeOK
  <2>1. ASSUME at # "idle", NEW a, NEW left, Finish(a, left), a # "foreign"
        PROVE  FALSE
    <3>1. CASE versions > 0
      <4>1. \/ outcome' = outcome
            \/ outcome' = [outcome EXCEPT ![mu] = "ok"]
        BY <2>1, <3>1 DEF Finish, calls
      <4>2. QED  BY <1>2, <1>t, <2>1, <2>m, <4>1
    <3>2. CASE ~(versions > 0) /\ a = "error" /\ ~retried
      BY <1>2, <2>1, <3>2 DEF Finish, calls
    <3>3. CASE ~(versions > 0) /\ ~(a = "error" /\ ~retried)
      BY <1>1, <2>1, <2>m, <3>3 DEF Finish
    <3>4. QED  BY <3>1, <3>2, <3>3
  <2>2. CASE Spawn  BY <1>2, <2>2 DEF Spawn, calls
  <2>3. CASE SpawnFails  BY <1>1, <2>m, <2>3 DEF SpawnFails
  <2>4. CASE Boot  BY <1>2, <2>4 DEF Boot, calls
  <2>5. CASE BootFails  BY <1>1, <2>m, <2>5 DEF BootFails
  <2>6. CASE Send  BY <1>2, <2>6 DEF Send, calls
  <2>w. CASE SendWaits  BY <1>2, <2>w DEF SendWaits, calls
  <2>7. CASE SendFails  BY <2>1, <2>7 DEF SendFails, Fail
  <2>8. CASE ReadResult  BY <1>2, <2>8 DEF ReadResult, calls
  <2>9. CASE ReadMarkerFirst
    <3>1. SUFFICES ASSUME trusted PROVE FALSE  OBVIOUS
    <3>2. "row" \notin Range(stdin) \cup Range(results)
      BY <2>9, <3>1, FirstIsOwn DEF ReadMarkerFirst
    <3>3. Finish("empty", Rest) /\ at = "real"
      BY <2>9, <3>2 DEF ReadMarkerFirst
    <3>4. QED  BY <2>1, <3>3
  <2>10. CASE ReadError  BY <2>1, <2>10 DEF ReadError, Fail
  <2>11. CASE ReadTimeout  BY <2>1, <2>11 DEF ReadTimeout, Fail
  <2>12. CASE ReadMarker
    BY <2>1, <2>12 DEF ReadMarker, GotIsOwn
  <2>13. CASE MarkerFails
    BY <2>1, <2>13 DEF MarkerFails, GotIsOwn
  <2>14. QED
    BY <1>5, <2>2, <2>3, <2>4, <2>5, <2>6, <2>w, <2>7, <2>8, <2>9, <2>10, <2>11,
       <2>12, <2>13 DEF HolderStep
<1>6. CASE UNCHANGED duckVars  BY <1>2, <1>6 DEF duckVars, calls
<1>7. QED  BY <1>3, <1>4, <1>5, <1>6 DEF DuckNext

\* Unless answers of an earlier statement are known to be under way, no call is
\* given another statement's rows (query, sendAndRead).
THEOREM OwnAnswers == DuckSpec => AnswersOwn
<1>1. DuckInv /\ [DuckNext]_duckVars =>
        [\A c \in Callers :
            (outcome'[c] = "foreign" /\ outcome[c] # "foreign") => ~trusted]_duckVars
  BY ForeignStep
<1>2. QED  BY <1>1, DuckInvariance, PTL DEF DuckSpec, AnswersOwn

-----------------------------------------------------------------------------
(* The process implements QueryEngine.                                     *)

AskedNow == [c \in Callers |-> Asked(c)]

EngineStep == Engine!Next \/ UNCHANGED <<~stopped, AskedNow, outcome, trusted>>

\* The callers' view when a call ends, and when nothing but the mutex moves
LEMMA AskedAfterAnswer ==
    ASSUME DuckInv, NEW c \in Callers, NEW a, Answer(c, a),
           mu \in {c, Nobody}
    PROVE  /\ AskedNow' = [AskedNow EXCEPT ![c] = "none"]
           /\ outcome' = [outcome EXCEPT ![c] = a]
<1>1. /\ op' = [op EXCEPT ![c] = "none"] /\ mu' = Nobody
      /\ op \in [Callers -> Operations \cup {"none"}]
      /\ outcome' = [outcome EXCEPT ![c] = a]
  BY DEF Answer, DuckInv, DuckTypeOK
<1>2. \A d \in Callers : Asked(d)' = IF d = c THEN "none" ELSE Asked(d)
  BY <1>1 DEF Asked
<1>3. QED  BY <1>1, <1>2 DEF AskedNow

LEMMA AskedKept ==
    ASSUME op' = op, mu' = mu
    PROVE  AskedNow' = AskedNow
BY DEF AskedNow, Asked

LEMMA BeginEngine ==
    ASSUME DuckInv, NEW c \in Callers,
           Begin(c) \/ \E o \in Uses[c] : Call(c, o)
    PROVE  EngineStep
<1> USE DEF DuckInv
<1>h. /\ op \in [Callers -> Operations \cup {"none"}] /\ c # Nobody
      /\ mu # Nobody => mu \in Callers /\ op[mu] # "none"
      /\ stopped \in BOOLEAN
  BY DEF DuckTypeOK, HolderAtWork
<1>f. mu = Nobody => AskedNow[c] = op[c]
  BY <1>h DEF AskedNow, Asked
<1>1. ASSUME NEW o \in Uses[c], Call(c, o) PROVE EngineStep
  <2>1. /\ op[c] = "none" /\ op' = [op EXCEPT ![c] = o] /\ mu' = mu
        /\ outcome' = [outcome EXCEPT ![c] = "none"]
        /\ UNCHANGED <<stopped, trusted>>
    BY <1>1 DEF Call, flags
  <2>2. mu # c  BY <1>h, <2>1
  <2>3. AskedNow[c] = "none"  BY <2>1, <2>2 DEF AskedNow, Asked
  <2>4. \A d \in Callers : Asked(d)' = IF d = c THEN o ELSE Asked(d)
    BY <1>h, <2>1, <2>2 DEF Asked
  <2>5. AskedNow' = [AskedNow EXCEPT ![c] = o]
    BY <2>4 DEF AskedNow
  <2>6. o \in Engine!Questions  BY DEF Engine!Questions, Operations
  <2>7. Engine!Ask(c, o)
    BY <2>1, <2>3, <2>5 DEF Engine!Ask, AskedNow
  <2>8. QED  BY <2>6, <2>7 DEF EngineStep, Engine!Next
<1>2. CASE Query(c)
  <2>1. /\ mu = Nobody /\ op[c] = "query" /\ mu' = c /\ op' = op
        /\ UNCHANGED <<stopped, outcome, trusted>>
    BY <1>2 DEF Query, Waits, Enter, flags
  <2>2. \A d \in Callers : Asked(d)' = Asked(d)
    BY <1>h, <2>1 DEF Asked
  <2>3. AskedNow' = AskedNow  BY <2>2 DEF AskedNow
  <2>4. QED  BY <2>1, <2>3 DEF EngineStep
<1>3. CASE QueryStopped(c)
  <2>1. /\ mu = Nobody /\ op[c] = "query" /\ Answer(c, "error")
        /\ UNCHANGED <<stopped, trusted>>
    BY <1>3 DEF QueryStopped, Waits, flags
  <2>2. Engine!AnswerQuery(c)
    BY <1>f, <2>1, AskedAfterAnswer
    DEF Engine!AnswerQuery, Engine!Tell, AskedNow
  <2>3. QED  BY <2>2 DEF EngineStep, Engine!Next
\* A restart, or a start of a stopped engine
<1>4. ASSUME mu = Nobody, op[c] = "restart" \/ (op[c] = "start" /\ stopped),
             Enter(c, "spawn"), stopped' = FALSE, trusted' = trusted
      PROVE  EngineStep
  <2>1. mu' = c /\ op' = op /\ outcome' = outcome  BY <1>4 DEF Enter
  <2>2. \A d \in Callers : Asked(d)' = IF d = c THEN "booting" ELSE Asked(d)
    BY <1>h, <1>4, <2>1 DEF Asked
  <2>3. AskedNow' = [AskedNow EXCEPT ![c] = "booting"]
    BY <2>2 DEF AskedNow
  <2>4. Engine!TurnOn(c)
    BY <1>f, <1>h, <1>4, <2>1, <2>3 DEF Engine!TurnOn, AskedNow
  <2>5. QED  BY <2>4 DEF EngineStep, Engine!Next
<1>5. CASE GracefulRestart(c)
  BY <1>4, <1>5 DEF GracefulRestart, Waits
<1>6. CASE StopForUpgrade(c)
  <2>1. /\ mu = Nobody /\ op[c] = "stop" /\ Answer(c, "ok")
        /\ stopped' = TRUE /\ trusted' = trusted
    BY <1>6 DEF StopForUpgrade, Waits, Kill
  <2>2. Engine!Stop(c)
    BY <1>f, <2>1, AskedAfterAnswer DEF Engine!Stop, Engine!Tell, AskedNow
  <2>3. QED  BY <2>2 DEF EngineStep, Engine!Next
<1>7. CASE StartAfterUpgrade(c)
  <2>1. mu = Nobody /\ op[c] = "start" /\ trusted' = trusted
    BY <1>7 DEF StartAfterUpgrade, Waits
  <2>2. CASE stopped  BY <1>4, <1>7, <2>1, <2>2 DEF StartAfterUpgrade
  <2>3. CASE ~stopped
    <3>1. Answer(c, "error") /\ UNCHANGED stopped
      BY <1>7, <2>3 DEF StartAfterUpgrade
    <3>2. Engine!RefuseStart(c)
      BY <1>f, <2>1, <2>3, <3>1, AskedAfterAnswer
      DEF Engine!RefuseStart, Engine!Tell, AskedNow
    <3>3. QED  BY <3>2 DEF EngineStep, Engine!Next
  <2>4. QED  BY <2>2, <2>3
<1>8. CASE Close(c)
  <2>1. /\ mu = Nobody /\ op[c] = "close" /\ Answer(c, "ok")
        /\ UNCHANGED <<stopped, trusted>>
    BY <1>8 DEF Close, Waits, Kill
  <2>2. Engine!Close(c)
    BY <1>f, <2>1, AskedAfterAnswer DEF Engine!Close, Engine!Tell, AskedNow
  <2>3. QED  BY <2>2 DEF EngineStep, Engine!Next
<1>9. QED
  BY <1>1, <1>2, <1>3, <1>5, <1>6, <1>7, <1>8 DEF Begin

\* Nothing but trusted has moved
LEMMA TrustOnly ==
    ASSUME DuckInv, trusted' \in BOOLEAN,
           UNCHANGED <<op, outcome, mu, stopped>>
    PROVE  EngineStep
<1>1. AskedNow' = AskedNow  BY AskedKept
<1>2. CASE trusted' = trusted  BY <1>1, <1>2 DEF EngineStep
<1>3. CASE trusted' # trusted
  <2>1. trusted' = ~trusted  BY <1>3 DEF DuckInv, DuckTypeOK
  <2>2. Engine!TrustChanges
    BY <1>1, <2>1 DEF Engine!TrustChanges, AskedNow
  <2>3. QED  BY <2>2 DEF EngineStep, Engine!Next
<1>4. QED  BY <1>2, <1>3

\* A query is answered
LEMMA QueryAnswered ==
    ASSUME DuckInv, mu \in Callers, op[mu] = "query",
           NEW a \in {"rows", "empty", "foreign", "error"}, Answer(mu, a),
           a = "foreign" => ~trusted,
           trusted' \in {trusted, FALSE}, stopped' = stopped
    PROVE  EngineStep
<1>1. /\ ~stopped /\ AskedNow[mu] = "query"
  BY DEF DuckInv, HolderAtWork, DuckTypeOK, AskedNow, Asked
<1>2. Engine!AnswerQuery(mu)
  BY <1>1, AskedAfterAnswer DEF Engine!AnswerQuery, Engine!Tell, AskedNow
<1>3. QED  BY <1>2 DEF EngineStep, Engine!Next

\* A restart or a start comes to its end
LEMMA BootEnds ==
    ASSUME DuckInv, mu \in Callers, op[mu] # "query",
           NEW a \in {"ok", "error"}, Answer(mu, a),
           trusted' \in {trusted, FALSE}, stopped' = stopped
    PROVE  EngineStep
<1>1. op[mu] \in {"restart", "start"}
  BY DEF DuckInv, HolderAtWork, DuckTypeOK
<1>2. AskedNow[mu] = "booting"  BY <1>1 DEF AskedNow, Asked
<1>3. Engine!Booted(mu)
  BY <1>2, AskedAfterAnswer DEF Engine!Booted, Engine!Tell, AskedNow
<1>4. QED  BY <1>3 DEF EngineStep, Engine!Next

LEMMA FinishEngine ==
    ASSUME DuckInv, mu \in Callers, at \in {"send", "full", "real", "mark"},
           NEW a \in {"rows", "empty", "foreign", "error"}, NEW left,
           Finish(a, left), a = "foreign" => ~trusted, stopped' = stopped
    PROVE  EngineStep
<1>1. trusted' \in {trusted, FALSE} /\ trusted' \in BOOLEAN
  BY DEF Finish, DuckInv, DuckTypeOK
<1>2. CASE versions = 1 /\ op[mu] # "query"
  <2>1. Answer(mu, "ok")  BY <1>2 DEF Finish, Answer
  <2>2. QED  BY <1>1, <1>2, <2>1, BootEnds
<1>3. CASE versions > 0 /\ ~(versions = 1 /\ op[mu] # "query")
  <2>1. UNCHANGED <<op, outcome, mu>>  BY <1>3 DEF Finish, calls
  <2>2. QED  BY <1>1, <2>1, TrustOnly
<1>4. CASE ~(versions > 0) /\ a = "error" /\ ~retried
  <2>1. UNCHANGED <<op, outcome, mu>>  BY <1>4 DEF Finish, calls
  <2>2. QED  BY <1>1, <2>1, TrustOnly
<1>5. CASE ~(versions > 0) /\ ~(a = "error" /\ ~retried)
  <2>1. op[mu] = "query"  BY <1>5 DEF DuckInv, VersionsInStart
  <2>2. Answer(mu, a)  BY <1>5 DEF Finish
  <2>3. QED  BY <1>1, <2>1, <2>2, QueryAnswered
<1>6. QED
  <2>1. versions \in 0..2  BY DEF DuckInv, DuckTypeOK
  <2>2. QED  BY <1>2, <1>3, <1>4, <1>5, <2>1

LEMMA HolderEngine ==
    ASSUME DuckInv, HolderStep
    PROVE  EngineStep
<1>1. at # "idle"
  BY DEF HolderStep, Spawn, SpawnFails, Boot, BootFails, Send, SendWaits,
         SendFails, ReadResult, ReadMarkerFirst, ReadError, ReadTimeout, ReadMarker,
         MarkerFails
<1>2. /\ mu \in Callers /\ trusted \in BOOLEAN
      /\ got \in {"none", "rows", "foreign"}
  BY <1>1 DEF DuckInv, HolderAtWork, DuckTypeOK
<1>3. ASSUME Answer(mu, "error"), UNCHANGED <<trusted, stopped>>
      PROVE  EngineStep
  BY <1>2, <1>3, QueryAnswered, BootEnds
<1>4. ASSUME NEW left, Fail(left), at \in {"send", "full", "real"}
      PROVE  EngineStep
  <2>1. Finish("error", left) /\ stopped' = stopped  BY <1>4 DEF Fail
  <2>2. QED  BY <1>2, <1>4, <2>1, FinishEngine
<1>5. CASE Spawn
  BY <1>2, <1>5, TrustOnly DEF Spawn, calls
<1>6. CASE SpawnFails  BY <1>3, <1>6 DEF SpawnFails, Kill
<1>7. CASE Boot
  BY <1>2, <1>7, TrustOnly DEF Boot, calls, flags
<1>8. CASE BootFails  BY <1>3, <1>8 DEF BootFails, Kill
<1>9. CASE Send
  BY <1>2, <1>9, TrustOnly DEF Send, calls, flags
<1>w. CASE SendWaits
  BY <1>2, <1>w, TrustOnly DEF SendWaits, calls, flags
<1>10. CASE SendFails  BY <1>4, <1>10 DEF SendFails
<1>11. CASE ReadResult
  BY <1>2, <1>11, TrustOnly DEF ReadResult, calls, flags
<1>12. CASE ReadMarkerFirst
  <2>1. stopped' = stopped /\ at = "real"
    BY <1>12 DEF ReadMarkerFirst, flags
  <2>2. CASE "row" \in Range(stdin) \cup Range(results)
    <3>1. ~trusted  BY <1>12, <2>2, FirstIsOwn
      DEF ReadMarkerFirst, DuckInv
    <3>2. Finish("foreign", Rest)  BY <1>12, <2>2 DEF ReadMarkerFirst
    <3>3. QED  BY <1>2, <2>1, <3>1, <3>2, FinishEngine
  <2>3. CASE "row" \notin Range(stdin) \cup Range(results)
    <3>1. Finish("empty", Rest)  BY <1>12, <2>3 DEF ReadMarkerFirst
    <3>2. QED  BY <1>2, <2>1, <3>1, FinishEngine
  <2>4. QED  BY <2>2, <2>3
<1>13. CASE ReadError  BY <1>4, <1>13 DEF ReadError
<1>14. CASE ReadTimeout  BY <1>4, <1>14 DEF ReadTimeout
\* Only the marker is read: the answer is the one read before it
<1>15. ASSUME at = "mark", Finish(got, Rest), stopped' = stopped
       PROVE  EngineStep
  <2>1. got \in {"rows", "foreign"} /\ (got = "foreign" => ~trusted)
    BY <1>2, <1>15 DEF DuckInv, GotIsLocal, GotIsOwn
  <2>2. QED  BY <1>2, <1>15, <2>1, FinishEngine
<1>16. CASE ReadMarker  BY <1>15, <1>16 DEF ReadMarker, flags
<1>17. CASE MarkerFails  BY <1>15, <1>17 DEF MarkerFails
<1>18. QED
  BY <1>5, <1>6, <1>7, <1>8, <1>9, <1>w, <1>10, <1>11, <1>12, <1>13, <1>14,
     <1>16, <1>17 DEF HolderStep

LEMMA OutsideEngine ==
    ASSUME DuckInv, OutsideStep
    PROVE  EngineStep
<1>1. /\ UNCHANGED <<op, outcome, mu, stopped>>
      /\ trusted' \in {trusted, FALSE}
  <2>1. CASE \E r \in {"old", "mark", "err"} : LateReader(r)
    BY <2>1 DEF LateReader, calls, flags
  <2>2. CASE \/ SendGoesOn \/ Deliver \/ StatementFails \/ Torn \/ ChildDies
             \/ ReaderEnds
    BY <2>2 DEF SendGoesOn, Deliver, StatementFails, Torn, ChildDies, ReaderEnds, beside,
                calls, flags
  <2>3. QED  BY <2>1, <2>2 DEF OutsideStep
<1>2. trusted' \in BOOLEAN  BY <1>1 DEF DuckInv, DuckTypeOK
<1>3. QED  BY <1>1, <1>2, TrustOnly

\* Whatever the process, its readers and its marker statements do, the callers
\* see an engine that is on or off: query, execStmt, gracefulRestart,
\* stopForUpgrade, startAfterUpgrade and close keep QueryEngine's promises.
THEOREM EngineRefined == DuckSpec => ImplementsEngine
<1>1. DuckInit => Engine!Init
  <2>1. Nobody \notin Callers  BY DuckAssumption
  <2>2. QED  BY <2>1 DEF DuckInit, Engine!Init, Asked
<1>2. DuckInv /\ [DuckNext]_duckVars => [Engine!Next]_Engine!vars
  <2>1. SUFFICES ASSUME DuckInv, [DuckNext]_duckVars PROVE EngineStep
    BY DEF EngineStep, AskedNow, Engine!vars
  <2>2. CASE UNCHANGED duckVars
    <3>1. UNCHANGED <<op, outcome, mu, stopped, trusted>>
      BY <2>2 DEF duckVars, calls, flags
    <3>2. QED  BY <3>1, AskedKept DEF EngineStep
  <2>3. QED
    BY <2>1, <2>2, BeginEngine, HolderEngine, OutsideEngine DEF DuckNext
<1>3. QED
  BY <1>1, <1>2, DuckInvariance, PTL DEF DuckSpec, ImplementsEngine, Engine!Spec
=============================================================================
