------------------------------ MODULE LogTrim ------------------------------
(***************************************************************************)
(* The trimming of log_api by the Go server: every five minutes main.go    *)
(* reads the retention settings and has the store count the rows, look up  *)
(* the time of the oldest row to keep, and delete what is older, in three  *)
(* statements between which rows are written: new ones, and older ones     *)
(* that a drain brings from cached_logs.                                   *)
(*                                                                         *)
(* A row is its timestamp and a number that tells it from the other rows   *)
(* of that time.  The settings are read in one step: only this goroutine   *)
(* uses them.                                                              *)
(***************************************************************************)
EXTENDS Integers, FiniteSets

CONSTANTS
    Now,          \* the last time the model reaches
    Together,     \* how many rows may have the same timestamp
    Retentions,   \* what the settings log.retention_mode, log.max_entries and
                  \* log.max_age_days may say: [mode |-> ..., n |-> ...]
    MaxChanges,   \* bound on changes of these settings
    MaxTrimFailures \* bound on statements that fail

Times == 1..Now

ASSUME TrimAssumption ==
    /\ Now \in Nat \ {0} /\ Together \in Nat     \* the clock starts at 1
    /\ Retentions \subseteq [mode : {"count", "age"}, n : Nat]
    /\ MaxChanges \in Nat /\ MaxTrimFailures \in Nat

VARIABLES
    logApi,     \* the rows of log_api
    written,    \* how many rows of each time were ever written
    clock,
    retention,  \* the settings
    trim,       \* "wait", "count", "lookup" or "delete"
    keep,       \* the limit this trim goes by; 0 when it goes by age
    before,     \* it deletes rows older than this
    changes, trimFailures

trimVars == <<logApi, written, clock, retention, trim, keep, before, changes,
              trimFailures>>
trimming == <<trim, keep, before>>

Rows == Times \X (1..Together)
Since(t) == {r \in logApi : r[1] >= t}

TrimInit ==
    /\ logApi = {} /\ written = [t \in Times |-> 0]
    /\ clock = 1
    /\ retention \in Retentions
    /\ trim = "wait" /\ keep = 0 /\ before = 0
    /\ changes = 0 /\ trimFailures = 0

-----------------------------------------------------------------------------
\* A row of this moment, or one that was kept in cached_logs
WriteRow(t) ==
    /\ t <= clock /\ written[t] < Together
    /\ logApi' = logApi \cup {<<t, written[t] + 1>>}
    /\ written' = [written EXCEPT ![t] = @ + 1]
    /\ UNCHANGED <<clock, retention, trimming, changes, trimFailures>>

TimePasses ==
    /\ clock < Now
    /\ clock' = clock + 1
    /\ UNCHANGED <<logApi, written, retention, trimming, changes, trimFailures>>

ChangeRetention(r) ==
    /\ changes < MaxChanges /\ changes' = changes + 1
    /\ retention' = r
    /\ UNCHANGED <<logApi, written, clock, trimming, trimFailures>>

Begin(where, limit, cutoff) ==
    /\ trim' = where /\ keep' = limit /\ before' = cutoff
    /\ UNCHANGED <<logApi, written, clock, retention, changes>>

\* TrimLogs with a limit of 0 returns at once
TrimByCount ==
    /\ trim = "wait" /\ retention.mode = "count" /\ retention.n > 0
    /\ Begin("count", retention.n, 0)
    /\ UNCHANGED trimFailures

\* A max age that is not positive counts as 30 days, which is nothing here
TrimByAge ==
    /\ trim = "wait" /\ retention.mode = "age" /\ retention.n > 0
    /\ Begin("delete", 0, clock - retention.n)
    /\ UNCHANGED trimFailures

\* A statement fails, or gives no rows: the trim is over
TrimFails ==
    /\ trim # "wait"
    /\ trimFailures < MaxTrimFailures /\ trimFailures' = trimFailures + 1
    /\ Begin("wait", 0, 0)

Count ==
    /\ trim = "count"
    /\ IF Cardinality(logApi) <= keep THEN Begin("wait", 0, 0)
                                        ELSE Begin("lookup", keep, 0)
    /\ UNCHANGED trimFailures

\* The time of row number n when the newest come first
NthNewest(n) ==
    CHOOSE t \in Times :
        Cardinality(Since(t)) >= n /\ Cardinality(Since(t + 1)) < n

\* Mutation: the offset is one too small, and so is what stays.
LookupOneTooNear ==
    /\ trim = "lookup"
    /\ Begin("delete", keep, NthNewest(IF keep > 1 THEN keep - 1 ELSE keep))
    /\ UNCHANGED trimFailures

\* Mutation: OFFSET counts from 0, and one row too many is skipped.
LookupOneTooFar ==
    /\ trim = "lookup"
    /\ Begin("delete", keep, NthNewest(keep + 1))
    /\ UNCHANGED trimFailures

\* ORDER BY timestamp DESC LIMIT 1 OFFSET keep - 1
Lookup ==
    /\ trim = "lookup"
    /\ Begin("delete", keep, NthNewest(keep))
    /\ UNCHANGED trimFailures

DeleteFrom(cutoff) ==
    /\ trim = "delete"
    /\ logApi' = Since(cutoff)
    /\ trim' = "wait" /\ keep' = 0 /\ before' = 0
    /\ UNCHANGED <<written, clock, retention, changes, trimFailures>>

\* Mutation: the row that is looked up is deleted too.
DeleteInclusive == DeleteFrom(before + 1)

DeleteOldLogs == DeleteFrom(before)

TrimStep == TrimByCount \/ TrimByAge \/ Count \/ Lookup \/ DeleteOldLogs

TrimNext ==
    \/ \E t \in Times : WriteRow(t)
    \/ \E r \in Retentions : ChangeRetention(r)
    \/ TimePasses \/ TrimFails \/ TrimStep

TrimSpec == TrimInit /\ [][TrimNext]_trimVars

\* The ticker of main.go
TrimFairness == WF_trimVars(TrimStep)

-----------------------------------------------------------------------------
\* Every variable holds a value of the kind the code keeps in it, and rows come
\* from nowhere but WriteRow.
TrimTypeOK ==
    /\ written \in [Times -> 0..Together]
    /\ logApi \subseteq {r \in Rows : r[2] <= written[r[1]]}
    /\ clock \in 1..Now /\ retention \in Retentions
    /\ trim \in {"wait", "count", "lookup", "delete"}
    /\ keep \in Nat /\ before \in Int
    /\ changes \in 0..MaxChanges /\ trimFailures \in 0..MaxTrimFailures

\* A trim by count goes on only while there is more than it has to keep, and
\* what it is about to leave is enough, whatever is written meanwhile.
EnoughStays ==
    /\ trim \in {"count", "lookup"} => keep > 0
    /\ trim = "lookup" => Cardinality(logApi) > keep
    /\ trim = "delete" /\ keep > 0 => Cardinality(Since(before)) >= keep

\* A trim by age is about to delete what is older than some age it may be set to.
OldEnough ==
    trim = "delete" /\ keep = 0 =>
        \E r \in Retentions : r.mode = "age" /\ before + r.n <= clock

\* From the count to the delete, a trim of log_api goes by what is still true of
\* the table: the inductive invariant of the log trim goroutine.
TrimInv == TrimTypeOK /\ EnoughStays /\ OldEnough

\* A trim by count deletes a row only if at least as many newer rows stay as
\* the limit it began with, whatever is written between its statements; a trim
\* by age only rows older than some age it may be set to.
KeepsNewest ==
    \A r \in logApi \ logApi' :
        IF keep > 0 THEN Cardinality({q \in logApi' : q[1] > r[1]}) >= keep
        ELSE \E a \in Retentions : a.mode = "age" /\ r[1] + a.n < clock
TrimKeepsNewest == [][KeepsNewest]_trimVars

\* Once nothing more is written, and whatever statements failed before, fewer
\* rows than the limit are newer than the oldest one: of the rows beyond the
\* limit only those as old as the last one kept remain.
TrimCatchesUp ==
    <>[](retention.mode = "count" /\ retention.n > 0 =>
            \A r \in logApi : Cardinality(Since(r[1] + 1)) < retention.n)
=============================================================================
