---------------------------- MODULE QueryEngine ----------------------------
(***************************************************************************)
(* What the DuckDB helper of the CLI build promises its callers, whatever  *)
(* becomes of the process behind it: an engine that is on or off.  A       *)
(* query is answered by an engine that is on, or fails; Stop turns the     *)
(* engine off, and only Restart and Start turn it on again.                *)
(*                                                                         *)
(* trusted is FALSE while answers of earlier questions may be under way:   *)
(* then, and only then, a query may be given one of those.                 *)
(***************************************************************************)
CONSTANT Callers

VARIABLES
    on,       \* may the engine be used?
    asked,    \* what each caller waits for
    reply,    \* the last answer of each caller
    trusted

vars == <<on, asked, reply, trusted>>

Questions == {"query", "restart", "stop", "start", "close"}
Answers == {"rows", "empty", "foreign", "ok", "error"}

TypeOK ==
    /\ on \in BOOLEAN /\ trusted \in BOOLEAN
    /\ asked \in [Callers -> Questions \cup {"none", "booting"}]
    /\ reply \in [Callers -> Answers \cup {"none"}]

Init ==
    /\ on = TRUE /\ trusted = TRUE
    /\ asked = [c \in Callers |-> "none"]
    /\ reply = [c \in Callers |-> "none"]

Ask(c, q) ==
    /\ asked[c] = "none"
    /\ asked' = [asked EXCEPT ![c] = q]
    /\ reply' = [reply EXCEPT ![c] = "none"]
    /\ UNCHANGED <<on, trusted>>

Tell(c, a) ==
    /\ asked' = [asked EXCEPT ![c] = "none"]
    /\ reply' = [reply EXCEPT ![c] = a]

AnswerQuery(c) ==
    /\ asked[c] = "query"
    /\ \/ Tell(c, "error")
       \/ on /\ (Tell(c, "rows") \/ Tell(c, "empty"))
       \/ on /\ ~trusted /\ Tell(c, "foreign")
    /\ trusted' \in {trusted, FALSE}
    /\ UNCHANGED on

Stop(c) ==
    /\ asked[c] = "stop"
    /\ on' = FALSE
    /\ Tell(c, "ok")
    /\ UNCHANGED trusted

Close(c) == asked[c] = "close" /\ Tell(c, "ok") /\ UNCHANGED <<on, trusted>>

RefuseStart(c) ==
    asked[c] = "start" /\ on /\ Tell(c, "error") /\ UNCHANGED <<on, trusted>>

TurnOn(c) ==
    /\ asked[c] = "restart" \/ (asked[c] = "start" /\ ~on)
    /\ on' = TRUE
    /\ asked' = [asked EXCEPT ![c] = "booting"]
    /\ UNCHANGED <<reply, trusted>>

Booted(c) ==
    /\ asked[c] = "booting"
    /\ Tell(c, "ok") \/ Tell(c, "error")
    /\ trusted' \in {trusted, FALSE}
    /\ UNCHANGED on

\* A new process owes nobody an answer; one that is kept may.
TrustChanges == trusted' = ~trusted /\ UNCHANGED <<on, asked, reply>>

Next ==
    \/ \E c \in Callers :
          \/ \E q \in Questions : Ask(c, q)
          \/ AnswerQuery(c) \/ Stop(c) \/ Close(c) \/ RefuseStart(c)
          \/ TurnOn(c) \/ Booted(c)
    \/ TrustChanges

Spec == Init /\ [][Next]_vars
=============================================================================
