----------------------------- MODULE RemoteCall -----------------------------
(***************************************************************************)
(* What a caller of the Python writer may rely on: the command it opens is *)
(* performed at most twice; an answer "ok" means that it has been          *)
(* performed, an error means nothing.  While answers to earlier commands   *)
(* may be in the pipe (trusted is FALSE), an answer means nothing either.  *)
(***************************************************************************)
EXTENDS Naturals

CONSTANT Callers

VARIABLES
    open,        \* is a command of the caller under way?
    performed,   \* how often has it been performed?
    answer,      \* what the caller was told
    trusted

callVars == <<open, performed, answer, trusted>>

CallInit ==
    /\ open = [c \in Callers |-> FALSE]
    /\ performed = [c \in Callers |-> 0]
    /\ answer = [c \in Callers |-> "none"]
    /\ trusted = TRUE

Open(c) ==
    /\ ~open[c]
    /\ open' = [open EXCEPT ![c] = TRUE]
    /\ performed' = [performed EXCEPT ![c] = 0]
    /\ answer' = [answer EXCEPT ![c] = "none"]
    /\ UNCHANGED trusted

Perform(c) ==
    /\ open[c] /\ performed[c] < 2
    /\ performed' = [performed EXCEPT ![c] = @ + 1]
    /\ UNCHANGED <<open, answer, trusted>>

Return(c, a) ==
    /\ open[c]
    /\ open' = [open EXCEPT ![c] = FALSE]
    /\ answer' = [answer EXCEPT ![c] = a]
    /\ trusted' \in {trusted, FALSE}
    /\ UNCHANGED performed

Ok(c) == (trusted => performed[c] > 0) /\ Return(c, "ok")

TrustChanges == trusted' = ~trusted /\ UNCHANGED <<open, performed, answer>>

CallNext ==
    \/ \E c \in Callers :
          Open(c) \/ Perform(c) \/ Ok(c) \/ Return(c, "error")
    \/ TrustChanges

CallSpec == CallInit /\ [][CallNext]_callVars
=============================================================================
