---------------------------- MODULE WriteBehind -----------------------------
(***************************************************************************)
(* What the server promises of the state it keeps in Lance on a user's     *)
(* behalf, the read and starred columns of the articles and the settings:  *)
(* a change is answered at once, waits in pending_changes, and is written  *)
(* and struck off later.  A cell is what is changed and written by itself. *)
(* A cell is raced when its last change met another one, or a replay, in a *)
(* way in which the code does not promise it.                              *)
(***************************************************************************)
CONSTANTS Cells, Values

VARIABLES
    wanted,    \* what was last asked for, by cell
    kept,      \* what Lance holds
    waiting,   \* the values that are waiting to be written
    raced      \* the cells of which nothing is promised

bufferVars == <<wanted, kept, waiting, raced>>

BufferTypeOK ==
    /\ wanted \in [Cells -> Values] /\ kept \in [Cells -> Values]
    /\ waiting \in [Cells -> SUBSET Values]
    /\ raced \subseteq Cells

NothingWaits == [c \in Cells |-> {}]

BufferInit ==
    /\ kept \in [Cells -> Values] /\ wanted = kept
    /\ waiting = NothingWaits /\ raced = {}

Same(c) == /\ wanted'[c] = wanted[c] /\ waiting'[c] = waiting[c]
           /\ c \in raced' <=> c \in raced

\* What a cell is asked to be waits, instead of what waited or beside it.
Asked(c) == /\ c \notin raced'
            /\ wanted'[c] \in waiting'[c]
            /\ waiting'[c] \subseteq waiting[c] \cup {wanted'[c]}

\* Cells are asked for something; some of them are raced from now on.
Ask ==
    /\ \A c \in Cells : Same(c) \/ Asked(c) \/ c \in raced'
    /\ UNCHANGED kept

\* One statement reaches Lance: it writes only values that are waiting.
Write ==
    /\ \A c \in Cells \ raced : kept'[c] \in {kept[c]} \cup waiting[c]
    /\ UNCHANGED <<wanted, waiting, raced>>

\* All that is waiting is struck off, when Lance has it.
Settle ==
    /\ \A c \in Cells \ raced : kept[c] = wanted[c]
    /\ waiting' = NothingWaits
    /\ UNCHANGED <<wanted, kept, raced>>

\* Another program writes to Lance, where no change is waiting.
Provide ==
    /\ \A c \in Cells \ raced :
          \/ kept'[c] = kept[c] /\ wanted'[c] = wanted[c]
          \/ waiting[c] = {} /\ kept'[c] = wanted'[c]
    /\ UNCHANGED <<waiting, raced>>

BufferNext == BufferTypeOK' /\ (Ask \/ Write \/ Settle \/ Provide)

BufferSpec == BufferInit /\ [][BufferNext]_bufferVars

-----------------------------------------------------------------------------
\* What a user was last told is in Lance, or is still waiting to be written.
NothingIsLost ==
    \A c \in Cells \ raced :
        IF waiting[c] = {} THEN kept[c] = wanted[c] ELSE wanted[c] \in waiting[c]

\* Once it is in Lance and nothing is waiting, it stays as it is until someone
\* asks for something else.
StaysSettled ==
    \A c \in Cells \ (raced \cup raced') :
        (waiting[c] = {} /\ kept'[c] # kept[c]) => kept'[c] = wanted'[c]
StaysKept == [][StaysSettled]_bufferVars
=============================================================================
