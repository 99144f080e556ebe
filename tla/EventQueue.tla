----------------------------- MODULE EventQueue -----------------------------
(***************************************************************************)
(* What the store may rely on when it records infrastructure events: of    *)
(* the events since the last drain the newest Cap are kept in their order, *)
(* and a drain hands each of them, the oldest first, to one log flush.     *)
(***************************************************************************)
EXTENDS Integers, Sequences

CONSTANTS Cap, Events, Flushers

VARIABLES
    queue,    \* the events that are kept
    handed    \* what each flush is inserting

queueVars == <<queue, handed>>

Newest(s) == IF Len(s) > Cap THEN Tail(s) ELSE s

QueueInit == queue = <<>> /\ handed = [f \in Flushers |-> <<>>]

Record(e) == queue' = Newest(Append(queue, e)) /\ UNCHANGED handed

Hand(f) == handed' = [handed EXCEPT ![f] = queue] /\ queue' = <<>>

Settle(f) == handed' = [handed EXCEPT ![f] = <<>>] /\ UNCHANGED queue

QueueNext ==
    \/ \E e \in Events : Record(e)
    \/ \E f \in Flushers : Hand(f) \/ Settle(f)

QueueSpec == QueueInit /\ [][QueueNext]_queueVars
=============================================================================
