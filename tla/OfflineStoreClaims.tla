------------------------- MODULE OfflineStoreClaims -------------------------
(***************************************************************************)
(* What the documentation says of the write buffer and the offline cache,  *)
(* where the code does something else: checked by a run and refuted.       *)
(***************************************************************************)
EXTENDS OfflineStoreInv

\* docs/offline.md:36, pending_changes "persists all changes to disk so they
\* survive": a row leaves the table only when a replay has read it.
ClearsOnlyReplayed ==
    [][\A r \in pending \ pending' : \E f \in Flushers : r \in batch[f]]_vars
=============================================================================
