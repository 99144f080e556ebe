---------------------------- MODULE HelperClaims ----------------------------
(***************************************************************************)
(* What the comments say of the two helper processes, where the code does  *)
(* something else.  Each is checked by a run of its own and refuted.       *)
(***************************************************************************)
EXTENDS DuckDBProcessInv, WriterProcessInv

\* "Queries are delimited by a sentinel SELECT so the reader knows where one
\* result ends and the next begins" (duckdb_process.go:8): unless a reader of
\* an earlier process interferes, no call is given another statement's rows.
ReaderKnows ==
    [][\A c \in Callers :
          (outcome'[c] = "foreign" /\ outcome[c] # "foreign") => twin]_duckVars

\* "Caller must NOT hold w.mu" (lance_process.go:212): no goroutine that is in
\* sendCmd calls it again.
NeverWaitsForItself == step # "blocked"
=============================================================================
