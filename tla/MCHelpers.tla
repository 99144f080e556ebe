----------------------------- MODULE MCHelpers ------------------------------
(***************************************************************************)
(* Instances of DuckDBProcess and WriterProcess for TLC.  The two          *)
(* processes share nothing, so a behaviour moves only one of them; both    *)
(* kinds of behaviour are explored.                                        *)
(***************************************************************************)
EXTENDS HelperClaims, TLC

CONSTANTS c1, c2

\* One goroutine queries, the other is the server's administrator or its end
QueryAndAdmin ==
    c1 :> {"query"} @@ c2 :> {"restart", "stop", "start", "close"}

VARIABLE moving

HelpersInit == moving \in {"duckdb", "python"} /\ DuckInit /\ WriterInit

HelpersNext ==
    /\ \/ moving = "duckdb" /\ DuckNext /\ UNCHANGED writerVars
       \/ moving = "python" /\ WriterNext /\ UNCHANGED duckVars
    /\ UNCHANGED moving

HelpersSpec ==
    /\ HelpersInit
    /\ [][HelpersNext]_<<moving, duckVars, writerVars>>
    /\ WF_duckVars(moving = "duckdb" /\ HolderStep)
=============================================================================
