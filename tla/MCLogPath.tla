------------------------------ MODULE MCLogPath ------------------------------
(* Instances of LogPath for TLC.                                             *)
EXTENDS LogPathInv

CONSTANTS w1, t1, r1

FirstIsAnonymous == {1}
=============================================================================
