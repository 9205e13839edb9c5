----------------------------- MODULE MCNodeSync -----------------------------
(* Small instances of NodeSync.                                            *)
EXTENDS NodeSync

CONSTANTS p1, p2
=============================================================================
