--------------------------- MODULE MCUndoDatabase ---------------------------
(* TLC instance of UndoDatabase: object contents are interchangeable.      *)
EXTENDS UndoDatabase, TLC

ValueSymmetry == Permutations(Value)
=============================================================================
