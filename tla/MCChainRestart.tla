-------------------------- MODULE MCChainRestart ---------------------------
(***************************************************************************)
(* A block tree from genesis g for ChainRestart:                           *)
(*                                                                         *)
(*   g - a1 - a2 - a3 - a4 - a5                                            *)
(*              \- b3 - b4                                                 *)
(*                                                                         *)
(* Three miners take turns on a, so that the last irreversible block is    *)
(* two behind the head: close() pops two blocks, and after it has been     *)
(* opened again the node has reversible blocks that it cannot undo.  t1 is *)
(* in both forks and long lived.                                           *)
(***************************************************************************)
EXTENDS ChainRestart

MCPrev == [a1 |-> "g", a2 |-> "a1", a3 |-> "a2", a4 |-> "a3", a5 |-> "a4",
           b3 |-> "a2", b4 |-> "b3"]
MCBlock == DOMAIN MCPrev
MCTime == [g |-> 1, a1 |-> 2, a2 |-> 3, a3 |-> 4, a4 |-> 6, a5 |-> 8,
           b3 |-> 5, b4 |-> 7]
MCSigner == [a1 |-> "m1", a2 |-> "m2", a3 |-> "m3", a4 |-> "m1", a5 |-> "m2",
             b3 |-> "m1", b4 |-> "m3"]
MCTxs == [b \in MCBlock \cup {"g"} |-> IF b \in {"a3", "b4"} THEN <<"t1">> ELSE <<>>]
MCMiner == {"m1", "m2", "m3"}
MCTx == {"t1", "t2"}
MCExpiration == [t1 |-> 9, t2 |-> 5]
MCRefBlock == [t1 |-> "g", t2 |-> "a1"]
MCConflicts == [t1 |-> {}, t2 |-> {}]
=============================================================================
