-------------------------- MODULE MCChainDatabase --------------------------
(***************************************************************************)
(* Small block trees for ChainDatabase.  The node starts on r; two forks   *)
(* compete from it, a third from a2.                                       *)
(*                                                                         *)
(*   r - a2 - a3 - a4                                                      *)
(*    \    \- c3                                                           *)
(*     \- b2 - b3 - b4 - b5                                                *)
(*                                                                         *)
(* t1 is in all forks, at different heights, t2 refers to a2, t3 conflicts *)
(* with t1 and expires early, t4 is in one fork only.                      *)
(***************************************************************************)
EXTENDS ChainDatabase, TLC

MCPrev == [a2 |-> "r", a3 |-> "a2", a4 |-> "a3", c3 |-> "a2",
           b2 |-> "r", b3 |-> "b2", b4 |-> "b3", b5 |-> "b4"]
MCBlock == DOMAIN MCPrev
MCTime == [r |-> 1, a2 |-> 2, a3 |-> 4, a4 |-> 6, c3 |-> 5, b2 |-> 3, b3 |-> 5, b4 |-> 6, b5 |-> 7]
MCSigner == [a2 |-> "m1", a3 |-> "m2", a4 |-> "m3", c3 |-> "m3",
             b2 |-> "m2", b3 |-> "m1", b4 |-> "m2", b5 |-> "m1"]
MCTxs == [r |-> <<>>, a2 |-> <<"t1">>, a3 |-> <<"t2", "t4">>, a4 |-> <<>>, c3 |-> <<"t2">>,
          b2 |-> <<>>, b3 |-> <<"t1">>, b4 |-> <<>>, b5 |-> <<>>]
MCMiner == {"m1", "m2", "m3"}
MCTx == {"t1", "t2", "t3", "t4"}
MCExpiration == [t1 |-> 5, t2 |-> 9, t3 |-> 4, t4 |-> 8]
MCRefBlock == [t1 |-> "r", t2 |-> "a2", t3 |-> "r", t4 |-> "r"]
MCConflicts == [t1 |-> {"t3"}, t2 |-> {}, t3 |-> {"t1"}, t4 |-> {}]
=============================================================================
