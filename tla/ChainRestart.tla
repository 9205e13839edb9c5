---------------------------- MODULE ChainRestart ----------------------------
(***************************************************************************)
(* chain::database across restarts: close() with its rewind to the last    *)
(* irreversible block, open(), reindex(), and a crash at any point.  The   *)
(* object database reaches the disk only in close(); the block database    *)
(* writes every block as it is stored, except what the streams still hold. *)
(*                                                                         *)
(* Root is genesis here (RootNum = 0), so that reindex replays from it.    *)
(***************************************************************************)
EXTENDS ChainDatabase

VARIABLES
  disk,    \* object_database files: the saved state, None if there are none
  before,  \* the block database without its last write, as buffered streams leave it
  down     \* history: how the node went or is going down

rvars == <<vars, disk, before, down>>
Written == before' = IF bdb' = bdb THEN before ELSE bdb

(* The newest block a reader of the block database finds.                  *)
Stored    == {n \in 1..MaxNum : bdb[n].data # None}
LastBlock == IF Stored = {} THEN None
             ELSE bdb[CHOOSE n \in Stored : \A k \in Stored : k <= n].data

(* A database object with nothing open, as a fresh process has it.         *)
Fresh(st, f, n) ==
  /\ s' = st
  /\ undo' = <<>>
  /\ usize' = n
  /\ irr' = st.lib
  /\ psess' = FALSE
  /\ pending' = <<>>
  /\ popped' = <<>>
  /\ fdb' = IF f = None THEN {} ELSE {f}
  /\ live' = {}
  /\ fhead' = f
  /\ op' = IdleOp

-----------------------------------------------------------------------------
(* History: no pop_block of a fork switch has failed for lack of undo      *)
(* history, which leaves the fork database on the other fork and the head  *)
(* block removed from the block database.                                  *)
InStep == fhead \in {None, BaseState.head} /\ BlockDbMirrorsChain

(* close: pending transactions are dropped, then blocks are popped down to *)
(* the last irreversible one, for as long as that works.                   *)
Close ==
  /\ pc = "idle"
  /\ ClearPending(BaseUndo)
  /\ op' = [IdleOp EXCEPT !.base = BaseState]
  /\ down' = IF InStep THEN "close" ELSE "behind"
  /\ pc' = "closing"
  /\ UNCHANGED <<usize, irr, popped, fvars, bdb, disk, before>>

(* Faulty: also pops the last irreversible block.                          *)
RewindOneMore ==
  /\ pc = "closing"
  /\ Num[s.head] >= op.base.lib
  /\ PopBlock("closing", "flush")
  /\ IF pc' = "closing" THEN Erase({s.head}, fdb, live, fhead')
                        ELSE UNCHANGED <<fdb, live>>
  /\ Written
  /\ UNCHANGED <<usize, irr, fsize, psess, pending, disk, down>>

Rewind ==
  /\ pc = "closing"
  /\ Num[s.head] > op.base.lib
  /\ PopBlock("closing", "flush")
  /\ IF pc' = "closing" THEN Erase({s.head}, fdb, live, fhead')
                        ELSE UNCHANGED <<fdb, live>>
  /\ Written
  /\ UNCHANGED <<usize, irr, fsize, psess, pending, disk, down>>

(* object_database::flush, and the process ends.                           *)
Flush ==
  /\ \/ pc = "closing" /\ Num[s.head] <= op.base.lib
     \/ pc = "flush"
  /\ disk' = s
  /\ Fresh(RootState, None, MinUndo)
  /\ fsize' = 1024
  /\ pc' = "down"
  /\ before' = bdb
  /\ UNCHANGED <<bdb, down>>

(* The process dies.  Every seek of a stream writes its buffer out, so     *)
(* only the last store or removal can be lost.                             *)
Crash ==
  /\ pc # "down"
  /\ bdb' \in {bdb, before}
  /\ before' = bdb'
  /\ down' = "crash"
  /\ Fresh(RootState, None, MinUndo)
  /\ fsize' = 1024
  /\ pc' = "down"
  /\ UNCHANGED disk

-----------------------------------------------------------------------------
(* open: the saved state, or genesis without one; the last block becomes   *)
(* the fork database's only item.  The assertion refuses a state that does *)
(* not match it, except at block 0.                                        *)
Loaded == IF disk = None THEN RootState ELSE disk
Matches == LastBlock = None \/ LastBlock = Loaded.head \/ Num[Loaded.head] = 0

Open ==
  /\ pc = "down"
  /\ Matches
  /\ Fresh(Loaded, LastBlock, MinUndo)
  /\ pc' = "idle"
  /\ UNCHANGED <<fsize, bdb, disk, before, down>>

(* apply_block as reindex calls it: no deduplication (neither checked nor  *)
(* recorded), no TaPoS; recording of undo states is off.                   *)
ReplayTx(st, t) ==
  IF /\ st # None
     /\ Num[st.head] > 0 => /\ Time[st.head] <= Expiration[t]
                            /\ Expiration[t] <= Time[st.head] + MaxLifetime
     /\ \A c \in Conflicts[t] : st.done[c] = 0
  THEN [ApplyTx(st, t) EXCEPT !.seen = st.seen] ELSE None

(* The transactions of a block in order; None once one fails.              *)
ReplayTxs(st, ts) ==
  LET after[i \in 0..Len(ts)] == IF i = 0 THEN st ELSE ReplayTx(after[i - 1], ts[i])
  IN after[Len(ts)]

(* Faulty: the replay leaves the last irreversible block where it was.     *)
ReplayBlockKeepsLib(st, b) ==
  LET after == IF st # None /\ Prev[b] = st.head THEN ReplayTxs(st, Txs[b]) ELSE None
  IN IF after = None THEN None ELSE ClearExpired(AdvanceHead(after, b))

ReplayBlock(st, b) ==
  LET after == IF /\ st # None /\ b \in Valid /\ Prev[b] = st.head /\ Time[st.head] < Time[b]
                  /\ Num[b] - st.lib < MaxUndo
               THEN ReplayTxs(st, Txs[b]) ELSE None
  IN IF after = None THEN None ELSE ClearExpired(UpdateLib(AdvanceHead(after, b)))

(* The state after blocks 1..n, and how far they reach without a gap.      *)
Reach == CHOOSE n \in 0..MaxNum :
           /\ \A i \in 1..n : FetchByNum(i) # None
           /\ n < MaxNum => FetchByNum(n + 1) = None
Replayed[n \in 0..MaxNum] ==
  IF n = 0 THEN RootState ELSE ReplayBlock(Replayed[n - 1], FetchByNum(n))

(* reindex: the object database is wiped, open() starts at genesis with    *)
(* the last block in the fork database, the blocks are applied up to a     *)
(* gap, and what lies behind the gap is dropped from the block database.   *)
Reindex ==
  /\ pc = "down"
  /\ Replayed[Reach] # None
  /\ LET lib == IF Reach = 0 THEN 0 ELSE Replayed[Reach - 1].lib
         n   == IF Reach = 0 THEN MinUndo ELSE Reach - lib + 1
     IN Fresh(Replayed[Reach], LastBlock, n) /\ fsize' = IF Reach = 0 THEN 1024 ELSE n
  /\ bdb' = [n \in 0..MaxNum |-> IF n > Reach + 1 THEN [bdb[n] EXCEPT !.data = None] ELSE bdb[n]]
  /\ disk' = None
  /\ pc' = "idle"
  /\ Written
  /\ UNCHANGED down

-----------------------------------------------------------------------------
RInit == Init /\ disk = None /\ before = bdb /\ down = "crash"

RNext ==
  \/ Next /\ Written /\ UNCHANGED <<disk, down>>
  \/ Close
  \/ Rewind
  \/ Flush
  \/ Crash
  \/ Open
  \/ Reindex

(* Opening is a matter of starting the node again; push_block and close    *)
(* run to their end unless the node crashes.                               *)
RSpec == RInit /\ [][RNext]_rvars

-----------------------------------------------------------------------------
(* Properties                                                              *)

(* What a chain state says apart from the deduplication index.             *)
Ledger(st) == [head |-> st.head, lib |-> st.lib, conf |-> st.conf, done |-> st.done]

(* Whatever sequence of pushes, closes, crashes, opens and replays led to  *)
(* it, a running node's state is the one its head's chain leads to.        *)
LedgerIsReplay == pc = "idle" => Ledger(BaseState) = Ledger(Replay[BaseState.head])

(* A node that was closed in step opens again: the saved state and the     *)
(* last block on disk agree, also when the rewind of close() ran out of    *)
(* undo history half way to the last irreversible block, as it does soon   *)
(* after a start.                                                          *)
ClosedReopens == (pc = "down" /\ down = "close") => Matches

(* The same of every close(), as its comment has it: it pops all of the    *)
(* blocks that it can given the undo history.                              *)
CloseAlwaysReopens == (pc = "down" /\ down # "crash") => Matches

(* close() keeps every irreversible block.                                 *)
IrreversibleSaved == (pc = "flush" \/ pc = "closing") => Num[s.head] >= op.base.lib
=============================================================================
