--------------------------- MODULE ChainDatabase ---------------------------
(***************************************************************************)
(* chain::database: how blocks and transactions change the chain state.    *)
(* push_block with its fork switch and its recovery from a bad fork,       *)
(* pop_block, push_transaction, generate_block, the pending transactions   *)
(* kept across a block, fork_database, block_database and the undo history *)
(* (as SnapshotStack: whole states; UndoDatabase shows that the code's     *)
(* undo states implement that).                                            *)
(*                                                                         *)
(* The node is single threaded here: push_block runs to its end before the *)
(* next call.  Its loops are split into steps of `pc'; nothing else is     *)
(* enabled until it is back to "idle".                                     *)
(*                                                                         *)
(* Blocks are a fixed tree of candidates, pushed in any order, repeatedly, *)
(* or generated here.  Header, signature, merkle and schedule checks are   *)
(* the constant Valid.                                                     *)
(***************************************************************************)
EXTENDS Integers, Sequences, FiniteSets, SequencesExt

CONSTANTS
  Block,        \* candidate blocks
  Root,         \* the block the node starts on, irreversible
  RootNum,      \* its number; 0: genesis, nothing in any store
  Prev,         \* [Block -> Block \cup {Root}]
  Time,         \* [Block \cup {Root} -> Nat]: timestamps
  Signer,       \* [Block -> Miner]
  Txs,          \* [Block \cup {Root} -> Seq(Tx)]
  Valid,        \* blocks whose own checks succeed
  Miner,        \* active miners
  Tx,           \* transactions
  Expiration,   \* [Tx -> Nat]
  RefBlock,     \* [Tx -> Block \cup {Root}]: the TaPoS reference
  Conflicts,    \* [Tx -> SUBSET Tx]: what makes its evaluation fail once applied
  Proposes,     \* transactions that execute a proposal (a nested session)
  Grows,        \* transactions whose results outgrow their size estimate
  MaxBlockTxs,  \* bound: transactions that fit into a generated block
  MaxPending,   \* bound: pending transactions
  MaxLifetime,  \* maximum_time_until_expiration
  MinUndo,      \* GRAPHENE_MIN_UNDO_HISTORY
  MaxUndo,      \* GRAPHENE_MAX_UNDO_HISTORY
  None          \* null pointer, empty slot

Node == Block \cup {Root}

(* Every block has one parent, and following parents leads to Root.        *)
ASSUME TreeAssumption ==
  /\ Root \notin Block /\ None \notin Node
  /\ Prev \in [Block -> Node]
  /\ \A S \in SUBSET Block : S # {} => \E b \in S : Prev[b] \notin S

ASSUME BlockAssumption ==
  /\ Valid \subseteq Block
  /\ Time \in [Node -> Nat] /\ Txs \in [Node -> Seq(Tx)] /\ Signer \in [Block -> Miner]
  /\ RootNum \in Nat

ASSUME TxAssumption == Expiration \in [Tx -> Nat] /\ Conflicts \in [Tx -> SUBSET Tx]

ASSUME MinerAssumption == IsFiniteSet(Miner) /\ Miner # {}

(* A pending session and a session inside it always fit.                   *)
ASSUME UndoAssumption == MinUndo \in Nat /\ MinUndo >= 2

VARIABLES
  s,        \* the object database: see ChainState
  undo,     \* undo_database::_stack as the states it restores, oldest first
  usize,    \* undo_database::_max_size
  irr,      \* history: the highest last_irreversible_block_num so far
  psess,    \* _pending_tx_session is valid; its undo entry is then the newest
  pending,  \* _pending_tx
  popped,   \* _popped_tx
  fdb,      \* fork_database::_index: the blocks it holds
  live,     \* blocks whose fork_item::prev still points to an item
  fhead,    \* fork_database::_head
  fsize,    \* fork_database::_max_size
  bdb,      \* block_database: by number, the id in the index and the block read
  pc,       \* where push_block is
  op        \* its locals

vars  == <<s, undo, usize, irr, psess, pending, popped, fdb, live, fhead, fsize, bdb, pc, op>>
dbvars == <<s, undo, usize, irr>>            \* the object database
fvars == <<fdb, live, fhead, fsize>>         \* the fork database

(* block_num, and the chain of blocks from Root to a block.                *)
Num[b \in Node]   == IF b = Root THEN RootNum ELSE Num[Prev[b]] + 1
Chain[b \in Node] == IF b = Root THEN <<Root>> ELSE Append(Chain[Prev[b]], b)
MaxNum == CHOOSE n \in {Num[b] : b \in Node} : \A b \in Node : Num[b] <= n

OnChain(h) == ToSet(Chain[h])
Parent(b)  == IF b = Root THEN None ELSE Prev[b]

-----------------------------------------------------------------------------
(* The chain state and what a transaction and a block do to it             *)

(* head_block_id, last_irreversible_block_num, every miner's               *)
(* last_confirmed_block_num, the deduplication index, and how often each   *)
(* transaction's operations have been evaluated (at most 2 is counted).    *)
ChainState == [head : Node, lib : Nat, conf : [Miner -> Nat],
               seen : SUBSET Tx, done : [Tx -> 0..2]]

ASSUME NoneAssumption == None \notin ChainState

RootState == [head |-> Root, lib |-> RootNum, conf |-> [m \in Miner |-> RootNum],
              seen |-> {}, done |-> [t \in Tx |-> 0]]

(* _apply_transaction succeeds.                                            *)
TxApplies(st, t) ==
  /\ t \notin st.seen
  /\ Num[st.head] > 0 => /\ RefBlock[t] \in OnChain(st.head)
                         /\ Time[st.head] <= Expiration[t]
                         /\ Expiration[t] <= Time[st.head] + MaxLifetime
  /\ \A c \in Conflicts[t] : st.done[c] = 0

ApplyTx(st, t) ==
  [st EXCEPT !.seen = @ \cup {t}, !.done[t] = IF @ < 2 THEN @ + 1 ELSE @]

(* The transactions of a block one after the other; None once one fails.   *)
ApplyTxs(st, ts) ==
  LET after[i \in 0..Len(ts)] ==
        IF i = 0 THEN st
        ELSE IF after[i - 1] # None /\ TxApplies(after[i - 1], ts[i])
        THEN ApplyTx(after[i - 1], ts[i]) ELSE None
  IN after[Len(ts)]

(* update_last_irreversible_block: the offset-th smallest confirmation.    *)
LibOffset == (3000 * Cardinality(Miner)) \div 10000
NthConfirmed(conf) ==
  CHOOSE n \in {conf[m] : m \in Miner} :
    /\ Cardinality({m \in Miner : conf[m] < n}) <= LibOffset
    /\ Cardinality({m \in Miner : conf[m] <= n}) > LibOffset

UpdateLib(st) ==
  [st EXCEPT !.lib = IF NthConfirmed(st.conf) > @ THEN NthConfirmed(st.conf) ELSE @]

(* Faulty: also forgets a transaction that expires right at head time,     *)
(* which _apply_transaction still accepts.                                 *)
ClearExpiredEarly(st) ==
  [st EXCEPT !.seen = IF \E t \in @ : Expiration[t] > Time[st.head] THEN @ ELSE {}]

(* clear_expired_transactions: looks at the latest expiration only.        *)
ClearExpired(st) ==
  [st EXCEPT !.seen = IF \E t \in @ : Expiration[t] >= Time[st.head] THEN @ ELSE {}]

(* Faulty: confirms a block that does not exist yet.                       *)
AdvanceHeadFar(st, b) ==
  [st EXCEPT !.head = b, !.conf[Signer[b]] = Num[b] + 1]

(* update_global_dynamic_data and update_signing_miner.                    *)
AdvanceHead(st, b) ==
  [st EXCEPT !.head = b, !.conf[Signer[b]] = Num[b]]

(* _apply_block: None when it throws.                                      *)
ApplyBlock(st, b) ==
  IF \/ b \notin Valid \/ Prev[b] # st.head \/ Time[st.head] >= Time[b]
     \/ Num[b] - st.lib >= MaxUndo
  THEN None
  ELSE LET after == ApplyTxs(st, Txs[b])
       IN IF after = None THEN None ELSE ClearExpired(UpdateLib(AdvanceHead(after, b)))

-----------------------------------------------------------------------------
(* Undo sessions on the stack of saved states                              *)

(* start_undo_session drops the oldest entries beyond the limit.           *)
Trim(u, n)       == IF Len(u) <= n THEN u ELSE SubSeq(u, Len(u) - n + 1, Len(u))
Opened(u, n, st) == Append(Trim(u, n), st)

(* undo(): the newest entry goes; an empty stack gets a fresh entry.       *)
Undone(u) == IF Len(u) = 1 THEN u ELSE Front(u)

(* The state and stack once _pending_tx_session.reset() has run.           *)
BaseState == IF psess THEN Last(undo) ELSE s
BaseUndo  == IF psess THEN Undone(undo) ELSE undo

-----------------------------------------------------------------------------
(* fork_database                                                           *)

(* Items erased from the index: pointers to them die.  An erased head is   *)
(* kept alive by _head.                                                    *)
Erase(gone, keep, lv, hd) ==
  /\ fdb' = keep \ gone
  /\ live' = {b \in lv : Prev[b] \notin gone /\ (b \in keep \ gone \/ b = hd)}

(* Faulty: the unsigned subtraction without std::min wraps around.         *)
TooOldWraps(hd, n) == {b \in Node : n > Num[hd] \/ Num[b] < Num[hd] - n}

(* The blocks below the range that is kept.                                *)
TooOld(hd, n) == {b \in Node : Num[b] < Num[hd] - n}

(* fork_database::push_block refuses the block.                            *)
ForkRefuses(b) ==
  /\ fhead # None
  /\ \/ Num[b] <= 0 \/ Num[b] <= Num[fhead] - fsize
     \/ Num[Prev[b]] > 0 /\ Prev[b] \notin fdb

(* Faulty: a fork must be two blocks longer.                               *)
LongestAfterTwo(b) == IF fhead = None \/ Num[b] > Num[fhead] + 1 THEN b ELSE fhead

(* _head after a push.                                                     *)
Longest(b) == IF fhead = None \/ Num[b] > Num[fhead] THEN b ELSE fhead

(* fork_database::_push_block: link, insert, and drop what got too old.    *)
ForkPush(b) ==
  LET linked == fhead # None /\ Num[Prev[b]] > 0
      lv     == IF b \in fdb THEN live ELSE IF linked THEN live \cup {b} ELSE live \ {b}
      gone   == IF fhead # None /\ Longest(b) # fhead THEN TooOld(b, fsize) ELSE {}
  IN /\ fhead' = Longest(b)
     /\ Erase(gone, fdb \cup {b}, lv, Longest(b))

(* Faulty: head - last_irreversible, without the + 1.                      *)
SetSizesShort(n) ==
  /\ usize' = n - 1
  /\ fsize' = n - 1
  /\ fhead' = fhead
  /\ Erase(IF fhead = None THEN {} ELSE TooOld(fhead, n - 1), fdb, live, fhead)

(* set_max_size on both databases, by update_global_dynamic_data.          *)
SetSizes(n) ==
  /\ usize' = n
  /\ fsize' = n
  /\ fhead' = fhead
  /\ Erase(IF fhead = None THEN {} ELSE TooOld(fhead, n), fdb, live, fhead)

(* update_last_irreversible_block, as far as the history is concerned.     *)
NoteLib(st) == irr' = IF st.lib > irr THEN st.lib ELSE irr

(* fetch_branch_from: both branches, oldest block first, from the common   *)
(* parent on; None when an item or a pointer on the way is gone.           *)
Meet(f, h) ==
  LET ok(i) == Parent(Chain[f][i]) = Parent(Chain[h][i])
      n     == IF Num[f] < Num[h] THEN Len(Chain[f]) ELSE Len(Chain[h])
  IN CHOOSE i \in 1..n : ok(i) /\ \A j \in 1..n : ok(j) => j <= i

Branches(f, h, index, lv) ==
  IF {f, h} \subseteq index
  THEN LET m == Meet(f, h)
           first  == SubSeq(Chain[f], m, Len(Chain[f]))
           second == SubSeq(Chain[h], m, Len(Chain[h]))
       IN IF ToSet(Tail(first)) \cup ToSet(Tail(second)) \subseteq lv
          THEN [first |-> first, second |-> second] ELSE None
  ELSE None

-----------------------------------------------------------------------------
(* block_database: an index entry per number and the block it leads to     *)

EmptySlot == [id |-> None, data |-> None]

(* Faulty: the slot of the previous block.                                 *)
StoreBelow(id, b) == [bdb EXCEPT ![Num[id] - 1] = [id |-> id, data |-> b]]

Store(id, b)    == [bdb EXCEPT ![Num[id]] = [id |-> id, data |-> b]]
FetchByNum(n)   == IF bdb[n].data = bdb[n].id THEN bdb[n].data ELSE None
FetchById(id)   == IF bdb[Num[id]].id = id THEN FetchByNum(Num[id]) ELSE None
Removed(id)     == IF bdb[Num[id]].id = id THEN [bdb EXCEPT ![Num[id]].data = None] ELSE bdb
BeyondEnd(id)   == \A n \in Num[id]..MaxNum : bdb[n] = EmptySlot

-----------------------------------------------------------------------------
(* push_block                                                              *)

IdleOp == [new |-> None, first |-> <<>>, second |-> <<>>, left |-> <<>>, kept |-> <<>>,
           threw |-> FALSE, base |-> None, was |-> {}]

(* Faulty: the block is applied on top of the pending transactions.        *)
ClearPendingLate(u) == s' = s /\ undo' = undo /\ psess' = FALSE /\ pending' = <<>>

(* clear_pending, with the undo history u that is left.                    *)
ClearPending(u) == s' = BaseState /\ undo' = u /\ psess' = FALSE /\ pending' = <<>>

(* without_pending_transactions, then _push_block as far as the fork       *)
(* database's answer decides the way on.                                   *)
Push(b, u) ==
  /\ ClearPending(u)
  /\ LET o == [IdleOp EXCEPT !.new = b, !.kept = pending, !.base = BaseState,
                              !.was = s.seen]
     IN IF ForkRefuses(b)
        THEN /\ op' = [o EXCEPT !.threw = TRUE]
             /\ pc' = "requeue"
             /\ UNCHANGED <<fdb, live, fhead>>
        ELSE /\ ForkPush(b)
             /\ IF Parent(fhead') = s'.head
                THEN pc' = "direct" /\ op' = o
                ELSE IF Num[fhead'] <= Num[s'.head]
                THEN pc' = "requeue" /\ op' = o
                ELSE LET br == Branches(fhead', s'.head, fdb', live')
                     IN IF br = None
                        THEN pc' = "requeue" /\ op' = [o EXCEPT !.threw = TRUE]
                        ELSE pc' = "pop" /\ op' = [o EXCEPT !.first = br.first, !.left = br.first,
                                                            !.second = br.second]
  /\ UNCHANGED <<usize, irr, popped, fsize, bdb>>

PushBlock(b) == pc = "idle" /\ Push(b, BaseUndo)

(* The block builds on the head: apply it in a session of its own; after   *)
(* the commit a second session around the observers is merged into it.     *)
ApplyDirect ==
  /\ pc = "direct"
  /\ LET b == op.new
         after == ApplyBlock(s, b)
     IN IF after # None
        THEN /\ s' = after
             /\ SetSizes(Num[b] - s.lib + 1)
             /\ NoteLib(after)
             /\ undo' = Trim(Opened(undo, usize, s), Num[b] - s.lib + 1)
             /\ bdb' = Store(b, b)
             /\ op' = op
        ELSE /\ Erase({b}, fdb, live, fhead)
             /\ undo' = Undone(Opened(undo, usize, s))
             /\ op' = [op EXCEPT !.threw = TRUE]
             /\ UNCHANGED <<s, usize, irr, fhead, fsize, bdb>>
  /\ pc' = "requeue"
  /\ UNCHANGED <<psess, pending, popped>>

(* Faulty: the transactions of a popped block are dropped.                 *)
ForgetPopped == popped' = popped

(* pop_block puts the block's transactions in front of _popped_tx.         *)
KeepPopped == popped' = Txs[s.head] \o popped

(* Faulty: the block is removed before the fork database has given up its  *)
(* head.                                                                   *)
PopBlockRemovesFirst(next, thrown) ==
  IF (s.head \notin fdb /\ FetchById(s.head) = None) \/ fhead = None \/ fhead \notin live
  THEN /\ op' = [op EXCEPT !.threw = TRUE]
       /\ pc' = thrown
       /\ bdb' = IF BeyondEnd(s.head) THEN bdb ELSE Removed(s.head)
       /\ UNCHANGED <<s, undo, popped, fhead>>
  ELSE /\ fhead' = Prev[fhead]
       /\ bdb' = IF BeyondEnd(s.head) THEN bdb ELSE Removed(s.head)
       /\ IF BeyondEnd(s.head) \/ undo = <<>>
          THEN op' = [op EXCEPT !.threw = TRUE] /\ pc' = thrown /\ UNCHANGED <<s, undo, popped>>
          ELSE s' = Last(undo) /\ undo' = Front(undo) /\ KeepPopped /\ op' = op /\ pc' = next

(* pop_block: fork database, block database and only then the undo         *)
(* history; an exception (on to pc = thrown) leaves what was done.         *)
PopBlock(next, thrown) ==
  IF (s.head \notin fdb /\ FetchById(s.head) = None) \/ fhead = None \/ fhead \notin live
  THEN /\ op' = [op EXCEPT !.threw = TRUE]
       /\ pc' = thrown
       /\ UNCHANGED <<s, undo, popped, fhead, bdb>>
  ELSE /\ fhead' = Prev[fhead]
       /\ IF BeyondEnd(s.head) \/ undo = <<>>
          THEN /\ op' = [op EXCEPT !.threw = TRUE]
               /\ pc' = thrown
               /\ bdb' = IF BeyondEnd(s.head) THEN bdb ELSE Removed(s.head)
               /\ UNCHANGED <<s, undo, popped>>
          ELSE /\ bdb' = Removed(s.head)
               /\ s' = Last(undo)
               /\ undo' = Front(undo)
               /\ KeepPopped
               /\ op' = op
               /\ pc' = next

ForkParent == Parent(op.second[1])

PopForSwitch ==
  /\ pc = "pop"
  /\ IF s.head # ForkParent
     THEN PopBlock("pop", "requeue") /\ UNCHANGED <<usize, irr, fdb, live, fsize, psess, pending>>
     ELSE pc' = "apply" /\ UNCHANGED <<dbvars, fvars, bdb, psess, pending, popped, op>>

(* One block of the branch that is switched to; on an exception the rest   *)
(* of the branch leaves the fork database and the old head comes back.     *)
ApplyBranch ==
  /\ pc = "apply"
  /\ IF op.left = <<>>
     THEN pc' = "requeue" /\ UNCHANGED <<dbvars, fvars, bdb, op>>
     ELSE LET b == Head(op.left)
              after == ApplyBlock(s, b)
          IN IF after # None
             THEN /\ s' = after
                  /\ SetSizes(Num[b] - s.lib + 1)
                  /\ NoteLib(after)
                  /\ undo' = Opened(undo, usize, s)
                  /\ bdb' = Store(b, b)
                  /\ op' = [op EXCEPT !.left = Tail(@)]
                  /\ pc' = pc
             ELSE /\ undo' = Undone(Opened(undo, usize, s))
                  /\ fhead' = Last(op.second)
                  /\ Erase(ToSet(op.left), fdb, live, Last(op.second))
                  /\ op' = [op EXCEPT !.threw = TRUE, !.left = op.second]
                  /\ pc' = "unwind"
                  /\ UNCHANGED <<s, usize, irr, fsize, bdb>>
  /\ UNCHANGED <<psess, pending, popped>>

(* Pop what was applied of the bad branch.                                 *)
Unwind ==
  /\ pc = "unwind"
  /\ IF s.head # ForkParent
     THEN PopBlock("unwind", "requeue") /\ UNCHANGED <<usize, irr, fdb, live, fsize, psess, pending>>
     ELSE pc' = "restore" /\ UNCHANGED <<dbvars, fvars, bdb, psess, pending, popped, op>>

(* Faulty: the old branch is not applied again.                            *)
RestoreNothing ==
  /\ pc = "restore"
  /\ pc' = "requeue"
  /\ UNCHANGED <<dbvars, fvars, bdb, op, psess, pending, popped>>

(* Apply the old branch again; its blocks are stored under the id of the   *)
(* block that was pushed.                                                  *)
Restore ==
  /\ pc = "restore"
  /\ IF op.left = <<>> \/ ApplyBlock(s, Head(op.left)) = None
     THEN pc' = "requeue" /\ UNCHANGED <<dbvars, fvars, bdb, op>>
     ELSE LET b == Head(op.left)
          IN /\ s' = ApplyBlock(s, b)
             /\ SetSizes(Num[b] - s.lib + 1)
             /\ NoteLib(ApplyBlock(s, b))
             /\ undo' = Opened(undo, usize, s)
             /\ bdb' = Store(op.new, b)
             /\ op' = [op EXCEPT !.left = Tail(@)]
             /\ pc' = pc
  /\ UNCHANGED <<psess, pending, popped>>

-----------------------------------------------------------------------------
(* Transactions                                                            *)

(* Faulty: a transaction that throws is queued all the same.               *)
PushTxAlways(t) ==
  /\ psess' = TRUE
  /\ s' = IF TxApplies(s, t) THEN ApplyTx(s, t) ELSE s
  /\ pending' = Append(pending, t)
  /\ undo' = IF psess THEN undo ELSE Opened(undo, usize, s)

(* _push_transaction: the pending session is opened if need be, then a     *)
(* session for the transaction (and one more for a proposal it executes),  *)
(* merged when it applies and undone when it throws.                       *)
PushTx(t) ==
  LET base  == IF psess THEN undo ELSE Opened(undo, usize, s)
      inner == Opened(base, usize, s)
      deep  == IF t \in Proposes THEN Opened(inner, usize, s) ELSE inner
      drop  == IF t \in Proposes THEN 2 ELSE 1
  IN /\ psess' = TRUE
     /\ IF TxApplies(s, t)
        THEN /\ s' = ApplyTx(s, t)
             /\ pending' = Append(pending, t)
             /\ undo' = SubSeq(deep, 1, Len(deep) - drop)
        ELSE /\ UNCHANGED <<s, pending>>
             /\ undo' = Front(inner)

(* push_transaction: a transaction arrives; one that fails is reported to  *)
(* the caller.                                                             *)
PushTransaction(t) ==
  /\ pc = "idle"
  /\ Len(pending) < MaxPending
  /\ PushTx(t)
  /\ UNCHANGED <<usize, irr, popped, fvars, bdb, pc, op>>

(* The transactions to bring back, those of popped blocks first.           *)
ToRequeue == popped \o op.kept

(* Faulty: a known transaction is skipped without moving on.               *)
TakeNextUnknown ==
  IF Head(ToRequeue) \in s.seen THEN UNCHANGED <<popped, op>>
  ELSE IF popped # <<>> THEN popped' = Tail(popped) /\ op' = op
  ELSE popped' = <<>> /\ op' = [op EXCEPT !.kept = Tail(@)]

TakeNext ==
  IF popped # <<>> THEN popped' = Tail(popped) /\ op' = op
  ELSE popped' = <<>> /\ op' = [op EXCEPT !.kept = Tail(@)]

(* ~pending_transactions_restorer: transactions of popped blocks first,    *)
(* then the ones that were pending, each unless it is known by now.        *)
Requeue ==
  /\ pc = "requeue"
  /\ IF ToRequeue = <<>>
     THEN /\ pc' = "idle"
          /\ op' = IdleOp
          /\ UNCHANGED <<s, undo, psess, pending, popped>>
     ELSE /\ pc' = pc
          /\ TakeNext
          /\ IF Head(ToRequeue) \in s.seen
             THEN UNCHANGED <<s, undo, psess, pending>>
             ELSE PushTx(Head(ToRequeue))
  /\ UNCHANGED <<usize, irr, fvars, bdb>>

(* _generate_block: of the pending transactions, in order, those that fit  *)
(* and still apply to the head state.                                      *)
Selected ==
  FoldLeft(LAMBDA a, t : IF Len(a.txs) < MaxBlockTxs /\ TxApplies(a.st, t)
                         THEN [txs |-> Append(a.txs, t), st |-> ApplyTx(a.st, t)] ELSE a,
           [txs |-> <<>>, st |-> BaseState], pending).txs

(* The last one outgrows its estimate in a block that is full.             *)
TooBig(ts) == Len(ts) = MaxBlockTxs /\ Last(ts) \in Grows

(* The sessions of _generate_block: the pending one reopened, one per      *)
(* transaction inside it, and everything undone again.                     *)
GenerateUndo ==
  LET u == Opened(BaseUndo, usize, BaseState)
      v == IF pending = <<>> THEN u ELSE Front(Opened(u, usize, BaseState))
      w == IF \E i \in 1..Len(pending) : pending[i] \in Proposes
           THEN Front(Front(Opened(Opened(v, usize, BaseState), usize, BaseState))) ELSE v
  IN Undone(w)

(* The block is built and pushed like any other.  When its packed size     *)
(* exceeds the limit after all, the assertion leaves _pending_tx without   *)
(* a session.                                                              *)
GenerateBlock(b) ==
  /\ pc = "idle"
  /\ b \in Valid
  /\ Prev[b] = BaseState.head
  /\ Time[BaseState.head] < Time[b]
  /\ Txs[b] = Selected
  /\ ~TooBig(Selected)
  /\ Push(b, GenerateUndo)

GenerateTooBig ==
  /\ pc = "idle"
  /\ TooBig(Selected)
  /\ s' = BaseState
  /\ undo' = GenerateUndo
  /\ psess' = FALSE
  /\ UNCHANGED <<usize, irr, pending, popped, fvars, bdb, pc, op>>

-----------------------------------------------------------------------------
(* A node that has just opened: at genesis with nothing stored, or on a    *)
(* saved state with its last block in the fork database.                   *)
Init ==
  /\ s = RootState
  /\ undo = <<>>
  /\ usize = MinUndo
  /\ irr = RootNum
  /\ psess = FALSE
  /\ pending = <<>>
  /\ popped = <<>>
  /\ fdb = IF RootNum = 0 THEN {} ELSE {Root}
  /\ live = {}
  /\ fhead = IF RootNum = 0 THEN None ELSE Root
  /\ fsize = 1024
  /\ bdb = [n \in 0..MaxNum |-> IF n = RootNum /\ n > 0 THEN [id |-> Root, data |-> Root]
                                ELSE EmptySlot]
  /\ pc = "idle"
  /\ op = IdleOp

Step == ApplyDirect \/ PopForSwitch \/ ApplyBranch \/ Unwind \/ Restore \/ Requeue

Next ==
  \/ \E b \in Block : PushBlock(b)
  \/ \E t \in Tx : PushTransaction(t)
  \/ \E b \in Block : GenerateBlock(b)
  \/ GenerateTooBig
  \/ Step

(* push_block is a function call: once started it runs on.                 *)
Spec == Init /\ [][Next]_vars /\ WF_vars(Step)

-----------------------------------------------------------------------------
(* Properties                                                              *)

(* The state from replaying a block's whole chain on a fresh database.     *)
Replay[b \in Node] ==
  IF b = Root THEN RootState
  ELSE IF Replay[Prev[b]] = None THEN None ELSE ApplyBlock(Replay[Prev[b]], b)

(* The fields of database, fork_database and block_database hold what they *)
(* are declared to hold.                                                   *)
TypeOK ==
  /\ s \in ChainState
  /\ \A i \in 1..Len(undo) : undo[i] \in ChainState
  /\ usize \in Nat /\ irr \in Nat /\ fsize \in Nat
  /\ psess \in BOOLEAN /\ (psess => undo # <<>>)
  /\ ToSet(pending) \cup ToSet(popped) \subseteq Tx
  /\ fdb \subseteq Node /\ live \subseteq Block /\ fhead \in Node \cup {None}
  /\ bdb \in [0..MaxNum -> [id : Node \cup {None}, data : Node \cup {None}]]
  /\ pc \in {"idle", "direct", "pop", "apply", "unwind", "restore", "requeue"}

(* However the node got to its head - directly, by a fork switch, or back  *)
(* from a failed one, through any number of undos - its state without the  *)
(* pending transactions is the one a replay of the head's chain gives.     *)
StateIsReplay == pc = "idle" => BaseState = Replay[BaseState.head]

(* _pending_tx_session is the result of applying _pending_tx (the          *)
(* invariant _generate_block names in its comment).                        *)
PendingIsApplied == pc = "idle" => s = ApplyTxs(BaseState, pending)

(* A transaction is never evaluated twice on one chain.                    *)
NoDoubleApply == \A t \in Tx : s.done[t] <= 1

(* Every block after the highest one that was ever irreversible can be     *)
(* undone.  (A fork switch takes last_irreversible_block_num back with the *)
(* rest of the state, but not the undo states dropped under it.)           *)
ReversibleUndoable ==
  pc = "idle" =>
    \A b \in OnChain(BaseState.head) :
      (b # BaseState.head /\ Num[b] >= irr) =>
        \E i \in 1..Len(BaseUndo) : BaseUndo[i] = Replay[b]

(* block_database holds exactly the blocks of the chain.                   *)
BlockDbMirrorsChain ==
  pc = "idle" =>
    /\ \A b \in OnChain(BaseState.head) : Num[b] > 0 => FetchByNum(Num[b]) = b
    /\ \A n \in (Num[BaseState.head] + 1)..MaxNum : bdb[n].data = None

(* "If the head block from the longest chain does not build off of the     *)
(* current head, we need to switch forks": no valid chain whose blocks the *)
(* node holds is higher than the head.                                     *)
HeadIsLongest ==
  pc = "idle" =>
    \A b \in fdb :
      (Replay[b] # None /\ OnChain(b) \ {Root} \subseteq fdb \cup OnChain(BaseState.head))
        => Num[b] <= Num[BaseState.head]

(* "Push block "may fail" in which case every partial change is unwound":  *)
(* the chain state is back to what it was.                                 *)
FailedPushUnwound == (pc = "requeue" /\ op.threw) => BaseState = op.base

(* The next block of the chain the node is on can be accepted: the fork    *)
(* database still knows the head.                                          *)
HeadLinkable == (pc = "idle" /\ Num[BaseState.head] > 0) => BaseState.head \in fdb

(* "Look for expired transactions in the deduplication list, and remove    *)
(* them": none is left once a block has been applied.                      *)
ExpiredForgotten ==
  (pc = "idle" /\ BaseState.head # Root) =>
    \A t \in BaseState.seen : Expiration[t] >= Time[BaseState.head]

(* No transaction is lost by a fork switch: what the node held, in a block *)
(* that was popped or pending, is known again or no longer applies.        *)
TransactionsKept ==
  (pc = "requeue" /\ popped = <<>> /\ op.kept = <<>>) => \A t \in op.was : ~TxApplies(s, t)

(* Every push_block returns, also when popping or restoring goes wrong.    *)
PushReturns == pc # "idle" ~> pc = "idle"
=============================================================================
