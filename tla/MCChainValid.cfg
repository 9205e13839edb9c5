SPECIFICATION Spec
CONSTANTS
  Block <- MCBlock
  Root = "r"
  RootNum = 1
  Prev <- MCPrev
  Time <- MCTime
  Signer <- MCSigner
  Txs <- MCTxs
  Valid = {"a2", "a3", "a4", "b2", "b3", "b4", "b5", "c3"}
  Miner <- MCMiner
  Tx <- MCTx
  Expiration <- MCExpiration
  RefBlock <- MCRefBlock
  Conflicts <- MCConflicts
  Proposes = {}
  Grows = {}
  MaxBlockTxs = 2
  MaxPending = 3
  MaxLifetime = 7
  MinUndo = 10
  MaxUndo = 10000
  None = None
INVARIANTS PendingIsApplied NoDoubleApply ReversibleUndoable BlockDbMirrorsChain HeadIsLongest TransactionsKept
