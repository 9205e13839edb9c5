SPECIFICATION RSpec
CONSTANTS
  Block <- MCBlock
  Root = "g"
  RootNum = 0
  Prev <- MCPrev
  Time <- MCTime
  Signer <- MCSigner
  Txs <- MCTxs
  Valid <- MCBlock
  Miner <- MCMiner
  Tx <- MCTx
  Expiration <- MCExpiration
  RefBlock <- MCRefBlock
  Conflicts <- MCConflicts
  Proposes = {}
  Grows = {}
  MaxBlockTxs = 2
  MaxPending = 1
  MaxLifetime = 7
  MinUndo = 10
  MaxUndo = 10000
  None = None
INVARIANTS LedgerIsReplay ClosedReopens IrreversibleSaved
