CONSTANTS
  n1 = n1
  n2 = n2
  ann = ann
  bob = bob
  cid = cid
  dan = dan
  Nodes = {n1, n2}
  Consumers = {ann}
  Authors = {cid, dan}
  Terms <- MCTermsDct
  Rates = {0}
  Prices = {1}
  Funds = 3
  Interval = 2
  MaxGap = 2
  MaxTime = 4
  MaxSubs = 2
  MaxUndone = 1
SPECIFICATION Spec
INVARIANT NodesAgree
CHECK_DEADLOCK FALSE
