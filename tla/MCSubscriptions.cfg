CONSTANTS
  n1 = n1
  n2 = n2
  ann = ann
  bob = bob
  cid = cid
  dan = dan
  Nodes = {n1}
  Consumers = {ann, bob}
  Authors = {cid}
  Terms <- MCTerms
  Rates = {0, 1}
  Prices = {1}
  Funds = 2
  Interval = 2
  MaxGap = 2
  MaxTime = 4
  MaxSubs = 2
  MaxUndone = 1
SPECIFICATION Spec
INVARIANTS TypeOK RenewedAsAgreed
PROPERTIES StoppedOnlyUnpaid PassedOverOnlyByStop
CHECK_DEADLOCK FALSE
