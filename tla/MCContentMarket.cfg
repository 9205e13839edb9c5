SPECIFICATION Spec
CONSTANTS
  ann = ann
  bob = bob
  cat = cat
  s1 = s1
  s2 = s2
  Account = {ann, bob, cat, s1, s2}
  Author = {ann}
  Consumer = {cat}
  Seeder = {s1, s2}
  URI = {"u1"}
  Splits <- OneSplit
  Subscribed = {}
  Fees = {2}
  Prices <- DctOnly
  Payments <- DctOnly
  Durations = {3}
  SeederPrices = {1}
  Size = 1
  Space = 3
  Rate = 2
  Feed = 3
  Wealth = 7
  Pool = 0
  Parameters <- OneTwo
  Day = 2
  Word = 16
  MaxSlots = 2
  MaxTime = 6
  MaxMaints = 2
  None = None
SYMMETRY Seeders
CHECK_DEADLOCK FALSE
INVARIANTS TypeOK Conservation SettledOnce RefundedInTime AlignedEscrowReturned
