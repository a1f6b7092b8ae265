SPECIFICATION FairSpec
CONSTANTS
  Rows = {r1, t1}
  TestRows = {t1}
  PrizeRows = {}
  WalletStates = {TRUE}
  Window = 1
  Skew = 0
  QueuedBatch = 1
  BroadcastBatch = 1
  MaxHeight = 3
  NoTx = NoTx
  NoRow = NoRow
  TestHash = TestHash
INVARIANTS
  TestStaysOffChain
PROPERTIES
  EventuallyPaid
