SPECIFICATION Spec
CONSTANTS
  Rows = {r1, r2}
  TestRows = {}
  PrizeRows = {r2}
  WalletStates = {TRUE, FALSE}
  Window = 1
  Skew = 0
  QueuedBatch = 1
  BroadcastBatch = 1
  MaxHeight = 3
  NoTx = NoTx
  NoRow = NoRow
  TestHash = TestHash
INVARIANTS
  PaidIsFinal
  RetiredIsDead
  AtMostOneCredit
  WireIsOnRecord
PROPERTIES
  SignatureOnlyRetired
  ImplementsObligation
