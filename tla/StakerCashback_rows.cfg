SPECIFICATION Spec
CONSTANTS
  o1 = o1
  Orders = {o1}
  Kinds <- RealKinds
  Callers = {c1}
  Rechecker = rechecker
  Price <- MCPrice
  OperatorBases = {0, 1}
  StakerBase = 2
  CodeRate = 1
  PoolBases = {0, 3}
  ListCap = 1
  NoOrder = NoOrder
  NoTx = NoTx
  NoHand = NoHand
INVARIANTS
  NoFreeBoost
  WireMatchesRecord
  QueuedIsPayable
PROPERTIES
  ImplementsEntitlement
