SPECIFICATION Spec
CONSTANTS
  a = a
  b = b
  rated = rated
  one = one
  two = two
  Purchases = {a, b}
  Memos = {rated}
  Commented = {}
  MaxTxs = 1
  MaxAsks = 2
  Runs = {one, two}
  MaxSwitches = 0
  MaxRatings = 2
  PageSize = 2
  TickSize = 1
  NoPurchase = NoPurchase
  NoMemo = NoMemo
  NoOne = NoOne
INVARIANTS
  RatingsArePaid
PROPERTIES
  OnlyPhantomsSleep
  RefusalsKeep
SYMMETRY Alike
CHECK_DEADLOCK FALSE
