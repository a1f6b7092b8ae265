SPECIFICATION FairSpec
CONSTANTS
  Purchases = {a}
  Memos = {m, n}
  Commented = {n}
  MaxTxs = 2
  MaxAsks = 2
  one = one
  Runs = {one}
  MaxSwitches = 1
  MaxRatings = 1
  PageSize = 1
  TickSize = 1
  NoPurchase = NoPurchase
  NoMemo = NoMemo
  NoOne = NoOne
INVARIANT HistoryIsIndexed
PROPERTY PaymentsAreSettled
CHECK_DEADLOCK FALSE
