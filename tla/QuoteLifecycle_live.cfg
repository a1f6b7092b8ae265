SPECIFICATION FairSpec
CONSTANTS
  Quotes = {q1}
  Tracker = Tracker
  Observers = {}
  Requests = {}
  MaxStamp = 0
  MayDeny = FALSE
  CalmsDown = TRUE
  WindowCloses = FALSE
  NoQuote = NoQuote
  NoAnswer = NoAnswer
  NoOrder = NoOrder
PROPERTIES
  MoneyIsSettled
  CreationIsResolved
CHECK_DEADLOCK FALSE
