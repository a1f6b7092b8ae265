SPECIFICATION Spec
CONSTANTS
  Quotes = {q1}
  Tracker = Tracker
  Observers = {o1}
  Requests = {"observe", "resolve", "cancel"}
  MaxStamp = 0
  MayDeny = TRUE
  CalmsDown = FALSE
  WindowCloses = TRUE
  NoQuote = NoQuote
  NoAnswer = NoAnswer
  NoOrder = NoOrder
INVARIANTS
  TypeOK
  DispatchedOnce
  RejectedNeverOrdered
  OutcomesAreReal
PROPERTIES
  ImplementsPromise
