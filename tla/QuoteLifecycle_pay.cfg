SPECIFICATION Spec
CONSTANTS
  Quotes = {q1}
  Tracker = Tracker
  Observers = {o1}
  Requests = {"lapsed", "launch"}
  MaxStamp = 2
  MayDeny = TRUE
  CalmsDown = FALSE
  WindowCloses = FALSE
  NoQuote = NoQuote
  NoAnswer = NoAnswer
  NoOrder = NoOrder
PROPERTIES
  NeverPayableAgain
  NewerAnswersStay
CHECK_DEADLOCK FALSE
