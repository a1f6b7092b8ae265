SPECIFICATION Spec
CONSTANTS
  Quotes = {q1, q2, q3}
  Users = {u1, u2}
  TotalLimits = {1, 2}
  UserLimits = {1}
  Budgets = {2}
  Estimates = {1, 2}
  Payouts = {1}
  Nobody = Nobody
  NoReservation = NoReservation
  NoRow = NoRow
INVARIANTS
  TypeOK
  SlotsAreCounted
  HeldIsReserved
  UsesWithinLimit
  PerUserWithinLimit
  OpenWithinBudget
  SlotsFollowQuotes
SYMMETRY Symmetry
