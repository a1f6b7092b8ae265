SPECIFICATION Spec
CONSTANTS
  Quotes = {q1, q2}
  Users = {u1}
  TotalLimits = {0}
  UserLimits = {0}
  Budgets = {1}
  Estimates = {1}
  Payouts = {1}
  Nobody = Nobody
  NoReservation = NoReservation
  NoRow = NoRow
INVARIANTS
  BudgetIsACeiling
