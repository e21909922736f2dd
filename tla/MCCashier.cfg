CONSTANTS
  p = p w1 = w1 w2 = w2 d = d c1 = c1 c2 = c2
  Players = {p}
  House = {"external", "clearing"}
  Opening <- OneWallet
  Withdrawals = {w1, w2}
  Deposits = {d}
  Owner <- TheOwner
  Amount <- Cents
  Calls = {c1, c2}
  MaxRepairs = 1
SPECIFICATION Spec
SYMMETRY Interchangeable
INVARIANTS NeverOverdrawn RowsAreBacked OutsideIsExplained
\* Every request may be settled: then there is nothing left to do.
CHECK_DEADLOCK FALSE
