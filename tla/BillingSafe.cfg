SPECIFICATION Spec
CONSTANTS
  Payments = {p1, p2}
  Payme = {p1}
  Plans = {pro, biznes}
  Attempts = {a1, a2}
  Calls = {c1, c2}
  MaxTrouble = 1
CHECK_DEADLOCK FALSE
SYMMETRY Symmetry
INVARIANTS TypeOK ExtendsOnce PaidIsServed MonthsAddUp ToldIsPaid
PROPERTIES OneTransaction
