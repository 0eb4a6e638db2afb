SPECIFICATION PartSpec
CONSTANTS
  Request = {r1, r2, r3, r4}
  Plate = {p1}
  NoPlate = NoPlate
  Session = {s1, s2}
  FirstSession = s1
  Violation = {v1}
  PlateOf <- OnePlate
  Penalty <- Two
  Appeal = {a1}
  Adjustment = {w1}
  Reference = {f1, f2}
  FirstReference = f1
  Amounts = {1, 2, 3}
  Waivers = {1, 2}
  MaxInFlight = 3
  MayFail = TRUE
SYMMETRY Symmetry
CHECK_DEADLOCK FALSE
INVARIANTS TypeOK OneChargePerViolation CancelledOwesNothing OnePaymentPerReference CreditSpentOnce SerialBooks SerialVerdicts
