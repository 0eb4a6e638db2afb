SPECIFICATION PartSpec
CONSTANTS
  Request = {r1, r2}
  Plate = {p1}
  NoPlate = NoPlate
  Session = {s1}
  FirstSession = s1
  Violation = {v1}
  PlateOf <- OnePlate
  Penalty <- Two
  Appeal = {a1}
  Adjustment = {w1}
  Reference = {f1}
  FirstReference = f1
  Amounts = {2}
  Waivers = {1}
  MaxInFlight = 2
  MayFail = FALSE
SYMMETRY Symmetry
CHECK_DEADLOCK FALSE
PROPERTIES CancelledIsTerminal
