\* Rules that override the decision, readings that need review, restrictions
\* set and lifted meanwhile, dry runs, device-tagged readings.
CONSTANTS
  Request = {r1, r2}
  Event = {e1, e2}
  NoEvent = NoEvent
  Plate = {p1, p2, p3}
  NoPlate = NoPlate
  Vehicle = {p1, p2}
  Inactive = {p2}
  Permit = {p1}
  Metered = {}
  MaxEntries = 0
  Assigned = {}
  Capacity = 0
  ExitPolicy = "WARN"
  RuleActions <- AllRuleActions
  Payload <- AnyPayload
  DryRun = {FALSE, TRUE}
  Restrictable = {p1, p3}
  MaxInFlight = 2
  MayFail = TRUE
SPECIFICATION Spec
SYMMETRY Symmetry
INVARIANTS TypeOK SafetyLock RestrictedKeptOut
