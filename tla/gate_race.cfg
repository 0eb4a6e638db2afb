\* Deliveries of entries and exits of one plate racing each other.
CONSTANTS
  Request = {r1, r2, r3}
  Event = {e1, e2, e3}
  NoEvent = NoEvent
  Plate = {p1}
  NoPlate = NoPlate
  Vehicle = {p1}
  Inactive = {}
  Permit = {p1}
  Metered = {p1}
  MaxEntries = 2
  Assigned = {p1}
  Capacity = 0
  ExitPolicy = "WARN"
  RuleActions = {}
  Payload <- ReviewPayload
  DryRun = {FALSE}
  Restrictable = {}
  MaxInFlight = 3
  MayFail = TRUE
SPECIFICATION Spec
SYMMETRY Symmetry
INVARIANTS OneOpenSession AnswersAgree CommitsWhole
PROPERTIES ReplayIsHarmless ImplementsLedger
