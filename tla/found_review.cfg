\* Readings that need review, one at a time.
CONSTANTS
  Request = {r1, r2}
  Event = {e1, e2}
  NoEvent = NoEvent
  Plate = {p1}
  NoPlate = NoPlate
  Vehicle = {p1}
  Inactive = {}
  Permit = {p1}
  Metered = {}
  MaxEntries = 0
  Assigned = {}
  Capacity = 0
  ExitPolicy = "WARN"
  RuleActions = {}
  Payload <- ReviewPayload
  DryRun = {FALSE}
  Restrictable = {}
  MaxInFlight = 1
  MayFail = FALSE
SPECIFICATION Spec
SYMMETRY Symmetry
PROPERTY ReviewChangesNothing
