\* Every request ends, whoever waits for whose lock.
CONSTANTS
  Request = {r1, r2, r3}
  Event = {e1, e2}
  NoEvent = NoEvent
  Plate = {p1}
  NoPlate = NoPlate
  Vehicle = {p1}
  Inactive = {}
  Permit = {p1}
  Metered = {}
  MaxEntries = 0
  Assigned = {}
  Capacity = 0
  ExitPolicy = "WARN"
  RuleActions = {}
  Payload <- TaggedPayload
  DryRun = {FALSE, TRUE}
  Restrictable = {}
  MaxInFlight = 3
  MayFail = FALSE
SPECIFICATION FairSpec
PROPERTY EveryRequestEnds
