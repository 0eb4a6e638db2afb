\* Requests one at a time: what holds without races.
CONSTANTS
  Request = {r1, r2, r3, r4}
  Event = {e1, e2, e3, e4}
  NoEvent = NoEvent
  Plate = {p1, p2}
  NoPlate = NoPlate
  Vehicle = {p1, p2}
  Inactive = {}
  Permit = {p1, p2}
  Metered = {p1}
  MaxEntries = 1
  Assigned = {p1}
  Capacity = 1
  ExitPolicy = "DENY"
  RuleActions = {"deny", "refer_to_guard"}
  Payload <- CleanPayload
  DryRun = {FALSE}
  Restrictable = {}
  MaxInFlight = 1
  MayFail = FALSE
SPECIFICATION Spec
SYMMETRY Symmetry
INVARIANT SerialSound
PROPERTY ExitLeavesNoSession
