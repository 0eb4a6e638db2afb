\* Handlers, uploads, restarts, timeouts and errors interleaved.
CONSTANTS
  Event = {e1, e2, e3}
  Plate = {p1}
  NoPlate = NoPlate
  Payload <- Entries
  Handler = {h1, h2}
  Uploader = {u1, u2}
  NoEvent = NoEvent
  Verdict = {"ALLOW", "DENY"}
  Snapshot <- OneSnapshot
  NoSnapshot = NoSnapshot
  Malformed = {e3}
  Limit = 2
  MaxFaults = 2
SPECIFICATION Spec
SYMMETRY Symmetry
INVARIANTS TypeOK NoReadingLost OnlineAnswersStand
PROPERTY RowsLeaveEntered
