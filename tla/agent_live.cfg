\* The queue drains, one row at a time.
CONSTANTS
  Event = {e1, e2, e3}
  Plate = {p1}
  NoPlate = NoPlate
  Payload <- Passages
  Handler = {h1, h2}
  Uploader = {u1}
  NoEvent = NoEvent
  Verdict = {"ALLOW"}
  Snapshot = {}
  NoSnapshot = NoSnapshot
  Malformed = {e3}
  Limit = 1
  MaxFaults = 2
SPECIFICATION FairSpec
PROPERTY EveryRowEntered
