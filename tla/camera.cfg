CONSTANTS
  Bodies <- MCBodies
  Plates = {"p1"}
  MaxPuts = 1
  MaxGets = 1
  MaxCaptures = 1
  MaxFaults = 1
  Workers = {"w1", "w2"}
  Ttl = 6
  Check = 3
  Nap = 2
  Busy = 3
  MaxAsk = 2
  MaxRedisFaults = 1
  MaxCrashes = 1
  FeedWorkers = {"v1", "v2"}
  NoWorker = "none"
  Requests = {"r1", "r2"}
  Fresh = 1
  SnapTtl = 1
  Cooldown = 2
  Slow = 1
  IdleLimit = 1
  MaxFlaps = 2
  MaxServed = 2
SPECIFICATION Spec
INVARIANTS
  TypeOK
  EventsSound
  OneLeader
  
PROPERTIES
  ConfigReachesCameras
  CamerasGetAReader
  FeedRecovers
CHECK_DEADLOCK FALSE
