CONSTANTS
  Jobs = {"w1", "w2", "officer"}
  Officer = "officer"
  Keys = {"k1", "k2"}
  CarPlates = {"P1", "P2"}
  Sheets <- MCSheets
  MaxRows = 2
  MaxVehicles = 3
  MaxOfficeActs = 2
  MaxDbFaults = 1
  Users = {"admin", "guard"}
  Visitors = {"guard"}
  RoleNames = {"ADMIN", "GUARD"}
  Perms = {"user.manage"}
  Clients = {"c1", "c2"}
  MAX_FAILED_LOGINS = 2
  MaxTokens = 3
  MaxAdmin = 2
  MaxWrong = 2
  Codes = {"Y1"}
  Towered = {}
  YardCars = {"c1", "c2"}
  Desks = {"d1", "d2"}
  Declared = 2
  Patches <- MCPatches
  MaxAssigned = 2
  MaxEntries = 2
  MaxEdits = 2
  PlatesR = {"p1", "p2"}
  Gates = {"g1"}
  Forms <- MCForms
  Bans <- MCBans
  Clerks = {"k1", "k2"}
  End = 1
  MaxVehiclesR = 1
  MaxPermits = 1
  MaxBans = 1
  MaxChanges = 1
  MaxReads = 1
  Policies <- MCPolicies
  MaxLength = 60
  Pieces <- MCPieces
  MaxPieces = 4
  Callers = {"u1", "u2"}
  SimWorkers = {"w1"}
  Sids = {"SIM-02", "SIM-06", "SIM-07", "SIM-09", "SIM-11", "SIM-12"}
  Plated = {"ALI1", "BAN1"}
  MaxInputs = 2
  Tickers = {"loop", "r1"}
  Loop = "loop"
  Registered = {"p1", "p2"}
  Guests = {"g"}
  MaxEvents = 4
  MaxStarts = 3
  Owners = {"ali", "maryam"}
  StrangerCars = {"str1"}
  MaxRequests = 3
  Rules = {"r1", "r2"}
  Tariffs = {"t1", "t2"}
  Admins = {"a1", "a2"}
  RuleBodies <- MCRuleBodies
  Facts = {"has_debt"}
  Stored <- MCStored
  MaxActs = 4
SPECIFICATION Spec
INVARIANTS
  TypeOK
  SyncSound
  SessionsSound
  YardSound
  RegistrySound
  TariffSound
  PlateSound
  PoliciesSound
  SimulatorSound
  NoStepSkipped
CHECK_DEADLOCK FALSE
