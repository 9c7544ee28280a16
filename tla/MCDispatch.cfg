\* Two calls at once (their ids are used again): safety, refinement, liveness.
CONSTANTS
  c1 = c1
  c2 = c2
  NonString    = NonString
  NoParam      = NoParam
  NoRequest    = NoRequest
  ParsesAsJSON = {}
  ConfigAsJSON = {}
  BadConfig    <- MCBadConfig
  DataFormats  <- MCDataFormats
  CommandClass <- MCCommandClass
  Profiles     <- MCProfiles
  Inventory    <- MCInventory
  ValidTarget  <- MCDevices
  SplitCommas  <- MCSplitCommas
  MaxCommands  = 2
  MaxTargets   = 3
  Callers      = {c1, c2}
  Principals   = {"p1", "p2"}
  Requests     <- MCRequests
  Transport    = "http"
  Policy       <- MCPolicy
  MaxTouchedNames = 1

SPECIFICATION FairSpec
INVARIANTS IInv MaxDevicesHeld CountErrsHigh OneDecisionLine
PROPERTIES BudgetHeld NoCallIsStuck
