\* One call against every policy: 3 targets and 2 commands are the caps.
CONSTANTS
  NonString    = NonString
  NoParam      = NoParam
  Undecided    = Undecided
  ParsesAsJSON <- MCNull
  ConfigAsJSON <- MCNull
  BadConfig    <- MCBadConfig
  DataFormats  <- MCDataFormats
  NL           = "NL"
  BadWords     = {"BAD"}
  MaxTextLen   = 34
  CommandClass <- MCCommandClass
  Profiles     <- MCProfiles
  Inventory    <- MCInventory
  ValidTarget  <- MCValidTarget
  SplitCommas  <- MCSplitCommas
  MaxCommands  = 2
  MaxTargets   = 3
  Trim         <- MCTrim
  ArgNames     <- MCArgNames
  MaxLoggedNames = 1
  Calls        <- MCCalls
  Policies     <- MCPolicies
  Counters     <- MCCounters

SPECIFICATION CallSpec
CONSTRAINT ContentOnce
CHECK_DEADLOCK FALSE
INVARIANTS ReachIsDecided ReadsOnlyRead WriteStaysInSession DecideIsMonotone SchemaAgrees TestsTell
