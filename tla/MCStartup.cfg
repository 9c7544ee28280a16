\* Start-up: every command line of up to three of the flag groups, every
\* policy, profile directory and inventory file of the small sets.
CONSTANTS
  NonString       = NonString
  NoParam         = NoParam
  Unreadable      = Unreadable
  BadGlob         = BadGlob
  NoRange         = NoRange
  NoApproval      = NoApproval
  NoList          = NoList
  NoValue         = NoValue
  ParsesAsJSON    = {"null"}
  ConfigAsJSON    = {"null"}
  DataFormats     <- MCDataFormats
  CommandClass    <- MCCommandClass
  BadConfig       <- MCBadConfig
  NotPrintable    = {"g t"}
  MaxCapabilityID = 8
  LowerCase       <- MCLowerCase
  JunosLoadTools  = {}
  Normalize       <- MCNormalize
  BadRegex        = {"("}
  RegexMatches    <- MCRegexMatches
  Inputs          <- MCInputs
  EnvKey          <- MCEnvKey
  ValidEnvNames   = {"A", "a", "fathomgate_x", "FATHOMGATE_LISTEN_TOKEN"}
  ValidServers    = {"eos", "other"}
  BaseEnvNames    <- MCBaseEnvNames
  ListenHosts     <- MCListenHosts
  TokenEntry      <- MCTokenEntry
  PrincipalNames  = {"ann", "bob"}
  MinToken        = 3
  CSVPaths        = {"i.csv"}
  ValidTarget     <- MCValidTarget
  SplitCommas     <- MCSplitCommas
  MaxCommands     = 2
  MaxTargets      = 2
  Calls           <- MCCalls

SPECIFICATION Spec
CHECK_DEADLOCK FALSE
INVARIANTS CommandLineInForce WarningsTell DocumentsInForce LintTells
