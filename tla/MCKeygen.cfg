\* Two keygens at once; the log is left alone.
CONSTANTS
  Keygens = {"k1", "k2"}
  NoFile = NoFile
  Events = {"a"}
  CheckpointEvery = 0
  MaxLines = 0
  MaxFaults = 0
SPECIFICATION AuditSpec
INVARIANT NoKeyWithoutItsPublic
\* Keygens end.
CHECK_DEADLOCK FALSE
