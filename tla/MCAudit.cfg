\* Two events and a checkpoint after every second one; two faults.
CONSTANTS
  Keygens = {"k1", "k2"}
  NoFile = NoFile
  Events = {"a", "b"}
  CheckpointEvery = 2
  MaxLines = 5
  MaxFaults = 2
SPECIFICATION AuditSpec
\* A log that does not verify cannot be opened again.
CHECK_DEADLOCK FALSE
INVARIANTS LogTells SignedPrefixGenuine PairsHold
