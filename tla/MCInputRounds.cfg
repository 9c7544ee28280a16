\* One call and one handler of elicitation/create at a time; three prompts and
\* two rounds to a call; one restart, two states issued.
SPECIFICATION FairSpec
CONSTANTS
  Calls = {"c1"}
  Handlers = {"h1"}
  Agents = {"modern", "classic", "other"}
  Stateless = {"modern", "other"}
  CanElicit = {"modern", "classic"}
  Binding <- MCBinding
  Tools = {"t", "u"}
  Closed = {"u"}
  Args = {"plain", "spaced", "different"}
  ArgsDigest <- MCDigest
  Kinds = {"form", "url"}
  MaxInputRequests = 2
  MaxInputRounds = 2
  MaxPromptsPerCall = 3
  StateTTL = 0
  MaxTime = 1
  MaxEpoch = 1
  MaxStates = 2
  NoCall = NoCall
INVARIANTS PromptsAccounted RetryIsTheSameCall
PROPERTIES RoundsHeld PromptsEnd
