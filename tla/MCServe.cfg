\* Two ports, two bind attempts; two accept loops that compete for one slot
\* and one connection; two Runs and two requests on them.
SPECIFICATION MCSpec
CONSTANTS
  Ports = {1, 2}
  BindAttempts = 2
  Holds = TRUE
  Conns = {"c1"}
  MaxConns = 1
  Runs = {"r1", "r2"}
  Requests = {"q1", "q2"}
  NoRun = NoRun
\* serve has returned.
CHECK_DEADLOCK FALSE
INVARIANTS ProcessesHold ExitsTell ListenerHolds LocalKeysHold
