\* As in MCServe.cfg, with one request on the two Runs.
SPECIFICATION LiveSpec
CONSTANTS
  Ports = {1, 2}
  BindAttempts = 2
  Holds = TRUE
  Conns = {"c1"}
  MaxConns = 1
  Runs = {"r1", "r2"}
  Requests = {"q1"}
  NoRun = NoRun
\* serve has returned.
CHECK_DEADLOCK FALSE
PROPERTY ServeEnds
