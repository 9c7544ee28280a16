SPECIFICATION LiveSpec
CONSTANTS
  s1 = s1  s2 = s2  p1 = p1  p2 = p2  q1 = q1  q2 = q2  c1 = c1
  Sids = {s1, s2}
  Principals = {p1}
  Reqs = {q1, q2}
  Calls = {c1}
  Events = {"post", "delete", "close"}
  NoSid = NoSid
  NoPrincipal = NoPrincipal
  MaxSessions = 1
  MaxSessionsPerPrincipal = 1
  MaxCallsPerSession = 1
  MaxCallsPerPrincipal = 1
PROPERTIES CloseEnds EndedSessionsGo
