SPECIFICATION Spec
CONSTANTS
  c1 = c1  c2 = c2  h1 = h1
  Calls = {c1, c2}
  Prompts = {h1}
  SessionKeys = {"s1", "s2"}
  RequestKeys = {"r1"}
  Principals = {"p", "q"}
  PrincipalOf <- MCPrincipalOf
  Promptable = {"s1"}
  OrphanTTL = 2
  MaxOrphansPerPrincipal = 1
  MaxTime = 3
  NoKey = NoKey
  NoCall = NoCall
SYMMETRY MCSymmetry
INVARIANT IInv
PROPERTY PromptReachesItsSession
