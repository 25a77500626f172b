SPECIFICATION Spec
CONSTANTS
  r1 = r1
  r2 = r2
  k1 = k1
  k2 = k2
  k3 = k3
  paper = paper
  other = other
  text = text
  a1 = a1
  a2 = a2
  c1 = c1
  Requests <- MCRequests
  Posts <- MCPosts
  Contents <- MCContents
  None = None
  MaxFaults = 2
INVARIANTS
  TypeOK
  BindingsNeverConflict
  AnswerIsItsOwn
  ContentIsStored
PROPERTIES
  RequestIsAnswered
CHECK_DEADLOCK FALSE
