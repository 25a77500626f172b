SPECIFICATION Spec
CONSTANTS
  r1 = r1
  r2 = r2
  d1 = d1
  d2 = d2
  c1 = c1
  c2 = c2
  n1 = n1
  n2 = n2
  Requests <- MCRequests
  Drafts <- MCDrafts
  ContractKeys <- MCContractKeys
  RunKeys <- MCRunKeys
  None = None
  MaxVersion = 2
SYMMETRY Symmetry
INVARIANTS
  TypeOK
  ContractIsItsDraft
  ContractsAreNumbered
  OneActiveRun
PROPERTIES
  EditsSawTheLatest
  OnlyEditAndConfirmationCollide
CHECK_DEADLOCK FALSE
