CONSTANTS
  Names = {s, t}
  Ids <- MCIds
  MaxId = 5
  B = 2
  INVALID = 15
SPECIFICATION Spec
INVARIANTS
  TypeOK
  Canonical
  ComparesInclusion
  ViewsAgree
  OperationsRight
PROPERTY
  ImplementsSets
