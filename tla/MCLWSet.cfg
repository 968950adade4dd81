CONSTANTS
  a1 = a1
  a2 = a2
  b = b
  c = c
  d = d
  e = e
  f = f
  g = g
  NULL = NULL
  Items <- MCItems
  Key <- MCKey
  Hash <- MCHash
  KeepSets <- MCKeepSets
  OtherSeqs <- MCOtherSeqs
  Capacity = 0
SPECIFICATION Spec
INVARIANT TypeOK CountMatches Reachable
PROPERTY OperationsRefine
