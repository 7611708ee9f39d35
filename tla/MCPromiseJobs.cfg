CONSTANTS
  p1 = p1
  p2 = p2
  p3 = p3
  v1 = v1
  v2 = v2
  t1 = t1
  h1 = h1
  r1 = r1
  c1 = c1
  c2 = c2
  NoValue = NoValue
  Promises <- MCPromises
  Vals <- MCVals
  Thenables <- MCThenables
  Handlers <- MCHandlers
  Registries <- MCRegistries
  Callbacks <- MCCallbacks
  MaxThens = 2
  MaxAdopt = 2

SPECIFICATION Spec

INVARIANT TypeOK
INVARIANT HandlerErrorReported
INVARIANT AdoptionOutcome
CHECK_DEADLOCK FALSE
