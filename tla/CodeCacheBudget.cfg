\* Three functions of two units each plus one unit of location data: two
\* compiled functions already exceed the limit of 5, so the third compile
\* trims.  Up to three frames fit under the stack limit.
CONSTANTS
  f1 = f1
  f2 = f2
  f3 = f3
  Fns = {f1, f2, f3}
  CodeSz <- MCCodeSz
  LocSz <- MCLocSz
  CodeSizeMax = 5
  StackLimit = 4
  CallFrame = 2
  GenFrame = 1
  W = 4
  MaxCompiles = 6

SPECIFICATION Spec

INVARIANT ParserBudgetWithinLimit
