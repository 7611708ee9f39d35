\* As Activation.cfg, with repeated names allowed in a non-indexed scope.
CONSTANTS
  Names = {"a", "b"}
  FnName = "f"
  Local = "v"
  MaxParams = 3
  MaxArgc = 3
  NumLiterals = 1
  NamedParamLists <- MCAllLists
SPECIFICATION Spec
INVARIANT ParametersBound
\* The model ends where the interpreter starts the function's body.
CHECK_DEADLOCK FALSE
