\* Parameter lists of up to three names over a, b and the function's own
\* name, argc 0..3 (fewer, as many and more arguments than parameters),
\* every storage kind and capture set; a non-indexed scope only with
\* distinct names (ActivationDuplicates.cfg covers the rest).
CONSTANTS
  Names = {"a", "b"}
  FnName = "f"
  Local = "v"
  MaxParams = 3
  MaxArgc = 3
  NumLiterals = 1
  NamedParamLists <- MCDistinctLists
SPECIFICATION Spec
INVARIANT TypeOK
INVARIANT ParametersBound
INVARIANT EnvironmentMatchesSpec
\* The model ends where the interpreter starts the function's body.
CHECK_DEADLOCK FALSE
