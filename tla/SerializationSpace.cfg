\* Values of up to two bytes over a letter and a space.
CONSTANTS
  Chars = {"a", " "}
  MaxLen = 2
  MaxValues = 2

SPECIFICATION Spec

INVARIANT RoundTrip
\* The reader stops after the last value.
CHECK_DEADLOCK FALSE
