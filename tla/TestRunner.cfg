\* One to three threads and up to four cases: ranges of size zero (fewer
\* cases than threads), equal ranges, and a last range with a remainder.
CONSTANTS
  ThreadChoices = {1, 2, 3}
  MaxCases = 4

SPECIFICATION Spec

INVARIANT TypeOK
INVARIANT EveryCaseRunOnce
INVARIANT VerdictSound
PROPERTY ImplementsTestBatch
\* The runner exits after printing the verdict or dying at set-up.
CHECK_DEADLOCK FALSE
