\* Two-byte chunks; files of up to five bytes of "A" and C0 80, the
\* overlong two-byte form of U+0000.
CONSTANTS
  Chunk = 2
  FileChars <- MCOverlong
  MaxFileLen = 5
  Garbage = {0, 128}

SPECIFICATION Spec

INVARIANT ResultMatchesReference
\* The reader stops once it has made its string.
CHECK_DEADLOCK FALSE
