\* Two-byte chunks, so that two- and three-byte characters straddle a
\* chunk boundary and the decoder reads past the chunk; files of up to five
\* bytes of "A", U+00E9 and U+20AC, in every order and alignment.
CONSTANTS
  Chunk = 2
  FileChars <- MCWellFormed
  MaxFileLen = 5
  Garbage = {0, 128}

SPECIFICATION Spec

INVARIANT TypeOK
INVARIANT ResultMatchesReference
\* The reader stops once it has made its string.
CHECK_DEADLOCK FALSE
