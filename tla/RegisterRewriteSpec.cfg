\* Three temporaries, two stack slots and no numeral literals: a frame
\* with fewer temporaries than REGULAR_REGISTER_LIMIT puts rewritten indices
\* on both sides of the limit.  One instruction per block: the pass treats
\* each instruction on its own.
CONSTANTS
  RegLimit = 3
  VarLimit = 2
  NoReg = 15
  CodeBase = 100
  MaxTarget = 1
  CodeLen = 1
  Opcodes <- MCOpcodes
  Labels = {}
  NoLabel = NoLabel
  NoRecord = NoRecord
  SizeMax = 1000
  MaxCode = 0
  MaxDepth = 0
  MaxNumerals = 0

SPECIFICATION GenSpec

\* The pass ends after the last instruction.
CHECK_DEADLOCK FALSE
INVARIANT RewriteMatchesSpec
