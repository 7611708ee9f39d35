\* The fixup tables: two labels, up to three nested loops and tries and
\* eight instructions, enough for two labeled breaks to the same loop from
\* inside a try inside an inner loop.
CONSTANTS
  RegLimit = 3
  VarLimit = 2
  NoReg = 15
  CodeBase = 100
  MaxTarget = 1
  CodeLen = 1
  Opcodes <- MCOpcodes
  Labels = {"a", "b"}
  NoLabel = NoLabel
  NoRecord = NoRecord
  SizeMax = 1000
  MaxCode = 8
  MaxDepth = 3
  MaxNumerals = 1

SPECIFICATION GenSpec

INVARIANT GenTypeOK
INVARIANT RegistersInFile
INVARIANT JumpsPatchedToTarget
INVARIANT FixupsConsumed
INVARIANT JumpsLandInBlock
CHECK_DEADLOCK FALSE
