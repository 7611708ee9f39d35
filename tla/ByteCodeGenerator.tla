-------------------------- MODULE ByteCodeGenerator --------------------------
(***************************************************************************)
(* ByteCodeGenerator::generateByteCode (ByteCodeGenerator.cpp:102-460) as  *)
(* the composition of its two stages: the visitor emits the code, with     *)
(* break and continue jumps resolved through the fixup table (Fixups), and *)
(* the post-pass rewrites registers and rebases jumps (RegisterRewrite).   *)
(*                                                                         *)
(* A block either comes from the control-flow statements Fixups emits, or  *)
(* is a single instruction of any opcode the post-pass knows (the          *)
(* post-pass treats each instruction on its own).  Emission ends with the  *)
(* trailing ReturnFunction of a function body, or is abandoned by a        *)
(* ByteCodeGenerateError, which replaces the code with one                 *)
(* ThrowStaticErrorOperation.                                              *)
(***************************************************************************)
EXTENDS RegisterRewrite, Fixups

CONSTANT MaxNumerals   \* bound on a scope's numeral literals

VARIABLES
  phase,     \* "emit": the visitor runs; "rewrite": the post-pass runs
  unit,      \* "globalOrEval" or "function": what the block is the code of
  hasMany,   \* scopeCtx->m_hasManyNumeralLiteral
  numerals   \* scopeCtx->m_numeralLiteralData.size()

genvars == <<vars, fxvars, phase, unit, hasMany, numerals>>

(* 116-120: the numeral pool handed to the context, nData, is the scope's *)
(* own unless it has too many literals, when it is nullptr.               *)
NumeralData == ~hasMany

(* ctx.m_keepNumberalLiteralsInRegisterFile: the context keeps the        *)
(* literals in registers exactly when it was given a pool (the context's  *)
(* constructor is not under src/).                                         *)
KeepNumerals == NumeralData

(* A copy that leaves out the last literal.                               *)
BlockNumeralsShort == IF KeepNumerals /\ numerals > 0 THEN numerals - 1 ELSE 0

(* 164-167: the block's m_numeralLiteralData, which FunctionObject::call   *)
(* sizes the literal region of the register file by (231).                 *)
BlockNumerals == IF KeepNumerals THEN numerals ELSE 0

(* FunctionNode.h:66-72: with a pool, a function's prologue loads literal *)
(* i into register REGULAR_REGISTER_LIMIT + VARIABLE_LIMIT + i.           *)
LiteralLoads ==
  IF unit = "function" /\ NumeralData
  THEN [i \in 1..numerals |-> [op |-> "LoadLiteral", target |-> 0, rec |-> NoRecord, lit |-> i - 1]]
  ELSE <<>>

(* The emitted form of a fixup-table instruction as the post-pass sees it: *)
(* the test of a loop reads a temporary register; a JumpComplexCase        *)
(* carries its target in its ControlFlowRecord.                            *)
Lower(c) ==
  [op |-> c.op,
   regs |-> [fld \in Range(Operands(c.op)) |->
               IF c.op = "LoadLiteral" THEN RegLimit + VarLimit + c.lit ELSE 0],
   target |-> IF c.op = "JumpComplexCase" THEN c.rec.target ELSE c.target]

EmitFrame == CHOOSE f \in Frames : TRUE

(* 127-135: before the body, a block with a function declaration among   *)
(* its children gets one DeclareFunctionDeclarations.                     *)
Prologues == {<<>>, <<Instr("DeclareFunctionDeclarations", 0)>>}

GenInit ==
  \/ /\ phase = "rewrite" /\ Init /\ EmitInit
     /\ unit = "globalOrEval" /\ hasMany = FALSE /\ numerals = 0
  \/ /\ phase = "emit"
     /\ frame = EmitFrame
     /\ code = <<>> /\ orig = <<>> /\ idx = 1
     /\ unit \in {"globalOrEval", "function"}
     /\ hasMany \in BOOLEAN
     /\ numerals \in 0..MaxNumerals
     \* global code's own literal loads (ProgramNode, not under src/) are not
     \* modelled; a scope with many literals has more than the bound
     /\ unit = "globalOrEval" => ~hasMany /\ numerals = MaxNumerals
     /\ hasMany => numerals = MaxNumerals
     /\ \E decl \in Prologues : fcode = decl \o LiteralLoads
     /\ EmitContextInit

(* The end of the try block of generateByteCode (139-147): the code of a   *)
(* global or eval block is taken as emitted; a function body ending in a   *)
(* return statement ends with that statement's ReturnFunctionWithValue,   *)
(* any other function body gets a ReturnFunction.  Then the literal pool  *)
(* is copied into the block (164-167).                                     *)
FinishEmission ==
  /\ phase = "emit"
  /\ scopes = <<>>
  /\ \E ending \in IF unit = "function" THEN {"returnStatement", "none"} ELSE {"globalOrEval"} :
       LET emitted == [i \in DOMAIN fcode |-> Lower(fcode[i])]
           Closing(op) == [op |-> op, regs |-> [f \in Range(Operands(op)) |-> 0], target |-> 0]
       IN  code' = CASE ending = "globalOrEval" -> emitted
                     [] ending = "returnStatement" -> Append(emitted, Closing("ReturnFunctionWithValue"))
                     [] ending = "none" -> Append(emitted, Closing("ReturnFunction"))
  /\ orig' = code'
  /\ frame' = [frame EXCEPT !.lits = BlockNumerals]
  /\ phase' = "rewrite"
  /\ UNCHANGED <<idx, fxvars, unit, hasMany, numerals>>

(* The catch of a ByteCodeGenerateError (158-168): whatever was emitted is *)
(* cleared and the block holds one ThrowStaticErrorOperation; the literal *)
(* pool is copied all the same (164-167).                                  *)
GenerateError ==
  /\ phase = "emit"
  /\ code' = <<[op |-> "ThrowStaticErrorOperation", regs |-> <<>>, target |-> 0]>>
  /\ orig' = code'
  /\ frame' = [frame EXCEPT !.lits = BlockNumerals]
  /\ phase' = "rewrite"
  /\ UNCHANGED <<idx, fxvars, unit, hasMany, numerals>>

GenNext ==
  \/ phase = "emit" /\ EmitNext /\ UNCHANGED <<vars, phase, unit, hasMany, numerals>>
  \/ FinishEmission
  \/ GenerateError
  \/ phase = "rewrite" /\ Step /\ UNCHANGED <<fxvars, phase, unit, hasMany, numerals>>

GenSpec == GenInit /\ [][GenNext]_genvars

-----------------------------------------------------------------------------
GenTypeOK ==
  /\ phase \in {"emit", "rewrite"}
  /\ idx \in 1..(Len(code) + 1)
  /\ \A i \in DOMAIN code : DOMAIN code[i].regs = Range(Operands(code[i].op))
  /\ FixupsTypeOK

(* Spec 4.3 across both stages: after the post-pass every plain or        *)
(* conditional jump holds codeBase plus an offset inside the block, and    *)
(* every JumpComplexCase's record an offset inside the block (the end of   *)
(* the block included): no SIZE_MAX placeholder survives emission and no   *)
(* emitted offset is rebased twice or not at all.                          *)
JumpsLandInBlock ==
  \A i \in 1..(idx - 1) :
    /\ code[i].op \in RebasedJumps => code[i].target - CodeBase \in 0..Len(code)
    /\ code[i].op = "JumpComplexCase" => code[i].target \in 0..Len(code)
====
