--------------------------- MODULE RegisterRewrite ---------------------------
(***************************************************************************)
(* The post-pass of ByteCodeGenerator::generateByteCode                    *)
(* (ByteCodeGenerator.cpp:174-460): walk the emitted code one instruction  *)
(* at a time, rewrite each register operand the opcode owns with           *)
(* assignStackIndexIfNeeded (88-100), and rebase the target of every plain *)
(* and conditional jump to an absolute address.                            *)
(*                                                                         *)
(* An instruction is [op, regs, target]: regs maps each register field of *)
(* the opcode to a register index, target is the jump offset.  The        *)
(* function Operands gives, for each opcode, the fields the pass rewrites  *)
(* in the order it rewrites them; a field listed twice is rewritten twice. *)
(***************************************************************************)
EXTENDS Naturals, Sequences, SequencesExt

CONSTANTS
  RegLimit,     \* REGULAR_REGISTER_LIMIT: the start of the stack region
  VarLimit,     \* VARIABLE_LIMIT: the size of the virtual stack region
  NoReg,        \* numeric_limits<ByteCodeRegisterIndex>::max()
  CodeBase,     \* (size_t)block->m_code.data()
  MaxTarget,    \* bound on jump offsets
  CodeLen,      \* instructions in the block
  Opcodes       \* the opcodes the emitted code is drawn from

VARIABLES
  code,     \* the instructions, rewritten in place
  orig,     \* the instructions as emitted (unchanged by the pass)
  frame,    \* [base, willBe, vars, lits]: stackBase, stackBaseWillBe,
            \* stackVariableSize and the number of numeral literals
  idx       \* the index of the next instruction to rewrite

vars == <<code, orig, frame, idx>>

-----------------------------------------------------------------------------
(* The register fields of each opcode's case in the first switch          *)
(* (189-440); an opcode not listed there has none (the `default` at 437). *)
LoadStoreOperands ==
  [o \in {"LoadLiteral", "LoadRegexp", "LoadByName", "StoreByName",
          "LoadByHeapIndex", "StoreByHeapIndex", "CreateFunction",
          "CreateObject", "CreateArray", "ReturnFunctionWithValue",
          "ReturnFunctionSlowCase", "GetGlobalObject", "SetGlobalObject",
          "ThrowOperation", "WithOperation"} |-> <<"m_registerIndex">>]

ObjectOperands ==
  ("GetObject" :> <<"m_storeRegisterIndex", "m_objectRegisterIndex", "m_propertyRegisterIndex">>)
  @@ ("SetObject" :> <<"m_objectRegisterIndex", "m_propertyRegisterIndex", "m_loadRegisterIndex">>)
  @@ ("ObjectDefineOwnPropertyOperation" :>
        <<"m_objectRegisterIndex", "m_propertyRegisterIndex", "m_loadRegisterIndex">>)
  @@ ("ObjectDefineOwnPropertyWithNameOperation" :>
        <<"m_objectRegisterIndex", "m_loadRegisterIndex", "m_loadRegisterIndex">>)
  @@ ("ArrayDefineOwnPropertyOperation" :>
        <<"m_objectRegisterIndex", "m_loadRegisterIndexs[0]", "m_loadRegisterIndexs[1]">>)
  @@ ("GetObjectPreComputedCase" :> <<"m_objectRegisterIndex", "m_storeRegisterIndex">>)
  @@ ("SetObjectPreComputedCase" :> <<"m_objectRegisterIndex", "m_loadRegisterIndex">>)
  @@ ("ObjectDefineGetter" :> <<"m_objectRegisterIndex", "m_objectPropertyNameRegisterIndex",
                                "m_objectPropertyValueRegisterIndex">>)
  @@ ("ObjectDefineSetter" :> <<"m_objectRegisterIndex", "m_objectPropertyNameRegisterIndex",
                                "m_objectPropertyValueRegisterIndex">>)
  @@ ("EnumerateObject" :> <<"m_objectRegisterIndex">>)
  @@ ("Move" :> <<"m_registerIndex0", "m_registerIndex1">>)

CallOperands ==
  ("CallFunction" :> <<"m_calleeIndex", "m_argumentsStartIndex", "m_resultIndex">>)
  @@ ("CallFunctionWithReceiver" :>
        <<"m_receiverIndex", "m_calleeIndex", "m_argumentsStartIndex", "m_resultIndex">>)
  @@ ("CallEvalFunction" :> <<"m_argumentsStartIndex", "m_resultIndex">>)
  @@ ("CallFunctionInWithScope" :> <<"m_argumentsStartIndex", "m_resultIndex">>)
  @@ ("NewOperation" :> <<"m_calleeIndex", "m_argumentsStartIndex", "m_resultIndex">>)
  @@ ("JumpIfTrue" :> <<"m_registerIndex">>)
  @@ ("JumpIfFalse" :> <<"m_registerIndex">>)
  @@ [o \in {"ToNumber", "Increment", "Decrement", "UnaryMinus", "UnaryNot",
             "UnaryBitwiseNot", "UnaryTypeof"} |-> <<"m_srcIndex", "m_dstIndex">>]
  @@ ("UnaryDelete" :> <<"m_srcIndex0", "m_srcIndex1", "m_dstIndex">>)
  @@ [o \in {"BinaryPlus", "BinaryMinus", "BinaryMultiply", "BinaryDivision",
             "BinaryMod", "BinaryEqual", "BinaryNotEqual", "BinaryLessThan",
             "BinaryLessThanOrEqual", "BinaryGreaterThan", "BinaryGreaterThanOrEqual",
             "BinaryStrictEqual", "BinaryNotStrictEqual", "BinaryBitwiseAnd",
             "BinaryBitwiseOr", "BinaryBitwiseXor", "BinaryLeftShift",
             "BinarySignedRightShift", "BinaryUnsignedRightShift",
             "BinaryInOperation", "BinaryInstanceOfOperation"} |->
        <<"m_srcIndex0", "m_srcIndex1", "m_dstIndex">>]

Operands(op) ==
  LET t == LoadStoreOperands @@ ObjectOperands @@ CallOperands
  IN  IF op \in DOMAIN t THEN t[op] ELSE <<>>

(* Opcodes whose m_jumpPosition the pass rebases (375-400); the target of *)
(* a JumpComplexCase lives in its ControlFlowRecord and is left alone.     *)
RebasedJumps == {"Jump", "JumpIfTrue", "JumpIfFalse"}

-----------------------------------------------------------------------------
(* assignStackIndexIfNeeded with the comparison of the stack region       *)
(* written as `>` instead of `>=`.                                          *)
AssignStackIndexOffByOne(r, f) ==
  CASE r = NoReg -> r
    [] r > f.base /\ r >= f.base + VarLimit -> f.willBe + (r - (f.base + VarLimit)) + f.vars
    [] r > f.base -> f.willBe + (r - f.base)
    [] OTHER -> r

(* assignStackIndexIfNeeded (88-100): the sentinel and the temporaries    *)
(* stay; the stack region moves to stackBaseWillBe, the literal region    *)
(* after the stack variables.                                               *)
AssignStackIndexIfNeeded(r, f) ==
  CASE r = NoReg -> r
    [] r >= f.base /\ r >= f.base + VarLimit -> f.willBe + (r - (f.base + VarLimit)) + f.vars
    [] r >= f.base -> f.willBe + (r - f.base)
    [] OTHER -> r

(* One iteration of the loop at 183-459 on instruction c: the register    *)
(* fields in the order the case lists them, then the jump rebase.          *)
RewriteInstruction(c, f) ==
  LET regs == FoldLeft(LAMBDA rs, fld : [rs EXCEPT ![fld] = AssignStackIndexIfNeeded(@, f)],
                       c.regs, Operands(c.op))
  IN  [c EXCEPT !.regs = regs,
                !.target = IF c.op \in RebasedJumps THEN @ + CodeBase ELSE @]

-----------------------------------------------------------------------------
(* The register indices the emitter can produce for a frame: a temporary  *)
(* below the register file size, a stack slot of a declared variable, a   *)
(* numeral literal slot, or the sentinel.                                  *)
Emittable(f) ==
  (0..(f.willBe - 1))
  \cup {f.base + i : i \in 0..(f.vars - 1)}
  \cup {f.base + VarLimit + i : i \in 0..(f.lits - 1)}
  \cup {NoReg}

Frames ==
  [base : {RegLimit}, willBe : 1..RegLimit, vars : 0..VarLimit, lits : 0..2]

Instructions(f) ==
  UNION {{[op |-> o, regs |-> rs, target |-> t] :
            rs \in [Range(Operands(o)) -> Emittable(f)],
            t \in IF o \in RebasedJumps \cup {"JumpComplexCase"} THEN 0..MaxTarget ELSE {0}} :
         o \in Opcodes}

Init ==
  /\ frame \in Frames
  /\ code \in [1..CodeLen -> Instructions(frame)]
  /\ orig = code
  /\ idx = 1

(* A loop whose condition `&code[idx] < end` is written with `<=`.        *)
StepPastEnd ==
  /\ idx <= Len(code) + 1
  /\ code' = [code EXCEPT ![idx] = RewriteInstruction(@, frame)]
  /\ idx' = idx + 1
  /\ UNCHANGED <<orig, frame>>

(* The body of the while loop: rewrite code[idx] and step past it by its  *)
(* size (the second switch, 443-457).                                      *)
Step ==
  /\ idx <= Len(code)
  /\ code' = [code EXCEPT ![idx] = RewriteInstruction(@, frame)]
  /\ idx' = idx + 1
  /\ UNCHANGED <<orig, frame>>

Spec == Init /\ [][Step]_vars

-----------------------------------------------------------------------------
TypeOK ==
  /\ idx \in 1..(CodeLen + 1)
  /\ \A i \in 1..CodeLen : DOMAIN code[i].regs = Range(Operands(code[i].op))

Physical(f) == f.willBe + f.vars + f.lits

(* Spec 3 "Invariants": after the pass every register operand other than  *)
(* the sentinel lies in the physical file [0, stackBaseWillBe +            *)
(* stackVariableSize + numLiterals) that FunctionObject::call allocates.   *)
RegistersInFile ==
  \A i \in 1..(idx - 1) : \A fld \in DOMAIN code[i].regs :
    code[i].regs[fld] # NoReg => code[i].regs[fld] < Physical(frame)

(* Spec 3 and 8.1: each operand is rewritten exactly as the formula says: *)
(* kept below stackBase, moved by stackBaseWillBe - stackBase in the stack *)
(* region and packed after the stack variables in the literal region.      *)
RewriteMatchesSpec ==
  \A i \in 1..(idx - 1) : \A fld \in DOMAIN code[i].regs :
    LET r == orig[i].regs[fld]
        b == frame.base
    IN  code[i].regs[fld] =
          CASE r = NoReg -> NoReg
            [] r < b -> r
            [] r < b + VarLimit -> frame.willBe + (r - b)
            [] OTHER -> frame.willBe + frame.vars + (r - b - VarLimit)
=============================================================================
