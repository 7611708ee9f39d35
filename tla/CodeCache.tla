----------------------------- MODULE CodeCache -----------------------------
(***************************************************************************)
(* Lazy compilation and the compiled-code trim of FunctionObject.cpp:      *)
(*   FunctionObject::call               -> Call, Return                   *)
(*   FunctionObject::generateBytecodeBlock -> Generate (inside Call)       *)
(* A function's CodeBlock holds a ByteCodeBlock or nullptr; the context's  *)
(* compiledCodeBlocks vector `v` lists the lazily compiled ones.  A        *)
(* ByteCodeBlock is identified by a version number (0 is nullptr), so a    *)
(* frame that runs an old block can be told from one that runs the        *)
(* current one.  The execution-context chain is the stack of frames: each *)
(* call() makes an ExecutionContext whose parent is the caller's.          *)
(* Stack addresses are distances from state.stackBase() in size_t, taken  *)
(* modulo 2^W.                                                              *)
(***************************************************************************)
EXTENDS Naturals, Sequences, SequencesExt

CONSTANTS
  Fns,          \* functions with source (cblk->script() is set)
  CodeSz,       \* Fns -> m_code size plus the other side tables, in units
  LocSz,        \* Fns -> m_locData size, in the same units
  CodeSizeMax,  \* codeSizeMax (2 MiB), in the same units
  StackLimit,   \* STACK_LIMIT_FROM_BASE
  CallFrame,    \* stack used by one activation of call() and interpret
  GenFrame,     \* stack generateBytecodeBlock uses below call()'s frame
  W,            \* width of size_t in bits (scaled down)
  MaxCompiles   \* bound on compilations in a run

ASSUME /\ CodeSz \in [Fns -> Nat] /\ LocSz \in [Fns -> Nat]
       /\ {CodeSizeMax, StackLimit, CallFrame, GenFrame, W, MaxCompiles} \subseteq Nat

VARIABLES
  bc,        \* Fns -> current ByteCodeBlock version, 0 for nullptr
  loc,       \* Fns -> whether the block's m_locData is still filled
  v,         \* Context::compiledCodeBlocks, in push order
  stack,     \* the frames: [fn, blk] with the block call() read at line 229
  compiles,  \* compilations so far (the next block's version is compiles + 1)
  budget     \* stackRemainApprox passed to parseFunction last (0 before any)

vars == <<bc, loc, v, stack, compiles, budget>>

(* The budget computed in a signed type instead of size_t.                 *)
SizeTSigned(x) == x

SizeT(x) == x % (2 ^ W)

(* Distance of call()'s `sp` from the stack base with n frames below.      *)
CallDistance(n) == n * CallFrame

OnStack == {stack[i].fn : i \in 1..Len(stack)}

-----------------------------------------------------------------------------
(* The size the loop at FunctionObject.cpp:100-107 adds up.                *)
BlockSize(f) == CodeSz[f] + (IF loc[f] THEN LocSz[f] ELSE 0)

TotalCodeSize == FoldLeft(LAMBDA acc, f : acc + BlockSize(f), 0, v)

(* The trim variant that treats `>=` as over the limit.                    *)
OverLimitInclusive == TotalCodeSize >= CodeSizeMax

(* 109-110: trim only when the total exceeds codeSizeMax.                  *)
OverLimit == TotalCodeSize > CodeSizeMax

(* 112-125: the distinct code blocks with bytecode on the chain, nearest   *)
(* first.                                                                  *)
CodeBlocksInCurrentStack ==
  LET walk == FoldLeft(LAMBDA acc, fr :
                         IF bc[fr.fn] # 0 /\ fr.fn \notin Range(acc)
                         THEN Append(acc, fr.fn) ELSE acc,
                       <<>>, Reverse(stack))
  IN  walk

(* A trim that drops every block of v, the running ones too.               *)
TrimIgnoringStack(f) ==
  [bcT |-> [g \in Fns |-> IF g \in Range(v) THEN 0 ELSE bc[g]],
   locT |-> loc,
   vT |-> <<>>]

(* A trim that drops the off-chain blocks but leaves v as it was.         *)
TrimKeepsList(f) ==
  LET keep == CodeBlocksInCurrentStack
  IN  [bcT |-> [g \in Fns |-> IF g \in Range(v) /\ g \notin Range(keep) THEN 0 ELSE bc[g]],
       locT |-> [g \in Fns |-> IF g \in Range(keep) THEN FALSE ELSE loc[g]],
       vT |-> v]

(* 127-140: drop the bytecode of every block of v not on the chain, make  *)
(* v the on-chain list and clear their location data.                     *)
Trim(f) ==
  LET keep == CodeBlocksInCurrentStack
  IN  [bcT |-> [g \in Fns |-> IF g \in Range(v) /\ g \notin Range(keep) THEN 0 ELSE bc[g]],
       locT |-> [g \in Fns |-> IF g \in Range(keep) THEN FALSE ELSE loc[g]],
       vT |-> keep]

(* generateBytecodeBlock of f called from call() with n frames below:     *)
(* trim if over the limit, compute the parser's stack budget (146-150),   *)
(* compile a fresh block with location data and push f to v (152-160).    *)
Generate(f, n) ==
  LET t == IF OverLimit THEN Trim(f) ELSE [bcT |-> bc, locT |-> loc, vT |-> v]
  IN  /\ compiles < MaxCompiles
      /\ compiles' = compiles + 1
      /\ bc' = [t.bcT EXCEPT ![f] = compiles + 1]
      /\ loc' = [t.locT EXCEPT ![f] = TRUE]
      /\ v' = Append(t.vT, f)
      /\ budget' = SizeT(StackLimit - (CallDistance(n) + GenFrame))

-----------------------------------------------------------------------------
(* FunctionObject::call(f) from the frame on top: the stack guard (172-   *)
(* 180) throws RangeError, which unwinds to the frame that catches it;    *)
(* otherwise compile if the block is null (223-225) and push a frame      *)
(* running the block read at 227.                                         *)
Call(f) ==
  LET n == Len(stack)
  IN  IF SizeT(CallDistance(n)) > StackLimit
      THEN /\ \E k \in 0..n - 1 : stack' = SubSeq(stack, 1, k)  \* caught at frame k
           /\ UNCHANGED <<bc, loc, v, compiles, budget>>
      ELSE IF bc[f] = 0
      THEN /\ Generate(f, n)
           /\ stack' = Append(stack, [fn |-> f, blk |-> compiles + 1])
      ELSE /\ stack' = Append(stack, [fn |-> f, blk |-> bc[f]])
           /\ UNCHANGED <<bc, loc, v, compiles, budget>>

(* ByteCodeInterpreter::interpret returns or throws out of the top frame. *)
Return ==
  /\ stack # <<>>
  /\ stack' = SubSeq(stack, 1, Len(stack) - 1)
  /\ UNCHANGED <<bc, loc, v, compiles, budget>>

Init ==
  /\ bc = [f \in Fns |-> 0]
  /\ loc = [f \in Fns |-> FALSE]
  /\ v = <<>>
  /\ stack = <<>>
  /\ compiles = 0
  /\ budget = 0

Next ==
  \/ \E f \in Fns : Call(f)
  \/ Return

Spec == Init /\ [][Next]_vars

-----------------------------------------------------------------------------
TypeOK ==
  /\ bc \in [Fns -> 0..MaxCompiles]
  /\ loc \in [Fns -> BOOLEAN]
  /\ v \in Seq(Fns)
  /\ stack \in Seq([fn : Fns, blk : 1..MaxCompiles])
  /\ compiles \in 0..MaxCompiles
  /\ budget \in 0..(2 ^ W - 1)

(* Spec 3 and 8.8: a trim never drops the bytecode of a function that is  *)
(* running.  Every frame still runs the block its CodeBlock holds, so a    *)
(* call of a running function, or a stack trace read from its CodeBlock,   *)
(* sees the block the frame executes.                                      *)
RunningCodeCurrent ==
  \A i \in 1..Len(stack) : bc[stack[i].fn] = stack[i].blk

(* The size loop at FunctionObject.cpp:100-107 dereferences                *)
(* v[i]->m_byteCodeBlock: every entry of compiledCodeBlocks has bytecode,  *)
(* and no CodeBlock is listed twice (its size would be counted twice).     *)
CompiledListConsistent ==
  /\ \A i \in 1..Len(v) : bc[v[i]] # 0
  /\ \A i, j \in 1..Len(v) : i < j => v[i] # v[j]

(* Spec 4.5 step 4 and 8.8: when a lazy compile starts with more than     *)
(* codeSizeMax of compiled code, exactly the compiled functions that are  *)
(* not on the execution-context chain lose their bytecode, and the ones on *)
(* it keep it with their location data cleared; under the limit nothing   *)
(* but the compiled function changes.                                      *)
TrimDropsExactlyOffStack ==
  [][\A f \in Fns :
       (compiles' = compiles + 1 /\ bc' [f] = compiles') =>
         \A g \in Fns \ {f} :
           IF FoldLeft(LAMBDA acc, h : acc + CodeSz[h] + (IF loc[h] THEN LocSz[h] ELSE 0), 0, v)
                > CodeSizeMax
           THEN /\ (bc'[g] = 0) = (bc[g] = 0 \/ g \notin OnStack)
                /\ g \in OnStack => ~loc'[g]
           ELSE bc'[g] = bc[g] /\ loc'[g] = loc[g]]_vars

(* The parser's stack budget computed at FunctionObject.cpp:146-150 never *)
(* exceeds STACK_LIMIT_FROM_BASE: parseFunction is never told it has more *)
(* stack than the engine allows.                                           *)
ParserBudgetWithinLimit == budget <= StackLimit
=============================================================================
