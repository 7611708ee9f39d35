----------------------------- MODULE Activation -----------------------------
(***************************************************************************)
(* A call's activation: FunctionObject::call from the byte code block on   *)
(* (runtime/FunctionObject.cpp:227-328, generateArgumentsObject 336-358)   *)
(* and the prologue FunctionNode::generateStatementByteCode emits at the   *)
(* head of every function (parser/ast/FunctionNode.h:41-133), which the    *)
(* interpreter runs first.  The steps, in the code's order:                *)
(*   Prepare                 (227-265) environment, stack slots, literals  *)
(*   BindFunctionName        (266-279)                                      *)
(*   PrepareParameters       (281-310)                                      *)
(*   GenerateArgumentsObject (312-314, 336-358)                             *)
(*   PrepareReceiver         (316-328)                                      *)
(*   Prologue                (FunctionNode.h:41-133)                        *)
(* A native function (hasCallNativeFunctionCode) takes the fast path at    *)
(* 184-219 instead: CallNativeFunction.                                    *)
(*                                                                         *)
(* The CodeBlock's descriptor (InterpretedCodeBlock is not under src) is   *)
(* modelled from the spec's list of its fields, with identifiers numbered *)
(* in order of first appearance: the parameters, the function's own name, *)
(* `arguments`, then declared variables; stack and heap slots are counted *)
(* separately.  The heap and named records start with every binding       *)
(* undefined.  A value is a number: 0 is undefined, i in 1..argc is        *)
(* argv[i-1], and the constants below name the others.                     *)
(***************************************************************************)
EXTENDS Naturals, Sequences, SequencesExt

CONSTANTS
  Names,            \* parameter names
  FnName,           \* the name a named function has
  Local,            \* a declared variable that is no parameter
  MaxParams,        \* bound on the number of parameters
  MaxArgc,          \* bound on argc
  NumLiterals,      \* numeral literals in the block
  NamedParamLists   \* parameter lists allowed for a non-indexed scope

VARIABLES
  fn,         \* the CodeBlock's descriptor, fixed for the call
  argc,       \* the argument count
  receiver,   \* receiverSrc
  pc,         \* the step of the activation
  store,      \* [stack, heap, named, argv]: stackStorage, heap record, named
              \* record, and the argv a native function is handed
  thisVal,    \* stackStorage[thisSymbolIndex()]
  literals,   \* literalStorage
  calleeReg   \* register REGULAR_REGISTER_LIMIT + 1

vars == <<fn, argc, receiver, pc, store, thisVal, literals, calleeReg>>

Undef == 0
Arg(i) == i
Callee == 100
Global == 101
ArgumentsObject == 102
Recv == 103        \* an object receiver
Prim == 104        \* a primitive receiver
Boxed == 105       \* ToObject of Prim
Null == 106
Lit(k) == 200 + k
Garbage == 999     \* what alloca'd memory holds before it is written

Values == {Undef, Callee, Global, ArgumentsObject, Recv, Prim, Boxed, Null}
          \cup {Arg(i) : i \in 1..MaxArgc} \cup {Lit(k) : k \in 1..NumLiterals}

-----------------------------------------------------------------------------
(* The CodeBlock descriptor (spec: CodeBlock's fields).                    *)
Distinct(s) == FoldLeft(LAMBDA acc, x : IF Contains(acc, x) THEN acc ELSE Append(acc, x),
                        <<>>, s)

FnAllocated(f) == f.name # "" /\ ~Contains(f.params, f.name)

Ids(f) == Distinct(f.params) \o (IF FnAllocated(f) THEN <<f.name>> ELSE <<>>)
          \o (IF f.usesArgs THEN <<"arguments">> ELSE <<>>) \o <<Local>>

StackIds(f) == IF f.kind = "named" THEN <<>> ELSE SelectSeq(Ids(f), LAMBDA n : n \notin f.captured)
HeapIds(f) == SelectSeq(Ids(f), LAMBDA n : n \in f.captured)
NamedIds(f) == IF f.kind = "named" THEN ToSet(Ids(f)) \ {"arguments"} ELSE {}

(* m_indexForIndexedStorage, plus one: the identifier's stack or heap slot. *)
Index(f, n) == LET s == IF n \in f.captured THEN HeapIds(f) ELSE StackIds(f)
               IN  CHOOSE k \in 1..Len(s) : s[k] = n

(* The fast path copies argv into the first slots; it is right only when *)
(* the parameters are distinct stack identifiers.                        *)
NeedsComplexParameterCopy(f) ==
  \/ f.kind = "named"
  \/ Len(Distinct(f.params)) < Len(f.params)
  \/ \E n \in ToSet(f.params) : n \in f.captured

IsParameterName(f, n) == Contains(f.params, n) \/ n = "arguments"
ExplicitlyDeclaredOrParameterName(f, n) == Contains(f.params, n) \/ n = Local
SaveOnHeap(f) == FnAllocated(f) /\ f.name \in f.captured

Descriptors ==
  {f \in [params : BoundedSeq(Names \cup {FnName}, MaxParams), name : {FnName, ""},
          strict : BOOLEAN, kind : {"stack", "heap", "named", "native"},
          captured : SUBSET (Names \cup {FnName, Local}), usesArgs : BOOLEAN] :
     /\ f.captured \subseteq ToSet(Ids(f))
     /\ (f.kind = "heap") = (f.captured # {})
     /\ f.kind = "named" => f.params \in NamedParamLists
     \* a native function's parametersInfomation is a count; its names
     \* only label the positions
     /\ f.kind = "native" => /\ f.name = "" /\ ~f.usesArgs
                             /\ Len(Distinct(f.params)) = Len(f.params)}

(* The binding of n, wherever the descriptor puts it.                       *)
Binding(s, n) ==
  CASE fn.kind = "native" -> s.argv[CHOOSE k \in DOMAIN fn.params : fn.params[k] = n]
    [] fn.kind = "named"  -> s.named[n]
    [] n \in fn.captured -> s.heap[Index(fn, n)]
    [] OTHER             -> s.stack[Index(fn, n)]

Write(s, n, v) ==
  CASE fn.kind = "named"  -> [s EXCEPT !.named[n] = v]
    [] n \in fn.captured -> [s EXCEPT !.heap[Index(fn, n)] = v]
    [] OTHER             -> [s EXCEPT !.stack[Index(fn, n)] = v]

ToObject(v) == IF v = Prim THEN Boxed ELSE v

(* A conversion that sends only undefined to the global object.           *)
BindThisUndefinedOnly(strict, r) ==
  CASE strict    -> r
    [] r = Undef -> Global
    [] OTHER     -> ToObject(r)

(* The receiver conversion both paths make (204-211, 316-328): strict code *)
(* gets the receiver as is; sloppy code the global object for undefined or *)
(* null, else ToObject(receiver).                                          *)
BindThis(strict, r) ==
  CASE strict              -> r
    [] r \in {Undef, Null} -> Global
    [] OTHER               -> ToObject(r)

ParameterCopySize == IF argc < Len(fn.params) THEN argc ELSE Len(fn.params)

-----------------------------------------------------------------------------
(* Prepare without the loop at 257-259: stack slots keep what alloca gave. *)
PrepareNoZero ==
  /\ pc = "prepare"
  /\ fn.kind # "native"
  /\ store' = [stack |-> [k \in 1..Len(StackIds(fn)) |-> Garbage],
               heap  |-> [k \in 1..Len(HeapIds(fn)) |-> Undef],
               named |-> [n \in NamedIds(fn) |-> Undef],
               argv  |-> store.argv]
  /\ literals' = [k \in 1..NumLiterals |-> Lit(k)]
  /\ pc' = "fnname"
  /\ UNCHANGED <<fn, argc, receiver, thisVal, calleeReg>>

(* 227-265: the record (simple on the stack, indexed or named on the heap *)
(* with every binding undefined), the register file with the stack slots  *)
(* zeroed (257-259) and the literal pool copied (261-264).                 *)
Prepare ==
  /\ pc = "prepare"
  /\ fn.kind # "native"
  /\ store' = [stack |-> [k \in 1..Len(StackIds(fn)) |-> Undef],
               heap  |-> [k \in 1..Len(HeapIds(fn)) |-> Undef],
               named |-> [n \in NamedIds(fn) |-> Undef],
               argv  |-> store.argv]
  /\ literals' = [k \in 1..NumLiterals |-> Lit(k)]
  /\ pc' = "fnname"
  /\ UNCHANGED <<fn, argc, receiver, thisVal, calleeReg>>

(* The fast path without the padding loop at 198-200.                      *)
CallNativeFunctionNoPad ==
  /\ pc = "prepare"
  /\ fn.kind = "native"
  /\ store' = [store EXCEPT !.argv = [i \in DOMAIN @ |-> IF i <= argc THEN Arg(i) ELSE Garbage]]
  /\ thisVal' = BindThis(fn.strict, receiver)
  /\ pc' = "body"
  /\ UNCHANGED <<fn, argc, receiver, literals, calleeReg>>

(* 184-219: a native function gets an argv of at least its declared       *)
(* length, the arguments followed by undefined in a fresh alloca (192-   *)
(* 201), the converted receiver, and is called with the original argc.    *)
(* An exception it throws is handed to processException, which rethrows.  *)
CallNativeFunction ==
  /\ pc = "prepare"
  /\ fn.kind = "native"
  /\ LET len == Len(fn.params)
     IN  store' = IF argc < len
                  THEN [store EXCEPT !.argv = [i \in DOMAIN @ |->
                          CASE i <= argc -> Arg(i) [] i <= len -> Undef [] OTHER -> Garbage]]
                  ELSE store
  /\ thisVal' = BindThis(fn.strict, receiver)
  /\ pc' = "body"
  /\ UNCHANGED <<fn, argc, receiver, literals, calleeReg>>

(* 266-279: if m_functionNameSaveInfo.m_isAllocated, bind the callee in   *)
(* its stack slot, its heap slot or the named record.                      *)
BindFunctionName ==
  /\ pc = "fnname"
  /\ store' = IF FnAllocated(fn) THEN Write(store, fn.name, Callee) ELSE store
  /\ pc' = "params"
  /\ UNCHANGED <<fn, argc, receiver, thisVal, literals, calleeReg>>

(* The loop with the `else if (info[i].m_index >= argc)` test taken for   *)
(* every missing argument.                                                 *)
IndexedParameterCopyNoUndefine(s, i) ==
  LET p == fn.params[i]
  IN  IF i <= argc THEN Write(s, p, Arg(i)) ELSE s

(* One turn of the indexed loop at 289-307 on parameter i: argv[i] if      *)
(* i < argc; else skip if the parameter's slot index is not below argc;   *)
(* else undefined.                                                         *)
IndexedParameterCopy(s, i) ==
  LET p == fn.params[i]
  IN  CASE i <= argc                -> Write(s, p, Arg(i))
        [] Index(fn, p) - 1 >= argc -> s
        [] OTHER                    -> Write(s, p, Undef)

(* 281-310: the fast path copies the first min(argc, n) arguments into the *)
(* first stack slots (305-308); the complex path binds them by name in a   *)
(* named record (283-285) or walks parametersInfomation (287-307).         *)
PrepareParameters ==
  /\ pc = "params"
  /\ store' =
       CASE ~NeedsComplexParameterCopy(fn) ->
              [store EXCEPT !.stack = [k \in DOMAIN @ |-> IF k <= ParameterCopySize
                                                          THEN Arg(k) ELSE @[k]]]
         [] fn.kind = "named" ->
              FoldLeft(LAMBDA s, i : [s EXCEPT !.named[fn.params[i]] = Arg(i)],
                       store, [i \in 1..ParameterCopySize |-> i])
         [] OTHER ->
              FoldLeft(IndexedParameterCopy, store, [i \in 1..Len(fn.params) |-> i])
  /\ pc' = "arguments"
  /\ UNCHANGED <<fn, argc, receiver, thisVal, literals, calleeReg>>

(* 312-314 and generateArgumentsObject (336-358): a named record gets an  *)
(* `arguments` binding, created if missing (340-344); an indexed one has  *)
(* it on the stack (346-354).                                              *)
GenerateArgumentsObject ==
  /\ pc = "arguments"
  /\ store' = CASE ~fn.usesArgs      -> store
                [] fn.kind = "named" -> [store EXCEPT !.named = ("arguments" :> ArgumentsObject) @@ @]
                [] OTHER             -> Write(store, "arguments", ArgumentsObject)
  /\ pc' = "receiver"
  /\ UNCHANGED <<fn, argc, receiver, thisVal, literals, calleeReg>>

(* 316-328: the receiver, converted as BindThis says.                     *)
PrepareReceiver ==
  /\ pc = "receiver"
  /\ thisVal' = BindThis(fn.strict, receiver)
  /\ pc' = "prologue"
  /\ UNCHANGED <<fn, argc, receiver, store, literals, calleeReg>>
(* The loop at 54-63 without the `continue` for the function's own name.  *)
InitStackVarsNoSkip(s) ==
  FoldLeft(LAMBDA acc, n : IF n \in fn.captured \/ IsParameterName(fn, n)
                           THEN acc ELSE Write(acc, n, Undef),
           s, Ids(fn))

(* 51-64: LoadLiteral undefined into every stack identifier that is no    *)
(* parameter name, except the function's own name when nothing declares  *)
(* it (call() has bound it, 56-59).                                       *)
InitStackVars(s) ==
  FoldLeft(LAMBDA acc, n : IF \/ n = fn.name /\ ~ExplicitlyDeclaredOrParameterName(fn, n)
                              \/ n \in fn.captured
                              \/ IsParameterName(fn, n)
                           THEN acc ELSE Write(acc, n, Undef),
           s, Ids(fn))

(* The prologue the interpreter runs first (FunctionNode.h:41-133):       *)
(* BindingCalleeIntoRegister (44-48), the stack identifiers (50-64) when   *)
(* the storage is indexed, the literal pool (66-72), then, inside the     *)
(* function's block, generateFunctionNameByteCode (122-133) storing the    *)
(* callee register into a heap-saved name.  Parameter lowering and the    *)
(* body (74-119) come after and are not modelled.                          *)
Prologue ==
  /\ pc = "prologue"
  /\ LET reg == IF fn.name # "" /\ SaveOnHeap(fn) THEN Callee ELSE calleeReg
         s1  == IF fn.kind # "named" THEN InitStackVars(store) ELSE store
     IN  /\ calleeReg' = reg
         /\ store' = IF SaveOnHeap(fn) /\ ~ExplicitlyDeclaredOrParameterName(fn, fn.name)
                        /\ fn.name # "arguments"
                     THEN Write(s1, fn.name, reg) ELSE s1
  /\ literals' = [k \in 1..NumLiterals |-> Lit(k)]
  /\ pc' = "body"
  /\ UNCHANGED <<fn, argc, receiver, thisVal>>

(* call() is entered for some function, with some arguments and receiver; *)
(* the frame is not yet allocated.                                         *)
Init ==
  /\ fn \in Descriptors
  /\ argc \in 0..MaxArgc
  /\ receiver \in {Undef, Null, Prim, Recv}
  /\ pc = "prepare"
  /\ store = [stack |-> [k \in 1..Len(StackIds(fn)) |-> Garbage],
              heap  |-> [k \in 1..Len(HeapIds(fn)) |-> Garbage],
              named |-> [n \in NamedIds(fn) |-> Garbage],
              \* the caller's argv: argc values, then whatever lies past them
              argv  |-> [i \in 1..MaxParams |-> IF i <= argc THEN Arg(i) ELSE Garbage]]
  /\ thisVal = Garbage
  /\ literals = [k \in 1..NumLiterals |-> Garbage]
  /\ calleeReg = Garbage

Next ==
  \/ CallNativeFunction
  \/ Prepare
  \/ BindFunctionName
  \/ PrepareParameters
  \/ GenerateArgumentsObject
  \/ PrepareReceiver
  \/ Prologue

Spec == Init /\ [][Next]_vars

-----------------------------------------------------------------------------
TypeOK ==
  /\ pc \in {"prepare", "fnname", "params", "arguments", "receiver", "prologue", "body"}
  /\ fn \in Descriptors
  /\ argc \in 0..MaxArgc
  /\ pc # "prepare" /\ fn.kind # "native" =>
                       /\ \A k \in DOMAIN store.stack : store.stack[k] \in Values
                       /\ \A k \in DOMAIN store.heap : store.heap[k] \in Values
                       /\ \A n \in DOMAIN store.named : store.named[n] \in Values
  /\ \A k \in DOMAIN store.argv : store.argv[k] \in Values \cup {Garbage}
  /\ thisVal \in Values \cup {Garbage}

(* The value ECMAScript's FunctionDeclarationInstantiation gives parameter *)
(* n: the parameters are bound in order, so the last position k with that *)
(* name wins, with argv[k-1] if k <= argc and undefined otherwise.          *)
ExpectedParam(n) ==
  LET k == SelectLastInSeq(fn.params, LAMBDA x : x = n)
  IN  IF k <= argc THEN Arg(k) ELSE Undef

(* When the body starts, every parameter, duplicates included, holds what *)
(* ECMAScript binds it to, whichever of call()'s three parameter paths     *)
(* (281-310) and storage kinds ran, and the prologue has not overwritten  *)
(* it.  The comment at FunctionObject.cpp:293 cites test262 S10.2.1_A3.   *)
ParametersBound ==
  pc = "body" => \A n \in ToSet(fn.params) : Binding(store, n) = ExpectedParam(n)

(* ECMAScript OrdinaryCallBindThis: a strict function's this is the       *)
(* argument as given; a sloppy one's is the global object for undefined   *)
(* or null and ToObject of anything else.                                  *)
OrdinaryThis ==
  IF fn.strict THEN receiver
  ELSE IF receiver = Undef \/ receiver = Null THEN Global ELSE ToObject(receiver)

(* When the body starts, native or not, this is what OrdinaryCallBindThis *)
(* gives, and the other bindings call() and the prologue set up are        *)
(* intact: the function's own name is the callee, `arguments` is the      *)
(* arguments object, a declared variable is undefined, and the literal    *)
(* slots hold the pool; none is clobbered by a later step.                 *)
EnvironmentMatchesSpec ==
  pc = "body" =>
    /\ thisVal = OrdinaryThis
    /\ fn.kind # "native" =>
         /\ FnAllocated(fn) => Binding(store, fn.name) = Callee
         /\ fn.usesArgs => Binding(store, "arguments") = ArgumentsObject
         /\ Binding(store, Local) = Undef
         /\ literals = [k \in 1..NumLiterals |-> Lit(k)]
=============================================================================
