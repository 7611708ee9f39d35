# TLA+ models of the Escargot engine core

This directory holds TLA+ models of the Escargot JavaScript engine parts under
`src/`, checked with TLC. Each module is written from the C++ source.
`PROJECT.json` maps every definition to the lines it translates. It also lists
the runs, the mutants, the findings and the hazards.

## The system and how its parts interact

* **Jobs** (`src/src/runtime/Job.cpp`). These are the entries of the VM's job
  queue. A `PromiseReactionJob` runs a `then` handler and settles the derived
  promise through its capability. A `PromiseResolveThenableJob` calls a
  thenable's `then` with fresh resolving functions. A `CleanupSomeJob` runs a
  FinalizationRegistry's collections under a temporarily swapped callback.
* **Android shell** (`src/build/android/escargot/src/main/cpp/escargot.cpp`).
  * `evalScript` parses and runs a script, then drains the local job queue and
    the cross-thread queue.
  * `builtinHelperFileRead` reads source files, using Latin-1 while it can and
    UTF-8 otherwise.
  * The `Globals` JNI functions set up and tear down the engine for the process
    and for each Java thread.
* **Calls** (`src/src/runtime/FunctionObject.cpp`). `call()` checks the stack
  limit and compiles the callee lazily. When the compiled code is over
  `codeSizeMax`, it first drops the bytecode of every function that is off the
  execution-context chain. It then binds the callee, the parameters,
  `arguments` and `this`.
* **Bytecode generation** (`src/src/interpreter/ByteCodeGenerator.cpp` and
  `src/src/parser/ast`).
  * `FunctionNode` emits the prologue that the interpreter runs before the body.
  * `break` and `continue` emit a `Jump` to `SIZE_MAX` and record its position in
    the fixup table of the `ByteCodeGenerateContext`. The loop that owns the
    target patches the recorded jumps when it ends (`consume*Positions`). A jump
    registered as crossing a `try` becomes a `JumpComplexCase` with a
    `ControlFlowRecord` (`morphJumpPositionIntoComplexCase`).
  * After emission, `generateByteCode` rewrites every register operand to the
    physical register file and rebases the jumps.
* **Serialization** (`src/src/runtime/serialization/SerializedStringValue.h`).
  This writes and reads string values on a stream.
* **Test-data runner** (`src/tools/test/test-data-runner/test-data-runner.cpp`).
  It splits the test cases over threads and counts the results in shared
  atomics.

## Modules and their correspondence to the code

| module | models | state | actions |
|---|---|---|---|
| `PromiseJobs` | Job.cpp, over the ECMAScript promise algorithms the code cites | promise records, FIFO job queue, capability calls, registry callbacks | `Then`, `UserResolve`, `UserReject`, `RunJob` (`ReactionJobRun`, `ThenableJobRun`, `CleanupJobRun`), `CleanupSome`, `CollectGarbage` |
| `EvalScript` | escargot.cpp:357-430, 621-638 | phase, local and cross-thread job counts | `EvalBegin`, `WaitBegin`, `WaitWoken`, `WaitTimeout`, `RunLocalJob`, `DrainExit`, `Post`, `HostExecutePendingJob` |
| `CodeCache` | FunctionObject.cpp:96-229, 331-335 | per-function block version, `compiledCodeBlocks`, frame stack, parser stack budget | `Call` (guard, lazy `Generate` with `Trim`, push), `Return` |
| `Activation` | FunctionObject.cpp:184-219, 227-328, 336-358; FunctionNode.h:41-133 | the function's descriptor, argc, receiver, stack/heap/named storage, a native's argv, `this` slot, literal slots, callee register | `CallNativeFunction`, `Prepare`, `BindFunctionName`, `PrepareParameters`, `GenerateArgumentsObject`, `PrepareReceiver`, `Prologue` |
| `Fixups` | ByteCodeGenerator.cpp:24-86; Break/ContinueStatementNode.h:35-43; loop and try boundaries from the spec | the code, the four position lists, the complex-case map, the open loop and try scopes | `EnterLoop`, `EnterTry`, `BreakStatement`, `ContinueStatement`, `ExitLoop`, `ExitTry` |
| `ByteCodeGenerator` | ByteCodeGenerator.cpp:102-190, FunctionNode.h:66-72, composing `Fixups` and `RegisterRewrite` | the stage (emit or rewrite), the unit (global/eval or function), the scope's numeral literals | the `Fixups` actions, `FinishEmission`, `GenerateError`, then `Step` |
| `RegisterRewrite` | ByteCodeGenerator.cpp:88-100, 174-460 | the code as emitted and as rewritten, frame layout, loop index | `Step` (one iteration, `RewriteInstruction`) |
| `Serialization` | SerializedStringValue.h:42-66 | the stream, the values written and read, the read position | `Serialize`, `Handover`, `Deserialize` |
| `Utf8Read` | escargot.cpp:98-214 | the file, the read position, `buf` and the bytes above it, the Latin-1 and UTF-8 accumulators, the result | `ReadLatin1Chunk`, `ReadUtf8Chunk`, `EndOfFile` |
| `TestBatch` | the runner's promise, with no threads (abstract) | stage, cases left, outcomes, printed indices, verdict | `Start`, `Abort`, `Take`, `Finish` |
| `TestRunner` | test-data-runner.cpp:98-316 | thread count, case count, ranges, per-thread loop position, the atomics, per-case outcome and printed index, verdict | `Setup`, `RunCase`, `Join` |

The `MC*` modules only give the constants their values.

* **PromiseJobs.** User code is nondeterministic: a handler or thenable may
  return, throw, or call its resolving functions in any order. A job runs as one
  step, because the VM runs one job at a time. Job.cpp is translated line by
  line. The promise side is not in the repository, so it is modelled from the
  ECMAScript algorithms and marked `spec_modelled`.
* **EvalScript.** Jobs are counted here, and their content is left to
  `PromiseJobs`. Each turn of the drain loop takes three steps. `WaitBegin`
  is the loop condition and the call `waitEventFromAnotherThread(10)`: it
  returns true at once when posted jobs are queued, and otherwise blocks.
  Then either `WaitWoken` (a `Post` signalled the blocked thread) or
  `WaitTimeout` (10 ms passed) happens. Last comes `RunLocalJob`, the
  `hasPendingJob`/`executePendingJob` half. The wait itself is not in the
  repository and follows spec 5 (`spec_modelled`): a poster appends under
  the lock and signals a condition variable, and a signal sent while no
  thread waits is lost.
* **CodeCache.** A `ByteCodeBlock` is a version number, and stack distances are
  `size_t` values taken `% 2^W`.
* **Activation.**
  * The actions follow `call()`'s order, then the prologue. `PrepareParameters`
    has all three of the code's paths: the fast copy, the named record and the
    indexed loop (`IndexedParameterCopy`).
  * A native function takes `CallNativeFunction` (184-219) instead. If argc is
    below the declared length, the arguments are copied into a fresh argv padded
    with undefined; otherwise the caller's argv is passed as it is. The receiver
    is converted as on the script path (`BindThis`), and the function is
    entered. The caller's argv past argc is modelled as garbage, so a missing
    pad would show.
  * `InterpretedCodeBlock` is not under `src/`. Its layout is therefore modelled
    from the spec's list of CodeBlock fields and marked `spec_modelled`.
    Identifiers are numbered by first appearance, with stack and heap slots
    counted separately. `needsComplexParameterCopy` holds unless the parameters
    are distinct stack identifiers. `arguments` is flagged as a parameter name,
    which the prologue's skip needs.
* **RegisterRewrite.** `Operands(op)` gives the register fields that each case of
  the `switch` rewrites.
* **Fixups.** The consume functions are folds over the lists. The labeled ones
  are `RECURSIVE` scans that restart at the first entry after an erase, as
  `i = -1` does. The loop and try statements that call them are not under
  `src/`, so their boundaries are modelled from the spec and marked
  `spec_modelled`. The ghost variables `intent` and `resolved` record which loop
  each `break` or `continue` aims at and where that loop ended.
* **ByteCodeGenerator.** A block either is emitted by `Fixups` and handed to the
  post-pass, or is a single instruction of any opcode, as before. A
  `ByteCodeGenerateError` may end emission at any point (`GenerateError`).
  Emitted code starts with a `DeclareFunctionDeclarations` when a child block
  is a function declaration (`Prologues`, lines 128-136). `FinishEmission`
  takes a global or eval block as emitted. A function body that ends in a
  `return` statement ends with that statement's `ReturnFunctionWithValue`.
  Any other function body gets a `ReturnFunction` appended.
  * The numeral literals link three pieces of code. A function's prologue
    loads literal i into register `REGULAR_REGISTER_LIMIT + VARIABLE_LIMIT +
    i` when the context holds a pool (`LiteralLoads`, FunctionNode.h:66-72).
    The pool is nullptr for a scope with many literals (`NumeralData`, lines
    116-120). At the end, the pool is copied into the block when
    `m_keepNumberalLiteralsInRegisterFile` holds (`BlockNumerals`, lines
    164-167), and this sets the frame's literal count. `call()` sizes the
    register file from that count, so `RegistersInFile` checks the prologue's
    literal registers against the file that `call()` allocates.
  * The context's constructor is not under `src/`. It is taken to keep the
    literals exactly when it was given a pool (`KeepNumerals`,
    `spec_modelled`).
* **TestBatch and the refinement.** `TestRunner` maps its state onto
  `TestBatch` with `INSTANCE ... WITH`. The cases left are the cases no thread
  has run once set-up has split them, and `joined` is `done`.
* **Serialization.** The stream is a sequence of one-character strings.
  `operator>>` skips whitespace. A failed extraction leaves `ch` uninitialised,
  so every failed read yields the same unknown byte.
  * The type tag that the Serializer writes before each value is modelled from
    the spec, because that code is not under `src/`.
* **Utf8Read.**
  * `buf` is scaled to `Chunk` bytes. It starts with arbitrary (`Garbage`) bytes
    and keeps its old bytes past `readLen`.
  * Three more entries stand for the stack above it, which `readUTF8Sequence`
    may read.
* **TestRunner.** A case is its index, and its outcome (skip, pass or fail) is
  nondeterministic. A thread's loop iteration is one step, because the counters
  are atomics.

## Runs

| run | cfg | result | what it shows |
|---|---|---|---|
| promise_jobs | MCPromiseJobs.cfg | pass (4.5M states, ~2.5 min) | `HandlerErrorReported`: a handler's throw reaches the capability's reject. `AdoptionOutcome`: an adopted thenable settles the promise as its first resolving call says. |
| promise_settle_once | MCPromiseJobsSettle.cfg | violation | A custom capability `resolve` that throws is followed by a call to `reject` (Job.cpp:67-81). The ECMAScript job makes one call. |
| eval_drain | EvalScript.cfg | pass | The drain loop ends even while jobs spawn jobs, other threads post, and a post races the wait's timeout or its signal is lost (`DrainTerminates`). |
| code_cache | CodeCache.cfg | pass | The trim never drops a running function's bytecode (`RunningCodeCurrent`). `compiledCodeBlocks` stays consistent (`CompiledListConsistent`). Exactly the blocks off the chain are dropped (`TrimDropsExactlyOffStack`). |
| code_cache_parser_budget | CodeCacheBudget.cfg | violation | `call()` lets a frame through at the limit. `generateBytecodeBlock` then computes the parser's budget in `size_t` from a deeper frame, and the budget wraps. |
| activation | Activation.cfg | pass (347k states) | When the body starts, every parameter (duplicates included) holds the value ECMAScript binds it to (`ParametersBound`). The callee, the arguments object, declared variables and literals are intact (`EnvironmentMatchesSpec`). On both the script and the native path, `this` is what ECMAScript's OrdinaryCallBindThis gives, and a native's argv reads undefined up to its declared length. |
| activation_duplicate_params | ActivationDuplicates.cfg | violation | In a non-indexed scope (`eval`/`with`), `function f(a, a)` called with one argument leaves `a` = argv[0]. ECMAScript gives `undefined`. |
| register_rewrite | RegisterRewrite.cfg | pass (7.7M states, ~2 min) | Every rewritten register lies in the physical file that `call()` allocates, a function's literal registers included (`RegistersInFile`). Every `break`/`continue` is patched to its loop's end or test, as a `JumpComplexCase` with the right record when a `try` lies between (`JumpsPatchedToTarget`). The fixup table is empty when emission ends (`FixupsConsumed`). After the post-pass every jump lands inside the block (`JumpsLandInBlock`). |
| register_rewrite_spec | RegisterRewriteSpec.cfg | violation | `ObjectDefineOwnPropertyWithNameOperation` rewrites `m_loadRegisterIndex` twice (ByteCodeGenerator.cpp:260-261). The second rewrite moves an operand that is already at or above `REGULAR_REGISTER_LIMIT` to another register (`RewriteMatchesSpec`); spec 9 says to treat it as a single rewrite. |
| test_runner | TestRunner.cfg | pass | Each case read is run by exactly one thread, and the printed indices are 0..caseNum-1 (`EveryCaseRunOnce`). The verdict is "Passed" exactly when every case passed or was skipped (`VerdictSound`). The threaded runner implements `TestBatch` (`ImplementsTestBatch`): under the refinement mapping each thread's iteration is one `Take` of a case not yet taken, `g_index` numbers the cases in the order they are taken, and the runner reaches its verdict. |
| serialization_space | SerializationSpace.cfg | violation | A string containing a space does not read back: `operator>>` skips it and the reader falls out of step. |
| utf8_read | Utf8Read.cfg | pass | For well-formed files, cut at every chunk boundary and whatever the stack holds, the string made is the file's text (`ResultMatchesReference`). |

One more configuration reproduces a case that is recorded as a hazard and has
no run of its own: `Utf8ReadOverlong.cfg` shows that the overlong form C0 80 is
read as Latin-1 U+0000.

Other cases are read off the code and described here without a run:

* `evalScript` returns a script's error at escargot.cpp:406 before draining the
  jobs that the script enqueued.
* A promise job that throws during the drain sets `result = false`
  (escargot.cpp:421), and nothing reads it. `evalScript` still returns the
  script's success.
* A thread count of 0 from `hardware_concurrency()` makes the runner divide by
  zero (test-data-runner.cpp:220). `TestRunner`'s `Setup` models this as a crash.

Every property of a passing run has a mutant in `PROJECT.json`. A mutant is a
plausible bug in the mapped code, and TLC finds the property violated under it.
Examples: a settlement that keeps its reactions, a trim that ignores the stack,
the last thread's range not stretched to `caseNum`, the Latin-1 branch without
its rewind, and the prologue not skipping the function's own name.

## Bounds and why they are enough

* **PromiseJobs**: 2 promises, 1 thenable, 1 handler, 1 registry with 2
  callbacks, at most 2 `then` calls and 2 adoptions. This is enough for a
  reaction registered before settlement and one after it, for a thenable that
  resolves and then throws. A promise resolved with another promise is not
  modelled: `Thenables` are foreign objects, never promises of the model.
* **EvalScript**: 3 evaluations, 2 posts, 4 jobs, 2 per script. A drain sees
  both queues non-empty, and jobs spawn jobs.
* **CodeCache**: 3 functions, `codeSizeMax` 5, stack limit 4 with frames of 2,
  and a 4-bit `size_t`. A trim happens with one function on the stack and one
  off it, and recursion reaches the guard.
* **Activation**:
  * Up to three parameters over `a`, `b` and the function's own name `f`, so
    that there are repeated names, shadowing of the function name, and distinct
    names in every order.
  * argc from 0 to 3, so there are fewer, as many and more arguments than
    parameters.
  * Every storage kind, every capture set, native functions, and strict and
    sloppy code.
* **RegisterRewrite**: `REGULAR_REGISTER_LIMIT` 3, `VARIABLE_LIMIT` 2, and one
  instruction of every opcode with every operand. The loop treats instructions
  independently.
* **Fixups**: two labels, at most three nested loop or try scopes, and eight
  instructions. This is enough for two labeled breaks to the same outer loop
  from an inner loop, for a labeled entry of another label left in the list,
  and for a break that crosses a `try` inside a nested loop. A block has at most
  one numeral literal (`MaxNumerals` 1). That is enough for a literal register
  to fall one past a pool copied short. A global or eval block and a scope with
  many literals are taken only with that one literal; the other combinations
  give the same code.
* **TestRunner**:
  * 1 to 3 threads and up to 4 cases.
  * This gives empty ranges (fewer cases than threads), equal ranges, and a last
    range with a remainder.
  * Every interleaving of the threads' iterations is explored.
* **Serialization**: values of up to 2 bytes over a letter and a space, two
  values. A space in the first value already desynchronises the second.
* **Utf8Read**: 2-byte chunks and files of up to 5 bytes made of "A", U+00E9 and
  U+20AC. Multi-byte characters therefore straddle every chunk boundary, and the
  decoder reads past the chunk into stale and stack bytes.

## Fairness

`EvalScript` assumes weak fairness of the drain loop's steps (`Foreground`,
the timeout included). The foreground thread stays in `evalScript`'s `while`
until its condition fails, and a blocked wait returns after 10 ms at the
latest. No fairness is given to `Post`, so a wait that is not woken must be
left by its timeout. Posts from
other threads and Java's calls get no fairness.

`TestRunner`'s specification has weak fairness for each started thread and for
`Join`, because the OS runs every `std::thread` and `main` blocks in `join()`.
Under these assumptions `ImplementsTestBatch` checks `TestBatch`'s own fairness
as well: set-up ends, every case is eventually taken and the verdict is printed.
The model takes each shell run (`exec`) to return with an outcome. Two ways
it does not are left out: a child that hangs keeps `join()` waiting, since
nothing in the runner guards against it; and `popen` failing makes `exec`
throw (test-data-runner.cpp:51), which ends the process through
`std::terminate` on a worker thread.

## Not modelled

* **Globals and thread lifecycle bridge** (escargot.cpp:80-91, 463-499).
  `Globals::isInitialized()` reads a per-thread flag of the engine's
  `Globals`, which is not under `src/`. Every bridge function is then the
  usual init-if-not / fini-if-so guard on the calling thread's own state, and
  a model of it would only restate those guards.
* **JNI wrappers.** The JNI value, string and bridge conversions and the module
  loader are one-call wrappers over the engine API and the JVM.
* **Code outside `src/`.** This covers the promise internals, the interpreter,
  the parser, the GC and `InterpretedCodeBlock`. Where a model needs them, they
  are taken from the ECMAScript algorithms or the spec and marked
  `spec_modelled`.
* **Parts of `call()`.** What a native function does is not modelled, and
  neither is the interpreter that runs a body. `processException` is outside
  `src/` and is taken to rethrow.
* **Bytecode generation.** `switch`, `with` and `for-of` scopes are not
  modelled; the fixup table treats them as it treats loops and `try`. The literal
  loads of global code (`ProgramNode`) and `m_getObjectCodePositions` are
  not modelled either. Neither is the error
  message buffer, whose terminating zero is written one byte past its
  allocation (ByteCodeGenerator.cpp:151).
* **Declarations.** `Symbol`, `SymbolObject`, `ScriptArrowFunctionObject` and
  `ScriptParser` have no state change of interest.
