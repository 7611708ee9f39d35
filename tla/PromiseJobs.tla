----------------------------- MODULE PromiseJobs -----------------------------
(***************************************************************************)
(* The microtask jobs of src/runtime/Job.cpp and the job queue they are    *)
(* drained from:                                                           *)
(*   PromiseReactionJob::run        -> ReactionJobRun                      *)
(*   PromiseResolveThenableJob::run -> ThenableJobRun                      *)
(*   CleanupSomeJob::run            -> CleanupJobRun                       *)
(* The engine is single threaded and a job runs to completion inside its   *)
(* SandBox, so one run is one step.  User code (handlers, `then` methods,  *)
(* custom capability functions) is an input: each call of it returns or    *)
(* throws, chosen with \E.  The promise side (resolving functions with     *)
(* their alreadyResolved flag, PerformPromiseThen, TriggerPromiseReactions *)
(* and the VM's FIFO job queue) is not under src/ and is modelled from the *)
(* ECMAScript algorithms the code cites.                                   *)
(*                                                                         *)
(* A step of this module works on a record S of the whole state, so that  *)
(* the several calls one job makes compose in the order the code makes    *)
(* them:  S = [prom, queue, last].                                       *)
(***************************************************************************)
EXTENDS Naturals, Sequences, SequencesExt

CONSTANTS
  Promises,    \* promise objects
  Vals,        \* plain values a handler returns or throws
  Thenables,   \* objects with a user `then` method
  Handlers,    \* user reaction handler functions
  Registries,  \* FinalizationRegistry objects
  Callbacks,   \* cleanup callbacks
  NoValue,     \* "no value": an empty SandBoxResult::error, a null pointer
  MaxThens,    \* bound on promise.then registrations made by user code
  MaxAdopt     \* bound on the resolving-function sets created per promise

ASSUME MaxThens \in Nat /\ MaxAdopt \in Nat \ {0}

VARIABLES
  prom,        \* promise -> [state, value, gen, locked, reactions]
  queue,       \* the VM's pending job queue
  last,        \* the outcome of the job run last (NoValue before the first)
  thens,       \* number of then registrations so far
  callback,    \* FinalizationRegistry::m_cleanupCallback
  finalized    \* the <<registry, callback>> pairs a GC has run a finalizer with

jobVars == <<prom, queue, last, thens, callback, finalized>>

Identity == "Identity"   \* the sentinel handler (Object*)1 of Job.cpp:56
Thrower  == "Thrower"    \* the sentinel handler (Object*)2 of Job.cpp:62
NoPromise == NoValue     \* a capability whose m_promise is nullptr

Values == Vals \cup Thenables

(* A capability: the promise's own resolving functions (set number gen),  *)
(* user functions (a Promise subclass's executor), or none at all         *)
(* (m_promise, m_resolveFunction and m_rejectFunction all null).           *)
Capabilities ==
       [kind : {"builtin"}, promise : Promises, gen : {0}]
  \cup [kind : {"custom"},  promise : Promises, gen : {0}]
  \cup [kind : {"none"},    promise : {NoPromise}, gen : {0}]

Reaction == [onFulfilled : Handlers \cup {Identity},
             onRejected  : Handlers \cup {Thrower},
             cap : Capabilities, order : Nat]

(* What one call of user code does: return a value or throw one.          *)
UserResult == [throws : {FALSE}, v : Values] \cup [throws : {TRUE}, v : Vals]
(* What a call of a custom capability function does: return, or throw.    *)
FnResult == {"ok"} \cup Vals
(* What a thenable's `then(resolve, reject)` does: call at most one of     *)
(* its arguments, then return or throw.                                   *)
ThenResult ==
       [call : {"none"}, x : {NoValue}, throws : BOOLEAN, e : Vals]
  \cup [call : {"resolve"}, x : Values, throws : BOOLEAN, e : Vals]
  \cup [call : {"reject"},  x : Vals,   throws : BOOLEAN, e : Vals]

(* A promise as created: pending, with unused resolving functions (set 0). *)
Fresh == [state |-> "pending", value |-> NoValue, gen |-> 0, locked |-> {},
          reactions |-> <<>>, derived |-> FALSE]

St == [prom |-> prom, queue |-> queue, last |-> last]

SetSt(S) == /\ prom' = S.prom
            /\ queue' = S.queue
            /\ last' = S.last

-----------------------------------------------------------------------------
(* The job queue and the promise side (ECMAScript 27.2, not under src/).   *)

Enqueue(S, job) ==
  [S EXCEPT !.queue = Append(@, job)]

ReactionJob(r, p, st, x) ==
  [kind |-> "reaction", from |-> p, order |-> r.order,
   handler |-> IF st = "fulfilled" THEN r.onFulfilled ELSE r.onRejected,
   arg |-> x, cap |-> r.cap]

ThenableJob(p, t) == [kind |-> "thenable", promise |-> p, thenable |-> t]

(* TriggerPromiseReactions: one job per reaction, in registration order.   *)
TriggerReactions(S, p, st, x) ==
  FoldLeft(LAMBDA acc, r : Enqueue(acc, ReactionJob(r, p, st, x)),
           S, S.prom[p].reactions)

(* A variant that settles the promise but keeps its reaction list.       *)
SettleKeepingReactions(S, p, st, x) ==
  LET S1 == TriggerReactions(S, p, st, x)
  IN  [S1 EXCEPT !.prom[p].state = st, !.prom[p].value = x]

(* FulfillPromise / RejectPromise: trigger the reactions, record the      *)
(* outcome and drop the reaction list.                                     *)
Settle(S, p, st, x) ==
  LET S1 == TriggerReactions(S, p, st, x)
  IN  [S1 EXCEPT !.prom[p].state = st, !.prom[p].value = x,
                 !.prom[p].reactions = <<>>]

(* The resolve function of resolving-function set g of p: a no-op once    *)
(* the set has resolved; a thenable is adopted by a later job.             *)
ResolveFn(S, p, g, x) ==
  IF g \in S.prom[p].locked THEN S
  ELSE LET S1 == [S EXCEPT !.prom[p].locked = @ \cup {g}]
       IN  IF x \in Thenables THEN Enqueue(S1, ThenableJob(p, x))
                              ELSE Settle(S1, p, "fulfilled", x)

RejectFn(S, p, g, x) ==
  IF g \in S.prom[p].locked THEN S
  ELSE Settle([S EXCEPT !.prom[p].locked = @ \cup {g}], p, "rejected", x)

(* Object::call of a capability function: the promise's resolving          *)
(* functions never throw; a custom one returns or throws `out`.           *)
CapCall(S, cap, fn, x, out) ==
  IF cap.kind = "builtin"
  THEN [st |-> IF fn = "resolve" THEN ResolveFn(S, cap.promise, cap.gen, x)
                                 ELSE RejectFn(S, cap.promise, cap.gen, x),
        err |-> NoValue]
  ELSE [st |-> S, err |-> IF out = "ok" THEN NoValue ELSE out]

(* The record a finished job leaves in `last`: the capability calls it     *)
(* made, what user code threw, and the error its SandBox returned.         *)
Finish(S, j, calls, thenCall, threw, err) ==
  [S EXCEPT
     !.last = [job |-> j, calls |-> calls, thenCall |-> thenCall,
               threw |-> threw, error |-> err,
               after |-> IF j.kind = "thenable"
                         THEN [state |-> S.prom[j.promise].state,
                               value |-> S.prom[j.promise].value]
                         ELSE NoValue]]

-----------------------------------------------------------------------------
(* PromiseReactionJob::run.  h is what the handler does, rOut and jOut     *)
(* what custom resolve and reject functions do.                            *)

(* A variant whose inner SandBox swallows the handler's error when there   *)
(* is no reject function instead of rethrowing it.                         *)
ReactionJobRunSwallow(S, j, h, rOut, jOut) ==
  LET cap == j.cap
      inner == IF h.throws THEN [st |-> S, err |-> h.v, calls |-> <<>>]
               ELSE IF cap.promise = NoPromise THEN [st |-> S, err |-> NoValue, calls |-> <<>>]
               ELSE LET c == CapCall(S, cap, "resolve", h.v, rOut)
                    IN  [st |-> c.st, err |-> c.err, calls |-> <<<<"resolve", h.v>>>>]
  IN  IF inner.err # NoValue /\ cap.kind # "none"
      THEN LET c == CapCall(inner.st, cap, "reject", inner.err, jOut)
           IN  Finish(c.st, j, Append(inner.calls, <<"reject", inner.err>>), NoValue,
                      IF h.throws THEN h.v ELSE NoValue, c.err)
      ELSE Finish(inner.st, j, inner.calls, NoValue, IF h.throws THEN h.v ELSE NoValue, NoValue)

ReactionJobRun(S, j, h, rOut, jOut) ==
  LET cap == j.cap
      \* Identity and Thrower: resolve / reject called in the outer SandBox
      direct(fn, out) == LET c == CapCall(S, cap, fn, j.arg, out)
                         IN  Finish(c.st, j, <<<<fn, j.arg>>>>, NoValue, NoValue, c.err)
      \* the inner SandBox: the handler, then resolve of its result
      inner == IF h.throws THEN [st |-> S, err |-> h.v, calls |-> <<>>]
               ELSE IF cap.promise = NoPromise THEN [st |-> S, err |-> NoValue, calls |-> <<>>]
               ELSE LET c == CapCall(S, cap, "resolve", h.v, rOut)
                    IN  [st |-> c.st, err |-> c.err, calls |-> <<<<"resolve", h.v>>>>]
      threw == IF h.throws THEN h.v ELSE NoValue
  IN  CASE j.handler = Identity -> direct("resolve", rOut)
        [] j.handler = Thrower  -> direct("reject", jOut)
        [] inner.err = NoValue  -> Finish(inner.st, j, inner.calls, NoValue, threw, NoValue)
        [] cap.kind # "none"    ->
             LET c == CapCall(inner.st, cap, "reject", inner.err, jOut)
             IN  Finish(c.st, j, Append(inner.calls, <<"reject", inner.err>>),
                        NoValue, threw, c.err)
        [] OTHER                -> Finish(inner.st, j, inner.calls, NoValue, threw, inner.err)

(* A variant that lets an error thrown by `then` escape to the outer       *)
(* SandBox instead of rejecting the promise with it.                       *)
ThenableJobRunNoCatch(S, j, t) ==
  LET p  == j.promise
      g  == S.prom[p].gen + 1
      S0 == [S EXCEPT !.prom[p].gen = g]
      S1 == CASE t.call = "resolve" -> ResolveFn(S0, p, g, t.x)
              [] t.call = "reject"  -> RejectFn(S0, p, g, t.x)
              [] OTHER              -> S0
  IN  Finish(S1, j, IF t.call = "none" THEN <<>> ELSE <<<<t.call, t.x>>>>, <<t.call, t.x>>,
             IF t.throws THEN t.e ELSE NoValue, IF t.throws THEN t.e ELSE NoValue)

(* PromiseResolveThenableJob::run: fresh resolving functions for the       *)
(* promise, then(resolve, reject) in the inner SandBox, reject on error.   *)
ThenableJobRun(S, j, t) ==
  LET p  == j.promise
      g  == S.prom[p].gen + 1
      S0 == [S EXCEPT !.prom[p].gen = g]
      S1 == CASE t.call = "resolve" -> ResolveFn(S0, p, g, t.x)
              [] t.call = "reject"  -> RejectFn(S0, p, g, t.x)
              [] OTHER              -> S0
      S2 == IF t.throws THEN RejectFn(S1, p, g, t.e) ELSE S1
      calls == (IF t.call = "none" THEN <<>> ELSE <<<<t.call, t.x>>>>)
               \o (IF t.throws THEN <<<<"reject", t.e>>>> ELSE <<>>)
  IN  Finish(S2, j, calls, <<t.call, t.x>>, IF t.throws THEN t.e ELSE NoValue, NoValue)

(* The successor states of running job j with the queue already popped.    *)
JobOutcomes(S, j) ==
  CASE j.kind = "reaction" ->
         {ReactionJobRun(S, j, h, r, e) : h \in UserResult, r \in FnResult, e \in FnResult}
    [] j.kind = "thenable" ->
         \* the last resolving-function set allowed may not adopt again
         {ThenableJobRun(S, j, t) : t \in {u \in ThenResult :
            S.prom[j.promise].gen + 1 = MaxAdopt => u.x \notin Thenables}}
    [] j.kind = "cleanup" ->
         {Finish(S, j, <<>>, NoValue, NoValue, NoValue)}

(* CleanupSomeJob::run: install the job's callback, collect three times    *)
(* (a finalizer may run with the installed callback), restore the old one. *)
CleanupJobRun(j) ==
  LET old == callback[j.registry]
  IN  /\ finalized' \in {finalized, finalized \cup {<<j.registry, j.callback>>}}
      /\ callback' = [callback EXCEPT ![j.registry] = old]

-----------------------------------------------------------------------------
(* Steps.                                                                  *)

(* VMInstance::executePendingJob: run the job at the head of the queue.    *)
RunJob ==
  /\ queue # <<>>
  /\ LET j == Head(queue)
     IN  /\ \E S2 \in JobOutcomes([St EXCEPT !.queue = Tail(queue)], j) : SetSt(S2)
         /\ IF j.kind = "cleanup" THEN CleanupJobRun(j)
                                  ELSE UNCHANGED <<callback, finalized>>
  /\ UNCHANGED thens

(* User code: promise.then(onFulfilled, onRejected) with capability cap    *)
(* (PerformPromiseThen).  A builtin capability is a new promise's own.     *)
Then(p, onF, onR, cap) ==
  /\ thens < MaxThens
  /\ cap.kind = "none" => onF \in Handlers /\ onR \in Handlers
  /\ cap.kind = "builtin" => /\ cap.promise # p
                             /\ prom[cap.promise] = Fresh
  /\ LET r  == [onFulfilled |-> onF, onRejected |-> onR, cap |-> cap, order |-> thens]
         st == prom[p].state
         S0 == IF cap.kind = "builtin"
               THEN [St EXCEPT !.prom[cap.promise].derived = TRUE] ELSE St
     IN  IF st = "pending"
         THEN SetSt([S0 EXCEPT !.prom[p].reactions = Append(@, r)])
         ELSE SetSt(Enqueue(S0, ReactionJob(r, p, st, prom[p].value)))
  /\ thens' = thens + 1
  /\ UNCHANGED <<callback, finalized>>

(* User code calls a promise's executor resolve / reject (set 0); the     *)
(* resolving functions of a promise made by then() are the engine's own. *)
UserResolve(p, x) ==
  /\ ~prom[p].derived
  /\ SetSt(ResolveFn(St, p, 0, x))
  /\ UNCHANGED <<thens, callback, finalized>>

UserReject(p, x) ==
  /\ ~prom[p].derived
  /\ SetSt(RejectFn(St, p, 0, x))
  /\ UNCHANGED <<thens, callback, finalized>>

(* FinalizationRegistry.prototype.cleanupSome(cb) enqueues a cleanup job.  *)
CleanupSome(r, cb) ==
  /\ \A j \in Range(queue) : j.kind = "cleanup" => j.registry # r
  /\ SetSt(Enqueue(St, [kind |-> "cleanup", registry |-> r, callback |-> cb]))
  /\ UNCHANGED <<thens, callback, finalized>>

(* A garbage collection outside any job runs the registry's own callback.  *)
CollectGarbage(r) ==
  /\ finalized' = finalized \cup {<<r, callback[r]>>}
  /\ UNCHANGED <<prom, queue, last, thens, callback>>

UserCode ==
  \/ \E p \in Promises, onF \in Handlers \cup {Identity}, onR \in Handlers \cup {Thrower},
        cap \in Capabilities : Then(p, onF, onR, cap)
  \/ \E p \in Promises, x \in Values : UserResolve(p, x)
  \/ \E p \in Promises, x \in Vals : UserReject(p, x)
  \/ \E r \in Registries, cb \in Callbacks : CleanupSome(r, cb)

JobInit ==
  /\ prom = [p \in Promises |-> Fresh]
  /\ queue = <<>>
  /\ last = NoValue
  /\ thens = 0
  /\ callback = [r \in Registries |-> CHOOSE c \in Callbacks : TRUE]
  /\ finalized = {}

JobNext ==
  \/ RunJob
  \/ UserCode
  \/ \E r \in Registries : CollectGarbage(r)

-----------------------------------------------------------------------------
(* Properties.                                                             *)

TypeOK ==
  /\ \A p \in Promises :
       /\ prom[p].state \in {"pending", "fulfilled", "rejected"}
       /\ prom[p].value \in Values \cup {NoValue}
       /\ prom[p].gen \in 0..MaxAdopt
       /\ prom[p].locked \subseteq 0..MaxAdopt
       /\ prom[p].reactions \in Seq(Reaction)
       /\ prom[p].derived \in BOOLEAN
       \* a settled promise holds its value and no reactions
       /\ (prom[p].state = "pending") = (prom[p].value = NoValue)
       /\ prom[p].state # "pending" => prom[p].reactions = <<>>
  /\ thens \in 0..MaxThens
  /\ callback \in [Registries -> Callbacks]
  /\ finalized \subseteq Registries \X Callbacks

(* Spec 8.5, PromiseReactionJob::run (Job.cpp:67-85): when a user handler  *)
(* throws e, the job calls the capability's reject exactly once, with e,   *)
(* and calls nothing else; with no reject function the SandBox reports e   *)
(* as the job's error.  A handler that returns, with no capability         *)
(* promise, leads to no call and no error.                                 *)
HandlerErrorReported ==
  (last # NoValue /\ last.job.kind = "reaction" /\ last.job.handler \in Handlers) =>
    /\ last.threw # NoValue /\ last.job.cap.kind # "none" =>
         last.calls = <<<<"reject", last.threw>>>>
    /\ last.threw # NoValue /\ last.job.cap.kind = "none" =>
         last.calls = <<>> /\ last.error = last.threw
    /\ last.threw = NoValue /\ last.job.cap.kind = "none" =>
         last.calls = <<>> /\ last.error = NoValue

(* ECMAScript PromiseReactionJob, cited at Job.cpp:52: a reaction job      *)
(* makes at most one call to its capability's resolve or reject.           *)
SettlesAtMostOnce ==
  (last # NoValue /\ last.job.kind = "reaction") => Len(last.calls) <= 1

(* Spec 8 "thenable adoption throws" and PromiseResolveThenableJob::run    *)
(* (Job.cpp:111-121): after the job the promise reflects the first thing   *)
(* `then` did: the value it resolved with (a thenable is adopted later),   *)
(* the reason it rejected with, or, if it threw before settling, the       *)
(* thrown error; a throw after settling changes nothing.                   *)
AdoptionOutcome ==
  (last # NoValue /\ last.job.kind = "thenable") =>
    last.after =
      CASE last.thenCall[1] = "resolve" /\ last.thenCall[2] \in Thenables ->
             [state |-> "pending", value |-> NoValue]
        [] last.thenCall[1] = "resolve" -> [state |-> "fulfilled", value |-> last.thenCall[2]]
        [] last.thenCall[1] = "reject"  -> [state |-> "rejected", value |-> last.thenCall[2]]
        [] last.threw # NoValue         -> [state |-> "rejected", value |-> last.threw]
        [] OTHER                        -> [state |-> "pending", value |-> NoValue]
=============================================================================
