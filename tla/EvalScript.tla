----------------------------- MODULE EvalScript -----------------------------
(***************************************************************************)
(* The Android shell's top-level evaluation and its job drain loop:        *)
(* evalScript (escargot.cpp:357-430) and the JNI entry points              *)
(* VMInstance.hasPendingJob / executePendingJob (escargot.cpp:621-638).    *)
(*                                                                         *)
(* What a job does inside is the business of PromiseJobs; here a job is    *)
(* only counted: the VM's local job queue holds `local` jobs and the       *)
(* cross-thread queue `cross` jobs.  A running job (local or cross) may     *)
(* enqueue a further local job, as a reaction that resolves a promise      *)
(* with handlers does.  Other threads post cross-thread jobs at any time.  *)
(***************************************************************************)
EXTENDS Naturals

CONSTANTS
  MaxEvals,   \* bound on evalScript calls made by the Java host
  MaxPosts,   \* bound on jobs posted from other threads
  MaxJobs,    \* bound on local jobs created in the whole run
  MaxScript   \* bound on local jobs one script enqueues

ASSUME {MaxEvals, MaxPosts, MaxJobs, MaxScript} \subseteq Nat

VARIABLES
  phase,   \* "idle": no evalScript running; "drain": in the loop at 412-428
  local,   \* jobs in the VM's own queue (hasPendingJob() <=> local > 0)
  cross,   \* jobs posted from other threads, not yet executed
  made,    \* local jobs created so far
  evals,   \* evalScript calls so far
  posts    \* cross-thread posts so far

vars == <<phase, local, cross, made, evals, posts>>

(* A running job enqueues n further local jobs, within the job budget.    *)
Spawned(n) == made + n <= MaxJobs

-----------------------------------------------------------------------------
(* evalScript: parse; on a parse error return at once (363-394).  Else run *)
(* the script, which enqueues k jobs; if it threw, return its error (400-  *)
(* 406) with the queue as it is; if it succeeded, enter the drain loop.    *)
EvalBegin ==
  /\ phase = "idle"
  /\ evals < MaxEvals
  /\ evals' = evals + 1
  /\ \/ UNCHANGED <<phase, local, made>>                 \* parse error
     \/ \E k \in 0..MaxScript, ok \in BOOLEAN :
          /\ Spawned(k)
          /\ local' = local + k
          /\ made' = made + k
          /\ phase' = IF ok THEN "drain" ELSE "idle"
  /\ UNCHANGED <<cross, posts>>

(* The loop at 412-428, entered while either queue has a job.  Each turn  *)
(* calls waitEventFromAnotherThread(10), runs the posted jobs when it      *)
(* reports them (each may enqueue a local job), then runs the head of the  *)
(* local queue if there is one; a job error is logged and the loop goes on.*)
(* The wait is modelled from spec 5: a poster appends under the VM's lock  *)
(* and signals a condition variable; the wait reports a job already        *)
(* queued at once, else blocks until a signal or the 10 ms timeout.        *)

(* The posted jobs run; they enqueue c local jobs.                         *)
RunCrossJobs ==
  \E c \in 0..cross : /\ Spawned(c)
                      /\ local' = local + c
                      /\ made' = made + c
                      /\ cross' = 0

(* A wait that blocks without looking at the queue first.                  *)
WaitBeginNoCheck ==
  /\ phase = "drain"
  /\ local > 0 \/ cross > 0
  /\ phase' = "waiting"
  /\ UNCHANGED <<local, cross, made, evals, posts>>

(* 412-414: the loop condition holds; the wait returns true at once when   *)
(* posted jobs are queued, and they run; otherwise the thread blocks.      *)
WaitBegin ==
  /\ phase = "drain"
  /\ local > 0 \/ cross > 0
  /\ IF cross > 0 THEN RunCrossJobs /\ phase' = "local"
                   ELSE phase' = "waiting" /\ UNCHANGED <<local, cross, made>>
  /\ UNCHANGED <<evals, posts>>

(* 413-414: a poster's signal woke the wait; the posted jobs run.          *)
WaitWoken ==
  /\ phase = "woken"
  /\ RunCrossJobs
  /\ phase' = "local"
  /\ UNCHANGED <<evals, posts>>

(* 413: the 10 ms pass with no signal; the wait returns false.             *)
WaitTimeout ==
  /\ phase = "waiting"
  /\ phase' = "local"
  /\ UNCHANGED <<local, cross, made, evals, posts>>

(* 416-426: if the local queue has a job, executePendingJob runs its head, *)
(* which may enqueue one more; back to the loop condition.                 *)
RunLocalJob ==
  /\ phase = "local"
  /\ \E a \in 0..1 :
       /\ Spawned(a)
       /\ local' = IF local > 0 THEN local - 1 + a ELSE local
       /\ made' = IF local > 0 THEN made + a ELSE made
  /\ phase' = "drain"
  /\ UNCHANGED <<cross, evals, posts>>

(* The loop condition fails: evalScript returns the script's result.      *)
DrainExit ==
  /\ phase = "drain"
  /\ local = 0 /\ cross = 0
  /\ phase' = "idle"
  /\ UNCHANGED <<local, cross, made, evals, posts>>

(* Another thread posts a job (spec 5 (b)): it appends under the lock and  *)
(* signals the condition variable, which wakes a thread blocked in the     *)
(* wait and is lost otherwise; the shell platform's                        *)
(* markJSJobFromAnotherThreadExists ignores the event (escargot.cpp:235-   *)
(* 238), so nothing else runs the job.                                     *)
Post ==
  /\ posts < MaxPosts
  /\ posts' = posts + 1
  /\ cross' = cross + 1
  /\ phase' = IF phase = "waiting" THEN "woken" ELSE phase
  /\ UNCHANGED <<local, made, evals>>

(* Java calls VMInstance.executePendingJob between evaluations (630-638): *)
(* run the head job if there is one.                                      *)
(* A variant that runs a job without asking hasPendingJob() first.        *)
HostExecutePendingJobUnchecked ==
  /\ phase = "idle"
  /\ \E a \in 0..1 : /\ Spawned(a)
                     /\ local' = local - 1 + a
                     /\ made' = made + a
  /\ UNCHANGED <<phase, cross, evals, posts>>

HostExecutePendingJob ==
  /\ phase = "idle"
  /\ local > 0
  /\ \E a \in 0..1 : /\ Spawned(a)
                     /\ local' = local - 1 + a
                     /\ made' = made + a
  /\ UNCHANGED <<phase, cross, evals, posts>>

Init ==
  /\ phase = "idle"
  /\ local = 0
  /\ cross = 0
  /\ made = 0
  /\ evals = 0
  /\ posts = 0

Next ==
  \/ EvalBegin
  \/ WaitBegin
  \/ WaitWoken
  \/ WaitTimeout
  \/ RunLocalJob
  \/ DrainExit
  \/ Post
  \/ HostExecutePendingJob

(* The foreground thread keeps looping while it is in evalScript, and a    *)
(* blocked wait returns by its timeout at the latest; other threads and    *)
(* the Java host act when they choose to.                                  *)
Foreground == WaitBegin \/ WaitWoken \/ WaitTimeout \/ RunLocalJob \/ DrainExit

Spec == Init /\ [][Next]_vars /\ WF_vars(Foreground)

-----------------------------------------------------------------------------
TypeOK ==
  /\ phase \in {"idle", "drain", "waiting", "woken", "local"}
  /\ local \in 0..MaxJobs
  /\ cross \in 0..MaxPosts
  /\ made \in 0..MaxJobs
  /\ evals \in 0..MaxEvals
  /\ posts \in 0..MaxPosts

(* evalScript of a script that ran without error returns: the drain loop  *)
(* at escargot.cpp:412-428 ends, although jobs keep enqueueing jobs, other *)
(* threads keep posting while it runs, and a post may race the wait's     *)
(* timeout or land while no thread waits, so that its signal is lost.      *)
DrainTerminates == phase = "drain" ~> phase = "idle"

=============================================================================
