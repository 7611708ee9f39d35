----------------------------- MODULE TestRunner -----------------------------
(***************************************************************************)
(* The test-data runner (tools/test/test-data-runner/test-data-runner.cpp):*)
(* main reads the thread count and the cases, splits the cases into one    *)
(* contiguous range per thread (216-230), starts the threads (232-304),    *)
(* each of which skips, passes or fails its cases while bumping the shared *)
(* atomics g_index, g_passCount and g_skipCount, then joins them and       *)
(* prints the verdict (306-316).                                           *)
(*                                                                         *)
(* A case is its index; what the shell does with it is a nondeterministic *)
(* outcome.  Cases are numbered from 0 as in g_testDatas, threads from 1.  *)
(***************************************************************************)
EXTENDS Integers, FiniteSets

CONSTANTS
  ThreadChoices,  \* numThread values: hardware_concurrency() (101) or --threads (128)
  MaxCases        \* bound on the number of cases in the data file

VARIABLES
  pc,         \* "setup", "run", "joined" or "crashed"
  numThread,  \* the thread count main ends up with
  caseNum,    \* the number of cases read
  ranges,     \* threadData: thread -> [lo, hi)
  next,       \* thread -> the j its loop is at
  index,      \* g_index
  passCount,  \* g_passCount
  skipCount,  \* g_skipCount
  outcome,    \* case -> "none", "skip", "pass" or "fail"
  runs,       \* case -> how many times a thread took it
  printed,    \* case -> the [%d] index printed with it, -1 before
  verdict     \* "none", "Passed" or "Failed"

vars == <<pc, numThread, caseNum, ranges, next, index, passCount, skipCount,
          outcome, runs, printed, verdict>>

Cases == 0..(MaxCases - 1)

Threads == 1..numThread

MaxThreadNum == CHOOSE m \in ThreadChoices : \A x \in ThreadChoices : x <= m

-----------------------------------------------------------------------------
(* Option parsing and the case reading loops (98-214): some thread count   *)
(* and some number of cases.                                               *)
Init ==
  /\ pc = "setup"
  /\ numThread \in ThreadChoices
  /\ caseNum \in 0..MaxCases
  /\ ranges = <<>>
  /\ next = <<>>
  /\ index = 0 /\ passCount = 0 /\ skipCount = 0
  /\ outcome = [c \in Cases |-> "none"]
  /\ runs = [c \in Cases |-> 0]
  /\ printed = [c \in Cases |-> -1]
  /\ verdict = "none"

(* A split that leaves out the assignment at line 230: the last thread    *)
(* stops at numThread * threadSize.                                        *)
PartitionNoRemainder(n, total) ==
  LET size == total \div n
  IN  [i \in 1..n |-> <<(i - 1) * size, i * size>>]

(* 220-230: threadSize = caseNum / numThread, contiguous ranges of that    *)
(* size, the last one stretched to caseNum.                                *)
Partition(n, total) ==
  LET size == total \div n
  IN  [i \in 1..n |-> <<(i - 1) * size, IF i = n THEN total ELSE i * size>>]

(* 216-230.  With numThread = 0 the division at 220 traps; with a negative *)
(* numThread no range is pushed and threadData.back() at 230 reads before  *)
(* an empty vector's storage.  Either way the process dies.                *)
Setup ==
  /\ pc = "setup"
  /\ IF numThread <= 0
     THEN /\ pc' = "crashed"
          /\ UNCHANGED <<ranges, next>>
     ELSE /\ ranges' = Partition(numThread, caseNum)
          /\ next' = [i \in Threads |-> ranges'[i][1]]
          /\ pc' = "run"
  /\ UNCHANGED <<numThread, caseNum, index, passCount, skipCount, outcome,
                 runs, printed, verdict>>

(* A loop whose skip branch forgets g_skipCount++ (261).                  *)
RunCaseSkipUncounted(t, o) ==
  LET j == next[t]
  IN  /\ pc = "run"
      /\ j < ranges[t][2]
      /\ outcome' = [outcome EXCEPT ![j] = o]
      /\ runs' = [runs EXCEPT ![j] = @ + 1]
      /\ printed' = [printed EXCEPT ![j] = index]
      /\ index' = index + 1
      /\ passCount' = IF o = "pass" THEN passCount + 1 ELSE passCount
      /\ skipCount' = skipCount
      /\ next' = [next EXCEPT ![t] = j + 1]
      /\ UNCHANGED <<pc, numThread, caseNum, ranges, verdict>>

(* A loop that leaves the skip branch without moving to the next case, as  *)
(* a while loop whose `continue` jumps over j++ would.                     *)
RunCaseSkipNoAdvance(t, o) ==
  LET j == next[t]
  IN  /\ pc = "run"
      /\ j < ranges[t][2]
      /\ outcome' = [outcome EXCEPT ![j] = o]
      /\ runs' = [runs EXCEPT ![j] = @ + 1]
      /\ printed' = [printed EXCEPT ![j] = index]
      /\ index' = index + 1
      /\ passCount' = IF o = "pass" THEN passCount + 1 ELSE passCount
      /\ skipCount' = IF o = "skip" THEN skipCount + 1 ELSE skipCount
      /\ next' = [next EXCEPT ![t] = IF o = "skip" THEN j ELSE j + 1]
      /\ UNCHANGED <<pc, numThread, caseNum, ranges, verdict>>

(* A loop that prints ++g_index, numbering the cases from 1.               *)
RunCasePreIncrement(t, o) ==
  LET j == next[t]
  IN  /\ pc = "run"
      /\ j < ranges[t][2]
      /\ outcome' = [outcome EXCEPT ![j] = o]
      /\ runs' = [runs EXCEPT ![j] = @ + 1]
      /\ printed' = [printed EXCEPT ![j] = index + 1]
      /\ index' = index + 1
      /\ passCount' = IF o = "pass" THEN passCount + 1 ELSE passCount
      /\ skipCount' = IF o = "skip" THEN skipCount + 1 ELSE skipCount
      /\ next' = [next EXCEPT ![t] = j + 1]
      /\ UNCHANGED <<pc, numThread, caseNum, ranges, verdict>>

(* One iteration of thread t's loop (234-302) on case j = next[t]: a       *)
(* skip-pattern match counts a skip (252-264); otherwise the shell runs    *)
(* and the case passes or fails (266-301).  Every branch prints g_index++. *)
RunCase(t, o) ==
  LET j == next[t]
  IN  /\ pc = "run"
      /\ j < ranges[t][2]
      /\ outcome' = [outcome EXCEPT ![j] = o]
      /\ runs' = [runs EXCEPT ![j] = @ + 1]
      /\ printed' = [printed EXCEPT ![j] = index]
      /\ index' = index + 1
      /\ passCount' = IF o = "pass" THEN passCount + 1 ELSE passCount
      /\ skipCount' = IF o = "skip" THEN skipCount + 1 ELSE skipCount
      /\ next' = [next EXCEPT ![t] = j + 1]
      /\ UNCHANGED <<pc, numThread, caseNum, ranges, verdict>>

(* 306-316: every thread's loop has ended; compare the counters.          *)
Join ==
  /\ pc = "run"
  /\ \A t \in Threads : next[t] >= ranges[t][2]
  /\ pc' = "joined"
  /\ verdict' = IF passCount + skipCount = caseNum THEN "Passed" ELSE "Failed"
  /\ UNCHANGED <<numThread, caseNum, ranges, next, index, passCount, skipCount,
                 outcome, runs, printed>>

Next ==
  \/ Setup
  \/ \E t \in Threads, o \in {"skip", "pass", "fail"} : RunCase(t, o)
  \/ Join

(* The OS runs every started std::thread and main waits in join().        *)
Spec == Init /\ [][Next]_vars /\ WF_vars(Setup) /\ WF_vars(Join)
        /\ \A t \in 1..MaxThreadNum : WF_vars(\E o \in {"skip", "pass", "fail"} :
                                           t \in Threads /\ RunCase(t, o))

-----------------------------------------------------------------------------
TypeOK ==
  /\ pc \in {"setup", "run", "joined", "crashed"}
  /\ index \in 0..MaxCases
  /\ passCount \in 0..MaxCases /\ skipCount \in 0..MaxCases
  /\ outcome \in [Cases -> {"none", "skip", "pass", "fail"}]
  /\ runs \in [Cases -> 0..1]
  /\ printed \in [Cases -> -1..(MaxCases - 1)]
  /\ verdict \in {"none", "Passed", "Failed"}

(* The split at 220-230 hands every case read to exactly one thread, and   *)
(* each is run once: after the join no case is missed or run twice, and    *)
(* the [%d] indices printed are exactly 0..caseNum-1.                      *)
EveryCaseRunOnce ==
  pc = "joined" =>
    /\ \A c \in Cases : runs[c] = IF c < caseNum THEN 1 ELSE 0
    /\ {printed[c] : c \in 0..(caseNum - 1)} = 0..(caseNum - 1)

(* The verdict printed at 311-315 is "Passed" exactly when every case      *)
(* read was skipped or passed, whatever threads ran them in what order.    *)
VerdictSound ==
  pc = "joined" =>
    (verdict = "Passed" <=> \A c \in 0..(caseNum - 1) : outcome[c] \in {"skip", "pass"})

-----------------------------------------------------------------------------
(* The threads seen as one batch: the cases not taken yet are those no     *)
(* thread has run, once set-up has split them; the join is the batch's    *)
(* end.                                                                     *)
Batch == INSTANCE TestBatch WITH
  stage <- IF pc = "joined" THEN "done" ELSE pc,
  n     <- caseNum,
  todo  <- IF pc \in {"setup", "crashed"} THEN {}
           ELSE {c \in 0..(caseNum - 1) : runs[c] = 0}

(* The runner implements TestBatch under the fairness of its threads:     *)
(* the contiguous ranges of 220-230 cover the cases, the threads' loops    *)
(* take each once, g_index numbers them in the order they are taken        *)
(* whatever the interleaving, and main reaches the verdict.                *)
ImplementsTestBatch == Batch!Spec
=============================================================================
