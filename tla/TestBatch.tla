------------------------------ MODULE TestBatch ------------------------------
(***************************************************************************)
(* What the test-data runner promises, with no threads: after reading its *)
(* cases it either dies at set-up or takes the cases one at a time in any  *)
(* order, each exactly once, printing with each the number of cases taken  *)
(* before it, and once none is left prints "Passed" exactly when every     *)
(* case was skipped or passed.  TestRunner implements it.                  *)
(***************************************************************************)
EXTENDS Integers, FiniteSets

CONSTANT MaxCases

VARIABLES
  stage,    \* "setup", "run", "done" or "crashed"
  n,        \* the number of cases read
  todo,     \* the cases not taken yet
  outcome,  \* case -> "none", "skip", "pass" or "fail"
  printed,  \* case -> the index printed with it, -1 before
  verdict   \* "none", "Passed" or "Failed"

batchVars == <<stage, n, todo, outcome, printed, verdict>>

Cases == 0..(MaxCases - 1)

Init ==
  /\ stage = "setup"
  /\ n \in 0..MaxCases
  /\ todo = {}
  /\ outcome = [c \in Cases |-> "none"]
  /\ printed = [c \in Cases |-> -1]
  /\ verdict = "none"

Start ==
  /\ stage = "setup"
  /\ stage' = "run"
  /\ todo' = 0..(n - 1)
  /\ UNCHANGED <<n, outcome, printed, verdict>>

Abort ==
  /\ stage = "setup"
  /\ stage' = "crashed"
  /\ UNCHANGED <<n, todo, outcome, printed, verdict>>

Take(c, o) ==
  /\ stage = "run"
  /\ c \in todo
  /\ todo' = todo \ {c}
  /\ outcome' = [outcome EXCEPT ![c] = o]
  /\ printed' = [printed EXCEPT ![c] = n - Cardinality(todo)]
  /\ UNCHANGED <<stage, n, verdict>>

Finish ==
  /\ stage = "run"
  /\ todo = {}
  /\ stage' = "done"
  /\ verdict' = IF \A c \in 0..(n - 1) : outcome[c] \in {"skip", "pass"}
                THEN "Passed" ELSE "Failed"
  /\ UNCHANGED <<n, todo, outcome, printed>>

Next ==
  \/ Start \/ Abort \/ Finish
  \/ \E c \in Cases, o \in {"skip", "pass", "fail"} : Take(c, o)

(* The runner does not stop half-way: set-up ends, every case is taken and *)
(* the verdict is printed.                                                  *)
Spec ==
  /\ Init /\ [][Next]_batchVars
  /\ WF_batchVars(Start \/ Abort)
  /\ WF_batchVars(\E c \in Cases, o \in {"skip", "pass", "fail"} : Take(c, o))
  /\ WF_batchVars(Finish)
====
