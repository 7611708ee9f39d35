---------------------------- MODULE MCPromiseJobs ----------------------------
(* PromiseJobs instantiated for TLC: three promises so that a then() chain *)
(* p -> q -> r can form, two plain values so that a thrown error can be    *)
(* told apart from a returned value, one thenable.                         *)
EXTENDS PromiseJobs

CONSTANTS p1, p2, p3, v1, v2, t1, h1, r1, c1, c2

MCPromises  == {p1, p2}
MCVals      == {v1}
MCThenables == {t1}
MCHandlers  == {h1}
MCRegistries == {r1}
MCCallbacks == {c1, c2}

Spec == JobInit /\ [][JobNext]_jobVars
=============================================================================
