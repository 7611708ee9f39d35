---------------------------- MODULE MCCodeCache ----------------------------
(* CodeCache with three functions of equal size.                          *)
EXTENDS CodeCache

CONSTANTS f1, f2, f3

MCCodeSz == [f \in {f1, f2, f3} |-> 2]
MCLocSz  == [f \in {f1, f2, f3} |-> 1]
=============================================================================
