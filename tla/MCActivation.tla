---------------------------- MODULE MCActivation ----------------------------
EXTENDS Activation

(* Parameter lists over a, b and the function's own name, up to three.    *)
MCAllLists == BoundedSeq({"a", "b", "f"}, 3)

(* The lists without a repeated name.                                      *)
MCDistinctLists == {l \in MCAllLists : Len(Distinct(l)) = Len(l)}
=============================================================================
