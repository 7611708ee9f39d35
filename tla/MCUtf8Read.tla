----------------------------- MODULE MCUtf8Read -----------------------------
EXTENDS Utf8Read

(* "A", U+00E9 and U+20AC, well-formed.                                    *)
MCWellFormed == {<<65>>, <<195, 169>>, <<226, 130, 172>>}

(* "A" and C0 80, the overlong two-byte form of U+0000.                    *)
MCOverlong == {<<65>>, <<192, 128>>}
=============================================================================
