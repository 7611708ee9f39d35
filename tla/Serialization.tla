--------------------------- MODULE Serialization ---------------------------
(***************************************************************************)
(* SerializedStringValue (runtime/serialization/SerializedStringValue.h):  *)
(* serializeValueData writes a string value as its decimal length, a       *)
(* newline and the raw bytes (42-50); deserializeFrom reads the length     *)
(* with operator>> and then that many characters, each with operator>>    *)
(* (52-66).  The Serializer that drives them writes a type tag before each *)
(* value and reads it back before dispatching (spec: "a self-describing    *)
(* stream with a leading type tag per value"); that code is not under src. *)
(*                                                                         *)
(* The stream is a sequence of one-character strings.  A writer fills an   *)
(* ostringstream with some values; a reader then reads them back in order. *)
(***************************************************************************)
EXTENDS Naturals, Sequences, SequencesExt

CONSTANTS
  Chars,      \* the bytes values are made of
  MaxLen,     \* bound on a value's length
  MaxValues   \* bound on the values written

VARIABLES
  phase,     \* "write" or "read"
  out,       \* the stream's contents
  written,   \* the values serialized, in order
  pos,       \* the reader's position in the stream
  read       \* the values deserialized, in order

vars == <<phase, out, written, pos, read>>

Tag == "T"   \* the String type tag

DigitChars == <<"0", "1", "2", "3", "4", "5", "6", "7", "8", "9">>

(* isspace in the "C" locale, as far as the alphabet reaches.              *)
Whitespace == {" ", "\n", "\t"}

Strings == UNION {[1..n -> Chars] : n \in 0..MaxLen}

-----------------------------------------------------------------------------
(* operator<<(size_t): the decimal digits of n.                            *)
RECURSIVE Decimal(_)
Decimal(n) ==
  IF n < 10 THEN <<DigitChars[n + 1]>>
  ELSE Decimal(n \div 10) \o <<DigitChars[(n % 10) + 1]>>

(* The value of a digit character.                                        *)
DigitValue(c) == CHOOSE d \in 0..9 : DigitChars[d + 1] = c

(* The sentry of a formatted extraction: skip whitespace from i on.        *)
RECURSIVE SkipWs(_, _)
SkipWs(st, i) ==
  IF i <= Len(st) /\ st[i] \in Whitespace THEN SkipWs(st, i + 1) ELSE i

(* Digits from i on, accumulated onto acc: [val, next].                   *)
RECURSIVE ReadDigits(_, _, _)
ReadDigits(st, i, acc) ==
  IF i <= Len(st) /\ st[i] \in Range(DigitChars)
  THEN ReadDigits(st, i + 1, acc * 10 + DigitValue(st[i]))
  ELSE [val |-> acc, next |-> i]

(* `inputStream >> s` (55): skip whitespace, read the digits; with no     *)
(* digit the extraction fails and stores 0.                                *)
ReadSize(st, i) == ReadDigits(st, SkipWs(st, i), 0)


(* `inputStream >> ch` (61) with a character left: skip whitespace and     *)
(* take it.                                                                 *)
ReadChar(st, i) ==
  LET j == SkipWs(st, i)
  IN  [ch |-> st[j], next |-> j + 1]

(* The loop at 59-63: s reads of one character, as the set of outcomes.   *)
(* Once only whitespace is left, every extraction fails and leaves ch      *)
(* uninitialised; ch is one stack slot, so the failed reads all push the  *)
(* same unknown byte.                                                      *)
RECURSIVE ReadChars(_, _, _)
ReadChars(st, i, s) ==
  IF s = 0 THEN {[str |-> <<>>, next |-> i]}
  ELSE IF SkipWs(st, i) > Len(st)
  THEN {[str |-> [k \in 1..s |-> c], next |-> SkipWs(st, i)] : c \in Chars}
  ELSE LET r == ReadChar(st, i)
       IN  {[str |-> <<r.ch>> \o rest.str, next |-> rest.next] :
              rest \in ReadChars(st, r.next, s - 1)}


(* serializeValueData (42-50): the length, std::endl, the bytes.          *)
SerializeValueData(v) == Decimal(Len(v)) \o <<"\n">> \o v

(* deserializeFrom (52-66) from position i, the type tag already read.     *)
DeserializeFrom(st, i) ==
  LET s == ReadSize(st, i)
  IN  ReadChars(st, s.next, s.val)

-----------------------------------------------------------------------------
(* The Serializer writes the tag and the value's data.                    *)
Serialize(v) ==
  /\ phase = "write"
  /\ Len(written) < MaxValues
  /\ out' = out \o <<Tag>> \o SerializeValueData(v)
  /\ written' = Append(written, v)
  /\ UNCHANGED <<phase, pos, read>>

(* The stream is handed over to the reader.                                *)
Handover ==
  /\ phase = "write"
  /\ phase' = "read"
  /\ UNCHANGED <<out, written, pos, read>>

(* The Serializer reads a tag with `>>` and dispatches a String to         *)
(* deserializeFrom; it reads as many values as were written.               *)
Deserialize ==
  /\ phase = "read"
  /\ Len(read) < Len(written)
  /\ LET tag == SkipWs(out, pos)
         i   == IF tag <= Len(out) THEN tag + 1 ELSE tag
     IN  \E r \in DeserializeFrom(out, i) :
           /\ read' = Append(read, r.str)
           /\ pos' = r.next
  /\ UNCHANGED <<phase, out, written>>

Init ==
  /\ phase = "write"
  /\ out = <<>>
  /\ written = <<>>
  /\ pos = 1
  /\ read = <<>>

Next ==
  \/ \E v \in Strings : Serialize(v)
  \/ Handover
  \/ Deserialize

Spec == Init /\ [][Next]_vars

-----------------------------------------------------------------------------
TypeOK ==
  /\ phase \in {"write", "read"}
  /\ written \in Seq(Strings)
  /\ read \in Seq(Seq(Chars))
  /\ Len(read) <= Len(written)
  /\ pos \in 1..(Len(out) + 1)

(* Spec "Persisted state layout" and the round trip Serializer promises:   *)
(* every value read back is the value written at the same place, so the   *)
(* reader stays in step with the writer across consecutive values.         *)
RoundTrip ==
  \A k \in 1..Len(read) : read[k] = written[k]
=============================================================================
