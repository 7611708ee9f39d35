------------------------------ MODULE Utf8Read ------------------------------
(***************************************************************************)
(* The Android shell's source-file reader (escargot.cpp):                  *)
(*   readUTF8Sequence      (100-150)  -> ReadUTF8Sequence                  *)
(*   builtinHelperFileRead (152-214)  -> ReadLatin1Chunk, ReadUtf8Chunk,   *)
(*                                       EndOfFile                         *)
(* The file is read in chunks of sizeof buf bytes.  While every character  *)
(* decoded so far is at most 255 the bytes are collected as Latin-1; the   *)
(* first larger (or invalid) one rewinds the file and the whole of it is   *)
(* read again as UTF-8 for StringRef::createFromUTF8.                      *)
(*                                                                         *)
(* buf is char buf[512], scaled to Chunk bytes, uninitialised at entry and *)
(* keeping its old bytes past readLen.  readUTF8Sequence may read up to    *)
(* three bytes past the end of buf: those are the stack bytes above it,   *)
(* modelled as three more entries of buf that no fread writes.             *)
(***************************************************************************)
EXTENDS Naturals, Sequences, SequencesExt, Bitwise

CONSTANTS
  Chunk,       \* sizeof buf
  FileChars,   \* the byte sequences files are made of
  MaxFileLen,  \* bound on the file's length in bytes
  Garbage      \* byte values uninitialised memory may hold

VARIABLES
  file,     \* the file's bytes
  pos,      \* the FILE's read position (bytes consumed)
  buf,      \* 1..Chunk + 3 -> byte: buf and the bytes above it
  nonLatin1,\* hasNonLatin1Content
  str,      \* the Latin-1 characters collected
  utf8,     \* utf8Str
  result    \* the StringRef made at 182-202, kind "none" while reading

vars == <<file, pos, buf, nonLatin1, str, utf8, result>>

Files ==
  {f \in {FoldLeft(LAMBDA acc, p : acc \o p, <<>>, parts) :
            parts \in UNION {[1..k -> FileChars] : k \in 0..MaxFileLen}} :
     Len(f) <= MaxFileLen}

Min2(a, b) == IF a < b THEN a ELSE b

-----------------------------------------------------------------------------
(* offsetsFromUTF8 (98), indexed from 1 by length; the entries for five    *)
(* and six bytes are never used, as no length above 4 is produced.  Each  *)
(* offset is the least sum its pattern admits, so ch never wraps.          *)
OffsetsFromUTF8 == <<0, 12416, 925824, 63447168>>

(* (char32_t)-1, the result of an invalid sequence: 4294967295.  Only its *)
(* comparison with 255 is used; TLC's integers stop below 2^31.           *)
InvalidChar == 2 ^ 30

IsContinuation(x) == (x & 192) = 128

(* readUTF8Sequence on b from index i: the sequence length the lead byte  *)
(* and the bytes after it admit (105-132), an invalid one giving -1 as    *)
(* char32_t (126-128), then the sum of the bytes with 6-bit shifts minus  *)
(* the length's offset (134-149).                                           *)
ReadUTF8Sequence(b, i) ==
  LET sch == b[i]
      len == CASE (sch & 128) = 0 -> 1
               [] (sch & 224) = 192 /\ IsContinuation(b[i + 1]) -> 2
               [] (sch & 240) = 224 /\ IsContinuation(b[i + 1])
                                    /\ IsContinuation(b[i + 2]) -> 3
               [] (sch & 248) = 240 /\ IsContinuation(b[i + 1])
                                    /\ IsContinuation(b[i + 2])
                                    /\ IsContinuation(b[i + 3]) -> 4
               [] OTHER -> 0
      sum == FoldLeft(LAMBDA acc, k : acc * 64 + b[i + k], 0, [k \in 1..len |-> k - 1])
  IN  IF len = 0 THEN [ch |-> InvalidChar, next |-> i + 1]
      ELSE [ch |-> sum - OffsetsFromUTF8[len], next |-> i + len]

(* The inner loop (167-176) over b[i..n]: append each character up to 255  *)
(* to s; stop at the first larger one and report it.                       *)
RECURSIVE Scan(_, _, _, _)
Scan(b, i, n, s) ==
  IF i > n THEN [str |-> s, non |-> FALSE]
  ELSE LET r == ReadUTF8Sequence(b, i)
       IN  IF r.ch > 255 THEN [str |-> s, non |-> TRUE]
           ELSE Scan(b, r.next, n, Append(s, r.ch))

(* fread into buf: the first n bytes come from the file, the rest keep    *)
(* their old contents.                                                      *)
Fread(n) == [k \in DOMAIN buf |-> IF k <= n THEN file[pos + k] ELSE buf[k]]

ReadLen == Min2(Chunk, Len(file) - pos)

-----------------------------------------------------------------------------
(* The Latin-1 branch forgetting the fseek at 171.                         *)
ReadLatin1ChunkNoRewind ==
  /\ result.kind = "none"
  /\ ReadLen > 0
  /\ ~nonLatin1
  /\ LET b == Fread(ReadLen)
         r == Scan(b, 1, ReadLen, str)
     IN  /\ buf' = b
         /\ str' = r.str
         /\ nonLatin1' = r.non
         /\ pos' = pos + ReadLen
  /\ UNCHANGED <<file, utf8, result>>

(* One turn of the loop at 162-180 before any non-Latin-1 content: decode *)
(* the chunk; on a character above 255 set the flag and rewind (169-172). *)
ReadLatin1Chunk ==
  /\ result.kind = "none"
  /\ ReadLen > 0
  /\ ~nonLatin1
  /\ LET b == Fread(ReadLen)
         r == Scan(b, 1, ReadLen, str)
     IN  /\ buf' = b
         /\ str' = r.str
         /\ nonLatin1' = r.non
         /\ pos' = IF r.non THEN 0 ELSE pos + ReadLen
  /\ UNCHANGED <<file, utf8, result>>

(* The UTF-8 branch appending the whole buffer instead of readLen bytes.  *)
ReadUtf8ChunkWholeBuffer ==
  /\ result.kind = "none"
  /\ ReadLen > 0
  /\ nonLatin1
  /\ LET b == Fread(ReadLen)
     IN  /\ buf' = b
         /\ utf8' = utf8 \o [k \in 1..Chunk |-> b[k]]
  /\ pos' = pos + ReadLen
  /\ UNCHANGED <<file, nonLatin1, str, result>>

(* A turn of the loop after the rewind: append the chunk (177-179).        *)
ReadUtf8Chunk ==
  /\ result.kind = "none"
  /\ ReadLen > 0
  /\ nonLatin1
  /\ LET b == Fread(ReadLen)
     IN  /\ buf' = b
         /\ utf8' = utf8 \o SubSeq(b, 1, ReadLen)
  /\ pos' = pos + ReadLen
  /\ UNCHANGED <<file, nonLatin1, str, result>>

(* fread returns 0: close the file and make the string (181-203), from the *)
(* UTF-8 bytes if the flag is set, else from the Latin-1 characters.       *)
EndOfFile ==
  /\ result.kind = "none"
  /\ ReadLen = 0
  /\ result' = IF nonLatin1 THEN [kind |-> "utf8", data |-> utf8]
                            ELSE [kind |-> "latin1", data |-> str]
  /\ UNCHANGED <<file, pos, buf, nonLatin1, str, utf8>>

(* fopen succeeded on some file; buf holds whatever the stack held.        *)
Init ==
  /\ file \in Files
  /\ pos = 0
  /\ buf \in [1..(Chunk + 3) -> Garbage]
  /\ nonLatin1 = FALSE
  /\ str = <<>>
  /\ utf8 = <<>>
  /\ result = [kind |-> "none", data |-> <<>>]

Next ==
  \/ ReadLatin1Chunk
  \/ ReadUtf8Chunk
  \/ EndOfFile

Spec == Init /\ [][Next]_vars

-----------------------------------------------------------------------------
(* The reference: a strict UTF-8 decoder (RFC 3629): no overlong forms,    *)
(* no surrogates, nothing above U+10FFFF, no truncated sequence.           *)
RECURSIVE RefDecode(_)
RefDecode(bs) ==
  IF bs = <<>> THEN [ok |-> TRUE, cps |-> <<>>]
  ELSE
    LET b == bs[1]
        n == CASE b < 128 -> 1 [] b \in 194..223 -> 2
               [] b \in 224..239 -> 3 [] b \in 240..244 -> 4 [] OTHER -> 0
        lead == CASE n = 1 -> b [] n = 2 -> b - 192 [] n = 3 -> b - 224 [] OTHER -> b - 240
        wellFormed == n > 0 /\ Len(bs) >= n /\ \A k \in 2..n : bs[k] \in 128..191
        cp == FoldLeft(LAMBDA acc, k : acc * 64 + bs[k] - 128, lead, [k \in 2..n |-> k])
        least == <<0, 128, 2048, 65536>>
        rest == RefDecode(SubSeq(bs, n + 1, Len(bs)))
    IN  IF wellFormed /\ cp >= least[n] /\ cp <= 1114111 /\ cp \notin 55296..57343
           /\ rest.ok
        THEN [ok |-> TRUE, cps |-> <<cp>> \o rest.cps]
        ELSE [ok |-> FALSE, cps |-> <<>>]

TypeOK ==
  /\ pos \in 0..Len(file)
  /\ buf \in [1..(Chunk + 3) -> 0..255]
  /\ nonLatin1 \in BOOLEAN
  /\ str \in Seq(0..255)
  /\ utf8 \in Seq(0..255) /\ Len(utf8) <= Len(file)
  /\ result.kind \in {"none", "utf8", "latin1"}

(* The string builtinHelperFileRead makes is the file's text: the Latin-1 *)
(* branch is taken only for a well-formed UTF-8 file whose characters are *)
(* all at most U+00FF, and holds exactly those characters; otherwise the  *)
(* whole file, once, from its first byte, goes to createFromUTF8.  This   *)
(* holds whatever the chunk boundaries cut and whatever the stack holds.   *)
ResultMatchesReference ==
  result.kind # "none" =>
    LET ref == RefDecode(file)
    IN  IF result.kind = "latin1"
        THEN ref.ok /\ result.data = ref.cps
        ELSE result.data = file
=============================================================================
