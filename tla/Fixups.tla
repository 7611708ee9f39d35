------------------------------- MODULE Fixups -------------------------------
(***************************************************************************)
(* The jump fixup table of ByteCodeGenerateContext: break and continue    *)
(* statements emit a Jump with the placeholder target SIZE_MAX and record  *)
(* its position (BreakStatementNode.h, ContinueStatementNode.h); the       *)
(* statement that owns the target later patches every recorded jump with   *)
(* consumeBreakPositions, consumeContinuePositions and their labeled       *)
(* variants (ByteCodeGenerator.cpp:24-72), and morphJumpPositionIntoComplex*)
(* Case (76-86) rewrites a jump registered as crossing a try scope into a  *)
(* JumpComplexCase carrying a ControlFlowRecord.                           *)
(*                                                                         *)
(* The statements that drive the table (loops, labeled statements, try)   *)
(* are not in the source tree; their boundaries are modelled from the     *)
(* specification (section 2, Fixup Table, and section 4): a loop emits its *)
(* test, saves and empties the unlabeled lists, and on exit emits the back *)
(* jump, consumes its continues and breaks and restores the saved lists;  *)
(* a try registers every position still pending inside it as a complex    *)
(* case with the current try depth.                                        *)
(*                                                                         *)
(* A position is an offset into the code, counted in instructions from 0. *)
(***************************************************************************)
EXTENDS Naturals, Sequences, SequencesExt

CONSTANTS
  Labels,     \* statement labels
  NoLabel,    \* an unlabeled loop or break/continue
  SizeMax,    \* SIZE_MAX, the placeholder jump target
  NoRecord,   \* the ControlFlowRecord field of a plain instruction
  MaxCode,    \* bound on emitted instructions
  MaxDepth    \* bound on nested loop and try scopes

VARIABLES
  fcode,       \* the emitted instructions [op, target, rec]
  breaks,      \* m_breakStatementPositions
  continues,   \* m_continueStatementPositions
  lbreaks,     \* m_labeledBreakStatmentPositions: <<label, position>>
  lcontinues,  \* m_labeledContinueStatmentPositions
  complex,     \* m_complexCaseStatementPositions: position -> try count
  scopes,      \* the loop and try statements being emitted, outermost first
  intent,      \* ghost: position of a break/continue -> what it jumps to
  resolved     \* ghost: start of a finished loop -> its end position

fxvars == <<fcode, breaks, continues, lbreaks, lcontinues, complex, scopes, intent, resolved>>

Instr(op, t) == [op |-> op, target |-> t, rec |-> NoRecord]

(* m_tryCatchWithBlockStatementCount: the try scopes open around the code *)
(* being emitted.                                                           *)
Tries == Cardinality({i \in DOMAIN scopes : scopes[i].kind = "try"})

OpenLoops == Cardinality({i \in DOMAIN scopes : scopes[i].kind = "loop"})

(* Room left in the code once every open loop has emitted its back jump.  *)
Room == MaxCode - Len(fcode) - OpenLoops

(* The loop a break or continue with label l jumps to: the innermost loop *)
(* for an unlabeled one, the loop carrying the label otherwise.            *)
TargetLoops(l) ==
  {i \in DOMAIN scopes : /\ scopes[i].kind = "loop"
                         /\ l \in {NoLabel, scopes[i].label}
                         /\ \A j \in (i + 1)..Len(scopes) :
                              l = NoLabel => scopes[j].kind # "loop"}

-----------------------------------------------------------------------------
(* The state the consume functions work on: the code, the complex-case    *)
(* map and, for the labeled variants, the labeled list they scan.          *)

(* morphJumpPositionIntoComplexCase with the map entry left in place.     *)
MorphKeepingEntry(s, codePos, outerLimitCount) ==
  IF codePos \in DOMAIN s.complex
  THEN [s EXCEPT !.code[codePos + 1] =
                   [op |-> "JumpComplexCase", target |-> @.target,
                    rec |-> [target |-> @.target, count |-> s.complex[codePos],
                             outer |-> outerLimitCount]]]
  ELSE s

(* morphJumpPositionIntoComplexCase (76-86): a registered position gets a *)
(* ControlFlowRecord(NeedsJump, the jump's target, the registered count,  *)
(* outerLimitCount), its Jump becomes a JumpComplexCase and the entry is  *)
(* erased.                                                                 *)
MorphJumpPositionIntoComplexCase(s, codePos, outerLimitCount) ==
  IF codePos \in DOMAIN s.complex
  THEN [s EXCEPT !.code[codePos + 1] =
                   [op |-> "JumpComplexCase", target |-> @.target,
                    rec |-> [target |-> @.target, count |-> s.complex[codePos],
                             outer |-> outerLimitCount]],
                 !.complex = [p \in DOMAIN s.complex \ {codePos} |-> s.complex[p]]]
  ELSE s

SetJumpPosition(s, codePos, position) == [s EXCEPT !.code[codePos + 1].target = position]

(* consumeBreakPositions with the morph done before the target is set.    *)
ConsumeBreakPositionsMorphFirst(s, list, position, outerLimitCount) ==
  FoldLeft(LAMBDA acc, p : SetJumpPosition(MorphJumpPositionIntoComplexCase(acc, p, outerLimitCount), p, position),
           s, list)

(* consumeBreakPositions (37-47): set every recorded jump's target, then  *)
(* morph it; the caller's list is cleared.                                 *)
ConsumeBreakPositions(s, list, position, outerLimitCount) ==
  FoldLeft(LAMBDA acc, p : MorphJumpPositionIntoComplexCase(SetJumpPosition(acc, p, position), p, outerLimitCount),
           s, list)

(* consumeContinuePositions (62-72), the same loop over the continues.    *)
ConsumeContinuePositions(s, list, position, outerLimitCount) ==
  FoldLeft(LAMBDA acc, p : MorphJumpPositionIntoComplexCase(SetJumpPosition(acc, p, position), p, outerLimitCount),
           s, list)

Erase(seq, i) == SubSeq(seq, 1, i - 1) \o SubSeq(seq, i + 1, Len(seq))

(* consumeLabeledBreakPositions without `i = -1`: after an erase the scan *)
(* goes on at i + 1 and steps over the entry that moved into slot i.       *)
RECURSIVE ConsumeLabeledBreakPositionsNoRestart(_, _, _, _, _)
ConsumeLabeledBreakPositionsNoRestart(s, i, position, lbl, outerLimitCount) ==
  IF i > Len(s.list) THEN s
  ELSE IF s.list[i][1] = lbl
       THEN ConsumeLabeledBreakPositionsNoRestart(
              [MorphJumpPositionIntoComplexCase(SetJumpPosition(s, s.list[i][2], position),
                                                s.list[i][2], outerLimitCount)
                 EXCEPT !.list = Erase(@, i)],
              i + 1, position, lbl, outerLimitCount)
       ELSE ConsumeLabeledBreakPositionsNoRestart(s, i + 1, position, lbl, outerLimitCount)

(* consumeLabeledBreakPositions (49-60): an entry with the label is       *)
(* patched, morphed and erased, and `i = -1` (a size_t, wrapping to 0 at   *)
(* the loop's i++) restarts the scan from the first entry.                 *)
RECURSIVE ConsumeLabeledBreakPositions(_, _, _, _, _)
ConsumeLabeledBreakPositions(s, i, position, lbl, outerLimitCount) ==
  IF i > Len(s.list) THEN s
  ELSE IF s.list[i][1] = lbl
       THEN ConsumeLabeledBreakPositions(
              [MorphJumpPositionIntoComplexCase(SetJumpPosition(s, s.list[i][2], position),
                                                s.list[i][2], outerLimitCount)
                 EXCEPT !.list = Erase(@, i)],
              1, position, lbl, outerLimitCount)
       ELSE ConsumeLabeledBreakPositions(s, i + 1, position, lbl, outerLimitCount)

(* consumeLabeledContinuePositions (24-35), the same scan of the labeled  *)
(* continues.                                                               *)
RECURSIVE ConsumeLabeledContinuePositions(_, _, _, _, _)
ConsumeLabeledContinuePositions(s, i, position, lbl, outerLimitCount) ==
  IF i > Len(s.list) THEN s
  ELSE IF s.list[i][1] = lbl
       THEN ConsumeLabeledContinuePositions(
              [MorphJumpPositionIntoComplexCase(SetJumpPosition(s, s.list[i][2], position),
                                                s.list[i][2], outerLimitCount)
                 EXCEPT !.list = Erase(@, i)],
              1, position, lbl, outerLimitCount)
       ELSE ConsumeLabeledContinuePositions(s, i + 1, position, lbl, outerLimitCount)
-----------------------------------------------------------------------------
(* A fresh ByteCodeGenerateContext: no pending positions, no open scope.  *)
EmitContextInit ==
  /\ breaks = <<>> /\ continues = <<>>
  /\ lbreaks = <<>> /\ lcontinues = <<>>
  /\ complex = <<>>
  /\ scopes = <<>>
  /\ intent = <<>>
  /\ resolved = <<>>

EmitInit == fcode = <<>> /\ EmitContextInit

(* A loop statement (spec 4): emit the test, a JumpIfFalse whose target   *)
(* the loop sets on exit, and start a fresh context for the unlabeled      *)
(* lists.  A label may not be reused by a nested statement.               *)
EnterLoop(l) ==
  /\ Room >= 2
  /\ Len(scopes) < MaxDepth
  /\ \A i \in DOMAIN scopes : l # NoLabel => scopes[i].label # l
  /\ fcode' = Append(fcode, Instr("JumpIfFalse", SizeMax))
  /\ scopes' = Append(scopes, [kind |-> "loop", label |-> l, start |-> Len(fcode),
                               depth |-> Tries, saved |-> <<breaks, continues>>])
  /\ breaks' = <<>> /\ continues' = <<>>
  /\ UNCHANGED <<lbreaks, lcontinues, complex, intent, resolved>>

(* A try statement (spec 4): emit the try operation and count the scope.  *)
EnterTry ==
  /\ Room >= 1
  /\ Len(scopes) < MaxDepth
  /\ fcode' = Append(fcode, Instr("Try", 0))
  /\ scopes' = Append(scopes, [kind |-> "try", label |-> NoLabel, start |-> Len(fcode),
                               depth |-> Tries + 1, saved |-> <<>>])
  /\ UNCHANGED <<breaks, continues, lbreaks, lcontinues, complex, intent, resolved>>

(* Record the jump at pos for a break/continue aimed at loop scope i.      *)
Aim(pos, kind, i) ==
  intent' = intent @@ (pos :> [kind |-> kind, loop |-> scopes[i].start,
                               depth |-> Tries, outer |-> scopes[i].depth])

(* BreakStatementNode::generateStatementByteCode (35-43): push a Jump to  *)
(* SIZE_MAX and record lastCodePosition; a labeled break records the label *)
(* with it (spec 4).                                                        *)
BreakStatement(l) ==
  /\ Room >= 1
  /\ \E i \in TargetLoops(l) : Aim(Len(fcode), "break", i)
  /\ fcode' = Append(fcode, Instr("Jump", SizeMax))
  /\ IF l = NoLabel THEN /\ breaks' = Append(breaks, Len(fcode)) /\ UNCHANGED lbreaks
                    ELSE /\ lbreaks' = Append(lbreaks, <<l, Len(fcode)>>) /\ UNCHANGED breaks
  /\ UNCHANGED <<continues, lcontinues, complex, scopes, resolved>>

(* ContinueStatementNode::generateStatementByteCode (35-43).               *)
ContinueStatement(l) ==
  /\ Room >= 1
  /\ \E i \in TargetLoops(l) : Aim(Len(fcode), "continue", i)
  /\ fcode' = Append(fcode, Instr("Jump", SizeMax))
  /\ IF l = NoLabel THEN /\ continues' = Append(continues, Len(fcode)) /\ UNCHANGED lcontinues
                    ELSE /\ lcontinues' = Append(lcontinues, <<l, Len(fcode)>>) /\ UNCHANGED continues
  /\ UNCHANGED <<breaks, lbreaks, complex, scopes, resolved>>

(* The end of a loop (spec 4): the back jump to the test, the continues   *)
(* consumed at the test, the test's exit patched to the end, the breaks    *)
(* consumed at the end, each with the loop's try depth as outerLimitCount, *)
(* and the enclosing context's unlabeled lists restored.                   *)
ExitLoop ==
  /\ scopes # <<>>
  /\ Last(scopes).kind = "loop"
  /\ LET sc  == Last(scopes)
         end == Len(fcode) + 1
         s0  == [code |-> Append(fcode, Instr("Jump", sc.start)), complex |-> complex, list |-> lcontinues]
         s1  == ConsumeContinuePositions(s0, continues, sc.start, sc.depth)
         s2  == IF sc.label = NoLabel THEN s1
                ELSE ConsumeLabeledContinuePositions(s1, 1, sc.start, sc.label, sc.depth)
         s3  == [s2 EXCEPT !.code[sc.start + 1].target = end, !.list = lbreaks]
         s4  == ConsumeBreakPositions(s3, breaks, end, sc.depth)
         s5  == IF sc.label = NoLabel THEN s4
                ELSE ConsumeLabeledBreakPositions(s4, 1, end, sc.label, sc.depth)
     IN  /\ fcode' = s5.code
         /\ complex' = s5.complex
         /\ lcontinues' = s2.list
         /\ lbreaks' = s5.list
         /\ breaks' = sc.saved[1]
         /\ continues' = sc.saved[2]
         /\ scopes' = Front(scopes)
         /\ resolved' = resolved @@ (sc.start :> end)
  /\ UNCHANGED intent

(* The end of a try statement (spec 2 and 4): every position recorded     *)
(* since the try began and not yet consumed becomes a complex case with    *)
(* the current try count; a position already registered keeps its count.   *)
ExitTry ==
  /\ scopes # <<>>
  /\ Last(scopes).kind = "try"
  /\ LET front   == Last(scopes).start
         pending == {p \in Range(breaks) \cup Range(continues)
                           \cup {e[2] : e \in Range(lbreaks) \cup Range(lcontinues)} : p > front}
     IN  complex' = complex @@ [p \in pending \ DOMAIN complex |-> Tries]
  /\ scopes' = Front(scopes)
  /\ UNCHANGED <<fcode, breaks, continues, lbreaks, lcontinues, intent, resolved>>

EmitNext ==
  \/ \E l \in Labels \cup {NoLabel} : EnterLoop(l) \/ BreakStatement(l) \/ ContinueStatement(l)
  \/ EnterTry
  \/ ExitLoop
  \/ ExitTry

-----------------------------------------------------------------------------
Records == [target : Nat \cup {SizeMax}, count : Nat, outer : Nat]

FixupsTypeOK ==
  /\ \A i \in DOMAIN fcode :
       /\ fcode[i].op \in {"JumpIfFalse", "Jump", "JumpComplexCase", "Try",
                          "DeclareFunctionDeclarations", "LoadLiteral"}
       /\ fcode[i].rec \in Records \cup {NoRecord}
  /\ \A p \in Range(breaks) \cup Range(continues) : fcode[p + 1].op = "Jump"
  /\ DOMAIN complex \subseteq {p \in 0..(Len(fcode) - 1) : fcode[p + 1].op = "Jump"}

(* Spec 2: once its loop has ended, every break and continue is a Jump to *)
(* the loop's end or test, or, when a try lies between the statement and   *)
(* its loop, a JumpComplexCase whose ControlFlowRecord holds that target,  *)
(* the try count at the statement and the loop's own count.  Breaks out of *)
(* nested loops, labeled lists consumed by several loops and the morph     *)
(* reading the target the consume loop just wrote all meet here.           *)
JumpsPatchedToTarget ==
  \A p \in DOMAIN intent :
    LET it  == intent[p]
        ins == fcode[p + 1]
        t   == IF it.kind = "break" THEN resolved[it.loop] ELSE it.loop
    IN  it.loop \in DOMAIN resolved =>
          IF it.depth > it.outer
          THEN ins.op = "JumpComplexCase" /\ ins.rec = [target |-> t, count |-> it.depth, outer |-> it.outer]
          ELSE ins.op = "Jump" /\ ins.target = t

(* Spec 2, "consume* runs exactly once per boundary": when every statement *)
(* has ended no position is left in any of the four lists and every       *)
(* complex case has been morphed and erased from the map.                   *)
FixupsConsumed ==
  scopes = <<>> =>
    /\ breaks = <<>> /\ continues = <<>>
    /\ lbreaks = <<>> /\ lcontinues = <<>>
    /\ DOMAIN complex = {}
====
