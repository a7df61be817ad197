-------------------------- MODULE BlockShell_proofs --------------------------
(* Proofs about BlockShell for statements of every length: types, and that the
   blocks of a complete statement are run as a reader of it expects, however they
   are nested. The invariants relate the open blocks, which keep what they would
   execute, to the history variable reading, which keeps no block. *)
EXTENDS BlockShell, SequenceTheorems, TLAPS

IfStates == {"IF_BLOCK", "THEN_BLOCK", "ELSE_BLOCK"}
OpenStates == {"THEN_BLOCK", "ELSE_BLOCK"}

\* The open calls of parse_if_block: all but the innermost are in a part.
Nested(fs) ==
  /\ fs # <<>>
  /\ \A i \in 1..Len(fs) : /\ fs[i].state \in IfStates /\ fs[i].cond \in IfLines
                           /\ i < Len(fs) => fs[i].state \in OpenStates

-----------------------------------------------------------------------------
(* What the helpers of the parsers return.                                   *)

LEMMA NumbersConcat == \A x, y, z \in Seq(Nat) : (x \o y) \o z = x \o (y \o z)
<1> SUFFICES ASSUME NEW x \in Seq(Nat), NEW y \in Seq(Nat), NEW z \in Seq(Nat)
             PROVE  (x \o y) \o z = x \o (y \o z)
  OBVIOUS
<1> QED
  BY ConcatAssociative

LEMMA FrontLast ==
  ASSUME NEW S, NEW s \in Seq(S), s # <<>>
  PROVE  /\ Front(s) \in Seq(S) /\ Len(Front(s)) = Len(s) - 1 /\ Len(s) \in Nat \ {0}
         /\ \A i \in 1..(Len(s) - 1) : Front(s)[i] = s[i]
         /\ Last(s) = s[Len(s)] /\ Last(s) \in S
<1>1. /\ Len(s) \in Nat \ {0} /\ \A i \in 1..Len(s) : s[i] \in S
      /\ Front(s) = SubSeq(s, 1, Len(s) - 1) /\ Last(s) = s[Len(s)]
  BY DEF Front, Last
<1>2. ASSUME NEW m \in Nat, m <= Len(s)
      PROVE  /\ SubSeq(s, 1, m) \in Seq(S) /\ Len(SubSeq(s, 1, m)) = m
             /\ \A i \in 1..m : SubSeq(s, 1, m)[i] = s[i]
  BY <1>2
<1>3. Len(s) - 1 \in Nat /\ Len(s) - 1 <= Len(s)
  BY <1>1
<1> DEFINE k == Len(s) - 1
<1>4. /\ SubSeq(s, 1, k) \in Seq(S) /\ Len(SubSeq(s, 1, k)) = k
      /\ \A i \in 1..k : SubSeq(s, 1, k)[i] = s[i]
  <2> HIDE DEF k
  <2>1. k \in Nat /\ k <= Len(s)
    BY <1>3 DEF k
  <2> QED
    BY <1>2, <2>1
<1>5. s[Len(s)] \in S
  BY <1>1
<1> QED
  BY <1>1, <1>4, <1>5

\* A sequence of one element.
LEMMA OneElement ==
  ASSUME NEW S, NEW e \in S
  PROVE  <<e>> \in Seq(S) /\ Len(<<e>>) = 1 /\ <<e>>[1] = e /\ <<e>> # <<>>
OBVIOUS

\* More lines can be named as the script grows.
LEMMA MoreLines ==
  ASSUME NEW n \in Nat
  PROVE  /\ Seq(1..n) \subseteq Seq(1..(n + 1))
         /\ Frames(n) \subseteq Frames(n + 1)
         /\ Seq(Frames(n)) \subseteq Seq(Frames(n + 1))
         /\ Readings(n) \subseteq Readings(n + 1)
<1>1. 1..n \subseteq 1..(n + 1)
  OBVIOUS
<1>2. Seq(1..n) \subseteq Seq(1..(n + 1))
  BY <1>1, SeqMonotonic
<1>3. Frames(n) \subseteq Frames(n + 1)
  BY <1>1, <1>2 DEF Frames
<1>4. Readings(n) \subseteq Readings(n + 1)
  BY <1>2 DEF Readings
<1> QED
  BY <1>2, <1>3, <1>4, SeqMonotonic

LEMMA ExecType ==
  ASSUME NEW n \in Nat, NEW f \in Frames(n)
  PROVE  Exec(f) \in Seq(1..n)
<1>1. /\ f.line \in 1..n /\ f.then \in Seq(1..n) /\ f.else \in Seq(1..n)
      /\ f.cond \in {"if yes", "if no", "while once", "while no"}
  BY DEF Frames, IfLines, WhileLines
<1>2. <<f.line>> \in Seq(1..n)
  BY <1>1, OneElement
<1>3. /\ <<f.line>> \o f.then \in Seq(1..n)
      /\ <<f.line>> \o f.else \in Seq(1..n)
      /\ (<<f.line>> \o f.then) \o <<f.line>> \in Seq(1..n)
  BY <1>1, <1>2, ConcatProperties
<1> QED
  BY <1>1, <1>2, <1>3 DEF Exec

LEMMA PushType ==
  ASSUME NEW n \in Nat, NEW f \in Frames(n), NEW l \in Seq(1..n),
         f.state \in {"THEN_BLOCK", "ELSE_BLOCK", "DO_BLOCK"}
  PROVE  /\ Push(f, l) \in Frames(n)
         /\ Push(f, l).state = f.state /\ Push(f, l).cond = f.cond /\ Push(f, l).line = f.line
         /\ f.state = "ELSE_BLOCK" => Push(f, l).then = f.then /\ Push(f, l).else = f.else \o l
         /\ f.state # "ELSE_BLOCK" => Push(f, l).then = f.then \o l /\ Push(f, l).else = f.else
<1>1. f.then \o l \in Seq(1..n) /\ f.else \o l \in Seq(1..n)
  BY ConcatProperties DEF Frames
<1>2. CASE f.state = "ELSE_BLOCK"
  BY <1>1, <1>2 DEF Push, Frames
<1>3. CASE f.state # "ELSE_BLOCK"
  BY <1>1, <1>3 DEF Push, Frames
<1> QED
  BY <1>2, <1>3

LEMMA PushOnTopType ==
  ASSUME NEW n \in Nat, NEW fs \in Seq(Frames(n)), fs # <<>>, NEW l \in Seq(1..n),
         fs[Len(fs)].state \in {"THEN_BLOCK", "ELSE_BLOCK", "DO_BLOCK"}
  PROVE  /\ PushOnTop(fs, l) \in Seq(Frames(n)) /\ Len(PushOnTop(fs, l)) = Len(fs)
         /\ PushOnTop(fs, l)[Len(fs)] = Push(fs[Len(fs)], l)
         /\ \A i \in 1..(Len(fs) - 1) : PushOnTop(fs, l)[i] = fs[i]
<1>1. Len(fs) \in 1..Len(fs) /\ Len(fs) \in Nat /\ fs[Len(fs)] \in Frames(n)
  BY FrontLast
<1>2. Push(fs[Len(fs)], l) \in Frames(n)
  BY <1>1, PushType
<1>3. PushOnTop(fs, l) = [fs EXCEPT ![Len(fs)] = Push(fs[Len(fs)], l)]
  BY DEF PushOnTop
<1> QED
  BY <1>1, <1>2, <1>3, ExceptSeq

LEMMA FoldType ==
  ASSUME NEW n \in Nat, NEW fs \in Seq(Frames(n)), Nested(fs), Len(fs) # 1
  PROVE  /\ Len(fs) \in Nat /\ Len(fs) > 1
         /\ Fold(fs) \in Seq(Frames(n)) /\ Len(Fold(fs)) = Len(fs) - 1
         /\ Fold(fs)[Len(fs) - 1] = Push(fs[Len(fs) - 1], Exec(fs[Len(fs)]))
         /\ \A i \in 1..(Len(fs) - 2) : Fold(fs)[i] = fs[i]
         /\ Nested(Fold(fs))
         /\ Fold(fs)[Len(fs) - 1].state = fs[Len(fs) - 1].state
<1> DEFINE d == Len(fs)  gs == Front(fs)
<1>1. /\ d \in Nat /\ d > 1 /\ gs \in Seq(Frames(n)) /\ Len(gs) = d - 1
      /\ \A i \in 1..(d - 1) : gs[i] = fs[i]
      /\ Last(fs) = fs[d] /\ fs[d] \in Frames(n)
  <2>1. fs # <<>>
    BY DEF Nested
  <2>2. /\ d \in Nat \ {0} /\ gs \in Seq(Frames(n)) /\ Len(gs) = d - 1
        /\ \A i \in 1..(d - 1) : gs[i] = fs[i]
        /\ Last(fs) = fs[d] /\ Last(fs) \in Frames(n)
    BY <2>1, FrontLast
  <2>3. d > 1
    BY <2>2
  <2> QED
    BY <2>2, <2>3
<1>2. gs # <<>> /\ gs[d - 1] = fs[d - 1] /\ fs[d - 1].state \in OpenStates
  BY <1>1, EmptySeq DEF Nested
<1>3. Exec(fs[d]) \in Seq(1..n)
  BY <1>1, ExecType
<1>4. Fold(fs) = PushOnTop(gs, Exec(fs[d]))
  BY <1>1 DEF Fold
<1> HIDE DEF d, gs
<1>5. /\ Fold(fs) \in Seq(Frames(n)) /\ Len(Fold(fs)) = d - 1
      /\ Fold(fs)[d - 1] = Push(fs[d - 1], Exec(fs[d]))
      /\ \A i \in 1..(d - 2) : Fold(fs)[i] = fs[i]
  <2>1. gs[Len(gs)].state \in {"THEN_BLOCK", "ELSE_BLOCK", "DO_BLOCK"}
    BY <1>1, <1>2 DEF OpenStates
  <2>2. /\ Fold(fs) \in Seq(Frames(n)) /\ Len(Fold(fs)) = Len(gs)
        /\ Fold(fs)[Len(gs)] = Push(gs[Len(gs)], Exec(fs[d]))
        /\ \A i \in 1..(Len(gs) - 1) : Fold(fs)[i] = gs[i]
    <3>1. gs \in Seq(Frames(n)) /\ gs # <<>>
      BY <1>1, <1>2
    <3> QED
      BY <1>3, <1>4, <2>1, <3>1, PushOnTopType
  <2>3. \A i \in 1..(d - 2) : i \in 1..(Len(gs) - 1) /\ i \in 1..(d - 1)
    BY <1>1
  <2> QED
    BY <1>1, <1>2, <2>2, <2>3
<1>6. fs[d - 1] \in Frames(n)
  BY <1>1, ElementOfSeq DEF d
<1>7. /\ Fold(fs)[d - 1].state = fs[d - 1].state
      /\ Fold(fs)[d - 1].cond = fs[d - 1].cond
  BY <1>2, <1>3, <1>5, <1>6, PushType DEF OpenStates
<1>8. Nested(Fold(fs))
  <2>1. Fold(fs) # <<>>
    BY <1>1, <1>5, EmptySeq
  <2>2. ASSUME NEW i \in 1..(d - 1)
        PROVE  /\ Fold(fs)[i].state \in IfStates /\ Fold(fs)[i].cond \in IfLines
               /\ i < d - 1 => Fold(fs)[i].state \in OpenStates
    <3>1. fs[i].state \in IfStates /\ fs[i].cond \in IfLines /\ fs[i].state \in OpenStates
      BY <1>1 DEF Nested, d
    <3>2. CASE i = d - 1
      BY <1>7, <3>1, <3>2
    <3>3. CASE i # d - 1
      <4>1. i \in 1..(d - 2)
        BY <1>1, <3>3
      <4> QED
        BY <1>5, <3>1, <4>1
    <3> QED
      BY <3>2, <3>3
  <2> QED
    BY <1>1, <1>5, <2>1, <2>2 DEF Nested
<1> QED
  BY <1>1, <1>5, <1>7, <1>8 DEF d

-----------------------------------------------------------------------------
(* Types, with the shape of the open blocks.                                 *)

InBlock == {"block", "return", "unwind", "swallow"}

Shape ==
  /\ at \in InBlock =>
       /\ script # <<>>
       /\ IF IsWhile(frames[1]) THEN Len(frames) = 1 /\ at = "block" /\ script[1] \in WhileLines
                                ELSE Nested(frames) /\ script[1] \in IfLines
  /\ at = "swallow" => Len(frames) = 1

BlockInv == BlockTypeOK /\ Shape

\* What the reader makes of a line, case by case.
InPhase(r, p) == [r.blocks EXCEPT ![Len(r.blocks)].phase = p]
Runs(r, i) == IF Live(r.blocks) THEN Append(r.ran, i) ELSE r.ran
Entered(k) == [yes |-> k = "if yes", phase |-> "cond"]
Read(r, k) == \/ Phase(r) = "cond" /\ k = "then"
              \/ Phase(r) = "then" /\ k = "else"
              \/ Phase(r) \in {"then", "else"} /\ k = "fi"
              \/ Phase(r) # "cond" /\ k = "command"
              \/ Phase(r) # "cond" /\ k \in IfLines

WithBlocks(r, b) == [r EXCEPT !.blocks = b]
WithRan(r, s) == [r EXCEPT !.ran = s]
Refused(r) == [r EXCEPT !.ok = FALSE]

LEMMA ReadAsCases ==
  ASSUME NEW r, NEW k, NEW i
  PROVE  /\ Phase(r) = "cond" /\ k = "then" =>
              ReadAs(r, k, i) = WithBlocks(r, InPhase(r, "then"))
         /\ Phase(r) = "then" /\ k = "else" =>
              ReadAs(r, k, i) = WithBlocks(r, InPhase(r, "else"))
         /\ Phase(r) \in {"then", "else"} /\ k = "fi" =>
              ReadAs(r, k, i) = WithBlocks(r, Front(r.blocks))
         /\ Phase(r) # "cond" /\ k = "command" => ReadAs(r, k, i) = WithRan(r, Runs(r, i))
         /\ Phase(r) # "cond" /\ k \in IfLines =>
              ReadAs(r, k, i) = WithBlocks(WithRan(r, Runs(r, i)), Append(r.blocks, Entered(k)))
         /\ ~Read(r, k) => ReadAs(r, k, i) = Refused(r)
<1> DEFINE a == Phase(r) = "cond" /\ k = "then"
           b == Phase(r) = "then" /\ k = "else"
           c == Phase(r) \in {"then", "else"} /\ k = "fi"
           d == Phase(r) # "cond" /\ k = "command"
           e == Phase(r) # "cond" /\ k \in IfLines
<1>1. /\ ReadAs(r, k, i) = CASE a -> WithBlocks(r, InPhase(r, "then"))
                             [] b -> WithBlocks(r, InPhase(r, "else"))
                             [] c -> WithBlocks(r, Front(r.blocks))
                             [] d -> WithRan(r, Runs(r, i))
                             [] e -> WithBlocks(WithRan(r, Runs(r, i)), Append(r.blocks, Entered(k)))
                             [] OTHER -> Refused(r)
  BY DEF ReadAs, InPhase, Runs, Entered, WithBlocks, WithRan, Refused
<1>2. /\ a => ~b /\ ~c /\ ~d /\ ~e
      /\ b => ~c /\ ~d /\ ~e
      /\ c => ~d /\ ~e
      /\ d => ~e
  BY DEF IfLines
<1>3. Read(r, k) = (a \/ b \/ c \/ d \/ e)
  BY DEF Read
<1> HIDE DEF a, b, c, d, e
<1>4. /\ a => ReadAs(r, k, i) = WithBlocks(r, InPhase(r, "then"))
      /\ b => ReadAs(r, k, i) = WithBlocks(r, InPhase(r, "else"))
      /\ c => ReadAs(r, k, i) = WithBlocks(r, Front(r.blocks))
      /\ d => ReadAs(r, k, i) = WithRan(r, Runs(r, i))
      /\ e => ReadAs(r, k, i) = WithBlocks(WithRan(r, Runs(r, i)), Append(r.blocks, Entered(k)))
      /\ ~(a \/ b \/ c \/ d \/ e) => ReadAs(r, k, i) = Refused(r)
  BY <1>1, <1>2
<1> QED
  BY <1>3, <1>4 DEF a, b, c, d, e

LEMMA ReadAsType ==
  ASSUME NEW n \in Nat, NEW r \in Readings(n), NEW k
  PROVE  ReadAs(r, k, n + 1) \in Readings(n + 1)
<1> DEFINE OpenBlock == [yes : BOOLEAN, phase : {"cond", "then", "else"}]
<1>1. r \in Readings(n + 1)
  BY MoreLines
<1>2. /\ r.blocks \in Seq(OpenBlock) /\ r.ran \in Seq(1..(n + 1)) /\ r.ok \in BOOLEAN
      /\ r = [blocks |-> r.blocks, ran |-> r.ran, ok |-> r.ok]
  BY <1>1 DEF Readings
<1>3. Append(r.ran, n + 1) \in Seq(1..(n + 1))
  <2>1. n + 1 \in 1..(n + 1)
    OBVIOUS
  <2> QED
    BY <1>2, <2>1, AppendProperties
<1>4. ASSUME r.blocks # <<>>, NEW p \in {"then", "else"}
      PROVE  [r.blocks EXCEPT ![Len(r.blocks)].phase = p] \in Seq(OpenBlock)
  <2>1. Len(r.blocks) \in 1..Len(r.blocks) /\ r.blocks[Len(r.blocks)] \in OpenBlock
    <3> HIDE DEF OpenBlock
    <3>1. r.blocks # <<>>
      BY <1>4
    <3> QED
      BY <1>2, <3>1, FrontLast
  <2>2. \A b \in OpenBlock : [b EXCEPT !.phase = p] \in OpenBlock
    BY <1>4
  <2>3. [r.blocks[Len(r.blocks)] EXCEPT !.phase = p] \in OpenBlock
    BY <2>1, <2>2
  <2> HIDE DEF OpenBlock
  <2> QED
    BY <1>2, <2>1, <2>3, ExceptSeq
<1>5. r.blocks # <<>> => Front(r.blocks) \in Seq(OpenBlock)
  BY <1>2, FrontLast
<1>6. Append(r.blocks, Entered(k)) \in Seq(OpenBlock)
  <2>1. Entered(k) \in OpenBlock
    BY DEF Entered
  <2> HIDE DEF OpenBlock
  <2> QED
    BY <1>2, <2>1, AppendProperties
<1>7. /\ \A b \in Seq(OpenBlock) : WithBlocks(r, b) \in Readings(n + 1)
      /\ \A s \in Seq(1..(n + 1)) : WithRan(r, s) \in Readings(n + 1)
      /\ \A s \in Seq(1..(n + 1)), b \in Seq(OpenBlock) : WithBlocks(WithRan(r, s), b) \in Readings(n + 1)
      /\ Refused(r) \in Readings(n + 1)
  BY <1>1 DEF Readings, WithBlocks, WithRan, Refused
<1>8. Phase(r) \in {"cond", "then", "else"} => r.blocks # <<>>
  BY DEF Phase
<1> HIDE DEF OpenBlock
<1>9. Runs(r, n + 1) \in Seq(1..(n + 1))
  BY <1>2, <1>3 DEF Runs
<1>10. CASE Phase(r) = "cond" /\ k = "then"
  BY <1>10, <1>4, <1>7, <1>8, ReadAsCases DEF InPhase
<1>11. CASE Phase(r) = "then" /\ k = "else"
  BY <1>11, <1>4, <1>7, <1>8, ReadAsCases DEF InPhase
<1>12. CASE Phase(r) \in {"then", "else"} /\ k = "fi"
  BY <1>12, <1>5, <1>7, <1>8, ReadAsCases
<1>13. CASE Phase(r) # "cond" /\ k = "command"
  BY <1>13, <1>2, <1>9, <1>7, ReadAsCases
<1>14. CASE Phase(r) # "cond" /\ k \in IfLines
  BY <1>14, <1>6, <1>9, <1>7, ReadAsCases
<1>15. CASE ~Read(r, k)
  BY <1>15, <1>7, ReadAsCases
<1> QED
  BY <1>10, <1>11, <1>12, <1>13, <1>14, <1>15 DEF Read

\* The statement is executed.
LEMMA ExecuteType ==
  ASSUME NEW n \in Nat, NEW f \in Frames(n), NEW eof, Execute(f, eof)
  PROVE  frames' = <<>> /\ ran' \in Seq(1..n) /\ at' \in {"prompt", "end", "dead"}
BY ExecType DEF Execute

LEMMA SetTopType ==
  ASSUME NEW n \in Nat, NEW fs \in Seq(Frames(n)), Nested(fs), NEW p \in OpenStates
  PROVE  /\ SetTop(fs, p) \in Seq(Frames(n)) /\ Len(SetTop(fs, p)) = Len(fs)
         /\ SetTop(fs, p)[Len(fs)] = [fs[Len(fs)] EXCEPT !.state = p]
         /\ \A i \in 1..(Len(fs) - 1) : SetTop(fs, p)[i] = fs[i]
         /\ Nested(SetTop(fs, p))
<1> DEFINE d == Len(fs)  top == [fs[d] EXCEPT !.state = p]
<1>1. d \in Nat \ {0} /\ d \in 1..d /\ fs[d] \in Frames(n)
  BY FrontLast DEF Nested
<1>2. top \in Frames(n) /\ top.state = p /\ top.cond = fs[d].cond
  BY <1>1 DEF Frames, OpenStates
<1>3. SetTop(fs, p) = [fs EXCEPT ![d] = top]
  BY DEF SetTop
<1> HIDE DEF top
<1>4. /\ SetTop(fs, p) \in Seq(Frames(n)) /\ Len(SetTop(fs, p)) = d
      /\ \A i \in 1..d : SetTop(fs, p)[i] = IF i = d THEN top ELSE fs[i]
  BY <1>1, <1>2, <1>3, ExceptSeq
<1>5. Nested(SetTop(fs, p))
  <2>1. SetTop(fs, p) # <<>>
    BY <1>1, <1>4, EmptySeq
  <2> QED
    BY <1>1, <1>2, <1>4, <2>1 DEF Nested, IfStates, OpenStates
<1> QED
  BY <1>1, <1>4, <1>5 DEF top

LEMMA PushOnTopNested ==
  ASSUME NEW n \in Nat, NEW fs \in Seq(Frames(n)), Nested(fs), NEW l \in Seq(1..n),
         fs[Len(fs)].state \in OpenStates
  PROVE  Nested(PushOnTop(fs, l))
<1>1. Len(fs) \in Nat \ {0} /\ fs[Len(fs)] \in Frames(n) /\ fs # <<>>
  BY FrontLast DEF Nested
<1>2. /\ PushOnTop(fs, l) \in Seq(Frames(n)) /\ Len(PushOnTop(fs, l)) = Len(fs)
      /\ PushOnTop(fs, l)[Len(fs)] = Push(fs[Len(fs)], l)
      /\ \A i \in 1..(Len(fs) - 1) : PushOnTop(fs, l)[i] = fs[i]
  BY <1>1, PushOnTopType DEF OpenStates
<1>3. /\ Push(fs[Len(fs)], l).state = fs[Len(fs)].state
      /\ Push(fs[Len(fs)], l).cond = fs[Len(fs)].cond
  BY <1>1, PushType DEF OpenStates
<1>4. PushOnTop(fs, l) # <<>>
  BY <1>1, <1>2, EmptySeq
<1>5. \A i \in 1..Len(fs) : i = Len(fs) \/ i \in 1..(Len(fs) - 1)
  BY <1>1
<1> QED
  BY <1>1, <1>2, <1>3, <1>4, <1>5 DEF Nested

LEMMA InnerIf ==
  ASSUME NEW n \in Nat \ {0}, NEW fs \in Seq(Frames(n)), Nested(fs),
         fs[Len(fs)].state \in OpenStates, NEW k \in IfLines
  PROVE  /\ Append(fs, Frame("IF_BLOCK", k, n)) \in Seq(Frames(n))
         /\ Len(Append(fs, Frame("IF_BLOCK", k, n))) = Len(fs) + 1
         /\ Append(fs, Frame("IF_BLOCK", k, n))[Len(fs) + 1] = Frame("IF_BLOCK", k, n)
         /\ \A i \in 1..Len(fs) : Append(fs, Frame("IF_BLOCK", k, n))[i] = fs[i]
         /\ Nested(Append(fs, Frame("IF_BLOCK", k, n)))
<1> DEFINE f == Frame("IF_BLOCK", k, n)
<1>1. f \in Frames(n) /\ f.state = "IF_BLOCK" /\ f.cond = k
  BY EmptySeq DEF Frame, Frames
<1>2. Len(fs) \in Nat
  BY LenProperties
<1> HIDE DEF f
<1>3. /\ Append(fs, f) \in Seq(Frames(n)) /\ Append(fs, f) # <<>>
      /\ Len(Append(fs, f)) = Len(fs) + 1 /\ Append(fs, f)[Len(fs) + 1] = f
      /\ \A i \in 1..Len(fs) : Append(fs, f)[i] = fs[i]
  BY <1>1, AppendProperties
<1>4. ASSUME NEW i \in 1..(Len(fs) + 1)
      PROVE  /\ Append(fs, f)[i].state \in IfStates /\ Append(fs, f)[i].cond \in IfLines
             /\ i < Len(fs) + 1 => Append(fs, f)[i].state \in OpenStates
  <2>1. CASE i = Len(fs) + 1
    BY <1>1, <1>2, <1>3, <2>1 DEF IfStates
  <2>2. CASE i # Len(fs) + 1
    <3>1. i \in 1..Len(fs) /\ (i = Len(fs) \/ i < Len(fs))
      BY <1>2, <2>2
    <3> QED
      BY <1>3, <3>1 DEF Nested
  <2> QED
    BY <2>1, <2>2
<1>5. Nested(Append(fs, f))
  BY <1>3, <1>4 DEF Nested
<1> QED
  BY <1>3, <1>5 DEF f

\* What parse_if_block does with a line, for the proofs: seven ways to go on.
Misplaced(state, k) == \/ k = "eof"
                       \/ state = "IF_BLOCK" /\ k # "then"
                       \/ k = "then" /\ state # "IF_BLOCK"
                       \/ k = "else" /\ state # "THEN_BLOCK"

GivesUp(fs, k) == /\ at' \in {"return", "unwind"} /\ frames' = fs
                  /\ Misplaced(fs[Len(fs)].state, k)
GetsLost(fs, k) == at' \in {"dead", "hung"} /\ frames' = <<>> /\ k \in {"blank", "if"}
OpensInner(fs, k, n) == /\ fs[Len(fs)].state \in OpenStates /\ k \in IfLines /\ complained' = complained
                        /\ at' = "block" /\ frames' = Append(fs, Frame("IF_BLOCK", k, n))
ReadsThen(fs, k) == /\ fs[Len(fs)].state = "IF_BLOCK" /\ k = "then" /\ complained' = complained
                    /\ at' = "block" /\ frames' = SetTop(fs, "THEN_BLOCK")
ReadsElse(fs, k) == /\ fs[Len(fs)].state = "THEN_BLOCK" /\ k = "else" /\ complained' = complained
                    /\ at' = "block" /\ frames' = SetTop(fs, "ELSE_BLOCK")
ClosesInner(fs, k) == /\ fs[Len(fs)].state \in OpenStates /\ k = "fi" /\ complained' = complained
                      /\ Len(fs) > 1 /\ at' = "block" /\ frames' = Fold(fs)
ClosesOuter(fs, k) == /\ fs[Len(fs)].state \in OpenStates /\ k = "fi" /\ complained' = complained
                      /\ Len(fs) = 1 /\ at' = "swallow" /\ frames' = fs
ReadsCommand(fs, k, n) == /\ fs[Len(fs)].state \in OpenStates /\ complained' = complained
                          /\ k \in {"command", "while", "do", "done"} \cup WhileLines
                          /\ at' = "block" /\ frames' = PushOnTop(fs, <<n>>)

LEMMA IfLoopCases ==
  ASSUME NEW fs, NEW k, NEW n, IfLoop(fs, k, n), complained \in BOOLEAN,
         fs[Len(fs)].state \in IfStates
  PROVE  /\ ran' = ran /\ complained' \in BOOLEAN
         /\ \/ GivesUp(fs, k) \/ GetsLost(fs, k) \/ OpensInner(fs, k, n) \/ ReadsThen(fs, k)
            \/ ReadsElse(fs, k) \/ ClosesInner(fs, k) \/ ClosesOuter(fs, k) \/ ReadsCommand(fs, k, n)
<1> DEFINE state == fs[Len(fs)].state
           Back(where, complaint) ==
             at' = where /\ frames' = fs /\ complained' = (complained \/ complaint) /\ ran' = ran
<1>1. \/ k = "eof" /\ Back("unwind", FALSE)
      \/ k = "blank" /\ Lost("dead") /\ complained' = complained
      \/ state \in OpenStates /\ k = "if" /\ Lost("hung") /\ complained' = TRUE
      \/ state \in OpenStates /\ k \in IfLines
         /\ Stay(Append(fs, Frame("IF_BLOCK", k, n))) /\ complained' = complained
      \/ state = "IF_BLOCK" /\ k = "then" /\ Stay(SetTop(fs, "THEN_BLOCK")) /\ complained' = complained
      \/ state = "THEN_BLOCK" /\ k = "else" /\ Stay(SetTop(fs, "ELSE_BLOCK")) /\ complained' = complained
      \/ state \in OpenStates /\ k = "fi" /\ Len(fs) > 1 /\ Stay(Fold(fs)) /\ complained' = complained
      \/ state \in OpenStates /\ k = "fi" /\ Len(fs) = 1 /\ Back("swallow", FALSE)
      \/ state \notin OpenStates /\ k = "fi" /\ Back("unwind", TRUE)
      \/ state \in OpenStates /\ k \in {"command", "while", "do", "done"} \cup WhileLines
         /\ Stay(PushOnTop(fs, <<n>>)) /\ complained' = complained
      \/ Misplaced(state, k) /\ Back("return", TRUE)
  BY DEF IfLoop, Last, OpenStates, Misplaced
<1>2. \A e : Lost(e) => at' = e /\ frames' = <<>> /\ ran' = ran
  BY DEF Lost
<1>3. \A gs : Stay(gs) => at' = "block" /\ frames' = gs /\ ran' = ran
  BY DEF Stay
<1>4. Back("swallow", FALSE) => complained' = complained
  BY Zenon
<1>5. \A w, c : Back(w, c) => at' = w /\ frames' = fs /\ ran' = ran
  BY Zenon
<1>6. ran' = ran
  BY <1>1, <1>2, <1>3, <1>5, Zenon
<1>7. complained' \in BOOLEAN
  BY <1>1, Zenon
<1> HIDE DEF Back
<1> QED
  BY <1>1, <1>2, <1>3, <1>4, <1>5, <1>6, <1>7
     DEF GivesUp, GetsLost, OpensInner, ReadsThen, ReadsElse, ClosesInner, ClosesOuter,
         ReadsCommand, OpenStates, IfStates, Misplaced

Places == {"prompt", "block", "return", "unwind", "swallow", "end", "dead", "hung"}

LEMMA NestedIsIf ==
  ASSUME NEW n \in Nat, NEW fs \in Seq(Frames(n)), Nested(fs)
  PROVE  /\ fs # <<>> /\ Len(fs) \in Nat \ {0} /\ ~IsWhile(fs[1])
         /\ fs[1] \in Frames(n) /\ fs[Len(fs)] \in Frames(n)
         /\ fs[Len(fs)].state \in IfStates /\ fs[Len(fs)].cond \in IfLines
<1>1. fs # <<>> /\ Len(fs) \in Nat \ {0} /\ fs[Len(fs)] \in Frames(n)
  BY FrontLast DEF Nested
<1>2. 1 \in 1..Len(fs) /\ Len(fs) \in 1..Len(fs)
  BY <1>1
<1>3. fs[1].state \in IfStates /\ fs[Len(fs)].state \in IfStates /\ fs[Len(fs)].cond \in IfLines
  BY <1>2 DEF Nested
<1>4. fs[1] \in Frames(n)
  BY <1>2, ElementOfSeq
<1> QED
  BY <1>1, <1>3, <1>4 DEF IsWhile, IfStates

LEMMA IfLoopType ==
  ASSUME NEW n \in Nat \ {0}, NEW fs \in Seq(Frames(n)), Nested(fs), NEW k,
         IfLoop(fs, k, n), complained \in BOOLEAN
  PROVE  /\ at' \in Places /\ frames' \in Seq(Frames(n)) /\ ran' = ran /\ complained' \in BOOLEAN
         /\ IF at' \in InBlock THEN Nested(frames') ELSE frames' = <<>>
         /\ at' = "swallow" => Len(frames') = 1
<1>1. /\ ran' = ran /\ complained' \in BOOLEAN
      /\ \/ GivesUp(fs, k) \/ GetsLost(fs, k) \/ OpensInner(fs, k, n) \/ ReadsThen(fs, k)
         \/ ReadsElse(fs, k) \/ ClosesInner(fs, k) \/ ClosesOuter(fs, k) \/ ReadsCommand(fs, k, n)
  BY IfLoopCases, NestedIsIf
<1>2. CASE GivesUp(fs, k)
  BY <1>1, <1>2 DEF GivesUp, Places, InBlock
<1>3. CASE GetsLost(fs, k)
  BY <1>1, <1>3, EmptySeq DEF GetsLost, Places, InBlock
<1>4. CASE OpensInner(fs, k, n)
  <2>1. frames' \in Seq(Frames(n)) /\ Nested(frames')
    BY <1>4, InnerIf DEF OpensInner
  <2> QED
    BY <1>1, <1>4, <2>1 DEF OpensInner, Places, InBlock
<1>5. CASE ReadsThen(fs, k)
  <2>1. frames' \in Seq(Frames(n)) /\ Nested(frames')
    BY <1>5, SetTopType DEF ReadsThen, OpenStates
  <2> QED
    BY <1>1, <1>5, <2>1 DEF ReadsThen, Places, InBlock
<1>6. CASE ReadsElse(fs, k)
  <2>1. frames' \in Seq(Frames(n)) /\ Nested(frames')
    BY <1>6, SetTopType DEF ReadsElse, OpenStates
  <2> QED
    BY <1>1, <1>6, <2>1 DEF ReadsElse, Places, InBlock
<1>7. CASE ClosesInner(fs, k)
  <2>1. frames' \in Seq(Frames(n)) /\ Nested(frames')
    BY <1>7, FoldType DEF ClosesInner
  <2> QED
    BY <1>1, <1>7, <2>1 DEF ClosesInner, Places, InBlock
<1>8. CASE ClosesOuter(fs, k)
  BY <1>1, <1>8 DEF ClosesOuter, Places, InBlock
<1>9. CASE ReadsCommand(fs, k, n)
  <2>1. <<n>> \in Seq(1..n)
    BY OneElement
  <2>2. frames' \in Seq(Frames(n))
    BY <1>9, <2>1, PushOnTopType, NestedIsIf DEF ReadsCommand, OpenStates
  <2>3. Nested(frames')
    BY <1>9, <2>1, PushOnTopNested DEF ReadsCommand
  <2> QED
    BY <1>1, <1>9, <2>2, <2>3 DEF ReadsCommand, Places, InBlock
<1> QED
  BY <1>1, <1>2, <1>3, <1>4, <1>5, <1>6, <1>7, <1>8, <1>9

LEMMA WhileLoopType ==
  ASSUME NEW n \in Nat \ {0}, NEW f \in Frames(n), IsWhile(f), NEW k,
         WhileLoop(f, k, n), complained \in BOOLEAN, ran \in Seq(1..n)
  PROVE  /\ at' \in Places \ {"return", "unwind", "swallow"}
         /\ frames' \in Seq(Frames(n)) /\ ran' \in Seq(1..n) /\ complained' \in BOOLEAN
         /\ IF at' = "block" THEN frames' # <<>> /\ Len(frames') = 1 /\ IsWhile(frames'[1])
                             ELSE frames' = <<>>
<1>1. complained' \in BOOLEAN
  BY Zenon DEF WhileLoop
<1>2. CASE \E eof : Execute(f, eof)
  <2>1. frames' = <<>> /\ ran' \in Seq(1..n) /\ at' \in {"prompt", "end", "dead"}
    BY <1>2, ExecuteType
  <2> QED
    BY <1>1, <2>1, EmptySeq DEF Places
<1>3. CASE Lost("dead")
  BY <1>1, <1>3, EmptySeq DEF Lost, Places
<1>4. ASSUME NEW g \in Frames(n), IsWhile(g), Stay(<<g>>)
      PROVE  /\ at' \in Places \ {"return", "unwind", "swallow"}
             /\ frames' \in Seq(Frames(n)) /\ ran' \in Seq(1..n) /\ complained' \in BOOLEAN
             /\ IF at' = "block" THEN frames' # <<>> /\ Len(frames') = 1 /\ IsWhile(frames'[1])
                                 ELSE frames' = <<>>
  <2>1. <<g>> \in Seq(Frames(n)) /\ Len(<<g>>) = 1 /\ <<g>>[1] = g /\ <<g>> # <<>>
    BY OneElement
  <2>2. at' = "block" /\ frames' = <<g>> /\ ran' = ran
    BY <1>4 DEF Stay
  <2> QED
    BY <1>1, <1>4, <2>1, <2>2 DEF Places
<1>5. [f EXCEPT !.state = "DO_BLOCK"] \in Frames(n) /\ IsWhile([f EXCEPT !.state = "DO_BLOCK"])
  BY DEF Frames, IsWhile
<1>6. <<n>> \in Seq(1..n)
  BY OneElement
<1>7. f.state = "DO_BLOCK" => Push(f, <<n>>) \in Frames(n) /\ IsWhile(Push(f, <<n>>))
  BY <1>6, PushType DEF IsWhile
<1>8. \/ \E eof : Execute(f, eof)
      \/ Lost("dead")
      \/ Stay(<<[f EXCEPT !.state = "DO_BLOCK"]>>)
      \/ f.state = "DO_BLOCK" /\ Stay(<<Push(f, <<n>>)>>)
      \/ Stay(<<f>>)
  BY DEF WhileLoop
<1> QED
  BY <1>2, <1>3, <1>4, <1>5, <1>7, <1>8

\* The script before and after a line, and what it makes of the other variables.
LEMMA NextScript ==
  ASSUME BlockInv, NEW k \in Words, script # <<>>, Len(script) + 1 <= MaxLines,
         script' = Append(script, k), reading' = ReadAs(reading, k, Len(script) + 1)
  PROVE  /\ Len(script) \in Nat \ {0}
         /\ script' \in Seq(Words) /\ Len(script') = Len(script) + 1 /\ Len(script') <= MaxLines
         /\ \A i \in 1..Len(script) : script'[i] = script[i]
         /\ script'[Len(script) + 1] = k /\ script'[1] = script[1] /\ script' # <<>>
         /\ reading' \in Readings(Len(script'))
         /\ frames \in Seq(Frames(Len(script'))) /\ ran \in Seq(1..Len(script'))
<1>1. script \in Seq(Words) /\ Len(script) \in Nat \ {0}
  BY EmptySeq DEF BlockInv, BlockTypeOK
<1>2. /\ script' \in Seq(Words) /\ Len(script') = Len(script) + 1 /\ script' # <<>>
      /\ \A i \in 1..Len(script) : script'[i] = script[i]
      /\ script'[Len(script) + 1] = k
  BY <1>1, AppendProperties
<1>3. 1 \in 1..Len(script)
  BY <1>1
<1>4. reading' \in Readings(Len(script'))
  BY <1>1, <1>2, ReadAsType DEF BlockInv, BlockTypeOK
<1>5. frames \in Seq(Frames(Len(script'))) /\ ran \in Seq(1..Len(script'))
  BY <1>1, <1>2, MoreLines DEF BlockInv, BlockTypeOK
<1> QED
  BY <1>1, <1>2, <1>3, <1>4, <1>5

LEMMA FirstLineInv == ASSUME BlockInv, NEW k \in Words, FirstLine(k) PROVE BlockInv'
<1>1. /\ frames = <<>> /\ at = "prompt" /\ shell' = shell /\ shell \in {"9.09", "9.10"}
      /\ script' = <<k>> /\ reading' = ReadAs(Nothing, k, 1)
  BY DEF FirstLine, BlockInv, BlockTypeOK, InBlock
<1>2. script' \in Seq(Words) /\ Len(script') = 1 /\ script'[1] = k /\ script' # <<>>
  BY <1>1, OneElement
<1>3. Len(script') <= MaxLines
  BY <1>2, LinesAssumption
<1>4. reading' \in Readings(1)
  <2>1. Nothing \in Readings(0)
    BY EmptySeq DEF Nothing, Readings
  <2>2. 0 \in Nat /\ 0 + 1 = 1
    OBVIOUS
  <2> QED
    BY <1>1, <2>1, <2>2, ReadAsType
<1>5. ran' \in Seq(1..1)
  <2>1. ran' = <<>> \/ ran' = <<1>>
    BY DEF FirstLine
  <2>2. 1 \in 1..1
    OBVIOUS
  <2> QED
    BY <2>1, <2>2, EmptySeq, OneElement
<1>6. complained' \in BOOLEAN
  <2>1. complained' = (k = "if" \/ (k = "while" /\ shell = "9.10"))
    BY DEF FirstLine
  <2> QED
    BY <2>1, Zenon
<1>7. CASE at' = "block"
  <2> DEFINE f == frames'[1]
  <2>1. \E state \in {"IF_BLOCK", "WHILE_BLOCK"} :
           /\ frames' = <<Frame(state, k, 1)>>
           /\ IF state = "IF_BLOCK" THEN k \in IfLines ELSE k \in WhileLines
    BY <1>1, <1>7 DEF FirstLine
  <2>2. PICK state \in {"IF_BLOCK", "WHILE_BLOCK"} :
           /\ frames' = <<Frame(state, k, 1)>>
           /\ IF state = "IF_BLOCK" THEN k \in IfLines ELSE k \in WhileLines
    BY <2>1
  <2>3. Frame(state, k, 1) \in Frames(1) /\ Frame(state, k, 1).state = state /\ Frame(state, k, 1).cond = k
    BY <2>2, EmptySeq DEF Frame, Frames
  <2>4. frames' \in Seq(Frames(1)) /\ Len(frames') = 1 /\ frames'[1] = Frame(state, k, 1) /\ frames' # <<>>
    BY <2>2, <2>3, OneElement
  <2>5. IF IsWhile(frames'[1]) THEN k \in WhileLines ELSE Nested(frames') /\ k \in IfLines
    BY <2>2, <2>3, <2>4 DEF IsWhile, Nested, IfStates
  <2> QED
    BY <1>1, <1>2, <1>3, <1>4, <1>5, <1>6, <1>7, <2>4, <2>5
       DEF BlockInv, BlockTypeOK, Shape, InBlock, IsWhile
<1>8. CASE at' # "block"
  <2>1. frames' = <<>> /\ at' \in {"prompt", "dead", "hung"}
    BY <1>1, <1>8 DEF FirstLine
  <2> QED
    BY <1>1, <1>2, <1>3, <1>4, <1>5, <1>6, <2>1, EmptySeq DEF BlockInv, BlockTypeOK, Shape, InBlock
<1> QED
  BY <1>7, <1>8

LEMMA NextLineInv == ASSUME BlockInv, NEW k \in Words, NextLine(k) PROVE BlockInv'
<1> DEFINE n == Len(script) + 1
<1>1. /\ at = "block" /\ frames # <<>> /\ script # <<>> /\ n <= MaxLines
      /\ shell' = shell /\ shell \in {"9.09", "9.10"} /\ complained \in BOOLEAN
      /\ script' = Append(script, k) /\ reading' = ReadAs(reading, k, n)
      /\ IF IsWhile(frames[1]) THEN WhileLoop(frames[1], k, n) ELSE IfLoop(frames, k, n)
      /\ IF IsWhile(frames[1]) THEN Len(frames) = 1 /\ script[1] \in WhileLines
                               ELSE Nested(frames) /\ script[1] \in IfLines
  BY DEF NextLine, BlockInv, BlockTypeOK, Shape, InBlock
<1>2. /\ n \in Nat \ {0} /\ script' \in Seq(Words) /\ Len(script') = n /\ n <= MaxLines
      /\ script'[1] = script[1] /\ script' # <<>> /\ reading' \in Readings(n)
      /\ frames \in Seq(Frames(n)) /\ ran \in Seq(1..n)
  <2>1. Len(script) + 1 <= MaxLines
    BY <1>1
  <2> QED
    BY <1>1, <2>1, NextScript
<1>3. CASE IsWhile(frames[1])
  <2>1. frames[1] \in Frames(n)
    BY <1>1, <1>2, <1>3
  <2>2. /\ at' \in Places \ {"return", "unwind", "swallow"}
        /\ frames' \in Seq(Frames(n)) /\ ran' \in Seq(1..n) /\ complained' \in BOOLEAN
        /\ IF at' = "block" THEN frames' # <<>> /\ Len(frames') = 1 /\ IsWhile(frames'[1])
                            ELSE frames' = <<>>
    <3> HIDE DEF n
    <3> QED
      BY <1>1, <1>2, <1>3, <2>1, WhileLoopType
  <2> HIDE DEF n
  <2> QED
    BY <1>1, <1>2, <1>3, <2>2 DEF BlockInv, BlockTypeOK, Shape, InBlock, Places
<1>4. CASE ~IsWhile(frames[1])
  <2> HIDE DEF n
  <2>1. /\ at' \in Places /\ frames' \in Seq(Frames(n)) /\ ran' = ran /\ complained' \in BOOLEAN
        /\ IF at' \in InBlock THEN Nested(frames') ELSE frames' = <<>>
        /\ at' = "swallow" => Len(frames') = 1
    BY <1>1, <1>2, <1>4, IfLoopType
  <2>2. at' \in InBlock => frames' # <<>> /\ ~IsWhile(frames'[1])
    BY <1>2, <2>1, NestedIsIf
  <2> QED
    BY <1>1, <1>2, <1>4, <2>1, <2>2 DEF BlockInv, BlockTypeOK, Shape, InBlock, Places
<1> QED
  BY <1>3, <1>4

\* The calls of parse_if_block return, or the statement is executed.
LEMMA ReturnsInv ==
  ASSUME BlockInv, Return \/ Unwind \/ (\E eof \in BOOLEAN : LineAfterFi(eof))
  PROVE  BlockInv'
<1> DEFINE n == Len(script)
<1>1. /\ at \in {"return", "unwind", "swallow"} /\ frames # <<>> /\ script # <<>>
      /\ shell' = shell /\ script' = script /\ reading' = reading
      /\ complained \in BOOLEAN /\ Nested(frames) /\ script[1] \in IfLines
      /\ script \in Seq(Words) /\ frames \in Seq(Frames(n)) /\ ran \in Seq(1..n)
      /\ shell \in {"9.09", "9.10"} /\ reading \in Readings(n) /\ n <= MaxLines
  BY DEF Return, Unwind, LineAfterFi, BlockInv, BlockTypeOK, Shape, InBlock
<1>2. n \in Nat \ {0}
  BY <1>1, EmptySeq
<1> HIDE DEF n
<1>3. CASE Len(frames) = 1
  <2>1. frames[1] \in Frames(n)
    BY <1>1, <1>2, NestedIsIf
  <2>2. (\E eof : Execute(frames[1], eof)) /\ complained' = complained
    BY <1>3 DEF Return, Unwind, LineAfterFi
  <2>3. frames' = <<>> /\ ran' \in Seq(1..n) /\ at' \in {"prompt", "end", "dead"}
    BY <1>2, <2>1, <2>2, ExecuteType
  <2> QED
    BY <1>1, <2>2, <2>3, EmptySeq DEF BlockInv, BlockTypeOK, Shape, InBlock, n
<1>4. CASE Len(frames) # 1
  <2>1. Fold(frames) \in Seq(Frames(n)) /\ Nested(Fold(frames))
    BY <1>1, <1>2, <1>4, FoldType
  <2>2. CASE IfLoop(Fold(frames), Last(script), n)
    <3>1. /\ at' \in Places /\ frames' \in Seq(Frames(n)) /\ ran' = ran /\ complained' \in BOOLEAN
          /\ IF at' \in InBlock THEN Nested(frames') ELSE frames' = <<>>
          /\ at' = "swallow" => Len(frames') = 1
      BY <1>1, <1>2, <2>1, <2>2, IfLoopType
    <3>2. at' \in InBlock => frames' # <<>> /\ ~IsWhile(frames'[1])
      BY <1>2, <3>1, NestedIsIf
    <3> QED
      BY <1>1, <3>1, <3>2 DEF BlockInv, BlockTypeOK, Shape, InBlock, Places, n
  <2>3. CASE frames' = Fold(frames) /\ UNCHANGED <<at, ran, complained>> /\ at = "unwind"
    <3>1. frames' # <<>> /\ ~IsWhile(frames'[1])
      BY <1>2, <2>1, <2>3, NestedIsIf
    <3> QED
      BY <1>1, <2>1, <2>3, <3>1 DEF BlockInv, BlockTypeOK, Shape, InBlock, n
  <2>4. at # "swallow"
    BY <1>4 DEF BlockInv, Shape
  <2> QED
    BY <1>4, <2>2, <2>3, <2>4 DEF Return, Unwind, LineAfterFi, n
<1> QED
  BY <1>3, <1>4

LEMMA EndInv == ASSUME BlockInv, EndOfInput PROVE BlockInv'
<1>1. frames = <<>>
  BY DEF EndOfInput, BlockInv, BlockTypeOK
<1> QED
  BY <1>1 DEF EndOfInput, BlockInv, BlockTypeOK, Shape, InBlock

LEMMA BlockInvInit == BlockInit => BlockInv
<1> SUFFICES ASSUME BlockInit PROVE BlockInv
  OBVIOUS
<1>1. Len(script) = 0 /\ script \in Seq(Words) /\ 0 <= MaxLines
  BY EmptySeq, LinesAssumption DEF BlockInit
<1>2. reading \in Readings(0) /\ ran \in Seq(1..0) /\ frames \in Seq(Frames(0))
  BY EmptySeq DEF BlockInit, Nothing, Readings
<1>3. BlockTypeOK
  <2>1. /\ reading \in Readings(Len(script)) /\ ran \in Seq(1..Len(script))
        /\ frames \in Seq(Frames(Len(script))) /\ Len(script) <= MaxLines
    BY <1>1, <1>2
  <2>2. /\ shell \in {"9.09", "9.10"} /\ complained \in BOOLEAN
        /\ at \in {"prompt", "block", "return", "unwind", "swallow", "end", "dead", "hung"}
        /\ (frames # <<>>) = (at \in {"block", "return", "unwind", "swallow"})
    <3>1. frames = <<>> /\ at = "prompt" /\ shell \in {"9.09", "9.10"} /\ complained = FALSE
      BY DEF BlockInit
    <3>2. ~(frames # <<>>) /\ ~(at \in {"block", "return", "unwind", "swallow"})
      BY <3>1
    <3>3. (frames # <<>>) = (at \in {"block", "return", "unwind", "swallow"})
      <4> DEFINE a == frames # <<>>  b == at \in {"block", "return", "unwind", "swallow"}
      <4>1. a \in BOOLEAN /\ b \in BOOLEAN /\ ~a /\ ~b
        BY <3>2
      <4> HIDE DEF a, b
      <4>2. a = b
        BY <4>1
      <4> QED
        BY <4>2 DEF a, b
    <3>4. complained \in BOOLEAN
      BY <3>1, Zenon
    <3> QED
      BY <3>1, <3>3, <3>4
  <2>3. script \in Seq(Words)
    BY <1>1
  <2> QED
    BY <2>1, <2>2, <2>3, Zenon DEF BlockTypeOK
<1>4. Shape
  BY DEF BlockInit, Shape, InBlock
<1> QED
  BY <1>3, <1>4 DEF BlockInv

LEMMA BlockInvStep == BlockInv /\ [BlockNext]_blockVars => BlockInv'
<1> SUFFICES ASSUME BlockInv, [BlockNext]_blockVars PROVE BlockInv'
  OBVIOUS
<1>1. CASE UNCHANGED blockVars
  BY <1>1 DEF blockVars, BlockInv, BlockTypeOK, Shape
<1>2. CASE BlockNext
  BY <1>2, FirstLineInv, NextLineInv, ReturnsInv, EndInv DEF BlockNext
<1> QED
  BY <1>1, <1>2

\* The shell's variables keep their types, and the open blocks their shape: only
\* the innermost "if" can be in its condition, a "while" has no inner block.
THEOREM BlockTypes == BlockSpec => []BlockInv
BY BlockInvInit, BlockInvStep, PTL DEF BlockSpec

-----------------------------------------------------------------------------
(* What the frames will execute. g[i] is what the reader made of the first i
   frames: the frame above adds what it executes, if the parts that it is in run. *)

Taken(f) == (f.state = "THEN_BLOCK") <=> (f.cond = "if yes")
LiveBelow(fs, i) == \A j \in 1..(i - 1) : Taken(fs[j])

Adds(fs, s, g) ==
  /\ g \in [0..Len(fs) -> Seq(Nat)] /\ g[0] = <<>> /\ g[Len(fs)] = s
  /\ \A i \in 1..Len(fs) : g[i] = IF LiveBelow(fs, i) THEN g[i - 1] \o Exec(fs[i]) ELSE g[i - 1]

LEMMA ExecNat ==
  ASSUME NEW n \in Nat, NEW f \in Frames(n)
  PROVE  Exec(f) \in Seq(Nat)
<1>1. Exec(f) \in Seq(1..n)
  BY ExecType
<1>2. 1..n \subseteq Nat
  OBVIOUS
<1> QED
  BY <1>1, <1>2, SeqMonotonic

\* All frames but the top one are kept; the top one is another, or a new one.
LEMMA AddsOn ==
  ASSUME NEW n \in Nat, NEW fs \in Seq(Frames(n)), NEW s, NEW g, Adds(fs, s, g),
         NEW gs \in Seq(Frames(n)), gs # <<>>, Len(gs) - 1 <= Len(fs),
         \A i \in 1..(Len(gs) - 1) : gs[i] = fs[i]
  PROVE  \E h : Adds(gs, IF LiveBelow(fs, Len(gs)) THEN g[Len(gs) - 1] \o Exec(gs[Len(gs)])
                                                  ELSE g[Len(gs) - 1], h)
<1> DEFINE m == Len(gs)
           top == IF LiveBelow(fs, m) THEN g[m - 1] \o Exec(gs[m]) ELSE g[m - 1]
           h == [i \in 0..m |-> IF i = m THEN top ELSE g[i]]
<1>1. m \in Nat \ {0} /\ Len(fs) \in Nat /\ gs[m] \in Frames(n) /\ m - 1 \in 0..Len(fs)
  BY FrontLast, LenProperties
<1>2. /\ g \in [0..Len(fs) -> Seq(Nat)] /\ g[0] = <<>>
      /\ \A i \in 1..Len(fs) : g[i] = IF LiveBelow(fs, i) THEN g[i - 1] \o Exec(fs[i]) ELSE g[i - 1]
  BY DEF Adds
<1>3. g[m - 1] \in Seq(Nat) /\ Exec(gs[m]) \in Seq(Nat)
  BY <1>1, <1>2, ExecNat
<1>4. top \in Seq(Nat)
  BY <1>3, ConcatProperties
<1>5. \A i \in 0..m : i # m => i \in 0..Len(fs)
  BY <1>1
<1> HIDE DEF top
<1>6. h \in [0..m -> Seq(Nat)] /\ h[m] = top /\ \A i \in 0..(m - 1) : h[i] = g[i]
  BY <1>1, <1>2, <1>4, <1>5
<1>7. \A i \in 1..m : LiveBelow(gs, i) <=> LiveBelow(fs, i)
  BY <1>1 DEF LiveBelow
<1> HIDE DEF m, h
<1>8. ASSUME NEW i \in 1..m
      PROVE  h[i] = IF LiveBelow(gs, i) THEN h[i - 1] \o Exec(gs[i]) ELSE h[i - 1]
  <2>1. h[i - 1] = g[i - 1]
    BY <1>1, <1>6
  <2>2. CASE i = m
    BY <1>6, <1>7, <2>1, <2>2 DEF top
  <2>3. CASE i # m
    <3>1. i \in 1..Len(fs) /\ h[i] = g[i] /\ gs[i] = fs[i]
      BY <1>1, <1>6, <2>3 DEF m
    <3> QED
      BY <1>2, <1>7, <2>1, <3>1
  <2> QED
    BY <2>2, <2>3
<1>9. h[0] = <<>>
  BY <1>1, <1>2, <1>6
<1>10. Adds(gs, top, h)
  BY <1>6, <1>8, <1>9 DEF Adds, m
<1> QED
  BY <1>10 DEF top, m

LEMMA AddsFacts ==
  ASSUME NEW n \in Nat, NEW fs \in Seq(Frames(n)), NEW s, NEW g, Adds(fs, s, g)
  PROVE  /\ Len(fs) \in Nat /\ g[Len(fs)] = s /\ g[0] = <<>>
         /\ \A i \in 0..Len(fs) : g[i] \in Seq(Nat)
         /\ \A i \in 1..Len(fs) : /\ i - 1 \in 0..Len(fs) /\ Exec(fs[i]) \in Seq(Nat)
                                  /\ LiveBelow(fs, i) => g[i] = g[i - 1] \o Exec(fs[i])
                                  /\ ~LiveBelow(fs, i) => g[i] = g[i - 1]
                                  /\ LiveBelow(fs, i + 1) <=> LiveBelow(fs, i) /\ Taken(fs[i])
<1>1. Len(fs) \in Nat /\ \A i \in 1..Len(fs) : fs[i] \in Frames(n)
  BY LenProperties, ElementOfSeq
<1>2. /\ g \in [0..Len(fs) -> Seq(Nat)] /\ g[0] = <<>> /\ g[Len(fs)] = s
      /\ \A i \in 1..Len(fs) : g[i] = IF LiveBelow(fs, i) THEN g[i - 1] \o Exec(fs[i]) ELSE g[i - 1]
  BY DEF Adds
<1>3. ASSUME NEW i \in 1..Len(fs)
      PROVE  LiveBelow(fs, i + 1) <=> LiveBelow(fs, i) /\ Taken(fs[i])
  <2>1. i \in Nat \ {0} /\ i + 1 - 1 = i
    BY <1>1
  <2>2. i \in 1..i /\ (\A j \in 1..i : j = i \/ j \in 1..(i - 1)) /\ \A j \in 1..(i - 1) : j \in 1..i
    BY <2>1
  <2>3. LiveBelow(fs, i + 1) <=> \A j \in 1..i : Taken(fs[j])
    BY <2>1 DEF LiveBelow
  <2>4. LiveBelow(fs, i) <=> \A j \in 1..(i - 1) : Taken(fs[j])
    BY DEF LiveBelow
  <2> QED
    BY <2>2, <2>3, <2>4, Zenon
<1>4. \A i \in 1..Len(fs) : i - 1 \in 0..Len(fs) /\ Exec(fs[i]) \in Seq(Nat)
  BY <1>1, ExecNat
<1> QED
  BY <1>1, <1>2, <1>3, <1>4

LEMMA ExecIs ==
  ASSUME NEW f
  PROVE  /\ f.cond = "if yes" => Exec(f) = <<f.line>> \o f.then
         /\ f.cond = "if no" => Exec(f) = <<f.line>> \o f.else
         /\ f.cond = "while once" => Exec(f) = (<<f.line>> \o f.then) \o <<f.line>>
         /\ f.cond = "while no" => Exec(f) = <<f.line>>
<1>1. f.cond = "if yes" => Exec(f) = <<f.line>> \o f.then
  BY DEF Exec
<1>2. f.cond = "if no" => Exec(f) = <<f.line>> \o f.else
  BY DEF Exec
<1>3. f.cond = "while once" => Exec(f) = (<<f.line>> \o f.then) \o <<f.line>>
  BY DEF Exec
<1>4. f.cond = "while no" => Exec(f) = <<f.line>>
  BY DEF Exec
<1> QED
  BY <1>1, <1>2, <1>3, <1>4

\* A part that is not the one that runs gains nothing by what is pushed.
LEMMA ExecPush ==
  ASSUME NEW n \in Nat, NEW f \in Frames(n), NEW l \in Seq(1..n),
         f.state \in OpenStates, f.cond \in IfLines
  PROVE  /\ Taken(f) => Exec(Push(f, l)) = Exec(f) \o l
         /\ ~Taken(f) => Exec(Push(f, l)) = Exec(f)
<1>1. <<f.line>> \in Seq(1..n) /\ f.then \in Seq(1..n) /\ f.else \in Seq(1..n)
  <2>1. f.line \in 1..n /\ f.then \in Seq(1..n) /\ f.else \in Seq(1..n)
    BY DEF Frames
  <2> QED
    BY <2>1, OneElement
<1>2. /\ Push(f, l).cond = f.cond /\ Push(f, l).line = f.line
      /\ f.state = "ELSE_BLOCK" => Push(f, l).then = f.then /\ Push(f, l).else = f.else \o l
      /\ f.state # "ELSE_BLOCK" => Push(f, l).then = f.then \o l /\ Push(f, l).else = f.else
  BY PushType DEF OpenStates
<1>3. /\ (<<f.line>> \o f.then) \o l = <<f.line>> \o (f.then \o l)
      /\ (<<f.line>> \o f.else) \o l = <<f.line>> \o (f.else \o l)
  <2>1. \A x, y \in Seq(1..n) : (x \o y) \o l = x \o (y \o l)
    BY ConcatAssociative
  <2> QED
    BY <1>1, <2>1
<1>5. CASE f.cond = "if yes"
  BY <1>2, <1>3, <1>5, ExecIs DEF OpenStates, Taken
<1>6. CASE f.cond = "if no"
  BY <1>2, <1>3, <1>6, ExecIs DEF OpenStates, Taken
<1> QED
  BY <1>5, <1>6 DEF IfLines

-----------------------------------------------------------------------------
(* The reader is in the same parts of the same blocks as the shell.          *)

Matches(f, b) == /\ f.state = "IF_BLOCK" <=> b.phase = "cond"
                 /\ f.state = "THEN_BLOCK" <=> b.phase = "then"
                 /\ f.state = "ELSE_BLOCK" <=> b.phase = "else"
                 /\ f.cond = "if yes" <=> b.yes

SameBlocks(fs, r) == Len(r.blocks) = Len(fs) /\ \A i \in 1..Len(fs) : Matches(fs[i], r.blocks[i])

Agree(fs, r) == SameBlocks(fs, r) /\ \E g : Adds(fs, r.ran, g)

OpenBlock == [yes : BOOLEAN, phase : {"cond", "then", "else"}]

LEMMA ReadingType ==
  ASSUME NEW n \in Nat, NEW r \in Readings(n)
  PROVE  /\ r.blocks \in Seq(OpenBlock) /\ r.ran \in Seq(1..n) /\ r.ran \in Seq(Nat) /\ r.ok \in BOOLEAN
         /\ \A i \in 1..Len(r.blocks) : r.blocks[i] \in OpenBlock
<1>1. r.blocks \in Seq(OpenBlock) /\ r.ran \in Seq(1..n) /\ r.ok \in BOOLEAN
  BY DEF Readings, OpenBlock
<1>2. 1..n \subseteq Nat
  OBVIOUS
<1>3. r.ran \in Seq(Nat)
  BY <1>1, <1>2, SeqMonotonic
<1> QED
  BY <1>1, <1>3, ElementOfSeq

LEMMA SameLive ==
  ASSUME NEW n \in Nat, NEW r \in Readings(n), NEW fs \in Seq(Frames(n)), SameBlocks(fs, r)
  PROVE  Live(r.blocks) <=> LiveBelow(fs, Len(fs) + 1)
<1>1. /\ Len(fs) \in Nat /\ DOMAIN r.blocks = 1..Len(fs)
      /\ \A i \in 1..Len(fs) : r.blocks[i] \in OpenBlock /\ Matches(fs[i], r.blocks[i])
  BY ReadingType, LenProperties DEF SameBlocks
<1>2. ASSUME NEW i \in 1..Len(fs)
      PROVE  ((r.blocks[i].phase = "then") = r.blocks[i].yes) <=> Taken(fs[i])
  <2>1. r.blocks[i].yes \in BOOLEAN
    BY <1>1 DEF OpenBlock
  <2>2. /\ fs[i].state = "THEN_BLOCK" <=> r.blocks[i].phase = "then"
        /\ fs[i].cond = "if yes" <=> r.blocks[i].yes
    BY <1>1 DEF Matches
  <2> QED
    BY <2>1, <2>2, Zenon DEF Taken
<1>3. Len(fs) + 1 - 1 = Len(fs)
  BY <1>1
<1> QED
  <2>1. Live(r.blocks) <=> \A i \in 1..Len(fs) : (r.blocks[i].phase = "then") = r.blocks[i].yes
    BY <1>1, Zenon DEF Live
  <2>2. LiveBelow(fs, Len(fs) + 1) <=> \A i \in 1..Len(fs) : Taken(fs[i])
    BY <1>3 DEF LiveBelow
  <2> QED
    BY <1>2, <2>1, <2>2, Zenon

\* Every block but the innermost is the same; that one is changed or new.
LEMMA SameOn ==
  ASSUME NEW fs, NEW r, SameBlocks(fs, r), NEW gs, NEW b,
         Len(gs) \in Nat \ {0}, Len(gs) - 1 <= Len(fs), Len(fs) \in Nat, Len(b.blocks) = Len(gs),
         \A i \in 1..(Len(gs) - 1) : gs[i] = fs[i] /\ b.blocks[i] = r.blocks[i],
         Matches(gs[Len(gs)], b.blocks[Len(gs)])
  PROVE  SameBlocks(gs, b)
<1>1. ASSUME NEW i \in 1..Len(gs) PROVE Matches(gs[i], b.blocks[i])
  <2>1. CASE i = Len(gs)
    BY <2>1
  <2>2. CASE i # Len(gs)
    <3>1. i \in 1..(Len(gs) - 1) /\ i \in 1..Len(fs)
      BY <2>2
    <3> QED
      BY <3>1 DEF SameBlocks
  <2> QED
    BY <2>1, <2>2
<1> QED
  BY <1>1 DEF SameBlocks

\* The "if" the shell has just been given is as the reader has it.
LEMMA FirstAgrees ==
  ASSUME NEW k \in IfLines
  PROVE  Agree(<<Frame("IF_BLOCK", k, 1)>>, ReadAs(Nothing, k, 1))
<1> DEFINE f == Frame("IF_BLOCK", k, 1)  r == ReadAs(Nothing, k, 1)
           g == [i \in 0..1 |-> IF i = 0 THEN <<>> ELSE <<1>>]
<1>1. f \in Frames(1) /\ f.state = "IF_BLOCK" /\ f.cond = k /\ Exec(f) = <<1>>
  <2>1. <<>> \in Seq(1..1) /\ 1 \in 1..1
    BY EmptySeq
  <2>2. f \in Frames(1) /\ f.state = "IF_BLOCK" /\ f.cond = k /\ f.line = 1 /\ f.then = <<>> /\ f.else = <<>>
    BY <2>1 DEF Frame, Frames
  <2>3. <<1>> \o <<>> = <<1>>
    OBVIOUS
  <2> QED
    BY <2>2, <2>3, ExecIs DEF IfLines
<1>2. r.blocks = <<Entered(k)>> /\ r.ran = <<1>>
  <2>1. Phase(Nothing) = "none" /\ Live(<<>>)
    BY EmptySeq DEF Phase, Nothing, Live
  <2>2. r = WithBlocks(WithRan(Nothing, Runs(Nothing, 1)), Append(Nothing.blocks, Entered(k)))
    BY <2>1, ReadAsCases
  <2>3. Runs(Nothing, 1) = <<1>> /\ Append(Nothing.blocks, Entered(k)) = <<Entered(k)>>
    BY <2>1 DEF Runs, Nothing
  <2> QED
    BY <2>2, <2>3 DEF WithBlocks, WithRan, Nothing
<1>3. Matches(f, Entered(k))
  BY <1>1 DEF Matches, Entered, IfLines
<1> HIDE DEF f, r
<1>4. /\ Len(<<f>>) = 1 /\ <<f>>[1] = f
      /\ Len(<<Entered(k)>>) = 1 /\ <<Entered(k)>>[1] = Entered(k)
  OBVIOUS
<1>5. SameBlocks(<<f>>, r)
  BY <1>2, <1>3, <1>4 DEF SameBlocks
<1>6. LiveBelow(<<f>>, 1)
  BY DEF LiveBelow
<1>7. Adds(<<f>>, <<1>>, g)
  <2>1. <<>> \in Seq(Nat) /\ <<1>> \in Seq(Nat) /\ <<>> \o <<1>> = <<1>>
    OBVIOUS
  <2>2. g \in [0..1 -> Seq(Nat)] /\ g[0] = <<>> /\ g[1] = <<1>>
    BY <2>1
  <2>3. \A i \in 1..1 : i = 1 /\ i - 1 = 0
    OBVIOUS
  <2> HIDE DEF g
  <2> QED
    BY <1>1, <1>4, <1>6, <2>1, <2>2, <2>3 DEF Adds
<1> QED
  BY <1>2, <1>5, <1>7 DEF Agree, f, r

\* As long as the reader accepts the lines, the shell follows him.
LEMMA IfLoopReads ==
  ASSUME NEW n \in Nat \ {0}, NEW fs \in Seq(Frames(n)), Nested(fs), NEW k,
         NEW r \in Readings(n), Agree(fs, r), ReadAs(r, k, n).ok,
         IfLoop(fs, k, n), complained \in BOOLEAN
  PROVE  /\ complained' = complained
         /\ \/ at' = "block" /\ Agree(frames', ReadAs(r, k, n))
            \/ /\ at' = "swallow" /\ ReadAs(r, k, n).blocks = <<>>
               /\ Exec(frames'[1]) = ReadAs(r, k, n).ran
<1> DEFINE d == Len(fs)  r2 == ReadAs(r, k, n)  state == fs[d].state
<1>1. /\ d \in Nat \ {0} /\ fs[d] \in Frames(n) /\ fs # <<>>
      /\ state \in IfStates /\ fs[d].cond \in IfLines /\ Len(fs) \in 1..Len(fs)
  BY NestedIsIf
<1>2. PICK g : Adds(fs, r.ran, g)
  BY DEF Agree
<1>3. /\ Len(r.blocks) = d /\ \A i \in 1..d : Matches(fs[i], r.blocks[i])
      /\ r.blocks \in Seq(OpenBlock) /\ r.blocks[d] \in OpenBlock /\ r.blocks # <<>>
  BY <1>1, ReadingType, EmptySeq DEF Agree, SameBlocks
<1>4. Phase(r) = r.blocks[d].phase
  BY <1>3 DEF Phase, Last
<1>5. /\ state = "IF_BLOCK" <=> Phase(r) = "cond"
      /\ state = "THEN_BLOCK" <=> Phase(r) = "then"
      /\ state = "ELSE_BLOCK" <=> Phase(r) = "else"
  BY <1>1, <1>3, <1>4 DEF Matches
<1>6. Read(r, k)
  <2>1. ~Read(r, k) => r2 = Refused(r)
    BY ReadAsCases
  <2>2. Refused(r).ok = FALSE
    BY DEF Readings, Refused
  <2>3. r2.ok
    OBVIOUS
  <2> HIDE DEF r2
  <2> QED
    BY <2>1, <2>2, <2>3, Zenon
<1>7. /\ Len(fs) \in Nat /\ g[Len(fs)] = r.ran /\ g[0] = <<>>
      /\ \A i \in 0..Len(fs) : g[i] \in Seq(Nat)
      /\ \A i \in 1..Len(fs) : /\ i - 1 \in 0..Len(fs) /\ Exec(fs[i]) \in Seq(Nat)
                               /\ LiveBelow(fs, i) => g[i] = g[i - 1] \o Exec(fs[i])
                               /\ ~LiveBelow(fs, i) => g[i] = g[i - 1]
                               /\ LiveBelow(fs, i + 1) <=> LiveBelow(fs, i) /\ Taken(fs[i])
  BY <1>2, AddsFacts
<1>8. Live(r.blocks) <=> LiveBelow(fs, d + 1)
  BY SameLive DEF Agree
<1>9. \/ GivesUp(fs, k) \/ GetsLost(fs, k) \/ OpensInner(fs, k, n) \/ ReadsThen(fs, k)
      \/ ReadsElse(fs, k) \/ ClosesInner(fs, k) \/ ClosesOuter(fs, k) \/ ReadsCommand(fs, k, n)
  BY <1>1, IfLoopCases
<1>10. /\ \A b : WithBlocks(r, b).blocks = b /\ WithBlocks(r, b).ran = r.ran
       /\ \A q : WithRan(r, q).blocks = r.blocks /\ WithRan(r, q).ran = q
       /\ \A b, q : WithBlocks(WithRan(r, q), b).blocks = b /\ WithBlocks(WithRan(r, q), b).ran = q
  BY DEF Readings, WithBlocks, WithRan
<1> HIDE DEF d, r2, state
<1>11. ~GivesUp(fs, k) /\ ~GetsLost(fs, k)
  <2>1. ~Misplaced(state, k)
    BY <1>1, <1>5, <1>6 DEF Misplaced, Read, IfLines, IfStates
  <2>2. k \notin {"blank", "if"}
    BY <1>6 DEF Read, IfLines
  <2> QED
    BY <2>1, <2>2 DEF GivesUp, GetsLost, d, state
<1>12. CASE OpensInner(fs, k, n)
  <2> DEFINE f == Frame("IF_BLOCK", k, n)  gs == Append(fs, f)
  <2>1. /\ k \in IfLines /\ state \in OpenStates /\ at' = "block" /\ frames' = gs
        /\ complained' = complained
    BY <1>12 DEF OpensInner, d, state
  <2>2. /\ gs \in Seq(Frames(n)) /\ Len(gs) = d + 1 /\ gs[d + 1] = f /\ Nested(gs)
        /\ \A i \in 1..d : gs[i] = fs[i]
    BY <2>1, InnerIf DEF d, state
  <2>3. f.state = "IF_BLOCK" /\ f.cond = k /\ Exec(f) = <<n>>
    <3>1. f.state = "IF_BLOCK" /\ f.cond = k /\ f.line = n /\ f.then = <<>> /\ f.else = <<>>
      BY DEF Frame
    <3>2. <<n>> \o <<>> = <<n>>
      OBVIOUS
    <3> HIDE DEF f
    <3> QED
      BY <2>1, <3>1, <3>2, ExecIs DEF IfLines
  <2>4. r2 = WithBlocks(WithRan(r, Runs(r, n)), Append(r.blocks, Entered(k)))
    BY <1>5, <2>1, ReadAsCases DEF OpenStates, r2
  <2>5. r2.blocks = Append(r.blocks, Entered(k)) /\ r2.ran = Runs(r, n)
    BY <1>10, <2>4
  <2> HIDE DEF f, gs
  <2>6. SameBlocks(gs, r2)
    <3>1. Entered(k) \in OpenBlock
      BY DEF Entered, OpenBlock
    <3>2. /\ Len(r2.blocks) = d + 1 /\ r2.blocks[d + 1] = Entered(k)
          /\ \A i \in 1..d : r2.blocks[i] = r.blocks[i]
      BY <1>3, <2>5, <3>1, AppendProperties
    <3>3. Matches(f, Entered(k))
      BY <2>1, <2>3 DEF Matches, Entered, IfLines
    <3>4. Len(gs) \in Nat \ {0} /\ Len(gs) - 1 = d /\ Len(gs) - 1 <= Len(fs)
      BY <1>1, <2>2 DEF d
    <3>5. SameBlocks(fs, r)
      BY DEF Agree
    <3> QED
      BY <1>1, <2>2, <3>2, <3>3, <3>4, <3>5, SameOn DEF d
  <2>7. \E h : Adds(gs, IF LiveBelow(fs, Len(gs)) THEN g[Len(gs) - 1] \o Exec(gs[Len(gs)])
                                               ELSE g[Len(gs) - 1], h)
    <3>1. gs # <<>> /\ Len(gs) - 1 = d /\ Len(gs) - 1 <= Len(fs)
      BY <1>1, <2>2, EmptySeq DEF d
    <3> QED
      BY <1>2, <2>2, <3>1, AddsOn DEF d
  <2>8. (IF LiveBelow(fs, Len(gs)) THEN g[Len(gs) - 1] \o Exec(gs[Len(gs)]) ELSE g[Len(gs) - 1]) = r2.ran
    <3>1. Len(gs) - 1 = d /\ g[d] = r.ran /\ Exec(gs[Len(gs)]) = <<n>>
      BY <1>1, <1>7, <2>2, <2>3 DEF d
    <3>2. Append(r.ran, n) = r.ran \o <<n>>
      BY ReadingType, AppendIsConcat
    <3> QED
      BY <1>8, <2>2, <2>5, <3>1, <3>2 DEF Runs
  <2> QED
    BY <2>1, <2>6, <2>7, <2>8 DEF Agree, gs, r2
<1>13. ASSUME NEW p \in OpenStates, NEW q \in {"then", "else"}, p = "THEN_BLOCK" <=> q = "then",
              r2 = WithBlocks(r, InPhase(r, q))
       PROVE  Agree(SetTop(fs, p), r2)
  <2> DEFINE gs == SetTop(fs, p)  b == r.blocks[d]
  <2>1. /\ gs \in Seq(Frames(n)) /\ Len(gs) = d /\ gs[d] = [fs[d] EXCEPT !.state = p]
        /\ \A i \in 1..(d - 1) : gs[i] = fs[i]
    BY <1>13, SetTopType DEF d
  <2>2. [b EXCEPT !.phase = q] \in OpenBlock /\ [b EXCEPT !.phase = q].phase = q /\ [b EXCEPT !.phase = q].yes = b.yes
    BY <1>3, <1>13 DEF OpenBlock
  <2>3. InPhase(r, q) = [r.blocks EXCEPT ![d] = [b EXCEPT !.phase = q]]
    BY <1>3 DEF InPhase
  <2>4. /\ Len(InPhase(r, q)) = d /\ InPhase(r, q)[d] = [b EXCEPT !.phase = q]
        /\ \A i \in 1..(d - 1) : InPhase(r, q)[i] = r.blocks[i]
    <3>1. d \in 1..Len(r.blocks)
      BY <1>1, <1>3
    <3> HIDE DEF b
    <3> QED
      BY <1>1, <1>3, <2>2, <2>3, <3>1, ExceptSeq
  <2>5. r2.blocks = InPhase(r, q) /\ r2.ran = r.ran
    BY <1>10, <1>13
  <2>6. /\ gs[d].state = p /\ gs[d].cond = fs[d].cond /\ gs[d].line = fs[d].line
        /\ gs[d].then = fs[d].then /\ gs[d].else = fs[d].else
    BY <1>1, <2>1 DEF Frames
  <2> HIDE DEF gs
  <2>7. SameBlocks(gs, r2)
    <3>1. Matches(fs[d], b)
      BY <1>1, <1>3
    <3>2. Matches(gs[d], [b EXCEPT !.phase = q])
      BY <1>13, <2>2, <2>6, <3>1 DEF Matches, OpenStates
    <3>3. SameBlocks(fs, r)
      BY DEF Agree
    <3>4. Len(gs) \in Nat \ {0} /\ Len(gs) - 1 <= Len(fs) /\ Len(fs) \in Nat
      BY <1>1, <2>1 DEF d
    <3> QED
      BY <2>1, <2>4, <2>5, <3>2, <3>3, <3>4, SameOn
  <2>8. Exec(gs[d]) = Exec(fs[d])
    BY <1>1, <2>6, ExecIs DEF IfLines
  <2>9. \E h : Adds(gs, IF LiveBelow(fs, Len(gs)) THEN g[Len(gs) - 1] \o Exec(gs[Len(gs)])
                                               ELSE g[Len(gs) - 1], h)
    <3>1. gs # <<>> /\ Len(gs) - 1 <= Len(fs)
      BY <1>1, <2>1, EmptySeq DEF d
    <3> QED
      BY <1>2, <2>1, <3>1, AddsOn
  <2>10. (IF LiveBelow(fs, Len(gs)) THEN g[Len(gs) - 1] \o Exec(gs[Len(gs)]) ELSE g[Len(gs) - 1]) = r2.ran
    BY <1>1, <1>7, <2>1, <2>5, <2>8 DEF d
  <2> QED
    BY <2>7, <2>9, <2>10 DEF Agree, gs
<1>14. CASE ReadsThen(fs, k)
  <2>1. /\ state = "IF_BLOCK" /\ k = "then" /\ complained' = complained
        /\ at' = "block" /\ frames' = SetTop(fs, "THEN_BLOCK")
    BY <1>14 DEF ReadsThen, state, d
  <2>2. r2 = WithBlocks(r, InPhase(r, "then"))
    BY <1>5, <2>1, ReadAsCases DEF r2
  <2> QED
    BY <1>13, <2>1, <2>2 DEF OpenStates, r2
<1>15. CASE ReadsElse(fs, k)
  <2>1. /\ state = "THEN_BLOCK" /\ k = "else" /\ complained' = complained
        /\ at' = "block" /\ frames' = SetTop(fs, "ELSE_BLOCK")
    BY <1>15 DEF ReadsElse, state, d
  <2>2. r2 = WithBlocks(r, InPhase(r, "else"))
    BY <1>5, <2>1, ReadAsCases DEF r2
  <2> QED
    BY <1>13, <2>1, <2>2 DEF OpenStates, r2
<1>16. CASE ReadsCommand(fs, k, n)
  <2> DEFINE gs == PushOnTop(fs, <<n>>)
  <2>1. /\ state \in OpenStates /\ complained' = complained /\ at' = "block" /\ frames' = gs
        /\ k \in {"command", "while", "do", "done"} \cup WhileLines
    BY <1>16 DEF ReadsCommand, state, d
  <2>2. <<n>> \in Seq(1..n)
    BY OneElement
  <2> DEFINE l == <<n>>
  <2>3. /\ gs \in Seq(Frames(n)) /\ Len(gs) = d /\ gs[d] = Push(fs[d], <<n>>)
        /\ \A i \in 1..(d - 1) : gs[i] = fs[i]
    BY <1>1, <2>1, <2>2, PushOnTopType DEF d, state, OpenStates
  <2>4. k = "command" /\ Phase(r) # "cond"
    BY <1>5, <1>6, <2>1 DEF Read, IfLines, WhileLines, OpenStates
  <2>5. r2 = WithRan(r, Runs(r, n))
    BY <2>4, ReadAsCases DEF r2
  <2>6. r2.blocks = r.blocks /\ r2.ran = Runs(r, n)
    BY <1>10, <2>5
  <2>7. /\ n \in Nat /\ fs[d] \in Frames(n) /\ fs[d].cond \in IfLines
        /\ fs[d].state \in OpenStates /\ fs[d].state \in {"THEN_BLOCK", "ELSE_BLOCK", "DO_BLOCK"}
    BY <1>1, <2>1 DEF OpenStates, state
  <2> HIDE DEF l, gs
  <2>11. gs[d].state = fs[d].state /\ gs[d].cond = fs[d].cond
    <3>1. gs[d] = Push(fs[d], l) /\ l \in Seq(1..n)
      BY <2>2, <2>3 DEF l
    <3> QED
      BY <2>7, <3>1, PushType
  <2>8. SameBlocks(gs, r2)
    <3>1. Matches(gs[d], r2.blocks[d])
      <4>1. d \in 1..d
        BY <1>1
      <4>2. Matches(fs[d], r.blocks[d])
        BY <1>3, <4>1
      <4> QED
        BY <2>6, <2>11, <4>2 DEF Matches
    <3>2. SameBlocks(fs, r)
      BY DEF Agree
    <3>3. Len(gs) \in Nat \ {0} /\ Len(gs) - 1 <= Len(fs) /\ Len(fs) \in Nat
      BY <1>1, <2>3 DEF d
    <3>4. /\ \A i \in 1..(Len(gs) - 1) : gs[i] = fs[i] /\ r2.blocks[i] = r.blocks[i]
          /\ Len(r2.blocks) = Len(gs) /\ Matches(gs[Len(gs)], r2.blocks[Len(gs)])
      BY <1>3, <2>3, <2>6, <3>1
    <3> QED
      BY <3>2, <3>3, <3>4, SameOn
  <2>9. \E h : Adds(gs, IF LiveBelow(fs, Len(gs)) THEN g[Len(gs) - 1] \o Exec(gs[Len(gs)])
                                               ELSE g[Len(gs) - 1], h)
    <3>1. gs # <<>> /\ Len(gs) - 1 <= Len(fs)
      BY <1>1, <2>3, EmptySeq DEF d
    <3> QED
      BY <1>2, <2>3, <3>1, AddsOn
  <2>10. (IF LiveBelow(fs, Len(gs)) THEN g[Len(gs) - 1] \o Exec(gs[Len(gs)]) ELSE g[Len(gs) - 1]) = r2.ran
    <3>1. /\ Taken(fs[d]) => Exec(gs[d]) = Exec(fs[d]) \o <<n>>
          /\ ~Taken(fs[d]) => Exec(gs[d]) = Exec(fs[d])
      <4>1. gs[d] = Push(fs[d], l) /\ l \in Seq(1..n)
        BY <2>2, <2>3 DEF l
      <4>2. /\ Taken(fs[d]) => Exec(gs[d]) = Exec(fs[d]) \o l
            /\ ~Taken(fs[d]) => Exec(gs[d]) = Exec(fs[d])
        BY <2>7, <4>1, ExecPush
      <4> QED
        BY <4>2 DEF l
    <3>2. Append(r.ran, n) = r.ran \o <<n>>
      BY ReadingType, AppendIsConcat
    <3>3. /\ g[d] = r.ran /\ g[d - 1] \in Seq(Nat) /\ Exec(fs[d]) \in Seq(Nat) /\ <<n>> \in Seq(Nat)
          /\ LiveBelow(fs, d) => g[d] = g[d - 1] \o Exec(fs[d])
          /\ ~LiveBelow(fs, d) => g[d] = g[d - 1]
          /\ LiveBelow(fs, d + 1) <=> LiveBelow(fs, d) /\ Taken(fs[d])
      BY <1>1, <1>7, OneElement DEF d
    <3>4. (g[d - 1] \o Exec(fs[d])) \o <<n>> = g[d - 1] \o (Exec(fs[d]) \o <<n>>)
      BY <3>3, NumbersConcat
    <3>5. r2.ran = IF LiveBelow(fs, d + 1) THEN g[d] \o <<n>> ELSE g[d]
      BY <1>8, <2>6, <3>2, <3>3 DEF Runs
    <3>6. CASE LiveBelow(fs, d) /\ Taken(fs[d])
      BY <2>3, <3>1, <3>3, <3>4, <3>5, <3>6
    <3>7. CASE LiveBelow(fs, d) /\ ~Taken(fs[d])
      BY <2>3, <3>1, <3>3, <3>5, <3>7
    <3>8. CASE ~LiveBelow(fs, d)
      BY <2>3, <3>3, <3>5, <3>8
    <3> QED
      BY <3>6, <3>7, <3>8
  <2> QED
    BY <2>1, <2>8, <2>9, <2>10 DEF Agree, gs, r2
<1>17. CASE ClosesOuter(fs, k)
  <2>1. /\ state \in OpenStates /\ k = "fi" /\ complained' = complained
        /\ d = 1 /\ at' = "swallow" /\ frames' = fs
    BY <1>17 DEF ClosesOuter, state, d
  <2>2. r2 = WithBlocks(r, Front(r.blocks))
    BY <1>5, <2>1, ReadAsCases DEF OpenStates, r2
  <2>3. r2.blocks = <<>> /\ r2.ran = r.ran
    <3>1. Len(Front(r.blocks)) = 0 /\ Front(r.blocks) \in Seq(OpenBlock)
      BY <1>3, <2>1, FrontLast
    <3>2. Front(r.blocks) = <<>>
      BY <3>1, EmptySeq
    <3> QED
      BY <1>10, <2>2, <3>2
  <2>4. r.ran = Exec(fs[1])
    <3>1. LiveBelow(fs, 1)
      BY DEF LiveBelow
    <3>2. g[1] = g[0] \o Exec(fs[1]) /\ g[0] = <<>> /\ g[1] = r.ran /\ Exec(fs[1]) \in Seq(Nat)
      <4>1. 1 \in 1..Len(fs) /\ 1 - 1 = 0 /\ Len(fs) = 1
        BY <2>1 DEF d
      <4> QED
        BY <1>7, <3>1, <4>1
    <3> QED
      BY <3>2, ConcatEmptySeq
  <2> QED
    BY <2>1, <2>3, <2>4 DEF r2
<1>18. CASE ClosesInner(fs, k)
  <2> DEFINE gs == Fold(fs)  m == d - 1  l == Exec(fs[d])
  <2>1. /\ state \in OpenStates /\ k = "fi" /\ complained' = complained
        /\ d > 1 /\ at' = "block" /\ frames' = gs
    BY <1>18 DEF ClosesInner, state, d
  <2>2. /\ m \in Nat \ {0} /\ m + 1 = d /\ m \in 1..d /\ d \in 1..d /\ d - 2 = m - 1
        /\ d # 1 /\ n \in Nat
    BY <1>1, <2>1
  <2>3. /\ gs \in Seq(Frames(n)) /\ Len(gs) = m /\ gs[m] = Push(fs[m], l)
        /\ \A i \in 1..(m - 1) : gs[i] = fs[i]
        /\ gs[m].state = fs[m].state
    <3>1. Len(fs) # 1
      BY <2>2 DEF d
    <3>2. /\ Fold(fs) \in Seq(Frames(n)) /\ Len(Fold(fs)) = Len(fs) - 1
          /\ Fold(fs)[Len(fs) - 1] = Push(fs[Len(fs) - 1], Exec(fs[Len(fs)]))
          /\ \A i \in 1..(Len(fs) - 2) : Fold(fs)[i] = fs[i]
          /\ Fold(fs)[Len(fs) - 1].state = fs[Len(fs) - 1].state
      BY <2>2, <3>1, FoldType
    <3>3. /\ gs \in Seq(Frames(n)) /\ Len(gs) = m /\ gs[m] = Push(fs[m], l)
          /\ gs[m].state = fs[m].state
      BY <3>2 DEF d
    <3>4. \A i \in 1..(m - 1) : i \in 1..(Len(fs) - 2)
      BY <2>2 DEF d
    <3> QED
      BY <3>2, <3>3, <3>4
  <2>4. l \in Seq(1..n) /\ l \in Seq(Nat)
    BY <1>1, <2>2, ExecType, ExecNat
  <2>5. fs[m] \in Frames(n) /\ fs[m].state \in OpenStates /\ fs[m].cond \in IfLines
    BY <2>2, ElementOfSeq DEF Nested, d
  <2> HIDE DEF gs, m, l
  <2>6. gs[m].cond = fs[m].cond
    BY <2>2, <2>3, <2>4, <2>5, PushType DEF OpenStates
  <2>7. r2 = WithBlocks(r, Front(r.blocks))
    BY <1>5, <2>1, ReadAsCases DEF OpenStates, r2
  <2>8. /\ r2.blocks = Front(r.blocks) /\ r2.ran = r.ran /\ Len(r2.blocks) = m
        /\ \A i \in 1..m : r2.blocks[i] = r.blocks[i]
    <3>1. Len(r.blocks) - 1 = m
      BY <1>3, <2>2 DEF m
    <3>2. Len(Front(r.blocks)) = m /\ \A i \in 1..m : Front(r.blocks)[i] = r.blocks[i]
      BY <1>3, <3>1, FrontLast
    <3> QED
      BY <1>10, <2>7, <3>2
  <2>9. SameBlocks(gs, r2)
    <3>1. Matches(fs[m], r.blocks[m]) /\ r2.blocks[m] = r.blocks[m]
      <4>1. m \in 1..m
        BY <2>2
      <4> QED
        BY <1>3, <2>2, <2>8, <4>1
    <3>2. Matches(gs[m], r2.blocks[m])
      BY <2>3, <2>6, <3>1 DEF Matches
    <3>3. SameBlocks(fs, r)
      BY DEF Agree
    <3>4. Len(gs) \in Nat \ {0} /\ Len(gs) - 1 <= Len(fs) /\ Len(fs) \in Nat
      BY <1>1, <2>2, <2>3 DEF d
    <3>5. \A i \in 1..(m - 1) : i \in 1..m
      BY <2>2
    <3>6. /\ \A i \in 1..(Len(gs) - 1) : gs[i] = fs[i] /\ r2.blocks[i] = r.blocks[i]
          /\ Len(r2.blocks) = Len(gs) /\ Matches(gs[Len(gs)], r2.blocks[Len(gs)])
      BY <2>3, <2>8, <3>2, <3>5
    <3> QED
      BY <3>3, <3>4, <3>6, SameOn
  <2>10. \E h : Adds(gs, IF LiveBelow(fs, Len(gs)) THEN g[Len(gs) - 1] \o Exec(gs[Len(gs)])
                                                ELSE g[Len(gs) - 1], h)
    <3>1. gs # <<>> /\ Len(gs) - 1 <= Len(fs)
      BY <1>1, <2>2, <2>3, EmptySeq DEF d
    <3>2. \A i \in 1..(Len(gs) - 1) : gs[i] = fs[i]
      BY <2>3
    <3> QED
      BY <1>2, <2>2, <2>3, <3>1, <3>2, AddsOn
  <2>11. (IF LiveBelow(fs, Len(gs)) THEN g[Len(gs) - 1] \o Exec(gs[Len(gs)]) ELSE g[Len(gs) - 1]) = r2.ran
    <3>1. /\ Taken(fs[m]) => Exec(gs[m]) = Exec(fs[m]) \o l
          /\ ~Taken(fs[m]) => Exec(gs[m]) = Exec(fs[m])
      BY <2>2, <2>3, <2>4, <2>5, ExecPush
    <3>2. /\ g[m - 1] \in Seq(Nat) /\ Exec(fs[m]) \in Seq(Nat)
          /\ LiveBelow(fs, m) => g[m] = g[m - 1] \o Exec(fs[m])
          /\ ~LiveBelow(fs, m) => g[m] = g[m - 1]
          /\ LiveBelow(fs, d) <=> LiveBelow(fs, m) /\ Taken(fs[m])
      <4>1. m \in 1..Len(fs) /\ m + 1 = d
        BY <2>2 DEF d
      <4>2. /\ m - 1 \in 0..Len(fs) /\ Exec(fs[m]) \in Seq(Nat)
            /\ LiveBelow(fs, m) => g[m] = g[m - 1] \o Exec(fs[m])
            /\ ~LiveBelow(fs, m) => g[m] = g[m - 1]
            /\ LiveBelow(fs, m + 1) <=> LiveBelow(fs, m) /\ Taken(fs[m])
        BY <1>7, <4>1
      <4> QED
        BY <1>7, <4>1, <4>2
    <3>3. /\ LiveBelow(fs, d) => g[d] = g[m] \o l
          /\ ~LiveBelow(fs, d) => g[d] = g[m]
          /\ g[d] = r.ran
      <4>1. Len(fs) = d /\ d - 1 = m /\ d \in 1..d
        BY <2>2 DEF d, m
      <4>2. g[d] = r.ran /\ (LiveBelow(fs, d) => g[d] = g[d - 1] \o Exec(fs[d]))
            /\ (~LiveBelow(fs, d) => g[d] = g[d - 1])
        BY <1>7, <4>1
      <4> QED
        BY <4>1, <4>2 DEF l
    <3>4. (g[m - 1] \o Exec(fs[m])) \o l = g[m - 1] \o (Exec(fs[m]) \o l)
      BY <2>4, <3>2, NumbersConcat
    <3>5. CASE LiveBelow(fs, m) /\ Taken(fs[m])
      BY <2>3, <2>8, <3>1, <3>2, <3>3, <3>4, <3>5
    <3>6. CASE LiveBelow(fs, m) /\ ~Taken(fs[m])
      BY <2>3, <2>8, <3>1, <3>2, <3>3, <3>6
    <3>7. CASE ~LiveBelow(fs, m)
      BY <2>3, <2>8, <3>2, <3>3, <3>7
    <3> QED
      BY <3>5, <3>6, <3>7
  <2> QED
    BY <2>1, <2>9, <2>10, <2>11 DEF Agree, gs, r2
<1> QED
  BY <1>9, <1>11, <1>12, <1>14, <1>15, <1>16, <1>17, <1>18

\* An "if" that the reader has accepted so far: the shell does not complain, is in
\* the same parts of the same blocks, and executes what the reader has made of it.
IfInv ==
  script # <<>> /\ script[1] \in IfLines /\ reading.ok =>
    /\ complained = FALSE /\ at \notin {"return", "unwind", "hung"}
    /\ at = "block" => Agree(frames, reading)
    /\ at = "swallow" => reading.blocks = <<>> /\ Exec(frames[1]) = reading.ran
    /\ at \in {"prompt", "dead", "end"} => ran = reading.ran

LEMMA AcceptedBefore ==
  ASSUME NEW n \in Nat, NEW r \in Readings(n), NEW k, NEW i, ReadAs(r, k, i).ok
  PROVE  r.ok = TRUE
<1>1. r.ok \in BOOLEAN
  BY ReadingType
<1>2. /\ \A b : WithBlocks(r, b).ok = r.ok
      /\ \A q : WithRan(r, q).ok = r.ok
      /\ \A b, q : WithBlocks(WithRan(r, q), b).ok = r.ok
      /\ Refused(r).ok = FALSE
  BY DEF Readings, WithBlocks, WithRan, Refused
<1>3. ReadAs(r, k, i).ok = r.ok \/ ReadAs(r, k, i).ok = FALSE
  <2>1. \/ \E b : ReadAs(r, k, i) = WithBlocks(r, b)
        \/ \E q : ReadAs(r, k, i) = WithRan(r, q)
        \/ \E b, q : ReadAs(r, k, i) = WithBlocks(WithRan(r, q), b)
        \/ ReadAs(r, k, i) = Refused(r)
    BY ReadAsCases, Zenon DEF Read
  <2> QED
    BY <1>2, <2>1, Zenon
<1> QED
  BY <1>1, <1>3, Zenon

LEMMA IfInvFirst == ASSUME BlockInv, NEW k \in Words, FirstLine(k) PROVE IfInv'
<1> SUFFICES ASSUME script'[1] \in IfLines PROVE IfInv'
  BY DEF IfInv
<1>1. k \in IfLines
  BY OneElement DEF FirstLine
<1>2. frames' = <<Frame("IF_BLOCK", k, 1)>> /\ at' = "block" /\ reading' = ReadAs(Nothing, k, 1)
  BY <1>1 DEF FirstLine, IfLines, WhileLines
<1>3. complained' = FALSE
  <2>1. k # "if" /\ k # "while" /\ complained' = (k = "if" \/ (k = "while" /\ shell = "9.10"))
    BY <1>1 DEF FirstLine, IfLines
  <2> QED
    BY <2>1, Zenon
<1>4. Agree(frames', reading')
  BY <1>1, <1>2, FirstAgrees
<1> QED
  BY <1>2, <1>3, <1>4 DEF IfInv

LEMMA IfInvNext == ASSUME BlockInv, IfInv, NEW k \in Words, NextLine(k) PROVE IfInv'
<1> DEFINE n == Len(script) + 1
<1> SUFFICES ASSUME script'[1] \in IfLines, reading'.ok PROVE IfInv'
  BY DEF IfInv
<1>1. /\ at = "block" /\ frames # <<>> /\ script # <<>> /\ n <= MaxLines /\ complained \in BOOLEAN
      /\ script' = Append(script, k) /\ reading' = ReadAs(reading, k, n)
      /\ IF IsWhile(frames[1]) THEN WhileLoop(frames[1], k, n) ELSE IfLoop(frames, k, n)
      /\ IF IsWhile(frames[1]) THEN Len(frames) = 1 /\ script[1] \in WhileLines
                               ELSE Nested(frames) /\ script[1] \in IfLines
      /\ reading \in Readings(Len(script))
  BY DEF NextLine, BlockInv, BlockTypeOK, Shape, InBlock
<1>2. /\ Len(script) \in Nat /\ n \in Nat \ {0} /\ script'[1] = script[1]
      /\ frames \in Seq(Frames(n)) /\ reading \in Readings(n)
  <2>1. Len(script) + 1 <= MaxLines
    BY <1>1
  <2> QED
    BY <1>1, <2>1, NextScript, MoreLines
<1>3. Nested(frames) /\ IfLoop(frames, k, n) /\ script[1] \in IfLines
  BY <1>1, <1>2 DEF IfLines, WhileLines
<1>4. reading.ok = TRUE
  BY <1>1, <1>2, AcceptedBefore
<1>5. complained = FALSE /\ Agree(frames, reading)
  BY <1>1, <1>3, <1>4 DEF IfInv
<1> HIDE DEF n
<1>6. /\ complained' = complained
      /\ \/ at' = "block" /\ Agree(frames', ReadAs(reading, k, n))
         \/ /\ at' = "swallow" /\ ReadAs(reading, k, n).blocks = <<>>
            /\ Exec(frames'[1]) = ReadAs(reading, k, n).ran
  BY <1>1, <1>2, <1>3, <1>5, IfLoopReads
<1> QED
  BY <1>1, <1>5, <1>6 DEF IfInv

LEMMA IfInvReturns ==
  ASSUME BlockInv, IfInv, Return \/ Unwind \/ (\E eof \in BOOLEAN : LineAfterFi(eof))
  PROVE  IfInv'
<1>1. at \in {"return", "unwind", "swallow"} /\ UNCHANGED <<script, reading>>
  BY DEF Return, Unwind, LineAfterFi
<1> SUFFICES ASSUME script # <<>>, script[1] \in IfLines, reading.ok PROVE IfInv'
  BY <1>1 DEF IfInv
<1>2. at = "swallow" /\ complained = FALSE /\ Exec(frames[1]) = reading.ran
  BY <1>1 DEF IfInv
<1>3. PICK eof \in BOOLEAN : LineAfterFi(eof)
  BY <1>2 DEF Return, Unwind
<1>4. ran' = reading.ran /\ at' \in {"prompt", "dead", "end"} /\ complained' = complained
  BY <1>2, <1>3 DEF LineAfterFi, Execute
<1> QED
  BY <1>1, <1>2, <1>4 DEF IfInv

LEMMA IfInvEnd == ASSUME IfInv, EndOfInput PROVE IfInv'
BY DEF IfInv, EndOfInput

LEMMA IfInvStep == BlockInv /\ IfInv /\ [BlockNext]_blockVars => IfInv'
<1> SUFFICES ASSUME BlockInv, IfInv, [BlockNext]_blockVars PROVE IfInv'
  OBVIOUS
<1>1. CASE UNCHANGED blockVars
  BY <1>1 DEF blockVars, IfInv
<1>2. CASE BlockNext
  BY <1>2, IfInvFirst, IfInvNext, IfInvReturns, IfInvEnd DEF BlockNext
<1> QED
  BY <1>1, <1>2

-----------------------------------------------------------------------------
(* The "while" of 9.10: what has been read of it, as long as its lines are
   commands.                                                                 *)

Upto(m) == [i \in 1..m |-> i + 2]

Prefix(s) == Len(s) >= 2 /\ s[2] = "do" /\ \A i \in 3..Len(s) : s[i] = "command"

ReadSoFar(f) ==
  /\ f.cond = script[1] /\ f.line = 1
  /\ \A i \in 1..Len(script) : script[i] # "done"
  /\ Len(script) = 1 => f.state = "WHILE_BLOCK" /\ f.then = <<>> /\ complained = FALSE
  /\ Prefix(script) => f.state = "DO_BLOCK" /\ f.then = Upto(Len(script) - 2) /\ complained = FALSE

WhileInv ==
  shell = "9.10" /\ script # <<>> /\ script[1] \in WhileLines =>
    IF at = "block" THEN ReadSoFar(frames[1])
    ELSE CompleteWhile(script) => complained = FALSE /\ at \in {"prompt", "end"} /\ ran = ReadWhile(script)

LEMMA UptoNext ==
  ASSUME NEW m \in Nat
  PROVE  /\ Upto(m) \in Seq(Nat) /\ Len(Upto(m)) = m /\ Upto(0) = <<>>
         /\ Upto(m) \o <<m + 3>> = Upto(m + 1)
<1>1. ASSUME NEW j \in Nat PROVE Upto(j) \in Seq(Nat) /\ Len(Upto(j)) = j
  BY DEF Upto
<1>2. Upto(0) = <<>>
  BY <1>1, EmptySeq
<1>3. Upto(m) \o <<m + 3>> = Upto(m + 1)
  <2> DEFINE s == Upto(m) \o <<m + 3>>  t == Upto(m + 1)
  <2>1. /\ <<m + 3>> \in Seq(Nat) /\ Len(<<m + 3>>) = 1 /\ <<m + 3>>[1] = m + 3
    BY OneElement
  <2>2. /\ s \in Seq(Nat) /\ Len(s) = m + 1
        /\ \A i \in 1..(m + 1) : s[i] = IF i <= m THEN Upto(m)[i] ELSE <<m + 3>>[i - m]
    <3> DEFINE u == Upto(m)  v == <<m + 3>>
    <3>1. u \in Seq(Nat) /\ v \in Seq(Nat) /\ Len(u) = m /\ Len(v) = 1
      BY <1>1, <2>1
    <3> HIDE DEF u, v
    <3>2. /\ u \o v \in Seq(Nat) /\ Len(u \o v) = Len(u) + Len(v)
          /\ \A i \in 1..(Len(u) + Len(v)) : (u \o v)[i] = IF i <= Len(u) THEN u[i] ELSE v[i - Len(u)]
      BY <3>1, ConcatProperties
    <3>3. /\ u \o v \in Seq(Nat) /\ Len(u \o v) = m + 1
          /\ \A i \in 1..(m + 1) : (u \o v)[i] = IF i <= m THEN u[i] ELSE v[i - m]
      BY <3>1, <3>2
    <3> QED
      BY <3>3 DEF u, v
  <2>3. t \in Seq(Nat) /\ Len(t) = m + 1
    BY <1>1
  <2>4. ASSUME NEW i \in 1..(m + 1) PROVE s[i] = t[i]
    <3>1. t[i] = i + 2
      BY DEF Upto
    <3>2. CASE i <= m
      <4>1. Upto(m)[i] = i + 2
        BY <3>2 DEF Upto
      <4> QED
        BY <2>2, <3>1, <3>2, <4>1
    <3>3. CASE ~(i <= m)
      <4>1. i = m + 1 /\ i - m = 1
        BY <3>3
      <4> QED
        BY <2>1, <2>2, <3>1, <3>3, <4>1
    <3> QED
      BY <3>2, <3>3
  <2> HIDE DEF s, t
  <2>5. \A i \in 1..Len(s) : s[i] = t[i]
    BY <2>2, <2>4
  <2>6. s = t
    BY <2>2, <2>3, <2>5, SeqEqual
  <2> QED
    BY <2>6 DEF s, t
<1> QED
  BY <1>1, <1>2, <1>3

LEMMA WhileInvFirst == ASSUME BlockInv, NEW k \in Words, FirstLine(k) PROVE WhileInv'
<1> SUFFICES ASSUME shell' = "9.10", script'[1] \in WhileLines PROVE WhileInv'
  BY DEF WhileInv
<1>1. k \in WhileLines /\ script' = <<k>> /\ Len(script') = 1 /\ script'[1] = k /\ shell = "9.10"
  BY OneElement DEF FirstLine
<1>2. frames' = <<Frame("WHILE_BLOCK", k, 1)>> /\ at' = "block"
  BY <1>1 DEF FirstLine, IfLines, WhileLines
<1>3. complained' = FALSE
  <2>1. k # "if" /\ k # "while" /\ complained' = (k = "if" \/ (k = "while" /\ shell = "9.10"))
    BY <1>1 DEF FirstLine, WhileLines
  <2> QED
    BY <2>1, Zenon
<1>4. /\ frames'[1].state = "WHILE_BLOCK" /\ frames'[1].cond = k /\ frames'[1].line = 1
      /\ frames'[1].then = <<>>
  <2>1. frames'[1] = Frame("WHILE_BLOCK", k, 1)
    BY <1>2
  <2> QED
    BY <2>1 DEF Frame
<1>5. ~Prefix(script')
  BY <1>1 DEF Prefix
<1>6. \A i \in 1..Len(script') : script'[i] # "done"
  <2>1. \A i \in 1..1 : i = 1
    OBVIOUS
  <2> QED
    BY <1>1, <2>1 DEF WhileLines
<1>7. ReadSoFar(frames[1])'
  BY <1>1, <1>3, <1>4, <1>5, <1>6 DEF ReadSoFar
<1> QED
  BY <1>2, <1>7 DEF WhileInv

\* What is read of a line is what is read of the lines before it, and of that line.
LEMMA PrefixNext ==
  ASSUME NEW m \in Nat \ {0}, Len(script) = m, Len(script') = m + 1, NEW k,
         \A i \in 1..m : script'[i] = script[i], script'[m + 1] = k
  PROVE  /\ Prefix(script') => (m = 1 /\ k = "do") \/ (m >= 2 /\ Prefix(script) /\ k = "command")
         /\ CompleteWhile(script') => Prefix(script) /\ k = "done"
<1>1. ASSUME Prefix(script')
      PROVE  (m = 1 /\ k = "do") \/ (m >= 2 /\ Prefix(script) /\ k = "command")
  <2>1. script'[2] = "do" /\ \A i \in 3..(m + 1) : script'[i] = "command"
    BY <1>1 DEF Prefix
  <2>2. CASE m = 1
    <3>1. m + 1 = 2
      BY <2>2
    <3>2. script'[2] = k
      BY <3>1
    <3> QED
      BY <2>1, <2>2, <3>2
  <2>3. CASE m >= 2
    <3>1. m + 1 \in 3..(m + 1) /\ 2 \in 1..m /\ \A i \in 3..m : i \in 3..(m + 1) /\ i \in 1..m
      BY <2>3
    <3> QED
      BY <2>1, <2>3, <3>1 DEF Prefix
  <2> QED
    BY <2>2, <2>3
<1>2. ASSUME CompleteWhile(script') PROVE Prefix(script) /\ k = "done"
  <2>1. /\ m + 1 >= 3 /\ script'[2] = "do" /\ script'[m + 1] = "done"
        /\ \A i \in 3..(m + 1 - 1) : script'[i] = "command"
    BY <1>2 DEF CompleteWhile
  <2>2. m >= 2 /\ 2 \in 1..m /\ \A i \in 3..m : i \in 3..(m + 1 - 1) /\ i \in 1..m
    BY <2>1
  <2> QED
    BY <2>1, <2>2 DEF Prefix
<1> QED
  BY <1>1, <1>2

LEMMA WhileInvNext == ASSUME BlockInv, WhileInv, NEW k \in Words, NextLine(k) PROVE WhileInv'
<1> DEFINE m == Len(script)  f == frames[1]
<1> SUFFICES ASSUME shell' = "9.10", script'[1] \in WhileLines PROVE WhileInv'
  BY DEF WhileInv
<1>1. /\ at = "block" /\ frames # <<>> /\ script # <<>> /\ m + 1 <= MaxLines /\ complained \in BOOLEAN
      /\ script' = Append(script, k) /\ reading' = ReadAs(reading, k, m + 1) /\ shell = "9.10"
      /\ IF IsWhile(f) THEN WhileLoop(f, k, m + 1) ELSE IfLoop(frames, k, m + 1)
      /\ IF IsWhile(f) THEN Len(frames) = 1 /\ script[1] \in WhileLines
                      ELSE Nested(frames) /\ script[1] \in IfLines
  BY DEF NextLine, BlockInv, BlockTypeOK, Shape, InBlock
<1>2. /\ m \in Nat \ {0} /\ Len(script') = m + 1 /\ script'[1] = script[1]
      /\ \A i \in 1..m : script'[i] = script[i]
      /\ script'[m + 1] = k /\ frames \in Seq(Frames(m + 1))
  BY <1>1, NextScript
<1>3. IsWhile(f) /\ WhileLoop(f, k, m + 1) /\ script[1] \in WhileLines /\ f \in Frames(m + 1)
  <2>1. IsWhile(f) /\ Len(frames) = 1
    BY <1>1, <1>2 DEF IfLines, WhileLines
  <2> QED
    BY <1>1, <1>2, <2>1
<1>4. /\ f.cond = script[1] /\ f.line = 1 /\ \A i \in 1..m : script[i] # "done"
      /\ m = 1 => f.state = "WHILE_BLOCK" /\ f.then = <<>> /\ complained = FALSE
      /\ Prefix(script) => f.state = "DO_BLOCK" /\ f.then = Upto(m - 2) /\ complained = FALSE
  BY <1>1, <1>3 DEF WhileInv, ReadSoFar
<1>5. /\ Prefix(script') => (m = 1 /\ k = "do") \/ (m >= 2 /\ Prefix(script) /\ k = "command")
      /\ CompleteWhile(script') => Prefix(script) /\ k = "done"
  BY <1>2, PrefixNext
<1> HIDE DEF m, f
\* It reads on in frame e, which has gained the line if it is a command of the body.
<1>6. ASSUME NEW e, Stay(<<e>>), k # "done", complained' = complained,
             e.cond = f.cond, e.line = f.line,
             m = 1 /\ k = "do" => e.state = "DO_BLOCK" /\ e.then = f.then,
             Prefix(script) /\ k = "command" => e.state = f.state /\ e.then = f.then \o <<m + 1>>
      PROVE  WhileInv'
  <2>1. at' = "block" /\ frames'[1] = e
    BY <1>6 DEF Stay
  <2>2. \A i \in 1..(m + 1) : script'[i] # "done"
    <3>1. \A i \in 1..(m + 1) : i = m + 1 \/ i \in 1..m
      BY <1>2
    <3> QED
      BY <1>2, <1>4, <1>6, <3>1
  <2>3. ASSUME Prefix(script')
        PROVE  e.state = "DO_BLOCK" /\ e.then = Upto(m + 1 - 2) /\ complained' = FALSE
    <3>1. CASE m = 1 /\ k = "do"
      <4>1. Upto(m + 1 - 2) = <<>>
        <5>1. m + 1 - 2 = 0
          BY <3>1
        <5>2. Upto(0) = <<>>
          BY UptoNext
        <5> QED
          BY <5>1, <5>2
      <4> QED
        BY <1>4, <1>6, <3>1, <4>1
    <3>2. CASE m >= 2 /\ Prefix(script) /\ k = "command"
      <4> DEFINE j == m - 2
      <4>1. j \in Nat /\ j + 3 = m + 1 /\ j + 1 = m + 1 - 2
        BY <1>2, <3>2
      <4>2. Upto(j) \o <<j + 3>> = Upto(j + 1)
        <5> HIDE DEF j
        <5> QED
          BY <4>1, UptoNext
      <4>3. e.then = Upto(j) \o <<j + 3>>
        BY <1>4, <1>6, <3>2, <4>1
      <4> QED
        BY <1>4, <1>6, <3>2, <4>1, <4>2, <4>3
    <3> QED
      BY <1>5, <2>3, <3>1, <3>2
  <2>4. m + 1 # 1
    BY <1>2
  <2>5. ReadSoFar(frames[1])'
    <3>1. e.cond = script'[1] /\ e.line = 1 /\ Len(script') # 1 /\ Len(script') = m + 1
      BY <1>2, <1>4, <1>6, <2>4
    <3>2. \A i \in 1..Len(script') : script'[i] # "done"
      BY <2>2, <3>1
    <3>3. Prefix(script') => /\ e.state = "DO_BLOCK" /\ e.then = Upto(Len(script') - 2)
                             /\ complained' = FALSE
      <4>1. Len(script') - 2 = m + 1 - 2
        BY <1>2
      <4> QED
        BY <2>3, <4>1, Zenon
    <3> QED
      BY <2>1, <3>1, <3>2, <3>3 DEF ReadSoFar
  <2> QED
    BY <2>1, <2>5 DEF WhileInv
\* The statement is over, and complete only if its last line is the "done".
<1>7. ASSUME at' # "block", k # "done" PROVE WhileInv'
  BY <1>5, <1>7 DEF WhileInv
<1>8. CASE k = "done"
  <2>1. Execute(f, FALSE) /\ complained' = (complained \/ f.state # "DO_BLOCK")
    BY <1>3, <1>8 DEF WhileLoop
  <2>2. at' = "prompt" /\ ran' = Exec(f)
    BY <1>3, <2>1 DEF Execute
  <2>3. ASSUME CompleteWhile(script') PROVE complained' = FALSE /\ ran' = ReadWhile(script')
    <3>1. f.state = "DO_BLOCK" /\ f.then = Upto(m - 2) /\ complained = FALSE
      BY <1>4, <1>5, <2>3
    <3>2. complained' = FALSE
      BY <2>1, <3>1, Zenon
    <3>3. Upto(m - 2) = [i \in 1..(Len(script') - 3) |-> i + 2]
      <4>1. Len(script') - 3 = m - 2
        BY <1>2
      <4> QED
        BY <4>1 DEF Upto
    <3>4. /\ f.cond = script'[1] /\ f.line = 1
          /\ f.cond \in {"while once", "while no"}
      BY <1>2, <1>3, <1>4 DEF WhileLines
    <3>5. CASE f.cond = "while no"
      BY <2>2, <3>2, <3>4, <3>5, ExecIs DEF ReadWhile
    <3>6. CASE f.cond = "while once"
      <4>1. Exec(f) = (<<1>> \o Upto(m - 2)) \o <<1>>
        BY <3>1, <3>4, <3>6, ExecIs
      <4>2. ReadWhile(script') = (<<1>> \o [i \in 1..(Len(script') - 3) |-> i + 2]) \o <<1>>
        BY <3>4, <3>6 DEF ReadWhile
      <4> QED
        BY <2>2, <3>2, <3>3, <4>1, <4>2
    <3> QED
      BY <3>4, <3>5, <3>6
  <2> QED
    BY <2>2, <2>3 DEF WhileInv
<1>9. CASE k # "done"
  <2>1. CASE at' # "block"
    BY <1>7, <1>9, <2>1
  <2>2. CASE at' = "block"
    <3>1. \/ k = "do" /\ f.state = "WHILE_BLOCK" /\ Stay(<<[f EXCEPT !.state = "DO_BLOCK"]>>)
          \/ k # "do" /\ f.state = "DO_BLOCK" /\ Stay(<<Push(f, <<m + 1>>)>>)
          \/ k # "do" /\ f.state # "DO_BLOCK" /\ Stay(<<f>>)
      BY <1>3, <1>9, <2>2 DEF WhileLoop, Execute, Lost
    <3>2. complained' = complained
      BY <1>3, <1>9, <2>2 DEF WhileLoop, Execute, Lost
    <3>3. CASE k = "do" /\ f.state = "WHILE_BLOCK" /\ Stay(<<[f EXCEPT !.state = "DO_BLOCK"]>>)
      <4> DEFINE e == [f EXCEPT !.state = "DO_BLOCK"]
      <4>1. e.state = "DO_BLOCK" /\ e.cond = f.cond /\ e.line = f.line /\ e.then = f.then
        BY <1>3 DEF Frames
      <4> HIDE DEF e
      <4>2. Stay(<<e>>)
        BY <3>3 DEF e
      <4> QED
        BY <1>6, <1>9, <3>2, <3>3, <4>1, <4>2
    <3>4. CASE k # "do" /\ f.state = "DO_BLOCK" /\ Stay(<<Push(f, <<m + 1>>)>>)
      <4> DEFINE l == <<m + 1>>  e == Push(f, l)
      <4>1. l \in Seq(1..(m + 1)) /\ m + 1 \in Nat
        BY <1>2, OneElement
      <4>2. Stay(<<e>>)
        BY <3>4
      <4> HIDE DEF l
      <4>3. e.state = f.state /\ e.cond = f.cond /\ e.line = f.line /\ e.then = f.then \o l
        BY <1>3, <3>4, <4>1, PushType
      <4> HIDE DEF e
      <4>4. e.then = f.then \o <<m + 1>>
        BY <4>3 DEF l
      <4> QED
        BY <1>6, <1>9, <3>2, <3>4, <4>2, <4>3, <4>4
    <3>5. CASE k # "do" /\ f.state # "DO_BLOCK" /\ Stay(<<f>>)
      <4>1. ~Prefix(script)
        BY <1>4, <3>5
      <4> QED
        BY <1>6, <1>9, <3>2, <3>5, <4>1
    <3> QED
      BY <3>1, <3>3, <3>4, <3>5
  <2> QED
    BY <2>1, <2>2
<1> QED
  BY <1>8, <1>9

LEMMA WhileInvReturns ==
  ASSUME BlockInv, Return \/ Unwind \/ (\E eof \in BOOLEAN : LineAfterFi(eof))
  PROVE  WhileInv'
<1>1. at \in {"return", "unwind", "swallow"} /\ script' = script
  BY DEF Return, Unwind, LineAfterFi
<1>2. script[1] \in IfLines
  BY <1>1 DEF BlockInv, Shape, InBlock
<1> QED
  BY <1>1, <1>2 DEF WhileInv, IfLines, WhileLines

LEMMA WhileInvEnd == ASSUME WhileInv, EndOfInput PROVE WhileInv'
BY DEF WhileInv, EndOfInput, CompleteWhile, ReadWhile

LEMMA WhileInvStep == BlockInv /\ WhileInv /\ [BlockNext]_blockVars => WhileInv'
<1> SUFFICES ASSUME BlockInv, WhileInv, [BlockNext]_blockVars PROVE WhileInv'
  OBVIOUS
<1>1. CASE UNCHANGED blockVars
  BY <1>1 DEF blockVars, WhileInv, ReadSoFar, CompleteWhile, ReadWhile, Prefix
<1>2. CASE BlockNext
  BY <1>2, WhileInvFirst, WhileInvNext, WhileInvReturns, WhileInvEnd DEF BlockNext
<1> QED
  BY <1>1, <1>2

LEMMA InvsRunAsRead == BlockInv /\ IfInv /\ WhileInv => BlocksRunAsRead
<1> SUFFICES ASSUME BlockInv, IfInv, WhileInv PROVE BlocksRunAsRead
  OBVIOUS
<1>1. ASSUME CompleteIf
      PROVE  ~complained /\ at \notin {"block", "return", "unwind"} /\ (at # "swallow" => ran = reading.ran)
  <2>1. /\ complained = FALSE /\ at \notin {"return", "unwind", "hung"} /\ reading.blocks = <<>>
        /\ at = "block" => Agree(frames, reading)
        /\ at \in {"prompt", "dead", "end"} => ran = reading.ran
    BY <1>1 DEF CompleteIf, IfInv
  <2>2. at # "block"
    <3>1. at = "block" => frames # <<>> /\ frames \in Seq(Frames(Len(script)))
      BY DEF BlockInv, BlockTypeOK
    <3>2. Agree(frames, reading) => Len(frames) = 0
      BY <2>1, EmptySeq DEF Agree, SameBlocks
    <3> QED
      BY <2>1, <3>1, <3>2, EmptySeq
  <2>3. at \in Places
    BY DEF BlockInv, BlockTypeOK, Places
  <2> QED
    BY <2>1, <2>2, <2>3 DEF Places
<1>2. ASSUME CompleteWhile(script), shell = "9.10"
      PROVE  ~complained /\ at \in {"prompt", "end"} /\ ran = ReadWhile(script)
  <2>1. script # <<>> /\ script[1] \in WhileLines /\ Len(script) >= 3 /\ script[Len(script)] = "done"
    BY <1>2, EmptySeq DEF CompleteWhile
  <2>2. at # "block"
    <3>1. at = "block" => \A i \in 1..Len(script) : script[i] # "done"
      BY <1>2, <2>1 DEF WhileInv, ReadSoFar
    <3>2. Len(script) \in Nat
      BY LenProperties DEF BlockInv, BlockTypeOK
    <3>3. Len(script) \in 1..Len(script)
      BY <2>1, <3>2
    <3> QED
      BY <2>1, <3>1, <3>3
  <2> QED
    BY <1>2, <2>1, <2>2 DEF WhileInv
<1> QED
  BY <1>1, <1>2, Zenon DEF BlocksRunAsRead

\* A statement that is complete is run as a reader of it, line by line, says, and
\* without a complaint: parse_if_block and parse_while_block build what was typed.
THEOREM BlocksAreRunAsRead == BlockSpec => []BlocksRunAsRead
<1>1. BlockInit => IfInv /\ WhileInv
  BY DEF BlockInit, IfInv, WhileInv
<1> QED
  BY <1>1, BlockTypes, IfInvStep, WhileInvStep, InvsRunAsRead, PTL DEF BlockSpec
=============================================================================
