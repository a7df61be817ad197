----------------------------- MODULE BlockShell -----------------------------
(* The two shells that read a whole block before they run it: nested "if" in
   chapter9/question/9.09, and "while" besides in 9.10 (10.03 is a copy). The
   parser of "if" is the same text in both; `shell` says which one runs.

   Commands are known by the number of their line in `script`, what was typed
   since the prompt. An open block is a frame; the frame of an inner "if" lies
   on that of the outer, as the calls of parse_if_block do. A statement that
   has been read is kept as the lines it executes, in order: the outcomes of
   its conditions are those its lines say.                                    *)
EXTENDS Naturals, Sequences, SequencesExt, FiniteSets

CONSTANTS MaxLines,  \* bound: lines of one statement
          MaxOdd     \* bound: lines of a block that are words of the other kind

ASSUME LinesAssumption == MaxLines \in Nat \ {0} /\ MaxOdd \in Nat

VARIABLES
  shell,       \* "9.09" or "9.10"
  at,          \* where it is: at its prompt, in a block, returning from one, ended
  script,      \* the lines of the statement
  frames,      \* the open blocks
  ran,         \* the lines the last statement executed
  complained,  \* a syntax error was reported
  reading      \* history: what a reader makes of the script who keeps no block

blockVars == <<shell, at, script, frames, ran, complained, reading>>

\* A condition succeeds or not; "while once" fails the second time. "if" and
\* "while" alone miss their condition, "eof" is the end of the input.
IfLines == {"if yes", "if no"}
WhileLines == {"while once", "while no"}
Words == IfLines \cup WhileLines \cup {"if", "while", "then", "else", "fi", "do", "done", "command", "blank", "eof"}

Frame(state, k, n) == [state |-> state, cond |-> k, line |-> n, then |-> <<>>, else |-> <<>>]

\* Mutant: what belongs to the "else" part of an inner "if" goes to the "then" part.
Push_then(f, lines) == [f EXCEPT !.then = @ \o lines]

\* stmt_push of a statement into the part of frame f that is being read.
Push(f, lines) == CASE f.state \in {"THEN_BLOCK", "DO_BLOCK"} -> [f EXCEPT !.then = @ \o lines]
                    [] f.state = "ELSE_BLOCK" -> [f EXCEPT !.else = @ \o lines]

\* The lines that exec_if_block and exec_while_block execute: exec_block goes through
\* the statements of a part one after the other.
Exec(f) == CASE f.cond = "if yes" -> <<f.line>> \o f.then
             [] f.cond = "if no" -> <<f.line>> \o f.else
             [] f.cond = "while once" -> <<f.line>> \o f.then \o <<f.line>>
             [] f.cond = "while no" -> <<f.line>>

PushOnTop(fs, lines) == [fs EXCEPT ![Len(fs)] = Push(@, lines)]

\* parse_if_block returns: its block, as far as it got, is pushed by its caller.
Fold(fs) == PushOnTop(Front(fs), Exec(Last(fs)))

SetTop(fs, state) == [fs EXCEPT ![Len(fs)].state = state]

IsWhile(f) == f.state \in {"WHILE_BLOCK", "DO_BLOCK"}

-----------------------------------------------------------------------------
(* The statement as a user of sh reads it, line by line, with no block kept.
   A block is entered in its condition; its lines are read by `yes` and phase. *)

Nothing == [blocks |-> <<>>, ran |-> <<>>, ok |-> TRUE]

Live(blocks) == \A i \in DOMAIN blocks : (blocks[i].phase = "then") = blocks[i].yes

Phase(r) == IF r.blocks = <<>> THEN "none" ELSE Last(r.blocks).phase

ReadAs(r, k, i) ==
  LET Runs == IF Live(r.blocks) THEN Append(r.ran, i) ELSE r.ran
      InPhase(p) == [r.blocks EXCEPT ![Len(r.blocks)].phase = p]
  IN  CASE Phase(r) = "cond" /\ k = "then" -> [r EXCEPT !.blocks = InPhase("then")]
        [] Phase(r) = "then" /\ k = "else" -> [r EXCEPT !.blocks = InPhase("else")]
        [] Phase(r) \in {"then", "else"} /\ k = "fi" -> [r EXCEPT !.blocks = Front(@)]
        [] Phase(r) # "cond" /\ k = "command" -> [r EXCEPT !.ran = Runs]
        [] Phase(r) # "cond" /\ k \in IfLines ->
             [r EXCEPT !.ran = Runs, !.blocks = Append(@, [yes |-> k = "if yes", phase |-> "cond"])]
        [] OTHER -> [r EXCEPT !.ok = FALSE]

-----------------------------------------------------------------------------
\* The statement is executed and freed. 9.10 frees the condition of an "if" one
\* pointer behind what was allocated, which ends it.
Execute(f, eof) ==
  /\ frames' = <<>>
  /\ ran' = Exec(f)
  /\ at' = IF shell = "9.10" /\ ~IsWhile(f) THEN "dead" ELSE IF eof THEN "end" ELSE "prompt"

\* The shell does not come back to its prompt.
Lost(end) == at' = end /\ frames' = <<>> /\ UNCHANGED ran

\* It reads on in the same block or another.
Stay(fs) == at' = "block" /\ frames' = fs /\ UNCHANGED ran

\* Line n, which is k, in the loop of the innermost call of parse_if_block. A call
\* that does not expect it complains and leaves it to its caller; at the end of the
\* input, or a misplaced "fi", it returns NULL, so that all its callers return too.
IfLoop(fs, k, n) ==
  LET state == Last(fs).state
      open == state \in {"THEN_BLOCK", "ELSE_BLOCK"}
      Return(where, complaint) ==
        at' = where /\ frames' = fs /\ complained' = (complained \/ complaint) /\ UNCHANGED ran
  IN  \/ k = "eof" /\ Return("unwind", FALSE)
      \/ k = "blank" /\ Lost("dead") /\ UNCHANGED complained
      \/ open /\ k = "if" /\ Lost("hung") /\ complained' = TRUE
      \/ /\ open /\ k \in IfLines
         /\ Stay(Append(fs, Frame("IF_BLOCK", k, n))) /\ UNCHANGED complained
      \/ state = "IF_BLOCK" /\ k = "then" /\ Stay(SetTop(fs, "THEN_BLOCK")) /\ UNCHANGED complained
      \/ state = "THEN_BLOCK" /\ k = "else" /\ Stay(SetTop(fs, "ELSE_BLOCK")) /\ UNCHANGED complained
      \/ open /\ k = "fi" /\ Len(fs) > 1 /\ Stay(Fold(fs)) /\ UNCHANGED complained
      \/ open /\ k = "fi" /\ Len(fs) = 1 /\ Return("swallow", FALSE)
      \/ ~open /\ k = "fi" /\ Return("unwind", TRUE)
      \/ /\ open /\ k \in {"command", "while", "do", "done"} \cup WhileLines
         /\ Stay(PushOnTop(fs, <<n>>)) /\ UNCHANGED complained
      \/ /\ \/ k = "then" /\ state # "IF_BLOCK"
            \/ k = "else" /\ state # "THEN_BLOCK"
            \/ state = "IF_BLOCK" /\ k \notin {"then", "else", "fi", "blank", "eof"}
         /\ Return("return", TRUE)

\* The same in the loop of parse_while_block, which has no inner blocks.
WhileLoop(f, k, n) ==
  \/ k = "eof" /\ Execute(f, TRUE) /\ UNCHANGED complained
  \/ k = "blank" /\ Lost("dead") /\ UNCHANGED complained
  \/ k = "do" /\ f.state = "WHILE_BLOCK" /\ Stay(<<[f EXCEPT !.state = "DO_BLOCK"]>>) /\ UNCHANGED complained
  \/ k = "do" /\ f.state # "WHILE_BLOCK" /\ Execute(f, FALSE) /\ complained' = TRUE
  \/ k = "done" /\ Execute(f, FALSE) /\ complained' = (complained \/ f.state # "DO_BLOCK")
  \/ /\ k \notin {"eof", "blank", "do", "done"}
     /\ Stay(IF f.state = "DO_BLOCK" THEN <<Push(f, <<n>>)>> ELSE <<f>>) /\ UNCHANGED complained

-----------------------------------------------------------------------------
\* A line at the prompt. 9.09 takes every word but "if" for a command; so does
\* 9.10 with every word but "if" and "while".
FirstLine(k) ==
  /\ at = "prompt" /\ k # "eof"
  /\ script' = <<k>> /\ complained' = (k = "if" \/ (k = "while" /\ shell = "9.10"))
  /\ reading' = ReadAs(Nothing, k, 1)
  /\ UNCHANGED shell
  /\ \/ /\ k \in IfLines
        /\ frames' = <<Frame("IF_BLOCK", k, 1)>> /\ ran' = <<>> /\ at' = "block"
     \/ /\ k \in WhileLines /\ shell = "9.10"
        /\ frames' = <<Frame("WHILE_BLOCK", k, 1)>> /\ ran' = <<>> /\ at' = "block"
     \/ /\ k = "if" \* runs the first statement of a part that has none
        /\ at' \in {"prompt", "dead"} /\ ran' = <<>> /\ UNCHANGED frames
     \/ /\ k = "while" /\ shell = "9.10" \* an empty condition holds for ever
        /\ at' = "hung" /\ ran' = <<>> /\ UNCHANGED frames
     \/ /\ k = "blank"
        /\ at' = IF shell = "9.10" THEN "dead" ELSE "prompt"
        /\ ran' = <<>> /\ UNCHANGED frames
     \/ /\ k \notin IfLines \cup {"if", "blank"} /\ (shell = "9.09" \/ k \notin WhileLines \cup {"while"})
        /\ ran' = <<1>> /\ UNCHANGED <<at, frames>>

\* Words of the other kind of block, which the open one does not know.
Odd(k) == IF IsWhile(frames[1]) THEN k \notin {"do", "done", "command", "blank", "eof"}
          ELSE k \in WhileLines \cup {"while", "do", "done"}

NextLine(k) ==
  LET n == Len(script) + 1
  IN  /\ at = "block" /\ n <= MaxLines
      /\ Odd(k) => Cardinality({i \in 2..(n - 1) : Odd(script[i])}) < MaxOdd
      /\ script' = Append(script, k)
      /\ reading' = ReadAs(reading, k, n)
      /\ IF IsWhile(frames[1]) THEN WhileLoop(frames[1], k, n) ELSE IfLoop(frames, k, n)
      /\ UNCHANGED shell

\* The innermost call has returned the line it did not expect: its caller pushes its
\* block and goes on with that line; parse_statement executes what there is.
Return ==
  /\ at = "return"
  /\ IF Len(frames) = 1 THEN Execute(frames[1], FALSE) /\ UNCHANGED complained
     ELSE IfLoop(Fold(frames), Last(script), Len(script))
  /\ UNCHANGED <<shell, script, reading>>

\* The innermost call has returned NULL.
Unwind ==
  /\ at = "unwind"
  /\ IF Len(frames) = 1 THEN Execute(frames[1], Last(script) = "eof")
     ELSE frames' = Fold(frames) /\ UNCHANGED <<at, ran>>
  /\ UNCHANGED <<shell, script, complained, reading>>

\* After the "fi" of the outermost "if" a line is read, whatever it is, and returned
\* to a caller that does not look at it. Only then is the block executed.
LineAfterFi(eof) ==
  /\ at = "swallow"
  /\ Execute(frames[1], eof)
  /\ UNCHANGED <<shell, script, complained, reading>>

EndOfInput == at = "prompt" /\ at' = "end" /\ UNCHANGED <<shell, script, frames, ran, complained, reading>>

BlockInit ==
  /\ shell \in {"9.09", "9.10"} /\ at = "prompt"
  /\ script = <<>> /\ frames = <<>> /\ ran = <<>> /\ complained = FALSE
  /\ reading = Nothing

BlockNext == \/ \E k \in Words : FirstLine(k) \/ NextLine(k)
             \/ Return \/ Unwind
             \/ \E eof \in BOOLEAN : LineAfterFi(eof)
             \/ EndOfInput

BlockSpec == BlockInit /\ [][BlockNext]_blockVars

-----------------------------------------------------------------------------
\* An open block of a script of n lines, and what a reader makes of one.
Frames(n) == [state : {"IF_BLOCK", "THEN_BLOCK", "ELSE_BLOCK", "WHILE_BLOCK", "DO_BLOCK"},
              cond : IfLines \cup WhileLines, line : 1..n, then : Seq(1..n), else : Seq(1..n)]

Readings(n) == [blocks : Seq([yes : BOOLEAN, phase : {"cond", "then", "else"}]),
                ran : Seq(1..n), ok : BOOLEAN]

BlockTypeOK ==
  /\ shell \in {"9.09", "9.10"}
  /\ at \in {"prompt", "block", "return", "unwind", "swallow", "end", "dead", "hung"}
  /\ script \in Seq(Words) /\ Len(script) <= MaxLines
  /\ frames \in Seq(Frames(Len(script)))
  /\ (frames # <<>>) = (at \in {"block", "return", "unwind", "swallow"})
  /\ ran \in Seq(1..Len(script))
  /\ complained \in BOOLEAN
  /\ reading \in Readings(Len(script))

\* A complete "if", and a complete "while" whose lines are commands.
CompleteIf == script # <<>> /\ script[1] \in IfLines /\ reading.ok /\ reading.blocks = <<>>

CompleteWhile(s) ==
  /\ Len(s) >= 3 /\ s[1] \in WhileLines /\ s[2] = "do" /\ s[Len(s)] = "done"
  /\ \A i \in 3..(Len(s) - 1) : s[i] = "command"

ReadWhile(s) == IF s[1] = "while no" THEN <<1>> ELSE <<1>> \o [i \in 1..(Len(s) - 3) |-> i + 2] \o <<1>>

\* A complete statement is not complained about, and the commands that ran, once
\* it is no longer being read, are those that reading it line by line runs, in
\* that order, however its blocks are nested (9.9.md; controlflow.c, stmt.c).
BlocksRunAsRead ==
  /\ CompleteIf =>
       /\ ~complained /\ at \notin {"block", "return", "unwind"}
       /\ at # "swallow" => ran = reading.ran
  /\ CompleteWhile(script) /\ shell = "9.10" =>
       ~complained /\ at \in {"prompt", "end"} /\ ran = ReadWhile(script)
=============================================================================
