----------------------------- MODULE IfTwoVars -----------------------------
(* The flat "if" of smsh2 as the book keeps it (chapter9/question/9.06): one
   variable says which block the shell is in, the other how the condition
   ended. A line is what process() receives: a command, a keyword, or "if"
   with what follows it; `done` is the last line and what came of it.         *)
EXTENDS Integers

VARIABLES if_state, if_result, done

\* What may follow "if": a command that succeeds or fails, nothing, or another
\* keyword. `again` is TRUE for "if if ...", whose inner "if" returns 0.
Lines == [word : {"if"}, again : BOOLEAN, rest : {"succeeds", "fails", "nothing", "keyword"}]
         \cup [word : {"then", "else", "fi", "command"}]

\* What the user sees of a line: a command that ran, a complaint.
Done(l, ran, error) == [line |-> l, ran |-> ran, error |-> error]

\* The value of process(args + 1), which is do_control_command's for "if if".
Status(l) == CASE l.again -> 0
               [] l.rest \in {"succeeds", "nothing"} -> 0
               [] l.rest = "fails" -> 1
               [] l.rest = "keyword" -> -1

\* What running the rest of an "if" line shows.
DoneIf(l) == Done(l, l.rest \in {"succeeds", "fails"}, l.rest = "keyword")

SynErr(l) == if_state' = "NEUTRAL" /\ done' = Done(l, FALSE, TRUE) /\ UNCHANGED if_result

Move(l, state) == if_state' = state /\ done' = Done(l, FALSE, FALSE) /\ UNCHANGED if_result

If(l) ==
  \/ if_state # "NEUTRAL" /\ SynErr(l)
  \/ /\ if_state = "NEUTRAL" /\ if_state' = "WANT_THEN"
     /\ if_result' = IF Status(l) = 0 THEN "SUCCESS" ELSE "FAIL"
     /\ done' = DoneIf(l)

Then(l) == IF if_state = "WANT_THEN" THEN Move(l, "THEN_BLOCK") ELSE SynErr(l)

Else(l) == IF if_state = "THEN_BLOCK" THEN Move(l, "ELSE_BLOCK") ELSE SynErr(l)

Fi(l) == IF if_state \in {"THEN_BLOCK", "ELSE_BLOCK"} THEN Move(l, "NEUTRAL") ELSE SynErr(l)

ok_to_execute == \/ if_state = "NEUTRAL"
                 \/ if_state = "THEN_BLOCK" /\ if_result = "SUCCESS"
                 \/ if_state = "ELSE_BLOCK" /\ if_result = "FAIL"

Command(l) ==
  \/ if_state = "WANT_THEN" /\ SynErr(l)
  \/ if_state # "WANT_THEN" /\ done' = Done(l, ok_to_execute, FALSE) /\ UNCHANGED <<if_state, if_result>>

\* Before the first line.
Nothing == Done([word |-> "none"], FALSE, FALSE)

Init == if_state = "NEUTRAL" /\ if_result = "SUCCESS" /\ done = Nothing

Next == \E l \in Lines : CASE l.word = "if" -> If(l)
                           [] l.word = "then" -> Then(l)
                           [] l.word = "else" -> Else(l)
                           [] l.word = "fi" -> Fi(l)
                           [] l.word = "command" -> Command(l)

Spec == Init /\ [][Next]_<<if_state, if_result, done>>
=============================================================================
