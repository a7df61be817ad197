------------------------------ MODULE IfOneVar ------------------------------
(* The flat "if" of smsh2 with a single state (chapter9/question/9.07), which
   the exercise wants to behave as the two variables of 9.06 did.             *)
EXTENDS Integers

VARIABLES if_state, last_stat, done

ifVars == <<if_state, last_stat, done>>

States == {"NEUTRAL", "IF_SUCCEEDED", "IF_FAILED", "SKIPPING_THEN", "DOING_THEN", "SKIPPING_ELSE", "DOING_ELSE"}

\* The two variables of 9.06 that the one state and last_stat stand for.
Block == CASE if_state = "NEUTRAL" -> "NEUTRAL"
           [] if_state \in {"IF_SUCCEEDED", "IF_FAILED"} -> "WANT_THEN"
           [] if_state \in {"DOING_THEN", "SKIPPING_THEN"} -> "THEN_BLOCK"
           [] if_state \in {"DOING_ELSE", "SKIPPING_ELSE"} -> "ELSE_BLOCK"

TwoVars == INSTANCE IfTwoVars WITH if_state <- Block,
                                   if_result <- IF last_stat = 0 THEN "SUCCESS" ELSE "FAIL"

SynErr(l) == if_state' = "NEUTRAL" /\ done' = TwoVars!Done(l, FALSE, TRUE) /\ UNCHANGED last_stat

Move(l, state) == if_state' = state /\ done' = TwoVars!Done(l, FALSE, FALSE) /\ UNCHANGED last_stat

\* process(args + 1) runs the condition; an inner "if" has set last_stat before.
If(l) ==
  \/ if_state # "NEUTRAL" /\ SynErr(l)
  \/ /\ if_state = "NEUTRAL"
     /\ last_stat' = TwoVars!Status(l)
     /\ if_state' = IF last_stat' = 0 THEN "IF_SUCCEEDED" ELSE "IF_FAILED"
     /\ done' = TwoVars!DoneIf(l)

Then(l) == CASE if_state = "IF_SUCCEEDED" -> Move(l, "DOING_THEN")
             [] if_state = "IF_FAILED" -> Move(l, "SKIPPING_THEN")
             [] OTHER -> SynErr(l)

\* Mutant: after a "then" block that ran, the "else" block runs too.
Else_runs(l) == CASE if_state = "DOING_THEN" -> Move(l, "DOING_ELSE")
                  [] if_state = "SKIPPING_THEN" -> Move(l, "DOING_ELSE")
                  [] OTHER -> SynErr(l)

Else(l) == CASE if_state = "DOING_THEN" -> Move(l, "SKIPPING_ELSE")
             [] if_state = "SKIPPING_THEN" -> Move(l, "DOING_ELSE")
             [] OTHER -> SynErr(l)

Fi(l) == IF if_state \in {"IF_SUCCEEDED", "IF_FAILED", "NEUTRAL"} THEN SynErr(l) ELSE Move(l, "NEUTRAL")

ok_to_execute == if_state \notin {"SKIPPING_THEN", "SKIPPING_ELSE"}

Command(l) ==
  \/ if_state \in {"IF_SUCCEEDED", "IF_FAILED"} /\ SynErr(l)
  \/ /\ if_state \notin {"IF_SUCCEEDED", "IF_FAILED"}
     /\ done' = TwoVars!Done(l, ok_to_execute, FALSE)
     /\ UNCHANGED <<if_state, last_stat>>

IfInit == if_state = "NEUTRAL" /\ last_stat = 0 /\ done = TwoVars!Nothing

IfNext == \E l \in TwoVars!Lines : CASE l.word = "if" -> If(l)
                                     [] l.word = "then" -> Then(l)
                                     [] l.word = "else" -> Else(l)
                                     [] l.word = "fi" -> Fi(l)
                                     [] l.word = "command" -> Command(l)

IfSpec == IfInit /\ [][IfNext]_ifVars

IfTypeOK ==
  /\ if_state \in States
  /\ last_stat \in {-1, 0, 1}
  /\ done \in [line : TwoVars!Lines \cup {TwoVars!Nothing.line}, ran : BOOLEAN, error : BOOLEAN]

\* The single state of 9.07 runs, skips and refuses every line as the two
\* variables of 9.06 do (9.7.md: one variable instead of two).
IsTwoVarIf == TwoVars!Spec
=============================================================================
