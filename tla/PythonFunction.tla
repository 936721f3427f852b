--------------------------- MODULE PythonFunction ---------------------------
(***************************************************************************)
(* What a compiled function promises: it performs the operations that its  *)
(* source says, on the same values and in the same order, and ends as the  *)
(* source ends; and it always gets to its next operation or its end.       *)
(***************************************************************************)
EXTENDS SourceProgram

CONSTANTS Programs,   \* a set of function bodies
          Env         \* the variables that are bound at the start

VARIABLES program,    \* the body that runs
          src,        \* how far its source has got
          out         \* what the function shows: it is busy, asks, or is done
vars == <<program, src, out>>

Busy == Result("busy", None)

Init ==
  /\ program \in Programs
  /\ src = Start(program, Env)
  /\ out = Busy

\* The function asks for its next operation, or returns or raises.
Work ==
  /\ out = Busy
  /\ out' = Seen(src)
  /\ UNCHANGED <<program, src>>

\* The operation is done; the function may get to the next one at once.
Answer ==
  /\ out.how = "ask"
  /\ \E a \in Answers(src.on) : src' = Reply(src, a)
  /\ out' \in {Busy, Seen(src')}
  /\ UNCHANGED program

Next == Work \/ Answer

Spec == Init /\ [][Next]_vars /\ WF_vars(Work)
=============================================================================
