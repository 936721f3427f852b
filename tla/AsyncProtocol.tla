--------------------------- MODULE AsyncProtocol ---------------------------
(***************************************************************************)
(* What the drivers of an async generator's awaitables rely on, whatever   *)
(* the body does.  One awaitable at a time is inside the frame.  A value   *)
(* passed on leaves it pending; a value of the frame, and an exception,    *)
(* complete it.  An exception closes the generator for good: from then on  *)
(* each awaitable completes at its next step.  The end of the stream is    *)
(* StopAsyncIteration, and StopIteration, which would tell a driver that   *)
(* the awaitable has a value, never comes out as an exception.             *)
(*                                                                         *)
(* As long as drivers keep one awaitable unfinished at a time, a pending   *)
(* one is stepped only while the generator awaits the iterator whose value *)
(* was passed on, and is never refused.                                    *)
(***************************************************************************)
CONSTANTS
  Awaitables,         (* the awaitables                                     *)
  Iterators,          (* what the frame may await                           *)
  OwnFrame, Nobody,   (* the frame itself, and no iterator                  *)
  Exceptions,         (* exceptions that are not StopIteration              *)
  Exit, End, Ignored, (* GeneratorExit, StopAsyncIteration, RuntimeError    *)
  Refusal,            (* TypeError                                          *)
  Thrown              (* what a driver may throw into an awaitable          *)

VARIABLES
  status,    (* of the generator: "open", "running" or "closed"             *)
  awaited,   (* the iterator an open generator awaits, or Nobody            *)
  turn,      (* the awaitable inside the frame, or Nobody                   *)
  seen,      (* [kind, stage] of each awaitable                             *)
  answer,    (* what its driver was told last                               *)
  overlapped (* two awaitables have been unfinished at once                 *)

protocolVars == <<status, awaited, turn, seen, answer, overlapped>>

Told(k, w) == [kind |-> k, what |-> w]

Unmade     == [kind |-> "unused", stage |-> "unused"]
Unfinished == {a \in Awaitables : seen[a].stage \in {"made", "begun"}}

Init ==
  /\ status = "open" /\ awaited = Nobody /\ turn = Nobody
  /\ seen = [a \in Awaitables |-> Unmade]
  /\ answer = [a \in Awaitables |-> Told("none", Nobody)]
  /\ overlapped = FALSE

Moves(a, stage) == seen' = [seen EXCEPT ![a].stage = stage]
Hears(a, ans)   == answer' = [answer EXCEPT ![a] = ans]

-----------------------------------------------------------------------------
Make(a, kind) ==
  /\ turn = Nobody /\ seen[a].stage = "unused"
  /\ seen' = [seen EXCEPT ![a] = [kind |-> kind, stage |-> "made"]]
  /\ overlapped' = (overlapped \/ Unfinished # {})
  /\ UNCHANGED <<status, awaited, turn, answer>>

Drop(a) ==
  /\ turn = Nobody /\ seen[a].stage # "unused"
  /\ seen' = [seen EXCEPT ![a] = Unmade]
  /\ Hears(a, Told("none", Nobody))
  /\ UNCHANGED <<status, awaited, turn, overlapped>>

\* An unfinished awaitable enters the frame of an open generator.
Step(a) ==
  /\ status = "open" /\ a \in Unfinished
  /\ ~overlapped /\ seen[a].stage = "begun" =>
       awaited # Nobody /\ answer[a] = Told("pending", awaited)
  /\ status' = "running" /\ turn' = a /\ awaited' = Nobody
  /\ Moves(a, "begun")
  /\ UNCHANGED <<answer, overlapped>>

\* The awaited iterator's value is passed on.
PassOn(i) ==
  /\ status = "running"
  /\ status' = "open" /\ turn' = Nobody /\ awaited' = i
  /\ Hears(turn, Told("pending", i))
  /\ UNCHANGED <<seen, overlapped>>

\* The frame yields: the value of the awaitable, or what aclose() objects to.
Yield ==
  /\ status = "running"
  /\ status' = "open" /\ turn' = Nobody /\ awaited' = Nobody
  /\ Moves(turn, "done")
  /\ Hears(turn, IF seen[turn].kind = "aclose" THEN Told("raise", Ignored)
                                               ELSE Told("value", OwnFrame))
  /\ UNCHANGED overlapped

\* An exception comes out: aclose() expects one of two.
Finish(e) ==
  /\ status = "running"
  /\ status' = "closed" /\ turn' = Nobody /\ awaited' = Nobody
  /\ Moves(turn, "done")
  /\ Hears(turn, IF seen[turn].kind = "aclose" /\ e \in {Exit, End}
                 THEN Told("value", Nobody) ELSE Told("raise", e))
  /\ UNCHANGED overlapped

-----------------------------------------------------------------------------
\* A step on a closed generator.
ClosedAnswers(kind) ==
  IF kind = "aclose" THEN {Told("value", Nobody), Told("raise", Ignored)}
                     ELSE {Told("value", Nobody), Told("raise", End)}

AnswerClosed(a) ==
  /\ status = "closed" /\ a \in Unfinished
  /\ \E ans \in ClosedAnswers(seen[a].kind) : Hears(a, ans)
  /\ Moves(a, "done")
  /\ UNCHANGED <<status, awaited, turn, overlapped>>

\* A value sent into what has not started.
Refuse(a) ==
  /\ turn = Nobody /\ a \in Unfinished
  /\ overlapped \/ seen[a].stage = "made"
  /\ Hears(a, Told("raise", Refusal))
  /\ UNCHANGED <<status, awaited, turn, seen, overlapped>>

\* An exception that ends the aclose() coroutine and not the generator.
Dismiss(a, e) ==
  /\ turn = Nobody /\ a \in Unfinished /\ seen[a].kind = "aclose"
  /\ \/ seen[a].stage = "made" /\ Hears(a, Told("raise", e))
     \/ seen[a].stage = "begun" /\ e = Exit /\ Hears(a, Told("value", Nobody))
  /\ Moves(a, "done")
  /\ UNCHANGED <<status, awaited, turn, overlapped>>

AskDone(a, e) ==
  /\ turn = Nobody /\ seen[a].stage = "done"
  /\ Hears(a, Told("raise", e))
  /\ UNCHANGED <<status, awaited, turn, seen, overlapped>>

Next ==
  \/ \E a \in Awaitables :
       \/ \E kind \in {"asend", "athrow", "aclose"} : Make(a, kind)
       \/ \E e \in Thrown : Dismiss(a, e) \/ AskDone(a, e)
       \/ Drop(a) \/ Step(a) \/ AnswerClosed(a) \/ Refuse(a)
  \/ \E i \in Iterators : PassOn(i)
  \/ Yield
  \/ \E e \in Exceptions : Finish(e)

Spec == Init /\ [][Next]_protocolVars
=============================================================================
