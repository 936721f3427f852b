------------------------- MODULE GeneratorProtocol -------------------------
(***************************************************************************)
(* What a caller of a generator object relies on, whatever the body does:  *)
(* the object is created, runs while one call is inside it, suspends when  *)
(* it yields and is closed for good when it raises.  A closed generator    *)
(* answers each call at once.  While suspended, gi_yieldfrom is the        *)
(* iterator the last value came from, or None if the frame yielded it.     *)
(***************************************************************************)
CONSTANTS
  Sources,        (* where a yielded value can come from                    *)
  OwnFrame,       (* the source that is the generator's own frame           *)
  Nothing,        (* no iterator                                            *)
  Exceptions,     (* everything a call can raise                            *)
  Exit, Stop      (* GeneratorExit and StopIteration                        *)

VARIABLES status, call, delegate, result

protocolVars == <<status, call, delegate, result>>

Answer(k, w) == [kind |-> k, what |-> w]

Init ==
  /\ status = "created" /\ call = "none"
  /\ delegate = Nothing
  /\ result = Answer("none", Nothing)

\* A call enters the frame, which delegates to nobody the caller can see.
Begin(o) ==
  /\ call = "none" /\ status \in {"created", "suspended"}
  /\ call' = o /\ status' = "running"
  /\ delegate' = Nothing
  /\ UNCHANGED result

\* A value comes out; to close() that is an error, and the frame lives on.
Suspend(w) ==
  /\ status = "running"
  /\ status' = "suspended" /\ call' = "none"
  /\ delegate' = IF w = OwnFrame THEN Nothing ELSE w
  /\ result' = IF call = "close" THEN Answer("raise", "RuntimeError")
                                 ELSE Answer("yield", w)

\* An exception comes out; close() expects one of two.
Finish(e) ==
  /\ status = "running"
  /\ status' = "closed" /\ call' = "none"
  /\ result' = IF call = "close" /\ e \in {Exit, Stop}
               THEN Answer("ok", Nothing) ELSE Answer("raise", e)
  /\ UNCHANGED delegate

\* send, throw and close on a closed generator.
AnswerClosed(a) ==
  /\ call = "none" /\ status = "closed"
  /\ result' = a
  /\ UNCHANGED <<status, call, delegate>>

ClosedAnswers ==
  {Answer("ok", Nothing)} \cup {Answer("raise", e) : e \in Exceptions}

Next ==
  \/ \E o \in {"send", "throw", "close"} : Begin(o)
  \/ \E w \in Sources : Suspend(w)
  \/ \E e \in Exceptions : Finish(e)
  \/ \E a \in ClosedAnswers : AnswerClosed(a)

Spec == Init /\ [][Next]_protocolVars
=============================================================================
