-------------------------- MODULE ClosureGenerator --------------------------
(***************************************************************************)
(* The generator object of soac_py/src/soac/runtime.py around its resume   *)
(* function: send (and __next__), throw and close.  Coroutine delegates    *)
(* each of its operations to one of these, unchanged.  One call is inside  *)
(* the generator at a time.                                                *)
(***************************************************************************)
EXTENDS GeneratorResume

VARIABLES
  isClosed,   (* _is_closed; _resume_fn is None exactly when it is TRUE      *)
  op,         (* the operation a caller is inside, or "none"                *)
  result      (* what the last finished operation gave its caller           *)

wrapper == <<isClosed, op, result>>
vars    == <<resumeVars, wrapper>>

RuntimeError == "RuntimeError"
Ok           == [kind |-> "ok", what |-> None]

TypeOK ==
  /\ ResumeTypeOK
  /\ isClosed \in BOOLEAN
  /\ op \in {"none", "send", "throw", "close"}
  /\ result \in Outcome \cup {Ok, Raises(RuntimeError)}

Init ==
  /\ ResumeInit
  /\ isClosed = FALSE /\ op = "none" /\ result = NoOutcome

-----------------------------------------------------------------------------
\* Begin operation o by resuming the frame, unless the generator is closed:
\* then the operation's answer is immediate.
Begin(o, v, e, answer) ==
  /\ op = "none"
  /\ \/ /\ ~isClosed
        /\ op' = o
        /\ Enter(v, e)
        /\ UNCHANGED <<isClosed, result>>
     \/ /\ isClosed
        /\ result' = answer
        /\ UNCHANGED <<resumeVars, isClosed, op>>

Send(v)  == Begin("send", v, NoDefault, Raises(StopIteration))
Throw(e) == Begin("throw", NoDefault, e, Raises(e))
Close    == Begin("close", NoDefault, GeneratorExit, Ok)

YieldedToAnyone ==     \* mutant: close() does not notice the yield
  /\ outcome.kind = "yield"
  /\ Leave
  /\ op' = "none" /\ result' = outcome
  /\ UNCHANGED isClosed

\* The resume function returned: close() did not expect that.
Yielded ==
  /\ outcome.kind = "yield"
  /\ Leave
  /\ op' = "none"
  /\ result' = IF op = "close" THEN Raises(RuntimeError) ELSE outcome
  /\ UNCHANGED isClosed

RaisedByThrowStaysOpen ==     \* mutant: throw() forgets _mark_closed
  /\ outcome.kind = "raise"
  /\ Leave
  /\ isClosed' = (op # "throw")
  /\ op' = "none"
  /\ result' = IF op = "close" /\ outcome.what \in {GeneratorExit, StopIteration}
               THEN Ok ELSE outcome

\* It raised: mark closed, and let the exception out, except that close()
\* swallows the two it asked for.
Raised ==
  /\ outcome.kind = "raise"
  /\ Leave
  /\ isClosed' = TRUE
  /\ op' = "none"
  /\ result' = IF op = "close" /\ outcome.what \in {GeneratorExit, StopIteration}
               THEN Ok ELSE outcome

Resume == ResumeStep /\ UNCHANGED wrapper

Next ==
  \/ \E v \in Values \cup {None} : Send(v)
  \/ \E e \in BodyExc : Throw(e)
  \/ Close
  \/ Resume
  \/ Yielded
  \/ Raised

Spec == Init /\ [][Next]_vars

-----------------------------------------------------------------------------
Suspended == op = "none" /\ ~isClosed /\ pc # Unstarted

\* Between calls, _dp_pc and _dp_yieldfrom tell the same story: the frame
\* waits at a yield-from site exactly when _dp_yieldfrom names an iterator.
\* A delegated iterator whose failure the body caught must not linger there.
SuspensionAgrees == Suspended => (pc \in DelegateSites <=> yieldFrom \in Subs)

\* While a frame is suspended, the exception throw() would take as context is
\* the one the frame is handling (push_block refreshes _dp_throw_context).
ThrowContextAgrees == Suspended => throwContext = handling

\* What a caller sends or throws into a frame that has run before is given to
\* the body or to the delegated iterator before the call ends.
StartedInputDelivered ==
  at = "exit" /\ HasInput /\ ~log.began => log.feeds > 0

\* A close() that finds the frame delegating to an iterator with a close
\* method has called that method by the time the resume ends.
CloseReachesDelegate ==
  at = "exit" /\ op = "close" /\ log.was \in Closable => log.was \in log.told

\* A frame that has ended by raising is never run again: its cells keep their
\* values, although _dp_pc still names a live resume point.
DeadFrameStaysDead == [][ended => UNCHANGED frame]_vars

-----------------------------------------------------------------------------
\* plans/generators.md:16, "throw is similar, but throws in a block wrapped by
\* the corresponding exception block": a thrown exception reaches the frame or
\* its delegate, also when the body has not begun.
ThrowReachesFrame ==
  at = "exit" /\ resumeExc # NoDefault => log.feeds > 0

-----------------------------------------------------------------------------
\* The object implements the protocol callers rely on.
Protocol == INSTANCE GeneratorProtocol WITH
  Sources <- Subs \cup {Frame}, OwnFrame <- Frame, Nothing <- None,
  Exceptions <- Exc, Exit <- GeneratorExit, Stop <- StopIteration,
  call <- op, result <- result,
  status <- IF isClosed THEN "closed"
            ELSE IF op # "none" THEN "running"
            ELSE IF pc = Unstarted THEN "created" ELSE "suspended",
  delegate <- IF Suspended THEN yieldFrom ELSE None

ImplementsProtocol == Protocol!Spec
=============================================================================
