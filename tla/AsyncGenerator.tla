--------------------------- MODULE AsyncGenerator ---------------------------
(***************************************************************************)
(* The async generator object of soac_py/src/soac/runtime.py: asend,       *)
(* athrow and aclose make awaitables (AsyncGenSend), and whoever awaits    *)
(* one drives it with send and throw until it is done.  A value the frame  *)
(* gets from the iterator it awaits is passed on to the driver, and the    *)
(* awaitable stays pending; a value the frame itself yields completes it.  *)
(* The object keeps no record of which awaitable is inside the frame, so   *)
(* two of them in flight share _dp_pc and _dp_yieldfrom.                   *)
(*                                                                         *)
(* One awaitable is stepped at a time and a step runs to its end, as an    *)
(* event loop does.  Nothing stops the callers from keeping several        *)
(* unfinished at once (CPython refuses the second); overlapped is the      *)
(* history that tells the properties whether they have.                    *)
(***************************************************************************)
EXTENDS GeneratorResume

CONSTANTS
  Awaitables    (* identities of AsyncGenSend objects, reused when dropped   *)

StopAsyncIteration == "StopAsyncIteration"
RuntimeError       == "RuntimeError"
TypeError          == "TypeError"

ASSUME AsyncConstants ==
  /\ None \notin Awaitables
  /\ StopAsyncIteration \in UserExc /\ RuntimeError \notin UserExc
  /\ Complete \notin {StopIteration, RuntimeError, TypeError}

VARIABLES
  isClosed,   (* _is_closed                                                 *)
  aw,         (* the awaitables' fields                                     *)
  cur,        (* the awaitable whose step is inside the frame, or None      *)
  answer,     (* what each awaitable's last step gave its driver            *)
  overlapped  (* history: two awaitables have been unfinished at once       *)

objects == <<isClosed, aw, cur, answer, overlapped>>
vars    == <<resumeVars, objects>>

\* The awaitable passes on a value of the iterator awaited, or completes with
\* a value of the frame, or with None.
Pending(i) == [kind |-> "pending", what |-> i]
Value      == [kind |-> "value", what |-> Frame]
Nothing    == [kind |-> "value", what |-> None]

Answers ==
  {NoOutcome, Value, Nothing} \cup {Pending(i) : i \in Subs}
    \cup {Raises(e) : e \in Exc \cup {RuntimeError, TypeError}}

\* begun is history for asend and athrow; an aclose is a coroutine, and what
\* is thrown into it before it begins never reaches the generator.
Unused == [kind |-> "unused", send |-> None, exc |-> NoDefault,
           done |-> FALSE, begun |-> FALSE]

TypeOK ==
  /\ ResumeTypeOK
  /\ isClosed \in BOOLEAN
  /\ aw \in [Awaitables -> [kind : {"unused", "asend", "athrow", "aclose"},
                            send : Values \cup {None, NoDefault},
                            exc : BodyExc \cup {NoDefault},
                            done : BOOLEAN, begun : BOOLEAN]]
  /\ cur \in Awaitables \cup {None}
  /\ answer \in [Awaitables -> Answers]
  /\ overlapped \in BOOLEAN

Init ==
  /\ ResumeInit
  /\ isClosed = FALSE /\ cur = None /\ overlapped = FALSE
  /\ aw = [a \in Awaitables |-> Unused]
  /\ answer = [a \in Awaitables |-> NoOutcome]

InFlight == {a \in Awaitables : aw[a].kind # "unused" /\ ~aw[a].done}

-----------------------------------------------------------------------------
\* asend(v), athrow(e), aclose(): making the awaitable touches nothing else.
Make(a, kind, v, e) ==
  /\ cur = None
  /\ aw[a].kind = "unused"
  /\ overlapped' = (overlapped \/ InFlight # {})
  /\ aw' = [aw EXCEPT ![a] = [Unused EXCEPT !.kind = kind, !.send = v, !.exc = e]]
  /\ UNCHANGED <<resumeVars, isClosed, cur, answer>>

Asend(a, v)  == Make(a, "asend", v, NoDefault)
Athrow(a, e) == Make(a, "athrow", NoDefault, e)
Aclose(a)    == Make(a, "aclose", NoDefault, GeneratorExit)

\* The driver drops the awaitable.  AsyncGenSend.close() returns None and the
\* frame is not told, wherever it is.
Drop(a) ==
  /\ cur = None /\ aw[a].kind # "unused"
  /\ aw' = [aw EXCEPT ![a] = Unused]
  /\ answer' = [answer EXCEPT ![a] = NoOutcome]
  /\ UNCHANGED <<resumeVars, isClosed, cur, overlapped>>

-----------------------------------------------------------------------------
\* aclose() awaits an athrow and rewrites how it ends.
ForDriver(a, ans) ==
  IF aw[a].kind # "aclose" THEN ans
  ELSE IF ans.kind = "value" THEN Raises(RuntimeError)
  ELSE IF ans \in {Raises(GeneratorExit), Raises(StopAsyncIteration)} THEN Nothing
  ELSE ans

\* Awaitable a, given exception field e, gives its driver an answer without
\* entering the frame, and is done.
AnswerAtOnce(a, ans) ==
  /\ aw' = [aw EXCEPT ![a].done = TRUE, ![a].exc = NoDefault, ![a].begun = TRUE]
  /\ answer' = [answer EXCEPT ![a] = ans]
  /\ UNCHANGED <<resumeVars, isClosed, cur, overlapped>>

StepIntoWithOwnValue(a, tv, e) ==     \* mutant: the driver's value is ignored
  /\ ~isClosed
  /\ Enter(aw[a].send, e)
  /\ cur' = a
  /\ aw' = [aw EXCEPT ![a].exc = e, ![a].begun = TRUE]
  /\ UNCHANGED <<isClosed, answer, overlapped>>

\* AsyncGenSend._step(tv), with _resume_exception = e.
StepInto(a, tv, e) ==
  \/ /\ isClosed
     /\ AnswerAtOnce(a, ForDriver(a, IF e = NoDefault THEN Raises(StopAsyncIteration)
                                                      ELSE Nothing))
  \/ /\ ~isClosed
     /\ Enter(IF yieldFrom # None THEN tv ELSE aw[a].send, e)
     /\ cur' = a
     /\ aw' = [aw EXCEPT ![a].exc = e, ![a].begun = TRUE]
     /\ UNCHANGED <<isClosed, answer, overlapped>>

JustStarted(a, tv) ==
  /\ tv # None
  /\ \/ aw[a].kind = "aclose" /\ ~aw[a].begun
     \/ aw[a].send = None /\ aw[a].exc = NoDefault /\ yieldFrom = None

Send(a, tv) ==
  /\ cur = None /\ a \in InFlight
  /\ \/ /\ JustStarted(a, tv)
        /\ answer' = [answer EXCEPT ![a] = Raises(TypeError)]
        /\ UNCHANGED <<resumeVars, isClosed, aw, cur, overlapped>>
     \/ ~JustStarted(a, tv) /\ StepInto(a, tv, aw[a].exc)

\* GeneratorExit thrown into an aclose() under way closes the athrow it awaits,
\* which does nothing, and is then caught by aclose() itself.
Throw(a, e) ==
  /\ cur = None /\ a \in InFlight
  /\ IF aw[a].kind # "aclose" THEN StepInto(a, None, e)
     ELSE IF ~aw[a].begun THEN AnswerAtOnce(a, Raises(e))
     ELSE IF e = GeneratorExit THEN AnswerAtOnce(a, Nothing)
     ELSE StepInto(a, None, e)

\* A finished awaitable answers the driver without a step: send raises
\* StopIteration, throw what it was given.
AskDone(a, e) ==
  /\ cur = None /\ aw[a].done
  /\ answer' = [answer EXCEPT ![a] = Raises(e)]
  /\ UNCHANGED <<resumeVars, isClosed, aw, cur, overlapped>>

-----------------------------------------------------------------------------
StepYieldedKeepsExc ==     \* mutant: _resume_exception is not reset
  /\ outcome.kind = "yield"
  /\ Leave
  /\ cur' = None
  /\ aw' = [aw EXCEPT ![cur].done = (yieldFrom = None)]
  /\ answer' = [answer EXCEPT ![cur] = IF yieldFrom = None
                                       THEN ForDriver(cur, Value)
                                       ELSE Pending(outcome.what)]
  /\ UNCHANGED <<isClosed, overlapped>>

\* The resume function returned.  _dp_yieldfrom tells whether the value is the
\* frame's own or one to pass on.
StepYielded ==
  /\ outcome.kind = "yield"
  /\ Leave
  /\ cur' = None
  /\ aw' = [aw EXCEPT ![cur].exc = NoDefault, ![cur].done = (yieldFrom = None)]
  /\ answer' = [answer EXCEPT ![cur] = IF yieldFrom = None
                                       THEN ForDriver(cur, Value)
                                       ELSE Pending(outcome.what)]
  /\ UNCHANGED <<isClosed, overlapped>>

TranslateCompletionOnly(e) ==     \* mutant: the body's own exceptions pass
  IF e = Complete THEN StopAsyncIteration ELSE e

\* It raised: the internal completion signal becomes StopAsyncIteration, and
\* a body's own StopIteration or StopAsyncIteration becomes RuntimeError.
Translate(e) ==
  IF e = Complete THEN StopAsyncIteration
  ELSE IF e \in {StopIteration, StopAsyncIteration} THEN RuntimeError
  ELSE e

StepRaisedClosesOnCompletion ==     \* mutant: other exceptions leave it open
  /\ outcome.kind = "raise"
  /\ Leave
  /\ cur' = None
  /\ isClosed' = (outcome.what = Complete) /\ UNCHANGED overlapped
  /\ aw' = [aw EXCEPT ![cur].exc = NoDefault, ![cur].done = TRUE]
  /\ answer' = [answer EXCEPT ![cur] = ForDriver(cur, Raises(Translate(outcome.what)))]

StepRaised ==
  /\ outcome.kind = "raise"
  /\ Leave
  /\ cur' = None
  /\ isClosed' = TRUE /\ UNCHANGED overlapped
  /\ aw' = [aw EXCEPT ![cur].exc = NoDefault, ![cur].done = TRUE]
  /\ answer' = [answer EXCEPT ![cur] = ForDriver(cur, Raises(Translate(outcome.what)))]

Resume == ResumeStep /\ UNCHANGED objects

Next ==
  \/ \E a \in Awaitables :
       \/ \E v \in Values \cup {None} : Asend(a, v) \/ Send(a, v)
       \/ \E e \in BodyExc : Athrow(a, e) \/ Throw(a, e) \/ AskDone(a, e)
       \/ Aclose(a) \/ Drop(a)
  \/ Resume
  \/ StepYielded
  \/ StepRaised

Spec == Init /\ [][Next]_vars

-----------------------------------------------------------------------------
\* Unless awaitables have overlapped, a pending awaitable passed on a value of
\* the very iterator that the frame still awaits: its driver resumes that one.
PendingMeansAwaiting ==
  ~overlapped /\ cur = None =>
    \A a \in InFlight :
      answer[a].kind = "pending" => ~isClosed /\ yieldFrom = answer[a].what

\* Unless awaitables have overlapped, the NO_DEFAULT an athrow keeps as its
\* send value never gets to a body as the value of a yield, nor to an awaited
\* iterator.
SentinelStaysInside ==
  ~overlapped => ~(at = "dispatch" /\ sendValue = NoDefault /\ resumeExc = NoDefault)

\* An exception given to athrow or throw is put into the frame by one step
\* only: between steps, none is left on an awaitable that has been stepped.
ExceptionInjectedOnce ==
  cur = None => \A a \in Awaitables : aw[a].begun => aw[a].exc = NoDefault

\* The driver is told StopAsyncIteration only when the body completed (or had
\* before), never because it raised that itself; the internal signal stays in.
EndIsGenuine ==
  [][\A a \in Awaitables :
       /\ answer'[a] # Raises(Complete)
       /\ cur = a /\ answer'[a] = Raises(StopAsyncIteration) => outcome = Raises(Complete)]_vars

\* Whatever awaitables are left over, a frame that ended is not run again.
DeadFrameStaysDead == [][ended => UNCHANGED frame]_vars

-----------------------------------------------------------------------------
\* The object as its drivers see it.
Status == IF isClosed THEN "closed" ELSE IF cur # None THEN "running" ELSE "open"

Awaited == IF Status = "open" THEN yieldFrom ELSE None

Stage(r) == IF r.kind = "unused" THEN "unused"
            ELSE IF r.done THEN "done"
            ELSE IF r.begun THEN "begun" ELSE "made"

Seen == [a \in Awaitables |-> [kind |-> aw[a].kind, stage |-> Stage(aw[a])]]

Protocol == INSTANCE AsyncProtocol WITH
  Iterators <- Subs, OwnFrame <- Frame, Nobody <- None,
  Exceptions <- (BodyExc \ {StopIteration}) \cup {RuntimeError},
  Exit <- GeneratorExit, End <- StopAsyncIteration, Ignored <- RuntimeError,
  Refusal <- TypeError, Thrown <- BodyExc,
  status <- Status, awaited <- Awaited, turn <- cur, seen <- Seen

\* The object implements the protocol its drivers rely on: whatever the body
\* does, each call of theirs has one of the outcomes the protocol allows.
ImplementsAsyncProtocol == Protocol!Spec
=============================================================================
