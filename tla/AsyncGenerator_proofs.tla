----------------------- MODULE AsyncGenerator_proofs -----------------------
(***************************************************************************)
(* Proofs about the async generator object, for any number of awaitables,  *)
(* whatever their drivers do with them and however they overlap.           *)
(***************************************************************************)
EXTENDS AsyncGenerator, GeneratorResume_proofs, TLAPS

-----------------------------------------------------------------------------
\* What an awaitable may hold for its driver while it is unfinished.
Unfinished == {NoOutcome, Raises(TypeError)} \cup {Pending(i) : i \in Subs}

ObjectsTypeOK ==
  /\ aw \in [Awaitables -> [kind : {"unused", "asend", "athrow", "aclose"},
                            send : Values \cup {None, NoDefault},
                            exc : BodyExc \cup {NoDefault},
                            done : BOOLEAN, begun : BOOLEAN]]
  /\ cur \in Awaitables \cup {None}
  /\ answer \in [Awaitables -> Answers]

Booleans == ended \in BOOLEAN /\ isClosed \in BOOLEAN /\ overlapped \in BOOLEAN

\* The frame runs exactly while an unfinished awaitable is being stepped, and
\* the object is closed when the frame has ended and that has been noticed.
StepAgrees ==
  /\ cur = None <=> at = "idle"
  /\ cur # None => cur \in InFlight /\ aw[cur].begun
  /\ at = "idle" => (ended <=> isClosed)
  /\ at # "idle" => ~isClosed

\* An awaitable not made yet holds nothing.
UnusedIsBlank ==
  \A a \in Awaitables : aw[a].kind = "unused" =>
    /\ ~aw[a].done /\ ~aw[a].begun
    /\ aw[a].send = None
    /\ answer[a] = NoOutcome

AnswerAgrees ==
  \A a \in Awaitables :
    /\ a \in InFlight => answer[a] \in Unfinished
    /\ answer[a] # Raises(Complete)

\* Only the awaitable being stepped holds an exception for the frame.
ExcAgrees ==
  \A a \in Awaitables : aw[a].begun /\ a # cur => aw[a].exc = NoDefault

\* Only an awaitable with an exception still to be thrown has no value to send.
SentinelNotYet ==
  \A a \in Awaitables : aw[a].send = NoDefault => aw[a].exc # NoDefault \/ aw[a].begun

OneAtATime == ~overlapped => \A a, b \in InFlight : a = b

\* Without overlap, an awaitable left unfinished by a step left the frame
\* awaiting the iterator whose value it passed on.
BegunMeansAwaiting ==
  ~overlapped /\ cur = None =>
    \A a \in InFlight : aw[a].begun =>
      ~isClosed /\ yieldFrom # None /\ answer[a] = Pending(yieldFrom)

IInv ==
  /\ FrameInv
  /\ ObjectsTypeOK
  /\ Booleans
  /\ StepAgrees
  /\ UnusedIsBlank
  /\ AnswerAgrees
  /\ ExcAgrees
  /\ SentinelNotYet
  /\ OneAtATime
  /\ BegunMeansAwaiting
  /\ PendingMeansAwaiting
  /\ SentinelStaysInside

-----------------------------------------------------------------------------
\* What the assumptions on the constants come to here.
LEMMA AsyncFacts ==
  /\ None \notin Awaitables
  /\ NoDefault \notin Values /\ NoDefault # None
  /\ StopAsyncIteration \in BodyExc /\ GeneratorExit \in BodyExc
  /\ StopAsyncIteration # Complete /\ Complete \notin BodyExc
  /\ RuntimeError # Complete /\ TypeError # Complete
  /\ None \notin Subs /\ Frame \notin Subs
BY ConstantFacts, AsyncConstants, ConstantsDistinct
DEF BodyExc, Names, StopAsyncIteration, StopIteration, GeneratorExit, RuntimeError,
  TypeError

\* Answers, kind by kind.
LEMMA AnswerFacts ==
  /\ Unfinished \subseteq Answers /\ NoOutcome \in Unfinished
  /\ Raises(TypeError) \in Unfinished /\ Value \in Answers /\ Nothing \in Answers
  /\ \A e \in Exc \cup {RuntimeError, TypeError} : Raises(e) \in Answers
  /\ \A i \in Subs : Pending(i) \in Unfinished
  /\ \A i : Pending(i).kind = "pending" /\ Pending(i).what = i
  /\ NoOutcome.kind # "pending" /\ \A e : Raises(e).kind # "pending"
BY DEF Unfinished, Answers, Pending, Value, Nothing, NoOutcome, Raises

\* An answer that is no internal signal stays none on its way to the driver.
LEMMA ForDriverFacts ==
  ASSUME NEW a \in Awaitables, NEW ans \in Answers, ans # Raises(Complete)
  PROVE  ForDriver(a, ans) \in Answers /\ ForDriver(a, ans) # Raises(Complete)
BY AsyncFacts, AnswerFacts DEF ForDriver, Raises, Nothing

\* The initial state satisfies the invariant.
LEMMA InitIInv == Init => IInv
<1>. SUFFICES ASSUME Init PROVE IInv
  OBVIOUS
<1>1. FrameInv
  BY ConstantFacts, LogFacts, OutcomeFacts
  DEF Init, ResumeInit, FrameInv, FrameTypeOK, CellsAgree, EndAgrees
<1>2. ObjectsTypeOK
  BY AnswerFacts DEF Init, ObjectsTypeOK, Unused
<1>3. Booleans
  BY DEF Init, ResumeInit, Booleans
<1>4. InFlight = {}
  BY DEF Init, InFlight, Unused
<1>5. StepAgrees
  BY DEF Init, ResumeInit, StepAgrees
<1>6. UnusedIsBlank /\ AnswerAgrees /\ ExcAgrees /\ SentinelNotYet
  BY <1>4, AsyncFacts
  DEF Init, UnusedIsBlank, AnswerAgrees, ExcAgrees, SentinelNotYet, Unused, NoOutcome,
    Raises
<1>7. OneAtATime /\ BegunMeansAwaiting /\ PendingMeansAwaiting
  BY <1>4 DEF OneAtATime, BegunMeansAwaiting, PendingMeansAwaiting
<1>8. SentinelStaysInside
  BY DEF Init, ResumeInit, SentinelStaysInside
<1>9. QED
  BY <1>1, <1>2, <1>3, <1>5, <1>6, <1>7, <1>8 DEF IInv

-----------------------------------------------------------------------------
\* asend(), athrow() and aclose() make an awaitable.
LEMMA MakeIInv ==
  ASSUME IInv, NEW a \in Awaitables, NEW kind \in {"asend", "athrow", "aclose"},
         NEW v \in Values \cup {None, NoDefault}, NEW e \in BodyExc \cup {NoDefault},
         v = NoDefault => e # NoDefault,
         Make(a, kind, v, e)
  PROVE  IInv'
<1>1. /\ aw'[a].kind = kind /\ aw'[a].send = v /\ aw'[a].exc = e
      /\ aw'[a].done = FALSE /\ aw'[a].begun = FALSE
      /\ \A b \in Awaitables \ {a} : aw'[b] = aw[b]
  BY DEF IInv, ObjectsTypeOK, Make, Unused
<1>2. UNCHANGED resumeVars /\ UNCHANGED <<isClosed, cur, answer>> /\ cur = None
  BY DEF Make
<1>3. InFlight' = InFlight \cup {a} /\ a \notin InFlight
  BY <1>1 DEF InFlight, Make
<1>4. FrameInv'
  BY <1>2, FrameUntouched DEF IInv
<1>5. ObjectsTypeOK'
  BY <1>2 DEF IInv, ObjectsTypeOK, Make, Unused
<1>6. Booleans'
  BY <1>2 DEF IInv, Booleans, Make, resumeVars
<1>7. StepAgrees'
  BY <1>2, <1>3 DEF IInv, StepAgrees, resumeVars
<1>8. answer[a] = NoOutcome
  BY DEF IInv, UnusedIsBlank, Make
<1>9. UnusedIsBlank' /\ ExcAgrees' /\ SentinelNotYet'
  BY <1>1, <1>2 DEF IInv, UnusedIsBlank, ExcAgrees, SentinelNotYet
<1>10. AnswerAgrees'
  BY <1>2, <1>3, <1>8, AnswerFacts DEF IInv, AnswerAgrees
<1>11. ~overlapped' => ~overlapped /\ InFlight = {}
  BY DEF Make
<1>12. OneAtATime' /\ BegunMeansAwaiting'
  BY <1>1, <1>3, <1>11 DEF OneAtATime, BegunMeansAwaiting
<1>13. PendingMeansAwaiting'
  BY <1>2, <1>3, <1>8, <1>11, AnswerFacts DEF PendingMeansAwaiting
<1>14. SentinelStaysInside'
  BY <1>2, <1>11 DEF IInv, StepAgrees, SentinelStaysInside, resumeVars
<1>15. QED
  BY <1>4, <1>5, <1>6, <1>7, <1>9, <1>10, <1>12, <1>13, <1>14 DEF IInv

\* The driver drops one.
LEMMA DropIInv ==
  ASSUME IInv, NEW a \in Awaitables, Drop(a)
  PROVE  IInv'
<1>1. /\ aw'[a] = Unused
      /\ \A b \in Awaitables \ {a} : aw'[b] = aw[b]
      /\ answer'[a] = NoOutcome
      /\ \A b \in Awaitables \ {a} : answer'[b] = answer[b]
  BY DEF IInv, ObjectsTypeOK, Drop
<1>2. UNCHANGED resumeVars /\ UNCHANGED <<isClosed, cur, overlapped>> /\ cur = None
  BY DEF Drop
<1>3. InFlight' = InFlight \ {a}
  BY <1>1 DEF InFlight, Unused
<1>4. FrameInv'
  BY <1>2, FrameUntouched DEF IInv
<1>5. ObjectsTypeOK'
  BY <1>2, AnswerFacts DEF IInv, ObjectsTypeOK, Drop, Unused
<1>6. Booleans'
  BY <1>2 DEF IInv, Booleans, resumeVars
<1>7. StepAgrees'
  BY <1>2 DEF IInv, StepAgrees, resumeVars
<1>8. UnusedIsBlank' /\ ExcAgrees' /\ SentinelNotYet'
  BY <1>1, <1>2, AsyncFacts
  DEF IInv, UnusedIsBlank, ExcAgrees, SentinelNotYet, Unused
<1>9. AnswerAgrees'
  BY <1>1, <1>3 DEF IInv, AnswerAgrees, NoOutcome, Raises
<1>10. OneAtATime' /\ BegunMeansAwaiting' /\ PendingMeansAwaiting'
  BY <1>1, <1>2, <1>3
  DEF IInv, OneAtATime, BegunMeansAwaiting, PendingMeansAwaiting, InFlight, resumeVars
<1>11. SentinelStaysInside'
  BY <1>2 DEF IInv, StepAgrees, SentinelStaysInside, resumeVars
<1>12. QED
  BY <1>4, <1>5, <1>6, <1>7, <1>8, <1>9, <1>10, <1>11 DEF IInv

-----------------------------------------------------------------------------
\* An answer is all that a step changes.
LEMMA OnlyAnswerIInv ==
  ASSUME IInv, cur = None, NEW a \in Awaitables, NEW ans \in Answers,
         ans # Raises(Complete), ans.kind # "pending",
         a \in InFlight => ans \in Unfinished /\ (overlapped \/ ~aw[a].begun),
         aw[a].kind # "unused",
         answer' = [answer EXCEPT ![a] = ans],
         UNCHANGED <<resumeVars, isClosed, aw, cur, overlapped>>
  PROVE  IInv'
<1>1. answer'[a] = ans /\ \A b \in Awaitables \ {a} : answer'[b] = answer[b]
  BY DEF IInv, ObjectsTypeOK
<1>2. UNCHANGED resumeVars /\ InFlight' = InFlight
  BY DEF InFlight
<1>3. FrameInv'
  BY <1>2, FrameUntouched DEF IInv
<1>4. ObjectsTypeOK' /\ StepAgrees'
  BY <1>2 DEF IInv, ObjectsTypeOK, StepAgrees, resumeVars
<1>5. Booleans'
  BY DEF IInv, Booleans, resumeVars
<1>6. UnusedIsBlank' /\ AnswerAgrees' /\ ExcAgrees' /\ SentinelNotYet'
  BY <1>1, <1>2 DEF IInv, UnusedIsBlank, AnswerAgrees, ExcAgrees, SentinelNotYet
<1>7. OneAtATime' /\ BegunMeansAwaiting' /\ PendingMeansAwaiting'
  BY <1>1, <1>2
  DEF IInv, OneAtATime, BegunMeansAwaiting, PendingMeansAwaiting, InFlight, resumeVars
<1>8. SentinelStaysInside'
  BY DEF IInv, StepAgrees, SentinelStaysInside, resumeVars
<1>9. QED
  BY <1>3, <1>4, <1>5, <1>6, <1>7, <1>8 DEF IInv

\* What one awaitable keeps changes, and nothing else.
Kept == [kind : {"unused", "asend", "athrow", "aclose"}, send : Values \cup {None, NoDefault},
         exc : BodyExc \cup {NoDefault}, done : BOOLEAN, begun : BOOLEAN]
LEMMA KeptTyped ==
  ASSUME aw \in [Awaitables -> Kept], NEW a \in Awaitables, NEW r \in Kept,
         aw' = [aw EXCEPT ![a] = r]
  PROVE  aw' \in [Awaitables -> Kept]
OBVIOUS

\* The awaitable answers without the frame, and is done.
LEMMA AnswerAtOnceIInv ==
  ASSUME IInv, cur = None, NEW a \in InFlight, NEW ans \in Answers,
         ans # Raises(Complete), AnswerAtOnce(a, ans)
  PROVE  IInv'
<1>0. a \in Awaitables /\ aw[a].kind # "unused"
  BY DEF InFlight
<1>1. /\ aw'[a].kind = aw[a].kind /\ aw'[a].send = aw[a].send
      /\ aw'[a].exc = NoDefault /\ aw'[a].done = TRUE /\ aw'[a].begun = TRUE
      /\ \A b \in Awaitables \ {a} : aw'[b] = aw[b]
      /\ answer'[a] = ans /\ \A b \in Awaitables \ {a} : answer'[b] = answer[b]
  BY <1>0 DEF IInv, ObjectsTypeOK, AnswerAtOnce
<1>2. UNCHANGED resumeVars /\ UNCHANGED <<isClosed, cur, overlapped>>
  BY DEF AnswerAtOnce
<1>3. InFlight' = InFlight \ {a}
  BY <1>1 DEF InFlight
<1>4. FrameInv'
  BY <1>2, FrameUntouched DEF IInv
<1>5. ObjectsTypeOK'
  <2> DEFINE r == [aw[a] EXCEPT !.done = TRUE, !.exc = NoDefault, !.begun = TRUE]
  <2>1. /\ aw \in [Awaitables -> Kept] /\ answer \in [Awaitables -> Answers]
        /\ cur \in Awaitables \cup {None}
    BY DEF IInv, ObjectsTypeOK, Kept
  <2>2. aw' = [aw EXCEPT ![a] = r] /\ answer' = [answer EXCEPT ![a] = ans]
    BY DEF AnswerAtOnce
  <2>3. r \in Kept
    BY <1>0, <2>1 DEF Kept
  <2>4. aw' \in [Awaitables -> Kept]
    BY <1>0, <2>1, <2>2, <2>3, KeptTyped
  <2>5. QED
    BY <1>2, <2>1, <2>2, <2>4 DEF ObjectsTypeOK, Kept
<1>6. Booleans'
  BY <1>2 DEF IInv, Booleans, resumeVars
<1>7. StepAgrees'
  BY <1>2 DEF IInv, StepAgrees, resumeVars
<1>8. UnusedIsBlank' /\ AnswerAgrees' /\ ExcAgrees' /\ SentinelNotYet'
  BY <1>0, <1>1, <1>2, <1>3
  DEF IInv, UnusedIsBlank, AnswerAgrees, ExcAgrees, SentinelNotYet
<1>9. OneAtATime' /\ BegunMeansAwaiting' /\ PendingMeansAwaiting'
  BY <1>1, <1>2, <1>3
  DEF IInv, OneAtATime, BegunMeansAwaiting, PendingMeansAwaiting, InFlight, resumeVars
<1>10. SentinelStaysInside'
  BY <1>2 DEF IInv, StepAgrees, SentinelStaysInside, resumeVars
<1>11. QED
  BY <1>4, <1>5, <1>6, <1>7, <1>8, <1>9, <1>10 DEF IInv

\* The awaitable is stepped: the frame is entered.
LEMMA EnterIInv ==
  ASSUME IInv, cur = None, NEW a \in InFlight, NEW tv \in Values \cup {None},
         NEW e \in BodyExc \cup {NoDefault}, e = aw[a].exc \/ e \in BodyExc,
         ~isClosed, Enter(IF yieldFrom # None THEN tv ELSE aw[a].send, e),
         cur' = a, aw' = [aw EXCEPT ![a].exc = e, ![a].begun = TRUE],
         UNCHANGED <<isClosed, answer, overlapped>>
  PROVE  IInv'
<1>0. a \in Awaitables /\ aw[a].kind # "unused" /\ ~ended
  BY DEF InFlight, IInv, StepAgrees
<1>1. /\ aw'[a].kind = aw[a].kind /\ aw'[a].send = aw[a].send
      /\ aw'[a].exc = e /\ aw'[a].done = aw[a].done /\ aw'[a].begun = TRUE
      /\ \A b \in Awaitables \ {a} : aw'[b] = aw[b]
  BY <1>0 DEF IInv, ObjectsTypeOK
<1>2. InFlight' = InFlight
  BY <1>1 DEF InFlight
<1>3. (IF yieldFrom # None THEN tv ELSE aw[a].send) \in Values \cup {None, NoDefault}
  BY <1>0 DEF IInv, ObjectsTypeOK
<1>4. FrameInv' /\ at' = "dispatch" /\ ended' = ended
  BY <1>0, <1>3, EnterFrame DEF IInv, Booleans
<1>5. ObjectsTypeOK'
  <2> DEFINE r == [aw[a] EXCEPT !.exc = e, !.begun = TRUE]
  <2>1. aw \in [Awaitables -> Kept] /\ answer \in [Awaitables -> Answers]
    BY DEF IInv, ObjectsTypeOK, Kept
  <2>2. aw' = [aw EXCEPT ![a] = r]
    OBVIOUS
  <2>3. r \in Kept
    BY <1>0, <2>1 DEF Kept
  <2>4. aw' \in [Awaitables -> Kept]
    BY <1>0, <2>1, <2>2, <2>3, KeptTyped
  <2>5. QED
    BY <1>0, <2>1, <2>4 DEF ObjectsTypeOK, Kept
<1>6. Booleans'
  BY <1>4 DEF IInv, Booleans
<1>7. StepAgrees'
  BY <1>0, <1>1, <1>2, <1>4, AsyncFacts DEF IInv, StepAgrees
<1>8. UnusedIsBlank' /\ AnswerAgrees' /\ ExcAgrees' /\ SentinelNotYet'
  <2>1. UnusedIsBlank'
    BY <1>0, <1>1 DEF IInv, UnusedIsBlank
  <2>2. AnswerAgrees'
    BY <1>0, <1>1, <1>2 DEF IInv, AnswerAgrees
  <2>3. ExcAgrees'
    BY <1>0, <1>1, <1>2, AsyncFacts DEF IInv, ExcAgrees
  <2>4. SentinelNotYet'
    BY <1>0, <1>1, <1>2 DEF IInv, SentinelNotYet
  <2>5. QED
    BY <2>1, <2>2, <2>3, <2>4
<1>9. OneAtATime' /\ BegunMeansAwaiting' /\ PendingMeansAwaiting'
  BY <1>0, <1>2, AsyncFacts
  DEF IInv, OneAtATime, BegunMeansAwaiting, PendingMeansAwaiting
<1>10. SentinelStaysInside'
  <2>. SUFFICES ASSUME ~overlapped, sendValue' = NoDefault, resumeExc' = NoDefault
                PROVE  FALSE
    BY DEF SentinelStaysInside
  <2>1. e = NoDefault /\ yieldFrom = None /\ aw[a].send = NoDefault
    BY AsyncFacts DEF Enter
  <2>2. aw[a].exc = NoDefault
    BY <2>1, AsyncFacts, ConstantFacts
  <2>3. aw[a].begun
    BY <1>0, <2>1, <2>2 DEF IInv, SentinelNotYet
  <2>4. QED
    BY <2>1, <2>3 DEF IInv, BegunMeansAwaiting
<1>11. QED
  BY <1>4, <1>5, <1>6, <1>7, <1>8, <1>9, <1>10 DEF IInv

\* AsyncGenSend._step, by one of the two.
LEMMA StepIntoIInv ==
  ASSUME IInv, cur = None, NEW a \in InFlight, NEW tv \in Values \cup {None},
         NEW e \in BodyExc \cup {NoDefault}, e = aw[a].exc \/ e \in BodyExc,
         StepInto(a, tv, e)
  PROVE  IInv'
<1>1. Raises(StopAsyncIteration) \in Answers /\ Nothing \in Answers
  BY AnswerFacts, AsyncFacts DEF Exc
<1>2. Raises(StopAsyncIteration) # Raises(Complete) /\ Nothing # Raises(Complete)
  BY AsyncFacts DEF Raises, Nothing
<1>3. a \in Awaitables
  BY DEF InFlight
<1>4. \A ans \in {Raises(StopAsyncIteration), Nothing} :
        ForDriver(a, ans) \in Answers /\ ForDriver(a, ans) # Raises(Complete)
  BY <1>1, <1>2, <1>3, ForDriverFacts
<1>5. QED
  BY <1>4, AnswerAtOnceIInv, EnterIInv DEF StepInto

\* The step is over: the resume function has returned or raised.
LEMMA LeaveIInv ==
  ASSUME IInv, StepYielded \/ StepRaised
  PROVE  IInv'
<1>0. /\ at = "exit" /\ cur \in InFlight /\ cur \in Awaitables /\ ~isClosed
      /\ aw[cur].kind # "unused" /\ aw[cur].begun
      /\ cur # None /\ cur' = None /\ overlapped' = overlapped
  BY DEF IInv, StepAgrees, StepYielded, StepRaised, Leave, InFlight
<1>. DEFINE ans == answer'[cur]
<1>a. PICK d \in BOOLEAN : \E x :
        /\ aw' = [aw EXCEPT ![cur].exc = NoDefault, ![cur].done = d]
        /\ answer' = [answer EXCEPT ![cur] = x]
  <2>1. CASE StepYielded
    BY <2>1, (yieldFrom = None) \in BOOLEAN DEF StepYielded
  <2>2. CASE StepRaised
    BY <2>2 DEF StepRaised
  <2>3. QED
    BY <2>1, <2>2
<1>b. PICK x : /\ aw' = [aw EXCEPT ![cur].exc = NoDefault, ![cur].done = d]
               /\ answer' = [answer EXCEPT ![cur] = x]
  BY <1>a
<1>1. /\ aw'[cur].kind = aw[cur].kind /\ aw'[cur].send = aw[cur].send
      /\ aw'[cur].exc = NoDefault /\ aw'[cur].begun = aw[cur].begun
      /\ \A b \in Awaitables \ {cur} : aw'[b] = aw[b] /\ answer'[b] = answer[b]
  BY <1>0, <1>b DEF IInv, ObjectsTypeOK
<1>c. /\ aw' \in [Awaitables -> [kind : {"unused", "asend", "athrow", "aclose"},
                                send : Values \cup {None, NoDefault},
                                exc : BodyExc \cup {NoDefault},
                                done : BOOLEAN, begun : BOOLEAN]]
      /\ ans \in Answers => answer' \in [Awaitables -> Answers]
  <2> DEFINE r == [aw[cur] EXCEPT !.exc = NoDefault, !.done = d]
  <2>1. cur \in Awaitables /\ aw \in [Awaitables -> Kept] /\ answer \in [Awaitables -> Answers]
    BY <1>0 DEF IInv, ObjectsTypeOK, Kept
  <2>2. aw' = [aw EXCEPT ![cur] = r] /\ answer' = [answer EXCEPT ![cur] = x]
    BY <1>b
  <2>3. r \in Kept
    BY <2>1 DEF Kept
  <2>4. aw' \in [Awaitables -> Kept]
    BY <2>1, <2>2, <2>3, KeptTyped
  <2>5. ans = x
    BY <2>1, <2>2
  <2>6. x \in Answers => answer' \in [Awaitables -> Answers]
    BY <2>1, <2>2
  <2>7. QED
    BY <2>4, <2>5, <2>6 DEF Kept
<1>2. FrameInv' /\ at' = "idle" /\ ended' = ended /\ yieldFrom' = yieldFrom
  BY LeaveFrame DEF IInv, StepYielded, StepRaised, Leave
<1>3. outcome \in Outcome /\ yieldFrom \in Subs \cup {None}
  BY DEF IInv, FrameInv, FrameTypeOK
<1>4. CASE StepYielded
  <2>1. /\ isClosed' = isClosed /\ outcome.kind = "yield" /\ ~ended /\ ~isClosed
        /\ outcome.what = IF yieldFrom = None THEN Frame ELSE yieldFrom
    BY <1>0, <1>4 DEF StepYielded, IInv, FrameInv, EndAgrees, StepAgrees
  <2>2. aw'[cur].done = (yieldFrom = None)
    BY <1>0, <1>4 DEF StepYielded, IInv, ObjectsTypeOK
  <2>3. ans = IF yieldFrom = None THEN ForDriver(cur, Value) ELSE Pending(outcome.what)
    BY <1>0, <1>4 DEF StepYielded, IInv, ObjectsTypeOK
  <2>4. Value \in Answers /\ Value # Raises(Complete)
    BY AnswerFacts DEF Value, Raises
  <2>5. yieldFrom = None => ans \in Answers /\ ans # Raises(Complete)
    BY <1>0, <2>3, <2>4, ForDriverFacts
  <2>6. yieldFrom # None => /\ ans = Pending(yieldFrom) /\ ans \in Unfinished
                            /\ ans # Raises(Complete)
    BY <1>3, <2>1, <2>3, AnswerFacts
  <2>7. InFlight' = IF yieldFrom = None THEN InFlight \ {cur} ELSE InFlight
    BY <1>0, <1>1, <2>2 DEF InFlight
  <2>8. ObjectsTypeOK'
    BY <1>0, <1>c, <2>5, <2>6, AnswerFacts DEF ObjectsTypeOK
  <2>9. Booleans'
    BY <1>0, <1>2, <2>1 DEF IInv, Booleans
  <2>10. StepAgrees'
    BY <1>0, <1>2, <2>1 DEF StepAgrees
  <2>11. UnusedIsBlank' /\ ExcAgrees' /\ SentinelNotYet'
    <3>1. UnusedIsBlank'
      BY <1>0, <1>1 DEF IInv, UnusedIsBlank
    <3>2. ExcAgrees'
      BY <1>0, <1>1, <2>7 DEF IInv, ExcAgrees
    <3>3. SentinelNotYet'
      BY <1>0, <1>1, <2>7 DEF IInv, SentinelNotYet
    <3>4. QED
      BY <3>1, <3>2, <3>3
  <2>12. AnswerAgrees'
    BY <1>0, <1>1, <2>5, <2>6, <2>7 DEF IInv, AnswerAgrees
  <2>13. OneAtATime' /\ BegunMeansAwaiting'
    BY <1>0, <1>1, <1>2, <2>1, <2>6, <2>7 DEF IInv, OneAtATime, BegunMeansAwaiting
  <2>14. PendingMeansAwaiting'
    <3>. SUFFICES ASSUME ~overlapped, NEW b \in InFlight'
                  PROVE  answer'[b].kind = "pending" => yieldFrom' = answer'[b].what
      BY <1>0, <2>1 DEF PendingMeansAwaiting
    <3>1. b = cur /\ yieldFrom # None
      BY <1>0, <2>7 DEF IInv, OneAtATime
    <3>2. QED
      BY <3>1, <2>6, <1>2, AnswerFacts
  <2>15. SentinelStaysInside'
    BY <1>2 DEF SentinelStaysInside
  <2>16. QED
    BY <1>2, <2>8, <2>9, <2>10, <2>11, <2>12, <2>13, <2>14, <2>15 DEF IInv
<1>5. CASE StepRaised
  <2>1. isClosed' = TRUE /\ outcome.kind = "raise" /\ ended
    BY <1>0, <1>5 DEF StepRaised, IInv, FrameInv, EndAgrees
  <2>2. aw'[cur].done = TRUE
    BY <1>0, <1>5 DEF StepRaised, IInv, ObjectsTypeOK
  <2>3. ans = ForDriver(cur, Raises(Translate(outcome.what)))
    BY <1>0, <1>5 DEF StepRaised, IInv, ObjectsTypeOK
  <2>4. outcome.what \in Exc
    BY <1>3, <2>1 DEF Outcome, NoOutcome, Yields, Raises
  <2>5. Translate(outcome.what) \in Exc \cup {RuntimeError, TypeError}
        /\ Translate(outcome.what) # Complete
    BY <2>4, AsyncFacts DEF Translate, Exc
  <2>6. /\ Raises(Translate(outcome.what)) \in Answers
        /\ Raises(Translate(outcome.what)) # Raises(Complete)
    BY <2>5, AnswerFacts DEF Raises
  <2>7. ans \in Answers /\ ans # Raises(Complete)
    BY <1>0, <2>3, <2>6, ForDriverFacts
  <2>8. InFlight' = InFlight \ {cur}
    BY <1>0, <1>1, <2>2 DEF InFlight
  <2>9. ObjectsTypeOK'
    BY <1>0, <1>c, <2>7 DEF ObjectsTypeOK
  <2>10. Booleans'
    BY <1>0, <1>2, <2>1 DEF IInv, Booleans
  <2>11. StepAgrees'
    BY <1>0, <1>2, <2>1 DEF StepAgrees
  <2>12. UnusedIsBlank' /\ ExcAgrees' /\ SentinelNotYet'
    <3>1. UnusedIsBlank'
      BY <1>0, <1>1 DEF IInv, UnusedIsBlank
    <3>2. ExcAgrees'
      BY <1>0, <1>1 DEF IInv, ExcAgrees
    <3>3. SentinelNotYet'
      BY <1>0, <1>1 DEF IInv, SentinelNotYet
    <3>4. QED
      BY <3>1, <3>2, <3>3
  <2>13. AnswerAgrees'
    BY <1>0, <1>1, <2>7, <2>8 DEF IInv, AnswerAgrees
  <2>14. OneAtATime' /\ BegunMeansAwaiting' /\ PendingMeansAwaiting'
    BY <1>0, <2>1, <2>8
    DEF IInv, OneAtATime, BegunMeansAwaiting, PendingMeansAwaiting
  <2>15. SentinelStaysInside'
    BY <1>2 DEF SentinelStaysInside
  <2>16. QED
    BY <1>2, <2>9, <2>10, <2>11, <2>12, <2>13, <2>14, <2>15 DEF IInv
<1>6. QED
  BY <1>4, <1>5

\* The frame runs; the objects are not touched.
LEMMA ResumeIInv ==
  ASSUME IInv, Resume
  PROVE  IInv'
<1>1. /\ FrameInv' /\ ended' \in BOOLEAN
      /\ at \in {"dispatch", "body", "delegate"}
      /\ at' \in {"body", "delegate", "exit"}
  BY ResumeFrame DEF IInv, Booleans, Resume
<1>2. UNCHANGED <<isClosed, aw, cur, answer, overlapped>> /\ InFlight' = InFlight
  BY DEF Resume, objects, InFlight
<1>3. cur # None
  BY <1>1 DEF IInv, StepAgrees
<1>4. ObjectsTypeOK' /\ StepAgrees'
  BY <1>1, <1>2, <1>3 DEF IInv, ObjectsTypeOK, StepAgrees
<1>5. Booleans'
  BY <1>1, <1>2 DEF IInv, Booleans
<1>6. UnusedIsBlank' /\ AnswerAgrees' /\ ExcAgrees' /\ SentinelNotYet'
  BY <1>2 DEF IInv, UnusedIsBlank, AnswerAgrees, ExcAgrees, SentinelNotYet
<1>7. /\ OneAtATime' /\ BegunMeansAwaiting' /\ PendingMeansAwaiting'
      /\ SentinelStaysInside'
  BY <1>1, <1>2, <1>3
  DEF IInv, OneAtATime, BegunMeansAwaiting, PendingMeansAwaiting, SentinelStaysInside
<1>8. QED
  BY <1>1, <1>4, <1>5, <1>6, <1>7 DEF IInv

-----------------------------------------------------------------------------
\* What the callers and drivers do.
LEMMA CallIInv ==
  ASSUME IInv, NEW a \in Awaitables,
         \/ \E v \in Values \cup {None} : Asend(a, v) \/ Send(a, v)
         \/ \E e \in BodyExc : Athrow(a, e) \/ Throw(a, e) \/ AskDone(a, e)
         \/ Aclose(a) \/ Drop(a)
  PROVE  IInv'
<1>1. CASE \E v \in Values \cup {None} : Asend(a, v)
  BY <1>1, MakeIInv, AsyncFacts DEF Asend
<1>2. CASE \E e \in BodyExc : Athrow(a, e)
  BY <1>2, MakeIInv, ConstantFacts DEF Athrow
<1>3. CASE Aclose(a)
  BY <1>3, MakeIInv, ConstantFacts DEF Aclose
<1>4. CASE \E v \in Values \cup {None} : Send(a, v)
  <2>1. PICK v \in Values \cup {None} : Send(a, v)
    BY <1>4
  <2>2. a \in InFlight /\ cur = None /\ aw[a].kind # "unused"
        /\ aw[a].exc \in BodyExc \cup {NoDefault}
    BY <2>1 DEF Send, InFlight, IInv, ObjectsTypeOK
  <2>3. CASE JustStarted(a, v)
    <3>1. Raises(TypeError) # Raises(Complete)
      BY AsyncFacts DEF Raises
    <3>2. Raises(TypeError) \in Unfinished /\ Raises(TypeError) \in Answers
          /\ Raises(TypeError).kind # "pending"
      BY AnswerFacts
    <3>3. /\ answer' = [answer EXCEPT ![a] = Raises(TypeError)]
          /\ UNCHANGED <<resumeVars, isClosed, aw, cur, overlapped>>
      BY <2>1, <2>3 DEF Send
    <3>4. overlapped \/ ~aw[a].begun
      BY <2>2, <2>3 DEF JustStarted, IInv, BegunMeansAwaiting
    <3>5. QED
      BY <2>2, <3>1, <3>2, <3>3, <3>4, OnlyAnswerIInv
  <2>4. CASE StepInto(a, v, aw[a].exc)
    BY <2>2, <2>4, StepIntoIInv
  <2>5. QED
    BY <2>1, <2>3, <2>4 DEF Send
<1>5. CASE \E e \in BodyExc : Throw(a, e)
  <2>1. PICK e \in BodyExc : Throw(a, e)
    BY <1>5
  <2>2. a \in InFlight /\ cur = None
    BY <2>1 DEF Throw
  <2>3. CASE StepInto(a, None, e)
    BY <2>2, <2>3, StepIntoIInv
  <2>4. CASE AnswerAtOnce(a, Raises(e))
    <3>1. Raises(e) \in Answers
      BY AnswerFacts DEF Exc
    <3>2. Raises(e) # Raises(Complete)
      BY AsyncFacts DEF Raises
    <3>3. QED
      BY <2>2, <2>4, <3>1, <3>2, AnswerAtOnceIInv
  <2>5. CASE AnswerAtOnce(a, Nothing)
    <3>1. Nothing \in Answers /\ Nothing # Raises(Complete)
      BY AnswerFacts DEF Nothing, Raises
    <3>2. QED
      BY <2>2, <2>5, <3>1, AnswerAtOnceIInv
  <2>6. QED
    BY <2>1, <2>3, <2>4, <2>5 DEF Throw
<1>6. CASE \E e \in BodyExc : AskDone(a, e)
  <2>1. PICK e \in BodyExc : AskDone(a, e)
    BY <1>6
  <2>2. a \notin InFlight /\ cur = None /\ aw[a].kind # "unused"
    BY <2>1 DEF AskDone, InFlight, IInv, UnusedIsBlank
  <2>3. Raises(e) \in Answers /\ Raises(e).kind # "pending"
    BY AnswerFacts DEF Exc
  <2>4. Raises(e) # Raises(Complete)
    BY AsyncFacts DEF Raises
  <2>5. /\ answer' = [answer EXCEPT ![a] = Raises(e)]
        /\ UNCHANGED <<resumeVars, isClosed, aw, cur, overlapped>>
    BY <2>1 DEF AskDone
  <2>6. QED
    BY <2>2, <2>3, <2>4, <2>5, OnlyAnswerIInv
<1>7. CASE Drop(a)
  BY <1>7, DropIInv
<1>8. QED
  BY <1>1, <1>2, <1>3, <1>4, <1>5, <1>6, <1>7

\* Every step of the async generator preserves the inductive invariant.
LEMMA NextIInv == IInv /\ [Next]_vars => IInv'
<1>. SUFFICES ASSUME IInv, [Next]_vars PROVE IInv'
  OBVIOUS
<1>1. CASE UNCHANGED vars
  <2>1. FrameInv' /\ InFlight' = InFlight
    BY <1>1, FrameUntouched DEF IInv, vars, objects, InFlight
  <2>2. Booleans'
    BY <1>1 DEF IInv, Booleans, vars, objects, resumeVars
  <2>3. /\ ObjectsTypeOK' /\ StepAgrees' /\ UnusedIsBlank' /\ AnswerAgrees'
        /\ ExcAgrees' /\ SentinelNotYet'
    BY <1>1, <2>1
    DEF IInv, ObjectsTypeOK, StepAgrees, UnusedIsBlank, AnswerAgrees, ExcAgrees,
      SentinelNotYet, vars, objects, resumeVars
  <2>4. /\ OneAtATime' /\ BegunMeansAwaiting' /\ PendingMeansAwaiting'
        /\ SentinelStaysInside'
    BY <1>1, <2>1
    DEF IInv, OneAtATime, BegunMeansAwaiting, PendingMeansAwaiting,
      SentinelStaysInside, vars, objects, resumeVars
  <2>5. QED
    BY <2>1, <2>2, <2>3, <2>4 DEF IInv
<1>2. CASE Next
  BY <1>2, CallIInv, ResumeIInv, LeaveIInv DEF Next
<1>3. QED
  BY <1>1, <1>2

\* The inductive invariant of the async generator object and its frame.
THEOREM Invariance == Spec => []IInv
BY InitIInv, NextIInv, PTL DEF Spec

-----------------------------------------------------------------------------
\* Every variable keeps its type.
THEOREM TypeCorrect == Spec => []TypeOK
<1>1. IInv => TypeOK
  BY DEF IInv, FrameInv, ObjectsTypeOK, Booleans, TypeOK, ResumeTypeOK
<1>2. QED
  BY <1>1, Invariance, PTL

\* An exception given to athrow or throw enters the frame in one step only:
\* _step resets _resume_exception on every way out.
THEOREM InjectedOnce == Spec => []ExceptionInjectedOnce
<1>1. IInv => ExceptionInjectedOnce
  BY AsyncFacts DEF IInv, ExcAgrees, ExceptionInjectedOnce
<1>2. QED
  BY <1>1, Invariance, PTL

\* As long as awaitables do not overlap, the driver of a pending one resumes
\* the iterator whose value it was given.
THEOREM PendingIsAwaited == Spec => []PendingMeansAwaiting
<1>1. IInv => PendingMeansAwaiting
  BY DEF IInv
<1>2. QED
  BY <1>1, Invariance, PTL

\* As long as awaitables do not overlap, the send value NO_DEFAULT of athrow
\* does not reach a yield or an awaited iterator.
THEOREM SentinelIsNotSent == Spec => []SentinelStaysInside
<1>1. IInv => SentinelStaysInside
  BY DEF IInv
<1>2. QED
  BY <1>1, Invariance, PTL

\* A frame that ended is not run again, whatever awaitables are left.
THEOREM DeadFrameIsNotRun == Spec => DeadFrameStaysDead
<1>1. IInv /\ [Next]_vars => (ended => UNCHANGED frame)
  <2>. SUFFICES ASSUME IInv, [Next]_vars, ended PROVE UNCHANGED frame
    OBVIOUS
  <2>1. ~Resume
    BY ResumeFrame DEF Resume, IInv, Booleans, FrameInv, EndAgrees
  <2>2. CASE UNCHANGED vars \/ StepYielded \/ StepRaised
    BY <2>2 DEF vars, resumeVars, StepYielded, StepRaised, Leave, frame
  <2>3. ASSUME NEW a \in Awaitables, NEW v, NEW e, StepInto(a, v, e)
        PROVE  UNCHANGED frame
    BY <2>3 DEF StepInto, AnswerAtOnce, Enter, resumeVars, frame
  <2>4. CASE \E a \in Awaitables :
               \/ \E v \in Values \cup {None} : Asend(a, v) \/ Send(a, v)
               \/ \E e \in BodyExc : Athrow(a, e) \/ Throw(a, e) \/ AskDone(a, e)
               \/ Aclose(a) \/ Drop(a)
    <3>1. ASSUME NEW a \in Awaitables,
                 \/ \E v \in Values \cup {None} : Asend(a, v)
                 \/ \E e \in BodyExc : Athrow(a, e)
                 \/ Aclose(a) \/ Drop(a)
          PROVE  UNCHANGED frame
      BY <3>1 DEF Asend, Athrow, Aclose, Drop, Make, resumeVars, frame
    <3>2. ASSUME NEW a \in Awaitables, NEW v, Send(a, v)
          PROVE  UNCHANGED frame
      BY <2>3, <3>2 DEF Send, AnswerAtOnce, resumeVars, frame
    <3>3. ASSUME NEW a \in Awaitables, NEW e, Throw(a, e) \/ AskDone(a, e)
          PROVE  UNCHANGED frame
      BY <2>3, <3>3 DEF Throw, AskDone, AnswerAtOnce, resumeVars, frame
    <3>4. QED
      BY <2>4, <3>1, <3>2, <3>3
  <2>5. QED
    BY <2>1, <2>2, <2>4 DEF Next
<1>2. QED
  BY <1>1, Invariance, PTL DEF Spec, DeadFrameStaysDead

\* What any step may tell the driver of the awaitable inside the frame.
LEMMA StepTells ==
  ASSUME IInv, IInv', [Next]_vars, NEW a \in Awaitables
  PROVE  /\ answer'[a] # Raises(Complete)
         /\ cur = a /\ answer'[a] = Raises(StopAsyncIteration)
              => outcome = Raises(Complete)
<1>1. answer'[a] # Raises(Complete)
  BY DEF IInv, AnswerAgrees
<1>2. SUFFICES ASSUME cur = a, answer'[a] = Raises(StopAsyncIteration)
               PROVE  outcome = Raises(Complete)
  BY <1>1
<1>3. cur # None /\ answer[a] \in Unfinished
  BY <1>2, AsyncFacts DEF IInv, StepAgrees, AnswerAgrees
<1>4. Raises(StopAsyncIteration) \notin Unfinished
  BY DEF Unfinished, NoOutcome, Raises, Pending, StopAsyncIteration, TypeError
<1>5. answer' # answer
  BY <1>2, <1>3, <1>4
<1>6. StepYielded \/ StepRaised
  BY <1>3, <1>5
  DEF Next, vars, objects, Resume, Asend, Send, Athrow, Throw, AskDone, Aclose,
    Drop, Make
<1>7. outcome \in Outcome
  BY DEF IInv, FrameInv, FrameTypeOK
<1>8. CASE StepYielded
  <2>1. \/ answer'[a] = ForDriver(a, Value)
        \/ answer'[a] = Pending(outcome.what)
    BY <1>2, <1>8 DEF StepYielded, IInv, ObjectsTypeOK
  <2>2. QED
    BY <1>2, <2>1
    DEF ForDriver, Value, Pending, Raises, Nothing, RuntimeError, StopAsyncIteration
<1>9. CASE StepRaised
  <2>1. outcome.kind = "raise"
        /\ answer'[a] = ForDriver(a, Raises(Translate(outcome.what)))
    BY <1>2, <1>9 DEF StepRaised, IInv, ObjectsTypeOK
  <2>2. Raises(Translate(outcome.what)) = Raises(StopAsyncIteration)
    BY <1>2, <2>1
    DEF ForDriver, Raises, Nothing, RuntimeError, StopAsyncIteration
  <2>3. outcome.what = Complete
    BY <2>2 DEF Translate, Raises, RuntimeError, StopAsyncIteration
  <2>4. QED
    BY <1>7, <2>1, <2>3 DEF Outcome, NoOutcome, Yields, Raises
<1>10. QED
  BY <1>6, <1>8, <1>9

\* StopAsyncIteration tells the driver of the one thing it means, and the
\* internal signal of completion never gets out.
THEOREM EndIsTold == Spec => EndIsGenuine
<1>1. IInv /\ IInv' /\ [Next]_vars =>
        \A a \in Awaitables :
          /\ answer'[a] # Raises(Complete)
          /\ cur = a /\ answer'[a] = Raises(StopAsyncIteration)
               => outcome = Raises(Complete)
  BY StepTells
<1>2. QED
  BY <1>1, Invariance, PTL DEF Spec, EndIsGenuine

-----------------------------------------------------------------------------
\* A new object is a new one of the protocol.
LEMMA InitRefines == Init => Protocol!Init
BY DEF Init, ResumeInit, Unused, NoOutcome, Status, Awaited, Seen, Stage,
  Protocol!Init, Protocol!Unmade, Protocol!Told

\* Which awaitables are unfinished is seen alike.
LEMMA SeenUnfinished == Protocol!Unfinished = InFlight
BY DEF Protocol!Unfinished, InFlight, Seen, Stage

\* What changes one awaitable's fields shows as one change of its stage.
LEMMA SeenMoves ==
  ASSUME IInv, NEW a \in Awaitables, NEW stage,
         \A b \in Awaitables \ {a} : aw'[b] = aw[b],
         aw'[a].kind = aw[a].kind, Stage(aw'[a]) = stage
  PROVE  Protocol!Moves(a, stage)
BY DEF IInv, ObjectsTypeOK, Seen, Protocol!Moves

\* A made awaitable.
LEMMA MakeRefines ==
  ASSUME IInv, NEW a \in Awaitables, NEW kind \in {"asend", "athrow", "aclose"},
         NEW v, NEW e, Make(a, kind, v, e)
  PROVE  Protocol!Next
<1>1. aw' = [aw EXCEPT ![a] = [Unused EXCEPT !.kind = kind, !.send = v, !.exc = e]]
  BY DEF Make
<1>2. Seen' = [Seen EXCEPT ![a] = [kind |-> kind, stage |-> "made"]]
  BY <1>1 DEF IInv, ObjectsTypeOK, Seen, Stage, Unused
<1>3. Seen[a].stage = "unused"
  BY DEF Make, Seen, Stage
<1>4. UNCHANGED <<Status, Awaited, cur, answer>>
  BY DEF Make, Status, Awaited, resumeVars
<1>5. Protocol!Make(a, kind)
  BY <1>2, <1>3, <1>4, SeenUnfinished DEF Make, Protocol!Make
<1>6. QED
  BY <1>5 DEF Protocol!Next

\* A dropped one.
LEMMA DropRefines ==
  ASSUME IInv, NEW a \in Awaitables, Drop(a)
  PROVE  Protocol!Next
<1>1. Seen' = [Seen EXCEPT ![a] = Protocol!Unmade]
  BY DEF IInv, ObjectsTypeOK, Drop, Seen, Stage, Unused, Protocol!Unmade
<1>2. Seen[a].stage # "unused" /\ answer' = [answer EXCEPT ![a] = Protocol!Told("none", None)]
  BY DEF Drop, Seen, Stage, NoOutcome, Protocol!Told
<1>3. UNCHANGED <<Status, Awaited, cur, overlapped>> /\ cur = None
  BY DEF Drop, Status, Awaited, resumeVars
<1>4. Protocol!Drop(a)
  BY <1>1, <1>2, <1>3 DEF Protocol!Drop, Protocol!Hears
<1>5. QED
  BY <1>4 DEF Protocol!Next

\* An answer that comes without the frame completes the awaitable.
LEMMA AnswerAtOnceMoves ==
  ASSUME IInv, NEW a \in InFlight, NEW ans, AnswerAtOnce(a, ans)
  PROVE  /\ a \in Awaitables /\ a \in Protocol!Unfinished
         /\ Protocol!Moves(a, "done") /\ Protocol!Hears(a, ans)
         /\ UNCHANGED <<Status, Awaited, cur, overlapped>>
<1>1. a \in Awaitables /\ aw[a].kind # "unused" /\ a \in Protocol!Unfinished
  BY SeenUnfinished DEF InFlight
<1>2. aw' = [aw EXCEPT ![a].done = TRUE, ![a].exc = NoDefault, ![a].begun = TRUE]
  BY DEF AnswerAtOnce
<1>3. /\ \A b \in Awaitables \ {a} : aw'[b] = aw[b]
      /\ aw'[a].kind = aw[a].kind /\ aw'[a].done = TRUE
  BY <1>1, <1>2 DEF IInv, ObjectsTypeOK
<1>4. Stage(aw'[a]) = "done"
  BY <1>1, <1>3 DEF Stage
<1>5. QED
  BY <1>1, <1>3, <1>4, SeenMoves
  DEF AnswerAtOnce, Protocol!Hears, Status, Awaited, resumeVars

\* What an awaitable's kind is seen to be.
LEMMA SeenKind ==
  ASSUME NEW a \in Awaitables
  PROVE  Seen[a].kind = aw[a].kind /\ Seen[a].stage = Stage(aw[a])
BY DEF Seen

\* A step: of a closed generator, or into the frame of an open one.
LEMMA StepIntoRefines ==
  ASSUME IInv, cur = None, NEW a \in InFlight, NEW tv, NEW e, StepInto(a, tv, e)
  PROVE  Protocol!Next
<1>1. a \in Awaitables /\ aw[a].kind # "unused" /\ ~aw[a].done
  BY DEF InFlight
<1>2. ASSUME isClosed,
             AnswerAtOnce(a, ForDriver(a, IF e = NoDefault THEN Raises(StopAsyncIteration)
                                                           ELSE Nothing))
      PROVE  Protocol!Next
  <2>1. ForDriver(a, IF e = NoDefault THEN Raises(StopAsyncIteration) ELSE Nothing)
          \in Protocol!ClosedAnswers(Seen[a].kind)
    BY <1>1, SeenKind
    DEF ForDriver, Raises, Nothing, Protocol!ClosedAnswers, Protocol!Told
  <2>2. Status = "closed"
    BY <1>2 DEF Status
  <2>3. Protocol!AnswerClosed(a)
    BY <1>2, <2>1, <2>2, AnswerAtOnceMoves DEF Protocol!AnswerClosed
  <2>4. QED
    BY <1>1, <2>3 DEF Protocol!Next
<1>3. ASSUME ~isClosed, cur' = a, at' = "dispatch", yieldFrom' = yieldFrom,
             aw' = [aw EXCEPT ![a].exc = e, ![a].begun = TRUE],
             UNCHANGED <<isClosed, answer, overlapped>>
      PROVE  Protocol!Next
  <2>1. /\ \A b \in Awaitables \ {a} : aw'[b] = aw[b]
        /\ aw'[a].kind = aw[a].kind /\ aw'[a].done = FALSE /\ aw'[a].begun = TRUE
    BY <1>1, <1>3 DEF IInv, ObjectsTypeOK
  <2>2. Protocol!Moves(a, "begun")
    <3>1. Stage(aw'[a]) = "begun"
      BY <1>1, <2>1 DEF Stage
    <3>2. QED
      BY <1>1, <2>1, <3>1, SeenMoves
  <2>3. /\ Status = "open" /\ Status' = "running"
        /\ Awaited = yieldFrom /\ Awaited' = None
    BY <1>1, <1>3, AsyncFacts DEF Status, Awaited
  <2>4. ~overlapped /\ Seen[a].stage = "begun" =>
          Awaited # None /\ answer[a] = Protocol!Told("pending", Awaited)
    <3>. SUFFICES ASSUME ~overlapped, Seen[a].stage = "begun"
                  PROVE  Awaited # None /\ answer[a] = Protocol!Told("pending", Awaited)
      OBVIOUS
    <3>1. aw[a].begun
      BY <1>1, SeenKind DEF Stage
    <3>2. yieldFrom # None
      BY <3>1 DEF IInv, BegunMeansAwaiting
    <3>3. answer[a] = Pending(yieldFrom)
      BY <3>1 DEF IInv, BegunMeansAwaiting
    <3>4. QED
      BY <2>3, <3>2, <3>3 DEF Pending, Protocol!Told
  <2>5. Protocol!Step(a)
    BY <1>3, <2>2, <2>3, <2>4, SeenUnfinished DEF Protocol!Step
  <2>6. QED
    BY <1>1, <2>5 DEF Protocol!Next
<1>4. QED
  BY <1>2, <1>3 DEF StepInto, Enter

-----------------------------------------------------------------------------
\* What the callers and drivers do.
LEMMA CallRefines ==
  ASSUME IInv, NEW a \in Awaitables,
         \/ \E v \in Values \cup {None} : Asend(a, v) \/ Send(a, v)
         \/ \E e \in BodyExc : Athrow(a, e) \/ Throw(a, e) \/ AskDone(a, e)
         \/ Aclose(a) \/ Drop(a)
  PROVE  Protocol!Next
<1>1. CASE (\E v \in Values \cup {None} : Asend(a, v)) \/ Aclose(a)
           \/ \E e \in BodyExc : Athrow(a, e)
  BY <1>1, MakeRefines DEF Asend, Athrow, Aclose
<1>2. CASE Drop(a)
  BY <1>2, DropRefines
<1>3. CASE \E v \in Values \cup {None} : Send(a, v)
  <2>1. PICK v \in Values \cup {None} : Send(a, v)
    BY <1>3
  <2>2. a \in InFlight /\ cur = None
    BY <2>1 DEF Send
  <2>3. CASE JustStarted(a, v)
    <3>1. answer' = [answer EXCEPT ![a] = Raises(TypeError)]
          /\ UNCHANGED <<resumeVars, isClosed, aw, cur, overlapped>>
      BY <2>1, <2>3 DEF Send
    <3>2. UNCHANGED <<Status, Awaited, Seen>>
      BY <3>1 DEF Status, Awaited, Seen, resumeVars
    <3>3. overlapped \/ Seen[a].stage = "made"
      <4>1. overlapped \/ ~aw[a].begun
        BY <2>2, <2>3 DEF JustStarted, IInv, BegunMeansAwaiting
      <4>2. QED
        BY <2>2, <4>1, SeenKind DEF InFlight, Stage
    <3>4. Protocol!Refuse(a)
      BY <2>2, <3>1, <3>2, <3>3, SeenUnfinished
      DEF Protocol!Refuse, Protocol!Hears, Protocol!Told, Raises
    <3>5. QED
      BY <3>4 DEF Protocol!Next
  <2>4. CASE StepInto(a, v, aw[a].exc)
    BY <2>2, <2>4, StepIntoRefines
  <2>5. QED
    BY <2>1, <2>3, <2>4 DEF Send
<1>4. CASE \E e \in BodyExc : Throw(a, e)
  <2>1. PICK e \in BodyExc : Throw(a, e)
    BY <1>4
  <2>2. a \in InFlight /\ cur = None /\ aw[a].kind # "unused" /\ ~aw[a].done
    BY <2>1 DEF Throw, InFlight
  <2>3. CASE StepInto(a, None, e)
    BY <2>2, <2>3, StepIntoRefines
  <2>4. ASSUME aw[a].kind = "aclose",
               \/ ~aw[a].begun /\ AnswerAtOnce(a, Raises(e))
               \/ aw[a].begun /\ e = GeneratorExit /\ AnswerAtOnce(a, Nothing)
        PROVE  Protocol!Next
    <3>1. Seen[a].kind = "aclose"
          /\ Seen[a].stage = (IF aw[a].begun THEN "begun" ELSE "made")
      BY <2>2, <2>4, SeenKind DEF Stage
    <3>2. Protocol!Dismiss(a, e)
      BY <2>2, <2>4, <3>1, AnswerAtOnceMoves
      DEF Protocol!Dismiss, Protocol!Told, Raises, Nothing
    <3>3. QED
      BY <3>2 DEF Protocol!Next
  <2>5. QED
    BY <2>1, <2>3, <2>4 DEF Throw
<1>5. CASE \E e \in BodyExc : AskDone(a, e)
  <2>1. PICK e \in BodyExc : AskDone(a, e)
    BY <1>5
  <2>2. Seen[a].stage = "done"
    BY <2>1, SeenKind DEF AskDone, Stage, IInv, UnusedIsBlank
  <2>3. UNCHANGED <<Status, Awaited, Seen>>
    BY <2>1 DEF AskDone, Status, Awaited, Seen, resumeVars
  <2>4. Protocol!AskDone(a, e)
    BY <2>1, <2>2, <2>3
    DEF AskDone, Protocol!AskDone, Protocol!Hears, Protocol!Told, Raises
  <2>5. QED
    BY <2>4 DEF Protocol!Next
<1>6. QED
  BY <1>1, <1>2, <1>3, <1>4, <1>5

\* The steps of the frame are invisible to the drivers.
LEMMA FrameStutters ==
  ASSUME IInv, Resume
  PROVE  UNCHANGED <<Status, Awaited, cur, Seen, answer, overlapped>>
<1>1. cur # None /\ UNCHANGED objects
  BY ResumeFrame DEF IInv, StepAgrees, Booleans, Resume
<1>2. QED
  BY <1>1 DEF objects, Status, Awaited, Seen

\* The awaitable inside the frame, as its step ends.
LEMMA Inside ==
  ASSUME IInv, StepYielded \/ StepRaised
  PROVE  /\ cur \in Awaitables /\ aw[cur].kind # "unused" /\ ~isClosed
         /\ aw[cur].begun /\ ~aw[cur].done
         /\ Status = "running" /\ cur' = None
         /\ overlapped' = overlapped /\ yieldFrom' = yieldFrom
         /\ Seen[cur].kind = aw[cur].kind
<1>1. at = "exit" /\ cur # None /\ cur \in InFlight
  BY DEF IInv, StepAgrees, StepYielded, StepRaised, Leave
<1>2. QED
  BY <1>1, SeenKind
  DEF InFlight, IInv, StepAgrees, StepYielded, StepRaised, Leave, Status

\* A value comes out: it is passed on, or the awaitable's own.
LEMMA YieldedRefines ==
  ASSUME IInv, StepYielded
  PROVE  Protocol!Next
<1>1. outcome.what = IF yieldFrom = None THEN Frame ELSE yieldFrom
  <2>1. at = "exit" /\ outcome.kind = "yield"
    BY DEF StepYielded, Leave
  <2>2. QED
    BY <2>1 DEF IInv, FrameInv, EndAgrees
<1>2. Status' = "open" /\ Awaited' = yieldFrom
  BY Inside DEF StepYielded, Status, Awaited
<1>3. /\ \A b \in Awaitables \ {cur} : aw'[b] = aw[b]
      /\ aw'[cur].kind = aw[cur].kind /\ aw'[cur].begun = aw[cur].begun
      /\ aw'[cur].done = (yieldFrom = None)
  BY Inside DEF StepYielded, IInv, ObjectsTypeOK
<1>4. CASE yieldFrom # None
  <2>1. Seen' = Seen
    BY <1>3, <1>4, Inside DEF Seen, Stage
  <2>2. Protocol!Hears(cur, Protocol!Told("pending", yieldFrom))
    BY <1>1, <1>4 DEF StepYielded, Pending, Protocol!Hears, Protocol!Told
  <2>3. yieldFrom \in Subs
    BY <1>4 DEF IInv, FrameInv, FrameTypeOK
  <2>4. Protocol!PassOn(yieldFrom)
    BY <1>2, <2>1, <2>2, Inside DEF Protocol!PassOn
  <2>5. QED
    BY <2>3, <2>4 DEF Protocol!Next
<1>5. CASE yieldFrom = None
  <2>1. Stage(aw'[cur]) = "done"
    BY <1>3, <1>5, Inside DEF Stage
  <2>2. Protocol!Moves(cur, "done")
    BY <1>3, <2>1, Inside, SeenMoves
  <2>3. answer' = [answer EXCEPT ![cur] = ForDriver(cur, Value)]
    BY <1>5 DEF StepYielded
  <2>4. Protocol!Yield
    BY <1>2, <1>5, <2>2, <2>3, Inside
    DEF Protocol!Yield, Protocol!Hears, Protocol!Told, ForDriver, Value, Raises
  <2>5. QED
    BY <2>4 DEF Protocol!Next
<1>6. QED
  BY <1>4, <1>5

\* An exception comes out.
LEMMA RaisedRefines ==
  ASSUME IInv, StepRaised
  PROVE  Protocol!Next
<1>. DEFINE e == Translate(outcome.what)
<1>1. Status' = "closed" /\ Awaited' = None
  BY DEF StepRaised, Status, Awaited
<1>2. /\ \A b \in Awaitables \ {cur} : aw'[b] = aw[b]
      /\ aw'[cur].kind = aw[cur].kind /\ aw'[cur].done = TRUE
  BY Inside DEF StepRaised, IInv, ObjectsTypeOK
<1>3. Protocol!Moves(cur, "done")
  <2>1. Stage(aw'[cur]) = "done"
    BY <1>2, Inside DEF Stage
  <2>2. QED
    BY <1>2, <2>1, Inside, SeenMoves
<1>4. e \in (BodyExc \ {StopIteration}) \cup {RuntimeError}
  <2>1. outcome.what \in BodyExc \cup {Complete}
    BY DEF StepRaised, IInv, FrameInv, FrameTypeOK, Outcome, NoOutcome, Yields,
      Raises, Exc
  <2>2. QED
    BY <2>1, AsyncFacts DEF Translate, StopAsyncIteration, StopIteration
<1>5. answer' = [answer EXCEPT ![cur] = ForDriver(cur, Raises(e))]
  BY DEF StepRaised
<1>6. ForDriver(cur, Raises(e)) =
        IF Seen[cur].kind = "aclose" /\ e \in {GeneratorExit, StopAsyncIteration}
        THEN Protocol!Told("value", None) ELSE Protocol!Told("raise", e)
  BY Inside DEF ForDriver, Raises, Nothing, Protocol!Told
<1>. HIDE DEF e
<1>7. Protocol!Finish(e)
  BY <1>1, <1>3, <1>5, <1>6, Inside DEF Protocol!Finish, Protocol!Hears
<1>8. QED
  BY <1>4, <1>7 DEF Protocol!Next

\* Every step of the object is a step of the protocol, or none.
LEMMA StepRefines == IInv /\ [Next]_vars => [Protocol!Next]_(Protocol!protocolVars)
<1>. SUFFICES ASSUME IInv, [Next]_vars
              PROVE  Protocol!Next \/ UNCHANGED Protocol!protocolVars
  OBVIOUS
<1>1. CASE UNCHANGED vars
  BY <1>1
  DEF vars, objects, resumeVars, Protocol!protocolVars, Status, Awaited, Seen
<1>2. CASE Next
  BY <1>2, CallRefines, FrameStutters, YieldedRefines, RaisedRefines
  DEF Next, Protocol!protocolVars
<1>3. QED
  BY <1>1, <1>2

\* The async generator object implements the protocol its drivers rely on: it
\* is closed for good by the first exception that comes out, StopIteration is
\* none of them, and a pending awaitable that is alone is stepped only while
\* the frame awaits the iterator whose value it passed on.
THEOREM Refinement == Spec => ImplementsAsyncProtocol
BY InitRefines, StepRefines, Invariance, PTL DEF Spec, ImplementsAsyncProtocol, Protocol!Spec
=============================================================================
