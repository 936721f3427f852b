---------------------- MODULE ClosureGenerator_proofs ----------------------
(***************************************************************************)
(* Proofs about the generator object, for all sites, iterators, values and *)
(* exceptions.                                                             *)
(***************************************************************************)
EXTENDS ClosureGenerator, GeneratorResume_proofs, TLAPS

-----------------------------------------------------------------------------
\* A call is inside the object exactly while the frame is running, and the
\* arguments are those the operation passes.
CallAgrees ==
  /\ op = "none" <=> at = "idle"
  /\ sendValue = NoDefault => resumeExc # NoDefault
  /\ op = "close" => resumeExc = GeneratorExit
  /\ isClosed => at = "idle"

\* How the resume that is about to return ended; ended is set by no other.
ExitAgrees ==
  /\ at = "exit" => outcome.kind \in {"yield", "raise"}
  /\ at = "exit" /\ outcome.kind = "yield" =>
       /\ pc # Unstarted
       /\ outcome.what = IF yieldFrom = None THEN Frame ELSE yieldFrom
  /\ ended <=> isClosed \/ (at = "exit" /\ outcome.kind = "raise")

ContextAgrees == ~ended => throwContext = handling

\* Where a close() is on its way to the iterator the frame delegated to.
CloseOnItsWay ==
  /\ at = "dispatch" => log.was = yieldFrom
  /\ op = "close" /\ log.was \in Closable =>
       /\ at \in {"body", "exit"} => log.was \in log.told
       /\ at = "delegate" => log.was = yieldFrom \/ log.was \in log.told

\* Where the input is once the frame has been dispatched.
InputOnItsWay ==
  at \in {"body", "exit"} /\ HasInput /\ ~log.began => log.feeds > 0

\* TypeOK in two parts, the Boolean variables apart.
NonBooleans ==
  /\ FrameTypeOK
  /\ op \in {"none", "send", "throw", "close"}
  /\ result \in Outcome \cup {Ok, Raises(RuntimeError)}

Booleans == ended \in BOOLEAN /\ isClosed \in BOOLEAN

IInv ==
  /\ NonBooleans
  /\ Booleans
  /\ CallAgrees
  /\ ExitAgrees
  /\ CellsAgree
  /\ ContextAgrees
  /\ CloseOnItsWay
  /\ InputOnItsWay

-----------------------------------------------------------------------------
\* The initial state satisfies the invariant.
LEMMA InitIInv == Init => IInv
<1>1. Init => NonBooleans
  BY LogFacts, OutcomeFacts DEF Init, ResumeInit, NonBooleans, FrameTypeOK
<1>2. Init => Booleans
  BY DEF Init, ResumeInit, Booleans
<1>3. Init => CallAgrees /\ ExitAgrees /\ CellsAgree /\ ContextAgrees /\ CloseOnItsWay
              /\ InputOnItsWay
  BY ConstantFacts
  DEF Init, ResumeInit, CallAgrees, ExitAgrees, CellsAgree, ContextAgrees,
    CloseOnItsWay, InputOnItsWay
<1>4. QED
  BY <1>1, <1>2, <1>3 DEF IInv

-----------------------------------------------------------------------------
\* A resume begins: arguments and history are set, the frame is untouched.
LEMMA BeginIInv ==
  ASSUME IInv, NEW o \in {"send", "throw", "close"},
         NEW v \in Values \cup {None, NoDefault}, NEW e \in BodyExc \cup {NoDefault},
         v = NoDefault => e # NoDefault, o = "close" => e = GeneratorExit,
         NEW a \in Outcome \cup {Ok, Raises(RuntimeError)},
         Begin(o, v, e, a)
  PROVE  IInv'
<1>1. CASE /\ ~isClosed /\ op' = o /\ Enter(v, e) /\ UNCHANGED <<isClosed, result>>
  <2>1. NonBooleans'
    BY <1>1, LogFacts, OutcomeFacts DEF IInv, NonBooleans, FrameTypeOK, Enter
  <2>2. Booleans'
    BY <1>1 DEF IInv, Booleans, Enter
  <2>3. CallAgrees' /\ ExitAgrees' /\ ContextAgrees'
    BY <1>1 DEF IInv, CallAgrees, ExitAgrees, ContextAgrees, Enter
  <2>4. CellsAgree' /\ CloseOnItsWay' /\ InputOnItsWay'
    BY <1>1 DEF IInv, CellsAgree, CloseOnItsWay, InputOnItsWay, Enter, FreshLog
  <2>5. QED
    BY <2>1, <2>2, <2>3, <2>4 DEF IInv
<1>2. CASE isClosed /\ result' = a /\ UNCHANGED <<resumeVars, isClosed, op>>
  <2>1. NonBooleans' /\ CallAgrees' /\ ExitAgrees' /\ CellsAgree'
    BY <1>2
    DEF IInv, NonBooleans, FrameTypeOK, CallAgrees, ExitAgrees, CellsAgree,
      resumeVars
  <2>2. Booleans'
    BY <1>2 DEF IInv, Booleans, resumeVars
  <2>3. ContextAgrees' /\ CloseOnItsWay' /\ InputOnItsWay'
    BY <1>2
    DEF IInv, ContextAgrees, CloseOnItsWay, InputOnItsWay, HasInput, resumeVars
  <2>4. QED
    BY <2>1, <2>2, <2>3 DEF IInv
<1>3. QED
  BY <1>1, <1>2 DEF Begin

\* A resume returns to the caller, with a value or an exception.
LEMMA LeaveIInv ==
  ASSUME IInv, Yielded \/ Raised
  PROVE  IInv'
<1>1. at = "exit" /\ at' = "idle" /\ op' = "none" /\ ~isClosed
  BY DEF IInv, CallAgrees, Yielded, Raised, Leave
<1>2. NonBooleans'
  BY LogFacts, OutcomeFacts
  DEF IInv, NonBooleans, FrameTypeOK, Yielded, Raised, Leave
<1>3. Booleans'
  BY DEF IInv, Booleans, Yielded, Raised, Leave
<1>4. CallAgrees' /\ ExitAgrees' /\ ContextAgrees'
  BY ConstantFacts
  DEF IInv, CallAgrees, ExitAgrees, ContextAgrees, Yielded, Raised, Leave
<1>5. CellsAgree' /\ CloseOnItsWay' /\ InputOnItsWay'
  BY DEF IInv, CellsAgree, CloseOnItsWay, InputOnItsWay, Yielded, Raised, Leave
<1>6. QED
  BY <1>2, <1>3, <1>4, <1>5 DEF IInv

-----------------------------------------------------------------------------
\* While the frame runs, its object is open and a call is inside.
LEMMA Running ==
  ASSUME IInv, at \in {"dispatch", "body", "delegate"}
  PROVE  ~isClosed /\ ~ended /\ op # "none"
BY DEF IInv, CallAgrees, ExitAgrees

\* The body begins.
LEMMA DispatchStartIInv ==
  ASSUME IInv, DispatchStart, UNCHANGED wrapper
  PROVE  IInv'
<1>1. ~isClosed /\ ~ended /\ op # "none"
  BY Running DEF DispatchStart
<1>2. NonBooleans'
  BY LogMarks
  DEF IInv, NonBooleans, FrameTypeOK, wrapper, DispatchStart, EnterBody, arguments
<1>3. Booleans'
  BY DEF IInv, Booleans, wrapper, DispatchStart
<1>4. CallAgrees' /\ ExitAgrees' /\ CellsAgree' /\ ContextAgrees'
  BY DEF IInv, CallAgrees, ExitAgrees, CellsAgree, ContextAgrees, wrapper,
    arguments, DispatchStart, EnterBody
<1>5. CloseOnItsWay' /\ InputOnItsWay'
  BY <1>1, ConstantFacts
  DEF IInv, CellsAgree, CloseOnItsWay, InputOnItsWay, DispatchStart
<1>6. QED
  BY <1>2, <1>3, <1>4, <1>5 DEF IInv

\* The exception is raised at the yield.
LEMMA DispatchYieldThrowIInv ==
  ASSUME IInv, DispatchYieldThrow, UNCHANGED wrapper
  PROVE  IInv'
<1>1. ~isClosed /\ ~ended /\ op # "none"
  BY Running DEF DispatchYieldThrow
<1>2. /\ handling' \in BodyExc \cup {None} /\ throwContext' \in BodyExc \cup {None}
      /\ outcome' \in Outcome
      /\ \/ at' = "body" /\ throwContext' = handling' /\ ended' = ended
         \/ at' = "exit" /\ outcome'.kind = "raise" /\ ended' = TRUE
  BY RaiseFacts DEF IInv, NonBooleans, FrameTypeOK, DispatchYieldThrow
<1>3. NonBooleans'
  BY <1>2, LogFacts
  DEF IInv, NonBooleans, FrameTypeOK, wrapper, DispatchYieldThrow, arguments
<1>4. Booleans'
  BY <1>2 DEF IInv, Booleans, wrapper
<1>5. CallAgrees' /\ ExitAgrees' /\ CellsAgree' /\ ContextAgrees'
  BY <1>2
  DEF IInv, CallAgrees, ExitAgrees, CellsAgree, ContextAgrees, wrapper, arguments,
    DispatchYieldThrow
<1>6. CloseOnItsWay' /\ InputOnItsWay'
  BY <1>1, ConstantFacts, LogFacts
  DEF IInv, NonBooleans, FrameTypeOK, CellsAgree, CloseOnItsWay, InputOnItsWay,
    DispatchYieldThrow
<1>7. QED
  BY <1>3, <1>4, <1>5, <1>6 DEF IInv

\* The yield has its value.
LEMMA DispatchYieldSendIInv ==
  ASSUME IInv, DispatchYieldSend, UNCHANGED wrapper
  PROVE  IInv'
<1>1. ~isClosed /\ ~ended /\ op # "none"
  BY Running DEF DispatchYieldSend
<1>2. NonBooleans'
  BY LogFacts
  DEF IInv, NonBooleans, FrameTypeOK, wrapper, DispatchYieldSend, EnterBody,
    arguments
<1>3. Booleans'
  BY DEF IInv, Booleans, wrapper, DispatchYieldSend
<1>4. CallAgrees' /\ ExitAgrees' /\ CellsAgree' /\ ContextAgrees'
  BY DEF IInv, CallAgrees, ExitAgrees, CellsAgree, ContextAgrees, wrapper,
    arguments, DispatchYieldSend, EnterBody
<1>5. CloseOnItsWay' /\ InputOnItsWay'
  BY ConstantFacts, LogFacts
  DEF IInv, NonBooleans, FrameTypeOK, CallAgrees, CloseOnItsWay, InputOnItsWay,
    HasInput, wrapper, arguments, DispatchYieldSend
<1>6. QED
  BY <1>2, <1>3, <1>4, <1>5 DEF IInv

\* The delegated iterator is to be asked.
LEMMA DispatchDelegateIInv ==
  ASSUME IInv, DispatchDelegate, UNCHANGED wrapper
  PROVE  IInv'
<1>1. ~isClosed /\ ~ended /\ op # "none"
  BY Running DEF DispatchDelegate
<1>2. NonBooleans'
  BY DEF IInv, NonBooleans, FrameTypeOK, wrapper, DispatchDelegate, arguments
<1>3. Booleans'
  BY DEF IInv, Booleans, wrapper, DispatchDelegate
<1>4. CallAgrees' /\ ExitAgrees' /\ CellsAgree' /\ ContextAgrees'
  BY DEF IInv, CallAgrees, ExitAgrees, CellsAgree, ContextAgrees, wrapper,
    arguments, DispatchDelegate
<1>5. CloseOnItsWay' /\ InputOnItsWay'
  BY DEF IInv, CloseOnItsWay, InputOnItsWay, DispatchDelegate
<1>6. QED
  BY <1>2, <1>3, <1>4, <1>5 DEF IInv

\* The frame suspends at one of its yields.
LEMMA BodyYieldIInv ==
  ASSUME IInv, NEW s \in YieldSites, BodyYield(s), UNCHANGED wrapper
  PROVE  IInv'
<1>1. ~isClosed /\ ~ended /\ op # "none"
  BY Running DEF BodyYield
<1>2. NonBooleans'
  BY OutcomeFacts DEF IInv, NonBooleans, FrameTypeOK, wrapper, BodyYield, arguments
<1>3. Booleans'
  BY DEF IInv, Booleans, wrapper, BodyYield
<1>4. CallAgrees' /\ ExitAgrees' /\ CellsAgree' /\ ContextAgrees'
  BY ConstantFacts, OutcomeFacts
  DEF IInv, CallAgrees, ExitAgrees, CellsAgree, ContextAgrees, wrapper, arguments,
    BodyYield
<1>5. CloseOnItsWay' /\ InputOnItsWay'
  BY DEF IInv, CloseOnItsWay, InputOnItsWay, HasInput, wrapper, arguments, BodyYield
<1>6. QED
  BY <1>2, <1>3, <1>4, <1>5 DEF IInv

\* The yielded expression raises.
LEMMA BodyYieldFailsIInv ==
  ASSUME IInv, NEW s \in YieldSites, NEW e \in BodyExc, BodyYieldFails(s, e), UNCHANGED wrapper
  PROVE  IInv'
<1>1. ~isClosed /\ ~ended /\ op # "none"
  BY Running DEF BodyYieldFails
<1>2. /\ handling' \in BodyExc \cup {None} /\ throwContext' \in BodyExc \cup {None}
      /\ outcome' \in Outcome
      /\ \/ at' = "body" /\ throwContext' = handling' /\ ended' = ended
         \/ at' = "exit" /\ outcome'.kind = "raise" /\ ended' = TRUE
  BY RaiseFacts DEF IInv, NonBooleans, FrameTypeOK, BodyYieldFails
<1>3. NonBooleans'
  BY <1>2 DEF IInv, NonBooleans, FrameTypeOK, wrapper, BodyYieldFails, arguments
<1>4. Booleans'
  BY <1>2 DEF IInv, Booleans, wrapper
<1>5. CallAgrees' /\ ExitAgrees' /\ CellsAgree' /\ ContextAgrees'
  BY <1>2
  DEF IInv, CallAgrees, ExitAgrees, CellsAgree, ContextAgrees, wrapper, arguments,
    BodyYieldFails
<1>6. CloseOnItsWay' /\ InputOnItsWay'
  BY <1>2
  DEF IInv, CloseOnItsWay, InputOnItsWay, HasInput, wrapper, arguments,
    BodyYieldFails
<1>7. QED
  BY <1>3, <1>4, <1>5, <1>6 DEF IInv

\* Delegation begins.
LEMMA BodyYieldFromIInv ==
  ASSUME IInv, NEW s \in DelegateSites, NEW i \in Subs, BodyYieldFrom(s, i), UNCHANGED wrapper
  PROVE  IInv'
<1>1. ~isClosed /\ ~ended /\ op # "none"
  BY Running DEF BodyYieldFrom
<1>2. NonBooleans'
  BY DEF IInv, NonBooleans, FrameTypeOK, wrapper, BodyYieldFrom, arguments
<1>3. Booleans'
  BY DEF IInv, Booleans, wrapper, BodyYieldFrom
<1>4. CallAgrees' /\ ExitAgrees' /\ CellsAgree' /\ ContextAgrees'
  BY DEF IInv, CallAgrees, ExitAgrees, CellsAgree, ContextAgrees, wrapper,
    arguments, BodyYieldFrom
<1>5. CloseOnItsWay' /\ InputOnItsWay'
  BY DEF IInv, CloseOnItsWay, InputOnItsWay, wrapper, BodyYieldFrom
<1>6. QED
  BY <1>2, <1>3, <1>4, <1>5 DEF IInv

\* The body raises.
LEMMA BodyRaiseIInv ==
  ASSUME IInv, NEW e \in BodyExc, BodyRaise(e), UNCHANGED wrapper
  PROVE  IInv'
<1>1. ~isClosed /\ ~ended /\ op # "none"
  BY Running DEF BodyRaise
<1>2. /\ handling' \in BodyExc \cup {None} /\ throwContext' \in BodyExc \cup {None}
      /\ outcome' \in Outcome
      /\ \/ at' = "body" /\ throwContext' = handling' /\ ended' = ended
         \/ at' = "exit" /\ outcome'.kind = "raise" /\ ended' = TRUE
  BY RaiseFacts DEF IInv, NonBooleans, FrameTypeOK, BodyRaise
<1>3. NonBooleans'
  BY <1>2 DEF IInv, NonBooleans, FrameTypeOK, wrapper, BodyRaise, arguments
<1>4. Booleans'
  BY <1>2 DEF IInv, Booleans, wrapper
<1>5. CallAgrees' /\ ExitAgrees' /\ CellsAgree' /\ ContextAgrees'
  BY <1>2
  DEF IInv, CallAgrees, ExitAgrees, CellsAgree, ContextAgrees, wrapper, arguments,
    BodyRaise
<1>6. CloseOnItsWay' /\ InputOnItsWay'
  BY <1>2
  DEF IInv, CloseOnItsWay, InputOnItsWay, HasInput, wrapper, arguments, BodyRaise
<1>7. QED
  BY <1>3, <1>4, <1>5, <1>6 DEF IInv

\* The body completes.
LEMMA BodyReturnIInv ==
  ASSUME IInv, BodyReturn, UNCHANGED wrapper
  PROVE  IInv'
<1>1. ~isClosed /\ ~ended /\ op # "none"
  BY Running DEF BodyReturn
<1>2. NonBooleans'
  BY ConstantFacts, OutcomeFacts
  DEF IInv, NonBooleans, FrameTypeOK, wrapper, BodyReturn, arguments
<1>3. Booleans'
  BY DEF IInv, Booleans, wrapper, BodyReturn
<1>4. CallAgrees' /\ ExitAgrees' /\ CellsAgree' /\ ContextAgrees'
  BY ConstantFacts, OutcomeFacts
  DEF IInv, CallAgrees, ExitAgrees, CellsAgree, ContextAgrees, wrapper, arguments,
    BodyReturn
<1>5. CloseOnItsWay' /\ InputOnItsWay'
  BY DEF IInv, CloseOnItsWay, InputOnItsWay, HasInput, wrapper, arguments,
    BodyReturn
<1>6. QED
  BY <1>2, <1>3, <1>4, <1>5 DEF IInv

\* A handler is left.
LEMMA BodyLeaveHandlerIInv ==
  ASSUME IInv, BodyLeaveHandler, UNCHANGED wrapper
  PROVE  IInv'
<1>1. ~isClosed /\ ~ended /\ op # "none"
  BY Running DEF BodyLeaveHandler
<1>2. NonBooleans'
  BY DEF IInv, NonBooleans, FrameTypeOK, wrapper, BodyLeaveHandler, arguments
<1>3. Booleans'
  BY DEF IInv, Booleans, wrapper, BodyLeaveHandler
<1>4. CallAgrees' /\ ExitAgrees' /\ CellsAgree' /\ ContextAgrees'
  BY DEF IInv, CallAgrees, ExitAgrees, CellsAgree, ContextAgrees, wrapper,
    arguments, BodyLeaveHandler
<1>5. CloseOnItsWay' /\ InputOnItsWay'
  BY DEF IInv, CloseOnItsWay, InputOnItsWay, HasInput, wrapper, arguments,
    BodyLeaveHandler
<1>6. QED
  BY <1>2, <1>3, <1>4, <1>5 DEF IInv

\* The iterator yields.
LEMMA DelegateYieldsIInv ==
  ASSUME IInv, DelegateYields, UNCHANGED wrapper
  PROVE  IInv'
<1>1. ~isClosed /\ ~ended /\ op # "none"
  BY Running DEF DelegateYields
<1>2. NonBooleans'
  BY LogFacts, OutcomeFacts
  DEF IInv, NonBooleans, FrameTypeOK, CellsAgree, wrapper, DelegateYields, AskLog,
    arguments
<1>3. Booleans'
  BY DEF IInv, Booleans, wrapper, DelegateYields
<1>4. CallAgrees' /\ ExitAgrees' /\ CellsAgree' /\ ContextAgrees'
  BY ConstantFacts, OutcomeFacts
  DEF IInv, CallAgrees, ExitAgrees, CellsAgree, ContextAgrees, wrapper, arguments,
    DelegateYields
<1>5. CloseOnItsWay' /\ InputOnItsWay'
  BY ConstantFacts, LogFacts
  DEF IInv, NonBooleans, FrameTypeOK, CallAgrees, CloseOnItsWay, InputOnItsWay,
    HasInput, wrapper, arguments, DelegateYields, Asks, AskLog
<1>6. QED
  BY <1>2, <1>3, <1>4, <1>5 DEF IInv

\* The iterator is exhausted.
LEMMA DelegateDoneIInv ==
  ASSUME IInv, DelegateDone, UNCHANGED wrapper
  PROVE  IInv'
<1>1. ~isClosed /\ ~ended /\ op # "none"
  BY Running DEF DelegateDone
<1>2. NonBooleans'
  BY LogFacts
  DEF IInv, NonBooleans, FrameTypeOK, wrapper, DelegateDone, AskLog, EnterBody,
    arguments
<1>3. Booleans'
  BY DEF IInv, Booleans, wrapper, DelegateDone
<1>4. CallAgrees' /\ ExitAgrees' /\ CellsAgree' /\ ContextAgrees'
  BY DEF IInv, CallAgrees, ExitAgrees, CellsAgree, ContextAgrees, wrapper,
    arguments, DelegateDone, EnterBody
<1>5. CloseOnItsWay' /\ InputOnItsWay'
  BY ConstantFacts, LogFacts
  DEF IInv, NonBooleans, FrameTypeOK, CallAgrees, CloseOnItsWay, InputOnItsWay,
    HasInput, wrapper, arguments, DelegateDone, Asks, AskLog, EnterBody
<1>6. QED
  BY <1>2, <1>3, <1>4, <1>5 DEF IInv

\* The iterator raises.
LEMMA DelegateFailsIInv ==
  ASSUME IInv, NEW e \in BodyExc, DelegateFails(e), UNCHANGED wrapper
  PROVE  IInv'
<1>1. ~isClosed /\ ~ended /\ op # "none"
  BY Running DEF DelegateFails
<1>2. /\ handling' \in BodyExc \cup {None} /\ throwContext' \in BodyExc \cup {None}
      /\ outcome' \in Outcome
      /\ \/ at' = "body" /\ throwContext' = handling' /\ ended' = ended
         \/ at' = "exit" /\ outcome'.kind = "raise" /\ ended' = TRUE
  BY RaiseFacts DEF IInv, NonBooleans, FrameTypeOK, DelegateFails
<1>3. NonBooleans'
  BY <1>2, LogFacts
  DEF IInv, NonBooleans, FrameTypeOK, wrapper, DelegateFails, AskLog, arguments
<1>4. Booleans'
  BY <1>2 DEF IInv, Booleans, wrapper
<1>5. CallAgrees' /\ ExitAgrees' /\ CellsAgree' /\ ContextAgrees'
  BY <1>2
  DEF IInv, CallAgrees, ExitAgrees, CellsAgree, ContextAgrees, wrapper, arguments,
    DelegateFails
<1>6. CloseOnItsWay' /\ InputOnItsWay'
  BY <1>2, ConstantFacts, LogFacts
  DEF IInv, NonBooleans, FrameTypeOK, CallAgrees, CloseOnItsWay, InputOnItsWay,
    HasInput, wrapper, arguments, DelegateFails, Asks, AskLog
<1>7. QED
  BY <1>3, <1>4, <1>5, <1>6 DEF IInv

\* The exception is raised in the frame.
LEMMA DelegateReraiseIInv ==
  ASSUME IInv, DelegateReraise, UNCHANGED wrapper
  PROVE  IInv'
<1>1. ~isClosed /\ ~ended /\ op # "none"
  BY Running DEF DelegateReraise
<1>2. /\ handling' \in BodyExc \cup {None} /\ throwContext' \in BodyExc \cup {None}
      /\ outcome' \in Outcome
      /\ \/ at' = "body" /\ throwContext' = handling' /\ ended' = ended
         \/ at' = "exit" /\ outcome'.kind = "raise" /\ ended' = TRUE
  BY RaiseFacts DEF IInv, NonBooleans, FrameTypeOK, DelegateReraise, Asks
<1>3. NonBooleans'
  BY <1>2, ConstantFacts, LogFacts, LogMarks
  DEF IInv, NonBooleans, FrameTypeOK, wrapper, DelegateReraise, arguments
<1>4. Booleans'
  BY <1>2 DEF IInv, Booleans, wrapper
<1>5. CallAgrees' /\ ExitAgrees' /\ CellsAgree' /\ ContextAgrees'
  BY <1>2
  DEF IInv, CallAgrees, ExitAgrees, CellsAgree, ContextAgrees, wrapper, arguments,
    DelegateReraise
<1>6. CloseOnItsWay' /\ InputOnItsWay'
  BY <1>2, LogFacts
  DEF IInv, NonBooleans, FrameTypeOK, CallAgrees, CloseOnItsWay, InputOnItsWay,
    wrapper, DelegateReraise
<1>7. QED
  BY <1>3, <1>4, <1>5, <1>6 DEF IInv

\* Closing the iterator raises.
LEMMA DelegateCloseFailsIInv ==
  ASSUME IInv, NEW e \in BodyExc, DelegateCloseFails(e), UNCHANGED wrapper
  PROVE  IInv'
<1>1. ~isClosed /\ ~ended /\ op # "none"
  BY Running DEF DelegateCloseFails
<1>2. /\ handling' \in BodyExc \cup {None} /\ throwContext' \in BodyExc \cup {None}
      /\ outcome' \in Outcome
      /\ \/ at' = "body" /\ throwContext' = handling' /\ ended' = ended
         \/ at' = "exit" /\ outcome'.kind = "raise" /\ ended' = TRUE
  BY RaiseFacts DEF IInv, NonBooleans, FrameTypeOK, DelegateCloseFails
<1>3. NonBooleans'
  BY <1>2, ConstantFacts, LogFacts, LogMarks
  DEF IInv, NonBooleans, FrameTypeOK, wrapper, DelegateCloseFails, arguments
<1>4. Booleans'
  BY <1>2 DEF IInv, Booleans, wrapper
<1>5. CallAgrees' /\ ExitAgrees' /\ CellsAgree' /\ ContextAgrees'
  BY <1>2
  DEF IInv, CallAgrees, ExitAgrees, CellsAgree, ContextAgrees, wrapper, arguments,
    DelegateCloseFails
<1>6. CloseOnItsWay' /\ InputOnItsWay'
  BY <1>2, LogFacts
  DEF IInv, NonBooleans, FrameTypeOK, CloseOnItsWay, InputOnItsWay, wrapper,
    DelegateCloseFails
<1>7. QED
  BY <1>3, <1>4, <1>5, <1>6 DEF IInv

-----------------------------------------------------------------------------
\* The operations of the object.
LEMMA OperationIInv ==
  ASSUME IInv,
         \/ \E v \in Values \cup {None} : Send(v)
         \/ \E e \in BodyExc : Throw(e)
         \/ Close
  PROVE  IInv'
<1>1. Ok \in Outcome \cup {Ok, Raises(RuntimeError)}
  OBVIOUS
<1>2. CASE \E v \in Values \cup {None} : Send(v)
  BY <1>2, BeginIInv, ConstantFacts, OutcomeFacts DEF Send
<1>3. CASE \E e \in BodyExc : Throw(e)
  BY <1>3, BeginIInv, ConstantFacts, OutcomeFacts DEF Throw
<1>4. CASE Close
  BY <1>4, BeginIInv, ConstantFacts DEF Close
<1>5. QED
  BY <1>2, <1>3, <1>4

\* The steps of the frame.
LEMMA ResumeIInv ==
  ASSUME IInv, Resume
  PROVE  IInv'
<1>1. CASE Dispatch
  BY <1>1, DispatchStartIInv, DispatchYieldThrowIInv, DispatchYieldSendIInv,
     DispatchDelegateIInv
  DEF Dispatch, Resume
<1>2. CASE Body
  BY <1>2, BodyYieldIInv, BodyYieldFailsIInv, BodyYieldFromIInv, BodyRaiseIInv,
     BodyReturnIInv, BodyLeaveHandlerIInv
  DEF Body, Resume
<1>3. CASE Delegate
  BY <1>3, DelegateYieldsIInv, DelegateDoneIInv, DelegateFailsIInv,
     DelegateReraiseIInv, DelegateCloseFailsIInv
  DEF Delegate, Resume
<1>4. QED
  BY <1>1, <1>2, <1>3 DEF Resume, ResumeStep

\* Every step of the generator object preserves the inductive invariant.
LEMMA NextIInv == IInv /\ [Next]_vars => IInv'
<1>. SUFFICES ASSUME IInv, [Next]_vars PROVE IInv'
  OBVIOUS
<1>1. CASE UNCHANGED vars
  <2>1. NonBooleans' /\ CallAgrees' /\ ExitAgrees' /\ CellsAgree'
    BY <1>1
    DEF IInv, NonBooleans, FrameTypeOK, CallAgrees, ExitAgrees, CellsAgree, vars,
      resumeVars, wrapper
  <2>2. Booleans'
    BY <1>1 DEF IInv, Booleans, vars, resumeVars, wrapper
  <2>3. ContextAgrees' /\ CloseOnItsWay' /\ InputOnItsWay'
    BY <1>1
    DEF IInv, ContextAgrees, CloseOnItsWay, InputOnItsWay, HasInput, vars,
      resumeVars, wrapper
  <2>4. QED
    BY <2>1, <2>2, <2>3 DEF IInv
<1>2. CASE Next
  BY <1>2, OperationIInv, ResumeIInv, LeaveIInv DEF Next
<1>3. QED
  BY <1>1, <1>2

\* The inductive invariant of the generator object and its frame.
THEOREM Invariance == Spec => []IInv
BY InitIInv, NextIInv, PTL DEF Spec

-----------------------------------------------------------------------------
\* Every variable keeps its type.
THEOREM TypeCorrect == Spec => []TypeOK
<1>1. IInv => TypeOK
  BY DEF IInv, NonBooleans, Booleans, TypeOK, ResumeTypeOK
<1>2. QED
  BY <1>1, Invariance, PTL

\* Between calls, _dp_pc is at a yield-from site exactly when _dp_yieldfrom
\* names an iterator (the stores of emit_yield_site and emit_yield_from_site).
THEOREM CellsAgreeWhenSuspended == Spec => []SuspensionAgrees
<1>1. IInv => SuspensionAgrees
  BY DEF IInv, CallAgrees, ExitAgrees, CellsAgree, SuspensionAgrees, Suspended
<1>2. QED
  BY <1>1, Invariance, PTL

\* The context throw() takes is the exception the suspended frame handles.
THEOREM ContextAgreesWhenSuspended == Spec => []ThrowContextAgrees
<1>1. IInv => ThrowContextAgrees
  BY DEF IInv, CallAgrees, ExitAgrees, ContextAgrees, ThrowContextAgrees, Suspended
<1>2. QED
  BY <1>1, Invariance, PTL

\* An input to a frame that had started reaches the body or its iterator.
THEOREM InputReachesStartedFrame == Spec => []StartedInputDelivered
<1>1. IInv => StartedInputDelivered
  BY DEF IInv, InputOnItsWay, StartedInputDelivered
<1>2. QED
  BY <1>1, Invariance, PTL

\* close() reaches the iterator the frame is delegating to, if it has a close.
THEOREM CloseReachesTheDelegate == Spec => []CloseReachesDelegate
<1>1. IInv => CloseReachesDelegate
  BY DEF IInv, CloseOnItsWay, CloseReachesDelegate
<1>2. QED
  BY <1>1, Invariance, PTL

\* A step of a frame that has ended can only be the return of its resume, or
\* the answer of the closed object.
THEOREM DeadFrameIsNotRun == Spec => DeadFrameStaysDead
<1>1. IInv /\ [Next]_vars => (ended => UNCHANGED frame)
  <2>. SUFFICES ASSUME IInv, [Next]_vars, ended PROVE UNCHANGED frame
    OBVIOUS
  <2>1. ~Resume
    <3>1. Resume => at \in {"dispatch", "body", "delegate"}
      <4>1. Dispatch => at = "dispatch"
        BY DEF Dispatch, DispatchStart, DispatchYieldThrow, DispatchYieldSend,
          DispatchDelegate
      <4>2. Body => at = "body"
        BY DEF Body, BodyYield, BodyYieldFails, BodyYieldFrom, BodyRaise,
          BodyReturn, BodyLeaveHandler
      <4>3. Delegate => at = "delegate"
        BY DEF Delegate, DelegateYields, DelegateDone, DelegateFails,
          DelegateReraise, DelegateCloseFails
      <4>4. QED
        BY <4>1, <4>2, <4>3 DEF Resume, ResumeStep
    <3>2. QED
      BY <3>1, Running
  <2>2. CASE UNCHANGED vars \/ Yielded \/ Raised
    BY <2>2 DEF vars, resumeVars, Yielded, Raised, Leave, frame
  <2>3. CASE \/ \E v \in Values \cup {None} : Send(v)
             \/ \E e \in BodyExc : Throw(e)
             \/ Close
    BY <2>3 DEF Send, Throw, Close, Begin, Enter, resumeVars, frame
  <2>4. QED
    BY <2>1, <2>2, <2>3 DEF Next
<1>2. QED
  BY <1>1, Invariance, PTL DEF Spec, DeadFrameStaysDead

-----------------------------------------------------------------------------
\* The status and delegate of the protocol, as ImplementsProtocol maps them.
Status ==
  IF isClosed THEN "closed"
  ELSE IF op # "none" THEN "running"
  ELSE IF pc = Unstarted THEN "created" ELSE "suspended"

Delegated == IF Suspended THEN yieldFrom ELSE None

\* A new generator object is a created one of the protocol.
LEMMA InitRefines == Init => Protocol!Init
BY DEF Init, ResumeInit, NoOutcome, Protocol!Init, Protocol!Answer

\* The steps of the frame are invisible to the object's callers.
LEMMA ResumeStutters ==
  ASSUME IInv, Resume
  PROVE  UNCHANGED <<Status, op, Delegated, result>>
<1>1. op # "none" /\ ~isClosed
  <2>1. Dispatch => at = "dispatch"
    BY DEF Dispatch, DispatchStart, DispatchYieldThrow, DispatchYieldSend,
      DispatchDelegate
  <2>2. Body => at = "body"
    BY DEF Body, BodyYield, BodyYieldFails, BodyYieldFrom, BodyRaise, BodyReturn,
      BodyLeaveHandler
  <2>3. Delegate => at = "delegate"
    BY DEF Delegate, DelegateYields, DelegateDone, DelegateFails, DelegateReraise,
      DelegateCloseFails
  <2>4. QED
    BY <2>1, <2>2, <2>3, Running DEF Resume, ResumeStep
<1>2. QED
  BY <1>1 DEF Resume, wrapper, Status, Delegated, Suspended

\* A call begins, or is answered at once by a closed object.
LEMMA BeginRefines ==
  ASSUME IInv, NEW o \in {"send", "throw", "close"}, NEW v, NEW e, NEW a,
         a = Ok \/ \E x \in Exc : a = Raises(x),
         Begin(o, v, e, a)
  PROVE  Protocol!Next
<1>1. CASE /\ ~isClosed /\ op' = o /\ Enter(v, e) /\ UNCHANGED <<isClosed, result>>
  <2>1. Protocol!Begin(o)
    BY <1>1 DEF Begin, Suspended, Protocol!Begin
  <2>2. QED
    BY <2>1 DEF Protocol!Next
<1>2. CASE isClosed /\ result' = a /\ UNCHANGED <<resumeVars, isClosed, op>>
  <2>1. a \in Protocol!ClosedAnswers
    BY DEF Ok, Raises, Protocol!ClosedAnswers, Protocol!Answer
  <2>2. Protocol!AnswerClosed(a)
    BY <1>2 DEF Begin, Suspended, Protocol!AnswerClosed
  <2>3. QED
    BY <2>1, <2>2 DEF Protocol!Next
<1>3. QED
  BY <1>1, <1>2 DEF Begin

\* A value comes out.
LEMMA YieldedRefines ==
  ASSUME IInv, Yielded
  PROVE  Protocol!Next
<1>1. /\ at = "exit" /\ op # "none" /\ ~isClosed /\ ~ended /\ pc # Unstarted
      /\ outcome.what = IF yieldFrom = None THEN Frame ELSE yieldFrom
  BY DEF IInv, CallAgrees, ExitAgrees, Yielded, Leave
<1>2. yieldFrom \in Subs \cup {None}
  BY DEF IInv, NonBooleans, FrameTypeOK
<1>3. outcome = Protocol!Answer("yield", outcome.what)
  BY DEF IInv, NonBooleans, FrameTypeOK, Outcome, NoOutcome, Yields, Raises,
    Yielded, Protocol!Answer
<1>4. Protocol!Suspend(outcome.what)
  BY <1>1, <1>2, <1>3, ConstantFacts
  DEF Yielded, Leave, Suspended, Raises, RuntimeError, Protocol!Suspend,
    Protocol!Answer
<1>5. outcome.what \in Subs \cup {Frame}
  BY <1>1, <1>2
<1>6. QED
  BY <1>4, <1>5 DEF Protocol!Next

\* An exception comes out.
LEMMA RaisedRefines ==
  ASSUME IInv, Raised
  PROVE  Protocol!Next
<1>1. at = "exit" /\ op # "none" /\ ~isClosed
  BY DEF IInv, CallAgrees, Raised, Leave
<1>2. outcome.what \in Exc /\ outcome = Protocol!Answer("raise", outcome.what)
  BY DEF IInv, NonBooleans, FrameTypeOK, Outcome, NoOutcome, Yields, Raises, Raised,
    Protocol!Answer
<1>3. Protocol!Finish(outcome.what)
  BY <1>1, <1>2 DEF Raised, Suspended, Ok, Protocol!Finish, Protocol!Answer
<1>4. QED
  BY <1>2, <1>3 DEF Protocol!Next

\* Every step of the object is a step of the protocol, or none the caller sees.
LEMMA StepRefines == IInv /\ [Next]_vars => [Protocol!Next]_<<Status, op, Delegated, result>>
<1>. SUFFICES ASSUME IInv, [Next]_vars
              PROVE  Protocol!Next \/ UNCHANGED <<Status, op, Delegated, result>>
  OBVIOUS
<1>1. CASE UNCHANGED vars
  BY <1>1 DEF vars, wrapper, resumeVars, Status, Delegated, Suspended
<1>2. CASE \E v \in Values \cup {None} : Send(v)
  BY <1>2, BeginRefines, ConstantFacts DEF Send
<1>3. CASE \E e \in BodyExc : Throw(e)
  BY <1>3, BeginRefines, ConstantFacts DEF Throw
<1>4. CASE Close
  BY <1>4, BeginRefines DEF Close
<1>5. QED
  BY <1>1, <1>2, <1>3, <1>4, ResumeStutters, YieldedRefines, RaisedRefines DEF Next

\* ClosureGenerator and the resume function it drives implement the protocol
\* that callers of a generator object rely on.
THEOREM Refinement == Spec => ImplementsProtocol
<1>1. IInv /\ [Next]_vars => [Protocol!Next]_(Protocol!protocolVars)
  BY StepRefines DEF Protocol!protocolVars, Status, Delegated
<1>2. QED
  BY <1>1, InitRefines, Invariance, PTL DEF Spec, ImplementsProtocol, Protocol!Spec
=============================================================================
