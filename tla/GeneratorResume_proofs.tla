----------------------- MODULE GeneratorResume_proofs -----------------------
(***************************************************************************)
(* What holds of the resume function by itself, whoever calls it.          *)
(***************************************************************************)
EXTENDS GeneratorResume, TLAPS

\* _dp_pc and _dp_yieldfrom agree wherever the frame can be suspended or has
\* just been resumed.
CellsAgree ==
  /\ ~ended /\ (at \in {"idle", "dispatch", "exit"}) =>
       (pc \in DelegateSites <=> yieldFrom \in Subs)
  /\ at = "delegate" => pc \in DelegateSites /\ yieldFrom \in Subs

\* How the resume that is about to return ended, and what it hands out.
EndAgrees ==
  /\ at \in {"dispatch", "body", "delegate"} => ~ended
  /\ at = "exit" => outcome.kind \in {"yield", "raise"}
                    /\ (ended <=> outcome.kind = "raise")
  /\ at = "exit" /\ outcome.kind = "yield" =>
       outcome.what = IF yieldFrom = None THEN Frame ELSE yieldFrom

FrameInv == FrameTypeOK /\ CellsAgree /\ EndAgrees

-----------------------------------------------------------------------------
\* What the assumption on the constants comes to: None, Unstarted and the
\* other names are no site, iterator, value or user exception.
LEMMA ConstantFacts ==
  /\ YieldSites \cap DelegateSites = {} /\ Closable \subseteq Subs
  /\ Unstarted \notin YieldSites /\ Unstarted \notin DelegateSites
  /\ None \notin Subs /\ Frame \notin Subs /\ Frame # None
  /\ NoDefault \notin Values /\ None \notin Values /\ NoDefault # None
  /\ NoDefault \notin BodyExc /\ None \notin BodyExc
  /\ GeneratorExit \in BodyExc /\ StopIteration \in BodyExc
  /\ BodyExc \subseteq Exc /\ Complete \in Exc
BY ConstantsDistinct
DEF Names, None, NoDefault, GeneratorExit, StopIteration, Frame, BodyExc, Exc

\* What the history of a resume holds when it begins, and once its input is used.
LEMMA LogFacts ==
  /\ \A i \in Subs \cup {None} : FreshLog(i) \in Log
  /\ \A l \in Log :
       /\ Fed(l) \in Log /\ Fed(l).feeds > 0
       /\ Fed(l).told = l.told /\ Fed(l).began = l.began /\ Fed(l).was = l.was
BY DEF Fed, FreshLog, Log, MaxFeeds

\* The marks a resume leaves in its history keep its type.
LEMMA LogMarks ==
  ASSUME NEW l \in Log
  PROVE  /\ [l EXCEPT !.began = TRUE] \in Log
         /\ \A i \in Subs : [l EXCEPT !.told = @ \cup {i}] \in Log
<1>1. [l EXCEPT !.began = TRUE] \in Log
  BY DEF Log
<1>2. ASSUME NEW i \in Subs
      PROVE  [l EXCEPT !.told = @ \cup {i}] \in Log
  BY DEF Log
<1>3. QED
  BY <1>1, <1>2

\* The ways a resume ends, field by field.
LEMMA OutcomeFacts ==
  /\ NoOutcome \in Outcome
  /\ \A w \in Subs \cup {Frame} :
       Yields(w) \in Outcome /\ Yields(w).kind = "yield" /\ Yields(w).what = w
  /\ \A e \in Exc :
       Raises(e) \in Outcome /\ Raises(e).kind = "raise" /\ Raises(e).what = e
BY DEF Outcome, Yields, Raises

\* Raise gives its variables values of their types, and ends the resume or
\* goes to a handler that has refreshed the throw context.
LEMMA RaiseFacts ==
  ASSUME NEW e \in BodyExc, NEW ctx \in BodyExc \cup {None},
         handling \in BodyExc \cup {None}, outcome \in Outcome, Raise(e, ctx)
  PROVE  /\ handling' \in BodyExc \cup {None} /\ throwContext' \in BodyExc \cup {None}
         /\ outcome' \in Outcome
         /\ \/ at' = "body" /\ throwContext' = handling' /\ ended' = ended
            \/ at' = "exit" /\ outcome'.kind = "raise" /\ ended' = TRUE
BY ConstantFacts, OutcomeFacts DEF Raise

-----------------------------------------------------------------------------
\* A call of the resume function finds the frame as the last one left it.
LEMMA EnterFrame ==
  ASSUME FrameInv, ended \in BOOLEAN, ~ended,
         NEW v \in Values \cup {None, NoDefault}, NEW e \in BodyExc \cup {NoDefault},
         Enter(v, e)
  PROVE  FrameInv' /\ at' = "dispatch" /\ ended' = ended
<1>1. FrameTypeOK'
  BY LogFacts, OutcomeFacts DEF FrameInv, FrameTypeOK, Enter
<1>2. CellsAgree' /\ EndAgrees'
  BY DEF FrameInv, CellsAgree, EndAgrees, Enter
<1>3. QED
  BY <1>1, <1>2 DEF FrameInv, Enter

\* It returns.
LEMMA LeaveFrame ==
  ASSUME FrameInv, Leave
  PROVE  FrameInv' /\ at' = "idle" /\ ended' = ended
<1>1. FrameTypeOK'
  BY LogFacts, OutcomeFacts DEF FrameInv, FrameTypeOK, Leave
<1>2. CellsAgree' /\ EndAgrees'
  BY DEF FrameInv, CellsAgree, EndAgrees, Leave
<1>3. QED
  BY <1>1, <1>2 DEF FrameInv, Leave

\* The steps that raise an exception, whatever the context they store.
LEMMA RaiseFrame ==
  ASSUME FrameInv, at \in {"dispatch", "body", "delegate"},
         NEW e \in BodyExc, NEW ctx \in BodyExc \cup {None}, Raise(e, ctx),
         pc' \in {Unstarted} \cup YieldSites \cup DelegateSites,
         yieldFrom' \in Subs \cup {None}, log' \in Log, UNCHANGED arguments
  PROVE  FrameInv' /\ at' \in {"body", "exit"}
<1>1. /\ handling' \in BodyExc \cup {None} /\ throwContext' \in BodyExc \cup {None}
      /\ outcome' \in Outcome
      /\ \/ at' = "body" /\ throwContext' = handling' /\ ended' = ended
         \/ at' = "exit" /\ outcome'.kind = "raise" /\ ended' = TRUE
  BY RaiseFacts DEF FrameInv, FrameTypeOK
<1>2. FrameTypeOK'
  BY <1>1 DEF FrameInv, FrameTypeOK, arguments
<1>3. CellsAgree' /\ EndAgrees'
  BY <1>1 DEF FrameInv, CellsAgree, EndAgrees
<1>4. QED
  BY <1>1, <1>2, <1>3 DEF FrameInv

\* The steps of the dispatch block.
LEMMA DispatchFrame ==
  ASSUME FrameInv, Dispatch
  PROVE  FrameInv' /\ at = "dispatch" /\ at' \in {"body", "delegate", "exit"}
<1>1. CASE DispatchStart \/ DispatchYieldSend
  <2>1. FrameTypeOK'
    BY <1>1, LogFacts, LogMarks
    DEF FrameInv, FrameTypeOK, DispatchStart, DispatchYieldSend, EnterBody, arguments
  <2>2. CellsAgree' /\ EndAgrees'
    BY <1>1
    DEF FrameInv, CellsAgree, EndAgrees, DispatchStart, DispatchYieldSend, EnterBody
  <2>3. QED
    BY <1>1, <2>1, <2>2 DEF FrameInv, DispatchStart, DispatchYieldSend, EnterBody
<1>2. CASE DispatchYieldThrow
  <2>1. resumeExc \in BodyExc /\ handling \in BodyExc \cup {None} /\ log' \in Log
    BY <1>2, LogFacts DEF FrameInv, FrameTypeOK, DispatchYieldThrow
  <2>2. QED
    BY <1>2, <2>1, RaiseFrame DEF FrameInv, FrameTypeOK, DispatchYieldThrow
<1>3. CASE DispatchDelegate
  <2>1. FrameTypeOK'
    BY <1>3 DEF FrameInv, FrameTypeOK, DispatchDelegate, arguments
  <2>2. CellsAgree' /\ EndAgrees'
    BY <1>3 DEF FrameInv, CellsAgree, EndAgrees, DispatchDelegate
  <2>3. QED
    BY <1>3, <2>1, <2>2 DEF FrameInv, DispatchDelegate
<1>4. QED
  BY <1>1, <1>2, <1>3 DEF Dispatch

\* The steps of the user's body.
LEMMA BodyFrame ==
  ASSUME FrameInv, Body
  PROVE  FrameInv' /\ at = "body" /\ at' \in {"body", "delegate", "exit"}
<1>1. CASE \E s \in YieldSites : BodyYield(s)
  <2>1. FrameTypeOK'
    BY <1>1, OutcomeFacts DEF FrameInv, FrameTypeOK, BodyYield, arguments
  <2>2. CellsAgree' /\ EndAgrees'
    BY <1>1, ConstantFacts, OutcomeFacts
    DEF FrameInv, CellsAgree, EndAgrees, BodyYield
  <2>3. QED
    BY <1>1, <2>1, <2>2 DEF FrameInv, BodyYield
<1>2. CASE \E s \in YieldSites, e \in BodyExc : BodyYieldFails(s, e)
  BY <1>2, RaiseFrame DEF FrameInv, FrameTypeOK, BodyYieldFails, arguments
<1>3. CASE \E s \in DelegateSites, i \in Subs : BodyYieldFrom(s, i)
  <2>1. FrameTypeOK'
    BY <1>3 DEF FrameInv, FrameTypeOK, BodyYieldFrom, arguments
  <2>2. CellsAgree' /\ EndAgrees'
    BY <1>3 DEF FrameInv, CellsAgree, EndAgrees, BodyYieldFrom
  <2>3. QED
    BY <1>3, <2>1, <2>2 DEF FrameInv, BodyYieldFrom
<1>4. CASE \E e \in BodyExc : BodyRaise(e)
  BY <1>4, RaiseFrame DEF FrameInv, FrameTypeOK, BodyRaise, arguments
<1>5. CASE BodyReturn
  <2>1. FrameTypeOK'
    BY <1>5, ConstantFacts, OutcomeFacts DEF FrameInv, FrameTypeOK, BodyReturn, arguments
  <2>2. CellsAgree' /\ EndAgrees'
    BY <1>5, ConstantFacts, OutcomeFacts
    DEF FrameInv, CellsAgree, EndAgrees, BodyReturn
  <2>3. QED
    BY <1>5, <2>1, <2>2 DEF FrameInv, BodyReturn
<1>6. CASE BodyLeaveHandler
  <2>1. FrameTypeOK'
    BY <1>6 DEF FrameInv, FrameTypeOK, BodyLeaveHandler, arguments
  <2>2. CellsAgree' /\ EndAgrees'
    BY <1>6 DEF FrameInv, CellsAgree, EndAgrees, BodyLeaveHandler
  <2>3. QED
    BY <1>6, <2>1, <2>2 DEF FrameInv, BodyLeaveHandler
<1>7. QED
  BY <1>1, <1>2, <1>3, <1>4, <1>5, <1>6 DEF Body

\* The steps of the delegate block.
LEMMA DelegateFrame ==
  ASSUME FrameInv, Delegate
  PROVE  FrameInv' /\ at = "delegate" /\ at' \in {"body", "delegate", "exit"}
<1>. log \in Log /\ yieldFrom \in Subs \cup {None} /\ handling \in BodyExc \cup {None}
  BY DEF FrameInv, FrameTypeOK
<1>0. AskLog \in Log
  BY LogFacts DEF AskLog
<1>1. CASE DelegateYields
  <2>1. FrameTypeOK'
    BY <1>0, <1>1, OutcomeFacts
    DEF FrameInv, FrameTypeOK, CellsAgree, DelegateYields, arguments
  <2>2. CellsAgree' /\ EndAgrees'
    BY <1>1, ConstantFacts, OutcomeFacts
    DEF FrameInv, CellsAgree, EndAgrees, DelegateYields
  <2>3. QED
    BY <1>1, <2>1, <2>2 DEF FrameInv, DelegateYields
<1>2. CASE DelegateDone
  <2>1. FrameTypeOK'
    BY <1>0, <1>2 DEF FrameInv, FrameTypeOK, DelegateDone, EnterBody, arguments
  <2>2. CellsAgree' /\ EndAgrees'
    BY <1>2 DEF FrameInv, CellsAgree, EndAgrees, DelegateDone, EnterBody
  <2>3. QED
    BY <1>2, <2>1, <2>2 DEF FrameInv, DelegateDone, EnterBody
<1>3. CASE \E e \in BodyExc \ {StopIteration} : DelegateFails(e)
  BY <1>0, <1>3, RaiseFrame DEF FrameInv, FrameTypeOK, DelegateFails
<1>4. CASE DelegateReraise
  <2>1. resumeExc \in BodyExc
    BY <1>4 DEF FrameInv, FrameTypeOK, DelegateReraise, Asks
  <2>2. log' \in Log
    BY <1>4, ConstantFacts, LogFacts, LogMarks DEF DelegateReraise
  <2>3. QED
    BY <1>4, <2>1, <2>2, RaiseFrame DEF FrameInv, FrameTypeOK, DelegateReraise
<1>5. CASE \E e \in BodyExc : DelegateCloseFails(e)
  <2>1. PICK e \in BodyExc : DelegateCloseFails(e)
    BY <1>5
  <2>2. Fed(log) \in Log /\ yieldFrom \in Subs
    BY <2>1, ConstantFacts, LogFacts DEF DelegateCloseFails
  <2>3. log' \in Log
    BY <2>1, <2>2, LogMarks DEF DelegateCloseFails
  <2>4. QED
    BY <2>1, <2>3, RaiseFrame DEF FrameInv, FrameTypeOK, DelegateCloseFails
<1>6. QED
  BY <1>1, <1>2, <1>3, <1>4, <1>5 DEF Delegate

\* Whether the frame has ended is TRUE or FALSE after each step too.
LEMMA ResumeEnded ==
  ASSUME ended \in BOOLEAN, ResumeStep
  PROVE  ended' \in BOOLEAN
<1>1. \A e, ctx : Raise(e, ctx) => ended' \in BOOLEAN
  BY DEF Raise
<1>2. Dispatch => ended' \in BOOLEAN
  BY <1>1 DEF Dispatch, DispatchStart, DispatchYieldThrow, DispatchYieldSend,
    DispatchDelegate
<1>3. Body => ended' \in BOOLEAN
  BY <1>1 DEF Body, BodyYield, BodyYieldFails, BodyYieldFrom, BodyRaise, BodyReturn,
    BodyLeaveHandler
<1>4. Delegate => ended' \in BOOLEAN
  BY <1>1 DEF Delegate, DelegateYields, DelegateDone, DelegateFails, DelegateReraise,
    DelegateCloseFails
<1>5. QED
  BY <1>2, <1>3, <1>4 DEF ResumeStep

\* Every step within a resume keeps the invariant of the frame.
LEMMA ResumeFrame ==
  ASSUME FrameInv, ended \in BOOLEAN, ResumeStep
  PROVE  /\ FrameInv' /\ ended' \in BOOLEAN
         /\ at \in {"dispatch", "body", "delegate"}
         /\ at' \in {"body", "delegate", "exit"}
BY DispatchFrame, BodyFrame, DelegateFrame, ResumeEnded DEF ResumeStep

\* Outside the frame's own steps the invariant stays.
LEMMA FrameUntouched ==
  ASSUME FrameInv, UNCHANGED resumeVars
  PROVE  FrameInv'
BY DEF FrameInv, FrameTypeOK, CellsAgree, EndAgrees, resumeVars
=============================================================================
