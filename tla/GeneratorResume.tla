-------------------------- MODULE GeneratorResume --------------------------
(***************************************************************************)
(* The hidden `resume` function that lowering makes of a generator body    *)
(* (soac-blockpy/src/passes/blockpy_generators/mod.rs): a block that       *)
(* dispatches on the cell _dp_pc, one entry per yield and per yield-from   *)
(* site, and the protocol blocks around each of them.                      *)
(*                                                                         *)
(* The user's body is the environment: at "body" it may reach any of its   *)
(* yield or yield-from sites, raise, return, or leave an except handler;   *)
(* an exception raised in the frame may or may not meet a handler.  So one *)
(* model stands for every body with these sites.  A delegated iterator is  *)
(* external and answers a call in any way.                                 *)
(*                                                                         *)
(* A yielded value is abstracted to where it came from: the frame itself   *)
(* or the iterator it delegates to.  StopIteration's payload is left out.  *)
(***************************************************************************)
EXTENDS Naturals

CONSTANTS
  YieldSites,     (* resume points of the body's yield expressions          *)
  DelegateSites,  (* resume points of its yield-from expressions            *)
  Subs,           (* iterators the body may delegate to                     *)
  Throwable,      (* the iterators that have a throw attribute              *)
  Closable,       (* the iterators that have a close attribute              *)
  Values,         (* values other than None a caller may send               *)
  UserExc,        (* exceptions other than the three named below            *)
  Complete        (* what completion raises: StopIteration, or for async    *)
                  (* generators AsyncGenComplete                            *)

None          == "None"
NoDefault     == "NO_DEFAULT"
Unstarted     == "unstarted"       \* RuntimePcUnstarted, value 1
GeneratorExit == "GeneratorExit"
StopIteration == "StopIteration"
Frame         == "frame"

Names == {None, NoDefault, Unstarted, GeneratorExit, StopIteration, Frame}

\* What the body itself can raise, and what a call can raise.
BodyExc == UserExc \cup {GeneratorExit, StopIteration}
Exc     == BodyExc \cup {Complete}

ASSUME ConstantsDistinct ==
  /\ YieldSites \cap DelegateSites = {}
  /\ Throwable \subseteq Subs /\ Closable \subseteq Subs
  /\ (YieldSites \cup DelegateSites \cup Subs \cup Values \cup UserExc) \cap Names = {}
  /\ Complete \notin Names \ {StopIteration} /\ Complete \notin UserExc

VARIABLES
  pc,            (* cell _dp_pc: where the next resume continues             *)
  yieldFrom,     (* cell _dp_yieldfrom: the iterator delegated to, or None   *)
  throwContext,  (* cell _dp_throw_context                                   *)
  handling,      (* exception parameter of the block being run, or None      *)
  at,            (* where control is: "idle" between resumes                 *)
  sendValue,     (* argument _dp_send_value of the running resume            *)
  resumeExc,     (* argument _dp_resume_exc of the running resume            *)
  outcome,       (* how the running resume ends                              *)
  log,           (* history of this resume: how often its input was used,    *)
                 (* which iterators it closed, whether it began the body,    *)
                 (* the iterator it found the frame delegating to            *)
  ended          (* history: a resume has ended by raising                   *)

cells     == <<pc, yieldFrom, throwContext>>
frame     == <<pc, yieldFrom, throwContext, handling>>
arguments == <<sendValue, resumeExc>>
resumeVars == <<pc, yieldFrom, throwContext, handling, at, sendValue,
                resumeExc, outcome, log, ended>>

NoOutcome == [kind |-> "none", what |-> None]
Yields(w) == [kind |-> "yield", what |-> w]
Raises(e) == [kind |-> "raise", what |-> e]

Outcome == {NoOutcome} \cup {Yields(w) : w \in Subs \cup {Frame}}
                       \cup {Raises(e) : e \in Exc}

MaxFeeds == 2    \* the history count of input uses saturates here
Log == [feeds : 0..MaxFeeds, told : SUBSET Subs, began : BOOLEAN, was : Subs \cup {None}]

FreshLog(i) == [feeds |-> 0, told |-> {}, began |-> FALSE, was |-> i]
Fed(l)   == [l EXCEPT !.feeds = IF @ < MaxFeeds THEN @ + 1 ELSE @]

FrameTypeOK ==
  /\ pc \in {Unstarted} \cup YieldSites \cup DelegateSites
  /\ yieldFrom \in Subs \cup {None}
  /\ throwContext \in BodyExc \cup {None}
  /\ handling \in BodyExc \cup {None}
  /\ at \in {"idle", "dispatch", "body", "delegate", "exit"}
  /\ sendValue \in Values \cup {None, NoDefault}
  /\ resumeExc \in BodyExc \cup {NoDefault}
  /\ outcome \in Outcome
  /\ log \in Log

ResumeTypeOK == FrameTypeOK /\ ended \in BOOLEAN

ResumeInit ==
  /\ pc = Unstarted /\ yieldFrom = None /\ throwContext = None
  /\ handling = None
  /\ at = "idle" /\ sendValue = None /\ resumeExc = NoDefault
  /\ outcome = NoOutcome /\ log = FreshLog(None) /\ ended = FALSE

-----------------------------------------------------------------------------
\* The call `_resume_fn(self, v, e)` and its end, for the modules that make it.
EnterSwapped(v, e) ==     \* mutant of Enter: arguments in the wrong order
  /\ at = "idle"
  /\ at' = "dispatch" /\ sendValue' = e /\ resumeExc' = v
  /\ outcome' = NoOutcome /\ log' = FreshLog(yieldFrom)
  /\ UNCHANGED <<pc, yieldFrom, throwContext, handling, ended>>

Enter(v, e) ==
  /\ at = "idle"
  /\ at' = "dispatch" /\ sendValue' = v /\ resumeExc' = e
  /\ outcome' = NoOutcome /\ log' = FreshLog(yieldFrom)
  /\ UNCHANGED <<pc, yieldFrom, throwContext, handling, ended>>

\* The call's arguments and outcome go with it.
Leave ==
  /\ at = "exit"
  /\ at' = "idle" /\ sendValue' = None /\ resumeExc' = NoDefault
  /\ outcome' = NoOutcome /\ log' = FreshLog(None)
  /\ UNCHANGED <<pc, yieldFrom, throwContext, handling, ended>>

\* The input of the running resume, when there is one to deliver.
HasInput == resumeExc # NoDefault \/ sendValue # None

-----------------------------------------------------------------------------
\* An exception raised in a block goes to the handler of the block's region,
\* whose first store refreshes _dp_throw_context, or ends the resume; ctx is
\* the context the raising block had stored.
Raise(e, ctx) ==
  \/ /\ at' = "body" /\ handling' = e /\ throwContext' = e
     /\ UNCHANGED <<outcome, ended>>
  \/ /\ at' = "exit" /\ outcome' = Raises(e) /\ ended' = TRUE
     /\ throwContext' = ctx
     /\ UNCHANGED handling

\* Every lowered block begins by storing the exception its region handles.
EnterBody == at' = "body" /\ throwContext' = handling

-----------------------------------------------------------------------------
\* The dispatch block: a branch table on _dp_pc.  Index 0 and an unknown pc
\* go to the exhausted block, which no stored pc ever selects.
DispatchStart ==
  /\ at = "dispatch" /\ pc = Unstarted
  /\ EnterBody
  /\ log' = [log EXCEPT !.began = TRUE]
  /\ UNCHANGED <<pc, yieldFrom, handling, arguments, outcome, ended>>

DispatchYieldBlindSend ==     \* mutant: _dp_resume_exc is not tested
  /\ at = "dispatch" /\ pc \in YieldSites
  /\ EnterBody
  /\ log' = IF sendValue \in Values THEN Fed(log) ELSE log
  /\ UNCHANGED <<pc, yieldFrom, handling, arguments, outcome, ended>>

\* A yield's resume block: raise _dp_resume_exc if there is one, otherwise
\* continue, binding _dp_send_value.
DispatchYieldThrow ==
  /\ at = "dispatch" /\ pc \in YieldSites /\ resumeExc # NoDefault
  /\ Raise(resumeExc, handling)
  /\ log' = Fed(log)
  /\ UNCHANGED <<pc, yieldFrom, arguments>>

DispatchYieldSend ==
  /\ at = "dispatch" /\ pc \in YieldSites /\ resumeExc = NoDefault
  /\ EnterBody
  /\ log' = IF sendValue \in Values THEN Fed(log) ELSE log
  /\ UNCHANGED <<pc, yieldFrom, handling, arguments, outcome, ended>>

DispatchDelegate ==
  /\ at = "dispatch" /\ pc \in DelegateSites
  /\ at' = "delegate" /\ throwContext' = handling
  /\ UNCHANGED <<pc, yieldFrom, handling, arguments, outcome, log, ended>>

-----------------------------------------------------------------------------
BodyYieldKeepsDelegate(s) ==     \* mutant: _dp_yieldfrom is not cleared
  /\ at = "body"
  /\ pc' = s
  /\ at' = "exit" /\ outcome' = Yields(Frame)
  /\ UNCHANGED <<yieldFrom, throwContext, handling, arguments, log, ended>>

\* yield: _dp_pc and _dp_yieldfrom are stored before the value is evaluated.
BodyYield(s) ==
  /\ at = "body"
  /\ pc' = s /\ yieldFrom' = None
  /\ at' = "exit" /\ outcome' = Yields(Frame)
  /\ UNCHANGED <<throwContext, handling, arguments, log, ended>>

BodyYieldFails(s, e) ==
  /\ at = "body"
  /\ pc' = s /\ yieldFrom' = None
  /\ Raise(e, handling)
  /\ UNCHANGED <<arguments, log>>

\* yield from: _dp_yieldfrom = iter(v), then _dp_pc, then on to the delegate
\* block within the same resume.
BodyYieldFrom(s, i) ==
  /\ at = "body"
  /\ yieldFrom' = i /\ pc' = s
  /\ at' = "delegate" /\ throwContext' = handling
  /\ UNCHANGED <<handling, arguments, outcome, log, ended>>

BodyRaise(e) ==
  /\ at = "body"
  /\ Raise(e, handling)
  /\ UNCHANGED <<pc, yieldFrom, arguments, log>>

BodyReturnInRegion ==     \* mutant: completion raised inside the region
  /\ at = "body"
  /\ Raise(Complete, handling)
  /\ UNCHANGED <<pc, yieldFrom, arguments, log>>

\* Completion jumps to a block outside every region, so no handler sees it.
BodyReturn ==
  /\ at = "body"
  /\ at' = "exit" /\ outcome' = Raises(Complete) /\ ended' = TRUE
  /\ throwContext' = handling
  /\ UNCHANGED <<pc, yieldFrom, handling, arguments, log>>

BodyLeaveHandlerStale ==     \* mutant: the next block keeps the context
  /\ at = "body" /\ handling # None
  /\ handling' = None
  /\ UNCHANGED <<cells, at, arguments, outcome, log, ended>>

BodyLeaveHandler ==
  /\ at = "body" /\ handling # None
  /\ handling' = None /\ throwContext' = None
  /\ UNCHANGED <<pc, yieldFrom, at, arguments, outcome, log, ended>>

Body ==
  \/ \E s \in YieldSites : BodyYield(s) \/ \E e \in BodyExc : BodyYieldFails(s, e)
  \/ \E s \in DelegateSites, i \in Subs : BodyYieldFrom(s, i)
  \/ \E e \in BodyExc : BodyRaise(e)
  \/ BodyReturn
  \/ BodyLeaveHandler

-----------------------------------------------------------------------------
AsksForExit ==     \* mutant of Asks: GeneratorExit goes to throw() too
  resumeExc = NoDefault \/ yieldFrom \in Throwable

\* The delegate block asks the iterator: next() or send() without a resume
\* exception, throw() with one that the iterator can take.
Asks ==
  \/ resumeExc = NoDefault
  \/ resumeExc # GeneratorExit /\ yieldFrom \in Throwable

AskLog == IF HasInput THEN Fed(log) ELSE log

\* The iterator yields: the frame stays suspended at this site.
DelegateYields ==
  /\ at = "delegate" /\ Asks
  /\ at' = "exit" /\ outcome' = Yields(yieldFrom)
  /\ log' = AskLog
  /\ UNCHANGED <<pc, yieldFrom, throwContext, handling, arguments, ended>>

\* The iterator raises StopIteration: delegation is over, the body goes on.
DelegateDone ==
  /\ at = "delegate" /\ Asks
  /\ yieldFrom' = None
  /\ EnterBody
  /\ log' = AskLog
  /\ UNCHANGED <<pc, handling, arguments, outcome, ended>>

\* The iterator raises anything else: re-raised in the yield-from's region.
DelegateFails(e) ==
  /\ at = "delegate" /\ Asks
  /\ Raise(e, e)
  /\ log' = AskLog
  /\ UNCHANGED <<pc, yieldFrom, arguments>>

\* GeneratorExit: call close() where there is one; if that returns, and for
\* any exception the iterator cannot take, raise the exception in the frame.
DelegateReraise ==
  /\ at = "delegate" /\ ~Asks
  /\ Raise(resumeExc, handling)
  /\ log' = IF resumeExc = GeneratorExit /\ yieldFrom \in Closable
            THEN [Fed(log) EXCEPT !.told = @ \cup {yieldFrom}]
            ELSE Fed(log)
  /\ UNCHANGED <<pc, yieldFrom, arguments>>

DelegateCloseFails(e) ==
  /\ at = "delegate" /\ resumeExc = GeneratorExit /\ yieldFrom \in Closable
  /\ Raise(e, handling)
  /\ log' = [Fed(log) EXCEPT !.told = @ \cup {yieldFrom}]
  /\ UNCHANGED <<pc, yieldFrom, arguments>>

Delegate ==
  \/ DelegateYields
  \/ DelegateDone
  \/ \E e \in BodyExc \ {StopIteration} : DelegateFails(e)
  \/ DelegateReraise
  \/ \E e \in BodyExc : DelegateCloseFails(e)

Dispatch ==
  \/ DispatchStart \/ DispatchYieldThrow \/ DispatchYieldSend \/ DispatchDelegate

ResumeStep == Dispatch \/ Body \/ Delegate
=============================================================================
