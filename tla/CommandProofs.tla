---------------------------- MODULE CommandProofs ----------------------------
(***************************************************************************)
(* For every set of arguments and any number of faults: the Frames of an   *)
(* invocation close, each once and in reverse, whatever fails on the way,  *)
(* and its status, what it raises and what stderr is told account for      *)
(* every fault.                                                            *)
(***************************************************************************)
EXTENDS CommandExecution, FiniteSetTheorems, TLAPS

\* The Frames of an invocation.
Kinds == {"defaults", "imports", "config", "runtime"}

\* The stages: nothing is closed, some Frames are, all are.
Before == {"typing", "imports", "defaults", "load", "config", "runtime", "required",
           "settings", "enter", "audit", "handler"}
During == {"close run", "close build", "leave", "close final"}
After == {"write", "excuse", "answer", "usage", "done"}

Typed ==
  /\ stage \in Before \cup During \cup After
  /\ stack \in Seq(Kinds)
  /\ closed \in Seq([frame : Kinds, logging : BOOLEAN])
  /\ logging \in BOOLEAN

\* What has been closed is the end of the stack, read backwards.
ClosedFromTheTop ==
  /\ Len(closed) <= Len(stack)
  /\ \A i \in DOMAIN closed : closed[i].frame = stack[Len(stack) - i + 1]

\* Nothing is closed, and the handler has no result, before it has ended; where an
\* invocation is told to have ended nothing is open.
ClosedInTime ==
  /\ stage = "typing" => stack = << >>
  /\ stage \in Before => closed = << >> /\ result = "none"
  /\ stage \in After => Len(closed) = Len(stack)

\* The scope of the logger is entered before the handler and left after the stack is
\* closed.
LoggingLasts ==
  /\ logging => stage \in {"audit", "handler", "close run", "write", "excuse", "leave"}
  /\ stage \in {"audit", "handler", "close run"} => logging

\* What a handler has used was closed while its records were still written.
ClosedUnderLogging ==
  result # "none" =>
    /\ \A i \in DOMAIN closed : closed[i].logging
    /\ stage = "close run" \/ Len(closed) = Len(stack)

IInv == Typed /\ ClosedFromTheTop /\ ClosedInTime /\ LoggingLasts /\ ClosedUnderLogging

-----------------------------------------------------------------------------
LEMMA EmptyLists ==
  ASSUME NEW S
  PROVE  << >> \in Seq(S) /\ DOMAIN << >> = {} /\ Len(<< >>) = 0
OBVIOUS

LEMMA InitHolds == CommandInit => IInv
<1> SUFFICES ASSUME CommandInit
             PROVE  IInv
  OBVIOUS
<1>1. Typed
  <2>1. stage \in Before
    BY DEF CommandInit, Before
  <2>2. stack = << >> /\ closed = << >> /\ logging = FALSE
    BY DEF CommandInit
  <2> QED
    BY <2>1, <2>2, EmptyLists DEF Typed
<1>2. ClosedFromTheTop
  BY DEF CommandInit, ClosedFromTheTop
<1>3. ClosedInTime /\ LoggingLasts /\ ClosedUnderLogging
  BY DEF CommandInit, ClosedInTime, LoggingLasts, ClosedUnderLogging, After
<1> QED
  BY <1>1, <1>2, <1>3 DEF IInv

LEMMA InvariantSettles == IInv => FramesSettled
<1> SUFFICES ASSUME IInv
             PROVE  FramesSettled
  OBVIOUS
<1> USE DEF IInv
<1>1. ASSUME NEW i \in DOMAIN closed
      PROVE  closed[i].frame = Reverse(stack)[i]
  <2>1. i \in 1 .. Len(stack)
    BY DEF Typed, ClosedFromTheTop
  <2> QED
    BY <2>1 DEF Typed, ClosedFromTheTop, Reverse
<1>2. ASSUME NEW i \in DOMAIN closed, result # "none"
      PROVE  closed[i].logging
  BY <1>2 DEF ClosedUnderLogging
<1>3. stage = "done" => Len(closed) = Len(stack) /\ ~logging
  BY DEF ClosedInTime, LoggingLasts, After
<1> QED
  BY <1>1, <1>2, <1>3 DEF FramesSettled

-----------------------------------------------------------------------------
\* A step that builds: nothing is closed yet.
LEMMA BuildKeeps ==
  ASSUME IInv, NEW at \in Before \ {"typing", "settings", "enter", "audit", "handler"},
         NEW next \in Before \ {"typing", "audit", "handler"}, NEW built \in Seq(Kinds), NEW outcome,
         Build(at, next, built, outcome)
  PROVE  IInv'
<1>1. stage = at /\ stack' = built /\ UNCHANGED <<closed, logging, result>>
  BY DEF Build
<1>2. stage' = next \/ stage' = "close build"
  BY DEF Build
<1>3. closed = << >> /\ result = "none" /\ ~logging
  BY <1>1 DEF IInv, ClosedInTime, LoggingLasts, Before, Typed
<1>4. Typed'
  BY <1>1, <1>2 DEF IInv, Typed, Before, During
<1>5. ClosedFromTheTop'
  BY <1>1, <1>3 DEF ClosedFromTheTop
<1>6. ClosedInTime' /\ LoggingLasts' /\ ClosedUnderLogging'
  BY <1>1, <1>2, <1>3 DEF ClosedInTime, LoggingLasts, ClosedUnderLogging, Before, After
<1> QED
  BY <1>4, <1>5, <1>6 DEF IInv

LEMMA Lengths ==
  ASSUME IInv
  PROVE  /\ Len(stack) \in Nat /\ Len(closed) \in Nat
         /\ Unclosed = Len(stack) - Len(closed)
         /\ Unclosed \in Nat
         /\ Unclosed = 0 <=> Len(closed) = Len(stack)
<1>1. Len(closed) <= Len(stack)
  BY DEF IInv, ClosedFromTheTop
<1>2. stack \in Seq(Kinds) /\ closed \in Seq([frame : Kinds, logging : BOOLEAN])
  BY DEF IInv, Typed
<1>3. Len(stack) \in Nat /\ Len(closed) \in Nat
  BY <1>2
<1>4. Unclosed = Len(stack) - Len(closed)
  BY DEF Unclosed
<1> QED
  BY <1>1, <1>3, <1>4

LEMMA StillOpen ==
  ASSUME IInv, Unclosed > 0
  PROVE  Len(closed) # Len(stack)
BY Lengths

\* A Frame more is closed: the topmost of those that are not.
LEMMA CloseKeepsOrder ==
  ASSUME IInv, NEW at, NEW next, NEW outcome, CloseNext(at, next, outcome)
  PROVE  /\ ClosedFromTheTop'
         /\ closed' \in Seq([frame : Kinds, logging : BOOLEAN])
         /\ stack' = stack /\ logging' = logging /\ result' = result
         /\ stage = at /\ stage' \in {at, next}
         /\ stage' # at => Len(closed') = Len(stack')
         /\ \A i \in DOMAIN closed' : \/ i \in DOMAIN closed /\ closed'[i] = closed[i]
                                   \/ closed'[i].logging = logging
<1> DEFINE top == [frame |-> stack[Unclosed], logging |-> logging]
<1>1. /\ stage = at /\ Unclosed > 0 /\ closed' = Append(closed, top)
      /\ stack' = stack /\ logging' = logging /\ result' = result
      /\ stage' = IF Unclosed = 1 THEN next ELSE at
  BY DEF CloseNext
<1>2. /\ Len(stack) \in Nat /\ Len(closed) \in Nat
      /\ Unclosed = Len(stack) - Len(closed)
      /\ Unclosed \in 1 .. Len(stack)
  BY <1>1 DEF IInv, Typed, ClosedFromTheTop, Unclosed
<1>3. top \in [frame : Kinds, logging : BOOLEAN]
  BY <1>2 DEF IInv, Typed
<1>4. /\ closed' \in Seq([frame : Kinds, logging : BOOLEAN])
      /\ Len(closed') = Len(closed) + 1
      /\ DOMAIN closed' = 1 .. Len(closed) + 1
      /\ closed'[Len(closed) + 1] = top
      /\ \A i \in 1 .. Len(closed) : i \in DOMAIN closed /\ closed'[i] = closed[i]
  BY <1>1, <1>3 DEF IInv, Typed
<1>5. ClosedFromTheTop'
  <2>1. Len(closed') <= Len(stack')
    BY <1>1, <1>2, <1>4
  <2>2. ASSUME NEW i \in DOMAIN closed'
        PROVE  closed'[i].frame = stack'[Len(stack') - i + 1]
    <3>1. CASE i \in 1 .. Len(closed)
      BY <3>1, <1>1, <1>4 DEF IInv, ClosedFromTheTop
    <3>2. CASE i = Len(closed) + 1
      <4>1. Len(stack') - i + 1 = Unclosed
        BY <3>2, <1>1, <1>2
      <4> QED
        BY <3>2, <4>1, <1>1, <1>4
    <3> QED
      BY <3>1, <3>2, <1>2, <1>4
  <2> QED
    BY <2>1, <2>2 DEF ClosedFromTheTop
<1>6. stage' # at => Len(closed') = Len(stack')
  BY <1>1, <1>2, <1>4
<1>7. ASSUME NEW i \in DOMAIN closed'
      PROVE  \/ i \in DOMAIN closed /\ closed'[i] = closed[i]
             \/ closed'[i].logging = logging
  BY <1>2, <1>4
<1> QED
  BY <1>1, <1>4, <1>5, <1>6, <1>7

\* A step that closes nothing, builds nothing and leaves the logger as it is.
Quiet == UNCHANGED <<stack, closed, logging>>
LEMMA QuietKeeps ==
  ASSUME IInv, Quiet, stage' \in Before \cup During \cup After,
         result' = result \/ (stage = "handler" /\ stage' = "close run"),
         stage' \in Before => stage \in Before,
         stage' = "typing" => stage = "typing",
         stage' \in After => Len(closed) = Len(stack),
         stage' \in {"audit", "handler", "close run"} => stage \in {"audit", "handler", "close run"},
         logging => stage' \in {"audit", "handler", "close run", "write", "excuse", "leave"},
         stage = "close run" => stage' = "close run"
  PROVE  IInv'
<1>1. Typed' /\ ClosedFromTheTop'
  BY DEF IInv, Quiet, Typed, ClosedFromTheTop
<1>2. ClosedInTime'
  <2>1. ASSUME stage' \in Before
        PROVE  closed' = << >> /\ result' = "none"
    BY <2>1 DEF IInv, Quiet, ClosedInTime, Before
  <2> QED
    BY <2>1 DEF IInv, Quiet, ClosedInTime
<1>3. LoggingLasts'
  BY DEF IInv, Quiet, LoggingLasts
<1>4. ClosedUnderLogging'
  <2>1. CASE result' = result
    BY <2>1 DEF IInv, Quiet, ClosedUnderLogging
  <2>2. CASE stage = "handler" /\ stage' = "close run"
    <3>1. closed' = << >>
      BY <2>2 DEF IInv, Quiet, ClosedInTime, Before
    <3>2. DOMAIN closed' = {}
      BY <3>1, EmptyLists
    <3> QED
      BY <2>2, <3>2 DEF ClosedUnderLogging
  <2> QED
    BY <2>1, <2>2
<1> QED
  BY <1>1, <1>2, <1>3, <1>4 DEF IInv

-----------------------------------------------------------------------------
LEMMA RunKeeps ==
  ASSUME IInv, NEW name, NEW outcome, Run(name, outcome)
  PROVE  IInv'
<1>1. stage = "typing" /\ Quiet /\ result' = result
  BY DEF Run, Quiet
<1>2. stage' \in {"done", "usage", "imports"}
  BY DEF Run, Return, UsageOrRaise, Raise
<1>3. ~logging /\ stack = << >> /\ closed = << >>
  BY <1>1 DEF IInv, Typed, LoggingLasts, ClosedInTime, Before
<1> QED
  BY <1>1, <1>2, <1>3, QuietKeeps DEF Before, During, After

LEMMA BuildingKeeps ==
  ASSUME IInv, NEW outcome,
         \/ BuildImports(outcome) \/ LendDefaults(outcome) \/ LoadConfig(outcome)
         \/ BuildConfig(outcome) \/ BuildRuntime(outcome) \/ CheckRequired(outcome)
  PROVE  IInv'
<1>1. /\ stack \in Seq(Kinds)
      /\ <<"defaults">> \o stack \in Seq(Kinds)
      /\ \A frame \in Kinds : AndThen(frame, outcome) \in Seq(Kinds)
  <2>1. stack \in Seq(Kinds)
    BY DEF IInv, Typed
  <2>2. <<"defaults">> \in Seq(Kinds)
    BY DEF Kinds
  <2>3. <<"defaults">> \o stack \in Seq(Kinds)
    BY <2>1, <2>2
  <2>4. ASSUME NEW frame \in Kinds
        PROVE  AndThen(frame, outcome) \in Seq(Kinds)
    BY <2>1 DEF AndThen
  <2> QED
    BY <2>1, <2>3, <2>4
<1> DEFINE Places == {"imports", "defaults", "load", "config", "runtime", "required"}
           Nexts == {"defaults", "load", "config", "runtime", "required", "settings"}
<1>2. \E at \in Places, next \in Nexts, built \in Seq(Kinds) : Build(at, next, built, outcome)
  <2>1. CASE BuildImports(outcome)
    <3>1. PICK next \in {"defaults", "load"} : Build("imports", next, AndThen("imports", outcome), outcome)
      BY <2>1 DEF BuildImports
    <3> QED
      BY <3>1, <1>1 DEF Kinds
  <2>2. CASE LendDefaults(outcome)
    BY <2>2, <1>1 DEF LendDefaults, Kinds
  <2>3. CASE LoadConfig(outcome)
    BY <2>3, <1>1 DEF LoadConfig
  <2>4. CASE BuildConfig(outcome)
    BY <2>4, <1>1 DEF BuildConfig, Kinds
  <2>5. CASE BuildRuntime(outcome)
    BY <2>5, <1>1 DEF BuildRuntime, Kinds
  <2>6. CASE CheckRequired(outcome)
    BY <2>6, <1>1 DEF CheckRequired
  <2> QED
    BY <2>1, <2>2, <2>3, <2>4, <2>5, <2>6
<1>3. /\ Places \subseteq Before \ {"typing", "settings", "enter", "audit", "handler"}
      /\ Nexts \subseteq Before \ {"typing", "audit", "handler"}
  BY DEF Before
<1> HIDE DEF Places, Nexts
<1> QED
  BY <1>2, <1>3, BuildKeeps

\* Entering the logger scope is the one step that turns logging on.
LEMMA PreparingKeeps ==
  ASSUME IInv, NEW outcome,
         ResolveSettings(outcome) \/ EnterLogging(outcome) \/ EmitExecutionStart(outcome)
  PROVE  IInv'
<1>1. CASE ResolveSettings(outcome)
  <2>1. stage = "settings" /\ Quiet /\ result' = result
        /\ stage' \in {"enter", "leave", "close final"}
    BY <1>1 DEF ResolveSettings, Prepare, Quiet, IInv, Typed
  <2>2. ~logging
    BY <2>1 DEF IInv, LoggingLasts
  <2> QED
    BY <2>1, <2>2, QuietKeeps DEF Before, During, After
<1>2. CASE EmitExecutionStart(outcome)
  <2>1. stage = "audit" /\ Quiet /\ result' = result /\ logging
        /\ stage' \in {"handler", "leave"}
    BY <1>2 DEF EmitExecutionStart, Prepare, Quiet, IInv, Typed, LoggingLasts
  <2> QED
    BY <2>1, QuietKeeps DEF Before, During, After
<1>3. CASE EnterLogging(outcome)
  <2>1. /\ stage = "enter" /\ UNCHANGED <<stack, closed, result>>
        /\ ~logging /\ closed = << >> /\ result = "none"
    BY <1>3 DEF EnterLogging, Prepare, IInv, LoggingLasts, ClosedInTime, Before
  <2>2. /\ logging' = (outcome = "ok")
        /\ stage' = IF outcome = "ok" THEN "audit" ELSE "close final"
    BY <1>3, <2>1 DEF EnterLogging, Prepare
  <2>3. Typed'
    BY <2>1, <2>2 DEF IInv, Typed, Before, During
  <2>4. ClosedFromTheTop' /\ ClosedUnderLogging'
    BY <2>1 DEF IInv, ClosedFromTheTop, ClosedUnderLogging
  <2>5. ClosedInTime' /\ LoggingLasts'
    BY <2>1, <2>2 DEF ClosedInTime, LoggingLasts, Before, After
  <2> QED
    BY <2>3, <2>4, <2>5 DEF IInv
<1> QED
  BY <1>1, <1>2, <1>3

LEMMA HandleKeeps ==
  ASSUME IInv, NEW outcome, Handle(outcome)
  PROVE  IInv'
<1>1. stage = "handler" /\ stage' = "close run" /\ Quiet
  BY DEF Handle, Quiet
<1> QED
  BY <1>1, QuietKeeps DEF Before, During, After

\* The stack of a run closes while logging is on; the others belong to no result.
LEMMA ClosingKeeps ==
  ASSUME IInv, NEW outcome, CloseFrame(outcome)
  PROVE  IInv'
<1>1. \E at \in {"close build", "close run", "close final"}, next \in {"answer", "leave", "write"} :
        /\ CloseNext(at, next, outcome)
        /\ at = "close run" <=> next # "answer"
  <2>1. AfterRun \in {"leave", "write"}
    BY DEF AfterRun
  <2> QED
    BY <2>1 DEF CloseFrame
<1>2. PICK at \in {"close build", "close run", "close final"}, next \in {"answer", "leave", "write"} :
        /\ CloseNext(at, next, outcome)
        /\ at = "close run" <=> next # "answer"
  BY <1>1
<1>3. /\ ClosedFromTheTop'
      /\ closed' \in Seq([frame : Kinds, logging : BOOLEAN])
      /\ stack' = stack /\ logging' = logging /\ result' = result
      /\ stage = at /\ stage' \in {at, next}
      /\ stage' # at => Len(closed') = Len(stack')
      /\ \A i \in DOMAIN closed' : \/ i \in DOMAIN closed /\ closed'[i] = closed[i]
                                   \/ closed'[i].logging = logging
  BY <1>2, CloseKeepsOrder
<1>4. Typed'
  BY <1>3 DEF IInv, Typed, During, After
<1>5. ClosedInTime'
  BY <1>3 DEF ClosedInTime, Before, After
<1>6. LoggingLasts'
  BY <1>2, <1>3 DEF IInv, LoggingLasts
<1>7. ClosedUnderLogging'
  <2>1. CASE at = "close run"
    <3>1. logging
      BY <2>1, <1>3 DEF IInv, LoggingLasts
    <3>2. stage' = "close run" \/ Len(closed') = Len(stack')
      BY <2>1, <1>3
    <3>3. ASSUME result # "none", NEW i \in DOMAIN closed'
          PROVE  closed'[i].logging
      BY <3>1, <3>3, <1>3 DEF IInv, ClosedUnderLogging
    <3> QED
      BY <3>2, <3>3, <1>3 DEF ClosedUnderLogging
  <2>2. CASE at # "close run"
    <3>1. Len(closed) # Len(stack)
      <4>1. Unclosed > 0
        BY <1>2 DEF CloseNext
      <4> QED
        BY <4>1, StillOpen
    <3>2. result = "none"
      BY <2>2, <3>1, <1>3 DEF IInv, ClosedUnderLogging
    <3> QED
      BY <3>2, <1>3 DEF ClosedUnderLogging
  <2> QED
    BY <2>1, <2>2
<1> QED
  BY <1>3, <1>4, <1>5, <1>6, <1>7 DEF IInv

LEMMA WritingKeeps ==
  ASSUME IInv, NEW outcome \in Outcome, WriteResult(outcome) \/ WriteOutputFailure(outcome)
  PROVE  IInv'
<1>1. /\ stage \in {"write", "excuse"} /\ stage' \in {"excuse", "leave"}
      /\ Quiet /\ result' = result
  <2>1. CASE WriteResult(outcome)
    <3>1. stage = "write" /\ Quiet /\ result' = result
      BY <2>1 DEF WriteResult, Quiet
    <3> QED
      BY <2>1, <3>1 DEF WriteResult, Outcome
  <2>2. CASE WriteOutputFailure(outcome)
    BY <2>2 DEF WriteOutputFailure, Quiet
  <2> QED
    BY <2>1, <2>2
<1>2. Len(closed) = Len(stack)
  BY <1>1 DEF IInv, ClosedInTime, After
<1> QED
  BY <1>1, <1>2, QuietKeeps DEF Before, During, After

\* Leaving the logger scope closes nothing: what is open belongs to no result.
LEMMA LeavingKeeps ==
  ASSUME IInv, NEW outcome, LeaveLogging(outcome)
  PROVE  IInv'
<1>1. /\ stage = "leave" /\ stage' = "close final" /\ logging' = FALSE
      /\ UNCHANGED <<stack, closed, result>>
  BY DEF LeaveLogging
<1>2. Typed'
  BY <1>1 DEF IInv, Typed, During
<1>3. ClosedFromTheTop' /\ ClosedInTime' /\ LoggingLasts'
  BY <1>1 DEF IInv, ClosedFromTheTop, ClosedInTime, LoggingLasts, Before, After
<1>4. ClosedUnderLogging'
  BY <1>1 DEF IInv, ClosedUnderLogging
<1> QED
  BY <1>2, <1>3, <1>4 DEF IInv

\* The end: nothing is left open when an answer is given.
LEMMA AnsweringKeeps ==
  ASSUME IInv,
         \/ SkipClose \/ AnswerStatus \/ RaiseControl
         \/ \E outcome \in Outcome : AnswerFailure(outcome) \/ PrintUsage(outcome)
  PROVE  IInv'
<1>1. CASE SkipClose
  <2>1. /\ stage \in {"close build", "close final"} /\ stage' = "answer"
        /\ Quiet /\ result' = result /\ Unclosed = 0
    BY <1>1 DEF SkipClose, NothingToClose, Quiet
  <2>2. Len(closed) = Len(stack)
    BY <2>1, Lengths
  <2>3. ~logging
    BY <2>1 DEF IInv, LoggingLasts
  <2> QED
    BY <2>1, <2>2, <2>3, QuietKeeps DEF Before, During, After
<1>2. CASE \/ AnswerStatus \/ RaiseControl
           \/ \E outcome \in Outcome : AnswerFailure(outcome) \/ PrintUsage(outcome)
  <2>1. /\ stage \in {"answer", "usage"} /\ stage' \in {"done", "usage"}
        /\ Quiet /\ result' = result
    BY <1>2 DEF AnswerStatus, RaiseControl, AnswerFailure, PrintUsage, Quiet, Return, Raise,
                UsageOrRaise
  <2>2. Len(closed) = Len(stack) /\ ~logging
    BY <2>1 DEF IInv, ClosedInTime, LoggingLasts, After
  <2> QED
    BY <2>1, <2>2, QuietKeeps DEF Before, During, After
<1> QED
  BY <1>1, <1>2

LEMMA StepKeeps == IInv /\ [CommandNext]_commandVars => IInv'
<1> SUFFICES ASSUME IInv, [CommandNext]_commandVars
             PROVE  IInv'
  OBVIOUS
<1>1. ASSUME NEW token, Type(token)
      PROVE  IInv'
  <2>1. stage = "typing" /\ stage' = "typing" /\ Quiet /\ result' = result
    BY <1>1 DEF Type, Quiet
  <2>2. ~logging
    BY <2>1 DEF IInv, LoggingLasts
  <2> QED
    BY <2>1, <2>2, QuietKeeps DEF Before, During, After
<1>2. CASE UNCHANGED commandVars
  BY <1>2 DEF commandVars, IInv, Typed, ClosedFromTheTop, ClosedInTime, LoggingLasts, ClosedUnderLogging
<1> QED
  BY <1>1, <1>2, RunKeeps, BuildingKeeps, PreparingKeeps, HandleKeeps, ClosingKeeps,
     WritingKeeps, LeavingKeeps, AnsweringKeeps DEF CommandNext

-----------------------------------------------------------------------------
\* However an invocation ends, its Frames have closed, each once and before the
\* ones it was built on, those of a handler that ran while logging was on, and
\* logging is off: for any arguments and any number of failures, cancellations
\* and interrupts (frame_stack.py:34, command_execution.py:91).
THEOREM InvocationsSettle == CommandSpec => []FramesSettled
<1>1. CommandInit => IInv
  BY InitHolds
<1>2. IInv /\ [CommandNext]_commandVars => IInv'
  BY StepKeeps
<1>3. IInv => FramesSettled
  BY InvariantSettles
<1> QED
  BY <1>1, <1>2, <1>3, PTL DEF CommandSpec
-----------------------------------------------------------------------------
\* What is told of faults (CommandExecution!ExitTellsTruth).  A fault is carried by
\* the failure that propagates until that is written to stderr or raised.

Place == Kinds \cup Before \cup During \cup After \cup {"stdout", "arguments"}
Fault == [at : Place, kind : {"ordinary", "control"}]

\* Where stderr is written: a fault there may hide others.
LastWords == {"write", "excuse", "answer", "usage"}
Deaf == \E f \in faults : f.at \in LastWords

Untold(f) == \A i \in DOMAIN told : f \notin told[i]
ToldOnce(f) == \E i \in DOMAIN told : \A j \in DOMAIN told : f \in told[j] <=> j = i

NoticeTypes ==
  /\ faults \in SUBSET Fault
  /\ raising \in SUBSET faults
  /\ told \in Seq(SUBSET Fault)
  /\ \A i \in DOMAIN told : told[i] \subseteq faults
  /\ ended \in [status : {-1, SUCCESS, FAILURE, EXCEPTION}, raised : SUBSET Fault]

\* Every fault still propagates and is not told, or is told once and left behind.
Accounted ==
  ~Deaf /\ stage # "done" =>
    \A f \in faults : (f \in raising /\ Untold(f)) \/ (f \notin raising /\ ToldOnce(f))

\* A control signal is not left behind: it propagates to the end.
ControlPends ==
  ~Deaf /\ stage # "done" => \A f \in faults : f.kind = "control" => f \in raising

\* A fault propagates or has decided the status.
FailureKnown == stage # "done" /\ faults # {} => raising # {} \/ ended.status = EXCEPTION

\* Each attempt to write to stderr is made once.
AfterWrite == {"excuse", "leave", "close final", "answer", "usage", "done"}
AfterExcuse == {"leave", "close final", "answer", "usage", "done"}
AttemptsPast ==
  \A f \in faults :
    /\ f.at = "write" => stage \in AfterWrite
    /\ f.at = "excuse" => stage \in AfterExcuse
    /\ f.at = "answer" => stage \in {"usage", "done"}
    /\ f.at = "usage" => stage = "done"

\* What a stage knows of the failure: an unwinding has one, stderr is told of ordinary
\* ones only, and there is no answer before the result is written.
Decided == {"leave", "close final", "answer"}
StageKnows ==
  /\ stage = "typing" => faults = {}
  /\ stage = "close build" => faults # {}
  /\ stage = "usage" => raising # {}
  /\ stage = "excuse" => Deaf
  /\ stage \in {"write", "usage"} => ~IsControl(raising)
  /\ stage \in {"close run", "write"} => result # "none"
  /\ stage # "done" => ended.raised = {}
  /\ stage \notin Decided \cup {"usage", "done"} => ended.status = -1
  /\ stage \in Decided /\ faults = {} =>
       (ended.status = SUCCESS <=> result \in {"none", "success"})

\* The end of an invocation.
Settled ==
  /\ faults # {} /\ ended.raised = {} => ended.status = EXCEPTION
  /\ faults = {} => ended.raised = {} /\ (ended.status = SUCCESS <=> result \in {"none", "success"})
  /\ ~Deaf => \A f \in faults :
       /\ f.kind = "control" => f \in ended.raised
       /\ (f \in ended.raised /\ Untold(f)) \/ (f \notin ended.raised /\ ToldOnce(f))

TInv ==
  /\ NoticeTypes /\ Accounted /\ ControlPends /\ FailureKnown /\ AttemptsPast
  /\ StageKnows /\ (stage = "done" => Settled)

LEMMA EmptyTold ==
  ASSUME told = << >>, NEW f
  PROVE  Untold(f)
<1>1. DOMAIN told = {}
  BY EmptyLists
<1> QED
  BY <1>1 DEF Untold

LEMMA NoticesBegin == CommandInit => TInv
<1> SUFFICES ASSUME CommandInit
             PROVE  TInv
  OBVIOUS
<1>1. /\ stage = "typing" /\ result = "none" /\ faults = {} /\ raising = {} /\ told = << >>
      /\ ended = [status |-> -1, raised |-> {}]
  BY DEF CommandInit, Unended
<1>2. NoticeTypes
  <2>1. told \in Seq(SUBSET Fault) /\ DOMAIN told = {}
    BY <1>1, EmptyLists
  <2>2. ended \in [status : {-1, SUCCESS, FAILURE, EXCEPTION}, raised : SUBSET Fault]
    BY <1>1
  <2> QED
    BY <1>1, <2>1, <2>2 DEF NoticeTypes
<1>3. Accounted /\ ControlPends /\ FailureKnown /\ AttemptsPast
  BY <1>1 DEF Accounted, ControlPends, FailureKnown, AttemptsPast
<1>4. StageKnows
  BY <1>1 DEF StageKnows, Decided
<1> QED
  BY <1>1, <1>2, <1>3, <1>4 DEF TInv

\* What meeting an outcome adds.
LEMMA Meeting ==
  ASSUME faults \in SUBSET Fault, NEW at \in Place, NEW outcome \in Outcome, Met(at, outcome)
  PROVE  /\ faults' \in SUBSET Fault /\ faults \subseteq faults'
         /\ outcome = "ok" => faults' = faults
         /\ outcome # "ok" => faults' # {}
         /\ Struck \subseteq faults'
         /\ \A f \in faults' : f \in faults \/ (f.at = at /\ f.kind = outcome /\ f \in Struck)
         /\ (outcome # "ok" /\ \A f \in faults : f.at # at) =>
              /\ Struck # {}
              /\ \A f \in Struck : f.kind = outcome
         /\ outcome # "ok" => \E f \in faults' : f.at = at
<1> DEFINE new == [at |-> at, kind |-> outcome]
<1>1. new.at = at /\ new.kind = outcome
  OBVIOUS
<1>2. outcome = "ok" => faults' = faults
  BY DEF Met
<1>3. outcome # "ok" => faults' = faults \cup {new} /\ new \in Fault
  BY DEF Met, Fault, Outcome
<1> HIDE DEF new
<1>4. Struck = faults' \ faults
  BY DEF Struck
<1> QED
  BY <1>1, <1>2, <1>3, <1>4

\* Deafness stays, and nothing but a fault at a last word brings it.
LEMMA StillDeaf ==
  ASSUME faults \subseteq faults', ~Deaf'
  PROVE  ~Deaf
BY DEF Deaf

-----------------------------------------------------------------------------
\* From a stage to a later one that may follow on this outcome, before the end.
Onward(at, outcome) ==
  /\ stage \notin {"usage", "done"} /\ stage' \notin {"excuse", "usage", "done"}
  /\ at \in LastWords => at = "write" /\ stage' = "leave"
  /\ stage \in AfterWrite => stage' \in AfterWrite
  /\ stage \in AfterExcuse => stage' \in AfterExcuse
  /\ stage' = "typing" => stage = "typing" /\ outcome = "ok"
  /\ stage' = "close build" => stage = "close build" \/ outcome # "ok"
  /\ stage' = "write" => ~IsControl(raising')
  /\ stage' \in {"close run", "write"} => result' # "none"
  /\ stage \in Decided => stage' \in Decided
  /\ stage' \in Decided => faults' # {} \/ (stage \in Decided /\ result' = result)

\* A fault joins the failure that propagates; nothing is told and nothing decided.
LEMMA CombiningKeeps ==
  ASSUME TInv, NEW at \in Place, NEW outcome \in Outcome, Met(at, outcome), Combined,
         UNCHANGED <<told, ended>>, Onward(at, outcome)
  PROVE  TInv'
<1> USE DEF TInv, Onward
<1>1. /\ faults' \in SUBSET Fault /\ faults \subseteq faults'
      /\ outcome = "ok" => faults' = faults
      /\ outcome # "ok" => faults' # {}
      /\ Struck \subseteq faults'
      /\ \A f \in faults' : f \in faults \/ (f.at = at /\ f.kind = outcome /\ f \in Struck)
  BY Meeting DEF NoticeTypes
<1>2. raising' = raising \cup Struck
  BY DEF Combined
<1>3. NoticeTypes'
  BY <1>1, <1>2 DEF NoticeTypes
<1>4. Accounted'
  <2> SUFFICES ASSUME ~Deaf', NEW f \in faults'
               PROVE  (f \in raising' /\ Untold(f)') \/ (f \notin raising' /\ ToldOnce(f)')
    BY DEF Accounted
  <2>1. ~Deaf
    BY <1>1, StillDeaf
  <2>2. CASE f \in faults
    <3>1. f \notin Struck
      BY <2>2 DEF Struck
    <3>2. (f \in raising /\ Untold(f)) \/ (f \notin raising /\ ToldOnce(f))
      BY <2>1, <2>2 DEF Accounted
    <3>3. /\ f \in raising' <=> f \in raising
          /\ Untold(f)' <=> Untold(f)
          /\ ToldOnce(f)' <=> ToldOnce(f)
      BY <1>2, <3>1 DEF Untold, ToldOnce
    <3> QED
      BY <3>2, <3>3
  <2>3. CASE f \notin faults
    <3>1. f \in raising'
      BY <1>1, <1>2, <2>3
    <3>2. Untold(f)'
      BY <2>3 DEF Untold, NoticeTypes
    <3> QED
      BY <3>1, <3>2
  <2> QED
    BY <2>2, <2>3
<1>5. ControlPends'
  <2> SUFFICES ASSUME ~Deaf', NEW f \in faults', f.kind = "control"
               PROVE  f \in raising'
    BY DEF ControlPends
  <2>1. ~Deaf
    BY <1>1, StillDeaf
  <2> QED
    BY <1>1, <1>2, <2>1 DEF ControlPends
<1>6. FailureKnown'
  BY <1>1, <1>2 DEF FailureKnown
<1>7. AttemptsPast'
  <2> SUFFICES ASSUME NEW f \in faults'
               PROVE  /\ f.at = "write" => stage' \in AfterWrite
                      /\ f.at = "excuse" => stage' \in AfterExcuse
                      /\ f.at = "answer" => stage' \in {"usage", "done"}
                      /\ f.at = "usage" => stage' = "done"
    BY DEF AttemptsPast
  <2>1. CASE f \in faults
    BY <2>1 DEF AttemptsPast
  <2>2. CASE f.at = at
    BY <2>2 DEF LastWords, AfterWrite
  <2> QED
    BY <1>1, <2>1, <2>2
<1>8. StageKnows'
  <2>1. /\ stage' = "typing" => faults' = {}
        /\ stage' = "close build" => faults' # {}
    BY <1>1 DEF StageKnows
  <2>2. ended.raised = {} /\ ended' = ended
    BY DEF StageKnows
  <2>3. stage' \notin Decided => ended.status = -1
    BY DEF StageKnows
  <2>4. stage' \in Decided /\ faults' = {} =>
          (ended.status = SUCCESS <=> result' \in {"none", "success"})
    BY <1>1 DEF StageKnows
  <2> QED
    BY <2>1, <2>2, <2>3, <2>4 DEF StageKnows
<1> QED
  BY <1>3, <1>4, <1>5, <1>6, <1>7, <1>8

\* Only the stage moves.
LEMMA Passing ==
  ASSUME faults' = faults, raising' = raising
  PROVE  Met("load", "ok") /\ Combined
<1>1. Struck = {}
  BY DEF Struck
<1> QED
  BY <1>1 DEF Met, Combined

-----------------------------------------------------------------------------
\* The steps of which CombiningKeeps is the whole story.
LEMMA TypingKeepsNotices ==
  ASSUME TInv, NEW token, Type(token)
  PROVE  TInv'
<1>1. /\ stage = "typing" /\ stage' = "typing"
      /\ UNCHANGED <<told, ended, faults, raising, result>>
  BY DEF Type
<1>2. Met("load", "ok") /\ Combined
  BY <1>1, Passing
<1>99. Onward("load", "ok")
  BY <1>1, <1>2 DEF Onward, Outcome, LastWords, AfterWrite, AfterExcuse, Decided
<1> QED
  BY <1>1, <1>2, <1>99, CombiningKeeps DEF Place, Before, Outcome

LEMMA BuildKeepsNotices ==
  ASSUME TInv, NEW at \in {"imports", "defaults", "load", "config", "runtime", "required"},
         NEW next \in {"defaults", "load", "config", "runtime", "required", "settings"},
         NEW built, NEW outcome \in Outcome, Build(at, next, built, outcome)
  PROVE  TInv'
<1>1. /\ stage = at /\ Met(at, outcome) /\ Combined /\ UNCHANGED <<told, ended>>
      /\ stage' = IF outcome = "ok" THEN next ELSE "close build"
  BY DEF Build
<1>99. Onward(at, outcome)
  BY <1>1 DEF Onward, LastWords, AfterWrite, AfterExcuse, Decided
<1> QED
  BY <1>1, <1>99, CombiningKeeps DEF Place, Before, During

LEMMA BuildingKeepsNotices ==
  ASSUME TInv, NEW outcome \in Outcome,
         \/ BuildImports(outcome) \/ LendDefaults(outcome) \/ LoadConfig(outcome)
         \/ BuildConfig(outcome) \/ BuildRuntime(outcome) \/ CheckRequired(outcome)
  PROVE  TInv'
<1>1. \E at \in {"imports", "defaults", "load", "config", "runtime", "required"},
         next \in {"defaults", "load", "config", "runtime", "required", "settings"} :
         \E built : Build(at, next, built, outcome)
  BY DEF BuildImports, LendDefaults, LoadConfig, BuildConfig, BuildRuntime, CheckRequired
<1> QED
  BY <1>1, BuildKeepsNotices

LEMMA PreparingKeepsNotices ==
  ASSUME TInv, NEW outcome \in Outcome,
         ResolveSettings(outcome) \/ EnterLogging(outcome) \/ EmitExecutionStart(outcome)
  PROVE  TInv'
<1>1. PICK at \in {"settings", "enter", "audit"}, next \in {"enter", "audit", "handler"},
           logs \in BOOLEAN : Prepare(at, next, logs, outcome)
  BY DEF ResolveSettings, EnterLogging, EmitExecutionStart
<1>2. /\ stage = at /\ Met(at, outcome) /\ Combined /\ UNCHANGED <<told, ended, result>>
      /\ outcome = "ok" => stage' = next
      /\ outcome # "ok" => stage' \in {"leave", "close final"}
  BY <1>1 DEF Prepare
<1>3. outcome # "ok" => faults' # {}
  BY <1>2, Meeting DEF TInv, NoticeTypes, Place, Before
<1>99. Onward(at, outcome)
  BY <1>2, <1>3 DEF Onward, LastWords, AfterWrite, AfterExcuse, Decided
<1> QED
  BY <1>2, <1>3, <1>99, CombiningKeeps DEF Place, Before, During

LEMMA HandlingKeepsNotices ==
  ASSUME TInv, NEW outcome \in Outcome, Handle(outcome)
  PROVE  TInv'
<1>1. /\ stage = "handler" /\ stage' = "close run" /\ Met("handler", outcome) /\ Combined
      /\ UNCHANGED <<told, ended>>
      /\ result' # "none"
  BY DEF Handle
<1>99. Onward("handler", outcome)
  BY <1>1 DEF Onward, LastWords, AfterWrite, AfterExcuse, Decided
<1> QED
  BY <1>1, <1>99, CombiningKeeps DEF Place, Before, During

LEMMA ControlIsFailure ==
  ASSUME TInv', IsControl(raising')
  PROVE  faults' # {}
BY DEF TInv, NoticeTypes, IsControl

LEMMA TopFrame ==
  ASSUME IInv, Unclosed > 0
  PROVE  stack[Unclosed] \in Kinds
<1>1. /\ Len(closed) \in Nat /\ Len(stack) \in Nat
      /\ Unclosed = Len(stack) - Len(closed)
  BY Lengths
<1>2. Unclosed \in 1 .. Len(stack)
  BY <1>1
<1>3. stack \in Seq(Kinds)
  BY DEF IInv, Typed
<1> QED
  BY <1>2, <1>3

LEMMA ClosingKeepsNotices ==
  ASSUME IInv, TInv, NEW outcome \in Outcome, CloseFrame(outcome)
  PROVE  TInv'
<1>1. PICK at \in {"close build", "close run", "close final"},
           next \in {"answer", "leave", "write"} :
        /\ CloseNext(at, next, outcome)
        /\ at = "close run" => next = AfterRun /\ next # "answer"
        /\ at # "close run" => next = "answer"
  <2>1. AfterRun \in {"leave", "write"}
    BY DEF AfterRun
  <2> QED
    BY <2>1 DEF CloseFrame
<1> DEFINE frame == stack[Unclosed]
<1>2. /\ stage = at /\ Met(frame, outcome) /\ Combined /\ UNCHANGED <<told, ended, result>>
      /\ stage' \in {at, next}
  BY <1>1 DEF CloseNext
<1>3. frame \in Kinds
  BY <1>1, TopFrame DEF CloseNext
<1>4. frame \in Place /\ frame \notin LastWords
  BY <1>3 DEF Kinds, LastWords, Place
<1>5. /\ faults \subseteq faults' /\ Struck \subseteq faults'
  BY <1>2, <1>4, Meeting DEF TInv, NoticeTypes
<1>6. raising' = raising \cup Struck /\ raising \subseteq faults
  BY <1>2 DEF Combined, TInv, NoticeTypes
<1>7. stage' = "leave" => faults' # {}
  <2> SUFFICES ASSUME stage' = "leave"
               PROVE  faults' # {}
    OBVIOUS
  <2>1. AfterRun = "leave"
    BY <1>1, <1>2
  <2>2. IsControl(raising')
    BY <2>1 DEF AfterRun
  <2> QED
    BY <2>2, <1>5, <1>6 DEF IsControl
<1>8. stage' = "write" => ~IsControl(raising')
  BY <1>1, <1>2 DEF AfterRun
<1>9. stage' \in Decided => faults' # {} \/ (stage \in Decided /\ result' = result)
  BY <1>1, <1>2, <1>5, <1>7 DEF Decided, TInv, StageKnows
<1>10. stage' \in {"close run", "write"} => result' # "none"
  BY <1>1, <1>2 DEF TInv, StageKnows
<1> HIDE DEF frame
<1>99. Onward(frame, outcome)
  BY <1>1, <1>2, <1>4, <1>8, <1>9, <1>10 DEF Onward, AfterWrite, AfterExcuse, Decided
<1> QED
  BY <1>1, <1>2, <1>4, <1>8, <1>9, <1>10, <1>99, CombiningKeeps DEF Place, Before, During

LEMMA SkippingKeepsNotices ==
  ASSUME TInv, SkipClose
  PROVE  TInv'
<1>1. /\ stage \in {"close build", "close final"} /\ stage' = "answer"
      /\ UNCHANGED <<told, ended, result, faults, raising>>
  BY DEF SkipClose, NothingToClose
<1>2. Met("load", "ok") /\ Combined
  BY <1>1, Passing
<1>3. stage = "close build" => faults' # {}
  BY <1>1 DEF TInv, StageKnows
<1>99. Onward("load", "ok")
  BY <1>1, <1>2, <1>3 DEF Onward, Outcome, LastWords, AfterWrite, AfterExcuse, Decided
<1> QED
  BY <1>1, <1>2, <1>3, <1>99, CombiningKeeps DEF Place, Before, Outcome

LEMMA LeavingKeepsNotices ==
  ASSUME TInv, NEW outcome \in Outcome, LeaveLogging(outcome)
  PROVE  TInv'
<1>1. /\ stage = "leave" /\ stage' = "close final" /\ Met("leave", outcome) /\ Combined
      /\ UNCHANGED <<told, ended, result>>
  BY DEF LeaveLogging
<1>99. Onward("leave", outcome)
  BY <1>1 DEF Onward, LastWords, AfterWrite, AfterExcuse, Decided
<1> QED
  BY <1>1, <1>99, CombiningKeeps DEF Place, Before, During

-----------------------------------------------------------------------------
\* What writing to stderr tells.
LEMMA Telling ==
  ASSUME told \in Seq(SUBSET Fault), NEW failure \in SUBSET Fault, Told(failure), NEW f
  PROVE  /\ f \in failure /\ Untold(f) => ToldOnce(f)'
         /\ f \notin failure => (Untold(f)' <=> Untold(f))
         /\ f \notin failure /\ ToldOnce(f) => ToldOnce(f)'
         /\ told' \in Seq(SUBSET Fault)
         /\ \A i \in DOMAIN told' : told'[i] = failure \/ (i \in DOMAIN told /\ told'[i] = told[i])
<1>1. CASE failure = {}
  <2>1. told' = told
    BY <1>1 DEF Told
  <2> QED
    BY <1>1, <2>1 DEF Untold, ToldOnce
<1>2. CASE failure # {}
  <2> DEFINE n == Len(told) + 1
  <2>1. told' = Append(told, failure)
    BY <1>2 DEF Told
  <2>2. /\ told' \in Seq(SUBSET Fault)
        /\ Len(told) \in Nat /\ DOMAIN told = 1 .. Len(told)
        /\ DOMAIN told' = 1 .. n
        /\ told'[n] = failure
        /\ \A i \in DOMAIN told : told'[i] = told[i]
    BY <2>1
  <2>3. /\ DOMAIN told' = DOMAIN told \cup {n}
        /\ n \notin DOMAIN told
    BY <2>2
  <2>4. ASSUME f \in failure, Untold(f)
        PROVE  ToldOnce(f)'
    <3>1. ASSUME NEW j \in DOMAIN told'
          PROVE  f \in told'[j] <=> j = n
      BY <2>2, <2>3, <2>4 DEF Untold
    <3>2. n \in DOMAIN told'
      BY <2>3
    <3> HIDE DEF n
    <3> QED
      BY <3>1, <3>2 DEF ToldOnce
  <2>5. ASSUME f \notin failure
        PROVE  Untold(f)' <=> Untold(f)
    BY <2>2, <2>3, <2>5 DEF Untold
  <2>6. ASSUME f \notin failure, ToldOnce(f)
        PROVE  ToldOnce(f)'
    <3>1. PICK i \in DOMAIN told : \A j \in DOMAIN told : f \in told[j] <=> j = i
      BY <2>6 DEF ToldOnce
    <3>2. ASSUME NEW j \in DOMAIN told'
          PROVE  f \in told'[j] <=> j = i
      BY <2>2, <2>3, <2>6, <3>1
    <3>3. i \in DOMAIN told'
      BY <2>3
    <3> HIDE DEF n
    <3> QED
      BY <3>2, <3>3 DEF ToldOnce
  <2> QED
    BY <2>2, <2>3, <2>4, <2>5, <2>6
<1> QED
  BY <1>1, <1>2

LEMMA Tellings ==
  ASSUME NEW f
  PROVE  /\ Untold(f) => {i \in DOMAIN told : f \in told[i]} = {}
         /\ ToldOnce(f) => Cardinality({i \in DOMAIN told : f \in told[i]}) = 1
<1>1. ASSUME ToldOnce(f)
      PROVE  Cardinality({i \in DOMAIN told : f \in told[i]}) = 1
  <2>1. PICK i \in DOMAIN told : \A j \in DOMAIN told : f \in told[j] <=> j = i
    BY <1>1 DEF ToldOnce
  <2>2. {j \in DOMAIN told : f \in told[j]} = {i}
    BY <2>1
  <2> QED
    BY <2>2, FS_Singleton
<1> QED
  BY <1>1 DEF Untold

LEMMA InvariantTells == TInv => ExitTellsTruth
<1> SUFFICES ASSUME TInv, stage = "done"
             PROVE  ExitTellsTruth
  BY DEF ExitTellsTruth
<1> USE DEF TInv
<1>1. faults # {} /\ ended.raised = {} => ended.status = EXCEPTION
  BY DEF Settled
<1>2. faults = {} =>
        ended.raised = {} /\ (ended.status = SUCCESS) = (result \in {"none", "success"})
  BY DEF Settled
<1>3. IsControl(faults) => IsControl(ended.raised) \/ Deaf
  BY DEF Settled, IsControl
<1>4. ASSUME ~Deaf, NEW f \in faults
      PROVE  \/ f \in ended.raised /\ {i \in DOMAIN told : f \in told[i]} = {}
             \/ f \notin ended.raised /\ Cardinality({i \in DOMAIN told : f \in told[i]}) = 1
  BY <1>4, Tellings DEF Settled
<1> QED
  BY <1>1, <1>2, <1>3, <1>4 DEF ExitTellsTruth, Deaf, LastWords

LEMMA EndKeeps ==
  ASSUME NoticeTypes', stage' = "done", Settled'
  PROVE  TInv'
<1>1. Accounted' /\ ControlPends' /\ FailureKnown'
  BY DEF Accounted, ControlPends, FailureKnown
<1>2. AttemptsPast'
  BY DEF AttemptsPast, AfterWrite, AfterExcuse
<1>3. StageKnows'
  BY DEF StageKnows, Decided
<1> QED
  BY <1>1, <1>2, <1>3 DEF TInv

-----------------------------------------------------------------------------
\* The steps that write, decide or end.
LEMMA RunKeepsNotices ==
  ASSUME TInv, IInv, NEW name, NEW outcome \in Outcome, Run(name, outcome)
  PROVE  TInv'
<1>1. /\ stage = "typing" /\ faults = {} /\ raising = {} /\ ended.raised = {} /\ ended.status = -1
      /\ result = "none" /\ UNCHANGED <<told, result>>
      /\ faults \in SUBSET Fault /\ told \in Seq(SUBSET Fault)
      /\ \A i \in DOMAIN told : told[i] \subseteq faults
      /\ ended \in [status : {-1, SUCCESS, FAILURE, EXCEPTION}, raised : SUBSET Fault]
  BY DEF Run, TInv, StageKnows, NoticeTypes, Decided, IInv, ClosedInTime, Before
<1>2. \/ stage' = "imports" /\ UNCHANGED <<raising, ended, faults>>
      \/ \E at \in {"stdout", "arguments"} :
           /\ Met(at, outcome) /\ raising' = Struck
           /\ \/ Struck = {} /\ outcome = "ok" /\ Return(SUCCESS)
              \/ Struck # {} /\ UsageOrRaise(Struck)
  BY <1>1, Meeting DEF Run, Place
<1>3. CASE stage' = "imports" /\ UNCHANGED <<raising, ended, faults>>
  <2>1. Met("load", "ok") /\ Combined
    BY <1>3, Passing
  <2>2. Onward("load", "ok")
    BY <1>1, <1>3 DEF Onward, LastWords, AfterWrite, AfterExcuse, Decided
  <2> QED
    BY <1>1, <1>3, <2>1, <2>2, CombiningKeeps DEF Place, Before, Outcome
<1>4. ASSUME NEW at \in {"stdout", "arguments"}, Met(at, outcome), raising' = Struck,
             \/ Struck = {} /\ outcome = "ok" /\ Return(SUCCESS)
             \/ Struck # {} /\ UsageOrRaise(Struck)
      PROVE  TInv'
  <2>1. /\ faults' = Struck /\ faults' \in SUBSET Fault
        /\ \A f \in faults' : f.at = at
    BY <1>1, <1>4, Meeting DEF Place, Struck
  <2>2. \A f \in faults' : Untold(f)'
    BY <1>1 DEF Untold
  <2>3. CASE Struck = {} /\ Return(SUCCESS)
    <3>1. /\ stage' = "done" /\ ended' = [ended EXCEPT !.status = SUCCESS]
      BY <2>3 DEF Return
    <3>2. ended'.status = SUCCESS /\ ended'.raised = {}
      BY <3>1, <1>1
    <3>3. NoticeTypes'
      BY <1>1, <1>4, <2>1, <3>1 DEF NoticeTypes
    <3>4. Settled'
      BY <1>1, <2>1, <2>3, <3>2 DEF Settled
    <3> QED
      BY <3>1, <3>3, <3>4, EndKeeps
  <2>4. CASE Struck # {} /\ IsControl(Struck) /\ Raise(Struck)
    <3>1. /\ stage' = "done" /\ ended' = [ended EXCEPT !.raised = Struck]
      BY <2>4 DEF Raise
    <3>2. ended'.raised = Struck
      BY <3>1, <1>1
    <3>3. NoticeTypes'
      BY <1>1, <1>4, <2>1, <3>1 DEF NoticeTypes
    <3>4. Settled'
      BY <2>1, <2>2, <2>4, <3>2 DEF Settled
    <3> QED
      BY <3>1, <3>3, <3>4, EndKeeps
  <2>5. CASE Struck # {} /\ ~IsControl(Struck) /\ stage' = "usage" /\ UNCHANGED ended
    <3>1. NoticeTypes'
      BY <1>1, <1>4, <2>1, <2>5 DEF NoticeTypes
    <3>2. Accounted'
      BY <1>4, <2>1, <2>2 DEF Accounted
    <3>3. ControlPends' /\ FailureKnown'
      BY <1>4, <2>1, <2>5 DEF ControlPends, FailureKnown
    <3>4. AttemptsPast'
      BY <2>1, <2>5 DEF AttemptsPast
    <3>5. StageKnows'
      BY <1>1, <1>4, <2>1, <2>5 DEF StageKnows, Decided
    <3> QED
      BY <2>5, <3>1, <3>2, <3>3, <3>4, <3>5 DEF TInv
  <2> QED
    BY <1>4, <2>3, <2>4, <2>5 DEF UsageOrRaise
<1> QED
  BY <1>2, <1>3, <1>4

\* A failure of control is one of control for one of its faults.
LEMMA OrdinaryFailure ==
  ASSUME NEW failure \in SUBSET Fault, ~IsControl(failure), NEW f \in failure
  PROVE  f.kind = "ordinary"
BY DEF IsControl, Fault

LEMMA WritingKeepsNotices ==
  ASSUME TInv, NEW outcome \in Outcome, WriteResult(outcome)
  PROVE  TInv'
<1>1. /\ stage = "write" /\ Met("write", outcome) /\ UNCHANGED result
      /\ outcome = "ok" => /\ Told(raising) /\ raising' = {} /\ Result(ResultStatus)
                           /\ stage' = "leave"
      /\ outcome = "ordinary" => /\ raising' = Struck /\ stage' = "excuse"
                                 /\ UNCHANGED <<told, ended>>
      /\ outcome = "control" => Combined /\ stage' = "leave" /\ UNCHANGED <<told, ended>>
  BY DEF WriteResult, Outcome
<1>2. /\ faults' \in SUBSET Fault /\ faults \subseteq faults'
      /\ outcome = "ok" => faults' = faults
      /\ outcome # "ok" => faults' # {}
      /\ Struck \subseteq faults'
      /\ \A f \in faults' : f \in faults \/ f.at = "write"
      /\ (outcome # "ok" /\ \A f \in faults : f.at # "write") => Struck # {}
      /\ outcome # "ok" => \E f \in faults' : f.at = "write"
  BY <1>1, Meeting DEF TInv, NoticeTypes, Place, After
<1>3. \A f \in faults : f.at \notin LastWords
  BY <1>1 DEF TInv, AttemptsPast, AfterWrite, AfterExcuse, LastWords
<1>4. /\ told \in Seq(SUBSET Fault) /\ \A i \in DOMAIN told : told[i] \subseteq faults
      /\ raising \in SUBSET faults /\ faults \in SUBSET Fault
      /\ ended \in [status : {-1, SUCCESS, FAILURE, EXCEPTION}, raised : SUBSET Fault]
      /\ ended.raised = {} /\ ended.status = -1 /\ result # "none" /\ ~IsControl(raising)
  BY <1>1 DEF TInv, NoticeTypes, StageKnows, Decided
<1>5. CASE outcome = "ok"
  <2>1. /\ ended' = [ended EXCEPT !.status = ResultStatus]
        /\ Told(raising) /\ raising' = {} /\ stage' = "leave" /\ faults' = faults
        /\ ResultStatus \in {SUCCESS, FAILURE, EXCEPTION}
        /\ raising # {} => ResultStatus = EXCEPTION
        /\ raising = {} => (ResultStatus = SUCCESS <=> result = "success")
    BY <1>1, <1>2, <1>5 DEF Result, ResultStatus, SUCCESS, FAILURE, EXCEPTION
  <2>2. ended'.status = ResultStatus /\ ended'.raised = {}
    BY <1>4, <2>1
  <2>3. NoticeTypes'
    <3>1. /\ told' \in Seq(SUBSET Fault)
          /\ \A i \in DOMAIN told' : told'[i] = raising \/ (i \in DOMAIN told /\ told'[i] = told[i])
      BY <1>4, <2>1, Telling
    <3>2. \A i \in DOMAIN told' : told'[i] \subseteq faults'
      BY <1>4, <2>1, <3>1
    <3>3. ended' \in [status : {-1, SUCCESS, FAILURE, EXCEPTION}, raised : SUBSET Fault]
      BY <1>4, <2>1
    <3> QED
      BY <1>2, <2>1, <3>1, <3>2, <3>3 DEF NoticeTypes
  <2>4. ~Deaf /\ Deaf' = FALSE
    BY <1>3, <2>1 DEF Deaf
  <2>5. Accounted'
    <3> SUFFICES ASSUME NEW f \in faults'
                 PROVE  ToldOnce(f)'
      BY <2>1 DEF Accounted
    <3>1. (f \in raising /\ Untold(f)) \/ (f \notin raising /\ ToldOnce(f))
      BY <1>1, <2>1, <2>4 DEF TInv, Accounted
    <3> QED
      BY <1>4, <2>1, <3>1, Telling
  <2>6. ControlPends'
    BY <1>1, <1>4, <2>1, <2>4 DEF TInv, ControlPends, IsControl
  <2>7. FailureKnown'
    BY <1>1, <1>4, <2>1, <2>2 DEF TInv, FailureKnown, EXCEPTION
  <2>8. AttemptsPast'
    BY <1>3, <2>1 DEF AttemptsPast, LastWords
  <2>9. StageKnows'
    BY <1>1, <1>4, <2>1, <2>2 DEF StageKnows, Decided
  <2> QED
    BY <2>1, <2>3, <2>5, <2>6, <2>7, <2>8, <2>9 DEF TInv
<1>6. CASE outcome = "ordinary"
  <2>1. Deaf' /\ raising' # {}
    BY <1>1, <1>2, <1>3, <1>6 DEF Deaf, LastWords
  <2>2. NoticeTypes'
    BY <1>1, <1>2, <1>4, <1>6 DEF NoticeTypes
  <2>3. AttemptsPast'
    BY <1>1, <1>2, <1>3, <1>6 DEF AttemptsPast, AfterWrite, LastWords
  <2>4. StageKnows'
    BY <1>1, <1>4, <1>6, <2>1 DEF StageKnows, Decided
  <2> QED
    BY <1>1, <1>6, <2>1, <2>2, <2>3, <2>4 DEF TInv, Accounted, ControlPends, FailureKnown
<1>7. CASE outcome = "control"
  <2>1. Onward("write", outcome)
    BY <1>1, <1>2, <1>7 DEF Onward, AfterWrite, AfterExcuse, Decided
  <2> QED
    BY <1>1, <1>7, <2>1, CombiningKeeps DEF Place, After
<1> QED
  BY <1>5, <1>6, <1>7 DEF Outcome

\* A failure of the output is excused once; from there on stderr may have lost one.
LEMMA ExcusingKeepsNotices ==
  ASSUME TInv, NEW outcome \in Outcome, WriteOutputFailure(outcome)
  PROVE  TInv'
<1>1. /\ stage = "excuse" /\ stage' = "leave" /\ Met("excuse", outcome) /\ UNCHANGED result
      /\ outcome = "ok" => Told(raising) /\ raising' = {} /\ Result(EXCEPTION)
      /\ outcome # "ok" => raising' = Struck /\ UNCHANGED <<told, ended>>
  BY DEF WriteOutputFailure
<1>2. /\ faults' \in SUBSET Fault /\ faults \subseteq faults'
      /\ Struck \subseteq faults'
      /\ \A f \in faults' : f \in faults \/ f.at = "excuse"
      /\ (outcome # "ok" /\ \A f \in faults : f.at # "excuse") => Struck # {}
  BY <1>1, Meeting DEF TInv, NoticeTypes, Place, After
<1>3. \A f \in faults : f.at \notin {"excuse", "answer", "usage"}
  BY <1>1 DEF TInv, AttemptsPast, AfterExcuse
<1>4. /\ told \in Seq(SUBSET Fault) /\ \A i \in DOMAIN told : told[i] \subseteq faults
      /\ raising \in SUBSET faults /\ faults \in SUBSET Fault
      /\ ended \in [status : {-1, SUCCESS, FAILURE, EXCEPTION}, raised : SUBSET Fault]
      /\ ended.raised = {} /\ Deaf
  BY <1>1 DEF TInv, NoticeTypes, StageKnows
<1>5. Deaf' /\ faults' # {}
  BY <1>2, <1>4 DEF Deaf
<1>6. AttemptsPast'
  BY <1>1, <1>2, <1>3 DEF AttemptsPast, AfterWrite, AfterExcuse
<1>7. CASE outcome = "ok"
  <2>1. ended' = [ended EXCEPT !.status = EXCEPTION]
    BY <1>1, <1>7 DEF Result
  <2>2. ended'.status = EXCEPTION /\ ended'.raised = {}
    BY <1>4, <2>1
  <2>3. NoticeTypes'
    <3>1. /\ told' \in Seq(SUBSET Fault)
          /\ \A i \in DOMAIN told' : told'[i] = raising \/ (i \in DOMAIN told /\ told'[i] = told[i])
      BY <1>1, <1>4, <1>7, Telling
    <3>2. \A i \in DOMAIN told' : told'[i] \subseteq faults'
      BY <1>2, <1>4, <3>1
    <3>3. ended' \in [status : {-1, SUCCESS, FAILURE, EXCEPTION}, raised : SUBSET Fault]
      BY <1>4, <2>1
    <3> QED
      BY <1>1, <1>2, <1>7, <3>1, <3>2, <3>3 DEF NoticeTypes
  <2>4. StageKnows'
    BY <1>1, <1>5, <2>2 DEF StageKnows, Decided
  <2> QED
    BY <1>1, <1>5, <1>6, <2>2, <2>3, <2>4 DEF TInv, Accounted, ControlPends, FailureKnown
<1>8. CASE outcome # "ok"
  <2>1. raising' # {} /\ raising' = Struck /\ UNCHANGED <<told, ended>>
    BY <1>1, <1>2, <1>3, <1>8
  <2>2. NoticeTypes'
    BY <1>2, <1>4, <2>1 DEF NoticeTypes
  <2>3. StageKnows'
    BY <1>1, <1>4, <1>5, <2>1 DEF StageKnows, Decided
  <2> QED
    BY <1>1, <1>5, <1>6, <2>1, <2>2, <2>3 DEF TInv, Accounted, ControlPends, FailureKnown
<1> QED
  BY <1>7, <1>8

LEMMA StatusKeepsNotices ==
  ASSUME TInv, AnswerStatus
  PROVE  TInv'
<1>1. /\ stage = "answer" /\ stage' = "done" /\ raising = {}
      /\ UNCHANGED <<result, raising, told, ended, faults>>
  BY DEF AnswerStatus
<1>2. NoticeTypes'
  BY <1>1 DEF TInv, NoticeTypes
<1>3. /\ ended.raised = {}
      /\ faults # {} => ended.status = EXCEPTION
      /\ faults = {} => (ended.status = SUCCESS <=> result \in {"none", "success"})
  BY <1>1 DEF TInv, StageKnows, FailureKnown, Decided
<1>4. ~Deaf => \A f \in faults : ToldOnce(f) /\ f.kind # "control"
  BY <1>1 DEF TInv, Accounted, ControlPends
<1>5. Settled'
  <2>1. ~Deaf' => ~Deaf
    BY <1>1 DEF Deaf
  <2>2. ASSUME ~Deaf', NEW f \in faults'
        PROVE  f.kind # "control" /\ ToldOnce(f)'
    BY <1>1, <1>4, <2>1, <2>2 DEF ToldOnce
  <2> QED
    BY <1>1, <1>3, <2>2 DEF Settled
<1> QED
  BY <1>1, <1>2, <1>5, EndKeeps

LEMMA RaisingKeepsNotices ==
  ASSUME TInv, RaiseControl
  PROVE  TInv'
<1>1. /\ stage = "answer" /\ stage' = "done" /\ IsControl(raising)
      /\ ended' = [ended EXCEPT !.raised = raising]
      /\ UNCHANGED <<result, raising, told, faults>>
  BY DEF RaiseControl, Raise
<1>2. /\ ended \in [status : {-1, SUCCESS, FAILURE, EXCEPTION}, raised : SUBSET Fault]
      /\ raising \in SUBSET faults /\ faults \in SUBSET Fault
  BY DEF TInv, NoticeTypes
<1>3. ended'.raised = raising
  BY <1>1, <1>2
<1>4. NoticeTypes'
  <2>1. ended' \in [status : {-1, SUCCESS, FAILURE, EXCEPTION}, raised : SUBSET Fault]
    BY <1>1, <1>2
  <2> QED
    BY <1>1, <2>1 DEF TInv, NoticeTypes
<1>5. raising # {} /\ faults # {}
  BY <1>1, <1>2 DEF IsControl
<1>6. ~Deaf => \A f \in faults : /\ f.kind = "control" => f \in raising
                                 /\ (f \in raising /\ Untold(f)) \/ (f \notin raising /\ ToldOnce(f))
  BY <1>1 DEF TInv, Accounted, ControlPends
<1>7. Settled'
  BY <1>1, <1>3, <1>5, <1>6 DEF Settled, Deaf, Untold, ToldOnce
<1> QED
  BY <1>1, <1>4, <1>7, EndKeeps

\* A failure is written to stderr at last: that settles the invocation.
LEMMA TellingSettles ==
  ASSUME TInv, stage \in {"answer", "usage"}, raising # {}, ~IsControl(raising),
         Told(raising), Return(EXCEPTION), UNCHANGED <<raising, faults, result>>
  PROVE  TInv'
<1>1. stage' = "done" /\ ended' = [ended EXCEPT !.status = EXCEPTION]
  BY DEF Return
<1>2. /\ ended \in [status : {-1, SUCCESS, FAILURE, EXCEPTION}, raised : SUBSET Fault]
      /\ raising \in SUBSET faults /\ faults \in SUBSET Fault
      /\ told \in Seq(SUBSET Fault) /\ \A i \in DOMAIN told : told[i] \subseteq faults
      /\ ended.raised = {}
  BY DEF TInv, NoticeTypes, StageKnows
<1>3. ended'.status = EXCEPTION /\ ended'.raised = {}
  BY <1>1, <1>2
<1>4. NoticeTypes'
  <2>1. /\ told' \in Seq(SUBSET Fault)
        /\ \A i \in DOMAIN told' : told'[i] = raising \/ (i \in DOMAIN told /\ told'[i] = told[i])
    BY <1>2, Telling
  <2>2. \A i \in DOMAIN told' : told'[i] \subseteq faults'
    BY <1>2, <2>1
  <2>3. ended' \in [status : {-1, SUCCESS, FAILURE, EXCEPTION}, raised : SUBSET Fault]
    BY <1>1, <1>2
  <2> QED
    BY <1>2, <2>1, <2>2, <2>3 DEF NoticeTypes
<1>5. ASSUME ~Deaf', NEW f \in faults'
      PROVE  f.kind # "control" /\ ToldOnce(f)'
  <2>1. ~Deaf
    BY <1>5 DEF Deaf
  <2>2. /\ f.kind = "control" => f \in raising
        /\ (f \in raising /\ Untold(f)) \/ (f \notin raising /\ ToldOnce(f))
    BY <1>5, <2>1 DEF TInv, Accounted, ControlPends
  <2>3. ToldOnce(f)'
    BY <1>2, <2>2, Telling
  <2> QED
    BY <2>2, <2>3 DEF IsControl
<1>6. faults' # {}
  BY <1>2
<1>7. Settled'
  BY <1>3, <1>5, <1>6 DEF Settled
<1> QED
  BY <1>1, <1>4, <1>7, EndKeeps

\* A fault of the last words, raised.
LEMMA RaisingSettles ==
  ASSUME TInv, Struck # {}, Struck \subseteq faults', faults \subseteq faults',
         faults' \in SUBSET Fault, Raise(Struck), raising' = Struck,
         UNCHANGED told, Deaf'
  PROVE  TInv'
<1>1. stage' = "done" /\ ended' = [ended EXCEPT !.raised = Struck]
  BY DEF Raise
<1>2. /\ ended \in [status : {-1, SUCCESS, FAILURE, EXCEPTION}, raised : SUBSET Fault]
      /\ told \in Seq(SUBSET Fault) /\ \A i \in DOMAIN told : told[i] \subseteq faults
  BY DEF TInv, NoticeTypes
<1>3. ended'.raised = Struck
  BY <1>1, <1>2
<1>4. ended' \in [status : {-1, SUCCESS, FAILURE, EXCEPTION}, raised : SUBSET Fault]
  BY <1>1, <1>2
<1>5. NoticeTypes'
  BY <1>2, <1>4 DEF NoticeTypes
<1>6. Settled'
  BY <1>3 DEF Settled
<1> QED
  BY <1>1, <1>5, <1>6, EndKeeps

LEMMA AnsweringKeepsNotices ==
  ASSUME TInv, NEW outcome \in Outcome, AnswerFailure(outcome)
  PROVE  TInv'
<1>1. /\ stage = "answer" /\ raising # {} /\ ~IsControl(raising) /\ Met("answer", outcome)
      /\ UNCHANGED result
      /\ outcome = "ok" => Told(raising) /\ Return(EXCEPTION) /\ UNCHANGED raising
      /\ outcome # "ok" => raising' = Struck /\ UsageOrRaise(Struck) /\ UNCHANGED told
  BY DEF AnswerFailure
<1>2. /\ faults' \in SUBSET Fault /\ faults \subseteq faults'
      /\ outcome = "ok" => faults' = faults
      /\ Struck \subseteq faults'
      /\ \A f \in faults' : f \in faults \/ f.at = "answer"
      /\ (outcome # "ok" /\ \A f \in faults : f.at # "answer") => Struck # {}
      /\ outcome # "ok" => \E f \in faults' : f.at = "answer"
  BY <1>1, Meeting DEF TInv, NoticeTypes, Place, Before, During, After
<1>3. \A f \in faults : f.at \notin {"answer", "usage"}
  BY <1>1 DEF TInv, AttemptsPast
<1>4. CASE outcome = "ok"
  BY <1>1, <1>2, <1>4, TellingSettles
<1>5. CASE outcome # "ok"
  <2>1. Struck # {} /\ Deaf'
    BY <1>2, <1>3, <1>5 DEF Deaf, LastWords
  <2>2. CASE Raise(Struck)
    BY <1>1, <1>2, <1>5, <2>1, <2>2, RaisingSettles
  <2>3. CASE ~IsControl(Struck) /\ stage' = "usage" /\ UNCHANGED ended
    <3>1. NoticeTypes'
      BY <1>1, <1>2, <1>5, <2>3 DEF TInv, NoticeTypes
    <3>2. AttemptsPast'
      BY <1>1, <1>2, <1>3, <2>3 DEF TInv, AttemptsPast, AfterWrite, AfterExcuse
    <3>3. StageKnows'
      BY <1>1, <1>5, <2>1, <2>3 DEF TInv, StageKnows, Decided
    <3> QED
      BY <1>1, <1>5, <2>1, <2>3, <3>1, <3>2, <3>3
         DEF TInv, Accounted, ControlPends, FailureKnown
  <2> QED
    BY <1>1, <1>5, <2>2, <2>3 DEF UsageOrRaise
<1> QED
  BY <1>4, <1>5

LEMMA UsageKeepsNotices ==
  ASSUME TInv, NEW outcome \in Outcome, PrintUsage(outcome)
  PROVE  TInv'
<1>1. /\ stage = "usage" /\ Met("usage", outcome) /\ UNCHANGED result
      /\ outcome = "ok" => Told(raising) /\ Return(EXCEPTION) /\ UNCHANGED raising
      /\ outcome # "ok" => raising' = Struck /\ Raise(Struck) /\ UNCHANGED told
  BY DEF PrintUsage
<1>2. /\ faults' \in SUBSET Fault /\ faults \subseteq faults'
      /\ outcome = "ok" => faults' = faults
      /\ Struck \subseteq faults'
      /\ (outcome # "ok" /\ \A f \in faults : f.at # "usage") => Struck # {}
      /\ outcome # "ok" => \E f \in faults' : f.at = "usage"
  BY <1>1, Meeting DEF TInv, NoticeTypes, Place, After
<1>3. \A f \in faults : f.at # "usage"
  BY <1>1 DEF TInv, AttemptsPast
<1>4. raising # {} /\ ~IsControl(raising)
  BY <1>1 DEF TInv, StageKnows
<1>5. CASE outcome = "ok"
  BY <1>1, <1>2, <1>4, <1>5, TellingSettles
<1>6. CASE outcome # "ok"
  <2>1. Struck # {} /\ Deaf'
    BY <1>2, <1>3, <1>6 DEF Deaf, LastWords
  <2> QED
    BY <1>1, <1>2, <1>6, <2>1, RaisingSettles
<1> QED
  BY <1>5, <1>6

LEMMA StepKeepsNotices == IInv /\ TInv /\ [CommandNext]_commandVars => TInv'
<1> SUFFICES ASSUME IInv, TInv, [CommandNext]_commandVars
             PROVE  TInv'
  OBVIOUS
<1>1. CASE UNCHANGED commandVars
  <2>1. UNCHANGED <<stage, result, raising, told, ended, faults>>
    BY <1>1 DEF commandVars
  <2>2. NoticeTypes' /\ FailureKnown' /\ AttemptsPast'
    BY <2>1 DEF TInv, NoticeTypes, FailureKnown, AttemptsPast
  <2>3. /\ Deaf' <=> Deaf
        /\ \A f : (ToldOnce(f)' <=> ToldOnce(f)) /\ (Untold(f)' <=> Untold(f))
    BY <2>1 DEF Deaf, ToldOnce, Untold
  <2>4. Accounted' /\ ControlPends'
    BY <2>1, <2>3 DEF TInv, Accounted, ControlPends
  <2>5. StageKnows'
    BY <2>1, <2>3 DEF TInv, StageKnows, IsControl
  <2>6. (stage = "done" => Settled)'
    BY <2>1, <2>3 DEF TInv, Settled
  <2> QED
    BY <2>2, <2>4, <2>5, <2>6 DEF TInv
<1> QED
  BY <1>1, TypingKeepsNotices, RunKeepsNotices, BuildingKeepsNotices, PreparingKeepsNotices,
     HandlingKeepsNotices, ClosingKeepsNotices, SkippingKeepsNotices, LeavingKeepsNotices,
     WritingKeepsNotices, ExcusingKeepsNotices, StatusKeepsNotices, RaisingKeepsNotices,
     AnsweringKeepsNotices, UsageKeepsNotices DEF CommandNext

\* An invocation exits with success only if nothing failed; a control signal is
\* raised; and every other failure is told once, alone or with those it met, as
\* long as stderr can be written: for any arguments, any number of faults and
\* whichever stages they strike (command_execution.py:178, failure_aggregation.py).
THEOREM InvocationsTell == CommandSpec => []ExitTellsTruth
<1>1. CommandInit => IInv /\ TInv
  BY InitHolds, NoticesBegin
<1>2. IInv /\ TInv /\ [CommandNext]_commandVars => IInv' /\ TInv'
  BY StepKeeps, StepKeepsNotices
<1>3. TInv => ExitTellsTruth
  BY InvariantTells
<1> QED
  BY <1>1, <1>2, <1>3, PTL DEF CommandSpec
=============================================================================
