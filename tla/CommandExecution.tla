--------------------------- MODULE CommandExecution --------------------------
(***************************************************************************)
(* lclang/cli: one invocation of a command.  Its arguments are typed and   *)
(* read (CommandLine), its Frames built parent by parent (frame_binding.py)*)
(* and put on a stack (frame_stack.py), the logger settings resolved from  *)
(* them, the logger scope entered, the handler run, the stack closed, the  *)
(* outcome written and the scope left (command_execution.py).  Any of this *)
(* may fail, in an ordinary way or by a control signal, which is a         *)
(* cancellation, an interrupt or the like.                                 *)
(*                                                                         *)
(* A failure that combines several is the set of their faults, and one of  *)
(* control if one of them is (failure_aggregation.py).  A fault is named   *)
(* by the stage it struck.  The log file hears of what stderr is told, and *)
(* is left out.                                                            *)
(***************************************************************************)
EXTENDS CommandLine

CONSTANTS
    Alphabet,       \* arguments there are
    MaxTokens,      \* bound: the arguments of an invocation
    FaultLimit      \* bound: the faults of an invocation

VARIABLES
    tokens,         \* the arguments after the script, until they are read
    stage,          \* what comes next
    file,           \* whether a configuration file is named
    stack,          \* FrameStack.frames: those built, in order
    closed,         \* the Frames closed, each with whether logging was on
    logging,        \* whether the logger scope is
    result,         \* what the handler came to
    raising,        \* the faults of the failure that is propagating
    told,           \* the failures written to stderr, in order
    ended,          \* exit status and the failure raised instead
    faults          \* history: all faults

commandVars == <<tokens, stage, file, stack, closed, logging, result, raising, told, ended, faults>>

Outcome == {"ok", "ordinary", "control"}
IsControl(failure) == \E f \in failure : f.kind = "control"

\* CliResultStatus.
SUCCESS == 0
FAILURE == 1
EXCEPTION == 2
Unended == [status |-> -1, raised |-> {}]

CommandInit ==
    /\ tokens = << >> /\ stage = "typing" /\ file = FALSE
    /\ stack = << >> /\ closed = << >> /\ logging = FALSE
    /\ result = "none" /\ raising = {} /\ told = << >>
    /\ ended = Unended /\ faults = {}

-----------------------------------------------------------------------------
\* A fault or none at a stage, and the failure it makes of the one that is raised.
Met(at, outcome) ==
    /\ outcome # "ok" => Cardinality(faults) < FaultLimit
    /\ faults' = faults \cup (IF outcome = "ok" THEN {} ELSE {[at |-> at, kind |-> outcome]})

Struck == faults' \ faults
Combined == raising' = raising \cup Struck

Return(status) == stage' = "done" /\ ended' = [ended EXCEPT !.status = status]
Raise(failure) == stage' = "done" /\ ended' = [ended EXCEPT !.raised = failure]

\* The last word of the runner on an ordinary failure: usage on stderr.
UsageOrRaise(failure) ==
    IF IsControl(failure) THEN Raise(failure) ELSE stage' = "usage" /\ UNCHANGED ended

Type(token) ==
    /\ stage = "typing"
    /\ Len(tokens) < MaxTokens
    /\ tokens' = Append(tokens, token)
    /\ UNCHANGED <<stage, file, stack, closed, logging, result, raising, told, ended, faults>>

\* run_entrance and run_command until they execute a command.  Help, the version
\* and usage are printed at once.
Run(name, outcome) ==
    LET answer == IF name = Root THEN run_entrance(tokens) ELSE run_command(name, tokens)
    IN /\ stage = "typing"
       /\ tokens' = << >>
       /\ CASE answer.action \in {"help", "version"} ->
                 /\ Met("stdout", outcome)
                 /\ raising' = Struck
                 /\ IF Struck = {} THEN Return(SUCCESS) ELSE UsageOrRaise(Struck)
                 /\ UNCHANGED file
            [] answer.action = "usage" ->
                 /\ outcome = "ordinary"
                 /\ Met("arguments", outcome)
                 /\ raising' = Struck
                 /\ UsageOrRaise(Struck)
                 /\ UNCHANGED file
            [] OTHER ->
                 /\ outcome = "ok"
                 /\ stage' = "imports"
                 /\ file' = ("-c" \in DOMAIN answer.read.values)
                 /\ UNCHANGED <<raising, ended, faults>>
       /\ UNCHANGED <<stack, closed, logging, result, told>>

-----------------------------------------------------------------------------
\* build_binding: a stage is left for the next, or for the unwinding of what is
\* built.  Defaults of a workflow are lent to the imports and close last.  Only the
\* loading of a file waits or calls host code.
Build(at, next, built, outcome) ==
    /\ stage = at
    /\ at # "load" => outcome # "control"
    /\ Met(at, outcome)
    /\ Combined
    /\ stage' = IF outcome = "ok" THEN next ELSE "close build"
    /\ stack' = built
    /\ UNCHANGED <<tokens, file, closed, logging, result, told, ended>>

AndThen(frame, outcome) == IF outcome = "ok" THEN Append(stack, frame) ELSE stack

BuildImports(outcome) ==
    \E next \in {"defaults", "load"} : Build("imports", next, AndThen("imports", outcome), outcome)

\* The Frame of the defaults is on the list before it is attached.
LendDefaults(outcome) ==
    \/ Build("defaults", "load", <<"defaults">> \o stack, outcome)
    \/ outcome # "ok" /\ Build("defaults", "load", stack, outcome)

LoadConfig(outcome) ==
    /\ file \/ outcome = "ok"
    /\ Build("load", "config", stack, outcome)

BuildConfig(outcome) == Build("config", "runtime", AndThen("config", outcome), outcome)
BuildRuntime(outcome) == Build("runtime", "required", AndThen("runtime", outcome), outcome)

\* A required parameter without a binding is a usage error.
CheckRequired(outcome) == Build("required", "settings", stack, outcome)

\* FrameStack.close, for each Frame: what its close fails with is kept, a
\* cancellation while it closes as well, and the next one follows.  A stack that
\* was closed has no Frame left.
Unclosed == Len(stack) - Len(closed)

\* A wrong form: a control signal ends the loop.
CloseUntilControl(at, next, outcome) ==
    /\ stage = at
    /\ Unclosed > 0
    /\ Met(stack[Unclosed], outcome)
    /\ Combined
    /\ closed' = Append(closed, [frame |-> stack[Unclosed], logging |-> logging])
    /\ stage' = IF Unclosed = 1 \/ outcome = "control" THEN next ELSE at
    /\ UNCHANGED <<tokens, file, stack, logging, result, told, ended>>

CloseNext(at, next, outcome) ==
    /\ stage = at
    /\ Unclosed > 0
    /\ Met(stack[Unclosed], outcome)
    /\ Combined
    /\ closed' = Append(closed, [frame |-> stack[Unclosed], logging |-> logging])
    /\ stage' = IF Unclosed = 1 THEN next ELSE at
    /\ UNCHANGED <<tokens, file, stack, logging, result, told, ended>>

\* Nothing is left to close, or the stack was closed before.
NothingToClose(at, next) ==
    /\ stage = at
    /\ Unclosed = 0
    /\ stage' = next
    /\ UNCHANGED <<tokens, file, stack, closed, logging, result, raising, told, ended, faults>>

AfterRun == IF IsControl(raising') THEN "leave" ELSE "write"

CloseFrame(outcome) ==
    \/ CloseNext("close build", "answer", outcome)
    \/ CloseNext("close run", AfterRun, outcome)
    \/ CloseNext("close final", "answer", outcome)

SkipClose ==
    \/ NothingToClose("close build", "answer")
    \/ NothingToClose("close final", "answer")

-----------------------------------------------------------------------------
\* execute_command between the binding and the handler.
Prepare(at, next, logs, outcome) ==
    /\ stage = at
    /\ Met(at, outcome)
    /\ Combined
    /\ stage' = IF outcome = "ok" THEN next ELSE IF logging THEN "leave" ELSE "close final"
    /\ logging' = (logging \/ (logs /\ outcome = "ok"))
    /\ UNCHANGED <<tokens, file, stack, closed, result, told, ended>>

ResolveSettings(outcome) == Prepare("settings", "enter", FALSE, outcome)
EnterLogging(outcome) == Prepare("enter", "audit", TRUE, outcome)
EmitExecutionStart(outcome) == Prepare("audit", "handler", FALSE, outcome)

\* The handler returns a result, something else or raises.
Handle(outcome) ==
    /\ stage = "handler"
    /\ Met("handler", outcome)
    /\ Combined
    /\ \/ outcome = "ok" /\ result' \in {"success", "failure"}
       \/ outcome # "ok" /\ result' = "exception"
    /\ stage' = "close run"
    /\ UNCHANGED <<tokens, file, stack, closed, logging, told, ended>>

\* What run_bound_command answers to execute_command.
Result(status) == ended' = [ended EXCEPT !.status = status]
Told(failure) == told' = IF failure = {} THEN told ELSE Append(told, failure)

ResultStatus ==
    IF raising # {} THEN EXCEPTION ELSE IF result = "success" THEN SUCCESS ELSE FAILURE

\* write_result: the description of the result, or the diagnostic of the failure.
\* A wrong form: the result of the handler stands although a Frame failed to close.
WriteHandlersResult(outcome) ==
    /\ stage = "write"
    /\ outcome = "ok"
    /\ Told(raising)
    /\ raising' = {}
    /\ Result(IF result = "success" THEN SUCCESS ELSE FAILURE)
    /\ stage' = "leave"
    /\ UNCHANGED <<tokens, file, stack, closed, logging, result, faults>>

WriteResult(outcome) ==
    /\ stage = "write"
    /\ Met("write", outcome)
    /\ CASE outcome = "ok" ->
              Told(raising) /\ raising' = {} /\ Result(ResultStatus) /\ stage' = "leave"
         [] outcome = "ordinary" ->
              raising' = Struck /\ stage' = "excuse" /\ UNCHANGED <<told, ended>>
         [] outcome = "control" ->
              Combined /\ stage' = "leave" /\ UNCHANGED <<told, ended>>
    /\ UNCHANGED <<tokens, file, stack, closed, logging, result>>

\* The failure of the output is written on its own and refers to an earlier one.
WriteOutputFailure(outcome) ==
    /\ stage = "excuse"
    /\ Met("excuse", outcome)
    /\ IF outcome = "ok" THEN Told(raising) /\ raising' = {} /\ Result(EXCEPTION)
       ELSE raising' = Struck /\ UNCHANGED <<told, ended>>
    /\ stage' = "leave"
    /\ UNCHANGED <<tokens, file, stack, closed, logging, result>>

LeaveLogging(outcome) ==
    /\ stage = "leave"
    /\ Met("leave", outcome)
    /\ Combined
    /\ logging' = FALSE
    /\ stage' = "close final"
    /\ UNCHANGED <<tokens, file, stack, closed, result, told, ended>>

\* The end of execute_command.
AnswerStatus ==
    /\ stage = "answer"
    /\ raising = {}
    /\ stage' = "done"
    /\ UNCHANGED <<tokens, file, stack, closed, logging, result, raising, told, ended, faults>>

RaiseControl ==
    /\ stage = "answer"
    /\ IsControl(raising)
    /\ Raise(raising)
    /\ UNCHANGED <<tokens, file, stack, closed, logging, result, raising, told, faults>>

AnswerFailure(outcome) ==
    /\ stage = "answer"
    /\ raising # {} /\ ~IsControl(raising)
    /\ Met("answer", outcome)
    /\ IF outcome = "ok" THEN Told(raising) /\ Return(EXCEPTION) /\ UNCHANGED raising
       ELSE raising' = Struck /\ UsageOrRaise(Struck) /\ UNCHANGED told
    /\ UNCHANGED <<tokens, file, stack, closed, logging, result>>

\* The handlers of run_command and run_entrance.
PrintUsage(outcome) ==
    /\ stage = "usage"
    /\ Met("usage", outcome)
    /\ IF outcome = "ok" THEN Told(raising) /\ Return(EXCEPTION) /\ UNCHANGED raising
       ELSE raising' = Struck /\ Raise(Struck) /\ UNCHANGED told
    /\ UNCHANGED <<tokens, file, stack, closed, logging, result>>

CommandNext ==
    \/ \E token \in Alphabet : Type(token)
    \/ \E name \in {Root, "run"}, outcome \in Outcome : Run(name, outcome)
    \/ \E outcome \in Outcome :
         \/ BuildImports(outcome) \/ LendDefaults(outcome) \/ LoadConfig(outcome)
         \/ BuildConfig(outcome) \/ BuildRuntime(outcome) \/ CheckRequired(outcome)
         \/ ResolveSettings(outcome) \/ EnterLogging(outcome) \/ EmitExecutionStart(outcome)
         \/ Handle(outcome) \/ CloseFrame(outcome) \/ WriteResult(outcome)
         \/ WriteOutputFailure(outcome) \/ LeaveLogging(outcome)
         \/ AnswerFailure(outcome) \/ PrintUsage(outcome)
    \/ SkipClose \/ AnswerStatus \/ RaiseControl

CommandSpec == CommandInit /\ [][CommandNext]_commandVars

-----------------------------------------------------------------------------
\* Properties.

\* What has been typed is understood (CommandLine).
ArgumentsUnderstood == stage = "typing" => OptionsRead(tokens) /\ RoutesLead(tokens)

\* However an invocation ends, its Frames have closed, each once and before the
\* ones it was built on, those of a handler that ran while logging was on, and
\* logging is off (frame_stack.py:34, docs/reference/cli.md:57).
FramesSettled ==
    LET order == Reverse(stack) IN
    /\ \A i \in DOMAIN closed : closed[i].frame = order[i] /\ (result # "none" => closed[i].logging)
    /\ stage = "done" => Len(closed) = Len(stack) /\ ~logging

\* An invocation exits with success only if nothing failed; a control signal is
\* raised; and every other failure is told once, alone or with those it met, as
\* long as stderr can be written (command_execution.py:178, docs/reference/cli.md:88-93).
ExitTellsTruth ==
    LET deaf == \E f \in faults : f.at \in {"write", "excuse", "answer", "usage"}
        tellings(f) == {i \in DOMAIN told : f \in told[i]}
    IN stage = "done" =>
        /\ faults # {} /\ ended.raised = {} => ended.status = EXCEPTION
        /\ faults = {} => ended.raised = {} /\ (ended.status = SUCCESS) = (result \in {"none", "success"})
        /\ IsControl(faults) => IsControl(ended.raised) \/ deaf
        /\ ~deaf => \A f \in faults :
             (f \in ended.raised /\ tellings(f) = {})
                 \/ (f \notin ended.raised /\ Cardinality(tellings(f)) = 1)

=============================================================================
