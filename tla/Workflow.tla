------------------------------ MODULE Workflow ------------------------------
(***************************************************************************)
(* One execution of a declared workflow: task nodes entered parent first,  *)
(* their context tasks opened in order around the action and the children, *)
(* and the status tree that reports what happened.                         *)
(*                                                                         *)
(* The execution is one asyncio task, so the interleaving is that of the   *)
(* recursion with the callbacks, which are the application's: an action or *)
(* a context may report statuses, add detail steps, call another workflow, *)
(* omit its children, return or raise.  The recursion of execute_task,     *)
(* execute_context_scope and execute_action_and_children is a stack of     *)
(* activations; an outcome is handed to the caller's activation.           *)
(* Callbacks do not finalize the status manager they are lent, and an exit *)
(* does not take back a failure status.                                    *)
(***************************************************************************)
EXTENDS Naturals, Sequences, FiniteSets, SequencesExt

CONSTANTS
  Tasks, Contexts,  \* the declared task nodes and context tasks
  Root,             \* the workflow's root task
  Children,         \* Children[t]: the declared child tasks, in order
  Scopes,           \* Scopes[t]: the declared context tasks, in order
  Acting,           \* the tasks that have an action
  Covering,         \* the contexts that are FailureCoveringContextTasks
  Talkative,        \* bound: the nodes whose callbacks report a status, add a
                    \* step or call a workflow, one step or call each
  Reports,          \* bound: the statuses they set explicitly
  StepStatuses,     \* bound: how their detail steps are left
  CallResults       \* bound: how the workflows they call end

Run == "run"   \* the manager of the whole execution
Nobody == "nobody"
Node == Tasks \cup Contexts

Status == {"PENDING", "RUNNING", "SUCCESS", "SKIPPED",
           "FAILURE", "FAILURE_COVERED", "ERROR"}
STOP_STATUSES == {"FAILURE", "FAILURE_COVERED", "ERROR"}

ASSUME WorkflowAssumption ==
  /\ Root \in Tasks /\ Acting \subseteq Tasks /\ Covering \subseteq Contexts
  /\ Tasks \cap Contexts = {} /\ {Run, Nobody} \cap Node = {}
  /\ Children \in [Tasks -> Seq(Tasks)] /\ Scopes \in [Tasks -> Seq(Contexts)]
  /\ Talkative \subseteq Node
  /\ Reports \subseteq Status /\ StepStatuses \subseteq Status
  /\ CallResults \subseteq Status \ {"RUNNING"}

Closed(S) == \A t \in S : ToSet(Children[t]) \subseteq S

\* A task with everything declared below it.
Subtree(t) == {c \in Tasks : \A S \in SUBSET Tasks : t \in S /\ Closed(S) => c \in S}

\* An identifier appears once in a definition, and every task of it below its root
\* (workflow_factory.py:156, validate_workflow_tree).
ASSUME TreeAssumption ==
  /\ \A t \in Tasks : Root \notin ToSet(Children[t])
  /\ \A t, u \in Tasks : \A i \in DOMAIN Children[t], j \in DOMAIN Children[u] :
       Children[t][i] = Children[u][j] => t = u /\ i = j
  /\ \A t, u \in Tasks : \A i \in DOMAIN Scopes[t], j \in DOMAIN Scopes[u] :
       Scopes[t][i] = Scopes[u][j] => t = u /\ i = j
  /\ Subtree(Root) = Tasks

VARIABLES
  stack,     \* the activations of the recursion, innermost last
  tree,      \* the status tree shared by all managers
  omitted,   \* tasks whose action called skip_children
  exception, \* the origin of the shared Frame's __exception__, or Nobody
  held,      \* tasks whose Frame and contexts whose resource is still open
  verdict    \* how the root task ended: "none", "more", "stop", "stopped",
             \* "failed" or "signal"

vars == <<stack, tree, omitted, exception, held, verdict>>

\* An activation's outcome: "more" and "stop" are the returned booleans,
\* "stopped" a raised WorkflowStatusStop, "failed" another ordinary failure,
\* "signal" a cancellation or another control exception.
Outcome == {"more", "stop", "stopped", "failed", "signal"}
Ordinary == {"stopped", "failed"}

\* error.combine_failures: a control exception keeps its identity.
Combine(pending, cleanup) ==
  IF "signal" \in {pending, cleanup} THEN "signal" ELSE cleanup

----------------------------------------------------------------------------
\* The status tree: ExecutionStatusManager and status_finalization

StatusTree ==
  [status   : [Node \cup {Run} -> Status \cup {"ABSENT"}],
   subTasks : [Node \cup {Run} -> Seq(Node)],
   steps    : [Node \cup {Run} -> SUBSET Status],
   locked   : SUBSET (Node \cup {Run})]

Attach(tr, parent, n, s) ==
  [tr EXCEPT !.status[n] = s, !.subTasks[parent] = Append(@, n)]

Update(tr, n, s) == [tr EXCEPT !.status[n] = s]

\* The statuses of a node's children once they are final: a step left running
\* has not finished and counts as a failure.
ChildStatuses(tr, n) ==
  {tr.status[c] : c \in ToSet(tr.subTasks[n])}
    \cup {IF s = "RUNNING" THEN "FAILURE" ELSE s : s \in tr.steps[n]}

Aggregate(own, below) ==
  IF own \in {"FAILURE_COVERED", "ERROR"} THEN own
  ELSE IF "ERROR" \in below THEN "ERROR"
  ELSE IF "FAILURE" \in {own} \cup below THEN "FAILURE"
  ELSE IF "FAILURE_COVERED" \in below THEN "FAILURE_COVERED"
  ELSE IF "PENDING" \in below THEN "PENDING"
  ELSE IF below = {"SKIPPED"} THEN "SKIPPED" ELSE "SUCCESS"

\* finalize_manager, then finalize_node with every sub-task final already.
FinalizeManager(tr, n) ==
  LET own   == IF tr.status[n] = "RUNNING" THEN "SUCCESS" ELSE tr.status[n]
      below == ChildStatuses(tr, n)
  IN  [tr EXCEPT !.status[n] = IF below = {} THEN own ELSE Aggregate(own, below),
                 !.locked = @ \cup {n}]

\* add_skipped_task for each of a sequence of declared siblings
SkipTasks(tr, parent, ts) ==
  LET tasks == UNION {Subtree(t) : t \in ToSet(ts)}
      nodes == tasks \cup UNION {ToSet(Scopes[t]) : t \in tasks}
  IN  [tr EXCEPT
        !.status = [n \in DOMAIN @ |-> IF n \in nodes THEN "SKIPPED" ELSE @[n]],
        !.subTasks = [n \in DOMAIN @ |->
                        IF n \in tasks THEN Scopes[n] \o Children[n]
                        ELSE IF n = parent THEN @[n] \o ts ELSE @[n]],
        !.locked = @ \cup nodes]

\* The declared nodes that are not among those reported, in order
Unreported(declared, reported) ==
  LET first[i \in 0 .. Len(declared)] ==   \* of the first i
        IF i = 0 THEN <<>>
        ELSE IF declared[i] \in reported THEN first[i - 1]
        ELSE Append(first[i - 1], declared[i])
  IN  first[Len(declared)]

\* add_unexecuted_statuses: declared contexts and children without a node
AddUnexecuted(tr, t) ==
  LET reported == ToSet(tr.subTasks[t])
      scopes   == Unreported(Scopes[t], reported)
      opened   == [tr EXCEPT
                      !.status = [n \in DOMAIN @ |->
                        IF n \in ToSet(scopes) THEN "SKIPPED" ELSE @[n]],
                      !.subTasks[t] = @ \o scopes,
                      !.locked = @ \cup ToSet(scopes)]
  IN  IF t \in omitted THEN opened
      ELSE SkipTasks(opened, t, Unreported(Children[t], reported))

----------------------------------------------------------------------------
\* The recursion

Activation ==
  [do : {"start", "task", "open", "enter", "inside", "act", "children"},
   of : Tasks, index : Nat, outcome : Outcome \cup {"none"}]

Doing(do, t, i) == [do |-> do, of |-> t, index |-> i, outcome |-> "none"]

\* What runs inside the first i - 1 scopes of t: its i-th scope, or its body.
Inner(t, i) ==
  IF i <= Len(Scopes[t]) THEN Doing("open", t, i)
  ELSE IF t \in Acting THEN Doing("act", t, 0) ELSE Doing("children", t, 1)

Top == Last(stack)
At(do) == stack # <<>> /\ Top.do = do
Task == Top.of
Scope == Scopes[Task][Top.index]   \* of an activation of a context

Become(a) == stack' = Append(Front(stack), a)
Call(a, b) == stack' = Front(stack) \o <<a, b>>
Return(o) ==
  IF Len(stack) = 1
  THEN stack' = <<>> /\ verdict' = o
  ELSE /\ stack' = [Front(stack) EXCEPT ![Len(stack) - 1].outcome = o]
       /\ UNCHANGED verdict

\* The manager that an activation's callback was lent; a context callback runs
\* on entry and again on exit.
Lent == IF At("act") THEN Task ELSE Scope
CallbackRuns ==
  \/ At("act") \/ At("enter")
  \/ At("inside") /\ Top.outcome # "none"

Parent(t) ==
  IF t = Root THEN Run
  ELSE CHOOSE p \in Tasks : t \in ToSet(Children[p])

\* record_exception
RecordException(n, tr) == exception' = n /\ tree' = Update(tr, n, "ERROR")

----------------------------------------------------------------------------
\* execute_workflow and execute_task

Init ==
  /\ stack = <<Doing("start", Root, 0)>>
  /\ tree = [status   |-> [n \in Node \cup {Run} |->
                             IF n = Run THEN "RUNNING" ELSE "ABSENT"],
             subTasks |-> [n \in Node \cup {Run} |-> <<>>],
             steps    |-> [n \in Node \cup {Run} |-> {}],
             locked   |-> {}]
  /\ omitted = {} /\ held = {}
  /\ exception = Nobody
  /\ verdict = "none"

BeginTask ==
  /\ At("start")
  /\ tree' = Attach(tree, Parent(Task), Task, "RUNNING")
  /\ held' = held \cup {Task}
  /\ Call(Doing("task", Task, 0), Inner(Task, 1))
  /\ UNCHANGED <<omitted, exception, verdict>>

\* Only a task that ran to its end has nothing left to report as skipped.
Unfinished(o) == o # "more"

\* The scopes are left.  Whatever did not run is reported as skipped, then the
\* task's Frame closes, which may fail too.
EndTask(cleanup) ==
  LET o == Top.outcome
      pending == IF cleanup = "none" THEN o ELSE Combine(o, cleanup)
      reported == IF Unfinished(o) THEN AddUnexecuted(tree, Task) ELSE tree
      recorded == IF cleanup = "failed" THEN Update(reported, Task, "ERROR") ELSE reported
      final == FinalizeManager(recorded, Task)
  IN  /\ At("task") /\ o # "none"
      /\ tree' = final
      /\ exception' = IF cleanup = "failed" THEN Task ELSE exception
      /\ held' = held \ {Task}
      /\ Return(IF pending = "more" /\ final.status[Task] \in STOP_STATUSES
                THEN "stop" ELSE pending)
      /\ UNCHANGED omitted

\* An ordinary failure ends in a result; a control exception propagates.
FinishRun ==
  /\ stack = <<>> /\ verdict # "signal" /\ Run \notin tree.locked
  /\ tree' = FinalizeManager(tree, Run)
  /\ UNCHANGED <<stack, omitted, exception, held, verdict>>

\* The execution is over; nothing more happens.
Finished ==
  /\ stack = <<>> /\ (verdict = "signal" \/ Run \in tree.locked)
  /\ UNCHANGED vars

----------------------------------------------------------------------------
\* execute_context_scope

BeginScope ==
  /\ At("open")
  /\ tree' = Attach(tree, Task, Scope, "RUNNING")
  /\ Become([Top EXCEPT !.do = "enter"])
  /\ UNCHANGED <<omitted, exception, held, verdict>>

\* The arguments cannot be built or __aenter__ raises: there is nothing to exit.
EnterRaises(kind) ==
  /\ At("enter")
  /\ tree' = FinalizeManager(
       IF kind = "failed" THEN Update(tree, Scope, "ERROR") ELSE tree, Scope)
  /\ exception' = IF kind = "failed" THEN Scope ELSE exception
  /\ Return(kind)
  /\ UNCHANGED <<omitted, held>>

\* A wrong form: a failure between entry and body skips the exit.
EnterUnprotected(mapping) ==
  /\ At("enter")
  /\ held' = held \cup {Scope}
  /\ IF mapping = "none" /\ tree.status[Scope] \notin STOP_STATUSES
     THEN /\ Call([Top EXCEPT !.do = "inside"], Inner(Task, Top.index + 1))
          /\ UNCHANGED <<tree, exception, verdict>>
     ELSE /\ exception' = Scope
          /\ tree' = FinalizeManager(Update(tree, Scope, "ERROR"), Scope)
          /\ Return("failed")
  /\ UNCHANGED omitted

\* The resource is there.  A failing output mapping or a stop status reported
\* on entry is a failure inside the scope, which its exit is told about.
Enter(mapping) ==
  LET o == IF mapping = "none" /\ tree.status[Scope] \in STOP_STATUSES
           THEN "stopped" ELSE mapping
  IN  /\ At("enter")
      /\ held' = held \cup {Scope}
      /\ tree' = IF o = "failed" THEN Update(tree, Scope, "ERROR") ELSE tree
      /\ exception' = IF o \in Ordinary THEN Scope ELSE exception
      /\ IF o = "none"
         THEN Call([Top EXCEPT !.do = "inside"], Inner(Task, Top.index + 1))
         ELSE Become([Top EXCEPT !.do = "inside", !.outcome = o])
      /\ UNCHANGED <<omitted, verdict>>

\* __aexit__ returns.  A failure is dropped only if it is ordinary, the exit
\* asked for it and the context reports it as covered.
Covered(o, suppressed, final) ==
  /\ o \in Ordinary /\ suppressed
  /\ final.status[Scope] = "FAILURE_COVERED"

Exit(suppressed, reported) ==
  LET o == Top.outcome
      final == FinalizeManager(reported, Scope)
  IN  /\ held' = held \ {Scope}
      /\ IF Covered(o, suppressed, final)
         THEN /\ tree' = Update(final, Task, "FAILURE_COVERED")
              /\ Return("stop")
              /\ UNCHANGED exception
         ELSE /\ tree' = final
              /\ IF o \in {"more", "stop"} /\ final.status[Scope] \in STOP_STATUSES
                 THEN exception' = Scope /\ Return("stopped")
                 ELSE UNCHANGED exception /\ Return(o)
      /\ UNCHANGED omitted

\* The exit of an application's own context manager.
ScopeExits(suppressed) ==
  /\ At("inside") /\ Top.outcome # "none" /\ Scope \notin Covering
  /\ Exit(suppressed, tree)

\* The exit of a FailureCoveringContextTask whose handler and release succeed.
CoveringExits ==
  /\ At("inside") /\ Top.outcome # "none" /\ Scope \in Covering
  /\ LET handled == Top.outcome \in Ordinary
     IN  Exit(handled, IF handled THEN Update(tree, Scope, "FAILURE_COVERED") ELSE tree)

\* A wrong form: the context keeps the status it had.
ExitRaisesPreserving(kind) ==
  /\ At("inside") /\ Top.outcome # "none"
  /\ tree' = FinalizeManager(tree, Scope)
  /\ exception' = IF kind = "failed" THEN Scope ELSE exception
  /\ held' = held \ {Scope}
  /\ Return(Combine(Top.outcome, kind))
  /\ UNCHANGED omitted

\* __aexit__ raises, or a covering context's handler or release does.  What a
\* covering context was told about and raises again is not a raise of its exit.
ExitRaises(kind) ==
  LET failure == Combine(Top.outcome, kind)
      recorded == IF kind = "failed" THEN Update(tree, Scope, "ERROR") ELSE tree
  IN  /\ At("inside") /\ Top.outcome # "none"
      /\ Scope \in Covering => Top.outcome # "signal"
      /\ tree' = FinalizeManager(recorded, Scope)
      /\ exception' = IF kind = "failed" THEN Scope ELSE exception
      /\ held' = held \ {Scope}
      /\ Return(failure)
      /\ UNCHANGED omitted

----------------------------------------------------------------------------
\* execute_action_and_children

\* The arguments, the action, the returned record or its publication fails.
ActionRaises(kind) ==
  /\ At("act")
  /\ IF kind = "failed" THEN RecordException(Task, tree) ELSE UNCHANGED <<tree, exception>>
  /\ Return(kind)
  /\ UNCHANGED <<omitted, held>>

ActionReturns ==
  /\ At("act")
  /\ CASE tree.status[Task] \in STOP_STATUSES -> exception' = Task /\ Return("stopped")
       [] tree.status[Task] \notin STOP_STATUSES /\ Task \in omitted ->
            UNCHANGED exception /\ Return("more")
       [] OTHER -> Become(Doing("children", Task, 1)) /\ UNCHANGED <<exception, verdict>>
  /\ UNCHANGED <<tree, omitted, held>>

NextChild ==
  LET k == Top.index
  IN  /\ At("children") /\ Top.outcome = "none" /\ k <= Len(Children[Task])
      /\ Call(Top, Doing("start", Children[Task][k], 0))
      /\ UNCHANGED <<tree, omitted, exception, held, verdict>>

\* A wrong form: the loop goes on after a child that merely reported failure.
ChildEndedContinues ==
  LET k == Top.index
      o == Top.outcome
  IN  /\ At("children") /\ o # "none"
      /\ IF o \in {"more", "stop"}
         THEN Become(Doing("children", Task, k + 1)) /\ UNCHANGED verdict
         ELSE Return(o)
      /\ UNCHANGED <<tree, omitted, exception, held>>

\* A child that stopped has its later siblings reported as skipped; a raised
\* failure leaves that to the task's end.
ChildEnded ==
  LET k == Top.index
      o == Top.outcome
  IN  /\ At("children") /\ o # "none"
      /\ IF o = "more"
         THEN /\ Become(Doing("children", Task, k + 1))
              /\ UNCHANGED <<tree, verdict>>
         ELSE /\ tree' = IF o = "stop"
                         THEN SkipTasks(tree, Task,
                                SubSeq(Children[Task], k + 1, Len(Children[Task])))
                         ELSE tree
              /\ Return(o)
      /\ UNCHANGED <<omitted, exception, held>>

ChildrenDone ==
  /\ At("children") /\ Top.outcome = "none" /\ Top.index > Len(Children[Task])
  /\ Return("more")
  /\ UNCHANGED <<tree, omitted, exception, held>>

----------------------------------------------------------------------------
\* What a running callback does with the manager and the context it was lent

\* status_mgr.update
Report(s) ==
  /\ CallbackRuns /\ Lent \in Talkative
  /\ At("inside") /\ tree.status[Scope] \in STOP_STATUSES => s \in STOP_STATUSES
  /\ tree' = Update(tree, Lent, s)
  /\ UNCHANGED <<stack, omitted, exception, held, verdict>>

\* A detail step, left with status s
AddStep(s) ==
  /\ CallbackRuns /\ Lent \in Talkative /\ tree.steps[Lent] = {}
  /\ tree' = [tree EXCEPT !.steps[Lent] = @ \cup {s}]
  /\ UNCHANGED <<stack, omitted, exception, held, verdict>>

\* call_status.propagate_call_status
Propagate(own, s) ==
  IF "ERROR" \in {own, s} THEN "ERROR"
  ELSE IF s \in {"FAILURE", "FAILURE_COVERED"} THEN "FAILURE" ELSE own

\* execute_workflow_in_task: another workflow runs to its end in a Frame of its
\* own and is reported under this task with status s; a failing body or Frame
\* cleanup counts as ERROR and may then be raised by the action.
CallWorkflow(s) ==
  /\ At("act") /\ Task \in Talkative /\ tree.steps[Task] = {}
  /\ tree' = [tree EXCEPT !.steps[Task] = @ \cup {s},
                          !.status[Task] = Propagate(@, s)]
  /\ UNCHANGED <<stack, omitted, exception, held, verdict>>

\* TaskContext.skip_children; a context's callback holds a copy of the task's
\* context whose child execution is never active.
SkipChildren ==
  /\ At("act")
  /\ omitted' = omitted \cup {Task}
  /\ UNCHANGED <<stack, tree, exception, held, verdict>>

Next ==
  \/ BeginTask \/ BeginScope
  \/ \E kind \in {"failed", "signal"} :
       EnterRaises(kind) \/ ExitRaises(kind) \/ ActionRaises(kind)
  \/ \E o \in {"none", "failed", "signal"} : Enter(o) \/ EndTask(o)
  \/ \E suppressed \in BOOLEAN : ScopeExits(suppressed)
  \/ CoveringExits
  \/ ActionReturns \/ NextChild \/ ChildEnded \/ ChildrenDone
  \/ \E s \in Reports : Report(s)
  \/ \E s \in StepStatuses : AddStep(s)
  \/ \E s \in CallResults : CallWorkflow(s)
  \/ SkipChildren
  \/ FinishRun \/ Finished

Spec == Init /\ [][Next]_vars

----------------------------------------------------------------------------
\* Properties

\* The activations, the status tree and what is held have the runner's types.
TypeOK ==
  /\ stack \in Seq(Activation)
  /\ tree \in StatusTree
  /\ omitted \subseteq Acting
  /\ exception \in Node \cup {Nobody}
  /\ held \subseteq Node
  /\ verdict \in Outcome \cup {"none"}

Reported == Run \in tree.locked

\* The declared nodes that a run reports: not the descendants of a task whose
\* action chose to omit its children.
Expected ==
  LET hidden == UNION {Subtree(t) \ {t} : t \in omitted}
      shown == Tasks \ hidden
  IN  shown \cup UNION {ToSet(Scopes[t]) : t \in shown}

\* The result's tree holds every declared task and context exactly once, except
\* for what skip_children omitted, and each of them has a final status
\* (add_unexecuted_statuses and add_skipped_task fill the gaps on every path).
EveryBranchReported ==
  Reported =>
    /\ UNION {ToSet(tree.subTasks[n]) : n \in Node \cup {Run}} = Expected
    /\ \A n \in Node \cup {Run} : IsInjective(tree.subTasks[n])
    /\ Expected \subseteq tree.locked
    /\ \A n \in Expected : tree.status[n] \notin {"RUNNING", "ABSENT"}

\* The nodes around n: what n's callbacks may rely on.
Enclosing(n) ==
  IF n \in Contexts
  THEN LET t == CHOOSE t \in Tasks : n \in ToSet(Scopes[t])
           i == CHOOSE i \in DOMAIN Scopes[t] : Scopes[t][i] = n
       IN  {t} \cup {Scopes[t][j] : j \in 1 .. i - 1}
  ELSE IF n = Root THEN {}
       ELSE {Parent(n)} \cup ToSet(Scopes[Parent(n)])

\* A resource outlives everything inside its scope, and when the execution is
\* over, with a result or with a control exception, every context that was
\* entered has been exited and every task's Frame is closed.
ScopesNested ==
  /\ \A n \in held : Enclosing(n) \subseteq held
  /\ stack = <<>> => held = {}

\* A failure that reached execute_workflow is the one published as
\* __exception__ of the shared Frame.
FailurePublished == verdict \in Ordinary => exception # Nobody

\* The recursion, the resources it holds, the failure it publishes and the tree it
\* reports agree.
WorkflowInv == TypeOK /\ ScopesNested /\ EveryBranchReported /\ FailurePublished

\* Once a failure was recorded or a finished task reported a stop status, no
\* task and no context begins, even if a context covers the failure later.
NothingBeginsAfterFailure ==
  [][(\E n \in Node : tree.status[n] = "ABSENT" /\ tree'.status[n] = "RUNNING")
       => /\ exception = Nobody
          /\ \A t \in Tasks \cap tree.locked : tree.status[t] \notin STOP_STATUSES]_vars

\* A result that is not a failure was earned: no callback failed or asked to
\* stop, the recursion ran to its end, and no task below ended in failure.
SuccessIsEarned ==
  Reported /\ tree.status[Run] \notin STOP_STATUSES =>
    /\ exception = Nobody
    /\ verdict = "more"
    /\ \A t \in Tasks : tree.status[t] \notin STOP_STATUSES

============================================================================
