# A verification project for lclang

lclang evaluates configuration written as lazily evaluated Python-like
expressions.  A *Module* is a set of named definitions; a *Frame* binds a module
to host values, evaluates definitions on demand in asyncio tasks, caches each
outcome as a snapshot and owns the objects it cached.  Around that core sit a
configuration loader (sources that include each other), a logger runtime (a
queue and a writer thread), a workflow runner (task trees with contexts),
calendars loaded by name, and a command line.

This directory holds TLA+ modules that model the parts of it whose behaviour
depends on order, interleaving, failure or boundaries, and the language from its
text to its values; TLC configurations that
check them on small instances; and proofs that the TLA+ proof system checks.
Paths below are relative to `src/src/lclang/` unless they start with `docs/` or
`tests/`.  `PROJECT.json` lists the components, the runs, the source lines each
definition models, the hazards each property is aimed at, and the theorems.

Run a configuration with `tlc -config X.cfg M` and a proof with `tlapm M.tla`,
from this directory.

## 1. The system

| component | state it keeps | operations | modelled by |
|---|---|---|---|
| Frame evaluation and cache (`lang/runtime/frame/`) | `_results`, `_failures`, `_inflight`, `_refreshes`, `_values`; `lifecycle.closing/closed/retired/close_task`; a context variable with the evaluation path of a task | `get`, `recalculate`, `mixin`, `aclose`, reads by a running body | FrameEvaluation, CacheLifecycle, SnapshotStore, FrameProofs, RuntimeProofs |
| Binding lookup, Module and Frame construction (`lang/runtime/module/`, `frame/binding_lookup.py`, `frame/frame.py`) | immutable definitions; the chain of Frames with host values and lent defaults; a task's stack of default scopes | declare, combine, build a Frame, mix in, lend defaults, select a binding, inspect | BindingNames, FrameBindings, RuntimeProofs |
| Dependency analysis (`lang/runtime/dependency/`) | none kept | static references of an expression, graphs, traced reads, order | StaticDependencies, DependencyGraphs, TopologicalOrder, RuntimeProofs |
| Lexer, parser, printer, syntax (`lang/engine/`, `lang/ast/`) | none kept | text to tokens to trees to canonical text | SourceText, SourceParser, SourcePrinter, SyntaxTrees |
| Evaluator (`lang/engine/evaluator/`) | per evaluation: scopes, depth, steps, active functions | evaluate every kind of expression | Evaluator |
| Errors (`error/`) | none | wrap, classify, combine | Failures, CacheLifecycle |
| Standard library (`lang/stdlib/`) | none | stateless host functions | not modelled |
| Configuration loader (`config/`) | per loader: tasks by path, snapshots by identity, three accounts | `load`, expansion of `using` and `import` declarations | ConfigLoading |
| Target evaluation | a Frame for the time of one `get` | evaluate the target of a `using` | a step of ConfigLoading that may fail |
| Configuration documents | none | text to declarations | not modelled |
| Logger scope and queue (`logger/`) | one process-wide slot; root handlers; a queue and a writer thread | enter, leave, log, wrapped loggers | LoggerScope |
| File sink and rotation (`logger/file_sink.py`) | stream, sizes, counters | write, rotate, poll, close, retire on failure | FileSink |
| Exception hooks (`logger/exception_hook*.py`) | hooks of three facilities; what each installation found | install, restore | ExceptionHooks, LoggerProofs |
| Logger settings and formatting | none | validation, text | not modelled |
| Workflow execution (`workflow/`) | a tree of statuses shared by managers, the run's Frame, open contexts | tasks, nested contexts, reports, skips, called workflows | Workflow |
| Workflow definition, mappings, adapter | none while running | validation, text | not modelled |
| Command line (`cli/`) | a stack of Frames per invocation, a logger scope | route, read options, build, handle, unwind, answer | CommandLine, CommandExecution, CommandProofs |
| Snowflake identifiers (`utils/snowflake_id.py`) | last timestamp and sequence under a lock | `next_id` | Snowflake |
| Calendar manager (`utils/calendar/loading/`) | cache and load tasks by identifier; loader chain | `use_calendar`, `retire_calendar` | NamedCalendars, CalendarProofs |
| Forward-step calendars | a list of generated dates | extend, search | ForwardSteps |
| Other calendars, date mappings (`utils/calendar/`) | what they remember of dates they were asked for | compose, classify, walk, map, trace back | Calendars, CalendarMappings, CalendarAlgebra |
| Calendar loaders, other utilities | none | pure functions and I/O | not modelled |

### How they interact

Everything asynchronous runs on one asyncio event loop, so between two `await`s
a task runs alone; what interleaves are the stretches between suspension points.
The logger adds real threads (any thread may log; the writer is a thread), and
`next_id` may be called from any thread.

* A *Frame* creates one owner task per definition that is asked for.  A body reads
  other definitions, of its own Frame or of an ancestor, through the same entry
  as the public API; callers and bodies await the owner through `asyncio.shield`.
  A child Frame shares nothing with its ancestors except that its bodies read
  them and its lifecycle refuses when they close.
* A *text* is scanned and parsed into a tree before a Module takes it; the tree's
  *static dependencies* become the edges of graphs, the tree itself is evaluated
  with the Frame as its outer scope.  *Binding lookup* decides which definition or
  host value a read means; FrameEvaluation takes that decision as the constant
  `OwnerOf` and `Deps`.
* *Target evaluation* and the *command line* load a configuration (one shared
  `ConfigLoader`), build Frames from it and close them in reverse.
* The *workflow runner* evaluates actions and contexts against its Frame and
  publishes failures into it as `__exception__`.
* A *logger scope* wraps a run and replaces the root logger's handlers for its time;
  the hooks for uncaught failures are process-wide like it, but stack.
* *Calendars* are resolved by name through an application's loaders, which may
  use further calendars while they load.

### What is hard about it, and what makes each part correct

* **Frames.** Sharing of one evaluation by readers that may be cancelled at any
  time; recalculation over a live evaluation; close while both go on; bodies that
  fail, swallow their cancellation or hand on objects they were given.  Correct
  when there is one owner per definition, answers are never older than their
  request, snapshots change only by recalculation, and close leaves no task and no
  unreleased object.
* **Cache and close loop.** Identity of objects under aliasing, order of release,
  failure of one release among many.
* **Bindings.** A name may be a value, an attribute of a value or a namespace of
  others, masked or not, in any Frame of a chain, and updates and lent defaults
  change one Frame under the others.  Correct when no Frame in use reads a name two
  ways, and what inspection and graphs foretell is what a read finds.
* **Dependencies and order.** Names that are only perhaps read, and circles.  Correct
  when nothing is read that was not foretold and the order respects every edge.
* **Language.** Printer and parser must agree on every operator in every place.  An
  evaluation that fails, is cancelled or runs out of budget within nested forms must
  still leave every context it entered and run every `finally`, and forget no failure.
* **Configuration loading.** Two loads that meet on one file; a file that changes;
  limits charged once; a cycle noticed on one's own stack only; failed work
  forgotten, finished work kept.  Correct when the result is the recursive
  expansion of the snapshots and every load ends.
* **Logger.** A process-wide slot claimed from two sides, a queue that closes while
  threads emit, a file that fails in the middle of rotating.  Correct when the
  scope is exclusive, drained before host logging returns, and no admitted
  record is lost, repeated or reordered.
* **Workflow.** Which of the nested exits sees which failure, what is reported for
  branches that never ran, and how reports aggregate.
* **Command line.** A fault at any stage, several at once, and control signals, while
  Frames and a logger scope are half open.  Correct when everything built is closed,
  once, in reverse and while logging is on, and the exit status tells the truth.
* **Exception hooks.** Owners that end in another order than they began, and third
  parties between them.  Correct when failures reach the newest owner that remains.
* **Calendars.** One load shared by many callers; loads that need each other;
  retirement that walks over a cache in use.  Of composed calendars: flattening,
  sorting and undoing of operations, dates left undefined, the ends of the range, a
  search by bisection on a mapping that is not strictly monotone.
* **Snowflake.** A clock that jumps, the last sequence number, the last timestamp,
  a restart.

## 2. The modules

A step of a model is what one task or thread does between two suspension points
(or lock operations); every conversion, message text and log line is left out.
Values are model values or small numbers.  Each module declares its parameters
as CONSTANTS and names the assumptions on them; the `MC...` modules give them
values.  Operators preceded by "A wrong ..." are faulty variants of the definition
that follows them; no specification uses them.  `PROJECT.json` names, for every
property, the variant that the run refutes: each property depends on a line of
the code.

### FrameEvaluation

One variable per table of the code: `inflight`, `refreshes`, `results`, `failed`
are the Frame's dictionaries, `retired`, `phase`, `gathered`, `toRelease` belong
to `lifecycle`, `inputs` counts the mixins into `_values`.  `job`, `st`, `pos`, `on`
describe the asyncio tasks: the definition a task owns, its evaluation path,
where it is, how many of its reads are answered and which task it awaits.
`history`, `aborted`, `seen` (the mixins a body began with) and the `flight` of a job (the
first task of the call it goes back to) are history.  TLC checks deadlock: the host
program may stop only when all is answered or owner tasks wait in a circle (`Finished`).
A snapshot is named by the task
that committed it and an object by the task that created it, so identity (which
close relies on) is kept and values are not.

| actions | code |
|---|---|
| `Start`, `DropUnstarted`, `Finish`, `Settle`, `CommitResult`, `CommitFailure` | `evaluate_definition` and its `finally` (`binding_evaluation.py`), `commit_*` (`cache_lifecycle.py`) |
| `ReadFailing`, `ReadCached`, `ReadShared`, `ReadSpawning`, `Wake*` | a read by a body: snapshot, flight to join, cycle check, new owner |
| `CancelDelivered`, `HostSwallowsCancel`, `HostRaises`, `HostCancels` | what the close task and host code do to a body |
| `GetSnapshot`, `GetShared`, `GetSpawning`, `RejectClosed` | `Frame.get` |
| `JoinRefresh`, `AwaitInitial`, `RefreshAtOnce`, `AfterInitial` | `recalculate` (`evaluation_flight.py`), with the reread after its await |
| `AskClose`, `CancelInflight`, `CollectResources`, `ReleaseResource`, `ClearFrame` | `aclose` and the close task |
| `CallerCancelled`, `Mixin` | cancellation of a shielded caller; `Frame.mixin` |

The guard of a read is `Refused`, the same checks in the same order as the
code's.  `Deps` is the sequence of reads of a body: which names they are is the
business of binding lookup.  **SnapshotStore** is the abstract promise: one shown
snapshot per definition, requests answered by acceptable snapshots, disposal of
everything owned after the last publication.  **FrameRefinement** maps the tasks
and tables onto it.  **CacheLifecycle** models the same commits and the close
loop at the level of insertion-ordered dictionaries and lists, where the order of
release and the combination of cleanup failures can be stated.  It combines a failure
when it is noted, where the code combines the noted ones at the end of the loop: the
order is the same, and nothing sees the failure in between.

### ConfigLoading

`disk` is the file system, `owners` the retrieval tasks, `tasks` and `identities`
the loader's dictionaries, and `loads` the recursion of each `load` call as an
explicit stack of documents.  `Begin`, `Define`, `Request`, `Wake`, `Return` are
`load` and `expand` between awaits; `Read`, `Finish` (with `Refused`,
`Known`, `Parsed` for the order of its checks) are the retrieval; `Cancel`, `Abort`
and `Edit` are the environment: a load cancelled, an owner cancelled, a file
changed.  A name is a sequence of segments because qualification by an import
alias decides conflicts.  `MCConfigLoading` defines `Expansion`, the recursive
reading of the documents, as the reference for a finished load.

### LoggerScope and FileSink

`LoggerScope` follows one caller per scope through reservation, start of the
writer, takeover of the root handlers, body, stop, join, restoration and release;
each producer's `Resolve` and `Emit` are two steps, because a thread may be
preempted between finding a handler and queueing.  `FileSink` is the state of one
file sink as a record (segments written, stream, size, counters) with one
operator per operation, used by the writer's steps.  An I/O fault may strike
any write, header, footer or flush, once (`FaultLimit`).

### Workflow

The recursion of the runner is an explicit `stack` of activations; `tree` is
the status tree with its finalized (`locked`) nodes.  `BeginTask`, `EndTask`,
`BeginScope`, `Enter*`, `Exit*`, `Action*`, `NextChild`, `ChildEnded`, `ChildrenDone`,
`FinishRun` are the runner's steps, `Report`, `AddStep`, `CallWorkflow`, `SkipChildren`
what a callback may do through its status manager.  `Aggregate` is the aggregation
of `status_finalization.py`.

### BindingNames, FrameBindings, DependencyGraphs

`BindingNames` has the values: qualified names as sequences of segments, declarations
with masked names, Modules, Presets, and the conflicts their construction refuses.
`FrameBindings` keeps the `frames` made so far, each with its parent, its Module, its
host values and the defaults lent to it, a task's stack of default `scopes`, and what
was `expected` of each Frame, the names bound around it when it was made.  `Chains` gives each
Frame the Frames above it; a default Frame is a Frame of its own that is only lent.
`Create`, `Mixin`, `AttachDefaults`, `EnterScope`, `LeaveScope` and `Close` are its
steps, and `select_binding` with its companions is `binding_lookup.py`.  `DependencyGraphs`
adds the static graphs of a Module and of a chain, the inspection tree and the
snapshot that compares static edges with traced reads.

### SyntaxTrees, SourceText, SourceParser, SourcePrinter, StaticDependencies

A tree node is a kind, the texts it carries and its parts; `WellFormed` is what the
constructors of `lang/ast/` refuse.  The scanner works on TLA+ strings, since which
character follows which is its subject.  A scan or a parse returns a value with the
position after it, or an error code; the parser's rules call each other through one
recursive operator, `ParseBy`.  `StaticDependencies` gives each free name its kinds:
eager, conditional or deferred.

### Evaluator, Failures, Language

An evaluation is a function of a context (scopes, depth, active functions) and a store
(a log of what happened, the steps taken, the next identity), as the code's is of its
resolvers and context variables.  The log holds reads, calls, entered and left
contexts, failures and those a handler took; the properties are about it.  `Failures` has
identities, causes and groups, and `combine_failures`.  `Language` puts the stages
together: `Render`, `Scan`, `Parse`, `Evaluate`, one step each.

### TopologicalOrder, Calendars, CalendarMappings, CalendarAlgebra

`TopologicalOrder` grows a graph edge by edge (`Refer`), is asked for the order by edges of
some kinds (`Ask`) and takes one step for each turn of the code's loops: what waits for
nothing is listed (`List`), a definition is ordered (`Take`) and its dependants wait for one
edge less (`Release`).  When none is ready and some are left (`Conclude`), the walk begins at
each definition in turn (`Start`), follows edges (`Follow`) and comes back (`StepBack`).  The state
"lost" is the `None` that `internal_find_cycle` may return and its caller casts away.  `Calendars` represents a calendar by how it was
composed, which is what its identifier says in the code; `get_day_type` and the walks
follow the code.  `CalendarMappings` has chains of operations on dates and the
bisection that finds what was mapped to a date.  In `CalendarAlgebra` an application
composes calendars and mappings, one operation a step, and a table (`meaning`, `moved`)
follows with the plain, pointwise meaning: the reference.

### CommandLine, CommandExecution, ExceptionHooks

`CommandLine` is routing and options as functions of the arguments; the two readers of
options are kept apart, as in the code.  `CommandExecution` is an invocation whose
every stage ends well, in a failure or in a control signal.  `ExceptionHooks` has the
three hooks, what every installation found, and third parties that take a hook over
and give it back.

### MCParts and MCLanguage

The parts that share no state (identifiers, cache, bindings, order, algebra, command,
hooks) are checked in one run: a behaviour of `MCParts` belongs to one `part`, and
the others stay as they begin.  `MCLanguage` lists the trees and texts of the language runs.

### NamedCalendars and ForwardSteps

`cached` and `flights` are the manager's dictionaries; `loads` are load tasks with the
path they inherited; `uses` is a `use_calendar` call of a caller or of a loader;
`retirement` is the walk of `retire_calendar` over its copy of the cache.  A loader is
the application's: it may use calendars (`Scripts`), decline, fail, cancel or
return one.  `ForwardSteps` models the list of generated dates, its extension
across an await, and the bisection over it.

### Snowflake

`next_id` in three steps under its lock (`Acquire`, `ReadClock`, `Issue` or `Reject`),
`MoveClock` for a clock that goes where it likes, `Restart` for a new generator with
an old worker number.  `Id` packs fields by base arithmetic, as the code's shifts do.

## 3. What is checked

| run | instance | states | shows |
|---|---|---|---|
| `frames` | three interchangeable callers, a child Frame over a parent, a leaf that reads the parent's base and a twig that reads the leaf, 6 tasks | 296,740 | one owner, current answers, complete close, circles of waiting owners only across flights; every step is a step of `SnapshotStore` |
| `liveness` | three callers, one Frame, a definition that reads another and itself, a host call that raises CancelledError, one mixin | 177,126 | every request is answered; the inductive invariant of the proofs |
| `parts` | seven parts (below) | 380,720 | what each part promises |
| `language` | about 6,000 trees and 60 texts | 31,353 | printing and parsing agree, dependencies are sound, cleanups are complete, no failure and no limit is lost |
| `config` | two loads, four paths of three files, one edit, one cancelled owner, every limit reachable | 78,327 | one retrieval per path, exact accounts, failures forgotten, the result, and that loads end |
| `logger` | two scopes, two threads, one rotating file and the console, one fault, one timer | 371,904 | exclusive scope, drain before restoration, records neither lost nor repeated, no leaked stream, leaving ends |
| `workflow` | four tasks, three contexts, all reports and outcomes | 143,095 | complete reports, nested scopes, earned successes, published failures, nothing begun after a failure |
| `calendars` | two callers, three calendars in a chain and a circle, one retirement with replacement | 163,626 | one load per calendar, local cancellation, complete retirement, requests answered |
| `deadlock`, `forward`, `mixin`, `reprint` | the smallest instance of each | - | a documented sentence the code does not keep (section 6) |

The parts of `parts`:

| part | instance | states | property |
|---|---|---|---|
| identifiers | two workers, two threads, two identifiers a millisecond, two milliseconds, a clock from before the first to past the last | 51,044 | `StrictIncrease` |
| cache | three names, four objects, four commits, aliases, closes that fail in two ways | 29,473 | `CacheInv` |
| bindings | up to three Frames from five kinds of Module and values, two updates, defaults lent and withdrawn, closes | 19,569 | `NamesUnambiguous`, `DefaultsOnlyFill`, `ReadsForetold` |
| order | every graph of at most three edges over three definitions and an external name, ordered by each choice of kinds, step by step | 215,387 | `OrderIsRight` |
| algebra | eight dates, six calendars, two operations of fourteen | 19,823 | `DatesAsMeant`, `TracedToSources` |
| command | lists of up to four of twelve arguments, three faults | 32,286 | `ArgumentsUnderstood`, `FramesSettled`, `ExitTellsTruth` |
| hooks | three installations, one third party | 13,138 | `HookInPlace` |

### Why the bounds are enough to meet the interesting cases

* `frames`: three callers are what it takes for a caller that recalculates while one
  waits and one closes; `TaskLimit` 6 lets both definitions be evaluated and
  refreshed, or a leaf and a twig be entered by two callers; a parent and a child are the least hierarchy in which a Frame closes
  under a reader.  The callers are interchangeable, so they are a symmetry set
  (safety only; the liveness run has no symmetry).  Bodies are `Fallible`,
  `Stubborn` and `Aliasing` where it matters and the runs fire every action.
* `liveness`: one Frame, because the interesting wait is for an evaluation that
  waits in turn; `total` reads itself, so that the cycle error and its handling by
  an error form are met; `price` is interrupted by its host.
* `config`: `First` reaches `part` twice and through `link`, an alias of the same
  file; the second root leads into the first; `Back` closes a circle with the second root that
  the two loads enter at different ends; the limits lie between the cost of
  the shortest and of the longest expansion, so each is exceeded in some behaviour
  and not in others.  `EditLimit` and `AbortLimit` are one: an edit between any
  two steps is enough to tell a snapshot from a second reading.
* `logger`: `MaxBytes` 2 with a header of 1 makes the second record of a segment rotate; one
  fault at any place reaches every cleanup path, and a second fault only meets a
  sink that has already been retired.
* `workflow`: a task with two contexts, a covering one within an ordinary one; a
  grouping task without an action; a child after a failing sibling.
* `calendars`: a circle of two identifiers and two callers that enter it at
  different places; `LoadCount` 3 lets a load be repeated after a failure.
* `language`: every kind of expression stands in every place an expression can stand in,
  which is where precedence can go wrong; the control forms are nested two deep
  over bodies that return, raise, are cancelled, read a failing name or spend the
  budget.  `MaxDepth`, `MaxSteps`, `MaxItems` are small enough that some of the trees
  exceed each.
* identifiers: the fields have two values each, so each is exhausted, and the clock
  ranges over every value a field can hold and one beyond on both sides.
* bindings: three Frames are the least chain in which an update reaches a Frame through
  another; the five offers hold a mask, a reserved name, a namespace with a factory
  below it, a proxy, and references to all of them.
* order: three definitions make every circle and every shared dependency.
* algebra: a week of three days, months and years of different lengths, a calendar that
  leaves dates undefined, one that raises and one defined a year at a time; two
  operations are enough to undo, to flatten and to sort.
* command: four arguments fit a route, an option with a value and one that is wrong;
  three faults meet a failing handler, a failing close and a failing output together.
* hooks: three owners can end in every order; one third party can stand between any two.

### Fairness

* `frames`, `workflow`, `parts` and `language` check safety only and assume none.
* `liveness` (`FairSpec`): weak fairness of each owner task's steps, each caller's
  resumption and each close task's steps.  The event loop runs ready tasks in FIFO
  order, so each ready task runs again; that a host call inside a body and an
  object's `close` return is the application's part and is assumed.  Nothing
  makes a caller ask, be cancelled, or a host call fail.
* `config`: weak fairness of each load's expansion and each retrieval: a read of a
  file ends, in a text or an error.
* `logger`: weak fairness of the caller's resumption after an await and of the
  writer thread.  A body need not end: `LeavingEnds` starts when it has.
* `calendars`: weak fairness of waking and of a load's next loader step: a loader
  answers.  `EveryUseAnswered` excludes exactly the callers caught in a circle.

### The properties, by the question they ask

* *Who works?* `SingleOwner`, `SingleFlight` (in `LoaderInv` and `CalendarInv`), `ExclusiveScope`.
* *Whose failure is it?* `CancellationHasCause`, `FailuresForgotten` (in `LoaderInv`),
  `FailurePublished` (in `WorkflowInv`), `CleanupFailureComplete` (in `CacheInv`), `NoFailureLost`,
  `ExitTellsTruth`, `HookInPlace`.
* *Is the answer right and fresh?* `AnswerCurrent`, `ImplementsStore`, `ResultIsExpansion`,
  `SuccessIsEarned`, `StrictIncrease`, `RoundTrip`, `DatesAsMeant`, `TracedToSources`,
  `OrderIsRight`, `ArgumentsUnderstood`.
* *Does a name mean one thing, and what was foretold?* `NamesUnambiguous`,
  `DefaultsOnlyFill`, `ReadsForetold` (`NamesReachable` and `TracesForetold`), `DependenciesSound`.
* *Is anything lost?* `EveryObjectReleased`, `ReleasedExactlyOnce` and `ReverseWhenPlain` (in `CacheInv`),
  `AdmittedHandled`, `WrittenOnceInOrder`, `OneOpenSegment` and `SizeBounded` (in `SinkInv`),
  `EveryBranchReported` (in `WorkflowInv`), `OneSnapshot` and `Accounted` (in `LoaderInv`).
* *Is it over when it says so?* `ClosedIsQuiet`, `RestoredOutside`, `ScopesNested` (in `WorkflowInv`),
  `NothingBeginsAfterFailure`, `RetirementComplete`, `FramesSettled`, `CleanupBalanced`,
  `BudgetIsFinal`.
* *Does it end?* `EveryCallReturns`, `LoadsEnd`, `LeavingEnds`, `EveryUseAnswered`,
  `CircleNeedsTwoFlights`, `CircleNeedsTwoCallers` (in `CalendarInv`).
* *Proved, and not part of a run:* `SnapshotStable`, `DrainedBeforeRestore`,
  `WrappedStayInScope`, `UniqueIds`, `FailuresKeepState`.

`RoundTrip` is stated for trees that satisfy `Unambiguous`, which names the places where
the printer's parentheses, chosen by precedence alone, are not enough; the run
`reprint` shows three of them.

Each module of interacting tasks has one type invariant, `TypeOK` (`CacheTypeOK` in CacheLifecycle).  TLC checks it as a part of a larger
invariant (`Inv` for Frames, `CacheInv`, `LoaderInv`, `SinkInv`, `WorkflowInv`,
`CalendarInv`, each of which adds the structural property named beside it in its
module); of Snowflake it is proved.

Properties of Frames are stated for definitions outside `aborted`, those none of
whose owner tasks ended cancelled while the Frame was open.  The exception is
real: section 6 tells what happens there.

## 4. What is proved

The theorems hold for every value of the constants that satisfies the named
assumptions: any number of Frames, callers, definitions and tasks, any hierarchy
and any reads.

**Frames** (`FrameInvariant`, `FrameProofs`), from
`ConstantsAssumption` and `VisibilityAssumption`: `SingleOwner`, `ClosedIsQuiet`,
`EveryObjectReleased`, `CancellationHasCause`, `AnswerCurrent`, `InputsCurrent`, `CircleNeedsTwoFlights`,
`SnapshotStable`, `TypeOK` and, for reads without circles, `NoOwnerDeadlock`
(`AcyclicNeverDeadlocks`: if some ranking of the definitions decreases along every
read, owner tasks never wait in a circle).

None of these is inductive.  `Inv` adds what they rest on: tasks are numbered in
order of creation (`TasksBorn`), whoever waits names an existing task of the right
definition (`WaitsNamed`), tables file tasks under their own definition
(`FiledByDefinition`); an undisturbed live task is the registered one, an initial
evaluation runs only while there is no snapshot, and a task that ended in an open
Frame left one (`OwnersRegistered`, from which `SingleOwner` follows); the close
task's list contains every live task (`ClosePhases`); objects are in exactly one of
the places where close looks for them (`ObjectsTracked`, `ObjectsCreated`); and a
cancellation comes from a closing Frame of the lineage (`CancelsFromClose`).  `AnswerCurrent`
relates a caller's request, made in the past, to the publications since: a registered
refresh has not published yet (`RegistrationsPending`), what is shown is the latest
publication (`LatestShown`), and whoever waits for a task will be answered with a
publication that its request may have (`CallsTracked`).  `InputsCurrent` (a recalculation
that found no refresh to join is answered by a body that began with the host values of
its request, or later ones) needs that host values only advance and bodies remember when
they began (`Fresh`, `InputsTracked`).

`CircleNeedsTwoFlights` is about who waits for whom.  A flight is the tree of tasks that
grew from one call: a task is on the path of the tasks it spawns (`PathsKept`), and
within one flight the unfinished tasks lie on one line, each but the last waiting for a
later one whose path contains its own (`FlightsLine`).  In a circle within one flight the task created
last would wait for one that is on its own path, and that read is the one that
`get_resolved` refuses.

`FrameProofs` first shows that each of
the twenty-odd actions has one of ten shapes (a birth, a commit, an abort, a step
of a close, ...), so that each part of `Inv` is preserved shape by shape and the
actions are opened once.

**The store** (`FrameProofs`, at its end): every step of evaluation, refresh, close and the callers maps to
a step of `SnapshotStore` or to a stutter, so `StoreImplemented` gives `ImplementsStore` for every
behaviour in which `aborted` stays empty, that is, no owner task is cancelled in an open
Frame.  The hypothesis is needed and not a convenience: with a host that raises
CancelledError, four callers and three tasks, a recalculation overwrites the
registration of a live owner (section 6), close neither cancels nor awaits that
owner, and it publishes while the Frame releases its objects.  For Frames without
parents (`Lineage[f] = {f}`) whose host code leaves cancellation alone (`Interruptible = {}`) the
hypothesis is itself proved (`NothingAborted`), so `RootFramesImplementStore` holds without a
condition on the behaviour.  The run `frames` checks the refinement for a child Frame.

**Cache** (`RuntimeProofs`): `CacheInv`, whose parts are `CacheTypeOK`, `ReleasedExactlyOnce`,
`ReverseWhenPlain` and `CleanupFailureComplete`, for any names, any number of objects and
publications and any closes that fail, from no assumption.  Until the close loop begins, the
cache and the retired objects together hold every object that was published, and in the order
of publication where nothing was replaced or shared (`AllHeld`).  From then on what is
closed and what is pending are the two ends of one list without repeats of exactly those
objects (`OneWalk`); that `Resources` is such a list is the lemma `ResourcesSound`, which rests
on counting first occurrences (`CountStep`, `RankTaken`, `RankUnique`).  The failure so far is the
first of those of the worse kind and retains them all (`Summed`).

**Order of definitions** (`RuntimeProofs`, second part), from `DefinitionsAssumption` (no name is
defined twice): `OrderIsRight`, for any number of definitions, references and external names
and whichever kinds are asked for.  While definitions are ordered, the count of each is the
number of edges it waits for: those to definitions not ordered and those the loop over
dependants has not reached (`Waits`); it is ready or ordered exactly when that set is empty,
or the first listing has yet to come to it (`Kahn`).  So what is ordered follows what it
refers to, and when nothing is ready each definition left refers to another one left
(`Knotted`).  The walk is proved against that: whatever it has done with leads only to what
it has done with, so nothing of the knot is ever done with, except by finding a circle
(`Walk`).  A walk that has begun everywhere would have been in the knot and left it; hence it
never returns without a circle (`NeverNone`).  The circle is a piece of the path, whose names
differ and follow each other by edges, and the edge that closes it is the first of its kind
because an earlier one would have been followed before (`CloseHolds`).

**Names** (`RuntimeProofs`, last part): `NamesUnambiguous` and `DefaultsOnlyFill`, for any Modules,
any number of Frames, updates, defaults, scopes and closes, from no assumption.  A Frame's
parent was made before it, so a Frame without a chain, or with one that breaks a rule, would
have a least one, whose parent keeps it (`ChainsExist`, `OwnersBelow`, `OwnersDerive`, `ChainsStay`).
No step moves a Frame, gives it another Module, opens it again or unmasks a name (`Kept`), so
chains stay what they were and a Frame in use has been in use all along; lent Frames stand
alone, and what scopes name exists (`FramesBuilt`, `ScopesBuilt`).  `NamesUnambiguous` is inductive with
these: an update is checked against each Frame reached through open Frames, and those are all
that are in use below it (`ChangeUnambiguous`).  Defaults come from beside the chain (`DefaultsApart`), and a
selection that ends in the chain never looked at them (`BoundFirst`), so what is lent or
withdrawn leaves it (`SelectionKept`).  A mask of a default Frame is lost only with its scope: a Frame that
defaults are attached to had none above it and has none derived from it (`MasksKept`).

**Logger** (`LoggerProofs`), from `ScopeAssumption`: `ExclusiveScope`,
`RestoredOutside`, `DrainedBeforeRestore`, `WrappedStayInScope`.  The invariant follows
the slot: whoever is between reservation and release holds it (`SlotHeld`), what is
installed was saved (`InstalledSaved`), what has started is installed
(`StartedInstalled`), a handler a producer has found belongs to the slot's holder
(`FoundInstalled`), and a joined writer is done (`WriterDone`).

The records take a second invariant, `RInv`, and `SinkAssumption`: `AdmittedHandled` and
`SinkInv`.  Records carry a number each, so no two are the same.  What a scope's writer
has in its queue are the records it admitted and has not handled, in the order of
admission, followed by nothing or by the sentinel (`ScopeDrains`); each of its sinks has
handled the same first ones of them, and every one of these is written at one place or
counted as an error.  Between two records a sink is at rest: one segment or none is open
and as long as its records, and what was retired stays as it is.  A record is admitted
only while the scope's sinks are open, since only such a scope is found.  The
lemmas about a sink's steps (`PutsLine`, `KeepsLines`, `Counts`) speak of places of
lines, not of sequences of records, so that no induction is needed.

**Exception hooks** (`LoggerProofs`, at its end), from `HooksDistinct` (installations, third
parties and the native hook differ): `HookInPlace`, for any installations, whatever kinds
of hook they take, and any third parties.  What an installation found is older than itself
(`Ages`), so following what was found ends.  Since the search for an active hook is
recursive, the invariant speaks of it through a function that passes every ended
installation on to what it found and keeps everything else (`Leads`); by `Ages` there
is one such function (`PassesOneWay`).  The hooks placed and not withdrawn are a line: the current hook
leads to the newest, and what each found leads to the one before it (`HooksLine`); nobody
has found an installation that is still to come (`Unfound`).  When an installation ends, everything that led to
it leads to what it found (`GivesBackLines`), wherever it stands in the line.

**Snowflake** (`SnowflakeProofs`), from `SnowflakeAssumption`: `StrictIncrease`,
`UniqueIds`, `FailuresKeepState`.  The lemmas `IdInjective` and `IdMonotone` are about
mixed-base numbers; the invariant says that every issued stamp lies at or below
its generator's position.

**Command line** (`CommandProofs`): `FramesSettled`, for any arguments and any number of
faults, from no assumption.  The invariant reads the closed Frames against the stack:
they are its end read backwards (`ClosedFromTheTop`), nothing is closed before the handler
has ended and everything where the invocation says so (`ClosedInTime`), and the logger
scope outlives the closing of a handler's Frames (`LoggingLasts`, `ClosedUnderLogging`).

`ExitTellsTruth` has an invariant of its own, `TInv`.  As long as no attempt to write to
stderr has failed (`Deaf`), each fault either propagates and was not told, or was told once
and no longer propagates (`Accounted`), and a control signal always propagates
(`ControlPends`).  A fault propagates or has already decided the status (`FailureKnown`).
Each attempt to write is made once (`AttemptsPast`), so that its fault is a new one.

**Calendars** (`CalendarProofs`), from `TasksAssumption`, `RequestsAssumption` and
`ReplacementsAssumption`: `CalendarInv`, whose parts are `TypeOK`, `SingleFlight` and
`CircleNeedsTwoCallers`.  The last is about the shape of the waiting, which the
invariant describes: the load tasks one caller began are a line in which each but the
deepest waits for the next (`WaitsDescend`, `ChainsLine`) and each one's path is the
beginning of the next one's, so that the deepest sees the whole line in its own path
and refuses to close a circle on it.  Inside one chain a wait always leads to a deeper
task; a circle within it would have no deepest (`CirclesCross`, with the lemmas
`LeastNumber` and `Bounded` about finitely many numbers).

`RetirementComplete` (theorem `RetirementsComplete`) is about chains of any length.  While a
retirement goes over the cache in rounds, each calendar that has been cached throughout is
removed, or still to be asked in this round, or due for another round because one was
removed after it was asked (`changed`), or builds on nothing removed (`Examined`).  When a round
changes nothing only the last is left, so the removed set is closed; `Dependants` is the
least closed set, and therefore gone.

**Configuration loader** (`ConfigProofs`), from `LimitsPositive`, `LoadsAssumption` (finitely many
loads and paths) and `TextsAssumption` (what a file may hold): `LoaderInv`, whose parts are `TypeOK`,
`SingleFlight`, `OneSnapshot`, `Accounted` and `FailuresForgotten`.  The totals are the sizes of the
snapshots kept, stated without a recursive sum: each unit charged is a pair of its
source and its place, and a total is the number of the pairs (`Units`, with the lemmas
`UnitsAdded` and `SnapshotCharged`).  `FailuresForgotten` needs that a running retrieval has a load
waiting for it (`RetrievalsWaited`), which holds until a load is cancelled.  The lemma
`OwnerFree` shows that the bound on owners never restricts the model: a load that
registers one always finds one unused, because every used one is either registered
for a path or waited for by another load (`OwnersReferred`).

What a load returns is the theorem `ResultExpands`, from `NamesAssumption` as well (names are not
empty).  What a document expands to is defined by rules (`Follows`): a definition is
appended, a `using` goes on with the scope it is given, an `import` with one of its own that
is then qualified, an absent optional file is passed over.  Rules derive the least set that
is closed under them, so `Expansion` says that the result is in every closed set, and
`ClosedExist` shows that there are some.  The invariant reads the stack of a load
as a derivation under way (`Expanding`): whatever the rest of an open document derives from its scope of
now, the whole document derives from the scope it began with (`Advances`).  Other loads go on
meanwhile, and snapshots are only added (`Closed` speaks of the sources it needs); an optional
file found absent is absent for that placement whatever comes later (`Passed`, `Agrees`).

**Workflow** (`WorkflowProofs`), from `WorkflowAssumption` and `TreeAssumption`:
`WorkflowInv`, whose parts are `TypeOK`, `ScopesNested`, `EveryBranchReported` and
`FailurePublished`, then `SuccessIsEarned` and `NothingBeginsAfterFailure`, for any tree of
tasks and contexts and anything their callbacks do.  The properties speak of the tree and of
what is held, and steps are taken by the stack, so the invariant reads one against the
other.  The stack descends along the declared tree and a task's body is on it once (`Linked`,
`OneBody`, `Nested`); the nodes in progress are exactly those the activations name, and what
is held is what they own (`Names`, from which `ScopesNested` follows).  The status tree grows
downwards and whatever is final in it is complete, except below a task that omitted its
children (`Grown`); what the loops have yet to reach is absent from it (`Ahead`) and what they
have passed is present (`Behind`), so that filling the gaps at the end of a task or after a
stopped child reports every branch once and none twice.  While the recursion goes on
nothing has failed, and a failure on its way out is published and shows in a status
of the node it will pass (`Explained`).  The parts are operators of the stack or of the
tree, and each action is one of three shapes, a return, a step onward or a step in place
(`ReturnStep`, `OnwardStep`, `StillStep`).  For the descendants of an omitted task the proof uses
that `Subtree` is the least closed set, where a recursive definition would have needed
induction.  `NothingBeginsAfterFailure` follows because only a beginning adds a node in progress
(`Begins`), and a beginning happens before anything has an outcome.

## 5. What is only model-checked

* Liveness (`EveryCallReturns`, `LoadsEnd`, `LeavingEnds`, `EveryUseAnswered`): temporal
  reasoning under fairness is out of the prover's reach.
* The refinement of `SnapshotStore` for hierarchies of Frames without a hypothesis on the
  behaviour: it fails where host code raises CancelledError; in the run `frames`, which
  checks it for a child Frame, none does.
* `NoOwnerDeadlock` where reads do form a circle that two calls enter: there it fails (section 6).
* The language, `ReadsForetold`, the calendar algebra and the reading of arguments:
  recursive operators over trees, graphs and lists, which the prover cannot use.
* `ResultIsExpansion`, which compares with a recursive definition.  `ResultExpands` states the
  same by rules; that both definitions of an expansion agree is not proved.
* That the ordering of definitions ends: each turn of its loops uses up an edge or a
  definition, and in the run `parts` every behaviour of that part is finite.

## 6. Where the code and its documentation disagree

Four runs end in a counterexample to a sentence of the repository.

1. `deadlock`: `docs/reference/runtime.md:180`, "Circular dependency paths raise a
   structured error before an owner can deadlock."  The check sees the path of the
   requesting task only (`evaluation_flight.py:37`).  Two callers that enter a circle
   from both ends make two owners which join each other's flight and wait for ever.
2. `forward`: `utils/calendar/forward_step_calendar.py:132`, "Return business for
   discovered dates and undefined otherwise."  Two tasks that extend the list repeat
   dates (`:126`), and bisection over the unsorted list misses one that is there.
3. `mixin`: `docs/reference/runtime.md:272-273`, "Mixin validation includes every open
   descendant that borrows the updated Frame."  A Frame that is closing is skipped
   together with the Frames below it (`lang/runtime/frame/binding_lookup.py:250`), although
   a child may still be open and borrow the updated Frame through it.
4. `reprint`: `tests/lang/engine/test_parser_properties.py:39-40`, the canonical text of
   every source that parses parses and is its own canonical text.  `x[()]` is printed as `x[]`
   (`lang/engine/printer/primary_rendering.py:95`), which does not parse, and `x[(*a, b)]` is not printed at all; a conditional as
   an iterable and a `try` inside a `try` lose their parentheses too.

Observed while modelling, stated as the part that holds and not as runs of their own:

* After an evaluation ended cancelled by host code, a waiting recalculation overwrites
  the registration of an owner that another `get` has created
  (`evaluation_flight.py:94`); close (`cache_lifecycle.py:113`) does not know that owner,
  although it "cancels and settles owned tasks" (`docs/reference/runtime.md:309`).  The
  invariants of Frames except `aborted` definitions for this, and the proof of the
  refinement needs that there are none.
* A context that fails around a covering one is reported as covered
  (`workflow/status_finalization.py:89`; `workflow/execution_status.py:29`, "Work failed but
  an enclosing context completed its recovery contract").
* Mapped calendars: a hole in the span of the source makes a target a business day
  (`mapped_date_calendar.py:60`, `calendar_mapping.py:124`; `docs/reference/calendar.md:80-81`).
  `business_days()` of an nth-business-day calendar returns the calendar itself, with its
  Holidays (`docs/reference/calendar.md:50`).  A composite reports its direct dependencies
  only, so retiring a calendar does not reach a mapped one over a composite of it.
* Defaults are lent below a name that the host has filled where the definition asked
  for a runtime override (`binding_lookup.py:158`; `docs/reference/runtime.md:67-79`).
* A static graph is not renewed by a mixin (`dependency_snapshot.py:49`), and an edge to
  an attribute below a scoped name is never confirmed by a trace; `ReadsForetold` compares
  with traces where no name was bound after the Frame was made and a reference names a
  binding that is not lent below a host value.
* When stderr cannot be written, the failure that was to be told is lost with it
  (`cli/command_execution.py:154`); `ExitTellsTruth` makes that exception.
* After a recalculation, objects are not closed in reverse order of acquisition
  (`cache_lifecycle.py:118`, `docs/reference/runtime.md:309`); `ReverseWhenPlain` says when
  they are.  A recalculation joins a running refresh that may have read the host
  values before the caller's mixin (`evaluation_flight.py:83`).
* A configuration file whose retrieval fails after its only waiter was cancelled
  stays registered as failed (`config_loader.py:154`; `tests/config/test_loader.py:365`,
  "Failed attempts leave no poisoned task").  `FailuresForgotten` is stated for
  behaviours without a cancelled load.
* Two callers that enter mutually dependent calendars at two places wait for each
  other (`calendar_manager.py:90`); `CircleNeedsTwoCallers` says that it needs two.  A
  load in flight may end after its calendar was retired or replaced and caches what
  it found (`:152`); a replacement with another identifier than its key breaks the
  chain of dependants (`:201`).
* The exit callback of a context may report a status that overwrites the ERROR
  recorded for it (`context_execution.py:150`); a detail step with ERROR does not stop
  the task's own children (`task_execution.py:246`).

## 7. What is not modelled, and the plan

Left out for good: text formatting, rendering of diagnostics, validation of
immutable settings, the standard library's stateless functions, calendar loaders,
other utilities and pure I/O.  Of the command line: discovery of commands, the texts
of help, the audit record.  Of the logger: settings, formatting, the console stream and
the levels of records.  Of workflows: definition, mappings of inputs, the text adapter.

Left out of modelled parts: module operands, snapshot exports, deferred parameters
and per-evaluation limits of Frames; weak registration of proxies and typed records
in bindings; spans, limits on the size of a source and names outside ASCII in the
language; conversions and formats of Python values beyond those the inputs need; the
one-loop check of the loader; reading a document into declarations; callbacks that
finalize their own status manager; the arithmetic of the rotation deadline; third
parties that replace a hook while an installation is in progress; two interleaved
queries of one caching calendar (its cache holds what a pure function returns).

What would come next:

1. *Proofs*: the dependency analysis, restated as least closed sets the way `Dependants`
   is, so that `ReadsForetold` can be proved about.
2. *Configuration documents*: joining of logical lines, with the scanner's strings.
3. *Composition*: the reads an Evaluator's log shows as the `Deps` of FrameEvaluation,
   and FrameBindings as its `OwnerOf`.
4. *Workflow*: mappings of inputs, and a callback that finalizes its own manager.
