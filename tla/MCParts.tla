------------------------------- MODULE MCParts -------------------------------
(***************************************************************************)
(* The parts that share nothing with each other or with a task: the cache  *)
(* of a Frame, the bindings its names select with the graphs made of them, *)
(* the order of its definitions, the generators of identifiers, the        *)
(* algebra of calendars, an invocation of a command and the hooks for      *)
(* uncaught failures.  A behaviour is one of one part; the others stay as  *)
(* they begin.                                                             *)
(***************************************************************************)
EXTENDS Snowflake, CacheLifecycle, TopologicalOrder, DependencyGraphs, CommandExecution,
        ExceptionHooks, TLC

CONSTANT Subjects   \* the parts a run looks at

VARIABLES
  part,
  calendar, meaning, built, mapping, moved

----------------------------------------------------------------------------
\* Two workers with two threads, two identifiers a millisecond, a clock that
\* reaches from before the epoch to past the last timestamp.
ClockTime == -1 .. TimestampCount

\* Three definitions, whose bodies may return an object published before.
CacheNames == {"a", "b", "c"}

\* Three definitions that refer to each other and to a name outside the Module.
Ordered == <<"a", "b", "c">>

\* A mask; references to a proxy, a name below it and a plain name; a name
\* reserved for the run; a name in a declared namespace; a factory at a namespace.
a == <<"a">>
ab == <<"a", "b">>
abc == <<"a", "b", "c">>
x == <<"x">>
Expression(paths) == [kind |-> "expression", references |-> paths]
Marker(kind) == [kind |-> kind, references |-> {}]
As(name, bound) == [name |-> name, marked |-> FALSE, bound |-> bound]
Masked(name, bound) == [name |-> name, marked |-> TRUE, bound |-> bound]
Offer(definitions, namespaces, values) ==
  [module |-> Module(definitions, {}, namespaces), values |-> values]
SmallOffers == {
  Offer({}, {}, {Masked(x, "real")}),
  Offer({As(x, Expression({ab, abc, x}))}, {}, {}),
  Offer({As(ab, Marker("runtime"))}, {}, {}),
  Offer({As(abc, Expression({x}))}, {a}, {}),
  Offer({}, {}, {As(a, "factory")})}
SmallUpdates == {{As(ab, "real")}, {As(a, "real"), As(x, "real")}}
SmallDefaults == {{As(abc, "factory"), Masked(x, "value")}}
SmallLookups == {a, ab, abc, x}

\* Eight dates, three months, two years, a week of three days; calendars that
\* leave dates undefined, and one that raises for a date.
C == INSTANCE Calendars
       WITH LastDate <- 8, MonthEnds <- {2, 5, 8}, YearEnds <- {5, 8},
            Week <- 3, WorkDays <- {0, 1}, Gap <- 3
Table(business, other, type) ==
  [d \in business \cup other |-> IF d \in business THEN "BusinessDay" ELSE type]
Sparse == C!Hardcoded("sparse", Table({2, 7}, {3, 4}, "Holiday"))
Raising == C!Callable("failing", Table({1, 5, 6}, {8}, C!Raised))
Yearly == C!YearBatch("yearly", [d \in 1 .. 8 |-> IF d \in {2, 3} THEN "BusinessDay"
                                                 ELSE IF d = 7 THEN C!Raised ELSE "Undefined"])

A == INSTANCE CalendarAlgebra
       WITH LastDate <- 8, MonthEnds <- {2, 5, 8}, YearEnds <- {5, 8},
            Week <- 3, WorkDays <- {0, 1}, Gap <- 3, Shift <- 2,
            Library <- {C!ALL_WEEKDAYS, Sparse, Raising, Yearly, C!END_OF_MONTHS, C!at({4})},
            Routes <- {Sparse, C!Weekday(0)},
            Positions <- {{1}, {2, -1}}, Shifts <- {-1, 0, 2}, MaxOperations <- 2

\* Arguments of every kind: options, names, one of them reserved, a date, a group
\* and a command, and no text.
Arguments == {"-h", "-v", "--verbose", "-c", "-a", "-o",
              "key", "day", "reserved", "run", "group", ""}
Commands == "root" :> ("run" :> "command" @@ "group" :> "inner") @@
            "inner" :> ("run" :> "command")

\* Three installations, each of them with other hooks; one third party.
Hooking == {"first", "second", "third"}
Asking == "first" :> {"thread", "loop"} @@ "second" :> {"loop"} @@ "third" :> {"thread"}

----------------------------------------------------------------------------
algebraVars == <<calendar, meaning, built, mapping, moved>>

\* The parts at rest begin with one of their initial states only.
PartsInit ==
  /\ part \in Subjects
  /\ Init /\ CacheInit /\ BindingInit /\ OrderInit /\ A!Init /\ CommandInit /\ HookInit
  /\ part # "identifiers" => clock = 0
  /\ part # "algebra" => calendar = Sparse

Only(p) == part = p /\ UNCHANGED part
OfIdentifiers ==
  Only("identifiers")
    /\ UNCHANGED <<cacheVars, bindingVars, orderVars, algebraVars, commandVars, hookVars>>
OfCache ==
  Only("cache") /\ UNCHANGED <<vars, bindingVars, orderVars, algebraVars, commandVars, hookVars>>
OfBindings ==
  Only("bindings") /\ UNCHANGED <<vars, cacheVars, orderVars, algebraVars, commandVars, hookVars>>
OfOrder ==
  Only("order") /\ UNCHANGED <<vars, cacheVars, bindingVars, algebraVars, commandVars, hookVars>>
OfAlgebra ==
  Only("algebra") /\ UNCHANGED <<vars, cacheVars, bindingVars, orderVars, commandVars, hookVars>>
OfInvocation ==
  Only("command") /\ UNCHANGED <<vars, cacheVars, bindingVars, orderVars, algebraVars, hookVars>>
OfHooks ==
  Only("hooks") /\ UNCHANGED <<vars, cacheVars, bindingVars, orderVars, algebraVars, commandVars>>

PartsNext ==
  \/ \E w \in Worker, t \in Thread : OfIdentifiers /\ Acquire(t, w)
  \/ \E w \in Worker : OfIdentifiers /\ ReadClock(w)
  \/ \E w \in Worker : OfIdentifiers /\ Reject(w)
  \/ \E w \in Worker : OfIdentifiers /\ Issue(w)
  \/ \E w \in Worker : OfIdentifiers /\ Restart(w)
  \/ OfIdentifiers /\ MoveClock
  \/ \E name \in CacheNames, object \in Object : OfCache /\ CommitResult(name, object)
  \/ \E name \in CacheNames : OfCache /\ CommitFailure(name)
  \/ OfCache /\ BeginRelease
  \/ \E how \in CloseResult : OfCache /\ ReleaseNext(how)
  \/ OfCache /\ FinishClose
  \/ \E offer \in SmallOffers, parent \in Parents :
       OfBindings /\ Create(offer.module, offer.values, parent, parent = None)
  \/ \E frame \in Frame \ Lent, values \in SmallUpdates : OfBindings /\ Mixin(frame, values)
  \/ \E frame \in Frame \ Lent, lent \in SmallDefaults : OfBindings /\ AttachDefaults(frame, lent)
  \/ \E root \in Frame \ Lent, lent \in SmallDefaults : OfBindings /\ EnterScope(root, lent)
  \/ OfBindings /\ LeaveScope
  \/ \E frame \in Frame \ Lent : OfBindings /\ Close(frame)
  \/ OfOrder /\ Refer
  \/ \E kinds \in SUBSET Kinds : OfOrder /\ Ask(kinds)
  \/ OfOrder /\ List
  \/ OfOrder /\ Take
  \/ OfOrder /\ Release
  \/ OfOrder /\ Conclude
  \/ OfOrder /\ Start
  \/ OfOrder /\ Follow
  \/ OfOrder /\ StepBack
  \/ OfAlgebra /\ A!Union
  \/ OfAlgebra /\ A!Intersect
  \/ OfAlgebra /\ A!Minus
  \/ OfAlgebra /\ A!Fallback
  \/ OfAlgebra /\ A!Revert
  \/ OfAlgebra /\ A!BusinessDays
  \/ OfAlgebra /\ A!Holidays
  \/ OfAlgebra /\ A!RangeStarts
  \/ OfAlgebra /\ A!RangeEnds
  \/ OfAlgebra /\ A!NthBusinessDays
  \/ OfAlgebra /\ A!MapThisOrNext
  \/ OfAlgebra /\ A!MapThisOrPrev
  \/ OfAlgebra /\ A!ShiftNDays
  \/ OfAlgebra /\ A!AsCalendar
  \/ \E token \in Arguments : OfInvocation /\ Type(token)
  \/ \E name \in {"root", "run"}, outcome \in Outcome : OfInvocation /\ Run(name, outcome)
  \/ \E outcome \in Outcome : OfInvocation /\ BuildImports(outcome)
  \/ \E outcome \in Outcome : OfInvocation /\ LendDefaults(outcome)
  \/ \E outcome \in Outcome : OfInvocation /\ LoadConfig(outcome)
  \/ \E outcome \in Outcome : OfInvocation /\ BuildConfig(outcome)
  \/ \E outcome \in Outcome : OfInvocation /\ BuildRuntime(outcome)
  \/ \E outcome \in Outcome : OfInvocation /\ CheckRequired(outcome)
  \/ \E outcome \in Outcome : OfInvocation /\ ResolveSettings(outcome)
  \/ \E outcome \in Outcome : OfInvocation /\ EnterLogging(outcome)
  \/ \E outcome \in Outcome : OfInvocation /\ EmitExecutionStart(outcome)
  \/ \E outcome \in Outcome : OfInvocation /\ Handle(outcome)
  \/ \E outcome \in Outcome : OfInvocation /\ CloseFrame(outcome)
  \/ \E outcome \in Outcome : OfInvocation /\ WriteResult(outcome)
  \/ \E outcome \in Outcome : OfInvocation /\ WriteOutputFailure(outcome)
  \/ \E outcome \in Outcome : OfInvocation /\ LeaveLogging(outcome)
  \/ \E outcome \in Outcome : OfInvocation /\ AnswerFailure(outcome)
  \/ \E outcome \in Outcome : OfInvocation /\ PrintUsage(outcome)
  \/ OfInvocation /\ SkipClose
  \/ OfInvocation /\ AnswerStatus
  \/ OfInvocation /\ RaiseControl
  \/ \E i \in Hooking : OfHooks /\ Install(i)
  \/ \E i \in Hooking : OfHooks /\ InstallRefused(i)
  \/ \E i \in Hooking : OfHooks /\ RestoreHook(i)
  \/ \E i \in Hooking : OfHooks /\ RestoreRefused(i)
  \/ \E k \in Kind : OfHooks /\ Replace("other", k)
  \/ OfHooks /\ GiveBack("other")

PartsSpec ==
  PartsInit /\ [][PartsNext]_<<part, vars, cacheVars, bindingVars, orderVars, algebraVars,
                              commandVars, hookVars>>

----------------------------------------------------------------------------
\* An invariant is evaluated where its variables move.

\* A composed calendar says of every date what its operations mean, and walks along
\* it meet and pass over no business day (CalendarAlgebra).
DatesAsMeant == part = "algebra" => A!DatesAsMeant
\* Targets are traced to the first and last date moved there (CalendarAlgebra).
TracedToSources == part = "algebra" => A!TracedToSources
============================================================================
