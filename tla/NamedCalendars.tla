--------------------------- MODULE NamedCalendars ---------------------------
(***************************************************************************)
(* lclang/utils/calendar/loading/calendar_manager.py: one                  *)
(* BDCalendarManager used by several tasks of one event loop.  A calendar  *)
(* that is not cached is loaded by one task, the flight of its identifier, *)
(* which asks the loaders in order; a loader may use the manager for the   *)
(* calendars it builds on.  The task inherits the path of loads that led   *)
(* to it (ACTIVE_CALENDAR_LOADS) and everybody else waits for the task.    *)
(* A retirement walks over copies of the cache and asks each calendar for  *)
(* its dependencies, which an application may compute in a coroutine.      *)
(*                                                                         *)
(* Loaders are the application's: a loader uses the manager one call at a  *)
(* time, may suspend anywhere and lets the failures of its calls through.  *)
(* Nobody outside the manager can reach the task of a flight.              *)
(***************************************************************************)
EXTENDS Naturals, Sequences, FiniteSets, SequencesExt, Functions, TLC

CONSTANTS
    Callers,        \* tasks of the application that call use_calendar
    Ids,            \* calendar identifiers
    Scripts,        \* Scripts[i]: what the loaders of i may ask the manager for, in order
    LoaderCount,    \* loaders of the manager
    LoadCount,      \* bound: load tasks somebody still refers to
    Wishes,         \* Wishes[c]: what caller c asks for: identifiers with a fallback
    Retirable,      \* identifiers that are retired
    Replacements    \* calendars that take the place of a retired one

VARIABLES
    cached,         \* _cached_calendars
    flights,        \* _flights: flights[i] is the load task of i
    loads,          \* loads[n]: the load tasks; chain is history: the task a caller began with
    uses,           \* uses[c]: the call of use_calendar of each caller and load task
    retirement,     \* the call of retire_calendar
    stable          \* history: keys cached with the same calendar since it began

vars == <<cached, flights, loads, uses, retirement, stable>>

LoadTasks == 1..LoadCount
NoTask == 0
Clients == Callers \cup LoadTasks

\* A request: a calendar, and one to fall back on (the caller's own, or none).
Requests == [id : Ids, fallback : Ids \cup {"none", "own"}]

ASSUME TasksAssumption ==
    /\ LoadCount \in Nat
    /\ LoaderCount \in Nat
    /\ Callers \cap LoadTasks = {}

ASSUME RequestsAssumption ==
    /\ Ids # {}
    /\ Wishes \in [Callers -> SUBSET Requests]
    /\ Scripts \in [Ids -> SUBSET Seq(Requests)]
    /\ Retirable \subseteq Ids

Calendar(id, dependencies) == [id |-> id, dependencies |-> dependencies]
Nothing == [kind |-> "none", calendar |-> {}]
Declined == [kind |-> "declined", calendar |-> {}]
Failed == [kind |-> "failed", calendar |-> {}]
Cancelled == [kind |-> "cancelled", calendar |-> {}]
Found(calendar) == [kind |-> "calendar", calendar |-> {calendar}]

\* table[key] = value.
Put(table, key, value) ==
    [k \in DOMAIN table \cup {key} |-> IF k = key THEN value ELSE table[k]]

\* A calendar of the caller's own, given as a fallback.
OwnCalendar == Calendar("own", {})

NotAsking == [waits |-> NoTask, wake |-> Nothing, fallback |-> "none", outcomes |-> <<>>]
NoLoad == [state |-> "blank", id |-> CHOOSE i \in Ids : TRUE, path |-> <<>>, loader |-> 1,
           script |-> <<>>, chain |-> NoTask]
NoRetirement == [state |-> "idle", id |-> CHOOSE i \in Ids : TRUE, replacement |-> {},
                 removed |-> {}, todo |-> {}, changed |-> FALSE]

Init ==
    /\ cached = [i \in {} |-> OwnCalendar]
    /\ flights = [i \in {} |-> NoTask]
    /\ loads = [n \in LoadTasks |-> NoLoad]
    /\ uses = [c \in Clients |-> NotAsking]
    /\ retirement = NoRetirement
    /\ stable = {}

-----------------------------------------------------------------------------
(* use_calendar, called by a caller or by the loader of a load task.       *)

\* ACTIVE_CALENDAR_LOADS as client c sees it.
ActivePath(c) == IF c \in Callers THEN <<>> ELSE loads[c].path

Running(n) == loads[n].state = "running"

\* Load tasks have numbers; a task that has ended gives its number back.
NextFree == CHOOSE n \in LoadTasks : ~Running(n) /\ \A m \in LoadTasks : ~Running(m) => n <= m

\* A loader keeps the outcomes of its calls; what a caller does with its own is
\* no concern of the manager.
Answer(c, outcome) ==
    uses' = [uses EXCEPT ![c] =
                IF c \in Callers THEN NotAsking
                ELSE [NotAsking EXCEPT !.outcomes = Append(uses[c].outcomes, outcome)]]

Await(c, n, fallback) ==
    uses' = [uses EXCEPT ![c].waits = n, ![c].wake = Nothing, ![c].fallback = fallback]

\* create_task(self.load_named_calendar(i)): the body extends the path it inherits.
Spawn(c, i) ==
    /\ \E n \in LoadTasks : ~Running(n)
    /\ \E script \in Scripts[i] :
         loads' = [loads EXCEPT ![NextFree] =
                    [NoLoad EXCEPT !.state = "running", !.id = i, !.script = script,
                                   !.path = Append(ActivePath(c), i),
                                   !.chain = IF c \in Callers THEN NextFree ELSE loads[c].chain]]
    /\ flights' = Put(flights, i, NextFree)

\* The call up to its first suspension.
UseCalendar(c, i, fallback) ==
    \/ /\ i \in DOMAIN cached
       /\ Answer(c, Found(cached[i]))
       /\ UNCHANGED <<loads, flights>>
    \/ /\ i \notin DOMAIN cached
       /\ Contains(ActivePath(c), i)
       /\ Answer(c, Failed)
       /\ UNCHANGED <<loads, flights>>
    \/ /\ i \notin DOMAIN cached
       /\ ~Contains(ActivePath(c), i)
       /\ i \in DOMAIN flights
       /\ Await(c, flights[i], fallback)
       /\ UNCHANGED <<loads, flights>>
    \/ /\ i \notin DOMAIN cached
       /\ ~Contains(ActivePath(c), i)
       /\ i \notin DOMAIN flights
       /\ Spawn(c, i)
       /\ Await(c, NextFree, fallback)

\* The await of the flight has ended and the call goes on.
Wake(c) ==
    LET result == uses[c].wake
        fallback == uses[c].fallback IN
    /\ result # Nothing
    /\ \/ /\ result.kind # "declined"
          /\ Answer(c, result)
          /\ UNCHANGED <<loads, flights>>
       \/ /\ result.kind = "declined" /\ fallback \notin Ids
          /\ Answer(c, IF fallback = "own" THEN Found(OwnCalendar) ELSE Failed)
          /\ UNCHANGED <<loads, flights>>
       \/ /\ result.kind = "declined" /\ fallback \in Ids
          /\ UseCalendar(c, fallback, "none")
    /\ UNCHANGED <<cached, retirement, stable>>

Calling(c) == uses[c].waits # NoTask \/ uses[c].wake # Nothing

Ask(c) ==
    /\ ~Calling(c)
    /\ \E wish \in Wishes[c] : UseCalendar(c, wish.id, wish.fallback)
    /\ UNCHANGED <<cached, retirement, stable>>

\* What the loader that runs in task n has been given so far.
Outcomes(n) == uses[n].outcomes

\* The finally clause: the flight is forgotten if it is still this task's.
FlightsWithout(n) ==
    Restrict(flights, {i \in DOMAIN flights : ~(i = loads[n].id /\ flights[i] = n)})

\* A wrong form: waiters are woken by the commit to the cache only.
ResolvedOnCommit(n, result) ==
    [c \in Clients |->
        IF c = n THEN NotAsking
        ELSE IF uses[c].waits = n /\ result.kind = "calendar"
        THEN [uses[c] EXCEPT !.waits = NoTask, !.wake = result]
        ELSE uses[c]]

\* Everybody who waits for the task is given its result.
Resolved(n, result) ==
    [c \in Clients |->
        IF c = n THEN NotAsking
        ELSE IF uses[c].waits = n THEN [uses[c] EXCEPT !.waits = NoTask, !.wake = result]
        ELSE uses[c]]

End(n, result) ==
    /\ loads' = [loads EXCEPT ![n] = NoLoad]
    /\ flights' = FlightsWithout(n)
    /\ uses' = Resolved(n, result)
    /\ UNCHANGED retirement

\* A wrong form: a cancelled caller forgets the flight it waited for.
CancelForgets(c) ==
    /\ Calling(c)
    /\ Answer(c, Cancelled)
    /\ flights' = IF uses[c].waits = NoTask THEN flights ELSE FlightsWithout(uses[c].waits)
    /\ UNCHANGED <<cached, loads, retirement, stable>>

\* The caller's task is cancelled; the flight is shielded from it.
Cancel(c) ==
    /\ Calling(c)
    /\ Answer(c, Cancelled)
    /\ UNCHANGED <<cached, flights, loads, retirement, stable>>

\* What is cached throughout a retirement.
Watch ==
    stable' = IF retirement'.state = "idle" THEN {}
              ELSE IF retirement.state = "idle" THEN DOMAIN cached
              ELSE {i \in stable \cap DOMAIN cached' : cached'[i] = cached[i]}

-----------------------------------------------------------------------------
(* load_named_calendar, with the application's loaders.                    *)

\* A loader's code runs: it is in no call of the manager, ...
LoaderRuns(n) == Running(n) /\ ~Calling(n)
\* ... and none of its calls has failed.
LoaderGoesOn(n) ==
    /\ LoaderRuns(n)
    /\ \A k \in 1..Len(Outcomes(n)) : Outcomes(n)[k].kind = "calendar"

LoaderUses(n) ==
    /\ LoaderGoesOn(n)
    /\ Len(Outcomes(n)) < Len(loads[n].script)
    /\ LET wish == loads[n].script[Len(Outcomes(n)) + 1] IN
       UseCalendar(n, wish.id, wish.fallback)
    /\ UNCHANGED <<cached, retirement, stable>>

\* The loader knows no such calendar and the next one is asked.
LoaderDeclines(n) ==
    /\ LoaderGoesOn(n)
    /\ loads[n].loader < LoaderCount
    /\ \E script \in Scripts[loads[n].id] :
         loads' = [loads EXCEPT ![n].loader = @ + 1, ![n].script = script]
    /\ uses' = [uses EXCEPT ![n] = NotAsking]
    /\ UNCHANGED <<cached, flights, retirement, stable>>

\* The last loader knows no such calendar either.
AllDecline(n) ==
    /\ LoaderGoesOn(n)
    /\ loads[n].loader = LoaderCount
    /\ End(n, Declined)
    /\ UNCHANGED <<cached, stable>>

\* The loader raises, or returns a calendar of another identifier.
LoaderFails(n) ==
    /\ LoaderRuns(n)
    /\ ~LoaderGoesOn(n) => Last(Outcomes(n)).kind = "failed"
    /\ End(n, Failed)
    /\ UNCHANGED <<cached, stable>>

\* CancelledError is raised by the loader or by a call it made.
LoaderCancels(n) ==
    /\ LoaderRuns(n)
    /\ ~LoaderGoesOn(n) => Last(Outcomes(n)).kind = "cancelled"
    /\ End(n, Cancelled)
    /\ UNCHANGED <<cached, stable>>

\* The loader returns a calendar built on what it was given.
LoaderReturns(n) ==
    LET operands == {Outcomes(n)[k].calendar : k \in 1..Len(Outcomes(n))}
        calendar == Calendar(loads[n].id, {operand.id : operand \in UNION operands}) IN
    /\ LoaderGoesOn(n)
    /\ Len(Outcomes(n)) = Len(loads[n].script)
    /\ cached' = Put(cached, loads[n].id, calendar)
    /\ End(n, Found(calendar))
    /\ Watch

-----------------------------------------------------------------------------
(* retire_calendar.                                                        *)

\* One pass of the loop: the entries of a copy of the cache that are not yet
\* to be removed.
Copy(removed) == {<<key, cached[key]>> : key \in DOMAIN cached \ removed}

\* replace_by, when there is one, is stored beneath the key.
Replaced(calendars, key, replacement) ==
    IF replacement = {} THEN calendars
    ELSE Put(calendars, key, CHOOSE calendar \in replacement : TRUE)

Drop(call) ==
    /\ cached' = Replaced(Restrict(cached, DOMAIN cached \ call.removed),
                          call.id, call.replacement)
    /\ retirement' = NoRetirement

\* A wrong form: one pass over the cache.
ProceedOnce(call) ==
    LET pass == IF call.todo = {} /\ call.removed = {call.id} /\ call.changed
                THEN Copy(call.removed) ELSE call.todo IN
    \/ /\ pass = {}
       /\ Drop(call)
    \/ /\ pass # {}
       /\ retirement' = [call EXCEPT !.todo = pass, !.changed = @ /\ call.todo # {}]
       /\ UNCHANGED cached

\* On to the next calendar of this pass, or of another pass if this one has
\* found a dependant, or to the end.
Proceed(call) ==
    LET pass == IF call.todo = {} /\ call.changed THEN Copy(call.removed) ELSE call.todo IN
    \/ /\ pass = {}
       /\ Drop(call)
    \/ /\ pass # {}
       /\ retirement' = [call EXCEPT !.todo = pass, !.changed = @ /\ call.todo # {}]
       /\ UNCHANGED cached

Retire(i) ==
    /\ retirement.state = "idle"
    /\ \E replacement \in {{}} \cup {{calendar} : calendar \in Replacements} :
         \/ /\ i \notin DOMAIN cached
            /\ replacement # {}
            /\ cached' = Replaced(cached, i, replacement)
            /\ UNCHANGED retirement
         \/ /\ i \in DOMAIN cached
            /\ Proceed([NoRetirement EXCEPT !.state = "inspecting", !.id = i,
                                            !.replacement = replacement,
                                            !.removed = {i}, !.changed = TRUE])
    /\ Watch
    /\ UNCHANGED <<flights, loads, uses>>

\* A calendar tells its dependencies.
Inspect ==
    /\ retirement.state = "inspecting"
    /\ \E entry \in retirement.todo :
         LET found == retirement.removed \cap entry[2].dependencies # {} IN
         Proceed([retirement EXCEPT !.todo = @ \ {entry},
                                    !.removed = IF found THEN @ \cup {entry[1]} ELSE @,
                                    !.changed = @ \/ found])
    /\ Watch
    /\ UNCHANGED <<flights, loads, uses>>

\* A calendar's dependency function raises, or the caller is cancelled.
InspectFails ==
    /\ retirement.state = "inspecting"
    /\ retirement' = NoRetirement
    /\ stable' = {}
    /\ UNCHANGED <<cached, flights, loads, uses>>

-----------------------------------------------------------------------------
LoaderStep(n) ==
    \/ LoaderUses(n) \/ LoaderDeclines(n) \/ AllDecline(n) \/ LoaderFails(n)
    \/ LoaderCancels(n) \/ LoaderReturns(n)

Next ==
    \/ \E c \in Clients : Wake(c)
    \/ \E c \in Callers : Ask(c) \/ Cancel(c)
    \/ \E n \in LoadTasks : LoaderStep(n)
    \/ \E i \in Retirable : Retire(i)
    \/ Inspect
    \/ InspectFails

\* The event loop runs every task that can run, and a loader comes to an end.
Fairness ==
    /\ \A c \in Clients : WF_vars(Wake(c))
    /\ \A n \in LoadTasks : WF_vars(LoaderStep(n))

Spec == Init /\ [][Next]_vars /\ Fairness

-----------------------------------------------------------------------------
(* Properties.                                                             *)

Calendars == [id : Ids \cup {"own"} \cup {calendar.id : calendar \in Replacements},
              dependencies : SUBSET (Ids \cup {"own"} \cup {r.id : r \in Replacements})]
ASSUME ReplacementsAssumption == Replacements \subseteq Calendars

Results == [kind : {"none", "declined", "failed", "cancelled"}, calendar : {{}}]
             \cup {Found(calendar) : calendar \in Calendars}

\* The dictionaries hold what they are declared to hold, and a flight is
\* registered exactly while its task runs (calendar_manager.py:58-65, 155-160).
TypeOK ==
    /\ DOMAIN cached \subseteq Ids
    /\ \A i \in DOMAIN cached : cached[i] \in Calendars
    /\ DOMAIN flights \subseteq Ids
    /\ \A i \in DOMAIN flights :
         flights[i] \in LoadTasks /\ Running(flights[i]) /\ loads[flights[i]].id = i
    /\ \A n \in LoadTasks : Running(n) => loads[n].id \in DOMAIN flights
    /\ \A c \in Clients :
         /\ uses[c].waits \in {n \in LoadTasks : Running(n)} \cup {NoTask}
         /\ uses[c].wake \in Results
         /\ uses[c].fallback \in Ids \cup {"none", "own"}
         /\ \A k \in 1..Len(uses[c].outcomes) : uses[c].outcomes[k] \in Results
    /\ retirement.removed \subseteq Ids
    /\ stable \subseteq Ids

\* However requests, cancellations, failures and retirements interleave, one
\* identifier is never loaded by two tasks at a time (calendar_manager.py:94-98).
SingleFlight ==
    \A m, n \in LoadTasks : Running(m) /\ Running(n) /\ loads[m].id = loads[n].id => m = n

\* Load tasks that wait for each other.
Circles ==
    {S \in (SUBSET {n \in LoadTasks : Running(n)}) \ {{}} : \A n \in S : uses[n].waits \in S}

\* Calendars that depend on each other are reported to a task that comes upon
\* them alone: tasks wait in a circle only where chains of loads that two
\* callers began have met (calendar_manager.py:90-93, 116).
CircleNeedsTwoCallers ==
    \A S \in Circles : \E m, n \in S : loads[m].chain # loads[n].chain

\* The manager's dictionaries are well formed and name the one task at work, and
\* tasks wait in circles only where two callers met.
CalendarInv == TypeOK /\ SingleFlight /\ CircleNeedsTwoCallers

\* Entries in S that build on i, directly or through entries in S.
Dependants(S, i) ==
    LET HoldsDependants(T) == \A key \in S : cached[key].dependencies \cap T # {} => key \in T
    IN {key \in S : \A T \in SUBSET (S \cup {i}) : i \in T /\ HoldsDependants(T) => key \in T}

\* A retirement removes every entry that depends on the retired one through
\* entries that were all cached while it lasted, whatever was loaded, replaced
\* or removed beside it (calendar_manager.py:179-207).
RetirementComplete ==
    [][Inspect /\ retirement' = NoRetirement =>
         \A key \in Dependants(stable, retirement.id) :
            key \notin DOMAIN cached' \/ key = retirement.id]_vars

\* Every request for a calendar is answered, unless its calendar builds on
\* calendars that two callers found waiting for each other.
EveryUseAnswered ==
    \A c \in Callers :
        Calling(c) ~>
            \/ ~Calling(c)
            \/ \E S \in SUBSET {n \in LoadTasks : Running(n)} :
                 uses[c].waits \in S /\ \A n \in S : uses[n].waits \in S

=============================================================================
