---------------------------- MODULE ForwardSteps ----------------------------
(***************************************************************************)
(* lclang/utils/calendar/forward_step_calendar.py: a calendar that knows   *)
(* its first business day and a coroutine, next_bd, which the application  *)
(* writes, for the day after a given one.  What has been generated is kept *)
(* in a list that every query first extends as far as it needs and then    *)
(* searches by bisection.  Several tasks query one calendar; dates are     *)
(* natural numbers.                                                        *)
(***************************************************************************)
EXTENDS Naturals, Sequences, SequencesExt, FiniteSetsExt

CONSTANTS
    Tasks,          \* tasks that query the calendar
    Business,       \* the business days the coroutine generates: some, finitely many
    Queries         \* Queries[t]: what task t asks for: a kind and a first and last date

VARIABLES
    dates,          \* _defined_business_days
    exhausted,      \* _fully_cached
    calls           \* calls[t]: the query of task t and the last date it saw generated

vars == <<dates, exhausted, calls>>

First == Min(Business)

NoCall == [state |-> "idle", query |-> [kind |-> "type", from |-> First, to |-> First],
           previous |-> First, answer |-> {}]

Init ==
    /\ dates = <<First>>
    /\ exhausted = FALSE
    /\ calls = [t \in Tasks |-> NoCall]

-----------------------------------------------------------------------------
\* bisect_left: a position counted from zero.
Bisect(list, d) ==
    LET at[low \in 0..Len(list), high \in 0..Len(list)] ==
            IF low >= high THEN low
            ELSE LET middle == (low + high) \div 2 IN
                 IF list[middle + 1] < d THEN at[middle + 1, high] ELSE at[low, middle]
    IN at[0, Len(list)]

\* What get_day_type, prev_bd and gen_year make of the list, as the set of
\* business days they name: the date itself, the one before it, those of a year.
Found(list, query) ==
    LET position == Bisect(list, query.from) IN
    CASE query.kind = "type" ->
            {d \in {query.from} : position < Len(list) /\ list[position + 1] = d}
      [] query.kind = "previous" ->
            IF position = 0 THEN {} ELSE {list[position]}
      [] query.kind = "year" ->
            {d \in ToSet(list) : query.from <= d /\ d <= query.to}

\* How far the list must reach: gen_year goes one day beyond the year.
Goal(query) == IF query.kind = "year" THEN query.to + 1 ELSE query.from

\* The head of the loop in cache_through and, where it ends, the answer.
Continue(t, query, list, done) ==
    calls' = [calls EXCEPT ![t] =
        IF ~done /\ Last(list) < Goal(query)
        THEN [state |-> "stepping", query |-> query, previous |-> Last(list), answer |-> {}]
        ELSE [state |-> "answered", query |-> query, previous |-> First,
              answer |-> Found(list, query)]]

\* prev_bd extends the list for every date, the others from the first one on.
Ask(t) ==
    /\ calls[t].state \in {"idle", "answered", "failed"}
    /\ \E query \in Queries[t] :
         Continue(t, query, dates,
                  exhausted \/ (query.kind # "previous" /\ query.to < First))
    /\ UNCHANGED <<dates, exhausted>>

\* next_bd returns a later date, which is appended to the list as it is now.
Extend(t) ==
    LET later == {d \in Business : d > calls[t].previous} IN
    /\ calls[t].state = "stepping"
    /\ later # {}
    /\ dates' = Append(dates, Min(later))
    /\ Continue(t, calls[t].query, dates', exhausted)
    /\ UNCHANGED exhausted

\* next_bd reports the end of the calendar.
Exhaust(t) ==
    /\ calls[t].state = "stepping"
    /\ \A d \in Business : d <= calls[t].previous
    /\ exhausted' = TRUE
    /\ Continue(t, calls[t].query, dates, TRUE)
    /\ UNCHANGED dates

\* next_bd raises, returns a date that does not increase, or the task is cancelled.
Fail(t) ==
    /\ calls[t].state = "stepping"
    /\ calls' = [calls EXCEPT ![t] = [NoCall EXCEPT !.state = "failed"]]
    /\ UNCHANGED <<dates, exhausted>>

Next == \E t \in Tasks : Ask(t) \/ Extend(t) \/ Exhaust(t) \/ Fail(t)

Spec == Init /\ [][Next]_vars

-----------------------------------------------------------------------------
\* "Return business for discovered dates and undefined otherwise."
\* (forward_step_calendar.py:132): a date that is in the list is a business day
\* whoever asks for it, while other tasks extend the list.
DiscoveredIsBusiness ==
    \A t \in Tasks :
        LET query == calls[t].query IN
        calls[t].state = "answered" /\ query.kind = "type" /\ query.from \in ToSet(dates)
            => calls[t].answer = {query.from}

=============================================================================
