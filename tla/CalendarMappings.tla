--------------------------- MODULE CalendarMappings --------------------------
(***************************************************************************)
(* lclang/utils/calendar/mapping: dates moved along calendars.  A mapping  *)
(* is a chain of operations over a source calendar, each of which moves a  *)
(* date at most Shift days; a chain is read backwards for the dates that   *)
(* end at a given one, and makes a calendar of the dates that business     *)
(* days end at.                                                            *)
(*                                                                         *)
(* An operation remembers what it has mapped (mapped_dates) and begins its *)
(* search with any date it remembers for the target: every date that maps  *)
(* to it may be the one, as every date may have been asked for before.     *)
(***************************************************************************)
EXTENDS Calendars

CONSTANT
    Shift           \* bound: MAX_BUSINESS_DAY_SHIFT_DAYS

\* An operation: how far it moves, with "by" 0 and a direction for the nearest
\* business day, and the calendar it moves along.
Operation(kind, by, base) == [kind |-> kind, by |-> by, base |-> base]
ThisOrNextMapOperation(base) == Operation("next", 0, base)
ThisOrPrevMapOperation(base) == Operation("prev", 0, base)
ShiftNDaysMapOperation(n, base) == Operation("shift", n, base)

with_base_calendar(operation, base) == [operation EXCEPT !.base = base]

\* BDCalendarMapping: operations of its own calendar are bound to its source.
BDCalendarMapping(base, operations) ==
    [base |-> base,
     operations |-> [i \in DOMAIN operations |->
         IF base # SELF_CALENDAR /\ operations[i].base = SELF_CALENDAR
         THEN with_base_calendar(operations[i], base) ELSE operations[i]]]

has_applied(mapping) == mapping.base # SELF_CALENDAR
apply(mapping, base) == BDCalendarMapping(base, mapping.operations)
Extended(mapping, operation) ==
    BDCalendarMapping(mapping.base, Append(mapping.operations, operation))

-----------------------------------------------------------------------------
\* map_date of one operation.  A shift by n takes n steps, each along the
\* calendar; none at all takes the nearest day.
Steps(c, d, n) ==
    LET move(from, k) == IF from \notin Dates THEN from ELSE Walk(c, from, IF n > 0 THEN 1 ELSE -1)
    IN FoldLeft(move, d, [k \in 1..(IF n > 0 THEN n ELSE -n) |-> k])

Moved(operation, d) ==
    CASE operation.kind = "next" -> this_or_next_bd(operation.base, d)
      [] operation.kind = "prev" -> this_or_prev_bd(operation.base, d)
      [] operation.kind = "shift" /\ operation.by = 0 -> this_or_next_bd(operation.base, d)
      [] operation.kind = "shift" /\ operation.by # 0 -> Steps(operation.base, d, operation.by)

\* validate_displacement.
Displaced(target, d) ==
    IF target \in Dates /\ target \notin (d - Shift)..(d + Shift) THEN OutOfScope ELSE target

map_one(operation, d) == Displaced(Moved(operation, d), d)

map_date(mapping, d) ==
    LET move(from, operation) == IF from \in Dates THEN map_one(operation, from) ELSE from IN
    IF has_applied(mapping) THEN FoldLeft(move, d, mapping.operations) ELSE Unapplied

-----------------------------------------------------------------------------
\* The two bisections of map_date_reverse, over the dates an operation maps.
\* Towards the first source a date that cannot be mapped lies before it, towards
\* the last one behind it.
Near(target) == {d \in Dates : target - Shift <= d /\ d <= target + Shift}

\* A wrong form: the upper half is taken without rounding up, and the search
\* leaves the last source out.
LastShort(mapped, target, anchor) ==
    LET within[low \in Dates, high \in 0..LastDate] ==
            IF low + 1 >= high THEN low
            ELSE LET middle == (low + high) \div 2
                 IN IF mapped[middle] = Broken THEN Broken
                    ELSE IF mapped[middle] = OutOfScope \/ mapped[middle] > target
                    THEN within[low, middle - 1] ELSE within[middle, high]
    IN within[anchor, Max(Near(target))]

FirstSource(mapped, target, anchor) ==
    LET within[low \in 1..(LastDate + 1), high \in Dates] ==
            IF low >= high THEN low
            ELSE LET middle == (low + high) \div 2
                 IN IF mapped[middle] = Broken THEN Broken
                    ELSE IF mapped[middle] = OutOfScope \/ mapped[middle] < target
                    THEN within[middle + 1, high] ELSE within[low, middle]
    IN within[Min(Near(target)), anchor]

LastSource(mapped, target, anchor) ==
    LET within[low \in Dates, high \in 0..LastDate] ==
            IF low >= high THEN low
            ELSE LET middle == (low + high + 1) \div 2
                 IN IF mapped[middle] = Broken THEN Broken
                    ELSE IF mapped[middle] = OutOfScope \/ mapped[middle] > target
                    THEN within[low, middle - 1] ELSE within[middle, high]
    IN within[anchor, Max(Near(target))]

\* Where the search may begin.  With nothing remembered the dates are tried from
\* the target outwards, the earlier of two first, until one raises or maps to it.
Before(target, d, e) ==
    LET distance(x) == IF x < target THEN target - x ELSE x - target IN
    distance(d) < distance(e) \/ (distance(d) = distance(e) /\ d <= e)

Anchors(mapped, target) == {d \in Near(target) : mapped[d] = target}

SearchBreaks(mapped, target) ==
    \E d \in Near(target) :
        /\ mapped[d] \in {Broken, Unapplied}
        /\ \A e \in Anchors(mapped, target) : Before(target, d, e)

\* map_date_reverse of one operation: what it may answer, as the first and the
\* last source, or the error in their place.
BrokenWhole(span) == IF Broken \in ToSet(span) THEN <<Broken, Broken>> ELSE span

reverse_one(mapped, target) ==
    {BrokenWhole(<<FirstSource(mapped, target, from), LastSource(mapped, target, from)>>) :
        from \in Anchors(mapped, target)}
    \cup (IF SearchBreaks(mapped, target) THEN {<<Broken, Broken>>}
          ELSE IF Anchors(mapped, target) = {} THEN {<<OutOfScope, OutOfScope>>} ELSE {})

\* A chain is read from its end: each operation for every date of the span found
\* so far, whose dates that nothing maps to are passed over.
Sources(answers) ==
    LET reached == {d \in DOMAIN answers : <<OutOfScope, OutOfScope>> \notin answers[d]}
        broken == \E d \in reached : <<Broken, Broken>> \in answers[d]
        whole(d) == answers[d] \ {<<Broken, Broken>>}
    IN (IF broken THEN {<<Broken, Broken>>} ELSE {})
           \cup (IF reached = {} THEN {<<OutOfScope, OutOfScope>>}
                 ELSE {<<f[1], l[2]>> : f \in whole(Min(reached)), l \in whole(Max(reached))})

MapsOf(operation) == [d \in Dates |-> map_one(operation, d)]

Back(maps, spans) ==
    UNION {IF span[1] \in Dates
           THEN Sources([d \in span[1]..span[2] |-> reverse_one(maps, d)]) ELSE {span} :
              span \in spans}

map_date_reverse(mapping, target) ==
    LET back(operation, spans) == Back(MapsOf(operation), spans)
    IN IF has_applied(mapping)
       THEN FoldRight(back, mapping.operations, {<<target, target>>})
       ELSE {<<Unapplied, Unapplied>>}

\* CalendarMapBDCalendar.get_day_type: a business day is a target with a business
\* day among its sources.
MappedType(mapping, span) ==
    IF span[1] = OutOfScope THEN "Holiday"
    ELSE IF span[1] = Broken THEN Raised
    ELSE LET types == [k \in 1..(span[2] - span[1] + 1) |->
                          get_day_type(mapping.base, span[1] + k - 1)]
         IN FirstOf(types, {"BusinessDay", Raised}, "Holiday")

AnyType(mapping, target) ==
    CHOOSE type \in {MappedType(mapping, span) : span \in map_date_reverse(mapping, target)} : TRUE

as_calendar(mapping) ==
    Mapped(<<"mapped", mapping.base.id, mapping.operations>>, <<mapping.base>>, [d \in Dates |-> AnyType(mapping, d)])

=============================================================================
