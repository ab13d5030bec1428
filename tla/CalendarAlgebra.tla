---------------------------- MODULE CalendarAlgebra --------------------------
(***************************************************************************)
(* An application builds a calendar out of others, one operation after the *)
(* other, moves dates along the result and makes a calendar of the dates   *)
(* it moved to.  Beside the calendar the specification keeps what it is    *)
(* meant to say of every date: a table on which each operation has its     *)
(* plain, pointwise meaning (docs/reference/calendar.md).  The code works  *)
(* on calendars: it flattens and sorts operands, returns to the operand of *)
(* an operation it undoes, walks day by day, searches by bisection.        *)
(***************************************************************************)
EXTENDS CalendarMappings

CONSTANTS
    Library,        \* calendars there are
    Positions,      \* sets of positions in a month
    Shifts,         \* numbers of business days to shift by
    Routes,         \* those of them that dates are moved along
    MaxOperations   \* bound: operations on calendars and mappings

VARIABLES
    calendar,       \* the calendar built so far
    meaning,        \* what it is meant to say of each date
    built,          \* the number of operations on calendars and mappings
    mapping,        \* the mapping of the calendar
    moved           \* where the mapping is meant to move each date

vars == <<calendar, meaning, built, mapping, moved>>

Said(c) == [d \in Dates |-> get_day_type(c, d)]
Unmoved(c) == BDCalendarMapping(c, << >>)

Becomes(c, table) ==
    /\ calendar' = c
    /\ meaning' = table
    /\ mapping' = Unmoved(c)
    /\ moved' = [d \in Dates |-> d]

Operate ==
    /\ built < MaxOperations
    /\ built' = built + 1

Init ==
    \E c \in Library :
        /\ calendar = c
        /\ meaning = Said(c)
        /\ built = 0
        /\ mapping = Unmoved(c)
        /\ moved = [d \in Dates |-> d]

-----------------------------------------------------------------------------
\* The meaning of the operations, a date at a time.
Both(A(_, _), p, q) == [d \in Dates |-> A(p[d], q[d])]
Each(A(_), p) == [d \in Dates |-> A(p[d])]

EitherIs(a, b) ==
    IF Raised \in {a, b} THEN Raised
    ELSE IF "BusinessDay" \in {a, b} THEN "BusinessDay"
    ELSE IF "Holiday" \in {a, b} THEN "Holiday" ELSE "Undefined"

BothAre(a, b) ==
    IF Raised \in {a, b} THEN Raised
    ELSE IF "Holiday" \in {a, b} THEN "Holiday"
    ELSE IF "BusinessDay" \in {a, b} THEN "BusinessDay" ELSE "Undefined"

Without(a, b) ==
    IF a = "BusinessDay" /\ b = Raised THEN Raised
    ELSE IF a = "BusinessDay" /\ b = "BusinessDay" THEN "Holiday" ELSE a

OrElse(a, b) == IF a = "Undefined" THEN b ELSE a

\* A calendar and another one, in one order or the other.
Combine(code(_, _), plain(_, _)) ==
    \E other \in Library :
        /\ Operate
        /\ \/ Becomes(code(calendar, other), Both(plain, meaning, Said(other)))
           \/ Becomes(code(other, calendar), Both(plain, Said(other), meaning))

Union == Combine(union, EitherIs)
Intersect == Combine(intersect, BothAre)
Minus == Combine(minus, Without)
Fallback == Combine(fallback, OrElse)

Revert == Operate /\ Becomes(revert(calendar), Each(Exchanged, meaning))

OnlyBusiness(a) == Filtered(a, "BusinessDay")
OnlyHoliday(a) == Filtered(a, "Holiday")
BusinessDays ==
    /\ Operate
    /\ Becomes(business_days(calendar),
               IF KeepsItself(calendar) THEN meaning ELSE Each(OnlyBusiness, meaning))
Holidays == Operate /\ Becomes(holidays(calendar), Each(OnlyHoliday, meaning))

\* The first and the last days of the runs of business days.
AtEdge(direction) ==
    [d \in Dates |->
        IF meaning[d] # "BusinessDay" THEN OrElse(Filtered(meaning[d], "none"), "Holiday")
        ELSE IF d + direction \in Dates /\ meaning[d + direction] # "Undefined"
        THEN Exchanged(meaning[d + direction]) ELSE "BusinessDay"]

RangeStarts == Operate /\ Becomes(range_start_days(calendar), AtEdge(-1))
RangeEnds == Operate /\ Becomes(range_end_days(calendar), AtEdge(1))

NthBusinessDays ==
    \E nth \in Positions :
        LET month(d) == Period(MonthEnds, d)
            business(d) == {e \in month(d) : meaning[e] = "BusinessDay"}
        IN /\ Operate
           /\ Becomes(nth_business_day_of_month(calendar, nth),
                      [d \in Dates |->
                          IF \E e \in month(d) : meaning[e] = Raised THEN Raised
                          ELSE BusinessIf(d \in Selected(business(d), nth))])

-----------------------------------------------------------------------------
\* Where an operation is meant to move a date: the steps it takes along the
\* business days of its calendar, none of them hidden behind a day that raises.
Ahead(table, d, direction, reach) ==
    LET days == {e \in Dates : /\ (e - d) * direction \in 1..reach
                               /\ table[e] \in {"BusinessDay", Raised}}
        first == IF direction > 0 THEN Min(days) ELSE Max(days)
    IN IF days = {} THEN OutOfScope ELSE IF table[first] = Raised THEN Broken ELSE first

Nearby(table, d, direction, reach) ==
    IF table[d] = "BusinessDay" THEN d
    ELSE IF table[d] = Raised THEN Broken ELSE Ahead(table, d, direction, reach)

Along(operation, table, d) ==
    LET n == operation.by
        reach == Reach(operation.base)
        step(from, k) ==
            IF from \in Dates THEN Ahead(table, from, IF n > 0 THEN 1 ELSE -1, reach) ELSE from
        end == IF operation.kind = "prev" THEN Nearby(table, d, -1, reach)
               ELSE IF n = 0 THEN Nearby(table, d, 1, reach)
               ELSE FoldLeft(step, d, [k \in 1..(IF n > 0 THEN n ELSE -n) |-> k])
    IN IF end \in Dates /\ (end - d > Shift \/ d - end > Shift) THEN OutOfScope ELSE end

\* map_this_or_next, map_this_or_prev and shift_n_days, along the calendar
\* itself or another one.
Move(operation, table) ==
    /\ Operate
    /\ mapping' = Extended(mapping, operation)
    /\ moved' = [d \in Dates |->
            IF moved[d] \in Dates
            THEN Along(Last(mapping'.operations), table, moved[d]) ELSE moved[d]]
    /\ UNCHANGED <<calendar, meaning>>

MapThisOrNext ==
    \/ Move(ThisOrNextMapOperation(SELF_CALENDAR), meaning)
    \/ \E other \in Routes : Move(ThisOrNextMapOperation(other), Said(other))

MapThisOrPrev ==
    \/ Move(ThisOrPrevMapOperation(SELF_CALENDAR), meaning)
    \/ \E other \in Routes : Move(ThisOrPrevMapOperation(other), Said(other))

ShiftNDays ==
    \E n \in Shifts :
        \/ Move(ShiftNDaysMapOperation(n, SELF_CALENDAR), meaning)
        \/ \E other \in Routes : Move(ShiftNDaysMapOperation(n, other), Said(other))

\* A target is a business day if there is one between the first and the last date
\* moved to it.
AsCalendar ==
    /\ mapping.operations # << >>
    /\ Becomes(as_calendar(mapping),
               [t \in Dates |->
                   BusinessIf(\E d, e, f \in Dates :
                       /\ d <= e /\ e <= f /\ moved[d] = t /\ moved[f] = t
                       /\ meaning[e] = "BusinessDay")])
    /\ UNCHANGED built

Next ==
    \/ Union \/ Intersect \/ Minus \/ Fallback \/ Revert
    \/ BusinessDays \/ Holidays \/ RangeStarts \/ RangeEnds \/ NthBusinessDays
    \/ MapThisOrNext \/ MapThisOrPrev \/ ShiftNDays \/ AsCalendar

Spec == Init /\ [][Next]_vars

-----------------------------------------------------------------------------
\* Properties.

Agree(said, meant) == said = meant \/ Raised \in {said, meant}

\* Whatever the code makes of the operands of an operation, it classifies every
\* date as the operation is meant to, wherever no calendar asked for it raises
\* (business_calendar.py:173, transformations), and a year as its dates.
ClassifiedAsMeant ==
    \A d \in Dates :
        LET said == get_day_type(calendar, d)
            year == gen_year(calendar, Period(YearEnds, d))
        IN /\ Agree(said, meaning[d])
           /\ said = IF d \in DOMAIN year THEN year[d] ELSE "Undefined"

\* The walks meet: the day after a business day has it as the day before, no
\* business day is passed over, and where a walk ends there is none in its reach
\* (functional_calendar.py:103, hardcoded_calendar.py:84).
WalksMeet ==
    \A d \in Dates :
        LET after == next_bd(calendar, d)
            between == {e \in Dates : d < e /\ e - d <= Reach(calendar)
                                        /\ (after \in Dates => e < after)}
        IN /\ after # Broken => \A e \in between : meaning[e] # "BusinessDay"
           /\ after \in Dates => get_day_type(calendar, after) = "BusinessDay"
           /\ after \in Dates /\ get_day_type(calendar, d) = "BusinessDay"
                  => prev_bd(calendar, after) = d

\* A calendar says and finds what its operations are meant to say and find.
DatesAsMeant == ClassifiedAsMeant /\ WalksMeet

\* A date moves where its operations are meant to move it, and a target is traced
\* back to the first and the last date that are moved to it, whichever of them the
\* search began with (date_map_operation.py:96, calendar_mapping.py:112).
TracedToSources ==
    /\ \A d \in Dates : map_date(mapping, d) \in {moved[d], Broken} \/ moved[d] = Broken
    /\ \A target \in Dates : \A span \in map_date_reverse(mapping, target) :
         LET sources == {d \in Dates : moved[d] = target} IN
         /\ span[1] \in Dates => span = <<Min(sources), Max(sources)>>
         /\ span[1] = OutOfScope => sources = {}

=============================================================================
