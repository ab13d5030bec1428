------------------------------ MODULE Calendars ------------------------------
(***************************************************************************)
(* lclang/utils/calendar: business-day calendars as values, how they are   *)
(* built from one another, what they say of a date, and how they are       *)
(* walked.  Dates are the numbers of a range, as date.min and date.max     *)
(* bound the dates of the program; months and years are intervals of it.   *)
(*                                                                         *)
(* A calendar is equal to another of the same calendar_id; the identifiers *)
(* of composed calendars are formatted from those of their operands, so an *)
(* identifier here is the composition itself.  What a FunctionalBDCalendar *)
(* remembers of a date (defined_dates) is what it answered for it.         *)
(***************************************************************************)
EXTENDS Integers, Sequences, FiniteSets, SequencesExt

CONSTANTS
    LastDate,       \* the dates are 1..LastDate
    MonthEnds,      \* the last dates of the months
    YearEnds,       \* the last dates of the years
    Week,           \* days of a week
    WorkDays,       \* those of them that ALL_WEEKDAYS takes for business days
    Gap             \* bound: MAX_BUSINESS_DAY_GAP_DAYS

Dates == 1..LastDate

\* DayType, and what a classifier that raises leaves: CalendarLogicException.
DayType == {"BusinessDay", "Holiday", "Undefined"}
Raised == "raised"

\* A date that cannot be had: DateOperationOutOfScopeException, a calendar that
\* raises, and UnappliedCalendarOperationException.
OutOfScope == -1
Broken == -2
Unapplied == -3

\* The month or the year of a date: the dates no end of a month or year parts from it.
Period(ends, d) == {e \in Dates : \A last \in ends : (e <= last) = (d <= last)}

weekday(d) == d % Week

-----------------------------------------------------------------------------
\* Calendars.  "arg" holds what is particular to a kind, under a tag.
Calendar(kind, id, bases, arg) == [kind |-> kind, id |-> id, bases |-> bases, arg |-> arg]

Builtin(id) == Calendar(id, <<"builtin", id>>, << >>, <<"none">>)
ALL_DAYS == Builtin("ALL_DAYS")
ALL_WEEKDAYS == Builtin("ALL_WEEKDAYS")
BEGIN_OF_MONTHS == Builtin("BEGIN_OF_MONTHS")
END_OF_MONTHS == Builtin("END_OF_MONTHS")
BEGIN_OF_YEARS == Builtin("BEGIN_OF_YEARS")
END_OF_YEARS == Builtin("END_OF_YEARS")
Weekday(n) == Calendar("weekday", <<"weekday", n>>, << >>, <<"day", n>>)
BUILTIN_CALENDARS ==
    {ALL_DAYS, ALL_WEEKDAYS, BEGIN_OF_MONTHS, END_OF_MONTHS, BEGIN_OF_YEARS, END_OF_YEARS}
        \cup {Weekday(n) : n \in 0..(Week - 1)}

\* The placeholder of a mapping that has no source calendar yet.
SELF_CALENDAR == Builtin("SELF_CALENDAR")

\* HardcodedBDCalendar: a copy of what is given, without what is undefined.
Hardcoded(id, table) ==
    Calendar("hardcoded", <<"named", id>>, << >>,
             <<"days", [d \in {e \in DOMAIN table : table[e] # "Undefined"} |-> table[d]]>>)

\* at(*dates): FewBusinessDaysBDCalendar.
at(dates) ==
    Calendar("hardcoded", <<"at", dates>>, << >>, <<"days", [d \in dates |-> "BusinessDay"]>>)

\* CallableBDCalendar, and a YearBatchBDCalendar: the answers of the function or
\* generator an application supplies, Raised where it raises or answers nonsense.
Callable(id, table) == Calendar("callable", <<"named", id>>, << >>, <<"days", table>>)
YearBatch(id, table) == Calendar("yearly", <<"named", id>>, << >>, <<"days", table>>)

-----------------------------------------------------------------------------
\* The operands in the order given, each identifier once: the first of it.
ordered_calendars(values) ==
    LET first == {i \in DOMAIN values : \A j \in 1..(i - 1) : values[j].id # values[i].id}
        order == SetToSortSeq(first, <)
    IN [k \in DOMAIN order |-> values[order[k]]]

\* In the order of their identifiers, whatever that is.
canonical_calendars(values) == SetToSeq(ToSet(ordered_calendars(values)))

Ids(calendars) == {calendars[i].id : i \in DOMAIN calendars}

Parts(kind, c) == IF c.kind = kind THEN c.bases ELSE <<c>>
base_union_calendars(c) == Parts("union", c)
base_intersect_calendars(c) == Parts("intersection", c)
base_fallback_calendars(c) == Parts("fallback", c)

UnionBDCalendar(values) ==
    LET bases == canonical_calendars(values) IN
    Calendar("union", <<"union", Ids(bases)>>, bases, <<"none">>)

IntersectBDCalendar(values) ==
    LET bases == canonical_calendars(values) IN
    Calendar("intersection", <<"intersection", Ids(bases)>>, bases, <<"none">>)

\* The base comes first.
SubtractionBDCalendar(base, values) ==
    LET others == canonical_calendars(values) IN
    Calendar("subtraction", <<"subtraction", base.id, Ids(others)>>, <<base>> \o others, <<"none">>)

FallbackBDCalendar(values) ==
    LET bases == ordered_calendars(values) IN
    Calendar("fallback", <<"fallback", [i \in DOMAIN bases |-> bases[i].id]>>, bases, <<"none">>)

Over(kind, base, arg) == Calendar(kind, <<kind, base.id, arg>>, <<base>>, arg)

union(a, b) == UnionBDCalendar(base_union_calendars(a) \o base_union_calendars(b))
intersect(a, b) == IntersectBDCalendar(base_intersect_calendars(a) \o base_intersect_calendars(b))
fallback(a, b) == FallbackBDCalendar(base_fallback_calendars(a) \o base_fallback_calendars(b))

\* A wrong form: what a difference already takes away is forgotten.
SubtractedAnew(a, b) ==
    SubtractionBDCalendar(IF a.kind = "subtraction" THEN a.bases[1] ELSE a, <<b>>)

minus(a, b) ==
    IF a.kind = "subtraction"
    THEN SubtractionBDCalendar(a.bases[1], Append(Tail(a.bases), b))
    ELSE SubtractionBDCalendar(a, <<b>>)

revert(a) == IF a.kind = "reversal" THEN a.bases[1] ELSE Over("reversal", a, <<"none">>)

OnlyBusinessDayBDCalendar(a) == Over("only business", a, <<"none">>)
OnlyHolidayBDCalendar(a) == Over("only holiday", a, <<"none">>)

\* Selectors that are their own business days: at, and the two of nth days.
KeepsItself(a) ==
    a.kind \in {"only business", "nth business day", "nth day"} \/ a.id[1] = "at"

business_days(a) == IF KeepsItself(a) THEN a ELSE OnlyBusinessDayBDCalendar(a)
holidays(a) == IF a.kind = "only holiday" THEN a ELSE OnlyHolidayBDCalendar(a)

range_start_days(a) == Over("range start", a, <<"none">>)
range_end_days(a) == Over("range end", a, <<"none">>)
nth_day_of_month(nth) == Calendar("nth day", <<"nth", nth>>, << >>, <<"nth", nth>>)
nth_business_day_of_month(a, nth) ==
    IF a = ALL_DAYS THEN nth_day_of_month(nth) ELSE Over("nth business day", a, <<"nth", nth>>)

\* CalendarMapBDCalendar: the types its mapping gives, see CalendarMappings.
Mapped(id, bases, table) == Calendar("mapped", id, bases, <<"days", table>>)

-----------------------------------------------------------------------------
\* The members of a set of dates at the positions nth, counted from the end
\* where they are negative; a position the set does not have selects nothing.
Selected(days, nth) ==
    {d \in days : \/ Cardinality({e \in days : e <= d}) \in nth
                  \/ -Cardinality({e \in days : e >= d}) \in nth}

Filtered(type, target) == IF type \in {target, Raised} THEN type ELSE "Undefined"

Exchanged(type) ==
    CASE type = "BusinessDay" -> "Holiday"
      [] type = "Holiday" -> "BusinessDay"
      [] OTHER -> type

\* The operands are all asked: one that raises is heard.
Joined(types, first, second) ==
    IF Raised \in types THEN Raised
    ELSE IF first \in types THEN first
    ELSE IF second \in types THEN second
    ELSE "Undefined"

\* The first answer that decides; the operands behind it are not asked.
FirstOf(answers, decides, otherwise) ==
    LET deciding == {i \in DOMAIN answers : answers[i] \in decides} IN
    IF deciding = {} THEN otherwise ELSE answers[Min(deciding)]

\* The dates a calendar's answer for a date depends on, for its base's.
Looked(c, d) ==
    CASE c.kind = "nth business day" -> Period(MonthEnds, d)
      [] c.kind = "range start" -> {d - 1, d} \cap Dates
      [] c.kind = "range end" -> {d, d + 1} \cap Dates
      [] OTHER -> {d}

\* A day of the base whose neighbour, on the other side, is none.
classify_range_boundary(days, d, direction) ==
    IF days[d] = Raised THEN Raised
    ELSE IF days[d] # "BusinessDay" THEN "Holiday"
    ELSE IF d + direction \notin Dates THEN "BusinessDay"
    ELSE IF days[d + direction] = Raised THEN Raised
    ELSE IF days[d + direction] = "BusinessDay" THEN "Holiday" ELSE "BusinessDay"

BusinessIf(condition) == IF condition THEN "BusinessDay" ELSE "Holiday"

RECURSIVE get_day_type(_, _)
get_day_type(c, d) ==
    LET answers == [i \in DOMAIN c.bases |-> get_day_type(c.bases[i], d)]
        days == [e \in Looked(c, d) |-> get_day_type(c.bases[1], e)]
    IN
    CASE c.kind = "ALL_DAYS" -> "BusinessDay"
      [] c.kind = "ALL_WEEKDAYS" -> BusinessIf(weekday(d) \in WorkDays)
      [] c.kind = "weekday" -> BusinessIf(weekday(d) = c.arg[2])
      [] c.kind = "BEGIN_OF_MONTHS" -> BusinessIf(\A e \in Period(MonthEnds, d) : d <= e)
      [] c.kind = "END_OF_MONTHS" -> BusinessIf(\A e \in Period(MonthEnds, d) : e <= d)
      [] c.kind = "BEGIN_OF_YEARS" -> BusinessIf(\A e \in Period(YearEnds, d) : d <= e)
      [] c.kind = "END_OF_YEARS" -> BusinessIf(\A e \in Period(YearEnds, d) : e <= d)
      [] c.kind \in {"hardcoded", "callable", "mapped"} ->
            IF d \in DOMAIN c.arg[2] THEN c.arg[2][d] ELSE "Undefined"
      [] c.kind = "yearly" ->
            \* a year is generated as a whole, and fails as a whole
            IF \E e \in Period(YearEnds, d) : c.arg[2][e] = Raised THEN Raised ELSE c.arg[2][d]
      [] c.kind = "nth day" -> BusinessIf(d \in Selected(Period(MonthEnds, d), c.arg[2]))
      [] c.kind = "nth business day" ->
            IF \E e \in DOMAIN days : days[e] = Raised THEN Raised
            ELSE BusinessIf(d \in Selected({e \in DOMAIN days : days[e] = "BusinessDay"},
                                           c.arg[2]))
      [] c.kind = "range start" -> classify_range_boundary(days, d, -1)
      [] c.kind = "range end" -> classify_range_boundary(days, d, 1)
      [] c.kind = "only business" -> Filtered(answers[1], "BusinessDay")
      [] c.kind = "only holiday" -> Filtered(answers[1], "Holiday")
      [] c.kind = "reversal" -> Exchanged(answers[1])
      [] c.kind = "union" -> Joined(ToSet(answers), "BusinessDay", "Holiday")
      [] c.kind = "intersection" -> Joined(ToSet(answers), "Holiday", "BusinessDay")
      [] c.kind = "fallback" -> FirstOf(answers, {"BusinessDay", "Holiday", Raised}, "Undefined")
      [] c.kind = "subtraction" ->
            \* a business day of one of the others is none of the difference
            IF answers[1] # "BusinessDay" THEN answers[1]
            ELSE Exchanged(FirstOf(Tail(answers), {"BusinessDay", Raised}, "Holiday"))

-----------------------------------------------------------------------------
\* How far a walk goes: an explicit table is searched to its end, everything
\* else day by day.
Reach(c) == IF c.kind = "hardcoded" THEN LastDate ELSE Gap

\* The steps at which a day is a business day, or its calendar raises.
Deciding(c, d, direction, steps) ==
    {n \in steps : /\ d + n * direction \in Dates
                   /\ get_day_type(c, d + n * direction) \in {"BusinessDay", Raised}}

Nearest(c, d, direction, steps) ==
    IF steps = {} THEN OutOfScope
    ELSE LET found == d + Min(steps) * direction IN
         IF get_day_type(c, found) = Raised THEN Broken ELSE found

\* next_bd and prev_bd: the nearest business day, unless a day before it raises.
Walk(c, d, direction) ==
    IF c = SELF_CALENDAR THEN Unapplied
    ELSE Nearest(c, d, direction, Deciding(c, d, direction, 1..Reach(c)))

next_bd(c, d) == Walk(c, d, 1)
prev_bd(c, d) == Walk(c, d, -1)

ThisOr(c, d, direction) ==
    CASE c = SELF_CALENDAR -> Unapplied
      [] c # SELF_CALENDAR /\ get_day_type(c, d) = "BusinessDay" -> d
      [] c # SELF_CALENDAR /\ get_day_type(c, d) = Raised -> Broken
      [] OTHER -> Walk(c, d, direction)

this_or_next_bd(c, d) == ThisOr(c, d, 1)
this_or_prev_bd(c, d) == ThisOr(c, d, -1)

\* gen_year: the types of a year; an explicit table or a batch names only the
\* dates it classifies.
gen_year(c, year) ==
    LET named == IF c.kind \in {"hardcoded", "yearly"}
                 THEN {d \in year : get_day_type(c, d) # "Undefined"} ELSE year
    IN [d \in named |-> get_day_type(c, d)]

=============================================================================
