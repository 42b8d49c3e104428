---------------------------- MODULE CronCalendar ----------------------------
(***************************************************************************)
(* Calendar and crontab schedules of the cron plugin: the typed fields of  *)
(* register-calendar are compiled into the five fields of a crontab, and   *)
(* the engine asks the crontab for the next and for the last instant.      *)
(*                                                                         *)
(* The text of a crontab is the tuple of its fields.  croner, which reads  *)
(* and searches it, and chrono with its time zones are external: a zone is *)
(* a fixed offset here, so that daylight saving is not covered.            *)
(***************************************************************************)
EXTENDS Gregorian, Sequences, FiniteSets, FiniteSetsExt, Functions

CONSTANTS
  Calendars,   \* what workloads ask for with register-calendar
  Starts,      \* instants at which they ask
  Offset,      \* seconds east of UTC of every zone in the IANA database
  Horizon,     \* bound: months in which croner finds an occurrence
  MaxFirings   \* bound: firings followed

VARIABLES
  calendar,    \* the calendar asked for
  answer,      \* what the workload was told
  spec,        \* the CronSpec it compiled to, if it did
  at,          \* the instant up to which it fired, in seconds
  fired        \* firings so far

vars == <<calendar, answer, spec, at, fired>>

\* An option is a set of at most one element, and so is the value of a Result.
None == {}
Some(x) == {x}
Value(option) == CHOOSE x \in option : TRUE

-----------------------------------------------------------------------------
(* Fields                                                                  *)

\* A field of a crontab: a wildcard, or a list of values.  The empty list is
\* no field, and stands for the error.
Star == [any |-> TRUE, of |-> {}]
Named(values) == [any |-> FALSE, of |-> values]
Refused == Named({})

Start(part, min) == IF part.is \in {"any", "every"} THEN min ELSE part.start
End(part, max) ==
  CASE part.is \in {"any", "every"} -> max
    [] part.is = "at" -> part.start
    [] OTHER -> part.end
Step(part) == IF part.is \in {"every", "stepped"} THEN part.step ELSE 1

Invalid(part, min, max) ==
  \/ Start(part, min) < min \/ End(part, max) > max
  \/ Start(part, min) > End(part, max)
  \/ Step(part) = 0

Selected(part, min, max) ==
  {v \in Start(part, min)..End(part, max) :
     (v - Start(part, min)) % Step(part) = 0}

\* Mutant of Selector: a wildcard is spelled out.
SelectorSpelled(parts, min, max) ==
  IF \E p \in Range(parts) : Invalid(p, min, max) THEN Refused
  ELSE Named(UNION {Selected(p, min, max) : p \in Range(parts)})

\* A wildcard stays one, and hides no invalid part.
Selector(parts, min, max) ==
  IF \E p \in Range(parts) : Invalid(p, min, max) THEN Refused
  ELSE IF \E p \in Range(parts) : p.is = "any" THEN Star
  ELSE Named(UNION {Selected(p, min, max) : p \in Range(parts)})

Weekday == <<"sunday", "monday", "tuesday", "wednesday", "thursday", "friday",
             "saturday">>
Month == <<"january", "february", "march", "april", "may", "june", "july",
           "august", "september", "october", "november", "december">>

\* calendar_spec turns flags into numbers.
Weekdays(flags) == {n \in 0..6 : Weekday[n + 1] \in flags}
Months(flags) == {n \in 1..12 : Month[n] \in flags}

Optional(option, Field(_)) == IF option = None THEN Star ELSE Field(Value(option))

Fields(cal) ==
  LET days(parts)    == Selector(parts, 1, 31)
      weekdays(flags) == IF Cardinality(Weekdays(flags)) = 7 THEN Star
                         ELSE Named(Weekdays(flags))
      months(flags)  == Named(Months(flags))
  IN [minutes  |-> Selector(cal.minutes, 0, 59),
      hours    |-> Selector(cal.hours, 0, 23),
      days     |-> Optional(cal.days, days),
      months   |-> Optional(cal.months, months),
      weekdays |-> Optional(cal.weekdays, weekdays)]

-----------------------------------------------------------------------------
(* croner                                                                  *)

Admits(field, value) == field.any \/ value \in field.of

\* POSIX: two restricted day fields match with OR.
DayFieldsMatch(e, month, day, weekday) ==
  /\ Admits(e.months, month)
  /\ IF e.days.any \/ e.weekdays.any
     THEN Admits(e.days, day) /\ Admits(e.weekdays, weekday)
     ELSE Admits(e.days, day) \/ Admits(e.weekdays, weekday)

\* The days of month k, counted from year 0, that match.
DaysMatching(e, k) ==
  LET y == k \div 12
      m == (k % 12) + 1
      first == DayOf(y, m, 1)
  IN {first + d - 1 : d \in {d \in 1..DaysIn(y, m) :
        DayFieldsMatch(e, m, d, WeekdayOf(first + d - 1))}}

MonthOf(day) == LET date == DateOf(day) IN 12 * date.year + date.month - 1

Times(e) ==
  {3600 * h + 60 * m : h \in {h \in 0..23 : Admits(e.hours, h)},
                       m \in {m \in 0..59 : Admits(e.minutes, m)}}

ExpressionParses(e) == \A f \in DOMAIN e : e[f] # Refused

-----------------------------------------------------------------------------
(* CronSpec                                                                *)

PROBE_YEARS == 2000..2027

ever_matches(e) == \E y \in PROBE_YEARS, m \in {m \in 1..12 : Admits(e.months, m)} :
  \E d \in 1..DaysIn(y, m) : DayFieldsMatch(e, m, d, WeekdayOf(DayOf(y, m, d)))

\* Mutant of parse_cron: what can never match is taken.
TakesNever(e, timezone) ==
  IF timezone \subseteq DOMAIN Offset /\ ExpressionParses(e)
  THEN Some([expression |-> e, timezone |-> timezone]) ELSE None

\* CronSpec::parse
parse_cron(e, timezone) ==
  IF /\ timezone \subseteq DOMAIN Offset
     /\ ExpressionParses(e)
     /\ ever_matches(e)
  THEN Some([expression |-> e, timezone |-> timezone]) ELSE None

compile(cal) == parse_cron(Fields(cal), cal.timezone)

Zone(s) == Offset[IF s.timezone = None THEN "UTC" ELSE Value(s.timezone)]

\* The next occurrence is on the earliest day that has one, in the earliest month.
next_after(s, after) ==
  LET local == after + Zone(s)
      times == Times(s.expression)
      today == local \div 86400
      month == MonthOf(today)
      ahead(k) == {d \in DaysMatching(s.expression, k) :
        d > today \/ (d = today /\ \E t \in times : 86400 * d + t > local)}
      months == {k \in month..(month + Horizon) : ahead(k) # {}}
      day == Min(ahead(Min(months)))
  IN IF months = {} THEN None
     ELSE Some(Min({t \in times : 86400 * day + t > local}) + 86400 * day - Zone(s))

last_at_or_before(s, instant) ==
  LET local == instant + Zone(s)
      times == Times(s.expression)
      today == local \div 86400
      month == MonthOf(today)
      behind(k) == {d \in DaysMatching(s.expression, k) :
        d < today \/ (d = today /\ \E t \in times : 86400 * d + t <= local)}
      months == {k \in (month - Horizon)..month : behind(k) # {}}
      day == Max(behind(Max(months)))
  IN IF months = {} THEN None
     ELSE Some(Max({t \in times : 86400 * day + t <= local}) + 86400 * day - Zone(s))

-----------------------------------------------------------------------------

Init ==
  /\ calendar \in Calendars
  /\ at \in Starts
  /\ answer = "none" /\ spec = None /\ fired = 0

\* register_calendar; the engine takes what compiles.
Register ==
  /\ answer = "none"
  /\ spec' = compile(calendar)
  /\ answer' = IF spec' = None THEN "invalid-schedule" ELSE "ok"
  /\ UNCHANGED <<calendar, at, fired>>

\* The engine arms it for the instant that follows the last.
Fire ==
  /\ spec # None /\ fired < MaxFirings
  /\ next_after(Value(spec), at) # None
  /\ at' = Value(next_after(Value(spec), at))
  /\ fired' = fired + 1
  /\ UNCHANGED <<calendar, answer, spec>>

Next == Register \/ Fire

Spec == Init /\ [][Next]_vars

-----------------------------------------------------------------------------
(* What a calendar-schedule means, read from its typed fields.             *)

Selects(parts, v, min) == \E p \in Range(parts) :
  CASE p.is = "any"     -> TRUE
    [] p.is = "at"      -> v = p.start
    [] p.is = "range"   -> p.start <= v /\ v <= p.end
    [] p.is = "every"   -> (v - min) % p.step = 0
    [] p.is = "stepped" -> v \in {p.start + k * p.step : k \in 0..59} /\ v <= p.end

AnyDay(cal) == cal.days = None \/ \E p \in Range(Value(cal.days)) : p.is = "any"
AnyWeekday(cal) == cal.weekdays = None \/ Range(Weekday) \subseteq Value(cal.weekdays)

MeantMonth(cal, month) == cal.months = None \/ Month[month] \in Value(cal.months)

Meant(cal, month, day, weekday) ==
  LET onDay == Selects(Value(cal.days), day, 1)
      onWeekday == Weekday[weekday + 1] \in Value(cal.weekdays)
  IN /\ MeantMonth(cal, month)
     /\ \/ AnyDay(cal) /\ AnyWeekday(cal)
        \/ ~AnyDay(cal) /\ onDay
        \/ ~AnyWeekday(cal) /\ onWeekday

MeantAt(cal, instant) ==
  LET zone  == IF cal.timezone = None THEN 0 ELSE Offset[Value(cal.timezone)]
      local == instant + zone
      day   == local \div 86400
      time  == local % 86400
      date  == DateOf(day)
  IN /\ time % 60 = 0
     /\ Selects(cal.minutes, (time \div 60) % 60, 0)
     /\ Selects(cal.hours, time \div 3600, 0)
     /\ Meant(cal, date.month, date.day, WeekdayOf(day))

WellFormed(parts, min, max) ==
  parts # << >> /\ \A p \in Range(parts) :
    CASE p.is = "any"   -> TRUE
      [] p.is = "at"    -> p.start \in min..max
      [] p.is = "every" -> p.step > 0
      [] p.is = "range" -> min <= p.start /\ p.start <= p.end /\ p.end <= max
      [] OTHER -> min <= p.start /\ p.start <= p.end /\ p.end <= max /\ p.step > 0

Possible(cal) ==
  /\ WellFormed(cal.minutes, 0, 59) /\ WellFormed(cal.hours, 0, 23)
  /\ \A parts \in cal.days : WellFormed(parts, 1, 31)
  /\ {} \notin cal.weekdays /\ {} \notin cal.months
  /\ cal.timezone \subseteq DOMAIN Offset
  /\ \E y \in 2000..2099, m \in {m \in 1..12 : MeantMonth(cal, m)} :
       \E d \in 1..DaysIn(y, m) : Meant(cal, m, d, WeekdayOf(DayOf(y, m, d)))

\* A calendar is taken exactly when its fields are well formed and some date of
\* the century is meant, although the plugin only probes 28 years; and what list
\* shows of it can be registered as text and is the same schedule.
TakenIfPossible ==
  /\ answer = "ok" => Possible(calendar)
  /\ answer = "invalid-schedule" => ~Possible(calendar)
  /\ \A s \in spec : parse_cron(s.expression, s.timezone) = spec

\* It fires at an instant the typed fields mean, at none twice, and skips none:
\* a day on the way is not meant, and neither is a time of its first or last day.
FiringIsMeant ==
  at' # at =>
    LET zone  == Zone(Value(spec))
        first == (at + zone) \div 86400
        last  == (at' + zone) \div 86400
        skipped(day) == {86400 * day + 60 * k - zone : k \in 0..1439} \cap (at + 1)..(at' - 1)
    IN /\ at' > at /\ MeantAt(calendar, at')
       /\ \A day \in {first, last} : \A x \in skipped(day) : ~MeantAt(calendar, x)
       /\ \A day \in (first + 1)..(last - 1) : LET date == DateOf(day) IN
            ~Meant(calendar, date.month, date.day, WeekdayOf(day))
       /\ last_at_or_before(Value(spec), at') = Some(at')
       /\ \A x \in last_at_or_before(Value(spec), at' - 1) : x <= at

=============================================================================
