----------------------------- MODULE MCCronLoop -----------------------------
(***************************************************************************)
(* An instance of CronLoop for TLC.  MIN_SLEEP is one unit of time, so     *)
(* that a sleep rounded up can make a firing late.                         *)
(***************************************************************************)
EXTENDS CronLoop

Every(period) == [kind |-> "interval", arg |-> period]
Crontab(c)    == [kind |-> "cron", arg |-> c]

Grant(specs, most) ==
  [declared |-> specs, canRegister |-> TRUE, maxRegistrations |-> most,
   minInterval |-> 1, maxAttempts |-> 2, backoff |-> 1]

(* Calls register intervals and crontabs; a deployment may declare one.     *)
LoopSpecs    == {Every(2), Crontab(1)}
LoopBindings == {Grant(<< >>, 1), Grant(<<Crontab(1)>>, 0)}
LoopMatches  == << {1, 8} >>
ForwardSteps == {6}
LoopWall     == 0..13

-----------------------------------------------------------------------------
Zones == [UTC |-> 0, Kolkata |-> 19800, NewYork |-> -18000]

(* Calendars with the parts, the day fields and the dates that differ.     *)

Part(is, start, end, step) == [is |-> is, start |-> start, end |-> end, step |-> step]
Any == Part("any", 0, 0, 0)
On(v) == Part("at", v, 0, 0)
From(a, b) == Part("range", a, b, 0)
EveryNth(n) == Part("every", 0, 0, n)
Stepped(a, b, n) == Part("stepped", a, b, n)

CalendarOf(minutes, hours, days, weekdays, months, timezone) ==
  [minutes |-> minutes, hours |-> hours, days |-> days, weekdays |-> weekdays,
   months |-> months, timezone |-> timezone]

AllWeek == {"sunday", "monday", "tuesday", "wednesday", "thursday", "friday", "saturday"}

\* Every way to restrict a day, in zones on either side of UTC.
DayRules ==
  {CalendarOf(<<Stepped(5, 50, 20), On(5)>>, <<On(0), On(23)>>, d, w, m, z) :
     d \in {{}, {<<Any>>}, {<<On(31)>>}, {<<From(1, 31)>>}, {<<From(29, 30)>>}, {<< >>}},
     w \in {{}, {{"monday"}}, {AllWeek}, {{}}},
     m \in {{}, {{"february"}}, {{"april", "december"}}, {{}}},
     z \in {{}, {"Kolkata"}}}

TimeRules ==
  {CalendarOf(m, h, {}, {}, {}, z) :
     m \in {<<EveryNth(25)>>, <<From(58, 59), Any>>, <<On(59)>>, <<On(60), Any>>, << >>},
     h \in {<<Any>>, <<Stepped(1, 22, 7)>>, <<EveryNth(0)>>, <<From(5, 3)>>},
     z \in {{}, {"NewYork"}, {"Nowhere"}}}

Asked  == DayRules \cup TimeRules
Begins == {86400 * 21183 + 86370, 86400 * 20512 + 300}

-----------------------------------------------------------------------------
(* Entries with every kind of key, right and wrong.                        *)

Number(n, unit) == [number |-> {n}, unit |-> unit]
Pair(k, name, crontab, text, zone) ==
  [key |-> k, name |-> name, crontab |-> crontab, text |-> text, zone |-> zone]
Limit(k, text) == Pair(k, "", "", text, "")
Cron(name, crontab) == Pair("schedule", name, crontab, << >>, "")
Interval(name, text) == Pair("interval", name, "", text, "")
Zone(z) == Pair("timezone", "", "", << >>, z)

NamesAsked == [a |-> [bytes |-> 1, legal |-> TRUE], b |-> [bytes |-> 64, legal |-> TRUE],
               empty |-> [bytes |-> 0, legal |-> TRUE], long |-> [bytes |-> 65, legal |-> TRUE],
               slash |-> [bytes |-> 3, legal |-> FALSE]]

\* Periods of 1.5 s, of 10 and of 9 ms, of nothing, of too much, and no periods.
Periods ==
  {<<Number(1, "s"), Number(500, "ms")>>, <<Number(10, "ms")>>, <<Number(9, "ms")>>,
   <<Number(0, "s")>>, <<Number(4, "d"), Number(23, "h")>>, <<Number(5, "d")>>,
   <<Number(3, "")>>, <<Number(3, "w")>>, <<[number |-> {}, unit |-> "s"]>>, << >>}

Lists ==
  {<< >>, <<Zone("Kolkata")>>, <<Zone("Nowhere")>>,
   <<Zone("NewYork"), Cron("a", "daily"), Cron("b", "never")>>,
   <<Cron("a", "daily"), Interval("b", <<Number(1, "s")>>), Zone("UTC")>>,
   <<Cron("b", "daily"), Zone("Kolkata")>>, <<Cron("b", "daily")>>,
   <<Interval("a", <<Number(1, "s")>>), Limit("min-interval", <<Number(2, "s")>>)>>,
   <<Limit("max-registrations", <<Number(0, "")>>)>>,
   <<Limit("max-registrations", <<Number(200, "")>>)>>,
   <<Limit("retry.max-attempts", <<Number(0, "")>>)>>,
   <<Limit("retry.max-attempts", <<Number(1, "")>>), Limit("retry.backoff", <<Number(0, "s")>>)>>,
   <<Limit("retries", <<Number(1, "")>>)>>}
  \cup {<<Interval(n, <<Number(1, "s")>>)>> : n \in DOMAIN NamesAsked}
  \cup {<<Interval("b", p)>> : p \in Periods}
  \cup {<<Limit("min-interval", p)>> : p \in Periods}

Lots  == {<<a, b>> : a \in Lists, b \in Lists} \cup {<< >>}
Known == {"daily"}
=============================================================================
