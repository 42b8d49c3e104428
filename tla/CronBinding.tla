---------------------------- MODULE CronBinding ----------------------------
(***************************************************************************)
(* How the cosmonic:cron entries of a workload become its binding: first   *)
(* the limits of all the entries, then entry by entry the schedules, each  *)
(* read in the zone of its entry.  The first thing wrong refuses them all. *)
(*                                                                         *)
(* A text is what the parsers tell apart: a crontab, or pairs of a number  *)
(* and a unit.  Which crontabs parse is the business of CronCalendar.      *)
(***************************************************************************)
EXTENDS Integers, Sequences, FiniteSets, SequencesExt, Functions

CONSTANTS
  Bindings,        \* the lists of entries that workloads come with
  Zones,           \* time zones of the IANA database
  Crontabs,        \* expressions CronSpec::parse takes in a known zone
  NameOf,          \* of every name its length and whether its characters are legal
  NANOS_PER_MILLI, NANOS_PER_SEC,
  U32Max, U64Max   \* largest count and largest period

MAX_NAME_LEN == 64
HARD_MIN_INTERVAL == 10 * NANOS_PER_MILLI

None == {}
Some(x) == {x}
Value(option) == CHOOSE x \in option : TRUE

-----------------------------------------------------------------------------
(* Texts                                                                   *)

validate_name(name) ==
  /\ NameOf[name].bytes > 0 /\ NameOf[name].bytes <= MAX_NAME_LEN
  /\ NameOf[name].legal

Scale == [ms |-> NANOS_PER_MILLI, s |-> NANOS_PER_SEC, m |-> 60 * NANOS_PER_SEC,
          h |-> 3600 * NANOS_PER_SEC, d |-> 86400 * NANOS_PER_SEC]

\* checked_mul and checked_add
AddPart(total, part) ==
  IF \/ total = None \/ part.number = None
     \/ part.unit \notin DOMAIN Scale
     \/ Value(part.number) > U64Max \div Scale[part.unit]
     \/ Value(part.number) * Scale[part.unit] > U64Max - Value(total)
  THEN None
  ELSE Some(Value(total) + Value(part.number) * Scale[part.unit])

parse_duration(text) ==
  IF text = << >> THEN None ELSE FoldLeft(AddPart, Some(0), text)

\* A number alone.
parse_count(text, least) ==
  IF /\ Len(text) = 1 /\ text[1].unit = ""
     /\ \E n \in text[1].number : least <= n /\ n <= U32Max
  THEN text[1].number ELSE None

-----------------------------------------------------------------------------
(* Limits                                                                  *)

DefaultLimits == [max_registrations |-> 32, min_interval |-> NANOS_PER_SEC,
                  retry_max_attempts |-> 3, retry_backoff |-> NANOS_PER_SEC]

\* Limits::set
Set(limits, key, text) ==
  CASE key = "max-registrations" ->
         {[limits EXCEPT !.max_registrations = n] : n \in parse_count(text, 0)}
    [] key = "min-interval" ->
         {[limits EXCEPT !.min_interval = p] :
            p \in {p \in parse_duration(text) : p >= HARD_MIN_INTERVAL}}
    [] key = "retry.max-attempts" ->
         {[limits EXCEPT !.retry_max_attempts = n] : n \in parse_count(text, 1)}
    [] key = "retry.backoff" ->
         {[limits EXCEPT !.retry_backoff = p] : p \in parse_duration(text)}
    [] OTHER -> None

\* Limits::check
Permits(limits, spec) ==
  spec.kind \in {"interval", "once-after"} => spec.period >= limits.min_interval

-----------------------------------------------------------------------------
(* Binding::parse_entries                                                  *)

VARIABLES
  entries,    \* the entries: each the sequence of its keys and their texts
  phase,      \* limits, schedules, accepted or refused
  entry, key, \* the next pair to read; key 0 is the start of an entry
  limits,
  set,        \* the limits an entry has set
  declared    \* the schedules by name

vars == <<entries, phase, entry, key, limits, set, declared>>

Pair == entries[entry][key]

\* There is a pair to read: not so at the start of an entry and after the last.
Reading == entry <= Len(entries) /\ key \in 1..Len(entries[entry])
ScheduleKeys == {"schedule", "interval"}

\* The pair after this one, from key first of an entry on.
Advance(first) ==
  IF key < Len(entries[entry]) THEN key' = key + 1 /\ entry' = entry
  ELSE key' = first /\ entry' = entry + 1

Refuse == phase' = "refused" /\ UNCHANGED <<entries, entry, key, limits, set, declared>>

SetLimit ==
  /\ phase = "limits" /\ Reading /\ Pair.key \notin ScheduleKeys \cup {"timezone"}
  /\ IF Pair.key \in set \/ Set(limits, Pair.key, Pair.text) = None THEN Refuse
     ELSE /\ limits' = Value(Set(limits, Pair.key, Pair.text))
          /\ set' = set \cup {Pair.key}
          /\ Advance(1)
          /\ UNCHANGED <<entries, phase, declared>>

PassLimits ==
  /\ phase = "limits"
  /\ IF entry > Len(entries)
     THEN phase' = "schedules" /\ entry' = 1 /\ key' = 0
     ELSE /\ Reading => Pair.key \in ScheduleKeys \cup {"timezone"}
          /\ Advance(1) /\ UNCHANGED phase
  /\ UNCHANGED <<entries, limits, set, declared>>

\* Mutant of Timezone: the zone of one entry is that of all.
AnyTimezone(e) == {p.zone : p \in {p \in UNION {Range(entries[i]) : i \in 1..e} : p.key = "timezone"}}

Timezone(e) == {p.zone : p \in {p \in Range(entries[e]) : p.key = "timezone"}}

BeginEntry ==
  /\ phase = "schedules" /\ entry <= Len(entries) /\ key = 0
  /\ IF ~(Timezone(entry) \subseteq Zones) THEN Refuse
     ELSE Advance(0) /\ UNCHANGED <<entries, phase, limits, set, declared>>

\* What a pair declares, if it can be read.
Parsed(pair) ==
  IF pair.key = "schedule"
  THEN {[kind |-> "cron", expression |-> pair.crontab, timezone |-> Timezone(entry)] :
          x \in {x \in {pair.crontab} : x \in Crontabs}}
  ELSE {[kind |-> "interval", period |-> p] :
          p \in {p \in parse_duration(pair.text) : p > 0}}

Declare ==
  /\ phase = "schedules" /\ Reading /\ Pair.key \in ScheduleKeys
  /\ LET spec == Parsed(Pair) IN
     IF \/ spec = None
        \/ ~validate_name(Pair.name)
        \/ ~Permits(limits, Value(spec))
        \/ Pair.name \in DOMAIN declared
     THEN Refuse
     ELSE /\ declared' = [n \in DOMAIN declared \cup {Pair.name} |->
                            IF n = Pair.name THEN Value(spec) ELSE declared[n]]
          /\ Advance(0)
          /\ UNCHANGED <<entries, phase, limits, set>>

PassSchedules ==
  /\ phase = "schedules"
  /\ IF entry > Len(entries) THEN phase' = "accepted" /\ UNCHANGED <<entry, key>>
     ELSE /\ key > 0 /\ (Reading => Pair.key \notin ScheduleKeys)
          /\ Advance(0) /\ UNCHANGED phase
  /\ UNCHANGED <<entries, limits, set, declared>>

Init ==
  /\ entries \in Bindings
  /\ phase = "limits" /\ entry = 1 /\ key = 1
  /\ limits = DefaultLimits /\ set = {} /\ declared = [n \in {} |-> {}]

Next == SetLimit \/ PassLimits \/ BeginEntry \/ Declare \/ PassSchedules

Spec == Init /\ [][Next]_vars

-----------------------------------------------------------------------------
(* What a binding means, whatever the order of its entries and keys.       *)

Pairs == UNION {{e} \X DOMAIN entries[e] : e \in DOMAIN entries}
At(p) == entries[p[1]][p[2]]
OfKeys(keys) == {p \in Pairs : At(p).key \in keys}

LimitKeys == {"max-registrations", "min-interval", "retry.max-attempts", "retry.backoff"}
Limits == Pairs \ OfKeys(ScheduleKeys \cup {"timezone"})

\* The sum of a text, in units, as a mathematical integer.
Total(text) == FoldLeft(LAMBDA n, part : n + Value(part.number) * Scale[part.unit], 0, text)
IsPeriod(text) ==
  /\ text # << >>
  /\ \A i \in DOMAIN text : text[i].number # None /\ text[i].unit \in DOMAIN Scale
  /\ Total(text) <= U64Max

MinInterval ==
  IF OfKeys({"min-interval"}) = {} THEN NANOS_PER_SEC
  ELSE Total(At(CHOOSE p \in OfKeys({"min-interval"}) : TRUE).text)

LimitIsLegal(p) ==
  LET text == At(p).text
      counts == Len(text) = 1 /\ text[1].unit = "" /\ text[1].number # None
  IN /\ At(p).key \in LimitKeys
     /\ \A q \in Limits \ {p} : At(q).key # At(p).key
     /\ At(p).key = "max-registrations" => counts /\ text[1].number \subseteq 0..U32Max
     /\ At(p).key = "retry.max-attempts" => counts /\ text[1].number \subseteq 1..U32Max
     /\ At(p).key = "min-interval" => IsPeriod(text) /\ Total(text) >= 10 * NANOS_PER_MILLI
     /\ At(p).key = "retry.backoff" => IsPeriod(text)

ScheduleIsLegal(p) ==
  /\ NameOf[At(p).name].bytes \in 1..64 /\ NameOf[At(p).name].legal
  /\ \A q \in OfKeys(ScheduleKeys) \ {p} : At(q).name # At(p).name
  /\ At(p).key = "schedule" => At(p).crontab \in Crontabs
  /\ At(p).key = "interval" =>
       /\ IsPeriod(At(p).text)
       /\ Total(At(p).text) > 0 /\ Total(At(p).text) >= MinInterval

Legal ==
  /\ \A p \in Limits : LimitIsLegal(p)
  /\ \A p \in OfKeys({"timezone"}) : At(p).zone \in Zones
  /\ \A p \in OfKeys(ScheduleKeys) : ScheduleIsLegal(p)

\* A binding is accepted exactly when all of it is legal, a min-interval of any
\* entry being that of every schedule; it then declares what its entries say, each
\* crontab in the zone of its own entry, and no later key has taken anything back.
BindingIsItsEntries ==
  /\ phase = "refused" => ~Legal
  /\ phase = "accepted" =>
       /\ Legal
       /\ limits.min_interval = MinInterval
       /\ DOMAIN declared = {At(p).name : p \in OfKeys(ScheduleKeys)}
       /\ \A p \in OfKeys({"schedule"}) :
            declared[At(p).name] =
              [kind |-> "cron", expression |-> At(p).crontab,
               timezone |-> {At(q).zone : q \in {q \in OfKeys({"timezone"}) : q[1] = p[1]}}]
       /\ \A p \in OfKeys({"interval"}) :
            declared[At(p).name] = [kind |-> "interval", period |-> Total(At(p).text)]
=============================================================================
