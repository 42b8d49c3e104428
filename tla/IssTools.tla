------------------------------ MODULE IssTools ------------------------------
(***************************************************************************)
(* iss-mcp: who is in space and where the station is, as Open Notify has   *)
(* it, with the instant spelled as a date.                                 *)
(***************************************************************************)
EXTENDS Integers, Sequences, FiniteSets

CONSTANTS
  Calls,   \* the tool, and what comes of its request
  DAY      \* seconds of a day

VARIABLES given, made

Calendar == INSTANCE Gregorian

Failed == [ok |-> FALSE]

\* get_json: whether there is a body to read.
Reads(outcome) == outcome.kind = "answer" /\ outcome.status = 200 /\ outcome.decodes

\* A number, or a string of one.
parse_coord(value) == IF value.number = {} THEN value.string ELSE value.number

\* Mutant of iso8601: a year ends in December, for the day that is added too.
iso8601_from_january(secs) ==
  LET days == secs \div DAY
      y == days \div 365
  IN [year |-> 1970 + y, month |-> 1, day |-> (days % 365) + 1, second |-> secs % DAY]

\* Days since the first of March of the year 0, in eras of 400 years.
iso8601(secs) ==
  LET z    == (secs \div DAY) + 719468
      era  == z \div 146097
      doe  == z - (era * 146097)
      yoe  == (doe - (doe \div 1460) + (doe \div 36524) - (doe \div 146096)) \div 365
      doy  == doe - ((365 * yoe) + (yoe \div 4) - (yoe \div 100))
      mp   == ((5 * doy) + 2) \div 153
      month == IF mp < 10 THEN mp + 3 ELSE mp - 9
  IN [year |-> yoe + (era * 400) + (IF month <= 2 THEN 1 ELSE 0), month |-> month,
      day |-> doy - (((153 * mp) + 2) \div 5) + 1, second |-> secs % DAY]

Init == given \in Calls /\ made = << >>

\* The count that was sent, or that of the people that were.
who_is_in_space ==
  /\ given.tool = "who" /\ made = << >>
  /\ made' = <<IF ~Reads(given.outcome) THEN Failed
               ELSE [ok |-> TRUE, people |-> given.outcome.people,
                     number |-> IF given.outcome.number = {} THEN {Len(given.outcome.people)}
                                ELSE given.outcome.number]>>
  /\ UNCHANGED given

\* Both coordinates, or a failure; the instant if there is one.
iss_position ==
  /\ given.tool = "where" /\ made = << >>
  /\ LET o   == given.outcome
         lat == UNION {parse_coord(x) : x \in o.latitude}
         lon == UNION {parse_coord(x) : x \in o.longitude}
     IN made' = <<IF ~Reads(o) \/ lat = {} \/ lon = {} THEN Failed
                  ELSE [ok |-> TRUE, latitude |-> lat, longitude |-> lon, timestamp |-> o.timestamp,
                        date |-> {iso8601(t) : t \in o.timestamp}]>>
  /\ UNCHANGED given

Next == who_is_in_space \/ iss_position
Spec == Init /\ [][Next]_<<given, made>>

-----------------------------------------------------------------------------
(***************************************************************************)
(* The date is that of the instant, in every year and on both sides of     *)
(* 1970, and there is no position without its two coordinates.             *)
(***************************************************************************)
DateIsOfInstant ==
  made # << >> /\ given.tool = "where" => \A m \in {made[i] : i \in DOMAIN made} : m.ok =>
    /\ \A t \in m.timestamp : \A d \in m.date :
         /\ Calendar!DayOf(d.year, d.month, d.day) * DAY + d.second = t
         /\ d.month \in 1..12 /\ d.day \in 1..Calendar!DaysIn(d.year, d.month)
    /\ m.latitude # {} /\ m.longitude # {}
=============================================================================
