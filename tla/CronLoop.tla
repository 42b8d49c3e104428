------------------------------ MODULE CronLoop ------------------------------
(***************************************************************************)
(* The dispatch loop, and the two ways a schedule comes to it: a calendar  *)
(* that a workload registers, and the binding it is deployed with.  A      *)
(* behaviour is of one of the three, and the rest stands still.            *)
(***************************************************************************)
EXTENDS CronPlugin, Sequences

CONSTANTS
  CalendarsAsked, AskedAt, Offset, Horizon, MaxFollowed,     \* see CronCalendar
  Deployments, Crontabs, NameOf, NANOS_PER_MILLI, NANOS_PER_SEC,
  U32Max, U64Max                                             \* see CronBinding

VARIABLES part,
          calendar, answer, compiled, at, fired,
          pairs, phase, entry, key, limits, set, declared

calendarVars == <<calendar, answer, compiled, at, fired>>
bindingVars  == <<pairs, phase, entry, key, limits, set, declared>>
loopVars     == <<vars, plugin>>

Calendar == INSTANCE CronCalendar WITH
  Calendars <- CalendarsAsked, Starts <- AskedAt, MaxFirings <- MaxFollowed, spec <- compiled
Deployed == INSTANCE CronBinding WITH
  Bindings <- Deployments, Zones <- DOMAIN Offset, entries <- pairs

(***************************************************************************)
(* Workloads ask for what the interface has: numbers, flags, and options   *)
(* of at most one value.                                                   *)
(***************************************************************************)
Parts == [is : {"any", "at", "range", "every", "stepped"}, start : Nat, end : Nat, step : Nat]
Option(some, S) == some \subseteq S /\ \A x, y \in some : x = y

ASSUME CalendarsAssumption ==
  \A c \in CalendarsAsked :
    /\ c.minutes \in Seq(Parts) /\ c.hours \in Seq(Parts)
    /\ Option(c.days, Seq(Parts))
    /\ Option(c.weekdays, SUBSET Calendar!Range(Calendar!Weekday))
    /\ Option(c.months, SUBSET Calendar!Range(Calendar!Month))

(***************************************************************************)
(* The entries of a deployment are maps.  A text has numbers, of which some *)
(* cannot be read, with units.                                             *)
(***************************************************************************)
Texts == Seq([number : SUBSET Nat, unit : STRING])

ASSUME DeploymentsAssumption ==
  /\ \A d \in Deployments :
       /\ d \in Seq(Seq([key : STRING, name : STRING, crontab : STRING, text : Texts,
                         zone : STRING]))
       /\ \A e \in DOMAIN d : \A k \in DOMAIN d[e] :
            /\ d[e][k].key \in Deployed!ScheduleKeys => d[e][k].name \in DOMAIN NameOf
            /\ \A j \in DOMAIN d[e] : d[e][j].key = d[e][k].key /\ d[e][j].name = d[e][k].name => j = k
            /\ \A i \in DOMAIN d[e][k].text : Option(d[e][k].text[i].number, Nat)
  /\ \A n \in DOMAIN NameOf : NameOf[n].bytes \in Nat

(***************************************************************************)
(* Zones are less than a day from UTC, and time is counted from 1970.      *)
(***************************************************************************)
ASSUME ZonesAssumption ==
  /\ "UTC" \in DOMAIN Offset /\ Offset["UTC"] = 0
  /\ \A z \in DOMAIN Offset : Offset[z] \in Int /\ -86400 < Offset[z] /\ Offset[z] < 86400
  /\ AskedAt \subseteq Nat /\ Horizon \in Nat

ASSUME NumbersAssumption ==
  /\ {NANOS_PER_MILLI, NANOS_PER_SEC} \subseteq Nat \ {0}
  /\ {U32Max, U64Max} \subseteq Nat

-----------------------------------------------------------------------------
NotAsked == calendar = {} /\ answer = "" /\ compiled = {} /\ at = 0 /\ fired = 0
NotDeployed ==
  /\ pairs = << >> /\ phase = "" /\ entry = 0 /\ key = 0
  /\ limits = {} /\ set = {} /\ declared = {}

LoopInit ==
  /\ InitPlugin
  /\ \/ part = "loop" /\ NotAsked /\ NotDeployed
     \/ part = "calendar" /\ Calendar!Init /\ NotDeployed
     \/ part = "binding" /\ Deployed!Init /\ NotAsked

LoopNext ==
  \/ part = "loop" /\ NextPlugin /\ UNCHANGED <<part, calendarVars, bindingVars>>
  \/ part = "calendar" /\ Calendar!Next /\ UNCHANGED <<part, loopVars, bindingVars>>
  \/ part = "binding" /\ Deployed!Next /\ UNCHANGED <<part, loopVars, calendarVars>>

LoopSafe == LoopInit /\ [][LoopNext]_<<loopVars, part, calendarVars, bindingVars>>

(***************************************************************************)
(* The fairness of CronPlugin, for behaviours of the loop; a calendar or a *)
(* binding may stop anywhere.                                              *)
(***************************************************************************)
OfLoop(step) == part = "loop" /\ step /\ UNCHANGED <<part, calendarVars, bindingVars>>

LoopFairness ==
  /\ WF_loopVars(OfLoop(Tick /\ UNCHANGED plugin))
  /\ WF_loopVars(OfLoop(Pass))
  /\ WF_loopVars(OfLoop(SleepEnds))
  /\ WF_loopVars(OfLoop(Woken))
  /\ SF_loopVars(OfLoop(Deliveries))

LoopSpec == LoopSafe /\ LoopFairness

-----------------------------------------------------------------------------

(***************************************************************************)
(* A calendar is taken if a date of the century can match it, a binding if *)
(* it is legal, and it means what it says; see CronCalendar, CronBinding.  *)
(***************************************************************************)
SchedulesAreTaken ==
  /\ part = "calendar" => Calendar!TakenIfPossible
  /\ part = "binding" => Deployed!BindingIsItsEntries

\* A calendar fires at all the instants it means and at no other; see CronCalendar.
FiresWhenMeant == [][part = "calendar" => Calendar!FiringIsMeant]_calendarVars
=============================================================================
