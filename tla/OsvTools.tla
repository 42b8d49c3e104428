------------------------------ MODULE OsvTools ------------------------------
(***************************************************************************)
(* threat-intel-mcp: what an agent is told of an advisory of OSV.  An      *)
(* advisory names packages, each with ranges of versions; a range is the   *)
(* events along it.  Versions are numbers, details are bytes that begin or *)
(* continue a character.                                                   *)
(***************************************************************************)
EXTENDS Integers, Sequences, FiniteSets, SequencesExt, FiniteSetsExt, Functions

CONSTANTS
  Calls,              \* the tool, and what comes of its request
  Versions,
  MAX_DETAILS_BYTES, MAX_REFERENCES, MAX_RANGE_LINES

VARIABLES given, made

Take(s, n) == SubSeq(s, 1, Min({n, Len(s)}))

-----------------------------------------------------------------------------
(* Projections of an advisory.                                             *)

\* Its own ratings, or those of its packages if it has none.
severity(v) ==
  IF v.severity # << >> THEN v.severity
  ELSE FlattenSeq([i \in DOMAIN v.affected |-> v.affected[i].severity])

At(events, kind) == SelectSeq(events, LAMBDA e : e.kind = kind)

\* The last event of a kind along a range, as a set.
LastAt(events, kind) ==
  IF At(events, kind) = << >> THEN {} ELSE {Last(At(events, kind)).at}

\* Mutant of Line: the last affected version goes before the fix.
LineToLast(package, events) ==
  [package |-> package,
   from |-> IF LastAt(events, "introduced") = {} THEN {0} ELSE LastAt(events, "introduced"),
   fixed |-> LastAt(events, "fixed") \cup LastAt(events, "last_affected"),
   last |-> {}]

\* One line for a range.
Line(package, events) ==
  [package |-> package,
   from |-> IF LastAt(events, "introduced") = {} THEN {0} ELSE LastAt(events, "introduced"),
   fixed |-> LastAt(events, "fixed"),
   last |-> IF LastAt(events, "fixed") = {} THEN LastAt(events, "last_affected") ELSE {}]

Ranges(affected) ==
  FlattenSeq([i \in DOMAIN affected |->
    [k \in DOMAIN affected[i].ranges |-> <<affected[i].package, affected[i].ranges[k]>>]])

range_lines(affected, max) ==
  LET ranges == Ranges(affected)
  IN Take([i \in DOMAIN ranges |-> Line(ranges[i][1], ranges[i][2])], max)

affected_packages(v) ==
  [i \in DOMAIN v.affected |->
    [package |-> v.affected[i].package,
     fixed_versions |-> LET fixed == At(FlattenSeq(v.affected[i].ranges), "fixed")
                        IN [k \in DOMAIN fixed |-> fixed[k].at],
     ranges |-> range_lines(<<v.affected[i]>>, MAX_RANGE_LINES)]]

\* References that have no URL are left out.
reference_urls(v) == Take(SelectSeq(v.references, LAMBDA url : url # ""), MAX_REFERENCES)

is_char_boundary(bytes, end) == end = Len(bytes) \/ bytes[end + 1] = "begins"

truncate_details(bytes) ==
  IF Len(bytes) <= MAX_DETAILS_BYTES THEN bytes
  ELSE Take(bytes, Max({end \in 0..MAX_DETAILS_BYTES : is_char_boundary(bytes, end)})) \o <<"truncated">>

vuln_summary(v) ==
  [severity |-> severity(v), affected_ranges |-> range_lines(v.affected, MAX_RANGE_LINES),
   references |-> reference_urls(v)]

vuln_full(v) ==
  [details |-> truncate_details(v.details), severity |-> severity(v),
   affected |-> affected_packages(v), references |-> reference_urls(v)]

-----------------------------------------------------------------------------
(* The tools.                                                              *)

\* Why there is no result, as a set: nothing came, what came cannot be read, or
\* the status is no success.
Failed(outcome) ==
  CASE outcome.kind = "refused" -> {"allowlist"}
    [] outcome.kind = "failed"  -> {"request"}
    [] outcome.kind = "answer" /\ outcome.status \in 200..299 -> IF outcome.decodes THEN {} ELSE {"request"}
    [] outcome.kind = "answer" /\ outcome.status = 404 -> {"not found"}
    [] outcome.kind = "answer" /\ outcome.status \notin 200..299 \cup {404} -> {"request"}

Init == given \in Calls /\ made = << >>

lookup_package_vulnerabilities ==
  /\ given.tool = "lookup" /\ made = << >>
  /\ LET vulns == given.outcome.vulns IN
       made' = <<[error |-> Failed(given.outcome),
                  vulnerable |-> vulns # << >>, count |-> Len(vulns),
                  told |-> [i \in DOMAIN vulns |-> vuln_summary(vulns[i])]]>>
  /\ UNCHANGED given

get_vulnerability ==
  /\ given.tool = "get" /\ made = << >>
  /\ LET vulns == given.outcome.vulns IN
       made' = <<[error |-> Failed(given.outcome),
                  told |-> IF vulns = << >> THEN << >> ELSE <<vuln_full(vulns[1])>>]>>
  /\ UNCHANGED given

Next == lookup_package_vulnerabilities \/ get_vulnerability
Spec == Init /\ [][Next]_<<given, made>>

-----------------------------------------------------------------------------
\* Whether version n is in a range, by the events before it.
Affected(events, n) ==
  LET begins == {e.at : e \in {x \in Range(events) : x.kind = "introduced" /\ x.at <= n}}
  IN /\ begins # {}
     /\ ~\E e \in Range(events) :
          \/ e.kind = "fixed" /\ Max(begins) <= e.at /\ e.at <= n
          \/ e.kind = "last_affected" /\ Max(begins) <= e.at /\ e.at < n

Told(line, n) ==
  /\ \A from \in line.from : from <= n
  /\ \A fixed \in line.fixed : n < fixed
  /\ \A last \in line.last : n <= last

TellsRanges(affected, lines, Which(_)) ==
  LET ranges == Ranges(affected)
  IN /\ Len(lines) = Min({Len(ranges), MAX_RANGE_LINES})
     /\ \A i \in DOMAIN lines : \A n \in Versions :
          Which(ranges[i][2]) => (Told(lines[i], n) <=> Affected(ranges[i][2], n))

OneInterval(events) == Cardinality({i \in DOMAIN events : events[i].kind = "introduced"}) = 1

AllTold(Which(_)) ==
  \A m \in Range(made) : m.error = {} =>
    \A i \in DOMAIN m.told :
      LET v == given.outcome.vulns[i]
      IN IF given.tool = "lookup"
         THEN TellsRanges(v.affected, m.told[i].affected_ranges, Which)
         ELSE \A k \in DOMAIN v.affected :
                TellsRanges(<<v.affected[k]>>, m.told[i].affected[k].ranges, Which)

(***************************************************************************)
(* What an agent is told of an advisory is what it says: a range that is   *)
(* one interval is told as that interval, whatever the order of its        *)
(* events; no rating is left unsaid because it is the packages'; every fix *)
(* is named; and the details are cut between two characters, and as late   *)
(* as that can be.                                                         *)
(***************************************************************************)
AdvisoryIsTold ==
  /\ AllTold(OneInterval)
  /\ \A m \in Range(made) : m.error = {} =>
       \A i \in DOMAIN m.told :
         LET v == given.outcome.vulns[i]
         IN /\ m.told[i].severity = << >> =>
                 v.severity = << >> /\ \A k \in DOMAIN v.affected : v.affected[k].severity = << >>
            /\ given.tool = "get" =>
                 /\ \A k \in DOMAIN v.affected : \A r \in Range(v.affected[k].ranges) : \A e \in Range(r) :
                      e.kind = "fixed" => e.at \in Range(m.told[i].affected[k].fixed_versions)
                 /\ LET told == SelectSeq(m.told[i].details, LAMBDA b : b # "truncated")
                    IN /\ IsPrefix(told, v.details) /\ is_char_boundary(v.details, Len(told))
                       /\ ~\E end \in Len(told) + 1..Min({MAX_DETAILS_BYTES, Len(v.details)}) :
                             is_char_boundary(v.details, end)

(***************************************************************************)
(* Every range is told as it is, the one that is several intervals too:    *)
(* osv.rs says that range_lines flattens every affected package's ranges.  *)
(***************************************************************************)
RangesAreTold == AllTold(LAMBDA events : At(events, "introduced") # << >>)
=============================================================================
