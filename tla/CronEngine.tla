----------------------------- MODULE CronEngine -----------------------------
(***************************************************************************)
(* The schedule engine of the cron-scheduler host plugin                   *)
(* (src/host-plugins/component/cron-scheduler/src/engine.rs).              *)
(*                                                                         *)
(* The engine is a plain data structure.  It is called by three parties,   *)
(* each call being atomic: workloads (`register', `unregister'), the host  *)
(* (`bind', `unbind') and the dispatch loop (`poll', `complete').  Every   *)
(* call is handed a reading of two clocks, the monotonic one and the       *)
(* system ("wall") one, and the two may drift apart.                       *)
(*                                                                         *)
(* A delivery is in flight from the poll that returns it until the loop    *)
(* hands its outcome to `complete'.  Anything may happen in between.       *)
(***************************************************************************)
EXTENDS Integers, FiniteSets

CONSTANTS
  Workloads,      \* workload identifiers, numbers so that they are ordered
  Names,          \* valid schedule names, numbers so that they are ordered
  Specs,          \* the schedules a workload may ask for
  Bindings,       \* the bindings a workload may be given
  Matches,        \* Matches[c]: the instants that crontab c matches
  ClockSteps,     \* the corrections the system clock may receive
  CLOCK_RESET,    \* a larger step back reschedules crontabs
  MAX_CATCH_UP,   \* crontab occurrences counted in one catch-up
  WALL_RESYNC     \* longest sleep towards a deadline on the system clock

CONSTANTS         \* bounds of the state space
  MaxMono,        \* last reading of the monotonic clock
  WallRange,      \* readings of the system clock
  MaxSteps,       \* corrections of the system clock
  MaxEpoch,       \* registrations made in one incarnation
  MaxFirings      \* firings dispatched in one incarnation

Slot == Workloads \X Names

Kinds == {"cron", "interval", "onceAt", "onceAfter"}

(* A schedule.  `arg' is the crontab, the period, the instant or the delay. *)
Spec_ == [kind : Kinds, arg : Int]

(***************************************************************************)
(* A binding of a workload as the host hands it over: the schedules it     *)
(* declares, whether it grants `scheduler', and its limits.  What          *)
(* Binding::parse_entries accepts is stated by BindingsAssumption.         *)
(***************************************************************************)
Binding ==
  [ declared : UNION { [D -> Specs] : D \in SUBSET Names },
    canRegister : BOOLEAN,
    maxRegistrations : Nat,
    minInterval : Nat \ {0},
    maxAttempts : Nat \ {0},
    backoff : Nat ]

LimitsPermit(b, spec) ==
  spec.kind \in {"interval", "onceAfter"} => spec.arg >= b.minInterval

(* Limits::default, and nothing declared or granted. *)
NoBinding ==
  [ declared |-> << >>, canRegister |-> FALSE, maxRegistrations |-> 32,
    minInterval |-> 1, maxAttempts |-> 3, backoff |-> 1 ]

ASSUME SlotsAssumption ==
  /\ Workloads \subseteq Nat /\ IsFiniteSet(Workloads)
  /\ Names \subseteq Nat     /\ IsFiniteSet(Names)

ASSUME SpecsAssumption ==
  \A spec \in Specs :
    /\ spec \in Spec_
    /\ spec.kind = "cron" => spec.arg \in DOMAIN Matches
    /\ spec.kind \in {"interval", "onceAfter"} => spec.arg >= 0

ASSUME BindingsAssumption ==
  \A b \in Bindings :
    /\ b \in Binding
    /\ \A n \in DOMAIN b.declared :
         /\ b.declared[n].kind \in {"cron", "interval"}
         /\ LimitsPermit(b, b.declared[n])

ASSUME ClockAssumption ==
  /\ \A c \in DOMAIN Matches : Matches[c] \subseteq Int
  /\ ClockSteps \subseteq Int
  /\ WallRange \subseteq Int /\ 0 \in WallRange
  /\ CLOCK_RESET \in Nat /\ WALL_RESYNC \in Nat \ {0}
  /\ MAX_CATCH_UP \in Nat \ {0}

ASSUME BoundsAssumption ==
  /\ MaxMono \in Nat /\ MaxSteps \in Nat
  /\ MaxEpoch \in Nat /\ MaxFirings \in Nat

-----------------------------------------------------------------------------
VARIABLES
  mono,       \* monotonic clock
  wall,       \* system clock
  steps,      \* corrections the system clock has received
  bound,      \* workloads the engine holds
  binding,    \* binding[w]: the last binding of w; the engine keeps its limits
  entries,    \* entries[s]: the schedule held under slot s, or NoEntry
  busy,       \* busy[s]: registration whose delivery occupies the name, 0 if free
  epochs,     \* registrations made so far
  firings,    \* firings dispatched so far
  lastPoll,   \* how far the clocks were apart at the last poll
  inflight,   \* deliveries the loop has not settled yet
  ledger      \* history: what became of each entry's occurrences

engine   == << bound, binding, entries, busy, epochs, firings, lastPoll >>
clocks   == << mono, wall, steps >>
vars     == << clocks, engine, inflight, ledger >>

(***************************************************************************)
(* Types.  An absent retry has attempt 0.  lastPoll keeps the difference   *)
(* of the two readings that the code stores: it only ever uses             *)
(* last.wall + (now.mono - last.mono).                                     *)
(***************************************************************************)
Due    == [on : {"wall", "mono", "never"}, at : Int]
Never  == [on |-> "never", at |-> 0]

Firing   == [id : Nat, at : Int, missed : Nat, attempt : Nat]
NoFiring == [id |-> 0, at |-> 0, missed |-> 0, attempt |-> 0]

Retry   == [due : Nat, firing : Firing]
NoRetry == [due |-> 0, firing |-> NoFiring]

Entry ==
  [ spec : Specs, declared : BOOLEAN, epoch : Nat \ {0}, due : Due,
    missed : Nat, retry : Retry, overtaken : BOOLEAN, spent : BOOLEAN ]
NoEntry == [epoch |-> 0]

(* Of the fields of the code's Entry only `unreachable' is left out: it     *)
(* chooses a log line.                                                     *)

(* A dispatched firing.  `live' ends when its workload is unbound, which   *)
(* ends the handler; the loop has still to settle the delivery.            *)
Dispatch == [slot : Slot, epoch : Nat \ {0}, firing : Firing, live : BOOLEAN]

(* Of the entry under a slot: when it was made, on its own clock, the       *)
(* occurrences its handler heard of, the queued retries that a stale       *)
(* completion dropped, and whether a clock reset ever rescheduled it.      *)
Ledger == [born : Int, heard : Nat, lost : Nat, reset : BOOLEAN]

Opened(spec) ==
  [ born |-> IF spec.kind \in {"cron", "onceAt"} THEN wall ELSE mono,
    heard |-> 0, lost |-> 0, reset |-> FALSE ]
Closed == [born |-> 0, heard |-> 0, lost |-> 0, reset |-> FALSE]

Outcomes == {"handled", "retry", "failed", "undeliverable"}

Held(s)      == entries[s] # NoEntry
Pending(e)   == e.retry.firing.attempt > 0
IsOnce(spec) == spec.kind \in {"onceAt", "onceAfter"}
Lower(a, b)  == IF a <= b THEN a ELSE b
UpTo(a, b)   == IF a <= b THEN b - a ELSE 0     \* saturating b - a

(* Doubling the shortest backoff for each attempt a binding allows.  This is  *)
(* arithmetic, and evaluated for every instance checked; the provers have no *)
(* theory of exponentiation.                                                *)
ASSUME BackoffAssumption ==
  \A b \in Bindings \cup {NoBinding} :
    \A k \in 0 .. Lower(b.maxAttempts, 32) : b.backoff * 2 ^ k \in Nat

(* Slots in the order in which a poll visits them. *)
Precedes(s, t) == s[1] < t[1] \/ (s[1] = t[1] /\ s[2] < t[2])

-----------------------------------------------------------------------------
(***************************************************************************)
(* Schedules on the clocks.                                                *)
(***************************************************************************)
(* Mutant of NextAfter: an instant that matches is its own successor.       *)
NextAtOrAfter(c, w) ==
  LET First(m) == m >= w /\ \A k \in Matches[c] : k >= w => m <= k
  IN  IF \E m \in Matches[c] : First(m)
      THEN [on |-> "wall", at |-> CHOOSE m \in Matches[c] : First(m)]
      ELSE Never

NextAfter(c, w) ==
  LET First(m) == m > w /\ \A k \in Matches[c] : k > w => m <= k
  IN  IF \E m \in Matches[c] : First(m)
      THEN [on |-> "wall", at |-> CHOOSE m \in Matches[c] : First(m)]
      ELSE Never

FirstDue(spec) ==
  CASE spec.kind = "cron"   -> NextAfter(spec.arg, wall)
    [] spec.kind = "onceAt" -> [on |-> "wall", at |-> spec.arg]
    [] OTHER                -> [on |-> "mono", at |-> mono + spec.arg]

NewEntry(spec, declared, epoch) ==
  [ spec |-> spec, declared |-> declared, epoch |-> epoch,
    due |-> FirstDue(spec), missed |-> 0, retry |-> NoRetry,
    overtaken |-> FALSE, spent |-> FALSE ]

ClockOf(due) == IF due.on = "wall" THEN wall ELSE mono

(* Mutant of IsDue: only past its time. *)
IsPast(e) == e.due.on # "never" /\ ClockOf(e.due) > e.due.at

IsDue(e) == e.due.on # "never" /\ ClockOf(e.due) >= e.due.at

UntilDue(e) == UpTo(ClockOf(e.due), e.due.at)

(* Mutant of Passed: counts the occurrence that is delivered as well. *)
PassedInclusive(c, first) == { m \in Matches[c] : first <= m /\ m <= wall }

(* Crontab instants after `first' that have passed. *)
Passed(c, first) == { m \in Matches[c] : first < m /\ m <= wall }

(* Mutant of Elapsed: off by one at the mark itself. *)
ElapsedBefore(e) == (mono - e.due.at - 1) \div e.spec.arg

(* Periods elapsed since the mark an interval is due at. *)
Elapsed(e) == (mono - e.due.at) \div e.spec.arg

(* What advancing a due entry reports: the latest due time, on the system  *)
(* clock, and how many occurrences came before it.                         *)
Occurrence(e) ==
  LET passed == Passed(e.spec.arg, e.due.at)
      Last(m) == \A k \in passed : k <= m
  IN  CASE e.spec.kind = "cron" ->
             [ at |-> IF \E m \in passed : Last(m)
                      THEN CHOOSE m \in passed : Last(m) ELSE e.due.at,
               skipped |-> Lower(Cardinality(passed), MAX_CATCH_UP) ]
        [] e.spec.kind = "interval" ->
             [ at |-> wall - ((mono - e.due.at) % e.spec.arg),
               skipped |-> Elapsed(e) ]
        [] e.spec.kind = "onceAt" -> [at |-> e.spec.arg, skipped |-> 0]
        [] OTHER -> [at |-> wall - (mono - e.due.at), skipped |-> 0]

(* The entry once that occurrence has been taken. *)
Advanced(e) ==
  CASE e.spec.kind = "cron" -> [e EXCEPT !.due = NextAfter(e.spec.arg, wall)]
    [] e.spec.kind = "interval" ->
         [e EXCEPT !.due.at = @ + (Elapsed(e) + 1) * e.spec.arg]
    [] OTHER -> [e EXCEPT !.due = Never, !.spent = TRUE]

-----------------------------------------------------------------------------
Init ==
  /\ mono = 0 /\ wall = 0 /\ steps = 0
  /\ bound = {}
  /\ binding = [w \in Workloads |-> NoBinding]
  /\ entries = [s \in Slot |-> NoEntry]
  /\ busy = [s \in Slot |-> 0]
  /\ epochs = 0 /\ firings = 0
  /\ lastPoll = [set |-> FALSE, gap |-> 0]
  /\ inflight = {}
  /\ ledger = [s \in Slot |-> Closed]

(* Time passes on both clocks alike. *)
Tick ==
  /\ mono < MaxMono /\ wall + 1 \in WallRange
  /\ mono' = mono + 1 /\ wall' = wall + 1
  /\ UNCHANGED << steps, engine, inflight, ledger >>

(* The system clock is corrected. *)
StepClock(delta) ==
  /\ steps < MaxSteps /\ wall + delta \in WallRange
  /\ wall' = wall + delta /\ steps' = steps + 1
  /\ UNCHANGED << mono, engine, inflight, ledger >>

-----------------------------------------------------------------------------
(***************************************************************************)
(* bind: what a new binding leaves of the entries a workload holds.        *)
(***************************************************************************)
Declares(b, n) == n \in DOMAIN b.declared

Retained(b, n, e) ==
  IF e.declared
  THEN Declares(b, n) /\ b.declared[n] = e.spec
  ELSE ~Declares(b, n) /\ b.canRegister /\ LimitsPermit(b, e.spec)

(* Mutant of RetryVoided: off by one, as attempts count from 1. *)
RetryVoidedPast(b, e) == Pending(e) /\ e.retry.firing.attempt > b.maxAttempts

(* The queued retry is past the new attempt limit. *)
RetryVoided(b, e) == Pending(e) /\ e.retry.firing.attempt >= b.maxAttempts

(* Mutant of Permitted: a one-shot outlives the retry that was voided. *)
PermittedWithoutRetry(b, w) ==
  { n \in Names : Held(<<w, n>>) /\ Retained(b, n, entries[<<w, n>>]) }

Permitted(b, w) ==
  { n \in Names :
      /\ Held(<<w, n>>)
      /\ Retained(b, n, entries[<<w, n>>])
      /\ ~ (RetryVoided(b, entries[<<w, n>>]) /\ IsOnce(entries[<<w, n>>].spec)) }

(* Mutant of OverLimit: the limit itself is skipped too. *)
OverLimitByOne(b, w) ==
  { n \in Permitted(b, w) :
      /\ ~entries[<<w, n>>].declared
      /\ Cardinality({ m \in Permitted(b, w) :
            /\ ~entries[<<w, m>>].declared
            /\ entries[<<w, m>>].epoch < entries[<<w, n>>].epoch })
           > b.maxRegistrations }

(* Oldest first: the registrations made last are the ones to go. *)
OverLimit(b, w) ==
  { n \in Permitted(b, w) :
      /\ ~entries[<<w, n>>].declared
      /\ Cardinality({ m \in Permitted(b, w) :
            /\ ~entries[<<w, m>>].declared
            /\ entries[<<w, m>>].epoch < entries[<<w, n>>].epoch })
           >= b.maxRegistrations }

Kept(b, w) == Permitted(b, w) \ OverLimit(b, w)

Created(b, w) == DOMAIN b.declared \ Kept(b, w)

WithoutVoidedRetry(b, e) ==
  IF RetryVoided(b, e)
  THEN [e EXCEPT !.retry = NoRetry, !.missed = @ + 1]
  ELSE e

Bind(w, b) ==
  /\ epochs + Cardinality(Created(b, w)) <= MaxEpoch
  /\ bound' = bound \cup {w}
  /\ binding' = [binding EXCEPT ![w] = b]
  /\ entries' = [ s \in Slot |->
       IF s[1] # w THEN entries[s] ELSE
         CASE s[2] \in Kept(b, w)    -> WithoutVoidedRetry(b, entries[s])
           [] s[2] \in Created(b, w) ->
                NewEntry(b.declared[s[2]], TRUE,
                  epochs + Cardinality({m \in Created(b, w) : m <= s[2]}))
           [] OTHER                  -> NoEntry ]
  /\ epochs' = epochs + Cardinality(Created(b, w))
  /\ ledger' = [ s \in Slot |->
       IF s[1] # w \/ s[2] \in Kept(b, w) THEN ledger[s]
       ELSE IF s[2] \in Created(b, w) THEN Opened(b.declared[s[2]])
       ELSE Closed ]
  /\ UNCHANGED << clocks, busy, firings, lastPoll, inflight >>

(* unbind: the workload stops, its handlers with it. *)
Unbind(w) ==
  /\ w \in bound
  /\ bound' = bound \ {w}
  /\ binding' = [binding EXCEPT ![w] = NoBinding]
  /\ entries' = [s \in Slot |-> IF s[1] = w THEN NoEntry ELSE entries[s]]
  /\ busy' = [s \in Slot |-> IF s[1] = w THEN 0 ELSE busy[s]]
  /\ inflight' = { IF d.slot[1] = w THEN [d EXCEPT !.live = FALSE] ELSE d :
                     d \in inflight }
  /\ ledger' = [s \in Slot |-> IF s[1] = w THEN Closed ELSE ledger[s]]
  /\ UNCHANGED << clocks, epochs, firings, lastPoll >>

-----------------------------------------------------------------------------
Registrable(w) == w \in bound /\ binding[w].canRegister

Registered(w) == { n \in Names : Held(<<w, n>>) /\ ~entries[<<w, n>>].declared }

(* register, when it changes something; otherwise it leaves all unchanged. *)
Register(s, spec) ==
  LET b == binding[s[1]]
  IN  /\ Registrable(s[1])
      /\ ~ (spec.kind = "interval" /\ spec.arg = 0)
      /\ LimitsPermit(b, spec)
      /\ Held(s) => /\ ~entries[s].declared
                    /\ entries[s].spec = spec => entries[s].spent
      /\ spec.kind = "onceAt" => spec.arg > wall
      /\ Held(s) \/ Cardinality(Registered(s[1])) < b.maxRegistrations
      /\ epochs < MaxEpoch
      /\ epochs' = epochs + 1
      /\ entries' = [entries EXCEPT ![s] = NewEntry(spec, FALSE, epochs + 1)]
      /\ ledger' = [ledger EXCEPT ![s] = Opened(spec)]
      /\ UNCHANGED << clocks, bound, binding, busy, firings, lastPoll, inflight >>

Unregister(s) ==
  /\ Registrable(s[1])
  /\ Held(s) /\ ~entries[s].declared
  /\ entries' = [entries EXCEPT ![s] = NoEntry]
  /\ ledger' = [ledger EXCEPT ![s] = Closed]
  /\ UNCHANGED << clocks, bound, binding, busy, epochs, firings, lastPoll,
                  inflight >>

-----------------------------------------------------------------------------
(***************************************************************************)
(* poll.                                                                   *)
(***************************************************************************)
(* Mutant of ClockReset: any step back counts as the clock being set. *)
ClockSetBack == lastPoll.set /\ (mono + lastPoll.gap) - wall > 0

ClockReset == lastPoll.set /\ (mono + lastPoll.gap) - wall > CLOCK_RESET

(* A clock set back makes a crontab due from the present again. *)
Rescheduled(e) ==
  IF ClockReset /\ e.spec.kind = "cron" /\ e.due.on = "wall"
  THEN [e EXCEPT !.due = NextAfter(e.spec.arg, wall)]
  ELSE e

DueAtPoll(s) == Held(s) /\ IsDue(Rescheduled(entries[s]))

Fires(s) == DueAtPoll(s) /\ busy[s] = 0

(* A repeating schedule that comes due behind its own handler. *)
Overruns(s) == DueAtPoll(s) /\ busy[s] # 0 /\ ~IsOnce(entries[s].spec)

Redelivers(s) ==
  /\ Held(s) /\ ~DueAtPoll(s) /\ busy[s] = 0
  /\ Pending(entries[s]) /\ mono >= entries[s].retry.due

(* Mutant of Skipped: the retry given up is not counted. *)
SkippedMarks(e) == Occurrence(e).skipped

(* A retry still queued is given up for the new occurrence. *)
Skipped(e) == Occurrence(e).skipped + (IF Pending(e) THEN 1 ELSE 0)

Polled(s) ==
  LET e == Rescheduled(entries[s])
      a == [Advanced(e) EXCEPT !.retry = NoRetry]
  IN  CASE ~Held(s)      -> NoEntry
        [] Fires(s)      -> [a EXCEPT !.missed = 0, !.overtaken = FALSE]
        [] Overruns(s)   -> [a EXCEPT !.missed = @ + Skipped(e) + 1,
                                      !.overtaken = TRUE]
        [] Redelivers(s) -> [e EXCEPT !.retry = NoRetry]
        [] OTHER         -> e

Fresh(S, s) ==
  [ id |-> firings + Cardinality({t \in S : t = s \/ Precedes(t, s)}),
    at |-> Occurrence(Rescheduled(entries[s])).at,
    missed |-> entries[s].missed + Skipped(Rescheduled(entries[s])),
    attempt |-> 1 ]

(* Mutant of Again: delivered again as it was. *)
SameAgain(s) == entries[s].retry.firing

Again(s) == [entries[s].retry.firing EXCEPT !.attempt = @ + 1]

DispatchOf(s, firing) ==
  [slot |-> s, epoch |-> entries[s].epoch, firing |-> firing, live |-> TRUE]

Poll ==
  LET fresh == { s \in Slot : Fires(s) }
      again == { s \in Slot : Redelivers(s) }
  IN  /\ firings + Cardinality(fresh) <= MaxFirings
      /\ firings' = firings + Cardinality(fresh)
      /\ entries' = [s \in Slot |-> Polled(s)]
      /\ busy' = [ s \in Slot |->
                     IF s \in fresh \cup again THEN entries[s].epoch ELSE busy[s] ]
      /\ inflight' = inflight
           \cup { DispatchOf(s, Fresh(fresh, s)) : s \in fresh }
           \cup { DispatchOf(s, Again(s)) : s \in again }
      /\ lastPoll' = [set |-> TRUE, gap |-> wall - mono]
      /\ ledger' = [ s \in Slot |->
           [ledger[s] EXCEPT !.reset =
              @ \/ (Held(s) /\ Rescheduled(entries[s]) # entries[s])] ]
      /\ UNCHANGED << clocks, bound, binding, epochs >>

-----------------------------------------------------------------------------
(***************************************************************************)
(* complete.                                                               *)
(***************************************************************************)

(* What came due behind the handler is counted, with nothing to fire. *)
CaughtUp(e) ==
  IF ~IsOnce(e.spec) /\ IsDue(e)
  THEN [Advanced(e) EXCEPT !.retry = NoRetry,
                           !.missed = @ + Occurrence(e).skipped + 1,
                           !.overtaken = TRUE]
  ELSE e

(* No firing follows that of a one-shot, so nothing can supersede it. *)
Concluded(e) ==
  IF IsOnce(e.spec) THEN [e EXCEPT !.due = Never, !.overtaken = FALSE] ELSE e

Backoff(b, firing) == b.backoff * 2 ^ Lower(firing.attempt - 1, 32)

(* Mutant of Superseded: only the next occurrence is looked at. *)
SupersededAhead(b, e, firing) ==
  e.due # Never /\ Backoff(b, firing) >= UntilDue(e)

Superseded(b, e, firing) ==
  e.overtaken \/ (e.due # Never /\ Backoff(b, firing) >= UntilDue(e))

RetryQueued(b, e, firing, outcome) ==
  /\ outcome = "retry"
  /\ firing.attempt < b.maxAttempts
  /\ ~Superseded(b, e, firing)

(* Occurrences the handler was never told about, or gave up on. *)
Unheard(b, e, firing, outcome) ==
  CASE outcome = "undeliverable" ->
         IF firing.attempt = 1 THEN firing.missed + 1 ELSE 1
    [] outcome = "retry" ->
         IF IsOnce(e.spec) \/ RetryQueued(b, e, firing, outcome) THEN 0 ELSE 1
    [] OTHER -> 0

Settled(b, entry, firing, outcome) ==
  LET e == Concluded(CaughtUp(entry))
      queued == RetryQueued(b, e, firing, outcome)
  IN  IF IsOnce(e.spec) /\ ~queued THEN NoEntry
      ELSE [e EXCEPT
              !.missed = @ + Unheard(b, e, firing, outcome),
              !.retry = IF queued
                        THEN [due |-> mono + Backoff(b, firing), firing |-> firing]
                        ELSE @]

(* Occurrences a settled delivery made known to the handler. *)
Heard(firing, outcome) ==
  (IF outcome # "undeliverable" /\ firing.attempt = 1 THEN firing.missed ELSE 0)
  + (IF outcome \in {"handled", "failed"} THEN 1 ELSE 0)

Noted(l, firing, outcome) == [l EXCEPT !.heard = @ + Heard(firing, outcome)]

(* Mutants of Freed: any completion frees the name; or only one whose      *)
(* registration still holds the slot.                                      *)
FreedByAny(d) == [busy EXCEPT ![d.slot] = 0]
FreedByHolder(d) ==
  [busy EXCEPT ![d.slot] =
     IF Held(d.slot) /\ entries[d.slot].epoch = d.epoch THEN 0 ELSE @]

(* The handler is free again, whichever registration now holds the name. *)
Freed(d) == [busy EXCEPT ![d.slot] = IF @ = d.epoch THEN 0 ELSE @]

(* The workload is gone: nothing is left to record. *)
CompleteUnbound(d) ==
  /\ d.slot[1] \notin bound
  /\ UNCHANGED << entries, busy, ledger >>

(* The schedule was removed or replaced: its name is free again. *)
CompleteStale(d) ==
  /\ d.slot[1] \in bound
  /\ ~Held(d.slot) \/ entries[d.slot].epoch # d.epoch
  /\ busy' = Freed(d)
  /\ entries' = [entries EXCEPT ![d.slot] = IF Held(d.slot) THEN CaughtUp(@) ELSE @]
  /\ ledger' = [ledger EXCEPT ![d.slot].lost =
       IF Held(d.slot) /\ Pending(entries[d.slot])
            /\ ~Pending(CaughtUp(entries[d.slot]))
       THEN @ + 1 ELSE @]

CompleteCurrent(d, outcome) ==
  /\ d.slot[1] \in bound
  /\ Held(d.slot) /\ entries[d.slot].epoch = d.epoch
  /\ busy' = Freed(d)
  /\ entries' = [entries EXCEPT
       ![d.slot] = Settled(binding[d.slot[1]], @, d.firing, outcome)]
  /\ ledger' = [ledger EXCEPT ![d.slot] =
       IF entries'[d.slot] = NoEntry THEN Closed
       ELSE Noted(@, d.firing, outcome)]

Complete(d, outcome) ==
  /\ inflight' = inflight \ {d}
  /\ \/ CompleteUnbound(d)
     \/ CompleteStale(d)
     \/ CompleteCurrent(d, outcome)
  /\ UNCHANGED << clocks, bound, binding, epochs, firings, lastPoll >>

-----------------------------------------------------------------------------
(* next_wake: how long each idle schedule allows the loop to sleep.  One    *)
(* whose handler runs waits for that and not for a clock.                  *)
Idle(s) == Held(s) /\ busy[s] = 0

(* Mutant of DueWait: the wait for the system clock is not capped. *)
DueWaitUncapped(e) == UntilDue(e)

DueWait(e) ==
  IF e.due.on = "wall" THEN Lower(UntilDue(e), WALL_RESYNC) ELSE UntilDue(e)

(* Mutant of Waits: queued retries are left out. *)
WaitsForDue ==
  { DueWait(entries[s]) : s \in { t \in Slot : Idle(t) /\ entries[t].due # Never } }

Waits ==
  { DueWait(entries[s]) : s \in { t \in Slot : Idle(t) /\ entries[t].due # Never } }
  \cup
  { UpTo(mono, entries[s].retry.due) :
      s \in { t \in Slot : Idle(t) /\ Pending(entries[t]) } }

-----------------------------------------------------------------------------
Next ==
  \/ Tick
  \/ \E delta \in ClockSteps : StepClock(delta)
  \/ \E w \in Workloads, b \in Bindings : Bind(w, b)
  \/ \E w \in Workloads : Unbind(w)
  \/ \E s \in Slot, spec \in Specs : Register(s, spec)
  \/ \E s \in Slot : Unregister(s)
  \/ Poll
  \/ \E d \in inflight, outcome \in Outcomes : Complete(d, outcome)

Spec == Init /\ [][Next]_vars

-----------------------------------------------------------------------------
(***************************************************************************)
(* Properties.                                                             *)
(***************************************************************************)

(* Every variable has its type. *)
TypeOK ==
  /\ mono \in Nat /\ wall \in Int /\ steps \in Nat
  /\ bound \in SUBSET Workloads
  /\ binding \in [Workloads -> Bindings \cup {NoBinding}]
  /\ entries \in [Slot -> Entry \cup {NoEntry}]
  /\ busy \in [Slot -> Nat]
  /\ epochs \in Nat /\ firings \in Nat
  /\ lastPoll \in [set : BOOLEAN, gap : Int]
  /\ inflight \in SUBSET Dispatch
  /\ ledger \in [Slot -> Ledger]

(* An interval has a period and is always due on the monotonic clock. *)
Shaped(e) == e.spec.kind = "interval" => e.spec.arg > 0 /\ e.due.on = "mono"

(* What TypeOK rests on: the marks of an interval can be divided by its      *)
(* period, and attempts are counted from 1.                                *)
WellFormed ==
  /\ \A s \in Slot : Held(s) => Shaped(entries[s])
  /\ \A d \in inflight : d.firing.attempt > 0

TypeInv == TypeOK /\ WellFormed

(* One schedule never overlaps itself: at most one handler call per name    *)
(* is running, across replacement, removal, rebinding and restarts of the  *)
(* workload (README.md, "What the plugin guarantees").                     *)
NoOverlap ==
  \A d1, d2 \in inflight :
    d1.live /\ d2.live /\ d1.slot = d2.slot => d1 = d2

(* A name is occupied exactly while a call for it runs: a completion that   *)
(* belongs to someone else never frees it, and none leaves it occupied,    *)
(* which would silence the schedule for good.                              *)
BusyIsRunning ==
  \A s \in Slot :
    busy[s] # 0 <=> \E d \in inflight : d.live /\ d.slot = s /\ d.epoch = busy[s]

(* Why the two above hold.  A live delivery occupies its name, so no other   *)
(* can be dispatched; one whose workload was unbound no longer occupies     *)
(* anything, and as registrations never reuse an epoch, its completion      *)
(* finds neither its own epoch in `busy' nor its entry.                     *)
EpochsBelow ==
  /\ \A s \in Slot : Held(s) => s[1] \in bound /\ entries[s].epoch <= epochs
  /\ \A d \in inflight : d.epoch <= epochs

LiveOccupies ==
  \A d \in inflight :
    d.live => d.slot[1] \in bound /\ busy[d.slot] = d.epoch

DeadForgotten ==
  \A d \in inflight :
    ~d.live => busy[d.slot] # d.epoch
                 /\ (Held(d.slot) => entries[d.slot].epoch # d.epoch)

OverlapInv ==
  NoOverlap /\ BusyIsRunning /\ EpochsBelow /\ LiveOccupies /\ DeadForgotten

(* A spent one-shot is held only while its firing is still owed to the      *)
(* handler; otherwise it would count against max-registrations forever.    *)
SpentIsOwed ==
  \A s \in Slot :
    Held(s) /\ entries[s].spent =>
      Pending(entries[s]) \/ busy[s] = entries[s].epoch

(* A queued retry belongs to the schedule's most recent occurrence: nothing *)
(* was missed after it, and the next occurrence is still ahead of it.      *)
RetryIsLatest ==
  \A s \in Slot :
    Held(s) /\ Pending(entries[s]) =>
      /\ entries[s].missed = 0 /\ ~entries[s].overtaken
      /\ entries[s].due.on = "mono" => entries[s].retry.due < entries[s].due.at

(* What a workload holds is what its current binding permits.               *)
GrantRespected ==
  \A w \in bound :
    LET b == binding[w]
        own == { n \in Names : Held(<<w, n>>) /\ entries[<<w, n>>].declared }
    IN  /\ own = DOMAIN b.declared
        /\ \A n \in own : entries[<<w, n>>].spec = b.declared[n]
        /\ Cardinality(Registered(w)) <= b.maxRegistrations
        /\ ~b.canRegister => Registered(w) = {}
        /\ \A n \in Registered(w) : LimitsPermit(b, entries[<<w, n>>].spec)
        /\ \A n \in Names : Held(<<w, n>>) => ~RetryVoided(b, entries[<<w, n>>])

(* Nothing is held that should not be: neither against the binding nor      *)
(* after its last firing was settled.                                      *)
HeldIsPermitted == GrantRespected /\ SpentIsOwed

(* Deliveries running for the registration that now holds the slot. *)
Running(s) == { d \in inflight : d.live /\ d.slot = s /\ d.epoch = entries[s].epoch }

(* The occurrences a running delivery will report once it is settled. *)
Carried(d) == 1 + (IF d.firing.attempt = 1 THEN d.firing.missed ELSE 0)

Unreported(s) ==
  LET running == Running(s)
  IN  entries[s].missed + (IF Pending(entries[s]) THEN 1 ELSE 0)
        + (IF running = {} THEN 0 ELSE Carried(CHOOSE d \in running : TRUE))

(* An interval loses no period and counts none twice: the marks taken since *)
(* it was registered are those the handler heard of, those counted in      *)
(* `missed', the one queued for retry, those in the running delivery, and  *)
(* the retries lost to the completion of a call from before an unbind.     *)
EveryPeriodAccounted ==
  \A s \in Slot :
    LET e == entries[s]
        marks == ledger[s].heard + ledger[s].lost + Unreported(s)
    IN  Held(s) /\ e.spec.kind = "interval" =>
          e.due.at = ledger[s].born + e.spec.arg * (1 + marks)

(* `missed' is a lower bound for a crontab: between its registration and    *)
(* the instant it now waits for, no more instants are reported than        *)
(* matched, and exactly those when no catch-up could reach its cap.  Steps *)
(* of the system clock that reset the schedule end the comparison.         *)
EveryMatchAccounted ==
  \A s \in Slot :
    LET e == entries[s]
        matched == { m \in Matches[e.spec.arg] :
                       /\ m > ledger[s].born
                       /\ e.due = Never \/ m < e.due.at }
        told == ledger[s].heard + ledger[s].lost + Unreported(s)
    IN  Held(s) /\ e.spec.kind = "cron" /\ ~ledger[s].reset =>
          /\ told <= Cardinality(matched)
          /\ Cardinality(matched) <= MAX_CATCH_UP => told = Cardinality(matched)

(* No mark that a schedule set is lost or told twice, of either kind. *)
EveryMarkAccounted == EveryPeriodAccounted /\ EveryMatchAccounted

-----------------------------------------------------------------------------
(***************************************************************************)
(* list-registrations.                                                     *)
(***************************************************************************)
OnWall(at) == [on |-> "wall", at |-> at]

(* Mutant of NextOf: the first mark that is due and not the latest. *)
NextUncaught(s, e) ==
  CASE e.due.on = "never" -> Never
    [] e.due.on = "wall"  -> e.due
    [] e.due.on = "mono"  -> OnWall(wall + (e.due.at - mono))

(* Entry::next. *)
NextOf(s, e) ==
  LET behind == busy[s] # 0 /\ IsDue(e)
  IN  CASE e.spent \/ e.due = Never -> Never
        [] e.spec.kind = "cron" /\ behind -> NextAfter(e.spec.arg, wall)
        [] e.spec.kind = "interval" /\ behind ->
             OnWall(wall + e.spec.arg - ((mono - e.due.at) % e.spec.arg))
        [] IsDue(e) /\ ~behind /\ e.spec.kind \in {"cron", "interval"} ->
             OnWall(Occurrence(e).at)
        [] e.due.on = "wall" /\ ~(IsDue(e) /\ e.spec.kind = "cron") -> e.due
        [] e.due.on = "mono" /\ ~(IsDue(e) /\ e.spec.kind = "interval") ->
             OnWall(wall + (e.due.at - mono))

(* The time that `list' shows, by Entry::next. *)
Forecast(s) == NextOf(s, Rescheduled(entries[s]))

(* A forecast at or before now means a firing awaiting delivery, or a       *)
(* one-shot waiting for its handler, and nothing else does (Entry::next).  *)
ForecastShowsWaiting ==
  \A s \in Slot :
    Held(s) /\ Forecast(s) # Never =>
      (Forecast(s).at <= wall
         <=> DueAtPoll(s) /\ (busy[s] = 0 \/ IsOnce(entries[s].spec)))

NewDeliveries == { d \in inflight' : d.live /\ d \notin inflight }

(* The firing a poll dispatches carries the time that a listing read just   *)
(* before it would have shown (types.wit, registration.next).              *)
ForecastIsDispatched ==
  [][ \A d \in NewDeliveries :
        d.firing.attempt = 1 => Forecast(d.slot) = OnWall(d.firing.at) ]_vars

(* A listing tells what a poll will do, and which firings wait.             *)
ForecastHolds == []ForecastShowsWaiting /\ ForecastIsDispatched

(* A crontab fires for its latest match, once: the instant delivered was    *)
(* due and not skipped over, and the schedule moves past it.               *)
CronFiresLatest ==
  [][ \A d \in NewDeliveries :
        LET e == entries[d.slot]
        IN  e.spec.kind = "cron" /\ d.firing.attempt = 1 =>
              /\ d.firing.at \in Matches[e.spec.arg]
              /\ \A m \in Matches[e.spec.arg] : m <= wall => m <= d.firing.at
              /\ entries'[d.slot].due # Never =>
                   entries'[d.slot].due.at > wall ]_vars

(* The repeated stretch is not run twice: a crontab never moves back to an  *)
(* earlier instant unless the clock was set back past CLOCK_RESET.         *)
CronMovesForward ==
  [][ \A s \in Slot :
        LET e == entries[s]  f == entries'[s]
        IN  /\ Held(s) /\ e.spec.kind = "cron" /\ e.due # Never
            /\ f.epoch = e.epoch /\ f.due # Never /\ f.due.at < e.due.at
            => lastPoll.set /\ (mono + lastPoll.gap) - wall > CLOCK_RESET ]_vars

(* A crontab fires for its latest match and does not go back.               *)
CronKeepsTime == CronFiresLatest /\ CronMovesForward

(* No delivery goes past the attempts that the binding in force allows,     *)
(* not even one queued under an earlier binding.                           *)
AttemptsBounded ==
  [][ \A d \in NewDeliveries :
        d.firing.attempt <= binding[d.slot[1]].maxAttempts ]_vars

-----------------------------------------------------------------------------
(***************************************************************************)
(* The engine implements the contract: a call is a live delivery, a firing *)
(* is owed while its retry is queued, and the identifiers used are the     *)
(* firings counted so far.                                                 *)
(***************************************************************************)

CallOf(s) ==
  LET live == { d \in inflight : d.live /\ d.slot = s }
  IN  IF live = {} THEN [id |-> 0, attempt |-> 0]
      ELSE LET f == (CHOOSE d \in live : TRUE).firing
           IN  [id |-> f.id, attempt |-> f.attempt]

OwedTo(s) ==
  IF Held(s) /\ Pending(entries[s])
  THEN [ id |-> entries[s].retry.firing.id,
         attempt |-> entries[s].retry.firing.attempt ]
  ELSE [id |-> 0, attempt |-> 0]

Contract == INSTANCE CronContract WITH
  calls <- [s \in Slot |-> CallOf(s)],
  owed  <- [s \in Slot |-> OwedTo(s)],
  used  <- firings

(* The engine and its clocks implement the contract of cosmonic:cron.       *)
ImplementsContract == Contract!Spec
=============================================================================
