---------------------------- MODULE MCCronEngine ----------------------------
(***************************************************************************)
(* Instances of the engine for TLC.  Time is counted in units of the       *)
(* shortest period used.                                                   *)
(***************************************************************************)
EXTENDS CronEngine

Every(period)   == [kind |-> "interval", arg |-> period]
Once(delay)     == [kind |-> "onceAfter", arg |-> delay]
OnceAt(instant) == [kind |-> "onceAt", arg |-> instant]
Crontab(c)      == [kind |-> "cron", arg |-> c]

Grant(declared, most, attempts) ==
  [declared |-> declared, canRegister |-> TRUE, maxRegistrations |-> most,
   minInterval |-> 1, maxAttempts |-> attempts, backoff |-> 1]

(***************************************************************************)
(* What is asked: how retries, replacement, removal and rebinding of one   *)
(* name get on ("retry"), what bindings that take permissions away leave   *)
(* of two names ("grants"), and how crontabs and instants fare under a     *)
(* system clock that is corrected ("cron").  Each question has an instance *)
(* of its own; a behaviour belongs to one.                                 *)
(***************************************************************************)
Questions == {"retry", "grants", "cron"}

NamesOf(q) == IF q = "grants" THEN {1, 2} ELSE {1}

SpecsOf(q) ==
  CASE q = "retry"  -> {Every(4), Once(1)}
    [] q = "grants" -> {Every(2), Once(1)}
    [] q = "cron"   -> {Crontab(1), OnceAt(3)}

BindingsOf(q) ==
  CASE q = "retry"  -> {Grant(<< >>, 1, 2), Grant(<< >>, 1, 3)}
    [] q = "grants" ->
         { Grant(<< >>, 2, 2),
           Grant(<< >>, 1, 1),
           Grant(<<Every(2)>>, 1, 2),
           [Grant(<< >>, 2, 2) EXCEPT !.minInterval = 2],
           [Grant(<<Every(2)>>, 2, 2) EXCEPT !.canRegister = FALSE] }
    [] q = "cron"   -> {Grant(<< >>, 1, 2)}

StepsOf(q)   == IF q = "cron" THEN {-3, -1, 2} ELSE {}
WallOf(q)    == CASE q = "retry" -> 0..9 [] q = "grants" -> 0..3 [] q = "cron" -> -2..6
MonoOf(q)    == CASE q = "retry" -> 9 [] q = "grants" -> 3 [] q = "cron" -> 5
EpochsOf(q)  == CASE q = "retry" -> 3 [] q = "grants" -> 4 [] q = "cron" -> 2
FiringsOf(q) == IF q = "cron" THEN 3 ELSE 4

\* The constants cover all of them.
AllSpecs    == UNION {SpecsOf(q) : q \in Questions}
AllBindings == UNION {BindingsOf(q) : q \in Questions}
AllSteps    == UNION {StepsOf(q) : q \in Questions}
AllWall     == UNION {WallOf(q) : q \in Questions}
CronMatches == << 1..5 >>

VARIABLE question

Within(q) ==
  /\ mono' <= MonoOf(q) /\ wall' \in WallOf(q)
  /\ epochs' <= EpochsOf(q) /\ firings' <= FiringsOf(q)

Ask(q) ==
  \/ Tick
  \/ \E delta \in StepsOf(q) : StepClock(delta)
  \/ \E w \in Workloads, b \in BindingsOf(q) : Bind(w, b)
  \/ \E w \in Workloads : Unbind(w)
  \/ \E s \in Workloads \X NamesOf(q), spec \in SpecsOf(q) : Register(s, spec)
  \/ \E s \in Workloads \X NamesOf(q) : Unregister(s)
  \/ Poll
  \/ \E d \in inflight, outcome \in Outcomes : Complete(d, outcome)

MCInit == Init /\ question \in Questions
MCNext == Ask(question) /\ Within(question) /\ UNCHANGED question
MCSpec == MCInit /\ [][MCNext]_<<vars, question>>
=============================================================================
