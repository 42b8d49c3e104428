----------------------------- MODULE CronPlugin -----------------------------
(***************************************************************************)
(* The dispatch loop of the cron-scheduler plugin and what runs beside it  *)
(* (src/host-plugins/component/cron-scheduler/src/plugin.rs).              *)
(*                                                                         *)
(* One component instance, one thread: the loop task, calls of `scheduler' *)
(* and the lifecycle hooks take turns, and a task gives way only where it  *)
(* awaits.  The loop awaits in its select!, over a timer, the wake channel *)
(* and the deliveries; hooks and calls do not await at all, so each is one *)
(* step, wake included.                                                    *)
(***************************************************************************)
EXTENDS CronEngine

CONSTANTS MIN_SLEEP     \* shortest sleep of the loop

ASSUME SleepAssumption == MIN_SLEEP \in Nat \ {0}

VARIABLES
  loop,        \* "pass": about to go round; "select": in its select!
  timer,       \* when the pending sleep ends, or Asleep for no deadline
  wakeQueued,  \* WAKE_QUEUED
  wakes,       \* messages in the wake channel
  started,     \* deliveries that select! has polled, by their keys
  calls,       \* handler calls that are running, by the keys of deliveries
  routable     \* workloads whose handler can be called

plugin == << loop, timer, wakeQueued, wakes, started, calls, routable >>

Forever == -1

Key(d) == << d.firing.id, d.firing.attempt >>

InitPlugin ==
  /\ Init
  /\ loop = "pass" /\ timer = Forever
  /\ wakeQueued = FALSE /\ wakes = 0
  /\ started = {} /\ calls = {}
  /\ routable = {}

-----------------------------------------------------------------------------
(* Mutant of Yielded: tasks run before the new deliveries are polled. *)
Waiting == loop = "select"

(* Other tasks run while the loop waits in select!: it has given way, so    *)
(* each of its branches, and every delivery, has been polled.              *)
Yielded == loop = "select" /\ \A d \in inflight : Key(d) \in started

(* Mutants of Wake: it is forgotten; or it does not coalesce. *)
NoWake == UNCHANGED << wakeQueued, wakes >>
WakeEach == wakeQueued' = TRUE /\ wakes' = wakes + 1

(* wake(): a change queues one message, however many changes there are.     *)
Wake ==
  /\ wakeQueued' = TRUE
  /\ wakes' = IF wakeQueued THEN wakes ELSE wakes + 1

(* A hook or a call that changed the schedules. *)
WorkloadBind(w, b) ==
  /\ Yielded /\ Bind(w, b) /\ Wake
  /\ UNCHANGED << loop, timer, started, calls, routable >>

WorkloadUnbind(w) ==
  /\ Yielded /\ Unbind(w) /\ Wake
  /\ calls' = { k \in calls : \A d \in inflight : Key(d) = k => d.slot[1] # w }
  /\ UNCHANGED << loop, timer, started, routable >>

RegisterSpec(s, spec) ==
  /\ Yielded /\ s[1] \in routable
  /\ Register(s, spec) /\ Wake
  /\ UNCHANGED << loop, timer, started, calls, routable >>

UnregisterName(s) ==
  /\ Yielded /\ Unregister(s) /\ Wake
  /\ UNCHANGED << loop, timer, started, calls, routable >>

(* The host starts or stops routing calls to a workload. *)
Route(w) ==
  /\ Yielded
  /\ routable' = IF w \in routable THEN routable \ {w} ELSE routable \cup {w}
  /\ UNCHANGED << vars, loop, timer, wakeQueued, wakes, started, calls >>

-----------------------------------------------------------------------------
(***************************************************************************)
(* The loop.                                                               *)
(***************************************************************************)

(* From the top of the loop to its select!, without an await. *)
Pass ==
  /\ loop = "pass" /\ loop' = "select"
  /\ wakeQueued' = FALSE /\ wakes' = 0
  /\ Poll
  /\ timer' = IF Waits' = {} THEN Forever
              ELSE LET wait == CHOOSE x \in Waits' : \A y \in Waits' : x <= y
                   IN  mono + (IF wait < MIN_SLEEP THEN MIN_SLEEP ELSE wait)
  /\ UNCHANGED << started, calls, routable >>

SleepEnds ==
  /\ loop = "select" /\ timer # Forever /\ mono >= timer
  /\ loop' = "pass"
  /\ UNCHANGED << vars, timer, wakeQueued, wakes, started, calls, routable >>

Woken ==
  /\ loop = "select" /\ wakes > 0
  /\ loop' = "pass" /\ wakes' = wakes - 1
  /\ UNCHANGED << vars, timer, wakeQueued, started, calls, routable >>

(* select! polls a delivery for the first time: the target opens and its    *)
(* handler is called.                                                      *)
StartCall(d) ==
  /\ loop = "select" /\ Key(d) \notin started
  /\ d.slot[1] \in routable
  /\ started' = started \cup {Key(d)}
  /\ calls' = calls \cup {Key(d)}
  /\ UNCHANGED << vars, loop, timer, wakeQueued, wakes, routable >>

(* The target does not open: the delivery is over at once, and settled. *)
Unroutable(d) ==
  /\ loop = "select" /\ Key(d) \notin started
  /\ d.slot[1] \notin routable
  /\ Complete(d, "undeliverable")
  /\ loop' = "pass"
  /\ UNCHANGED << timer, wakeQueued, wakes, started, calls, routable >>

(* A call has ended and select! hands its outcome over to be settled.  One  *)
(* that unbinding ended did not complete.                                  *)
Settle(d, outcome) ==
  /\ loop = "select" /\ Key(d) \in started
  /\ outcome \in (IF Key(d) \in calls THEN {"handled", "retry", "failed"}
                                      ELSE {"failed"})
  /\ Complete(d, outcome)
  /\ started' = started \ {Key(d)}
  /\ calls' = calls \ {Key(d)}
  /\ loop' = "pass"
  /\ UNCHANGED << timer, wakeQueued, wakes, routable >>

-----------------------------------------------------------------------------
Time ==
  /\ Tick \/ \E delta \in ClockSteps : StepClock(delta)
  /\ UNCHANGED plugin

Deliveries ==
  \E d \in inflight :
    \/ StartCall(d)
    \/ Unroutable(d)
    \/ \E outcome \in Outcomes : Settle(d, outcome)

NextPlugin ==
  \/ Time
  \/ \E w \in Workloads, b \in Bindings : WorkloadBind(w, b)
  \/ \E w \in Workloads : WorkloadUnbind(w)
  \/ \E s \in Slot, spec \in Specs : RegisterSpec(s, spec)
  \/ \E s \in Slot : UnregisterName(s)
  \/ \E w \in Workloads : Route(w)
  \/ Pass
  \/ SleepEnds
  \/ Woken
  \/ Deliveries

(***************************************************************************)
(* Fairness: time passes and the loop task is scheduled whenever it can    *)
(* run.  Calls end, because the host gives each one a deadline, and as     *)
(* select! picks at random among the branches that are ready, wakes cannot *)
(* keep it from a finished delivery for ever: fairness is strong there.    *)
(***************************************************************************)
Fairness ==
  /\ WF_<< vars, plugin >>(Tick /\ UNCHANGED plugin)
  /\ WF_<< vars, plugin >>(Pass)
  /\ WF_<< vars, plugin >>(SleepEnds)
  /\ WF_<< vars, plugin >>(Woken)
  /\ SF_<< vars, plugin >>(Deliveries)

SpecPlugin == InitPlugin /\ [][NextPlugin]_<< vars, plugin >>
FairPlugin == SpecPlugin /\ Fairness

-----------------------------------------------------------------------------
(***************************************************************************)
(* Properties.                                                             *)
(***************************************************************************)

(* Handler calls of one name never overlap, although unbinding forgets what *)
(* was in flight: that rests on every delivery having been started before  *)
(* a hook can run.                                                         *)
CallsNeverOverlap ==
  \A d1, d2 \in inflight :
    Key(d1) \in calls /\ Key(d2) \in calls /\ d1.slot = d2.slot => d1 = d2

(* However many changes there are, one message waits in the unbounded       *)
(* channel, exactly while a wake is marked as queued; and no wake is lost:  *)
(* while the loop sleeps and no wake is on its way, the                     *)
(* timer covers whatever an idle schedule waits for, with MIN_SLEEP of     *)
(* lateness at most, or WALL_RESYNC for a deadline on the system clock.    *)
TimerCoversDue ==
  loop = "select" =>
    /\ wakes = IF wakeQueued THEN 1 ELSE 0
    /\ wakes = 0 => \A s \in Slot :
         LET e == entries[s]
             before(t) == timer # Forever /\ timer <= t
         IN  Idle(s) =>
               /\ e.due.on = "mono" => before(e.due.at + MIN_SLEEP)
               /\ e.due.on = "wall" => before(mono + WALL_RESYNC + MIN_SLEEP)
               /\ Pending(e) => before(e.retry.due + MIN_SLEEP)

(* The last moment by which the loop can be awake for what s is due for. *)
Deadline(s) ==
  IF entries[s].due.on = "mono" THEN entries[s].due.at + MIN_SLEEP
  ELSE mono + WALL_RESYNC + MIN_SLEEP

Overdue(s) == Held(s) /\ IsDue(entries[s])

(* What comes due is dispatched or counted, be it behind a running handler, *)
(* after a correction of the clock or under a workload that cannot be      *)
(* called.  (Deadlines past the last instant of the model are left out.)   *)
DueIsServed ==
  \A s \in Slot :
    Overdue(s) /\ Deadline(s) <= MaxMono ~> ~Overdue(s)

(* A retry that was promised is redelivered or given up, not forgotten. *)
RetryIsServed ==
  \A s \in Slot :
    Held(s) /\ Pending(entries[s]) /\ entries[s].retry.due + MIN_SLEEP <= MaxMono
      ~> ~(Held(s) /\ Pending(entries[s]))

(* Nothing that the loop owes is forgotten, due or promised. *)
AllIsServed == DueIsServed /\ RetryIsServed
=============================================================================
