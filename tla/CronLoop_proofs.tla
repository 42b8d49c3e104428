-------------------------- MODULE CronLoop_proofs --------------------------
(***************************************************************************)
(* Proofs about the cron-scheduler plugin around its engine.  A name's     *)
(* handler calls never overlap, and the loop sleeps past nothing; a        *)
(* calendar is taken exactly when it is possible, and a binding exactly    *)
(* when it is legal, and then declares what its entries say.               *)
(***************************************************************************)
EXTENDS CronLoop, CronEngine_proofs, Folding_proofs

-----------------------------------------------------------------------------
(***************************************************************************)
(* The dispatch loop.                                                      *)
(***************************************************************************)

(* A delivery whose workload was unbound is alone with its firing: nothing  *)
(* that lives bears it, and it is not redelivered.                         *)
DeadApart ==
  \A d \in inflight : ~d.live =>
    /\ d.firing.id <= firings
    /\ \A s \in Slot : ~Bears(s, d.firing.id)
    /\ \A c \in inflight : ~c.live /\ c.firing.id = d.firing.id => c = d

(* As a hook runs only when every delivery has been polled, one that it     *)
(* ends was started before and is not called again.                        *)
DeadEnded ==
  \A d \in inflight : ~d.live => Key(d) \in started /\ Key(d) \notin calls

PluginInv ==
  /\ TypeInv /\ OverlapInv /\ GrantInv /\ CallInv
  /\ DeadApart /\ DeadEnded

-----------------------------------------------------------------------------
(***************************************************************************)
(* The plugin drives the engine: each of its steps is one of the engine's, *)
(* or leaves the engine alone.                                             *)
(***************************************************************************)
LEMMA PluginDrivesEngine == NextPlugin => [Next]_vars
<1> SUFFICES ASSUME NextPlugin PROVE [Next]_vars
  OBVIOUS
<1>1. CASE Time
  BY <1>1 DEF Time, Next
<1>2. ASSUME NEW w \in Workloads, NEW b \in Bindings, WorkloadBind(w, b)
      PROVE  Next
  BY <1>2 DEF WorkloadBind, Next
<1>3. ASSUME NEW w \in Workloads, WorkloadUnbind(w) PROVE Next
  BY <1>3 DEF WorkloadUnbind, Next
<1>4. ASSUME NEW s \in Slot, NEW spec \in Specs, RegisterSpec(s, spec) PROVE Next
  BY <1>4 DEF RegisterSpec, Next
<1>5. ASSUME NEW s \in Slot, UnregisterName(s) PROVE Next
  BY <1>5 DEF UnregisterName, Next
<1>6. ASSUME NEW w \in Workloads, Route(w) PROVE UNCHANGED vars
  BY <1>6 DEF Route
<1>7. CASE Pass
  BY <1>7 DEF Pass, Next
<1>8. CASE SleepEnds \/ Woken
  BY <1>8 DEF SleepEnds, Woken
<1>9. ASSUME NEW d \in inflight, StartCall(d) PROVE UNCHANGED vars
  BY <1>9 DEF StartCall
<1>10. ASSUME NEW d \in inflight, Unroutable(d) PROVE Next
  BY <1>10 DEF Unroutable, Next, Outcomes
<1>11. ASSUME NEW d \in inflight, NEW outcome \in Outcomes, Settle(d, outcome)
       PROVE  Next
  BY <1>11 DEF Settle, Next
<1> QED
  BY <1>1, <1>2, <1>3, <1>4, <1>5, <1>6, <1>7, <1>8, <1>9, <1>10, <1>11
     DEF NextPlugin, Deliveries

-----------------------------------------------------------------------------
(***************************************************************************)
(* What is in flight has one place for each firing.                        *)
(***************************************************************************)
LEMMA KeysDiffer ==
  ASSUME TypeInv, OverlapInv, CallInv, DeadApart,
         NEW c \in inflight, NEW d \in inflight, Key(c) = Key(d)
  PROVE  c = d
<1>1. c.firing.id = d.firing.id
  BY DEF Key
<1>2. /\ c.firing.id \in Nat /\ d.firing.id \in Nat
      /\ c.slot \in Slot /\ d.slot \in Slot
  BY DEF TypeInv, TypeOK, Dispatch, Firing
<1>3. c.live => Bears(c.slot, c.firing.id)
  BY DEF Bears, LiveAt
<1>4. d.live => Bears(d.slot, d.firing.id)
  BY DEF Bears, LiveAt
<1>5. CASE c.live /\ d.live
  <2>1. c.slot = d.slot
    BY <1>1, <1>2, <1>3, <1>4, <1>5 DEF CallInv
  <2> QED
    BY <1>5, <2>1 DEF OverlapInv, NoOverlap
<1>6. CASE ~c.live
  BY <1>1, <1>2, <1>4, <1>6 DEF DeadApart
<1>7. CASE ~d.live
  BY <1>1, <1>2, <1>3, <1>7 DEF DeadApart
<1> QED
  BY <1>5, <1>6, <1>7

(* Only unbinding ends a delivery before it is settled.                     *)
LEMMA OnlyUnbindEnds ==
  ASSUME TypeInv, [Next]_vars, \A w \in Workloads : ~Unbind(w)
  PROVE  \A d \in inflight' : ~d.live => d \in inflight
<1>1. CASE Poll
  <2>1. \A s, f : DispatchOf(s, f).live
    BY DEF DispatchOf
  <2> QED
    BY <1>1, <2>1 DEF Poll
<1>2. ASSUME NEW d \in inflight, NEW outcome \in Outcomes, Complete(d, outcome)
      PROVE  inflight' \subseteq inflight
  BY <1>2 DEF Complete
<1>3. CASE UNCHANGED inflight
  BY <1>3
<1>4. ASSUME ~Poll, \A d \in inflight, outcome \in Outcomes : ~Complete(d, outcome)
      PROVE  UNCHANGED inflight
  BY <1>4 DEF Next, Tick, StepClock, Bind, Register, Unregister, vars
<1> QED
  BY <1>1, <1>2, <1>3, <1>4

LEMMA DeadStep ==
  ASSUME TypeInv, OverlapInv, GrantInv, CallInv, DeadApart, [Next]_vars
  PROVE  DeadApart'
<1>1. /\ firings \in Nat /\ firings' \in Nat /\ firings <= firings'
      /\ \A s \in Slot : Rests(s) \/ Ends(s) \/ Starts(s) \/ Resumes(s)
  BY ServeStep DEF Serves, TypeInv, TypeOK
<1>2. \A d \in inflight : d.firing.id \in Nat /\ d.slot \in Slot
  BY DEF TypeInv, TypeOK, Dispatch, Firing
<1>3. ASSUME NEW s \in Slot, NEW i \in Nat, i <= firings, Bears(s, i)'
      PROVE  Bears(s, i)
  BY <1>1, <1>3, BearsAfter
<1>4. CASE \A w \in Workloads : ~Unbind(w)
  <2>1. \A d \in inflight' : ~d.live => d \in inflight
    BY <1>4, OnlyUnbindEnds
  <2> SUFFICES ASSUME NEW d \in inflight', ~d.live
      PROVE  /\ d.firing.id <= firings'
             /\ \A s \in Slot : ~Bears(s, d.firing.id)'
             /\ \A c \in inflight' : ~c.live /\ c.firing.id = d.firing.id => c = d
    BY DEF DeadApart
  <2>2. d \in inflight /\ d.firing.id \in Nat /\ d.firing.id <= firings
    BY <1>2, <2>1 DEF DeadApart
  <2>3. \A s \in Slot : ~Bears(s, d.firing.id)
    BY <2>2 DEF DeadApart
  <2> QED
    BY <1>1, <1>3, <2>1, <2>2, <2>3 DEF DeadApart
<1>5. ASSUME NEW w \in Workloads, Unbind(w) PROVE DeadApart'
  <2> DEFINE Ended(c) == IF c.slot[1] = w THEN [c EXCEPT !.live = FALSE] ELSE c
  <2>1. inflight' = { Ended(c) : c \in inflight } /\ firings' = firings
    BY <1>5 DEF Unbind
  <2>2. ASSUME NEW c \in inflight
        PROVE  /\ Ended(c).firing = c.firing /\ Ended(c).slot = c.slot
               /\ Ended(c).live => c.live /\ c.slot[1] # w
    BY DEF TypeInv, TypeOK, Dispatch
  <2>3. ASSUME NEW s \in Slot, s[1] = w PROVE LiveAt(s)' = {} /\ OwedTo(s)' = NoCall
    <3>1. ASSUME NEW d \in LiveAt(s)' PROVE FALSE
      <4>1. d \in inflight' /\ d.live /\ d.slot = s
        BY <3>1 DEF LiveAt
      <4>2. PICK c \in inflight : d = Ended(c)
        BY <2>1, <4>1
      <4> HIDE DEF Ended
      <4> QED
        BY <2>2, <2>3, <4>1, <4>2
    <3>2. ~Held(s)'
      BY <1>5, <2>3 DEF Unbind, Held
    <3> QED
      BY <3>1, <3>2 DEF OwedTo, NoCall
  <2>4. ASSUME NEW c \in inflight, ~Ended(c).live
        PROVE  /\ c.firing.id <= firings
               /\ \A s \in Slot : ~Bears(s, c.firing.id)'
    <3>1. c.firing.id \in Nat /\ c.slot \in Slot
      BY <1>2
    <3>2. CASE ~c.live
      <4>1. c.firing.id <= firings /\ \A s \in Slot : ~Bears(s, c.firing.id)
        BY <3>2 DEF DeadApart
      <4> QED
        BY <1>3, <3>1, <4>1
    <3>3. CASE c.live
      <4>1. c.slot[1] = w
        BY <2>4, <3>3
      <4>2. Bears(c.slot, c.firing.id)
        BY <3>1, <3>3 DEF Bears, LiveAt
      <4>3. c.firing.id <= firings /\ \A t \in Slot : Bears(t, c.firing.id) => c.slot = t
        BY <3>1, <4>2 DEF CallInv
      <4>4. NoCall.attempt = 0
        BY DEF NoCall
      <4>5. ~Bears(c.slot, c.firing.id)'
        BY <2>3, <3>1, <4>1, <4>4 DEF Bears
      <4> QED
        BY <1>3, <3>1, <4>3, <4>5
    <3> QED
      BY <3>2, <3>3
  <2>5. ASSUME NEW b \in inflight, NEW c \in inflight, b.firing.id = c.firing.id
        PROVE  b = c
    <3>1. /\ b.firing.id \in Nat /\ b.slot \in Slot /\ c.slot \in Slot
      BY <1>2
    <3>2. b.live => Bears(b.slot, b.firing.id)
      BY DEF Bears, LiveAt
    <3>3. c.live => Bears(c.slot, b.firing.id)
      BY <2>5 DEF Bears, LiveAt
    <3>4. CASE b.live /\ c.live
      <4>1. b.slot = c.slot
        BY <3>1, <3>2, <3>3, <3>4 DEF CallInv
      <4> QED
        BY <3>4, <4>1 DEF OverlapInv, NoOverlap
    <3>5. CASE ~b.live
      BY <2>5, <3>1, <3>3, <3>5 DEF DeadApart
    <3>6. CASE ~c.live
      BY <2>5, <3>1, <3>2, <3>6 DEF DeadApart
    <3> QED
      BY <3>4, <3>5, <3>6
  <2> SUFFICES ASSUME NEW d \in inflight', ~d.live
      PROVE  /\ d.firing.id <= firings'
             /\ \A s \in Slot : ~Bears(s, d.firing.id)'
             /\ \A c \in inflight' : ~c.live /\ c.firing.id = d.firing.id => c = d
    BY DEF DeadApart
  <2>6. PICK c \in inflight : d = Ended(c)
    BY <2>1
  <2> HIDE DEF Ended
  <2>7. d.firing.id = c.firing.id
    BY <2>2, <2>6
  <2>8. ASSUME NEW e \in inflight', e.firing.id = d.firing.id PROVE e = d
    <3>1. PICK b \in inflight : e = Ended(b)
      BY <2>1
    <3>2. b = c
      BY <2>2, <2>5, <2>7, <2>8, <3>1
    <3> QED
      BY <2>6, <3>1, <3>2
  <2> QED
    BY <2>1, <2>4, <2>6, <2>7, <2>8
<1> QED
  BY <1>4, <1>5

(* Which deliveries are dead after a step, and which started, and called.   *)
LEMMA EndedStep ==
  ASSUME TypeInv, OverlapInv, CallInv, DeadApart, DeadEnded, NextPlugin
  PROVE  DeadEnded'
<1>1. ASSUME \A d \in inflight' : ~d.live => d \in inflight,
             UNCHANGED << started, calls >>
      PROVE  DeadEnded'
  BY <1>1 DEF DeadEnded, Key
<1>2. ASSUME bound \subseteq bound'
      PROVE  \A d \in inflight' : ~d.live => d \in inflight
  <2>1. \A w \in Workloads : ~Unbind(w)
    BY <1>2 DEF Unbind
  <2> QED
    BY <2>1, OnlyUnbindEnds, PluginDrivesEngine
<1>3. ASSUME NEW w \in Workloads, WorkloadUnbind(w) PROVE DeadEnded'
  <2>1. /\ started' = started
        /\ calls' = { k \in calls : \A d \in inflight : Key(d) = k => d.slot[1] # w }
        /\ \A d \in inflight : Key(d) \in started
        /\ Unbind(w)
    BY <1>3 DEF WorkloadUnbind, Yielded
  <2>2. inflight' = { IF d.slot[1] = w THEN [d EXCEPT !.live = FALSE] ELSE d :
                        d \in inflight }
    BY <2>1 DEF Unbind
  <2> SUFFICES ASSUME NEW d \in inflight', ~d.live
      PROVE  Key(d) \in started' /\ Key(d) \notin calls'
    BY DEF DeadEnded, Key
  <2>3. PICK c \in inflight : d = IF c.slot[1] = w THEN [c EXCEPT !.live = FALSE] ELSE c
    BY <2>2
  <2>4. Key(d) = Key(c)
    BY <2>3 DEF Key, TypeInv, TypeOK, Dispatch
  <2>5. CASE c.slot[1] = w
    BY <2>1, <2>4, <2>5
  <2>6. CASE c.slot[1] # w
    BY <2>1, <2>3, <2>6 DEF DeadEnded
  <2> QED
    BY <2>5, <2>6
<1>4. ASSUME NEW d \in inflight, StartCall(d) PROVE DeadEnded'
  <2>1. /\ inflight' = inflight /\ Key(d) \notin started
        /\ started' = started \cup {Key(d)} /\ calls' = calls \cup {Key(d)}
    BY <1>4 DEF StartCall, vars
  <2> QED
    BY <2>1 DEF DeadEnded, Key
<1>5. ASSUME NEW d \in inflight, NEW outcome \in Outcomes, Settle(d, outcome)
      PROVE  DeadEnded'
  <2>1. /\ inflight' = inflight \ {d}
        /\ started' = started \ {Key(d)} /\ calls' = calls \ {Key(d)}
    BY <1>5 DEF Settle, Complete
  <2>2. \A c \in inflight' : c \in inflight /\ Key(c) # Key(d)
    BY <2>1, KeysDiffer
  <2> QED
    BY <2>1, <2>2 DEF DeadEnded, Key
<1>6. ASSUME NEW w \in Workloads, NEW b \in Bindings, WorkloadBind(w, b)
      PROVE  UNCHANGED << started, calls >> /\ bound \subseteq bound'
  BY <1>6 DEF WorkloadBind, Bind
<1>7. ASSUME NEW s \in Slot, NEW spec \in Specs,
             RegisterSpec(s, spec) \/ UnregisterName(s)
      PROVE  UNCHANGED << started, calls >> /\ bound \subseteq bound'
  BY <1>7 DEF RegisterSpec, UnregisterName, Register, Unregister
<1>8. ASSUME NEW s \in Slot, UnregisterName(s)
      PROVE  UNCHANGED << started, calls >> /\ bound \subseteq bound'
  BY <1>8 DEF UnregisterName, Unregister
<1>9. ASSUME NEW w \in Workloads, Route(w)
      PROVE  UNCHANGED << started, calls >> /\ bound \subseteq bound'
  BY <1>9 DEF Route, vars, engine
<1>10. ASSUME Time \/ Pass \/ SleepEnds \/ Woken
       PROVE  UNCHANGED << started, calls >> /\ bound \subseteq bound'
  BY <1>10 DEF Time, Tick, StepClock, plugin, Pass, Poll, SleepEnds, Woken, vars, engine
<1>11. ASSUME NEW d \in inflight, Unroutable(d)
       PROVE  UNCHANGED << started, calls >> /\ bound \subseteq bound'
  BY <1>11 DEF Unroutable, Complete
<1> QED
  BY <1>1, <1>2, <1>3, <1>4, <1>5, <1>6, <1>7, <1>8, <1>9, <1>10, <1>11
     DEF NextPlugin, Deliveries

(* What is left of the plugin's variables by a step that changes nothing.   *)
LEMMA PluginRests ==
  ASSUME UNCHANGED << vars, plugin >>, PluginInv PROVE PluginInv'
<1>1. TypeInv' /\ OverlapInv' /\ GrantInv' /\ CallInv' /\ [Next]_vars
  BY TypeStep, OverlapStep, GrantStep, CallStep DEF PluginInv
<1>2. DeadApart'
  BY <1>1, DeadStep DEF PluginInv
<1>3. DeadEnded'
  BY DEF PluginInv, DeadEnded, Key, vars, plugin
<1> QED
  BY <1>1, <1>2, <1>3 DEF PluginInv

LEMMA PluginStep == PluginInv /\ [NextPlugin]_<< vars, plugin >> => PluginInv'
<1> SUFFICES ASSUME PluginInv, [NextPlugin]_<< vars, plugin >> PROVE PluginInv'
  OBVIOUS
<1>1. CASE NextPlugin
  <2>1. [Next]_vars
    BY <1>1, PluginDrivesEngine
  <2>2. TypeInv' /\ OverlapInv' /\ GrantInv' /\ CallInv'
    BY <2>1, TypeStep, OverlapStep, GrantStep, CallStep DEF PluginInv
  <2>3. DeadApart'
    BY <2>1, DeadStep DEF PluginInv
  <2>4. DeadEnded'
    BY <1>1, EndedStep DEF PluginInv
  <2> QED
    BY <2>2, <2>3, <2>4 DEF PluginInv
<1> QED
  BY <1>1, PluginRests

LEMMA InitPluginHolds == InitPlugin => PluginInv
<1> SUFFICES ASSUME InitPlugin PROVE PluginInv
  OBVIOUS
<1>1. Init /\ inflight = {}
  BY DEF InitPlugin, Init
<1>2. TypeInv /\ OverlapInv /\ GrantInv /\ CallInv
  BY <1>1, InitTypes, InitOverlap, InitGrants, InitCalls
<1> QED
  BY <1>1, <1>2 DEF PluginInv, DeadApart, DeadEnded

-----------------------------------------------------------------------------
(* Handler calls of one name never overlap, whatever is bound and unbound   *)
(* while they run: a call that unbinding ended has no key in `calls', and   *)
(* of one name only one delivery lives.                                    *)
THEOREM CallsStaySingle == SpecPlugin => []CallsNeverOverlap
<1>1. PluginInv => CallsNeverOverlap
  BY DEF PluginInv, DeadEnded, OverlapInv, NoOverlap, CallsNeverOverlap
<1> QED
  BY <1>1, InitPluginHolds, PluginStep, PTL DEF SpecPlugin

-----------------------------------------------------------------------------
(***************************************************************************)
(* The timer of the loop.                                                  *)
(***************************************************************************)
TimerInv == timer \in Int /\ TimerCoversDue

(* What a poll leaves idle is neither due nor to be redelivered.            *)
LEMMA PolledIdle ==
  ASSUME TypeInv, Poll, NEW s \in Slot, Idle(s)'
  PROVE  LET e == entries'[s]
         IN  /\ e \in Entry
             /\ e.due.on = "mono" => mono < e.due.at
             /\ e.due.on = "wall" => wall < e.due.at
             /\ Pending(e) => mono < e.retry.due
<1> DEFINE e == Rescheduled(entries[s])
<1>1. /\ entries'[s] = Polled(s) /\ entries'[s] # NoEntry
      /\ busy'[s] = IF Fires(s) \/ Redelivers(s) THEN entries[s].epoch ELSE busy[s]
      /\ busy'[s] = 0
  BY DEF Poll, Idle, Held
<1>2. Held(s)
  BY <1>1, PolledSlot DEF Held
<1>3. entries[s] \in Entry /\ Shaped(entries[s]) /\ entries[s].epoch # 0
  BY <1>2, HeldEntry DEF Entry
<1>4. ~Fires(s) /\ ~Redelivers(s) /\ busy[s] = 0
  BY <1>1, <1>3
<1>5. entries'[s] = e /\ ~IsDue(e)
  BY <1>1, <1>2, <1>4 DEF Polled, Fires, Overruns, DueAtPoll
<1>6. e \in Entry /\ e.retry = entries[s].retry
  BY <1>3, RescheduledEntry DEF TypeInv, TypeOK
<1>7. Pending(e) => ~(mono >= e.retry.due)
  BY <1>2, <1>4, <1>5, <1>6 DEF Redelivers, DueAtPoll, Pending
<1> HIDE DEF e
<1>8. /\ e.due \in Due /\ e.retry.due \in Nat
      /\ mono \in Nat /\ wall \in Int
  BY <1>6 DEF Entry, Retry, TypeInv, TypeOK
<1>9. /\ e.due.on = "mono" => mono < e.due.at
      /\ e.due.on = "wall" => wall < e.due.at
  BY <1>5, <1>8 DEF IsDue, ClockOf, Due
<1>10. Pending(e) => mono < e.retry.due
  BY <1>7, <1>8
<1> QED
  BY <1>5, <1>6, <1>9, <1>10

(* The shortest of some waits. *)
LEMMA Shortest ==
  ASSUME NEW W \in SUBSET Nat, W # {}
  PROVE  LET w == CHOOSE x \in W : \A y \in W : x <= y
         IN  w \in Nat /\ \A y \in W : w <= y
<1>1. \E x \in W : \A y \in W : x <= y
  <2> DEFINE R == OpToRel(<, Nat)
  <2>1. IsWellFoundedOn(R, Nat)
    BY NatLessThanWellFounded
  <2>2. \A i, j \in Nat : i < j => <<i, j>> \in R
    BY DEF OpToRel
  <2> HIDE DEF R
  <2>3. PICK i \in W : \A j \in W : ~(<<j, i>> \in R)
    BY <2>1, WFMin
  <2>4. \A j \in W : ~(j < i)
    BY <2>2, <2>3
  <2> QED
    BY <2>4
<1> QED
  BY <1>1

(* What the loop computes its sleep from. *)
WaitsOf(s) ==
  LET e == entries[s]
  IN  /\ e.due.on = "mono" /\ mono < e.due.at => e.due.at - mono \in Waits
      /\ e.due.on = "wall" => \E x \in Waits : x <= WALL_RESYNC
      /\ Pending(e) /\ mono < e.retry.due => e.retry.due - mono \in Waits

WaitsInv == Waits \in SUBSET Nat /\ \A s \in Slot : Idle(s) => WaitsOf(s)

LEMMA WaitsAre == TypeInv => WaitsInv
<1> SUFFICES ASSUME TypeInv PROVE WaitsInv
  OBVIOUS
<1>1. mono \in Nat /\ wall \in Int /\ WALL_RESYNC \in Nat
  BY ClockAssumption DEF TypeInv, TypeOK
<1>2. ASSUME NEW s \in Slot, Idle(s)
      PROVE  /\ entries[s].due \in Due /\ entries[s].due.at \in Int
             /\ entries[s].retry.due \in Nat
  BY <1>2, HeldEntry DEF Idle, Entry, Due, Retry
<1>3. ASSUME NEW s \in Slot, Idle(s)
      PROVE  /\ DueWait(entries[s]) \in Nat
             /\ entries[s].due.on = "wall" => DueWait(entries[s]) <= WALL_RESYNC
             /\ entries[s].due.on = "mono" /\ mono < entries[s].due.at =>
                  DueWait(entries[s]) = entries[s].due.at - mono
  BY <1>1, <1>2, <1>3 DEF DueWait, UntilDue, UpTo, ClockOf, Lower
<1>4. ASSUME NEW s \in Slot, Idle(s)
      PROVE  /\ UpTo(mono, entries[s].retry.due) \in Nat
             /\ mono < entries[s].retry.due =>
                  UpTo(mono, entries[s].retry.due) = entries[s].retry.due - mono
  BY <1>1, <1>2, <1>4 DEF UpTo
<1>5. Waits \in SUBSET Nat
  BY <1>3, <1>4 DEF Waits
<1>6. ASSUME NEW s \in Slot, Idle(s), entries[s].due.on # "never"
      PROVE  DueWait(entries[s]) \in Waits
  BY <1>6 DEF Waits, Never
<1>7. ASSUME NEW s \in Slot, Idle(s), Pending(entries[s])
      PROVE  UpTo(mono, entries[s].retry.due) \in Waits
  BY <1>7 DEF Waits
<1> SUFFICES ASSUME NEW s \in Slot, Idle(s) PROVE WaitsOf(s)
  BY <1>5 DEF WaitsInv
<1>8. entries[s].due.on = "wall" => \E x \in Waits : x <= WALL_RESYNC
  BY <1>3, <1>6
<1>9. entries[s].due.on = "mono" /\ mono < entries[s].due.at
        => entries[s].due.at - mono \in Waits
  BY <1>3, <1>6
<1>10. Pending(entries[s]) /\ mono < entries[s].retry.due
        => entries[s].retry.due - mono \in Waits
  BY <1>4, <1>7
<1> QED
  BY <1>8, <1>9, <1>10 DEF WaitsOf

(* The loop wakes for the shortest wait, or MIN_SLEEP after it.             *)
SleepsUntil(W, now) ==
  IF W = {} THEN Forever
  ELSE LET wait == CHOOSE x \in W : \A y \in W : x <= y
       IN  now + (IF wait < MIN_SLEEP THEN MIN_SLEEP ELSE wait)

LEMMA SleepCovers ==
  ASSUME NEW W \in SUBSET Nat, NEW now \in Nat, MIN_SLEEP \in Nat
  PROVE  LET t == SleepsUntil(W, now)
         IN  t \in Int /\ \A x \in W : t # Forever /\ t <= now + x + MIN_SLEEP
<1> DEFINE t == SleepsUntil(W, now)
<1>1. CASE W = {}
  BY <1>1 DEF Forever, SleepsUntil
<1>2. CASE W # {}
  <2> DEFINE wait == CHOOSE x \in W : \A y \in W : x <= y
  <2>1. wait \in Nat /\ \A y \in W : wait <= y
    BY <1>2, Shortest
  <2>2. t = now + (IF wait < MIN_SLEEP THEN MIN_SLEEP ELSE wait)
    BY <1>2 DEF SleepsUntil
  <2> HIDE DEF wait
  <2>3. CASE wait < MIN_SLEEP
    <3>1. t = now + MIN_SLEEP
      BY <2>2, <2>3
    <3>2. t \in Int /\ t # Forever
      BY <3>1 DEF Forever
    <3>3. ASSUME NEW x \in W PROVE t <= now + x + MIN_SLEEP
      BY <3>1
    <3> QED
      BY <3>2, <3>3
  <2>4. CASE ~(wait < MIN_SLEEP)
    <3>1. t = now + wait
      BY <2>2, <2>4
    <3>2. t \in Int /\ t # Forever
      BY <2>1, <3>1 DEF Forever
    <3>3. ASSUME NEW x \in W PROVE t <= now + x + MIN_SLEEP
      BY <2>1, <3>1
    <3> QED
      BY <3>2, <3>3
  <2> QED
    BY <2>3, <2>4
<1> QED
  BY <1>1, <1>2

LEMMA PassCovers ==
  ASSUME TypeInv, Pass
  PROVE  timer' \in Int /\ TimerCoversDue'
<1> DEFINE W == Waits'
<1>1. /\ mono' = mono /\ wall' = wall /\ wakes' = 0 /\ wakeQueued' = FALSE
      /\ Poll
      /\ timer' = SleepsUntil(W, mono)
  BY DEF Pass, Poll, clocks, SleepsUntil
<1>2. mono \in Nat /\ MIN_SLEEP \in Nat /\ WALL_RESYNC \in Nat
  BY SleepAssumption, ClockAssumption DEF TypeInv, TypeOK
<1>3. TypeInv'
  BY <1>1, PollTypes
<1>4. /\ W \in SUBSET Nat
      /\ \A s \in Slot : Idle(s)' =>
           LET e == entries'[s]
           IN  /\ e.due.on = "mono" /\ mono < e.due.at => e.due.at - mono \in W
               /\ e.due.on = "wall" => \E x \in W : x <= WALL_RESYNC
               /\ Pending(e) /\ mono < e.retry.due => e.retry.due - mono \in W
  <2>1. WaitsInv'
    BY <1>3, WaitsAre, PTL
  <2>2. W \in SUBSET Nat
    BY <2>1 DEF WaitsInv
  <2>3. ASSUME NEW s \in Slot, Idle(s)' PROVE WaitsOf(s)'
    BY <2>1, <2>3 DEF WaitsInv
  <2>4. mono' = mono
    BY <1>1
  <2>5. ASSUME NEW s \in Slot, Idle(s)'
        PROVE  LET e == entries'[s]
               IN  /\ e.due.on = "mono" /\ mono < e.due.at => e.due.at - mono \in W
                   /\ e.due.on = "wall" => \E x \in W : x <= WALL_RESYNC
                   /\ Pending(e) /\ mono < e.retry.due => e.retry.due - mono \in W
    BY <2>3, <2>4, <2>5 DEF WaitsOf, Pending
  <2> QED
    BY <2>2, <2>5
<1> HIDE DEF W
<1>5. timer' \in Int /\ \A x \in W : timer' # Forever /\ timer' <= mono + x + MIN_SLEEP
  BY <1>1, <1>2, <1>4, SleepCovers
<1>6. ASSUME NEW s \in Slot, Idle(s)'
      PROVE  LET e == entries'[s]
                 before(t) == timer' # Forever /\ timer' <= t
             IN  /\ e.due.on = "mono" => before(e.due.at + MIN_SLEEP)
                 /\ e.due.on = "wall" => before(mono + WALL_RESYNC + MIN_SLEEP)
                 /\ Pending(e) => before(e.retry.due + MIN_SLEEP)
  <2> DEFINE e == entries'[s]
  <2>1. /\ e.due.on = "mono" => mono < e.due.at
        /\ Pending(e) => mono < e.retry.due
        /\ e.due.at \in Int /\ e.retry.due \in Nat
    BY <1>1, <1>6, <1>3, PolledIdle DEF Entry, Due, Retry
  <2>2. /\ e.due.on = "mono" => e.due.at - mono \in W
        /\ e.due.on = "wall" => \E x \in W : x <= WALL_RESYNC
        /\ Pending(e) => e.retry.due - mono \in W
    BY <1>4, <1>6, <2>1
  <2> HIDE DEF e
  <2>3. ASSUME e.due.on = "mono" PROVE timer' # Forever /\ timer' <= e.due.at + MIN_SLEEP
    <3>1. timer' # Forever /\ timer' <= mono + (e.due.at - mono) + MIN_SLEEP
      BY <1>5, <2>2, <2>3
    <3> QED
      BY <1>2, <1>5, <2>1, <3>1
  <2>4. ASSUME e.due.on = "wall"
        PROVE  timer' # Forever /\ timer' <= mono + WALL_RESYNC + MIN_SLEEP
    <3>1. PICK x \in W : x <= WALL_RESYNC
      BY <2>2, <2>4
    <3>2. x \in Nat /\ timer' # Forever /\ timer' <= mono + x + MIN_SLEEP
      BY <1>4, <1>5
    <3> QED
      BY <1>2, <1>5, <3>1, <3>2
  <2>5. ASSUME Pending(e) PROVE timer' # Forever /\ timer' <= e.retry.due + MIN_SLEEP
    <3>1. timer' # Forever /\ timer' <= mono + (e.retry.due - mono) + MIN_SLEEP
      BY <1>5, <2>2, <2>5
    <3> QED
      BY <1>2, <1>5, <2>1, <3>1
  <2> QED
    BY <2>3, <2>4, <2>5 DEF e
<1> QED
  BY <1>1, <1>5, <1>6 DEF TimerCoversDue

(* While the loop sleeps, time passes and calls start; a change of the      *)
(* schedules wakes it.                                                     *)
LEMMA TimerStep ==
  TypeInv /\ TimerInv /\ [NextPlugin]_<< vars, plugin >> => TimerInv'
<1> SUFFICES ASSUME TypeInv, TimerInv, [NextPlugin]_<< vars, plugin >>
    PROVE  TimerInv'
  OBVIOUS
<1>1. ASSUME UNCHANGED << entries, busy, loop, timer, wakeQueued, wakes >>,
             mono' \in Nat, mono <= mono'
      PROVE  TimerInv'
  <2>1. mono \in Nat /\ timer \in Int /\ timer' \in Int
          /\ WALL_RESYNC \in Nat /\ MIN_SLEEP \in Nat
    BY <1>1, SleepAssumption, ClockAssumption DEF TypeInv, TypeOK, TimerInv
  <2>2. timer <= mono + WALL_RESYNC + MIN_SLEEP
          => timer <= mono' + WALL_RESYNC + MIN_SLEEP
    <3>1. \A t \in Int, x, y, k, l \in Nat :
            t <= x + k + l /\ x <= y => t <= y + k + l
      OBVIOUS
    <3>2. mono' \in Nat /\ mono <= mono'
      BY <1>1
    <3> QED
      BY <2>1, <3>1, <3>2
  <2>3. \A s \in Slot : Idle(s)' <=> Idle(s)
    BY <1>1 DEF Idle, Held
  <2>4. TimerCoversDue'
    BY <1>1, <2>2, <2>3 DEF TimerInv, TimerCoversDue, Pending
  <2> QED
    BY <2>1, <2>4 DEF TimerInv
<1>2. ASSUME loop = "select", loop' = loop, timer' = timer, Wake PROVE TimerInv'
  <2>1. wakes = IF wakeQueued THEN 1 ELSE 0
    BY <1>2 DEF TimerInv, TimerCoversDue
  <2>2. wakes' = 1 /\ wakeQueued' = TRUE
    BY <1>2, <2>1 DEF Wake
  <2> QED
    BY <1>2, <2>2 DEF TimerInv, TimerCoversDue
<1>3. ASSUME loop' = "pass", timer' = timer PROVE TimerInv'
  BY <1>3 DEF TimerInv, TimerCoversDue
<1>4. mono \in Nat
  BY DEF TypeInv, TypeOK
<1>5. CASE Time
  <2>1. UNCHANGED << entries, busy, loop, timer, wakeQueued, wakes >>
    BY <1>5 DEF Time, Tick, StepClock, plugin, engine
  <2>2. mono' \in Nat /\ mono <= mono'
    BY <1>4, <1>5 DEF Time, Tick, StepClock
  <2> QED
    BY <1>1, <2>1, <2>2
<1>6. ASSUME NEW w \in Workloads, NEW b \in Bindings, WorkloadBind(w, b)
      PROVE  TimerInv'
  BY <1>2, <1>6 DEF WorkloadBind, Yielded
<1>7. ASSUME NEW w \in Workloads, WorkloadUnbind(w) PROVE TimerInv'
  BY <1>2, <1>7 DEF WorkloadUnbind, Yielded
<1>8. ASSUME NEW s \in Slot, NEW spec \in Specs, RegisterSpec(s, spec)
      PROVE  TimerInv'
  BY <1>2, <1>8 DEF RegisterSpec, Yielded
<1>9. ASSUME NEW s \in Slot, UnregisterName(s) PROVE TimerInv'
  BY <1>2, <1>9 DEF UnregisterName, Yielded
<1>10. ASSUME NEW w \in Workloads, Route(w) PROVE TimerInv'
  <2>1. UNCHANGED << mono, entries, busy, loop, timer, wakeQueued, wakes >>
    BY <1>10 DEF Route, vars, engine, clocks
  <2> QED
    BY <1>1, <1>4, <2>1
<1>11. CASE Pass
  BY <1>11, PassCovers DEF TimerInv
<1>12. CASE SleepEnds \/ Woken
  BY <1>3, <1>12 DEF SleepEnds, Woken
<1>13. ASSUME NEW d \in inflight, StartCall(d) PROVE TimerInv'
  <2>1. UNCHANGED << mono, entries, busy, loop, timer, wakeQueued, wakes >>
    BY <1>13 DEF StartCall, vars, engine, clocks
  <2> QED
    BY <1>1, <1>4, <2>1
<1>14. ASSUME NEW d \in inflight, Unroutable(d) PROVE TimerInv'
  BY <1>3, <1>14 DEF Unroutable
<1>15. ASSUME NEW d \in inflight, NEW outcome \in Outcomes, Settle(d, outcome)
       PROVE  TimerInv'
  BY <1>3, <1>15 DEF Settle
<1>16. CASE UNCHANGED << vars, plugin >>
  <2>1. UNCHANGED << mono, entries, busy, loop, timer, wakeQueued, wakes >>
    BY <1>16 DEF vars, engine, clocks, plugin
  <2> QED
    BY <1>1, <1>4, <2>1
<1> QED
  BY <1>5, <1>6, <1>7, <1>8, <1>9, <1>10, <1>11, <1>12, <1>13, <1>14, <1>15, <1>16
     DEF NextPlugin, Deliveries

(* The loop sleeps past nothing that an idle schedule waits for, and no     *)
(* wake is lost or doubled: the timer is set from what the poll before it  *)
(* left, and whatever changes that queues a wake first.                    *)
THEOREM TimerIsNeverLate == SpecPlugin => []TimerCoversDue
<1>1. InitPlugin => TimerInv
  BY DEF InitPlugin, TimerInv, TimerCoversDue, Forever
<1>2. PluginInv => TypeInv
  BY DEF PluginInv
<1>3. TimerInv => TimerCoversDue
  BY DEF TimerInv
<1> QED
  BY <1>1, <1>2, <1>3, InitPluginHolds, PluginStep, TimerStep, PTL DEF SpecPlugin

-----------------------------------------------------------------------------
(***************************************************************************)
(* Calendars: the fields of a crontab select what the parts of a calendar  *)
(* mean, and the 28 years that are probed stand for the century.           *)
(***************************************************************************)

(* A number is a multiple of another if it leaves nothing.                 *)
LEMMA Multiples == \A a \in Nat, s \in Nat \ {0} : a % s = 0 <=> \E k \in 0..a : a = k * s
<1> SUFFICES ASSUME NEW a \in Nat, NEW s \in Nat \ {0}
             PROVE  a % s = 0 <=> \E k \in 0..a : a = k * s
  OBVIOUS
<1>1. a \div s \in Nat /\ a % s \in 0..s - 1 /\ a = s * (a \div s) + (a % s)
  OBVIOUS
<1>2. ASSUME a % s = 0 PROVE \E k \in 0..a : a = k * s
  <2>1. a = (a \div s) * s
    BY <1>1, <1>2
  <2>2. \A q \in Nat : q <= q * s
    OBVIOUS
  <2>3. a \div s \in 0..a
    BY <1>1, <2>1, <2>2
  <2> QED
    BY <2>1, <2>3
<1>3. ASSUME NEW k \in 0..a, a = k * s PROVE a % s = 0
  <2> DEFINE q == a \div s
             r == a % s
  <2>1. q \in Nat /\ r \in 0..s - 1 /\ k * s = s * q + r
    BY <1>1, <1>3
  <2> HIDE DEF q, r
  <2>2. (k - q) * s = r
    BY <2>1
  <2>3. \A i \in Int : i >= 1 => i * s >= s
    OBVIOUS
  <2>4. \A i \in Int : i <= -1 => i * s <= -s
    OBVIOUS
  <2>5. k - q \in Int /\ ~(k - q >= 1) /\ ~(k - q <= -1)
    BY <2>1, <2>2, <2>3, <2>4
  <2>6. k - q = 0
    BY <2>5
  <2>7. r = 0
    BY <2>2, <2>6
  <2> QED
    BY <2>7 DEF r
<1> QED
  BY <1>2, <1>3

PartKinds == {"any", "at", "range", "every", "stepped"}

PartFits(p, min, max) ==
  CASE p.is = "any"   -> TRUE
    [] p.is = "at"    -> p.start \in min..max
    [] p.is = "every" -> p.step > 0
    [] p.is = "range" -> min <= p.start /\ p.start <= p.end /\ p.end <= max
    [] OTHER -> min <= p.start /\ p.start <= p.end /\ p.end <= max /\ p.step > 0

PartTakes(p, v, min) ==
  CASE p.is = "any"     -> TRUE
    [] p.is = "at"      -> v = p.start
    [] p.is = "range"   -> p.start <= v /\ v <= p.end
    [] p.is = "every"   -> (v - min) % p.step = 0
    [] p.is = "stepped" -> v \in {p.start + k * p.step : k \in 0..59} /\ v <= p.end

(* What a part of a field takes, and when it has a place there.            *)
LEMMA PartIs ==
  ASSUME NEW p \in Parts, NEW min \in Nat, NEW max \in Nat, min <= max, max <= min + 59
  PROVE  /\ ~Calendar!Invalid(p, min, max) <=> PartFits(p, min, max)
         /\ PartFits(p, min, max) =>
              /\ Calendar!Selected(p, min, max) # {}
              /\ \A v \in min..max : v \in Calendar!Selected(p, min, max) <=> PartTakes(p, v, min)
<1> DEFINE st == Calendar!Start(p, min)
           en == Calendar!End(p, max)
           sp == Calendar!Step(p)
<1>0. p.is \in PartKinds /\ p.start \in Nat /\ p.end \in Nat /\ p.step \in Nat
  BY DEF Parts, PartKinds
<1>1. /\ p.is = "any" => st = min /\ en = max /\ sp = 1
      /\ p.is = "at" => st = p.start /\ en = p.start /\ sp = 1
      /\ p.is = "range" => st = p.start /\ en = p.end /\ sp = 1
      /\ p.is = "every" => st = min /\ en = max /\ sp = p.step
      /\ p.is = "stepped" => st = p.start /\ en = p.end /\ sp = p.step
  BY <1>0 DEF Calendar!Start, Calendar!End, Calendar!Step, PartKinds
<1>2. st \in Nat /\ en \in Nat /\ sp \in Nat
  BY <1>0, <1>1 DEF PartKinds
<1>3. Calendar!Invalid(p, min, max) <=> st < min \/ en > max \/ st > en \/ sp = 0
  BY DEF Calendar!Invalid
<1>4. \A v : v \in Calendar!Selected(p, min, max) <=> v \in st..en /\ (v - st) % sp = 0
  BY DEF Calendar!Selected
<1> HIDE DEF st, en, sp
<1>5. ~Calendar!Invalid(p, min, max) <=> PartFits(p, min, max)
  BY <1>0, <1>1, <1>2, <1>3 DEF PartFits, PartKinds
<1>6. ASSUME PartFits(p, min, max) PROVE Calendar!Selected(p, min, max) # {}
  <2>1. sp \in Nat \ {0} /\ st <= en
    BY <1>2, <1>3, <1>5, <1>6
  <2>2. st \in st..en /\ st - st = 0 /\ 0 % sp = 0
    BY <1>2, <2>1
  <2> QED
    BY <1>4, <2>2
<1>7. ASSUME PartFits(p, min, max), NEW v \in min..max
      PROVE  v \in Calendar!Selected(p, min, max) <=> PartTakes(p, v, min)
  <2>1. sp \in Nat \ {0} /\ min <= st /\ st <= en /\ en <= max /\ v \in Nat
    BY <1>2, <1>3, <1>5, <1>7
  <2>2. \A i \in Int : i % 1 = 0
    OBVIOUS
  <2>3. CASE p.is = "any"
    BY <1>1, <1>4, <2>1, <2>2, <2>3 DEF PartTakes
  <2>4. CASE p.is = "at"
    BY <1>0, <1>1, <1>4, <2>1, <2>2, <2>4 DEF PartTakes
  <2>5. CASE p.is = "range"
    BY <1>0, <1>1, <1>4, <2>1, <2>2, <2>5 DEF PartTakes
  <2>6. CASE p.is = "every"
    BY <1>0, <1>1, <1>4, <2>1, <2>6 DEF PartTakes
  <2>7. CASE p.is = "stepped"
    <3>1. PartTakes(p, v, min) <=> (\E k \in 0..59 : v = st + k * sp) /\ v <= en
      BY <1>1, <2>7 DEF PartTakes
    <3>2. ASSUME v \in st..en, (v - st) % sp = 0
          PROVE  \E k \in 0..59 : v = st + k * sp
      <4>0. st \in Nat /\ en \in Nat
        BY <1>2
      <4>1. v - st \in Nat /\ v - st <= 59
        BY <2>1, <3>2, <4>0
      <4>2. PICK k \in 0..(v - st) : v - st = k * sp
        BY <2>1, <3>2, <4>1, Multiples
      <4> DEFINE z == k * sp
      <4>3. k \in 0..59 /\ z \in Nat
        BY <2>1, <4>1, <4>2
      <4> HIDE DEF z
      <4>4. v - st = z
        BY <4>2 DEF z
      <4>5. v = st + z
        BY <2>1, <4>0, <4>3, <4>4
      <4> QED
        BY <4>3, <4>5 DEF z
    <3>3. ASSUME NEW k \in 0..59, v = st + k * sp, v <= en
          PROVE  v \in st..en /\ (v - st) % sp = 0
      <4>1. k * sp \in Nat /\ k <= k * sp
        BY <2>1
      <4> DEFINE z == k * sp
      <4>2. z \in Nat /\ k <= z /\ v = st + z /\ st \in Nat /\ en \in Nat
        BY <1>2, <3>3, <4>1
      <4> HIDE DEF z
      <4>3. v - st = z /\ v - st \in Nat /\ k \in 0..(v - st) /\ v \in st..en
        BY <3>3, <4>2
      <4>4. v - st = k * sp
        BY <4>3 DEF z
      <4>5. (v - st) % sp = 0
        BY <2>1, <4>3, <4>4, Multiples
      <4> QED
        BY <4>3, <4>5
    <3> QED
      BY <1>4, <3>1, <3>2, <3>3
  <2> QED
    BY <1>0, <2>3, <2>4, <2>5, <2>6, <2>7 DEF PartKinds
<1> QED
  BY <1>5, <1>6, <1>7

(* A field is refused unless its parts fit, and admits what they select.   *)
LEMMA SelectorIs ==
  ASSUME NEW parts \in Seq(Parts), NEW min \in Nat, NEW max \in Nat, min <= max, max <= min + 59
  PROVE  /\ Calendar!Selector(parts, min, max) # Calendar!Refused
              <=> Calendar!WellFormed(parts, min, max)
         /\ Calendar!WellFormed(parts, min, max) =>
              /\ Calendar!Selector(parts, min, max).any
                   <=> \E p \in Calendar!Range(parts) : p.is = "any"
              /\ \A v \in min..max :
                   Calendar!Admits(Calendar!Selector(parts, min, max), v)
                     <=> Calendar!Selects(parts, v, min)
<1> DEFINE R == Calendar!Range(parts)
           f == Calendar!Selector(parts, min, max)
           U == UNION {Calendar!Selected(p, min, max) : p \in R}
           all == \A p \in R : PartFits(p, min, max)
           wild == \E p \in R : p.is = "any"
<1>1. R \subseteq Parts /\ (R = {} <=> parts = << >>)
  BY DEF Calendar!Range
<1>2. Calendar!WellFormed(parts, min, max) <=> parts # << >> /\ all
  BY DEF Calendar!WellFormed, PartFits
<1>3. \A p \in R : ~Calendar!Invalid(p, min, max) <=> PartFits(p, min, max)
  BY <1>1, PartIs
<1>4. \A p \in R : PartFits(p, min, max) =>
              /\ Calendar!Selected(p, min, max) # {}
              /\ \A v \in min..max : v \in Calendar!Selected(p, min, max) <=> PartTakes(p, v, min)
  BY <1>1, PartIs
<1>5. \A v : Calendar!Selects(parts, v, min) <=> \E p \in R : PartTakes(p, v, min)
  BY DEF Calendar!Selects, PartTakes
<1>6. f = IF ~all THEN Calendar!Refused ELSE IF wild THEN Calendar!Star ELSE Calendar!Named(U)
  BY <1>3 DEF Calendar!Selector
<1>7. /\ Calendar!Refused = [any |-> FALSE, of |-> {}] /\ Calendar!Star = [any |-> TRUE, of |-> {}]
      /\ Calendar!Named(U) = [any |-> FALSE, of |-> U]
  BY DEF Calendar!Refused, Calendar!Star, Calendar!Named
<1>8. \A v : Calendar!Admits(f, v) <=> f.any \/ v \in f.of
  BY DEF Calendar!Admits
<1>9. all /\ R # {} => U # {}
  BY <1>4
<1>10. wild => R # {}
  OBVIOUS
<1>11. \A v \in min..max : all => (v \in U <=> \E p \in R : PartTakes(p, v, min))
  BY <1>4
<1>12. \A v : \A p \in R : p.is = "any" => PartTakes(p, v, min)
  BY DEF PartTakes
<1> HIDE DEF R, U, f, all, wild
<1>13. f # Calendar!Refused <=> all /\ R # {}
  <2>1. CASE ~all
    BY <1>6, <2>1
  <2>2. CASE all /\ wild
    BY <1>6, <1>7, <1>10, <2>2
  <2>3. CASE all /\ ~wild
    <3>1. f = [any |-> FALSE, of |-> U]
      BY <1>6, <1>7, <2>3
    <3>2. U = {} <=> R = {}
      BY <1>9, <2>3 DEF U
    <3> QED
      BY <1>7, <2>3, <3>1, <3>2
  <2> QED
    BY <2>1, <2>2, <2>3
<1>14. ASSUME all PROVE f.any <=> wild
  BY <1>6, <1>7, <1>14
<1>15. ASSUME all, NEW v \in min..max
       PROVE  Calendar!Admits(f, v) <=> \E p \in R : PartTakes(p, v, min)
  <2>1. CASE wild
    <3>1. f.any
      BY <1>14, <1>15, <2>1
    <3>2. \E p \in R : PartTakes(p, v, min)
      BY <1>12, <2>1 DEF wild
    <3> QED
      BY <1>8, <3>1, <3>2
  <2>2. CASE ~wild
    <3>1. f.any = FALSE /\ f.of = U
      BY <1>6, <1>7, <1>15, <2>2
    <3> QED
      BY <1>8, <1>11, <1>15, <3>1
  <2> QED
    BY <2>1, <2>2
<1>16. /\ f # Calendar!Refused <=> Calendar!WellFormed(parts, min, max)
       /\ Calendar!WellFormed(parts, min, max) =>
            /\ f.any <=> wild
            /\ \A v \in min..max : Calendar!Admits(f, v) <=> Calendar!Selects(parts, v, min)
  BY <1>1, <1>2, <1>5, <1>13, <1>14, <1>15
<1> QED
  BY <1>16 DEF f, wild, R

(* A set is a set of one or none.                                          *)
LEMMA OptionIs ==
  ASSUME NEW S, NEW some, Option(some, S)
  PROVE  \/ some = {}
         \/ /\ Calendar!Value(some) \in S /\ Deployed!Value(some) = Calendar!Value(some)
            /\ some = {Calendar!Value(some)}
<1> SUFFICES ASSUME some # {}
             PROVE  /\ Calendar!Value(some) \in S /\ Deployed!Value(some) = Calendar!Value(some)
                    /\ some = {Calendar!Value(some)}
  OBVIOUS
<1>1. PICK x \in some : x \in S /\ \A y \in some : y = x
  BY DEF Option
<1>2. some = {x}
  BY <1>1
<1>3. Calendar!Value(some) = x /\ Deployed!Value(some) = x
  BY <1>2 DEF Calendar!Value, Deployed!Value
<1> QED
  BY <1>1, <1>2, <1>3

(* The fields of the crontab of a calendar.                                *)
LEMMA FieldsAre ==
  \A c : LET e == Calendar!Fields(c) IN
    /\ DOMAIN e = {"minutes", "hours", "days", "months", "weekdays"}
    /\ e.minutes = Calendar!Selector(c.minutes, 0, 59)
    /\ e.hours = Calendar!Selector(c.hours, 0, 23)
    /\ c.days = {} => e.days = Calendar!Star
    /\ c.days # {} => e.days = Calendar!Selector(Calendar!Value(c.days), 1, 31)
    /\ c.months = {} => e.months = Calendar!Star
    /\ c.months # {} => e.months = Calendar!Named(Calendar!Months(Calendar!Value(c.months)))
    /\ c.weekdays = {} => e.weekdays = Calendar!Star
    /\ c.weekdays # {} =>
         e.weekdays = IF Calendar!Cardinality(Calendar!Weekdays(Calendar!Value(c.weekdays))) = 7
                      THEN Calendar!Star
                      ELSE Calendar!Named(Calendar!Weekdays(Calendar!Value(c.weekdays)))
  BY DEF Calendar!Fields, Calendar!Optional, Calendar!None

(* The count of a set is the same in CronCalendar.                         *)
LEMMA CalendarCounts == \A S : Calendar!Cardinality(S) = Cardinality(S)
  BY DEF Calendar!Cardinality, Cardinality

(* The flags of a week as numbers.                                         *)
LEMMA WeekdaysAre ==
  ASSUME NEW flags \in SUBSET Calendar!Range(Calendar!Weekday)
  PROVE  /\ Calendar!Weekdays(flags) = {} <=> flags = {}
         /\ Calendar!Cardinality(Calendar!Weekdays(flags)) = 7
              <=> Calendar!Range(Calendar!Weekday) \subseteq flags
<1> DEFINE W == Calendar!Weekday
           N == Calendar!Weekdays(flags)
<1>1. DOMAIN W = 1..7
  BY DEF Calendar!Weekday
<1>2. \A x : x \in Calendar!Range(W) <=> \E n \in 0..6 : x = W[n + 1]
  <2>1. \A n \in 0..6 : n + 1 \in 1..7
    OBVIOUS
  <2>2. \A k \in 1..7 : k - 1 \in 0..6 /\ (k - 1) + 1 = k
    OBVIOUS
  <2> HIDE DEF W
  <2> QED
    BY <1>1, <2>1, <2>2 DEF Calendar!Range
<1>3. \A n : n \in N <=> n \in 0..6 /\ W[n + 1] \in flags
  BY DEF Calendar!Weekdays
<1> HIDE DEF W, N
<1>4. N = {} <=> flags = {}
  BY <1>2, <1>3 DEF W
<1>5. N = 0..6 <=> Calendar!Range(W) \subseteq flags
  BY <1>2, <1>3
<1>6. IsFiniteSet(0..6) /\ Cardinality(0..6) = 7
  <2>1. \A n \in Nat : IsFiniteSet(0..n) /\ Cardinality(0..n) = n + 1
    BY FS_Interval
  <2>2. 6 \in Nat /\ 6 + 1 = 7
    OBVIOUS
  <2> QED
    BY <2>1, <2>2
<1>7. N \subseteq 0..6
  BY <1>3
<1>8. N # 0..6 => Cardinality(N) < 7
  <2>1. N \in SUBSET (0..6)
    BY <1>7
  <2>2. /\ IsFiniteSet(N) /\ Cardinality(N) <= Cardinality(0..6)
        /\ Cardinality(0..6) = Cardinality(N) => 0..6 = N
    BY <1>6, <2>1, FS_Subset
  <2>3. Cardinality(N) \in Nat
    BY <2>2, FS_CardinalityType
  <2> QED
    BY <1>6, <2>2, <2>3
<1>9. Cardinality(N) = 7 <=> N = 0..6
  <2>1. N # 0..6 => Cardinality(N) # 7
    BY <1>6, <1>7, <1>8, FS_Subset, FS_CardinalityType
  <2> QED
    BY <1>6, <2>1
<1> QED
  BY <1>4, <1>5, <1>9, CalendarCounts DEF W, N

(* The names of the months as numbers.                                     *)
LEMMA MonthsAre ==
  ASSUME NEW flags \in SUBSET Calendar!Range(Calendar!Month)
  PROVE  Calendar!Months(flags) = {} <=> flags = {}
<1> DEFINE M == Calendar!Month
<1>1. DOMAIN M = 1..12
  BY DEF Calendar!Month
<1>2. \A x : x \in Calendar!Range(M) <=> \E n \in 1..12 : x = M[n]
  <2> HIDE DEF M
  <2> QED
    BY <1>1 DEF Calendar!Range
<1>3. \A n : n \in Calendar!Months(flags) <=> n \in 1..12 /\ M[n] \in flags
  BY DEF Calendar!Months
<1> HIDE DEF M
<1> QED
  BY <1>2, <1>3 DEF M

(* A field that has been named is refused if it names nothing.             *)
LEMMA NamedIs ==
  /\ \A S : Calendar!Named(S) # Calendar!Refused <=> S # {}
  /\ \A S : Calendar!Named(S).any = FALSE /\ Calendar!Named(S).of = S
  /\ Calendar!Star # Calendar!Refused /\ Calendar!Star.any = TRUE
  BY DEF Calendar!Named, Calendar!Refused, Calendar!Star

(* What a calendar of the interface is.                                    *)
LEMMA CalendarsAre ==
  ASSUME NEW c \in CalendarsAsked
  PROVE  /\ c.minutes \in Seq(Parts) /\ c.hours \in Seq(Parts)
         /\ c.days # {} => /\ Calendar!Value(c.days) \in Seq(Parts)
                           /\ c.days = {Calendar!Value(c.days)}
         /\ c.weekdays # {} => /\ Calendar!Value(c.weekdays) \in SUBSET Calendar!Range(Calendar!Weekday)
                               /\ c.weekdays = {Calendar!Value(c.weekdays)}
         /\ c.months # {} => /\ Calendar!Value(c.months) \in SUBSET Calendar!Range(Calendar!Month)
                             /\ c.months = {Calendar!Value(c.months)}
<1>1. /\ c.minutes \in Seq(Parts) /\ c.hours \in Seq(Parts)
      /\ Option(c.days, Seq(Parts))
      /\ Option(c.weekdays, SUBSET Calendar!Range(Calendar!Weekday))
      /\ Option(c.months, SUBSET Calendar!Range(Calendar!Month))
  BY CalendarsAssumption
<1>2. c.days # {} => /\ Calendar!Value(c.days) \in Seq(Parts)
                     /\ c.days = {Calendar!Value(c.days)}
  BY <1>1, OptionIs
<1>3. c.weekdays # {} => /\ Calendar!Value(c.weekdays) \in SUBSET Calendar!Range(Calendar!Weekday)
                         /\ c.weekdays = {Calendar!Value(c.weekdays)}
  BY <1>1, OptionIs
<1>4. c.months # {} => /\ Calendar!Value(c.months) \in SUBSET Calendar!Range(Calendar!Month)
                       /\ c.months = {Calendar!Value(c.months)}
  BY <1>1, OptionIs
<1> QED
  BY <1>1, <1>2, <1>3, <1>4

(* The fields of a calendar are well formed.                               *)
FieldsFit(c) ==
  /\ Calendar!WellFormed(c.minutes, 0, 59) /\ Calendar!WellFormed(c.hours, 0, 23)
  /\ \A parts \in c.days : Calendar!WellFormed(parts, 1, 31)
  /\ {} \notin c.weekdays /\ {} \notin c.months

(* A crontab has all its fields if they are well formed.                   *)
LEMMA ParsesIs ==
  ASSUME NEW c \in CalendarsAsked
  PROVE  Calendar!ExpressionParses(Calendar!Fields(c)) <=> FieldsFit(c)
<1> DEFINE e == Calendar!Fields(c)
<1>1. Calendar!ExpressionParses(e) <=>
        /\ e.minutes # Calendar!Refused /\ e.hours # Calendar!Refused /\ e.days # Calendar!Refused
        /\ e.months # Calendar!Refused /\ e.weekdays # Calendar!Refused
  <2>1. DOMAIN e = {"minutes", "hours", "days", "months", "weekdays"}
    BY FieldsAre
  <2> HIDE DEF e
  <2> QED
    BY <2>1 DEF Calendar!ExpressionParses
<1>2. e.minutes # Calendar!Refused <=> Calendar!WellFormed(c.minutes, 0, 59)
  BY FieldsAre, CalendarsAre, SelectorIs
<1>3. e.hours # Calendar!Refused <=> Calendar!WellFormed(c.hours, 0, 23)
  BY FieldsAre, CalendarsAre, SelectorIs
<1>4. e.days # Calendar!Refused <=> \A parts \in c.days : Calendar!WellFormed(parts, 1, 31)
  <2>1. CASE c.days = {}
    BY <2>1, FieldsAre, NamedIs
  <2>2. CASE c.days # {}
    <3>1. e.days = Calendar!Selector(Calendar!Value(c.days), 1, 31)
      BY <2>2, FieldsAre
    <3>2. Calendar!Value(c.days) \in Seq(Parts) /\ c.days = {Calendar!Value(c.days)}
      BY <2>2, CalendarsAre
    <3> QED
      BY <3>1, <3>2, SelectorIs
  <2> QED
    BY <2>1, <2>2
<1>5. e.months # Calendar!Refused <=> {} \notin c.months
  <2>1. CASE c.months = {}
    BY <2>1, FieldsAre, NamedIs
  <2>2. CASE c.months # {}
    <3> DEFINE flags == Calendar!Value(c.months)
    <3>1. e.months = Calendar!Named(Calendar!Months(flags))
      BY <2>2, FieldsAre
    <3>2. flags \in SUBSET Calendar!Range(Calendar!Month) /\ c.months = {flags}
      BY <2>2, CalendarsAre
    <3> HIDE DEF flags, e
    <3>3. Calendar!Months(flags) = {} <=> flags = {}
      BY <3>2, MonthsAre
    <3> QED
      BY <3>1, <3>2, <3>3, NamedIs
  <2> QED
    BY <2>1, <2>2
<1>6. e.weekdays # Calendar!Refused <=> {} \notin c.weekdays
  <2>1. CASE c.weekdays = {}
    BY <2>1, FieldsAre, NamedIs
  <2>2. CASE c.weekdays # {}
    <3> DEFINE flags == Calendar!Value(c.weekdays)
               full == Calendar!Cardinality(Calendar!Weekdays(flags)) = 7
    <3>1. e.weekdays = IF full THEN Calendar!Star ELSE Calendar!Named(Calendar!Weekdays(flags))
      BY <2>2, FieldsAre
    <3>2. flags \in SUBSET Calendar!Range(Calendar!Weekday) /\ c.weekdays = {flags}
      BY <2>2, CalendarsAre
    <3> HIDE DEF flags
    <3>3. /\ Calendar!Weekdays(flags) = {} <=> flags = {}
          /\ full <=> Calendar!Range(Calendar!Weekday) \subseteq flags
      BY <3>2, WeekdaysAre
    <3>4. Calendar!Range(Calendar!Weekday) # {}
      BY DEF Calendar!Range, Calendar!Weekday
    <3> HIDE DEF full, e
    <3> QED
      BY <3>1, <3>2, <3>3, <3>4, NamedIs
  <2> QED
    BY <2>1, <2>2
<1> QED
  BY <1>1, <1>2, <1>3, <1>4, <1>5, <1>6 DEF FieldsFit

(* The days of a month as a field.                                         *)
LEMMA DaySelector ==
  ASSUME NEW parts \in Seq(Parts), Calendar!WellFormed(parts, 1, 31), NEW d \in 1..31
  PROVE  /\ Calendar!Selector(parts, 1, 31).any <=> \E p \in Calendar!Range(parts) : p.is = "any"
         /\ Calendar!Admits(Calendar!Selector(parts, 1, 31), d) <=> Calendar!Selects(parts, d, 1)
<1> DEFINE f == Calendar!Selector(parts, 1, 31)
<1>1. 1 \in Nat /\ 31 \in Nat /\ 1 <= 31 /\ 31 <= 1 + 59
  OBVIOUS
<1>2. /\ f.any <=> \E p \in Calendar!Range(parts) : p.is = "any"
      /\ \A v \in 1..31 : Calendar!Admits(f, v) <=> Calendar!Selects(parts, v, 1)
  BY <1>1, SelectorIs
<1>3. f.any <=> \E p \in Calendar!Range(parts) : p.is = "any"
  BY <1>2
<1>4. Calendar!Admits(f, d) <=> Calendar!Selects(parts, d, 1)
  BY <1>2
<1> HIDE DEF f
<1> QED
  BY <1>3, <1>4 DEF f

(* A day matches the crontab of a calendar if the calendar means it.       *)
LEMMA DaysAreMeant ==
  ASSUME NEW c \in CalendarsAsked, FieldsFit(c),
         NEW m \in 1..12, NEW d \in 1..31, NEW w \in 0..6
  PROVE  /\ Calendar!Admits(Calendar!Fields(c).months, m) <=> Calendar!MeantMonth(c, m)
         /\ Calendar!DayFieldsMatch(Calendar!Fields(c), m, d, w) <=> Calendar!Meant(c, m, d, w)
<1> DEFINE e == Calendar!Fields(c)
           onDay == Calendar!Selects(Calendar!Value(c.days), d, 1)
           onWeekday == Calendar!Weekday[w + 1] \in Calendar!Value(c.weekdays)
<1>1. Calendar!Admits(e.months, m) <=> Calendar!MeantMonth(c, m)
  <2>1. CASE c.months = {}
    BY <2>1, FieldsAre, NamedIs DEF Calendar!Admits, Calendar!MeantMonth, Calendar!None
  <2>2. CASE c.months # {}
    <3>1. e.months = Calendar!Named(Calendar!Months(Calendar!Value(c.months)))
      BY <2>2, FieldsAre
    <3>2. m \in Calendar!Months(Calendar!Value(c.months))
             <=> Calendar!Month[m] \in Calendar!Value(c.months)
      BY DEF Calendar!Months
    <3> HIDE DEF e
    <3> QED
      BY <2>2, <3>1, <3>2, NamedIs DEF Calendar!Admits, Calendar!MeantMonth, Calendar!None
  <2> QED
    BY <2>1, <2>2
<1>2. /\ e.days.any <=> Calendar!AnyDay(c)
      /\ ~Calendar!AnyDay(c) => (Calendar!Admits(e.days, d) <=> onDay)
  <2>1. CASE c.days = {}
    BY <2>1, FieldsAre, NamedIs DEF Calendar!AnyDay, Calendar!None
  <2>2. CASE c.days # {}
    <3> DEFINE parts == Calendar!Value(c.days)
    <3>1. e.days = Calendar!Selector(parts, 1, 31)
      BY <2>2, FieldsAre
    <3>2. parts \in Seq(Parts) /\ c.days = {parts}
      BY <2>2, CalendarsAre
    <3>3. Calendar!WellFormed(parts, 1, 31)
      BY <3>2 DEF FieldsFit
    <3> HIDE DEF parts
    <3>4. /\ Calendar!Selector(parts, 1, 31).any <=> \E p \in Calendar!Range(parts) : p.is = "any"
          /\ Calendar!Admits(Calendar!Selector(parts, 1, 31), d) <=> Calendar!Selects(parts, d, 1)
      BY <3>2, <3>3, DaySelector
    <3>5. Calendar!AnyDay(c) <=> \E p \in Calendar!Range(parts) : p.is = "any"
      BY <2>2 DEF Calendar!AnyDay, Calendar!None, parts
    <3> HIDE DEF e
    <3> QED
      BY <3>1, <3>4, <3>5 DEF parts
  <2> QED
    BY <2>1, <2>2
<1>3. /\ e.weekdays.any <=> Calendar!AnyWeekday(c)
      /\ ~Calendar!AnyWeekday(c) => (Calendar!Admits(e.weekdays, w) <=> onWeekday)
  <2>1. CASE c.weekdays = {}
    BY <2>1, FieldsAre, NamedIs DEF Calendar!AnyWeekday, Calendar!None
  <2>2. CASE c.weekdays # {}
    <3> DEFINE flags == Calendar!Value(c.weekdays)
               full == Calendar!Cardinality(Calendar!Weekdays(flags)) = 7
    <3>1. e.weekdays = IF full THEN Calendar!Star ELSE Calendar!Named(Calendar!Weekdays(flags))
      BY <2>2, FieldsAre
    <3>2. flags \in SUBSET Calendar!Range(Calendar!Weekday) /\ c.weekdays = {flags}
      BY <2>2, CalendarsAre
    <3>3. full <=> Calendar!Range(Calendar!Weekday) \subseteq flags
      BY <3>2, WeekdaysAre
    <3>4. Calendar!AnyWeekday(c) <=> Calendar!Range(Calendar!Weekday) \subseteq flags
      BY <2>2 DEF Calendar!AnyWeekday, Calendar!None
    <3>5. w \in Calendar!Weekdays(flags) <=> onWeekday
      BY DEF Calendar!Weekdays
    <3> HIDE DEF flags, full, e, onWeekday
    <3> QED
      BY <3>1, <3>3, <3>4, <3>5, NamedIs DEF Calendar!Admits
  <2> QED
    BY <2>1, <2>2
<1>4. Calendar!Admits(e.days, d) <=> e.days.any \/ d \in e.days.of
  BY DEF Calendar!Admits
<1>5. Calendar!Admits(e.weekdays, w) <=> e.weekdays.any \/ w \in e.weekdays.of
  BY DEF Calendar!Admits
<1>6. Calendar!DayFieldsMatch(e, m, d, w) <=>
        /\ Calendar!Admits(e.months, m)
        /\ IF e.days.any \/ e.weekdays.any
           THEN Calendar!Admits(e.days, d) /\ Calendar!Admits(e.weekdays, w)
           ELSE Calendar!Admits(e.days, d) \/ Calendar!Admits(e.weekdays, w)
  BY DEF Calendar!DayFieldsMatch
<1>7. Calendar!Meant(c, m, d, w) <=>
        /\ Calendar!MeantMonth(c, m)
        /\ \/ Calendar!AnyDay(c) /\ Calendar!AnyWeekday(c)
           \/ ~Calendar!AnyDay(c) /\ onDay
           \/ ~Calendar!AnyWeekday(c) /\ onWeekday
  BY DEF Calendar!Meant
<1> HIDE DEF e, onDay, onWeekday
<1>8. Calendar!DayFieldsMatch(e, m, d, w) <=> Calendar!Meant(c, m, d, w)
  BY <1>1, <1>2, <1>3, <1>4, <1>5, <1>6, <1>7
<1> QED
  BY <1>1, <1>8 DEF e

(* The days of 28 years of this century repeat.                            *)
LEMMA YearsRepeat ==
  ASSUME NEW y \in 2028..2099, NEW m \in 1..12
  PROVE  /\ Calendar!DaysIn(y - 28, m) = Calendar!DaysIn(y, m)
         /\ \A d \in 1..31 : Calendar!WeekdayOf(Calendar!DayOf(y - 28, m, d))
                             = Calendar!WeekdayOf(Calendar!DayOf(y, m, d))
<1>1. Calendar!IsLeap(y - 28) <=> Calendar!IsLeap(y)
  BY DEF Calendar!IsLeap
<1>2. Calendar!Leaps(y - 1) = Calendar!Leaps((y - 28) - 1) + 7
  BY DEF Calendar!Leaps
<1>3. Calendar!Leaps(y - 1) \in Int /\ Calendar!Leaps((y - 28) - 1) \in Int /\ Calendar!Leaps(1969) \in Int
  BY DEF Calendar!Leaps
<1>4. Calendar!Before[m] \in Int
  BY DEF Calendar!Before
<1>5. ASSUME NEW d \in 1..31
      PROVE  Calendar!WeekdayOf(Calendar!DayOf(y - 28, m, d))
             = Calendar!WeekdayOf(Calendar!DayOf(y, m, d))
  <2> DEFINE leap == IF m > 2 /\ Calendar!IsLeap(y) THEN 1 ELSE 0
             day == Calendar!DayOf(y, m, d)
             before == Calendar!DayOf(y - 28, m, d)
  <2>1. leap \in Int
    OBVIOUS
  <2>2. day = 365 * (y - 1970) + Calendar!Leaps(y - 1) - Calendar!Leaps(1969)
                + Calendar!Before[m] + leap + d - 1
    BY DEF Calendar!DayOf
  <2>3. before = 365 * ((y - 28) - 1970) + Calendar!Leaps((y - 28) - 1) - Calendar!Leaps(1969)
                   + Calendar!Before[m] + leap + d - 1
    BY <1>1 DEF Calendar!DayOf
  <2> HIDE DEF leap, day, before
  <2>4. day \in Int /\ before \in Int /\ day = before + 7 * 1461
    BY <1>2, <1>3, <1>4, <2>1, <2>2, <2>3
  <2>5. (day + 4) % 7 = (before + 4) % 7
    BY <2>4
  <2> QED
    BY <2>5 DEF Calendar!WeekdayOf, day, before
<1>6. Calendar!DaysIn(y - 28, m) = Calendar!DaysIn(y, m)
  BY <1>1 DEF Calendar!DaysIn
<1> QED
  BY <1>5, <1>6

Years == 2000..2099
Probed == 2000..2027

(* A day of the year is meant.                                             *)
MeantIn(c, y) ==
  \E m \in 1..12 : /\ Calendar!MeantMonth(c, m)
                   /\ \E d \in 1..Calendar!DaysIn(y, m) :
                        Calendar!Meant(c, m, d, Calendar!WeekdayOf(Calendar!DayOf(y, m, d)))

(* The dates that CronCalendar means.                                      *)
LEMMA DatesAre ==
  ASSUME NEW y \in Years, NEW m \in 1..12
  PROVE  /\ Calendar!DaysIn(y, m) \in 0..31
         /\ \A d \in 1..31 : Calendar!WeekdayOf(Calendar!DayOf(y, m, d)) \in 0..6
<1>1. Calendar!DaysIn(y, m) \in 0..31
  BY DEF Calendar!DaysIn
<1>z. y \in Int
  BY DEF Years
<1>2. Calendar!Leaps(y - 1) \in Int /\ Calendar!Leaps(1969) \in Int
  BY <1>z DEF Calendar!Leaps
<1>3. Calendar!Before[m] \in Int
  BY DEF Calendar!Before
<1>4. ASSUME NEW d \in 1..31
      PROVE  Calendar!WeekdayOf(Calendar!DayOf(y, m, d)) \in 0..6
  <2> DEFINE day == Calendar!DayOf(y, m, d)
  <2>1. day \in Int
    BY <1>z, <1>2, <1>3 DEF Calendar!DayOf
  <2> HIDE DEF day
  <2>2. (day + 4) % 7 \in 0..6
    BY <2>1
  <2> QED
    BY <2>2 DEF Calendar!WeekdayOf, day
<1> QED
  BY <1>1, <1>4

(* The plugin probes 28 years, and a date of the century is among them, on  *)
(* the same weekday.                                                       *)
LEMMA EverIs ==
  ASSUME NEW c \in CalendarsAsked, FieldsFit(c)
  PROVE  Calendar!ever_matches(Calendar!Fields(c)) <=> \E y \in Years : MeantIn(c, y)
<1> DEFINE e == Calendar!Fields(c)
<1>1. Calendar!ever_matches(e) <=> \E y \in Probed : MeantIn(c, y)
  <2>1. Calendar!ever_matches(e) <=>
          \E y \in Probed, m \in 1..12 :
            /\ Calendar!Admits(e.months, m)
            /\ \E d \in 1..Calendar!DaysIn(y, m) :
                 Calendar!DayFieldsMatch(e, m, d, Calendar!WeekdayOf(Calendar!DayOf(y, m, d)))
    <3>1. Calendar!PROBE_YEARS = Probed
      BY DEF Calendar!PROBE_YEARS, Probed
    <3> HIDE DEF e
    <3> QED
      BY <3>1, ZenonT(30) DEF Calendar!ever_matches
  <2>2. ASSUME NEW y \in Probed, NEW m \in 1..12
        PROVE  /\ Calendar!Admits(e.months, m) <=> Calendar!MeantMonth(c, m)
               /\ \A d \in 1..Calendar!DaysIn(y, m) :
                    Calendar!DayFieldsMatch(e, m, d, Calendar!WeekdayOf(Calendar!DayOf(y, m, d)))
                      <=> Calendar!Meant(c, m, d, Calendar!WeekdayOf(Calendar!DayOf(y, m, d)))
    <3>1. y \in Years
      BY DEF Years, Probed
    <3>2. /\ Calendar!DaysIn(y, m) \in 0..31
          /\ \A d \in 1..31 : Calendar!WeekdayOf(Calendar!DayOf(y, m, d)) \in 0..6
      BY <3>1, DatesAre, Zenon
    <3>3. Calendar!Admits(e.months, m) <=> Calendar!MeantMonth(c, m)
      <4>1. 1 \in 1..31 /\ 0 \in 0..6
        OBVIOUS
      <4> QED
        BY <4>1, DaysAreMeant, Zenon
    <3>4. ASSUME NEW d \in 1..Calendar!DaysIn(y, m)
          PROVE  Calendar!DayFieldsMatch(e, m, d, Calendar!WeekdayOf(Calendar!DayOf(y, m, d)))
                   <=> Calendar!Meant(c, m, d, Calendar!WeekdayOf(Calendar!DayOf(y, m, d)))
      <4>1. d \in 1..31
        BY <3>2
      <4>2. Calendar!WeekdayOf(Calendar!DayOf(y, m, d)) \in 0..6
        BY <3>2, <4>1
      <4> QED
        BY <4>1, <4>2, DaysAreMeant, Zenon
    <3> QED
      BY <3>3, <3>4
  <2> HIDE DEF e
  <2> QED
    BY <2>1, <2>2 DEF MeantIn
<1>a. \A y \in Years, m \in 1..12 : Calendar!DaysIn(y, m) \in 0..31
  BY DatesAre, Zenon
<1>2. ASSUME NEW y \in 2028..2099 PROVE MeantIn(c, y) <=> MeantIn(c, y - 28)
  <2>1. ASSUME NEW m \in 1..12
        PROVE  /\ Calendar!DaysIn(y - 28, m) = Calendar!DaysIn(y, m)
               /\ \A d \in 1..Calendar!DaysIn(y, m) :
                    Calendar!WeekdayOf(Calendar!DayOf(y - 28, m, d))
                      = Calendar!WeekdayOf(Calendar!DayOf(y, m, d))
    <3>1. /\ Calendar!DaysIn(y - 28, m) = Calendar!DaysIn(y, m)
          /\ \A d \in 1..31 : Calendar!WeekdayOf(Calendar!DayOf(y - 28, m, d))
                              = Calendar!WeekdayOf(Calendar!DayOf(y, m, d))
      BY YearsRepeat
    <3>2. y \in Years
      BY DEF Years
    <3>3. Calendar!DaysIn(y, m) \in 0..31
      BY <1>a, <3>2
    <3>4. \A d \in 1..Calendar!DaysIn(y, m) : d \in 1..31
      BY <3>3
    <3> QED
      BY <3>1, <3>4
  <2>2. \A m \in 1..12 :
          (\E d \in 1..Calendar!DaysIn(y, m) :
             Calendar!Meant(c, m, d, Calendar!WeekdayOf(Calendar!DayOf(y, m, d))))
          <=> (\E d \in 1..Calendar!DaysIn(y - 28, m) :
                 Calendar!Meant(c, m, d, Calendar!WeekdayOf(Calendar!DayOf(y - 28, m, d))))
    BY <2>1
  <2> QED
    BY <2>2 DEF MeantIn
<1>3. ASSUME NEW y \in Years, MeantIn(c, y)
      PROVE  \E x \in Probed : MeantIn(c, x)
  <2> USE DEF Years, Probed
  <2>1. CASE y \in Probed
    BY <1>3, <2>1
  <2>2. CASE y \in 2028..2055
    <3>1. y \in 2028..2099 /\ y - 28 \in Probed
      BY <2>2
    <3> QED
      BY <1>2, <1>3, <3>1
  <2>3. CASE y \in 2056..2083
    <3>1. y \in 2028..2099 /\ y - 28 \in 2028..2099 /\ (y - 28) - 28 \in Probed
      BY <2>3
    <3> QED
      BY <1>2, <1>3, <3>1
  <2>4. CASE y \in 2084..2099
    <3>1. /\ y \in 2028..2099 /\ y - 28 \in 2028..2099 /\ (y - 28) - 28 \in 2028..2099
          /\ ((y - 28) - 28) - 28 \in Probed
      BY <2>4
    <3> QED
      BY <1>2, <1>3, <3>1
  <2> QED
    BY <2>1, <2>2, <2>3, <2>4
<1>4. \A x \in Probed : x \in Years
  BY DEF Years, Probed
<1> HIDE DEF e
<1>5. Calendar!ever_matches(e) <=> \E y \in Years : MeantIn(c, y)
  BY <1>1, <1>3, <1>4
<1> QED
  BY <1>5 DEF e

(* A calendar compiles if it is possible; what it compiled to, does again.  *)
LEMMA TakenIs ==
  ASSUME NEW c \in CalendarsAsked
  PROVE  /\ Calendar!compile(c) # {} <=> Calendar!Possible(c)
         /\ \A s \in Calendar!compile(c) :
              Calendar!parse_cron(s.expression, s.timezone) = Calendar!compile(c)
<1> DEFINE e == Calendar!Fields(c)
           z == c.timezone
           fits == z \subseteq DOMAIN Offset /\ Calendar!ExpressionParses(e) /\ Calendar!ever_matches(e)
<1>1. Calendar!compile(c) = Calendar!parse_cron(e, z)
  BY DEF Calendar!compile
<1>2. Calendar!parse_cron(e, z) = IF fits THEN {[expression |-> e, timezone |-> z]} ELSE {}
  BY DEF Calendar!parse_cron, Calendar!None, Calendar!Some
<1>3. Calendar!Possible(c) <=>
        FieldsFit(c) /\ z \subseteq DOMAIN Offset /\ \E y \in Years : MeantIn(c, y)
  <2> DEFINE ever ==
    \E y \in 2000..2099, m \in {m \in 1..12 : Calendar!MeantMonth(c, m)} :
      \E d \in 1..Calendar!DaysIn(y, m) :
        Calendar!Meant(c, m, d, Calendar!WeekdayOf(Calendar!DayOf(y, m, d)))
  <2>1. Calendar!Possible(c) <=> FieldsFit(c) /\ z \subseteq DOMAIN Offset /\ ever
    BY DEF Calendar!Possible, FieldsFit
  <2>2. ever <=> \E y \in Years : MeantIn(c, y)
    <3>1. 2000..2099 = Years
      BY DEF Years
    <3> DEFINE some(y) ==
      \E m \in {m \in 1..12 : Calendar!MeantMonth(c, m)} :
        \E d \in 1..Calendar!DaysIn(y, m) :
          Calendar!Meant(c, m, d, Calendar!WeekdayOf(Calendar!DayOf(y, m, d)))
    <3>2. \A y : some(y) <=> MeantIn(c, y)
      BY Zenon DEF MeantIn
    <3>3. ever <=> \E y \in 2000..2099 : some(y)
      OBVIOUS
    <3> HIDE DEF ever, some
    <3> QED
      BY <3>1, <3>2, <3>3
  <2> HIDE DEF ever
  <2> QED
    BY <2>1, <2>2
<1>4. fits <=> Calendar!Possible(c)
  <2>1. Calendar!ExpressionParses(e) <=> FieldsFit(c)
    BY ParsesIs
  <2>2. FieldsFit(c) => (Calendar!ever_matches(e) <=> \E y \in Years : MeantIn(c, y))
    BY EverIs
  <2> HIDE DEF e, z
  <2> QED
    BY <1>3, <2>1, <2>2
<1> HIDE DEF e, z, fits
<1>5. \A s \in {[expression |-> e, timezone |-> z]} : s.expression = e /\ s.timezone = z
  OBVIOUS
<1> QED
  BY <1>1, <1>2, <1>4, <1>5

-----------------------------------------------------------------------------
(* A calendar has been compiled, or not yet.                               *)
CalendarInv ==
  part = "calendar" =>
    /\ calendar \in CalendarsAsked
    /\ \/ answer = "none" /\ compiled = {}
       \/ answer = "ok" /\ compiled # {} /\ compiled = Calendar!compile(calendar)
       \/ answer = "invalid-schedule" /\ compiled = {} /\ Calendar!compile(calendar) = {}

(* What has been compiled is possible, and nothing else is refused.        *)
LEMMA CalendarsTaken == CalendarInv => (part = "calendar" => Calendar!TakenIfPossible)
<1> SUFFICES ASSUME CalendarInv, part = "calendar" PROVE Calendar!TakenIfPossible
  OBVIOUS
<1>1. /\ Calendar!compile(calendar) # {} <=> Calendar!Possible(calendar)
      /\ \A s \in Calendar!compile(calendar) :
           Calendar!parse_cron(s.expression, s.timezone) = Calendar!compile(calendar)
  BY TakenIs DEF CalendarInv
<1> QED
  BY <1>1 DEF CalendarInv, Calendar!TakenIfPossible

(* Compiling and firing keep the calendar and what it compiled to.         *)
LEMMA CalendarStep ==
  ASSUME CalendarInv, [LoopNext]_<<loopVars, part, calendarVars, bindingVars>>
  PROVE  CalendarInv'
<1>1. CASE part = "calendar" /\ Calendar!Next
  <2>1. CASE Calendar!Register
    <3>1. compiled' = Calendar!compile(calendar) /\ calendar' = calendar
          /\ answer' = IF compiled' = {} THEN "invalid-schedule" ELSE "ok"
      BY <2>1 DEF Calendar!Register, Calendar!None
    <3> QED
      BY <1>1, <3>1 DEF CalendarInv
  <2>2. CASE Calendar!Fire
    <3>1. UNCHANGED <<calendar, answer, compiled>>
      BY <2>2 DEF Calendar!Fire
    <3> QED
      BY <1>1, <3>1 DEF CalendarInv
  <2> QED
    BY <1>1, <2>1, <2>2 DEF Calendar!Next
<1>2. CASE UNCHANGED <<part, calendarVars>>
  BY <1>2 DEF CalendarInv, calendarVars
<1>3. part' = part
  BY DEF LoopNext
<1> QED
  BY <1>1, <1>2, <1>3 DEF LoopNext, CalendarInv

-----------------------------------------------------------------------------
(***************************************************************************)
(* Firings: the search through months finds the first instant that is meant. *)
(***************************************************************************)

(* Months, counted from year 0: the first day of one, and how long it is.  *)
First(k) == Calendar!DayOf(k \div 12, (k % 12) + 1, 1)
Long(k) == Calendar!DaysIn(k \div 12, (k % 12) + 1)

(* The months of a year have these first days.                             *)
LEMMA MonthsOfYear ==
  ASSUME NEW y \in Int
  PROVE  /\ Calendar!Leaps(y) \in Int /\ Calendar!Leaps(y - 1) \in Int
         /\ Calendar!Leaps(y) = Calendar!Leaps(y - 1) + (IF Calendar!IsLeap(y) THEN 1 ELSE 0)
<1>1. /\ y \div 4 = (y - 1) \div 4 + (IF y % 4 = 0 THEN 1 ELSE 0)
      /\ y \div 4 \in Int /\ (y - 1) \div 4 \in Int
  OBVIOUS
<1>2. /\ y \div 100 = (y - 1) \div 100 + (IF y % 100 = 0 THEN 1 ELSE 0)
      /\ y \div 100 \in Int /\ (y - 1) \div 100 \in Int
  OBVIOUS
<1>3. /\ y \div 400 = (y - 1) \div 400 + (IF y % 400 = 0 THEN 1 ELSE 0)
      /\ y \div 400 \in Int /\ (y - 1) \div 400 \in Int
  OBVIOUS
<1>4. (y % 400 = 0 => y % 100 = 0) /\ (y % 100 = 0 => y % 4 = 0)
  OBVIOUS
<1> QED
  BY <1>1, <1>2, <1>3, <1>4 DEF Calendar!Leaps, Calendar!IsLeap

(* A month begins where the one before it ends.                            *)
LEMMA MonthsFollow ==
  ASSUME NEW k \in Int
  PROVE  First(k) \in Int /\ Long(k) \in 28..31 /\ First(k + 1) = First(k) + Long(k)
<1> DEFINE y == k \div 12
           r == k % 12
           leap == IF Calendar!IsLeap(y) THEN 1 ELSE 0
           year == 365 * (y - 1970) + Calendar!Leaps(y - 1) - Calendar!Leaps(1969)
           next == 365 * ((y + 1) - 1970) + Calendar!Leaps((y + 1) - 1) - Calendar!Leaps(1969)
           more(m) == IF m > 2 THEN leap ELSE 0
<1>1. y \in Int /\ r \in 0..11 /\ (y + 1) - 1 = y
  OBVIOUS
<1>2. /\ r < 11 => (k + 1) \div 12 = y /\ (k + 1) % 12 = r + 1
      /\ r = 11 => (k + 1) \div 12 = y + 1 /\ (k + 1) % 12 = 0
  OBVIOUS
<1>3. leap \in 0..1
  OBVIOUS
<1>4. year \in Int /\ next = year + 365 + leap
  <2>1. Calendar!Leaps(y) \in Int /\ Calendar!Leaps(y - 1) \in Int
        /\ Calendar!Leaps(y) = Calendar!Leaps(y - 1) + leap
    BY <1>1, MonthsOfYear
  <2>2. Calendar!Leaps(1969) \in Int
    BY DEF Calendar!Leaps
  <2> HIDE DEF y, leap
  <2> QED
    BY <1>1, <1>3, <2>1, <2>2
<1>5. \A m \in 1..12 : Calendar!DayOf(y, m, 1) = year + Calendar!Before[m] + more(m) + 1 - 1
  BY DEF Calendar!DayOf
<1>6. Calendar!DayOf(y + 1, 1, 1) = next + Calendar!Before[1] + 0 + 1 - 1
  BY DEF Calendar!DayOf
<1>7. \A m \in 1..12 : Calendar!DaysIn(y, m) =
        IF m = 2 THEN 28 + leap ELSE IF m \in {4, 6, 9, 11} THEN 30 ELSE 31
  BY DEF Calendar!DaysIn
<1>8. /\ Calendar!Before[1] = 0 /\ Calendar!Before[2] = 31 /\ Calendar!Before[3] = 59
      /\ Calendar!Before[4] = 90 /\ Calendar!Before[5] = 120 /\ Calendar!Before[6] = 151
      /\ Calendar!Before[7] = 181 /\ Calendar!Before[8] = 212 /\ Calendar!Before[9] = 243
      /\ Calendar!Before[10] = 273 /\ Calendar!Before[11] = 304 /\ Calendar!Before[12] = 334
  BY DEF Calendar!Before
<1>9. First(k) = Calendar!DayOf(y, r + 1, 1) /\ Long(k) = Calendar!DaysIn(y, r + 1)
  BY DEF First, Long
<1>10. /\ r < 11 => First(k + 1) = Calendar!DayOf(y, r + 2, 1)
       /\ r = 11 => First(k + 1) = Calendar!DayOf(y + 1, 1, 1)
  <2>1. r < 11 => (r + 1) + 1 = r + 2
    BY <1>1
  <2> HIDE DEF y, r
  <2> QED
    BY <1>1, <1>2, <2>1 DEF First
<1> HIDE DEF y, r, leap, year, next
<1>11. /\ r \in 0..11
       /\ r + 1 \in 1..12
       /\ r < 11 => r + 2 \in 1..12
  BY <1>1
<1>12. \A m \in 1..12 : Calendar!Before[m] \in Int /\ more(m) \in Int
  BY <1>3, <1>8
<1> DEFINE Off(m) == Calendar!Before[m] + more(m)
<1>13. \A m \in 1..12 : Calendar!DayOf(y, m, 1) = year + Off(m)
  <2>1. \A a, b, c \in Int : a + b + c + 1 - 1 = a + (b + c)
    OBVIOUS
  <2> HIDE DEF more
  <2> QED
    BY <1>4, <1>5, <1>12, <2>1
<1>14. /\ Off(1) = 0 /\ Off(2) = 31 /\ Off(3) = 59 + leap /\ Off(4) = 90 + leap
       /\ Off(5) = 120 + leap /\ Off(6) = 151 + leap /\ Off(7) = 181 + leap /\ Off(8) = 212 + leap
       /\ Off(9) = 243 + leap /\ Off(10) = 273 + leap /\ Off(11) = 304 + leap
       /\ Off(12) = 334 + leap
  BY <1>3, <1>8
<1> HIDE DEF more, Off
<1>15. \A m \in 1..11 : Off(m + 1) = Off(m) + Calendar!DaysIn(y, m)
  BY <1>3, <1>7, <1>14
<1>16. Off(12) + Calendar!DaysIn(y, 12) = 365 + leap
  BY <1>3, <1>7, <1>14
<1>17. \A m \in 1..12 : Off(m) \in Int /\ Calendar!DaysIn(y, m) \in 28..31
  BY <1>3, <1>7, <1>14
<1>18. Calendar!DayOf(y + 1, 1, 1) = year + 365 + leap
  BY <1>3, <1>4, <1>6, <1>8
<1>19. CASE r < 11
  <2>1. r + 1 \in 1..11 /\ (r + 1) + 1 = r + 2 /\ r + 2 \in 1..12
    BY <1>1, <1>19
  <2>2. Off(r + 2) = Off(r + 1) + Calendar!DaysIn(y, r + 1)
    BY <1>15, <2>1
  <2> QED
    BY <1>4, <1>9, <1>10, <1>11, <1>13, <1>17, <1>19, <2>1, <2>2
<1>20. CASE r = 11
  <2>1. r + 1 = 12
    BY <1>20
  <2> QED
    BY <1>3, <1>4, <1>9, <1>10, <1>13, <1>16, <1>17, <1>18, <1>20, <2>1
<1> QED
  BY <1>1, <1>19, <1>20

(* Months follow each other, 28 days apart at least.                       *)
LEMMA MonthsAscend ==
  ASSUME NEW j \in Int, NEW n \in Nat
  PROVE  First(j) + 28 * n <= First(j + n)
<1> DEFINE P == {i \in Nat : First(j) + 28 * i <= First(j + i)}
<1>1. 0 \in P
  <2>1. j + 0 = j /\ First(j) \in Int
    BY MonthsFollow
  <2> QED
    BY <2>1
<1>2. ASSUME NEW i \in P PROVE i + 1 \in P
  <2>1. i \in Nat /\ j + i \in Int /\ First(j) + 28 * i <= First(j + i)
    OBVIOUS
  <2>2. /\ First(j + i) \in Int /\ Long(j + i) \in 28..31
        /\ First((j + i) + 1) = First(j + i) + Long(j + i)
    BY <2>1, MonthsFollow
  <2>3. First(j) \in Int
    BY MonthsFollow
  <2>4. (j + i) + 1 = j + (i + 1)
    BY <2>1
  <2>5. First(j) + 28 * (i + 1) <= First(j + (i + 1))
    BY <2>1, <2>2, <2>3, <2>4
  <2> QED
    BY <2>1, <2>5
<1>3. P = Nat
  <2> HIDE DEF P
  <2>1. P \in SUBSET Nat
    BY DEF P
  <2> QED
    BY <1>1, <1>2, <2>1, Inductive
<1> QED
  BY <1>3

(* A later month begins after an earlier one ends.                         *)
LEMMA MonthsApart ==
  ASSUME NEW j \in Int, NEW k \in Int, j < k
  PROVE  First(j) \in Int /\ First(j + 1) <= First(k)
<1>1. k - (j + 1) \in Nat /\ j + 1 \in Int /\ (j + 1) + (k - (j + 1)) = k
  OBVIOUS
<1>2. First(j + 1) + 28 * (k - (j + 1)) <= First(k)
  BY <1>1, MonthsAscend
<1>3. First(j + 1) \in Int /\ First(k) \in Int /\ First(j) \in Int
  BY <1>1, MonthsFollow
<1> QED
  BY <1>1, <1>2, <1>3

(* A day is in a month.                                                   *)
In(day, k) == First(k) <= day /\ day < First(k + 1)

(* A day that is not before 1969 is in a month, after 1967.                *)
LEMMA MonthExists ==
  ASSUME NEW day \in Int, day >= -366
  PROVE  \E k \in Int : k >= 12 * 1968 /\ In(day, k)
<1> DEFINE k0 == 12 * 1968
           T == {n \in Nat : First(k0 + n) > day}
<1>0. k0 \in Int /\ k0 \div 12 = 1968 /\ k0 % 12 = 0
  OBVIOUS
<1>1. First(k0) = -731
  <2>1. First(k0) = Calendar!DayOf(1968, 1, 1)
    BY <1>0 DEF First
  <2>2. Calendar!Leaps(1967) = 476 /\ Calendar!Leaps(1969) = 477
    BY DEF Calendar!Leaps
  <2>3. Calendar!Before[1] = 0
    BY DEF Calendar!Before
  <2>4. 1968 - 1 = 1967 /\ 1968 - 1970 = -2 /\ 365 * (-2) = -730
    OBVIOUS
  <2>5. Calendar!DayOf(1968, 1, 1) = 365 * (-2) + 476 - 477 + 0 + 0 + 1 - 1
    BY <2>2, <2>3, <2>4 DEF Calendar!DayOf
  <2> QED
    BY <2>1, <2>4, <2>5
<1> HIDE DEF k0
<1>2. day + 732 \in Nat /\ First(k0 + (day + 732)) > day
  <2>1. day + 732 \in Nat
    OBVIOUS
  <2>2. First(k0) + 28 * (day + 732) <= First(k0 + (day + 732))
    <3> DEFINE n == day + 732
    <3>1. n \in Nat
      BY <2>1
    <3> HIDE DEF n
    <3>2. First(k0) + 28 * n <= First(k0 + n)
      BY <1>0, <3>1, MonthsAscend
    <3> QED
      BY <3>2 DEF n
  <2>3. First(k0 + (day + 732)) \in Int
    BY <1>0, MonthsFollow
  <2> QED
    BY <1>1, <2>1, <2>2, <2>3
<1>3. T \in SUBSET Nat /\ T # {}
  BY <1>2
<1>4. PICK n \in T : \A i \in T : n <= i
  BY <1>3, Least
<1>5. n \in Nat /\ First(k0 + n) > day
  OBVIOUS
<1>6. n # 0
  <2>1. k0 + 0 = k0
    BY <1>0
  <2> QED
    BY <1>1, <1>5, <2>1
<1>7. n - 1 \in Nat /\ n - 1 \notin T
  <2>1. n - 1 \in Nat /\ n - 1 < n
    BY <1>5, <1>6
  <2> HIDE DEF T
  <2> QED
    BY <1>3, <1>4, <1>5, <2>1
<1> DEFINE k == k0 + (n - 1)
<1>8. k \in Int /\ k >= k0 /\ k + 1 = k0 + n
  BY <1>0, <1>5, <1>7
<1>9. ~(First(k) > day) /\ First(k) \in Int
  BY <1>7, <1>8, MonthsFollow
<1>10. In(day, k)
  BY <1>5, <1>8, <1>9 DEF In
<1> HIDE DEF k
<1> QED
  BY <1>8, <1>10 DEF k0

(* It is in one month only.                                                *)
LEMMA MonthUnique ==
  ASSUME NEW day \in Int, NEW j \in Int, NEW k \in Int, In(day, j), In(day, k)
  PROVE  j = k
<1>1. ASSUME NEW a \in Int, NEW b \in Int, a < b, In(day, a), In(day, b) PROVE FALSE
  <2>1. First(a + 1) <= First(b)
    BY <1>1, MonthsApart
  <2>2. First(a + 1) \in Int /\ First(b) \in Int
    BY <1>1, MonthsFollow
  <2> QED
    BY <1>1, <2>1, <2>2 DEF In
<1> QED
  BY <1>1

(* Years: the first day of one.                                            *)
NewYear(y) == Calendar!DayOf(y, 1, 1)

(* A year begins with its first month.                                     *)
LEMMA NewYears ==
  ASSUME NEW x \in Int
  PROVE  /\ NewYear(x) = First(12 * x) /\ NewYear(x) \in Int
         /\ NewYear(x) = 365 * (x - 1970) + Calendar!Leaps(x - 1) - Calendar!Leaps(1969)
<1>1. (12 * x) \div 12 = x /\ (12 * x) % 12 = 0 /\ 12 * x \in Int
  OBVIOUS
<1>2. NewYear(x) = First(12 * x)
  BY <1>1 DEF First, NewYear
<1>3. Calendar!Leaps(x - 1) \in Int /\ Calendar!Leaps(1969) \in Int
  BY MonthsOfYear DEF Calendar!Leaps
<1>4. Calendar!Before[1] = 0
  BY DEF Calendar!Before
<1>5. NewYear(x) = 365 * (x - 1970) + Calendar!Leaps(x - 1) - Calendar!Leaps(1969) + 0 + 0 + 1 - 1
  BY <1>4 DEF Calendar!DayOf, NewYear
<1>6. NewYear(x) \in Int
  BY <1>1, <1>2, MonthsFollow
<1> QED
  BY <1>2, <1>3, <1>5, <1>6

(* The months of a year lie between its ends.                              *)
LEMMA MonthInYear ==
  ASSUME NEW x \in Int, NEW k \in Int, k \div 12 = x
  PROVE  NewYear(x) <= First(k) /\ First(k + 1) <= NewYear(x + 1)
<1> DEFINE a == 12 * x
           r == k - a
           left == 12 - (r + 1)
<1>1. a \in Int /\ r \in Nat /\ left \in Nat /\ a + r = k /\ (k + 1) + left = a + 12
  OBVIOUS
<1>2. k + 1 \in Int /\ a + 12 \in Int
  OBVIOUS
<1>3. NewYear(x) = First(a)
  BY NewYears
<1>4. NewYear(x + 1) = First(a + 12)
  <2>1. (12 * x + 12) \div 12 = x + 1 /\ (12 * x + 12) % 12 = 0
    OBVIOUS
  <2> QED
    BY <2>1 DEF First, NewYear
<1> HIDE DEF a, r, left
<1>5. First(a) + 28 * r <= First(a + r)
  BY <1>1, MonthsAscend
<1>6. First(k + 1) + 28 * left <= First((k + 1) + left)
  BY <1>1, <1>2, MonthsAscend
<1>7. First(a) \in Int /\ First(k + 1) \in Int /\ First(k) \in Int /\ First(a + 12) \in Int
  BY <1>1, <1>2, MonthsFollow
<1>8. First(a) + 28 * r <= First(k) /\ First(k + 1) + 28 * left <= First(a + 12)
  BY <1>1, <1>5, <1>6
<1> QED
  BY <1>1, <1>3, <1>4, <1>7, <1>8

(* A later year begins after an earlier one ends.                          *)
LEMMA YearsApart ==
  ASSUME NEW a \in Int, NEW b \in Int, a < b
  PROVE  NewYear(a + 1) <= NewYear(b)
<1> DEFINE j == 12 * (a + 1)
           k == 12 * b
<1>1. j \in Int /\ k \in Int /\ j <= k /\ k - j \in Nat /\ j + (k - j) = k
  OBVIOUS
<1>2. a + 1 \in Int
  OBVIOUS
<1>3. NewYear(a + 1) = First(j) /\ NewYear(b) = First(k)
  BY <1>2, NewYears
<1> HIDE DEF j, k
<1>4. First(j) + 28 * (k - j) <= First(j + (k - j))
  BY <1>1, MonthsAscend
<1>5. First(j) \in Int /\ First(k) \in Int
  BY <1>1, MonthsFollow
<1> QED
  BY <1>1, <1>3, <1>4, <1>5

(* DateOf finds the year, and the month in it.                             *)
LEMMA YearIs ==
  ASSUME NEW day \in Int, day >= -366, NEW k \in Int, k >= 12 * 1968, In(day, k)
  PROVE  Calendar!YearOf(day) = k \div 12
<1> DEFINE y == k \div 12
           S == (1970 + day \div 366 - 1)..(1970 + day \div 365 + 1)
           Q(x) == NewYear(x) <= day /\ day < NewYear(x + 1)
<1>1. y \in Int /\ y >= 1968 /\ y + 1 \in Int
  OBVIOUS
<1>2. NewYear(y) <= First(k) /\ First(k + 1) <= NewYear(y + 1)
  BY <1>1, MonthInYear
<1> HIDE DEF y
<1>a. \A x \in Int : NewYear(x) \in Int
  BY NewYears
<1>b. \A i \in Int : First(i) \in Int
  BY MonthsFollow
<1>3. /\ NewYear(y) \in Int /\ NewYear(y + 1) \in Int
      /\ First(k) \in Int /\ First(k + 1) \in Int
  <2>1. k + 1 \in Int
    OBVIOUS
  <2> QED
    BY <1>1, <1>a, <1>b, <2>1
<1>4. Q(y)
  BY <1>2, <1>3 DEF In
<1>5. ASSUME NEW x \in Int, Q(x) PROVE x = y
  <2>1. ASSUME NEW a \in Int, NEW b \in Int, a < b, Q(a), Q(b) PROVE FALSE
    <3>1. NewYear(a + 1) <= NewYear(b)
      BY <2>1, YearsApart
    <3>2. a + 1 \in Int
      OBVIOUS
    <3>3. NewYear(a + 1) \in Int /\ NewYear(b) \in Int
      BY <1>a, <3>2
    <3> QED
      BY <2>1, <3>1, <3>3
  <2> HIDE DEF Q
  <2>2. ~(x < y) /\ ~(y < x)
    BY <1>1, <1>4, <1>5, <2>1
  <2> QED
    BY <1>1, <1>5, <2>2
<1>6. y \in S
  <2>1. NewYear(y) = 365 * (y - 1970) + Calendar!Leaps(y - 1) - Calendar!Leaps(1969)
    BY <1>1, NewYears
  <2>2. NewYear(y + 1) = 365 * ((y + 1) - 1970) + Calendar!Leaps((y + 1) - 1) - Calendar!Leaps(1969)
    BY <1>1, NewYears
  <2>3. Calendar!Leaps(1969) = 477
    BY DEF Calendar!Leaps
  <2>4. Calendar!Leaps(y - 1) >= 476 /\ Calendar!Leaps(y - 1) \in Int
    BY <1>1 DEF Calendar!Leaps
  <2>5. Calendar!Leaps((y + 1) - 1) - 477 <= y - 1968 /\ Calendar!Leaps((y + 1) - 1) \in Int
    BY <1>1 DEF Calendar!Leaps
  <2>6. 365 * (y - 1970) - 1 <= day /\ day < 365 * (y - 1969) + (y - 1968)
    BY <1>1, <1>4, <2>1, <2>2, <2>3, <2>4, <2>5
  <2>7. y - 1970 <= day \div 365 + 1 /\ day \div 366 - 1 <= y - 1970
    BY <1>1, <2>6
  <2>8. day \div 365 \in Int /\ day \div 366 \in Int
    OBVIOUS
  <2> QED
    BY <1>1, <2>7, <2>8
<1>7. \A x \in S : x \in Int
  OBVIOUS
<1>8. Calendar!YearOf(day) = CHOOSE x \in S : Q(x)
  BY DEF Calendar!YearOf, NewYear
<1> HIDE DEF S, Q
<1>9. \A x \in S : Q(x) <=> x = y
  BY <1>4, <1>5, <1>7
<1>10. (CHOOSE x \in S : Q(x)) = y
  BY <1>6, <1>9
<1> QED
  BY <1>8, <1>10 DEF y

(* DateOf finds the month of a day, and the day in it.                     *)
LEMMA DateIs ==
  ASSUME NEW day \in Int, day >= -366
  PROVE  /\ Calendar!MonthOf(day) \in Int /\ In(day, Calendar!MonthOf(day))
         /\ Calendar!DateOf(day).month = (Calendar!MonthOf(day) % 12) + 1
         /\ Calendar!DateOf(day).day = day - First(Calendar!MonthOf(day)) + 1
<1>1. PICK k \in Int : k >= 12 * 1968 /\ In(day, k)
  BY MonthExists
<1> DEFINE y == k \div 12
           m == (k % 12) + 1
           Q(i) == /\ Calendar!DayOf(y, i, 1) <= day
                   /\ day < Calendar!DayOf(y, i, 1) + Calendar!DaysIn(y, i)
<1>2. y \in Int /\ m \in 1..12 /\ k = 12 * y + m - 1
  OBVIOUS
<1>3. Calendar!YearOf(day) = y
  BY <1>1, YearIs
<1> HIDE DEF y, m
<1>4. \A i \in 1..12 : Q(i) <=> In(day, 12 * y + i - 1)
  <2> TAKE i \in 1..12
  <2>1. /\ 12 * y + i - 1 \in Int /\ (12 * y + i - 1) \div 12 = y
        /\ ((12 * y + i - 1) % 12) + 1 = i
    BY <1>2
  <2> DEFINE j == 12 * y + i - 1
  <2>2. First(j) = Calendar!DayOf(y, i, 1) /\ Long(j) = Calendar!DaysIn(y, i)
    BY <2>1 DEF First, Long
  <2> HIDE DEF j
  <2>3. First(j + 1) = First(j) + Long(j)
    BY <2>1, MonthsFollow DEF j
  <2>4. Q(i) <=> In(day, j)
    BY <2>2, <2>3 DEF In
  <2> QED
    BY <2>4 DEF j
<1>5. \A i \in 1..12 : Q(i) <=> i = m
  <2> TAKE i \in 1..12
  <2>1. 12 * y + i - 1 \in Int /\ (12 * y + i - 1 = k <=> i = m)
    BY <1>2
  <2>2. In(day, 12 * y + i - 1) <=> 12 * y + i - 1 = k
    BY <1>1, <2>1, MonthUnique
  <2> HIDE DEF Q
  <2> QED
    BY <1>4, <2>1, <2>2
<1>6. (CHOOSE i \in 1..12 : Q(i)) = m
  <2> HIDE DEF Q
  <2> QED
    BY <1>2, <1>5
<1>7. /\ Calendar!DateOf(day).year = y
      /\ Calendar!DateOf(day).month = CHOOSE i \in 1..12 : Q(i)
      /\ Calendar!DateOf(day).day = day - Calendar!DayOf(y, CHOOSE i \in 1..12 : Q(i), 1) + 1
  BY <1>3 DEF Calendar!DateOf
<1> HIDE DEF Q
<1>8. Calendar!DateOf(day).month = m
  BY <1>6, <1>7
<1>9. Calendar!DateOf(day).day = day - Calendar!DayOf(y, m, 1) + 1
  BY <1>6, <1>7
<1>10. Calendar!DayOf(y, m, 1) = First(k)
  BY DEF First, y, m
<1>11. Calendar!MonthOf(day) = 12 * y + m - 1
  BY <1>7, <1>8 DEF Calendar!MonthOf
<1>12. Calendar!MonthOf(day) = k /\ (k % 12) + 1 = m
  BY <1>2, <1>11 DEF m
<1> QED
  BY <1>1, <1>8, <1>9, <1>10, <1>12

(* A set of numbers with a bound has a least, or a greatest.               *)
NotBelow(S, low) == S \in SUBSET Int /\ S # {} /\ low \in Int /\ \A x \in S : low <= x
NotAbove(S, high) == S \in SUBSET Int /\ S # {} /\ high \in Int /\ \A x \in S : x <= high

LEMMA LowestIs ==
  ASSUME NEW S, NEW low, NotBelow(S, low)
  PROVE  Calendar!Min(S) \in S /\ \A x \in S : Calendar!Min(S) <= x
<1> DEFINE T == {n \in Nat : low + n \in S}
<1>0. S \in SUBSET Int /\ S # {} /\ low \in Int /\ \A x \in S : low <= x
  BY DEF NotBelow
<1>1. \A x \in S : x - low \in T /\ low + (x - low) = x
  BY <1>0
<1>2. T \in SUBSET Nat /\ T # {}
  BY <1>0, <1>1
<1>3. PICK n \in T : \A i \in T : n <= i
  BY <1>2, Least
<1>4. n \in Nat /\ low + n \in S
  OBVIOUS
<1>5. \A x \in S : low + n <= x
  <2> TAKE x \in S
  <2>1. n <= x - low /\ x \in Int
    BY <1>0, <1>1, <1>3
  <2> HIDE DEF T
  <2> QED
    BY <1>0, <1>4, <2>1
<1> QED
  BY <1>0, <1>4, <1>5 DEF Calendar!Min

LEMMA HighestIs ==
  ASSUME NEW S, NEW high, NotAbove(S, high)
  PROVE  Calendar!Max(S) \in S /\ \A x \in S : x <= Calendar!Max(S)
<1> DEFINE T == {n \in Nat : high - n \in S}
<1>0. S \in SUBSET Int /\ S # {} /\ high \in Int /\ \A x \in S : x <= high
  BY DEF NotAbove
<1>1. \A x \in S : high - x \in T /\ high - (high - x) = x
  BY <1>0
<1>2. T \in SUBSET Nat /\ T # {}
  BY <1>0, <1>1
<1>3. PICK n \in T : \A i \in T : n <= i
  BY <1>2, Least
<1>4. n \in Nat /\ high - n \in S
  OBVIOUS
<1>5. \A x \in S : x <= high - n
  <2> TAKE x \in S
  <2>1. n <= high - x /\ x \in Int
    BY <1>0, <1>1, <1>3
  <2> HIDE DEF T
  <2> QED
    BY <1>0, <1>4, <2>1
<1> QED
  BY <1>0, <1>4, <1>5 DEF Calendar!Max

(* The days of a month that match a crontab.                               *)
LEMMA MatchingIs ==
  ASSUME NEW e, NEW k \in Int
  PROVE  \A day : day \in Calendar!DaysMatching(e, k) <=>
           /\ day \in Int /\ In(day, k)
           /\ Calendar!DayFieldsMatch(e, (k % 12) + 1, day - First(k) + 1, Calendar!WeekdayOf(day))
<1> DEFINE m == (k % 12) + 1
           f == First(k)
           fits(d) == Calendar!DayFieldsMatch(e, m, d, Calendar!WeekdayOf(f + d - 1))
           matches(day) == Calendar!DayFieldsMatch(e, m, day - f + 1, Calendar!WeekdayOf(day))
           D == Calendar!DaysMatching(e, k)
<1>1. D = {f + d - 1 : d \in {d \in 1..Long(k) : fits(d)}}
  BY DEF Calendar!DaysMatching, First, Long
<1>2. f \in Int /\ Long(k) \in 28..31 /\ First(k + 1) = f + Long(k)
  BY MonthsFollow
<1>3. \A d \in 1..Long(k) : f + d - 1 \in Int /\ In(f + d - 1, k) /\ (f + d - 1) - f + 1 = d
  <2> HIDE DEF f
  <2>1. f = First(k)
    BY DEF f
  <2> QED
    BY <1>2, <2>1 DEF In
<1>4. \A day \in Int : In(day, k) => day - f + 1 \in 1..Long(k) /\ f + (day - f + 1) - 1 = day
  <2> HIDE DEF f
  <2>1. f = First(k)
    BY DEF f
  <2> QED
    BY <1>2, <2>1 DEF In
<1>5. \A d \in 1..Long(k) : fits(d) <=> matches(f + d - 1)
  BY <1>3
<1>6. \A day \in Int : In(day, k) => (matches(day) <=> fits(day - f + 1))
  BY <1>4
<1>7. ASSUME NEW day, day \in D PROVE day \in Int /\ In(day, k) /\ matches(day)
  <2> HIDE DEF f, fits, matches, D
  <2>1. PICK d \in 1..Long(k) : fits(d) /\ day = f + d - 1
    BY <1>1, <1>7
  <2> QED
    BY <1>3, <1>5, <2>1
<1>8. ASSUME NEW day \in Int, In(day, k), matches(day) PROVE day \in D
  <2> HIDE DEF f, fits, matches, D
  <2>1. day - f + 1 \in 1..Long(k) /\ f + (day - f + 1) - 1 = day /\ fits(day - f + 1)
    BY <1>4, <1>6, <1>8
  <2> QED
    BY <1>1, <2>1
<1> HIDE DEF D, matches
<1>9. \A day : day \in D <=> day \in Int /\ In(day, k) /\ matches(day)
  BY <1>7, <1>8
<1> QED
  BY <1>9 DEF D, matches

(* The times of a day.                                                     *)
LEMMA TimesAre ==
  ASSUME NEW e, NEW t \in Calendar!Times(e)
  PROVE  t \in Int /\ 0 <= t /\ t < 86400
<1>1. PICK h \in 0..23, m \in 0..59 : t = 3600 * h + 60 * m
  BY DEF Calendar!Times
<1>2. h \in Int /\ 0 <= h /\ h <= 23 /\ m \in Int /\ 0 <= m /\ m <= 59
  OBVIOUS
<1> QED
  BY <1>1, <1>2

(* The instants that match: of a day that does, at one of the times.       *)
Hit(s, x) ==
  \E k \in Int : \E day \in Calendar!DaysMatching(s.expression, k) :
    \E t \in Calendar!Times(s.expression) : x + Calendar!Zone(s) = 86400 * day + t

(* The days of a later month are later, and later days are of no earlier   *)
(* month.                                                                  *)
LEMMA LaterDays ==
  ASSUME NEW j \in Int, NEW k \in Int, NEW d \in Int, NEW x \in Int, In(d, j), In(x, k)
  PROVE  (j < k => d < x) /\ (d < x => j <= k)
<1>1. ASSUME NEW a \in Int, NEW b \in Int, NEW y \in Int, NEW z \in Int,
             In(y, a), In(z, b), a < b
      PROVE  y < z
  <2>1. First(a + 1) <= First(b)
    BY <1>1, MonthsApart
  <2>2. a + 1 \in Int
    OBVIOUS
  <2>3. First(a + 1) \in Int /\ First(b) \in Int
    BY <2>2, MonthsFollow
  <2> QED
    BY <1>1, <2>1, <2>3 DEF In
<1>2. j < k => d < x
  BY <1>1
<1>3. k < j => x < d
  BY <1>1
<1> QED
  BY <1>2, <1>3

(* The month of a day, and the days that match in it.                      *)
MonthHit(e, k, day, t) ==
  k \in Int /\ day \in Calendar!DaysMatching(e, k) /\ t \in Calendar!Times(e)

(* What such a match is made of.                                           *)
LEMMA MonthHits ==
  ASSUME NEW e, NEW k, NEW day, NEW t, MonthHit(e, k, day, t)
  PROVE  k \in Int /\ day \in Int /\ In(day, k) /\ t \in Int /\ 0 <= t /\ t < 86400
<1>1. k \in Int /\ day \in Calendar!DaysMatching(e, k) /\ t \in Calendar!Times(e)
  BY DEF MonthHit
<1>2. day \in Int /\ In(day, k)
  BY <1>1, MatchingIs
<1>3. t \in Int /\ 0 <= t /\ t < 86400
  BY <1>1, TimesAre
<1> QED
  BY <1>1, <1>2, <1>3

(* The next instant is the first of those that match and come after.       *)
LEMMA NextIs ==
  ASSUME NEW s, NEW after \in Int, Calendar!Zone(s) \in Int, Horizon \in Nat,
         (after + Calendar!Zone(s)) \div 86400 >= -366,
         Calendar!Times(s.expression) # {},
         Calendar!next_after(s, after) # {}
  PROVE  LET n == Calendar!Value(Calendar!next_after(s, after)) IN
           /\ n \in Int /\ after < n /\ Hit(s, n)
           /\ \A x \in Int : Hit(s, x) /\ after < x => n <= x
<1> DEFINE e == s.expression
           zone == Calendar!Zone(s)
           local == after + zone
           times == Calendar!Times(e)
           today == local \div 86400
           month == Calendar!MonthOf(today)
           ahead(k) == {d \in Calendar!DaysMatching(e, k) :
                          d > today \/ (d = today /\ \E t \in times : 86400 * d + t > local)}
           months == {k \in month..(month + Horizon) : ahead(k) # {}}
           K == Calendar!Min(months)
           D == Calendar!Min(ahead(K))
           left == {t \in times : 86400 * D + t > local}
           T == Calendar!Min(left)
           n == T + 86400 * D - zone
<1>0. Calendar!next_after(s, after) = IF months = {} THEN {} ELSE {n}
  BY DEF Calendar!next_after, Calendar!None, Calendar!Some
<1>1. months # {}
  <2> HIDE DEF months, n
  <2> QED
    BY <1>0
<1>2. Calendar!Value(Calendar!next_after(s, after)) = n
  <2> HIDE DEF months, n
  <2> QED
    BY <1>0, <1>1 DEF Calendar!Value
<1>3. /\ local \in Int /\ zone \in Int /\ today \in Int /\ today >= -366
      /\ 86400 * today <= local /\ local < 86400 * today + 86400 /\ local = after + zone
  <2>1. local \in Int
    OBVIOUS
  <2> HIDE DEF local
  <2>2. 86400 * today <= local /\ local < 86400 * today + 86400 /\ today \in Int
    BY <2>1
  <2> QED
    BY <2>1, <2>2 DEF local
<1>4. month \in Int /\ In(today, month)
  <2> HIDE DEF today
  <2> QED
    BY <1>3, DateIs
<1>5. \A k, d : d \in ahead(k) <=>
         /\ d \in Calendar!DaysMatching(e, k)
         /\ d > today \/ (d = today /\ \E t \in times : 86400 * d + t > local)
  OBVIOUS
<1>6. \A k \in Int : ahead(k) \in SUBSET Int /\ \A d \in ahead(k) : today <= d /\ In(d, k)
  <2> TAKE k \in Int
  <2> HIDE DEF today, times, local, e
  <2>1. \A d \in ahead(k) : d \in Int /\ In(d, k)
    BY MatchingIs
  <2> QED
    BY <1>3, <2>1
<1>7. \A t \in times : t \in Int /\ 0 <= t /\ t < 86400
  BY TimesAre
<1>8. times # {}
  OBVIOUS
<1>9. \A k, d, t : MonthHit(e, k, d, t) <=>
         k \in Int /\ d \in Calendar!DaysMatching(e, k) /\ t \in times
  BY DEF MonthHit
<1>10. \A x : Hit(s, x) <=> \E k, d, t : MonthHit(e, k, d, t) /\ x + zone = 86400 * d + t
  BY DEF Hit, MonthHit
<1> HIDE DEF e, zone, local, today, times, month
<1>11. months \in SUBSET Int /\ \A k \in months : month <= k
  BY <1>4
<1>12. K \in months /\ \A k \in months : K <= k
  <2> HIDE DEF months
  <2>1. NotBelow(months, month)
    BY <1>1, <1>4, <1>11 DEF NotBelow
  <2>2. Calendar!Min(months) \in months /\ \A k \in months : Calendar!Min(months) <= k
    BY <2>1, LowestIs
  <2> QED
    BY <2>2
<1>13. K \in Int /\ K \in month..(month + Horizon) /\ ahead(K) # {}
  BY <1>4, <1>12
<1> HIDE DEF K
<1>14. D \in ahead(K) /\ \A d \in ahead(K) : D <= d
  <2> HIDE DEF ahead
  <2> DEFINE S == ahead(K)
  <2>1. NotBelow(S, today)
    BY <1>3, <1>6, <1>13 DEF NotBelow
  <2> HIDE DEF S
  <2>2. Calendar!Min(S) \in S /\ \A d \in S : Calendar!Min(S) <= d
    BY <2>1, LowestIs
  <2> QED
    BY <2>2 DEF S
<1>15. D \in Int /\ today <= D /\ In(D, K) /\ D \in Calendar!DaysMatching(e, K)
  <2> HIDE DEF ahead, D
  <2> QED
    BY <1>5, <1>6, <1>13, <1>14
<1>a. D > today \/ (D = today /\ \E t \in times : 86400 * D + t > local)
  <2> HIDE DEF ahead, D
  <2> QED
    BY <1>5, <1>6, <1>13, <1>14
<1> HIDE DEF D
<1>16. left \in SUBSET Int /\ left # {} /\ \A t \in left : 0 <= t
  <2>1. left \in SUBSET Int /\ \A t \in left : 0 <= t
    BY <1>7
  <2>2. CASE D > today
    <3>1. PICK t \in times : TRUE
      BY <1>8
    <3>2. 86400 * D + t > local
      <4>1. 86400 * today + 86400 <= 86400 * D
        BY <1>3, <1>15, <2>2
      <4> QED
        BY <1>3, <1>7, <1>15, <3>1, <4>1
    <3> QED
      BY <2>1, <3>2
  <2>3. CASE D = today
    BY <1>3, <1>a, <2>1, <2>3
  <2> QED
    BY <1>a, <2>1, <2>2, <2>3
<1>17. T \in left /\ \A t \in left : T <= t
  <2> HIDE DEF left
  <2>1. NotBelow(left, 0)
    BY <1>16 DEF NotBelow
  <2>2. Calendar!Min(left) \in left /\ \A t \in left : Calendar!Min(left) <= t
    BY <2>1, LowestIs
  <2> QED
    BY <2>2
<1>18. T \in Int /\ 0 <= T /\ T < 86400 /\ T \in times /\ 86400 * D + T > local
  BY <1>7, <1>17
<1> HIDE DEF T
<1>19. n \in Int /\ n + zone = 86400 * D + T
  BY <1>3, <1>15, <1>18
<1>20. after < n
  BY <1>3, <1>15, <1>18, <1>19
<1>21. Hit(s, n)
  <2>1. MonthHit(e, K, D, T)
    BY <1>13, <1>15, <1>18 DEF MonthHit, times
  <2> QED
    BY <1>10, <1>19, <2>1
<1> HIDE DEF n
<1>22. ASSUME NEW x \in Int, Hit(s, x), after < x PROVE n <= x
  <2>1. PICK k, d, t : MonthHit(e, k, d, t) /\ x + zone = 86400 * d + t
    BY <1>10, <1>22
  <2>2. k \in Int /\ d \in Int /\ In(d, k) /\ t \in Int /\ 0 <= t /\ t < 86400
    BY <2>1, MonthHits
  <2>3. 86400 * d + t > local /\ today <= d
    BY <1>3, <1>22, <2>1, <2>2
  <2>4. d \in ahead(k)
    <3>1. d \in Calendar!DaysMatching(e, k) /\ t \in times
      BY <1>9, <2>1
    <3> QED
      BY <1>3, <1>5, <2>2, <2>3, <3>1
  <2>5. month <= k
    <3>1. CASE today = d
      BY <1>3, <1>4, <2>2, <3>1, MonthUnique
    <3>2. CASE today < d
      BY <1>3, <1>4, <2>2, <3>2, LaterDays
    <3> QED
      BY <1>3, <2>2, <2>3, <3>1, <3>2
  <2>6. ASSUME D < d PROVE n <= x
    <3>1. 86400 * D + 86400 <= 86400 * d
      BY <1>15, <2>2, <2>6
    <3> QED
      BY <1>3, <1>15, <1>18, <1>19, <2>1, <2>2, <3>1
  <2>7. CASE K < k
    <3>1. D < d
      BY <1>13, <1>15, <2>2, <2>7, LaterDays
    <3> QED
      BY <2>6, <3>1
  <2>8. CASE k <= K
    <3>1. k \in months
      <4>1. k \in month..(month + Horizon)
        BY <1>4, <1>13, <2>2, <2>5, <2>8
      <4> QED
        BY <2>4, <4>1
    <3>2. K <= k /\ K = k
      BY <1>12, <1>13, <2>2, <2>8, <3>1
    <3>3. D <= d
      BY <1>14, <2>4, <3>2
    <3>4. CASE D = d
      <4>1. t \in left
        BY <1>9, <2>1, <2>3, <3>4
      <4>2. T <= t
        BY <1>17, <4>1
      <4> QED
        BY <1>3, <1>15, <1>18, <1>19, <2>1, <2>2, <3>4, <4>2
    <3> QED
      BY <1>15, <2>2, <2>6, <3>3, <3>4
  <2> QED
    BY <1>13, <2>2, <2>7, <2>8
<1> QED
  BY <1>2, <1>19, <1>20, <1>21, <1>22

(* The last instant is the last of those that match and have come.         *)
LEMMA LastIs ==
  ASSUME NEW s, NEW instant \in Int, Calendar!Zone(s) \in Int, Horizon \in Nat,
         (instant + Calendar!Zone(s)) \div 86400 >= -366,
         Calendar!Times(s.expression) # {}
  PROVE  /\ \A v \in Calendar!last_at_or_before(s, instant) :
              /\ Calendar!last_at_or_before(s, instant) = {v}
              /\ v \in Int /\ v <= instant /\ Hit(s, v)
              /\ \A x \in Int : Hit(s, x) /\ x <= instant => x <= v
         /\ Hit(s, instant) => Calendar!last_at_or_before(s, instant) # {}
<1> DEFINE e == s.expression
           zone == Calendar!Zone(s)
           local == instant + zone
           times == Calendar!Times(e)
           today == local \div 86400
           month == Calendar!MonthOf(today)
           behind(k) == {d \in Calendar!DaysMatching(e, k) :
                          d < today \/ (d = today /\ \E t \in times : 86400 * d + t <= local)}
           months == {k \in (month - Horizon)..month : behind(k) # {}}
           K == Calendar!Max(months)
           D == Calendar!Max(behind(K))
           left == {t \in times : 86400 * D + t <= local}
           T == Calendar!Max(left)
           n == T + 86400 * D - zone
           last == Calendar!last_at_or_before(s, instant)
<1>0. last = IF months = {} THEN {} ELSE {n}
  BY DEF Calendar!last_at_or_before, Calendar!None, Calendar!Some
<1>3. /\ local \in Int /\ zone \in Int /\ today \in Int /\ today >= -366
      /\ 86400 * today <= local /\ local < 86400 * today + 86400 /\ local = instant + zone
  <2>1. local \in Int
    OBVIOUS
  <2> HIDE DEF local
  <2>2. 86400 * today <= local /\ local < 86400 * today + 86400 /\ today \in Int
    BY <2>1
  <2> QED
    BY <2>1, <2>2 DEF local
<1>4. month \in Int /\ In(today, month)
  <2> HIDE DEF today
  <2> QED
    BY <1>3, DateIs
<1>5. \A k, d : d \in behind(k) <=>
         /\ d \in Calendar!DaysMatching(e, k)
         /\ d < today \/ (d = today /\ \E t \in times : 86400 * d + t <= local)
  OBVIOUS
<1>6. \A k \in Int : behind(k) \in SUBSET Int /\ \A d \in behind(k) : d <= today /\ In(d, k)
  <2> TAKE k \in Int
  <2> HIDE DEF today, times, local, e
  <2>1. \A d \in behind(k) : d \in Int /\ In(d, k)
    BY MatchingIs
  <2> QED
    BY <1>3, <2>1
<1>7. \A t \in times : t \in Int /\ 0 <= t /\ t < 86400
  BY TimesAre
<1>8. times # {}
  OBVIOUS
<1>9. \A k, d, t : MonthHit(e, k, d, t) <=>
         k \in Int /\ d \in Calendar!DaysMatching(e, k) /\ t \in times
  BY DEF MonthHit
<1>10. \A x : Hit(s, x) <=> \E k, d, t : MonthHit(e, k, d, t) /\ x + zone = 86400 * d + t
  BY DEF Hit, MonthHit
<1> HIDE DEF e, zone, local, today, times, month, last
<1>11. months \in SUBSET Int /\ \A k \in months : k <= month
  BY <1>4
<1>b. ASSUME NEW k, NEW d, NEW t, MonthHit(e, k, d, t), 86400 * d + t <= local
      PROVE  /\ k \in Int /\ d \in Int /\ In(d, k) /\ t \in Int /\ 0 <= t /\ t < 86400
             /\ d <= today /\ k <= month /\ d \in behind(k)
  <2>1. k \in Int /\ d \in Int /\ In(d, k) /\ t \in Int /\ 0 <= t /\ t < 86400
    BY <1>b, MonthHits
  <2>2. d <= today
    BY <1>3, <1>b, <2>1
  <2>3. k <= month
    <3>1. CASE d = today
      BY <1>3, <1>4, <2>1, <3>1, MonthUnique
    <3>2. CASE d < today
      BY <1>3, <1>4, <2>1, <3>2, LaterDays
    <3> QED
      BY <1>3, <2>1, <2>2, <3>1, <3>2
  <2>4. d \in behind(k)
    <3>1. d \in Calendar!DaysMatching(e, k) /\ t \in times
      BY <1>9, <1>b
    <3> QED
      BY <1>3, <1>5, <1>b, <2>1, <2>2, <3>1
  <2> QED
    BY <2>1, <2>2, <2>3, <2>4
<1>c. ASSUME Hit(s, instant) PROVE last # {}
  <2>1. PICK k, d, t : MonthHit(e, k, d, t) /\ instant + zone = 86400 * d + t
    BY <1>10, <1>c
  <2>2. 86400 * d + t <= local /\ 86400 * d + t = local
    BY <1>3, <2>1
  <2>3. /\ k \in Int /\ d \in Int /\ In(d, k) /\ t \in Int /\ 0 <= t /\ t < 86400
        /\ d \in behind(k)
    BY <1>b, <2>1, <2>2
  <2>4. d = today
    BY <1>3, <2>2, <2>3
  <2>5. k = month
    BY <1>3, <1>4, <2>3, <2>4, MonthUnique
  <2>6. k \in months
    <3>1. k \in (month - Horizon)..month
      BY <1>4, <2>5
    <3> QED
      BY <2>3, <3>1
  <2> HIDE DEF months, n
  <2> QED
    BY <1>0, <2>6
<1>d. ASSUME last # {}
      PROVE  /\ last = {n} /\ n \in Int /\ n <= instant /\ Hit(s, n)
             /\ \A x \in Int : Hit(s, x) /\ x <= instant => x <= n
  <2>1. months # {} /\ last = {n}
    <3> HIDE DEF months, n
    <3> QED
      BY <1>0, <1>d
  <2>2. K \in months /\ \A k \in months : k <= K
    <3> HIDE DEF months
    <3>1. NotAbove(months, month)
      BY <1>4, <1>11, <2>1 DEF NotAbove
    <3>2. Calendar!Max(months) \in months /\ \A k \in months : k <= Calendar!Max(months)
      BY <3>1, HighestIs
    <3> QED
      BY <3>2
  <2>3. K \in Int /\ K \in (month - Horizon)..month /\ behind(K) # {}
    BY <1>4, <2>2
  <2> HIDE DEF K
  <2>4. D \in behind(K) /\ \A d \in behind(K) : d <= D
    <3> DEFINE S == behind(K)
    <3>1. NotAbove(S, today)
      BY <1>3, <1>6, <2>3 DEF NotAbove
    <3> HIDE DEF S
    <3>2. Calendar!Max(S) \in S /\ \A d \in S : d <= Calendar!Max(S)
      BY <3>1, HighestIs
    <3> QED
      BY <3>2 DEF S
  <2>5. D \in Int /\ D <= today /\ In(D, K) /\ D \in Calendar!DaysMatching(e, K)
    <3> HIDE DEF behind, D
    <3> QED
      BY <1>5, <1>6, <2>3, <2>4
  <2>6. D < today \/ (D = today /\ \E t \in times : 86400 * D + t <= local)
    <3> HIDE DEF behind, D
    <3> QED
      BY <1>5, <1>6, <2>3, <2>4
  <2> HIDE DEF D
  <2>7. left \in SUBSET Int /\ \A t \in left : t <= 86400
    BY <1>7
  <2>8. left # {}
    <3>1. CASE D < today
      <4>1. PICK t \in times : TRUE
        BY <1>8
      <4>2. 86400 * D + 86400 <= 86400 * today
        BY <1>3, <2>5, <3>1
      <4>3. 86400 * D + t <= local
        BY <1>3, <1>7, <2>5, <4>1, <4>2
      <4> QED
        BY <4>3
    <3>2. CASE D = today
      BY <1>3, <2>6, <3>2
    <3> QED
      BY <2>6, <3>1, <3>2
  <2>9. T \in left /\ \A t \in left : t <= T
    <3> HIDE DEF left
    <3>1. NotAbove(left, 86400)
      BY <2>7, <2>8 DEF NotAbove
    <3>2. Calendar!Max(left) \in left /\ \A t \in left : t <= Calendar!Max(left)
      BY <3>1, HighestIs
    <3> QED
      BY <3>2
  <2>10. T \in Int /\ 0 <= T /\ T < 86400 /\ T \in times /\ 86400 * D + T <= local
    BY <1>7, <2>9
  <2> HIDE DEF T
  <2>11. n \in Int /\ n + zone = 86400 * D + T
    BY <1>3, <2>5, <2>10
  <2>12. n <= instant
    BY <1>3, <2>5, <2>10, <2>11
  <2>13. Hit(s, n)
    <3>1. MonthHit(e, K, D, T)
      BY <2>3, <2>5, <2>10 DEF MonthHit, times
    <3> QED
      BY <1>10, <2>11, <3>1
  <2> HIDE DEF n
  <2>14. ASSUME NEW x \in Int, Hit(s, x), x <= instant PROVE x <= n
    <3>1. PICK k, d, t : MonthHit(e, k, d, t) /\ x + zone = 86400 * d + t
      BY <1>10, <2>14
    <3>2. 86400 * d + t <= local
      BY <1>3, <2>14, <3>1
    <3>3. /\ k \in Int /\ d \in Int /\ In(d, k) /\ t \in Int /\ 0 <= t /\ t < 86400
          /\ d <= today /\ k <= month /\ d \in behind(k)
      BY <1>b, <3>1, <3>2
    <3>4. ASSUME d < D PROVE x <= n
      <4>1. 86400 * d + 86400 <= 86400 * D
        BY <2>5, <3>3, <3>4
      <4> QED
        BY <1>3, <2>5, <2>10, <2>11, <3>1, <3>3, <4>1
    <3>5. CASE k < K
      <4>1. d < D
        BY <2>3, <2>5, <3>3, <3>5, LaterDays
      <4> QED
        BY <3>4, <4>1
    <3>6. CASE K <= k
      <4>1. k \in months
        <5>1. k \in (month - Horizon)..month
          BY <1>4, <2>3, <3>3, <3>6
        <5> QED
          BY <3>3, <5>1
      <4>2. k <= K /\ K = k
        BY <2>2, <2>3, <3>3, <3>6, <4>1
      <4>3. d <= D
        BY <2>4, <3>3, <4>2
      <4>4. CASE D = d
        <5>1. t \in left
          BY <1>9, <3>1, <3>2, <4>4
        <5>2. t <= T
          BY <2>9, <5>1
        <5> QED
          BY <1>3, <2>5, <2>10, <2>11, <3>1, <3>3, <4>4, <5>2
      <4> QED
        BY <2>5, <3>3, <3>4, <4>3, <4>4
    <3> QED
      BY <2>3, <3>3, <3>5, <3>6
  <2> QED
    BY <2>1, <2>11, <2>12, <2>13, <2>14
<1> HIDE DEF n, months
<1>e. ASSUME NEW v \in last
      PROVE  /\ last = {v} /\ v \in Int /\ v <= instant /\ Hit(s, v)
             /\ \A x \in Int : Hit(s, x) /\ x <= instant => x <= v
  <2>1. last # {}
    BY <1>e
  <2>2. v = n
    BY <1>d, <1>e, <2>1
  <2> QED
    BY <1>d, <2>1, <2>2
<1> QED
  BY <1>c, <1>e DEF last

(* A field that is well formed selects something.                          *)
LEMMA SelectsSome ==
  ASSUME NEW parts \in Seq(Parts), NEW min \in Nat, NEW max \in Nat, min <= max,
         Calendar!WellFormed(parts, min, max)
  PROVE  \E v \in min..max : Calendar!Selects(parts, v, min)
<1>1. parts # << >> /\ 1 \in DOMAIN parts
  BY DEF Calendar!WellFormed
<1> DEFINE p == parts[1]
<1>2. p \in Parts /\ p \in Calendar!Range(parts)
  BY <1>1 DEF Calendar!Range
<1>3. /\ p.is \in {"any", "at", "range", "every", "stepped"}
      /\ p.start \in Nat /\ p.end \in Nat /\ p.step \in Nat
  BY <1>2 DEF Parts
<1>4. /\ p.is = "at" => p.start \in min..max
      /\ p.is = "every" => p.step > 0
      /\ p.is \in {"range", "stepped"} => min <= p.start /\ p.start <= p.end /\ p.end <= max
  <2>1. \A q \in Calendar!Range(parts) :
          /\ q.is = "at" => q.start \in min..max
          /\ q.is = "every" => q.step > 0
          /\ q.is = "range" => min <= q.start /\ q.start <= q.end /\ q.end <= max
          /\ q.is = "stepped" => min <= q.start /\ q.start <= q.end /\ q.end <= max
    BY DEF Calendar!WellFormed
  <2> QED
    BY <1>2, <2>1
<1> DEFINE v == IF p.is \in {"any", "every"} THEN min ELSE p.start
           takes == CASE p.is = "any"     -> TRUE
                      [] p.is = "at"      -> v = p.start
                      [] p.is = "range"   -> p.start <= v /\ v <= p.end
                      [] p.is = "every"   -> (v - min) % p.step = 0
                      [] p.is = "stepped" -> v \in {p.start + k * p.step : k \in 0..59} /\ v <= p.end
<1> HIDE DEF p
<1>5. v \in min..max
  BY <1>3, <1>4
<1>6. takes
  <2>1. CASE p.is = "any"
    BY <2>1
  <2>2. CASE p.is = "at"
    BY <2>2
  <2>3. CASE p.is = "range"
    BY <1>3, <1>4, <2>3
  <2>4. CASE p.is = "every"
    <3>1. v - min = 0 /\ 0 % p.step = 0
      BY <1>3, <1>4, <2>4
    <3> QED
      BY <2>4, <3>1
  <2>5. CASE p.is = "stepped"
    <3>1. v = p.start + 0 * p.step /\ v <= p.end /\ 0 \in 0..59
      BY <1>3, <1>4, <2>5
    <3> HIDE DEF v
    <3>2. v \in {p.start + k * p.step : k \in 0..59}
      BY <3>1
    <3> QED
      BY <2>5, <3>1, <3>2
  <2> QED
    BY <1>3, <2>1, <2>2, <2>3, <2>4, <2>5
<1>7. takes => Calendar!Selects(parts, v, min)
  BY <1>2 DEF Calendar!Selects
<1> HIDE DEF v, takes
<1> QED
  BY <1>5, <1>6, <1>7

(* The times of a calendar are those that it means, and there is one.      *)
LEMMA TimesAreMeant ==
  ASSUME NEW c \in CalendarsAsked, FieldsFit(c)
  PROVE  /\ Calendar!Times(Calendar!Fields(c)) # {}
         /\ \A t \in Int : 0 <= t /\ t < 86400 =>
              (t \in Calendar!Times(Calendar!Fields(c))
                 <=> /\ t % 60 = 0
                     /\ Calendar!Selects(c.minutes, (t \div 60) % 60, 0)
                     /\ Calendar!Selects(c.hours, t \div 3600, 0))
<1> DEFINE e == Calendar!Fields(c)
           min(m) == Calendar!Selects(c.minutes, m, 0)
           hour(h) == Calendar!Selects(c.hours, h, 0)
<1>1. c.minutes \in Seq(Parts) /\ c.hours \in Seq(Parts)
  BY CalendarsAre
<1>2. Calendar!WellFormed(c.minutes, 0, 59) /\ Calendar!WellFormed(c.hours, 0, 23)
  BY DEF FieldsFit
<1>3. e.minutes = Calendar!Selector(c.minutes, 0, 59) /\ e.hours = Calendar!Selector(c.hours, 0, 23)
  BY FieldsAre
<1>4. 0 \in Nat /\ 59 \in Nat /\ 23 \in Nat /\ 0 <= 59 /\ 59 <= 0 + 59 /\ 0 <= 23 /\ 23 <= 0 + 59
  OBVIOUS
<1>5. \A m \in 0..59 : Calendar!Admits(e.minutes, m) <=> min(m)
  <2>1. \A m \in 0..59 : Calendar!Admits(Calendar!Selector(c.minutes, 0, 59), m) <=> min(m)
    BY <1>1, <1>2, <1>4, SelectorIs
  <2> HIDE DEF e, min
  <2> QED
    BY <1>3, <2>1
<1>6. \A h \in 0..23 : Calendar!Admits(e.hours, h) <=> hour(h)
  <2>1. \A h \in 0..23 : Calendar!Admits(Calendar!Selector(c.hours, 0, 23), h) <=> hour(h)
    BY <1>1, <1>2, <1>4, SelectorIs
  <2> HIDE DEF e, hour
  <2> QED
    BY <1>3, <2>1
<1>7. \E m \in 0..59 : min(m)
  BY <1>1, <1>2, <1>4, SelectsSome
<1>8. \E h \in 0..23 : hour(h)
  BY <1>1, <1>2, <1>4, SelectsSome
<1>9. \A t : t \in Calendar!Times(e) <=>
        \E h \in 0..23, m \in 0..59 :
          Calendar!Admits(e.hours, h) /\ Calendar!Admits(e.minutes, m) /\ t = 3600 * h + 60 * m
  BY DEF Calendar!Times
<1> HIDE DEF e, min, hour
<1>10. \A t : t \in Calendar!Times(e) <=>
        \E h \in 0..23, m \in 0..59 : hour(h) /\ min(m) /\ t = 3600 * h + 60 * m
  BY <1>5, <1>6, <1>9
<1>11. Calendar!Times(e) # {}
  <2>1. PICK h \in 0..23, m \in 0..59 : hour(h) /\ min(m)
    BY <1>7, <1>8
  <2>2. 3600 * h + 60 * m \in Calendar!Times(e)
    BY <1>10, <2>1
  <2> QED
    BY <2>2
<1>12. ASSUME NEW t \in Int, 0 <= t, t < 86400
       PROVE  t \in Calendar!Times(e) <=>
                t % 60 = 0 /\ min((t \div 60) % 60) /\ hour(t \div 3600)
  <2>1. ASSUME t \in Calendar!Times(e)
        PROVE  t % 60 = 0 /\ min((t \div 60) % 60) /\ hour(t \div 3600)
    <3>1. PICK h \in 0..23, m \in 0..59 : hour(h) /\ min(m) /\ t = 3600 * h + 60 * m
      BY <1>10, <2>1
    <3>2. t % 60 = 0 /\ t \div 60 = 60 * h + m /\ (60 * h + m) % 60 = m /\ t \div 3600 = h
      <4>1. h \in Int /\ m \in Int /\ 0 <= m /\ m < 60 /\ t = 3600 * h + 60 * m
        BY <3>1
      <4> QED
        BY <4>1
    <3> QED
      BY <3>1, <3>2
  <2>2. ASSUME t % 60 = 0, min((t \div 60) % 60), hour(t \div 3600)
        PROVE  t \in Calendar!Times(e)
    <3> DEFINE h == t \div 3600
               m == (t \div 60) % 60
    <3> DEFINE a == t \div 60
    <3>a. a \in Int /\ t = 60 * a
      BY <2>2
    <3> HIDE DEF a
    <3>b. a = 60 * (a \div 60) + (a % 60) /\ a \div 60 \in Int /\ a % 60 \in 0..59
      BY <3>a
    <3>c. a \div 60 = t \div 3600
      BY <3>a
    <3>d. t \div 3600 \in Int /\ 0 <= t \div 3600 /\ t \div 3600 <= 23
      BY <1>12
    <3>e. t \div 60 = a
      BY DEF a
    <3>1. h \in 0..23 /\ m \in 0..59 /\ t = 3600 * h + 60 * m
      BY <3>a, <3>b, <3>c, <3>d, <3>e
    <3> HIDE DEF h, m
    <3> QED
      BY <1>10, <2>2, <3>1 DEF h, m
  <2> QED
    BY <2>1, <2>2
<1> QED
  BY <1>11, <1>12 DEF e, min, hour

(* The zone of a crontab is that of its calendar, less than a day away.    *)
LEMMA ZoneOf ==
  ASSUME NEW s, s.timezone \subseteq DOMAIN Offset
  PROVE  /\ Calendar!Zone(s) \in Int /\ -86400 <= Calendar!Zone(s) /\ Calendar!Zone(s) <= 86400
         /\ Calendar!Zone(s) =
              IF s.timezone = Calendar!None THEN 0 ELSE Offset[Calendar!Value(s.timezone)]
<1>1. \A z \in DOMAIN Offset : Offset[z] \in Int /\ -86400 < Offset[z] /\ Offset[z] < 86400
  BY ZonesAssumption
<1>a. Offset["UTC"] = 0
  BY ZonesAssumption
<1>2. CASE s.timezone = {}
  <2>1. Calendar!Zone(s) = Offset["UTC"]
    BY <1>2 DEF Calendar!Zone, Calendar!None
  <2> QED
    BY <1>2, <1>a, <2>1 DEF Calendar!None
<1>3. CASE s.timezone # {}
  <2>1. Calendar!Zone(s) = Offset[Calendar!Value(s.timezone)]
    BY <1>3 DEF Calendar!Zone, Calendar!None
  <2>2. Calendar!Value(s.timezone) \in DOMAIN Offset
    BY <1>3 DEF Calendar!Value
  <2> QED
    BY <1>1, <1>3, <2>1, <2>2 DEF Calendar!None
<1> QED
  BY <1>2, <1>3

(* What a calendar compiles to.                                            *)
LEMMA CompiledIs ==
  ASSUME NEW c \in CalendarsAsked, Calendar!compile(c) # {}
  PROVE  LET s == Calendar!Value(Calendar!compile(c)) IN
           /\ s.expression = Calendar!Fields(c) /\ s.timezone = c.timezone
           /\ s.timezone \subseteq DOMAIN Offset /\ FieldsFit(c)
<1> DEFINE e == Calendar!Fields(c)
           z == c.timezone
           fits == z \subseteq DOMAIN Offset /\ Calendar!ExpressionParses(e) /\ Calendar!ever_matches(e)
           r == [expression |-> e, timezone |-> z]
<1>1. Calendar!compile(c) = IF fits THEN {r} ELSE {}
  BY DEF Calendar!compile, Calendar!parse_cron, Calendar!None, Calendar!Some
<1>2. r.expression = e /\ r.timezone = z
  OBVIOUS
<1>3. Calendar!ExpressionParses(e) <=> FieldsFit(c)
  BY ParsesIs
<1> HIDE DEF r
<1>4. fits /\ Calendar!compile(c) = {r}
  <2> HIDE DEF fits
  <2> QED
    BY <1>1
<1>5. Calendar!Value(Calendar!compile(c)) = r
  BY <1>4 DEF Calendar!Value
<1> HIDE DEF e, z
<1> QED
  BY <1>2, <1>3, <1>4, <1>5 DEF e, z

(* The days that match a crontab are those that its calendar means.        *)
LEMMA DayMeant ==
  ASSUME NEW c \in CalendarsAsked, FieldsFit(c), NEW day \in Int, day >= -366
  PROVE  Calendar!Meant(c, Calendar!DateOf(day).month, Calendar!DateOf(day).day, Calendar!WeekdayOf(day))
           <=> day \in Calendar!DaysMatching(Calendar!Fields(c), Calendar!MonthOf(day))
<1> DEFINE k == Calendar!MonthOf(day)
           m == (k % 12) + 1
           d == day - First(k) + 1
           w == Calendar!WeekdayOf(day)
           e == Calendar!Fields(c)
<1>1. /\ k \in Int /\ In(day, k)
      /\ Calendar!DateOf(day).month = m /\ Calendar!DateOf(day).day = d
  BY DateIs
<1> HIDE DEF k
<1>2. m \in 1..12
  BY <1>1
<1>3. d \in 1..31
  <2>1. First(k) \in Int /\ Long(k) \in 28..31 /\ First(k + 1) = First(k) + Long(k)
    BY <1>1, MonthsFollow
  <2> QED
    BY <1>1, <2>1 DEF In
<1>4. w \in 0..6
  BY DEF Calendar!WeekdayOf
<1>5. day \in Calendar!DaysMatching(e, k) <=> Calendar!DayFieldsMatch(e, m, d, w)
  <2>1. day \in Calendar!DaysMatching(e, k) <=>
           /\ day \in Int /\ In(day, k)
           /\ Calendar!DayFieldsMatch(e, (k % 12) + 1, day - First(k) + 1, Calendar!WeekdayOf(day))
    BY <1>1, MatchingIs
  <2> QED
    BY <1>1, <2>1
<1> HIDE DEF m, d, w
<1>6. Calendar!DayFieldsMatch(e, m, d, w) <=> Calendar!Meant(c, m, d, w)
  BY <1>2, <1>3, <1>4, DaysAreMeant
<1> QED
  BY <1>1, <1>5, <1>6 DEF k, w

(* The instants that match a crontab are those that its calendar means.    *)
LEMMA HitIsMeant ==
  ASSUME NEW c \in CalendarsAsked, FieldsFit(c), NEW s,
         s.expression = Calendar!Fields(c), s.timezone = c.timezone,
         s.timezone \subseteq DOMAIN Offset,
         NEW x \in Int, x >= -86400
  PROVE  Hit(s, x) <=> Calendar!MeantAt(c, x)
<1> DEFINE e == Calendar!Fields(c)
           zone == Calendar!Zone(s)
           local == x + zone
           day == local \div 86400
           time == local % 86400
           times == Calendar!Times(e)
           onDay == Calendar!Meant(c, Calendar!DateOf(day).month, Calendar!DateOf(day).day,
                                   Calendar!WeekdayOf(day))
           onTime == /\ time % 60 = 0
                     /\ Calendar!Selects(c.minutes, (time \div 60) % 60, 0)
                     /\ Calendar!Selects(c.hours, time \div 3600, 0)
<1>1. zone \in Int /\ -86400 <= zone /\ zone <= 86400
      /\ zone = IF c.timezone = Calendar!None THEN 0 ELSE Offset[Calendar!Value(c.timezone)]
  BY ZoneOf
<1>2. Calendar!MeantAt(c, x) <=> onDay /\ onTime
  BY <1>1 DEF Calendar!MeantAt
<1>3. local \in Int /\ local >= -172800
  BY <1>1
<1>4. day \in Int /\ day >= -366 /\ time \in Int /\ 0 <= time /\ time < 86400
      /\ local = 86400 * day + time
  <2> HIDE DEF local
  <2> QED
    BY <1>3
<1>5. Hit(s, x) <=> \E k, d, t : MonthHit(e, k, d, t) /\ local = 86400 * d + t
  BY DEF Hit, MonthHit
<1> HIDE DEF zone, local, day, time
<1>6. onTime <=> time \in times
  BY <1>4, TimesAreMeant
<1>7. onDay <=> day \in Calendar!DaysMatching(e, Calendar!MonthOf(day))
  BY <1>4, DayMeant
<1>8. Calendar!MonthOf(day) \in Int /\ In(day, Calendar!MonthOf(day))
  BY <1>4, DateIs
<1> HIDE DEF onDay, onTime, e
<1>9. ASSUME NEW k, NEW d, NEW t, MonthHit(e, k, d, t), local = 86400 * d + t
      PROVE  onDay /\ onTime
  <2>1. k \in Int /\ d \in Int /\ In(d, k) /\ t \in Int /\ 0 <= t /\ t < 86400
    BY <1>9, MonthHits
  <2>2. d = day /\ t = time
    <3>1. 86400 * d + t = 86400 * day + time
      BY <1>4, <1>9
    <3>2. d <= day /\ day <= d
      BY <1>4, <2>1, <3>1
    <3> QED
      BY <1>4, <2>1, <3>1, <3>2
  <2>3. k = Calendar!MonthOf(day)
    BY <1>4, <1>8, <2>1, <2>2, MonthUnique
  <2>4. d \in Calendar!DaysMatching(e, k) /\ t \in times
    BY <1>9 DEF MonthHit
  <2> QED
    BY <1>6, <1>7, <2>2, <2>3, <2>4
<1>10. ASSUME onDay, onTime
       PROVE  \E k, d, t : MonthHit(e, k, d, t) /\ local = 86400 * d + t
  <2>1. MonthHit(e, Calendar!MonthOf(day), day, time)
    BY <1>6, <1>7, <1>8, <1>10 DEF MonthHit
  <2> QED
    BY <1>4, <2>1
<1> QED
  BY <1>2, <1>5, <1>9, <1>10

(* A firing is at the first instant that is meant and not yet past.        *)
LEMMA FiringMeans ==
  ASSUME CalendarInv, part = "calendar", at \in Nat, Calendar!Fire
  PROVE  Calendar!FiringIsMeant /\ at' \in Nat
<1> DEFINE c == calendar
           s == Calendar!Value(compiled)
           zone == Calendar!Zone(s)
           e == Calendar!Fields(c)
           times == Calendar!Times(e)
           n == at'
           first == (at + zone) \div 86400
           last == (n + zone) \div 86400
           skipped(day) == {86400 * day + 60 * k - zone : k \in 0..1439} \cap (at + 1)..(n - 1)
<1>1. compiled # {} /\ compiled = Calendar!compile(c) /\ c \in CalendarsAsked
  BY DEF CalendarInv, Calendar!Fire, Calendar!None
<1>2. /\ s.expression = e /\ s.timezone = c.timezone
      /\ s.timezone \subseteq DOMAIN Offset /\ FieldsFit(c)
  BY <1>1, CompiledIs
<1>3. Calendar!next_after(s, at) # {} /\ n = Calendar!Value(Calendar!next_after(s, at))
  BY DEF Calendar!Fire, Calendar!None
<1>4. zone \in Int /\ -86400 <= zone /\ zone <= 86400
  BY <1>2, ZoneOf
<1>5. Horizon \in Nat
  BY ZonesAssumption
<1>6. times # {} /\ \A t \in times : t \in Int /\ 0 <= t /\ t < 86400
  BY <1>1, <1>2, TimesAreMeant, TimesAre
<1> HIDE DEF c, s, zone, e, times, n
<1>a. /\ at + zone \in Int /\ 86400 * first <= at + zone /\ at + zone < 86400 * first + 86400
      /\ first \in Int /\ first >= -366
  BY <1>4
<1>7. /\ n \in Int /\ at < n /\ Hit(s, n)
      /\ \A x \in Int : Hit(s, x) /\ at < x => n <= x
  <2>1. first >= -366 /\ at \in Int
    BY <1>a
  <2>2. Calendar!Zone(s) \in Int /\ (at + Calendar!Zone(s)) \div 86400 >= -366
        /\ Calendar!Times(s.expression) # {}
    BY <1>2, <1>4, <1>6, <2>1 DEF zone, times
  <2> DEFINE v == Calendar!Value(Calendar!next_after(s, at))
  <2>3. Calendar!next_after(s, at) # {}
    BY <1>3
  <2>4. /\ v \in Int /\ at < v /\ Hit(s, v)
        /\ \A x \in Int : Hit(s, x) /\ at < x => v <= x
    BY <1>5, <2>1, <2>2, <2>3, NextIs
  <2>5. n = v
    BY <1>3
  <2> HIDE DEF v
  <2> QED
    BY <2>4, <2>5
<1>b. /\ n + zone \in Int /\ 86400 * last <= n + zone /\ n + zone < 86400 * last + 86400
      /\ last \in Int /\ last >= -366 /\ (n - 1 + zone) \div 86400 >= -366
  BY <1>4, <1>7
<1>8. \A x \in Int : x > at => (Hit(s, x) <=> Calendar!MeantAt(c, x))
  <2> TAKE x \in Int
  <2> HAVE x > at
  <2>1. x >= -86400
    OBVIOUS
  <2> QED
    BY <1>1, <1>2, <2>1, HitIsMeant DEF e
<1> HIDE DEF first, last
<1>9. Calendar!MeantAt(c, n)
  BY <1>7, <1>8
<1>10. \A x \in Int : at < x /\ x < n => ~Hit(s, x)
  BY <1>7
<1>11. \A day : \A x \in skipped(day) : ~Calendar!MeantAt(c, x)
  <2> TAKE day
  <2> TAKE x \in skipped(day)
  <2>1. x \in Int /\ at < x /\ x < n
    BY <1>7
  <2> QED
    BY <1>8, <1>10, <2>1
<1>12. \A day \in (first + 1)..(last - 1) :
         ~Calendar!Meant(c, Calendar!DateOf(day).month, Calendar!DateOf(day).day,
                         Calendar!WeekdayOf(day))
  <2> TAKE day \in (first + 1)..(last - 1)
  <2>1. day \in Int /\ first < day /\ day < last /\ day >= -366
    BY <1>a, <1>b
  <2>2. SUFFICES ASSUME day \in Calendar!DaysMatching(e, Calendar!MonthOf(day)) PROVE FALSE
    BY <1>1, <1>2, <2>1, DayMeant DEF e
  <2>3. PICK t \in times : TRUE
    BY <1>6
  <2>4. t \in Int /\ 0 <= t /\ t < 86400
    BY <1>6
  <2> DEFINE x == 86400 * day + t - zone
  <2>5. x \in Int /\ x + zone = 86400 * day + t
    BY <1>4, <2>1, <2>4
  <2>6. at < x /\ x < n
    <3>1. 86400 * first + 86400 <= 86400 * day /\ 86400 * day + 86400 <= 86400 * last
      BY <1>a, <1>b, <2>1
    <3> QED
      BY <1>4, <1>7, <1>a, <1>b, <2>1, <2>4, <2>5, <3>1
  <2>7. Calendar!MonthOf(day) \in Int
    BY <2>1, DateIs
  <2>8. Hit(s, x)
    BY <1>2, <2>2, <2>4, <2>5, <2>7 DEF Hit, zone, times
  <2> HIDE DEF x
  <2> QED
    BY <1>10, <2>5, <2>6, <2>8
<1>c. Calendar!Zone(s) \in Int /\ Calendar!Times(s.expression) # {}
  BY <1>2, <1>4, <1>6 DEF zone, times
<1>13. Calendar!last_at_or_before(s, n) = {n}
  <2>1. (n + Calendar!Zone(s)) \div 86400 >= -366
    BY <1>b DEF zone, last
  <2> DEFINE past == Calendar!last_at_or_before(s, n)
  <2>2. /\ \A v \in past : /\ past = {v}
                           /\ v \in Int /\ v <= n /\ Hit(s, v)
                           /\ \A x \in Int : Hit(s, x) /\ x <= n => x <= v
        /\ Hit(s, n) => past # {}
    BY <1>5, <1>7, <1>c, <2>1, LastIs
  <2> HIDE DEF past
  <2>3. PICK v \in past : TRUE
    BY <1>7, <2>2
  <2>4. v \in Int /\ v <= n /\ n <= v /\ past = {v}
    BY <1>7, <2>2
  <2>5. v = n
    BY <1>7, <2>4
  <2> QED
    BY <2>4, <2>5 DEF past
<1>14. \A x \in Calendar!last_at_or_before(s, n - 1) : x <= at
  <2>1. (n - 1 + Calendar!Zone(s)) \div 86400 >= -366 /\ n - 1 \in Int
    BY <1>7, <1>b DEF zone
  <2> DEFINE i == n - 1
             past == Calendar!last_at_or_before(s, i)
  <2>a. i \in Int /\ (i + Calendar!Zone(s)) \div 86400 >= -366
    BY <2>1
  <2>b. i < n
    BY <1>7
  <2> HIDE DEF i
  <2>2. \A v \in past : v \in Int /\ v <= i /\ Hit(s, v)
    BY <1>5, <1>c, <2>a, LastIs
  <2> HIDE DEF past
  <2>3. \A v \in past : v <= at
    <3> TAKE v \in past
    <3>1. v \in Int /\ v < n /\ Hit(s, v)
      BY <1>7, <2>2, <2>a, <2>b
    <3> QED
      BY <1>10, <3>1
  <2> QED
    BY <2>3 DEF past, i
<1>15. n \in Nat
  BY <1>7
<1>16. Calendar!FiringIsMeant
  <2>1. Calendar!last_at_or_before(s, n) = Calendar!Some(n)
    BY <1>13 DEF Calendar!Some
  <2> QED
    BY <1>7, <1>9, <1>11, <1>12, <1>14, <2>1
    DEF Calendar!FiringIsMeant, c, s, zone, first, last, n
<1> QED
  BY <1>15, <1>16 DEF n

(* Time does not go back behind 1970.                                      *)
TimeInv == CalendarInv /\ (part = "calendar" => at \in Nat)

(* A step keeps time ahead, and a firing is at an instant that is meant.   *)
LEMMA TimeStep ==
  ASSUME TimeInv, [LoopNext]_<<loopVars, part, calendarVars, bindingVars>>
  PROVE  /\ TimeInv'
         /\ [part = "calendar" => Calendar!FiringIsMeant]_calendarVars
<1>1. CalendarInv /\ CalendarInv'
  BY CalendarStep DEF TimeInv
<1>2. part' = part
  BY DEF LoopNext
<1>3. CASE part = "calendar" /\ Calendar!Register
  <2>1. at' = at
    BY <1>3 DEF Calendar!Register
  <2> QED
    BY <1>1, <1>2, <2>1 DEF TimeInv, Calendar!FiringIsMeant
<1>4. CASE part = "calendar" /\ Calendar!Fire
  <2>1. Calendar!FiringIsMeant /\ at' \in Nat
    BY <1>1, <1>4, FiringMeans DEF TimeInv
  <2> QED
    BY <1>1, <2>1 DEF TimeInv
<1>5. CASE UNCHANGED calendarVars
  <2>1. UNCHANGED at
    BY <1>5 DEF calendarVars
  <2> QED
    BY <1>1, <1>2, <1>5, <2>1 DEF TimeInv
<1>6. \/ part = "calendar" /\ Calendar!Register
      \/ part = "calendar" /\ Calendar!Fire
      \/ UNCHANGED calendarVars
  BY DEF LoopNext, Calendar!Next
<1> QED
  BY <1>3, <1>4, <1>5, <1>6

(* A calendar fires at all the instants it means after it was asked for,   *)
(* and at no other: each firing is at the first that is meant and still    *)
(* ahead, across months and years, and what list shows as the last is it.  *)
THEOREM FiringsAreMeant == LoopSafe => FiresWhenMeant
<1>1. LoopInit => TimeInv
  <2> SUFFICES ASSUME LoopInit PROVE TimeInv
    OBVIOUS
  <2>1. CalendarInv
    BY DEF LoopInit, CalendarInv, Calendar!Init, Calendar!None
  <2>2. part = "calendar" => at \in AskedAt
    BY DEF LoopInit, Calendar!Init
  <2>3. AskedAt \subseteq Nat
    BY ZonesAssumption
  <2> QED
    BY <2>1, <2>2, <2>3 DEF TimeInv
<1>2. TimeInv /\ [LoopNext]_<<loopVars, part, calendarVars, bindingVars>> => TimeInv'
  BY TimeStep
<1>3. TimeInv /\ [LoopNext]_<<loopVars, part, calendarVars, bindingVars>>
        => [part = "calendar" => Calendar!FiringIsMeant]_calendarVars
  BY TimeStep
<1> QED
  BY <1>1, <1>2, <1>3, PTL DEF LoopSafe, FiresWhenMeant

-----------------------------------------------------------------------------
(***************************************************************************)
(* Bindings: durations are sums that fit, the loops over the entries see   *)
(* each place once, and what they have taken is what was said so far.      *)
(***************************************************************************)

NumberOrNone == {{}} \cup {{n} : n \in Nat}
Piece == [number : NumberOrNone, unit : STRING]

(* The numbers of a unit.                                                  *)
LEMMA ScaleIs == \A u \in DOMAIN Deployed!Scale : Deployed!Scale[u] \in Nat \ {0}
<1>1. NANOS_PER_MILLI \in Nat \ {0} /\ NANOS_PER_SEC \in Nat \ {0}
  BY NumbersAssumption
<1>2. /\ 60 * NANOS_PER_SEC \in Nat \ {0} /\ 3600 * NANOS_PER_SEC \in Nat \ {0}
      /\ 86400 * NANOS_PER_SEC \in Nat \ {0}
  BY <1>1
<1> QED
  BY <1>1, <1>2 DEF Deployed!Scale

(* Whether a product fits is found out by division.                        *)
LEMMA Overflows ==
  ASSUME NEW n \in Nat, NEW s \in Nat \ {0}, NEW max \in Nat
  PROVE  n > max \div s <=> n * s > max
<1> DEFINE q == max \div s
           r == max % s
<1>1. q \in Nat /\ r \in 0..s - 1 /\ max = s * q + r
  OBVIOUS
<1> HIDE DEF q, r
<1>2. ASSUME n > q PROVE n * s > max
  <2>1. n - q \in Nat /\ n - q >= 1
    BY <1>1, <1>2
  <2>2. \A i \in Nat : i >= 1 => i * s >= s
    OBVIOUS
  <2>3. n * s = (n - q) * s + s * q
    BY <1>1
  <2>4. (n - q) * s >= s /\ (n - q) * s \in Nat /\ s * q \in Nat
    BY <1>1, <2>1, <2>2
  <2> DEFINE x == (n - q) * s
             y == s * q
             z == n * s
  <2> HIDE DEF x, y, z
  <2>5. x >= s /\ x \in Nat /\ y \in Nat /\ z = x + y /\ max = y + r
    BY <1>1, <2>3, <2>4 DEF x, y, z
  <2>6. z > max
    BY <1>1, <2>5
  <2> QED
    BY <2>6 DEF z
<1>3. ASSUME n <= q PROVE n * s <= max
  <2>1. q - n \in Nat
    BY <1>1, <1>3
  <2>2. (q - n) * s \in Nat /\ n * s \in Nat /\ s * q = (q - n) * s + n * s
    BY <1>1, <2>1
  <2> DEFINE x == (q - n) * s
             y == n * s
             z == s * q
  <2> HIDE DEF x, y, z
  <2>3. x \in Nat /\ y \in Nat /\ z = x + y /\ max = z + r
    BY <1>1, <2>2 DEF x, y, z
  <2>4. y <= max
    BY <1>1, <2>3
  <2> QED
    BY <2>4 DEF y
<1>4. n * s \in Nat
  OBVIOUS
<1> QED
  BY <1>1, <1>2, <1>3, <1>4 DEF q

(* What a piece of a duration is worth, if it can be read.                 *)
Readable(piece) == piece.number # {} /\ piece.unit \in DOMAIN Deployed!Scale
Worth(piece) == Deployed!Value(piece.number) * Deployed!Scale[piece.unit]

(* A piece that can be read is worth a number.                             *)
LEMMA WorthIs ==
  ASSUME NEW piece \in Piece, Readable(piece)
  PROVE  Worth(piece) \in Nat
<1>1. PICK n \in Nat : piece.number = {n}
  BY DEF Piece, NumberOrNone, Readable
<1>2. Deployed!Value(piece.number) = n
  BY <1>1 DEF Deployed!Value
<1>3. Deployed!Scale[piece.unit] \in Nat
  BY ScaleIs DEF Readable
<1> QED
  BY <1>2, <1>3 DEF Worth

(* One more piece of a sum, which may be too much.                          *)
LEMMA AddIs ==
  ASSUME NEW total \in NumberOrNone, NEW piece \in Piece
  PROVE  /\ Deployed!AddPart(total, piece) \in NumberOrNone
         /\ total = {} \/ ~Readable(piece) => Deployed!AddPart(total, piece) = {}
         /\ \A v \in 0..U64Max : total = {v} /\ Readable(piece) =>
              Deployed!AddPart(total, piece)
                = IF v + Worth(piece) <= U64Max THEN {v + Worth(piece)} ELSE {}
<1> DEFINE over == \/ Deployed!Value(piece.number) > U64Max \div Deployed!Scale[piece.unit]
                   \/ Worth(piece) > U64Max - Deployed!Value(total)
<1>1. Deployed!AddPart(total, piece)
        = IF total = {} \/ ~Readable(piece) \/ over THEN {}
          ELSE {Deployed!Value(total) + Worth(piece)}
  BY DEF Deployed!AddPart, Deployed!None, Deployed!Some, Readable, Worth
<1>2. ASSUME NEW v \in Nat, total = {v}, Readable(piece)
      PROVE  /\ Worth(piece) \in Nat
             /\ Deployed!AddPart(total, piece) = IF over THEN {} ELSE {v + Worth(piece)}
             /\ v <= U64Max => (over <=> v + Worth(piece) > U64Max)
  <2>1. Deployed!Value(total) = v
    BY <1>2 DEF Deployed!Value
  <2>2. PICK n \in Nat : piece.number = {n}
    BY <1>2 DEF Piece, NumberOrNone, Readable
  <2>3. Deployed!Value(piece.number) = n
    BY <2>2 DEF Deployed!Value
  <2> DEFINE s == Deployed!Scale[piece.unit]
  <2>4. s \in Nat \ {0}
    BY <1>2, ScaleIs DEF Readable
  <2>5. Worth(piece) = n * s
    BY <2>3 DEF Worth
  <2>6. over <=> n > U64Max \div s \/ Worth(piece) > U64Max - v
    BY <2>1, <2>3
  <2> HIDE DEF s, over
  <2>7. n > U64Max \div s <=> Worth(piece) > U64Max
    BY <2>4, <2>5, Overflows, NumbersAssumption
  <2>8. Worth(piece) \in Nat /\ U64Max \in Nat
    BY <1>2, WorthIs, NumbersAssumption
  <2>9. v <= U64Max => (over <=> v + Worth(piece) > U64Max)
    BY <2>6, <2>7, <2>8
  <2>10. Deployed!AddPart(total, piece) = IF over THEN {} ELSE {v + Worth(piece)}
    BY <1>1, <1>2, <2>1
  <2> QED
    BY <2>8, <2>9, <2>10
<1> HIDE DEF over
<1>3. total = {} \/ \E v \in Nat : total = {v}
  BY DEF NumberOrNone
<1>4. Deployed!AddPart(total, piece) \in NumberOrNone
  <2>1. CASE total = {} \/ ~Readable(piece)
    BY <1>1, <2>1 DEF NumberOrNone
  <2>2. CASE total # {} /\ Readable(piece)
    <3>1. PICK v \in Nat : total = {v}
      BY <1>3, <2>2
    <3>2. Worth(piece) \in Nat /\ Deployed!AddPart(total, piece) = IF over THEN {} ELSE {v + Worth(piece)}
      BY <1>2, <2>2, <3>1
    <3> QED
      BY <3>2 DEF NumberOrNone
  <2> QED
    BY <2>1, <2>2
<1>5. total = {} \/ ~Readable(piece) => Deployed!AddPart(total, piece) = {}
  BY <1>1
<1>6. ASSUME NEW v \in 0..U64Max, total = {v}, Readable(piece)
      PROVE  Deployed!AddPart(total, piece)
                = IF v + Worth(piece) <= U64Max THEN {v + Worth(piece)} ELSE {}
  <2>1. U64Max \in Nat /\ v \in Nat /\ v <= U64Max
    BY <1>6, NumbersAssumption
  <2>2. /\ Worth(piece) \in Nat
        /\ Deployed!AddPart(total, piece) = IF over THEN {} ELSE {v + Worth(piece)}
        /\ over <=> v + Worth(piece) > U64Max
    BY <1>2, <1>6, <2>1
  <2> QED
    BY <2>1, <2>2
<1> QED
  BY <1>4, <1>5, <1>6

-----------------------------------------------------------------------------
(* The rounds of parse_duration.                                           *)
LEMMA DurationSteps ==
  ASSUME NEW text \in Seq(Piece)
  PROVE  \E f : /\ Deployed!FoldLeft(Deployed!AddPart, {0}, text) = f[Len(text)]
                /\ f[0] = {0}
                /\ \A k \in 1..Len(text) : f[k] = Deployed!AddPart(f[k - 1], text[k])
                /\ \A k \in 0..Len(text) : f[k] \in NumberOrNone
<1> DEFINE n == Len(text)
           dom == DOMAIN text
           step == [p \in NumberOrNone \X dom |-> Deployed!AddPart(p[1], text[p[2]])]
           D(g, t) == IF t = {} THEN {0} ELSE Deployed!AddPart(g[t \ {Max(t)}], text[Max(t)])
           IsF(g) == g = [t \in SUBSET dom |-> D(g, t)]
           F == CHOOSE g : IsF(g)
<1>1. n \in Nat /\ dom = 1..n /\ \A k \in dom : text[k] \in Piece
  OBVIOUS
<1>2. \A t \in NumberOrNone, k \in dom : /\ step[<<t, k>>] = Deployed!AddPart(t, text[k])
                              /\ step[<<t, k>>] \in NumberOrNone
  <2>1. \A t \in NumberOrNone, k \in dom : Deployed!AddPart(t, text[k]) \in NumberOrNone
    BY <1>1, AddIs
  <2>2. \A t \in NumberOrNone, k \in dom : step[<<t, k>>] = Deployed!AddPart(t, text[k])
    OBVIOUS
  <2> HIDE DEF step, dom
  <2> QED
    BY <2>1, <2>2
<1>3. ASSUME NEW g, g = [t \in SUBSET dom |-> g[t]], g[{}] = {0},
             \A t \in SUBSET dom :
               /\ t # {} => g[t] = step[<<g[t \ {Max(t)}], Max(t)>>]
               /\ g[t] \in NumberOrNone
      PROVE  IsF(g)
  <2> HIDE DEF step
  <2>1. ASSUME NEW t \in SUBSET dom, t # {}
        PROVE  step[<<g[t \ {Max(t)}], Max(t)>>] = D(g, t)
    <3>1. Max(t) \in dom /\ g[t \ {Max(t)}] \in NumberOrNone
      BY <1>1, <1>3, <2>1, MaxIn
    <3> QED
      BY <1>2, <2>1, <3>1
  <2>2. \A t \in SUBSET dom : g[t] = D(g, t)
    BY <1>3, <2>1
  <2> HIDE DEF D
  <2> QED
    BY <1>3, <2>2
<1>4. F = [t \in SUBSET dom |-> D(F, t)]
  <2>0. step \in [NumberOrNone \X dom -> NumberOrNone]
    <3>1. /\ step = [p \in NumberOrNone \X dom |-> step[p]]
          /\ \A p \in NumberOrNone \X dom : p = <<p[1], p[2]>> /\ p[1] \in NumberOrNone /\ p[2] \in dom
      OBVIOUS
    <3> HIDE DEF step
    <3>2. \A p \in NumberOrNone \X dom : step[p] \in NumberOrNone
      BY <1>2, <3>1
    <3> QED
      BY <3>1, <3>2
  <2>z. step \in [NumberOrNone \X (1..n) -> NumberOrNone]
    BY <1>1, <2>0
  <2> HIDE DEF step, n, dom
  <2>1. \E g : /\ g = [t \in SUBSET (1..n) |-> g[t]]
               /\ g[{}] = {0}
               /\ \A t \in SUBSET (1..n) :
                    /\ t # {} => g[t] = step[<<g[t \ {Max(t)}], Max(t)>>]
                    /\ g[t] \in NumberOrNone
    <3>1. \A b \in NumberOrNone, st \in [NumberOrNone \X (1..n) -> NumberOrNone] :
            \E g : /\ g = [t \in SUBSET (1..n) |-> g[t]]
                   /\ g[{}] = b
                   /\ \A t \in SUBSET (1..n) :
                        /\ t # {} => g[t] = st[<<g[t \ {Max(t)}], Max(t)>>]
                        /\ g[t] \in NumberOrNone
      BY <1>1, FoldExists
    <3>2. {0} \in NumberOrNone
      BY DEF NumberOrNone
    <3> QED
      BY ZenonT(40), <2>z, <3>1, <3>2
  <2> HIDE DEF IsF
  <2>2. \E g : IsF(g)
    BY <1>1, <1>3, <2>1
  <2>3. IsF(F)
    BY <2>2
  <2> QED
    BY <2>3 DEF IsF
<1>5. Deployed!FoldLeft(Deployed!AddPart, {0}, text) = F[dom]
  <2>1. \A t : Deployed!Max(t) = Max(t)
    BY DEF Deployed!Max, Max
  <2> HIDE DEF n
  <2> QED
    BY <2>1 DEF Deployed!FoldLeft, Deployed!MapThenFoldSet
<1> HIDE DEF F, step
<1> DEFINE f == [k \in 0..n |-> F[1..k]]
<1>6. f[0] = {0} /\ f[n] = F[dom]
  <2>1. 1..0 = {} /\ {} \in SUBSET dom /\ 0 \in 0..n /\ n \in 0..n
    BY <1>1
  <2>2. F[{}] = D(F, {})
    BY <1>4, <2>1
  <2> HIDE DEF n, dom
  <2>3. f[0] = F[{}] /\ f[n] = F[1..n]
    BY <2>1
  <2> QED
    BY <1>1, <2>2, <2>3
<1>7. ASSUME NEW k \in 1..n PROVE f[k] = Deployed!AddPart(f[k - 1], text[k])
  <2>1. k \in Nat /\ k # 0 /\ 1..k \in SUBSET dom /\ k \in 0..n /\ k - 1 \in 0..n
    BY <1>1
  <2>2. 1..k # {} /\ Max(1..k) = k /\ (1..k) \ {Max(1..k)} = 1..(k - 1)
    BY <2>1, MaxUpTo
  <2>3. F[1..k] = D(F, 1..k)
    BY <1>4, <2>1
  <2> QED
    BY <2>1, <2>2, <2>3
<1> HIDE DEF f
<1> DEFINE P == {k \in Nat : k <= n => f[k] \in NumberOrNone}
<1>8. \A k \in 0..n : f[k] \in NumberOrNone
  <2>1. 0 \in P
    BY <1>6 DEF NumberOrNone
  <2>2. ASSUME NEW k \in P PROVE k + 1 \in P
    <3> SUFFICES ASSUME k + 1 <= n PROVE f[k + 1] \in NumberOrNone
      OBVIOUS
    <3>1. k + 1 \in 1..n /\ (k + 1) - 1 = k /\ f[k] \in NumberOrNone /\ k + 1 \in dom
      BY <1>1
    <3>2. f[k + 1] = Deployed!AddPart(f[k], text[k + 1])
      BY <1>7, <3>1
    <3>3. step[<<f[k], k + 1>>] = Deployed!AddPart(f[k], text[k + 1]) /\ step[<<f[k], k + 1>>] \in NumberOrNone
      BY <1>2, <3>1
    <3> QED
      BY <3>2, <3>3
  <2>3. P = Nat
    <3>1. P \in SUBSET Nat
      OBVIOUS
    <3> HIDE DEF P
    <3> QED
      BY <2>1, <2>2, <3>1, Inductive
  <2> QED
    BY <1>1, <2>3
<1> QED
  BY <1>1, <1>5, <1>6, <1>7, <1>8

(* The rounds of the sum of a text.                                        *)
LEMMA TotalSteps ==
  ASSUME NEW text \in Seq(Piece), \A k \in 1..Len(text) : Readable(text[k])
  PROVE  \E f : /\ Deployed!Total(text) = f[Len(text)]
                /\ f[0] = 0
                /\ \A k \in 1..Len(text) : f[k] = f[k - 1] + Worth(text[k])
                /\ \A k \in 0..Len(text) : f[k] \in Nat
<1> DEFINE n == Len(text)
           dom == DOMAIN text
           step == [p \in Nat \X dom |-> p[1] + Worth(text[p[2]])]
           D(g, t) == IF t = {} THEN 0 ELSE g[t \ {Max(t)}] + Worth(text[Max(t)])
           IsF(g) == g = [t \in SUBSET dom |-> D(g, t)]
           F == CHOOSE g : IsF(g)
<1>1. n \in Nat /\ dom = 1..n /\ \A k \in dom : text[k] \in Piece /\ Readable(text[k])
  OBVIOUS
<1>2. \A t \in Nat, k \in dom : /\ step[<<t, k>>] = t + Worth(text[k])
                              /\ step[<<t, k>>] \in Nat
  <2>1. \A t \in Nat, k \in dom : t + Worth(text[k]) \in Nat
    BY <1>1, WorthIs
  <2>2. \A t \in Nat, k \in dom : step[<<t, k>>] = t + Worth(text[k])
    OBVIOUS
  <2> HIDE DEF step, dom
  <2> QED
    BY <2>1, <2>2
<1>3. ASSUME NEW g, g = [t \in SUBSET dom |-> g[t]], g[{}] = 0,
             \A t \in SUBSET dom :
               /\ t # {} => g[t] = step[<<g[t \ {Max(t)}], Max(t)>>]
               /\ g[t] \in Nat
      PROVE  IsF(g)
  <2> HIDE DEF step
  <2>1. ASSUME NEW t \in SUBSET dom, t # {}
        PROVE  step[<<g[t \ {Max(t)}], Max(t)>>] = D(g, t)
    <3>1. Max(t) \in dom /\ g[t \ {Max(t)}] \in Nat
      BY <1>1, <1>3, <2>1, MaxIn
    <3> QED
      BY <1>2, <2>1, <3>1
  <2>2. \A t \in SUBSET dom : g[t] = D(g, t)
    BY <1>3, <2>1
  <2> HIDE DEF D
  <2> QED
    BY <1>3, <2>2
<1>4. F = [t \in SUBSET dom |-> D(F, t)]
  <2>0. step \in [Nat \X dom -> Nat]
    <3>1. /\ step = [p \in Nat \X dom |-> step[p]]
          /\ \A p \in Nat \X dom : p = <<p[1], p[2]>> /\ p[1] \in Nat /\ p[2] \in dom
      OBVIOUS
    <3> HIDE DEF step
    <3>2. \A p \in Nat \X dom : step[p] \in Nat
      BY <1>2, <3>1
    <3> QED
      BY <3>1, <3>2
  <2>z. step \in [Nat \X (1..n) -> Nat]
    BY <1>1, <2>0
  <2> HIDE DEF step, n, dom
  <2>1. \E g : /\ g = [t \in SUBSET (1..n) |-> g[t]]
               /\ g[{}] = 0
               /\ \A t \in SUBSET (1..n) :
                    /\ t # {} => g[t] = step[<<g[t \ {Max(t)}], Max(t)>>]
                    /\ g[t] \in Nat
    <3>1. \A b \in Nat, st \in [Nat \X (1..n) -> Nat] :
            \E g : /\ g = [t \in SUBSET (1..n) |-> g[t]]
                   /\ g[{}] = b
                   /\ \A t \in SUBSET (1..n) :
                        /\ t # {} => g[t] = st[<<g[t \ {Max(t)}], Max(t)>>]
                        /\ g[t] \in Nat
      BY <1>1, FoldExists
    <3>2. 0 \in Nat
      BY SMT
    <3> QED
      BY ZenonT(40), <2>z, <3>1, <3>2
  <2> HIDE DEF IsF
  <2>2. \E g : IsF(g)
    BY <1>1, <1>3, <2>1
  <2>3. IsF(F)
    BY <2>2
  <2> QED
    BY <2>3 DEF IsF
<1>5. Deployed!Total(text) = F[dom]
  <2>1. \A t : Deployed!Max(t) = Max(t)
    BY DEF Deployed!Max, Max
  <2> HIDE DEF n
  <2> QED
    BY <2>1 DEF Deployed!Total, Deployed!FoldLeft, Deployed!MapThenFoldSet, Worth
<1> HIDE DEF F, step
<1> DEFINE f == [k \in 0..n |-> F[1..k]]
<1>6. f[0] = 0 /\ f[n] = F[dom]
  <2>1. 1..0 = {} /\ {} \in SUBSET dom /\ 0 \in 0..n /\ n \in 0..n
    BY <1>1
  <2>2. F[{}] = D(F, {})
    BY <1>4, <2>1
  <2> HIDE DEF n, dom
  <2>3. f[0] = F[{}] /\ f[n] = F[1..n]
    BY <2>1
  <2> QED
    BY <1>1, <2>2, <2>3
<1>7. ASSUME NEW k \in 1..n PROVE f[k] = f[k - 1] + Worth(text[k])
  <2>1. k \in Nat /\ k # 0 /\ 1..k \in SUBSET dom /\ k \in 0..n /\ k - 1 \in 0..n
    BY <1>1
  <2>2. 1..k # {} /\ Max(1..k) = k /\ (1..k) \ {Max(1..k)} = 1..(k - 1)
    BY <2>1, MaxUpTo
  <2>3. F[1..k] = D(F, 1..k)
    BY <1>4, <2>1
  <2> QED
    BY <2>1, <2>2, <2>3
<1> HIDE DEF f
<1> DEFINE P == {k \in Nat : k <= n => f[k] \in Nat}
<1>8. \A k \in 0..n : f[k] \in Nat
  <2>1. 0 \in P
    BY <1>6
  <2>2. ASSUME NEW k \in P PROVE k + 1 \in P
    <3> SUFFICES ASSUME k + 1 <= n PROVE f[k + 1] \in Nat
      OBVIOUS
    <3>1. k + 1 \in 1..n /\ (k + 1) - 1 = k /\ f[k] \in Nat /\ k + 1 \in dom
      BY <1>1
    <3>2. f[k + 1] = f[k] + Worth(text[k + 1])
      BY <1>7, <3>1
    <3>3. step[<<f[k], k + 1>>] = f[k] + Worth(text[k + 1]) /\ step[<<f[k], k + 1>>] \in Nat
      BY <1>2, <3>1
    <3> QED
      BY <3>2, <3>3
  <2>3. P = Nat
    <3>1. P \in SUBSET Nat
      OBVIOUS
    <3> HIDE DEF P
    <3> QED
      BY <2>1, <2>2, <3>1, Inductive
  <2> QED
    BY <1>1, <2>3
<1> QED
  BY <1>1, <1>5, <1>6, <1>7, <1>8

(* A text is a duration.                                                   *)
Period(text) ==
  /\ text # << >>
  /\ \A i \in 1..Len(text) : Readable(text[i])
  /\ Deployed!Total(text) <= U64Max

(* A duration is read as its sum, if that fits.                            *)
LEMMA DurationIs ==
  ASSUME NEW text \in Seq(Piece)
  PROVE  /\ Deployed!parse_duration(text) = IF Period(text) THEN {Deployed!Total(text)} ELSE {}
         /\ Period(text) => Deployed!Total(text) \in Nat
         /\ Deployed!IsPeriod(text) <=> Period(text)
<1> DEFINE n == Len(text)
<1>0. n \in Nat /\ (n = 0 <=> text = << >>) /\ DOMAIN text = 1..n /\ \A k \in 1..n : text[k] \in Piece
  OBVIOUS
<1>1. PICK f : /\ Deployed!FoldLeft(Deployed!AddPart, {0}, text) = f[Len(text)]
               /\ f[0] = {0}
               /\ \A k \in 1..Len(text) : f[k] = Deployed!AddPart(f[k - 1], text[k])
               /\ \A k \in 0..Len(text) : f[k] \in NumberOrNone
  BY DurationSteps, Zenon
<1>2. Deployed!parse_duration(text) = IF n = 0 THEN {} ELSE f[n]
  BY <1>0, <1>1 DEF Deployed!parse_duration, Deployed!None, Deployed!Some
<1>3. Deployed!IsPeriod(text) <=> Period(text)
  BY <1>0 DEF Deployed!IsPeriod, Period, Readable, Deployed!None
<1>4. CASE \A i \in 1..n : Readable(text[i])
  <2>1. PICK g : /\ Deployed!Total(text) = g[Len(text)]
                 /\ g[0] = 0
                 /\ \A k \in 1..Len(text) : g[k] = g[k - 1] + Worth(text[k])
                 /\ \A k \in 0..Len(text) : g[k] \in Nat
    BY <1>4, TotalSteps, Zenon
  <2> DEFINE P == {k \in Nat : k <= n => f[k] = IF g[k] <= U64Max THEN {g[k]} ELSE {}}
  <2>2. 0 \in P
    <3>1. f[0] = {0} /\ g[0] = 0 /\ 0 <= U64Max
      BY <1>1, <2>1, NumbersAssumption
    <3>2. f[0] = IF g[0] <= U64Max THEN {g[0]} ELSE {}
      BY <3>1
    <3> QED
      BY <3>2
  <2>3. ASSUME NEW k \in P PROVE k + 1 \in P
    <3> SUFFICES ASSUME k + 1 <= n
                 PROVE  f[k + 1] = IF g[k + 1] <= U64Max THEN {g[k + 1]} ELSE {}
      OBVIOUS
    <3>1. /\ k + 1 \in 1..n /\ (k + 1) - 1 = k /\ k \in 0..n /\ k + 1 \in 0..n
          /\ f[k] = IF g[k] <= U64Max THEN {g[k]} ELSE {}
      BY <1>0
    <3> DEFINE x == text[k + 1]
    <3>2. /\ f[k + 1] = Deployed!AddPart(f[k], x) /\ g[k + 1] = g[k] + Worth(x)
          /\ f[k] \in NumberOrNone /\ g[k] \in Nat /\ g[k + 1] \in Nat
      BY <1>1, <2>1, <3>1
    <3>3. x \in Piece /\ Readable(x) /\ Worth(x) \in Nat
      BY <1>0, <1>4, <3>1, WorthIs
    <3> HIDE DEF x
    <3>4. CASE g[k] <= U64Max
      <4>1. g[k] \in 0..U64Max /\ f[k] = {g[k]}
        BY <3>1, <3>2, <3>4, NumbersAssumption
      <4> QED
        BY <3>2, <3>3, <4>1, AddIs
    <3>5. CASE ~(g[k] <= U64Max)
      <4>1. f[k] = {} /\ ~(g[k + 1] <= U64Max)
        BY <3>1, <3>2, <3>3, <3>5, NumbersAssumption
      <4> QED
        BY <3>2, <3>3, <4>1, AddIs
    <3> QED
      BY <3>4, <3>5
  <2>4. P = Nat
    <3>1. P \in SUBSET Nat
      OBVIOUS
    <3> HIDE DEF P
    <3> QED
      BY <2>2, <2>3, <3>1, Inductive
  <2>5. f[n] = (IF g[n] <= U64Max THEN {g[n]} ELSE {}) /\ g[n] \in Nat
    <3>1. n <= n /\ n \in 0..n
      BY <1>0
    <3> HIDE DEF n
    <3>2. \A k \in P : k <= n => f[k] = IF g[k] <= U64Max THEN {g[k]} ELSE {}
      OBVIOUS
    <3> HIDE DEF P
    <3>3. f[n] = IF g[n] <= U64Max THEN {g[n]} ELSE {}
      BY <1>0, <2>4, <3>1, <3>2
    <3> QED
      BY <2>1, <3>1, <3>3 DEF n
  <2>6. Period(text) <=> n # 0 /\ g[n] <= U64Max
    BY <1>0, <1>4, <2>1 DEF Period
  <2> QED
    BY <1>2, <1>3, <2>1, <2>5, <2>6
<1>5. CASE \E i \in 1..n : ~Readable(text[i])
  <2>1. PICK i \in 1..n : ~Readable(text[i])
    BY <1>5
  <2> DEFINE P == {k \in Nat : i + k <= n => f[i + k] = {}}
  <2>2. 0 \in P
    <3>1. i \in Nat /\ i + 0 = i /\ i - 1 \in 0..n
      BY <1>0
    <3>2. f[i] = Deployed!AddPart(f[i - 1], text[i]) /\ f[i - 1] \in NumberOrNone /\ text[i] \in Piece
      BY <1>0, <1>1, <3>1
    <3>3. f[i] = {}
      BY <2>1, <3>2, AddIs
    <3> QED
      BY <3>1, <3>3
  <2>3. ASSUME NEW k \in P PROVE k + 1 \in P
    <3> SUFFICES ASSUME i + (k + 1) <= n
                 PROVE  f[i + (k + 1)] = {}
      OBVIOUS
    <3> DEFINE j == i + k
    <3>1. /\ j \in 0..n /\ j + 1 \in 1..n /\ (j + 1) - 1 = j /\ i + (k + 1) = j + 1
          /\ f[j] = {}
      BY <1>0
    <3> HIDE DEF j
    <3>2. f[j + 1] = Deployed!AddPart(f[j], text[j + 1]) /\ f[j] \in NumberOrNone /\ text[j + 1] \in Piece
      BY <1>0, <1>1, <3>1
    <3> QED
      BY <3>1, <3>2, AddIs
  <2>4. P = Nat
    <3>1. P \in SUBSET Nat
      OBVIOUS
    <3> HIDE DEF P
    <3> QED
      BY <2>2, <2>3, <3>1, Inductive
  <2>5. n - i \in Nat /\ i + (n - i) = n
    BY <1>0
  <2>6. f[n] = {}
    <3>1. n - i \in P
      BY <2>4, <2>5
    <3> HIDE DEF n
    <3>2. \A k \in P : i + k <= n => f[i + k] = {}
      OBVIOUS
    <3>3. i + (n - i) <= n
      BY <1>0, <2>5
    <3>4. f[i + (n - i)] = {}
      BY <3>1, <3>2, <3>3
    <3> QED
      BY <2>5, <3>4
  <2>7. ~Period(text)
    BY <2>1 DEF Period
  <2> QED
    BY <1>2, <1>3, <2>6, <2>7
<1> QED
  BY <1>4, <1>5

(* A count is read if it is a number alone, within its bounds.             *)
LEMMA CountIs ==
  ASSUME NEW text \in Seq(Piece), NEW least \in Nat
  PROVE  /\ Deployed!parse_count(text, least) # {} <=>
              /\ Len(text) = 1 /\ text[1].unit = "" /\ text[1].number # {}
              /\ text[1].number \subseteq least..U32Max
         /\ \A n \in Deployed!parse_count(text, least) : n \in Nat
<1>1. CASE Len(text) # 1
  BY <1>1 DEF Deployed!parse_count, Deployed!None
<1>2. CASE Len(text) = 1
  <2>1. text[1].number = {} \/ \E m \in Nat : text[1].number = {m}
    <3>1. text[1] \in Piece
      BY <1>2
    <3> QED
      BY <3>1 DEF Piece, NumberOrNone
  <2>2. U32Max \in Nat
    BY NumbersAssumption
  <2>3. CASE text[1].number = {}
    BY <2>3 DEF Deployed!parse_count, Deployed!None
  <2>4. CASE \E n \in Nat : text[1].number = {n}
    <3>1. PICK n \in Nat : text[1].number = {n}
      BY <2>4
    <3>2. Deployed!parse_count(text, least)
            = IF text[1].unit = "" /\ least <= n /\ n <= U32Max THEN {n} ELSE {}
      BY <1>2, <3>1 DEF Deployed!parse_count, Deployed!None
    <3>3. text[1].number \subseteq least..U32Max <=> least <= n /\ n <= U32Max
      BY <2>2, <3>1
    <3> QED
      BY <1>2, <3>1, <3>2, <3>3
  <2> QED
    BY <2>1, <2>3, <2>4
<1> QED
  BY <1>1, <1>2

(* What the entries of a deployment say.                                   *)
Item == [key : STRING, name : STRING, crontab : STRING, text : Seq(Piece), zone : STRING]
Places(d) == UNION {{e} \X DOMAIN d[e] : e \in DOMAIN d}
Read(d, p) == d[p[1]][p[2]]
Ofs(d, keys) == {p \in Places(d) : Read(d, p).key \in keys}
Timed == {"schedule", "interval"}
Others(d) == Places(d) \ Ofs(d, Timed \cup {"timezone"})

(* The entries of a deployment.                                            *)
LEMMA DeploymentsAre ==
  ASSUME NEW d \in Deployments
  PROVE  /\ Len(d) \in Nat /\ DOMAIN d = 1..Len(d)
         /\ \A e \in 1..Len(d) : Len(d[e]) \in Nat /\ DOMAIN d[e] = 1..Len(d[e])
         /\ \A p : p \in Places(d) <=> /\ p = <<p[1], p[2]>>
                                       /\ p[1] \in 1..Len(d) /\ p[2] \in 1..Len(d[p[1]])
         /\ \A p \in Places(d) :
              Read(d, p) \in Item /\ (Read(d, p).key \in Timed => Read(d, p).name \in DOMAIN NameOf)
<1> DEFINE Raw == [key : STRING, name : STRING, crontab : STRING, text : Texts, zone : STRING]
<1>1. /\ d \in Seq(Seq(Raw))
      /\ \A e \in DOMAIN d : \A k \in DOMAIN d[e] :
           /\ d[e][k].key \in Timed => d[e][k].name \in DOMAIN NameOf
           /\ \A i \in DOMAIN d[e][k].text : Option(d[e][k].text[i].number, Nat)
  BY DeploymentsAssumption DEF Deployed!ScheduleKeys, Timed
<1> HIDE DEF Raw
<1>2. /\ Len(d) \in Nat /\ DOMAIN d = 1..Len(d)
      /\ \A e \in 1..Len(d) : d[e] \in Seq(Raw)
  BY <1>1
<1>3. \A e \in 1..Len(d) : Len(d[e]) \in Nat /\ DOMAIN d[e] = 1..Len(d[e])
                           /\ \A k \in 1..Len(d[e]) : d[e][k] \in Raw
  BY <1>2
<1>4. \A p : p \in Places(d) <=> /\ p = <<p[1], p[2]>>
                                 /\ p[1] \in 1..Len(d) /\ p[2] \in 1..Len(d[p[1]])
  <2>1. ASSUME NEW p, p \in Places(d)
        PROVE  p = <<p[1], p[2]>> /\ p[1] \in 1..Len(d) /\ p[2] \in 1..Len(d[p[1]])
    <3>1. PICK e \in DOMAIN d : p \in {e} \X DOMAIN d[e]
      BY <2>1 DEF Places
    <3> QED
      BY <1>2, <1>3, <3>1
  <2>2. ASSUME NEW p, p = <<p[1], p[2]>>, p[1] \in 1..Len(d), p[2] \in 1..Len(d[p[1]])
        PROVE  p \in Places(d)
    <3>1. p[1] \in DOMAIN d /\ p[2] \in DOMAIN d[p[1]]
      BY <1>2, <1>3, <2>2
    <3>2. p \in {p[1]} \X DOMAIN d[p[1]]
      BY <2>2, <3>1
    <3> QED
      BY <3>1, <3>2 DEF Places
  <2> QED
    BY <2>1, <2>2
<1>5. ASSUME NEW p \in Places(d)
      PROVE  Read(d, p) \in Item /\ (Read(d, p).key \in Timed => Read(d, p).name \in DOMAIN NameOf)
  <2> DEFINE e == p[1]
             k == p[2]
             x == d[e][k]
  <2>1. e \in 1..Len(d) /\ k \in 1..Len(d[e]) /\ e \in DOMAIN d /\ k \in DOMAIN d[e]
    BY <1>2, <1>3, <1>4
  <2>2. x \in Raw /\ (x.key \in Timed => x.name \in DOMAIN NameOf)
        /\ \A i \in DOMAIN x.text : Option(x.text[i].number, Nat)
    BY <1>1, <1>3, <2>1
  <2> HIDE DEF x, e, k
  <2>3. x.text \in Seq([number : SUBSET Nat, unit : STRING])
    BY <2>2 DEF Raw, Texts
  <2>4. \A i \in DOMAIN x.text : x.text[i] \in Piece
    <3> SUFFICES ASSUME NEW i \in DOMAIN x.text PROVE x.text[i] \in Piece
      OBVIOUS
    <3>0. \A R, s : s \in Seq(R) => \A j \in DOMAIN s : s[j] \in R
      OBVIOUS
    <3>1. x.text[i] \in [number : SUBSET Nat, unit : STRING]
      BY <2>3, <3>0
    <3>2. x.text[i].number \in NumberOrNone
      <4>1. Option(x.text[i].number, Nat)
        BY <2>2
      <4> DEFINE some == x.text[i].number
      <4> HIDE DEF some
      <4>2. some = {} \/ (Calendar!Value(some) \in Nat /\ some = {Calendar!Value(some)})
        BY <4>1, OptionIs DEF some
      <4>3. some \in NumberOrNone
        BY <4>2 DEF NumberOrNone
      <4> QED
        BY <4>3 DEF some
    <3> QED
      BY <3>1, <3>2 DEF Piece
  <2>5. x.text \in Seq(Piece)
    BY <2>3, <2>4
  <2>6. x \in Item
    BY <2>2, <2>5 DEF Raw, Item
  <2>7. Read(d, p) = x
    BY DEF Read, x, e, k
  <2> QED
    BY <2>2, <2>6, <2>7
<1> QED
  BY <1>2, <1>3, <1>4, <1>5

-----------------------------------------------------------------------------
(* The places that come before place k of entry e.                         *)
Seen(d, e, k) == {p \in Places(d) : p[1] < e \/ (p[1] = e /\ p[2] < k)}

\* Where the loops over the entries are; first is the place an entry begins with.

(* Where the loops can be: e is the entry, k the place in it, and first    *)
(* the place each entry begins at.                                         *)
Reached(d, e, k, first) ==
  /\ e \in 1..(Len(d) + 1) /\ k \in Nat
  /\ e <= Len(d) => k <= Len(d[e]) \/ k = first
  /\ e > Len(d) => k = first

Onward(d, e, k, first, e2, k2) ==
  IF k < Len(d[e]) THEN e2 = e /\ k2 = k + 1 ELSE e2 = e + 1 /\ k2 = first

There(d, e, k) == {p \in Places(d) : p = <<e, k>>}

(* A round goes on from one place to the next.                             *)
Goes(d, first, e, k, e2, k2) ==
  /\ Reached(d, e2, k2, first)
  /\ Seen(d, e2, k2) = Seen(d, e, k) \cup There(d, e, k)
  /\ <<e, k>> \in Places(d) <=> k \in 1..Len(d[e])
  /\ <<e, k>> \notin Seen(d, e, k)

(* A step of the loops looks at one place, or at none.                     *)
LEMMA Moves ==
  \A d \in Deployments, first \in {0, 1} : \A e, k, e2, k2 :
    Reached(d, e, k, first) /\ e <= Len(d) /\ Onward(d, e, k, first, e2, k2) =>
      Goes(d, first, e, k, e2, k2)
<1> SUFFICES ASSUME NEW d \in Deployments, NEW first \in {0, 1}, NEW e, NEW k, NEW e2, NEW k2,
                    Reached(d, e, k, first), e <= Len(d), Onward(d, e, k, first, e2, k2)
             PROVE  Goes(d, first, e, k, e2, k2)
  OBVIOUS
<1>1. /\ Len(d) \in Nat /\ e \in 1..Len(d) /\ Len(d[e]) \in Nat /\ k \in Nat
      /\ \A p : p \in Places(d) <=> /\ p = <<p[1], p[2]>>
                                    /\ p[1] \in 1..Len(d) /\ p[2] \in 1..Len(d[p[1]])
  BY DeploymentsAre DEF Reached
<1>2. <<e, k>> \in Places(d) <=> k \in 1..Len(d[e])
  BY <1>1
<1>3. <<e, k>> \notin Seen(d, e, k)
  BY <1>1 DEF Seen
<1>4. Reached(d, e2, k2, first)
  BY <1>1 DEF Reached, Onward
<1>5. ASSUME NEW p \in Places(d)
      PROVE  p \in Seen(d, e2, k2) <=> p \in Seen(d, e, k) \/ p = <<e, k>>
  <2> DEFINE a == p[1]
             b == p[2]
             N == Len(d[e])
  <2>1. /\ a \in Nat /\ b \in Nat \ {0} /\ (a = e => b <= N) /\ p = <<a, b>>
        /\ a \in 1..Len(d)
    BY <1>1
  <2>2. /\ p \in Seen(d, e, k) <=> a < e \/ (a = e /\ b < k)
        /\ p \in Seen(d, e2, k2) <=> a < e2 \/ (a = e2 /\ b < k2)
    BY DEF Seen
  <2>3. p = <<e, k>> <=> a = e /\ b = k
    BY <2>1
  <2>4. IF k < N THEN e2 = e /\ k2 = k + 1 ELSE e2 = e + 1 /\ k2 = first
    BY DEF Onward
  <2>5. e \in Nat /\ k \in Nat /\ N \in Nat /\ (k <= N \/ k = first)
    BY <1>1 DEF Reached
  <2> HIDE DEF a, b, N
  <2>6. CASE k < N
    BY <2>1, <2>2, <2>3, <2>4, <2>5, <2>6
  <2>7. CASE ~(k < N)
    <3>1. a = e => b <= k
      BY <2>1, <2>5, <2>7
    <3> QED
      BY <2>1, <2>2, <2>3, <2>4, <2>5, <2>7, <3>1
  <2> QED
    BY <2>6, <2>7
<1>6. Seen(d, e2, k2) = Seen(d, e, k) \cup There(d, e, k)
  BY <1>5 DEF Seen, There
<1> QED
  BY <1>2, <1>3, <1>4, <1>6 DEF Goes

(* They begin with nothing and end with everything.                        *)
LEMMA EndsOfLoop ==
  ASSUME NEW d \in Deployments
  PROVE  /\ \A first \in {0, 1} : Reached(d, 1, first, first) /\ Seen(d, 1, first) = {}
         /\ \A first \in {0, 1} : \A e, k :
              Reached(d, e, k, first) /\ e > Len(d) => Seen(d, e, k) = Places(d)
<1>1. /\ Len(d) \in Nat
      /\ \A p \in Places(d) : p[1] \in 1..Len(d) /\ p[2] \in Nat \ {0}
  <2>1. /\ Len(d) \in Nat
        /\ \A e \in 1..Len(d) : Len(d[e]) \in Nat
        /\ \A p \in Places(d) : p[1] \in 1..Len(d) /\ p[2] \in 1..Len(d[p[1]])
    BY DeploymentsAre
  <2> QED
    BY <2>1
<1>2. ASSUME NEW first \in {0, 1} PROVE Reached(d, 1, first, first) /\ Seen(d, 1, first) = {}
  BY <1>1 DEF Reached, Seen
<1>3. ASSUME NEW first \in {0, 1}, NEW e, NEW k, Reached(d, e, k, first), e > Len(d)
      PROVE  Seen(d, e, k) = Places(d)
  BY <1>1, <1>3 DEF Reached, Seen
<1> QED
  BY <1>2, <1>3

-----------------------------------------------------------------------------
(* A limit that can be read.                                               *)
LimitReads(x) ==
  LET counts == Len(x.text) = 1 /\ x.text[1].unit = "" /\ x.text[1].number # {}
  IN /\ x.key \in Deployed!LimitKeys
     /\ x.key = "max-registrations" => counts /\ x.text[1].number \subseteq 0..U32Max
     /\ x.key = "retry.max-attempts" => counts /\ x.text[1].number \subseteq 1..U32Max
     /\ x.key = "min-interval" => Period(x.text) /\ Deployed!Total(x.text) >= 10 * NANOS_PER_MILLI
     /\ x.key = "retry.backoff" => Period(x.text)

(* Limits::set takes what can be read, and no more than it.                *)
LEMMA SetIs ==
  ASSUME NEW x \in Item, NEW old, "min_interval" \in DOMAIN old
  PROVE  /\ Deployed!Set(old, x.key, x.text) # {} <=> LimitReads(x)
         /\ \A new \in Deployed!Set(old, x.key, x.text) :
              /\ DOMAIN new = DOMAIN old
              /\ new.min_interval = IF x.key = "min-interval" THEN Deployed!Total(x.text)
                                    ELSE old.min_interval
<1> DEFINE text == x.text
           taken == Deployed!Set(old, x.key, text)
           counts == Len(text) = 1 /\ text[1].unit = "" /\ text[1].number # {}
<1>1. text \in Seq(Piece)
  BY DEF Item
<1>2. LimitReads(x) <=>
        \/ x.key = "max-registrations" /\ counts /\ text[1].number \subseteq 0..U32Max
        \/ x.key = "retry.max-attempts" /\ counts /\ text[1].number \subseteq 1..U32Max
        \/ x.key = "min-interval" /\ Period(text) /\ Deployed!Total(text) >= 10 * NANOS_PER_MILLI
        \/ x.key = "retry.backoff" /\ Period(text)
  BY DEF LimitReads, Deployed!LimitKeys
<1>3. /\ x.key = "max-registrations" =>
           taken = {[old EXCEPT !.max_registrations = n] : n \in Deployed!parse_count(text, 0)}
      /\ x.key = "min-interval" =>
           taken = {[old EXCEPT !.min_interval = p] :
                     p \in {p \in Deployed!parse_duration(text) : p >= Deployed!HARD_MIN_INTERVAL}}
      /\ x.key = "retry.max-attempts" =>
           taken = {[old EXCEPT !.retry_max_attempts = n] : n \in Deployed!parse_count(text, 1)}
      /\ x.key = "retry.backoff" =>
           taken = {[old EXCEPT !.retry_backoff = p] : p \in Deployed!parse_duration(text)}
      /\ x.key \notin {"max-registrations", "min-interval", "retry.max-attempts", "retry.backoff"} =>
           taken = {}
  BY DEF Deployed!Set, Deployed!None
<1>4. /\ Deployed!parse_count(text, 0) # {} <=> counts /\ text[1].number \subseteq 0..U32Max
      /\ Deployed!parse_count(text, 1) # {} <=> counts /\ text[1].number \subseteq 1..U32Max
  BY <1>1, CountIs
<1>5. Deployed!parse_duration(text) = IF Period(text) THEN {Deployed!Total(text)} ELSE {}
  BY <1>1, DurationIs
<1>6. Deployed!HARD_MIN_INTERVAL = 10 * NANOS_PER_MILLI
  BY DEF Deployed!HARD_MIN_INTERVAL
<1> DEFINE fits(new) == /\ DOMAIN new = DOMAIN old
                        /\ new.min_interval = IF x.key = "min-interval" THEN Deployed!Total(text)
                                              ELSE old.min_interval
           Goal == (taken # {} <=> LimitReads(x)) /\ \A new \in taken : fits(new)
<1> HIDE DEF text, taken, counts
<1>7. ASSUME x.key = "max-registrations" PROVE Goal
  <2>1. taken = {[old EXCEPT !.max_registrations = n] : n \in Deployed!parse_count(text, 0)}
    BY <1>3, <1>7
  <2>2. \A n : fits([old EXCEPT !.max_registrations = n])
    BY <1>7
  <2>3. LimitReads(x) <=> counts /\ text[1].number \subseteq 0..U32Max
    BY <1>2, <1>7
  <2> HIDE DEF fits
  <2> QED
    BY <1>4, <2>1, <2>2, <2>3
<1>8. ASSUME x.key = "retry.max-attempts" PROVE Goal
  <2>1. taken = {[old EXCEPT !.retry_max_attempts = n] : n \in Deployed!parse_count(text, 1)}
    BY <1>3, <1>8
  <2>2. \A n : fits([old EXCEPT !.retry_max_attempts = n])
    BY <1>8
  <2>3. LimitReads(x) <=> counts /\ text[1].number \subseteq 1..U32Max
    BY <1>2, <1>8
  <2> HIDE DEF fits
  <2> QED
    BY <1>4, <2>1, <2>2, <2>3
<1>9. ASSUME x.key = "min-interval" PROVE Goal
  <2>1. taken = {[old EXCEPT !.min_interval = p] :
                  p \in {p \in Deployed!parse_duration(text) : p >= 10 * NANOS_PER_MILLI}}
    BY <1>3, <1>6, <1>9
  <2>2. fits([old EXCEPT !.min_interval = Deployed!Total(text)])
    BY <1>9
  <2>3. LimitReads(x) <=> Period(text) /\ Deployed!Total(text) >= 10 * NANOS_PER_MILLI
    BY <1>2, <1>9
  <2> HIDE DEF fits
  <2> QED
    BY <1>5, <2>1, <2>2, <2>3
<1>10. ASSUME x.key = "retry.backoff" PROVE Goal
  <2>1. taken = {[old EXCEPT !.retry_backoff = p] : p \in Deployed!parse_duration(text)}
    BY <1>3, <1>10
  <2>2. \A p : fits([old EXCEPT !.retry_backoff = p])
    BY <1>10
  <2>3. LimitReads(x) <=> Period(text)
    BY <1>2, <1>10
  <2> HIDE DEF fits
  <2> QED
    BY <1>5, <2>1, <2>2, <2>3
<1>11. ASSUME x.key \notin {"max-registrations", "min-interval", "retry.max-attempts", "retry.backoff"}
       PROVE  Goal
  BY <1>2, <1>3, <1>11
<1>12. Goal
  <2> HIDE DEF Goal
  <2> QED
    BY <1>7, <1>8, <1>9, <1>10, <1>11
<1> QED
  BY <1>12 DEF taken, text

-----------------------------------------------------------------------------
(* What the places of a deployment say, and whether it is legal.           *)
Apart(d, S) == \A p, q \in S : Read(d, p).key = Read(d, q).key => p = q
NamesApart(d, S) == \A p, q \in S : Read(d, p).name = Read(d, q).name => p = q

(* The shortest interval that the limits of a deployment grant.            *)
LeastInterval(d) ==
  IF Ofs(d, {"min-interval"}) = {} THEN NANOS_PER_SEC
  ELSE Deployed!Total(Read(d, CHOOSE p \in Ofs(d, {"min-interval"}) : TRUE).text)

(* The zones that an entry names.                                          *)
Zoned(d, e) == {Read(d, q).zone : q \in {q \in Ofs(d, {"timezone"}) : q[1] = e}}

(* A schedule can be read, and keeps to the limits.                        *)
ScheduleReads(x, least) ==
  /\ NameOf[x.name].bytes \in 1..64 /\ NameOf[x.name].legal
  /\ x.key = "schedule" => x.crontab \in Crontabs
  /\ x.key = "interval" =>
       Period(x.text) /\ Deployed!Total(x.text) > 0 /\ Deployed!Total(x.text) >= least

(* The schedule of a place.                                                *)
Says(d, p) ==
  IF Read(d, p).key = "schedule"
  THEN [kind |-> "cron", expression |-> Read(d, p).crontab, timezone |-> Zoned(d, p[1])]
  ELSE [kind |-> "interval", period |-> Deployed!Total(Read(d, p).text)]

LimitsLegal(d) == (\A p \in Others(d) : LimitReads(Read(d, p))) /\ Apart(d, Others(d))
SchedulesLegal(d) ==
  (\A p \in Ofs(d, Timed) : ScheduleReads(Read(d, p), LeastInterval(d))) /\ NamesApart(d, Ofs(d, Timed))
ZonesLegal(d) == \A p \in Ofs(d, {"timezone"}) : Read(d, p).zone \in DOMAIN Offset

-----------------------------------------------------------------------------
(* What has been read so far.                                              *)
LimitsRead(d, S, found, keys) ==
  /\ \A p \in S : LimitReads(Read(d, p))
  /\ Apart(d, S)
  /\ keys = {Read(d, p).key : p \in S}
  /\ "min_interval" \in DOMAIN found
  /\ \A p \in S : Read(d, p).key = "min-interval" =>
       found.min_interval = Deployed!Total(Read(d, p).text)
  /\ (\A p \in S : Read(d, p).key # "min-interval") => found.min_interval = NANOS_PER_SEC

SchedulesRead(d, S, found) ==
  /\ \A p \in S : ScheduleReads(Read(d, p), LeastInterval(d))
  /\ NamesApart(d, S)
  /\ DOMAIN found = {Read(d, p).name : p \in S}
  /\ \A p \in S : found[Read(d, p).name] = Says(d, p)

(* The two loops: nothing has been refused, and what they have taken is    *)
(* what the places seen so far say; or something was illegal, and nothing  *)
(* is taken.                                                               *)
DeployInv ==
  part = "binding" =>
    /\ pairs \in Deployments
    /\ phase \in {"limits", "schedules", "accepted", "refused"}
    /\ phase = "limits" =>
         /\ Reached(pairs, entry, key, 1)
         /\ LimitsRead(pairs, Others(pairs) \cap Seen(pairs, entry, key), limits, set)
         /\ declared = [n \in {} |-> {}]
    /\ phase = "schedules" =>
         /\ Reached(pairs, entry, key, 0)
         /\ LimitsLegal(pairs) /\ limits.min_interval = LeastInterval(pairs)
         /\ SchedulesRead(pairs, Ofs(pairs, Timed) \cap Seen(pairs, entry, key), declared)
         /\ \A p \in Ofs(pairs, {"timezone"}) :
              p[1] < entry \/ (p[1] = entry /\ key > 0) => Read(pairs, p).zone \in DOMAIN Offset
    /\ phase = "accepted" =>
         /\ LimitsLegal(pairs) /\ limits.min_interval = LeastInterval(pairs)
         /\ SchedulesRead(pairs, Ofs(pairs, Timed), declared)
         /\ ZonesLegal(pairs)
    /\ phase = "refused" => ~(LimitsLegal(pairs) /\ SchedulesLegal(pairs) /\ ZonesLegal(pairs))

-----------------------------------------------------------------------------
(* CronBinding's own words for it.                                         *)
LEMMA PlacesAre ==
  /\ Deployed!Pairs = Places(pairs)
  /\ \A p : Deployed!At(p) = Read(pairs, p)
  /\ \A keys : Deployed!OfKeys(keys) = Ofs(pairs, keys)
  /\ Deployed!Limits = Others(pairs)
  /\ Deployed!MinInterval = LeastInterval(pairs)
<1>1. Deployed!Pairs = Places(pairs)
  BY DEF Deployed!Pairs, Places
<1>2. \A p : Deployed!At(p) = Read(pairs, p)
  BY DEF Deployed!At, Read
<1>3. \A keys : Deployed!OfKeys(keys) = Ofs(pairs, keys)
  BY <1>1, <1>2 DEF Deployed!OfKeys, Ofs
<1>4. Deployed!Limits = Others(pairs)
  BY <1>1, <1>3 DEF Deployed!Limits, Others, Deployed!ScheduleKeys, Timed
<1>5. Deployed!MinInterval = LeastInterval(pairs)
  <2>1. Deployed!OfKeys({"min-interval"}) = Ofs(pairs, {"min-interval"})
    BY <1>3
  <2> DEFINE A == Deployed!OfKeys({"min-interval"})
             B == Ofs(pairs, {"min-interval"})
             T(S) == Deployed!Total(Read(pairs, CHOOSE p \in S : TRUE).text)
  <2>2. Deployed!MinInterval = IF A = {} THEN NANOS_PER_SEC ELSE T(A)
    <3>1. Deployed!At(CHOOSE p \in A : TRUE) = Read(pairs, CHOOSE p \in A : TRUE)
      BY <1>2, Zenon
    <3> HIDE DEF A
    <3> QED
      BY <3>1 DEF Deployed!MinInterval, A
  <2>3. LeastInterval(pairs) = IF B = {} THEN NANOS_PER_SEC ELSE T(B)
    BY DEF LeastInterval
  <2>4. A = B
    BY <2>1
  <2> HIDE DEF A, B, T
  <2> QED
    BY <2>2, <2>3, <2>4
<1> QED
  BY <1>1, <1>2, <1>3, <1>4, <1>5

(* A binding is legal if its places are, in CronBinding's own words.       *)
LEMMA LegalIs ==
  ASSUME pairs \in Deployments
  PROVE  Deployed!Legal <=> LimitsLegal(pairs) /\ ZonesLegal(pairs) /\ SchedulesLegal(pairs)
<1> DEFINE d == pairs
<1>1. ASSUME NEW p \in Places(d)
      PROVE  /\ Read(d, p).text \in Seq(Piece)
             /\ Deployed!IsPeriod(Read(d, p).text) <=> Period(Read(d, p).text)
  <2>1. Read(d, p) \in Item
    BY <1>1, DeploymentsAre
  <2>2. Read(d, p).text \in Seq(Piece)
    BY <2>1 DEF Item
  <2> QED
    BY <2>2, DurationIs
<1>2. \A K : Ofs(d, K) \subseteq Places(d)
  BY DEF Ofs
<1>3. Others(d) \subseteq Places(d)
  BY DEF Others
<1>4. ASSUME NEW p \in Others(d)
      PROVE  Deployed!LimitIsLegal(p) <=>
               LimitReads(Read(d, p)) /\ \A q \in Others(d) \ {p} : Read(d, q).key # Read(d, p).key
  <2>1. Deployed!IsPeriod(Read(d, p).text) <=> Period(Read(d, p).text)
    BY <1>1, <1>3, <1>4
  <2>2. \A q : Deployed!At(q) = Read(d, q)
    BY PlacesAre
  <2>3. Deployed!Limits = Others(d)
    BY PlacesAre
  <2> HIDE DEF d
  <2> QED
    BY <2>1, <2>2, <2>3 DEF Deployed!LimitIsLegal, LimitReads, Deployed!None
<1>5. ASSUME NEW p \in Ofs(d, Timed)
      PROVE  Deployed!ScheduleIsLegal(p) <=>
               /\ ScheduleReads(Read(d, p), LeastInterval(d))
               /\ \A q \in Ofs(d, Timed) \ {p} : Read(d, q).name # Read(d, p).name
  <2>1. Deployed!IsPeriod(Read(d, p).text) <=> Period(Read(d, p).text)
    BY <1>1, <1>2, <1>5
  <2>2. \A q : Deployed!At(q) = Read(d, q)
    BY PlacesAre
  <2>3. Deployed!OfKeys(Deployed!ScheduleKeys) = Ofs(d, Timed)
    BY PlacesAre DEF Deployed!ScheduleKeys, Timed
  <2>4. Deployed!MinInterval = LeastInterval(d)
    BY PlacesAre
  <2> HIDE DEF d
  <2> QED
    BY <2>1, <2>2, <2>3, <2>4 DEF Deployed!ScheduleIsLegal, ScheduleReads
<1>6. Deployed!Legal <=>
        /\ \A p \in Others(d) : Deployed!LimitIsLegal(p)
        /\ \A p \in Ofs(d, {"timezone"}) : Read(d, p).zone \in DOMAIN Offset
        /\ \A p \in Ofs(d, Timed) : Deployed!ScheduleIsLegal(p)
  BY PlacesAre DEF Deployed!Legal, Deployed!ScheduleKeys, Timed
<1>7. LimitsLegal(d) <=> \A p \in Others(d) : Deployed!LimitIsLegal(p)
  <2> HIDE DEF d
  <2> QED
    BY <1>4 DEF LimitsLegal, Apart
<1>8. SchedulesLegal(d) <=> \A p \in Ofs(d, Timed) : Deployed!ScheduleIsLegal(p)
  <2> HIDE DEF d
  <2> QED
    BY <1>5 DEF SchedulesLegal, NamesApart
<1> QED
  BY <1>6, <1>7, <1>8 DEF ZonesLegal

(* The zone of an entry.                                                   *)
LEMMA ZoneIs ==
  ASSUME pairs \in Deployments, NEW e \in 1..Len(pairs)
  PROVE  Deployed!Timezone(e) = Zoned(pairs, e)
<1> DEFINE d == pairs
           n == Len(d[e])
<1>1. /\ DOMAIN d[e] = 1..n
      /\ \A p : p \in Places(d) <=> /\ p = <<p[1], p[2]>>
                                    /\ p[1] \in 1..Len(d) /\ p[2] \in 1..Len(d[p[1]])
  BY DeploymentsAre
<1>2. Deployed!Timezone(e) = {x.zone : x \in {x \in {d[e][k] : k \in 1..n} : x.key = "timezone"}}
  BY <1>1 DEF Deployed!Timezone, Deployed!Range
<1> HIDE DEF d, n
<1>3. ASSUME NEW k \in 1..n
      PROVE  /\ <<e, k>> \in Places(d) /\ Read(d, <<e, k>>) = d[e][k] /\ <<e, k>>[1] = e
  BY <1>1 DEF Read, n, d
<1>4. ASSUME NEW q \in Places(d), q[1] = e PROVE q[2] \in 1..n /\ Read(d, q) = d[e][q[2]]
  BY <1>1, <1>4 DEF Read, n
<1>5. \A z : z \in Deployed!Timezone(e) <=> \E k \in 1..n : d[e][k].key = "timezone" /\ z = d[e][k].zone
  BY <1>2
<1>6. \A z : z \in Zoned(d, e) <=>
               \E q \in Places(d) : q[1] = e /\ Read(d, q).key = "timezone" /\ z = Read(d, q).zone
  BY DEF Zoned, Ofs
<1>7. ASSUME NEW z PROVE z \in Deployed!Timezone(e) <=> z \in Zoned(d, e)
  <2>1. ASSUME z \in Deployed!Timezone(e) PROVE z \in Zoned(d, e)
    <3>1. PICK k \in 1..n : d[e][k].key = "timezone" /\ z = d[e][k].zone
      BY <1>5, <2>1
    <3> QED
      BY <1>3, <1>6, <3>1
  <2>2. ASSUME z \in Zoned(d, e) PROVE z \in Deployed!Timezone(e)
    <3>1. PICK q \in Places(d) : q[1] = e /\ Read(d, q).key = "timezone" /\ z = Read(d, q).zone
      BY <1>6, <2>2
    <3> QED
      BY <1>4, <1>5, <3>1
  <2> QED
    BY <2>1, <2>2
<1>8. Deployed!Timezone(e) = Zoned(d, e)
  BY <1>7
<1> QED
  BY <1>8 DEF d

-----------------------------------------------------------------------------
(* One more limit, and one more schedule.                                  *)
LEMMA LimitsOnward ==
  ASSUME NEW d, NEW S, NEW p, NEW old, NEW keys, LimitsRead(d, S, old, keys), p \notin S,
         Read(d, p) \in Item, LimitReads(Read(d, p)), Read(d, p).key \notin keys,
         NEW new \in Deployed!Set(old, Read(d, p).key, Read(d, p).text)
  PROVE  LimitsRead(d, S \cup {p}, new, keys \cup {Read(d, p).key})
<1> DEFINE x == Read(d, p)
           T == S \cup {p}
<1>1. /\ DOMAIN new = DOMAIN old
      /\ new.min_interval = IF x.key = "min-interval" THEN Deployed!Total(x.text)
                            ELSE old.min_interval
  BY SetIs DEF LimitsRead
<1>2. \A q \in S : Read(d, q).key # x.key
  BY DEF LimitsRead
<1>3. \A q \in T : LimitReads(Read(d, q))
  BY DEF LimitsRead
<1>4. Apart(d, T)
  BY <1>2 DEF LimitsRead, Apart
<1>5. keys \cup {x.key} = {Read(d, q).key : q \in T}
  BY DEF LimitsRead
<1>6. \A q \in T : Read(d, q).key = "min-interval" =>
        new.min_interval = Deployed!Total(Read(d, q).text)
  BY <1>1, <1>2 DEF LimitsRead
<1>7. (\A q \in T : Read(d, q).key # "min-interval") => new.min_interval = NANOS_PER_SEC
  BY <1>1 DEF LimitsRead
<1> QED
  BY <1>1, <1>3, <1>4, <1>5, <1>6, <1>7 DEF LimitsRead

Declaring(old, name, says) == [n \in DOMAIN old \cup {name} |-> IF n = name THEN says ELSE old[n]]

(* A schedule is taken, if its name is new.                                *)
LEMMA SchedulesOnward ==
  ASSUME NEW d, NEW S, NEW p, NEW old, SchedulesRead(d, S, old), p \notin S,
         ScheduleReads(Read(d, p), LeastInterval(d)), Read(d, p).name \notin DOMAIN old
  PROVE  SchedulesRead(d, S \cup {p}, Declaring(old, Read(d, p).name, Says(d, p)))
<1> DEFINE name(q) == Read(d, q).name
           T == S \cup {p}
           new == [n \in DOMAIN old \cup {name(p)} |-> IF n = name(p) THEN Says(d, p) ELSE old[n]]
<1>1. DOMAIN old = {name(q) : q \in S} /\ \A q \in S : old[name(q)] = Says(d, q)
  BY DEF SchedulesRead
<1>2. \A q \in S : name(q) # name(p) /\ name(q) \in DOMAIN old
  BY <1>1
<1>3. \A q \in T : ScheduleReads(Read(d, q), LeastInterval(d))
  BY DEF SchedulesRead
<1>4. NamesApart(d, T)
  BY <1>2 DEF SchedulesRead, NamesApart
<1>5. DOMAIN new = {name(q) : q \in T}
  BY <1>1
<1>6. \A q \in T : new[name(q)] = Says(d, q)
  <2> HIDE DEF name
  <2> QED
    BY <1>1, <1>2
<1> QED
  BY <1>3, <1>4, <1>5, <1>6 DEF SchedulesRead, Declaring

Here == <<entry, key>>

(* What a step of the loops sees, and where it goes.                       *)
LEMMA HereIs ==
  ASSUME pairs \in Deployments, NEW first \in {0, 1}, Reached(pairs, entry, key, first)
  PROVE  /\ Len(pairs) \in Nat /\ entry \in Nat \ {0}
         /\ Deployed!Reading <=> Here \in Places(pairs)
         /\ Deployed!Pair = Read(pairs, Here)
         /\ Here \notin Seen(pairs, entry, key)
         /\ entry <= Len(pairs) /\ Deployed!Advance(first) =>
              /\ Reached(pairs, entry', key', first)
              /\ \A S \in SUBSET Places(pairs) :
                   S \cap Seen(pairs, entry', key')
                     = (S \cap Seen(pairs, entry, key)) \cup (S \cap {Here})
<1>1. /\ Len(pairs) \in Nat /\ entry \in 1..(Len(pairs) + 1) /\ key \in Nat
      /\ \A p : p \in Places(pairs) <=> /\ p = <<p[1], p[2]>>
                                        /\ p[1] \in 1..Len(pairs) /\ p[2] \in 1..Len(pairs[p[1]])
  BY DeploymentsAre DEF Reached
<1>2. Deployed!Reading <=> Here \in Places(pairs)
  BY <1>1 DEF Deployed!Reading, Here
<1>3. Deployed!Pair = Read(pairs, Here)
  BY DEF Deployed!Pair, Read, Here
<1>4. Here \notin Seen(pairs, entry, key)
  BY <1>1 DEF Seen, Here
<1>5. ASSUME entry <= Len(pairs), Deployed!Advance(first)
      PROVE  /\ Reached(pairs, entry', key', first)
             /\ \A S \in SUBSET Places(pairs) :
                  S \cap Seen(pairs, entry', key')
                    = (S \cap Seen(pairs, entry, key)) \cup (S \cap {Here})
  <2>1. Onward(pairs, entry, key, first, entry', key')
    BY <1>5 DEF Deployed!Advance, Onward
  <2>2. /\ Reached(pairs, entry', key', first)
        /\ Seen(pairs, entry', key')
             = Seen(pairs, entry, key) \cup There(pairs, entry, key)
    <3>1. Goes(pairs, first, entry, key, entry', key')
      BY <1>5, <2>1, Moves, Zenon
    <3> QED
      BY <3>1 DEF Goes
  <2> QED
    BY <2>2 DEF Here, There
<1> QED
  BY <1>1, <1>2, <1>3, <1>4, <1>5

(* What a schedule is taken for.                                           *)
LEMMA TakesIs ==
  ASSUME pairs \in Deployments, Here \in Places(pairs), Read(pairs, Here).key \in Timed,
         limits.min_interval = LeastInterval(pairs)
  PROVE  LET x == Read(pairs, Here)
             said == Deployed!Parsed(x)
         IN /\ said # {} /\ Deployed!validate_name(x.name) /\ Deployed!Permits(limits, Deployed!Value(said))
                 <=> ScheduleReads(x, LeastInterval(pairs))
            /\ said # {} => Deployed!Value(said) = Says(pairs, Here)
<1> DEFINE x == Read(pairs, Here)
           said == Deployed!Parsed(x)
           total == Deployed!Total(x.text)
           least == LeastInterval(pairs)
           says == Says(pairs, Here)
<1>1. x \in Item /\ x.name \in DOMAIN NameOf /\ entry \in 1..Len(pairs)
  BY DeploymentsAre DEF Here
<1>2. Deployed!validate_name(x.name) <=> NameOf[x.name].bytes \in 1..64 /\ NameOf[x.name].legal
  <2>1. NameOf[x.name].bytes \in Nat
    BY <1>1, DeploymentsAssumption
  <2> QED
    BY <2>1 DEF Deployed!validate_name, Deployed!MAX_NAME_LEN
<1>3. Deployed!parse_duration(x.text) = IF Period(x.text) THEN {total} ELSE {}
  <2>1. x.text \in Seq(Piece)
    BY <1>1 DEF Item
  <2> QED
    BY <2>1, DurationIs
<1>4. x.key = "schedule" \/ x.key = "interval"
  BY DEF Timed
<1>5. CASE x.key = "schedule"
  <2>1. says = [kind |-> "cron", expression |-> x.crontab, timezone |-> Deployed!Timezone(entry)]
    BY <1>1, <1>5, ZoneIs DEF Says, Here
  <2>2. said = IF x.crontab \in Crontabs THEN {says} ELSE {}
    <3> HIDE DEF x, says
    <3> QED
      BY <1>5, <2>1 DEF Deployed!Parsed
  <2>3. Deployed!Permits(limits, says)
    <3> HIDE DEF says
    <3>1. says.kind = "cron"
      BY <2>1
    <3> QED
      BY <3>1 DEF Deployed!Permits
  <2>4. said # {} => Deployed!Value(said) = says
    BY <2>2 DEF Deployed!Value
  <2>5. ScheduleReads(x, least) <=>
          NameOf[x.name].bytes \in 1..64 /\ NameOf[x.name].legal /\ x.crontab \in Crontabs
    BY <1>5 DEF ScheduleReads
  <2> HIDE DEF x, said, says, least
  <2>6. /\ said # {} /\ Deployed!validate_name(x.name) /\ Deployed!Permits(limits, Deployed!Value(said))
             <=> ScheduleReads(x, least)
        /\ said # {} => Deployed!Value(said) = says
    BY <1>2, <2>2, <2>3, <2>4, <2>5
  <2> QED
    BY <2>6 DEF x, said, says, least
<1>6. CASE x.key = "interval"
  <2>1. says = [kind |-> "interval", period |-> total]
    BY <1>6 DEF Says
  <2>2. said = IF Period(x.text) /\ total > 0 THEN {says} ELSE {}
    <3>1. said = {[kind |-> "interval", period |-> p] : p \in {p \in Deployed!parse_duration(x.text) : p > 0}}
      BY <1>6 DEF Deployed!Parsed
    <3> HIDE DEF x, said, says, total
    <3> QED
      BY <1>3, <2>1, <3>1
  <2>3. Deployed!Permits(limits, says) <=> total >= least
    <3> HIDE DEF says, total
    <3>1. says.kind = "interval" /\ says.period = total
      BY <2>1
    <3> QED
      BY <3>1 DEF Deployed!Permits
  <2>4. said # {} => Deployed!Value(said) = says
    BY <2>2 DEF Deployed!Value
  <2>5. ScheduleReads(x, least) <=>
          /\ NameOf[x.name].bytes \in 1..64 /\ NameOf[x.name].legal
          /\ Period(x.text) /\ total > 0 /\ total >= least
    BY <1>6 DEF ScheduleReads
  <2> HIDE DEF x, said, says, least, total
  <2>6. /\ said # {} /\ Deployed!validate_name(x.name) /\ Deployed!Permits(limits, Deployed!Value(said))
             <=> ScheduleReads(x, least)
        /\ said # {} => Deployed!Value(said) = says
    BY <1>2, <2>2, <2>3, <2>4, <2>5
  <2> QED
    BY <2>6 DEF x, said, says, least
<1> QED
  BY <1>4, <1>5, <1>6

-----------------------------------------------------------------------------
(* A step of the first loop.                                               *)
LEMMA LimitStep ==
  ASSUME DeployInv, part = "binding", part' = part, Deployed!SetLimit \/ Deployed!PassLimits
  PROVE  DeployInv'
<1> DEFINE d == pairs
           x == Read(d, Here)
           S == Others(d) \cap Seen(d, entry, key)
<1>1. /\ d \in Deployments /\ phase = "limits" /\ Reached(d, entry, key, 1)
      /\ LimitsRead(d, S, limits, set) /\ declared = [n \in {} |-> {}]
  BY DEF DeployInv, Deployed!SetLimit, Deployed!PassLimits
<1>2. /\ Len(d) \in Nat /\ entry \in Nat \ {0}
      /\ Deployed!Reading <=> Here \in Places(d)
      /\ Deployed!Pair = x
      /\ Here \notin Seen(d, entry, key)
      /\ entry <= Len(d) /\ Deployed!Advance(1) =>
           /\ Reached(d, entry', key', 1)
           /\ \A T \in SUBSET Places(d) :
                T \cap Seen(d, entry', key') = (T \cap Seen(d, entry, key)) \cup (T \cap {Here})
  <2>1. 1 \in {0, 1}
    OBVIOUS
  <2> QED
    BY <1>1, <2>1, HereIs
<1>3. Others(d) \in SUBSET Places(d)
  BY DEF Others
<1>4. ASSUME Deployed!Refuse, ~LimitsLegal(d) PROVE DeployInv'
  BY <1>1, <1>4 DEF Deployed!Refuse, DeployInv
<1>5. CASE Deployed!SetLimit
  <2>1. Here \in Places(d) /\ x.key \notin Timed \cup {"timezone"} /\ Here \in Others(d) /\ entry <= Len(d)
    <3>1. Here \in Places(d) /\ x.key \notin Timed \cup {"timezone"} /\ entry <= Len(d)
      BY <1>2, <1>5 DEF Deployed!SetLimit, Deployed!ScheduleKeys, Timed, Deployed!Reading
    <3> QED
      BY <3>1 DEF Others, Ofs
  <2>2. x \in Item
    BY <1>1, <2>1, DeploymentsAre
  <2>3. CASE x.key \in set
    <3>1. PICK q \in S : Read(d, q).key = x.key
      BY <1>1, <2>3 DEF LimitsRead
    <3>2. q \in Others(d) /\ q # Here
      BY <1>2, <3>1
    <3>3. ~LimitsLegal(d)
      BY <2>1, <3>1, <3>2 DEF LimitsLegal, Apart
    <3>4. Deployed!Refuse
      BY <1>2, <1>5, <2>3 DEF Deployed!SetLimit
    <3> QED
      BY <1>4, <3>3, <3>4
  <2>4. CASE Deployed!Set(limits, x.key, x.text) = {}
    <3>1. ~LimitReads(x)
      BY <1>1, <2>2, <2>4, SetIs DEF LimitsRead
    <3>2. ~LimitsLegal(d)
      BY <2>1, <3>1 DEF LimitsLegal
    <3>3. Deployed!Refuse
      BY <1>2, <1>5, <2>4 DEF Deployed!SetLimit, Deployed!None
    <3> QED
      BY <1>4, <3>2, <3>3
  <2>5. CASE x.key \notin set /\ Deployed!Set(limits, x.key, x.text) # {}
    <3> DEFINE new == Deployed!Value(Deployed!Set(limits, x.key, x.text))
    <3>1. /\ limits' = new /\ set' = set \cup {x.key} /\ Deployed!Advance(1)
          /\ UNCHANGED <<pairs, phase, declared>>
      BY <1>2, <1>5, <2>5 DEF Deployed!SetLimit, Deployed!None
    <3>2. new \in Deployed!Set(limits, x.key, x.text)
      BY <2>5 DEF Deployed!Value
    <3>3. LimitReads(x)
      BY <1>1, <2>2, <2>5, SetIs DEF LimitsRead
    <3>4. Here \notin S
      BY <1>2
    <3> HIDE DEF new, S
    <3>5. LimitsRead(d, S \cup {Here}, new, set \cup {x.key})
      BY <1>1, <2>2, <2>5, <3>2, <3>3, <3>4, LimitsOnward
    <3>6. Reached(d, entry', key', 1) /\ Others(d) \cap Seen(d, entry', key') = S \cup {Here}
      BY <1>2, <1>3, <2>1, <3>1 DEF S
    <3> QED
      BY <1>1, <3>1, <3>5, <3>6 DEF DeployInv
  <2> QED
    BY <2>3, <2>4, <2>5
<1>6. CASE Deployed!PassLimits /\ entry > Len(d)
  <2>1. /\ phase' = "schedules" /\ entry' = 1 /\ key' = 0
        /\ UNCHANGED <<pairs, limits, set, declared>>
    BY <1>6 DEF Deployed!PassLimits
  <2>2. Seen(d, entry, key) = Places(d) /\ Reached(d, 1, 0, 0) /\ Seen(d, 1, 0) = {}
    <3>1. 0 \in {0, 1} /\ 1 \in {0, 1}
      OBVIOUS
    <3> QED
      BY <1>1, <1>6, <3>1, EndsOfLoop
  <2>3. S = Others(d)
    BY <1>3, <2>2
  <2>4. LimitsLegal(d)
    BY <1>1, <2>3 DEF LimitsRead, LimitsLegal
  <2>5. limits.min_interval = LeastInterval(d)
    <3> DEFINE M == Ofs(d, {"min-interval"})
    <3>1. M \subseteq Others(d) /\ \A p \in Others(d) : p \in M <=> Read(d, p).key = "min-interval"
      BY DEF Ofs, Others, Timed
    <3>2. CASE M = {}
      <4>1. LeastInterval(d) = NANOS_PER_SEC
        BY <3>2 DEF LeastInterval
      <4> QED
        BY <1>1, <2>3, <3>1, <3>2, <4>1 DEF LimitsRead
    <3>3. CASE M # {}
      <4> DEFINE p == CHOOSE p \in M : TRUE
      <4>1. p \in M
        BY <3>3
      <4>2. LeastInterval(d) = Deployed!Total(Read(d, p).text)
        BY <3>3 DEF LeastInterval
      <4> HIDE DEF p, M
      <4> QED
        BY <1>1, <2>3, <3>1, <4>1, <4>2 DEF LimitsRead
    <3> QED
      BY <3>2, <3>3
  <2>6. SchedulesRead(d, Ofs(d, Timed) \cap Seen(d, 1, 0), declared)
    BY <1>1, <2>2 DEF SchedulesRead, NamesApart
  <2>7. \A p \in Ofs(d, {"timezone"}) : ~(p[1] < 1 \/ (p[1] = 1 /\ 0 > 0))
    BY <1>1, DeploymentsAre DEF Ofs
  <2> HIDE DEF S
  <2> QED
    BY <1>1, <2>1, <2>2, <2>4, <2>5, <2>6, <2>7 DEF DeployInv
<1>7. CASE Deployed!PassLimits /\ ~(entry > Len(d))
  <2>1. /\ Deployed!Advance(1) /\ UNCHANGED <<pairs, phase, limits, set, declared>>
        /\ Deployed!Reading => x.key \in Timed \cup {"timezone"}
    BY <1>2, <1>7 DEF Deployed!PassLimits, Deployed!ScheduleKeys, Timed
  <2>2. entry <= Len(d)
    BY <1>2, <1>7
  <2>3. Here \notin Others(d)
    BY <1>2, <2>1 DEF Others, Ofs
  <2>4. Reached(d, entry', key', 1) /\ Others(d) \cap Seen(d, entry', key') = S
    BY <1>2, <1>3, <2>1, <2>2, <2>3
  <2> HIDE DEF S
  <2> QED
    BY <1>1, <2>1, <2>4 DEF DeployInv
<1> QED
  BY <1>5, <1>6, <1>7

(* A step of the second loop.                                              *)
LEMMA ScheduleStep ==
  ASSUME DeployInv, part = "binding", part' = part,
         Deployed!BeginEntry \/ Deployed!Declare \/ Deployed!PassSchedules
  PROVE  DeployInv'
<1> DEFINE d == pairs
           x == Read(d, Here)
           Z == Ofs(d, {"timezone"})
           S == Ofs(d, Timed) \cap Seen(d, entry, key)
           Begun(e, k) == \A p \in Z : p[1] < e \/ (p[1] = e /\ k > 0) => Read(d, p).zone \in DOMAIN Offset
<1>1. /\ d \in Deployments /\ phase = "schedules" /\ Reached(d, entry, key, 0)
      /\ LimitsLegal(d) /\ limits.min_interval = LeastInterval(d)
      /\ SchedulesRead(d, S, declared) /\ Begun(entry, key)
  BY DEF DeployInv, Deployed!BeginEntry, Deployed!Declare, Deployed!PassSchedules
<1>2. /\ Len(d) \in Nat /\ entry \in Nat \ {0}
      /\ Deployed!Reading <=> Here \in Places(d)
      /\ Deployed!Pair = x
      /\ Here \notin Seen(d, entry, key)
      /\ entry <= Len(d) /\ Deployed!Advance(0) =>
           /\ Reached(d, entry', key', 0)
           /\ \A T \in SUBSET Places(d) :
                T \cap Seen(d, entry', key') = (T \cap Seen(d, entry, key)) \cup (T \cap {Here})
  <2>1. 0 \in {0, 1}
    OBVIOUS
  <2> QED
    BY <1>1, <2>1, HereIs
<1>3. Ofs(d, Timed) \in SUBSET Places(d) /\ Z \subseteq Places(d)
  BY DEF Ofs
<1>4. ASSUME Deployed!Refuse, ~SchedulesLegal(d) \/ ~ZonesLegal(d) PROVE DeployInv'
  BY <1>1, <1>4 DEF Deployed!Refuse, DeployInv
<1>5. \A p \in Z : p[1] \in Nat
  BY <1>1, <1>3, DeploymentsAre
<1>6. key \in Nat
  BY <1>1 DEF Reached
<1>7. ASSUME Deployed!Advance(0), entry <= Len(d), UNCHANGED <<pairs, phase, limits>>,
             SchedulesRead(d, S \cup (Ofs(d, Timed) \cap {Here}), declared'),
             Begun(entry, 1)
      PROVE  DeployInv'
  <2>1. Reached(d, entry', key', 0)
    BY <1>2, <1>7
  <2>2. Ofs(d, Timed) \cap Seen(d, entry', key') = S \cup (Ofs(d, Timed) \cap {Here})
    BY <1>2, <1>3, <1>7
  <2>3. Begun(entry', key')
    <3>1. (entry' = entry /\ key' = key + 1) \/ (entry' = entry + 1 /\ key' = 0)
      BY <1>7 DEF Deployed!Advance
    <3> HIDE DEF Z
    <3> QED
      BY <1>2, <1>5, <1>6, <1>7, <3>1
  <2> HIDE DEF S
  <2> QED
    BY <1>1, <1>7, <2>1, <2>2, <2>3 DEF DeployInv
<1>8. CASE Deployed!BeginEntry
  <2>1. entry <= Len(d) /\ key = 0 /\ entry \in 1..Len(d)
    BY <1>2, <1>8 DEF Deployed!BeginEntry
  <2>2. Deployed!Timezone(entry) = Zoned(d, entry)
    BY <1>1, <2>1, ZoneIs
  <2>3. CASE ~(Zoned(d, entry) \subseteq DOMAIN Offset)
    <3>1. Deployed!Refuse
      BY <1>8, <2>2, <2>3 DEF Deployed!BeginEntry
    <3>2. ~ZonesLegal(d)
      BY <2>3 DEF ZonesLegal, Zoned
    <3> QED
      BY <1>4, <3>1, <3>2
  <2>4. CASE Zoned(d, entry) \subseteq DOMAIN Offset
    <3>1. Deployed!Advance(0) /\ UNCHANGED <<pairs, phase, limits, set, declared>>
      BY <1>8, <2>2, <2>4 DEF Deployed!BeginEntry
    <3>2. Here \notin Places(d)
      BY <1>1, <2>1, DeploymentsAre DEF Here
    <3>3. Begun(entry, 1)
      BY <1>1, <1>2, <1>5, <2>1, <2>4 DEF Zoned
    <3>4. S \cup (Ofs(d, Timed) \cap {Here}) = S
      BY <1>3, <3>2
    <3> HIDE DEF S, Begun
    <3> QED
      BY <1>1, <1>7, <2>1, <3>1, <3>3, <3>4
  <2> QED
    BY <2>3, <2>4
<1>9. CASE Deployed!Declare
  <2>1. Here \in Places(d) /\ x.key \in Timed /\ Here \in Ofs(d, Timed) /\ entry <= Len(d) /\ key > 0
    <3>1. Here \in Places(d) /\ x.key \in Timed /\ entry <= Len(d) /\ key > 0
      BY <1>2, <1>6, <1>9 DEF Deployed!Declare, Deployed!ScheduleKeys, Timed, Deployed!Reading
    <3> QED
      BY <3>1 DEF Ofs
  <2> DEFINE said == Deployed!Parsed(x)
             fits == /\ said # {} /\ Deployed!validate_name(x.name)
                     /\ Deployed!Permits(limits, Deployed!Value(said))
  <2>2. /\ fits <=> ScheduleReads(x, LeastInterval(d))
        /\ said # {} => Deployed!Value(said) = Says(d, Here)
    BY <1>1, <2>1, TakesIs
  <2>3. CASE ~fits
    <3>1. Deployed!Refuse
      BY <1>2, <1>9, <2>3 DEF Deployed!Declare, Deployed!None
    <3>2. ~SchedulesLegal(d)
      BY <2>1, <2>2, <2>3 DEF SchedulesLegal
    <3> QED
      BY <1>4, <3>1, <3>2
  <2>4. CASE fits /\ x.name \in DOMAIN declared
    <3>1. Deployed!Refuse
      BY <1>2, <1>9, <2>4 DEF Deployed!Declare
    <3>2. PICK q \in S : Read(d, q).name = x.name
      BY <1>1, <2>4 DEF SchedulesRead
    <3>3. q # Here /\ q \in Ofs(d, Timed)
      BY <1>2, <3>2
    <3>4. ~SchedulesLegal(d)
      BY <2>1, <3>2, <3>3 DEF SchedulesLegal, NamesApart
    <3> QED
      BY <1>4, <3>1, <3>4
  <2>5. CASE fits /\ x.name \notin DOMAIN declared
    <3>1. /\ declared' = [n \in DOMAIN declared \cup {x.name} |->
                            IF n = x.name THEN Deployed!Value(said) ELSE declared[n]]
          /\ Deployed!Advance(0) /\ UNCHANGED <<pairs, phase, limits>>
      BY <1>2, <1>9, <2>5 DEF Deployed!Declare, Deployed!None
    <3>2. Deployed!Value(said) = Says(d, Here)
      BY <2>2, <2>5
    <3>3. Here \notin S /\ Ofs(d, Timed) \cap {Here} = {Here}
      BY <1>2, <2>1
    <3>4. ScheduleReads(x, LeastInterval(d))
      BY <2>2, <2>5
    <3>5. Begun(entry, 1)
      BY <1>1, <2>1
    <3> HIDE DEF S, Begun, said, fits
    <3>6. SchedulesRead(d, S \cup {Here}, Declaring(declared, x.name, Says(d, Here)))
      BY <1>1, <2>5, <3>3, <3>4, SchedulesOnward
    <3>7. SchedulesRead(d, S \cup (Ofs(d, Timed) \cap {Here}), declared')
      BY <3>1, <3>2, <3>3, <3>6 DEF Declaring
    <3> QED
      BY <1>7, <2>1, <3>1, <3>5, <3>7
  <2> QED
    BY <2>3, <2>4, <2>5
<1>10. CASE Deployed!PassSchedules /\ entry > Len(d)
  <2>1. phase' = "accepted" /\ UNCHANGED <<pairs, entry, key, limits, set, declared>>
    BY <1>10 DEF Deployed!PassSchedules
  <2>2. Seen(d, entry, key) = Places(d)
    <3>1. 0 \in {0, 1}
      OBVIOUS
    <3> QED
      BY <1>1, <1>10, <3>1, EndsOfLoop
  <2>3. S = Ofs(d, Timed)
    BY <1>3, <2>2
  <2>4. ZonesLegal(d)
    <3>1. \A p \in Z : p[1] \in 1..Len(d)
      BY <1>1, <1>3, DeploymentsAre
    <3>2. \A p \in Z : p[1] < entry
      BY <1>2, <1>10, <3>1
    <3> QED
      BY <1>1, <3>2 DEF ZonesLegal
  <2> HIDE DEF S
  <2> QED
    BY <1>1, <2>1, <2>3, <2>4 DEF DeployInv
<1>11. CASE Deployed!PassSchedules /\ ~(entry > Len(d))
  <2>1. /\ key > 0 /\ Deployed!Advance(0) /\ UNCHANGED <<pairs, phase, limits, set, declared>>
        /\ Deployed!Reading => x.key \notin Timed
    BY <1>2, <1>11 DEF Deployed!PassSchedules, Deployed!ScheduleKeys, Timed
  <2>2. entry <= Len(d)
    BY <1>2, <1>11
  <2>3. S \cup (Ofs(d, Timed) \cap {Here}) = S
    BY <1>2, <1>3, <2>1 DEF Ofs
  <2>4. Begun(entry, 1)
    BY <1>1, <2>1
  <2> HIDE DEF S, Begun
  <2> QED
    BY <1>1, <1>7, <2>1, <2>2, <2>3, <2>4
<1> QED
  BY <1>8, <1>9, <1>10, <1>11

(* A step of a deployment.                                                 *)
LEMMA DeployStep ==
  ASSUME DeployInv, [LoopNext]_<<loopVars, part, calendarVars, bindingVars>>
  PROVE  DeployInv'
<1>1. part' = part
  BY DEF LoopNext
<1>2. CASE part = "binding" /\ Deployed!Next
  BY <1>1, <1>2, LimitStep, ScheduleStep DEF Deployed!Next
<1>3. CASE UNCHANGED <<part, bindingVars>>
  BY <1>3 DEF bindingVars, DeployInv
<1> QED
  BY <1>1, <1>2, <1>3 DEF LoopNext, DeployInv

(* What a binding comes to is what its entries say.                        *)
LEMMA DeployedAsSaid == DeployInv => (part = "binding" => Deployed!BindingIsItsEntries)
<1> SUFFICES ASSUME DeployInv, part = "binding" PROVE Deployed!BindingIsItsEntries
  OBVIOUS
<1> DEFINE d == pairs
<1>1. d \in Deployments
  BY DEF DeployInv
<1>2. Deployed!Legal <=> LimitsLegal(d) /\ ZonesLegal(d) /\ SchedulesLegal(d)
  BY <1>1, LegalIs
<1>3. phase = "refused" => ~Deployed!Legal
  BY <1>2 DEF DeployInv
<1>4. ASSUME phase = "accepted"
      PROVE  /\ Deployed!Legal
             /\ limits.min_interval = Deployed!MinInterval
             /\ DOMAIN declared = {Deployed!At(p).name : p \in Deployed!OfKeys(Deployed!ScheduleKeys)}
             /\ \A p \in Deployed!OfKeys({"schedule"}) :
                  declared[Deployed!At(p).name] =
                    [kind |-> "cron", expression |-> Deployed!At(p).crontab,
                     timezone |-> {Deployed!At(q).zone :
                                     q \in {q \in Deployed!OfKeys({"timezone"}) : q[1] = p[1]}}]
             /\ \A p \in Deployed!OfKeys({"interval"}) :
                  declared[Deployed!At(p).name]
                    = [kind |-> "interval", period |-> Deployed!Total(Deployed!At(p).text)]
  <2>1. /\ LimitsLegal(d) /\ ZonesLegal(d) /\ limits.min_interval = LeastInterval(d)
        /\ SchedulesRead(d, Ofs(d, Timed), declared)
    BY <1>4 DEF DeployInv
  <2>2. SchedulesLegal(d)
    BY <2>1 DEF SchedulesRead, SchedulesLegal
  <2>3. limits.min_interval = Deployed!MinInterval
    BY <2>1, PlacesAre
  <2>4. /\ \A p : Deployed!At(p) = Read(d, p)
        /\ \A keys : Deployed!OfKeys(keys) = Ofs(d, keys)
        /\ Deployed!OfKeys(Deployed!ScheduleKeys) = Ofs(d, Timed)
    BY PlacesAre DEF Deployed!ScheduleKeys, Timed
  <2>5. DOMAIN declared = {Deployed!At(p).name : p \in Deployed!OfKeys(Deployed!ScheduleKeys)}
    BY <2>1, <2>4 DEF SchedulesRead
  <2>6. ASSUME NEW p \in Ofs(d, {"schedule"})
        PROVE  declared[Deployed!At(p).name] =
                 [kind |-> "cron", expression |-> Deployed!At(p).crontab,
                  timezone |-> {Deployed!At(q).zone :
                                  q \in {q \in Deployed!OfKeys({"timezone"}) : q[1] = p[1]}}]
    <3>1. p \in Ofs(d, Timed) /\ Read(d, p).key = "schedule"
      BY <2>6 DEF Ofs, Timed
    <3>2. declared[Read(d, p).name] = Says(d, p)
      BY <2>1, <3>1 DEF SchedulesRead
    <3>3. Zoned(d, p[1]) = {Deployed!At(q).zone : q \in {q \in Deployed!OfKeys({"timezone"}) : q[1] = p[1]}}
      BY <2>4 DEF Zoned
    <3> QED
      BY <2>4, <3>1, <3>2, <3>3 DEF Says
  <2>7. ASSUME NEW p \in Ofs(d, {"interval"})
        PROVE  declared[Deployed!At(p).name]
                 = [kind |-> "interval", period |-> Deployed!Total(Deployed!At(p).text)]
    <3>1. p \in Ofs(d, Timed) /\ Read(d, p).key = "interval"
      BY <2>7 DEF Ofs, Timed
    <3>2. declared[Read(d, p).name] = Says(d, p)
      BY <2>1, <3>1 DEF SchedulesRead
    <3> QED
      BY <2>4, <3>1, <3>2 DEF Says
  <2> QED
    BY <1>2, <2>1, <2>2, <2>3, <2>4, <2>5, <2>6, <2>7
<1> QED
  BY <1>3, <1>4 DEF Deployed!BindingIsItsEntries

-----------------------------------------------------------------------------

(* Nothing has been compiled or read at the start.                         *)
LEMMA InitTaken == LoopInit => CalendarInv /\ DeployInv
<1> SUFFICES ASSUME LoopInit PROVE CalendarInv /\ DeployInv
  OBVIOUS
<1>1. CalendarInv
  BY DEF LoopInit, CalendarInv, Calendar!Init, Calendar!None
<1>2. ASSUME part = "binding" PROVE DeployInv
  <2>1. /\ pairs \in Deployments /\ phase = "limits" /\ entry = 1 /\ key = 1
        /\ limits = Deployed!DefaultLimits /\ set = {} /\ declared = [n \in {} |-> {}]
    BY <1>2 DEF LoopInit, Deployed!Init
  <2>2. Reached(pairs, 1, 1, 1) /\ Seen(pairs, 1, 1) = {}
    <3>1. 1 \in {0, 1}
      OBVIOUS
    <3> QED
      BY <2>1, <3>1, EndsOfLoop
  <2>3. "min_interval" \in DOMAIN limits /\ limits.min_interval = NANOS_PER_SEC
    BY <2>1 DEF Deployed!DefaultLimits
  <2>4. LimitsRead(pairs, {}, limits, set)
    BY <2>1, <2>3 DEF LimitsRead, Apart
  <2>5. Others(pairs) \cap Seen(pairs, entry, key) = {}
    BY <2>1, <2>2
  <2> QED
    BY <2>1, <2>2, <2>4, <2>5 DEF DeployInv
<1> QED
  BY <1>1, <1>2 DEF DeployInv

(* A calendar is taken exactly when a date of the century can match it, and *)
(* a binding exactly when all its entries are legal; it then declares what  *)
(* they say.                                                               *)
THEOREM SchedulesStayTaken == LoopSafe => []SchedulesAreTaken
<1>1. LoopInit => CalendarInv /\ DeployInv
  BY InitTaken
<1>2. CalendarInv /\ [LoopNext]_<<loopVars, part, calendarVars, bindingVars>> => CalendarInv'
  BY CalendarStep
<1>3. DeployInv /\ [LoopNext]_<<loopVars, part, calendarVars, bindingVars>> => DeployInv'
  BY DeployStep
<1>4. CalendarInv /\ DeployInv => SchedulesAreTaken
  BY CalendarsTaken, DeployedAsSaid DEF SchedulesAreTaken
<1> QED
  BY <1>1, <1>2, <1>3, <1>4, PTL DEF LoopSafe
=============================================================================
