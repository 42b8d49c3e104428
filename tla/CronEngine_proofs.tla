-------------------------- MODULE CronEngine_proofs --------------------------
(***************************************************************************)
(* Proofs about the schedule engine: every variable keeps its type, a name *)
(* is occupied exactly while its one handler call runs, what is held is    *)
(* what the binding in force permits, and the contract of cosmonic:cron is *)
(* kept.                                                                   *)
(***************************************************************************)
EXTENDS CronEngine, FiniteSetTheorems, WellFoundedInduction, TLAPS

(* Slots, names and what is counted among them are finite. *)
LEMMA SlotFinite == IsFiniteSet(Slot)
  BY SlotsAssumption, FS_Product DEF Slot

LEMMA CountsSlots == \A S \in SUBSET Slot : Cardinality(S) \in Nat
  BY SlotFinite, FS_Subset, FS_CardinalityType

LEMMA CountsNames ==
  \A S \in SUBSET Names :
    /\ IsFiniteSet(S) /\ Cardinality(S) \in Nat
    /\ S # {} => Cardinality(S) > 0
    /\ \A T \in SUBSET S : Cardinality(T) <= Cardinality(S)
<1> SUFFICES ASSUME NEW S \in SUBSET Names
    PROVE  /\ IsFiniteSet(S) /\ Cardinality(S) \in Nat
           /\ S # {} => Cardinality(S) > 0
           /\ \A T \in SUBSET S : Cardinality(T) <= Cardinality(S)
  OBVIOUS
<1>1. IsFiniteSet(S)
  BY SlotsAssumption, FS_Subset
<1>2. Cardinality(S) \in Nat
  BY <1>1, FS_CardinalityType
<1>3. S # {} => Cardinality(S) > 0
  BY <1>1, <1>2, FS_EmptySet
<1>4. \A T \in SUBSET S : Cardinality(T) <= Cardinality(S)
  BY <1>1, FS_Subset
<1> QED
  BY <1>1, <1>2, <1>3, <1>4

(* Division as the engine uses it. *)
LEMMA Division ==
  \A a \in Nat, b \in Nat \ {0} : a \div b \in Nat /\ a % b \in Nat
  OBVIOUS

(* What schedules and bindings are made of. *)
LEMMA SpecTypes ==
  \A spec \in Specs :
    /\ spec \in [kind : Kinds, arg : Int]
    /\ spec.kind = "cron" => spec.arg \in DOMAIN Matches
  BY SpecsAssumption DEF Spec_

LEMMA BindingTypes ==
  \A b \in Bindings \cup {NoBinding} :
    /\ b.maxAttempts \in Nat /\ b.backoff \in Nat /\ b.minInterval \in Nat \ {0}
  BY BindingsAssumption DEF Binding, NoBinding

LEMMA DeclaredTypes ==
  \A b \in Bindings :
    /\ DOMAIN b.declared \subseteq Names
    /\ \A n \in DOMAIN b.declared :
         /\ b.declared[n] \in Specs
         /\ b.declared[n].kind = "interval" => b.declared[n].arg > 0
<1> SUFFICES ASSUME NEW b \in Bindings
    PROVE  /\ DOMAIN b.declared \subseteq Names
           /\ \A n \in DOMAIN b.declared :
                /\ b.declared[n] \in Specs
                /\ b.declared[n].kind = "interval" => b.declared[n].arg > 0
  OBVIOUS
<1>1. PICK D \in SUBSET Names : b.declared \in [D -> Specs]
  BY BindingsAssumption DEF Binding
<1>2. \A n \in DOMAIN b.declared : b.declared[n] \in Specs
  BY <1>1
<1>3. \A n \in DOMAIN b.declared : LimitsPermit(b, b.declared[n])
  BY BindingsAssumption
<1>4. b.minInterval \in Nat \ {0}
  BY BindingTypes
<1>5. \A n \in DOMAIN b.declared :
        b.declared[n].kind = "interval" => b.declared[n].arg > 0
  BY <1>2, <1>3, <1>4, SpecTypes DEF LimitsPermit
<1> QED
  BY <1>1, <1>2, <1>5

-----------------------------------------------------------------------------
(***************************************************************************)
(* The helpers on schedules return what the types say.                     *)
(***************************************************************************)
LEMMA NextAfterType ==
  ASSUME NEW c \in DOMAIN Matches, NEW w \in Int
  PROVE  NextAfter(c, w) \in Due
<1>1. Matches[c] \subseteq Int
  BY ClockAssumption
<1>2. Never \in Due
  BY DEF Never, Due
<1> DEFINE First(m) == m > w /\ \A k \in Matches[c] : k > w => m <= k
<1>3. ASSUME \E m \in Matches[c] : First(m)
      PROVE  (CHOOSE m \in Matches[c] : First(m)) \in Int
  BY <1>1, <1>3
<1> QED
  BY <1>2, <1>3 DEF NextAfter, Due

LEMMA NewEntryType ==
  ASSUME wall \in Int, mono \in Nat,
         NEW spec \in Specs, NEW declared \in BOOLEAN, NEW epoch \in Nat \ {0}
  PROVE  /\ NewEntry(spec, declared, epoch) \in Entry
         /\ NewEntry(spec, declared, epoch).epoch = epoch
         /\ spec.kind = "interval" /\ spec.arg > 0 =>
              Shaped(NewEntry(spec, declared, epoch))
<1>1. FirstDue(spec) \in Due
  BY SpecTypes, NextAfterType DEF FirstDue, Due
<1>2. NoRetry \in Retry
  BY DEF NoRetry, Retry, NoFiring, Firing
<1>3. spec.kind = "interval" => FirstDue(spec).on = "mono"
  BY DEF FirstDue
<1> QED
  BY <1>1, <1>2, <1>3 DEF NewEntry, Entry, Shaped

LEMMA PassedCounted ==
  ASSUME wall \in Int, NEW c \in DOMAIN Matches, NEW first \in Int
  PROVE  Passed(c, first) \subseteq Int /\ Cardinality(Passed(c, first)) \in Nat
<1>1. Passed(c, first) \subseteq first .. wall
  BY ClockAssumption DEF Passed
<1>2. IsFiniteSet(first .. wall)
  BY FS_Interval
<1>3. IsFiniteSet(Passed(c, first))
  BY <1>1, <1>2, FS_Subset
<1> QED
  BY <1>1, <1>3, FS_CardinalityType

(* An entry that is due reports an instant and a count, and stays an entry. *)
LEMMA DueEntry ==
  ASSUME wall \in Int, mono \in Nat,
         NEW e \in Entry, Shaped(e), IsDue(e)
  PROVE  /\ Occurrence(e).at \in Int /\ Occurrence(e).skipped \in Nat
         /\ Advanced(e) \in Entry /\ Shaped(Advanced(e))
         /\ Advanced(e).spec = e.spec /\ Advanced(e).epoch = e.epoch
<1>1. /\ e.spec \in Specs /\ e.due \in Due /\ e.due.at \in Int
      /\ e.spec.kind \in Kinds /\ e.spec.arg \in Int
  BY SpecTypes DEF Entry, Due
<1>2. CASE e.spec.kind = "cron"
  <2>1. e.spec.arg \in DOMAIN Matches
    BY <1>1, <1>2, SpecTypes
  <2> DEFINE passed == Passed(e.spec.arg, e.due.at)
             Last(m) == \A k \in passed : k <= m
  <2>2. passed \subseteq Int /\ Cardinality(passed) \in Nat
    BY <1>1, <2>1, PassedCounted
  <2>3. ASSUME \E m \in passed : Last(m)
        PROVE  (CHOOSE m \in passed : Last(m)) \in Int
    BY <2>2, <2>3
  <2>4. Lower(Cardinality(passed), MAX_CATCH_UP) \in Nat
    BY <2>2, ClockAssumption DEF Lower
  <2>5. NextAfter(e.spec.arg, wall) \in Due
    BY <2>1, NextAfterType
  <2>6. Occurrence(e).at \in Int /\ Occurrence(e).skipped \in Nat
    BY <1>1, <1>2, <2>3, <2>4 DEF Occurrence
  <2>7. Advanced(e) = [e EXCEPT !.due = NextAfter(e.spec.arg, wall)]
    BY <1>2 DEF Advanced
  <2> QED
    BY <1>2, <2>5, <2>6, <2>7 DEF Entry, Shaped
<1>3. CASE e.spec.kind = "interval"
  <2>1. e.spec.arg \in Nat \ {0} /\ e.due.on = "mono"
    BY <1>1, <1>3 DEF Shaped
  <2>2. mono - e.due.at \in Nat
    BY <1>1, <2>1 DEF IsDue, ClockOf
  <2>3. Elapsed(e) \in Nat /\ (mono - e.due.at) % e.spec.arg \in Nat
    BY <2>1, <2>2, Division DEF Elapsed
  <2>4. Occurrence(e) = [ at |-> wall - ((mono - e.due.at) % e.spec.arg),
                          skipped |-> Elapsed(e) ]
    BY <1>3 DEF Occurrence
  <2> DEFINE mark == e.due.at + (Elapsed(e) + 1) * e.spec.arg
  <2>5. mark \in Int
    BY <1>1, <2>3
  <2>6. Advanced(e) = [e EXCEPT !.due = [@ EXCEPT !.at = mark]]
    BY <1>1, <1>3 DEF Advanced, Entry, Due
  <2>7. [e.due EXCEPT !.at = mark] \in Due /\ [e.due EXCEPT !.at = mark].on = "mono"
    BY <1>1, <2>1, <2>5 DEF Due
  <2> HIDE DEF mark
  <2>8. /\ Advanced(e) \in Entry /\ Advanced(e).due = [e.due EXCEPT !.at = mark]
        /\ Advanced(e).spec = e.spec /\ Advanced(e).epoch = e.epoch
    BY <2>6, <2>7 DEF Entry
  <2> QED
    BY <1>3, <2>1, <2>3, <2>4, <2>7, <2>8 DEF Shaped
<1>4. CASE IsOnce(e.spec)
  <2>1. Occurrence(e).at \in Int /\ Occurrence(e).skipped \in Nat
    BY <1>1, <1>4 DEF Occurrence, IsOnce
  <2>2. Advanced(e) = [e EXCEPT !.due = Never, !.spent = TRUE]
    BY <1>4 DEF Advanced, IsOnce
  <2>3. Never \in Due
    BY DEF Never, Due
  <2> QED
    BY <1>4, <2>1, <2>2, <2>3 DEF Entry, Shaped, IsOnce
<1> QED
  BY <1>1, <1>2, <1>3, <1>4 DEF Kinds, IsOnce

LEMMA RescheduledEntry ==
  ASSUME wall \in Int, NEW e \in Entry, Shaped(e)
  PROVE  /\ Rescheduled(e) \in Entry /\ Shaped(Rescheduled(e))
         /\ Rescheduled(e).spec = e.spec /\ Rescheduled(e).epoch = e.epoch
         /\ Rescheduled(e).retry = e.retry /\ Rescheduled(e).missed = e.missed
<1>1. CASE ClockReset /\ e.spec.kind = "cron" /\ e.due.on = "wall"
  <2>1. e.spec.arg \in DOMAIN Matches
    BY <1>1, SpecTypes DEF Entry
  <2>2. NextAfter(e.spec.arg, wall) \in Due
    BY <2>1, NextAfterType
  <2>3. Rescheduled(e) = [e EXCEPT !.due = NextAfter(e.spec.arg, wall)]
    BY <1>1 DEF Rescheduled
  <2> QED
    BY <1>1, <2>2, <2>3 DEF Entry, Shaped
<1>2. CASE ~(ClockReset /\ e.spec.kind = "cron" /\ e.due.on = "wall")
  <2>1. Rescheduled(e) = e
    BY <1>2 DEF Rescheduled
  <2> QED
    BY <2>1
<1> QED
  BY <1>1, <1>2

LEMMA CaughtUpEntry ==
  ASSUME wall \in Int, mono \in Nat, NEW e \in Entry, Shaped(e)
  PROVE  /\ CaughtUp(e) \in Entry /\ Shaped(CaughtUp(e))
         /\ CaughtUp(e).spec = e.spec /\ CaughtUp(e).epoch = e.epoch
<1>1. CASE ~IsOnce(e.spec) /\ IsDue(e)
  <2> DEFINE a == Advanced(e)
             n == a.missed + Occurrence(e).skipped + 1
  <2>1. /\ Occurrence(e).skipped \in Nat
        /\ a \in Entry /\ Shaped(a) /\ a.spec = e.spec /\ a.epoch = e.epoch
    BY <1>1, DueEntry
  <2>2. NoRetry \in Retry
    BY DEF NoRetry, Retry, NoFiring, Firing
  <2>3. n \in Nat
    BY <2>1 DEF Entry
  <2>4. CaughtUp(e) = [a EXCEPT !.retry = NoRetry, !.missed = n,
                                !.overtaken = TRUE]
    BY <1>1, <2>1 DEF CaughtUp, Entry
  <2> HIDE DEF a, n
  <2> QED
    BY <2>1, <2>2, <2>3, <2>4 DEF Entry, Shaped
<1>2. CASE ~(~IsOnce(e.spec) /\ IsDue(e))
  <2>1. CaughtUp(e) = e
    BY <1>2 DEF CaughtUp
  <2> QED
    BY <2>1
<1> QED
  BY <1>1, <1>2

LEMMA ConcludedEntry ==
  ASSUME NEW e \in Entry, Shaped(e)
  PROVE  /\ Concluded(e) \in Entry /\ Shaped(Concluded(e))
         /\ Concluded(e).spec = e.spec /\ Concluded(e).epoch = e.epoch
<1>1. Never \in Due
  BY DEF Never, Due
<1>2. CASE IsOnce(e.spec)
  <2>1. Concluded(e) = [e EXCEPT !.due = Never, !.overtaken = FALSE]
    BY <1>2 DEF Concluded
  <2> QED
    BY <1>1, <1>2, <2>1 DEF Entry, Shaped, IsOnce
<1>3. CASE ~IsOnce(e.spec)
  <2>1. Concluded(e) = e
    BY <1>3 DEF Concluded
  <2> QED
    BY <2>1
<1> QED
  BY <1>2, <1>3

(* A retry is queued at a moment of the monotonic clock. *)
LEMMA BackoffType ==
  ASSUME NEW b \in Bindings \cup {NoBinding}, NEW firing \in Firing,
         firing.attempt > 0, firing.attempt < b.maxAttempts
  PROVE  Backoff(b, firing) \in Nat
<1>1. firing.attempt \in Nat /\ b.maxAttempts \in Nat
  BY BindingTypes DEF Firing
<1>2. Lower(firing.attempt - 1, 32) \in 0 .. Lower(b.maxAttempts, 32)
  BY <1>1 DEF Lower
<1> QED
  BY <1>2, BackoffAssumption DEF Backoff

(* The binding and the entry after a completion settled its own entry. *)
LEMMA SettledEntry ==
  ASSUME wall \in Int, mono \in Nat,
         NEW b \in Bindings \cup {NoBinding}, NEW entry \in Entry, Shaped(entry),
         NEW firing \in Firing, firing.attempt > 0, NEW outcome \in Outcomes,
         Settled(b, entry, firing, outcome) # NoEntry
  PROVE  LET f == Settled(b, entry, firing, outcome)
         IN  f \in Entry /\ Shaped(f) /\ f.epoch = entry.epoch /\ f.spec = entry.spec
<1> DEFINE c == CaughtUp(entry)
           e == Concluded(c)
           queued == RetryQueued(b, e, firing, outcome)
           n == e.missed + Unheard(b, e, firing, outcome)
           r == IF queued THEN [due |-> mono + Backoff(b, firing), firing |-> firing]
                ELSE e.retry
<1>1. c \in Entry /\ Shaped(c) /\ c.epoch = entry.epoch /\ c.spec = entry.spec
  BY CaughtUpEntry
<1>2. e \in Entry /\ Shaped(e) /\ e.epoch = entry.epoch /\ e.spec = entry.spec
  <2> HIDE DEF c
  <2> QED
    BY <1>1, ConcludedEntry
<1>3. Settled(b, entry, firing, outcome) = [e EXCEPT !.missed = n, !.retry = r]
  <2> HIDE DEF c
  <2>1. Settled(b, entry, firing, outcome) =
          IF IsOnce(e.spec) /\ ~queued THEN NoEntry
          ELSE [e EXCEPT !.missed = @ + Unheard(b, e, firing, outcome),
                         !.retry = IF queued
                                   THEN [due |-> mono + Backoff(b, firing),
                                         firing |-> firing]
                                   ELSE @]
    BY DEF Settled, c
  <2>2. ~(IsOnce(e.spec) /\ ~queued)
    BY <2>1
  <2> HIDE DEF e, queued
  <2> QED
    BY <1>2, <2>1, <2>2 DEF Entry
<1> HIDE DEF c, e
<1>4. n \in Nat
  <2>1. Unheard(b, e, firing, outcome) \in Nat
    BY DEF Unheard, Outcomes, Firing
  <2> QED
    BY <1>2, <2>1 DEF Entry
<1>5. r \in Retry
  <2>1. CASE queued
    <3>1. firing.attempt < b.maxAttempts
      BY <2>1 DEF RetryQueued
    <3>2. Backoff(b, firing) \in Nat
      BY <3>1, BackoffType
    <3> QED
      BY <2>1, <3>2 DEF Retry
  <2>2. CASE ~queued
    BY <1>2, <2>2 DEF Entry
  <2> QED
    BY <2>1, <2>2
<1> HIDE DEF n, r
<1> QED
  BY <1>2, <1>3, <1>4, <1>5 DEF Entry, Shaped

-----------------------------------------------------------------------------
(***************************************************************************)
(* Type correctness.                                                       *)
(***************************************************************************)
LEMMA HeldEntry ==
  ASSUME TypeInv, NEW s \in Slot, Held(s)
  PROVE  entries[s] \in Entry /\ Shaped(entries[s])
  BY DEF TypeInv, TypeOK, WellFormed, Held

LEMMA EntryIsHeld == \A e \in Entry : e # NoEntry => e.epoch \in Nat \ {0}
  BY DEF Entry

LEMMA EntryNotNoEntry == \A e \in Entry : e # NoEntry
<1> SUFFICES ASSUME NEW e \in Entry, e = NoEntry PROVE FALSE
  OBVIOUS
<1>1. e.epoch # 0
  BY DEF Entry
<1>2. e.epoch = 0
  BY DEF NoEntry
<1> QED
  BY <1>1, <1>2

LEMMA InitTypes == Init => TypeInv
<1> SUFFICES ASSUME Init PROVE TypeInv
  OBVIOUS
<1>1. TypeOK
  BY DEF Init, TypeOK, Ledger, Closed
<1>2. WellFormed
  BY DEF Init, WellFormed, Held
<1> QED
  BY <1>1, <1>2 DEF TypeInv

(* Its counters may be set without disturbing the rest of an entry. *)
LEMMA EntryUpdated ==
  ASSUME NEW a \in Entry, Shaped(a), NEW n \in Nat, NEW o \in BOOLEAN
  PROVE  LET f == [a EXCEPT !.missed = n, !.overtaken = o]
         IN  f \in Entry /\ Shaped(f) /\ f.epoch = a.epoch
  BY DEF Entry, Shaped

(* The same of its retry. *)
LEMMA RetryUpdated ==
  ASSUME NEW a \in Entry, Shaped(a), NEW r \in Retry, NEW n \in Nat
  PROVE  LET f == [a EXCEPT !.retry = r, !.missed = n]
         IN  f \in Entry /\ Shaped(f) /\ f.epoch = a.epoch
  BY DEF Entry, Shaped

(* What a poll leaves of a slot. *)
LEMMA PolledSlot ==
  ASSUME TypeInv, NEW s \in Slot
  PROVE  /\ Held(s) => /\ Polled(s) \in Entry /\ Shaped(Polled(s))
                       /\ Polled(s).epoch = entries[s].epoch
         /\ ~Held(s) => Polled(s) = NoEntry
<1>1. wall \in Int /\ mono \in Nat
  BY DEF TypeInv, TypeOK
<1>2. ~Held(s) => Polled(s) = NoEntry
  BY DEF Polled, Fires, Overruns, Redelivers, DueAtPoll
<1>3. ASSUME Held(s)
      PROVE  /\ Polled(s) \in Entry /\ Shaped(Polled(s))
             /\ Polled(s).epoch = entries[s].epoch
  <2> DEFINE e == Rescheduled(entries[s])
             a == [Advanced(e) EXCEPT !.retry = NoRetry]
             n == a.missed + Skipped(e) + 1
  <2>1. e \in Entry /\ Shaped(e) /\ e.epoch = entries[s].epoch
    BY <1>1, <1>3, HeldEntry, RescheduledEntry
  <2>2. NoRetry \in Retry
    BY DEF NoRetry, Retry, NoFiring, Firing
  <2>3. ASSUME DueAtPoll(s)
        PROVE  a \in Entry /\ Shaped(a) /\ a.epoch = e.epoch /\ n \in Nat
    <3>1. IsDue(e)
      BY <2>3 DEF DueAtPoll
    <3> HIDE DEF e
    <3>2. /\ Occurrence(e).skipped \in Nat
          /\ Advanced(e) \in Entry /\ Shaped(Advanced(e))
          /\ Advanced(e).epoch = e.epoch
      BY <1>1, <2>1, <3>1, DueEntry
    <3>3. Skipped(e) \in Nat
      BY <3>2 DEF Skipped
    <3> QED
      BY <2>2, <3>2, <3>3 DEF Entry, Shaped
  <2>4. CASE Fires(s)
    <3>1. Polled(s) = [a EXCEPT !.missed = 0, !.overtaken = FALSE]
      BY <1>3, <2>4 DEF Polled, Fires, Overruns, Redelivers
    <3>2. a \in Entry /\ Shaped(a) /\ a.epoch = e.epoch
      BY <2>3, <2>4 DEF Fires
    <3> HIDE DEF a, e
    <3>3. /\ [a EXCEPT !.missed = 0, !.overtaken = FALSE] \in Entry
          /\ Shaped([a EXCEPT !.missed = 0, !.overtaken = FALSE])
          /\ [a EXCEPT !.missed = 0, !.overtaken = FALSE].epoch = a.epoch
      BY <3>2, EntryUpdated
    <3>4. Polled(s).epoch = entries[s].epoch
      BY <2>1, <3>1, <3>2, <3>3
    <3> QED
      BY <3>1, <3>3, <3>4
  <2>5. CASE Overruns(s)
    <3>1. Polled(s) = [a EXCEPT !.missed = @ + Skipped(e) + 1, !.overtaken = TRUE]
      BY <1>3, <2>5 DEF Polled, Fires, Overruns, Redelivers
    <3>2. a \in Entry /\ Shaped(a) /\ a.epoch = e.epoch /\ n \in Nat
      BY <2>3, <2>5 DEF Overruns
    <3>3. [a EXCEPT !.missed = @ + Skipped(e) + 1, !.overtaken = TRUE]
            = [a EXCEPT !.missed = n, !.overtaken = TRUE]
      BY <3>2 DEF Entry
    <3> HIDE DEF a, e, n
    <3>4. /\ [a EXCEPT !.missed = n, !.overtaken = TRUE] \in Entry
          /\ Shaped([a EXCEPT !.missed = n, !.overtaken = TRUE])
          /\ [a EXCEPT !.missed = n, !.overtaken = TRUE].epoch = a.epoch
      BY <3>2, EntryUpdated
    <3>5. Polled(s).epoch = entries[s].epoch
      BY <2>1, <3>1, <3>2, <3>3, <3>4
    <3> QED
      BY <3>1, <3>3, <3>4, <3>5
  <2>6. CASE Redelivers(s)
    <3>1. Polled(s) = [e EXCEPT !.retry = NoRetry]
      BY <1>3, <2>6 DEF Polled, Fires, Overruns, Redelivers
    <3> HIDE DEF e
    <3> QED
      BY <2>1, <2>2, <3>1 DEF Entry, Shaped
  <2>7. CASE ~Fires(s) /\ ~Overruns(s) /\ ~Redelivers(s)
    <3>1. Polled(s) = e
      BY <1>3, <2>7 DEF Polled
    <3> HIDE DEF e
    <3> QED
      BY <2>1, <3>1
  <2> QED
    BY <2>4, <2>5, <2>6, <2>7
<1> QED
  BY <1>2, <1>3

(* What a poll dispatches. *)
LEMMA DispatchTypes ==
  ASSUME TypeInv, NEW S \in SUBSET Slot, NEW s \in Slot
  PROVE  /\ Fires(s) => /\ DispatchOf(s, Fresh(S, s)) \in Dispatch
                        /\ Fresh(S, s).attempt = 1
         /\ Redelivers(s) => /\ DispatchOf(s, Again(s)) \in Dispatch
                             /\ Again(s).attempt > 0
<1>1. wall \in Int /\ mono \in Nat /\ firings \in Nat
  BY DEF TypeInv, TypeOK
<1>2. ASSUME Fires(s)
      PROVE  DispatchOf(s, Fresh(S, s)) \in Dispatch /\ Fresh(S, s).attempt = 1
  <2> DEFINE e == Rescheduled(entries[s])
             before == {t \in S : t = s \/ Precedes(t, s)}
  <2>1. Held(s) /\ IsDue(e)
    BY <1>2 DEF Fires, DueAtPoll
  <2>2. entries[s] \in Entry /\ Shaped(entries[s])
    BY <2>1, HeldEntry
  <2>3. e \in Entry /\ Shaped(e)
    BY <1>1, <2>2, RescheduledEntry
  <2>4. Cardinality(before) \in Nat
    BY CountsSlots
  <2>5. Occurrence(e).at \in Int /\ Skipped(e) \in Nat
    <3> HIDE DEF e
    <3>1. Occurrence(e).at \in Int /\ Occurrence(e).skipped \in Nat
      BY <1>1, <2>1, <2>3, DueEntry
    <3> QED
      BY <3>1 DEF Skipped
  <2>6. Fresh(S, s) = [ id |-> firings + Cardinality(before), at |-> Occurrence(e).at,
                        missed |-> entries[s].missed + Skipped(e), attempt |-> 1 ]
    BY DEF Fresh
  <2> HIDE DEF e, before
  <2>7. Fresh(S, s) \in Firing /\ Fresh(S, s).attempt = 1
    BY <1>1, <2>2, <2>4, <2>5, <2>6 DEF Firing, Entry
  <2> QED
    BY <2>2, <2>7 DEF DispatchOf, Dispatch, Entry
<1>3. ASSUME Redelivers(s)
      PROVE  DispatchOf(s, Again(s)) \in Dispatch /\ Again(s).attempt > 0
  <2>1. Held(s) /\ Pending(entries[s])
    BY <1>3 DEF Redelivers
  <2>2. entries[s] \in Entry
    BY <2>1, HeldEntry
  <2> DEFINE f == entries[s].retry.firing
  <2>3. f \in Firing /\ f.attempt > 0
    BY <2>1, <2>2 DEF Entry, Retry, Pending
  <2>4. Again(s) = [f EXCEPT !.attempt = f.attempt + 1]
    BY <2>3 DEF Again, Firing
  <2> HIDE DEF f
  <2>5. Again(s) \in Firing /\ Again(s).attempt > 0
    BY <2>3, <2>4 DEF Firing
  <2> QED
    BY <2>2, <2>5 DEF DispatchOf, Dispatch, Entry
<1> QED
  BY <1>2, <1>3

(* One lemma for each action. *)
LEMMA TickTypes == ASSUME TypeInv, Tick PROVE TypeInv'
  BY DEF TypeInv, TypeOK, WellFormed, Held, Tick, engine

LEMMA StepClockTypes ==
  ASSUME TypeInv, NEW delta \in ClockSteps, StepClock(delta) PROVE TypeInv'
  BY ClockAssumption DEF TypeInv, TypeOK, WellFormed, Held, StepClock, engine

LEMMA OpenedType ==
  ASSUME wall \in Int, mono \in Nat, NEW spec PROVE Opened(spec) \in Ledger
  BY DEF Opened, Ledger

LEMMA ClosedType == Closed \in Ledger
  BY DEF Closed, Ledger

(* The entry that a bind leaves under a name of its workload. *)
LEMMA BoundSlot ==
  ASSUME TypeInv, NEW w \in Workloads, NEW b \in Bindings, Bind(w, b),
         NEW s \in Slot
  PROVE  /\ entries'[s] \in Entry \cup {NoEntry}
         /\ entries'[s] # NoEntry => Shaped(entries'[s])
         /\ entries'[s] # NoEntry /\ ~(Held(s) /\ entries'[s].epoch = entries[s].epoch)
              => s[1] = w /\ entries'[s].epoch > epochs /\ entries'[s].epoch <= epochs'
<1> DEFINE n == s[2]
           made == {m \in Created(b, w) : m <= n}
<1>1. /\ wall \in Int /\ mono \in Nat /\ epochs \in Nat
      /\ s[1] \in Workloads /\ n \in Names /\ s = <<s[1], n>>
  BY DEF TypeInv, TypeOK, Slot
<1>2. entries'[s] =
        IF s[1] # w THEN entries[s] ELSE
          CASE n \in Kept(b, w)    -> WithoutVoidedRetry(b, entries[s])
            [] n \in Created(b, w) ->
                 NewEntry(b.declared[n], TRUE, epochs + Cardinality(made))
            [] OTHER               -> NoEntry
  BY DEF Bind
<1>3. CASE s[1] # w
  <2>1. entries'[s] = entries[s]
    BY <1>2, <1>3
  <2> QED
    BY <2>1, HeldEntry DEF Held, TypeInv, TypeOK
<1>4. CASE s[1] = w /\ n \in Kept(b, w)
  <2>1. Held(s)
    BY <1>1, <1>4 DEF Kept, Permitted
  <2>2. entries[s] \in Entry /\ Shaped(entries[s])
    BY <2>1, HeldEntry
  <2>3. NoRetry \in Retry
    BY DEF NoRetry, Retry, NoFiring, Firing
  <2> DEFINE e == entries[s]
  <2>4. entries'[s] = WithoutVoidedRetry(b, e)
    BY <1>2, <1>4 DEF Created
  <2> HIDE DEF e
  <2>5. e \in Entry /\ Shaped(e) /\ e = entries[s]
    BY <2>2 DEF e
  <2>6. /\ entries'[s] \in Entry /\ Shaped(entries'[s])
        /\ entries'[s].epoch = e.epoch
    <3>1. CASE RetryVoided(b, e)
      <4> DEFINE n1 == e.missed + 1
      <4>1. n1 \in Nat
        BY <2>5 DEF Entry
      <4>2. entries'[s] = [e EXCEPT !.retry = NoRetry, !.missed = n1]
        BY <2>4, <2>5, <3>1 DEF WithoutVoidedRetry, Entry
      <4> HIDE DEF n1
      <4>3. /\ [e EXCEPT !.retry = NoRetry, !.missed = n1] \in Entry
            /\ Shaped([e EXCEPT !.retry = NoRetry, !.missed = n1])
            /\ [e EXCEPT !.retry = NoRetry, !.missed = n1].epoch = e.epoch
        BY <2>3, <2>5, <4>1 DEF Entry, Shaped
      <4> QED
        BY <4>2, <4>3
    <3>2. CASE ~RetryVoided(b, e)
      BY <2>4, <2>5, <3>2 DEF WithoutVoidedRetry
    <3> QED
      BY <3>1, <3>2
  <2> QED
    BY <2>1, <2>5, <2>6
<1>5. CASE s[1] = w /\ n \in Created(b, w) /\ n \notin Kept(b, w)
  <2>1. entries'[s] = NewEntry(b.declared[n], TRUE, epochs + Cardinality(made))
    BY <1>2, <1>5
  <2>2. /\ Created(b, w) \subseteq Names
        /\ b.declared[n] \in Specs
        /\ b.declared[n].kind = "interval" => b.declared[n].arg > 0
    BY <1>5, DeclaredTypes DEF Created
  <2>3. n <= n
    BY <1>1, SlotsAssumption
  <2>4. made \in SUBSET Created(b, w) /\ made # {}
    BY <1>5, <2>3
  <2> HIDE DEF made
  <2>5. /\ Cardinality(made) \in Nat /\ Cardinality(made) > 0
        /\ Cardinality(made) <= Cardinality(Created(b, w))
        /\ Cardinality(Created(b, w)) \in Nat
    BY <2>2, <2>4, CountsNames
  <2>6. epochs' = epochs + Cardinality(Created(b, w))
    BY DEF Bind
  <2> DEFINE k == epochs + Cardinality(made)
  <2>7. k \in Nat \ {0} /\ k > epochs /\ k <= epochs'
    BY <1>1, <2>5, <2>6
  <2> HIDE DEF k
  <2>8. /\ NewEntry(b.declared[n], TRUE, k) \in Entry
        /\ NewEntry(b.declared[n], TRUE, k).epoch = k
        /\ b.declared[n].kind = "interval" => Shaped(NewEntry(b.declared[n], TRUE, k))
    BY <1>1, <2>2, <2>7, NewEntryType
  <2>9. entries'[s] = NewEntry(b.declared[n], TRUE, k)
    BY <2>1 DEF k
  <2>10. b.declared[n].kind # "interval" => Shaped(entries'[s])
    BY <2>9 DEF NewEntry, Shaped
  <2> QED
    BY <1>5, <2>7, <2>8, <2>9, <2>10
<1>6. CASE s[1] = w /\ n \notin Created(b, w) /\ n \notin Kept(b, w)
  <2>1. entries'[s] = NoEntry
    BY <1>2, <1>6
  <2> QED
    BY <2>1
<1> QED
  BY <1>3, <1>4, <1>5, <1>6

LEMMA BindTypes ==
  ASSUME TypeInv, NEW w \in Workloads, NEW b \in Bindings, Bind(w, b)
  PROVE  TypeInv'
<1>1. entries' \in [Slot -> Entry \cup {NoEntry}]
  <2>1. \A s \in Slot : entries'[s] \in Entry \cup {NoEntry}
    BY BoundSlot
  <2>2. DOMAIN entries' = Slot /\ entries' = [s \in Slot |-> entries'[s]]
    BY DEF Bind
  <2> QED
    BY <2>1, <2>2
<1>2. ledger' \in [Slot -> Ledger]
  <2>1. ASSUME NEW s \in Slot
        PROVE  (IF s[1] # w \/ s[2] \in Kept(b, w) THEN ledger[s]
                ELSE IF s[2] \in Created(b, w) THEN Opened(b.declared[s[2]])
                ELSE Closed) \in Ledger
    <3>1. ledger[s] \in Ledger /\ wall \in Int /\ mono \in Nat
      BY DEF TypeInv, TypeOK
    <3> QED
      BY <3>1, OpenedType, ClosedType
  <2> QED
    BY <2>1 DEF Bind
<1>3. epochs' \in Nat
  <2>1. Created(b, w) \in SUBSET Names
    BY DeclaredTypes DEF Created
  <2> QED
    BY <2>1, CountsNames DEF Bind, TypeInv, TypeOK
<1>4. /\ bound' \in SUBSET Workloads
      /\ binding' \in [Workloads -> Bindings \cup {NoBinding}]
  BY DEF Bind, TypeInv, TypeOK
<1>5. /\ mono' = mono /\ wall' = wall /\ steps' = steps /\ busy' = busy
      /\ firings' = firings /\ lastPoll' = lastPoll /\ inflight' = inflight
  BY DEF Bind, clocks
<1>6. TypeOK'
  BY <1>1, <1>2, <1>3, <1>4, <1>5 DEF TypeInv, TypeOK
<1>7. WellFormed'
  <2>1. \A s \in Slot : entries'[s] # NoEntry => Shaped(entries'[s])
    BY BoundSlot
  <2> QED
    BY <1>5, <2>1 DEF TypeInv, WellFormed, Held, Shaped
<1> QED
  BY <1>6, <1>7 DEF TypeInv

LEMMA UnbindTypes ==
  ASSUME TypeInv, NEW w \in Workloads, Unbind(w) PROVE TypeInv'
<1>1. entries' \in [Slot -> Entry \cup {NoEntry}]
  BY DEF Unbind, TypeInv, TypeOK
<1>2. ledger' \in [Slot -> Ledger]
  BY ClosedType DEF Unbind, TypeInv, TypeOK
<1>3. ASSUME NEW d \in inflight'
      PROVE  d \in Dispatch /\ d.firing.attempt > 0
  <2>1. PICK c \in inflight :
          d = IF c.slot[1] = w THEN [c EXCEPT !.live = FALSE] ELSE c
    BY <1>3 DEF Unbind
  <2>2. c \in Dispatch /\ c.firing.attempt > 0
    BY DEF TypeInv, TypeOK, WellFormed
  <2> QED
    BY <2>1, <2>2 DEF Dispatch
<1>4. /\ mono' = mono /\ wall' = wall /\ steps' = steps /\ epochs' = epochs
      /\ firings' = firings /\ lastPoll' = lastPoll
      /\ bound' \in SUBSET Workloads
      /\ binding' \in [Workloads -> Bindings \cup {NoBinding}]
      /\ busy' \in [Slot -> Nat]
  BY DEF Unbind, clocks, TypeInv, TypeOK
<1>5. TypeOK'
  BY <1>1, <1>2, <1>3, <1>4 DEF TypeInv, TypeOK
<1>6. WellFormed'
  <2>1. ASSUME NEW s \in Slot, Held(s)' PROVE Shaped(entries[s])' 
    <3>1. entries'[s] = IF s[1] = w THEN NoEntry ELSE entries[s]
      BY DEF Unbind
    <3>2. entries'[s] = entries[s] /\ Held(s)
      BY <2>1, <3>1 DEF Held
    <3>3. Shaped(entries[s])
      BY <3>2, HeldEntry
    <3> QED
      BY <3>2, <3>3 DEF Shaped
  <2> QED
    BY <1>3, <2>1 DEF WellFormed
<1> QED
  BY <1>5, <1>6 DEF TypeInv

LEMMA RegisterTypes ==
  ASSUME TypeInv, NEW s \in Slot, NEW spec \in Specs, Register(s, spec)
  PROVE  TypeInv'
<1>1. wall \in Int /\ mono \in Nat /\ epochs \in Nat
  BY DEF TypeInv, TypeOK
<1> DEFINE k == epochs + 1
           e == NewEntry(spec, FALSE, k)
<1>2. k \in Nat \ {0}
  BY <1>1
<1>3. entries' = [entries EXCEPT ![s] = e] /\ epochs' = k
  BY DEF Register
<1>4. spec.kind = "interval" => spec.arg > 0
  BY SpecsAssumption DEF Register, Spec_
<1>5. /\ e \in Entry
      /\ spec.kind = "interval" => Shaped(e)
  <2> HIDE DEF k
  <2> QED
    BY <1>1, <1>2, <1>4, NewEntryType
<1>6. Shaped(e)
  BY <1>5 DEF NewEntry, Shaped
<1> HIDE DEF e, k
<1>7. /\ mono' = mono /\ wall' = wall /\ steps' = steps
      /\ firings' = firings /\ lastPoll' = lastPoll /\ inflight' = inflight
      /\ bound' = bound /\ binding' = binding /\ busy' = busy
      /\ ledger' = [ledger EXCEPT ![s] = Opened(spec)]
  BY DEF Register, clocks
<1>8. TypeOK'
  BY <1>1, <1>2, <1>3, <1>5, <1>7, OpenedType DEF TypeInv, TypeOK
<1>9. WellFormed'
  <2>1. ASSUME NEW t \in Slot, Held(t)' PROVE Shaped(entries[t])'
    <3>1. CASE t = s
      BY <1>3, <1>6, <3>1 DEF TypeInv, TypeOK, Shaped
    <3>2. CASE t # s
      <4>1. entries'[t] = entries[t]
        BY <1>3, <3>2
      <4>2. Shaped(entries[t])
        BY <2>1, <4>1, HeldEntry DEF Held
      <4> QED
        BY <4>1, <4>2 DEF Shaped
    <3> QED
      BY <3>1, <3>2
  <2> QED
    BY <1>7, <2>1 DEF TypeInv, WellFormed
<1> QED
  BY <1>8, <1>9 DEF TypeInv

LEMMA UnregisterTypes ==
  ASSUME TypeInv, NEW s \in Slot, Unregister(s) PROVE TypeInv'
<1>1. /\ entries' = [entries EXCEPT ![s] = NoEntry]
      /\ ledger' = [ledger EXCEPT ![s] = Closed]
      /\ mono' = mono /\ wall' = wall /\ steps' = steps /\ epochs' = epochs
      /\ firings' = firings /\ lastPoll' = lastPoll /\ inflight' = inflight
      /\ bound' = bound /\ binding' = binding /\ busy' = busy
  BY DEF Unregister, clocks
<1>2. TypeOK'
  BY <1>1, ClosedType DEF TypeInv, TypeOK
<1>3. WellFormed'
  <2>1. ASSUME NEW t \in Slot, Held(t)' PROVE Shaped(entries[t])'
    <3>1. entries'[t] = entries[t] /\ Held(t)
      BY <1>1, <2>1 DEF Held, TypeInv, TypeOK
    <3>2. Shaped(entries[t])
      BY <3>1, HeldEntry
    <3> QED
      BY <3>1, <3>2 DEF Shaped
  <2> QED
    BY <1>1, <2>1 DEF TypeInv, WellFormed
<1> QED
  BY <1>2, <1>3 DEF TypeInv

LEMMA PollTypes == ASSUME TypeInv, Poll PROVE TypeInv'
<1> DEFINE fresh == { s \in Slot : Fires(s) }
           again == { s \in Slot : Redelivers(s) }
<1>1. /\ firings' = firings + Cardinality(fresh)
      /\ entries' = [s \in Slot |-> Polled(s)]
      /\ busy' = [ s \in Slot |->
                     IF s \in fresh \cup again THEN entries[s].epoch ELSE busy[s] ]
      /\ inflight' = inflight
           \cup { DispatchOf(s, Fresh(fresh, s)) : s \in fresh }
           \cup { DispatchOf(s, Again(s)) : s \in again }
      /\ lastPoll' = [set |-> TRUE, gap |-> wall - mono]
      /\ ledger' = [ s \in Slot |->
           [ledger[s] EXCEPT !.reset =
              @ \/ (Held(s) /\ Rescheduled(entries[s]) # entries[s])] ]
      /\ mono' = mono /\ wall' = wall /\ steps' = steps /\ epochs' = epochs
      /\ bound' = bound /\ binding' = binding
  BY DEF Poll, clocks
<1>2. fresh \in SUBSET Slot /\ again \in SUBSET Slot
  OBVIOUS
<1>3. ASSUME NEW s \in fresh
      PROVE  /\ DispatchOf(s, Fresh(fresh, s)) \in Dispatch
             /\ DispatchOf(s, Fresh(fresh, s)).firing.attempt > 0
  <2>1. s \in Slot /\ Fires(s)
    BY <1>3
  <2>2. DispatchOf(s, Fresh(fresh, s)) \in Dispatch /\ Fresh(fresh, s).attempt > 0
    BY <1>2, <2>1, DispatchTypes
  <2>3. DispatchOf(s, Fresh(fresh, s)).firing = Fresh(fresh, s)
    BY DEF DispatchOf
  <2> QED
    BY <2>2, <2>3
<1>4. ASSUME NEW s \in again
      PROVE  /\ DispatchOf(s, Again(s)) \in Dispatch
             /\ DispatchOf(s, Again(s)).firing.attempt > 0
  <2>1. s \in Slot /\ Redelivers(s)
    BY <1>4
  <2>2. DispatchOf(s, Again(s)) \in Dispatch /\ Again(s).attempt > 0
    BY <1>2, <2>1, DispatchTypes
  <2>3. DispatchOf(s, Again(s)).firing = Again(s)
    BY DEF DispatchOf
  <2> QED
    BY <2>2, <2>3
<1>5. ASSUME NEW s \in fresh \cup again PROVE entries[s].epoch \in Nat
  <2>1. Held(s)
    BY DEF Fires, Redelivers, DueAtPoll
  <2> QED
    BY <2>1, HeldEntry DEF Entry
<1>6. Cardinality(fresh) \in Nat
  BY <1>2, CountsSlots
<1> HIDE DEF fresh, again
<1>7. \A d \in inflight' : d \in Dispatch /\ d.firing.attempt > 0
  BY <1>1, <1>3, <1>4 DEF TypeInv, TypeOK, WellFormed
<1>8. \A s \in Slot : Polled(s) \in Entry \cup {NoEntry}
  BY PolledSlot
<1>9. ledger' \in [Slot -> Ledger]
  BY <1>1 DEF TypeInv, TypeOK, Ledger
<1>10. TypeOK'
  <2>1. busy' \in [Slot -> Nat]
    BY <1>1, <1>5 DEF TypeInv, TypeOK
  <2>2. firings' \in Nat /\ lastPoll' \in [set : BOOLEAN, gap : Int]
    BY <1>1, <1>6 DEF TypeInv, TypeOK
  <2>3. entries' \in [Slot -> Entry \cup {NoEntry}]
    BY <1>1, <1>8
  <2>4. inflight' \in SUBSET Dispatch
    BY <1>7
  <2> QED
    BY <1>1, <1>9, <2>1, <2>2, <2>3, <2>4 DEF TypeInv, TypeOK
<1>11. WellFormed'
  <2>1. ASSUME NEW s \in Slot, Held(s)' PROVE Shaped(entries[s])'
    <3>1. entries'[s] = Polled(s)
      BY <1>1
    <3>2. Shaped(Polled(s))
      BY <2>1, <3>1, PolledSlot DEF Held
    <3> QED
      BY <3>1, <3>2 DEF Shaped
  <2> QED
    BY <1>7, <2>1 DEF WellFormed
<1> QED
  BY <1>10, <1>11 DEF TypeInv

LEMMA HeardType ==
  \A firing \in Firing, outcome \in Outcomes : Heard(firing, outcome) \in Nat
  BY DEF Heard, Firing, Outcomes

LEMMA NotedType ==
  \A l \in Ledger, firing \in Firing, outcome \in Outcomes :
    Noted(l, firing, outcome) \in Ledger
  BY HeardType DEF Noted, Ledger

LEMMA CompleteTypes ==
  ASSUME TypeInv, NEW d \in inflight, NEW outcome \in Outcomes, Complete(d, outcome)
  PROVE  TypeInv'
<1>1. /\ mono' = mono /\ wall' = wall /\ steps' = steps /\ epochs' = epochs
      /\ firings' = firings /\ lastPoll' = lastPoll
      /\ bound' = bound /\ binding' = binding /\ inflight' = inflight \ {d}
  BY DEF Complete, clocks
<1>2. /\ wall \in Int /\ mono \in Nat /\ d \in Dispatch /\ d.slot \in Slot
      /\ d.firing \in Firing /\ d.firing.attempt > 0
  BY DEF TypeInv, TypeOK, WellFormed, Dispatch
<1> DEFINE s == d.slot
<1>3. /\ busy' \in [Slot -> Nat] /\ ledger' \in [Slot -> Ledger]
      /\ entries' = [entries EXCEPT ![s] = entries'[s]]
      /\ entries'[s] \in Entry \cup {NoEntry}
      /\ entries'[s] # NoEntry => Shaped(entries'[s])
  <2>1. CASE CompleteUnbound(d)
    <3>1. entries' = entries /\ busy' = busy /\ ledger' = ledger
      BY <2>1 DEF CompleteUnbound
    <3>2. entries'[s] # NoEntry => Shaped(entries'[s])
      BY <1>2, <3>1, HeldEntry DEF Held
    <3> QED
      BY <1>2, <3>1, <3>2 DEF TypeInv, TypeOK
  <2>2. CASE CompleteStale(d)
    <3>1. busy' \in [Slot -> Nat]
      BY <1>2, <2>2 DEF CompleteStale, Freed, TypeInv, TypeOK
    <3>2. ledger' \in [Slot -> Ledger]
      BY <1>2, <2>2 DEF CompleteStale, TypeInv, TypeOK, Ledger
    <3>3. entries' = [entries EXCEPT ![s] = IF Held(s) THEN CaughtUp(entries[s])
                                                      ELSE entries[s]]
      BY <2>2 DEF CompleteStale
    <3>4. entries'[s] = IF Held(s) THEN CaughtUp(entries[s]) ELSE entries[s]
      BY <1>2, <3>3 DEF TypeInv, TypeOK
    <3>5. CASE Held(s)
      <4>1. entries[s] \in Entry /\ Shaped(entries[s])
        BY <1>2, <3>5, HeldEntry
      <4>2. CaughtUp(entries[s]) \in Entry /\ Shaped(CaughtUp(entries[s]))
        BY <1>2, <4>1, CaughtUpEntry
      <4> QED
        BY <3>1, <3>2, <3>3, <3>4, <3>5, <4>2
    <3>6. CASE ~Held(s)
      BY <3>1, <3>2, <3>3, <3>4, <3>6 DEF Held
    <3> QED
      BY <3>5, <3>6
  <2>3. CASE CompleteCurrent(d, outcome)
    <3> DEFINE b == binding[s[1]]
               f == Settled(b, entries[s], d.firing, outcome)
    <3>1. busy' \in [Slot -> Nat]
      BY <1>2, <2>3 DEF CompleteCurrent, Freed, TypeInv, TypeOK
    <3>2. ledger' \in [Slot -> Ledger]
      <4>1. Noted(ledger[s], d.firing, outcome) \in Ledger
        BY <1>2, NotedType DEF TypeInv, TypeOK
      <4> QED
        BY <1>2, <2>3, <4>1, ClosedType DEF CompleteCurrent, TypeInv, TypeOK
    <3>3. entries[s] \in Entry /\ Shaped(entries[s])
      BY <1>2, <2>3, HeldEntry DEF CompleteCurrent
    <3>4. b \in Bindings \cup {NoBinding}
      BY <1>2 DEF TypeInv, TypeOK, Slot
    <3>5. entries' = [entries EXCEPT ![s] = f]
      BY <2>3 DEF CompleteCurrent
    <3>6. entries'[s] = f
      BY <1>2, <3>5 DEF TypeInv, TypeOK
    <3>7. f # NoEntry => f \in Entry /\ Shaped(f)
      <4> HIDE DEF b
      <4> QED
        BY <1>2, <3>3, <3>4, SettledEntry
    <3> HIDE DEF f
    <3> QED
      BY <3>1, <3>2, <3>5, <3>6, <3>7
  <2> QED
    BY <2>1, <2>2, <2>3 DEF Complete
<1>4. TypeOK'
  BY <1>1, <1>2, <1>3 DEF TypeInv, TypeOK
<1>5. WellFormed'
  <2>1. ASSUME NEW t \in Slot, Held(t)' PROVE Shaped(entries[t])'
    <3>1. CASE t = s
      <4>1. entries'[s] # NoEntry
        BY <2>1, <3>1 DEF Held
      <4>2. Shaped(entries'[s])
        BY <1>3, <4>1
      <4> QED
        BY <3>1, <4>2 DEF Shaped
    <3>2. CASE t # s
      <4>1. entries'[t] = entries[t]
        BY <1>3, <3>2 DEF TypeInv, TypeOK
      <4>2. Shaped(entries[t])
        BY <2>1, <4>1, HeldEntry DEF Held
      <4> QED
        BY <4>1, <4>2 DEF Shaped
    <3> QED
      BY <3>1, <3>2
  <2> QED
    BY <1>1, <2>1 DEF TypeInv, WellFormed
<1> QED
  BY <1>4, <1>5 DEF TypeInv

LEMMA TypeStep == TypeInv /\ [Next]_vars => TypeInv'
<1> SUFFICES ASSUME TypeInv, [Next]_vars PROVE TypeInv'
  OBVIOUS
<1>1. CASE Tick
  BY <1>1, TickTypes
<1>2. ASSUME NEW delta \in ClockSteps, StepClock(delta) PROVE TypeInv'
  BY <1>2, StepClockTypes
<1>3. ASSUME NEW w \in Workloads, NEW b \in Bindings, Bind(w, b) PROVE TypeInv'
  BY <1>3, BindTypes
<1>4. ASSUME NEW w \in Workloads, Unbind(w) PROVE TypeInv'
  BY <1>4, UnbindTypes
<1>5. ASSUME NEW s \in Slot, NEW spec \in Specs, Register(s, spec) PROVE TypeInv'
  BY <1>5, RegisterTypes
<1>6. ASSUME NEW s \in Slot, Unregister(s) PROVE TypeInv'
  BY <1>6, UnregisterTypes
<1>7. CASE Poll
  BY <1>7, PollTypes
<1>8. ASSUME NEW d \in inflight, NEW outcome \in Outcomes, Complete(d, outcome)
      PROVE  TypeInv'
  BY <1>8, CompleteTypes
<1>9. CASE UNCHANGED vars
  BY <1>9 DEF TypeInv, TypeOK, WellFormed, Held, Shaped, vars, engine, clocks
<1> QED
  BY <1>1, <1>2, <1>3, <1>4, <1>5, <1>6, <1>7, <1>8, <1>9 DEF Next

(* Every variable keeps its type, for any workloads, names, schedules,      *)
(* bindings, crontabs and clocks: no count goes below zero, and the marks   *)
(* of an interval can always be divided by its period.                     *)
THEOREM TypeCorrect == Spec => []TypeOK
<1>1. Spec => []TypeInv
  BY InitTypes, TypeStep, PTL DEF Spec
<1>2. TypeInv => TypeOK
  BY DEF TypeInv
<1> QED
  BY <1>1, <1>2, PTL

-----------------------------------------------------------------------------
(***************************************************************************)
(* One schedule never overlaps itself.                                     *)
(***************************************************************************)
LEMMA InitOverlap == Init => OverlapInv
  BY DEF Init, OverlapInv, NoOverlap, BusyIsRunning, EpochsBelow, LiveOccupies,
         DeadForgotten, Held

(* Steps that leave what runs alone, and give entries new epochs only.      *)
LEMMA EntriesEvolve ==
  ASSUME TypeInv, OverlapInv,
         inflight' = inflight, busy' = busy, bound \subseteq bound',
         epochs' \in Nat, epochs <= epochs',
         \A s \in Slot : entries'[s] # NoEntry =>
           \/ Held(s) /\ entries'[s].epoch = entries[s].epoch
           \/ s[1] \in bound' /\ entries'[s].epoch > epochs
                             /\ entries'[s].epoch <= epochs'
  PROVE  OverlapInv'
<1>1. /\ epochs \in Nat
      /\ \A d \in inflight : d.epoch \in Nat /\ d.slot \in Slot
      /\ \A s \in Slot : Held(s) => entries[s].epoch \in Nat
  BY HeldEntry DEF TypeInv, TypeOK, Dispatch, Entry
<1>2. NoOverlap' /\ BusyIsRunning' /\ LiveOccupies'
  BY DEF OverlapInv, NoOverlap, BusyIsRunning, LiveOccupies
<1>3. EpochsBelow'
  <2>1. ASSUME NEW s \in Slot, Held(s)'
        PROVE  s[1] \in bound' /\ entries'[s].epoch <= epochs'
    <3>1. CASE Held(s) /\ entries'[s].epoch = entries[s].epoch
      BY <1>1, <3>1 DEF OverlapInv, EpochsBelow
    <3>2. CASE s[1] \in bound' /\ entries'[s].epoch <= epochs'
      BY <3>2
    <3> QED
      BY <2>1, <3>1, <3>2 DEF Held
  <2>2. ASSUME NEW d \in inflight PROVE d.epoch <= epochs'
    BY <1>1 DEF OverlapInv, EpochsBelow
  <2> QED
    BY <2>1, <2>2 DEF EpochsBelow
<1>4. DeadForgotten'
  <2> SUFFICES ASSUME NEW d \in inflight, ~d.live
      PROVE  /\ busy[d.slot] # d.epoch
             /\ entries'[d.slot] # NoEntry => entries'[d.slot].epoch # d.epoch
    BY DEF DeadForgotten, Held
  <2>1. /\ busy[d.slot] # d.epoch
        /\ Held(d.slot) => entries[d.slot].epoch # d.epoch
        /\ d.epoch <= epochs
    BY DEF OverlapInv, DeadForgotten, EpochsBelow
  <2>2. ASSUME entries'[d.slot].epoch > epochs
        PROVE  entries'[d.slot].epoch # d.epoch
    <3> SUFFICES ASSUME entries'[d.slot].epoch = d.epoch PROVE FALSE
      OBVIOUS
    <3> QED
      BY <1>1, <2>1, <2>2
  <2> QED
    BY <1>1, <2>1, <2>2
<1> QED
  BY <1>2, <1>3, <1>4 DEF OverlapInv

LEMMA EngineTypes ==
  TypeInv => epochs \in Nat /\ entries \in [Slot -> Entry \cup {NoEntry}]
  BY DEF TypeInv, TypeOK

LEMMA BindOverlap ==
  ASSUME TypeInv, OverlapInv, NEW w \in Workloads, NEW b \in Bindings, Bind(w, b)
  PROVE  OverlapInv'
<1>1. inflight' = inflight /\ busy' = busy /\ bound \subseteq bound' /\ w \in bound'
  BY DEF Bind
<1>2. Cardinality(Created(b, w)) \in Nat
  <2>1. Created(b, w) \in SUBSET Names
    BY DeclaredTypes DEF Created
  <2> QED
    BY <2>1, CountsNames
<1>3. epochs' \in Nat /\ epochs <= epochs'
  BY EngineTypes, <1>2 DEF Bind
<1>4. ASSUME NEW t \in Slot, entries'[t] # NoEntry,
             ~(Held(t) /\ entries'[t].epoch = entries[t].epoch)
      PROVE  t[1] \in bound' /\ entries'[t].epoch > epochs
                             /\ entries'[t].epoch <= epochs'
  BY <1>1, <1>4, BoundSlot
<1> QED
  BY <1>1, <1>3, <1>4, EntriesEvolve

LEMMA RegisterOverlap ==
  ASSUME TypeInv, OverlapInv, NEW s \in Slot, NEW spec \in Specs, Register(s, spec)
  PROVE  OverlapInv'
<1>1. /\ inflight' = inflight /\ busy' = busy /\ bound' = bound
      /\ s[1] \in bound /\ epochs' = epochs + 1
      /\ entries' = [entries EXCEPT ![s] = NewEntry(spec, FALSE, epochs + 1)]
  BY DEF Register, Registrable
<1>2. entries'[s].epoch = epochs + 1
  BY EngineTypes, <1>1 DEF NewEntry
<1>3. \A t \in Slot : t # s => entries'[t] = entries[t]
  BY EngineTypes, <1>1
<1>4. epochs' = epochs + 1 /\ s[1] \in bound'
  BY <1>1
<1> DEFINE k == entries'[s].epoch
<1>5. k > epochs /\ k <= epochs' /\ epochs' \in Nat /\ epochs <= epochs'
  <2>1. k = epochs + 1
    BY <1>2
  <2> HIDE DEF k
  <2> QED
    BY EngineTypes, <1>4, <2>1
<1> QED
  BY <1>1, <1>3, <1>4, <1>5, EntriesEvolve DEF Held

LEMMA UnregisterOverlap ==
  ASSUME TypeInv, OverlapInv, NEW s \in Slot, Unregister(s) PROVE OverlapInv'
<1>1. /\ inflight' = inflight /\ busy' = busy /\ bound' = bound /\ epochs' = epochs
      /\ entries' = [entries EXCEPT ![s] = NoEntry]
  BY DEF Unregister
<1>2. \A t \in Slot : entries'[t] # NoEntry => entries'[t] = entries[t]
  BY EngineTypes, <1>1
<1> QED
  BY EngineTypes, <1>1, <1>2, EntriesEvolve DEF Held

(* Unbinding frees the names of a workload and ends what runs for them.     *)
LEMMA UnbindOverlap ==
  ASSUME TypeInv, OverlapInv, NEW w \in Workloads, Unbind(w) PROVE OverlapInv'
<1>1. /\ bound' = bound \ {w} /\ epochs' = epochs
      /\ entries' = [s \in Slot |-> IF s[1] = w THEN NoEntry ELSE entries[s]]
      /\ busy' = [s \in Slot |-> IF s[1] = w THEN 0 ELSE busy[s]]
      /\ inflight' = { IF d.slot[1] = w THEN [d EXCEPT !.live = FALSE] ELSE d :
                         d \in inflight }
  BY DEF Unbind
<1>2. \A d \in inflight : d \in Dispatch /\ d.epoch # 0 /\ d.slot \in Slot
  BY DEF TypeInv, TypeOK, Dispatch
<1>3. \A s \in Slot : entries'[s] = (IF s[1] = w THEN NoEntry ELSE entries[s])
                      /\ busy'[s] = (IF s[1] = w THEN 0 ELSE busy[s])
  BY <1>1
<1>4. \A d \in inflight' :
        \/ d \in inflight /\ d.slot[1] # w
        \/ ~d.live /\ d.slot[1] = w /\ d.slot \in Slot /\ d.epoch # 0
             /\ \E c \in inflight : c.epoch = d.epoch
  BY <1>1, <1>2 DEF Dispatch
<1>5. \A d \in inflight : d.slot[1] # w => d \in inflight'
  BY <1>1
<1>6. NoOverlap'
  BY <1>4 DEF OverlapInv, NoOverlap
<1>7. BusyIsRunning'
  <2> SUFFICES ASSUME NEW s \in Slot
      PROVE  busy'[s] # 0 <=>
               \E d \in inflight' : d.live /\ d.slot = s /\ d.epoch = busy'[s]
    BY DEF BusyIsRunning
  <2>1. CASE s[1] = w
    BY <1>3, <1>4, <2>1
  <2>2. CASE s[1] # w
    <3>1. busy'[s] = busy[s]
      BY <1>3, <2>2
    <3>2. busy[s] # 0 <=> \E d \in inflight : d.live /\ d.slot = s /\ d.epoch = busy[s]
      BY DEF OverlapInv, BusyIsRunning
    <3> QED
      BY <1>4, <1>5, <2>2, <3>1, <3>2
  <2> QED
    BY <2>1, <2>2
<1>8. EpochsBelow'
  BY <1>1, <1>3, <1>4 DEF OverlapInv, EpochsBelow, Held
<1>9. LiveOccupies'
  BY <1>1, <1>2, <1>3, <1>4 DEF OverlapInv, LiveOccupies
<1>10. DeadForgotten'
  <2> SUFFICES ASSUME NEW d \in inflight', ~d.live
      PROVE  /\ busy'[d.slot] # d.epoch
             /\ entries'[d.slot] # NoEntry => entries'[d.slot].epoch # d.epoch
    BY DEF DeadForgotten, Held
  <2>1. CASE d \in inflight /\ d.slot[1] # w
    BY <1>2, <1>3, <2>1 DEF OverlapInv, DeadForgotten, Held
  <2>2. CASE d.slot[1] = w /\ d.slot \in Slot /\ d.epoch # 0
    BY <1>3, <2>2
  <2> QED
    BY <1>4, <2>1, <2>2
<1> QED
  BY <1>6, <1>7, <1>8, <1>9, <1>10 DEF OverlapInv

(* A poll dispatches to names that are free, one delivery to each.          *)
LEMMA PollOverlap == ASSUME TypeInv, OverlapInv, Poll PROVE OverlapInv'
<1> DEFINE fresh == { s \in Slot : Fires(s) }
           again == { s \in Slot : Redelivers(s) }
           taken == fresh \cup again
           new == { DispatchOf(s, Fresh(fresh, s)) : s \in fresh }
                    \cup { DispatchOf(s, Again(s)) : s \in again }
<1>1. /\ entries' = [s \in Slot |-> Polled(s)]
      /\ busy' = [s \in Slot |-> IF s \in taken THEN entries[s].epoch ELSE busy[s]]
      /\ inflight' = inflight \cup new
      /\ epochs' = epochs /\ bound' = bound
  BY DEF Poll
<1>2. \A s \in taken : s \in Slot /\ Held(s) /\ busy[s] = 0 /\ entries[s].epoch # 0
  <2>1. \A s \in taken : s \in Slot /\ Held(s) /\ busy[s] = 0
    BY DEF Fires, Redelivers, DueAtPoll
  <2> QED
    BY <2>1, HeldEntry DEF Entry
<1>3. \A d \in new : d.live /\ d.slot \in taken /\ d.epoch = entries[d.slot].epoch
  <2>1. ASSUME NEW s \in taken, NEW f
        PROVE  /\ DispatchOf(s, f).live /\ DispatchOf(s, f).slot = s
               /\ DispatchOf(s, f).epoch = entries[s].epoch
    BY DEF DispatchOf
  <2>2. \A d \in new : \E s \in taken : \E f : d = DispatchOf(s, f)
    OBVIOUS
  <2> HIDE DEF new, taken
  <2> QED
    BY <2>1, <2>2
<1>4. \A s \in taken : \E d \in new : d.slot = s
  <2>1. ASSUME NEW s, NEW f PROVE DispatchOf(s, f).slot = s
    BY DEF DispatchOf
  <2>2. \A s \in taken : \E f : DispatchOf(s, f) \in new
    OBVIOUS
  <2> HIDE DEF new, taken
  <2> QED
    BY <2>1, <2>2
<1>5. \A d1, d2 \in new : d1.slot = d2.slot => d1 = d2
  <2>1. fresh \cap again = {}
    BY DEF Fires, Redelivers
  <2>2. \A d \in new : \/ d.slot \in fresh /\ d = DispatchOf(d.slot, Fresh(fresh, d.slot))
                       \/ d.slot \in again /\ d = DispatchOf(d.slot, Again(d.slot))
    BY DEF DispatchOf
  <2> HIDE DEF fresh, again, new
  <2> QED
    BY <2>1, <2>2
<1> HIDE DEF fresh, again, taken, new
<1>6. /\ \A d \in inflight : d.slot \in Slot /\ d.epoch # 0
      /\ \A d \in inflight : d.live => d.slot[1] \in bound /\ busy[d.slot] = d.epoch
  BY DEF TypeInv, TypeOK, Dispatch, OverlapInv, LiveOccupies
<1>7. \A d \in inflight : d.live => d.slot \notin taken
  BY <1>2, <1>6
<1>8. \A s \in Slot : /\ s \in taken => busy'[s] = entries[s].epoch
                      /\ s \notin taken => busy'[s] = busy[s]
  BY <1>1
<1>9. \A s \in Slot : /\ Held(s)' => Held(s)
                      /\ Held(s) => entries'[s].epoch = entries[s].epoch
  BY <1>1, PolledSlot DEF Held
<1>10. NoOverlap'
  BY <1>1, <1>3, <1>5, <1>7 DEF OverlapInv, NoOverlap
<1>11. BusyIsRunning'
  <2> SUFFICES ASSUME NEW s \in Slot
      PROVE  busy'[s] # 0 <=>
               \E d \in inflight' : d.live /\ d.slot = s /\ d.epoch = busy'[s]
    BY DEF BusyIsRunning
  <2>1. CASE s \in taken
    BY <1>1, <1>2, <1>3, <1>4, <1>8, <2>1
  <2>2. CASE s \notin taken
    <3>1. busy[s] # 0 <=> \E d \in inflight : d.live /\ d.slot = s /\ d.epoch = busy[s]
      BY DEF OverlapInv, BusyIsRunning
    <3> QED
      BY <1>1, <1>3, <1>8, <2>2, <3>1
  <2> QED
    BY <2>1, <2>2
<1>12. EpochsBelow'
  <2>1. \A s \in Slot : Held(s) => s[1] \in bound /\ entries[s].epoch <= epochs
    BY DEF OverlapInv, EpochsBelow
  <2>2. \A d \in inflight : d.epoch <= epochs
    BY DEF OverlapInv, EpochsBelow
  <2>3. \A d \in new : d.epoch <= epochs
    BY <1>2, <1>3, <2>1
  <2>4. \A s \in Slot : Held(s)' => s[1] \in bound' /\ entries'[s].epoch <= epochs'
    BY <1>1, <1>9, <2>1
  <2> QED
    BY <1>1, <2>2, <2>3, <2>4 DEF EpochsBelow
<1>13. LiveOccupies'
  <2>1. \A d \in new : d.slot[1] \in bound /\ busy'[d.slot] = d.epoch
    BY <1>2, <1>3, <1>8 DEF OverlapInv, EpochsBelow
  <2>2. \A d \in inflight : d.live => d.slot[1] \in bound /\ busy'[d.slot] = d.epoch
    BY <1>6, <1>7, <1>8
  <2> QED
    BY <1>1, <2>1, <2>2 DEF LiveOccupies
<1>14. DeadForgotten'
  <2> SUFFICES ASSUME NEW d \in inflight, ~d.live
      PROVE  /\ busy'[d.slot] # d.epoch
             /\ Held(d.slot)' => entries'[d.slot].epoch # d.epoch
    BY <1>1, <1>3 DEF DeadForgotten
  <2>1. /\ busy[d.slot] # d.epoch
        /\ Held(d.slot) => entries[d.slot].epoch # d.epoch
    BY DEF OverlapInv, DeadForgotten
  <2> QED
    BY <1>2, <1>6, <1>8, <1>9, <2>1
<1> QED
  BY <1>10, <1>11, <1>12, <1>13, <1>14 DEF OverlapInv

(* A completion removes at most its own entry, and no other gets its epoch. *)
LEMMA CompletedSlots ==
  ASSUME TypeInv, NEW d \in inflight, NEW outcome \in Outcomes, Complete(d, outcome),
         NEW t \in Slot
  PROVE  Held(t)' => Held(t) /\ entries'[t].epoch = entries[t].epoch
<1>1. /\ wall \in Int /\ mono \in Nat /\ d.slot \in Slot
      /\ d.firing \in Firing /\ d.firing.attempt > 0
      /\ entries \in [Slot -> Entry \cup {NoEntry}]
  BY DEF TypeInv, TypeOK, WellFormed, Dispatch
<1> DEFINE s == d.slot
<1>2. CASE CompleteUnbound(d)
  BY <1>2 DEF CompleteUnbound, Held
<1>3. CASE CompleteStale(d)
  <2>1. entries' = [entries EXCEPT ![s] = IF Held(s) THEN CaughtUp(entries[s])
                                                    ELSE entries[s]]
    BY <1>3 DEF CompleteStale
  <2>2. Held(s) => CaughtUp(entries[s]).epoch = entries[s].epoch
    BY <1>1, HeldEntry, CaughtUpEntry
  <2>3. t # s => entries'[t] = entries[t]
    BY <1>1, <2>1
  <2>4. entries'[s] = IF Held(s) THEN CaughtUp(entries[s]) ELSE entries[s]
    BY <1>1, <2>1
  <2> QED
    BY <2>2, <2>3, <2>4 DEF Held
<1>4. CASE CompleteCurrent(d, outcome)
  <2> DEFINE b == binding[s[1]]
             f == Settled(b, entries[s], d.firing, outcome)
  <2>1. entries' = [entries EXCEPT ![s] = f] /\ Held(s)
    BY <1>4 DEF CompleteCurrent
  <2>2. f # NoEntry => f.epoch = entries[s].epoch
    <3>1. b \in Bindings \cup {NoBinding}
      BY <1>1 DEF TypeInv, TypeOK, Slot
    <3>2. entries[s] \in Entry /\ Shaped(entries[s])
      BY <1>1, <2>1, HeldEntry
    <3> HIDE DEF b
    <3> QED
      BY <1>1, <3>1, <3>2, SettledEntry
  <2> HIDE DEF f
  <2>3. t # s => entries'[t] = entries[t]
    BY <1>1, <2>1
  <2>4. entries'[s] = f
    BY <1>1, <2>1
  <2> QED
    BY <2>1, <2>2, <2>3, <2>4 DEF Held
<1> QED
  BY <1>2, <1>3, <1>4 DEF Complete

(* A completion frees its name if its call still ran, and nothing else.     *)
LEMMA CompleteOverlap ==
  ASSUME TypeInv, OverlapInv, NEW d \in inflight, NEW outcome \in Outcomes,
         Complete(d, outcome)
  PROVE  OverlapInv'
<1>1. inflight' = inflight \ {d} /\ epochs' = epochs /\ bound' = bound
  BY DEF Complete
<1>2. /\ \A c \in inflight : c.slot \in Slot /\ c.epoch # 0
      /\ busy \in [Slot -> Nat]
  BY DEF TypeInv, TypeOK, Dispatch
<1>3. /\ d.live => d.slot[1] \in bound /\ busy[d.slot] = d.epoch
      /\ ~d.live => busy[d.slot] # d.epoch
  BY DEF OverlapInv, LiveOccupies, DeadForgotten
<1>4. busy' = IF d.live THEN [busy EXCEPT ![d.slot] = 0] ELSE busy
  <2>1. CASE CompleteUnbound(d)
    BY <1>3, <2>1 DEF CompleteUnbound
  <2>2. CASE CompleteStale(d) \/ CompleteCurrent(d, outcome)
    <3>1. busy' = [busy EXCEPT ![d.slot] =
                     IF busy[d.slot] = d.epoch THEN 0 ELSE busy[d.slot]]
      BY <2>2 DEF CompleteStale, CompleteCurrent, Freed
    <3> QED
      BY <1>2, <1>3, <3>1
  <2> QED
    BY <2>1, <2>2 DEF Complete
<1>5. \A s \in Slot : busy'[s] = IF d.live /\ s = d.slot THEN 0 ELSE busy[s]
  BY <1>2, <1>4
<1>6. \A c \in inflight' : c \in inflight /\ c # d
  BY <1>1
<1>7. d.live => \A c \in inflight' : c.live => c.slot # d.slot
  BY <1>6 DEF OverlapInv, NoOverlap
<1>8. NoOverlap'
  BY <1>6 DEF OverlapInv, NoOverlap
<1>9. BusyIsRunning'
  <2> SUFFICES ASSUME NEW s \in Slot
      PROVE  busy'[s] # 0 <=>
               \E c \in inflight' : c.live /\ c.slot = s /\ c.epoch = busy'[s]
    BY DEF BusyIsRunning
  <2>1. busy[s] # 0 <=> \E c \in inflight : c.live /\ c.slot = s /\ c.epoch = busy[s]
    BY DEF OverlapInv, BusyIsRunning
  <2>2. CASE d.live /\ s = d.slot
    BY <1>5, <1>7, <2>2
  <2>3. CASE ~(d.live /\ s = d.slot)
    BY <1>1, <1>5, <1>6, <2>1, <2>3
  <2> QED
    BY <2>2, <2>3
<1>10. EpochsBelow'
  <2>1. \A s \in Slot : Held(s) => s[1] \in bound /\ entries[s].epoch <= epochs
    BY DEF OverlapInv, EpochsBelow
  <2>2. \A s \in Slot : Held(s)' => s[1] \in bound' /\ entries'[s].epoch <= epochs'
    BY <1>1, <2>1, CompletedSlots
  <2> QED
    BY <1>1, <1>6, <2>2 DEF OverlapInv, EpochsBelow
<1>11. LiveOccupies'
  BY <1>1, <1>2, <1>5, <1>6, <1>7 DEF OverlapInv, LiveOccupies
<1>12. DeadForgotten'
  <2> SUFFICES ASSUME NEW c \in inflight', ~c.live
      PROVE  /\ busy'[c.slot] # c.epoch
             /\ Held(c.slot)' => entries'[c.slot].epoch # c.epoch
    BY DEF DeadForgotten
  <2>1. /\ busy[c.slot] # c.epoch /\ c.slot \in Slot /\ c.epoch # 0
        /\ Held(c.slot) => entries[c.slot].epoch # c.epoch
    BY <1>2, <1>6 DEF OverlapInv, DeadForgotten
  <2>2. Held(c.slot)' => Held(c.slot) /\ entries'[c.slot].epoch = entries[c.slot].epoch
    BY <2>1, CompletedSlots
  <2> QED
    BY <1>5, <2>1, <2>2
<1> QED
  BY <1>8, <1>9, <1>10, <1>11, <1>12 DEF OverlapInv

LEMMA OverlapStep == TypeInv /\ OverlapInv /\ [Next]_vars => OverlapInv'
<1> SUFFICES ASSUME TypeInv, OverlapInv, [Next]_vars PROVE OverlapInv'
  OBVIOUS
<1>1. CASE Tick
  <2>1. UNCHANGED << inflight, busy, bound, epochs, entries >>
    BY <1>1 DEF Tick, engine
  <2> QED
    BY <2>1, EntriesEvolve DEF Held, TypeInv, TypeOK
<1>2. ASSUME NEW delta \in ClockSteps, StepClock(delta) PROVE OverlapInv'
  <2>1. UNCHANGED << inflight, busy, bound, epochs, entries >>
    BY <1>2 DEF StepClock, engine
  <2> QED
    BY <2>1, EntriesEvolve DEF Held, TypeInv, TypeOK
<1>3. ASSUME NEW w \in Workloads, NEW b \in Bindings, Bind(w, b) PROVE OverlapInv'
  BY <1>3, BindOverlap
<1>4. ASSUME NEW w \in Workloads, Unbind(w) PROVE OverlapInv'
  BY <1>4, UnbindOverlap
<1>5. ASSUME NEW s \in Slot, NEW spec \in Specs, Register(s, spec) PROVE OverlapInv'
  BY <1>5, RegisterOverlap
<1>6. ASSUME NEW s \in Slot, Unregister(s) PROVE OverlapInv'
  BY <1>6, UnregisterOverlap
<1>7. CASE Poll
  BY <1>7, PollOverlap
<1>8. ASSUME NEW d \in inflight, NEW outcome \in Outcomes, Complete(d, outcome)
      PROVE  OverlapInv'
  BY <1>8, CompleteOverlap
<1>9. CASE UNCHANGED vars
  <2>1. UNCHANGED << inflight, busy, bound, epochs, entries >>
    BY <1>9 DEF vars, engine
  <2> QED
    BY <2>1, EntriesEvolve DEF Held, TypeInv, TypeOK
<1> QED
  BY <1>1, <1>2, <1>3, <1>4, <1>5, <1>6, <1>7, <1>8, <1>9 DEF Next

LEMMA OverlapInvariant == Spec => [](TypeInv /\ OverlapInv)
  BY InitTypes, TypeStep, InitOverlap, OverlapStep, PTL DEF Spec

(* One schedule never overlaps itself: however its name is replaced,        *)
(* removed, unbound and bound again while a call runs, the engine has no    *)
(* second call of that name running.                                       *)
THEOREM NeverOverlaps == Spec => []NoOverlap
<1>1. TypeInv /\ OverlapInv => NoOverlap
  BY DEF OverlapInv
<1> QED
  BY <1>1, OverlapInvariant, PTL

(* A name is occupied exactly while a call for it runs.  With it the name   *)
(* of a schedule is never left occupied, which would silence it for good,  *)
(* and never freed by the completion of another's call.                    *)
THEOREM NamesAreFreed == Spec => []BusyIsRunning
<1>1. TypeInv /\ OverlapInv => BusyIsRunning
  BY DEF OverlapInv
<1> QED
  BY <1>1, OverlapInvariant, PTL

-----------------------------------------------------------------------------
(***************************************************************************)
(* What the engine holds: nothing that the binding in force does not       *)
(* permit, nothing whose last firing was settled, and no delivery past the *)
(* attempts it allows.  Then that it implements the contract of            *)
(* cosmonic:cron.                                                          *)
(***************************************************************************)

BindingOf(s) == binding[s[1]]

(* An entry stands under a binding: it is declared there, or was registered *)
(* and still may be; its retry is within the attempts.                     *)
Stands(b, n, e) ==
  /\ e.declared => n \in DOMAIN b.declared /\ e.spec = b.declared[n]
  /\ ~e.declared => b.canRegister /\ LimitsPermit(b, e.spec)
  /\ ~RetryVoided(b, e)

(* Only a one-shot is ever spent, and then its firing is owed still.        *)
Owed(s) ==
  LET e == entries[s]
  IN  e.spent => IsOnce(e.spec) /\ (Pending(e) \/ busy[s] = e.epoch)

EntriesStand ==
  \A s \in Slot : Held(s) => s[1] \in bound /\ Stands(BindingOf(s), s[2], entries[s])

EntriesOwed == \A s \in Slot : Held(s) => Owed(s)

DeclaredAreHeld ==
  \A s \in Slot : s[1] \in bound /\ s[2] \in DOMAIN BindingOf(s).declared =>
    Held(s) /\ entries[s].declared

(* What tells the newest registration from the others. *)
EpochsDiffer ==
  \A s, t \in Slot :
    Held(s) /\ Held(t) /\ entries[s].epoch = entries[t].epoch => s = t

RegisteredAreCounted ==
  \A w \in bound : Cardinality(Registered(w)) <= binding[w].maxRegistrations

BoundByBindings == \A w \in bound : binding[w] \in Bindings

GrantInv ==
  /\ BoundByBindings /\ EntriesStand /\ EntriesOwed
  /\ DeclaredAreHeld /\ EpochsDiffer /\ RegisteredAreCounted

-----------------------------------------------------------------------------
(***************************************************************************)
(* Of a finite set of numbered things, those that fewer than k others come *)
(* before are at most k.                                                   *)
(***************************************************************************)
LEMMA HasLargest ==
  ASSUME NEW T, NEW f, NEW top \in Nat, T # {},
         \A x \in T : f[x] \in Nat /\ f[x] <= top
  PROVE  \E x \in T : \A y \in T : f[y] <= f[x]
<1> DEFINE R == OpToRel(<, Nat)
           below == { top - f[x] : x \in T }
<1>1. IsWellFoundedOn(R, Nat)
  BY NatLessThanWellFounded
<1>2. below \subseteq Nat /\ below # {}
  OBVIOUS
<1>3. \A i, j \in Nat : i < j => <<i, j>> \in R
  BY DEF OpToRel
<1> HIDE DEF R
<1>4. PICK i \in below : \A j \in below : ~(<<j, i>> \in R)
  BY <1>1, <1>2, WFMin
<1>5. PICK x \in T : i = top - f[x]
  BY <1>4
<1>6. ASSUME NEW y \in T PROVE f[y] <= f[x]
  <2>1. top - f[y] \in below
    OBVIOUS
  <2>2. ~(top - f[y] < i)
    BY <1>2, <1>3, <1>4, <2>1
  <2> QED
    BY <1>5, <2>2
<1> QED
  BY <1>6

LEMMA FewBefore ==
  ASSUME NEW S, IsFiniteSet(S), NEW f, NEW top \in Nat, NEW k \in Nat,
         \A x \in S : f[x] \in Nat /\ f[x] <= top,
         \A x, y \in S : f[x] = f[y] => x = y
  PROVE  LET T == { x \in S : ~(Cardinality({ y \in S : f[y] < f[x] }) >= k) }
         IN  Cardinality(T) <= k
<1> DEFINE Before(x) == { y \in S : f[y] < f[x] }
           T == { x \in S : ~(Cardinality(Before(x)) >= k) }
<1>1. CASE T = {}
  <2>1. Cardinality(T) = 0
    BY <1>1, FS_EmptySet
  <2> HIDE DEF T
  <2>2. Cardinality(T) <= k
    BY <2>1
  <2> QED
    BY <2>2 DEF T
<1>2. CASE T # {}
  <2>1. \A x \in T : f[x] \in Nat /\ f[x] <= top
    OBVIOUS
  <2>2. PICK x \in T : \A y \in T : f[y] <= f[x]
    <3> HIDE DEF T
    <3> QED
      BY <1>2, <2>1, HasLargest
  <2> DEFINE B == Before(x)
  <2>3. IsFiniteSet(B) /\ Cardinality(B) \in Nat /\ Cardinality(B) < k
    <3>1. B \subseteq S
      OBVIOUS
    <3> HIDE DEF B
    <3>2. IsFiniteSet(B) /\ Cardinality(B) \in Nat
      BY <3>1, FS_Subset, FS_CardinalityType
    <3>3. ~(Cardinality(B) >= k)
      BY DEF B
    <3> QED
      BY <3>2, <3>3
  <2>4. T \subseteq B \cup {x}
    <3>1. ASSUME NEW y \in T, y # x PROVE y \in B
      <4>1. f[y] <= f[x] /\ f[y] \in Nat /\ f[x] \in Nat
        BY <2>1, <2>2
      <4>2. f[y] # f[x] /\ y \in S
        BY <3>1
      <4> QED
        BY <4>1, <4>2
    <3> HIDE DEF T, B
    <3> QED
      BY <3>1
  <2> HIDE DEF B
  <2>5. IsFiniteSet(B \cup {x}) /\ Cardinality(B \cup {x}) <= k
    <3>1. /\ IsFiniteSet(B \cup {x})
          /\ Cardinality(B \cup {x}) =
               IF x \in B THEN Cardinality(B) ELSE Cardinality(B) + 1
      BY <2>3, FS_AddElement
    <3> QED
      BY <2>3, <3>1
  <2>6. Cardinality(T) <= Cardinality(B \cup {x}) /\ Cardinality(T) \in Nat
            /\ Cardinality(B \cup {x}) \in Nat
    <3> HIDE DEF T
    <3> QED
      BY <2>4, <2>5, FS_Subset, FS_CardinalityType
  <2> HIDE DEF T
  <2>7. Cardinality(T) <= k
    BY <2>5, <2>6
  <2> QED
    BY <2>7 DEF T
<1> QED
  BY <1>1, <1>2

-----------------------------------------------------------------------------
(***************************************************************************)
(* What a step leaves of an entry.                                         *)
(***************************************************************************)
(* The registration, as against what it waits for. *)
SameRegistration(e, f) ==
  f.spec = e.spec /\ f.epoch = e.epoch /\ f.declared = e.declared

(* It may have been advanced, rescheduled, or have lost its retry, and only *)
(* a one-shot that came due was spent by it.                               *)
Moved(e, f) ==
  /\ f \in Entry /\ SameRegistration(e, f)
  /\ f.retry = e.retry \/ f.retry = NoRetry
  /\ f.spent = e.spent \/ IsOnce(e.spec)

LEMMA NoRetryType == NoRetry \in Retry /\ NoRetry.firing.attempt = 0
  BY DEF NoRetry, Retry, NoFiring, Firing

LEMMA AdvancedMoves ==
  ASSUME TypeInv, NEW e \in Entry, Shaped(e), IsDue(e)
  PROVE  /\ Moved(e, Advanced(e)) /\ Advanced(e).retry = e.retry
         /\ ~IsOnce(e.spec) => Advanced(e).spent = e.spent
<1>1. Advanced(e) \in Entry /\ Advanced(e).spec = e.spec /\ Advanced(e).epoch = e.epoch
  BY DueEntry DEF TypeInv, TypeOK
<1>2. /\ Advanced(e).declared = e.declared /\ Advanced(e).retry = e.retry
      /\ Advanced(e).spent = e.spent \/ IsOnce(e.spec)
  <2>1. CASE e.spec.kind = "cron"
    BY <2>1 DEF Advanced, Entry
  <2>2. CASE e.spec.kind = "interval"
    BY <2>2 DEF Advanced, Entry
  <2>3. CASE IsOnce(e.spec)
    BY <2>3 DEF Advanced, Entry, IsOnce
  <2> QED
    BY <2>1, <2>2, <2>3, SpecTypes DEF Entry, Kinds, IsOnce
<1> QED
  BY <1>1, <1>2 DEF Moved, SameRegistration

LEMMA RescheduledMoves ==
  ASSUME TypeInv, NEW e \in Entry, Shaped(e)
  PROVE  /\ Moved(e, Rescheduled(e)) /\ Rescheduled(e).retry = e.retry
         /\ Rescheduled(e).spent = e.spent
<1>1. Rescheduled(e) \in Entry /\ Rescheduled(e).spec = e.spec
        /\ Rescheduled(e).epoch = e.epoch /\ Rescheduled(e).retry = e.retry
  BY RescheduledEntry DEF TypeInv, TypeOK
<1>2. Rescheduled(e).declared = e.declared /\ Rescheduled(e).spent = e.spent
  BY DEF Rescheduled, Entry
<1> QED
  BY <1>1, <1>2 DEF Moved, SameRegistration

LEMMA CaughtUpMoves ==
  ASSUME TypeInv, NEW e \in Entry, Shaped(e)
  PROVE  /\ Moved(e, CaughtUp(e)) /\ CaughtUp(e).spent = e.spent
         /\ IsOnce(e.spec) => CaughtUp(e) = e
<1>1. CASE ~IsOnce(e.spec) /\ IsDue(e)
  <2> DEFINE a == Advanced(e)
             n == a.missed + Occurrence(e).skipped + 1
  <2>1. Moved(e, a) /\ a.spent = e.spent
    BY <1>1, AdvancedMoves
  <2>2. Occurrence(e).skipped \in Nat
    BY <1>1, DueEntry DEF TypeInv, TypeOK
  <2>3. n \in Nat
    BY <2>1, <2>2 DEF Moved, Entry
  <2>4. CaughtUp(e) = [a EXCEPT !.retry = NoRetry, !.missed = n,
                                !.overtaken = TRUE]
    BY <1>1, <2>1 DEF CaughtUp, Moved, Entry
  <2> HIDE DEF a, n
  <2> QED
    BY <1>1, <2>1, <2>3, <2>4, NoRetryType DEF Moved, SameRegistration, Entry
<1>2. CASE ~(~IsOnce(e.spec) /\ IsDue(e))
  <2>1. CaughtUp(e) = e
    BY <1>2 DEF CaughtUp
  <2> QED
    BY <2>1 DEF Moved, SameRegistration
<1> QED
  BY <1>1, <1>2

(* What settling a delivery queues is within the attempts, and a one-shot   *)
(* is kept for its retry only.                                             *)
LEMMA SettledGrants ==
  ASSUME TypeInv, NEW b \in Bindings \cup {NoBinding},
         NEW entry \in Entry, Shaped(entry), ~RetryVoided(b, entry),
         entry.spent => IsOnce(entry.spec),
         NEW firing \in Firing, firing.attempt > 0, NEW outcome \in Outcomes,
         Settled(b, entry, firing, outcome) # NoEntry
  PROVE  LET f == Settled(b, entry, firing, outcome)
         IN  /\ SameRegistration(entry, f) /\ ~RetryVoided(b, f)
             /\ f.spent => IsOnce(f.spec) /\ Pending(f)
             /\ f.retry \in {entry.retry, NoRetry} \/ f.retry.firing = firing
<1> DEFINE c == CaughtUp(entry)
           e == Concluded(c)
           queued == RetryQueued(b, e, firing, outcome)
           n == e.missed + Unheard(b, e, firing, outcome)
           q == [due |-> mono + Backoff(b, firing), firing |-> firing]
           r == IF queued THEN q ELSE e.retry
           f == Settled(b, entry, firing, outcome)
<1>1. Moved(entry, c) /\ c.spent = entry.spent /\ Shaped(c)
  BY CaughtUpMoves, CaughtUpEntry DEF TypeInv, TypeOK
<1>2. /\ e \in Entry /\ SameRegistration(entry, e)
      /\ e.retry = c.retry /\ e.spent = c.spent
  <2> HIDE DEF c
  <2>1. e \in Entry
    BY <1>1, ConcludedEntry DEF Moved
  <2> QED
    BY <1>1, <2>1 DEF Moved, SameRegistration, Concluded, Entry
<1>3. /\ ~(IsOnce(e.spec) /\ ~queued)
      /\ f = [e EXCEPT !.missed = n, !.retry = r]
  <2> HIDE DEF c
  <2>1. f = IF IsOnce(e.spec) /\ ~queued THEN NoEntry
            ELSE [e EXCEPT !.missed = @ + Unheard(b, e, firing, outcome),
                           !.retry = IF queued THEN q ELSE @]
    BY DEF Settled, c
  <2>2. ~(IsOnce(e.spec) /\ ~queued)
    BY <2>1
  <2> HIDE DEF e, queued
  <2> QED
    BY <1>2, <2>1, <2>2 DEF Entry
<1>4. queued => r = q /\ firing.attempt < b.maxAttempts
  BY DEF RetryQueued
<1>5. ~queued => r = e.retry
  OBVIOUS
<1>6. /\ q.firing = firing /\ firing.attempt \in Nat /\ b.maxAttempts \in Nat
  BY BindingTypes DEF Firing
<1> HIDE DEF c, e, queued, n, q, r, f
<1>7. SameRegistration(entry, f) /\ f.retry = r /\ f.spent = entry.spent
  BY <1>1, <1>2, <1>3 DEF Entry, SameRegistration
<1>8. /\ ~RetryVoided(b, f)
      /\ f.retry \in {entry.retry, NoRetry} \/ f.retry.firing = firing
  <2>1. CASE queued
    BY <1>4, <1>6, <1>7, <2>1 DEF RetryVoided
  <2>2. CASE ~queued
    <3>1. r = entry.retry \/ r = NoRetry
      BY <1>1, <1>2, <1>5, <2>2 DEF Moved
    <3> QED
      BY <1>7, <3>1, NoRetryType DEF RetryVoided, Pending
  <2> QED
    BY <2>1, <2>2
<1>9. ASSUME f.spent PROVE IsOnce(f.spec) /\ Pending(f)
  <2>1. IsOnce(entry.spec) /\ IsOnce(f.spec)
    BY <1>7, <1>9 DEF SameRegistration
  <2>2. queued
    BY <1>2, <1>3, <2>1 DEF SameRegistration
  <2> QED
    BY <1>4, <1>6, <1>7, <2>1, <2>2 DEF Pending
<1> QED
  BY <1>7, <1>8, <1>9 DEF f

(* Moves compose, and so does the loss of a retry with its counters reset.  *)
LEMMA MovedTwice ==
  ASSUME NEW d, NEW e, NEW f, Moved(d, e), Moved(e, f) PROVE Moved(d, f)
  BY DEF Moved, SameRegistration

LEMMA ClearedMoves ==
  ASSUME NEW e, NEW v, Moved(e, v), NEW n \in Nat, NEW o \in BOOLEAN
  PROVE  LET f == [[v EXCEPT !.retry = NoRetry] EXCEPT !.missed = n, !.overtaken = o]
         IN  Moved(e, f) /\ f.spent = v.spent
  BY NoRetryType DEF Moved, SameRegistration, Entry

(* What a poll leaves of a slot, and which one-shots it spends.             *)
LEMMA PolledMoves ==
  ASSUME TypeInv, NEW s \in Slot, Held(s)
  PROVE  /\ Moved(entries[s], Polled(s))
         /\ ~Fires(s) => Polled(s).spent = entries[s].spent
         /\ ~Fires(s) /\ IsOnce(entries[s].spec) /\ ~Redelivers(s) =>
              Polled(s).retry = entries[s].retry
<1> DEFINE e == Rescheduled(entries[s])
           v == Advanced(e)
           a == [v EXCEPT !.retry = NoRetry]
           n == a.missed + Skipped(e) + 1
<1>1. entries[s] \in Entry /\ Shaped(entries[s])
  BY HeldEntry
<1>2. /\ Moved(entries[s], e) /\ e.retry = entries[s].retry
      /\ e.spent = entries[s].spent /\ Shaped(e)
  BY <1>1, RescheduledMoves, RescheduledEntry DEF TypeInv, TypeOK
<1>3. ASSUME DueAtPoll(s)
      PROVE  /\ Moved(e, v) /\ n \in Nat
             /\ ~IsOnce(e.spec) => v.spent = e.spent
  <2>1. IsDue(e) /\ e \in Entry
    BY <1>2, <1>3 DEF DueAtPoll, Moved
  <2> HIDE DEF e
  <2>2. Moved(e, v) /\ (~IsOnce(e.spec) => v.spent = e.spent)
    BY <1>2, <2>1, AdvancedMoves
  <2>3. Occurrence(e).skipped \in Nat
    BY <1>2, <2>1, DueEntry DEF TypeInv, TypeOK
  <2>4. a.missed \in Nat
    BY <2>2 DEF Moved, Entry
  <2>5. Skipped(e) \in Nat
    BY <2>3 DEF Skipped
  <2> HIDE DEF a
  <2> QED
    BY <2>2, <2>4, <2>5
<1>4. CASE Fires(s)
  <2>1. Polled(s) = [a EXCEPT !.missed = 0, !.overtaken = FALSE]
    BY <1>4 DEF Polled, Fires, Overruns, Redelivers
  <2>2. Moved(e, v)
    BY <1>3, <1>4 DEF Fires
  <2>3. Moved(entries[s], v)
    <3> HIDE DEF e, v
    <3> QED
      BY <1>2, <2>2, MovedTwice
  <2> HIDE DEF e, v
  <2>4. Moved(entries[s], [a EXCEPT !.missed = 0, !.overtaken = FALSE])
    BY <2>3, ClearedMoves
  <2> HIDE DEF a
  <2> QED
    BY <1>4, <2>1, <2>4
<1>5. CASE Overruns(s)
  <2>1. Polled(s) = [a EXCEPT !.missed = @ + Skipped(e) + 1, !.overtaken = TRUE]
    BY <1>5 DEF Polled, Fires, Overruns, Redelivers
  <2>2. Moved(e, v) /\ n \in Nat /\ ~IsOnce(entries[s].spec)
           /\ (~IsOnce(e.spec) => v.spent = e.spent)
    BY <1>3, <1>5 DEF Overruns
  <2>3. [a EXCEPT !.missed = @ + Skipped(e) + 1, !.overtaken = TRUE]
          = [a EXCEPT !.missed = n, !.overtaken = TRUE]
    BY <2>2 DEF Entry, Moved
  <2>4. Moved(entries[s], v)
    <3> HIDE DEF e, v
    <3> QED
      BY <1>2, <2>2, MovedTwice
  <2>5. v.spent = entries[s].spent
    BY <1>2, <2>2 DEF Moved, SameRegistration
  <2> HIDE DEF e, v, n
  <2>6. /\ Moved(entries[s], [a EXCEPT !.missed = n, !.overtaken = TRUE])
        /\ [a EXCEPT !.missed = n, !.overtaken = TRUE].spent = v.spent
    BY <2>2, <2>4, ClearedMoves
  <2> HIDE DEF a
  <2> QED
    BY <2>1, <2>2, <2>3, <2>5, <2>6
<1>6. CASE Redelivers(s)
  <2>1. Polled(s) = [e EXCEPT !.retry = NoRetry]
    BY <1>6 DEF Polled, Fires, Overruns, Redelivers
  <2> HIDE DEF e
  <2> QED
    BY <1>2, <1>6, <2>1, NoRetryType DEF Moved, SameRegistration, Entry
<1>7. CASE ~Fires(s) /\ ~Overruns(s) /\ ~Redelivers(s)
  <2>1. Polled(s) = e
    BY <1>7 DEF Polled
  <2> HIDE DEF e
  <2> QED
    BY <1>2, <2>1
<1> QED
  BY <1>4, <1>5, <1>6, <1>7

-----------------------------------------------------------------------------
(***************************************************************************)
(* Nothing is held against its binding.                                    *)
(***************************************************************************)
LEMMA InitGrants == Init => GrantInv
  BY DEF Init, GrantInv, BoundByBindings, EntriesStand, EntriesOwed,
         DeclaredAreHeld, EpochsDiffer, RegisteredAreCounted, Held

LEMMA LimitTypes ==
  \A b \in Bindings :
    b.maxRegistrations \in Nat /\ b.maxAttempts \in Nat /\ b.maxAttempts >= 1
  BY BindingsAssumption DEF Binding

LEMMA RegisteredCounts ==
  \A w : Registered(w) \in SUBSET Names /\ IsFiniteSet(Registered(w))
           /\ Cardinality(Registered(w)) \in Nat
  BY CountsNames DEF Registered

(* Steps that leave the bindings and every registration as they were, or    *)
(* end registrations that were not declared.                               *)
LEMMA GrantsEvolve ==
  ASSUME TypeInv, GrantInv, bound' = bound, binding' = binding,
         \A s \in Slot : Held(s)' =>
           /\ Held(s) /\ SameRegistration(entries[s], entries'[s])
           /\ ~RetryVoided(binding[s[1]], entries'[s]) /\ Owed(s)',
         \A s \in Slot : Held(s) /\ entries[s].declared => Held(s)'
  PROVE  GrantInv'
<1>1. BoundByBindings'
  BY DEF GrantInv, BoundByBindings
<1>2. EntriesStand'
  <2> SUFFICES ASSUME NEW s \in Slot, Held(s)'
      PROVE  s[1] \in bound /\ Stands(binding[s[1]], s[2], entries'[s])
    BY DEF EntriesStand, BindingOf, Stands, RetryVoided, Pending
  <2>1. Held(s) /\ SameRegistration(entries[s], entries'[s])
          /\ ~RetryVoided(binding[s[1]], entries'[s])
    OBVIOUS
  <2>2. s[1] \in bound /\ Stands(binding[s[1]], s[2], entries[s])
    BY <2>1 DEF GrantInv, EntriesStand, BindingOf
  <2> QED
    BY <2>1, <2>2 DEF Stands, SameRegistration
<1>3. EntriesOwed'
  BY DEF EntriesOwed
<1>4. DeclaredAreHeld'
  BY DEF GrantInv, DeclaredAreHeld, SameRegistration, BindingOf, Held
<1>5. EpochsDiffer'
  BY DEF GrantInv, EpochsDiffer, SameRegistration, Held
<1>6. RegisteredAreCounted'
  <2> SUFFICES ASSUME NEW w \in bound
      PROVE  Cardinality(Registered(w)') <= binding[w].maxRegistrations
    BY DEF RegisteredAreCounted
  <2>1. w \in Workloads
    BY DEF TypeInv, TypeOK
  <2>2. \A n \in Names : <<w, n>> \in Slot
    BY <2>1 DEF Slot
  <2>3. Registered(w)' \in SUBSET Registered(w)
    BY <2>2 DEF Registered, SameRegistration
  <2>4. /\ Registered(w) \in SUBSET Names /\ Cardinality(Registered(w)) \in Nat
        /\ Cardinality(Registered(w)) <= binding[w].maxRegistrations
        /\ binding[w].maxRegistrations \in Nat
    BY RegisteredCounts, LimitTypes DEF GrantInv, RegisteredAreCounted, BoundByBindings
  <2> DEFINE R == Registered(w)
             R1 == Registered(w)'
  <2>5. R1 \in SUBSET R /\ R1 \in SUBSET Names /\ R \in SUBSET Names
    BY <2>3, <2>4
  <2> HIDE DEF R, R1
  <2>6. Cardinality(R1) <= Cardinality(R) /\ Cardinality(R1) \in Nat
    BY <2>5, CountsNames
  <2> QED
    BY <2>4, <2>6 DEF R, R1
<1> QED
  BY <1>1, <1>2, <1>3, <1>4, <1>5, <1>6 DEF GrantInv

(* Steps that leave the engine alone. *)
LEMMA EngineRests ==
  ASSUME TypeInv, GrantInv, UNCHANGED << bound, binding, entries, busy >>
  PROVE  GrantInv'
<1>1. ASSUME NEW s \in Slot, Held(s)'
      PROVE  /\ Held(s) /\ SameRegistration(entries[s], entries'[s])
             /\ ~RetryVoided(binding[s[1]], entries'[s]) /\ Owed(s)'
  BY <1>1 DEF GrantInv, EntriesStand, Stands, BindingOf, EntriesOwed, Owed,
              SameRegistration, Held, Pending
<1>2. \A s \in Slot : Held(s) => Held(s)'
  BY DEF Held
<1> QED
  BY <1>1, <1>2, GrantsEvolve

LEMMA UnregisterGrants ==
  ASSUME TypeInv, GrantInv, NEW t \in Slot, Unregister(t) PROVE GrantInv'
<1>1. /\ bound' = bound /\ binding' = binding /\ busy' = busy
      /\ entries' = [entries EXCEPT ![t] = NoEntry]
      /\ ~entries[t].declared
  BY DEF Unregister
<1>2. \A s \in Slot : entries'[s] = IF s = t THEN NoEntry ELSE entries[s]
  BY <1>1, EngineTypes
<1>3. ASSUME NEW s \in Slot, Held(s)'
      PROVE  /\ Held(s) /\ SameRegistration(entries[s], entries'[s])
             /\ ~RetryVoided(binding[s[1]], entries'[s]) /\ Owed(s)'
  <2>1. entries'[s] = entries[s] /\ Held(s)
    BY <1>2, <1>3 DEF Held
  <2> QED
    BY <1>1, <2>1 DEF GrantInv, EntriesStand, Stands, BindingOf, EntriesOwed, Owed,
              SameRegistration, Pending
<1>4. \A s \in Slot : Held(s) /\ entries[s].declared => Held(s)'
  BY <1>1, <1>2 DEF Held
<1> QED
  BY <1>1, <1>3, <1>4, GrantsEvolve

(* A poll occupies the name of what it spends. *)
LEMMA PollGrants == ASSUME TypeInv, GrantInv, Poll PROVE GrantInv'
<1> DEFINE taken == { s \in Slot : Fires(s) } \cup { s \in Slot : Redelivers(s) }
<1>1. /\ bound' = bound /\ binding' = binding
      /\ \A s \in Slot : entries'[s] = Polled(s)
      /\ \A s \in Slot : busy'[s] = IF s \in taken THEN entries[s].epoch ELSE busy[s]
  BY DEF Poll
<1>2. \A s \in Slot : s \in taken <=> Fires(s) \/ Redelivers(s)
  OBVIOUS
<1> HIDE DEF taken
<1>3. ASSUME NEW s \in Slot, Held(s)'
      PROVE  /\ Held(s) /\ SameRegistration(entries[s], entries'[s])
             /\ ~RetryVoided(binding[s[1]], entries'[s]) /\ Owed(s)'
  <2>1. Held(s)
    BY <1>1, <1>3, PolledSlot DEF Held
  <2> DEFINE e == entries[s]
             f == Polled(s)
  <2>2. /\ f = entries'[s] /\ Moved(e, f)
        /\ ~Fires(s) => f.spent = e.spent
        /\ ~Fires(s) /\ IsOnce(e.spec) /\ ~Redelivers(s) => f.retry = e.retry
    BY <1>1, <2>1, PolledMoves
  <2>3. /\ ~RetryVoided(binding[s[1]], e)
        /\ e.spent => IsOnce(e.spec) /\ (Pending(e) \/ busy[s] = e.epoch)
    BY <2>1 DEF GrantInv, EntriesStand, Stands, BindingOf, EntriesOwed, Owed
  <2> HIDE DEF f
  <2>4. SameRegistration(e, f)
    BY <2>2 DEF Moved
  <2>5. ~RetryVoided(binding[s[1]], f)
    BY <2>2, <2>3, NoRetryType DEF RetryVoided, Pending, Moved
  <2>6. ASSUME f.spent
        PROVE  IsOnce(f.spec) /\ (Pending(f) \/ busy'[s] = f.epoch)
    <3>1. IsOnce(e.spec) /\ f.spec = e.spec /\ f.epoch = e.epoch
      BY <2>2, <2>3, <2>6 DEF Moved, SameRegistration
    <3>2. CASE Fires(s) \/ Redelivers(s)
      BY <1>1, <1>2, <3>1, <3>2
    <3>3. CASE ~Fires(s) /\ ~Redelivers(s)
      BY <1>1, <1>2, <2>2, <2>3, <2>6, <3>1, <3>3 DEF Pending
    <3> QED
      BY <3>1, <3>2, <3>3
  <2>7. Owed(s)'
    BY <2>2, <2>6 DEF Owed, Pending
  <2> QED
    BY <2>1, <2>2, <2>4, <2>5, <2>7
<1>4. \A s \in Slot : Held(s) => Held(s)'
  BY <1>1, PolledSlot, EntryNotNoEntry DEF Held
<1> QED
  BY <1>1, <1>3, <1>4, GrantsEvolve

(* What is declared is no one-shot, and settling ends nothing else. *)
LEMMA DeclaredRepeats ==
  ASSUME GrantInv, NEW s \in Slot, Held(s), entries[s].declared
  PROVE  ~IsOnce(entries[s].spec)
<1> DEFINE b == binding[s[1]]
<1>1. b \in Bindings /\ s[2] \in DOMAIN b.declared /\ entries[s].spec = b.declared[s[2]]
  BY DEF GrantInv, EntriesStand, Stands, BindingOf, BoundByBindings
<1> HIDE DEF b
<1>2. b.declared[s[2]].kind \in {"cron", "interval"}
  BY <1>1, BindingsAssumption
<1> QED
  BY <1>1, <1>2 DEF IsOnce

LEMMA SettledStays ==
  ASSUME TypeInv, NEW b, NEW entry \in Entry, Shaped(entry), ~IsOnce(entry.spec),
         NEW firing, NEW outcome
  PROVE  Settled(b, entry, firing, outcome) # NoEntry
<1> DEFINE c == CaughtUp(entry)
           e == Concluded(c)
           f == Settled(b, entry, firing, outcome)
<1>1. c \in Entry /\ c.spec = entry.spec
  BY CaughtUpMoves DEF Moved, SameRegistration
<1>2. e = c
  BY <1>1 DEF Concluded
<1>3. \E n, r : f = [e EXCEPT !.missed = n, !.retry = r]
  BY <1>1, <1>2 DEF Settled
<1> HIDE DEF c, e, f
<1>4. f.epoch = e.epoch /\ e.epoch # 0
  BY <1>1, <1>2, <1>3 DEF Entry
<1> QED
  BY <1>4 DEF f, NoEntry

(* A completion ends a one-shot, or queues it for a retry, before its name  *)
(* is free.                                                                *)
LEMMA CompleteGrants ==
  ASSUME TypeInv, OverlapInv, GrantInv, NEW d \in inflight, NEW outcome \in Outcomes,
         Complete(d, outcome)
  PROVE  GrantInv'
<1> DEFINE t == d.slot
<1>1. bound' = bound /\ binding' = binding
  BY DEF Complete
<1>2. /\ t \in Slot /\ d.firing \in Firing /\ d.firing.attempt > 0
      /\ busy \in [Slot -> Nat]
      /\ t[1] \in bound => binding[t[1]] \in Bindings
  BY DEF TypeInv, TypeOK, WellFormed, Dispatch, GrantInv, BoundByBindings
<1> HIDE DEF t
<1>3. ASSUME NEW s \in Slot, Held(s)
      PROVE  /\ ~RetryVoided(binding[s[1]], entries[s])
             /\ entries[s].spent =>
                  IsOnce(entries[s].spec) /\ (Pending(entries[s]) \/ busy[s] = entries[s].epoch)
  BY <1>3 DEF GrantInv, EntriesStand, Stands, BindingOf, EntriesOwed, Owed
<1>4. ASSUME entries' = entries, NEW s \in Slot, Held(s)', busy'[s] = busy[s]
      PROVE  /\ Held(s) /\ SameRegistration(entries[s], entries'[s])
             /\ ~RetryVoided(binding[s[1]], entries'[s]) /\ Owed(s)'
  BY <1>3, <1>4 DEF Held, SameRegistration, Owed, Pending
<1>5. ASSUME NEW s \in Slot, Held(s)'
      PROVE  /\ Held(s) /\ SameRegistration(entries[s], entries'[s])
             /\ ~RetryVoided(binding[s[1]], entries'[s]) /\ Owed(s)'
  <2>1. CASE CompleteUnbound(d)
    BY <1>4, <1>5, <2>1 DEF CompleteUnbound
  <2>2. CASE CompleteStale(d)
    <3>1. /\ entries' = [entries EXCEPT ![t] = IF Held(t) THEN CaughtUp(entries[t])
                                                        ELSE entries[t]]
          /\ busy' = [busy EXCEPT ![t] = IF busy[t] = d.epoch THEN 0 ELSE busy[t]]
          /\ Held(t) => entries[t].epoch # d.epoch
      BY <2>2 DEF CompleteStale, Freed, t
    <3>2. CASE s = t
      <4>1. Held(s) /\ entries'[s] = CaughtUp(entries[s])
        BY <1>2, <1>5, <3>1, <3>2, EngineTypes DEF Held
      <4> DEFINE e == entries[s]
                 c == CaughtUp(e)
      <4>2. /\ Moved(e, c) /\ c.spent = e.spent
            /\ IsOnce(e.spec) => c = e
        BY <4>1, HeldEntry, CaughtUpMoves
      <4>3. busy[s] = e.epoch => busy'[s] = busy[s]
        BY <1>2, <3>1, <3>2, <4>1
      <4>4. entries'[s] = c
        BY <4>1
      <4> HIDE DEF c
      <4>5. ~RetryVoided(binding[s[1]], c)
        BY <1>3, <4>1, <4>2, NoRetryType DEF Moved, RetryVoided, Pending
      <4>6. c.spent => IsOnce(c.spec) /\ (Pending(c) \/ busy'[s] = c.epoch)
        BY <1>3, <4>1, <4>2, <4>3
      <4>7. Owed(s)'
        BY <4>4, <4>6 DEF Owed, Pending
      <4> QED
        BY <4>1, <4>2, <4>4, <4>5, <4>7 DEF Moved
    <3>3. CASE s # t
      <4>1. entries'[s] = entries[s] /\ busy'[s] = busy[s]
        BY <1>2, <3>1, <3>3, EngineTypes
      <4> QED
        BY <1>3, <1>5, <4>1 DEF Held, SameRegistration, Owed, Pending
    <3> QED
      BY <3>2, <3>3
  <2>3. CASE CompleteCurrent(d, outcome)
    <3> DEFINE b == binding[t[1]]
               f == Settled(b, entries[t], d.firing, outcome)
    <3>1. /\ entries' = [entries EXCEPT ![t] = f] /\ Held(t) /\ t[1] \in bound
          /\ busy' = [busy EXCEPT ![t] = IF busy[t] = d.epoch THEN 0 ELSE busy[t]]
      BY <2>3 DEF CompleteCurrent, Freed, t
    <3>2. CASE s = t
      <4>1. entries'[s] = f /\ f # NoEntry
        BY <1>2, <1>5, <3>1, <3>2, EngineTypes DEF Held
      <4>2. /\ b \in Bindings \cup {NoBinding}
            /\ entries[t] \in Entry /\ Shaped(entries[t])
            /\ ~RetryVoided(b, entries[t])
            /\ entries[t].spent => IsOnce(entries[t].spec)
        BY <1>2, <1>3, <3>1, HeldEntry
      <4> HIDE DEF b
      <4>3. /\ SameRegistration(entries[t], f) /\ ~RetryVoided(b, f)
            /\ f.spent => IsOnce(f.spec) /\ Pending(f)
        BY <1>2, <4>1, <4>2, SettledGrants
      <4> HIDE DEF f
      <4>4. Owed(s)'
        BY <4>1, <4>3 DEF Owed, Pending
      <4> QED
        BY <3>1, <3>2, <4>1, <4>3, <4>4 DEF b
    <3>3. CASE s # t
      <4> HIDE DEF f
      <4>1. entries'[s] = entries[s] /\ busy'[s] = busy[s]
        BY <1>2, <3>1, <3>3, EngineTypes
      <4> QED
        BY <1>3, <1>5, <4>1 DEF Held, SameRegistration, Owed, Pending
    <3> QED
      BY <3>2, <3>3
  <2> QED
    BY <2>1, <2>2, <2>3 DEF Complete
<1>6. ASSUME NEW s \in Slot, Held(s), entries[s].declared PROVE Held(s)'
  <2>1. ~IsOnce(entries[s].spec)
    BY <1>6, DeclaredRepeats
  <2>2. entries[s] \in Entry /\ Shaped(entries[s])
    BY <1>6, HeldEntry
  <2>3. CASE CompleteUnbound(d)
    BY <1>6, <2>3 DEF CompleteUnbound, Held
  <2>4. CASE CompleteStale(d)
    <3>1. entries' = [entries EXCEPT ![t] = IF Held(t) THEN CaughtUp(entries[t])
                                                      ELSE entries[t]]
      BY <2>4 DEF CompleteStale, t
    <3>2. CaughtUp(entries[s]) \in Entry
      BY <2>2, CaughtUpMoves DEF Moved
    <3>3. entries'[s] \in {entries[s], CaughtUp(entries[s])}
      BY <1>2, <3>1, EngineTypes
    <3> QED
      BY <2>2, <3>2, <3>3, EntryNotNoEntry DEF Held
  <2>5. CASE CompleteCurrent(d, outcome)
    <3> DEFINE f == Settled(binding[t[1]], entries[t], d.firing, outcome)
    <3>1. entries' = [entries EXCEPT ![t] = f]
      BY <2>5 DEF CompleteCurrent, t
    <3>2. t = s => f # NoEntry
      BY <2>1, <2>2, SettledStays
    <3> HIDE DEF f
    <3>3. entries'[s] = IF s = t THEN f ELSE entries[s]
      BY <1>2, <3>1, EngineTypes
    <3> QED
      BY <1>6, <3>2, <3>3 DEF Held
  <2> QED
    BY <2>3, <2>4, <2>5 DEF Complete
<1> QED
  BY <1>1, <1>5, <1>6, GrantsEvolve

(* Unbinding takes a workload out with all it holds. *)
LEMMA UnbindGrants ==
  ASSUME TypeInv, GrantInv, NEW w \in Workloads, Unbind(w) PROVE GrantInv'
<1>1. /\ bound' = bound \ {w}
      /\ \A s \in Slot : entries'[s] = IF s[1] = w THEN NoEntry ELSE entries[s]
      /\ \A s \in Slot : busy'[s] = IF s[1] = w THEN 0 ELSE busy[s]
      /\ \A v \in bound' : binding'[v] = binding[v]
  BY DEF Unbind, TypeInv, TypeOK
<1>2. \A s \in Slot : Held(s)' =>
        Held(s) /\ s[1] # w /\ entries'[s] = entries[s] /\ busy'[s] = busy[s]
  BY <1>1 DEF Held
<1>3. BoundByBindings'
  BY <1>1 DEF GrantInv, BoundByBindings
<1>4. EntriesStand'
  <2> SUFFICES ASSUME NEW s \in Slot, Held(s)'
      PROVE  s[1] \in bound' /\ Stands(binding'[s[1]], s[2], entries'[s])
    BY DEF EntriesStand, BindingOf, Stands, RetryVoided, Pending
  <2>1. s[1] \in bound /\ Stands(binding[s[1]], s[2], entries[s])
    BY <1>2 DEF GrantInv, EntriesStand, BindingOf
  <2> QED
    BY <1>1, <1>2, <2>1
<1>5. EntriesOwed'
  <2> SUFFICES ASSUME NEW s \in Slot, Held(s)' PROVE Owed(s)'
    BY DEF EntriesOwed
  <2> QED
    BY <1>2 DEF GrantInv, EntriesOwed, Owed, Pending
<1>6. DeclaredAreHeld'
  BY <1>1 DEF GrantInv, DeclaredAreHeld, BindingOf, Held
<1>7. EpochsDiffer'
  BY <1>2 DEF GrantInv, EpochsDiffer
<1>8. RegisteredAreCounted'
  <2> SUFFICES ASSUME NEW v \in bound'
      PROVE  Cardinality(Registered(v)') <= binding'[v].maxRegistrations
    BY DEF RegisteredAreCounted
  <2>1. v \in bound /\ v # w /\ \A n \in Names : <<v, n>> \in Slot
    BY <1>1 DEF Slot, TypeInv, TypeOK
  <2>2. Registered(v)' = Registered(v)
    BY <1>1, <2>1 DEF Registered, Held
  <2> QED
    BY <1>1, <2>1, <2>2 DEF GrantInv, RegisteredAreCounted
<1> QED
  BY <1>3, <1>4, <1>5, <1>6, <1>7, <1>8 DEF GrantInv

LEMMA NewEntryStands ==
  ASSUME NEW spec, NEW declared, NEW epoch
  PROVE  LET e == NewEntry(spec, declared, epoch)
         IN  /\ ~e.spent /\ ~Pending(e) /\ e.epoch = epoch
             /\ e.spec = spec /\ e.declared = declared
  BY NoRetryType DEF NewEntry, Pending

(* A registration is made within the limits, on a name that is not declared. *)
LEMMA RegisterGrants ==
  ASSUME TypeInv, OverlapInv, GrantInv, NEW t \in Slot, NEW spec \in Specs,
         Register(t, spec)
  PROVE  GrantInv'
<1> DEFINE b == binding[t[1]]
           k == epochs + 1
           e == NewEntry(spec, FALSE, k)
<1>1. /\ bound' = bound /\ binding' = binding /\ busy' = busy
      /\ t[1] \in bound /\ b.canRegister /\ LimitsPermit(b, spec)
      /\ Held(t) => ~entries[t].declared
      /\ Held(t) \/ Cardinality(Registered(t[1])) < b.maxRegistrations
  BY DEF Register, Registrable
<1>2. \A s \in Slot : entries'[s] = IF s = t THEN e ELSE entries[s]
  BY EngineTypes DEF Register
<1>3. /\ ~e.spent /\ ~Pending(e) /\ e.epoch = k /\ e.spec = spec
      /\ ~e.declared
  <2> HIDE DEF k
  <2> QED
    BY NoRetryType DEF NewEntry, Pending
<1>4. /\ k # 0 /\ \A s \in Slot : Held(s) => entries[s].epoch # k
  <2>1. \A s \in Slot : Held(s) => entries[s].epoch \in Nat /\ entries[s].epoch <= epochs
    BY HeldEntry DEF OverlapInv, EpochsBelow, Entry
  <2> QED
    BY <2>1, EngineTypes
<1> HIDE DEF e, k
<1>5. e # NoEntry
  BY <1>3, <1>4 DEF NoEntry
<1>6. EntriesStand'
  <2> SUFFICES ASSUME NEW s \in Slot, Held(s)'
      PROVE  s[1] \in bound /\ Stands(binding[s[1]], s[2], entries'[s])
    BY <1>1 DEF EntriesStand, BindingOf, Stands, RetryVoided, Pending
  <2>1. CASE s = t
    BY <1>1, <1>2, <1>3, <2>1 DEF Stands, RetryVoided
  <2>2. CASE s # t
    BY <1>2, <2>2 DEF GrantInv, EntriesStand, BindingOf, Held
  <2> QED
    BY <2>1, <2>2
<1>7. EntriesOwed'
  <2> SUFFICES ASSUME NEW s \in Slot, Held(s)' PROVE Owed(s)'
    BY DEF EntriesOwed
  <2> QED
    BY <1>1, <1>2, <1>3 DEF GrantInv, EntriesOwed, Owed, Pending, Held
<1>8. DeclaredAreHeld'
  BY <1>1, <1>2 DEF GrantInv, DeclaredAreHeld, BindingOf, Held
<1>9. EpochsDiffer'
  BY <1>2, <1>3, <1>4 DEF GrantInv, EpochsDiffer, Held
<1>10. RegisteredAreCounted'
  <2> SUFFICES ASSUME NEW w \in bound
      PROVE  Cardinality(Registered(w)') <= binding[w].maxRegistrations
    BY <1>1 DEF RegisteredAreCounted
  <2>1. \A n \in Names : <<w, n>> \in Slot
    BY DEF Slot, TypeInv, TypeOK
  <2>2. Cardinality(Registered(w)) <= binding[w].maxRegistrations
    BY DEF GrantInv, RegisteredAreCounted
  <2>3. CASE w # t[1]
    <3>1. Registered(w)' = Registered(w)
      BY <1>2, <2>1, <2>3 DEF Registered, Held
    <3> QED
      BY <2>2, <3>1
  <2>4. CASE w = t[1]
    <3>1. t = <<w, t[2]>> /\ t[2] \in Names
      BY <2>4 DEF Slot
    <3>2. Registered(w)' = Registered(w) \cup {t[2]}
      BY <1>2, <1>3, <1>5, <2>1, <3>1 DEF Registered, Held
    <3>3. Held(t) => t[2] \in Registered(w)
      BY <1>1, <3>1 DEF Registered
    <3> DEFINE R == Registered(w)
    <3>4. /\ IsFiniteSet(R) /\ Cardinality(R) \in Nat
          /\ binding[w].maxRegistrations \in Nat
      BY RegisteredCounts, LimitTypes DEF GrantInv, BoundByBindings
    <3>5. Cardinality(R \cup {t[2]})
            = IF t[2] \in R THEN Cardinality(R) ELSE Cardinality(R) + 1
      <4> HIDE DEF R
      <4> QED
        BY <3>4, FS_AddElement
    <3> QED
      BY <1>1, <2>2, <2>4, <3>2, <3>3, <3>4, <3>5
  <2> QED
    BY <2>3, <2>4
<1>11. BoundByBindings'
  BY <1>1 DEF GrantInv, BoundByBindings
<1> QED
  BY <1>6, <1>7, <1>8, <1>9, <1>10, <1>11 DEF GrantInv

-----------------------------------------------------------------------------
(***************************************************************************)
(* Binding keeps what the new binding permits, the oldest registrations of *)
(* it first, and makes what it declares and does not hold.                 *)
(***************************************************************************)
(* The entry that a bind leaves under a name of its workload. *)
LEMMA KeptEntry ==
  ASSUME TypeInv, GrantInv, NEW w \in Workloads, NEW b \in Bindings,
         NEW n \in Kept(b, w)
  PROVE  LET e == entries[<<w, n>>]
             f == WithoutVoidedRetry(b, e)
         IN  /\ n \in Names /\ Held(<<w, n>>) /\ SameRegistration(e, f)
             /\ Stands(b, n, f)
             /\ f.spent => IsOnce(f.spec) /\ (Pending(f) \/ busy[<<w, n>>] = f.epoch)
<1> DEFINE s == <<w, n>>
           e == entries[s]
           f == WithoutVoidedRetry(b, e)
<1>1. /\ n \in Names /\ Held(s) /\ Retained(b, n, e)
      /\ ~(RetryVoided(b, e) /\ IsOnce(e.spec))
  BY DEF Kept, Permitted
<1>2. s \in Slot
  BY <1>1 DEF Slot
<1>3. e \in Entry
  BY <1>1, <1>2, HeldEntry
<1>4. e.spent => IsOnce(e.spec) /\ (Pending(e) \/ busy[s] = e.epoch)
  BY <1>1, <1>2 DEF GrantInv, EntriesOwed, Owed
<1> HIDE DEF s, e
<1>5. CASE RetryVoided(b, e)
  <2>1. f = [e EXCEPT !.retry = NoRetry, !.missed = @ + 1]
    BY <1>5 DEF WithoutVoidedRetry
  <2>2. SameRegistration(e, f) /\ f.retry = NoRetry /\ f.spent = e.spent
    BY <1>3, <2>1 DEF SameRegistration, Entry
  <2> HIDE DEF f
  <2>3. ~RetryVoided(b, f)
    BY <2>2, NoRetryType DEF RetryVoided, Pending
  <2>4. ~f.spent
    BY <1>1, <1>4, <1>5, <2>2
  <2>5. Stands(b, n, f)
    BY <1>1, <2>2, <2>3 DEF Stands, Retained, Declares, SameRegistration
  <2> QED
    BY <1>1, <2>2, <2>4, <2>5 DEF s, e, f
<1>6. CASE ~RetryVoided(b, e)
  <2>1. f = e
    BY <1>6 DEF WithoutVoidedRetry
  <2>2. Stands(b, n, e)
    BY <1>1, <1>6 DEF Stands, Retained, Declares
  <2> QED
    BY <1>1, <1>4, <2>1, <2>2 DEF SameRegistration, s, e
<1> QED
  BY <1>5, <1>6

(* Distinct names that are made get distinct epochs, all of them new. *)
LEMMA CreatedEpochs ==
  ASSUME NEW C \in SUBSET Names, NEW m \in C, NEW n \in C,
         Cardinality({x \in C : x <= m}) = Cardinality({x \in C : x <= n})
  PROVE  m = n
<1> DEFINE Upto(k) == {x \in C : x <= k}
<1>1. \A k : Upto(k) \in SUBSET C /\ IsFiniteSet(Upto(k)) /\ Cardinality(Upto(k)) \in Nat
  BY CountsNames
<1>2. C \subseteq Nat
  BY SlotsAssumption
<1>3. ASSUME NEW i \in C, NEW j \in C, i < j,
             Cardinality(Upto(i)) = Cardinality(Upto(j))
      PROVE  FALSE
  <2>1. i \in Nat /\ j \in Nat /\ i < j /\ \A x \in C : x \in Nat
    BY <1>2, <1>3
  <2>2. Upto(i) \subseteq Upto(j)
    <3>1. ASSUME NEW x \in C, x <= i PROVE x <= j
      BY <2>1, <3>1
    <3> QED
      BY <3>1
  <2>3. j \in Upto(j) /\ j \notin Upto(i)
    BY <2>1
  <2> DEFINE A == Upto(i)
             B == Upto(j)
  <2>4. /\ IsFiniteSet(B) /\ A \in SUBSET B /\ A # B
        /\ Cardinality(A) = Cardinality(B)
    BY <1>1, <1>3, <2>2, <2>3
  <2> HIDE DEF A, B
  <2> QED
    BY <2>4, FS_Subset
<1> QED
  BY <1>2, <1>3

(* What a bind leaves of the slots. *)
LEMMA BindSlots ==
  ASSUME TypeInv, NEW w \in Workloads, NEW b \in Bindings, Bind(w, b)
  PROVE  /\ \A s \in Slot : s[1] # w => entries'[s] = entries[s]
         /\ \A n \in Kept(b, w) :
              entries'[<<w, n>>] = WithoutVoidedRetry(b, entries[<<w, n>>])
         /\ \A n \in Created(b, w) :
              entries'[<<w, n>>] =
                NewEntry(b.declared[n], TRUE,
                         epochs + Cardinality({m \in Created(b, w) : m <= n}))
         /\ \A n \in Names : n \notin Kept(b, w) /\ n \notin Created(b, w) =>
              entries'[<<w, n>>] = NoEntry
<1>1. /\ Kept(b, w) \subseteq Names /\ Created(b, w) \subseteq Names
      /\ Kept(b, w) \cap Created(b, w) = {}
  BY DeclaredTypes DEF Kept, Permitted, Created
<1>2. \A n \in Names : <<w, n>> \in Slot /\ <<w, n>>[1] = w /\ <<w, n>>[2] = n
  BY DEF Slot
<1>3. \A s \in Slot : entries'[s] =
        IF s[1] # w THEN entries[s] ELSE
          CASE s[2] \in Kept(b, w)    -> WithoutVoidedRetry(b, entries[s])
            [] s[2] \in Created(b, w) ->
                 NewEntry(b.declared[s[2]], TRUE,
                          epochs + Cardinality({m \in Created(b, w) : m <= s[2]}))
            [] OTHER -> NoEntry
  BY DEF Bind
<1>4. \A s \in Slot : s[1] # w => entries'[s] = entries[s]
  BY <1>3
<1>5. ASSUME NEW n \in Kept(b, w)
      PROVE  entries'[<<w, n>>] = WithoutVoidedRetry(b, entries[<<w, n>>])
  <2>1. <<w, n>> \in Slot /\ <<w, n>>[1] = w /\ <<w, n>>[2] = n /\ n \notin Created(b, w)
    BY <1>1, <1>2, <1>5
  <2> QED
    BY <1>3, <1>5, <2>1
<1>6. ASSUME NEW n \in Created(b, w)
      PROVE  entries'[<<w, n>>] =
                NewEntry(b.declared[n], TRUE,
                         epochs + Cardinality({m \in Created(b, w) : m <= n}))
  <2>1. <<w, n>> \in Slot /\ <<w, n>>[1] = w /\ <<w, n>>[2] = n /\ n \notin Kept(b, w)
    BY <1>1, <1>2, <1>6
  <2> QED
    BY <1>3, <1>6, <2>1
<1>7. ASSUME NEW n \in Names, n \notin Kept(b, w), n \notin Created(b, w)
      PROVE  entries'[<<w, n>>] = NoEntry
  <2>1. <<w, n>> \in Slot /\ <<w, n>>[1] = w /\ <<w, n>>[2] = n
    BY <1>2
  <2> QED
    BY <1>3, <1>7, <2>1
<1> QED
  BY <1>4, <1>5, <1>6, <1>7

(* What a bind makes: declared, as the binding has it, under a new epoch.   *)
LEMMA MadeEntry ==
  ASSUME TypeInv, NEW w \in Workloads, NEW b \in Bindings, Bind(w, b),
         NEW n \in Created(b, w)
  PROVE  LET f == entries'[<<w, n>>]
         IN  /\ f # NoEntry /\ Stands(b, n, f) /\ f.declared /\ ~f.spent
             /\ f.epoch = epochs + Cardinality({m \in Created(b, w) : m <= n})
             /\ f.epoch > epochs
<1> DEFINE s == <<w, n>>
           f == entries'[s]
           before == {m \in Created(b, w) : m <= n}
           k == epochs + Cardinality(before)
<1>1. f = NewEntry(b.declared[n], TRUE, k)
  BY BindSlots
<1>2. n \in DOMAIN b.declared /\ n \in Names
  BY DeclaredTypes DEF Created
<1>3. /\ Created(b, w) \in SUBSET Names
      /\ epochs \in Nat /\ n <= n
  BY <1>2, EngineTypes, DeclaredTypes, SlotsAssumption DEF Created
<1>4. before \in SUBSET Names /\ before # {}
  BY <1>3
<1> HIDE DEF before
<1>5. Cardinality(before) \in Nat /\ Cardinality(before) > 0
  BY <1>4, CountsNames
<1>6. k > epochs /\ k # 0
  BY <1>3, <1>5
<1> HIDE DEF k
<1>7. /\ ~f.spent /\ ~Pending(f) /\ f.epoch = k /\ f.declared
      /\ f.spec = b.declared[n]
  BY <1>1, NoRetryType DEF NewEntry, Pending
<1> HIDE DEF f
<1>8. Stands(b, n, f)
  BY <1>2, <1>7 DEF Stands, RetryVoided
<1>9. f # NoEntry
  BY <1>6, <1>7 DEF NoEntry
<1> QED
  BY <1>6, <1>7, <1>8, <1>9 DEF f, k, before

(* Of the registrations that a bind keeps there are no more than it allows. *)
LEMMA KeptRegistrations ==
  ASSUME TypeInv, OverlapInv, GrantInv, NEW w \in Workloads, NEW b \in Bindings,
         NEW R, R \subseteq { n \in Kept(b, w) : ~entries[<<w, n>>].declared }
  PROVE  Cardinality(R) <= b.maxRegistrations
<1> DEFINE f == [n \in Names |-> entries[<<w, n>>].epoch]
           S == { n \in Permitted(b, w) : ~entries[<<w, n>>].declared }
           k == b.maxRegistrations
           T == { x \in S : ~(Cardinality({ y \in S : f[y] < f[x] }) >= k) }
<1>1. S \in SUBSET Names /\ IsFiniteSet(S)
  BY CountsNames DEF Permitted
<1>2. ASSUME NEW x \in S
      PROVE  /\ x \in Names /\ <<w, x>> \in Slot /\ Held(<<w, x>>)
             /\ f[x] = entries[<<w, x>>].epoch
             /\ f[x] \in Nat /\ f[x] <= epochs
  <2>1. x \in Names /\ <<w, x>> \in Slot /\ Held(<<w, x>>)
    BY <1>2 DEF Permitted, Slot
  <2>2. entries[<<w, x>>].epoch \in Nat /\ entries[<<w, x>>].epoch <= epochs
    BY <2>1, HeldEntry DEF Entry, OverlapInv, EpochsBelow
  <2> QED
    BY <2>1, <2>2
<1>3. ASSUME NEW x \in S, NEW y \in S, f[x] = f[y] PROVE x = y
  <2>1. entries[<<w, x>>].epoch = entries[<<w, y>>].epoch
    BY <1>2, <1>3
  <2>2. <<w, x>> = <<w, y>>
    BY <1>2, <1>3, <2>1 DEF GrantInv, EpochsDiffer
  <2> QED
    BY <2>2
<1>4. epochs \in Nat /\ k \in Nat
  BY EngineTypes, LimitTypes
<1>5. Cardinality(T) <= k
  <2> HIDE DEF f, S, k
  <2> QED
    BY <1>1, <1>2, <1>3, <1>4, FewBefore
<1>6. R \subseteq T
  <2> SUFFICES ASSUME NEW n \in R PROVE n \in T
    OBVIOUS
  <2>1. n \in S /\ n \notin OverLimit(b, w)
    BY DEF Kept
  <2>2. { y \in S : f[y] < f[n] } =
          { m \in Permitted(b, w) :
              /\ ~entries[<<w, m>>].declared
              /\ entries[<<w, m>>].epoch < entries[<<w, n>>].epoch }
    <3>1. f[n] = entries[<<w, n>>].epoch
      BY <1>2, <2>1
    <3>2. \A y \in S : f[y] = entries[<<w, y>>].epoch
      BY <1>2
    <3> HIDE DEF f
    <3> QED
      BY <3>1, <3>2
  <2>3. ~(Cardinality({ y \in S : f[y] < f[n] }) >= k)
    BY <2>1, <2>2 DEF OverLimit
  <2> QED
    BY <2>1, <2>3
<1>7. T \in SUBSET Names
  BY <1>1
<1> HIDE DEF T, k
<1>8. Cardinality(R) <= Cardinality(T) /\ Cardinality(T) \in Nat
        /\ Cardinality(R) \in Nat
  BY <1>6, <1>7, CountsNames
<1>9. Cardinality(R) <= k
  BY <1>4, <1>5, <1>8
<1> QED
  BY <1>9 DEF k

LEMMA BindGrants ==
  ASSUME TypeInv, OverlapInv, GrantInv, NEW w \in Workloads, NEW b \in Bindings,
         Bind(w, b)
  PROVE  GrantInv'
<1> DEFINE old(n) == entries[<<w, n>>]
           new(n) == entries'[<<w, n>>]
<1>1. /\ bound' = bound \cup {w} /\ busy' = busy
      /\ binding'[w] = b /\ \A v \in Workloads : v # w => binding'[v] = binding[v]
      /\ bound' \subseteq Workloads
  BY DEF Bind, TypeInv, TypeOK
<1>2. \A n \in Names : <<w, n>> \in Slot
  BY DEF Slot
<1>3. \A s \in Slot : /\ s[1] \in Workloads /\ s[2] \in Names
                      /\ s[1] = w => s = <<w, s[2]>>
  BY DEF Slot
<1>4. \A s \in Slot : s[1] # w => entries'[s] = entries[s]
  BY BindSlots
<1>5. ASSUME NEW n \in Names, new(n) # NoEntry
      PROVE  \/ /\ n \in Kept(b, w) /\ Held(<<w, n>>)
                /\ SameRegistration(old(n), new(n))
                /\ Stands(b, n, new(n))
                /\ new(n).spent => /\ IsOnce(new(n).spec)
                                   /\ Pending(new(n)) \/ busy[<<w, n>>] = new(n).epoch
             \/ /\ n \in Created(b, w) /\ Stands(b, n, new(n)) /\ new(n).declared
                /\ ~new(n).spent /\ new(n).epoch > epochs
                /\ new(n).epoch = epochs + Cardinality({m \in Created(b, w) : m <= n})
  <2>1. n \in Kept(b, w) \/ n \in Created(b, w)
    BY <1>5, BindSlots
  <2>2. CASE n \in Kept(b, w)
    <3>1. new(n) = WithoutVoidedRetry(b, old(n))
      BY <2>2, BindSlots
    <3> QED
      BY <2>2, <3>1, KeptEntry
  <2>3. CASE n \in Created(b, w)
    BY <2>3, MadeEntry
  <2> QED
    BY <2>1, <2>2, <2>3
<1>6. \A s \in Slot : Held(s) => entries[s].epoch \in Nat /\ entries[s].epoch <= epochs
  BY HeldEntry DEF Entry, OverlapInv, EpochsBelow
<1>7. BoundByBindings'
  BY <1>1 DEF GrantInv, BoundByBindings
<1>8. EntriesStand'
  <2> SUFFICES ASSUME NEW s \in Slot, Held(s)'
      PROVE  s[1] \in bound' /\ Stands(binding'[s[1]], s[2], entries'[s])
    BY DEF EntriesStand, BindingOf, Stands, RetryVoided, Pending
  <2>1. CASE s[1] = w
    BY <1>1, <1>3, <1>5, <2>1 DEF Held
  <2>2. CASE s[1] # w
    <3>1. entries'[s] = entries[s] /\ Held(s) /\ binding'[s[1]] = binding[s[1]]
      BY <1>1, <1>3, <1>4, <2>2 DEF Held
    <3> QED
      BY <1>1, <3>1 DEF GrantInv, EntriesStand, BindingOf
  <2> QED
    BY <2>1, <2>2
<1>9. EntriesOwed'
  <2> SUFFICES ASSUME NEW s \in Slot, Held(s)', entries'[s].spent
      PROVE  /\ IsOnce(entries'[s].spec)
             /\ Pending(entries'[s]) \/ busy[s] = entries'[s].epoch
    BY <1>1 DEF EntriesOwed, Owed, Pending
  <2>1. CASE s[1] = w
    BY <1>3, <1>5, <2>1 DEF Held
  <2>2. CASE s[1] # w
    BY <1>4, <2>2 DEF GrantInv, EntriesOwed, Owed, Held
  <2> QED
    BY <2>1, <2>2
<1>10. DeclaredAreHeld'
  <2> SUFFICES ASSUME NEW s \in Slot, s[1] \in bound',
                      s[2] \in DOMAIN binding'[s[1]].declared
      PROVE  Held(s)' /\ entries'[s].declared
    BY DEF DeclaredAreHeld, BindingOf
  <2>1. CASE s[1] = w
    <3> DEFINE n == s[2]
    <3>1. n \in Names /\ s = <<w, n>> /\ n \in DOMAIN b.declared
      BY <1>1, <1>3, <2>1
    <3> HIDE DEF n
    <3>2. CASE n \in Kept(b, w)
      <4>1. old(n).declared /\ Held(<<w, n>>)
        BY <3>1, <3>2 DEF Kept, Permitted, Retained, Declares
      <4>2. new(n).declared = old(n).declared /\ new(n).epoch = old(n).epoch
        BY <3>2, BindSlots, KeptEntry DEF SameRegistration
      <4>3. old(n).epoch # 0
        BY <1>2, <3>1, <4>1, HeldEntry DEF Entry
      <4> QED
        BY <3>1, <4>1, <4>2, <4>3 DEF Held, NoEntry
    <3>3. CASE n \notin Kept(b, w)
      <4>1. n \in Created(b, w)
        BY <3>1, <3>3 DEF Created
      <4> QED
        BY <3>1, <4>1, MadeEntry DEF Held
    <3> QED
      BY <3>2, <3>3
  <2>2. CASE s[1] # w
    <3>1. entries'[s] = entries[s] /\ s[1] \in bound /\ binding'[s[1]] = binding[s[1]]
      BY <1>1, <1>3, <1>4, <2>2
    <3> QED
      BY <3>1 DEF GrantInv, DeclaredAreHeld, BindingOf, Held
  <2> QED
    BY <2>1, <2>2
<1>11. \A s \in Slot : Held(s)' =>
         \/ Held(s) /\ entries'[s].epoch = entries[s].epoch
         \/ /\ s[1] = w /\ s[2] \in Created(b, w) /\ entries'[s].epoch > epochs
            /\ entries'[s].epoch = epochs + Cardinality({m \in Created(b, w) : m <= s[2]})
  <2> SUFFICES ASSUME NEW s \in Slot, Held(s)'
      PROVE  \/ Held(s) /\ entries'[s].epoch = entries[s].epoch
             \/ /\ s[1] = w /\ s[2] \in Created(b, w) /\ entries'[s].epoch > epochs
                /\ entries'[s].epoch
                     = epochs + Cardinality({m \in Created(b, w) : m <= s[2]})
    OBVIOUS
  <2>1. CASE s[1] = w
    BY <1>3, <1>5, <2>1 DEF Held, SameRegistration
  <2>2. CASE s[1] # w
    BY <1>4, <2>2 DEF Held
  <2> QED
    BY <2>1, <2>2
<1>12. EpochsDiffer'
  <2> SUFFICES ASSUME NEW s \in Slot, NEW t \in Slot, Held(s)', Held(t)',
                      entries'[s].epoch = entries'[t].epoch
      PROVE  s = t
    BY DEF EpochsDiffer
  <2> DEFINE Was(r) == Held(r) /\ entries'[r].epoch = entries[r].epoch
             C == Created(b, w)
             N(r) == Cardinality({m \in C : m <= r[2]})
             Is(r) == /\ r[1] = w /\ r[2] \in C /\ entries'[r].epoch > epochs
                      /\ entries'[r].epoch = epochs + N(r)
  <2>1. (Was(s) \/ Is(s)) /\ (Was(t) \/ Is(t))
    BY <1>11
  <2>2. CASE Was(s) /\ Was(t)
    BY <2>2 DEF GrantInv, EpochsDiffer
  <2>3. CASE Is(s) /\ Is(t)
    <3>1. C \in SUBSET Names /\ epochs \in Nat
      BY DeclaredTypes, EngineTypes DEF Created
    <3>2. N(s) \in Nat /\ N(t) \in Nat
      <4>1. \A r : {m \in C : m <= r[2]} \in SUBSET Names
        BY <3>1
      <4> QED
        BY <4>1, CountsNames
    <3>3. epochs + N(s) = epochs + N(t) /\ s[2] \in C /\ t[2] \in C
      BY <2>3
    <3>4. N(s) = N(t)
      <4> DEFINE i == N(s)
                 j == N(t)
      <4>1. i \in Nat /\ j \in Nat /\ epochs + i = epochs + j
        BY <3>2, <3>3
      <4> HIDE DEF i, j
      <4>2. i = j
        BY <3>1, <4>1
      <4> QED
        BY <4>2 DEF i, j
    <3> HIDE DEF C
    <3>5. s[2] = t[2]
      BY <3>1, <3>3, <3>4, CreatedEpochs
    <3> QED
      BY <1>3, <2>3, <3>5
  <2>4. CASE (Was(s) /\ Is(t)) \/ (Is(s) /\ Was(t))
    <3> DEFINE i == entries'[s].epoch
    <3>1. i \in Nat /\ i <= epochs /\ i > epochs
      BY <1>6, <2>4
    <3> QED
      BY <3>1, EngineTypes
  <2> QED
    BY <2>1, <2>2, <2>3, <2>4
<1>13. RegisteredAreCounted'
  <2> SUFFICES ASSUME NEW v \in bound'
      PROVE  Cardinality(Registered(v)') <= binding'[v].maxRegistrations
    BY DEF RegisteredAreCounted
  <2>1. CASE v = w
    <3>1. Registered(w)' \subseteq { n \in Kept(b, w) : ~entries[<<w, n>>].declared }
      <4> SUFFICES ASSUME NEW n \in Names, new(n) # NoEntry, ~new(n).declared
          PROVE  n \in Kept(b, w) /\ ~old(n).declared
        BY DEF Registered, Held
      <4> QED
        BY <1>5 DEF SameRegistration
    <3> QED
      BY <1>1, <2>1, <3>1, KeptRegistrations
  <2>2. CASE v # w
    <3>1. /\ v \in bound /\ v \in Workloads /\ binding'[v] = binding[v]
          /\ \A n \in Names : <<v, n>> \in Slot /\ <<v, n>>[1] # w
      BY <1>1, <2>2 DEF Slot
    <3>2. Registered(v)' = Registered(v)
      BY <1>4, <3>1 DEF Registered, Held
    <3> QED
      BY <3>1, <3>2 DEF GrantInv, RegisteredAreCounted
  <2> QED
    BY <2>1, <2>2
<1> QED
  BY <1>7, <1>8, <1>9, <1>10, <1>12, <1>13 DEF GrantInv

-----------------------------------------------------------------------------
LEMMA GrantStep == TypeInv /\ OverlapInv /\ GrantInv /\ [Next]_vars => GrantInv'
<1> SUFFICES ASSUME TypeInv, OverlapInv, GrantInv, [Next]_vars PROVE GrantInv'
  OBVIOUS
<1>1. CASE Tick
  BY <1>1, EngineRests DEF Tick, engine
<1>2. ASSUME NEW delta \in ClockSteps, StepClock(delta) PROVE GrantInv'
  BY <1>2, EngineRests DEF StepClock, engine
<1>3. ASSUME NEW w \in Workloads, NEW b \in Bindings, Bind(w, b) PROVE GrantInv'
  BY <1>3, BindGrants
<1>4. ASSUME NEW w \in Workloads, Unbind(w) PROVE GrantInv'
  BY <1>4, UnbindGrants
<1>5. ASSUME NEW s \in Slot, NEW spec \in Specs, Register(s, spec) PROVE GrantInv'
  BY <1>5, RegisterGrants
<1>6. ASSUME NEW s \in Slot, Unregister(s) PROVE GrantInv'
  BY <1>6, UnregisterGrants
<1>7. CASE Poll
  BY <1>7, PollGrants
<1>8. ASSUME NEW d \in inflight, NEW outcome \in Outcomes, Complete(d, outcome)
      PROVE  GrantInv'
  BY <1>8, CompleteGrants
<1>9. CASE UNCHANGED vars
  BY <1>9, EngineRests DEF vars, engine
<1> QED
  BY <1>1, <1>2, <1>3, <1>4, <1>5, <1>6, <1>7, <1>8, <1>9 DEF Next

LEMMA GrantInvariant == Spec => [](TypeInv /\ OverlapInv /\ GrantInv)
  BY InitTypes, TypeStep, InitOverlap, OverlapStep, InitGrants, GrantStep, PTL DEF Spec

LEMMA GrantsHold == ASSUME TypeInv, GrantInv PROVE HeldIsPermitted
<1>1. SpentIsOwed
  BY DEF GrantInv, EntriesOwed, Owed, SpentIsOwed
<1>2. GrantRespected
  <2> SUFFICES ASSUME NEW w \in bound
      PROVE  LET b == binding[w]
                 own == { n \in Names : Held(<<w, n>>) /\ entries[<<w, n>>].declared }
             IN  /\ own = DOMAIN b.declared
                 /\ \A n \in own : entries[<<w, n>>].spec = b.declared[n]
                 /\ Cardinality(Registered(w)) <= b.maxRegistrations
                 /\ ~b.canRegister => Registered(w) = {}
                 /\ \A n \in Registered(w) : LimitsPermit(b, entries[<<w, n>>].spec)
                 /\ \A n \in Names : Held(<<w, n>>) => ~RetryVoided(b, entries[<<w, n>>])
    BY DEF GrantRespected
  <2> DEFINE b == binding[w]
             own == { n \in Names : Held(<<w, n>>) /\ entries[<<w, n>>].declared }
  <2>1. b \in Bindings /\ DOMAIN b.declared \subseteq Names
    BY DeclaredTypes DEF GrantInv, BoundByBindings
  <2>2. \A n \in Names : /\ <<w, n>> \in Slot
                         /\ <<w, n>>[1] = w /\ <<w, n>>[2] = n
    BY DEF Slot, TypeInv, TypeOK
  <2>3. \A n \in Names : Held(<<w, n>>) => Stands(b, n, entries[<<w, n>>])
    BY <2>2 DEF GrantInv, EntriesStand, BindingOf
  <2>4. \A n \in Names : n \in DOMAIN b.declared =>
          Held(<<w, n>>) /\ entries[<<w, n>>].declared
    BY <2>2 DEF GrantInv, DeclaredAreHeld, BindingOf
  <2>5. Cardinality(Registered(w)) <= b.maxRegistrations
    BY DEF GrantInv, RegisteredAreCounted
  <2> HIDE DEF b
  <2>6. own = DOMAIN b.declared
    BY <2>1, <2>3, <2>4 DEF Stands
  <2>7. \A n \in own : entries[<<w, n>>].spec = b.declared[n]
    BY <2>3 DEF Stands
  <2>8. /\ ~b.canRegister => Registered(w) = {}
        /\ \A n \in Registered(w) : LimitsPermit(b, entries[<<w, n>>].spec)
    BY <2>3 DEF Stands, Registered
  <2>9. \A n \in Names : Held(<<w, n>>) => ~RetryVoided(b, entries[<<w, n>>])
    BY <2>3 DEF Stands
  <2> QED
    BY <2>5, <2>6, <2>7, <2>8, <2>9 DEF b
<1> QED
  BY <1>1, <1>2 DEF HeldIsPermitted

(* What is held is what the binding in force permits: all that it declares, *)
(* as declared, no more registrations than it allows and none without the  *)
(* grant or below its shortest interval, no retry past its attempts, and   *)
(* no one-shot whose last firing was settled, whatever was bound, polled   *)
(* and completed in between.                                               *)
THEOREM NothingHeldWithoutGrant == Spec => []HeldIsPermitted
<1>1. TypeInv /\ OverlapInv /\ GrantInv => HeldIsPermitted
  BY GrantsHold
<1> QED
  BY <1>1, GrantInvariant, PTL

-----------------------------------------------------------------------------
(***************************************************************************)
(* Attempts.                                                               *)
(***************************************************************************)
LEMMA PollAttempts ==
  ASSUME TypeInv, OverlapInv, GrantInv, Poll, NEW d \in NewDeliveries
  PROVE  d.firing.attempt <= binding[d.slot[1]].maxAttempts
<1> DEFINE fresh == { s \in Slot : Fires(s) }
           again == { s \in Slot : Redelivers(s) }
<1>1. \/ \E s \in fresh : d = DispatchOf(s, Fresh(fresh, s))
      \/ \E s \in again : d = DispatchOf(s, Again(s))
  BY DEF Poll, NewDeliveries
<1>2. ASSUME NEW s \in Slot, Held(s)
      PROVE  /\ binding[s[1]].maxAttempts \in Nat /\ binding[s[1]].maxAttempts >= 1
             /\ ~RetryVoided(binding[s[1]], entries[s])
  <2>1. s[1] \in bound /\ ~RetryVoided(binding[s[1]], entries[s])
    BY <1>2 DEF GrantInv, EntriesStand, Stands, BindingOf
  <2>2. binding[s[1]] \in Bindings
    BY <2>1 DEF GrantInv, BoundByBindings
  <2> QED
    BY <2>1, <2>2, LimitTypes
<1>3. CASE \E s \in fresh : d = DispatchOf(s, Fresh(fresh, s))
  <2>1. PICK s \in Slot : Fires(s) /\ d = DispatchOf(s, Fresh(fresh, s))
    BY <1>3
  <2> HIDE DEF fresh
  <2>2. d.slot = s /\ d.firing.attempt = 1
    BY <2>1 DEF DispatchOf, Fresh
  <2>3. Held(s)
    BY <2>1 DEF Fires, DueAtPoll
  <2> QED
    BY <1>2, <2>2, <2>3
<1>4. CASE \E s \in again : d = DispatchOf(s, Again(s))
  <2>1. PICK s \in Slot : Redelivers(s) /\ d = DispatchOf(s, Again(s))
    BY <1>4
  <2> DEFINE r == entries[s].retry.firing
  <2>2. Held(s) /\ r.attempt > 0
    BY <2>1 DEF Redelivers, Pending
  <2>3. r \in Firing /\ r.attempt \in Nat
    BY <2>2, HeldEntry DEF Entry, Retry, Firing
  <2>4. ~(r.attempt >= binding[s[1]].maxAttempts)
    BY <1>2, <2>2 DEF RetryVoided, Pending
  <2>5. d.slot = s /\ d.firing = [r EXCEPT !.attempt = @ + 1]
    BY <2>1 DEF DispatchOf, Again
  <2> HIDE DEF r
  <2>6. d.firing.attempt = r.attempt + 1
    BY <2>3, <2>5 DEF Firing
  <2> QED
    BY <1>2, <2>2, <2>3, <2>4, <2>5, <2>6
<1> QED
  BY <1>1, <1>3, <1>4

(* Only a poll delivers. *)
LEMMA OnlyPollDelivers == ASSUME TypeInv, [Next]_vars, ~Poll PROVE NewDeliveries = {}
<1>1. \A d \in inflight' : d.live => d \in inflight
  <2>1. CASE inflight' = inflight
    BY <2>1
  <2>2. ASSUME NEW w \in Workloads, Unbind(w)
        PROVE  \A d \in inflight' : d.live => d \in inflight
    <3>1. inflight' = { IF d.slot[1] = w THEN [d EXCEPT !.live = FALSE] ELSE d :
                          d \in inflight }
      BY <2>2 DEF Unbind
    <3>2. \A d \in inflight : ~[d EXCEPT !.live = FALSE].live
      BY DEF TypeInv, TypeOK, Dispatch
    <3> QED
      BY <3>1, <3>2
  <2>3. ASSUME NEW d \in inflight, NEW outcome \in Outcomes, Complete(d, outcome)
        PROVE  inflight' \subseteq inflight
    BY <2>3 DEF Complete
  <2> QED
    BY <2>1, <2>2, <2>3
       DEF Next, Tick, StepClock, Bind, Register, Unregister, vars
<1> QED
  BY <1>1 DEF NewDeliveries

(* No handler is called past the attempts that the binding in force allows, *)
(* though the retry was queued, or its delivery began, under another one.  *)
THEOREM AttemptsKeepTheLimit == Spec => AttemptsBounded
<1> DEFINE Bounded == \A d \in NewDeliveries :
             d.firing.attempt <= binding[d.slot[1]].maxAttempts
<1>1. TypeInv /\ OverlapInv /\ GrantInv /\ [Next]_vars => [Bounded]_vars
  BY PollAttempts, OnlyPollDelivers
<1>2. Spec => [][Next]_vars
  BY PTL DEF Spec
<1> HIDE DEF Bounded
<1>3. Spec => [][Bounded]_vars
  BY <1>1, <1>2, GrantInvariant, PTL
<1> QED
  BY <1>3 DEF AttemptsBounded, Bounded

-----------------------------------------------------------------------------
(***************************************************************************)
(* The contract of cosmonic:cron.                                          *)
(***************************************************************************)
LiveAt(s) == { d \in inflight : d.live /\ d.slot = s }

NoCall == [id |-> 0, attempt |-> 0]

CallIn(live) ==
  IF live = {} THEN NoCall
  ELSE LET f == (CHOOSE d \in live : TRUE).firing
       IN  [id |-> f.id, attempt |-> f.attempt]

(* The firings of which a slot bears the identifier: the one its handler is *)
(* called with, and the one queued for retry.                              *)
Bears(s, i) ==
  \/ \E d \in LiveAt(s) : d.firing.id = i
  \/ OwedTo(s).attempt > 0 /\ OwedTo(s).id = i

(* Nothing is queued for retry while a call runs, and no two slots bear the *)
(* same identifier.                                                        *)
CallInv ==
  /\ \A s \in Slot : LiveAt(s) # {} => OwedTo(s) = NoCall
  /\ \A s \in Slot, i \in Nat : Bears(s, i) =>
       i > 0 /\ i <= firings /\ \A t \in Slot : Bears(t, i) => s = t

(* What one slot does in a step: no call of it begins or ends; its call     *)
(* ends; it is called with a new firing; or again with the one queued.     *)
Rests(s) == LiveAt(s)' = LiveAt(s) /\ OwedTo(s)' \in {OwedTo(s), NoCall}

Ends(s) ==
  /\ LiveAt(s) # {} /\ LiveAt(s)' = {}
  /\ OwedTo(s)' \in {CallOf(s), NoCall}

Starts(s) ==
  /\ LiveAt(s) = {} /\ OwedTo(s)' = NoCall
  /\ \E d \in Dispatch :
       /\ LiveAt(s)' = {d} /\ d.firing.attempt = 1
       /\ d.firing.id > firings /\ d.firing.id <= firings'

Resumes(s) ==
  /\ LiveAt(s) = {} /\ OwedTo(s).attempt > 0 /\ OwedTo(s)' = NoCall
  /\ \E d \in Dispatch :
       /\ LiveAt(s)' = {d} /\ d.firing.id = OwedTo(s).id
       /\ d.firing.attempt = OwedTo(s).attempt + 1

Serves ==
  /\ firings' \in Nat /\ firings <= firings'
  /\ \A s \in Slot : Rests(s) \/ Ends(s) \/ Starts(s) \/ Resumes(s)
  /\ \A s, t \in Slot : Starts(s) /\ Starts(t) =>
       \A c \in LiveAt(s)', d \in LiveAt(t)' : c.firing.id = d.firing.id => s = t

-----------------------------------------------------------------------------
LEMMA CallOfLive == \A s : CallOf(s) = CallIn(LiveAt(s))
  BY DEF CallOf, CallIn, LiveAt, NoCall

LEMMA CallOfOne ==
  ASSUME NEW d
  PROVE  CallIn({d}) = [id |-> d.firing.id, attempt |-> d.firing.attempt]
  BY DEF CallIn

LEMMA OneLive ==
  ASSUME TypeInv, OverlapInv, NEW s \in Slot
  PROVE  \/ LiveAt(s) = {} /\ CallOf(s) = NoCall
         \/ \E d \in Dispatch :
              /\ LiveAt(s) = {d} /\ d.live /\ d.slot = s /\ d.firing \in Firing
              /\ CallOf(s) = [id |-> d.firing.id, attempt |-> d.firing.attempt]
<1>1. CASE LiveAt(s) = {}
  <2>1. CallOf(s) = CallIn({})
    BY <1>1, CallOfLive
  <2> QED
    BY <1>1, <2>1 DEF CallIn
<1>2. CASE LiveAt(s) # {}
  <2>1. PICK d \in LiveAt(s) : TRUE
    BY <1>2
  <2>2. d \in Dispatch /\ d.live /\ d.slot = s /\ d.firing \in Firing
    BY <2>1 DEF LiveAt, TypeInv, TypeOK, Dispatch
  <2>3. LiveAt(s) = {d}
    BY <2>1 DEF LiveAt, OverlapInv, NoOverlap
  <2>4. CallOf(s) = CallIn({d})
    BY <2>3, CallOfLive
  <2> QED
    BY <2>2, <2>3, <2>4, CallOfOne
<1> QED
  BY <1>1, <1>2

LEMMA OwedType ==
  ASSUME TypeInv, NEW s \in Slot
  PROVE  /\ OwedTo(s) \in [id : Nat, attempt : Nat]
         /\ OwedTo(s).attempt > 0 \/ OwedTo(s) = NoCall
<1>1. CASE Held(s) /\ Pending(entries[s])
  <2>1. entries[s].retry.firing \in Firing
    BY <1>1, HeldEntry DEF Entry, Retry
  <2> QED
    BY <1>1, <2>1 DEF OwedTo, Pending, Firing
<1>2. CASE ~(Held(s) /\ Pending(entries[s]))
  BY <1>2 DEF OwedTo, NoCall
<1> QED
  BY <1>1, <1>2

-----------------------------------------------------------------------------
(***************************************************************************)
(* Whatever serves its slots so keeps the identifiers apart, and takes a   *)
(* step of the contract.                                                   *)
(***************************************************************************)
LEMMA CallAfter ==
  ASSUME TypeInv, OverlapInv, CallInv, NEW s \in Slot,
         Rests(s) \/ Ends(s) \/ Starts(s) \/ Resumes(s)
  PROVE  /\ \/ LiveAt(s)' = {} /\ CallOf(s)' = NoCall
            \/ \E d \in Dispatch :
                 /\ LiveAt(s)' = {d}
                 /\ CallOf(s)' = [id |-> d.firing.id, attempt |-> d.firing.attempt]
         /\ Rests(s) => CallOf(s)' = CallOf(s)
         /\ LiveAt(s)' # {} => OwedTo(s)' = NoCall
<1>1. CallOf(s)' = CallIn(LiveAt(s)')
  BY DEF CallOf, CallIn, LiveAt, NoCall
<1>2. CallIn({}) = NoCall
  BY DEF CallIn
<1>3. CASE Rests(s)
  <2>1. CallOf(s)' = CallOf(s)
    BY <1>1, <1>3, CallOfLive DEF Rests
  <2>2. LiveAt(s) # {} => OwedTo(s) = NoCall
    BY DEF CallInv
  <2> QED
    BY <1>3, <2>1, <2>2, OneLive DEF Rests
<1>4. CASE Ends(s)
  BY <1>1, <1>2, <1>4 DEF Ends, Rests
<1>5. CASE Starts(s) \/ Resumes(s)
  <2>1. LiveAt(s) = {} /\ OwedTo(s)' = NoCall /\ \E d \in Dispatch : LiveAt(s)' = {d}
    BY <1>5 DEF Starts, Resumes
  <2> QED
    BY <1>1, <2>1, CallOfOne DEF Rests
<1> QED
  BY <1>3, <1>4, <1>5

LEMMA BearsAfter ==
  ASSUME TypeInv, OverlapInv, NEW s \in Slot, NEW i \in Nat, Bears(s, i)',
         Rests(s) \/ Ends(s) \/ Starts(s) \/ Resumes(s)
  PROVE  \/ Bears(s, i)
         \/ /\ Starts(s) /\ i > firings /\ i <= firings'
            /\ \E d \in LiveAt(s)' : d.firing.id = i
<1>1. \/ \E d \in LiveAt(s)' : d.firing.id = i
      \/ OwedTo(s)'.attempt > 0 /\ OwedTo(s)'.id = i
  BY DEF Bears
<1>2. NoCall.attempt = 0
  BY DEF NoCall
<1>3. CASE Rests(s)
  BY <1>1, <1>2, <1>3 DEF Rests, Bears
<1>4. CASE Ends(s)
  <2>1. OwedTo(s)'.attempt > 0 /\ OwedTo(s)'.id = i /\ OwedTo(s)' = CallOf(s)
    BY <1>1, <1>2, <1>4 DEF Ends
  <2>2. PICK d \in Dispatch :
          LiveAt(s) = {d} /\ CallOf(s) = [id |-> d.firing.id, attempt |-> d.firing.attempt]
    BY <1>4, OneLive DEF Ends
  <2> QED
    BY <2>1, <2>2 DEF Bears
<1>5. CASE Starts(s)
  BY <1>1, <1>2, <1>5 DEF Starts
<1>6. CASE Resumes(s)
  <2>1. /\ OwedTo(s).attempt > 0 /\ OwedTo(s)' = NoCall
        /\ \E d \in Dispatch : LiveAt(s)' = {d} /\ d.firing.id = OwedTo(s).id
    BY <1>6 DEF Resumes
  <2> QED
    BY <1>1, <1>2, <2>1 DEF Bears
<1> QED
  BY <1>3, <1>4, <1>5, <1>6

LEMMA ServesKeeps ==
  ASSUME TypeInv, OverlapInv, CallInv, Serves
  PROVE  CallInv' /\ Contract!Next
<1> DEFINE New(s, i) == /\ Starts(s) /\ i > firings /\ i <= firings'
                        /\ \E d \in LiveAt(s)' : d.firing.id = i
<1>1. /\ firings \in Nat /\ firings' \in Nat /\ firings <= firings'
      /\ \A s \in Slot : Rests(s) \/ Ends(s) \/ Starts(s) \/ Resumes(s)
  BY DEF TypeInv, TypeOK, Serves
<1>2. \A s \in Slot, i \in Nat : Bears(s, i)' => Bears(s, i) \/ New(s, i)
  BY <1>1, BearsAfter
<1>3. \A s \in Slot, i \in Nat : Bears(s, i) =>
        i > 0 /\ i <= firings /\ \A t \in Slot : Bears(t, i) => s = t
  BY DEF CallInv
<1>4. \A s, t \in Slot, i \in Nat : New(s, i) /\ New(t, i) => s = t
  BY DEF Serves
<1>5. ASSUME NEW s \in Slot, NEW i \in Nat, Bears(s, i)'
      PROVE  i > 0 /\ i <= firings' /\ \A t \in Slot : Bears(t, i)' => s = t
  <2>1. Bears(s, i) \/ New(s, i)
    BY <1>2, <1>5
  <2>2. \A t \in Slot : Bears(t, i)' => Bears(t, i) \/ New(t, i)
    BY <1>2
  <2>3. \A t \in Slot : Bears(t, i) => i > 0 /\ i <= firings
    BY <1>3
  <2>4. \A t \in Slot : New(t, i) => i > firings /\ i <= firings'
    OBVIOUS
  <2>5. i > 0 /\ i <= firings'
    <3> HIDE DEF New
    <3> QED
      BY <1>1, <2>1, <2>3, <2>4
  <2>6. ~(i <= firings /\ i > firings)
    BY <1>1
  <2> HIDE DEF New
  <2> QED
    BY <1>3, <1>4, <2>1, <2>2, <2>3, <2>4, <2>5, <2>6
<1> HIDE DEF New
<1>6. \A s \in Slot :
        /\ \/ LiveAt(s)' = {} /\ CallOf(s)' = NoCall
           \/ \E d \in Dispatch :
                /\ LiveAt(s)' = {d}
                /\ CallOf(s)' = [id |-> d.firing.id, attempt |-> d.firing.attempt]
        /\ Rests(s) => CallOf(s)' = CallOf(s)
        /\ LiveAt(s)' # {} => OwedTo(s)' = NoCall
  BY <1>1, CallAfter
<1>7. CallInv'
  <2>1. \A s \in Slot : LiveAt(s)' # {} => OwedTo(s)' = NoCall
    BY <1>6
  <2>2. \A s \in Slot, i \in Nat : Bears(s, i)' =>
          i > 0 /\ i <= firings' /\ \A t \in Slot : Bears(t, i)' => s = t
    BY <1>5
  <2> QED
    BY <2>1, <2>2 DEF CallInv
<1>8. ASSUME NEW s \in Slot, CallOf(s)' # NoCall
      PROVE  \E i \in Nat : CallOf(s)'.id = i /\ Bears(s, i)'
  <2>1. PICK d \in Dispatch :
          /\ LiveAt(s)' = {d}
          /\ CallOf(s)' = [id |-> d.firing.id, attempt |-> d.firing.attempt]
    BY <1>6, <1>8
  <2>2. d.firing.id \in Nat /\ CallOf(s)'.id = d.firing.id
    BY <2>1 DEF Dispatch, Firing
  <2> QED
    BY <2>1, <2>2 DEF Bears
<1>9. ASSUME NEW s \in Slot PROVE CallOf(s)'.id \in Nat /\ CallOf(s)'.id <= firings'
  <2>1. NoCall.id = 0
    BY DEF NoCall
  <2>2. CASE CallOf(s)' = NoCall
    BY <1>1, <2>1, <2>2
  <2>3. CASE CallOf(s)' # NoCall
    BY <1>5, <1>8, <2>3
  <2> QED
    BY <2>2, <2>3
<1>10. ASSUME NEW s \in Slot, NEW t \in Slot, CallOf(s)'.id = CallOf(t)'.id,
              CallOf(s)' # NoCall
       PROVE  s = t
  <2>1. PICK i \in Nat : CallOf(s)'.id = i /\ Bears(s, i)'
    BY <1>8, <1>10
  <2>2. i > 0
    BY <1>5, <2>1
  <2>3. CallOf(t)' # NoCall
    <3>1. NoCall.id = 0 /\ i # 0 /\ CallOf(t)'.id = i
      BY <1>10, <2>1, <2>2 DEF NoCall
    <3> QED
      BY <3>1
  <2>4. Bears(t, i)'
    BY <1>8, <1>10, <2>1, <2>3
  <2> QED
    BY <1>5, <2>1, <2>4
<1>11. ASSUME NEW s \in Slot
       PROVE  \/ CallOf(s)' = CallOf(s) /\ OwedTo(s)' \in {OwedTo(s), NoCall}
              \/ /\ CallOf(s) # NoCall /\ CallOf(s)' = NoCall
                 /\ OwedTo(s)' \in {NoCall, CallOf(s)}
              \/ /\ CallOf(s) = NoCall /\ OwedTo(s)' = NoCall
                 /\ CallOf(s)'.id > firings /\ CallOf(s)'.attempt = 1
              \/ /\ CallOf(s) = NoCall /\ OwedTo(s) # NoCall /\ OwedTo(s)' = NoCall
                 /\ CallOf(s)' = [OwedTo(s) EXCEPT !.attempt = @ + 1]
  <2>1. CASE Rests(s)
    BY <1>6, <2>1 DEF Rests
  <2>2. CASE Ends(s)
    <3>1. CallOf(s)' = NoCall
      BY <1>6, <2>2 DEF Ends
    <3>2. PICK d \in Dispatch :
            LiveAt(s) = {d} /\ CallOf(s) = [id |-> d.firing.id, attempt |-> d.firing.attempt]
      BY <2>2, OneLive DEF Ends
    <3>3. d.firing.id \in Nat /\ CallOf(s).id = d.firing.id
      BY <3>2 DEF Dispatch, Firing
    <3>4. d.firing.id > 0
      BY <1>3, <3>2, <3>3 DEF Bears
    <3>5. CallOf(s) # NoCall
      BY <3>3, <3>4 DEF NoCall
    <3> QED
      BY <2>2, <3>1, <3>5 DEF Ends
  <2>3. CASE Starts(s)
    <3>1. CallOf(s) = NoCall
      BY <2>3, OneLive DEF Starts
    <3>2. PICK d \in Dispatch :
            /\ LiveAt(s)' = {d} /\ d.firing.attempt = 1
            /\ d.firing.id > firings /\ d.firing.id <= firings'
      BY <2>3 DEF Starts
    <3>3. CallOf(s)' = [id |-> d.firing.id, attempt |-> d.firing.attempt]
      BY <1>6, <3>2
    <3> QED
      BY <2>3, <3>1, <3>2, <3>3 DEF Starts
  <2>4. CASE Resumes(s)
    <3>1. CallOf(s) = NoCall
      BY <2>4, OneLive DEF Resumes
    <3>2. PICK d \in Dispatch :
            /\ LiveAt(s)' = {d} /\ d.firing.id = OwedTo(s).id
            /\ d.firing.attempt = OwedTo(s).attempt + 1
      BY <2>4 DEF Resumes
    <3>3. CallOf(s)' = [id |-> d.firing.id, attempt |-> d.firing.attempt]
      BY <1>6, <3>2
    <3>4. OwedTo(s) \in [id : Nat, attempt : Nat]
      BY OwedType
    <3>5. CallOf(s)' = [OwedTo(s) EXCEPT !.attempt = @ + 1]
      BY <3>2, <3>3, <3>4
    <3>6. OwedTo(s) # NoCall
      BY <2>4 DEF Resumes, NoCall
    <3> QED
      BY <2>4, <3>1, <3>5, <3>6 DEF Resumes
  <2> QED
    BY <1>1, <2>1, <2>2, <2>3, <2>4
<1>12. Contract!Next
  <2> SUFFICES ASSUME NEW s \in Slot
      PROVE  /\ \/ Contract!Deliver(s) \/ Contract!Redeliver(s) \/ Contract!Return(s)
                \/ Contract!GiveUp(s) \/ Contract!Keep(s)
             /\ [r \in Slot |-> CallOf(r)'][s].id <= firings'
             /\ \A t \in Slot :
                  [r \in Slot |-> CallOf(r)'][s].id = [r \in Slot |-> CallOf(r)'][t].id
                    => s = t \/ [r \in Slot |-> CallOf(r)'][s] = Contract!None
    BY <1>1 DEF Contract!Next
  <2>1. Contract!None = NoCall
    BY DEF Contract!None, NoCall
  <2>2. \/ Contract!Deliver(s) \/ Contract!Redeliver(s) \/ Contract!Return(s)
        \/ Contract!GiveUp(s) \/ Contract!Keep(s)
    BY <1>11, <2>1 DEF Contract!Deliver, Contract!Redeliver, Contract!Return,
                       Contract!GiveUp, Contract!Keep
  <2> QED
    BY <1>9, <1>10, <2>1, <2>2
<1> QED
  BY <1>7, <1>12

-----------------------------------------------------------------------------
(***************************************************************************)
(* Every step of the engine serves its slots so.                           *)
(***************************************************************************)
LEMMA InitCalls == Init => CallInv /\ Contract!Init
<1> SUFFICES ASSUME Init PROVE CallInv /\ Contract!Init
  OBVIOUS
<1>1. \A s \in Slot : LiveAt(s) = {} /\ OwedTo(s) = NoCall /\ CallOf(s) = NoCall
  BY DEF Init, LiveAt, OwedTo, CallOf, NoCall, Held
<1>2. NoCall.attempt = 0 /\ Contract!None = NoCall
  BY DEF NoCall, Contract!None
<1>3. CallInv
  BY <1>1, <1>2 DEF CallInv, Bears
<1>4. Contract!Init
  BY <1>1, <1>2 DEF Contract!Init, Init
<1> QED
  BY <1>3, <1>4

(* Where every slot rests or ends its call, and nothing is fired. *)
LEMMA NoneStarts ==
  ASSUME TypeInv, CallInv, firings' = firings,
         \A s \in Slot : Rests(s) \/ Ends(s)
  PROVE  Serves
<1>1. firings' \in Nat /\ firings <= firings'
  BY DEF TypeInv, TypeOK
<1>2. ASSUME NEW s \in Slot PROVE ~Starts(s)
  <2>1. ASSUME Starts(s) PROVE FALSE
    <3>1. LiveAt(s) = {} /\ \E d \in Dispatch : LiveAt(s)' = {d}
      BY <2>1 DEF Starts
    <3> QED
      BY <3>1 DEF Rests, Ends
  <2> QED
    BY <2>1
<1> QED
  BY <1>1, <1>2 DEF Serves

LEMMA OwedFollows ==
  ASSUME NEW s,
         Held(s)' => \/ Held(s) /\ entries'[s].retry = entries[s].retry
                     \/ ~Pending(entries'[s])
  PROVE  OwedTo(s)' \in {OwedTo(s), NoCall}
  BY DEF OwedTo, NoCall, Pending

(* Steps that queue no retry, and begin and end no call. *)
LEMMA RetriesStay ==
  ASSUME TypeInv, CallInv, inflight' = inflight, firings' = firings,
         \A s \in Slot : Held(s)' =>
           \/ Held(s) /\ entries'[s].retry = entries[s].retry
           \/ ~Pending(entries'[s])
  PROVE  Serves
<1>1. \A s \in Slot : LiveAt(s)' = LiveAt(s)
  BY DEF LiveAt
<1>2. \A s \in Slot : OwedTo(s)' \in {OwedTo(s), NoCall}
  BY OwedFollows
<1> QED
  BY <1>1, <1>2, NoneStarts DEF Rests

LEMMA BindServes ==
  ASSUME TypeInv, CallInv, NEW w \in Workloads, NEW b \in Bindings, Bind(w, b)
  PROVE  Serves
<1>1. inflight' = inflight /\ firings' = firings
  BY DEF Bind
<1>2. ASSUME NEW s \in Slot, Held(s)'
      PROVE  \/ Held(s) /\ entries'[s].retry = entries[s].retry
             \/ ~Pending(entries'[s])
  <2>1. CASE s[1] # w
    BY <1>2, <2>1, BindSlots DEF Held
  <2>2. CASE s[1] = w
    <3>1. PICK n \in Names : s = <<w, n>>
      BY <2>2 DEF Slot
    <3>2. CASE n \in Kept(b, w)
      <4> DEFINE e == entries[s]
                 f == entries'[s]
      <4>1. f = WithoutVoidedRetry(b, e) /\ Held(s)
        BY <3>1, <3>2, BindSlots DEF Kept, Permitted
      <4>2. e \in Entry
        BY <4>1, HeldEntry
      <4> HIDE DEF e, f
      <4>3. f.retry = e.retry \/ f.retry = NoRetry
        BY <4>1, <4>2 DEF WithoutVoidedRetry, Entry
      <4> QED
        BY <4>1, <4>3, NoRetryType DEF Pending, e, f
    <3>3. CASE n \in Created(b, w)
      <4>1. \E k : entries'[s] = NewEntry(b.declared[n], TRUE, k)
        BY <3>1, <3>3, BindSlots
      <4> QED
        BY <4>1, NoRetryType DEF NewEntry, Pending
    <3> QED
      BY <1>2, <3>1, <3>2, <3>3, BindSlots DEF Held
  <2> QED
    BY <2>1, <2>2
<1> QED
  BY <1>1, <1>2, RetriesStay

LEMMA RegisterServes ==
  ASSUME TypeInv, CallInv, NEW t \in Slot, NEW spec \in Specs, Register(t, spec)
  PROVE  Serves
<1>1. /\ inflight' = inflight /\ firings' = firings
      /\ entries' = [entries EXCEPT ![t] = NewEntry(spec, FALSE, epochs + 1)]
  BY DEF Register
<1>2. ~Pending(NewEntry(spec, FALSE, epochs + 1))
  BY NoRetryType DEF NewEntry, Pending
<1>3. \A s \in Slot : s # t => entries'[s] = entries[s]
  BY <1>1, EngineTypes
<1>4. entries'[t] = NewEntry(spec, FALSE, epochs + 1)
  BY <1>1, EngineTypes
<1>5. ASSUME NEW s \in Slot, Held(s)'
      PROVE  \/ Held(s) /\ entries'[s].retry = entries[s].retry
             \/ ~Pending(entries'[s])
  BY <1>2, <1>3, <1>4, <1>5 DEF Held
<1> QED
  BY <1>1, <1>5, RetriesStay

LEMMA UnregisterServes ==
  ASSUME TypeInv, CallInv, NEW t \in Slot, Unregister(t) PROVE Serves
<1>1. /\ inflight' = inflight /\ firings' = firings
      /\ entries' = [entries EXCEPT ![t] = NoEntry]
  BY DEF Unregister
<1>2. \A s \in Slot : Held(s)' => Held(s) /\ entries'[s] = entries[s]
  BY <1>1, EngineTypes DEF Held
<1> QED
  BY <1>1, <1>2, RetriesStay

(* Unbinding ends the calls of the workload. *)
LEMMA UnbindServes ==
  ASSUME TypeInv, CallInv, NEW w \in Workloads, Unbind(w) PROVE Serves
<1>1. /\ inflight' = { IF d.slot[1] = w THEN [d EXCEPT !.live = FALSE] ELSE d :
                         d \in inflight }
      /\ firings' = firings
      /\ \A s \in Slot : entries'[s] = IF s[1] = w THEN NoEntry ELSE entries[s]
  BY DEF Unbind
<1>2. \A d \in inflight : /\ ~[d EXCEPT !.live = FALSE].live
                          /\ [d EXCEPT !.live = FALSE].slot = d.slot
  BY DEF TypeInv, TypeOK, Dispatch
<1>3. ASSUME NEW s \in Slot PROVE Rests(s) \/ Ends(s)
  <2>1. CASE s[1] # w
    <3>1. LiveAt(s)' = LiveAt(s)
      BY <1>1, <1>2, <2>1 DEF LiveAt
    <3>2. OwedTo(s)' = OwedTo(s)
      BY <1>1, <2>1 DEF OwedTo, Held, Pending
    <3> QED
      BY <3>1, <3>2 DEF Rests
  <2>2. CASE s[1] = w
    <3>1. LiveAt(s)' = {}
      BY <1>1, <1>2, <2>2 DEF LiveAt
    <3>2. OwedTo(s)' = NoCall
      BY <1>1, <2>2 DEF OwedTo, Held, NoCall
    <3> QED
      BY <3>1, <3>2 DEF Rests, Ends
  <2> QED
    BY <2>1, <2>2
<1> QED
  BY <1>1, <1>3, NoneStarts

(* A completion ends the call it belongs to, if that still ran, and queues  *)
(* no retry but of that call.                                              *)
LEMMA CompleteServes ==
  ASSUME TypeInv, OverlapInv, GrantInv, CallInv,
         NEW d \in inflight, NEW outcome \in Outcomes, Complete(d, outcome)
  PROVE  Serves
<1> DEFINE t == d.slot
<1>1. inflight' = inflight \ {d} /\ firings' = firings
  BY DEF Complete
<1>2. /\ t \in Slot /\ d.firing \in Firing /\ d.firing.attempt > 0
  BY DEF TypeInv, TypeOK, WellFormed, Dispatch
<1> HIDE DEF t
<1>3. \A s \in Slot : s # t => entries'[s] = entries[s]
  <2>1. CASE CompleteUnbound(d)
    BY <2>1 DEF CompleteUnbound
  <2>2. CASE CompleteStale(d)
    BY <2>2, EngineTypes DEF CompleteStale, t
  <2>3. CASE CompleteCurrent(d, outcome)
    BY <2>3, EngineTypes DEF CompleteCurrent, t
  <2> QED
    BY <2>1, <2>2, <2>3 DEF Complete
<1>4. ASSUME NEW s \in Slot, s # t PROVE Rests(s)
  <2>1. LiveAt(s)' = LiveAt(s)
    BY <1>1, <1>4 DEF LiveAt, t
  <2>2. OwedTo(s)' \in {OwedTo(s), NoCall}
    BY <1>3, <1>4, OwedFollows DEF Held
  <2> QED
    BY <2>1, <2>2 DEF Rests
<1>5. ASSUME ~CompleteCurrent(d, outcome)
      PROVE  OwedTo(t)' \in {OwedTo(t), NoCall}
  <2>1. CASE CompleteUnbound(d)
    BY <2>1, OwedFollows DEF CompleteUnbound, Held
  <2>2. CASE CompleteStale(d)
    <3>1. entries'[t] = IF Held(t) THEN CaughtUp(entries[t]) ELSE entries[t]
      BY <1>2, <2>2, EngineTypes DEF CompleteStale, t
    <3>2. Held(t) => \/ CaughtUp(entries[t]).retry = entries[t].retry
                     \/ CaughtUp(entries[t]).retry = NoRetry
      BY <1>2, HeldEntry, CaughtUpMoves DEF Moved
    <3>3. Held(t)' => Held(t)
      BY <3>1 DEF Held
    <3>4. Held(t)' => \/ Held(t) /\ entries'[t].retry = entries[t].retry
                      \/ ~Pending(entries'[t])
      BY <3>1, <3>2, <3>3, NoRetryType DEF Pending
    <3> QED
      BY <3>4, OwedFollows
  <2> QED
    BY <1>5, <2>1, <2>2 DEF Complete
<1>6. CASE ~d.live
  <2>1. LiveAt(t)' = LiveAt(t)
    BY <1>1, <1>6 DEF LiveAt
  <2>2. ~CompleteCurrent(d, outcome)
    BY <1>6 DEF CompleteCurrent, OverlapInv, DeadForgotten
  <2>3. Rests(t)
    BY <1>5, <2>1, <2>2 DEF Rests
  <2> QED
    BY <1>1, <1>4, <2>3, NoneStarts
<1>7. CASE d.live
  <2>1. LiveAt(t) = {d}
    BY <1>7 DEF LiveAt, OverlapInv, NoOverlap, t
  <2>2. LiveAt(t)' = {}
    BY <1>1, <2>1 DEF LiveAt
  <2>3. OwedTo(t) = NoCall
    BY <1>2, <2>1 DEF CallInv
  <2>4. CallOf(t) = [id |-> d.firing.id, attempt |-> d.firing.attempt]
    BY <2>1, CallOfLive, CallOfOne
  <2>5. ASSUME CompleteCurrent(d, outcome)
        PROVE  OwedTo(t)' \in {CallOf(t), NoCall}
    <3> DEFINE b == binding[t[1]]
               f == Settled(b, entries[t], d.firing, outcome)
    <3>1. entries'[t] = f /\ Held(t) /\ t[1] \in bound
      BY <1>2, <2>5, EngineTypes DEF CompleteCurrent, t
    <3>2. /\ b \in Bindings \cup {NoBinding}
          /\ entries[t] \in Entry /\ Shaped(entries[t])
          /\ ~RetryVoided(b, entries[t])
          /\ entries[t].spent => IsOnce(entries[t].spec)
      BY <1>2, <3>1, HeldEntry
         DEF GrantInv, BoundByBindings, EntriesStand, Stands, BindingOf, EntriesOwed, Owed
    <3> HIDE DEF b
    <3>3. f # NoEntry =>
            f.retry \in {entries[t].retry, NoRetry} \/ f.retry.firing = d.firing
      BY <1>2, <3>2, SettledGrants
    <3> HIDE DEF f
    <3>4. CASE f = NoEntry
      BY <3>1, <3>4 DEF OwedTo, Held, NoCall
    <3>5. CASE f # NoEntry /\ f.retry \in {entries[t].retry, NoRetry}
      <4>1. \/ Held(t) /\ entries'[t].retry = entries[t].retry
            \/ ~Pending(entries'[t])
        BY <3>1, <3>5, NoRetryType DEF Pending
      <4> QED
        BY <2>3, <4>1, OwedFollows
    <3>6. CASE f # NoEntry /\ f.retry.firing = d.firing
      BY <1>2, <2>4, <3>1, <3>6 DEF OwedTo, Held, Pending
    <3> QED
      BY <3>3, <3>4, <3>5, <3>6
  <2>6. OwedTo(t)' \in {CallOf(t), NoCall}
    BY <1>5, <2>3, <2>5
  <2>7. Ends(t)
    BY <2>1, <2>2, <2>6 DEF Ends
  <2> QED
    BY <1>1, <1>4, <2>7, NoneStarts
<1> QED
  BY <1>6, <1>7

(* The slots that a poll fires are numbered in the order it visits them.    *)
LEMMA NumbersDiffer ==
  ASSUME NEW S \in SUBSET Slot, NEW s \in S
  PROVE  LET Upto(r) == {t \in S : t = r \/ Precedes(t, r)}
         IN  /\ Cardinality(Upto(s)) \in Nat /\ Cardinality(Upto(s)) > 0
             /\ Cardinality(Upto(s)) <= Cardinality(S)
             /\ \A r \in S : Cardinality(Upto(r)) = Cardinality(Upto(s)) => r = s
<1> DEFINE Upto(r) == {t \in S : t = r \/ Precedes(t, r)}
<1>1. \A r \in S : /\ r[1] \in Nat /\ r[2] \in Nat /\ r = <<r[1], r[2]>>
  <2>1. \A r \in Slot : r[1] \in Workloads /\ r[2] \in Names /\ r = <<r[1], r[2]>>
    BY DEF Slot
  <2> QED
    BY <2>1, SlotsAssumption
<1>2. IsFiniteSet(S) /\ Cardinality(S) \in Nat
  BY SlotFinite, FS_Subset, FS_CardinalityType
<1>3. \A r : /\ IsFiniteSet(Upto(r)) /\ Cardinality(Upto(r)) \in Nat
             /\ Cardinality(Upto(r)) <= Cardinality(S)
  <2> SUFFICES ASSUME NEW r
      PROVE  /\ IsFiniteSet(Upto(r)) /\ Cardinality(Upto(r)) \in Nat
             /\ Cardinality(Upto(r)) <= Cardinality(S)
    OBVIOUS
  <2>1. Upto(r) \in SUBSET S
    OBVIOUS
  <2> HIDE DEF Upto
  <2> QED
    BY <1>2, <2>1, FS_Subset, FS_CardinalityType
<1>4. Cardinality(Upto(s)) > 0
  <2>1. s \in Upto(s)
    OBVIOUS
  <2> HIDE DEF Upto
  <2>2. Cardinality(Upto(s)) # 0
    BY <1>3, <2>1, FS_EmptySet
  <2> QED
    BY <1>3, <2>2
<1>5. ASSUME NEW p \in S, NEW q \in S, Precedes(p, q),
             Cardinality(Upto(p)) = Cardinality(Upto(q))
      PROVE  FALSE
  <2>1. \A t \in S : Precedes(t, p) => Precedes(t, q)
    <3> SUFFICES ASSUME NEW t \in S, Precedes(t, p) PROVE Precedes(t, q)
      OBVIOUS
    <3> QED
      BY <1>1, <1>5 DEF Precedes
  <2>2. p # q /\ ~Precedes(q, p)
    BY <1>1, <1>5 DEF Precedes
  <2>3. Upto(p) \in SUBSET Upto(q)
    BY <1>5, <2>1
  <2>4. q \in Upto(q) /\ q \notin Upto(p)
    BY <2>2
  <2> DEFINE A == Upto(p)
             B == Upto(q)
  <2>5. /\ IsFiniteSet(B) /\ A \in SUBSET B /\ A # B
        /\ Cardinality(A) = Cardinality(B)
    BY <1>3, <1>5, <2>3, <2>4
  <2> HIDE DEF A, B
  <2> QED
    BY <2>5, FS_Subset
<1>6. ASSUME NEW r \in S, r # s PROVE Precedes(r, s) \/ Precedes(s, r)
  <2>1. r[1] # s[1] \/ r[2] # s[2]
    BY <1>1, <1>6
  <2> QED
    BY <1>1, <2>1 DEF Precedes
<1> QED
  BY <1>3, <1>4, <1>5, <1>6

LEMMA PolledClears ==
  ASSUME TypeInv, NEW s \in Slot, Held(s), Fires(s) \/ Redelivers(s)
  PROVE  Polled(s).retry = NoRetry
<1> DEFINE e == Rescheduled(entries[s])
           v == Advanced(e)
<1>1. e \in Entry /\ Shaped(e)
  BY HeldEntry, RescheduledEntry DEF TypeInv, TypeOK
<1>2. CASE Fires(s)
  <2>1. Polled(s) = [[v EXCEPT !.retry = NoRetry]
                        EXCEPT !.missed = 0, !.overtaken = FALSE]
    BY <1>2 DEF Polled, Fires, Overruns, Redelivers
  <2>2. v \in Entry
    <3>1. IsDue(e)
      BY <1>2 DEF Fires, DueAtPoll
    <3> HIDE DEF e
    <3> QED
      BY <1>1, <3>1, AdvancedMoves DEF Moved
  <2> HIDE DEF v
  <2> QED
    BY <2>1, <2>2 DEF Entry
<1>3. CASE Redelivers(s)
  <2>1. Polled(s) = [e EXCEPT !.retry = NoRetry]
    BY <1>3 DEF Polled, Fires, Overruns, Redelivers
  <2> HIDE DEF e
  <2> QED
    BY <1>1, <2>1 DEF Entry
<1> QED
  BY <1>2, <1>3

(* A poll calls only names where nothing runs, with new identifiers or the  *)
(* one that was queued.                                                    *)
LEMMA PollServes ==
  ASSUME TypeInv, OverlapInv, CallInv, Poll PROVE Serves
<1> DEFINE fresh == { s \in Slot : Fires(s) }
           again == { s \in Slot : Redelivers(s) }
           first(s) == DispatchOf(s, Fresh(fresh, s))
           next(s) == DispatchOf(s, Again(s))
<1>1. /\ firings' = firings + Cardinality(fresh)
      /\ \A s \in Slot : entries'[s] = Polled(s)
      /\ inflight' = inflight \cup { first(s) : s \in fresh }
                              \cup { next(s) : s \in again }
  BY DEF Poll
<1>2. /\ fresh \in SUBSET Slot /\ Cardinality(fresh) \in Nat
      /\ firings \in Nat
      /\ \A s \in Slot : s \in fresh <=> Fires(s)
      /\ \A s \in Slot : s \in again <=> Redelivers(s)
  <2>1. fresh \in SUBSET Slot
    OBVIOUS
  <2> QED
    BY <2>1, CountsSlots DEF TypeInv, TypeOK
<1>3. ASSUME NEW s \in Slot PROVE ~(Fires(s) /\ Redelivers(s))
  BY DEF Fires, Redelivers
<1>4. ASSUME NEW s \in Slot, Fires(s) \/ Redelivers(s)
      PROVE  Held(s) /\ LiveAt(s) = {}
  <2>1. Held(s) /\ busy[s] = 0
    BY <1>4 DEF Fires, Redelivers, DueAtPoll
  <2>2. \A d \in LiveAt(s) : d.epoch = busy[s] /\ d.epoch # 0
    BY DEF LiveAt, OverlapInv, LiveOccupies, TypeInv, TypeOK, Dispatch
  <2> QED
    BY <2>1, <2>2
<1>5. \A s, f : DispatchOf(s, f).slot = s /\ DispatchOf(s, f).live
                  /\ DispatchOf(s, f).firing = f
  BY DEF DispatchOf
<1>6. ASSUME NEW s \in Slot
      PROVE  LiveAt(s)' = LiveAt(s) \cup (IF Fires(s) THEN {first(s)} ELSE {})
                                    \cup (IF Redelivers(s) THEN {next(s)} ELSE {})
  <2>1. \A r \in fresh : first(r).slot = r /\ first(r).live
    BY <1>5
  <2>2. \A r \in again : next(r).slot = r /\ next(r).live
    BY <1>5
  <2>3. LiveAt(s)' = { d \in inflight' : d.live /\ d.slot = s }
    BY DEF LiveAt
  <2> HIDE DEF first, next, fresh, again
  <2> QED
    BY <1>1, <1>2, <2>1, <2>2, <2>3 DEF LiveAt
<1>7. ASSUME NEW s \in Slot, Fires(s) PROVE Starts(s)
  <2> DEFINE n == Cardinality({t \in fresh : t = s \/ Precedes(t, s)})
  <2>1. LiveAt(s) = {} /\ LiveAt(s)' = {first(s)}
    BY <1>3, <1>4, <1>6, <1>7
  <2>2. first(s) \in Dispatch
    BY <1>2, <1>7, DispatchTypes
  <2>3. first(s).firing.id = firings + n /\ first(s).firing.attempt = 1
    BY <1>5 DEF Fresh
  <2>4. n \in Nat /\ n > 0 /\ n <= Cardinality(fresh)
    <3> HIDE DEF fresh
    <3> QED
      BY <1>2, <1>7, NumbersDiffer
  <2> HIDE DEF n
  <2>5. firings + n > firings /\ firings + n <= firings'
    <3> HIDE DEF fresh
    <3> QED
      BY <1>1, <1>2, <2>4
  <2>6. OwedTo(s)' = NoCall
    <3>1. Polled(s).retry = NoRetry
      BY <1>4, <1>7, PolledClears
    <3> QED
      BY <1>1, <3>1, NoRetryType DEF OwedTo, Held, Pending, NoCall
  <2> HIDE DEF first
  <2> QED
    BY <2>1, <2>2, <2>3, <2>5, <2>6 DEF Starts
<1>8. ASSUME NEW s \in Slot, Redelivers(s) PROVE Resumes(s)
  <2>1. LiveAt(s) = {} /\ LiveAt(s)' = {next(s)}
    BY <1>3, <1>4, <1>6, <1>8
  <2>2. next(s) \in Dispatch
    BY <1>2, <1>8, DispatchTypes
  <2>3. /\ Held(s) /\ Pending(entries[s]) /\ entries[s].retry.firing \in Firing
    BY <1>4, <1>8, HeldEntry DEF Redelivers, Entry, Retry
  <2>4. /\ OwedTo(s).id = entries[s].retry.firing.id
        /\ OwedTo(s).attempt = entries[s].retry.firing.attempt
        /\ OwedTo(s).attempt > 0
    BY <2>3 DEF OwedTo, Pending
  <2>5. /\ next(s).firing.id = OwedTo(s).id
        /\ next(s).firing.attempt = OwedTo(s).attempt + 1
    <3>1. next(s).firing = [entries[s].retry.firing EXCEPT !.attempt = @ + 1]
      BY <1>5 DEF Again
    <3> HIDE DEF next
    <3> QED
      BY <2>3, <2>4, <3>1 DEF Firing
  <2>6. OwedTo(s)' = NoCall
    <3>1. Polled(s).retry = NoRetry
      BY <1>4, <1>8, PolledClears
    <3> QED
      BY <1>1, <3>1, NoRetryType DEF OwedTo, Held, Pending, NoCall
  <2> HIDE DEF next
  <2> QED
    BY <2>1, <2>2, <2>4, <2>5, <2>6 DEF Resumes
<1>9. ASSUME NEW s \in Slot, ~Fires(s), ~Redelivers(s) PROVE Rests(s)
  <2>1. LiveAt(s)' = LiveAt(s)
    BY <1>6, <1>9
  <2>2. Held(s)' => \/ Held(s) /\ entries'[s].retry = entries[s].retry
                    \/ ~Pending(entries'[s])
    <3>1. ASSUME Held(s) PROVE Polled(s).retry \in {entries[s].retry, NoRetry}
      BY <3>1, PolledMoves DEF Moved
    <3>2. Held(s)' => Held(s)
      BY <1>1, PolledSlot DEF Held
    <3> QED
      BY <1>1, <3>1, <3>2, NoRetryType DEF Pending
  <2> QED
    BY <2>1, <2>2, OwedFollows DEF Rests
<1>10. ASSUME NEW s \in Slot, NEW t \in Slot, Starts(s), Starts(t),
              NEW c \in LiveAt(s)', NEW d \in LiveAt(t)', c.firing.id = d.firing.id
       PROVE  s = t
  <2> DEFINE N(r) == Cardinality({u \in fresh : u = r \/ Precedes(u, r)})
  <2>1. ASSUME NEW r \in Slot, Starts(r), NEW e \in LiveAt(r)'
        PROVE  r \in fresh /\ e.firing.id = firings + N(r)
    <3>1. LiveAt(r) = {} /\ LiveAt(r)' # {} /\ OwedTo(r)' = NoCall
      BY <2>1 DEF Starts
    <3>2. ~Rests(r)
      BY <3>1 DEF Rests
    <3>3. ~Resumes(r)
      <4>1. ASSUME Resumes(r) PROVE FALSE
        <5>1. PICK x \in Dispatch : LiveAt(r)' = {x} /\ x.firing.id > firings
          BY <2>1 DEF Starts
        <5>2. /\ OwedTo(r).attempt > 0
              /\ \E y \in Dispatch : LiveAt(r)' = {y} /\ y.firing.id = OwedTo(r).id
          BY <4>1 DEF Resumes
        <5>3. OwedTo(r).id \in Nat /\ Bears(r, OwedTo(r).id)
          BY <5>2, OwedType DEF Bears
        <5>4. OwedTo(r).id <= firings
          BY <5>3 DEF CallInv
        <5>5. x.firing.id = OwedTo(r).id
          BY <5>1, <5>2
        <5> QED
          BY <1>2, <5>1, <5>3, <5>4, <5>5
      <4> QED
        BY <4>1
    <3>4. Fires(r)
      BY <1>8, <1>9, <3>2, <3>3
    <3>5. e = first(r)
      BY <1>3, <1>6, <3>1, <3>4
    <3> QED
      BY <1>2, <1>5, <3>4, <3>5 DEF Fresh
  <2>2. s \in fresh /\ t \in fresh /\ firings + N(s) = firings + N(t)
    BY <1>10, <2>1
  <2> HIDE DEF fresh
  <2>3. N(s) \in Nat /\ N(t) \in Nat /\ (N(s) = N(t) => s = t)
    BY <1>2, <2>2, NumbersDiffer
  <2> DEFINE i == N(s)
             j == N(t)
  <2>4. i \in Nat /\ j \in Nat /\ firings + i = firings + j /\ (i = j => s = t)
    BY <2>2, <2>3
  <2> HIDE DEF i, j
  <2> QED
    BY <1>2, <2>4
<1> HIDE DEF fresh, again, first, next
<1>11. firings' \in Nat /\ firings <= firings'
  BY <1>1, <1>2
<1> QED
  BY <1>7, <1>8, <1>9, <1>10, <1>11 DEF Serves

LEMMA ServeStep ==
  TypeInv /\ OverlapInv /\ GrantInv /\ CallInv /\ [Next]_vars => Serves
<1> SUFFICES ASSUME TypeInv, OverlapInv, GrantInv, CallInv, [Next]_vars PROVE Serves
  OBVIOUS
<1>1. ASSUME UNCHANGED << engine, inflight >> PROVE Serves
  <2>1. inflight' = inflight /\ firings' = firings /\ entries' = entries
    BY <1>1 DEF engine
  <2>2. \A s \in Slot : Held(s)' => Held(s) /\ entries'[s].retry = entries[s].retry
    BY <2>1 DEF Held
  <2> QED
    BY <2>1, <2>2, RetriesStay
<1>2. CASE Tick
  BY <1>1, <1>2 DEF Tick
<1>3. ASSUME NEW delta \in ClockSteps, StepClock(delta) PROVE Serves
  BY <1>1, <1>3 DEF StepClock
<1>4. ASSUME NEW w \in Workloads, NEW b \in Bindings, Bind(w, b) PROVE Serves
  BY <1>4, BindServes
<1>5. ASSUME NEW w \in Workloads, Unbind(w) PROVE Serves
  BY <1>5, UnbindServes
<1>6. ASSUME NEW s \in Slot, NEW spec \in Specs, Register(s, spec) PROVE Serves
  BY <1>6, RegisterServes
<1>7. ASSUME NEW s \in Slot, Unregister(s) PROVE Serves
  BY <1>7, UnregisterServes
<1>8. CASE Poll
  BY <1>8, PollServes
<1>9. ASSUME NEW d \in inflight, NEW outcome \in Outcomes, Complete(d, outcome)
      PROVE  Serves
  BY <1>9, CompleteServes
<1>10. CASE UNCHANGED vars
  BY <1>1, <1>10 DEF vars, engine
<1> QED
  BY <1>2, <1>3, <1>4, <1>5, <1>6, <1>7, <1>8, <1>9, <1>10 DEF Next

LEMMA CallStep ==
  TypeInv /\ OverlapInv /\ GrantInv /\ CallInv /\ [Next]_vars
    => CallInv' /\ Contract!Next
  BY ServeStep, ServesKeeps

-----------------------------------------------------------------------------
(* Whatever is bound, polled and completed, the engine serves every name as *)
(* the contract promises: its calls never overlap, each firing has an       *)
(* identifier of its own, and a firing is delivered again only when the     *)
(* last call for it asked for that, with its attempt one higher.           *)
THEOREM EngineImplementsContract == Spec => ImplementsContract
<1>1. Spec => [](TypeInv /\ OverlapInv /\ GrantInv /\ CallInv)
  BY InitTypes, TypeStep, InitOverlap, OverlapStep, InitGrants, GrantStep,
     InitCalls, CallStep, PTL DEF Spec
<1>2. Spec => [][Next]_vars
  BY PTL DEF Spec
<1>3. Spec => Contract!Init
  BY InitCalls, PTL DEF Spec
<1>4. TypeInv /\ OverlapInv /\ GrantInv /\ CallInv /\ [Next]_vars
        => [Contract!Next]_<< [s \in Slot |-> CallOf(s)],
                             [s \in Slot |-> OwedTo(s)], firings >>
  BY CallStep
<1>5. Spec => [][Contract!Next]_<< [s \in Slot |-> CallOf(s)],
                                 [s \in Slot |-> OwedTo(s)], firings >>
  BY <1>1, <1>2, <1>4, PTL
<1> QED
  BY <1>3, <1>5, PTL DEF ImplementsContract, Contract!Spec


-----------------------------------------------------------------------------
(***************************************************************************)
(* The operations of the engine on an entry, field by field.               *)
(***************************************************************************)
LEMMA AdvancedIs ==
  ASSUME TypeInv, NEW e \in Entry, Shaped(e), IsDue(e)
  PROVE  LET f == Advanced(e)
         IN  /\ f \in Entry /\ f.spec = e.spec /\ f.epoch = e.epoch
             /\ f.missed = e.missed /\ f.retry = e.retry /\ f.overtaken = e.overtaken
             /\ e.spec.kind = "cron" => f.due = NextAfter(e.spec.arg, wall)
             /\ e.spec.kind = "interval" =>
                  /\ f.due.on = e.due.on
                  /\ f.due.at = e.due.at + (Elapsed(e) + 1) * e.spec.arg
             /\ IsOnce(e.spec) => f.due = Never
             /\ ~IsOnce(e.spec) => f.spent = e.spent
<1>1. Advanced(e) \in Entry /\ Advanced(e).spec = e.spec /\ Advanced(e).epoch = e.epoch
  BY DueEntry DEF TypeInv, TypeOK
<1>2. CASE e.spec.kind = "cron"
  <2>1. Advanced(e) = [e EXCEPT !.due = NextAfter(e.spec.arg, wall)]
    BY <1>2 DEF Advanced
  <2> QED
    BY <1>1, <1>2, <2>1 DEF Entry, IsOnce
<1>3. CASE e.spec.kind = "interval"
  <2> DEFINE mark == e.due.at + (Elapsed(e) + 1) * e.spec.arg
  <2>1. Advanced(e) = [e EXCEPT !.due = [@ EXCEPT !.at = mark]]
    BY <1>3 DEF Advanced, Entry, Due
  <2>2. [e.due EXCEPT !.at = mark].on = e.due.on /\ [e.due EXCEPT !.at = mark].at = mark
    BY DEF Entry, Due
  <2>3. Advanced(e).due = [e.due EXCEPT !.at = mark]
    <3> HIDE DEF mark
    <3> QED
      BY <2>1 DEF Entry
  <2>4. /\ Advanced(e).missed = e.missed /\ Advanced(e).retry = e.retry
        /\ Advanced(e).overtaken = e.overtaken /\ Advanced(e).spent = e.spent
    <3> HIDE DEF mark
    <3> QED
      BY <2>1 DEF Entry
  <2> QED
    BY <1>1, <1>3, <2>2, <2>3, <2>4 DEF IsOnce
<1>4. CASE IsOnce(e.spec)
  <2>1. Advanced(e) = [e EXCEPT !.due = Never, !.spent = TRUE]
    BY <1>4 DEF Advanced, IsOnce
  <2> QED
    BY <1>1, <1>4, <2>1 DEF Entry, IsOnce
<1> QED
  BY <1>2, <1>3, <1>4, SpecTypes DEF Entry, Kinds, IsOnce

LEMMA RescheduledIs ==
  ASSUME TypeInv, NEW e \in Entry, Shaped(e)
  PROVE  LET f == Rescheduled(e)
         IN  /\ f \in Entry /\ Shaped(f) /\ f.spec = e.spec /\ f.epoch = e.epoch
             /\ f.missed = e.missed /\ f.retry = e.retry
             /\ f.overtaken = e.overtaken /\ f.spent = e.spent
             /\ \/ f = e
                \/ /\ ClockReset /\ e.spec.kind = "cron" /\ e.due.on = "wall"
                   /\ f.due = NextAfter(e.spec.arg, wall)
<1>1. /\ Rescheduled(e) \in Entry /\ Shaped(Rescheduled(e))
      /\ Rescheduled(e).spec = e.spec /\ Rescheduled(e).epoch = e.epoch
  BY RescheduledEntry DEF TypeInv, TypeOK
<1>2. CASE ClockReset /\ e.spec.kind = "cron" /\ e.due.on = "wall"
  <2>1. Rescheduled(e) = [e EXCEPT !.due = NextAfter(e.spec.arg, wall)]
    BY <1>2 DEF Rescheduled
  <2> QED
    BY <1>1, <1>2, <2>1 DEF Entry
<1>3. CASE ~(ClockReset /\ e.spec.kind = "cron" /\ e.due.on = "wall")
  <2>1. Rescheduled(e) = e
    BY <1>3 DEF Rescheduled
  <2> QED
    BY <1>1, <2>1
<1> QED
  BY <1>2, <1>3

LEMMA CaughtUpIs ==
  ASSUME TypeInv, NEW e \in Entry, Shaped(e)
  PROVE  LET f == CaughtUp(e)
         IN  /\ f \in Entry /\ Shaped(f) /\ f.spec = e.spec /\ f.epoch = e.epoch
             /\ f.spent = e.spent
             /\ ~IsOnce(e.spec) /\ IsDue(e) =>
                  /\ f.due = Advanced(e).due /\ f.retry = NoRetry /\ f.overtaken
                  /\ Occurrence(e).skipped \in Nat
                  /\ f.missed = e.missed + Occurrence(e).skipped + 1
             /\ ~(~IsOnce(e.spec) /\ IsDue(e)) => f = e
<1>1. /\ CaughtUp(e) \in Entry /\ Shaped(CaughtUp(e))
      /\ CaughtUp(e).spec = e.spec /\ CaughtUp(e).epoch = e.epoch
      /\ CaughtUp(e).spent = e.spent
  BY CaughtUpEntry, CaughtUpMoves DEF TypeInv, TypeOK
<1>2. ~(~IsOnce(e.spec) /\ IsDue(e)) => CaughtUp(e) = e
  BY DEF CaughtUp
<1>3. ASSUME ~IsOnce(e.spec), IsDue(e)
      PROVE  LET f == CaughtUp(e)
             IN  /\ f.due = Advanced(e).due /\ f.retry = NoRetry /\ f.overtaken
                 /\ Occurrence(e).skipped \in Nat
                 /\ f.missed = e.missed + Occurrence(e).skipped + 1
  <2> DEFINE a == Advanced(e)
             n == e.missed + Occurrence(e).skipped + 1
  <2>1. a \in Entry /\ a.missed = e.missed
    BY <1>3, AdvancedIs
  <2>2. Occurrence(e).skipped \in Nat
    BY <1>3, DueEntry DEF TypeInv, TypeOK
  <2>3. CaughtUp(e) = [a EXCEPT !.retry = NoRetry, !.missed = n, !.overtaken = TRUE]
    BY <1>3, <2>1 DEF CaughtUp, Entry
  <2> HIDE DEF n
  <2>4. /\ CaughtUp(e).due = a.due /\ CaughtUp(e).retry = NoRetry
        /\ CaughtUp(e).missed = n /\ CaughtUp(e).overtaken
    <3> HIDE DEF a
    <3> QED
      BY <2>1, <2>3 DEF Entry
  <2> QED
    BY <2>2, <2>4 DEF n
<1> QED
  BY <1>1, <1>2, <1>3

(* What settling leaves, if it leaves anything. *)
LEMMA SettledIs ==
  ASSUME TypeInv, NEW b \in Bindings \cup {NoBinding},
         NEW entry \in Entry, Shaped(entry),
         NEW firing \in Firing, firing.attempt > 0, NEW outcome \in Outcomes,
         Settled(b, entry, firing, outcome) # NoEntry
  PROVE  LET f == Settled(b, entry, firing, outcome)
             c == CaughtUp(entry)
             e == Concluded(c)
             queued == RetryQueued(b, e, firing, outcome)
         IN  /\ f.spec = entry.spec /\ f.epoch = entry.epoch
             /\ e.spec = entry.spec /\ e.missed = c.missed /\ e.retry = c.retry
             /\ e.spent = entry.spent /\ f.spent = entry.spent
             /\ Unheard(b, e, firing, outcome) \in Nat
             /\ f.missed = c.missed + Unheard(b, e, firing, outcome)
             /\ f.due = e.due /\ f.overtaken = e.overtaken
             /\ e.due \in Due /\ e.due = IF IsOnce(entry.spec) THEN Never ELSE c.due
             /\ e.overtaken = IF IsOnce(entry.spec) THEN FALSE ELSE c.overtaken
             /\ queued => /\ f.retry.due = mono + Backoff(b, firing)
                          /\ f.retry.firing = firing
                          /\ Backoff(b, firing) \in Nat
             /\ ~queued => f.retry = c.retry
             /\ IsOnce(entry.spec) => queued
<1> DEFINE c == CaughtUp(entry)
           e == Concluded(c)
           queued == RetryQueued(b, e, firing, outcome)
           u == Unheard(b, e, firing, outcome)
           n == e.missed + u
           q == [due |-> mono + Backoff(b, firing), firing |-> firing]
           r == IF queued THEN q ELSE e.retry
           f == Settled(b, entry, firing, outcome)
<1>1. c \in Entry /\ Shaped(c) /\ c.spec = entry.spec /\ c.epoch = entry.epoch
        /\ c.spent = entry.spent
  BY CaughtUpIs
<1>2. /\ e \in Entry /\ e.spec = c.spec /\ e.epoch = c.epoch
      /\ e.missed = c.missed /\ e.retry = c.retry /\ e.spent = c.spent
      /\ e.due \in Due /\ e.due = IF IsOnce(c.spec) THEN Never ELSE c.due
      /\ e.overtaken = IF IsOnce(c.spec) THEN FALSE ELSE c.overtaken
  <2> HIDE DEF c
  <2>1. e \in Entry /\ e.spec = c.spec /\ e.epoch = c.epoch
    BY <1>1, ConcludedEntry
  <2>2. CASE IsOnce(c.spec)
    <3>1. e = [c EXCEPT !.due = Never, !.overtaken = FALSE]
      BY <2>2 DEF Concluded
    <3> HIDE DEF e
    <3> QED
      BY <1>1, <2>1, <2>2, <3>1 DEF Entry
  <2>3. CASE ~IsOnce(c.spec)
    <3>1. e = c
      BY <2>3 DEF Concluded
    <3> QED
      BY <1>1, <2>3, <3>1 DEF Entry
  <2> QED
    BY <2>2, <2>3
<1>3. /\ ~(IsOnce(e.spec) /\ ~queued)
      /\ f = [e EXCEPT !.missed = n, !.retry = r]
  <2> HIDE DEF c
  <2>1. f = IF IsOnce(e.spec) /\ ~queued THEN NoEntry
            ELSE [e EXCEPT !.missed = @ + Unheard(b, e, firing, outcome),
                           !.retry = IF queued THEN q ELSE @]
    BY DEF Settled, c
  <2>2. ~(IsOnce(e.spec) /\ ~queued)
    BY <2>1
  <2> HIDE DEF e, queued
  <2> QED
    BY <1>2, <2>1, <2>2 DEF Entry
<1>4. u \in Nat
  <2> HIDE DEF e
  <2> QED
    BY DEF Unheard, Outcomes, Firing
<1>5. ASSUME queued PROVE q.due = mono + Backoff(b, firing) /\ Backoff(b, firing) \in Nat
  <2>1. firing.attempt < b.maxAttempts
    BY <1>5 DEF RetryQueued
  <2> QED
    BY <2>1, BackoffType
<1>6. /\ queued => r = q
      /\ ~queued => r = e.retry
  OBVIOUS
<1>7. q.firing = firing
  OBVIOUS
<1> HIDE DEF c, e, queued, u, q, r, f
<1>8. /\ f.spec = e.spec /\ f.epoch = e.epoch /\ f.due = e.due /\ f.spent = e.spent
      /\ f.overtaken = e.overtaken /\ f.retry = r /\ f.missed = n
  <2> HIDE DEF n
  <2> QED
    BY <1>2, <1>3 DEF Entry
<1> QED
  BY <1>1, <1>2, <1>3, <1>4, <1>5, <1>6, <1>7, <1>8 DEF c, e, queued, u, f

LEMMA PolledIs ==
  ASSUME TypeInv, NEW s \in Slot, Held(s)
  PROVE  LET r == Rescheduled(entries[s])
             f == Polled(s)
         IN  /\ f \in Entry /\ f.spec = r.spec /\ f.epoch = r.epoch
             /\ DueAtPoll(s) => IsDue(r) /\ Occurrence(r).skipped \in Nat
             /\ Fires(s) =>
                  /\ f.due = Advanced(r).due /\ f.retry = NoRetry
                  /\ f.missed = 0 /\ ~f.overtaken
                  /\ f.spent = Advanced(r).spent
             /\ Overruns(s) =>
                  /\ f.due = Advanced(r).due /\ f.retry = NoRetry
                  /\ f.missed = r.missed + Skipped(r) + 1 /\ f.overtaken
             /\ Redelivers(s) =>
                  /\ f.due = r.due /\ f.retry = NoRetry
                  /\ f.missed = r.missed /\ f.overtaken = r.overtaken
             /\ ~Fires(s) /\ ~Overruns(s) /\ ~Redelivers(s) => f = r
             /\ ~Fires(s) => f.spent = r.spent
<1> DEFINE r == Rescheduled(entries[s])
           v == Advanced(r)
           a == [v EXCEPT !.retry = NoRetry]
           n == r.missed + Skipped(r) + 1
           f == Polled(s)
<1>1. /\ r \in Entry /\ Shaped(r) /\ r.spec = entries[s].spec
      /\ r.epoch = entries[s].epoch /\ r.spent = entries[s].spent
  BY HeldEntry, RescheduledIs
<1>2. Moved(entries[s], f) /\ (~Fires(s) => f.spent = entries[s].spent)
  BY PolledMoves
<1>3. ASSUME DueAtPoll(s)
      PROVE  /\ IsDue(r) /\ Occurrence(r).skipped \in Nat /\ Skipped(r) \in Nat
             /\ v \in Entry /\ v.missed = r.missed
  <2>1. IsDue(r)
    BY <1>3 DEF DueAtPoll
  <2> HIDE DEF r
  <2>2. Occurrence(r).skipped \in Nat /\ v \in Entry /\ v.missed = r.missed
    BY <1>1, <2>1, AdvancedIs, DueEntry DEF TypeInv, TypeOK
  <2> QED
    BY <2>1, <2>2 DEF Skipped
<1>4. ASSUME Fires(s)
      PROVE  /\ f.due = v.due /\ f.retry = NoRetry /\ f.spent = v.spent
             /\ f.missed = 0 /\ ~f.overtaken
  <2>1. f = [a EXCEPT !.missed = 0, !.overtaken = FALSE] /\ v \in Entry
    BY <1>3, <1>4 DEF Polled, Fires, Overruns, Redelivers
  <2> HIDE DEF v, f
  <2> QED
    BY <2>1 DEF Entry
<1>5. ASSUME Overruns(s)
      PROVE  /\ f.due = v.due /\ f.retry = NoRetry
             /\ f.missed = n /\ f.overtaken
  <2>1. f = [a EXCEPT !.missed = @ + Skipped(r) + 1, !.overtaken = TRUE]
    BY <1>5 DEF Polled, Fires, Overruns, Redelivers
  <2>2. v \in Entry /\ v.missed = r.missed /\ a.missed = v.missed /\ a \in Entry
    BY <1>3, <1>5, NoRetryType DEF Overruns, Entry
  <2>3. f = [a EXCEPT !.missed = n, !.overtaken = TRUE]
    <3> HIDE DEF a, v, r, f
    <3> QED
      BY <2>1, <2>2 DEF Entry
  <2> HIDE DEF v, f, n
  <2> QED
    BY <2>2, <2>3 DEF Entry
<1>6. ASSUME Redelivers(s)
      PROVE  /\ f.due = r.due /\ f.retry = NoRetry
             /\ f.missed = r.missed /\ f.overtaken = r.overtaken
  <2>1. f = [r EXCEPT !.retry = NoRetry]
    BY <1>6 DEF Polled, Fires, Overruns, Redelivers
  <2> HIDE DEF r, f
  <2> QED
    BY <1>1, <2>1 DEF Entry
<1>7. ASSUME ~Fires(s), ~Overruns(s), ~Redelivers(s) PROVE f = r
  BY <1>7 DEF Polled
<1> HIDE DEF r, v, f
<1> QED
  BY <1>1, <1>2, <1>3, <1>4, <1>5, <1>6, <1>7
     DEF r, v, f, Moved, SameRegistration, Fires, Overruns, Redelivers

LEMMA NewEntryIs ==
  ASSUME NEW spec, NEW declared, NEW epoch
  PROVE  LET f == NewEntry(spec, declared, epoch)
         IN  /\ f.spec = spec /\ f.epoch = epoch /\ f.due = FirstDue(spec)
             /\ f.missed = 0 /\ f.retry = NoRetry /\ ~f.overtaken /\ ~f.spent
             /\ ~Pending(f)
  BY NoRetryType DEF NewEntry, Pending

LEMMA VoidedIs ==
  ASSUME NEW b, NEW e \in Entry, RetryVoided(b, e)
  PROVE  LET f == WithoutVoidedRetry(b, e)
         IN  /\ f.spec = e.spec /\ f.epoch = e.epoch /\ f.due = e.due
             /\ f.missed = e.missed + 1 /\ f.retry = NoRetry
             /\ f.overtaken = e.overtaken /\ f.spent = e.spent
<1>1. WithoutVoidedRetry(b, e) = [e EXCEPT !.retry = NoRetry, !.missed = @ + 1]
  BY DEF WithoutVoidedRetry
<1> QED
  BY <1>1 DEF Entry

-----------------------------------------------------------------------------
(***************************************************************************)
(* What a step leaves of a slot that is held after it.                     *)
(***************************************************************************)
Stays(s) ==
  /\ Held(s) /\ entries'[s] = entries[s] /\ ledger'[s] = ledger[s]
  /\ Running(s)' = Running(s)

Made(s) ==
  \E spec \in Specs, declared \in BOOLEAN, k \in Nat :
    /\ k > epochs /\ entries'[s] = NewEntry(spec, declared, k)
    /\ spec.kind = "interval" => spec.arg > 0
    /\ ledger'[s] = Opened(spec) /\ Running(s)' = {}

(* A new binding voided the retry of a schedule that repeats. *)
Voided(s) ==
  /\ Held(s) /\ Pending(entries[s]) /\ ~IsOnce(entries[s].spec)
  /\ \E b \in Bindings :
       RetryVoided(b, entries[s]) /\ entries'[s] = WithoutVoidedRetry(b, entries[s])
  /\ ledger'[s] = ledger[s] /\ Running(s)' = Running(s)

PolledAt(s) ==
  /\ Held(s) /\ entries'[s] = Polled(s)
  /\ ledger'[s] = [ledger[s] EXCEPT !.reset =
                     @ \/ Rescheduled(entries[s]) # entries[s]]
  /\ \/ /\ Fires(s) /\ Running(s) = {}
        /\ \E S \in SUBSET Slot : Running(s)' = {DispatchOf(s, Fresh(S, s))}
     \/ /\ Redelivers(s) /\ Running(s) = {}
        /\ Running(s)' = {DispatchOf(s, Again(s))}
     \/ /\ ~Fires(s) /\ ~Redelivers(s)
        /\ Running(s)' = Running(s)

(* A completion from before the entry. *)
Stale(s) ==
  /\ Held(s) /\ entries'[s] = CaughtUp(entries[s])
  /\ ledger'[s] = [ledger[s] EXCEPT !.lost =
       IF Pending(entries[s]) /\ ~Pending(CaughtUp(entries[s])) THEN @ + 1 ELSE @]
  /\ Running(s)' = Running(s)

SettledAt(s) ==
  \E b \in Bindings, d \in inflight, outcome \in Outcomes :
    /\ Held(s) /\ entries'[s] = Settled(b, entries[s], d.firing, outcome)
    /\ ledger'[s] = Noted(ledger[s], d.firing, outcome)
    /\ Running(s) = {d} /\ Running(s)' = {}

Evolves(s) ==
  \/ Stays(s)
  \/ /\ UNCHANGED clocks
     /\ Made(s) \/ Voided(s) \/ PolledAt(s) \/ Stale(s) \/ SettledAt(s)

LEMMA RunningStays ==
  ASSUME NEW s, UNCHANGED inflight, entries'[s].epoch = entries[s].epoch
  PROVE  Running(s)' = Running(s)
  BY DEF Running

LEMMA NoneRuns ==
  ASSUME TypeInv, OverlapInv, UNCHANGED inflight, NEW s,
         entries'[s].epoch \in Nat, entries'[s].epoch > epochs
  PROVE  Running(s)' = {}
<1>1. \A d \in inflight : d.epoch \in Nat /\ d.epoch <= epochs
  BY DEF TypeInv, TypeOK, Dispatch, OverlapInv, EpochsBelow
<1>2. epochs \in Nat
  BY DEF TypeInv, TypeOK
<1>3. \A d \in inflight : d.epoch # entries'[s].epoch
  <2> SUFFICES ASSUME NEW d \in inflight, d.epoch = entries'[s].epoch PROVE FALSE
    OBVIOUS
  <2> QED
    BY <1>1, <1>2
<1> QED
  BY <1>3 DEF Running

LEMMA BindEvolves ==
  ASSUME TypeInv, OverlapInv, NEW w \in Workloads, NEW b \in Bindings, Bind(w, b),
         NEW s \in Slot, Held(s)'
  PROVE  Evolves(s)
<1>1. /\ inflight' = inflight /\ UNCHANGED clocks
      /\ ledger'[s] = IF s[1] # w \/ s[2] \in Kept(b, w) THEN ledger[s]
                      ELSE IF s[2] \in Created(b, w) THEN Opened(b.declared[s[2]])
                      ELSE Closed
  BY DEF Bind
<1>2. CASE s[1] # w
  <2>1. entries'[s] = entries[s]
    BY <1>2, BindSlots
  <2>2. Held(s) /\ Running(s)' = Running(s)
    BY <1>1, <2>1, RunningStays DEF Held
  <2> QED
    BY <1>1, <1>2, <2>1, <2>2 DEF Evolves, Stays
<1>3. CASE s[1] = w
  <2>1. PICK n \in Names : s = <<w, n>> /\ s[2] = n
    BY <1>3 DEF Slot
  <2>2. CASE n \in Kept(b, w)
    <3>1. /\ entries'[s] = WithoutVoidedRetry(b, entries[s])
          /\ Held(s) /\ ledger'[s] = ledger[s]
          /\ ~(RetryVoided(b, entries[s]) /\ IsOnce(entries[s].spec))
      BY <1>1, <2>1, <2>2, BindSlots DEF Kept, Permitted
    <3>2. entries[s] \in Entry
      BY <3>1, HeldEntry
    <3>3. CASE RetryVoided(b, entries[s])
      <4>1. entries'[s].epoch = entries[s].epoch
        BY <3>1, <3>2, <3>3, VoidedIs
      <4>2. Running(s)' = Running(s)
        BY <1>1, <4>1, RunningStays
      <4>3. Pending(entries[s])
        BY <3>3 DEF RetryVoided
      <4> QED
        BY <1>1, <3>1, <3>3, <4>2, <4>3 DEF Evolves, Voided
    <3>4. CASE ~RetryVoided(b, entries[s])
      <4>1. entries'[s] = entries[s]
        BY <3>1, <3>4 DEF WithoutVoidedRetry
      <4>2. Running(s)' = Running(s)
        BY <1>1, <4>1, RunningStays
      <4> QED
        BY <3>1, <4>1, <4>2 DEF Evolves, Stays
    <3> QED
      BY <3>3, <3>4
  <2>3. CASE n \in Created(b, w) /\ n \notin Kept(b, w)
    <3> DEFINE k == epochs + Cardinality({m \in Created(b, w) : m <= n})
    <3>1. /\ entries'[s] = NewEntry(b.declared[n], TRUE, k)
          /\ ledger'[s] = Opened(b.declared[n])
      <4>1. entries'[<<w, n>>] = NewEntry(b.declared[n], TRUE, k)
        BY <2>3, BindSlots
      <4>2. ledger'[s] = Opened(b.declared[n])
        BY <1>1, <1>3, <2>1, <2>3
      <4> QED
        BY <2>1, <4>1, <4>2
    <3>2. entries'[s].epoch = k /\ k > epochs
      BY <2>1, <2>3, <3>1, MadeEntry DEF NewEntry
    <3>3. n \in DOMAIN b.declared
      BY <2>3 DEF Created
    <3>4. b.declared[n] \in Specs /\ (b.declared[n].kind = "interval" => b.declared[n].arg > 0)
      BY <3>3, DeclaredTypes
    <3>5. k \in Nat
      <4>1. Cardinality({m \in Created(b, w) : m <= n}) \in Nat
        <5>1. {m \in Created(b, w) : m <= n} \in SUBSET Names
          BY DeclaredTypes DEF Created
        <5> QED
          BY <5>1, CountsNames
      <4> QED
        BY <4>1, EngineTypes
    <3> HIDE DEF k
    <3>6. Running(s)' = {}
      BY <1>1, <3>2, <3>5, NoneRuns
    <3>7. Made(s)
      BY <3>1, <3>2, <3>4, <3>5, <3>6 DEF Made
    <3> QED
      BY <1>1, <3>7 DEF Evolves
  <2>4. CASE n \notin Created(b, w) /\ n \notin Kept(b, w)
    BY <2>1, <2>4, BindSlots DEF Held
  <2> QED
    BY <2>2, <2>3, <2>4
<1> QED
  BY <1>2, <1>3

LEMMA RegisterEvolves ==
  ASSUME TypeInv, OverlapInv, NEW t \in Slot, NEW spec \in Specs, Register(t, spec),
         NEW s \in Slot, Held(s)'
  PROVE  Evolves(s)
<1>1. /\ inflight' = inflight /\ UNCHANGED clocks /\ epochs \in Nat
      /\ entries' = [entries EXCEPT ![t] = NewEntry(spec, FALSE, epochs + 1)]
      /\ ledger' = [ledger EXCEPT ![t] = Opened(spec)]
      /\ entries \in [Slot -> Entry \cup {NoEntry}] /\ ledger \in [Slot -> Ledger]
  BY DEF Register, TypeInv, TypeOK
<1>2. CASE s # t
  <2>1. entries'[s] = entries[s] /\ ledger'[s] = ledger[s]
    BY <1>1, <1>2
  <2>2. Held(s) /\ Running(s)' = Running(s)
    BY <1>1, <2>1, RunningStays DEF Held
  <2> QED
    BY <2>1, <2>2 DEF Evolves, Stays
<1>3. CASE s = t
  <2> DEFINE made == NewEntry(spec, FALSE, epochs + 1)
             opened == Opened(spec)
  <2>0. made.epoch = epochs + 1
    BY DEF NewEntry
  <2>1. entries'[s] = made /\ ledger'[s] = opened
    <3>1. /\ entries' = [entries EXCEPT ![s] = made]
          /\ ledger' = [ledger EXCEPT ![s] = opened]
      BY <1>1, <1>3
    <3> HIDE DEF made, opened
    <3> QED
      BY <1>1, <3>1
  <2>2. entries'[s].epoch = epochs + 1
    BY <2>0, <2>1
  <2>3. Running(s)' = {}
    <3>1. UNCHANGED inflight
      BY <1>1
    <3>2. entries'[s].epoch \in Nat /\ entries'[s].epoch > epochs
      <4>1. epochs \in Nat
        BY <1>1
      <4> QED
        BY <2>2, <4>1
    <3> QED
      BY <3>1, <3>2, NoneRuns
  <2>4. spec.kind = "interval" => spec.arg > 0
    <3>1. ~(spec.kind = "interval" /\ spec.arg = 0)
      BY DEF Register
    <3> QED
      BY <3>1, SpecTypes, SpecsAssumption
  <2>5. epochs + 1 \in Nat /\ epochs + 1 > epochs
    BY <1>1
  <2>6. Made(s)
    BY <2>1, <2>3, <2>4, <2>5 DEF Made
  <2> QED
    BY <1>1, <2>6 DEF Evolves
<1> QED
  BY <1>2, <1>3

LEMMA UnregisterEvolves ==
  ASSUME TypeInv, NEW t \in Slot, Unregister(t), NEW s \in Slot, Held(s)'
  PROVE  Evolves(s)
<1>1. /\ inflight' = inflight
      /\ entries' = [entries EXCEPT ![t] = NoEntry]
      /\ ledger' = [ledger EXCEPT ![t] = Closed]
      /\ entries \in [Slot -> Entry \cup {NoEntry}] /\ ledger \in [Slot -> Ledger]
  BY DEF Unregister, TypeInv, TypeOK
<1>2. s # t
  BY <1>1 DEF Held
<1>3. entries'[s] = entries[s] /\ ledger'[s] = ledger[s]
  BY <1>1, <1>2
<1>4. Held(s) /\ Running(s)' = Running(s)
  BY <1>1, <1>3, RunningStays DEF Held
<1> QED
  BY <1>3, <1>4 DEF Evolves, Stays

LEMMA UnbindEvolves ==
  ASSUME TypeInv, NEW w \in Workloads, Unbind(w), NEW s \in Slot, Held(s)'
  PROVE  Evolves(s)
<1> DEFINE Ended(c) == IF c.slot[1] = w THEN [c EXCEPT !.live = FALSE] ELSE c
<1>1. /\ inflight' = { Ended(d) : d \in inflight }
      /\ entries'[s] = IF s[1] = w THEN NoEntry ELSE entries[s]
      /\ ledger'[s] = IF s[1] = w THEN Closed ELSE ledger[s]
  BY DEF Unbind
<1>2. s[1] # w
  BY <1>1 DEF Held
<1>3. entries'[s] = entries[s] /\ ledger'[s] = ledger[s] /\ Held(s)
  BY <1>1, <1>2 DEF Held
<1>4. \A d \in inflight : Ended(d).slot = d.slot /\ (d.slot = s => Ended(d) = d)
  BY <1>2 DEF TypeInv, TypeOK, Dispatch
<1>5. Running(s)' = Running(s)
  <2> HIDE DEF Ended
  <2> QED
    BY <1>1, <1>3, <1>4 DEF Running
<1> QED
  BY <1>3, <1>5 DEF Evolves, Stays

LEMMA PollEvolves ==
  ASSUME TypeInv, OverlapInv, Poll, NEW s \in Slot, Held(s)'
  PROVE  Evolves(s)
<1> DEFINE fresh == { r \in Slot : Fires(r) }
           again == { r \in Slot : Redelivers(r) }
           first(r) == DispatchOf(r, Fresh(fresh, r))
           next(r) == DispatchOf(r, Again(r))
<1>1. /\ entries'[s] = Polled(s) /\ UNCHANGED clocks
      /\ ledger'[s] = [ledger[s] EXCEPT !.reset =
                         @ \/ (Held(s) /\ Rescheduled(entries[s]) # entries[s])]
      /\ inflight' = inflight \cup { first(r) : r \in fresh }
                              \cup { next(r) : r \in again }
  BY DEF Poll
<1>2. Held(s)
  BY <1>1, PolledSlot DEF Held
<1>3. entries'[s].epoch = entries[s].epoch
  BY <1>1, <1>2, PolledSlot
<1>4. \A r, f : /\ DispatchOf(r, f).slot = r /\ DispatchOf(r, f).live
                /\ DispatchOf(r, f).epoch = entries[r].epoch
  BY DEF DispatchOf
<1>5. Running(s)' = Running(s) \cup (IF Fires(s) THEN {first(s)} ELSE {})
                               \cup (IF Redelivers(s) THEN {next(s)} ELSE {})
  <2>1. \A r \in fresh : /\ first(r).slot = r /\ first(r).live
                         /\ first(r).epoch = entries[r].epoch
    BY <1>4
  <2>2. \A r \in again : /\ next(r).slot = r /\ next(r).live
                         /\ next(r).epoch = entries[r].epoch
    BY <1>4
  <2>3. Running(s)' = { d \in inflight' :
                          d.live /\ d.slot = s /\ d.epoch = entries[s].epoch }
    BY <1>3 DEF Running
  <2>4. (s \in fresh <=> Fires(s)) /\ (s \in again <=> Redelivers(s))
    OBVIOUS
  <2> HIDE DEF first, next, fresh, again
  <2> QED
    BY <1>1, <2>1, <2>2, <2>3, <2>4 DEF Running
<1>6. ASSUME Fires(s) \/ Redelivers(s) PROVE Running(s) = {}
  <2>1. busy[s] = 0
    BY <1>6 DEF Fires, Redelivers
  <2>2. \A d \in Running(s) : d.epoch = busy[s] /\ d.epoch # 0
    BY DEF Running, OverlapInv, LiveOccupies, TypeInv, TypeOK, Dispatch
  <2> QED
    BY <2>1, <2>2
<1>7. ~(Fires(s) /\ Redelivers(s))
  BY DEF Fires, Redelivers
<1>8. fresh \in SUBSET Slot
  OBVIOUS
<1>9. ledger'[s] = [ledger[s] EXCEPT !.reset =
                      @ \/ Rescheduled(entries[s]) # entries[s]]
  BY <1>1, <1>2
<1>10. CASE Fires(s)
  <2>1. Running(s) = {} /\ Running(s)' = {DispatchOf(s, Fresh(fresh, s))}
    BY <1>5, <1>6, <1>7, <1>10
  <2> HIDE DEF fresh
  <2>2. PolledAt(s)
    BY <1>1, <1>2, <1>8, <1>9, <1>10, <2>1 DEF PolledAt
  <2> QED
    BY <1>1, <2>2 DEF Evolves
<1>11. CASE Redelivers(s)
  <2>1. Running(s) = {} /\ Running(s)' = {DispatchOf(s, Again(s))}
    BY <1>5, <1>6, <1>7, <1>11
  <2>2. PolledAt(s)
    BY <1>1, <1>2, <1>9, <1>11, <2>1 DEF PolledAt
  <2> QED
    BY <1>1, <2>2 DEF Evolves
<1>12. CASE ~Fires(s) /\ ~Redelivers(s)
  <2>1. Running(s)' = Running(s)
    BY <1>5, <1>12
  <2>2. PolledAt(s)
    BY <1>1, <1>2, <1>9, <1>12, <2>1 DEF PolledAt
  <2> QED
    BY <1>1, <2>2 DEF Evolves
<1> QED
  BY <1>10, <1>11, <1>12

LEMMA CompleteEvolves ==
  ASSUME TypeInv, OverlapInv, GrantInv,
         NEW d \in inflight, NEW outcome \in Outcomes, Complete(d, outcome),
         NEW s \in Slot, Held(s)'
  PROVE  Evolves(s)
<1>1. /\ inflight' = inflight \ {d} /\ UNCHANGED clocks
      /\ CompleteUnbound(d) \/ CompleteStale(d) \/ CompleteCurrent(d, outcome)
  BY DEF Complete
<1>2. d.slot \in Slot /\ d.firing \in Firing
  BY DEF TypeInv, TypeOK, Dispatch
<1>3. ASSUME s = d.slot => ~Held(s) \/ entries[s].epoch # d.epoch,
             Held(s), entries'[s].epoch = entries[s].epoch
      PROVE  Running(s)' = Running(s)
  BY <1>1, <1>3 DEF Running
<1>4. CASE CompleteUnbound(d)
  <2>1. entries'[s] = entries[s] /\ ledger'[s] = ledger[s] /\ Held(s)
    BY <1>4 DEF CompleteUnbound, Held
  <2>2. s # d.slot
    BY <1>4, <2>1 DEF CompleteUnbound, OverlapInv, EpochsBelow
  <2>3. Running(s)' = Running(s)
    BY <1>3, <2>1, <2>2
  <2> QED
    BY <2>1, <2>3 DEF Evolves, Stays
<1>5. ASSUME s # d.slot, CompleteStale(d) \/ CompleteCurrent(d, outcome)
      PROVE  Evolves(s)
  <2>1. entries'[s] = entries[s] /\ ledger'[s] = ledger[s]
    BY <1>5 DEF CompleteStale, CompleteCurrent, TypeInv, TypeOK
  <2>2. Held(s)
    BY <2>1 DEF Held
  <2>3. Running(s)' = Running(s)
    BY <1>3, <1>5, <2>1, <2>2
  <2> QED
    BY <2>1, <2>2, <2>3 DEF Evolves, Stays
<1>6. ASSUME s = d.slot, CompleteStale(d) PROVE Evolves(s)
  <2> DEFINE lost == IF Held(s) /\ Pending(entries[s]) /\ ~Pending(CaughtUp(entries[s]))
                     THEN ledger[s].lost + 1 ELSE ledger[s].lost
  <2>1. /\ entries'[s] = IF Held(s) THEN CaughtUp(entries[s]) ELSE entries[s]
        /\ ~Held(s) \/ entries[s].epoch # d.epoch
    BY <1>2, <1>6, EngineTypes DEF CompleteStale
  <2>2. Held(s)
    BY <2>1 DEF Held
  <2>3. ledger'[s] = [ledger[s] EXCEPT !.lost =
           IF Pending(entries[s]) /\ ~Pending(CaughtUp(entries[s])) THEN @ + 1 ELSE @]
    <3>1. ledger' = [ledger EXCEPT ![s].lost =
             IF Pending(entries[s]) /\ ~Pending(CaughtUp(entries[s])) THEN @ + 1 ELSE @]
      BY <1>6, <2>2 DEF CompleteStale
    <3>2. s \in DOMAIN ledger
      BY DEF TypeInv, TypeOK
    <3> QED
      BY <3>1, <3>2
  <2>4. entries'[s].epoch = entries[s].epoch
    BY <2>1, <2>2, HeldEntry, CaughtUpIs
  <2>5. Running(s)' = Running(s)
    BY <1>3, <2>1, <2>2, <2>4
  <2>6. Stale(s)
    BY <2>1, <2>2, <2>3, <2>5 DEF Stale
  <2> QED
    BY <1>1, <2>6 DEF Evolves
<1>7. ASSUME s = d.slot, CompleteCurrent(d, outcome) PROVE Evolves(s)
  <2> DEFINE b == binding[s[1]]
             f == Settled(b, entries[s], d.firing, outcome)
  <2>1. /\ s[1] \in bound /\ Held(s) /\ entries[s].epoch = d.epoch
        /\ entries'[s] = f
    BY <1>2, <1>7, EngineTypes DEF CompleteCurrent
  <2>2. ledger'[s] = Noted(ledger[s], d.firing, outcome)
    <3>1. entries'[s] # NoEntry
      BY DEF Held
    <3>2. ledger' = [ledger EXCEPT ![s] = IF entries'[s] = NoEntry THEN Closed
                                          ELSE Noted(@, d.firing, outcome)]
      BY <1>7 DEF CompleteCurrent
    <3>3. s \in DOMAIN ledger
      BY DEF TypeInv, TypeOK
    <3> QED
      BY <3>1, <3>2, <3>3
  <2>3. b \in Bindings
    BY <2>1 DEF GrantInv, BoundByBindings
  <2>4. d.live
    BY <1>7, <2>1 DEF OverlapInv, DeadForgotten
  <2>5. Running(s) = {d}
    BY <1>7, <2>1, <2>4 DEF Running, OverlapInv, NoOverlap
  <2>6. Running(s)' = {}
    <3>1. f.epoch = entries[s].epoch
      <4>1. f # NoEntry
        BY <2>1 DEF Held
      <4>2. entries[s] \in Entry /\ Shaped(entries[s]) /\ d.firing.attempt > 0
        BY <2>1, HeldEntry DEF TypeInv, WellFormed
      <4>3. b \in Bindings \cup {NoBinding}
        BY <2>3
      <4> HIDE DEF b
      <4> QED
        BY <1>2, <4>1, <4>2, <4>3, SettledIs
    <3> HIDE DEF f
    <3> QED
      BY <1>1, <2>1, <2>5, <3>1 DEF Running
  <2>7. SettledAt(s)
    <3> HIDE DEF b
    <3> QED
      BY <2>1, <2>2, <2>3, <2>5, <2>6 DEF SettledAt
  <2> QED
    BY <1>1, <2>7 DEF Evolves
<1> QED
  BY <1>1, <1>4, <1>5, <1>6, <1>7

LEMMA RestEvolves ==
  ASSUME UNCHANGED << engine, inflight, ledger >>, NEW s \in Slot, Held(s)'
  PROVE  Evolves(s)
<1>1. entries' = entries /\ inflight' = inflight /\ ledger' = ledger
  BY DEF engine
<1>2. Held(s) /\ Running(s)' = Running(s)
  BY <1>1 DEF Held, Running
<1> QED
  BY <1>1, <1>2 DEF Evolves, Stays

LEMMA SlotEvolves ==
  ASSUME TypeInv, OverlapInv, GrantInv, [Next]_vars
  PROVE  \A s \in Slot : Held(s)' => Evolves(s)
<1> SUFFICES ASSUME NEW s \in Slot, Held(s)' PROVE Evolves(s)
  OBVIOUS
<1>1. CASE Tick
  <2>1. UNCHANGED << engine, inflight, ledger >>
    BY <1>1 DEF Tick
  <2> QED
    BY <2>1, RestEvolves
<1>2. ASSUME NEW delta \in ClockSteps, StepClock(delta) PROVE Evolves(s)
  <2>1. UNCHANGED << engine, inflight, ledger >>
    BY <1>2 DEF StepClock
  <2> QED
    BY <2>1, RestEvolves
<1>3. ASSUME NEW w \in Workloads, NEW b \in Bindings, Bind(w, b) PROVE Evolves(s)
  BY <1>3, BindEvolves
<1>4. ASSUME NEW w \in Workloads, Unbind(w) PROVE Evolves(s)
  BY <1>4, UnbindEvolves
<1>5. ASSUME NEW t \in Slot, NEW spec \in Specs, Register(t, spec) PROVE Evolves(s)
  BY <1>5, RegisterEvolves
<1>6. ASSUME NEW t \in Slot, Unregister(t) PROVE Evolves(s)
  BY <1>6, UnregisterEvolves
<1>7. CASE Poll
  BY <1>7, PollEvolves
<1>8. ASSUME NEW d \in inflight, NEW outcome \in Outcomes, Complete(d, outcome)
      PROVE  Evolves(s)
  BY <1>8, CompleteEvolves
<1>9. CASE UNCHANGED vars
  <2>1. UNCHANGED << engine, inflight, ledger >>
    BY <1>9 DEF vars
  <2> QED
    BY <2>1, RestEvolves
<1> QED
  BY <1>1, <1>2, <1>3, <1>4, <1>5, <1>6, <1>7, <1>8, <1>9 DEF Next

-----------------------------------------------------------------------------
(***************************************************************************)
(* A retry belongs to the latest occurrence.  Inductive with it: while a   *)
(* delivery runs no retry is queued, and an occurrence is counted only     *)
(* with the mark that one has overtaken the handler, which is what bars    *)
(* the retry when the delivery is settled.                                 *)
(***************************************************************************)
Ahead(e) ==
  Pending(e) => /\ e.missed = 0 /\ ~e.overtaken
                /\ e.due.on = "mono" => e.retry.due < e.due.at

CountedIsOvertaken(e) == ~Pending(e) /\ (~e.overtaken => e.missed = 0)

OnceSkipsNone(e) == IsOnce(e.spec) => e.missed = 0 /\ ~e.overtaken

LatestInv ==
  \A s \in Slot :
    Held(s) => /\ Ahead(entries[s])
               /\ Running(s) # {} => CountedIsOvertaken(entries[s])
               /\ OnceSkipsNone(entries[s])

LEMMA RunningLatest ==
  ASSUME LatestInv, NEW s \in Slot, Held(s)
  PROVE  /\ Ahead(entries[s]) /\ OnceSkipsNone(entries[s])
         /\ Running(s) # {} => CountedIsOvertaken(entries[s])
  BY DEF LatestInv

LEMMA NextAfterOn ==
  ASSUME NEW c, NEW w PROVE NextAfter(c, w).on # "mono"
  BY DEF NextAfter, Never

LEMMA PolledLatest ==
  ASSUME TypeInv, LatestInv, NEW s \in Slot, PolledAt(s)
  PROVE  /\ Ahead(entries'[s]) /\ OnceSkipsNone(entries'[s])
         /\ Running(s)' # {} => CountedIsOvertaken(entries'[s])
<1> DEFINE e == entries[s]
           r == Rescheduled(e)
           f == entries'[s]
<1>1. e \in Entry /\ Shaped(e) /\ Held(s) /\ f = Polled(s)
  BY HeldEntry DEF PolledAt
<1>2. Ahead(e) /\ OnceSkipsNone(e) /\ (Running(s) # {} => CountedIsOvertaken(e))
  BY <1>1, RunningLatest
<1>3. /\ r.spec = e.spec /\ r.missed = e.missed /\ r.retry = e.retry
      /\ r.overtaken = e.overtaken /\ (r = e \/ r.due.on # "mono")
  <2> HIDE DEF e
  <2> QED
    BY <1>1, RescheduledIs, NextAfterOn
<1>4. f.spec = e.spec
  BY <1>1, <1>3, PolledIs
<1>5. CASE Fires(s)
  <2>1. f.retry = NoRetry /\ f.missed = 0 /\ ~f.overtaken
    BY <1>1, <1>5, PolledIs
  <2> QED
    BY <2>1, NoRetryType DEF Ahead, OnceSkipsNone, CountedIsOvertaken, Pending
<1>6. CASE Redelivers(s)
  <2>1. f.retry = NoRetry /\ f.missed = e.missed /\ f.overtaken = e.overtaken
    BY <1>1, <1>3, <1>6, PolledIs
  <2>2. Pending(e)
    BY <1>6 DEF Redelivers
  <2> HIDE DEF e
  <2> QED
    BY <1>2, <1>4, <2>1, <2>2, NoRetryType
       DEF Ahead, OnceSkipsNone, CountedIsOvertaken, Pending
<1>7. CASE Overruns(s)
  <2>1. f.retry = NoRetry /\ f.overtaken /\ ~IsOnce(e.spec)
    BY <1>1, <1>7, PolledIs DEF Overruns
  <2> HIDE DEF e
  <2> QED
    BY <1>4, <2>1, NoRetryType DEF Ahead, OnceSkipsNone, CountedIsOvertaken, Pending
<1>8. CASE ~Fires(s) /\ ~Overruns(s) /\ ~Redelivers(s)
  <2>1. f = r /\ Running(s)' = Running(s)
    BY <1>1, <1>8, PolledIs DEF PolledAt
  <2> HIDE DEF e, r
  <2> QED
    BY <1>2, <1>3, <2>1 DEF Ahead, OnceSkipsNone, CountedIsOvertaken, Pending
<1> QED
  BY <1>5, <1>6, <1>7, <1>8

LEMMA SettledLatest ==
  ASSUME TypeInv, LatestInv, NEW s \in Slot, Held(s)', SettledAt(s)
  PROVE  Ahead(entries'[s]) /\ OnceSkipsNone(entries'[s])
<1>1. PICK b \in Bindings, d \in inflight, outcome \in Outcomes :
        /\ Held(s) /\ entries'[s] = Settled(b, entries[s], d.firing, outcome)
        /\ Running(s) = {d}
  BY DEF SettledAt
<1> DEFINE e == entries[s]
           c == CaughtUp(e)
           g == Concluded(c)
           f == Settled(b, e, d.firing, outcome)
           queued == RetryQueued(b, g, d.firing, outcome)
<1>2. e \in Entry /\ Shaped(e) /\ entries'[s] = f /\ f # NoEntry
  BY <1>1, HeldEntry DEF Held
<1>3. d.firing \in Firing /\ d.firing.attempt > 0 /\ b \in Bindings \cup {NoBinding}
  BY DEF TypeInv, TypeOK, WellFormed, Dispatch
<1>4. CountedIsOvertaken(e) /\ OnceSkipsNone(e)
  BY <1>1, RunningLatest
<1>5. /\ ~Pending(c) /\ (c.overtaken \/ c.missed = 0)
      /\ IsOnce(e.spec) => c.missed = 0 /\ ~c.overtaken
  <2>1. \/ c = e
        \/ c.retry = NoRetry /\ c.overtaken /\ ~IsOnce(e.spec)
    <3> HIDE DEF e
    <3> QED
      BY <1>2, CaughtUpIs
  <2> HIDE DEF e, c
  <2> QED
    BY <1>4, <2>1, NoRetryType DEF CountedIsOvertaken, OnceSkipsNone, Pending
<1>6. /\ f.spec = e.spec /\ g.missed = c.missed
      /\ f.missed = c.missed + Unheard(b, g, d.firing, outcome)
      /\ Unheard(b, g, d.firing, outcome) \in Nat
      /\ f.due = g.due /\ f.overtaken = g.overtaken /\ g.due \in Due
      /\ g.overtaken = IF IsOnce(e.spec) THEN FALSE ELSE c.overtaken
      /\ queued => /\ f.retry.due = mono + Backoff(b, d.firing)
                   /\ Backoff(b, d.firing) \in Nat
      /\ ~queued => f.retry = c.retry
      /\ IsOnce(e.spec) => queued
  <2> HIDE DEF e
  <2> QED
    BY <1>2, <1>3, SettledIs
<1> HIDE DEF f
<1>7. CASE queued
  <2>1. /\ Unheard(b, g, d.firing, outcome) = 0
        /\ ~g.overtaken
        /\ g.due # Never => Backoff(b, d.firing) < UntilDue(g)
    <3>1. outcome = "retry" /\ ~Superseded(b, g, d.firing)
      BY <1>7 DEF RetryQueued
    <3>2. Unheard(b, g, d.firing, outcome) = 0
      BY <1>7, <3>1 DEF Unheard
    <3>3. UntilDue(g) \in Int
      <4> HIDE DEF g
      <4> QED
        BY <1>6 DEF UntilDue, UpTo, ClockOf, Due, TypeInv, TypeOK
    <3> HIDE DEF g
    <3> QED
      BY <1>6, <1>7, <3>1, <3>2, <3>3 DEF Superseded
  <2>2. f.missed = 0 /\ ~f.overtaken
    <3> HIDE DEF c, g, e, queued
    <3>1. c.missed = 0
      BY <1>5, <1>6, <2>1
    <3> QED
      BY <1>6, <2>1, <3>1
  <2>3. ASSUME f.due.on = "mono" PROVE f.retry.due < f.due.at
    <3>1. g.due # Never /\ g.due.on = "mono" /\ g.due.at \in Int
      BY <1>6, <2>3 DEF Never, Due
    <3>2. UntilDue(g) = IF mono <= g.due.at THEN g.due.at - mono ELSE 0
      BY <3>1 DEF UntilDue, UpTo, ClockOf
    <3>3. mono \in Nat
      BY DEF TypeInv, TypeOK
    <3>4. f.due.at = g.due.at
      BY <1>6
    <3>5. f.retry.due = mono + Backoff(b, d.firing) /\ Backoff(b, d.firing) \in Nat
      BY <1>6, <1>7
    <3> DEFINE k == Backoff(b, d.firing)  u == UntilDue(g)
    <3>6. k < u
      BY <2>1, <3>1
    <3> HIDE DEF k, u, g
    <3> QED
      BY <3>1, <3>2, <3>3, <3>4, <3>5, <3>6 DEF k, u
  <2> QED
    BY <1>2, <2>2, <2>3 DEF Ahead, OnceSkipsNone
<1>8. CASE ~queued
  <2>1. ~Pending(f) /\ ~IsOnce(f.spec)
    BY <1>5, <1>6, <1>8 DEF Pending
  <2> QED
    BY <1>2, <2>1 DEF Ahead, OnceSkipsNone
<1> QED
  BY <1>7, <1>8

LEMMA LatestStep ==
  TypeInv /\ OverlapInv /\ GrantInv /\ LatestInv /\ [Next]_vars => LatestInv'
<1> SUFFICES ASSUME TypeInv, OverlapInv, GrantInv, LatestInv, [Next]_vars,
                    NEW s \in Slot, Held(s)'
             PROVE  /\ Ahead(entries'[s]) /\ OnceSkipsNone(entries'[s])
                    /\ Running(s)' # {} => CountedIsOvertaken(entries'[s])
  BY DEF LatestInv, Ahead, OnceSkipsNone, CountedIsOvertaken, Pending
<1>1. Evolves(s)
  BY SlotEvolves
<1>2. CASE Stays(s)
  BY <1>2, RunningLatest DEF Stays
<1>3. CASE Made(s)
  <2>1. PICK spec \in Specs, declared \in BOOLEAN, k \in Nat :
          entries'[s] = NewEntry(spec, declared, k) /\ Running(s)' = {}
    BY <1>3 DEF Made
  <2> DEFINE f == NewEntry(spec, declared, k)
  <2>2. f.missed = 0 /\ ~f.overtaken /\ ~Pending(f)
    BY NewEntryIs
  <2> HIDE DEF f
  <2>3. Ahead(f) /\ OnceSkipsNone(f)
    BY <2>2 DEF Ahead, OnceSkipsNone
  <2> QED
    BY <2>1, <2>3 DEF f
<1>4. CASE Voided(s)
  <2>1. PICK b \in Bindings :
          RetryVoided(b, entries[s]) /\ entries'[s] = WithoutVoidedRetry(b, entries[s])
    BY <1>4 DEF Voided
  <2>2. /\ Held(s) /\ Pending(entries[s]) /\ ~IsOnce(entries[s].spec)
        /\ Running(s)' = Running(s)
    BY <1>4 DEF Voided
  <2>3. Running(s)' = {}
    BY <2>2, RunningLatest DEF CountedIsOvertaken
  <2>4. entries'[s].spec = entries[s].spec /\ entries'[s].retry = NoRetry
    BY <2>1, <2>2, HeldEntry, VoidedIs
  <2> QED
    BY <2>2, <2>3, <2>4, NoRetryType DEF Ahead, OnceSkipsNone, Pending
<1>5. CASE PolledAt(s)
  BY <1>5, PolledLatest
<1>6. CASE Stale(s)
  <2>1. Held(s) /\ entries'[s] = CaughtUp(entries[s]) /\ Running(s)' = Running(s)
    BY <1>6 DEF Stale
  <2>2. \/ entries'[s] = entries[s]
        \/ /\ ~IsOnce(entries[s].spec) /\ entries'[s].spec = entries[s].spec
           /\ entries'[s].retry = NoRetry /\ entries'[s].overtaken
    BY <2>1, HeldEntry, CaughtUpIs
  <2> QED
    BY <2>1, <2>2, RunningLatest, NoRetryType
       DEF Ahead, OnceSkipsNone, CountedIsOvertaken, Pending
<1>7. CASE SettledAt(s)
  <2>1. Running(s)' = {}
    BY <1>7 DEF SettledAt
  <2> QED
    BY <1>7, <2>1, SettledLatest
<1> QED
  BY <1>1, <1>2, <1>3, <1>4, <1>5, <1>6, <1>7 DEF Evolves

(* RetryIsLatest is an invariant: a delivery that is made again is that of  *)
(* the schedule's most recent occurrence, none was missed after it, and    *)
(* the next mark is still ahead of it.                                     *)
THEOREM RetriesFollowTheLatest == Spec => []RetryIsLatest
<1>1. Init => LatestInv
  BY DEF Init, LatestInv, Held
<1>2. LatestInv => RetryIsLatest
  BY DEF LatestInv, RetryIsLatest, Ahead
<1> QED
  BY <1>1, <1>2, LatestStep, GrantInvariant, PTL DEF Spec

-----------------------------------------------------------------------------
(***************************************************************************)
(* The marks that each kind of schedule sets.                              *)
(***************************************************************************)
DueFits(spec, due) ==
  /\ spec.kind = "cron" => due = Never \/ (due.on = "wall" /\ due.at \in Matches[spec.arg])
  /\ spec.kind = "onceAt" => due = Never \/ due = OnWall(spec.arg)
  /\ spec.kind = "onceAfter" => due = Never \/ due.on = "mono"

SpentIsDone(e) == e.spent => IsOnce(e.spec) /\ e.due = Never

DueInv ==
  \A s \in Slot : Held(s) => DueFits(entries[s].spec, entries[s].due)
                               /\ SpentIsDone(entries[s])

(* The least of a set of integers with a lower bound. *)
LEMMA LeastAfter ==
  ASSUME NEW S \in SUBSET Int, NEW w \in Int, NEW x \in S, x > w
  PROVE  \E m \in S : m > w /\ \A k \in S : k > w => m <= k
<1> DEFINE T == { m \in S : m > w /\ m <= x }
           f == [m \in T |-> x - m]
<1>1. x \in T /\ T # {} /\ x - w \in Nat
  OBVIOUS
<1>2. \A m \in T : f[m] \in Nat /\ f[m] <= x - w
  OBVIOUS
<1>3. PICK m \in T : \A k \in T : f[k] <= f[m]
  <2> HIDE DEF T, f
  <2> QED
    BY <1>1, <1>2, HasLargest
<1>4. ASSUME NEW k \in S, k > w PROVE m <= k
  <2>1. CASE k <= x
    BY <1>3, <1>4, <2>1
  <2>2. CASE k > x
    BY <2>2
  <2> QED
    BY <2>1, <2>2
<1> QED
  BY <1>4

LEMMA NextAfterIs ==
  ASSUME NEW c \in DOMAIN Matches, NEW w \in Int
  PROVE  LET n == NextAfter(c, w)
         IN  \/ n = Never /\ \A k \in Matches[c] : ~(k > w)
             \/ /\ n.on = "wall" /\ n.at \in Matches[c] /\ n.at > w
                /\ \A k \in Matches[c] : k > w => n.at <= k
<1> DEFINE First(m) == m > w /\ \A k \in Matches[c] : k > w => m <= k
<1>1. CASE \E m \in Matches[c] : First(m)
  <2>1. NextAfter(c, w) = [on |-> "wall", at |-> CHOOSE m \in Matches[c] : First(m)]
    BY <1>1 DEF NextAfter
  <2> DEFINE q == CHOOSE m \in Matches[c] : First(m)
  <2>2. q \in Matches[c] /\ First(q)
    BY <1>1
  <2> HIDE DEF q
  <2>3. NextAfter(c, w) = [on |-> "wall", at |-> q]
    BY <2>1 DEF q
  <2> QED
    BY <2>2, <2>3
<1>2. CASE ~\E m \in Matches[c] : First(m)
  <2>1. NextAfter(c, w) = Never
    BY <1>2 DEF NextAfter
  <2>2. \A k \in Matches[c] : ~(k > w)
    BY <1>2, LeastAfter, ClockAssumption
  <2> QED
    BY <2>1, <2>2
<1> QED
  BY <1>1, <1>2

LEMMA CronArg == ASSUME NEW e \in Entry, e.spec.kind = "cron" PROVE e.spec.arg \in DOMAIN Matches
  BY SpecTypes DEF Entry

LEMMA FirstFits == ASSUME TypeInv, NEW spec \in Specs PROVE DueFits(spec, FirstDue(spec))
<1>1. wall \in Int /\ (spec.kind = "cron" => spec.arg \in DOMAIN Matches)
  BY SpecTypes DEF TypeInv, TypeOK
<1>2. CASE spec.kind = "cron"
  <2>1. FirstDue(spec) = NextAfter(spec.arg, wall)
    BY <1>2 DEF FirstDue
  <2> QED
    BY <1>1, <1>2, <2>1, NextAfterIs DEF DueFits
<1>3. CASE spec.kind # "cron"
  BY <1>3 DEF FirstDue, DueFits, OnWall
<1> QED
  BY <1>2, <1>3

LEMMA AdvancedFits ==
  ASSUME TypeInv, NEW e \in Entry, Shaped(e), IsDue(e)
  PROVE  DueFits(e.spec, Advanced(e).due)
<1>1. wall \in Int
  BY DEF TypeInv, TypeOK
<1>2. CASE e.spec.kind = "cron"
  <2>1. Advanced(e).due = NextAfter(e.spec.arg, wall)
    BY <1>2, AdvancedIs
  <2> QED
    BY <1>1, <1>2, <2>1, CronArg, NextAfterIs DEF DueFits
<1>3. CASE IsOnce(e.spec)
  <2>1. Advanced(e).due = Never
    BY <1>3, AdvancedIs
  <2> QED
    BY <1>3, <2>1 DEF DueFits, IsOnce
<1> QED
  BY <1>2, <1>3 DEF DueFits, IsOnce

LEMMA RescheduledFits ==
  ASSUME TypeInv, NEW e \in Entry, Shaped(e), DueFits(e.spec, e.due), SpentIsDone(e)
  PROVE  LET r == Rescheduled(e) IN DueFits(r.spec, r.due) /\ SpentIsDone(r)
<1> DEFINE r == Rescheduled(e)
<1>1. r.spec = e.spec /\ r.spent = e.spent
  BY RescheduledIs
<1>2. CASE r = e
  BY <1>2
<1>3. CASE r # e
  <2>1. /\ e.spec.kind = "cron" /\ e.due.on = "wall"
        /\ r.due = NextAfter(e.spec.arg, wall)
    BY <1>3, RescheduledIs
  <2>2. wall \in Int /\ e.spec.arg \in DOMAIN Matches
    BY <2>1, CronArg DEF TypeInv, TypeOK
  <2>3. DueFits(r.spec, r.due)
    <3> HIDE DEF r
    <3> QED
      BY <1>1, <2>1, <2>2, NextAfterIs DEF DueFits
  <2>4. ~e.spent
    BY <2>1 DEF SpentIsDone, IsOnce
  <2> HIDE DEF r
  <2> QED
    BY <1>1, <2>3, <2>4 DEF SpentIsDone, r
<1> QED
  BY <1>2, <1>3

LEMMA CaughtUpFits ==
  ASSUME TypeInv, NEW e \in Entry, Shaped(e), DueFits(e.spec, e.due), SpentIsDone(e)
  PROVE  LET c == CaughtUp(e) IN DueFits(c.spec, c.due) /\ SpentIsDone(c)
<1> DEFINE c == CaughtUp(e)
<1>1. c.spec = e.spec /\ c.spent = e.spent
  BY CaughtUpIs
<1>2. CASE ~IsOnce(e.spec) /\ IsDue(e)
  <2>1. c.due = Advanced(e).due
    BY <1>2, CaughtUpIs
  <2>2. DueFits(e.spec, Advanced(e).due)
    BY <1>2, AdvancedFits
  <2> HIDE DEF c
  <2> QED
    BY <1>1, <1>2, <2>1, <2>2 DEF SpentIsDone, c
<1>3. CASE ~(~IsOnce(e.spec) /\ IsDue(e))
  <2>1. c = e
    BY <1>3, CaughtUpIs
  <2> QED
    BY <2>1
<1> QED
  BY <1>2, <1>3

LEMMA HeldDue ==
  ASSUME DueInv, NEW s \in Slot, Held(s)
  PROVE  DueFits(entries[s].spec, entries[s].due) /\ SpentIsDone(entries[s])
  BY DEF DueInv

LEMMA NeverFits == ASSUME NEW spec PROVE DueFits(spec, Never)
  BY DEF DueFits

LEMMA PolledFits ==
  ASSUME TypeInv, DueInv, NEW s \in Slot, Held(s)
  PROVE  DueFits(Polled(s).spec, Polled(s).due) /\ SpentIsDone(Polled(s))
<1> DEFINE e == entries[s]
           r == Rescheduled(e)
           f == Polled(s)
<1>1. e \in Entry /\ Shaped(e) /\ DueFits(e.spec, e.due) /\ SpentIsDone(e)
  BY HeldEntry, HeldDue
<1>2. r \in Entry /\ Shaped(r) /\ DueFits(r.spec, r.due) /\ SpentIsDone(r)
  <2> HIDE DEF e
  <2> QED
    BY <1>1, RescheduledIs, RescheduledFits
<1>3. f.spec = r.spec
  BY PolledIs
<1>4. CASE Fires(s) \/ Overruns(s)
  <2>1. IsDue(r) /\ f.due = Advanced(r).due
    BY <1>4, PolledIs DEF Fires, Overruns
  <2>2. ~r.spent
    BY <1>2, <2>1 DEF SpentIsDone, IsDue, Never
  <2>3. f.spent => IsOnce(r.spec)
    <3>1. CASE Fires(s)
      <4>1. f.spent = Advanced(r).spent
        BY <3>1, PolledIs
      <4>2. ~IsOnce(r.spec) => Advanced(r).spent = r.spent
        <5> HIDE DEF r
        <5> QED
          BY <1>2, <2>1, AdvancedIs
      <4> QED
        BY <2>2, <4>1, <4>2
    <3>2. CASE ~Fires(s)
      BY <2>2, <3>2, PolledIs
    <3> QED
      BY <3>1, <3>2
  <2>4. DueFits(r.spec, Advanced(r).due) /\ (IsOnce(r.spec) => Advanced(r).due = Never)
    <3> HIDE DEF r
    <3> QED
      BY <1>2, <2>1, AdvancedFits, AdvancedIs
  <2> HIDE DEF r, f
  <2> QED
    BY <1>3, <2>1, <2>3, <2>4 DEF SpentIsDone, f
<1>5. CASE ~Fires(s) /\ ~Overruns(s)
  <2>1. f.due = r.due /\ f.spent = r.spent
    BY <1>5, PolledIs
  <2> HIDE DEF r, f
  <2> QED
    BY <1>2, <1>3, <2>1 DEF SpentIsDone, f
<1> QED
  BY <1>4, <1>5

LEMMA DueStep ==
  TypeInv /\ OverlapInv /\ GrantInv /\ DueInv /\ [Next]_vars => DueInv'
<1> SUFFICES ASSUME TypeInv, OverlapInv, GrantInv, DueInv, [Next]_vars,
                    NEW s \in Slot, Held(s)'
             PROVE  DueFits(entries'[s].spec, entries'[s].due) /\ SpentIsDone(entries'[s])
  BY DEF DueInv, DueFits, SpentIsDone
<1>1. Evolves(s)
  BY SlotEvolves
<1>2. CASE Stays(s)
  BY <1>2, HeldDue DEF Stays
<1>3. CASE Made(s)
  <2>1. PICK spec \in Specs, declared \in BOOLEAN, k \in Nat :
          entries'[s] = NewEntry(spec, declared, k)
    BY <1>3 DEF Made
  <2> DEFINE f == NewEntry(spec, declared, k)
  <2>2. f.due = FirstDue(spec) /\ f.spec = spec /\ ~f.spent
    BY NewEntryIs
  <2> HIDE DEF f
  <2> QED
    BY <2>1, <2>2, FirstFits DEF f, SpentIsDone
<1>4. CASE Voided(s)
  <2>1. PICK b \in Bindings :
          RetryVoided(b, entries[s]) /\ entries'[s] = WithoutVoidedRetry(b, entries[s])
    BY <1>4 DEF Voided
  <2>2. Held(s)
    BY <1>4 DEF Voided
  <2>3. /\ entries'[s].spec = entries[s].spec /\ entries'[s].due = entries[s].due
        /\ entries'[s].spent = entries[s].spent
    BY <2>1, <2>2, HeldEntry, VoidedIs
  <2> QED
    BY <2>2, <2>3, HeldDue DEF SpentIsDone
<1>5. CASE PolledAt(s)
  BY <1>5, PolledFits DEF PolledAt
<1>6. CASE Stale(s)
  BY <1>6, HeldEntry, HeldDue, CaughtUpFits DEF Stale
<1>7. CASE SettledAt(s)
  <2>1. PICK b \in Bindings, d \in inflight, outcome \in Outcomes :
          Held(s) /\ entries'[s] = Settled(b, entries[s], d.firing, outcome)
    BY <1>7 DEF SettledAt
  <2> DEFINE e == entries[s]
             c == CaughtUp(e)
             f == Settled(b, e, d.firing, outcome)
  <2>2. e \in Entry /\ Shaped(e) /\ entries'[s] = f /\ f # NoEntry
    BY <2>1, HeldEntry DEF Held
  <2>3. d.firing \in Firing /\ d.firing.attempt > 0 /\ b \in Bindings \cup {NoBinding}
    BY DEF TypeInv, TypeOK, WellFormed, Dispatch
  <2>4. DueFits(e.spec, e.due) /\ SpentIsDone(e)
    BY <2>1, HeldDue
  <2> HIDE DEF e
  <2>5. DueFits(c.spec, c.due) /\ SpentIsDone(c) /\ c.spec = e.spec /\ c.spent = e.spent
    BY <2>2, <2>4, CaughtUpIs, CaughtUpFits
  <2>6. /\ f.spec = e.spec /\ f.spent = e.spent
        /\ f.due = IF IsOnce(e.spec) THEN Never ELSE c.due
    BY <2>2, <2>3, SettledIs
  <2> HIDE DEF c, f
  <2> QED
    BY <2>2, <2>5, <2>6, NeverFits DEF SpentIsDone
<1> QED
  BY <1>1, <1>2, <1>3, <1>4, <1>5, <1>6, <1>7 DEF Evolves

LEMMA DueInvariant == Spec => [](TypeInv /\ OverlapInv /\ GrantInv /\ DueInv)
<1>1. Init => DueInv
  BY DEF Init, DueInv, Held
<1> QED
  BY <1>1, DueStep, GrantInvariant, PTL DEF Spec

-----------------------------------------------------------------------------
(***************************************************************************)
(* A crontab keeps to the time.                                            *)
(***************************************************************************)
(* Only an entry whose time has come fires, and what it fires is numbered   *)
(* anew.                                                                   *)
LEMMA FirstAttempts ==
  ASSUME TypeInv, Poll, NEW d \in NewDeliveries, d.firing.attempt = 1
  PROVE  /\ d.slot \in Slot /\ Fires(d.slot) /\ Held(d.slot)
         /\ entries'[d.slot] = Polled(d.slot)
         /\ d.firing.at = Occurrence(Rescheduled(entries[d.slot])).at
<1> DEFINE fresh == { s \in Slot : Fires(s) }
           again == { s \in Slot : Redelivers(s) }
<1>1. \/ \E s \in fresh : d = DispatchOf(s, Fresh(fresh, s))
      \/ \E s \in again : d = DispatchOf(s, Again(s))
  BY DEF Poll, NewDeliveries
<1>2. CASE \E s \in fresh : d = DispatchOf(s, Fresh(fresh, s))
  <2>1. PICK s \in Slot : Fires(s) /\ d = DispatchOf(s, Fresh(fresh, s))
    BY <1>2
  <2> HIDE DEF fresh
  <2>2. d.slot = s /\ d.firing.at = Occurrence(Rescheduled(entries[s])).at
    BY <2>1 DEF DispatchOf, Fresh
  <2>3. entries'[s] = Polled(s)
    BY DEF Poll
  <2> QED
    BY <2>1, <2>2, <2>3 DEF Fires, DueAtPoll
<1>3. CASE \E s \in again : d = DispatchOf(s, Again(s))
  <2>1. PICK s \in Slot : Redelivers(s) /\ d = DispatchOf(s, Again(s))
    BY <1>3
  <2> DEFINE r == entries[s].retry.firing
  <2>2. Held(s) /\ r.attempt > 0
    BY <2>1 DEF Redelivers, Pending
  <2>3. r \in Firing /\ r.attempt \in Nat
    BY <2>2, HeldEntry DEF Entry, Retry, Firing
  <2>4. d.firing = [r EXCEPT !.attempt = @ + 1]
    BY <2>1 DEF DispatchOf, Again
  <2> HIDE DEF r
  <2>5. d.firing.attempt = r.attempt + 1
    BY <2>3, <2>4 DEF Firing
  <2> QED
    BY <2>2, <2>3, <2>5
<1> QED
  BY <1>1, <1>2, <1>3

(* What is reported of a crontab that came due is its latest match.         *)
LEMMA CronOccurrence ==
  ASSUME TypeInv, NEW e \in Entry, e.spec.kind = "cron",
         e.due.at \in Matches[e.spec.arg], e.due.at <= wall
  PROVE  LET at == Occurrence(e).at
         IN  /\ at \in Matches[e.spec.arg] /\ at <= wall
             /\ \A m \in Matches[e.spec.arg] : m <= wall => m <= at
<1> DEFINE M == Matches[e.spec.arg]
           first == e.due.at
           passed == Passed(e.spec.arg, first)
           Last(m) == \A k \in passed : k <= m
           at == Occurrence(e).at
<1>1. M \subseteq Int /\ first \in M /\ first \in Int /\ wall \in Int
  BY CronArg, ClockAssumption DEF TypeInv, TypeOK
<1>2. passed = { m \in M : first < m /\ m <= wall }
  BY DEF Passed
<1>3. at = IF \E m \in passed : Last(m) THEN CHOOSE m \in passed : Last(m) ELSE first
  BY DEF Occurrence
<1>4. CASE passed = {}
  <2>1. at = first
    BY <1>3, <1>4
  <2>2. ASSUME NEW m \in M, m <= wall PROVE m <= first
    BY <1>1, <1>2, <1>4, <2>2
  <2> QED
    BY <1>1, <2>1, <2>2
<1>5. CASE passed # {}
  <2> DEFINE f == [m \in passed |-> m - first]
  <2>1. wall - first \in Nat /\ \A m \in passed : f[m] \in Nat /\ f[m] <= wall - first
    <3> HIDE DEF passed
    <3>1. \A m \in passed : m \in Int /\ first < m /\ m <= wall
      BY <1>1, <1>2
    <3> HIDE DEF first
    <3>2. wall - first \in Nat
      BY <1>1, <1>5, <3>1
    <3> QED
      BY <1>1, <3>1, <3>2
  <2>2. PICK x \in passed : \A k \in passed : f[k] <= f[x]
    <3> HIDE DEF passed, f, first
    <3> QED
      BY <1>5, <2>1, HasLargest
  <2>3. Last(x)
    <3> SUFFICES ASSUME NEW k \in passed PROVE k <= x
      OBVIOUS
    <3>1. k - first <= x - first
      BY <2>2
    <3>2. k \in Int /\ x \in Int
      BY <1>1, <1>2
    <3> HIDE DEF passed, first
    <3> QED
      BY <1>1, <3>1, <3>2
  <2>4. at \in passed /\ Last(at)
    <3>1. at = CHOOSE m \in passed : Last(m)
      BY <1>3, <2>3
    <3> HIDE DEF at, passed
    <3> QED
      BY <2>3, <3>1
  <2>5. at \in M /\ at <= wall /\ first < at
    BY <1>2, <2>4
  <2>6. ASSUME NEW m \in M, m <= wall PROVE m <= at
    <3>1. CASE first < m
      BY <1>2, <2>4, <2>6, <3>1
    <3>2. CASE ~(first < m)
      <4> HIDE DEF at, first
      <4> QED
        BY <1>1, <2>5, <3>2
    <3> QED
      BY <3>1, <3>2
  <2> QED
    BY <2>5, <2>6
<1> QED
  BY <1>4, <1>5

LEMMA CronDue ==
  ASSUME TypeInv, NEW e \in Entry, e.spec.kind = "cron", DueFits(e.spec, e.due), IsDue(e)
  PROVE  /\ e.due.on = "wall" /\ e.due.at <= wall /\ e.due.at \in Matches[e.spec.arg]
         /\ wall \in Int /\ e.due.at \in Int /\ e.spec.arg \in DOMAIN Matches
<1>1. /\ e.due.on = "wall" /\ e.due.at \in Matches[e.spec.arg]
      /\ ClockOf(e.due) = wall /\ wall >= e.due.at
  BY DEF DueFits, IsDue, ClockOf, Never
<1> QED
  BY <1>1, CronArg, ClockAssumption DEF TypeInv, TypeOK

LEMMA LatestFired ==
  ASSUME TypeInv, DueInv, Poll, NEW d \in NewDeliveries,
         entries[d.slot].spec.kind = "cron", d.firing.attempt = 1
  PROVE  LET e == entries[d.slot]
         IN  /\ d.firing.at \in Matches[e.spec.arg]
             /\ \A m \in Matches[e.spec.arg] : m <= wall => m <= d.firing.at
             /\ entries'[d.slot].due # Never => entries'[d.slot].due.at > wall
<1> DEFINE s == d.slot
           e == entries[s]
           r == Rescheduled(e)
<1>1. /\ s \in Slot /\ Fires(s) /\ Held(s) /\ entries'[s] = Polled(s)
      /\ d.firing.at = Occurrence(r).at
  BY FirstAttempts
<1>2. e \in Entry /\ Shaped(e) /\ DueFits(e.spec, e.due) /\ SpentIsDone(e)
  BY <1>1, HeldEntry, HeldDue
<1>3. /\ r \in Entry /\ Shaped(r) /\ r.spec = e.spec /\ r.spec.kind = "cron"
      /\ DueFits(r.spec, r.due)
  <2>1. e.spec.kind = "cron"
    OBVIOUS
  <2> HIDE DEF e
  <2> QED
    BY <1>2, <2>1, RescheduledIs, RescheduledFits
<1>4. IsDue(r) /\ entries'[s].due = Advanced(r).due
  BY <1>1, PolledIs DEF Fires
<1> HIDE DEF r
<1>5. /\ r.due.at <= wall /\ r.due.at \in Matches[r.spec.arg]
      /\ wall \in Int /\ r.spec.arg \in DOMAIN Matches
  BY <1>3, <1>4, CronDue
<1>6. Advanced(r).due = NextAfter(r.spec.arg, wall)
  BY <1>3, <1>4, AdvancedIs
<1>7. entries'[s].due # Never => entries'[s].due.at > wall
  BY <1>4, <1>5, <1>6, NextAfterIs
<1>8. /\ Occurrence(r).at \in Matches[r.spec.arg]
      /\ \A m \in Matches[r.spec.arg] : m <= wall => m <= Occurrence(r).at
  BY <1>3, <1>5, CronOccurrence
<1> QED
  BY <1>1, <1>3, <1>7, <1>8

(* A crontab that moves in a step moves past the present. *)
LEMMA CronMoves ==
  ASSUME TypeInv, OverlapInv, GrantInv, DueInv, [Next]_vars, NEW s \in Slot,
         Held(s), entries[s].spec.kind = "cron", entries[s].due # Never,
         entries'[s].epoch = entries[s].epoch, entries'[s].due # Never,
         entries'[s].due.at < entries[s].due.at
  PROVE  ClockReset
<1> DEFINE e == entries[s]
           f == entries'[s]
           r == Rescheduled(e)
<1>1. /\ e \in Entry /\ Shaped(e) /\ e.epoch \in Nat /\ e.epoch # 0 /\ e.due.at \in Int
      /\ DueFits(e.spec, e.due) /\ SpentIsDone(e)
  BY HeldEntry, HeldDue DEF Entry, Due
<1>2. f # NoEntry /\ Held(s)'
  BY <1>1 DEF NoEntry, Held
<1>3. Evolves(s)
  BY <1>2, SlotEvolves
<1>4. ASSUME NEW g \in Entry, g.spec = e.spec, Shaped(g), g.due = e.due, IsDue(g),
             f.due = Advanced(g).due
      PROVE  FALSE
  <2>1. g.spec.kind = "cron" /\ DueFits(g.spec, g.due)
    BY <1>1, <1>4
  <2>2. g.due.at <= wall /\ wall \in Int /\ g.spec.arg \in DOMAIN Matches
    BY <1>4, <2>1, CronDue
  <2>3. f.due = NextAfter(g.spec.arg, wall)
    BY <1>4, <2>1, AdvancedIs
  <2>4. f.due.at > wall /\ f.due.at \in Int
    BY <2>2, <2>3, NextAfterIs, ClockAssumption
  <2>5. e.due.at = g.due.at /\ f.due.at < e.due.at
    BY <1>4
  <2> HIDE DEF e, f
  <2> QED
    BY <1>1, <2>2, <2>4, <2>5
<1>5. ~(f.due = e.due)
  <2>1. f.due.at < e.due.at
    OBVIOUS
  <2> HIDE DEF e, f
  <2> QED
    BY <1>1, <2>1
<1>6. CASE Made(s)
  <2>1. PICK spec \in Specs, declared \in BOOLEAN, k \in Nat :
          k > epochs /\ entries'[s] = NewEntry(spec, declared, k)
    BY <1>6 DEF Made
  <2>2. entries'[s].epoch = k
    BY <2>1, NewEntryIs
  <2>3. e.epoch <= epochs /\ epochs \in Nat
    BY DEF OverlapInv, EpochsBelow, TypeInv, TypeOK
  <2> QED
    BY <1>1, <2>1, <2>2, <2>3
<1>7. ~Voided(s)
  <2> SUFFICES ASSUME Voided(s) PROVE FALSE
    OBVIOUS
  <2>1. PICK b \in Bindings :
          RetryVoided(b, entries[s]) /\ entries'[s] = WithoutVoidedRetry(b, entries[s])
    BY DEF Voided
  <2> QED
    BY <1>1, <1>5, <2>1, VoidedIs
<1>8. ASSUME PolledAt(s), ~ClockReset PROVE FALSE
  <2>1. r = e
    BY <1>8 DEF Rescheduled
  <2>2. f = Polled(s)
    BY <1>8 DEF PolledAt
  <2>3. CASE Fires(s) \/ Overruns(s)
    <3>1. IsDue(e) /\ f.due = Advanced(e).due
      BY <2>1, <2>2, <2>3, PolledIs DEF Fires, Overruns
    <3> QED
      BY <1>1, <1>4, <3>1
  <2>4. CASE ~Fires(s) /\ ~Overruns(s)
    <3>1. f.due = e.due
      BY <2>1, <2>2, <2>4, PolledIs
    <3> QED
      BY <1>5, <3>1
  <2> QED
    BY <2>3, <2>4
<1>9. ASSUME f.due = CaughtUp(e).due PROVE FALSE
  <2>1. \/ CaughtUp(e) = e
        \/ IsDue(e) /\ CaughtUp(e).due = Advanced(e).due
    <3> HIDE DEF e
    <3> QED
      BY <1>1, CaughtUpIs
  <2>2. CASE CaughtUp(e) = e
    BY <1>5, <1>9, <2>2
  <2>3. CASE IsDue(e) /\ CaughtUp(e).due = Advanced(e).due
    BY <1>1, <1>4, <1>9, <2>3
  <2> QED
    BY <2>1, <2>2, <2>3
<1>10. ~Stale(s)
  BY <1>9 DEF Stale
<1>11. ~SettledAt(s)
  <2> SUFFICES ASSUME SettledAt(s) PROVE FALSE
    OBVIOUS
  <2>1. PICK b \in Bindings, d \in inflight, outcome \in Outcomes :
          f = Settled(b, e, d.firing, outcome)
    BY DEF SettledAt
  <2>2. d.firing \in Firing /\ d.firing.attempt > 0 /\ b \in Bindings \cup {NoBinding}
    BY DEF TypeInv, TypeOK, WellFormed, Dispatch
  <2>3. ~IsOnce(e.spec)
    BY DEF IsOnce
  <2>4. f.due = CaughtUp(e).due
    <3> HIDE DEF e, f
    <3> QED
      BY <1>1, <1>2, <2>1, <2>2, <2>3, SettledIs
  <2> QED
    BY <1>9, <2>4
<1>12. ~Stays(s)
  BY <1>5 DEF Stays
<1> QED
  BY <1>3, <1>6, <1>7, <1>8, <1>10, <1>11, <1>12 DEF Evolves

(* CronKeepsTime holds: a crontab fires for its latest match and then waits *)
(* for one ahead, and it goes back in time only when the clock did.        *)
THEOREM CrontabsKeepTheTime == Spec => CronKeepsTime
<1> DEFINE Latest == \A d \in NewDeliveries :
             LET e == entries[d.slot]
             IN  e.spec.kind = "cron" /\ d.firing.attempt = 1 =>
                   /\ d.firing.at \in Matches[e.spec.arg]
                   /\ \A m \in Matches[e.spec.arg] : m <= wall => m <= d.firing.at
                   /\ entries'[d.slot].due # Never =>
                        entries'[d.slot].due.at > wall
           Forward == \A s \in Slot :
             LET e == entries[s]  f == entries'[s]
             IN  /\ Held(s) /\ e.spec.kind = "cron" /\ e.due # Never
                 /\ f.epoch = e.epoch /\ f.due # Never /\ f.due.at < e.due.at
                 => lastPoll.set /\ (mono + lastPoll.gap) - wall > CLOCK_RESET
<1>1. TypeInv /\ OverlapInv /\ GrantInv /\ DueInv /\ [Next]_vars => [Latest]_vars
  <2>1. ASSUME TypeInv, DueInv, Poll PROVE Latest
    BY <2>1, LatestFired
  <2>2. ASSUME TypeInv, [Next]_vars, ~Poll PROVE Latest
    BY <2>2, OnlyPollDelivers
  <2> HIDE DEF Latest
  <2> QED
    BY <2>1, <2>2
<1>2. TypeInv /\ OverlapInv /\ GrantInv /\ DueInv /\ [Next]_vars => [Forward]_vars
  <2> SUFFICES ASSUME TypeInv, OverlapInv, GrantInv, DueInv, [Next]_vars
               PROVE  Forward
    OBVIOUS
  <2> QED
    BY CronMoves DEF ClockReset
<1>3. Spec => [][Next]_vars
  BY PTL DEF Spec
<1> HIDE DEF Latest, Forward
<1>4. Spec => [][Latest]_vars
  BY <1>1, <1>3, DueInvariant, PTL
<1>5. Spec => [][Forward]_vars
  BY <1>2, <1>3, DueInvariant, PTL
<1> QED
  BY <1>4, <1>5 DEF CronKeepsTime, CronFiresLatest, CronMovesForward, Latest, Forward

-----------------------------------------------------------------------------
(***************************************************************************)
(* What a listing tells.                                                   *)
(***************************************************************************)
(* The time shown is past, or present, exactly if the entry waits for its   *)
(* delivery; and if nothing is in its way, it is the time delivered.       *)
TellsTrue(s, r) ==
  /\ NextOf(s, r) # Never =>
       (NextOf(s, r).at <= wall <=> IsDue(r) /\ (busy[s] = 0 \/ IsOnce(r.spec)))
  /\ IsDue(r) /\ busy[s] = 0 => NextOf(s, r) = OnWall(Occurrence(r).at)

LEMMA NeverTold ==
  ASSUME NEW s, NEW r, r.due = Never
  PROVE  TellsTrue(s, r)
<1>1. ~IsDue(r) /\ r.due.on # "wall" /\ r.due.on # "mono"
  BY DEF IsDue, Never
<1>2. NextOf(s, r) = Never
  BY <1>1 DEF NextOf
<1> QED
  BY <1>1, <1>2 DEF TellsTrue

LEMMA CronTold ==
  ASSUME TypeInv, NEW s, NEW r \in Entry, r.spec.kind = "cron",
         DueFits(r.spec, r.due), SpentIsDone(r), r.due # Never
  PROVE  TellsTrue(s, r)
<1>1. /\ r.due.on = "wall" /\ r.due.at \in Matches[r.spec.arg]
      /\ r.spec.arg \in DOMAIN Matches /\ wall \in Int /\ r.due.at \in Int
      /\ ~r.spent /\ ~IsOnce(r.spec)
  BY CronArg, ClockAssumption DEF DueFits, SpentIsDone, IsOnce, TypeInv, TypeOK
<1>2. IsDue(r) <=> wall >= r.due.at
  BY <1>1 DEF IsDue, ClockOf
<1>3. CASE busy[s] # 0 /\ IsDue(r)
  <2>1. NextOf(s, r) = NextAfter(r.spec.arg, wall)
    BY <1>1, <1>3 DEF NextOf
  <2>2. NextOf(s, r) # Never => NextOf(s, r).at > wall /\ NextOf(s, r).at \in Int
    BY <1>1, <2>1, NextAfterIs, ClockAssumption
  <2> QED
    BY <1>1, <1>3, <2>2 DEF TellsTrue
<1>4. CASE busy[s] = 0 /\ IsDue(r)
  <2>1. NextOf(s, r) = OnWall(Occurrence(r).at)
    BY <1>1, <1>4 DEF NextOf
  <2>2. Occurrence(r).at <= wall
    BY <1>1, <1>2, <1>4, CronOccurrence
  <2>3. NextOf(s, r).at = Occurrence(r).at
    BY <2>1 DEF OnWall
  <2> QED
    BY <1>4, <2>1, <2>2, <2>3 DEF TellsTrue
<1>5. CASE ~IsDue(r)
  <2>1. NextOf(s, r) = r.due
    BY <1>1, <1>5 DEF NextOf
  <2> QED
    BY <1>1, <1>2, <1>5, <2>1 DEF TellsTrue
<1> QED
  BY <1>3, <1>4, <1>5

LEMMA IntervalTold ==
  ASSUME TypeInv, NEW s, NEW r \in Entry, r.spec.kind = "interval", Shaped(r),
         SpentIsDone(r)
  PROVE  TellsTrue(s, r)
<1>1. /\ r.due.on = "mono" /\ r.spec.arg \in Nat \ {0} /\ r.due.at \in Int
      /\ wall \in Int /\ mono \in Nat /\ r.due # Never /\ ~r.spent /\ ~IsOnce(r.spec)
  BY SpecTypes DEF Shaped, Entry, Due, Never, SpentIsDone, IsOnce, TypeInv, TypeOK
<1>2. IsDue(r) <=> mono >= r.due.at
  BY <1>1 DEF IsDue, ClockOf
<1> DEFINE past == mono - r.due.at
           arg == r.spec.arg
           rest == past % arg
<1>3. ASSUME IsDue(r) PROVE rest \in Nat /\ rest < arg
  <2>1. past \in Nat
    BY <1>1, <1>2, <1>3
  <2> HIDE DEF past
  <2> QED
    BY <1>1, <2>1, Division
<1>4. CASE busy[s] # 0 /\ IsDue(r)
  <2>1. NextOf(s, r) = OnWall(wall + arg - rest)
    BY <1>1, <1>4 DEF NextOf
  <2>2. NextOf(s, r).at = wall + arg - rest
    BY <2>1 DEF OnWall
  <2>3. rest \in Nat /\ rest < arg /\ arg \in Nat
    BY <1>1, <1>3, <1>4
  <2> HIDE DEF rest, arg
  <2>4. ~(NextOf(s, r).at <= wall)
    BY <1>1, <2>2, <2>3
  <2> QED
    BY <1>1, <1>4, <2>4 DEF TellsTrue
<1>5. CASE busy[s] = 0 /\ IsDue(r)
  <2>1. NextOf(s, r) = OnWall(Occurrence(r).at)
    BY <1>1, <1>5 DEF NextOf
  <2>2. Occurrence(r).at = wall - rest
    BY DEF Occurrence
  <2>3. NextOf(s, r).at = wall - rest
    BY <2>1, <2>2 DEF OnWall
  <2>4. rest \in Nat
    BY <1>3, <1>5
  <2> HIDE DEF rest
  <2>5. NextOf(s, r).at <= wall
    BY <1>1, <2>3, <2>4
  <2> QED
    BY <1>5, <2>1, <2>5 DEF TellsTrue
<1>6. CASE ~IsDue(r)
  <2>1. NextOf(s, r) = OnWall(wall + (r.due.at - mono))
    BY <1>1, <1>6 DEF NextOf
  <2>2. NextOf(s, r).at = wall + (r.due.at - mono)
    BY <2>1 DEF OnWall
  <2>3. ~(NextOf(s, r).at <= wall)
    BY <1>1, <1>2, <1>6, <2>2
  <2> QED
    BY <1>6, <2>3 DEF TellsTrue
<1> QED
  BY <1>4, <1>5, <1>6

LEMMA OnceTold ==
  ASSUME TypeInv, NEW s, NEW r \in Entry, IsOnce(r.spec),
         DueFits(r.spec, r.due), SpentIsDone(r), r.due # Never
  PROVE  TellsTrue(s, r)
<1>1. /\ r.spec.arg \in Int /\ r.due.at \in Int /\ wall \in Int /\ mono \in Nat
      /\ ~r.spent
  BY SpecTypes DEF Entry, Due, SpentIsDone, TypeInv, TypeOK
<1>2. CASE r.spec.kind = "onceAt"
  <2>1. r.due = OnWall(r.spec.arg) /\ r.due.on = "wall" /\ r.due.at = r.spec.arg
    BY <1>2 DEF DueFits, OnWall
  <2>2. NextOf(s, r) = r.due
    BY <1>1, <1>2, <2>1 DEF NextOf
  <2>3. IsDue(r) <=> wall >= r.due.at
    BY <2>1 DEF IsDue, ClockOf
  <2>4. Occurrence(r).at = r.spec.arg
    BY <1>2 DEF Occurrence
  <2> QED
    BY <1>1, <2>1, <2>2, <2>3, <2>4 DEF TellsTrue
<1>3. CASE r.spec.kind = "onceAfter"
  <2>1. r.due.on = "mono"
    BY <1>3 DEF DueFits
  <2>2. NextOf(s, r) = OnWall(wall + (r.due.at - mono))
    BY <1>1, <1>3, <2>1 DEF NextOf
  <2>3. IsDue(r) <=> mono >= r.due.at
    BY <2>1 DEF IsDue, ClockOf
  <2>4. Occurrence(r).at = wall - (mono - r.due.at)
    BY <1>3 DEF Occurrence
  <2>5. wall - (mono - r.due.at) = wall + (r.due.at - mono)
    BY <1>1
  <2>6. NextOf(s, r).at = wall + (r.due.at - mono)
    BY <2>2 DEF OnWall
  <2>7. NextOf(s, r).at <= wall <=> IsDue(r)
    BY <1>1, <2>3, <2>6
  <2>8. NextOf(s, r) = OnWall(Occurrence(r).at)
    BY <2>2, <2>4, <2>5
  <2> QED
    BY <2>7, <2>8 DEF TellsTrue
<1> QED
  BY <1>2, <1>3 DEF IsOnce

LEMMA ListingTells ==
  ASSUME TypeInv, DueInv, NEW s \in Slot, Held(s)
  PROVE  TellsTrue(s, Rescheduled(entries[s]))
           /\ Rescheduled(entries[s]).spec = entries[s].spec
<1> DEFINE e == entries[s]
           r == Rescheduled(e)
<1>1. e \in Entry /\ Shaped(e) /\ DueFits(e.spec, e.due) /\ SpentIsDone(e)
  BY HeldEntry, HeldDue
<1>2. /\ r \in Entry /\ Shaped(r) /\ r.spec = e.spec
      /\ DueFits(r.spec, r.due) /\ SpentIsDone(r)
  <2> HIDE DEF e
  <2> QED
    BY <1>1, RescheduledIs, RescheduledFits
<1> HIDE DEF r
<1>3. r.spec.kind \in Kinds
  BY <1>2, SpecTypes DEF Entry
<1>4. TellsTrue(s, r)
  BY <1>2, <1>3, NeverTold, CronTold, IntervalTold, OnceTold DEF Kinds, IsOnce
<1> QED
  BY <1>2, <1>4 DEF r

(* ForecastHolds: a listing shows a past time for exactly the firings that  *)
(* wait to be delivered, and the time a listing shows for one of them is   *)
(* the time that its delivery carries.                                     *)
THEOREM ListingsTellTheTruth == Spec => ForecastHolds
<1> DEFINE Dispatched == \A d \in NewDeliveries :
             d.firing.attempt = 1 => Forecast(d.slot) = OnWall(d.firing.at)
<1>1. TypeInv /\ DueInv => ForecastShowsWaiting
  <2> SUFFICES ASSUME TypeInv, DueInv, NEW s \in Slot, Held(s), Forecast(s) # Never
               PROVE  Forecast(s).at <= wall
                        <=> DueAtPoll(s) /\ (busy[s] = 0 \/ IsOnce(entries[s].spec))
    BY DEF ForecastShowsWaiting
  <2> QED
    BY ListingTells DEF TellsTrue, Forecast, DueAtPoll
<1>2. TypeInv /\ DueInv /\ [Next]_vars => [Dispatched]_vars
  <2>1. ASSUME TypeInv, DueInv, Poll, NEW d \in NewDeliveries, d.firing.attempt = 1
        PROVE  Forecast(d.slot) = OnWall(d.firing.at)
    <3> DEFINE r == Rescheduled(entries[d.slot])
    <3>1. /\ d.slot \in Slot /\ Fires(d.slot) /\ Held(d.slot)
          /\ d.firing.at = Occurrence(r).at
      BY <2>1, FirstAttempts
    <3>2. TellsTrue(d.slot, r)
      BY <2>1, <3>1, ListingTells
    <3>3. IsDue(r) /\ busy[d.slot] = 0
      BY <3>1 DEF Fires, DueAtPoll
    <3> QED
      BY <3>1, <3>2, <3>3 DEF TellsTrue, Forecast
  <2>2. ASSUME TypeInv, [Next]_vars, ~Poll PROVE Dispatched
    BY <2>2, OnlyPollDelivers
  <2> QED
    BY <2>1, <2>2
<1>3. Spec => [][Next]_vars
  BY PTL DEF Spec
<1> HIDE DEF Dispatched
<1>4. Spec => [][Dispatched]_vars
  BY <1>2, <1>3, DueInvariant, PTL
<1>5. Spec => []ForecastShowsWaiting
  BY <1>1, DueInvariant, PTL
<1> QED
  BY <1>4, <1>5 DEF ForecastHolds, ForecastIsDispatched, Dispatched

-----------------------------------------------------------------------------
(***************************************************************************)
(* The account of an entry's marks.                                        *)
(***************************************************************************)
Queue(e) == IF Pending(e) THEN 1 ELSE 0

Borne(running) == IF running = {} THEN 0 ELSE Carried(CHOOSE d \in running : TRUE)

(* The marks told, or still to be told: of a history, an entry and a call.  *)
Account(l, e, n) == l.heard + l.lost + (e.missed + Queue(e) + n)

Told(s) == ledger[s].heard + ledger[s].lost + Unreported(s)

LEMMA ToldIs ==
  ASSUME NEW s
  PROVE  Told(s) = Account(ledger[s], entries[s], Borne(Running(s)))
  BY DEF Told, Unreported, Account, Queue, Borne

LEMMA ToldNext ==
  ASSUME NEW s
  PROVE  Told(s)' = Account(ledger'[s], entries'[s], Borne(Running(s)'))
  BY DEF Told, Unreported, Account, Queue, Borne, Pending, Carried

LEMMA BorneOne ==
  /\ Borne({}) = 0
  /\ \A d : Borne({d}) = Carried(d)
<1>1. ASSUME NEW d PROVE (CHOOSE x \in {d} : TRUE) = d
  OBVIOUS
<1> QED
  BY <1>1 DEF Borne

LEMMA CarriedType == ASSUME TypeInv, NEW d \in inflight PROVE Carried(d) \in Nat
<1>1. d.firing \in Firing /\ d.firing.missed \in Nat
  BY DEF TypeInv, TypeOK, Dispatch, Firing
<1> QED
  BY <1>1 DEF Carried

LEMMA BorneType == ASSUME TypeInv, NEW s PROVE Borne(Running(s)) \in Nat
<1>1. CASE Running(s) = {}
  BY <1>1 DEF Borne
<1>2. CASE Running(s) # {}
  <2> DEFINE d == CHOOSE x \in Running(s) : TRUE
  <2>1. d \in Running(s)
    BY <1>2
  <2>2. d \in inflight
    BY <2>1 DEF Running
  <2>3. Borne(Running(s)) = Carried(d)
    BY <1>2 DEF Borne
  <2> HIDE DEF d
  <2> QED
    BY <2>2, <2>3, CarriedType
<1> QED
  BY <1>1, <1>2

LEMMA AccountTypes ==
  ASSUME TypeInv, NEW s \in Slot, Held(s)
  PROVE  /\ entries[s] \in Entry /\ entries[s].missed \in Nat /\ Queue(entries[s]) \in Nat
         /\ ledger[s] \in Ledger /\ ledger[s].heard \in Nat /\ ledger[s].lost \in Nat
         /\ ledger[s].born \in Int /\ ledger[s].reset \in BOOLEAN
         /\ Borne(Running(s)) \in Nat /\ Told(s) \in Nat
<1>1. entries[s] \in Entry /\ ledger[s] \in Ledger
  BY HeldEntry DEF TypeInv, TypeOK
<1>2. Borne(Running(s)) \in Nat /\ Queue(entries[s]) \in Nat
  BY BorneType DEF Queue
<1>3. /\ entries[s].missed \in Nat /\ ledger[s].heard \in Nat /\ ledger[s].lost \in Nat
      /\ ledger[s].born \in Int /\ ledger[s].reset \in BOOLEAN
  BY <1>1 DEF Entry, Ledger
<1>4. Told(s) = ledger[s].heard + ledger[s].lost
                  + (entries[s].missed + Queue(entries[s]) + Borne(Running(s)))
  BY ToldIs DEF Account
<1> QED
  BY <1>1, <1>2, <1>3, <1>4

(* What a step does to the account of a slot: nothing; it opens it anew; it *)
(* takes the marks up to now; or it gives the comparison up.               *)
Keeps(s) ==
  /\ Held(s) /\ entries'[s].spec = entries[s].spec /\ entries'[s].due = entries[s].due
  /\ ledger'[s].born = ledger[s].born /\ ledger'[s].reset = ledger[s].reset
  /\ Told(s)' = Told(s)

Takes(s) ==
  /\ Held(s) /\ IsDue(entries[s])
  /\ entries'[s].spec = entries[s].spec /\ entries'[s].due = Advanced(entries[s]).due
  /\ ledger'[s].born = ledger[s].born /\ ledger'[s].reset = ledger[s].reset
  /\ Occurrence(entries[s]).skipped \in Nat
  /\ Told(s)' = Told(s) + Occurrence(entries[s]).skipped + 1

Resets(s) ==
  /\ Held(s) /\ entries'[s].spec = entries[s].spec /\ entries[s].spec.kind = "cron"
  /\ ledger'[s].reset

LEMMA ResetNoted ==
  ASSUME NEW l \in Ledger, NEW r \in BOOLEAN
  PROVE  LET m == [l EXCEPT !.reset = @ \/ r]
         IN  /\ m.born = l.born /\ m.heard = l.heard /\ m.lost = l.lost
             /\ m.reset <=> l.reset \/ r
             /\ m.reset \in BOOLEAN
  BY DEF Ledger

LEMMA PolledAccount ==
  ASSUME TypeInv, NEW s \in Slot, PolledAt(s), ~IsOnce(entries'[s].spec)
  PROVE  Keeps(s) \/ Takes(s) \/ Resets(s)
<1> DEFINE e == entries[s]
           r == Rescheduled(e)
           f == entries'[s]
           l == ledger[s]
           m == ledger'[s]
<1>1. Held(s) /\ f = Polled(s) /\ e \in Entry /\ Shaped(e)
  BY HeldEntry DEF PolledAt
<1>2. m = [l EXCEPT !.reset = @ \/ r # e]
  BY DEF PolledAt
<1>3. l \in Ledger /\ l.reset \in BOOLEAN
  BY <1>1, AccountTypes
<1>4. /\ m.born = l.born /\ m.heard = l.heard /\ m.lost = l.lost
      /\ (m.reset <=> l.reset \/ r # e) /\ m.reset \in BOOLEAN
  <2> DEFINE moved == r # e
  <2>1. moved \in BOOLEAN /\ m = [l EXCEPT !.reset = @ \/ moved]
    BY <1>2
  <2> HIDE DEF l, m, moved
  <2>2. /\ m.born = l.born /\ m.heard = l.heard /\ m.lost = l.lost
        /\ (m.reset <=> l.reset \/ moved) /\ m.reset \in BOOLEAN
    BY <1>3, <2>1, ResetNoted
  <2> QED
    BY <2>2 DEF moved
<1>5. f.spec = e.spec /\ r.spec = e.spec
  BY <1>1, PolledIs, RescheduledIs
<1>6. CASE r # e
  <2>1. e.spec.kind = "cron"
    BY <1>1, <1>6, RescheduledIs
  <2> QED
    BY <1>1, <1>4, <1>5, <1>6, <2>1 DEF Resets
<1>7. CASE r = e
  <2>1. m.reset = l.reset
    BY <1>3, <1>4, <1>7
  <2>2. /\ Told(s) = l.heard + l.lost + (e.missed + Queue(e) + Borne(Running(s)))
        /\ Told(s)' = l.heard + l.lost + (f.missed + Queue(f) + Borne(Running(s)'))
    BY <1>4, ToldIs, ToldNext DEF Account
  <2>3. /\ e.missed \in Nat /\ Queue(e) \in Nat /\ l.heard \in Nat /\ l.lost \in Nat
        /\ Borne(Running(s)) \in Nat
    BY <1>1, AccountTypes
  <2>4. ASSUME f.retry = NoRetry PROVE Queue(f) = 0
    BY <2>4, NoRetryType DEF Queue, Pending
  <2> DEFINE k == Occurrence(e).skipped
  <2>5. ASSUME DueAtPoll(s)
        PROVE  IsDue(e) /\ k \in Nat /\ Skipped(e) = k + Queue(e)
    BY <1>1, <1>7, <2>5, PolledIs DEF Skipped, Queue
  <2>6. CASE Fires(s)
    <3>1. /\ f.due = Advanced(e).due /\ f.missed = 0 /\ f.retry = NoRetry
      BY <1>1, <1>7, <2>6, PolledIs
    <3>2. PICK S \in SUBSET Slot :
            Running(s) = {} /\ Running(s)' = {DispatchOf(s, Fresh(S, s))}
      BY <2>6 DEF PolledAt, Redelivers, Fires
    <3> DEFINE d == DispatchOf(s, Fresh(S, s))
    <3>3. d.firing.attempt = 1 /\ d.firing.missed = e.missed + Skipped(e)
      BY <1>7 DEF DispatchOf, Fresh
    <3>4. Carried(d) = 1 + (e.missed + Skipped(e))
      <4> HIDE DEF d
      <4> QED
        BY <3>3 DEF Carried
    <3> HIDE DEF d
    <3>5. Borne(Running(s)) = 0 /\ Borne(Running(s)') = Carried(d)
      BY <3>2, BorneOne DEF d
    <3>6. IsDue(e) /\ k \in Nat /\ Skipped(e) = k + Queue(e)
      BY <2>5, <2>6 DEF Fires
    <3> HIDE DEF k
    <3>7. Told(s)' = Told(s) + k + 1
      <4>1. Queue(f) = 0
        BY <2>4, <3>1
      <4> HIDE DEF e, f, l
      <4> QED
        BY <2>2, <2>3, <3>1, <3>4, <3>5, <3>6, <4>1
    <3> QED
      BY <1>1, <1>4, <1>5, <2>1, <3>1, <3>6, <3>7 DEF Takes, k
  <2>7. CASE Redelivers(s)
    <3>1. /\ f.due = e.due /\ f.missed = e.missed /\ f.retry = NoRetry
      BY <1>1, <1>7, <2>7, PolledIs
    <3>2. Running(s) = {} /\ Running(s)' = {DispatchOf(s, Again(s))}
      BY <2>7 DEF PolledAt, Redelivers, Fires
    <3> DEFINE d == DispatchOf(s, Again(s))
    <3>3. Pending(e)
      BY <2>7 DEF Redelivers
    <3>4. d.firing.attempt # 1
      <4> DEFINE q == e.retry.firing
      <4>1. q \in Firing /\ q.attempt \in Nat /\ q.attempt > 0
        BY <1>1, <3>3 DEF Entry, Retry, Firing, Pending
      <4>2. d.firing = [q EXCEPT !.attempt = @ + 1]
        BY DEF DispatchOf, Again
      <4> HIDE DEF q, d
      <4>3. d.firing.attempt = q.attempt + 1
        BY <4>1, <4>2 DEF Firing
      <4> QED
        BY <4>1, <4>3
    <3>5. Carried(d) = 1
      <4> HIDE DEF d
      <4> QED
        BY <3>4 DEF Carried
    <3> HIDE DEF d
    <3>6. Borne(Running(s)) = 0 /\ Borne(Running(s)') = 1
      BY <3>2, <3>5, BorneOne DEF d
    <3>7. Queue(e) = 1 /\ Queue(f) = 0
      BY <2>4, <3>1, <3>3 DEF Queue
    <3>8. Told(s)' = Told(s)
      <4> HIDE DEF e, f, l
      <4> QED
        BY <2>2, <2>3, <3>1, <3>6, <3>7
    <3> QED
      BY <1>1, <1>4, <1>5, <2>1, <3>1, <3>8 DEF Keeps
  <2>8. CASE ~Fires(s) /\ ~Redelivers(s)
    <3>1. Borne(Running(s)') = Borne(Running(s))
      BY <2>8 DEF PolledAt
    <3>2. CASE Overruns(s)
      <4>1. f.due = Advanced(e).due /\ f.retry = NoRetry /\ f.missed = e.missed + Skipped(e) + 1
        BY <1>1, <1>7, <3>2, PolledIs
      <4>2. IsDue(e) /\ k \in Nat /\ Skipped(e) = k + Queue(e)
        BY <2>5, <3>2 DEF Overruns
      <4> HIDE DEF k
      <4>3. Told(s)' = Told(s) + k + 1
        <5>1. Queue(f) = 0
          BY <2>4, <4>1
        <5> HIDE DEF e, f, l
        <5> QED
          BY <2>2, <2>3, <3>1, <4>1, <4>2, <5>1
      <4> QED
        BY <1>1, <1>4, <1>5, <2>1, <4>1, <4>2, <4>3 DEF Takes, k
    <3>3. CASE ~Overruns(s)
      <4>1. f = e
        BY <1>1, <1>7, <2>8, <3>3, PolledIs
      <4>2. Told(s)' = Told(s)
        BY <2>2, <3>1, <4>1
      <4> QED
        BY <1>1, <1>4, <2>1, <4>1, <4>2 DEF Keeps
    <3> QED
      BY <3>2, <3>3
  <2> QED
    BY <2>6, <2>7, <2>8
<1> QED
  BY <1>6, <1>7

LEMMA StaleAccount ==
  ASSUME TypeInv, NEW s \in Slot, Stale(s)
  PROVE  Keeps(s) \/ Takes(s)
<1> DEFINE e == entries[s]
           f == entries'[s]
           l == ledger[s]
           m == ledger'[s]
           more == Pending(e) /\ ~Pending(f)
           k == Occurrence(e).skipped
<1>1. Held(s) /\ f = CaughtUp(e) /\ e \in Entry /\ Shaped(e) /\ Running(s)' = Running(s)
  BY HeldEntry DEF Stale
<1>2. m = [l EXCEPT !.lost = IF more THEN @ + 1 ELSE @]
  BY <1>1 DEF Stale
<1>3. /\ m.born = l.born /\ m.heard = l.heard /\ m.reset = l.reset
      /\ m.lost = IF more THEN l.lost + 1 ELSE l.lost
  <2>1. l \in Ledger
    BY <1>1, AccountTypes
  <2> HIDE DEF l, m, more
  <2> QED
    BY <1>2, <2>1 DEF Ledger
<1>4. /\ Told(s) = l.heard + l.lost + (e.missed + Queue(e) + Borne(Running(s)))
      /\ Told(s)' = l.heard + m.lost + (f.missed + Queue(f) + Borne(Running(s)))
  BY <1>1, <1>3, ToldIs, ToldNext DEF Account
<1>5. /\ e.missed \in Nat /\ Queue(e) \in Nat /\ l.heard \in Nat /\ l.lost \in Nat
      /\ Borne(Running(s)) \in Nat
  BY <1>1, AccountTypes
<1>6. CASE ~IsOnce(e.spec) /\ IsDue(e)
  <2>1. /\ f.spec = e.spec /\ f.due = Advanced(e).due /\ f.retry = NoRetry /\ k \in Nat
        /\ f.missed = e.missed + k + 1
    <3> HIDE DEF e
    <3> QED
      BY <1>1, <1>6, CaughtUpIs
  <2>2. Queue(f) = 0 /\ ~Pending(f)
    BY <2>1, NoRetryType DEF Queue, Pending
  <2>3. m.lost = l.lost + Queue(e)
    <3> HIDE DEF e, f, l, m
    <3> QED
      BY <1>3, <1>5, <2>2 DEF Queue
  <2>4. Told(s)' = Told(s) + k + 1
    <3> HIDE DEF e, f, l, m, k
    <3> QED
      BY <1>4, <1>5, <2>1, <2>2, <2>3
  <2> QED
    BY <1>1, <1>3, <1>6, <2>1, <2>4 DEF Takes
<1>7. CASE ~(~IsOnce(e.spec) /\ IsDue(e))
  <2>1. f = e
    BY <1>1, <1>7, CaughtUpIs
  <2>2. Told(s)' = Told(s)
    BY <1>3, <1>4, <2>1
  <2> QED
    BY <1>1, <1>3, <2>1, <2>2 DEF Keeps
<1> QED
  BY <1>6, <1>7

LEMMA NotedIs ==
  ASSUME NEW l \in Ledger, NEW firing \in Firing, NEW outcome \in Outcomes
  PROVE  LET m == Noted(l, firing, outcome)
         IN  /\ m.born = l.born /\ m.reset = l.reset /\ m.lost = l.lost
             /\ m.heard = l.heard + Heard(firing, outcome)
<1>1. Noted(l, firing, outcome) = [l EXCEPT !.heard = @ + Heard(firing, outcome)]
  BY DEF Noted
<1> QED
  BY <1>1 DEF Ledger

(* Settling tells of every mark that the delivery carried: the handler has  *)
(* heard of it, it is counted as missed, or it is queued.                  *)
LEMMA CarriedIsTold ==
  ASSUME NEW b, NEW e, NEW d, d.firing \in Firing, NEW outcome \in Outcomes,
         LET queued == RetryQueued(b, e, d.firing, outcome)
         IN  IsOnce(e.spec) => queued
  PROVE  Heard(d.firing, outcome) + Unheard(b, e, d.firing, outcome)
           + (IF RetryQueued(b, e, d.firing, outcome) THEN 1 ELSE 0) = Carried(d)
<1> DEFINE h == Heard(d.firing, outcome)
           u == Unheard(b, e, d.firing, outcome)
           q == RetryQueued(b, e, d.firing, outcome)
           c == IF d.firing.attempt = 1 THEN d.firing.missed ELSE 0
<1>1. c \in Nat /\ Carried(d) = 1 + c
  BY DEF Firing, Carried
<1>2. CASE outcome \in {"handled", "failed"}
  <2>1. h = c + 1 /\ u = 0 /\ ~q
    BY <1>2 DEF Heard, Unheard, RetryQueued
  <2> HIDE DEF h, u, q, c
  <2> QED
    BY <1>1, <2>1 DEF h, u, q
<1>3. CASE outcome = "retry"
  <2>1. h = c + 0 /\ u = IF IsOnce(e.spec) \/ q THEN 0 ELSE 1
    BY <1>3 DEF Heard, Unheard
  <2>2. IsOnce(e.spec) => q
    OBVIOUS
  <2> HIDE DEF h, u, q, c
  <2> QED
    BY <1>1, <2>1, <2>2 DEF h, u, q
<1>4. CASE outcome = "undeliverable"
  <2>1. h = 0 /\ ~q /\ u = c + 1
    BY <1>1, <1>4 DEF Heard, Unheard, RetryQueued, Firing
  <2> HIDE DEF h, u, q, c
  <2> QED
    BY <1>1, <2>1 DEF h, u, q
<1> QED
  BY <1>2, <1>3, <1>4 DEF Outcomes

LEMMA SettledAccount ==
  ASSUME TypeInv, LatestInv, NEW s \in Slot, Held(s)', SettledAt(s),
         ~IsOnce(entries'[s].spec)
  PROVE  Keeps(s) \/ Takes(s)
<1>1. PICK b \in Bindings, d \in inflight, outcome \in Outcomes :
        /\ Held(s) /\ entries'[s] = Settled(b, entries[s], d.firing, outcome)
        /\ ledger'[s] = Noted(ledger[s], d.firing, outcome)
        /\ Running(s) = {d} /\ Running(s)' = {}
  BY DEF SettledAt
<1> DEFINE e == entries[s]
           c == CaughtUp(e)
           g == Concluded(c)
           f == Settled(b, e, d.firing, outcome)
           l == ledger[s]
           m == Noted(l, d.firing, outcome)
           queued == RetryQueued(b, g, d.firing, outcome)
           u == Unheard(b, g, d.firing, outcome)
           h == Heard(d.firing, outcome)
           k == Occurrence(e).skipped
<1>2. e \in Entry /\ Shaped(e) /\ entries'[s] = f /\ f # NoEntry /\ Held(s)
  BY <1>1, HeldEntry DEF Held
<1>3. d.firing \in Firing /\ d.firing.attempt > 0 /\ b \in Bindings \cup {NoBinding}
  BY DEF TypeInv, TypeOK, WellFormed, Dispatch
<1>4. ~Pending(e)
  BY <1>1, <1>2, RunningLatest DEF CountedIsOvertaken
<1>5. /\ f.spec = e.spec /\ g.spec = e.spec /\ f.missed = c.missed + u /\ u \in Nat
      /\ f.due = g.due /\ g.due = IF IsOnce(e.spec) THEN Never ELSE c.due
      /\ queued => f.retry.firing = d.firing
      /\ ~queued => f.retry = c.retry
  <2> HIDE DEF e
  <2> QED
    BY <1>2, <1>3, SettledIs
<1>6. f.due = c.due /\ ~IsOnce(e.spec)
  BY <1>2, <1>5
<1>7. m.born = l.born /\ m.reset = l.reset /\ m.lost = l.lost /\ m.heard = l.heard + h
  <2>1. l \in Ledger
    BY <1>2, AccountTypes
  <2> HIDE DEF l
  <2> QED
    BY <1>3, <2>1, NotedIs
<1>8. /\ Told(s) = l.heard + l.lost + (e.missed + Queue(e) + Borne(Running(s)))
      /\ Told(s)' = m.heard + m.lost + (f.missed + Queue(f) + Borne(Running(s)'))
      /\ Borne(Running(s)) = Carried(d) /\ Borne(Running(s)') = 0
  BY <1>1, ToldIs, ToldNext, BorneOne DEF Account
<1>9. /\ e.missed \in Nat /\ l.heard \in Nat /\ l.lost \in Nat /\ Carried(d) \in Nat
      /\ Queue(e) = 0 /\ h \in Nat
  BY <1>2, <1>3, <1>4, AccountTypes, CarriedType, HeardType DEF Queue
<1>10. h + u + (IF queued THEN 1 ELSE 0) = Carried(d)
  <2>1. IsOnce(g.spec) => queued
    BY <1>5, <1>6
  <2> HIDE DEF g
  <2> QED
    BY <1>3, <2>1, CarriedIsTold
<1>11. /\ c.missed \in Nat
       /\ \/ c = e
          \/ /\ IsDue(e) /\ c.due = Advanced(e).due /\ k \in Nat
             /\ c.missed = e.missed + k + 1
       /\ ~Pending(c)
  <2>1. \/ c = e
        \/ /\ IsDue(e) /\ c.due = Advanced(e).due /\ k \in Nat
           /\ c.missed = e.missed + k + 1 /\ c.retry = NoRetry
    <3> HIDE DEF e
    <3> QED
      BY <1>2, CaughtUpIs
  <2>2. CASE c = e
    BY <1>4, <1>9, <2>2
  <2>3. CASE /\ IsDue(e) /\ c.due = Advanced(e).due /\ k \in Nat
             /\ c.missed = e.missed + k + 1 /\ c.retry = NoRetry
    <3>1. ~Pending(c)
      BY <2>3, NoRetryType DEF Pending
    <3> HIDE DEF e, c, k
    <3> QED
      BY <1>9, <2>3, <3>1
  <2> QED
    BY <2>1, <2>2, <2>3
<1>12. Queue(f) = IF queued THEN 1 ELSE 0
  <2> HIDE DEF f, c, queued
  <2> QED
    BY <1>3, <1>5, <1>11 DEF Queue, Pending
<1>13. Told(s)' = Told(s) + (c.missed - e.missed)
  <2> DEFINE one == IF queued THEN 1 ELSE 0
  <2>1. one \in Nat
    OBVIOUS
  <2>2. h + u + one = Carried(d) /\ Queue(f) = one
    BY <1>10, <1>12
  <2>3. f.missed = c.missed + u /\ u \in Nat
    BY <1>5
  <2> HIDE DEF e, c, f, l, m, u, h, one
  <2> QED
    BY <1>7, <1>8, <1>9, <1>11, <2>1, <2>2, <2>3
<1>14. ledger'[s].born = l.born /\ ledger'[s].reset = l.reset
  BY <1>1, <1>7
<1>15. entries'[s].spec = e.spec /\ entries'[s].due = c.due
  BY <1>2, <1>5, <1>6
<1>16. CASE c = e
  <2>1. Told(s)' = Told(s)
    BY <1>2, <1>9, <1>13, <1>16, AccountTypes
  <2> HIDE DEF c
  <2> QED
    BY <1>2, <1>14, <1>15, <1>16, <2>1 DEF Keeps
<1>17. CASE /\ IsDue(e) /\ c.due = Advanced(e).due /\ k \in Nat
            /\ c.missed = e.missed + k + 1
  <2>1. Told(s) \in Nat
    BY <1>2, AccountTypes
  <2>2. Told(s)' = Told(s) + k + 1
    <3> HIDE DEF e, c, k
    <3> QED
      BY <1>9, <1>13, <1>17, <2>1
  <2> HIDE DEF c
  <2> QED
    BY <1>2, <1>14, <1>15, <1>17, <2>2 DEF Takes
<1> QED
  BY <1>11, <1>16, <1>17

LEMMA AccountEvolves ==
  ASSUME TypeInv, OverlapInv, GrantInv, LatestInv, [Next]_vars,
         NEW s \in Slot, Held(s)', ~IsOnce(entries'[s].spec)
  PROVE  Keeps(s) \/ (UNCHANGED clocks /\ (Made(s) \/ Takes(s) \/ Resets(s)))
<1>1. Evolves(s)
  BY SlotEvolves
<1>2. CASE Stays(s)
  <2>1. Told(s)' = Told(s)
    BY <1>2, ToldIs, ToldNext DEF Stays
  <2> QED
    BY <1>2, <2>1 DEF Stays, Keeps
<1>3. CASE Voided(s)
  <2>1. PICK b \in Bindings :
          RetryVoided(b, entries[s]) /\ entries'[s] = WithoutVoidedRetry(b, entries[s])
    BY <1>3 DEF Voided
  <2> DEFINE e == entries[s]
             f == entries'[s]
             l == ledger[s]
  <2>2. /\ Held(s) /\ e \in Entry /\ ledger'[s] = l /\ Running(s)' = Running(s)
        /\ Pending(e)
    BY <1>3, HeldEntry DEF Voided
  <2>3. f.spec = e.spec /\ f.due = e.due /\ f.missed = e.missed + 1 /\ f.retry = NoRetry
    BY <2>1, <2>2, VoidedIs
  <2>4. Queue(e) = 1 /\ Queue(f) = 0
    BY <2>2, <2>3, NoRetryType DEF Queue, Pending
  <2>5. /\ Told(s) = l.heard + l.lost + (e.missed + 1 + Borne(Running(s)))
        /\ Told(s)' = l.heard + l.lost + (f.missed + 0 + Borne(Running(s)))
    BY <2>2, <2>4, ToldIs, ToldNext DEF Account
  <2>6. e.missed \in Nat /\ l.heard \in Nat /\ l.lost \in Nat /\ Borne(Running(s)) \in Nat
    BY <2>2, AccountTypes
  <2>7. Told(s)' = Told(s)
    <3> HIDE DEF e, f, l
    <3> QED
      BY <2>3, <2>5, <2>6
  <2> QED
    BY <2>2, <2>3, <2>7 DEF Keeps
<1> QED
  BY <1>1, <1>2, <1>3, PolledAccount, StaleAccount, SettledAccount DEF Evolves

-----------------------------------------------------------------------------
(***************************************************************************)
(* Every mark is accounted for.                                            *)
(***************************************************************************)
Matched(c, born, due) ==
  { m \in Matches[c] : m > born /\ (due = Never \/ m < due.at) }

(* What an account tells of the instants that matched, and what makes it   *)
(* last: they are finitely many, and the next mark is after the first.     *)
Agrees(told, c, born, due) ==
  LET matched == Matched(c, born, due)
  IN  /\ IsFiniteSet(matched) /\ (due # Never => due.at > born)
      /\ told <= Cardinality(matched)
      /\ Cardinality(matched) <= MAX_CATCH_UP => told = Cardinality(matched)

MarksInv ==
  \A s \in Slot :
    LET e == entries[s]
        l == ledger[s]
    IN  Held(s) =>
          /\ e.spec.kind = "interval" => e.due.at = l.born + e.spec.arg * (1 + Told(s))
          /\ e.spec.kind = "cron" /\ ~l.reset =>
               Agrees(Told(s), e.spec.arg, l.born, e.due)

LEMMA HeldMarks ==
  ASSUME MarksInv, NEW s \in Slot, Held(s)
  PROVE  LET e == entries[s]
             l == ledger[s]
         IN  /\ e.spec.kind = "interval" =>
                  e.due.at = l.born + e.spec.arg * (1 + Told(s))
             /\ e.spec.kind = "cron" /\ ~l.reset =>
                  Agrees(Told(s), e.spec.arg, l.born, e.due)
  BY DEF MarksInv

LEMMA Distributes == \A a, x, y \in Int : a * x + y * a = a * (x + y)
  OBVIOUS

(* A new account: nothing has matched, and nothing is told. *)
LEMMA OpensTrue ==
  ASSUME TypeInv, NEW c \in DOMAIN Matches
  PROVE  Agrees(0, c, wall, NextAfter(c, wall))
<1> DEFINE due == NextAfter(c, wall)
           matched == Matched(c, wall, due)
<1>1. wall \in Int /\ Matches[c] \subseteq Int
  BY ClockAssumption DEF TypeInv, TypeOK
<1>2. \/ due = Never /\ \A k \in Matches[c] : ~(k > wall)
      \/ /\ due.on = "wall" /\ due.at \in Matches[c] /\ due.at > wall
         /\ \A k \in Matches[c] : k > wall => due.at <= k
  BY <1>1, NextAfterIs
<1> HIDE DEF due
<1>3. matched = {}
  <2> SUFFICES ASSUME NEW m \in Matches[c], m > wall, due = Never \/ m < due.at PROVE FALSE
    BY DEF Matched
  <2>1. CASE due = Never /\ \A k \in Matches[c] : ~(k > wall)
    BY <2>1
  <2>2. CASE /\ due.on = "wall" /\ due.at \in Matches[c]
             /\ \A k \in Matches[c] : k > wall => due.at <= k
    <3>1. due # Never
      BY <2>2 DEF Never
    <3> QED
      BY <1>1, <2>2, <3>1
  <2> QED
    BY <1>2, <2>1, <2>2
<1>4. IsFiniteSet(matched) /\ Cardinality(matched) = 0
  BY <1>3, FS_EmptySet
<1>5. due # Never => due.at > wall
  BY <1>2
<1> HIDE DEF matched
<1> QED
  BY <1>4, <1>5 DEF Agrees, matched, due

(* An account kept up: the mark it waited for and those that passed.        *)
LEMMA StaysTrue ==
  ASSUME TypeInv, NEW c \in DOMAIN Matches, NEW told \in Nat, NEW born \in Int,
         NEW due, due # Never, due.at \in Matches[c], due.at <= wall,
         Agrees(told, c, born, due)
  PROVE  Agrees(told + Lower(Cardinality(Passed(c, due.at)), MAX_CATCH_UP) + 1,
                c, born, NextAfter(c, wall))
<1> DEFINE M == Matches[c]
           at == due.at
           new == NextAfter(c, wall)
           P == Passed(c, at)
           A == Matched(c, born, due)
           B == Matched(c, born, new)
<1>1. wall \in Int /\ M \subseteq Int /\ at \in M /\ at \in Int
  BY ClockAssumption DEF TypeInv, TypeOK
<1>2. \/ new = Never /\ \A k \in M : ~(k > wall)
      \/ /\ new.on = "wall" /\ new.at \in M /\ new.at > wall
         /\ \A k \in M : k > wall => new.at <= k
  BY <1>1, NextAfterIs
<1>3. /\ IsFiniteSet(A) /\ at > born /\ told <= Cardinality(A)
      /\ Cardinality(A) <= MAX_CATCH_UP => told = Cardinality(A)
  BY DEF Agrees
<1>4. A = { m \in M : m > born /\ m < at } /\ P = { m \in M : at < m /\ m <= wall }
  BY DEF Matched, Passed
<1>5. B = { m \in M : m > born /\ m <= wall }
  <2> HIDE DEF new
  <2>1. CASE new = Never /\ \A k \in M : ~(k > wall)
    <3>1. \A m \in M : m <= wall
      BY <1>1, <2>1
    <3> QED
      BY <2>1, <3>1 DEF Matched
  <2>2. CASE /\ new.on = "wall" /\ new.at \in M /\ new.at > wall
             /\ \A k \in M : k > wall => new.at <= k
    <3>1. new # Never
      BY <2>2 DEF Never
    <3>2. \A m \in M : m < new.at <=> m <= wall
      <4> SUFFICES ASSUME NEW m \in M PROVE m < new.at <=> m <= wall
        OBVIOUS
      <4>1. new.at \in Int /\ m \in Int
        BY <1>1, <2>2
      <4>2. CASE m > wall
        BY <1>1, <2>2, <4>1, <4>2
      <4>3. CASE ~(m > wall)
        BY <1>1, <2>2, <4>1, <4>3
      <4> QED
        BY <4>2, <4>3
    <3> QED
      BY <3>1, <3>2 DEF Matched
  <2> QED
    BY <1>2, <2>1, <2>2
<1>6. B = (A \cup {at}) \cup P /\ at \notin A /\ (A \cup {at}) \cap P = {}
  <2> HIDE DEF A, B, P
  <2>1. \A m \in M : m \in B <=> m \in A \/ m = at \/ m \in P
    <3> SUFFICES ASSUME NEW m \in M PROVE m \in B <=> m \in A \/ m = at \/ m \in P
      OBVIOUS
    <3>1. m \in Int
      BY <1>1
    <3>2. (m \in B <=> m > born /\ m <= wall) /\ (m \in A <=> m > born /\ m < at)
            /\ (m \in P <=> at < m /\ m <= wall)
      BY <1>4, <1>5
    <3>3. born < at /\ at <= wall
      BY <1>1, <1>3
    <3> HIDE DEF at
    <3> QED
      BY <1>1, <3>1, <3>2, <3>3
  <2>2. B \subseteq M /\ A \subseteq M /\ P \subseteq M
    BY <1>4, <1>5
  <2>3. at \notin A /\ at \notin P
    BY <1>1, <1>4
  <2>4. \A m \in A : m \notin P
    <3> SUFFICES ASSUME NEW m \in A, m \in P PROVE FALSE
      OBVIOUS
    <3>1. m \in Int /\ m < at /\ at < m
      BY <1>1, <1>4, <2>2
    <3> HIDE DEF at
    <3> QED
      BY <1>1, <3>1
  <2> QED
    BY <1>1, <2>1, <2>2, <2>3, <2>4
<1>7. IsFiniteSet(P) /\ Cardinality(P) \in Nat
  <2>1. P \subseteq at .. wall
    BY <1>1, <1>4
  <2>2. IsFiniteSet(at .. wall)
    BY <1>1, FS_Interval
  <2> QED
    BY <2>1, <2>2, FS_Subset, FS_CardinalityType
<1> HIDE DEF A, B, P, at, new, M
<1>8. Cardinality(A) \in Nat
  BY <1>3, FS_CardinalityType
<1>9. IsFiniteSet(A \cup {at}) /\ Cardinality(A \cup {at}) = Cardinality(A) + 1
  BY <1>3, <1>6, FS_AddElement
<1>10. IsFiniteSet(B) /\ Cardinality(B) = Cardinality(A) + 1 + Cardinality(P)
  <2> DEFINE Q == A \cup {at}
  <2>1. IsFiniteSet(Q \cup P)
          /\ Cardinality(Q \cup P) = Cardinality(Q) + Cardinality(P) - Cardinality(Q \cap P)
    <3>1. IsFiniteSet(Q)
      BY <1>9
    <3> HIDE DEF Q
    <3> QED
      BY <1>7, <3>1, FS_Union
  <2>2. Cardinality(Q \cap P) = 0
    BY <1>6, FS_EmptySet
  <2>3. Cardinality(Q) = Cardinality(A) + 1 /\ B = Q \cup P
    BY <1>6, <1>9
  <2> HIDE DEF Q
  <2> QED
    BY <1>7, <1>8, <2>1, <2>2, <2>3
<1>11. new # Never => new.at > born
  <2> SUFFICES ASSUME new # Never PROVE new.at > born
    OBVIOUS
  <2>1. new.at > wall /\ new.at \in Int
    BY <1>1, <1>2
  <2>2. at > born /\ at <= wall
    BY <1>3 DEF at
  <2> QED
    BY <1>1, <2>1, <2>2
<1>12. LET n == told + Lower(Cardinality(P), MAX_CATCH_UP) + 1
       IN  /\ n <= Cardinality(B)
           /\ Cardinality(B) <= MAX_CATCH_UP => n = Cardinality(B)
  <2> DEFINE a == Cardinality(A)
             p == Cardinality(P)
             t == Cardinality(B)
  <2>1. a \in Nat /\ p \in Nat /\ t = a + 1 + p /\ MAX_CATCH_UP \in Nat /\ told <= a
          /\ (a <= MAX_CATCH_UP => told = a)
    BY <1>3, <1>7, <1>8, <1>10, ClockAssumption
  <2> HIDE DEF a, p, t
  <2> QED
    BY <2>1 DEF Lower, a, p, t
<1> QED
  BY <1>10, <1>11, <1>12 DEF Agrees, B, P, new, at

LEMMA MarksStep ==
  TypeInv /\ OverlapInv /\ GrantInv /\ LatestInv /\ DueInv /\ MarksInv /\ [Next]_vars
    => MarksInv'
<1> SUFFICES ASSUME TypeInv, OverlapInv, GrantInv, LatestInv, DueInv, MarksInv, [Next]_vars,
                    NEW s \in Slot, Held(s)'
             PROVE  LET f == entries'[s]
                        m == ledger'[s]
                    IN  /\ f.spec.kind = "interval" =>
                             f.due.at = m.born + f.spec.arg * (1 + Told(s)')
                        /\ f.spec.kind = "cron" /\ ~m.reset =>
                             Agrees(Told(s)', f.spec.arg, m.born, f.due)
  BY DEF MarksInv, Agrees, Matched
<1> DEFINE e == entries[s]
           f == entries'[s]
           l == ledger[s]
           m == ledger'[s]
<1>1. CASE IsOnce(f.spec)
  BY <1>1 DEF IsOnce
<1>2. CASE Keeps(s)
  <2>1. /\ Held(s) /\ f.spec = e.spec /\ f.due = e.due /\ m.born = l.born
        /\ m.reset = l.reset /\ Told(s)' = Told(s)
    BY <1>2 DEF Keeps
  <2> HIDE DEF f, m
  <2> QED
    BY <2>1, HeldMarks DEF f, m
<1>3. CASE UNCHANGED clocks /\ Made(s)
  <2>1. PICK spec \in Specs, declared \in BOOLEAN, k \in Nat :
          /\ f = NewEntry(spec, declared, k) /\ m = Opened(spec) /\ Running(s)' = {}
    BY <1>3 DEF Made
  <2>2. /\ f.due = FirstDue(spec) /\ f.spec = spec /\ f.missed = 0 /\ Queue(f) = 0
    BY <2>1, NewEntryIs DEF Queue
  <2>3. /\ m.heard = 0 /\ m.lost = 0
        /\ m.born = IF spec.kind \in {"cron", "onceAt"} THEN wall ELSE mono
    BY <2>1 DEF Opened
  <2>4. Told(s)' = 0
    BY <2>1, <2>2, <2>3, ToldNext, BorneOne DEF Account
  <2>5. CASE spec.kind = "interval"
    <3>1. f.due.at = mono + spec.arg /\ m.born = mono
      BY <2>2, <2>3, <2>5 DEF FirstDue
    <3>2. spec.arg \in Int /\ mono \in Int
      BY SpecTypes DEF TypeInv, TypeOK
    <3> HIDE DEF f, m
    <3> QED
      BY <2>2, <2>4, <2>5, <3>1, <3>2 DEF f, m
  <2>6. CASE spec.kind = "cron"
    <3>1. f.due = NextAfter(spec.arg, wall) /\ m.born = wall
      BY <2>2, <2>3, <2>6 DEF FirstDue
    <3>2. spec.arg \in DOMAIN Matches
      BY <2>6, SpecTypes
    <3> HIDE DEF f, m
    <3> QED
      BY <2>2, <2>4, <2>6, <3>1, <3>2, OpensTrue DEF f, m
  <2> QED
    BY <2>2, <2>5, <2>6
<1>4. CASE UNCHANGED clocks /\ Takes(s)
  <2> DEFINE k == Occurrence(e).skipped
  <2>1. /\ Held(s) /\ IsDue(e) /\ f.spec = e.spec /\ f.due = Advanced(e).due
        /\ m.born = l.born /\ m.reset = l.reset /\ k \in Nat
        /\ Told(s)' = Told(s) + k + 1
    BY <1>4 DEF Takes
  <2>2. /\ e \in Entry /\ Shaped(e) /\ DueFits(e.spec, e.due)
        /\ Told(s) \in Nat /\ l.born \in Int
    BY <2>1, HeldEntry, HeldDue, AccountTypes
  <2>3. CASE e.spec.kind = "interval"
    <3>1. f.due.at = e.due.at + (Elapsed(e) + 1) * e.spec.arg
      BY <2>1, <2>2, <2>3, AdvancedIs
    <3>2. e.due.at = l.born + e.spec.arg * (1 + Told(s))
      BY <2>1, <2>3, HeldMarks
    <3>3. k = Elapsed(e)
      BY <2>3 DEF Occurrence
    <3>4. e.spec.arg \in Int
      BY <2>2, SpecTypes DEF Entry
    <3> DEFINE arg == e.spec.arg
               told == Told(s)
    <3>5. arg * (1 + told) + (k + 1) * arg = arg * (1 + (told + k + 1))
      <4>1. arg \in Int /\ 1 + told \in Int /\ k + 1 \in Int
        BY <2>1, <2>2, <3>4
      <4> HIDE DEF arg, told, k
      <4>2. arg * (1 + told) + (k + 1) * arg = arg * ((1 + told) + (k + 1))
        BY <4>1, Distributes
      <4>3. (1 + told) + (k + 1) = 1 + (told + k + 1)
        BY <2>1, <2>2 DEF told, k
      <4> QED
        BY <4>2, <4>3
    <3>6. arg * (1 + told) \in Int /\ (k + 1) * arg \in Int
      BY <2>1, <2>2, <3>4
    <3>7. f.due.at = l.born + arg * (1 + Told(s)')
      <4>1. f.due.at = (l.born + arg * (1 + told)) + (k + 1) * arg
        BY <3>1, <3>2, <3>3
      <4>2. Told(s)' = told + k + 1
        BY <2>1
      <4> DEFINE x == arg * (1 + told)
                 y == (k + 1) * arg
      <4>3. x \in Int /\ y \in Int /\ (l.born + x) + y = l.born + (x + y)
        BY <2>2, <3>6
      <4> HIDE DEF f, l, x, y
      <4> QED
        BY <3>5, <4>1, <4>2, <4>3 DEF x, y
    <3> HIDE DEF f, m
    <3> QED
      BY <2>1, <2>3, <3>7 DEF f, m
  <2>4. CASE e.spec.kind = "cron"
    <3>1. /\ e.due.on = "wall" /\ e.due.at <= wall /\ e.due.at \in Matches[e.spec.arg]
          /\ e.spec.arg \in DOMAIN Matches
      BY <2>1, <2>2, <2>4, CronDue
    <3>2. f.due = NextAfter(e.spec.arg, wall)
      BY <2>1, <2>2, <2>4, AdvancedIs
    <3>3. k = Lower(Cardinality(Passed(e.spec.arg, e.due.at)), MAX_CATCH_UP)
      BY <2>4 DEF Occurrence
    <3>4. e.due # Never
      BY <3>1 DEF Never
    <3>5. ASSUME ~m.reset PROVE Agrees(Told(s)', e.spec.arg, m.born, f.due)
      <4>1. Agrees(Told(s), e.spec.arg, l.born, e.due)
        BY <2>1, <2>4, <3>5, HeldMarks
      <4>2. Agrees(Told(s) + Lower(Cardinality(Passed(e.spec.arg, e.due.at)), MAX_CATCH_UP) + 1,
                   e.spec.arg, l.born, NextAfter(e.spec.arg, wall))
        BY <2>2, <3>1, <3>4, <4>1, StaysTrue
      <4> HIDE DEF e, f, m, l, k
      <4> QED
        BY <2>1, <3>2, <3>3, <4>2
    <3> HIDE DEF f, m
    <3> QED
      BY <2>1, <2>4, <3>5 DEF f, m
  <2> HIDE DEF f, m
  <2> QED
    BY <2>1, <2>3, <2>4 DEF f, m
<1>5. CASE UNCHANGED clocks /\ Resets(s)
  <2>1. f.spec = e.spec /\ e.spec.kind = "cron" /\ m.reset
    BY <1>5 DEF Resets
  <2> QED
    BY <2>1
<1>6. ~IsOnce(f.spec) => Keeps(s) \/ (UNCHANGED clocks /\ (Made(s) \/ Takes(s) \/ Resets(s)))
  BY AccountEvolves
<1> QED
  BY <1>1, <1>2, <1>3, <1>4, <1>5, <1>6

LEMMA MarksHold ==
  ASSUME TypeInv, MarksInv PROVE EveryMarkAccounted
<1>1. EveryPeriodAccounted
  <2> SUFFICES ASSUME NEW s \in Slot, Held(s), entries[s].spec.kind = "interval"
               PROVE  entries[s].due.at = ledger[s].born + entries[s].spec.arg
                        * (1 + (ledger[s].heard + ledger[s].lost + Unreported(s)))
    BY DEF EveryPeriodAccounted
  <2> QED
    BY HeldMarks DEF Told
<1>2. EveryMatchAccounted
  <2> SUFFICES ASSUME NEW s \in Slot, Held(s), entries[s].spec.kind = "cron",
                      ~ledger[s].reset
               PROVE  LET matched == { m \in Matches[entries[s].spec.arg] :
                                         /\ m > ledger[s].born
                                         /\ entries[s].due = Never \/ m < entries[s].due.at }
                          told == ledger[s].heard + ledger[s].lost + Unreported(s)
                      IN  /\ told <= Cardinality(matched)
                          /\ Cardinality(matched) <= MAX_CATCH_UP =>
                               told = Cardinality(matched)
    BY DEF EveryMatchAccounted
  <2>1. Agrees(Told(s), entries[s].spec.arg, ledger[s].born, entries[s].due)
    BY HeldMarks
  <2> QED
    BY <2>1 DEF Agrees, Matched, Told
<1> QED
  BY <1>1, <1>2 DEF EveryMarkAccounted

(* EveryMarkAccounted is an invariant: every period of an interval, and     *)
(* every instant that a crontab matched, was told to the handler, or is    *)
(* counted, queued, or on its way to it.                                   *)
THEOREM NoMarkIsLost == Spec => []EveryMarkAccounted
<1>1. Init => LatestInv /\ MarksInv
  BY DEF Init, LatestInv, MarksInv, Held
<1>2. TypeInv /\ MarksInv => EveryMarkAccounted
  BY MarksHold
<1> QED
  BY <1>1, <1>2, LatestStep, MarksStep, DueInvariant, PTL DEF Spec
=============================================================================
