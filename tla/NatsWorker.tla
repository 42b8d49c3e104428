----------------------------- MODULE NatsWorker -----------------------------
(***************************************************************************)
(* The JetStream pull worker template, in Rust and in Go.  A trigger makes *)
(* it drain its consumer: it fetches batches and acknowledges what they    *)
(* hold until nothing is left or it has made MAX_ROUNDS rounds, and then   *)
(* publishes how many it acknowledged.  The binding lets one call of the   *)
(* handler run at a time.                                                  *)
(*                                                                         *)
(* The server and the host are external.  A handle of a message holds a    *)
(* share of the host's budget until it is dropped, and a fetch gets no     *)
(* more than the budget leaves.                                            *)
(***************************************************************************)
EXTENDS Naturals, Sequences, SequencesExt

CONSTANTS
  Messages,
  BATCH, MAX_ROUNDS,
  Budget,        \* how many handles the host lets a component hold
  MaxDrains,     \* bound on triggers, until the messages are acknowledged
  MaxFaults      \* bound on calls that fail

VARIABLES
  go,            \* whether the template is the one in Go
  unread,        \* messages the consumer has to deliver
  acked,
  held,          \* handles the guest has not dropped
  pc, round, batch, count,   \* the drain under way
  receipts,      \* what the receipts of all drains add up to
  drains, faults

vars == <<go, unread, acked, held, pc, round, batch, count, receipts, drains, faults>>

Fault == faults < MaxFaults /\ faults' = faults + 1

\* What the loop releases when it has the acknowledgement of the first of these
\* handles, or its failure: an early return drops the rest of the vector.
RustReleases(rest, failed) == IF failed THEN Range(rest) ELSE {Head(rest)}

\* Mutant of GoReleases: the early return leaves the handles behind.
GoForgets(rest, failed) == IF failed THEN {} ELSE {Head(rest)}

\* In Go each handle is dropped by a statement.
GoReleases(rest, failed) == IF failed THEN Range(rest) ELSE {Head(rest)}

Releases(rest, failed) == IF go THEN GoReleases(rest, failed) ELSE RustReleases(rest, failed)

-----------------------------------------------------------------------------

Trigger ==
  /\ pc = "idle" /\ drains < MaxDrains
  /\ drains' = IF acked = Messages THEN drains + 1 ELSE drains
  /\ pc' = "open" /\ round' = 0 /\ count' = 0
  /\ UNCHANGED <<go, unread, acked, held, batch, receipts, faults>>

Open ==
  /\ pc = "open"
  /\ pc' = "fetch"
  /\ UNCHANGED <<go, unread, acked, held, round, batch, count, receipts, drains, faults>>

\* fetch returns messages, and has the handles of them.
Fetch ==
  /\ pc = "fetch" /\ round < MAX_ROUNDS
  /\ \E n \in 1..BATCH : \E got \in kSubset(n, unread) :
       /\ Cardinality(held) + n <= Budget
       /\ batch' = SetToSeq(got)
       /\ held' = held \cup got
       /\ unread' = unread \ got
  /\ pc' = "ack" /\ round' = round + 1
  /\ UNCHANGED <<go, acked, count, receipts, drains, faults>>

\* Nothing comes within the timeout: no-messages, or an empty batch that is drained.
FetchNothing ==
  /\ pc = "fetch" /\ round < MAX_ROUNDS
  /\ unread = {} \/ Cardinality(held) >= Budget
  /\ pc' = "publish"
  /\ UNCHANGED <<go, unread, acked, held, round, batch, count, receipts, drains, faults>>

\* An empty batch that is not drained is no end.
FetchTimesOut ==
  /\ pc = "fetch" /\ round < MAX_ROUNDS /\ unread = {}
  /\ round' = round + 1
  /\ UNCHANGED <<go, unread, acked, held, pc, batch, count, receipts, drains, faults>>

RoundsAreOver ==
  /\ pc = "fetch" /\ round = MAX_ROUNDS
  /\ pc' = "publish"
  /\ UNCHANGED <<go, unread, acked, held, round, batch, count, receipts, drains, faults>>

\* Mutant of Ack: a message is counted as it is handed over.
AckCounted ==
  /\ pc = "ack"
  /\ acked' = acked \cup {Head(batch)}
  /\ unread' = unread \ {Head(batch)}
  /\ held' = held \ Releases(batch, FALSE)
  /\ count' = count + Len(batch)
  /\ batch' = Tail(batch)
  /\ pc' = IF Len(batch) = 1 THEN "fetch" ELSE "ack"
  /\ UNCHANGED <<go, round, receipts, drains, faults>>

Ack ==
  /\ pc = "ack"
  /\ acked' = acked \cup {Head(batch)}
  /\ unread' = unread \ {Head(batch)}
  /\ held' = held \ Releases(batch, FALSE)
  /\ count' = count + 1
  /\ batch' = Tail(batch)
  /\ pc' = IF Len(batch) = 1 THEN "fetch" ELSE "ack"
  /\ UNCHANGED <<go, round, receipts, drains, faults>>

\* An acknowledgement that fails may have reached the server.
AckFails ==
  /\ pc = "ack" /\ Fault
  /\ acked' \in {acked, acked \cup {Head(batch)}}
  /\ unread' = unread \ acked'
  /\ held' = held \ Releases(batch, TRUE)
  /\ batch' = << >> /\ pc' = "idle"
  /\ UNCHANGED <<go, round, count, receipts, drains>>

Publish ==
  /\ pc = "publish"
  /\ receipts' = receipts + count
  /\ pc' = "idle"
  /\ UNCHANGED <<go, unread, acked, held, round, batch, count, drains, faults>>

\* The consumer cannot be opened, a fetch or the receipt fails: an error is all
\* there is of this drain, even if the stream took the receipt.
CallFails ==
  /\ pc \in {"open", "fetch", "publish"} /\ Fault
  /\ pc' = "idle"
  /\ receipts' \in IF pc = "publish" THEN {receipts, receipts + count} ELSE {receipts}
  /\ UNCHANGED <<go, unread, acked, held, round, batch, count, drains>>

\* The handler traps: what its instance held is dropped with it.
Trap ==
  /\ pc # "idle" /\ Fault
  /\ pc' = "idle" /\ batch' = << >> /\ held' = {}
  /\ UNCHANGED <<go, unread, acked, round, count, receipts, drains>>

\* What is not acknowledged in time is delivered again, while a handle of it is
\* held or after.
Redeliver ==
  /\ \E m \in Messages \ (acked \cup unread) : unread' = unread \cup {m}
  /\ UNCHANGED <<go, acked, held, pc, round, batch, count, receipts, drains, faults>>

Init ==
  /\ go \in BOOLEAN
  /\ unread = Messages /\ acked = {} /\ held = {}
  /\ pc = "idle" /\ round = 0 /\ batch = << >> /\ count = 0
  /\ receipts = 0 /\ drains = 0 /\ faults = 0

Drain == Open \/ Fetch \/ FetchNothing \/ RoundsAreOver \/ Ack \/ Publish

Next == Trigger \/ Drain \/ FetchTimesOut \/ AckFails \/ CallFails \/ Trap \/ Redeliver

\* Triggers keep coming, and the server redelivers.
Fairness == WF_vars(Trigger) /\ WF_vars(Drain) /\ WF_vars(Redeliver)

Spec == Init /\ [][Next]_vars
FairSpec == Spec /\ Fairness

-----------------------------------------------------------------------------

\* No acknowledgement is counted twice, by one receipt or by two, whatever was
\* redelivered and whichever drain failed; and no handle outlives its drain.
CountsAreOfAcks ==
  /\ receipts <= Cardinality(acked)
  /\ pc = "idle" => held = {}

\* Every message is acknowledged in the end.
AllAreAcked == <>(acked = Messages)
=============================================================================
