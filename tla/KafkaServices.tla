--------------------------- MODULE KafkaServices ---------------------------
(***************************************************************************)
(* The two services that read a Kafka topic, transform its records and     *)
(* write what comes out to another topic (src/components/kafka/rust):      *)
(*                                                                         *)
(*   kafka-pull-service   sends the outputs of a batch, then commits the   *)
(*     positions of the records it was handed; records that the transform  *)
(*     rejects go to a dead letter topic.  At least once.                  *)
(*   kafka-transactional  sends the outputs and the positions of a batch   *)
(*     in one transaction.  Exactly once.                                  *)
(*                                                                         *)
(* Both are one loop that exits on any error and is restarted by the host. *)
(* A step is one awaited call: the service may end between any two, and    *)
(* what a failed call did is unknown.                                      *)
(***************************************************************************)
EXTENDS Naturals, FiniteSets, FiniteSetsExt

CONSTANTS
  Partitions,   \* partitions of the input topic
  RECORDS,      \* records in each of them
  Services,     \* deployments: the service, its batch size, what it rejects
  MaxFaults     \* bound on failed calls, ends of the stream and crashes

(* A record is named by its partition and offset. *)
Record == Partitions \X (0 .. RECORDS - 1)

Deployment ==
  [kind : {"pull", "transactional"}, batch : Nat \ {0}, rejects : SUBSET Record]

(* The transform of the transactional service cannot fail. *)
KafkaAssumption ==
  /\ IsFiniteSet(Partitions) /\ RECORDS \in Nat /\ MaxFaults \in Nat
  /\ Services \subseteq Deployment
  /\ \A s \in Services : s.kind = "transactional" => s.rejects = {}
ASSUME KafkaAssumption

VARIABLES
  service,      \* the deployment that runs
  pc,           \* the call the service is in, "down" when there is none
  position,     \* per partition, the position behind what the loop was handed
  batch,        \* records whose outputs are pending
  rejected,     \* the record on its way to the dead letter topic, if any
  ending,       \* the record stream has ended
  transaction,  \* the transaction slot of the binding
  committed,    \* per partition, the committed position of the group
  out, dead,    \* how often a record is in the output and dead letter topics
  faults
loop   == <<pc, position, batch, rejected, ending>>
broker == <<transaction, committed, out, dead>>
vars   == <<service, loop, broker, faults>>

IsPull == service.kind = "pull"

NoTransaction == [open |-> FALSE, sent |-> {}, offsets |-> << >>]
NewTransaction == [NoTransaction EXCEPT !.open = TRUE]

Init ==
  /\ service \in Services
  /\ pc = "down" /\ batch = {} /\ rejected = {} /\ ending = FALSE
  /\ position = [p \in Partitions |-> 0]
  /\ committed = [p \in Partitions |-> 0]
  /\ transaction = NoTransaction
  /\ out = [r \in Record |-> 0]
  /\ dead = [r \in Record |-> 0]
  /\ faults = 0

Fault == faults < MaxFaults /\ faults' = faults + 1
Fine  == UNCHANGED faults

Delivered(topic, landed) ==
  [r \in Record |-> IF r \in landed THEN topic[r] + 1 ELSE topic[r]]

-----------------------------------------------------------------------------
(***************************************************************************)
(* The loop.                                                               *)
(***************************************************************************)

(* The consumer joins the group and reads on from what is committed.       *)
Start ==
  /\ pc = "down"
  /\ pc' = "reading"
  /\ position' = committed
  /\ batch' = {} /\ rejected' = {} /\ ending' = FALSE
  /\ UNCHANGED <<service, broker>> /\ Fine

(* Mutant: a batch is full when it is over its size. *)
Overfull(pending) == Cardinality(pending) > service.batch

Full(pending) == Cardinality(pending) >= service.batch

Processing == IF IsPull THEN "sending" ELSE "beginning"

(* A record is handed over, which stores its position, and transformed. *)
TakeRecord ==
  /\ pc = "reading"
  /\ \E p \in Partitions :
       LET rec == <<p, position[p]>> IN
       /\ position[p] < RECORDS
       /\ position' = [position EXCEPT ![p] = @ + 1]
       /\ \/ /\ rec \in service.rejects
             /\ rejected' = {rec}
             /\ pc' = IF batch = {} THEN "deadLetter" ELSE "sending"
             /\ UNCHANGED batch
          \/ /\ rec \notin service.rejects
             /\ batch' = batch \cup {rec}
             /\ pc' = IF Full(batch') THEN Processing ELSE "reading"
             /\ UNCHANGED rejected
  /\ UNCHANGED <<service, ending, broker>> /\ Fine

(* The stream of records ends; what is pending is processed before the exit. *)
EndStream ==
  /\ pc = "reading"
  /\ ending' = TRUE
  /\ pc' = IF batch = {} THEN "down" ELSE Processing
  /\ UNCHANGED <<service, position, batch, rejected, broker>> /\ Fault

Onwards == IF ending THEN "down" ELSE "reading"

(* The instance ends; its calls may have had their effect. *)
Crash ==
  /\ pc # "down"
  /\ pc' = "down"
  /\ UNCHANGED <<service, position, batch, rejected, ending, broker>> /\ Fault

-----------------------------------------------------------------------------
(***************************************************************************)
(* The pull service.                                                       *)
(***************************************************************************)

(* Mutant: the outcomes of single records are not looked at. *)
SendUnchecked ==
  /\ IsPull /\ pc = "sending"
  /\ batch' = {}
  /\ \E landed \in SUBSET batch : out' = Delivered(out, landed)
  /\ pc' = "committing" /\ Fine
  /\ UNCHANGED <<service, position, rejected, ending, transaction, committed, dead>>

(* flush_outputs: the outputs leave `pending' and are sent. *)
SendOutputs ==
  /\ IsPull /\ pc = "sending"
  /\ batch' = {}
  /\ \E landed \in SUBSET batch :
       /\ out' = Delivered(out, landed)
       /\ \/ landed = batch /\ pc' = "committing" /\ Fine
          \/ pc' = "down" /\ Fault
  /\ UNCHANGED <<service, position, rejected, ending, transaction, committed, dead>>

(* commit_stored: the stored positions, partition by partition. *)
CommitStored ==
  /\ IsPull /\ pc = "committing"
  /\ \E done \in SUBSET Partitions :
       /\ committed' = [p \in Partitions |->
                          IF p \in done THEN position[p] ELSE committed[p]]
       /\ \/ /\ done = Partitions /\ Fine
             /\ pc' = IF rejected # {} THEN "deadLetter" ELSE Onwards
          \/ pc' = "down" /\ Fault
  /\ UNCHANGED <<service, position, batch, rejected, ending, transaction, out, dead>>

(* The rejected record is sent to the dead letter topic, then committed. *)
SendDead ==
  /\ IsPull /\ pc = "deadLetter"
  /\ rejected' = {}
  /\ \E landed \in SUBSET rejected :
       /\ dead' = Delivered(dead, landed)
       /\ \/ landed = rejected /\ pc' = "committing" /\ Fine
          \/ pc' = "down" /\ Fault
  /\ UNCHANGED <<service, position, batch, ending, transaction, committed, out>>

-----------------------------------------------------------------------------
(***************************************************************************)
(* The transactional service: process_batch.  A failed send or enlistment  *)
(* aborts.                                                                 *)
(***************************************************************************)

(* Mutant: the first record of a partition stays the latest. *)
FirstPositions(records) ==
  [p \in {r[1] : r \in records} |-> Min({r[2] : r \in {q \in records : q[1] = p}}) + 1]

(* One past the last record of the batch on each of its partitions. *)
CommitPositions(records) ==
  [p \in {r[1] : r \in records} |-> Max({r[2] : r \in {q \in records : q[1] = p}}) + 1]

(* Beginning fences, and so aborts, what an earlier instance left open. *)
Begin ==
  /\ ~IsPull /\ pc = "beginning"
  /\ \/ transaction' = NewTransaction /\ pc' = "sending" /\ Fine
     \/ transaction' \in {transaction, NoTransaction, NewTransaction}
          /\ pc' = "down" /\ Fault
  /\ UNCHANGED <<service, position, batch, rejected, ending, committed, out, dead>>

Enlist(step, next) ==
  /\ ~IsPull /\ pc = step
  /\ pc' \in {next, "aborting"}
  /\ IF pc' = next THEN Fine ELSE Fault
  /\ UNCHANGED <<service, position, batch, rejected, ending, committed, out, dead>>

SendBatch ==
  /\ Enlist("sending", "offsets")
  /\ \E landed \in SUBSET batch :
       /\ transaction' = [transaction EXCEPT !.sent = landed]
       /\ pc' = "offsets" => landed = batch

SendOffsets ==
  /\ Enlist("offsets", "committing")
  /\ \/ transaction' = [transaction EXCEPT !.offsets = CommitPositions(batch)]
     \/ pc' = "aborting" /\ UNCHANGED transaction

(* The broker makes outputs and positions visible together. *)
Applied ==
  /\ out' = Delivered(out, transaction.sent)
  /\ committed' = [p \in Partitions |-> IF p \in DOMAIN transaction.offsets
                                        THEN transaction.offsets[p] ELSE committed[p]]
  /\ transaction' = NoTransaction

Commit ==
  /\ ~IsPull /\ pc = "committing"
  /\ \/ Applied /\ pc' = Onwards /\ batch' = {} /\ Fine
     \/ (Applied \/ UNCHANGED <<out, committed, transaction>>)
          /\ pc' = "aborting" /\ UNCHANGED batch /\ Fault
  /\ UNCHANGED <<service, position, rejected, ending, dead>>

(* Whether the abort succeeds or not, the service exits. *)
Abort ==
  /\ ~IsPull /\ pc = "aborting"
  /\ \/ transaction' = NoTransaction /\ Fine
     \/ UNCHANGED transaction /\ Fault
  /\ pc' = "down"
  /\ UNCHANGED <<service, position, batch, rejected, ending, committed, out, dead>>

-----------------------------------------------------------------------------
Works ==
  \/ Start \/ TakeRecord
  \/ SendOutputs \/ CommitStored \/ SendDead
  \/ Begin \/ SendBatch \/ SendOffsets \/ Commit \/ Abort

Next == Works \/ EndStream \/ Crash

Spec == Init /\ [][Next]_vars

(* The host restarts the service, calls return, and records are delivered. *)
FairSpec == Spec /\ WF_vars(Works)

-----------------------------------------------------------------------------
(***************************************************************************)
(* Properties.                                                             *)
(***************************************************************************)
Done == {r \in Record : r[2] < committed[r[1]]}

(***************************************************************************)
(* "Semantics: at-least-once ... Transform failures go to the configured   *)
(* DLQ" (kafka-pull-service/src/lib.rs): a record whose position is        *)
(* committed, and so is not read again, has arrived in one of the topics.  *)
(***************************************************************************)
AtLeastOnce ==
  \A r \in Done : IF r \in service.rejects THEN dead[r] > 0 ELSE out[r] > 0

(***************************************************************************)
(* "Output records and input offsets commit atomically; a crash anywhere   *)
(* replays the batch and downstream read_committed readers never see the   *)
(* aborted half" (kafka-transactional/src/lib.rs): whatever failed, and    *)
(* whether or not a commit reported as failed was applied, what is read    *)
(* downstream is every committed record once and no other.                 *)
(***************************************************************************)
ExactlyOnce ==
  ~IsPull => \A r \in Record : out[r] = IF r \in Done THEN 1 ELSE 0

(***************************************************************************)
(* After the last fault the service catches up: all that remains is less   *)
(* than a batch ("Batches larger than one wait for the batch to fill").    *)
(***************************************************************************)
CaughtUp == <>[](Cardinality(Record \ Done) < service.batch)

=============================================================================
