----------------------------- MODULE Workloads -----------------------------
(***************************************************************************)
(* The programs that the host calls, for a message, a change, a batch or a *)
(* request, and that keep something or check what leaves: the NATS and     *)
(* Kafka templates, the webhook receiver, the task manager and the request *)
(* bin.  They share no state, and a behaviour is of one.                   *)
(***************************************************************************)
EXTENDS Integers, Sequences, FiniteSets

CONSTANTS
  Requests,
  Ids, PAGE_BYTES, TASK_BYTES, WRITE_LIMIT, TaskFaults,     \* task manager
  Octets, Postings, MAX_REQUESTS, MAX_BODY_KEPT, MAX_BODY_READ, BinFaults,  \* request bin
  Stream, Undecodable, MAX_DELIVERIES, ConsumerFaults, MaxWindows,  \* JetStream consumer
  Messages, BATCH, MAX_ROUNDS, Budget, MaxDrains, WorkerFaults,  \* JetStream worker
  Bodies, Keys, MaxCalls,                                   \* NATS templates
  Kinds, Length, BATCH_SIZE, MAX_TRAPS, HandlerFaults,      \* Kafka handler
  Numbers, DEFAULT_COUNT, DEFAULT_SIZE, MAX_BATCH_RECORDS, MAX_RECORD_BYTES,
  MAX_BATCH_BYTES, USIZE,                                   \* Kafka producer
  Secrets, Urls, DEFAULT_FORWARD_URL, MAX_BODY_BYTES        \* webhook

ASSUME BoundsAssumption ==
  /\ MAX_DELIVERIES \in Nat /\ Length \in Nat /\ BATCH_SIZE \in Nat /\ MAX_BODY_BYTES \in Nat
  /\ IsFiniteSet(Messages)

\* A whole batch and one byte more fit in a usize.
ASSUME LimitsAssumption ==
  /\ Numbers \cup {DEFAULT_COUNT, DEFAULT_SIZE, MAX_BATCH_RECORDS, MAX_RECORD_BYTES} \subseteq Nat
  /\ MAX_BATCH_BYTES \in Nat \ {0} /\ USIZE \in Nat /\ MAX_BATCH_BYTES + 1 < USIZE

\* More of a body is read than is kept, and a header has a name and a value.
ASSUME PostingsAssumption ==
  /\ MAX_REQUESTS \in Nat /\ MAX_BODY_KEPT \in Nat /\ MAX_BODY_READ \in Nat
  /\ MAX_BODY_KEPT < MAX_BODY_READ
  /\ \A s \in Postings : /\ s.headers \in Seq([name : Seq(Octets), value : Seq(Octets)])
                     /\ s.body \in Seq(Octets)

VARIABLES
  app,                                           \* which program
  tasks, lastId, op, id, whole, read, status, failures, wanted, raced,  \* task manager
  bin, route,                                    \* request bin, beside what the task manager has
  delivered, faulted, windows,                   \* JetStream consumer
  go, unread, held, round, count, drains,        \* JetStream worker
  bus, replies, history,                         \* NATS templates
  log, position, traps, processed, dead, trapped,  \* Kafka handler
  query,                                         \* Kafka producer
  config, allowedHosts, req, forwarded, shown,   \* webhook
  pc, acked, calls, receipts, faults, batch, sent, response   \* several

storeVars    == <<tasks, lastId, op, id, whole, read, status, failures, wanted, raced>>
binVars      == <<bin, route>>
consumerVars == <<delivered, faulted, windows>>
workerVars   == <<go, unread, held, round, count, drains>>
coreVars     == <<bus, replies, history>>
kafkaVars    == <<log, position, traps, processed, dead, trapped, query>>
webhookVars  == <<config, allowedHosts, req, forwarded, shown>>
shared       == <<pc, acked, calls, receipts, faults, batch, sent, response>>
vars == <<app, storeVars, binVars, consumerVars, workerVars, coreVars, kafkaVars, webhookVars, shared>>

Tasks == INSTANCE TaskManager WITH MaxFailures <- TaskFaults
Bins == INSTANCE RequestBin WITH MaxFailures <- BinFaults
Consumer == INSTANCE NatsConsumer WITH Sequences <- Stream, MaxFaults <- ConsumerFaults
Worker == INSTANCE NatsWorker WITH MaxFaults <- WorkerFaults
Core == INSTANCE NatsCore
Handler == INSTANCE KafkaHandler WITH BATCH <- BATCH_SIZE, MaxFaults <- HandlerFaults
Producer == INSTANCE KafkaProducer
Webhook == INSTANCE SandboxedWebhook

-----------------------------------------------------------------------------

NoTasks    == tasks = 0 /\ lastId = 0 /\ op = 0 /\ id = 0 /\ whole = 0
NoBin      == bin = 0 /\ route = 0
NoStore    == NoTasks /\ NoBin /\ read = 0 /\ status = 0 /\ failures = 0 /\ wanted = 0 /\ raced = 0
NoConsumer == delivered = 0 /\ faulted = {} /\ windows = 0
NoWorker   == go = 0 /\ unread = 0 /\ held = 0 /\ round = 0 /\ count = 0 /\ drains = 0
NoCore     == bus = 0 /\ replies = 0 /\ history = 0
NoHandler  == log = 0 /\ position = 0 /\ traps = 0 /\ processed = 0 /\ dead = 0 /\ trapped = 0
NoWebhook  == config = 0 /\ allowedHosts = 0 /\ req = 0 /\ forwarded = 0 /\ shown = 0
NoNats     == NoConsumer /\ NoWorker /\ NoCore /\ acked = {} /\ calls = 0 /\ receipts = 0
NoKafka    == NoHandler /\ query = 0

Init ==
  \/ /\ app = "tasks" /\ Tasks!Init
     /\ NoBin /\ NoNats /\ NoKafka /\ NoWebhook /\ faults = 0 /\ batch = 0 /\ sent = 0 /\ response = 0
  \/ /\ app = "bin" /\ Bins!Init
     /\ NoTasks /\ NoNats /\ NoKafka /\ NoWebhook /\ faults = 0 /\ batch = 0 /\ response = 0
  \/ /\ app = "consumer" /\ Consumer!Init
     /\ NoStore /\ NoWorker /\ NoCore /\ NoKafka /\ NoWebhook
     /\ pc = 0 /\ batch = 0 /\ sent = 0 /\ response = 0
  \/ /\ app = "worker" /\ Worker!Init
     /\ NoStore /\ NoConsumer /\ NoCore /\ NoKafka /\ NoWebhook /\ calls = 0 /\ sent = 0 /\ response = 0
  \/ /\ app = "core" /\ Core!Init
     /\ NoStore /\ NoConsumer /\ NoWorker /\ NoKafka /\ NoWebhook
     /\ acked = {} /\ pc = 0 /\ faults = 0 /\ batch = 0 /\ sent = 0 /\ response = 0
  \/ /\ app = "handler" /\ Handler!Init
     /\ NoStore /\ NoNats /\ NoWebhook /\ query = 0 /\ pc = 0 /\ sent = 0 /\ response = 0
  \/ /\ app = "producer" /\ Producer!Init
     /\ NoStore /\ NoNats /\ NoHandler /\ NoWebhook /\ pc = 0 /\ faults = 0 /\ batch = 0
  \/ /\ app = "webhook" /\ Webhook!Init
     /\ NoStore /\ NoNats /\ NoKafka /\ faults = 0 /\ batch = 0 /\ sent = 0

Others(mine) == UNCHANGED <<app, mine>>

TasksStep ==
  /\ app = "tasks" /\ Tasks!Next
  /\ Others(<<binVars, consumerVars, workerVars, coreVars, kafkaVars, webhookVars,
              acked, calls, receipts, faults, batch, sent, response>>)
BinStep ==
  /\ app = "bin" /\ Bins!Next
  /\ Others(<<tasks, lastId, op, id, whole, consumerVars, workerVars, coreVars, kafkaVars, webhookVars,
              acked, calls, receipts, faults, batch, response>>)
NotConsumer ==
  <<storeVars, binVars, workerVars, coreVars, kafkaVars, webhookVars, pc, batch, sent, response>>
ConsumerStep == app = "consumer" /\ Consumer!Next /\ Others(NotConsumer)
NotWorker ==
  <<storeVars, binVars, consumerVars, coreVars, kafkaVars, webhookVars, calls, sent, response>>
WorkerStep == app = "worker" /\ Worker!Next /\ Others(NotWorker)
CoreStep ==
  /\ app = "core" /\ Core!Next
  /\ Others(<<storeVars, binVars, consumerVars, workerVars, kafkaVars, webhookVars,
              pc, acked, faults, batch, sent, response>>)
NotHandler == <<storeVars, binVars, consumerVars, workerVars, coreVars, query, webhookVars,
                pc, acked, calls, receipts, sent, response>>
HandlerStep == app = "handler" /\ Handler!Next /\ Others(NotHandler)
ProducerStep ==
  /\ app = "producer" /\ Producer!Next
  /\ Others(<<storeVars, binVars, consumerVars, workerVars, coreVars, webhookVars,
              log, position, traps, processed, dead, trapped, pc, acked, calls, receipts, faults, batch>>)
WebhookStep ==
  /\ app = "webhook" /\ Webhook!Next
  /\ Others(<<storeVars, binVars, consumerVars, workerVars, coreVars, kafkaVars,
              acked, calls, receipts, faults, batch, sent>>)

Next ==
  \/ TasksStep \/ BinStep \/ ConsumerStep \/ WorkerStep \/ CoreStep
  \/ HandlerStep \/ ProducerStep \/ WebhookStep

\* The fairness of the programs that have a property of progress.
Delivery(m)  == app = "consumer" /\ Consumer!Deliver(m) /\ Others(NotConsumer)
Consumption  == /\ app = "consumer"
                /\ \E c \in calls : Consumer!Publish(c) \/ Consumer!Return(c)
                /\ Others(NotConsumer)
Trigger      == app = "worker" /\ Worker!Trigger /\ Others(NotWorker)
Drain        == app = "worker" /\ Worker!Drain /\ Others(NotWorker)
Redelivery   == app = "worker" /\ Worker!Redeliver /\ Others(NotWorker)
BatchComes   == app = "handler" /\ Handler!Deliver /\ Others(NotHandler)
BatchHandled == app = "handler" /\ Handler!Handle /\ Others(NotHandler)

Fairness ==
  /\ \A m \in Stream : WF_vars(Delivery(m))
  /\ WF_vars(Consumption) /\ WF_vars(Trigger) /\ WF_vars(Drain) /\ WF_vars(Redelivery)
  /\ WF_vars(BatchComes) /\ WF_vars(BatchHandled)

Spec == Init /\ [][Next]_vars /\ Fairness

-----------------------------------------------------------------------------

\* A list is what the requests made of it, and a bin its newest records, but for
\* races; see TaskManager and RequestBin.
StoreIsItsHistory ==
  /\ app = "tasks" => Tasks!ListIsItsHistory
  /\ app = "bin" => Bins!BinIsItsRecords

\* What receipts say of messages and acknowledgements is so, under redelivery and
\* failures; see NatsConsumer and NatsWorker.
ReceiptsAreHonest ==
  /\ app = "consumer" => Consumer!ReceiptsAreHonest
  /\ app = "worker" => Worker!CountsAreOfAcks

\* Nothing bounces twice, receipts of records are true, Rust and Go agree; see NatsCore.
TemplatesKeepTheirWord == app = "core" => Core!TemplatesKeepTheirWord

\* No record is skipped, and none is dead-lettered that could be handled, however
\* the batches are cut; see KafkaHandler.
NothingIsSkipped == app = "handler" => Handler!NothingIsSkipped

\* What leaves is within its limits, verified and told truthfully; see KafkaProducer
\* and SandboxedWebhook.
WhatLeavesIsChecked ==
  /\ app = "producer" => Producer!BatchesAreBounded
  /\ app = "webhook" => Webhook!AnswersAreTrue

\* Every message is settled, every batch drained and every partition read to its
\* end; see NatsConsumer, NatsWorker and KafkaHandler.
EverythingIsServed ==
  /\ app = "consumer" => Consumer!AllAreSettled
  /\ app = "worker" => Worker!AllAreAcked
  /\ app = "handler" => Handler!PartitionEnds
=============================================================================
