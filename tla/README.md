# TLA+ models of awesome-cosmonic

This directory holds formal models of the programs in this repository: TLA+
modules, the TLC configurations that check them on small instances, and proofs
that the TLA+ proof system checks for all instances.

Check a model with TLC and a proof with tlapm:

    tlc -workers 2 -config engine.cfg MCCronEngine.tla
    tlapm CronEngine_proofs.tla

`PROJECT.json` lists the components, the runs with what each shows, the mutants
that show each property can fail, the lines of source every definition stands
for, the hazards the properties are aimed at, and the theorems.

## Inventory

The repository is a collection of WebAssembly components for wasmCloud. Each is
small, runs in one thread per instance, and interleaves only where it awaits.

| Component | State | Operations | What is hard |
|---|---|---|---|
| **cron-scheduler**, `src/host-plugins/component/cron-scheduler`: the engine (`engine.rs`), the plugin and its dispatch loop (`plugin.rs`), schedules and bindings (`spec.rs`, `calendar.rs`) | per workload: schedules (entries), limits, names with a handler call in flight; counters of registrations and firings; the clocks at the last poll | workloads register, unregister and list; the host binds and unbinds; the loop polls and completes; a calendar is compiled to a crontab, a binding parsed | a delivery outlives the schedule, binding or workload it belongs to; two clocks that drift; retries against the next occurrence; lost wakes; two day fields that are alternatives; limits over entries |
| **minimal-agent**, `src/components/minimal-agent`: a run of an LLM agent (`turn.rs`, `run.rs`, `tools.rs`, `model.rs`, `events.rs`), its journal (`journal.rs`), the conversation it keeps (`conversation.rs`) | the session: journal, state, commit ids; per instance one run at a time | accept a run, recover what an earlier one left open, append and record, call the model and tools, conclude, save | a run that crashes or is superseded between two steps; duplicate and stale requests; commits that fail or whose reply is lost; conversation limits; what is replayed to the model |
| **MCP servers** (seven, `src/components/mcp-servers`): one bridge (`lib.rs`, `bridge.rs`), tools of their own | a job queue, the lock of the exchange in service, its response frames; the tools keep nothing | accept a request, drive it, perform jobs, send frames; redact, fetch, look up | two executors in one thread; a client that goes away or stalls; jobs left over from the exchange before; upstreams that change between two requests; text that is cut |
| **Kafka components**, `src/components/kafka`: pull service, transactional service, handler, producer | a pending batch, stored positions, an open transaction | take, flush, commit; begin, send, enlist, commit, abort; handle a batch; produce | a failure between two steps, unknown outcomes, replay; partial progress in a batch |
| **NATS components**, `src/components/nats`: core subscriber, fan-out, request/reply, JetStream consumer and worker, key-value store and watcher, each in Rust and Go | acknowledgements, handles that count against a budget | handle, reply, publish, ack, fetch | redelivery limits, deduplication against redelivery, an ack that fails in a batch, a reply that comes back as a request |
| **workload examples**, `src/workload-examples`: task-manager, request-bin, csv-tidy, passphrase, qrcode, first-flight | values in a key-value store (the first two) | HTTP requests | read-modify-write races between instances; text spliced without parsing; columns that repeat |
| **sandboxed-webhook** | none | verify a signature, forward | order of the two, bodies in chunks |
| WIT packages, CI scripts, manifests, front ends | none | | |

### Interaction

The host calls `on-workload-bind` and `on-workload-unbind` of the cron plugin,
starts its `run` (the dispatch loop) and routes its calls of `handler` to the
workloads, which call back into `scheduler`. All of these share one `ENGINE` and
one wake channel. A handler may register schedules from inside a call.

A driver hands a message to an instance of the agent, which works against the
session (`cosmonic:agent/session`), a model and tools, all imported; several
instances may work in one session, and the session's conditional commits are
all that orders them. The MCP servers and the Kafka services only talk to the host.

### What makes each component correct

- cron: calls of one schedule name never overlap, whatever happens to the name;
  a firing is retried only as asked, up to the limit, and never behind the next
  occurrence; every period is handled, counted in `missed`, or queued; what a workload
  holds is what its binding permits; crontabs follow Vixie cron's rule when the clock
  is corrected; what comes due is dispatched: no wake is lost, no deadline slept through.
- agent: the conversation is serial, nothing is dispatched over another writer's
  entries, every call made is closed, what a driver hears agrees with the journal, and
  trimming keeps a conversation that a provider accepts.
- MCP bridge: one exchange is driven at a time, none performs what another left, every
  tool is answered and every exchange ends.
- Kafka: what is committed has arrived, once in a transaction; the service catches up.
- NATS: what is acknowledged was processed, receipts are true, redelivery ends.
- Kafka handler and producer: no record is skipped, none is dead-lettered that could be
  handled; no batch is over its limits.
- key-value examples: nothing is lost but what is written over without being read, no id is
  given twice, a bin comes apart into the records that were put in.
- tools and stateless examples: what is told of a page, an advisory, a repository, a table, a
  text or a password is so.
- webhook: nothing leaves that is not whole, signed and within the limit.

## Modules

| Module | Models |
|---|---|
| `CronEngine` | `engine.rs`, and of `spec.rs` what it uses: the engine, its two clocks, the deliveries in flight |
| `CronContract` | what `handler.wit` promises a handler; `CronEngine` has the mapping by which it implements it |
| `CronPlugin` | `plugin.rs` around the engine: the loop, its timer, the wake channel, calls of handlers |
| `CronCalendar`, `Gregorian` | `calendar.rs` and the crontabs of `spec.rs`: from typed fields to a crontab to instants |
| `CronBinding` | `Binding::parse_entries` of `spec.rs`, with limits, names and periods |
| `CronEngine_proofs` | theorems about `CronEngine`: types and overlap; what it holds, how often it delivers and that it implements `CronContract`; what becomes of every occurrence |
| `CronLoop`, `CronLoop_proofs` | the loop, a calendar and a binding side by side; theorems about each |
| `AgentSession` | the session store: what a commit does, as operators on its value |
| `AgentRun` | the runs of one session: requests, instances, every await of a run |
| `AgentLedger` | a serial conversation; `AgentRun` has the mapping by which it implements it |
| `AgentRun_proofs` | theorems about `AgentRun`: the journal, the calls, the conversation, and that it implements `AgentLedger` |
| `AgentConversation` | the algorithms that keep a conversation under its limits |
| `AgentTurn` | what a run says: its request, the messages to the model, replies, results, outcome |
| `AgentHistory`, `AgentHistory_proofs` | `AgentRun`, `AgentConversation` and `AgentTurn` side by side; the theorem about the last two |
| `McpBridge` | the bridge of the MCP servers: exchanges, tools, the queue between them |
| `PiiRedactor`, `WebFetch`, `OsvTools`, `IssTools`, `ForgeTools` | the tools of six of the servers (`ForgeTools`: GitHub and GitLab) |
| `McpServers`, `McpServers_proofs` | the bridge and the tools side by side; theorems about the bridge, the redactor and the forges |
| `KafkaServices`, `KafkaServices_proofs` | the pull service and the transactional service; theorems about them |
| `KafkaHandler`, `KafkaProducer` | the handler that the host drives, the producer behind HTTP |
| `NatsConsumer`, `NatsWorker`, `NatsCore` | the JetStream templates; the five that are called once for a message or a change |
| `TaskManager`, `RequestBin` | the key-value examples |
| `CsvTidy`, `Passphrase`, `SandboxedWebhook` | two stateless examples, the webhook |
| `Workloads`, `Workloads_proofs` | the Kafka handler and producer, the NATS templates, the webhook, the task manager and the request bin, side by side; theorems about them |
| `Folding_proofs` | what several proofs rest on: least numbers, induction over a set of numbers, the steps of a fold, a finite set put in order |
| `MCCronEngine`, `MCCronLoop`, `MCAgentHistory`, `MCMcpServers`, `MCKafkaServices`, `MCWorkloads` | instances for TLC |

`AgentHistory`, `McpServers`, `Workloads` and `CronLoop` hold several
programs or parts of one: the initial state chooses which, and a behaviour is of that one, while
the variables of the others stand still. Programs that share no state are checked side by
side in this way, and a property of such a run names the part that it is about. The four modules
declare what they hold and what is assumed of its constants, and are what the theorems are about; the
MC modules that extend them give the constants their values.

Some modules have an algorithm in one step rather than a state machine (`CsvTidy`, `Passphrase`,
`PiiRedactor`, `WebFetch`, `OsvTools`, `IssTools`): `given` is what is asked, drawn from a set that the instance
builds, and `made` the answer. An option is a set of at most one value throughout, and so is a
`Result`; a text is a sequence of the pieces that its reader tells apart.

### CronEngine

Every method of `Engine` is one action, as the engine never waits: `Bind`,
`Unbind`, `Register`, `Unregister`, `Poll` and `Complete`; `list` and `next_wake`
change nothing and are the operators `Forecast` and `Waits`. `Tick` passes time on
both clocks and `StepClock` corrects the system clock. A workload's map of
entries is `entries[<<w, n>>]`, its map of busy names `busy[<<w, n>>]` (0: free),
its limits and its grant `binding[w]`. `inflight` holds the dispatches that the loop
has yet to settle; a dispatch is `live` until its workload is unbound. `ledger` is
history: it counts what a handler heard, for the accounting properties, and
no action reads it.

Left out: log lines and the fields that only choose them (`ended`, `unreachable`),
parsing (which is in `CronCalendar` and `CronBinding`), saturation of 64-bit arithmetic (nothing in an instance comes near), the cap
of the backoff's exponent (it shows after 33 attempts), and the text of names and
identifiers: names are numbers, in the order of the map, and a firing's identifier
is its number.

Crontabs are the sets of instants they match (`Matches`): `next_after` and
`last_at_or_before` belong to external libraries (croner, chrono-tz).

**Assumption about unbinding.** The host ends the handler calls of a workload when it
unbinds it, as the workload stops. The engine forgets what was in flight
(`unbind` drops the map of busy names), so without this a call begun before an
unbind could run beside one begun after the next bind.

### CronPlugin

`Pass` is the loop from its top to its `select!`: clear the wake flag, drain the
channel, poll, compute the sleep. It has no await in it and is one step. `SleepEnds`,
`Woken`, `Settle` and `Unroutable` are the branches of the `select!`; `StartCall` is the
first poll of a delivery, where its target opens. Lifecycle hooks and calls of
`scheduler` run to their end without an await, so each is one step with its
wake, and runs only while the loop has yielded (`Yielded`): the `select!` has then
polled every delivery once.

**Fairness.** Time passes and the loop's task is scheduled whenever it can run (weak
fairness of `Tick`, `Pass`, `SleepEnds`, `Woken`). Handler calls end, because the host gives
each one a deadline, and `select!` picks at random among its ready branches, so that
wakes that keep coming cannot hold off a finished delivery for ever (strong fairness
of `Deliveries`). Where `CronLoop` is about a calendar or a binding nothing of the loop moves, and fairness
asks nothing (`OfLoop`).

### CronCalendar, CronBinding

`Register` is `register-calendar`: `Compile` turns the typed fields into the five fields of a crontab, which
is refused if no occurrence can be found, and `Fire` follows the occurrences. What a calendar
means is stated apart from that, over the days of the Gregorian calendar (`Gregorian`): a
field that selects everything restricts nothing, and days and weekdays that are both
restricted are alternatives. croner, which parses and searches a crontab, and chrono are
external, and zones have a fixed offset: the days on which a clock is put forward or back are
not covered. `Horizon` bounds the months that a search goes through.

`CronBinding` goes through the entries twice as `parse_entries` does: `SetLimit` key by key up to
`PassLimits`, then `BeginEntry` with the zone of each entry and `Declare` schedule by schedule up to
`PassSchedules`; every refusal is the code's. A text is what the parsers tell apart, and numbers
have the widths `U32Max` and `U64Max`, so that a sum of periods can overflow. A binding that is taken
is compared with what its entries say whatever their order (`BindingIsItsEntries`).

### AgentSession, AgentRun

`AgentSession` is `cosmonic:agent/session` as the test host implements it
(`test-host/src/host.rs`): a commit appends entries and may move the state, under
the conditions it names, and a commit id used before is answered with its first result.
Commits are atomic, as the interface says.

`AgentRun` cuts `run` where it awaits: `accept` is `Request`, `Current`, `ReadJournal` and
`Open`; `work` is `Prepare` to `RecordTool`; `conclude` is `Unanswered`, `Save` and `Fail`. Each
commit, model call and tool call is the end of a step, and another instance may act
before the next. `Dispatch` is `Journal::append` with the call it allows and `Record` is
`Journal::record` with its second, unconditional attempt. `turn[t]` holds what the future
of a run holds: its snapshot, the journal end it knows, whether it is stale, the calls
left to make. `running` is `RUNNING`, the lock of an instance, which is given back when
the future is dropped (`End`), on a crash too.

Abstractions: entries have a kind, a writer, a call and an outcome, and no text; ids of
steps and calls are fresh; a stored conversation is the list of the runs in it, and
`trim` keeps the newest `KEEP` of them or, where the last alone is too long, nothing (`AgentConversation`
has what is in one); tokens and time are choices at the places that look at
them. Requests, instances and run ids are interchangeable, so they are named in order
(`InOrder`). What fails, or is applied and its reply lost, is a choice of the session
(`Replies`), which is external.

**Fairness.** Weak fairness of each run: the host gives every call a deadline and goes
on running an instance that has something to do.

### AgentConversation

`DropOldest`, `Trim` and `Halve` are `drop_oldest`, `trim` and `halve` on sequences of turns with a
role and a size, applied to conversations that grow by the exchanges a run can
produce: a message, any number of rounds of calls and results, and a last reply or none.
A loop that drops exchanges until enough is left is a fold over the turns (`DropUntil`), of which
there are as many as rounds at most.

### AgentTurn

A run that is alone in its session. `Refuse` and `Accept` are `validate` and what follows it; `OutOfTime`,
`NoModel` and `CallModel` the head of the loop of `work`; `TooLong`, `ModelFails` and `ModelReplies` what a call of
the model comes to; `ReplyEnds` and `ReplyAsks` what is made of a reply; `CallTool`, `Return` and
`Gone` the calls it asks for; `Conclude` the end. The request, the stored conversation, the messages
of the model and the turns to be stored are kept as the code keeps them. `AgentRun` has what
several runs do to one another; this module has what is in the messages: that every call of an
assistant is answered before anything else is sent, that what is replayed to the next run is
what this one's model saw and said, and that the driver is told the reply that was made.
A model that is offered no tools asks for none: that is an assumption on the provider.

### McpBridge

An exchange is a task of the component model; a tool is a task of tokio, which runs only
inside a `block_on`, while the thread can do nothing else (`Blocked` disables everything
but the exchange in `block_on` and the tools). `Fetch` is `outbound::fetch`, which queues a job and
waits for its reply; `Drive` is `drive`, which takes jobs before it looks at anything else, and
`Performed` is `outbound::perform`, which always answers, late or not. `Start` drains what
earlier exchanges left and takes the lock. `Cancel` is the host dropping a call where it awaits
with the request unanswered. `rmcp` is external: it starts one tool for a request and
turns its result into frames.

The drains at the end of an exchange find an empty queue in every behaviour, as the
select is biased to jobs and tools run only inside `block_on`; the one at the start matters after
a cancellation. Frames are progress that a tool reports, keep-alives, which the stream of `rmcp` puts in
every 15 seconds while a tool is silent (`KeepAlive`), and the result. A peer that is lost at a frame
before the result ends the exchange while its tool can still run, and the tool's next requests are then
performed under the next exchange. `DeadToolsStayDead` leaves that case out: `cut` says that it happened
(see the smaller divergences).

**Fairness.** Exchanges and tools that can run do; a frame that is not taken times
out. Keep-alives are bounded (`MaxKeeps`), which stands for their 15 seconds: between two of them the thread has
time to run the tool. None for uploads or for a client's reading, so `ExchangesEnd` holds whatever those do. The
trailers have no deadline (`lib.rs:146`); that the host takes them is an assumption.

### PiiRedactor, WebFetch, OsvTools, IssTools, ForgeTools

What the tools answer. Regular expressions are external: `PiiRedactor` starts from the spans that they
find in a text, and has which of them are confirmed, which win and what is left. `WebFetch` has
the check of a URL and the scanner that makes text of a page, piece by piece, with a page's
own words as the reference. `OsvTools` projects an advisory onto the versions, ratings and
references told; `IssTools` spells an instant as a date, which is compared with a calendar built
the other way round. `ForgeTools` is GitHub's and GitLab's: a call is under way while the
repository, the quota and the token change (`Change`), GitLab's file takes two requests, and what
is told must have been so at some time during the call (`window`).

### KafkaServices

One step is one awaited call. `TakeRecord` is the head of the loop with the
transform, whose verdict on each record is part of the deployment (`service.rejects`); the
position of a record is stored when it is handed over, as `consumer.wit` says of `commit`. `SendOutputs`
and `CommitStored` are `flush_outputs` and `commit_stored`; `Begin`, `SendBatch`, `SendOffsets`, `Commit` and
`Abort` are `process_batch`. A call that fails may have had all, some or none of its
effect. The service then exits, and `Start` is the restart by the host, from what is
committed. The broker is external: a transaction becomes visible with its positions
in one step, and beginning one fences what an earlier instance left open. One instance runs at
a time (the manifests are single-replica); partitions do not move.

**Fairness.** The host restarts the service and delivers records; calls return. Faults are
bounded, so this says what holds after the last one.

### KafkaHandler, KafkaProducer

`Handle` is the handler's loop over one batch: how far it got and with which error is what it returns,
and the host, which is external, acts on that (`Deliver`, `Trap`, `Rebalance`, after `cosmonic:kafka` and the
comments of the handler): it commits past what was handled, delivers the rest again and dead-letters
a record that failed for good or brought the handler down too often. `KafkaProducer` is a request
over HTTP; numbers have the width of a `usize`, and products saturate.

### NatsConsumer, NatsWorker, NatsCore

Each has the Rust and the Go template side by side. The server is external. `NatsConsumer`: a message that is
not acknowledged in time is delivered again, also while an earlier call for it runs, up to the
limit of the binding (`MAX_DELIVERIES`), and a receipt whose id the stream has seen within its duplicate window
is discarded. The window, two minutes unless the stream says otherwise, may pass between two deliveries
(`WindowPasses`, at most `MaxWindows` times for a message), and then there is a second receipt: the template promises no
more than that, nor does `ReceiptsAreHonest`. `NatsWorker`: a
trigger drains the consumer in batches; the host gives out handles of messages up to `Budget` and takes
them back when they are dropped, and an ack or a fetch may fail at any of them. `NatsCore`: five
handlers as the lists of calls they make, each of which may fail; a reply may be published to a
subject that the component itself subscribes to (`Bounce`), and a watch replays changes. That a message came
from a handler and not from a client is noted in `hops`, which no handler reads. `LanguagesAgree` compares
two translations made side by side: it finds what differs between the templates as they were read.

**Fairness.** The server redelivers, triggers keep coming, calls return. Faults are bounded; a
message that met one can run out of deliveries, and the property leaves it out (`faulted`).

### TaskManager, RequestBin

Every request runs in an instance of its own, and each call of the key-value store is a step. The
store is external and, as the templates use it, without transactions: two requests can write over
one another. `raced` becomes true when one writes over something that it has not read; that
the list and the bin are exactly what the requests made of them holds until then, and so
names the only way to lose something; of what comes after it nothing is claimed. A call of the store may fail, and
a write that fails may have been taken all the same (`SetId`, `SetTasks`, `Appended`, `Forgotten`): the client is told 500,
and the change counts. `RequestBin` keeps the text of a bin
down to its quotes and braces, as the code cuts records out of it without parsing. A header need not be
UTF-8; what of it is not is shown as a replacement mark (`Lossy`).

### CsvTidy, Passphrase, SandboxedWebhook

`CsvTidy` has the delimiter chosen, the parser piece by piece, the names of columns and the rows shown;
tables that were written as text come back as they were, and the rows shown are read back as a parser of JSON reads
them. `Passphrase` has the set of passwords
that can be drawn, each byte of the host's included, next to the number that the entropy is made
of. `SandboxedWebhook` is a request in steps: the body in chunks, the checks in their order, the
forwarding (the host's policy and the place are external) and the answer.

## Runs

| Run | Instance | Shows |
|---|---|---|
| `engine` | three questions, each its own instance: *retry*, one name, an interval of 4 and a one-shot, bindings with 2 or 3 attempts, 3 registrations, 4 firings, 9 units of time; *grants*, two names, five bindings that grant and take back, 3 units; *cron*, a crontab of five instants and an instant, clock steps of -3, -1 and 2, threshold 2, catch-up of 2 | no overlap, names freed, retries in order and bounded, every mark accounted for, what is held is permitted, forecasts agree with dispatches, no repeated stretch; the engine implements the contract |
| `plugin_loop` | one name, an interval of 2 and a crontab with a gap of 7, a clock step of 6, a minimal sleep of 1, 6 firings, under fairness; beside it 252 calendars, and every binding of two entries out of 38 | calls never overlap, the timer covers what is due, what is due or owed is served; calendars and bindings are taken when they can be, and mean what they say |
| `agent_rivals` | two runs in two instances that overlap at will, a tool call, two steps, a time limit, one crash | calls are made only on an unchanged journal, and closed; the state never covers an open one; runs are serial |
| `agent_history` | three runs one after the other with ids that may repeat, one commit that fails or loses its reply, under fairness; beside it a conversation of up to 8 turns and 9 units of text, and two runs by what they say | each id opens once, the conversation is what was done and stays whole, drivers hear the truth, every run ends |
| `mcp_servers` | three exchanges, tools with a request and a report, one keep-alive, one cancellation, under fairness; beside it the tools of six servers over sets of texts, pages, advisories, instants and answers, and a forge that changes twice | one exchange is driven at a time, no work is inherited, tools are heard, exchanges end; what tools tell is so |
| `kafka_services` | seven deployments of both services, two partitions of three records, three faults, under fairness | nothing committed is missing, transactions write each record once, the service catches up |
| `workloads` | three requests to a store and one failure; a consumer of two messages, three deliveries and one duplicate window that passes; a worker of three messages, batches and a budget of two; two calls of the core templates, with bodies that are text, not text, and empty; a partition of four records in batches of three; a producer with limits in the order of the real ones and a width of 128; the webhook; texts of up to five pieces and tables of up to two by two; passwords of four or five characters | stores hold what was asked of them but for races, receipts are honest, no record is skipped, limits hold, and what can be delivered again is served |
| `agent_twin`, `agent_covered`, `kafka_rejects`, `tasks_page`, `osv_ranges` | the smallest instances with the divergence | the findings below |

**Why the bounds are enough.** The hard cases take few actors.

- Engine: a name that is replaced while its call runs needs two registrations, one replaced
  again, or unbound and bound again, needs three, and three are allowed. Two attempts
  reach a retry, three a retry of a retry under a lowered limit. An interval of 4 with a
  backoff of 1 and 2 has retries both before and behind the next mark. The
  crontab matches five instants, more than a catch-up of 2 counts. `WALL_RESYNC`
  and `CLOCK_RESET` are 2 units, so steps fall on both sides.
- Schedules: dates that only some months or some years have, every pair of restricted and
  unrestricted day fields, zones on both sides of UTC. A binding of two entries has every
  conflict of two.
- Agent: a conflict needs two writers, and what a third does is what the second does: the
  journal only tells a run its own entries from others'. Two steps and one tool call a reply
  reach every pair of adjacent awaits. Two runs fill a conversation of `KEEP`, three
  repeat an id after another run.
- Bridge: a job left over needs an exchange that is cancelled and one that follows; the
  third waits for the lock meanwhile. One keep-alive is where a peer can be lost before the report, the
  request or the result of a tool. What holds for any number of exchanges, requests and frames is proved.
- Tools: three spans overlap in every way that two neighbours of one can; a page of three parts
  has each kind of markup inside, before and behind each other; a file that moves
  needs one change, and a second to move back.
- Kafka services: a batch of three mixes two partitions in every way, and the odd record leaves a
  partial batch. Three faults fail a commit, its abort and the attempt after.
- Kafka handler: four records in batches of three have a stop at every place of a batch, and
  a batch that begins with what was left of another.
- NATS: three deliveries give a message that cannot be read a first, a middle and a last one; three
  messages in batches of two leave a partial batch, and two rounds reach the limit on rounds.
- Stores: an overwritten change needs two requests, and a third to see it. A bin of two records
  is full with the third.
- Texts: parsers carry over at most a quote and the piece before, so that four pieces reach every
  pair of state and piece, with one to come back from it.

Runs end when the bounds are reached, so deadlock is not checked; that the programs do
not come to rest is what the liveness properties say.

## Findings

**A rejected record can be lost** (`kafka_rejects`, `kafka-pull-service/src/lib.rs:97`). With
`BATCH_SIZE` above 1, a record that the transform rejects while outputs are pending
makes `flush_outputs` send those and then commit every stored position, the rejected record's
too, before the record is sent to the dead letter topic. If that send fails or the
instance ends, the record is nowhere, although the service is at-least-once (line 6) and
commits "only after every output delivery" (its README). The default of 1 is not affected:
`AtLeastOnceHolds` proves it for every such deployment. Committing one past the last record of
the batch, as the transactional service does, would close it.

**A run id can be accepted twice** (`agent_twin`, `journal.rs:229`). A repeated commit id is
recognised by a journal end that is not past the one read. If the same run reaches two
instances and both read before either opens, the second commit is answered with the first's
result, whose end is past what was read, and both go on. The journal's conditions
then let only one proceed to its calls, so nothing is done twice; but neither is a `duplicate`.

**The state can cover an open call** (`agent_covered`, `journal.rs:271`). If the commit of a
result fails, `record` goes on without it and a later save moves the state past
the call, which `recover` then never closes, although `session.wit:15` says "Never advance
state past an unresolved op". `agent_rivals`, where no commit fails, checks that it does not
happen otherwise.

**A page can be sent without its body** (`tasks_page`, `task-manager/src/lib.rs:95`). `respond` writes a whole body
in one `blocking_write_and_flush` and ignores the result; of one such call the host takes 4096
bytes, as `request-bin` says where it cuts its own bodies (`request-bin/src/lib.rs:413`). The page has
4393 bytes, and a list outgrows the limit at about a hundred tasks: the answer is 200, and empty.

**An advisory's earlier intervals are not told** (`osv_ranges`, `threat-intel-mcp/src/osv.rs:253`). `range_lines` keeps
the last event of each kind along a range, so a range that was introduced at 1, fixed at 2,
introduced again at 3 and fixed at 4 is told as ">= 3, fixed in 4", although it "flattens every
affected package's version ranges". `ToolsTellTheTruth` checks the ranges of one interval.

### Smaller divergences

Met while modelling, each a step of the model as of the code; no run is spent on them.

- `complete` of the cron engine catches an entry up before it checks whether the delivery is
  its own, and drops the queued retry without counting it (`engine.rs:526`). If a stale delivery
  settles while a retry waits and the next mark has passed, that firing is in no `missed`,
  although `handler.wit:32` says it is counted, and `poll` counts it in the same situation
  (`engine.rs:465`). `EveryMarkAccounted` makes room for it (`ledger.lost`).
- A last model call refused as too long is made again on half the conversation (`turn.rs:345`),
  so a run can make one call more than `max-steps` ("Model calls the agent may make in this
  run", `run-types.wit:51`). `ModelIsSentConversations` allows exactly one.
- A run asked for with `max-total-tokens` 0 makes one call: the limit is compared with what was used
  only after a call (`turn.rs:357`). `ModelIsSentConversations` speaks of the calls after that.
- A run whose own exchange is over a limit (21 rounds of tools pass `MAX_TURNS`) empties the
  stored conversation, itself included (`conversation.rs:119`), although "the next run continues
  the conversation".
- Two overlapping runs can supersede each other (`turn.rs:162`): each finds the other's
  entries, and neither is done.
- A commit that is refused is reported as superseded, although `run-types.wit:392` keeps that
  for another writer's change.
- If the reply of the last commit is lost, the run records that it failed after the session
  recorded that it is done (`turn.rs:537`); the driver hears `not-recorded`. `JournalIsTrue` allows
  exactly this.
- A reply with neither text nor calls is stored, and replayed to the next run's model as an empty
  message of the assistant.
- `csv-tidy` numbers the rows it reports by record, not by the line of the file, which differ
  behind a quoted line end. A column that is called `overflow_1` and a row with a value too many make an object
  with that key twice (`lib.rs:357`), and who parses it loses one, although "losing a value silently is worse
  than an odd column name" (`lib.rs:325`). `TidyLosesNothing` makes room for exactly this.
- A client that goes away is noticed at the next frame, which may be a keep-alive (`lib.rs:122`): the exchange ends
  while its tool is runnable, and what the tool asks for next is done in the exchange after, although of
  work left by an exchange that ended early the bridge says that "their tools are dead" (`lib.rs:73`). The
  reply reaches that tool and nobody else, so no answer goes astray.
- GitHub lists pull requests as issues, and they are dropped after the page was cut: a page of
  issues can be empty although there are some. A refusal with the last of the quota is told as
  a rate limit, whatever it was for.
- `&amp;lt;` on a page comes out as `<`: entities are replaced one after the other.
- The entropy that `passphrase` shows counts the passwords that can come; those of a draw that
  requires one of each class are not equally likely.

## Proofs

`CronEngine_proofs` proves, for every value of the constants that satisfies the
named assumptions of `CronEngine`:

- `TypeCorrect`: `Spec => []TypeOK`. TypeOK is not inductive alone: the marks of an
  interval can be divided by its period only because no interval of zero is ever held
  and intervals are due on the monotonic clock (`WellFormed`).
- `NeverOverlaps`: `Spec => []NoOverlap` and `NamesAreFreed`: `Spec => []BusyIsRunning`, from
  `OverlapInv`: a live delivery occupies its name under its own epoch (`LiveOccupies`), so
  `Poll` dispatches only to names where nothing lives; a delivery that died with its
  workload neither occupies its name nor shares its epoch with the entry
  there (`DeadForgotten`), so its completion frees nothing; and it stays so because
  epochs only grow (`EpochsBelow`).

What it holds and how often it delivers goes on from there:

- `NothingHeldWithoutGrant`: `Spec => []HeldIsPermitted`, and `AttemptsKeepTheLimit`:
  `Spec => AttemptsBounded`, from `GrantInv`. Every entry stands under the binding in force (`EntriesStand`);
  what a binding declares is held (`DeclaredAreHeld`); what is spent is a one-shot, and
  its firing is queued or under way (`EntriesOwed`): a poll that spends one occupies its name, and
  only its own completion frees it, which queues a retry or ends the entry. `HeldIsPermitted` alone is not inductive: that
  a bind which cuts to the oldest registrations keeps no more than its limit needs
  that no two entries share an epoch (`EpochsDiffer`), which needs in turn `EpochsBelow`.
  The lemma `FewBefore` is the counting argument: of a finite set whose members are numbered apart,
  those with fewer than k before them are at most k, as the last of them has the others before it.

It also proves that the engine implements its contract:

- `EngineImplementsContract`: `Spec => ImplementsContract`, from `CallInv`: nothing is queued for retry
  while a call of the name runs, and no two names bear one firing identifier, whether by the
  call that runs or by the retry that is queued. In every step each name rests, or its call
  ends, or it is called with a new firing, or again with the one queued (`Serves`, one lemma
  per action); whatever serves its names so keeps `CallInv` and takes a step of the contract
  (`ServesKeeps`). That one poll numbers the names it fires apart is the counting argument of
  `NumbersDiffer`: of two names the later one has all before the earlier one before it, and
  the earlier one too.

Last comes what becomes of every period of an interval and every match of a crontab:

- `RetriesFollowTheLatest`: `Spec => []RetryIsLatest`, from `LatestInv`: while a delivery of a
  schedule runs no retry of it is queued, and what is counted as missed carries the mark
  that overtook the handler (`CountedIsOvertaken`); a completion that asks for a retry finds so
  whether there is a later mark.
- `CrontabsKeepTheTime`: `Spec => CronKeepsTime`, from `DueInv`: what is due fits the kind of the
  schedule, on the monotonic clock or on the system clock, and what is spent is a
  one-shot. That the latest match up to now is
  found, and the first one after it, are the lemmas `HasLargest` and `LeastAfter`.
- `ListingsTellTheTruth`: `Spec => ForecastHolds`.
- `NoMarkIsLost`: `Spec => []EveryMarkAccounted`, from `MarksInv`: the marks that the ledger has told,
  and the next one due, agree with the period or the crontab since the entry was made. A step keeps
  an entry, makes it, takes marks from it or resets it after the clock was set
  back, one lemma for each; for crontabs `StaysTrue` counts a set of matches as marks are taken.

Each action has a lemma for `TypeInv`, one for `OverlapInv`, one for `GrantInv`, one for `Serves`
and one for each invariant of the marks.
`BackoffAssumption` states that doubling a backoff gives a natural number: the provers have no
theory of exponentiation. TLC evaluates it on every instance.

`CronLoop_proofs` carries these invariants to the loop around the engine. `PluginDrivesEngine`: every
step of the loop is a step of the engine or leaves the engine alone, so what is proved
of the engine holds under it.

- `CallsStaySingle`: `SpecPlugin => []CallsNeverOverlap`, from `PluginInv`: the engine's invariants, that a
  delivery whose workload was unbound bears a firing of its own (`DeadApart`), and that it runs
  only where `select!` had started it (`DeadEnded`).
- `TimerIsNeverLate`: `SpecPlugin => []TimerCoversDue`, from `TimerInv` and `WaitsInv`: what `next_wake` returns is
  no later than any idle schedule or retry, but for the two lower bounds on a sleep. `SleepAssumption` says that
  `MIN_SLEEP` is not zero.

The same module proves of what comes to the loop, for any calendars and any deployments that have the types of
their interfaces (`CalendarsAssumption`, `DeploymentsAssumption`), any widths of numbers (`NumbersAssumption`) and
any zones less than a day from UTC (`ZonesAssumption`, which also says that nobody asks before 1970), from the
safety part of the specification (`LoopSafe`), as its fairness is about the loop alone:

- `SchedulesStayTaken`: `LoopSafe => []SchedulesAreTaken`, from `CalendarInv` and `DeployInv`. For a calendar the work is in
  `compile`: a field is refused exactly when a part of it does not fit, and admits what its parts mean
  (`SelectorIs`), so the crontab's days are the calendar's (`DaysAreMeant`); and the code probes the years 2000 to
  2027 only, which decides the century because its days of the week repeat after 28 years
  (`YearsRepeat`, `EverIs`). For a binding `DeployInv` says of each of the two loops that nothing was illegal at the
  places it has passed (`Seen`), and that it has taken exactly what they say (`LimitsRead`, `SchedulesRead`): a
  schedule is held against a limit that may stand behind it, which is why the second loop needs all of what
  the first has found. `Moves` shows that the loops see each place once. A sum of periods that is checked at
  each step is refused exactly when a piece cannot be read or the whole is too much (`DurationIs`), as a
  product overflows exactly when the division says so (`Overflows`).
- `FiringsAreMeant`: `LoopSafe => FiresWhenMeant`, from `TimeInv`. Months are counted from year 0, and each begins where the one
  before it ends (`MonthsFollow`, over the 12 months and the rule of leap years), so that they are in order
  (`MonthsAscend`, by induction) and a day is in exactly one, which `DateOf` finds among the years that it tries (`YearIs`,
  `DateIs`). The instants that match a crontab (`Hit`) are those that its calendar means (`HitIsMeant`), and the
  search of the earliest month, the earliest day in it and the earliest time of that day finds the first of them
  (`NextIs`), as the search backwards finds the last (`LastIs`).

`AgentRun_proofs` proves, for any number of runs, instances, run ids, crashes and failed
commits (`NAssumption`):

- `NothingIsDispatchedOver`: `Spec => []NoDispatchOverOthers`, `JournalStaysTrue`: `Spec => []JournalIsTrue` and
  `CallsAreRecovered`, from `JournalInv`. A run id opens one run, and the entry that opens it is the one the
  session's ids name (`OpeningsInv`); a turn is alone in its instance (`AloneInv`); what a turn has read is a
  prefix of the journal, and as long as a turn's commits succeed nobody else has written behind it
  (`ReadInv`); a result in the journal is what its driver heard (`ResultsInv`); and a run that opens recovers
  the calls that others left open (`OpenCallsAreRecovered`). None of these is inductive without the others:
  that a commit is refused when another has written needs what was read, and
  that what was read stays a prefix needs that the journal only grows.
- `CallsStayClosed` and `StateStaysBehind`: `Spec => [](faults = 0 => CallsAreClosed)`, and the same for
  `StateCoversClosed`, from `ClosedInv`. Both are false after a commit that failed, as `agent_covered` shows
  for the second: without one a turn leaves no call open but the one it is in (`ClosedByAll`), one that ended has left
  none (`ClosedAfter`), and behind what a turn has read and recovered nobody has (`ClosedByOthers`).
- `ConversationStaysHistory`: `Spec => []ConversationIsHistory`, from `HistoryInv`: the stored conversation is the
  end of the runs that are done, in the order of the journal, each of which the state covers; what a run
  keeps of the conversation it read is an end of it (`KeptOK`) as long as the snapshot is the
  one in force (`SnapOK`).
- `RunsImplementLedger`: `Spec => ImplementsLedger`, by the mapping of `AgentRun`: every step maps to a
  step of the serial ledger or to a stutter.

Some of these facts are about recursive functions (`DoneRuns` counts along the journal), about folds or about the least
element of a set. The induction theorems of the library are out of reach, as they take an operator, and so
`Folding_proofs` starts from the well-foundedness of the natural numbers: a set of them has a least (`Least`), and is
all of them if it has 0 and the next of each (`Inductive`). From these it has what a fold of the community
modules is: `FoldExists` builds the function that the fold chooses, whatever its step, and
gives its value on the first k places in terms of the first k - 1. A fold in a model is then an induction over the places of
a sequence: `FoldFrom` and `FoldOfMore` say that one element more is one step more, for any step that is a
function, and `EverySequence` that what holds of the empty sequence, and of one element more, holds of all. `Sorts` says that a finite set of keyed elements can be put in order.

`AgentHistory_proofs` proves of `AgentHistory`, for any requests, replies and limits that have the types of their
interfaces (`SizesAssumption`, `StepsAssumption`, `RequestsAssumption`, `RepliesAssumption`):

- `ConversationsStayWhole`: `HistorySpec => []ConversationStaysWhole`, from `SessionInv`. In a session of many runs, what
  is stored starts with a person's message and has every call answered (`Kept`), and trimming or halving
  such a conversation leaves the longest exchange-wise end of it that is within the limit: `DropSteps` unrolls the
  fold, and `DropLongest` shows that what was dropped before is no longer than what is left. Within a run,
  `TalkInv` has, next to the types: in what is stored, and in what this run adds to it, each call is followed by its result (`Wholes`); each turn to be stored echoes a message the model saw (`Echoes`); the steps and tokens
  used stay in their limits (`Limits`); what was sent is the history, the instructions and what this run
  said (`Sending`); the results made so far are those of the first of the calls asked for (`Calling`); and what
  the driver heard and the session stored is what the run came to (`Told`, `Saved`, `Heard`). None is
  inductive without `Wholes` and the types, as a call of the model is made of all that was said before it.

`McpServers_proofs` proves of the bridge, for any set of exchanges and any bounds on fetches, reports, keep-alives and cancellations:

- `ExchangesStayApart`: `Spec => []ExchangesAreApart`. A job is performed only under the exchange it was
  made under, and as long as no peer was lost at a frame before a result, for that exchange's own tool.
- `EveryToolIsHeard`: `Spec => []ToolsAreHeard`. A tool that waits for a reply has a request that is queued or being
  performed: none waits for what nobody will do.

Both need `BridgeInv`: whoever drives, performs or writes frames holds the lock, alone (`LockInv`); every job in the
queue or under way was made under the exchange that holds it, and belongs to the one tool that waits for it
(`QueueInv`); frames are no more than the reports and the result of the exchange's own tool
(`FramesInv`); and as long as no peer was lost too early, a tool that can run has an
exchange that is still driven (`DeadInv`), which is why nothing is queued after the last drain. The
invariants are proved one at a time, each from the ones before it.

Of two of the tools it proves, for any texts, repositories and limits (`TextsAssumption`: candidates are non-empty
spans of the text; `ForgeAssumption`: there is a branch, and a file is not empty):

- `RedactionsAreAccounted`: `ServersSpec => []RedactionIsAccounted`. The invariant only says that what was made is a refusal or
  the redaction of the given text (`RedactorInv`); the work is in `redact`. The candidates that are confirmed can be put in the order the code sorts
  them in (`SpansInOrder`), and the pass over them keeps `Passed`: the places that came out
  ascend and lie before the cursor; every place before the cursor came out or lies in a span that was
  looked at; of such a span the first place did not come out, and of the last one that was taken none did; and placeholders are matched
  with the spans taken, one to one (`Marked`), which is what makes the counts right (`MarkedIsCounted`). That a
  digit doubled in place is what the definition of Luhn's sum says, from the right, is `LuhnTells`.
- `ForgesAreToldTruly`: `ServersSpec => []ForgeIsToldTruly`, from `ForgeInv`: the repository as it is belongs to what it was during the
  call (`window`), and a file is asked for on the branch that was named or one that was the default meanwhile
  (`ForgeAsks`). What a reply says (`RepliesAre`, nine kinds) was then so when it was made, for refusals
  (`ErrorsAreSo`) and for answers (`SuccessIsSo`), and `window` only grows until the caller hears.

`KafkaServices_proofs` proves, for any number of partitions, records and faults and any
deployments (`KafkaAssumption`):

- `ExactlyOnceHolds`: `Spec => []ExactlyOnce`, from `TransactionInv`: the batch is exactly what lies
  between the committed positions and those handed over, and what a transaction holds when
  it is committed is the batch and the positions behind it. The lemma `PositionsReach`
  shows that one past the last record of such a batch is the position handed over on every
  partition, so an applied commit moves the group to where the loop has read; that holds
  whether the service hears of it or not.
- `AtLeastOnceHolds`: `Spec => []AtLeastOnce` where deployments that reject records take them one
  by one (`OneByOne`), from `PullInv`: what was handed over has arrived or is still at hand, and
  nothing is at hand when positions are committed.

`Workloads_proofs` proves of `Workloads`, whose behaviours are among those that `workloads` runs, each of one
program, and under the assumptions that it names (`BoundsAssumption`, `LimitsAssumption`, `PostingsAssumption`):

- `HandlerSkipsNothing`: `Spec => []NothingIsSkipped`, from `HandlerInv`: a batch starts at the committed position and
  follows it without a gap (`Contiguous`), so the first record that is not done is the one to
  go on from, and nothing before it is left.
- `ReceiptsStayHonest`: `Spec => []ReceiptsAreHonest`, from `ConsumerInv` and `WorkerInv`. A call that goes on to
  acknowledge has its receipt, or is the last delivery of a message that cannot be read (`CallsInv`),
  and a receipt's key is made of the message alone, so that of a second delivery is the same one (`ReceiptsInv`) and is
  discarded in the window of the first (`ReceiptsOnce`). A
  batch of the worker has each of its messages once, none of them acknowledged, and its handles are
  those that are held; receipts and the running count together are no more than the acknowledgements.
- `ChecksAreMade`: `Spec => []WhatLeavesIsChecked`, from `ProducerInv` and `WebhookInv`. A product that saturates is above the
  limit exactly when the true one is (`SaturatedIsAbove`), which needs that the limit is below the width of the
  numbers. What the webhook is about to send was verified with the configured key, as no step in
  between changes the request or the configuration.
- `TemplatesStayTrue`: `Spec => []TemplatesKeepTheirWord`, from `CoreInv`. A handler has made the first of the
  calls of its template and has the others to do (`Shaped`), and the calls do not depend on the language
  (`HandlerIs`, one lemma per template); a call that has put its record knows the revision it became, and the
  bucket only grows (`Placed`); a receipt is of such a call (`Truthful`), and two of one revision are of one
  call; each reply is charged to a call that has made it or failed at it (`Answered`).
- `StoresStayTrue`: `Spec => []StoreIsItsHistory`, from `TasksInv` and `BinInv`.
  As long as nothing was written over what was not read, the ids that requests of the task manager have taken
  are apart (`IdsApart`): an id is one more than what was read, and nobody has written a larger one since; and a
  list has a task of each title once, under the id of its request, which is done, with success or without
  (`TasksOwned`); an id that a failing call wrote is nobody's (`SetIdKeeps`). What a
  deletion leaves of a list is by recursion over it (`WithoutExists`, `WithoutKeeps`).
  Of the bin it is that the text is that of the records wanted (`BinInv`). What is between may be any text
  that leaves the scanner where it found it, outside of strings and with nothing cut (`Good`): an escaped string
  within quotes is one whatever it holds (`ScanString`), so is what is in braces, and so are two of them in a row
  or with a comma between. A record is therefore one piece more (`ScanRecord`), and cutting undoes
  joining (`SplitIs`). Headers are grouped by an induction that has each name once, all of its values so far and no name
  that did not come (`TellsMore`); a text is cut at a text because two second bytes never follow each
  other (`CutText`), for which more of a body must be read than is kept (`PostingsAssumption`).

`AppStays` and `StepOfApp` take each program's invariant through the composition.

Only model-checked are these:

- Liveness: `AllIsServed`, `TurnsEnd`, `ExchangesEnd`, `CaughtUp`, `EverythingIsServed`. The prover
  handles neither fairness nor ENABLED.
- What an algorithm computes from pages, advisories, tables and passwords:
  `ToolsTellTheTruth`, `TidyLosesNothing` and `PasswordsAreAsSaid`. They rest on folds and filters of sequences, each with a
  state of its own, on numbers written as text and on counting; each would need an induction over data with an invariant of its loop. TLC evaluates
  them on every input within the bounds.

## Not modelled

- Daylight saving, and the parsing and search of croner and the zones of chrono: external
  libraries. `CronCalendar` has zones of a fixed offset.
- The sanitizer MCP server, which hands its input to ammonia and pulldown-cmark and returns
  what they make of it; its bridge is the one of the others.
- `qrcode` (an encoder from a library behind one handler) and `first-flight` (a page that is filled in):
  no state, no algorithm of their own.
- Descriptions of the agent and of tools, telemetry, logs, and the JSON encoding of a
  conversation: text that no property is about.
- `cosmonic:notifications`: an interface without an implementation here.
- CI and release scripts, manifests, front ends, the mock providers of the test host other than
  its session.

## Plan

1. Done: every component that keeps state; the tools and examples with an algorithm; theorems on
   the engine and the loop around it, calendars and bindings, the runs and conversations of the agent, the bridge, the redactor and the forges, the
   Kafka services and the programs called once for a message, a batch or a request.
2. Proofs that are left: what single tools compute, beginning with the table that comes back from its text
   (`CsvTidy`), by the lemmas that undo the joining and cutting of a bin.
3. Days on which a zone's offset changes, with the rules by which croner and chrono resolve
   instants that are skipped or come twice.
