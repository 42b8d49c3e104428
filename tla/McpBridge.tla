------------------------------ MODULE McpBridge ------------------------------
(***************************************************************************)
(* The bridge of the MCP servers: one instance, one thread, and two        *)
(* executors on it.  Exchanges are tasks of the component, which give way  *)
(* where they await; tools are tasks of tokio, which run only inside a     *)
(* block_on, while every exchange stands still.  A request a tool makes    *)
(* crosses over: it is queued as a job, and the exchange that holds the    *)
(* request lock performs it outside of block_on.                           *)
(*                                                                         *)
(* rmcp is external: it spawns one tool a request and turns what the tool  *)
(* says into the frames of the response.                                   *)
(***************************************************************************)
EXTENDS Naturals, Sequences, FiniteSets, SequencesExt

CONSTANTS
  Requests,
  MaxFetches,  \* most requests one tool makes
  MaxReports,  \* most frames a tool sends before its result
  MaxCancels,  \* bound on calls of handle that the host cancels
  MaxKeeps     \* bound on keep-alive frames

ASSUME BridgeAssumption == {MaxFetches, MaxReports, MaxCancels, MaxKeeps} \subseteq Nat

VARIABLES
  pc,        \* where each exchange is
  lock,      \* the exchanges that hold request_lock: at most one
  waiting,   \* those queued for it, in order
  jobs,      \* job_queue
  job,       \* what an exchange performs
  tool,      \* the tool of each exchange
  frames,    \* frames of the response that wait to be pumped
  cancels,   \* calls cancelled so far
  keeps,     \* keep-alive frames so far
  cut        \* whether a peer was lost at a frame before the result

vars == <<pc, lock, waiting, jobs, job, tool, frames, cancels, keeps, cut>>
pumpVars == <<keeps, cut>>

PCs == {"new", "uploading", "waiting", "headers", "fetching headers", "pump",
        "frame", "fetching frame", "sending", "trailers", "transmit", "over"}

\* Inside block_on, outside of it with the lock, and performing a job.
Blocking   == {"headers", "frame"}
Performing == {"fetching headers", "fetching frame"}
Holding    == Blocking \cup Performing \cup {"pump", "sending", "trailers"}

NoTool == [is |-> "none", fetches |-> 0, reports |-> 0]

\* A job: the tool that waits for it, and the exchange it was queued under.
NoJob  == [tool |-> {}, under |-> {}]

At(r, p) == pc[r] = p
Blocked  == \E r \in Requests : pc[r] \in Blocking
Goto(r, p) == pc' = [pc EXCEPT ![r] = p]

\* Mutant of Failed: a tool that gets no reply asks again.
AsksAgain(S) == [t \in Requests |->
  IF t \in S THEN [tool[t] EXCEPT !.is = "runnable"] ELSE tool[t]]

\* The tools in S are told that their request failed; it is the end of them.
Failed(S) == [t \in Requests |->
  IF t \in S THEN [tool[t] EXCEPT !.is = "failed"] ELSE tool[t]]

\* Dropping a job drops the sender of its reply.
Dropped(s) == UNION {s[i].tool : i \in DOMAIN s}

\* drain_stale_jobs
Drained == jobs' = << >> /\ tool' = Failed(Dropped(jobs))

-----------------------------------------------------------------------------
(* handle                                                                  *)

Arrive(r) ==
  /\ ~Blocked /\ At(r, "new")
  /\ Goto(r, "uploading")
  /\ UNCHANGED <<lock, waiting, jobs, job, tool, frames, cancels, pumpVars>>

\* Mutant of Upload: the request queues for the lock while it is read.
UploadLocked(r) ==
  /\ ~Blocked
  /\ \/ At(r, "uploading") /\ r \notin Range(waiting)
        /\ waiting' = Append(waiting, r) /\ UNCHANGED pc
     \/ At(r, "uploading") /\ r \in Range(waiting)
        /\ Goto(r, "waiting") /\ UNCHANGED waiting
  /\ UNCHANGED <<lock, jobs, job, tool, frames, cancels, pumpVars>>

\* The body is read, or is too large or breaks off, before the lock is asked for.
Upload(r) ==
  /\ ~Blocked /\ At(r, "uploading")
  /\ \/ Goto(r, "waiting") /\ waiting' = Append(waiting, r)
     \/ Goto(r, "over") /\ UNCHANGED waiting
  /\ UNCHANGED <<lock, jobs, job, tool, frames, cancels, pumpVars>>

\* Mutant of Free: the lock is taken whoever holds it.
FreeForAll == TRUE

Free == lock = {}

\* Mutant of Start: what earlier exchanges left is not drained.
StartUndrained(r) ==
  /\ ~Blocked /\ At(r, "waiting")
  /\ Free /\ Head(waiting) = r
  /\ lock' = lock \cup {r} /\ waiting' = Tail(waiting)
  /\ Goto(r, "headers")
  /\ tool' = [tool EXCEPT ![r].is = "runnable"]
  /\ UNCHANGED <<jobs, job, frames, cancels, pumpVars>>

\* It has the lock, and drives rmcp, which spawns the tool.
Start(r) ==
  /\ ~Blocked /\ At(r, "waiting")
  /\ Free /\ Head(waiting) = r
  /\ lock' = lock \cup {r} /\ waiting' = Tail(waiting)
  /\ Goto(r, "headers")
  /\ jobs' = << >>
  /\ tool' = [Failed(Dropped(jobs)) EXCEPT ![r].is = "runnable"]
  /\ UNCHANGED <<job, frames, cancels, pumpVars>>

\* rmcp has the headers, at once or after the first frame; a job comes first.
\* They are headers and a status that the host takes.
Headers(r) ==
  /\ At(r, "headers") /\ jobs = << >>
  /\ Goto(r, "pump")
  /\ UNCHANGED <<lock, waiting, jobs, job, tool, frames, cancels, pumpVars>>

\* The host cancels handle where it awaits.
Cancel(r) ==
  /\ ~Blocked /\ pc[r] \in {"uploading", "waiting", "fetching headers"}
  /\ cancels < MaxCancels /\ cancels' = cancels + 1
  /\ Goto(r, "over") /\ lock' = lock \ {r}
  /\ waiting' = Remove(waiting, r)
  /\ tool' = Failed(job[r].tool)
  /\ job' = [job EXCEPT ![r] = NoJob]
  /\ UNCHANGED <<jobs, frames, pumpVars>>

-----------------------------------------------------------------------------
(* drive                                                                   *)

\* Mutant of TakeJob: the latest job is taken.
TakeLatest(r, next) ==
  /\ jobs # << >>
  /\ job' = [job EXCEPT ![r] = Last(jobs)]
  /\ jobs' = << >>
  /\ Goto(r, next)
  /\ UNCHANGED <<lock, waiting, tool, frames, cancels, pumpVars>>

\* block_on returns with a job; the select! is biased to it.
TakeJob(r, next) ==
  /\ jobs # << >>
  /\ job' = [job EXCEPT ![r] = Head(jobs)]
  /\ jobs' = Tail(jobs)
  /\ Goto(r, next)
  /\ UNCHANGED <<lock, waiting, tool, frames, cancels, pumpVars>>

\* The upstream answers, or refuses, or its deadline passes: the tool hears.
Performed(r, next) ==
  /\ ~Blocked
  /\ \E t \in job[r].tool, is \in {"runnable", "failed"} :
       tool' = [tool EXCEPT ![t].is = is]
  /\ job' = [job EXCEPT ![r] = NoJob]
  /\ Goto(r, next)
  /\ UNCHANGED <<lock, waiting, jobs, frames, cancels, pumpVars>>

Drive(r) ==
  \/ At(r, "headers") /\ TakeJob(r, "fetching headers")
  \/ At(r, "frame") /\ TakeJob(r, "fetching frame")
  \/ At(r, "fetching headers") /\ Performed(r, "headers")
  \/ At(r, "fetching frame") /\ Performed(r, "frame")

-----------------------------------------------------------------------------
(* Tools.  Any that can run may do so in the block_on of any exchange; the *)
(* frames of one whose response is gone go nowhere.                        *)

Said(t) == IF At(t, "over") THEN frames
           ELSE [frames EXCEPT ![t] = @ + 1]

Fetch(t) ==
  /\ tool[t].is = "runnable" /\ tool[t].fetches < MaxFetches
  /\ jobs' = Append(jobs, [tool |-> {t}, under |-> lock])
  /\ tool' = [tool EXCEPT ![t] =
                [is |-> "fetching", fetches |-> @.fetches + 1, reports |-> @.reports]]
  /\ UNCHANGED frames

Report(t) ==
  /\ tool[t].is = "runnable" /\ tool[t].reports < MaxReports
  /\ tool' = [tool EXCEPT ![t].reports = @ + 1]
  /\ frames' = Said(t)
  /\ UNCHANGED jobs

Finish(t) ==
  /\ tool[t].is \in {"runnable", "failed"}
  /\ tool' = [tool EXCEPT ![t].is = "over"]
  /\ frames' = Said(t)
  /\ UNCHANGED jobs

RunTool(t) ==
  /\ Blocked
  /\ Fetch(t) \/ Report(t) \/ Finish(t)
  /\ UNCHANGED <<pc, lock, waiting, job, cancels, pumpVars>>

-----------------------------------------------------------------------------
(* The pump.                                                               *)

Pump(r) ==
  /\ ~Blocked /\ At(r, "pump")
  /\ Goto(r, "frame")
  /\ UNCHANGED <<lock, waiting, jobs, job, tool, frames, cancels, pumpVars>>

Frame(r) ==
  /\ At(r, "frame") /\ jobs = << >>
  /\ \/ /\ frames[r] > 0
        /\ frames' = [frames EXCEPT ![r] = @ - 1]
        /\ Goto(r, "sending")
     \/ /\ frames[r] = 0 /\ tool[r].is = "over"
        /\ Goto(r, "trailers")
        /\ UNCHANGED frames
  /\ UNCHANGED <<lock, waiting, jobs, job, tool, cancels, pumpVars>>

\* The tool has said nothing for 15 s, and rmcp sends a keep-alive in its place.
KeepAlive(r) ==
  /\ At(r, "frame") /\ jobs = << >>
  /\ frames[r] = 0 /\ tool[r].is # "over"
  /\ keeps < MaxKeeps /\ keeps' = keeps + 1
  /\ Goto(r, "sending")
  /\ UNCHANGED <<lock, waiting, jobs, job, tool, frames, cancels, cut>>

\* The host takes the frame.
Sent(r) ==
  /\ ~Blocked /\ At(r, "sending")
  /\ Goto(r, "frame")
  /\ UNCHANGED <<lock, waiting, jobs, job, tool, frames, cancels, pumpVars>>

\* The peer is gone, or has not read for SEND_FRAME_TIMEOUT_MS.
PeerGone(r) ==
  /\ ~Blocked /\ At(r, "sending")
  /\ Goto(r, "over") /\ lock' = lock \ {r}
  /\ Drained
  /\ frames' = [frames EXCEPT ![r] = 0]
  /\ cut' = (cut \/ tool[r].is # "over")
  /\ UNCHANGED <<waiting, job, cancels, keeps>>

\* The trailers are handed over, and the lock given back before the wait for
\* the transmission.
Trailers(r) ==
  /\ ~Blocked /\ At(r, "trailers")
  /\ Goto(r, "transmit") /\ lock' = lock \ {r}
  /\ Drained
  /\ UNCHANGED <<waiting, job, frames, cancels, pumpVars>>

Transmitted(r) ==
  /\ ~Blocked /\ At(r, "transmit")
  /\ Goto(r, "over")
  /\ UNCHANGED <<lock, waiting, jobs, job, tool, frames, cancels, pumpVars>>

-----------------------------------------------------------------------------
Init ==
  /\ pc = [r \in Requests |-> "new"]
  /\ lock = {} /\ waiting = << >>
  /\ jobs = << >> /\ job = [r \in Requests |-> NoJob]
  /\ tool = [r \in Requests |-> NoTool]
  /\ frames = [r \in Requests |-> 0]
  /\ cancels = 0 /\ keeps = 0 /\ cut = FALSE

Exchange(r) ==
  \/ Start(r) \/ Headers(r) \/ Drive(r) \/ Pump(r) \/ Frame(r) \/ Trailers(r)

Next ==
  \E r \in Requests :
    \/ Arrive(r) \/ Upload(r) \/ Cancel(r)
    \/ Exchange(r) \/ RunTool(r)
    \/ KeepAlive(r) \/ Sent(r) \/ PeerGone(r) \/ Transmitted(r)

(***************************************************************************)
(* Nothing says that a body arrives, or that a client reads; what has a    *)
(* deadline ends, tasks that can run do, and the host takes the trailers.  *)
(***************************************************************************)
Fairness ==
  \A r \in Requests :
    WF_vars(Exchange(r)) /\ WF_vars(RunTool(r)) /\ WF_vars(PeerGone(r))

Spec == Init /\ [][Next]_vars /\ Fairness

-----------------------------------------------------------------------------
(* Properties.                                                             *)

\* Every variable has its type, an exchange is driven if and only if it holds
\* the lock (block_on is never entered within block_on), and a tool waits for
\* one of the queued requests at most.
TypeOK ==
  /\ \A r \in Requests :
       /\ pc[r] \in PCs
       /\ pc[r] \in Holding <=> lock = {r}
       /\ pc[r] \in Performing <=> job[r] # NoJob
       /\ tool[r].is \in {"none", "runnable", "fetching", "failed", "over"}
       /\ frames[r] \in 0 .. MaxReports + 1
  /\ \A i, k \in DOMAIN jobs : i # k => jobs[i].tool # jobs[k].tool
  /\ cancels \in 0..MaxCancels /\ keeps \in 0..MaxKeeps /\ cut \in BOOLEAN

(***************************************************************************)
(* What is queued was queued under the exchange that is driven, so none    *)
(* performs what an earlier one, however it ended, left behind.            *)
(***************************************************************************)
JobsOfThisExchange ==
  \A r \in Requests : pc[r] \in Blocking \cup Performing =>
    \A k \in Range(jobs) \cup {job[r]} : k # NoJob => k.under = {r}

(***************************************************************************)
(* "Their tools are dead" (handle): the tool of an exchange that has ended *)
(* makes no request under a later one, as long as no peer was lost at a    *)
(* frame before the result, a keep-alive or a report.  There the exchange  *)
(* ends, and its tool goes on in the next one.                             *)
(***************************************************************************)
DeadToolsStayDead == ~cut => \A r \in Requests : job[r].tool \subseteq {r}

(* One exchange is driven at a time, and does its own work only. *)
ExchangesAreApart == TypeOK /\ JobsOfThisExchange /\ DeadToolsStayDead

(***************************************************************************)
(* A tool that waits for a reply will get one: its request is queued or    *)
(* being performed.                                                        *)
(***************************************************************************)
ToolsAreHeard ==
  \A t \in Requests : tool[t].is = "fetching" =>
    t \in Dropped(jobs) \cup UNION {job[r].tool : r \in Requests}

(***************************************************************************)
(* Whatever uploads stall, upstreams hang, or clients do not read, every   *)
(* request that was read gives the lock back.                              *)
(***************************************************************************)
ExchangesEnd ==
  \A r \in Requests : At(r, "waiting") ~> pc[r] \in {"transmit", "over"}
=============================================================================
