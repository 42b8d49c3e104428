------------------------- MODULE McpServers_proofs -------------------------
(***************************************************************************)
(* Theorems about the MCP servers, for any number of exchanges, of         *)
(* requests and frames of a tool, and of calls cancelled, and for any      *)
(* repository, whatever changes of it, and any text:                       *)
(*                                                                         *)
(*   ExchangesStayApart    one exchange is driven at a time, and performs  *)
(*     what was queued under it;                                           *)
(*   EveryToolIsHeard      no tool waits for a reply nobody will send;     *)
(*   ForgesAreToldTruly    what is told of a repository was so while it    *)
(*     was asked;                                                          *)
(*   RedactionsAreAccounted   every place of a text comes out, once or     *)
(*     behind a counted placeholder.                                       *)
(***************************************************************************)
EXTENDS McpServers, Folding_proofs, SequenceTheorems

(***************************************************************************)
(* The bridge.                                                             *)
(***************************************************************************)
Job  == [tool : {{t} : t \in Requests}, under : SUBSET Requests]
Tool == [is : {"none", "runnable", "fetching", "failed", "over"},
         fetches : Nat, reports : 0..MaxReports]

TypeInv ==
  /\ pc \in [Requests -> PCs]
  /\ lock \subseteq Requests
  /\ jobs \in Seq(Job)
  /\ job \in [Requests -> Job \cup {NoJob}]
  /\ tool \in [Requests -> Tool]
  /\ frames \in [Requests -> Nat]
  /\ cancels \in 0..MaxCancels /\ keeps \in 0..MaxKeeps /\ cut \in BOOLEAN

(* The one who holds the lock is driven, and performs the job it took. *)
LockInv ==
  /\ \A q, r \in lock : q = r
  /\ \A r \in Requests :
       /\ pc[r] \in Holding <=> r \in lock
       /\ pc[r] \in Performing <=> job[r] # NoJob

(* A tool waits for the one job it has, which is queued or performed; what *)
(* is queued while an exchange has the lock was queued under it.           *)
QueueInv ==
  /\ \A i \in DOMAIN jobs : lock # {} => jobs[i].under = lock
  /\ \A r \in Requests : job[r] # NoJob => job[r].under = {r}
  /\ \A i \in DOMAIN jobs : \A t \in jobs[i].tool :
       /\ tool[t].is = "fetching"
       /\ \A k \in DOMAIN jobs : t \in jobs[k].tool => k = i
       /\ \A r \in Requests : t \notin job[r].tool
  /\ \A r \in Requests : \A t \in job[r].tool : tool[t].is = "fetching"

(* A tool says a result once, so its frames are counted by what it did. *)
FramesInv ==
  \A t \in Requests :
    /\ pc[t] \in {"new", "uploading", "waiting"} => tool[t].is = "none"
    /\ frames[t] <= tool[t].reports + (IF tool[t].is = "over" THEN 1 ELSE 0)

Driven == {"headers", "fetching headers", "pump", "frame", "fetching frame", "sending"}

(* Where no peer was lost too early, the exchange of a tool that has not   *)
(* ended is driven still.                                                  *)
DeadInv ==
  ~cut =>
    /\ \A t \in Requests : tool[t].is \in {"runnable", "fetching"} => pc[t] \in Driven
    /\ \A i \in DOMAIN jobs : jobs[i].tool = jobs[i].under
    /\ \A r \in Requests : job[r].tool \subseteq {r}

BridgeInv == TypeInv /\ LockInv /\ QueueInv /\ FramesInv /\ DeadInv /\ ToolsAreHeard

-----------------------------------------------------------------------------
(* It holds before any exchange.                                           *)
LEMMA BridgeInit == Init => BridgeInv
<1> SUFFICES ASSUME Init PROVE BridgeInv
  OBVIOUS
<1>0. MaxReports \in Nat /\ MaxCancels \in Nat /\ MaxKeeps \in Nat
  BY BridgeAssumption DEF BridgeAssumption
<1>b. cut \in BOOLEAN
  BY Zenon DEF Init
<1>1. TypeInv /\ LockInv
  BY <1>0, <1>b DEF Init, TypeInv, LockInv, NoTool, NoJob, Tool, PCs, Holding, Performing, Blocking
<1>2. QueueInv
  BY DEF Init, QueueInv, NoJob
<1>3. FramesInv
  BY DEF Init, FramesInv, NoTool
<1>4. DeadInv
  BY DEF Init, DeadInv, NoTool, NoJob
<1>5. ToolsAreHeard
  BY DEF Init, ToolsAreHeard, NoTool
<1> QED BY <1>1, <1>2, <1>3, <1>4, <1>5 DEF BridgeInv

(* A job has one tool, and is not NoJob. *)
LEMMA JobShape ==
  ASSUME NEW k \in Job
  PROVE  /\ \E t \in Requests : k.tool = {t}
         /\ k.under \subseteq Requests /\ k # NoJob
BY DEF Job, NoJob

(* What a queue drops is what its jobs wait for. *)
LEMMA DroppedShape ==
  ASSUME NEW s \in Seq(Job)
  PROVE  /\ Dropped(s) \subseteq Requests
         /\ \A t : t \in Dropped(s) <=> \E i \in DOMAIN s : t \in s[i].tool
<1>1. \A i \in DOMAIN s : s[i] \in Job
  OBVIOUS
<1> QED BY <1>1, JobShape DEF Dropped

(* What the end of a request does to the tools in S, and to no other.      *)
LEMMA FailedShape ==
  ASSUME TypeInv, NEW S
  PROVE  /\ Failed(S) \in [Requests -> Tool]
         /\ \A t \in Requests :
              /\ Failed(S)[t].is = IF t \in S THEN "failed" ELSE tool[t].is
              /\ Failed(S)[t].reports = tool[t].reports
              /\ t \notin S => Failed(S)[t] = tool[t]
<1>1. \A t \in Requests : tool[t] \in Tool
  BY DEF TypeInv
<1>2. \A t \in Requests : /\ [tool[t] EXCEPT !.is = "failed"] \in Tool
                          /\ [tool[t] EXCEPT !.is = "failed"].is = "failed"
                          /\ [tool[t] EXCEPT !.is = "failed"].reports = tool[t].reports
  BY <1>1 DEF Tool
<1> QED BY <1>1, <1>2 DEF Failed

-----------------------------------------------------------------------------
(* Types.                                                                  *)

(* What a request or a frame makes of a tool is one.                       *)
LEMMA ToolShape ==
  ASSUME NEW k \in Tool, MaxReports \in Nat
  PROVE  /\ \A is \in {"runnable", "fetching", "failed", "over"} :
              [k EXCEPT !.is = is] \in Tool
         /\ [is |-> "fetching", fetches |-> k.fetches + 1, reports |-> k.reports] \in Tool
         /\ k.reports < MaxReports => [k EXCEPT !.reports = @ + 1] \in Tool
BY DEF Tool

(* A tool that makes a request is a tool.                                  *)
LEMMA FetchType ==
  ASSUME TypeInv, NEW t \in Requests, Fetch(t)
  PROVE  jobs' \in Seq(Job) /\ tool' \in [Requests -> Tool] /\ frames' = frames
<1>1. [tool |-> {t}, under |-> lock] \in Job
  <2>1. {t} \in {{u} : u \in Requests} /\ lock \in SUBSET Requests
    BY DEF TypeInv
  <2> QED BY <2>1 DEF Job
<1>2. [is |-> "fetching", fetches |-> tool[t].fetches + 1, reports |-> tool[t].reports] \in Tool
  BY ToolShape, BridgeAssumption DEF TypeInv, BridgeAssumption
<1> QED BY <1>1, <1>2 DEF Fetch, TypeInv

(* A step of a tool keeps the types.                                       *)
LEMMA ToolType ==
  ASSUME TypeInv, NEW t \in Requests, RunTool(t)
  PROVE  TypeInv'
<1>0. MaxReports \in Nat /\ tool[t] \in Tool
  BY BridgeAssumption DEF BridgeAssumption, TypeInv
<1>1. UNCHANGED <<pc, lock, job, cancels, pumpVars>>
  BY DEF RunTool
<1>2. CASE Fetch(t)
  BY <1>1, <1>2, FetchType DEF TypeInv, pumpVars
<1>3. CASE Report(t)
  <2>1. [tool[t] EXCEPT !.reports = @ + 1] \in Tool
    BY <1>0, <1>3, ToolShape DEF Report
  <2> QED BY <1>1, <1>3, <2>1 DEF Report, Said, TypeInv, pumpVars
<1>4. CASE Finish(t)
  <2>1. [tool[t] EXCEPT !.is = "over"] \in Tool
    BY <1>0, ToolShape
  <2> QED BY <1>1, <1>4, <2>1 DEF Finish, Said, TypeInv, pumpVars
<1> QED BY <1>2, <1>3, <1>4 DEF RunTool

(* The types are kept.                                                     *)
LEMMA TypeStep ==
  ASSUME TypeInv, [Next]_vars
  PROVE  TypeInv'
<1> USE DEF Goto, PCs, pumpVars
<1>0. MaxReports \in Nat /\ MaxCancels \in Nat /\ MaxKeeps \in Nat
  BY BridgeAssumption DEF BridgeAssumption
<1>f. \A S : Failed(S) \in [Requests -> Tool]
  BY FailedShape
<1>1. ASSUME NEW r \in Requests, Arrive(r) \/ Upload(r)
      PROVE  TypeInv'
  BY <1>1 DEF Arrive, Upload, TypeInv
<1>2. ASSUME NEW r \in Requests,
             Headers(r) \/ Pump(r) \/ Sent(r) \/ Transmitted(r) \/ Frame(r)
      PROVE  TypeInv'
  <2>1. CASE Frame(r)
    <3>0. frames \in [Requests -> Nat] /\ frames[r] \in Nat
      BY <1>2 DEF TypeInv
    <3>1. frames[r] > 0 => frames[r] - 1 \in Nat
      BY <3>0
    <3>2. \/ frames' = frames
          \/ frames[r] > 0 /\ frames' = [frames EXCEPT ![r] = frames[r] - 1]
      BY <2>1 DEF Frame
    <3>3. frames' \in [Requests -> Nat]
      BY <3>0, <3>1, <3>2
    <3> QED BY <2>1, <3>3 DEF Frame, TypeInv
  <2> QED BY <1>2, <2>1 DEF Headers, Pump, Sent, Transmitted, TypeInv
<1>9. ASSUME NEW r \in Requests, KeepAlive(r)
      PROVE  TypeInv'
  <2>1. keeps' \in 0..MaxKeeps
    <3>1. keeps < MaxKeeps /\ keeps' = keeps + 1
      BY <1>9 DEF KeepAlive
    <3>2. keeps \in 0..MaxKeeps
      BY DEF TypeInv
    <3> QED BY <3>1, <3>2, <1>0
  <2> QED BY <1>9, <2>1 DEF KeepAlive, TypeInv
<1>3. ASSUME NEW r \in Requests, Cancel(r)
      PROVE  TypeInv'
  <2>1. cancels' \in 0..MaxCancels
    <3>1. cancels < MaxCancels /\ cancels' = cancels + 1
      BY <1>3 DEF Cancel
    <3>2. cancels \in 0..MaxCancels
      BY DEF TypeInv
    <3> QED BY <3>1, <3>2, <1>0
  <2>2. tool' \in [Requests -> Tool]
    BY <1>3, <1>f DEF Cancel
  <2> QED BY <1>3, <2>1, <2>2 DEF Cancel, TypeInv
<1>4. ASSUME NEW r \in Requests, Start(r)
      PROVE  TypeInv'
  <2>1. Failed(Dropped(jobs)) \in [Requests -> Tool]
    BY <1>f
  <2>2. [Failed(Dropped(jobs))[r] EXCEPT !.is = "runnable"] \in Tool
    BY <1>0, <2>1, ToolShape
  <2>3. tool' \in [Requests -> Tool]
    BY <1>4, <2>1, <2>2 DEF Start
  <2>4. jobs' \in Seq(Job)
    BY <1>4, EmptySeq DEF Start
  <2> QED BY <1>4, <2>3, <2>4 DEF Start, TypeInv
<1>5. ASSUME NEW r \in Requests, NEW next \in PCs, TakeJob(r, next)
      PROVE  TypeInv'
  <2>1. Head(jobs) \in Job /\ Tail(jobs) \in Seq(Job)
    BY <1>5, HeadTailProperties DEF TakeJob, TypeInv
  <2> QED BY <1>5, <2>1 DEF TakeJob, TypeInv
<1>6. ASSUME NEW r \in Requests, NEW next \in PCs, Performed(r, next)
      PROVE  TypeInv'
  <2>1. PICK t \in job[r].tool, is \in {"runnable", "failed"} :
          tool' = [tool EXCEPT ![t].is = is]
    BY <1>6 DEF Performed
  <2>2. \A u \in Requests : [tool[u] EXCEPT !.is = is] \in Tool
    BY <1>0, ToolShape DEF TypeInv
  <2>3. tool' \in [Requests -> Tool]
    BY <2>1, <2>2 DEF TypeInv
  <2> QED BY <1>6, <2>3 DEF Performed, TypeInv
<1>7. ASSUME NEW r \in Requests, Trailers(r) \/ PeerGone(r)
      PROVE  TypeInv'
  <2>1. tool' \in [Requests -> Tool] /\ jobs' = << >>
    BY <1>7, <1>f DEF Trailers, PeerGone, Drained
  <2>2. jobs' \in Seq(Job)
    BY <2>1, EmptySeq
  <2>3. CASE PeerGone(r)
    <3>1. frames' \in [Requests -> Nat]
      BY <2>3 DEF PeerGone, TypeInv
    <3>2. cut' \in BOOLEAN
      BY <2>3, Zenon DEF PeerGone
    <3> QED BY <2>1, <2>2, <2>3, <3>1, <3>2 DEF PeerGone, TypeInv
  <2> QED BY <1>7, <2>1, <2>2, <2>3 DEF Trailers, TypeInv
<1>8. CASE UNCHANGED vars
  BY <1>8 DEF vars, TypeInv
<1> QED
  BY <1>1, <1>2, <1>3, <1>4, <1>5, <1>6, <1>7, <1>8, <1>9, ToolType
  DEF Next, Exchange, Drive
-----------------------------------------------------------------------------
(* The lock.                                                               *)

(* Who holds the lock is driven, and nobody else.                          *)
LEMMA LockStep ==
  ASSUME TypeInv, LockInv, [Next]_vars
  PROVE  LockInv'
<1> USE DEF LockInv, Holding, Performing, Blocking, At, Goto
<1>t. /\ pc \in [Requests -> PCs] /\ lock \subseteq Requests
      /\ job \in [Requests -> Job \cup {NoJob}]
  BY DEF TypeInv
<1>1. ASSUME NEW r \in Requests, Arrive(r) \/ Upload(r)
      PROVE  LockInv'
  BY <1>t, <1>1 DEF Arrive, Upload
<1>2. ASSUME NEW r \in Requests,
             Headers(r) \/ Pump(r) \/ KeepAlive(r) \/ Sent(r) \/ Transmitted(r)
      PROVE  LockInv'
  BY <1>t, <1>2 DEF Headers, Pump, KeepAlive, Sent, Transmitted
<1>3. ASSUME NEW r \in Requests, Frame(r)
      PROVE  LockInv'
  BY <1>t, <1>3 DEF Frame
<1>4. ASSUME NEW r \in Requests, Cancel(r)
      PROVE  LockInv'
  BY <1>t, <1>4 DEF Cancel
<1>5. ASSUME NEW r \in Requests, Start(r)
      PROVE  LockInv'
  BY <1>t, <1>5 DEF Start, Free
<1>6. ASSUME NEW r \in Requests, NEW next \in Performing, pc[r] \in Blocking, TakeJob(r, next)
      PROVE  LockInv'
  <2>1. Head(jobs) # NoJob
    BY <1>6, HeadTailProperties, JobShape DEF TakeJob, TypeInv
  <2> QED BY <1>t, <1>6, <2>1 DEF TakeJob
<1>7. ASSUME NEW r \in Requests, NEW next \in Blocking, pc[r] \in Performing, Performed(r, next)
      PROVE  LockInv'
  BY <1>t, <1>7 DEF Performed
<1>8. ASSUME NEW r \in Requests, Trailers(r) \/ PeerGone(r)
      PROVE  LockInv'
  <2>1. pc[r] \in {"trailers", "sending"} /\ lock' = lock \ {r} /\ job' = job
        /\ (Goto(r, "transmit") \/ Goto(r, "over"))
    BY <1>8 DEF Trailers, PeerGone
  <2> QED BY <1>t, <1>8, <2>1
<1>9. ASSUME NEW t \in Requests, RunTool(t)
      PROVE  LockInv'
  BY <1>9 DEF RunTool
<1>10. CASE UNCHANGED vars
  BY <1>10 DEF vars
<1> QED
  BY <1>1, <1>2, <1>3, <1>4, <1>5, <1>6, <1>7, <1>8, <1>9, <1>10
  DEF Next, Exchange, Drive

-----------------------------------------------------------------------------
(* Jobs, and the tools that wait for them.                                 *)

(* While a tool runs, one exchange has the lock. *)
LEMMA ToolsRunUnderLock ==
  ASSUME TypeInv, LockInv, Blocked
  PROVE  \E r \in Requests : lock = {r} /\ pc[r] \in Blocking
BY DEF TypeInv, LockInv, Blocked, Holding

(* Nobody performs a job while another exchange is driven. *)
LEMMA OnePerforms ==
  ASSUME TypeInv, LockInv, NEW q \in Requests, NEW r \in Requests,
         pc[r] \in Holding, q # r
  PROVE  job[q] = NoJob
BY DEF TypeInv, LockInv, Holding

(* A step of an exchange that leaves jobs and tools alone leaves this alone. *)
LEMMA QuietQueue ==
  ASSUME QueueInv, UNCHANGED <<jobs, job, tool>>, lock' = {} \/ lock' = lock
  PROVE  QueueInv'
BY DEF QueueInv

(* Every queued request is of one tool, and of this exchange.              *)
LEMMA QueueStep ==
  ASSUME TypeInv, LockInv, QueueInv, [Next]_vars
  PROVE  QueueInv'
<1>t. /\ lock \subseteq Requests /\ jobs \in Seq(Job) /\ tool \in [Requests -> Tool]
      /\ job \in [Requests -> Job \cup {NoJob}]
      /\ \A i \in DOMAIN jobs : jobs[i] \in Job /\ jobs[i].tool \subseteq Requests
      /\ \A r \in Requests : job[r].tool \subseteq Requests
  BY JobShape DEF TypeInv, NoJob
<1>1. ASSUME NEW r \in Requests, Arrive(r) \/ Upload(r) \/ Headers(r) \/ Pump(r)
                                \/ Frame(r) \/ KeepAlive(r) \/ Sent(r) \/ Transmitted(r)
      PROVE  QueueInv'
  BY <1>1, QuietQueue DEF Arrive, Upload, Headers, Pump, Frame, KeepAlive, Sent, Transmitted
<1>2. ASSUME NEW r \in Requests, Cancel(r)
      PROVE  QueueInv'
  <2>1. /\ jobs' = jobs /\ job' = [job EXCEPT ![r] = NoJob]
        /\ tool' = Failed(job[r].tool) /\ lock' = lock \ {r}
    BY <1>2 DEF Cancel
  <2>2. \A t \in Requests : t \notin job[r].tool => tool'[t].is = tool[t].is
    BY <2>1, FailedShape
  <2>3. lock' = {} \/ lock' = lock
    BY <2>1 DEF LockInv
  <2>4. \A q \in Requests : q # r => job[q].tool = {} \/ job[r].tool = {}
    BY <1>2, <1>t, OnePerforms DEF LockInv, NoJob, Holding
  <2>5. \A q \in Requests : job'[q] = IF q = r THEN NoJob ELSE job[q]
    BY <2>1, <1>t
  <2>6. \A q \in Requests : \A t \in job'[q].tool :
          t \in Requests /\ t \in job[q].tool /\ t \notin job[r].tool
    BY <1>t, <2>4, <2>5 DEF NoJob
  <2>7. \A i \in DOMAIN jobs : \A t \in jobs[i].tool :
          /\ t \in Requests /\ t \notin job[r].tool
          /\ \A q \in Requests : t \notin job'[q].tool
    BY <1>2, <1>t, <2>6 DEF QueueInv
  <2>8. \A q \in Requests : job'[q] # NoJob => job'[q].under = {q}
    BY <2>5 DEF QueueInv
  <2> QED BY <2>1, <2>2, <2>3, <2>6, <2>7, <2>8 DEF QueueInv
<1>3. ASSUME NEW r \in Requests, Start(r)
      PROVE  QueueInv'
  <2>1. jobs' = << >> /\ job' = job /\ lock = {}
        /\ tool' = [Failed(Dropped(jobs)) EXCEPT ![r].is = "runnable"]
    BY <1>3 DEF Start, Free
  <2>2. \A q \in Requests : job[q] = NoJob
    BY <2>1 DEF LockInv, Holding
  <2> QED BY <2>1, <2>2 DEF QueueInv, NoJob
<1>4. ASSUME NEW r \in Requests, NEW next \in Performing, pc[r] \in Blocking, TakeJob(r, next)
      PROVE  QueueInv'
  <2>1. /\ jobs # << >> /\ job' = [job EXCEPT ![r] = Head(jobs)]
        /\ jobs' = Tail(jobs) /\ UNCHANGED <<lock, tool>>
    BY <1>4 DEF TakeJob
  <2>2. \A i \in DOMAIN jobs' : i + 1 \in DOMAIN jobs /\ jobs'[i] = jobs[i + 1] /\ i \in Nat \ {0}
    BY <2>1, <1>t
  <2>3. 1 \in DOMAIN jobs /\ Head(jobs) = jobs[1]
    BY <2>1, <1>t
  <2>4. lock = {r} /\ \A q \in Requests : q # r => job[q] = NoJob
    BY <1>4, <1>t, OnePerforms DEF LockInv, Holding
  <2>5. \A q \in Requests : job'[q] = IF q = r THEN jobs[1] ELSE NoJob
    BY <2>1, <2>3, <2>4, <1>t
  <2>6. jobs[1].under = {r}
    BY <2>3, <2>4 DEF QueueInv
  <2>7. \A i \in DOMAIN jobs' : \A t \in jobs'[i].tool :
          /\ tool'[t].is = "fetching"
          /\ \A k \in DOMAIN jobs' : t \in jobs'[k].tool => k = i
          /\ t \notin jobs[1].tool
    BY <2>1, <2>2, <2>3 DEF QueueInv
  <2> QED BY <2>1, <2>2, <2>3, <2>4, <2>5, <2>6, <2>7 DEF QueueInv, NoJob
<1>5. ASSUME NEW r \in Requests, NEW next \in Blocking, pc[r] \in Performing, Performed(r, next)
      PROVE  QueueInv'
  <2>1. /\ jobs' = jobs /\ job' = [job EXCEPT ![r] = NoJob] /\ lock' = lock
        /\ \E t \in job[r].tool : \E is : tool' = [tool EXCEPT ![t].is = is]
    BY <1>5 DEF Performed
  <2>2. \A t \in Requests : t \notin job[r].tool => tool'[t] = tool[t]
    BY <2>1, <1>t
  <2>3. \A q \in Requests : job'[q] = NoJob
    BY <1>5, <2>1, <1>t, OnePerforms DEF Holding
  <2> QED BY <1>5, <2>1, <2>2, <2>3, <1>t DEF QueueInv, NoJob
<1>6. ASSUME NEW r \in Requests, Trailers(r) \/ PeerGone(r)
      PROVE  QueueInv'
  <2>1. jobs' = << >> /\ job' = job /\ pc[r] \in Holding \ Performing
    BY <1>6 DEF Trailers, PeerGone, Drained, At, Holding, Performing, Blocking
  <2>2. \A q \in Requests : job[q] = NoJob
    BY <1>6, <2>1, OnePerforms DEF LockInv
  <2> QED BY <2>1, <2>2 DEF QueueInv, NoJob
<1>7. ASSUME NEW t \in Requests, RunTool(t)
      PROVE  QueueInv'
  <2>1. lock' = lock /\ job' = job /\ \E r \in Requests : lock = {r}
    BY <1>7, ToolsRunUnderLock DEF RunTool
  <2>2. tool[t].is # "fetching"
    BY <1>7 DEF RunTool, Fetch, Report, Finish
  <2>3. \A u \in Requests : u # t => tool'[u] = tool[u]
    BY <1>7, <1>t DEF RunTool, Fetch, Report, Finish
  <2>4. CASE jobs' = jobs
    BY <2>1, <2>2, <2>3, <2>4, <1>t DEF QueueInv
  <2>5. CASE Fetch(t)
    <3>1. /\ jobs' = Append(jobs, [tool |-> {t}, under |-> lock])
          /\ tool'[t].is = "fetching"
      BY <1>7, <2>5, <1>t DEF Fetch
    <3>2. \A i \in DOMAIN jobs' :
            \/ i \in DOMAIN jobs /\ jobs'[i] = jobs[i]
            \/ i = Len(jobs) + 1 /\ jobs'[i].tool = {t} /\ jobs'[i].under = lock
      BY <3>1, <1>t
    <3> QED BY <1>7, <2>1, <2>2, <2>3, <3>1, <3>2, <1>t DEF QueueInv
  <2> QED BY <1>7, <2>4, <2>5 DEF RunTool, Report, Finish
<1>8. CASE UNCHANGED vars
  BY <1>8, QuietQueue DEF vars
<1> QED
  BY <1>1, <1>2, <1>3, <1>4, <1>5, <1>6, <1>7, <1>8
  DEF Next, Exchange, Drive, At, Blocking, Performing
-----------------------------------------------------------------------------
(* Tools that wait are heard: their job is queued, or somebody performs it. *)

Heard(t) == (\E i \in DOMAIN jobs : t \in jobs[i].tool)
            \/ (\E r \in Requests : t \in job[r].tool)

(* ToolsAreHeard, of one tool at a time.                                   *)
LEMMA HeardShape ==
  ASSUME jobs \in Seq(Job)
  PROVE  ToolsAreHeard <=> \A t \in Requests : tool[t].is = "fetching" => Heard(t)
BY DroppedShape DEF ToolsAreHeard, Heard

(* Every tool that waits is answered by one of them.                       *)
LEMMA HeardStep ==
  ASSUME TypeInv, TypeInv', LockInv, QueueInv, ToolsAreHeard, [Next]_vars
  PROVE  ToolsAreHeard'
<1>t. /\ lock \subseteq Requests /\ jobs \in Seq(Job) /\ tool \in [Requests -> Tool]
      /\ job \in [Requests -> Job \cup {NoJob}] /\ jobs' \in Seq(Job)
  BY DEF TypeInv
<1>h. \A t \in Requests : tool[t].is = "fetching" => Heard(t)
  BY <1>t, HeardShape
<1>d. \A t : t \in Dropped(jobs) <=> \E i \in DOMAIN jobs : t \in jobs[i].tool
  BY <1>t, DroppedShape
<1>g. SUFFICES \A t \in Requests : tool'[t].is = "fetching" => Heard(t)'
  <2>1. Dropped(jobs') \subseteq Requests
        /\ \A t : t \in Dropped(jobs') <=> \E i \in DOMAIN jobs' : t \in jobs'[i].tool
    BY <1>t, DroppedShape
  <2> QED BY <2>1 DEF ToolsAreHeard, Heard, Dropped
<1>1. ASSUME UNCHANGED <<jobs, job, tool>>
      PROVE  \A t \in Requests : tool'[t].is = "fetching" => Heard(t)'
  BY <1>1, <1>h DEF Heard
<1>2. ASSUME NEW r \in Requests, Cancel(r)
      PROVE  \A t \in Requests : tool'[t].is = "fetching" => Heard(t)'
  <2>1. /\ jobs' = jobs /\ job' = [job EXCEPT ![r] = NoJob]
        /\ tool' = Failed(job[r].tool)
    BY <1>2 DEF Cancel
  <2>2. \A t \in Requests : tool'[t].is = "fetching" => t \notin job[r].tool /\ tool[t].is = "fetching"
    BY <2>1, FailedShape
  <2>3. \A q \in Requests : q # r => job'[q] = job[q]
    BY <2>1, <1>t
  <2> QED BY <2>1, <2>2, <2>3, <1>h DEF Heard
<1>3. ASSUME NEW r \in Requests, Start(r)
      PROVE  \A t \in Requests : tool'[t].is = "fetching" => Heard(t)'
  <2>1. job' = job /\ tool' = [Failed(Dropped(jobs)) EXCEPT ![r].is = "runnable"]
    BY <1>3 DEF Start
  <2>2. Failed(Dropped(jobs)) \in [Requests -> Tool]
        /\ \A t \in Requests : Failed(Dropped(jobs))[t].is =
              IF t \in Dropped(jobs) THEN "failed" ELSE tool[t].is
    BY FailedShape
  <2>3. tool'[r].is = "runnable" /\ \A t \in Requests : t # r => tool'[t] = Failed(Dropped(jobs))[t]
    BY <1>3, <2>1, <2>2 DEF Tool
  <2>4. \A t \in Requests : tool'[t].is = "fetching" => tool[t].is = "fetching" /\ t \notin Dropped(jobs)
    BY <2>2, <2>3
  <2> QED BY <2>1, <2>4, <1>d, <1>h DEF Heard
<1>4. ASSUME NEW r \in Requests, NEW next \in Performing, pc[r] \in Blocking, TakeJob(r, next)
      PROVE  \A t \in Requests : tool'[t].is = "fetching" => Heard(t)'
  <2>1. /\ jobs # << >> /\ job' = [job EXCEPT ![r] = Head(jobs)]
        /\ jobs' = Tail(jobs) /\ tool' = tool
    BY <1>4 DEF TakeJob
  <2>2. job[r] = NoJob
    BY <1>4 DEF LockInv, Blocking, Performing
  <2>3. job'[r] = jobs[1] /\ \A q \in Requests : q # r => job'[q] = job[q]
    BY <1>4, <1>t, <2>1
  <2>4. \A i \in DOMAIN jobs : i = 1 \/ (i - 1 \in DOMAIN jobs' /\ jobs'[i - 1] = jobs[i])
    BY <2>1, <1>t
  <2>5. ASSUME NEW t \in Requests, tool'[t].is = "fetching"
        PROVE  Heard(t)'
    <3>1. Heard(t)
      BY <2>1, <2>5, <1>h
    <3>2. CASE \E i \in DOMAIN jobs : t \in jobs[i].tool
      BY <1>4, <2>3, <2>4, <3>2 DEF Heard
    <3>3. CASE \E q \in Requests : t \in job[q].tool
      BY <2>2, <2>3, <3>3 DEF Heard, NoJob
    <3> QED BY <3>1, <3>2, <3>3 DEF Heard
  <2> QED BY <2>5
<1>5. ASSUME NEW r \in Requests, NEW next \in Blocking, pc[r] \in Performing, Performed(r, next)
      PROVE  \A t \in Requests : tool'[t].is = "fetching" => Heard(t)'
  <2>1. /\ jobs' = jobs /\ job' = [job EXCEPT ![r] = NoJob]
    BY <1>5 DEF Performed
  <2>2. PICK u \in job[r].tool, is \in {"runnable", "failed"} :
          tool' = [tool EXCEPT ![u].is = is]
    BY <1>5 DEF Performed
  <2>3. job[r].tool = {u} /\ u \in Requests
    BY <1>5, <1>t, <2>2, JobShape DEF NoJob
  <2>4. tool'[u].is # "fetching" /\ \A t \in Requests : t # u => tool'[t] = tool[t]
    BY <2>2, <2>3, <1>t DEF Tool
  <2>5. \A q \in Requests : q # r => job'[q] = job[q]
    BY <2>1, <1>t
  <2> QED BY <2>1, <2>3, <2>4, <2>5, <1>h DEF Heard
<1>6. ASSUME NEW r \in Requests, Trailers(r) \/ PeerGone(r)
      PROVE  \A t \in Requests : tool'[t].is = "fetching" => Heard(t)'
  <2>1. job' = job /\ tool' = Failed(Dropped(jobs))
    BY <1>6 DEF Trailers, PeerGone, Drained
  <2>2. \A t \in Requests : tool'[t].is = "fetching" => tool[t].is = "fetching" /\ t \notin Dropped(jobs)
    BY <2>1, FailedShape
  <2> QED BY <2>1, <2>2, <1>d, <1>h DEF Heard
<1>7. ASSUME NEW u \in Requests, RunTool(u)
      PROVE  \A t \in Requests : tool'[t].is = "fetching" => Heard(t)'
  <2>1. job' = job /\ \A t \in Requests : t # u => tool'[t] = tool[t]
    BY <1>7, <1>t DEF RunTool, Fetch, Report, Finish
  <2>2. CASE Fetch(u)
    <3>1. jobs' = Append(jobs, [tool |-> {u}, under |-> lock])
      BY <2>2 DEF Fetch
    <3>2. Len(jobs) + 1 \in DOMAIN jobs' /\ u \in jobs'[Len(jobs) + 1].tool
          /\ \A i \in DOMAIN jobs : i \in DOMAIN jobs' /\ jobs'[i] = jobs[i]
      BY <3>1, <1>t
    <3> QED BY <2>1, <3>2, <1>h DEF Heard
  <2>3. CASE Report(u) \/ Finish(u)
    <3>1. jobs' = jobs /\ tool'[u].is # "fetching"
      BY <1>7, <2>3, <1>t DEF Report, Finish, Tool
    <3> QED BY <2>1, <3>1, <1>h DEF Heard
  <2> QED BY <1>7, <2>2, <2>3 DEF RunTool
<1>8. ASSUME NEW r \in Requests, Arrive(r) \/ Upload(r) \/ Headers(r) \/ Pump(r)
                                \/ Frame(r) \/ KeepAlive(r) \/ Sent(r) \/ Transmitted(r)
      PROVE  UNCHANGED <<jobs, job, tool>>
  BY <1>8 DEF Arrive, Upload, Headers, Pump, Frame, KeepAlive, Sent, Transmitted
<1>9. CASE UNCHANGED vars
  BY <1>1, <1>9 DEF vars
<1> QED
  BY <1>1, <1>2, <1>3, <1>4, <1>5, <1>6, <1>7, <1>8, <1>9
  DEF Next, Exchange, Drive, At, Blocking, Performing
-----------------------------------------------------------------------------
(* Frames.                                                                 *)

Early == {"new", "uploading", "waiting"}

(* Failing the tools that wait for a job changes no count of frames, as a  *)
(* tool that is over waits for none.                                       *)
LEMMA FailKeepsCounts ==
  ASSUME TypeInv, NEW S, \A t \in Requests : t \in S => tool[t].is = "fetching"
  PROVE  \A t \in Requests :
           /\ Failed(S)[t].reports = tool[t].reports
           /\ Failed(S)[t].is = "over" <=> tool[t].is = "over"
           /\ Failed(S)[t].is = "none" <=> tool[t].is = "none"
           /\ Failed(S)[t].is \in {"runnable", "fetching"} => Failed(S)[t].is = tool[t].is
BY FailedShape

(* What waits for a job is fetching. *)
LEMMA WaitersFetch ==
  ASSUME TypeInv, QueueInv
  PROVE  /\ \A t \in Dropped(jobs) : tool[t].is = "fetching"
         /\ \A r \in Requests : \A t \in job[r].tool : t \in Requests /\ tool[t].is = "fetching"
<1>1. \A r \in Requests : job[r].tool \subseteq Requests
  BY JobShape DEF TypeInv, NoJob
<1> QED BY <1>1, DroppedShape DEF TypeInv, QueueInv

(* What each step does to the count of a tool. *)
Counted(t) == tool[t].reports + (IF tool[t].is = "over" THEN 1 ELSE 0)

(* What an exchange does to tools: it makes none run but its own.          *)
LEMMA ToolEffect ==
  ASSUME TypeInv, QueueInv, FramesInv, NEW r \in Requests,
         Cancel(r) \/ Start(r) \/ (\E next : Performed(r, next)) \/ Trailers(r) \/ PeerGone(r)
  PROVE  /\ \A t \in Requests :
              /\ Counted(t)' = Counted(t)
              /\ tool'[t].reports = tool[t].reports
              /\ tool'[t].is = "over" <=> tool[t].is = "over"
              /\ tool[t].is = "none" /\ tool'[t].is # "none" => t = r /\ Start(r)
              /\ tool'[t].is \in {"runnable", "fetching"} =>
                   tool[t].is \in {"runnable", "fetching"} \/ (t = r /\ Start(r))
<1> SUFFICES \A t \in Requests :
              /\ tool'[t].reports = tool[t].reports
              /\ tool'[t].is = "over" <=> tool[t].is = "over"
              /\ tool[t].is = "none" /\ tool'[t].is # "none" => t = r /\ Start(r)
              /\ tool'[t].is \in {"runnable", "fetching"} =>
                   tool[t].is \in {"runnable", "fetching"} \/ (t = r /\ Start(r))
  BY DEF Counted
<1>t. tool \in [Requests -> Tool]
  BY DEF TypeInv
<1>1. CASE Cancel(r)
  <2>1. tool' = Failed(job[r].tool)
    BY <1>1 DEF Cancel
  <2> QED BY <2>1, FailKeepsCounts, WaitersFetch
<1>2. CASE Start(r)
  <2>1. tool' = [Failed(Dropped(jobs)) EXCEPT ![r].is = "runnable"] /\ tool[r].is = "none"
    BY <1>2 DEF Start, FramesInv, At
  <2>2. Failed(Dropped(jobs)) \in [Requests -> Tool]
    BY FailedShape
  <2>3. /\ tool'[r].is = "runnable" /\ tool'[r].reports = Failed(Dropped(jobs))[r].reports
        /\ \A t \in Requests : t # r => tool'[t] = Failed(Dropped(jobs))[t]
    BY <2>1, <2>2 DEF Tool
  <2> QED BY <1>2, <2>1, <2>3, FailKeepsCounts, WaitersFetch
<1>3. CASE \E next : Performed(r, next)
  <2>1. PICK u \in job[r].tool, is \in {"runnable", "failed"} :
          tool' = [tool EXCEPT ![u].is = is]
    BY <1>3 DEF Performed
  <2>2. u \in Requests /\ tool[u].is = "fetching"
    BY <2>1, WaitersFetch
  <2>3. /\ tool'[u].is = is /\ tool'[u].reports = tool[u].reports
        /\ \A t \in Requests : t # u => tool'[t] = tool[t]
    BY <1>t, <2>1, <2>2 DEF Tool
  <2> QED BY <2>2, <2>3
<1>4. CASE Trailers(r) \/ PeerGone(r)
  <2>1. tool' = Failed(Dropped(jobs))
    BY <1>4 DEF Trailers, PeerGone, Drained
  <2> QED BY <2>1, FailKeepsCounts, WaitersFetch
<1> QED BY <1>1, <1>2, <1>3, <1>4

(* No more frames wait than a tool has sent.                               *)
LEMMA FramesStep ==
  ASSUME TypeInv, TypeInv', LockInv, QueueInv, FramesInv, [Next]_vars
  PROVE  FramesInv'
<1>t. /\ pc \in [Requests -> PCs] /\ tool \in [Requests -> Tool] /\ frames \in [Requests -> Nat]
      /\ \A t \in Requests : tool[t].reports \in Nat /\ frames[t] \in Nat
  BY BridgeAssumption DEF TypeInv, Tool, BridgeAssumption
<1>i. /\ \A t \in Requests : pc[t] \in Early => tool[t].is = "none"
      /\ \A t \in Requests : frames[t] <= Counted(t)
  BY DEF FramesInv, Early, Counted
<1>g. SUFFICES \A t \in Requests :
                 /\ pc'[t] \in Early => tool'[t].is = "none"
                 /\ frames'[t] <= Counted(t)'
  BY DEF FramesInv, Early, Counted
<1>c. \A t \in Requests : Counted(t) \in Nat
  BY <1>t DEF Counted
<1>1. ASSUME NEW r \in Requests,
             Cancel(r) \/ Start(r) \/ (\E next \in Blocking : Performed(r, next)) \/ Trailers(r) \/ PeerGone(r)
      PROVE  FramesInv'
  <2>1. pc'[r] \notin Early /\ \A t \in Requests : t # r => pc'[t] = pc[t]
    BY <1>1, <1>t DEF Cancel, Start, Performed, Trailers, PeerGone, Goto, Early, Blocking
  <2>2. \A t \in Requests : frames'[t] = frames[t] \/ frames'[t] = 0
    BY <1>1, <1>t DEF Cancel, Start, Performed, Trailers, PeerGone
  <2>3. \A t \in Requests : Counted(t)' = Counted(t)
                          /\ (tool[t].is = "none" /\ t # r => tool'[t].is = "none")
    BY <1>1, ToolEffect
  <2>4. \A t \in Requests : frames'[t] <= Counted(t)'
    BY <1>c, <1>i, <2>2, <2>3
  <2>5. \A t \in Requests : pc'[t] \in Early => tool'[t].is = "none"
    BY <1>i, <2>1, <2>3
  <2> QED BY <2>4, <2>5 DEF FramesInv, Early, Counted
<1>2. ASSUME NEW r \in Requests, Arrive(r) \/ Upload(r) \/ Headers(r) \/ Pump(r) \/ Sent(r)
                                \/ KeepAlive(r) \/ Transmitted(r)
                                \/ (\E next \in Performing : TakeJob(r, next))
      PROVE  FramesInv'
  <2>1. tool' = tool /\ frames' = frames
    BY <1>2 DEF Arrive, Upload, Headers, Pump, KeepAlive, Sent, Transmitted, TakeJob
  <2>2. \A t \in Requests : pc'[t] \in Early => pc[t] \in Early
    BY <1>2, <1>t DEF Arrive, Upload, Headers, Pump, KeepAlive, Sent, Transmitted, TakeJob, Goto, At,
                      Early, Performing
  <2> QED BY <1>i, <2>1, <2>2 DEF FramesInv, Early, Counted
<1>3. ASSUME NEW r \in Requests, Frame(r)
      PROVE  FramesInv'
  <2>1. tool' = tool /\ \A t \in Requests : pc'[t] \in Early => pc[t] \in Early
    BY <1>3, <1>t DEF Frame, Goto, Early
  <2>2. \/ frames' = frames
        \/ frames[r] > 0 /\ frames' = [frames EXCEPT ![r] = frames[r] - 1]
    BY <1>3 DEF Frame
  <2>3. \A t \in Requests : frames'[t] <= frames[t]
    BY <1>3, <1>t, <2>2
  <2>4. \A t \in Requests : Counted(t)' = Counted(t) /\ frames'[t] \in Nat
    BY <2>1 DEF Counted, TypeInv
  <2>5. \A t \in Requests : frames'[t] <= Counted(t)'
    BY <1>c, <1>i, <1>t, <2>3, <2>4
  <2> QED BY <1>i, <2>1, <2>5 DEF FramesInv, Early, Counted
<1>4. ASSUME NEW u \in Requests, RunTool(u)
      PROVE  FramesInv'
  <2>1. pc' = pc /\ \A t \in Requests : t # u => tool'[t] = tool[t]
    BY <1>4, <1>t DEF RunTool, Fetch, Report, Finish
  <2>2. \A t \in Requests : /\ frames'[t] <= frames[t] + (IF t = u /\ ~Fetch(u) THEN 1 ELSE 0)
                            /\ frames'[t] \in Nat
    BY <1>4, <1>t DEF RunTool, Fetch, Report, Finish, Said, TypeInv
  <2>3. tool[u].is \in {"runnable", "failed"} /\ pc[u] \notin Early
    BY <1>4, <1>i DEF RunTool, Fetch, Report, Finish
  <2>4. CASE Fetch(u)
    <3>1. tool'[u].reports = tool[u].reports /\ tool'[u].is = "fetching"
      BY <1>4, <1>t, <2>4 DEF Fetch
    <3>2. \A t \in Requests : Counted(t)' = Counted(t) /\ frames'[t] = frames[t]
      BY <1>4, <2>1, <2>3, <2>4, <3>1 DEF Counted, Fetch
    <3> QED BY <1>i, <2>1, <2>3, <3>2 DEF FramesInv, Early, Counted
  <2>5. CASE Report(u) \/ Finish(u)
    <3>3. Counted(u)' = Counted(u) + 1
      BY <1>t, <2>3, <2>5 DEF Counted, Report, Finish, Tool
    <3>4. \A t \in Requests : t # u => Counted(t)' = Counted(t)
      BY <2>1 DEF Counted
    <3>5. \A t \in Requests : frames'[t] <= Counted(t)'
      BY <1>c, <1>i, <1>t, <2>2, <3>3, <3>4
    <3> QED BY <1>i, <2>1, <2>3, <3>5 DEF FramesInv, Early, Counted
  <2> QED BY <1>4, <2>4, <2>5 DEF RunTool
<1>5. CASE UNCHANGED vars
  BY <1>5, <1>i DEF vars, FramesInv, Early, Counted
<1> QED
  BY <1>1, <1>2, <1>3, <1>4, <1>5
  DEF Next, Exchange, Drive, At, Blocking, Performing, FramesInv, Early, Counted
-----------------------------------------------------------------------------
(* Tools whose exchange has ended.                                         *)

(* The tool of an exchange that has ended has no request.                  *)
LEMMA DeadStep ==
  ASSUME TypeInv, LockInv, QueueInv, FramesInv, DeadInv, [Next]_vars
  PROVE  DeadInv'
<1>g. SUFFICES ASSUME ~cut'
               PROVE  /\ \A t \in Requests : tool'[t].is \in {"runnable", "fetching"} => pc'[t] \in Driven
                      /\ \A i \in DOMAIN jobs' : jobs'[i].tool = jobs'[i].under
                      /\ \A r \in Requests : job'[r].tool \subseteq {r}
  BY DEF DeadInv, Driven
<1> DEFINE Goal == /\ \A t \in Requests : tool'[t].is \in {"runnable", "fetching"} => pc'[t] \in Driven
                   /\ \A i \in DOMAIN jobs' : jobs'[i].tool = jobs'[i].under
                   /\ \A r \in Requests : job'[r].tool \subseteq {r}
<1>t. /\ pc \in [Requests -> PCs] /\ tool \in [Requests -> Tool] /\ jobs \in Seq(Job)
      /\ job \in [Requests -> Job \cup {NoJob}] /\ frames \in [Requests -> Nat]
  BY DEF TypeInv
<1>n. ~cut /\ \A r \in Requests : PeerGone(r) => tool[r].is = "over"
  <2>1. \A r \in Requests : PeerGone(r) => ~cut /\ tool[r].is = "over"
    BY <1>g, Zenon DEF PeerGone
  <2>2. cut' = cut \/ \E r \in Requests : PeerGone(r)
    BY DEF Next, Exchange, Drive, vars, pumpVars, Arrive, Upload, Cancel, Start, Headers, TakeJob, Performed,
           Pump, Frame, Trailers, RunTool, KeepAlive, Sent, Transmitted
  <2> QED BY <1>g, <2>1, <2>2
<1>i. /\ \A t \in Requests : tool[t].is \in {"runnable", "fetching"} => pc[t] \in Driven
      /\ \A i \in DOMAIN jobs : jobs[i].tool = jobs[i].under
      /\ \A r \in Requests : job[r].tool \subseteq {r}
  BY <1>n DEF DeadInv
<1>1. ASSUME NEW r \in Requests,
             Arrive(r) \/ Upload(r) \/ Headers(r) \/ Pump(r) \/ KeepAlive(r) \/ Sent(r)
             \/ Transmitted(r)
      PROVE  Goal
  <2>1. UNCHANGED <<jobs, job, tool>>
    BY <1>1 DEF Arrive, Upload, Headers, Pump, KeepAlive, Sent, Transmitted
  <2>2. \A t \in Requests : pc[t] \in Driven => pc'[t] \in Driven
    BY <1>1, <1>t DEF Arrive, Upload, Headers, Pump, KeepAlive, Sent, Transmitted, Goto, At, Driven
  <2> QED BY <1>i, <2>1, <2>2
<1>2. ASSUME NEW r \in Requests, Frame(r)
      PROVE  Goal
  <2>1. UNCHANGED <<jobs, job, tool>>
    BY <1>2 DEF Frame
  <2>2. \A t \in Requests : t # r => pc'[t] = pc[t]
    BY <1>2, <1>t DEF Frame, Goto
  <2>3. pc'[r] \in Driven \/ tool[r].is = "over"
    BY <1>2, <1>t DEF Frame, Goto, Driven
  <2> QED BY <1>i, <2>1, <2>2, <2>3
<1>3. ASSUME NEW r \in Requests, NEW next \in Performing, pc[r] \in Blocking, TakeJob(r, next)
      PROVE  Goal
  <2>1. /\ jobs # << >> /\ job' = [job EXCEPT ![r] = Head(jobs)]
        /\ jobs' = Tail(jobs) /\ tool' = tool
    BY <1>3 DEF TakeJob
  <2>2. \A i \in DOMAIN jobs' : i + 1 \in DOMAIN jobs /\ jobs'[i] = jobs[i + 1]
    BY <1>t, <2>1
  <2>3. 1 \in DOMAIN jobs /\ Head(jobs) = jobs[1]
    BY <1>t, <2>1
  <2>4. lock = {r}
    BY <1>3 DEF LockInv, Holding
  <2>5. jobs[1].tool = {r}
    BY <1>i, <2>3, <2>4 DEF QueueInv
  <2>6. \A q \in Requests : job'[q].tool \subseteq {q}
    BY <1>3, <1>t, <1>i, <2>1, <2>3, <2>5
  <2>7. \A t \in Requests : pc[t] \in Driven => pc'[t] \in Driven
    BY <1>3, <1>t DEF TakeJob, Goto, Driven, Performing
  <2> QED BY <1>i, <2>1, <2>2, <2>6, <2>7
<1>4. ASSUME NEW r \in Requests, Cancel(r)
      PROVE  Goal
  <2>1. /\ jobs' = jobs /\ job' = [job EXCEPT ![r] = NoJob] /\ tool' = Failed(job[r].tool)
        /\ pc[r] \in {"uploading", "waiting", "fetching headers"} /\ Goto(r, "over")
    BY <1>4 DEF Cancel
  <2>2. pc[r] \in Driven => job[r].tool = {r}
    <3>1. pc[r] \in Driven => job[r] \in Job
      BY <1>4, <1>t, <2>1 DEF Driven, LockInv, Performing
    <3>2. ASSUME job[r] \in Job
          PROVE  job[r].tool = {r}
      <4>1. PICK t \in Requests : job[r].tool = {t}
        BY <3>2, JobShape
      <4>2. job[r].tool \subseteq {r}
        BY <1>4, <1>i
      <4> QED BY <4>1, <4>2
    <3> QED BY <3>1, <3>2
  <2>3. \A t \in Requests : tool'[t].is = IF t \in job[r].tool THEN "failed" ELSE tool[t].is
    <3>1. \A t \in Requests : Failed(job[r].tool)[t].is =
            IF t \in job[r].tool THEN "failed" ELSE tool[t].is
      BY FailedShape
    <3> QED BY <2>1, <3>1
  <2>4. \A t \in Requests : t # r => pc'[t] = pc[t]
    BY <1>t, <2>1 DEF Goto
  <2>5. \A t \in Requests : tool'[t].is \in {"runnable", "fetching"} => pc'[t] \in Driven
    BY <1>4, <1>i, <2>2, <2>3, <2>4
  <2>6. \A q \in Requests : job'[q].tool \subseteq {q}
    BY <1>t, <1>i, <2>1 DEF NoJob
  <2> QED BY <1>i, <2>1, <2>5, <2>6
<1>5. ASSUME NEW r \in Requests, Start(r)
      PROVE  Goal
  <2>1. jobs' = << >> /\ job' = job /\ Goto(r, "headers")
    BY <1>5 DEF Start
  <2>2. pc'[r] \in Driven /\ \A t \in Requests : t # r => pc'[t] = pc[t]
    BY <1>5, <1>t, <2>1 DEF Goto, Driven
  <2>3. \A t \in Requests : tool'[t].is \in {"runnable", "fetching"} /\ t # r =>
          tool[t].is \in {"runnable", "fetching"}
    BY <1>5, ToolEffect
  <2> QED BY <1>i, <2>1, <2>2, <2>3
<1>6. ASSUME NEW r \in Requests, NEW next \in Blocking, pc[r] \in Performing, Performed(r, next)
      PROVE  Goal
  <2>1. jobs' = jobs /\ job' = [job EXCEPT ![r] = NoJob] /\ Goto(r, next)
    BY <1>6 DEF Performed
  <2>2. \A t \in Requests : pc[t] \in Driven => pc'[t] \in Driven
    BY <1>6, <1>t, <2>1 DEF Goto, Driven, Blocking
  <2>3. \A t \in Requests : tool'[t].is \in {"runnable", "fetching"} => 
          tool[t].is \in {"runnable", "fetching"} \/ Start(r)
    BY <1>6, ToolEffect
  <2>4. ~Start(r)
    BY <1>6 DEF Start, At, Performing
  <2>5. \A q \in Requests : job'[q].tool \subseteq {q}
    BY <1>t, <1>i, <2>1 DEF NoJob
  <2> QED BY <1>i, <2>1, <2>2, <2>3, <2>4, <2>5
<1>7. ASSUME NEW r \in Requests, Trailers(r) \/ PeerGone(r)
      PROVE  Goal
  <2>1. jobs' = << >> /\ job' = job /\ pc[r] \in {"trailers", "sending"}
        /\ \A t \in Requests : t # r => pc'[t] = pc[t]
    BY <1>7, <1>t DEF Trailers, PeerGone, Drained, At, Goto
  <2>2. ~Start(r)
    BY <2>1 DEF Start, At
  <2>3. \A t \in Requests : tool'[t].is \in {"runnable", "fetching"} =>
          tool[t].is \in {"runnable", "fetching"}
    BY <1>7, <2>2, ToolEffect
  <2>4. \A t \in Requests : tool'[t].is \in {"runnable", "fetching"} => pc[t] \in Driven /\ t # r
    <3>1. tool[r].is = "over" \/ pc[r] = "trailers"
      BY <1>7, <1>n DEF Trailers, At
    <3> QED BY <1>i, <2>1, <2>3, <3>1 DEF Driven
  <2>5. \A t \in Requests : tool'[t].is \in {"runnable", "fetching"} => pc'[t] \in Driven
    BY <2>1, <2>4
  <2>6. \A i \in DOMAIN jobs' : jobs'[i].tool = jobs'[i].under
    BY <2>1
  <2>7. \A q \in Requests : job'[q].tool \subseteq {q}
    BY <1>i, <2>1
  <2> QED BY <2>5, <2>6, <2>7
<1>8. ASSUME NEW u \in Requests, RunTool(u)
      PROVE  Goal
  <2>1. pc' = pc /\ job' = job /\ \A t \in Requests : t # u => tool'[t] = tool[t]
    BY <1>8, <1>t DEF RunTool, Fetch, Report, Finish
  <2>2. CASE Fetch(u)
    <3>1. /\ tool[u].is = "runnable" /\ jobs' = Append(jobs, [tool |-> {u}, under |-> lock])
      BY <2>2 DEF Fetch
    <3>2. pc[u] \in Driven
      BY <1>8, <1>i, <3>1
    <3>3. lock = {u}
      BY <1>8, <3>2, <1>t DEF LockInv, TypeInv, Driven, Holding, Blocking, Performing
    <3>4. \A i \in DOMAIN jobs' : jobs'[i].tool = jobs'[i].under
      BY <1>t, <1>i, <3>1, <3>3
    <3> QED BY <1>8, <1>i, <2>1, <3>2, <3>4
  <2>4. CASE Report(u)
    <3>1. tool'[u].is = "runnable" /\ tool[u].is = "runnable" /\ jobs' = jobs
      BY <1>8, <1>t, <2>4 DEF Report, Tool
    <3> QED BY <1>8, <1>i, <2>1, <3>1
  <2>3. CASE Finish(u)
    <3>1. tool'[u].is = "over" /\ jobs' = jobs
      BY <1>8, <1>t, <2>3 DEF Finish, Tool
    <3> QED BY <1>i, <2>1, <3>1
  <2> QED BY <1>8, <2>2, <2>3, <2>4 DEF RunTool
<1>9. CASE UNCHANGED vars
  BY <1>9, <1>i DEF vars, pumpVars
<1> QED
  BY <1>1, <1>2, <1>3, <1>4, <1>5, <1>6, <1>7, <1>8, <1>9
  DEF Next, Exchange, Drive, At, Blocking, Performing

-----------------------------------------------------------------------------
(* Together they are inductive.                                            *)
LEMMA BridgeInvariant == Spec => []BridgeInv
<1>1. BridgeInv /\ [Next]_vars => BridgeInv'
  BY TypeStep, LockStep, QueueStep, FramesStep, DeadStep, HeardStep DEF BridgeInv
<1> QED BY BridgeInit, <1>1, PTL DEF Spec

(***************************************************************************)
(* One exchange is driven at a time (handle takes request_lock before it   *)
(* drives), performs only what was queued under it, and, as long as no     *)
(* peer was lost at a keep-alive or a report, no tool of an exchange that  *)
(* has ended makes requests under a later one.                             *)
(***************************************************************************)
THEOREM ExchangesStayApart == Spec => []ExchangesAreApart
<1>1. ASSUME BridgeInv
      PROVE  ExchangesAreApart
  <2> USE <1>1 DEF BridgeInv
  <2>0. MaxReports \in Nat
    BY BridgeAssumption DEF BridgeAssumption
  <2>1. \A r \in Requests : pc[r] \in Holding <=> lock = {r}
    BY DEF LockInv
  <2>2. \A r \in Requests : frames[r] \in 0 .. MaxReports + 1
    <3>1. \A r \in Requests : /\ frames[r] \in Nat
                              /\ tool[r].reports \in 0..MaxReports
      BY DEF TypeInv, Tool
    <3>2. \A r \in Requests :
            frames[r] <= tool[r].reports + (IF tool[r].is = "over" THEN 1 ELSE 0)
      BY DEF FramesInv
    <3> QED BY <2>0, <3>1, <3>2
  <2>3. \A i, k \in DOMAIN jobs : i # k => jobs[i].tool # jobs[k].tool
    <3>0. \A i \in DOMAIN jobs : jobs[i] \in Job
      BY DEF TypeInv
    <3>1. \A i \in DOMAIN jobs : \E t : jobs[i].tool = {t}
      BY <3>0, JobShape
    <3> QED BY <3>1 DEF QueueInv
  <2>4. TypeOK
    BY <2>1, <2>2, <2>3 DEF TypeOK, TypeInv, LockInv, Tool
  <2>5. JobsOfThisExchange
    BY <2>1 DEF JobsOfThisExchange, QueueInv, Range, Holding
  <2>6. DeadToolsStayDead
    BY DEF DeadToolsStayDead, DeadInv
  <2> QED BY <2>4, <2>5, <2>6 DEF ExchangesAreApart
<1> QED BY BridgeInvariant, <1>1, PTL

(***************************************************************************)
(* A tool that waits in fetch for a reply has its job in the queue or in   *)
(* the hands of an exchange, through cancellations and peers that go away: *)
(* no tool waits for a reply that nobody will send.                        *)
(***************************************************************************)
THEOREM EveryToolIsHeard == Spec => []ToolsAreHeard
BY BridgeInvariant, PTL DEF BridgeInv

-----------------------------------------------------------------------------
(***************************************************************************)
(* What changes of a forge, and what is asked of it.                       *)
(***************************************************************************)
FileT == [kind : {"file", "dir", "large", "none"}, bytes : Sizes, version : Nat]
RefT  == {{}} \cup {{b} : b \in Branches}

SiteT == [public : BOOLEAN, blocked : BOOLEAN, quota : {0, 1}, default : RefT,
          issues : Issues, files : [Branches -> FileT], changes : Nat]

GetT  == [what : {"search", "repository", "issues", "file"}, ref : RefT]
CallT == [at : {"asking", "over"}, forge : {"github", "gitlab"},
          what : {"search", "repository", "issues", "file"}, named : RefT, get : GetT]

Asking == call.at = "asking"

ForgeTypes ==
  /\ site \in SiteT /\ token \in {"none", "good", "bad"}
  /\ call = Forge!Idle \/ call \in CallT

(* The world as it is is in the window; a file is asked for on the branch  *)
(* that was named, or on one that was the default meanwhile.               *)
ForgeAsks ==
  Asking =>
    /\ Forge!Now \in window /\ IsFiniteSet(window) /\ answer = {}
    /\ \/ call.get.what = call.what
       \/ call.get.what = "repository" /\ call.what = "file" /\ call.named = {}
    /\ call.get.what = "file" =>
         \/ call.get.ref = call.named
         \/ call.get.ref # {} /\ \E v \in window : call.get.ref = Forge!Asked(v)

ForgeInv == ForgeTypes /\ ForgeAsks /\ (answer # {} => call # Forge!Idle) /\ Forge!ForgeIsToldTruly

Branched(get) == IF get.ref = {} THEN site.default ELSE get.ref

(* The nine replies of a forge, by what they say of it.                    *)
Limits(reply) == /\ site.quota = 0 /\ reply.limit /\ reply.status \in {403, 429}
                 /\ call.forge = "gitlab" => reply.status = 429
Refuses(reply) == \/ reply.status = 401 /\ token = "bad"
                  \/ reply.status = 403 /\ ~reply.limit /\ site.blocked
Hides(reply) == reply.status = 404 /\ ~Forge!Sees
Lacks(reply, get) == /\ reply.status = 404 /\ get.what = "file"
                     /\ \A b \in Branched(get) : site.files[b].kind \in {"none", "dir"}
Finds(reply, get) == /\ reply.status = 200 /\ get.what = "search"
                     /\ reply.body = [is |-> "search", found |-> Forge!Sees]
Describes(reply, get) == /\ reply.status = 200 /\ get.what = "repository" /\ Forge!Shows(Forge!Now)
                         /\ reply.body = [is |-> "repository", default |-> site.default]
Lists(reply, get) ==
  /\ reply.status = 200 /\ get.what = "issues" /\ Forge!Shows(Forge!Now)
  /\ reply.body = [is |-> "issues",
                   issues |-> SubSeq(site.issues, 1, Forge!Min({PAGE, Len(site.issues)}))]
Opens(reply, get) ==
  /\ reply.status = 200 /\ get.what = "file" /\ Forge!Shows(Forge!Now)
  /\ \E b \in Branched(get) : reply.body = [is |-> "contents", file |-> site.files[b]]
                             /\ b \in Branches /\ site.files[b].kind # "none"

(* What a forge replies is one of them.                                    *)
LEMMA RepliesAre ==
  ASSUME ForgeTypes, Asking, NEW get \in GetT, NEW reply \in Forge!Replies(get)
  PROVE  \/ Limits(reply) \/ Refuses(reply) \/ Hides(reply) \/ Lacks(reply, get)
         \/ Finds(reply, get) \/ Describes(reply, get) \/ Lists(reply, get) \/ Opens(reply, get)
<1> DEFINE github == call.forge = "github"
           branches == IF get.ref = {} THEN site.default ELSE get.ref \cap Branches
<1>1. branches = Branched(get) /\ branches \subseteq Branches
  BY DEF Branched, ForgeTypes, SiteT, GetT, RefT
<1>2. call.forge \in {"github", "gitlab"}
  BY DEF ForgeTypes, Asking, CallT, Forge!Idle
<1>3. CASE site.quota = 0
  BY <1>2, <1>3 DEF Forge!Replies, Forge!Reply, Limits
<1>4. CASE site.quota # 0 /\ token = "bad"
  BY <1>4 DEF Forge!Replies, Forge!Reply, Refuses
<1>5. CASE site.quota # 0 /\ token # "bad" /\ site.blocked
  BY <1>5 DEF Forge!Replies, Forge!Reply, Refuses
<1>6. CASE site.quota # 0 /\ token # "bad" /\ ~site.blocked /\ get.what = "search"
  BY <1>6 DEF Forge!Replies, Forge!Reply, Finds
<1>7. CASE site.quota # 0 /\ token # "bad" /\ ~site.blocked /\ get.what # "search" /\ ~Forge!Sees
  BY <1>7 DEF Forge!Replies, Forge!Reply, Hides
<1>8. CASE site.quota # 0 /\ token # "bad" /\ ~site.blocked /\ get.what # "search" /\ Forge!Sees
  <2>1. site.quota > 0
    BY <1>8 DEF ForgeTypes, SiteT
  <2>2. Forge!Shows(Forge!Now)
    BY <1>8, <2>1 DEF Forge!Shows, Forge!Now, Forge!Sees
  <2>3. CASE get.what = "repository"
    BY <1>8, <2>2, <2>3 DEF Forge!Replies, Forge!Reply, Describes
  <2>4. CASE get.what = "issues"
    <3> DEFINE page == SubSeq(site.issues, 1, Forge!Min({PAGE, Len(site.issues)}))
    <3>1. PICK p : p = page
      OBVIOUS
    <3>2. reply = Forge!Reply(200, FALSE, [is |-> "issues", issues |-> p])
      BY <1>8, <2>4, <3>1 DEF Forge!Replies
    <3> HIDE DEF page
    <3>3. reply.status = 200 /\ reply.body = [is |-> "issues", issues |-> page]
      BY <3>1, <3>2 DEF Forge!Reply
    <3> QED
      BY <2>2, <2>4, <3>3 DEF Lists, page
  <2>5. CASE get.what = "file"
    <3> DEFINE nothing == {"none"} \cup (IF github THEN {} ELSE {"dir"})
    <3>1. CASE \A b \in branches : site.files[b].kind \in nothing
      <4>1. reply.status = 404
        BY <1>8, <2>5, <3>1 DEF Forge!Replies, Forge!Reply
      <4> QED
        BY <1>1, <2>5, <3>1, <4>1 DEF Lacks
    <3>2. CASE ~\A b \in branches : site.files[b].kind \in nothing
      <4>1. PICK b \in branches : reply = Forge!Reply(200, FALSE, [is |-> "contents", file |-> site.files[b]])
        BY <1>8, <2>5, <3>2 DEF Forge!Replies
      <4>2. PICK c \in branches : site.files[c].kind \notin nothing
        BY <3>2
      <4>3. b = c
        BY <4>2 DEF GetT, RefT, ForgeTypes, SiteT
      <4>4. reply.status = 200 /\ reply.body = [is |-> "contents", file |-> site.files[b]]
        BY <4>1 DEF Forge!Reply
      <4>5. b \in Branched(get) /\ b \in Branches /\ site.files[b].kind # "none"
        BY <1>1, <4>2, <4>3
      <4> QED
        BY <2>2, <2>5, <4>4, <4>5 DEF Opens
    <3> QED
      BY <3>1, <3>2
  <2> QED
    BY <1>8, <2>3, <2>4, <2>5 DEF GetT
<1> QED
  BY <1>3, <1>4, <1>5, <1>6, <1>7, <1>8

(* The least of two numbers.                                               *)
LEMMA LeastOfTwo ==
  ASSUME NEW m \in Nat, NEW n \in Nat
  PROVE  Forge!Min({m, n}) = IF m <= n THEN m ELSE n
<1>1. \E x \in {m, n} : \A y \in {m, n} : x <= y
  OBVIOUS
<1>2. Forge!Min({m, n}) \in {m, n} /\ \A y \in {m, n} : Forge!Min({m, n}) <= y
  BY <1>1 DEF Forge!Min
<1> QED
  BY <1>2

(* ForgeTools counts as FiniteSets does.                                   *)
LEMMA ForgeCounts == \A S : Forge!Cardinality(S) = Cardinality(S)
  BY DEF Forge!Cardinality, Cardinality

(* What a page of issues tells is no more than a page has, and all of one  *)
(* that is not full.                                                       *)
LEMMA ListedIs ==
  ASSUME NEW issues \in Seq(BOOLEAN)
  PROVE  LET page == SubSeq(issues, 1, Forge!Min({PAGE, Len(issues)}))
         IN /\ Forge!Listed(page) <= PAGE
            /\ Len(issues) <= PAGE => page = issues
<1> DEFINE n == Forge!Min({PAGE, Len(issues)})
           page == SubSeq(issues, 1, n)
<1>1. PAGE \in Nat /\ Len(issues) \in Nat
  BY ForgeAssumption
<1>2. n = IF PAGE <= Len(issues) THEN PAGE ELSE Len(issues)
  BY <1>1, LeastOfTwo
<1>3. n \in Nat /\ n <= PAGE /\ n <= Len(issues) /\ (Len(issues) <= PAGE => n = Len(issues))
  BY <1>1, <1>2
<1> HIDE DEF n
<1>4. page \in Seq(BOOLEAN) /\ Len(page) = n /\ DOMAIN page = 1..n
      /\ \A i \in 1..n : page[i] = issues[i]
  BY <1>3
<1>5. Len(issues) <= PAGE => page = issues
  BY <1>3, <1>4
<1> HIDE DEF page
<1>6. Cardinality({i \in DOMAIN page : ~page[i]}) <= n
  <2> DEFINE kept == {i \in DOMAIN page : ~page[i]}
  <2>1. IsFiniteSet(1..n) /\ Cardinality(1..n) = n
    BY <1>3, FS_Interval
  <2>2. kept \subseteq 1..n
    BY <1>4
  <2> HIDE DEF kept
  <2>3. Cardinality(kept) <= Cardinality(1..n)
    BY <2>1, <2>2, FS_Subset
  <2> QED
    BY <2>1, <2>3 DEF kept
<1>7. Cardinality({i \in DOMAIN page : ~page[i]}) \in Nat
  <2>1. IsFiniteSet(1..n)
    BY <1>3, FS_Interval
  <2>2. {i \in DOMAIN page : ~page[i]} \subseteq 1..n
    BY <1>4
  <2> QED
    BY <2>1, <2>2, FS_Subset, FS_CardinalityType
<1>8. Forge!Listed(page) <= PAGE
  <2>1. PICK k : k = Cardinality({i \in DOMAIN page : ~page[i]})
    OBVIOUS
  <2>2. Forge!Listed(page) = n \/ Forge!Listed(page) = k
    BY <1>4, <2>1, ForgeCounts DEF Forge!Listed
  <2> QED
    BY <1>1, <1>3, <1>6, <1>7, <2>1, <2>2
<1> QED
  BY <1>5, <1>8 DEF page, n

(* What a forge is told of does not depend on how far the call is.         *)
LEMMA TrueSame ==
  ASSUME window' = window, call'.forge = call.forge, call'.what = call.what, call'.named = call.named,
         NEW a, NEW w, Forge!WasSo(a, w)
  PROVE  Forge!WasSo(a, w)'
  BY DEF Forge!WasSo, Forge!Shows, Forge!Asked, Forge!Listed

(* What the contents of a file tell is so.                                 *)
LEMMA ContentsAreSo ==
  ASSUME NEW file \in FileT, file.kind # "none"
  PROVE  LET a == Forge!Contents(file)
         IN \/ a.is = "dir" /\ a.version = file.version
            \/ /\ a.is = "file" /\ file.kind \in {"file", "large"} /\ a.version = file.version
               /\ a.size = file.bytes /\ (a.truncated <=> a.kept < a.size)
<1>1. file.bytes \in Nat \ {0} /\ MAX_FILE_BYTES \in Nat
  BY ForgeAssumption DEF FileT
<1>2. Forge!Min({file.bytes, MAX_FILE_BYTES}) =
        IF file.bytes <= MAX_FILE_BYTES THEN file.bytes ELSE MAX_FILE_BYTES
  BY <1>1, LeastOfTwo
<1>3. CASE file.kind = "dir"
  BY <1>3 DEF Forge!Contents
<1>4. CASE file.kind = "large"
  BY <1>1, <1>4 DEF Forge!Contents
<1>5. CASE file.kind = "file"
  <2> DEFINE least == Forge!Min({file.bytes, MAX_FILE_BYTES})
  <2>1. Forge!Contents(file) =
          [is |-> "file", version |-> file.version, size |-> file.bytes,
           truncated |-> file.bytes > MAX_FILE_BYTES, kept |-> least]
    BY <1>5 DEF Forge!Contents
  <2>2. (file.bytes > MAX_FILE_BYTES) <=> (least < file.bytes)
    BY <1>1, <1>2
  <2> DEFINE a == Forge!Contents(file)
  <2>3. a.is = "file" /\ a.version = file.version /\ a.size = file.bytes /\ a.kept = least
    BY <2>1
  <2>4. a.truncated = (file.bytes > MAX_FILE_BYTES)
    BY <2>1
  <2> HIDE DEF least, a
  <2>5. a.truncated <=> a.kept < a.size
    BY <2>2, <2>3, <2>4
  <2> QED
    BY <1>5, <2>3, <2>5 DEF a
<1> QED
  BY <1>3, <1>4, <1>5 DEF FileT

(* What the last reply of a call is told as.                               *)
Ends(reply) ==
  LET first == call.what = "file" /\ call.get.what = "repository"
  IN IF reply.status # 200 THEN [is |-> Forge!Error(reply)]
     ELSE IF first THEN [is |-> "failed"] ELSE Forge!Told(reply.body)

(* It is so now, and if nothing changed since the call was made it says no *)
(* less than there is.                                                     *)
Plain(a, w) ==
  Forge!Shows(w) /\ a.is # "failed" =>
     \/ a.is \in {"search", "repository", "issues", "file", "dir"}
     \/ call.what = "file" /\ \A b \in Forge!Asked(w) : w.site.files[b].kind \in {"none", "dir"}

(* What the tools make of a status.                                        *)
LEMMA GitHubSays ==
  \A reply :
    /\ reply.status \in {403, 429} /\ reply.limit => Forge!GitHubError(reply) = "limited"
    /\ reply.status = 403 /\ ~reply.limit => Forge!GitHubError(reply) = "failed"
    /\ reply.status = 401 => Forge!GitHubError(reply) = "failed"
    /\ reply.status = 404 => Forge!GitHubError(reply) = "missing"
<1> TAKE reply
<1>1. ASSUME reply.status = 403, reply.limit PROVE Forge!GitHubError(reply) = "limited"
  BY <1>1 DEF Forge!GitHubError
<1>2. ASSUME reply.status = 429, reply.limit PROVE Forge!GitHubError(reply) = "limited"
  BY <1>2 DEF Forge!GitHubError
<1>3. ASSUME reply.status = 403, ~reply.limit PROVE Forge!GitHubError(reply) = "failed"
  BY <1>3 DEF Forge!GitHubError
<1>4. ASSUME reply.status = 401 PROVE Forge!GitHubError(reply) = "failed"
  BY <1>4 DEF Forge!GitHubError
<1>5. ASSUME reply.status = 404 PROVE Forge!GitHubError(reply) = "missing"
  BY <1>5 DEF Forge!GitHubError
<1> QED
  BY <1>1, <1>2, <1>3, <1>4, <1>5

(* The same of GitLab.                                                     *)
LEMMA GitLabSays ==
  \A reply :
    /\ reply.status = 429 => Forge!GitLabError(reply) = "limited"
    /\ reply.status \in {401, 403} => Forge!GitLabError(reply) = "unauthorized"
    /\ reply.status = 404 => Forge!GitLabError(reply) = "missing"
<1> TAKE reply
<1>1. ASSUME reply.status = 429 PROVE Forge!GitLabError(reply) = "limited"
  BY <1>1 DEF Forge!GitLabError
<1>2. ASSUME reply.status = 401 PROVE Forge!GitLabError(reply) = "unauthorized"
  BY <1>2 DEF Forge!GitLabError
<1>3. ASSUME reply.status = 403 PROVE Forge!GitLabError(reply) = "unauthorized"
  BY <1>3 DEF Forge!GitLabError
<1>4. ASSUME reply.status = 404 PROVE Forge!GitLabError(reply) = "missing"
  BY <1>4 DEF Forge!GitLabError
<1> QED
  BY <1>1, <1>2, <1>3, <1>4

(* The same of the forge that is asked.                                    *)
LEMMA ErrorSays ==
  ASSUME call.forge \in {"github", "gitlab"}
  PROVE  \A reply :
           /\ reply.status = 404 => Forge!Error(reply) = "missing"
           /\ reply.status = 401 => Forge!Error(reply) = IF call.forge = "github" THEN "failed" ELSE "unauthorized"
           /\ reply.status = 429 /\ reply.limit => Forge!Error(reply) = "limited"
           /\ reply.status = 403 /\ reply.limit /\ call.forge = "github" => Forge!Error(reply) = "limited"
           /\ reply.status = 403 /\ ~reply.limit =>
                Forge!Error(reply) = IF call.forge = "github" THEN "failed" ELSE "unauthorized"
<1> TAKE reply
<1>1. reply.status = 404 => Forge!Error(reply) = "missing"
  BY GitHubSays, GitLabSays DEF Forge!Error
<1>2. reply.status = 401 => Forge!Error(reply) = IF call.forge = "github" THEN "failed" ELSE "unauthorized"
  BY GitHubSays, GitLabSays DEF Forge!Error
<1>3. reply.status = 429 /\ reply.limit => Forge!Error(reply) = "limited"
  BY GitHubSays, GitLabSays DEF Forge!Error
<1>4. reply.status = 403 /\ reply.limit /\ call.forge = "github" => Forge!Error(reply) = "limited"
  BY GitHubSays DEF Forge!Error
<1>5. reply.status = 403 /\ ~reply.limit =>
        Forge!Error(reply) = IF call.forge = "github" THEN "failed" ELSE "unauthorized"
  BY GitHubSays, GitLabSays DEF Forge!Error
<1> QED
  BY <1>1, <1>2, <1>3, <1>4, <1>5, Zenon

(* Where the quota is used up, to say so is true.                          *)
LEMMA LimitIsSo ==
  ASSUME site.quota = 0
  PROVE  /\ Forge!WasSo([is |-> "limited"], Forge!Now)
         /\ Plain([is |-> "limited"], Forge!Now)
<1>1. Forge!Now.site = site
  BY DEF Forge!Now
<1>2. ~Forge!Shows(Forge!Now)
  BY <1>1 DEF Forge!Shows
<1>3. \A a : a.is = "limited" => Forge!WasSo(a, Forge!Now)
  BY <1>1 DEF Forge!WasSo
<1> QED
  BY <1>2, <1>3 DEF Plain

(* Where the secret is bad, or the repository blocked, to say so is true.  *)
LEMMA RefusalIsSo ==
  ASSUME token = "bad" \/ site.blocked
  PROVE  /\ Forge!WasSo([is |-> "unauthorized"], Forge!Now)
         /\ Plain([is |-> "unauthorized"], Forge!Now)
<1>1. Forge!Now.site = site /\ Forge!Now.token = token
  BY DEF Forge!Now
<1>2. ~Forge!Shows(Forge!Now)
  BY <1>1 DEF Forge!Shows
<1>3. \A a : a.is = "unauthorized" => Forge!WasSo(a, Forge!Now)
  BY <1>1 DEF Forge!WasSo
<1> QED
  BY <1>2, <1>3 DEF Plain

(* A reply that is no success is told as what it means.                    *)
LEMMA ErrorsAreSo ==
  ASSUME ForgeTypes, ForgeAsks, Asking, NEW reply, reply.status # 200,
         Limits(reply) \/ Refuses(reply) \/ Hides(reply) \/ Lacks(reply, call.get)
  PROVE  /\ Forge!WasSo([is |-> Forge!Error(reply)], Forge!Now)
         /\ window = {Forge!Now} => Plain([is |-> Forge!Error(reply)], Forge!Now)
<1>1. call.forge \in {"github", "gitlab"}
  BY DEF ForgeTypes, Asking, CallT, Forge!Idle
<1>2. CASE Limits(reply)
  <2>1. Forge!Error(reply) = "limited"
    <3>1. reply.limit /\ (reply.status = 429 \/ (reply.status = 403 /\ call.forge = "github"))
      BY <1>1, <1>2 DEF Limits
    <3> QED
      BY <1>1, <3>1, ErrorSays
  <2> QED
    BY <1>2, <2>1, LimitIsSo DEF Limits
<1>3. CASE Refuses(reply)
  <2>1. Forge!Error(reply) = IF call.forge = "github" THEN "failed" ELSE "unauthorized"
    BY <1>1, <1>3, ErrorSays DEF Refuses
  <2>2. CASE call.forge = "github"
    <3>1. Forge!Error(reply) = "failed"
      BY <2>1, <2>2
    <3>2. \A a : a.is = "failed" => Forge!WasSo(a, Forge!Now)
      BY DEF Forge!WasSo
    <3> QED
      BY <3>1, <3>2 DEF Plain
  <2>3. CASE call.forge = "gitlab"
    <3>1. Forge!Error(reply) = "unauthorized"
      BY <2>1, <2>3
    <3>2. token = "bad" \/ site.blocked
      BY <1>3, Zenon DEF Refuses
    <3> QED
      BY <3>1, <3>2, RefusalIsSo
  <2> QED
    BY <1>1, <2>2, <2>3
<1>4. CASE Hides(reply)
  <2>1. Forge!Error(reply) = "missing"
    BY <1>1, <1>4, ErrorSays DEF Hides
  <2>2. ~Forge!Shows(Forge!Now)
    BY <1>4 DEF Hides, Forge!Shows, Forge!Now, Forge!Sees
  <2>3. \A a : a.is = "missing" => Forge!WasSo(a, Forge!Now)
    BY <2>2 DEF Forge!WasSo
  <2> QED
    BY <2>1, <2>2, <2>3 DEF Plain
<1>5. CASE Lacks(reply, call.get)
  <2>1. Forge!Error(reply) = "missing"
    BY <1>1, <1>5, ErrorSays DEF Lacks
  <2>2. call.what = "file" /\ call.get.what = "file"
    BY <1>5 DEF Lacks, ForgeAsks
  <2>3. \A a : a.is = "missing" => Forge!WasSo(a, Forge!Now)
    BY <2>2 DEF Forge!WasSo
  <2>4. ASSUME window = {Forge!Now}
        PROVE  \A b \in Forge!Asked(Forge!Now) : Forge!Now.site.files[b].kind \in {"none", "dir"}
    <3>1. \/ call.get.ref = call.named
          \/ call.get.ref # {} /\ call.get.ref = Forge!Asked(Forge!Now)
      BY <2>2, <2>4 DEF ForgeAsks
    <3>2. Branched(call.get) = Forge!Asked(Forge!Now)
      BY <3>1 DEF Branched, Forge!Asked, Forge!Now
    <3>3. \A b \in Branched(call.get) : site.files[b].kind \in {"none", "dir"}
      BY <1>5, Zenon DEF Lacks
    <3> QED
      BY <3>2, <3>3 DEF Forge!Now
  <2>5. window = {Forge!Now} => Plain([is |-> "missing"], Forge!Now)
    BY <2>2, <2>4 DEF Plain
  <2> QED
    BY <2>1, <2>3, <2>5
<1> QED
  BY <1>2, <1>3, <1>4, <1>5

(* The branch that is opened is of the window.                             *)
LEMMA OpensAsked ==
  ASSUME ForgeTypes, ForgeAsks, Asking, call.get.what = "file", NEW b \in Branched(call.get)
  PROVE  \E v \in window : b \in Forge!Asked(v)
<1>1. Forge!Now \in window /\ Forge!Now.site = site
  BY DEF ForgeAsks, Forge!Now
<1>2. CASE call.get.ref = call.named
  <2>1. Branched(call.get) = Forge!Asked(Forge!Now)
    BY <1>1, <1>2 DEF Branched, Forge!Asked
  <2> QED
    BY <1>1, <2>1
<1>3. CASE call.get.ref # {} /\ \E v \in window : call.get.ref = Forge!Asked(v)
  BY <1>3 DEF Branched
<1> QED
  BY <1>2, <1>3 DEF ForgeAsks

(* What was found is so now.                                               *)
LEMMA SuccessIsSo ==
  ASSUME ForgeTypes, ForgeAsks, Asking, NEW reply,
         ~(call.what = "file" /\ call.get.what = "repository"),
         \/ Finds(reply, call.get) \/ Describes(reply, call.get)
         \/ Lists(reply, call.get) \/ Opens(reply, call.get)
  PROVE  /\ Forge!WasSo(Forge!Told(reply.body), Forge!Now)
         /\ Forge!Told(reply.body).is \in {"search", "repository", "issues", "file", "dir"}
<1> DEFINE w == Forge!Now
           a == Forge!Told(reply.body)
<1>1. w.site = site /\ w.token = token
  BY DEF Forge!Now
<1>2. site \in SiteT /\ PAGE \in Nat
  BY ForgeAssumption DEF ForgeTypes
<1>3. CASE Finds(reply, call.get)
  <2>1. a = [is |-> "search", found |-> Forge!Sees]
    BY <1>3 DEF Finds, Forge!Told
  <2>2. a.is = "search" /\ a.found = (w.site.public \/ w.token = "good")
    BY <1>1, <2>1 DEF Forge!Sees
  <2> HIDE DEF a, w
  <2>3. Forge!WasSo(a, w)
    BY <2>2 DEF Forge!WasSo
  <2> QED
    BY <2>2, <2>3 DEF a, w
<1>4. CASE Describes(reply, call.get)
  <2>1. a = [is |-> "repository", default |-> site.default] /\ Forge!Shows(w)
    BY <1>4 DEF Describes, Forge!Told
  <2>2. a.is = "repository" /\ a.default = w.site.default /\ Forge!Shows(w)
    BY <1>1, <2>1
  <2> HIDE DEF a, w
  <2>3. Forge!WasSo(a, w)
    BY <2>2 DEF Forge!WasSo
  <2> QED
    BY <2>2, <2>3 DEF a, w
<1>5. CASE Lists(reply, call.get)
  <2> DEFINE page == SubSeq(site.issues, 1, Forge!Min({PAGE, Len(site.issues)}))
  <2>1. PICK p : p = page
    OBVIOUS
  <2>2. reply.body = [is |-> "issues", issues |-> p] /\ Forge!Shows(w)
    BY <1>5, <2>1 DEF Lists
  <2>3. site.issues \in Seq(BOOLEAN)
    BY <1>2, ForgeAssumption DEF SiteT
  <2>4. Forge!Listed(p) <= PAGE /\ (Len(site.issues) <= PAGE => p = site.issues)
    BY <2>1, <2>3, ListedIs
  <2> HIDE DEF page
  <2>5. a = [is |-> "issues", count |-> Forge!Listed(p)]
    BY <2>2 DEF Forge!Told
  <2>6. a.is = "issues" /\ a.count <= PAGE
        /\ (Len(w.site.issues) <= PAGE => a.count = Forge!Listed(w.site.issues))
    BY <1>1, <2>4, <2>5
  <2> HIDE DEF a, w
  <2>7. Forge!WasSo(a, w)
    BY <2>2, <2>6 DEF Forge!WasSo
  <2> QED
    BY <2>6, <2>7 DEF a, w
<1>6. CASE Opens(reply, call.get)
  <2>1. PICK b \in Branched(call.get) :
          /\ reply.body = [is |-> "contents", file |-> site.files[b]]
          /\ b \in Branches /\ site.files[b].kind # "none"
    BY <1>6 DEF Opens
  <2>2. PICK file : file = site.files[b]
    OBVIOUS
  <2>3. file \in FileT /\ file.kind # "none"
    BY <1>2, <2>1, <2>2 DEF SiteT
  <2>4. Forge!Shows(w)
    BY <1>6 DEF Opens
  <2>5. call.get.what = "file"
    BY <1>6 DEF Opens
  <2>6. \E v \in window : b \in Forge!Asked(v)
    BY <2>1, <2>5, OpensAsked
  <2>7. a = Forge!Contents(file)
    BY <2>1, <2>2 DEF Forge!Told
  <2>8. \/ a.is = "dir" /\ a.version = file.version
        \/ /\ a.is = "file" /\ file.kind \in {"file", "large"} /\ a.version = file.version
           /\ a.size = file.bytes /\ (a.truncated <=> a.kept < a.size)
    BY <2>3, <2>7, ContentsAreSo
  <2>9. w.site.files[b] = file
    BY <1>1, <2>2
  <2> HIDE DEF a, w
  <2>10. Forge!WasSo(a, w)
    <3>1. CASE a.is = "dir"
      BY <2>1, <2>4, <2>8, <2>9, <3>1 DEF Forge!WasSo
    <3>2. CASE a.is = "file"
      BY <2>1, <2>4, <2>6, <2>8, <2>9, <3>2 DEF Forge!WasSo
    <3> QED
      BY <2>8, <3>1, <3>2
  <2> QED
    BY <2>8, <2>10 DEF a, w
<1> QED
  BY <1>3, <1>4, <1>5, <1>6

(* The end of a call tells what is so.                                     *)
LEMMA EndsSo ==
  ASSUME ForgeTypes, ForgeAsks, Asking, NEW reply \in Forge!Replies(call.get)
  PROVE  /\ Forge!WasSo(Ends(reply), Forge!Now)
         /\ window = {Forge!Now} => Plain(Ends(reply), Forge!Now)
<1>1. call.get \in GetT
  BY DEF ForgeTypes, Asking, CallT, Forge!Idle
<1>2. \/ Limits(reply) \/ Refuses(reply) \/ Hides(reply) \/ Lacks(reply, call.get)
      \/ Finds(reply, call.get) \/ Describes(reply, call.get)
      \/ Lists(reply, call.get) \/ Opens(reply, call.get)
  BY <1>1, RepliesAre
<1>3. CASE Limits(reply) \/ Refuses(reply) \/ Hides(reply) \/ Lacks(reply, call.get)
  <2>1. reply.status # 200
    BY <1>3 DEF Limits, Refuses, Hides, Lacks
  <2>2. Ends(reply) = [is |-> Forge!Error(reply)]
    BY <2>1 DEF Ends
  <2> QED
    BY <1>3, <2>1, <2>2, ErrorsAreSo
<1>4. CASE \/ Finds(reply, call.get) \/ Describes(reply, call.get)
           \/ Lists(reply, call.get) \/ Opens(reply, call.get)
  <2>1. reply.status = 200
    BY <1>4 DEF Finds, Describes, Lists, Opens
  <2>2. CASE call.what = "file" /\ call.get.what = "repository"
    <3>1. Ends(reply) = [is |-> "failed"]
      BY <2>1, <2>2 DEF Ends
    <3>2. \A a : a.is = "failed" => Forge!WasSo(a, Forge!Now)
      BY DEF Forge!WasSo
    <3> QED
      BY <3>1, <3>2 DEF Plain
  <2>3. CASE ~(call.what = "file" /\ call.get.what = "repository")
    <3>1. Ends(reply) = Forge!Told(reply.body)
      BY <2>1, <2>3 DEF Ends
    <3>2. /\ Forge!WasSo(Forge!Told(reply.body), Forge!Now)
          /\ Forge!Told(reply.body).is \in {"search", "repository", "issues", "file", "dir"}
      BY <1>4, <2>3, SuccessIsSo
    <3> QED
      BY <3>1, <3>2 DEF Plain
  <2> QED
    BY <2>2, <2>3
<1> QED
  BY <1>2, <1>3, <1>4

(* A call that ends with an answer that is so now keeps what is told true. *)
LEMMA OverSo ==
  ASSUME ForgeInv, Asking, NEW a, Forge!WasSo(a, Forge!Now),
         window = {Forge!Now} => Plain(a, Forge!Now),
         call' = [call EXCEPT !.at = "over"], answer' = {a}, UNCHANGED <<site, token, window>>
  PROVE  ForgeInv'
<1>1. call \in CallT
  BY DEF ForgeInv, ForgeTypes, Asking, Forge!Idle
<1>2. /\ call' \in CallT /\ call'.at = "over"
      /\ call'.forge = call.forge /\ call'.what = call.what /\ call'.named = call.named
  BY <1>1 DEF CallT
<1>3. ForgeTypes'
  BY <1>2 DEF ForgeInv, ForgeTypes, SiteT, FileT, CallT, GetT, RefT
<1>4. ForgeAsks'
  BY <1>2 DEF ForgeAsks, Asking
<1>5. call' # Forge!Idle
  <2>1. "forge" \in DOMAIN call'
    BY <1>2 DEF CallT
  <2>2. "forge" \notin DOMAIN Forge!Idle
    BY DEF Forge!Idle
  <2> QED
    BY <2>1, <2>2
<1>6. Forge!Now \in window /\ IsFiniteSet(window)
  BY DEF ForgeInv, ForgeAsks
<1>7. Forge!WasSo(a, Forge!Now)'
  <2>1. PICK w : w = Forge!Now
    OBVIOUS
  <2>2. Forge!WasSo(a, w)'
    BY <1>2, <2>1, TrueSame
  <2>3. Forge!Now' = w
    BY <2>1 DEF Forge!Now
  <2> QED
    BY <2>2, <2>3
<1>8. \A w \in window : Forge!Cardinality(window) = 1 => Plain(a, w)
  <2> SUFFICES ASSUME NEW w \in window, Forge!Cardinality(window) = 1
               PROVE  Plain(a, w)
    OBVIOUS
  <2>1. window = {Forge!Now} /\ w = Forge!Now
    BY <1>6, ForgeCounts, FS_Singleton
  <2> QED
    BY <2>1
<1>9. Forge!ForgeIsToldTruly'
  <2> SUFFICES ASSUME NEW w \in window, Forge!Cardinality(window) = 1, Forge!Shows(w), a.is # "failed"
               PROVE  \/ a.is \in {"search", "repository", "issues", "file", "dir"}
                      \/ call.what = "file" /\ \A b \in Forge!Asked(w) : w.site.files[b].kind \in {"none", "dir"}
    BY <1>2, <1>6, <1>7 DEF Forge!ForgeIsToldTruly, Forge!Shows, Forge!Asked, Forge!Now
  <2> QED
    BY <1>8 DEF Plain
<1> QED
  BY <1>3, <1>4, <1>5, <1>9 DEF ForgeInv

(* It holds when a tool is called first.                                   *)
LEMMA LeastBranch == Forge!Min(Branches) \in Branches
<1> DEFINE R == OpToRel(<, Nat)
<1>1. IsWellFoundedOn(R, Nat)
  BY NatLessThanWellFounded
<1>2. \A x, y \in Nat : x < y => <<x, y>> \in R
  BY DEF OpToRel
<1>3. Branches # {} /\ Branches \subseteq Nat
  BY ForgeAssumption
<1> HIDE DEF R
<1>4. PICK x \in Branches : \A y \in Branches : <<y, x>> \notin R
  BY <1>1, <1>3, WFMin
<1>5. \A y \in Branches : ~(y < x)
  BY <1>2, <1>3, <1>4
<1>6. \A y \in Branches : x <= y
  BY <1>3, <1>5
<1> QED
  BY <1>6 DEF Forge!Min

(* The invariant holds before a call.                                      *)
LEMMA ForgeBegins == Forge!Init => ForgeInv
<1> SUFFICES ASSUME Forge!Init PROVE ForgeInv
  OBVIOUS
<1> DEFINE least == Forge!Min(Branches)
<1>1. least \in Branches
  BY LeastBranch
<1> HIDE DEF least
<1>2. PICK issues \in Issues, kind \in {"file", "dir", "large"}, bytes \in Sizes,
           blocked \in BOOLEAN, public \in BOOLEAN :
        site = [public |-> public, blocked |-> blocked, quota |-> 1, default |-> {least}, issues |-> issues,
                files |-> [b \in Branches |-> [kind |-> IF b = least THEN kind ELSE "none",
                                               bytes |-> bytes, version |-> 0]],
                changes |-> 0]
  BY DEF Forge!Init, least
<1>3. site \in SiteT
  BY <1>1, <1>2 DEF SiteT, FileT, RefT
<1>4. token \in {"none", "good", "bad"} /\ call = Forge!Idle /\ answer = {}
  BY DEF Forge!Init
<1>5. ~Asking
  BY <1>4 DEF Asking, Forge!Idle
<1> QED
  BY <1>3, <1>4, <1>5 DEF ForgeInv, ForgeTypes, ForgeAsks, Forge!ForgeIsToldTruly

(* A tool is called.                                                       *)
LEMMA ForgeCalled ==
  ASSUME ForgeInv, NEW forge \in {"github", "gitlab"},
         NEW what \in {"search", "repository", "issues", "file"}, NEW ref \in RefT,
         Forge!Call(forge, what, ref)
  PROVE  ForgeInv'
<1>1. PICK get : get = IF forge = "gitlab" /\ what = "file" /\ ref = {}
                       THEN [what |-> "repository", ref |-> {}] ELSE [what |-> what, ref |-> ref]
  OBVIOUS
<1>2. /\ call = Forge!Idle /\ answer = {} /\ window' = {Forge!Now}
      /\ call' = [at |-> "asking", forge |-> forge, what |-> what, named |-> ref, get |-> get]
      /\ UNCHANGED <<site, token, answer>>
  BY <1>1 DEF Forge!Call
<1>3. get \in GetT
  BY <1>1 DEF GetT, RefT
<1>4. ForgeTypes'
  BY <1>2, <1>3 DEF ForgeInv, ForgeTypes, SiteT, FileT, CallT, RefT, GetT
<1>5. /\ get.what = what \/ (get.what = "repository" /\ what = "file" /\ ref = {})
      /\ get.what = "file" => get.ref = ref
  BY <1>1
<1>6. IsFiniteSet({Forge!Now})
  BY FS_Singleton
<1>7. Forge!Now' = Forge!Now
  BY <1>2 DEF Forge!Now
<1>8. call'.get = get /\ call'.what = what /\ call'.named = ref
  BY <1>2
<1>9. ForgeAsks'
  BY <1>2, <1>5, <1>6, <1>7, <1>8 DEF ForgeAsks, Asking
<1>10. (answer # {} => call # Forge!Idle)' /\ Forge!ForgeIsToldTruly'
  BY <1>2 DEF Forge!ForgeIsToldTruly
<1> QED
  BY <1>4, <1>9, <1>10 DEF ForgeInv

(* A reply comes.                                                          *)
LEMMA ForgeReceived ==
  ASSUME ForgeInv, Forge!Received
  PROVE  ForgeInv'
<1>1. Asking /\ UNCHANGED <<site, token, window>>
  BY DEF Forge!Received, Asking
<1>2. ForgeTypes /\ ForgeAsks
  BY DEF ForgeInv
<1>3. call \in CallT
  BY <1>1, <1>2 DEF ForgeTypes, Asking, Forge!Idle
<1> DEFINE first == call.what = "file" /\ call.get.what = "repository"
           on(reply) == reply.status = 200 /\ first /\ reply.body.default # {}
<1>4. PICK reply \in Forge!Replies(call.get) :
        IF on(reply)
        THEN /\ call' = [call EXCEPT !.get = [what |-> "file", ref |-> reply.body.default]]
             /\ UNCHANGED answer
        ELSE /\ call' = [call EXCEPT !.at = "over"]
             /\ answer' = {Ends(reply)}
  BY DEF Forge!Received, Ends
<1>5. CASE on(reply)
  <2>1. Describes(reply, call.get)
    <3>1. call.get \in GetT
      BY <1>3 DEF CallT
    <3>2. \/ Limits(reply) \/ Refuses(reply) \/ Hides(reply) \/ Lacks(reply, call.get)
          \/ Finds(reply, call.get) \/ Describes(reply, call.get)
          \/ Lists(reply, call.get) \/ Opens(reply, call.get)
      BY <1>1, <1>2, <3>1, RepliesAre
    <3> QED
      BY <1>5, <3>2 DEF Limits, Refuses, Hides, Lacks, Finds, Lists, Opens
  <2>2. reply.body.default = site.default
    BY <2>1 DEF Describes
  <2>3. call.named = {} /\ Forge!Asked(Forge!Now) = site.default
    BY <1>1, <1>2, <1>5 DEF ForgeAsks, Forge!Asked, Forge!Now
  <2>4. /\ call' = [call EXCEPT !.get = [what |-> "file", ref |-> site.default]]
        /\ answer' = answer /\ site.default # {} /\ site.default \in RefT
    BY <1>2, <1>4, <1>5, <2>2 DEF ForgeTypes, SiteT
  <2>5. /\ call' \in CallT /\ call'.get = [what |-> "file", ref |-> site.default]
        /\ call'.what = "file" /\ call'.named = {}
    BY <1>3, <1>5, <2>3, <2>4 DEF CallT, GetT
  <2>6. ForgeTypes'
    BY <1>1, <1>2, <2>5 DEF ForgeTypes, SiteT, FileT, CallT, GetT, RefT
  <2>7. Forge!Now' = Forge!Now /\ Forge!Asked(Forge!Now)' = site.default /\ answer' = {}
    BY <1>1, <1>2, <2>4, <2>5 DEF Forge!Now, Forge!Asked, ForgeAsks
  <2>8. \E v \in window' : call'.get.ref = Forge!Asked(v)'
    <3>1. PICK w : w = Forge!Now
      OBVIOUS
    <3>2. w \in window' /\ Forge!Asked(w)' = site.default
      BY <1>1, <1>2, <2>5, <3>1 DEF ForgeAsks, Forge!Now, Forge!Asked
    <3> QED
      BY <2>5, <3>2
  <2>9. ForgeAsks'
    BY <1>1, <1>2, <2>4, <2>5, <2>7, <2>8 DEF ForgeAsks
  <2>10. call' # Forge!Idle
    <3>1. "forge" \in DOMAIN call'
      BY <2>5 DEF CallT
    <3> QED
      BY <3>1 DEF Forge!Idle
  <2> QED
    BY <2>6, <2>7, <2>9, <2>10 DEF ForgeInv, Forge!ForgeIsToldTruly
<1>6. CASE ~on(reply)
  <2>1. call' = [call EXCEPT !.at = "over"] /\ answer' = {Ends(reply)}
    BY <1>4, <1>6
  <2>2. /\ Forge!WasSo(Ends(reply), Forge!Now)
        /\ window = {Forge!Now} => Plain(Ends(reply), Forge!Now)
    BY <1>1, <1>2, EndsSo
  <2>3. PICK a : a = Ends(reply)
    OBVIOUS
  <2> QED
    BY <1>1, <2>1, <2>2, <2>3, OverSo
<1> QED
  BY <1>5, <1>6

(* None comes.                                                             *)
LEMMA ForgeLost ==
  ASSUME ForgeInv, Forge!Lost
  PROVE  ForgeInv'
<1>1. PICK a : a = [is |-> "failed"]
  OBVIOUS
<1>2. \A s : Forge!WasSo(a, s)
  BY <1>1 DEF Forge!WasSo
<1>3. \A s : Plain(a, s)
  BY <1>1 DEF Plain
<1>4. Asking /\ call' = [call EXCEPT !.at = "over"] /\ answer' = {a} /\ UNCHANGED <<site, token, window>>
  BY <1>1 DEF Forge!Lost, Asking
<1> QED
  BY <1>2, <1>3, <1>4, OverSo

(* What changes of a repository keeps it one.                              *)
LEMMA SiteChanges ==
  ASSUME NEW s \in SiteT, NEW c \in Nat
  PROVE  /\ \A files \in [Branches -> FileT] : [s EXCEPT !.files = files, !.changes = c] \in SiteT
         /\ \A d \in RefT : [s EXCEPT !.default = d, !.changes = c] \in SiteT
         /\ \A q \in {0, 1} : [s EXCEPT !.quota = q, !.changes = c] \in SiteT
         /\ [s EXCEPT !.changes = c] \in SiteT
<1>1. ASSUME NEW files \in [Branches -> FileT] PROVE [s EXCEPT !.files = files, !.changes = c] \in SiteT
  BY DEF SiteT
<1>2. ASSUME NEW d \in RefT PROVE [s EXCEPT !.default = d, !.changes = c] \in SiteT
  BY DEF SiteT
<1>3. ASSUME NEW q \in {0, 1} PROVE [s EXCEPT !.quota = q, !.changes = c] \in SiteT
  BY DEF SiteT
<1>4. [s EXCEPT !.changes = c] \in SiteT
  BY DEF SiteT
<1> QED
  BY <1>1, <1>2, <1>3, <1>4

(* What a push does to a file keeps it one.                                *)
LEMMA FileChanges ==
  ASSUME NEW file \in FileT, NEW kind \in {"file", "none"}, NEW version \in Nat
  PROVE  [file EXCEPT !.kind = kind, !.version = version] \in FileT
  BY DEF FileT

(* The world goes on.                                                      *)
LEMMA ForgeChanged ==
  ASSUME ForgeInv, Forge!Change
  PROVE  ForgeInv'
<1>1. /\ Asking /\ call' = call /\ answer' = answer
      /\ window' = window \cup {[site |-> site', token |-> token']}
  BY DEF Forge!Change, Asking
<1>2. site \in SiteT /\ token \in {"none", "good", "bad"} /\ call \in CallT
  BY <1>1 DEF ForgeInv, ForgeTypes, Asking, Forge!Idle
<1>3. PICK c : c = site.changes + 1
  OBVIOUS
<1>4. c \in Nat
  BY <1>2, <1>3 DEF SiteT
<1>5. site' \in SiteT /\ token' \in {"none", "good", "bad"}
  <2>1. CASE \E b \in Branches, kind \in {"file", "none"} :
               /\ site' = [site EXCEPT !.files[b].kind = kind, !.files[b].version = @ + 1, !.changes = @ + 1]
               /\ UNCHANGED token
    <3>1. PICK b \in Branches, kind \in {"file", "none"} :
               /\ site' = [site EXCEPT !.files[b].kind = kind, !.files[b].version = @ + 1, !.changes = @ + 1]
               /\ UNCHANGED token
      BY <2>1
    <3>2. PICK old : old = site.files[b]
      OBVIOUS
    <3>3. site.files \in [Branches -> FileT] /\ old \in FileT
      BY <1>2, <3>2 DEF SiteT
    <3>4. PICK version : version = old.version + 1
      OBVIOUS
    <3>5. PICK file : file = [old EXCEPT !.kind = kind, !.version = version]
      OBVIOUS
    <3>6. version \in Nat
      BY <3>3, <3>4 DEF FileT
    <3>7. file \in FileT
      BY <3>3, <3>5, <3>6, FileChanges
    <3>8. PICK files : files = [site.files EXCEPT ![b] = file]
      OBVIOUS
    <3>9. files \in [Branches -> FileT]
      BY <3>3, <3>7, <3>8
    <3>10. site' = [site EXCEPT !.files = files, !.changes = c]
      <4>1. site'.files = files
        <5>1. DOMAIN site'.files = Branches /\ DOMAIN files = Branches
          BY <1>2, <3>1, <3>8 DEF SiteT
        <5> QED
          BY <1>2, <3>1, <3>2, <3>3, <3>4, <3>5, <3>8, <5>1 DEF SiteT, FileT
      <4> QED
        BY <1>2, <1>3, <3>1, <4>1 DEF SiteT
    <3>11. [site EXCEPT !.files = files, !.changes = c] \in SiteT
      <4>1. PICK s : s = site
        OBVIOUS
      <4>2. [s EXCEPT !.files = files, !.changes = c] \in SiteT
        BY <1>2, <1>4, <3>9, <4>1, SiteChanges
      <4> QED
        BY <4>1, <4>2
    <3> QED
      BY <1>2, <3>1, <3>10, <3>11
  <2>2. CASE \E d \in Forge!Refs : site' = [site EXCEPT !.default = d, !.changes = @ + 1] /\ UNCHANGED token
    <3>1. PICK d \in RefT : site' = [site EXCEPT !.default = d, !.changes = c] /\ UNCHANGED token
      BY <1>2, <1>3, <2>2 DEF SiteT, Forge!Refs, RefT
    <3> QED
      BY <1>2, <1>4, <3>1, SiteChanges
  <2>3. CASE \E q \in {0, 1} : site' = [site EXCEPT !.quota = q, !.changes = @ + 1] /\ UNCHANGED token
    <3>1. PICK q \in {0, 1} : site' = [site EXCEPT !.quota = q, !.changes = c] /\ UNCHANGED token
      BY <1>2, <1>3, <2>3 DEF SiteT
    <3> QED
      BY <1>2, <1>4, <3>1, SiteChanges
  <2>4. CASE token' \in {"none", "good", "bad"} /\ site' = [site EXCEPT !.changes = @ + 1]
    <3>1. site' = [site EXCEPT !.changes = c]
      BY <1>2, <1>3, <2>4 DEF SiteT
    <3> QED
      BY <1>2, <1>4, <2>4, <3>1, SiteChanges
  <2> QED
    BY <2>1, <2>2, <2>3, <2>4 DEF Forge!Change
<1>6. ForgeTypes'
  BY <1>1, <1>2, <1>5 DEF ForgeTypes, SiteT, FileT, CallT, GetT, RefT, Forge!Idle
<1>7. Forge!Now' \in window' /\ window \subseteq window'
  BY <1>1 DEF Forge!Now
<1>8. IsFiniteSet(window')
  BY <1>1, FS_AddElement DEF ForgeInv, ForgeAsks
<1>9. \A v : Forge!Asked(v)' = Forge!Asked(v)
  BY <1>1 DEF Forge!Asked
<1>10. ForgeAsks'
  BY <1>1, <1>7, <1>8, <1>9 DEF ForgeInv, ForgeAsks, Asking
<1>11. (answer # {} => call # Forge!Idle)' /\ Forge!ForgeIsToldTruly'
  BY <1>1 DEF ForgeInv, ForgeAsks, Forge!ForgeIsToldTruly
<1> QED
  BY <1>6, <1>10, <1>11 DEF ForgeInv

(* Every step of a forge and its tools keeps what is told true.            *)
LEMMA ForgeSteps ==
  ASSUME ForgeInv, Forge!Next
  PROVE  ForgeInv'
<1>1. {} \in RefT /\ Forge!Refs = RefT
  BY DEF RefT, Forge!Refs
<1>2. CASE Forge!search_repositories
  BY <1>1, <1>2, ForgeCalled DEF Forge!search_repositories
<1>3. CASE Forge!get_repository
  BY <1>1, <1>3, ForgeCalled DEF Forge!get_repository
<1>4. CASE Forge!list_issues
  BY <1>1, <1>4, ForgeCalled DEF Forge!list_issues
<1>5. CASE Forge!get_file_contents
  BY <1>1, <1>5, ForgeCalled DEF Forge!get_file_contents
<1>6. CASE Forge!search_projects
  BY <1>1, <1>6, ForgeCalled DEF Forge!search_projects
<1>7. CASE Forge!get_project
  BY <1>1, <1>7, ForgeCalled DEF Forge!get_project
<1>8. CASE Forge!list_project_issues
  BY <1>1, <1>8, ForgeCalled DEF Forge!list_project_issues
<1>9. CASE Forge!get_project_file
  BY <1>1, <1>9, ForgeCalled DEF Forge!get_project_file
<1>10. CASE Forge!Received
  BY <1>10, ForgeReceived
<1>11. CASE Forge!Lost
  BY <1>11, ForgeLost
<1>12. CASE Forge!Change
  BY <1>12, ForgeChanged
<1> QED
  BY <1>2, <1>3, <1>4, <1>5, <1>6, <1>7, <1>8, <1>9, <1>10, <1>11, <1>12 DEF Forge!Next

(* What stands still stays true.                                           *)
LEMMA ForgeStands ==
  ASSUME ForgeInv, UNCHANGED forgeVars
  PROVE  ForgeInv'
<1>1. UNCHANGED <<site, token, call, answer, window>>
  BY DEF forgeVars
<1>2. ForgeTypes'
  BY <1>1 DEF ForgeInv, ForgeTypes, SiteT, FileT, CallT, GetT, RefT, Forge!Idle
<1>3. Forge!Now' = Forge!Now /\ \A v : Forge!Asked(v)' = Forge!Asked(v)
  BY <1>1 DEF Forge!Now, Forge!Asked
<1>4. ForgeAsks'
  BY <1>1, <1>3 DEF ForgeInv, ForgeAsks, Asking
<1>5. \A a, w : Forge!WasSo(a, w) => Forge!WasSo(a, w)'
  BY <1>1, TrueSame
<1>6. \A w : Forge!Shows(w)' = Forge!Shows(w)
  BY DEF Forge!Shows
<1>7. Forge!ForgeIsToldTruly'
  BY <1>1, <1>3, <1>5, <1>6 DEF ForgeInv, Forge!ForgeIsToldTruly
<1>8. (answer # {} => call # Forge!Idle)'
  BY <1>1 DEF ForgeInv
<1> QED
  BY <1>2, <1>4, <1>7, <1>8 DEF ForgeInv

(***************************************************************************)
(* The redactor.                                                           *)
(***************************************************************************)
Kinds == {"email", "us_ssn", "phone", "credit_card", "ipv4", "aws_access_key_id"}

\* What may look like personal data in a text.
SpansIn(bytes) ==
  {c \in [start : 0..bytes, end : 0..bytes, category : Kinds, digits : Seq(0..9)] :
     c.start < c.end}

(* The types that are known, and their precedence.                         *)
LEMMA KindsAre ==
  /\ Range(Redactor!KNOWN_TYPES) = Kinds
  /\ Redactor!Range(Redactor!KNOWN_TYPES) = Kinds
  /\ \A c \in Kinds : Redactor!precedence[c] \in 0..5
  /\ \A c, d \in Kinds : Redactor!precedence[c] = Redactor!precedence[d] => c = d
<1>1. Redactor!Range(Redactor!KNOWN_TYPES) = Kinds
      /\ Range(Redactor!KNOWN_TYPES) = Kinds
  BY DEF Range, Redactor!Range, Redactor!KNOWN_TYPES, Kinds
<1>2. \A c \in Kinds : Redactor!precedence[c] \in 0..5
  BY DEF Redactor!precedence, Kinds
<1>3. \A c, d \in Kinds : Redactor!precedence[c] = Redactor!precedence[d] => c = d
  BY DEF Redactor!precedence, Kinds
<1> QED
  BY <1>1, <1>2, <1>3

(* What is counted in the redactor is counted as here.                     *)
LEMMA RedactorCounts ==
  \A S : Redactor!Cardinality(S) = Cardinality(S)
  BY DEF Redactor!Cardinality, Cardinality

(* Spans are put in an order, from which they come.                        *)
LEMMA SpansInOrder ==
  ASSUME NEW bytes \in Nat, NEW S \in SUBSET SpansIn(bytes), IsFiniteSet(S)
  PROVE  LET s == Redactor!InOrder(S) IN
         /\ s \in Seq(S) /\ Len(s) = Cardinality(S)
         /\ \A i, k \in 1..Len(s) : i < k => s[i].start <= s[k].start
         /\ \A a \in S : \E i \in 1..Len(s) : s[i] = a
<1> DEFINE R == {p \in S \X S : ~Redactor!Before(p[2], p[1])}
           n == Cardinality(S)
           Good(s) == /\ s \in Redactor!SetToSeqs(S)
                      /\ \A i, k \in DOMAIN s : i < k => ~Redactor!Before(s[k], s[i])
<1>0. n \in Nat
  BY FS_CardinalityType
<1>1. \A a \in S : a.start \in Nat /\ a.end \in Nat /\ Redactor!precedence[a.category] \in Nat
  <2>1. \A c \in Kinds : Redactor!precedence[c] \in Nat
    BY KindsAre
  <2> QED
    BY <2>1 DEF SpansIn
<1>2. \A a, b \in S : <<a, b>> \in R <=> ~Redactor!Before(b, a)
  OBVIOUS
<1>3. Orders(R, S)
  <2>1. \A a, b \in S : <<a, b>> \in R \/ <<b, a>> \in R
    <3> SUFFICES ASSUME NEW a \in S, NEW b \in S PROVE ~Redactor!Before(b, a) \/ ~Redactor!Before(a, b)
      BY <1>2
    <3> HIDE DEF R
    <3> QED
      BY <1>1, SMTT(20) DEF Redactor!Before
  <2>2. \A a, b, c \in S : <<a, b>> \in R /\ <<b, c>> \in R => <<a, c>> \in R
    <3> SUFFICES ASSUME NEW a \in S, NEW b \in S, NEW c \in S,
                        ~Redactor!Before(b, a), ~Redactor!Before(c, b)
                 PROVE  ~Redactor!Before(c, a)
      BY <1>2
    <3> HIDE DEF R
    <3> QED
      BY <1>1, SMTT(20) DEF Redactor!Before
  <2> HIDE DEF R
  <2> QED
    BY <2>1, <2>2 DEF Orders
<1>4. PICK s \in [1..n -> S] :
           /\ \A i, k \in 1..n : i < k => s[i] # s[k] /\ <<s[i], s[k]>> \in R
           /\ \A a \in S : \E i \in 1..n : s[i] = a
  <2> HIDE DEF R
  <2> QED
    BY <1>3, Sorts
<1>5. Redactor!SetToSeqs(S) = {q \in [1..n -> S] : \A i, k \in 1..n : i # k => q[i] # q[k]}
  BY RedactorCounts DEF Redactor!SetToSeqs
<1>6. \A q : q \in Redactor!SetToSeqs(S) <=>
               q \in [1..n -> S] /\ \A i, k \in 1..n : i # k => q[i] # q[k]
  BY <1>5
<1>7. Good(s)
  <2>1. \A i, k \in 1..n : i # k => s[i] # s[k]
    <3> HIDE DEF R
    <3>1. ASSUME NEW i \in 1..n, NEW k \in 1..n, i # k PROVE s[i] # s[k]
      <4>1. i < k \/ k < i
        BY <1>0, <3>1
      <4> QED
        BY <1>4, <4>1
    <3> QED
      BY <3>1
  <2>2. \A i, k \in 1..n : i < k => ~Redactor!Before(s[k], s[i])
    BY <1>2, <1>4
  <2> QED
    BY <1>4, <1>6, <2>1, <2>2
<1>8. Good(Redactor!InOrder(S))
  BY <1>7 DEF Redactor!InOrder
<1> DEFINE t == Redactor!InOrder(S)
<1>9. t \in [1..n -> S] /\ (\A i, k \in 1..n : i # k => t[i] # t[k])
      /\ \A i, k \in 1..n : i < k => ~Redactor!Before(t[k], t[i])
  BY <1>6, <1>8
<1> HIDE DEF t
<1>10. t \in Seq(S) /\ Len(t) = n
  BY <1>0, <1>9
<1>11. \A i, k \in 1..n : i < k => t[i].start <= t[k].start
  <2> SUFFICES ASSUME NEW i \in 1..n, NEW k \in 1..n, i < k PROVE t[i].start <= t[k].start
    OBVIOUS
  <2>1. ~Redactor!Before(t[k], t[i]) /\ t[i] \in S /\ t[k] \in S
    BY <1>9
  <2>2. \A a, b \in S : ~Redactor!Before(b, a) => a.start <= b.start
    BY <1>1 DEF Redactor!Before
  <2> QED
    BY <2>1, <2>2
<1>12. \A a \in S : \E i \in 1..n : t[i] = a
  <2>1. t \in Injection(1..n, S)
    BY <1>9 DEF Injection, IsInjective
  <2>2. IsFiniteSet(1..n) /\ Cardinality(1..n) = n
    BY <1>0, FS_Interval
  <2>3. t \in Surjection(1..n, S)
    BY <1>0, <2>1, <2>2, FS_Injection
  <2> QED
    BY <2>3 DEF Surjection
<1> QED
  BY <1>10, <1>11, <1>12 DEF t

\* What is kept of a text when a was reached: places below a, in their order.
KeptBelow(o, a) ==
  /\ o \in Seq(Int)
  /\ \A i \in 1..Len(o) : o[i] < a
  /\ \A i, k \in 1..Len(o) : i < k /\ o[i] >= 0 /\ o[k] >= 0 => o[i] < o[k]

Places(o) == {i \in DOMAIN o : o[i] >= 0}
KeptOf(o) == {o[i] : i \in Places(o)}
Holes(o) == {i \in DOMAIN o : o[i] < 0}

\* The places from a to b after those.
Stretch(o, a, b) == o \o [i \in 1..b - a |-> a + i - 1]

(* The places from a to b come out after those before a.                   *)
LEMMA Stretched ==
  ASSUME NEW a \in Nat, NEW b \in Nat, a <= b, NEW o, KeptBelow(o, a)
  PROVE  /\ KeptBelow(Stretch(o, a, b), b) /\ Len(Stretch(o, a, b)) >= Len(o)
         /\ \A i \in 1..Len(o) : Stretch(o, a, b)[i] = o[i]
         /\ KeptOf(Stretch(o, a, b)) = KeptOf(o) \cup a..(b - 1)
         /\ Holes(Stretch(o, a, b)) = Holes(o)
<1> DEFINE w == [i \in 1..b - a |-> a + i - 1]
           p == Stretch(o, a, b)
           n == Len(o)
           m == n + (b - a)
<1>1. n \in Nat /\ b - a \in Nat /\ m \in Nat /\ n <= m
  BY DEF KeptBelow
<1>2. w \in Seq(Int) /\ Len(w) = b - a /\ \A i \in 1..b - a : w[i] = a + i - 1
  <2>1. w \in [1..b - a -> Int] /\ \A i \in 1..b - a : w[i] = a + i - 1
    BY <1>1
  <2> HIDE DEF w
  <2> QED
    BY <1>1, <2>1
<1> HIDE DEF w
<1>3. p \in Seq(Int) /\ Len(p) = m /\ DOMAIN p = 1..m
      /\ (\A i \in 1..n : p[i] = o[i]) /\ \A i \in n + 1..m : p[i] = w[i - n]
  <2>0. o \in Seq(Int) /\ p = o \o w
    BY DEF KeptBelow, Stretch, w
  <2> HIDE DEF p
  <2>1. p \in Seq(Int) /\ Len(p) = n + Len(w)
        /\ \A i \in 1..n + Len(w) : p[i] = IF i <= n THEN o[i] ELSE w[i - n]
    BY <1>2, <2>0, ConcatProperties, Zenon
  <2>2. Len(p) = m /\ DOMAIN p = 1..m
    BY <1>2, <2>1
  <2> HIDE DEF m
  <2>3. \A i \in 1..n : i \in 1..m /\ i <= n
    BY <1>1 DEF m
  <2>4. \A i \in n + 1..m : i \in 1..m /\ ~(i <= n)
    BY <1>1 DEF m
  <2> QED
    BY <2>1, <2>2, <2>3, <2>4
<1> HIDE DEF p
<1>4. \A i \in n + 1..m : p[i] = a + (i - n) - 1 /\ p[i] \in a..b - 1
  <2>1. \A i \in n + 1..m : i - n \in 1..b - a
    BY <1>1
  <2>2. \A i \in n + 1..m : p[i] = a + (i - n) - 1
    BY <1>2, <1>3, <2>1
  <2>3. \A i \in n + 1..m : a + (i - n) - 1 \in a..b - 1
    BY <1>1
  <2> QED
    BY <2>2, <2>3
<1>5. \A i \in 1..m : i \in 1..n \/ i \in n + 1..m
  BY <1>1
<1>6. \A i \in 1..n : i \in 1..m /\ o[i] \in Int /\ o[i] < a /\ p[i] = o[i]
  BY <1>1, <1>3 DEF KeptBelow
<1> HIDE DEF m
<1>7. m \in Nat
  BY <1>1
<1>8. KeptBelow(p, b)
  <2>1. \A i \in 1..m : p[i] < b
    BY <1>4, <1>5, <1>6
  <2>2. ASSUME NEW i \in 1..m, NEW k \in 1..m, i < k, p[i] >= 0, p[k] >= 0
        PROVE  p[i] < p[k]
    <3>1. CASE i \in 1..n /\ k \in 1..n
      BY <1>6, <2>2, <3>1 DEF KeptBelow
    <3>2. CASE i \in 1..n /\ k \in n + 1..m
      BY <1>4, <1>6, <3>2
    <3>3. CASE i \in n + 1..m /\ k \in n + 1..m
      BY <1>1, <1>4, <2>2, <3>3
    <3>4. ~(i \in n + 1..m /\ k \in 1..n)
      BY <1>1, <2>2
    <3> QED
      BY <1>5, <3>1, <3>2, <3>3, <3>4
  <2> QED
    BY <1>3, <2>1, <2>2 DEF KeptBelow
<1>9. KeptOf(p) = KeptOf(o) \cup a..(b - 1)
  <2>0. DOMAIN o = 1..n
    BY DEF KeptBelow
  <2>1. ASSUME NEW x \in KeptOf(p) PROVE x \in KeptOf(o) \cup a..(b - 1)
    <3>1. PICK i \in 1..m : p[i] = x /\ x >= 0
      BY <1>3 DEF KeptOf, Places
    <3> QED
      BY <1>4, <1>5, <1>6, <2>0, <3>1 DEF KeptOf, Places
  <2>2. ASSUME NEW x \in KeptOf(o) PROVE x \in KeptOf(p)
    <3>1. PICK i \in 1..n : o[i] = x /\ x >= 0
      BY <2>0 DEF KeptOf, Places
    <3> QED
      BY <1>3, <1>6, <3>1 DEF KeptOf, Places
  <2>3. ASSUME NEW x \in a..(b - 1) PROVE x \in KeptOf(p)
    <3>1. x - a + n + 1 \in n + 1..n + (b - a)
      BY <1>1
    <3>2. PICK i \in n + 1..m : i = x - a + n + 1
      BY <3>1 DEF m
    <3>3. p[i] = x /\ x >= 0 /\ i \in 1..m
      BY <1>1, <1>4, <3>2
    <3> QED
      BY <1>3, <3>3 DEF KeptOf, Places
  <2> QED
    BY <2>1, <2>2, <2>3
<1>10. Holes(p) = Holes(o)
  <2>0. DOMAIN o = 1..n
    BY DEF KeptBelow
  <2>1. \A i \in n + 1..m : ~(p[i] < 0)
    BY <1>4
  <2> QED
    BY <1>3, <1>5, <1>6, <2>0, <2>1 DEF Holes
<1> QED
  BY <1>1, <1>3, <1>6, <1>8, <1>9, <1>10 DEF p, m

(* A placeholder leaves what is kept as it is.                             *)
LEMMA Placeheld ==
  ASSUME NEW a \in Nat, NEW b \in Nat, a <= b, NEW o, KeptBelow(o, a), NEW e \in Int, e < 0
  PROVE  LET p == o \o <<e>> IN
         /\ KeptBelow(p, b) /\ Len(p) = Len(o) + 1
         /\ \A i \in 1..Len(o) : p[i] = o[i]
         /\ p[Len(o) + 1] = e
         /\ KeptOf(p) = KeptOf(o)
         /\ Holes(p) = Holes(o) \cup {Len(o) + 1}
<1> DEFINE p == o \o <<e>>
           n == Len(o)
<1>1. n \in Nat /\ n + 1 \in Nat /\ DOMAIN o = 1..n
  BY DEF KeptBelow
<1>2. p \in Seq(Int) /\ Len(p) = n + 1 /\ DOMAIN p = 1..n + 1
      /\ (\A i \in 1..n : p[i] = o[i]) /\ p[n + 1] = e
  BY <1>1 DEF KeptBelow
<1> HIDE DEF p
<1>3. \A i \in 1..n + 1 : i \in 1..n \/ i = n + 1
  BY <1>1
<1>4. \A i \in 1..n : i \in 1..n + 1 /\ o[i] \in Int /\ o[i] < a /\ p[i] = o[i]
  BY <1>1, <1>2 DEF KeptBelow
<1>5. n + 1 \in 1..n + 1
  BY <1>1
<1>6. KeptBelow(p, b)
  <2>1. \A i \in 1..n + 1 : p[i] < b
    BY <1>2, <1>3, <1>4
  <2>2. ASSUME NEW i \in 1..n + 1, NEW k \in 1..n + 1, i < k, p[i] >= 0, p[k] >= 0
        PROVE  p[i] < p[k]
    <3>1. k \in 1..n
      BY <1>2, <1>3, <2>2
    <3>2. i \in 1..n
      BY <1>3, <2>2, <3>1
    <3> QED
      BY <1>4, <2>2, <3>1, <3>2 DEF KeptBelow
  <2> QED
    BY <1>2, <2>1, <2>2 DEF KeptBelow
<1>7. KeptOf(p) = KeptOf(o)
  <2>1. Places(p) = Places(o)
    BY <1>1, <1>2, <1>3, <1>4 DEF Places
  <2>2. \A i \in Places(o) : p[i] = o[i]
    BY <1>1, <1>4 DEF Places
  <2> QED
    BY <2>1, <2>2 DEF KeptOf
<1>8. Holes(p) = Holes(o) \cup {n + 1}
  BY <1>1, <1>2, <1>3, <1>4, <1>5 DEF Holes
<1> QED
  BY <1>2, <1>4, <1>6, <1>7, <1>8 DEF p

Mark(c) == -Redactor!precedence[c] - 1

\* Each span that was taken has its placeholder, and each placeholder is one's.
Marked(o, sp) ==
  \E h \in [1..Len(sp) -> 1..Len(o)] :
    /\ \A i, k \in 1..Len(sp) : i # k => h[i] # h[k]
    /\ \A i \in 1..Len(sp) : o[h[i]] = Mark(sp[i].category)
    /\ \A x \in Holes(o) : \E i \in 1..Len(sp) : h[i] = x

\* What holds when the first k spans of s were looked at.
Passed(bytes, S, s, k, p) ==
  /\ p \in [cursor : Nat, out : Seq(Int), spans : Seq(S)]
  /\ p.cursor \in 0..bytes
  /\ KeptBelow(p.out, p.cursor)
  /\ \A x \in 0..p.cursor - 1 :
       x \in KeptOf(p.out) \/ \E j \in 1..k : x \in s[j].start..s[j].end - 1
  /\ \A j \in 1..k : s[j].start < p.cursor /\ s[j].start \notin KeptOf(p.out)
  /\ \/ p.cursor = 0
     \/ \E j \in 1..k : /\ p.cursor = s[j].end
                        /\ \A x \in s[j].start..p.cursor - 1 : x \notin KeptOf(p.out)
  /\ Marked(p.out, p.spans)

(* A set that is matched with another is as large.                         *)
LEMMA SameSize ==
  ASSUME NEW A, NEW B, IsFiniteSet(A), NEW h \in [A -> B],
         \A i, k \in A : i # k => h[i] # h[k], \A x \in B : \E i \in A : h[i] = x
  PROVE  Cardinality(A) = Cardinality(B)
<1>1. h \in Surjection(A, B)
  BY DEF Surjection
<1>2. h \in Injection(A, B)
  BY DEF Injection, IsInjective
<1> QED
  BY <1>1, <1>2, FS_Surjection

(* A mark is below the places, and tells its category.                     *)
LEMMA MarkIs ==
  /\ \A c \in Kinds : Mark(c) \in Int /\ Mark(c) < 0
  /\ \A c, d \in Kinds : Mark(c) = Mark(d) => c = d
<1>1. \A c \in Kinds : Redactor!precedence[c] \in Nat
  BY KindsAre
<1>2. \A c, d \in Kinds : Redactor!precedence[c] = Redactor!precedence[d] => c = d
  BY KindsAre
<1>3. \A c \in Kinds : Mark(c) \in Int /\ Mark(c) < 0
  BY <1>1 DEF Mark
<1>4. ASSUME NEW c \in Kinds, NEW d \in Kinds, Mark(c) = Mark(d) PROVE c = d
  <2>1. Redactor!precedence[c] = Redactor!precedence[d]
    BY <1>1, <1>4 DEF Mark
  <2> QED
    BY <1>2, <2>1
<1> QED
  BY <1>3, <1>4

(* So the spans are as many as the placeholders, of each category.         *)
LEMMA MarkedIsCounted ==
  ASSUME NEW bytes \in Nat, NEW S \in SUBSET SpansIn(bytes),
         NEW o \in Seq(Int), NEW sp \in Seq(S), Marked(o, sp)
  PROVE  /\ Len(sp) = Cardinality(Holes(o))
         /\ \A c \in Kinds : Cardinality({i \in DOMAIN sp : sp[i].category = c})
                             = Cardinality({i \in DOMAIN o : o[i] = Mark(c)})
<1>1. PICK h \in [1..Len(sp) -> 1..Len(o)] :
           /\ \A i, k \in 1..Len(sp) : i # k => h[i] # h[k]
           /\ \A i \in 1..Len(sp) : o[h[i]] = Mark(sp[i].category)
           /\ \A x \in Holes(o) : \E i \in 1..Len(sp) : h[i] = x
  BY DEF Marked
<1>2. DOMAIN sp = 1..Len(sp) /\ DOMAIN o = 1..Len(o) /\ Len(sp) \in Nat
  OBVIOUS
<1>3. IsFiniteSet(1..Len(sp)) /\ Cardinality(1..Len(sp)) = Len(sp)
  <2>1. \A n \in Nat : IsFiniteSet(1..n) /\ Cardinality(1..n) = n
    BY FS_Interval
  <2> QED
    BY <1>2, <2>1
<1>4. \A i \in 1..Len(sp) : sp[i].category \in Kinds
  <2>1. \A i \in 1..Len(sp) : sp[i] \in SpansIn(bytes)
    OBVIOUS
  <2> QED
    BY <2>1 DEF SpansIn
<1>5. Len(sp) = Cardinality(Holes(o))
  <2>1. \A i \in 1..Len(sp) : h[i] \in Holes(o)
    BY <1>1, <1>2, <1>4, MarkIs DEF Holes
  <2>2. h \in [1..Len(sp) -> Holes(o)]
    BY <1>1, <2>1
  <2> QED
    BY <1>1, <1>3, <2>2, SameSize
<1>6. ASSUME NEW c \in Kinds
      PROVE  Cardinality({i \in DOMAIN sp : sp[i].category = c})
             = Cardinality({i \in DOMAIN o : o[i] = Mark(c)})
  <2> DEFINE A == {i \in DOMAIN sp : sp[i].category = c}
             B == {i \in DOMAIN o : o[i] = Mark(c)}
             g == [i \in A |-> h[i]]
  <2>1. IsFiniteSet(A)
    BY <1>2, <1>3, FS_Subset
  <2>2. \A i \in A : i \in 1..Len(sp) /\ h[i] \in B
    BY <1>1, <1>2
  <2>3. ASSUME NEW x \in B PROVE \E i \in A : h[i] = x
    <3>1. x \in Holes(o)
      BY MarkIs DEF Holes
    <3>2. PICK i \in 1..Len(sp) : h[i] = x
      BY <1>1, <3>1
    <3>3. Mark(sp[i].category) = Mark(c)
      BY <1>1, <3>2
    <3>4. sp[i].category = c
      BY <1>4, <3>3, MarkIs
    <3> QED
      BY <1>2, <3>2, <3>4
  <2> HIDE DEF A, B
  <2>4. g \in [A -> B] /\ \A i \in A : g[i] = h[i]
    BY <2>2
  <2> HIDE DEF g
  <2>5. \A i, k \in A : i # k => g[i] # g[k]
    BY <1>1, <2>2, <2>4
  <2>6. \A x \in B : \E i \in A : g[i] = x
    BY <2>3, <2>4
  <2>7. Cardinality(A) = Cardinality(B)
    BY <2>1, <2>4, <2>5, <2>6, SameSize
  <2> QED
    BY <2>7 DEF A, B
<1> QED
  BY <1>5, <1>6

(* A span that is taken is marked.                                         *)
LEMMA OneMoreMarked ==
  ASSUME NEW o \in Seq(Int), NEW sp, NEW c, Marked(o, sp),
         NEW p, Len(p) = Len(o) + 1, \A i \in 1..Len(o) : p[i] = o[i],
         p[Len(o) + 1] = Mark(c), Holes(p) = Holes(o) \cup {Len(o) + 1},
         NEW sq, Len(sq) = Len(sp) + 1, Len(sp) \in Nat,
         \A i \in 1..Len(sp) : sq[i] = sp[i], sq[Len(sp) + 1].category = c
  PROVE  Marked(p, sq)
<1> DEFINE n == Len(o)
           m == Len(sp)
<1>1. n \in Nat /\ m \in Nat
  OBVIOUS
<1>2. PICK h \in [1..m -> 1..n] :
           /\ \A i, k \in 1..m : i # k => h[i] # h[k]
           /\ \A i \in 1..m : o[h[i]] = Mark(sp[i].category)
           /\ \A x \in Holes(o) : \E i \in 1..m : h[i] = x
  BY DEF Marked
<1>3. /\ Len(p) = n + 1 /\ (\A i \in 1..n : p[i] = o[i]) /\ p[n + 1] = Mark(c)
      /\ Holes(p) = Holes(o) \cup {n + 1}
      /\ Len(sq) = m + 1 /\ (\A i \in 1..m : sq[i] = sp[i]) /\ sq[m + 1].category = c
  OBVIOUS
<1> HIDE DEF n, m
<1> DEFINE g == [i \in 1..m + 1 |-> IF i = m + 1 THEN n + 1 ELSE h[i]]
<1>4. \A i \in 1..m + 1 : i = m + 1 \/ i \in 1..m
  BY <1>1
<1>5. m + 1 \in 1..m + 1 /\ (\A i \in 1..m : i \in 1..m + 1 /\ i # m + 1)
      /\ n + 1 \in 1..n + 1 /\ \A i \in 1..n : i \in 1..n + 1 /\ i # n + 1
  BY <1>1
<1>6. g \in [1..m + 1 -> 1..n + 1] /\ g[m + 1] = n + 1 /\ \A i \in 1..m : g[i] = h[i]
  BY <1>4, <1>5
<1> HIDE DEF g
<1>7. \A i, k \in 1..m + 1 : i # k => g[i] # g[k]
  <2>1. \A i \in 1..m : g[i] = h[i] /\ h[i] \in 1..n
    BY <1>6
  <2>2. \A i \in 1..m : g[i] # n + 1
    BY <1>5, <2>1
  <2>3. \A i, k \in 1..m : i # k => g[i] # g[k]
    BY <1>2, <2>1
  <2> QED
    BY <1>4, <1>6, <2>2, <2>3
<1>8. \A i \in 1..m + 1 : p[g[i]] = Mark(sq[i].category)
  <2>1. \A i \in 1..m : g[i] = h[i] /\ h[i] \in 1..n
    BY <1>6
  <2>2. \A i \in 1..m : p[g[i]] = Mark(sq[i].category)
    <3> SUFFICES ASSUME NEW i \in 1..m PROVE p[g[i]] = Mark(sq[i].category)
      OBVIOUS
    <3>1. g[i] \in 1..n /\ g[i] = h[i] /\ sq[i] = sp[i]
      BY <1>3, <2>1
    <3>2. p[g[i]] = o[h[i]]
      BY <1>3, <3>1
    <3> QED
      BY <1>2, <3>1, <3>2
  <2>3. p[g[m + 1]] = Mark(sq[m + 1].category)
    BY <1>3, <1>6
  <2> QED
    BY <1>4, <2>2, <2>3
<1>9. \A x \in Holes(p) : \E i \in 1..m + 1 : g[i] = x
  BY <1>2, <1>3, <1>5, <1>6
<1>10. /\ g \in [1..Len(sq) -> 1..Len(p)]
       /\ \A i, k \in 1..Len(sq) : i # k => g[i] # g[k]
       /\ \A i \in 1..Len(sq) : p[g[i]] = Mark(sq[i].category)
       /\ \A x \in Holes(p) : \E i \in 1..Len(sq) : g[i] = x
  BY <1>3, <1>6, <1>7, <1>8, <1>9
<1> QED
  BY <1>10, Zenon DEF Marked

(* What is kept is below what was reached.                                 *)
LEMMA KeptIsBelow ==
  ASSUME NEW a, NEW o, KeptBelow(o, a)
  PROVE  \A x \in KeptOf(o) : x \in Int /\ x < a
<1> SUFFICES ASSUME NEW x \in KeptOf(o) PROVE x \in Int /\ x < a
  OBVIOUS
<1>1. PICK i \in DOMAIN o : o[i] = x
  BY DEF KeptOf, Places
<1>2. i \in 1..Len(o) /\ o[i] \in Int
  BY <1>1 DEF KeptBelow
<1> QED
  BY <1>1, <1>2 DEF KeptBelow

(* A span is passed over, or taken: what holds goes on to hold.            *)
LEMMA OneMorePassed ==
  ASSUME NEW bytes \in Nat, NEW S \in SUBSET SpansIn(bytes), NEW s \in Seq(S),
         \A i, k \in 1..Len(s) : i < k => s[i].start <= s[k].start,
         NEW k \in Nat, k + 1 <= Len(s), NEW p, Passed(bytes, S, s, k, p)
  PROVE  Passed(bytes, S, s, k + 1, Redactor!Accept(p, s[k + 1]))
<1> DEFINE c == s[k + 1]
           q == Redactor!Accept(p, c)
<1>1. \A j \in 1..k + 1 : s[j] \in S /\ s[j].start <= c.start /\ (j \in 1..k \/ j = k + 1)
  <2>1. \A j \in 1..k + 1 : j \in 1..Len(s) /\ (j < k + 1 \/ j = k + 1)
    OBVIOUS
  <2>2. \A j \in 1..Len(s) : s[j].start \in Nat
    BY DEF SpansIn
  <2> QED
    BY <2>1, <2>2
<1>2. \A d \in S : /\ d.start \in Nat /\ d.end \in Nat /\ d.start < d.end /\ d.end <= bytes
                   /\ d.category \in Kinds
  BY DEF SpansIn
<1>3. c \in S /\ k + 1 \in 1..k + 1 /\ \A j \in 1..k : j \in 1..k + 1
  BY <1>1
<1>4. /\ p \in [cursor : Nat, out : Seq(Int), spans : Seq(S)]
      /\ p.cursor \in 0..bytes
      /\ KeptBelow(p.out, p.cursor)
      /\ \A x \in 0..p.cursor - 1 :
           x \in KeptOf(p.out) \/ \E j \in 1..k : x \in s[j].start..s[j].end - 1
      /\ \A j \in 1..k : s[j].start < p.cursor /\ s[j].start \notin KeptOf(p.out)
      /\ \/ p.cursor = 0
         \/ \E j \in 1..k : /\ p.cursor = s[j].end
                            /\ \A x \in s[j].start..p.cursor - 1 : x \notin KeptOf(p.out)
      /\ Marked(p.out, p.spans)
  BY DEF Passed
<1>5. CASE c.start < p.cursor
  <2>1. q = p
    BY <1>5 DEF Redactor!Accept
  <2>2. c.start \notin KeptOf(p.out)
    <3>1. PICK j \in 1..k : /\ p.cursor = s[j].end
                            /\ \A x \in s[j].start..p.cursor - 1 : x \notin KeptOf(p.out)
      <4>1. p.cursor # 0
        BY <1>2, <1>3, <1>5
      <4> QED
        BY <1>4, <4>1
    <3>2. s[j].start <= c.start /\ s[j] \in S
      BY <1>1, <1>3
    <3>3. c.start \in s[j].start..p.cursor - 1
      BY <1>2, <1>3, <1>4, <1>5, <3>2
    <3> QED
      BY <3>1, <3>3
  <2>3. \A j \in 1..k + 1 : s[j].start < p.cursor /\ s[j].start \notin KeptOf(p.out)
    BY <1>1, <1>4, <1>5, <2>2
  <2>4. \A x \in 0..p.cursor - 1 :
           x \in KeptOf(p.out) \/ \E j \in 1..k + 1 : x \in s[j].start..s[j].end - 1
    BY <1>3, <1>4
  <2>5. \/ p.cursor = 0
        \/ \E j \in 1..k + 1 : /\ p.cursor = s[j].end
                               /\ \A x \in s[j].start..p.cursor - 1 : x \notin KeptOf(p.out)
    BY <1>3, <1>4
  <2>6. Passed(bytes, S, s, k + 1, p)
    BY <1>4, <2>3, <2>4, <2>5 DEF Passed
  <2> QED
    BY <2>1, <2>6
<1>6. CASE ~(c.start < p.cursor)
  <2> DEFINE o == Stretch(p.out, p.cursor, c.start)
             e == Mark(c.category)
             o2 == o \o <<e>>
             sp == Append(p.spans, c)
  <2>1. q = [cursor |-> c.end, out |-> o2, spans |-> sp]
    BY <1>6 DEF Redactor!Accept, Mark, Stretch
  <2>2. p.cursor \in Nat /\ c.start \in Nat /\ p.cursor <= c.start /\ c.end \in Nat
        /\ c.start < c.end /\ c.end <= bytes /\ c.category \in Kinds
    BY <1>2, <1>3, <1>4, <1>6
  <2>3. /\ KeptBelow(o, c.start) /\ Len(o) >= Len(p.out)
        /\ \A i \in 1..Len(p.out) : o[i] = p.out[i]
        /\ KeptOf(o) = KeptOf(p.out) \cup p.cursor..(c.start - 1)
        /\ Holes(o) = Holes(p.out)
    <3>1. KeptBelow(p.out, p.cursor)
      BY <1>4
    <3> HIDE DEF c
    <3> QED
      <4>1. KeptBelow(o, c.start)
        BY <2>2, <3>1, Stretched
      <4>2. Len(o) >= Len(p.out)
        BY <2>2, <3>1, Stretched
      <4>3. \A i \in 1..Len(p.out) : o[i] = p.out[i]
        <5>1. PICK a \in Nat : a = p.cursor
          BY <2>2
        <5>2. PICK b \in Nat : b = c.start
          BY <2>2
        <5>3. PICK u : u = p.out
          OBVIOUS
        <5>4. a <= b /\ KeptBelow(u, a)
          BY <2>2, <3>1, <5>1, <5>2, <5>3
        <5>5. \A i \in 1..Len(u) : Stretch(u, a, b)[i] = u[i]
          BY ONLY <5>4, Stretched
        <5> QED
          BY <5>1, <5>2, <5>3, <5>5
      <4>4. KeptOf(o) = KeptOf(p.out) \cup p.cursor..(c.start - 1)
        BY <2>2, <3>1, Stretched
      <4>5. Holes(o) = Holes(p.out)
        BY <2>2, <3>1, Stretched
      <4> QED
        BY <4>1, <4>2, <4>3, <4>4, <4>5
  <2> HIDE DEF o
  <2>4. e \in Int /\ e < 0
    BY <2>2, MarkIs
  <2>5. /\ KeptBelow(o2, c.end) /\ Len(o2) = Len(o) + 1
        /\ \A i \in 1..Len(o) : o2[i] = o[i]
        /\ o2[Len(o) + 1] = e
        /\ KeptOf(o2) = KeptOf(o)
        /\ Holes(o2) = Holes(o) \cup {Len(o) + 1}
    <3> HIDE DEF e
    <3>1. c.start <= c.end
      BY <2>2
    <3>2. PICK a \in Nat : a = c.start
      BY <2>2
    <3>3. PICK b \in Nat : b = c.end
      BY <2>2
    <3>4. PICK u : u = o
      OBVIOUS
    <3>5. PICK x \in Int : x = e /\ x < 0
      BY <2>4
    <3>6. a <= b /\ KeptBelow(u, a)
      BY <2>3, <3>1, <3>2, <3>3, <3>4
    <3>7. LET v == u \o <<x>> IN
          /\ KeptBelow(v, b) /\ Len(v) = Len(u) + 1
          /\ \A i \in 1..Len(u) : v[i] = u[i]
          /\ v[Len(u) + 1] = x
          /\ KeptOf(v) = KeptOf(u)
          /\ Holes(v) = Holes(u) \cup {Len(u) + 1}
      BY ONLY <3>5, <3>6, Placeheld
    <3> QED
      BY <3>3, <3>4, <3>5, <3>7, Zenon
  <2> HIDE DEF o2, sp
  <2>6. sp \in Seq(S) /\ Len(sp) = Len(p.spans) + 1 /\ Len(p.spans) \in Nat
        /\ (\A i \in 1..Len(p.spans) : sp[i] = p.spans[i]) /\ sp[Len(p.spans) + 1] = c
    BY <1>3, <1>4 DEF sp
  <2>7. Marked(o, p.spans)
    <3>1. PICK h \in [1..Len(p.spans) -> 1..Len(p.out)] :
             /\ \A i, j \in 1..Len(p.spans) : i # j => h[i] # h[j]
             /\ \A i \in 1..Len(p.spans) : p.out[h[i]] = Mark(p.spans[i].category)
             /\ \A x \in Holes(p.out) : \E i \in 1..Len(p.spans) : h[i] = x
      BY <1>4 DEF Marked
    <3>2. Len(p.out) \in Nat /\ Len(o) \in Nat
      BY <1>4, <2>3 DEF KeptBelow
    <3>3. \A i \in 1..Len(p.out) : i \in 1..Len(o)
      BY <2>3, <3>2
    <3>4. h \in [1..Len(p.spans) -> 1..Len(o)]
      BY <3>1, <3>3
    <3>5. \A i \in 1..Len(p.spans) : o[h[i]] = Mark(p.spans[i].category)
      BY <2>3, <3>1
    <3> QED
      BY <2>3, <3>1, <3>4, <3>5 DEF Marked
  <2>8. Marked(o2, sp)
    <3>1. o \in Seq(Int) /\ sp[Len(p.spans) + 1].category = c.category
      BY <2>3, <2>6 DEF KeptBelow
    <3> QED
      BY <2>5, <2>6, <2>7, <3>1, OneMoreMarked
  <2>9. KeptOf(o2) = KeptOf(p.out) \cup p.cursor..(c.start - 1)
    BY <2>3, <2>5
  <2> HIDE DEF c
  <2>10. \A x \in 0..c.end - 1 :
           x \in KeptOf(o2) \/ \E j \in 1..k + 1 : x \in s[j].start..s[j].end - 1
    <3> SUFFICES ASSUME NEW x \in 0..c.end - 1, x \notin KeptOf(o2)
                 PROVE  \E j \in 1..k + 1 : x \in s[j].start..s[j].end - 1
      OBVIOUS
    <3>1. x \in 0..p.cursor - 1 \/ x \in p.cursor..(c.start - 1) \/ x \in c.start..c.end - 1
      BY <2>2
    <3>2. CASE x \in 0..p.cursor - 1
      BY <1>3, <1>4, <2>9, <3>2
    <3>3. CASE x \in c.start..c.end - 1
      BY <1>3, <3>3 DEF c
    <3> QED
      BY <2>9, <3>1, <3>2, <3>3
  <2>11. c.start \notin KeptOf(o2)
    <3>1. \A x \in KeptOf(p.out) : x < p.cursor /\ x \in Int
      BY <1>4, KeptIsBelow
    <3>2. c.start \notin KeptOf(p.out)
      BY <2>2, <3>1
    <3> QED
      BY <2>2, <2>9, <3>2
  <2>12. \A j \in 1..k + 1 : s[j].start < c.end /\ s[j].start \notin KeptOf(o2)
    <3>1. ASSUME NEW j \in 1..k PROVE s[j].start < c.end /\ s[j].start \notin KeptOf(o2)
      <4>1. s[j].start < p.cursor /\ s[j].start \notin KeptOf(p.out) /\ s[j].start \in Nat
        BY <1>1, <1>2, <1>3, <1>4
      <4> QED
        BY <2>2, <2>9, <4>1
    <3>2. s[k + 1].start < c.end /\ s[k + 1].start \notin KeptOf(o2)
      BY <2>2, <2>11 DEF c
    <3> QED
      BY <1>1, <3>1, <3>2
  <2>13. \E j \in 1..k + 1 : /\ c.end = s[j].end
                             /\ \A x \in s[j].start..c.end - 1 : x \notin KeptOf(o2)
    <3>1. \A x \in KeptOf(p.out) : x < p.cursor /\ x \in Int
      BY <1>4, KeptIsBelow
    <3>2. \A x \in c.start..c.end - 1 : x \notin KeptOf(o2)
      BY <2>2, <2>9, <3>1
    <3> QED
      BY <1>3, <3>2 DEF c
  <2>14. [cursor |-> c.end, out |-> o2, spans |-> sp] \in [cursor : Nat, out : Seq(Int), spans : Seq(S)]
    BY <2>2, <2>5, <2>6 DEF KeptBelow
  <2>15. c.end \in 0..bytes
    BY <2>2
  <2> DEFINE r == [cursor |-> c.end, out |-> o2, spans |-> sp]
  <2>16. r.cursor = c.end /\ r.out = o2 /\ r.spans = sp /\ r \in [cursor : Nat, out : Seq(Int), spans : Seq(S)]
    BY <2>14
  <2> HIDE DEF r
  <2>17. Passed(bytes, S, s, k + 1, r)
    BY <2>5, <2>8, <2>10, <2>12, <2>13, <2>15, <2>16 DEF Passed
  <2> QED
    BY <2>1, <2>17 DEF r, c
<1> QED
  BY <1>5, <1>6

Untouched == [cursor |-> 0, out |-> << >>, spans |-> << >>]

\* The states of the pass over s, span by span.
Rounds(f, s) ==
  /\ Redactor!Pass(s) = f[Len(s)] /\ f[0] = Untouched
  /\ \A k \in 1..Len(s) : f[k] = Redactor!Accept(f[k - 1], s[k])

(* A span leaves a state as the states are.                                *)
LEMMA AcceptKeeps ==
  ASSUME NEW bytes \in Nat, NEW S \in SUBSET SpansIn(bytes),
         NEW p \in [cursor : Nat, out : Seq(Int), spans : Seq(S)], NEW c \in S
  PROVE  Redactor!Accept(p, c) \in [cursor : Nat, out : Seq(Int), spans : Seq(S)]
<1> DEFINE w == [i \in 1..c.start - p.cursor |-> p.cursor + i - 1]
           e == -Redactor!precedence[c.category] - 1
<1>1. c.start \in Nat /\ c.end \in Nat /\ c.category \in Kinds
  BY DEF SpansIn
<1>2. CASE c.start < p.cursor
  BY <1>2 DEF Redactor!Accept
<1>3. CASE ~(c.start < p.cursor)
  <2>1. p.cursor \in Nat /\ p.out \in Seq(Int) /\ p.spans \in Seq(S)
    OBVIOUS
  <2>2. w \in Seq(Int)
    <3>1. c.start - p.cursor \in Nat
      BY <1>1, <1>3, <2>1
    <3>2. w \in [1..c.start - p.cursor -> Int]
      BY <1>1, <2>1
    <3> HIDE DEF w
    <3>3. \A d \in Nat : [1..d -> Int] \subseteq Seq(Int)
      OBVIOUS
    <3> QED
      BY <3>1, <3>2, <3>3
  <2>3. e \in Int
    BY <1>1, MarkIs DEF Mark
  <2> DEFINE o == p.out \o w \o <<e>>
             sp == Append(p.spans, c)
  <2>4. Redactor!Accept(p, c) = [cursor |-> c.end, out |-> o, spans |-> sp]
    BY <1>3 DEF Redactor!Accept
  <2>5. o \in Seq(Int)
    <3> HIDE DEF w, e
    <3>1. p.out \o w \in Seq(Int) /\ <<e>> \in Seq(Int)
      BY <2>1, <2>2, <2>3, ConcatProperties
    <3> QED
      BY <3>1, ConcatProperties
  <2>6. sp \in Seq(S)
    BY <2>1
  <2> HIDE DEF o, sp
  <2> QED
    BY <1>1, <2>4, <2>5, <2>6
<1> QED
  BY <1>2, <1>3

(* The rounds of the pass.                                                 *)
LEMMA PassSteps ==
  ASSUME NEW bytes \in Nat, NEW S \in SUBSET SpansIn(bytes), NEW s \in Seq(S)
  PROVE  \E f : Rounds(f, s)
<1> DEFINE n == Len(s)
           T == [cursor : Nat, out : Seq(Int), spans : Seq(S)]
           dom == DOMAIN s
           step == [p \in T \X dom |-> Redactor!Accept(p[1], s[p[2]])]
           D(g, t) == IF t = {} THEN Untouched
                      ELSE Redactor!Accept(g[t \ {Max(t)}], s[Max(t)])
           IsF(g) == g = [t \in SUBSET dom |-> D(g, t)]
           F == CHOOSE g : IsF(g)
<1>1. n \in Nat /\ dom = 1..n /\ Untouched \in T /\ \A k \in dom : s[k] \in S
  <2>1. << >> \in Seq(Int) /\ << >> \in Seq(S)
    OBVIOUS
  <2> QED
    BY <2>1 DEF Untouched
<1>2. \A t \in T, k \in dom :
        step[<<t, k>>] = Redactor!Accept(t, s[k]) /\ step[<<t, k>>] \in T
  <2>1. \A t \in T, k \in dom : step[<<t, k>>] = Redactor!Accept(t, s[k])
    OBVIOUS
  <2>2. \A t \in T, k \in dom : Redactor!Accept(t, s[k]) \in T
    BY <1>1, AcceptKeeps
  <2> QED
    BY <2>1, <2>2
<1>3. ASSUME NEW g, g = [t \in SUBSET dom |-> g[t]], g[{}] = Untouched,
             \A t \in SUBSET dom :
               /\ t # {} => g[t] = step[<<g[t \ {Max(t)}], Max(t)>>]
               /\ g[t] \in T
      PROVE  IsF(g)
  <2> HIDE DEF step, T
  <2>1. ASSUME NEW t \in SUBSET dom, t # {}
        PROVE  step[<<g[t \ {Max(t)}], Max(t)>>] = D(g, t)
    <3>1. Max(t) \in dom /\ g[t \ {Max(t)}] \in T
      BY <1>1, <1>3, <2>1, MaxIn
    <3> QED
      BY <1>2, <2>1, <3>1
  <2>2. \A t \in SUBSET dom : g[t] = D(g, t)
    BY <1>3, <2>1
  <2> HIDE DEF D
  <2> QED
    BY <1>3, <2>2
<1>4. F = [t \in SUBSET dom |-> D(F, t)]
  <2> HIDE DEF step, T, n
  <2>0. step \in [T \X (1..n) -> T]
    BY <1>1, <1>2 DEF step
  <2> HIDE DEF dom
  <2>1. \E g : /\ g = [t \in SUBSET (1..n) |-> g[t]]
               /\ g[{}] = Untouched
               /\ \A t \in SUBSET (1..n) :
                    /\ t # {} => g[t] = step[<<g[t \ {Max(t)}], Max(t)>>]
                    /\ g[t] \in T
    <3>1. \A b \in T, st \in [T \X (1..n) -> T] :
            \E g : /\ g = [t \in SUBSET (1..n) |-> g[t]]
                   /\ g[{}] = b
                   /\ \A t \in SUBSET (1..n) :
                        /\ t # {} => g[t] = st[<<g[t \ {Max(t)}], Max(t)>>]
                        /\ g[t] \in T
      BY <1>1, FoldExists
    <3> QED
      BY ZenonT(40), <1>1, <2>0, <3>1
  <2> HIDE DEF IsF
  <2>2. \E g : IsF(g)
    BY <1>1, <1>3, <2>1
  <2>3. IsF(F)
    BY <2>2
  <2> QED
    BY <2>3 DEF IsF
<1>5. Redactor!Pass(s) = F[dom]
  <2>1. \A t : Redactor!Max(t) = Max(t)
    BY DEF Redactor!Max, Max
  <2> HIDE DEF T, n
  <2> QED
    BY <2>1 DEF Redactor!Pass, Redactor!FoldLeft, Redactor!MapThenFoldSet, Untouched
<1> HIDE DEF F, step, T
<1> DEFINE f == [k \in 0..n |-> F[1..k]]
<1>6. f[0] = Untouched /\ f[n] = F[dom]
  <2>1. 1..0 = {} /\ {} \in SUBSET dom /\ 0 \in 0..n /\ n \in 0..n
    BY <1>1
  <2>2. F[{}] = D(F, {})
    BY <1>4, <2>1
  <2> HIDE DEF n, dom
  <2>3. f[0] = F[{}] /\ f[n] = F[1..n]
    BY <2>1
  <2> QED
    BY <1>1, <2>2, <2>3
<1>7. ASSUME NEW k \in 1..n
      PROVE  f[k] = Redactor!Accept(f[k - 1], s[k])
  <2>1. k \in Nat /\ k # 0 /\ 1..k \in SUBSET dom /\ k \in 0..n /\ k - 1 \in 0..n
    BY <1>1
  <2>2. 1..k # {} /\ Max(1..k) = k /\ (1..k) \ {Max(1..k)} = 1..(k - 1)
    BY <2>1, MaxUpTo
  <2>3. F[1..k] = D(F, 1..k)
    BY <1>4, <2>1
  <2> QED
    BY <2>1, <2>2, <2>3
<1> HIDE DEF f
<1> QED
  BY <1>1, <1>5, <1>6, <1>7 DEF Rounds

(* What holds when all of the spans were looked at.                        *)
LEMMA AllPassed ==
  ASSUME NEW bytes \in Nat, NEW S \in SUBSET SpansIn(bytes), NEW s \in Seq(S),
         \A i, k \in 1..Len(s) : i < k => s[i].start <= s[k].start
  PROVE  Passed(bytes, S, s, Len(s), Redactor!Pass(s))
<1> DEFINE n == Len(s)
<1>0. n \in Nat
  OBVIOUS
<1>1. PICK f : Rounds(f, s)
  BY PassSteps, Zenon
<1> DEFINE P == {k \in Nat : k <= n => Passed(bytes, S, s, k, f[k])}
<1>2. 0 \in P
  <2> DEFINE u == Untouched
  <2>1. /\ u \in [cursor : Nat, out : Seq(Int), spans : Seq(S)]
        /\ u.cursor = 0 /\ u.out = << >> /\ u.spans = << >>
    <3>1. << >> \in Seq(Int) /\ << >> \in Seq(S)
      OBVIOUS
    <3> QED
      BY <3>1 DEF Untouched
  <2>2. KeptBelow(<< >>, 0)
    BY DEF KeptBelow
  <2>3. Marked(<< >>, << >>)
    <3>1. Holes(<< >>) = {} /\ Len(<< >>) = 0 /\ 1..0 = {}
      BY DEF Holes
    <3>2. << >> \in [1..0 -> 1..0]
      OBVIOUS
    <3> QED
      BY <3>1, <3>2 DEF Marked
  <2> HIDE DEF u
  <2>4. Passed(bytes, S, s, 0, u)
    BY <2>1, <2>2, <2>3 DEF Passed
  <2>5. f[0] = u
    BY <1>1 DEF Rounds, u
  <2> QED
    BY <2>4, <2>5
<1>3. ASSUME NEW k \in P PROVE k + 1 \in P
  <2> SUFFICES ASSUME k + 1 <= n PROVE Passed(bytes, S, s, k + 1, f[k + 1])
    OBVIOUS
  <2>1. k \in Nat /\ k <= n /\ k + 1 \in 1..n /\ (k + 1) - 1 = k
    BY <1>0
  <2>2. Passed(bytes, S, s, k, f[k])
    BY <2>1
  <2>3. f[k + 1] = Redactor!Accept(f[k], s[k + 1])
    BY <1>1, <2>1 DEF Rounds
  <2> HIDE DEF P
  <2> QED
    BY <2>1, <2>2, <2>3, OneMorePassed
<1> HIDE DEF P
<1>4. n \in P
  <2>1. P \in SUBSET Nat
    BY DEF P
  <2> QED
    BY <1>0, <1>2, <1>3, <2>1, Inductive
<1> QED
  BY <1>0, <1>1, <1>4 DEF P, Rounds

\* The sums of the first of some numbers.
Sums(f, w) ==
  /\ Redactor!FoldLeft(+, 0, w) = f[Len(w)] /\ f[0] = 0
  /\ \A k \in 1..Len(w) : f[k] = f[k - 1] + w[k] /\ f[k] \in Int

(* The rounds of a sum.                                                    *)
LEMMA SumSteps ==
  ASSUME NEW w \in Seq(Int)
  PROVE  \E f : Sums(f, w)
<1> DEFINE n == Len(w)
           dom == DOMAIN w
           step == [p \in Int \X dom |-> p[1] + w[p[2]]]
           D(g, t) == IF t = {} THEN 0 ELSE g[t \ {Max(t)}] + w[Max(t)]
           IsF(g) == g = [t \in SUBSET dom |-> D(g, t)]
           F == CHOOSE g : IsF(g)
<1>1. n \in Nat /\ dom = 1..n /\ \A k \in dom : w[k] \in Int
  OBVIOUS
<1>2. \A t \in Int, k \in dom : step[<<t, k>>] = t + w[k] /\ step[<<t, k>>] \in Int
  OBVIOUS
<1>3. ASSUME NEW g, g = [t \in SUBSET dom |-> g[t]], g[{}] = 0,
             \A t \in SUBSET dom :
               /\ t # {} => g[t] = step[<<g[t \ {Max(t)}], Max(t)>>]
               /\ g[t] \in Int
      PROVE  IsF(g) /\ \A t \in SUBSET dom : g[t] \in Int
  <2> HIDE DEF step
  <2>1. ASSUME NEW t \in SUBSET dom, t # {}
        PROVE  step[<<g[t \ {Max(t)}], Max(t)>>] = D(g, t)
    <3>1. Max(t) \in dom /\ g[t \ {Max(t)}] \in Int
      BY <1>1, <1>3, <2>1, MaxIn
    <3> QED
      BY <1>2, <2>1, <3>1
  <2>2. \A t \in SUBSET dom : g[t] = D(g, t)
    BY <1>3, <2>1
  <2> HIDE DEF D
  <2> QED
    BY <1>3, <2>2
<1>4. F = [t \in SUBSET dom |-> D(F, t)]
  <2> HIDE DEF step, n
  <2>0. step \in [Int \X (1..n) -> Int]
    BY <1>1, <1>2 DEF step
  <2> HIDE DEF dom
  <2>1. \E g : /\ g = [t \in SUBSET (1..n) |-> g[t]]
               /\ g[{}] = 0
               /\ \A t \in SUBSET (1..n) :
                    /\ t # {} => g[t] = step[<<g[t \ {Max(t)}], Max(t)>>]
                    /\ g[t] \in Int
    <3>1. \A b \in Int, st \in [Int \X (1..n) -> Int] :
            \E g : /\ g = [t \in SUBSET (1..n) |-> g[t]]
                   /\ g[{}] = b
                   /\ \A t \in SUBSET (1..n) :
                        /\ t # {} => g[t] = st[<<g[t \ {Max(t)}], Max(t)>>]
                        /\ g[t] \in Int
      BY <1>1, FoldExists
    <3>2. 0 \in Int
      OBVIOUS
    <3> QED
      BY ZenonT(40), <2>0, <3>1, <3>2
  <2> HIDE DEF IsF
  <2>2. \E g : IsF(g)
    BY <1>1, <1>3, <2>1
  <2>3. IsF(F)
    BY <2>2
  <2> QED
    BY <2>3 DEF IsF
<1>5. Redactor!FoldLeft(+, 0, w) = F[dom]
  <2>1. \A t : Redactor!Max(t) = Max(t)
    BY DEF Redactor!Max, Max
  <2>2. \A x, y : x + y = x + y
    OBVIOUS
  <2> HIDE DEF n
  <2> QED
    BY <2>1 DEF Redactor!FoldLeft, Redactor!MapThenFoldSet
<1> HIDE DEF F, step
<1> DEFINE f == [k \in 0..n |-> F[1..k]]
<1>6. f[0] = 0 /\ f[n] = F[dom]
  <2>1. 1..0 = {} /\ {} \in SUBSET dom /\ 0 \in 0..n /\ n \in 0..n
    BY <1>1
  <2>2. F[{}] = D(F, {})
    BY <1>4, <2>1
  <2> HIDE DEF n, dom
  <2>3. f[0] = F[{}] /\ f[n] = F[1..n]
    BY <2>1
  <2> QED
    BY <1>1, <2>2, <2>3
<1>7. ASSUME NEW k \in 1..n PROVE f[k] = f[k - 1] + w[k]
  <2>1. k \in Nat /\ k # 0 /\ 1..k \in SUBSET dom /\ k \in 0..n /\ k - 1 \in 0..n
    BY <1>1
  <2>2. 1..k # {} /\ Max(1..k) = k /\ (1..k) \ {Max(1..k)} = 1..(k - 1)
    BY <2>1, MaxUpTo
  <2>3. F[1..k] = D(F, 1..k)
    BY <1>4, <2>1
  <2> QED
    BY <2>1, <2>2, <2>3
<1> HIDE DEF f
<1> DEFINE P == {k \in Nat : k <= n => f[k] \in Int}
<1>8. n \in P /\ \A k \in 0..n : f[k] \in Int
  <2>1. 0 \in P
    BY <1>6
  <2>2. ASSUME NEW k \in P PROVE k + 1 \in P
    <3> SUFFICES ASSUME k + 1 <= n PROVE f[k + 1] \in Int
      OBVIOUS
    <3>1. k + 1 \in 1..n /\ (k + 1) - 1 = k /\ f[k] \in Int
      BY <1>1
    <3> QED
      BY <1>1, <1>7, <3>1
  <2>3. P = Nat
    <3>1. P \in SUBSET Nat
      OBVIOUS
    <3> HIDE DEF P
    <3> QED
      BY <2>1, <2>2, <3>1, Inductive
  <2> QED
    BY <1>1, <2>3
<1>9. \A k \in 1..n : f[k] \in Int
  BY <1>1, <1>8
<1> QED
  BY <1>1, <1>5, <1>6, <1>7, <1>9 DEF Sums

Total(w) == Redactor!FoldLeft(+, 0, w)
Doubled(d) == IF 2 * d > 9 THEN 2 * d - 9 ELSE 2 * d
Worths(ds) == [i \in 1..Len(ds) |-> IF (Len(ds) - i) % 2 = 0 THEN ds[i] ELSE Doubled(ds[i])]

(* A sum moves as one of its numbers does.                                 *)
LEMMA SumMoves ==
  ASSUME NEW w \in Seq(Int), NEW v \in Seq(Int), Len(v) = Len(w), NEW i \in 1..Len(w),
         \A k \in 1..Len(w) : k # i => v[k] = w[k]
  PROVE  Total(w) \in Int /\ Total(v) = Total(w) + (v[i] - w[i])
<1> DEFINE n == Len(w)
<1>0. n \in Nat
  OBVIOUS
<1>1. PICK f : Sums(f, w)
  BY SumSteps, Zenon
<1>2. PICK g : Sums(g, v)
  BY SumSteps, Zenon
<1>3. \A k \in 1..n : /\ w[k] \in Int /\ v[k] \in Int /\ f[k] \in Int /\ g[k] \in Int
                      /\ f[k] = f[k - 1] + w[k] /\ g[k] = g[k - 1] + v[k]
  <2>1. \A k \in 1..Len(w) : f[k] = f[k - 1] + w[k] /\ f[k] \in Int
    BY <1>1 DEF Sums
  <2>2. \A k \in 1..Len(v) : g[k] = g[k - 1] + v[k] /\ g[k] \in Int
    BY <1>2 DEF Sums
  <2>3. \A k \in 1..n : w[k] \in Int /\ v[k] \in Int
    OBVIOUS
  <2> QED
    BY <2>1, <2>2, <2>3
<1>4. f[0] = 0 /\ g[0] = 0
  BY <1>1, <1>2 DEF Sums
<1>5. \A k \in 0..n : f[k] \in Int /\ g[k] \in Int
  BY <1>0, <1>3, <1>4
<1> DEFINE P == {k \in Nat : k <= n => g[k] = f[k] + (IF k < i THEN 0 ELSE v[i] - w[i])}
<1>6. 0 \in P
  BY <1>4
<1>7. ASSUME NEW k \in P PROVE k + 1 \in P
  <2> SUFFICES ASSUME k + 1 <= n
               PROVE  g[k + 1] = f[k + 1] + (IF k + 1 < i THEN 0 ELSE v[i] - w[i])
    OBVIOUS
  <2>1. k + 1 \in 1..n /\ (k + 1) - 1 = k /\ k \in 0..n /\ k <= n
    BY <1>0
  <2>2. g[k] = f[k] + (IF k < i THEN 0 ELSE v[i] - w[i])
    BY <2>1
  <2>3. f[k + 1] = f[k] + w[k + 1] /\ g[k + 1] = g[k] + v[k + 1]
    BY <1>3, <2>1
  <2>4. /\ f[k] \in Int /\ g[k] \in Int /\ w[k + 1] \in Int /\ v[k + 1] \in Int
        /\ w[i] \in Int /\ v[i] \in Int
    BY <1>3, <1>5, <2>1
  <2> HIDE DEF P
  <2>5. CASE k + 1 = i
    <3>1. g[k] = f[k] + 0
      BY <2>1, <2>2, <2>4, <2>5
    <3>2. f[k + 1] = f[k] + w[i] /\ g[k + 1] = g[k] + v[i] /\ ~(k + 1 < i)
      BY <2>1, <2>3, <2>5
    <3>3. g[k + 1] = f[k + 1] + (v[i] - w[i])
      BY <2>4, <3>1, <3>2
    <3> QED
      BY <3>2, <3>3
  <2>6. CASE k + 1 # i
    <3>1. v[k + 1] = w[k + 1]
      BY <2>1, <2>6
    <3>2. (k + 1 < i) <=> (k < i)
      BY <2>1, <2>6
    <3>3. CASE k < i
      BY <2>2, <2>3, <2>4, <3>1, <3>2, <3>3
    <3>4. CASE ~(k < i)
      <4>1. g[k] = f[k] + (v[i] - w[i])
        BY <2>2, <3>4
      <4>2. g[k + 1] = f[k + 1] + (v[i] - w[i])
        BY <2>3, <2>4, <3>1, <4>1
      <4> QED
        BY <3>2, <3>4, <4>2
    <3> QED
      BY <3>3, <3>4
  <2> QED
    BY <2>5, <2>6
<1> HIDE DEF P
<1>8. n \in P
  <2>1. P \in SUBSET Nat
    BY DEF P
  <2> QED
    BY <1>0, <1>6, <1>7, <2>1, Inductive
<1>9. g[n] = f[n] + (v[i] - w[i])
  BY <1>0, <1>8 DEF P
<1>10. Total(w) = f[n] /\ Total(v) = g[n] /\ f[n] \in Int
  <2>1. Redactor!FoldLeft(+, 0, w) = f[Len(w)] /\ Redactor!FoldLeft(+, 0, v) = g[Len(v)]
    BY <1>1, <1>2 DEF Sums
  <2>2. n \in 0..n
    BY <1>0
  <2> QED
    BY <1>5, <2>1, <2>2 DEF Total
<1> QED
  BY <1>9, <1>10

(* A card is valid by the sum of its digits' worths.                       *)
LEMMA LuhnIs ==
  \A ds : Redactor!luhn_valid(ds) <=> Len(ds) \in 13..19 /\ Total(Worths(ds)) % 10 = 0
  BY DEF Redactor!luhn_valid, Total, Worths, Doubled

(* A card with one digit changed is no card.                               *)
LEMMA LuhnTells ==
  ASSUME NEW ds \in Seq(0..9), NEW i \in DOMAIN ds, NEW d \in 0..9, d # ds[i],
         Redactor!luhn_valid(ds)
  PROVE  ~Redactor!luhn_valid([ds EXCEPT ![i] = d])
<1> DEFINE es == [ds EXCEPT ![i] = d]
           n == Len(ds)
           w == Worths(ds)
           v == Worths(es)
<1>1. n \in Nat /\ DOMAIN ds = 1..n /\ \A k \in 1..n : ds[k] \in 0..9
  OBVIOUS
<1>2. es \in Seq(0..9) /\ Len(es) = n /\ es[i] = d /\ \A k \in 1..n : k # i => es[k] = ds[k]
  BY <1>1
<1> HIDE DEF es
<1>3. \A x \in 0..9 : Doubled(x) \in 0..9
  BY DEF Doubled
<1>4. \A x, y \in 0..9 : Doubled(x) = Doubled(y) => x = y
  BY DEF Doubled
<1>5. w = [k \in 1..n |-> IF (n - k) % 2 = 0 THEN ds[k] ELSE Doubled(ds[k])]
      /\ v = [k \in 1..n |-> IF (n - k) % 2 = 0 THEN es[k] ELSE Doubled(es[k])]
  BY <1>2 DEF Worths
<1> HIDE DEF w, v, n
<1>6. \A k \in 1..n : w[k] = (IF (n - k) % 2 = 0 THEN ds[k] ELSE Doubled(ds[k]))
                      /\ v[k] = (IF (n - k) % 2 = 0 THEN es[k] ELSE Doubled(es[k]))
  BY <1>5
<1>7. \A k \in 1..n : w[k] \in 0..9 /\ es[k] \in 0..9 /\ v[k] \in 0..9
  <2>1. \A k \in 1..n : es[k] \in 0..9
    BY <1>1, <1>2
  <2> QED
    BY <1>1, <1>3, <1>6, <2>1
<1>8. w \in Seq(Int) /\ v \in Seq(Int) /\ Len(w) = n /\ Len(v) = n
  <2>1. w \in [1..n -> Int] /\ v \in [1..n -> Int]
    BY <1>5, <1>7
  <2> QED
    BY <1>1, <2>1
<1>9. i \in 1..n /\ v[i] # w[i] /\ \A k \in 1..n : k # i => v[k] = w[k]
  BY <1>1, <1>2, <1>4, <1>6
<1>10. Total(w) \in Int /\ Total(v) = Total(w) + (v[i] - w[i])
  BY <1>8, <1>9, SumMoves
<1>11. Total(w) % 10 = 0
  BY LuhnIs DEF w
<1>12. v[i] \in 0..9 /\ w[i] \in 0..9
  BY <1>7, <1>9
<1>13. Total(v) % 10 # 0
  <2>1. \A t, x, y \in Int : t % 10 = 0 /\ x \in 0..9 /\ y \in 0..9 /\ x # y
                             => (t + (x - y)) % 10 # 0
    OBVIOUS
  <2>2. v[i] \in Int /\ w[i] \in Int
    BY <1>12
  <2>3. (Total(w) + (v[i] - w[i])) % 10 # 0
    BY <1>9, <1>10, <1>11, <1>12, <2>1, <2>2
  <2> QED
    BY <1>10, <2>3
<1> QED
  BY <1>13, LuhnIs DEF v, es

\* What RedactionIsAccounted says of a text and what became of it.
Accounted(text, r) ==
  LET places == {i \in DOMAIN r.redacted : r.redacted[i] >= 0}
      kept   == {r.redacted[i] : i \in places}
      found  == Redactor!Candidates(text, DOMAIN r.counts)
  IN /\ \A i, k \in places : i < k => r.redacted[i] < r.redacted[k]
     /\ kept \subseteq 0..text.bytes - 1
     /\ \A x \in (0..text.bytes - 1) \ kept : \E c \in found : x \in c.start..c.end - 1
     /\ \A c \in found : c.start \notin kept
     /\ r.total = Cardinality(DOMAIN r.redacted \ places)
     /\ \A c \in DOMAIN r.counts :
          r.counts[c] = Cardinality({i \in DOMAIN r.redacted : r.redacted[i] = Mark(c)})
     /\ Cardinality(text.candidates) = 1 =>
          \A c \in text.candidates : \A i \in DOMAIN c.digits : \A d \in 0..9 :
            Redactor!luhn_valid(c.digits) /\ d # c.digits[i]
              => ~Redactor!luhn_valid([c.digits EXCEPT ![i] = d])

\* A text, with what looks like personal data in it.
IsText(text) ==
  /\ text.bytes \in Nat /\ IsFiniteSet(text.candidates)
  /\ text.candidates \subseteq SpansIn(text.bytes)

(* Whatever the text and the types asked for, what is redacted is          *)
(* accounted for.                                                          *)
LEMMA RedactAccounts ==
  ASSUME NEW text, IsText(text), NEW enabled \in SUBSET Kinds
  PROVE  Accounted(text, Redactor!redact(text, enabled))
<1> DEFINE bytes == text.bytes
           S == Redactor!Candidates(text, enabled)
           s == Redactor!InOrder(S)
           st == Redactor!Pass(s)
           o == st.out
           z == Stretch(o, st.cursor, bytes)
           r == Redactor!redact(text, enabled)
           Of(c) == {i \in DOMAIN st.spans : st.spans[i].category = c}
<1>1. bytes \in Nat /\ S \in SUBSET SpansIn(bytes) /\ IsFiniteSet(S)
  <2>1. S \in SUBSET text.candidates
    BY DEF Redactor!Candidates
  <2> HIDE DEF S
  <2> QED
    BY <2>1, FS_Subset DEF IsText
<1>2. r = [redacted |-> z, counts |-> [c \in enabled |-> Cardinality(Of(c))], total |-> Len(st.spans)]
  <2> HIDE DEF S
  <2>1. \A T : Redactor!Cardinality(T) = Cardinality(T)
    BY RedactorCounts
  <2> QED
    BY <2>1 DEF Redactor!redact, Stretch, S
<1> HIDE DEF r, S
<1>3. /\ s \in Seq(S)
      /\ \A i, k \in 1..Len(s) : i < k => s[i].start <= s[k].start
      /\ \A a \in S : \E i \in 1..Len(s) : s[i] = a
  BY <1>1, SpansInOrder
<1> HIDE DEF s
<1>4. Passed(bytes, S, s, Len(s), st)
  BY <1>1, <1>3, AllPassed
<1> HIDE DEF st
<1>5. /\ st.out \in Seq(Int) /\ st.spans \in Seq(S)
      /\ st.cursor \in 0..bytes /\ st.cursor \in Nat /\ st.cursor <= bytes
      /\ KeptBelow(o, st.cursor)
      /\ \A x \in 0..st.cursor - 1 :
           x \in KeptOf(o) \/ \E j \in 1..Len(s) : x \in s[j].start..s[j].end - 1
      /\ \A j \in 1..Len(s) : s[j].start < st.cursor /\ s[j].start \notin KeptOf(o)
      /\ Marked(o, st.spans)
  BY <1>1, <1>4 DEF Passed
<1>6. /\ KeptBelow(z, bytes)
      /\ KeptOf(z) = KeptOf(o) \cup st.cursor..(bytes - 1)
      /\ Holes(z) = Holes(o)
      /\ Len(z) >= Len(o)
  <2>1. bytes \in Nat /\ st.cursor \in Nat /\ st.cursor <= bytes /\ KeptBelow(o, st.cursor)
    BY <1>1, <1>5
  <2> HIDE DEF o, bytes
  <2> QED
    BY <2>1, Stretched
<1>7. \A i \in 1..Len(o) : z[i] = o[i]
  <2>1. PICK a \in Nat : a = st.cursor
    BY <1>5
  <2>2. PICK b \in Nat : b = bytes
    BY <1>1
  <2>3. PICK u : u = o
    OBVIOUS
  <2>4. a <= b /\ KeptBelow(u, a)
    BY <1>5, <2>1, <2>2, <2>3
  <2>5. \A i \in 1..Len(u) : Stretch(u, a, b)[i] = u[i]
    BY ONLY <2>4, Stretched
  <2> QED
    BY <2>1, <2>2, <2>3, <2>5
<1>8. z \in Seq(Int) /\ DOMAIN z = 1..Len(z) /\ DOMAIN o = 1..Len(o) /\ o \in Seq(Int)
      /\ Len(z) \in Nat /\ Len(o) \in Nat
  BY <1>5, <1>6 DEF KeptBelow
<1> HIDE DEF z, o, bytes
<1>9. r.redacted = z /\ DOMAIN r.counts = enabled /\ r.total = Len(st.spans)
      /\ \A c \in enabled : r.counts[c] = Cardinality(Of(c))
  BY <1>2
<1> DEFINE places == Places(z)
           kept == KeptOf(z)
<1>10. \A a \in S : a.start \in Nat /\ a.end \in Nat
  BY <1>1 DEF SpansIn
<1>11. \A i, k \in places : i < k => z[i] < z[k]
  BY <1>6, <1>8 DEF KeptBelow, Places
<1>12. \A x \in kept : x \in 0..bytes - 1
  <2> SUFFICES ASSUME NEW i \in places PROVE z[i] \in 0..bytes - 1
    BY DEF KeptOf
  <2> QED
    BY <1>1, <1>6, <1>8 DEF KeptBelow, Places
<1>13. \A x \in (0..bytes - 1) \ kept : \E c \in S : x \in c.start..c.end - 1
  <2> SUFFICES ASSUME NEW x \in 0..bytes - 1, x \notin KeptOf(o), x \notin st.cursor..(bytes - 1)
               PROVE  \E c \in S : x \in c.start..c.end - 1
    BY <1>6
  <2>1. x \in 0..st.cursor - 1
    BY <1>1, <1>5
  <2>2. PICK j \in 1..Len(s) : x \in s[j].start..s[j].end - 1
    BY <1>5, <2>1
  <2>3. s[j] \in S
    BY <1>3
  <2> QED
    BY <2>2, <2>3
<1>14. \A c \in S : c.start \notin kept
  <2> SUFFICES ASSUME NEW c \in S PROVE c.start \notin KeptOf(o) /\ c.start \notin st.cursor..(bytes - 1)
    BY <1>6
  <2>1. PICK j \in 1..Len(s) : s[j] = c
    BY <1>3
  <2>2. c.start < st.cursor /\ c.start \notin KeptOf(o)
    BY <1>5, <2>1
  <2> QED
    BY <1>5, <1>10, <2>2
<1>15. Len(st.spans) = Cardinality(Holes(o))
       /\ \A c \in Kinds : Cardinality(Of(c)) = Cardinality({i \in DOMAIN o : o[i] = Mark(c)})
  <2>1. o \in Seq(Int) /\ st.spans \in Seq(S) /\ Marked(o, st.spans)
    BY <1>5, <1>8
  <2>2. \A sp \in Seq(S) : Marked(o, sp) =>
          /\ Len(sp) = Cardinality(Holes(o))
          /\ \A c \in Kinds : Cardinality({i \in DOMAIN sp : sp[i].category = c})
                              = Cardinality({i \in DOMAIN o : o[i] = Mark(c)})
    BY <1>1, <2>1, MarkedIsCounted
  <2> QED
    BY <2>1, <2>2
<1>16. Len(st.spans) = Cardinality(DOMAIN z \ places)
  <2>1. DOMAIN z \ places = Holes(z)
    BY <1>8 DEF Places, Holes
  <2> QED
    BY <1>6, <1>15, <2>1
<1>17. \A c \in enabled : Cardinality(Of(c)) = Cardinality({i \in DOMAIN z : z[i] = Mark(c)})
  <2> SUFFICES ASSUME NEW c \in Kinds
               PROVE  {i \in DOMAIN o : o[i] = Mark(c)} = {i \in DOMAIN z : z[i] = Mark(c)}
    BY <1>15
  <2>1. Mark(c) < 0
    BY MarkIs
  <2>2. \A i \in DOMAIN z : z[i] = Mark(c) => i \in Holes(o)
    BY <1>6, <2>1 DEF Holes
  <2>3. Holes(o) \subseteq DOMAIN o /\ DOMAIN o \subseteq DOMAIN z
    BY <1>6, <1>8 DEF Holes
  <2> QED
    BY <1>7, <1>8, <2>2, <2>3
<1>18. \A c \in text.candidates : \A i \in DOMAIN c.digits : \A d \in 0..9 :
            Redactor!luhn_valid(c.digits) /\ d # c.digits[i]
              => ~Redactor!luhn_valid([c.digits EXCEPT ![i] = d])
  <2>1. \A c \in text.candidates : c.digits \in Seq(0..9)
    BY DEF IsText, SpansIn
  <2> QED
    BY <2>1, LuhnTells
<1> DEFINE pl == {i \in DOMAIN r.redacted : r.redacted[i] >= 0}
           kp == {r.redacted[i] : i \in pl}
           found == Redactor!Candidates(text, DOMAIN r.counts)
           marks(c) == {i \in DOMAIN r.redacted : r.redacted[i] = Mark(c)}
<1>19. pl = places /\ kp = kept /\ found = S /\ \A c : marks(c) = {i \in DOMAIN z : z[i] = Mark(c)}
  BY <1>9 DEF Places, KeptOf, S
<1> HIDE DEF places, kept, Of, pl, kp, found, marks
<1>20. \A i, k \in pl : i < k => r.redacted[i] < r.redacted[k]
  BY <1>9, <1>11, <1>19
<1>21. kp \subseteq 0..bytes - 1
  BY <1>12, <1>19
<1>22. \A x \in (0..bytes - 1) \ kp : \E c \in found : x \in c.start..c.end - 1
  BY <1>13, <1>19
<1>23. \A c \in found : c.start \notin kp
  BY <1>14, <1>19
<1>24. r.total = Cardinality(DOMAIN r.redacted \ pl)
  BY <1>9, <1>16, <1>19
<1>25. \A c \in DOMAIN r.counts : r.counts[c] = Cardinality(marks(c))
  BY <1>9, <1>17, <1>19
<1>26. Accounted(text, r)
  BY <1>18, <1>20, <1>21, <1>22, <1>23, <1>24, <1>25, Zenon DEF Accounted, bytes, pl, kp, found, marks
<1> QED
  BY <1>26 DEF r

\* What a text is, and what became of it when it was redacted.
RedactorInv ==
  /\ given \in Texts
  /\ \/ made \in {<< >>, <<{}>>}
     \/ \E enabled \in SUBSET Kinds : made = <<{Redactor!redact(given.text, enabled)}>>

(* What is assumed of the texts.                                           *)
LEMMA TextsAre == \A g \in Texts : IsText(g.text)
<1> SUFFICES ASSUME NEW g \in Texts PROVE IsText(g.text)
  OBVIOUS
<1> DEFINE text == g.text
<1>1. /\ text.bytes \in Nat /\ IsFiniteSet(text.candidates)
      /\ text.candidates \subseteq [start : 0..text.bytes, end : 0..text.bytes,
                                    category : Kinds, digits : Seq(0..9)]
      /\ \A c \in text.candidates : c.start < c.end
  BY TextsAssumption, KindsAre
<1> HIDE DEF text
<1>2. text.candidates \subseteq SpansIn(text.bytes)
  BY <1>1 DEF SpansIn
<1>3. IsText(text)
  BY <1>1, <1>2 DEF IsText
<1> QED
  BY <1>3 DEF text

(* What is redacted so is accounted for.                                   *)
LEMMA RedactorTells ==
  ASSUME RedactorInv
  PROVE  Redactor!RedactionIsAccounted
<1>1. Redactor!Range(<< >>) = {} /\ Redactor!Range(<<{}>>) = {{}}
      /\ \A x : Redactor!Range(<<{x}>>) = {{x}}
  BY DEF Redactor!Range
<1>2. \A results \in Redactor!Range(made) : \A r \in results : Accounted(given.text, r)
  <2>1. ASSUME NEW enabled \in SUBSET Kinds, made = <<{Redactor!redact(given.text, enabled)}>>
        PROVE  \A results \in Redactor!Range(made) : \A r \in results : Accounted(given.text, r)
    <3>1. Accounted(given.text, Redactor!redact(given.text, enabled))
      BY TextsAre, RedactAccounts DEF RedactorInv
    <3>2. Redactor!Range(made) = {{Redactor!redact(given.text, enabled)}}
      BY <1>1, <2>1
    <3> QED
      BY <3>1, <3>2
  <2> QED
    BY <1>1, <2>1 DEF RedactorInv
<1>3. \A T : Redactor!Cardinality(T) = Cardinality(T)
  BY RedactorCounts
<1> QED
  BY <1>2, <1>3, Zenon DEF Redactor!RedactionIsAccounted, Accounted, Mark

(* A text is redacted once.                                                *)
LEMMA RedactorSteps ==
  ASSUME RedactorInv, Redactor!Next
  PROVE  RedactorInv'
<1> DEFINE enabled == Redactor!Enabled(given.types)
           refused == \/ given.text.bytes > MAX_INPUT_BYTES
                      \/ ~(enabled \subseteq Redactor!Range(Redactor!KNOWN_TYPES))
<1>1. /\ given' = given
      /\ made' = <<IF refused THEN {} ELSE {Redactor!redact(given.text, enabled)}>>
  BY DEF Redactor!Next, Redactor!Redact
<1>2. ~refused => enabled \in SUBSET Kinds
  BY KindsAre
<1> HIDE DEF refused, enabled
<1>3. CASE refused
  BY <1>1, <1>3 DEF RedactorInv
<1>4. CASE ~refused
  BY <1>1, <1>2, <1>4 DEF RedactorInv
<1> QED
  BY <1>3, <1>4

(***************************************************************************)
(* All servers.                                                            *)
(***************************************************************************)
ServersInv ==
  /\ app = "forge" => ForgeInv
  /\ app = "redactor" => RedactorInv

(* Of all servers, the invariant is about the forges and the redactor.     *)
LEMMA ServersBegin == ServersInit => ServersInv
<1>1. ServersInit /\ app = "forge" => ForgeInv
  BY ForgeBegins DEF ServersInit
<1>2. ServersInit /\ app = "redactor" => RedactorInv
  BY DEF ServersInit, RedactorInv, Redactor!Init
<1> QED
  BY <1>1, <1>2 DEF ServersInv

(* It is kept, whichever server a behaviour is of.                         *)
LEMMA ServersStep ==
  ASSUME ServersInv, [ServersNext]_<<vars, app, onceVars, forgeVars>>
  PROVE  ServersInv'
<1>1. CASE app = "forge" /\ Forge!Next /\ UNCHANGED <<vars, app, onceVars>>
  BY <1>1, ForgeSteps DEF ServersInv
<1>2. CASE app = "redactor" /\ Redactor!Next /\ UNCHANGED <<vars, app, forgeVars>>
  BY <1>2, RedactorSteps DEF ServersInv
<1>3. CASE app \notin {"forge", "redactor"} /\ UNCHANGED app
  BY <1>3 DEF ServersInv
<1>4. CASE UNCHANGED <<app, onceVars, forgeVars>>
  <2>1. app = "forge" => ForgeInv'
    BY <1>4, ForgeStands DEF ServersInv
  <2>2. app = "redactor" => RedactorInv'
    BY <1>4 DEF ServersInv, RedactorInv, onceVars
  <2> QED
    BY <1>4, <2>1, <2>2 DEF ServersInv
<1> QED
  BY <1>1, <1>2, <1>3, <1>4 DEF ServersNext

(***************************************************************************)
(* Whatever the text, its candidates and the types asked for: the text's   *)
(* places come out in their order, each once or behind a placeholder, no   *)
(* candidate whole nor with its first place, and every placeholder is      *)
(* counted; and a card with one digit changed is no card.                  *)
(***************************************************************************)
THEOREM RedactionsAreAccounted == ServersSpec => []RedactionIsAccounted
<1>1. ServersInv => RedactionIsAccounted
  BY RedactorTells DEF ServersInv, RedactionIsAccounted
<1> QED
  BY <1>1, ServersBegin, ServersStep, PTL DEF ServersSpec

(***************************************************************************)
(* What a tool says of a repository was so while it was asked: one request *)
(* or two, whatever is pushed, whichever branch becomes the default, and   *)
(* whatever the quota and the secret do in between.                        *)
(***************************************************************************)
THEOREM ForgesAreToldTruly == ServersSpec => []ForgeIsToldTruly
<1>1. ServersInv => ForgeIsToldTruly
  BY DEF ServersInv, ForgeInv, ForgeIsToldTruly
<1> QED
  BY <1>1, ServersBegin, ServersStep, PTL DEF ServersSpec
=============================================================================
