------------------------------ MODULE AgentRun ------------------------------
(***************************************************************************)
(* The runs of minimal-agent in one session: a driver hands a message to   *)
(* an instance, which opens the run in the journal, calls the model and    *)
(* the tools it asks for, and records how the run ended.                   *)
(*                                                                         *)
(* What an instance does between two awaits is one action, so a commit, a  *)
(* model call and a tool call each end one.  Instances crash, drivers drop *)
(* their events, and the session may refuse a commit.                      *)
(***************************************************************************)
EXTENDS Naturals, Sequences, FiniteSets, SequencesExt, AgentSession

CONSTANTS
  Turns,        \* requests a driver makes, each of which may become a run
  Instances,    \* instances of the component
  RunIds,       \* the run ids drivers choose from
  MaxCalls,     \* most tool calls in one reply
  MAX_STEPS,    \* model calls a run may make
  KEEP,         \* exchanges a stored conversation keeps
  TimeLimit,    \* whether requests set max-duration
  LostReplies,  \* whether a commit may be applied and its reply lost
  MaxFaults,    \* bound on commits that fail
  MaxCrashes    \* bound on crashes

ASSUME NAssumption ==
  /\ Turns \cup Instances \cup RunIds \subseteq Nat
  /\ Instances # {} /\ RunIds # {}
  /\ MAX_STEPS \in Nat \ {0}
  /\ KEEP \in Nat \ {0}
  /\ {MaxCalls, MaxFaults, MaxCrashes} \subseteq Nat
  /\ {TimeLimit, LostReplies} \subseteq BOOLEAN

VARIABLES
  session,   \* the session store
  running,   \* RUNNING of each instance
  turn,      \* what each request holds and where it is
  faults,    \* commits that failed so far
  crashes    \* instances that crashed so far

vars == <<session, running, turn, faults, crashes>>

-----------------------------------------------------------------------------
(* The journal.                                                            *)

(***************************************************************************)
(* An entry: its kind, the turn that wrote it, the call it is about, and   *)
(* what it says of it: the target of an op, the outcome of a result or of  *)
(* a run.                                                                  *)
(***************************************************************************)
NoOp == <<0, 0>>
Entry(kind, by, op, says) == [kind |-> kind, by |-> by, op |-> op, says |-> says]
Step(t)       == Entry("step", t, NoOp, "")
RunEntry(t)   == Entry("run", t, NoOp, "")
Op(t, op, target)  == Entry("op", t, op, target)
OpResult(t, op, o) == Entry("result", t, op, o)
RunResult(t, o)    == Entry("ended", t, NoOp, o)

Journal == session.journal

IsOpen(j, i) ==
  /\ j[i].kind = "op"
  /\ ~\E k \in i + 1 .. Len(j) : j[k].kind = "result" /\ j[k].op = j[i].op

\* Mutant of Closing: a model call is left open, as it may be made again.
ClosingTools(t, e) ==
  IF e.says = "model" THEN << >>
  ELSE <<OpResult(t, e.op, "unresolved"), Step(t)>>

\* What a run writes of a call that an earlier one left open.
Closing(t, e) ==
  IF e.says = "model" THEN <<OpResult(t, e.op, "cancelled")>>
  ELSE <<OpResult(t, e.op, "unresolved"), Step(t)>>

\* Mutant of Recover: the journal is read from its end, not the state's.
RecoverFromEnd(t, through) ==
  FlattenSeq([i \in 1..Len(Journal) |->
    IF i > turn[t].snap.end /\ IsOpen(Journal, i) THEN Closing(t, Journal[i]) ELSE << >>])

\* recover: the calls in the journal after `through` that have no result.
Recover(t, through) ==
  FlattenSeq([i \in 1..Len(Journal) |->
    IF i > through /\ IsOpen(Journal, i) THEN Closing(t, Journal[i]) ELSE << >>])

-----------------------------------------------------------------------------
(* The stored conversation: the turns whose exchanges it holds, oldest     *)
(* first.  AgentConversation has what is in an exchange.                   *)

Newest(s, n) == IF Len(s) <= n THEN s ELSE SubSeq(s, Len(s) - n + 1, Len(s))

\* What trim may leave of c: nothing if the newest exchange alone is too long.
Trimmed(c) == {Newest(c, KEEP), << >>}

\* Mutant of Halve: the wrong half is dropped.
HalveNewest(c) == SubSeq(c, 1, Len(c) \div 2)

Halve(c) == Newest(c, Len(c) \div 2)

-----------------------------------------------------------------------------
(* Turns.                                                                  *)

Fresh ==
  [pc |-> "new", inst |-> CHOOSE i \in Instances : TRUE,
   run |-> CHOOSE r \in RunIds : TRUE,
   snap |-> Snapshot(EmptySession),  \* the session when the run read it
   closing |-> << >>,                \* what recover found
   kept |-> << >>,                   \* the conversation the run works with
   end |-> 0, stale |-> FALSE,       \* Journal
   steps |-> 0, shortened |-> FALSE,
   ops |-> 0,                        \* calls made; the latest one's name
   answer |-> "",                    \* what the last call returned, or
                                     \* how the run is about to end
   calls |-> 0,                      \* tool calls left to make
   late |-> FALSE,                   \* max-duration has passed
   outcome |-> "none"]

PCs == {"new", "accepting", "reading", "opening", "preparing", "unlisted", "loop",
        "model", "answered", "asking", "tools", "tool", "returned", "ending", "over"}
NotStarted == {"busy", "duplicate", "unavailable"}
Endings == {"done", "cancelled", "failed", "superseded", "not-recorded"}

Active(t) == turn[t].pc \notin {"new", "over"}
ThisOp(t) == <<t, turn[t].ops>>
NextOp(t) == <<t, turn[t].ops + 1>>

At(t, pc) == turn[t].pc = pc
Go(t, next) == turn' = [turn EXCEPT ![t] = next]
Ending(r, how) == [r EXCEPT !.pc = "ending", !.answer = how, !.calls = 0]

\* Mutant of End: the instance is not released.
EndHolding(t, outcome) ==
  /\ turn' = [turn EXCEPT ![t] =
       [Fresh EXCEPT !.pc = "over", !.outcome = outcome, !.inst = turn[t].inst,
                     !.run = turn[t].run, !.steps = turn[t].steps]]
  /\ UNCHANGED running

\* The turn ends; as what it holds is dropped, its instance is free again.
End(t, outcome) ==
  /\ turn' = [turn EXCEPT ![t] =
       [Fresh EXCEPT !.pc = "over", !.outcome = outcome, !.inst = turn[t].inst,
                     !.run = turn[t].run, !.steps = turn[t].steps]]
  /\ running' = [running EXCEPT ![turn[t].inst] = FALSE]

(***************************************************************************)
(* The ways commit c can end.  One that fails was not applied, or was      *)
(* applied and its reply is lost.                                          *)
(***************************************************************************)
Replies(c) ==
  LET r == Committed(session, c)
      failed(s) == [how |-> "error", end |-> 0, session |-> s, fault |-> 1]
  IN {[how |-> r.how, end |-> r.end, session |-> r.session, fault |-> 0]}
       \cup (IF faults = MaxFaults THEN {} ELSE {failed(session)})
       \cup (IF faults = MaxFaults \/ ~LostReplies THEN {} ELSE {failed(r.session)})

Apply(reply) ==
  /\ session' = reply.session
  /\ faults' = faults + reply.fault

-----------------------------------------------------------------------------
(* accept                                                                  *)

\* Requests, instances and run ids are interchangeable, and each is named
\* only after those below it.
InOrder(t, i, r) ==
  /\ \A o \in Turns : o < t => ~At(o, "new")
  /\ \A x \in Instances : x < i => \E o \in Turns : o < t /\ turn[o].inst = x
  /\ \A x \in RunIds : x < r => \E o \in Turns : o < t /\ turn[o].run = x

\* A driver hands request t to instance i as run r.
Request(t, i, r) ==
  /\ At(t, "new") /\ InOrder(t, i, r)
  /\ IF running[i]
     THEN /\ Go(t, [turn[t] EXCEPT !.pc = "over", !.outcome = "busy",
                                   !.inst = i, !.run = r])
          /\ UNCHANGED running
     ELSE /\ Go(t, [turn[t] EXCEPT !.pc = "accepting", !.inst = i, !.run = r])
          /\ running' = [running EXCEPT ![i] = TRUE]
  /\ UNCHANGED <<session, faults, crashes>>

\* A read of the session fails, before the run has opened.
Unreadable(t) ==
  /\ At(t, "accepting") \/ At(t, "reading")
  /\ End(t, "unavailable")
  /\ UNCHANGED <<session, faults, crashes>>

\* The run reads the session.
Current(t) ==
  /\ At(t, "accepting")
  /\ Go(t, [turn[t] EXCEPT !.pc = "reading", !.snap = Snapshot(session),
                           !.kept = session.value, !.end = JournalEnd(session)])
  /\ UNCHANGED <<session, running, faults, crashes>>

\* It then reads the journal from where the state ends, which may have moved.
ReadJournal(t) ==
  /\ At(t, "reading")
  /\ Go(t, [turn[t] EXCEPT !.pc = "opening",
                           !.closing = Recover(t, turn[t].snap.through)])
  /\ UNCHANGED <<session, running, faults, crashes>>

OpenRequest(t) ==
  [entries |-> turn[t].closing \o <<Step(t), RunEntry(t)>>, state |-> {},
   requireState |-> {}, requireEnd |-> {turn[t].end}, id |-> {turn[t].run}]

Open(t) ==
  /\ At(t, "opening")
  /\ \E r \in Replies(OpenRequest(t)) :
       /\ Apply(r)
       /\ \/ /\ r.how = "committed" /\ r.end > turn[t].end
             /\ Go(t, [turn[t] EXCEPT !.pc = "preparing", !.end = r.end, !.closing = << >>])
             /\ UNCHANGED running
          \/ r.how = "committed" /\ r.end <= turn[t].end /\ End(t, "duplicate")
          \/ r.how = "stale" /\ End(t, "busy")
          \/ r.how = "error" /\ End(t, "unavailable")
  /\ UNCHANGED crashes

-----------------------------------------------------------------------------
(* Journal: append and record.                                             *)

\* Mutant of AppendRequest: a call is journaled whoever wrote before it.
AppendUnconditionally(t, target) ==
  EntriesOnly(<<Op(t, NextOp(t), target)>>, {})

AppendRequest(t, target) ==
  EntriesOnly(<<Op(t, NextOp(t), target)>>, {turn[t].end})

\* Journal a call and make it, if nobody else wrote in between.
Dispatch(t, target, next) ==
  \/ /\ turn[t].stale
     /\ Go(t, Ending(next, "superseded"))
     /\ UNCHANGED <<session, faults>>
  \/ /\ ~turn[t].stale
     /\ \E r \in Replies(AppendRequest(t, target)) :
          /\ Apply(r)
          /\ Go(t, IF r.how = "committed"
                   THEN [next EXCEPT !.pc = target, !.ops = @ + 1, !.end = r.end]
                   ELSE Ending([next EXCEPT !.stale = TRUE], "superseded"))

\* Mutant of RecordRequest: what happened is recorded under a condition only.
RecordUnderCondition(t, entries) == EntriesOnly(entries, {turn[t].end})

RecordRequest(t, entries) ==
  EntriesOnly(entries, IF turn[t].stale THEN {} ELSE {turn[t].end})

\* Where the journal ends for the turn; of no use to it once it is stale.
Moved(t, r) ==
  IF r.how = "committed" /\ ~turn[t].stale THEN r.end ELSE turn[t].end

\* Mutant of Record: an entry somebody else got ahead of is dropped.
RecordOrDrop(t, entries, next) ==
  \E r \in Replies(RecordRequest(t, entries)) :
    /\ Apply(r)
    /\ Go(t, [next EXCEPT !.stale = @ \/ r.how = "stale", !.end = Moved(t, r)])

(***************************************************************************)
(* Record what happened, and go on as `next`.  Somebody else's write makes *)
(* the turn stale and the entries are committed again, on no condition; a  *)
(* commit that fails is not repeated.                                      *)
(***************************************************************************)
Record(t, entries, next) ==
  \E r \in Replies(RecordRequest(t, entries)) :
    /\ Apply(r)
    /\ Go(t, IF r.how = "stale" THEN [turn[t] EXCEPT !.stale = TRUE]
             ELSE [next EXCEPT !.end = Moved(t, r)])

\* The events the driver no longer reads cancel the run.
OrCancelled(t, next) == {next, Ending(turn[t], "cancelled")}

-----------------------------------------------------------------------------
(* work                                                                    *)

\* Between two tool calls the run finds that max-duration has passed.
TimePasses(t) ==
  /\ At(t, "tools") /\ TimeLimit /\ ~turn[t].late
  /\ Go(t, [turn[t] EXCEPT !.late = TRUE])
  /\ UNCHANGED <<session, running, faults, crashes>>

\* The model is opened and the tools are listed.
Prepare(t) ==
  /\ At(t, "preparing")
  /\ \E next \in {Ending(turn[t], "failed"), [turn[t] EXCEPT !.pc = "unlisted"],
                  [turn[t] EXCEPT !.pc = "loop"]} : Go(t, next)
  /\ UNCHANGED <<session, running, faults, crashes>>

ListFailed(t) ==
  /\ At(t, "unlisted")
  /\ \E next \in OrCancelled(t, [turn[t] EXCEPT !.pc = "loop"]) :
       Record(t, <<Step(t)>>, next)
  /\ UNCHANGED <<running, crashes>>

OutOfTime(t) ==
  /\ At(t, "loop") /\ TimeLimit
  /\ Go(t, Ending(turn[t], "reply"))
  /\ UNCHANGED <<session, running, faults, crashes>>

CallModel(t) ==
  /\ At(t, "loop") /\ ~turn[t].late
  /\ Dispatch(t, "model", [turn[t] EXCEPT !.steps = @ + 1])
  /\ UNCHANGED <<running, crashes>>

Answers == {"final", "more", "too long", "failed", "gone"}

\* The model replies; with `more` it asks for n tool calls, or it pauses.
ModelReplies(t) ==
  /\ At(t, "model")
  /\ \E a \in Answers, n \in 0..MaxCalls :
       /\ a # "more" => n = 0
       /\ Go(t, [turn[t] EXCEPT !.pc = "answered", !.answer = a, !.calls = n])
  /\ UNCHANGED <<session, running, faults, crashes>>

\* Whether the reply was the last one the request allows.
AtLimit(t) == turn[t].steps >= MAX_STEPS

\* Where a reply leads once it is recorded.
AfterReply(t) ==
  LET me == turn[t] IN
  CASE me.answer = "gone"   -> {Ending(me, "cancelled")}
    [] me.answer = "failed" -> {Ending(me, "failed")}
    [] me.answer = "too long" /\ (me.shortened \/ me.kept = << >>) ->
         {Ending(me, "failed")}
    [] me.answer = "too long" /\ ~(me.shortened \/ me.kept = << >>) ->
         {[me EXCEPT !.pc = "loop", !.shortened = TRUE, !.kept = Halve(@), !.answer = ""]}
    [] me.answer = "final"  -> OrCancelled(t, Ending(me, "reply"))
    [] me.answer = "more" /\ AtLimit(t) -> OrCancelled(t, Ending(me, "reply"))
    [] me.answer = "more" /\ ~AtLimit(t) ->
         \* The tokens may be spent or the time be over, which ends it as well.
         OrCancelled(t, Ending(me, "reply"))
           \cup {[me EXCEPT !.pc = "asking", !.answer = ""]}

RecordReply(t) ==
  /\ At(t, "answered")
  /\ \E next \in AfterReply(t) :
       Record(t, <<OpResult(t, ThisOp(t),
                     CASE turn[t].answer \in {"final", "more"} -> "succeeded"
                       [] turn[t].answer \in {"too long", "failed"} -> "failed"
                       [] turn[t].answer = "gone" -> "cancelled")>>, next)
  /\ UNCHANGED <<running, crashes>>

\* The step with the reply, before the tools it asks for.
RecordAsk(t) ==
  /\ At(t, "asking")
  /\ \E next \in OrCancelled(t, [turn[t] EXCEPT
                   !.pc = IF turn[t].calls = 0 THEN "loop" ELSE "tools"]) :
       Record(t, <<Step(t)>>, next)
  /\ UNCHANGED <<running, crashes>>

\* The turn after one of the calls asked for is dealt with.
OneDone(t) ==
  [turn[t] EXCEPT !.calls = @ - 1, !.answer = "",
                  !.pc = IF turn[t].calls = 1 THEN "loop" ELSE "tools"]

SkipTool(t) ==
  /\ At(t, "tools") /\ turn[t].late
  /\ \E next \in OrCancelled(t, OneDone(t)) : Record(t, <<Step(t)>>, next)
  /\ UNCHANGED <<running, crashes>>

CallTool(t) ==
  /\ At(t, "tools") /\ ~turn[t].late
  /\ Dispatch(t, "tool", turn[t])
  /\ UNCHANGED <<running, crashes>>

ToolReturns(t) ==
  /\ At(t, "tool")
  /\ \E o \in {"succeeded", "failed", "unresolved"} :
       Go(t, [turn[t] EXCEPT !.pc = "returned", !.answer = o])
  /\ UNCHANGED <<session, running, faults, crashes>>

RecordTool(t) ==
  /\ At(t, "returned")
  /\ \E next \in OrCancelled(t, OneDone(t)) :
       Record(t, <<OpResult(t, ThisOp(t), turn[t].answer), Step(t)>>, next)
  /\ UNCHANGED <<running, crashes>>

-----------------------------------------------------------------------------
(* conclude                                                                *)

\* The reply does not fit the schema, or the driver is gone.
Unanswered(t) ==
  /\ At(t, "ending") /\ turn[t].answer = "reply"
  /\ \E how \in {"failed", "cancelled"} : Go(t, Ending(turn[t], how))
  /\ UNCHANGED <<session, running, faults, crashes>>

\* Mutant of SaveRequest: the conditions are those of the session as it is now.
SaveOver(t, c) ==
  [entries |-> <<Step(t), RunResult(t, "done")>>, state |-> {c},
   requireState |-> {session.version}, requireEnd |-> {JournalEnd(session)}, id |-> {}]

SaveRequest(t, c) ==
  [entries |-> <<Step(t), RunResult(t, "done")>>, state |-> {c},
   requireState |-> {turn[t].snap.version}, requireEnd |-> {turn[t].end}, id |-> {}]

\* Mutant of Unsaved: a conversation that was not saved is not reported.
UnsavedIgnored(t, how) == End(t, "done")

Unsaved(t, how) ==
  /\ Go(t, Ending([turn[t] EXCEPT !.stale = @ \/ how = "superseded"], how))
  /\ UNCHANGED running

Save(t) ==
  /\ At(t, "ending") /\ turn[t].answer = "reply"
  /\ \/ turn[t].stale /\ Unsaved(t, "superseded") /\ UNCHANGED <<session, faults>>
     \/ /\ ~turn[t].stale
        /\ \E c \in Trimmed(Append(turn[t].kept, t)) :
           \E r \in Replies(SaveRequest(t, c)) :
             /\ Apply(r)
             /\ \/ r.how = "committed" /\ End(t, "done")
                \/ r.how = "stale" /\ Unsaved(t, "superseded")
                \/ r.how = "error" /\ Unsaved(t, "not-recorded")
  /\ UNCHANGED crashes

\* A run without a reply, or whose reply was not saved, records that it failed.
Fail(t) ==
  /\ At(t, "ending") /\ turn[t].answer # "reply"
  /\ LET how == IF turn[t].answer = "cancelled" THEN "cancelled" ELSE "failed"
     IN \E r \in Replies(RecordRequest(t, <<Step(t), RunResult(t, how)>>)) :
          /\ Apply(r)
          /\ IF r.how = "stale"
             THEN Go(t, [turn[t] EXCEPT !.stale = TRUE]) /\ UNCHANGED running
             ELSE End(t, turn[t].answer)
  /\ UNCHANGED crashes

-----------------------------------------------------------------------------
\* Instance i is gone, with the turn in it.
Crash(i) ==
  /\ crashes < MaxCrashes
  /\ crashes' = crashes + 1
  /\ \E t \in Turns : Active(t) /\ turn[t].inst = i /\ End(t, "crashed")
  /\ UNCHANGED <<session, faults>>

Init ==
  /\ session = EmptySession
  /\ running = [i \in Instances |-> FALSE]
  /\ turn = [t \in Turns |-> Fresh]
  /\ faults = 0
  /\ crashes = 0

Accept(t) == Unreadable(t) \/ Current(t) \/ ReadJournal(t) \/ Open(t)
Work(t) ==
  \/ Prepare(t) \/ ListFailed(t) \/ OutOfTime(t) \/ CallModel(t)
  \/ ModelReplies(t) \/ RecordReply(t) \/ RecordAsk(t)
  \/ SkipTool(t) \/ CallTool(t) \/ ToolReturns(t) \/ RecordTool(t)
Conclude(t) == Unanswered(t) \/ Save(t) \/ Fail(t)

Next ==
  \/ \E t \in Turns, i \in Instances, r \in RunIds : Request(t, i, r)
  \/ \E t \in Turns : Accept(t) \/ Work(t) \/ Conclude(t) \/ TimePasses(t)
  \/ \E i \in Instances : Crash(i)

Spec == Init /\ [][Next]_vars

\* Calls return, because the host gives each a deadline, and the host goes on
\* running an instance that has something to do.
Fairness == \A t \in Turns : WF_vars(Accept(t) \/ Work(t) \/ Conclude(t))
FairSpec == Spec /\ Fairness

-----------------------------------------------------------------------------
(* Properties.                                                             *)

TypeOK ==
  /\ \A t \in Turns :
       LET me == turn[t] IN
       /\ me.pc \in PCs
       /\ me.outcome \in {"none", "crashed"} \cup NotStarted \cup Endings
       /\ me.outcome # "none" <=> me.pc = "over"
       /\ me.end \in 0..JournalEnd(session)
       /\ me.calls \in 0..MaxCalls
       /\ me.pc \in {"tools", "tool", "returned"} => me.calls > 0
       /\ running[me.inst] = \E o \in Turns : Active(o) /\ turn[o].inst = me.inst
  /\ session.through <= JournalEnd(session)
  /\ faults \in 0..MaxFaults /\ crashes \in 0..MaxCrashes

\* Entry i opens the run of turn t.
Opens(i, t) == Journal[i].kind = "run" /\ turn[Journal[i].by].run = turn[t].run
Results(t) == {i \in DOMAIN Journal : Journal[i].kind = "ended" /\ Journal[i].by = t}
IsDone(e) == e.kind = "ended" /\ e.says = "done"

\* The turns that ended `done` by the first n entries of j, in their order.
DoneRuns(j, n) ==
  LET said[k \in 0..n] ==
        IF k = 0 THEN << >>
        ELSE IF IsDone(j[k]) THEN Append(said[k - 1], j[k].by) ELSE said[k - 1]
  IN said[n]

(***************************************************************************)
(* "Nothing is dispatched over another writer's entries" (Journal):        *)
(* between the entry that opens a run and each call it makes, nobody else  *)
(* has written.                                                            *)
(***************************************************************************)
NoDispatchOverOthers ==
  \A k \in DOMAIN Journal : Journal[k].kind = "op" =>
    \A i \in 1..k : Opens(i, Journal[k].by) =>
      \A m \in i + 1 .. k : Journal[m].by = Journal[k].by

(***************************************************************************)
(* recover leaves no call of an earlier run open: a call without a result  *)
(* belongs to the run that opened last, unless the state covers it.        *)
(***************************************************************************)
OpenCallsAreRecovered ==
  \A i \in DOMAIN Journal : IsOpen(Journal, i) =>
    \/ i <= session.through
    \/ \A k \in i..JournalEnd(session) : Journal[k].kind # "run"

(***************************************************************************)
(* The stored conversation is what the runs that ended `done` said, in the *)
(* order of the journal and with the oldest forgotten first: save never    *)
(* overwrites another run's, nor keeps one that did not end so.            *)
(***************************************************************************)
ConversationIsHistory ==
  /\ session.value = Newest(DoneRuns(Journal, Len(Journal)), Len(session.value))
  /\ \A k \in DOMAIN Journal : IsDone(Journal[k]) => k <= session.through

(***************************************************************************)
(* A driver hears `done` only of a run the journal says is done, once, and *)
(* a run the journal says is done is never heard to have failed ("The run  *)
(* did not end as `done`, so the journal must not say it did"): where the  *)
(* reply of the last commit is lost, the driver hears `not-recorded`.      *)
(***************************************************************************)
JournalTellsTruth ==
  \A t \in Turns :
    LET saysDone == \E i \in Results(t) : Journal[i].says = "done"
    IN turn[t].outcome \in Endings =>
         /\ turn[t].outcome = "done" => saysDone /\ Cardinality(Results(t)) = 1
         /\ saysDone => turn[t].outcome \in {"done", "not-recorded"}

(***************************************************************************)
(* A run that opened and did not crash is recorded when its outcome        *)
(* resolves: one result of its own, and one for every call it made, even   *)
(* if it was cancelled or superseded.                                      *)
(***************************************************************************)
EndedRunsAreClosed ==
  \A t \in Turns :
    turn[t].outcome \in Endings =>
      /\ Cardinality(Results(t)) = 1
      /\ \A i \in DOMAIN Journal : Journal[i].by = t => ~IsOpen(Journal, i)

(***************************************************************************)
(* A run id opens one run, however often and wherever it is delivered.     *)
(***************************************************************************)
OpenedOnce ==
  \A t \in Turns : Cardinality({i \in DOMAIN Journal : Opens(i, t)}) <= 1

(* Every call of a run that ended is closed, by the run or by the next one. *)
CallsAreClosed == OpenCallsAreRecovered /\ EndedRunsAreClosed

(* The journal opens each id once and says of it what its driver heard, and an *)
(* instance is held by the turn that is active in it and by no other.      *)
JournalIsTrue == TypeOK /\ OpenedOnce /\ JournalTellsTruth

(***************************************************************************)
(* Every request is answered: no turn is stuck holding its instance.       *)
(***************************************************************************)
TurnsEnd == \A t \in Turns : Active(t) ~> At(t, "over")

-----------------------------------------------------------------------------
(* What the code or its interfaces say and the code does not keep.         *)

(***************************************************************************)
(* A run id that was started is answered `duplicate` "instead of running   *)
(* twice" (run-types.wit), told by the journal end of the first commit     *)
(* (Journal::open).                                                        *)
(***************************************************************************)
AcceptedOnce ==
  \A t, o \in Turns :
    LET accepted(x) == turn[x].pc \notin {"new", "accepting", "reading", "opening", "over"}
    IN t # o /\ turn[t].run = turn[o].run => ~(accepted(t) /\ accepted(o))

(***************************************************************************)
(* "Never advance state past an unresolved op" (session.wit).              *)
(***************************************************************************)
StateCoversClosed == \A i \in 1..session.through : ~IsOpen(Journal, i)

-----------------------------------------------------------------------------
(* The promise of AgentLedger, and what of a run it is about.               *)

DoneUpTo(n) == DoneRuns(Journal, n)

\* A turn that does not know whether it was saved has no more to say.
PhaseOf(t) ==
  IF turn[t].pc \in {"new", "accepting", "reading", "opening"} THEN "new"
  ELSE IF At(t, "over") \/ (At(t, "ending") /\ turn[t].answer = "not-recorded")
  THEN "closed"
  ELSE "open"

Ledger == INSTANCE AgentLedger WITH
  done  <- DoneUpTo(JournalEnd(session)),
  phase <- [t \in Turns |-> PhaseOf(t)],
  seen  <- [t \in Turns |->
              IF PhaseOf(t) = "open" THEN Len(DoneUpTo(turn[t].snap.end)) ELSE 0]

(***************************************************************************)
(* Whatever instances, drivers and crashes do, runs end `done` one after   *)
(* the other, each on the conversation the one before it left.             *)
(***************************************************************************)
ImplementsLedger == Ledger!Spec
=============================================================================
