---------------------------- MODULE TaskManager ----------------------------
(***************************************************************************)
(* The to-do list over HTTP: every request reads the list from the         *)
(* key-value store, changes its copy and writes it back, and a new task    *)
(* first takes an id in the same way.  The host serves requests at once,   *)
(* each in an instance of its own, and the store has no transactions: the  *)
(* steps of two requests interleave between their calls of the store.      *)
(***************************************************************************)
EXTENDS Naturals, Sequences

CONSTANTS
  Requests,
  Ids,          \* ids that requests to toggle or to delete name
  PAGE_BYTES,   \* length of the page; a list has TASK_BYTES a task
  TASK_BYTES,
  WRITE_LIMIT,  \* what the host takes in one write
  MaxFailures   \* bound on calls of the store that fail

VARIABLES
  tasks, lastId,   \* the store: what "tasks" and "next-id" hold
  pc,              \* where each request is
  op,              \* what it asks for: a route, and the id it names
  read,            \* the list it has read
  id,              \* the id it has read, then the one it took
  status,          \* the status of its response, 0 before
  whole,           \* whether the body of the response was written
  failures,
  wanted,          \* the list, had every change been made in one step
  raced            \* whether a write was made on top of something not read

vars == <<tasks, lastId, pc, op, read, id, status, whole, failures, wanted, raced>>

\* What a key holds: nothing, bytes that do not decode, or a list.
Absent == [is |-> "none", list |-> << >>]
Garbage == [is |-> "garbage", list |-> << >>]
Stored(list) == [is |-> "json", list |-> list]

Titled == "add"
Routes == {"index", "list", "blank", Titled, "toggle", "delete", "other"}
Ops == [route : Routes \ {"toggle", "delete"}, id : {0}]
         \cup [route : {"toggle", "delete"}, id : Ids]

Goto(r, p) == pc' = [pc EXCEPT ![r] = p]

\* The body is one write, whose failure is ignored.
Respond(r, code, bytes) ==
  /\ status' = [status EXCEPT ![r] = code]
  /\ whole' = [whole EXCEPT ![r] = bytes <= WRITE_LIMIT]
  /\ Goto(r, "done")
Unanswered == UNCHANGED <<status, whole>>
ShowList(r, list) == Respond(r, 200, TASK_BYTES * Len(list))

-----------------------------------------------------------------------------

\* handle routes it; a task without a title is not added, and shows the list.
Handle(r) ==
  /\ pc[r] = "new"
  /\ \E o \in Ops :
       /\ op' = [op EXCEPT ![r] = o]
       /\ CASE o.route = "index" -> Respond(r, 200, PAGE_BYTES)
            [] o.route = "other" -> Respond(r, 404, 1)
            [] o.route = Titled -> Goto(r, "read id") /\ Unanswered
            [] OTHER -> Goto(r, "load") /\ Unanswered
  /\ UNCHANGED <<tasks, lastId, read, id, failures, wanted, raced>>

\* next_id; an id that does not decode counts as 0.
ReadId(r) ==
  /\ pc[r] = "read id"
  /\ id' = [id EXCEPT ![r] = lastId]
  /\ Goto(r, "write id")
  /\ UNCHANGED <<tasks, lastId, op, read, status, whole, failures, wanted, raced>>

\* The store takes the id.
SetId(r) ==
  /\ lastId' = id[r] + 1
  /\ raced' = (raced \/ lastId # id[r])

WriteId(r) ==
  /\ pc[r] = "write id"
  /\ SetId(r)
  /\ id' = [id EXCEPT ![r] = @ + 1]
  /\ Goto(r, "load")
  /\ UNCHANGED <<tasks, op, read, status, whole, failures, wanted>>

\* load_tasks; what does not decode is no list.
LoadTasks(r) ==
  /\ pc[r] = "load"
  /\ read' = [read EXCEPT ![r] = tasks.list]
  /\ IF op[r].route \in {"list", "blank"} THEN ShowList(r, tasks.list)
     ELSE Goto(r, "save") /\ Unanswered
  /\ UNCHANGED <<tasks, lastId, op, id, failures, wanted, raced>>

\* delete_task retains the others.
Without(list, x) ==
  LET kept[n \in 0..Len(list)] ==
        IF n = 0 THEN << >>
        ELSE IF list[n].id = x THEN kept[n - 1] ELSE Append(kept[n - 1], list[n])
  IN kept[Len(list)]

\* What the route does to a list.
Changed(r, list) ==
  CASE op[r].route = Titled ->
         Append(list, [id |-> id[r], title |-> r, done |-> FALSE])
    [] op[r].route = "toggle" ->
         [i \in DOMAIN list |->
            IF list[i].id = op[r].id THEN [list[i] EXCEPT !.done = ~@] ELSE list[i]]
    [] OTHER -> Without(list, op[r].id)

\* The store takes the list.
SetTasks(r) ==
  /\ tasks' = Stored(Changed(r, read[r]))
  /\ wanted' = Changed(r, wanted)
  /\ raced' = (raced \/ tasks.list # read[r])

SaveTasks(r) ==
  /\ pc[r] = "save"
  /\ SetTasks(r)
  /\ read' = [read EXCEPT ![r] = Changed(r, read[r])]
  /\ ShowList(r, Changed(r, read[r]))
  /\ UNCHANGED <<lastId, op, id, failures>>

\* Any call of the store can fail, and ends the request; a write that fails may have
\* been taken.
StoreFails(r) ==
  /\ pc[r] \in {"read id", "write id", "load", "save"}
  /\ failures < MaxFailures
  /\ failures' = failures + 1
  /\ Respond(r, 500, 1)
  /\ \/ UNCHANGED <<tasks, lastId, wanted, raced>>
     \/ pc[r] = "write id" /\ SetId(r) /\ UNCHANGED <<tasks, wanted>>
     \/ pc[r] = "save" /\ SetTasks(r) /\ UNCHANGED lastId
  /\ UNCHANGED <<op, read, id>>

Init ==
  /\ tasks \in {Absent, Garbage} /\ lastId = 0
  /\ pc = [r \in Requests |-> "new"]
  /\ op = [r \in Requests |-> [route |-> "none", id |-> 0]]
  /\ read = [r \in Requests |-> << >>]
  /\ id = [r \in Requests |-> 0]
  /\ status = [r \in Requests |-> 0]
  /\ whole = [r \in Requests |-> TRUE]
  /\ failures = 0 /\ wanted = << >> /\ raced = FALSE

Next == \E r \in Requests :
  \/ Handle(r) \/ ReadId(r) \/ WriteId(r) \/ LoadTasks(r) \/ SaveTasks(r)
  \/ StoreFails(r)

Spec == Init /\ [][Next]_vars

-----------------------------------------------------------------------------

\* As long as nobody writes over what it has not read, the list is what the
\* requests made of it one after the other, however their steps interleave and
\* whichever of their calls fail, before the store takes them or after; no id is
\* given twice, and who is told 200 is told of its own change.
ListIsItsHistory ==
  ~raced =>
    /\ tasks.list = wanted
    /\ \A i, j \in DOMAIN tasks.list :
         tasks.list[i].id = tasks.list[j].id => i = j
    /\ \A r \in Requests : status[r] = 200 /\ op[r].route = Titled =>
         \E i \in DOMAIN read[r] : read[r][i].title = r

\* A response that says 200 shows what it is for.
ResponsesAreWhole == \A r \in Requests : status[r] = 200 => whole[r]
=============================================================================
