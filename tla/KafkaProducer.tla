--------------------------- MODULE KafkaProducer ---------------------------
(***************************************************************************)
(* The Kafka producer behind HTTP: a request sends one record or a batch   *)
(* of equal ones, within limits on their number and on their bytes.        *)
(* Numbers have the width of a usize, which is finite.                     *)
(***************************************************************************)
EXTENDS Naturals, Sequences

CONSTANTS
  Numbers,          \* what a query has for a count and a size
  DEFAULT_COUNT, DEFAULT_SIZE,
  MAX_BATCH_RECORDS, MAX_RECORD_BYTES, MAX_BATCH_BYTES,
  USIZE             \* one more than the largest usize

VARIABLES
  query,       \* what was asked for
  sent,        \* number and size of the records the host was asked to send
  response     \* status, and the outcomes of the records

vars == <<query, sent, response>>

\* Mutant of saturating_mul: the product wraps around.
WrappingMul(a, b) == (a * b) % USIZE

saturating_mul(a, b) == IF a * b >= USIZE THEN USIZE - 1 ELSE a * b

\* A parameter is absent, not a number, or a number.
Parameters == [is : {"absent", "junk"}, n : {0}] \cup [is : {"number"}, n : Numbers]

Value(parameter, default) == IF parameter.is = "absent" THEN default ELSE parameter.n

Accepted(parameter, range) ==
  parameter.is = "absent" \/ (parameter.is = "number" /\ parameter.n \in range)

Queries ==
  [route : {"other", "no path"}]
    \cup [route : {"produce"}, topic : BOOLEAN, key : BOOLEAN, value : BOOLEAN]
    \cup [route : {"batch"}, topic : BOOLEAN, count : Parameters, size : Parameters]

Nothing == << >>
Refuse(status) == response' = [status |-> status, outcomes |-> << >>] /\ sent' = Nothing
Send(count, size) == sent' = <<count, size>> /\ UNCHANGED response

produce(q) == IF q.topic /\ q.key /\ q.value THEN Send(1, 1) ELSE Refuse(400)

produce_batch(q) ==
  LET count == Value(q.count, DEFAULT_COUNT)
      size  == Value(q.size, DEFAULT_SIZE)
  IN IF /\ q.topic
        /\ Accepted(q.count, 1..MAX_BATCH_RECORDS) /\ Accepted(q.size, 0..MAX_RECORD_BYTES)
        /\ saturating_mul(count, size) <= MAX_BATCH_BYTES
     THEN Send(count, size) ELSE Refuse(400)

Handle ==
  /\ query.route = "none"
  /\ \E q \in Queries :
       /\ query' = q
       /\ CASE q.route = "no path" -> Refuse(400)
            [] q.route = "other" -> Refuse(404)
            [] q.route = "produce" -> produce(q)
            [] q.route = "batch" -> produce_batch(q)

\* The host took the records, or refused the whole call; in a batch each record
\* has an outcome of its own.
Answer ==
  /\ sent # Nothing /\ response.status = 0
  /\ \/ response' = [status |-> 500, outcomes |-> << >>]
     \/ \E ok \in 0..sent[1] :
          /\ query.route = "produce" => ok = 1
          /\ response' = [status |-> 200, outcomes |-> <<ok, sent[1] - ok>>]
  /\ UNCHANGED <<query, sent>>

Init == query = [route |-> "none"] /\ sent = Nothing /\ response = [status |-> 0, outcomes |-> << >>]

Next == Handle \/ Answer

Spec == Init /\ [][Next]_vars

-----------------------------------------------------------------------------

\* No request makes the component build more than its limit in bytes, whatever the
\* product of the numbers asked for does at the width of a usize; and what is
\* within the limits is not refused.
BatchesAreBounded ==
  /\ sent # Nothing => sent[1] * sent[2] <= MAX_BATCH_BYTES
  /\ query.route = "batch" /\ response.status = 400 /\ query.topic
       /\ query.count.is # "junk" /\ query.size.is # "junk" =>
       LET count == Value(query.count, DEFAULT_COUNT)
           size  == Value(query.size, DEFAULT_SIZE)
       IN \/ count \notin 1..MAX_BATCH_RECORDS
          \/ size > MAX_RECORD_BYTES
          \/ count * size > MAX_BATCH_BYTES
=============================================================================
