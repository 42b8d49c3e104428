------------------------ MODULE KafkaServices_proofs ------------------------
(***************************************************************************)
(* Theorems about the Kafka services, for any number of partitions,        *)
(* records, faults and batch sizes:                                        *)
(*                                                                         *)
(*   ExactlyOnceHolds   the transactional service writes each record once; *)
(*   AtLeastOnceHolds   the pull service loses nothing, as long as         *)
(*     deployments with records to reject take them one by one.            *)
(***************************************************************************)
EXTENDS KafkaServices, FiniteSetTheorems, TLAPS

PCs == {"down", "reading", "beginning", "sending", "offsets", "committing",
        "deadLetter", "aborting"}

TypeInv ==
  /\ service \in Services
  /\ pc \in PCs
  /\ position \in [Partitions -> 0 .. RECORDS]
  /\ committed \in [Partitions -> 0 .. RECORDS]
  /\ \A p \in Partitions : pc # "down" => committed[p] <= position[p]
  /\ batch \subseteq Record /\ rejected \subseteq Record
  /\ out \in [Record -> Nat] /\ dead \in [Record -> Nat]
  /\ transaction = [open |-> transaction.open, sent |-> transaction.sent,
                    offsets |-> transaction.offsets]

(* Records handed to the loop and not yet committed. *)
Between(low, high) ==
  {r \in Record : low[r[1]] <= r[2] /\ r[2] < high[r[1]]}

(* What a transaction holds when it is committed is the batch, and the batch *)
(* is what was handed over since the last commit.                          *)
TransactionInv ==
  ~IsPull =>
    /\ pc \in {"reading", "beginning", "sending", "offsets", "committing"} =>
         batch = Between(committed, position)
    /\ pc \in {"offsets", "committing"} => transaction.sent = batch
    /\ pc = "committing" => transaction.offsets = CommitPositions(batch)
    /\ ExactlyOnce

Arrived(r) == IF r \in service.rejects THEN dead[r] > 0 ELSE out[r] > 0

(* What was handed to the pull service has arrived or is still at hand, and *)
(* nothing is at hand when positions are committed.                        *)
PullInv ==
  IsPull =>
    /\ AtLeastOnce
    /\ \A r \in Record :
         pc # "down" /\ r[2] < position[r[1]] =>
           Arrived(r) \/ r \in batch \/ r \in rejected
    /\ batch \cap service.rejects = {} /\ rejected \subseteq service.rejects
    /\ pc = "reading" => rejected = {} /\ (service.rejects # {} => batch = {})
    /\ pc = "sending" => rejected = {}
    /\ pc = "committing" => batch = {} /\ rejected = {}
    /\ pc = "deadLetter" => batch = {}

-----------------------------------------------------------------------------
LEMMA RecordShape ==
  ASSUME NEW r \in Record
  PROVE  /\ r = <<r[1], r[2]>> /\ r[1] \in Partitions
         /\ r[2] \in Nat /\ r[2] < RECORDS
BY KafkaAssumption DEF KafkaAssumption, Record

LEMMA ServiceShape ==
  ASSUME service \in Services
  PROVE  /\ service.batch \in Nat \ {0} /\ service.rejects \subseteq Record
         /\ service.kind \in {"pull", "transactional"}
         /\ ~IsPull => service.rejects = {}
BY KafkaAssumption DEF KafkaAssumption, Deployment, IsPull

(* One past the last record of what lies between two positions is the upper *)
(* one; where nothing lies between them, they are equal.                   *)
LEMMA PositionsReach ==
  ASSUME NEW low \in [Partitions -> 0 .. RECORDS],
         NEW high \in [Partitions -> 0 .. RECORDS],
         \A p \in Partitions : low[p] <= high[p],
         NEW B, B = Between(low, high)
  PROVE  [p \in Partitions |-> IF p \in DOMAIN CommitPositions(B)
                               THEN CommitPositions(B)[p] ELSE low[p]] = high
<1> DEFINE Own(p) == {r[2] : r \in {q \in B : q[1] = p}}
<1>0. RECORDS \in Nat
  BY KafkaAssumption DEF KafkaAssumption
<1>1. /\ DOMAIN CommitPositions(B) = {r[1] : r \in B}
      /\ \A p \in {r[1] : r \in B} : CommitPositions(B)[p] = Max(Own(p)) + 1
  BY DEF CommitPositions
<1>2. ASSUME NEW p \in Partitions
      PROVE  (IF p \in DOMAIN CommitPositions(B) THEN CommitPositions(B)[p] ELSE low[p])
               = high[p]
  <2>0. low[p] \in Nat /\ high[p] \in Nat /\ low[p] <= high[p] /\ high[p] <= RECORDS
    BY <1>0
  <2>1. CASE low[p] < high[p]
    <3> DEFINE last == <<p, high[p] - 1>>
    <3>1. last \in B /\ last[1] = p /\ last[2] = high[p] - 1
      BY <2>0, <2>1, <1>0 DEF Between, Record
    <3>2. high[p] - 1 \in Own(p)
      BY <3>1
    <3>3. \A x \in Own(p) : x \in Nat /\ x <= high[p] - 1
      BY <2>0, RecordShape DEF Between
    <3>4. Max(Own(p)) = high[p] - 1
      <4> HIDE DEF Own
      <4> QED BY <3>2, <3>3, <2>0 DEF Max
    <3>5. p \in {r[1] : r \in B}
      BY <3>1
    <3> QED BY <3>4, <3>5, <1>1, <2>0
  <2>2. CASE low[p] = high[p]
    <3>1. \A r \in B : r[1] # p
      BY <2>2, <2>0, RecordShape DEF Between
    <3> QED BY <3>1, <1>1, <2>2
  <2> QED BY <2>0, <2>1, <2>2
<1> QED BY <1>2

LEMMA DeliveredShape ==
  ASSUME NEW topic \in [Record -> Nat], NEW landed
  PROVE  /\ Delivered(topic, landed) \in [Record -> Nat]
         /\ \A r \in Record :
              Delivered(topic, landed)[r] = IF r \in landed THEN topic[r] + 1 ELSE topic[r]
BY DEF Delivered

-----------------------------------------------------------------------------
LEMMA TypeInit == Init => TypeInv
BY KafkaAssumption DEF Init, TypeInv, KafkaAssumption, PCs, NoTransaction

(* A commit that is applied moves the group to where the loop has read. *)
LEMMA CommitReaches ==
  ASSUME TypeInv, TransactionInv, ~IsPull, pc = "committing", Applied
  PROVE  /\ committed' = position
         /\ out' = Delivered(out, batch)
         /\ transaction' = NoTransaction
<1>1. /\ batch = Between(committed, position) /\ transaction.sent = batch
      /\ transaction.offsets = CommitPositions(batch)
  BY DEF TransactionInv
<1>2. \A p \in Partitions : committed[p] <= position[p]
  BY DEF TypeInv
<1>3. committed' = position
  BY <1>1, <1>2, PositionsReach DEF TypeInv, Applied
<1> QED BY <1>1, <1>3 DEF Applied

LEMMA TypeStep == TypeInv /\ TransactionInv /\ [Next]_vars => TypeInv'
<1> SUFFICES ASSUME TypeInv, TransactionInv, [Next]_vars
             PROVE  TypeInv'
  OBVIOUS
<1> USE DEF TypeInv, PCs
<1>0. RECORDS \in Nat
  BY KafkaAssumption DEF KafkaAssumption
<1>1. CASE Start
  BY <1>1, <1>0 DEF Start, broker
<1>2. CASE TakeRecord
  <2>1. PICK p \in Partitions :
          /\ position[p] < RECORDS
          /\ position' = [position EXCEPT ![p] = @ + 1]
          /\ batch' = batch \cup {<<p, position[p]>>} \/ batch' = batch
          /\ rejected' = {<<p, position[p]>>} \/ rejected' = rejected
    BY <1>2 DEF TakeRecord
  <2>2. pc' \in PCs /\ pc = "reading" /\ UNCHANGED <<service, committed, out, dead, transaction>>
    BY <1>2 DEF TakeRecord, Processing, broker
  <2>3. <<p, position[p]>> \in Record
    BY <2>1, <1>0 DEF Record
  <2>4. position' \in [Partitions -> 0 .. RECORDS]
    BY <2>1, <1>0
  <2>5. \A q \in Partitions : committed[q] <= position'[q]
    BY <2>1, <2>2, <1>0
  <2> QED BY <2>1, <2>2, <2>3, <2>4, <2>5
<1>3. CASE EndStream
  BY <1>3 DEF EndStream, Processing, broker
<1>4. CASE Crash
  BY <1>4 DEF Crash, broker
<1>5. CASE SendOutputs
  BY <1>5, DeliveredShape DEF SendOutputs
<1>6. CASE CommitStored
  <2>1. PICK done \in SUBSET Partitions :
          committed' = [p \in Partitions |-> IF p \in done THEN position[p] ELSE committed[p]]
    BY <1>6 DEF CommitStored
  <2>2. pc' \in PCs /\ pc = "committing"
        /\ UNCHANGED <<service, position, batch, rejected, transaction, out, dead>>
    BY <1>6 DEF CommitStored, Onwards
  <2>3. committed' \in [Partitions -> 0 .. RECORDS]
    BY <2>1
  <2>4. \A p \in Partitions : committed'[p] <= position[p]
    BY <2>1, <2>2, <1>0
  <2> QED BY <2>2, <2>3, <2>4
<1>7. CASE SendDead
  BY <1>7, DeliveredShape DEF SendDead
<1>8. CASE Begin
  BY <1>8 DEF Begin, NewTransaction, NoTransaction
<1>9. CASE SendBatch
  BY <1>9 DEF SendBatch, Enlist
<1>10. CASE SendOffsets
  BY <1>10 DEF SendOffsets, Enlist
<1>11. CASE Commit
  <2>1. ~IsPull /\ pc = "committing" /\ pc' \in PCs /\ batch' \in {batch, {}}
        /\ UNCHANGED <<service, position, rejected, dead>>
    BY <1>11 DEF Commit, Onwards
  <2>2. CASE Applied
    BY <2>1, <2>2, CommitReaches, DeliveredShape, <1>0 DEF NoTransaction
  <2>3. CASE UNCHANGED <<out, committed, transaction>>
    BY <2>1, <2>3
  <2> QED BY <1>11, <2>2, <2>3 DEF Commit
<1>12. CASE Abort
  BY <1>12 DEF Abort, NoTransaction
<1>13. CASE UNCHANGED vars
  BY <1>13 DEF vars, loop, broker
<1> QED
  BY <1>1, <1>2, <1>3, <1>4, <1>5, <1>6, <1>7, <1>8, <1>9, <1>10, <1>11, <1>12, <1>13
     DEF Next, Works

-----------------------------------------------------------------------------
LEMMA TransactionInit == Init => TransactionInv
<1> SUFFICES ASSUME Init PROVE TransactionInv
  OBVIOUS
<1>1. \A r \in Record : out[r] = 0 /\ ~(r[2] < committed[r[1]])
  BY RecordShape DEF Init
<1> QED BY <1>1 DEF Init, TransactionInv, ExactlyOnce, Done

(* Where no record moves downstream and nothing is committed, exactly once  *)
(* is kept.                                                                *)
LEMMA ExactlyOnceKept ==
  ASSUME ExactlyOnce, UNCHANGED <<service, out, committed>>
  PROVE  ExactlyOnce'
BY DEF ExactlyOnce, Done, IsPull

LEMMA TransactionStep ==
  TypeInv /\ TransactionInv /\ [Next]_vars => TransactionInv'
<1> SUFFICES ASSUME TypeInv, TransactionInv, [Next]_vars, ~IsPull'
             PROVE  TransactionInv'
  BY DEF TransactionInv
<1>0. RECORDS \in Nat
  BY KafkaAssumption DEF KafkaAssumption
<1>s. service' = service /\ ~IsPull /\ service.rejects = {}
  <2>1. service' = service
    BY DEF Next, Works, Start, TakeRecord, EndStream, Crash, SendOutputs, CommitStored,
           SendDead, Begin, SendBatch, SendOffsets, Enlist, Commit, Abort, vars
  <2> QED BY <2>1, ServiceShape DEF IsPull, TypeInv
<1>e. ExactlyOnce
  BY <1>s DEF TransactionInv
<1>k. UNCHANGED <<out, committed>> => ExactlyOnce'
  BY <1>e, <1>s, ExactlyOnceKept
<1>1. CASE Start
  <2>1. pc' = "reading" /\ batch' = {} /\ position' = committed /\ committed' = committed
    BY <1>1 DEF Start, broker
  <2>2. Between(committed, committed) = {}
    BY RecordShape, <1>0 DEF Between, TypeInv
  <2> QED BY <1>1, <2>1, <2>2, <1>k DEF Start, TransactionInv, broker
<1>2. CASE TakeRecord
  <2>1. PICK p \in Partitions :
          /\ position[p] < RECORDS
          /\ position' = [position EXCEPT ![p] = @ + 1]
          /\ batch' = batch \cup {<<p, position[p]>>}
          /\ pc' \in {"beginning", "reading"}
    BY <1>2, <1>s DEF TakeRecord, Processing
  <2>2. pc = "reading" /\ UNCHANGED <<out, committed>>
    BY <1>2 DEF TakeRecord, broker
  <2>3. batch = Between(committed, position)
    BY <2>2, <1>s DEF TransactionInv
  <2>4. /\ committed[p] \in Nat /\ position[p] \in Nat /\ committed[p] <= position[p]
        /\ \A q \in Partitions : committed[q] \in Nat /\ position[q] \in Nat
    BY <2>2, <1>0 DEF TypeInv
  <2>5. Between(committed, position') = Between(committed, position) \cup {<<p, position[p]>>}
    <3>1. ASSUME NEW r \in Record
          PROVE  r \in Between(committed, position')
                   <=> r \in Between(committed, position) \/ r = <<p, position[p]>>
      <4>1. CASE r[1] = p
        <5>1. position'[p] = position[p] + 1
          BY <2>1 DEF TypeInv
        <5>2. r = <<p, position[p]>> <=> r[2] = position[p]
          BY <4>1, RecordShape
        <5> QED BY <4>1, <5>1, <5>2, <2>4, RecordShape DEF Between
      <4>2. CASE r[1] # p
        <5>1. position'[r[1]] = position[r[1]]
          BY <4>2, <2>1, RecordShape DEF TypeInv
        <5>2. r # <<p, position[p]>>
          BY <4>2
        <5> QED BY <5>1, <5>2 DEF Between
      <4> QED BY <4>1, <4>2
    <3>2. <<p, position[p]>> \in Record
      BY <2>1, <2>4, <1>0 DEF Record
    <3> QED BY <3>1, <3>2 DEF Between
  <2> QED BY <2>1, <2>2, <2>3, <2>5, <1>k DEF TransactionInv
<1>3. CASE EndStream
  BY <1>3, <1>k, <1>s DEF EndStream, TransactionInv, Processing, broker
<1>4. CASE Crash
  BY <1>4, <1>k DEF Crash, TransactionInv, broker
<1>5. CASE SendOutputs \/ CommitStored \/ SendDead
  BY <1>5, <1>s DEF SendOutputs, CommitStored, SendDead
<1>7. CASE Begin
  BY <1>7, <1>k, <1>s DEF Begin, TransactionInv
<1>8. CASE SendBatch
  <2>1. PICK landed \in SUBSET batch :
          /\ transaction' = [transaction EXCEPT !.sent = landed]
          /\ pc' = "offsets" => landed = batch
    BY <1>8 DEF SendBatch
  <2>2. transaction'.sent = landed
    BY <2>1 DEF TypeInv
  <2> QED BY <1>8, <2>1, <2>2, <1>k, <1>s DEF SendBatch, Enlist, TransactionInv
<1>9. CASE SendOffsets
  <2>1. CASE pc' = "committing"
    <3>1. transaction' = [transaction EXCEPT !.offsets = CommitPositions(batch)]
      BY <1>9, <2>1 DEF SendOffsets
    <3>2. transaction'.offsets = CommitPositions(batch) /\ transaction'.sent = transaction.sent
      BY <3>1 DEF TypeInv
    <3>3. pc = "offsets" /\ UNCHANGED <<position, batch, committed, out>>
      BY <1>9 DEF SendOffsets, Enlist
    <3>4. CommitPositions(batch)' = CommitPositions(batch)
      BY <3>3 DEF CommitPositions
    <3> QED BY <2>1, <3>2, <3>3, <3>4, <1>k, <1>s DEF TransactionInv
  <2>2. CASE pc' = "aborting"
    BY <1>9, <2>2, <1>k DEF SendOffsets, Enlist, TransactionInv
  <2> QED BY <1>9, <2>1, <2>2 DEF SendOffsets, Enlist
<1>10. CASE Commit
  <2>1. pc = "committing" /\ batch = Between(committed, position)
    BY <1>10, <1>s DEF Commit, TransactionInv
  <2>2. CASE Applied
    <3>1. committed' = position /\ out' = Delivered(out, batch)
      BY <1>s, <2>1, <2>2, CommitReaches
    <3>2. ExactlyOnce'
      <4>1. ASSUME NEW r \in Record
            PROVE  out'[r] = IF r[2] < committed'[r[1]] THEN 1 ELSE 0
        <5>1. /\ committed[r[1]] \in Nat /\ position[r[1]] \in Nat
              /\ committed[r[1]] <= position[r[1]]
          BY RecordShape, <2>1, <1>0 DEF TypeInv
        <5>2. out[r] = IF r[2] < committed[r[1]] THEN 1 ELSE 0
          BY <1>e, <1>s DEF ExactlyOnce, Done
        <5>3. out'[r] = IF r \in batch THEN out[r] + 1 ELSE out[r]
          BY <3>1, DeliveredShape DEF TypeInv
        <5>4. r \in batch <=> committed[r[1]] <= r[2] /\ r[2] < position[r[1]]
          BY <2>1 DEF Between
        <5> QED BY <3>1, <5>1, <5>2, <5>3, <5>4, RecordShape
      <4> QED BY <4>1, <1>s DEF ExactlyOnce, Done
    <3>3. CASE pc' = "aborting"
      BY <3>2, <3>3 DEF TransactionInv
    <3>4. CASE pc' = Onwards /\ batch' = {}
      <4>1. position' = position
        BY <1>10 DEF Commit
      <4>2. Between(position, position) = {}
        BY RecordShape, <1>0 DEF Between, TypeInv
      <4> QED BY <3>1, <3>2, <3>4, <4>1, <4>2 DEF TransactionInv, Onwards
    <3> QED BY <1>10, <3>3, <3>4 DEF Commit
  <2>3. CASE UNCHANGED <<out, committed, transaction>> /\ pc' = "aborting"
    BY <2>3, <1>k DEF TransactionInv
  <2> QED BY <1>10, <2>2, <2>3 DEF Commit
<1>11. CASE Abort
  BY <1>11, <1>k DEF Abort, TransactionInv
<1>12. CASE UNCHANGED vars
  <2>1. CommitPositions(batch)' = CommitPositions(batch)
    BY <1>12 DEF CommitPositions, vars, loop
  <2> QED BY <1>12, <2>1, <1>k, <1>s DEF vars, loop, broker, TransactionInv
<1> QED
  BY <1>1, <1>2, <1>3, <1>4, <1>5, <1>7, <1>8, <1>9, <1>10, <1>11, <1>12
     DEF Next, Works

-----------------------------------------------------------------------------
(* Deployments that take records to reject one by one, as BATCH_SIZE 1 does. *)
OneByOne ==
  \A s \in Services : s.kind = "pull" => s.rejects = {} \/ s.batch = 1

LEMMA PullInit == Init => PullInv
<1> SUFFICES ASSUME Init PROVE PullInv
  OBVIOUS
<1>1. \A r \in Record : ~(r[2] < committed[r[1]])
  BY RecordShape DEF Init
<1> QED BY <1>1 DEF Init, PullInv, AtLeastOnce, Done

LEMMA PullStep ==
  ASSUME OneByOne, TypeInv, PullInv, [Next]_vars
  PROVE  PullInv'
<1> SUFFICES ASSUME IsPull'
             PROVE  PullInv'
  BY DEF PullInv
<1>0. RECORDS \in Nat
  BY KafkaAssumption DEF KafkaAssumption
<1>s. service' = service /\ IsPull
  <2>1. service' = service
    BY DEF Next, Works, Start, TakeRecord, EndStream, Crash, SendOutputs, CommitStored,
           SendDead, Begin, SendBatch, SendOffsets, Enlist, Commit, Abort, vars
  <2> QED BY <2>1 DEF IsPull
<1>i. /\ AtLeastOnce
      /\ \A r \in Record :
           pc # "down" /\ r[2] < position[r[1]] =>
             Arrived(r) \/ r \in batch \/ r \in rejected
      /\ batch \cap service.rejects = {} /\ rejected \subseteq service.rejects
      /\ pc = "reading" => rejected = {} /\ (service.rejects # {} => batch = {})
      /\ pc = "sending" => rejected = {}
      /\ pc = "committing" => batch = {} /\ rejected = {}
      /\ pc = "deadLetter" => batch = {}
  BY <1>s DEF PullInv
(* What has arrived stays, so nothing is lost while nothing is committed.  *)
<1>a. ASSUME \A r \in Record : Arrived(r) => Arrived(r)', UNCHANGED committed
      PROVE  AtLeastOnce'
  BY <1>a, <1>i, <1>s DEF AtLeastOnce, Arrived, Done
<1>b. UNCHANGED <<out, dead>> => \A r \in Record : Arrived(r)' <=> Arrived(r)
  BY <1>s DEF Arrived
<1>1. CASE Start
  <2>1. /\ pc' = "reading" /\ batch' = {} /\ rejected' = {} /\ position' = committed
        /\ UNCHANGED <<committed, out, dead>>
    BY <1>1 DEF Start, broker
  <2>2. \A r \in Record : r[2] < committed[r[1]] => Arrived(r)
    BY <1>i DEF AtLeastOnce, Arrived, Done
  <2> QED BY <2>1, <2>2, <1>a, <1>b, <1>s DEF PullInv
<1>2. CASE TakeRecord
  <2>1. PICK p \in Partitions :
          LET rec == <<p, position[p]>> IN
          /\ position[p] < RECORDS
          /\ position' = [position EXCEPT ![p] = @ + 1]
          /\ \/ /\ rec \in service.rejects /\ rejected' = {rec}
                /\ pc' = IF batch = {} THEN "deadLetter" ELSE "sending"
                /\ UNCHANGED batch
             \/ /\ rec \notin service.rejects /\ batch' = batch \cup {rec}
                /\ pc' = IF Full(batch') THEN "sending" ELSE "reading"
                /\ UNCHANGED rejected
    BY <1>2, <1>s DEF TakeRecord, Processing
  <2> DEFINE rec == <<p, position[p]>>
  <2>2. pc = "reading" /\ rejected = {} /\ UNCHANGED <<committed, out, dead>>
    BY <1>2, <1>i DEF TakeRecord, broker
  <2>3. ASSUME NEW r \in Record, r[2] < position'[r[1]]
        PROVE  r[2] < position[r[1]] \/ r = rec
    <3>1. CASE r[1] = p
      BY <3>1, <2>1, <2>3, <1>0, RecordShape DEF TypeInv
    <3>2. CASE r[1] # p
      BY <3>2, <2>1, <2>3, RecordShape DEF TypeInv
    <3> QED BY <3>1, <3>2
  <2>4. CASE rec \in service.rejects
    <3>1. batch = {}
      BY <2>2, <2>4, <1>i
    <3> QED BY <2>1, <2>2, <2>3, <2>4, <3>1, <1>a, <1>b, <1>i, <1>s DEF PullInv
  <2>5. CASE rec \notin service.rejects
    <3>1. batch' = batch \cup {rec} /\ UNCHANGED rejected
      BY <2>1, <2>5
    <3>2. pc' = "reading" => ~(service.rejects # {})
      <4> SUFFICES ASSUME service.rejects # {}
                   PROVE  Full(batch')
        BY <2>1, <2>5
      <4>1. batch' = {rec}
        BY <3>1, <2>2, <1>i
      <4>2. service.batch = 1
        BY <1>s, ServiceShape DEF OneByOne, TypeInv, IsPull
      <4>3. Cardinality({rec}) = 1
        BY FS_Singleton
      <4> QED BY <4>1, <4>2, <4>3 DEF Full
    <3>3. pc' \in {"sending", "reading"}
      BY <2>1, <2>5
    <3> QED BY <2>2, <2>3, <2>5, <3>1, <3>2, <3>3, <1>a, <1>b, <1>i, <1>s DEF PullInv
  <2> QED BY <2>4, <2>5
<1>3. CASE EndStream
  <2>1. /\ pc = "reading" /\ pc' \in {"down", "sending"}
        /\ UNCHANGED <<batch, rejected, position, committed, out, dead>>
    BY <1>3, <1>s DEF EndStream, Processing, broker
  <2> QED BY <2>1, <1>a, <1>b, <1>i, <1>s DEF PullInv
<1>4. CASE Crash
  <2>1. pc' = "down" /\ UNCHANGED <<batch, rejected, position, committed, out, dead>>
    BY <1>4 DEF Crash, broker
  <2> QED BY <2>1, <1>a, <1>b, <1>i, <1>s DEF PullInv
<1>5. CASE SendOutputs
  <2>1. PICK landed \in SUBSET batch :
          /\ out' = Delivered(out, landed)
          /\ (landed = batch /\ pc' = "committing") \/ pc' = "down"
    BY <1>5 DEF SendOutputs
  <2>2. pc = "sending" /\ batch' = {} /\ UNCHANGED <<position, rejected, committed, dead>>
    BY <1>5 DEF SendOutputs
  <2>3. \A r \in Record : out[r] \in Nat /\
          out'[r] = IF r \in landed THEN out[r] + 1 ELSE out[r]
    BY <2>1, DeliveredShape DEF TypeInv
  <2>4. \A r \in Record : Arrived(r) => Arrived(r)'
    BY <2>2, <2>3, <1>s DEF Arrived
  <2>5. \A r \in Record : r \in landed => Arrived(r)'
    BY <2>1, <2>3, <1>i, <1>s DEF Arrived
  <2> QED BY <2>1, <2>2, <2>4, <2>5, <1>a, <1>i, <1>s DEF PullInv
<1>6. CASE CommitStored
  <2>1. PICK done \in SUBSET Partitions :
          committed' = [p \in Partitions |-> IF p \in done THEN position[p] ELSE committed[p]]
    BY <1>6 DEF CommitStored
  <2>2. /\ pc = "committing" /\ batch = {} /\ rejected = {} /\ pc' \in {"down", "reading"}
        /\ UNCHANGED <<position, batch, rejected, out, dead>>
    BY <1>6, <1>i DEF CommitStored, Onwards
  <2>3. \A r \in Record : r[2] < committed'[r[1]] => Arrived(r)'
    BY <2>1, <2>2, <1>i, <1>b, RecordShape DEF AtLeastOnce, Arrived, Done
  <2>4. AtLeastOnce'
    BY <2>3 DEF AtLeastOnce, Arrived, Done
  <2> QED BY <2>2, <2>4, <1>b, <1>i, <1>s DEF PullInv
<1>7. CASE SendDead
  <2>1. PICK landed \in SUBSET rejected :
          /\ dead' = Delivered(dead, landed)
          /\ (landed = rejected /\ pc' = "committing") \/ pc' = "down"
    BY <1>7 DEF SendDead
  <2>2. /\ pc = "deadLetter" /\ rejected' = {} /\ batch = {}
        /\ UNCHANGED <<position, batch, committed, out>>
    BY <1>7, <1>i DEF SendDead
  <2>3. \A r \in Record : dead[r] \in Nat /\
          dead'[r] = IF r \in landed THEN dead[r] + 1 ELSE dead[r]
    BY <2>1, DeliveredShape DEF TypeInv
  <2>4. \A r \in Record : Arrived(r) => Arrived(r)'
    BY <2>2, <2>3, <1>s DEF Arrived
  <2>5. \A r \in Record : r \in landed => Arrived(r)'
    BY <2>1, <2>3, <1>i, <1>s DEF Arrived
  <2> QED BY <2>1, <2>2, <2>4, <2>5, <1>a, <1>i, <1>s DEF PullInv
<1>8. CASE Begin \/ SendBatch \/ SendOffsets \/ Commit \/ Abort
  BY <1>8, <1>s DEF Begin, SendBatch, SendOffsets, Enlist, Commit, Abort
<1>9. CASE UNCHANGED vars
  BY <1>9, <1>a, <1>b, <1>i, <1>s DEF vars, loop, broker, PullInv
<1> QED
  BY <1>1, <1>2, <1>3, <1>4, <1>5, <1>6, <1>7, <1>8, <1>9 DEF Next, Works

-----------------------------------------------------------------------------
(***************************************************************************)
(* The transactional service writes every record once, whatever fails and  *)
(* whenever it ends: what is read downstream is what is committed          *)
(* (process_batch).                                                        *)
(***************************************************************************)
THEOREM ExactlyOnceHolds == Spec => []ExactlyOnce
<1>1. Init => TypeInv /\ TransactionInv
  BY TypeInit, TransactionInit
<1>2. TypeInv /\ TransactionInv /\ [Next]_vars => (TypeInv /\ TransactionInv)'
  BY TypeStep, TransactionStep
<1>3. TransactionInv => ExactlyOnce
  BY DEF TransactionInv, ExactlyOnce
<1> QED BY <1>1, <1>2, <1>3, PTL DEF Spec

(***************************************************************************)
(* The services lose no record where those that are rejected are taken one *)
(* by one, whatever fails and whenever they end: for the pull service      *)
(* (flush_outputs, commit_stored) by PullInv, for the transactional one    *)
(* because it does not even repeat any.                                    *)
(***************************************************************************)
THEOREM AtLeastOnceHolds ==
  ASSUME OneByOne
  PROVE  Spec => []AtLeastOnce
<1>1. Init => TypeInv /\ TransactionInv /\ PullInv
  BY TypeInit, TransactionInit, PullInit
<1>2. TypeInv /\ TransactionInv /\ PullInv /\ [Next]_vars
        => (TypeInv /\ TransactionInv /\ PullInv)'
  BY TypeStep, TransactionStep, PullStep, OneByOne
<1>3. TypeInv /\ TransactionInv /\ PullInv => AtLeastOnce
  <2> SUFFICES ASSUME TypeInv, TransactionInv, PullInv
               PROVE  AtLeastOnce
    OBVIOUS
  <2>1. CASE IsPull
    BY <2>1 DEF PullInv
  <2>2. CASE ~IsPull
    <3>1. service.rejects = {} /\ ExactlyOnce
      BY <2>2, ServiceShape DEF TypeInv, TransactionInv
    <3> QED BY <3>1, <2>2 DEF AtLeastOnce, ExactlyOnce, Done
  <2> QED BY <2>1, <2>2
<1> QED BY <1>1, <1>2, <1>3, PTL DEF Spec
=============================================================================
