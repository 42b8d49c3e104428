---------------------------- MODULE KafkaHandler ----------------------------
(***************************************************************************)
(* The Kafka component that the host drives: a handler, called with a      *)
(* batch of one partition, says how far it got.                            *)
(*                                                                         *)
(* The host is external, after cosmonic:kafka and the comments of the      *)
(* handler: it commits past what was handled, redelivers the rest,         *)
(* dead-letters the first record of a batch that failed for good, or that  *)
(* trapped five times, and starts over from the last commit when the       *)
(* partition moves.                                                        *)
(***************************************************************************)
EXTENDS Naturals, Integers, Sequences, FiniteSets, FiniteSetsExt

CONSTANTS
  Kinds,            \* of records: "text", "null", "bad"
  Length,           \* of the partition
  BATCH,            \* handler.batch.size
  MAX_TRAPS,        \* traps that dead-letter a record
  MaxFaults         \* bound on traps and rebalances

Offsets == 0..(Length - 1)

VARIABLES
  log,         \* the kind of each record
  position,    \* the committed position
  batch,       \* offsets the handler is called with
  traps,       \* traps of the record at the position
  processed, dead,   \* records that were handled, and that were dead-lettered
  trapped,     \* records that ever trapped
  faults

vars == <<log, position, batch, traps, processed, dead, trapped, faults>>

None == {}

\* Where handle stops: the first record that is not UTF-8.  Null values are handled.
Stop(records) ==
  LET bad == {o \in records : log[o] = "bad"} IN IF bad = {} THEN None ELSE {Min(bad)}

\* Mutant of handle: the error is reported although records before it were handled.
handle_forgetful(records) ==
  IF Stop(records) = None THEN [is |-> "all", through |-> -1]
  ELSE [is |-> "permanent", through |-> -1]

\* What handle returns for a batch.
handle(records) ==
  LET stop == Stop(records)
      handled == {o \in records : stop # None => o < Min(stop)}
  IN IF stop = None THEN [is |-> "all", through |-> -1]
     ELSE IF handled = {} THEN [is |-> "permanent", through |-> -1]
     ELSE [is |-> "through", through |-> Max(handled)]

Deliver ==
  /\ batch = {} /\ position < Length
  /\ \E n \in 1..BATCH : batch' = {o \in Offsets : o >= position /\ o < position + n}
  /\ UNCHANGED <<log, position, traps, processed, dead, trapped, faults>>

\* handle returns; the host commits, redelivers or dead-letters.
Handle ==
  /\ batch # {}
  /\ LET result == handle(batch)
         done == CASE result.is = "all" -> batch
                   [] result.is = "through" -> {o \in batch : o <= result.through}
                   [] OTHER -> {}
     IN /\ processed' = processed \cup done
        /\ dead' = IF result.is = "permanent" THEN dead \cup {position} ELSE dead
        /\ position' = IF result.is = "permanent" THEN position + 1 ELSE Max(done) + 1
  /\ batch' = {} /\ traps' = 0
  /\ UNCHANGED <<log, trapped, faults>>

\* It traps in the middle of the batch.
Trap ==
  /\ batch # {} /\ faults < MaxFaults /\ faults' = faults + 1
  /\ batch' = {}
  /\ trapped' = trapped \cup {position}
  /\ IF traps + 1 = MAX_TRAPS
     THEN dead' = dead \cup {position} /\ position' = position + 1 /\ traps' = 0
     ELSE traps' = traps + 1 /\ UNCHANGED <<dead, position>>
  /\ UNCHANGED <<log, processed>>

\* The partition moves; what was returned and not committed is delivered again.
Rebalance ==
  /\ batch # {} /\ faults < MaxFaults /\ faults' = faults + 1
  /\ batch' = {} /\ traps' = 0
  /\ UNCHANGED <<log, position, processed, dead, trapped>>

Init ==
  /\ log \in [Offsets -> Kinds]
  /\ position = 0 /\ batch = {} /\ traps = 0
  /\ processed = {} /\ dead = {} /\ trapped = {} /\ faults = 0

Next == Deliver \/ Handle \/ Trap \/ Rebalance

Spec == Init /\ [][Next]_vars
FairSpec == Spec /\ WF_vars(Deliver) /\ WF_vars(Handle)

-----------------------------------------------------------------------------

\* What is committed was handled or dead-lettered, and only records that cannot be
\* read or that brought the handler down are dead-lettered, however the batches are
\* cut and wherever the handler stops in them.
NothingIsSkipped ==
  /\ \A o \in Offsets : o < position => o \in processed \cup dead
  /\ \A o \in dead : log[o] = "bad" \/ o \in trapped
  /\ \A o \in processed : log[o] # "bad"

\* A record that never succeeds does not stop the partition.
PartitionEnds == <>(position = Length)
=============================================================================
