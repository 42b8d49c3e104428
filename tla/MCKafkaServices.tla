-------------------------- MODULE MCKafkaServices --------------------------
(***************************************************************************)
(* Deployments of the Kafka services for TLC: two partitions.              *)
(***************************************************************************)
EXTENDS KafkaServices

Pull(size, rejects) == [kind |-> "pull", batch |-> size, rejects |-> rejects]
Transactional(size) == [kind |-> "transactional", batch |-> size, rejects |-> {}]

(* As deployed (BATCH_SIZE 1), in batches without rejects, and in transactions. *)
AllServices ==
  { Pull(1, {<<1, 0>>}), Pull(1, {<<1, 1>>, <<2, 0>>}), Pull(2, {}), Pull(3, {}),
    Transactional(1), Transactional(2), Transactional(3) }

(* A batch of two in a stream that holds a record the transform rejects. *)
Rejecting == { Pull(2, {<<1, 1>>}) }
=============================================================================
