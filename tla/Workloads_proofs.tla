-------------------------- MODULE Workloads_proofs --------------------------
(***************************************************************************)
(* Theorems about the programs that the host calls for a batch, a message  *)
(* or a request, each for every value of its constants that the theorem    *)
(* assumes.  They share no state; `app!X' is X of the program `app'.        *)
(***************************************************************************)
EXTENDS Workloads, Folding_proofs

-----------------------------------------------------------------------------
(***************************************************************************)
(* Numbers.                                                                *)
(***************************************************************************)
(* Numbers up to n have a greatest. *)
LEMMA Greatest ==
  ASSUME NEW n \in Nat, NEW T, T \subseteq 0..n, T # {}
  PROVE  \E x \in T : \A y \in T : y <= x
<1> DEFINE U == { n - y : y \in T }
<1>1. ASSUME NEW y \in T PROVE y \in Int /\ n - y \in Nat
  <2>1. y \in 0..n
    OBVIOUS
  <2> QED
    BY <2>1
<1>2. PICK u \in U : \A v \in U : u <= v
  BY <1>1, Least
<1>3. PICK x \in T : u = n - x
  BY <1>2
<1>4. ASSUME NEW y \in T PROVE y <= x
  <2>1. n - x <= n - y
    BY <1>2, <1>3
  <2> QED
    BY <1>1, <2>1
<1> QED
  BY <1>4

-----------------------------------------------------------------------------
(***************************************************************************)
(* The Kafka handler.                                                      *)
(***************************************************************************)
(* A batch starts at the committed position, and follows it without a gap.  *)
Contiguous ==
  \A o \in batch : /\ o >= position
                   /\ \A p \in position..o : p \in batch

HandlerInv ==
  /\ position \in 0..Length
  /\ batch \subseteq Handler!Offsets
  /\ processed \cup dead \cup trapped \subseteq Handler!Offsets
  /\ batch # {} => position \in batch
  /\ Contiguous
  /\ Handler!NothingIsSkipped

LEMMA OffsetIs ==
  ASSUME Length \in Nat, NEW o \in Handler!Offsets
  PROVE  /\ o \in Nat /\ o \in Int /\ o < Length
         /\ o + 1 \in 0..Length
<1>1. o \in 0..(Length - 1)
  BY DEF Handler!Offsets
<1> QED
  BY <1>1

LEMMA MinOffset ==
  ASSUME Length \in Nat, NEW S \in SUBSET Handler!Offsets, S # {}
  PROVE  Handler!Min(S) \in S /\ \A o \in S : Handler!Min(S) <= o
<1>1. \E x \in S : \A y \in S : x <= y
  BY Least DEF Handler!Offsets
<1> QED
  BY <1>1 DEF Handler!Min

LEMMA MaxOffset ==
  ASSUME Length \in Nat, NEW S \in SUBSET Handler!Offsets, S # {}
  PROVE  Handler!Max(S) \in S /\ \A o \in S : o <= Handler!Max(S)
<1>1. S \subseteq 0..(Length - 1) /\ S \subseteq Nat /\ Length - 1 \in Nat
  <2>1. PICK x : x \in S
    OBVIOUS
  <2>2. S \subseteq 0..(Length - 1)
    BY DEF Handler!Offsets
  <2>3. x \in 0..(Length - 1)
    BY <2>1, <2>2
  <2>4. Length - 1 \in Nat
    BY <2>3
  <2> QED
    BY <2>2, <2>4
<1>2. \E x \in S : \A y \in S : y <= x
  <2> DEFINE n == Length - 1
  <2>1. n \in Nat /\ S \subseteq 0..n
    BY <1>1
  <2> HIDE DEF n
  <2> QED
    BY <2>1, Greatest
<1>3. \E x \in S : \A y \in S : x >= y
  BY <1>1, <1>2
<1> QED
  BY <1>3, <1>1 DEF Handler!Max

(* handle says all, or how far it got, or that the first record is bad.    *)
LEMMA HandleSays ==
  ASSUME Length \in Nat, HandlerInv, batch # {}
  PROVE  LET r == Handler!handle(batch)
         IN  \/ r.is = "all" /\ \A o \in batch : log[o] # "bad"
             \/ /\ r.is = "through" /\ r.through \in batch
                /\ \A o \in batch : o <= r.through => log[o] # "bad"
             \/ r.is = "permanent" /\ log[position] = "bad"
<1> DEFINE r == Handler!handle(batch)
           bad == {o \in batch : log[o] = "bad"}
           b == Handler!Min(bad)
           handled == {o \in batch : o < b}
<1>1. batch \subseteq Handler!Offsets /\ bad \subseteq Handler!Offsets
  BY DEF HandlerInv
<1>2. CASE bad = {}
  <2>1. r.is = "all"
    BY <1>2 DEF Handler!handle, Handler!Stop, Handler!None
  <2> QED
    BY <1>2, <2>1
<1>3. CASE bad # {}
  <2>1. b \in bad /\ \A o \in bad : b <= o
    BY <1>1, <1>3, MinOffset
  <2> HIDE DEF b
  <2>2. Handler!Stop(batch) = {b} /\ {b} # Handler!None
    BY <1>3 DEF Handler!Stop, Handler!None, b
  <2>3. Handler!Min({b}) = b
    <3>1. b \in Handler!Offsets
      BY <1>1, <2>1
    <3>2. Handler!Min({b}) \in {b}
      BY <3>1, MinOffset
    <3> QED
      BY <3>2
  <2>4. {o \in batch : Handler!Stop(batch) # Handler!None => o < Handler!Min(Handler!Stop(batch))}
          = handled
    BY <2>2, <2>3
  <2>5. r = IF handled = {} THEN [is |-> "permanent", through |-> -1]
            ELSE [is |-> "through", through |-> Handler!Max(handled)]
    BY <2>2, <2>4 DEF Handler!handle
  <2>6. b \in Int /\ \A o \in batch : o \in Int
    BY <1>1, <2>1 DEF Handler!Offsets
  <2>7. CASE handled = {}
    <3>1. position \in batch
      BY DEF HandlerInv
    <3>2. ~(position < b)
      BY <2>7, <3>1
    <3>3. b >= position
      BY <2>1 DEF HandlerInv, Contiguous
    <3>4. position = b
      BY <2>6, <3>1, <3>2, <3>3
    <3> QED
      BY <2>1, <2>5, <2>7, <3>4
  <2>8. CASE handled # {}
    <3>1. r.is = "through" /\ r.through = Handler!Max(handled)
      BY <2>5, <2>8
    <3>2. handled \subseteq Handler!Offsets
      BY <1>1
    <3>3. Handler!Max(handled) \in handled
      BY <2>8, <3>2, MaxOffset
    <3>4. r.through \in batch /\ r.through < b
      BY <3>1, <3>3
    <3>5. ASSUME NEW o \in batch, o <= r.through PROVE log[o] # "bad"
      <4>1. o < b
        BY <2>6, <3>4, <3>5
      <4> QED
        BY <2>1, <2>6, <4>1
    <3> QED
      BY <3>1, <3>4, <3>5
  <2> QED
    BY <2>7, <2>8
<1> QED
  BY <1>2, <1>3

LEMMA HandlerKeeps ==
  ASSUME Length \in Nat, BATCH_SIZE \in Nat, HandlerInv, [Handler!Next]_Handler!vars
  PROVE  HandlerInv'
<1>1. CASE Handler!Deliver
  <2>1. PICK n \in 1..BATCH_SIZE : batch' = {o \in Handler!Offsets : o >= position /\ o < position + n}
    BY <1>1 DEF Handler!Deliver
  <2>2. position \in 0..Length /\ position < Length
    BY <1>1 DEF HandlerInv, Handler!Deliver
  <2>3. UNCHANGED <<log, position, processed, dead, trapped>>
    BY <1>1 DEF Handler!Deliver
  <2>4. batch' \subseteq Handler!Offsets /\ position \in batch'
    BY <2>1, <2>2 DEF Handler!Offsets
  <2>5. Contiguous'
    <3>1. ASSUME NEW o \in batch' PROVE o >= position /\ \A p \in position..o : p \in batch'
      BY <2>1, <2>2 DEF Handler!Offsets
    <3> QED
      BY <2>3, <3>1 DEF Contiguous
  <2>6. (processed \cup dead \cup trapped)' \subseteq Handler!Offsets
    BY <2>3 DEF HandlerInv
  <2> QED
    BY <2>2, <2>3, <2>4, <2>5, <2>6 DEF HandlerInv, Handler!NothingIsSkipped
<1>2. CASE Handler!Handle
  <2> DEFINE result == Handler!handle(batch)
             done == CASE result.is = "all" -> batch
                       [] result.is = "through" -> {o \in batch : o <= result.through}
                       [] OTHER -> {}
  <2>1. /\ batch # {} /\ batch' = {} /\ log' = log /\ trapped' = trapped
        /\ processed' = processed \cup done
        /\ dead' = IF result.is = "permanent" THEN dead \cup {position} ELSE dead
        /\ position' = IF result.is = "permanent" THEN position + 1 ELSE Handler!Max(done) + 1
    BY <1>2 DEF Handler!Handle
  <2>2. \/ result.is = "all" /\ \A o \in batch : log[o] # "bad"
        \/ /\ result.is = "through" /\ result.through \in batch
           /\ \A o \in batch : o <= result.through => log[o] # "bad"
        \/ result.is = "permanent" /\ log[position] = "bad"
    BY <2>1, HandleSays
  <2> HIDE DEF result
  <2>3. /\ position \in batch /\ position \in Handler!Offsets /\ position \in 0..Length
        /\ batch \subseteq Handler!Offsets
        /\ processed \cup dead \cup trapped \subseteq Handler!Offsets
        /\ Contiguous
    BY <2>1 DEF HandlerInv
  <2>4. CASE result.is = "permanent"
    <3>1. done = {} /\ log[position] = "bad"
      BY <2>2, <2>4
    <3>2. processed' = processed /\ dead' = dead \cup {position} /\ position' = position + 1
      BY <2>1, <2>4, <3>1
    <3>3. position' \in 0..Length
      <4>1. position \in Int /\ position + 1 \in 0..Length
        <5>1. position \in Handler!Offsets
          BY <2>3
        <5> QED
          BY <5>1, OffsetIs
      <4> QED
        BY <3>2, <4>1
    <3>4. Handler!NothingIsSkipped'
      <4>1. \A o \in Handler!Offsets : o < position + 1 => o < position \/ o = position
        BY <2>3, OffsetIs
      <4>2. log' = log /\ trapped' = trapped /\ Handler!NothingIsSkipped
        BY <2>1 DEF HandlerInv
      <4> HIDE DEF done
      <4> QED
        BY <3>1, <3>2, <4>1, <4>2 DEF Handler!NothingIsSkipped, Handler!Offsets
    <3> QED
      BY <2>1, <2>3, <3>2, <3>3, <3>4 DEF HandlerInv, Contiguous
  <2>5. CASE result.is # "permanent"
    <3>1. /\ done \subseteq batch /\ position \in done
          /\ \A o \in done : log[o] # "bad" /\ \A p \in position..o : p \in done
      <4>1. CASE result.is = "all"
        BY <2>2, <2>3, <2>5, <4>1 DEF Contiguous
      <4>2. CASE result.is # "all"
        <5>1. result.is = "through" /\ result.through \in batch
          BY <2>2, <2>5, <4>2
        <5>2. done = {o \in batch : o <= result.through}
          BY <5>1
        <5>3. \A o \in batch : o \in Int /\ o >= position
          BY <2>3 DEF Contiguous, Handler!Offsets
        <5> HIDE DEF done
        <5>4. position \in done
          BY <2>3, <5>1, <5>2, <5>3
        <5>5. \A o \in done : log[o] # "bad"
          BY <2>2, <5>1, <5>2
        <5>6. ASSUME NEW o \in done, NEW p \in position..o PROVE p \in done
          <6>1. p \in batch /\ o <= result.through /\ o \in Int /\ p \in Int
            BY <2>3, <5>2, <5>3 DEF Contiguous
          <6>2. position \in Int /\ result.through \in Int
            BY <2>3, <5>1, <5>3
          <6>3. p <= o
            BY <6>1, <6>2
          <6>4. p <= result.through
            BY <6>1, <6>2, <6>3
          <6> QED
            BY <5>2, <6>1, <6>4
        <5> QED
          BY <5>2, <5>4, <5>5, <5>6
      <4> QED
        BY <4>1, <4>2
    <3> HIDE DEF done
    <3>2. done \subseteq Handler!Offsets /\ done # {}
      BY <2>3, <3>1
    <3>3. Handler!Max(done) \in done /\ \A o \in done : o <= Handler!Max(done)
      BY <3>2, MaxOffset
    <3>4. processed' = processed \cup done /\ dead' = dead /\ position' = Handler!Max(done) + 1
      BY <2>1, <2>5
    <3>5. position' \in 0..Length
      <4>1. Handler!Max(done) \in Handler!Offsets
        BY <3>2, <3>3
      <4> QED
        BY <3>4, <4>1, OffsetIs
    <3>6. \A o \in Handler!Offsets : o < position' => o \in (processed \cup dead)'
      <4>1. SUFFICES ASSUME NEW o \in Handler!Offsets, o < position'
                     PROVE  o \in processed' \cup dead'
        OBVIOUS
      <4>2. o \in Int /\ position \in Int /\ Handler!Max(done) \in Int
        <5>1. Handler!Max(done) \in Handler!Offsets
          BY <3>2, <3>3
        <5> QED
          BY <2>3, <5>1, OffsetIs
      <4>3. CASE o < position
        BY <3>4, <4>3 DEF HandlerInv, Handler!NothingIsSkipped
      <4>4. CASE ~(o < position)
        <5>1. o \in position..Handler!Max(done)
          BY <3>4, <4>1, <4>2, <4>4
        <5> QED
          BY <3>1, <3>3, <3>4, <5>1
      <4> QED
        BY <4>3, <4>4
    <3>7. Handler!NothingIsSkipped'
      BY <2>1, <3>1, <3>4, <3>6 DEF HandlerInv, Handler!NothingIsSkipped, Handler!Offsets
    <3>8. (processed \cup dead \cup trapped)' \subseteq Handler!Offsets
      BY <2>1, <2>3, <3>2, <3>4
    <3> QED
      BY <2>1, <3>5, <3>7, <3>8 DEF HandlerInv, Contiguous
  <2> QED
    BY <2>4, <2>5
<1>3. CASE Handler!Trap
  <2>1. /\ batch # {} /\ batch' = {} /\ trapped' = trapped \cup {position}
        /\ log' = log /\ processed' = processed
    BY <1>3 DEF Handler!Trap
  <2>2. \/ dead' = dead \cup {position} /\ position' = position + 1
        \/ dead' = dead /\ position' = position
    BY <1>3 DEF Handler!Trap
  <2>3. position \in Handler!Offsets /\ position \in 0..Length
    BY <2>1 DEF HandlerInv
  <2>4. position' \in 0..Length
    BY <2>2, <2>3 DEF Handler!Offsets
  <2>5. Handler!NothingIsSkipped'
    BY <2>1, <2>2, <2>3 DEF HandlerInv, Handler!NothingIsSkipped, Handler!Offsets
  <2>6. (processed \cup dead \cup trapped)' \subseteq Handler!Offsets
    BY <2>1, <2>2, <2>3 DEF HandlerInv
  <2> QED
    BY <2>1, <2>4, <2>5, <2>6 DEF HandlerInv, Contiguous
<1>4. CASE Handler!Rebalance
  BY <1>4 DEF Handler!Rebalance, HandlerInv, Contiguous, Handler!NothingIsSkipped
<1>5. CASE UNCHANGED Handler!vars
  BY <1>5 DEF Handler!vars, HandlerInv, Contiguous, Handler!NothingIsSkipped
<1> QED
  BY <1>1, <1>2, <1>3, <1>4, <1>5 DEF Handler!Next

LEMMA HandlerInit == Handler!Init => HandlerInv
BY BoundsAssumption DEF BoundsAssumption, Handler!Init, HandlerInv,
   Contiguous, Handler!NothingIsSkipped, Handler!Offsets

(* What is committed was handled or dead-lettered, and only records that    *)
(* cannot be read, or that brought the handler down, are dead-lettered.    *)
LEMMA HandlerHolds == HandlerInv => Handler!NothingIsSkipped
BY DEF HandlerInv


-----------------------------------------------------------------------------
(***************************************************************************)
(* The JetStream consumer.                                                 *)
(***************************************************************************)
Call == [message : Stream, count : Nat, go : BOOLEAN, does : {"publish", "ok", "err"}]

HasReceipt(s) == \E r \in receipts : r.message = s

(* A call publishes only for a message that can be read, and says Ok only  *)
(* with the receipt in the stream, or with its last delivery; whichever    *)
(* call made a receipt, in Rust or in Go, it bears the id of its message.  *)
CallsInv ==
  \A c \in calls :
    /\ c \in Call /\ c.count <= delivered[c.message]
    /\ c.does = "publish" => Consumer!Utf8(c.message)
    /\ c.does = "ok" => IF Consumer!Utf8(c.message) THEN HasReceipt(c.message)
                        ELSE c.count >= MAX_DELIVERIES

Proper(r) == /\ r = [message |-> r.message, key |-> <<r.message, 0>>, window |-> r.window]
             /\ Consumer!Utf8(r.message)

ReceiptsInv ==
  /\ \A r \in receipts : Proper(r)
  /\ \A s \in acked : IF Consumer!Utf8(s) THEN HasReceipt(s) ELSE delivered[s] = MAX_DELIVERIES

ConsumerInv ==
  /\ delivered \in [Stream -> 0..MAX_DELIVERIES] /\ acked \subseteq Stream
  /\ CallsInv /\ ReceiptsInv

LEMMA ReceiptsOnce == ReceiptsInv => Consumer!ReceiptsAreHonest
<1> SUFFICES ASSUME ReceiptsInv PROVE Consumer!ReceiptsAreHonest
  OBVIOUS
<1>1. ASSUME NEW r1 \in receipts, NEW r2 \in receipts, r1.message = r2.message, r1.window = r2.window
      PROVE  r1 = r2
  BY <1>1 DEF ReceiptsInv, Proper
<1>2. \A r \in receipts : Consumer!Utf8(r.message)
  BY DEF ReceiptsInv, Proper
<1>3. \A s \in acked :
        IF Consumer!Utf8(s) THEN \E r \in receipts : r.message = s
        ELSE delivered[s] = MAX_DELIVERIES
  BY DEF ReceiptsInv, HasReceipt
<1> QED
  BY <1>1, <1>2, <1>3 DEF Consumer!ReceiptsAreHonest

(* What a step leaves alone stays so while receipts and deliveries grow.   *)
LEMMA ReceiptsKept ==
  ASSUME ReceiptsInv, receipts \subseteq receipts', acked' = acked,
         \A r \in receipts' \ receipts : Proper(r),
         \A s \in acked : delivered'[s] = delivered[s]
  PROVE  ReceiptsInv'
  BY DEF ReceiptsInv, Proper, HasReceipt, Consumer!Utf8

(* A call that goes on to its end has the receipt it says it has.          *)
LEMMA CallsKept ==
  ASSUME CallsInv, NEW c \in calls, NEW does \in {"ok", "err"},
         does = "ok" => Consumer!Utf8(c.message) /\ HasReceipt(c.message)',
         delivered' = delivered, receipts \subseteq receipts',
         calls' \subseteq calls \cup {[c EXCEPT !.does = does]}
  PROVE  CallsInv'
<1> DEFINE e == [c EXCEPT !.does = does]
<1>1. /\ c \in Call /\ c.count <= delivered[c.message]
  BY DEF CallsInv
<1>2. e.message = c.message /\ e.count = c.count /\ e.does = does /\ e \in Call
  BY <1>1 DEF Call
<1> HIDE DEF e
<1>3. ASSUME NEW d \in calls'
      PROVE  /\ d \in Call /\ d.count <= delivered'[d.message]
             /\ d.does = "publish" => Consumer!Utf8(d.message)
             /\ d.does = "ok" => IF Consumer!Utf8(d.message) THEN HasReceipt(d.message)'
                                 ELSE d.count >= MAX_DELIVERIES
  <2>1. CASE d = e
    BY <1>1, <1>2, <2>1
  <2>2. CASE d \in calls
    <3>1. /\ d \in Call /\ d.count <= delivered[d.message]
          /\ d.does = "publish" => Consumer!Utf8(d.message)
          /\ d.does = "ok" => IF Consumer!Utf8(d.message) THEN HasReceipt(d.message)
                              ELSE d.count >= MAX_DELIVERIES
      BY <2>2 DEF CallsInv
    <3>2. HasReceipt(d.message) => HasReceipt(d.message)'
      BY DEF HasReceipt
    <3> QED
      BY <3>1, <3>2
  <2> QED
    BY <2>1, <2>2 DEF e
<1> QED
  BY <1>3 DEF CallsInv, Consumer!Utf8

(* Whatever the handler publishes for a message, it has a receipt after.    *)
LEMMA PublishedOnce ==
  ASSUME ConsumerInv, NEW c \in calls, c.does = "publish"
  PROVE  /\ Proper(Consumer!ReceiptOf(c)) /\ Consumer!ReceiptOf(c).message = c.message
         /\ Consumer!Utf8(c.message) /\ c.message \in Stream
         /\ ~Consumer!Taken(c) => HasReceipt(c.message)
<1>1. Consumer!Utf8(c.message) /\ c.message \in Stream
  BY DEF ConsumerInv, CallsInv, Call
<1>2. Consumer!Key(c) = <<c.message, 0>>
  BY DEF Consumer!Key, Consumer!GoMsgId, Consumer!MsgId
<1>3. ASSUME NEW r \in receipts, r.key = <<c.message, 0>> PROVE r.message = c.message
  <2>1. r = [message |-> r.message, key |-> <<r.message, 0>>, window |-> r.window]
    BY DEF ConsumerInv, ReceiptsInv, Proper
  <2>2. r.key = <<r.message, 0>>
    BY <2>1
  <2> QED
    BY <1>3, <2>2
<1> QED
  BY <1>1, <1>2, <1>3 DEF Consumer!ReceiptOf, Proper, Consumer!Taken, HasReceipt

LEMMA ConsumerKeeps ==
  ASSUME MAX_DELIVERIES \in Nat, ConsumerInv, [Consumer!Next]_Consumer!vars
  PROVE  ConsumerInv'
<1>1. ASSUME NEW s \in Stream, Consumer!Deliver(s) PROVE ConsumerInv'
  <2>1. /\ s \notin acked /\ delivered[s] < MAX_DELIVERIES
        /\ delivered' = [delivered EXCEPT ![s] = @ + 1]
        /\ acked' = acked /\ receipts' = receipts
    BY <1>1 DEF Consumer!Deliver
  <2>2. PICK inGo \in BOOLEAN : calls' = calls \cup
          {[message |-> s, count |-> delivered[s] + 1, go |-> inGo,
            does |-> (IF inGo THEN Consumer!GoChosen(s, delivered[s] + 1)
                            ELSE Consumer!Chosen(s, delivered[s] + 1))]}
    BY <1>1 DEF Consumer!Deliver
  <2> DEFINE does == IF inGo THEN Consumer!GoChosen(s, delivered[s] + 1)
                           ELSE Consumer!Chosen(s, delivered[s] + 1)
             c == [message |-> s, count |-> delivered[s] + 1, go |-> inGo, does |-> does]
  <2>3. /\ delivered[s] \in 0..MAX_DELIVERIES /\ delivered[s] + 1 \in 0..MAX_DELIVERIES
        /\ delivered' \in [Stream -> 0..MAX_DELIVERIES]
        /\ delivered'[s] = delivered[s] + 1
        /\ \A t \in Stream : t # s => delivered'[t] = delivered[t]
    BY <2>1 DEF ConsumerInv
  <2>4. /\ does \in {"publish", "ok", "err"}
        /\ does = "publish" => Consumer!Utf8(s)
        /\ does = "ok" => ~Consumer!Utf8(s) /\ delivered[s] + 1 >= MAX_DELIVERIES
    BY DEF Consumer!GoChosen, Consumer!Chosen
  <2> HIDE DEF does
  <2>5. ASSUME NEW d \in calls'
        PROVE  /\ d \in Call /\ d.count <= delivered'[d.message]
               /\ d.does = "publish" => Consumer!Utf8(d.message)
               /\ d.does = "ok" => IF Consumer!Utf8(d.message) THEN HasReceipt(d.message)
                                   ELSE d.count >= MAX_DELIVERIES
    <3>1. CASE d = c
      <4>1. d.message = s /\ d.count = delivered[s] + 1 /\ d.does = does /\ d.go = inGo
        BY <3>1
      <4>2. d \in Call
        BY <2>3, <2>4, <3>1 DEF Call
      <4> QED
        BY <2>3, <2>4, <4>1, <4>2
    <3>2. CASE d \in calls
      <4>1. /\ d \in Call /\ d.count <= delivered[d.message]
            /\ d.does = "publish" => Consumer!Utf8(d.message)
            /\ d.does = "ok" => IF Consumer!Utf8(d.message) THEN HasReceipt(d.message)
                                ELSE d.count >= MAX_DELIVERIES
        BY <3>2 DEF ConsumerInv, CallsInv
      <4>2. d.message \in Stream /\ d.count \in Nat
        BY <4>1 DEF Call
      <4>3. delivered[d.message] <= delivered'[d.message] /\ delivered[d.message] \in Nat
              /\ delivered'[d.message] \in Nat
        BY <2>3, <4>2 DEF ConsumerInv
      <4>4. d.count <= delivered'[d.message]
        BY <4>1, <4>2, <4>3
      <4> QED
        BY <4>1, <4>4
    <3> QED
      BY <2>2, <3>1, <3>2 DEF does
  <2>6. CallsInv'
    BY <2>1, <2>5 DEF CallsInv, HasReceipt, Consumer!Utf8
  <2>7. ReceiptsInv'
    <3>1. \A t \in acked : delivered'[t] = delivered[t]
      BY <2>1, <2>3 DEF ConsumerInv
    <3> QED
      BY <2>1, <3>1, ReceiptsKept DEF ConsumerInv
  <2> QED
    BY <2>1, <2>3, <2>6, <2>7 DEF ConsumerInv
<1>2. ASSUME NEW c \in calls, Consumer!Publish(c) \/ Consumer!PublishFails(c)
      PROVE  ConsumerInv'
  <2> DEFINE r == Consumer!ReceiptOf(c)
  <2>1. c.does = "publish" /\ delivered' = delivered /\ acked' = acked
    BY <1>2 DEF Consumer!Publish, Consumer!PublishFails
  <2>2. receipts' = receipts \/ receipts' = receipts \cup {r}
    BY <1>2 DEF Consumer!Publish, Consumer!PublishFails
  <2>3. PICK does \in {"ok", "err"} :
          /\ calls' = (calls \ {c}) \cup {[c EXCEPT !.does = does]}
          /\ does = "ok" => (receipts' = IF Consumer!Taken(c) THEN receipts \cup {r} ELSE receipts)
    BY <1>2 DEF Consumer!Publish, Consumer!PublishFails
  <2>4. /\ Proper(r) /\ r.message = c.message
        /\ Consumer!Utf8(c.message) /\ c.message \in Stream
        /\ ~Consumer!Taken(c) => HasReceipt(c.message)
    BY <2>1, PublishedOnce
  <2> HIDE DEF r
  <2>5. receipts \subseteq receipts'
    BY <2>2
  <2>6. does = "ok" => HasReceipt(c.message)'
    <3>1. CASE Consumer!Taken(c)
      <4>1. does = "ok" => r \in receipts'
        BY <2>3, <3>1
      <4> QED
        BY <2>4, <4>1 DEF HasReceipt
    <3>2. CASE ~Consumer!Taken(c)
      BY <2>4, <2>5, <3>2 DEF HasReceipt
    <3> QED
      BY <3>1, <3>2
  <2>7. CallsInv'
    BY <2>1, <2>3, <2>4, <2>5, <2>6, CallsKept DEF ConsumerInv
  <2>8. ReceiptsInv'
    <3>1. \A x \in receipts' \ receipts : Proper(x)
      BY <2>2, <2>4
    <3> QED
      BY <2>1, <2>5, <3>1, ReceiptsKept DEF ConsumerInv
  <2> QED
    BY <2>1, <2>7, <2>8 DEF ConsumerInv
<1>3. ASSUME NEW c \in calls, Consumer!Return(c) \/ Consumer!ReturnFails(c)
      PROVE  ConsumerInv'
  <2>1. calls' \subseteq calls /\ delivered' = delivered /\ receipts' = receipts
    BY <1>3 DEF Consumer!Return, Consumer!ReturnFails
  <2>2. acked' = acked \/ (c.does = "ok" /\ acked' = acked \cup {c.message})
    BY <1>3 DEF Consumer!Return, Consumer!ReturnFails
  <2>3. CallsInv'
    BY <2>1 DEF ConsumerInv, CallsInv, HasReceipt, Consumer!Utf8
  <2>4. /\ c \in Call /\ c.count <= delivered[c.message]
        /\ c.does = "ok" => IF Consumer!Utf8(c.message) THEN HasReceipt(c.message)
                            ELSE c.count >= MAX_DELIVERIES
    BY DEF ConsumerInv, CallsInv
  <2>5. c.message \in Stream /\ c.count \in Nat /\ delivered[c.message] \in 0..MAX_DELIVERIES
    BY <2>4 DEF Call, ConsumerInv
  <2>6. c.does = "ok" =>
          IF Consumer!Utf8(c.message) THEN HasReceipt(c.message)
          ELSE delivered[c.message] = MAX_DELIVERIES
    BY <2>4, <2>5
  <2>7. \A s \in acked' : IF Consumer!Utf8(s) THEN HasReceipt(s)
                         ELSE delivered[s] = MAX_DELIVERIES
    BY <2>2, <2>6 DEF ConsumerInv, ReceiptsInv
  <2>8. ReceiptsInv'
    BY <2>1, <2>7 DEF ConsumerInv, ReceiptsInv, Proper, HasReceipt, Consumer!Utf8
  <2>9. acked' \subseteq Stream
    BY <2>2, <2>5 DEF ConsumerInv
  <2> QED
    BY <2>1, <2>3, <2>8, <2>9 DEF ConsumerInv
<1>4. CASE UNCHANGED Consumer!vars \/ \E s \in Stream : Consumer!WindowPasses(s)
  <2>1. UNCHANGED <<delivered, acked, calls, receipts>>
    BY <1>4 DEF Consumer!vars, Consumer!WindowPasses
  <2> QED
    BY <2>1 DEF ConsumerInv, CallsInv, ReceiptsInv, Proper, HasReceipt, Consumer!Utf8
<1> QED
  BY <1>1, <1>2, <1>3, <1>4 DEF Consumer!Next

LEMMA ConsumerInit == Consumer!Init => ConsumerInv
BY BoundsAssumption DEF BoundsAssumption, Consumer!Init, ConsumerInv, CallsInv, ReceiptsInv

(* A message that can be read has a receipt once it is acknowledged, and no *)
(* second one within a duplicate window; one that cannot be read has none   *)
(* and is let go by its last delivery.                                      *)
LEMMA ConsumerHolds == ConsumerInv => Consumer!ReceiptsAreHonest
BY ReceiptsOnce DEF ConsumerInv


-----------------------------------------------------------------------------
(***************************************************************************)
(* The JetStream pull worker.                                              *)
(***************************************************************************)
Handles == {batch[i] : i \in 1..Len(batch)}

Counted == IF pc = "idle" THEN 0 ELSE count

(* A batch has each of its messages once, none of which is acknowledged,    *)
(* and its handles are the ones that are held.                             *)
WorkerInv ==
  /\ pc \in {"idle", "open", "fetch", "ack", "publish"}
  /\ acked \subseteq Messages /\ unread \subseteq Messages /\ acked \cap unread = {}
  /\ batch \in Seq(Messages)
  /\ \A i, j \in 1..Len(batch) : batch[i] = batch[j] => i = j
  /\ Handles \cap acked = {} /\ held = Handles
  /\ pc = "ack" <=> batch # << >>
  /\ count \in Nat /\ receipts \in Nat
  /\ receipts + Counted <= Cardinality(acked)

LEMMA WorkerCardinality ==
  ASSUME NEW S PROVE Worker!Cardinality(S) = Cardinality(S)
  BY DEF Worker!Cardinality, Cardinality

(* SetToSeq lists a finite set, each element once.                         *)
LEMMA Listed ==
  ASSUME NEW S, IsFiniteSet(S)
  PROVE  LET q == Worker!SetToSeq(S)
         IN  /\ q \in Seq(S) /\ Len(q) = Cardinality(S)
             /\ \A i, j \in 1..Len(q) : q[i] = q[j] => i = j
             /\ {q[i] : i \in 1..Len(q)} = S
<1> DEFINE n == Cardinality(S)
           q == Worker!SetToSeq(S)
<1>1. n \in Nat /\ ExistsBijection(1..n, S)
  BY FS_CardinalityType
<1> HIDE DEF n
<1>2. \E f \in [1..n -> S] : Worker!IsInjective(f)
  BY <1>1 DEF ExistsBijection, Bijection, Injection, IsInjective, Worker!IsInjective
<1>3. q \in [1..n -> S] /\ Worker!IsInjective(q)
  <2>1. q = CHOOSE f \in [1..n -> S] : Worker!IsInjective(f)
    BY WorkerCardinality DEF Worker!SetToSeq, n
  <2> HIDE DEF q
  <2> QED
    BY <1>2, <2>1
<1> HIDE DEF q
<1>4. q \in Seq(S) /\ Len(q) = n /\ DOMAIN q = 1..n
  BY <1>1, <1>3
<1>5. \A i, j \in 1..n : q[i] = q[j] => i = j
  BY <1>3 DEF Worker!IsInjective
<1>6. q \in Injection(1..n, S)
  BY <1>3, <1>5 DEF Injection, IsInjective
<1>7. Cardinality(1..n) = n
  BY <1>1, FS_Interval
<1>8. q \in Surjection(1..n, S)
  BY <1>6, <1>7, FS_Injection DEF n
<1>9. {q[i] : i \in 1..n} = S
  BY <1>3, <1>8 DEF Surjection
<1> QED
  BY <1>4, <1>5, <1>9 DEF q, n

(* What is left of a batch when its first message is acknowledged.         *)
LEMMA AckedFirst ==
  ASSUME NEW q \in Seq(Messages), q # << >>,
         \A i, j \in 1..Len(q) : q[i] = q[j] => i = j
  PROVE  /\ Head(q) \in Messages /\ Tail(q) \in Seq(Messages)
         /\ \A i, j \in 1..Len(Tail(q)) : Tail(q)[i] = Tail(q)[j] => i = j
         /\ {Tail(q)[i] : i \in 1..Len(Tail(q))} = {q[i] : i \in 1..Len(q)} \ {Head(q)}
         /\ Head(q) \in {q[i] : i \in 1..Len(q)}
         /\ Len(q) = 1 <=> Tail(q) = << >>
<1> DEFINE t == Tail(q)
<1>1. /\ Len(q) \in Nat /\ Len(q) >= 1 /\ Head(q) = q[1] /\ t \in Seq(Messages)
      /\ Len(t) = Len(q) - 1 /\ \A i \in 1..Len(t) : t[i] = q[i + 1]
      /\ q[1] \in Messages
  OBVIOUS
<1> HIDE DEF t
<1>2. Len(t) = 0 <=> t = << >>
  BY <1>1
<1>3. \A i, j \in 1..Len(t) : t[i] = t[j] => i = j
  <2>1. SUFFICES ASSUME NEW i \in 1..Len(t), NEW j \in 1..Len(t), t[i] = t[j] PROVE i = j
    OBVIOUS
  <2>2. i + 1 \in 1..Len(q) /\ j + 1 \in 1..Len(q) /\ q[i + 1] = q[j + 1]
    BY <1>1, <2>1
  <2>3. i + 1 = j + 1
    BY <2>2
  <2> QED
    BY <1>1, <2>3
<1>4. ASSUME NEW i \in 1..Len(t)
      PROVE  t[i] \in {q[k] : k \in 1..Len(q)} /\ t[i] # q[1]
  <2>1. i + 1 \in 1..Len(q) /\ t[i] = q[i + 1] /\ 1 \in 1..Len(q) /\ i + 1 # 1
    BY <1>1
  <2> QED
    BY <2>1
<1>5. ASSUME NEW i \in 1..Len(q), q[i] # q[1]
      PROVE  q[i] \in {t[k] : k \in 1..Len(t)}
  <2>1. i - 1 \in 1..Len(t) /\ t[i - 1] = q[(i - 1) + 1] /\ (i - 1) + 1 = i
    BY <1>1, <1>5
  <2> QED
    BY <2>1
<1>6. {t[i] : i \in 1..Len(t)} = {q[i] : i \in 1..Len(q)} \ {q[1]}
  BY <1>4, <1>5
<1>7. q[1] \in {q[i] : i \in 1..Len(q)}
  BY <1>1
<1>8. Len(q) = 1 <=> t = << >>
  BY <1>1, <1>2
<1> QED
  BY <1>1, <1>3, <1>6, <1>7, <1>8 DEF t

LEMMA WorkerKeeps ==
  ASSUME IsFiniteSet(Messages), WorkerInv, [Worker!Next]_Worker!vars
  PROVE  WorkerInv'
<1>1. CASE Worker!Trigger
  BY <1>1 DEF Worker!Trigger, WorkerInv, Handles, Counted
<1>2. CASE Worker!Open
  BY <1>2 DEF Worker!Open, WorkerInv, Handles, Counted
<1>3. CASE Worker!Fetch
  <2>1. /\ pc = "fetch" /\ pc' = "ack"
        /\ UNCHANGED <<acked, count, receipts>>
    BY <1>3 DEF Worker!Fetch
  <2>2. PICK got \in SUBSET unread :
          /\ Worker!Cardinality(got) \in 1..BATCH
          /\ batch' = Worker!SetToSeq(got)
          /\ held' = held \cup got /\ unread' = unread \ got
    BY <1>3 DEF Worker!Fetch, Worker!kSubset
  <2>3. held = {} /\ batch = << >> /\ got \subseteq Messages /\ got \cap acked = {}
    BY <2>1, <2>2 DEF WorkerInv, Handles
  <2>4. IsFiniteSet(got) /\ Cardinality(got) # 0
    BY <2>2, <2>3, WorkerCardinality, FS_Subset
  <2>5. /\ batch' \in Seq(got) /\ Len(batch') # 0
        /\ \A i, j \in 1..Len(batch') : batch'[i] = batch'[j] => i = j
        /\ {batch'[i] : i \in 1..Len(batch')} = got
    <3> DEFINE q == Worker!SetToSeq(got)
    <3>1. /\ q \in Seq(got) /\ Len(q) = Cardinality(got)
          /\ \A i, j \in 1..Len(q) : q[i] = q[j] => i = j
          /\ {q[i] : i \in 1..Len(q)} = got
      BY <2>4, Listed
    <3>2. batch' = q
      BY <2>2
    <3> HIDE DEF q
    <3> QED
      BY <2>4, <3>1, <3>2
  <2>6. batch' \in Seq(Messages) /\ batch' # << >>
    BY <2>3, <2>5
  <2>7. Handles' = got
    BY <2>5 DEF Handles
  <2>8. Handles' \cap acked' = {} /\ held' = Handles'
    BY <2>1, <2>2, <2>3, <2>7
  <2>9. receipts' + Counted' <= Cardinality(acked)'
    BY <2>1 DEF WorkerInv, Counted
  <2>10. unread' \subseteq Messages /\ acked' \cap unread' = {}
    BY <2>1, <2>2 DEF WorkerInv
  <2> QED
    BY <2>1, <2>5, <2>6, <2>8, <2>9, <2>10 DEF WorkerInv
<1>4. CASE Worker!FetchNothing
  BY <1>4 DEF Worker!FetchNothing, WorkerInv, Handles, Counted
<1>5. CASE Worker!RoundsAreOver
  BY <1>5 DEF Worker!RoundsAreOver, WorkerInv, Handles, Counted
<1>6. CASE Worker!FetchTimesOut
  BY <1>6 DEF Worker!FetchTimesOut, WorkerInv, Handles, Counted
<1>7. CASE Worker!Ack
  <2> DEFINE m == Head(batch)
  <2>1. /\ pc = "ack" /\ acked' = acked \cup {m} /\ unread' = unread \ {m}
        /\ held' = held \ {m} /\ count' = count + 1 /\ batch' = Tail(batch)
        /\ pc' = IF Len(batch) = 1 THEN "fetch" ELSE "ack"
        /\ receipts' = receipts
    BY <1>7 DEF Worker!Ack, Worker!Releases, Worker!GoReleases, Worker!RustReleases
  <2>2. /\ batch \in Seq(Messages) /\ batch # << >>
        /\ \A i, j \in 1..Len(batch) : batch[i] = batch[j] => i = j
    BY <2>1 DEF WorkerInv
  <2>3. /\ m \in Messages /\ batch' \in Seq(Messages)
        /\ \A i, j \in 1..Len(batch') : batch'[i] = batch'[j] => i = j
        /\ Handles' = Handles \ {m} /\ m \in Handles
        /\ Len(batch) = 1 <=> batch' = << >>
    <3> DEFINE t == Tail(batch)
    <3>1. /\ m \in Messages /\ t \in Seq(Messages)
          /\ \A i, j \in 1..Len(t) : t[i] = t[j] => i = j
          /\ {t[i] : i \in 1..Len(t)} = {batch[i] : i \in 1..Len(batch)} \ {m}
          /\ m \in {batch[i] : i \in 1..Len(batch)}
          /\ Len(batch) = 1 <=> t = << >>
      BY <2>2, AckedFirst
    <3>2. batch' = t
      BY <2>1
    <3> HIDE DEF t, m
    <3>3. Handles' = {t[i] : i \in 1..Len(t)}
      BY <3>2 DEF Handles
    <3> QED
      BY <3>1, <3>2, <3>3 DEF Handles
  <2> HIDE DEF m
  <2>4. /\ acked \subseteq Messages /\ unread \subseteq Messages /\ acked \cap unread = {}
        /\ Handles \cap acked = {} /\ held = Handles /\ count \in Nat /\ receipts \in Nat
        /\ receipts + count <= Cardinality(acked)
    BY <2>1 DEF WorkerInv, Counted
  <2>5. IsFiniteSet(acked) /\ m \notin acked
    BY <2>3, <2>4, FS_Subset
  <2>6. Cardinality(acked') = Cardinality(acked) + 1 /\ Cardinality(acked) \in Nat
    BY <2>1, <2>5, FS_AddElement, FS_CardinalityType
  <2>7. receipts' + Counted' <= Cardinality(acked)'
    BY <2>1, <2>4, <2>6 DEF Counted
  <2>8. /\ acked' \subseteq Messages /\ unread' \subseteq Messages /\ acked' \cap unread' = {}
        /\ Handles' \cap acked' = {} /\ held' = Handles'
    BY <2>1, <2>3, <2>4
  <2>9. pc' \in {"fetch", "ack"} /\ (pc' = "ack" <=> batch' # << >>) /\ count' \in Nat
    BY <2>1, <2>3, <2>4
  <2> QED
    BY <2>1, <2>3, <2>4, <2>7, <2>8, <2>9 DEF WorkerInv
<1>8. CASE Worker!AckFails
  <2>1. /\ pc = "ack" /\ pc' = "idle" /\ batch' = << >>
        /\ acked' \in {acked, acked \cup {Head(batch)}} /\ unread' = unread \ acked'
        /\ held' = held \ Worker!Range(batch) /\ UNCHANGED <<count, receipts>>
    BY <1>8 DEF Worker!AckFails, Worker!Releases, Worker!GoReleases, Worker!RustReleases
  <2>2. /\ batch \in Seq(Messages) /\ batch # << >> /\ held = Handles
        /\ \A i, j \in 1..Len(batch) : batch[i] = batch[j] => i = j
        /\ acked \subseteq Messages /\ unread \subseteq Messages
        /\ count \in Nat /\ receipts \in Nat /\ receipts + count <= Cardinality(acked)
    BY <2>1 DEF WorkerInv, Counted
  <2>3. Worker!Range(batch) = Handles
    BY <2>2 DEF Worker!Range, Handles
  <2>4. held' = {} /\ Handles' = {}
    BY <2>1, <2>2, <2>3 DEF Handles
  <2>5. Head(batch) \in Messages
    BY <2>2, AckedFirst
  <2>6. acked' \subseteq Messages /\ acked \subseteq acked'
    BY <2>1, <2>2, <2>5
  <2>7. /\ Cardinality(acked) <= Cardinality(acked') /\ Cardinality(acked) \in Nat
        /\ Cardinality(acked') \in Nat
    <3>1. IsFiniteSet(acked')
      BY <2>6, FS_Subset
    <3> QED
      BY <2>6, <3>1, FS_Subset, FS_CardinalityType
  <2>8. receipts' + Counted' <= Cardinality(acked)'
    BY <2>1, <2>2, <2>7 DEF Counted
  <2>9. batch' \in Seq(Messages) /\ Len(batch') = 0
    BY <2>1
  <2> QED
    BY <2>1, <2>2, <2>4, <2>6, <2>8, <2>9 DEF WorkerInv
<1>9. CASE Worker!Publish
  <2>1. /\ pc = "publish" /\ pc' = "idle" /\ receipts' = receipts + count
        /\ UNCHANGED <<unread, acked, held, batch, count>>
    BY <1>9 DEF Worker!Publish
  <2>2. receipts' + Counted' <= Cardinality(acked)' /\ receipts' \in Nat
    BY <2>1 DEF WorkerInv, Counted
  <2> QED
    BY <2>1, <2>2 DEF WorkerInv, Handles
<1>10. CASE Worker!CallFails
  <2>1. /\ pc \in {"open", "fetch", "publish"} /\ pc' = "idle"
        /\ receipts' \in {receipts, receipts + count}
        /\ UNCHANGED <<unread, acked, held, batch, count>>
    BY <1>10 DEF Worker!CallFails
  <2>2. Cardinality(acked) \in Nat
    BY FS_Subset, FS_CardinalityType DEF WorkerInv
  <2>3. receipts' + Counted' <= Cardinality(acked)' /\ receipts' \in Nat
    BY <2>1, <2>2 DEF WorkerInv, Counted
  <2> QED
    BY <2>1, <2>3 DEF WorkerInv, Handles
<1>11. CASE Worker!Trap
  <2>1. /\ pc' = "idle" /\ batch' = << >> /\ held' = {}
        /\ UNCHANGED <<unread, acked, count, receipts>>
    BY <1>11 DEF Worker!Trap
  <2>2. Cardinality(acked) \in Nat
    BY FS_Subset, FS_CardinalityType DEF WorkerInv
  <2>3. receipts' + Counted' <= Cardinality(acked)'
    BY <2>1, <2>2 DEF WorkerInv, Counted
  <2>4. Handles' = {} /\ batch' \in Seq(Messages) /\ Len(batch') = 0
    BY <2>1 DEF Handles
  <2> QED
    BY <2>1, <2>3, <2>4 DEF WorkerInv
<1>12. CASE Worker!Redeliver
  BY <1>12 DEF Worker!Redeliver, WorkerInv, Handles, Counted
<1>13. CASE UNCHANGED Worker!vars
  BY <1>13 DEF Worker!vars, WorkerInv, Handles, Counted
<1> QED
  BY <1>1, <1>2, <1>3, <1>4, <1>5, <1>6, <1>7, <1>8, <1>9, <1>10, <1>11, <1>12, <1>13
     DEF Worker!Next, Worker!Drain

LEMMA WorkerInit == Worker!Init => WorkerInv
BY FS_EmptySet DEF Worker!Init, WorkerInv, Handles, Counted

(* No acknowledgement is counted twice, by one receipt or by two, whatever   *)
(* was redelivered and whichever drain failed; and no handle outlives its  *)
(* drain.                                                                  *)
LEMMA WorkerHolds == WorkerInv => Worker!CountsAreOfAcks
<1> SUFFICES ASSUME WorkerInv PROVE Worker!CountsAreOfAcks
  OBVIOUS
<1>1. IsFiniteSet(acked)
  BY BoundsAssumption, FS_Subset DEF BoundsAssumption, WorkerInv
<1>2. Cardinality(acked) \in Nat
  BY <1>1, FS_CardinalityType
<1>3. receipts <= Worker!Cardinality(acked)
  BY <1>2, WorkerCardinality DEF WorkerInv, Counted
<1>4. pc = "idle" => held = {}
  BY DEF WorkerInv, Handles
<1> QED
  BY <1>3, <1>4 DEF Worker!CountsAreOfAcks


-----------------------------------------------------------------------------
(***************************************************************************)
(* The Kafka producer behind HTTP.                                         *)
(***************************************************************************)
(* The limits of the program are far below the width of its numbers.        *)
(* A product that saturates is above the limit like the one it stands for.  *)
LEMMA SaturatedIsAbove ==
  ASSUME LimitsAssumption, NEW a \in Nat, NEW b \in Nat
  PROVE  Producer!saturating_mul(a, b) <= MAX_BATCH_BYTES <=> a * b <= MAX_BATCH_BYTES
<1> DEFINE p == a * b
<1>1. p \in Nat
  OBVIOUS
<1>2. Producer!saturating_mul(a, b) = IF p >= USIZE THEN USIZE - 1 ELSE p
  BY DEF Producer!saturating_mul
<1> HIDE DEF p
<1>3. Producer!saturating_mul(a, b) <= MAX_BATCH_BYTES <=> p <= MAX_BATCH_BYTES
  BY <1>1, <1>2 DEF LimitsAssumption
<1> QED
  BY <1>3 DEF p

(* There is no response before a request.                                  *)
ProducerInv ==
  /\ query.route = "none" => response.status = 0 /\ sent = Producer!Nothing
  /\ Producer!BatchesAreBounded

LEMMA ProducerKeeps ==
  ASSUME LimitsAssumption, ProducerInv, [Producer!Next]_Producer!vars
  PROVE  ProducerInv'
<1>1. ASSUME NEW q \in Producer!Queries, Producer!Handle, query' = q,
             CASE q.route = "no path" -> Producer!Refuse(400)
               [] q.route = "other" -> Producer!Refuse(404)
               [] q.route = "produce" -> Producer!produce(q)
               [] q.route = "batch" -> Producer!produce_batch(q)
      PROVE  ProducerInv'
  <2>0. query.route = "none" /\ response.status = 0 /\ query'.route # "none"
    BY <1>1 DEF Producer!Handle, Producer!Queries, ProducerInv
  <2>1. CASE q.route \in {"other", "no path"}
    <3>1. sent' = << >>
      BY <1>1, <2>1 DEF Producer!Refuse, Producer!Nothing
    <3> QED
      BY <1>1, <2>0, <2>1, <3>1 DEF ProducerInv, Producer!BatchesAreBounded, Producer!Nothing
  <2>2. CASE q.route = "produce"
    <3>1. sent' = << >> \/ sent' = <<1, 1>>
      BY <1>1, <2>2 DEF Producer!produce, Producer!Send, Producer!Refuse, Producer!Nothing
    <3> QED
      BY <1>1, <2>0, <2>2, <3>1 DEF ProducerInv, Producer!BatchesAreBounded, Producer!Nothing, LimitsAssumption
  <2>3. CASE q.route = "batch"
    <3> DEFINE n == Producer!Value(q.count, DEFAULT_COUNT)
               size == Producer!Value(q.size, DEFAULT_SIZE)
               fits == /\ q.topic
                       /\ Producer!Accepted(q.count, 1..MAX_BATCH_RECORDS)
                       /\ Producer!Accepted(q.size, 0..MAX_RECORD_BYTES)
                       /\ Producer!saturating_mul(n, size) <= MAX_BATCH_BYTES
    <3>1. q.count \in Producer!Parameters /\ q.size \in Producer!Parameters
      BY <2>3 DEF Producer!Queries
    <3>2. n \in Nat /\ size \in Nat
      BY <3>1 DEF Producer!Value, Producer!Parameters, LimitsAssumption
    <3>3. IF fits THEN sent' = <<n, size>> /\ response' = response
          ELSE sent' = << >> /\ response' = [status |-> 400, outcomes |-> << >>]
      BY <1>1, <2>3 DEF Producer!produce_batch, Producer!Send, Producer!Refuse, Producer!Nothing
    <3>4. Producer!saturating_mul(n, size) <= MAX_BATCH_BYTES <=> n * size <= MAX_BATCH_BYTES
      BY <3>2, SaturatedIsAbove
    <3>5. sent' # Producer!Nothing => sent'[1] * sent'[2] <= MAX_BATCH_BYTES
      BY <3>3, <3>4 DEF Producer!Nothing
    <3>6. ASSUME ~fits, q.topic, q.count.is # "junk", q.size.is # "junk"
          PROVE  n \notin 1..MAX_BATCH_RECORDS \/ size > MAX_RECORD_BYTES \/ n * size > MAX_BATCH_BYTES
      BY <3>1, <3>2, <3>4, <3>6 DEF Producer!Accepted, Producer!Value, Producer!Parameters, LimitsAssumption
    <3>7. fits => response'.status # 400
      BY <2>0, <3>3
    <3> HIDE DEF fits
    <3>8. query'.route = "batch" /\ response'.status = 400 /\ query'.topic
            /\ query'.count.is # "junk" /\ query'.size.is # "junk" =>
            n \notin 1..MAX_BATCH_RECORDS \/ size > MAX_RECORD_BYTES \/ n * size > MAX_BATCH_BYTES
      BY <1>1, <3>6, <3>7
    <3> QED
      BY <1>1, <2>0, <3>5, <3>8 DEF ProducerInv, Producer!BatchesAreBounded
  <2> QED
    BY <2>1, <2>2, <2>3 DEF Producer!Queries
<1>2. CASE Producer!Answer
  <2>1. /\ query' = query /\ sent' = sent /\ response'.status # 400
        /\ sent # Producer!Nothing
    BY <1>2 DEF Producer!Answer
  <2>2. query.route # "none"
    BY <2>1 DEF ProducerInv
  <2> QED
    BY <2>1, <2>2 DEF ProducerInv, Producer!BatchesAreBounded
<1>3. CASE UNCHANGED Producer!vars
  BY <1>3 DEF Producer!vars, ProducerInv, Producer!BatchesAreBounded, Producer!Value
<1> QED
  BY <1>1, <1>2, <1>3 DEF Producer!Next, Producer!Handle

LEMMA ProducerInit == Producer!Init => ProducerInv
BY DEF Producer!Init, ProducerInv, Producer!BatchesAreBounded, Producer!Nothing

(* No request makes the component build more than its limit in bytes,       *)
(* whatever the product of the numbers asked for does at the width of a     *)
(* usize; and what is within the limits is not refused.                    *)
LEMMA ProducerHolds == ProducerInv => Producer!BatchesAreBounded
BY DEF ProducerInv


-----------------------------------------------------------------------------
(***************************************************************************)
(* The webhook receiver.                                                   *)
(***************************************************************************)
Key == Webhook!Get(Webhook!signing_secret)

(* The request is signed with the key, and no longer than it may be.        *)
Verified ==
  /\ req.payload.bytes <= MAX_BODY_BYTES
  /\ req.signature.is = "hex" /\ req.signature.mac = Webhook!Mac(Key, req.payload)

(* A body is read only when there is a key, and sent only when verified.    *)
WebhookInv ==
  /\ config.secret = {} \/ \E s \in Secrets : config.secret = {s}
  /\ \A x \in shown : Webhook!signing_secret # {} /\ x = Webhook!Mac(Key, Webhook!SAMPLE_BODY)
  /\ pc # "done" => forwarded = << >> /\ response = Webhook!NoResponse
  /\ pc \in {"reading", "verifying", "sending"} =>
       req \in Webhook!SentRequests /\ req.method = "POST" /\ Webhook!signing_secret # {}
  /\ pc = "verifying" => req.payload.bytes <= MAX_BODY_BYTES
  /\ pc = "sending" => Verified
  /\ Webhook!AnswersAreTrue

(* The key is the one that is configured, and it is not empty.              *)
LEMMA KeyIs ==
  ASSUME config.secret = {} \/ \E s \in Secrets : config.secret = {s}, Webhook!signing_secret # {}
  PROVE  Key \in Secrets \ {""} /\ config.secret = {Key}
<1>1. PICK s \in Secrets : config.secret = {s}
  BY DEF Webhook!signing_secret
<1>2. Webhook!signing_secret = {s} /\ s # ""
  BY <1>1 DEF Webhook!signing_secret
<1>3. (CHOOSE x \in {s} : TRUE) = s
  OBVIOUS
<1>4. Key = s
  BY <1>2, <1>3 DEF Key, Webhook!Get
<1> QED
  BY <1>1, <1>2, <1>4

(* A refusal says nothing that is not so.                                  *)
LEMMA RefusedTruly ==
  ASSUME NEW code \in {200, 503, 405, 413, 400, 401, 500}, Webhook!Refuse(code),
         forwarded = << >>, code = 200 => req'.method # "POST",
         code = 401 /\ req'.signature.is = "hex" =>
           req'.signature.mac \notin shown' \/ req'.payload # Webhook!SAMPLE_BODY
  PROVE  pc' = "done" /\ forwarded' = << >> /\ Webhook!AnswersAreTrue'
<1>1. /\ forwarded' = << >> /\ pc' = "done"
      /\ response' = [status |-> code, verified |-> FALSE, to |-> {}, downstream |-> {}]
  BY DEF Webhook!Refuse, Webhook!Reply, Webhook!None
<1>2. DOMAIN forwarded' = {}
  BY <1>1
<1>3. response'.status = code /\ ~response'.verified
  BY <1>1
<1> QED
  BY <1>1, <1>2, <1>3 DEF Webhook!AnswersAreTrue

LEMMA WebhookKeeps ==
  ASSUME MAX_BODY_BYTES \in Nat, WebhookInv, [Webhook!Next]_Webhook!vars
  PROVE  WebhookInv'
<1>1. /\ config' = config /\ allowedHosts' = allowedHosts
      /\ Webhook!signing_secret' = Webhook!signing_secret /\ Key' = Key
  BY DEF Webhook!Next, Webhook!vars, Webhook!Receive, Webhook!ReadBody, Webhook!VerifyAndBuild,
         Webhook!Send, Webhook!Again, Webhook!signing_secret, Key
<1>2. CASE Webhook!Receive
  <2>1. PICK r \in Webhook!SentRequests :
          /\ req' = r
          /\ CASE r.method \in {"GET", "HEAD"} -> Webhook!info_page
               [] r.method = "PUT" -> Webhook!Refuse(405) /\ UNCHANGED shown
               [] r.method = "POST" ->
                    /\ IF Webhook!signing_secret = Webhook!None THEN Webhook!Refuse(503)
                       ELSE IF \E n \in r.declared : n > MAX_BODY_BYTES THEN Webhook!Refuse(413)
                       ELSE pc' = "reading" /\ UNCHANGED <<forwarded, response>>
                    /\ UNCHANGED shown
    BY <1>2 DEF Webhook!Receive
  <2>2. forwarded = << >> /\ response = Webhook!NoResponse
    BY <1>2 DEF Webhook!Receive, WebhookInv
  <2>3. \A x \in shown' : Webhook!signing_secret # {} /\ x = Webhook!Mac(Key, Webhook!SAMPLE_BODY)
    <3>1. shown' = shown \/ (/\ Webhook!signing_secret # {}
                            /\ shown' = {Webhook!Mac(Key, Webhook!SAMPLE_BODY)})
      BY <2>1 DEF Webhook!info_page, Webhook!SentRequests, Webhook!Some, Webhook!None, Key
    <3> QED
      BY <3>1 DEF WebhookInv
  <2>4. CASE pc' = "reading" /\ UNCHANGED <<forwarded, response>> /\ r.method = "POST"
                /\ Webhook!signing_secret # {}
    <3>1. Webhook!AnswersAreTrue'
      BY <2>2, <2>4 DEF Webhook!AnswersAreTrue, Webhook!NoResponse
    <3> QED
      BY <1>1, <2>1, <2>2, <2>3, <2>4, <3>1
         DEF WebhookInv, Webhook!SentRequests, Webhook!NoResponse, Webhook!Mac, Webhook!SAMPLE_BODY
  <2>5. CASE \/ Webhook!Refuse(503) \/ Webhook!Refuse(405) \/ Webhook!Refuse(413)
             \/ Webhook!Refuse(200) /\ r.method # "POST"
    <3>1. pc' = "done" /\ forwarded' = << >> /\ Webhook!AnswersAreTrue'
      BY <2>1, <2>2, <2>5, RefusedTruly
    <3> QED
      BY <1>1, <2>3, <3>1 DEF WebhookInv, Webhook!Mac, Webhook!SAMPLE_BODY
  <2>6. \/ Webhook!Refuse(503) \/ Webhook!Refuse(405) \/ Webhook!Refuse(413)
        \/ Webhook!Refuse(200) /\ r.method # "POST"
        \/ /\ pc' = "reading" /\ UNCHANGED <<forwarded, response>> /\ r.method = "POST"
           /\ Webhook!signing_secret # {}
    BY <2>1 DEF Webhook!info_page, Webhook!SentRequests, Webhook!None
  <2> QED
    BY <2>4, <2>5, <2>6
<1>3. CASE Webhook!ReadBody
  <2>1. /\ pc = "reading" /\ req' = req /\ shown' = shown /\ forwarded = << >>
        /\ response = Webhook!NoResponse
        /\ req \in Webhook!SentRequests /\ req.method = "POST" /\ Webhook!signing_secret # {}
    BY <1>3 DEF Webhook!ReadBody, WebhookInv
  <2>2. CASE Webhook!Refuse(400) \/ Webhook!Refuse(413)
    <3>1. pc' = "done" /\ forwarded' = << >> /\ Webhook!AnswersAreTrue'
      BY <2>1, <2>2, RefusedTruly
    <3> QED
      BY <1>1, <2>1, <3>1 DEF WebhookInv, Webhook!Mac, Webhook!SAMPLE_BODY
  <2>3. CASE pc' = "verifying" /\ UNCHANGED <<forwarded, response>>
                /\ ~(req.payload.bytes > MAX_BODY_BYTES)
    <3>1. Webhook!AnswersAreTrue'
      BY <2>1, <2>3 DEF Webhook!AnswersAreTrue, Webhook!NoResponse
    <3>2. req.payload.bytes <= MAX_BODY_BYTES
      BY <2>1, <2>3 DEF Webhook!SentRequests, Webhook!Payloads, Webhook!SAMPLE_BODY
    <3> QED
      BY <1>1, <2>1, <2>3, <3>1, <3>2 DEF WebhookInv, Webhook!SentRequests, Webhook!Mac,
         Webhook!SAMPLE_BODY
  <2> QED
    BY <1>3, <2>2, <2>3 DEF Webhook!ReadBody
<1>4. CASE Webhook!VerifyAndBuild
  <2>1. /\ pc = "verifying" /\ req' = req /\ shown' = shown /\ forwarded = << >>
        /\ response = Webhook!NoResponse /\ req.payload.bytes <= MAX_BODY_BYTES
        /\ req \in Webhook!SentRequests /\ req.method = "POST" /\ Webhook!signing_secret # {}
    BY <1>4 DEF Webhook!VerifyAndBuild, WebhookInv
  <2>2. CASE Webhook!Refuse(401) /\ Webhook!verify(Key, req.payload, req.signature) # "ok"
    <3>1. req.signature.is = "hex" =>
            req.signature.mac \notin shown \/ req.payload # Webhook!SAMPLE_BODY
      BY <2>2 DEF WebhookInv, Webhook!verify
    <3>2. pc' = "done" /\ forwarded' = << >> /\ Webhook!AnswersAreTrue'
      BY <2>1, <2>2, <3>1, RefusedTruly
    <3> QED
      BY <1>1, <2>1, <3>2 DEF WebhookInv, Webhook!Mac, Webhook!SAMPLE_BODY
  <2>3. CASE Webhook!Refuse(500)
    <3>1. pc' = "done" /\ forwarded' = << >> /\ Webhook!AnswersAreTrue'
      BY <2>1, <2>3, RefusedTruly
    <3> QED
      BY <1>1, <2>1, <3>1 DEF WebhookInv, Webhook!Mac, Webhook!SAMPLE_BODY
  <2>4. CASE pc' = "sending" /\ UNCHANGED <<forwarded, response>>
               /\ Webhook!verify(Key, req.payload, req.signature) = "ok"
    <3>1. Webhook!AnswersAreTrue'
      BY <2>1, <2>4 DEF Webhook!AnswersAreTrue, Webhook!NoResponse
    <3>2. req.signature.is = "hex" /\ req.signature.mac = Webhook!Mac(Key, req.payload)
      BY <2>1, <2>4 DEF Webhook!verify, Webhook!SentRequests, Webhook!Signatures
    <3>3. Verified'
      BY <1>1, <2>1, <3>2 DEF Verified, Webhook!Mac
    <3> QED
      BY <1>1, <2>1, <2>4, <3>1, <3>3 DEF WebhookInv, Webhook!SentRequests, Webhook!Mac,
         Webhook!SAMPLE_BODY
  <2> QED
    BY <1>4, <2>2, <2>3, <2>4 DEF Webhook!VerifyAndBuild, Key
<1>5. CASE Webhook!Send
  <2>1. /\ pc = "sending" /\ req' = req /\ shown' = shown /\ forwarded = << >>
        /\ Verified /\ req.method = "POST" /\ Webhook!signing_secret # {}
    BY <1>5 DEF Webhook!Send, WebhookInv
  <2>2. Key \in Secrets \ {""} /\ config.secret = {Key}
    BY <2>1, KeyIs DEF WebhookInv
  <2> DEFINE body == [to |-> Webhook!ForwardUrl, payload |-> req.payload]
  <2>3. pc' = "done" /\ response'.verified /\ response'.status \in {200, 502}
    BY <1>5 DEF Webhook!Send, Webhook!Reply
  <2>4. \/ forwarded' = << >> /\ response'.status # 200
        \/ /\ forwarded' = <<body>> /\ Webhook!ForwardUrl \in allowedHosts
           /\ response'.status = 200 => response'.downstream # {}
    <3>1. Append(forwarded, body) = <<body>>
      BY <2>1
    <3>2. CASE Webhook!ForwardUrl \notin allowedHosts
      BY <1>5, <2>1, <3>2 DEF Webhook!Send, Webhook!Reply
    <3>3. CASE /\ Webhook!ForwardUrl \in allowedHosts
               /\ forwarded' = Append(forwarded, body)
               /\ \/ \E code \in {200, 500} : Webhook!Reply(200, TRUE, Webhook!Some(Webhook!ForwardUrl), Webhook!Some(code))
                  \/ Webhook!Reply(502, TRUE, Webhook!Some(Webhook!ForwardUrl), Webhook!None)
      <4>1. response'.status = 200 => response'.downstream # {}
        <5>1. CASE Webhook!Reply(502, TRUE, Webhook!Some(Webhook!ForwardUrl), Webhook!None)
          BY <5>1 DEF Webhook!Reply
        <5>2. CASE \E code \in {200, 500} :
                     Webhook!Reply(200, TRUE, Webhook!Some(Webhook!ForwardUrl), Webhook!Some(code))
          BY <5>2 DEF Webhook!Reply, Webhook!Some
        <5> QED
          BY <3>3, <5>1, <5>2
      <4> QED
        BY <3>1, <3>3, <4>1
    <3>4. CASE /\ Webhook!Reply(502, TRUE, Webhook!Some(Webhook!ForwardUrl), Webhook!None)
               /\ UNCHANGED forwarded
      BY <2>1, <3>4 DEF Webhook!Reply
    <3> QED
      BY <1>5, <3>2, <3>3, <3>4 DEF Webhook!Send
  <2>5. Webhook!ForwardUrl' = Webhook!ForwardUrl
    BY <1>1 DEF Webhook!ForwardUrl
  <2>6. \A i \in DOMAIN forwarded' :
          /\ i = 1
          /\ \E s \in Secrets \ {""} : config.secret = {s} /\ req.signature.mac = Webhook!Mac(s, req.payload)
          /\ forwarded'[i].payload = req.payload /\ req.payload.bytes <= MAX_BODY_BYTES
          /\ forwarded'[i].to = Webhook!ForwardUrl /\ forwarded'[i].to \in allowedHosts
    <3>1. CASE forwarded' = << >>
      <4>1. DOMAIN forwarded' = {}
        BY <3>1
      <4> QED
        BY <4>1
    <3>2. CASE forwarded' = <<body>> /\ Webhook!ForwardUrl \in allowedHosts
      <4>1. DOMAIN forwarded' = {1} /\ forwarded'[1] = body
        BY <3>2
      <4>2. /\ config.secret = {Key} /\ req.signature.mac = Webhook!Mac(Key, req.payload)
            /\ body.payload = req.payload /\ req.payload.bytes <= MAX_BODY_BYTES
            /\ body.to = Webhook!ForwardUrl /\ body.to \in allowedHosts
        BY <2>1, <2>2, <3>2 DEF Verified
      <4> HIDE DEF body
      <4> QED
        BY <2>2, <4>1, <4>2
    <3> QED
      BY <2>4, <3>1, <3>2
  <2>7. Webhook!AnswersAreTrue'
    <3>1. \A i \in DOMAIN forwarded' :
            /\ i = 1
            /\ \E s \in Secrets \ {""} : config'.secret = Webhook!Some(s)
                                      /\ req'.signature.mac = Webhook!Mac(s, req'.payload)
            /\ forwarded'[i].payload = req'.payload /\ req'.payload.bytes <= MAX_BODY_BYTES
            /\ forwarded'[i].to = Webhook!ForwardUrl' /\ forwarded'[i].to \in allowedHosts'
      BY <1>1, <2>1, <2>5, <2>6 DEF Webhook!Some
    <3>2. req'.signature.mac = Webhook!Mac(Webhook!Get(Webhook!signing_secret'), req'.payload)
      BY <1>1, <2>1 DEF Verified, Key
    <3>3. response'.status = 200 => forwarded' # << >> /\ response'.downstream # Webhook!None
      <4>1. <<body>> # << >>
        OBVIOUS
      <4> HIDE DEF body
      <4> QED
        BY <2>4, <4>1 DEF Webhook!None
    <3>4. response'.status # 401
      BY <2>3
    <3> QED
      BY <3>1, <3>2, <3>3, <3>4 DEF Webhook!AnswersAreTrue, Webhook!Mac, Webhook!Some, Webhook!Get
  <2> QED
    BY <1>1, <2>1, <2>3, <2>7 DEF WebhookInv, Webhook!Mac, Webhook!SAMPLE_BODY
<1>6. CASE Webhook!Again
  <2>1. /\ pc' = "waiting" /\ forwarded' = << >> /\ response' = Webhook!NoResponse
        /\ shown' = shown
    BY <1>6 DEF Webhook!Again
  <2>2. Webhook!AnswersAreTrue'
    BY <2>1 DEF Webhook!AnswersAreTrue, Webhook!NoResponse
  <2> QED
    BY <1>1, <2>1, <2>2 DEF WebhookInv, Webhook!Mac, Webhook!SAMPLE_BODY, Webhook!NoResponse
<1>7. CASE UNCHANGED Webhook!vars
  <2>1. UNCHANGED <<req, pc, forwarded, response, shown>>
    BY <1>7 DEF Webhook!vars
  <2>2. Webhook!AnswersAreTrue'
    <3>1. Webhook!ForwardUrl' = Webhook!ForwardUrl
      BY <1>1 DEF Webhook!ForwardUrl
    <3>2. config' = config /\ allowedHosts' = allowedHosts
      BY <1>1
    <3>3. Webhook!Get(Webhook!signing_secret)' = Webhook!Get(Webhook!signing_secret)
      BY <1>1 DEF Webhook!Get
    <3> DEFINE Sent ==
           \A i \in DOMAIN forwarded :
             /\ i = 1
             /\ \E s \in Secrets \ {""} : config.secret = {s} /\ req.signature.mac = <<s, req.payload>>
             /\ forwarded[i].payload = req.payload /\ req.payload.bytes <= MAX_BODY_BYTES
             /\ forwarded[i].to = Webhook!ForwardUrl /\ forwarded[i].to \in allowedHosts
           Said ==
             response.verified => req.signature.mac = <<Webhook!Get(Webhook!signing_secret), req.payload>>
           Passed == response.status = 200 /\ req.method = "POST" =>
                       forwarded # << >> /\ response.downstream # {}
           Refused == response.status = 401 /\ req.signature.is = "hex" =>
                        req.signature.mac \notin shown \/ req.payload # Webhook!SAMPLE_BODY
    <3>4. Webhook!AnswersAreTrue <=> Sent /\ Said /\ Passed /\ Refused
      BY DEF Webhook!AnswersAreTrue, Webhook!Mac, Webhook!Some, Webhook!None
    <3>5. Webhook!AnswersAreTrue' <=> (Sent /\ Said /\ Passed /\ Refused)'
      BY DEF Webhook!AnswersAreTrue, Webhook!Mac, Webhook!Some, Webhook!None
    <3>6. Sent' = Sent
      BY <2>1, <3>1, <3>2
    <3>7. Said' = Said
      BY <2>1, <3>3
    <3>8. Passed' = Passed
      BY <2>1
    <3>9. Refused' = Refused
      BY <2>1 DEF Webhook!SAMPLE_BODY
    <3> HIDE DEF Sent, Said, Passed, Refused
    <3> QED
      BY <3>4, <3>5, <3>6, <3>7, <3>8, <3>9 DEF WebhookInv
  <2>3. Verified' = Verified
    BY <1>1, <2>1 DEF Verified, Webhook!Mac
  <2> QED
    BY <1>1, <2>1, <2>2, <2>3 DEF WebhookInv, Webhook!SentRequests, Webhook!Signatures,
       Webhook!Payloads, Webhook!Mac, Webhook!SAMPLE_BODY, Webhook!NoResponse, Webhook!None, Webhook!Some
<1> QED
  BY <1>2, <1>3, <1>4, <1>5, <1>6, <1>7 DEF Webhook!Next

LEMMA WebhookInit == Webhook!Init => WebhookInv
BY DEF Webhook!Init, WebhookInv, Webhook!AnswersAreTrue, Webhook!NoResponse, Webhook!None,
   Webhook!Some

(* Nothing is forwarded but a whole body, signed with a key that somebody   *)
(* chose, to the place that is configured, once; an answer that says       *)
(* verified or forwarded is true; the command the page shows is not        *)
(* refused.                                                                *)
LEMMA WebhookHolds == WebhookInv => Webhook!AnswersAreTrue
BY DEF WebhookInv

-----------------------------------------------------------------------------
(***************************************************************************)
(* The NATS templates that are called once for a message or for a change.   *)
(***************************************************************************)
Templates == {"core-subscriber", "fan-out", "request-reply", "kv-store", "kv-watcher"}

Operations == {"put", "delete", "purge"}

LEMMA ErrorsTold == Core!ErrorsAreTold
<1> SUFFICES ASSUME NEW e \in Core!NatsErrors, NEW f \in Core!NatsErrors,
                    Core!ErrString(e) = Core!ErrString(f)
             PROVE  \/ e = f
                    \/ /\ e.tag = "Denied" /\ e.target # "Message"
                       /\ [e EXCEPT !.number = f.number] = f
  BY DEF Core!ErrorsAreTold
<1>1. ASSUME NEW x \in Core!NatsErrors
      PROVE  \/ x \in [tag : Core!Carrying, carries : 1..2] /\ Core!ErrString(x) = <<x.tag, x.carries>>
             \/ x \in [tag : Core!Bare, carries : {0}] /\ Core!ErrString(x) = <<x.tag>>
             \/ /\ x \in [tag : {"Denied"}, reason : Core!Reasons, target : Core!Targets,
                          number : 1..2, name : 1..2]
                /\ Core!ErrString(x) = <<"Denied", x.reason,
                     <<x.target, IF x.target = "Message" THEN x.number ELSE 0>>, x.name>>
  <2>1. CASE x \in [tag : Core!Carrying, carries : 1..2]
    BY <2>1 DEF Core!ErrString, Core!Carrying
  <2>2. CASE x \in [tag : Core!Bare, carries : {0}]
    BY <2>2 DEF Core!ErrString, Core!Carrying, Core!Bare
  <2>3. CASE x \in [tag : {"Denied"}, reason : Core!Reasons, target : Core!Targets,
                    number : 1..2, name : 1..2]
    <3>1. Core!denialReason(x.reason) = x.reason
      BY <2>3 DEF Core!denialReason, Core!Reasons
    <3>2. Core!deniedResource(x) = <<x.target, IF x.target = "Message" THEN x.number ELSE 0>>
      BY <2>3 DEF Core!deniedResource, Core!Targets
    <3>3. x.tag = "Denied"
      BY <2>3
    <3> QED
      BY <2>3, <3>1, <3>2, <3>3 DEF Core!ErrString
  <2> QED
    BY <2>1, <2>2, <2>3 DEF Core!NatsErrors
<1>2. CASE e.tag = "Denied" /\ f.tag = "Denied"
  <2>1. /\ e \in [tag : {"Denied"}, reason : Core!Reasons, target : Core!Targets,
                  number : 1..2, name : 1..2]
        /\ f \in [tag : {"Denied"}, reason : Core!Reasons, target : Core!Targets,
                  number : 1..2, name : 1..2]
    BY <1>2 DEF Core!NatsErrors, Core!Carrying, Core!Bare
  <2>2. /\ Core!ErrString(e) = <<"Denied", e.reason,
             <<e.target, IF e.target = "Message" THEN e.number ELSE 0>>, e.name>>
        /\ Core!ErrString(f) = <<"Denied", f.reason,
             <<f.target, IF f.target = "Message" THEN f.number ELSE 0>>, f.name>>
    BY <1>1, <1>2 DEF Core!Carrying, Core!Bare
  <2>3. /\ e.reason = f.reason /\ e.name = f.name /\ e.target = f.target
        /\ e.target = "Message" => e.number = f.number
    <3> DEFINE a == <<e.target, IF e.target = "Message" THEN e.number ELSE 0>>
               b == <<f.target, IF f.target = "Message" THEN f.number ELSE 0>>
    <3>1. <<"Denied", e.reason, a, e.name>> = <<"Denied", f.reason, b, f.name>>
      BY <2>2
    <3>2. e.reason = f.reason /\ e.name = f.name /\ a = b
      <4> HIDE DEF a, b
      <4> QED
        BY <3>1
    <3>3. a[1] = b[1] /\ a[2] = b[2]
      BY <3>2
    <3>4. e.target = f.target
      BY <3>3
    <3> QED
      BY <3>2, <3>3, <3>4
  <2> QED
    BY <2>1, <2>3
<1>3. CASE e.tag # "Denied" /\ f.tag # "Denied"
  <2>1. \A x \in {e, f} :
          \/ x \in [tag : Core!Carrying, carries : 1..2] /\ Core!ErrString(x) = <<x.tag, x.carries>>
          \/ x \in [tag : Core!Bare, carries : {0}] /\ Core!ErrString(x) = <<x.tag>>
    BY <1>1, <1>3
  <2> QED
    BY <2>1
<1>4. CASE e.tag = "Denied" /\ f.tag # "Denied"
  BY <1>1, <1>4 DEF Core!Carrying, Core!Bare
<1>5. CASE e.tag # "Denied" /\ f.tag = "Denied"
  BY <1>1, <1>5 DEF Core!Carrying, Core!Bare
<1> QED
  BY <1>2, <1>3, <1>4, <1>5

IsSeq(s) == \E T : s \in Seq(T)

LEMMA ShortSeqs ==
  /\ IsSeq(<< >>)
  /\ \A x : IsSeq(<<x>>)
  /\ \A x, y, z : IsSeq(<<x, y, z>>)
<1>1. << >> \in Seq({})
  OBVIOUS
<1>2. ASSUME NEW x PROVE IsSeq(<<x>>)
  <2>1. <<x>> \in Seq({x})
    OBVIOUS
  <2> QED
    BY <2>1 DEF IsSeq
<1>3. ASSUME NEW x, NEW y, NEW z PROVE IsSeq(<<x, y, z>>)
  <2>1. <<x, y, z>> \in Seq({x, y, z})
    OBVIOUS
  <2> QED
    BY <2>1 DEF IsSeq
<1> QED
  BY <1>1, <1>2, <1>3 DEF IsSeq

(* What a template calls, in Rust and in Go.                               *)
LEMMA CallsOf ==
  ASSUME NEW go_ \in BOOLEAN, NEW m
  PROVE  /\ Core!Handler("core-subscriber", go_, m) =
              IF m.body.text
              THEN <<Core!Receipt(Core!RECEIPT_SUBJECT, <<m.body.chars>>)>> ELSE << >>
         /\ Core!Handler("fan-out", go_, m) =
              <<Core!Publish(Core!TARGETS[1], m.body), Core!Publish(Core!TARGETS[2], m.body),
                Core!Publish(Core!TARGETS[3], m.body)>>
         /\ Core!Handler("request-reply", go_, m) =
              IF m.reply = << >> THEN << >> ELSE <<Core!Publish(m.reply, Core!Counted(m.body))>>
<1>1. Core!Handler("core-subscriber", go_, m) =
              IF m.body.text
              THEN <<Core!Receipt(Core!RECEIPT_SUBJECT, <<m.body.chars>>)>> ELSE << >>
  BY DEF Core!Handler, Core!GoCoreSubscriber, Core!CoreSubscriber
<1>2. Core!Handler("fan-out", go_, m) =
              <<Core!Publish(Core!TARGETS[1], m.body), Core!Publish(Core!TARGETS[2], m.body),
                Core!Publish(Core!TARGETS[3], m.body)>>
  <2>1. Core!GoTargets = Core!TARGETS /\ DOMAIN Core!TARGETS = 1..3
    BY DEF Core!GoTargets, Core!TARGETS
  <2>2. Core!Handler("fan-out", go_, m) = [i \in 1..3 |-> Core!Publish(Core!TARGETS[i], m.body)]
    BY <2>1 DEF Core!Handler, Core!GoFanOut, Core!FanOut
  <2> QED
    BY <2>2
<1>3. Core!Handler("request-reply", go_, m) =
              IF m.reply = << >> THEN << >> ELSE <<Core!Publish(m.reply, Core!Counted(m.body))>>
  BY DEF Core!Handler, Core!GoRequestReply, Core!RequestReply, Core!None
<1> QED
  BY <1>1, <1>2, <1>3

LEMMA WatchCalls ==
  ASSUME NEW go_ \in BOOLEAN, NEW m, m.operation \in Operations
  PROVE  Core!Handler("kv-watcher", go_, m) =
           <<Core!Receipt(<<"done", "demo", "kv">>, <<m.key, m.revision,
               <<m.operation, IF m.operation = "put" THEN m.bytes ELSE 0>> >>)>>
<1> DEFINE what == <<m.operation, IF m.operation = "put" THEN m.bytes ELSE 0>>
<1>1. CASE go_
  <2>1. Core!Handler("kv-watcher", go_, m) = Core!GoKvWatcher(m)
    BY <1>1 DEF Core!Handler
  <2> QED
    BY <2>1 DEF Core!GoKvWatcher, Operations
<1>2. CASE ~go_
  <2>1. Core!Handler("kv-watcher", go_, m) = Core!KvWatcher(m)
    BY <1>2 DEF Core!Handler
  <2> QED
    BY <2>1 DEF Core!KvWatcher, Operations
<1> QED
  BY <1>1, <1>2

(* The key of a subject, if it names one. *)
Named(m) ==
  /\ Len(m.subject) > 2 /\ Core!IsPrefix(Core!SUBJECT_PREFIX, m.subject)
  /\ SubSeq(m.subject, 3, Len(m.subject)) # <<"">>
  /\ Len(SubSeq(m.subject, 3, Len(m.subject))) = 1

LEMMA TailOf ==
  ASSUME NEW s, IsSeq(s)
  PROVE  /\ Len(SubSeq(s, 3, Len(s))) \in Nat
         /\ Len(s) > 2 => /\ Len(SubSeq(s, 3, Len(s))) >= 1
                          /\ SubSeq(s, 3, Len(s)) # << >>
                          /\ SubSeq(s, 3, Len(s))[1] = s[3]
<1>1. PICK T : s \in Seq(T)
  BY DEF IsSeq
<1> DEFINE key == SubSeq(s, 3, Len(s))
<1>2. Len(s) \in Nat
  BY <1>1
<1>3. Len(key) \in Nat
  BY <1>1
<1>4. ASSUME Len(s) > 2 PROVE Len(key) >= 1 /\ key[1] = s[3]
  BY <1>1, <1>2, <1>4
<1>5. Len(<< >>) = 0
  OBVIOUS
<1> HIDE DEF key
<1>6. Len(key) >= 1 => key # << >>
  <2>1. SUFFICES ASSUME key = << >> PROVE ~(Len(key) >= 1)
    OBVIOUS
  <2>2. Len(key) = 0
    BY <1>5, <2>1
  <2> QED
    BY <2>2
<1> QED
  BY <1>3, <1>4, <1>6 DEF key

LEMMA StoreCalls ==
  ASSUME NEW go_ \in BOOLEAN, NEW m, IsSeq(m.subject)
  PROVE  Core!Handler("kv-store", go_, m) =
           IF Named(m)
           THEN << [call |-> "open"],
                   [call |-> "put", key |-> m.subject[3], body |-> m.body],
                   Core!Receipt(<<"done", "demo", "records">>, <<m.subject[3], "revision">>) >>
           ELSE << >>
<1> DEFINE s == m.subject
           key == SubSeq(s, 3, Len(s))
           prefixed == Len(s) > 2 /\ Core!IsPrefix(Core!SUBJECT_PREFIX, s)
           Made(k) == << [call |-> "open"], [call |-> "put", key |-> k[1], body |-> m.body],
                         Core!Receipt(<<"done", "demo", "records">>, <<k[1], "revision">>) >>
           Kept(k) == IF k = << >> \/ k = <<"">> \/ Len(k) > 1 THEN << >> ELSE Made(k)
<1>1. Len(Core!SUBJECT_PREFIX) = 2
  BY DEF Core!SUBJECT_PREFIX
<1>2. /\ Len(key) \in Nat
      /\ Len(s) > 2 => Len(key) >= 1 /\ key # << >> /\ key[1] = s[3]
  BY TailOf
<1>3. Core!KvStore(m) = Kept(Core!Suffix(s))
  BY DEF Core!KvStore
<1>4. Core!Suffix(s) = IF prefixed THEN key ELSE << >>
  BY <1>1 DEF Core!Suffix
<1>5. Core!GoKvStore(m) = IF prefixed THEN Kept(key) ELSE << >>
  <2> DEFINE G(p, k) == IF ~p \/ k = <<"">> \/ Len(k) > 1 THEN << >> ELSE Made(k)
             p0 == Core!IsPrefix(Core!SUBJECT_PREFIX, s) /\ Len(s) > Len(Core!SUBJECT_PREFIX)
             k0 == IF p0 THEN SubSeq(s, Len(Core!SUBJECT_PREFIX) + 1, Len(s)) ELSE << >>
  <2>1. Core!GoKvStore(m) = G(p0, k0)
    BY DEF Core!GoKvStore
  <2>2. p0 <=> prefixed
    BY <1>1
  <2>3. prefixed => k0 = key
    BY <1>1, <2>2
  <2> HIDE DEF p0, k0, key, Made
  <2>4. CASE prefixed
    <3>1. p0 /\ k0 = key /\ key # << >>
      BY <1>2, <2>2, <2>3, <2>4
    <3> QED
      BY <2>1, <2>4, <3>1
  <2>5. CASE ~prefixed
    BY <2>1, <2>2, <2>5
  <2> QED
    BY <2>4, <2>5
<1> HIDE DEF Made, key, prefixed
<1>6. Core!KvStore(m) = Core!GoKvStore(m)
  <2>1. CASE prefixed
    BY <1>3, <1>4, <1>5, <2>1
  <2>2. CASE ~prefixed
    BY <1>3, <1>4, <1>5, <2>2
  <2> QED
    BY <2>1, <2>2
<1>7. Core!Handler("kv-store", go_, m) = Core!GoKvStore(m)
  BY <1>6 DEF Core!Handler
<1>8. Named(m) <=> (prefixed /\ key # <<"">> /\ Len(key) = 1)
  BY DEF Named, prefixed, key
<1>9. CASE prefixed
  <2>1. Len(key) >= 1 /\ key # << >> /\ key[1] = s[3]
    BY <1>2, <1>9 DEF prefixed
  <2>2. CASE Named(m)
    <3>1. Core!GoKvStore(m) = Made(key)
      <4>1. key # << >> /\ key # <<"">> /\ Len(key) = 1
        BY <1>8, <2>1, <2>2
      <4>2. ~(Len(key) > 1)
        <5>1. Len(key) = 1
          BY <4>1
        <5> HIDE DEF Kept
        <5> QED
          BY <5>1
      <4>3. Kept(key) = Made(key)
        BY <4>1, <4>2
      <4> QED
        BY <1>5, <1>9, <4>3
    <3>2. Made(key) = << [call |-> "open"], [call |-> "put", key |-> s[3], body |-> m.body],
                         Core!Receipt(<<"done", "demo", "records">>, <<s[3], "revision">>) >>
      BY <2>1 DEF Made
    <3> QED
      BY <1>7, <2>2, <3>1, <3>2
  <2>3. CASE ~Named(m)
    <3>1. key = <<"">> \/ Len(key) > 1
      <4>1. key = <<"">> \/ Len(key) # 1
        BY <1>8, <1>9, <2>3
      <4>2. Len(key) # 1 => Len(key) > 1
        <5>1. Len(key) \in Nat /\ Len(key) >= 1
          BY <1>2, <2>1
        <5> QED
          BY <5>1
      <4> QED
        BY <4>1, <4>2
    <3>2. Core!GoKvStore(m) = << >>
      BY <1>5, <1>9, <3>1
    <3> QED
      BY <1>7, <2>3, <3>2
  <2> QED
    BY <2>2, <2>3
<1>10. CASE ~prefixed
  BY <1>5, <1>7, <1>8, <1>10
<1> QED
  BY <1>9, <1>10
(* The host calls that a template makes for a message, in either language. *)
H(c) == Core!Handler(c.template, c.go, c.message)

WatchedBody(m) ==
  <<m.key, m.revision, <<m.operation, IF m.operation = "put" THEN m.bytes ELSE 0>> >>

Fields == {"template", "go", "message", "made", "todo", "revision", "end"}

(* A call of a handler has made the first of the calls of its template, and *)
(* has the others to do.                                                    *)
Shaped(c) ==
  /\ DOMAIN c = Fields
  /\ c.template \in Templates /\ c.go \in BOOLEAN /\ c.end \in {"none", "ok", "err"}
  /\ c.template = "request-reply" /\ c.message.reply # << >> => c.message.hops = 0
  /\ c.template = "kv-store" => IsSeq(c.message.subject)
  /\ c.template = "kv-watcher" => c.message.operation \in Operations
  /\ Len(c.made) \in 0..Len(H(c))
  /\ c.made = SubSeq(H(c), 1, Len(c.made))
  /\ c.todo = SubSeq(H(c), Len(c.made) + 1, Len(H(c)))
  /\ c.end = "ok" => c.todo = << >>
  /\ c.end = "err" => c.todo # << >>

(* What a call says of the bucket: the watcher of a change that is in it,   *)
(* and the store, once it has put its record, of the revision it became.    *)
Placed(i, c) ==
  /\ c.template = "kv-watcher" =>
       /\ c.message.revision \in 1..Len(history)
       /\ LET change == history[c.message.revision]
          IN /\ c.message.key = change.key /\ c.message.operation = change.operation
             /\ c.message.bytes = change.bytes
  /\ IF c.template = "kv-store" /\ Len(c.made) >= 2
     THEN /\ c.revision \in 1..Len(history)
          /\ history[c.revision].by = i
          /\ history[c.revision].key = c.message.subject[3]
     ELSE c.revision = 0

Truthful(r) ==
  LET c == calls[r.of]
  IN /\ r = [of |-> r.of, body |-> r.body, revision |-> r.revision]
     /\ r.of \in 1..Len(calls)
     /\ r.revision = c.revision
     /\ c.template = "kv-store" =>
          Len(c.made) >= 2 /\ r.body = <<c.message.subject[3], "revision">>
     /\ c.template = "kv-watcher" => r.body = WatchedBody(c.message)

Answered ==
  {i \in 1..Len(calls) :
     /\ calls[i].template = "request-reply"
     /\ Len(calls[i].made) > 0 \/ calls[i].end = "err"}

CoreInv ==
  /\ IsSeq(calls)
  /\ \A i \in 1..Len(calls) : Shaped(calls[i]) /\ Placed(i, calls[i])
  /\ \A m \in bus : m.reply = << >>
  /\ IsSeq(history)
  /\ \A k \in 1..Len(history) :
       /\ history[k].operation \in Operations
       /\ history[k].operation # "put" => history[k].bytes = 0
  /\ \A r \in receipts : Truthful(r)
  /\ replies \in Nat /\ replies <= Cardinality(Answered)

LEMMA SeqStep ==
  ASSUME NEW h, IsSeq(h), NEW k \in 0..Len(h), NEW made_, NEW todo,
         made_ = SubSeq(h, 1, k), todo = SubSeq(h, k + 1, Len(h)), todo # << >>
  PROVE  /\ k < Len(h) /\ Head(todo) = h[k + 1]
         /\ Append(made_, Head(todo)) = SubSeq(h, 1, k + 1)
         /\ Len(Append(made_, Head(todo))) = k + 1
         /\ Tail(todo) = SubSeq(h, k + 2, Len(h))
<1>1. PICK T : h \in Seq(T)
  BY DEF IsSeq
<1>2. Len(h) \in Nat /\ k \in Nat /\ k <= Len(h)
  BY <1>1
<1>3. /\ made_ \in Seq(T) /\ Len(made_) = k
      /\ \A i \in 1..k : made_[i] = h[i]
  BY <1>1, <1>2
<1>4. k < Len(h)
  <2>1. SUFFICES ASSUME k = Len(h) PROVE FALSE
    BY <1>2
  <2>2. SubSeq(h, k + 1, Len(h)) = << >>
    BY <1>1, <1>2, <2>1
  <2> QED
    BY <2>2
<1>5. /\ todo \in Seq(T) /\ Len(todo) = Len(h) - k
      /\ \A i \in 1..Len(h) - k : todo[i] = h[k + i]
  BY <1>1, <1>2, <1>4
<1>6. Head(todo) = h[k + 1]
  BY <1>2, <1>4, <1>5
<1>7. h[k + 1] \in T
  BY <1>1, <1>2, <1>4
<1>8. Append(made_, Head(todo)) = SubSeq(h, 1, k + 1) /\ Len(Append(made_, Head(todo))) = k + 1
  <2> DEFINE a == Append(made_, h[k + 1])
             b == SubSeq(h, 1, k + 1)
  <2>1. a \in Seq(T) /\ Len(a) = k + 1 /\ \A i \in 1..k + 1 : a[i] = h[i]
    BY <1>2, <1>3, <1>7
  <2>2. b \in Seq(T) /\ Len(b) = k + 1 /\ \A i \in 1..k + 1 : b[i] = h[i]
    BY <1>1, <1>2, <1>4
  <2> HIDE DEF a, b
  <2>3. a = b
    BY <1>2, <2>1, <2>2
  <2> QED
    BY <1>6, <2>1, <2>3 DEF a, b
<1>9. Tail(todo) = SubSeq(h, k + 2, Len(h))
  <2> DEFINE a == Tail(todo)
             b == SubSeq(h, k + 2, Len(h))
             n == Len(h) - (k + 1)
  <2>0. n \in Nat
    BY <1>2, <1>4
  <2>1. a \in Seq(T) /\ Len(a) = n /\ \A i \in 1..n : a[i] = h[k + 1 + i]
    BY <1>2, <1>4, <1>5
  <2>2. b \in Seq(T) /\ Len(b) = n /\ \A i \in 1..n : b[i] = h[k + 1 + i]
    BY <1>1, <1>2, <1>4
  <2> HIDE DEF a, b, n
  <2>3. a = b
    BY <2>0, <2>1, <2>2
  <2> QED
    BY <2>3 DEF a, b
<1> QED
  BY <1>4, <1>6, <1>8, <1>9

(* The languages agree, and no template makes more than three calls.       *)
LEMMA HandlerIs ==
  ASSUME NEW c, c.template \in Templates, c.go \in BOOLEAN,
         c.template = "kv-store" => IsSeq(c.message.subject),
         c.template = "kv-watcher" => c.message.operation \in Operations
  PROVE  /\ IsSeq(H(c))
         /\ Core!Handler(c.template, ~c.go, c.message) = H(c)
<1> DEFINE t == c.template
           m == c.message
           g == ~c.go
<1>0. g \in BOOLEAN
  OBVIOUS
<1> HIDE DEF g
<1>1. CASE t = "core-subscriber"
  BY <1>0, <1>1, CallsOf, ShortSeqs DEF H, g
<1>2. CASE t = "fan-out"
  <2> DEFINE P(i) == Core!Publish(Core!TARGETS[i], m.body)
  <2>1. H(c) = <<P(1), P(2), P(3)>>
    BY <1>2, CallsOf DEF H
  <2>2. Core!Handler(c.template, g, c.message) = <<P(1), P(2), P(3)>>
    BY <1>0, <1>2, CallsOf
  <2> HIDE DEF P
  <2>3. IsSeq(<<P(1), P(2), P(3)>>)
    BY ShortSeqs
  <2> QED
    BY <2>1, <2>2, <2>3 DEF g
<1>3. CASE t = "request-reply"
  BY <1>0, <1>3, CallsOf, ShortSeqs DEF H, g
<1>4. CASE t = "kv-store"
  <2>1. IsSeq(m.subject)
    BY <1>4
  <2> QED
    BY <1>0, <1>4, <2>1, StoreCalls, ShortSeqs DEF H, g
<1>5. CASE t = "kv-watcher"
  <2>1. m.operation \in Operations
    BY <1>5
  <2> QED
    BY <1>0, <1>5, <2>1, WatchCalls, ShortSeqs DEF H, g
<1> QED
  BY <1>1, <1>2, <1>3, <1>4, <1>5 DEF Templates

(* The next call of a handler.                                             *)
LEMMA NextCall ==
  ASSUME NEW c, Shaped(c), c.todo # << >>
  PROVE  LET h == Head(c.todo)
             k == Len(c.made)
         IN /\ k \in Nat /\ k < Len(H(c)) /\ h = H(c)[k + 1]
            /\ h.call = "put" => /\ c.template = "kv-store" /\ k = 1
                                 /\ h.key = c.message.subject[3]
            /\ c.template = "kv-store" /\ k = 1 => h.call = "put"
            /\ h.call = "jetstream" /\ c.template = "kv-store" =>
                 k = 2 /\ h.body = <<c.message.subject[3], "revision">>
            /\ h.call = "jetstream" /\ c.template = "kv-watcher" => h.body = WatchedBody(c.message)
            /\ h.call = "core" => h.reply = << >>
            /\ c.template = "request-reply" => k = 0 /\ c.message.reply # << >>
<1> DEFINE h == Head(c.todo)
           k == Len(c.made)
           m == c.message
<1>1. IsSeq(H(c)) /\ c.template \in Templates /\ c.go \in BOOLEAN
  BY HandlerIs DEF Shaped
<1>2. k \in 0..Len(H(c)) /\ c.made = SubSeq(H(c), 1, k) /\ c.todo = SubSeq(H(c), k + 1, Len(H(c)))
  BY DEF Shaped
<1>3. k < Len(H(c)) /\ h = H(c)[k + 1]
  BY <1>1, <1>2, SeqStep
<1>4. k \in Nat
  BY <1>2
<1> HIDE DEF h, k
<1>5. CASE c.template = "core-subscriber"
  <2>1. H(c) = IF m.body.text
               THEN <<Core!Receipt(Core!RECEIPT_SUBJECT, <<m.body.chars>>)>> ELSE << >>
    BY <1>1, <1>5, CallsOf DEF H
  <2>2. H(c) = <<Core!Receipt(Core!RECEIPT_SUBJECT, <<m.body.chars>>)>>
    BY <1>3, <1>4, <2>1
  <2>3. Len(H(c)) = 1
    BY <2>2
  <2>4. k = 0
    BY <1>3, <1>4, <2>3
  <2>5. h = Core!Receipt(Core!RECEIPT_SUBJECT, <<m.body.chars>>)
    BY <1>3, <2>2, <2>4
  <2>6. h.call = "jetstream"
    BY <2>5 DEF Core!Receipt
  <2> QED
    BY <1>3, <1>4, <1>5, <2>4, <2>6 DEF h, k
<1>6. CASE c.template = "fan-out"
  <2>1. H(c) = <<Core!Publish(Core!TARGETS[1], m.body), Core!Publish(Core!TARGETS[2], m.body),
                 Core!Publish(Core!TARGETS[3], m.body)>>
    BY <1>1, <1>6, CallsOf DEF H
  <2>2. Len(H(c)) = 3
    BY <2>1
  <2>3. k + 1 \in 1..3
    BY <1>3, <1>4, <2>2
  <2>4. \E s : h = Core!Publish(s, m.body)
    BY <1>3, <2>1, <2>3
  <2>5. h.call = "core" /\ h.reply = << >>
    BY <2>4 DEF Core!Publish, Core!None
  <2> QED
    BY <1>3, <1>4, <1>6, <2>5 DEF h, k
<1>7. CASE c.template = "request-reply"
  <2>1. H(c) = IF m.reply = << >> THEN << >> ELSE <<Core!Publish(m.reply, Core!Counted(m.body))>>
    BY <1>1, <1>7, CallsOf DEF H
  <2>2. m.reply # << >>
    BY <1>3, <1>4, <2>1
  <2>3. H(c) = <<Core!Publish(m.reply, Core!Counted(m.body))>>
    BY <2>1, <2>2
  <2>4. Len(H(c)) = 1
    BY <2>3
  <2>5. k = 0
    BY <1>3, <1>4, <2>4
  <2>6. h = Core!Publish(m.reply, Core!Counted(m.body))
    BY <1>3, <2>3, <2>5
  <2>7. h.call = "core" /\ h.reply = << >>
    BY <2>6 DEF Core!Publish, Core!None
  <2> QED
    BY <1>3, <1>4, <1>7, <2>2, <2>5, <2>7 DEF h, k
<1>8. CASE c.template = "kv-store"
  <2> DEFINE put == [call |-> "put", key |-> m.subject[3], body |-> m.body]
             rec == Core!Receipt(<<"done", "demo", "records">>, <<m.subject[3], "revision">>)
  <2>1. IsSeq(m.subject)
    BY <1>8 DEF Shaped
  <2>2. H(c) = IF Named(m) THEN << [call |-> "open"], put, rec >> ELSE << >>
    BY <1>1, <1>8, <2>1, StoreCalls DEF H
  <2> HIDE DEF put, rec
  <2>3. H(c) = << [call |-> "open"], put, rec >>
    BY <1>3, <1>4, <2>2
  <2>4. Len(H(c)) = 3
    BY <2>3
  <2>5. k = 0 \/ k = 1 \/ k = 2
    BY <1>3, <1>4, <2>4
  <2>6. CASE k = 0
    <3>1. h.call = "open"
      BY <1>3, <2>3, <2>6
    <3> QED
      BY <1>3, <1>4, <1>8, <2>6, <3>1 DEF h, k
  <2>7. CASE k = 1
    <3>1. h = put
      BY <1>3, <2>3, <2>7
    <3>2. h.call = "put" /\ h.key = m.subject[3]
      BY <3>1 DEF put
    <3> QED
      BY <1>3, <1>4, <1>8, <2>7, <3>2 DEF h, k
  <2>8. CASE k = 2
    <3>1. h = rec
      BY <1>3, <2>3, <2>8
    <3>2. h.call = "jetstream" /\ h.body = <<m.subject[3], "revision">>
      BY <3>1 DEF rec, Core!Receipt
    <3> QED
      BY <1>3, <1>4, <1>8, <2>8, <3>2 DEF h, k
  <2> QED
    BY <2>5, <2>6, <2>7, <2>8
<1>9. CASE c.template = "kv-watcher"
  <2>1. m.operation \in Operations
    BY <1>9 DEF Shaped
  <2>2. H(c) = <<Core!Receipt(<<"done", "demo", "kv">>, WatchedBody(m))>>
    BY <1>1, <1>9, <2>1, WatchCalls DEF H, WatchedBody
  <2>3. Len(H(c)) = 1
    BY <2>2
  <2>4. k = 0
    BY <1>3, <1>4, <2>3
  <2>5. h = Core!Receipt(<<"done", "demo", "kv">>, WatchedBody(m))
    BY <1>3, <2>2, <2>4
  <2>6. h.call = "jetstream" /\ h.body = WatchedBody(m)
    BY <2>5 DEF Core!Receipt
  <2> QED
    BY <1>3, <1>4, <1>9, <2>4, <2>6 DEF h, k
<1> QED
  BY <1>1, <1>5, <1>6, <1>7, <1>8, <1>9 DEF Templates

-----------------------------------------------------------------------------
LEMMA Appended ==
  ASSUME NEW s, IsSeq(s), NEW x
  PROVE  LET r == Append(s, x)
         IN /\ IsSeq(r) /\ Len(s) \in Nat /\ Len(r) = Len(s) + 1
            /\ DOMAIN r = 1..Len(s) + 1 /\ DOMAIN s = 1..Len(s)
            /\ r[Len(s) + 1] = x /\ \A i \in 1..Len(s) : r[i] = s[i]
<1>1. PICK T : s \in Seq(T)
  BY DEF IsSeq
<1>2. s \in Seq(T \cup {x}) /\ x \in T \cup {x}
  BY <1>1
<1>3. Append(s, x) \in Seq(T \cup {x})
  BY <1>2
<1> QED
  BY <1>2, <1>3 DEF IsSeq

(* The bucket only grows.                                                  *)
Grows ==
  /\ IsSeq(history')
  /\ Len(history) \in Nat /\ Len(history') \in Nat /\ Len(history) <= Len(history')
  /\ \A k \in 1..Len(history) : history'[k] = history[k]
  /\ \A k \in 1..Len(history') :
       /\ history'[k].operation \in Operations
       /\ history'[k].operation # "put" => history'[k].bytes = 0

LEMMA GrowsBy ==
  ASSUME CoreInv,
         \/ history' = history
         \/ \E e : /\ history' = Append(history, e) /\ e.operation \in Operations
                   /\ e.operation # "put" => e.bytes = 0
  PROVE  Grows
<1>1. IsSeq(history) /\ Len(history) \in Nat
  BY Appended DEF CoreInv
<1>2. CASE history' = history
  BY <1>1, <1>2 DEF CoreInv, Grows
<1>3. ASSUME NEW e, history' = Append(history, e), e.operation \in Operations,
             e.operation # "put" => e.bytes = 0
      PROVE  Grows
  <2>1. /\ IsSeq(history') /\ Len(history') = Len(history) + 1
        /\ history'[Len(history) + 1] = e
        /\ \A k \in 1..Len(history) : history'[k] = history[k]
    BY <1>1, <1>3, Appended
  <2>2. ASSUME NEW k \in 1..Len(history')
        PROVE  /\ history'[k].operation \in Operations
               /\ history'[k].operation # "put" => history'[k].bytes = 0
    <3>1. k \in 1..Len(history) \/ k = Len(history) + 1
      BY <1>1, <2>1
    <3> QED
      BY <1>3, <2>1, <3>1 DEF CoreInv
  <2> QED
    BY <1>1, <2>1, <2>2 DEF Grows
<1> QED
  BY <1>2, <1>3

LEMMA StaysPlaced ==
  ASSUME Grows, NEW i, NEW c, Placed(i, c)
  PROVE  /\ c.template = "kv-watcher" =>
              /\ c.message.revision \in 1..Len(history')
              /\ LET change == history'[c.message.revision]
                 IN /\ c.message.key = change.key /\ c.message.operation = change.operation
                    /\ c.message.bytes = change.bytes
         /\ IF c.template = "kv-store" /\ Len(c.made) >= 2
            THEN /\ c.revision \in 1..Len(history')
                 /\ history'[c.revision].by = i
                 /\ history'[c.revision].key = c.message.subject[3]
            ELSE c.revision = 0
<1>1. \A k \in 1..Len(history) : k \in 1..Len(history') /\ history'[k] = history[k]
  BY DEF Grows
<1> QED
  BY <1>1 DEF Placed

LEMMA CoreCardinality == ASSUME NEW S PROVE Core!Cardinality(S) = Cardinality(S)
BY DEF Core!Cardinality, Cardinality

LEMMA AnsweredIsFinite == CoreInv => IsFiniteSet(Answered) /\ IsFiniteSet(1..Len(calls))
<1> SUFFICES ASSUME CoreInv PROVE IsFiniteSet(Answered) /\ IsFiniteSet(1..Len(calls))
  OBVIOUS
<1>1. Len(calls) \in Nat
  BY Appended DEF CoreInv
<1>2. IsFiniteSet(1..Len(calls))
  BY <1>1, FS_Interval
<1>3. Answered \subseteq 1..Len(calls)
  BY DEF Answered
<1> QED
  BY <1>2, <1>3, FS_Subset

(* A handler is called.                                                    *)
LEMMA CalledKeeps ==
  ASSUME CoreInv, NEW template, NEW go_, NEW m, Core!Called(template, go_, m),
         template \in Templates, go_ \in BOOLEAN,
         template = "request-reply" /\ m.reply # << >> => m.hops = 0,
         template = "kv-store" => IsSeq(m.subject),
         template = "kv-watcher" => /\ m.revision \in 1..Len(history)
                                    /\ m.key = history[m.revision].key
                                    /\ m.operation = history[m.revision].operation
                                    /\ m.bytes = history[m.revision].bytes,
         bus' \subseteq bus, UNCHANGED <<replies, history, receipts>>
  PROVE  CoreInv'
<1> DEFINE h == Core!Handler(template, go_, m)
           c == [template |-> template, go |-> go_, message |-> m, made |-> << >>, todo |-> h,
                 revision |-> 0, end |-> "none"]
           n == Len(calls)
<1>1. calls' = Append(calls, c)
  BY DEF Core!Called
<1>2. /\ IsSeq(calls') /\ n \in Nat /\ Len(calls') = n + 1
      /\ calls'[n + 1] = c /\ \A i \in 1..n : calls'[i] = calls[i]
  BY <1>1, Appended DEF CoreInv
<1>3. template = "kv-watcher" => m.operation \in Operations
  BY DEF CoreInv
<1>4. H(c) = h
  BY DEF H
<1>5. IsSeq(h)
  <2>1. c.template = template /\ c.go = go_ /\ c.message = m
    OBVIOUS
  <2> HIDE DEF c
  <2> QED
    BY <1>3, <1>4, <2>1, HandlerIs
<1>6. /\ Len(<< >>) = 0 /\ Len(h) \in Nat /\ SubSeq(h, 1, 0) = << >>
      /\ SubSeq(h, 1, Len(h)) = h
  <2>1. PICK T : h \in Seq(T)
    BY <1>5 DEF IsSeq
  <2> HIDE DEF h
  <2>2. Len(h) \in Nat
    BY <2>1
  <2>3. SubSeq(h, 1, Len(h)) = h
    BY <2>1
  <2>4. SubSeq(h, 1, 0) = << >>
    BY <2>1
  <2> QED
    BY <2>2, <2>3, <2>4
<1>7. Shaped(c)
  <2>1. /\ c.template = template /\ c.go = go_ /\ c.message = m /\ c.made = << >> /\ c.todo = h
        /\ c.end = "none"
        /\ DOMAIN c = Fields
    BY DEF Fields
  <2> HIDE DEF c, h
  <2>2. /\ Len(c.made) \in 0..Len(H(c))
        /\ c.made = SubSeq(H(c), 1, Len(c.made))
        /\ c.todo = SubSeq(H(c), Len(c.made) + 1, Len(H(c)))
    BY <1>4, <1>6, <2>1
  <2> QED
    BY <1>3, <2>1, <2>2 DEF Shaped
<1>8. Placed(n + 1, c)
  BY <1>6 DEF Placed
<1> HIDE DEF c
<1>9. \A i \in 1..Len(calls') : Shaped(calls'[i]) /\ Placed(i, calls'[i])
  <2> SUFFICES ASSUME NEW i \in 1..Len(calls') PROVE Shaped(calls'[i]) /\ Placed(i, calls'[i])
    OBVIOUS
  <2>1. i \in 1..n \/ i = n + 1
    BY <1>2
  <2> QED
    BY <1>2, <1>7, <1>8, <2>1 DEF CoreInv
<1>10. (\A i \in 1..Len(calls) : Shaped(calls[i]) /\ Placed(i, calls[i]))'
  <2>1. (\A i \in 1..Len(calls) : Shaped(calls[i]))'
    BY <1>9 DEF Shaped, H
  <2>2. (\A i \in 1..Len(calls) : Placed(i, calls[i]))'
    BY <1>9 DEF Placed
  <2> QED
    BY <2>1, <2>2
<1>11. (\A r \in receipts : Truthful(r))'
  <2> SUFFICES ASSUME NEW r \in receipts' PROVE Truthful(r)'
    OBVIOUS
  <2>1. Truthful(r)
    BY DEF CoreInv
  <2>2. r.of \in 1..n /\ r.of \in 1..Len(calls') /\ calls'[r.of] = calls[r.of]
    BY <1>2, <2>1 DEF Truthful
  <2> QED
    BY <2>1, <2>2 DEF Truthful
<1>12. Answered' = Answered
  <2>1. c.made = << >> /\ c.end = "none"
    BY DEF c
  <2>2. ~(Len(c.made) > 0)
    BY <1>6, <2>1
  <2>3. n + 1 \notin 1..n /\ 1..Len(calls') = 1..n \cup {n + 1}
    BY <1>2
  <2> QED
    BY <1>2, <2>1, <2>2, <2>3 DEF Answered
<1> QED
  BY <1>2, <1>10, <1>11, <1>12 DEF CoreInv

LEMMA CallsMoved ==
  ASSUME IsSeq(calls), NEW i \in 1..Len(calls), NEW d, calls' = [calls EXCEPT ![i] = d]
  PROVE  /\ IsSeq(calls') /\ Len(calls) \in Nat /\ Len(calls') = Len(calls)
         /\ calls'[i] = d /\ \A j \in 1..Len(calls) : j # i => calls'[j] = calls[j]
<1>1. PICK T : calls \in Seq(T)
  BY DEF IsSeq
<1>2. Len(calls) \in Nat /\ DOMAIN calls = 1..Len(calls)
  BY <1>1
<1>3. calls \in Seq(T \cup {d}) /\ d \in T \cup {d}
  BY <1>1
<1>4. calls' \in Seq(T \cup {d}) /\ Len(calls') = Len(calls)
  BY <1>3
<1>5. calls'[i] = d /\ \A j \in 1..Len(calls) : j # i => calls'[j] = calls[j]
  BY <1>2
<1> QED
  BY <1>2, <1>4, <1>5 DEF IsSeq

(* A call of a handler goes on as d: what it did, and what it wrote.       *)
LEMMA MovedKeeps ==
  ASSUME CoreInv, Grows, NEW i \in 1..Len(calls), NEW d,
         calls' = [calls EXCEPT ![i] = d],
         Shaped(d), d.template = calls[i].template, d.message = calls[i].message,
         Len(calls[i].made) \in Nat, Len(d.made) \in Nat, Len(calls[i].made) <= Len(d.made),
         \/ d.revision = calls[i].revision
         \/ d.template = "kv-store" /\ ~(Len(calls[i].made) >= 2),
         IF d.template = "kv-store" /\ Len(d.made) >= 2
           THEN /\ d.revision \in 1..Len(history')
                /\ history'[d.revision].by = i
                /\ history'[d.revision].key = d.message.subject[3]
           ELSE d.revision = 0,
         \A m \in bus' \ bus : m.reply = << >>,
         \A r \in receipts' \ receipts :
           /\ r = [of |-> i, body |-> r.body, revision |-> d.revision]
           /\ d.template = "kv-store" =>
                Len(d.made) >= 2 /\ r.body = <<d.message.subject[3], "revision">>
           /\ d.template = "kv-watcher" => r.body = WatchedBody(d.message),
         \/ replies' = replies
         \/ /\ replies' = replies + 1 /\ d.template = "request-reply"
            /\ i \notin Answered /\ (Len(d.made) > 0 \/ d.end = "err"),
         i \in Answered => (Len(d.made) > 0 \/ d.end = "err")
  PROVE  CoreInv'
<1> DEFINE n == Len(calls)
<1>1. /\ IsSeq(calls') /\ n \in Nat /\ Len(calls') = n
      /\ calls'[i] = d /\ \A j \in 1..n : j # i => calls'[j] = calls[j]
  <2>1. IsSeq(calls)
    BY DEF CoreInv
  <2> QED
    BY <2>1, CallsMoved
<1>2. \A j \in 1..n : Shaped(calls'[j])
  BY <1>1 DEF CoreInv
<1>3. (\A j \in 1..Len(calls) : Shaped(calls[j]))'
  BY <1>1, <1>2 DEF Shaped, H
<1>4. (\A j \in 1..Len(calls) : Placed(j, calls[j]))'
  <2> SUFFICES ASSUME NEW j \in 1..n PROVE Placed(j, calls[j])'
    BY <1>1
  <2>1. Placed(j, calls[j])
    BY DEF CoreInv
  <2>2. CASE j # i
    <3>1. calls'[j] = calls[j]
      BY <1>1, <2>2
    <3> DEFINE c == calls[j]
    <3>2. /\ c.template = "kv-watcher" =>
              /\ c.message.revision \in 1..Len(history')
              /\ LET change == history'[c.message.revision]
                 IN /\ c.message.key = change.key /\ c.message.operation = change.operation
                    /\ c.message.bytes = change.bytes
          /\ IF c.template = "kv-store" /\ Len(c.made) >= 2
            THEN /\ c.revision \in 1..Len(history')
                 /\ history'[c.revision].by = j
                 /\ history'[c.revision].key = c.message.subject[3]
            ELSE c.revision = 0
      BY <2>1, StaysPlaced
    <3> QED
      BY <3>1, <3>2 DEF Placed
  <2>3. CASE j = i
    <3> DEFINE c == calls[i]
    <3>0. Placed(i, c)
      BY <2>1, <2>3
    <3>1. c.template = "kv-watcher" =>
              /\ c.message.revision \in 1..Len(history')
              /\ LET change == history'[c.message.revision]
                 IN /\ c.message.key = change.key /\ c.message.operation = change.operation
                    /\ c.message.bytes = change.bytes
      <4> HIDE DEF c
      <4> QED
        BY <3>0, StaysPlaced
    <3> QED
      BY <1>1, <2>3, <3>1 DEF Placed
  <2> QED
    BY <2>2, <2>3
<1>5. (\A r \in receipts : Truthful(r))'
  <2> SUFFICES ASSUME NEW r \in receipts' PROVE Truthful(r)'
    OBVIOUS
  <2>1. CASE r \in receipts
    <3>1. Truthful(r)
      BY <2>1 DEF CoreInv
    <3>2. r.of \in 1..n /\ r.of \in 1..Len(calls')
      BY <1>1, <3>1 DEF Truthful
    <3>3. CASE r.of # i
      <4>1. calls'[r.of] = calls[r.of]
        BY <1>1, <3>2, <3>3
      <4> QED
        BY <3>1, <3>2, <4>1 DEF Truthful
    <3>4. CASE r.of = i
      <4>1. d.revision = calls[i].revision
        BY <3>1, <3>4 DEF Truthful
      <4>2. calls'[r.of] = d
        BY <1>1, <3>4
      <4>3. d.template = "kv-store" => Len(d.made) >= 2
        BY <3>1, <3>4 DEF Truthful
      <4> QED
        BY <3>1, <3>2, <3>4, <4>1, <4>2, <4>3 DEF Truthful
    <3> QED
      BY <3>3, <3>4
  <2>2. CASE r \notin receipts
    <3>1. r.of = i /\ r.revision = d.revision /\ r = [of |-> r.of, body |-> r.body, revision |-> r.revision]
      BY <2>2
    <3>2. calls'[r.of] = d /\ r.of \in 1..Len(calls')
      BY <1>1, <3>1
    <3> QED
      BY <2>2, <3>1, <3>2 DEF Truthful
  <2> QED
    BY <2>1, <2>2
<1>6. /\ IsFiniteSet(Answered) /\ Answered \subseteq 1..n
      /\ Answered' \subseteq 1..n /\ IsFiniteSet(Answered')
  BY <1>1, AnsweredIsFinite, FS_Subset DEF Answered
<1>7. Answered \subseteq Answered'
  BY <1>1 DEF Answered
<1>8. /\ Cardinality(Answered) \in Nat /\ Cardinality(Answered') \in Nat
      /\ Cardinality(Answered) <= Cardinality(Answered')
  BY <1>6, <1>7, FS_Subset, FS_CardinalityType
<1>9. replies' \in Nat /\ replies' <= Cardinality(Answered')
  <2>1. replies \in Nat /\ replies <= Cardinality(Answered)
    BY DEF CoreInv
  <2>2. CASE replies' = replies
    BY <1>8, <2>1, <2>2
  <2>3. CASE /\ replies' = replies + 1 /\ d.template = "request-reply"
             /\ i \notin Answered /\ (Len(d.made) > 0 \/ d.end = "err")
    <3>1. i \in Answered'
      BY <1>1, <2>3 DEF Answered
    <3>2. Answered \cup {i} \subseteq Answered'
      BY <1>7, <3>1
    <3>3. Cardinality(Answered \cup {i}) = Cardinality(Answered) + 1 /\ IsFiniteSet(Answered \cup {i})
      BY <1>6, <2>3, FS_AddElement
    <3>4. Cardinality(Answered \cup {i}) <= Cardinality(Answered')
      BY <1>6, <3>2, FS_Subset
    <3> QED
      BY <1>8, <2>1, <2>3, <3>3, <3>4
  <2> QED
    BY <2>2, <2>3
<1>10. \A m \in bus' : m.reply = << >>
  BY DEF CoreInv
<1> QED
  BY <1>1, <1>3, <1>4, <1>5, <1>9, <1>10 DEF CoreInv, Grows

(* What the host does for a call.                                          *)
LEMMA Applied ==
  ASSUME CoreInv, NEW i \in 1..Len(calls), Shaped(calls[i]), calls[i].todo # << >>,
         Core!Apply(i, Head(calls[i].todo))
  PROVE  LET c == calls[i]
             h == Head(c.todo)
         IN /\ Grows
            /\ h.call = "put" => /\ Len(history') = Len(history) + 1
                                 /\ history'[Len(history) + 1].by = i
                                 /\ history'[Len(history) + 1].key = h.key
            /\ \A m \in bus' \ bus : m.reply = << >>
            /\ \A r \in receipts' \ receipts :
                 /\ r = [of |-> i, body |-> r.body, revision |-> c.revision]
                 /\ c.template = "kv-store" =>
                      Len(c.made) = 2 /\ r.body = <<c.message.subject[3], "revision">>
                 /\ c.template = "kv-watcher" => r.body = WatchedBody(c.message)
            /\ \/ replies' = replies
               \/ replies' = replies + 1 /\ c.template = "request-reply"
<1> DEFINE c == calls[i]
           h == Head(c.todo)
           e == [key |-> h.key, operation |-> "put", bytes |-> h.body.bytes, by |-> i]
<1>1. /\ h.call = "put" => h.key = c.message.subject[3]
      /\ h.call = "jetstream" /\ c.template = "kv-store" =>
           Len(c.made) = 2 /\ h.body = <<c.message.subject[3], "revision">>
      /\ h.call = "jetstream" /\ c.template = "kv-watcher" => h.body = WatchedBody(c.message)
      /\ h.call = "core" => h.reply = << >>
  BY NextCall
<1>2. /\ history' = IF h.call = "put" THEN Append(history, e) ELSE history
      /\ receipts' = IF h.call = "jetstream"
                     THEN receipts \cup {[of |-> i, body |-> h.body, revision |-> c.revision]}
                     ELSE receipts
      /\ replies' = IF h.call = "core" /\ c.template = "request-reply" THEN replies + 1 ELSE replies
      /\ bus' = IF h.call = "core" /\ h.subject = Core!REQUESTS
                THEN bus \cup {Core!Message(h.subject, [text |-> TRUE, chars |-> 0, bytes |-> 0], h.reply, 1)}
                ELSE bus
  BY DEF Core!Apply
<1>3. e.operation = "put" /\ e.by = i /\ e.key = h.key
  OBVIOUS
<1>4. \A x, y, z, n : Core!Message(x, y, z, n).reply = z
  BY DEF Core!Message
<1> HIDE DEF c, h, e
<1>5. Grows
  BY <1>2, <1>3, GrowsBy DEF Operations
<1>6. h.call = "put" => /\ Len(history') = Len(history) + 1
                        /\ history'[Len(history) + 1].by = i
                        /\ history'[Len(history) + 1].key = h.key
  <2>1. IsSeq(history)
    BY DEF CoreInv
  <2> QED
    BY <1>2, <1>3, <2>1, Appended
<1>7. \A m \in bus' \ bus : m.reply = << >>
  BY <1>1, <1>2, <1>4
<1>8. ASSUME NEW r \in receipts' \ receipts
      PROVE  /\ r = [of |-> i, body |-> r.body, revision |-> c.revision]
             /\ c.template = "kv-store" =>
                  Len(c.made) = 2 /\ r.body = <<c.message.subject[3], "revision">>
             /\ c.template = "kv-watcher" => r.body = WatchedBody(c.message)
  <2>1. h.call = "jetstream" /\ r = [of |-> i, body |-> h.body, revision |-> c.revision]
    BY <1>2
  <2>2. r.body = h.body
    BY <2>1
  <2> QED
    BY <1>1, <2>1, <2>2
<1>9. \/ replies' = replies
      \/ replies' = replies + 1 /\ c.template = "request-reply"
  BY <1>2
<1> QED
  BY <1>5, <1>6, <1>7, <1>8, <1>9 DEF c, h

LEMMA SucceedsKeeps ==
  ASSUME CoreInv, NEW i \in 1..Len(calls), Core!CallSucceeds(i)
  PROVE  CoreInv'
<1> DEFINE c == calls[i]
           h == Head(c.todo)
           k == Len(c.made)
           rev == IF h.call = "put" THEN Len(history) + 1 ELSE c.revision
           d == [c EXCEPT !.made = Append(c.made, h), !.todo = Tail(c.todo), !.revision = rev]
<1>1. Shaped(c) /\ Placed(i, c)
  BY DEF CoreInv
<1>2. c.end = "none" /\ c.todo # << >> /\ Core!Apply(i, h)
  BY DEF Core!CallSucceeds, Core!Running
<1>3. calls' = [calls EXCEPT ![i] = d]
  <2>1. PICK T : calls \in Seq(T)
    BY DEF CoreInv, IsSeq
  <2>2. i \in DOMAIN calls
    BY <2>1
  <2>3. calls' = [calls EXCEPT ![i].made = Append(@, h), ![i].todo = Tail(@),
                       ![i].revision = IF h.call = "put" THEN Len(history) + 1 ELSE @]
    BY DEF Core!CallSucceeds
  <2> QED
    BY <2>2, <2>3
<1>4. /\ k \in Nat /\ k < Len(H(c))
      /\ h.call = "put" => /\ c.template = "kv-store" /\ k = 1
                           /\ h.key = c.message.subject[3]
      /\ c.template = "kv-store" /\ k = 1 => h.call = "put"
      /\ c.template = "request-reply" => k = 0
  BY <1>1, <1>2, NextCall
<1>5. /\ d.template = c.template /\ d.go = c.go /\ d.message = c.message /\ d.end = c.end
      /\ d.made = Append(c.made, h) /\ d.todo = Tail(c.todo) /\ d.revision = rev
      /\ DOMAIN d = Fields
  <2>1. DOMAIN c = Fields
    BY <1>1 DEF Shaped
  <2> DEFINE a == Append(c.made, h)
             b == Tail(c.todo)
  <2>2. d = [c EXCEPT !.made = a, !.todo = b, !.revision = rev]
    OBVIOUS
  <2> HIDE DEF a, b, rev, d, c
  <2>3. /\ DOMAIN d = Fields
        /\ d.template = c.template /\ d.go = c.go /\ d.message = c.message /\ d.end = c.end
        /\ d.made = a /\ d.todo = b /\ d.revision = rev
    BY <2>1, <2>2 DEF Fields
  <2> QED
    BY <2>3 DEF a, b
<1> HIDE DEF d
<1>6. IsSeq(H(c)) /\ Len(H(c)) \in Nat
  <2>1. IsSeq(H(c))
    BY <1>1, HandlerIs DEF Shaped
  <2> QED
    BY <2>1, Appended
<1>7. /\ Len(d.made) = k + 1
      /\ d.made = SubSeq(H(c), 1, k + 1)
      /\ d.todo = SubSeq(H(c), k + 2, Len(H(c)))
  <2>1. k \in 0..Len(H(c)) /\ c.made = SubSeq(H(c), 1, k) /\ c.todo = SubSeq(H(c), k + 1, Len(H(c)))
    BY <1>1 DEF Shaped
  <2> HIDE DEF c, h, k
  <2>2. /\ Append(c.made, Head(c.todo)) = SubSeq(H(c), 1, k + 1)
        /\ Len(Append(c.made, Head(c.todo))) = k + 1
        /\ Tail(c.todo) = SubSeq(H(c), k + 2, Len(H(c)))
    <3> DEFINE s == H(c)
               u == c.made
               v == c.todo
    <3>1. /\ IsSeq(s) /\ k \in 0..Len(s) /\ v # << >>
          /\ u = SubSeq(s, 1, k) /\ v = SubSeq(s, k + 1, Len(s))
      BY <1>2, <1>6, <2>1
    <3> HIDE DEF s, u, v
    <3>2. /\ Append(u, Head(v)) = SubSeq(s, 1, k + 1)
          /\ Len(Append(u, Head(v))) = k + 1
          /\ Tail(v) = SubSeq(s, k + 2, Len(s))
      BY ONLY <3>1, SeqStep
    <3> QED
      BY <3>2 DEF s, u, v
  <2> QED
    BY <1>5, <2>2 DEF h
<1>8. H(d) = H(c)
  BY <1>5 DEF H
<1>9. Shaped(d)
  <2>1. /\ Len(d.made) \in 0..Len(H(d))
        /\ d.made = SubSeq(H(d), 1, Len(d.made))
        /\ d.todo = SubSeq(H(d), Len(d.made) + 1, Len(H(d)))
    <3>1. k + 1 \in 0..Len(H(c)) /\ (k + 1) + 1 = k + 2
      BY <1>4, <1>6
    <3> QED
      BY <1>7, <1>8, <3>1
  <2> HIDE DEF c
  <2> QED
    BY <1>1, <1>2, <1>5, <2>1 DEF Shaped
<1>10. /\ Grows
       /\ h.call = "put" => /\ Len(history') = Len(history) + 1
                            /\ history'[Len(history) + 1].by = i
                            /\ history'[Len(history) + 1].key = h.key
       /\ \A m \in bus' \ bus : m.reply = << >>
       /\ \A r \in receipts' \ receipts :
            /\ r = [of |-> i, body |-> r.body, revision |-> c.revision]
            /\ c.template = "kv-store" =>
                 Len(c.made) = 2 /\ r.body = <<c.message.subject[3], "revision">>
            /\ c.template = "kv-watcher" => r.body = WatchedBody(c.message)
       /\ \/ replies' = replies
          \/ replies' = replies + 1 /\ c.template = "request-reply"
  BY <1>1, <1>2, Applied
<1> HIDE DEF c, h, k
<1>11. IF d.template = "kv-store" /\ Len(d.made) >= 2
           THEN /\ d.revision \in 1..Len(history')
                /\ history'[d.revision].by = i
                /\ history'[d.revision].key = d.message.subject[3]
           ELSE d.revision = 0
  <2>1. IF c.template = "kv-store" /\ k >= 2
        THEN /\ c.revision \in 1..Len(history')
             /\ history'[c.revision].by = i
             /\ history'[c.revision].key = c.message.subject[3]
        ELSE c.revision = 0
    BY <1>1, <1>10, StaysPlaced DEF k
  <2>2. CASE h.call = "put"
    <3>1. d.revision = Len(history) + 1 /\ Len(d.made) = 2
      BY <1>4, <1>5, <1>7, <2>2
    <3>2. Len(history) \in Nat /\ Len(history) + 1 \in 1..Len(history')
      BY <1>10, <2>2 DEF Grows
    <3> QED
      BY <1>4, <1>5, <1>10, <2>2, <3>1, <3>2
  <2>3. CASE h.call # "put"
    <3>1. d.revision = c.revision
      BY <1>5, <2>3
    <3>2. c.template = "kv-store" => (Len(d.made) >= 2 <=> k >= 2)
      BY <1>4, <1>7, <2>3
    <3> QED
      BY <1>5, <2>1, <3>1, <3>2
  <2> QED
    BY <2>2, <2>3
<1>12. \/ d.revision = c.revision
       \/ d.template = "kv-store" /\ ~(k >= 2)
  BY <1>4, <1>5
<1>13. \A r \in receipts' \ receipts :
           /\ r = [of |-> i, body |-> r.body, revision |-> d.revision]
           /\ d.template = "kv-store" =>
                Len(d.made) >= 2 /\ r.body = <<d.message.subject[3], "revision">>
           /\ d.template = "kv-watcher" => r.body = WatchedBody(d.message)
  <2> SUFFICES ASSUME NEW r \in receipts' \ receipts
               PROVE  /\ r = [of |-> i, body |-> r.body, revision |-> d.revision]
                      /\ d.template = "kv-store" =>
                           Len(d.made) >= 2 /\ r.body = <<d.message.subject[3], "revision">>
                      /\ d.template = "kv-watcher" => r.body = WatchedBody(d.message)
    OBVIOUS
  <2>1. c.template = "kv-store" => k = 2
    BY <1>10 DEF k
  <2>2. h.call # "put"
    BY <1>4, <2>1
  <2>3. d.revision = c.revision
    BY <1>5, <2>2
  <2>4. c.template = "kv-store" => Len(d.made) >= 2
    BY <1>7, <2>1
  <2> QED
    BY <1>5, <1>10, <2>3, <2>4
<1>14. i \notin Answered \/ c.template # "request-reply"
  BY <1>2, <1>4 DEF Answered, c, k
<1>15. Len(d.made) > 0 /\ Len(d.made) \in Nat /\ k <= Len(d.made)
  BY <1>4, <1>7
<1>16. \/ replies' = replies
       \/ /\ replies' = replies + 1 /\ d.template = "request-reply"
          /\ i \notin Answered /\ (Len(d.made) > 0 \/ d.end = "err")
  BY <1>5, <1>10, <1>14, <1>15
<1> QED
  BY <1>3, <1>4, <1>5, <1>9, <1>10, <1>11, <1>12, <1>13, <1>15, <1>16, MovedKeeps DEF c, k

LEMMA EndsKeeps ==
  ASSUME CoreInv, NEW i \in 1..Len(calls), Core!CallFails(i) \/ Core!Return(i)
  PROVE  CoreInv'
<1> DEFINE c == calls[i]
           k == Len(c.made)
           how == IF c.todo = << >> THEN "ok" ELSE "err"
           d == [c EXCEPT !.end = how]
<1>1. Shaped(c) /\ Placed(i, c)
  BY DEF CoreInv
<1>2. /\ c.end = "none"
      /\ calls' = [calls EXCEPT ![i].end = how]
      /\ \/ c.todo # << >> /\ Core!Apply(i, Head(c.todo))
         \/ UNCHANGED <<bus, replies, history, receipts>>
  BY DEF Core!CallFails, Core!Return, Core!Running
<1>3. calls' = [calls EXCEPT ![i] = d]
  <2>1. PICK T : calls \in Seq(T)
    BY DEF CoreInv, IsSeq
  <2>2. i \in DOMAIN calls
    BY <2>1
  <2> QED
    BY <1>2, <2>2
<1>4. /\ d.template = c.template /\ d.go = c.go /\ d.message = c.message /\ d.end = how
      /\ d.made = c.made /\ d.todo = c.todo /\ d.revision = c.revision
      /\ DOMAIN d = Fields
  <2>1. DOMAIN c = Fields
    BY <1>1 DEF Shaped
  <2>2. d = [c EXCEPT !.end = how]
    OBVIOUS
  <2> HIDE DEF how, d, c
  <2> QED
    BY <2>1, <2>2 DEF Fields
<1>5. /\ how \in {"ok", "err"} /\ (how = "ok" => c.todo = << >>) /\ (how = "err" => c.todo # << >>)
  OBVIOUS
<1>6. c.todo # << >> /\ c.template = "request-reply" => k = 0
  BY <1>1, NextCall
<1>7. /\ Grows
      /\ \A m \in bus' \ bus : m.reply = << >>
      /\ \A r \in receipts' \ receipts :
           /\ r = [of |-> i, body |-> r.body, revision |-> c.revision]
           /\ c.template = "kv-store" =>
                Len(c.made) = 2 /\ r.body = <<c.message.subject[3], "revision">>
           /\ c.template = "kv-watcher" => r.body = WatchedBody(c.message)
      /\ \/ replies' = replies
         \/ replies' = replies + 1 /\ c.template = "request-reply" /\ c.todo # << >>
  <2>1. CASE c.todo # << >> /\ Core!Apply(i, Head(c.todo))
    BY <1>1, <2>1, Applied
  <2>2. CASE UNCHANGED <<bus, replies, history, receipts>>
    BY <2>2, GrowsBy
  <2> QED
    BY <1>2, <2>1, <2>2
<1> HIDE DEF d, how
<1>8. H(d) = H(c)
  BY <1>4 DEF H
<1>9. Shaped(d)
  <2> HIDE DEF c
  <2> QED
    BY <1>1, <1>4, <1>5, <1>8 DEF Shaped
<1>10. k \in Nat
  <2>1. k \in 0..Len(H(c))
    BY <1>1 DEF Shaped
  <2> QED
    BY <2>1
<1>11. IF c.template = "kv-store" /\ k >= 2
       THEN /\ c.revision \in 1..Len(history')
            /\ history'[c.revision].by = i
            /\ history'[c.revision].key = c.message.subject[3]
       ELSE c.revision = 0
  <2> HIDE DEF c
  <2> QED
    BY <1>1, <1>7, StaysPlaced
<1> HIDE DEF c, k
<1>12. IF d.template = "kv-store" /\ Len(d.made) >= 2
       THEN /\ d.revision \in 1..Len(history')
            /\ history'[d.revision].by = i
            /\ history'[d.revision].key = d.message.subject[3]
       ELSE d.revision = 0
  BY <1>4, <1>11 DEF k
<1>13. Len(d.made) = k
  BY <1>4 DEF k
<1>14. \A r \in receipts' \ receipts :
           /\ r = [of |-> i, body |-> r.body, revision |-> d.revision]
           /\ d.template = "kv-store" =>
                Len(d.made) >= 2 /\ r.body = <<d.message.subject[3], "revision">>
           /\ d.template = "kv-watcher" => r.body = WatchedBody(d.message)
  <2> SUFFICES ASSUME NEW r \in receipts' \ receipts
               PROVE  /\ r = [of |-> i, body |-> r.body, revision |-> d.revision]
                      /\ d.template = "kv-store" =>
                           Len(d.made) >= 2 /\ r.body = <<d.message.subject[3], "revision">>
                      /\ d.template = "kv-watcher" => r.body = WatchedBody(d.message)
    OBVIOUS
  <2>1. c.template = "kv-store" => Len(d.made) >= 2
    BY <1>7, <1>13 DEF k
  <2> QED
    BY <1>4, <1>7, <2>1
<1>15. i \in Answered => Len(d.made) > 0 \/ d.end = "err"
  BY <1>2, <1>13 DEF Answered, c, k
<1>16. \/ replies' = replies
       \/ /\ replies' = replies + 1 /\ d.template = "request-reply"
          /\ i \notin Answered /\ (Len(d.made) > 0 \/ d.end = "err")
  <2> SUFFICES ASSUME c.template = "request-reply", c.todo # << >>
               PROVE  i \notin Answered /\ d.end = "err"
    BY <1>4, <1>7
  <2>1. d.end = "err"
    BY <1>4 DEF how
  <2>2. ~(k > 0)
    BY <1>6
  <2> QED
    BY <1>2, <2>1, <2>2 DEF Answered, c, k
<1>17. /\ d.template = calls[i].template /\ d.message = calls[i].message
       /\ Len(calls[i].made) \in Nat /\ Len(d.made) \in Nat /\ Len(calls[i].made) <= Len(d.made)
       /\ d.revision = calls[i].revision
  BY <1>4, <1>10, <1>13 DEF c, k
<1>18. /\ Grows /\ \A m \in bus' \ bus : m.reply = << >>
  BY <1>7
<1> QED
  BY <1>3, <1>9, <1>12, <1>14, <1>15, <1>16, <1>17, <1>18, MovedKeeps

(* A change by another writer, and a stutter.                              *)
LEMMA BucketKeeps ==
  ASSUME CoreInv, UNCHANGED <<calls, bus, replies, receipts>>, Grows
  PROVE  CoreInv'
<1>1. (\A i \in 1..Len(calls) : Shaped(calls[i]))'
  BY DEF CoreInv, Shaped, H
<1>2. (\A i \in 1..Len(calls) : Placed(i, calls[i]))'
  <2> SUFFICES ASSUME NEW i \in 1..Len(calls) PROVE Placed(i, calls[i])'
    OBVIOUS
  <2> DEFINE c == calls[i]
  <2>1. Placed(i, c)
    BY DEF CoreInv
  <2>2. c' = c
    OBVIOUS
  <2> HIDE DEF c
  <2>3. /\ c.template = "kv-watcher" =>
             /\ c.message.revision \in 1..Len(history')
             /\ LET change == history'[c.message.revision]
                IN /\ c.message.key = change.key /\ c.message.operation = change.operation
                   /\ c.message.bytes = change.bytes
        /\ IF c.template = "kv-store" /\ Len(c.made) >= 2
           THEN /\ c.revision \in 1..Len(history')
                /\ history'[c.revision].by = i
                /\ history'[c.revision].key = c.message.subject[3]
           ELSE c.revision = 0
    BY <2>1, StaysPlaced
  <2>4. Placed(i, c)'
    BY <2>2, <2>3 DEF Placed
  <2> QED
    BY <2>4 DEF c
<1>3. (\A r \in receipts : Truthful(r))'
  BY DEF CoreInv, Truthful
<1>4. Answered' = Answered
  BY DEF Answered
<1> QED
  BY <1>1, <1>2, <1>3, <1>4 DEF CoreInv, Grows

LEMMA CoreKeeps ==
  ASSUME CoreInv, [Core!Next]_Core!vars
  PROVE  CoreInv'
<1>0. \A i : i \in DOMAIN calls => i \in 1..Len(calls)
  BY Appended DEF CoreInv
<1>1. CASE Core!Arrive
  <2>1. PICK t \in {"core-subscriber", "fan-out", "request-reply", "kv-store"}, g \in BOOLEAN :
          \E m \in Core!Sent(t) : Core!Called(t, g, m)
    BY <1>1 DEF Core!Arrive
  <2>2. PICK m \in Core!Sent(t) : Core!Called(t, g, m)
    BY <2>1
  <2>3. UNCHANGED <<bus, replies, history, receipts>>
    BY <1>1 DEF Core!Arrive
  <2>4. t = "request-reply" => m.hops = 0
    <3>1. SUFFICES ASSUME t = "request-reply" PROVE m.hops = 0
      OBVIOUS
    <3>2. PICK b \in Bodies, r \in {Core!None, Core!INBOX, Core!REQUESTS} :
                 m = Core!Message(Core!REQUESTS, b, r, 0)
      BY <3>1 DEF Core!Sent
    <3> QED
      BY <3>2 DEF Core!Message
  <2>5. t = "kv-store" => IsSeq(m.subject)
    <3>1. SUFFICES ASSUME t = "kv-store" PROVE IsSeq(m.subject)
      OBVIOUS
    <3>2. PICK s \in Core!RecordSubjects, b \in Bodies : m = Core!Message(s, b, Core!None, 0)
      BY <3>1 DEF Core!Sent
    <3>3. m.subject = s
      BY <3>2 DEF Core!Message
    <3>4. IsSeq(s)
      <4> DEFINE T == {"demo", "records", "records2", "", "k"} \cup Keys
      <4>1. <<"demo", "records">> \in Seq(T) /\ <<"", "k">> \in Seq(T)
            /\ <<"demo", "records2", "k">> \in Seq(T)
        OBVIOUS
      <4>2. \/ s = <<"demo", "records">> \/ \E x \in Keys : s = Append(<<"demo", "records">>, x)
            \/ s = <<"demo", "records">> \o <<"", "k">> \/ s = <<"demo", "records2", "k">>
        BY <3>2 DEF Core!RecordSubjects, Core!SUBJECT_PREFIX
      <4>3. Keys \subseteq T
        OBVIOUS
      <4> HIDE DEF T
      <4>4. ASSUME NEW x \in Keys PROVE Append(<<"demo", "records">>, x) \in Seq(T)
        <5>1. x \in T
          BY <4>3
        <5>2. \A f \in Seq(T) : Append(f, x) \in Seq(T)
          BY <5>1
        <5> QED
          BY <4>1, <5>2
      <4>5. <<"demo", "records">> \o <<"", "k">> \in Seq(T)
        <5>1. \A f, h \in Seq(T) : f \o h \in Seq(T)
          OBVIOUS
        <5> QED
          BY <4>1, <5>1, Zenon
      <4>6. s \in Seq(T)
        BY <4>1, <4>2, <4>4, <4>5
      <4> QED
        BY <4>6 DEF IsSeq
    <3> QED
      BY <3>3, <3>4
  <2>6. t \in Templates /\ t # "kv-watcher"
    BY DEF Templates
  <2> QED
    BY <2>2, <2>3, <2>4, <2>5, <2>6, CalledKeeps
<1>2. CASE Core!Bounce
  <2>1. PICK m \in bus, g \in BOOLEAN : Core!Called("request-reply", g, m) /\ bus' = bus \ {m}
    BY <1>2 DEF Core!Bounce
  <2>2. UNCHANGED <<replies, history, receipts>>
    BY <1>2 DEF Core!Bounce
  <2>3. m.reply = << >>
    BY DEF CoreInv
  <2>4. "request-reply" \in Templates
    BY DEF Templates
  <2> QED
    BY <2>1, <2>2, <2>3, <2>4, CalledKeeps
<1>3. CASE Core!Change
  <2>1. PICK o \in {"delete", "purge"}, x \in Keys :
          history' = Append(history, [key |-> x, operation |-> o, bytes |-> 0, by |-> 0])
    BY <1>3 DEF Core!Change
  <2> DEFINE e == [key |-> x, operation |-> o, bytes |-> 0, by |-> 0]
  <2>2. e.operation \in Operations /\ e.bytes = 0
    BY DEF Operations
  <2> HIDE DEF e
  <2>3. Grows
    BY <2>1, <2>2, GrowsBy DEF e
  <2>4. UNCHANGED <<calls, bus, replies, receipts>>
    BY <1>3 DEF Core!Change
  <2> QED
    BY <2>3, <2>4, BucketKeeps
<1>4. CASE Core!Watch
  <2>1. PICK x \in DOMAIN history, g \in BOOLEAN :
          Core!Called("kv-watcher", g, [key |-> history[x].key, operation |-> history[x].operation,
                                        bytes |-> history[x].bytes, revision |-> x])
    BY <1>4 DEF Core!Watch
  <2> DEFINE m == [key |-> history[x].key, operation |-> history[x].operation,
                   bytes |-> history[x].bytes, revision |-> x]
  <2>2. /\ m.revision = x /\ m.key = history[x].key /\ m.operation = history[x].operation
        /\ m.bytes = history[x].bytes
    OBVIOUS
  <2>3. x \in 1..Len(history)
    BY Appended DEF CoreInv
  <2>4. UNCHANGED <<bus, replies, history, receipts>> /\ Core!Called("kv-watcher", g, m)
    BY <1>4, <2>1 DEF Core!Watch
  <2>5. "kv-watcher" \in Templates
    BY DEF Templates
  <2> HIDE DEF m
  <2> QED
    BY <2>2, <2>3, <2>4, <2>5, CalledKeeps
<1>5. ASSUME NEW i \in DOMAIN calls, Core!CallSucceeds(i)
      PROVE  CoreInv'
  BY <1>0, <1>5, SucceedsKeeps
<1>6. ASSUME NEW i \in DOMAIN calls, Core!CallFails(i) \/ Core!Return(i)
      PROVE  CoreInv'
  BY <1>0, <1>6, EndsKeeps
<1>7. CASE UNCHANGED Core!vars
  <2>1. UNCHANGED <<calls, bus, replies, receipts, history>>
    BY <1>7 DEF Core!vars
  <2> QED
    BY <2>1, GrowsBy, BucketKeeps
<1> QED
  BY <1>1, <1>2, <1>3, <1>4, <1>5, <1>6, <1>7 DEF Core!Next

LEMMA CoreInit == Core!Init => CoreInv
<1> SUFFICES ASSUME Core!Init PROVE CoreInv
  OBVIOUS
<1>1. calls = << >> /\ bus = {} /\ replies = 0 /\ history = << >> /\ receipts = {}
  BY DEF Core!Init
<1>2. IsSeq(calls) /\ Len(calls) = 0 /\ IsSeq(history) /\ Len(history) = 0
  BY <1>1, ShortSeqs
<1>3. 1..Len(calls) = {} /\ 1..Len(history) = {}
  BY <1>2
<1>4. Answered = {}
  BY <1>3 DEF Answered
<1>5. Cardinality(Answered) = 0
  BY <1>4, FS_EmptySet
<1> QED
  BY <1>1, <1>2, <1>3, <1>5 DEF CoreInv

(* No reply is to a reply, receipts are of what the bucket holds, and what  *)
(* a handler did is what its template does in the other language.          *)
LEMMA CoreHolds == CoreInv => Core!TemplatesKeepTheirWord
<1> SUFFICES ASSUME CoreInv PROVE Core!TemplatesKeepTheirWord
  OBVIOUS
<1>0. IsSeq(calls) /\ Len(calls) \in Nat /\ DOMAIN calls = 1..Len(calls)
  BY Appended DEF CoreInv
<1>1. Core!RepliesEnd
  <2> DEFINE S == {i \in DOMAIN calls :
               calls[i].template = "request-reply" /\ calls[i].message.reply # Core!None
                 /\ calls[i].message.hops = 0}
  <2>1. ASSUME NEW i \in Answered PROVE i \in S
    <3>1. i \in 1..Len(calls) /\ calls[i].template = "request-reply" /\ Shaped(calls[i])
          /\ (Len(calls[i].made) > 0 \/ calls[i].end = "err")
      BY DEF Answered, CoreInv
    <3> DEFINE c == calls[i]
    <3>2. H(c) = IF c.message.reply = << >> THEN << >>
                 ELSE <<Core!Publish(c.message.reply, Core!Counted(c.message.body))>>
      BY <3>1, CallsOf DEF H, Shaped
    <3> HIDE DEF c
    <3>3. c.message.reply # << >>
      <4> SUFFICES ASSUME c.message.reply = << >> PROVE FALSE
        OBVIOUS
      <4>1. H(c) = << >>
        BY <3>2
      <4>2. Len(H(c)) = 0 /\ \A a : SubSeq(H(c), a + 1, Len(H(c))) = SubSeq(<< >>, a + 1, 0)
        BY <4>1
      <4>3. Len(c.made) \in 0..0
        BY <3>1, <4>2 DEF c, Shaped
      <4>4. Len(c.made) = 0
        BY <4>3
      <4>5. c.todo = SubSeq(<< >>, 1, 0)
        BY <3>1, <4>1, <4>2, <4>4 DEF c, Shaped
      <4>6. SubSeq(<< >>, 1, 0) = << >>
        OBVIOUS
      <4> QED
        BY <3>1, <4>4, <4>5, <4>6 DEF c, Shaped
    <3> QED
      BY <1>0, <3>1, <3>3 DEF Shaped, Core!None, c
  <2>2. S \subseteq 1..Len(calls) /\ Answered \subseteq S
    BY <1>0, <2>1
  <2> HIDE DEF S
  <2>3. IsFiniteSet(S)
    BY <2>2, AnsweredIsFinite, FS_Subset
  <2>4. /\ Cardinality(Answered) <= Cardinality(S)
        /\ Cardinality(Answered) \in Nat /\ Cardinality(S) \in Nat
    BY <2>2, <2>3, FS_Subset, FS_CardinalityType
  <2>5. replies \in Nat /\ replies <= Cardinality(Answered)
    BY DEF CoreInv
  <2>6. replies <= Core!Cardinality(S)
    BY <2>4, <2>5, CoreCardinality
  <2> QED
    BY <2>6 DEF Core!RepliesEnd, S
<1>2. Core!ReceiptsAreTrue
  <2> SUFFICES ASSUME NEW r \in receipts
               PROVE  /\ calls[r.of].template = "kv-store" =>
                           /\ history[r.revision].by = r.of
                           /\ history[r.revision].key = r.body[1]
                           /\ \A s \in receipts : s.revision = r.revision => s = r
                      /\ calls[r.of].template = "kv-watcher" =>
                           LET change == history[r.body[2]]
                           IN r.body = <<change.key, r.body[2], <<change.operation, change.bytes>> >>
    BY DEF Core!ReceiptsAreTrue
  <2>1. Truthful(r) /\ r.of \in 1..Len(calls) /\ Placed(r.of, calls[r.of])
    BY DEF CoreInv, Truthful
  <2> DEFINE c == calls[r.of]
             m == c.message
  <2>2. ASSUME c.template = "kv-store"
        PROVE  /\ history[r.revision].by = r.of
               /\ history[r.revision].key = r.body[1]
               /\ \A s \in receipts : s.revision = r.revision => s = r
    <3>1. /\ r.revision = c.revision /\ r.body = <<m.subject[3], "revision">>
          /\ r.revision \in 1..Len(history) /\ history[r.revision].by = r.of
          /\ history[r.revision].key = m.subject[3]
          /\ r = [of |-> r.of, body |-> r.body, revision |-> r.revision]
      BY <2>1, <2>2 DEF Truthful, Placed
    <3>2. r.body[1] = m.subject[3]
      BY <3>1
    <3>3. ASSUME NEW s \in receipts, s.revision = r.revision PROVE s = r
      <4>1. Truthful(s) /\ Placed(s.of, calls[s.of])
        BY DEF CoreInv, Truthful
      <4>2. r.revision # 0
        BY <3>1
      <4>3. calls[s.of].template = "kv-store" /\ history[s.revision].by = s.of
        BY <3>3, <4>1, <4>2 DEF Truthful, Placed
      <4>4. s.of = r.of
        BY <3>1, <3>3, <4>3
      <4>5. s.body = <<m.subject[3], "revision">> /\ s = [of |-> s.of, body |-> s.body, revision |-> s.revision]
        BY <4>1, <4>3, <4>4 DEF Truthful
      <4>6. s.body = r.body
        BY <3>1, <4>5
      <4> QED
        BY <3>1, <3>3, <4>4, <4>5, <4>6
    <3> QED
      BY <3>1, <3>2, <3>3
  <2>3. ASSUME c.template = "kv-watcher"
        PROVE  LET change == history[r.body[2]]
               IN r.body = <<change.key, r.body[2], <<change.operation, change.bytes>> >>
    <3>1. r.body = WatchedBody(m)
      BY <2>1, <2>3 DEF Truthful
    <3>2. r.body[2] = m.revision
      BY <3>1 DEF WatchedBody
    <3> DEFINE change == history[m.revision]
    <3>3. /\ m.revision \in 1..Len(history) /\ m.key = change.key
          /\ m.operation = change.operation /\ m.bytes = change.bytes
      BY <2>1, <2>3 DEF Placed
    <3>4. change.operation # "put" => change.bytes = 0
      BY <3>3 DEF CoreInv
    <3>5. (IF m.operation = "put" THEN m.bytes ELSE 0) = change.bytes
      BY <3>3, <3>4
    <3> HIDE DEF change
    <3>6. WatchedBody(m) = <<change.key, m.revision, <<change.operation, change.bytes>> >>
      BY <3>3, <3>5 DEF WatchedBody
    <3> QED
      BY <3>1, <3>2, <3>6 DEF change
  <2> QED
    BY <2>2, <2>3
<1>3. Core!LanguagesAgree
  <2> SUFFICES ASSUME NEW i \in 1..Len(calls)
               PROVE  LET c == calls[i]
                          other == Core!Handler(c.template, ~c.go, c.message)
                      IN /\ Core!IsPrefix(c.made, other)
                         /\ c.end = "ok" => c.made = other
    BY <1>0 DEF Core!LanguagesAgree
  <2> DEFINE c == calls[i]
             h == H(c)
             n == Len(c.made)
  <2>1. Shaped(c)
    BY DEF CoreInv
  <2>2. IsSeq(h) /\ Core!Handler(c.template, ~c.go, c.message) = h
    BY <2>1, HandlerIs DEF Shaped
  <2>3. /\ n \in 0..Len(h) /\ c.made = SubSeq(h, 1, n) /\ c.todo = SubSeq(h, n + 1, Len(h))
        /\ c.end = "ok" => c.todo = << >>
    BY <2>1 DEF Shaped
  <2> HIDE DEF c, h, n
  <2>4. PICK T : h \in Seq(T)
    BY <2>2 DEF IsSeq
  <2>5. Len(h) \in Nat /\ n \in Nat /\ n <= Len(h)
    BY <2>3, <2>4
  <2>6. c.made \in Seq(T) /\ Len(c.made) = n
    BY <2>3, <2>4, <2>5
  <2>7. SubSeq(c.made, 1, n) = c.made
    BY <2>6
  <2>8. Core!IsPrefix(c.made, h)
    BY <2>3, <2>5, <2>6, <2>7 DEF Core!IsPrefix
  <2>9. c.end = "ok" => c.made = h
    <3> SUFFICES ASSUME c.todo = << >> PROVE c.made = h
      BY <2>3
    <3>1. n = Len(h)
      <4> SUFFICES ASSUME n < Len(h) PROVE FALSE
        BY <2>5
      <4>1. Len(SubSeq(h, n + 1, Len(h))) = Len(h) - n
        BY <2>4, <2>5
      <4>2. Len(<< >>) = 0
        OBVIOUS
      <4> QED
        BY <2>3, <2>5, <4>1, <4>2
    <3>2. SubSeq(h, 1, Len(h)) = h
      BY <2>4
    <3> QED
      BY <2>3, <3>1, <3>2
  <2> QED
    BY <2>2, <2>8, <2>9 DEF c
<1> QED
  BY <1>1, <1>2, <1>3, ErrorsTold DEF Core!TemplatesKeepTheirWord

-----------------------------------------------------------------------------
(***************************************************************************)
(* The task manager.                                                       *)
(***************************************************************************)
Task == [id : Nat, title : Requests, done : BOOLEAN]
Adding == {r \in Requests : op[r].route = Tasks!Titled}
(* Who has an id of its own and no task yet, and who has a task in the list; one *)
(* that failed is neither, unless the store took its list.                       *)
OnTheWay == {r \in Adding : pc[r] \in {"load", "save"}}
HasTask(r) == \E i \in DOMAIN wanted : wanted[i].title = r
Taken == OnTheWay \cup {r \in Requests : HasTask(r)}
Once(list) == \A i, j \in DOMAIN list : list[i].title = list[j].title => i = j

StoreType ==
  /\ raced \in BOOLEAN /\ tasks.list \in Seq(Task) /\ wanted \in Seq(Task) /\ lastId \in Nat
  /\ id \in [Requests -> Nat] /\ read \in [Requests -> Seq(Task)]
  /\ DOMAIN pc = Requests /\ DOMAIN op = Requests /\ status \in [Requests -> Nat]

(* A request to add one has its id before it loads; nobody is told 200 before *)
(* it is done, and who is told of a new task has it in the list it wrote.     *)
Stage(r) ==
  /\ status[r] = 200 => pc[r] = "done"
  /\ pc[r] \in {"read id", "write id"} => r \in Adding
  /\ status[r] = 200 /\ r \in Adding => \E i \in DOMAIN read[r] : read[r][i].title = r
StagesInv == \A r \in Requests : Stage(r)

(* As long as nothing was written over what was not read, the ids taken are  *)
(* apart, and a list has a task of each title once, under its request's id. *)
IdsApart ==
  /\ \A r \in Taken : id[r] <= lastId
  /\ \A r, s \in Taken : id[r] = id[s] => r = s

TasksOwned ==
  \A i \in DOMAIN wanted :
    /\ wanted[i].title \in Adding
    /\ pc[wanted[i].title] = "done" /\ id[wanted[i].title] = wanted[i].id

HistoryInv == ~raced => tasks.list = wanted /\ IdsApart /\ TasksOwned /\ Once(wanted)

TasksInv == StoreType /\ StagesInv /\ HistoryInv

LEMMA WithoutExists ==
  ASSUME NEW list \in Seq(Task), NEW x
  PROVE  \E f : /\ Tasks!Without(list, x) = f[Len(list)] /\ f[0] = << >>
                /\ \A k \in 1..Len(list) :
                     f[k] = IF list[k].id = x THEN f[k - 1] ELSE Append(f[k - 1], list[k])
<1> DEFINE D(g, k) == IF k = 0 THEN << >>
                      ELSE IF list[k].id = x THEN g[k - 1] ELSE Append(g[k - 1], list[k])
           IsF(g, m) == g = [k \in 0..m |-> D(g, k)]
           E == {m \in Nat : \E g : IsF(g, m)}
           n == Len(list)
           f == CHOOSE g : IsF(g, n)
<1>1. 0 \in E
  <2> DEFINE h == [k \in 0..0 |-> << >>]
  <2>1. \A k \in 0..0 : D(h, k) = << >>
    OBVIOUS
  <2> HIDE DEF D
  <2>2. h = [k \in 0..0 |-> D(h, k)]
    BY <2>1
  <2> QED
    BY <2>2
<1>2. ASSUME NEW m \in Nat, NEW g, IsF(g, m) PROVE \E h : IsF(h, m + 1)
  <2> DEFINE h == [k \in 0..m + 1 |-> IF k \in 0..m THEN g[k] ELSE D(g, m + 1)]
  <2>1. \A k \in 0..m : h[k] = g[k]
    OBVIOUS
  <2>2. \A k \in 0..m + 1 : D(g, k) = D(h, k)
    <3>1. \A k \in 0..m + 1 : k = 0 \/ h[k - 1] = g[k - 1]
      BY <2>1
    <3> HIDE DEF h
    <3> QED
      BY <3>1
  <2>3. \A k \in 0..m : g[k] = D(g, k)
    BY <1>2
  <2>4. h[m + 1] = D(g, m + 1)
    OBVIOUS
  <2>5. h = [k \in 0..m + 1 |-> h[k]]
    OBVIOUS
  <2> HIDE DEF h, D
  <2>6. \A k \in 0..m + 1 : h[k] = D(h, k)
    <3>1. \A k \in 0..m + 1 : k \in 0..m \/ k = m + 1
      OBVIOUS
    <3> QED
      BY <2>1, <2>2, <2>3, <2>4, <3>1
  <2>7. h = [k \in 0..m + 1 |-> D(h, k)]
    BY <2>5, <2>6
  <2> QED
    BY <2>7
<1>3. E = Nat
  <2>1. \A m \in E : m + 1 \in E
    <3> HIDE DEF IsF
    <3> QED
      BY <1>2
  <2>2. E \in SUBSET Nat
    OBVIOUS
  <2> HIDE DEF E
  <2> QED
    BY <1>1, <2>1, <2>2, Inductive
<1>4. IsF(f, n)
  <2> HIDE DEF IsF
  <2>1. \A m \in Nat : \E g : IsF(g, m)
    BY <1>3
  <2>2. n \in Nat
    OBVIOUS
  <2> QED
    BY <2>1, <2>2
<1>5. Tasks!Without(list, x) = f[n]
  BY DEF Tasks!Without
<1> HIDE DEF f
<1>6. \A k \in 0..n : f[k] = D(f, k)
  BY <1>4
<1>7. f[0] = << >> /\ \A k \in 1..n : k \in 0..n /\ k # 0
  <2>1. n \in Nat
    OBVIOUS
  <2> QED
    BY <1>6, <2>1
<1> QED
  BY <1>5, <1>6, <1>7

(* What is left of a list has tasks of that list, each title once if the     *)
(* list had.                                                               *)
LEMMA WithoutKeeps ==
  ASSUME NEW list \in Seq(Task), NEW x
  PROVE  LET w == Tasks!Without(list, x)
         IN  /\ w \in Seq(Task) /\ (Once(list) => Once(w))
             /\ \A i \in DOMAIN w : \E k \in DOMAIN list : w[i] = list[k]
<1> DEFINE n == Len(list)
<1>1. PICK f : /\ Tasks!Without(list, x) = f[n] /\ f[0] = << >>
               /\ \A k \in 1..n :
                    f[k] = IF list[k].id = x THEN f[k - 1] ELSE Append(f[k - 1], list[k])
  BY WithoutExists
<1> DEFINE Q(k) == /\ f[k] \in Seq(Task) /\ (Once(list) => Once(f[k]))
                   /\ \A i \in DOMAIN f[k] : \E l \in 1..k : f[k][i] = list[l]
           P == {k \in Nat : k <= n => Q(k)}
<1>2. n \in Nat /\ DOMAIN list = 1..n
  OBVIOUS
<1>3. 0 \in P
  <2>1. << >> \in Seq(Task) /\ DOMAIN << >> = {}
    OBVIOUS
  <2>2. Q(0)
    BY <1>1, <2>1 DEF Once
  <2> HIDE DEF Q
  <2> QED
    BY <2>2
<1>4. ASSUME NEW k \in P, k + 1 <= n PROVE Q(k + 1)
  <2>1. k \in Nat /\ k + 1 \in 1..n /\ (k + 1) - 1 = k /\ Q(k) /\ 1..k \subseteq 1..(k + 1)
    BY <1>2, <1>4
  <2>2. list[k + 1] \in Task
    BY <1>2, <2>1
  <2>3. CASE list[k + 1].id = x
    <3>1. f[k + 1] = f[k]
      BY <1>1, <2>1, <2>3
    <3> QED
      BY <2>1, <3>1
  <2>4. CASE list[k + 1].id # x
    <3> DEFINE g == f[k]
               e == list[k + 1]
               h == Append(g, e)
    <3>1. f[k + 1] = h
      BY <1>1, <2>1, <2>4
    <3>2. g \in Seq(Task) /\ (Once(list) => Once(g)) /\ \A i \in DOMAIN g : \E l \in 1..k : g[i] = list[l]
      BY <2>1
    <3>3. Once(list) => \A i \in DOMAIN g : g[i].title # e.title
      <4> SUFFICES ASSUME Once(list), NEW i \in DOMAIN g, g[i].title = e.title PROVE FALSE
        OBVIOUS
      <4>1. PICK l \in 1..k : g[i] = list[l]
        BY <3>2
      <4>2. l \in DOMAIN list /\ k + 1 \in DOMAIN list /\ l # k + 1
        BY <1>2, <2>1
      <4> QED
        BY <4>1, <4>2 DEF Once
    <3>4. e = list[k + 1] /\ e \in Task
      BY <2>2
    <3> HIDE DEF g, e
    <3>5. h \in Seq(Task) /\ DOMAIN h = 1..Len(g) + 1 /\ DOMAIN g = 1..Len(g) /\ Len(g) \in Nat
      BY <3>2, <3>4
    <3>6. \A i \in DOMAIN h : (i \in DOMAIN g /\ h[i] = g[i]) \/ (i = Len(g) + 1 /\ h[i] = e)
      BY <3>2, <3>4, <3>5
    <3>7. \A i \in DOMAIN h : \E l \in 1..(k + 1) : h[i] = list[l]
      <4>1. k + 1 \in 1..(k + 1)
        BY <2>1
      <4> HIDE DEF h
      <4> QED
        BY <2>1, <3>2, <3>4, <3>6, <4>1
    <3>8. Once(list) => Once(h)
      <4> HIDE DEF h
      <4> QED
        BY <3>2, <3>3, <3>6 DEF Once
    <3> QED
      BY <3>1, <3>5, <3>7, <3>8
  <2> QED
    BY <2>3, <2>4
<1>5. P = Nat
  <2>1. \A k \in P : k + 1 \in P
    <3> HIDE DEF Q
    <3> QED
      BY <1>4
  <2>2. P \in SUBSET Nat
    OBVIOUS
  <2> HIDE DEF P
  <2> QED
    BY <1>3, <2>1, <2>2, Inductive
<1>6. Q(n)
  <2>1. n \in P /\ n <= n
    BY <1>2, <1>5
  <2> HIDE DEF n, Q
  <2> QED
    BY <2>1
<1> QED
  BY <1>1, <1>2, <1>6

(* What a route makes of a list are tasks of that list, done or not, and for  *)
(* one to add the new task.                                                *)
LEMMA ChangedKeeps ==
  ASSUME NEW r \in Requests, NEW list \in Seq(Task), id[r] \in Nat
  PROVE  LET w == Tasks!Changed(r, list)
         IN  /\ w \in Seq(Task)
             /\ \A i \in DOMAIN w :
                  \/ \E k \in DOMAIN list : w[i].title = list[k].title /\ w[i].id = list[k].id
                  \/ r \in Adding /\ w[i].title = r /\ w[i].id = id[r]
             /\ r \in Adding => \E i \in DOMAIN w : w[i].title = r
             /\ Once(list) /\ (\A k \in DOMAIN list : list[k].title # r) => Once(w)
<1> DEFINE w == Tasks!Changed(r, list)
<1>1. CASE r \in Adding
  <2> DEFINE e == [id |-> id[r], title |-> r, done |-> FALSE]
             h == Append(list, e)
  <2>1. w = h
    BY <1>1 DEF Adding, Tasks!Changed, Tasks!Titled
  <2>2. e \in Task /\ e.title = r /\ e.id = id[r]
    BY DEF Task
  <2> HIDE DEF e
  <2>3. h \in Seq(Task) /\ DOMAIN h = 1..Len(list) + 1 /\ DOMAIN list = 1..Len(list) /\ Len(list) \in Nat
    BY <2>2
  <2>4. \A i \in DOMAIN h : (i \in DOMAIN list /\ h[i] = list[i]) \/ (i = Len(list) + 1 /\ h[i] = e)
    BY <2>2, <2>3
  <2>5. Len(list) + 1 \in DOMAIN h /\ h[Len(list) + 1] = e
    BY <2>2, <2>3
  <2> HIDE DEF h
  <2>6. Once(list) /\ (\A k \in DOMAIN list : list[k].title # r) => Once(h)
    BY <2>2, <2>4 DEF Once
  <2> HIDE DEF w
  <2>7. \A i \in DOMAIN h : \/ \E k \in DOMAIN list : h[i].title = list[k].title /\ h[i].id = list[k].id
                            \/ r \in Adding /\ h[i].title = r /\ h[i].id = id[r]
    BY <1>1, <2>2, <2>4
  <2>8. \E i \in DOMAIN h : h[i].title = r
    BY <2>2, <2>5
  <2>9. /\ w \in Seq(Task)
        /\ \A i \in DOMAIN w :
             \/ \E k \in DOMAIN list : w[i].title = list[k].title /\ w[i].id = list[k].id
             \/ r \in Adding /\ w[i].title = r /\ w[i].id = id[r]
        /\ r \in Adding => \E i \in DOMAIN w : w[i].title = r
        /\ Once(list) /\ (\A k \in DOMAIN list : list[k].title # r) => Once(w)
    BY <2>1, <2>3, <2>6, <2>7, <2>8
  <2> QED
    BY <2>9 DEF w
<1>2. CASE op[r].route = "toggle"
  <2> DEFINE h == [i \in DOMAIN list |->
            IF list[i].id = op[r].id THEN [list[i] EXCEPT !.done = ~@] ELSE list[i]]
  <2>1. w = h /\ r \notin Adding
    BY <1>2 DEF Adding, Tasks!Changed, Tasks!Titled
  <2>2. \A i \in DOMAIN list : list[i] \in Task
    OBVIOUS
  <2>3. \A i \in DOMAIN list :
          h[i] \in Task /\ h[i].title = list[i].title /\ h[i].id = list[i].id
    BY <2>2 DEF Task
  <2>4. DOMAIN h = DOMAIN list /\ h \in Seq(Task)
    <3>1. Len(list) \in Nat /\ DOMAIN list = 1..Len(list) /\ DOMAIN h = DOMAIN list
      OBVIOUS
    <3>2. h = [i \in 1..Len(list) |-> h[i]]
      BY <3>1
    <3> HIDE DEF h
    <3> QED
      BY <2>3, <3>1, <3>2
  <2> HIDE DEF h, w
  <2>5. Once(list) => Once(h)
    BY <2>3, <2>4 DEF Once
  <2>6. /\ w \in Seq(Task)
        /\ \A i \in DOMAIN w :
             \/ \E k \in DOMAIN list : w[i].title = list[k].title /\ w[i].id = list[k].id
             \/ r \in Adding /\ w[i].title = r /\ w[i].id = id[r]
        /\ Once(list) => Once(w)
    BY <2>1, <2>3, <2>4, <2>5
  <2> QED
    BY <2>1, <2>6 DEF w
<1>3. CASE r \notin Adding /\ op[r].route # "toggle"
  <2>1. w = Tasks!Without(list, op[r].id)
    BY <1>3 DEF Adding, Tasks!Changed, Tasks!Titled
  <2> HIDE DEF w
  <2>2. w \in Seq(Task) /\ (Once(list) => Once(w)) /\ \A i \in DOMAIN w : \E k \in DOMAIN list : w[i] = list[k]
    BY <2>1, WithoutKeeps
  <2>3. \A i \in DOMAIN w : \E k \in DOMAIN list : w[i].title = list[k].title /\ w[i].id = list[k].id
    BY <2>2
  <2> QED
    BY <1>3, <2>2, <2>3 DEF w
<1> QED
  BY <1>1, <1>2, <1>3

(* What a response does to the state the invariant is about. *)
LEMMA Responds ==
  ASSUME NEW r, NEW code, NEW bytes, Tasks!Respond(r, code, bytes)
  PROVE  status' = [status EXCEPT ![r] = code] /\ pc' = [pc EXCEPT ![r] = "done"]
BY DEF Tasks!Respond, Tasks!Goto

(* One request's step leaves the stages of the others. *)
LEMMA StagesStay ==
  ASSUME StagesInv, NEW r \in Requests, Stage(r)',
         \A s \in Requests \ {r} :
           pc'[s] = pc[s] /\ op'[s] = op[s] /\ status'[s] = status[s] /\ read'[s] = read[s]
  PROVE  StagesInv'
<1> SUFFICES ASSUME NEW s \in Requests, s # r PROVE Stage(s)'
  BY DEF StagesInv
<1>1. /\ Stage(s) /\ pc'[s] = pc[s] /\ op'[s] = op[s] /\ status'[s] = status[s]
      /\ read'[s] = read[s]
  BY DEF StagesInv
<1> QED
  BY <1>1 DEF Stage, Adding

(* A title in the list is of a request that is done. *)
LEMMA ListedTask ==
  ASSUME StoreType, TasksOwned, NEW i \in DOMAIN wanted
  PROVE  /\ wanted[i] \in Task /\ wanted[i].title \in Requests
         /\ pc[wanted[i].title] = "done"
<1>1. wanted[i] \in Task
  BY DEF StoreType
<1>2. wanted[i].title \in Requests
  BY <1>1 DEF Task
<1> QED
  BY <1>1, <1>2 DEF TasksOwned

(* Who takes no id, and writes nothing, disturbs no history. *)
LEMMA HistoryStays ==
  ASSUME HistoryInv, StoreType, UNCHANGED <<tasks, lastId, wanted, raced, id>>,
         OnTheWay' \subseteq OnTheWay,
         \A s \in Requests : s \in Adding /\ pc[s] = "done" => s \in Adding' /\ pc'[s] = "done"
  PROVE  HistoryInv'
<1> SUFFICES ASSUME ~raced PROVE HistoryInv'
  BY DEF HistoryInv
<1>1. tasks.list = wanted /\ IdsApart /\ TasksOwned /\ Once(wanted)
  BY DEF HistoryInv
<1>2. TasksOwned'
  <2> SUFFICES ASSUME NEW i \in DOMAIN wanted
               PROVE  /\ wanted[i].title \in Adding'
                      /\ pc'[wanted[i].title] = "done" /\ id[wanted[i].title] = wanted[i].id
    BY DEF TasksOwned
  <2> QED
    BY <1>1, ListedTask DEF TasksOwned
<1>3. Once(wanted') /\ tasks'.list = wanted'
  BY <1>1
<1>4. Taken' \subseteq Taken
  BY DEF Taken, HasTask
<1>5. IdsApart'
  BY <1>1, <1>4 DEF IdsApart
<1> QED
  BY <1>2, <1>3, <1>5 DEF HistoryInv

(* The tasks stay owned while a request that has none takes an id or ends. *)
LEMMA OwnedStays ==
  ASSUME StoreType, TasksOwned, NEW r \in Requests, pc[r] # "done",
         UNCHANGED <<op, wanted>>, \A s \in Requests \ {r} : id'[s] = id[s] /\ pc'[s] = pc[s]
  PROVE  TasksOwned'
<1>1. Adding' = Adding
  BY DEF Adding
<1> SUFFICES ASSUME NEW i \in DOMAIN wanted
             PROVE  /\ wanted[i].title \in Adding
                    /\ pc'[wanted[i].title] = "done" /\ id'[wanted[i].title] = wanted[i].id
  BY <1>1 DEF TasksOwned
<1>2. wanted[i].title \in Requests \ {r}
  BY ListedTask
<1> QED
  BY <1>2 DEF TasksOwned

LEMMA HandleKeeps ==
  ASSUME TasksInv, NEW r \in Requests, Tasks!Handle(r)
  PROVE  TasksInv'
<1>1. PICK o \in Tasks!Ops :
        /\ pc[r] = "new" /\ op' = [op EXCEPT ![r] = o]
        /\ UNCHANGED <<tasks, lastId, read, id, failures, wanted, raced>>
        /\ CASE o.route = "index" -> Tasks!Respond(r, 200, PAGE_BYTES)
             [] o.route = "other" -> Tasks!Respond(r, 404, 1)
             [] o.route = Tasks!Titled -> Tasks!Goto(r, "read id") /\ Tasks!Unanswered
             [] OTHER -> Tasks!Goto(r, "load") /\ Tasks!Unanswered
  BY DEF Tasks!Handle
<1>2. StoreType /\ StagesInv /\ HistoryInv /\ op'[r] = o
  BY <1>1 DEF TasksInv, StoreType
<1>3. \/ \E code \in Nat : /\ status' = [status EXCEPT ![r] = code]
                           /\ pc' = [pc EXCEPT ![r] = "done"] /\ o.route # Tasks!Titled
      \/ status' = status /\ pc' = [pc EXCEPT ![r] = "read id"] /\ o.route = Tasks!Titled
      \/ status' = status /\ pc' = [pc EXCEPT ![r] = "load"] /\ o.route # Tasks!Titled
  <2>1. CASE o.route = "index"
    <3>2. o.route # "other" /\ o.route # Tasks!Titled
      BY <2>1 DEF Tasks!Titled
    <3>1. Tasks!Respond(r, 200, PAGE_BYTES)
      BY <1>1, <2>1, <3>2
    <3>3. status' = [status EXCEPT ![r] = 200] /\ pc' = [pc EXCEPT ![r] = "done"]
      BY <3>1, Responds
    <3>4. 200 \in Nat
      OBVIOUS
    <3> QED
      BY <3>2, <3>3, <3>4
  <2>2. CASE o.route = "other"
    <3>2. o.route # "index" /\ o.route # Tasks!Titled
      BY <2>2 DEF Tasks!Titled
    <3>1. Tasks!Respond(r, 404, 1)
      BY <1>1, <2>2, <3>2
    <3>3. status' = [status EXCEPT ![r] = 404] /\ pc' = [pc EXCEPT ![r] = "done"]
      BY <3>1, Responds
    <3>4. 404 \in Nat
      OBVIOUS
    <3> QED
      BY <3>2, <3>3, <3>4
  <2>3. CASE o.route = Tasks!Titled
    <3>1. o.route # "index" /\ o.route # "other"
      BY <2>3 DEF Tasks!Titled
    <3>2. Tasks!Goto(r, "read id") /\ Tasks!Unanswered
      BY <1>1, <2>3, <3>1
    <3> QED
      BY <2>3, <3>2 DEF Tasks!Goto, Tasks!Unanswered
  <2>4. CASE o.route \notin {"index", "other", Tasks!Titled}
    <3>1. Tasks!Goto(r, "load") /\ Tasks!Unanswered
      BY <1>1, <2>4
    <3> QED
      BY <2>4, <3>1 DEF Tasks!Goto, Tasks!Unanswered
  <2> QED
    BY <2>1, <2>2, <2>3, <2>4
<1>4. /\ DOMAIN pc' = Requests /\ DOMAIN op' = Requests /\ status' \in [Requests -> Nat]
      /\ \A s \in Requests \ {r} : pc'[s] = pc[s] /\ op'[s] = op[s] /\ status'[s] = status[s]
  BY <1>1, <1>2, <1>3 DEF StoreType
<1>5. status[r] # 200 /\ (r \in Adding' <=> o.route = Tasks!Titled)
  BY <1>1, <1>2 DEF StagesInv, Stage, Adding
<1>6. \/ pc'[r] = "done" /\ r \notin Adding'
      \/ pc'[r] = "read id" /\ r \in Adding' /\ status'[r] # 200
      \/ pc'[r] = "load" /\ r \notin Adding' /\ status'[r] # 200
  <2>1. DOMAIN pc = Requests /\ (status' = status => status'[r] # 200)
    BY <1>2, <1>5 DEF StoreType
  <2>2. pc'[r] \in {"done", "read id", "load"} /\ (pc'[r] # "done" => status' = status)
    BY <1>3, <2>1
  <2>3. pc'[r] = "read id" <=> o.route = Tasks!Titled
    BY <1>3, <2>1
  <2> QED
    BY <1>5, <2>1, <2>2, <2>3
<1>7. r \notin OnTheWay'
  BY <1>6 DEF OnTheWay
<1>8. OnTheWay' \subseteq OnTheWay
  BY <1>4, <1>7 DEF OnTheWay, Adding
<1>9. StoreType'
  BY <1>1, <1>2, <1>4 DEF StoreType
<1>10. StagesInv'
  <2>1. Stage(r)'
    BY <1>6 DEF Stage
  <2> QED
    BY <1>1, <1>2, <1>4, <2>1, StagesStay
<1>11. HistoryInv'
  <2>1. \A s \in Requests : s \in Adding /\ pc[s] = "done" => s \in Adding' /\ pc'[s] = "done"
    BY <1>1, <1>4 DEF Adding
  <2> QED
    BY <1>1, <1>2, <1>8, <2>1, HistoryStays
<1> QED
  BY <1>9, <1>10, <1>11 DEF TasksInv

LEMMA ReadIdKeeps ==
  ASSUME TasksInv, NEW r \in Requests, Tasks!ReadId(r)
  PROVE  TasksInv'
<1>1. /\ pc[r] = "read id" /\ id' = [id EXCEPT ![r] = lastId] /\ pc' = [pc EXCEPT ![r] = "write id"]
      /\ UNCHANGED <<tasks, lastId, op, read, status, wanted, raced>>
  BY DEF Tasks!ReadId, Tasks!Goto
<1>2. StoreType /\ StagesInv /\ HistoryInv /\ Stage(r)
  BY DEF TasksInv, StagesInv
<1>3. status[r] # 200 /\ r \in Adding /\ pc'[r] = "write id" /\ Adding' = Adding
  BY <1>1, <1>2 DEF Stage, StoreType, Adding
<1>4. StoreType' /\ \A s \in Requests \ {r} : pc'[s] = pc[s] /\ id'[s] = id[s]
  BY <1>1, <1>2 DEF StoreType
<1>5. pc[r] # "done" /\ r \notin OnTheWay' /\ OnTheWay' \subseteq OnTheWay
  <2>1. pc[r] # "done" /\ r \notin OnTheWay'
    BY <1>1, <1>3 DEF OnTheWay
  <2> QED
    BY <1>3, <1>4, <2>1 DEF OnTheWay, Adding
<1>6. StagesInv'
  <2>1. Stage(r)'
    BY <1>1, <1>3 DEF Stage
  <2> QED
    BY <1>1, <1>2, <1>4, <2>1, StagesStay
<1>7. HistoryInv'
  <2> SUFFICES ASSUME ~raced PROVE HistoryInv'
    BY <1>1 DEF HistoryInv
  <2>1. tasks.list = wanted /\ IdsApart /\ TasksOwned /\ Once(wanted)
    BY <1>2 DEF HistoryInv
  <2>2. TasksOwned'
    BY <1>1, <1>2, <1>4, <1>5, <2>1, OwnedStays
  <2>3. Once(wanted') /\ tasks'.list = wanted' /\ lastId' = lastId
    BY <1>1, <2>1
  <2>5. \A s \in Requests : HasTask(s) => s # r
    BY <1>2, <1>5, <2>1, ListedTask DEF HasTask
  <2>6. \A s \in Taken' : s \in Taken /\ id'[s] = id[s]
    BY <1>1, <1>4, <1>5, <2>5 DEF Taken, HasTask, OnTheWay, Adding
  <2>4. IdsApart'
    BY <2>1, <2>3, <2>6 DEF IdsApart
  <2> QED
    BY <2>2, <2>3, <2>4 DEF HistoryInv
<1> QED
  BY <1>4, <1>6, <1>7 DEF TasksInv

(* An id that nobody else wrote in between is larger than all before. *)
LEMMA WriteIdKeeps ==
  ASSUME TasksInv, NEW r \in Requests, Tasks!WriteId(r)
  PROVE  TasksInv'
<1>1. /\ pc[r] = "write id" /\ lastId' = id[r] + 1 /\ id' = [id EXCEPT ![r] = id[r] + 1]
      /\ pc' = [pc EXCEPT ![r] = "load"] /\ raced' = (raced \/ lastId # id[r])
      /\ UNCHANGED <<tasks, op, read, status, wanted>>
  BY DEF Tasks!WriteId, Tasks!SetId, Tasks!Goto
<1>2. StoreType /\ StagesInv /\ HistoryInv /\ Stage(r)
  BY DEF TasksInv, StagesInv
<1>3. status[r] # 200 /\ r \in Adding /\ pc'[r] = "load" /\ Adding' = Adding
  BY <1>1, <1>2 DEF Stage, StoreType, Adding
<1>4. /\ \A s \in Requests \ {r} : pc'[s] = pc[s] /\ id'[s] = id[s]
      /\ id[r] \in Nat /\ id'[r] = id[r] + 1 /\ id' \in [Requests -> Nat] /\ lastId' \in Nat
      /\ DOMAIN pc' = Requests
  <2>1. id \in [Requests -> Nat] /\ DOMAIN pc = Requests /\ id[r] \in Nat /\ id[r] + 1 \in Nat
    BY <1>2 DEF StoreType
  <2>2. id' \in [Requests -> Nat] /\ id'[r] = id[r] + 1 /\ \A s \in Requests \ {r} : id'[s] = id[s]
    BY <1>1, <2>1
  <2>3. DOMAIN pc' = Requests /\ \A s \in Requests \ {r} : pc'[s] = pc[s]
    BY <1>1, <2>1
  <2> QED
    BY <1>1, <2>1, <2>2, <2>3
<1>5. StoreType'
  <2>1. raced' \in BOOLEAN
    BY <1>1
  <2> QED
    BY <1>1, <1>2, <1>4, <2>1 DEF StoreType
<1>6. StagesInv'
  <2>1. Stage(r)'
    BY <1>1, <1>3 DEF Stage
  <2> QED
    BY <1>1, <1>2, <1>4, <2>1, StagesStay
<1>7. HistoryInv'
  <2> SUFFICES ASSUME ~raced' PROVE HistoryInv'
    BY DEF HistoryInv
  <2>1. ~raced /\ lastId = id[r]
    BY <1>1
  <2>2. tasks.list = wanted /\ IdsApart /\ TasksOwned /\ Once(wanted)
    BY <1>2, <2>1 DEF HistoryInv
  <2>0. pc[r] # "done"
    BY <1>1
  <2>3. TasksOwned'
    BY <1>1, <1>2, <1>4, <2>0, <2>2, OwnedStays
  <2>4. Once(wanted') /\ tasks'.list = wanted' /\ lastId' = lastId + 1 /\ id'[r] = lastId + 1
    BY <1>1, <1>4, <2>1, <2>2
  <2>5. \A s \in Taken' : s = r \/ (s \in Taken /\ s # r /\ id'[s] = id[s])
    BY <1>1, <1>3, <1>4 DEF Taken, OnTheWay, HasTask, Adding
  <2>6. \A s \in Taken : id[s] \in Nat /\ lastId \in Nat /\ id[s] <= lastId
    BY <1>2, <2>2 DEF IdsApart, StoreType, Taken, OnTheWay, Adding
  <2>7. \A s \in Taken' : id'[s] <= lastId' /\ (s # r => id'[s] # id'[r])
    <3> SUFFICES ASSUME NEW s \in Taken' PROVE id'[s] <= lastId' /\ (s # r => id'[s] # id'[r])
      OBVIOUS
    <3>1. CASE s = r
      BY <2>4, <3>1, <1>2 DEF StoreType
    <3>2. CASE s # r
      <4>1. s \in Taken /\ id'[s] = id[s]
        BY <2>5, <3>2
      <4>2. id[s] \in Nat /\ lastId \in Nat /\ id[s] <= lastId
        BY <2>6, <4>1
      <4> QED
        BY <2>4, <4>1, <4>2
    <3> QED
      BY <3>1, <3>2
  <2>8. \A q, s \in Taken' : id'[q] = id'[s] => q = s
    <3> SUFFICES ASSUME NEW q \in Taken', NEW s \in Taken', id'[q] = id'[s] PROVE q = s
      OBVIOUS
    <3>1. CASE q = r \/ s = r
      BY <2>7, <3>1
    <3>2. CASE q # r /\ s # r
      BY <2>2, <2>5, <3>2 DEF IdsApart
    <3> QED
      BY <3>1, <3>2
  <2> QED
    BY <2>3, <2>4, <2>7, <2>8 DEF HistoryInv, IdsApart
<1> QED
  BY <1>5, <1>6, <1>7 DEF TasksInv

LEMMA LoadTasksKeeps ==
  ASSUME TasksInv, NEW r \in Requests, Tasks!LoadTasks(r)
  PROVE  TasksInv'
<1>1. /\ pc[r] = "load" /\ read' = [read EXCEPT ![r] = tasks.list]
      /\ UNCHANGED <<tasks, lastId, op, id, wanted, raced>>
      /\ IF op[r].route \in {"list", "blank"} THEN Tasks!ShowList(r, tasks.list)
         ELSE Tasks!Goto(r, "save") /\ Tasks!Unanswered
  BY DEF Tasks!LoadTasks
<1>2. StoreType /\ StagesInv /\ HistoryInv /\ Stage(r)
  BY DEF TasksInv, StagesInv
<1>3. \/ /\ status' = [status EXCEPT ![r] = 200] /\ pc' = [pc EXCEPT ![r] = "done"]
         /\ r \notin Adding
      \/ status' = status /\ pc' = [pc EXCEPT ![r] = "save"]
  <2>1. CASE op[r].route \in {"list", "blank"}
    <3>1. Tasks!Respond(r, 200, TASK_BYTES * Tasks!Len(tasks.list))
      BY <1>1, <2>1 DEF Tasks!ShowList
    <3>2. r \notin Adding
      BY <2>1 DEF Adding, Tasks!Titled
    <3> QED
      BY <3>1, <3>2, Responds
  <2>2. CASE op[r].route \notin {"list", "blank"}
    BY <1>1, <2>2 DEF Tasks!Goto, Tasks!Unanswered
  <2> QED
    BY <2>1, <2>2
<1>4. /\ DOMAIN pc' = Requests /\ status' \in [Requests -> Nat] /\ read' \in [Requests -> Seq(Task)]
      /\ \A s \in Requests \ {r} : pc'[s] = pc[s] /\ read'[s] = read[s] /\ status'[s] = status[s]
  <2>1. /\ tasks.list \in Seq(Task) /\ read \in [Requests -> Seq(Task)]
        /\ DOMAIN pc = Requests /\ status \in [Requests -> Nat]
    BY <1>2 DEF StoreType
  <2>2. read' \in [Requests -> Seq(Task)] /\ \A s \in Requests \ {r} : read'[s] = read[s]
    BY <1>1, <2>1
  <2>3. DOMAIN pc' = Requests /\ \A s \in Requests \ {r} : pc'[s] = pc[s]
    BY <1>3, <2>1
  <2>4. status' \in [Requests -> Nat] /\ \A s \in Requests \ {r} : status'[s] = status[s]
    <3>1. CASE status' = [status EXCEPT ![r] = 200]
      BY <2>1, <3>1
    <3>2. CASE status' = status
      BY <2>1, <3>2
    <3> QED
      BY <1>3, <3>1, <3>2
  <2> QED
    BY <2>2, <2>3, <2>4
<1>5. status[r] # 200 /\ Adding' = Adding
  BY <1>1, <1>2 DEF Stage, Adding
<1>6. \/ pc'[r] = "done" /\ r \notin Adding
      \/ pc'[r] = "save" /\ status'[r] # 200
  BY <1>2, <1>3, <1>5 DEF StoreType
<1>7. OnTheWay' \subseteq OnTheWay
  BY <1>1, <1>4, <1>5, <1>6 DEF OnTheWay, Adding
<1>8. StoreType'
  BY <1>1, <1>2, <1>4 DEF StoreType
<1>9. StagesInv'
  <2>1. Stage(r)'
    BY <1>5, <1>6 DEF Stage
  <2> QED
    BY <1>1, <1>2, <1>4, <2>1, StagesStay
<1>10. HistoryInv'
  <2>1. \A s \in Requests : s \in Adding /\ pc[s] = "done" => s \in Adding' /\ pc'[s] = "done"
    BY <1>1, <1>4, <1>5
  <2> QED
    BY <1>1, <1>2, <1>7, <2>1, HistoryStays
<1> QED
  BY <1>8, <1>9, <1>10 DEF TasksInv

(* A list that nobody else wrote in between becomes what is wanted, whatever its *)
(* request is told.                                                              *)
LEMMA SetTasksKeeps ==
  ASSUME StoreType, HistoryInv, NEW r \in Requests, pc[r] = "save", Tasks!SetTasks(r),
         UNCHANGED <<lastId, op, id>>, pc' = [pc EXCEPT ![r] = "done"]
  PROVE  /\ raced' \in BOOLEAN /\ tasks'.list \in Seq(Task) /\ wanted' \in Seq(Task)
         /\ tasks'.list = Tasks!Changed(r, read[r]) /\ HistoryInv'
<1> DEFINE w == Tasks!Changed(r, read[r])
           v == Tasks!Changed(r, wanted)
<1>1. tasks' = Tasks!Stored(w) /\ wanted' = v /\ raced' = (raced \/ tasks.list # read[r])
  BY DEF Tasks!SetTasks
<1>2. read[r] \in Seq(Task) /\ wanted \in Seq(Task) /\ id[r] \in Nat
  BY DEF StoreType
<1>3. w \in Seq(Task)
  BY <1>2, ChangedKeeps
<1>4. /\ v \in Seq(Task)
      /\ \A i \in DOMAIN v :
           \/ \E k \in DOMAIN wanted : v[i].title = wanted[k].title /\ v[i].id = wanted[k].id
           \/ r \in Adding /\ v[i].title = r /\ v[i].id = id[r]
      /\ Once(wanted) /\ (\A k \in DOMAIN wanted : wanted[k].title # r) => Once(v)
  BY <1>2, ChangedKeeps
<1>5. ~raced' => ~raced /\ tasks.list = read[r] /\ (read[r] = wanted => w = v)
  BY <1>1
<1>6. raced' \in BOOLEAN
  BY <1>1
<1> HIDE DEF w, v
<1>7. tasks'.list = w
  BY <1>1 DEF Tasks!Stored
<1>8. Adding' = Adding /\ pc[r] # "done"
  BY DEF Adding
<1>9. /\ pc'[r] = "done" /\ \A s \in Requests \ {r} : pc'[s] = pc[s]
      /\ \A s \in OnTheWay' : s \in OnTheWay
  <2>1. pc'[r] = "done" /\ \A s \in Requests \ {r} : pc'[s] = pc[s]
    BY DEF StoreType
  <2>2. r \notin OnTheWay'
    BY <2>1 DEF OnTheWay
  <2> QED
    BY <1>8, <2>1, <2>2 DEF OnTheWay, Adding
<1>10. r \in Adding => r \in OnTheWay
  BY DEF OnTheWay
<1>11. ASSUME ~raced' PROVE HistoryInv'
  <2>1. tasks.list = wanted /\ IdsApart /\ TasksOwned /\ Once(wanted) /\ w = v
    BY <1>5, <1>11 DEF HistoryInv
  <2>2. \A i \in DOMAIN wanted : wanted[i].title \in Requests /\ wanted[i].title # r
    BY <1>8, <2>1, ListedTask
  <2>3. TasksOwned'
    <3> SUFFICES ASSUME NEW i \in DOMAIN v
                 PROVE  v[i].title \in Adding /\ pc'[v[i].title] = "done" /\ id[v[i].title] = v[i].id
      BY <1>1, <1>8 DEF TasksOwned
    <3>1. CASE \E k \in DOMAIN wanted : v[i].title = wanted[k].title /\ v[i].id = wanted[k].id
      <4>1. PICK k \in DOMAIN wanted : v[i].title = wanted[k].title /\ v[i].id = wanted[k].id
        BY <3>1
      <4>2. wanted[k].title \in Requests \ {r}
        BY <2>2
      <4> QED
        BY <1>9, <2>1, <4>1, <4>2 DEF TasksOwned
    <3>2. CASE r \in Adding /\ v[i].title = r /\ v[i].id = id[r]
      BY <1>9, <3>2
    <3> QED
      BY <1>4, <3>1, <3>2
  <2>4. Once(v) /\ wanted' = v /\ tasks'.list = wanted'
    BY <1>1, <1>4, <1>7, <2>1, <2>2
  <2>5. \A s \in Taken' : s \in Taken
    BY <1>1, <1>4, <1>9, <1>10 DEF Taken, HasTask
  <2>6. IdsApart'
    BY <2>1, <2>5 DEF IdsApart
  <2>7. Once(wanted')
    BY <2>4
  <2> QED
    BY <2>3, <2>4, <2>6, <2>7 DEF HistoryInv
<1>12. HistoryInv'
  BY <1>11 DEF HistoryInv
<1> QED
  BY <1>1, <1>3, <1>4, <1>6, <1>7, <1>12 DEF w

LEMMA SaveTasksKeeps ==
  ASSUME TasksInv, NEW r \in Requests, Tasks!SaveTasks(r)
  PROVE  TasksInv'
<1> DEFINE w == Tasks!Changed(r, read[r])
<1>1. /\ pc[r] = "save" /\ UNCHANGED <<lastId, op, id>> /\ Tasks!SetTasks(r)
      /\ read' = [read EXCEPT ![r] = w]
      /\ Tasks!Respond(r, 200, TASK_BYTES * Tasks!Len(w))
  BY DEF Tasks!SaveTasks, Tasks!ShowList
<1>2. StoreType /\ StagesInv /\ HistoryInv /\ Stage(r)
  BY DEF TasksInv, StagesInv
<1>3. read[r] \in Seq(Task) /\ id[r] \in Nat
  BY <1>2 DEF StoreType
<1>4. w \in Seq(Task) /\ (r \in Adding => \E i \in DOMAIN w : w[i].title = r)
  BY <1>3, ChangedKeeps
<1> HIDE DEF w
<1>5. status' = [status EXCEPT ![r] = 200] /\ pc' = [pc EXCEPT ![r] = "done"]
  BY <1>1, Responds
<1>6. /\ raced' \in BOOLEAN /\ tasks'.list \in Seq(Task) /\ wanted' \in Seq(Task) /\ HistoryInv'
  BY <1>1, <1>2, <1>5, SetTasksKeeps
<1>7. /\ DOMAIN pc' = Requests /\ status' \in [Requests -> Nat] /\ read' \in [Requests -> Seq(Task)]
      /\ \A s \in Requests \ {r} : pc'[s] = pc[s] /\ read'[s] = read[s] /\ status'[s] = status[s]
      /\ pc'[r] = "done" /\ status'[r] = 200 /\ read'[r] = w
  BY <1>1, <1>2, <1>4, <1>5 DEF StoreType
<1>8. Adding' = Adding
  BY <1>1 DEF Adding
<1>9. StoreType'
  BY <1>1, <1>2, <1>6, <1>7 DEF StoreType
<1>10. StagesInv'
  <2>1. Stage(r)'
    BY <1>4, <1>7, <1>8 DEF Stage
  <2> QED
    BY <1>1, <1>2, <1>7, <2>1, StagesStay
<1> QED
  BY <1>6, <1>9, <1>10 DEF TasksInv

(* An id that a failing call wrote is nobody's. *)
Writing(r) == pc[r] = "write id"
Ends(r) == pc' = [pc EXCEPT ![r] = "done"]

LEMMA SetIdKeeps ==
  ASSUME StoreType, HistoryInv, NEW r \in Requests, Writing(r), Tasks!SetId(r),
         UNCHANGED <<tasks, wanted, op, id>>, Ends(r)
  PROVE  raced' \in BOOLEAN /\ lastId' \in Nat /\ HistoryInv'
<1>1. lastId' = id[r] + 1 /\ raced' = (raced \/ lastId # id[r])
  BY DEF Tasks!SetId
<1>2. raced' \in BOOLEAN
  BY <1>1
<1>3. id[r] \in Nat /\ lastId \in Nat /\ lastId' \in Nat
  <2>1. id[r] \in Nat /\ lastId \in Nat
    BY DEF StoreType
  <2> QED
    BY <1>1, <2>1
<1>4. pc[r] # "done" /\ pc'[r] = "done" /\ \A s \in Requests \ {r} : pc'[s] = pc[s]
  BY DEF StoreType, Writing, Ends
<1>5. OnTheWay' \subseteq OnTheWay
  <2>1. r \notin OnTheWay'
    BY <1>4 DEF OnTheWay
  <2> QED
    BY <1>4, <2>1 DEF OnTheWay, Adding
<1>6. Taken' \subseteq Taken
  BY <1>5 DEF Taken, HasTask
<1>7. ASSUME ~raced' PROVE HistoryInv'
  <2>1. ~raced /\ lastId = id[r]
    BY <1>1, <1>7
  <2>2. tasks.list = wanted /\ IdsApart /\ TasksOwned /\ Once(wanted)
    BY <2>1 DEF HistoryInv
  <2>3. TasksOwned'
    BY <1>4, <2>2, OwnedStays
  <2>4. \A s \in Taken : id[s] \in Nat /\ id[s] <= lastId
    BY <2>2 DEF IdsApart, StoreType, Taken, OnTheWay, Adding
  <2>5. \A s \in Taken' : id'[s] <= lastId'
    <3> SUFFICES ASSUME NEW s \in Taken' PROVE id[s] <= lastId'
      OBVIOUS
    <3>1. id[s] \in Nat /\ id[s] <= lastId
      BY <1>6, <2>4
    <3>2. lastId' = lastId + 1
      BY <1>1, <2>1
    <3> QED
      BY <1>3, <3>1, <3>2
  <2>6. \A q, s \in Taken' : id'[q] = id'[s] => q = s
    BY <1>6, <2>2 DEF IdsApart
  <2>7. Once(wanted') /\ tasks'.list = wanted'
    BY <2>2
  <2> QED
    BY <2>3, <2>5, <2>6, <2>7 DEF HistoryInv, IdsApart
<1>8. HistoryInv'
  BY <1>7 DEF HistoryInv
<1> QED
  BY <1>2, <1>3, <1>8

LEMMA StoreFailsKeeps ==
  ASSUME TasksInv, NEW r \in Requests, Tasks!StoreFails(r)
  PROVE  TasksInv'
<1>1. /\ pc[r] \in {"read id", "write id", "load", "save"} /\ Tasks!Respond(r, 500, 1)
      /\ UNCHANGED <<op, read, id>>
      /\ \/ UNCHANGED <<tasks, lastId, wanted, raced>>
         \/ pc[r] = "write id" /\ Tasks!SetId(r) /\ UNCHANGED <<tasks, wanted>>
         \/ pc[r] = "save" /\ Tasks!SetTasks(r) /\ UNCHANGED lastId
  BY DEF Tasks!StoreFails
<1>2. StoreType /\ StagesInv /\ HistoryInv /\ Stage(r)
  BY DEF TasksInv, StagesInv
<1>3. status' = [status EXCEPT ![r] = 500] /\ pc' = [pc EXCEPT ![r] = "done"]
  BY <1>1, Responds
<1>4. /\ DOMAIN pc' = Requests /\ status' \in [Requests -> Nat]
      /\ \A s \in Requests \ {r} : pc'[s] = pc[s] /\ status'[s] = status[s]
      /\ pc'[r] = "done" /\ status'[r] = 500
  BY <1>2, <1>3 DEF StoreType
<1>5. pc[r] # "done" /\ Adding' = Adding
  BY <1>1 DEF Adding
<1>6. StagesInv'
  <2>1. Stage(r)'
    BY <1>4 DEF Stage
  <2>2. op' = op /\ read' = read
    BY <1>1
  <2> QED
    BY <1>2, <1>4, <2>1, <2>2, StagesStay
<1>7. CASE UNCHANGED <<tasks, lastId, wanted, raced>>
  <2>1. OnTheWay' \subseteq OnTheWay
    <3>1. r \notin OnTheWay'
      BY <1>4 DEF OnTheWay
    <3> QED
      BY <1>4, <1>5, <3>1 DEF OnTheWay, Adding
  <2>2. StoreType'
    BY <1>1, <1>2, <1>4, <1>7 DEF StoreType
  <2>3. \A s \in Requests : s \in Adding /\ pc[s] = "done" => s \in Adding' /\ pc'[s] = "done"
    BY <1>4, <1>5
  <2>4. HistoryInv'
    BY <1>1, <1>2, <1>7, <2>1, <2>3, HistoryStays
  <2> QED
    BY <1>6, <2>2, <2>4 DEF TasksInv
<1>8. CASE pc[r] = "write id" /\ Tasks!SetId(r) /\ UNCHANGED <<tasks, wanted>>
  <2>1. raced' \in BOOLEAN /\ lastId' \in Nat /\ HistoryInv'
    BY <1>1, <1>2, <1>3, <1>8, SetIdKeeps DEF Writing, Ends
  <2>2. StoreType'
    BY <1>1, <1>2, <1>4, <1>8, <2>1 DEF StoreType
  <2> QED
    BY <1>6, <2>1, <2>2 DEF TasksInv
<1>9. CASE pc[r] = "save" /\ Tasks!SetTasks(r) /\ UNCHANGED lastId
  <2>1. raced' \in BOOLEAN /\ tasks'.list \in Seq(Task) /\ wanted' \in Seq(Task) /\ HistoryInv'
    BY <1>1, <1>2, <1>3, <1>9, SetTasksKeeps
  <2>2. StoreType'
    BY <1>1, <1>2, <1>4, <1>9, <2>1 DEF StoreType
  <2> QED
    BY <1>6, <2>1, <2>2 DEF TasksInv
<1> QED
  BY <1>1, <1>7, <1>8, <1>9

LEMMA TasksKeep ==
  ASSUME TasksInv, [Tasks!Next]_Tasks!vars
  PROVE  TasksInv'
<1>1. CASE Tasks!Next
  BY <1>1, HandleKeeps, ReadIdKeeps, WriteIdKeeps, LoadTasksKeeps, SaveTasksKeeps, StoreFailsKeeps
     DEF Tasks!Next
<1>2. CASE UNCHANGED Tasks!vars
  <2>1. UNCHANGED <<tasks, lastId, pc, op, read, id, status, wanted, raced>>
    BY <1>2 DEF Tasks!vars
  <2>2. Adding' = Adding /\ OnTheWay' = OnTheWay
    BY <2>1 DEF OnTheWay, Adding
  <2>3. StoreType' /\ StagesInv'
    BY <2>1, <2>2 DEF TasksInv, StoreType, StagesInv, Stage
  <2>4. HistoryInv'
    BY <2>1, <2>2, HistoryStays DEF TasksInv
  <2> QED
    BY <2>3, <2>4 DEF TasksInv
<1> QED
  BY <1>1, <1>2

LEMMA TasksInit == Tasks!Init => TasksInv
<1> SUFFICES ASSUME Tasks!Init PROVE TasksInv
  OBVIOUS
<1>1. tasks.list = << >> /\ wanted = << >> /\ << >> \in Seq(Task) /\ DOMAIN << >> = {}
  BY DEF Tasks!Init, Tasks!Absent, Tasks!Garbage
<1>2. StoreType
  BY <1>1 DEF Tasks!Init, StoreType
<1>3. StagesInv
  BY DEF Tasks!Init, StagesInv, Stage
<1>4. Taken = {}
  BY <1>1 DEF Tasks!Init, Taken, OnTheWay, HasTask, Adding
<1>5. HistoryInv
  BY <1>1, <1>4 DEF HistoryInv, IdsApart, TasksOwned, Once
<1> QED
  BY <1>2, <1>3, <1>5 DEF TasksInv

LEMMA TasksHold == TasksInv => Tasks!ListIsItsHistory
<1> SUFFICES ASSUME TasksInv, ~raced PROVE Tasks!ListIsItsHistory
  BY DEF Tasks!ListIsItsHistory
<1>1. tasks.list = wanted /\ HistoryInv
  BY DEF TasksInv, HistoryInv
<1>2. \A i, j \in DOMAIN wanted : wanted[i].id = wanted[j].id => i = j
  <2> SUFFICES ASSUME NEW i \in DOMAIN wanted, NEW j \in DOMAIN wanted, wanted[i].id = wanted[j].id
               PROVE  i = j
    OBVIOUS
  <2>1. wanted[i] \in Task /\ wanted[j] \in Task
    BY DEF TasksInv, StoreType
  <2>2. wanted[i].title \in Taken /\ wanted[j].title \in Taken
    BY <2>1 DEF Taken, HasTask, Task
  <2>3. id[wanted[i].title] = id[wanted[j].title]
    BY <1>1 DEF HistoryInv, TasksOwned
  <2>4. wanted[i].title = wanted[j].title
    BY <1>1, <2>2, <2>3 DEF HistoryInv, IdsApart
  <2> QED
    BY <1>1, <2>4 DEF HistoryInv, Once
<1>3. \A r \in Requests : status[r] = 200 /\ op[r].route = Tasks!Titled =>
        \E i \in DOMAIN read[r] : read[r][i].title = r
  BY DEF TasksInv, StagesInv, Stage, Adding
<1> QED
  BY <1>1, <1>2, <1>3 DEF Tasks!ListIsItsHistory

-----------------------------------------------------------------------------
(***************************************************************************)
(* The request bin: what is written, scanned, joined and grouped.          *)
(***************************************************************************)
Chars == Octets \cup {Bins!QUOTE, Bins!BACKSLASH, Bins!REPLACEMENT, "u", "#", ",", ":", "{", "}", "[", "]"}
States == [depth : Int, string : BOOLEAN, escaped : BOOLEAN, piece : Seq(Chars), pieces : Seq(Seq(Chars))]
Headers == [name : Seq(Octets), value : Seq(Octets)]
Groups == [name : Seq(Octets), values : Seq(Seq(Chars))]

Scan(s, t) == Bins!FoldLeft(Bins!Scanned, s, t)

LEMMA ScannedIs ==
  ASSUME NEW s \in States, NEW c \in Chars
  PROVE  Bins!Scanned(s, c) \in States
<1>1. /\ s.depth \in Int /\ s.depth + 1 \in Int /\ s.depth + -1 \in Int /\ s.depth + 0 \in Int
      /\ s.piece \in Seq(Chars) /\ s.pieces \in Seq(Seq(Chars))
      /\ s.string \in BOOLEAN /\ s.escaped \in BOOLEAN
  BY DEF States
<1>2. Append(s.piece, c) \in Seq(Chars) /\ Append(s.pieces, Append(s.piece, c)) \in Seq(Seq(Chars))
  BY <1>1
<1>3. CASE s.string
  BY <1>1, <1>2, <1>3 DEF Bins!Scanned, States
<1>4. CASE ~s.string
  <2> DEFINE r == Bins!Scanned(s, c)
  <2>1. r = [depth |-> r.depth, string |-> r.string, escaped |-> r.escaped,
             piece |-> r.piece, pieces |-> r.pieces]
    BY <1>4 DEF Bins!Scanned
  <2>2. r.depth \in {s.depth + 1, s.depth + -1, s.depth + 0}
    BY <1>4 DEF Bins!Scanned
  <2>3. r.string \in BOOLEAN /\ r.escaped \in BOOLEAN
    BY <1>4 DEF Bins!Scanned
  <2>4. r.piece = << >> \/ r.piece = Append(s.piece, c)
    BY <1>4 DEF Bins!Scanned
  <2>5. r.pieces \in {s.pieces, Append(s.pieces, Append(s.piece, c))}
    BY <1>4 DEF Bins!Scanned
  <2> HIDE DEF r
  <2>6. r \in States
    <3>1. r.depth \in Int
      BY <1>1, <2>2
    <3>2. r.piece \in Seq(Chars)
      <4>1. << >> \in Seq(Chars)
        OBVIOUS
      <4> QED
        BY <1>2, <2>4, <4>1
    <3>3. r.pieces \in Seq(Seq(Chars))
      BY <1>1, <1>2, <2>5
    <3> QED
      BY <2>1, <2>3, <3>1, <3>2, <3>3 DEF States
  <2> QED
    BY <2>6 DEF r
<1> QED
  BY <1>3, <1>4

ScannedBy == [p \in States \X Chars |-> Bins!Scanned(p[1], p[2])]

(* A text is scanned one character after the other. *)
LEMMA ScanFolds ==
  ASSUME NEW s \in States, NEW t \in Seq(Chars)
  PROVE  IsFold(Scan(s, t), ScannedBy, s, t)
<1> DEFINE dom == DOMAIN t
           D(g, u) == IF u = {} THEN s ELSE Bins!Scanned(g[u \ {Max(u)}], t[Max(u)])
           IsF(g) == g = [u \in SUBSET dom |-> D(g, u)]
           F == CHOOSE g : IsF(g)
<1>1. \A a \in States, c \in Chars :
        ScannedBy[<<a, c>>] = Bins!Scanned(a, c) /\ Bins!Scanned(a, c) \in States
  BY ScannedIs DEF ScannedBy
<1>2. ScannedBy \in [States \X Chars -> States]
  BY ScannedIs DEF ScannedBy
<1>3. \A u \in SUBSET dom : u # {} => Max(u) \in dom /\ t[Max(u)] \in Chars
  <2>1. Len(t) \in Nat /\ dom = 1..Len(t)
    OBVIOUS
  <2>2. \A u \in SUBSET (1..Len(t)) : u # {} => Max(u) \in 1..Len(t)
    BY <2>1, MaxIn
  <2> QED
    BY <2>1, <2>2
<1>4. s \in States
  OBVIOUS
<1>5. PICK g : Runs(g, ScannedBy, s, t, States)
  BY <1>2, <1>4, FoldRuns
<1>6. IsF(g)
  <2>1. \A u \in SUBSET dom : g[u] = D(g, u)
    BY <1>1, <1>3, <1>5 DEF Runs
  <2> HIDE DEF D
  <2> QED
    BY <1>5, <2>1 DEF Runs
<1>7. IsF(F)
  <2> HIDE DEF IsF
  <2> QED
    BY <1>6
<1>8. Scan(s, t) = F[dom]
  <2>1. \A u : Bins!Max(u) = Max(u)
    BY DEF Bins!Max, Max
  <2> QED
    BY <2>1 DEF Scan, Bins!FoldLeft, Bins!MapThenFoldSet
<1> HIDE DEF F
<1>9. \A u \in SUBSET dom : F[u] = D(F, u)
  BY <1>7
<1>10. Follows(F, ScannedBy, s, t, States)
  <2>1. F[{}] = s
    BY <1>9
  <2>2. \A u \in SUBSET dom : u # {} /\ F[u \ {Max(u)}] \in States =>
          F[u] = ScannedBy[<<F[u \ {Max(u)}], t[Max(u)]>>]
    BY <1>1, <1>3, <1>9
  <2> QED
    BY <2>1, <2>2 DEF Follows
<1>11. IsFold(F[DOMAIN t], ScannedBy, s, t)
  BY <1>2, <1>4, <1>10, FoldFrom
<1> QED
  BY <1>8, <1>11

(* Scanning one character more. *)
LEMMA ScanMore ==
  ASSUME NEW s \in States, NEW t \in Seq(Chars)
  PROVE  /\ Scan(s, << >>) = s
         /\ Scan(s, t) \in States
         /\ \A c \in Chars : Scan(s, Append(t, c)) = Bins!Scanned(Scan(s, t), c)
<1>1. \A a \in States, c \in Chars :
        ScannedBy[<<a, c>>] = Bins!Scanned(a, c)
  BY ScannedIs DEF ScannedBy
<1>2. ScannedBy \in [States \X Chars -> States]
  BY ScannedIs DEF ScannedBy
<1>3. s \in States
  OBVIOUS
<1>4. \A u \in Seq(Chars) : IsFold(Scan(s, u), ScannedBy, s, u)
  BY ScanFolds
<1>5. Scan(s, t) \in States
  BY <1>2, <1>3, <1>4, FoldIn
<1>6. Scan(s, << >>) = s
  <2>1. << >> \in Seq(Chars)
    OBVIOUS
  <2> QED
    BY <1>4, <2>1, FoldOfNone
<1>7. ASSUME NEW c \in Chars PROVE Scan(s, Append(t, c)) = Bins!Scanned(Scan(s, t), c)
  <2>1. Append(t, c) \in Seq(Chars)
    OBVIOUS
  <2>2. Scan(s, Append(t, c)) = ScannedBy[<<Scan(s, t), c>>]
    BY <1>4, <2>1, FoldOfMore
  <2> QED
    BY <1>1, <1>5, <2>2
<1> QED
  BY <1>5, <1>6, <1>7

LEMMA CommaIs ==
  ASSUME NEW s \in Seq(Chars), NEW t \in Seq(Chars)
  PROVE  Bins!Comma(s, t) \in Seq(Chars)
<1>1. \A c \in Chars : s \o <<c>> \o t \in Seq(Chars)
  OBVIOUS
<1>2. "," \in Chars
  BY DEF Chars
<1>3. s \o <<",">> \o t \in Seq(Chars)
  BY Zenon, <1>1, <1>2
<1> QED
  BY <1>3 DEF Bins!Comma

CommaBy == [p \in Seq(Chars) \X Seq(Chars) |-> Bins!Comma(p[1], p[2])]

(* Texts are joined one after the other. *)
LEMMA JoinFolds ==
  ASSUME NEW t \in Seq(Seq(Chars))
  PROVE  IsFold(Bins!Joined(t), CommaBy, << >>, t)
<1> DEFINE dom == DOMAIN t
           D(g, u) == IF u = {} THEN << >> ELSE Bins!Comma(g[u \ {Max(u)}], t[Max(u)])
           IsF(g) == g = [u \in SUBSET dom |-> D(g, u)]
           F == CHOOSE g : IsF(g)
<1>1. \A a \in Seq(Chars), c \in Seq(Chars) :
        CommaBy[<<a, c>>] = Bins!Comma(a, c) /\ Bins!Comma(a, c) \in Seq(Chars)
  BY CommaIs DEF CommaBy
<1>2. CommaBy \in [Seq(Chars) \X Seq(Chars) -> Seq(Chars)]
  BY CommaIs DEF CommaBy
<1>3. \A u \in SUBSET dom : u # {} => Max(u) \in dom /\ t[Max(u)] \in Seq(Chars)
  <2>1. Len(t) \in Nat /\ dom = 1..Len(t)
    OBVIOUS
  <2>2. \A u \in SUBSET (1..Len(t)) : u # {} => Max(u) \in 1..Len(t)
    BY <2>1, MaxIn
  <2> QED
    BY <2>1, <2>2
<1>4. << >> \in Seq(Chars)
  OBVIOUS
<1>5. PICK g : Runs(g, CommaBy, << >>, t, Seq(Chars))
  BY <1>2, <1>4, FoldRuns
<1>6. IsF(g)
  <2>1. \A u \in SUBSET dom : g[u] = D(g, u)
    BY <1>1, <1>3, <1>5 DEF Runs
  <2> HIDE DEF D
  <2> QED
    BY <1>5, <2>1 DEF Runs
<1>7. IsF(F)
  <2> HIDE DEF IsF
  <2> QED
    BY <1>6
<1>8. Bins!Joined(t) = F[dom]
  <2>1. \A u : Bins!Max(u) = Max(u)
    BY DEF Bins!Max, Max
  <2> QED
    BY <2>1 DEF Bins!Joined, Bins!FoldLeft, Bins!MapThenFoldSet
<1> HIDE DEF F
<1>9. \A u \in SUBSET dom : F[u] = D(F, u)
  BY <1>7
<1>10. Follows(F, CommaBy, << >>, t, Seq(Chars))
  <2>1. F[{}] = << >>
    BY <1>9
  <2>2. \A u \in SUBSET dom : u # {} /\ F[u \ {Max(u)}] \in Seq(Chars) =>
          F[u] = CommaBy[<<F[u \ {Max(u)}], t[Max(u)]>>]
    BY <1>1, <1>3, <1>9
  <2> QED
    BY <2>1, <2>2 DEF Follows
<1>11. IsFold(F[DOMAIN t], CommaBy, << >>, t)
  BY <1>2, <1>4, <1>10, FoldFrom
<1> QED
  BY <1>8, <1>11

(* Joining one text more. *)
LEMMA JoinMore ==
  ASSUME NEW t \in Seq(Seq(Chars))
  PROVE  /\ Bins!Joined(<< >>) = << >>
         /\ Bins!Joined(t) \in Seq(Chars)
         /\ \A c \in Seq(Chars) : Bins!Joined(Append(t, c)) = Bins!Comma(Bins!Joined(t), c)
<1>1. \A a \in Seq(Chars), c \in Seq(Chars) :
        CommaBy[<<a, c>>] = Bins!Comma(a, c)
  BY CommaIs DEF CommaBy
<1>2. CommaBy \in [Seq(Chars) \X Seq(Chars) -> Seq(Chars)]
  BY CommaIs DEF CommaBy
<1>3. << >> \in Seq(Chars)
  OBVIOUS
<1>4. \A u \in Seq(Seq(Chars)) : IsFold(Bins!Joined(u), CommaBy, << >>, u)
  BY JoinFolds
<1>5. Bins!Joined(t) \in Seq(Chars)
  BY <1>2, <1>3, <1>4, FoldIn
<1>6. Bins!Joined(<< >>) = << >>
  <2>1. << >> \in Seq(Seq(Chars))
    OBVIOUS
  <2> QED
    BY <1>4, <2>1, FoldOfNone
<1>7. ASSUME NEW c \in Seq(Chars) PROVE Bins!Joined(Append(t, c)) = Bins!Comma(Bins!Joined(t), c)
  <2>1. Append(t, c) \in Seq(Seq(Chars))
    OBVIOUS
  <2>2. Bins!Joined(Append(t, c)) = CommaBy[<<Bins!Joined(t), c>>]
    BY <1>4, <2>1, FoldOfMore
  <2> QED
    BY <1>1, <1>5, <2>2
<1> QED
  BY <1>5, <1>6, <1>7

(* What is UTF-8 is shown as it is. *)
LEMMA LossyIs ==
  ASSUME NEW v \in Seq(Octets)
  PROVE  Bins!Lossy(v) \in Seq(Chars) /\ (Bins!IsUtf8(v) => Bins!Lossy(v) = v)
<1> DEFINE l == Bins!Lossy(v)
           n == Len(v)
           Kept(i) == ~(\/ v[i] = Bins!FIRST /\ ~Bins!Fits(v, i + 1)
                        \/ v[i] = Bins!SECOND /\ ~Bins!Fits(v, i))
<1>1. n \in Nat /\ DOMAIN v = 1..n /\ v = [i \in 1..n |-> v[i]]
  OBVIOUS
<1>2. \A i \in 1..n : v[i] \in Chars
  <2>1. Octets \subseteq Chars
    BY DEF Chars
  <2>2. \A i \in 1..n : v[i] \in Octets
    OBVIOUS
  <2> QED
    BY <2>1, <2>2
<1>3. Bins!REPLACEMENT \in Chars
  BY DEF Chars
<1>4. l = [i \in 1..n |-> IF Kept(i) THEN v[i] ELSE Bins!REPLACEMENT]
  BY <1>1 DEF Bins!Lossy
<1> HIDE DEF l, n
<1>5. l \in Seq(Chars)
  <2>1. \A i \in 1..n : (IF Kept(i) THEN v[i] ELSE Bins!REPLACEMENT) \in Chars
    BY <1>2, <1>3
  <2> HIDE DEF Kept
  <2> QED
    BY <1>1, <1>4, <2>1
<1>6. ASSUME Bins!IsUtf8(v) PROVE l = v
  <2>1. \A i \in 1..(n + 1) : Bins!Fits(v, i)
    BY <1>6 DEF Bins!IsUtf8, n
  <2>2. \A i \in 1..n : i \in 1..(n + 1) /\ i + 1 \in 1..(n + 1)
    BY <1>1
  <2>3. \A i \in 1..n : Kept(i)
    BY <2>1, <2>2
  <2> HIDE DEF Kept
  <2> QED
    BY <1>1, <1>4, <2>3
<1> QED
  BY <1>5, <1>6 DEF l

LEMMA GroupIs ==
  ASSUME NEW g \in Seq(Groups), NEW h \in Headers
  PROVE  Bins!Group(g, h) \in Seq(Groups)
<1>1. h.name \in Seq(Octets) /\ h.value \in Seq(Octets)
  BY DEF Headers
<1>2. CASE \E i \in DOMAIN g : g[i].name = h.name
  <2> DEFINE k == [i \in DOMAIN g |-> IF g[i].name = h.name
                                      THEN [g[i] EXCEPT !.values = Append(@, Bins!Lossy(h.value))]
                                      ELSE g[i]]
  <2>1. \A i \in DOMAIN g : k[i] \in Groups
    <3> SUFFICES ASSUME NEW i \in DOMAIN g PROVE k[i] \in Groups
      OBVIOUS
    <3>1. g[i] \in Groups
      OBVIOUS
    <3>2. g[i].values \in Seq(Seq(Chars))
      BY <3>1 DEF Groups
    <3>3. Append(g[i].values, Bins!Lossy(h.value)) \in Seq(Seq(Chars))
      BY <1>1, <3>2, LossyIs
    <3> QED
      BY <3>1, <3>3 DEF Groups
  <2>2. DOMAIN g = 1..Len(g) /\ Len(g) \in Nat
    OBVIOUS
  <2>3. k \in Seq(Groups)
    BY <2>1, <2>2
  <2> QED
    BY <1>2, <2>3 DEF Bins!Group
<1>3. CASE ~\E i \in DOMAIN g : g[i].name = h.name
  <2>1. <<Bins!Lossy(h.value)>> \in Seq(Seq(Chars))
    BY <1>1, LossyIs
  <2>2. [name |-> h.name, values |-> <<Bins!Lossy(h.value)>>] \in Groups
    BY <1>1, <2>1 DEF Groups
  <2>3. Append(g, [name |-> h.name, values |-> <<Bins!Lossy(h.value)>>]) \in Seq(Groups)
    BY <2>2
  <2> QED
    BY <1>3, <2>3 DEF Bins!Group
<1> QED
  BY <1>2, <1>3

GroupBy == [p \in Seq(Groups) \X Headers |-> Bins!Group(p[1], p[2])]

(* Headers are grouped one after the other. *)
LEMMA GroupFolds ==
  ASSUME NEW t \in Seq(Headers)
  PROVE  IsFold(Bins!Grouped(t), GroupBy, << >>, t)
<1> DEFINE dom == DOMAIN t
           D(g, u) == IF u = {} THEN << >> ELSE Bins!Group(g[u \ {Max(u)}], t[Max(u)])
           IsF(g) == g = [u \in SUBSET dom |-> D(g, u)]
           F == CHOOSE g : IsF(g)
<1>1. \A a \in Seq(Groups), c \in Headers :
        GroupBy[<<a, c>>] = Bins!Group(a, c) /\ Bins!Group(a, c) \in Seq(Groups)
  BY GroupIs DEF GroupBy
<1>2. GroupBy \in [Seq(Groups) \X Headers -> Seq(Groups)]
  BY GroupIs DEF GroupBy
<1>3. \A u \in SUBSET dom : u # {} => Max(u) \in dom /\ t[Max(u)] \in Headers
  <2>1. Len(t) \in Nat /\ dom = 1..Len(t)
    OBVIOUS
  <2>2. \A u \in SUBSET (1..Len(t)) : u # {} => Max(u) \in 1..Len(t)
    BY <2>1, MaxIn
  <2> QED
    BY <2>1, <2>2
<1>4. << >> \in Seq(Groups)
  OBVIOUS
<1>5. PICK g : Runs(g, GroupBy, << >>, t, Seq(Groups))
  BY <1>2, <1>4, FoldRuns
<1>6. IsF(g)
  <2>1. \A u \in SUBSET dom : g[u] = D(g, u)
    BY <1>1, <1>3, <1>5 DEF Runs
  <2> HIDE DEF D
  <2> QED
    BY <1>5, <2>1 DEF Runs
<1>7. IsF(F)
  <2> HIDE DEF IsF
  <2> QED
    BY <1>6
<1>8. Bins!Grouped(t) = F[dom]
  <2>1. \A u : Bins!Max(u) = Max(u)
    BY DEF Bins!Max, Max
  <2> QED
    BY <2>1 DEF Bins!Grouped, Bins!FoldLeft, Bins!MapThenFoldSet
<1> HIDE DEF F
<1>9. \A u \in SUBSET dom : F[u] = D(F, u)
  BY <1>7
<1>10. Follows(F, GroupBy, << >>, t, Seq(Groups))
  <2>1. F[{}] = << >>
    BY <1>9
  <2>2. \A u \in SUBSET dom : u # {} /\ F[u \ {Max(u)}] \in Seq(Groups) =>
          F[u] = GroupBy[<<F[u \ {Max(u)}], t[Max(u)]>>]
    BY <1>1, <1>3, <1>9
  <2> QED
    BY <2>1, <2>2 DEF Follows
<1>11. IsFold(F[DOMAIN t], GroupBy, << >>, t)
  BY <1>2, <1>4, <1>10, FoldFrom
<1> QED
  BY <1>8, <1>11

(* Grouping one header more. *)
LEMMA GroupMore ==
  ASSUME NEW t \in Seq(Headers)
  PROVE  /\ Bins!Grouped(<< >>) = << >>
         /\ Bins!Grouped(t) \in Seq(Groups)
         /\ \A c \in Headers : Bins!Grouped(Append(t, c)) = Bins!Group(Bins!Grouped(t), c)
<1>1. \A a \in Seq(Groups), c \in Headers :
        GroupBy[<<a, c>>] = Bins!Group(a, c)
  BY GroupIs DEF GroupBy
<1>2. GroupBy \in [Seq(Groups) \X Headers -> Seq(Groups)]
  BY GroupIs DEF GroupBy
<1>3. << >> \in Seq(Groups)
  OBVIOUS
<1>4. \A u \in Seq(Headers) : IsFold(Bins!Grouped(u), GroupBy, << >>, u)
  BY GroupFolds
<1>5. Bins!Grouped(t) \in Seq(Groups)
  BY <1>2, <1>3, <1>4, FoldIn
<1>6. Bins!Grouped(<< >>) = << >>
  <2>1. << >> \in Seq(Headers)
    OBVIOUS
  <2> QED
    BY <1>4, <2>1, FoldOfNone
<1>7. ASSUME NEW c \in Headers PROVE Bins!Grouped(Append(t, c)) = Bins!Group(Bins!Grouped(t), c)
  <2>1. Append(t, c) \in Seq(Headers)
    OBVIOUS
  <2>2. Bins!Grouped(Append(t, c)) = GroupBy[<<Bins!Grouped(t), c>>]
    BY <1>4, <2>1, FoldOfMore
  <2> QED
    BY <1>1, <1>5, <2>2
<1> QED
  BY <1>5, <1>6, <1>7

Taking(name, values, h) == IF h.name = name THEN Append(values, h.value) ELSE values

LEMMA TakingIs ==
  ASSUME NEW name, NEW values \in Seq(Seq(Octets)), NEW h \in Headers
  PROVE  Taking(name, values, h) \in Seq(Seq(Octets))
<1>1. h.value \in Seq(Octets)
  BY DEF Headers
<1>2. Append(values, h.value) \in Seq(Seq(Octets))
  BY <1>1
<1> QED
  BY <1>2 DEF Taking

TakenBy(name) == [p \in Seq(Seq(Octets)) \X Headers |-> Taking(name, p[1], p[2])]

(* The values of a name are taken one after the other. *)
LEMMA ValuesFold ==
  ASSUME NEW name, NEW t \in Seq(Headers)
  PROVE  IsFold(Bins!Values(t, name), TakenBy(name), << >>, t)
<1> DEFINE dom == DOMAIN t
           D(g, u) == IF u = {} THEN << >> ELSE Taking(name, g[u \ {Max(u)}], t[Max(u)])
           IsF(g) == g = [u \in SUBSET dom |-> D(g, u)]
           F == CHOOSE g : IsF(g)
<1>1. \A a \in Seq(Seq(Octets)), c \in Headers :
        TakenBy(name)[<<a, c>>] = Taking(name, a, c) /\ Taking(name, a, c) \in Seq(Seq(Octets))
  BY TakingIs DEF TakenBy
<1>2. TakenBy(name) \in [Seq(Seq(Octets)) \X Headers -> Seq(Seq(Octets))]
  BY TakingIs DEF TakenBy
<1>3. \A u \in SUBSET dom : u # {} => Max(u) \in dom /\ t[Max(u)] \in Headers
  <2>1. Len(t) \in Nat /\ dom = 1..Len(t)
    OBVIOUS
  <2>2. \A u \in SUBSET (1..Len(t)) : u # {} => Max(u) \in 1..Len(t)
    BY <2>1, MaxIn
  <2> QED
    BY <2>1, <2>2
<1>4. << >> \in Seq(Seq(Octets))
  OBVIOUS
<1>5. PICK g : Runs(g, TakenBy(name), << >>, t, Seq(Seq(Octets)))
  BY <1>2, <1>4, FoldRuns
<1>6. IsF(g)
  <2>1. \A u \in SUBSET dom : g[u] = D(g, u)
    BY <1>1, <1>3, <1>5 DEF Runs
  <2> HIDE DEF D
  <2> QED
    BY <1>5, <2>1 DEF Runs
<1>7. IsF(F)
  <2> HIDE DEF IsF
  <2> QED
    BY <1>6
<1>8. Bins!Values(t, name) = F[dom]
  <2>1. \A u : Bins!Max(u) = Max(u)
    BY DEF Bins!Max, Max
  <2> QED
    BY <2>1 DEF Bins!Values, Bins!FoldLeft, Bins!MapThenFoldSet, Taking
<1> HIDE DEF F
<1>9. \A u \in SUBSET dom : F[u] = D(F, u)
  BY <1>7
<1>10. Follows(F, TakenBy(name), << >>, t, Seq(Seq(Octets)))
  <2>1. F[{}] = << >>
    BY <1>9
  <2>2. \A u \in SUBSET dom : u # {} /\ F[u \ {Max(u)}] \in Seq(Seq(Octets)) =>
          F[u] = TakenBy(name)[<<F[u \ {Max(u)}], t[Max(u)]>>]
    BY <1>1, <1>3, <1>9
  <2> QED
    BY <2>1, <2>2 DEF Follows
<1>11. IsFold(F[DOMAIN t], TakenBy(name), << >>, t)
  BY <1>2, <1>4, <1>10, FoldFrom
<1> QED
  BY <1>8, <1>11

(* The values of one header more. *)
LEMMA ValuesMore ==
  ASSUME NEW name, NEW t \in Seq(Headers)
  PROVE  /\ Bins!Values(<< >>, name) = << >>
         /\ Bins!Values(t, name) \in Seq(Seq(Octets))
         /\ \A c \in Headers : Bins!Values(Append(t, c), name) = Taking(name, Bins!Values(t, name), c)
<1>1. \A a \in Seq(Seq(Octets)), c \in Headers :
        TakenBy(name)[<<a, c>>] = Taking(name, a, c)
  BY TakingIs DEF TakenBy
<1>2. TakenBy(name) \in [Seq(Seq(Octets)) \X Headers -> Seq(Seq(Octets))]
  BY TakingIs DEF TakenBy
<1>3. << >> \in Seq(Seq(Octets))
  OBVIOUS
<1>4. \A u \in Seq(Headers) : IsFold(Bins!Values(u, name), TakenBy(name), << >>, u)
  BY ValuesFold
<1>5. Bins!Values(t, name) \in Seq(Seq(Octets))
  BY <1>2, <1>3, <1>4, FoldIn
<1>6. Bins!Values(<< >>, name) = << >>
  <2>1. << >> \in Seq(Headers)
    OBVIOUS
  <2> QED
    BY <1>4, <2>1, FoldOfNone
<1>7. ASSUME NEW c \in Headers PROVE Bins!Values(Append(t, c), name) = Taking(name, Bins!Values(t, name), c)
  <2>1. Append(t, c) \in Seq(Headers)
    OBVIOUS
  <2>2. Bins!Values(Append(t, c), name) = TakenBy(name)[<<Bins!Values(t, name), c>>]
    BY <1>4, <2>1, FoldOfMore
  <2> QED
    BY <1>1, <1>5, <2>2
<1> QED
  BY <1>5, <1>6, <1>7

LEMMA ScanOne ==
  ASSUME NEW s \in States, NEW c \in Chars
  PROVE  Scan(s, <<c>>) = Bins!Scanned(s, c)
<1>1. << >> \in Seq(Chars) /\ Append(<< >>, c) = <<c>>
  OBVIOUS
<1>2. Scan(s, << >>) = s /\ Scan(s, Append(<< >>, c)) = Bins!Scanned(Scan(s, << >>), c)
  BY <1>1, ScanMore
<1> QED
  BY <1>1, <1>2

LEMMA ConcatAppend ==
  ASSUME NEW S, NEW t \in Seq(S), NEW u \in Seq(S), NEW c \in S
  PROVE  /\ t \o u \in Seq(S)
         /\ t \o Append(u, c) = Append(t \o u, c)
         /\ t \o << >> = t
<1>1. t \o Append(u, c) = Append(t \o u, c)
  <2> DEFINE a == t \o Append(u, c)
             b == Append(t \o u, c)
  <2>1. /\ a \in Seq(S) /\ b \in Seq(S)
        /\ Len(a) = Len(t) + Len(u) + 1 /\ Len(b) = Len(t) + Len(u) + 1
    OBVIOUS
  <2>2. \A i \in 1..Len(t) + Len(u) + 1 : a[i] = b[i]
    OBVIOUS
  <2> HIDE DEF a, b
  <2>3. a = b
    BY <2>1, <2>2
  <2> QED
    BY <2>3 DEF a, b
<1> QED
  BY <1>1

LEMMA ScanConcat ==
  ASSUME NEW s \in States, NEW t \in Seq(Chars), NEW u \in Seq(Chars)
  PROVE  Scan(s, t \o u) = Scan(Scan(s, t), u)
<1> DEFINE P == {v \in Seq(Chars) : Scan(s, t \o v) = Scan(Scan(s, t), v)}
<1>0. Scan(s, t) \in States
  BY ScanMore
<1>1. << >> \in P
  <2>1. << >> \in Seq(Chars) /\ t \o << >> = t
    OBVIOUS
  <2>2. Scan(Scan(s, t), << >>) = Scan(s, t)
    BY <1>0, <2>1, ScanMore
  <2> QED
    BY <2>1, <2>2
<1>2. ASSUME NEW v \in P, NEW c \in Chars PROVE Append(v, c) \in P
  <2>1. v \in Seq(Chars) /\ Append(v, c) \in Seq(Chars) /\ Scan(s, t \o v) = Scan(Scan(s, t), v)
    OBVIOUS
  <2>2. t \o v \in Seq(Chars) /\ t \o Append(v, c) = Append(t \o v, c)
    BY <2>1, ConcatAppend
  <2>3. Scan(s, Append(t \o v, c)) = Bins!Scanned(Scan(s, t \o v), c)
    BY <2>2, ScanMore
  <2>4. Scan(Scan(s, t), Append(v, c)) = Bins!Scanned(Scan(Scan(s, t), v), c)
    BY <1>0, <2>1, ScanMore
  <2>5. Scan(s, t \o Append(v, c)) = Scan(Scan(s, t), Append(v, c))
    BY <2>1, <2>2, <2>3, <2>4
  <2> QED
    BY <2>1, <2>5
<1>3. P \in SUBSET Seq(Chars)
  OBVIOUS
<1> HIDE DEF P
<1>4. P = Seq(Chars)
  BY <1>1, <1>2, <1>3, EverySequence
<1> QED
  BY <1>4 DEF P

(* What scanning t makes of s, if t neither opens nor closes anything.     *)
With(s, t) ==
  [depth |-> s.depth, string |-> s.string, escaped |-> s.escaped, piece |-> s.piece \o t,
   pieces |-> s.pieces]

Inside(s) == s.depth >= 1 /\ ~s.string /\ ~s.escaped

(* Texts that may stand within a record. *)
Good == {t \in Seq(Chars) : \A s \in States : Inside(s) => Scan(s, t) = With(s, t)}

LEMMA ConcatAssoc ==
  ASSUME NEW S, NEW t \in Seq(S), NEW u \in Seq(S), NEW v \in Seq(S)
  PROVE  t \o u \in Seq(S) /\ (t \o u) \o v = t \o (u \o v)
<1> DEFINE a == (t \o u) \o v
           b == t \o (u \o v)
<1>1. t \o u \in Seq(S) /\ u \o v \in Seq(S)
  OBVIOUS
<1>2. /\ a \in Seq(S) /\ b \in Seq(S)
      /\ Len(a) = Len(t) + Len(u) + Len(v) /\ Len(b) = Len(t) + Len(u) + Len(v)
  BY <1>1
<1>3. \A i \in 1..Len(t) + Len(u) + Len(v) : a[i] = b[i]
  OBVIOUS
<1> HIDE DEF a, b
<1>4. a = b
  BY <1>2, <1>3
<1> QED
  BY <1>1, <1>4 DEF a, b

LEMMA WithIs ==
  ASSUME NEW s \in States, NEW t \in Seq(Chars)
  PROVE  /\ With(s, t) \in States /\ (Inside(s) => Inside(With(s, t)))
         /\ \A u \in Seq(Chars) : With(With(s, t), u) = With(s, t \o u)
<1>1. /\ s.depth \in Int /\ s.piece \in Seq(Chars) /\ s.pieces \in Seq(Seq(Chars))
      /\ s.string \in BOOLEAN /\ s.escaped \in BOOLEAN
  BY DEF States
<1>2. s.piece \o t \in Seq(Chars)
  BY <1>1
<1>3. With(s, t) \in States
  BY <1>1, <1>2 DEF With, States
<1>4. ASSUME NEW u \in Seq(Chars) PROVE With(With(s, t), u) = With(s, t \o u)
  <2>0. \A p \in Seq(Chars) : (p \o t) \o u = p \o (t \o u)
    BY ConcatAssoc
  <2>1. (s.piece \o t) \o u = s.piece \o (t \o u)
    BY <1>1, <2>0
  <2> QED
    BY <2>1 DEF With
<1> QED
  BY <1>3, <1>4 DEF Inside, With

LEMMA GoodNone == << >> \in Good
<1>1. << >> \in Seq(Chars)
  OBVIOUS
<1>2. ASSUME NEW s \in States, Inside(s) PROVE Scan(s, << >>) = With(s, << >>)
  <2>1. Scan(s, << >>) = s
    BY <1>1, ScanMore
  <2>2. s.piece \o << >> = s.piece
    BY DEF States
  <2>3. s = [depth |-> s.depth, string |-> s.string, escaped |-> s.escaped, piece |-> s.piece,
             pieces |-> s.pieces]
    BY DEF States
  <2> QED
    BY <2>1, <2>2, <2>3 DEF With
<1> QED
  BY <1>1, <1>2 DEF Good

LEMMA GoodConcat ==
  ASSUME NEW t \in Good, NEW u \in Good
  PROVE  t \o u \in Good
<1>1. t \in Seq(Chars) /\ u \in Seq(Chars)
  BY DEF Good
<1>2. t \o u \in Seq(Chars)
  BY <1>1
<1>3. ASSUME NEW s \in States, Inside(s) PROVE Scan(s, t \o u) = With(s, t \o u)
  <2>1. Scan(s, t) = With(s, t)
    BY <1>3 DEF Good
  <2>2. With(s, t) \in States /\ Inside(With(s, t))
    BY <1>1, <1>3, WithIs
  <2>3. Scan(With(s, t), u) = With(With(s, t), u)
    BY <2>2 DEF Good
  <2>4. Scan(s, t \o u) = Scan(Scan(s, t), u)
    BY <1>1, ScanConcat
  <2>5. With(With(s, t), u) = With(s, t \o u)
    BY <1>1, WithIs
  <2> QED
    BY <2>1, <2>3, <2>4, <2>5
<1> QED
  BY <1>2, <1>3 DEF Good

LEMMA AppendOne ==
  ASSUME NEW S, NEW t \in Seq(S), NEW c \in S
  PROVE  <<c>> \in Seq(S) /\ t \o <<c>> = Append(t, c)
<1>1. <<c>> \in Seq(S)
  OBVIOUS
<1> QED
  BY <1>1

(* Characters that mean nothing between strings within a record. *)
Plain == Chars \ {Bins!QUOTE, "{", "}"}

LEMMA GoodMark ==
  ASSUME NEW c \in Plain
  PROVE  <<c>> \in Good
<1>0. c \in Chars
  BY DEF Plain
<1>1. <<c>> \in Seq(Chars)
  BY <1>0
<1>2. ASSUME NEW s \in States, Inside(s) PROVE Scan(s, <<c>>) = With(s, <<c>>)
  <2>1. Scan(s, <<c>>) = Bins!Scanned(s, c)
    BY <1>0, ScanOne
  <2>2. s.piece \o <<c>> = Append(s.piece, c) /\ s.depth \in Int
    BY <1>0, AppendOne DEF States
  <2>3. s.depth + 0 = s.depth /\ s.depth # 0 /\ s.string = FALSE /\ s.escaped = FALSE
    <3>1. s.depth >= 1 /\ ~s.string /\ ~s.escaped
      BY <1>2 DEF Inside
    <3>2. s.string \in BOOLEAN /\ s.escaped \in BOOLEAN
      BY DEF States
    <3>3. s.depth + 0 = s.depth /\ s.depth # 0
      <4>1. s.depth \in Int /\ s.depth >= 1
        BY <2>2, <3>1
      <4> QED
        BY <4>1
    <3> QED
      BY <3>1, <3>2, <3>3
  <2>4. Bins!Scanned(s, c)
          = [depth |-> s.depth, string |-> FALSE, escaped |-> FALSE, piece |-> Append(s.piece, c),
             pieces |-> s.pieces]
    BY <2>3 DEF Bins!Scanned, Plain
  <2> QED
    BY <2>1, <2>2, <2>3, <2>4 DEF With
<1> QED
  BY <1>1, <1>2 DEF Good

LEMMA GoodJoined ==
  ASSUME NEW ts \in Seq(Good)
  PROVE  Bins!Joined(ts) \in Good
<1> DEFINE P == {t \in Seq(Good) : Bins!Joined(t) \in Good}
<1>0. Good \subseteq Seq(Chars) /\ Seq(Good) \subseteq Seq(Seq(Chars))
  <2>1. Good \subseteq Seq(Chars)
    BY DEF Good
  <2> HIDE DEF Good
  <2> QED
    BY <2>1
<1>1. << >> \in P
  <2>1. << >> \in Seq(Good) /\ << >> \in Seq(Seq(Chars))
    OBVIOUS
  <2>2. Bins!Joined(<< >>) = << >>
    BY <2>1, JoinMore
  <2> QED
    BY <2>1, <2>2, GoodNone
<1>2. ASSUME NEW t \in P, NEW x \in Good PROVE Append(t, x) \in P
  <2>1. t \in Seq(Good) /\ Append(t, x) \in Seq(Good) /\ Bins!Joined(t) \in Good
    OBVIOUS
  <2>2. Bins!Joined(Append(t, x)) = Bins!Comma(Bins!Joined(t), x)
    BY <1>0, <2>1, JoinMore
  <2>3. <<",">> \in Good
    <3>1. "," \in Chars /\ "," # Bins!QUOTE
      BY DEF Chars, Bins!QUOTE
    <3>2. "," \in Plain
      BY <3>1 DEF Plain
    <3> QED
      BY <3>2, GoodMark
  <2> DEFINE j == Bins!Joined(t)
  <2>4. j \o <<",">> \in Good
    BY <2>1, <2>3, GoodConcat
  <2>5. (j \o <<",">>) \o x \in Good
    BY <2>4, GoodConcat
  <2>6. Bins!Comma(j, x) \in Good
    BY <2>5 DEF Bins!Comma
  <2> QED
    BY <2>1, <2>2, <2>6
<1>3. P \in SUBSET Seq(Good)
  OBVIOUS
<1> HIDE DEF P
<1>4. P = Seq(Good)
  BY <1>1, <1>2, <1>3, EverySequence
<1> QED
  BY <1>4 DEF P

(* FlattenSeq puts one sequence after the other. *)
LEMMA FlatSteps ==
  ASSUME NEW S, NEW s \in Seq(Seq(S)), Len(s) # 0
  PROVE  \E f : /\ Bins!FlattenSeq(s) = f[Len(s)] /\ f[1] = s[1]
                /\ \A i \in 2..Len(s) : f[i] = f[i - 1] \o s[i]
<1> DEFINE D(g, i) == IF i = 1 THEN s[i] ELSE g[i - 1] \o s[i]
           IsF(g, n) == g = [i \in 1..n |-> D(g, i)]
           E == {n \in Nat : \E g : IsF(g, n)}
           f == CHOOSE g : IsF(g, Len(s))
<1>1. 0 \in E
  <2>1. IsF(<< >>, 0)
    OBVIOUS
  <2> QED
    BY <2>1
<1>2. ASSUME NEW n \in Nat, NEW g, IsF(g, n) PROVE \E h : IsF(h, n + 1)
  <2> DEFINE h == [i \in 1..n + 1 |-> IF i \in 1..n THEN g[i] ELSE D(g, n + 1)]
  <2>1. \A i \in 1..n : h[i] = g[i]
    OBVIOUS
  <2>2. \A i \in 1..n : D(g, i) = D(h, i)
    BY <2>1
  <2>3. D(g, n + 1) = D(h, n + 1)
    BY <2>1
  <2>4. \A i \in 1..n : g[i] = D(g, i)
    BY <1>2
  <2>5. \A i \in 1..n + 1 : h[i] = D(h, i)
    BY <2>1, <2>2, <2>3, <2>4
  <2>6. h = [i \in 1..n + 1 |-> h[i]]
    OBVIOUS
  <2> HIDE DEF h, D
  <2>7. h = [i \in 1..n + 1 |-> D(h, i)]
    BY <2>5, <2>6
  <2> QED
    BY <2>7
<1>3. E = Nat
  <2>1. \A n \in E : n + 1 \in E
    <3> HIDE DEF IsF
    <3> QED
      BY <1>2
  <2>2. E \in SUBSET Nat
    OBVIOUS
  <2> HIDE DEF E
  <2> QED
    BY <1>1, <2>1, <2>2, Inductive
<1>4. IsF(f, Len(s))
  <2> HIDE DEF IsF
  <2>1. \A n \in Nat : \E g : IsF(g, n)
    BY <1>3
  <2>2. Len(s) \in Nat
    OBVIOUS
  <2> QED
    BY <2>1, <2>2
<1>5. Bins!FlattenSeq(s) = f[Len(s)]
  BY DEF Bins!FlattenSeq
<1> HIDE DEF f
<1>6. \A i \in 1..Len(s) : f[i] = D(f, i)
  BY <1>4
<1>7. f[1] = s[1] /\ \A i \in 2..Len(s) : f[i] = f[i - 1] \o s[i]
  <2>1. Len(s) \in Nat /\ Len(s) > 0
    OBVIOUS
  <2>2. 1 \in 1..Len(s) /\ \A i \in 2..Len(s) : i \in 1..Len(s) /\ i # 1
    BY <2>1
  <2> QED
    BY <1>6, <2>2
<1> QED
  BY <1>5, <1>7

LEMMA FlatMore ==
  ASSUME NEW S, NEW s \in Seq(Seq(S)), NEW e \in Seq(S)
  PROVE  Bins!FlattenSeq(Append(s, e)) = Bins!FlattenSeq(s) \o e
<1> DEFINE n == Len(s)
           a == Append(s, e)
<1>1. /\ n \in Nat /\ a \in Seq(Seq(S)) /\ Len(a) = n + 1 /\ a[n + 1] = e
      /\ \A i \in 1..n : a[i] = s[i]
  BY OneMore
<1>2. PICK f : /\ Bins!FlattenSeq(a) = f[n + 1] /\ f[1] = a[1]
               /\ \A i \in 2..(n + 1) : f[i] = f[i - 1] \o a[i]
  <2>1. Len(a) # 0
    BY <1>1
  <2> HIDE DEF a, n
  <2>2. \E f : /\ Bins!FlattenSeq(a) = f[Len(a)] /\ f[1] = a[1]
              /\ \A i \in 2..Len(a) : f[i] = f[i - 1] \o a[i]
    BY <1>1, <2>1, FlatSteps
  <2> QED
    BY <1>1, <2>2
<1>3. CASE n = 0
  <2>1. s = << >> /\ Bins!FlattenSeq(s) = s
    BY <1>3 DEF Bins!FlattenSeq
  <2>2. << >> \o e = e
    OBVIOUS
  <2> HIDE DEF a
  <2> QED
    BY <1>1, <1>2, <1>3, <2>1, <2>2 DEF a
<1>4. CASE n # 0
  <2>1. PICK g : /\ Bins!FlattenSeq(s) = g[n] /\ g[1] = s[1]
                 /\ \A i \in 2..n : g[i] = g[i - 1] \o s[i]
    BY <1>4, FlatSteps
  <2> HIDE DEF a, n
  <2> DEFINE P == {k \in Nat : k + 1 <= n => f[k + 1] = g[k + 1]}
  <2>2. 0 \in P
    <3>1. 1 \in 1..n
      BY <1>1, <1>4
    <3> QED
      BY <1>1, <1>2, <2>1, <3>1
  <2>3. ASSUME NEW k \in P PROVE k + 1 \in P
    <3> SUFFICES ASSUME (k + 1) + 1 <= n PROVE f[(k + 1) + 1] = g[(k + 1) + 1]
      OBVIOUS
    <3>1. /\ f[k + 1] = g[k + 1] /\ (k + 1) + 1 \in 2..n /\ (k + 1) + 1 \in 2..(n + 1)
          /\ ((k + 1) + 1) - 1 = k + 1 /\ (k + 1) + 1 \in 1..n
      BY <1>1
    <3> HIDE DEF P
    <3> QED
      BY <1>1, <1>2, <2>1, <3>1
  <2> HIDE DEF P
  <2>4. P = Nat
    <3>1. P \in SUBSET Nat
      BY DEF P
    <3> QED
      BY <2>2, <2>3, <3>1, Inductive
  <2>5. f[n] = g[n]
    <3>1. n - 1 \in Nat /\ (n - 1) + 1 = n
      BY <1>1, <1>4
    <3> QED
      BY <2>4, <3>1 DEF P
  <2>6. n + 1 \in 2..(n + 1) /\ (n + 1) - 1 = n
    BY <1>1, <1>4
  <2>7. f[n + 1] = f[n] \o e
    BY <1>1, <1>2, <2>6
  <2> QED
    BY <1>2, <2>1, <2>5, <2>7 DEF a
<1> QED
  BY <1>3, <1>4

LEMMA EscapedIs ==
  ASSUME NEW c \in Chars
  PROVE  /\ Bins!Escaped(c) \in Seq(Chars)
         /\ \/ Bins!Escaped(c) = <<c>> /\ c # Bins!QUOTE /\ c # Bins!BACKSLASH
            \/ \E d \in Chars : Bins!Escaped(c) = <<Bins!BACKSLASH, d>>
<1>1. \A a, d \in Chars : <<a, d>> \in Seq(Chars) /\ <<a>> \in Seq(Chars)
  OBVIOUS
<1>2. Bins!BACKSLASH \in Chars /\ "u" \in Chars
  BY DEF Chars
<1>3. \/ Bins!Escaped(c) = <<c>> /\ c # Bins!QUOTE /\ c # Bins!BACKSLASH
      \/ Bins!Escaped(c) = <<Bins!BACKSLASH, c>>
      \/ Bins!Escaped(c) = <<Bins!BACKSLASH, "u">>
  BY DEF Bins!Escaped
<1>4. \/ Bins!Escaped(c) = <<c>> /\ c # Bins!QUOTE /\ c # Bins!BACKSLASH
      \/ \E d \in Chars : Bins!Escaped(c) = <<Bins!BACKSLASH, d>>
  BY Zenon, <1>2, <1>3
<1>5. Bins!Escaped(c) \in Seq(Chars)
  BY Zenon, <1>1, <1>2, <1>4
<1> QED
  BY <1>4, <1>5

LEMMA EscapeMore ==
  ASSUME NEW x \in Seq(Chars)
  PROVE  /\ Bins!json_escape(<< >>) = << >>
         /\ \A c \in Chars :
              Bins!json_escape(Append(x, c)) = Bins!json_escape(x) \o Bins!Escaped(c)
<1> DEFINE E(y) == [i \in DOMAIN y |-> Bins!Escaped(y[i])]
<1>1. \A y : Bins!json_escape(y) = Bins!FlattenSeq(E(y))
  BY DEF Bins!json_escape
<1>2. Bins!json_escape(<< >>) = << >>
  <2>1. E(<< >>) = << >>
    OBVIOUS
  <2>2. Bins!FlattenSeq(<< >>) = << >>
    BY DEF Bins!FlattenSeq
  <2> QED
    BY <1>1, <2>1, <2>2
<1>3. ASSUME NEW y \in Seq(Chars) PROVE E(y) \in Seq(Seq(Chars)) /\ Len(E(y)) = Len(y)
  <2>1. \A i \in DOMAIN y : y[i] \in Chars
    OBVIOUS
  <2>2. \A i \in DOMAIN y : Bins!Escaped(y[i]) \in Seq(Chars)
    BY <2>1, EscapedIs
  <2>3. DOMAIN y = 1..Len(y) /\ Len(y) \in Nat
    OBVIOUS
  <2> QED
    BY <2>2, <2>3
<1>4. ASSUME NEW c \in Chars
      PROVE  Bins!json_escape(Append(x, c)) = Bins!json_escape(x) \o Bins!Escaped(c)
  <2> DEFINE y == Append(x, c)
             n == Len(x)
             e == Bins!Escaped(c)
             b == Append(E(x), e)
  <2>1. /\ y \in Seq(Chars) /\ Len(y) = n + 1 /\ y[n + 1] = c /\ n \in Nat
        /\ \A i \in 1..n : y[i] = x[i]
    BY OneMore
  <2>2. e \in Seq(Chars)
    BY EscapedIs
  <2>3. /\ E(y) \in Seq(Seq(Chars)) /\ Len(E(y)) = n + 1
        /\ E(x) \in Seq(Seq(Chars)) /\ Len(E(x)) = n
    BY <1>3, <2>1
  <2>4. /\ b \in Seq(Seq(Chars)) /\ Len(b) = n + 1 /\ b[n + 1] = e
        /\ \A i \in 1..n : b[i] = E(x)[i]
    BY <2>2, <2>3, OneMore
  <2>5. \A i \in 1..n + 1 : E(y)[i] = Bins!Escaped(y[i])
    BY <2>1
  <2>6. \A i \in 1..n : E(x)[i] = Bins!Escaped(x[i])
    OBVIOUS
  <2>7. \A i \in 1..n + 1 : i = n + 1 \/ i \in 1..n
    BY <2>1
  <2> HIDE DEF E, y, n, b
  <2>8. \A i \in 1..n + 1 : E(y)[i] = b[i]
    BY <2>1, <2>4, <2>5, <2>6, <2>7
  <2>9. E(y) = b
    BY <2>3, <2>4, <2>8
  <2>10. Bins!FlattenSeq(b) = Bins!FlattenSeq(E(x)) \o e
    BY <2>2, <2>3, FlatMore DEF b
  <2> QED
    BY <1>1, <2>9, <2>10 DEF y
<1> QED
  BY <1>2, <1>4

LEMMA EscapeIs ==
  ASSUME NEW x \in Seq(Chars)
  PROVE  Bins!json_escape(x) \in Seq(Chars)
<1> DEFINE P == {y \in Seq(Chars) : Bins!json_escape(y) \in Seq(Chars)}
<1>1. << >> \in P
  <2>1. << >> \in Seq(Chars)
    OBVIOUS
  <2> QED
    BY <2>1, EscapeMore
<1>2. ASSUME NEW y \in P, NEW c \in Chars PROVE Append(y, c) \in P
  <2>1. y \in Seq(Chars) /\ Append(y, c) \in Seq(Chars) /\ Bins!json_escape(y) \in Seq(Chars)
    OBVIOUS
  <2>2. Bins!json_escape(Append(y, c)) = Bins!json_escape(y) \o Bins!Escaped(c)
    BY <2>1, EscapeMore
  <2>3. Bins!Escaped(c) \in Seq(Chars)
    BY EscapedIs
  <2>4. Bins!json_escape(y) \o Bins!Escaped(c) \in Seq(Chars)
    BY <2>1, <2>3
  <2>5. Bins!json_escape(Append(y, c)) \in Seq(Chars)
    BY <2>2, <2>4
  <2> QED
    BY <2>1, <2>5
<1>3. P \in SUBSET Seq(Chars)
  OBVIOUS
<1> HIDE DEF P
<1>4. P = Seq(Chars)
  BY <1>1, <1>2, <1>3, EverySequence
<1> QED
  BY <1>4 DEF P

(* Within a string, its end is the first quote that is not escaped.        *)
InString(s) == s.string = TRUE /\ s.escaped = FALSE

LEMMA ScanTwo ==
  ASSUME NEW s \in States, NEW c \in Chars, NEW d \in Chars
  PROVE  Scan(s, <<c, d>>) = Bins!Scanned(Bins!Scanned(s, c), d)
<1>1. <<c>> \in Seq(Chars) /\ Append(<<c>>, d) = <<c, d>>
  <2>1. <<c>> \in Seq(Chars)
    OBVIOUS
  <2>2. Append(<<c>>, d) = <<c, d>>
    <3> DEFINE a == Append(<<c>>, d)
    <3>1. a \in Seq(Chars) /\ Len(a) = 2 /\ a[1] = c /\ a[2] = d
      BY <2>1, OneMore
    <3>2. <<c, d>> \in Seq(Chars) /\ Len(<<c, d>>) = 2 /\ <<c, d>>[1] = c /\ <<c, d>>[2] = d
      OBVIOUS
    <3>3. \A i \in 1..2 : i = 1 \/ i = 2
      OBVIOUS
    <3> HIDE DEF a
    <3>4. \A i \in 1..2 : a[i] = <<c, d>>[i]
      BY <3>1, <3>2, <3>3
    <3>5. a = <<c, d>>
      BY <3>1, <3>2, <3>4
    <3> QED
      BY <3>5 DEF a
  <2> QED
    BY <2>1, <2>2
<1>2. Scan(s, Append(<<c>>, d)) = Bins!Scanned(Scan(s, <<c>>), d)
  BY <1>1, ScanMore
<1> QED
  BY <1>1, <1>2, ScanOne

LEMMA ScannedString ==
  ASSUME NEW s \in States, s.string = TRUE, NEW c \in Chars
  PROVE  Bins!Scanned(s, c)
           = [depth |-> s.depth, string |-> (s.escaped \/ c # Bins!QUOTE),
              escaped |-> (~s.escaped /\ c = Bins!BACKSLASH),
              piece |-> Append(s.piece, c), pieces |-> s.pieces]
<1> DEFINE x == (~s.escaped /\ c = Bins!BACKSLASH)
           y == (s.escaped \/ c # Bins!QUOTE)
           p == Append(s.piece, c)
           e == [s EXCEPT !.escaped = x, !.string = y, !.piece = p]
<1>1. Bins!Scanned(s, c) = e
  BY DEF Bins!Scanned
<1>2. x \in BOOLEAN /\ y \in BOOLEAN
  OBVIOUS
<1> HIDE DEF x, y, p
<1>3. /\ e.depth = s.depth /\ e.string = y /\ e.escaped = x /\ e.piece = p
      /\ e.pieces = s.pieces
  BY <1>2 DEF States
<1> HIDE DEF e
<1>4. e = [depth |-> e.depth, string |-> e.string, escaped |-> e.escaped, piece |-> e.piece,
           pieces |-> e.pieces]
  BY <1>1, ScannedIs DEF States
<1> QED
  BY <1>1, <1>3, <1>4 DEF x, y, p

LEMMA ScanEscaped ==
  ASSUME NEW s \in States, InString(s), NEW c \in Chars
  PROVE  Scan(s, Bins!Escaped(c)) = With(s, Bins!Escaped(c))
<1>1. s.piece \in Seq(Chars)
  BY DEF States
<1>2. CASE Bins!Escaped(c) = <<c>> /\ c # Bins!QUOTE /\ c # Bins!BACKSLASH
  <2>1. Scan(s, <<c>>) = Bins!Scanned(s, c)
    BY ScanOne
  <2>2. Bins!Scanned(s, c)
          = [depth |-> s.depth, string |-> TRUE, escaped |-> FALSE,
             piece |-> Append(s.piece, c), pieces |-> s.pieces]
    BY <1>2, ScannedString DEF InString
  <2>3. s.piece \o <<c>> = Append(s.piece, c)
    BY <1>1, AppendOne
  <2>5. s.string = TRUE /\ s.escaped = FALSE
    BY DEF InString
  <2> QED
    BY <1>2, <2>1, <2>2, <2>3, <2>5 DEF With
<1>3. ASSUME NEW d \in Chars, Bins!Escaped(c) = <<Bins!BACKSLASH, d>>
      PROVE  Scan(s, Bins!Escaped(c)) = With(s, Bins!Escaped(c))
  <2> DEFINE b == Bins!BACKSLASH
             m == [depth |-> s.depth, string |-> TRUE, escaped |-> TRUE,
                   piece |-> Append(s.piece, b), pieces |-> s.pieces]
  <2>1. b \in Chars /\ b # Bins!QUOTE
    BY DEF Chars, Bins!QUOTE, Bins!BACKSLASH
  <2>2. Scan(s, <<b, d>>) = Bins!Scanned(Bins!Scanned(s, b), d)
    BY <2>1, ScanTwo
  <2>3. Bins!Scanned(s, b) = m
    <3>1. s.string = TRUE /\ s.escaped = FALSE /\ b = Bins!BACKSLASH
      BY DEF InString
    <3> HIDE DEF b
    <3> QED
      BY <2>1, <3>1, ScannedString
  <2>4. Bins!Scanned(m, d)
          = [depth |-> s.depth, string |-> TRUE, escaped |-> FALSE,
             piece |-> Append(Append(s.piece, b), d), pieces |-> s.pieces]
    BY DEF Bins!Scanned
  <2> HIDE DEF b, m
  <2>5. Append(Append(s.piece, b), d) = s.piece \o <<b, d>>
    BY <1>1, <2>1
  <2>6. With(s, <<b, d>>)
          = [depth |-> s.depth, string |-> TRUE, escaped |-> FALSE,
             piece |-> s.piece \o <<b, d>>, pieces |-> s.pieces]
    BY DEF With, InString
  <2>7. Scan(s, <<b, d>>) = With(s, <<b, d>>)
    BY <2>2, <2>3, <2>4, <2>5, <2>6
  <2> QED
    BY <1>3, <2>7 DEF b
<1> QED
  BY <1>2, <1>3, EscapedIs

LEMMA ScanString ==
  ASSUME NEW s \in States, InString(s), NEW x \in Seq(Chars)
  PROVE  Scan(s, Bins!json_escape(x)) = With(s, Bins!json_escape(x))
<1> DEFINE P == {y \in Seq(Chars) : Scan(s, Bins!json_escape(y)) = With(s, Bins!json_escape(y))}
<1>1. << >> \in P
  <2>1. << >> \in Seq(Chars)
    OBVIOUS
  <2>2. Bins!json_escape(<< >>) = << >> /\ Scan(s, << >>) = s
    BY <2>1, EscapeMore, ScanMore
  <2>3. s.piece \o << >> = s.piece
    BY DEF States
  <2>4. s = [depth |-> s.depth, string |-> s.string, escaped |-> s.escaped, piece |-> s.piece,
             pieces |-> s.pieces]
    BY DEF States
  <2>5. With(s, << >>) = s
    BY <2>3, <2>4 DEF With
  <2> QED
    BY <2>1, <2>2, <2>5
<1>2. ASSUME NEW y \in P, NEW c \in Chars PROVE Append(y, c) \in P
  <2> DEFINE j == Bins!json_escape(y)
             e == Bins!Escaped(c)
  <2>1. y \in Seq(Chars) /\ Append(y, c) \in Seq(Chars) /\ Scan(s, j) = With(s, j)
    OBVIOUS
  <2>2. Bins!json_escape(Append(y, c)) = j \o e
    BY <2>1, EscapeMore
  <2>3. j \in Seq(Chars) /\ e \in Seq(Chars)
    BY <2>1, EscapeIs, EscapedIs
  <2> HIDE DEF j, e
  <2>4. Scan(s, j \o e) = Scan(With(s, j), e)
    BY <2>1, <2>3, ScanConcat
  <2>5. With(s, j) \in States /\ InString(With(s, j))
    BY <2>3, WithIs DEF With, InString
  <2>6. Scan(With(s, j), e) = With(With(s, j), e)
    BY <2>5, ScanEscaped DEF e
  <2>7. With(With(s, j), e) = With(s, j \o e)
    BY <2>3, WithIs
  <2>8. Scan(s, Bins!json_escape(Append(y, c))) = With(s, Bins!json_escape(Append(y, c)))
    BY <2>2, <2>4, <2>6, <2>7
  <2> QED
    BY <2>1, <2>8
<1>3. P \in SUBSET Seq(Chars)
  OBVIOUS
<1> HIDE DEF P
<1>4. P = Seq(Chars)
  BY <1>1, <1>2, <1>3, EverySequence
<1> QED
  BY <1>4 DEF P

LEMMA GoodQuoted ==
  ASSUME NEW x \in Seq(Chars)
  PROVE  Bins!q(x) \in Good
<1> DEFINE u == <<Bins!QUOTE>>
           j == Bins!json_escape(x)
<1>0. Bins!QUOTE \in Chars
  BY DEF Chars
<1>1. u \in Seq(Chars) /\ j \in Seq(Chars) /\ (u \o j) \in Seq(Chars) /\ (u \o j) \o u \in Seq(Chars)
  BY <1>0, EscapeIs
<1>2. Bins!q(x) = (u \o j) \o u
  BY DEF Bins!q
<1>4. \A r \in States, v, w \in Seq(Chars) : Scan(r, v \o w) = Scan(Scan(r, v), w)
  BY ScanConcat
<1>5. \A p, v, w \in Seq(Chars) : p \o v \in Seq(Chars) /\ (p \o v) \o w = p \o (v \o w)
  BY ConcatAssoc
<1>3. ASSUME NEW s \in States, Inside(s) PROVE Scan(s, (u \o j) \o u) = With(s, (u \o j) \o u)
  <2> DEFINE a == [depth |-> s.depth, string |-> TRUE, escaped |-> FALSE,
                   piece |-> s.piece \o u, pieces |-> s.pieces]
  <2>0. /\ s.depth \in Int /\ s.piece \in Seq(Chars) /\ s.pieces \in Seq(Seq(Chars))
        /\ s.string = FALSE /\ s.escaped = FALSE
    BY <1>3 DEF States, Inside
  <2>1. Bins!Scanned(s, Bins!QUOTE) = a
    <3>1. s.depth # 0 /\ s.depth + 0 = s.depth
      <4>1. s.depth \in Int /\ s.depth >= 1
        BY <1>3, <2>0 DEF Inside
      <4> QED
        BY <4>1
    <3>2. s.piece \o u = Append(s.piece, Bins!QUOTE)
      BY <1>0, <2>0, AppendOne
    <3>3. Bins!QUOTE # "{" /\ Bins!QUOTE # "}"
      BY DEF Bins!QUOTE
    <3>4. Bins!Scanned(s, Bins!QUOTE)
            = [depth |-> s.depth, string |-> TRUE, escaped |-> FALSE,
               piece |-> Append(s.piece, Bins!QUOTE), pieces |-> s.pieces]
      BY <2>0, <3>1, <3>3 DEF Bins!Scanned
    <3> QED
      BY <3>2, <3>4
  <2>2. a \in States /\ InString(a)
    <3>1. s.piece \o u \in Seq(Chars)
      BY <1>1, <2>0
    <3> HIDE DEF u
    <3> QED
      BY <2>0, <3>1 DEF States, InString
  <2>3. Scan(s, u) = a
    BY <1>0, <2>1, ScanOne
  <2>4. Scan(a, j) = With(a, j)
    BY <2>2, ScanString
  <2>5. Scan(s, u \o j) = With(a, j) /\ With(a, j) \in States
    <3> HIDE DEF u, j, a
    <3> QED
      BY <1>1, <2>2, <2>3, <2>4, ScanConcat, WithIs
  <2>6. Scan(s, (u \o j) \o u) = Scan(With(a, j), u)
    <3> HIDE DEF u, j, a
    <3>1. Scan(s, (u \o j) \o u) = Scan(Scan(s, u \o j), u)
      BY <1>1, <1>4
    <3> QED
      BY <2>5, <3>1
  <2>7. Scan(With(a, j), u) = Bins!Scanned(With(a, j), Bins!QUOTE)
    <3> HIDE DEF a, j
    <3> QED
      BY <1>0, <2>5, ScanOne
  <2>8. With(a, j) = [depth |-> s.depth, string |-> TRUE, escaped |-> FALSE,
                      piece |-> (s.piece \o u) \o j, pieces |-> s.pieces]
    BY DEF With
  <2>9. Bins!Scanned(With(a, j), Bins!QUOTE)
          = [depth |-> s.depth, string |-> FALSE, escaped |-> FALSE,
             piece |-> Append((s.piece \o u) \o j, Bins!QUOTE), pieces |-> s.pieces]
    <3>1. Bins!QUOTE # Bins!BACKSLASH
      BY DEF Bins!QUOTE, Bins!BACKSLASH
    <3> HIDE DEF u, j, a
    <3> DEFINE w == With(a, j)
    <3>2. w.string = TRUE /\ w.escaped = FALSE /\ w.piece = (s.piece \o u) \o j
      BY <2>8
    <3>3. w \in States
      BY <2>5
    <3> HIDE DEF w
    <3>4. Bins!Scanned(w, Bins!QUOTE)
            = [depth |-> w.depth, string |-> (w.escaped \/ Bins!QUOTE # Bins!QUOTE),
               escaped |-> (~w.escaped /\ Bins!QUOTE = Bins!BACKSLASH),
               piece |-> Append(w.piece, Bins!QUOTE), pieces |-> w.pieces]
      BY <1>0, <3>2, <3>3, ScannedString
    <3>5. w.depth = s.depth /\ w.pieces = s.pieces
      BY <2>8 DEF w
    <3> QED
      BY <3>1, <3>2, <3>4, <3>5 DEF w
  <2>10. Append((s.piece \o u) \o j, Bins!QUOTE) = s.piece \o ((u \o j) \o u)
    <3>1. \A p \in Seq(Chars) : Append(p, Bins!QUOTE) = p \o u
      BY <1>0, AppendOne
    <3> HIDE DEF u, j
    <3>0. s.piece \in Seq(Chars)
      BY <2>0
    <3>2. (s.piece \o u) \o j = s.piece \o (u \o j) /\ (s.piece \o u) \o j \in Seq(Chars)
      BY <1>1, <1>5, <3>0
    <3>3. (s.piece \o (u \o j)) \o u = s.piece \o ((u \o j) \o u)
      BY <1>1, <1>5, <3>0
    <3> QED
      BY <3>1, <3>2, <3>3
  <2> HIDE DEF u, j, a
  <2> QED
    BY <2>0, <2>6, <2>7, <2>9, <2>10 DEF With
<1> HIDE DEF u, j
<1> QED
  BY <1>1, <1>2, <1>3 DEF Good

LeftBrace == "{"
RightBrace == "}"
Braced(t) == (<<LeftBrace>> \o t) \o <<RightBrace>>

LEMMA BracesAre ==
  /\ LeftBrace \in Chars /\ RightBrace \in Chars
  /\ LeftBrace # Bins!QUOTE /\ RightBrace # Bins!QUOTE /\ LeftBrace # RightBrace
BY DEF LeftBrace, RightBrace, Chars, Bins!QUOTE

LEMMA BracedIs ==
  ASSUME NEW t \in Seq(Chars)
  PROVE  /\ <<LeftBrace>> \in Seq(Chars) /\ <<RightBrace>> \in Seq(Chars)
         /\ <<LeftBrace>> \o t \in Seq(Chars) /\ Braced(t) \in Seq(Chars) /\ Braced(t) # << >>
<1>1. <<LeftBrace>> \in Seq(Chars) /\ <<RightBrace>> \in Seq(Chars)
  BY BracesAre
<1> HIDE DEF LeftBrace, RightBrace
<1>2. <<LeftBrace>> \o t \in Seq(Chars)
  BY <1>1
<1>3. Braced(t) \in Seq(Chars) /\ Len(Braced(t)) = Len(<<LeftBrace>> \o t) + 1
  BY <1>1, <1>2 DEF Braced
<1>4. Len(<<LeftBrace>> \o t) \in Nat
  BY <1>2
<1>5. Braced(t) # << >>
  BY <1>3, <1>4
<1> QED
  BY <1>1, <1>2, <1>3, <1>5

(* A brace between strings opens or closes. *)
LEMMA Opens ==
  ASSUME NEW s \in States, s.string = FALSE
  PROVE  Bins!Scanned(s, LeftBrace)
           = [depth |-> s.depth + 1, string |-> FALSE, escaped |-> FALSE,
              piece |-> Append(s.piece, LeftBrace), pieces |-> s.pieces]
BY BracesAre DEF Bins!Scanned, LeftBrace

LEMMA Closes ==
  ASSUME NEW s \in States, s.string = FALSE, s.depth # 0
  PROVE  Bins!Scanned(s, RightBrace)
           = [depth |-> s.depth - 1, string |-> FALSE, escaped |-> FALSE,
              piece |-> Append(s.piece, RightBrace),
              pieces |-> IF s.depth = 1 THEN Append(s.pieces, Append(s.piece, RightBrace)) ELSE s.pieces]
<1>1. s.depth \in Int
  BY DEF States
<1>2. s.depth + -1 = s.depth - 1
  BY <1>1
<1>3. RightBrace # Bins!QUOTE /\ RightBrace = "}" /\ "}" # "{"
  BY BracesAre DEF RightBrace
<1> QED
  BY <1>2, <1>3 DEF Bins!Scanned

LEMMA ScanBraced ==
  ASSUME NEW s \in States, s.string = FALSE, s.depth >= 0, NEW t \in Good
  PROVE  Scan(s, Braced(t))
           = [depth |-> s.depth, string |-> FALSE, escaped |-> FALSE, piece |-> s.piece \o Braced(t),
              pieces |-> IF s.depth = 0 THEN Append(s.pieces, s.piece \o Braced(t)) ELSE s.pieces]
<1> DEFINE u == <<LeftBrace>>
           v == <<RightBrace>>
           a == [depth |-> s.depth + 1, string |-> FALSE, escaped |-> FALSE,
                 piece |-> Append(s.piece, LeftBrace), pieces |-> s.pieces]
           w == With(a, t)
<1>0. s.depth \in Int /\ s.piece \in Seq(Chars) /\ s.pieces \in Seq(Seq(Chars))
  BY DEF States
<1>1. t \in Seq(Chars) /\ u \in Seq(Chars) /\ v \in Seq(Chars) /\ u \o t \in Seq(Chars)
  <2>1. t \in Seq(Chars)
    BY DEF Good
  <2> QED
    BY <2>1, BracedIs
<1>2. LeftBrace \in Chars /\ RightBrace \in Chars
  BY BracesAre
<1>3. Scan(s, u) = a
  BY <1>2, ScanOne, Opens
<1>4. a \in States /\ Inside(a)
  <2>1. Append(s.piece, LeftBrace) \in Seq(Chars)
    BY <1>0, <1>2
  <2>2. s.depth + 1 \in Int /\ s.depth + 1 >= 1
    BY <1>0
  <2>3. a \in States
    BY <1>0, <2>1, <2>2 DEF States
  <2> QED
    BY <2>2, <2>3 DEF Inside
<1> HIDE DEF a
<1>5. Scan(a, t) = w /\ w \in States
  BY <1>1, <1>4, WithIs DEF Good
<1>6. w = [depth |-> s.depth + 1, string |-> FALSE, escaped |-> FALSE,
           piece |-> Append(s.piece, LeftBrace) \o t, pieces |-> s.pieces]
  BY DEF With, a
<1> HIDE DEF w
<1>7. /\ w.depth = s.depth + 1 /\ w.string = FALSE /\ w.pieces = s.pieces
      /\ w.piece = Append(s.piece, LeftBrace) \o t
  BY <1>6
<1>8. w.depth # 0 /\ w.depth - 1 = s.depth /\ (w.depth = 1 <=> s.depth = 0)
  <2>1. s.depth \in Int /\ s.depth >= 0 /\ w.depth = s.depth + 1
    BY <1>0, <1>7
  <2> QED
    BY <2>1
<1>9. Bins!Scanned(w, RightBrace)
        = [depth |-> w.depth - 1, string |-> FALSE, escaped |-> FALSE,
           piece |-> Append(w.piece, RightBrace),
           pieces |-> IF w.depth = 1 THEN Append(w.pieces, Append(w.piece, RightBrace)) ELSE w.pieces]
  <2>1. w.string = FALSE /\ w.depth # 0
    BY <1>7, <1>8
  <2> QED
    BY <1>5, <2>1, Closes
<1>10. Append(w.piece, RightBrace) = s.piece \o Braced(t)
  <2>1. \A p, q, r \in Seq(Chars) : p \o q \in Seq(Chars) /\ (p \o q) \o r = p \o (q \o r)
    BY ConcatAssoc
  <2>2. \A p \in Seq(Chars) : Append(p, LeftBrace) = p \o u /\ Append(p, RightBrace) = p \o v
    BY <1>2, AppendOne
  <2> HIDE DEF u, v
  <2>3. w.piece = (s.piece \o u) \o t
    BY <1>0, <1>7, <2>2
  <2>4. (s.piece \o u) \o t = s.piece \o (u \o t) /\ s.piece \o (u \o t) \in Seq(Chars)
    BY <1>0, <1>1, <2>1
  <2>5. (s.piece \o (u \o t)) \o v = s.piece \o ((u \o t) \o v)
    BY <1>0, <1>1, <2>1
  <2>6. Append(s.piece \o (u \o t), RightBrace) = (s.piece \o (u \o t)) \o v
    BY <2>2, <2>4
  <2> QED
    BY <2>3, <2>4, <2>5, <2>6 DEF Braced, u, v
<1>11. Scan(s, Braced(t)) = Bins!Scanned(w, RightBrace)
  <2> HIDE DEF u, v
  <2>1. Scan(s, u \o t) = w
    BY <1>1, <1>3, <1>5, ScanConcat
  <2>2. Scan(s, (u \o t) \o v) = Scan(Scan(s, u \o t), v)
    BY <1>1, ScanConcat
  <2>3. Scan(w, v) = Bins!Scanned(w, RightBrace)
    BY <1>2, <1>5, ScanOne DEF v
  <2> QED
    BY <2>1, <2>2, <2>3 DEF Braced, u, v
<1> QED
  BY <1>7, <1>8, <1>9, <1>10, <1>11

LEMMA GoodBraced ==
  ASSUME NEW t \in Good
  PROVE  Braced(t) \in Good
<1>1. t \in Seq(Chars)
  BY DEF Good
<1>2. ASSUME NEW s \in States, Inside(s) PROVE Scan(s, Braced(t)) = With(s, Braced(t))
  <2>1. s.string = FALSE /\ s.escaped = FALSE
    BY <1>2 DEF Inside, States
  <2>2. s.depth >= 0 /\ s.depth # 0
    <3>1. s.depth \in Int /\ s.depth >= 1
      BY <1>2 DEF Inside, States
    <3> QED
      BY <3>1
  <2>3. Scan(s, Braced(t))
           = [depth |-> s.depth, string |-> FALSE, escaped |-> FALSE, piece |-> s.piece \o Braced(t),
              pieces |-> IF s.depth = 0 THEN Append(s.pieces, s.piece \o Braced(t)) ELSE s.pieces]
    BY <2>1, <2>2, ScanBraced
  <2> QED
    BY <2>1, <2>2, <2>3 DEF With
<1> QED
  BY <1>1, <1>2, BracedIs DEF Good

LEMMA GoodHeader ==
  ASSUME NEW g \in Groups
  PROVE  Bins!header_json(g) \in Good
<1> DEFINE vs == [i \in DOMAIN g.values |-> Bins!q(g.values[i])]
<1>1. g.name \in Seq(Octets) /\ g.values \in Seq(Seq(Chars))
  BY DEF Groups
<1>2. g.name \in Seq(Chars) /\ g.values \in Seq(Seq(Chars))
  <2>1. Octets \subseteq Chars
    BY DEF Chars
  <2>2. \A S, T : S \subseteq T => Seq(S) \subseteq Seq(T)
    OBVIOUS
  <2>3. Seq(Octets) \subseteq Seq(Chars)
    BY <2>1, <2>2
  <2> QED
    BY <1>1, <2>3
<1>3. vs \in Seq(Good)
  <2>1. /\ DOMAIN g.values = 1..Len(g.values) /\ Len(g.values) \in Nat
        /\ \A i \in 1..Len(g.values) : g.values[i] \in Seq(Chars)
    BY <1>2
  <2>2. \A i \in 1..Len(g.values) : Bins!q(g.values[i]) \in Good
    BY <2>1, GoodQuoted
  <2> QED
    BY <2>1, <2>2
<1>4. <<":">> \in Good
  <2>1. ":" \in Chars /\ ":" # Bins!QUOTE /\ ":" # "{" /\ ":" # "}"
    BY DEF Chars, Bins!QUOTE
  <2>2. ":" \in Plain
    BY <2>1 DEF Plain
  <2> QED
    BY <2>2, GoodMark
<1>5. Bins!q(g.name) \o <<":">> \in Good
  BY <1>2, <1>4, GoodQuoted, GoodConcat
<1>6. (Bins!q(g.name) \o <<":">>) \o Bins!Joined(vs) \in Good
  BY <1>3, <1>5, GoodJoined, GoodConcat
<1> QED
  BY <1>6 DEF Bins!header_json

(* The texts of records: what is between two braces may stand in a record.  *)
Whole == {Braced(t) : t \in Good}

LEMMA RecordIsWhole ==
  ASSUME NEW r, r.headers \in Seq(Groups), r.body \in Seq(Chars)
  PROVE  Bins!record_json(r) \in Whole
<1> DEFINE hs == [i \in DOMAIN r.headers |-> Bins!header_json(r.headers[i])]
           j == Bins!Joined(hs)
           b == Bins!q(r.body)
<1>1. hs \in Seq(Good)
  <2>1. /\ DOMAIN r.headers = 1..Len(r.headers) /\ Len(r.headers) \in Nat
        /\ \A i \in 1..Len(r.headers) : r.headers[i] \in Groups
    OBVIOUS
  <2>2. \A i \in 1..Len(r.headers) : Bins!header_json(r.headers[i]) \in Good
    BY <2>1, GoodHeader
  <2> QED
    BY <2>1, <2>2
<1>2. j \in Good /\ b \in Good /\ Braced(j) \in Good
  BY <1>1, GoodJoined, GoodQuoted, GoodBraced
<1>3. Braced(j) \o b \in Good
  BY <1>2, GoodConcat
<1>4. Bins!record_json(r) = Braced(Braced(j) \o b)
  <2> DEFINE u == <<LeftBrace>>
             v == <<RightBrace>>
  <2>1. Bins!record_json(r) = ((((u \o u) \o j) \o v) \o b) \o v
    BY DEF Bins!record_json, LeftBrace, RightBrace
  <2>2. /\ u \in Seq(Chars) /\ v \in Seq(Chars) /\ j \in Seq(Chars) /\ b \in Seq(Chars)
        /\ u \o j \in Seq(Chars) /\ (u \o j) \o v \in Seq(Chars)
    <3>1. j \in Seq(Chars) /\ b \in Seq(Chars)
      BY <1>2 DEF Good
    <3> QED
      BY <3>1, BracedIs DEF Braced
  <2>3. \A p, q, t \in Seq(Chars) : p \o q \in Seq(Chars) /\ (p \o q) \o t = p \o (q \o t)
    BY ConcatAssoc
  <2> HIDE DEF u, v, j, b
  <2>4. (u \o u) \o j = u \o (u \o j)
    BY <2>2, <2>3
  <2> DEFINE y == u \o j
             z == y \o v
             w == z \o b
  <2>5. y \in Seq(Chars) /\ z \in Seq(Chars) /\ w \in Seq(Chars)
    BY <2>2, <2>3
  <2> HIDE DEF y
  <2>6. (u \o y) \o v = u \o z
    BY <2>2, <2>3, <2>5
  <2> HIDE DEF z
  <2>7. (u \o z) \o b = u \o w
    <3>1. u \in Seq(Chars) /\ z \in Seq(Chars) /\ b \in Seq(Chars)
      BY <2>2, <2>5
    <3>2. (u \o z) \o b = u \o (z \o b)
      BY <2>3, <3>1
    <3> QED
      BY <3>2
  <2> HIDE DEF w
  <2>8. Bins!record_json(r) = (u \o w) \o v
    BY <2>1, <2>4, <2>6, <2>7 DEF y
  <2> QED
    BY <2>8 DEF Braced, u, v, w, z, y
<1> HIDE DEF j, b
<1> QED
  BY <1>3, <1>4 DEF Whole

LEMMA WholeIs ==
  /\ Whole \subseteq Seq(Chars)
  /\ \A x \in Whole : x # << >>
  /\ Seq(Whole) \subseteq Seq(Seq(Chars))
<1>1. \A t \in Good : Braced(t) \in Seq(Chars) /\ Braced(t) # << >>
  BY BracedIs DEF Good
<1>2. \A x \in Whole : x \in Seq(Chars) /\ x # << >>
  BY <1>1 DEF Whole
<1> HIDE DEF Whole
<1> QED
  BY <1>2

LEMMA BeforeIs ==
  /\ Bins!Before \in States /\ Bins!Before.depth = 0 /\ Bins!Before.string = FALSE
  /\ Bins!Before.piece = << >> /\ Bins!Before.pieces = << >>
<1>1. << >> \in Seq(Chars) /\ << >> \in Seq(Seq(Chars))
  OBVIOUS
<1> QED
  BY <1>1 DEF Bins!Before, States

(* A record after others is one piece more. *)
LEMMA ScanRecord ==
  ASSUME NEW s \in States, s.string = FALSE, s.depth = 0, s.piece = << >>, NEW x \in Whole
  PROVE  /\ Scan(s, x) \in States
         /\ Scan(s, x).string = FALSE /\ Scan(s, x).depth = 0
         /\ Scan(s, x).pieces = Append(s.pieces, x)
<1>1. PICK t \in Good : x = Braced(t)
  BY DEF Whole
<1>2. x \in Seq(Chars)
  BY WholeIs
<1>3. << >> \o x = x
  BY <1>2
<1>4. s.depth >= 0
  OBVIOUS
<1>5. Scan(s, x)
        = [depth |-> s.depth, string |-> FALSE, escaped |-> FALSE, piece |-> s.piece \o x,
           pieces |-> IF s.depth = 0 THEN Append(s.pieces, s.piece \o x) ELSE s.pieces]
  BY <1>1, <1>4, ScanBraced
<1>6. Scan(s, x) \in States
  BY <1>2, ScanMore
<1> QED
  BY <1>3, <1>5, <1>6

LEMMA ScanComma ==
  ASSUME NEW s \in States, s.string = FALSE, s.depth = 0
  PROVE  LET r == Scan(s, <<",">>)
         IN  r \in States /\ r.string = FALSE /\ r.depth = 0 /\ r.piece = << >> /\ r.pieces = s.pieces
<1>1. "," \in Chars /\ "," # Bins!QUOTE /\ "," # "{" /\ "," # "}"
  BY DEF Chars, Bins!QUOTE
<1>2. Bins!Scanned(s, ",")
        = [depth |-> s.depth + 0, string |-> FALSE, escaped |-> FALSE, piece |-> << >>,
           pieces |-> s.pieces]
  BY <1>1 DEF Bins!Scanned
<1>3. Scan(s, <<",">>) = Bins!Scanned(s, ",")
  BY <1>1, ScanOne
<1>4. Bins!Scanned(s, ",") \in States
  BY <1>1, ScannedIs
<1>5. s.depth + 0 = 0
  OBVIOUS
<1> DEFINE r == Scan(s, <<",">>)
<1>6. r = [depth |-> 0, string |-> FALSE, escaped |-> FALSE, piece |-> << >>, pieces |-> s.pieces]
  BY <1>2, <1>3, <1>5
<1>7. r \in States
  BY <1>3, <1>4
<1> HIDE DEF r
<1>8. r.string = FALSE
  BY <1>6
<1>9. r.depth = 0 /\ r.piece = << >> /\ r.pieces = s.pieces
  BY <1>6
<1> QED
  BY <1>7, <1>8, <1>9 DEF r

LEMMA ScanJoined ==
  ASSUME NEW rs \in Seq(Whole)
  PROVE  /\ Bins!Joined(rs) \in Seq(Chars)
         /\ Scan(Bins!Before, Bins!Joined(rs)).pieces = rs
<1> DEFINE st(q) == Scan(Bins!Before, Bins!Joined(q))
           Cut(q) == /\ Bins!Joined(q) \in Seq(Chars)
                     /\ Bins!Joined(q) = << >> => q = << >>
                     /\ st(q) \in States /\ st(q).string = FALSE /\ st(q).depth = 0
                     /\ st(q).pieces = q
           P == {q \in Seq(Whole) : Cut(q)}
<1>1. << >> \in P
  <2>1. << >> \in Seq(Whole) /\ << >> \in Seq(Seq(Chars)) /\ << >> \in Seq(Chars)
    OBVIOUS
  <2>2. Bins!Joined(<< >>) = << >>
    BY <2>1, JoinMore
  <2>3. st(<< >>) = Bins!Before
    BY <2>1, <2>2, BeforeIs, ScanMore
  <2>4. Cut(<< >>)
    BY <2>1, <2>2, <2>3, BeforeIs
  <2> HIDE DEF Cut
  <2> QED
    BY <2>1, <2>4
<1>2. ASSUME NEW q \in P, NEW x \in Whole PROVE Append(q, x) \in P
  <2> DEFINE j == Bins!Joined(q)
             a == Append(q, x)
  <2>1. q \in Seq(Whole) /\ Cut(q) /\ a \in Seq(Whole)
    <3> HIDE DEF Cut
    <3> QED
      OBVIOUS
  <2>2. x \in Seq(Chars) /\ x # << >> /\ q \in Seq(Seq(Chars))
    BY <2>1, WholeIs
  <2>3. Bins!Joined(a) = Bins!Comma(j, x)
    BY <2>2, JoinMore
  <2>4. CASE j = << >>
    <3>1. q = << >> /\ Bins!Joined(a) = x
      BY <2>1, <2>3, <2>4 DEF Bins!Comma
    <3>2. a = Append(Bins!Before.pieces, x)
      BY <3>1, BeforeIs
    <3>3. /\ Scan(Bins!Before, x) \in States /\ Scan(Bins!Before, x).string = FALSE
          /\ Scan(Bins!Before, x).depth = 0 /\ Scan(Bins!Before, x).pieces = a
      BY <3>2, BeforeIs, ScanRecord
    <3>4. Cut(a)
      BY <2>2, <3>1, <3>3
    <3> HIDE DEF Cut
    <3> QED
      BY <2>1, <3>4
  <2>5. CASE j # << >>
    <3> DEFINE c == <<",">>
               b == Scan(st(q), c)
    <3>1. c \in Seq(Chars)
      <4>1. "," \in Chars
        BY DEF Chars
      <4> QED
        BY <4>1, AppendOne
    <3>2. j \in Seq(Chars) /\ st(q) \in States /\ st(q).string = FALSE /\ st(q).depth = 0
          /\ st(q).pieces = q
      BY <2>1
    <3>3. b \in States /\ b.string = FALSE /\ b.depth = 0 /\ b.piece = << >> /\ b.pieces = q
      BY <3>2, ScanComma
    <3>4. /\ Scan(b, x) \in States /\ Scan(b, x).string = FALSE /\ Scan(b, x).depth = 0
          /\ Scan(b, x).pieces = a
      <4> HIDE DEF b
      <4> QED
        BY <3>3, ScanRecord
    <3>5. Bins!Joined(a) = (j \o c) \o x
      BY <2>3, <2>5 DEF Bins!Comma
    <3> HIDE DEF c, j
    <3>6. j \o c \in Seq(Chars) /\ (j \o c) \o x \in Seq(Chars) /\ (j \o c) \o x # << >>
      <4>1. j \o c \in Seq(Chars)
        BY <3>1, <3>2
      <4>2. Len((j \o c) \o x) = Len(j \o c) + Len(x) /\ Len(x) # 0 /\ Len(x) \in Nat
            /\ Len(j \o c) \in Nat
        BY <2>2, <4>1
      <4>3. Len((j \o c) \o x) # 0
        BY <4>2
      <4> QED
        BY <2>2, <4>1, <4>3
    <3>7. \A v, w \in Seq(Chars) :
            Scan(Bins!Before, v \o w) = Scan(Scan(Bins!Before, v), w)
      BY BeforeIs, ScanConcat
    <3>8. Scan(Bins!Before, j \o c) = b
      BY <3>1, <3>2, <3>7 DEF j
    <3>9. Scan(Bins!Before, (j \o c) \o x) = Scan(b, x)
      <4>1. Scan(Bins!Before, (j \o c) \o x) = Scan(Scan(Bins!Before, j \o c), x)
        BY <2>2, <3>6, <3>7
      <4> QED
        BY <3>8, <4>1
    <3>10. Cut(a)
      BY <3>4, <3>5, <3>6, <3>9
    <3> HIDE DEF Cut
    <3> QED
      BY <2>1, <3>10
  <2> QED
    BY <2>4, <2>5
<1>3. P \in SUBSET Seq(Whole)
  OBVIOUS
<1> HIDE DEF P, Cut
<1>4. P = Seq(Whole)
  BY <1>1, <1>2, <1>3, EverySequence
<1>5. Cut(rs)
  BY <1>4 DEF P
<1> QED
  BY <1>5 DEF Cut

(* The text of a bin. *)
Shown(rs) == (<<"[">> \o Bins!Joined(rs)) \o <<"]">>

LEMMA BetweenBrackets ==
  ASSUME NEW S, NEW a \in S, NEW b \in S, NEW t \in Seq(S)
  PROVE  LET s == (<<a>> \o t) \o <<b>> IN s # << >> /\ SubSeq(s, 2, Len(s) - 1) = t
<1> DEFINE s == (<<a>> \o t) \o <<b>>
           n == Len(t)
           m == SubSeq(s, 2, Len(s) - 1)
<1>1. n \in Nat /\ s \in Seq(S) /\ Len(s) = n + 2 /\ \A i \in 1..n : s[i + 1] = t[i]
  OBVIOUS
<1>2. s # << >>
  BY <1>1
<1> HIDE DEF s, n
<1>3. Len(s) - 1 = n + 1 /\ m \in Seq(S) /\ Len(m) = n
  <2>1. Len(s) - 1 = n + 1
    BY <1>1
  <2> QED
    BY <1>1, <2>1
<1>4. \A i \in 1..n : m[i] = t[i]
  <2>1. \A i \in 1..n : m[i] = s[i + 1]
    BY <1>1, <1>3
  <2> QED
    BY <1>1, <2>1
<1> HIDE DEF m
<1>5. m = t
  BY <1>1, <1>3, <1>4 DEF n
<1> QED
  BY <1>2, <1>5 DEF s, m

LEMMA SplitIs ==
  ASSUME NEW rs \in Seq(Whole)
  PROVE  Bins!split_objects(Bins!Inner(Shown(rs))) = rs
<1>1. Bins!Joined(rs) \in Seq(Chars)
  BY ScanJoined
<1>2. "[" \in Chars /\ "]" \in Chars
  BY DEF Chars
<1>3. Bins!Inner(Shown(rs)) = Bins!Joined(rs)
  <2> DEFINE j == Bins!Joined(rs)
  <2>1. \A a, b \in Chars : (<<a>> \o j) \o <<b>> # << >>
          /\ SubSeq((<<a>> \o j) \o <<b>>, 2, Len((<<a>> \o j) \o <<b>>) - 1) = j
    BY <1>1, BetweenBrackets
  <2> HIDE DEF j
  <2>2. Shown(rs) # << >> /\ SubSeq(Shown(rs), 2, Len(Shown(rs)) - 1) = j
    BY <1>2, <2>1 DEF Shown, j
  <2> QED
    BY <2>2 DEF Bins!Inner, j
<1>4. Bins!split_objects(Bins!Joined(rs)) = Scan(Bins!Before, Bins!Joined(rs)).pieces
  BY DEF Bins!split_objects, Scan
<1> QED
  BY <1>3, <1>4, ScanJoined

(* Groups that tell the headers: each name once, all its values, and no other. *)
Distinct(g) == \A i, j \in DOMAIN g : g[i].name = g[j].name => i = j
Lossies(vs) == [k \in DOMAIN vs |-> Bins!Lossy(vs[k])]
Gathered(g, hs) == \A i \in DOMAIN g : g[i].values = Lossies(Bins!Values(hs, g[i].name))
Told(g, hs) == \A i \in DOMAIN hs : \E k \in DOMAIN g : g[k].name = hs[i].name
Untold(g, hs) ==
  \A name \in Seq(Octets) : (\A k \in DOMAIN g : g[k].name # name) => Bins!Values(hs, name) = << >>
Tells(g, hs) == g \in Seq(Groups) /\ Distinct(g) /\ Gathered(g, hs) /\ Told(g, hs) /\ Untold(g, hs)

LEMMA NamesOf ==
  ASSUME NEW g \in Seq(Groups), NEW i \in DOMAIN g
  PROVE  g[i] = [name |-> g[i].name, values |-> g[i].values]
         /\ g[i].name \in Seq(Octets) /\ g[i].values \in Seq(Seq(Chars))
<1>1. g[i] \in Groups
  OBVIOUS
<1> QED
  BY <1>1 DEF Groups

Grown(name, values, h) == IF h.name = name THEN Append(values, Bins!Lossy(h.value)) ELSE values

LEMMA LossiesAre ==
  ASSUME NEW vs \in Seq(Seq(Octets))
  PROVE  /\ Lossies(vs) \in Seq(Seq(Chars)) /\ Len(Lossies(vs)) = Len(vs)
         /\ DOMAIN Lossies(vs) = DOMAIN vs
         /\ \A k \in DOMAIN vs : vs[k] \in Seq(Octets) /\ Lossies(vs)[k] = Bins!Lossy(vs[k])
<1>1. Len(vs) \in Nat /\ DOMAIN vs = 1..Len(vs) /\ \A k \in DOMAIN vs : vs[k] \in Seq(Octets)
  OBVIOUS
<1>2. \A k \in DOMAIN vs : Bins!Lossy(vs[k]) \in Seq(Chars)
  BY <1>1, LossyIs
<1> QED
  BY <1>1, <1>2 DEF Lossies

LEMMA LossiesGrow ==
  ASSUME NEW name, NEW vs \in Seq(Seq(Octets)), NEW h \in Headers
  PROVE  Lossies(Taking(name, vs, h)) = Grown(name, Lossies(vs), h)
<1>1. h.value \in Seq(Octets)
  BY DEF Headers
<1>2. CASE h.name = name
  <2> DEFINE n == Len(vs)
             a == Append(vs, h.value)
             l == Lossies(vs)
             x == Bins!Lossy(h.value)
             b == Append(l, x)
  <2>1. n \in Nat /\ DOMAIN vs = 1..n /\ \A i \in 1..n : vs[i] \in Seq(Octets)
    OBVIOUS
  <2>2. DOMAIN a = 1..(n + 1) /\ a[n + 1] = h.value /\ \A i \in 1..n : a[i] = vs[i]
    BY <1>1
  <2>3. x \in Seq(Chars)
    BY <1>1, LossyIs
  <2>4. l \in Seq(Seq(Chars)) /\ Len(l) = n /\ \A i \in 1..n : l[i] = Bins!Lossy(vs[i])
    BY <2>1, LossiesAre
  <2> HIDE DEF n, l
  <2>5. x = Bins!Lossy(h.value)
    OBVIOUS
  <2> HIDE DEF x
  <2>6. b \in Seq(Seq(Chars)) /\ Len(b) = n + 1 /\ b[n + 1] = x /\ \A i \in 1..n : b[i] = l[i]
    BY <2>3, <2>4, OneMore
  <2> HIDE DEF a, b
  <2>7. \A i \in 1..(n + 1) : b[i] = Bins!Lossy(a[i])
    <3>1. \A i \in 1..(n + 1) : i \in 1..n \/ i = n + 1
      BY <2>1
    <3> QED
      BY <2>2, <2>4, <2>5, <2>6, <3>1
  <2>8. b = [i \in 1..(n + 1) |-> b[i]]
    BY <2>1, <2>6
  <2>9. Lossies(a) = b
    BY <2>2, <2>7, <2>8 DEF Lossies
  <2> QED
    BY <1>2, <2>9 DEF Taking, Grown, a, b, l, x
<1>3. CASE h.name # name
  BY <1>3 DEF Taking, Grown
<1> QED
  BY <1>2, <1>3

(* A header of a name that is known. *)
LEMMA GroupKnown ==
  ASSUME NEW g \in Seq(Groups), NEW h \in Headers, NEW p \in DOMAIN g, g[p].name = h.name
  PROVE  LET r == Bins!Group(g, h)
         IN  /\ DOMAIN r = DOMAIN g
             /\ \A i \in DOMAIN g : /\ r[i].name = g[i].name
                                    /\ r[i].values = Grown(g[i].name, g[i].values, h)
<1> DEFINE r == Bins!Group(g, h)
<1>1. r = [i \in DOMAIN g |-> IF g[i].name = h.name
                              THEN [g[i] EXCEPT !.values = Append(@, Bins!Lossy(h.value))] ELSE g[i]]
  BY DEF Bins!Group
<1> HIDE DEF r
<1>2. DOMAIN r = DOMAIN g
  BY <1>1
<1>3. ASSUME NEW i \in DOMAIN g
      PROVE  r[i].name = g[i].name /\ r[i].values = Grown(g[i].name, g[i].values, h)
  <2>1. g[i] = [name |-> g[i].name, values |-> g[i].values]
    BY NamesOf
  <2>2. CASE h.name = g[i].name
    <3>1. r[i] = [g[i] EXCEPT !.values = Append(@, Bins!Lossy(h.value))]
      BY <1>1, <2>2
    <3>2. r[i].name = g[i].name /\ r[i].values = Append(g[i].values, Bins!Lossy(h.value))
      BY <2>1, <3>1
    <3> QED
      BY <2>2, <3>2 DEF Grown
  <2>3. CASE h.name # g[i].name
    <3>1. r[i] = g[i]
      BY <1>1, <2>3
    <3> QED
      BY <2>3, <3>1 DEF Grown
  <2> QED
    BY <2>2, <2>3
<1> QED
  BY <1>2, <1>3 DEF r

LEMMA TellsMore ==
  ASSUME NEW hs \in Seq(Headers), NEW h \in Headers, NEW g, Tells(g, hs)
  PROVE  Tells(Bins!Group(g, h), Append(hs, h))
<1> DEFINE r == Bins!Group(g, h)
           a == Append(hs, h)
<1>1. g \in Seq(Groups) /\ Distinct(g) /\ Gathered(g, hs) /\ Told(g, hs) /\ Untold(g, hs)
  BY DEF Tells
<1>2. r \in Seq(Groups)
  BY <1>1, GroupIs
<1>3. h.name \in Seq(Octets) /\ h.value \in Seq(Octets)
  BY DEF Headers
<1>4. \A name : /\ Bins!Values(a, name) = Taking(name, Bins!Values(hs, name), h)
                /\ Bins!Values(hs, name) \in Seq(Seq(Octets))
  BY ValuesMore
<1>5. \A name : Lossies(Bins!Values(a, name)) = Grown(name, Lossies(Bins!Values(hs, name)), h)
  BY <1>4, LossiesGrow
<1>6. \A i \in DOMAIN a : (i \in DOMAIN hs /\ a[i] = hs[i]) \/ a[i] = h
  <2>1. DOMAIN hs = 1..Len(hs) /\ DOMAIN a = 1..(Len(hs) + 1) /\ Len(hs) \in Nat
    OBVIOUS
  <2>2. a[Len(hs) + 1] = h /\ \A i \in 1..Len(hs) : a[i] = hs[i]
    OBVIOUS
  <2> HIDE DEF a
  <2> QED
    BY <2>1, <2>2
<1>7. CASE \E p \in DOMAIN g : g[p].name = h.name
  <2>1. PICK p \in DOMAIN g : g[p].name = h.name
    BY <1>7
  <2>2. /\ DOMAIN r = DOMAIN g
        /\ \A i \in DOMAIN g : /\ r[i].name = g[i].name
                               /\ r[i].values = Grown(g[i].name, g[i].values, h)
    BY <1>1, <2>1, GroupKnown
  <2> HIDE DEF r, a
  <2>3. Distinct(r)
    BY <1>1, <2>2 DEF Distinct
  <2>4. Gathered(r, a)
    BY <1>1, <1>5, <2>2 DEF Gathered
  <2>5. Told(r, a)
    BY <1>1, <1>6, <2>1, <2>2 DEF Told
  <2>6. Untold(r, a)
    <3> SUFFICES ASSUME NEW name \in Seq(Octets), \A k \in DOMAIN r : r[k].name # name
                 PROVE  Bins!Values(a, name) = << >>
      BY DEF Untold
    <3>1. \A k \in DOMAIN g : g[k].name # name
      BY <2>2
    <3>2. Bins!Values(hs, name) = << >> /\ h.name # name
      BY <1>1, <2>1, <3>1 DEF Untold
    <3> QED
      BY <1>4, <3>2 DEF Taking
  <2> QED
    BY <1>2, <2>3, <2>4, <2>5, <2>6 DEF Tells, r, a
<1>8. CASE ~\E p \in DOMAIN g : g[p].name = h.name
  <2> DEFINE e == [name |-> h.name, values |-> <<Bins!Lossy(h.value)>>]
             n == Len(g)
  <2>1. r = Append(g, e)
    BY <1>8 DEF Bins!Group
  <2>2. e \in Groups
    <3>1. <<Bins!Lossy(h.value)>> \in Seq(Seq(Chars))
      BY <1>3, LossyIs
    <3> QED
      BY <1>3, <3>1 DEF Groups
  <2>3. e.name = h.name /\ e.values = <<Bins!Lossy(h.value)>>
    OBVIOUS
  <2> HIDE DEF e, r
  <2>4. /\ n \in Nat /\ DOMAIN g = 1..n /\ DOMAIN r = 1..(n + 1)
        /\ r[n + 1] = e /\ \A i \in 1..n : r[i] = g[i]
    BY <1>1, <2>1, <2>2
  <2> HIDE DEF n, a
  <2>5. \A i \in DOMAIN r : \/ i \in DOMAIN g /\ r[i] = g[i]
                            \/ i = n + 1 /\ r[i] = e
    <3>1. \A i \in 1..(n + 1) : i \in 1..n \/ i = n + 1
      BY <2>4
    <3> QED
      BY <2>4, <3>1
  <2>6. \A i \in DOMAIN g : i \in DOMAIN r /\ r[i] = g[i]
    BY <2>4
  <2>7. n + 1 \in DOMAIN r
    BY <2>4
  <2>8. \A i \in DOMAIN g : g[i].name # h.name
    BY <1>8
  <2>9. Distinct(r)
    BY <1>1, <2>3, <2>5, <2>8 DEF Distinct
  <2>10. Gathered(r, a)
    <3> SUFFICES ASSUME NEW i \in DOMAIN r PROVE r[i].values = Lossies(Bins!Values(a, r[i].name))
      BY DEF Gathered
    <3>1. CASE i \in DOMAIN g /\ r[i] = g[i]
      <4>1. h.name # r[i].name /\ r[i].values = Lossies(Bins!Values(hs, r[i].name))
        BY <1>1, <2>8, <3>1 DEF Gathered
      <4> QED
        BY <1>5, <4>1 DEF Grown
    <3>2. CASE r[i] = e
      <4>1. Bins!Values(hs, h.name) = << >>
        BY <1>1, <1>3, <2>8 DEF Untold
      <4>2. \A v \in Seq(Chars) : Append(<< >>, v) = <<v>>
        OBVIOUS
      <4>3. Lossies(<< >>) = << >>
        BY DEF Lossies
      <4>4. Bins!Lossy(h.value) \in Seq(Chars)
        BY <1>3, LossyIs
      <4>5. Lossies(Bins!Values(a, h.name)) = <<Bins!Lossy(h.value)>>
        BY <1>5, <4>1, <4>2, <4>3, <4>4 DEF Grown
      <4> QED
        BY <2>3, <3>2, <4>5
    <3> QED
      BY <2>5, <3>1, <3>2
  <2>11. Told(r, a)
    BY <1>1, <1>6, <2>3, <2>4, <2>6, <2>7 DEF Told
  <2>12. Untold(r, a)
    <3> SUFFICES ASSUME NEW name \in Seq(Octets), \A k \in DOMAIN r : r[k].name # name
                 PROVE  Bins!Values(a, name) = << >>
      BY DEF Untold
    <3>1. \A k \in DOMAIN g : g[k].name # name
      BY <2>6
    <3>2. h.name # name
      BY <2>3, <2>4, <2>7
    <3>3. Bins!Values(hs, name) = << >>
      BY <1>1, <3>1 DEF Untold
    <3> QED
      BY <1>4, <3>2, <3>3 DEF Taking
  <2> QED
    BY <1>2, <2>9, <2>10, <2>11, <2>12 DEF Tells, r, a
<1> QED
  BY <1>7, <1>8

LEMMA GroupedTells ==
  ASSUME NEW hs \in Seq(Headers)
  PROVE  Tells(Bins!Grouped(hs), hs)
<1> DEFINE P == {t \in Seq(Headers) : Tells(Bins!Grouped(t), t)}
<1>1. << >> \in P
  <2>1. << >> \in Seq(Headers) /\ << >> \in Seq(Groups) /\ DOMAIN << >> = {}
    OBVIOUS
  <2>2. Bins!Grouped(<< >>) = << >>
    BY <2>1, GroupMore
  <2>3. \A name : Bins!Values(<< >>, name) = << >>
    BY <2>1, ValuesMore
  <2>4. Distinct(<< >>) /\ Gathered(<< >>, << >>) /\ Told(<< >>, << >>)
    BY <2>1 DEF Distinct, Gathered, Told
  <2>5. Untold(<< >>, << >>)
    BY <2>3 DEF Untold
  <2>6. Tells(Bins!Grouped(<< >>), << >>)
    BY <2>1, <2>2, <2>4, <2>5 DEF Tells
  <2> QED
    BY <2>1, <2>6
<1>2. ASSUME NEW t \in P, NEW h \in Headers PROVE Append(t, h) \in P
  <2>1. t \in Seq(Headers) /\ Tells(Bins!Grouped(t), t)
    OBVIOUS
  <2>2. Bins!Grouped(Append(t, h)) = Bins!Group(Bins!Grouped(t), h)
    BY <2>1, GroupMore
  <2>3. Tells(Bins!Grouped(Append(t, h)), Append(t, h))
    BY <2>1, <2>2, TellsMore
  <2>4. Append(t, h) \in Seq(Headers)
    BY <2>1
  <2> QED
    BY <2>3, <2>4
<1>3. P \in SUBSET Seq(Headers)
  OBVIOUS
<1> HIDE DEF P
<1>4. P = Seq(Headers)
  BY <1>1, <1>2, <1>3, EverySequence
<1> QED
  BY <1>4 DEF P

LEMMA UpTo ==
  ASSUME NEW S, NEW b \in Seq(S), NEW k \in 0..Len(b)
  PROVE  /\ SubSeq(b, 1, k) \in Seq(S) /\ Len(SubSeq(b, 1, k)) = k
         /\ \A i \in 1..k : SubSeq(b, 1, k)[i] = b[i]
         /\ k = Len(b) => SubSeq(b, 1, k) = b
<1>1. /\ SubSeq(b, 1, k) \in Seq(S) /\ Len(SubSeq(b, 1, k)) = k
      /\ \A i \in 1..k : SubSeq(b, 1, k)[i] = b[i]
  BY FirstOnes
<1>2. k = Len(b) => SubSeq(b, 1, k) = b
  OBVIOUS
<1> QED
  BY <1>1, <1>2

(* Where a body may be cut. *)
CutAt(b, k) ==
  /\ k = 0 \/ b[k + 1] # Bins!SECOND
  /\ \A j \in (k + 1)..MAX_BODY_KEPT : b[j + 1] = Bins!SECOND

LEMMA CutExists ==
  ASSUME NEW b
  PROVE  \E k \in 0..MAX_BODY_KEPT : CutAt(b, k)
<1> DEFINE m == MAX_BODY_KEPT
           T == {x \in Nat : x <= m /\ (x = m \/ b[(m - x) + 1] # Bins!SECOND)}
<1>1. m \in Nat
  BY PostingsAssumption
<1> HIDE DEF m
<1>2. m \in T
  BY <1>1
<1>3. PICK x \in T : \A y \in T : x <= y
  <2>1. T \in SUBSET Nat /\ T # {}
    BY <1>2
  <2> HIDE DEF T
  <2> QED
    BY <2>1, Least
<1>4. x \in Nat /\ x <= m /\ (x = m \/ b[(m - x) + 1] # Bins!SECOND)
  OBVIOUS
<1> DEFINE k == m - x
<1>5. k \in 0..m /\ (k = 0 \/ b[k + 1] # Bins!SECOND)
  BY <1>1, <1>4
<1>6. ASSUME NEW j \in (k + 1)..m PROVE b[j + 1] = Bins!SECOND
  <2>1. j \in Int /\ m - j \in Nat /\ m - j < x /\ m - j <= m /\ m - (m - j) = j
    BY <1>1, <1>4
  <2>2. m - j \notin T
    <3> HIDE DEF T
    <3> QED
      BY <1>3, <1>4, <2>1
  <2> QED
    BY <2>1, <2>2
<1>7. CutAt(b, k)
  <2> HIDE DEF k
  <2> QED
    BY <1>5, <1>6 DEF CutAt, m
<1> QED
  BY <1>5, <1>7 DEF m

LEMMA CutIs ==
  ASSUME NEW b \in Seq(Octets)
  PROVE  /\ Bins!Cut(b) \in 0..Len(b)
         /\ Len(b) <= MAX_BODY_KEPT => Bins!Cut(b) = Len(b)
         /\ Len(b) > MAX_BODY_KEPT => Bins!Cut(b) \in 0..MAX_BODY_KEPT /\ CutAt(b, Bins!Cut(b))
<1>1. Len(b) \in Nat /\ MAX_BODY_KEPT \in Nat
  BY PostingsAssumption
<1>2. CASE Len(b) <= MAX_BODY_KEPT
  <2>1. Bins!Cut(b) = Len(b)
    BY <1>2 DEF Bins!Cut
  <2> QED
    BY <1>1, <1>2, <2>1
<1>3. CASE ~(Len(b) <= MAX_BODY_KEPT)
  <2>1. Bins!Cut(b) = CHOOSE k \in 0..MAX_BODY_KEPT : CutAt(b, k)
    BY <1>3 DEF Bins!Cut, CutAt
  <2>2. Bins!Cut(b) \in 0..MAX_BODY_KEPT /\ CutAt(b, Bins!Cut(b))
    BY <2>1, CutExists
  <2> QED
    BY <1>1, <1>3, <2>2
<1> QED
  BY <1>2, <1>3

(* A text is cut into a text, of all that is kept or one byte less. *)
LEMMA CutText ==
  ASSUME NEW b \in Seq(Octets), Bins!IsText(b), NEW k \in 0..MAX_BODY_KEPT,
         Len(b) > MAX_BODY_KEPT, CutAt(b, k)
  PROVE  Bins!IsText(SubSeq(b, 1, k)) /\ k \in (MAX_BODY_KEPT - 1)..MAX_BODY_KEPT
<1> DEFINE m == MAX_BODY_KEPT
           n == Len(b)
           t == SubSeq(b, 1, k)
<1>1. m \in Nat /\ n \in Nat /\ k \in Nat /\ k <= m /\ m + 1 <= n /\ k \in 0..n
  BY PostingsAssumption
<1>2. /\ \A i \in 1..(n + 1) :
           (i > 1 /\ b[i - 1] = Bins!FIRST) <=> (i <= n /\ b[i] = Bins!SECOND)
      /\ \A i \in DOMAIN b : b[i] # Bins!CONTROL
  BY DEF Bins!IsText, Bins!IsUtf8, Bins!Fits, Bins!Range
<1>3. Bins!FIRST # Bins!SECOND
  BY DEF Bins!FIRST, Bins!SECOND
<1>4. /\ k = 0 \/ b[k + 1] # Bins!SECOND
      /\ \A j \in (k + 1)..m : b[j + 1] = Bins!SECOND
  BY DEF CutAt
<1>5. t \in Seq(Octets) /\ Len(t) = k /\ \A i \in 1..k : t[i] = b[i]
  BY <1>1, UpTo
<1>6. DOMAIN t = 1..k /\ DOMAIN b = 1..n
  BY <1>5
<1> HIDE DEF t, m, n
<1>7. Bins!IsUtf8(t)
  <2> SUFFICES ASSUME NEW i \in 1..(k + 1)
               PROVE  (i > 1 /\ t[i - 1] = Bins!FIRST) <=> (i <= k /\ t[i] = Bins!SECOND)
    BY <1>5 DEF Bins!IsUtf8, Bins!Fits
  <2>1. i \in 1..(n + 1) /\ i <= n
    BY <1>1
  <2>2. i > 1 => t[i - 1] = b[i - 1]
    BY <1>1, <1>5
  <2>3. CASE i <= k
    <3>1. t[i] = b[i]
      BY <1>1, <1>5, <2>3
    <3> QED
      BY <1>2, <2>1, <2>2, <2>3, <3>1
  <2>4. CASE ~(i <= k)
    <3>1. i = k + 1
      BY <1>1, <2>4
    <3>2. ~(i > 1 /\ b[i - 1] = Bins!FIRST)
      <4>1. CASE k = 0
        BY <3>1, <4>1
      <4>2. CASE b[k + 1] # Bins!SECOND
        BY <1>2, <2>1, <3>1, <4>2
      <4> QED
        BY <1>4, <4>1, <4>2
    <3> QED
      BY <2>2, <2>4, <3>2
  <2> QED
    BY <2>3, <2>4
<1>8. Bins!CONTROL \notin Bins!Range(t)
  <2>1. \A i \in DOMAIN t : i \in DOMAIN b /\ t[i] = b[i]
    BY <1>1, <1>5, <1>6
  <2> QED
    BY <1>2, <2>1 DEF Bins!Range
<1>9. k >= m - 1
  <2> SUFFICES ASSUME k < m - 1 PROVE FALSE
    BY <1>1
  <2>1. m \in (k + 1)..m /\ m - 1 \in (k + 1)..m /\ m - 1 + 1 = m
    BY <1>1
  <2>2. b[m + 1] = Bins!SECOND /\ b[m] = Bins!SECOND
    BY <1>4, <2>1
  <2>3. m + 1 \in 1..(n + 1) /\ m + 1 <= n /\ (m + 1) - 1 = m
    BY <1>1
  <2>4. b[m] = Bins!FIRST
    BY <1>2, <2>2, <2>3
  <2> QED
    BY <1>3, <2>2, <2>4
<1> QED
  BY <1>1, <1>7, <1>8, <1>9 DEF Bins!IsText, t, m

(* A text that is longer than what is read is a text where it is kept. *)
LEMMA FirstIs ==
  ASSUME NEW S, NEW b \in Seq(S), NEW n \in Nat
  PROVE  /\ Bins!First(b, n) \in Seq(S)
         /\ Len(b) <= n => Bins!First(b, n) = b
         /\ Len(b) > n => Len(Bins!First(b, n)) = n
         /\ \A i \in DOMAIN Bins!First(b, n) : i \in DOMAIN b /\ Bins!First(b, n)[i] = b[i]
<1>1. Len(b) \in Nat /\ DOMAIN b = 1..Len(b)
  OBVIOUS
<1>2. CASE Len(b) <= n
  <2>1. Bins!First(b, n) = b
    BY <1>2 DEF Bins!First
  <2>2. Bins!First(b, n) \in Seq(S)
    BY <2>1
  <2>3. \A i \in DOMAIN Bins!First(b, n) : i \in DOMAIN b /\ Bins!First(b, n)[i] = b[i]
    BY <2>1
  <2>4. ~(Len(b) > n)
    BY <1>1, <1>2
  <2> QED
    BY <2>1, <2>2, <2>3, <2>4
<1>3. CASE ~(Len(b) <= n)
  <2>1. Bins!First(b, n) = SubSeq(b, 1, n) /\ n \in 0..Len(b)
    BY <1>1, <1>3 DEF Bins!First
  <2> DEFINE t == SubSeq(b, 1, n)
  <2>2. t \in Seq(S) /\ Len(t) = n /\ \A i \in 1..n : t[i] = b[i]
    BY <2>1, UpTo
  <2> HIDE DEF t
  <2>3. DOMAIN t = 1..n /\ \A i \in 1..n : i \in 1..Len(b)
    BY <1>1, <2>1, <2>2
  <2> QED
    BY <1>1, <1>3, <2>1, <2>2, <2>3 DEF t
<1> QED
  BY <1>2, <1>3

LEMMA BodyIs ==
  ASSUME NEW s \in Postings
  PROVE  LET r == Bins!Record(s)
         IN  /\ r.body \in Seq(Chars)
             /\ Bins!IsText(s.body) =>
                  /\ r.text /\ Bins!IsPrefix(r.body, s.body)
                  /\ ~r.truncated => r.body = s.body
                  /\ r.truncated => Len(r.body) \in (MAX_BODY_KEPT - 1)..MAX_BODY_KEPT
<1> DEFINE b == s.body
           m == MAX_BODY_KEPT
           body == Bins!First(b, MAX_BODY_READ)
           k == Bins!Cut(body)
           kept == SubSeq(body, 1, k)
           r == Bins!Record(s)
<1>1. b \in Seq(Octets) /\ m \in Nat /\ MAX_BODY_READ \in Nat /\ m < MAX_BODY_READ
  BY PostingsAssumption
<1>2. r = [headers |-> Bins!Grouped(s.headers), body |-> Bins!body_repr(kept).repr,
           text |-> Bins!body_repr(kept).text, bytes |-> Len(body), truncated |-> Len(body) > m]
  BY DEF Bins!Record
<1>3. Bins!body_repr(kept) = IF Bins!IsText(kept) THEN [repr |-> kept, text |-> TRUE]
                             ELSE [repr |-> <<"#">>, text |-> FALSE]
  BY DEF Bins!body_repr
<1> HIDE DEF b
<1>4. /\ body \in Seq(Octets)
      /\ Len(b) <= MAX_BODY_READ => body = b
      /\ Len(b) > MAX_BODY_READ => Len(body) = MAX_BODY_READ
      /\ \A i \in DOMAIN body : i \in DOMAIN b /\ body[i] = b[i]
  BY <1>1, FirstIs
<1> HIDE DEF body
<1>5. /\ k \in 0..Len(body)
      /\ Len(body) <= m => k = Len(body)
      /\ Len(body) > m => k \in 0..m /\ CutAt(body, k)
  BY <1>4, CutIs
<1> HIDE DEF k
<1>6. /\ kept \in Seq(Octets) /\ Len(kept) = k
      /\ \A i \in 1..k : kept[i] = body[i]
      /\ k = Len(body) => kept = body
  BY <1>4, <1>5, UpTo
<1> HIDE DEF kept
<1>7. r.body = Bins!body_repr(kept).repr /\ r.text = Bins!body_repr(kept).text
  BY <1>2
<1>8. r.truncated = (Len(body) > m)
  BY <1>2
<1> HIDE DEF r
<1>9. r.body \in Seq(Chars)
  <2>1. CASE Bins!IsText(kept)
    <3>1. r.body = kept
      BY <1>3, <1>7, <2>1
    <3>2. Octets \subseteq Chars
      BY DEF Chars
    <3>3. \A S, T : S \subseteq T => Seq(S) \subseteq Seq(T)
      OBVIOUS
    <3>4. Seq(Octets) \subseteq Seq(Chars)
      BY <3>2, <3>3
    <3> QED
      BY <1>6, <3>1, <3>4
  <2>2. CASE ~Bins!IsText(kept)
    <3>1. r.body = <<"#">>
      BY <1>3, <1>7, <2>2
    <3>2. "#" \in Chars
      BY DEF Chars
    <3>3. \A c \in Chars : <<c>> \in Seq(Chars)
      OBVIOUS
    <3> QED
      BY <3>1, <3>2, <3>3
  <2> QED
    BY <2>1, <2>2
<1>10. ASSUME Bins!IsText(b)
       PROVE  /\ Bins!IsText(kept) /\ kept = SubSeq(b, 1, k) /\ k \in 0..Len(b)
              /\ Len(body) <= m => kept = b
              /\ Len(body) > m => k \in (m - 1)..m
  <2>0. Len(b) \in Nat /\ Len(body) \in Nat
    BY <1>1, <1>4
  <2>1. CASE Len(body) <= m
    <3>1. body = b
      BY <1>1, <1>4, <2>0, <2>1
    <3>2. k = Len(b) /\ kept = b /\ Len(b) <= m
      BY <1>5, <1>6, <2>1, <3>1
    <3>3. SubSeq(b, 1, k) = b
      BY <1>1, <2>0, <3>2, UpTo
    <3>4. k \in 0..Len(b)
      BY <2>0, <3>2
    <3>5. ~(Len(body) > m)
      BY <1>1, <2>0, <2>1
    <3>6. Bins!IsText(kept) /\ kept = SubSeq(b, 1, k)
      BY <1>10, <3>2, <3>3
    <3> QED
      BY <3>2, <3>4, <3>5, <3>6
  <2>2. CASE ~(Len(body) <= m)
    <3>1. k \in 0..m /\ CutAt(body, k) /\ m + 1 <= Len(body) /\ Len(body) <= Len(b)
      BY <1>1, <1>4, <1>5, <2>0, <2>2
    <3>2. \A i \in 1..(m + 1) : body[i] = b[i]
      <4>1. \A i \in 1..(m + 1) : i \in DOMAIN body
        BY <1>1, <1>4, <2>0, <3>1
      <4> QED
        BY <1>4, <4>1
    <3>3. CutAt(b, k)
      <4>1. \A j \in (k + 1)..m : j + 1 \in 1..(m + 1)
        BY <1>1, <3>1
      <4>2. k + 1 \in 1..(m + 1)
        BY <1>1, <3>1
      <4> QED
        BY <3>1, <3>2, <4>1, <4>2 DEF CutAt
    <3>4. Bins!IsText(SubSeq(b, 1, k)) /\ k \in (m - 1)..m
      <4>1. Len(b) > m
        BY <1>1, <2>0, <3>1
      <4> QED
        BY <1>1, <1>10, <3>1, <3>3, <4>1, CutText
    <3>5. k \in 0..Len(b)
      BY <1>1, <2>0, <3>1
    <3>6. kept = SubSeq(b, 1, k)
      <4> DEFINE t == SubSeq(b, 1, k)
      <4>1. t \in Seq(Octets) /\ Len(t) = k /\ \A i \in 1..k : t[i] = b[i]
        BY <1>1, <3>5, UpTo
      <4>2. \A i \in 1..k : kept[i] = b[i]
        BY <1>1, <1>6, <3>1, <3>2
      <4> HIDE DEF t
      <4>3. kept = t
        BY <1>6, <4>1, <4>2
      <4> QED
        BY <4>3 DEF t
    <3> QED
      BY <2>2, <3>4, <3>5, <3>6
  <2> QED
    BY <2>1, <2>2
<1>11. ASSUME Bins!IsText(b)
       PROVE  /\ r.text /\ Bins!IsPrefix(r.body, b)
              /\ ~r.truncated => r.body = b
              /\ r.truncated => Len(r.body) \in (m - 1)..m
  <2>1. r.body = kept /\ r.text
    BY <1>3, <1>7, <1>10, <1>11
  <2>2. Bins!IsPrefix(kept, b)
    <3>1. Len(kept) = k /\ kept = SubSeq(b, 1, k) /\ k \in 0..Len(b) /\ Len(b) \in Nat
      BY <1>1, <1>6, <1>10, <1>11
    <3>2. SubSeq(kept, 1, k) = kept
      BY <1>6, UpTo, <3>1
    <3> QED
      BY <3>1, <3>2 DEF Bins!IsPrefix
  <2>3. ~r.truncated => kept = b
    <3> SUFFICES ASSUME ~r.truncated PROVE kept = b
      OBVIOUS
    <3>1. ~(Len(body) > m)
      BY <1>8
    <3>2. Len(body) \in Nat
      BY <1>4
    <3>3. Len(body) <= m
      BY <1>1, <3>1, <3>2
    <3> QED
      BY <1>10, <1>11, <3>3
  <2>4. r.truncated => Len(kept) \in (m - 1)..m
    BY <1>6, <1>8, <1>10, <1>11
  <2> QED
    BY <2>1, <2>2, <2>3, <2>4
<1> QED
  BY <1>9, <1>11 DEF b, r

Records == {Bins!Record(s) : s \in Postings}

(* A record says what was sent. *)
LEMMA RecordsAreTruthful ==
  ASSUME NEW s \in Postings
  PROVE  /\ Bins!Truthful(s, Bins!Record(s))
         /\ Bins!Record(s).headers \in Seq(Groups) /\ Bins!Record(s).body \in Seq(Chars)
<1> DEFINE r == Bins!Record(s)
           g == r.headers
           hs == s.headers
<1>1. hs \in Seq(Headers)
  BY PostingsAssumption DEF Headers
<1>2. g = Bins!Grouped(hs)
  BY DEF Bins!Record
<1>3. Tells(g, hs)
  BY <1>1, <1>2, GroupedTells
<1>4. /\ r.body \in Seq(Chars)
      /\ Bins!IsText(s.body) =>
           /\ r.text /\ Bins!IsPrefix(r.body, s.body)
           /\ ~r.truncated => r.body = s.body
           /\ r.truncated => Len(r.body) \in (MAX_BODY_KEPT - 1)..MAX_BODY_KEPT
  BY BodyIs
<1> HIDE DEF r, hs
<1>5. \A i, j \in DOMAIN g : g[i].name = g[j].name => i = j
  BY <1>3 DEF Tells, Distinct
<1>6. ASSUME NEW name \in {h.name : h \in Bins!Range(hs)}
      PROVE  \E i \in DOMAIN g :
               g[i].name = name /\ Bins!Shows(g[i].values, Bins!Values(hs, name))
  <2>1. PICK j \in DOMAIN hs : name = hs[j].name
    BY DEF Bins!Range
  <2>2. PICK i \in DOMAIN g : g[i].name = name
    BY <1>3, <2>1 DEF Tells, Told
  <2> DEFINE vs == Bins!Values(hs, name)
  <2>3. g[i].values = Lossies(vs)
    BY <1>3, <2>2 DEF Tells, Gathered
  <2>4. vs \in Seq(Seq(Octets))
    BY <1>1, ValuesMore
  <2> HIDE DEF vs
  <2>5. /\ DOMAIN Lossies(vs) = DOMAIN vs /\ Len(Lossies(vs)) = Len(vs)
        /\ \A k \in DOMAIN vs : vs[k] \in Seq(Octets) /\ Lossies(vs)[k] = Bins!Lossy(vs[k])
    BY <2>4, LossiesAre
  <2>6. \A k \in DOMAIN vs : Bins!IsUtf8(vs[k]) => Lossies(vs)[k] = vs[k]
    BY <2>5, LossyIs
  <2>7. Bins!Shows(g[i].values, vs)
    BY <2>3, <2>5, <2>6 DEF Bins!Shows
  <2> QED
    BY <2>2, <2>7 DEF vs
<1>7. g \in Seq(Groups)
  BY <1>3 DEF Tells
<1>8. Bins!Truthful(s, r)
  BY <1>4, <1>5, <1>6 DEF Bins!Truthful, hs
<1> QED
  BY <1>4, <1>7, <1>8 DEF r

Texts(w) == [i \in DOMAIN w |-> Bins!record_json(w[i])]

LEMMA TextsAre ==
  ASSUME NEW w \in Seq(Records)
  PROVE  /\ Texts(w) \in Seq(Whole) /\ Len(Texts(w)) = Len(w)
         /\ \A i \in 1..Len(w) : Texts(w)[i] = Bins!record_json(w[i])
<1>1. \A r \in Records : Bins!record_json(r) \in Whole
  <2> SUFFICES ASSUME NEW s \in Postings PROVE Bins!record_json(Bins!Record(s)) \in Whole
    BY DEF Records
  <2> QED
    BY RecordsAreTruthful, RecordIsWhole
<1>2. Len(w) \in Nat /\ DOMAIN w = 1..Len(w) /\ \A i \in 1..Len(w) : w[i] \in Records
  OBVIOUS
<1>3. \A i \in 1..Len(w) : Bins!record_json(w[i]) \in Whole
  BY <1>1, <1>2
<1>4. Texts(w) = [i \in 1..Len(w) |-> Bins!record_json(w[i])]
  BY <1>2 DEF Texts
<1> QED
  BY <1>2, <1>3, <1>4

LEMMA NewestFirst ==
  ASSUME NEW S, NEW x \in S, NEW t \in Seq(S)
  PROVE  /\ <<x>> \o t \in Seq(S) /\ Len(<<x>> \o t) = Len(t) + 1
         /\ (<<x>> \o t)[1] = x /\ \A i \in 1..Len(t) : (<<x>> \o t)[i + 1] = t[i]
  OBVIOUS

(* The newest records, as texts, are the texts of the newest records. *)
LEMMA TextsOfNewest ==
  ASSUME NEW w \in Seq(Records), NEW r \in Records
  PROVE  /\ Bins!First(<<r>> \o w, MAX_REQUESTS) \in Seq(Records)
         /\ Bins!First(<<Bins!record_json(r)>> \o Texts(w), MAX_REQUESTS)
              = Texts(Bins!First(<<r>> \o w, MAX_REQUESTS))
<1> DEFINE n == MAX_REQUESTS
           l == Len(w)
           a == <<r>> \o w
           x == Bins!record_json(r)
           b == <<x>> \o Texts(w)
           c == Bins!First(a, n)
           d == Bins!First(b, n)
<1>1. n \in Nat /\ l \in Nat
  BY PostingsAssumption
<1>2. Texts(w) \in Seq(Whole) /\ Len(Texts(w)) = l
      /\ \A i \in 1..l : Texts(w)[i] = Bins!record_json(w[i])
  BY TextsAre
<1>3. x \in Whole
  <2>1. PICK s \in Postings : r = Bins!Record(s)
    BY DEF Records
  <2> QED
    BY <2>1, RecordsAreTruthful, RecordIsWhole
<1> HIDE DEF n, x
<1>4. a \in Seq(Records) /\ Len(a) = l + 1 /\ a[1] = r /\ \A i \in 1..l : a[i + 1] = w[i]
  BY NewestFirst
<1>5. b \in Seq(Whole) /\ Len(b) = l + 1 /\ b[1] = x /\ \A i \in 1..l : b[i + 1] = Texts(w)[i]
  BY <1>2, <1>3, NewestFirst
<1> HIDE DEF l, a, b
<1>6. \A i \in 1..(l + 1) : b[i] = Bins!record_json(a[i])
  <2> SUFFICES ASSUME NEW i \in 1..(l + 1) PROVE b[i] = Bins!record_json(a[i])
    OBVIOUS
  <2>1. CASE i = 1
    BY <1>4, <1>5, <2>1 DEF x
  <2>2. CASE i # 1
    <3>1. i - 1 \in 1..l /\ (i - 1) + 1 = i
      BY <1>1, <2>2
    <3> QED
      BY <1>2, <1>4, <1>5, <3>1
  <2> QED
    BY <2>1, <2>2
<1>7. /\ c \in Seq(Records)
      /\ l + 1 <= n => c = a
      /\ l + 1 > n => Len(c) = n
      /\ \A i \in DOMAIN c : i \in DOMAIN a /\ c[i] = a[i]
  BY <1>1, <1>4, FirstIs
<1>8. /\ d \in Seq(Whole)
      /\ l + 1 <= n => d = b
      /\ l + 1 > n => Len(d) = n
      /\ \A i \in DOMAIN d : i \in DOMAIN b /\ d[i] = b[i]
  BY <1>1, <1>5, FirstIs
<1> HIDE DEF c, d
<1>9. Len(c) = Len(d) /\ DOMAIN c = DOMAIN d
  <2>1. Len(c) = Len(d)
    BY <1>1, <1>4, <1>5, <1>7, <1>8
  <2> QED
    BY <1>7, <1>8, <2>1
<1>10. DOMAIN a = 1..(l + 1)
  BY <1>4
<1>11. \A i \in DOMAIN c : d[i] = Bins!record_json(c[i])
  BY <1>6, <1>7, <1>8, <1>9, <1>10
<1>12. d = [i \in DOMAIN c |-> Bins!record_json(c[i])]
  <2>1. d = [i \in DOMAIN d |-> d[i]]
    BY <1>8
  <2> QED
    BY <1>9, <1>11, <2>1
<1> QED
  BY <1>7, <1>12 DEF Texts, c, d, a, b, x, n

LEMMA ShownNone == <<"[", "]">> = Shown(<< >>)
<1>1. Bins!Joined(<< >>) = << >>
  <2>1. << >> \in Seq(Seq(Chars))
    OBVIOUS
  <2> QED
    BY <2>1, JoinMore
<1>2. \A a, b \in Chars : <<a, b>> = (<<a>> \o << >>) \o <<b>>
  <2> SUFFICES ASSUME NEW a \in Chars, NEW b \in Chars PROVE <<a, b>> = (<<a>> \o << >>) \o <<b>>
    OBVIOUS
  <2> HIDE DEF Chars
  <2>1. <<a>> \in Seq(Chars) /\ Append(<<a>>, b) = <<a, b>>
    <3> DEFINE l == Append(<<a>>, b)
               p == <<a, b>>
    <3>1. <<a>> \in Seq(Chars) /\ Len(<<a>>) = 1 /\ <<a>>[1] = a
      OBVIOUS
    <3>2. l \in Seq(Chars) /\ Len(l) = 2 /\ l[2] = b /\ l[1] = a
      BY <3>1, OneMore
    <3>3. p \in Seq(Chars) /\ Len(p) = 2 /\ p[2] = b /\ p[1] = a
      OBVIOUS
    <3> HIDE DEF l, p
    <3>4. \A i \in 1..2 : l[i] = p[i]
      <4>1. \A i \in 1..2 : i = 1 \/ i = 2
        OBVIOUS
      <4> QED
        BY <3>2, <3>3, <4>1
    <3>5. l = p
      BY <3>2, <3>3, <3>4
    <3> QED
      BY <3>1, <3>5 DEF l, p
  <2>2. <<a>> \o << >> = <<a>>
    BY <2>1, ConcatAppend
  <2>3. <<a>> \o <<b>> = Append(<<a>>, b)
    BY <2>1, AppendOne
  <2> QED
    BY <2>1, <2>2, <2>3
<1>3. "[" \in Chars /\ "]" \in Chars
  BY DEF Chars
<1> QED
  BY <1>1, <1>2, <1>3 DEF Shown

(* A bin is the newest records, unless a text was written over one not read. *)
BinInv ==
  /\ sent \in [Requests -> SUBSET Postings]
  /\ wanted \in Seq(Records)
  /\ raced \in BOOLEAN
  /\ \A t, u \in bin : t = u
  /\ bin = {} => wanted = << >>
  /\ ~raced => \A t \in bin : t = Shown(Texts(wanted))

LEMMA BinHolds == BinInv => Bins!BinIsItsRecords
<1> SUFFICES ASSUME BinInv PROVE Bins!BinIsItsRecords
  OBVIOUS
<1>1. \A r \in Requests : \A s \in sent[r] : Bins!Truthful(s, Bins!Record(s))
  BY RecordsAreTruthful DEF BinInv
<1>2. Texts(wanted) \in Seq(Whole)
  BY TextsAre DEF BinInv
<1>3. ~raced => \A t \in bin : Bins!split_objects(Bins!Inner(t)) = Texts(wanted)
  BY <1>2, SplitIs DEF BinInv
<1> QED
  BY <1>1, <1>3 DEF Bins!BinIsItsRecords, Texts

LEMMA BinInit == Bins!Init => BinInv
<1> SUFFICES ASSUME Bins!Init PROVE BinInv
  OBVIOUS
<1>1. /\ bin \in {{}, {<<"[", "]">>}} /\ wanted = << >> /\ raced = FALSE
      /\ sent = [r \in Requests |-> {}]
  BY DEF Bins!Init, Bins!None, Bins!Some
<1>2. sent \in [Requests -> SUBSET Postings]
  BY <1>1
<1>3. << >> \in Seq(Records) /\ Texts(<< >>) = << >>
  BY DEF Texts
<1>4. \A t \in bin : t = Shown(Texts(wanted))
  BY <1>1, <1>3, ShownNone
<1>5. \A t, u \in bin : t = u
  BY <1>4
<1> QED
  BY <1>1, <1>2, <1>3, <1>4, <1>5 DEF BinInv

(* What is split from the text that is stored, if none was missed. *)
LEMMA SplitStored ==
  ASSUME BinInv, ~raced
  PROVE  Bins!split_objects(Bins!Inner(Bins!Stored)) = Texts(wanted)
<1>1. wanted \in Seq(Records) /\ Texts(wanted) \in Seq(Whole)
  BY TextsAre DEF BinInv
<1>2. CASE bin = {}
  <2>1. Bins!Stored = << >> /\ Bins!Inner(<< >>) = << >>
    BY <1>2 DEF Bins!Stored, Bins!None, Bins!Inner
  <2>2. Texts(wanted) = << >>
    BY <1>2 DEF BinInv, Texts
  <2>3. Bins!split_objects(<< >>) = << >>
    <3>1. << >> \in Seq(Chars)
      OBVIOUS
    <3>2. Scan(Bins!Before, << >>) = Bins!Before
      BY <3>1, BeforeIs, ScanMore
    <3> QED
      BY <3>2, BeforeIs DEF Bins!split_objects, Scan
  <2> QED
    BY <2>1, <2>2, <2>3
<1>3. CASE bin # {}
  <2>1. Bins!Stored \in bin
    BY <1>3 DEF Bins!Stored, Bins!None
  <2>2. Bins!Stored = Shown(Texts(wanted))
    BY <2>1 DEF BinInv
  <2> QED
    BY <1>1, <2>2, SplitIs
<1> QED
  BY <1>2, <1>3

LEMMA AppendedKeeps ==
  ASSUME BinInv, NEW r \in Requests, Bins!Appended(r), sent' = sent
  PROVE  BinInv'
<1>1. PICK s \in sent[r] :
        /\ bin' = {Bins!Spliced(read[r], Bins!record_json(Bins!Record(s)))}
        /\ wanted' = Bins!First(<<Bins!Record(s)>> \o wanted, MAX_REQUESTS)
  BY DEF Bins!Appended, Bins!Some
<1>2. raced' = (raced \/ Bins!Stored # read[r]) /\ sent' = sent
  BY DEF Bins!Appended
<1>3. s \in Postings /\ wanted \in Seq(Records) /\ Bins!Record(s) \in Records
  BY DEF BinInv, Records
<1> DEFINE d == Bins!Record(s)
           x == Bins!record_json(d)
<1>4. /\ Bins!First(<<d>> \o wanted, MAX_REQUESTS) \in Seq(Records)
      /\ Bins!First(<<x>> \o Texts(wanted), MAX_REQUESTS)
           = Texts(Bins!First(<<d>> \o wanted, MAX_REQUESTS))
  BY <1>3, TextsOfNewest
<1> HIDE DEF d, x
<1>5. ASSUME ~raced' PROVE Bins!Spliced(read[r], x) = Shown(Texts(wanted'))
  <2>1. ~raced /\ Bins!Stored = read[r]
    BY <1>2, <1>5
  <2>2. Bins!split_objects(Bins!Inner(read[r])) = Texts(wanted)
    BY <2>1, SplitStored
  <2>3. Bins!Spliced(read[r], x)
          = (<<"[">> \o Bins!Joined(Bins!First(<<x>> \o Texts(wanted), MAX_REQUESTS))) \o <<"]">>
    BY <2>2 DEF Bins!Spliced
  <2> QED
    BY <1>1, <1>4, <2>3 DEF Shown, d
<1>6. raced' \in BOOLEAN
  BY <1>2
<1>7. bin' # {} /\ \A t \in bin' : t = Bins!Spliced(read[r], x)
  BY <1>1 DEF d, x
<1>8. wanted' \in Seq(Records)
  BY <1>1, <1>4 DEF d
<1>9. sent' \in [Requests -> SUBSET Postings]
  BY <1>2 DEF BinInv
<1>10. ~raced' => \A t \in bin' : t = Shown(Texts(wanted'))
  BY <1>5, <1>7
<1>11. \A t, u \in bin' : t = u
  BY <1>7
<1> QED
  BY <1>6, <1>7, <1>8, <1>9, <1>10, <1>11 DEF BinInv, Texts

LEMMA BinKeeps ==
  ASSUME BinInv, [Bins!Next]_Bins!vars
  PROVE  BinInv'
<1>1. CASE UNCHANGED <<bin, sent, wanted, raced>>
  BY <1>1 DEF BinInv, Texts
<1>2. CASE UNCHANGED Bins!vars
  <2>1. UNCHANGED <<bin, sent, wanted, raced>>
    BY <1>2 DEF Bins!vars
  <2> QED
    BY <1>1, <2>1
<1>3. ASSUME NEW r \in Requests, Bins!Create(r) PROVE BinInv'
  <2>1. bin' = {<<"[", "]">>} /\ wanted' = << >> /\ UNCHANGED <<sent, raced>>
    BY <1>3 DEF Bins!Create, Bins!Some
  <2>2. << >> \in Seq(Records) /\ Texts(<< >>) = << >>
    BY DEF Texts
  <2>3. \A t \in bin' : t = Shown(Texts(<< >>))
    BY <2>1, <2>2, ShownNone
  <2>4. \A t, u \in bin' : t = u
    BY <2>3
  <2> QED
    BY <2>1, <2>2, <2>3, <2>4 DEF BinInv
<1>4. ASSUME Bins!Forgotten, UNCHANGED <<sent, raced>> PROVE BinInv'
  <2>1. bin' = {} /\ wanted' = << >> /\ UNCHANGED <<sent, raced>>
    BY <1>4 DEF Bins!Forgotten, Bins!None
  <2>2. << >> \in Seq(Records)
    OBVIOUS
  <2> QED
    BY <2>1, <2>2 DEF BinInv
<1>5. ASSUME NEW r \in Requests, Bins!Exists(r) PROVE BinInv'
  <2>1. UNCHANGED <<bin, wanted, raced>>
    BY <1>5 DEF Bins!Exists
  <2>2. sent' = sent \/ \E s \in Postings : sent' = [sent EXCEPT ![r] = {s}]
    BY <1>5 DEF Bins!Exists, Bins!Some
  <2>3. sent' \in [Requests -> SUBSET Postings]
    BY <2>2 DEF BinInv
  <2> QED
    BY <2>1, <2>3 DEF BinInv, Texts
<1>6. ASSUME NEW r \in Requests,
             Bins!Route(r) \/ Bins!Show(r) \/ Bins!ReadBody(r) \/ Bins!AppendGet(r)
      PROVE  BinInv'
  <2>1. UNCHANGED <<bin, sent, wanted, raced>>
    BY <1>6 DEF Bins!Route, Bins!Show, Bins!ReadBody, Bins!AppendGet
  <2> QED
    BY <1>1, <2>1
<1>7. ASSUME NEW r \in Requests, Bins!Forget(r) PROVE BinInv'
  BY <1>4, <1>7 DEF Bins!Forget
<1>8. ASSUME NEW r \in Requests, Bins!AppendSet(r) PROVE BinInv'
  BY <1>8, AppendedKeeps DEF Bins!AppendSet
<1>9. ASSUME NEW r \in Requests, Bins!StoreFails(r) PROVE BinInv'
  <2>1. /\ sent' = sent
        /\ UNCHANGED <<bin, wanted, raced>> \/ (Bins!Forgotten /\ UNCHANGED raced) \/ Bins!Appended(r)
    BY <1>9 DEF Bins!StoreFails
  <2> QED
    BY <1>1, <1>4, <2>1, AppendedKeeps
<1> QED
  BY <1>2, <1>3, <1>5, <1>6, <1>7, <1>8, <1>9 DEF Bins!Next

-----------------------------------------------------------------------------
(***************************************************************************)
(* The programs, of which a behaviour is of one.                           *)
(***************************************************************************)
WorkloadsInv ==
  /\ app = "tasks"    => TasksInv
  /\ app = "bin"      => BinInv
  /\ app = "consumer" => ConsumerInv
  /\ app = "worker"   => WorkerInv
  /\ app = "handler"  => HandlerInv
  /\ app = "producer" => ProducerInv
  /\ app = "webhook"  => WebhookInv
  /\ app = "core"     => CoreInv

LEMMA AppStays == [Next]_vars => app' = app
BY DEF Next, vars, Others, TasksStep, BinStep, ConsumerStep, WorkerStep, CoreStep,
   HandlerStep, ProducerStep, WebhookStep

LEMMA StepOfApp ==
  ASSUME [Next]_vars
  PROVE  /\ app = "tasks"    => [Tasks!Next]_Tasks!vars
         /\ app = "bin"      => [Bins!Next]_Bins!vars
         /\ app = "consumer" => [Consumer!Next]_Consumer!vars
         /\ app = "worker"   => [Worker!Next]_Worker!vars
         /\ app = "core"     => [Core!Next]_Core!vars
         /\ app = "handler"  => [Handler!Next]_Handler!vars
         /\ app = "producer" => [Producer!Next]_Producer!vars
         /\ app = "webhook"  => [Webhook!Next]_Webhook!vars
<1>1. CASE Next
  BY <1>1 DEF Next, TasksStep, BinStep, ConsumerStep, WorkerStep, CoreStep, HandlerStep,
     ProducerStep, WebhookStep
<1>2. CASE UNCHANGED vars
  BY <1>2 DEF vars, storeVars, binVars, consumerVars, workerVars, coreVars, kafkaVars, webhookVars,
     shared, Tasks!vars, Bins!vars, Consumer!vars, Worker!vars, Core!vars, Handler!vars, Producer!vars, Webhook!vars
<1> QED
  BY <1>1, <1>2

LEMMA InitOfApp ==
  ASSUME Init
  PROVE  /\ app = "tasks"    => Tasks!Init
         /\ app = "bin"      => Bins!Init
         /\ app = "consumer" => Consumer!Init
         /\ app = "worker"   => Worker!Init
         /\ app = "core"     => Core!Init
         /\ app = "handler"  => Handler!Init
         /\ app = "producer" => Producer!Init
         /\ app = "webhook"  => Webhook!Init
BY DEF Init

LEMMA WorkloadsInvariant == Spec => []WorkloadsInv
<1>1. Init => WorkloadsInv
  BY InitOfApp, TasksInit, BinInit, ConsumerInit, WorkerInit, HandlerInit, ProducerInit, WebhookInit, CoreInit
     DEF WorkloadsInv
<1>2. ASSUME WorkloadsInv, [Next]_vars PROVE WorkloadsInv'
  <2>1. app' = app
    BY <1>2, AppStays
  <2>2. app = "consumer" => ConsumerInv'
    BY <1>2, StepOfApp, ConsumerKeeps, BoundsAssumption DEF BoundsAssumption, WorkloadsInv
  <2>3. app = "worker" => WorkerInv'
    BY <1>2, StepOfApp, WorkerKeeps, BoundsAssumption DEF BoundsAssumption, WorkloadsInv
  <2>4. app = "handler" => HandlerInv'
    BY <1>2, StepOfApp, HandlerKeeps, BoundsAssumption DEF BoundsAssumption, WorkloadsInv
  <2>5. app = "producer" => ProducerInv'
    BY <1>2, StepOfApp, ProducerKeeps, LimitsAssumption DEF WorkloadsInv
  <2>6. app = "webhook" => WebhookInv'
    BY <1>2, StepOfApp, WebhookKeeps, BoundsAssumption DEF BoundsAssumption, WorkloadsInv
  <2>7. app = "core" => CoreInv'
    BY <1>2, StepOfApp, CoreKeeps DEF WorkloadsInv
  <2>8. app = "tasks" => TasksInv'
    BY <1>2, StepOfApp, TasksKeep DEF WorkloadsInv
  <2>9. app = "bin" => BinInv'
    BY <1>2, StepOfApp, BinKeeps DEF WorkloadsInv
  <2> QED
    BY <2>1, <2>2, <2>3, <2>4, <2>5, <2>6, <2>7, <2>8, <2>9 DEF WorkloadsInv
<1> QED
  BY <1>1, <1>2, PTL DEF Spec

(* What the Kafka handler commits was handled or dead-lettered, and only     *)
(* records that cannot be read, or that brought it down, are dead-lettered. *)
THEOREM HandlerSkipsNothing == Spec => []NothingIsSkipped
<1>1. WorkloadsInv => NothingIsSkipped
  BY HandlerHolds DEF WorkloadsInv, NothingIsSkipped
<1> QED
  BY <1>1, WorkloadsInvariant, PTL

(* A message of the JetStream consumer that can be read has a receipt once  *)
(* it is acknowledged, and a second one only if the duplicate window passed *)
(* in between, however often it was delivered and by however many calls at  *)
(* once; one that cannot be read has none; the worker counts no             *)
(* acknowledgement twice.                                                   *)
THEOREM ReceiptsStayHonest == Spec => []ReceiptsAreHonest
<1>1. WorkloadsInv => ReceiptsAreHonest
  BY ConsumerHolds, WorkerHolds DEF WorkloadsInv, ReceiptsAreHonest
<1> QED
  BY <1>1, WorkloadsInvariant, PTL

(* The producer builds no more bytes than its limit, whatever the product   *)
(* of the numbers asked for does at the width of a usize; the webhook       *)
(* forwards only a whole and verified body, and says so only when it did.   *)
THEOREM ChecksAreMade == Spec => []WhatLeavesIsChecked
<1>1. WorkloadsInv => WhatLeavesIsChecked
  BY ProducerHolds, WebhookHolds DEF WorkloadsInv, WhatLeavesIsChecked
<1> QED
  BY <1>1, WorkloadsInvariant, PTL

(* The NATS templates: no more replies than requests asked for, receipts    *)
(* that say what the bucket holds, the same calls in Rust and in Go, and    *)
(* errors that are told apart.                                             *)
THEOREM TemplatesStayTrue == Spec => []TemplatesKeepTheirWord
<1>1. WorkloadsInv => TemplatesKeepTheirWord
  BY CoreHolds DEF WorkloadsInv, TemplatesKeepTheirWord
<1> QED
  BY <1>1, WorkloadsInvariant, PTL

(* As long as no request wrote over what it had not read, the list of the    *)
(* task manager is what the requests made of it one after the other, each   *)
(* task has an id of its own, and who was told 200 was told of its change;  *)
(* and a bin is the records of the newest requests, each of them whole and  *)
(* true to what was sent, whatever quotes, braces and backslashes it holds. *)
THEOREM StoresStayTrue == Spec => []StoreIsItsHistory
<1>1. WorkloadsInv => StoreIsItsHistory
  BY TasksHold, BinHolds DEF WorkloadsInv, StoreIsItsHistory
<1> QED
  BY <1>1, WorkloadsInvariant, PTL
=============================================================================
