---------------------------- MODULE NatsConsumer ----------------------------
(***************************************************************************)
(* The JetStream consumer template, in Rust and in Go: called with one     *)
(* message at a time, acknowledged by the host when it returns Ok, and     *)
(* redelivered when it does not.  The handler publishes one receipt for    *)
(* every message.                                                          *)
(*                                                                         *)
(* The server is external: it redelivers what is not acknowledged in time, *)
(* so also while an earlier call for it still runs, up to the max-deliver  *)
(* of the binding, and discards a message whose Nats-Msg-Id it has taken   *)
(* within the duplicate window of the stream, which is two minutes unless  *)
(* the stream says otherwise.  A redelivery can come after it.             *)
(***************************************************************************)
EXTENDS Naturals

CONSTANTS
  Sequences, Undecodable,   \* messages of the stream, and those that are not UTF-8
  MAX_DELIVERIES,           \* both the template's constant and max-deliver
  MaxFaults,                \* bound on failed publishes, traps and lost acks
  MaxWindows                \* bound on windows that pass for a message

VARIABLES
  delivered,    \* how often each message was delivered
  acked,
  calls,        \* calls of the handler under way
  receipts,     \* receipts in the stream: a set of [message, key, window]
  windows,      \* how many duplicate windows of each message's id have passed
  faulted,      \* messages one of whose deliveries met a fault
  faults

vars == <<delivered, acked, calls, receipts, windows, faulted, faults>>

Utf8(s) == s \notin Undecodable

\* What the handler does first: publish a receipt, or return.
Chosen(s, count) ==
  IF Utf8(s) THEN "publish" ELSE IF count >= MAX_DELIVERIES THEN "ok" ELSE "err"

\* The same handler in Go.
GoChosen(s, count) ==
  IF ~Utf8(s) THEN (IF count >= MAX_DELIVERIES THEN "ok" ELSE "err") ELSE "publish"

\* Mutant of MsgId: an id of the delivery, not of the message.
MsgIdOfDelivery(s, count) == <<s, count>>

\* The Nats-Msg-Id of a receipt.
MsgId(s, count) == <<s, 0>>

GoMsgId(s, count) == <<s, 0>>

Key(c) == IF c.go THEN GoMsgId(c.message, c.count) ELSE MsgId(c.message, c.count)
ReceiptOf(c) == [message |-> c.message, key |-> Key(c), window |-> windows[c.message]]

\* Does the stream take a receipt, or discard it as a duplicate.
Taken(c) == \A r \in receipts : r.key = Key(c) => r.window # windows[c.message]

Fault(s) ==
  /\ faults < MaxFaults
  /\ faults' = faults + 1
  /\ faulted' = faulted \cup {s}

-----------------------------------------------------------------------------

Deliver(s) ==
  /\ s \notin acked /\ delivered[s] < MAX_DELIVERIES
  /\ delivered' = [delivered EXCEPT ![s] = @ + 1]
  /\ \E go \in BOOLEAN : calls' = calls \cup
       {[message |-> s, count |-> delivered[s] + 1, go |-> go,
         does |-> (IF go THEN GoChosen(s, delivered[s] + 1) ELSE Chosen(s, delivered[s] + 1))]}
  /\ UNCHANGED <<acked, receipts, windows, faulted, faults>>

\* jetstream::publish returns Ok, and with it the handler.
Publish(c) ==
  /\ c.does = "publish"
  /\ receipts' = IF Taken(c) THEN receipts \cup {ReceiptOf(c)} ELSE receipts
  /\ calls' = (calls \ {c}) \cup {[c EXCEPT !.does = "ok"]}
  /\ UNCHANGED <<delivered, acked, windows, faulted, faults>>

\* It fails, before or after the stream took the receipt; or the handler traps.
PublishFails(c) ==
  /\ c.does = "publish"
  /\ \/ receipts' = receipts
     \/ Taken(c) /\ receipts' = receipts \cup {ReceiptOf(c)}
  /\ calls' = (calls \ {c}) \cup {[c EXCEPT !.does = "err"]}
  /\ Fault(c.message)
  /\ UNCHANGED <<delivered, acked, windows>>

\* The host acknowledges a call that returned Ok, and only such a call.
Return(c) ==
  /\ c.does \in {"ok", "err"}
  /\ calls' = calls \ {c}
  /\ acked' = IF c.does = "ok" THEN acked \cup {c.message} ELSE acked
  /\ UNCHANGED <<delivered, receipts, windows, faulted, faults>>

\* The call traps, or its acknowledgement is lost.
ReturnFails(c) ==
  /\ calls' = calls \ {c}
  /\ Fault(c.message)
  /\ UNCHANGED <<delivered, acked, receipts, windows>>

\* The stream forgets the id of the receipt of s.
WindowPasses(s) ==
  /\ windows[s] < MaxWindows
  /\ \E r \in receipts : r.message = s /\ r.window = windows[s]
  /\ windows' = [windows EXCEPT ![s] = @ + 1]
  /\ UNCHANGED <<delivered, acked, calls, receipts, faulted, faults>>

Init ==
  /\ delivered = [s \in Sequences |-> 0] /\ windows = [s \in Sequences |-> 0]
  /\ acked = {} /\ calls = {} /\ receipts = {} /\ faulted = {} /\ faults = 0

Next ==
  \/ \E s \in Sequences : Deliver(s) \/ WindowPasses(s)
  \/ \E c \in calls : Publish(c) \/ PublishFails(c) \/ Return(c) \/ ReturnFails(c)

Fairness ==
  /\ \A s \in Sequences : WF_vars(Deliver(s))
  /\ WF_vars(\E c \in calls : Publish(c) \/ Return(c))

Spec == Init /\ [][Next]_vars
FairSpec == Spec /\ Fairness

-----------------------------------------------------------------------------

\* A message that can be read has a receipt once it is acknowledged, and a second
\* one only if the duplicate window passed between them, however often it was
\* delivered and by however many calls at once; one that cannot be read has none,
\* and is let go by its last delivery, not before.
ReceiptsAreHonest ==
  /\ \A q, r \in receipts : q.message = r.message /\ q.window = r.window => q = r
  /\ \A r \in receipts : Utf8(r.message)
  /\ \A s \in acked :
       IF Utf8(s) THEN \E r \in receipts : r.message = s
       ELSE delivered[s] = MAX_DELIVERIES

\* Every message is acknowledged in the end, the ones nobody can read included,
\* unless it met a fault.
AllAreSettled == \A s \in Sequences : <>(s \in acked \cup faulted)
=============================================================================
