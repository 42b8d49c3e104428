------------------------------ MODULE NatsCore ------------------------------
(***************************************************************************)
(* The NATS templates that are called once for a message or for a change   *)
(* of a bucket: core subscriber, fan-out, request/reply, key-value store   *)
(* and key-value watcher, each in Rust and in Go.  A handler is the list   *)
(* of the calls it makes on the host; a call that fails ends it.           *)
(*                                                                         *)
(* The server and the host are external: core NATS delivers a message at   *)
(* most once, a watch replays changes, handlers run at once.               *)
(***************************************************************************)
EXTENDS Naturals, Sequences, SequencesExt, FiniteSets, FiniteSetsExt, Functions

CONSTANTS
  Bodies,     \* [text, chars, bytes]: is it UTF-8, and how long
  Keys,       \* the last tokens of subjects; "" is an empty one
  MaxCalls    \* bound on calls of handlers

None == << >>

\* Subjects are sequences of tokens.
REQUESTS == <<"demo", "requests">>
INBOX    == <<"_INBOX", "1">>
RECEIPT_SUBJECT == <<"done", "demo", "events">>
SUBJECT_PREFIX  == <<"demo", "records">>
TARGETS == << <<"demo", "events", "audit">>, <<"demo", "events", "index">>,
              <<"demo", "events", "notify">> >>
GoTargets == << <<"demo", "events", "audit">>, <<"demo", "events", "index">>,
                <<"demo", "events", "notify">> >>

Publish(subject, body) == [call |-> "core", subject |-> subject, body |-> body, reply |-> None]
Receipt(subject, body) == [call |-> "jetstream", subject |-> subject, body |-> body, reply |-> None]

-----------------------------------------------------------------------------
(* The handlers in Rust                                                    *)

CoreSubscriber(m) ==
  IF m.body.text THEN <<Receipt(RECEIPT_SUBJECT, <<m.body.chars>>)>> ELSE << >>

FanOut(m) == [i \in DOMAIN TARGETS |-> Publish(TARGETS[i], m.body)]

Counted(body) == IF body.text THEN <<body.chars>> ELSE <<"not text">>

RequestReply(m) ==
  IF m.reply = None THEN << >> ELSE <<Publish(m.reply, Counted(m.body))>>

\* What follows the prefix and its dot, if there is one.
Suffix(subject) ==
  IF Len(subject) > Len(SUBJECT_PREFIX) /\ IsPrefix(SUBJECT_PREFIX, subject)
  THEN SubSeq(subject, Len(SUBJECT_PREFIX) + 1, Len(subject)) ELSE << >>

KvStore(m) ==
  LET key == Suffix(m.subject)
  IN IF key = << >> \/ key = <<"">> \/ Len(key) > 1 THEN << >>
     ELSE << [call |-> "open"], [call |-> "put", key |-> key[1], body |-> m.body],
             Receipt(<<"done", "demo", "records">>, <<key[1], "revision">>) >>

KvWatcher(e) ==
  LET what == CASE e.operation = "put" -> <<"put", e.bytes>>
                [] e.operation = "delete" -> <<"delete", 0>>
                [] e.operation = "purge" -> <<"purge", 0>>
  IN <<Receipt(<<"done", "demo", "kv">>, <<e.key, e.revision, what>>)>>

(* The handlers in Go                                                      *)

GoCoreSubscriber(m) ==
  IF ~m.body.text THEN << >> ELSE <<Receipt(RECEIPT_SUBJECT, <<m.body.chars>>)>>

GoFanOut(m) == [i \in DOMAIN GoTargets |-> Publish(GoTargets[i], m.body)]

\* Mutant of GoRequestReply: the reply names the subject of the request.
GoReplyPassedOn(m) ==
  IF m.reply = None THEN << >>
  ELSE <<[Publish(m.reply, Counted(m.body)) EXCEPT !.reply = m.reply]>>

GoRequestReply(m) ==
  IF m.reply = None THEN << >> ELSE <<Publish(m.reply, Counted(m.body))>>

GoKvStore(m) ==
  LET prefixed == IsPrefix(SUBJECT_PREFIX, m.subject) /\ Len(m.subject) > Len(SUBJECT_PREFIX)
      key == IF prefixed THEN SubSeq(m.subject, Len(SUBJECT_PREFIX) + 1, Len(m.subject)) ELSE << >>
  IN IF ~prefixed \/ key = <<"">> \/ Len(key) > 1 THEN << >>
     ELSE << [call |-> "open"], [call |-> "put", key |-> key[1], body |-> m.body],
             Receipt(<<"done", "demo", "records">>, <<key[1], "revision">>) >>

GoKvWatcher(e) ==
  LET what == IF e.operation = "put" THEN <<"put", e.bytes>>
              ELSE IF e.operation \in {"delete", "purge"} THEN <<e.operation, 0>>
              ELSE <<"unknown", 0>>
  IN <<Receipt(<<"done", "demo", "kv">>, <<e.key, e.revision, what>>)>>

Handler(template, go, m) ==
  CASE template = "core-subscriber" -> IF go THEN GoCoreSubscriber(m) ELSE CoreSubscriber(m)
    [] template = "fan-out"         -> IF go THEN GoFanOut(m) ELSE FanOut(m)
    [] template = "request-reply"   -> IF go THEN GoRequestReply(m) ELSE RequestReply(m)
    [] template = "kv-store"        -> IF go THEN GoKvStore(m) ELSE KvStore(m)
    [] template = "kv-watcher"      -> IF go THEN GoKvWatcher(m) ELSE KvWatcher(m)

-----------------------------------------------------------------------------
(* Errors as Go prints them: the name of a variant, and what it carries.   *)

\* Variants of nats-error that carry a text or a number.
Carrying == {"Connection", "Timeout", "MaxPayloadExceeded", "InvalidHeader", "Jetstream",
             "RevisionMismatch", "LimitExceeded", "NotFound", "UnsupportedByServer", "Unexpected"}
Bare == {"NoResponders", "KeyNotFound", "NoMessages", "Disconnected", "AlreadySettled",
         "AckOwnedByHost"}

Reasons == {"Reserved", "NotGranted", "WildcardNotAllowed"}
Targets == {"Subject", "Stream", "Bucket", "Message"}

NatsErrors ==
  [tag : Carrying, carries : 1..2] \cup [tag : Bare, carries : {0}]
    \cup [tag : {"Denied"}, reason : Reasons, target : Targets, number : 1..2, name : 1..2]

denialReason(r) ==
  IF r = "Reserved" THEN "Reserved"
  ELSE IF r = "NotGranted" THEN "NotGranted" ELSE "WildcardNotAllowed"

\* Only a message has a number.
deniedResource(e) ==
  IF e.target \in {"Subject", "Stream", "Bucket"} THEN <<e.target, 0>>
  ELSE <<"Message", e.number>>

\* A variant that this code does not know is printed by its tag.
ErrString(e) ==
  IF e.tag = "Denied"
  THEN <<"Denied", denialReason(e.reason), deniedResource(e), e.name>>
  ELSE IF e.tag \in Carrying THEN <<e.tag, e.carries>>
  ELSE IF e.tag \in Bare THEN <<e.tag>> ELSE <<"NatsError", e.tag>>

-----------------------------------------------------------------------------
(* Handlers at work                                                        *)

VARIABLES
  calls,      \* calls of handlers: [template, go, message, made, todo, revision, end]
  bus,        \* core messages to the request subject that handlers published
  replies,    \* how many replies were published
  history,    \* the changes of the bucket; a revision is a place in it
  receipts    \* the receipts in the stream

vars == <<calls, bus, replies, history, receipts>>

Called(template, go, m) ==
  /\ Len(calls) < MaxCalls
  /\ calls' = Append(calls, [template |-> template, go |-> go, message |-> m, made |-> << >>,
                             todo |-> Handler(template, go, m), revision |-> 0, end |-> "none"])

\* hops, which no handler sees, tells a client's message from what a handler published.
Message(subject, body, reply, hops) ==
  [subject |-> subject, body |-> body, reply |-> reply, hops |-> hops]

RecordSubjects == {SUBJECT_PREFIX} \cup {Append(SUBJECT_PREFIX, k) : k \in Keys}
                    \cup {SUBJECT_PREFIX \o <<"", "k">>, <<"demo", "records2", "k">>}

\* What clients publish to the subjects that the templates subscribe to.
Sent(template) ==
  CASE template = "request-reply" ->
         {Message(REQUESTS, b, r, 0) : b \in Bodies, r \in {None, INBOX, REQUESTS}}
    [] template = "kv-store" -> {Message(s, b, None, 0) : s \in RecordSubjects, b \in Bodies}
    [] OTHER -> {Message(<<"demo", "events">>, b, None, 0) : b \in Bodies}

Arrive ==
  /\ \E template \in {"core-subscriber", "fan-out", "request-reply", "kv-store"}, go \in BOOLEAN :
       \E m \in Sent(template) : Called(template, go, m)
  /\ UNCHANGED <<bus, replies, history, receipts>>

\* A reply to the request subject itself is a message like any other.
Bounce ==
  /\ \E m \in bus, go \in BOOLEAN : Called("request-reply", go, m) /\ bus' = bus \ {m}
  /\ UNCHANGED <<replies, history, receipts>>

\* Another writer removes a key, once.
Change ==
  /\ \E op \in {"delete", "purge"}, k \in Keys \ {""} :
       /\ \A i \in DOMAIN history : history[i].by # 0
       /\ history' = Append(history, [key |-> k, operation |-> op, bytes |-> 0, by |-> 0])
  /\ UNCHANGED <<calls, bus, replies, receipts>>

\* The watcher is called for a change, again if the watch replays.
Watch ==
  /\ \E i \in DOMAIN history, go \in BOOLEAN :
       Called("kv-watcher", go, [key |-> history[i].key, operation |-> history[i].operation,
                                 bytes |-> history[i].bytes, revision |-> i])
  /\ UNCHANGED <<bus, replies, history, receipts>>

\* What a call of the host does once it is applied.
Apply(i, h) ==
  /\ history' = IF h.call = "put"
                THEN Append(history, [key |-> h.key, operation |-> "put", bytes |-> h.body.bytes, by |-> i])
                ELSE history
  /\ receipts' = IF h.call = "jetstream"
                 THEN receipts \cup {[of |-> i, body |-> h.body, revision |-> calls[i].revision]}
                 ELSE receipts
  /\ replies' = IF h.call = "core" /\ calls[i].template = "request-reply" THEN replies + 1 ELSE replies
  /\ bus' = IF h.call = "core" /\ h.subject = REQUESTS
            THEN bus \cup {Message(h.subject, [text |-> TRUE, chars |-> 0, bytes |-> 0], h.reply, 1)}
            ELSE bus

Running(i) == calls[i].end = "none"

CallSucceeds(i) ==
  /\ Running(i) /\ calls[i].todo # << >>
  /\ LET h == Head(calls[i].todo)
     IN /\ Apply(i, h)
        /\ calls' = [calls EXCEPT ![i].made = Append(@, h), ![i].todo = Tail(@),
                       ![i].revision = IF h.call = "put" THEN Len(history) + 1 ELSE @]

\* Applied or not, what fails is reported as an error and nothing follows it.
CallFails(i) ==
  /\ Running(i) /\ calls[i].todo # << >>
  /\ Apply(i, Head(calls[i].todo)) \/ UNCHANGED <<bus, replies, history, receipts>>
  /\ calls' = [calls EXCEPT ![i].end = "err"]

Return(i) ==
  /\ Running(i) /\ calls[i].todo = << >>
  /\ calls' = [calls EXCEPT ![i].end = "ok"]
  /\ UNCHANGED <<bus, replies, history, receipts>>

Init ==
  /\ calls = << >> /\ bus = {} /\ replies = 0 /\ history = << >> /\ receipts = {}

Next ==
  \/ Arrive \/ Bounce \/ Change \/ Watch
  \/ \E i \in DOMAIN calls : CallSucceeds(i) \/ CallFails(i) \/ Return(i)

Spec == Init /\ [][Next]_vars

-----------------------------------------------------------------------------

\* A client's request that asks for a reply gets at most one, and a reply that comes back as
\* a request gets none: nothing bounces twice.
RepliesEnd ==
  replies <= Cardinality({i \in DOMAIN calls :
               calls[i].template = "request-reply" /\ calls[i].message.reply # None
                 /\ calls[i].message.hops = 0})

\* A receipt of a record names the revision that its own message became, and a
\* receipt of a change what the bucket says of that revision, in whatever order
\* handlers run and changes are replayed.
ReceiptsAreTrue ==
  \A r \in receipts :
    /\ calls[r.of].template = "kv-store" =>
         /\ history[r.revision].by = r.of
         /\ history[r.revision].key = r.body[1]
         /\ \A s \in receipts : s.revision = r.revision => s = r
    /\ calls[r.of].template = "kv-watcher" =>
         LET change == history[r.body[2]]
         IN r.body = <<change.key, r.body[2], <<change.operation, change.bytes>> >>

\* A handler that returns Ok has made every call its template makes, in the other
\* language as well; one that fails has made the first of them.
LanguagesAgree ==
  \A i \in DOMAIN calls :
    LET c == calls[i]
        other == Handler(c.template, ~c.go, c.message)
    IN /\ IsPrefix(c.made, other)
       /\ c.end = "ok" => c.made = other

\* Two errors are printed alike only if they differ in a number that only a message
\* has; no state is read, so one state is enough.
ErrorsAreTold ==
  calls = << >> => \A e, f \in NatsErrors : ErrString(e) = ErrString(f) =>
    \/ e = f
    \/ e.tag = "Denied" /\ e.target # "Message" /\ [e EXCEPT !.number = f.number] = f

TemplatesKeepTheirWord == RepliesEnd /\ ReceiptsAreTrue /\ LanguagesAgree /\ ErrorsAreTold
=============================================================================
