----------------------------- MODULE RequestBin -----------------------------
(***************************************************************************)
(* Bins that record what was sent to them.  A bin is the text of a JSON    *)
(* array in the key-value store, newest record first; a record is spliced  *)
(* into the text without parsing it.  Requests are served at once, each in *)
(* an instance of its own, and interleave between their calls of the       *)
(* store.                                                                  *)
(*                                                                         *)
(* Bytes are of the kinds the code tells apart: a quote, a backslash,      *)
(* braces, a comma, a control character, and the first and the second byte *)
(* of a two-byte character.                                                *)
(***************************************************************************)
EXTENDS Naturals, Integers, Sequences, SequencesExt, FiniteSets, Functions

CONSTANTS
  Requests,
  Octets,         \* kinds of bytes that clients send
  Postings,       \* what clients send: headers and a body
  MAX_REQUESTS, MAX_BODY_KEPT, MAX_BODY_READ,
  MaxFailures     \* bound on calls that fail

First(s, n) == IF Len(s) <= n THEN s ELSE SubSeq(s, 1, n)

QUOTE == "'"
BACKSLASH == "\\"
CONTROL == "0"
FIRST == "F"
SECOND == "S"
REPLACEMENT == "?"

-----------------------------------------------------------------------------
(* Text                                                                    *)

Escaped(c) == IF c \in {QUOTE, BACKSLASH} THEN <<BACKSLASH, c>>
              ELSE IF c = CONTROL THEN <<BACKSLASH, "u">> ELSE <<c>>

json_escape(s) == FlattenSeq([i \in DOMAIN s |-> Escaped(s[i])])

q(s) == <<QUOTE>> \o json_escape(s) \o <<QUOTE>>

\* A first byte is before place i just if a second is at it.
Fits(bytes, i) ==
  (i > 1 /\ bytes[i - 1] = FIRST) <=> (i <= Len(bytes) /\ bytes[i] = SECOND)

IsUtf8(bytes) == \A i \in 1..(Len(bytes) + 1) : Fits(bytes, i)

\* from_utf8_lossy: a mark in the place of a byte that is of no character.
Lossy(bytes) ==
  [i \in DOMAIN bytes |->
     IF \/ bytes[i] = FIRST /\ ~Fits(bytes, i + 1)
        \/ bytes[i] = SECOND /\ ~Fits(bytes, i)
     THEN REPLACEMENT ELSE bytes[i]]

IsText(bytes) == IsUtf8(bytes) /\ CONTROL \notin Range(bytes)

body_repr(bytes) ==
  IF IsText(bytes) THEN [repr |-> bytes, text |-> TRUE]
  ELSE [repr |-> <<"#">>, text |-> FALSE]

\* Where a body is cut: not before the second byte of a character.
Cut(body) ==
  IF Len(body) <= MAX_BODY_KEPT THEN Len(body)
  ELSE CHOOSE k \in 0..MAX_BODY_KEPT :
         /\ k = 0 \/ body[k + 1] # SECOND
         /\ \A j \in (k + 1)..MAX_BODY_KEPT : body[j + 1] = SECOND

\* One list of values a header name, in the order of the names' first use.
Group(groups, h) ==
  IF \E i \in DOMAIN groups : groups[i].name = h.name
  THEN [i \in DOMAIN groups |->
          IF groups[i].name = h.name
          THEN [groups[i] EXCEPT !.values = Append(@, Lossy(h.value))] ELSE groups[i]]
  ELSE Append(groups, [name |-> h.name, values |-> <<Lossy(h.value)>>])

Grouped(headers) == FoldLeft(Group, << >>, headers)

\* record_json, before and after it is text.
Record(sent) ==
  LET body == First(sent.body, MAX_BODY_READ)
      kept == body_repr(SubSeq(body, 1, Cut(body)))
  IN [headers |-> Grouped(sent.headers), body |-> kept.repr, text |-> kept.text,
      bytes |-> Len(body), truncated |-> Len(body) > MAX_BODY_KEPT]

Comma(s, t) == IF s = << >> THEN t ELSE s \o <<",">> \o t

Joined(texts) == FoldLeft(Comma, << >>, texts)

header_json(g) == q(g.name) \o <<":">> \o Joined([i \in DOMAIN g.values |-> q(g.values[i])])

record_json(r) ==
  <<"{">> \o <<"{">> \o Joined([i \in DOMAIN r.headers |-> header_json(r.headers[i])]) \o <<"}">>
    \o q(r.body) \o <<"}">>

\* Mutant of Scanned: strings are not looked for.
ScannedNaively(s, c) ==
  [depth  |-> s.depth + (IF c = "{" THEN 1 ELSE IF c = "}" THEN -1 ELSE 0),
   string |-> FALSE, escaped |-> FALSE,
   piece  |-> IF s.depth = 0 /\ c # "{" THEN << >> ELSE Append(s.piece, c),
   pieces |-> IF c = "}" /\ s.depth = 1 THEN Append(s.pieces, Append(s.piece, c)) ELSE s.pieces]

\* split_objects, one character.
Scanned(s, c) ==
  IF s.string
  THEN [s EXCEPT !.escaped = ~s.escaped /\ c = BACKSLASH,
                 !.string = s.escaped \/ c # QUOTE,
                 !.piece = Append(@, c)]
  ELSE [depth  |-> s.depth + (IF c = "{" THEN 1 ELSE IF c = "}" THEN -1 ELSE 0),
        string |-> c = QUOTE, escaped |-> FALSE,
        piece  |-> IF s.depth = 0 /\ c # "{" THEN << >> ELSE Append(s.piece, c),
        pieces |-> IF c = "}" /\ s.depth = 1 THEN Append(s.pieces, Append(s.piece, c)) ELSE s.pieces]

Before == [depth |-> 0, string |-> FALSE, escaped |-> FALSE, piece |-> << >>, pieces |-> << >>]

split_objects(text) == FoldLeft(Scanned, Before, text).pieces

\* What is between the brackets of the array.
Inner(text) == IF text = << >> THEN << >> ELSE SubSeq(text, 2, Len(text) - 1)

Spliced(text, record) ==
  LET parts == <<record>> \o split_objects(Inner(text))
  IN <<"[">> \o Joined(First(parts, MAX_REQUESTS)) \o <<"]">>

-----------------------------------------------------------------------------
(* Requests                                                                *)

VARIABLES
  bin,       \* the key of the bin in the store: its text, if there is one
  pc, route,
  sent,      \* what the client sends
  read,      \* the text it has read
  status,    \* 0 before the response
  failures,
  wanted,    \* the records, newest first, had each been added in one step
  raced      \* whether a text was written over one that was not read

vars == <<bin, pc, route, sent, read, status, failures, wanted, raced>>

None == {}
Some(x) == {x}

\* What get returns, an empty text for nothing.
Stored == IF bin = None THEN << >> ELSE CHOOSE t \in bin : TRUE

Goto(r, p) == pc' = [pc EXCEPT ![r] = p]
Respond(r, code) == status' = [status EXCEPT ![r] = code] /\ Goto(r, "done")

\* route(); the paths without a store and ids that cannot be one are answered.
Route(r) ==
  /\ pc[r] = "new"
  /\ \E w \in {"record", "create", "show", "forget", "page", "bad id", "other"} :
       /\ route' = [route EXCEPT ![r] = w]
       /\ CASE w = "page" -> Respond(r, 200)
            [] w = "bad id" -> \E code \in {400, 404} : Respond(r, code)
            [] w = "other" -> Respond(r, 404)
            [] OTHER -> Goto(r, w) /\ UNCHANGED status
  /\ UNCHANGED <<bin, sent, read, failures, wanted, raced>>

\* A new bin has an id nobody knows yet: only the first can be this one.
Create(r) ==
  /\ pc[r] = "create"
  /\ bin = None /\ \A s \in Requests : route[s] = "create" => status[s] # 200
  /\ bin' = Some(<<"[", "]">>) /\ wanted' = << >>
  /\ Respond(r, 200)
  /\ UNCHANGED <<route, sent, read, failures, raced>>

Show(r) ==
  /\ pc[r] = "show"
  /\ read' = [read EXCEPT ![r] = Stored]
  /\ Respond(r, IF bin = None THEN 404 ELSE 200)
  /\ UNCHANGED <<bin, route, sent, failures, wanted, raced>>

Forgotten == bin' = None /\ wanted' = << >>

Forget(r) ==
  /\ pc[r] = "forget"
  /\ Forgotten
  /\ Respond(r, 200)
  /\ UNCHANGED <<route, sent, read, failures, raced>>

\* A record is for a bin that exists, and then its body is read.
Exists(r) ==
  /\ pc[r] = "record"
  /\ IF bin = None THEN Respond(r, 404) /\ UNCHANGED sent
     ELSE /\ \E s \in Postings : sent' = [sent EXCEPT ![r] = Some(s)]
          /\ Goto(r, "body") /\ UNCHANGED status
  /\ UNCHANGED <<bin, route, read, failures, wanted, raced>>

ReadBody(r) ==
  /\ pc[r] = "body"
  /\ \/ Goto(r, "append") /\ UNCHANGED status
     \/ Respond(r, 400)
  /\ UNCHANGED <<bin, route, sent, read, failures, wanted, raced>>

\* append; a bin that is gone reads as an empty text.
AppendGet(r) ==
  /\ pc[r] = "append"
  /\ read' = [read EXCEPT ![r] = Stored]
  /\ Goto(r, "set")
  /\ UNCHANGED <<bin, route, sent, status, failures, wanted, raced>>

\* The store takes the text.
Appended(r) ==
  /\ \E s \in sent[r] :
       /\ bin' = Some(Spliced(read[r], record_json(Record(s))))
       /\ wanted' = First(<<Record(s)>> \o wanted, MAX_REQUESTS)
  /\ raced' = (raced \/ Stored # read[r])

AppendSet(r) ==
  /\ pc[r] = "set"
  /\ Appended(r)
  /\ Respond(r, 200)
  /\ UNCHANGED <<route, sent, read, failures>>

\* Every request opens the store first, the page included.  A write that fails may
\* have been taken; a bin created so has an id that nobody is told, and is not this one.
StoreFails(r) ==
  /\ pc[r] \in {"new", "create", "show", "forget", "record", "append", "set"}
  /\ failures < MaxFailures /\ failures' = failures + 1
  /\ Respond(r, 500)
  /\ \/ UNCHANGED <<bin, wanted, raced>>
     \/ pc[r] = "forget" /\ Forgotten /\ UNCHANGED raced
     \/ pc[r] = "set" /\ Appended(r)
  /\ UNCHANGED <<route, sent, read>>

Init ==
  /\ bin \in {None, Some(<<"[", "]">>)} /\ wanted = << >> /\ raced = FALSE
  /\ pc = [r \in Requests |-> "new"]
  /\ route = [r \in Requests |-> "none"]
  /\ sent = [r \in Requests |-> None]
  /\ read = [r \in Requests |-> << >>]
  /\ status = [r \in Requests |-> 0]
  /\ failures = 0

Next == \E r \in Requests :
  \/ Route(r) \/ Create(r) \/ Show(r) \/ Forget(r) \/ Exists(r) \/ ReadBody(r)
  \/ AppendGet(r) \/ AppendSet(r) \/ StoreFails(r)

Spec == Init /\ [][Next]_vars

-----------------------------------------------------------------------------

\* The values of a header, in their order, and what is to be seen of them.
Values(headers, name) ==
  FoldLeft(LAMBDA values, h : IF h.name = name THEN Append(values, h.value) ELSE values, << >>, headers)

Shows(values, sentValues) ==
  /\ Len(values) = Len(sentValues)
  /\ \A i \in DOMAIN values : IsUtf8(sentValues[i]) => values[i] = sentValues[i]

\* A record says what was sent: the values of every header in their order, each as
\* it is if it is UTF-8, and a body that is shown as text if it is text, as much of it
\* as is kept.
Truthful(s, record) ==
  /\ \A i, j \in DOMAIN record.headers :
       record.headers[i].name = record.headers[j].name => i = j
  /\ \A name \in {h.name : h \in Range(s.headers)} : \E i \in DOMAIN record.headers :
       /\ record.headers[i].name = name
       /\ Shows(record.headers[i].values, Values(s.headers, name))
  /\ IsText(s.body) =>
       /\ record.text /\ IsPrefix(record.body, s.body)
       /\ ~record.truncated => record.body = s.body
       /\ record.truncated => Len(record.body) \in (MAX_BODY_KEPT - 1)..MAX_BODY_KEPT

\* As long as no text is written over one that was not read, a bin is the newest
\* records, each whole and truthful, whatever quotes and braces were sent.
BinIsItsRecords ==
  /\ \A r \in Requests : \A s \in sent[r] : Truthful(s, Record(s))
  /\ ~raced => \A text \in bin :
       split_objects(Inner(text)) = [i \in DOMAIN wanted |-> record_json(wanted[i])]
=============================================================================
