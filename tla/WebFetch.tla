------------------------------ MODULE WebFetch ------------------------------
(***************************************************************************)
(* web-fetch-mcp: what an agent is told of a page.  URLs and pages are     *)
(* sequences of pieces: separators, the openings and closings of markup,   *)
(* entities, white space and words.                                        *)
(***************************************************************************)
EXTENDS Integers, Sequences, FiniteSets, SequencesExt, FiniteSetsExt

CONSTANTS
  Requests,        \* a URL, a format, and what comes of the fetch
  MAX_BODY_BYTES   \* pieces of a body that are kept

VARIABLES given, made

\* The first place of s, after the first n, that is in set.
Find(s, set, n) == SelectInSubSeq(s, n + 1, Len(s), LAMBDA x : x \in set)
After(s, n) == SubSeq(s, n + 1, Len(s))

\* The pieces of s between those that are in set.
Split(s, set) ==
  LET Add(parts, x) == IF x \in set THEN Append(parts, << >>)
                       ELSE [parts EXCEPT ![Len(parts)] = Append(@, x)]
  IN FoldLeft(Add, <<<< >>>>, s)

\* Mutant of host_of: what is before a port is taken before what is after a user.
host_before_port(url) ==
  LET parts == Split(url, {"://"})
  IN IF Len(parts) < 2 THEN << >> ELSE Last(Split(Split(Split(parts[2], {"/", "?", "#"})[1], {":"})[1], {"@"}))

\* The host of a URL, or nothing: without the user and the port.
host_of(url) ==
  LET parts == Split(url, {"://"})
      authority == Split(parts[2], {"/", "?", "#"})[1]
  IN IF Len(parts) < 2 THEN << >> ELSE Split(Last(Split(authority, {"@"})), {":"})[1]

-----------------------------------------------------------------------------
(* A page as text.                                                         *)

Openings == ("<script" :> "</script>") @@ ("<style" :> "</style>") @@ ("<!--" :> "-->")
Tags     == DOMAIN Openings \cup {"</script>", "</style>", "<p"}   \* begin with <
Ends     == {">", "</script>", "</style>", "-->"}                  \* hold a >

\* Past an element that is skipped, or past a tag; nothing if it has no end.
Skipped(rest) ==
  LET last == IF rest[1] \in DOMAIN Openings THEN Find(rest, {Openings[rest[1]]}, 0)
              ELSE Find(rest, Ends, 0)
  IN IF last = 0 THEN << >> ELSE After(rest, last)

Unended(rest) == rest[1] \notin DOMAIN Openings /\ Find(rest, Ends, 0) = 0

\* One turn of the loop: the text before a tag, and a space for the tag.
Strip(st) ==
  LET pos  == Find(st.rest, Tags, 0)
      rest == After(st.rest, pos - 1)
  IN IF pos = 0 THEN st
     ELSE [out |-> st.out \o SubSeq(st.rest, 1, pos - 1) \o (IF Unended(rest) THEN << >> ELSE <<" ">>),
           rest |-> Skipped(rest)]

\* replace: s with y for each x, from left to right.
Replaced(s, x, y) ==
  LET Step(st, c) ==
        IF st # << >> /\ <<Last(st), c>> = x THEN Append(Front(st), y) ELSE Append(st, c)
  IN FoldLeft(Step, << >>, s)

Entities == <<<<"nbsp;", " ">>, <<"amp;", "&">>, <<"lt;", "<">>>>

decode_entities(s) == FoldLeft(LAMBDA t, e : Replaced(t, <<"&", e[1]>>, e[2]), s, Entities)

Joined(words) ==
  FlattenSeq([i \in DOMAIN words |-> IF i = 1 THEN words[i] ELSE <<" ">> \o words[i]])

html_to_text(page) ==
  LET end == FoldLeft(LAMBDA st, i : Strip(st), [out |-> << >>, rest |-> page], [i \in 1..Len(page) |-> i])
  IN Joined(SelectSeq(Split(decode_entities(end.out \o end.rest), {" "}), LAMBDA w : w # << >>))

-----------------------------------------------------------------------------
is_binary(type) == type \in {"image", "octets"}
is_html(type) == type = "html"

Error(kind, host) == [ok |-> FALSE, error |-> kind, host |-> host]

\* What the tool answers, given what the outbound client returned.
fetch_url(url, format, outcome) ==
  LET truncated == Len(outcome.body) > MAX_BODY_BYTES
      kept == SubSeq(outcome.body, 1, Min({MAX_BODY_BYTES, Len(outcome.body)}))
      content ==
        CASE is_binary(outcome.type) -> <<"summary">>
          [] ~is_binary(outcome.type) /\ format # "raw" /\ is_html(outcome.type) -> html_to_text(kept)
          [] ~is_binary(outcome.type) /\ (format = "raw" \/ ~is_html(outcome.type)) -> kept
  IN CASE host_of(url) = << >> -> Error("bad request", << >>)
       [] host_of(url) # << >> /\ Split(url, {"://"})[1] \notin {<<"http">>, <<"https">>} -> Error("bad request", << >>)
       [] OTHER ->
            CASE outcome.kind = "refused" -> Error("egress", host_of(url))
              [] outcome.kind = "failed"  -> Error("transport", << >>)
              [] outcome.kind = "answer"  -> [ok |-> TRUE, status |-> outcome.status,
                                              truncated |-> truncated, content |-> content]

Init == given \in Requests /\ made = << >>

Fetch ==
  /\ made = << >>
  /\ made' = <<fetch_url(given.url, given.format, given.outcome)>>
  /\ UNCHANGED given

Next == Fetch
Spec == Init /\ [][Next]_<<given, made>>

-----------------------------------------------------------------------------
(***************************************************************************)
(* What the agent is told is so: of a page that was written from parts, it *)
(* reads the words that a reader sees, in their order, and nothing of its  *)
(* scripts, styles and comments; an error names the host that was asked;   *)
(* and what is not marked as cut is the whole of what came.                *)
(***************************************************************************)
PageIsToldTruly ==
  /\ \A words \in given.words :
       \A m \in {made[i] : i \in DOMAIN made} : m.ok /\ ~m.truncated => m.content = Joined(words)
  /\ \A host \in given.host :
       \A m \in {made[i] : i \in DOMAIN made} : ~m.ok /\ m.error = "egress" => m.host = host
  /\ \A m \in {made[i] : i \in DOMAIN made} :
       m.ok /\ given.format = "raw" /\ ~is_binary(given.outcome.type) =>
         /\ IsPrefix(m.content, given.outcome.body)
         /\ m.truncated <=> m.content # given.outcome.body
=============================================================================
