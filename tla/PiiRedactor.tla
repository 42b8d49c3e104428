----------------------------- MODULE PiiRedactor -----------------------------
(***************************************************************************)
(* pii-redactor-mcp: which of the things that look like personal data are  *)
(* replaced, and what is left.  The patterns are what finds the candidates *)
(* of a text: spans of it with a category and, for a card, its digits.     *)
(***************************************************************************)
EXTENDS Integers, Sequences, FiniteSets, SequencesExt, FiniteSetsExt, Functions

CONSTANTS
  Requests,         \* texts with their candidates, and the types asked for
  MAX_INPUT_BYTES

VARIABLES given, made

KNOWN_TYPES == <<"email", "us_ssn", "phone", "credit_card", "ipv4", "aws_access_key_id">>

\* Which of two that start together wins: the lower.
precedence ==
  [email |-> 0, aws_access_key_id |-> 1, credit_card |-> 2, us_ssn |-> 3, ipv4 |-> 4, phone |-> 5]

\* Every second digit from the right counts twice, its digits apart.
luhn_valid(digits) ==
  LET n == Len(digits)
      Worth(i) == IF (n - i) % 2 = 0 THEN digits[i]
                  ELSE IF 2 * digits[i] > 9 THEN 2 * digits[i] - 9 ELSE 2 * digits[i]
  IN n \in 13..19 /\ FoldLeft(+, 0, [i \in 1..n |-> Worth(i)]) % 10 = 0

\* The categories to look for: all, or those named, if all of them are known.
Enabled(types) == IF types = {} THEN Range(KNOWN_TYPES) ELSE UNION {Range(t) : t \in types}

Candidates(text, enabled) ==
  {c \in text.candidates :
     c.category \in enabled /\ (c.category = "credit_card" => luhn_valid(c.digits))}

\* Mutant of Before: the longer one first, wherever they start.
LongerFirst(a, b) == b.end - b.start < a.end - a.start

Before(a, b) ==
  \/ a.start < b.start
  \/ a.start = b.start /\ precedence[a.category] < precedence[b.category]
  \/ a.start = b.start /\ precedence[a.category] = precedence[b.category]
       /\ b.end - b.start < a.end - a.start

\* The candidates, none of them after one it is before.
InOrder(found) ==
  CHOOSE s \in SetToSeqs(found) : \A i, k \in DOMAIN s : i < k => ~Before(s[k], s[i])

\* From left to right, a candidate that starts in one already taken is passed over.
Accept(st, span) ==
  IF span.start < st.cursor THEN st
  ELSE [cursor |-> span.end,
        out |-> st.out \o [i \in 1..span.start - st.cursor |-> st.cursor + i - 1]
                  \o <<-precedence[span.category] - 1>>,
        spans |-> Append(st.spans, span)]

Pass(spans) == FoldLeft(Accept, [cursor |-> 0, out |-> << >>, spans |-> << >>], spans)

\* What is left: the places of the text, and a placeholder below them for each span.
redact(text, enabled) ==
  LET st == Pass(InOrder(Candidates(text, enabled)))
  IN [redacted |-> st.out \o [i \in 1..text.bytes - st.cursor |-> st.cursor + i - 1],
      counts |-> [c \in enabled |-> Cardinality({i \in DOMAIN st.spans : st.spans[i].category = c})],
      total |-> Len(st.spans)]

Init == given \in Requests /\ made = << >>

\* The tool: text that is too long, and types that are not known, are refused.
Redact ==
  /\ made = << >>
  /\ LET enabled == Enabled(given.types)
         refused == given.text.bytes > MAX_INPUT_BYTES \/ ~(enabled \subseteq Range(KNOWN_TYPES))
     IN made' = <<IF refused THEN {} ELSE {redact(given.text, enabled)}>>
  /\ UNCHANGED given

Next == Redact
Spec == Init /\ [][Next]_<<given, made>>

-----------------------------------------------------------------------------
(***************************************************************************)
(* What is redacted is accounted for: the text's places come out in their  *)
(* order, each once or behind a placeholder; no candidate comes out whole  *)
(* nor with its first place; every placeholder is counted, under a type    *)
(* that was asked for; and a card whose digit was changed is no card.      *)
(***************************************************************************)
RedactionIsAccounted ==
  \A results \in Range(made) : \A r \in results :
    LET places == {i \in DOMAIN r.redacted : r.redacted[i] >= 0}
        kept   == {r.redacted[i] : i \in places}
        found  == Candidates(given.text, DOMAIN r.counts)
    IN /\ \A i, k \in places : i < k => r.redacted[i] < r.redacted[k]
       /\ kept \subseteq 0..given.text.bytes - 1
       /\ \A x \in (0..given.text.bytes - 1) \ kept : \E c \in found : x \in c.start..c.end - 1
       /\ \A c \in found : c.start \notin kept
       /\ r.total = Cardinality(DOMAIN r.redacted \ places)
       /\ \A c \in DOMAIN r.counts :
            r.counts[c] = Cardinality({i \in DOMAIN r.redacted : r.redacted[i] = -precedence[c] - 1})
       /\ Cardinality(given.text.candidates) = 1 =>
            \A c \in given.text.candidates : \A i \in DOMAIN c.digits : \A d \in 0..9 :
              luhn_valid(c.digits) /\ d # c.digits[i] => ~luhn_valid([c.digits EXCEPT ![i] = d])
=============================================================================
