---------------------------- MODULE MCMcpServers ----------------------------
(***************************************************************************)
(* Texts, pages, advisories, instants and repositories for the MCP servers *)
(* to be asked about by TLC.                                               *)
(***************************************************************************)
EXTENDS McpServers

Strings(set, n) == UNION {[1..k -> set] : k \in 0..n}

-----------------------------------------------------------------------------
(* Texts with spans that overlap, touch and start together; cards with a   *)
(* right and a wrong digit.                                                *)

Span(s, e, c) == [start |-> s, end |-> e, category |-> c, digits |-> << >>]
Card(s, e, digits) == [Span(s, e, "credit_card") EXCEPT !.digits = digits]
Visa  == <<4, 5, 3, 9, 1, 4, 8, 8, 0, 3, 4, 3, 6, 4, 6, 7>>
Wrong == <<4, 5, 3, 9, 1, 4, 8, 8, 0, 3, 4, 3, 6, 4, 7, 6>>

Spans ==
  {Span(s, s + n, c) : s \in {0, 2, 3}, n \in {2, 4}, c \in {"email", "us_ssn", "phone"}}
  \cup {Card(2, 5, Visa), Card(2, 6, Wrong), Card(4, 6, Visa \o <<0>>)}

Types == {{}, {<<"phone", "credit_card">>}, {<<"email">>}, {<<"email", "name">>}, {<< >>}}

SomeTexts ==
  {[text |-> [bytes |-> 8, candidates |-> {a, b, c}], types |-> t] :
     a \in Spans, b \in Spans, c \in Spans, t \in Types}
  \cup {[text |-> [bytes |-> 9, candidates |-> {}], types |-> {}]}

-----------------------------------------------------------------------------
(* Pages from parts, with what a reader sees of each; URLs with a user, a  *)
(* port, and separators where they do not separate.                        *)

Seen(pieces, sees) == [pieces |-> pieces, sees |-> sees]
Hidden(pieces) == Seen(pieces, <<" ">>)

Parts ==
  {Seen(<<"a">>, <<"a">>), Hidden(<<" ">>), Seen(<<"&", "lt;">>, <<"<">>),
   Seen(<<"&", "amp;">>, <<"&">>), Hidden(<<"&", "nbsp;">>),
   Hidden(<<"<p", "a", ">">>), Hidden(<<"<p", "-->">>), Hidden(<<"<style", "<!--", "</style>">>)}
  \cup {Hidden(<<"<script">> \o b \o <<"</script>">>) :
          b \in Strings({"a", "<p", ">", "-->", "<!--", "</style>"}, 1)}
  \cup {Hidden(<<"<!--">> \o b \o <<"-->">>) :
          b \in Strings({"a", "<p", ">", "<script", "</script>"}, 1)}

WordsOf(parts) ==
  LET Add(ws, x) == IF x = " " THEN Append(ws, << >>) ELSE [ws EXCEPT ![Len(ws)] = Append(@, x)]
  IN SelectSeq(FoldLeft(Add, <<<< >>>>, FlattenSeq([i \in DOMAIN parts |-> parts[i].sees])),
               LAMBDA w : w # << >>)

Page(parts) == FlattenSeq([i \in DOMAIN parts |-> parts[i].pieces])

Body(type, body) == [kind |-> "answer", status |-> 200, type |-> type, body |-> body]
Ask(url, format, outcome) ==
  [url |-> url, format |-> format, outcome |-> outcome, words |-> {}, host |-> {}]
Site == <<"http", "://", "h">>

Urls ==
  {[url |-> <<s, "://">> \o user \o <<"h">> \o port \o rest, host |-> {<<"h">>}] :
     s \in {"http", "https", "file"},
     user \in {<< >>, <<"user", "@">>, <<"user", ":", "pass", "@">>},
     port \in {<< >>, <<":", "80">>},
     rest \in {<< >>, <<"/", "a", "@", "b">>, <<"?", "u", "http", "://", "x", ":", "1">>, <<"#", "a">>}}
  \cup {[url |-> u, host |-> {}] : u \in {<< >>, <<"h">>, <<"http", "://">>, <<"http", "://", "user", "@", "/", "a">>}}

\* How a page may stop, in something that is never closed and that nobody sees.
Unclosed ==
  {<<o, "a">> : o \in {"<script", "<style", "<!--", "<p"}}
  \cup {<<"<script", "a", "-->", "a">>, <<"<!--", "<p", ">", "a">>, <<"<p">>}

SomeFetches ==
  {[Ask(Site, "text", Body("html", Page(p))) EXCEPT !.words = {WordsOf(p)}] : p \in Strings(Parts, 3)}
  \cup {[Ask(Site, "text", Body("html", Page(p) \o u)) EXCEPT !.words = {WordsOf(p)}] :
          p \in Strings(Parts, 2), u \in Unclosed}
  \cup {[Ask(u.url, "text", [Body("html", <<"a">>) EXCEPT !.kind = k]) EXCEPT !.host = u.host] :
          u \in Urls, k \in {"refused", "failed", "answer"}}
  \cup {Ask(Site, f, Body(t, b)) :
          f \in {"raw", "text"}, t \in {"html", "plain", "image"},
          b \in {<< >>, [i \in 1..9 |-> "a"], [i \in 1..10 |-> "a"], <<"<!--", "a">>,
                 <<"a", "<p", "a">>, <<"<script">>}}

-----------------------------------------------------------------------------
(* Advisories whose ranges are one interval or two, in either order of     *)
(* their events; details that end in the middle of a character.            *)

Event(kind, v) == [kind |-> kind, at |-> v]

EventLists ==
  {<< >>, <<Event("introduced", 1)>>, <<Event("introduced", 0), Event("fixed", 2)>>,
   <<Event("fixed", 3), Event("introduced", 1)>>, <<Event("introduced", 1), Event("last_affected", 2)>>,
   <<Event("introduced", 1), Event("fixed", 2), Event("introduced", 3), Event("fixed", 4)>>,
   <<Event("last_affected", 4), Event("introduced", 4)>>}

Packages == {[package |-> "x", ranges |-> r, severity |-> s] : r \in Strings(EventLists, 2), s \in {<< >>, <<5>>}}

Details ==
  {[i \in 1..n |-> "begins"] : n \in {0, 3, 4, 5}}
  \cup {<<"begins", "begins", "begins", "begins", "continues", "begins">>,
        <<"begins", "begins", "continues", "continues", "continues">>}

Advisory(affected, s, d) ==
  [severity |-> s, affected |-> affected, details |-> d, references |-> <<"a", "", "b", "c">>]
Advisories ==
  {Advisory(<<p>>, s, <<"begins">>) : p \in Packages, s \in {<< >>, <<7>>}}
  \cup {Advisory(<<p, q>>, << >>, d) : p, q \in {x \in Packages : Len(x.ranges) = 1}, d \in Details}

Vulns(status, vulns) == [kind |-> "answer", status |-> status, decodes |-> TRUE, vulns |-> vulns]

SomeVersions == 0..5
SomeLookups ==
  {[tool |-> t, outcome |-> Vulns(200, <<v>>)] : t \in {"lookup", "get"}, v \in Advisories}
  \cup {[tool |-> t, outcome |-> [Vulns(s, << >>) EXCEPT !.kind = k, !.decodes = d]] :
          t \in {"lookup", "get"}, k \in {"answer", "refused", "failed"},
          s \in {200, 404, 500}, d \in BOOLEAN}

-----------------------------------------------------------------------------
(* The days on which months and years begin and end, in a day of two       *)
(* seconds, and days before the year 0.                                    *)

Calendar == INSTANCE Gregorian

Days ==
  {Calendar!DayOf(y, m, 1) - k : y \in 1599..2402, m \in {1, 3, 12}, k \in {0, 1}}
  \cup {-719529, -719468, -800000}

Position ==
  [kind |-> "answer", status |-> 200, decodes |-> TRUE, number |-> {}, people |-> <<"a">>,
   latitude |-> {[number |-> {}, string |-> {1}]}, longitude |-> {[number |-> {2}, string |-> {}]},
   timestamp |-> {}]

SomePasses ==
  {[tool |-> "where", outcome |-> [Position EXCEPT !.timestamp = {2 * d + s}]] : d \in Days, s \in 0..1}
  \cup {[tool |-> t, outcome |-> [Position EXCEPT !.kind = k, !.status = s, !.decodes = d,
                                                  !.number = n, !.latitude = l]] :
          t \in {"who", "where"}, k \in {"answer", "failed"}, s \in {200, 503},
          d \in BOOLEAN, n \in {{}, {7}}, l \in {{}, {[number |-> {}, string |-> {}]}}}

-----------------------------------------------------------------------------
(* Pull requests among the issues, and more issues than a page has.        *)

SomeIssues == {<<TRUE, FALSE>>, <<FALSE, FALSE, TRUE>>}
=============================================================================
