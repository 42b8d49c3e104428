------------------------------ MODULE CsvTidy ------------------------------
(***************************************************************************)
(* csv-tidy: a hand-edited CSV in, rows by name and a list of what was     *)
(* wrong out.  A text is a sequence of pieces: a quote, the ends of lines, *)
(* delimiters, a space, the byte-order mark, and words.                    *)
(***************************************************************************)
EXTENDS Integers, Sequences, FiniteSets, SequencesExt, FiniteSetsExt

CONSTANTS
  Requests,      \* what is sent: method, path, text, and the rows written in it if known
  MAX_BODY,      \* pieces of a body
  MAX_ROWS_OUT,  \* rows shown
  MAX_SAMPLED,   \* rows a delimiter is judged by
  CANDIDATES     \* delimiters, the likeliest first

VARIABLES given, made

White == {" ", "tab", "CR", "LF"}

\* The field or name f without the white space around it.
Trim(f) ==
  LET ink == {i \in DOMAIN f : f[i] \notin White}
  IN IF ink = {} THEN << >> ELSE SubSeq(f, Min(ink), Max(ink))

is_blank(row) == \A i \in DOMAIN row : Trim(row[i]) = << >>

-----------------------------------------------------------------------------
(* The parser: what it holds after some pieces.                            *)

Start == [rows |-> << >>, row |-> << >>, field |-> << >>,
          in_quotes |-> FALSE, field_started_quoted |-> FALSE, skip |-> FALSE]

PushField(st) ==
  [st EXCEPT !.row = Append(@, st.field), !.field = << >>, !.field_started_quoted = FALSE]
PushRow(st) ==
  LET s == PushField(st) IN [s EXCEPT !.rows = Append(@, s.row), !.row = << >>]

InQuotes(st, c, next) ==
  CASE c # "quote"                    -> [st EXCEPT !.field = Append(@, c)]
    [] c = "quote" /\ next = "quote"  -> [st EXCEPT !.field = Append(@, c), !.skip = TRUE]
    [] c = "quote" /\ next # "quote"  -> [st EXCEPT !.in_quotes = FALSE]

Outside(st, c, next, delim) ==
  CASE c = "quote" /\ st.field = << >> /\ ~st.field_started_quoted
            -> [st EXCEPT !.in_quotes = TRUE, !.field_started_quoted = TRUE]
    [] c = delim -> PushField(st)
    [] c = "CR"  -> [PushRow(st) EXCEPT !.skip = next = "LF"]
    [] c = "LF"  -> PushRow(st)
    [] OTHER     -> [st EXCEPT !.field = Append(@, c)]

parse_csv(text, delim) ==
  LET Step(st, i) ==
        LET next == IF i < Len(text) THEN text[i + 1] ELSE "end"
        IN CASE st.skip                    -> [st EXCEPT !.skip = FALSE]
             [] ~st.skip /\ st.in_quotes   -> InQuotes(st, text[i], next)
             [] ~st.skip /\ ~st.in_quotes  -> Outside(st, text[i], next, delim)
      end == FoldLeft(Step, Start, [i \in 1..Len(text) |-> i])
      rows == IF end.field # << >> \/ end.row # << >> THEN PushRow(end).rows ELSE end.rows
  IN [rows |-> rows, open |-> end.in_quotes]

\* The widths of the rows that a delimiter is judged by.
Widths(rows) ==
  LET inked == SelectSeq(rows, LAMBDA row : ~is_blank(row))
  IN [i \in 1..Min({MAX_SAMPLED, Len(inked)}) |-> Len(inked[i])]

Judge(best, d, widths) ==
  LET ragged == Cardinality({i \in DOMAIN widths : widths[i] # widths[1]})
      better == best.width = 0 \/ ragged < best.ragged
                  \/ (ragged = best.ragged /\ widths[1] > best.width)
  IN IF widths # << >> /\ widths[1] >= 2 /\ better
     THEN [delim |-> d, width |-> widths[1], ragged |-> ragged] ELSE best

\* The delimiter that leaves the fewest rows of another width than the first.
sniff_delimiter(text) ==
  FoldLeft(LAMBDA best, d : Judge(best, d, Widths(parse_csv(text, d).rows)),
           [delim |-> CANDIDATES[1], width |-> 0, ragged |-> 0], CANDIDATES).delim

-----------------------------------------------------------------------------
(* Repair.                                                                 *)

to_ascii_lowercase(name) == [i \in DOMAIN name |-> IF name[i] = "A" THEN "a" ELSE name[i]]
Numbered(base, n) == base \o <<"_", ToString(n)>>

\* Mutant of Candidates: names are compared as they are spelled.
CandidatesAsSpelled(base, from, seen) ==
  {n \in from..from + Cardinality(seen) : Numbered(base, n) \notin seen}

\* The numbers, from `from`, that make a name of base that none has yet.
Candidates(base, from, seen) ==
  {n \in from..from + Cardinality(seen) : to_ascii_lowercase(Numbered(base, n)) \notin seen}

NameHeaders(row) ==
  LET Name(st, i) ==
        LET base == IF row[i] = << >> THEN Numbered(<<"column">>, i) ELSE row[i]
            from == IF base \in DOMAIN st.next_suffix THEN st.next_suffix[base] ELSE 2
            n    == Min(Candidates(base, from, st.seen))
            dup  == to_ascii_lowercase(base) \in st.seen
            name == IF dup THEN Numbered(base, n) ELSE base
        IN [headers |-> Append(st.headers, name),
            seen |-> st.seen \cup {to_ascii_lowercase(name)},
            next_suffix |-> IF dup THEN (base :> n + 1) @@ st.next_suffix ELSE st.next_suffix,
            renamed |-> st.renamed + (IF dup THEN 1 ELSE 0),
            filled |-> st.filled + (IF row[i] = << >> THEN 1 ELSE 0)]
  IN FoldLeft(Name, [headers |-> << >>, seen |-> {}, next_suffix |-> << >>, renamed |-> 0, filled |-> 0],
              [i \in 1..Len(row) |-> i])

Issue(when, kind, about) == IF when THEN <<[kind |-> kind, about |-> about]>> ELSE << >>

Pad(row, width) == [i \in 1..Max({width, Len(row)}) |-> IF i <= Len(row) THEN row[i] ELSE << >>]

\* The rows at the places `kept', under the names of the first of them.
Table(raw, kept, named, first) ==
  LET lines == Tail(kept)
      width == Len(named.headers)
      short == SelectSeq(lines, LAMBDA i : Len(raw[i]) < width)
      long  == SelectSeq(lines, LAMBDA i : Len(raw[i]) > width)
  IN [headers |-> named.headers,
      rows |-> [k \in DOMAIN lines |-> Pad(raw[lines[k]], width)],
      issues |-> first \o Issue(named.filled > 0, "named", <<named.filled>>)
                   \o Issue(named.renamed > 0, "renamed", <<named.renamed>>)
                   \o Issue(short # << >>, "short", short) \o Issue(long # << >>, "long", long)
                   \o Issue(Len(lines) > MAX_ROWS_OUT, "cut", <<Len(lines)>>)]

\* What is told of a file before its header is looked at.
Noticed(bom, delim, read, blank) ==
  LET trims == Len(SelectSeq(FlattenSeq(read.rows), LAMBDA f : Trim(f) # f))
  IN Issue(read.open, "unclosed", << >>) \o Issue(bom, "bom", << >>)
       \o Issue(delim # CANDIDATES[1], "delimiter", << >>)
       \o Issue(blank > 0, "blank", <<blank>>) \o Issue(trims > 0, "trimmed", <<trims>>)

\* The fields as they are kept.
Trimmed(rows) == [i \in DOMAIN rows |-> [k \in DOMAIN rows[i] |-> Trim(rows[i][k])]]

\* The result, if a row is left to be the header.
Repaired(raw, kept, first) ==
  IF kept = << >> THEN [headers |-> << >>, rows |-> << >>, issues |-> first]
  ELSE Table(raw, kept, NameHeaders(raw[kept[1]]), first)

\* What is made of the records read.
Read(bom, delim, read) ==
  LET raw  == Trimmed(read.rows)
      kept == SelectSeq([i \in DOMAIN raw |-> i], LAMBDA i : ~is_blank(raw[i]))
  IN Repaired(raw, kept, Noticed(bom, delim, read, Len(raw) - Len(kept)))

Chosen(bom, text, delim) == Read(bom, delim, parse_csv(text, delim))

tidy(whole) ==
  IF whole # << >> /\ whole[1] = "BOM"
  THEN Chosen(TRUE, Tail(whole), sniff_delimiter(Tail(whole)))
  ELSE Chosen(FALSE, whole, sniff_delimiter(whole))

\* What is shown of it: the first rows, each value under its key.
tidy_json(t) ==
  LET width  == Len(t.headers)
      Key(i) == IF i <= width THEN t.headers[i] ELSE Numbered(<<"overflow">>, i - width)
  IN [k \in 1..Min({Len(t.rows), MAX_ROWS_OUT}) |->
        [i \in DOMAIN t.rows[k] |-> <<Key(i), t.rows[k][i]>>]]

-----------------------------------------------------------------------------
Status(r) ==
  CASE r.method = "GET" /\ r.path \in {"/healthz", "/"}                         -> 200
    [] r.method = "POST" /\ r.path = "/api/tidy" /\ Len(r.text) > MAX_BODY      -> 413
    [] r.method = "POST" /\ r.path = "/api/tidy" /\ Len(r.text) <= MAX_BODY
         /\ Trim(r.text) = << >>                                                -> 400
    [] r.method = "POST" /\ r.path = "/api/tidy" /\ Len(r.text) <= MAX_BODY
         /\ Trim(r.text) # << >>                                                -> 200
    [] r.method = "POST" /\ r.path # "/api/tidy"                                -> 404
    [] r.method = "GET" /\ r.path \notin {"/healthz", "/"}                      -> 404
    [] r.method \notin {"GET", "POST"}                                          -> 405

Init == given \in Requests /\ made = << >>

handle ==
  /\ made = << >>
  /\ made' = <<[status |-> Status(given),
                tidied |-> IF Status(given) = 200 /\ given.method = "POST" THEN {tidy(given.text)} ELSE {}]>>
  /\ UNCHANGED given

Next == handle
Spec == Init /\ [][Next]_<<given, made>>

-----------------------------------------------------------------------------
Words(s) == SelectSeq(s, LAMBDA c : c \in {"a", "A"})
Flat(rows) == FlattenSeq(FlattenSeq(rows))
Tidied == IF made = << >> THEN {} ELSE made[1].tidied

Delimiters == {CANDIDATES[i] : i \in DOMAIN CANDIDATES}
Unmarked(text) == IF text # << >> /\ text[1] = "BOM" THEN Tail(text) ELSE text

\* The records with ink in them, between delimiters d.
Records(text, d) ==
  SelectSeq(Trimmed(parse_csv(Unmarked(text), d).rows), LAMBDA row : ~is_blank(row))

Splits(text, d) == Records(text, d) # << >> /\ Len(Records(text, d)[1]) >= 2
Ragged(text, d) ==
  LET widths == Widths(Records(text, d))
  IN Cardinality({i \in DOMAIN widths : widths[i] # widths[1]})

\* A parser of JSON keeps the last of the values under one key.
ReadBack(pairs) ==
  [key \in {pairs[i][1] : i \in DOMAIN pairs} |->
     pairs[Max({i \in DOMAIN pairs : pairs[i][1] = key})][2]]

Extra(n) == Numbered(<<"overflow">>, n)

\* Who parses the object shown for a record finds each of its cells, under the header
\* of its column or as an extra value; a header that is itself the name of an extra
\* value of this record has that one's value in place of its own.
FoundAgain(headers, record, object) ==
  \A i \in DOMAIN record :
    LET key == IF i <= Len(headers) THEN headers[i] ELSE Extra(i - Len(headers))
    IN \/ i <= Len(headers) /\ \E n \in 1..Len(record) - Len(headers) : key = Extra(n)
       \/ key \in DOMAIN object /\ object[key] = record[i]

(***************************************************************************)
(* Nothing is lost and nothing is silent: the rows that were written come  *)
(* back; every word of the file is in the result, in its order; no two     *)
(* headers are the same name; if no issue is reported, the header and the  *)
(* rows are the file's records as they were.  The delimiter leaves no more *)
(* ragged rows than another that splits the header, and one that is not a  *)
(* comma is told; each cell of a row shown is found again by who parses    *)
(* the answer, but for those whose header is an extra value's name.        *)
(***************************************************************************)
TidyLosesNothing ==
  /\ \A rows \in given.rows : parse_csv(given.text, CANDIDATES[1]) = [rows |-> rows, open |-> FALSE]
  /\ \A t \in Tidied :
       /\ Words(given.text) = Words(FlattenSeq(t.headers) \o Flat(t.rows))
       /\ \A i, k \in DOMAIN t.headers :
            /\ t.headers[i] # << >>
            /\ i # k => to_ascii_lowercase(t.headers[i]) # to_ascii_lowercase(t.headers[k])
       /\ t.issues = << >> =>
            parse_csv(given.text, CANDIDATES[1]).rows
              = (IF t.headers = << >> THEN << >> ELSE <<t.headers>>)
                  \o [k \in DOMAIN tidy_json(t) |->
                        [i \in DOMAIN tidy_json(t)[k] |-> tidy_json(t)[k][i][2]]]
       /\ \E d \in Delimiters :
            /\ d # CANDIDATES[1] <=> \E i \in DOMAIN t.issues : t.issues[i].kind = "delimiter"
            /\ \A e \in Delimiters : Splits(given.text, e) =>
                 Splits(given.text, d) /\ Ragged(given.text, d) <= Ragged(given.text, e)
            /\ \A k \in DOMAIN tidy_json(t) :
                 FoundAgain(t.headers, Records(given.text, d)[k + 1], ReadBack(tidy_json(t)[k]))
=============================================================================
