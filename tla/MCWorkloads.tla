---------------------------- MODULE MCWorkloads ----------------------------
(***************************************************************************)
(* The workloads with the values that TLC takes, and the programs about    *)
(* which only TLC says something: two that keep no state.  A behaviour is  *)
(* of one program.                                                         *)
(***************************************************************************)
EXTENDS Workloads, SequencesExt

VARIABLES given, made   \* csv-tidy, passphrase

onceVars == <<given, made>>

Header(name, value) == [name |-> <<name>>, value |-> <<value>>]

\* Braces and commas as between records, quotes and backslashes at the end of a
\* string, a character cut in two, and what is no text, in a header too; headers
\* that repeat.
Posted ==
  {[headers |-> << >>, body |-> <<"}", ",", "{">>],
   [headers |-> <<Header("x", "'"), Header("y", "{"), Header("x", "\\")>>, body |-> <<"'">>],
   [headers |-> <<Header("x", "S")>>, body |-> <<"a", "a", "F", "S", "{">>],
   [headers |-> << >>, body |-> <<"\\", "0", "a", "S">>]}

SomeOctets == {"'", "\\", "{", "}", ",", "0", "a", "x", "y", "F", "S"}

Text(chars, bytes) == [text |-> TRUE, chars |-> chars, bytes |-> bytes]
NoText(bytes) == [text |-> FALSE, chars |-> 0, bytes |-> bytes]

\* A body that is text, one that is not, and the empty one.
SomeBodies == {Text(1, 2), NoText(1), Text(0, 0)}

-----------------------------------------------------------------------------
(* Texts of every few pieces; tables with the text they are written as.    *)

Strings(set, n) == UNION {[1..k -> set] : k \in 0..n}

Quoted(f) ==
  IF \E i \in DOMAIN f : f[i] \in {"quote", ",", "LF"}
  THEN <<"quote">> \o FlattenSeq([i \in DOMAIN f |-> IF f[i] = "quote" THEN <<"quote", "quote">> ELSE <<f[i]>>])
         \o <<"quote">>
  ELSE f
Joined(fields) == FlattenSeq([i \in DOMAIN fields |-> IF i = 1 THEN fields[i] ELSE <<",">> \o fields[i]])
Written(rows) ==
  FlattenSeq([i \in DOMAIN rows |-> Joined([k \in DOMAIN rows[i] |-> Quoted(rows[i][k])]) \o <<"LF">>])

OneOrTwo(set) == [1..1 -> set] \cup [1..2 -> set]
Ink == {"a", "quote", ",", "LF"}
Tables == OneOrTwo(OneOrTwo(Strings(Ink, 1))) \cup [1..1 -> OneOrTwo(Strings(Ink, 2))]

Texts ==
  Strings({"quote", ",", ";", "CR", "LF", "a", " "}, 4) \cup [1..5 -> Ink]
  \cup {<<"BOM">> \o t : t \in Strings({"quote", ",", ";", "LF", "a"}, 3)}

\* Headers that repeat, but for case, that are missing, and that look invented.
ColumnNames == {<<"a">>, <<"A">>, <<"a", "_", "2">>, << >>, <<"column", "_", "2">>, <<"overflow", "_", "1">>}
Untidy(h) == Joined(h) \o <<"LF">> \o Joined([i \in 1..Len(h) |-> <<"a">>] \o << <<"A">> >>)
               \o <<"CR", "LF", "LF", "a", "LF", "A">>

Tidied(text) == [method |-> "POST", path |-> "/api/tidy", text |-> text, rows |-> {}]

Posts ==
  {Tidied(t) : t \in Texts}
  \cup {Tidied(Untidy(h)) : h \in UNION {[1..k -> ColumnNames] : k \in 2..4}}
  \cup {[Tidied(Written(t)) EXCEPT !.rows = {t}] : t \in Tables}
  \cup {[Tidied(<< >>) EXCEPT !.method = m, !.path = p] :
          m \in {"GET", "POST", "PUT"}, p \in {"/", "/healthz", "/api/tidy", "/x"}}

Delimiters == <<",", ";", "tab", "|">>

Csv == INSTANCE CsvTidy WITH
  Requests <- Posts, MAX_BODY <- 40, MAX_ROWS_OUT <- 2, MAX_SAMPLED <- 20, CANDIDATES <- Delimiters

\* Queries that toggle classes, twice and to nothing, and numbers out of range.
Classes(l, u, d, s) == [lower |-> l, upper |-> u, digits |-> d, symbols |-> s]
Is(key, text) == [key |-> key, value |-> [text |-> text, number |-> {}]]
Number(key, n) == [key |-> key, value |-> [text |-> "n", number |-> {n}]]
Toggles ==
  {<<a, b>> \o c : a \in {Is("lower", "0"), Is("lower", "yes")}, b \in {Is("upper", ""), Is("upper", "1")},
     c \in {<<Is("digits", "no")>>, <<Is("digits", "1"), Is("digits", "0"), Is("symbols", "false")>>,
            <<Is("digits", "0"), Is("symbols", "false")>>, << >>}}
Lengths ==
  {<< >>, <<Number("length", 1), Is("avoidAmbiguous", "0")>>, <<Is("length", "x"), Number("length", 4)>>,
   <<Number("length", 5), Number("count", 0)>>, <<Number("count", 9), Is("avoidAmbiguous", "false")>>}

Asked == {a \o b : a \in Toggles, b \in Lengths}
AllLetters == Classes(2, 2, 2, 1)
ClearLetters == Classes(2, 1, 1, 1)

Passwords == INSTANCE Passphrase WITH
  Queries <- Asked, BYTE <- 8, Ambiguous <- AllLetters, Clear <- ClearLetters,
  MIN_LEN <- 4, MAX_LEN <- 5, DEFAULT_LEN <- 4, MAX_COUNT <- 3, DEFAULT_COUNT <- 2

-----------------------------------------------------------------------------

NotAsked == given = {} /\ made = << >>

MCInit ==
  \/ Init /\ NotAsked
  \/ /\ \/ app = "csv" /\ Csv!Init
        \/ app = "passphrase" /\ Passwords!Init
     /\ NoStore /\ NoNats /\ NoKafka /\ NoWebhook
     /\ pc = 0 /\ faults = 0 /\ batch = 0 /\ sent = 0 /\ response = 0

MCNext ==
  \/ Next /\ UNCHANGED onceVars
  \/ app = "csv" /\ Csv!Next /\ UNCHANGED vars
  \/ app = "passphrase" /\ Passwords!Next /\ UNCHANGED vars

MCSpec == MCInit /\ [][MCNext]_<<vars, onceVars>> /\ Fairness

-----------------------------------------------------------------------------

\* Every cell of a file is found again in what is made of it; see CsvTidy.
TidyLosesNothing == app = "csv" => Csv!TidyLosesNothing

\* The passwords that can come are those the entropy counts; see Passphrase.
PasswordsAreAsSaid == app = "passphrase" => Passwords!PasswordsAreAsSaid
=============================================================================
