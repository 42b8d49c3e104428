----------------------------- MODULE Passphrase -----------------------------
(***************************************************************************)
(* passphrase: passwords drawn from the host's random bytes, and how many  *)
(* there are to guess among.  A character is its class and its place in    *)
(* it; a draw is a sequence of indices, each what `uniform` returns.       *)
(***************************************************************************)
EXTENDS Integers, Sequences, FiniteSets, SequencesExt, FiniteSetsExt, Functions

CONSTANTS
  Queries,           \* each a sequence of keys and values
  BYTE,              \* values of a random byte
  Ambiguous, Clear,  \* sizes of the classes: all characters, and those told apart
  MIN_LEN, MAX_LEN, DEFAULT_LEN, MAX_COUNT, DEFAULT_COUNT

VARIABLES given, made

\* Bytes that give k: those of the short tail are thrown away.
limit(n) == BYTE - (BYTE % n)
Bytes(n, k) == {v \in 0..limit(n) - 1 : v % n = k}

-----------------------------------------------------------------------------
(* What a query asks for.                                                  *)

\* The values of the first parameter named key.
param(query, key) ==
  LET named == SelectSeq(query, LAMBDA p : p.key = key)
  IN IF named = << >> THEN {} ELSE {named[1].value}

flag(query, key) == \A v \in param(query, key) : v.text \notin {"0", "false", "no", ""}

clamp(v, lo, hi) == Min({Max({v, lo}), hi})

\* A value that is no number, or none, is the default.
Asked(query, key, default, lo, hi) ==
  LET numbers == UNION {v.number : v \in param(query, key)}
  IN clamp(IF numbers = {} THEN default ELSE CHOOSE n \in numbers : TRUE, lo, hi)

parse_opts(query) ==
  LET sizes   == IF flag(query, "avoidAmbiguous") THEN Clear ELSE Ambiguous
      wanted  == SelectSeq(<<"lower", "upper", "digits", "symbols">>, LAMBDA c : flag(query, c))
      classes == IF wanted = << >> THEN <<"lower">> ELSE wanted
  IN [length  |-> Asked(query, "length", DEFAULT_LEN, MIN_LEN, MAX_LEN),
      count   |-> Asked(query, "count", DEFAULT_COUNT, 1, MAX_COUNT),
      classes |-> [i \in DOMAIN classes |-> {<<classes[i], k>> : k \in 0..sizes[classes[i]] - 1}]]

-----------------------------------------------------------------------------
(* What comes of it.                                                       *)

\* The indices that a shuffle of n characters draws.
Shuffles(n) == {d \in [1..n -> 0..n - 1] : \A i \in 1..n : d[i] < i}

\* From the last place to the second, each is swapped with one not after it.
shuffle(word, draw) ==
  FoldLeft(LAMBDA w, i : LET j == draw[i] + 1 IN [w EXCEPT ![i] = w[j], ![j] = w[i]],
           word, [k \in 1..Len(word) - 1 |-> Len(word) + 1 - k])

\* One character of each class while there is room, then of any.
Words(opts) ==
  LET n == Len(opts.classes)
      any == UNION Range(opts.classes)
  IN {w \in [1..opts.length -> any] :
        \A i \in 1..opts.length : i <= n => w[i] \in opts.classes[i]}

generate(opts) == {shuffle(w, d) : w \in Words(opts), d \in Shuffles(opts.length)}

Power(b, e) == FoldLeft(LAMBDA p, i : p * b, 1, [i \in 1..e |-> i])
Total(sizes, some) == FoldSet(LAMBDA i, sum : sizes[i] + sum, 0, some)

\* Mutant of Guesses: a free choice at every place.
FreeGuesses(sizes, length) == Power(Total(sizes, DOMAIN sizes), length)

\* What entropy_bits takes the logarithm of: words without some class are
\* taken away, those without two are put back, and so on.
Guesses(sizes, length) ==
  LET all  == Total(sizes, DOMAIN sizes)
      Term(mask) == Power(all - Total(sizes, mask), length)
                      * (IF Cardinality(mask) % 2 = 0 THEN 1 ELSE -1)
  IN IF length < Len(sizes) THEN Power(all, length)
     ELSE FoldSet(LAMBDA mask, sum : sum + Term(mask), 0, SUBSET DOMAIN sizes)

Init == given \in Queries /\ made = << >>

api_json ==
  /\ made = << >>
  /\ LET opts == parse_opts(given) IN
       made' = <<[opts |-> opts,
                  guesses |-> Guesses([i \in DOMAIN opts.classes |-> Cardinality(opts.classes[i])],
                                      opts.length)]>>
  /\ UNCHANGED given

Next == api_json
Spec == Init /\ [][Next]_<<given, made>>

-----------------------------------------------------------------------------
(***************************************************************************)
(* A password is what it is said to be: as many bytes lead to one index as *)
(* to another; each order of a word comes of one draw; and the words that  *)
(* can come, each with all the classes asked for, are as many as the       *)
(* entropy counts.                                                         *)
(***************************************************************************)
PasswordsAreAsSaid ==
  \A m \in Range(made) :
    LET words == generate(m.opts) IN
    /\ \A n \in 1..BYTE : /\ Cardinality({Cardinality(Bytes(n, k)) : k \in 0..n - 1}) = 1
                          /\ Bytes(n, 0) # {} /\ BYTE - limit(n) < n
    /\ LET plain == [i \in 1..m.opts.length |-> i] IN
         Cardinality({shuffle(plain, d) : d \in Shuffles(Len(plain))}) = Cardinality(Shuffles(Len(plain)))
    /\ m.opts.count \in 1..MAX_COUNT /\ m.opts.length \in MIN_LEN..MAX_LEN
    /\ \A w \in words : \A i \in DOMAIN m.opts.classes : Range(w) \cap m.opts.classes[i] # {}
    /\ m.guesses = Cardinality(words)
=============================================================================
