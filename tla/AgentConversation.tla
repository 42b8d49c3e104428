-------------------------- MODULE AgentConversation --------------------------
(***************************************************************************)
(* The conversation minimal-agent stores: a sequence of turns that grows   *)
(* by one exchange a run, and is cut from its old end.  A turn is its role *)
(* and its size; the size of a conversation is that of its turns.          *)
(***************************************************************************)
EXTENDS Naturals, Sequences, SequencesExt, FiniteSetsExt

CONSTANTS
  MAX_TURNS,        \* turns a stored conversation keeps
  MAX_STATE_BYTES,  \* and its size
  Sizes,            \* sizes a person's message has
  MaxRounds         \* bound on the replies of a run before its last one

VARIABLE stored

Turn(role, size) == [role |-> role, size |-> size]

\* What a round of the loop adds: a reply with tool calls and their results,
\* or a reply the provider paused.
Rounds == {<<Turn("calls", 1), Turn("tool", 1)>>, <<Turn("assistant", 1)>>}

\* What a run adds; one that is out of time has no last reply.
Exchange(size, rounds, last) == <<Turn("user", size)>> \o FlattenSeq(rounds) \o last

Exchanges ==
  {Exchange(size, rounds, last) :
     size \in Sizes,
     rounds \in UNION {[1..n -> Rounds] : n \in 0..MaxRounds},
     last \in {<< >>, <<Turn("assistant", 1)>>}}

Bytes(c) == FoldLeft(LAMBDA sum, turn : sum + turn.size, 0, c)

\* Mutant of DropOldest: only the first turn is dropped, not its exchange.
DropFirst(c) == Tail(c)

\* The first turn and what follows it, up to the next message of a person.
DropOldest(c) ==
  LET next == {i \in 2..Len(c) : c[i].role = "user"}
  IN IF next = {} THEN << >> ELSE SubSeq(c, Min(next), Len(c))

\* Mutant of TooLong: a limit is already too long.
AtTheLimit(c) == Len(c) >= MAX_TURNS \/ Bytes(c) > MAX_STATE_BYTES

TooLong(c) == Len(c) > MAX_TURNS \/ Bytes(c) > MAX_STATE_BYTES

\* Exchanges are dropped until what is left is enough: a turn at least in every
\* round, so there are no more rounds than turns.
DropUntil(c, enough) ==
  FoldLeft(LAMBDA left, turn : IF left \in enough THEN left ELSE DropOldest(left), c, c)

Trim(c) == DropUntil(c, {s \in Suffixes(c) : ~TooLong(s)})

\* Mutant of Halve: as many turns as exchanges would be.
HalveOnce(c) == DropOldest(c)

Halve(c) == DropUntil(c, {s \in Suffixes(c) : Len(s) <= Len(c) \div 2})

Init == stored = << >>

\* A run is saved: its exchange is added to what it read.
Save(exchange) == stored' = Trim(stored \o exchange)

\* As Save, after the model refused the conversation as too long.
SaveShortened(exchange) ==
  /\ Len(Halve(stored)) < Len(stored)
  /\ stored' = Trim(Halve(stored) \o exchange)

Next == \E e \in Exchanges : Save(e) \/ SaveShortened(e)

Spec == Init /\ [][Next]_stored

-----------------------------------------------------------------------------
\* Where a person's message starts what is left of c.
Exchanged(c) ==
  {<< >>} \cup {SubSeq(c, i, Len(c)) : i \in {k \in DOMAIN c : c[k].role = "user"}}

IsLongest(s, set) == s \in set /\ \A x \in set : Len(x) <= Len(s)

(***************************************************************************)
(* What a model is sent is well formed: a person speaks first, and results *)
(* of tools come after the reply that asked for them and never without.    *)
(***************************************************************************)
WellFormed ==
  /\ stored # << >> => stored[1].role = "user"
  /\ \A i \in DOMAIN stored :
       /\ stored[i].role = "tool" => stored[i - 1].role = "calls"
       /\ stored[i].role = "calls" => i < Len(stored) /\ stored[i + 1].role = "tool"

(***************************************************************************)
(* No run makes trim forget more than it has to, nor less: it leaves the   *)
(* longest run of whole exchanges that is under the limits.                *)
(***************************************************************************)
TrimKeepsMost ==
  \A e \in Exchanges :
    LET c == stored \o e
    IN IsLongest(Trim(c), {s \in Exchanged(c) :
                             Len(s) <= MAX_TURNS /\ Bytes(s) <= MAX_STATE_BYTES})

(***************************************************************************)
(* halve leaves the longest run of whole exchanges in at most half of the  *)
(* turns, and always makes room when there is anything to drop.            *)
(***************************************************************************)
HalveKeepsHalf ==
  IsLongest(Halve(stored), {s \in Exchanged(stored) : 2 * Len(s) <= Len(stored)})
=============================================================================
