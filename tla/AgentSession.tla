---------------------------- MODULE AgentSession ----------------------------
(***************************************************************************)
(* The session store an agent works in, as pure operators on its value: a  *)
(* journal that only grows, a state that moves under conditions, and the   *)
(* commits the store remembers by their id.                                *)
(*                                                                         *)
(* An optional argument of a commit is a set of at most one element.  The  *)
(* version of a session with no state is 0.                                *)
(***************************************************************************)
EXTENDS Naturals, Sequences

EmptySession ==
  [journal |-> << >>, version |-> 0, value |-> << >>, through |-> 0,
   ids |-> [i \in {} |-> 0]]

\* Sequence numbers count the entries, so the end is the last one's; 0: empty.
JournalEnd(s) == Len(s.journal)

Snapshot(s) ==
  [version |-> s.version, value |-> s.value, through |-> s.through,
   end |-> JournalEnd(s)]

\* What a writer asks for: entries to append and, on conditions, a new state.
EntriesOnly(entries, requireEnd) ==
  [entries |-> entries, state |-> {}, requireState |-> {},
   requireEnd |-> requireEnd, id |-> {}]

Matches(s, c) ==
  /\ \A e \in c.requireEnd : e = JournalEnd(s)
  /\ \A v \in c.requireState : v = s.version

Written(s, c) ==
  LET j == s.journal \o c.entries
      t == IF c.state = {} THEN s
           ELSE [s EXCEPT !.version = @ + 1, !.through = Len(j),
                          !.value = CHOOSE v \in c.state : TRUE]
  IN [t EXCEPT !.journal = j,
               !.ids = [i \in DOMAIN @ \cup c.id |->
                          IF i \in c.id THEN Len(j) ELSE @[i]]]

\* Mutant of Committed: the store forgets commit ids.
CommittedAgain(s, c) ==
  IF Matches(s, c)
  THEN [how |-> "committed", end |-> JournalEnd(Written(s, c)), session |-> Written(s, c)]
  ELSE [how |-> "stale", end |-> JournalEnd(s), session |-> s]

(***************************************************************************)
(* How a commit ends and what the session is then.  A commit id that was   *)
(* used is answered with its first result, before any condition is looked  *)
(* at.                                                                     *)
(***************************************************************************)
Committed(s, c) ==
  IF c.id \cap DOMAIN s.ids # {}
  THEN [how |-> "committed", end |-> s.ids[CHOOSE i \in c.id : TRUE], session |-> s]
  ELSE IF c.state # {} /\ (c.requireState = {} \/ c.requireEnd = {})
  THEN [how |-> "error", end |-> 0, session |-> s]
  ELSE IF ~Matches(s, c)
  THEN [how |-> "stale", end |-> JournalEnd(s), session |-> s]
  ELSE [how |-> "committed", end |-> JournalEnd(Written(s, c)), session |-> Written(s, c)]
=============================================================================
