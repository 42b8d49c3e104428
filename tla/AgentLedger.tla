----------------------------- MODULE AgentLedger -----------------------------
(***************************************************************************)
(* What a session promises the drivers of its runs: the conversation is    *)
(* serial.  A run works on the conversation as it was when it was read,    *)
(* and ends `done` only if no other run was saved since, so each run that  *)
(* is done has seen every one before it.                                   *)
(***************************************************************************)
EXTENDS Naturals, Sequences

CONSTANT Turns

VARIABLES
  done,    \* the turns saved, in order
  phase,   \* "new", "open" or "closed"
  seen     \* how many saved turns an open turn works on

vars == <<done, phase, seen>>

Init ==
  /\ done = << >>
  /\ phase = [t \in Turns |-> "new"]
  /\ seen = [t \in Turns |-> 0]

\* A turn may open on a view that is out of date; it will not be saved then.
Begin(t) ==
  /\ phase[t] = "new"
  /\ phase' = [phase EXCEPT ![t] = "open"]
  /\ \E n \in 0..Len(done) : seen' = [seen EXCEPT ![t] = n]
  /\ UNCHANGED done

Finish(t) ==
  /\ phase[t] = "open" /\ seen[t] = Len(done)
  /\ done' = Append(done, t)
  /\ phase' = [phase EXCEPT ![t] = "closed"]
  /\ seen' = [seen EXCEPT ![t] = 0]

\* A turn that is refused, fails, is cancelled or superseded, or crashes.
GiveUp(t) ==
  /\ phase[t] # "closed"
  /\ phase' = [phase EXCEPT ![t] = "closed"]
  /\ seen' = [seen EXCEPT ![t] = 0]
  /\ UNCHANGED done

Next == \E t \in Turns : Begin(t) \/ Finish(t) \/ GiveUp(t)

Spec == Init /\ [][Next]_vars
=============================================================================
