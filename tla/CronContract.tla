---------------------------- MODULE CronContract ----------------------------
(***************************************************************************)
(* What cosmonic:cron promises a handler                                   *)
(* (src/wit/cosmonic-cron/handler.wit, and `firing' in types.wit),         *)
(* whatever implements it: calls of one schedule name never overlap, every *)
(* firing has an identifier of its own, and a firing is delivered again    *)
(* only when the last call for it asked for that, with `attempt' one       *)
(* higher.                                                                 *)
(*                                                                         *)
(* calls[s] is the call running under the schedule name s, if any.         *)
(* owed[s] is the firing whose handler asked for it again and that the     *)
(* implementer may still redeliver.                                        *)
(***************************************************************************)
EXTENDS Integers

CONSTANTS Slot          \* schedule names, of all workloads

VARIABLES calls, owed, used

Call == [id : Nat, attempt : Nat]
None == [id |-> 0, attempt |-> 0]

Init ==
  /\ calls = [s \in Slot |-> None]
  /\ owed = [s \in Slot |-> None]
  /\ used = 0

(* A new firing, under an identifier never used before. *)
Deliver(s) ==
  /\ calls[s] = None
  /\ calls'[s].id > used /\ calls'[s].attempt = 1
  /\ owed'[s] = None

Redeliver(s) ==
  /\ calls[s] = None /\ owed[s] # None
  /\ calls'[s] = [owed[s] EXCEPT !.attempt = @ + 1]
  /\ owed'[s] = None

(* The handler returns; if it asked for a retry, one may be owed. *)
Return(s) ==
  /\ calls[s] # None
  /\ calls'[s] = None
  /\ owed'[s] \in {None, calls[s]}

(* A retry is given up, for whatever reason. *)
GiveUp(s) ==
  /\ calls'[s] = calls[s]
  /\ owed'[s] = None

Keep(s) == calls'[s] = calls[s] /\ owed'[s] = owed[s]

(* Several names may be served at once, each under its own identifiers. *)
Next ==
  /\ used' >= used
  /\ \A s \in Slot :
       /\ Deliver(s) \/ Redeliver(s) \/ Return(s) \/ GiveUp(s) \/ Keep(s)
       /\ calls'[s].id <= used'
       /\ \A t \in Slot :
            calls'[s].id = calls'[t].id => s = t \/ calls'[s] = None

Spec == Init /\ [][Next]_<< calls, owed, used >>
=============================================================================
