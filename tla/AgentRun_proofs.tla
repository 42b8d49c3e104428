--------------------------- MODULE AgentRun_proofs ---------------------------
(***************************************************************************)
(* Theorems about the runs of minimal-agent and the journal they share.    *)
(***************************************************************************)
EXTENDS AgentRun, Folding_proofs

Targets == {"model", "tool"}
Outcomes == {"succeeded", "failed", "cancelled", "unresolved"}

SaysT ==
  {"", "done", "model", "tool", "succeeded", "failed", "cancelled", "unresolved"}

EntryT ==
  [kind : {"step", "run", "op", "result", "ended"}, by : Turns, op : Nat \X Nat,
   says : SaysT]

Ids == UNION {[D -> Nat] : D \in SUBSET RunIds}

SessionT ==
  [journal : Seq(EntryT), version : Nat, value : Seq(Turns), through : Nat, ids : Ids]

SnapshotT == [version : Nat, value : Seq(Turns), through : Nat, end : Nat]

Verdicts == {"reply", "cancelled", "failed", "superseded", "not-recorded"}
AnswerT == {"", "unresolved", "succeeded"} \cup Answers \cup Verdicts

TurnT ==
  [pc : PCs, inst : Instances, run : RunIds, snap : SnapshotT, closing : Seq(EntryT),
   kept : Seq(Turns), end : Nat, stale : BOOLEAN, steps : Nat, shortened : BOOLEAN, ops : Nat,
   answer : AnswerT, calls : Nat, late : BOOLEAN,
   outcome : {"none", "crashed"} \cup NotStarted \cup Endings]

(* What one turn may be, whatever the others do. *)
TurnOK(me) ==
  /\ me \in TurnT
  /\ me.outcome # "none" <=> me.pc = "over"
  /\ me.calls <= MaxCalls
  /\ me.pc \in {"tools", "tool", "returned"} => me.calls > 0
  /\ me.pc = "ending" => me.answer \in Verdicts
  /\ me.pc = "answered" => me.answer \in Answers
  /\ me.pc = "returned" => me.answer \in Outcomes

TypeInv ==
  /\ session \in SessionT /\ session.through <= Len(Journal)
  /\ running \in [Instances -> BOOLEAN]
  /\ turn \in [Turns -> TurnT]
  /\ \A t \in Turns : TurnOK(turn[t]) /\ turn[t].end <= Len(Journal)
  /\ \A i \in Instances : running[i] <=> \E t \in Turns : Active(t) /\ turn[t].inst = i
  /\ \A t, o \in Turns : Active(t) /\ Active(o) /\ turn[t].inst = turn[o].inst => t = o
  /\ faults \in 0..MaxFaults /\ crashes \in 0..MaxCrashes

-----------------------------------------------------------------------------
Working(me) ==
  me.pc \in {"preparing", "unlisted", "loop", "model", "answered", "asking", "tools", "tool",
             "returned", "ending"}

InCall(me) == me.pc \in {"model", "answered", "tool", "returned"}

(* Only runs that opened write, and a run is found in the journal where the *)
(* store remembers its commit.                                             *)
OpeningsInv ==
  /\ \A i \in DOMAIN Journal :
       turn[Journal[i].by].pc \notin {"new", "accepting", "reading", "opening"}
  /\ \A i \in DOMAIN Journal : Journal[i].kind = "run" =>
       LET r == turn[Journal[i].by].run IN r \in DOMAIN session.ids /\ session.ids[r] = i
  /\ \A r \in DOMAIN session.ids :
       session.ids[r] \in DOMAIN Journal /\ Journal[session.ids[r]].kind = "run"
  /\ \A t \in Turns : Working(turn[t]) =>
       /\ turn[t].run \in DOMAIN session.ids
       /\ session.ids[turn[t].run] <= turn[t].end

(* From where its run opened to where it last wrote, a turn that is not    *)
(* stale is the only writer.                                               *)
AloneInv ==
  \A t \in Turns : Working(turn[t]) /\ ~turn[t].stale =>
    \A m \in session.ids[turn[t].run] + 1 .. turn[t].end : Journal[m].by = t

(* While nobody writes, what a turn has read is the session, and what it    *)
(* is about to close are the calls left open.                              *)
ReadInv ==
  \A t \in Turns :
    /\ turn[t].pc \in {"reading", "opening"} /\ turn[t].end = Len(Journal)
         => turn[t].snap.through = session.through
    /\ turn[t].pc = "opening" =>
         /\ \A k \in DOMAIN turn[t].closing :
              turn[t].closing[k].by = t /\ turn[t].closing[k].kind \in {"result", "step"}
         /\ turn[t].end = Len(Journal) =>
              \A i \in DOMAIN Journal : i > session.through /\ IsOpen(Journal, i) =>
                \E k \in DOMAIN turn[t].closing :
                  /\ turn[t].closing[k].kind = "result"
                  /\ turn[t].closing[k].op = Journal[i].op

(* How a run ended is in the journal only once its turn is over, or where   *)
(* the turn does not know that it was saved.                               *)
ResultsInv ==
  \A t \in Turns :
    /\ \A k \in Results(t) :
         \/ At(t, "over")
         \/ At(t, "ending") /\ turn[t].answer = "not-recorded"
    /\ \A k \in Results(t) : Journal[k].says = "done" /\ At(t, "over") =>
         turn[t].outcome \in {"done", "not-recorded", "crashed"}
    /\ turn[t].outcome = "done" =>
         \E k \in Results(t) : Results(t) = {k} /\ Journal[k].says = "done"

JournalInv == OpeningsInv /\ AloneInv /\ ReadInv /\ ResultsInv /\ OpenCallsAreRecovered
                /\ NoDispatchOverOthers

(* Where no commit failed, a turn leaves no call open but the one it is in, *)
(* and where it is not stale, nobody has.                                  *)
ClosedByAll ==
  \A t \in Turns : ~At(t, "over") =>
    /\ Results(t) = {}
    /\ \A i \in DOMAIN Journal : Journal[i].by = t /\ IsOpen(Journal, i) =>
         InCall(turn[t]) /\ Journal[i].op = ThisOp(t)

ClosedAfter ==
  \A t \in Turns : turn[t].outcome \in Endings =>
    /\ \E k \in Results(t) : Results(t) = {k}
    /\ \A i \in DOMAIN Journal : Journal[i].by = t => ~IsOpen(Journal, i)

ClosedByOthers ==
  \A t \in Turns : Working(turn[t]) /\ ~turn[t].stale =>
    \A i \in 1..turn[t].end : IsOpen(Journal, i) => Journal[i].by = t

ClosedInv ==
  faults = 0 => ClosedByAll /\ ClosedAfter /\ ClosedByOthers /\ StateCoversClosed

RunInv == TypeInv /\ JournalInv /\ ClosedInv

-----------------------------------------------------------------------------
(***************************************************************************)
(* Sequences.                                                              *)
(***************************************************************************)
(* A function defined by recursion over 1..n exists. *)
LEMMA FlattenSteps ==
  ASSUME NEW S, NEW s \in Seq(Seq(S)), Len(s) # 0
  PROVE  \E f : /\ FlattenSeq(s) = f[Len(s)] /\ f[1] = s[1]
                /\ \A i \in 2..Len(s) : f[i] = f[i - 1] \o s[i]
<1> DEFINE D(g, i) == IF i = 1 THEN s[i] ELSE g[i - 1] \o s[i]
           IsF(g, n) == g = [i \in 1..n |-> D(g, i)]
           E == {n \in Nat : \E g : IsF(g, n)}
           f == CHOOSE g : IsF(g, Len(s))
<1>1. 0 \in E
  <2>1. IsF(<< >>, 0)
    OBVIOUS
  <2> QED
    BY <2>1
<1>2. ASSUME NEW n \in Nat, NEW g, IsF(g, n) PROVE \E h : IsF(h, n + 1)
  <2> DEFINE h == [i \in 1..n + 1 |-> IF i \in 1..n THEN g[i] ELSE D(g, n + 1)]
  <2>1. \A i \in 1..n : h[i] = g[i]
    OBVIOUS
  <2>2. \A i \in 1..n : D(g, i) = D(h, i)
    BY <2>1
  <2>3. D(g, n + 1) = D(h, n + 1)
    BY <2>1
  <2>4. \A i \in 1..n : g[i] = D(g, i)
    BY <1>2
  <2>5. \A i \in 1..n + 1 : h[i] = D(h, i)
    BY <2>1, <2>2, <2>3, <2>4
  <2>6. h = [i \in 1..n + 1 |-> h[i]]
    OBVIOUS
  <2> HIDE DEF h, D
  <2>7. h = [i \in 1..n + 1 |-> D(h, i)]
    BY <2>5, <2>6
  <2> QED
    BY <2>7
<1>3. E = Nat
  <2>1. \A n \in E : n + 1 \in E
    <3> HIDE DEF IsF
    <3> QED
      BY <1>2
  <2>2. E \in SUBSET Nat
    OBVIOUS
  <2> HIDE DEF E
  <2> QED
    BY <1>1, <2>1, <2>2, Inductive
<1>4. IsF(f, Len(s))
  <2> HIDE DEF IsF
  <2>1. \A n \in Nat : \E g : IsF(g, n)
    BY <1>3
  <2>2. Len(s) \in Nat
    OBVIOUS
  <2> QED
    BY <2>1, <2>2
<1>5. FlattenSeq(s) = f[Len(s)]
  BY DEF FlattenSeq
<1> HIDE DEF f
<1>6. \A i \in 1..Len(s) : f[i] = D(f, i)
  BY <1>4
<1>7. f[1] = s[1] /\ \A i \in 2..Len(s) : f[i] = f[i - 1] \o s[i]
  <2>1. Len(s) \in Nat /\ Len(s) > 0
    OBVIOUS
  <2>2. 1 \in 1..Len(s) /\ \A i \in 2..Len(s) : i \in 1..Len(s) /\ i # 1
    BY <2>1
  <2> QED
    BY <1>6, <2>2
<1> QED
  BY <1>5, <1>7

LEMMA Joined2 ==
  ASSUME NEW S, NEW a \in Seq(S), NEW b \in Seq(S)
  PROVE  /\ a \o b \in Seq(S) /\ Len(a \o b) = Len(a) + Len(b)
         /\ \A k \in DOMAIN a : k \in DOMAIN (a \o b) /\ (a \o b)[k] = a[k]
         /\ \A k \in DOMAIN b : Len(a) + k \in DOMAIN (a \o b) /\ (a \o b)[Len(a) + k] = b[k]
         /\ \A k \in DOMAIN (a \o b) :
              \/ k \in DOMAIN a /\ (a \o b)[k] = a[k]
              \/ k - Len(a) \in DOMAIN b /\ (a \o b)[k] = b[k - Len(a)]
  OBVIOUS

(* FlattenSeq puts the sequences one after the other, so it has what they   *)
(* have.                                                                   *)
LEMMA FlattenHas ==
  ASSUME NEW S, NEW s \in Seq(Seq(S))
  PROVE  /\ FlattenSeq(s) \in Seq(S)
         /\ \A k \in DOMAIN FlattenSeq(s) : \E i \in DOMAIN s : \E m \in DOMAIN s[i] :
              FlattenSeq(s)[k] = s[i][m]
         /\ \A i \in DOMAIN s : \A m \in DOMAIN s[i] : \E k \in DOMAIN FlattenSeq(s) :
              FlattenSeq(s)[k] = s[i][m]
<1> DEFINE Has(q, n) ==
             /\ q \in Seq(S)
             /\ \A k \in DOMAIN q : \E i \in 1..n : \E m \in DOMAIN s[i] : q[k] = s[i][m]
             /\ \A i \in 1..n : \A m \in DOMAIN s[i] : \E k \in DOMAIN q : q[k] = s[i][m]
<1>1. CASE Len(s) = 0
  BY <1>1 DEF FlattenSeq
<1>2. CASE Len(s) # 0
  <2>1. PICK f : /\ FlattenSeq(s) = f[Len(s)] /\ f[1] = s[1]
                 /\ \A i \in 2..Len(s) : f[i] = f[i - 1] \o s[i]
    BY <1>2, FlattenSteps
  <2> DEFINE H == {n \in Nat : n + 1 <= Len(s) => Has(f[n + 1], n + 1)}
  <2>2. 0 \in H
    <3>1. ASSUME Len(s) >= 1 PROVE Has(f[1], 1)
      BY <2>1, <3>1
    <3> HIDE DEF Has
    <3> QED
      BY <3>1
  <2>3. ASSUME NEW n \in Nat, n + 2 <= Len(s), Has(f[n + 1], n + 1)
        PROVE  Has(f[n + 2], n + 2)
    <3> DEFINE a == f[n + 1]
               b == s[n + 2]
               c == a \o b
    <3>1. f[n + 2] = c /\ a \in Seq(S) /\ b \in Seq(S)
      <4>1. n + 2 \in 2..Len(s) /\ (n + 2) - 1 = n + 1 /\ n + 2 \in DOMAIN s
        BY <2>3
      <4>2. f[n + 2] = f[(n + 2) - 1] \o s[n + 2]
        BY <2>1, <4>1
      <4>3. s[n + 2] \in Seq(S) /\ f[n + 1] \in Seq(S)
        BY <2>3, <4>1
      <4> QED
        BY <4>1, <4>2, <4>3
    <3>2. \A i \in 1..n + 2 : i = n + 2 \/ i \in 1..n + 1
      OBVIOUS
    <3>3. ASSUME NEW k \in DOMAIN c
          PROVE  \E i \in 1..n + 2 : \E m \in DOMAIN s[i] : c[k] = s[i][m]
      <4>1. CASE k \in DOMAIN a /\ c[k] = a[k]
        <5>1. \E i \in 1..n + 1 : \E m \in DOMAIN s[i] : a[k] = s[i][m]
          BY <2>3, <4>1
        <5>2. \A i \in 1..n + 1 : i \in 1..n + 2
          OBVIOUS
        <5> HIDE DEF a, b, c
        <5> QED
          BY <4>1, <5>1, <5>2
      <4>2. CASE k - Len(a) \in DOMAIN b /\ c[k] = b[k - Len(a)]
        <5>1. n + 2 \in 1..n + 2
          OBVIOUS
        <5> HIDE DEF a, c
        <5> QED
          BY <4>2, <5>1
      <4> HIDE DEF a, b
      <4> QED
        BY <3>1, <3>3, <4>1, <4>2, Joined2
    <3>4. ASSUME NEW i \in 1..n + 2, NEW m \in DOMAIN s[i]
          PROVE  \E k \in DOMAIN c : c[k] = s[i][m]
      <4>1. CASE i = n + 2
        <5>1. m \in DOMAIN b /\ s[i][m] = b[m]
          BY <3>4, <4>1
        <5> HIDE DEF a, b
        <5>2. \A k \in DOMAIN b : Len(a) + k \in DOMAIN c /\ c[Len(a) + k] = b[k]
          BY <3>1
        <5> QED
          BY <5>1, <5>2
      <4>2. CASE i \in 1..n + 1
        <5>1. PICK k \in DOMAIN a : a[k] = s[i][m]
          BY <2>3, <4>2
        <5> HIDE DEF a, b
        <5> QED
          BY <3>1, <5>1, Joined2
      <4> QED
        BY <3>2, <4>1, <4>2
    <3>5. c \in Seq(S)
      BY <3>1
    <3> HIDE DEF c
    <3> QED
      BY <3>1, <3>3, <3>4, <3>5
  <2>4. H = Nat
    <3>1. H \in SUBSET Nat
      OBVIOUS
    <3>2. ASSUME NEW n \in H PROVE n + 1 \in H
      <4>1. n \in Nat /\ n + 1 \in Nat /\ (n + 1) + 1 = n + 2
        OBVIOUS
      <4>2. n + 2 <= Len(s) => n + 1 <= Len(s)
        BY <4>1
      <4> HIDE DEF Has
      <4> QED
        BY <2>3, <3>2, <4>1, <4>2
    <3> HIDE DEF H
    <3> QED
      BY <2>2, <3>1, <3>2, Inductive
  <2>5. Has(f[Len(s)], Len(s))
    <3> DEFINE m == Len(s) - 1
    <3>1. m \in Nat /\ m + 1 = Len(s) /\ m + 1 <= Len(s)
      BY <1>2
    <3> HIDE DEF Has, m
    <3>2. \A n \in Nat : n + 1 <= Len(s) => Has(f[n + 1], n + 1)
      BY <2>4
    <3>3. Has(f[m + 1], m + 1)
      BY <3>1, <3>2
    <3> QED
      BY <3>1, <3>3
  <2>6. DOMAIN s = 1..Len(s)
    OBVIOUS
  <2> DEFINE q == FlattenSeq(s)
  <2>7. Has(q, Len(s))
    BY <2>1, <2>5
  <2> HIDE DEF q
  <2>8. /\ q \in Seq(S)
        /\ \A k \in DOMAIN q : \E i \in DOMAIN s : \E m \in DOMAIN s[i] : q[k] = s[i][m]
        /\ \A i \in DOMAIN s : \A m \in DOMAIN s[i] : \E k \in DOMAIN q : q[k] = s[i][m]
    BY <2>6, <2>7
  <2> QED
    BY <2>8 DEF q
<1> QED
  BY <1>1, <1>2

-----------------------------------------------------------------------------
(***************************************************************************)
(* Commits.                                                                *)
(***************************************************************************)
CommitT ==
  [entries : Seq(EntryT), state : SUBSET Seq(Turns), requireState : SUBSET Nat,
   requireEnd : SUBSET Nat, id : SUBSET RunIds]

Applied(r, c) ==
  /\ c.id \cap DOMAIN session.ids = {} /\ Matches(session, c)
  /\ r.session = Written(session, c)

LEMMA WrittenIs ==
  ASSUME session \in SessionT, NEW c \in CommitT
  PROVE  /\ Written(session, c) \in SessionT
         /\ Written(session, c).journal = Journal \o c.entries
         /\ Written(session, c).version =
              IF c.state = {} THEN session.version ELSE session.version + 1
         /\ Written(session, c).value =
              IF c.state = {} THEN session.value ELSE CHOOSE v \in c.state : TRUE
         /\ Written(session, c).through =
              IF c.state = {} THEN session.through ELSE Len(Journal \o c.entries)
         /\ Written(session, c).ids =
              [i \in DOMAIN session.ids \cup c.id |->
                 IF i \in c.id THEN Len(Journal \o c.entries) ELSE session.ids[i]]
<1> DEFINE w == Written(session, c)
           j == Journal \o c.entries
           d == [i \in DOMAIN session.ids \cup c.id |->
                   IF i \in c.id THEN Len(j) ELSE session.ids[i]]
<1>1. j \in Seq(EntryT) /\ Len(j) \in Nat
  BY DEF SessionT, CommitT, Journal
<1>2. d \in Ids
  <2>1. PICK D \in SUBSET RunIds : session.ids \in [D -> Nat]
    BY DEF SessionT, Ids
  <2>2. d \in [D \cup c.id -> Nat] /\ D \cup c.id \in SUBSET RunIds
    <3> HIDE DEF j
    <3> QED
      BY <1>1, <2>1 DEF CommitT
  <2> HIDE DEF d
  <2> QED
    BY <2>2 DEF Ids
<1>3. c.state # {} => (CHOOSE v \in c.state : TRUE) \in Seq(Turns)
  BY DEF CommitT
<1>4. /\ w \in SessionT /\ w.journal = j
      /\ w.version = IF c.state = {} THEN session.version ELSE session.version + 1
      /\ w.value = IF c.state = {} THEN session.value ELSE CHOOSE v \in c.state : TRUE
      /\ w.through = IF c.state = {} THEN session.through ELSE Len(j)
      /\ w.ids = d
  <2>1. CASE c.state = {}
    <3>1. w = [session EXCEPT !.journal = j, !.ids = d]
      BY <2>1 DEF Written, Journal
    <3> HIDE DEF w, j, d
    <3> QED
      BY <1>1, <1>2, <2>1, <3>1 DEF SessionT
  <2>2. CASE c.state # {}
    <3> DEFINE v == CHOOSE x \in c.state : TRUE
               n == session.version + 1
               u == [session EXCEPT !.version = n, !.through = Len(j), !.value = v]
    <3>1. n \in Nat /\ v \in Seq(Turns)
      BY <1>3, <2>2 DEF SessionT
    <3>2. u.ids = session.ids
      BY DEF SessionT
    <3>3. w = [u EXCEPT !.journal = j, !.ids = d]
      BY <2>2, <3>2 DEF Written, Journal
    <3> HIDE DEF w, j, d, v, n
    <3>4. u \in SessionT /\ u.version = n /\ u.value = v /\ u.through = Len(j)
      BY <1>1, <3>1 DEF SessionT
    <3> HIDE DEF u
    <3>5. /\ w \in SessionT /\ w.journal = j /\ w.version = n /\ w.value = v
          /\ w.through = Len(j) /\ w.ids = d
      BY <1>1, <1>2, <3>3, <3>4 DEF SessionT
    <3> QED
      BY <2>2, <3>5 DEF v, n
  <2> QED
    BY <2>1, <2>2
<1> QED
  BY <1>4

(* How a commit ends. *)
LEMMA ReplyCases ==
  ASSUME session \in SessionT, NEW c \in CommitT, NEW r \in Replies(c),
         c.state = {} \/ (c.requireState # {} /\ c.requireEnd # {})
  PROVE  \/ /\ r.how = "committed" /\ r.fault = 0 /\ Applied(r, c)
            /\ r.end = Len(Journal \o c.entries)
         \/ /\ r.how = "committed" /\ r.fault = 0 /\ r.session = session
            /\ c.id \cap DOMAIN session.ids # {}
            /\ r.end = session.ids[CHOOSE i \in c.id : TRUE]
         \/ /\ r.how = "stale" /\ r.fault = 0 /\ r.session = session
            /\ ~Matches(session, c)
         \/ /\ r.how = "error" /\ r.fault = 1 /\ faults # MaxFaults
            /\ r.session = session \/ Applied(r, c)
<1> DEFINE o == Committed(session, c)
<1>1. \/ r = [how |-> o.how, end |-> o.end, session |-> o.session, fault |-> 0]
      \/ /\ faults # MaxFaults
         /\ \/ r = [how |-> "error", end |-> 0, session |-> session, fault |-> 1]
            \/ r = [how |-> "error", end |-> 0, session |-> o.session, fault |-> 1]
  BY DEF Replies
<1>2. JournalEnd(Written(session, c)) = Len(Journal \o c.entries)
  <2>1. Written(session, c).journal = Journal \o c.entries
    BY WrittenIs
  <2> QED
    BY <2>1 DEF JournalEnd
<1>3. \/ /\ o.how = "committed" /\ o.session = Written(session, c)
         /\ o.end = Len(Journal \o c.entries)
         /\ c.id \cap DOMAIN session.ids = {} /\ Matches(session, c)
      \/ /\ o.how = "committed" /\ o.session = session
         /\ c.id \cap DOMAIN session.ids # {}
         /\ o.end = session.ids[CHOOSE i \in c.id : TRUE]
      \/ o.how = "stale" /\ o.session = session /\ ~Matches(session, c)
  BY <1>2 DEF Committed
<1> HIDE DEF o
<1> QED
  BY <1>1, <1>3 DEF Applied

-----------------------------------------------------------------------------
(***************************************************************************)
(* What one step does: turn t becomes `me', and writes at most one commit. *)
(***************************************************************************)
Wrote(c) ==
  /\ c.id \cap DOMAIN session.ids = {} /\ Matches(session, c)
  /\ session' = Written(session, c)

Same(t, me) == me.run = turn[t].run /\ me.inst = turn[t].inst
Keeps(t, me) == Same(t, me) /\ me.snap = turn[t].snap

Frees(t) == running' = [running EXCEPT ![turn[t].inst] = FALSE]

Begins(t, me) ==
  /\ At(t, "new") /\ session' = session /\ me.end = turn[t].end
  /\ \/ me.pc = "accepting" /\ ~running[me.inst] /\ running' = [running EXCEPT ![me.inst] = TRUE]
     \/ me.pc = "over" /\ me.outcome = "busy" /\ running' = running

Reads(t, me) ==
  /\ At(t, "accepting") /\ me.pc = "reading" /\ Same(t, me)
  /\ session' = session /\ running' = running
  /\ me.snap = Snapshot(session) /\ me.kept = session.value /\ me.end = Len(Journal)

Plans(t, me) ==
  /\ At(t, "reading") /\ me.pc = "opening" /\ Keeps(t, me)
  /\ session' = session /\ running' = running
  /\ me.kept = turn[t].kept /\ me.end = turn[t].end
  /\ me.closing = Recover(t, turn[t].snap.through)

OpensRun(t, me) ==
  /\ At(t, "opening") /\ Same(t, me) /\ Wrote(OpenRequest(t))
  /\ \/ /\ me.pc = "preparing" /\ me.snap = turn[t].snap /\ me.kept = turn[t].kept
        /\ me.end = Len(Journal') /\ running' = running
     \/ me.pc = "over" /\ me.outcome = "unavailable" /\ me.end = 0 /\ Frees(t)

Joins(t, me) ==
  /\ At(t, "opening") /\ me.pc = "preparing" /\ Keeps(t, me)
  /\ session' = session /\ running' = running
  /\ turn[t].run \in DOMAIN session.ids /\ me.end = session.ids[turn[t].run]
  /\ me.kept = turn[t].kept

Leaves(t, me) ==
  /\ Active(t) /\ me.pc = "over" /\ Same(t, me) /\ me.end = 0
  /\ session' = session /\ Frees(t)
  /\ \/ me.outcome \in NotStarted /\ ~Working(turn[t])
     \/ me.outcome = "crashed"
     \/ /\ At(t, "ending") /\ turn[t].answer # "reply"
        /\ me.outcome = turn[t].answer /\ faults' > 0

Moves(t, me) ==
  /\ Working(turn[t]) /\ Working(me) /\ Keeps(t, me)
  /\ session' = session /\ running' = running
  /\ me.end = turn[t].end /\ me.ops = turn[t].ops
  /\ turn[t].stale => me.stale
  /\ InCall(me) => InCall(turn[t])
  /\ InCall(turn[t]) => InCall(me) \/ faults' > 0
  /\ At(t, "ending") => /\ me.pc = "ending"
                        /\ turn[t].answer = "not-recorded" => me.answer = "not-recorded"
  /\ me.kept \in {turn[t].kept, Halve(turn[t].kept)}

Calls(t, me) ==
  /\ Working(turn[t]) /\ ~At(t, "ending") /\ ~InCall(turn[t]) /\ ~turn[t].stale
  /\ Keeps(t, me) /\ me.kept = turn[t].kept /\ running' = running
  /\ \E target \in Targets : Wrote(AppendRequest(t, target))
  /\ \/ InCall(me) /\ me.ops = turn[t].ops + 1 /\ me.end = Len(Journal')
     \/ me.pc = "ending" /\ me.stale /\ me.end = turn[t].end /\ faults' > 0

Notes(t, me) ==
  /\ Working(turn[t]) /\ Working(me) /\ Keeps(t, me) /\ running' = running
  /\ ~At(t, "ending") /\ ~InCall(me) /\ me.stale = turn[t].stale
  /\ me.kept \in {turn[t].kept, Halve(turn[t].kept)}
  /\ \E es \in Seq(EntryT) :
       /\ Wrote(RecordRequest(t, es))
       /\ \A k \in DOMAIN es : es[k].by = t /\ es[k].kind \in {"result", "step"}
       /\ InCall(turn[t]) => \E k \in DOMAIN es : es[k].kind = "result" /\ es[k].op = ThisOp(t)
  /\ \/ me.end = turn[t].end
     \/ me.end = Len(Journal') /\ ~turn[t].stale

Fails(t, me) ==
  /\ At(t, "ending") /\ turn[t].answer # "reply"
  /\ me.pc = "over" /\ me.outcome = turn[t].answer /\ Same(t, me) /\ me.end = 0
  /\ Frees(t)
  /\ \E how \in {"failed", "cancelled"} :
       Wrote(RecordRequest(t, <<Step(t), RunResult(t, how)>>))

Saves(t, me) ==
  /\ At(t, "ending") /\ turn[t].answer = "reply" /\ ~turn[t].stale /\ Same(t, me)
  /\ \E c \in Trimmed(Append(turn[t].kept, t)) : Wrote(SaveRequest(t, c))
  /\ \/ me.pc = "over" /\ me.outcome = "done" /\ me.end = 0 /\ Frees(t)
     \/ /\ me.pc = "ending" /\ me.answer = "not-recorded" /\ Keeps(t, me)
        /\ me.end = turn[t].end /\ me.kept = turn[t].kept /\ running' = running /\ faults' > 0

Steps(t, me) ==
  /\ turn' = [turn EXCEPT ![t] = me] /\ TurnOK(me)
  /\ faults' \in faults..MaxFaults /\ crashes' \in 0..MaxCrashes
  /\ \/ Begins(t, me) \/ Reads(t, me) \/ Plans(t, me) \/ OpensRun(t, me) \/ Joins(t, me)
     \/ Leaves(t, me) \/ Moves(t, me) \/ Calls(t, me) \/ Notes(t, me) \/ Fails(t, me)
     \/ Saves(t, me)

LEMMA EntryIs ==
  ASSUME NEW kind \in {"step", "run", "op", "result", "ended"},
         NEW t \in Turns, NEW op \in Nat \X Nat, NEW says \in SaysT
  PROVE  /\ Entry(kind, t, op, says) \in EntryT
         /\ Entry(kind, t, op, says).kind = kind /\ Entry(kind, t, op, says).by = t
         /\ Entry(kind, t, op, says).op = op /\ Entry(kind, t, op, says).says = says
  BY DEF Entry, EntryT

LEMMA EntriesOf ==
  ASSUME NEW t \in Turns
  PROVE  /\ Step(t) \in EntryT /\ Step(t).by = t /\ Step(t).kind = "step"
         /\ RunEntry(t) \in EntryT /\ RunEntry(t).by = t /\ RunEntry(t).kind = "run"
         /\ \A says \in {"done"} \cup Outcomes :
              /\ RunResult(t, says) \in EntryT /\ RunResult(t, says).by = t
              /\ RunResult(t, says).kind = "ended" /\ RunResult(t, says).says = says
         /\ \A op \in Nat \X Nat : \A says \in Targets :
              /\ Op(t, op, says) \in EntryT /\ Op(t, op, says).by = t
              /\ Op(t, op, says).kind = "op" /\ Op(t, op, says).op = op
         /\ \A op \in Nat \X Nat : \A says \in Outcomes :
              /\ OpResult(t, op, says) \in EntryT /\ OpResult(t, op, says).by = t
              /\ OpResult(t, op, says).kind = "result" /\ OpResult(t, op, says).op = op
<1>1. NoOp \in Nat \X Nat
  BY DEF NoOp
<1>2. /\ Step(t) \in EntryT /\ Step(t).by = t /\ Step(t).kind = "step"
      /\ RunEntry(t) \in EntryT /\ RunEntry(t).by = t /\ RunEntry(t).kind = "run"
  <2> DEFINE says == ""
  <2>1. says \in SaysT
    BY DEF SaysT
  <2>2. Step(t) = Entry("step", t, NoOp, says) /\ RunEntry(t) = Entry("run", t, NoOp, says)
    BY DEF Step, RunEntry
  <2> HIDE DEF says
  <2> QED
    BY <1>1, <2>1, <2>2, EntryIs
<1>3. ASSUME NEW says \in {"done"} \cup Outcomes
      PROVE  /\ RunResult(t, says) \in EntryT /\ RunResult(t, says).by = t
             /\ RunResult(t, says).kind = "ended" /\ RunResult(t, says).says = says
  <2>1. says \in SaysT
    BY DEF SaysT, Outcomes
  <2> QED
    BY <1>1, <2>1, EntryIs DEF RunResult
<1>4. ASSUME NEW op \in Nat \X Nat, NEW says \in Targets
      PROVE  /\ Op(t, op, says) \in EntryT /\ Op(t, op, says).by = t
             /\ Op(t, op, says).kind = "op" /\ Op(t, op, says).op = op
  <2>1. says \in SaysT
    BY DEF SaysT, Targets
  <2> QED
    BY <2>1, EntryIs DEF Op
<1>5. ASSUME NEW op \in Nat \X Nat, NEW says \in Outcomes
      PROVE  /\ OpResult(t, op, says) \in EntryT /\ OpResult(t, op, says).by = t
             /\ OpResult(t, op, says).kind = "result" /\ OpResult(t, op, says).op = op
  <2>1. says \in SaysT
    BY DEF SaysT, Outcomes
  <2> QED
    BY <2>1, EntryIs DEF OpResult
<1> QED
  BY <1>2, <1>3, <1>4, <1>5

LEMMA ThisOpType ==
  ASSUME TypeInv, NEW t \in Turns
  PROVE  ThisOp(t) \in Nat \X Nat /\ NextOp(t) \in Nat \X Nat
  BY NAssumption DEF TypeInv, TurnT, ThisOp, NextOp

LEMMA CommitTypes ==
  ASSUME TypeInv, NEW t \in Turns
  PROVE  /\ OpenRequest(t) \in CommitT
         /\ \A target \in Targets : AppendRequest(t, target) \in CommitT
         /\ \A es \in Seq(EntryT) : RecordRequest(t, es) \in CommitT
         /\ \A c \in Seq(Turns) : SaveRequest(t, c) \in CommitT
<1>1. turn[t] \in TurnT
  BY DEF TypeInv
<1>2. OpenRequest(t) \in CommitT
  <2> DEFINE new == <<Step(t), RunEntry(t)>>
  <2>1. new \in Seq(EntryT)
    BY EntriesOf
  <2> HIDE DEF new
  <2>2. turn[t].closing \o new \in Seq(EntryT)
    BY <1>1, <2>1 DEF TurnT
  <2>3. OpenRequest(t).entries = turn[t].closing \o new
    BY DEF OpenRequest, new
  <2> QED
    BY <1>1, <2>2 DEF OpenRequest, CommitT, TurnT, new
<1>3. ASSUME NEW target \in Targets PROVE AppendRequest(t, target) \in CommitT
  BY <1>1, ThisOpType, EntriesOf DEF AppendRequest, EntriesOnly, CommitT, TurnT
<1>4. ASSUME NEW es \in Seq(EntryT) PROVE RecordRequest(t, es) \in CommitT
  BY <1>1 DEF RecordRequest, EntriesOnly, CommitT, TurnT
<1>5. ASSUME NEW c \in Seq(Turns) PROVE SaveRequest(t, c) \in CommitT
  <2>1. <<Step(t), RunResult(t, "done")>> \in Seq(EntryT)
    <3>1. Step(t) \in EntryT /\ RunResult(t, "done") \in EntryT
      BY EntriesOf
    <3> QED
      BY <3>1
  <2> QED
    BY <1>1, <2>1 DEF SaveRequest, CommitT, TurnT, SnapshotT
<1> QED
  BY <1>2, <1>3, <1>4, <1>5

(* A turn that goes on working, outside a call.                             *)
GoesTo(t, me) ==
  /\ TurnOK(me) /\ Working(me) /\ ~InCall(me) /\ Keeps(t, me)
  /\ me.end = turn[t].end /\ me.stale = turn[t].stale /\ me.ops = turn[t].ops
  /\ me.kept \in {turn[t].kept, Halve(turn[t].kept)}

LEMMA NewestType ==
  ASSUME NEW s \in Seq(Turns), NEW n \in Nat
  PROVE  /\ Newest(s, n) \in Seq(Turns)
         /\ Halve(s) \in Seq(Turns)
<1>1. \A m \in Nat : Newest(s, m) \in Seq(Turns)
  BY DEF Newest
<1>2. Len(s) \div 2 \in Nat
  OBVIOUS
<1> QED
  BY <1>1, <1>2 DEF Halve

LEMMA FreshType ==
  /\ Fresh \in TurnT /\ Fresh.pc = "new" /\ Fresh.outcome = "none" /\ Fresh.calls = 0
  /\ Fresh.end = 0 /\ Fresh.stale = FALSE
<1> DEFINE s == Snapshot(EmptySession)
<1>1. s \in SnapshotT
  BY DEF Snapshot, EmptySession, JournalEnd, SnapshotT
<1>2. (CHOOSE i \in Instances : TRUE) \in Instances /\ (CHOOSE r \in RunIds : TRUE) \in RunIds
  BY NAssumption
<1>3. "" \in AnswerT /\ "new" \in PCs
  BY DEF AnswerT, PCs
<1>4. << >> \in Seq(EntryT) /\ << >> \in Seq(Turns)
  OBVIOUS
<1> DEFINE none == << >>
           out == {"none", "crashed"} \cup NotStarted \cup Endings
           i0 == CHOOSE i \in Instances : TRUE
           r0 == CHOOSE r \in RunIds : TRUE
<1>5. Fresh = [pc |-> "new", inst |-> i0, run |-> r0, snap |-> s, closing |-> none,
               kept |-> none, end |-> 0, stale |-> FALSE, steps |-> 0, shortened |-> FALSE,
               ops |-> 0, answer |-> "", calls |-> 0, late |-> FALSE, outcome |-> "none"]
  BY DEF Fresh
<1>6. "none" \in out
  OBVIOUS
<1> HIDE DEF s, none, out, i0, r0
<1>7. /\ none \in Seq(EntryT) /\ none \in Seq(Turns) /\ i0 \in Instances /\ r0 \in RunIds
  BY <1>2, <1>4 DEF none, i0, r0
<1>8. TurnT = [pc : PCs, inst : Instances, run : RunIds, snap : SnapshotT,
               closing : Seq(EntryT), kept : Seq(Turns), end : Nat, stale : BOOLEAN,
               steps : Nat, shortened : BOOLEAN, ops : Nat, answer : AnswerT, calls : Nat,
               late : BOOLEAN, outcome : out]
  BY DEF TurnT, out
<1>9. Fresh \in TurnT
  BY <1>1, <1>3, <1>5, <1>6, <1>7, <1>8
<1> QED
  BY <1>5, <1>9

LEMMA EndIs ==
  ASSUME TypeInv, NEW t \in Turns, NEW outcome \in NotStarted \cup Endings \cup {"crashed"},
         End(t, outcome)
  PROVE  \E me \in TurnT :
           /\ TurnOK(me) /\ turn' = [turn EXCEPT ![t] = me] /\ Frees(t)
           /\ me.pc = "over" /\ me.outcome = outcome /\ Same(t, me) /\ me.end = 0
<1> DEFINE me == [Fresh EXCEPT !.pc = "over", !.outcome = outcome, !.inst = turn[t].inst,
                               !.run = turn[t].run, !.steps = turn[t].steps]
<1>1. turn[t] \in TurnT
  BY DEF TypeInv
<1>2. outcome # "none" /\ "over" \in PCs
  BY DEF NotStarted, Endings, PCs
<1>3. /\ me \in TurnT /\ me.pc = "over" /\ me.outcome = outcome /\ me.end = 0 /\ me.calls = 0
      /\ me.inst = turn[t].inst /\ me.run = turn[t].run
  BY <1>1, <1>2, FreshType DEF TurnT
<1>4. turn' = [turn EXCEPT ![t] = me] /\ Frees(t)
  BY DEF End, Frees
<1> HIDE DEF me
<1>5. TurnOK(me)
  BY <1>2, <1>3, NAssumption DEF TurnOK
<1> QED
  BY <1>3, <1>4, <1>5 DEF Same

LEMMA EndingIs ==
  ASSUME TypeInv, NEW t \in Turns, NEW r \in TurnT, NEW how \in Verdicts, r.outcome = "none"
  PROVE  /\ Ending(r, how) \in TurnT /\ TurnOK(Ending(r, how))
         /\ Ending(r, how).pc = "ending" /\ Ending(r, how).answer = how
         /\ Ending(r, how).run = r.run /\ Ending(r, how).inst = r.inst
         /\ Ending(r, how).snap = r.snap /\ Ending(r, how).kept = r.kept
         /\ Ending(r, how).end = r.end /\ Ending(r, how).stale = r.stale
         /\ Ending(r, how).ops = r.ops
<1>1. how \in AnswerT /\ "ending" \in PCs
  BY DEF AnswerT, PCs
<1> DEFINE e == Ending(r, how)
<1>2. /\ e \in TurnT /\ e.pc = "ending" /\ e.answer = how /\ e.calls = 0 /\ e.outcome = "none"
      /\ e.run = r.run /\ e.inst = r.inst /\ e.snap = r.snap /\ e.kept = r.kept
      /\ e.end = r.end /\ e.stale = r.stale /\ e.ops = r.ops
  BY <1>1 DEF Ending, TurnT
<1> HIDE DEF e
<1>3. TurnOK(e)
  BY <1>2, NAssumption DEF TurnOK
<1> QED
  BY <1>2, <1>3 DEF e

LEMMA Amended ==
  ASSUME NEW r, TurnOK(r), NEW e \in Nat
  PROVE  /\ TurnOK([r EXCEPT !.end = e]) /\ [r EXCEPT !.end = e].end = e
         /\ [r EXCEPT !.end = e].pc = r.pc /\ [r EXCEPT !.end = e].run = r.run
         /\ [r EXCEPT !.end = e].inst = r.inst /\ [r EXCEPT !.end = e].snap = r.snap
         /\ [r EXCEPT !.end = e].kept = r.kept /\ [r EXCEPT !.end = e].stale = r.stale
         /\ [r EXCEPT !.end = e].ops = r.ops /\ [r EXCEPT !.end = e].answer = r.answer
         /\ TurnOK([r EXCEPT !.stale = TRUE]) /\ [r EXCEPT !.stale = TRUE].end = r.end
         /\ [r EXCEPT !.stale = TRUE].pc = r.pc /\ [r EXCEPT !.stale = TRUE].run = r.run
         /\ [r EXCEPT !.stale = TRUE].inst = r.inst /\ [r EXCEPT !.stale = TRUE].snap = r.snap
         /\ [r EXCEPT !.stale = TRUE].kept = r.kept /\ [r EXCEPT !.stale = TRUE].stale = TRUE
         /\ [r EXCEPT !.stale = TRUE].ops = r.ops
         /\ [r EXCEPT !.stale = TRUE].answer = r.answer
<1>1. r \in TurnT
  BY DEF TurnOK
<1> DEFINE u == [r EXCEPT !.end = e]
           v == [r EXCEPT !.stale = TRUE]
<1>2. /\ u \in TurnT /\ u.end = e /\ u.pc = r.pc /\ u.run = r.run /\ u.inst = r.inst
      /\ u.snap = r.snap /\ u.kept = r.kept /\ u.stale = r.stale /\ u.ops = r.ops
      /\ u.answer = r.answer /\ u.calls = r.calls /\ u.outcome = r.outcome
  BY <1>1 DEF TurnT
<1>3. /\ v \in TurnT /\ v.end = r.end /\ v.pc = r.pc /\ v.run = r.run /\ v.inst = r.inst
      /\ v.snap = r.snap /\ v.kept = r.kept /\ v.stale = TRUE /\ v.ops = r.ops
      /\ v.answer = r.answer /\ v.calls = r.calls /\ v.outcome = r.outcome
  BY <1>1 DEF TurnT
<1> HIDE DEF u, v
<1>4. TurnOK(u) /\ TurnOK(v)
  BY <1>2, <1>3 DEF TurnOK
<1> QED
  BY <1>2, <1>3, <1>4 DEF u, v

(* What came of committing entries alone. *)
LEMMA EntriesReply ==
  ASSUME TypeInv, NEW es \in Seq(EntryT), NEW q \in SUBSET Nat,
         NEW r \in Replies(EntriesOnly(es, q)), Apply(r)
  PROVE  /\ faults' \in faults..MaxFaults
         /\ \/ /\ r.how = "committed" /\ Wrote(EntriesOnly(es, q)) /\ faults' = faults
               /\ r.end = Len(Journal') /\ Len(Journal') \in Nat
            \/ r.how = "stale" /\ session' = session /\ faults' = faults
            \/ /\ r.how = "error" /\ faults' > 0
               /\ session' = session \/ Wrote(EntriesOnly(es, q))
<1> DEFINE c == EntriesOnly(es, q)
<1>1. c \in CommitT /\ c.state = {} /\ c.id = {} /\ c.entries = es
  BY DEF EntriesOnly, CommitT
<1>2. session \in SessionT /\ faults \in 0..MaxFaults /\ MaxFaults \in Nat
  BY NAssumption DEF TypeInv
<1> HIDE DEF c
<1>3. r \in Replies(c)
  BY DEF c
<1>4. \/ /\ r.how = "committed" /\ r.fault = 0 /\ Applied(r, c)
         /\ r.end = Len(Journal \o c.entries)
      \/ r.how = "stale" /\ r.fault = 0 /\ r.session = session
      \/ /\ r.how = "error" /\ r.fault = 1 /\ faults # MaxFaults
         /\ r.session = session \/ Applied(r, c)
  BY <1>1, <1>2, <1>3, ReplyCases
<1>5. session' = r.session /\ faults' = faults + r.fault
  BY DEF Apply
<1>6. Applied(r, c) => Wrote(c) /\ session' = Written(session, c)
  BY <1>5 DEF Applied, Wrote
<1>7. ASSUME session' = Written(session, c)
      PROVE  Journal' = Journal \o c.entries /\ Len(Journal') \in Nat
  <2>1. Written(session, c).journal = Journal \o c.entries
    BY <1>1, <1>2, WrittenIs
  <2>2. Journal' = Journal \o c.entries
    BY <1>7, <2>1 DEF Journal
  <2>3. Journal \in Seq(EntryT)
    BY <1>2 DEF SessionT, Journal
  <2>4. Journal \o c.entries \in Seq(EntryT)
    BY <1>1, <2>3
  <2> QED
    BY <2>2, <2>4
<1>8. \/ /\ r.how = "committed" /\ Wrote(c) /\ faults' = faults
         /\ r.end = Len(Journal') /\ Len(Journal') \in Nat
      \/ r.how = "stale" /\ session' = session /\ faults' = faults
      \/ /\ r.how = "error" /\ faults' > 0 /\ faults' \in faults..MaxFaults
         /\ session' = session \/ Wrote(c)
  BY <1>2, <1>4, <1>5, <1>6, <1>7
<1> QED
  BY <1>2, <1>8 DEF c

LEMMA RecordStep ==
  ASSUME TypeInv, NEW t \in Turns, Working(turn[t]), ~At(t, "ending"),
         NEW es \in Seq(EntryT), NEW next, GoesTo(t, next), Record(t, es, next),
         UNCHANGED <<running, crashes>>,
         \A k \in DOMAIN es : es[k].by = t /\ es[k].kind \in {"result", "step"},
         InCall(turn[t]) => \E k \in DOMAIN es : es[k].kind = "result" /\ es[k].op = ThisOp(t)
  PROVE  \E me \in TurnT : Steps(t, me)
<1>1. /\ TurnOK(turn[t]) /\ turn[t] \in TurnT /\ turn[t].end \in Nat /\ crashes \in 0..MaxCrashes
      /\ turn[t].stale \in BOOLEAN /\ TurnOK(next) /\ faults \in 0..MaxFaults
  BY DEF TypeInv, TurnT, GoesTo
<1>2. PICK r \in Replies(RecordRequest(t, es)) :
        /\ Apply(r)
        /\ Go(t, IF r.how = "stale" THEN [turn[t] EXCEPT !.stale = TRUE]
                 ELSE [next EXCEPT !.end = Moved(t, r)])
  BY DEF Record
<1> DEFINE c == RecordRequest(t, es)
<1>3. /\ faults' \in faults..MaxFaults
      /\ \/ /\ r.how = "committed" /\ Wrote(c) /\ faults' = faults
            /\ r.end = Len(Journal') /\ Len(Journal') \in Nat
         \/ r.how = "stale" /\ session' = session /\ faults' = faults
         \/ r.how = "error" /\ faults' > 0 /\ (session' = session \/ Wrote(c))
  <2> DEFINE q == IF turn[t].stale THEN {} ELSE {turn[t].end}
  <2>1. q \in SUBSET Nat /\ c = EntriesOnly(es, q)
    BY <1>1 DEF RecordRequest
  <2> HIDE DEF q, c
  <2>2. r \in Replies(EntriesOnly(es, q))
    BY <1>2, <2>1 DEF c
  <2> QED
    BY <1>2, <2>1, <2>2, EntriesReply
<1>4. CASE r.how = "stale"
  <2> DEFINE me == [turn[t] EXCEPT !.stale = TRUE]
  <2>1. session' = session /\ faults' = faults
    BY <1>3, <1>4
  <2>2. /\ TurnOK(me) /\ me.pc = turn[t].pc /\ me.stale = TRUE /\ Keeps(t, me)
        /\ me.kept = turn[t].kept /\ me.end = turn[t].end /\ me.ops = turn[t].ops
    BY <1>1, Amended DEF Keeps, Same
  <2>3. turn' = [turn EXCEPT ![t] = me]
    BY <1>2, <1>4 DEF Go
  <2> HIDE DEF me
  <2>4. Working(me) /\ (InCall(me) <=> InCall(turn[t])) /\ ~At(t, "ending")
    BY <2>2 DEF Working, InCall
  <2>5. Moves(t, me)
    BY <2>1, <2>2, <2>4 DEF Moves
  <2>6. me \in TurnT
    BY <2>2 DEF TurnOK
  <2>7. Steps(t, me)
    BY <1>1, <1>3, <2>2, <2>3, <2>5 DEF Steps
  <2> QED
    BY <2>6, <2>7
<1>5. CASE r.how # "stale"
  <2> DEFINE e == Moved(t, r)
             me == [next EXCEPT !.end = e]
  <2>1. /\ e \in Nat
        /\ r.how = "error" => e = turn[t].end
        /\ r.how = "committed" => e = turn[t].end \/ (e = Len(Journal') /\ ~turn[t].stale)
    BY <1>1, <1>3, <1>5 DEF Moved
  <2>2. turn' = [turn EXCEPT ![t] = me]
    BY <1>2, <1>5 DEF Go
  <2> HIDE DEF e
  <2>3. /\ TurnOK(me) /\ me.pc = next.pc /\ me.run = next.run /\ me.inst = next.inst
        /\ me.snap = next.snap /\ me.kept = next.kept /\ me.stale = next.stale
        /\ me.ops = next.ops /\ me.end = e
    <3>1. TurnOK(next) /\ e \in Nat
      BY <1>1, <2>1
    <3> QED
      BY <3>1, Amended
  <2> HIDE DEF me
  <2>4. /\ Working(me) /\ ~InCall(me) /\ Keeps(t, me) /\ me.stale = turn[t].stale
        /\ me.ops = turn[t].ops /\ me.kept \in {turn[t].kept, Halve(turn[t].kept)}
    BY <2>3 DEF GoesTo, Working, InCall, Keeps, Same
  <2>5. CASE session' = session /\ faults' > 0 /\ e = turn[t].end
    <3>1. Moves(t, me)
      BY <2>3, <2>4, <2>5 DEF Moves
    <3> QED
      BY <1>1, <1>3, <2>2, <2>3, <3>1 DEF Steps, TurnOK
  <2>6. CASE Wrote(c)
    <3>1. Notes(t, me)
      BY <1>3, <1>5, <2>1, <2>3, <2>4, <2>6 DEF Notes
    <3> QED
      BY <1>1, <1>3, <2>2, <2>3, <3>1 DEF Steps, TurnOK
  <2> QED
    BY <1>3, <1>5, <2>1, <2>5, <2>6
<1> QED
  BY <1>4, <1>5

LEMMA DispatchStep ==
  ASSUME TypeInv, NEW t \in Turns, Working(turn[t]), ~At(t, "ending"), ~InCall(turn[t]),
         NEW target \in Targets, NEW next, TurnOK(next), next.outcome = "none", Keeps(t, next),
         next.end = turn[t].end, next.stale = turn[t].stale, next.ops = turn[t].ops,
         next.kept = turn[t].kept, target = "tool" => next.calls > 0,
         Dispatch(t, target, next), UNCHANGED <<running, crashes>>
  PROVE  \E me \in TurnT : Steps(t, me)
<1>1. /\ TurnOK(turn[t]) /\ turn[t] \in TurnT /\ turn[t].end \in Nat /\ crashes \in 0..MaxCrashes
      /\ turn[t].stale \in BOOLEAN /\ faults \in 0..MaxFaults /\ MaxFaults \in Nat
      /\ next \in TurnT /\ next.ops \in Nat
  BY NAssumption DEF TypeInv, TurnT, TurnOK
<1>2. "superseded" \in Verdicts
  BY DEF Verdicts
<1>3. CASE turn[t].stale
  <2> DEFINE me == Ending(next, "superseded")
  <2>1. turn' = [turn EXCEPT ![t] = me] /\ session' = session /\ faults' = faults
    BY <1>3 DEF Dispatch, Go
  <2>2. /\ TurnOK(me) /\ me \in TurnT /\ me.pc = "ending" /\ Keeps(t, me) /\ me.kept = turn[t].kept
        /\ me.end = turn[t].end /\ me.ops = turn[t].ops /\ me.stale
    BY <1>1, <1>2, <1>3, EndingIs DEF Keeps, Same
  <2> HIDE DEF me
  <2>3. Moves(t, me)
    BY <2>1, <2>2 DEF Moves, Working, InCall
  <2>4. faults' \in faults..MaxFaults /\ crashes' \in 0..MaxCrashes
    BY <1>1, <2>1
  <2> QED
    BY <2>1, <2>2, <2>3, <2>4 DEF Steps
<1>4. CASE ~turn[t].stale
  <2> DEFINE c == AppendRequest(t, target)
  <2>1. PICK r \in Replies(c) :
          /\ Apply(r)
          /\ Go(t, IF r.how = "committed"
                   THEN [next EXCEPT !.pc = target, !.ops = @ + 1, !.end = r.end]
                   ELSE Ending([next EXCEPT !.stale = TRUE], "superseded"))
    BY <1>4 DEF Dispatch
  <2>2. /\ faults' \in faults..MaxFaults
        /\ \/ /\ r.how = "committed" /\ Wrote(c) /\ faults' = faults
              /\ r.end = Len(Journal') /\ Len(Journal') \in Nat
           \/ r.how = "stale" /\ session' = session /\ faults' = faults
           \/ r.how = "error" /\ faults' > 0 /\ (session' = session \/ Wrote(c))
    <3> DEFINE es == <<Op(t, NextOp(t), target)>>
               q == {turn[t].end}
    <3>1. es \in Seq(EntryT) /\ q \in SUBSET Nat
      BY <1>1, ThisOpType, EntriesOf
    <3>2. c = EntriesOnly(es, q)
      BY DEF AppendRequest
    <3> HIDE DEF es, q, c
    <3>3. r \in Replies(EntriesOnly(es, q)) /\ Apply(r)
      BY <2>1, <3>2
    <3> QED
      BY <3>1, <3>2, <3>3, EntriesReply
  <2>3. crashes' \in 0..MaxCrashes
    BY <1>1
  <2>4. CASE r.how = "committed"
    <3> DEFINE e == r.end
               n == next.ops + 1
               me == [next EXCEPT !.pc = target, !.ops = n, !.end = e]
    <3>1. turn' = [turn EXCEPT ![t] = me]
      BY <2>1, <2>4 DEF Go
    <3>2. target \in PCs /\ target \in {"model", "tool"} /\ r.end \in Nat
      BY <2>2, <2>4 DEF PCs, Targets
    <3>3. /\ me \in TurnT /\ me.pc = target /\ me.run = next.run /\ me.inst = next.inst
          /\ me.snap = next.snap /\ me.kept = next.kept /\ me.ops = next.ops + 1
          /\ me.end = r.end /\ me.calls = next.calls /\ me.outcome = "none"
      <4>1. target \in PCs /\ e \in Nat /\ n \in Nat
        BY <1>1, <3>2
      <4> HIDE DEF e, n
      <4>2. /\ me \in TurnT /\ me.pc = target /\ me.run = next.run /\ me.inst = next.inst
            /\ me.snap = next.snap /\ me.kept = next.kept /\ me.ops = n
            /\ me.end = e /\ me.calls = next.calls /\ me.outcome = next.outcome
        BY <1>1, <4>1 DEF TurnT
      <4> QED
        BY <4>2 DEF n, e
    <3> HIDE DEF me
    <3>4. TurnOK(me)
      BY <3>2, <3>3 DEF TurnOK
    <3>5. Calls(t, me)
      BY <1>4, <2>2, <2>4, <3>2, <3>3 DEF Calls, InCall, Keeps, Same
    <3> QED
      BY <2>2, <2>3, <3>1, <3>3, <3>4, <3>5 DEF Steps
  <2>5. CASE r.how # "committed"
    <3> DEFINE s == [next EXCEPT !.stale = TRUE]
               me == Ending(s, "superseded")
    <3>1. turn' = [turn EXCEPT ![t] = me]
      BY <2>1, <2>5 DEF Go
    <3>2. /\ s \in TurnT /\ s.outcome = "none" /\ s.run = next.run /\ s.inst = next.inst
          /\ s.snap = next.snap /\ s.kept = next.kept /\ s.end = next.end /\ s.ops = next.ops
          /\ s.stale = TRUE
      BY <1>1 DEF TurnT
    <3> HIDE DEF s
    <3>3. /\ TurnOK(me) /\ me \in TurnT /\ me.pc = "ending" /\ me.run = s.run /\ me.inst = s.inst
          /\ me.snap = s.snap /\ me.kept = s.kept /\ me.end = s.end /\ me.ops = s.ops
          /\ me.stale = s.stale
      BY <1>2, <3>2, EndingIs
    <3> HIDE DEF me
    <3>4. /\ Keeps(t, me) /\ me.kept = turn[t].kept /\ me.end = turn[t].end
          /\ me.ops = turn[t].ops /\ me.stale
      BY <3>2, <3>3 DEF Keeps, Same
    <3>5. CASE session' = session
      <4>1. Moves(t, me)
        BY <3>3, <3>4, <3>5 DEF Moves, Working, InCall
      <4> QED
        BY <2>2, <2>3, <3>1, <3>3, <4>1 DEF Steps
    <3>6. CASE Wrote(c) /\ faults' > 0
      <4>1. Calls(t, me)
        BY <1>4, <3>3, <3>4, <3>6 DEF Calls
      <4> QED
        BY <2>2, <2>3, <3>1, <3>3, <4>1 DEF Steps
    <3> QED
      BY <2>2, <2>5, <3>5, <3>6
  <2> QED
    BY <2>4, <2>5
<1> QED
  BY <1>3, <1>4

LEMMA ClosingIs ==
  ASSUME NEW t \in Turns, NEW e \in EntryT
  PROVE  /\ Closing(t, e) \in Seq(EntryT)
         /\ \A m \in DOMAIN Closing(t, e) :
              Closing(t, e)[m].by = t /\ Closing(t, e)[m].kind \in {"result", "step"}
         /\ 1 \in DOMAIN Closing(t, e) /\ Closing(t, e)[1].kind = "result"
         /\ Closing(t, e)[1].op = e.op
<1>1. "cancelled" \in Outcomes /\ "unresolved" \in Outcomes /\ e.op \in Nat \X Nat
  BY DEF Outcomes, EntryT
<1> DEFINE a == OpResult(t, e.op, "cancelled")
           b == OpResult(t, e.op, "unresolved")
           s == Step(t)
<1>2. /\ a \in EntryT /\ a.by = t /\ a.kind = "result" /\ a.op = e.op
      /\ b \in EntryT /\ b.by = t /\ b.kind = "result" /\ b.op = e.op
      /\ s \in EntryT /\ s.by = t /\ s.kind = "step"
  BY <1>1, EntriesOf
<1>3. Closing(t, e) \in {<<a>>, <<b, s>>}
  BY DEF Closing
<1> HIDE DEF a, b, s
<1>4. CASE Closing(t, e) = <<a>>
  BY <1>2, <1>4
<1>5. CASE Closing(t, e) = <<b, s>>
  <2> DEFINE q == <<b, s>>
  <2>1. q \in Seq(EntryT) /\ DOMAIN q = {1, 2} /\ q[1] = b /\ q[2] = s
    BY <1>2
  <2> HIDE DEF q
  <2>2. Closing(t, e) = q
    BY <1>5 DEF q
  <2>3. /\ q \in Seq(EntryT)
        /\ \A m \in DOMAIN q : q[m].by = t /\ q[m].kind \in {"result", "step"}
        /\ 1 \in DOMAIN q /\ q[1].kind = "result" /\ q[1].op = e.op
    BY <1>2, <2>1
  <2> QED
    BY <2>2, <2>3
<1> QED
  BY <1>3, <1>4, <1>5

LEMMA RecoverIs ==
  ASSUME TypeInv, NEW t \in Turns, NEW through \in Nat
  PROVE  /\ Recover(t, through) \in Seq(EntryT)
         /\ \A k \in DOMAIN Recover(t, through) :
              /\ Recover(t, through)[k].by = t
              /\ Recover(t, through)[k].kind \in {"result", "step"}
         /\ \A i \in DOMAIN Journal : i > through /\ IsOpen(Journal, i) =>
              \E k \in DOMAIN Recover(t, through) :
                /\ Recover(t, through)[k].kind = "result"
                /\ Recover(t, through)[k].op = Journal[i].op
<1> DEFINE s == [i \in 1..Len(Journal) |->
                   IF i > through /\ IsOpen(Journal, i) THEN Closing(t, Journal[i]) ELSE << >>]
           f == Recover(t, through)
<1>1. Journal \in Seq(EntryT) /\ Len(Journal) \in Nat /\ DOMAIN Journal = 1..Len(Journal)
  BY DEF TypeInv, SessionT, Journal
<1>2. \A i \in DOMAIN Journal : Journal[i] \in EntryT
  BY <1>1
<1>3. \A i \in 1..Len(Journal) : s[i] \in Seq(EntryT)
  BY <1>1, <1>2, ClosingIs
<1>4. s \in Seq(Seq(EntryT)) /\ DOMAIN s = DOMAIN Journal
  <2>1. s \in [1..Len(Journal) -> Seq(EntryT)]
    BY <1>3
  <2> HIDE DEF s
  <2> QED
    BY <1>1, <2>1
<1>5. f = FlattenSeq(s)
  BY DEF Recover
<1>6. ASSUME NEW i \in DOMAIN s, NEW m \in DOMAIN s[i]
      PROVE  s[i][m].by = t /\ s[i][m].kind \in {"result", "step"}
  <2>1. i \in 1..Len(Journal)
    BY <1>1, <1>4
  <2>2. CASE i > through /\ IsOpen(Journal, i)
    <3>1. s[i] = Closing(t, Journal[i])
      BY <2>1, <2>2
    <3>2. Journal[i] \in EntryT
      BY <1>1, <1>2, <2>1
    <3> HIDE DEF s
    <3>3. m \in DOMAIN Closing(t, Journal[i])
      BY <3>1
    <3> QED
      BY <3>1, <3>2, <3>3, ClosingIs
  <2>3. CASE ~(i > through /\ IsOpen(Journal, i))
    <3>1. s[i] = << >>
      BY <2>1, <2>3
    <3> HIDE DEF s
    <3> QED
      BY <3>1
  <2> QED
    BY <2>2, <2>3
<1>7. ASSUME NEW i \in DOMAIN Journal, i > through, IsOpen(Journal, i)
      PROVE  i \in DOMAIN s /\ 1 \in DOMAIN s[i] /\ s[i][1].kind = "result"
             /\ s[i][1].op = Journal[i].op
  <2>1. s[i] = Closing(t, Journal[i]) /\ Journal[i] \in EntryT
    BY <1>1, <1>2, <1>7
  <2> HIDE DEF s
  <2> QED
    BY <1>4, <2>1, ClosingIs
<1> HIDE DEF s, f
<1>8. /\ f \in Seq(EntryT)
      /\ \A k \in DOMAIN f : \E i \in DOMAIN s : \E m \in DOMAIN s[i] : f[k] = s[i][m]
      /\ \A i \in DOMAIN s : \A m \in DOMAIN s[i] : \E k \in DOMAIN f : f[k] = s[i][m]
  BY <1>4, <1>5, FlattenHas
<1>9. \A k \in DOMAIN f : f[k].by = t /\ f[k].kind \in {"result", "step"}
  BY <1>6, <1>8
<1>10. \A i \in DOMAIN Journal : i > through /\ IsOpen(Journal, i) =>
         \E k \in DOMAIN f : f[k].kind = "result" /\ f[k].op = Journal[i].op
  <2> SUFFICES ASSUME NEW i \in DOMAIN Journal, i > through, IsOpen(Journal, i)
               PROVE  \E k \in DOMAIN f : f[k].kind = "result" /\ f[k].op = Journal[i].op
    OBVIOUS
  <2>1. i \in DOMAIN s /\ 1 \in DOMAIN s[i] /\ s[i][1].kind = "result"
        /\ s[i][1].op = Journal[i].op
    BY <1>7
  <2>2. PICK k \in DOMAIN f : f[k] = s[i][1]
    BY <1>8, <2>1
  <2> QED
    BY <2>1, <2>2
<1> QED
  BY <1>8, <1>9, <1>10 DEF f

LEMMA AcceptSteps ==
  ASSUME TypeInv, NEW t \in Turns,
         \/ \E i \in Instances, r \in RunIds : Request(t, i, r)
         \/ Unreadable(t) \/ Current(t) \/ ReadJournal(t)
  PROVE  \E me \in TurnT : Steps(t, me)
<1>1. /\ TurnOK(turn[t]) /\ turn[t] \in TurnT /\ crashes \in 0..MaxCrashes
      /\ faults \in 0..MaxFaults /\ MaxFaults \in Nat /\ session \in SessionT
  BY NAssumption DEF TypeInv
<1>2. UNCHANGED <<session, faults, crashes>>
  BY DEF Request, Unreadable, Current, ReadJournal
<1>3. faults' \in faults..MaxFaults /\ crashes' \in 0..MaxCrashes
  BY <1>1, <1>2
<1>4. ASSUME NEW i \in Instances, NEW r \in RunIds, Request(t, i, r)
      PROVE  \E me \in TurnT : Steps(t, me)
  <2>1. At(t, "new") /\ turn[t].outcome = "none"
    BY <1>1, <1>4 DEF Request, At, TurnOK
  <2>2. CASE running[i]
    <3> DEFINE me == [turn[t] EXCEPT !.pc = "over", !.outcome = "busy", !.inst = i, !.run = r]
    <3>1. turn' = [turn EXCEPT ![t] = me] /\ running' = running
      BY <1>4, <2>2 DEF Request, Go
    <3>2. "over" \in PCs /\ "busy" \in NotStarted
      BY DEF PCs, NotStarted
    <3>3. /\ me \in TurnT /\ me.pc = "over" /\ me.outcome = "busy" /\ me.end = turn[t].end
          /\ me.calls = turn[t].calls
      BY <1>1, <3>2 DEF TurnT
    <3> HIDE DEF me
    <3>4. TurnOK(me)
      BY <1>1, <3>3 DEF TurnOK
    <3> QED
      BY <1>2, <1>3, <2>1, <3>1, <3>3, <3>4 DEF Steps, Begins
  <2>3. CASE ~running[i]
    <3> DEFINE me == [turn[t] EXCEPT !.pc = "accepting", !.inst = i, !.run = r]
    <3>1. turn' = [turn EXCEPT ![t] = me] /\ running' = [running EXCEPT ![i] = TRUE]
      BY <1>4, <2>3 DEF Request, Go
    <3>2. "accepting" \in PCs
      BY DEF PCs
    <3>3. /\ me \in TurnT /\ me.pc = "accepting" /\ me.outcome = turn[t].outcome
          /\ me.end = turn[t].end /\ me.calls = turn[t].calls /\ me.inst = i
      BY <1>1, <3>2 DEF TurnT
    <3> HIDE DEF me
    <3>4. TurnOK(me)
      BY <1>1, <2>1, <3>3 DEF TurnOK
    <3> QED
      BY <1>2, <1>3, <2>1, <2>3, <3>1, <3>3, <3>4 DEF Steps, Begins
  <2> QED
    BY <2>2, <2>3
<1>5. ASSUME Unreadable(t) PROVE \E me \in TurnT : Steps(t, me)
  <2>1. /\ End(t, "unavailable") /\ Active(t) /\ ~Working(turn[t])
        /\ "unavailable" \in NotStarted
    BY <1>5 DEF Unreadable, Active, At, NotStarted, Working
  <2>2. PICK me \in TurnT :
          /\ TurnOK(me) /\ turn' = [turn EXCEPT ![t] = me] /\ Frees(t)
          /\ me.pc = "over" /\ me.outcome = "unavailable" /\ Same(t, me) /\ me.end = 0
    BY <2>1, EndIs
  <2> QED
    BY <1>2, <1>3, <2>1, <2>2 DEF Steps, Leaves
<1>6. ASSUME Current(t) PROVE \E me \in TurnT : Steps(t, me)
  <2> DEFINE p == Snapshot(session)
             k == session.value
             e == Len(Journal)
             me == [turn[t] EXCEPT !.pc = "reading", !.snap = p, !.kept = k, !.end = e]
  <2>1. turn' = [turn EXCEPT ![t] = me] /\ running' = running /\ At(t, "accepting")
    BY <1>6 DEF Current, Go, JournalEnd, Journal
  <2>2. p \in SnapshotT /\ k \in Seq(Turns) /\ e \in Nat /\ "reading" \in PCs
    BY <1>1 DEF Snapshot, SnapshotT, SessionT, JournalEnd, Journal, PCs
  <2> HIDE DEF p, k, e
  <2>3. /\ me \in TurnT /\ me.pc = "reading" /\ me.snap = p /\ me.kept = k /\ me.end = e
        /\ me.run = turn[t].run /\ me.inst = turn[t].inst /\ me.calls = turn[t].calls
        /\ me.outcome = turn[t].outcome
    BY <1>1, <2>2 DEF TurnT
  <2> HIDE DEF me
  <2>4. TurnOK(me)
    BY <1>1, <2>1, <2>3 DEF TurnOK, At
  <2>5. Reads(t, me)
    BY <1>2, <2>1, <2>3 DEF Reads, Same, p, k, e
  <2> QED
    BY <1>3, <2>1, <2>3, <2>4, <2>5 DEF Steps
<1>7. ASSUME ReadJournal(t) PROVE \E me \in TurnT : Steps(t, me)
  <2> DEFINE f == Recover(t, turn[t].snap.through)
             me == [turn[t] EXCEPT !.pc = "opening", !.closing = f]
  <2>1. turn' = [turn EXCEPT ![t] = me] /\ running' = running /\ At(t, "reading")
    BY <1>7 DEF ReadJournal, Go
  <2>2. f \in Seq(EntryT) /\ "opening" \in PCs
    <3>1. turn[t].snap.through \in Nat
      BY <1>1 DEF TurnT, SnapshotT
    <3> QED
      BY <3>1, RecoverIs DEF PCs
  <2> HIDE DEF f
  <2>3. /\ me \in TurnT /\ me.pc = "opening" /\ me.snap = turn[t].snap /\ me.closing = f
        /\ me.kept = turn[t].kept /\ me.end = turn[t].end
        /\ me.run = turn[t].run /\ me.inst = turn[t].inst /\ me.calls = turn[t].calls
        /\ me.outcome = turn[t].outcome
    BY <1>1, <2>2 DEF TurnT
  <2> HIDE DEF me
  <2>4. TurnOK(me)
    BY <1>1, <2>1, <2>3 DEF TurnOK, At
  <2>5. Plans(t, me)
    BY <1>2, <2>1, <2>3 DEF Plans, Keeps, Same, f
  <2> QED
    BY <1>3, <2>1, <2>3, <2>4, <2>5 DEF Steps
<1> QED
  BY <1>4, <1>5, <1>6, <1>7

LEMMA OpenSteps ==
  ASSUME TypeInv, NEW t \in Turns, Open(t)
  PROVE  \E me \in TurnT : Steps(t, me)
<1> DEFINE c == OpenRequest(t)
<1>1. /\ TurnOK(turn[t]) /\ turn[t] \in TurnT /\ crashes \in 0..MaxCrashes
      /\ faults \in 0..MaxFaults /\ MaxFaults \in Nat /\ session \in SessionT
      /\ turn[t].end \in Nat /\ turn[t].outcome = "none" /\ At(t, "opening") /\ Active(t)
      /\ ~Working(turn[t])
  BY NAssumption DEF TypeInv, TurnOK, TurnT, Open, At, Active, Working
<1>2. PICK r \in Replies(c) :
        /\ Apply(r)
        /\ \/ /\ r.how = "committed" /\ r.end > turn[t].end
              /\ Go(t, [turn[t] EXCEPT !.pc = "preparing", !.end = r.end, !.closing = << >>])
              /\ UNCHANGED running
           \/ r.how = "committed" /\ r.end <= turn[t].end /\ End(t, "duplicate")
           \/ r.how = "stale" /\ End(t, "busy")
           \/ r.how = "error" /\ End(t, "unavailable")
  BY DEF Open
<1>3. c \in CommitT /\ c.state = {} /\ c.id = {turn[t].run} /\ c.requireEnd = {turn[t].end}
  BY CommitTypes DEF OpenRequest
<1>4. Written(session, c).journal = Journal \o c.entries /\ Journal \in Seq(EntryT)
  BY <1>1, <1>3, WrittenIs DEF SessionT, Journal
<1>5. /\ Len(Journal \o c.entries) \in Nat
      /\ Matches(session, c) => Len(Journal \o c.entries) > turn[t].end
  <2> DEFINE q == c.entries
  <2>1. q \in Seq(EntryT) /\ Len(q) > 0
    <3> DEFINE new == <<Step(t), RunEntry(t)>>
    <3>1. new \in Seq(EntryT) /\ Len(new) = 2
      BY EntriesOf
    <3>2. turn[t].closing \in Seq(EntryT)
      BY <1>1 DEF TurnT
    <3>3. q = turn[t].closing \o new
      BY DEF OpenRequest
    <3> DEFINE old == turn[t].closing
    <3> HIDE DEF new, q, old
    <3>4. old \in Seq(EntryT) /\ q = old \o new
      BY <3>2, <3>3 DEF old
    <3>5. old \o new \in Seq(EntryT) /\ Len(old \o new) = Len(old) + Len(new)
      BY <3>1, <3>4, Joined2
    <3> QED
      BY <3>1, <3>4, <3>5
  <2>2. Matches(session, c) => turn[t].end = Len(Journal)
    BY <1>3 DEF Matches, JournalEnd, Journal
  <2> HIDE DEF q, c
  <2>3. Len(Journal \o q) = Len(Journal) + Len(q) /\ Len(Journal) \in Nat /\ Len(q) \in Nat
    BY <1>4, <2>1
  <2> QED
    BY <2>1, <2>2, <2>3 DEF q
<1>6. session' = r.session /\ faults' = faults + r.fault
  BY <1>2 DEF Apply
<1>7. crashes' \in 0..MaxCrashes
  BY <1>1 DEF Open
<1>8. (CHOOSE i \in c.id : TRUE) = turn[t].run
  BY <1>3
<1>9. \/ r.how = "committed" /\ Wrote(c) /\ r.end = Len(Journal') /\ r.end > turn[t].end
      \/ /\ r.how = "committed" /\ session' = session
         /\ turn[t].run \in DOMAIN session.ids /\ r.end = session.ids[turn[t].run]
      \/ r.how = "stale" /\ session' = session
      \/ r.how = "error" /\ (session' = session \/ Wrote(c))
  <2> HIDE DEF c
  <2>1. Applied(r, c) => Wrote(c) /\ Journal' = Journal \o c.entries /\ Matches(session, c)
    BY <1>4, <1>6 DEF Applied, Wrote, Journal
  <2>2. c.id \cap DOMAIN session.ids # {} => turn[t].run \in DOMAIN session.ids
    BY <1>3
  <2> QED
    BY <1>1, <1>2, <1>3, <1>5, <1>6, <1>8, <2>1, <2>2, ReplyCases
<1>10. faults' \in faults..MaxFaults
  <2> HIDE DEF c
  <2>1. \/ r.fault = 0
        \/ r.fault = 1 /\ faults # MaxFaults
    BY <1>1, <1>2, <1>3, ReplyCases
  <2> QED
    BY <1>1, <1>6, <2>1
<1>11. r.how = "committed" => r.end \in Nat
  <2>1. Wrote(c) => Len(Journal') \in Nat
    BY <1>4, <1>5 DEF Wrote, Journal
  <2>2. turn[t].run \in DOMAIN session.ids => session.ids[turn[t].run] \in Nat
    BY <1>1 DEF SessionT, Ids
  <2> QED
    BY <1>9, <2>1, <2>2
<1>12. CASE r.how = "committed" /\ r.end > turn[t].end
  <2> DEFINE e == r.end
             none == << >>
             me == [turn[t] EXCEPT !.pc = "preparing", !.end = e, !.closing = none]
  <2>1. turn' = [turn EXCEPT ![t] = me] /\ running' = running
    BY <1>1, <1>2, <1>12, <1>11 DEF Go
  <2>2. e \in Nat /\ none \in Seq(EntryT) /\ "preparing" \in PCs
    BY <1>12, <1>11 DEF PCs
  <2> HIDE DEF e, none
  <2>3. /\ me \in TurnT /\ me.pc = "preparing" /\ me.snap = turn[t].snap /\ me.kept = turn[t].kept
        /\ me.end = e /\ me.run = turn[t].run /\ me.inst = turn[t].inst
        /\ me.calls = turn[t].calls /\ me.outcome = "none"
    BY <1>1, <2>2 DEF TurnT
  <2> HIDE DEF me
  <2>4. TurnOK(me)
    BY <1>1, <2>3 DEF TurnOK
  <2>5. OpensRun(t, me) \/ Joins(t, me)
    BY <1>1, <1>9, <1>12, <2>1, <2>3 DEF OpensRun, Joins, Keeps, Same, e
  <2> QED
    BY <1>7, <1>10, <2>1, <2>3, <2>4, <2>5 DEF Steps
<1>13. CASE r.how = "committed" /\ r.end <= turn[t].end /\ End(t, "duplicate")
  <2>1. "duplicate" \in NotStarted
    BY DEF NotStarted
  <2>2. PICK me \in TurnT :
          /\ TurnOK(me) /\ turn' = [turn EXCEPT ![t] = me] /\ Frees(t)
          /\ me.pc = "over" /\ me.outcome = "duplicate" /\ Same(t, me) /\ me.end = 0
    BY <1>13, <2>1, EndIs
  <2>3. session' = session
    BY <1>1, <1>9, <1>13, <1>11
  <2> QED
    BY <1>1, <1>7, <1>10, <2>1, <2>2, <2>3 DEF Steps, Leaves
<1>14. CASE r.how = "stale" /\ End(t, "busy")
  <2>1. "busy" \in NotStarted
    BY DEF NotStarted
  <2>2. PICK me \in TurnT :
          /\ TurnOK(me) /\ turn' = [turn EXCEPT ![t] = me] /\ Frees(t)
          /\ me.pc = "over" /\ me.outcome = "busy" /\ Same(t, me) /\ me.end = 0
    BY <1>14, <2>1, EndIs
  <2> QED
    BY <1>1, <1>7, <1>9, <1>10, <1>14, <2>1, <2>2 DEF Steps, Leaves
<1>15. CASE r.how = "error" /\ End(t, "unavailable")
  <2>1. "unavailable" \in NotStarted
    BY DEF NotStarted
  <2>2. PICK me \in TurnT :
          /\ TurnOK(me) /\ turn' = [turn EXCEPT ![t] = me] /\ Frees(t)
          /\ me.pc = "over" /\ me.outcome = "unavailable" /\ Same(t, me) /\ me.end = 0
    BY <1>15, <2>1, EndIs
  <2>3. Leaves(t, me) \/ OpensRun(t, me)
    BY <1>1, <1>9, <1>15, <2>1, <2>2 DEF Leaves, OpensRun
  <2> QED
    BY <1>7, <1>10, <2>2, <2>3 DEF Steps
<1> QED
  BY <1>2, <1>12, <1>13, <1>14, <1>15

(* A step of a turn that writes nothing and goes on working. *)
LEMMA MoveStep ==
  ASSUME TypeInv, NEW t \in Turns, NEW me, TurnOK(me), Moves(t, me), Go(t, me),
         faults' = faults, crashes' = crashes
  PROVE  \E m \in TurnT : Steps(t, m)
<1>1. me \in TurnT /\ turn' = [turn EXCEPT ![t] = me]
  BY DEF TurnOK, Go
<1>2. faults' \in faults..MaxFaults /\ crashes' \in 0..MaxCrashes
  BY NAssumption DEF TypeInv
<1> QED
  BY <1>1, <1>2 DEF Steps

LEMMA GoesEnding ==
  ASSUME TypeInv, NEW t \in Turns, Working(turn[t]), NEW how \in Verdicts
  PROVE  GoesTo(t, Ending(turn[t], how))
<1>1. turn[t] \in TurnT /\ turn[t].outcome = "none"
  BY DEF TypeInv, TurnOK, Working
<1> QED
  BY <1>1, EndingIs DEF GoesTo, Working, InCall, Keeps, Same

LEMMA GoesPc ==
  ASSUME TypeInv, NEW t \in Turns, Working(turn[t]), NEW p \in {"unlisted", "loop", "tools"},
         p = "tools" => turn[t].calls > 0
  PROVE  GoesTo(t, [turn[t] EXCEPT !.pc = p])
<1>1. TurnOK(turn[t]) /\ turn[t] \in TurnT /\ turn[t].outcome = "none"
  BY DEF TypeInv, TurnOK, Working
<1> DEFINE me == [turn[t] EXCEPT !.pc = p]
<1>2. p \in PCs
  BY DEF PCs
<1>3. /\ me \in TurnT /\ me.pc = p /\ me.run = turn[t].run /\ me.inst = turn[t].inst
      /\ me.snap = turn[t].snap /\ me.kept = turn[t].kept /\ me.end = turn[t].end
      /\ me.stale = turn[t].stale /\ me.ops = turn[t].ops /\ me.calls = turn[t].calls
      /\ me.outcome = "none"
  BY <1>1, <1>2 DEF TurnT
<1> HIDE DEF me
<1>4. TurnOK(me)
  BY <1>1, <1>3 DEF TurnOK
<1>5. Working(me) /\ ~InCall(me)
  BY <1>3 DEF Working, InCall
<1> QED
  BY <1>3, <1>4, <1>5 DEF GoesTo, Keeps, Same, me

LEMMA GoesOneDone ==
  ASSUME TypeInv, NEW t \in Turns, Working(turn[t]), turn[t].calls > 0
  PROVE  GoesTo(t, OneDone(t))
<1>1. /\ TurnOK(turn[t]) /\ turn[t] \in TurnT /\ turn[t].outcome = "none" /\ turn[t].calls \in Nat
      /\ turn[t].calls <= MaxCalls /\ MaxCalls \in Nat
  BY NAssumption DEF TypeInv, TurnOK, Working, TurnT
<1> DEFINE n == turn[t].calls - 1
           p == IF turn[t].calls = 1 THEN "loop" ELSE "tools"
           none == ""
           me == [turn[t] EXCEPT !.calls = n, !.answer = none, !.pc = p]
<1>2. n \in Nat /\ p \in PCs /\ none \in AnswerT /\ n <= MaxCalls
  BY <1>1 DEF PCs, AnswerT
<1>3. p \in {"loop", "tools"} /\ (p = "tools" => n > 0)
  BY <1>1
<1>4. OneDone(t) = me
  BY DEF OneDone
<1> HIDE DEF n, p, none
<1>5. /\ me \in TurnT /\ me.pc = p /\ me.run = turn[t].run /\ me.inst = turn[t].inst
      /\ me.snap = turn[t].snap /\ me.kept = turn[t].kept /\ me.end = turn[t].end
      /\ me.stale = turn[t].stale /\ me.ops = turn[t].ops /\ me.calls = n
      /\ me.outcome = "none"
  BY <1>1, <1>2 DEF TurnT
<1> HIDE DEF me
<1>6. TurnOK(me) /\ Working(me) /\ ~InCall(me)
  BY <1>2, <1>3, <1>5 DEF TurnOK, Working, InCall
<1> QED
  BY <1>4, <1>5, <1>6 DEF GoesTo, Keeps, Same

LEMMA GoesAfterReply ==
  ASSUME TypeInv, NEW t \in Turns, At(t, "answered"), NEW next \in AfterReply(t)
  PROVE  GoesTo(t, next)
<1>1. /\ TurnOK(turn[t]) /\ turn[t] \in TurnT /\ turn[t].outcome = "none"
      /\ Working(turn[t]) /\ turn[t].answer \in Answers
  BY DEF TypeInv, TurnOK, Working, At
<1> DEFINE h == Halve(turn[t].kept)
           none == ""
           again == [turn[t] EXCEPT !.pc = "loop", !.shortened = TRUE, !.kept = h, !.answer = none]
           ask == [turn[t] EXCEPT !.pc = "asking", !.answer = none]
           c == Ending(turn[t], "cancelled")
           f == Ending(turn[t], "failed")
           p == Ending(turn[t], "reply")
<1>2. next \in {c, f, p, again, ask}
  <2>1. CASE turn[t].answer = "gone"
    BY <2>1 DEF AfterReply
  <2>2. CASE turn[t].answer = "failed"
    BY <2>2 DEF AfterReply
  <2>3. CASE turn[t].answer = "too long" /\ (turn[t].shortened \/ turn[t].kept = << >>)
    BY <2>3 DEF AfterReply
  <2>4. CASE turn[t].answer = "too long" /\ ~(turn[t].shortened \/ turn[t].kept = << >>)
    BY <2>4 DEF AfterReply
  <2>5. CASE turn[t].answer = "final"
    BY <2>5 DEF AfterReply, OrCancelled
  <2>6. CASE turn[t].answer = "more" /\ AtLimit(t)
    BY <2>6 DEF AfterReply, OrCancelled
  <2>7. CASE turn[t].answer = "more" /\ ~AtLimit(t)
    BY <2>7 DEF AfterReply, OrCancelled
  <2> HIDE DEF c, f, p, again, ask
  <2> QED
    BY <1>1, <2>1, <2>2, <2>3, <2>4, <2>5, <2>6, <2>7 DEF Answers
<1>3. GoesTo(t, c) /\ GoesTo(t, f) /\ GoesTo(t, p)
  <2>1. "cancelled" \in Verdicts /\ "failed" \in Verdicts /\ "reply" \in Verdicts
    BY DEF Verdicts
  <2> QED
    BY <1>1, <2>1, GoesEnding
<1>4. GoesTo(t, again) /\ GoesTo(t, ask)
  <2>1. h \in Seq(Turns) /\ none \in AnswerT /\ "loop" \in PCs /\ "asking" \in PCs
    <3>1. turn[t].kept \in Seq(Turns)
      BY <1>1 DEF TurnT
    <3>2. h \in Seq(Turns)
      BY <3>1, NewestType
    <3> QED
      BY <3>2 DEF AnswerT, PCs
  <2> HIDE DEF h, none
  <2>2. /\ again \in TurnT /\ again.pc = "loop" /\ again.run = turn[t].run
        /\ again.inst = turn[t].inst /\ again.snap = turn[t].snap /\ again.kept = h
        /\ again.end = turn[t].end /\ again.stale = turn[t].stale /\ again.ops = turn[t].ops
        /\ again.calls = turn[t].calls /\ again.outcome = "none"
    BY <1>1, <2>1 DEF TurnT
  <2>3. /\ ask \in TurnT /\ ask.pc = "asking" /\ ask.run = turn[t].run
        /\ ask.inst = turn[t].inst /\ ask.snap = turn[t].snap /\ ask.kept = turn[t].kept
        /\ ask.end = turn[t].end /\ ask.stale = turn[t].stale /\ ask.ops = turn[t].ops
        /\ ask.calls = turn[t].calls /\ ask.outcome = "none"
    BY <1>1, <2>1 DEF TurnT
  <2> HIDE DEF again, ask
  <2>4. TurnOK(again) /\ Working(again) /\ ~InCall(again)
    BY <1>1, <2>2 DEF TurnOK, Working, InCall
  <2>5. TurnOK(ask) /\ Working(ask) /\ ~InCall(ask)
    BY <1>1, <2>3 DEF TurnOK, Working, InCall
  <2> QED
    BY <2>2, <2>3, <2>4, <2>5 DEF GoesTo, Keeps, Same, h
<1> HIDE DEF c, f, p, again, ask
<1> QED
  BY <1>2, <1>3, <1>4

(* What a turn records. *)
CallNotes(t, says) ==
  {<<OpResult(t, ThisOp(t), says)>>, <<OpResult(t, ThisOp(t), says), Step(t)>>}

LEMMA RecordedStep ==
  ASSUME NEW t \in Turns
  PROVE  /\ <<Step(t)>> \in Seq(EntryT)
         /\ \A k \in DOMAIN <<Step(t)>> :
              <<Step(t)>>[k].by = t /\ <<Step(t)>>[k].kind \in {"result", "step"}
<1> DEFINE s == Step(t)
<1>1. s \in EntryT /\ s.by = t /\ s.kind = "step"
  BY EntriesOf
<1> HIDE DEF s
<1>2. /\ <<s>> \in Seq(EntryT)
      /\ \A k \in DOMAIN <<s>> : <<s>>[k].by = t /\ <<s>>[k].kind \in {"result", "step"}
  BY <1>1
<1> QED
  BY <1>2 DEF s

LEMMA RecordedCall ==
  ASSUME TypeInv, NEW t \in Turns, NEW says \in Outcomes, NEW es \in CallNotes(t, says)
  PROVE  /\ es \in Seq(EntryT)
         /\ \A k \in DOMAIN es : es[k].by = t /\ es[k].kind \in {"result", "step"}
         /\ \E k \in DOMAIN es : es[k].kind = "result" /\ es[k].op = ThisOp(t)
<1> DEFINE a == OpResult(t, ThisOp(t), says)
           s == Step(t)
<1>1. /\ a \in EntryT /\ a.by = t /\ a.kind = "result" /\ a.op = ThisOp(t)
      /\ s \in EntryT /\ s.by = t /\ s.kind = "step"
  BY ThisOpType, EntriesOf
<1>2. es = <<a>> \/ es = <<a, s>>
  BY DEF CallNotes
<1> HIDE DEF a, s
<1>3. CASE es = <<a>>
  <2>1. es \in Seq(EntryT) /\ DOMAIN es = {1} /\ es[1] = a
    BY <1>1, <1>3
  <2> QED
    BY <1>1, <2>1
<1>4. CASE es = <<a, s>>
  <2>1. es \in Seq(EntryT) /\ DOMAIN es = {1, 2} /\ es[1] = a /\ es[2] = s
    BY <1>1, <1>4
  <2> QED
    BY <1>1, <2>1
<1> QED
  BY <1>2, <1>3, <1>4

LEMMA WorkSteps ==
  ASSUME TypeInv, NEW t \in Turns, Work(t) \/ TimePasses(t)
  PROVE  \E me \in TurnT : Steps(t, me)
<1>1. /\ TurnOK(turn[t]) /\ turn[t] \in TurnT
  BY DEF TypeInv
<1>2. /\ Working(turn[t]) /\ ~At(t, "ending") /\ turn[t].outcome = "none"
  BY <1>1 DEF Work, TimePasses, Prepare, ListFailed, OutOfTime, CallModel, ModelReplies,
       RecordReply, RecordAsk, SkipTool, CallTool, ToolReturns, RecordTool, At, Working, TurnOK
<1>3. "cancelled" \in Verdicts /\ "failed" \in Verdicts /\ "reply" \in Verdicts
      /\ "succeeded" \in Outcomes /\ "failed" \in Outcomes /\ "cancelled" \in Outcomes
  BY DEF Verdicts, Outcomes
<1>4. \A how \in Verdicts : GoesTo(t, Ending(turn[t], how))
  BY <1>2, GoesEnding
<1>5. ASSUME NEW me, GoesTo(t, me), Go(t, me), ~InCall(turn[t]),
             UNCHANGED <<session, running, faults, crashes>>
      PROVE  \E m \in TurnT : Steps(t, m)
  <2>1. Moves(t, me) /\ TurnOK(me)
    BY <1>2, <1>5 DEF Moves, GoesTo
  <2> QED
    BY <1>5, <2>1, MoveStep
<1>6. ASSUME NEW next, GoesTo(t, next), Record(t, <<Step(t)>>, next), ~InCall(turn[t]),
             UNCHANGED <<running, crashes>>
      PROVE  \E m \in TurnT : Steps(t, m)
  <2> DEFINE es == <<Step(t)>>
  <2>1. es \in Seq(EntryT) /\ \A k \in DOMAIN es : es[k].by = t /\ es[k].kind \in {"result", "step"}
    BY RecordedStep
  <2> HIDE DEF es
  <2>2. Record(t, es, next)
    BY <1>6 DEF es
  <2> QED
    BY <1>2, <1>6, <2>1, <2>2, RecordStep
<1>7. ASSUME NEW says \in Outcomes,
             NEW es \in CallNotes(t, says),
             NEW next, GoesTo(t, next), Record(t, es, next), UNCHANGED <<running, crashes>>
      PROVE  \E m \in TurnT : Steps(t, m)
  <2>1. /\ es \in Seq(EntryT)
        /\ \A k \in DOMAIN es : es[k].by = t /\ es[k].kind \in {"result", "step"}
        /\ \E k \in DOMAIN es : es[k].kind = "result" /\ es[k].op = ThisOp(t)
    BY <1>7, RecordedCall
  <2> QED
    BY <1>2, <1>7, <2>1, RecordStep
<1>8. CASE Prepare(t)
  <2>1. ~InCall(turn[t]) /\ UNCHANGED <<session, running, faults, crashes>>
    BY <1>8 DEF Prepare, At, InCall
  <2>2. \E next \in {Ending(turn[t], "failed"), [turn[t] EXCEPT !.pc = "unlisted"],
                     [turn[t] EXCEPT !.pc = "loop"]} : Go(t, next) /\ GoesTo(t, next)
    BY <1>2, <1>3, <1>4, <1>8, GoesPc DEF Prepare
  <2> QED
    BY <1>5, <2>1, <2>2
<1>9. CASE ListFailed(t)
  <2>1. ~InCall(turn[t]) /\ UNCHANGED <<running, crashes>>
    BY <1>9 DEF ListFailed, At, InCall
  <2>2. \E next \in OrCancelled(t, [turn[t] EXCEPT !.pc = "loop"]) :
          Record(t, <<Step(t)>>, next) /\ GoesTo(t, next)
    BY <1>2, <1>3, <1>4, <1>9, GoesPc DEF ListFailed, OrCancelled
  <2> QED
    BY <1>6, <2>1, <2>2
<1>10. CASE OutOfTime(t)
  <2>1. ~InCall(turn[t]) /\ UNCHANGED <<session, running, faults, crashes>>
    BY <1>10 DEF OutOfTime, At, InCall
  <2> QED
    BY <1>3, <1>4, <1>5, <1>10, <2>1 DEF OutOfTime
<1>11. CASE CallModel(t)
  <2> DEFINE n == turn[t].steps + 1
             next == [turn[t] EXCEPT !.steps = n]
  <2>1. Dispatch(t, "model", next) /\ UNCHANGED <<running, crashes>> /\ ~InCall(turn[t])
    BY <1>11 DEF CallModel, At, InCall
  <2>2. n \in Nat
    BY <1>1 DEF TurnT
  <2> HIDE DEF n
  <2>3. /\ next \in TurnT /\ next.pc = turn[t].pc /\ next.outcome = "none"
        /\ next.run = turn[t].run /\ next.inst = turn[t].inst /\ next.snap = turn[t].snap
        /\ next.kept = turn[t].kept /\ next.end = turn[t].end /\ next.stale = turn[t].stale
        /\ next.ops = turn[t].ops /\ next.calls = turn[t].calls /\ next.answer = turn[t].answer
    BY <1>1, <1>2, <2>2 DEF TurnT
  <2> HIDE DEF next
  <2>4. TurnOK(next) /\ Keeps(t, next)
    BY <1>1, <1>2, <2>3 DEF TurnOK, Keeps, Same
  <2>5. "model" \in Targets /\ "model" # "tool"
    BY DEF Targets
  <2> QED
    BY <1>2, <2>1, <2>3, <2>4, <2>5, DispatchStep
<1>12. CASE ModelReplies(t)
  <2>1. PICK a \in Answers, n \in 0..MaxCalls :
          Go(t, [turn[t] EXCEPT !.pc = "answered", !.answer = a, !.calls = n])
    BY <1>12 DEF ModelReplies
  <2> DEFINE me == [turn[t] EXCEPT !.pc = "answered", !.answer = a, !.calls = n]
  <2>2. n \in Nat /\ n <= MaxCalls /\ a \in AnswerT /\ "answered" \in PCs
    <3>1. MaxCalls \in Nat
      BY NAssumption
    <3>2. n \in Nat /\ n <= MaxCalls
      BY <2>1, <3>1
    <3> QED
      BY <2>1, <3>2 DEF AnswerT, PCs
  <2>3. /\ me \in TurnT /\ me.pc = "answered" /\ me.outcome = "none" /\ me.answer = a
        /\ me.run = turn[t].run /\ me.inst = turn[t].inst /\ me.snap = turn[t].snap
        /\ me.kept = turn[t].kept /\ me.end = turn[t].end /\ me.stale = turn[t].stale
        /\ me.ops = turn[t].ops /\ me.calls = n
    BY <1>1, <1>2, <2>2 DEF TurnT
  <2>4. Go(t, me) /\ InCall(turn[t]) /\ UNCHANGED <<session, running, faults, crashes>>
    BY <1>12, <2>1 DEF ModelReplies, At, InCall
  <2> HIDE DEF me
  <2>5. TurnOK(me) /\ Keeps(t, me) /\ Working(me) /\ InCall(me)
    BY <2>2, <2>3 DEF TurnOK, Keeps, Same, Working, InCall
  <2>6. Moves(t, me)
    BY <1>2, <2>3, <2>4, <2>5 DEF Moves
  <2> QED
    BY <2>4, <2>5, <2>6, MoveStep
<1>13. CASE RecordReply(t)
  <2> DEFINE says == CASE turn[t].answer \in {"final", "more"} -> "succeeded"
                       [] turn[t].answer \in {"too long", "failed"} -> "failed"
                       [] turn[t].answer = "gone" -> "cancelled"
  <2>1. says \in Outcomes
    <3>1. turn[t].answer \in Answers
      BY <1>1, <1>13 DEF RecordReply, TurnOK, At
    <3> QED
      BY <3>1 DEF Answers, Outcomes
  <2>2. PICK next \in AfterReply(t) : Record(t, <<OpResult(t, ThisOp(t), says)>>, next)
    BY <1>13 DEF RecordReply
  <2>3. UNCHANGED <<running, crashes>> /\ GoesTo(t, next)
    BY <1>13, GoesAfterReply DEF RecordReply
  <2>4. <<OpResult(t, ThisOp(t), says)>> \in CallNotes(t, says)
    BY DEF CallNotes
  <2> HIDE DEF says
  <2> QED
    BY <1>7, <2>1, <2>2, <2>3, <2>4
<1>14. CASE RecordAsk(t)
  <2> DEFINE p == IF turn[t].calls = 0 THEN "loop" ELSE "tools"
  <2>1. ~InCall(turn[t]) /\ UNCHANGED <<running, crashes>>
    BY <1>14 DEF RecordAsk, At, InCall
  <2>2. \E next \in OrCancelled(t, [turn[t] EXCEPT !.pc = p]) : Record(t, <<Step(t)>>, next)
    BY <1>14 DEF RecordAsk
  <2>3. p \in {"unlisted", "loop", "tools"} /\ (p = "tools" => turn[t].calls > 0)
    <3>1. turn[t].calls \in Nat
      BY <1>1 DEF TurnT
    <3> QED
      BY <3>1
  <2> HIDE DEF p
  <2>4. GoesTo(t, [turn[t] EXCEPT !.pc = p])
    BY <1>2, <2>3, GoesPc
  <2> QED
    BY <1>3, <1>4, <1>6, <2>1, <2>2, <2>4 DEF OrCancelled
<1>15. CASE SkipTool(t)
  <2>1. ~InCall(turn[t]) /\ UNCHANGED <<running, crashes>> /\ turn[t].calls > 0
    BY <1>1, <1>15 DEF SkipTool, At, InCall, TurnOK
  <2>2. GoesTo(t, OneDone(t))
    BY <1>2, <2>1, GoesOneDone
  <2> QED
    BY <1>3, <1>4, <1>6, <1>15, <2>1, <2>2 DEF SkipTool, OrCancelled
<1>16. CASE CallTool(t)
  <2>1. /\ Dispatch(t, "tool", turn[t]) /\ UNCHANGED <<running, crashes>> /\ ~InCall(turn[t])
        /\ turn[t].calls > 0
    BY <1>1, <1>16 DEF CallTool, At, InCall, TurnOK
  <2>2. "tool" \in Targets /\ Keeps(t, turn[t])
    BY DEF Targets, Keeps, Same
  <2> QED
    BY <1>1, <1>2, <2>1, <2>2, DispatchStep
<1>17. CASE ToolReturns(t)
  <2>1. PICK o \in {"succeeded", "failed", "unresolved"} :
          Go(t, [turn[t] EXCEPT !.pc = "returned", !.answer = o])
    BY <1>17 DEF ToolReturns
  <2> DEFINE me == [turn[t] EXCEPT !.pc = "returned", !.answer = o]
  <2>2. o \in Outcomes /\ o \in AnswerT /\ "returned" \in PCs
    BY <2>1 DEF AnswerT, PCs, Outcomes, Verdicts
  <2>3. /\ me \in TurnT /\ me.pc = "returned" /\ me.outcome = "none" /\ me.answer = o
        /\ me.run = turn[t].run /\ me.inst = turn[t].inst /\ me.snap = turn[t].snap
        /\ me.kept = turn[t].kept /\ me.end = turn[t].end /\ me.stale = turn[t].stale
        /\ me.ops = turn[t].ops /\ me.calls = turn[t].calls
    BY <1>1, <1>2, <2>2 DEF TurnT
  <2>4. /\ Go(t, me) /\ InCall(turn[t]) /\ UNCHANGED <<session, running, faults, crashes>>
        /\ turn[t].calls > 0
    BY <1>1, <1>17, <2>1 DEF ToolReturns, At, InCall, TurnOK
  <2> HIDE DEF me
  <2>5. TurnOK(me) /\ Keeps(t, me) /\ Working(me) /\ InCall(me)
    BY <1>1, <2>2, <2>3, <2>4 DEF TurnOK, Keeps, Same, Working, InCall
  <2>6. Moves(t, me)
    BY <1>2, <2>3, <2>4, <2>5 DEF Moves
  <2> QED
    BY <2>4, <2>5, <2>6, MoveStep
<1>18. CASE RecordTool(t)
  <2> DEFINE says == turn[t].answer
  <2>1. /\ UNCHANGED <<running, crashes>> /\ turn[t].calls > 0 /\ says \in Outcomes
    BY <1>1, <1>18 DEF RecordTool, At, TurnOK
  <2>2. GoesTo(t, OneDone(t))
    BY <1>2, <2>1, GoesOneDone
  <2>3. PICK next \in OrCancelled(t, OneDone(t)) :
          Record(t, <<OpResult(t, ThisOp(t), says), Step(t)>>, next)
    BY <1>18 DEF RecordTool
  <2>4. GoesTo(t, next)
    BY <1>3, <1>4, <2>2 DEF OrCancelled
  <2>5. <<OpResult(t, ThisOp(t), says), Step(t)>> \in CallNotes(t, says)
    BY DEF CallNotes
  <2> HIDE DEF says
  <2> QED
    BY <1>7, <2>1, <2>3, <2>4, <2>5
<1>19. CASE TimePasses(t)
  <2> DEFINE me == [turn[t] EXCEPT !.late = TRUE]
  <2>1. /\ me \in TurnT /\ me.pc = turn[t].pc /\ me.outcome = "none" /\ me.answer = turn[t].answer
        /\ me.run = turn[t].run /\ me.inst = turn[t].inst /\ me.snap = turn[t].snap
        /\ me.kept = turn[t].kept /\ me.end = turn[t].end /\ me.stale = turn[t].stale
        /\ me.ops = turn[t].ops /\ me.calls = turn[t].calls
    BY <1>1, <1>2 DEF TurnT
  <2>2. Go(t, me) /\ ~InCall(turn[t]) /\ UNCHANGED <<session, running, faults, crashes>>
    BY <1>19 DEF TimePasses, At, InCall
  <2> HIDE DEF me
  <2>3. GoesTo(t, me)
    BY <1>1, <1>2, <2>1, <2>2 DEF GoesTo, TurnOK, Keeps, Same, Working, InCall
  <2> QED
    BY <1>5, <2>2, <2>3
<1> QED
  BY <1>8, <1>9, <1>10, <1>11, <1>12, <1>13, <1>14, <1>15, <1>16, <1>17, <1>18, <1>19 DEF Work

LEMMA UnsavedIs ==
  ASSUME TypeInv, NEW t \in Turns, At(t, "ending"), turn[t].answer = "reply",
         NEW how \in {"superseded", "not-recorded"}, Unsaved(t, how)
  PROVE  \E me \in TurnT :
           /\ TurnOK(me) /\ turn' = [turn EXCEPT ![t] = me] /\ running' = running
           /\ me.pc = "ending" /\ me.answer = how /\ Keeps(t, me) /\ me.kept = turn[t].kept
           /\ me.end = turn[t].end /\ me.ops = turn[t].ops /\ (turn[t].stale => me.stale)
<1>1. turn[t] \in TurnT /\ turn[t].outcome = "none" /\ how \in Verdicts
  BY DEF TypeInv, TurnOK, At, Verdicts
<1> DEFINE z == turn[t].stale \/ how = "superseded"
           s == [turn[t] EXCEPT !.stale = z]
           me == Ending(s, how)
<1>2. turn' = [turn EXCEPT ![t] = me] /\ running' = running
  BY DEF Unsaved, Go
<1>3. z \in BOOLEAN /\ (turn[t].stale => z)
  BY <1>1 DEF TurnT
<1> HIDE DEF z
<1>4. /\ s \in TurnT /\ s.outcome = "none" /\ s.run = turn[t].run /\ s.inst = turn[t].inst
      /\ s.snap = turn[t].snap /\ s.kept = turn[t].kept /\ s.end = turn[t].end
      /\ s.ops = turn[t].ops /\ s.stale = z
  BY <1>1, <1>3 DEF TurnT
<1> HIDE DEF s
<1>5. /\ TurnOK(me) /\ me \in TurnT /\ me.pc = "ending" /\ me.answer = how /\ me.run = s.run
      /\ me.inst = s.inst /\ me.snap = s.snap /\ me.kept = s.kept /\ me.end = s.end
      /\ me.ops = s.ops /\ me.stale = s.stale
  BY <1>1, <1>4, EndingIs
<1> HIDE DEF me
<1> QED
  BY <1>2, <1>3, <1>4, <1>5 DEF Keeps, Same

(* What came of a commit that has no id and sets its conditions. *)
LEMMA PlainReply ==
  ASSUME TypeInv, NEW c \in CommitT, c.id = {}, NEW r \in Replies(c), Apply(r),
         c.state = {} \/ (c.requireState # {} /\ c.requireEnd # {})
  PROVE  /\ faults' \in faults..MaxFaults
         /\ \/ r.how = "committed" /\ Wrote(c) /\ faults' = faults
            \/ r.how = "stale" /\ session' = session /\ faults' = faults
            \/ /\ r.how = "error" /\ faults' > 0
               /\ session' = session \/ Wrote(c)
<1>1. session \in SessionT /\ faults \in 0..MaxFaults /\ MaxFaults \in Nat
  BY NAssumption DEF TypeInv
<1>2. \/ r.how = "committed" /\ r.fault = 0 /\ Applied(r, c)
      \/ r.how = "stale" /\ r.fault = 0 /\ r.session = session
      \/ /\ r.how = "error" /\ r.fault = 1 /\ faults # MaxFaults
         /\ r.session = session \/ Applied(r, c)
  BY <1>1, ReplyCases
<1>3. session' = r.session /\ faults' = faults + r.fault
  BY DEF Apply
<1>4. Applied(r, c) => Wrote(c)
  BY <1>3 DEF Applied, Wrote
<1> QED
  BY <1>1, <1>2, <1>3, <1>4

LEMMA SaveSteps ==
  ASSUME TypeInv, NEW t \in Turns, Unanswered(t) \/ Save(t)
  PROVE  \E me \in TurnT : Steps(t, me)
<1>1. /\ TurnOK(turn[t]) /\ turn[t] \in TurnT /\ At(t, "ending") /\ turn[t].answer = "reply"
      /\ Working(turn[t]) /\ ~InCall(turn[t]) /\ crashes' \in 0..MaxCrashes
      /\ faults \in faults..MaxFaults
  BY NAssumption DEF TypeInv, Unanswered, Save, At, Working, InCall
<1>2. ASSUME NEW me, TurnOK(me), turn' = [turn EXCEPT ![t] = me], running' = running,
             me.pc = "ending", Keeps(t, me), me.kept = turn[t].kept, me.end = turn[t].end,
             me.ops = turn[t].ops, turn[t].stale => me.stale, session' = session,
             faults' \in faults..MaxFaults
      PROVE  \E m \in TurnT : Steps(t, m)
  <2>1. Moves(t, me) /\ me \in TurnT
    BY <1>1, <1>2 DEF Moves, Working, InCall, TurnOK
  <2> QED
    BY <1>1, <1>2, <2>1 DEF Steps
<1>3. CASE Unanswered(t)
  <2>1. PICK how \in {"failed", "cancelled"} : Go(t, Ending(turn[t], how))
    BY <1>3 DEF Unanswered
  <2>2. how \in Verdicts /\ turn[t].outcome = "none"
    BY <1>1, <2>1 DEF Verdicts, TurnOK, At
  <2> DEFINE me == Ending(turn[t], how)
  <2>3. /\ TurnOK(me) /\ me.pc = "ending" /\ Keeps(t, me) /\ me.kept = turn[t].kept
        /\ me.end = turn[t].end /\ me.ops = turn[t].ops /\ me.stale = turn[t].stale
    BY <1>1, <2>2, EndingIs DEF Keeps, Same
  <2>4. /\ turn' = [turn EXCEPT ![t] = me] /\ UNCHANGED <<session, running, faults>>
    BY <1>3, <2>1 DEF Unanswered, Go
  <2> HIDE DEF me
  <2> QED
    BY <1>1, <1>2, <2>3, <2>4
<1>4. ASSUME NEW how \in {"superseded", "not-recorded"}, Unsaved(t, how), session' = session,
             faults' \in faults..MaxFaults
      PROVE  \E m \in TurnT : Steps(t, m)
  <2>1. PICK me \in TurnT :
           /\ TurnOK(me) /\ turn' = [turn EXCEPT ![t] = me] /\ running' = running
           /\ me.pc = "ending" /\ me.answer = how /\ Keeps(t, me) /\ me.kept = turn[t].kept
           /\ me.end = turn[t].end /\ me.ops = turn[t].ops /\ (turn[t].stale => me.stale)
    BY <1>1, <1>4, UnsavedIs
  <2> QED
    BY <1>2, <1>4, <2>1
<1>5. CASE Save(t) /\ turn[t].stale
  <2>1. Unsaved(t, "superseded") /\ session' = session /\ faults' = faults
    BY <1>5 DEF Save
  <2> QED
    BY <1>1, <1>4, <2>1
<1>6. CASE Save(t) /\ ~turn[t].stale
  <2>1. PICK c \in Trimmed(Append(turn[t].kept, t)) : \E r \in Replies(SaveRequest(t, c)) :
          /\ Apply(r)
          /\ \/ r.how = "committed" /\ End(t, "done")
             \/ r.how = "stale" /\ Unsaved(t, "superseded")
             \/ r.how = "error" /\ Unsaved(t, "not-recorded")
    BY <1>6 DEF Save
  <2> DEFINE q == SaveRequest(t, c)
  <2>2. PICK r \in Replies(q) :
          /\ Apply(r)
          /\ \/ r.how = "committed" /\ End(t, "done")
             \/ r.how = "stale" /\ Unsaved(t, "superseded")
             \/ r.how = "error" /\ Unsaved(t, "not-recorded")
    BY <2>1
  <2>3. c \in Seq(Turns)
    <3>1. Append(turn[t].kept, t) \in Seq(Turns) /\ KEEP \in Nat /\ << >> \in Seq(Turns)
      BY <1>1, NAssumption DEF TurnT
    <3> QED
      BY <2>1, <3>1, NewestType DEF Trimmed
  <2>4. q \in CommitT /\ q.id = {} /\ q.requireState # {} /\ q.requireEnd # {}
    <3>1. q \in CommitT
      BY <2>3, CommitTypes
    <3> QED
      BY <3>1 DEF SaveRequest
  <2> HIDE DEF q
  <2>5. /\ faults' \in faults..MaxFaults
        /\ \/ r.how = "committed" /\ Wrote(q) /\ faults' = faults
           \/ r.how = "stale" /\ session' = session /\ faults' = faults
           \/ /\ r.how = "error" /\ faults' > 0
              /\ session' = session \/ Wrote(q)
    BY <2>2, <2>4, PlainReply
  <2>6. Wrote(q) => \E x \in Trimmed(Append(turn[t].kept, t)) : Wrote(SaveRequest(t, x))
    BY <2>1 DEF q
  <2>7. CASE r.how = "committed"
    <3>1. "done" \in Endings
      BY DEF Endings
    <3>2. PICK me \in TurnT :
           /\ TurnOK(me) /\ turn' = [turn EXCEPT ![t] = me] /\ Frees(t)
           /\ me.pc = "over" /\ me.outcome = "done" /\ Same(t, me) /\ me.end = 0
      BY <2>2, <2>7, <3>1, EndIs
    <3>3. Saves(t, me)
      BY <1>1, <1>6, <2>5, <2>6, <2>7, <3>2 DEF Saves
    <3> QED
      BY <1>1, <2>5, <3>2, <3>3 DEF Steps
  <2>8. CASE r.how = "stale"
    BY <1>4, <2>2, <2>5, <2>8
  <2>9. CASE r.how = "error"
    <3>1. Unsaved(t, "not-recorded")
      BY <2>2, <2>9
    <3>2. CASE session' = session
      BY <1>4, <2>5, <3>1, <3>2
    <3>3. CASE Wrote(q) /\ faults' > 0
      <4>1. PICK me \in TurnT :
               /\ TurnOK(me) /\ turn' = [turn EXCEPT ![t] = me] /\ running' = running
               /\ me.pc = "ending" /\ me.answer = "not-recorded" /\ Keeps(t, me)
               /\ me.kept = turn[t].kept /\ me.end = turn[t].end /\ me.ops = turn[t].ops
        BY <1>1, <3>1, UnsavedIs
      <4>2. Saves(t, me)
        BY <1>1, <1>6, <2>6, <3>3, <4>1 DEF Saves, Keeps
      <4> QED
        BY <1>1, <2>5, <4>1, <4>2 DEF Steps
    <3> QED
      BY <2>5, <2>9, <3>2, <3>3
  <2> QED
    BY <2>5, <2>7, <2>8, <2>9
<1> QED
  BY <1>3, <1>5, <1>6

LEMMA FailSteps ==
  ASSUME TypeInv, NEW t \in Turns, Fail(t)
  PROVE  \E me \in TurnT : Steps(t, me)
<1>1. /\ TurnOK(turn[t]) /\ turn[t] \in TurnT /\ At(t, "ending") /\ turn[t].answer # "reply"
      /\ Working(turn[t]) /\ ~InCall(turn[t]) /\ crashes' \in 0..MaxCrashes
      /\ turn[t].answer \in Endings /\ turn[t].end \in Nat /\ turn[t].stale \in BOOLEAN /\ Active(t)
  BY DEF TypeInv, TurnT, TurnOK, Fail, At, Working, InCall, Verdicts, Endings, Active
<1> DEFINE how == IF turn[t].answer = "cancelled" THEN "cancelled" ELSE "failed"
           es == <<Step(t), RunResult(t, how)>>
           q == RecordRequest(t, es)
<1>2. PICK r \in Replies(q) :
        /\ Apply(r)
        /\ IF r.how = "stale"
           THEN Go(t, [turn[t] EXCEPT !.stale = TRUE]) /\ UNCHANGED running
           ELSE End(t, turn[t].answer)
  BY DEF Fail
<1>3. how \in {"failed", "cancelled"} /\ how \in {"done"} \cup Outcomes
  BY DEF Outcomes
<1> HIDE DEF how
<1>4. es \in Seq(EntryT)
  <2>1. Step(t) \in EntryT /\ RunResult(t, how) \in EntryT
    BY <1>3, EntriesOf
  <2> QED
    BY <2>1
<1>5. q \in CommitT /\ q.id = {} /\ q.state = {}
  <2>1. q \in CommitT
    BY <1>4, CommitTypes
  <2> QED
    BY <2>1 DEF RecordRequest, EntriesOnly
<1>6. Wrote(q) => \E x \in {"failed", "cancelled"} :
                    Wrote(RecordRequest(t, <<Step(t), RunResult(t, x)>>))
  BY <1>3
<1> HIDE DEF q, es
<1>7. /\ faults' \in faults..MaxFaults
      /\ \/ r.how = "committed" /\ Wrote(q) /\ faults' = faults
         \/ r.how = "stale" /\ session' = session /\ faults' = faults
         \/ /\ r.how = "error" /\ faults' > 0
            /\ session' = session \/ Wrote(q)
  BY <1>2, <1>5, PlainReply
<1>8. CASE r.how = "stale"
  <2> DEFINE me == [turn[t] EXCEPT !.stale = TRUE]
  <2>1. /\ TurnOK(me) /\ me.pc = turn[t].pc /\ me.stale = TRUE /\ Keeps(t, me)
        /\ me.kept = turn[t].kept /\ me.end = turn[t].end /\ me.ops = turn[t].ops
        /\ me.answer = turn[t].answer
    BY <1>1, Amended DEF Keeps, Same
  <2>2. turn' = [turn EXCEPT ![t] = me] /\ running' = running /\ session' = session
    BY <1>2, <1>7, <1>8 DEF Go
  <2> HIDE DEF me
  <2>3. Moves(t, me)
    BY <1>1, <2>1, <2>2 DEF Moves, Working, InCall, At
  <2> QED
    BY <1>1, <1>7, <2>1, <2>2, <2>3 DEF Steps, TurnOK
<1>9. CASE r.how # "stale"
  <2>1. PICK me \in TurnT :
           /\ TurnOK(me) /\ turn' = [turn EXCEPT ![t] = me] /\ Frees(t)
           /\ me.pc = "over" /\ me.outcome = turn[t].answer /\ Same(t, me) /\ me.end = 0
    BY <1>1, <1>2, <1>9, EndIs
  <2>2. CASE Wrote(q)
    <3>1. Fails(t, me)
      BY <1>1, <1>6, <2>1, <2>2 DEF Fails
    <3> QED
      BY <1>1, <1>7, <2>1, <3>1 DEF Steps
  <2>3. CASE session' = session /\ faults' > 0
    <3>1. Leaves(t, me)
      BY <1>1, <2>1, <2>3 DEF Leaves
    <3> QED
      BY <1>1, <1>7, <2>1, <3>1 DEF Steps
  <2> QED
    BY <1>7, <1>9, <2>2, <2>3
<1> QED
  BY <1>8, <1>9

LEMMA CrashSteps ==
  ASSUME TypeInv, NEW i \in Instances, Crash(i)
  PROVE  \E t \in Turns : \E me \in TurnT : Steps(t, me)
<1>1. PICK t \in Turns : Active(t) /\ turn[t].inst = i /\ End(t, "crashed")
  BY DEF Crash
<1>2. PICK me \in TurnT :
         /\ TurnOK(me) /\ turn' = [turn EXCEPT ![t] = me] /\ Frees(t)
         /\ me.pc = "over" /\ me.outcome = "crashed" /\ Same(t, me) /\ me.end = 0
  BY <1>1, EndIs
<1>3. session' = session /\ faults' \in faults..MaxFaults /\ crashes' \in 0..MaxCrashes
  BY NAssumption DEF TypeInv, Crash
<1> QED
  BY <1>1, <1>2, <1>3 DEF Steps, Leaves

LEMMA StepKinds ==
  ASSUME TypeInv, Next
  PROVE  \E t \in Turns : \E me \in TurnT : Steps(t, me)
<1>1. ASSUME NEW t \in Turns, NEW i \in Instances, NEW r \in RunIds, Request(t, i, r)
      PROVE  \E me \in TurnT : Steps(t, me)
  BY <1>1, AcceptSteps
<1>2. ASSUME NEW t \in Turns, Accept(t) \/ Work(t) \/ Conclude(t) \/ TimePasses(t)
      PROVE  \E me \in TurnT : Steps(t, me)
  BY <1>2, AcceptSteps, OpenSteps, WorkSteps, SaveSteps, FailSteps DEF Accept, Conclude
<1>3. ASSUME NEW i \in Instances, Crash(i)
      PROVE  \E t \in Turns : \E me \in TurnT : Steps(t, me)
  BY <1>3, CrashSteps
<1> QED
  BY <1>1, <1>2, <1>3 DEF Next

-----------------------------------------------------------------------------
(***************************************************************************)
(* What a step writes.                                                     *)
(***************************************************************************)
Grown(es) ==
  /\ es \in Seq(EntryT) /\ Journal' \in Seq(EntryT)
  /\ Len(Journal') = Len(Journal) + Len(es) /\ Len(es) \in Nat /\ Len(Journal) \in Nat
  /\ DOMAIN Journal = 1..Len(Journal) /\ DOMAIN Journal' = 1..Len(Journal')
  /\ \A i \in DOMAIN Journal : i \in DOMAIN Journal' /\ Journal'[i] = Journal[i]
  /\ \A k \in DOMAIN es :
       Len(Journal) + k \in DOMAIN Journal' /\ Journal'[Len(Journal) + k] = es[k]
  /\ \A i \in DOMAIN Journal' :
       \/ i \in DOMAIN Journal
       \/ /\ i > Len(Journal) /\ i - Len(Journal) \in DOMAIN es
          /\ Journal'[i] = es[i - Len(Journal)]

LEMMA GrownBy ==
  ASSUME TypeInv, NEW c \in CommitT, Wrote(c)
  PROVE  /\ Grown(c.entries) /\ session' \in SessionT
         /\ session'.version = IF c.state = {} THEN session.version ELSE session.version + 1
         /\ session'.value = IF c.state = {} THEN session.value ELSE CHOOSE v \in c.state : TRUE
         /\ session'.through = IF c.state = {} THEN session.through ELSE Len(Journal')
         /\ session'.ids = [i \in DOMAIN session.ids \cup c.id |->
                              IF i \in c.id THEN Len(Journal') ELSE session.ids[i]]
<1> DEFINE es == c.entries
<1>1. session \in SessionT /\ session' = Written(session, c)
  BY DEF TypeInv, Wrote
<1>2. es \in Seq(EntryT) /\ Journal \in Seq(EntryT)
  BY <1>1 DEF CommitT, SessionT, Journal
<1>3. Journal' = Journal \o es
  BY <1>1, WrittenIs DEF Journal
<1>4. Grown(es)
  <2> HIDE DEF es
  <2> DEFINE j == Journal
             q == Journal'
  <2>1. q = j \o es /\ j \in Seq(EntryT)
    BY <1>2, <1>3
  <2> HIDE DEF j, q
  <2>2. /\ q \in Seq(EntryT) /\ Len(q) = Len(j) + Len(es) /\ Len(es) \in Nat /\ Len(j) \in Nat
        /\ DOMAIN j = 1..Len(j) /\ DOMAIN q = 1..Len(q) /\ DOMAIN es = 1..Len(es)
    BY <1>2, <2>1, Joined2
  <2>3. /\ \A i \in DOMAIN j : i \in DOMAIN q /\ q[i] = j[i]
        /\ \A k \in DOMAIN es : Len(j) + k \in DOMAIN q /\ q[Len(j) + k] = es[k]
    BY <1>2, <2>1, Joined2
  <2>4. \A i \in DOMAIN q :
          \/ i \in DOMAIN j
          \/ i > Len(j) /\ i - Len(j) \in DOMAIN es /\ q[i] = es[i - Len(j)]
    BY <1>2, <2>1, <2>2
  <2> QED
    BY <1>2, <2>2, <2>3, <2>4 DEF Grown, j, q
<1>5. /\ session' \in SessionT
      /\ session'.version = IF c.state = {} THEN session.version ELSE session.version + 1
      /\ session'.value = IF c.state = {} THEN session.value ELSE CHOOSE v \in c.state : TRUE
      /\ session'.through = IF c.state = {} THEN session.through ELSE Len(Journal \o es)
      /\ session'.ids = [i \in DOMAIN session.ids \cup c.id |->
                           IF i \in c.id THEN Len(Journal \o es) ELSE session.ids[i]]
  BY <1>1, WrittenIs
<1> QED
  BY <1>3, <1>4, <1>5

StateKept ==
  /\ session'.version = session.version /\ session'.value = session.value
  /\ session'.through = session.through

WritesOpening(t, es) ==
  /\ turn[t].end = Len(Journal) /\ turn[t].run \notin DOMAIN session.ids
  /\ Len(es) >= 2
  /\ \A k \in DOMAIN es :
       /\ es[k].by = t /\ es[k].kind \in {"result", "step", "run"}
       /\ es[k].kind = "run" <=> k = Len(es)
  /\ \A k \in DOMAIN turn[t].closing : k \in DOMAIN es /\ es[k] = turn[t].closing[k]
  /\ session'.ids = [i \in DOMAIN session.ids \cup {turn[t].run} |->
                      IF i \in {turn[t].run} THEN Len(Journal') ELSE session.ids[i]]
  /\ StateKept

WritesCall(t, es) ==
  /\ turn[t].end = Len(Journal) /\ Len(es) = 1
  /\ es[1].by = t /\ es[1].kind = "op" /\ es[1].op = NextOp(t)
  /\ session'.ids = session.ids /\ StateKept

WritesNotes(t, es) ==
  /\ ~turn[t].stale => turn[t].end = Len(Journal)
  /\ \A k \in DOMAIN es : es[k].by = t /\ es[k].kind \in {"result", "step"}
  /\ InCall(turn[t]) => \E k \in DOMAIN es : es[k].kind = "result" /\ es[k].op = ThisOp(t)
  /\ session'.ids = session.ids /\ StateKept

WritesEnd(t, es, how) ==
  /\ Len(es) = 2 /\ es[1].by = t /\ es[1].kind = "step"
  /\ es[2].by = t /\ es[2].kind = "ended" /\ es[2].says = how
  /\ session'.ids = session.ids

LEMMA KeptIds ==
  ASSUME TypeInv, NEW c \in CommitT, c.id = {}, Wrote(c)
  PROVE  session'.ids = session.ids
<1>1. PICK D \in SUBSET RunIds : session.ids \in [D -> Nat]
  BY DEF TypeInv, SessionT, Ids
<1>2. session'.ids = [i \in DOMAIN session.ids \cup c.id |->
                        IF i \in c.id THEN Len(Journal') ELSE session.ids[i]]
  BY GrownBy
<1>3. DOMAIN session.ids \cup c.id = D /\ \A i \in D : i \notin c.id
  BY <1>1
<1>4. session'.ids = [i \in D |-> session.ids[i]]
  BY <1>2, <1>3
<1> QED
  BY <1>1, <1>4

LEMMA OpeningWrites ==
  ASSUME TypeInv, ReadInv, NEW t \in Turns, At(t, "opening"), Wrote(OpenRequest(t))
  PROVE  \E es : Grown(es) /\ WritesOpening(t, es) /\ session' \in SessionT
<1> DEFINE c == OpenRequest(t)
           old == turn[t].closing
           new == <<Step(t), RunEntry(t)>>
           es == old \o new
<1>1. old \in Seq(EntryT) /\ \A k \in DOMAIN old : old[k].by = t /\ old[k].kind \in {"result", "step"}
  BY DEF TypeInv, TurnT, ReadInv, At
<1>2. /\ new \in Seq(EntryT) /\ DOMAIN new = {1, 2} /\ Len(new) = 2
      /\ new[1].by = t /\ new[1].kind = "step" /\ new[2].by = t /\ new[2].kind = "run"
  <2> DEFINE a == Step(t)
             b == RunEntry(t)
  <2>1. /\ a \in EntryT /\ a.by = t /\ a.kind = "step"
        /\ b \in EntryT /\ b.by = t /\ b.kind = "run"
    BY EntriesOf
  <2> HIDE DEF a, b
  <2>2. <<a, b>> \in Seq(EntryT) /\ <<a, b>>[1] = a /\ <<a, b>>[2] = b /\ Len(<<a, b>>) = 2
        /\ DOMAIN <<a, b>> = {1, 2}
    BY <2>1
  <2> QED
    BY <2>1, <2>2 DEF a, b
<1>3. /\ c \in CommitT /\ c.state = {} /\ c.id = {turn[t].run} /\ c.entries = es
      /\ c.requireEnd = {turn[t].end}
  BY CommitTypes DEF OpenRequest
<1>4. /\ turn[t].end = Len(Journal) /\ turn[t].run \notin DOMAIN session.ids
  BY <1>3 DEF Wrote, Matches, JournalEnd, Journal
<1> HIDE DEF c
<1>5. Wrote(c)
  BY DEF c
<1>6. /\ Grown(es) /\ session' \in SessionT /\ StateKept
      /\ session'.ids = [i \in DOMAIN session.ids \cup {turn[t].run} |->
                          IF i \in {turn[t].run} THEN Len(Journal') ELSE session.ids[i]]
  BY <1>3, <1>5, GrownBy DEF StateKept
<1> HIDE DEF new, old
<1>7. /\ es \in Seq(EntryT) /\ Len(es) = Len(old) + Len(new) /\ Len(old) \in Nat
      /\ DOMAIN old = 1..Len(old) /\ DOMAIN es = 1..Len(es)
      /\ \A k \in DOMAIN old : k \in DOMAIN es /\ es[k] = old[k]
      /\ \A k \in DOMAIN es :
              \/ k \in DOMAIN old /\ es[k] = old[k]
              \/ k - Len(old) \in DOMAIN new /\ es[k] = new[k - Len(old)]
  <2>1. /\ es \in Seq(EntryT) /\ Len(es) = Len(old) + Len(new)
        /\ \A k \in DOMAIN old : k \in DOMAIN es /\ es[k] = old[k]
        /\ \A k \in DOMAIN es :
              \/ k \in DOMAIN old /\ es[k] = old[k]
              \/ k - Len(old) \in DOMAIN new /\ es[k] = new[k - Len(old)]
    <3>1. old \in Seq(EntryT) /\ new \in Seq(EntryT)
      BY <1>1, <1>2
    <3> QED
      BY <3>1, Joined2
  <2> HIDE DEF es
  <2>2. Len(old) \in Nat /\ DOMAIN old = 1..Len(old) /\ DOMAIN es = 1..Len(es)
    BY <1>1, <2>1
  <2> QED
    BY <2>1, <2>2
<1> HIDE DEF es
<1>8. ASSUME NEW k \in DOMAIN es
      PROVE  /\ es[k].by = t /\ es[k].kind \in {"result", "step", "run"}
             /\ es[k].kind = "run" <=> k = Len(es)
  <2>1. CASE k \in DOMAIN old /\ es[k] = old[k]
    <3>1. k # Len(es)
      BY <1>2, <1>7, <2>1
    <3> QED
      BY <1>1, <2>1, <3>1
  <2>2. CASE k - Len(old) \in DOMAIN new /\ es[k] = new[k - Len(old)]
    <3>1. \/ k - Len(old) = 1 /\ k # Len(es) /\ es[k] = new[1]
          \/ k - Len(old) = 2 /\ k = Len(es) /\ es[k] = new[2]
      BY <1>2, <1>7, <2>2
    <3> QED
      BY <1>2, <3>1
  <2> QED
    BY <1>7, <2>1, <2>2
<1>9. WritesOpening(t, es)
  BY <1>2, <1>4, <1>6, <1>7, <1>8 DEF WritesOpening, old
<1> QED
  BY <1>6, <1>9

LEMMA CallWrites ==
  ASSUME TypeInv, NEW t \in Turns, NEW target \in Targets, Wrote(AppendRequest(t, target))
  PROVE  \E es : Grown(es) /\ WritesCall(t, es) /\ session' \in SessionT
<1> DEFINE c == AppendRequest(t, target)
           a == Op(t, NextOp(t), target)
           es == <<a>>
<1>1. a \in EntryT /\ a.by = t /\ a.kind = "op" /\ a.op = NextOp(t)
  BY ThisOpType, EntriesOf
<1>2. /\ c \in CommitT /\ c.state = {} /\ c.id = {} /\ c.entries = es
      /\ c.requireEnd = {turn[t].end}
  BY CommitTypes DEF AppendRequest, EntriesOnly
<1>3. turn[t].end = Len(Journal) /\ session \in SessionT
  BY <1>2 DEF Wrote, Matches, JournalEnd, Journal, TypeInv
<1> HIDE DEF c
<1>4. Wrote(c)
  BY DEF c
<1>5. Grown(es) /\ session' \in SessionT /\ StateKept
  BY <1>2, <1>4, GrownBy DEF StateKept
<1>6. session'.ids = session.ids
  BY <1>2, <1>4, KeptIds
<1> HIDE DEF a
<1>7. Len(es) = 1 /\ es[1] = a
  OBVIOUS
<1> HIDE DEF es
<1> QED
  BY <1>1, <1>3, <1>5, <1>6, <1>7 DEF WritesCall

LEMMA NotesWrites ==
  ASSUME TypeInv, NEW t \in Turns, NEW es \in Seq(EntryT), Wrote(RecordRequest(t, es))
  PROVE  /\ Grown(es) /\ session' \in SessionT /\ StateKept /\ session'.ids = session.ids
         /\ ~turn[t].stale => turn[t].end = Len(Journal)
<1> DEFINE c == RecordRequest(t, es)
<1>1. /\ c \in CommitT /\ c.state = {} /\ c.id = {} /\ c.entries = es
      /\ ~turn[t].stale => c.requireEnd = {turn[t].end}
  BY CommitTypes DEF RecordRequest, EntriesOnly
<1>2. (~turn[t].stale => turn[t].end = Len(Journal)) /\ session \in SessionT
  BY <1>1 DEF Wrote, Matches, JournalEnd, Journal, TypeInv
<1> HIDE DEF c
<1>3. Wrote(c)
  BY DEF c
<1>4. Grown(es) /\ session' \in SessionT /\ StateKept
  BY <1>1, <1>3, GrownBy DEF StateKept
<1>5. session'.ids = session.ids
  BY <1>1, <1>3, KeptIds
<1> QED
  BY <1>2, <1>4, <1>5

LEMMA EndEntries ==
  ASSUME NEW t \in Turns, NEW how \in {"done"} \cup Outcomes
  PROVE  \E es \in Seq(EntryT) :
           /\ es = <<Step(t), RunResult(t, how)>>
           /\ Len(es) = 2 /\ es[1].by = t /\ es[1].kind = "step"
           /\ es[2].by = t /\ es[2].kind = "ended" /\ es[2].says = how
<1> DEFINE a == Step(t)
           b == RunResult(t, how)
           es == <<a, b>>
<1>1. /\ a \in EntryT /\ a.by = t /\ a.kind = "step"
      /\ b \in EntryT /\ b.by = t /\ b.kind = "ended" /\ b.says = how
  BY EntriesOf
<1> HIDE DEF a, b
<1>2. es \in Seq(EntryT) /\ Len(es) = 2 /\ es[1] = a /\ es[2] = b
  BY <1>1
<1>3. es = <<Step(t), RunResult(t, how)>>
  BY DEF a, b
<1> HIDE DEF es
<1> QED
  BY <1>1, <1>2, <1>3

LEMMA FailWrites ==
  ASSUME TypeInv, NEW t \in Turns, NEW how \in {"failed", "cancelled"},
         Wrote(RecordRequest(t, <<Step(t), RunResult(t, how)>>))
  PROVE  \E es : /\ Grown(es) /\ WritesEnd(t, es, how) /\ StateKept /\ session' \in SessionT
<1>1. PICK es \in Seq(EntryT) :
           /\ es = <<Step(t), RunResult(t, how)>>
           /\ Len(es) = 2 /\ es[1].by = t /\ es[1].kind = "step"
           /\ es[2].by = t /\ es[2].kind = "ended" /\ es[2].says = how
  BY EndEntries DEF Outcomes
<1>2. Wrote(RecordRequest(t, es))
  BY <1>1
<1> QED
  BY <1>1, <1>2, NotesWrites DEF WritesEnd

LEMMA SaveWrites ==
  ASSUME TypeInv, NEW t \in Turns, NEW c \in Seq(Turns), Wrote(SaveRequest(t, c))
  PROVE  \E es : /\ Grown(es) /\ WritesEnd(t, es, "done") /\ session' \in SessionT
                 /\ turn[t].end = Len(Journal) /\ turn[t].snap.version = session.version
                 /\ session'.through = Len(Journal') /\ session'.version = session.version + 1
                 /\ session'.value = c
<1> DEFINE q == SaveRequest(t, c)
<1>1. PICK es \in Seq(EntryT) :
           /\ es = <<Step(t), RunResult(t, "done")>>
           /\ Len(es) = 2 /\ es[1].by = t /\ es[1].kind = "step"
           /\ es[2].by = t /\ es[2].kind = "ended" /\ es[2].says = "done"
  BY EndEntries
<1>2. q.entries = es
  BY <1>1 DEF SaveRequest
<1>3. /\ q \in CommitT /\ q.state = {c} /\ q.id = {}
      /\ q.requireEnd = {turn[t].end} /\ q.requireState = {turn[t].snap.version}
  BY CommitTypes DEF SaveRequest
<1>4. /\ turn[t].end = Len(Journal) /\ turn[t].snap.version = session.version
      /\ session \in SessionT
  BY <1>3 DEF Wrote, Matches, JournalEnd, Journal, TypeInv
<1> HIDE DEF q
<1>5. Wrote(q)
  BY DEF q
<1>6. (CHOOSE v \in q.state : TRUE) = c /\ q.state # {}
  BY <1>3
<1>7. /\ Grown(es) /\ session' \in SessionT
      /\ session'.through = Len(Journal') /\ session'.version = session.version + 1
      /\ session'.value = c
  BY <1>2, <1>3, <1>5, <1>6, GrownBy
<1>8. session'.ids = session.ids
  BY <1>3, <1>5, KeptIds
<1> QED
  BY <1>1, <1>4, <1>7, <1>8 DEF WritesEnd

Quiet(t, me) ==
  Begins(t, me) \/ Reads(t, me) \/ Plans(t, me) \/ Joins(t, me) \/ Leaves(t, me) \/ Moves(t, me)

SavesConversation(t) ==
  /\ turn[t].end = Len(Journal) /\ turn[t].snap.version = session.version
  /\ session'.through = Len(Journal') /\ session'.version = session.version + 1
  /\ session'.value \in Trimmed(Append(turn[t].kept, t)) /\ session'.value \in Seq(Turns)

(* Turn t becomes `me' and writes the entries es. *)
Effect(t, me, es) ==
  /\ turn' = [turn EXCEPT ![t] = me] /\ TurnOK(me)
  /\ faults' \in faults..MaxFaults /\ crashes' \in 0..MaxCrashes
  /\ Grown(es) /\ session' \in SessionT /\ \A k \in DOMAIN es : es[k].by = t
  /\ \/ Quiet(t, me) /\ session' = session /\ Len(es) = 0
     \/ OpensRun(t, me) /\ WritesOpening(t, es)
     \/ Calls(t, me) /\ WritesCall(t, es)
     \/ Notes(t, me) /\ WritesNotes(t, es)
     \/ /\ Fails(t, me) /\ StateKept
        /\ \E how \in {"failed", "cancelled"} : WritesEnd(t, es, how)
     \/ Saves(t, me) /\ WritesEnd(t, es, "done") /\ SavesConversation(t)

LEMMA Effects ==
  ASSUME TypeInv, ReadInv, NEW t \in Turns, NEW me \in TurnT, Steps(t, me)
  PROVE  \E es : Effect(t, me, es)
<1> DEFINE Common == /\ turn' = [turn EXCEPT ![t] = me] /\ TurnOK(me)
                     /\ faults' \in faults..MaxFaults /\ crashes' \in 0..MaxCrashes
<1>1. Common
  BY DEF Steps
<1> HIDE DEF Common
<1>2. ASSUME NEW es, Grown(es), Len(es) \in 1..2, es[1].by = t, Len(es) = 2 => es[2].by = t
      PROVE  \A k \in DOMAIN es : es[k].by = t
  <2>1. DOMAIN es = 1..Len(es)
    BY <1>2 DEF Grown
  <2>2. \A k \in DOMAIN es : k = 1 \/ (k = 2 /\ Len(es) = 2)
    BY <1>2, <2>1
  <2> QED
    BY <1>2, <2>2
<1>3. CASE Quiet(t, me)
  <2>1. session' = session
    BY <1>3 DEF Quiet, Begins, Reads, Plans, Joins, Leaves, Moves
  <2> DEFINE es == << >>
             j == Journal
  <2>2. j \in Seq(EntryT) /\ Journal' = j /\ session' \in SessionT
    BY <2>1 DEF TypeInv, SessionT, Journal
  <2>3. es \in Seq(EntryT) /\ Len(es) = 0 /\ DOMAIN es = {}
    OBVIOUS
  <2> HIDE DEF es
  <2>4. Len(j) \in Nat /\ DOMAIN j = 1..Len(j)
    <3> HIDE DEF j
    <3> QED
      BY <2>2
  <2>5. Grown(es)
    BY <2>2, <2>3, <2>4 DEF Grown
  <2> QED
    BY <1>1, <1>3, <2>1, <2>2, <2>3, <2>5 DEF Effect, Common
<1>4. CASE OpensRun(t, me)
  <2>1. PICK es : Grown(es) /\ WritesOpening(t, es) /\ session' \in SessionT
    BY <1>4, OpeningWrites DEF OpensRun
  <2>2. \A k \in DOMAIN es : es[k].by = t
    BY <2>1 DEF WritesOpening
  <2> QED
    BY <1>1, <1>4, <2>1, <2>2 DEF Effect, Common
<1>5. CASE Calls(t, me)
  <2>1. PICK es : Grown(es) /\ WritesCall(t, es) /\ session' \in SessionT
    BY <1>5, CallWrites DEF Calls
  <2>2. \A k \in DOMAIN es : es[k].by = t
    BY <1>2, <2>1 DEF WritesCall
  <2> QED
    BY <1>1, <1>5, <2>1, <2>2 DEF Effect, Common
<1>6. CASE Notes(t, me)
  <2>1. PICK es \in Seq(EntryT) :
          /\ Wrote(RecordRequest(t, es))
          /\ \A k \in DOMAIN es : es[k].by = t /\ es[k].kind \in {"result", "step"}
          /\ InCall(turn[t]) => \E k \in DOMAIN es : es[k].kind = "result" /\ es[k].op = ThisOp(t)
    BY <1>6 DEF Notes
  <2>2. Grown(es) /\ WritesNotes(t, es) /\ session' \in SessionT
    BY <2>1, NotesWrites DEF WritesNotes
  <2> QED
    BY <1>1, <1>6, <2>1, <2>2 DEF Effect, Common
<1>7. CASE Fails(t, me)
  <2>1. PICK how \in {"failed", "cancelled"} :
          Wrote(RecordRequest(t, <<Step(t), RunResult(t, how)>>))
    BY <1>7 DEF Fails
  <2>2. PICK es : Grown(es) /\ WritesEnd(t, es, how) /\ StateKept /\ session' \in SessionT
    BY <2>1, FailWrites
  <2>3. \A k \in DOMAIN es : es[k].by = t
    BY <1>2, <2>2 DEF WritesEnd
  <2> QED
    BY <1>1, <1>7, <2>2, <2>3 DEF Effect, Common
<1>8. CASE Saves(t, me)
  <2>1. PICK c \in Trimmed(Append(turn[t].kept, t)) : Wrote(SaveRequest(t, c))
    BY <1>8 DEF Saves
  <2>2. c \in Seq(Turns)
    <3>1. Append(turn[t].kept, t) \in Seq(Turns) /\ KEEP \in Nat /\ << >> \in Seq(Turns)
      BY NAssumption DEF TypeInv, TurnT
    <3> QED
      BY <2>1, <3>1, NewestType DEF Trimmed
  <2>3. PICK es : /\ Grown(es) /\ WritesEnd(t, es, "done") /\ session' \in SessionT
                  /\ turn[t].end = Len(Journal) /\ turn[t].snap.version = session.version
                  /\ session'.through = Len(Journal') /\ session'.version = session.version + 1
                  /\ session'.value = c
    BY <2>1, <2>2, SaveWrites
  <2>4. \A k \in DOMAIN es : es[k].by = t
    BY <1>2, <2>3 DEF WritesEnd
  <2> QED
    BY <1>1, <1>8, <2>1, <2>2, <2>3, <2>4 DEF Effect, Common, SavesConversation
<1> QED
  BY <1>3, <1>4, <1>5, <1>6, <1>7, <1>8 DEF Steps, Quiet

LEMMA OthersKept ==
  ASSUME TypeInv, NEW t \in Turns, NEW me, turn' = [turn EXCEPT ![t] = me]
  PROVE  turn'[t] = me /\ \A u \in Turns : u # t => turn'[u] = turn[u]
  BY DEF TypeInv

(* How a turn comes to life and ends. *)
LEMMA Lives ==
  ASSUME TypeInv, OpeningsInv, NEW t \in Turns, NEW me, NEW es, Effect(t, me, es)
  PROVE  /\ ~At(t, "over")
         /\ me.end <= Len(Journal')
         /\ \/ /\ At(t, "new") /\ me.pc = "accepting" /\ ~running[me.inst]
               /\ running' = [running EXCEPT ![me.inst] = TRUE]
            \/ /\ At(t, "new") /\ me.pc = "over" /\ running' = running
            \/ /\ Active(t) /\ Same(t, me) /\ me.pc = "over" /\ Frees(t)
            \/ /\ Active(t) /\ Same(t, me) /\ me.pc \notin {"new", "over"} /\ running' = running
<1>1. /\ turn[t] \in TurnT /\ turn[t].end <= Len(Journal) /\ turn[t].end \in Nat
      /\ Len(Journal) \in Nat /\ Len(Journal') \in Nat /\ Len(Journal) <= Len(Journal')
      /\ me \in TurnT
  BY DEF TypeInv, TurnT, Effect, Grown, TurnOK
<1>2. CASE Quiet(t, me)
  <2>1. CASE Begins(t, me)
    BY <1>1, <2>1 DEF Begins, At
  <2>2. CASE Reads(t, me)
    BY <1>1, <2>2 DEF Reads, At, Active
  <2>3. CASE Plans(t, me)
    BY <1>1, <2>3 DEF Plans, At, Active, Keeps
  <2>4. CASE Joins(t, me)
    <3>1. session.ids[turn[t].run] \in DOMAIN Journal
      BY <2>4 DEF OpeningsInv, Joins
    <3>2. DOMAIN Journal = 1..Len(Journal)
      BY DEF Effect, Grown
    <3>3. me.end <= Len(Journal')
      BY <1>1, <2>4, <3>1, <3>2 DEF Joins
    <3> QED
      BY <1>1, <2>4, <3>3 DEF Joins, At, Active, Keeps
  <2>5. CASE Leaves(t, me)
    BY <1>1, <2>5 DEF Leaves, At, Active
  <2>6. CASE Moves(t, me)
    BY <1>1, <2>6 DEF Moves, At, Active, Keeps, Working
  <2> QED
    BY <1>2, <2>1, <2>2, <2>3, <2>4, <2>5, <2>6 DEF Quiet, Effect
<1>3. CASE OpensRun(t, me)
  BY <1>1, <1>3 DEF OpensRun, At, Active
<1>4. CASE Calls(t, me)
  BY <1>1, <1>4 DEF Calls, At, Active, Keeps, Working, InCall
<1>5. CASE Notes(t, me)
  BY <1>1, <1>5 DEF Notes, At, Active, Keeps, Working
<1>6. CASE Fails(t, me)
  BY <1>1, <1>6 DEF Fails, At, Active
<1>7. CASE Saves(t, me)
  BY <1>1, <1>7 DEF Saves, At, Active, Keeps
<1> QED
  BY <1>2, <1>3, <1>4, <1>5, <1>6, <1>7 DEF Effect

LEMMA ThroughMoves ==
  ASSUME NEW t, NEW me, NEW es, Effect(t, me, es)
  PROVE  session'.through = session.through \/ (Saves(t, me) /\ session'.through = Len(Journal'))
  BY DEF Effect, WritesOpening, WritesCall, WritesNotes, StateKept, SavesConversation

LEMMA TypeStep ==
  ASSUME TypeInv, OpeningsInv, NEW t \in Turns, NEW me, NEW es, Effect(t, me, es)
  PROVE  TypeInv'
<1>1. /\ turn'[t] = me /\ \A u \in Turns : u # t => turn'[u] = turn[u]
  BY OthersKept DEF Effect
<1>2. /\ ~At(t, "over")
      /\ me.end <= Len(Journal')
      /\ \/ /\ At(t, "new") /\ me.pc = "accepting" /\ ~running[me.inst]
            /\ running' = [running EXCEPT ![me.inst] = TRUE]
         \/ /\ At(t, "new") /\ me.pc = "over" /\ running' = running
         \/ /\ Active(t) /\ Same(t, me) /\ me.pc = "over" /\ Frees(t)
         \/ /\ Active(t) /\ Same(t, me) /\ me.pc \notin {"new", "over"} /\ running' = running
  BY Lives
<1>3. /\ me \in TurnT /\ me.inst \in Instances /\ turn[t].inst \in Instances /\ TurnOK(me)
  BY DEF Effect, TurnOK, TurnT, TypeInv
<1>4. session' \in SessionT /\ session'.through <= Len(Journal')
  <2>1. session.through \in Nat /\ session.through <= Len(Journal)
    BY DEF TypeInv, SessionT
  <2>2. Len(Journal') \in Nat /\ Len(Journal) \in Nat /\ Len(Journal) <= Len(Journal')
    BY DEF Effect, Grown
  <2>3. session'.through = session.through \/ session'.through = Len(Journal')
    BY ThroughMoves
  <2>4. session' \in SessionT
    BY DEF Effect
  <2> QED
    BY <2>1, <2>2, <2>3, <2>4
<1>5. turn' \in [Turns -> TurnT]
  BY <1>3 DEF TypeInv, Effect
<1>6. \A u \in Turns : TurnOK(turn[u])' /\ turn'[u].end <= Len(Journal')
  <2> TAKE u \in Turns
  <2>1. CASE u = t
    BY <1>1, <1>2, <1>3, <2>1 DEF TurnOK
  <2>2. CASE u # t
    <3>1. turn'[u] = turn[u]
      BY <1>1, <2>2
    <3>2. TurnOK(turn[u]) /\ turn[u].end <= Len(Journal) /\ turn[u].end \in Nat
      BY DEF TypeInv, TurnOK, TurnT
    <3>3. Len(Journal') \in Nat /\ Len(Journal) \in Nat /\ Len(Journal) <= Len(Journal')
      BY DEF Effect, Grown
    <3> QED
      BY <3>1, <3>2, <3>3 DEF TurnOK
  <2> QED
    BY <2>1, <2>2
<1>7. \A u \in Turns : u # t => (Active(u)' <=> Active(u)) /\ turn'[u].inst = turn[u].inst
  BY <1>1 DEF Active
<1>8. /\ \A i \in Instances : running[i] <=> \E u \in Turns : Active(u) /\ turn[u].inst = i
      /\ \A u, o \in Turns : Active(u) /\ Active(o) /\ turn[u].inst = turn[o].inst => u = o
      /\ running \in [Instances -> BOOLEAN]
  BY DEF TypeInv
<1>9. /\ running' \in [Instances -> BOOLEAN]
      /\ \A i \in Instances : running'[i] <=> \E u \in Turns : Active(u)' /\ turn'[u].inst = i
      /\ \A u, o \in Turns : Active(u)' /\ Active(o)' /\ turn'[u].inst = turn'[o].inst => u = o
  <2>1. CASE /\ At(t, "new") /\ me.pc = "accepting" /\ ~running[me.inst]
             /\ running' = [running EXCEPT ![me.inst] = TRUE]
    <3>1. Active(t)' /\ ~Active(t) /\ turn'[t].inst = me.inst
      BY <1>1, <2>1 DEF Active, At
    <3>2. \A u \in Turns : u # t => ~(Active(u)' /\ turn'[u].inst = me.inst)
      BY <1>3, <1>7, <1>8, <2>1
    <3>3. \A i \in Instances : i # me.inst => (running'[i] <=> running[i])
      BY <1>8, <2>1
    <3>4. running' \in [Instances -> BOOLEAN] /\ running'[me.inst]
      BY <1>3, <1>8, <2>1
    <3>5. \A i \in Instances : running'[i] <=> \E u \in Turns : Active(u)' /\ turn'[u].inst = i
      <4> TAKE i \in Instances
      <4>1. CASE i = me.inst
        BY <3>1, <3>4, <4>1
      <4>2. CASE i # me.inst
        <5>1. \A u \in Turns : Active(u)' /\ turn'[u].inst = i <=> Active(u) /\ turn[u].inst = i
          BY <1>7, <3>1, <4>2
        <5> QED
          BY <1>8, <3>3, <4>2, <5>1
      <4> QED
        BY <4>1, <4>2
    <3>6. \A u, o \in Turns : Active(u)' /\ Active(o)' /\ turn'[u].inst = turn'[o].inst => u = o
      BY <1>7, <1>8, <3>1, <3>2
    <3> QED
      BY <3>4, <3>5, <3>6
  <2>2. CASE At(t, "new") /\ me.pc = "over" /\ running' = running
    <3>1. ~Active(t)' /\ ~Active(t)
      BY <1>1, <2>2 DEF Active, At
    <3> QED
      BY <1>7, <1>8, <2>2, <3>1
  <2>3. CASE Active(t) /\ Same(t, me) /\ me.pc = "over" /\ Frees(t)
    <3>1. ~Active(t)' /\ Active(t) /\ running' = [running EXCEPT ![turn[t].inst] = FALSE]
      BY <1>1, <2>3 DEF Active, Frees
    <3>2. /\ running' \in [Instances -> BOOLEAN] /\ ~running'[turn[t].inst]
          /\ \A i \in Instances : i # turn[t].inst => (running'[i] <=> running[i])
      BY <1>3, <1>8, <3>1
    <3>3. \A i \in Instances : running'[i] <=> \E u \in Turns : Active(u)' /\ turn'[u].inst = i
      <4> TAKE i \in Instances
      <4>1. CASE i = turn[t].inst
        <5>1. \A u \in Turns : ~(Active(u)' /\ turn'[u].inst = i)
          BY <1>7, <1>8, <3>1, <4>1
        <5> QED
          BY <3>2, <4>1, <5>1
      <4>2. CASE i # turn[t].inst
        <5>1. \A u \in Turns : Active(u)' /\ turn'[u].inst = i <=> Active(u) /\ turn[u].inst = i
          BY <1>7, <3>1, <4>2
        <5> QED
          BY <1>8, <3>2, <4>2, <5>1
      <4> QED
        BY <4>1, <4>2
    <3>4. \A u, o \in Turns : Active(u)' /\ Active(o)' /\ turn'[u].inst = turn'[o].inst => u = o
      BY <1>7, <1>8, <3>1
    <3> QED
      BY <3>2, <3>3, <3>4
  <2>4. CASE Active(t) /\ Same(t, me) /\ me.pc \notin {"new", "over"} /\ running' = running
    <3>1. \A u \in Turns : (Active(u)' <=> Active(u)) /\ turn'[u].inst = turn[u].inst
      BY <1>1, <1>7, <2>4 DEF Active, Same
    <3> QED
      BY <1>8, <2>4, <3>1
  <2> QED
    BY <1>2, <2>1, <2>2, <2>3, <2>4
<1>10. faults' \in 0..MaxFaults /\ crashes' \in 0..MaxCrashes
  BY NAssumption DEF Effect, TypeInv
<1> QED
  BY <1>4, <1>5, <1>6, <1>9, <1>10 DEF TypeInv

(* No entry makes an earlier call open, and only a call is open. *)
LEMMA OpenStays ==
  ASSUME NEW es, Grown(es), NEW i \in DOMAIN Journal', IsOpen(Journal', i)
  PROVE  \/ /\ i \in DOMAIN Journal /\ IsOpen(Journal, i) /\ Journal'[i] = Journal[i]
            /\ \A k \in DOMAIN es : ~(es[k].kind = "result" /\ es[k].op = Journal[i].op)
         \/ /\ i > Len(Journal) /\ i - Len(Journal) \in DOMAIN es
            /\ Journal'[i] = es[i - Len(Journal)] /\ es[i - Len(Journal)].kind = "op"
<1>1. /\ Len(Journal') = Len(Journal) + Len(es) /\ Len(es) \in Nat /\ Len(Journal) \in Nat
      /\ DOMAIN Journal = 1..Len(Journal) /\ DOMAIN Journal' = 1..Len(Journal')
      /\ \A m \in DOMAIN Journal : m \in DOMAIN Journal' /\ Journal'[m] = Journal[m]
      /\ \A k \in DOMAIN es :
           Len(Journal) + k \in DOMAIN Journal' /\ Journal'[Len(Journal) + k] = es[k]
      /\ DOMAIN es = 1..Len(es)
  BY DEF Grown
<1>2. /\ Journal'[i].kind = "op"
      /\ \A k \in i + 1 .. Len(Journal') :
           ~(Journal'[k].kind = "result" /\ Journal'[k].op = Journal'[i].op)
  BY DEF IsOpen
<1>3. CASE i \in DOMAIN Journal
  <2>1. \A k \in i + 1 .. Len(Journal) : k \in i + 1 .. Len(Journal') /\ Journal'[k] = Journal[k]
    BY <1>1, <1>3
  <2>2. IsOpen(Journal, i)
    BY <1>1, <1>2, <1>3, <2>1 DEF IsOpen
  <2>3. \A k \in DOMAIN es : Len(Journal) + k \in i + 1 .. Len(Journal')
    BY <1>1, <1>3
  <2>4. \A k \in DOMAIN es : ~(es[k].kind = "result" /\ es[k].op = Journal[i].op)
    BY <1>1, <1>2, <1>3, <2>3
  <2> QED
    BY <1>1, <1>3, <2>2, <2>4
<1>4. CASE i \notin DOMAIN Journal
  BY <1>2, <1>4 DEF Grown
<1> QED
  BY <1>3, <1>4

(* Writing goes with having opened, and turns keep what they are. *)
LEMMA Phases ==
  ASSUME TypeInv, NEW t \in Turns, NEW me, NEW es, Effect(t, me, es)
  PROVE  /\ turn[t].pc \notin {"new", "accepting", "reading", "opening"} =>
              me.pc \notin {"new", "accepting", "reading", "opening"}
         /\ Len(es) > 0 => me.pc \notin {"new", "accepting", "reading", "opening"}
         /\ ~At(t, "new") => Same(t, me)
         /\ ~Working(turn[t]) /\ Working(me) => OpensRun(t, me) \/ Joins(t, me)
         /\ InCall(me) => Working(me)
<1>1. CASE Quiet(t, me) /\ Len(es) = 0
  <2>1. CASE Begins(t, me)
    BY <1>1, <2>1 DEF Begins, At, Working, InCall
  <2>2. CASE Reads(t, me)
    BY <1>1, <2>2 DEF Reads, At, Working, InCall
  <2>3. CASE Plans(t, me)
    BY <1>1, <2>3 DEF Plans, At, Keeps, Working, InCall
  <2>4. CASE Joins(t, me)
    BY <1>1, <2>4 DEF Joins, At, Keeps, Working, InCall
  <2>5. CASE Leaves(t, me)
    BY <1>1, <2>5 DEF Leaves, At, Working, InCall
  <2>6. CASE Moves(t, me)
    BY <1>1, <2>6 DEF Moves, At, Keeps, Working, InCall
  <2> QED
    BY <1>1, <2>1, <2>2, <2>3, <2>4, <2>5, <2>6 DEF Quiet
<1>2. CASE OpensRun(t, me)
  BY <1>2 DEF OpensRun, At, Working, InCall
<1>3. CASE Calls(t, me)
  BY <1>3 DEF Calls, At, Keeps, Working, InCall
<1>4. CASE Notes(t, me)
  BY <1>4 DEF Notes, At, Keeps, Working, InCall
<1>5. CASE Fails(t, me)
  BY <1>5 DEF Fails, At, Working, InCall
<1>6. CASE Saves(t, me)
  BY <1>6 DEF Saves, At, Keeps, Same, Working, InCall
<1> QED
  BY <1>1, <1>2, <1>3, <1>4, <1>5, <1>6 DEF Effect

LEMMA GrownDomains ==
  ASSUME NEW es, Grown(es)
  PROVE  /\ Len(Journal') = Len(Journal) + Len(es) /\ Len(es) \in Nat /\ Len(Journal) \in Nat
         /\ Len(Journal') \in Nat
         /\ DOMAIN Journal = 1..Len(Journal) /\ DOMAIN Journal' = 1..Len(Journal')
         /\ DOMAIN es = 1..Len(es)
         /\ \A i \in DOMAIN Journal : i \in DOMAIN Journal' /\ Journal'[i] = Journal[i]
         /\ \A k \in DOMAIN es :
              Len(Journal) + k \in DOMAIN Journal' /\ Journal'[Len(Journal) + k] = es[k]
         /\ \A i \in DOMAIN Journal' : i \notin DOMAIN Journal =>
              /\ i > Len(Journal) /\ i - Len(Journal) \in DOMAIN es
              /\ Journal'[i] = es[i - Len(Journal)]
  BY DEF Grown

LEMMA ByTurns ==
  ASSUME TypeInv
  PROVE  \A i \in DOMAIN Journal : Journal[i].by \in Turns
<1>1. Journal \in Seq(EntryT)
  BY DEF TypeInv, SessionT, Journal
<1>2. \A i \in DOMAIN Journal : Journal[i] \in EntryT
  BY <1>1
<1> QED
  BY <1>2 DEF EntryT

(* What happens to the ids the store remembers. *)
LEMMA IdsStep ==
  ASSUME TypeInv, NEW t \in Turns, NEW me, NEW es, Effect(t, me, es)
  PROVE  /\ \A r \in DOMAIN session.ids :
              r \in DOMAIN session'.ids /\ session'.ids[r] = session.ids[r]
         /\ \A r \in DOMAIN session'.ids :
              \/ r \in DOMAIN session.ids
              \/ /\ OpensRun(t, me) /\ WritesOpening(t, es) /\ r = turn[t].run
                 /\ session'.ids[r] = Len(Journal')
         /\ OpensRun(t, me) /\ WritesOpening(t, es) =>
              turn[t].run \in DOMAIN session'.ids /\ session'.ids[turn[t].run] = Len(Journal')
<1>1. CASE WritesOpening(t, es) /\ OpensRun(t, me)
  BY <1>1 DEF WritesOpening
<1>2. CASE session'.ids = session.ids /\ ~(WritesOpening(t, es) /\ OpensRun(t, me))
  BY <1>2
<1>3. \/ WritesOpening(t, es) /\ OpensRun(t, me)
      \/ session'.ids = session.ids
  BY DEF Effect, WritesCall, WritesNotes, WritesEnd
<1> QED
  BY <1>1, <1>2, <1>3

LEMMA OpeningsStep ==
  ASSUME TypeInv, OpeningsInv, NEW t \in Turns, NEW me, NEW es, Effect(t, me, es)
  PROVE  OpeningsInv'
<1>1. /\ turn'[t] = me /\ \A u \in Turns : u # t => turn'[u] = turn[u]
  BY OthersKept DEF Effect
<1> DEFINE Early == {"new", "accepting", "reading", "opening"}
<1>2. /\ turn[t].pc \notin Early => me.pc \notin Early
      /\ Len(es) > 0 => me.pc \notin Early
      /\ ~At(t, "new") => Same(t, me)
      /\ ~Working(turn[t]) /\ Working(me) => OpensRun(t, me) \/ Joins(t, me)
  BY Phases
<1>3. /\ Grown(es) /\ \A k \in DOMAIN es : es[k].by = t
  BY DEF Effect
<1>4. \A i \in DOMAIN Journal : /\ turn[Journal[i].by].pc \notin Early /\ Journal[i].by \in Turns
                                /\ turn'[Journal[i].by].pc \notin Early
                                /\ turn'[Journal[i].by].run = turn[Journal[i].by].run
  BY <1>1, <1>2, ByTurns DEF OpeningsInv, At, Same
<1>5. ASSUME NEW i \in DOMAIN Journal' PROVE turn'[Journal'[i].by].pc \notin Early
  <2>1. CASE i \in DOMAIN Journal
    BY <1>3, <1>4, <2>1, GrownDomains
  <2>2. CASE i \notin DOMAIN Journal
    <3>1. /\ i - Len(Journal) \in DOMAIN es /\ Journal'[i] = es[i - Len(Journal)]
          /\ DOMAIN es = 1..Len(es) /\ Len(es) \in Nat
      BY <1>3, <2>2, GrownDomains
    <3>2. Journal'[i].by = t /\ Len(es) > 0
      BY <1>3, <3>1
    <3> QED
      BY <1>1, <1>2, <3>2
  <2> QED
    BY <2>1, <2>2
<1>6. ASSUME NEW i \in DOMAIN Journal', Journal'[i].kind = "run", NEW r,
             r = turn'[Journal'[i].by].run
      PROVE  r \in DOMAIN session'.ids /\ session'.ids[r] = i
  <2>1. CASE i \in DOMAIN Journal
    <3>1. Journal'[i] = Journal[i]
      BY <1>3, <2>1, GrownDomains
    <3>2. r = turn[Journal[i].by].run /\ Journal[i].kind = "run"
      BY <1>4, <1>6, <2>1, <3>1
    <3>3. r \in DOMAIN session.ids /\ session.ids[r] = i
      BY <2>1, <3>2 DEF OpeningsInv
    <3> QED
      BY <3>3, IdsStep
  <2>2. CASE i \notin DOMAIN Journal
    <3> DEFINE k == i - Len(Journal)
    <3>1. /\ k \in DOMAIN es /\ Journal'[i] = es[k] /\ i = Len(Journal) + k
          /\ DOMAIN es = 1..Len(es) /\ Len(es) \in Nat /\ Len(Journal') = Len(Journal) + Len(es)
      <4>1. DOMAIN Journal' = 1..Len(Journal') /\ Len(Journal') \in Nat /\ Len(Journal) \in Nat
        BY <1>3, GrownDomains
      <4>2. i \in Nat /\ i = Len(Journal) + k
        BY <4>1
      <4> QED
        BY <1>3, <2>2, <4>2, GrownDomains
    <3> HIDE DEF k
    <3>2. es[k].kind = "run" /\ es[k].by = t
      BY <1>3, <1>6, <3>1
    <3>3. OpensRun(t, me) /\ WritesOpening(t, es)
      <4>1. ~WritesCall(t, es) /\ ~WritesNotes(t, es) /\ Len(es) # 0
            /\ ~\E how \in {"failed", "cancelled", "done"} : WritesEnd(t, es, how)
        <5>1. k = 1 \/ Len(es) # 1
          BY <3>1
        <5>2. k = 1 \/ k = 2 \/ Len(es) # 2
          BY <3>1
        <5>3. Len(es) # 0
          BY <3>1
        <5> QED
          BY <3>1, <3>2, <5>1, <5>2, <5>3 DEF WritesCall, WritesNotes, WritesEnd
      <4> QED
        BY <4>1 DEF Effect
    <3>4. i = Len(Journal')
      BY <3>1, <3>2, <3>3 DEF WritesOpening
    <3>5. r = turn[t].run
      BY <1>1, <1>6, <3>1, <3>2, <3>3 DEF OpensRun, Same
    <3> QED
      BY <3>3, <3>4, <3>5, IdsStep
  <2> QED
    BY <2>1, <2>2
<1>7. ASSUME NEW r \in DOMAIN session'.ids
      PROVE  session'.ids[r] \in DOMAIN Journal' /\ Journal'[session'.ids[r]].kind = "run"
  <2>1. CASE r \in DOMAIN session.ids
    <3>1. session'.ids[r] = session.ids[r]
      BY <2>1, IdsStep
    <3>2. session.ids[r] \in DOMAIN Journal /\ Journal[session.ids[r]].kind = "run"
      BY <2>1 DEF OpeningsInv
    <3> QED
      BY <1>3, <3>1, <3>2, GrownDomains
  <2>2. CASE r \notin DOMAIN session.ids
    <3>1. WritesOpening(t, es) /\ session'.ids[r] = Len(Journal')
      BY <1>7, <2>2, IdsStep
    <3>2. /\ Len(es) \in DOMAIN es /\ Len(Journal') = Len(Journal) + Len(es)
      BY <1>3, <3>1, GrownDomains DEF WritesOpening
    <3>3. es[Len(es)].kind = "run"
      BY <3>1, <3>2 DEF WritesOpening
    <3> QED
      BY <1>3, <3>1, <3>2, <3>3, GrownDomains
  <2> QED
    BY <2>1, <2>2
<1>8. ASSUME NEW u \in Turns, Working(turn'[u])
      PROVE  turn'[u].run \in DOMAIN session'.ids /\ session'.ids[turn'[u].run] <= turn'[u].end
  <2>1. ASSUME Working(turn[u]), turn'[u].run = turn[u].run, turn'[u].end >= turn[u].end,
               turn'[u].end \in Nat
        PROVE  turn'[u].run \in DOMAIN session'.ids /\ session'.ids[turn'[u].run] <= turn'[u].end
    <3>1. turn[u].run \in DOMAIN session.ids /\ session.ids[turn[u].run] <= turn[u].end
      BY <2>1 DEF OpeningsInv
    <3>2. session.ids[turn[u].run] \in Nat /\ turn[u].end \in Nat
      BY <3>1 DEF TypeInv, TurnT, SessionT, Ids
    <3> QED
      BY <2>1, <3>1, <3>2, IdsStep
  <2>2. turn[u].end \in Nat /\ me.end \in Nat /\ turn[u].end <= Len(Journal)
    BY DEF TypeInv, TurnT, Effect, TurnOK
  <2>3. CASE u # t
    BY <1>1, <1>8, <2>1, <2>2, <2>3
  <2>4. CASE u = t /\ Working(turn[t])
    <3>1. ~At(t, "new")
      BY <2>4 DEF Working, At
    <3>2. me.end = turn[t].end \/ me.end = Len(Journal')
      BY <1>1, <1>8, <2>4 DEF Effect, Quiet, Begins, Reads, Plans, OpensRun, Joins, Leaves, Moves,
           Calls, Notes, Fails, Saves, At, Working
    <3>3. Len(Journal') \in Nat /\ Len(Journal) <= Len(Journal') /\ Len(Journal) \in Nat
      BY <1>3, GrownDomains
    <3> QED
      BY <1>1, <1>2, <2>1, <2>2, <2>4, <3>1, <3>2, <3>3 DEF Same
  <2>5. CASE u = t /\ ~Working(turn[t])
    <3>1. OpensRun(t, me) \/ Joins(t, me)
      BY <1>1, <1>2, <1>8, <2>5
    <3>2. CASE Joins(t, me)
      <4>1. me.end = session.ids[turn[t].run] /\ me.run = turn[t].run
            /\ turn[t].run \in DOMAIN session.ids
        BY <3>2 DEF Joins, Keeps, Same
      <4>2. session'.ids[turn[t].run] = me.end /\ turn[t].run \in DOMAIN session'.ids
        BY <4>1, IdsStep
      <4> QED
        BY <1>1, <2>2, <2>5, <4>1, <4>2
    <3>3. CASE OpensRun(t, me)
      <4>0. turn[t].run \notin DOMAIN session.ids
        BY <3>3 DEF OpensRun, Wrote, OpenRequest
      <4>1. WritesOpening(t, es)
        BY <1>1, <1>8, <2>5, <3>3, <4>0 DEF Effect, Quiet, Begins, Reads, Plans, OpensRun, Joins, Leaves,
             Moves, Calls, Notes, Fails, Saves, At, Working
      <4>2. me.end = Len(Journal') /\ me.run = turn[t].run
        BY <1>1, <1>8, <2>5, <3>3 DEF OpensRun, Working, Same
      <4> QED
        BY <1>1, <2>2, <2>5, <3>3, <4>1, <4>2, IdsStep
    <3> QED
      BY <3>1, <3>2, <3>3
  <2> QED
    BY <2>3, <2>4, <2>5
<1> QED
  BY <1>5, <1>6, <1>7, <1>8 DEF OpeningsInv

LEMMA AloneStep ==
  ASSUME TypeInv, OpeningsInv, AloneInv, NEW t \in Turns, NEW me, NEW es, Effect(t, me, es)
  PROVE  AloneInv'
<1>1. /\ turn'[t] = me /\ \A u \in Turns : u # t => turn'[u] = turn[u]
  BY OthersKept DEF Effect
<1>2. /\ Grown(es) /\ \A k \in DOMAIN es : es[k].by = t
  BY DEF Effect
<1>3. \A u \in Turns : /\ turn[u].end \in Nat /\ turn[u].end <= Len(Journal)
                       /\ turn[u].stale \in BOOLEAN /\ turn[u].run \in RunIds
  BY DEF TypeInv, TurnT
<1>4. \A u \in Turns : Working(turn[u]) =>
        /\ turn[u].run \in DOMAIN session.ids /\ session'.ids[turn[u].run] = session.ids[turn[u].run]
        /\ session.ids[turn[u].run] \in Nat
        /\ turn[u].run \in DOMAIN session'.ids
  <2>1. \A r \in DOMAIN session.ids : session.ids[r] \in Nat
    BY DEF TypeInv, SessionT, Ids
  <2> QED
    BY <2>1, IdsStep DEF OpeningsInv
<1>5. ASSUME NEW u \in Turns, Working(turn[u]), ~turn[u].stale,
             NEW m \in session'.ids[turn[u].run] + 1 .. turn[u].end
      PROVE  Journal'[m].by = u
  <2>1. m \in session.ids[turn[u].run] + 1 .. turn[u].end
    BY <1>4, <1>5
  <2>2. m \in DOMAIN Journal
    BY <1>2, <1>3, <1>4, <1>5, <2>1, GrownDomains
  <2>3. Journal'[m] = Journal[m]
    BY <1>2, <2>2, GrownDomains
  <2> QED
    BY <1>5, <2>1, <2>3 DEF AloneInv
<1>6. ASSUME Working(turn[t]), ~turn[t].stale, turn[t].end = Len(Journal),
             NEW m \in session'.ids[turn[t].run] + 1 .. Len(Journal')
      PROVE  Journal'[m].by = t
  <2>1. session'.ids[turn[t].run] \in Nat /\ m \in Nat /\ m > 0
    BY <1>4, <1>6
  <2>2. CASE m <= Len(Journal)
    BY <1>2, <1>5, <1>6, <2>1, <2>2, GrownDomains
  <2>3. CASE ~(m <= Len(Journal))
    <3>1. m \in DOMAIN Journal' /\ m \notin DOMAIN Journal
      BY <1>2, <1>6, <2>1, <2>3, GrownDomains
    <3> QED
      BY <1>2, <3>1, GrownDomains
  <2> QED
    BY <2>2, <2>3
<1>7. ASSUME NEW u \in Turns, Working(turn'[u]), ~turn'[u].stale
      PROVE  \A m \in session'.ids[turn'[u].run] + 1 .. turn'[u].end : Journal'[m].by = u
  <2>1. CASE u # t
    BY <1>1, <1>5, <1>7, <2>1
  <2>2. CASE u = t /\ ~Working(turn[t])
    <3>1. OpensRun(t, me) \/ Joins(t, me)
      BY <1>1, <1>7, <2>2, Phases
    <3>2. session'.ids[me.run] = me.end /\ me.end \in Nat
      <4>1. CASE Joins(t, me)
        <5>1. me.end = session.ids[turn[t].run] /\ me.run = turn[t].run
              /\ turn[t].run \in DOMAIN session.ids
          BY <4>1 DEF Joins, Keeps, Same
        <5> QED
          BY <5>1, IdsStep DEF Effect, TurnOK, TurnT
      <4>2. CASE OpensRun(t, me)
        <5>1. me.pc = "preparing" /\ me.end = Len(Journal') /\ me.run = turn[t].run
          BY <1>1, <1>7, <2>2, <4>2 DEF OpensRun, Working, Same
        <5>2. turn[t].run \notin DOMAIN session.ids
          BY <4>2 DEF OpensRun, Wrote, OpenRequest
        <5>3. WritesOpening(t, es)
          BY <1>1, <1>7, <2>2, <4>2, <5>1, <5>2 DEF Effect, Quiet, Begins, Reads, Plans,
             OpensRun, Joins, Leaves, Moves, Calls, Notes, Fails, Saves, At, Working
        <5> QED
          BY <1>2, <4>2, <5>1, <5>3, IdsStep, GrownDomains
      <4> QED
        BY <3>1, <4>1, <4>2
    <3>3. turn'[u].run = me.run /\ turn'[u].end = me.end
      BY <1>1, <2>2
    <3> QED
      BY <3>2, <3>3
  <2>3. CASE u = t /\ Working(turn[t])
    <3>1. /\ me.run = turn[t].run
          /\ ~turn[t].stale
          /\ me.end = turn[t].end \/ (me.end = Len(Journal') /\ turn[t].end = Len(Journal))
      <4>1. Working(me) /\ ~me.stale
        BY <1>1, <1>7, <2>3
      <4>2. me.run = turn[t].run
        BY <2>3, Phases DEF Working, At, Same
      <4>3. CASE Quiet(t, me)
        <5>1. Moves(t, me)
          BY <2>3, <4>1, <4>3 DEF Quiet, Begins, Reads, Plans, Joins, Leaves, At, Working
        <5> QED
          BY <4>1, <4>2, <5>1 DEF Moves
      <4>4. CASE OpensRun(t, me)
        BY <2>3, <4>4 DEF OpensRun, At, Working
      <4>5. CASE Calls(t, me) /\ WritesCall(t, es)
        BY <4>1, <4>2, <4>5 DEF Calls, WritesCall
      <4>6. CASE Notes(t, me) /\ WritesNotes(t, es)
        BY <4>1, <4>2, <4>6 DEF Notes, WritesNotes
      <4>7. CASE Fails(t, me)
        BY <4>1, <4>7 DEF Fails, Working
      <4>8. CASE Saves(t, me)
        BY <4>1, <4>2, <4>8 DEF Saves, Working
      <4> QED
        BY <4>3, <4>4, <4>5, <4>6, <4>7, <4>8 DEF Effect
    <3>2. turn'[u] = me
      BY <1>1, <2>3
    <3>3. CASE me.end = turn[t].end
      BY <1>5, <2>3, <3>1, <3>2, <3>3
    <3>4. CASE me.end = Len(Journal') /\ turn[t].end = Len(Journal)
      BY <1>6, <2>3, <3>1, <3>2, <3>4
    <3> QED
      BY <3>1, <3>3, <3>4
  <2> QED
    BY <2>1, <2>2, <2>3
<1> QED
  BY <1>7 DEF AloneInv

LEMMA ReadStep ==
  ASSUME TypeInv, ReadInv, NEW t \in Turns, NEW me, NEW es, Effect(t, me, es)
  PROVE  ReadInv'
<1>1. /\ turn'[t] = me /\ \A u \in Turns : u # t => turn'[u] = turn[u]
  BY OthersKept DEF Effect
<1>2. /\ Grown(es)
  BY DEF Effect
<1>3. \A u \in Turns : /\ turn[u].end \in Nat /\ turn[u].end <= Len(Journal)
                       /\ turn[u].snap.through \in Nat
  BY DEF TypeInv, TurnT, SnapshotT
<1>4. \A e \in Nat : e <= Len(Journal) /\ e = Len(Journal') =>
        /\ e = Len(Journal) /\ session'.through = session.through
        /\ \A i \in DOMAIN Journal' : i \in DOMAIN Journal /\ Journal'[i] = Journal[i]
             /\ (IsOpen(Journal', i) => IsOpen(Journal, i))
  <2> SUFFICES ASSUME NEW e \in Nat, e <= Len(Journal), e = Len(Journal')
               PROVE  /\ e = Len(Journal) /\ session'.through = session.through
                      /\ \A i \in DOMAIN Journal' : i \in DOMAIN Journal /\ Journal'[i] = Journal[i]
                           /\ (IsOpen(Journal', i) => IsOpen(Journal, i))
    OBVIOUS
  <2>1. e = Len(Journal) /\ Len(es) = 0
    BY <1>2, GrownDomains
  <2>2. session'.through = session.through
    <3>1. CASE Saves(t, me) /\ WritesEnd(t, es, "done")
      BY <2>1, <3>1 DEF WritesEnd
    <3>2. CASE ~(Saves(t, me) /\ WritesEnd(t, es, "done"))
      BY <3>2 DEF Effect, WritesOpening, WritesCall, WritesNotes, StateKept
    <3> QED
      BY <3>1, <3>2
  <2>3. ASSUME NEW i \in DOMAIN Journal'
        PROVE  /\ i \in DOMAIN Journal /\ Journal'[i] = Journal[i]
               /\ (IsOpen(Journal', i) => IsOpen(Journal, i))
    <3>1. i \in DOMAIN Journal /\ Journal'[i] = Journal[i]
      BY <1>2, <2>1, GrownDomains
    <3> QED
      BY <1>2, <2>1, <3>1, OpenStays, GrownDomains
  <2> QED
    BY <2>1, <2>2, <2>3
<1>5. ASSUME NEW u \in Turns, u # t
      PROVE  /\ turn'[u].pc \in {"reading", "opening"} /\ turn'[u].end = Len(Journal')
                  => turn'[u].snap.through = session'.through
             /\ turn'[u].pc = "opening" =>
                  /\ \A k \in DOMAIN turn'[u].closing :
                       /\ turn'[u].closing[k].by = u
                       /\ turn'[u].closing[k].kind \in {"result", "step"}
                  /\ turn'[u].end = Len(Journal') =>
                       \A i \in DOMAIN Journal' : i > session'.through /\ IsOpen(Journal', i) =>
                         \E k \in DOMAIN turn'[u].closing :
                           /\ turn'[u].closing[k].kind = "result"
                           /\ turn'[u].closing[k].op = Journal'[i].op
  <2>1. turn'[u] = turn[u]
    BY <1>1, <1>5
  <2>2. turn[u].pc \in {"reading", "opening"} /\ turn[u].end = Len(Journal')
                  => turn[u].snap.through = session'.through
    BY <1>3, <1>4 DEF ReadInv
  <2>3. turn[u].pc = "opening" =>
          \A k \in DOMAIN turn[u].closing :
            /\ turn[u].closing[k].by = u
            /\ turn[u].closing[k].kind \in {"result", "step"}
    BY DEF ReadInv
  <2>4. ASSUME turn[u].pc = "opening", turn[u].end = Len(Journal'),
               NEW i \in DOMAIN Journal', i > session'.through, IsOpen(Journal', i)
        PROVE  \E k \in DOMAIN turn[u].closing :
                 /\ turn[u].closing[k].kind = "result"
                 /\ turn[u].closing[k].op = Journal'[i].op
    <3>1. /\ i \in DOMAIN Journal /\ Journal'[i] = Journal[i] /\ IsOpen(Journal, i)
          /\ i > session.through /\ turn[u].end = Len(Journal)
      BY <1>3, <1>4, <2>4
    <3> QED
      BY <2>4, <3>1 DEF ReadInv
  <2> QED
    BY <2>1, <2>2, <2>3, <2>4
<1>6. CASE me.pc \notin {"reading", "opening"}
  BY <1>1, <1>5, <1>6 DEF ReadInv
<1>7. CASE me.pc \in {"reading", "opening"}
  <2>1. Reads(t, me) \/ Plans(t, me)
    BY <1>7 DEF Effect, Quiet, Begins, Joins, Leaves, Moves, OpensRun, Calls, Notes, Fails, Saves,
         Working, InCall
  <2>2. session' = session /\ Journal' = Journal
    BY <2>1 DEF Reads, Plans, Journal
  <2>3. CASE Reads(t, me)
    <3>1. me.pc = "reading" /\ me.snap.through = session.through
      BY <2>3 DEF Reads, Snapshot
    <3> QED
      BY <1>1, <1>5, <2>2, <3>1 DEF ReadInv
  <2>4. CASE Plans(t, me)
    <3> DEFINE th == turn[t].snap.through
               f == Recover(t, th)
    <3>1. /\ At(t, "reading") /\ me.pc = "opening" /\ me.snap = turn[t].snap
          /\ me.end = turn[t].end /\ me.closing = f
      BY <2>4 DEF Plans, Keeps
    <3>2. th \in Nat
      BY <1>3
    <3>3. /\ \A k \in DOMAIN f : f[k].by = t /\ f[k].kind \in {"result", "step"}
          /\ \A i \in DOMAIN Journal : i > th /\ IsOpen(Journal, i) =>
               \E k \in DOMAIN f : f[k].kind = "result" /\ f[k].op = Journal[i].op
      <4> HIDE DEF th
      <4> QED
        BY <3>2, RecoverIs
    <3>4. me.end = Len(Journal) => th = session.through
      BY <3>1 DEF ReadInv, At
    <3> HIDE DEF f
    <3>5. /\ me.end = Len(Journal') => me.snap.through = session'.through
          /\ \A k \in DOMAIN me.closing :
               me.closing[k].by = t /\ me.closing[k].kind \in {"result", "step"}
          /\ me.end = Len(Journal') =>
               \A i \in DOMAIN Journal' : i > session'.through /\ IsOpen(Journal, i)' =>
                 \E k \in DOMAIN me.closing :
                   me.closing[k].kind = "result" /\ me.closing[k].op = Journal'[i].op
      <4>1. \A i \in DOMAIN Journal' : IsOpen(Journal, i)' <=> IsOpen(Journal, i)
        BY <2>2 DEF IsOpen
      <4> QED
        BY <2>2, <3>1, <3>3, <3>4, <4>1
    <3> QED
      BY <1>1, <1>5, <3>1, <3>5 DEF ReadInv
  <2> QED
    BY <2>1, <2>3, <2>4
<1> QED
  BY <1>6, <1>7

(* The results a step adds: none, or that of the turn that ends. *)
LEMMA ResultsGrow ==
  ASSUME TypeInv, NEW t \in Turns, NEW me, NEW es, Effect(t, me, es)
  PROVE  /\ \A u \in Turns : u # t => Results(u)' = Results(u)
         /\ \A u \in Turns : \A k \in Results(u) : Journal'[k] = Journal[k]
         /\ \/ /\ Results(t)' = Results(t)
               /\ Quiet(t, me) \/ OpensRun(t, me) \/ Calls(t, me) \/ Notes(t, me)
            \/ /\ Fails(t, me)
               /\ \E k \in DOMAIN Journal' : /\ Results(t)' = Results(t) \cup {k}
                                             /\ k \notin DOMAIN Journal
                                             /\ Journal'[k].says # "done"
            \/ /\ Saves(t, me)
               /\ \E k \in DOMAIN Journal' : /\ Results(t)' = Results(t) \cup {k}
                                             /\ k \notin DOMAIN Journal
                                             /\ Journal'[k].says = "done"
<1>1. Grown(es) /\ \A k \in DOMAIN es : es[k].by = t
  BY DEF Effect
<1>2. \A u \in Turns : \A k \in Results(u) : Journal'[k] = Journal[k]
  BY <1>1, GrownDomains DEF Results
<1>3. ASSUME NEW u \in Turns, NEW k
      PROVE  k \in Results(u)' <=> \/ k \in Results(u)
                                   \/ /\ k \in DOMAIN Journal' /\ k \notin DOMAIN Journal /\ u = t
                                      /\ es[k - Len(Journal)].kind = "ended"
  <2>1. CASE k \in DOMAIN Journal
    BY <1>1, <2>1, GrownDomains DEF Results
  <2>2. CASE k \notin DOMAIN Journal
    BY <1>1, <2>2, GrownDomains DEF Results
  <2> QED
    BY <2>1, <2>2
<1>4. \A u \in Turns : u # t => Results(u)' = Results(u)
  BY <1>3
<1>5. ASSUME \A m \in DOMAIN es : es[m].kind # "ended"
      PROVE  Results(t)' = Results(t)
  <2>1. \A k \in DOMAIN Journal' : k \notin DOMAIN Journal => es[k - Len(Journal)].kind # "ended"
    BY <1>1, <1>5, GrownDomains
  <2> QED
    BY <1>3, <2>1
<1>6. ASSUME NEW how, WritesEnd(t, es, how)
      PROVE  \E k \in DOMAIN Journal' : /\ Results(t)' = Results(t) \cup {k}
                                        /\ k \notin DOMAIN Journal
                                        /\ Journal'[k].says = how
  <2> DEFINE z == Len(Journal) + 2
  <2>1. /\ z \in DOMAIN Journal' /\ z \notin DOMAIN Journal /\ z - Len(Journal) = 2
        /\ Journal'[z] = es[2] /\ es[2].kind = "ended" /\ es[2].says = how
    BY <1>1, <1>6, GrownDomains DEF WritesEnd
  <2>2. \A k \in DOMAIN Journal' : k \notin DOMAIN Journal /\ es[k - Len(Journal)].kind = "ended"
          => k = z
    <3> SUFFICES ASSUME NEW k \in DOMAIN Journal', k \notin DOMAIN Journal,
                        es[k - Len(Journal)].kind = "ended"
                 PROVE  k = z
      OBVIOUS
    <3>1. k - Len(Journal) \in 1..2 /\ k \in Nat /\ Len(Journal) \in Nat
      BY <1>1, <1>6, GrownDomains DEF WritesEnd
    <3>2. k - Len(Journal) # 1
      BY <1>6 DEF WritesEnd
    <3> QED
      BY <3>1, <3>2
  <2> HIDE DEF z
  <2>3. Results(t)' = Results(t) \cup {z}
    BY <1>3, <2>1, <2>2
  <2> QED
    BY <2>1, <2>3
<1>7. CASE Quiet(t, me) /\ session' = session /\ Len(es) = 0
  <2>1. \A m \in DOMAIN es : FALSE
    BY <1>1, <1>7, GrownDomains
  <2> QED
    BY <1>2, <1>4, <1>5, <1>7, <2>1
<1>8. CASE OpensRun(t, me) /\ WritesOpening(t, es)
  <2>2. \A m \in DOMAIN es : es[m].kind # "ended"
    BY <1>8 DEF WritesOpening
  <2> QED
    BY <1>2, <1>4, <1>5, <1>8, <2>2
<1>9. CASE Calls(t, me) /\ WritesCall(t, es)
  <2>2. \A m \in DOMAIN es : es[m].kind # "ended"
    BY <1>1, <1>9, GrownDomains DEF WritesCall
  <2> QED
    BY <1>2, <1>4, <1>5, <1>9, <2>2
<1>10. CASE Notes(t, me) /\ WritesNotes(t, es)
  <2>2. \A m \in DOMAIN es : es[m].kind # "ended"
    BY <1>10 DEF WritesNotes
  <2> QED
    BY <1>2, <1>4, <1>5, <1>10, <2>2
<1>11. CASE Fails(t, me) /\ \E how \in {"failed", "cancelled"} : WritesEnd(t, es, how)
  BY <1>2, <1>4, <1>6, <1>11
<1>12. CASE Saves(t, me) /\ WritesEnd(t, es, "done")
  BY <1>2, <1>4, <1>6, <1>12
<1> QED
  BY <1>7, <1>8, <1>9, <1>10, <1>11, <1>12 DEF Effect

LEMMA ResultsStep ==
  ASSUME TypeInv, OpeningsInv, ResultsInv, NEW t \in Turns, NEW me, NEW es, Effect(t, me, es)
  PROVE  ResultsInv'
<1>1. /\ turn'[t] = me /\ \A u \in Turns : u # t => turn'[u] = turn[u]
  BY OthersKept DEF Effect
<1>2. ~At(t, "over") /\ TurnOK(me)
  BY Lives DEF Effect
<1>3. /\ \A u \in Turns : u # t => Results(u)' = Results(u)
      /\ \A u \in Turns : \A k \in Results(u) : Journal'[k] = Journal[k]
  BY ResultsGrow
<1>4. ASSUME NEW u \in Turns, u # t
      PROVE  /\ \A k \in Results(u)' :
                  \/ turn'[u].pc = "over"
                  \/ turn'[u].pc = "ending" /\ turn'[u].answer = "not-recorded"
             /\ \A k \in Results(u)' : Journal'[k].says = "done" /\ turn'[u].pc = "over" =>
                  turn'[u].outcome \in {"done", "not-recorded", "crashed"}
             /\ turn'[u].outcome = "done" =>
                  \E k \in Results(u)' : Results(u)' = {k} /\ Journal'[k].says = "done"
  <2>1. turn'[u] = turn[u] /\ Results(u)' = Results(u)
    BY <1>1, <1>3, <1>4
  <2>2. /\ \A k \in Results(u) :
             \/ turn[u].pc = "over"
             \/ turn[u].pc = "ending" /\ turn[u].answer = "not-recorded"
        /\ \A k \in Results(u) : Journal[k].says = "done" /\ turn[u].pc = "over" =>
             turn[u].outcome \in {"done", "not-recorded", "crashed"}
        /\ turn[u].outcome = "done" =>
             \E k \in Results(u) : Results(u) = {k} /\ Journal[k].says = "done"
    BY DEF ResultsInv, At
  <2> QED
    BY <1>3, <2>1, <2>2
<1>5. \A k \in Results(t) : turn[t].pc = "ending" /\ turn[t].answer = "not-recorded"
  BY <1>2 DEF ResultsInv, At
<1>6. /\ \A k \in Results(t)' :
           \/ me.pc = "over"
           \/ me.pc = "ending" /\ me.answer = "not-recorded"
      /\ \A k \in Results(t)' : Journal'[k].says = "done" /\ me.pc = "over" =>
           me.outcome \in {"done", "not-recorded", "crashed"}
      /\ me.outcome = "done" =>
           \E k \in Results(t)' : Results(t)' = {k} /\ Journal'[k].says = "done"
  <2>1. CASE /\ Results(t)' = Results(t)
             /\ Quiet(t, me) \/ OpensRun(t, me) \/ Calls(t, me) \/ Notes(t, me)
    <3>1. me.outcome # "done"
      <4>1. CASE me.pc # "over"
        BY <1>2, <4>1 DEF TurnOK
      <4>2. CASE me.pc = "over"
        <5>1. CASE Begins(t, me)
          BY <4>2, <5>1 DEF Begins
        <5>2. CASE OpensRun(t, me)
          BY <4>2, <5>2 DEF OpensRun
        <5>3. CASE Leaves(t, me)
          <6>1. turn[t].answer # "done" \/ ~At(t, "ending")
            BY DEF TypeInv, TurnOK, At, Verdicts
          <6> QED
            BY <5>3, <6>1 DEF Leaves, NotStarted
        <5> QED
          BY <2>1, <4>2, <5>1, <5>2, <5>3 DEF Quiet, Reads, Plans, Joins, Moves, Calls, Notes,
             Working, InCall
      <4> QED
        BY <4>1, <4>2
    <3>2. ASSUME NEW k \in Results(t)
          PROVE  \/ me.pc = "over" /\ me.outcome \in {"not-recorded", "crashed"}
                 \/ me.pc = "ending" /\ me.answer = "not-recorded"
      <4>1. At(t, "ending") /\ turn[t].answer = "not-recorded"
        BY <1>5, <3>2 DEF At
      <4>2. Leaves(t, me) \/ Moves(t, me)
        BY <2>1, <4>1 DEF Quiet, Begins, Reads, Plans, Joins, OpensRun, Calls, Notes, At
      <4> QED
        BY <4>1, <4>2 DEF Leaves, Moves, At, Working
    <3> QED
      BY <2>1, <3>1, <3>2
  <2>2. CASE /\ Fails(t, me)
             /\ \E k \in DOMAIN Journal' : /\ Results(t)' = Results(t) \cup {k}
                                           /\ k \notin DOMAIN Journal
                                           /\ Journal'[k].says # "done"
    <3>1. me.pc = "over" /\ me.outcome = turn[t].answer /\ me.outcome # "done"
      BY <2>2 DEF Fails, TypeInv, TurnOK, At, Verdicts
    <3> QED
      BY <1>5, <2>2, <3>1
  <2>3. CASE /\ Saves(t, me)
             /\ \E k \in DOMAIN Journal' : /\ Results(t)' = Results(t) \cup {k}
                                           /\ k \notin DOMAIN Journal
                                           /\ Journal'[k].says = "done"
    <3>1. Results(t) = {}
      BY <1>5, <2>3 DEF Saves
    <3>2. \/ me.pc = "over" /\ me.outcome = "done"
          \/ me.pc = "ending" /\ me.answer = "not-recorded"
      BY <2>3 DEF Saves
    <3> QED
      BY <1>2, <2>3, <3>1, <3>2 DEF TurnOK
  <2> QED
    BY <2>1, <2>2, <2>3, ResultsGrow
<1>7. ASSUME NEW u \in Turns
      PROVE  /\ \A k \in Results(u)' :
                  \/ turn'[u].pc = "over"
                  \/ turn'[u].pc = "ending" /\ turn'[u].answer = "not-recorded"
             /\ \A k \in Results(u)' : Journal'[k].says = "done" /\ turn'[u].pc = "over" =>
                  turn'[u].outcome \in {"done", "not-recorded", "crashed"}
             /\ turn'[u].outcome = "done" =>
                  \E k \in Results(u)' : Results(u)' = {k} /\ Journal'[k].says = "done"
  BY <1>1, <1>4, <1>6
<1> QED
  BY <1>7 DEF ResultsInv, At

LEMMA RecoveredStep ==
  ASSUME TypeInv, ReadInv, OpenCallsAreRecovered,
         NEW t \in Turns, NEW me, NEW es, Effect(t, me, es)
  PROVE  OpenCallsAreRecovered'
<1>1. Grown(es)
  BY DEF Effect
<1>2. ASSUME NEW i \in DOMAIN Journal', IsOpen(Journal', i)
      PROVE  i <= session'.through \/ \A k \in i..Len(Journal') : Journal'[k].kind # "run"
  <2>1. session.through \in Nat /\ session.through <= session'.through
    <3>1. session.through \in Nat /\ session.through <= Len(Journal)
      BY DEF TypeInv, SessionT
    <3>2. Len(Journal) \in Nat /\ Len(Journal') \in Nat /\ Len(Journal) <= Len(Journal')
      BY <1>1, GrownDomains
    <3>3. session'.through = session.through \/ session'.through = Len(Journal')
      BY ThroughMoves
    <3> QED
      BY <3>1, <3>2, <3>3
  <2>2. i \in Nat /\ i <= Len(Journal') /\ Len(Journal') \in Nat /\ Len(Journal) \in Nat
        /\ session'.through \in Nat
    <3>1. session'.through \in Nat
      BY DEF Effect, SessionT
    <3> QED
      BY <1>1, <3>1, GrownDomains
  <2>3. CASE ~\E m \in DOMAIN es : es[m].kind = "run"
    <3>1. CASE i \in DOMAIN Journal
      <4>1. IsOpen(Journal, i)
        BY <1>1, <1>2, <3>1, OpenStays, GrownDomains
      <4>2. i <= session.through \/ \A k \in i..Len(Journal) : Journal[k].kind # "run"
        BY <3>1, <4>1 DEF OpenCallsAreRecovered, JournalEnd, Journal
      <4>3. CASE i <= session.through
        BY <2>1, <2>2, <4>3
      <4>4. CASE \A k \in i..Len(Journal) : Journal[k].kind # "run"
        <5>1. ASSUME NEW k \in i..Len(Journal') PROVE Journal'[k].kind # "run"
          <6>1. k \in DOMAIN Journal'
            BY <1>1, <2>2, <3>1, <5>1, GrownDomains
          <6>2. CASE k \in DOMAIN Journal
            <7>1. k \in i..Len(Journal)
              BY <1>1, <5>1, <6>2, <2>2, GrownDomains
            <7> QED
              BY <1>1, <4>4, <6>2, <7>1, GrownDomains
          <6>3. CASE k \notin DOMAIN Journal
            BY <1>1, <2>3, <6>1, <6>3, GrownDomains
          <6> QED
            BY <6>2, <6>3
        <5> QED
          BY <5>1
      <4> QED
        BY <4>2, <4>3, <4>4
    <3>2. CASE i \notin DOMAIN Journal
      <4>1. ASSUME NEW k \in i..Len(Journal') PROVE Journal'[k].kind # "run"
        <5>1. i > Len(Journal)
          BY <1>1, <1>2, <3>2, GrownDomains
        <5>2. k \in DOMAIN Journal' /\ k \notin DOMAIN Journal
          BY <1>1, <2>2, <4>1, <5>1, GrownDomains
        <5> QED
          BY <1>1, <2>3, <5>2, GrownDomains
      <4> QED
        BY <4>1
    <3> QED
      BY <3>1, <3>2
  <2>4. CASE \E m \in DOMAIN es : es[m].kind = "run"
    <3>1. OpensRun(t, me) /\ WritesOpening(t, es)
      <4>1. DOMAIN es = 1..Len(es) /\ Len(es) \in Nat
        BY <1>1, GrownDomains
      <4>2. PICK m \in 1..Len(es) : es[m].kind = "run"
        BY <2>4, <4>1
      <4>3. /\ ~WritesNotes(t, es) /\ Len(es) # 0
            /\ ~WritesCall(t, es)
            /\ \A how : ~WritesEnd(t, es, how)
        <5>1. Len(es) # 0
          BY <4>1, <4>2
        <5>2. ~WritesNotes(t, es)
          BY <4>1, <4>2 DEF WritesNotes
        <5>3. ~WritesCall(t, es)
          <6>1. m = 1 \/ Len(es) # 1
            BY <4>2
          <6> QED
            BY <4>2, <6>1 DEF WritesCall
        <5>4. \A how : ~WritesEnd(t, es, how)
          <6>1. m = 1 \/ m = 2 \/ Len(es) # 2
            BY <4>2
          <6> QED
            BY <4>2, <6>1 DEF WritesEnd
        <5> QED
          BY <5>1, <5>2, <5>3, <5>4
      <4> QED
        BY <4>3 DEF Effect
    <3>2. /\ At(t, "opening") /\ turn[t].end = Len(Journal)
          /\ \A k \in DOMAIN turn[t].closing : k \in DOMAIN es /\ es[k] = turn[t].closing[k]
          /\ \A k \in DOMAIN es : es[k].kind \in {"result", "step", "run"}
      BY <3>1 DEF OpensRun, WritesOpening
    <3>3. i \in DOMAIN Journal /\ IsOpen(Journal, i)
          /\ \A k \in DOMAIN es : ~(es[k].kind = "result" /\ es[k].op = Journal[i].op)
      BY <1>1, <1>2, <3>2, OpenStays
    <3>4. ~(i > session.through)
      BY <3>2, <3>3 DEF ReadInv, At
    <3> QED
      BY <2>1, <2>2, <3>4
  <2> QED
    BY <2>3, <2>4
<1>3. \A i \in DOMAIN Journal' : IsOpen(Journal, i)' <=> IsOpen(Journal', i)
  BY DEF IsOpen
<1> QED
  BY <1>2, <1>3 DEF OpenCallsAreRecovered, JournalEnd, Journal

LEMMA DispatchedStep ==
  ASSUME TypeInv, OpeningsInv, AloneInv, NoDispatchOverOthers,
         NEW t \in Turns, NEW me, NEW es, Effect(t, me, es)
  PROVE  NoDispatchOverOthers'
<1>1. /\ turn'[t] = me /\ \A u \in Turns : u # t => turn'[u] = turn[u]
  BY OthersKept DEF Effect
<1>2. Grown(es) /\ \A k \in DOMAIN es : es[k].by = t
  BY DEF Effect
<1>3. \A i \in DOMAIN Journal : /\ Journal[i].by \in Turns
                                /\ turn'[Journal[i].by].run = turn[Journal[i].by].run
  BY <1>1, ByTurns, Phases DEF OpeningsInv, At, Same
<1>4. ASSUME NEW k \in DOMAIN Journal', Journal'[k].kind = "op", NEW i \in 1..k,
             Journal'[i].kind = "run",
             turn'[Journal'[i].by].run = turn'[Journal'[k].by].run,
             NEW m \in i + 1 .. k
      PROVE  Journal'[m].by = Journal'[k].by
  <2>1. k \in Nat /\ i \in Nat /\ m \in Nat /\ i <= k /\ m <= k /\ i > 0 /\ m > i
    <3>1. k \in 1..Len(Journal') /\ Len(Journal') \in Nat
      BY <1>2, GrownDomains
    <3> QED
      BY <3>1
  <2>2. Journal'[i].kind = "run" /\ turn'[Journal'[i].by].run = turn'[Journal'[k].by].run
    BY <1>4
  <2>3. CASE k \in DOMAIN Journal
    <3>1. /\ i \in DOMAIN Journal /\ m \in DOMAIN Journal /\ Journal'[k] = Journal[k]
          /\ Journal'[i] = Journal[i] /\ Journal'[m] = Journal[m]
      BY <1>2, <2>1, <2>3, GrownDomains
    <3>2. Opens(i, Journal[k].by)
      BY <1>3, <2>2, <2>3, <3>1 DEF Opens
    <3> QED
      BY <1>4, <2>3, <3>1, <3>2 DEF NoDispatchOverOthers
  <2>4. CASE k \notin DOMAIN Journal
    <3>1. k - Len(Journal) \in DOMAIN es /\ Journal'[k] = es[k - Len(Journal)]
      BY <1>2, <2>4, GrownDomains
    <3>2. Calls(t, me) /\ WritesCall(t, es)
      <4> DEFINE n == k - Len(Journal)
      <4>1. n \in 1..Len(es) /\ Len(es) \in Nat /\ es[n].kind = "op"
        BY <1>2, <1>4, <3>1, GrownDomains
      <4> HIDE DEF n
      <4>2. Len(es) # 0
        BY <4>1
      <4>3. ~WritesOpening(t, es) /\ ~WritesNotes(t, es)
        BY <1>2, <4>1, GrownDomains DEF WritesOpening, WritesNotes
      <4>4. \A how : ~WritesEnd(t, es, how)
        <5>1. n = 1 \/ n = 2 \/ Len(es) # 2
          BY <4>1
        <5> QED
          BY <4>1, <5>1 DEF WritesEnd
      <4> QED
        BY <4>2, <4>3, <4>4 DEF Effect
    <3>3. /\ k = Len(Journal) + 1 /\ Journal'[k].by = t /\ me.run = turn[t].run
          /\ Working(turn[t]) /\ ~turn[t].stale /\ turn[t].end = Len(Journal)
          /\ es[1].kind = "op"
      <4>1. Len(es) = 1 /\ k = Len(Journal) + 1
        BY <1>2, <2>1, <3>1, <3>2, GrownDomains DEF WritesCall
      <4> QED
        BY <1>2, <3>1, <3>2, <4>1 DEF Calls, WritesCall, Keeps, Same
    <3>4. i \in DOMAIN Journal /\ Journal'[i] = Journal[i]
      <4>1. i # k
        BY <1>4, <2>2
      <4> QED
        BY <1>2, <2>1, <3>3, <4>1, GrownDomains
    <3>5. Journal[i].kind = "run" /\ turn[Journal[i].by].run = turn[t].run
      BY <1>1, <1>3, <2>2, <3>3, <3>4
    <3>6. session.ids[turn[t].run] = i
      BY <3>4, <3>5 DEF OpeningsInv
    <3>7. CASE m = k
      BY <3>7
    <3>8. CASE m # k
      <4>1. m \in i + 1 .. turn[t].end /\ m \in DOMAIN Journal
        BY <1>2, <2>1, <3>3, <3>8, GrownDomains
      <4>2. Journal[m].by = t
        BY <3>3, <3>6, <4>1 DEF AloneInv
      <4> QED
        BY <1>2, <3>3, <4>1, <4>2, GrownDomains
    <3> QED
      BY <3>7, <3>8
  <2> QED
    BY <2>3, <2>4
<1> QED
  BY <1>4 DEF NoDispatchOverOthers, Opens

-----------------------------------------------------------------------------
(* What holds as long as no commit has failed.                              *)
LEMMA ClosedByAllStep ==
  ASSUME TypeInv, OpeningsInv, ClosedByAll, faults' = 0,
         NEW t \in Turns, NEW me, NEW es, Effect(t, me, es)
  PROVE  ClosedByAll'
<1>1. /\ turn'[t] = me /\ \A u \in Turns : u # t => turn'[u] = turn[u]
  BY OthersKept DEF Effect
<1>2. Grown(es) /\ \A k \in DOMAIN es : es[k].by = t
  BY DEF Effect
<1>3. \A i \in DOMAIN Journal' : IsOpen(Journal, i)' <=> IsOpen(Journal', i)
  BY DEF IsOpen
<1>4. ~At(t, "over") /\ Results(t) = {}
  BY Lives DEF ClosedByAll
<1>5. ASSUME NEW u \in Turns, u # t, turn'[u].pc # "over"
      PROVE  /\ Results(u)' = {}
             /\ \A i \in DOMAIN Journal' : Journal'[i].by = u /\ IsOpen(Journal', i) =>
                  InCall(turn'[u]) /\ Journal'[i].op = <<u, turn'[u].ops>>
  <2>1. turn'[u] = turn[u] /\ Results(u)' = Results(u) /\ ~At(u, "over")
    BY <1>1, <1>5, ResultsGrow DEF At
  <2>2. ASSUME NEW i \in DOMAIN Journal', Journal'[i].by = u, IsOpen(Journal', i)
        PROVE  InCall(turn[u]) /\ Journal'[i].op = ThisOp(u)
    <3>1. i \in DOMAIN Journal /\ IsOpen(Journal, i) /\ Journal'[i] = Journal[i]
      BY <1>2, <1>5, <2>2, OpenStays
    <3> QED
      BY <2>1, <2>2, <3>1 DEF ClosedByAll
  <2> QED
    BY <2>1, <2>2 DEF ClosedByAll, ThisOp
<1>6. ASSUME me.pc # "over"
      PROVE  /\ Results(t)' = {}
             /\ \A i \in DOMAIN Journal' : Journal'[i].by = t /\ IsOpen(Journal', i) =>
                  InCall(me) /\ Journal'[i].op = <<t, me.ops>>
  <2>1. Results(t)' = {}
    <3>1. ~Fails(t, me) /\ ~Saves(t, me)
      BY <1>6 DEF Fails, Saves
    <3> QED
      BY <1>4, <3>1, ResultsGrow
  <2>2. ASSUME NEW i \in DOMAIN Journal, IsOpen(Journal', i), Journal[i].by = t
        PROVE  /\ IsOpen(Journal, i) /\ InCall(turn[t]) /\ Journal[i].op = ThisOp(t)
               /\ \A k \in DOMAIN es : ~(es[k].kind = "result" /\ es[k].op = Journal[i].op)
    <3>1. /\ IsOpen(Journal, i)
          /\ \A k \in DOMAIN es : ~(es[k].kind = "result" /\ es[k].op = Journal[i].op)
      BY <1>2, <2>2, OpenStays, GrownDomains
    <3> QED
      BY <1>4, <2>2, <3>1 DEF ClosedByAll
  <2>3. ASSUME NEW i \in DOMAIN Journal, IsOpen(Journal', i), Journal[i].by = t
        PROVE  InCall(me) /\ Journal[i].op = <<t, me.ops>>
    <3>1. IsOpen(Journal, i) /\ InCall(turn[t]) /\ Journal[i].op = ThisOp(t)
      BY <2>2, <2>3
    <3>2. ~Notes(t, me) \/ ~WritesNotes(t, es)
      BY <2>2, <2>3, <3>1 DEF WritesNotes
    <3>3. Moves(t, me)
      BY <1>6, <3>1, <3>2 DEF Effect, Quiet, Begins, Reads, Plans, OpensRun, Joins, Leaves, Calls,
         Fails, Saves, At, InCall
    <3>4. InCall(me) /\ me.ops = turn[t].ops
      BY <3>1, <3>3 DEF Moves
    <3> QED
      BY <3>1, <3>4 DEF ThisOp
  <2>4. ASSUME NEW i \in DOMAIN Journal', i \notin DOMAIN Journal, Journal'[i].kind = "op"
        PROVE  InCall(me) /\ Journal'[i].op = <<t, me.ops>>
    <3> DEFINE n == i - Len(Journal)
    <3>1. n \in 1..Len(es) /\ Len(es) \in Nat /\ es[n] = Journal'[i]
      BY <1>2, <2>4, GrownDomains
    <3> HIDE DEF n
    <3>2. Calls(t, me) /\ WritesCall(t, es)
      <4>1. Len(es) # 0
        BY <3>1
      <4>2. ~WritesOpening(t, es) /\ ~WritesNotes(t, es)
        BY <1>2, <2>4, <3>1, GrownDomains DEF WritesOpening, WritesNotes
      <4>3. \A how : ~WritesEnd(t, es, how)
        <5>1. n = 1 \/ n = 2 \/ Len(es) # 2
          BY <3>1
        <5> QED
          BY <2>4, <3>1, <5>1 DEF WritesEnd
      <4> QED
        BY <4>1, <4>2, <4>3 DEF Effect
    <3>3. InCall(me) /\ me.ops = turn[t].ops + 1
      BY <3>2 DEF Calls
    <3>4. n = 1 /\ es[1].op = NextOp(t)
      BY <3>1, <3>2 DEF WritesCall
    <3> QED
      BY <3>1, <3>3, <3>4 DEF NextOp
  <2>5. ASSUME NEW i \in DOMAIN Journal', Journal'[i].by = t, IsOpen(Journal', i)
        PROVE  InCall(me) /\ Journal'[i].op = <<t, me.ops>>
    <3>1. CASE i \in DOMAIN Journal
      BY <1>2, <2>3, <2>5, <3>1, GrownDomains
    <3>2. CASE i \notin DOMAIN Journal
      BY <2>4, <2>5, <3>2 DEF IsOpen
    <3> QED
      BY <3>1, <3>2
  <2> QED
    BY <2>1, <2>5
<1>7. ASSUME NEW u \in Turns, turn'[u].pc # "over"
      PROVE  /\ Results(u)' = {}
             /\ \A i \in DOMAIN Journal' : Journal'[i].by = u /\ IsOpen(Journal', i) =>
                  InCall(turn'[u]) /\ Journal'[i].op = <<u, turn'[u].ops>>
  BY <1>1, <1>5, <1>6, <1>7
<1>8. \A u \in Turns : InCall(turn[u])' <=> InCall(turn'[u])
  BY DEF InCall
<1> QED
  BY <1>3, <1>7, <1>8 DEF ClosedByAll, At, ThisOp

LEMMA ClosedAfterStep ==
  ASSUME TypeInv, OpeningsInv, ClosedByAll, ClosedAfter, faults' = 0,
         NEW t \in Turns, NEW me, NEW es, Effect(t, me, es)
  PROVE  ClosedAfter'
<1>1. /\ turn'[t] = me /\ \A u \in Turns : u # t => turn'[u] = turn[u]
  BY OthersKept DEF Effect
<1>2. Grown(es) /\ \A k \in DOMAIN es : es[k].by = t
  BY DEF Effect
<1>3. \A i \in DOMAIN Journal' : IsOpen(Journal, i)' <=> IsOpen(Journal', i)
  BY DEF IsOpen
<1>4. ASSUME NEW u \in Turns, u # t, turn'[u].outcome \in Endings
      PROVE  /\ \E k \in Results(u)' : Results(u)' = {k}
             /\ \A i \in DOMAIN Journal' : Journal'[i].by = u => ~IsOpen(Journal', i)
  <2>1. turn'[u] = turn[u] /\ Results(u)' = Results(u)
    BY <1>1, <1>4, ResultsGrow
  <2>2. ASSUME NEW i \in DOMAIN Journal', Journal'[i].by = u, IsOpen(Journal', i) PROVE FALSE
    <3>1. i \in DOMAIN Journal /\ IsOpen(Journal, i) /\ Journal'[i] = Journal[i]
      BY <1>2, <1>4, <2>2, OpenStays
    <3> QED
      BY <1>4, <2>1, <2>2, <3>1 DEF ClosedAfter
  <2> QED
    BY <1>4, <2>1, <2>2 DEF ClosedAfter
<1>5. ASSUME me.outcome \in Endings
      PROVE  /\ \E k \in Results(t)' : Results(t)' = {k}
             /\ \A i \in DOMAIN Journal' : Journal'[i].by = t => ~IsOpen(Journal', i)
  <2>1. me.pc = "over" /\ me.outcome \notin NotStarted \cup {"crashed"}
    BY <1>5 DEF Effect, TurnOK, Endings, NotStarted
  <2>2. /\ Fails(t, me) \/ (Saves(t, me) /\ At(t, "ending"))
        /\ \E how : WritesEnd(t, es, how)
    BY <2>1 DEF Effect, Quiet, Begins, Reads, Plans, OpensRun, Joins, Leaves, Moves, Calls, Notes,
       Fails, Saves, NotStarted, Working, InCall
  <2>3. At(t, "ending") /\ ~At(t, "over") /\ ~InCall(turn[t])
    BY <2>2 DEF Fails, At, InCall
  <2>4. Results(t) = {}
    BY <2>3 DEF ClosedByAll
  <2>5. \E k \in DOMAIN Journal' : Results(t)' = {k}
    <3>1. ~OpensRun(t, me) /\ ~Calls(t, me) /\ ~Notes(t, me)
      BY <2>1 DEF OpensRun, Calls, Notes, NotStarted, Working, InCall
    <3>2. ~Quiet(t, me)
      BY <2>1 DEF Quiet, Begins, Reads, Plans, Joins, Leaves, Moves, NotStarted, Working, InCall
    <3> QED
      BY <2>4, <3>1, <3>2, ResultsGrow
  <2>6. ASSUME NEW i \in DOMAIN Journal', Journal'[i].by = t, IsOpen(Journal', i) PROVE FALSE
    <3>1. CASE i \in DOMAIN Journal
      <4>1. IsOpen(Journal, i) /\ Journal'[i] = Journal[i]
        BY <1>2, <2>6, <3>1, OpenStays, GrownDomains
      <4> QED
        BY <2>3, <2>6, <3>1, <4>1 DEF ClosedByAll
    <3>2. CASE i \notin DOMAIN Journal
      <4> DEFINE n == i - Len(Journal)
      <4>1. n \in 1..Len(es) /\ es[n].kind = "op"
        BY <1>2, <2>6, <3>2, OpenStays, GrownDomains
      <4> HIDE DEF n
      <4>2. Len(es) = 2
        BY <2>2 DEF WritesEnd
      <4>3. n = 1 \/ n = 2
        BY <4>1, <4>2
      <4> QED
        BY <2>2, <4>1, <4>3 DEF WritesEnd
    <3> QED
      BY <3>1, <3>2
  <2> QED
    BY <2>5, <2>6
<1>6. ASSUME NEW u \in Turns, turn'[u].outcome \in Endings
      PROVE  /\ \E k \in Results(u)' : Results(u)' = {k}
             /\ \A i \in DOMAIN Journal' : Journal'[i].by = u => ~IsOpen(Journal', i)
  BY <1>1, <1>4, <1>5, <1>6
<1> QED
  BY <1>3, <1>6 DEF ClosedAfter

LEMMA ClosedByOthersStep ==
  ASSUME TypeInv, OpeningsInv, OpenCallsAreRecovered, OpenCallsAreRecovered',
         StateCoversClosed, ClosedByOthers, faults' = 0,
         NEW t \in Turns, NEW me, NEW es, Effect(t, me, es)
  PROVE  ClosedByOthers'
<1>1. /\ turn'[t] = me /\ \A u \in Turns : u # t => turn'[u] = turn[u]
  BY OthersKept DEF Effect
<1>2. Grown(es) /\ \A k \in DOMAIN es : es[k].by = t
  BY DEF Effect
<1>3. /\ \A i \in DOMAIN Journal' : IsOpen(Journal, i)' <=> IsOpen(Journal', i)
      /\ \A u \in Turns : Working(turn[u])' <=> Working(turn'[u])
  BY DEF IsOpen, Working
<1>4. /\ \A u \in Turns : turn[u].end \in Nat /\ turn[u].end <= Len(Journal)
      /\ session.through \in Nat /\ session.through <= Len(Journal)
  BY DEF TypeInv, TurnOK, TurnT, SessionT
<1>5. ASSUME NEW u \in Turns, Working(turn[u]), ~turn[u].stale,
             NEW i \in 1..turn[u].end, IsOpen(Journal', i)
      PROVE  Journal'[i].by = u
  <2>1. i \in DOMAIN Journal /\ i \in DOMAIN Journal'
    BY <1>2, <1>4, GrownDomains
  <2>2. IsOpen(Journal, i) /\ Journal'[i] = Journal[i]
    BY <1>2, <1>5, <2>1, OpenStays, GrownDomains
  <2> QED
    BY <1>5, <2>2 DEF ClosedByOthers
<1>6. ASSUME NEW i \in DOMAIN Journal', IsOpen(Journal', i), turn[t].end = Len(Journal),
             Working(turn[t]), ~turn[t].stale
      PROVE  Journal'[i].by = t
  <2>1. CASE i \in DOMAIN Journal
    <3>1. i \in 1..turn[t].end
      BY <1>2, <1>6, <2>1, GrownDomains
    <3> QED
      BY <1>5, <1>6, <3>1
  <2>2. CASE i \notin DOMAIN Journal
    BY <1>2, <2>2, GrownDomains
  <2> QED
    BY <2>1, <2>2
<1>7. ASSUME Working(me), ~me.stale, NEW i \in 1..me.end, IsOpen(Journal', i)
      PROVE  Journal'[i].by = t
  <2>1. me.end \in Nat /\ me.end <= Len(Journal') /\ i \in DOMAIN Journal'
    <3>1. me.end <= Len(Journal') /\ me.end \in Nat
      BY Lives DEF Effect, TurnOK, TurnT
    <3> QED
      BY <1>2, <1>7, <3>1, GrownDomains
  <2>2. CASE Moves(t, me)
    <3>1. Working(turn[t]) /\ ~turn[t].stale /\ i \in 1..turn[t].end
      BY <1>7, <2>2 DEF Moves
    <3> QED
      BY <1>5, <1>7, <3>1
  <2>3. CASE Joins(t, me) /\ session' = session
    <3>1. Journal' = Journal /\ me.end \in DOMAIN Journal /\ Journal[me.end].kind = "run"
      BY <2>3 DEF Joins, OpeningsInv, Journal
    <3>2. IsOpen(Journal, i) /\ i \in DOMAIN Journal
      BY <1>7, <2>1, <3>1
    <3>3. me.end \in i..JournalEnd(session) /\ i > 0 /\ i \in Nat
      BY <1>2, <2>1, <3>1, GrownDomains DEF JournalEnd, Journal
    <3>4. i <= session.through
      BY <3>1, <3>2, <3>3 DEF OpenCallsAreRecovered
    <3>5. i \in 1..session.through
      BY <1>4, <3>3, <3>4
    <3> QED
      BY <3>2, <3>5 DEF StateCoversClosed
  <2>4. CASE OpensRun(t, me) /\ WritesOpening(t, es)
    <3>1. me.end = Len(Journal') /\ session'.through = session.through
      BY <1>7, <2>4 DEF OpensRun, WritesOpening, StateKept, Working
    <3>2. Len(es) \in DOMAIN es /\ es[Len(es)].kind = "run"
      BY <1>2, <2>4, GrownDomains DEF WritesOpening
    <3>3. me.end \in DOMAIN Journal' /\ Journal'[me.end].kind = "run"
      BY <1>2, <3>1, <3>2, GrownDomains
    <3>4. i > 0 /\ i \in Nat /\ i <= Len(Journal') /\ me.end \in i..Len(Journal')
      BY <1>7, <2>1, <3>1
    <3>5. \/ i <= session.through
          \/ \A k \in i..Len(Journal') : Journal'[k].kind # "run"
      <4>1. \A n \in DOMAIN Journal' : IsOpen(Journal', n) =>
              \/ n <= session'.through
              \/ \A k \in n..Len(Journal') : Journal'[k].kind # "run"
        BY DEF OpenCallsAreRecovered, IsOpen, Journal, JournalEnd
      <4> QED
        BY <1>7, <2>1, <3>1, <4>1
    <3>6. i <= session.through
      BY <3>3, <3>4, <3>5
    <3>7. i \in 1..session.through /\ i \in DOMAIN Journal
      BY <1>2, <1>4, <3>4, <3>6, GrownDomains
    <3>8. IsOpen(Journal, i)
      BY <1>2, <1>7, <2>1, <3>7, OpenStays, GrownDomains
    <3> QED
      BY <3>7, <3>8 DEF StateCoversClosed
  <2>5. CASE Calls(t, me) /\ WritesCall(t, es)
    <3>1. turn[t].end = Len(Journal) /\ Working(turn[t]) /\ ~turn[t].stale
      BY <2>5 DEF Calls, WritesCall
    <3> QED
      BY <1>6, <1>7, <2>1, <3>1
  <2>6. CASE Notes(t, me) /\ WritesNotes(t, es)
    <3>1. turn[t].end = Len(Journal) /\ Working(turn[t]) /\ ~turn[t].stale
      BY <1>7, <2>6 DEF Notes, WritesNotes
    <3> QED
      BY <1>6, <1>7, <2>1, <3>1
  <2>7. /\ ~Begins(t, me) /\ ~Reads(t, me) /\ ~Plans(t, me) /\ ~Leaves(t, me)
        /\ ~Fails(t, me) /\ ~Saves(t, me)
    BY <1>7 DEF Working, Begins, Reads, Plans, Leaves, Fails, Saves
  <2> QED
    BY <2>2, <2>3, <2>4, <2>5, <2>6, <2>7 DEF Effect, Quiet
<1>8. ASSUME NEW u \in Turns, Working(turn'[u]), ~turn'[u].stale,
             NEW i \in 1..turn'[u].end, IsOpen(Journal', i)
      PROVE  Journal'[i].by = u
  <2>1. CASE u = t
    BY <1>1, <1>7, <1>8, <2>1
  <2>2. CASE u # t
    <3>1. turn'[u] = turn[u]
      BY <1>1, <2>2
    <3> QED
      BY <1>5, <1>8, <3>1
  <2> QED
    BY <2>1, <2>2
<1>9. \A u \in Turns : Working(turn'[u]) /\ ~turn'[u].stale =>
        \A i \in 1..turn'[u].end : IsOpen(Journal', i) => Journal'[i].by = u
  BY <1>8
<1> QED
  BY <1>9 DEF ClosedByOthers, IsOpen, Working

LEMMA StateCoversStep ==
  ASSUME TypeInv, ClosedByAll, ClosedByOthers, StateCoversClosed, faults' = 0,
         NEW t \in Turns, NEW me, NEW es, Effect(t, me, es)
  PROVE  StateCoversClosed'
<1>1. Grown(es) /\ session.through \in Nat /\ session.through <= Len(Journal)
  BY DEF Effect, TypeInv, SessionT
<1>2. ASSUME session'.through = session.through, NEW i \in 1..session'.through,
             IsOpen(Journal', i)
      PROVE  FALSE
  <2>1. i \in DOMAIN Journal /\ i \in DOMAIN Journal' /\ i \in 1..session.through
    BY <1>1, <1>2, GrownDomains
  <2>2. IsOpen(Journal, i)
    BY <1>1, <1>2, <2>1, OpenStays, GrownDomains
  <2> QED
    BY <2>1, <2>2 DEF StateCoversClosed
<1>3. ASSUME Saves(t, me), session'.through = Len(Journal'), NEW i \in 1..session'.through,
             IsOpen(Journal', i), session'.through # session.through
      PROVE  FALSE
  <2>1. /\ At(t, "ending") /\ ~turn[t].stale /\ Working(turn[t]) /\ ~InCall(turn[t])
        /\ ~At(t, "over")
    BY <1>3 DEF Saves, At, Working, InCall
  <2>2. turn[t].end = Len(Journal) /\ WritesEnd(t, es, "done")
    BY <1>3, <2>1 DEF Effect, Quiet, Begins, Reads, Plans, OpensRun, Joins, Leaves, Moves, Calls,
       Notes, Fails, SavesConversation, StateKept, At
  <2>3. i \in DOMAIN Journal'
    BY <1>1, <1>3, GrownDomains
  <2>4. CASE i \in DOMAIN Journal
    <3>1. IsOpen(Journal, i) /\ i \in 1..turn[t].end
      BY <1>1, <1>3, <2>2, <2>3, <2>4, OpenStays, GrownDomains
    <3>2. Journal[i].by = t
      BY <2>1, <3>1 DEF ClosedByOthers
    <3> QED
      BY <2>1, <2>4, <3>1, <3>2 DEF ClosedByAll
  <2>5. CASE i \notin DOMAIN Journal
    <3> DEFINE n == i - Len(Journal)
    <3>1. n \in 1..Len(es) /\ es[n].kind = "op"
      BY <1>1, <1>3, <2>3, <2>5, OpenStays, GrownDomains
    <3> HIDE DEF n
    <3>2. n = 1 \/ n = 2
      BY <2>2, <3>1 DEF WritesEnd
    <3> QED
      BY <2>2, <3>1, <3>2 DEF WritesEnd
  <2> QED
    BY <2>4, <2>5
<1>4. ASSUME NEW i \in 1..session'.through, IsOpen(Journal', i) PROVE FALSE
  BY <1>2, <1>3, <1>4, ThroughMoves
<1>5. \A i \in 1..session'.through : ~IsOpen(Journal', i)
  BY <1>4
<1> QED
  BY <1>5 DEF StateCoversClosed, IsOpen

-----------------------------------------------------------------------------
LEMMA InitRuns == Init => RunInv
<1> SUFFICES ASSUME Init PROVE RunInv
  OBVIOUS
<1>1. /\ Journal = << >> /\ DOMAIN Journal = {} /\ Len(Journal) = 0
      /\ session.through = 0 /\ session.ids = [i \in {} |-> 0] /\ DOMAIN session.ids = {}
  BY DEF Init, EmptySession, Journal
<1>2. /\ \A t \in Turns : turn[t] = Fresh
      /\ turn \in [Turns -> TurnT]
  BY FreshType DEF Init
<1>3. session \in SessionT
  <2>1. session.ids \in Ids
    <3>1. session.ids \in [{} -> Nat] /\ {} \in SUBSET RunIds
      BY <1>1
    <3> QED
      BY <3>1 DEF Ids
  <2>2. session = [journal |-> << >>, version |-> 0, value |-> << >>, through |-> 0,
                   ids |-> session.ids]
    BY DEF Init, EmptySession
  <2>3. << >> \in Seq(EntryT) /\ << >> \in Seq(Turns)
    OBVIOUS
  <2> QED
    <3> DEFINE ids == session.ids
    <3>1. ids \in Ids /\ session = [journal |-> << >>, version |-> 0, value |-> << >>,
                                   through |-> 0, ids |-> ids]
      BY <2>1, <2>2
    <3> HIDE DEF ids
    <3> QED
      BY <2>3, <3>1 DEF SessionT
<1>4. \A t \in Turns : /\ TurnOK(turn[t]) /\ turn[t].end = 0 /\ turn[t].pc = "new"
                       /\ turn[t].outcome = "none"
  BY <1>2, FreshType, NAssumption DEF TurnOK
<1>5. TypeInv
  BY <1>1, <1>2, <1>3, <1>4, NAssumption DEF TypeInv, Active, Init
<1>6. \A t \in Turns : Results(t) = {} /\ ~Working(turn[t])
  BY <1>1, <1>4 DEF Results, Working
<1>7. JournalInv
  <2>1. OpeningsInv /\ AloneInv
    BY <1>1, <1>6 DEF OpeningsInv, AloneInv
  <2>2. ReadInv /\ ResultsInv
    BY <1>4, <1>6 DEF ReadInv, ResultsInv
  <2>3. OpenCallsAreRecovered /\ NoDispatchOverOthers
    BY <1>1 DEF OpenCallsAreRecovered, NoDispatchOverOthers
  <2> QED
    BY <2>1, <2>2, <2>3 DEF JournalInv
<1>8. ClosedInv
  <2>1. ClosedByAll /\ ClosedByOthers /\ StateCoversClosed
    BY <1>1, <1>6 DEF ClosedByAll, ClosedByOthers, StateCoversClosed
  <2>2. ClosedAfter
    BY <1>4 DEF ClosedAfter, Endings
  <2> QED
    BY <2>1, <2>2 DEF ClosedInv
<1> QED
  BY <1>5, <1>7, <1>8 DEF RunInv

(* Every step is one of a turn, or changes nothing. *)
LEMMA NextEffects ==
  ASSUME TypeInv, JournalInv, Next
  PROVE  \E t \in Turns : \E me, es : Effect(t, me, es)
<1>1. PICK t \in Turns, me \in TurnT : Steps(t, me)
  BY StepKinds
<1> QED
  BY <1>1, Effects DEF JournalInv

LEMMA EffectRuns ==
  ASSUME RunInv, NEW t \in Turns, NEW me, NEW es, Effect(t, me, es)
  PROVE  RunInv'
<1>1. /\ TypeInv /\ OpeningsInv /\ AloneInv /\ ReadInv /\ ResultsInv
      /\ OpenCallsAreRecovered /\ NoDispatchOverOthers /\ ClosedInv
  BY DEF RunInv, JournalInv
<1>2. TypeInv'
  BY <1>1, TypeStep
<1>3. OpeningsInv'
  BY <1>1, OpeningsStep
<1>4. AloneInv'
  BY <1>1, AloneStep
<1>5. ReadInv'
  BY <1>1, ReadStep
<1>6. ResultsInv'
  BY <1>1, ResultsStep
<1>7. OpenCallsAreRecovered'
  BY <1>1, RecoveredStep
<1>8. NoDispatchOverOthers'
  BY <1>1, DispatchedStep
<1>9. ASSUME faults' = 0
      PROVE  (ClosedByAll /\ ClosedAfter /\ ClosedByOthers /\ StateCoversClosed)'
  <2>1. faults = 0
    BY <1>1, <1>9, NAssumption DEF TypeInv, Effect
  <2>2. ClosedByAll /\ ClosedAfter /\ ClosedByOthers /\ StateCoversClosed
    BY <1>1, <2>1 DEF ClosedInv
  <2>3. ClosedByAll'
    BY <1>1, <1>9, <2>2, ClosedByAllStep
  <2>4. ClosedAfter'
    BY <1>1, <1>9, <2>2, ClosedAfterStep
  <2>5. ClosedByOthers'
    BY <1>1, <1>7, <1>9, <2>2, ClosedByOthersStep
  <2>6. StateCoversClosed'
    BY <1>1, <1>9, <2>2, StateCoversStep
  <2> QED
    BY <2>3, <2>4, <2>5, <2>6
<1>10. JournalInv'
  BY <1>3, <1>4, <1>5, <1>6, <1>7, <1>8 DEF JournalInv
<1>11. ClosedInv'
  BY <1>9 DEF ClosedInv
<1> QED
  BY <1>2, <1>10, <1>11 DEF RunInv

LEMMA StutterRuns == RunInv /\ UNCHANGED vars => RunInv'
<1> SUFFICES ASSUME RunInv, UNCHANGED vars PROVE RunInv'
  OBVIOUS
<1>1. UNCHANGED <<session, running, turn, faults, crashes, Journal>>
  BY DEF vars, Journal
<1>2. /\ \A t \in Turns : Results(t)' = Results(t) /\ ThisOp(t)' = ThisOp(t)
      /\ \A i \in DOMAIN Journal : IsOpen(Journal, i)' <=> IsOpen(Journal, i)
  BY <1>1 DEF Results, ThisOp, IsOpen
<1>3. TypeInv'
  BY <1>1 DEF RunInv, TypeInv, Active
<1>4. JournalInv'
  <2>1. OpeningsInv' /\ AloneInv'
    BY <1>1 DEF RunInv, JournalInv, OpeningsInv, AloneInv, Working
  <2>2. ReadInv' /\ ResultsInv'
    BY <1>1 DEF RunInv, JournalInv, ReadInv, ResultsInv, IsOpen, Results, At
  <2>3. OpenCallsAreRecovered' /\ NoDispatchOverOthers'
    BY <1>1 DEF RunInv, JournalInv, OpenCallsAreRecovered, NoDispatchOverOthers, Opens, IsOpen,
       JournalEnd
  <2> QED
    BY <2>1, <2>2, <2>3 DEF JournalInv
<1>5. ClosedInv'
  BY <1>1 DEF RunInv, ClosedInv, ClosedByAll, ClosedAfter, ClosedByOthers, StateCoversClosed,
     At, Results, IsOpen, InCall, ThisOp, Working
<1> QED
  BY <1>3, <1>4, <1>5 DEF RunInv

LEMMA RunsInvariant == Spec => []RunInv
<1>1. ASSUME RunInv, [Next]_vars PROVE RunInv'
  <2>1. CASE Next
    <3>1. TypeInv /\ JournalInv
      BY <1>1 DEF RunInv
    <3>2. PICK t \in Turns : \E me, es : Effect(t, me, es)
      BY <2>1, <3>1, NextEffects
    <3>3. PICK me, es : Effect(t, me, es)
      BY <3>2
    <3> QED
      BY <1>1, <3>3, EffectRuns
  <2> QED
    BY <1>1, <2>1, StutterRuns
<1> QED
  BY <1>1, InitRuns, PTL DEF Spec

(* "Nothing is dispatched over another writer's entries" (Journal): from   *)
(* the entry that opens a run to every call it journals, all entries are   *)
(* its own, however many runs share the session, whichever instances crash *)
(* and whichever commits fail.                                             *)
THEOREM NothingIsDispatchedOver == Spec => []NoDispatchOverOthers
<1>1. RunInv => NoDispatchOverOthers
  BY DEF RunInv, JournalInv
<1> QED
  BY <1>1, RunsInvariant, PTL

(* recover leaves nothing of an earlier run open: a call without a result  *)
(* is of the run that opened last, or the state covers it, even where      *)
(* commits fail after they were applied.                                   *)
THEOREM CallsAreRecovered == Spec => []OpenCallsAreRecovered
<1>1. RunInv => OpenCallsAreRecovered
  BY DEF RunInv, JournalInv
<1> QED
  BY <1>1, RunsInvariant, PTL

LEMMA TypesOfRuns ==
  ASSUME RunInv
  PROVE  TypeOK
<1>1. TypeInv
  BY DEF RunInv
<1>2. ASSUME NEW t \in Turns
      PROVE  /\ turn[t].pc \in PCs
             /\ turn[t].outcome \in {"none", "crashed"} \cup NotStarted \cup Endings
             /\ turn[t].outcome # "none" <=> turn[t].pc = "over"
             /\ turn[t].end \in 0..JournalEnd(session)
             /\ turn[t].calls \in 0..MaxCalls
             /\ turn[t].pc \in {"tools", "tool", "returned"} => turn[t].calls > 0
  <2>1. TurnOK(turn[t]) /\ turn[t].end <= Len(Journal) /\ Len(Journal) \in Nat
    <3>1. Journal \in Seq(EntryT)
      BY <1>1 DEF TypeInv, SessionT, Journal
    <3> QED
      BY <1>1, <3>1 DEF TypeInv
  <2> QED
    BY <2>1, NAssumption DEF TurnOK, TurnT, Journal, JournalEnd
<1>3. ASSUME NEW t \in Turns
      PROVE  running[turn[t].inst] = \E o \in Turns : Active(o) /\ turn[o].inst = turn[t].inst
  <2>1. turn[t].inst \in Instances
    BY <1>1 DEF TypeInv, TurnT
  <2>2. running[turn[t].inst] \in BOOLEAN
    BY <1>1, <2>1 DEF TypeInv
  <2>3. running[turn[t].inst] <=> \E o \in Turns : Active(o) /\ turn[o].inst = turn[t].inst
    BY <1>1, <2>1 DEF TypeInv
  <2> QED
    BY <2>2, <2>3
<1> QED
  BY <1>1, <1>2, <1>3 DEF TypeOK, TypeInv, Journal, JournalEnd

LEMMA OpenedOnceHolds ==
  ASSUME RunInv
  PROVE  OpenedOnce
<1> SUFFICES ASSUME NEW t \in Turns
             PROVE  Cardinality({i \in DOMAIN Journal : Opens(i, t)}) <= 1
  BY DEF OpenedOnce
<1> DEFINE S == {i \in DOMAIN Journal : Opens(i, t)}
<1>1. ASSUME NEW i \in S PROVE session.ids[turn[t].run] = i
  BY <1>1 DEF RunInv, JournalInv, OpeningsInv, Opens
<1>2. S = {} \/ S = {session.ids[turn[t].run]}
  BY <1>1
<1>3. Cardinality({}) = 0 /\ Cardinality({session.ids[turn[t].run]}) = 1
  BY FS_EmptySet, FS_Singleton
<1>4. Cardinality(S) <= 1
  <2> HIDE DEF S
  <2> QED
    BY <1>2, <1>3
<1> QED
  BY <1>4

LEMMA JournalTellsTruthHolds ==
  ASSUME RunInv
  PROVE  JournalTellsTruth
<1> SUFFICES ASSUME NEW t \in Turns, turn[t].outcome \in Endings
             PROVE  /\ turn[t].outcome = "done" =>
                         /\ \E i \in Results(t) : Journal[i].says = "done"
                         /\ Cardinality(Results(t)) = 1
                    /\ (\E i \in Results(t) : Journal[i].says = "done") =>
                         turn[t].outcome \in {"done", "not-recorded"}
  BY DEF JournalTellsTruth
<1>1. At(t, "over") /\ turn[t].outcome # "crashed"
  BY DEF RunInv, TypeInv, TurnOK, Endings, At
<1>2. ASSUME turn[t].outcome = "done"
      PROVE  /\ \E i \in Results(t) : Journal[i].says = "done"
             /\ Cardinality(Results(t)) = 1
  <2>1. PICK k \in Results(t) : Results(t) = {k} /\ Journal[k].says = "done"
    BY <1>2 DEF RunInv, JournalInv, ResultsInv
  <2>2. Cardinality({k}) = 1
    BY FS_Singleton
  <2> QED
    BY <2>1, <2>2
<1>3. ASSUME NEW i \in Results(t), Journal[i].says = "done"
      PROVE  turn[t].outcome \in {"done", "not-recorded"}
  BY <1>1, <1>3 DEF RunInv, JournalInv, ResultsInv
<1> QED
  BY <1>2, <1>3

(* Each run id opens once however often and wherever it is delivered; the   *)
(* driver hears `done' of a run exactly if the journal says so, unless the *)
(* reply of its last commit was lost; and an instance is held by the one   *)
(* turn that is active in it.                                              *)
THEOREM JournalStaysTrue == Spec => []JournalIsTrue
<1>1. RunInv => JournalIsTrue
  BY TypesOfRuns, OpenedOnceHolds, JournalTellsTruthHolds DEF JournalIsTrue
<1> QED
  BY <1>1, RunsInvariant, PTL

LEMMA ClosedHolds ==
  ASSUME RunInv, faults = 0
  PROVE  CallsAreClosed /\ StateCoversClosed
<1>1. OpenCallsAreRecovered /\ ClosedAfter /\ StateCoversClosed
  BY DEF RunInv, JournalInv, ClosedInv
<1>2. ASSUME NEW t \in Turns, turn[t].outcome \in Endings
      PROVE  /\ Cardinality(Results(t)) = 1
             /\ \A i \in DOMAIN Journal : Journal[i].by = t => ~IsOpen(Journal, i)
  <2>1. PICK k \in Results(t) : Results(t) = {k}
    BY <1>1, <1>2 DEF ClosedAfter
  <2>2. Cardinality({k}) = 1
    BY FS_Singleton
  <2> QED
    BY <1>1, <1>2, <2>1, <2>2 DEF ClosedAfter
<1> QED
  BY <1>1, <1>2 DEF CallsAreClosed, EndedRunsAreClosed

(* A run that ended and did not crash has one result in the journal and one *)
(* for each of its calls, and none of an earlier run is left open, as long *)
(* as no commit has failed: record does not repeat one that did.           *)
THEOREM CallsStayClosed == Spec => [](faults = 0 => CallsAreClosed)
<1>1. RunInv => (faults = 0 => CallsAreClosed)
  BY ClosedHolds
<1> QED
  BY <1>1, RunsInvariant, PTL

(* "Never advance state past an unresolved op" (session.wit) holds as long  *)
(* as no commit has failed: only a result that could not be recorded lets   *)
(* save move the state past its call.                                       *)
THEOREM StateStaysBehind == Spec => [](faults = 0 => StateCoversClosed)
<1>1. RunInv => (faults = 0 => StateCoversClosed)
  BY ClosedHolds
<1> QED
  BY <1>1, RunsInvariant, PTL

-----------------------------------------------------------------------------
(***************************************************************************)
(* What a session keeps of its runs: the stored conversation, and the      *)
(* serial ledger that the runs implement.                                  *)
(***************************************************************************)

(***************************************************************************)
(* The turns that ended `done' by an entry of the journal.                 *)
(***************************************************************************)
LEMMA DoneExists ==
  ASSUME NEW j, NEW n \in Nat
  PROVE  \E f : /\ DoneRuns(j, n) = f[n] /\ f[0] = << >>
                /\ \A k \in 1..n : f[k] = IF IsDone(j[k]) THEN Append(f[k - 1], j[k].by)
                                          ELSE f[k - 1]
<1> DEFINE D(g, k) == IF k = 0 THEN << >>
                      ELSE IF IsDone(j[k]) THEN Append(g[k - 1], j[k].by) ELSE g[k - 1]
           IsF(g, m) == g = [k \in 0..m |-> D(g, k)]
           E == {m \in Nat : \E g : IsF(g, m)}
           f == CHOOSE g : IsF(g, n)
<1>1. 0 \in E
  <2> DEFINE h == [k \in 0..0 |-> << >>]
  <2>1. \A k \in 0..0 : D(h, k) = << >>
    OBVIOUS
  <2> HIDE DEF D
  <2>2. h = [k \in 0..0 |-> D(h, k)]
    BY <2>1
  <2> QED
    BY <2>2
<1>2. ASSUME NEW m \in Nat, NEW g, IsF(g, m) PROVE \E h : IsF(h, m + 1)
  <2> DEFINE h == [k \in 0..m + 1 |-> IF k \in 0..m THEN g[k] ELSE D(g, m + 1)]
  <2>1. \A k \in 0..m : h[k] = g[k]
    OBVIOUS
  <2>2. \A k \in 0..m + 1 : D(g, k) = D(h, k)
    <3>1. \A k \in 0..m + 1 : k = 0 \/ h[k - 1] = g[k - 1]
      BY <2>1
    <3> HIDE DEF h
    <3> QED
      BY <3>1
  <2>3. \A k \in 0..m : g[k] = D(g, k)
    BY <1>2
  <2>4. h[m + 1] = D(g, m + 1)
    OBVIOUS
  <2>5. h = [k \in 0..m + 1 |-> h[k]]
    OBVIOUS
  <2> HIDE DEF h, D
  <2>6. \A k \in 0..m + 1 : h[k] = D(h, k)
    <3>1. \A k \in 0..m + 1 : k \in 0..m \/ k = m + 1
      OBVIOUS
    <3> QED
      BY <2>1, <2>2, <2>3, <2>4, <3>1
  <2>7. h = [k \in 0..m + 1 |-> D(h, k)]
    BY <2>5, <2>6
  <2> QED
    BY <2>7
<1>3. E = Nat
  <2>1. \A m \in E : m + 1 \in E
    <3> HIDE DEF IsF
    <3> QED
      BY <1>2
  <2>2. E \in SUBSET Nat
    OBVIOUS
  <2> HIDE DEF E
  <2> QED
    BY <1>1, <2>1, <2>2, Inductive
<1>4. IsF(f, n)
  <2> HIDE DEF IsF
  <2>1. \A m \in Nat : \E g : IsF(g, m)
    BY <1>3
  <2> QED
    BY <2>1
<1>5. DoneRuns(j, n) = f[n]
  BY DEF DoneRuns
<1> HIDE DEF f
<1>6. \A k \in 0..n : f[k] = D(f, k)
  BY <1>4
<1>7. f[0] = << >> /\ \A k \in 1..n : k \in 0..n /\ k # 0
  BY <1>6
<1> QED
  BY <1>5, <1>6, <1>7

LEMMA DoneSteps ==
  ASSUME NEW j, NEW n \in Nat
  PROVE  /\ DoneRuns(j, 0) = << >>
         /\ DoneRuns(j, n + 1) = IF IsDone(j[n + 1]) THEN Append(DoneRuns(j, n), j[n + 1].by)
                                 ELSE DoneRuns(j, n)
<1> DEFINE D(g, k) == IF IsDone(j[k]) THEN Append(g[k - 1], j[k].by) ELSE g[k - 1]
<1>1. DoneRuns(j, 0) = << >>
  BY DoneExists
<1>2. PICK f : /\ DoneRuns(j, n) = f[n] /\ f[0] = << >>
               /\ \A k \in 1..n : f[k] = D(f, k)
  BY DoneExists
<1>3. PICK g : /\ DoneRuns(j, n + 1) = g[n + 1] /\ g[0] = << >>
               /\ \A k \in 1..n + 1 : g[k] = D(g, k)
  BY DoneExists
<1> DEFINE P == {k \in Nat : k <= n => f[k] = g[k]}
<1>4. 0 \in P
  BY <1>2, <1>3
<1>5. ASSUME NEW k \in P PROVE k + 1 \in P
  <2>1. CASE k + 1 <= n
    <3>1. k \in Nat /\ k <= n /\ k + 1 \in 1..n /\ k + 1 \in 1..n + 1 /\ (k + 1) - 1 = k
      BY <2>1
    <3>2. f[k] = g[k]
      BY <3>1
    <3>3. D(f, k + 1) = D(g, k + 1)
      BY <3>1, <3>2
    <3> HIDE DEF D
    <3> QED
      BY <1>2, <1>3, <3>1, <3>3
  <2>2. CASE ~(k + 1 <= n)
    BY <2>2
  <2> QED
    BY <2>1, <2>2
<1>6. P = Nat
  <2>1. P \in SUBSET Nat
    OBVIOUS
  <2> HIDE DEF P
  <2> QED
    BY <1>4, <1>5, <2>1, Inductive
<1>7. f[n] = g[n]
  <2>1. n \in P /\ n <= n
    BY <1>6
  <2> QED
    BY <2>1
<1>8. g[n + 1] = D(g, n + 1) /\ (n + 1) - 1 = n
  BY <1>3
<1> QED
  BY <1>1, <1>2, <1>3, <1>7, <1>8

LEMMA DoneType ==
  ASSUME NEW j \in Seq(EntryT), NEW n \in 0..Len(j)
  PROVE  DoneRuns(j, n) \in Seq(Turns)
<1> DEFINE P == {k \in Nat : k <= Len(j) => DoneRuns(j, k) \in Seq(Turns)}
<1>1. 0 \in P
  <2>1. DoneRuns(j, 0) = << >>
    BY DoneSteps
  <2>2. << >> \in Seq(Turns)
    OBVIOUS
  <2> QED
    BY <2>1, <2>2
<1>2. ASSUME NEW k \in P PROVE k + 1 \in P
  <2>1. CASE k + 1 <= Len(j)
    <3>1. k \in Nat /\ k <= Len(j) /\ k + 1 \in 1..Len(j)
      BY <2>1
    <3>2. DoneRuns(j, k) \in Seq(Turns) /\ j[k + 1] \in EntryT
      BY <3>1
    <3>3. j[k + 1].by \in Turns
      BY <3>2 DEF EntryT
    <3>4. DoneRuns(j, k + 1) \in {DoneRuns(j, k), Append(DoneRuns(j, k), j[k + 1].by)}
      BY <3>1, DoneSteps
    <3>5. Append(DoneRuns(j, k), j[k + 1].by) \in Seq(Turns)
      BY <3>2, <3>3
    <3>6. DoneRuns(j, k + 1) \in Seq(Turns)
      BY <3>2, <3>4, <3>5
    <3> QED
      BY <3>1, <3>6
  <2>2. CASE ~(k + 1 <= Len(j))
    BY <2>2
  <2> QED
    BY <2>1, <2>2
<1>3. P = Nat
  <2>1. P \in SUBSET Nat
    OBVIOUS
  <2> HIDE DEF P
  <2> QED
    BY <1>1, <1>2, <2>1, Inductive
<1> QED
  BY <1>3

LEMMA DonePrefix ==
  ASSUME NEW i, NEW j, NEW n \in Nat, \A k \in 1..n : i[k] = j[k]
  PROVE  DoneRuns(i, n) = DoneRuns(j, n)
<1> DEFINE P == {k \in Nat : k <= n => DoneRuns(i, k) = DoneRuns(j, k)}
<1>1. 0 \in P
  BY DoneSteps
<1>2. ASSUME NEW k \in P PROVE k + 1 \in P
  <2>1. CASE k + 1 <= n
    <3>1. k \in Nat /\ k <= n /\ k + 1 \in 1..n
      BY <2>1
    <3>2. DoneRuns(i, k) = DoneRuns(j, k) /\ i[k + 1] = j[k + 1]
      BY <3>1
    <3> QED
      BY <3>1, <3>2, DoneSteps
  <2>2. CASE ~(k + 1 <= n)
    BY <2>2
  <2> QED
    BY <2>1, <2>2
<1>3. P = Nat
  <2>1. P \in SUBSET Nat
    OBVIOUS
  <2> HIDE DEF P
  <2> QED
    BY <1>1, <1>2, <2>1, Inductive
<1> QED
  BY <1>3

(* What is done only grows, and by nothing where nobody ends `done'. *)
LEMMA DoneGrows ==
  ASSUME NEW j \in Seq(EntryT), NEW n \in 0..Len(j), NEW m \in n..Len(j)
  PROVE  /\ Len(DoneRuns(j, n)) <= Len(DoneRuns(j, m))
         /\ (\A k \in n + 1..m : ~IsDone(j[k])) => DoneRuns(j, m) = DoneRuns(j, n)
<1> DEFINE Q(k) == /\ Len(DoneRuns(j, n)) <= Len(DoneRuns(j, k))
                   /\ (\A l \in n + 1..k : ~IsDone(j[l])) => DoneRuns(j, k) = DoneRuns(j, n)
           P == {k \in Nat : n + k <= m => Q(n + k)}
<1>1. n \in Nat /\ m \in Nat /\ Len(j) \in Nat /\ m <= Len(j) /\ n <= m
  OBVIOUS
<1>2. 0 \in P
  <2>1. DoneRuns(j, n) \in Seq(Turns) /\ n + 0 = n
    BY DoneType
  <2>2. Len(DoneRuns(j, n)) \in Nat
    BY <2>1
  <2> QED
    BY <2>1, <2>2
<1>3. ASSUME NEW k \in P PROVE k + 1 \in P
  <2>1. CASE n + (k + 1) <= m
    <3> DEFINE l == n + k
    <3>1. l \in Nat /\ l + 1 = n + (k + 1) /\ l <= m /\ l + 1 <= m /\ l \in 0..Len(j) /\ n <= l
          /\ l + 1 \in 1..Len(j) /\ k \in Nat
      BY <1>1, <2>1
    <3>2. Q(l)
      BY <3>1
    <3> HIDE DEF l
    <3>3. DoneRuns(j, l) \in Seq(Turns) /\ DoneRuns(j, n) \in Seq(Turns) /\ j[l + 1] \in EntryT
      BY <3>1, DoneType
    <3>4. Len(DoneRuns(j, l)) \in Nat /\ Len(DoneRuns(j, n)) \in Nat
      BY <3>3
    <3>5. CASE IsDone(j[l + 1])
      <4>1. DoneRuns(j, l + 1) = Append(DoneRuns(j, l), j[l + 1].by)
        BY <3>1, <3>5, DoneSteps
      <4>2. Len(DoneRuns(j, l + 1)) = Len(DoneRuns(j, l)) + 1
        BY <3>3, <4>1
      <4>3. l + 1 \in n + 1..l + 1
        BY <1>1, <3>1
      <4> QED
        BY <3>1, <3>2, <3>4, <3>5, <4>2, <4>3
    <3>6. CASE ~IsDone(j[l + 1])
      <4>1. DoneRuns(j, l + 1) = DoneRuns(j, l)
        BY <3>1, <3>6, DoneSteps
      <4>2. \A i \in n + 1..l : i \in n + 1..l + 1
        BY <1>1, <3>1
      <4> QED
        BY <3>1, <3>2, <3>4, <4>1, <4>2
    <3> QED
      BY <3>5, <3>6
  <2>2. CASE ~(n + (k + 1) <= m)
    BY <2>2
  <2> QED
    BY <2>1, <2>2
<1>4. P = Nat
  <2>1. P \in SUBSET Nat
    OBVIOUS
  <2> HIDE DEF P
  <2> QED
    BY <1>2, <1>3, <2>1, Inductive
<1>5. m - n \in Nat /\ n + (m - n) = m /\ m <= m
  BY <1>1
<1>6. m - n \in P
  <2> HIDE DEF P
  <2> QED
    BY <1>4, <1>5
<1>7. Q(m)
  <2> HIDE DEF Q
  <2>1. n + (m - n) <= m => Q(n + (m - n))
    BY <1>6
  <2> QED
    BY <1>5, <2>1
<1> QED
  BY <1>7

(***************************************************************************)
(* The newest elements of a sequence.                                      *)
(***************************************************************************)
LEMMA NewestIs ==
  ASSUME NEW S, NEW s \in Seq(S), NEW n \in 0..Len(s)
  PROVE  Newest(s, n) = [i \in 1..n |-> s[Len(s) - n + i]]
<1>1. CASE Len(s) <= n
  <2>1. n = Len(s)
    BY <1>1
  <2>2. s = [i \in 1..Len(s) |-> s[i]]
    OBVIOUS
  <2>3. \A i \in 1..n : Len(s) - n + i = i
    BY <2>1
  <2>4. [i \in 1..n |-> s[Len(s) - n + i]] = [i \in 1..n |-> s[i]]
    BY <2>3
  <2> QED
    BY <1>1, <2>1, <2>2, <2>4 DEF Newest
<1>2. CASE ~(Len(s) <= n)
  <2> DEFINE a == Len(s) - n + 1
             b == Len(s)
  <2>1. a \in Nat /\ b \in Nat /\ n \in Nat /\ b - a + 1 = n
    OBVIOUS
  <2>2. SubSeq(s, a, b) = [i \in 1..n |-> s[i + a - 1]]
    <3>1. SubSeq(s, a, b) = [i \in 1..(b - a + 1) |-> s[i + a - 1]]
      OBVIOUS
    <3> QED
      BY <2>1, <3>1
  <2>3. \A i \in 1..n : i + a - 1 = Len(s) - n + i
    OBVIOUS
  <2>4. Newest(s, n) = SubSeq(s, a, b)
    BY <1>2 DEF Newest
  <2> HIDE DEF a, b
  <2>5. [i \in 1..n |-> s[i + a - 1]] = [i \in 1..n |-> s[Len(s) - n + i]]
    BY <2>3
  <2> QED
    BY <2>2, <2>4, <2>5
<1> QED
  BY <1>1, <1>2

LEMMA NewestSeq ==
  ASSUME NEW S, NEW s \in Seq(S), NEW n \in 0..Len(s)
  PROVE  /\ Newest(s, n) \in Seq(S) /\ Len(Newest(s, n)) = n
         /\ \A i \in 1..n : Newest(s, n)[i] = s[Len(s) - n + i]
<1> DEFINE q == [i \in 1..n |-> s[Len(s) - n + i]]
<1>1. Newest(s, n) = q
  BY NewestIs
<1>2. n \in Nat /\ \A i \in 1..n : Len(s) - n + i \in 1..Len(s)
  OBVIOUS
<1>3. \A i \in 1..n : s[Len(s) - n + i] \in S
  BY <1>2
<1>4. q \in Seq(S) /\ Len(q) = n
  BY <1>2, <1>3
<1> QED
  BY <1>1, <1>4

LEMMA NewestNewest ==
  ASSUME NEW S, NEW s \in Seq(S), NEW n \in 0..Len(s), NEW m \in 0..n
  PROVE  Newest(Newest(s, n), m) = Newest(s, m)
<1> DEFINE q == Newest(s, n)
<1>1. q \in Seq(S) /\ Len(q) = n /\ \A i \in 1..n : q[i] = s[Len(s) - n + i]
  BY NewestSeq
<1> HIDE DEF q
<1>2. m \in 0..Len(q) /\ m \in 0..Len(s)
  BY <1>1
<1>3. Newest(q, m) = [i \in 1..m |-> q[Len(q) - m + i]]
  BY <1>1, <1>2, NewestIs
<1>4. Newest(s, m) = [i \in 1..m |-> s[Len(s) - m + i]]
  BY <1>2, NewestIs
<1>5. ASSUME NEW i \in 1..m PROVE q[Len(q) - m + i] = s[Len(s) - m + i]
  <2>1. n - m + i \in 1..n /\ Len(s) - n + (n - m + i) = Len(s) - m + i
    BY <1>1
  <2> QED
    BY <1>1, <2>1
<1> QED
  BY <1>3, <1>4, <1>5 DEF q

LEMMA NewestAppend ==
  ASSUME NEW S, NEW s \in Seq(S), NEW n \in 0..Len(s), NEW x \in S
  PROVE  /\ Append(Newest(s, n), x) = Newest(Append(s, x), n + 1)
         /\ Append(s, x) \in Seq(S) /\ n + 1 \in 0..Len(Append(s, x))
<1> DEFINE q == Newest(s, n)
           a == Append(q, x)
           b == Append(s, x)
<1>1. q \in Seq(S) /\ Len(q) = n /\ \A i \in 1..n : q[i] = s[Len(s) - n + i]
  BY NewestSeq
<1> HIDE DEF q
<1>2. a \in Seq(S) /\ Len(a) = n + 1 /\ a[n + 1] = x /\ \A i \in 1..n : a[i] = q[i]
  BY <1>1
<1>3. b \in Seq(S) /\ Len(b) = Len(s) + 1 /\ b[Len(s) + 1] = x /\ \A i \in 1..Len(s) : b[i] = s[i]
  OBVIOUS
<1> HIDE DEF a, b
<1>4. n + 1 \in 0..Len(b)
  BY <1>3
<1>5. Newest(b, n + 1) = [i \in 1..n + 1 |-> b[Len(b) - (n + 1) + i]]
  BY <1>3, <1>4, NewestIs
<1>6. ASSUME NEW i \in 1..n + 1 PROVE a[i] = b[Len(b) - (n + 1) + i]
  <2>1. CASE i = n + 1
    <3>1. Len(b) - (n + 1) + i = Len(s) + 1
      BY <1>3, <2>1
    <3> QED
      BY <1>2, <1>3, <2>1, <3>1
  <2>2. CASE i # n + 1
    <3>1. i \in 1..n /\ Len(b) - (n + 1) + i = Len(s) - n + i /\ Len(s) - n + i \in 1..Len(s)
      BY <1>3, <2>2
    <3> QED
      BY <1>1, <1>2, <1>3, <3>1
  <2> QED
    BY <2>1, <2>2
<1>7. a = [i \in 1..n + 1 |-> a[i]]
  BY <1>2
<1>8. a = Newest(b, n + 1)
  BY <1>5, <1>6, <1>7
<1> QED
  BY <1>3, <1>4, <1>8 DEF a, b, q

-----------------------------------------------------------------------------
Done == DoneRuns(Journal, Len(Journal))

Reading(me) == me.pc \notin {"new", "accepting", "over"}

(* What a turn works with is the end of the conversation it read.           *)
KeptOK(me) ==
  me.kept = Newest(me.snap.value, Len(me.kept)) /\ Len(me.kept) <= Len(me.snap.value)

(* As long as the version a turn has read is the session's, nothing was     *)
(* saved since.                                                             *)
SnapOK(me) ==
  /\ me.snap.version <= session.version /\ me.snap.end <= Len(Journal)
  /\ me.snap.version = session.version =>
       /\ me.snap.value = session.value
       /\ \A k \in DOMAIN Journal : IsDone(Journal[k]) => k <= me.snap.end

HistoryInv ==
  /\ \A k \in DOMAIN Journal : IsDone(Journal[k]) => k <= session.through
  /\ session.value = Newest(Done, Len(session.value)) /\ Len(session.value) <= Len(Done)
  /\ \A t \in Turns : Reading(turn[t]) => KeptOK(turn[t]) /\ SnapOK(turn[t])

LEMMA SessionTypes ==
  ASSUME TypeInv
  PROVE  /\ Journal \in Seq(EntryT) /\ session.value \in Seq(Turns)
         /\ session.version \in Nat /\ session.through \in Nat
         /\ Len(Journal) \in Nat /\ Len(session.value) \in Nat
         /\ Done \in Seq(Turns) /\ Len(Done) \in Nat
         /\ \A t \in Turns : /\ turn[t].kept \in Seq(Turns) /\ Len(turn[t].kept) \in Nat
                             /\ turn[t].snap.value \in Seq(Turns) /\ turn[t].snap.version \in Nat
                             /\ Len(turn[t].snap.value) \in Nat /\ turn[t].snap.end \in Nat
<1>1. /\ Journal \in Seq(EntryT) /\ session.value \in Seq(Turns)
      /\ session.version \in Nat /\ session.through \in Nat
  BY DEF TypeInv, SessionT, Journal
<1>2. Len(Journal) \in Nat /\ Len(session.value) \in Nat
  BY <1>1
<1>3. Done \in Seq(Turns)
  <2>1. Len(Journal) \in 0..Len(Journal)
    BY <1>2
  <2> QED
    BY <1>1, <2>1, DoneType DEF Done
<1>4. Len(Done) \in Nat
  BY <1>3
<1>5. ASSUME NEW t \in Turns
      PROVE  /\ turn[t].kept \in Seq(Turns) /\ Len(turn[t].kept) \in Nat
             /\ turn[t].snap.value \in Seq(Turns) /\ turn[t].snap.version \in Nat
             /\ Len(turn[t].snap.value) \in Nat /\ turn[t].snap.end \in Nat
  <2>1. /\ turn[t].kept \in Seq(Turns)
        /\ turn[t].snap.value \in Seq(Turns) /\ turn[t].snap.version \in Nat
        /\ turn[t].snap.end \in Nat
    BY DEF TypeInv, TurnT, SnapshotT
  <2> QED
    BY <2>1
<1> QED
  BY <1>1, <1>2, <1>3, <1>4, <1>5

(* A step leaves what is done as it was, or it saves a conversation and its *)
(* turn is done.                                                            *)
LEMMA DoneStep ==
  ASSUME TypeInv, NEW t \in Turns, NEW me, NEW es, Effect(t, me, es)
  PROVE  /\ \A n \in 0..Len(Journal) : DoneRuns(Journal', n) = DoneRuns(Journal, n)
         /\ \/ /\ ~Saves(t, me) \/ ~SavesConversation(t)
               /\ StateKept /\ Done' = Done
               /\ \A k \in DOMAIN Journal' : IsDone(Journal'[k]) =>
                    k \in DOMAIN Journal /\ IsDone(Journal[k])
            \/ Saves(t, me) /\ SavesConversation(t) /\ Done' = Append(Done, t)
<1>1. Grown(es) /\ Journal \in Seq(EntryT) /\ Journal' \in Seq(EntryT)
  BY SessionTypes DEF Effect, Grown
<1>2. ASSUME NEW n \in 0..Len(Journal) PROVE DoneRuns(Journal', n) = DoneRuns(Journal, n)
  <2>1. n \in Nat /\ \A k \in 1..n : Journal'[k] = Journal[k]
    BY <1>1, GrownDomains
  <2> QED
    BY <2>1, DonePrefix
<1>3. DoneRuns(Journal', Len(Journal)) = Done /\ Len(Journal) \in Nat
  <2>1. Len(Journal) \in 0..Len(Journal) /\ Len(Journal) \in Nat
    BY <1>1, GrownDomains
  <2> QED
    BY <1>2, <2>1 DEF Done
<1>4. Done' = DoneRuns(Journal', Len(Journal'))
  BY DEF Done
<1>5. ASSUME \A k \in DOMAIN es : ~IsDone(es[k])
      PROVE  /\ Done' = Done
             /\ \A k \in DOMAIN Journal' : IsDone(Journal'[k]) =>
                  k \in DOMAIN Journal /\ IsDone(Journal[k])
  <2>1. \A k \in DOMAIN Journal' : k \notin DOMAIN Journal => ~IsDone(Journal'[k])
    BY <1>1, <1>5, GrownDomains
  <2>2. \A k \in Len(Journal) + 1..Len(Journal') : ~IsDone(Journal'[k])
    <3>1. \A k \in Len(Journal) + 1..Len(Journal') : k \in DOMAIN Journal' /\ k \notin DOMAIN Journal
      BY <1>1, GrownDomains
    <3> QED
      BY <2>1, <3>1
  <2>3. Len(Journal) \in 0..Len(Journal') /\ Len(Journal') \in Len(Journal)..Len(Journal')
    BY <1>1, GrownDomains
  <2>4. DoneRuns(Journal', Len(Journal')) = DoneRuns(Journal', Len(Journal))
    BY <1>1, <2>2, <2>3, DoneGrows
  <2> QED
    BY <1>1, <1>3, <1>4, <2>1, <2>4, GrownDomains
<1>6. ASSUME \A k \in DOMAIN es : es[k].kind # "ended" PROVE \A k \in DOMAIN es : ~IsDone(es[k])
  BY <1>6 DEF IsDone
<1>7. CASE Quiet(t, me) /\ session' = session /\ Len(es) = 0
  <2>1. DOMAIN es = {}
    BY <1>1, <1>7, GrownDomains
  <2>2. ~Saves(t, me) \/ ~SavesConversation(t)
    <3>1. session'.version # session.version + 1
      BY <1>7, SessionTypes
    <3> QED
      BY <3>1 DEF SavesConversation
  <2> QED
    BY <1>2, <1>5, <1>7, <2>1, <2>2 DEF StateKept
<1>8. ASSUME \/ WritesOpening(t, es)
             \/ WritesCall(t, es)
             \/ WritesNotes(t, es)
             \/ StateKept /\ \E how \in {"failed", "cancelled"} : WritesEnd(t, es, how)
      PROVE  /\ \A k \in DOMAIN es : ~IsDone(es[k])
             /\ StateKept /\ ~SavesConversation(t)
  <2>1. StateKept
    BY <1>8 DEF WritesOpening, WritesCall, WritesNotes
  <2>2. ~SavesConversation(t)
    BY <2>1, SessionTypes DEF StateKept, SavesConversation
  <2>3. ASSUME NEW k \in DOMAIN es PROVE ~IsDone(es[k])
    <3>1. CASE WritesOpening(t, es)
      BY <3>1 DEF WritesOpening, IsDone
    <3>2. CASE WritesCall(t, es)
      <4>1. k = 1
        BY <1>1, <3>2, GrownDomains DEF WritesCall
      <4> QED
        BY <3>2, <4>1 DEF WritesCall, IsDone
    <3>3. CASE WritesNotes(t, es)
      BY <3>3 DEF WritesNotes, IsDone
    <3>4. ASSUME NEW how \in {"failed", "cancelled"}, WritesEnd(t, es, how) PROVE ~IsDone(es[k])
      <4>1. k = 1 \/ k = 2
        BY <1>1, <3>4, GrownDomains DEF WritesEnd
      <4> QED
        BY <3>4, <4>1 DEF WritesEnd, IsDone
    <3> QED
      BY <1>8, <3>1, <3>2, <3>3, <3>4
  <2> QED
    BY <2>1, <2>2, <2>3
<1>9. CASE Saves(t, me) /\ WritesEnd(t, es, "done") /\ SavesConversation(t)
  <2> DEFINE n == Len(Journal)
  <2>1. /\ n \in Nat /\ n + 2 = Len(Journal') /\ n + 2 = (n + 1) + 1 /\ n + 1 \in Nat
        /\ 1 \in DOMAIN es /\ 2 \in DOMAIN es
    <3>1. Len(es) = 2
      BY <1>9 DEF WritesEnd
    <3>2. Len(Journal') = Len(Journal) + Len(es) /\ Len(Journal) \in Nat /\ DOMAIN es = 1..Len(es)
      BY <1>1, GrownDomains
    <3> QED
      BY <3>1, <3>2
  <2>2. Journal'[n + 1] = es[1] /\ Journal'[n + 2] = es[2]
    BY <1>1, <2>1, GrownDomains
  <2>3. ~IsDone(es[1]) /\ IsDone(es[2]) /\ es[2].by = t
    BY <1>9 DEF WritesEnd, IsDone
  <2> HIDE DEF n
  <2>4. DoneRuns(Journal', n + 1) = DoneRuns(Journal', n)
    BY <2>1, <2>2, <2>3, DoneSteps
  <2>5. DoneRuns(Journal', n + 2) = Append(DoneRuns(Journal', n + 1), t)
    BY <2>1, <2>2, <2>3, DoneSteps
  <2>6. Done' = Append(Done, t)
    BY <1>3, <1>4, <2>1, <2>4, <2>5 DEF n
  <2> QED
    BY <1>2, <1>9, <2>6
<1> QED
  <2>1. \/ Quiet(t, me) /\ session' = session /\ Len(es) = 0
        \/ WritesOpening(t, es)
        \/ WritesCall(t, es)
        \/ WritesNotes(t, es)
        \/ StateKept /\ \E how \in {"failed", "cancelled"} : WritesEnd(t, es, how)
        \/ Saves(t, me) /\ WritesEnd(t, es, "done") /\ SavesConversation(t)
    BY DEF Effect
  <2> QED
    BY <1>2, <1>5, <1>7, <1>8, <1>9, <2>1

(* A turn that has read the session has just done so, or keeps what it read. *)
LEMMA ViewStep ==
  ASSUME TypeInv, NEW t \in Turns, NEW me, NEW es, Effect(t, me, es), Reading(me)
  PROVE  \/ Reads(t, me) /\ session' = session /\ Journal' = Journal
         \/ /\ Reading(turn[t]) /\ me.snap = turn[t].snap
            /\ me.kept \in {turn[t].kept, Halve(turn[t].kept)}
<1>1. CASE Quiet(t, me) /\ session' = session
  BY <1>1 DEF Quiet, Begins, Reads, Plans, Joins, Leaves, Moves, Reading, At, Keeps, Working,
     Journal
<1>2. CASE OpensRun(t, me)
  BY <1>2 DEF OpensRun, Reading, At
<1>3. CASE Calls(t, me)
  BY <1>3 DEF Calls, Keeps, Working, Reading
<1>4. CASE Notes(t, me)
  BY <1>4 DEF Notes, Keeps, Working, Reading
<1>5. CASE Fails(t, me)
  BY <1>5 DEF Fails, Reading
<1>6. CASE Saves(t, me)
  BY <1>6 DEF Saves, Keeps, Reading, At
<1> QED
  BY <1>1, <1>2, <1>3, <1>4, <1>5, <1>6 DEF Effect

LEMMA KeptStep ==
  ASSUME TypeInv, HistoryInv, NEW t \in Turns, NEW me, NEW es, Effect(t, me, es), Reading(me)
  PROVE  KeptOK(me)
<1>1. CASE Reads(t, me)
  <2> DEFINE v == session.value
  <2>1. me.kept = v /\ me.snap.value = v
    BY <1>1 DEF Reads, Snapshot
  <2>2. v \in Seq(Turns) /\ Len(v) \in Nat
    BY SessionTypes
  <2> HIDE DEF v
  <2>3. Newest(v, Len(v)) = v
    BY <2>2 DEF Newest
  <2> QED
    BY <2>1, <2>2, <2>3 DEF KeptOK
<1>2. CASE /\ Reading(turn[t]) /\ me.snap = turn[t].snap
           /\ me.kept \in {turn[t].kept, Halve(turn[t].kept)}
  <2>1. KeptOK(turn[t])
    BY <1>2 DEF HistoryInv
  <2>2. CASE me.kept = turn[t].kept
    BY <1>2, <2>1, <2>2 DEF KeptOK
  <2>3. CASE me.kept = Halve(turn[t].kept)
    <3> DEFINE v == me.snap.value
               k == turn[t].kept
               n == Len(k)
               m == n \div 2
    <3>1. v \in Seq(Turns) /\ k \in Seq(Turns) /\ Len(v) \in Nat /\ n \in Nat
      BY <1>2, SessionTypes
    <3>2. k = Newest(v, n) /\ n \in 0..Len(v)
      BY <1>2, <2>1, <3>1 DEF KeptOK
    <3>3. m \in 0..n
      <4> HIDE DEF n
      <4> QED
        BY <3>1
    <3>4. me.kept = Newest(k, m)
      BY <2>3 DEF Halve
    <3> HIDE DEF v, k, n, m
    <3>5. Newest(k, m) = Newest(v, m) /\ m \in 0..Len(v)
      BY <3>1, <3>2, <3>3, NewestNewest
    <3>6. Len(Newest(v, m)) = m
      BY <3>1, <3>5, NewestSeq
    <3>7. me.kept = Newest(v, Len(me.kept)) /\ Len(me.kept) <= Len(v)
      BY <3>1, <3>4, <3>5, <3>6
    <3> QED
      BY <3>7 DEF KeptOK, v
  <2> QED
    BY <1>2, <2>2, <2>3
<1> QED
  BY <1>1, <1>2, ViewStep

(* The session a turn has read is still the session, or it has moved on for *)
(* good.                                                                    *)
LEMMA SnapStays ==
  ASSUME TypeInv, HistoryInv, NEW t \in Turns, NEW me, NEW es, Effect(t, me, es),
         NEW u \in Turns, NEW it, Reading(turn[u]), it.snap = turn[u].snap
  PROVE  /\ it.snap.version <= session'.version /\ it.snap.end <= Len(Journal')
         /\ it.snap.version = session'.version =>
              /\ it.snap.value = session'.value
              /\ \A k \in DOMAIN Journal' : IsDone(Journal'[k]) => k <= it.snap.end
<1>1. SnapOK(turn[u])
  BY DEF HistoryInv
<1>2. Len(Journal) <= Len(Journal') /\ Len(Journal) \in Nat /\ Len(Journal') \in Nat
  BY GrownDomains DEF Effect, Grown
<1>3. turn[u].snap.end \in Nat /\ turn[u].snap.version \in Nat /\ session.version \in Nat
  BY SessionTypes
<1>4. it.snap.end <= Len(Journal')
  BY <1>1, <1>2, <1>3 DEF SnapOK
<1>5. CASE /\ StateKept /\ Done' = Done
           /\ \A k \in DOMAIN Journal' : IsDone(Journal'[k]) =>
                k \in DOMAIN Journal /\ IsDone(Journal[k])
  BY <1>1, <1>3, <1>4, <1>5 DEF SnapOK, StateKept
<1>6. CASE SavesConversation(t)
  <2>1. session'.version = session.version + 1
    BY <1>6 DEF SavesConversation
  <2>2. it.snap.version < session'.version /\ it.snap.version \in Nat /\ session'.version \in Nat
    BY <1>1, <1>3, <2>1 DEF SnapOK
  <2> QED
    BY <1>4, <2>2
<1> QED
  BY <1>5, <1>6, DoneStep

LEMMA SavedIs ==
  ASSUME TypeInv, HistoryInv, NEW t \in Turns, NEW me, NEW es, Effect(t, me, es),
         Saves(t, me), SavesConversation(t), Done' = Append(Done, t)
  PROVE  session'.value = Newest(Done', Len(session'.value)) /\ Len(session'.value) <= Len(Done')
<1> DEFINE k == turn[t].kept
           v == session.value
           n == Len(k)
           d == Append(Done, t)
           q == Append(k, t)
           w == session'.value
<1>1. Reading(turn[t]) /\ turn[t].snap.version = session.version
  BY DEF Saves, At, Reading, SavesConversation
<1>2. KeptOK(turn[t]) /\ turn[t].snap.value = v
  BY <1>1 DEF HistoryInv, SnapOK
<1>3. /\ k \in Seq(Turns) /\ n \in Nat /\ v \in Seq(Turns) /\ Len(v) \in Nat
      /\ Done \in Seq(Turns) /\ Len(Done) \in Nat
  BY SessionTypes
<1>4. v = Newest(Done, Len(v)) /\ Len(v) \in 0..Len(Done)
  BY <1>3 DEF HistoryInv
<1>5. k = Newest(v, n) /\ n \in 0..Len(v)
  BY <1>2, <1>3 DEF KeptOK
<1>6. w \in {Newest(q, KEEP), << >>}
  BY DEF SavesConversation, Trimmed
<1>7. Done' = d
  OBVIOUS
<1> HIDE DEF k, v, n, d, q, w
<1>8. k = Newest(Done, n) /\ n \in 0..Len(Done)
  BY <1>3, <1>4, <1>5, NewestNewest
<1>9. q = Newest(d, n + 1) /\ d \in Seq(Turns) /\ n + 1 \in 0..Len(d)
  BY <1>3, <1>8, NewestAppend DEF q, d
<1>10. Len(q) = n + 1 /\ q \in Seq(Turns) /\ Len(d) \in Nat
  BY <1>9, NewestSeq
<1>11. CASE w = << >>
  <2>1. Len(w) = 0 /\ 0 \in 0..Len(d)
    BY <1>10, <1>11
  <2>2. Newest(d, 0) \in Seq(Turns) /\ Len(Newest(d, 0)) = 0
    BY <1>9, <2>1, NewestSeq
  <2>3. Newest(d, 0) = << >>
    BY <2>2
  <2> QED
    BY <1>7, <1>10, <1>11, <2>1, <2>3 DEF w
<1>12. CASE w = Newest(q, KEEP)
  <2>1. KEEP \in Nat
    BY NAssumption
  <2>2. CASE Len(q) <= KEEP
    <3>1. w = q
      BY <1>12, <2>2 DEF Newest
    <3>2. w = Newest(d, Len(w)) /\ Len(w) <= Len(d)
      BY <1>3, <1>9, <1>10, <3>1
    <3> QED
      BY <1>7, <3>2 DEF w
  <2>3. CASE ~(Len(q) <= KEEP)
    <3>1. KEEP \in 0..n + 1 /\ KEEP \in 0..Len(d)
      BY <1>3, <1>9, <1>10, <2>1, <2>3
    <3>2. w = Newest(d, KEEP)
      BY <1>9, <1>12, <3>1, NewestNewest
    <3>3. Len(w) = KEEP
      BY <1>9, <3>1, <3>2, NewestSeq
    <3>4. w = Newest(d, Len(w)) /\ Len(w) <= Len(d)
      BY <1>10, <3>1, <3>2, <3>3
    <3> QED
      BY <1>7, <3>4 DEF w
  <2> QED
    BY <2>2, <2>3
<1> QED
  BY <1>6, <1>11, <1>12

LEMMA HistoryStep ==
  ASSUME TypeInv, HistoryInv, NEW t \in Turns, NEW me, NEW es, Effect(t, me, es)
  PROVE  HistoryInv'
<1>1. /\ turn'[t] = me /\ \A u \in Turns : u # t => turn'[u] = turn[u]
  BY OthersKept DEF Effect
<1>2. Grown(es)
  BY DEF Effect
<1>3. ASSUME NEW k \in DOMAIN Journal', IsDone(Journal'[k]) PROVE k <= session'.through
  <2>1. CASE SavesConversation(t)
    BY <1>2, <2>1, GrownDomains DEF SavesConversation
  <2>2. CASE /\ StateKept /\ k \in DOMAIN Journal /\ IsDone(Journal[k])
    BY <2>2 DEF StateKept, HistoryInv
  <2> QED
    BY <1>3, <2>1, <2>2, DoneStep
<1>4. session'.value = Newest(Done', Len(session'.value)) /\ Len(session'.value) <= Len(Done')
  <2>1. CASE StateKept /\ Done' = Done
    BY <2>1 DEF StateKept, HistoryInv
  <2>2. CASE Saves(t, me) /\ SavesConversation(t) /\ Done' = Append(Done, t)
    BY <2>2, SavedIs
  <2> QED
    BY <2>1, <2>2, DoneStep
<1> DEFINE Snap(r) ==
      /\ r.snap.version <= session'.version /\ r.snap.end <= Len(Journal')
      /\ r.snap.version = session'.version =>
           /\ r.snap.value = session'.value
           /\ \A k \in DOMAIN Journal' : IsDone(Journal'[k]) => k <= r.snap.end
<1>5. ASSUME Reading(me) PROVE KeptOK(me) /\ Snap(me)
  <2>1. KeptOK(me)
    BY <1>5, KeptStep
  <2>2. CASE Reads(t, me) /\ session' = session /\ Journal' = Journal
    <3>1. /\ me.snap.version = session.version /\ me.snap.value = session.value
          /\ me.snap.end = Len(Journal)
      BY <2>2 DEF Reads, Snapshot, JournalEnd, Journal
    <3>2. \A k \in DOMAIN Journal : k <= Len(Journal)
      BY <1>2, GrownDomains
    <3>3. session.version \in Nat /\ Len(Journal) \in Nat
      BY SessionTypes
    <3> QED
      BY <2>1, <2>2, <3>1, <3>2, <3>3
  <2>3. CASE Reading(turn[t]) /\ me.snap = turn[t].snap
    BY <2>1, <2>3, SnapStays
  <2> HIDE DEF Snap
  <2> QED
    BY <1>5, <2>2, <2>3, ViewStep
<1>6. ASSUME NEW u \in Turns, u # t, Reading(turn[u])
      PROVE  KeptOK(turn[u]) /\ Snap(turn[u])
  <2>1. KeptOK(turn[u])
    BY <1>6 DEF HistoryInv
  <2>2. Snap(turn[u])
    BY <1>6, SnapStays
  <2> QED
    BY <2>1, <2>2
<1>7. ASSUME NEW u \in Turns, Reading(turn'[u]) PROVE KeptOK(turn'[u]) /\ Snap(turn'[u])
  <2> HIDE DEF Snap
  <2> QED
    BY <1>1, <1>5, <1>6, <1>7
<1>8. \A u \in Turns : /\ Reading(turn[u])' <=> Reading(turn'[u])
                       /\ KeptOK(turn[u])' <=> KeptOK(turn'[u])
                       /\ SnapOK(turn[u])' <=> Snap(turn'[u])
  BY DEF Reading, KeptOK, SnapOK
<1> HIDE DEF Snap
<1> QED
  BY <1>3, <1>4, <1>7, <1>8 DEF HistoryInv

LEMMA InitHistory == Init => HistoryInv
<1> SUFFICES ASSUME Init PROVE HistoryInv
  OBVIOUS
<1>1. Journal = << >> /\ Len(Journal) = 0 /\ DOMAIN Journal = {} /\ session.value = << >>
  BY DEF Init, EmptySession, Journal
<1>2. Done = << >>
  BY <1>1, DoneSteps DEF Done
<1>3. Newest(<< >>, 0) = << >> /\ Len(<< >>) = 0
  BY DEF Newest
<1>4. \A t \in Turns : ~Reading(turn[t])
  BY FreshType DEF Init, Reading
<1> QED
  BY <1>1, <1>2, <1>3, <1>4 DEF HistoryInv

LEMMA HistoryInvariant == Spec => [](RunInv /\ HistoryInv)
<1>1. ASSUME RunInv, HistoryInv, [Next]_vars PROVE HistoryInv'
  <2>1. CASE Next
    <3>1. TypeInv /\ JournalInv
      BY <1>1 DEF RunInv
    <3>2. PICK t \in Turns : \E me, es : Effect(t, me, es)
      BY <2>1, <3>1, NextEffects
    <3>3. PICK me, es : Effect(t, me, es)
      BY <3>2
    <3> QED
      BY <1>1, <3>1, <3>3, HistoryStep
  <2>2. CASE UNCHANGED vars
    BY <1>1, <2>2 DEF vars, HistoryInv, Done, Journal, Reading, KeptOK, SnapOK
  <2> QED
    BY <1>1, <2>1, <2>2
<1> QED
  BY <1>1, InitHistory, RunsInvariant, PTL DEF Spec

(* The stored conversation is the end of what the runs that are done said,  *)
(* in the order of the journal, and the state covers them all: save never   *)
(* overwrites another run's exchange nor keeps one that is not done, in     *)
(* whatever order runs interleave and whichever commits fail or are applied *)
(* without the run hearing of it.                                           *)
THEOREM ConversationStaysHistory == Spec => []ConversationIsHistory
<1>1. HistoryInv => ConversationIsHistory
  BY DEF HistoryInv, ConversationIsHistory, Done
<1> QED
  BY <1>1, HistoryInvariant, PTL

-----------------------------------------------------------------------------
(* The ledger: what a turn is of it, and how much of it it has seen.        *)
Phase(me) ==
  IF me.pc \in {"new", "accepting", "reading", "opening"} THEN "new"
  ELSE IF me.pc = "over" \/ (me.pc = "ending" /\ me.answer = "not-recorded")
  THEN "closed"
  ELSE "open"

Sees(me) == IF Phase(me) = "open" THEN Len(DoneRuns(Journal, me.snap.end)) ELSE 0

PhaseMap == [t \in Turns |-> Phase(turn[t])]
SeenMap == [t \in Turns |-> Sees(turn[t])]

LEMMA PhaseStep ==
  ASSUME TypeInv, OpeningsInv, NEW t \in Turns, NEW me, NEW es, Effect(t, me, es)
  PROVE  \/ /\ Done' = Done /\ Phase(me) = Phase(turn[t])
            /\ Phase(me) = "open" => me.snap = turn[t].snap
         \/ /\ Done' = Done /\ Phase(turn[t]) = "new" /\ Phase(me) = "open"
            /\ Reading(turn[t]) /\ me.snap = turn[t].snap
         \/ Done' = Done /\ Phase(turn[t]) # "closed" /\ Phase(me) = "closed"
         \/ /\ Done' = Append(Done, t) /\ Phase(turn[t]) = "open" /\ Phase(me) = "closed"
            /\ Reading(turn[t]) /\ turn[t].snap.version = session.version
<1>1. CASE (~Saves(t, me) \/ ~SavesConversation(t)) /\ Done' = Done
  <2>1. CASE Begins(t, me)
    BY <1>1, <2>1 DEF Begins, At, Phase
  <2>2. CASE Reads(t, me)
    BY <1>1, <2>2 DEF Reads, At, Phase
  <2>3. CASE Plans(t, me)
    BY <1>1, <2>3 DEF Plans, At, Phase
  <2>4. CASE OpensRun(t, me)
    BY <1>1, <2>4 DEF OpensRun, At, Phase, Reading
  <2>5. CASE Joins(t, me)
    BY <1>1, <2>5 DEF Joins, Keeps, At, Phase, Reading
  <2>6. CASE Leaves(t, me)
    BY <1>1, <2>6 DEF Leaves, Phase
  <2>7. CASE Moves(t, me)
    <3>1. Working(turn[t]) /\ Working(me) /\ me.snap = turn[t].snap
      BY <2>7 DEF Moves, Keeps
    <3>2. Phase(turn[t]) \in {"open", "closed"} /\ Phase(me) \in {"open", "closed"}
      BY <3>1 DEF Working, Phase
    <3>3. Phase(turn[t]) = "closed" => Phase(me) = "closed"
      BY <2>7, <3>1 DEF Moves, Working, Phase, At
    <3> QED
      BY <1>1, <3>1, <3>2, <3>3
  <2>8. CASE Calls(t, me) \/ Notes(t, me)
    <3>1. /\ Working(turn[t]) /\ ~At(t, "ending") /\ me.snap = turn[t].snap
          /\ me.pc \notin {"new", "accepting", "reading", "opening"}
      BY <2>8 DEF Calls, Notes, Keeps, Working, InCall
    <3>2. Phase(turn[t]) = "open" /\ Phase(me) \in {"open", "closed"}
      BY <3>1 DEF Working, Phase, At
    <3> QED
      BY <1>1, <3>1, <3>2
  <2>9. CASE Fails(t, me)
    BY <1>1, <2>9 DEF Fails, Phase
  <2> QED
    BY <1>1, <2>1, <2>2, <2>3, <2>4, <2>5, <2>6, <2>7, <2>8, <2>9 DEF Effect, Quiet
<1>2. CASE Saves(t, me) /\ SavesConversation(t) /\ Done' = Append(Done, t)
  <2>1. Phase(turn[t]) = "open" /\ Reading(turn[t]) /\ Phase(me) = "closed"
    BY <1>2 DEF Saves, At, Phase, Reading
  <2> QED
    BY <1>2, <2>1 DEF SavesConversation
<1> QED
  BY <1>1, <1>2, DoneStep

LEMMA LedgerStep ==
  ASSUME TypeInv, OpeningsInv, HistoryInv, NEW t \in Turns, NEW me, NEW es, Effect(t, me, es)
  PROVE  \/ Done' = Done /\ PhaseMap' = PhaseMap /\ SeenMap' = SeenMap
         \/ /\ Done' = Done /\ PhaseMap[t] = "new" /\ PhaseMap' = [PhaseMap EXCEPT ![t] = "open"]
            /\ \E n \in 0..Len(Done) : SeenMap' = [SeenMap EXCEPT ![t] = n]
         \/ /\ Done' = Done /\ PhaseMap[t] # "closed"
            /\ PhaseMap' = [PhaseMap EXCEPT ![t] = "closed"]
            /\ SeenMap' = [SeenMap EXCEPT ![t] = 0]
         \/ /\ Done' = Append(Done, t) /\ PhaseMap[t] = "open" /\ SeenMap[t] = Len(Done)
            /\ PhaseMap' = [PhaseMap EXCEPT ![t] = "closed"]
            /\ SeenMap' = [SeenMap EXCEPT ![t] = 0]
<1> DEFINE n == Sees(me)'
<1>1. /\ turn'[t] = me /\ \A u \in Turns : u # t => turn'[u] = turn[u]
  BY OthersKept DEF Effect
<1>2. /\ Journal \in Seq(EntryT) /\ Len(Journal) \in Nat
      /\ \A u \in Turns : turn[u].snap.end \in Nat
  BY SessionTypes
<1>3. \A u \in Turns : Phase(turn[u]) = "open" => Reading(turn[u])
  BY DEF Phase, Reading
<1>4. ASSUME NEW u \in Turns, Reading(turn[u])
      PROVE  /\ turn[u].snap.end \in 0..Len(Journal)
             /\ DoneRuns(Journal', turn[u].snap.end) = DoneRuns(Journal, turn[u].snap.end)
             /\ Len(DoneRuns(Journal, turn[u].snap.end)) \in 0..Len(Done)
  <2>1. turn[u].snap.end \in 0..Len(Journal)
    BY <1>2, <1>4 DEF HistoryInv, SnapOK
  <2>2. DoneRuns(Journal, turn[u].snap.end) \in Seq(Turns)
    BY <1>2, <2>1, DoneType
  <2>3. Len(Journal) \in turn[u].snap.end..Len(Journal)
    BY <1>2, <2>1
  <2>4. Len(DoneRuns(Journal, turn[u].snap.end)) <= Len(Done)
    BY <1>2, <2>1, <2>3, DoneGrows DEF Done
  <2>5. Len(DoneRuns(Journal, turn[u].snap.end)) \in Nat
    BY <2>2
  <2> QED
    BY <2>1, <2>4, <2>5, DoneStep, SessionTypes
<1>5. \A u \in Turns : u # t => /\ Phase(turn[u])' = Phase(turn[u])
                                /\ Sees(turn[u])' = Sees(turn[u])
  BY <1>1, <1>3, <1>4 DEF Sees, Phase
<1>6. Phase(turn[t])' = Phase(me) /\ Sees(turn[t])' = n
  BY <1>1 DEF Sees, Phase
<1>7. PhaseMap' = [PhaseMap EXCEPT ![t] = Phase(me)]
  <2>1. \A u \in Turns : Phase(turn[u])' = IF u = t THEN Phase(me) ELSE Phase(turn[u])
    BY <1>5, <1>6
  <2> QED
    BY <2>1 DEF PhaseMap
<1>8. SeenMap' = [SeenMap EXCEPT ![t] = n]
  <2>1. \A u \in Turns : Sees(turn[u])' = IF u = t THEN n ELSE Sees(turn[u])
    BY <1>5, <1>6
  <2> HIDE DEF n
  <2> QED
    BY <2>1 DEF SeenMap
<1>9. PhaseMap[t] = Phase(turn[t]) /\ SeenMap[t] = Sees(turn[t])
  BY DEF PhaseMap, SeenMap
<1>10. Phase(me) = "open" => n = Len(DoneRuns(Journal', me.snap.end))
  BY DEF Sees, Phase
<1>11. Phase(me) # "open" => n = 0
  BY DEF Sees, Phase
<1> HIDE DEF n
<1>12. CASE /\ Done' = Done /\ Phase(me) = Phase(turn[t])
            /\ Phase(me) = "open" => me.snap = turn[t].snap
  <2>1. n = Sees(turn[t])
    BY <1>3, <1>4, <1>10, <1>11, <1>12 DEF Sees
  <2>2. PhaseMap' = PhaseMap
    BY <1>7, <1>9, <1>12 DEF PhaseMap
  <2>3. SeenMap' = SeenMap
    BY <1>8, <1>9, <2>1 DEF SeenMap
  <2> QED
    BY <1>12, <2>2, <2>3
<1>13. CASE /\ Done' = Done /\ Phase(turn[t]) = "new" /\ Phase(me) = "open"
            /\ Reading(turn[t]) /\ me.snap = turn[t].snap
  BY <1>4, <1>7, <1>8, <1>9, <1>10, <1>13
<1>14. CASE Done' = Done /\ Phase(turn[t]) # "closed" /\ Phase(me) = "closed"
  BY <1>7, <1>8, <1>9, <1>11, <1>14
<1>15. CASE /\ Done' = Append(Done, t) /\ Phase(turn[t]) = "open" /\ Phase(me) = "closed"
            /\ Reading(turn[t]) /\ turn[t].snap.version = session.version
  <2> DEFINE e == turn[t].snap.end
  <2>1. e \in 0..Len(Journal) /\ Len(Journal) \in e..Len(Journal)
    BY <1>2, <1>4, <1>15
  <2>2. \A k \in e + 1..Len(Journal) : ~IsDone(Journal[k])
    <3>1. \A k \in DOMAIN Journal : IsDone(Journal[k]) => k <= e
      BY <1>15 DEF HistoryInv, SnapOK
    <3>2. \A k \in e + 1..Len(Journal) : k \in DOMAIN Journal /\ ~(k <= e)
      BY <1>2, <2>1
    <3> QED
      BY <3>1, <3>2
  <2> HIDE DEF e
  <2>3. DoneRuns(Journal, Len(Journal)) = DoneRuns(Journal, e)
    BY <1>2, <2>1, <2>2, DoneGrows
  <2>4. SeenMap[t] = Len(Done)
    BY <1>9, <1>15, <2>3 DEF Sees, Done, e
  <2> QED
    BY <1>7, <1>8, <1>9, <1>11, <1>15, <2>4
<1> QED
  BY <1>12, <1>13, <1>14, <1>15, PhaseStep

Maps ==
  /\ DoneUpTo(JournalEnd(session)) = Done
  /\ [t \in Turns |-> PhaseOf(t)] = PhaseMap
  /\ [t \in Turns |->
        IF PhaseOf(t) = "open" THEN Len(DoneUpTo(turn[t].snap.end)) ELSE 0] = SeenMap

LEMMA MapsAre == Maps
<1>1. \A t \in Turns : PhaseOf(t) = Phase(turn[t])
  BY DEF PhaseOf, Phase, At
<1>2. \A t \in Turns :
        Sees(turn[t]) = IF PhaseOf(t) = "open" THEN Len(DoneUpTo(turn[t].snap.end)) ELSE 0
  BY <1>1 DEF Sees, DoneUpTo
<1> QED
  BY <1>1, <1>2 DEF Maps, Done, DoneUpTo, JournalEnd, Journal, PhaseMap, SeenMap

LEMMA InitLedger == Init => Ledger!Init
<1> SUFFICES ASSUME Init PROVE Ledger!Init
  OBVIOUS
<1>1. Done = << >>
  <2>1. Journal = << >> /\ Len(Journal) = 0
    BY DEF Init, EmptySession, Journal
  <2> QED
    BY <2>1, DoneSteps DEF Done
<1>2. \A t \in Turns : Phase(turn[t]) = "new" /\ Sees(turn[t]) = 0
  BY FreshType DEF Init, Phase, Sees
<1>3. PhaseMap = [t \in Turns |-> "new"] /\ SeenMap = [t \in Turns |-> 0]
  BY <1>2 DEF PhaseMap, SeenMap
<1> QED
  BY <1>1, <1>3, MapsAre DEF Maps, Ledger!Init

LEMMA LedgerNext ==
  RunInv /\ HistoryInv /\ [Next]_vars /\ Maps /\ Maps' =>
    [Ledger!Next]_<<DoneUpTo(JournalEnd(session)), [t \in Turns |-> PhaseOf(t)],
                   [t \in Turns |-> IF PhaseOf(t) = "open"
                                    THEN Len(DoneUpTo(turn[t].snap.end)) ELSE 0]>>
<1> SUFFICES ASSUME RunInv, HistoryInv, [Next]_vars, Maps, Maps'
             PROVE  \/ Ledger!Next
                    \/ UNCHANGED <<DoneUpTo(JournalEnd(session)), [t \in Turns |-> PhaseOf(t)],
                                  [t \in Turns |-> IF PhaseOf(t) = "open"
                                       THEN Len(DoneUpTo(turn[t].snap.end)) ELSE 0]>>
  OBVIOUS
<1>1. ASSUME Done' = Done, PhaseMap' = PhaseMap, SeenMap' = SeenMap
      PROVE  UNCHANGED <<DoneUpTo(JournalEnd(session)), [t \in Turns |-> PhaseOf(t)],
                         [t \in Turns |-> IF PhaseOf(t) = "open"
                                          THEN Len(DoneUpTo(turn[t].snap.end)) ELSE 0]>>
  BY <1>1 DEF Maps
<1>2. CASE Next
  <2>1. TypeInv /\ JournalInv /\ OpeningsInv
    BY DEF RunInv, JournalInv
  <2>2. PICK t \in Turns : \E me, es : Effect(t, me, es)
    BY <1>2, <2>1, NextEffects
  <2>3. PICK me, es : Effect(t, me, es)
    BY <2>2
  <2>4. CASE /\ Done' = Done /\ PhaseMap[t] = "new"
             /\ PhaseMap' = [PhaseMap EXCEPT ![t] = "open"]
             /\ \E n \in 0..Len(Done) : SeenMap' = [SeenMap EXCEPT ![t] = n]
    <3>1. Ledger!Begin(t)
      BY <2>4 DEF Maps, Ledger!Begin
    <3> QED
      BY <3>1 DEF Ledger!Next
  <2>5. CASE /\ Done' = Done /\ PhaseMap[t] # "closed"
             /\ PhaseMap' = [PhaseMap EXCEPT ![t] = "closed"]
             /\ SeenMap' = [SeenMap EXCEPT ![t] = 0]
    <3>1. Ledger!GiveUp(t)
      BY <2>5 DEF Maps, Ledger!GiveUp
    <3> QED
      BY <3>1 DEF Ledger!Next
  <2>6. CASE /\ Done' = Append(Done, t) /\ PhaseMap[t] = "open" /\ SeenMap[t] = Len(Done)
             /\ PhaseMap' = [PhaseMap EXCEPT ![t] = "closed"]
             /\ SeenMap' = [SeenMap EXCEPT ![t] = 0]
    <3>1. Ledger!Finish(t)
      BY <2>6 DEF Maps, Ledger!Finish
    <3> QED
      BY <3>1 DEF Ledger!Next
  <2> QED
    BY <1>1, <2>1, <2>3, <2>4, <2>5, <2>6, LedgerStep
<1>3. CASE UNCHANGED vars
  <2>1. Done' = Done /\ PhaseMap' = PhaseMap /\ SeenMap' = SeenMap
    BY <1>3 DEF vars, Done, Journal, PhaseMap, SeenMap, Phase, Sees
  <2> QED
    BY <1>1, <2>1
<1> QED
  BY <1>2, <1>3

(* The runs of an agent implement the serial ledger: whatever instances,    *)
(* drivers, crashes and failing commits do, runs end `done' one after the   *)
(* other, and each worked on the conversation the one before it left.       *)
THEOREM RunsImplementLedger == Spec => ImplementsLedger
<1>1. Spec => [][Next]_vars
  BY PTL DEF Spec
<1>2. Spec => Ledger!Init
  BY InitLedger, PTL DEF Spec
<1>3. RunInv /\ HistoryInv /\ [Next]_vars =>
        [Ledger!Next]_<<DoneUpTo(JournalEnd(session)), [t \in Turns |-> PhaseOf(t)],
                       [t \in Turns |-> IF PhaseOf(t) = "open"
                                        THEN Len(DoneUpTo(turn[t].snap.end)) ELSE 0]>>
  <2>1. Maps /\ Maps'
    BY MapsAre, PTL
  <2> QED
    BY <2>1, LedgerNext
<1>4. Spec => [][Ledger!Next]_<<DoneUpTo(JournalEnd(session)), [t \in Turns |-> PhaseOf(t)],
                               [t \in Turns |-> IF PhaseOf(t) = "open"
                                       THEN Len(DoneUpTo(turn[t].snap.end)) ELSE 0]>>
  BY <1>1, <1>3, HistoryInvariant, PTL
<1> QED
  BY <1>2, <1>4, PTL DEF ImplementsLedger, Ledger!Spec, Ledger!vars
=============================================================================
