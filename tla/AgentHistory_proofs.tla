------------------------ MODULE AgentHistory_proofs ------------------------
(***************************************************************************)
(* Proofs that the conversation of an agent stays whole: at every request  *)
(* of a run, at its end, and on its way to the next run.                   *)
(***************************************************************************)
EXTENDS AgentHistory, AgentRun_proofs

(***************************************************************************)
(* What is kept of a sequence.                                             *)
(***************************************************************************)

(* What is kept of the first elements, of one after the other.             *)
Filters(f, s, some, S) ==
  /\ Talk!Those(s, some) = f[Len(s)] /\ f[0] = << >>
  /\ \A k \in 1..Len(s) :
       f[k] = IF s[k] \in some THEN Append(f[k - 1], s[k]) ELSE f[k - 1]
  /\ \A k \in 0..Len(s) : f[k] \in Seq(S)

(* The elements of s that are in some, taken one after the other.          *)
LEMMA ThoseSteps ==
  ASSUME NEW S, NEW s \in Seq(S), NEW some
  PROVE  \E f : Filters(f, s, some, S)
<1> DEFINE n == Len(s)
           T == Seq(S)
           dom == DOMAIN s
           step == [p \in T \X dom |->
                      IF s[p[2]] \in some THEN Append(p[1], s[p[2]]) ELSE p[1]]
           D(g, t) == IF t = {} THEN << >>
                      ELSE IF s[Max(t)] \in some THEN Append(g[t \ {Max(t)}], s[Max(t)])
                           ELSE g[t \ {Max(t)}]
           IsF(g) == g = [t \in SUBSET dom |-> D(g, t)]
           F == CHOOSE g : IsF(g)
<1>1. n \in Nat /\ << >> \in T /\ dom = 1..n
  OBVIOUS
<1>2. \A t \in T, k \in dom :
        /\ step[<<t, k>>] = IF s[k] \in some THEN Append(t, s[k]) ELSE t
        /\ step[<<t, k>>] \in T
  OBVIOUS
<1>3. ASSUME NEW g, g = [t \in SUBSET dom |-> g[t]], g[{}] = << >>,
             \A t \in SUBSET dom :
               /\ t # {} => g[t] = step[<<g[t \ {Max(t)}], Max(t)>>]
               /\ g[t] \in T
      PROVE  IsF(g)
  <2>1. ASSUME NEW t \in SUBSET dom, t # {}
        PROVE  step[<<g[t \ {Max(t)}], Max(t)>>] = D(g, t)
    <3>1. Max(t) \in dom /\ g[t \ {Max(t)}] \in T
      BY <1>1, <1>3, <2>1, MaxIn
    <3> QED
      BY <1>2, <2>1, <3>1
  <2>2. \A t \in SUBSET dom : g[t] = D(g, t)
    BY <1>3, <2>1
  <2> HIDE DEF D
  <2> QED
    BY <1>3, <2>2
<1>4. F = [t \in SUBSET dom |-> D(F, t)]
  <2> HIDE DEF step, T, n
  <2>0. step \in [T \X (1..n) -> T]
    BY <1>1, <1>2 DEF step
  <2> HIDE DEF dom
  <2>1. \E g : /\ g = [t \in SUBSET (1..n) |-> g[t]]
               /\ g[{}] = << >>
               /\ \A t \in SUBSET (1..n) :
                    /\ t # {} => g[t] = step[<<g[t \ {Max(t)}], Max(t)>>]
                    /\ g[t] \in T
    <3>1. \A b \in T, st \in [T \X (1..n) -> T] :
            \E g : /\ g = [t \in SUBSET (1..n) |-> g[t]]
                   /\ g[{}] = b
                   /\ \A t \in SUBSET (1..n) :
                        /\ t # {} => g[t] = st[<<g[t \ {Max(t)}], Max(t)>>]
                        /\ g[t] \in T
      BY <1>1, FoldExists
    <3> QED
      BY ZenonT(40), <1>1, <2>0, <3>1
  <2> HIDE DEF IsF
  <2>2. \E g : IsF(g)
    BY <1>1, <1>3, <2>1
  <2>3. IsF(F)
    BY <2>2
  <2> QED
    BY <2>3 DEF IsF
<1>5. Talk!Those(s, some) = F[dom]
  <2>1. \A t : Talk!Max(t) = Max(t)
    BY DEF Talk!Max, Max
  <2> HIDE DEF T, n
  <2> QED
    BY <2>1 DEF Talk!Those, Talk!FoldLeft, Talk!MapThenFoldSet
<1> HIDE DEF F
<1> DEFINE f == [k \in 0..n |-> F[1..k]]
<1>6. f[0] = << >> /\ f[n] = F[dom]
  <2>1. 1..0 = {} /\ {} \in SUBSET dom /\ 0 \in 0..n /\ n \in 0..n
    BY <1>1
  <2>2. F[{}] = D(F, {})
    BY <1>4, <2>1
  <2> HIDE DEF n, dom
  <2>3. f[0] = F[{}] /\ f[n] = F[1..n]
    BY <2>1
  <2> QED
    BY <1>1, <2>2, <2>3
<1>7. ASSUME NEW k \in 1..n
      PROVE  f[k] = IF s[k] \in some THEN Append(f[k - 1], s[k]) ELSE f[k - 1]
  <2>1. k \in Nat /\ k # 0 /\ 1..k \in SUBSET dom /\ k \in 0..n /\ k - 1 \in 0..n
    BY <1>1
  <2>2. 1..k # {} /\ Max(1..k) = k /\ (1..k) \ {Max(1..k)} = 1..(k - 1)
    BY <2>1, MaxUpTo
  <2>3. F[1..k] = D(F, 1..k)
    BY <1>4, <2>1
  <2> QED
    BY <2>1, <2>2, <2>3
<1> HIDE DEF f
<1> DEFINE P == {k \in Nat : k <= n => f[k] \in T}
<1>8. 0 \in P
  BY <1>1, <1>6
<1>9. ASSUME NEW k \in P PROVE k + 1 \in P
  <2> SUFFICES ASSUME k + 1 <= n PROVE f[k + 1] \in T
    OBVIOUS
  <2>1. k + 1 \in 1..n /\ (k + 1) - 1 = k /\ f[k] \in Seq(S)
    BY <1>1
  <2>2. s[k + 1] \in S
    BY <2>1
  <2>3. f[k + 1] = IF s[k + 1] \in some THEN Append(f[k], s[k + 1]) ELSE f[k]
    BY <1>7, <2>1
  <2> HIDE DEF f
  <2>4. Append(f[k], s[k + 1]) \in Seq(S)
    BY <2>1, <2>2
  <2> QED
    BY <2>1, <2>3, <2>4
<1>10. P = Nat
  BY <1>8, <1>9, Inductive
<1> QED
  BY <1>1, <1>5, <1>6, <1>7, <1>10 DEF Filters

(* What is taken of a sequence is a sequence of its elements.              *)
LEMMA ThoseOf ==
  ASSUME NEW S, NEW s \in Seq(S), NEW some
  PROVE  Talk!Those(s, some) \in Seq(S)
<1>1. PICK f : Filters(f, s, some, S)
  BY ThoseSteps, Zenon
<1>2. Len(s) \in 0..Len(s)
  OBVIOUS
<1> QED
  BY <1>1, <1>2 DEF Filters

(* Nothing is taken of a sequence that has none of them.                   *)
LEMMA ThoseNone ==
  ASSUME NEW S, NEW s \in Seq(S), NEW some, \A i \in DOMAIN s : s[i] \notin some
  PROVE  Talk!Those(s, some) = << >>
<1>1. PICK f : Filters(f, s, some, S)
  BY ThoseSteps, Zenon
<1> USE DEF Filters
<1> DEFINE P == {k \in Nat : k <= Len(s) => f[k] = << >>}
<1>2. 0 \in P
  BY <1>1
<1>3. ASSUME NEW k \in P PROVE k + 1 \in P
  <2> SUFFICES ASSUME k + 1 <= Len(s) PROVE f[k + 1] = << >>
    OBVIOUS
  <2>1. k + 1 \in 1..Len(s) /\ (k + 1) - 1 = k /\ f[k] = << >>
    OBVIOUS
  <2> QED
    BY <1>1, <2>1
<1>4. P = Nat
  BY <1>2, <1>3, Inductive
<1> QED
  BY <1>1, <1>4

(* All is taken of a sequence that has nothing else.                       *)
LEMMA ThoseAll ==
  ASSUME NEW S, NEW s \in Seq(S), NEW some, \A i \in DOMAIN s : s[i] \in some
  PROVE  Talk!Those(s, some) = s
<1>1. PICK f : Filters(f, s, some, S)
  BY ThoseSteps, Zenon
<1> USE DEF Filters
<1> DEFINE P == {k \in Nat : k <= Len(s) => f[k] = SubSeq(s, 1, k)}
<1>2. 0 \in P
  <2>1. SubSeq(s, 1, 0) = << >>
    OBVIOUS
  <2> QED
    BY <1>1, <2>1
<1>3. ASSUME NEW k \in P PROVE k + 1 \in P
  <2> SUFFICES ASSUME k + 1 <= Len(s) PROVE f[k + 1] = SubSeq(s, 1, k + 1)
    OBVIOUS
  <2>1. k + 1 \in 1..Len(s) /\ (k + 1) - 1 = k /\ f[k] = SubSeq(s, 1, k)
    OBVIOUS
  <2>2. Append(SubSeq(s, 1, k), s[k + 1]) = SubSeq(s, 1, k + 1)
    BY <2>1
  <2>3. s[k + 1] \in some
    BY <2>1
  <2> QED
    BY <1>1, <2>1, <2>2, <2>3
<1>4. P = Nat
  BY <1>2, <1>3, Inductive
<1>5. SubSeq(s, 1, Len(s)) = s /\ Len(s) \in Nat
  OBVIOUS
<1>6. f[Len(s)] = SubSeq(s, 1, Len(s))
  BY <1>4, <1>5
<1> QED
  BY <1>1, <1>5, <1>6

(* What is taken is in what is asked for.                                  *)
LEMMA ThoseIn ==
  ASSUME NEW S, NEW s \in Seq(S), NEW some
  PROVE  Talk!Those(s, some) \in Seq(S \cap some)
<1>1. PICK f : Filters(f, s, some, S)
  BY ThoseSteps, Zenon
<1> USE DEF Filters
<1> DEFINE P == {k \in Nat : k <= Len(s) => f[k] \in Seq(S \cap some)}
<1>2. 0 \in P
  <2>1. << >> \in Seq(S \cap some)
    OBVIOUS
  <2> QED
    BY <1>1, <2>1
<1>3. ASSUME NEW k \in P PROVE k + 1 \in P
  <2> SUFFICES ASSUME k + 1 <= Len(s) PROVE f[k + 1] \in Seq(S \cap some)
    OBVIOUS
  <2>1. k + 1 \in 1..Len(s) /\ (k + 1) - 1 = k /\ f[k] \in Seq(S \cap some)
    OBVIOUS
  <2>2. s[k + 1] \in S
    BY <2>1
  <2>3. CASE s[k + 1] \in some
    <3>1. f[k + 1] = Append(f[k], s[k + 1])
      BY <1>1, <2>1, <2>3
    <3>2. s[k + 1] \in S \cap some
      BY <2>2, <2>3
    <3> QED
      BY <2>1, <3>1, <3>2
  <2>4. CASE s[k + 1] \notin some
    BY <1>1, <2>1, <2>4
  <2> QED
    BY <2>3, <2>4
<1>4. P = Nat
  BY <1>2, <1>3, Inductive
<1> QED
  BY <1>1, <1>4

(* Sets that agree on the elements of s take the same of it.               *)
LEMMA ThoseSame ==
  ASSUME NEW S, NEW s \in Seq(S), NEW some, NEW others,
         \A i \in DOMAIN s : s[i] \in some <=> s[i] \in others
  PROVE  Talk!Those(s, some) = Talk!Those(s, others)
<1>1. PICK f : Filters(f, s, some, S)
  BY ThoseSteps, Zenon
<1>2. PICK g : Filters(g, s, others, S)
  BY ThoseSteps, Zenon
<1> USE DEF Filters
<1> DEFINE P == {k \in Nat : k <= Len(s) => f[k] = g[k]}
<1>3. 0 \in P
  BY <1>1, <1>2
<1>4. ASSUME NEW k \in P PROVE k + 1 \in P
  <2> SUFFICES ASSUME k + 1 <= Len(s) PROVE f[k + 1] = g[k + 1]
    OBVIOUS
  <2>1. k + 1 \in 1..Len(s) /\ (k + 1) - 1 = k /\ f[k] = g[k]
    OBVIOUS
  <2>2. s[k + 1] \in some <=> s[k + 1] \in others
    BY <2>1
  <2> QED
    BY <1>1, <1>2, <2>1, <2>2
<1>5. P = Nat
  BY <1>3, <1>4, Inductive
<1> QED
  BY <1>1, <1>2, <1>5

(* The provers expand \o and Append: these are names for them that stay.   *)
Join(s, t) == s \o t
Add(s, x) == Append(s, x)

(* An element may be added before two sequences are joined, or after.      *)
LEMMA AppendJoin ==
  ASSUME NEW S, NEW a \in Seq(S), NEW b \in Seq(S), NEW c \in S
  PROVE  Add(Join(a, b), c) = Join(a, Add(b, c))
  BY DEF Join, Add

(* Taking distributes over joining.                                        *)
LEMMA ThoseJoin ==
  ASSUME NEW S, NEW s \in Seq(S), NEW t \in Seq(S), NEW some
  PROVE  Talk!Those(Join(s, t), some) = Join(Talk!Those(s, some), Talk!Those(t, some))
<1> DEFINE st == s \o t
<1>0. /\ st \in Seq(S) /\ Len(st) = Len(s) + Len(t)
      /\ \A k \in 1..Len(s) : st[k] = s[k]
      /\ \A k \in 1..Len(t) : st[Len(s) + k] = t[k]
  OBVIOUS
<1> HIDE DEF st
<1>1. PICK f : Filters(f, s, some, S)
  BY ThoseSteps, Zenon
<1>2. PICK g : Filters(g, t, some, S)
  BY ThoseSteps, Zenon
<1>3. PICK h : Filters(h, st, some, S)
  BY <1>0, ThoseSteps, Zenon
<1> USE DEF Filters
<1> DEFINE P == {k \in Nat : k <= Len(s) => h[k] = f[k]}
           Q == {k \in Nat : k <= Len(t) => h[Len(s) + k] = f[Len(s)] \o g[k]}
<1>4. P = Nat
  <2>1. 0 \in P
    BY <1>1, <1>3
  <2>2. ASSUME NEW k \in P PROVE k + 1 \in P
    <3> SUFFICES ASSUME k + 1 <= Len(s) PROVE h[k + 1] = f[k + 1]
      OBVIOUS
    <3>1. k + 1 \in 1..Len(s) /\ k + 1 \in 1..Len(st) /\ (k + 1) - 1 = k /\ h[k] = f[k]
      BY <1>0
    <3>2. st[k + 1] = s[k + 1]
      BY <1>0, <3>1
    <3> QED
      BY <1>1, <1>3, <3>1, <3>2
  <2> QED
    BY <2>1, <2>2, Inductive
<1>5. Q = Nat
  <2>0. Len(s) \in Nat /\ Len(t) \in Nat /\ f[Len(s)] \in Seq(S) /\ h[Len(s)] = f[Len(s)]
    BY <1>1, <1>4
  <2>1. 0 \in Q
    <3>1. h[Len(s) + 0] = h[Len(s)] /\ f[Len(s)] \o << >> = f[Len(s)]
      BY <2>0
    <3> QED
      BY <1>2, <2>0, <3>1
  <2>2. ASSUME NEW k \in Q PROVE k + 1 \in Q
    <3>0. k \in Nat /\ k + 1 \in Nat
      OBVIOUS
    <3> SUFFICES ASSUME k + 1 <= Len(t) PROVE h[Len(s) + (k + 1)] = f[Len(s)] \o g[k + 1]
      BY <3>0
    <3>a. k + 1 \in 1..Len(t) /\ k \in 0..Len(t) /\ k <= Len(t)
      BY <2>0, <3>0
    <3>1. k + 1 \in 1..Len(t) /\ k \in 0..Len(t) /\ h[Len(s) + k] = f[Len(s)] \o g[k]
      BY <3>a
    <3>2. Len(s) + (k + 1) \in 1..Len(st) /\ (Len(s) + (k + 1)) - 1 = Len(s) + k /\ (k + 1) - 1 = k
      BY <1>0, <2>0, <3>1
    <3>3. st[Len(s) + (k + 1)] = t[k + 1] /\ g[k] \in Seq(S) /\ t[k + 1] \in S
      BY <1>0, <1>2, <3>1
    <3>4. Append(f[Len(s)] \o g[k], t[k + 1]) = f[Len(s)] \o Append(g[k], t[k + 1])
      <4>1. f[Len(s)] \in Seq(S) /\ g[k] \in Seq(S) /\ t[k + 1] \in S
        BY <2>0, <3>3
      <4> HIDE DEF Filters, Q
      <4>2. Add(Join(f[Len(s)], g[k]), t[k + 1]) = Join(f[Len(s)], Add(g[k], t[k + 1]))
        BY <4>1, AppendJoin
      <4> QED
        BY <4>2 DEF Join, Add
    <3> QED
      BY <1>2, <1>3, <3>1, <3>2, <3>3, <3>4
  <2> QED
    BY <2>1, <2>2, Inductive
<1> QED
  <2>0. Len(t) \in Nat /\ Len(t) <= Len(t)
    OBVIOUS
  <2>1. Len(t) \in Q /\ Len(t) <= Len(t)
    BY <1>5, <2>0
  <2>2. h[Len(s) + Len(t)] = f[Len(s)] \o g[Len(t)]
    BY <2>1
  <2> QED
    BY <1>0, <1>1, <1>2, <1>3, <2>2 DEF st, Join

(* Taking twice is taking what is in both.                                 *)
LEMMA ThoseThose ==
  ASSUME NEW S, NEW s \in Seq(S), NEW some, NEW others
  PROVE  Talk!Those(Talk!Those(s, some), others) = Talk!Those(s, some \cap others)
<1>1. PICK f : Filters(f, s, some, S)
  BY ThoseSteps, Zenon
<1>2. PICK g : Filters(g, s, some \cap others, S)
  BY ThoseSteps, Zenon
<1> USE DEF Filters
<1> DEFINE P == {k \in Nat : k <= Len(s) => Talk!Those(f[k], others) = g[k]}
<1>3. 0 \in P
  <2>1. << >> \in Seq(S) /\ \A i \in DOMAIN << >> : << >>[i] \notin others
    OBVIOUS
  <2>2. Talk!Those(<< >>, others) = << >>
    BY <2>1, ThoseNone
  <2> QED
    BY <1>1, <1>2, <2>2
<1>4. ASSUME NEW k \in P PROVE k + 1 \in P
  <2> SUFFICES ASSUME k + 1 <= Len(s) PROVE Talk!Those(f[k + 1], others) = g[k + 1]
    OBVIOUS
  <2>1. /\ k + 1 \in 1..Len(s) /\ k \in 0..Len(s) /\ (k + 1) - 1 = k
        /\ Talk!Those(f[k], others) = g[k]
    OBVIOUS
  <2> DEFINE x == s[k + 1]
             one == << x >>
  <2>2. one \in Seq(S) /\ DOMAIN one = {1} /\ one[1] = x
    BY <2>1
  <2>3. f[k] \in Seq(S) /\ g[k] \in Seq(S)
    BY <1>1, <1>2, <2>1
  <2>4. CASE x \notin some
    BY <1>1, <1>2, <2>1, <2>4
  <2>5. CASE x \in some
    <3>1. f[k + 1] = Append(f[k], x)
      BY <1>1, <2>1, <2>5
    <3>2. Append(f[k], x) = f[k] \o one
      BY <2>1, <2>3
    <3> HIDE DEF x, one, P
    <3>3. Talk!Those(f[k] \o one, others) = g[k] \o Talk!Those(one, others)
      <4>1. Talk!Those(f[k] \o one, others) = Talk!Those(f[k], others) \o Talk!Those(one, others)
        <5>1. f[k] \in Seq(S) /\ one \in Seq(S)
          BY <2>2, <2>3
        <5>2. /\ f[k] \o one = Join(f[k], one)
              /\ Talk!Those(f[k], others) \o Talk!Those(one, others)
                   = Join(Talk!Those(f[k], others), Talk!Those(one, others))
          BY DEF Join
        <5> HIDE DEF Filters
        <5> QED
          BY <5>1, <5>2, ThoseJoin
      <4> QED
        BY <2>1, <4>1
    <3>4. CASE x \in others
      <4>1. Talk!Those(one, others) = one
        <5>1. \A i \in DOMAIN one : one[i] \in others
          BY <2>2, <3>4
        <5> QED
          BY <2>2, <5>1, ThoseAll
      <4>2. g[k + 1] = Append(g[k], x)
        <5>1. g[k + 1] = Append(g[(k + 1) - 1], s[k + 1])
          BY <1>2, <2>1, <2>5, <3>4 DEF x, Filters
        <5> QED
          BY <2>1, <5>1 DEF x
      <4>3. Append(g[k], x) = g[k] \o one
        <5>1. x \in S
          BY <2>1 DEF x
        <5> QED
          BY SMTT(30), <2>3, <5>1 DEF one
      <4> QED
        BY <3>1, <3>2, <3>3, <4>1, <4>2, <4>3
    <3>5. CASE x \notin others
      <4>1. Talk!Those(one, others) = << >>
        <5>1. \A i \in DOMAIN one : one[i] \notin others
          BY <2>2, <3>5
        <5> QED
          BY <2>2, <5>1, ThoseNone
      <4>2. g[k + 1] = g[k]
        BY <1>2, <2>1, <2>5, <3>5 DEF x
      <4>3. g[k] \o << >> = g[k]
        BY <2>3
      <4> QED
        BY <3>1, <3>2, <3>3, <4>1, <4>2, <4>3
    <3> QED
      BY <3>4, <3>5
  <2> QED
    BY <2>4, <2>5
<1>5. P = Nat
  BY <1>3, <1>4, Inductive
<1> QED
  BY <1>1, <1>2, <1>5

(***************************************************************************)
(* What is said in the turns of one session.                               *)
(***************************************************************************)

(* A word, or the id of a call: a run, a reply of its model, a place in it. *)
(* The provers know of no string that it is in STRING.                     *)
Words == STRING \cup {"note", "not called", "not known"} \cup (Nat \X Nat \X Nat)
Kinds == STRING \cup {"text", "tool"}

PartT == [is : Kinds, says : Words]
ResultT == [call : Words, output : Seq(PartT), error : BOOLEAN]
StoredT == [call : Words, text : Seq(Words), error : BOOLEAN]
SaidT ==
  [role : {"user", "assistant", "tool"}, text : Seq(Words), calls : Seq(Words),
   results : Seq(StoredT)]
MessageT ==
  [role : {"user", "assistant"}, content : Seq(PartT)]
    \cup [role : {"tool"}, content : Seq(ResultT)]
ReplyT == [content : Seq(PartT), reason : STRING \cup {""}, usage : Nat]
EndedT ==
  [finish : {"", "done", "refusal", "content-filter", "max-duration", "max-steps",
             "max-total-tokens"},
   reply : Seq(PartT), structured : SUBSET {"json"},
   error : {"", "invalid-input", "no-model", "model-refused", "model-failed", "cancelled",
            "superseded", "not-recorded", "output-rejected"}]

Asks(said) == IF said.role = "assistant" THEN said.calls ELSE << >>
Answered(said) ==
  IF said.role = "tool" THEN [i \in DOMAIN said.results |-> said.results[i].call] ELSE << >>

(* A person speaks first, and every call has its answer in the next turn.   *)
Whole(c) ==
  /\ c # << >> => c[1].role = "user"
  /\ \A i \in DOMAIN c :
       /\ Asks(c[i]) # << >> => i < Len(c) /\ Answered(c[i + 1]) = Asks(c[i])
       /\ Answered(c[i]) # << >> => i > 1 /\ Asks(c[i - 1]) = Answered(c[i])

(* A message is stored as said.                                             *)
Echo(message, said) ==
  /\ message.role = said.role
  /\ Talk!Calls(message) = Asks(said) /\ Talk!Answers(message) = Answered(said)
  /\ Talk!Replayed(said) = Talk!Plain(message)

Refused(r) ==
  r.reason \in {"refusal", "content-filter"} \/ Talk!OfKinds(r.content, {"refusal"}) # << >>

Asked(r) ==
  /\ r.content \in Seq(Parts)
  /\ \E n \in 1..MAX_STEPS_CAP : r.max_steps = {n}
  /\ r.max_total_tokens \in SUBSET Nat

TalkTypes ==
  /\ pc \in {"idle", "loop", "calling", "replied", "tools", "concluding"}
  /\ runs \in Nat /\ {offered, shortened, late} \subseteq BOOLEAN
  /\ pc # "idle" => Asked(req)
  /\ {stored, kept, turns} \subseteq Seq(SaidT) /\ live \in Seq(MessageT)
  /\ counts \in [steps : Nat, tokens : Nat]
  /\ reply \in ReplyT /\ results \in Seq(ResultT)
  /\ Option(outcome, EndedT)

Echoes ==
  /\ Len(turns) = Len(live) \/ (Len(turns) = Len(live) + 1 /\ pc \in {"idle", "concluding"})
  /\ \A i \in DOMAIN live : Echo(live[i], turns[i])

Limits ==
  /\ pc \in {"loop", "calling", "tools"} => ~Refused(reply) /\ (counts.tokens > 0 => ~Talk!spent)
  /\ pc \in {"loop", "calling", "replied", "tools"} => outcome = {}
  /\ pc = "loop" =>
       \/ counts.steps < Talk!MaxSteps
       \/ shortened /\ counts.steps <= Talk!MaxSteps
  /\ pc \in {"calling", "replied"} => counts.steps <= Talk!MaxSteps + (IF shortened THEN 1 ELSE 0)
  /\ pc = "tools" => counts.steps < Talk!MaxSteps

Sending ==
  pc = "calling" =>
    sent = {[messages |-> Talk!to_messages(kept, Talk!instructions) \o live,
             tools |-> Talk!options(counts.steps)]}

Calling ==
  /\ pc = "replied" => results = << >>
  /\ pc = "tools" =>
       /\ Len(results) <= Len(Talk!tool_calls(reply.content))
       /\ \A k \in DOMAIN results : results[k].call = Talk!tool_calls(reply.content)[k]

(* The last turn is the reply the run ended with.                           *)
EndsWith(f) ==
  Len(turns) # Len(live) =>
    /\ turns[Len(turns)] = Talk!Turn("assistant", Talk!text_of(reply.content), << >>, << >>)
    /\ f.reply = Talk!without_tool_calls(reply.content)

Told ==
  pc = "concluding" =>
    outcome # {} /\ \A f \in outcome :
      /\ f.structured = {} /\ f.error # "output-rejected"
      /\ f.error = "" <=> f.finish # ""
      /\ f.finish # "" => EndsWith(f)
      /\ f.finish = "done" => f.reply = Talk!without_tool_calls(reply.content)

(* What is stored is what was said, and the reply the driver heard.         *)
Saved ==
  \A f \in outcome : pc = "idle" /\ f.finish # "" =>
    /\ stored = kept \o turns
    /\ Len(turns) # Len(live) =>
         turns[Len(turns)] = Talk!Turn("assistant", Talk!text_of(f.reply), << >>, << >>)

(* What the helpers on parts return.                                        *)
LEMMA SaysOf ==
  ASSUME NEW parts \in Seq(PartT)
  PROVE  Talk!Says(parts) \in Seq(Words) /\ Len(Talk!Says(parts)) = Len(parts)
<1>0. /\ Len(parts) \in Nat /\ DOMAIN parts = 1..Len(parts)
      /\ \A i \in 1..Len(parts) : parts[i] \in PartT
  OBVIOUS
<1>1. /\ Len(parts) \in Nat /\ DOMAIN parts = 1..Len(parts)
      /\ \A i \in 1..Len(parts) : parts[i].says \in Words
  <2>1. \A p \in PartT : p.says \in Words
    BY DEF PartT
  <2> QED
    BY <1>0, <2>1
<1> DEFINE says == [i \in 1..Len(parts) |-> parts[i].says]
<1>2. says \in Seq(Words) /\ Len(says) = Len(parts)
  BY <1>1
<1> QED
  BY <1>1, <1>2 DEF Talk!Says

(* What is noted of a message's parts is words.                            *)
LEMMA NotedOf ==
  ASSUME NEW parts \in Seq(PartT)
  PROVE  Talk!Noted(parts) \in Seq(Words)
<1>0. /\ Len(parts) \in Nat /\ DOMAIN parts = 1..Len(parts)
      /\ \A i \in 1..Len(parts) : parts[i] \in PartT
  OBVIOUS
<1>1. /\ Len(parts) \in Nat /\ DOMAIN parts = 1..Len(parts)
      /\ \A i \in 1..Len(parts) : parts[i].says \in Words
  <2>1. \A p \in PartT : p.says \in Words
    BY DEF PartT
  <2> QED
    BY <1>0, <2>1
<1> DEFINE word(i) == IF parts[i].is = "text" THEN parts[i].says ELSE "note"
           noted == [i \in 1..Len(parts) |-> word(i)]
<1>2. \A i \in 1..Len(parts) : word(i) \in Words
  <2>1. "note" \in Words
    BY DEF Words
  <2> QED
    BY <1>1, <2>1
<1> HIDE DEF word
<1>3. noted \in Seq(Words)
  BY <1>1, <1>2
<1> QED
  BY <1>1, <1>3 DEF Talk!Noted, word

(* Parts by kind, as those in a set of parts.                              *)
LEMMA KindsAre ==
  ASSUME NEW parts \in Seq(PartT), NEW kinds
  PROVE  /\ Talk!OfKinds(parts, kinds) = Talk!Those(parts, {p \in PartT : p.is \in kinds})
         /\ Talk!OfKinds(parts, kinds) \in Seq(PartT)
<1> DEFINE some == {p \in Talk!Range(parts) : p.is \in kinds}
           all == {p \in PartT : p.is \in kinds}
<1>1. \A i \in DOMAIN parts : parts[i] \in some <=> parts[i] \in all
  BY DEF Talk!Range
<1>2. Talk!OfKinds(parts, kinds) = Talk!Those(parts, some)
  BY DEF Talk!OfKinds
<1> HIDE DEF some, all
<1>3. Talk!Those(parts, some) = Talk!Those(parts, all)
  BY <1>1, ThoseSame
<1>4. Talk!Those(parts, some) \in Seq(PartT)
  BY ThoseOf
<1> QED
  BY <1>2, <1>3, <1>4 DEF all

(* A reply without its tool calls, and what of it its driver is told.      *)
LEMMA WithoutIs ==
  ASSUME NEW parts \in Seq(PartT)
  PROVE  /\ Talk!without_tool_calls(parts) = Talk!Those(parts, {p \in PartT : p.is # "tool"})
         /\ Talk!without_tool_calls(parts) \in Seq(PartT)
         /\ Talk!reply_parts(parts) =
              Talk!Those(parts, {p \in PartT : p.is \notin {"tool", "reasoning"}})
         /\ Talk!reply_parts(parts) \in Seq(PartT)
<1> DEFINE some == {p \in Talk!Range(parts) : p.is # "tool"}
           all == {p \in PartT : p.is # "tool"}
           left == {p \in Talk!Range(parts) : p.is \notin {"tool", "reasoning"}}
           told == {p \in PartT : p.is \notin {"tool", "reasoning"}}
<1>1. \A i \in DOMAIN parts : /\ parts[i] \in some <=> parts[i] \in all
                              /\ parts[i] \in left <=> parts[i] \in told
  BY DEF Talk!Range
<1>2. /\ Talk!without_tool_calls(parts) = Talk!Those(parts, some)
      /\ Talk!reply_parts(parts) = Talk!Those(parts, left)
  BY DEF Talk!without_tool_calls, Talk!reply_parts
<1> HIDE DEF some, all, left, told
<1>3. Talk!Those(parts, some) = Talk!Those(parts, all)
  BY <1>1, ThoseSame
<1>4. Talk!Those(parts, left) = Talk!Those(parts, told)
  BY <1>1, ThoseSame
<1>5. Talk!Those(parts, some) \in Seq(PartT) /\ Talk!Those(parts, left) \in Seq(PartT)
  BY ThoseOf
<1> QED
  BY <1>2, <1>3, <1>4, <1>5 DEF all, told

(* The calls and the text of a message are words.                          *)
LEMMA TextsOf ==
  ASSUME NEW parts \in Seq(PartT)
  PROVE  Talk!tool_calls(parts) \in Seq(Words) /\ Talk!text_of(parts) \in Seq(Words)
<1>1. \A kinds : Talk!OfKinds(parts, kinds) \in Seq(PartT)
  BY KindsAre
<1> QED
  BY <1>1, SaysOf DEF Talk!tool_calls, Talk!text_of

(* No parts of a kind, nothing by that kind.                               *)
LEMMA NoneOfKinds ==
  ASSUME NEW parts \in Seq(PartT), NEW kinds,
         \A i \in DOMAIN parts : parts[i].is \notin kinds
  PROVE  Talk!OfKinds(parts, kinds) = << >>
<1>1. Talk!OfKinds(parts, kinds) = Talk!Those(parts, {p \in PartT : p.is \in kinds})
  BY KindsAre
<1> DEFINE all == {p \in PartT : p.is \in kinds}
<1>2. \A i \in DOMAIN parts : parts[i] \notin all
  OBVIOUS
<1> HIDE DEF all
<1>3. Talk!Those(parts, all) = << >>
  BY <1>2, ThoseNone
<1> QED
  BY <1>1, <1>3 DEF all

(* An empty reply calls no tool and refuses nothing.                       *)
LEMMA NothingAsked == Talk!tool_calls(<< >>) = << >> /\ Talk!OfKinds(<< >>, {"refusal"}) = << >>
<1>1. << >> \in Seq(PartT) /\ \A i \in DOMAIN << >> : << >>[i].is \notin {"tool", "refusal"}
  OBVIOUS
<1>2. Talk!OfKinds(<< >>, {"refusal"}) = << >> /\ Talk!OfKinds(<< >>, {"tool"}) = << >>
  BY <1>1, NoneOfKinds
<1> QED
  BY <1>2 DEF Talk!tool_calls, Talk!Says

(* A reply as it is told has neither calls nor reasoning, and all its text. *)
LEMMA NoCallsLeft ==
  ASSUME NEW parts \in Seq(PartT)
  PROVE  /\ Talk!tool_calls(Talk!without_tool_calls(parts)) = << >>
         /\ Talk!tool_calls(Talk!reply_parts(parts)) = << >>
         /\ Talk!OfKinds(Talk!reply_parts(parts), {"reasoning"}) = << >>
<1> DEFINE all == {p \in PartT : p.is # "tool"}
           told == {p \in PartT : p.is \notin {"tool", "reasoning"}}
           w == Talk!without_tool_calls(parts)
           r == Talk!reply_parts(parts)
<1>1. w = Talk!Those(parts, all) /\ r = Talk!Those(parts, told)
  BY WithoutIs
<1>2. w \in Seq(PartT) /\ r \in Seq(PartT)
  BY WithoutIs
<1>3. w \in Seq(PartT \cap all) /\ r \in Seq(PartT \cap told)
  <2> HIDE DEF all, told, w, r
  <2> QED
    BY <1>1, ThoseIn
<1> HIDE DEF w, r
<1>4. /\ \A i \in DOMAIN w : w[i] \in all
      /\ \A i \in DOMAIN r : r[i] \in told
  BY <1>3
<1>5. /\ \A i \in DOMAIN w : w[i].is \notin {"tool"}
      /\ \A i \in DOMAIN r : r[i].is \notin {"tool"}
      /\ \A i \in DOMAIN r : r[i].is \notin {"reasoning"}
  BY <1>4
<1>6. /\ Talk!OfKinds(w, {"tool"}) = << >> /\ Talk!OfKinds(r, {"tool"}) = << >>
      /\ Talk!OfKinds(r, {"reasoning"}) = << >>
  BY <1>2, <1>5, NoneOfKinds
<1> QED
  BY <1>6 DEF Talk!tool_calls, Talk!Says, w, r

(* A driver is told all the text of a reply, calls and reasoning left out. *)
LEMMA TextIsTold ==
  ASSUME NEW parts \in Seq(PartT)
  PROVE  Talk!text_of(Talk!reply_parts(Talk!without_tool_calls(parts))) = Talk!text_of(parts)
<1> DEFINE all == {p \in PartT : p.is # "tool"}
           told == {p \in PartT : p.is \notin {"tool", "reasoning"}}
           text == {p \in PartT : p.is \in {"text", "refusal"}}
           w == Talk!without_tool_calls(parts)
           r == Talk!reply_parts(w)
<1>1. w = Talk!Those(parts, all) /\ w \in Seq(PartT)
  BY WithoutIs
<1>2. r = Talk!Those(w, told) /\ r \in Seq(PartT)
  <2> HIDE DEF w
  <2> QED
    BY <1>1, WithoutIs
<1>3. /\ Talk!OfKinds(parts, {"text", "refusal"}) = Talk!Those(parts, text)
      /\ Talk!OfKinds(r, {"text", "refusal"}) = Talk!Those(r, text)
  <2> HIDE DEF r
  <2> QED
    BY <1>2, KindsAre
<1>4. (all \cap told) \cap text = text
  OBVIOUS
<1> HIDE DEF all, told, text, w, r
<1>5. r = Talk!Those(parts, all \cap told)
  BY <1>1, <1>2, ThoseThose
<1>6. Talk!Those(r, text) = Talk!Those(parts, (all \cap told) \cap text)
  BY <1>5, ThoseThose
<1> QED
  BY <1>3, <1>4, <1>6 DEF Talk!text_of, r, w
(* What was stored of a reply asks for what the reply asked for.            *)
LEMMA ReplayedCalls ==
  ASSUME NEW text, NEW calls \in Seq(Words)
  PROVE  Talk!tool_calls(
           (IF text = << >> THEN << >> ELSE <<Talk!Part("text", text)>>)
             \o [i \in DOMAIN calls |-> Talk!Part("tool", calls[i])]) = calls
<1> DEFINE S == [is : {"text"}, says : {text}] \cup [is : {"tool"}, says : Words]
           asked == [i \in 1..Len(calls) |-> [is |-> "tool", says |-> calls[i]]]
           said == IF text = << >> THEN << >> ELSE <<[is |-> "text", says |-> text]>>
           both == Join(said, asked)
           tools == {p \in Talk!Range(both) : p.is \in {"tool"}}
<1>1. Len(calls) \in Nat /\ DOMAIN calls = 1..Len(calls) /\ \A i \in 1..Len(calls) : calls[i] \in Words
  OBVIOUS
<1>2. /\ asked \in Seq(S) /\ Len(asked) = Len(calls)
      /\ \A i \in 1..Len(calls) : asked[i] = [is |-> "tool", says |-> calls[i]]
  BY <1>1
<1>3. said \in Seq(S) /\ Len(said) \in 0..1 /\ \A i \in DOMAIN said : said[i].is = "text"
  <2>1. CASE text = << >>
    BY <2>1
  <2>2. CASE text # << >>
    <3> DEFINE p == [is |-> "text", says |-> text]
    <3>1. said = <<p>> /\ p \in S /\ p.is = "text"
      BY <2>2
    <3> HIDE DEF p, S, said
    <3> QED
      BY <3>1
  <2> QED
    BY <2>1, <2>2
<1>4. /\ both \in Seq(S) /\ Len(both) = Len(said) + Len(asked)
      /\ \A i \in 1..Len(asked) : both[Len(said) + i] = asked[i] /\ Len(said) + i \in DOMAIN both
  <2> HIDE DEF S, asked, said
  <2> QED
    BY <1>2, <1>3 DEF Join
<1> HIDE DEF both
<1>5. \A i \in DOMAIN said : said[i] \notin tools
  BY <1>3
<1>6. \A i \in DOMAIN asked : asked[i] \in tools
  <2> SUFFICES ASSUME NEW i \in DOMAIN asked PROVE asked[i] \in tools
    OBVIOUS
  <2>1. i \in 1..Len(asked) /\ asked[i].is = "tool"
    BY <1>1, <1>2
  <2>2. asked[i] \in Talk!Range(both)
    BY <1>4, <2>1 DEF Talk!Range
  <2> QED
    BY <2>1, <2>2
<1> HIDE DEF S, tools, asked, said
<1>7. Talk!Those(said, tools) = << >>
  BY <1>3, <1>5, ThoseNone
<1>8. Talk!Those(asked, tools) = asked
  BY <1>2, <1>6, ThoseAll
<1>9. Talk!Those(both, tools) = Join(<< >>, asked)
  BY <1>2, <1>3, <1>7, <1>8, ThoseJoin DEF both
<1>10. Talk!Those(both, tools) = asked
  <2>1. << >> \o asked = asked
    BY <1>2
  <2> QED
    BY <1>9, <2>1 DEF Join
<1>11. Talk!tool_calls(both) = Talk!Says(asked)
  BY <1>10 DEF Talk!tool_calls, Talk!OfKinds, tools
<1>12. Talk!Says(asked) = calls
  <2>1. DOMAIN asked = 1..Len(calls)
    BY <1>1, <1>2
  <2>a. ASSUME NEW i \in 1..Len(calls) PROVE asked[i].says = calls[i]
    <3>1. asked[i] = [is |-> "tool", says |-> calls[i]]
      BY <1>2
    <3> QED
      BY ONLY <3>1
  <2>2. Talk!Says(asked) = [i \in 1..Len(calls) |-> calls[i]]
    BY <2>1, <2>a DEF Talk!Says
  <2> QED
    BY <1>1, <2>2
<1> QED
  BY <1>1, <1>11, <1>12 DEF both, said, asked, Join, Talk!Part

(* What is stored of a message is its echo.                                 *)
LEMMA EchoUser ==
  ASSUME NEW content \in Seq(PartT)
  PROVE  LET m == Talk!Message("user", content)
             t == Talk!Turn("user", Talk!user_text(content), << >>, << >>)
         IN m \in MessageT /\ t \in SaidT /\ Echo(m, t)
<1> DEFINE m == Talk!Message("user", content)
           t == Talk!Turn("user", Talk!user_text(content), << >>, << >>)
<1>1. m = [role |-> "user", content |-> content]
  BY DEF Talk!Message
<1>2. t = [role |-> "user", text |-> Talk!user_text(content), calls |-> << >>, results |-> << >>]
  BY DEF Talk!Turn
<1>3. Talk!user_text(content) = Talk!Noted(content) /\ Talk!Noted(content) \in Seq(Words)
  BY NotedOf DEF Talk!user_text
<1> HIDE DEF m, t
<1>4. m \in MessageT /\ t \in SaidT
  BY <1>1, <1>2, <1>3 DEF MessageT, SaidT
<1>5. /\ Talk!Calls(m) = << >> /\ Talk!Answers(m) = << >>
      /\ Asks(t) = << >> /\ Answered(t) = << >>
  BY <1>1, <1>2 DEF Talk!Calls, Talk!Answers, Asks, Answered
<1>6. /\ Talk!Replayed(t) = Talk!Message("user", <<Talk!Part("text", t.text)>>)
      /\ Talk!Plain(m) = Talk!Message("user", <<Talk!Part("text", Talk!Noted(m.content))>>)
  BY <1>1, <1>2 DEF Talk!Replayed, Talk!Plain
<1>7. Talk!Replayed(t) = Talk!Plain(m) /\ m.role = t.role
  BY <1>1, <1>2, <1>3, <1>6
<1> QED
  BY <1>4, <1>5, <1>7 DEF Echo, m, t

(* A reply is stored as its text and its calls.                            *)
LEMMA EchoReply ==
  ASSUME NEW content \in Seq(PartT)
  PROVE  LET m == Talk!Message("assistant", content)
             t == Talk!Turn("assistant", Talk!text_of(content), Talk!tool_calls(content), << >>)
         IN /\ m \in MessageT /\ t \in SaidT /\ Echo(m, t)
            /\ Asks(t) = Talk!tool_calls(content) /\ Answered(t) = << >>
<1> DEFINE m == Talk!Message("assistant", content)
           t == Talk!Turn("assistant", Talk!text_of(content), Talk!tool_calls(content), << >>)
<1>1. m = [role |-> "assistant", content |-> content]
  BY DEF Talk!Message
<1>2. t = [role |-> "assistant", text |-> Talk!text_of(content),
           calls |-> Talk!tool_calls(content), results |-> << >>]
  BY DEF Talk!Turn
<1>3. Talk!text_of(content) \in Seq(Words) /\ Talk!tool_calls(content) \in Seq(Words)
  BY TextsOf
<1>4. Talk!Plain(m) = Talk!Replayed(t)
  BY <1>1 DEF Talk!Plain
<1> HIDE DEF m, t
<1>5. m \in MessageT /\ t \in SaidT
  BY <1>1, <1>2, <1>3 DEF MessageT, SaidT
<1>6. /\ Talk!Calls(m) = Talk!tool_calls(content) /\ Talk!Answers(m) = << >>
      /\ Asks(t) = Talk!tool_calls(content) /\ Answered(t) = << >> /\ m.role = t.role
  BY <1>1, <1>2 DEF Talk!Calls, Talk!Answers, Asks, Answered
<1> QED
  BY <1>4, <1>5, <1>6 DEF Echo, m, t

(* The results of a round are stored with the calls they answer.           *)
LEMMA EchoResults ==
  ASSUME NEW answers \in Seq(ResultT)
  PROVE  LET m == Talk!Message("tool", answers)
             t == Talk!Turn("tool", << >>, << >>,
                    [k \in DOMAIN answers |-> Talk!stored_result(answers[k])])
         IN /\ m \in MessageT /\ t \in SaidT /\ Echo(m, t)
            /\ Asks(t) = << >> /\ Answered(t) = [k \in DOMAIN answers |-> answers[k].call]
<1> DEFINE stub(k) == [call |-> answers[k].call, text |-> Talk!Noted(answers[k].output),
                       error |-> answers[k].error]
           rs == [k \in DOMAIN answers |-> Talk!stored_result(answers[k])]
           m == Talk!Message("tool", answers)
           t == Talk!Turn("tool", << >>, << >>, rs)
<1>0. Len(answers) \in Nat /\ DOMAIN answers = 1..Len(answers)
      /\ \A k \in DOMAIN answers : answers[k] \in ResultT
  OBVIOUS
<1>1. m = [role |-> "tool", content |-> answers]
  BY DEF Talk!Message
<1>2. t = [role |-> "tool", text |-> << >>, calls |-> << >>, results |-> rs]
  BY DEF Talk!Turn
<1>3. ASSUME NEW k \in DOMAIN answers
      PROVE  /\ Talk!stored_result(answers[k]) = stub(k) /\ stub(k) \in StoredT
             /\ answers[k] = [call |-> answers[k].call, output |-> answers[k].output,
                              error |-> answers[k].error]
  <2>1. /\ answers[k].call \in Words /\ answers[k].output \in Seq(PartT)
        /\ answers[k].error \in BOOLEAN
        /\ answers[k] = [call |-> answers[k].call, output |-> answers[k].output,
                         error |-> answers[k].error]
    <3>1. \A r \in ResultT :
            /\ r.call \in Words /\ r.output \in Seq(PartT) /\ r.error \in BOOLEAN
            /\ r = [call |-> r.call, output |-> r.output, error |-> r.error]
      BY DEF ResultT
    <3> QED
      BY <1>0, <3>1
  <2>2. Talk!Noted(answers[k].output) \in Seq(Words)
    BY <2>1, NotedOf
  <2> QED
    BY <2>1, <2>2 DEF Talk!stored_result, Talk!output_text, StoredT
<1>4. rs = [k \in 1..Len(answers) |-> stub(k)]
  BY <1>0, <1>3
<1>5. rs \in Seq(StoredT) /\ DOMAIN rs = DOMAIN answers
      /\ \A k \in DOMAIN answers : rs[k] = stub(k)
  <2> HIDE DEF stub, rs
  <2> QED
    BY <1>0, <1>3, <1>4
<1>6. \A k \in DOMAIN answers : rs[k].call = answers[k].call
  BY <1>5
<1> HIDE DEF rs, m, t
<1>7. m \in MessageT /\ t \in SaidT
  BY <1>1, <1>2, <1>5 DEF MessageT, SaidT
<1>8. /\ Talk!Calls(m) = << >> /\ Asks(t) = << >> /\ m.role = t.role
      /\ Talk!Answers(m) = [k \in DOMAIN answers |-> answers[k].call]
  BY <1>1, <1>2 DEF Talk!Calls, Talk!Answers, Asks
<1>9. Answered(t) = [k \in DOMAIN answers |-> answers[k].call]
  BY <1>2, <1>5, <1>6 DEF Answered
<1>10. Talk!Plain(m) = Talk!Message("tool", [k \in DOMAIN answers |->
         [answers[k] EXCEPT !.output = <<Talk!Part("text", Talk!Noted(@))>>]])
  BY <1>1 DEF Talk!Plain
<1>11. Talk!Replayed(t) = Talk!Message("tool", [k \in DOMAIN rs |->
         [call |-> rs[k].call, error |-> rs[k].error,
          output |-> <<Talk!Part("text", rs[k].text)>>]])
  BY <1>2 DEF Talk!Replayed
<1>12. ASSUME NEW k \in DOMAIN answers
       PROVE  [answers[k] EXCEPT !.output = <<Talk!Part("text", Talk!Noted(@))>>] =
                [call |-> rs[k].call, error |-> rs[k].error,
                 output |-> <<Talk!Part("text", rs[k].text)>>]
  <2> DEFINE o == <<Talk!Part("text", Talk!Noted(answers[k].output))>>
  <2>1. [answers[k] EXCEPT !.output = <<Talk!Part("text", Talk!Noted(@))>>] =
          [call |-> answers[k].call, output |-> o, error |-> answers[k].error]
    <3> HIDE DEF o
    <3>a. \A r \in ResultT : \A x :
            [r EXCEPT !.output = x] = [call |-> r.call, output |-> x, error |-> r.error]
      BY DEF ResultT
    <3>1. [answers[k] EXCEPT !.output = o] =
            [call |-> answers[k].call, output |-> o, error |-> answers[k].error]
      BY <1>0, <3>a
    <3> QED
      BY <3>1 DEF o
  <2>2. rs[k].text = Talk!Noted(answers[k].output) /\ rs[k].error = answers[k].error
    BY <1>5
  <2> QED
    BY <1>6, <2>1, <2>2
<1>13. Talk!Replayed(t) = Talk!Plain(m)
  BY <1>5, <1>10, <1>11, <1>12
<1> QED
  BY <1>7, <1>8, <1>9, <1>13 DEF Echo, m, t, rs

(* A turn replayed asks and answers what it did.                            *)
LEMMA ReplayedIs ==
  ASSUME NEW t \in SaidT
  PROVE  /\ Talk!Replayed(t).role = t.role
         /\ Talk!Calls(Talk!Replayed(t)) = Asks(t)
         /\ Talk!Answers(Talk!Replayed(t)) = Answered(t)
<1>0. t.role \in {"user", "assistant", "tool"} /\ t.calls \in Seq(Words)
  BY DEF SaidT
<1>1. CASE t.role = "assistant"
  <2> DEFINE content == (IF t.text = << >> THEN << >> ELSE <<Talk!Part("text", t.text)>>)
                          \o [i \in DOMAIN t.calls |-> Talk!Part("tool", t.calls[i])]
  <2>1. Talk!tool_calls(content) = t.calls
    BY <1>0, ReplayedCalls
  <2> HIDE DEF content
  <2>2. Talk!Replayed(t) = [role |-> "assistant", content |-> content]
    BY <1>1 DEF Talk!Replayed, Talk!Message, content
  <2> QED
    BY <1>1, <2>1, <2>2 DEF Talk!Calls, Talk!Answers, Asks, Answered
<1>2. CASE t.role = "tool"
  <2> DEFINE content == [i \in DOMAIN t.results |->
                [call |-> t.results[i].call, error |-> t.results[i].error,
                 output |-> <<Talk!Part("text", t.results[i].text)>>]]
  <2>1. Talk!Replayed(t) = [role |-> "tool", content |-> content]
    BY <1>2 DEF Talk!Replayed, Talk!Message
  <2>2. DOMAIN content = DOMAIN t.results
        /\ \A i \in DOMAIN t.results : content[i].call = t.results[i].call
    OBVIOUS
  <2> HIDE DEF content
  <2> QED
    BY <1>2, <2>1, <2>2 DEF Talk!Calls, Talk!Answers, Asks, Answered
<1>3. CASE t.role = "user"
  BY <1>3 DEF Talk!Replayed, Talk!Message, Talk!Calls, Talk!Answers, Asks, Answered
<1> QED
  BY <1>0, <1>1, <1>2, <1>3
(* Conversations one after the other are one, and so is its end from where  *)
(* a person speaks.                                                         *)
LEMMA WholeJoin ==
  ASSUME NEW c \in Seq(SaidT), NEW d \in Seq(SaidT), Whole(c), Whole(d)
  PROVE  c \o d \in Seq(SaidT) /\ Whole(c \o d)
<1> DEFINE e == c \o d
<1>1. /\ e \in Seq(SaidT) /\ Len(e) = Len(c) + Len(d) /\ Len(c) \in Nat /\ Len(d) \in Nat
      /\ \A i \in 1..Len(c) : e[i] = c[i]
      /\ \A i \in 1..Len(d) : e[Len(c) + i] = d[i]
      /\ \A i \in (Len(c) + 1)..Len(e) : i - Len(c) \in 1..Len(d) /\ e[i] = d[i - Len(c)]
      /\ DOMAIN e = 1..Len(e) /\ DOMAIN c = 1..Len(c) /\ DOMAIN d = 1..Len(d)
  OBVIOUS
<1>2. e # << >> => e[1].role = "user"
  <2>1. CASE c = << >>
    <3>1. e = d
      BY <2>1
    <3> QED
      BY <3>1 DEF Whole
  <2>2. CASE c # << >>
    <3>1. 1 \in 1..Len(c)
      BY <2>2
    <3> QED
      BY <1>1, <2>2, <3>1 DEF Whole
  <2> QED
    BY <2>1, <2>2
<1> HIDE DEF e
<1>3. ASSUME NEW i \in DOMAIN e
      PROVE  /\ Asks(e[i]) # << >> => i < Len(e) /\ Answered(e[i + 1]) = Asks(e[i])
             /\ Answered(e[i]) # << >> => i > 1 /\ Asks(e[i - 1]) = Answered(e[i])
  <2>1. CASE i \in 1..Len(c)
    <3>1. i \in Nat /\ i \in DOMAIN c /\ e[i] = c[i]
      BY <1>1, <2>1
    <3>2. ASSUME Asks(c[i]) # << >> PROVE i < Len(e) /\ Answered(e[i + 1]) = Asks(e[i])
      <4>1. i < Len(c) /\ Answered(c[i + 1]) = Asks(c[i])
        BY <3>1, <3>2 DEF Whole
      <4>2. i + 1 \in 1..Len(c) /\ i < Len(e)
        BY <1>1, <3>1, <4>1
      <4>3. e[i + 1] = c[i + 1]
        BY <1>1, <4>2
      <4> QED
        BY <3>1, <4>1, <4>2, <4>3
    <3>3. ASSUME Answered(c[i]) # << >> PROVE i > 1 /\ Asks(e[i - 1]) = Answered(e[i])
      <4>1. i > 1 /\ Asks(c[i - 1]) = Answered(c[i])
        BY <3>1, <3>3 DEF Whole
      <4>2. i - 1 \in 1..Len(c)
        BY <1>1, <2>1, <4>1
      <4>3. e[i - 1] = c[i - 1]
        BY <1>1, <4>2
      <4> QED
        BY <3>1, <4>1, <4>3
    <3> QED
      BY <3>1, <3>2, <3>3
  <2>2. CASE i \in (Len(c) + 1)..Len(e)
    <3> DEFINE k == i - Len(c)
    <3>1. k \in DOMAIN d /\ k \in Nat /\ e[i] = d[k] /\ i = Len(c) + k /\ i \in Nat
      BY <1>1, <2>2
    <3> HIDE DEF k
    <3>2. ASSUME Asks(d[k]) # << >> PROVE i < Len(e) /\ Answered(e[i + 1]) = Asks(e[i])
      <4>1. k < Len(d) /\ Answered(d[k + 1]) = Asks(d[k])
        BY <3>1, <3>2 DEF Whole
      <4>a. Len(c) \in Nat /\ Len(d) \in Nat /\ Len(e) = Len(c) + Len(d)
        BY <1>1
      <4>2. k + 1 \in 1..Len(d) /\ i < Len(e) /\ i + 1 = Len(c) + (k + 1)
        BY <3>1, <4>1, <4>a
      <4>3. e[i + 1] = d[k + 1]
        BY <1>1, <4>2
      <4> QED
        BY <3>1, <4>1, <4>2, <4>3
    <3>3. ASSUME Answered(d[k]) # << >> PROVE i > 1 /\ Asks(e[i - 1]) = Answered(e[i])
      <4>1. k > 1 /\ Asks(d[k - 1]) = Answered(d[k])
        BY <3>1, <3>3 DEF Whole
      <4>a. Len(c) \in Nat /\ Len(d) \in Nat /\ k \in 1..Len(d)
        BY <1>1, <3>1
      <4>2. k - 1 \in 1..Len(d) /\ i > 1 /\ i - 1 = Len(c) + (k - 1)
        BY SMTT(30), <3>1, <4>1, <4>a
      <4>3. e[i - 1] = d[k - 1]
        BY <1>1, <4>2
      <4> QED
        BY <3>1, <4>1, <4>2, <4>3
    <3> QED
      BY <3>1, <3>2, <3>3
  <2> QED
    BY <1>1, <2>1, <2>2
<1>4. Whole(e)
  BY <1>2, <1>3 DEF Whole, e
<1> QED
  BY <1>1, <1>4 DEF e

(* A whole conversation cut before a user's turn is whole.                 *)
LEMMA WholeCut ==
  ASSUME NEW c \in Seq(SaidT), Whole(c), NEW n \in DOMAIN c, c[n].role = "user"
  PROVE  SubSeq(c, n, Len(c)) \in Seq(SaidT) /\ Whole(SubSeq(c, n, Len(c)))
<1> DEFINE d == SubSeq(c, n, Len(c))
<1>1. /\ n \in Nat /\ n >= 1 /\ n <= Len(c) /\ Len(c) \in Nat /\ DOMAIN c = 1..Len(c)
      /\ d \in Seq(SaidT) /\ Len(d) = Len(c) - n + 1 /\ DOMAIN d = 1..Len(d)
      /\ \A i \in 1..Len(d) : d[i] = c[n + i - 1]
  OBVIOUS
<1> HIDE DEF d
<1>2. d[1].role = "user"
  <2>1. 1 \in 1..Len(d) /\ n + 1 - 1 = n
    BY <1>1
  <2> QED
    BY <1>1, <2>1
<1>3. ASSUME NEW i \in DOMAIN d
      PROVE  /\ Asks(d[i]) # << >> => i < Len(d) /\ Answered(d[i + 1]) = Asks(d[i])
             /\ Answered(d[i]) # << >> => i > 1 /\ Asks(d[i - 1]) = Answered(d[i])
  <2> DEFINE k == n + i - 1
  <2>1. k \in DOMAIN c /\ k \in Nat /\ i \in Nat /\ d[i] = c[k] /\ k + 1 = n + (i + 1) - 1
        /\ k = n + i - 1
    BY <1>1
  <2> HIDE DEF k
  <2>2. ASSUME Asks(c[k]) # << >> PROVE i < Len(d) /\ Answered(d[i + 1]) = Asks(d[i])
    <3>1. k < Len(c) /\ Answered(c[k + 1]) = Asks(c[k])
      BY <2>1, <2>2 DEF Whole
    <3>2. i + 1 \in 1..Len(d) /\ i < Len(d)
      BY <1>1, <2>1, <3>1
    <3>3. d[i + 1] = c[k + 1]
      BY <1>1, <2>1, <3>2
    <3> QED
      BY <2>1, <3>1, <3>2, <3>3
  <2>3. ASSUME Answered(c[k]) # << >> PROVE i > 1 /\ Asks(d[i - 1]) = Answered(d[i])
    <3>1. k > 1 /\ Asks(c[k - 1]) = Answered(c[k])
      BY <2>1, <2>3 DEF Whole
    <3>2. i # 1
      <4>1. ASSUME i = 1 PROVE Answered(c[k]) = << >>
        <5>1. c[k].role = "user"
          BY <1>1, <2>1, <4>1
        <5> QED
          BY <5>1 DEF Answered
      <4> QED
        BY <2>3, <4>1
    <3>3. i > 1 /\ i - 1 \in 1..Len(d) /\ k - 1 = n + (i - 1) - 1
      BY <1>1, <2>1, <3>2
    <3>4. d[i - 1] = c[k - 1]
      BY <1>1, <3>3
    <3> QED
      BY <2>1, <3>1, <3>3, <3>4
  <2> QED
    BY <2>1, <2>2, <2>3
<1>4. Whole(d)
  BY <1>2, <1>3 DEF Whole
<1> QED
  BY <1>1, <1>4 DEF d

(* A turn that asks for nothing, and one with the answers to it, are added. *)
LEMMA WholeAppend ==
  ASSUME NEW c \in Seq(SaidT), Whole(c), c # << >>, NEW x \in SaidT,
         Asks(x) = << >>, Answered(x) = << >>
  PROVE  Append(c, x) \in Seq(SaidT) /\ Whole(Append(c, x))
<1> DEFINE d == Append(c, x)
<1>1. /\ Len(c) \in Nat /\ Len(c) > 0 /\ DOMAIN c = 1..Len(c)
      /\ d \in Seq(SaidT) /\ Len(d) = Len(c) + 1 /\ DOMAIN d = 1..Len(d)
      /\ \A i \in 1..Len(c) : d[i] = c[i]
      /\ d[Len(d)] = x
  OBVIOUS
<1> HIDE DEF d
<1>2. d[1].role = "user"
  BY <1>1 DEF Whole
<1>3. ASSUME NEW i \in DOMAIN d
      PROVE  /\ Asks(d[i]) # << >> => i < Len(d) /\ Answered(d[i + 1]) = Asks(d[i])
             /\ Answered(d[i]) # << >> => i > 1 /\ Asks(d[i - 1]) = Answered(d[i])
  <2>1. CASE i = Len(d)
    BY <1>1, <2>1
  <2>2. CASE i # Len(d)
    <3>1. i \in DOMAIN c /\ i \in Nat /\ d[i] = c[i]
      BY <1>1, <2>2
    <3>2. ASSUME Asks(c[i]) # << >> PROVE i < Len(d) /\ Answered(d[i + 1]) = Asks(d[i])
      <4>1. i < Len(c) /\ Answered(c[i + 1]) = Asks(c[i])
        BY <3>1, <3>2 DEF Whole
      <4>2. i + 1 \in 1..Len(c) /\ i < Len(d)
        BY <1>1, <3>1, <4>1
      <4> QED
        BY <1>1, <3>1, <4>1, <4>2
    <3>3. ASSUME Answered(c[i]) # << >> PROVE i > 1 /\ Asks(d[i - 1]) = Answered(d[i])
      <4>1. i > 1 /\ Asks(c[i - 1]) = Answered(c[i])
        BY <3>1, <3>3 DEF Whole
      <4>2. i - 1 \in 1..Len(c)
        BY <1>1, <3>1, <4>1
      <4> QED
        BY <1>1, <3>1, <4>1, <4>2
    <3> QED
      BY <3>1, <3>2, <3>3
  <2> QED
    BY <2>1, <2>2
<1>4. Whole(d)
  BY <1>2, <1>3 DEF Whole
<1> QED
  BY <1>1, <1>4 DEF d

(* A round, calls and their results, keeps a conversation whole.           *)
LEMMA WholeAppend2 ==
  ASSUME NEW c \in Seq(SaidT), Whole(c), c # << >>, NEW x \in SaidT, NEW y \in SaidT,
         Answered(x) = << >>, Asks(y) = << >>, Answered(y) = Asks(x)
  PROVE  c \o <<x, y>> \in Seq(SaidT) /\ Whole(c \o <<x, y>>)
<1> DEFINE d == c \o <<x, y>>
           n == Len(c)
<1>1. /\ n \in Nat /\ n > 0 /\ DOMAIN c = 1..n
      /\ d \in Seq(SaidT) /\ Len(d) = n + 2 /\ DOMAIN d = 1..(n + 2)
      /\ \A i \in 1..n : d[i] = c[i]
      /\ d[n + 1] = x /\ d[n + 2] = y
  OBVIOUS
<1> HIDE DEF d, n
<1>2. d[1].role = "user"
  BY <1>1 DEF Whole
<1>3. ASSUME NEW i \in DOMAIN d
      PROVE  /\ Asks(d[i]) # << >> => i < Len(d) /\ Answered(d[i + 1]) = Asks(d[i])
             /\ Answered(d[i]) # << >> => i > 1 /\ Asks(d[i - 1]) = Answered(d[i])
  <2>1. CASE i = n + 1
    <3>1. i + 1 = n + 2 /\ i < Len(d)
      BY <1>1, <2>1
    <3> QED
      BY <1>1, <2>1, <3>1
  <2>3. CASE i = n + 2
    <3>1. i - 1 = n + 1 /\ i > 1
      BY <1>1, <2>3
    <3> QED
      BY <1>1, <2>3, <3>1
  <2>2. CASE i \in 1..n
    <3>1. i \in DOMAIN c /\ i \in Nat /\ d[i] = c[i]
      BY <1>1, <2>2
    <3>2. ASSUME Asks(c[i]) # << >> PROVE i < Len(d) /\ Answered(d[i + 1]) = Asks(d[i])
      <4>1. i < n /\ Answered(c[i + 1]) = Asks(c[i])
        BY <3>1, <3>2 DEF Whole, n
      <4>2. i + 1 \in 1..n /\ i < Len(d)
        BY <1>1, <3>1, <4>1
      <4> QED
        BY <1>1, <3>1, <4>1, <4>2
    <3>3. ASSUME Answered(c[i]) # << >> PROVE i > 1 /\ Asks(d[i - 1]) = Answered(d[i])
      <4>1. i > 1 /\ Asks(c[i - 1]) = Answered(c[i])
        BY <3>1, <3>3 DEF Whole
      <4>2. i - 1 \in 1..n
        BY <1>1, <2>2, <4>1
      <4> QED
        BY <1>1, <3>1, <4>1, <4>2
    <3> QED
      BY <3>1, <3>2, <3>3
  <2> QED
    BY <1>1, <2>1, <2>2, <2>3
<1>4. Whole(d)
  BY <1>2, <1>3 DEF Whole
<1> QED
  BY <1>1, <1>4 DEF d

(* The least of a set of numbers.                                          *)
LEMMA MinIs ==
  ASSUME NEW T \in SUBSET Nat, T # {}
  PROVE  Talk!Min(T) \in T /\ \A x \in T : Talk!Min(T) <= x
<1>1. \E x \in T : \A y \in T : x <= y
  BY Least
<1> QED
  BY <1>1 DEF Talk!Min

(* The half that is kept of a whole conversation is whole.                 *)
LEMMA HalvedIs ==
  ASSUME NEW c \in Seq(SaidT), Whole(c)
  PROVE  Talk!Halved(c) \in Seq(SaidT) /\ Whole(Talk!Halved(c))
<1> DEFINE starts == {i \in DOMAIN c : c[i].role = "user" /\ 2 * (Len(c) - i + 1) <= Len(c)}
<1>1. CASE starts = {}
  <2>1. Talk!Halved(c) = << >>
    BY <1>1 DEF Talk!Halved
  <2>2. Whole(<< >>)
    BY DEF Whole
  <2> QED
    BY <2>1, <2>2
<1>2. CASE starts # {}
  <2>1. starts \in SUBSET Nat
    OBVIOUS
  <2>2. Talk!Halved(c) = SubSeq(c, Talk!Min(starts), Len(c))
    BY <1>2 DEF Talk!Halved
  <2> HIDE DEF starts
  <2>3. Talk!Min(starts) \in starts
    BY <1>2, <2>1, MinIs
  <2>4. Talk!Min(starts) \in DOMAIN c /\ c[Talk!Min(starts)].role = "user"
    BY <2>3 DEF starts
  <2> QED
    BY <2>2, <2>4, WholeCut
<1> QED
  BY <1>1, <1>2

(* What validate accepts.                                                   *)
LEMMA PartsAre ==
  ASSUME NEW parts \in Seq(Parts)
  PROVE  parts \in Seq(PartT)
<1>1. Parts \subseteq PartT
  <2>1. STRING \subseteq Kinds /\ STRING \subseteq Words
    BY Zenon DEF Kinds, Words
  <2> QED
    BY <2>1 DEF Parts, PartT
<1> QED
  BY <1>1

(* What validate lets through is a well-formed request.                    *)
LEMMA AskedIs ==
  ASSUME NEW r \in Requests, ~Talk!Refuses(r)
  PROVE  Asked(Talk!validate(r))
<1> DEFINE v == Talk!validate(r)
           steps == IF r.max_steps = {} THEN {DEFAULT_MAX_STEPS}
                    ELSE {IF n < MAX_STEPS_CAP THEN n ELSE MAX_STEPS_CAP : n \in r.max_steps}
<1>1. /\ r.content \in Seq(Parts) /\ r.max_steps \in SUBSET Nat
      /\ \A x, y \in r.max_steps : x = y
      /\ r.max_total_tokens \in SUBSET Nat
      /\ {"content", "max_steps", "max_total_tokens", "instructions"} \subseteq DOMAIN r
  BY RequestsAssumption DEF Option
<1>2. 0 \notin r.max_steps
  <2>1. r.max_steps # {0}
    BY DEF Talk!Refuses, Talk!Some
  <2> QED
    BY <1>1, <2>1
<1>3. v.content = r.content /\ v.max_total_tokens = r.max_total_tokens /\ v.max_steps = steps
  <2> DEFINE ins == r.instructions \ {"blank"}
  <2>1. v = [[r EXCEPT !.max_steps = steps] EXCEPT !.instructions = ins]
    BY DEF Talk!validate, Talk!None, Talk!Some
  <2> HIDE DEF v, steps, ins
  <2> QED
    BY <1>1, <2>1
<1>4. \E n \in 1..MAX_STEPS_CAP : steps = {n}
  <2>0. /\ DEFAULT_MAX_STEPS \in Nat /\ MAX_STEPS_CAP \in Nat /\ 0 < DEFAULT_MAX_STEPS
        /\ DEFAULT_MAX_STEPS <= MAX_STEPS_CAP
    BY StepsAssumption
  <2>1. CASE r.max_steps = {}
    <3>1. DEFAULT_MAX_STEPS \in 1..MAX_STEPS_CAP
      BY <2>0
    <3> QED
      BY <2>1, <3>1
  <2>2. CASE r.max_steps # {}
    <3>1. PICK n \in r.max_steps : r.max_steps = {n}
      BY <1>1, <2>2
    <3> DEFINE m == IF n < MAX_STEPS_CAP THEN n ELSE MAX_STEPS_CAP
    <3>2. n \in Nat /\ n # 0
      BY <1>1, <1>2
    <3>3. m \in 1..MAX_STEPS_CAP
      BY <2>0, <3>2
    <3>4. steps = {m}
      BY <2>2, <3>1
    <3> QED
      BY <3>3, <3>4
  <2> QED
    BY <2>1, <2>2
<1> QED
  BY <1>1, <1>3, <1>4 DEF Asked

(* A run has at least one step, and no more than the cap.                  *)
LEMMA MaxStepsIs ==
  ASSUME Asked(req)
  PROVE  /\ Talk!MaxSteps \in 1..MAX_STEPS_CAP /\ Talk!MaxSteps \in Nat
         /\ Talk!Min({Talk!MaxSteps, MAX_STEPS_CAP}) = Talk!MaxSteps
<1>1. PICK n \in 1..MAX_STEPS_CAP : req.max_steps = {n}
  BY DEF Asked
<1>2. Talk!MaxSteps = n
  BY <1>1 DEF Talk!MaxSteps
<1>3. MAX_STEPS_CAP \in Nat
  BY StepsAssumption
<1>4. Talk!Min({n, MAX_STEPS_CAP}) = n
  <2>1. n \in Nat /\ n <= MAX_STEPS_CAP
    BY <1>1, <1>3
  <2> HIDE DEF Asked
  <2> QED
    BY <1>3, <2>1 DEF Talk!Min
<1> QED
  BY <1>1, <1>2, <1>3, <1>4

-----------------------------------------------------------------------------
(***************************************************************************)
(* Steps.                                                                  *)
(***************************************************************************)

(* The reply as it is kept: its calls have ids of their own.                *)
LEMMA ReplyIs ==
  ASSUME NEW c \in Completions, NEW run \in Nat, NEW step \in Nat
  PROVE  [c EXCEPT !.content = [i \in DOMAIN c.content |->
            IF c.content[i].is = "tool" THEN Talk!Part("tool", <<run, step, i>>)
            ELSE c.content[i]]] \in ReplyT
<1> DEFINE part_(i) == IF c.content[i].is = "tool" THEN [is |-> "tool", says |-> <<run, step, i>>]
                       ELSE c.content[i]
           parts == [i \in DOMAIN c.content |-> part_(i)]
<1>1. c \in [content : Seq(Parts), reason : STRING, usage : Nat]
  BY RepliesAssumption
<1>2. c.content \in Seq(PartT)
  BY <1>1, PartsAre
<1>3. /\ Len(c.content) \in Nat /\ DOMAIN c.content = 1..Len(c.content)
      /\ \A i \in DOMAIN c.content : c.content[i] \in PartT
  BY <1>2
<1>4. \A i \in DOMAIN c.content : part_(i) \in PartT
  <2>1. \A i \in Nat : <<run, step, i>> \in Words
    <3>1. \A i \in Nat : <<run, step, i>> \in Nat \X Nat \X Nat
      OBVIOUS
    <3> QED
      BY <3>1, Zenon DEF Words
  <2>2. "tool" \in Kinds
    BY DEF Kinds
  <2>3. \A i \in Nat : [is |-> "tool", says |-> <<run, step, i>>] \in PartT
    BY <2>1, <2>2 DEF PartT
  <2> QED
    BY <1>3, <2>3
<1> HIDE DEF part_
<1>5. parts \in Seq(PartT)
  BY <1>3, <1>4
<1>6. [c EXCEPT !.content = parts] \in ReplyT
  <2> HIDE DEF parts
  <2>1. [c EXCEPT !.content = parts] = [content |-> parts, reason |-> c.reason, usage |-> c.usage]
    BY <1>1
  <2>2. c.reason \in STRING \cup {""} /\ c.usage \in Nat
    BY <1>1
  <2> QED
    BY <1>5, <2>1, <2>2 DEF ReplyT
<1> QED
  BY <1>6 DEF parts, part_, Talk!Part

Finishes == {"done", "refusal", "content-filter", "max-duration", "max-steps", "max-total-tokens"}
Errors ==
  {"invalid-input", "no-model", "model-refused", "model-failed", "cancelled", "superseded",
   "not-recorded", "output-rejected"}

(* A run that finished reports its reply and no error.                     *)
LEMMA FinishedIs ==
  ASSUME NEW content \in Seq(PartT), NEW f \in Finishes
  PROVE  /\ Talk!Finished(f, content) \in EndedT
         /\ Talk!Finished(f, content).finish = f /\ Talk!Finished(f, content).reply = content
         /\ Talk!Finished(f, content).structured = {} /\ Talk!Finished(f, content).error = ""
  BY DEF Talk!Finished, Talk!None, EndedT, Finishes

(* A run that failed reports its error and no reply.                       *)
LEMMA FailureIs ==
  ASSUME NEW e \in Errors
  PROVE  /\ Talk!Failure(e) \in EndedT
         /\ Talk!Failure(e).finish = "" /\ Talk!Failure(e).reply = << >>
         /\ Talk!Failure(e).structured = {} /\ Talk!Failure(e).error = e /\ e # ""
<1>1. Talk!Failure(e) = [finish |-> "", reply |-> << >>, structured |-> {}, error |-> e]
  BY DEF Talk!Failure, Talk!None
<1>2. << >> \in Seq(PartT)
  OBVIOUS
<1>3. {} \in SUBSET {"json"}
  OBVIOUS
<1>4. e # ""
  BY DEF Errors
<1>5. [finish |-> "", reply |-> << >>, structured |-> {}, error |-> e] \in EndedT
  BY <1>2, <1>3 DEF EndedT, Errors
<1>6. Talk!Failure(e) \in EndedT
  BY <1>1, <1>5
<1>7. /\ Talk!Failure(e).finish = "" /\ Talk!Failure(e).reply = << >>
      /\ Talk!Failure(e).error = e /\ Talk!Failure(e).structured = {}
  BY DEF Talk!Failure, Talk!None
<1> QED
  BY <1>4, <1>6, <1>7

(* How a reply ends the run, or does not.                                   *)
EndingOK ==
  /\ Talk!ending = {} \/ \E f \in Finishes : Talk!ending = {f}
  /\ Talk!ending = {} => ~Refused(reply) /\ ~Talk!spent /\ ~Talk!last
  /\ \A f \in Talk!ending :
       /\ f = "done" => Talk!tool_calls(reply.content) = << >> /\ reply.reason # "pause"
       /\ f = "max-steps" => Talk!last /\ ~Talk!spent
       /\ f = "max-total-tokens" => Talk!spent
       /\ f = "max-duration" => late
       /\ f \in {"refusal", "content-filter"} <=> Refused(reply)

(* Every reply that ends a run ends it in one of the ways of conclude.     *)
LEMMA TalkEnds == EndingOK
<1> DEFINE rf == Talk!reply_finish(reply.reason, reply.content)
           lim == Talk!limit
<1>1. Talk!ending = IF rf = {} \/ (rf = {"done"} /\ reply.reason = "pause") THEN lim ELSE rf
  BY DEF Talk!ending, Talk!None, Talk!Some
<1>2. /\ lim = {} \/ lim = {"max-total-tokens"} \/ lim = {"max-duration"} \/ lim = {"max-steps"}
      /\ lim = {} => ~Talk!spent /\ ~Talk!last
      /\ lim = {"max-steps"} => Talk!last /\ ~Talk!spent
      /\ lim = {"max-total-tokens"} => Talk!spent
      /\ lim = {"max-duration"} => late
  <2> HIDE DEF lim
  <2>1. lim = IF Talk!spent THEN {"max-total-tokens"} ELSE IF late THEN {"max-duration"}
              ELSE IF Talk!last THEN {"max-steps"} ELSE {}
    BY DEF lim, Talk!limit, Talk!None, Talk!Some
  <2> QED
    BY <2>1
<1>3. /\ rf = {} \/ rf = {"done"} \/ rf = {"refusal"} \/ rf = {"content-filter"}
      /\ rf = {"done"} => Talk!tool_calls(reply.content) = << >>
      /\ (rf = {"refusal"} \/ rf = {"content-filter"}) <=> Refused(reply)
  <2> HIDE DEF rf
  <2>1. CASE reply.reason = "refusal"
    <3>1. rf = {"refusal"}
      BY <2>1 DEF rf, Talk!reply_finish, Talk!Some
    <3> QED
      BY <2>1, <3>1 DEF Refused
  <2>2. CASE reply.reason = "content-filter"
    <3>1. rf = {"content-filter"}
      BY <2>2 DEF rf, Talk!reply_finish, Talk!Some
    <3> QED
      BY <2>2, <3>1 DEF Refused
  <2>3. CASE reply.reason \notin {"refusal", "content-filter"}
    <3>1. CASE Talk!OfKinds(reply.content, {"refusal"}) # << >>
      <4>1. rf = {"refusal"}
        BY <2>3, <3>1 DEF rf, Talk!reply_finish, Talk!Some
      <4> QED
        BY <3>1, <4>1 DEF Refused
    <3>2. CASE Talk!OfKinds(reply.content, {"refusal"}) = << >>
      <4>1. rf = IF Talk!tool_calls(reply.content) = << >> THEN {"done"} ELSE {}
        BY <2>3, <3>2 DEF rf, Talk!reply_finish, Talk!Some, Talk!None
      <4>2. ~Refused(reply)
        BY <2>3, <3>2 DEF Refused
      <4> QED
        BY <4>1, <4>2
    <3> QED
      BY <3>1, <3>2
  <2> QED
    BY <2>1, <2>2, <2>3
<1> HIDE DEF rf, lim
<1>4. \/ Talk!ending = lim /\ ~Refused(reply)
      \/ Talk!ending = rf /\ rf # {} /\ (rf = {"done"} => reply.reason # "pause")
  BY <1>1, <1>3
<1>5. CASE Talk!ending = lim /\ ~Refused(reply)
  BY <1>2, <1>5 DEF EndingOK, Finishes
<1>6. CASE Talk!ending = rf /\ rf # {} /\ (rf = {"done"} => reply.reason # "pause")
  BY <1>3, <1>6 DEF EndingOK, Finishes
<1> QED
  BY <1>4, <1>5, <1>6

(* The greatest of a set of numbers up to n.                               *)
LEMMA MaxOf ==
  ASSUME NEW n \in Nat, NEW t \in SUBSET (1..n), t # {}
  PROVE  Talk!Max(t) \in t
<1>1. Talk!Max(t) = Max(t)
  BY DEF Talk!Max, Max
<1> QED
  BY <1>1, MaxIn

(* The last reply there is, without its calls.                              *)
LEMMA LastReplied ==
  ASSUME live \in Seq(MessageT)
  PROVE  LET said == {i \in DOMAIN live : live[i].role = "assistant"}
             content == IF said = {} THEN << >>
                        ELSE Talk!without_tool_calls(live[Talk!Max(said)].content)
         IN content \in Seq(PartT) /\ Talk!tool_calls(content) = << >>
<1> DEFINE said == {i \in DOMAIN live : live[i].role = "assistant"}
           content == IF said = {} THEN << >>
                      ELSE Talk!without_tool_calls(live[Talk!Max(said)].content)
<1>1. CASE said = {}
  <2>1. content = << >>
    BY <1>1
  <2> HIDE DEF content
  <2>2. << >> \in Seq(PartT)
    OBVIOUS
  <2> QED
    BY <2>1, <2>2, NothingAsked DEF content
<1>2. CASE said # {}
  <2> DEFINE c == live[Talk!Max(said)].content
  <2>0. Len(live) \in Nat /\ said \in SUBSET (1..Len(live))
    OBVIOUS
  <2> HIDE DEF said
  <2>1. Talk!Max(said) \in said
    BY <1>2, <2>0, MaxOf
  <2>2. Talk!Max(said) \in DOMAIN live /\ live[Talk!Max(said)].role = "assistant"
    BY <2>1 DEF said
  <2>3. \A m \in MessageT : m.role = "assistant" => m.content \in Seq(PartT)
    BY DEF MessageT
  <2>4. c \in Seq(PartT)
    BY <2>2, <2>3
  <2> HIDE DEF c
  <2>5. content = Talk!without_tool_calls(c)
    BY <1>2 DEF c
  <2> HIDE DEF content
  <2> QED
    BY <2>4, <2>5, WithoutIs, NoCallsLeft DEF content, said
<1> QED
  BY <1>1, <1>2

(* The turn a run ends with asks for no tools.                             *)
LEMMA LastTurn ==
  ASSUME NEW content \in Seq(PartT)
  PROVE  LET t == Talk!Turn("assistant", Talk!text_of(content), << >>, << >>)
         IN t \in SaidT /\ Asks(t) = << >> /\ Answered(t) = << >>
<1> DEFINE t == Talk!Turn("assistant", Talk!text_of(content), << >>, << >>)
<1>1. t = [role |-> "assistant", text |-> Talk!text_of(content), calls |-> << >>, results |-> << >>]
  BY DEF Talk!Turn
<1>2. Talk!text_of(content) \in Seq(Words)
  BY TextsOf
<1> HIDE DEF t
<1>3. t \in SaidT
  BY <1>1, <1>2 DEF SaidT
<1> QED
  BY <1>1, <1>3 DEF Asks, Answered, t

(* Every call gets its own result.                                          *)
LEMMA CallAnswers ==
  ASSUME Talk!CallTool, reply \in ReplyT, results \in Seq(ResultT)
  PROVE  \E r \in ResultT :
           /\ results' = Append(results, r)
           /\ r.call = Talk!tool_calls(reply.content)[Len(results) + 1]
<1> DEFINE call == Talk!tool_calls(reply.content)[Len(results) + 1]
<1>1. call \in Words
  <2>1. reply.content \in Seq(PartT)
    BY DEF ReplyT
  <2>2. Talk!tool_calls(reply.content) \in Seq(Words)
    BY <2>1, TextsOf
  <2>3. Len(results) + 1 \in DOMAIN Talk!tool_calls(reply.content)
    <3> DEFINE q == Talk!tool_calls(reply.content)
    <3>1. Len(results) < Len(q)
      BY DEF Talk!CallTool
    <3>2. q \in Seq(Words) /\ Len(results) \in Nat
      BY <2>2
    <3> HIDE DEF q
    <3>3. Len(results) + 1 \in DOMAIN q
      BY <3>1, <3>2
    <3> QED
      BY <3>3 DEF q
  <2> QED
    BY <2>2, <2>3
<1>2. PICK output \in Seq(PartT), error \in BOOLEAN :
        results' = Append(results, [call |-> call, output |-> output, error |-> error])
  <2>1. \A w \in {"not called", "not known"} : <<Talk!Part("text", w)>> \in Seq(PartT)
    <3>1. \A w \in {"not called", "not known"} : Talk!Part("text", w) \in PartT
      BY DEF Talk!Part, PartT, Words, Kinds
    <3>2. \A x \in PartT : <<x>> \in Seq(PartT)
      OBVIOUS
    <3> QED
      BY <3>1, <3>2
  <2>2. \A r \in Returns : r.output \in Seq(PartT) /\ r.error \in BOOLEAN
    BY RepliesAssumption, PartsAre
  <2> HIDE DEF call
  <2>3. CASE late
    <3>1. results' = Append(results, [call |-> call, output |-> <<Talk!Part("text", "not called")>>,
                                      error |-> TRUE])
      BY <2>3 DEF Talk!CallTool, Talk!Result, Talk!NextCall, call
    <3> QED
      BY <2>1, <3>1
  <2>4. CASE ~late
    <3>1. \/ \E r \in Returns :
               results' = Append(results, [call |-> call, output |-> r.output, error |-> r.error])
          \/ results' = Append(results, [call |-> call,
                                         output |-> <<Talk!Part("text", "not known")>>,
                                         error |-> TRUE])
      BY <2>4 DEF Talk!CallTool, Talk!Result, Talk!NextCall, call
    <3> QED
      BY <2>1, <2>2, <3>1
  <2> QED
    BY <2>3, <2>4
<1> HIDE DEF call
<1> DEFINE r == [call |-> call, output |-> output, error |-> error]
<1>3. r \in ResultT /\ r.call = call
  BY <1>1, <1>2 DEF ResultT
<1> QED
  BY <1>2, <1>3 DEF call

(* The reply is kept, and the results of its calls if it had any.           *)
LEMMA ReturnIs ==
  ASSUME Talk!Return, reply \in ReplyT, results \in Seq(ResultT), Calling,
         live \in Seq(MessageT), turns \in Seq(SaidT)
  PROVE  \E m \in MessageT, t \in SaidT :
           /\ Echo(m, t) /\ Asks(t) = Talk!tool_calls(reply.content) /\ Answered(t) = << >>
           /\ \/ /\ Asks(t) = << >>
                 /\ live' = Append(live, m) /\ turns' = Append(turns, t)
              \/ \E n \in MessageT, u \in SaidT :
                   /\ Echo(n, u) /\ Asks(u) = << >> /\ Answered(u) = Asks(t)
                   /\ live' = live \o <<m, n>> /\ turns' = turns \o <<t, u>>
<1> DEFINE content == reply.content
           calls == Talk!tool_calls(content)
           m == Talk!Message("assistant", content)
           t == Talk!Turn("assistant", Talk!text_of(content), calls, << >>)
           n == Talk!Message("tool", results)
           u == Talk!Turn("tool", << >>, << >>,
                    [k \in DOMAIN results |-> Talk!stored_result(results[k])])
           answers == IF results = << >> THEN << >> ELSE <<results>>
<1>1. content \in Seq(PartT)
  BY DEF ReplyT
<1>2. /\ m \in MessageT /\ t \in SaidT /\ Echo(m, t)
      /\ Asks(t) = calls /\ Answered(t) = << >>
  <2> HIDE DEF content
  <2> QED
    BY <1>1, EchoReply
<1>3. /\ n \in MessageT /\ u \in SaidT /\ Echo(n, u)
      /\ Asks(u) = << >> /\ Answered(u) = [k \in DOMAIN results |-> results[k].call]
  BY EchoResults
<1>4. calls \in Seq(Words) /\ Len(results) = Len(calls)
  BY <1>1, TextsOf DEF Talk!Return
<1>5. Answered(u) = calls
  <2>1. \A k \in DOMAIN results : results[k].call = calls[k]
    BY DEF Calling, Talk!Return
  <2>2. DOMAIN results = DOMAIN calls
    BY <1>4
  <2>3. [k \in DOMAIN calls |-> calls[k]] = calls
    BY <1>4
  <2> HIDE DEF calls, u
  <2>4. [k \in DOMAIN results |-> results[k].call] = [k \in DOMAIN calls |-> calls[k]]
    BY <2>1, <2>2
  <2> QED
    BY <1>3, <2>3, <2>4
<1>6. /\ live' = live \o <<m>> \o [i \in DOMAIN answers |-> Talk!Message("tool", answers[i])]
      /\ turns' = turns \o <<t>>
                    \o [i \in DOMAIN answers |->
                          Talk!Turn("tool", << >>, << >>,
                            [k \in DOMAIN answers[i] |-> Talk!stored_result(answers[i][k])])]
  BY DEF Talk!Return
<1> DEFINE ms == [i \in DOMAIN answers |-> Talk!Message("tool", answers[i])]
           ts == [i \in DOMAIN answers |->
                          Talk!Turn("tool", << >>, << >>,
                            [k \in DOMAIN answers[i] |-> Talk!stored_result(answers[i][k])])]
<1>7. CASE results = << >>
  <2>1. ms = << >> /\ ts = << >>
    BY <1>7
  <2>2. calls = << >>
    BY <1>4, <1>7
  <2>3. live' = live \o <<m>> \o ms /\ turns' = turns \o <<t>> \o ts
    BY <1>6
  <2> HIDE DEF m, t, n, u, ms, ts, calls
  <2>4. live' = Append(live, m) /\ turns' = Append(turns, t)
    BY <1>2, <2>1, <2>3
  <2>5. /\ m \in MessageT /\ t \in SaidT /\ Echo(m, t)
        /\ Asks(t) = Talk!tool_calls(reply.content) /\ Answered(t) = << >>
        /\ Asks(t) = << >> /\ live' = Append(live, m) /\ turns' = Append(turns, t)
    BY <1>2, <2>2, <2>4 DEF calls
  <2> QED
    BY <2>5
<1>8. CASE results # << >>
  <2>0. answers = <<results>>
    BY <1>8
  <2>1. ms = <<n>> /\ ts = <<u>>
    BY <2>0
  <2>3. live' = live \o <<m>> \o ms /\ turns' = turns \o <<t>> \o ts
    BY <1>6
  <2> HIDE DEF m, t, n, u, ms, ts, calls
  <2>a. live' = live \o <<m>> \o <<n>> /\ turns' = turns \o <<t>> \o <<u>>
    BY <2>1, <2>3
  <2>b. live \o <<m>> \o <<n>> = live \o <<m, n>>
    <3>1. live \in Seq(MessageT) /\ m \in MessageT /\ n \in MessageT
      BY <1>2, <1>3
    <3> QED
      BY ONLY <3>1, SMTT(30)
  <2>c. turns \o <<t>> \o <<u>> = turns \o <<t, u>>
    BY <1>2, <1>3
  <2>4. live' = live \o <<m, n>> /\ turns' = turns \o <<t, u>>
    BY <2>a, <2>b, <2>c
  <2>5. /\ m \in MessageT /\ t \in SaidT /\ Echo(m, t)
        /\ Asks(t) = Talk!tool_calls(reply.content) /\ Answered(t) = << >>
        /\ n \in MessageT /\ u \in SaidT
        /\ Echo(n, u) /\ Asks(u) = << >> /\ Answered(u) = Asks(t)
        /\ live' = live \o <<m, n>> /\ turns' = turns \o <<t, u>>
    BY <1>2, <1>3, <1>5, <2>4 DEF calls
  <2> QED
    BY <2>5
<1> QED
  BY <1>7, <1>8

(* What the driver asked for of a reply that ended a run.                   *)
LEMMA CheckedIs ==
  ASSUME NEW f \in EndedT
  PROVE  \/ Talk!Checked(f) = f /\ (req.schema = {} \/ ~Talk!Answered(f))
         \/ /\ Talk!Checked(f) = Talk!Failure("output-rejected")
            /\ req.schema # {} /\ Talk!Answered(f)
         \/ /\ Talk!Checked(f) = [f EXCEPT !.structured = {"json"}]
            /\ req.schema # {} /\ Talk!Answered(f)
<1>1. \A text : Talk!structured(text) = {} \/ Talk!structured(text) = {"json"}
  BY DEF Talk!structured, Talk!None, Talk!Some
<1> QED
  BY <1>1 DEF Talk!Checked, Talk!None

(* A step that says nothing keeps the types.                               *)
LEMMA NothingSaid ==
  ASSUME TalkTypes, UNCHANGED <<stored, runs, req, offered, live, turns, reply, results>>,
         pc # "idle", pc' \in {"loop", "calling", "replied", "tools", "concluding"},
         kept' \in Seq(SaidT), counts' \in [steps : Nat, tokens : Nat],
         shortened' \in BOOLEAN, late' \in BOOLEAN, Option(outcome', EndedT)
  PROVE  TalkTypes'
<1>1. /\ pc' \in {"idle", "loop", "calling", "replied", "tools", "concluding"}
      /\ runs' \in Nat /\ reply' \in ReplyT /\ results' \in Seq(ResultT)
      /\ stored' \in Seq(SaidT) /\ turns' \in Seq(SaidT) /\ live' \in Seq(MessageT)
  BY DEF TalkTypes
<1>2. offered \in BOOLEAN /\ Asked(req)
  BY DEF TalkTypes
<1>3. Asked(req')
  BY <1>2
<1>4. {offered', shortened', late'} \subseteq BOOLEAN
  BY <1>2
<1> QED
  BY <1>1, <1>3, <1>4 DEF TalkTypes

(* What was said before, and what is said now, keep their types.            *)
LEMMA TypesStep ==
  ASSUME TalkTypes, Calling, Whole(kept), Talk!Next
  PROVE  TalkTypes'
<1>0. /\ \A f \in EndedT : Option({f}, EndedT)
      /\ Option({}, EndedT)
      /\ \A e \in Errors : Talk!Failure(e) \in EndedT
  BY FailureIs DEF Option
<1>a. /\ live \in Seq(MessageT) /\ kept \in Seq(SaidT) /\ Option(outcome, EndedT)
      /\ counts \in [steps : Nat, tokens : Nat] /\ shortened \in BOOLEAN /\ late \in BOOLEAN
  BY DEF TalkTypes
<1>b. \A e \in Errors : Option({Talk!Failure(e)}, EndedT)
  BY <1>0
<1>c. [counts EXCEPT !.steps = @ + 1] \in [steps : Nat, tokens : Nat]
  BY <1>a
<1>3. CASE Talk!NoModel
  <2>1. outcome' = {Talk!Failure("no-model")}
    BY <1>3 DEF Talk!NoModel, Talk!End, Talk!Some
  <2>2. Option(outcome', EndedT)
    BY <1>b, <2>1 DEF Errors
  <2> QED
    BY <1>3, <1>a, <2>2, NothingSaid DEF Talk!NoModel, Talk!End
<1>4. CASE Talk!TimePasses
  BY <1>4, <1>a, NothingSaid DEF Talk!TimePasses
<1>5. CASE Talk!OutOfTime
  <2> DEFINE said == {i \in DOMAIN live : live[i].role = "assistant"}
             content == IF said = {} THEN << >>
                        ELSE Talk!without_tool_calls(live[Talk!Max(said)].content)
  <2>1. content \in Seq(PartT)
    BY <1>a, LastReplied
  <2>2. Talk!Finished("max-duration", content) \in EndedT
    BY <2>1, FinishedIs DEF Finishes
  <2>3. outcome' = {Talk!Finished("max-duration", content)}
    BY <1>5 DEF Talk!OutOfTime, Talk!End, Talk!Some
  <2>4. Option(outcome', EndedT)
    BY <1>0, <2>2, <2>3
  <2>5. /\ pc = "loop" /\ pc' = "concluding"
        /\ UNCHANGED <<stored, runs, req, kept, offered, live, turns, counts, shortened, late, reply, results>>
    BY <1>5 DEF Talk!OutOfTime, Talk!End
  <2> HIDE DEF content, said
  <2> QED
    BY <1>a, <2>4, <2>5, NothingSaid
<1>6. CASE Talk!CallModel
  <2>1. /\ pc = "loop" /\ pc' = "calling" /\ counts' = [counts EXCEPT !.steps = @ + 1]
        /\ UNCHANGED <<stored, runs, req, kept, offered, live, turns, shortened, late, reply, results, outcome>>
    BY <1>6 DEF Talk!CallModel
  <2> QED
    BY <1>a, <1>c, <2>1, NothingSaid
<1>7. CASE Talk!TooLong
  <2>1. /\ pc = "calling" /\ pc' \in {"loop", "concluding"}
        /\ kept' \in {kept, Talk!Halved(kept)} /\ shortened' \in {shortened, TRUE}
        /\ outcome' \in {outcome, {Talk!Failure("model-refused")}}
        /\ UNCHANGED <<stored, runs, req, offered, live, turns, counts, late, reply, results>>
    BY <1>7 DEF Talk!TooLong, Talk!End, Talk!Some
  <2>2. kept' \in Seq(SaidT)
    BY <1>a, <2>1, HalvedIs
  <2>3. Option(outcome', EndedT)
    BY <1>a, <1>b, <2>1 DEF Errors
  <2>4. shortened' \in BOOLEAN
    BY <1>a, <2>1
  <2> QED
    BY <1>a, <2>1, <2>2, <2>3, <2>4, NothingSaid
<1>8. CASE Talk!ModelFails
  <2>1. PICK e \in {"model-refused", "model-failed", "cancelled"} : outcome' = {Talk!Failure(e)}
    BY <1>8 DEF Talk!ModelFails, Talk!End, Talk!Some
  <2>2. Option(outcome', EndedT)
    BY <1>b, <2>1 DEF Errors
  <2> QED
    BY <1>8, <1>a, <2>2, NothingSaid DEF Talk!ModelFails, Talk!End
<1>14. CASE Talk!Gone
  <2>1. outcome' = {Talk!Failure("cancelled")}
    BY <1>14 DEF Talk!Gone, Talk!End, Talk!Some
  <2>2. Option(outcome', EndedT)
    BY <1>b, <2>1 DEF Errors
  <2> QED
    BY <1>14, <1>a, <2>2, NothingSaid DEF Talk!Gone, Talk!End
<1> USE DEF TalkTypes
<1>1. CASE Talk!Refuse
  BY <1>0, <1>1 DEF Talk!Refuse, Talk!Idle, Talk!Some, Errors
<1>2. CASE Talk!Accept
  <2>1. /\ pc' = "loop" /\ runs' = runs + 1 /\ kept' = stored /\ outcome' = {} /\ Asked(req)'
        /\ offered' \in BOOLEAN /\ shortened' = FALSE /\ late' = FALSE
        /\ reply' = Talk!NoReply /\ results' = << >> /\ stored' = stored
        /\ counts' = [steps |-> 0, tokens |-> 0]
    <3>1. PICK r \in Requests : ~Talk!Refuses(r) /\ req' = Talk!validate(r)
      BY <1>2 DEF Talk!Accept
    <3>2. Asked(Talk!validate(r))
      BY <3>1, AskedIs
    <3>3. Asked(req)'
      BY <3>1, <3>2 DEF Asked
    <3> QED
      BY <1>2, <3>3 DEF Talk!Accept, Talk!None
  <2>2. Talk!NoReply \in ReplyT
    <3>1. "" \in STRING \cup {""} /\ << >> \in Seq(PartT)
      OBVIOUS
    <3> QED
      BY <3>1 DEF Talk!NoReply, ReplyT
  <2>3. req'.content \in Seq(PartT)
    BY <2>1, PartsAre DEF Asked
  <2>4. live' \in Seq(MessageT) /\ turns' \in Seq(SaidT)
    <3>1. /\ live' = <<Talk!Message("user", req'.content)>>
          /\ turns' = <<Talk!Turn("user", Talk!user_text(req'.content), << >>, << >>)>>
      BY <1>2 DEF Talk!Accept
    <3>2. /\ Talk!Message("user", req'.content) \in MessageT
          /\ Talk!Turn("user", Talk!user_text(req'.content), << >>, << >>) \in SaidT
      BY <2>3, EchoUser
    <3> QED
      BY <3>1, <3>2
  <2>a. runs' \in Nat
    BY <2>1
  <2>b. {offered, shortened, late}' \subseteq BOOLEAN
    <3>1. offered' \in BOOLEAN /\ shortened' \in BOOLEAN /\ late' \in BOOLEAN
      BY <2>1, Zenon
    <3> QED
      BY <3>1, Zenon
  <2>5. runs' \in Nat /\ {offered, shortened, late}' \subseteq BOOLEAN
    BY <2>a, <2>b, Zenon
  <2>6. {stored, kept, turns}' \subseteq Seq(SaidT) /\ results' \in Seq(ResultT)
    BY <2>1, <2>4
  <2>7. counts' \in [steps : Nat, tokens : Nat] /\ reply' \in ReplyT
    BY <2>1, <2>2
  <2>8. Option(outcome', EndedT)
    BY <1>0, <2>1
  <2> QED
    BY <2>1, <2>4, <2>5, <2>6, <2>7, <2>8
<1>9. CASE Talk!ModelReplies
  <2>1. PICK c \in Completions :
          /\ reply' = [c EXCEPT !.content = [i \in DOMAIN c.content |->
               IF c.content[i].is = "tool" THEN Talk!Part("tool", <<runs, counts.steps, i>>)
               ELSE c.content[i]]]
          /\ counts' = [counts EXCEPT !.tokens = @ + c.usage]
    BY <1>9 DEF Talk!ModelReplies
  <2>2. reply' \in ReplyT
    BY <2>1, ReplyIs
  <2>3. c.usage \in Nat
    BY RepliesAssumption
  <2>4. counts' \in [steps : Nat, tokens : Nat]
    BY <2>1, <2>3
  <2> QED
    BY <1>9, <2>2, <2>4 DEF Talk!ModelReplies
<1>10. CASE Talk!ReplyEnds
  <2>1. reply.content \in Seq(PartT)
    BY DEF ReplyT
  <2>2. PICK f \in Talk!ending : outcome' = {Talk!Finished(f, Talk!without_tool_calls(reply.content))}
    BY <1>10 DEF Talk!ReplyEnds, Talk!End, Talk!Some
  <2>3. f \in Finishes
    BY TalkEnds DEF EndingOK
  <2>4. Talk!Finished(f, Talk!without_tool_calls(reply.content)) \in EndedT
    BY <2>1, <2>3, WithoutIs, FinishedIs
  <2>5. Talk!Turn("assistant", Talk!text_of(reply.content), << >>, << >>) \in SaidT
    BY <2>1, LastTurn
  <2>6. turns' \in Seq(SaidT)
    <3>1. turns' = Append(turns, Talk!Turn("assistant", Talk!text_of(reply.content), << >>, << >>))
      BY <1>10 DEF Talk!ReplyEnds
    <3> QED
      BY <2>5, <3>1
  <2>7. Option(outcome', EndedT)
    BY <1>0, <2>2, <2>4
  <2> QED
    BY <1>10, <2>6, <2>7 DEF Talk!ReplyEnds, Talk!End
<1>11. CASE Talk!ReplyAsks
  BY <1>11 DEF Talk!ReplyAsks
<1>12. CASE Talk!CallTool
  <2>1. PICK r \in ResultT : results' = Append(results, r)
    BY <1>12, CallAnswers
  <2>2. results' \in Seq(ResultT)
    BY <2>1
  <2> QED
    BY <1>12, <2>2 DEF Talk!CallTool
<1>13. CASE Talk!Return
  <2>1. live' \in Seq(MessageT) /\ turns' \in Seq(SaidT)
    <3>1. PICK m \in MessageT, t \in SaidT :
            \/ live' = Append(live, m) /\ turns' = Append(turns, t)
            \/ \E n \in MessageT, u \in SaidT :
                 live' = live \o <<m, n>> /\ turns' = turns \o <<t, u>>
      BY <1>13, ReturnIs
    <3>2. CASE live' = Append(live, m) /\ turns' = Append(turns, t)
      BY <3>2
    <3>3. ASSUME NEW n \in MessageT, NEW u \in SaidT,
                 live' = live \o <<m, n>> /\ turns' = turns \o <<t, u>>
          PROVE  live' \in Seq(MessageT) /\ turns' \in Seq(SaidT)
      <4>1. <<m, n>> \in Seq(MessageT) /\ <<t, u>> \in Seq(SaidT)
        OBVIOUS
      <4> QED
        BY <3>3, <4>1
    <3> QED
      BY <3>1, <3>2, <3>3
  <2> QED
    BY <1>13, <2>1 DEF Talk!Return
<1>15. CASE Talk!Conclude
  <2>1. Option(outcome', EndedT)
    <3>1. PICK f \in outcome :
            \/ Talk!Checked(f).error # "" /\ outcome' = {Talk!Checked(f)}
            \/ outcome' = {[Talk!Checked(f) EXCEPT !.reply = Talk!reply_parts(@)]}
            \/ \E e \in {"cancelled", "superseded", "not-recorded"} : outcome' = {Talk!Failure(e)}
      BY <1>15 DEF Talk!Conclude, Talk!Some
    <3>2. Talk!Checked(f) \in EndedT
      <4>1. f \in EndedT
        BY DEF Option
      <4>2. [f EXCEPT !.structured = {"json"}] \in EndedT
        BY <4>1 DEF EndedT
      <4>3. Talk!Failure("output-rejected") \in EndedT
        BY <1>0 DEF Errors
      <4> QED
        BY <4>1, <4>2, <4>3, CheckedIs
    <3>3. [Talk!Checked(f) EXCEPT !.reply = Talk!reply_parts(@)] \in EndedT
      <4> DEFINE g == Talk!Checked(f)
      <4>1. g.reply \in Seq(PartT)
        BY <3>2 DEF EndedT
      <4>2. Talk!reply_parts(g.reply) \in Seq(PartT)
        BY <4>1, WithoutIs
      <4> HIDE DEF g
      <4>3. [g EXCEPT !.reply = Talk!reply_parts(g.reply)] \in EndedT
        BY <3>2, <4>2 DEF EndedT, g
      <4> QED
        BY <4>3 DEF g
    <3>4. \A e \in {"cancelled", "superseded", "not-recorded"} : Talk!Failure(e) \in EndedT
      BY <1>0 DEF Errors
    <3>5. \E g \in EndedT : outcome' = {g}
      BY <3>1, <3>2, <3>3, <3>4
    <3>6. PICK g \in EndedT : outcome' = {g}
      BY <3>5
    <3> QED
      BY <3>6 DEF Option
  <2>2. stored' \in Seq(SaidT)
    <3>1. stored' = stored \/ stored' = kept \o turns
      BY <1>15 DEF Talk!Conclude
    <3>2. kept \in Seq(SaidT) /\ turns \in Seq(SaidT)
      OBVIOUS
    <3>3. kept \o turns \in Seq(SaidT)
      BY <3>2
    <3> QED
      BY <3>1, <3>3
  <2> QED
    BY <1>15, <2>1, <2>2 DEF Talk!Conclude
<1> QED
  BY <1>1, <1>2, <1>3, <1>4, <1>5, <1>6, <1>7, <1>8, <1>9, <1>10, <1>11, <1>12, <1>13,
     <1>14, <1>15 DEF Talk!Next

(* Messages and their echoes are added together.                            *)
LEMMA EchoAdd ==
  ASSUME NEW l \in Seq(MessageT), NEW c \in Seq(SaidT), Len(l) = Len(c),
         \A i \in DOMAIN l : Echo(l[i], c[i]),
         NEW m \in MessageT, NEW t \in SaidT, Echo(m, t)
  PROVE  /\ Len(Append(l, m)) = Len(Append(c, t))
         /\ \A i \in DOMAIN Append(l, m) : Echo(Append(l, m)[i], Append(c, t)[i])
<1> DEFINE k == Append(l, m)  d == Append(c, t)
<1>1. /\ Len(l) \in Nat /\ DOMAIN l = 1..Len(l) /\ DOMAIN k = 1..Len(k)
      /\ Len(k) = Len(l) + 1 /\ Len(d) = Len(l) + 1
      /\ k[Len(k)] = m /\ d[Len(k)] = t
      /\ \A i \in 1..Len(l) : k[i] = l[i] /\ d[i] = c[i]
  OBVIOUS
<1> HIDE DEF k, d
<1>2. ASSUME NEW i \in DOMAIN k PROVE Echo(k[i], d[i])
  <2>1. i = Len(k) \/ i \in 1..Len(l)
    BY <1>1
  <2> QED
    BY <1>1, <2>1
<1> QED
  BY <1>1, <1>2 DEF k, d

(* A round is stored as it was sent.                                       *)
LEMMA EchoAdd2 ==
  ASSUME NEW l \in Seq(MessageT), NEW c \in Seq(SaidT), Len(l) = Len(c),
         \A i \in DOMAIN l : Echo(l[i], c[i]),
         NEW m \in MessageT, NEW t \in SaidT, Echo(m, t),
         NEW n \in MessageT, NEW u \in SaidT, Echo(n, u)
  PROVE  /\ Len(l \o <<m, n>>) = Len(c \o <<t, u>>)
         /\ \A i \in DOMAIN (l \o <<m, n>>) : Echo((l \o <<m, n>>)[i], (c \o <<t, u>>)[i])
<1> DEFINE k == l \o <<m, n>>  d == c \o <<t, u>>
<1>1. /\ Len(l) \in Nat /\ DOMAIN l = 1..Len(l) /\ DOMAIN k = 1..Len(k)
      /\ Len(k) = Len(l) + 2 /\ Len(d) = Len(l) + 2
      /\ k[Len(l) + 1] = m /\ k[Len(l) + 2] = n
      /\ d[Len(l) + 1] = t /\ d[Len(l) + 2] = u
      /\ \A i \in 1..Len(l) : k[i] = l[i] /\ d[i] = c[i]
  OBVIOUS
<1> HIDE DEF k, d
<1>2. ASSUME NEW i \in DOMAIN k PROVE Echo(k[i], d[i])
  <2>1. i = Len(l) + 2 \/ i = Len(l) + 1 \/ i \in 1..Len(l)
    BY <1>1
  <2> QED
    BY <1>1, <2>1
<1> QED
  BY <1>1, <1>2 DEF k, d

Wholes == Whole(stored) /\ Whole(kept) /\ Whole(turns) /\ (turns # << >> \/ pc = "idle")

(* What is stored, worked with and said stays a conversation.               *)
LEMMA WholeStep ==
  ASSUME TalkTypes, Calling, Wholes, Talk!Next
  PROVE  Wholes'
<1> USE DEF Wholes
<1>0. {stored, kept, turns} \subseteq Seq(SaidT) /\ live \in Seq(MessageT) /\ reply \in ReplyT
      /\ results \in Seq(ResultT)
  BY DEF TalkTypes
<1>1. CASE Talk!Accept
  <2> DEFINE t == Talk!Turn("user", Talk!user_text(req'.content), << >>, << >>)
  <2>1. turns' = <<t>> /\ kept' = stored /\ stored' = stored
    BY <1>1 DEF Talk!Accept
  <2>2. t.role = "user"
    BY DEF Talk!Turn
  <2> HIDE DEF t
  <2>3. Asks(t) = << >> /\ Answered(t) = << >>
    BY <2>2 DEF Asks, Answered
  <2>4. Whole(<<t>>)
    BY <2>2, <2>3 DEF Whole
  <2> QED
    BY <2>1, <2>4
<1>2. CASE Talk!TooLong
  <2>1. Talk!Halved(kept) \in Seq(SaidT) /\ Whole(Talk!Halved(kept))
    BY <1>0, HalvedIs
  <2> QED
    BY <1>2, <2>1 DEF Talk!TooLong, Talk!End
<1>3. CASE Talk!ReplyEnds
  <2> DEFINE t == Talk!Turn("assistant", Talk!text_of(reply.content), << >>, << >>)
  <2>1. turns' = Append(turns, t) /\ UNCHANGED <<stored, kept>> /\ turns # << >>
    BY <1>3 DEF Talk!ReplyEnds
  <2>2. t \in SaidT /\ Asks(t) = << >> /\ Answered(t) = << >>
    <3>1. reply.content \in Seq(PartT)
      BY <1>0 DEF ReplyT
    <3> QED
      BY <3>1, LastTurn
  <2> HIDE DEF t
  <2>3. Whole(Append(turns, t)) /\ Append(turns, t) # << >>
    BY <1>0, <2>1, <2>2, WholeAppend
  <2> QED
    BY <2>1, <2>3
<1>4. CASE Talk!Return
  <2>0. turns # << >> /\ turns \in Seq(SaidT)
    BY <1>0, <1>4 DEF Talk!Return
  <2>1. PICK m \in MessageT, t \in SaidT :
           /\ Echo(m, t) /\ Asks(t) = Talk!tool_calls(reply.content) /\ Answered(t) = << >>
           /\ \/ /\ Asks(t) = << >>
                 /\ live' = Append(live, m) /\ turns' = Append(turns, t)
              \/ \E n \in MessageT, u \in SaidT :
                   /\ Echo(n, u) /\ Asks(u) = << >> /\ Answered(u) = Asks(t)
                   /\ live' = live \o <<m, n>> /\ turns' = turns \o <<t, u>>
    BY <1>0, <1>4, ReturnIs
  <2>2. CASE Asks(t) = << >> /\ turns' = Append(turns, t)
    <3>1. Whole(Append(turns, t)) /\ Append(turns, t) # << >>
      BY <2>0, <2>1, <2>2, WholeAppend
    <3> QED
      BY <1>4, <2>2, <3>1 DEF Talk!Return
  <2>3. ASSUME NEW u \in SaidT, Asks(u) = << >>, Answered(u) = Asks(t), turns' = turns \o <<t, u>>
        PROVE  Wholes'
    <3>1. Whole(turns \o <<t, u>>)
      BY <2>0, <2>1, <2>3, WholeAppend2
    <3>2. turns \o <<t, u>> # << >>
      BY <2>0
    <3> QED
      BY <1>4, <2>3, <3>1, <3>2 DEF Talk!Return
  <2> QED
    BY <2>1, <2>2, <2>3
<1>5. CASE Talk!Conclude
  <2>1. Whole(kept \o turns)
    BY <1>0, WholeJoin
  <2>2. (stored' = stored \/ stored' = kept \o turns) /\ UNCHANGED <<kept, turns>> /\ pc' = "idle"
    BY <1>5 DEF Talk!Conclude
  <2> QED
    BY <2>1, <2>2
<1>6. CASE \/ Talk!Refuse \/ Talk!NoModel \/ Talk!TimePasses \/ Talk!OutOfTime \/ Talk!CallModel
           \/ Talk!ModelFails \/ Talk!ModelReplies \/ Talk!ReplyAsks \/ Talk!CallTool \/ Talk!Gone
  BY <1>6 DEF Talk!Refuse, Talk!NoModel, Talk!TimePasses, Talk!OutOfTime, Talk!CallModel,
       Talk!ModelFails, Talk!ModelReplies, Talk!ReplyAsks, Talk!CallTool, Talk!Gone, Talk!End,
       Talk!Idle
<1> QED
  BY <1>1, <1>2, <1>3, <1>4, <1>5, <1>6 DEF Talk!Next

(* What is stored echoes what the model saw and said.                       *)
LEMMA EchoesStep ==
  ASSUME TalkTypes, Calling, Echoes, Talk!Next
  PROVE  Echoes'
<1> USE DEF Echoes
<1>0. {stored, kept, turns} \subseteq Seq(SaidT) /\ live \in Seq(MessageT) /\ reply \in ReplyT
      /\ results \in Seq(ResultT)
  BY DEF TalkTypes
<1>1. CASE Talk!Accept
  <2> DEFINE m == Talk!Message("user", req'.content)
             t == Talk!Turn("user", Talk!user_text(req'.content), << >>, << >>)
  <2>1. turns' = <<t>> /\ live' = <<m>>
    BY <1>1 DEF Talk!Accept
  <2>2. Echo(m, t)
    <3>1. req'.content \in Seq(Parts)
      <4>1. PICK r \in Requests : ~Talk!Refuses(r) /\ req' = Talk!validate(r)
        BY <1>1 DEF Talk!Accept
      <4>2. Asked(Talk!validate(r))
        BY <4>1, AskedIs
      <4> QED
        BY <4>1, <4>2 DEF Asked
    <3> QED
      BY <3>1, PartsAre, EchoUser
  <2> HIDE DEF m, t
  <2> QED
    BY <2>1, <2>2
<1>2. CASE Talk!ReplyEnds
  <2> DEFINE t == Talk!Turn("assistant", Talk!text_of(reply.content), << >>, << >>)
  <2>1. turns' = Append(turns, t) /\ live' = live /\ pc = "replied" /\ pc' = "concluding"
    BY <1>2 DEF Talk!ReplyEnds, Talk!End
  <2> HIDE DEF t
  <2>2. /\ turns \in Seq(SaidT) /\ Len(turns) = Len(live) /\ Len(live) \in Nat
        /\ DOMAIN live = 1..Len(live)
    BY <1>0, <2>1
  <2>3. /\ Len(Append(turns, t)) = Len(live) + 1
        /\ \A i \in DOMAIN live : Append(turns, t)[i] = turns[i]
    BY <2>2
  <2> QED
    BY <2>1, <2>3
<1>3. CASE Talk!Return
  <2>0. turns \in Seq(SaidT) /\ Len(live) = Len(turns)
    BY <1>0, <1>3 DEF Talk!Return
  <2>1. PICK m \in MessageT, t \in SaidT :
           /\ Echo(m, t) /\ Asks(t) = Talk!tool_calls(reply.content) /\ Answered(t) = << >>
           /\ \/ /\ Asks(t) = << >>
                 /\ live' = Append(live, m) /\ turns' = Append(turns, t)
              \/ \E n \in MessageT, u \in SaidT :
                   /\ Echo(n, u) /\ Asks(u) = << >> /\ Answered(u) = Asks(t)
                   /\ live' = live \o <<m, n>> /\ turns' = turns \o <<t, u>>
    BY <1>0, <1>3, ReturnIs
  <2>2. CASE live' = Append(live, m) /\ turns' = Append(turns, t)
    BY <1>0, <2>0, <2>1, <2>2, EchoAdd
  <2>3. ASSUME NEW n \in MessageT, NEW u \in SaidT, Echo(n, u),
               live' = live \o <<m, n>>, turns' = turns \o <<t, u>>
        PROVE  Echoes'
    BY <1>0, <2>0, <2>1, <2>3, EchoAdd2
  <2> QED
    BY <2>1, <2>2, <2>3
<1>4. CASE \/ Talk!Refuse \/ Talk!NoModel \/ Talk!TimePasses \/ Talk!OutOfTime \/ Talk!CallModel
           \/ Talk!ModelFails \/ Talk!ModelReplies \/ Talk!ReplyAsks \/ Talk!CallTool \/ Talk!Gone
           \/ Talk!TooLong \/ Talk!Conclude
  BY <1>4 DEF Talk!Refuse, Talk!NoModel, Talk!TimePasses, Talk!OutOfTime, Talk!CallModel,
       Talk!ModelFails, Talk!ModelReplies, Talk!ReplyAsks, Talk!CallTool, Talk!Gone, Talk!End,
       Talk!Idle, Talk!TooLong, Talk!Conclude
<1> QED
  BY <1>1, <1>2, <1>3, <1>4 DEF Talk!Next

-----------------------------------------------------------------------------
(* What does not change with the request and the counts.                    *)
LEMMA SameLimits ==
  /\ req' = req => Talk!MaxSteps' = Talk!MaxSteps /\ Talk!instructions' = Talk!instructions
  /\ req' = req /\ counts'.tokens = counts.tokens => (Talk!spent' <=> Talk!spent)
  /\ req' = req /\ counts' = counts => (Talk!last' <=> Talk!last)
<1>1. req' = req => Talk!MaxSteps' = Talk!MaxSteps /\ Talk!instructions' = Talk!instructions
  BY DEF Talk!MaxSteps, Talk!instructions
<1>2. req' = req /\ counts'.tokens = counts.tokens => (Talk!spent' <=> Talk!spent)
  BY DEF Talk!spent
<1>3. req' = req /\ counts' = counts => (Talk!last' <=> Talk!last)
  BY <1>1 DEF Talk!last
<1> QED
  BY <1>1, <1>2, <1>3

(* A step keeps the counts within their limits.                            *)
LEMMA LimitsStep ==
  ASSUME TalkTypes, Limits, Talk!Next
  PROVE  Limits'
<1> USE DEF Limits
<1>0. counts \in [steps : Nat, tokens : Nat]
  BY DEF TalkTypes
<1>1. CASE Talk!Accept
  <2>1. /\ pc' = "loop" /\ outcome' = {} /\ reply' = Talk!NoReply
        /\ counts' = [steps |-> 0, tokens |-> 0]
    BY <1>1 DEF Talk!Accept, Talk!None
  <2>2. ~Refused(Talk!NoReply)
    BY NothingAsked DEF Talk!NoReply, Refused
  <2>3. 0 < Talk!MaxSteps'
    <3>1. PICK r \in Requests : ~Talk!Refuses(r) /\ req' = Talk!validate(r)
      BY <1>1 DEF Talk!Accept
    <3>2. PICK n \in 1..MAX_STEPS_CAP : req'.max_steps = {n}
      BY <3>1, AskedIs DEF Asked
    <3>3. Talk!MaxSteps' = n
      BY <3>2 DEF Talk!MaxSteps
    <3>4. MAX_STEPS_CAP \in Nat
      BY StepsAssumption
    <3> QED
      BY <3>3, <3>4
  <2> QED
    BY <2>1, <2>2, <2>3
<1>2. CASE Talk!CallModel
  <2>1. /\ pc = "loop" /\ pc' = "calling" /\ UNCHANGED <<req, reply, outcome, shortened>>
        /\ counts' = [counts EXCEPT !.steps = @ + 1]
    BY <1>2 DEF Talk!CallModel
  <2>2. counts'.tokens = counts.tokens /\ counts'.steps = counts.steps + 1
    BY <1>0, <2>1
  <2>3. Talk!MaxSteps' = Talk!MaxSteps /\ (Talk!spent' <=> Talk!spent)
    BY <2>1, <2>2, SameLimits
  <2>4. Talk!MaxSteps \in Nat /\ counts.steps \in Nat
    <3>1. Asked(req)
      BY <2>1 DEF TalkTypes
    <3> QED
      BY <1>0, <3>1, MaxStepsIs
  <2>5. counts.steps + 1 <= Talk!MaxSteps + (IF shortened THEN 1 ELSE 0)
    BY <2>1, <2>4
  <2>6. ~Refused(reply)' /\ (counts'.tokens > 0 => ~Talk!spent')
    BY <2>1, <2>2, <2>3
  <2> QED
    BY <2>1, <2>2, <2>3, <2>5, <2>6
<1>3. CASE Talk!TooLong
  <2>1. CASE pc' = "loop"
    <3>1. /\ ~shortened /\ shortened' = TRUE /\ pc = "calling"
          /\ UNCHANGED <<req, reply, counts, outcome>>
      BY <1>3, <2>1 DEF Talk!TooLong, Talk!End
    <3>2. Talk!MaxSteps' = Talk!MaxSteps /\ (Talk!spent' <=> Talk!spent)
      BY <3>1, SameLimits
    <3>3. Talk!MaxSteps \in Nat
      BY <3>1, MaxStepsIs DEF TalkTypes
    <3>4. counts.steps <= Talk!MaxSteps
      BY <1>0, <3>1, <3>3
    <3> QED
      BY <2>1, <3>1, <3>2, <3>4
  <2>2. CASE pc' # "loop"
    <3>1. pc' = "concluding"
      BY <1>3, <2>2 DEF Talk!TooLong, Talk!End
    <3> QED
      BY <3>1
  <2> QED
    BY <2>1, <2>2
<1>4. CASE Talk!ModelReplies
  <2>1. PICK c \in Completions : counts' = [counts EXCEPT !.tokens = @ + c.usage]
    BY <1>4 DEF Talk!ModelReplies
  <2>2. counts'.steps = counts.steps
    BY <1>0, <2>1
  <2>3. pc = "calling" /\ pc' = "replied" /\ UNCHANGED <<req, outcome, shortened>>
    BY <1>4 DEF Talk!ModelReplies
  <2> QED
    BY <2>2, <2>3, SameLimits
<1>5. CASE Talk!ReplyAsks
  <2>1. /\ pc = "replied" /\ pc' = "tools" /\ UNCHANGED <<req, counts, reply, outcome>>
        /\ Talk!ending = {}
    BY <1>5 DEF Talk!ReplyAsks, Talk!None
  <2>2. ~Refused(reply) /\ ~Talk!spent /\ ~Talk!last
    BY <2>1, TalkEnds DEF EndingOK
  <2>3. Talk!MaxSteps' = Talk!MaxSteps /\ ~Talk!spent'
    BY <2>1, <2>2, SameLimits
  <2>4. Talk!MaxSteps \in Nat
    BY <2>1, MaxStepsIs DEF TalkTypes
  <2>5. counts.steps < Talk!MaxSteps
    BY <1>0, <2>2, <2>4 DEF Talk!last
  <2> QED
    BY <2>1, <2>2, <2>3, <2>5
<1>6. CASE Talk!Return \/ Talk!CallTool \/ Talk!TimePasses
  <2>1. /\ UNCHANGED <<req, counts, reply, outcome, shortened>>
        /\ pc' = pc \/ (pc = "tools" /\ pc' = "loop")
    BY <1>6 DEF Talk!Return, Talk!CallTool, Talk!TimePasses
  <2>2. Talk!MaxSteps' = Talk!MaxSteps /\ (Talk!spent' <=> Talk!spent)
    BY <2>1, SameLimits
  <2> QED
    BY <2>1, <2>2
<1>7. CASE \/ Talk!Refuse \/ Talk!NoModel \/ Talk!OutOfTime \/ Talk!ModelFails \/ Talk!ReplyEnds
           \/ Talk!Gone \/ Talk!Conclude
  <2>1. pc' = "idle" \/ pc' = "concluding"
    BY <1>7 DEF Talk!Refuse, Talk!Idle, Talk!NoModel, Talk!OutOfTime, Talk!ModelFails,
         Talk!ReplyEnds, Talk!Gone, Talk!Conclude, Talk!End
  <2> QED
    BY <2>1
<1> QED
  BY <1>1, <1>2, <1>3, <1>4, <1>5, <1>6, <1>7 DEF Talk!Next

(* A step keeps what is sent what was said.                                *)
LEMMA SendingStep ==
  ASSUME Sending, Talk!Next
  PROVE  Sending'
<1>1. CASE Talk!CallModel
  <2>1. /\ UNCHANGED <<req, kept, live, offered>>
        /\ sent' = {[messages |-> Talk!to_messages(kept, Talk!instructions) \o live,
                     tools |-> Talk!options(counts'.steps)]}
    BY <1>1 DEF Talk!CallModel, Talk!Some
  <2>2. Talk!MaxSteps' = Talk!MaxSteps /\ Talk!instructions' = Talk!instructions
    BY <2>1, SameLimits
  <2>3. Talk!options(counts.steps)' = Talk!options(counts'.steps)
    BY <2>1, <2>2 DEF Talk!options
  <2>4. Talk!to_messages(kept, Talk!instructions)' = Talk!to_messages(kept, Talk!instructions)
    BY <2>1, <2>2
  <2> QED
    BY <2>1, <2>3, <2>4 DEF Sending
<1>2. CASE Talk!TimePasses
  <2>1. UNCHANGED <<pc, req, kept, live, offered, counts, sent>>
    BY <1>2 DEF Talk!TimePasses
  <2>2. Talk!MaxSteps' = Talk!MaxSteps /\ Talk!instructions' = Talk!instructions
    BY <2>1, SameLimits
  <2>3. Talk!options(counts.steps)' = Talk!options(counts.steps)
    BY <2>1, <2>2 DEF Talk!options
  <2>4. Talk!to_messages(kept, Talk!instructions)' = Talk!to_messages(kept, Talk!instructions)
    BY <2>1, <2>2
  <2> QED
    BY <2>1, <2>3, <2>4 DEF Sending
<1>3. CASE ~(Talk!CallModel \/ Talk!TimePasses)
  <2>1. pc' # "calling"
    BY <1>3 DEF Talk!Next, Talk!Refuse, Talk!Idle, Talk!Accept, Talk!NoModel, Talk!OutOfTime,
         Talk!TooLong, Talk!ModelFails, Talk!ModelReplies, Talk!ReplyEnds, Talk!ReplyAsks,
         Talk!CallTool, Talk!Return, Talk!Gone, Talk!Conclude, Talk!End
  <2> QED
    BY <2>1 DEF Sending
<1> QED
  BY <1>1, <1>2, <1>3

(* A step keeps the calls of the round and their results in order.         *)
LEMMA CallingStep ==
  ASSUME TalkTypes, Calling, Talk!Next
  PROVE  Calling'
<1>0. reply \in ReplyT /\ results \in Seq(ResultT)
  BY DEF TalkTypes
<1>1. CASE Talk!ModelReplies
  BY <1>1 DEF Calling, Talk!ModelReplies
<1>2. CASE Talk!ReplyAsks
  <2>1. results' = << >> /\ reply' = reply /\ pc' = "tools"
    BY <1>2 DEF Calling, Talk!ReplyAsks
  <2>2. Talk!tool_calls(reply.content) \in Seq(Words)
    BY <1>0, TextsOf DEF ReplyT
  <2>3. 0 <= Len(Talk!tool_calls(reply.content)) /\ Len(<< >>) = 0
    BY <2>2
  <2> QED
    BY <2>1, <2>3 DEF Calling
<1>3. CASE Talk!CallTool
  <2> DEFINE calls == Talk!tool_calls(reply.content)
  <2>1. PICK r \in ResultT : results' = Append(results, r) /\ r.call = calls[Len(results) + 1]
    BY <1>0, <1>3, CallAnswers
  <2>2. /\ pc = "tools" /\ pc' = pc /\ reply' = reply /\ Len(results) < Len(calls)
        /\ \A k \in DOMAIN results : results[k].call = calls[k]
    BY <1>3 DEF Calling, Talk!CallTool
  <2>3. calls \in Seq(Words)
    BY <1>0, TextsOf DEF ReplyT
  <2> HIDE DEF calls
  <2>4. /\ Len(results) \in Nat /\ DOMAIN results = 1..Len(results)
        /\ DOMAIN Append(results, r) = 1..(Len(results) + 1)
        /\ Len(Append(results, r)) = Len(results) + 1
        /\ \A k \in 1..Len(results) : Append(results, r)[k] = results[k]
        /\ Append(results, r)[Len(results) + 1] = r
    BY <1>0
  <2>5. Len(results') <= Len(calls)
    BY <2>1, <2>2, <2>3, <2>4
  <2>6. ASSUME NEW k \in DOMAIN results' PROVE results'[k].call = calls[k]
    <3>1. k \in 1..Len(results) \/ k = Len(results) + 1
      BY <2>1, <2>4
    <3> QED
      BY <2>1, <2>2, <2>4, <3>1
  <2> QED
    BY <2>2, <2>5, <2>6 DEF Calling, calls
<1>4. CASE Talk!TimePasses
  BY <1>4 DEF Calling, Talk!TimePasses
<1>5. CASE ~(Talk!ModelReplies \/ Talk!ReplyAsks \/ Talk!CallTool \/ Talk!TimePasses)
  <2>1. pc' # "replied" /\ pc' # "tools"
    BY <1>5 DEF Talk!Next, Talk!Refuse, Talk!Idle, Talk!Accept, Talk!NoModel, Talk!OutOfTime,
         Talk!TooLong, Talk!ModelFails, Talk!CallModel, Talk!ReplyEnds, Talk!Return, Talk!Gone,
         Talk!Conclude, Talk!End
  <2> QED
    BY <2>1 DEF Calling
<1> QED
  BY <1>1, <1>2, <1>3, <1>4, <1>5

(* What the driver hears of a run that ended with f: before, and after, it  *)
(* is saved.                                                                *)
Ends(f) ==
  /\ f.error # "" => f.finish = "" /\ f.reply = << >> /\ f.structured = {}
  /\ f.finish # "" =>
       /\ Talk!tool_calls(f.reply) = << >>
       /\ f.finish = "done" => Talk!tool_calls(reply.content) = << >> /\ reply.reason # "pause"
       /\ f.finish = "max-steps" => Talk!last /\ ~Talk!spent
       /\ f.finish = "max-total-tokens" => Talk!spent
       /\ f.finish = "max-duration" => late
       /\ (f.finish \in {"refusal", "content-filter"}) <=> Refused(reply)

Hears(f) ==
  /\ f.finish # "" =>
       /\ f.structured # {} <=> req.schema # {} /\ Talk!Answered(f)
       /\ Talk!OfKinds(f.reply, {"reasoning"}) = << >>
       /\ f.finish = "done" => Talk!text_of(f.reply) = Talk!text_of(reply.content)
  /\ f.error = "output-rejected" => req.schema # {}

Heard == \A f \in outcome : Ends(f) /\ (pc = "idle" => Hears(f))

(* OutcomeIsTheReply says what a driver hears, ending by ending.           *)
LEMMA HeardIs == Talk!OutcomeIsTheReply <=> Heard
<1>1. \A f : (f.finish \in {"refusal", "content-filter"} <=> Refused(reply)) <=>
             ((f.finish \in {"refusal", "content-filter"}) <=>
                \/ reply.reason \in {"refusal", "content-filter"}
                \/ Talk!OfKinds(reply.content, {"refusal"}) # << >>)
  BY DEF Refused
<1> QED
  BY <1>1 DEF Talk!OutcomeIsTheReply, Heard, Ends, Hears, Talk!None

(* An ending stays as it is while what it tells of does.                   *)
LEMMA EndsSame ==
  ASSUME UNCHANGED <<req, counts, late, reply>>, NEW f, Ends(f)
  PROVE  Ends(f)'
<1>1. (Talk!last' <=> Talk!last) /\ (Talk!spent' <=> Talk!spent)
  BY SameLimits
<1>2. Refused(reply)' <=> Refused(reply)
  BY DEF Refused
<1> QED
  BY <1>1, <1>2 DEF Ends

(* A failure is an ending, and may be heard.                               *)
LEMMA FailureEnds ==
  ASSUME NEW e \in Errors
  PROVE  /\ Ends(Talk!Failure(e))
         /\ (e = "output-rejected" => req.schema # {}) => Hears(Talk!Failure(e))
  BY FailureIs DEF Ends, Hears

(* The steps in which a run ends.                                           *)
Failing == Talk!NoModel \/ (Talk!TooLong /\ pc' # "loop") \/ Talk!ModelFails \/ Talk!Gone

(* A run that gives up without asking its model keeps what was said.       *)
LEMMA FailingIs ==
  ASSUME Failing
  PROVE  /\ pc' = "concluding" /\ UNCHANGED <<turns, live, req, counts, late, reply, kept, stored>>
         /\ \E e \in Errors \ {"output-rejected"} : outcome' = {Talk!Failure(e)}
  BY DEF Failing, Talk!NoModel, Talk!TooLong, Talk!ModelFails, Talk!Gone, Talk!End, Talk!Some,
     Errors

(* A run that ends when its time is over was at a call it would make.       *)
LEMMA OutOfTimeIs ==
  ASSUME Talk!OutOfTime, TalkTypes
  PROVE  /\ pc = "loop" /\ late /\ pc' = "concluding"
         /\ UNCHANGED <<turns, live, req, counts, late, reply, kept, stored>>
         /\ \E content \in Seq(PartT) :
              /\ Talk!tool_calls(content) = << >>
              /\ outcome' = {Talk!Finished("max-duration", content)}
<1> DEFINE said == {i \in DOMAIN live : live[i].role = "assistant"}
           content == IF said = {} THEN << >>
                      ELSE Talk!without_tool_calls(live[Talk!Max(said)].content)
<1>1. content \in Seq(PartT) /\ Talk!tool_calls(content) = << >>
  BY LastReplied DEF TalkTypes
<1>2. outcome' = {Talk!Finished("max-duration", content)} /\ pc' = "concluding"
  BY DEF Talk!OutOfTime, Talk!End, Talk!Some
<1>3. pc = "loop" /\ late /\ UNCHANGED <<turns, live, req, counts, late, reply, kept, stored>>
  BY DEF Talk!OutOfTime
<1> HIDE DEF content
<1> QED
  BY <1>1, <1>2, <1>3

(* A reply that ends its run is said last, without its calls.              *)
LEMMA ReplyEndsIs ==
  ASSUME Talk!ReplyEnds, TalkTypes
  PROVE  /\ pc = "replied" /\ pc' = "concluding" /\ UNCHANGED <<live, req, counts, late, reply, kept, stored>>
         /\ turns' = Append(turns, Talk!Turn("assistant", Talk!text_of(reply.content), << >>, << >>))
         /\ reply.content \in Seq(PartT)
         /\ \E f \in Talk!ending \cap Finishes :
              outcome' = {Talk!Finished(f, Talk!without_tool_calls(reply.content))}
<1>1. PICK f \in Talk!ending : outcome' = {Talk!Finished(f, Talk!without_tool_calls(reply.content))}
  BY DEF Talk!ReplyEnds, Talk!End, Talk!Some
<1>2. f \in Finishes
  BY TalkEnds DEF EndingOK
<1>3. reply.content \in Seq(PartT)
  BY DEF TalkTypes, ReplyT
<1> QED
  BY <1>1, <1>2, <1>3 DEF Talk!ReplyEnds, Talk!End

(* All other steps of a run end nothing.                                    *)
LEMMA OthersAre ==
  ASSUME Talk!Next, Limits,
         ~(Failing \/ Talk!OutOfTime \/ Talk!ReplyEnds \/ Talk!Conclude \/ Talk!Refuse)
  PROVE  outcome' = {} /\ pc' \notin {"concluding", "idle"}
<1>1. CASE Talk!Accept
  BY <1>1 DEF Talk!Accept, Talk!None
<1>2. CASE Talk!TooLong
  BY <1>2 DEF Talk!TooLong, Talk!End, Failing, Limits
<1>3. CASE Talk!TimePasses \/ Talk!CallModel \/ Talk!ModelReplies \/ Talk!ReplyAsks
           \/ Talk!CallTool \/ Talk!Return
  BY <1>3 DEF Talk!TimePasses, Talk!CallModel, Talk!ModelReplies, Talk!ReplyAsks, Talk!CallTool,
     Talk!Return, Limits
<1> QED
  BY <1>1, <1>2, <1>3 DEF Talk!Next, Failing

(* A step keeps what is said at the end of a run what its outcome tells.   *)
LEMMA ToldStep ==
  ASSUME TalkTypes, Limits, Echoes, Told, Talk!Next
  PROVE  Told'
<1>1. CASE Failing
  <2>1. PICK e \in Errors \ {"output-rejected"} : outcome' = {Talk!Failure(e)}
    BY <1>1, FailingIs
  <2> QED
    BY <2>1, FailureIs DEF Told
<1>2. CASE Talk!OutOfTime
  <2>1. PICK content \in Seq(PartT) : outcome' = {Talk!Finished("max-duration", content)}
    BY <1>2, OutOfTimeIs
  <2>2. pc = "loop" /\ UNCHANGED <<turns, live, reply>>
    BY <1>2, OutOfTimeIs
  <2>3. Len(turns') = Len(live')
    BY <2>2 DEF Echoes
  <2> DEFINE f == Talk!Finished("max-duration", content)
  <2>4. f.finish = "max-duration" /\ f.structured = {} /\ f.error = ""
    BY ZenonT(40), FinishedIs DEF Finishes
  <2>5. EndsWith(f)'
    BY <2>3 DEF EndsWith
  <2> HIDE DEF f
  <2> QED
    BY <2>1, <2>4, <2>5 DEF Told, f
<1>3. CASE Talk!ReplyEnds
  <2> DEFINE content == Talk!without_tool_calls(reply.content)
             t == Talk!Turn("assistant", Talk!text_of(reply.content), << >>, << >>)
  <2>1. PICK g \in Talk!ending \cap Finishes : outcome' = {Talk!Finished(g, content)}
    BY <1>3, ReplyEndsIs
  <2>2. turns' = Append(turns, t) /\ reply' = reply /\ reply.content \in Seq(PartT)
    BY <1>3, ReplyEndsIs
  <2>3. content \in Seq(PartT)
    BY <2>2, WithoutIs
  <2>a. PICK f : f = Talk!Finished(g, content)
    OBVIOUS
  <2>4. f.finish = g /\ f.structured = {} /\ f.error = "" /\ f.reply = content /\ g # ""
    <3> HIDE DEF content
    <3>1. g # ""
      BY DEF Finishes
    <3> QED
      BY <2>a, <2>3, <3>1, FinishedIs
  <2>5. turns'[Len(turns')] = t
    <3>1. turns \in Seq(SaidT)
      BY DEF TalkTypes
    <3> HIDE DEF t
    <3> QED
      BY <2>2, <3>1
  <2>6. EndsWith(f)'
    BY <2>2, <2>4, <2>5 DEF EndsWith
  <2>7. outcome' = {f} /\ f.reply = Talk!without_tool_calls(reply'.content)
    BY <2>1, <2>2, <2>4, <2>a
  <2> QED
    BY <2>4, <2>6, <2>7 DEF Told
<1>4. CASE Talk!Conclude \/ Talk!Refuse
  <2>1. pc' = "idle"
    BY <1>4 DEF Talk!Conclude, Talk!Refuse, Talk!Idle
  <2> QED
    BY <2>1 DEF Told
<1>5. CASE ~(Failing \/ Talk!OutOfTime \/ Talk!ReplyEnds \/ Talk!Conclude \/ Talk!Refuse)
  BY <1>5, OthersAre DEF Told
<1> QED
  BY <1>1, <1>2, <1>3, <1>4, <1>5

(* How a run that ended with f is heard to have ended.                      *)
LEMMA ConcludeIs ==
  ASSUME Talk!Conclude, TalkTypes, Told
  PROVE  /\ pc' = "idle" /\ UNCHANGED <<turns, live, req, counts, late, reply, kept>>
         /\ \E f \in outcome \cap EndedT :
              \/ \E e \in Errors : /\ outcome' = {Talk!Failure(e)} /\ stored' = stored
                                   /\ e = "output-rejected" => req.schema # {}
              \/ f.error # "" /\ outcome' = {f} /\ stored' = stored
              \/ \E g \in EndedT :
                   /\ outcome' = {g} /\ stored' = kept \o turns
                   /\ f.error = "" /\ g.error = "" /\ g.finish = f.finish
                   /\ g.reply = Talk!reply_parts(f.reply)
                   /\ g.structured # {} <=> req.schema # {} /\ Talk!Answered(g)
<1>1. PICK f \in outcome :
       \/ Talk!Checked(f).error # "" /\ outcome' = {Talk!Checked(f)} /\ UNCHANGED stored
       \/ /\ Talk!Checked(f).error = ""
          /\ outcome' = {[Talk!Checked(f) EXCEPT !.reply = Talk!reply_parts(@)]}
          /\ stored' = kept \o turns
       \/ \E e \in {"cancelled", "superseded", "not-recorded"} :
            outcome' = {Talk!Failure(e)} /\ stored' = stored
  BY DEF Talk!Conclude, Talk!Some
<1>2. f \in EndedT
  BY DEF TalkTypes, Option
<1>3. pc' = "idle" /\ UNCHANGED <<turns, live, req, counts, late, reply, kept>>
  BY DEF Talk!Conclude
<1>4. f.structured = {}
  BY DEF Told, Talk!Conclude
<1> DEFINE c == Talk!Checked(f)
           rejected == Talk!Failure("output-rejected")
           json == [f EXCEPT !.structured = {"json"}]
<1>5. \/ c = f /\ (req.schema = {} \/ ~Talk!Answered(f))
      \/ c = rejected /\ req.schema # {}
      \/ c = json /\ req.schema # {} /\ Talk!Answered(f)
  BY <1>2, CheckedIs
<1>6. rejected.error # ""
  BY FailureIs DEF Errors
<1>7. /\ json.error = f.error /\ json.finish = f.finish /\ json.reply = f.reply
      /\ json.structured = {"json"} /\ json \in EndedT
  BY <1>2 DEF EndedT
<1> HIDE DEF c, rejected, json
<1>8. CASE c.error # "" /\ outcome' = {c} /\ stored' = stored
  <2>1. CASE c = f
    BY <1>2, <1>3, <1>8, <2>1
  <2>2. CASE c = rejected /\ req.schema # {}
    <3>1. "output-rejected" \in Errors
      BY DEF Errors
    <3> QED
      BY <1>2, <1>3, <1>8, <2>2, <3>1 DEF rejected
  <2>3. CASE c = json /\ req.schema # {} /\ Talk!Answered(f)
    BY <1>7, <1>8, <2>3 DEF Talk!Answered
  <2> QED
    BY <1>5, <2>1, <2>2, <2>3
<1>9. CASE c.error = "" /\ outcome' = {[c EXCEPT !.reply = Talk!reply_parts(@)]} /\ stored' = kept \o turns
  <2> DEFINE g == [c EXCEPT !.reply = Talk!reply_parts(c.reply)]
  <2>1. c = f \/ c = json
    BY <1>5, <1>6, <1>9
  <2>2. c \in EndedT /\ c.reply = f.reply /\ c.finish = f.finish /\ f.error = ""
    BY <1>2, <1>7, <1>9, <2>1
  <2>3. Talk!reply_parts(c.reply) \in Seq(PartT)
    <3>1. c.reply \in Seq(PartT)
      BY <2>2 DEF EndedT
    <3> QED
      BY <3>1, WithoutIs
  <2>4. /\ g \in EndedT /\ g.error = c.error /\ g.finish = c.finish
        /\ g.reply = Talk!reply_parts(c.reply) /\ g.structured = c.structured
    BY <2>2, <2>3 DEF EndedT
  <2>5. outcome' = {g}
    BY <1>9
  <2> HIDE DEF g
  <2>6. Talk!Answered(g) <=> Talk!Answered(f)
    BY <1>9, <2>2, <2>4 DEF Talk!Answered
  <2>7. g.structured # {} <=> req.schema # {} /\ Talk!Answered(g)
    <3>1. CASE c = f /\ (req.schema = {} \/ ~Talk!Answered(f))
      BY <1>4, <2>4, <2>6, <3>1
    <3>2. CASE c = json /\ req.schema # {} /\ Talk!Answered(f)
      BY <1>7, <2>4, <2>6, <3>2
    <3> QED
      BY <1>5, <1>6, <1>9, <3>1, <3>2
  <2>8. /\ outcome' = {g} /\ stored' = kept \o turns
        /\ f.error = "" /\ g.error = "" /\ g.finish = f.finish
        /\ g.reply = Talk!reply_parts(f.reply)
        /\ g.structured # {} <=> req.schema # {} /\ Talk!Answered(g)
    BY <1>9, <2>2, <2>4, <2>5, <2>7
  <2> QED
    BY <1>2, <1>3, <2>4, <2>8
<1>10. CASE \E e \in {"cancelled", "superseded", "not-recorded"} :
              outcome' = {Talk!Failure(e)} /\ stored' = stored
  <2>1. PICK e \in {"cancelled", "superseded", "not-recorded"} :
          outcome' = {Talk!Failure(e)} /\ stored' = stored
    BY <1>10
  <2>2. e \in Errors /\ e # "output-rejected"
    BY DEF Errors
  <2> QED
    BY <1>2, <1>3, <2>1, <2>2
<1> QED
  BY <1>1, <1>8, <1>9, <1>10 DEF c

(* A step keeps what is stored what was said.                              *)
LEMMA SavedStep ==
  ASSUME TalkTypes, Limits, Told, Saved, Talk!Next
  PROVE  Saved'
<1>1. CASE Talk!Conclude
  <2>1. UNCHANGED <<turns, live, kept, reply>>
    BY <1>1, ConcludeIs
  <2>2. PICK f \in outcome \cap EndedT :
          \/ \E e \in Errors : outcome' = {Talk!Failure(e)}
          \/ f.error # "" /\ outcome' = {f}
          \/ \E g \in EndedT :
               /\ outcome' = {g} /\ stored' = kept \o turns
               /\ g.finish = f.finish /\ g.reply = Talk!reply_parts(f.reply)
    BY <1>1, ConcludeIs
  <2>3. CASE \E e \in Errors : outcome' = {Talk!Failure(e)}
    BY <2>3, FailureIs DEF Saved
  <2>4. CASE f.error # "" /\ outcome' = {f}
    <3>1. f.finish = ""
      BY <1>1, <2>4 DEF Told, Talk!Conclude
    <3> QED
      BY <2>4, <3>1 DEF Saved
  <2>5. ASSUME NEW g \in EndedT, outcome' = {g}, stored' = kept \o turns,
               g.finish = f.finish, g.reply = Talk!reply_parts(f.reply)
        PROVE  Saved'
    <3>1. f.finish # "" => EndsWith(f)
      BY <1>1 DEF Told, Talk!Conclude
    <3>2. ASSUME f.finish # "", Len(turns) # Len(live)
          PROVE  turns[Len(turns)] = Talk!Turn("assistant", Talk!text_of(g.reply), << >>, << >>)
      <4>1. /\ turns[Len(turns)] = Talk!Turn("assistant", Talk!text_of(reply.content), << >>, << >>)
            /\ f.reply = Talk!without_tool_calls(reply.content)
        BY <3>1, <3>2 DEF EndsWith
      <4>2. reply.content \in Seq(PartT)
        BY DEF TalkTypes, ReplyT
      <4>3. Talk!text_of(g.reply) = Talk!text_of(reply.content)
        BY <2>5, <4>1, <4>2, TextIsTold
      <4> QED
        BY <4>1, <4>3
    <3> QED
      BY <2>1, <2>5, <3>2 DEF Saved
  <2> QED
    BY <2>2, <2>3, <2>4, <2>5
<1>2. CASE Talk!Refuse
  <2>1. outcome' = {Talk!Failure("invalid-input")} /\ "invalid-input" \in Errors
    BY <1>2 DEF Talk!Refuse, Talk!Some, Errors
  <2> QED
    BY <2>1, FailureIs DEF Saved
<1>3. CASE Failing \/ Talk!OutOfTime \/ Talk!ReplyEnds
  <2>1. pc' = "concluding"
    BY <1>3, FailingIs, OutOfTimeIs, ReplyEndsIs
  <2> QED
    BY <2>1 DEF Saved
<1>4. CASE ~(Failing \/ Talk!OutOfTime \/ Talk!ReplyEnds \/ Talk!Conclude \/ Talk!Refuse)
  BY <1>4, OthersAre DEF Saved
<1> QED
  BY <1>1, <1>2, <1>3, <1>4

(* A step keeps what the driver hears the end of its run.                  *)
LEMMA HeardStep ==
  ASSUME TalkTypes, Limits, Told, Heard, Talk!Next
  PROVE  Heard'
<1>1. CASE Failing
  <2>1. PICK e \in Errors \ {"output-rejected"} : outcome' = {Talk!Failure(e)}
    BY <1>1, FailingIs
  <2>2. pc' = "concluding" /\ UNCHANGED <<req, counts, late, reply>>
    BY <1>1, FailingIs
  <2>3. PICK f : f = Talk!Failure(e)
    OBVIOUS
  <2>4. Ends(f)
    BY <2>3, FailureEnds
  <2>5. Ends(f)'
    BY <2>2, <2>4, EndsSame
  <2> QED
    BY <2>1, <2>2, <2>3, <2>5 DEF Heard
<1>2. CASE Talk!OutOfTime
  <2>1. /\ pc = "loop" /\ late /\ pc' = "concluding"
        /\ UNCHANGED <<req, counts, late, reply>>
    BY <1>2, OutOfTimeIs
  <2>2. PICK content \in Seq(PartT) :
          /\ Talk!tool_calls(content) = << >>
          /\ outcome' = {Talk!Finished("max-duration", content)}
    BY <1>2, OutOfTimeIs
  <2>3. PICK f : f = Talk!Finished("max-duration", content)
    OBVIOUS
  <2>4. f.finish = "max-duration" /\ f.error = "" /\ f.reply = content
    BY <2>3, FinishedIs DEF Finishes
  <2>5. ~Refused(reply)
    BY <2>1 DEF Limits
  <2>6. Ends(f)
    BY <2>1, <2>2, <2>4, <2>5 DEF Ends
  <2>7. Ends(f)'
    BY <2>1, <2>6, EndsSame
  <2> QED
    BY <2>1, <2>2, <2>3, <2>7 DEF Heard
<1>3. CASE Talk!ReplyEnds
  <2>1. PICK g \in Talk!ending \cap Finishes :
          outcome' = {Talk!Finished(g, Talk!without_tool_calls(reply.content))}
    BY <1>3, ReplyEndsIs
  <2>2. /\ pc' = "concluding" /\ UNCHANGED <<req, counts, late, reply>>
        /\ reply.content \in Seq(PartT)
    BY <1>3, ReplyEndsIs
  <2>3. PICK content : content = Talk!without_tool_calls(reply.content)
    OBVIOUS
  <2>4. content \in Seq(PartT) /\ Talk!tool_calls(content) = << >>
    BY <2>2, <2>3, WithoutIs, NoCallsLeft
  <2>5. PICK f : f = Talk!Finished(g, content)
    OBVIOUS
  <2>6. f.finish = g /\ f.error = "" /\ f.reply = content
    BY <2>4, <2>5, FinishedIs
  <2>7. Ends(f)
    BY <2>1, <2>4, <2>6, TalkEnds DEF EndingOK, Ends
  <2>8. Ends(f)'
    BY <2>2, <2>7, EndsSame
  <2> QED
    BY <2>1, <2>2, <2>3, <2>5, <2>8 DEF Heard
<1>4. CASE Talk!Refuse
  <2>1. /\ outcome' = {Talk!Failure("invalid-input")} /\ "invalid-input" \in Errors
        /\ UNCHANGED <<req, counts, late, reply>>
    BY <1>4 DEF Talk!Refuse, Talk!Some, Errors
  <2>2. PICK f : f = Talk!Failure("invalid-input")
    OBVIOUS
  <2>3. Ends(f) /\ Hears(f) /\ f.finish = "" /\ f.error = "invalid-input"
    BY <2>1, <2>2, FailureEnds, FailureIs
  <2>4. Ends(f)' /\ Hears(f)'
    <3>1. Ends(f)'
      BY <2>1, <2>3, EndsSame
    <3>2. Hears(f)'
      BY <2>3 DEF Hears
    <3> QED
      BY <3>1, <3>2
  <2> QED
    BY <2>1, <2>2, <2>4 DEF Heard
<1>5. CASE Talk!Conclude
  <2>1. pc' = "idle" /\ UNCHANGED <<req, counts, late, reply>>
    BY <1>5, ConcludeIs
  <2>2. PICK f \in outcome \cap EndedT :
              \/ \E e \in Errors : /\ outcome' = {Talk!Failure(e)}
                                   /\ e = "output-rejected" => req.schema # {}
              \/ f.error # "" /\ outcome' = {f}
              \/ \E g \in EndedT :
                   /\ outcome' = {g}
                   /\ f.error = "" /\ g.error = "" /\ g.finish = f.finish
                   /\ g.reply = Talk!reply_parts(f.reply)
                   /\ g.structured # {} <=> req.schema # {} /\ Talk!Answered(g)
    BY <1>5, ConcludeIs
  <2>3. pc = "concluding" /\ f \in outcome /\ f \in EndedT
    BY <1>5, <2>2 DEF Talk!Conclude
  <2>4. Ends(f) /\ f.error # "output-rejected" /\ (f.error = "" <=> f.finish # "")
    BY <2>3 DEF Heard, Told
  <2>5. ASSUME NEW e \in Errors, outcome' = {Talk!Failure(e)}, e = "output-rejected" => req.schema # {}
        PROVE  Heard'
    <3>1. PICK g : g = Talk!Failure(e)
      OBVIOUS
    <3>2. Ends(g) /\ Hears(g) /\ g.finish = "" /\ g.error = e
      BY <2>5, <3>1, FailureEnds, FailureIs
    <3>3. Ends(g)'
      BY <2>1, <3>2, EndsSame
    <3>4. Hears(g)'
      BY <2>1, <2>5, <3>2 DEF Hears
    <3> QED
      BY <2>5, <3>1, <3>3, <3>4 DEF Heard
  <2>6. CASE f.error # "" /\ outcome' = {f}
    <3>1. Ends(f)'
      BY <2>1, <2>4, EndsSame
    <3>2. Hears(f)'
      BY <2>4, <2>6 DEF Hears
    <3> QED
      BY <2>6, <3>1, <3>2 DEF Heard
  <2>7. ASSUME NEW g \in EndedT, outcome' = {g}, f.error = "", g.error = "", g.finish = f.finish,
               g.reply = Talk!reply_parts(f.reply),
               g.structured # {} <=> req.schema # {} /\ Talk!Answered(g)
        PROVE  Heard'
    <3>1. f.reply \in Seq(PartT) /\ reply.content \in Seq(PartT)
      BY <2>3 DEF EndedT, TalkTypes, ReplyT
    <3>2. Talk!tool_calls(g.reply) = << >> /\ Talk!OfKinds(g.reply, {"reasoning"}) = << >>
      BY <2>7, <3>1, NoCallsLeft
    <3>3. Ends(g)
      BY <2>4, <2>7, <3>2 DEF Ends
    <3>4. Ends(g)'
      BY <2>1, <3>3, EndsSame
    <3>5. g.finish = "done" => Talk!text_of(g.reply) = Talk!text_of(reply.content)
      <4> SUFFICES ASSUME g.finish = "done"
                   PROVE  Talk!text_of(g.reply) = Talk!text_of(reply.content)
        OBVIOUS
      <4>1. f.reply = Talk!without_tool_calls(reply.content)
        BY <2>3, <2>7 DEF Told
      <4> QED
        BY <2>7, <3>1, <4>1, TextIsTold
    <3>6. Hears(g)'
      BY <2>1, <2>7, <3>2, <3>5 DEF Hears
    <3> QED
      BY <2>7, <3>4, <3>6 DEF Heard
  <2> QED
    BY <2>2, <2>5, <2>6, <2>7
<1>6. CASE ~(Failing \/ Talk!OutOfTime \/ Talk!ReplyEnds \/ Talk!Conclude \/ Talk!Refuse)
  BY <1>6, OthersAre DEF Heard
<1> QED
  BY <1>1, <1>2, <1>3, <1>4, <1>5, <1>6

(* A session as the talk of its runs leaves it.                             *)
TalkInv ==
  TalkTypes /\ Wholes /\ Echoes /\ Limits /\ Sending /\ Calling /\ Told /\ Saved /\ Heard

(* The invariant of the turns holds before the first run.                  *)
LEMMA TalkStart == Talk!Init => TalkInv
<1> SUFFICES ASSUME Talk!Init PROVE TalkInv
  OBVIOUS
<1> USE DEF Talk!Init, Talk!None
<1>1. TalkTypes
  <2>1. Talk!NoReply \in ReplyT
    <3>1. "" \in STRING \cup {""} /\ << >> \in Seq(PartT)
      OBVIOUS
    <3> QED
      BY <3>1 DEF Talk!NoReply, ReplyT
  <2>2. {offered, shortened, late} \subseteq BOOLEAN
    <3>1. offered \in BOOLEAN /\ shortened \in BOOLEAN /\ late \in BOOLEAN
      BY Zenon
    <3> QED
      BY <3>1, Zenon
  <2>3. {stored, kept, turns} \subseteq Seq(SaidT) /\ live \in Seq(MessageT) /\ results \in Seq(ResultT)
    OBVIOUS
  <2>4. counts \in [steps : Nat, tokens : Nat] /\ Option(outcome, EndedT)
    BY DEF Option
  <2> QED
    BY <2>1, <2>2, <2>3, <2>4 DEF TalkTypes
<1>2. Wholes
  BY DEF Wholes, Whole
<1>3. Echoes
  BY DEF Echoes
<1>4. Limits /\ Sending /\ Calling /\ Told /\ Saved /\ Heard
  BY DEF Limits, Sending, Calling, Told, Saved, Heard
<1> QED
  BY <1>1, <1>2, <1>3, <1>4 DEF TalkInv

(* It holds while nothing is said.                                         *)
LEMMA TalkSame ==
  ASSUME TalkInv, UNCHANGED <<stored, talkVars>>
  PROVE  TalkInv'
<1> USE DEF talkVars, TalkInv
<1>1. /\ Talk!MaxSteps' = Talk!MaxSteps /\ Talk!instructions' = Talk!instructions
      /\ Talk!spent' <=> Talk!spent
      /\ Talk!options(counts.steps)' = Talk!options(counts.steps)
  BY SameLimits DEF Talk!options
<1>2. TalkTypes'
  BY DEF TalkTypes
<1>3. Wholes'
  BY DEF Wholes
<1>4. Echoes'
  BY DEF Echoes
<1>5. Limits'
  BY <1>1 DEF Limits
<1>6. Sending'
  <2>1. Talk!to_messages(kept, Talk!instructions)' = Talk!to_messages(kept, Talk!instructions)
    BY <1>1
  <2> QED
    BY <1>1, <2>1 DEF Sending
<1>7. Calling'
  BY DEF Calling
<1>8. Told'
  BY DEF Told, EndsWith
<1>9. Saved'
  BY DEF Saved
<1>10. Heard'
  <2>1. ASSUME NEW f \in outcome' PROVE (Ends(f) /\ (pc = "idle" => Hears(f)))'
    <3>1. Ends(f) /\ (pc = "idle" => Hears(f))
      BY <2>1 DEF Heard
    <3>2. Ends(f)'
      BY <3>1, EndsSame
    <3>3. Hears(f)' <=> Hears(f)
      BY DEF Hears
    <3> QED
      BY <3>1, <3>2, <3>3
  <2> QED
    BY <2>1 DEF Heard
<1> QED
  BY <1>2, <1>3, <1>4, <1>5, <1>6, <1>7, <1>8, <1>9, <1>10

(* Every step of a run keeps it.                                           *)
LEMMA TalkStep ==
  ASSUME TalkInv, Talk!Next
  PROVE  TalkInv'
<1>1. Whole(kept)
  BY DEF TalkInv, Wholes
<1> QED
  BY <1>1, TypesStep, WholeStep, EchoesStep, LimitsStep, SendingStep, CallingStep, ToldStep,
     SavedStep, HeardStep DEF TalkInv

(* What comes before a conversation when it is sent.                        *)
LEMMA PromptIs ==
  ASSUME NEW c \in Seq(SaidT), NEW said
  PROVE  \E p \in Seq([role : {"system"}, content : {said, <<"prompt">>}]) :
           /\ p # << >>
           /\ Talk!to_messages(c, said) = p \o [i \in DOMAIN c |-> Talk!Replayed(c[i])]
<1> DEFINE S == [role : {"system"}, content : {said, <<"prompt">>}]
           p == (IF said = << >> THEN << >> ELSE <<Talk!Message("system", said)>>)
                  \o <<Talk!Message("system", <<"prompt">>)>>
<1>1. Talk!Message("system", said) \in S /\ Talk!Message("system", <<"prompt">>) \in S
  BY DEF Talk!Message
<1> HIDE DEF S
<1>2. p \in Seq(S) /\ p # << >>
  BY <1>1
<1>3. Talk!to_messages(c, said) = p \o [i \in DOMAIN c |-> Talk!Replayed(c[i])]
  BY DEF Talk!to_messages
<1> QED
  BY <1>2, <1>3 DEF S

(* What follows the prompt: the conversation, and what was said since.      *)
LEMMA SpokenIs ==
  ASSUME NEW S, NEW p \in Seq(S), NEW r \in Seq(S), NEW l \in Seq(S), l # << >>, p # << >>,
         \A i \in DOMAIN p : p[i].role = "system",
         \A i \in DOMAIN r : r[i].role # "system",
         \A i \in DOMAIN l : l[i].role # "system"
  PROVE  LET m     == Join(Join(p, r), l)
             first == Talk!Min({i \in DOMAIN m : m[i].role # "system"})
         IN SubSeq(m, first, Len(m)) = Join(r, l)
<1> DEFINE m == Join(Join(p, r), l)
           q == Join(r, l)
           others == {i \in DOMAIN m : m[i].role # "system"}
<1>1. /\ Len(p) \in Nat /\ Len(r) \in Nat /\ Len(l) \in Nat /\ Len(l) > 0
      /\ m \in Seq(S) /\ Len(m) = Len(p) + Len(r) + Len(l)
      /\ q \in Seq(S) /\ Len(q) = Len(r) + Len(l)
      /\ DOMAIN p = 1..Len(p) /\ DOMAIN r = 1..Len(r) /\ DOMAIN l = 1..Len(l)
      /\ DOMAIN m = 1..Len(m) /\ DOMAIN q = 1..Len(q)
  BY DEF Join
<1>2. /\ \A i \in 1..Len(p) : m[i] = p[i]
      /\ \A i \in 1..Len(q) : m[Len(p) + i] = q[i]
      /\ \A i \in 1..Len(r) : q[i] = r[i]
      /\ \A i \in 1..Len(l) : q[Len(r) + i] = l[i]
  BY DEF Join
<1> HIDE DEF m, q
<1>3. \A i \in 1..Len(q) : q[i].role # "system"
  <2> SUFFICES ASSUME NEW i \in 1..Len(q) PROVE q[i].role # "system"
    OBVIOUS
  <2>1. CASE i \in 1..Len(r)
    BY <1>1, <1>2, <2>1
  <2>2. CASE i \notin 1..Len(r)
    <3>1. PICK k \in 1..Len(l) : i = Len(r) + k
      <4>1. i - Len(r) \in 1..Len(l) /\ i = Len(r) + (i - Len(r))
        BY <1>1, <2>2
      <4> QED
        BY <4>1
    <3> QED
      BY ZenonT(40), <1>1, <1>2, <3>1
  <2> QED
    BY <2>1, <2>2
<1>4. Len(p) + 1 \in others
  <2>1. 1 \in 1..Len(q)
    BY <1>1
  <2> QED
    BY <1>1, <1>2, <1>3, <2>1
<1>5. \A i \in others : Len(p) + 1 <= i
  BY SMTT(30), <1>1, <1>2
<1>6. others \in SUBSET Nat
  BY <1>1
<1> HIDE DEF others
<1>7. Talk!Min(others) = Len(p) + 1
  <2>1. Talk!Min(others) \in others /\ Talk!Min(others) <= Len(p) + 1
    BY <1>4, <1>6, MinIs
  <2> QED
    BY <1>1, <1>5, <1>6, <2>1
<1>8. SubSeq(m, Len(p) + 1, Len(m)) = q
  <2> DEFINE s == SubSeq(m, Len(p) + 1, Len(m))
  <2>1. /\ s \in Seq(S) /\ Len(s) = Len(q) /\ DOMAIN s = 1..Len(s)
        /\ \A i \in 1..Len(s) : s[i] = m[Len(p) + i]
    BY <1>1
  <2> HIDE DEF s
  <2>2. \A i \in 1..Len(q) : s[i] = q[i]
    BY <1>2, <2>1
  <2>3. s = q
    BY <1>1, <2>1, <2>2
  <2> QED
    BY <2>3 DEF s
<1> QED
  BY <1>7, <1>8 DEF m, q, others

(* What the model is sent is a conversation.                               *)
LEMMA SentIsWhole == TalkInv => Talk!ModelIsSentConversations
<1> SUFFICES ASSUME TalkInv, pc = "calling", NEW s \in sent
             PROVE  LET first  == Talk!Min({i \in DOMAIN s.messages : s.messages[i].role # "system"})
                        spoken == SubSeq(s.messages, first, Len(s.messages))
                    IN
                    /\ spoken[1].role = "user"
                    /\ \A i \in DOMAIN spoken :
                         /\ spoken[i].role # "system"
                         /\ Talk!Calls(spoken[i]) # << >> =>
                              i < Len(spoken) /\ Talk!Answers(spoken[i + 1]) = Talk!Calls(spoken[i])
                         /\ Talk!Answers(spoken[i]) # << >> =>
                              i > 1 /\ Talk!Calls(spoken[i - 1]) = Talk!Answers(spoken[i])
                    /\ Talk!last => ~s.tools
                    /\ counts.tokens > 0 => ~Talk!spent
                    /\ counts.steps <= Talk!Min({Talk!MaxSteps, MAX_STEPS_CAP})
                                         + (IF shortened THEN 1 ELSE 0)
  BY DEF Talk!ModelIsSentConversations
<1> DEFINE r == [i \in DOMAIN kept |-> Talk!Replayed(kept[i])]
           d == kept \o turns
           first  == Talk!Min({i \in DOMAIN s.messages : s.messages[i].role # "system"})
           spoken == SubSeq(s.messages, first, Len(s.messages))
<1>1. /\ kept \in Seq(SaidT) /\ turns \in Seq(SaidT) /\ live \in Seq(MessageT)
      /\ Whole(kept) /\ Whole(turns) /\ turns # << >> /\ Len(turns) = Len(live)
      /\ \A i \in DOMAIN live : Echo(live[i], turns[i])
  BY DEF TalkInv, TalkTypes, Wholes, Echoes
<1>2. /\ s.messages = Talk!to_messages(kept, Talk!instructions) \o live
      /\ s.tools = Talk!options(counts.steps)
  BY DEF TalkInv, Sending
<1>3. PICK p \in Seq([role : {"system"}, content : {Talk!instructions, <<"prompt">>}]) :
        p # << >> /\ Talk!to_messages(kept, Talk!instructions) = p \o r
  BY <1>1, PromptIs
<1>4. \A i \in DOMAIN kept : /\ r[i].role = kept[i].role /\ Talk!Calls(r[i]) = Asks(kept[i])
                             /\ Talk!Answers(r[i]) = Answered(kept[i])
  BY <1>1, ReplayedIs
<1>5. \A i \in DOMAIN live : /\ live[i].role = turns[i].role /\ Talk!Calls(live[i]) = Asks(turns[i])
                             /\ Talk!Answers(live[i]) = Answered(turns[i])
  BY <1>1 DEF Echo
<1>6. \A t \in SaidT : t.role # "system"
  BY DEF SaidT
<1>7. DOMAIN r = 1..Len(kept) /\ Len(kept) \in Nat /\ DOMAIN kept = 1..Len(kept)
  BY <1>1
<1> DEFINE S == {p[i] : i \in DOMAIN p} \cup {r[i] : i \in DOMAIN r} \cup {live[i] : i \in DOMAIN live}
<1>a. p \in Seq(S) /\ r \in Seq(S) /\ live \in Seq(S)
  <2>1. \A i \in DOMAIN p : p[i] \in S
    OBVIOUS
  <2>2. \A i \in DOMAIN r : r[i] \in S
    OBVIOUS
  <2>3. \A i \in DOMAIN live : live[i] \in S
    OBVIOUS
  <2> HIDE DEF S
  <2>4. p \in Seq(S)
    BY <2>1
  <2>5. live \in Seq(S)
    BY <1>1, <2>3
  <2>6. r \in Seq(S)
    <3> HIDE DEF r
    <3>1. r = [i \in 1..Len(kept) |-> r[i]]
      BY <1>7 DEF r
    <3> QED
      BY <1>7, <2>2, <3>1
  <2> QED
    BY <2>4, <2>5, <2>6
<1>b. \A i \in DOMAIN p : p[i].role = "system"
  <2> DEFINE T == [role : {"system"}, content : {Talk!instructions, <<"prompt">>}]
  <2>1. \A x \in T : x.role = "system"
    OBVIOUS
  <2>2. p \in Seq(T)
    OBVIOUS
  <2> HIDE DEF T
  <2> QED
    BY <2>1, <2>2
<1>8. spoken = Join(r, live)
  <2>3. \A i \in DOMAIN r : r[i].role # "system"
    BY <1>1, <1>4, <1>6, <1>7
  <2>4. \A i \in DOMAIN live : live[i].role # "system"
    BY <1>1, <1>5, <1>6
  <2>5. live # << >>
    BY <1>1
  <2>6. s.messages = Join(Join(p, r), live)
    BY <1>2, <1>3 DEF Join
  <2> HIDE DEF S, r
  <2> DEFINE m == Join(Join(p, r), live)
  <2>7. SubSeq(m, Talk!Min({i \in DOMAIN m : m[i].role # "system"}), Len(m)) = Join(r, live)
    BY <1>3, <1>a, <1>b, <2>3, <2>4, <2>5, SpokenIs
  <2> HIDE DEF m
  <2>8. s.messages = m
    BY <2>6 DEF m
  <2> QED
    BY <2>7, <2>8
<1>9. /\ d \in Seq(SaidT) /\ Whole(d) /\ d # << >>
      /\ Len(d) = Len(kept) + Len(turns) /\ DOMAIN d = 1..Len(d)
      /\ \A i \in 1..Len(kept) : d[i] = kept[i]
      /\ \A i \in 1..Len(turns) : d[Len(kept) + i] = turns[i]
  <2>1. d \in Seq(SaidT) /\ Whole(d)
    BY <1>1, WholeJoin
  <2>2. /\ d # << >> /\ Len(d) = Len(kept) + Len(turns) /\ DOMAIN d = 1..Len(d)
        /\ \A i \in 1..Len(kept) : d[i] = kept[i]
        /\ \A i \in 1..Len(turns) : d[Len(kept) + i] = turns[i]
    BY SMTT(30), <1>1
  <2> QED
    BY <2>1, <2>2
<1>10. /\ Len(spoken) = Len(d) /\ DOMAIN spoken = 1..Len(d)
       /\ \A i \in 1..Len(kept) : spoken[i] = r[i]
       /\ \A i \in 1..Len(live) : spoken[Len(kept) + i] = live[i]
  <2> HIDE DEF r
  <2>1. Len(r) = Len(kept)
    BY <1>7 DEF r
  <2> HIDE DEF d, spoken, S
  <2>2. Len(live) = Len(turns) /\ Len(live) \in Nat
    BY <1>1
  <2>3. /\ Len(spoken) = Len(r) + Len(live) /\ DOMAIN spoken = 1..Len(spoken)
        /\ \A i \in 1..Len(r) : spoken[i] = r[i]
        /\ \A i \in 1..Len(live) : spoken[Len(r) + i] = live[i]
    BY <1>8, <1>a DEF Join
  <2> QED
    BY <1>9, <2>1, <2>2, <2>3
<1> HIDE DEF r, d, spoken
<1>11. \A i \in 1..Len(d) : /\ spoken[i].role = d[i].role /\ Talk!Calls(spoken[i]) = Asks(d[i])
                            /\ Talk!Answers(spoken[i]) = Answered(d[i])
  <2> SUFFICES ASSUME NEW i \in 1..Len(d)
               PROVE  /\ spoken[i].role = d[i].role /\ Talk!Calls(spoken[i]) = Asks(d[i])
                      /\ Talk!Answers(spoken[i]) = Answered(d[i])
    OBVIOUS
  <2>1. CASE i \in 1..Len(kept)
    BY <1>4, <1>7, <1>9, <1>10, <2>1
  <2>2. CASE i \notin 1..Len(kept)
    <3>1. Len(turns) \in Nat /\ Len(live) = Len(turns) /\ DOMAIN live = 1..Len(live)
      BY <1>1
    <3>2. PICK k \in 1..Len(turns) : i = Len(kept) + k
      <4>1. i - Len(kept) \in 1..Len(turns) /\ i = Len(kept) + (i - Len(kept))
        BY <1>7, <1>9, <2>2, <3>1
      <4> QED
        BY <4>1
    <3> QED
      BY <1>5, <1>9, <1>10, <3>1, <3>2
  <2> QED
    BY <2>1, <2>2
<1>12. spoken[1].role = "user"
  <2>1. 1 \in 1..Len(d) /\ d[1].role = "user"
    BY <1>9 DEF Whole
  <2> QED
    BY <1>11, <2>1
<1>13. ASSUME NEW i \in DOMAIN spoken
       PROVE  /\ spoken[i].role # "system"
              /\ Talk!Calls(spoken[i]) # << >> =>
                   i < Len(spoken) /\ Talk!Answers(spoken[i + 1]) = Talk!Calls(spoken[i])
              /\ Talk!Answers(spoken[i]) # << >> =>
                   i > 1 /\ Talk!Calls(spoken[i - 1]) = Talk!Answers(spoken[i])
  <2>1. i \in 1..Len(d) /\ d[i] \in SaidT /\ Len(d) \in Nat
    BY <1>9, <1>10
  <2>2. spoken[i].role # "system"
    BY <1>6, <1>11, <2>1
  <2>3. /\ Asks(d[i]) # << >> => i < Len(d) /\ Answered(d[i + 1]) = Asks(d[i])
        /\ Answered(d[i]) # << >> => i > 1 /\ Asks(d[i - 1]) = Answered(d[i])
    BY <1>9, <2>1 DEF Whole
  <2>4. i < Len(d) => i + 1 \in 1..Len(d)
    BY <2>1
  <2>5. i > 1 => i - 1 \in 1..Len(d)
    BY <2>1
  <2> QED
    BY <1>10, <1>11, <2>1, <2>2, <2>3, <2>4, <2>5
<1>14. /\ Talk!last => ~s.tools
       /\ counts.tokens > 0 => ~Talk!spent
       /\ counts.steps <= Talk!Min({Talk!MaxSteps, MAX_STEPS_CAP}) + (IF shortened THEN 1 ELSE 0)
  <2>1. counts.steps \in Nat /\ Asked(req)
    BY DEF TalkInv, TalkTypes
  <2>2. Talk!MaxSteps \in 1..MAX_STEPS_CAP /\ MAX_STEPS_CAP \in Nat
    BY <2>1, MaxStepsIs, StepsAssumption
  <2>3. Talk!Min({Talk!MaxSteps, MAX_STEPS_CAP}) = Talk!MaxSteps
    <3>1. {Talk!MaxSteps, MAX_STEPS_CAP} \in SUBSET Nat
      BY <2>2
    <3>2. /\ Talk!Min({Talk!MaxSteps, MAX_STEPS_CAP}) \in {Talk!MaxSteps, MAX_STEPS_CAP}
          /\ Talk!Min({Talk!MaxSteps, MAX_STEPS_CAP}) <= Talk!MaxSteps
      BY <3>1, MinIs
    <3> QED
      BY <2>2, <3>2
  <2>4. /\ counts.steps <= Talk!MaxSteps + (IF shortened THEN 1 ELSE 0)
        /\ counts.tokens > 0 => ~Talk!spent
    BY DEF TalkInv, Limits
  <2>5. Talk!last => ~s.tools
    <3>1. ~(counts.steps < Talk!MaxSteps /\ Talk!last)
      BY <2>1, <2>2 DEF Talk!last
    <3>2. Talk!options(counts.steps) => counts.steps < Talk!MaxSteps
      BY Zenon DEF Talk!options
    <3> QED
      BY <1>2, <3>1, <3>2, Zenon
  <2> QED
    BY <2>3, <2>4, <2>5
<1> QED
  BY <1>12, <1>13, <1>14 DEF spoken

(* What is stored is what the model saw and said.                          *)
LEMMA SaidIsReplayed == TalkInv => Talk!ReplaysWhatWasSaid
<1> SUFFICES ASSUME TalkInv PROVE Talk!ReplaysWhatWasSaid
  OBVIOUS
<1>0. /\ kept \in Seq(SaidT) /\ turns \in Seq(SaidT) /\ live \in Seq(MessageT)
      /\ Len(turns) = Len(live) \/ (Len(turns) = Len(live) + 1 /\ pc \in {"idle", "concluding"})
      /\ \A i \in DOMAIN live : Talk!Replayed(turns[i]) = Talk!Plain(live[i])
  BY DEF TalkInv, TalkTypes, Echoes, Echo
<1>1. ASSUME pc \in {"loop", "calling"}
      PROVE  [i \in DOMAIN turns |-> Talk!Replayed(turns[i])]
               = [i \in DOMAIN live |-> Talk!Plain(live[i])]
  <2>1. DOMAIN turns = DOMAIN live
    BY <1>0, <1>1
  <2> QED
    BY <1>0, <2>1
<1>2. ASSUME NEW f \in outcome, pc = "idle", f.finish # ""
      PROVE  /\ Talk!IsPrefix(kept, stored)
             /\ \A i \in DOMAIN live : Talk!Replayed(stored[Len(kept) + i]) = Talk!Plain(live[i])
             /\ Len(stored) = Len(kept) + Len(live)
                  \/ /\ Len(stored) = Len(kept) + Len(live) + 1
                     /\ Talk!Last(stored)
                          = Talk!Turn("assistant", Talk!text_of(f.reply), << >>, << >>)
  <2>1. /\ stored = kept \o turns
        /\ Len(turns) # Len(live) =>
             turns[Len(turns)] = Talk!Turn("assistant", Talk!text_of(f.reply), << >>, << >>)
    BY <1>2 DEF TalkInv, Saved
  <2>2. /\ Len(kept) \in Nat /\ Len(turns) \in Nat /\ Len(live) \in Nat
        /\ Len(stored) = Len(kept) + Len(turns) /\ DOMAIN live = 1..Len(live)
        /\ stored \in Seq(SaidT)
        /\ \A i \in 1..Len(kept) : stored[i] = kept[i]
        /\ \A i \in 1..Len(turns) : stored[Len(kept) + i] = turns[i]
    BY <1>0, <2>1
  <2>3. Talk!IsPrefix(kept, stored)
    BY <1>0, <2>2 DEF Talk!IsPrefix
  <2>4. \A i \in DOMAIN live : Talk!Replayed(stored[Len(kept) + i]) = Talk!Plain(live[i])
    <3>1. \A i \in DOMAIN live : i \in 1..Len(turns)
      BY <1>0, <2>2
    <3> QED
      BY <1>0, <2>2, <3>1
  <2>5. CASE Len(turns) = Len(live)
    BY <2>2, <2>3, <2>4, <2>5
  <2>6. CASE Len(turns) # Len(live)
    <3>1. Len(turns) = Len(live) + 1 /\ Len(turns) \in 1..Len(turns)
      BY <1>0, <2>2, <2>6
    <3>2. Talk!Last(stored) = turns[Len(turns)]
      BY <2>2, <3>1 DEF Talk!Last
    <3>3. Len(stored) = Len(kept) + Len(live) + 1
      BY <2>2, <3>1
    <3> QED
      BY <2>1, <2>3, <2>4, <2>6, <3>2, <3>3, Zenon
  <2> QED
    BY <2>5, <2>6
<1> QED
  BY <1>1, <1>2 DEF Talk!ReplaysWhatWasSaid

(***************************************************************************)
(* A conversation by its sizes.                                            *)
(***************************************************************************)
CTurn == [role : {"user", "assistant", "calls", "tool"}, size : Nat]

(* What is left of c from p on, and where an exchange starts.               *)
Rest(c, p) == SubSeq(c, p, Len(c))
Start(c, p) == p \in 1..(Len(c) + 1) /\ (p <= Len(c) => c[p].role = "user")

(* Sequences with the same elements are the same.                          *)
LEMMA SameSequence ==
  ASSUME NEW S, NEW a \in Seq(S), NEW b \in Seq(S), Len(a) = Len(b),
         \A i \in 1..Len(a) : a[i] = b[i]
  PROVE  a = b
  OBVIOUS

(* The rest of c from p, element by element.                               *)
LEMMA RestIs ==
  ASSUME NEW S, NEW c \in Seq(S), NEW p \in 1..(Len(c) + 1)
  PROVE  /\ Rest(c, p) \in Seq(S) /\ Len(Rest(c, p)) = Len(c) - p + 1
         /\ DOMAIN Rest(c, p) = 1..Len(Rest(c, p))
         /\ \A i \in 1..Len(Rest(c, p)) : Rest(c, p)[i] = c[p + i - 1]
  BY DEF Rest

(* The rest from the first, and from past the last.                        *)
LEMMA RestOfAll ==
  ASSUME NEW S, NEW c \in Seq(S)
  PROVE  Rest(c, 1) = c /\ Rest(c, Len(c) + 1) = << >>
  BY DEF Rest

(* The rest of a rest is a rest.                                           *)
LEMMA RestOfRest ==
  ASSUME NEW S, NEW c \in Seq(S), NEW p \in 1..(Len(c) + 1), NEW q \in 1..(Len(c) - p + 2)
  PROVE  Rest(Rest(c, p), q) = Rest(c, p + q - 1)
<1> DEFINE a == Rest(c, p)  b == Rest(a, q)  d == Rest(c, p + q - 1)
<1>0. Len(c) \in Nat /\ p + q - 1 \in 1..(Len(c) + 1)
  OBVIOUS
<1>1. a \in Seq(S) /\ Len(a) = Len(c) - p + 1 /\ \A i \in 1..Len(a) : a[i] = c[p + i - 1]
  BY RestIs
<1>2. d \in Seq(S) /\ Len(d) = Len(c) - (p + q - 1) + 1
      /\ \A i \in 1..Len(d) : d[i] = c[(p + q - 1) + i - 1]
  BY <1>0, RestIs
<1> HIDE DEF a
<1>3. q \in 1..(Len(a) + 1)
  BY <1>0, <1>1
<1>4. b \in Seq(S) /\ Len(b) = Len(a) - q + 1 /\ \A i \in 1..Len(b) : b[i] = a[q + i - 1]
  BY <1>1, <1>3, RestIs
<1> HIDE DEF b, d
<1>5. Len(b) = Len(d)
  BY <1>0, <1>1, <1>2, <1>4
<1>6. \A i \in 1..Len(b) : b[i] = d[i]
  <2> SUFFICES ASSUME NEW i \in 1..Len(b) PROVE b[i] = d[i]
    OBVIOUS
  <2>1. q + i - 1 \in 1..Len(a) /\ p + (q + i - 1) - 1 = (p + q - 1) + i - 1
    <3>1. Len(a) \in Nat /\ Len(b) \in Nat /\ p \in Nat /\ q \in Nat /\ q >= 1
      BY <1>0, <1>1, <1>4
    <3> QED
      BY <1>4, <3>1
  <2>2. a[q + i - 1] = c[p + (q + i - 1) - 1]
    BY <1>1, <2>1
  <2>3. d[i] = c[(p + q - 1) + i - 1]
    BY <1>2, <1>5
  <2> QED
    BY <1>4, <2>1, <2>2, <2>3
<1>7. b = d
  BY <1>2, <1>4, <1>5, <1>6, SameSequence
<1> QED
  BY <1>7 DEF b, d, a

(* The least of a set of numbers.                                          *)
LEMMA LeastOf ==
  ASSUME NEW T \in SUBSET Nat, T # {}
  PROVE  Conversation!Min(T) \in T /\ \A x \in T : Conversation!Min(T) <= x
<1>1. \E x \in T : \A y \in T : x <= y
  BY Least
<1> QED
  BY <1>1 DEF Conversation!Min

(* The oldest exchange is dropped, and nothing else.                        *)
LEMMA OldestIs ==
  ASSUME NEW c \in Seq(CTurn)
  PROVE  /\ c = << >> => Conversation!DropOldest(c) = << >>
         /\ c # << >> => \E q \in 2..(Len(c) + 1) :
              /\ Conversation!DropOldest(c) = Rest(c, q) /\ Start(c, q)
              /\ \A r \in 2..(Len(c) + 1) : Start(c, r) => q <= r
<1> DEFINE next == {i \in 2..Len(c) : c[i].role = "user"}
           n == Len(c)
<1>0. n \in Nat /\ (c # << >> => n >= 1)
  OBVIOUS
<1>1. Conversation!DropOldest(c) =
        IF next = {} THEN << >> ELSE SubSeq(c, Conversation!Min(next), Len(c))
  BY DEF Conversation!DropOldest
<1>2. c = << >> => next = {}
  BY <1>0
<1>3. CASE c # << >> /\ next = {}
  <2>1. Conversation!DropOldest(c) = Rest(c, n + 1)
    BY <1>1, <1>3, RestOfAll
  <2>2. n + 1 \in 2..(n + 1) /\ Start(c, n + 1)
    BY <1>0, <1>3 DEF Start
  <2>3. ASSUME NEW r \in 2..(n + 1), Start(c, r) PROVE n + 1 <= r
    <3>1. r \in 2..n => r \in next
      BY <2>3 DEF Start
    <3> QED
      BY <1>0, <1>3, <3>1
  <2> QED
    BY <1>3, <2>1, <2>2, <2>3
<1>4. CASE c # << >> /\ next # {}
  <2> DEFINE q == Conversation!Min(next)
  <2>0. next \in SUBSET Nat
    BY <1>0
  <2>1. q \in next /\ \A x \in next : q <= x
    <3> HIDE DEF next
    <3> QED
      BY <1>4, <2>0, LeastOf
  <2>2. Conversation!DropOldest(c) = Rest(c, q)
    BY <1>1, <1>4 DEF Rest
  <2> HIDE DEF q
  <2>3. q \in 2..(n + 1) /\ q <= n /\ Start(c, q)
    BY <1>0, <2>1 DEF Start
  <2>4. ASSUME NEW r \in 2..(n + 1), Start(c, r) PROVE q <= r
    <3>1. r \in 2..n => r \in next
      BY <2>4 DEF Start
    <3> QED
      BY <1>0, <2>1, <2>3, <3>1
  <2> QED
    BY <1>4, <2>2, <2>3, <2>4
<1> QED
  BY <1>1, <1>2, <1>3, <1>4

(* Without its oldest exchange a conversation is a sequence of turns.      *)
LEMMA OldestOf ==
  ASSUME NEW c \in Seq(CTurn)
  PROVE  Conversation!DropOldest(c) \in Seq(CTurn)
<1>1. CASE c = << >>
  BY <1>1, OldestIs
<1>2. CASE c # << >>
  <2>1. PICK q \in 2..(Len(c) + 1) : Conversation!DropOldest(c) = Rest(c, q)
    BY <1>2, OldestIs
  <2>2. q \in 1..(Len(c) + 1)
    OBVIOUS
  <2> QED
    BY <2>1, <2>2, RestIs
<1> QED
  BY <1>1, <1>2

(* Where an exchange starts, the next one starts after it.                  *)
LEMMA NextStart ==
  ASSUME NEW c \in Seq(CTurn), NEW p, Start(c, p), p <= Len(c)
  PROVE  \E q : /\ Start(c, q) /\ p < q /\ q \in Nat
                /\ Conversation!DropOldest(Rest(c, p)) = Rest(c, q)
                /\ \A r : Start(c, r) /\ p < r => q <= r
<1> DEFINE d == Rest(c, p)  n == Len(c)
<1>0. n \in Nat /\ p \in 1..n /\ p \in 1..(n + 1)
  BY DEF Start
<1>1. /\ d \in Seq(CTurn) /\ Len(d) = n - p + 1
      /\ \A i \in 1..Len(d) : d[i] = c[p + i - 1]
  BY <1>0, RestIs
<1> HIDE DEF d
<1>2. d # << >>
  BY <1>0, <1>1
<1>3. PICK k \in 2..(Len(d) + 1) :
              /\ Conversation!DropOldest(d) = Rest(d, k) /\ Start(d, k)
              /\ \A r \in 2..(Len(d) + 1) : Start(d, r) => k <= r
  BY <1>1, <1>2, OldestIs
<1>4. PICK q : q = p + k - 1
  OBVIOUS
<1>5. q \in Nat /\ p < q /\ q \in 1..(n + 1) /\ k \in 1..(n - p + 2)
  BY <1>0, <1>1, <1>3, <1>4
<1>6. Rest(d, k) = Rest(c, q)
  BY <1>0, <1>4, <1>5, RestOfRest DEF d
<1>7. Start(c, q)
  <2>1. CASE q <= n
    <3>1. k \in 1..Len(d) /\ k <= Len(d)
      BY <1>0, <1>1, <1>3, <1>4, <2>1
    <3>2. d[k] = c[q] /\ d[k].role = "user"
      BY <1>1, <1>3, <1>4, <3>1 DEF Start
    <3> QED
      BY <1>5, <3>2 DEF Start
  <2>2. CASE ~(q <= n)
    BY <1>5, <2>2 DEF Start
  <2> QED
    BY <2>1, <2>2
<1>8. ASSUME NEW r, Start(c, r), p < r PROVE q <= r
  <2>0. r \in 1..(n + 1)
    BY <1>8 DEF Start
  <2>1. PICK j : j = r - p + 1
    OBVIOUS
  <2>2. j \in 2..(Len(d) + 1) /\ r = p + j - 1
    BY <1>0, <1>1, <1>8, <2>0, <2>1
  <2>3. Start(d, j)
    <3>1. ASSUME j <= Len(d) PROVE d[j].role = "user"
      <4>1. j \in 1..Len(d) /\ r <= n
        BY <1>0, <1>1, <2>0, <2>2, <3>1
      <4> QED
        BY <1>1, <1>8, <2>2, <4>1 DEF Start
    <3>2. j \in 1..(Len(d) + 1)
      BY <1>0, <1>1, <2>2
    <3> QED
      BY <3>1, <3>2 DEF Start
  <2>4. k <= j
    BY <1>3, <2>2, <2>3
  <2> QED
    BY <1>0, <1>3, <1>4, <2>0, <2>2, <2>4
<1> QED
  BY <1>3, <1>5, <1>6, <1>7, <1>8 DEF d

(* What may be left of a conversation is where an exchange starts.          *)
LEMMA ExchangedIs ==
  ASSUME NEW c \in Seq(CTurn), NEW s
  PROVE  s \in Conversation!Exchanged(c) <=> \E p : Start(c, p) /\ s = Rest(c, p)
<1>0. Len(c) \in Nat /\ DOMAIN c = 1..Len(c)
  OBVIOUS
<1>1. s \in Conversation!Exchanged(c) <=>
        s = << >> \/ \E i \in DOMAIN c : c[i].role = "user" /\ s = Rest(c, i)
  BY DEF Conversation!Exchanged, Rest
<1>2. Start(c, Len(c) + 1) /\ Rest(c, Len(c) + 1) = << >>
  BY <1>0, RestOfAll DEF Start
<1>3. \A i \in DOMAIN c : c[i].role = "user" => Start(c, i)
  BY <1>0 DEF Start
<1>4. \A p : Start(c, p) => p = Len(c) + 1 \/ (p \in DOMAIN c /\ c[p].role = "user")
  BY <1>0 DEF Start
<1> QED
  BY <1>1, <1>2, <1>3, <1>4

(* What is left of c, round by round.                                       *)
Drops(f, c, enough) ==
  /\ Conversation!DropUntil(c, enough) = f[Len(c)] /\ f[0] = c
  /\ \A k \in 1..Len(c) :
       f[k] = IF f[k - 1] \in enough THEN f[k - 1] ELSE Conversation!DropOldest(f[k - 1])

(* The rounds of DropUntil.                                                *)
LEMMA DropSteps ==
  ASSUME NEW c \in Seq(CTurn), NEW enough
  PROVE  \E f : Drops(f, c, enough)
<1> DEFINE n == Len(c)
           T == Seq(CTurn)
           dom == DOMAIN c
           step == [p \in T \X dom |->
                      IF p[1] \in enough THEN p[1] ELSE Conversation!DropOldest(p[1])]
           D(g, t) == IF t = {} THEN c
                      ELSE IF g[t \ {Max(t)}] \in enough THEN g[t \ {Max(t)}]
                           ELSE Conversation!DropOldest(g[t \ {Max(t)}])
           IsF(g) == g = [t \in SUBSET dom |-> D(g, t)]
           F == CHOOSE g : IsF(g)
<1>1. n \in Nat /\ c \in T /\ dom = 1..n
  OBVIOUS
<1>2. \A t \in T, k \in dom :
        /\ step[<<t, k>>] = IF t \in enough THEN t ELSE Conversation!DropOldest(t)
        /\ step[<<t, k>>] \in T
  BY OldestOf
<1>3. ASSUME NEW g, g = [t \in SUBSET dom |-> g[t]], g[{}] = c,
             \A t \in SUBSET dom :
               /\ t # {} => g[t] = step[<<g[t \ {Max(t)}], Max(t)>>]
               /\ g[t] \in T
      PROVE  IsF(g)
  <2>1. ASSUME NEW t \in SUBSET dom, t # {}
        PROVE  step[<<g[t \ {Max(t)}], Max(t)>>] = D(g, t)
    <3>1. Max(t) \in dom /\ g[t \ {Max(t)}] \in T
      BY <1>1, <1>3, <2>1, MaxIn
    <3> QED
      BY <1>2, <2>1, <3>1
  <2>2. \A t \in SUBSET dom : g[t] = D(g, t)
    BY <1>3, <2>1
  <2> HIDE DEF D
  <2> QED
    BY <1>3, <2>2
<1>4. F = [t \in SUBSET dom |-> D(F, t)]
  <2> HIDE DEF step, T, n
  <2>0. step \in [T \X (1..n) -> T]
    BY <1>1, <1>2 DEF step
  <2> HIDE DEF dom
  <2>1. \E g : /\ g = [t \in SUBSET (1..n) |-> g[t]]
               /\ g[{}] = c
               /\ \A t \in SUBSET (1..n) :
                    /\ t # {} => g[t] = step[<<g[t \ {Max(t)}], Max(t)>>]
                    /\ g[t] \in T
    <3>1. \A b \in T, st \in [T \X (1..n) -> T] :
            \E g : /\ g = [t \in SUBSET (1..n) |-> g[t]]
                   /\ g[{}] = b
                   /\ \A t \in SUBSET (1..n) :
                        /\ t # {} => g[t] = st[<<g[t \ {Max(t)}], Max(t)>>]
                        /\ g[t] \in T
      BY <1>1, FoldExists
    <3> QED
      BY ZenonT(40), <1>1, <2>0, <3>1
  <2> HIDE DEF IsF
  <2>2. \E g : IsF(g)
    BY <1>1, <1>3, <2>1
  <2>3. IsF(F)
    BY <2>2
  <2> QED
    BY <2>3 DEF IsF
<1>5. Conversation!DropUntil(c, enough) = F[dom]
  <2>1. \A t : Conversation!Max(t) = Max(t)
    BY DEF Conversation!Max, Max
  <2> HIDE DEF T, n
  <2> QED
    BY <2>1 DEF Conversation!DropUntil, Conversation!FoldLeft, Conversation!MapThenFoldSet
<1> HIDE DEF F
<1> DEFINE f == [k \in 0..n |-> F[1..k]]
<1>6. f[0] = c /\ f[n] = F[dom]
  <2>1. 1..0 = {} /\ {} \in SUBSET dom /\ 0 \in 0..n /\ n \in 0..n
    BY <1>1
  <2>2. F[{}] = D(F, {})
    BY <1>4, <2>1
  <2> HIDE DEF n, dom
  <2>3. f[0] = F[{}] /\ f[n] = F[1..n]
    BY <2>1
  <2> QED
    BY <1>1, <2>2, <2>3
<1>7. ASSUME NEW k \in 1..n
      PROVE  f[k] = IF f[k - 1] \in enough THEN f[k - 1] ELSE Conversation!DropOldest(f[k - 1])
  <2>1. k \in Nat /\ k # 0 /\ 1..k \in SUBSET dom /\ k \in 0..n /\ k - 1 \in 0..n
    BY <1>1
  <2>2. 1..k # {} /\ Max(1..k) = k /\ (1..k) \ {Max(1..k)} = 1..(k - 1)
    BY <2>1, MaxUpTo
  <2>3. F[1..k] = D(F, 1..k)
    BY <1>4, <2>1
  <2> QED
    BY <2>1, <2>2, <2>3
<1> HIDE DEF f
<1> QED
  BY <1>1, <1>5, <1>6, <1>7 DEF Drops

(* What is left is the longest run of whole exchanges that is enough.       *)
LEMMA DropLongest ==
  ASSUME NEW c \in Seq(CTurn), c # << >> => c[1].role = "user", NEW enough, << >> \in enough
  PROVE  /\ \E p : Start(c, p) /\ Conversation!DropUntil(c, enough) = Rest(c, p)
         /\ Conversation!IsLongest(Conversation!DropUntil(c, enough),
                                   Conversation!Exchanged(c) \cap enough)
<1> DEFINE n == Len(c)
<1>0. n \in Nat
  OBVIOUS
<1>1. PICK f : Drops(f, c, enough)
  BY DropSteps, Zenon
<1> DEFINE Ok(k, p) == /\ Start(c, p) /\ f[k] = Rest(c, p)
                       /\ \A r : Start(c, r) /\ Rest(c, r) \in enough => p <= r
                       /\ k + 1 <= p \/ f[k] \in enough
           P == {k \in Nat : k <= n => \E p : Ok(k, p)}
<1>2. 0 \in P
  <2>1. Start(c, 1) /\ f[0] = Rest(c, 1)
    <3>1. Start(c, 1)
      BY <1>0 DEF Start
    <3> QED
      BY <1>1, <3>1, RestOfAll DEF Drops
  <2>2. \A r : Start(c, r) => 1 <= r
    BY DEF Start
  <2>3. Ok(0, 1)
    BY <2>1, <2>2
  <2> QED
    BY <2>3
<1>3. ASSUME NEW k \in P PROVE k + 1 \in P
  <2> SUFFICES ASSUME k + 1 <= n PROVE \E p : Ok(k + 1, p)
    OBVIOUS
  <2>1. PICK p : Ok(k, p)
    BY <1>0
  <2>2. p \in Nat /\ p \in 1..(n + 1)
    BY <1>0, <2>1 DEF Start
  <2>3. f[k + 1] = IF f[k] \in enough THEN f[k] ELSE Conversation!DropOldest(f[k])
    <3>1. k + 1 \in 1..n /\ (k + 1) - 1 = k
      BY <1>0
    <3> QED
      BY <1>1, <3>1 DEF Drops
  <2>4. CASE f[k] \in enough
    <3>1. Ok(k + 1, p)
      BY <2>1, <2>3, <2>4
    <3> QED
      BY <3>1
  <2>5. CASE f[k] \notin enough
    <3>1. p <= n
      <4> SUFFICES ASSUME p = n + 1 PROVE FALSE
        BY <1>0, <2>2
      <4>1. f[k] = << >>
        BY <2>1, RestOfAll
      <4> QED
        BY <2>5, <4>1
    <3>2. PICK q : /\ Start(c, q) /\ p < q /\ q \in Nat
                   /\ Conversation!DropOldest(Rest(c, p)) = Rest(c, q)
                   /\ \A r : Start(c, r) /\ p < r => q <= r
      BY <2>1, <3>1, NextStart
    <3>3. f[k + 1] = Rest(c, q)
      BY <2>1, <2>3, <2>5, <3>2
    <3>4. k + 1 <= p
      BY <2>1, <2>5
    <3>5. (k + 1) + 1 <= q
      BY <2>2, <3>2, <3>4
    <3>6. ASSUME NEW r, Start(c, r), Rest(c, r) \in enough PROVE q <= r
      <4>1. p <= r /\ r # p
        BY <2>1, <2>5, <3>6
      <4>2. r \in Nat
        BY <1>0, <3>6 DEF Start
      <4>3. p < r
        BY <2>2, <4>1, <4>2
      <4> QED
        BY <3>2, <3>6, <4>3
    <3>7. Ok(k + 1, q)
      BY <3>2, <3>3, <3>5, <3>6
    <3> QED
      BY <3>7
  <2> QED
    BY <2>4, <2>5
<1> HIDE DEF P
<1>4. n \in P
  <2>1. P \in SUBSET Nat
    BY DEF P
  <2>2. P = Nat
    BY <1>2, <1>3, <2>1, Inductive
  <2> QED
    BY <1>0, <2>2
<1>5. PICK p : Ok(n, p)
  BY <1>0, <1>4 DEF P
<1>6. f[n] \in enough
  <2> SUFFICES ASSUME n + 1 <= p PROVE f[n] \in enough
    BY <1>5
  <2>1. p = n + 1
    BY <1>0, <1>5 DEF Start
  <2> QED
    BY <1>5, <2>1, RestOfAll
<1> DEFINE d == Conversation!DropUntil(c, enough)
<1>7. d = f[n] /\ Start(c, p) /\ d = Rest(c, p)
  BY <1>1, <1>5 DEF Drops
<1>8. d \in Conversation!Exchanged(c) \cap enough
  BY <1>6, <1>7, ExchangedIs
<1>9. ASSUME NEW x \in Conversation!Exchanged(c) \cap enough PROVE Len(x) <= Len(d)
  <2>1. PICK r : Start(c, r) /\ x = Rest(c, r)
    BY ExchangedIs
  <2>2. p <= r
    BY <1>5, <2>1
  <2>3. p \in 1..(n + 1) /\ r \in 1..(n + 1)
    BY <1>7, <2>1 DEF Start
  <2>4. Len(Rest(c, p)) = n - p + 1 /\ Len(Rest(c, r)) = n - r + 1
    BY <2>3, RestIs
  <2> HIDE DEF d
  <2> QED
    BY <1>0, <1>7, <2>1, <2>2, <2>3, <2>4
<1> HIDE DEF d
<1> QED
  BY <1>7, <1>8, <1>9 DEF d, Conversation!IsLongest

(* The size of a conversation is a number, and that of none is none.        *)
LEMMA BytesAre ==
  ASSUME NEW c \in Seq(CTurn)
  PROVE  Conversation!Bytes(c) \in Nat /\ (c = << >> => Conversation!Bytes(c) = 0)
<1> DEFINE n == Len(c)
           dom == DOMAIN c
           step == [p \in Nat \X dom |-> p[1] + c[p[2]].size]
           D(g, t) == IF t = {} THEN 0 ELSE g[t \ {Max(t)}] + c[Max(t)].size
           IsF(g) == g = [t \in SUBSET dom |-> D(g, t)]
           F == CHOOSE g : IsF(g)
<1>1. n \in Nat /\ dom = 1..n
  OBVIOUS
<1>2. \A t \in Nat, k \in dom : step[<<t, k>>] = t + c[k].size /\ step[<<t, k>>] \in Nat
  <2>1. \A k \in dom : c[k].size \in Nat
    <3>1. \A k \in dom : c[k] \in CTurn
      OBVIOUS
    <3>2. \A t \in CTurn : t.size \in Nat
      BY DEF CTurn
    <3> QED
      BY <3>1, <3>2
  <2> QED
    BY <2>1
<1>3. \E g : IsF(g)
  <2> HIDE DEF step, n
  <2>0. step \in [Nat \X (1..n) -> Nat]
    BY <1>1, <1>2 DEF step
  <2> HIDE DEF dom
  <2>a. PICK T : T = Nat
    OBVIOUS
  <2>b. 0 \in T /\ step \in [T \X (1..n) -> T]
    BY <2>0, <2>a
  <2>c. PICK g : /\ g = [t \in SUBSET (1..n) |-> g[t]]
                 /\ g[{}] = 0
                 /\ \A t \in SUBSET (1..n) :
                      /\ t # {} => g[t] = step[<<g[t \ {Max(t)}], Max(t)>>]
                      /\ g[t] \in T
    <3>1. \A b \in T, st \in [T \X (1..n) -> T] :
            \E g : /\ g = [t \in SUBSET (1..n) |-> g[t]]
                   /\ g[{}] = b
                   /\ \A t \in SUBSET (1..n) :
                        /\ t # {} => g[t] = st[<<g[t \ {Max(t)}], Max(t)>>]
                        /\ g[t] \in T
      BY <1>1, FoldExists
    <3> HIDE DEF D, IsF
    <3> QED
      BY ZenonT(40), <2>b, <3>1
  <2>1. /\ g = [t \in SUBSET (1..n) |-> g[t]]
        /\ g[{}] = 0
        /\ \A t \in SUBSET (1..n) :
             /\ t # {} => g[t] = step[<<g[t \ {Max(t)}], Max(t)>>]
             /\ g[t] \in Nat
    BY <2>a, <2>c
  <2>2. ASSUME NEW t \in SUBSET (1..n), t # {}
        PROVE  step[<<g[t \ {Max(t)}], Max(t)>>] = D(g, t)
    <3>1. Max(t) \in dom /\ g[t \ {Max(t)}] \in Nat
      BY <1>1, <2>1, <2>2, MaxIn
    <3> QED
      BY <1>2, <2>2, <3>1
  <2>3. \A t \in SUBSET (1..n) : g[t] = D(g, t)
    BY <2>1, <2>2
  <2> HIDE DEF D
  <2>4. IsF(g)
    BY <1>1, <2>1, <2>3
  <2> QED
    BY <2>4
<1>4. F = [t \in SUBSET dom |-> D(F, t)]
  <2> HIDE DEF IsF
  <2>1. IsF(F)
    BY <1>3
  <2> QED
    BY <2>1 DEF IsF
<1>5. Conversation!Bytes(c) = F[dom]
  <2>1. \A t : Conversation!Max(t) = Max(t)
    BY DEF Conversation!Max, Max
  <2> QED
    BY <2>1 DEF Conversation!Bytes, Conversation!FoldLeft, Conversation!MapThenFoldSet
<1> HIDE DEF F
<1> DEFINE P == {k \in Nat : k <= n => F[1..k] \in Nat}
<1>6. F[{}] = 0
  BY <1>4
<1>7. 0 \in P
  <2>1. 1..0 = {}
    OBVIOUS
  <2> QED
    BY <1>6, <2>1
<1>8. ASSUME NEW k \in P PROVE k + 1 \in P
  <2> SUFFICES ASSUME k + 1 <= n PROVE F[1..(k + 1)] \in Nat
    OBVIOUS
  <2>1. k + 1 \in Nat /\ k + 1 # 0 /\ 1..(k + 1) \in SUBSET dom /\ F[1..k] \in Nat /\ (k + 1) - 1 = k
    BY <1>1
  <2>2. /\ 1..(k + 1) # {} /\ Max(1..(k + 1)) = k + 1
        /\ (1..(k + 1)) \ {Max(1..(k + 1))} = 1..((k + 1) - 1)
    BY <2>1, MaxUpTo
  <2>3. F[1..(k + 1)] = D(F, 1..(k + 1))
    BY <1>4, <2>1
  <2>4. F[1..(k + 1)] = F[1..k] + c[k + 1].size
    BY <2>1, <2>2, <2>3
  <2>5. c[k + 1].size \in Nat
    <3>1. c[k + 1] \in CTurn
      BY <1>1, <2>1
    <3> QED
      BY <3>1 DEF CTurn
  <2> QED
    BY <2>1, <2>4, <2>5
<1> HIDE DEF P
<1>9. n \in P
  <2>1. P \in SUBSET Nat
    BY DEF P
  <2> QED
    BY <1>1, <1>7, <1>8, <2>1, Inductive
<1>10. F[dom] \in Nat
  BY <1>1, <1>9 DEF P
<1>11. c = << >> => dom = {}
  OBVIOUS
<1> QED
  BY <1>5, <1>6, <1>10, <1>11

(* Every reply that asks for tools is followed by their results.            *)
Paired(c) ==
  \A i \in DOMAIN c :
    /\ c[i].role = "tool" => i > 1 /\ c[i - 1].role = "calls"
    /\ c[i].role = "calls" => i < Len(c) /\ c[i + 1].role = "tool"

Kept(c) == c \in Seq(CTurn) /\ Paired(c) /\ (c # << >> => c[1].role = "user")

(* Calls and results stay paired when conversations are joined.            *)
LEMMA PairedJoin ==
  ASSUME NEW c \in Seq(CTurn), NEW d \in Seq(CTurn), Paired(c), Paired(d)
  PROVE  c \o d \in Seq(CTurn) /\ Paired(c \o d)
<1> DEFINE e == c \o d
<1>1. /\ e \in Seq(CTurn) /\ Len(e) = Len(c) + Len(d) /\ DOMAIN e = 1..Len(e)
      /\ Len(c) \in Nat /\ Len(d) \in Nat /\ DOMAIN c = 1..Len(c) /\ DOMAIN d = 1..Len(d)
      /\ \A i \in 1..Len(c) : e[i] = c[i]
      /\ \A i \in 1..Len(d) : e[Len(c) + i] = d[i]
  OBVIOUS
<1> HIDE DEF e
<1>2. ASSUME NEW i \in DOMAIN e
      PROVE  /\ e[i].role = "tool" => i > 1 /\ e[i - 1].role = "calls"
             /\ e[i].role = "calls" => i < Len(e) /\ e[i + 1].role = "tool"
  <2>1. CASE i \in 1..Len(c)
    <3>1. /\ c[i].role = "tool" => i > 1 /\ c[i - 1].role = "calls"
          /\ c[i].role = "calls" => i < Len(c) /\ c[i + 1].role = "tool"
      BY <1>1, <2>1 DEF Paired
    <3>2. i > 1 => i - 1 \in 1..Len(c)
      BY <2>1
    <3>3. i < Len(c) => i + 1 \in 1..Len(c) /\ i < Len(e)
      BY <1>1, <2>1
    <3> QED
      BY <1>1, <2>1, <3>1, <3>2, <3>3
  <2>2. CASE i \notin 1..Len(c)
    <3>1. PICK k \in 1..Len(d) : i = Len(c) + k
      <4>1. i - Len(c) \in 1..Len(d) /\ i = Len(c) + (i - Len(c))
        BY <1>1, <2>2
      <4> QED
        BY <4>1
    <3>2. /\ d[k].role = "tool" => k > 1 /\ d[k - 1].role = "calls"
          /\ d[k].role = "calls" => k < Len(d) /\ d[k + 1].role = "tool"
      BY <1>1 DEF Paired
    <3>a. Len(c) \in Nat /\ Len(d) \in Nat /\ k \in Nat /\ 1 <= k /\ k <= Len(d) /\ i = Len(c) + k
      BY <1>1, <3>1
    <3>3. k > 1 => k - 1 \in 1..Len(d) /\ i - 1 = Len(c) + (k - 1) /\ i > 1
      BY ONLY <3>a
    <3>4. k < Len(d) => k + 1 \in 1..Len(d) /\ i + 1 = Len(c) + (k + 1) /\ i < Len(e)
      BY <1>1, <3>1
    <3> QED
      BY <1>1, <3>1, <3>2, <3>3, <3>4
  <2> QED
    BY <2>1, <2>2
<1> QED
  BY <1>1, <1>2 DEF Paired, e

(* They stay paired from a user's turn on.                                 *)
LEMMA PairedRest ==
  ASSUME NEW c \in Seq(CTurn), Paired(c), NEW p, Start(c, p)
  PROVE  Kept(Rest(c, p))
<1> DEFINE d == Rest(c, p)
<1>0. p \in 1..(Len(c) + 1) /\ Len(c) \in Nat /\ DOMAIN c = 1..Len(c)
  BY DEF Start
<1>1. /\ d \in Seq(CTurn) /\ Len(d) = Len(c) - p + 1 /\ DOMAIN d = 1..Len(d)
      /\ \A i \in 1..Len(d) : d[i] = c[p + i - 1]
  BY <1>0, RestIs
<1> HIDE DEF d
<1>2. d # << >> => d[1].role = "user" /\ p \in 1..Len(c)
  <2> SUFFICES ASSUME d # << >> PROVE d[1].role = "user" /\ p \in 1..Len(c)
    OBVIOUS
  <2>1. 1 \in 1..Len(d) /\ p <= Len(c) /\ p + 1 - 1 = p
    BY <1>0, <1>1
  <2> QED
    BY <1>0, <1>1, <2>1 DEF Start
<1>3. ASSUME NEW i \in DOMAIN d
      PROVE  /\ d[i].role = "tool" => i > 1 /\ d[i - 1].role = "calls"
             /\ d[i].role = "calls" => i < Len(d) /\ d[i + 1].role = "tool"
  <2>1. PICK k : k = p + i - 1
    OBVIOUS
  <2>2. i \in 1..Len(d) /\ k \in 1..Len(c) /\ d[i] = c[k] /\ d # << >>
    BY <1>0, <1>1, <2>1
  <2>3. /\ c[k].role = "tool" => k > 1 /\ c[k - 1].role = "calls"
        /\ c[k].role = "calls" => k < Len(c) /\ c[k + 1].role = "tool"
    BY <1>0, <2>2 DEF Paired
  <2>a. Len(d) \in Nat /\ i \in Nat /\ 1 <= i /\ i <= Len(d) /\ p \in Nat
    BY <1>0, <1>1, <2>2
  <2>4. i > 1 => i - 1 \in 1..Len(d) /\ p + (i - 1) - 1 = k - 1
    BY ONLY SMTT(30), <2>1, <2>a
  <2>5. k < Len(c) => i + 1 \in 1..Len(d) /\ p + (i + 1) - 1 = k + 1 /\ i < Len(d)
    BY <1>0, <1>1, <2>1, <2>2
  <2>6. d[i].role = "tool" => i > 1
    BY <1>2, <2>2
  <2> QED
    BY <1>1, <2>2, <2>3, <2>4, <2>5, <2>6
<1> QED
  BY <1>1, <1>2, <1>3 DEF Kept, Paired, d

(* Two conversations one after the other are a conversation.               *)
LEMMA KeptJoin ==
  ASSUME NEW c, NEW d, Kept(c), Kept(d)
  PROVE  Kept(c \o d)
<1>1. c \in Seq(CTurn) /\ d \in Seq(CTurn) /\ Paired(c) /\ Paired(d)
  BY DEF Kept
<1>2. c \o d \in Seq(CTurn) /\ Paired(c \o d)
  BY <1>1, PairedJoin
<1>3. c \o d # << >> => (c \o d)[1].role = "user"
  <2>1. CASE c = << >>
    <3>1. c \o d = d
      BY <1>1, <2>1
    <3> QED
      BY <3>1 DEF Kept
  <2>2. CASE c # << >>
    <3>1. (c \o d)[1] = c[1]
      BY <1>1, <2>2
    <3> QED
      BY <2>2, <3>1 DEF Kept
  <2> QED
    BY <2>1, <2>2
<1> QED
  BY <1>2, <1>3 DEF Kept

(* They stay paired in the rounds of an exchange.                          *)
LEMMA PairedFlat ==
  ASSUME NEW s \in Seq(Seq(CTurn)), \A i \in DOMAIN s : Paired(s[i])
  PROVE  Conversation!FlattenSeq(s) \in Seq(CTurn) /\ Paired(Conversation!FlattenSeq(s))
<1>0. Conversation!FlattenSeq(s) = FlattenSeq(s)
  BY DEF Conversation!FlattenSeq, FlattenSeq
<1>1. CASE Len(s) = 0
  <2>1. FlattenSeq(s) = << >>
    BY <1>1 DEF FlattenSeq
  <2> QED
    BY <1>0, <2>1 DEF Paired
<1>2. CASE Len(s) # 0
  <2>1. PICK f : /\ FlattenSeq(s) = f[Len(s)] /\ f[1] = s[1]
                 /\ \A i \in 2..Len(s) : f[i] = f[i - 1] \o s[i]
    BY <1>2, FlattenSteps
  <2> DEFINE P == {k \in Nat : k + 1 <= Len(s) => f[k + 1] \in Seq(CTurn) /\ Paired(f[k + 1])}
  <2>2. 0 \in P
    <3>1. 1 \in DOMAIN s /\ s[1] \in Seq(CTurn) /\ Paired(s[1])
      BY <1>2
    <3> QED
      BY <2>1, <3>1
  <2>3. ASSUME NEW k \in P PROVE k + 1 \in P
    <3> SUFFICES ASSUME (k + 1) + 1 <= Len(s)
                 PROVE  f[(k + 1) + 1] \in Seq(CTurn) /\ Paired(f[(k + 1) + 1])
      OBVIOUS
    <3>1. /\ (k + 1) + 1 \in 2..Len(s) /\ ((k + 1) + 1) - 1 = k + 1 /\ k + 1 <= Len(s)
          /\ (k + 1) + 1 \in DOMAIN s
      OBVIOUS
    <3>2. f[(k + 1) + 1] = f[k + 1] \o s[(k + 1) + 1]
      BY <2>1, <3>1
    <3>3. f[k + 1] \in Seq(CTurn) /\ Paired(f[k + 1])
      BY <3>1
    <3>4. s[(k + 1) + 1] \in Seq(CTurn) /\ Paired(s[(k + 1) + 1])
      BY <3>1
    <3> HIDE DEF P
    <3> QED
      BY <3>2, <3>3, <3>4, PairedJoin
  <2> HIDE DEF P
  <2>4. P = Nat
    <3>1. P \in SUBSET Nat
      BY DEF P
    <3> QED
      BY <2>2, <2>3, <3>1, Inductive
  <2>5. Len(s) - 1 \in Nat /\ (Len(s) - 1) + 1 = Len(s) /\ Len(s) <= Len(s)
    BY <1>2
  <2> QED
    BY <1>0, <2>1, <2>4, <2>5 DEF P
<1> QED
  BY <1>1, <1>2

(* An exchange is a conversation.                                          *)
LEMMA ExchangeIs ==
  ASSUME NEW e \in Conversation!Exchanges
  PROVE  Kept(e) /\ e # << >>
<1>1. PICK size \in Sizes, rounds \in UNION {[1..n -> Conversation!Rounds] : n \in 0..MaxRounds},
           last \in {<< >>, <<Conversation!Turn("assistant", 1)>>} :
        e = <<Conversation!Turn("user", size)>> \o Conversation!FlattenSeq(rounds) \o last
  <2>1. PICK size \in Sizes, rounds \in UNION {[1..n -> Conversation!Rounds] : n \in 0..MaxRounds},
             last \in {<< >>, <<Conversation!Turn("assistant", 1)>>} :
          e = Conversation!Exchange(size, rounds, last)
    BY DEF Conversation!Exchanges
  <2> QED
    BY <2>1, Zenon DEF Conversation!Exchange
<1>2. PICK n \in 0..MaxRounds : rounds \in [1..n -> Conversation!Rounds]
  OBVIOUS
<1>3. n \in Nat /\ size \in Nat
  BY SizesAssumption
<1>4. \A r \in Conversation!Rounds : r \in Seq(CTurn) /\ Paired(r)
  <2> SUFFICES ASSUME NEW r \in Conversation!Rounds PROVE r \in Seq(CTurn) /\ Paired(r)
    OBVIOUS
  <2> DEFINE a == Conversation!Turn("calls", 1)
             b == Conversation!Turn("tool", 1)
             t == Conversation!Turn("assistant", 1)
  <2>1. /\ {a, b, t} \subseteq CTurn
        /\ a.role = "calls" /\ b.role = "tool" /\ t.role = "assistant"
    BY DEF Conversation!Turn, CTurn
  <2>2. r = <<a, b>> \/ r = <<t>>
    BY DEF Conversation!Rounds
  <2> HIDE DEF a, b, t
  <2>3. CASE r = <<a, b>>
    BY <2>1, <2>3 DEF Paired
  <2>4. CASE r = <<t>>
    BY <2>1, <2>4 DEF Paired
  <2> QED
    BY <2>2, <2>3, <2>4
<1>5. rounds \in Seq(Seq(CTurn)) /\ \A i \in DOMAIN rounds : Paired(rounds[i])
  <2> HIDE DEF CTurn
  <2>1. \A i \in 1..n : rounds[i] \in Seq(CTurn) /\ Paired(rounds[i])
    BY <1>2, <1>4
  <2>2. rounds = [i \in 1..n |-> rounds[i]]
    BY <1>2
  <2> QED
    BY <1>3, <2>1, <2>2
<1> DEFINE flat == Conversation!FlattenSeq(rounds)
           u == Conversation!Turn("user", size)
<1>6. flat \in Seq(CTurn) /\ Paired(flat)
  BY <1>5, PairedFlat
<1>7. u \in CTurn /\ u.role = "user"
  BY <1>3 DEF Conversation!Turn, CTurn
<1>8. last \in Seq(CTurn) /\ Paired(last)
  <2> DEFINE t == Conversation!Turn("assistant", 1)
  <2>1. t \in CTurn /\ t.role = "assistant"
    BY DEF Conversation!Turn, CTurn
  <2>2. last = << >> \/ last = <<t>>
    OBVIOUS
  <2> HIDE DEF t
  <2>3. CASE last = << >>
    BY <2>3 DEF Paired
  <2>4. CASE last = <<t>>
    BY <2>1, <2>4 DEF Paired
  <2> QED
    BY <2>2, <2>3, <2>4
<1> HIDE DEF flat, u
<1>9. <<u>> \in Seq(CTurn) /\ Paired(<<u>>)
  BY <1>7 DEF Paired
<1>10. <<u>> \o flat \in Seq(CTurn) /\ Paired(<<u>> \o flat)
  BY <1>6, <1>9, PairedJoin
<1>11. PICK d : d = <<u>> \o flat
  OBVIOUS
<1>12. d \o last \in Seq(CTurn) /\ Paired(d \o last)
  BY <1>8, <1>10, <1>11, PairedJoin
<1>13. e = d \o last
  BY <1>1, <1>11 DEF flat, u
<1>14. e # << >> /\ e[1] = u
  <2>1. d # << >> /\ d[1] = u /\ d \in Seq(CTurn)
    BY <1>6, <1>7, <1>10, <1>11
  <2> QED
    BY <1>8, <1>13, <2>1
<1> QED
  BY <1>7, <1>12, <1>13, <1>14 DEF Kept

-----------------------------------------------------------------------------
(* What is under the limits, and what is half of it.                        *)
LEMMA SuffixesAre ==
  ASSUME NEW c \in Seq(CTurn), NEW s \in Conversation!Exchanged(c)
  PROVE  s \in Conversation!Suffixes(c) /\ s \in Seq(CTurn)
<1>1. PICK p : Start(c, p) /\ s = Rest(c, p)
  BY ExchangedIs
<1>2. p \in 1..(Len(c) + 1) /\ Len(c) \in Nat
  BY <1>1 DEF Start
<1>3. s \in Seq(CTurn)
  BY <1>1, <1>2, RestIs
<1>4. CASE p = Len(c) + 1
  <2>1. s = << >>
    BY <1>1, <1>4, RestOfAll
  <2> QED
    BY <1>3, <2>1 DEF Conversation!Suffixes
<1>5. CASE p # Len(c) + 1
  <2>1. p \in 1..Len(c)
    BY <1>2, <1>5
  <2> QED
    BY <1>1, <1>3, <2>1 DEF Conversation!Suffixes, Rest
<1> QED
  BY <1>4, <1>5

(* Trim keeps the longest conversation within the limits.                  *)
LEMMA TrimIs ==
  ASSUME NEW c, Kept(c)
  PROVE  /\ Kept(Conversation!Trim(c))
         /\ Conversation!IsLongest(Conversation!Trim(c),
              {s \in Conversation!Exchanged(c) :
                 Len(s) <= MAX_TURNS /\ Conversation!Bytes(s) <= MAX_STATE_BYTES})
<1> DEFINE enough == {s \in Conversation!Suffixes(c) : ~Conversation!TooLong(s)}
           under == {s \in Conversation!Exchanged(c) :
                       Len(s) <= MAX_TURNS /\ Conversation!Bytes(s) <= MAX_STATE_BYTES}
<1>1. c \in Seq(CTurn) /\ Paired(c) /\ (c # << >> => c[1].role = "user")
  BY DEF Kept
<1>2. MAX_TURNS \in Nat /\ MAX_STATE_BYTES \in Nat
  BY SizesAssumption
<1>3. << >> \in enough
  <2>1. << >> \in Seq(CTurn) /\ Len(<< >>) = 0
    OBVIOUS
  <2>2. Conversation!Bytes(<< >>) = 0
    BY <2>1, BytesAre
  <2> QED
    BY <1>2, <2>1, <2>2 DEF Conversation!Suffixes, Conversation!TooLong
<1>4. under = Conversation!Exchanged(c) \cap enough
  <2>1. ASSUME NEW s \in Conversation!Exchanged(c)
        PROVE  s \in enough <=> Len(s) <= MAX_TURNS /\ Conversation!Bytes(s) <= MAX_STATE_BYTES
    <3>1. s \in Conversation!Suffixes(c) /\ s \in Seq(CTurn)
      BY <1>1, <2>1, SuffixesAre
    <3>2. Conversation!Bytes(s) \in Nat /\ Len(s) \in Nat
      BY <3>1, BytesAre
    <3> QED
      BY <1>2, <3>1, <3>2 DEF Conversation!TooLong
  <2> QED
    BY <2>1
<1> HIDE DEF enough, under
<1>5. /\ \E p : Start(c, p) /\ Conversation!DropUntil(c, enough) = Rest(c, p)
      /\ Conversation!IsLongest(Conversation!DropUntil(c, enough),
                                Conversation!Exchanged(c) \cap enough)
  BY <1>1, <1>3, DropLongest
<1>6. Conversation!Trim(c) = Conversation!DropUntil(c, enough)
  BY DEF Conversation!Trim, enough
<1>7. PICK p : Start(c, p) /\ Conversation!Trim(c) = Rest(c, p)
  BY <1>5, <1>6
<1>8. Kept(Conversation!Trim(c))
  BY <1>1, <1>7, PairedRest
<1> QED
  BY <1>4, <1>5, <1>6, <1>8 DEF under

(* Halve keeps the longest of at most half the turns.                      *)
LEMMA HalveIs ==
  ASSUME NEW c, Kept(c)
  PROVE  /\ Kept(Conversation!Halve(c))
         /\ Conversation!IsLongest(Conversation!Halve(c),
              {s \in Conversation!Exchanged(c) : 2 * Len(s) <= Len(c)})
<1> DEFINE enough == {s \in Conversation!Suffixes(c) : Len(s) <= Len(c) \div 2}
           half == {s \in Conversation!Exchanged(c) : 2 * Len(s) <= Len(c)}
<1>1. c \in Seq(CTurn) /\ Paired(c) /\ (c # << >> => c[1].role = "user")
  BY DEF Kept
<1>2. \A k, n \in Nat : k <= n \div 2 <=> 2 * k <= n
  OBVIOUS
<1>3. << >> \in enough
  <2>1. Len(<< >>) = 0 /\ Len(c) \in Nat
    BY <1>1
  <2>2. 0 <= Len(c) \div 2
    BY <1>2, <2>1
  <2> QED
    BY <2>1, <2>2 DEF Conversation!Suffixes
<1>4. half = Conversation!Exchanged(c) \cap enough
  <2>1. ASSUME NEW s \in Conversation!Exchanged(c)
        PROVE  s \in enough <=> 2 * Len(s) <= Len(c)
    <3>1. s \in Conversation!Suffixes(c) /\ s \in Seq(CTurn)
      BY <1>1, <2>1, SuffixesAre
    <3>2. Len(c) \in Nat /\ Len(s) \in Nat
      BY <1>1, <3>1
    <3>3. Len(s) <= Len(c) \div 2 <=> 2 * Len(s) <= Len(c)
      BY <1>2, <3>2
    <3> QED
      BY <3>1, <3>3
  <2> QED
    BY <2>1
<1> HIDE DEF enough, half
<1>5. /\ \E p : Start(c, p) /\ Conversation!DropUntil(c, enough) = Rest(c, p)
      /\ Conversation!IsLongest(Conversation!DropUntil(c, enough),
                                Conversation!Exchanged(c) \cap enough)
  BY <1>1, <1>3, DropLongest
<1>6. Conversation!Halve(c) = Conversation!DropUntil(c, enough)
  BY DEF Conversation!Halve, enough
<1>7. PICK p : Start(c, p) /\ Conversation!Halve(c) = Rest(c, p)
  BY <1>5, <1>6
<1>8. Kept(Conversation!Halve(c))
  BY <1>1, <1>7, PairedRest
<1> QED
  BY <1>4, <1>5, <1>6, <1>8 DEF half

(* A save stores a conversation.                                           *)
LEMMA SaveKeeps ==
  ASSUME Kept(stored), Conversation!Next
  PROVE  Kept(stored')
<1>1. PICK e \in Conversation!Exchanges : Conversation!Save(e) \/ Conversation!SaveShortened(e)
  BY DEF Conversation!Next
<1>2. Kept(e)
  BY ExchangeIs
<1>3. PICK d : Kept(d) /\ stored' = Conversation!Trim(d \o e)
  <2>1. CASE Conversation!Save(e)
    BY <2>1 DEF Conversation!Save
  <2>2. CASE Conversation!SaveShortened(e)
    BY <2>2, HalveIs DEF Conversation!SaveShortened
  <2> QED
    BY <1>1, <2>1, <2>2
<1>4. PICK c : c = d \o e
  OBVIOUS
<1>5. Kept(c)
  BY <1>2, <1>3, <1>4, KeptJoin
<1> QED
  BY <1>3, <1>4, <1>5, TrimIs

(* A conversation is well formed, and trim and halve keep the most of it.  *)
LEMMA KeptIsWhole ==
  ASSUME Kept(stored)
  PROVE  Conversation!WellFormed /\ Conversation!TrimKeepsMost /\ Conversation!HalveKeepsHalf
<1>1. Conversation!WellFormed
  BY DEF Kept, Paired, Conversation!WellFormed
<1>2. ASSUME NEW e \in Conversation!Exchanges, NEW c, c = stored \o e
      PROVE  Conversation!IsLongest(Conversation!Trim(c),
              {s \in Conversation!Exchanged(c) :
                 Len(s) <= MAX_TURNS /\ Conversation!Bytes(s) <= MAX_STATE_BYTES})
  <2>1. Kept(c)
    BY <1>2, ExchangeIs, KeptJoin
  <2> QED
    BY <2>1, TrimIs
<1>3. Conversation!TrimKeepsMost
  <2> SUFFICES ASSUME NEW e \in Conversation!Exchanges
               PROVE  LET c == stored \o e
                      IN Conversation!IsLongest(Conversation!Trim(c),
                           {s \in Conversation!Exchanged(c) :
                              Len(s) <= MAX_TURNS /\ Conversation!Bytes(s) <= MAX_STATE_BYTES})
    BY DEF Conversation!TrimKeepsMost
  <2>1. PICK c : c = stored \o e
    OBVIOUS
  <2>2. Conversation!IsLongest(Conversation!Trim(c),
              {s \in Conversation!Exchanged(c) :
                 Len(s) <= MAX_TURNS /\ Conversation!Bytes(s) <= MAX_STATE_BYTES})
    BY <1>2, <2>1
  <2> QED
    BY <2>1, <2>2, Zenon
<1>4. Conversation!HalveKeepsHalf
  BY HalveIs DEF Conversation!HalveKeepsHalf
<1> QED
  BY <1>1, <1>3, <1>4

-----------------------------------------------------------------------------
(* Each part by its own invariant.                                          *)
SessionInv ==
  /\ part = "talk" => TalkInv
  /\ part = "conversation" => Kept(stored)

(* A session starts with a conversation, or with none.                     *)
LEMMA SessionStart == HistoryInit => SessionInv
<1> SUFFICES ASSUME HistoryInit PROVE SessionInv
  OBVIOUS
<1>1. TalkInv
  BY TalkStart DEF HistoryInit
<1>2. stored = << >>
  BY DEF HistoryInit, Talk!Init
<1>3. Kept(stored)
  BY <1>2 DEF Kept, Paired
<1> QED
  BY <1>1, <1>3 DEF SessionInv

(* Every step of a session keeps its invariant.                            *)
LEMMA SessionStep == SessionInv /\ [HistoryNext]_<<vars, part, stored, talkVars>> => SessionInv'
<1> SUFFICES ASSUME SessionInv, [HistoryNext]_<<vars, part, stored, talkVars>>
             PROVE  SessionInv'
  OBVIOUS
<1>1. CASE UNCHANGED <<part, stored, talkVars>>
  <2>1. part = "talk" => TalkInv'
    BY <1>1, TalkSame DEF SessionInv
  <2>2. part' = part /\ stored' = stored
    BY <1>1
  <2> QED
    BY <2>1, <2>2 DEF SessionInv
<1>2. CASE part = "conversation" /\ Conversation!Next /\ UNCHANGED <<part, vars, talkVars>>
  <2>1. Kept(stored')
    BY <1>2, SaveKeeps DEF SessionInv
  <2> QED
    BY <1>2, <2>1 DEF SessionInv
<1>3. CASE part = "talk" /\ Talk!Next /\ UNCHANGED <<part, vars>>
  <2>1. TalkInv'
    BY <1>3, TalkStep DEF SessionInv
  <2> QED
    BY <1>3, <2>1 DEF SessionInv
<1> QED
  BY <1>1, <1>2, <1>3 DEF HistoryNext

(***************************************************************************)
(* What a session stores stays a conversation with every call answered,    *)
(* cut no shorter than its limits ask; what a model is sent of it is one   *)
(* too, the next run replays what this one's model saw and said, and the   *)
(* driver hears how its run ended (conversation.rs, run.rs, turn.rs).      *)
(***************************************************************************)
THEOREM ConversationsStayWhole == HistorySpec => []ConversationStaysWhole
<1>1. HistoryInit => SessionInv
  BY SessionStart
<1>2. SessionInv /\ [HistoryNext]_<<vars, part, stored, talkVars>> => SessionInv'
  BY SessionStep
<1>3. SessionInv => ConversationStaysWhole
  BY KeptIsWhole, SentIsWhole, SaidIsReplayed, HeardIs DEF SessionInv, ConversationStaysWhole, TalkInv
<1> QED
  BY <1>1, <1>2, <1>3, PTL DEF HistorySpec
=============================================================================
