--------------------------- MODULE Folding_proofs ---------------------------
(***************************************************************************)
(* What the proofs about recursive definitions rest on: least numbers,     *)
(* induction over sets of numbers, and the steps of a fold.                *)
(***************************************************************************)
EXTENDS Integers, Sequences, FiniteSets, FiniteSetsExt, FiniteSetTheorems, WellFoundedInduction, TLAPS

(* Numbers have a least. *)
LEMMA Least ==
  ASSUME NEW T \in SUBSET Nat, T # {}
  PROVE  \E x \in T : \A y \in T : x <= y
<1> DEFINE R == OpToRel(<, Nat)
<1>1. IsWellFoundedOn(R, Nat)
  BY NatLessThanWellFounded
<1>2. \A x, y \in Nat : x < y => <<x, y>> \in R
  BY DEF OpToRel
<1> HIDE DEF R
<1>3. PICK x \in T : \A y \in T : <<y, x>> \notin R
  BY <1>1, WFMin
<1>4. \A y \in T : ~(y < x)
  BY <1>2, <1>3
<1> QED
  BY <1>4

(* A property of natural numbers, as a set, is proved by induction. *)
LEMMA Inductive ==
  ASSUME NEW P \in SUBSET Nat, 0 \in P, \A n \in P : n + 1 \in P
  PROVE  P = Nat
<1>1. ASSUME NEW n \in Nat, n \notin P PROVE FALSE
  <2>1. PICK x \in Nat \ P : \A y \in Nat \ P : x <= y
    <3>1. Nat \ P \in SUBSET Nat /\ Nat \ P # {}
      BY <1>1
    <3> QED
      BY <3>1, Least
  <2>2. x # 0 /\ x - 1 \in Nat /\ x - 1 < x
    BY <2>1
  <2>3. x - 1 \in P
    BY <2>1, <2>2
  <2> QED
    BY <2>1, <2>2, <2>3
<1> QED
  BY <1>1

(* The largest of the first numbers. *)
LEMMA MaxUpTo ==
  ASSUME NEW k \in Nat, k # 0
  PROVE  /\ 1..k # {} /\ k - 1 \in Nat
         /\ Max(1..k) = k /\ (1..k) \ {Max(1..k)} = 1..(k - 1)
<1>1. k \in 1..k /\ \A y \in 1..k : k >= y
  OBVIOUS
<1>2. Max(1..k) \in 1..k /\ \A y \in 1..k : Max(1..k) >= y
  BY <1>1 DEF Max
<1>3. Max(1..k) = k
  BY <1>1, <1>2
<1> QED
  BY <1>1, <1>3

(* And of a set of them that has the last. *)
LEMMA MaxOfLast ==
  ASSUME NEW k \in Nat, NEW s \in SUBSET (1..(k + 1)), k + 1 \in s
  PROVE  Max(s) = k + 1
<1>1. k + 1 \in s /\ \A y \in s : k + 1 >= y
  OBVIOUS
<1>2. Max(s) \in s /\ \A y \in s : Max(s) >= y
  BY <1>1 DEF Max
<1>3. Max(s) \in 1..(k + 1) /\ Max(s) >= k + 1
  BY <1>1, <1>2
<1> QED
  BY <1>3

(* A fold over n places is well defined, whatever its step. *)
LEMMA FoldExists ==
  ASSUME NEW n \in Nat, NEW T, NEW base \in T, NEW step \in [T \X (1..n) -> T]
  PROVE  \E f : /\ f = [s \in SUBSET (1..n) |-> f[s]]
                /\ f[{}] = base
                /\ \A s \in SUBSET (1..n) :
                     /\ s # {} => f[s] = step[<<f[s \ {Max(s)}], Max(s)>>]
                     /\ f[s] \in T
<1>0. \A t \in T, k \in 1..n : step[<<t, k>>] \in T
  OBVIOUS
<1> DEFINE D(g, s) == IF s = {} THEN base ELSE step[<<g[s \ {Max(s)}], Max(s)>>]
           IsF(g, m) == /\ g = [s \in SUBSET (1..m) |-> D(g, s)]
                        /\ \A s \in SUBSET (1..m) : g[s] \in T
           P == {m \in Nat : m <= n => \E g : IsF(g, m)}
<1>1. 0 \in P
  <2> DEFINE g == [s \in SUBSET (1..0) |-> base]
  <2>1. \A s \in SUBSET (1..0) : s = {}
    OBVIOUS
  <2>2. \A s \in SUBSET (1..0) : D(g, s) = base
    BY <2>1
  <2>3. IsF(g, 0)
    BY <2>2
  <2> QED
    BY <2>3
<1>2. ASSUME NEW m \in P PROVE m + 1 \in P
  <2> HIDE DEF IsF
  <2>0. m \in Nat /\ m + 1 \in Nat
    OBVIOUS
  <2> SUFFICES ASSUME m + 1 <= n PROVE \E g : IsF(g, m + 1)
    BY <2>0
  <2>1. m \in Nat /\ m <= n /\ m + 1 \in 1..n
    BY <2>0
  <2>2. PICK g : IsF(g, m)
    BY <2>1
  <2> USE DEF IsF
  <2> DEFINE All == SUBSET (1..(m + 1))
             h == [s \in All |-> IF m + 1 \in s THEN step[<<g[s \ {m + 1}], m + 1>>] ELSE g[s]]
  <2>3. \A s \in SUBSET (1..m) : s \in All /\ m + 1 \notin s
    BY <2>1
  <2>4. \A s \in All : m + 1 \notin s => s \in SUBSET (1..m)
    BY <2>1
  <2>5. \A s \in All : s \ {m + 1} \in SUBSET (1..m)
    BY <2>1
  <2>6. \A s \in SUBSET (1..m) : h[s] = g[s] /\ g[s] \in T
    BY <2>2, <2>3
  <2>7. ASSUME NEW s \in All PROVE h[s] = D(h, s) /\ h[s] \in T
    <3>1. CASE m + 1 \in s
      <4>1. Max(s) = m + 1
        BY <2>1, <3>1, MaxOfLast
      <4>2. h[s] = step[<<g[s \ {m + 1}], m + 1>>] /\ h[s \ {m + 1}] = g[s \ {m + 1}]
        BY <2>5, <2>6, <3>1
      <4>3. h[s] = D(h, s)
        BY <4>1, <4>2, <3>1
      <4>4. g[s \ {m + 1}] \in T
        BY <2>5, <2>6
      <4> QED
        BY <1>0, <2>1, <4>2, <4>3, <4>4
    <3>2. CASE m + 1 \notin s
      <4>1. s \in SUBSET (1..m) /\ s \ {Max(s)} \in SUBSET (1..m)
        BY <2>4, <3>2
      <4>2. h[s] = g[s] /\ h[s \ {Max(s)}] = g[s \ {Max(s)}] /\ h[s] \in T
        BY <2>6, <4>1
      <4>3. g[s] = D(g, s)
        BY <2>2, <4>1
      <4> QED
        BY <4>2, <4>3
    <3> QED
      BY <3>1, <3>2
  <2>8. h = [s \in All |-> D(h, s)]
    <3> HIDE DEF D
    <3>1. h = [s \in All |-> h[s]]
      OBVIOUS
    <3> HIDE DEF h
    <3> QED
      BY <2>7, <3>1
  <2> HIDE DEF h
  <2> QED
    BY <2>7, <2>8
<1> HIDE DEF P
<1>3. P = Nat
  <2>1. P \in SUBSET Nat
    BY DEF P
  <2> QED
    BY <1>1, <1>2, <2>1, Inductive
<1>4. \E g : IsF(g, n)
  <2>1. n \in P /\ n <= n
    BY <1>3
  <2> HIDE DEF IsF
  <2> QED
    BY <2>1 DEF P
<1> QED
  <2>1. PICK g : IsF(g, n)
    BY <1>4
  <2>2. \A s \in SUBSET (1..n) : g[s] = D(g, s) /\ g[s] \in T
    BY <2>1
  <2>3. g = [s \in SUBSET (1..n) |-> g[s]]
    <3> HIDE DEF D
    <3> QED
      BY <2>1
  <2> QED
    BY <2>2, <2>3

(* A set of the first numbers has a largest. *)
LEMMA MaxIn ==
  ASSUME NEW n \in Nat, NEW t \in SUBSET (1..n), t # {}
  PROVE  Max(t) \in t
<1> DEFINE T == {x \in Nat : n - x \in t}
<1>1. T # {}
  <2>1. PICK y \in t : TRUE
    OBVIOUS
  <2>2. n - y \in Nat /\ n - (n - y) = y
    OBVIOUS
  <2> QED
    BY <2>1, <2>2
<1>2. PICK x \in T : \A y \in T : x <= y
  BY <1>1, Least
<1>3. \A y \in t : n - y \in Nat /\ n - (n - y) = y /\ y \in Int
  OBVIOUS
<1>4. \A y \in t : n - x >= y
  <2>1. \A y \in t : x <= n - y
    BY <1>2, <1>3
  <2> QED
    BY <1>2, <1>3, <2>1
<1>5. n - x \in t
  BY <1>2
<1> QED
  BY <1>4, <1>5 DEF Max

(* R puts the elements of S in an order, where some may be equal.           *)
Orders(R, S) ==
  /\ \A a, b \in S : <<a, b>> \in R \/ <<b, a>> \in R
  /\ \A a, b, c \in S : <<a, b>> \in R /\ <<b, c>> \in R => <<a, c>> \in R

(* A finite set that is in an order has a last element.                    *)
LEMMA HasLast ==
  ASSUME NEW S, IsFiniteSet(S), S # {}, NEW R, Orders(R, S)
  PROVE  \E m \in S : \A y \in S : <<y, m>> \in R
<1> DEFINE Lasts(T) == \E m \in T : \A y \in T : <<y, m>> \in R
           P == {n \in Nat : \A T \in SUBSET S : Cardinality(T) = n + 1 => Lasts(T)}
<1>0. \A T \in SUBSET S : IsFiniteSet(T) /\ Cardinality(T) \in Nat
  BY FS_Subset, FS_CardinalityType
<1>1. 0 \in P
  <2> SUFFICES ASSUME NEW T \in SUBSET S, Cardinality(T) = 1 PROVE Lasts(T)
    OBVIOUS
  <2>1. PICK m : T = {m}
    BY <1>0, FS_Singleton
  <2> QED
    BY <2>1 DEF Orders
<1>2. ASSUME NEW n \in P PROVE n + 1 \in P
  <2>0. n \in Nat /\ n + 1 \in Nat
    OBVIOUS
  <2> SUFFICES ASSUME NEW T \in SUBSET S, Cardinality(T) = n + 2 PROVE Lasts(T)
    BY <2>0
  <2>1. PICK x \in T : TRUE
    BY <1>0, <2>0, FS_EmptySet
  <2>2. Cardinality(T \ {x}) = n + 1
    BY <1>0, <2>0, <2>1, FS_RemoveElement
  <2>3. PICK m \in T \ {x} : \A y \in T \ {x} : <<y, m>> \in R
    <3>1. T \ {x} \in SUBSET S
      OBVIOUS
    <3> QED
      BY <2>2, <3>1
  <2>4. m \in S /\ x \in S
    OBVIOUS
  <2>5. CASE <<x, m>> \in R
    BY <2>3, <2>5
  <2>6. CASE <<x, m>> \notin R
    <3>1. <<m, x>> \in R /\ <<x, x>> \in R
      BY <2>4, <2>6 DEF Orders
    <3>2. \A y \in T : <<y, x>> \in R
      BY <2>3, <2>4, <3>1 DEF Orders
    <3> QED
      BY <2>1, <3>2
  <2> QED
    BY <2>5, <2>6
<1>3. P = Nat
  <2>1. P \in SUBSET Nat
    OBVIOUS
  <2> HIDE DEF P
  <2> QED
    BY <1>1, <1>2, <2>1, Inductive
<1>4. PICK n \in Nat : Cardinality(S) = n + 1
  <2>1. Cardinality(S) \in Nat /\ Cardinality(S) # 0
    BY <1>0, FS_EmptySet
  <2> QED
    BY <2>1
<1> QED
  BY <1>3, <1>4

(* What is in an order can be sorted.                                      *)
LEMMA Sorts ==
  ASSUME NEW S, IsFiniteSet(S), NEW R, Orders(R, S)
  PROVE  \E s \in [1..Cardinality(S) -> S] :
           /\ \A i, k \in 1..Cardinality(S) : i < k => s[i] # s[k] /\ <<s[i], s[k]>> \in R
           /\ \A a \in S : \E i \in 1..Cardinality(S) : s[i] = a
<1> DEFINE Sorted(T, n) ==
             \E s \in [1..n -> T] :
               /\ \A i, k \in 1..n : i < k => s[i] # s[k] /\ <<s[i], s[k]>> \in R
               /\ \A a \in T : \E i \in 1..n : s[i] = a
           P == {n \in Nat : \A T \in SUBSET S : Cardinality(T) = n => Sorted(T, n)}
<1>0. \A T \in SUBSET S : IsFiniteSet(T) /\ Cardinality(T) \in Nat
  BY FS_Subset, FS_CardinalityType
<1>1. 0 \in P
  <2> SUFFICES ASSUME NEW T \in SUBSET S, Cardinality(T) = 0 PROVE Sorted(T, 0)
    OBVIOUS
  <2>1. T = {}
    BY <1>0, FS_EmptySet
  <2>2. << >> \in [1..0 -> T] /\ 1..0 = {}
    OBVIOUS
  <2> QED
    BY <2>1, <2>2
<1>2. ASSUME NEW n \in P PROVE n + 1 \in P
  <2>0. n \in Nat /\ n + 1 \in Nat
    OBVIOUS
  <2> SUFFICES ASSUME NEW T \in SUBSET S, Cardinality(T) = n + 1 PROVE Sorted(T, n + 1)
    BY <2>0
  <2>1. T # {} /\ Orders(R, T)
    BY <1>0, <2>0, FS_EmptySet DEF Orders
  <2>2. PICK m \in T : \A y \in T : <<y, m>> \in R
    BY <1>0, <2>1, HasLast
  <2> DEFINE U == T \ {m}
  <2>3. Cardinality(U) = n /\ U \in SUBSET S
    <3>1. IsFiniteSet(T) /\ m \in T
      BY <1>0, <2>2
    <3>2. Cardinality(T \ {m}) = Cardinality(T) - 1
      BY <3>1, FS_RemoveElement
    <3> HIDE DEF P
    <3> QED
      BY <2>0, <3>2
  <2>4. PICK s \in [1..n -> U] :
               /\ \A i, k \in 1..n : i < k => s[i] # s[k] /\ <<s[i], s[k]>> \in R
               /\ \A a \in U : \E i \in 1..n : s[i] = a
    BY <2>3
  <2> DEFINE t == [i \in 1..n + 1 |-> IF i = n + 1 THEN m ELSE s[i]]
  <2>5. \A i \in 1..n + 1 : i = n + 1 \/ i \in 1..n
    BY <2>0
  <2>6. t \in [1..n + 1 -> T] /\ t[n + 1] = m /\ \A i \in 1..n : t[i] = s[i] /\ s[i] \in U
    BY <2>0, <2>5
  <2> HIDE DEF t
  <2>7. ASSUME NEW i \in 1..n + 1, NEW k \in 1..n + 1, i < k
        PROVE  t[i] # t[k] /\ <<t[i], t[k]>> \in R
    <3>1. i \in 1..n
      BY <2>0, <2>7
    <3>2. CASE k = n + 1
      BY <2>2, <2>6, <3>1, <3>2
    <3>3. CASE k \in 1..n
      BY <2>4, <2>6, <2>7, <3>1, <3>3
    <3> QED
      BY <2>5, <3>2, <3>3
  <2>8. ASSUME NEW a \in T PROVE \E i \in 1..n + 1 : t[i] = a
    <3>1. CASE a = m
      BY <2>0, <2>6, <3>1
    <3>2. CASE a # m
      <4>1. PICK i \in 1..n : s[i] = a
        BY <2>4, <3>2
      <4>2. i \in 1..n + 1
        BY <2>0
      <4> QED
        BY <2>6, <4>1, <4>2
    <3> QED
      BY <3>1, <3>2
  <2> QED
    BY <2>6, <2>7, <2>8
<1>3. P = Nat
  <2>1. P \in SUBSET Nat
    OBVIOUS
  <2> HIDE DEF P
  <2> QED
    BY <1>1, <1>2, <2>1, Inductive
<1> QED
  BY <1>0, <1>3

-----------------------------------------------------------------------------
(***************************************************************************)
(* Folds of sequences by a step that is a function.                        *)
(***************************************************************************)
(* r is what the steps of op make of b and s. *)
IsFold(r, op, b, s) ==
  \E f : /\ f[0] = b /\ f[Len(s)] = r
         /\ \A k \in 1..Len(s) : f[k] = op[<<f[k - 1], s[k]>>]

LEMMA FoldIn ==
  ASSUME NEW S, NEW T, NEW b \in T, NEW op \in [T \X S -> T], NEW s \in Seq(S), NEW r,
         IsFold(r, op, b, s)
  PROVE  r \in T
<1>1. PICK f : /\ f[0] = b /\ f[Len(s)] = r
               /\ \A k \in 1..Len(s) : f[k] = op[<<f[k - 1], s[k]>>]
  BY DEF IsFold
<1> DEFINE P == {k \in Nat : k <= Len(s) => f[k] \in T}
<1>2. 0 \in P
  BY <1>1
<1>3. ASSUME NEW k \in P PROVE k + 1 \in P
  <2> SUFFICES ASSUME k + 1 <= Len(s) PROVE f[k + 1] \in T
    OBVIOUS
  <2>1. k + 1 \in 1..Len(s) /\ (k + 1) - 1 = k /\ f[k] \in T /\ s[k + 1] \in S
    OBVIOUS
  <2>2. f[k + 1] = op[<<f[k], s[k + 1]>>] /\ <<f[k], s[k + 1]>> \in T \X S
    BY <1>1, <2>1
  <2> QED
    BY <2>2
<1> HIDE DEF P
<1>4. P = Nat
  <2>1. P \in SUBSET Nat
    BY DEF P
  <2> QED
    BY <1>2, <1>3, <2>1, Inductive
<1>5. Len(s) \in Nat /\ Len(s) \in P
  BY <1>4
<1> QED
  BY <1>1, <1>5 DEF P

LEMMA FoldOfNone ==
  ASSUME NEW op, NEW b, NEW r, IsFold(r, op, b, << >>)
  PROVE  r = b
BY DEF IsFold

(* One more element is one more step. *)
LEMMA FoldOfMore ==
  ASSUME NEW S, NEW op, NEW b, NEW s \in Seq(S), NEW x \in S, NEW r, NEW r2,
         IsFold(r, op, b, s), IsFold(r2, op, b, Append(s, x))
  PROVE  r2 = op[<<r, x>>]
<1> DEFINE n == Len(s)
           a == Append(s, x)
<1>1. PICK f : /\ f[0] = b /\ f[n] = r
               /\ \A k \in 1..n : f[k] = op[<<f[k - 1], s[k]>>]
  BY DEF IsFold
<1>2. PICK g : /\ g[0] = b /\ g[Len(a)] = r2
               /\ \A k \in 1..Len(a) : g[k] = op[<<g[k - 1], a[k]>>]
  BY DEF IsFold
<1>3. n \in Nat /\ Len(a) = n + 1 /\ a[n + 1] = x /\ \A k \in 1..n : a[k] = s[k]
  OBVIOUS
<1> DEFINE P == {k \in Nat : k <= n => f[k] = g[k]}
<1> HIDE DEF n, a
<1>4. 0 \in P
  BY <1>1, <1>2
<1>5. ASSUME NEW k \in P PROVE k + 1 \in P
  <2> SUFFICES ASSUME k + 1 <= n PROVE f[k + 1] = g[k + 1]
    OBVIOUS
  <2>1. k + 1 \in 1..n /\ k + 1 \in 1..n + 1 /\ (k + 1) - 1 = k /\ f[k] = g[k]
    BY <1>3
  <2>2. f[k + 1] = op[<<f[k], s[k + 1]>>] /\ g[k + 1] = op[<<g[k], a[k + 1]>>]
    BY <1>1, <1>2, <1>3, <2>1
  <2> QED
    BY <1>3, <2>1, <2>2
<1> HIDE DEF P
<1>6. P = Nat
  <2>1. P \in SUBSET Nat
    BY DEF P
  <2> QED
    BY <1>4, <1>5, <2>1, Inductive
<1>7. f[n] = g[n]
  BY <1>3, <1>6 DEF P
<1>8. n + 1 \in 1..Len(a) /\ (n + 1) - 1 = n
  BY <1>3
<1>9. g[n + 1] = op[<<g[n], x>>]
  BY <1>2, <1>3, <1>8
<1> QED
  BY <1>1, <1>2, <1>3, <1>7, <1>9

(* The function of the sets of places that FoldLeft chooses exists. *)
Runs(g, op, b, s, T) ==
  /\ g = [t \in SUBSET (DOMAIN s) |-> g[t]]
  /\ g[{}] = b
  /\ \A t \in SUBSET (DOMAIN s) :
       /\ g[t] \in T
       /\ t # {} => /\ g[t \ {Max(t)}] \in T /\ Max(t) \in DOMAIN s
                    /\ g[t] = op[<<g[t \ {Max(t)}], s[Max(t)]>>]

LEMMA FoldRuns ==
  ASSUME NEW S, NEW T, NEW b \in T, NEW op \in [T \X S -> T], NEW s \in Seq(S)
  PROVE  \E g : Runs(g, op, b, s, T)
<1> DEFINE n == Len(s)
           step == [p \in T \X (1..n) |-> op[<<p[1], s[p[2]]>>]]
<1>1. n \in Nat /\ DOMAIN s = 1..n /\ \A k \in 1..n : s[k] \in S
  OBVIOUS
<1>2. \A t \in T, k \in 1..n : step[<<t, k>>] = op[<<t, s[k]>>] /\ step[<<t, k>>] \in T
  <2>1. \A t \in T, k \in 1..n : <<t, s[k]>> \in T \X S
    BY <1>1
  <2> HIDE DEF n
  <2>2. \A t \in T, k \in 1..n : step[<<t, k>>] = op[<<t, s[k]>>]
    OBVIOUS
  <2> HIDE DEF step
  <2>3. \A p \in T \X S : op[p] \in T
    OBVIOUS
  <2> QED
    BY <2>1, <2>2, <2>3
<1>3. step \in [T \X (1..n) -> T]
  <2>1. /\ step = [p \in T \X (1..n) |-> step[p]]
        /\ \A p \in T \X (1..n) : p = <<p[1], p[2]>> /\ p[1] \in T /\ p[2] \in 1..n
    <3> HIDE DEF n
    <3> QED
      OBVIOUS
  <2> HIDE DEF step, n
  <2>2. \A p \in T \X (1..n) : step[p] \in T
    BY <1>2, <2>1
  <2> QED
    BY <2>1, <2>2
<1> HIDE DEF n, step
<1> DEFINE Steps(g, c, st) ==
             /\ g = [t \in SUBSET (1..n) |-> g[t]]
             /\ g[{}] = c
             /\ \A t \in SUBSET (1..n) :
                  /\ t # {} => g[t] = st[<<g[t \ {Max(t)}], Max(t)>>]
                  /\ g[t] \in T
<1>4. PICK g : Steps(g, b, step)
  <2>1. \A c \in T, st \in [T \X (1..n) -> T] : \E g : Steps(g, c, st)
    BY <1>1, FoldExists
  <2> HIDE DEF Steps
  <2> QED
    BY <1>3, <2>1
<1>5. ASSUME NEW t \in SUBSET (1..n), t # {}
      PROVE  /\ g[t \ {Max(t)}] \in T /\ Max(t) \in 1..n
             /\ g[t] = op[<<g[t \ {Max(t)}], s[Max(t)]>>]
  <2>1. Max(t) \in 1..n
    BY <1>1, <1>5, MaxIn
  <2>2. g[t \ {Max(t)}] \in T
    BY <1>4
  <2> QED
    BY <1>2, <1>4, <1>5, <2>1, <2>2
<1> QED
  BY <1>1, <1>4, <1>5 DEF Runs

(* Of a function of the sets of places, its value at all of them is the fold. *)
Follows(F, op, b, s, T) ==
  /\ F[{}] = b
  /\ \A t \in SUBSET (DOMAIN s) : t # {} /\ F[t \ {Max(t)}] \in T =>
       F[t] = op[<<F[t \ {Max(t)}], s[Max(t)]>>]

LEMMA FoldFrom ==
  ASSUME NEW S, NEW T, NEW b \in T, NEW op \in [T \X S -> T], NEW s \in Seq(S), NEW F,
         Follows(F, op, b, s, T)
  PROVE  IsFold(F[DOMAIN s], op, b, s)
<1> DEFINE n == Len(s)
           f == [k \in 0..n |-> F[1..k]]
           P == {k \in Nat : k <= n => f[k] \in T}
<1>1. n \in Nat /\ DOMAIN s = 1..n /\ \A k \in 1..n : s[k] \in S
  OBVIOUS
<1> HIDE DEF n
<1>2. f[0] = b /\ f[n] = F[DOMAIN s]
  <2>1. 1..0 = {} /\ 0 \in 0..n /\ n \in 0..n
    BY <1>1
  <2> QED
    BY <1>1, <2>1 DEF Follows
<1>3. ASSUME NEW k \in 1..n, f[k - 1] \in T PROVE f[k] = op[<<f[k - 1], s[k]>>]
  <2>1. k \in Nat /\ k # 0 /\ 1..k \in SUBSET (1..n) /\ k \in 0..n /\ k - 1 \in 0..n
    BY <1>1
  <2>2. 1..k # {} /\ Max(1..k) = k /\ (1..k) \ {Max(1..k)} = 1..(k - 1)
    BY <2>1, MaxUpTo
  <2>3. f[k] = F[1..k] /\ f[k - 1] = F[1..(k - 1)]
    BY <2>1
  <2>4. F[(1..k) \ {Max(1..k)}] \in T
    BY <1>3, <2>2, <2>3
  <2>5. F[1..k] = op[<<F[(1..k) \ {Max(1..k)}], s[Max(1..k)]>>]
    BY <1>1, <2>1, <2>2, <2>4 DEF Follows
  <2> QED
    BY <2>2, <2>3, <2>5
<1> HIDE DEF f
<1>4. 0 \in P
  BY <1>2
<1>5. ASSUME NEW k \in P PROVE k + 1 \in P
  <2> SUFFICES ASSUME k + 1 <= n PROVE f[k + 1] \in T
    OBVIOUS
  <2>1. k + 1 \in 1..n /\ (k + 1) - 1 = k /\ f[k] \in T
    BY <1>1
  <2>2. f[k + 1] = op[<<f[k], s[k + 1]>>] /\ s[k + 1] \in S
    BY <1>1, <1>3, <2>1
  <2>3. <<f[k], s[k + 1]>> \in T \X S
    BY <2>1, <2>2
  <2> QED
    BY <2>2, <2>3
<1> HIDE DEF P
<1>6. P = Nat
  <2>1. P \in SUBSET Nat
    BY DEF P
  <2> QED
    BY <1>4, <1>5, <2>1, Inductive
<1>7. \A k \in 1..n : f[k] = op[<<f[k - 1], s[k]>>]
  <2> SUFFICES ASSUME NEW k \in 1..n PROVE f[k] = op[<<f[k - 1], s[k]>>]
    OBVIOUS
  <2>1. k - 1 \in Nat /\ k - 1 <= n
    BY <1>1
  <2>2. f[k - 1] \in T
    BY <1>6, <2>1 DEF P
  <2> QED
    BY <1>3, <2>2
<1> QED
  BY <1>2, <1>7 DEF IsFold, n

LEMMA OneMore ==
  ASSUME NEW S, NEW s \in Seq(S), NEW x \in S
  PROVE  /\ Append(s, x) \in Seq(S) /\ Len(Append(s, x)) = Len(s) + 1
         /\ Append(s, x)[Len(s) + 1] = x
         /\ \A i \in 1..Len(s) : Append(s, x)[i] = s[i]
  OBVIOUS

LEMMA FirstOnes ==
  ASSUME NEW S, NEW s \in Seq(S), NEW n \in 0..Len(s)
  PROVE  /\ SubSeq(s, 1, n) \in Seq(S) /\ Len(SubSeq(s, 1, n)) = n
         /\ \A i \in 1..n : SubSeq(s, 1, n)[i] = s[i]
  OBVIOUS

(* What holds of no element, and of one more, holds of every sequence. *)
LEMMA EverySequence ==
  ASSUME NEW S, NEW P \in SUBSET Seq(S), << >> \in P,
         \A s \in P, x \in S : Append(s, x) \in P
  PROVE  P = Seq(S)
<1> DEFINE Q == {n \in Nat : \A s \in Seq(S) : Len(s) = n => s \in P}
<1>1. 0 \in Q
  <2>1. \A s \in Seq(S) : Len(s) = 0 => s = << >>
    OBVIOUS
  <2> QED
    BY <2>1
<1>2. ASSUME NEW n \in Q PROVE n + 1 \in Q
  <2> SUFFICES ASSUME NEW s \in Seq(S), Len(s) = n + 1 PROVE s \in P
    OBVIOUS
  <2> DEFINE t == SubSeq(s, 1, n)
  <2>1. n \in Nat /\ n + 1 \in 1..Len(s)
    OBVIOUS
  <2>2. /\ t \in Seq(S) /\ Len(t) = n /\ s[n + 1] \in S
        /\ \A i \in 1..n : t[i] = s[i]
    <3>1. n \in 0..Len(s)
      BY <2>1
    <3>2. s[n + 1] \in S
      BY <2>1
    <3> QED
      BY <3>1, <3>2, FirstOnes
  <2>3. s = Append(t, s[n + 1])
    <3> DEFINE a == Append(t, s[n + 1])
    <3>1. a \in Seq(S) /\ Len(a) = n + 1 /\ a[n + 1] = s[n + 1] /\ \A i \in 1..n : a[i] = t[i]
      <4>1. \A u \in Seq(S), e \in S :
              /\ Append(u, e) \in Seq(S) /\ Len(Append(u, e)) = Len(u) + 1
              /\ Append(u, e)[Len(u) + 1] = e
              /\ \A i \in 1..Len(u) : Append(u, e)[i] = u[i]
        BY OneMore
      <4> HIDE DEF t
      <4> QED
        BY <2>2, <4>1
    <3>2. \A i \in 1..n : t[i] = s[i]
      BY <2>2
    <3>3. \A i \in 1..n + 1 : i = n + 1 \/ i \in 1..n
      BY <2>1
    <3> HIDE DEF a, t
    <3>4. \A i \in 1..n + 1 : a[i] = s[i]
      BY <3>1, <3>2, <3>3
    <3>5. a = s
      BY <3>1, <3>4
    <3> QED
      BY <3>5 DEF a
  <2>4. t \in P
    BY <2>2
  <2> HIDE DEF t
  <2> QED
    BY <2>2, <2>3, <2>4
<1> HIDE DEF Q
<1>3. Q = Nat
  <2>1. Q \in SUBSET Nat
    BY DEF Q
  <2> QED
    BY <1>1, <1>2, <2>1, Inductive
<1>4. \A s \in Seq(S) : Len(s) \in Nat
  OBVIOUS
<1> QED
  BY <1>3, <1>4 DEF Q
=============================================================================
