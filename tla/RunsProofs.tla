----------------------------- MODULE RunsProofs -----------------------------
(***************************************************************************)
(* RunOver takes the steps it is meant to, for sequences of every length.  *)
(* Induction over the length is by the least counterexample: that there is *)
(* one follows from the strict subset ordering of finite sets being        *)
(* well-founded, applied to the intervals that begin at zero.              *)
(***************************************************************************)
EXTENDS Runs, FiniteSetTheorems, WellFoundedInduction, TLAPS

LEMMA LeastNumber ==
    ASSUME NEW T, T \subseteq Nat, T # {}
    PROVE  \E n \in T : \A m \in T : n <= m
<1> DEFINE R == StrictSubsetOrdering(Nat)
           U == {0 .. (n - 1) : n \in T}
<1>1. IsWellFoundedOn(R, FiniteSubsetsOf(Nat))
  BY FS_StrictSubsetOrderingWellFounded
<1>2. \A n \in T : (0 .. (n - 1)) \in FiniteSubsetsOf(Nat)
  BY FS_Interval DEF FiniteSubsetsOf
<1>3. U \subseteq FiniteSubsetsOf(Nat) /\ U # {}
  BY <1>2
<1> HIDE DEF R
<1>4. PICK u \in U : \A x \in U : <<x, u>> \notin R
  BY <1>1, <1>3, WFMin
<1>5. PICK n \in T : u = 0 .. (n - 1)
  OBVIOUS
<1>6. \A m \in T : n <= m
  <2> SUFFICES ASSUME NEW m \in T, m < n PROVE FALSE
    OBVIOUS
  <2>1. 0 .. (m - 1) \subseteq 0 .. (n - 1) /\ 0 .. (m - 1) # 0 .. (n - 1)
    <3>1. m \in 0 .. (n - 1) /\ m \notin 0 .. (m - 1)
      OBVIOUS
    <3> QED
      BY <3>1
  <2>2. 0 .. (m - 1) \in SUBSET Nat /\ 0 .. (n - 1) \in SUBSET Nat
    OBVIOUS
  <2>3. <<0 .. (m - 1), 0 .. (n - 1)>> \in R
    BY <2>1, <2>2 DEF R, StrictSubsetOrdering
  <2> QED
    BY <2>3, <1>4, <1>5
<1> QED
  BY <1>6
-----------------------------------------------------------------------------
\* From values in A and elements of B to values in A.
IsStep(step, A, B) == step \in [A -> [B -> A]]

\* f records the value after each of the steps.
Records(f, step, first, s) ==
    f = [i \in 0 .. Len(s) |-> IF i = 0 THEN first ELSE step[f[i - 1]][s[i]]]

\* What it says of each value.
LEMMA RecordDomain ==
    ASSUME NEW step, NEW first, NEW s, NEW f, Records(f, step, first, s)
    PROVE  f = [i \in 0 .. Len(s) |-> f[i]]
<1> DEFINE E(i) == IF i = 0 THEN first ELSE step[f[i - 1]][s[i]]
<1>1. f = [i \in 0 .. Len(s) |-> E(i)]
  BY DEF Records
<1> HIDE DEF E
<1> QED
  BY <1>1

LEMMA RecordValue ==
    ASSUME NEW step, NEW first, NEW s, NEW f, Records(f, step, first, s), NEW i \in 0 .. Len(s)
    PROVE  f[i] = IF i = 0 THEN first ELSE step[f[i - 1]][s[i]]
<1> DEFINE E(j) == IF j = 0 THEN first ELSE step[f[j - 1]][s[j]]
<1>1. f = [j \in 0 .. Len(s) |-> E(j)]
  BY DEF Records
<1>2. f[i] = E(i)
  <2> HIDE DEF E
  <2> QED
    BY <1>1
<1> QED
  BY <1>2

\* A record of the steps over s, one step longer.
LEMMA RecordExtends ==
    ASSUME NEW A, NEW B, NEW step, IsStep(step, A, B), NEW first \in A,
           NEW s \in Seq(B), NEW e \in B, NEW f, Records(f, step, first, s)
    PROVE  Records([i \in 0 .. Len(s) + 1 |-> IF i <= Len(s) THEN f[i] ELSE step[f[Len(s)]][e]],
                   step, first, Append(s, e))
<1> DEFINE n == Len(s)
           g == [i \in 0 .. n + 1 |-> IF i <= n THEN f[i] ELSE step[f[n]][e]]
           t == Append(s, e)
<1>1. n \in Nat /\ Len(t) = n + 1 /\ t[n + 1] = e /\ \A i \in 1 .. n : t[i] = s[i]
  OBVIOUS
<1>2. f[0] = first /\ \A i \in 1 .. n : f[i] = step[f[i - 1]][s[i]]
  BY <1>1, RecordValue
<1> HIDE DEF t
<1>3. ASSUME NEW i \in 0 .. n + 1
      PROVE  g[i] = IF i = 0 THEN first ELSE step[g[i - 1]][t[i]]
  BY <1>1, <1>2
<1>4. g = [i \in 0 .. n + 1 |-> IF i = 0 THEN first ELSE step[g[i - 1]][t[i]]]
  BY <1>3
<1> QED
  BY <1>1, <1>4 DEF Records, t

\* A sequence that is not empty, without its last element.
LEMMA Shortened ==
    ASSUME NEW B, NEW s \in Seq(B), Len(s) > 0
    PROVE  \E r \in Seq(B) : \E e \in B : Len(r) = Len(s) - 1 /\ s = Append(r, e)
<1> DEFINE n == Len(s) - 1
           r == [i \in 1 .. n |-> s[i]]
<1>1. n \in Nat /\ Len(s) = n + 1 /\ \A i \in 1 .. n + 1 : s[i] \in B
  OBVIOUS
<1> HIDE DEF n
<1>2. r \in Seq(B) /\ Len(r) = n /\ \A i \in 1 .. n : r[i] = s[i]
  BY <1>1
<1> HIDE DEF r
<1>3. Append(r, s[n + 1]) = s
  BY <1>1, <1>2
<1> QED
  BY <1>1, <1>2, <1>3

LEMMA RecordExists ==
    ASSUME NEW A, NEW B, NEW step, IsStep(step, A, B), NEW first \in A, NEW s \in Seq(B)
    PROVE  \E f : Records(f, step, first, s)
<1> DEFINE Missing == {n \in Nat : \E r \in Seq(B) : Len(r) = n /\ \A f : ~Records(f, step, first, r)}
<1>1. SUFFICES Missing = {}
  BY <1>1
<1>2. SUFFICES ASSUME Missing # {} PROVE FALSE
  OBVIOUS
<1>3. PICK n \in Missing : \A m \in Missing : n <= m
  BY <1>2, LeastNumber
<1>4. PICK r \in Seq(B) : Len(r) = n /\ \A f : ~Records(f, step, first, r)
  BY <1>3
<1>5. CASE n = 0
  <2> DEFINE f == [i \in 0 .. 0 |-> first]
  <2>1. f = [i \in 0 .. 0 |-> IF i = 0 THEN first ELSE step[f[i - 1]][r[i]]]
    OBVIOUS
  <2>2. Records(f, step, first, r)
    BY <1>4, <1>5, <2>1 DEF Records
  <2> QED
    BY <1>4, <2>2
<1>6. CASE n > 0
  <2>1. PICK q \in Seq(B) : \E e \in B : Len(q) = n - 1 /\ r = Append(q, e)
    BY <1>4, <1>6, Shortened
  <2>2. n - 1 \in Nat /\ n - 1 \notin Missing
    BY <1>3, <1>6
  <2>3. PICK f : Records(f, step, first, q)
    BY <2>1, <2>2
  <2>4. \A e \in B : \E g : Records(g, step, first, Append(q, e))
    BY <2>3, RecordExtends
  <2> QED
    BY <1>4, <2>1, <2>4
<1> QED
  BY <1>5, <1>6

LEMMA RecordUnique ==
    ASSUME NEW step, NEW first, NEW s, Len(s) \in Nat,
           NEW f, Records(f, step, first, s), NEW g, Records(g, step, first, s)
    PROVE  f = g
<1> DEFINE Differ == {n \in 0 .. Len(s) : f[n] # g[n]}
<1>1. /\ \A i \in 0 .. Len(s) : f[i] = IF i = 0 THEN first ELSE step[f[i - 1]][s[i]]
      /\ \A i \in 0 .. Len(s) : g[i] = IF i = 0 THEN first ELSE step[g[i - 1]][s[i]]
  BY RecordValue
<1>2. ASSUME Differ # {} PROVE FALSE
  <2>1. Differ \subseteq Nat
    OBVIOUS
  <2> HIDE DEF Differ
  <2>2. PICK n \in Differ : \A m \in Differ : n <= m
    BY <1>2, <2>1, LeastNumber
  <2> USE DEF Differ
  <2>3. n \in 0 .. Len(s) /\ f[n] # g[n] /\ n # 0
    BY <1>1
  <2>4. n - 1 \in 0 .. Len(s) /\ n - 1 \notin Differ
    <3> HIDE DEF Differ
    <3> QED
      BY <2>2, <2>3, <2>1
  <2>5. f[n - 1] = g[n - 1]
    BY <2>4
  <2> QED
    BY <1>1, <2>3, <2>5
<1>3. f = [i \in 0 .. Len(s) |-> f[i]] /\ g = [i \in 0 .. Len(s) |-> g[i]]
  BY RecordDomain
<1> QED
  BY <1>2, <1>3
-----------------------------------------------------------------------------
LEMMA RunIsRecorded ==
    ASSUME NEW A, NEW B, NEW step, IsStep(step, A, B), NEW first \in A, NEW s \in Seq(B),
           NEW f, Records(f, step, first, s)
    PROVE  RunOver(step, first, s) = f[Len(s)]
<1> DEFINE run == CHOOSE g : Records(g, step, first, s)
<1>1. Records(run, step, first, s)
  OBVIOUS
<1>2. run = f
  BY <1>1, RecordUnique
<1> QED
  BY <1>2 DEF RunOver, Records

LEMMA RunOverNothing ==
    ASSUME NEW A, NEW B, NEW step, IsStep(step, A, B), NEW first \in A
    PROVE  RunOver(step, first, <<>>) = first
<1> DEFINE s == <<>>
<1>1. s \in Seq(B)
  OBVIOUS
<1>2. Len(s) = 0
  OBVIOUS
<1> HIDE DEF s
<1>3. PICK f : Records(f, step, first, s)
  BY <1>1, RecordExists
<1>4. f[0] = first
  BY <1>2, <1>3, RecordValue
<1>5. RunOver(step, first, s) = f[Len(s)]
  BY <1>1, <1>3, RunIsRecorded
<1> QED
  BY <1>2, <1>4, <1>5 DEF s

\* One element more is one step more.
LEMMA RunOverOneMore ==
    ASSUME NEW A, NEW B, NEW step, IsStep(step, A, B), NEW first \in A, NEW s \in Seq(B), NEW e \in B
    PROVE  RunOver(step, first, Append(s, e)) = step[RunOver(step, first, s)][e]
<1>1. PICK f : Records(f, step, first, s)
  BY RecordExists
<1> DEFINE g == [i \in 0 .. Len(s) + 1 |-> IF i <= Len(s) THEN f[i] ELSE step[f[Len(s)]][e]]
           t == Append(s, e)
<1>2. Records(g, step, first, t)
  BY <1>1, RecordExtends
<1>3. t \in Seq(B) /\ Len(t) = Len(s) + 1 /\ Len(s) \in Nat
  OBVIOUS
<1>4. g[Len(s) + 1] = step[f[Len(s)]][e]
  BY <1>3
<1> HIDE DEF g, t
<1>5. RunOver(step, first, t) = g[Len(s) + 1]
  BY <1>2, <1>3, RunIsRecorded
<1>6. RunOver(step, first, s) = f[Len(s)]
  BY <1>1, RunIsRecorded
<1> QED
  BY <1>4, <1>5, <1>6 DEF t

LEMMA RunOverType ==
    ASSUME NEW A, NEW B, NEW step, IsStep(step, A, B), NEW first \in A, NEW s \in Seq(B)
    PROVE  RunOver(step, first, s) \in A
<1> DEFINE Untyped == {n \in Nat : \E r \in Seq(B) : Len(r) = n /\ RunOver(step, first, r) \notin A}
<1>1. SUFFICES ASSUME Untyped # {} PROVE FALSE
  OBVIOUS
<1>2. PICK n \in Untyped : \A m \in Untyped : n <= m
  BY <1>1, LeastNumber
<1>3. PICK r \in Seq(B) : Len(r) = n /\ RunOver(step, first, r) \notin A
  BY <1>2
<1>4. CASE n = 0
  <2>1. r = <<>>
    BY <1>3, <1>4
  <2> QED
    BY <1>3, <2>1, RunOverNothing
<1>5. CASE n > 0
  <2>0. Len(r) > 0 /\ Len(r) = n
    BY <1>3, <1>5
  <2>1. PICK q \in Seq(B) : \E e \in B : Len(q) = Len(r) - 1 /\ r = Append(q, e)
    BY <2>0, Shortened
  <2>2. n - 1 \in Nat /\ n - 1 \notin Untyped
    BY <1>2, <1>5
  <2>3. RunOver(step, first, q) \in A
    BY <2>0, <2>1, <2>2
  <2>4. \A e \in B : RunOver(step, first, Append(q, e)) = step[RunOver(step, first, q)][e]
    BY RunOverOneMore
  <2> QED
    BY <1>3, <2>1, <2>3, <2>4 DEF IsStep
<1> QED
  BY <1>4, <1>5
=============================================================================
