--------------------------- MODULE SummaryProofs ----------------------------
(***************************************************************************)
(* Theorems about Summary: what its runs check on small inputs, for every  *)
(* input.                                                                  *)
(*                                                                         *)
(* A behaviour has one step, so the inductive invariant, Explained, only   *)
(* says that the answer is that of a request.  The work is in the folds.   *)
(* tlapm has no induction over sequences for a formula, so the induction   *)
(* is over a set: Induction shows that a set with 0 and the successors of  *)
(* its members has all naturals (the least number that it lacks would not  *)
(* be the least), and SeqInduction the same for sequences.  Every fold of  *)
(* Summary is a Run of a step, and has a lemma ...Steps that says what one *)
(* element more does to it.  From there on up: the groups and records of   *)
(* a match, the means of a team, and the answers of the two handlers.      *)
(*                                                                         *)
(* UnscoutedDoNotCount and RowOrderFree hold of all inputs.  The others    *)
(* rest on what nothing in the code enforces (Once, IsSchema, IsSchedule   *)
(* in Summary), and EventsAreMeans on exact averages; MCSummary has TLC    *)
(* evaluate that the inputs of the run meet all of it.                     *)
(***************************************************************************)
EXTENDS Summary, TLAPS, WellFoundedInduction, FiniteSetTheorems

-----------------------------------------------------------------------------
(* Induction, and folds as runs.                                           *)


\* Induction over the naturals, for the members of a set.
LEMMA Induction ==
    ASSUME NEW S, 0 \in S, \A n \in Nat : n \in S => n + 1 \in S
    PROVE  Nat \subseteq S
<1> DEFINE less == {ss \in Nat \X Nat : ss[1] < ss[2]}
           T == {n \in Nat : n \notin S}
<1> SUFFICES ASSUME T # {} PROVE FALSE
  OBVIOUS
<1>1. IsWellFoundedOn(less, Nat)
  BY NatLessThanWellFounded DEF OpToRel
<1>2. PICK n \in T : \A m \in T : <<m, n>> \notin less
  <2> T \subseteq Nat
    OBVIOUS
  <2> HIDE DEF less, T
  <2> QED
    BY <1>1, WFMin
<1>3. n \in Nat /\ n \notin S
  OBVIOUS
<1>4. n - 1 \in Nat /\ (n - 1) + 1 = n
  BY <1>3
<1>5. n - 1 \notin S
  BY <1>3, <1>4
<1>6. <<n - 1, n>> \in less
  BY <1>3, <1>4
<1> QED
  BY <1>2, <1>4, <1>5, <1>6

\* Every sequence is empty, or ends with an element.
LEMMA EmptyOrAppend ==
    ASSUME NEW V, NEW s \in Seq(V), s # <<>>
    PROVE  \E t \in Seq(V), x \in V : s = Append(t, x)
<1>1. Len(s) > 0 /\ s[Len(s)] \in V
  OBVIOUS
<1>2. /\ SubSeq(s, 1, Len(s) - 1) \in Seq(V)
      /\ s = Append(SubSeq(s, 1, Len(s) - 1), s[Len(s)])
  BY <1>1
<1> QED
  BY <1>1, <1>2

\* Induction over sequences.
LEMMA SeqInduction ==
    ASSUME NEW V, NEW S, <<>> \in S,
           \A s \in Seq(V), x \in V : s \in S => Append(s, x) \in S
    PROVE  Seq(V) \subseteq S
<1> DEFINE N == {n \in Nat : \A s \in Seq(V) : Len(s) = n => s \in S}
<1>1. 0 \in N
  OBVIOUS
<1>2. ASSUME NEW n \in Nat, n \in N PROVE n + 1 \in N
  <2> SUFFICES ASSUME NEW s \in Seq(V), Len(s) = n + 1 PROVE s \in S
    OBVIOUS
  <2>1. PICK t \in Seq(V), x \in V : s = Append(t, x)
    BY EmptyOrAppend
  <2>2. Len(t) = n
    BY <2>1
  <2> QED
    BY <1>2, <2>1, <2>2
<1>3. Nat \subseteq N
  <2> HIDE DEF N
  <2> QED
    BY <1>1, <1>2, Induction
<1> QED
  BY <1>3

\* The largest of the first numbers.
LEMMA MaxIs ==
    ASSUME NEW n \in Nat \ {0}
    PROVE  /\ \A t \in SUBSET (1 .. n) : n \in t => Max(t) = n
           /\ Max(1 .. n) = n
           /\ (1 .. n) \ {n} = 1 .. n - 1
<1>1. ASSUME NEW t \in SUBSET (1 .. n), n \in t PROVE Max(t) = n
  <2>1. \A y \in t : n >= y
    OBVIOUS
  <2>2. ASSUME NEW x \in t, \A y \in t : x >= y PROVE x = n
    BY <1>1, <2>2
  <2> QED
    BY <1>1, <2>1, <2>2 DEF Max
<1>2. n \in 1 .. n
  OBVIOUS
<1> QED
  BY <1>1, <1>2

\* A fold over indices: a function that is defined from the largest one down.
IsIndexFold(f, step, base, n) ==
  \A t \in SUBSET (1 .. n) :
    f[t] = IF t = {} THEN base ELSE step[<<f[t \ {Max(t)}], Max(t)>>]

\* What the set fold defines for a prefix of 1 .. N: its steps have a fold.
LEMMA FoldExists ==
    ASSUME NEW N \in Nat, NEW V, NEW base \in V, NEW step \in [V \X (1 .. N) -> V]
    PROVE  \E f \in [SUBSET (1 .. N) -> V] : IsIndexFold(f, step, base, N)
<1> DEFINE IsFold(f, n) == IsIndexFold(f, step, base, n)
           Has(n) == \E f \in [SUBSET (1 .. n) -> V] : IsFold(f, n)
           S == {n \in Nat : n <= N => Has(n)}
<1>1. 0 \in S
  <2>1. SUBSET (1 .. 0) = {{}}
    OBVIOUS
  <2>2. [t \in SUBSET (1 .. 0) |-> base] \in [SUBSET (1 .. 0) -> V]
    OBVIOUS
  <2>3. IsFold([t \in SUBSET (1 .. 0) |-> base], 0)
    BY <2>1 DEF IsIndexFold
  <2> QED
    BY <2>2, <2>3
<1>2. ASSUME NEW n \in Nat, n \in S PROVE n + 1 \in S
  <2> SUFFICES ASSUME n + 1 <= N PROVE Has(n + 1)
    <3> HIDE DEF Has
    <3> QED
      OBVIOUS
  <2>0. Has(n)
    <3> HIDE DEF Has
    <3> QED
      BY <1>2
  <2>1. PICK f \in [SUBSET (1 .. n) -> V] : IsFold(f, n)
    BY <2>0
  <2> DEFINE g == [t \in SUBSET (1 .. n + 1) |->
                     IF n + 1 \in t THEN step[<<f[t \ {n + 1}], n + 1>>] ELSE f[t]]
  <2>2. ASSUME NEW t \in SUBSET (1 .. n + 1), n + 1 \in t
        PROVE  /\ t \ {n + 1} \in SUBSET (1 .. n) /\ n + 1 \notin t \ {n + 1}
               /\ Max(t) = n + 1 /\ t # {}
    BY <2>2, MaxIs
  <2>3. ASSUME NEW t \in SUBSET (1 .. n + 1), n + 1 \notin t
        PROVE  t \in SUBSET (1 .. n)
    BY <2>3
  <2>4. \A t \in SUBSET (1 .. n) : t \in SUBSET (1 .. n + 1) /\ n + 1 \notin t
    OBVIOUS
  <2>5. g \in [SUBSET (1 .. n + 1) -> V]
    <3> SUFFICES ASSUME NEW t \in SUBSET (1 .. n + 1) PROVE g[t] \in V
      OBVIOUS
    <3>1. CASE n + 1 \in t
      <4>1. f[t \ {n + 1}] \in V /\ n + 1 \in 1 .. N
        BY <2>2, <3>1
      <4> QED
        BY <3>1, <4>1
    <3>2. CASE n + 1 \notin t
      BY <2>3, <3>2
    <3> QED
      BY <3>1, <3>2
  <2>6. ASSUME NEW t \in SUBSET (1 .. n) PROVE g[t] = f[t]
    BY <2>4
  <2>7. ASSUME NEW t \in SUBSET (1 .. n + 1), n + 1 \in t
        PROVE  g[t] = step[<<g[t \ {Max(t)}], Max(t)>>]
    BY <2>2, <2>6, <2>7
  <2>8. ASSUME NEW t \in SUBSET (1 .. n + 1), n + 1 \notin t, t # {}
        PROVE  g[t] = step[<<g[t \ {Max(t)}], Max(t)>>]
    <3>1. g[t] = f[t] /\ g[t \ {Max(t)}] = f[t \ {Max(t)}]
      <4> t \ {Max(t)} \in SUBSET (1 .. n) /\ t \in SUBSET (1 .. n)
        BY <2>3, <2>8
      <4> QED
        BY <2>6
    <3> QED
      BY <2>1, <2>3, <2>8, <3>1 DEF IsIndexFold
  <2>9. g[{}] = base
    BY <2>1, <2>6 DEF IsIndexFold
  <2>10. IsFold(g, n + 1)
    <3> HIDE DEF g
    <3> QED
      BY <2>7, <2>8, <2>9 DEF IsIndexFold
  <2> HIDE DEF g, IsFold
  <2> QED
    BY <2>5, <2>10
<1>3. N \in S
  <2> HIDE DEF S
  <2> QED
    BY <1>1, <1>2, Induction
<1>4. Has(N)
  <2> HIDE DEF Has
  <2> QED
    BY <1>3
<1> QED
  BY <1>4

\* The largest element of a set of indices is one of them.
LEMMA MaxIn ==
    ASSUME NEW N \in Nat, NEW t \in SUBSET (1 .. N), t # {}
    PROVE  Max(t) \in t
<1> DEFINE S == {n \in Nat : \A u \in SUBSET (1 .. n) : u # {} => Max(u) \in u}
<1>1. 0 \in S
  <2>1. 1 .. 0 = {}
    OBVIOUS
  <2> QED
    BY <2>1
<1>2. ASSUME NEW n \in Nat, n \in S PROVE n + 1 \in S
  <2> SUFFICES ASSUME NEW u \in SUBSET (1 .. n + 1), u # {} PROVE Max(u) \in u
    OBVIOUS
  <2>1. CASE n + 1 \in u
    BY <2>1, MaxIs
  <2>2. CASE n + 1 \notin u
    <3>1. u \in SUBSET (1 .. n)
      BY <2>2
    <3> QED
      BY <1>2, <3>1
  <2> QED
    BY <2>1, <2>2
<1>3. N \in S
  <2> HIDE DEF S
  <2> QED
    BY <1>1, <1>2, Induction
<1> QED
  BY <1>3

\* A way to go on from base in V with elements of X.
IsStep(op, base, V, X) == base \in V /\ op \in [V \X X -> V]

\* What op comes to when it is applied to the elements of s one after the other.
IsRun(f, op, base, s) ==
  /\ DOMAIN f = 0 .. Len(s)
  /\ f[0] = base
  /\ \A i \in 1 .. Len(s) : f[i] = op[<<f[i - 1], s[i]>>]

Run(op, base, s) == (CHOOSE f : IsRun(f, op, base, s))[Len(s)]

\* The same, as FoldLeft defines it.
IsFold(f, op, base, s) ==
  \A t \in SUBSET (1 .. Len(s)) :
    f[t] = IF t = {} THEN base ELSE op[<<f[t \ {Max(t)}], s[Max(t)]>>]

\* A step has a fold over the indices of every sequence, and a run along it.
LEMMA RunExists ==
    ASSUME NEW V, NEW X, NEW base, NEW op, IsStep(op, base, V, X), NEW s \in Seq(X)
    PROVE  /\ \E f \in [SUBSET (1 .. Len(s)) -> V] : IsFold(f, op, base, s)
           /\ \E f : IsRun(f, op, base, s)
<1> DEFINE N == Len(s)
           step == [p \in V \X (1 .. N) |-> op[<<p[1], s[p[2]]>>]]
<1>0. base \in V /\ op \in [V \X X -> V]
  BY DEF IsStep
<1>1. N \in Nat /\ \A i \in 1 .. N : s[i] \in X
  OBVIOUS
<1>2. step \in [V \X (1 .. N) -> V]
  BY <1>0
<1>3. PICK f \in [SUBSET (1 .. N) -> V] : IsIndexFold(f, step, base, N)
  <2> HIDE DEF step, N
  <2> QED
    BY <1>0, <1>1, <1>2, FoldExists
<1>4. ASSUME NEW t \in SUBSET (1 .. N)
      PROVE  f[t] = IF t = {} THEN base ELSE op[<<f[t \ {Max(t)}], s[Max(t)]>>]
  <2>1. CASE t = {}
    BY <1>3, <2>1 DEF IsIndexFold
  <2>2. CASE t # {}
    <3>1. Max(t) \in 1 .. N /\ f[t \ {Max(t)}] \in V
      BY <1>1, <2>2, MaxIn
    <3>2. step[<<f[t \ {Max(t)}], Max(t)>>] = op[<<f[t \ {Max(t)}], s[Max(t)]>>]
      BY <3>1
    <3> QED
      BY <1>3, <2>2, <3>2 DEF IsIndexFold
  <2> QED
    BY <2>1, <2>2
<1>5. f[{}] = base
  BY <1>3 DEF IsIndexFold
<1>6. ASSUME NEW i \in 1 .. N PROVE f[1 .. i] = op[<<f[1 .. i - 1], s[i]>>]
  <2>1. 1 .. i \in SUBSET (1 .. N) /\ i \in 1 .. i
    BY <1>1
  <2>2. Max(1 .. i) = i /\ (1 .. i) \ {i} = 1 .. i - 1
    BY MaxIs
  <2> QED
    BY <1>4, <2>1, <2>2
<1>7. IsRun([i \in 0 .. N |-> f[1 .. i]], op, base, s)
  <2>1. 1 .. 0 = {}
    OBVIOUS
  <2> QED
    BY <1>1, <1>5, <1>6, <2>1 DEF IsRun
<1>8. IsFold(f, op, base, s)
  BY <1>4 DEF IsFold
<1> QED
  BY <1>7, <1>8

\* There is one run only.
LEMMA RunUnique ==
    ASSUME NEW V, NEW X, NEW base, NEW op, IsStep(op, base, V, X), NEW s \in Seq(X),
           NEW f, IsRun(f, op, base, s)
    PROVE  /\ Run(op, base, s) = f[Len(s)]
           /\ f[Len(s)] \in V
<1> DEFINE g == CHOOSE g : IsRun(g, op, base, s)
           S == {n \in Nat : n <= Len(s) => f[n] = g[n] /\ f[n] \in V}
<1>0. base \in V /\ op \in [V \X X -> V]
  BY DEF IsStep
<1>1. IsRun(g, op, base, s)
  OBVIOUS
<1> HIDE DEF g
<1>2. 0 \in S
  BY <1>0, <1>1 DEF IsRun
<1>3. ASSUME NEW n \in Nat, n \in S PROVE n + 1 \in S
  <2> SUFFICES ASSUME n + 1 <= Len(s) PROVE f[n + 1] = g[n + 1] /\ f[n + 1] \in V
    OBVIOUS
  <2>1. f[n] = g[n] /\ f[n] \in V
    BY <1>3
  <2>2. n + 1 \in 1 .. Len(s) /\ (n + 1) - 1 = n /\ s[n + 1] \in X
    OBVIOUS
  <2>3. f[n + 1] = op[<<f[n], s[n + 1]>>] /\ g[n + 1] = op[<<g[n], s[n + 1]>>]
    BY <1>1, <2>2 DEF IsRun
  <2> QED
    BY <1>0, <2>1, <2>2, <2>3
<1>4. Len(s) \in S
  <2>1. Nat \subseteq S
    <3> HIDE DEF S
    <3> QED
      BY <1>2, <1>3, Induction
  <2> QED
    BY <2>1
<1>5. f[Len(s)] = g[Len(s)] /\ f[Len(s)] \in V
  BY <1>4
<1> QED
  BY <1>5 DEF Run, g

\* The run over the empty sequence, and over a longer one.
LEMMA RunSteps ==
    ASSUME NEW V, NEW X, NEW base, NEW op, IsStep(op, base, V, X)
    PROVE  /\ Run(op, base, <<>>) = base
           /\ \A s \in Seq(X) : Run(op, base, s) \in V
           /\ \A s \in Seq(X), x \in X :
                Run(op, base, Append(s, x)) = op[<<Run(op, base, s), x>>]
<1>a. ASSUME NEW s \in Seq(X), NEW f, IsRun(f, op, base, s)
      PROVE  Run(op, base, s) = f[Len(s)] /\ f[Len(s)] \in V
  BY <1>a, RunUnique
<1>1. ASSUME NEW s \in Seq(X)
      PROVE  \E f : IsRun(f, op, base, s) /\ Run(op, base, s) = f[Len(s)] /\ f[Len(s)] \in V
  <2>1. \E f : IsRun(f, op, base, s)
    BY RunExists
  <2> QED
    BY <2>1, <1>a
<1>2. Run(op, base, <<>>) = base
  <2>1. <<>> \in Seq(X) /\ Len(<<>>) = 0
    OBVIOUS
  <2> QED
    BY <1>1, <2>1 DEF IsRun
<1>3. ASSUME NEW s \in Seq(X), NEW x \in X
      PROVE  Run(op, base, Append(s, x)) = op[<<Run(op, base, s), x>>]
  <2>1. /\ Append(s, x) \in Seq(X) /\ Len(Append(s, x)) = Len(s) + 1
        /\ Append(s, x)[Len(s) + 1] = x
        /\ \A i \in 1 .. Len(s) : Append(s, x)[i] = s[i]
    OBVIOUS
  <2>2. PICK f : /\ IsRun(f, op, base, Append(s, x))
                 /\ Run(op, base, Append(s, x)) = f[Len(s) + 1]
    BY <1>1, <2>1
  <2>3. PICK g : g = [i \in 0 .. Len(s) |-> f[i]]
    OBVIOUS
  <2>4. Run(op, base, s) = f[Len(s)]
    <3>1. IsRun(g, op, base, s)
      <4>1. ASSUME NEW i \in 1 .. Len(s) PROVE g[i] = op[<<g[i - 1], s[i]>>]
        <5>1. i - 1 \in 0 .. Len(s) /\ i \in 0 .. Len(s) /\ i \in 1 .. Len(Append(s, x))
          BY <2>1
        <5> QED
          BY <2>1, <2>2, <2>3, <5>1 DEF IsRun
      <4>2. DOMAIN g = 0 .. Len(s) /\ g[0] = f[0]
        <5>1. 0 \in 0 .. Len(s)
          OBVIOUS
        <5> QED
          BY <2>3, <5>1
      <4>3. f[0] = base
        BY <2>2 DEF IsRun
      <4> QED
        BY <4>1, <4>2, <4>3 DEF IsRun
    <3>2. Run(op, base, s) = g[Len(s)]
      BY <3>1, <1>a
    <3> QED
      BY <2>3, <3>2
  <2>5. f[Len(s) + 1] = op[<<f[Len(s)], x>>]
    <3>1. Len(s) + 1 \in 1 .. Len(Append(s, x)) /\ (Len(s) + 1) - 1 = Len(s)
      BY <2>1
    <3> QED
      BY <2>1, <2>2, <3>1 DEF IsRun
  <2> QED
    BY <2>2, <2>4, <2>5
<1> QED
  BY <1>1, <1>2, <1>3

\* How to tell that something is a run without knowing its type.
LEMMA RunIs ==
    ASSUME NEW V, NEW X, NEW base, NEW op, IsStep(op, base, V, X), NEW s \in Seq(X),
           NEW g, g[0] = base,
           \A i \in 1 .. Len(s) : g[i - 1] \in V => g[i] = op[<<g[i - 1], s[i]>>]
    PROVE  g[Len(s)] = Run(op, base, s)
<1>0. base \in V /\ op \in [V \X X -> V]
  BY DEF IsStep
<1>1. PICK f : IsRun(f, op, base, s)
  BY RunExists
<1>2. Run(op, base, s) = f[Len(s)]
  BY <1>1, RunUnique
<1> DEFINE S == {n \in Nat : n <= Len(s) => f[n] = g[n] /\ f[n] \in V}
<1>3. 0 \in S
  BY <1>0, <1>1 DEF IsRun
<1>4. ASSUME NEW n \in Nat, n \in S PROVE n + 1 \in S
  <2> SUFFICES ASSUME n + 1 <= Len(s) PROVE f[n + 1] = g[n + 1] /\ f[n + 1] \in V
    OBVIOUS
  <2>1. f[n] = g[n] /\ f[n] \in V
    BY <1>4
  <2>2. n + 1 \in 1 .. Len(s) /\ (n + 1) - 1 = n /\ s[n + 1] \in X
    OBVIOUS
  <2>3. f[n + 1] = op[<<f[n], s[n + 1]>>] /\ g[n + 1] = op[<<g[n], s[n + 1]>>]
    BY <1>1, <2>1, <2>2 DEF IsRun
  <2> QED
    BY <1>0, <2>1, <2>2, <2>3
<1>5. Len(s) \in S
  <2>1. Nat \subseteq S
    <3> HIDE DEF S
    <3> QED
      BY <1>3, <1>4, Induction
  <2> QED
    BY <2>1
<1> QED
  BY <1>2, <1>5

-----------------------------------------------------------------------------
(* The folds of Summary are runs.                                          *)

Plus == [p \in Int \X Int |-> p[1] + p[2]]

Larger == [p \in Int \X Int |-> IF p[2] > p[1] THEN p[2] ELSE p[1]]

Keep(kept, X) ==
  [p \in Seq(X) \X X |-> IF p[2] \in kept THEN Append(p[1], p[2]) ELSE p[1]]

\* Total adds from the left.
LEMMA TotalIsRun ==
    ASSUME NEW s \in Seq(Int)
    PROVE  Total(s) = Run(Plus, 0, s)
<1> DEFINE N == Len(s)
           Is(f) == f = [t \in SUBSET DOMAIN s |->
                           IF t = {} THEN 0
                           ELSE f[t \ {Max(t)}] + s[Max(t)]]
           fold == CHOOSE f : Is(f)
<1>1. N \in Nat /\ DOMAIN s = 1 .. N /\ \A i \in 1 .. N : s[i] \in Int
  OBVIOUS
<1>2. IsStep(Plus, 0, Int, Int)
  BY DEF IsStep, Plus
<1>3. PICK f \in [SUBSET (1 .. N) -> Int] : IsFold(f, Plus, 0, s)
  BY <1>2, RunExists
<1>4. Is(f)
  <2>1. ASSUME NEW t \in SUBSET (1 .. N), t # {}
        PROVE  f[t] = f[t \ {Max(t)}] + s[Max(t)]
    <3>1. s[Max(t)] \in Int /\ f[t \ {Max(t)}] \in Int
      BY <1>1, <2>1, MaxIn
    <3> QED
      BY <1>3, <2>1, <3>1 DEF Plus, IsFold
  <2>2. \A t \in SUBSET (1 .. N) : f[t] = IF t = {} THEN 0 ELSE f[t \ {Max(t)}] + s[Max(t)]
    BY <1>3, <2>1 DEF IsFold
  <2> QED
    BY <1>1, <2>2
<1>5. Is(fold)
  <2> HIDE DEF Is
  <2> QED
    BY <1>4
<1>6. Total(s) = fold[DOMAIN s]
  BY Zenon DEF Total, FoldLeft, MapThenFoldSet
<1> HIDE DEF fold
<1>7. PICK g : g = [i \in 0 .. N |-> fold[1 .. i]]
  OBVIOUS
<1>8. g[0] = 0
  <2>1. 1 .. 0 = {} /\ {} \in SUBSET DOMAIN s
    OBVIOUS
  <2> QED
    BY <1>1, <1>5, <1>7, <2>1
<1>9. ASSUME NEW i \in 1 .. N, g[i - 1] \in Int PROVE g[i] = Plus[<<g[i - 1], s[i]>>]
  <2>1. i \in 1 .. i /\ 1 .. i \in SUBSET DOMAIN s /\ i - 1 \in 0 .. N /\ i \in 0 .. N
    BY <1>1
  <2>2. Max(1 .. i) = i /\ (1 .. i) \ {i} = 1 .. i - 1
    BY MaxIs
  <2>3. fold[1 .. i] = fold[1 .. i - 1] + s[i]
    BY <1>5, <2>1, <2>2
  <2>4. g[i] = fold[1 .. i] /\ g[i - 1] = fold[1 .. i - 1] /\ s[i] \in Int
    BY <1>1, <1>7, <2>1
  <2> QED
    BY <1>9, <2>3, <2>4 DEF Plus
<1>10. g[N] = Run(Plus, 0, s)
  BY <1>2, <1>8, <1>9, RunIs
<1> QED
  BY <1>1, <1>6, <1>7, <1>10

\* Greatest compares from the left, and starts from 0.
LEMMA GreatestIsRun ==
    ASSUME NEW s \in Seq(Int)
    PROVE  Greatest(s) = Run(Larger, 0, s)
<1> DEFINE N == Len(s)
           Is(f) == f = [t \in SUBSET DOMAIN s |->
                           IF t = {} THEN 0
                           ELSE IF s[Max(t)] > f[t \ {Max(t)}] THEN s[Max(t)] ELSE f[t \ {Max(t)}]]
           fold == CHOOSE f : Is(f)
<1>1. N \in Nat /\ DOMAIN s = 1 .. N /\ \A i \in 1 .. N : s[i] \in Int
  OBVIOUS
<1>2. IsStep(Larger, 0, Int, Int)
  BY DEF IsStep, Larger
<1>3. PICK f \in [SUBSET (1 .. N) -> Int] : IsFold(f, Larger, 0, s)
  BY <1>2, RunExists
<1>4. Is(f)
  <2>1. ASSUME NEW t \in SUBSET (1 .. N), t # {}
        PROVE  f[t] = IF s[Max(t)] > f[t \ {Max(t)}] THEN s[Max(t)] ELSE f[t \ {Max(t)}]
    <3>1. s[Max(t)] \in Int /\ f[t \ {Max(t)}] \in Int
      BY <1>1, <2>1, MaxIn
    <3> QED
      BY <1>3, <2>1, <3>1 DEF Larger, IsFold
  <2>2. \A t \in SUBSET (1 .. N) : f[t] = IF t = {} THEN 0
                                        ELSE IF s[Max(t)] > f[t \ {Max(t)}] THEN s[Max(t)]
                                             ELSE f[t \ {Max(t)}]
    BY <1>3, <2>1 DEF IsFold
  <2> QED
    BY <1>1, <2>2
<1>5. Is(fold)
  <2> HIDE DEF Is
  <2> QED
    BY <1>4
<1>6. Greatest(s) = fold[DOMAIN s]
  BY Zenon DEF Greatest, FoldLeft, MapThenFoldSet
<1> HIDE DEF fold
<1>7. PICK g : g = [i \in 0 .. N |-> fold[1 .. i]]
  OBVIOUS
<1>8. g[0] = 0
  <2>1. 1 .. 0 = {} /\ {} \in SUBSET DOMAIN s
    OBVIOUS
  <2> QED
    BY <1>1, <1>5, <1>7, <2>1
<1>9. ASSUME NEW i \in 1 .. N, g[i - 1] \in Int PROVE g[i] = Larger[<<g[i - 1], s[i]>>]
  <2>1. i \in 1 .. i /\ 1 .. i \in SUBSET DOMAIN s /\ i - 1 \in 0 .. N /\ i \in 0 .. N
    BY <1>1
  <2>2. Max(1 .. i) = i /\ (1 .. i) \ {i} = 1 .. i - 1
    BY MaxIs
  <2>3. fold[1 .. i] = IF s[i] > fold[1 .. i - 1] THEN s[i] ELSE fold[1 .. i - 1]
    BY <1>5, <2>1, <2>2
  <2>4. g[i] = fold[1 .. i] /\ g[i - 1] = fold[1 .. i - 1] /\ s[i] \in Int
    BY <1>1, <1>7, <2>1
  <2> QED
    BY <1>9, <2>3, <2>4 DEF Larger
<1>10. g[N] = Run(Larger, 0, s)
  BY <1>2, <1>8, <1>9, RunIs
<1> QED
  BY <1>1, <1>6, <1>7, <1>10

\* Among keeps from the left.
LEMMA AmongIsRun ==
    ASSUME NEW X, NEW s \in Seq(X), NEW kept
    PROVE  Among(kept, s) = Run(Keep(kept, X), <<>>, s)
<1> DEFINE N == Len(s)
           Is(f) == f = [t \in SUBSET DOMAIN s |->
                           IF t = {} THEN <<>>
                           ELSE IF s[Max(t)] \in kept THEN Append(f[t \ {Max(t)}], s[Max(t)])
                                ELSE f[t \ {Max(t)}]]
           fold == CHOOSE f : Is(f)
<1>1. N \in Nat /\ DOMAIN s = 1 .. N /\ \A i \in 1 .. N : s[i] \in X
  OBVIOUS
<1>2. IsStep(Keep(kept, X), <<>>, Seq(X), X)
  BY DEF IsStep, Keep
<1>3. PICK f \in [SUBSET (1 .. N) -> Seq(X)] : IsFold(f, Keep(kept, X), <<>>, s)
  BY <1>2, RunExists
<1>4. Is(f)
  <2>1. ASSUME NEW t \in SUBSET (1 .. N), t # {}
        PROVE  f[t] = IF s[Max(t)] \in kept THEN Append(f[t \ {Max(t)}], s[Max(t)]) ELSE f[t \ {Max(t)}]
    <3>1. s[Max(t)] \in X /\ f[t \ {Max(t)}] \in Seq(X)
      BY <1>1, <2>1, MaxIn
    <3> QED
      BY <1>3, <2>1, <3>1 DEF Keep, IsFold
  <2>2. \A t \in SUBSET (1 .. N) : f[t] = IF t = {} THEN <<>>
                                        ELSE IF s[Max(t)] \in kept THEN Append(f[t \ {Max(t)}], s[Max(t)])
                                             ELSE f[t \ {Max(t)}]
    BY <1>3, <2>1 DEF IsFold
  <2> QED
    BY <1>1, <2>2
<1>5. Is(fold)
  <2> HIDE DEF Is
  <2> QED
    BY <1>4
<1>6. Among(kept, s) = fold[DOMAIN s]
  BY Zenon DEF Among, FoldLeft, MapThenFoldSet
<1> HIDE DEF fold
<1>7. PICK g : g = [i \in 0 .. N |-> fold[1 .. i]]
  OBVIOUS
<1>8. g[0] = <<>>
  <2>1. 1 .. 0 = {} /\ {} \in SUBSET DOMAIN s
    OBVIOUS
  <2> QED
    BY <1>1, <1>5, <1>7, <2>1
<1>9. ASSUME NEW i \in 1 .. N, g[i - 1] \in Seq(X) PROVE g[i] = Keep(kept, X)[<<g[i - 1], s[i]>>]
  <2>1. i \in 1 .. i /\ 1 .. i \in SUBSET DOMAIN s /\ i - 1 \in 0 .. N /\ i \in 0 .. N
    BY <1>1
  <2>2. Max(1 .. i) = i /\ (1 .. i) \ {i} = 1 .. i - 1
    BY MaxIs
  <2>3. fold[1 .. i] = IF s[i] \in kept THEN Append(fold[1 .. i - 1], s[i]) ELSE fold[1 .. i - 1]
    BY <1>5, <2>1, <2>2
  <2>4. g[i] = fold[1 .. i] /\ g[i - 1] = fold[1 .. i - 1] /\ s[i] \in X
    BY <1>1, <1>7, <2>1
  <2> QED
    BY <1>9, <2>3, <2>4 DEF Keep
<1>10. g[N] = Run(Keep(kept, X), <<>>, s)
  BY <1>2, <1>8, <1>9, RunIs
<1> QED
  BY <1>1, <1>6, <1>7, <1>10

\* Total, element by element.
LEMMA TotalSteps ==
    /\ Total(<<>>) = 0
    /\ \A s \in Seq(Int) : Total(s) \in Int
    /\ \A s \in Seq(Int), x \in Int : Total(Append(s, x)) = Total(s) + x
<1>1. IsStep(Plus, 0, Int, Int)
  BY DEF IsStep, Plus
<1>2. Total(<<>>) = 0
  <2>1. <<>> \in Seq(Int)
    OBVIOUS
  <2>2. Run(Plus, 0, <<>>) = 0
    BY <1>1, RunSteps
  <2> QED
    BY <2>1, <2>2, TotalIsRun
<1>3. ASSUME NEW s \in Seq(Int) PROVE Total(s) = Run(Plus, 0, s) /\ Total(s) \in Int
  BY <1>1, RunSteps, TotalIsRun
<1>4. ASSUME NEW s \in Seq(Int), NEW x \in Int PROVE Total(Append(s, x)) = Total(s) + x
  <2>1. Append(s, x) \in Seq(Int)
    OBVIOUS
  <2>2. Run(Plus, 0, Append(s, x)) = Plus[<<Run(Plus, 0, s), x>>]
    BY <1>1, RunSteps
  <2> QED
    BY <1>3, <2>1, <2>2 DEF Plus
<1> QED
  BY <1>2, <1>3, <1>4

\* Greatest, element by element.
LEMMA GreatestSteps ==
    /\ Greatest(<<>>) = 0
    /\ \A s \in Seq(Int) : Greatest(s) \in Int
    /\ \A s \in Seq(Int), x \in Int :
         Greatest(Append(s, x)) = IF x > Greatest(s) THEN x ELSE Greatest(s)
<1>1. IsStep(Larger, 0, Int, Int)
  BY DEF IsStep, Larger
<1>2. Greatest(<<>>) = 0
  <2>1. <<>> \in Seq(Int)
    OBVIOUS
  <2>2. Run(Larger, 0, <<>>) = 0
    BY <1>1, RunSteps
  <2> QED
    BY <2>1, <2>2, GreatestIsRun
<1>3. ASSUME NEW s \in Seq(Int) PROVE Greatest(s) = Run(Larger, 0, s) /\ Greatest(s) \in Int
  BY <1>1, RunSteps, GreatestIsRun
<1>4. ASSUME NEW s \in Seq(Int), NEW x \in Int
      PROVE  Greatest(Append(s, x)) = IF x > Greatest(s) THEN x ELSE Greatest(s)
  <2>1. Append(s, x) \in Seq(Int)
    OBVIOUS
  <2>2. Run(Larger, 0, Append(s, x)) = Larger[<<Run(Larger, 0, s), x>>]
    BY <1>1, RunSteps
  <2> QED
    BY <1>3, <2>1, <2>2 DEF Larger
<1> QED
  BY <1>2, <1>3, <1>4

\* Among, element by element.
LEMMA AmongSteps ==
    ASSUME NEW X, NEW kept
    PROVE  /\ Among(kept, <<>>) = <<>>
           /\ \A s \in Seq(X) : Among(kept, s) \in Seq(X)
           /\ \A s \in Seq(X), x \in X :
                Among(kept, Append(s, x))
                  = IF x \in kept THEN Append(Among(kept, s), x) ELSE Among(kept, s)
<1>1. IsStep(Keep(kept, X), <<>>, Seq(X), X)
  BY DEF IsStep, Keep
<1>2. Among(kept, <<>>) = <<>>
  <2>1. <<>> \in Seq(X)
    OBVIOUS
  <2>2. Run(Keep(kept, X), <<>>, <<>>) = <<>>
    BY <1>1, RunSteps
  <2> QED
    BY <2>1, <2>2, AmongIsRun
<1>3. ASSUME NEW s \in Seq(X)
      PROVE  Among(kept, s) = Run(Keep(kept, X), <<>>, s) /\ Among(kept, s) \in Seq(X)
  <2>1. Run(Keep(kept, X), <<>>, s) \in Seq(X)
    BY <1>1, RunSteps
  <2> QED
    BY <2>1, AmongIsRun
<1>4. ASSUME NEW s \in Seq(X), NEW x \in X
      PROVE  Among(kept, Append(s, x))
               = IF x \in kept THEN Append(Among(kept, s), x) ELSE Among(kept, s)
  <2>1. Append(s, x) \in Seq(X)
    OBVIOUS
  <2>2. Run(Keep(kept, X), <<>>, Append(s, x)) = Keep(kept, X)[<<Run(Keep(kept, X), <<>>, s), x>>]
    BY <1>1, RunSteps
  <2> QED
    BY <1>3, <2>1, <2>2 DEF Keep
<1> QED
  BY <1>2, <1>3, <1>4

-----------------------------------------------------------------------------
(* What the operators on sequences return.                                 *)

\* The elements of a sequence that grows, or is reversed.
LEMMA ToSetSteps ==
    /\ ToSet(<<>>) = {}
    /\ \A V : \A s \in Seq(V) : ToSet(s) \subseteq V /\ s \in Seq(ToSet(s))
    /\ \A V : \A s \in Seq(V), x \in V : ToSet(Append(s, x)) = ToSet(s) \cup {x}
    /\ \A V : \A s, t \in Seq(V) : ToSet(s \o t) = ToSet(s) \cup ToSet(t)
    /\ \A V : \A s \in Seq(V) : ToSet(Reverse(s)) = ToSet(s)
<1>1. ToSet(<<>>) = {}
  BY DEF ToSet
<1>2. ASSUME NEW V, NEW s \in Seq(V) PROVE ToSet(s) \subseteq V /\ s \in Seq(ToSet(s))
  <2>1. DOMAIN s = 1 .. Len(s) /\ Len(s) \in Nat /\ \A i \in 1 .. Len(s) : s[i] \in V
    OBVIOUS
  <2>2. \A i \in 1 .. Len(s) : s[i] \in ToSet(s)
    BY <2>1 DEF ToSet
  <2>3. ToSet(s) \subseteq V
    BY <2>1 DEF ToSet
  <2>4. \A W : (\A i \in 1 .. Len(s) : s[i] \in W) => s \in Seq(W)
    OBVIOUS
  <2> QED
    BY <2>2, <2>3, <2>4
<1>3. ASSUME NEW V, NEW s \in Seq(V), NEW t \in Seq(V)
      PROVE  ToSet(s \o t) = ToSet(s) \cup ToSet(t)
  <2>1. /\ DOMAIN s = 1 .. Len(s) /\ DOMAIN t = 1 .. Len(t)
        /\ DOMAIN (s \o t) = 1 .. Len(s) + Len(t)
        /\ Len(s) \in Nat /\ Len(t) \in Nat
    OBVIOUS
  <2>2. \A i \in 1 .. Len(s) : (s \o t)[i] = s[i] /\ i \in 1 .. Len(s) + Len(t)
    OBVIOUS
  <2>3. \A i \in 1 .. Len(t) : (s \o t)[i + Len(s)] = t[i] /\ i + Len(s) \in 1 .. Len(s) + Len(t)
    OBVIOUS
  <2>4. ASSUME NEW i \in 1 .. Len(s) + Len(t)
        PROVE  (s \o t)[i] \in ToSet(s) \cup ToSet(t)
    <3>1. CASE i <= Len(s)
      BY <2>1, <2>2, <3>1 DEF ToSet
    <3>2. CASE i > Len(s)
      <4>1. i - Len(s) \in 1 .. Len(t) /\ (i - Len(s)) + Len(s) = i
        BY <2>1, <3>2
      <4>2. (s \o t)[i] = t[i - Len(s)]
        BY <2>3, <4>1
      <4> QED
        BY <2>1, <4>1, <4>2 DEF ToSet
    <3> QED
      BY <2>1, <3>1, <3>2
  <2>5. ToSet(s \o t) \subseteq ToSet(s) \cup ToSet(t)
    BY <2>1, <2>4 DEF ToSet
  <2>6. ToSet(s) \subseteq ToSet(s \o t)
    BY <2>1, <2>2 DEF ToSet
  <2>7. ToSet(t) \subseteq ToSet(s \o t)
    <3> SUFFICES ASSUME NEW i \in 1 .. Len(t) PROVE t[i] \in ToSet(s \o t)
      BY <2>1 DEF ToSet
    <3>1. i + Len(s) \in DOMAIN (s \o t) /\ (s \o t)[i + Len(s)] = t[i]
      BY <2>1, <2>3
    <3> QED
      BY <3>1 DEF ToSet
  <2> QED
    BY <2>5, <2>6, <2>7
<1>4. ASSUME NEW V, NEW s \in Seq(V), NEW x \in V
      PROVE  ToSet(Append(s, x)) = ToSet(s) \cup {x}
  <2>1. <<x>> \in Seq(V) /\ Append(s, x) = s \o <<x>>
    OBVIOUS
  <2>2. ToSet(<<x>>) = {x}
    BY DEF ToSet
  <2>3. PICK t \in Seq(V) : t = <<x>>
    BY <2>1
  <2>4. ToSet(s \o t) = ToSet(s) \cup ToSet(t)
    BY <1>3
  <2> QED
    BY <2>1, <2>2, <2>3, <2>4
<1>5. ASSUME NEW V, NEW s \in Seq(V) PROVE ToSet(Reverse(s)) = ToSet(s)
  <2>1. /\ DOMAIN s = 1 .. Len(s) /\ DOMAIN Reverse(s) = 1 .. Len(s) /\ Len(s) \in Nat
        /\ \A i \in 1 .. Len(s) : /\ Reverse(s)[i] = s[(Len(s) - i) + 1]
                                  /\ (Len(s) - i) + 1 \in 1 .. Len(s)
                                  /\ (Len(s) - ((Len(s) - i) + 1)) + 1 = i
    BY DEF Reverse
  <2>2. \A i \in 1 .. Len(s) : s[i] = Reverse(s)[(Len(s) - i) + 1]
    BY <2>1
  <2> QED
    BY <2>1, <2>2 DEF ToSet
<1> QED
  BY <1>1, <1>2, <1>3, <1>4, <1>5

\* Reverse, element by element.
LEMMA ReverseSteps ==
    /\ Reverse(<<>>) = <<>>
    /\ \A V : \A s \in Seq(V) : Reverse(s) \in Seq(V) /\ Len(Reverse(s)) = Len(s)
    /\ \A V : \A s \in Seq(V), x \in V : Reverse(Append(s, x)) = <<x>> \o Reverse(s)
<1>1. ASSUME NEW V, NEW s \in Seq(V), NEW x \in V
      PROVE Reverse(Append(s, x)) = <<x>> \o Reverse(s)
  BY DEF Reverse
<1> QED
  BY <1>1 DEF Reverse

\* FlattenSeq, sequence by sequence.
LEMMA FlattenSteps ==
    ASSUME NEW V
    PROVE  /\ FlattenSeq(<<>>) = <<>>
           /\ \A ss \in Seq(Seq(V)) : FlattenSeq(ss) \in Seq(V)
           /\ \A ss \in Seq(Seq(V)), t \in Seq(V) :
                FlattenSeq(Append(ss, t)) = FlattenSeq(ss) \o t
<1> DEFINE op == [p \in Seq(V) \X Seq(V) |-> p[1] \o p[2]]
<1>1. IsStep(op, <<>>, Seq(V), Seq(V))
  BY DEF IsStep
<1>2. FlattenSeq(<<>>) = <<>>
  BY DEF FlattenSeq
<1>3. ASSUME NEW ss \in Seq(Seq(V)) PROVE FlattenSeq(ss) = Run(op, <<>>, ss)
  <2> DEFINE N == Len(ss)
             Is(f) == f = [i \in 1 .. N |-> IF i = 1 THEN ss[i] ELSE f[i - 1] \o ss[i]]
             flat == CHOOSE f : Is(f)
  <2>1. CASE N = 0
    <3>1. ss = <<>>
      BY <2>1
    <3> HIDE DEF op
    <3> QED
      BY <1>1, <1>2, <3>1, RunSteps
  <2>2. CASE N # 0
    <3>1. N \in Nat /\ DOMAIN ss = 1 .. N /\ \A i \in 1 .. N : ss[i] \in Seq(V)
      OBVIOUS
    <3>2. PICK f \in [SUBSET (1 .. N) -> Seq(V)] : IsFold(f, op, <<>>, ss)
      <4> HIDE DEF op
      <4> QED
        BY <1>1, RunExists
    <3>3. f[{}] = <<>>
      BY <3>2 DEF IsFold
    <3>4. ASSUME NEW i \in 1 .. N PROVE f[1 .. i] = f[1 .. i - 1] \o ss[i]
      <4>1. i \in 1 .. i /\ 1 .. i \in SUBSET (1 .. N) /\ 1 .. i - 1 \in SUBSET (1 .. N)
        BY <3>1
      <4>2. Max(1 .. i) = i /\ (1 .. i) \ {i} = 1 .. i - 1
        BY MaxIs
      <4>3. f[1 .. i - 1] \in Seq(V) /\ ss[i] \in Seq(V)
        BY <3>1, <4>1
      <4> QED
        BY <3>2, <4>1, <4>2, <4>3 DEF IsFold
    <3>5. PICK h : h = [i \in 1 .. N |-> f[1 .. i]]
      OBVIOUS
    <3>6. Is(h)
      <4>1. ASSUME NEW i \in 1 .. N, i = 1 PROVE h[i] = ss[i]
        <5>1. 1 .. 1 - 1 = {} /\ f[{}] \o ss[1] = ss[1]
          BY <3>1, <3>3, <4>1
        <5> QED
          BY <3>4, <3>5, <4>1, <5>1
      <4>2. ASSUME NEW i \in 1 .. N, i # 1 PROVE h[i] = h[i - 1] \o ss[i]
        <5>1. i - 1 \in 1 .. N
          BY <3>1, <4>2
        <5> QED
          BY <3>4, <3>5, <5>1
      <4> QED
        BY <3>5, <4>1, <4>2
    <3>7. Is(flat)
      <4> HIDE DEF Is
      <4> QED
        BY <3>6
    <3>8. FlattenSeq(ss) = flat[N]
      BY <2>2, Zenon DEF FlattenSeq
    <3> HIDE DEF flat
    <3>9. PICK g : g = [i \in 0 .. N |-> IF i = 0 THEN <<>> ELSE flat[i]]
      OBVIOUS
    <3>10. g[0] = <<>> /\ g[N] = flat[N]
      BY <2>2, <3>1, <3>9
    <3>11. ASSUME NEW i \in 1 .. N, g[i - 1] \in Seq(V) PROVE g[i] = op[<<g[i - 1], ss[i]>>]
      <4>1. i \in 0 .. N /\ i # 0 /\ i - 1 \in 0 .. N
        BY <3>1
      <4>2. g[i] = g[i - 1] \o ss[i]
        <5>1. CASE i = 1
          BY <3>1, <3>7, <3>9, <4>1, <5>1
        <5>2. CASE i # 1
          <6>1. g[i] = flat[i] /\ g[i - 1] = flat[i - 1]
            BY <3>9, <4>1, <5>2
          <6> QED
            BY <3>7, <5>2, <6>1
        <5> QED
          BY <5>1, <5>2
      <4> QED
        BY <3>1, <3>11, <4>2
    <3>12. g[N] = Run(op, <<>>, ss)
      <4> HIDE DEF op
      <4> QED
        BY <1>1, <3>10, <3>11, RunIs
    <3> QED
      BY <3>8, <3>10, <3>12
  <2> QED
    BY <2>1, <2>2
<1>4. ASSUME NEW ss \in Seq(Seq(V)) PROVE FlattenSeq(ss) \in Seq(V)
  <2> HIDE DEF op
  <2> QED
    BY <1>1, <1>3, RunSteps
<1>5. ASSUME NEW ss \in Seq(Seq(V)), NEW t \in Seq(V)
      PROVE  FlattenSeq(Append(ss, t)) = FlattenSeq(ss) \o t
  <2>1. Append(ss, t) \in Seq(Seq(V))
    OBVIOUS
  <2>2. Run(op, <<>>, Append(ss, t)) = op[<<Run(op, <<>>, ss), t>>]
    <3> HIDE DEF op
    <3> QED
      BY <1>1, RunSteps
  <2>3. FlattenSeq(Append(ss, t)) = op[<<FlattenSeq(ss), t>>]
    <3> HIDE DEF op
    <3> QED
      BY <1>3, <2>1, <2>2
  <2> QED
    BY <1>4, <2>3
<1> QED
  BY <1>2, <1>4, <1>5

-----------------------------------------------------------------------------
(* Functions of sequences that work element by element.                    *)

IsAdditive(F, V, W) ==
  /\ F \in [Seq(V) -> Seq(W)]
  /\ F[<<>>] = <<>>
  /\ \A s \in Seq(V), x \in V : F[Append(s, x)] = F[s] \o F[<<x>>]

Distributes(F, V) == \A s, t \in Seq(V) : F[s \o t] = F[s] \o F[t]

\* What is added element by element distributes over concatenation.
LEMMA AdditiveConcat ==
    ASSUME NEW V, NEW W, NEW F, IsAdditive(F, V, W)
    PROVE  Distributes(F, V)
<1> SUFFICES ASSUME NEW s \in Seq(V) PROVE \A t \in Seq(V) : F[s \o t] = F[s] \o F[t]
  BY DEF Distributes
<1> DEFINE S == {t \in Seq(V) : F[s \o t] = F[s] \o F[t]}
<1>0. /\ \A t \in Seq(V) : F[t] \in Seq(W)
      /\ F[<<>>] = <<>>
      /\ \A t \in Seq(V), x \in V : F[Append(t, x)] = F[t] \o F[<<x>>]
      /\ \A x \in V : <<x>> \in Seq(V)
  BY DEF IsAdditive
<1>1. <<>> \in S
  <2>1. <<>> \in Seq(V) /\ s \o <<>> = s
    OBVIOUS
  <2>2. F[s] \o F[<<>>] = F[s]
    BY <1>0
  <2> QED
    BY <2>1, <2>2
<1>2. ASSUME NEW t \in Seq(V), NEW x \in V, t \in S PROVE Append(t, x) \in S
  <2>1. s \o Append(t, x) = Append(s \o t, x) /\ s \o t \in Seq(V) /\ Append(t, x) \in Seq(V)
    OBVIOUS
  <2>2. F[Append(s \o t, x)] = F[s \o t] \o F[<<x>>]
    BY <1>0, <2>1
  <2>3. F[Append(t, x)] = F[t] \o F[<<x>>]
    BY <1>0
  <2>4. F[s \o t] = F[s] \o F[t]
    BY <1>2
  <2>5. F[s] \in Seq(W) /\ F[t] \in Seq(W) /\ F[<<x>>] \in Seq(W)
    BY <1>0
  <2>6. (F[s] \o F[t]) \o F[<<x>>] = F[s] \o (F[t] \o F[<<x>>])
    <3> \A a, b, c \in Seq(W) : (a \o b) \o c = a \o (b \o c)
      OBVIOUS
    <3> QED
      BY <2>5
  <2>7. F[s \o Append(t, x)] = F[s] \o F[Append(t, x)]
    BY <2>1, <2>2, <2>3, <2>4, <2>6
  <2> QED
    BY <2>1, <2>7
<1> HIDE DEF S
<1>3. Seq(V) \subseteq S
  BY <1>1, <1>2, SeqInduction
<1> QED
  BY <1>3 DEF S

\* The sum of two sequences of numbers, one after the other.
LEMMA TotalConcat ==
    \A s, t \in Seq(Int) : Total(s \o t) = Total(s) + Total(t)
<1> SUFFICES ASSUME NEW s \in Seq(Int) PROVE \A t \in Seq(Int) : Total(s \o t) = Total(s) + Total(t)
  OBVIOUS
<1> DEFINE S == {t \in Seq(Int) : Total(s \o t) = Total(s) + Total(t)}
<1>1. <<>> \in S
  <2>1. <<>> \in Seq(Int) /\ s \o <<>> = s
    OBVIOUS
  <2> QED
    BY <2>1, TotalSteps
<1>2. ASSUME NEW t \in Seq(Int), NEW x \in Int, t \in S PROVE Append(t, x) \in S
  <2>1. s \o Append(t, x) = Append(s \o t, x) /\ s \o t \in Seq(Int) /\ Append(t, x) \in Seq(Int)
    OBVIOUS
  <2>2. Total(Append(s \o t, x)) = Total(s \o t) + x /\ Total(Append(t, x)) = Total(t) + x
    BY <2>1, TotalSteps
  <2>3. Total(s) \in Int /\ Total(t) \in Int /\ Total(s \o t) = Total(s) + Total(t)
    BY <1>2, TotalSteps
  <2>4. Total(s \o Append(t, x)) = Total(s) + Total(Append(t, x))
    BY <2>1, <2>2, <2>3
  <2> QED
    BY <2>1, <2>4
<1> HIDE DEF S
<1>3. Seq(Int) \subseteq S
  BY <1>1, <1>2, SeqInduction
<1> QED
  BY <1>3 DEF S

\* The greatest of some numbers and 0.
LEMMA GreatestIs ==
    \A s \in Seq(Int) :
      /\ Greatest(s) >= 0
      /\ \A x \in ToSet(s) : Greatest(s) >= x
      /\ Greatest(s) = 0 \/ Greatest(s) \in ToSet(s)
<1> DEFINE Ok(s) == /\ Greatest(s) >= 0
                    /\ \A x \in ToSet(s) : Greatest(s) >= x
                    /\ Greatest(s) = 0 \/ Greatest(s) \in ToSet(s)
           S == {s \in Seq(Int) : Ok(s)}
<1>1. <<>> \in S
  BY GreatestSteps, ToSetSteps
<1>2. ASSUME NEW s \in Seq(Int), NEW x \in Int, s \in S PROVE Append(s, x) \in S
  <2>1. ToSet(Append(s, x)) = ToSet(s) \cup {x} /\ ToSet(s) \subseteq Int
    BY ToSetSteps
  <2>2. Greatest(s) \in Int /\ Greatest(Append(s, x)) = IF x > Greatest(s) THEN x ELSE Greatest(s)
    BY GreatestSteps
  <2>3. Ok(s)
    BY <1>2
  <2>4. Append(s, x) \in Seq(Int)
    OBVIOUS
  <2> QED
    BY <2>1, <2>2, <2>3, <2>4
<1> HIDE DEF S
<1>3. Seq(Int) \subseteq S
  BY <1>1, <1>2, SeqInduction
<1> QED
  BY <1>3 DEF S

\* Two sequences that differ in their order, as far as the statistics can tell.
Alike(s, t) == Len(s) = Len(t) /\ ToSet(s) = ToSet(t) /\ Total(s) = Total(t)

\* Alike numbers have the same statistics.
LEMMA AlikeStats ==
    ASSUME NEW s \in Seq(Int), NEW t \in Seq(Int), Alike(s, t)
    PROVE  Greatest(s) = Greatest(t) /\ Total(s) = Total(t) /\ Len(s) = Len(t)
<1>1. Greatest(s) \in Int /\ Greatest(t) \in Int
  BY GreatestSteps
<1>2. ToSet(s) = ToSet(t)
  BY DEF Alike
<1>3. Greatest(s) >= Greatest(t) /\ Greatest(t) >= Greatest(s)
  BY <1>1, <1>2, GreatestIs
<1> QED
  BY <1>1, <1>3 DEF Alike

\* A number may be put before or after alike ones.
LEMMA AlikeConcat ==
    ASSUME NEW s \in Seq(Int), NEW t \in Seq(Int), Alike(s, t), NEW u \in Seq(Int)
    PROVE  Alike(s \o u, u \o t)
<1>1. /\ Total(s \o u) = Total(s) + Total(u) /\ Total(u \o t) = Total(u) + Total(t)
      /\ Total(s) \in Int /\ Total(t) \in Int /\ Total(u) \in Int
  BY TotalConcat, TotalSteps
<1>2. ToSet(s \o u) = ToSet(s) \cup ToSet(u) /\ ToSet(u \o t) = ToSet(u) \cup ToSet(t)
  BY ToSetSteps
<1>3. Len(s \o u) = Len(s) + Len(u) /\ Len(u \o t) = Len(u) + Len(t)
  OBVIOUS
<1> QED
  BY <1>1, <1>2, <1>3 DEF Alike

\* What is added element by element is alike in either order.
LEMMA AdditiveReverse ==
    ASSUME NEW V, NEW F, IsAdditive(F, V, Int)
    PROVE  \A s \in Seq(V) : Alike(F[s], F[Reverse(s)])
<1> DEFINE S == {s \in Seq(V) : Alike(F[s], F[Reverse(s)])}
<1>0. /\ \A t \in Seq(V) : F[t] \in Seq(Int)
      /\ \A t \in Seq(V), x \in V : F[Append(t, x)] = F[t] \o F[<<x>>]
      /\ \A x \in V : <<x>> \in Seq(V)
  BY DEF IsAdditive
<1>c. \A s, t \in Seq(V) : F[s \o t] = F[s] \o F[t]
  <2>1. Distributes(F, V)
    BY AdditiveConcat
  <2> QED
    BY <2>1 DEF Distributes
<1>1. <<>> \in S
  <2>1. <<>> \in Seq(V) /\ Reverse(<<>>) = <<>>
    BY ReverseSteps
  <2> QED
    BY <2>1 DEF Alike
<1>2. ASSUME NEW s \in Seq(V), NEW x \in V, s \in S PROVE Append(s, x) \in S
  <2>1. Append(s, x) \in Seq(V) /\ <<x>> \in Seq(V) /\ Reverse(s) \in Seq(V)
    BY ReverseSteps
  <2>2. Reverse(Append(s, x)) = <<x>> \o Reverse(s)
    BY ReverseSteps
  <2>3. F[<<x>> \o Reverse(s)] = F[<<x>>] \o F[Reverse(s)]
    BY <1>c, <2>1
  <2>4. F[Append(s, x)] = F[s] \o F[<<x>>]
    BY <1>0
  <2>5. F[s] \in Seq(Int) /\ F[Reverse(s)] \in Seq(Int) /\ F[<<x>>] \in Seq(Int)
    BY <1>0, <2>1
  <2>6. Alike(F[s] \o F[<<x>>], F[<<x>>] \o F[Reverse(s)])
    BY <1>2, <2>5, AlikeConcat
  <2> QED
    BY <2>1, <2>2, <2>3, <2>4, <2>6
<1> HIDE DEF S
<1>3. Seq(V) \subseteq S
  BY <1>1, <1>2, SeqInduction
<1> QED
  BY <1>3 DEF S

-----------------------------------------------------------------------------
(* Among.                                                                  *)

\* Among keeps exactly the elements that are to be kept.
LEMMA AmongSet ==
    ASSUME NEW X, NEW kept
    PROVE  \A s \in Seq(X) : ToSet(Among(kept, s)) = kept \cap ToSet(s)
<1> DEFINE S == {s \in Seq(X) : ToSet(Among(kept, s)) = kept \cap ToSet(s)}
<1>s. /\ Among(kept, <<>>) = <<>>
      /\ \A u \in Seq(X) : Among(kept, u) \in Seq(X)
      /\ \A u \in Seq(X), v \in X :
           Among(kept, Append(u, v)) = IF v \in kept THEN Append(Among(kept, u), v) ELSE Among(kept, u)
  BY AmongSteps
<1>1. <<>> \in S
  BY <1>s, ToSetSteps
<1>2. ASSUME NEW s \in Seq(X), NEW x \in X, s \in S PROVE Append(s, x) \in S
  <2>1. Among(kept, s) \in Seq(X) /\ Append(s, x) \in Seq(X)
    BY <1>s
  <2>2. Among(kept, Append(s, x)) = IF x \in kept THEN Append(Among(kept, s), x) ELSE Among(kept, s)
    BY <1>s
  <2>3. /\ ToSet(Append(s, x)) = ToSet(s) \cup {x}
        /\ ToSet(Append(Among(kept, s), x)) = ToSet(Among(kept, s)) \cup {x}
    BY <2>1, ToSetSteps
  <2>4. ToSet(Among(kept, s)) = kept \cap ToSet(s)
    BY <1>2
  <2> QED
    BY <2>1, <2>2, <2>3, <2>4
<1> HIDE DEF S
<1>3. Seq(X) \subseteq S
  BY <1>1, <1>2, SeqInduction
<1> QED
  BY <1>3 DEF S

\* Among keeps nothing exactly if there is nothing to keep.
LEMMA AmongEmpty ==
    ASSUME NEW X, NEW kept, NEW s \in Seq(X)
    PROVE  Among(kept, s) = <<>> <=> kept \cap ToSet(s) = {}
<1>1. Among(kept, s) \in Seq(X) /\ ToSet(Among(kept, s)) = kept \cap ToSet(s)
  <2>1. \A u \in Seq(X) : Among(kept, u) \in Seq(X)
    BY AmongSteps
  <2>2. \A u \in Seq(X) : ToSet(Among(kept, u)) = kept \cap ToSet(u)
    BY AmongSet
  <2> QED
    BY <2>1, <2>2
<1>2. \A t \in Seq(X) : t = <<>> <=> ToSet(t) = {}
  <2> SUFFICES ASSUME NEW t \in Seq(X), t # <<>> PROVE ToSet(t) # {}
    BY ToSetSteps
  <2>1. 1 \in DOMAIN t
    OBVIOUS
  <2> QED
    BY <2>1 DEF ToSet
<1> QED
  BY <1>1, <1>2

\* Only what is in the sequence matters.
LEMMA AmongAgree ==
    ASSUME NEW X, NEW kept, NEW other, NEW s \in Seq(X), kept \cap ToSet(s) = other \cap ToSet(s)
    PROVE  Among(kept, s) = Among(other, s)
<1> DEFINE Y == ToSet(s)
           S == {t \in Seq(Y) : Among(kept, t) = Among(other, t)}
<1>s. /\ Among(kept, <<>>) = <<>>
      /\ \A u \in Seq(ToSet(s)) : Among(kept, u) \in Seq(ToSet(s))
      /\ \A u \in Seq(ToSet(s)), v \in ToSet(s) :
           Among(kept, Append(u, v)) = IF v \in kept THEN Append(Among(kept, u), v) ELSE Among(kept, u)
  BY AmongSteps
<1>o. /\ Among(other, <<>>) = <<>>
      /\ \A u \in Seq(ToSet(s)) : Among(other, u) \in Seq(ToSet(s))
      /\ \A u \in Seq(ToSet(s)), v \in ToSet(s) :
           Among(other, Append(u, v)) = IF v \in other THEN Append(Among(other, u), v) ELSE Among(other, u)
  BY AmongSteps
<1>1. <<>> \in S
  <2>1. <<>> \in Seq(Y)
    OBVIOUS
  <2> QED
    BY <1>s, <1>o, <2>1
<1>2. ASSUME NEW t \in Seq(Y), NEW x \in Y, t \in S PROVE Append(t, x) \in S
  <2>1. Append(t, x) \in Seq(Y)
    OBVIOUS
  <2>2. Among(kept, Append(t, x)) = IF x \in kept THEN Append(Among(kept, t), x) ELSE Among(kept, t)
    BY <1>s
  <2>3. Among(other, Append(t, x)) = IF x \in other THEN Append(Among(other, t), x) ELSE Among(other, t)
    BY <1>o
  <2>4. x \in kept <=> x \in other
    OBVIOUS
  <2> QED
    BY <1>2, <2>1, <2>2, <2>3, <2>4
<1>3. s \in Seq(Y)
  BY ToSetSteps
<1> HIDE DEF S
<1>4. Seq(Y) \subseteq S
  <2> HIDE DEF Y
  <2> QED
    BY <1>1, <1>2, SeqInduction
<1> QED
  BY <1>3, <1>4 DEF S

\* Among keeps the order of the elements, whichever it is.
LEMMA AmongReverse ==
    ASSUME NEW X, NEW kept
    PROVE  \A s \in Seq(X) : Among(kept, Reverse(s)) = Reverse(Among(kept, s))
<1> DEFINE F == [s \in Seq(X) |-> Among(kept, s)]
           S == {s \in Seq(X) : Among(kept, Reverse(s)) = Reverse(Among(kept, s))}
<1>s. /\ Among(kept, <<>>) = <<>>
      /\ \A u \in Seq(X) : Among(kept, u) \in Seq(X)
      /\ \A u \in Seq(X), v \in X :
           Among(kept, Append(u, v)) = IF v \in kept THEN Append(Among(kept, u), v) ELSE Among(kept, u)
  BY AmongSteps
<1>0. ASSUME NEW x \in X PROVE /\ <<x>> \in Seq(X)
                               /\ Among(kept, <<x>>) = IF x \in kept THEN <<x>> ELSE <<>>
  <2>1. <<>> \in Seq(X) /\ Append(<<>>, x) = <<x>> /\ <<x>> \in Seq(X)
    OBVIOUS
  <2>2. Among(kept, Append(<<>>, x))
          = IF x \in kept THEN Append(Among(kept, <<>>), x) ELSE Among(kept, <<>>)
    BY <2>1, <1>s
  <2> QED
    BY <2>1, <2>2, <1>s
<1>a. IsAdditive(F, X, X)
  <2>1. F \in [Seq(X) -> Seq(X)]
    BY <1>s
  <2>2. F[<<>>] = <<>>
    <3> <<>> \in Seq(X)
      OBVIOUS
    <3> QED
      BY <1>s
  <2>3. ASSUME NEW s \in Seq(X), NEW x \in X PROVE F[Append(s, x)] = F[s] \o F[<<x>>]
    <3>1. Append(s, x) \in Seq(X) /\ Among(kept, s) \in Seq(X) /\ <<x>> \in Seq(X)
      BY <1>s
    <3>2. Among(kept, Append(s, x)) = IF x \in kept THEN Append(Among(kept, s), x) ELSE Among(kept, s)
      BY <1>s
    <3>3. Among(kept, Append(s, x)) = Among(kept, s) \o Among(kept, <<x>>)
      <4>1. \A u \in Seq(X) : u \o <<>> = u /\ Append(u, x) = u \o <<x>>
        OBVIOUS
      <4> QED
        BY <1>0, <3>1, <3>2, <4>1
    <3> QED
      BY <3>1, <3>3
  <2> HIDE DEF F
  <2> QED
    BY <2>1, <2>2, <2>3 DEF IsAdditive
<1>c. \A s, t \in Seq(X) : F[s \o t] = F[s] \o F[t]
  <2>1. Distributes(F, X)
    <3> HIDE DEF F
    <3> QED
      BY <1>a, AdditiveConcat
  <2> QED
    BY <2>1 DEF Distributes
<1>1. <<>> \in S
  BY ReverseSteps, <1>s
<1>2. ASSUME NEW s \in Seq(X), NEW x \in X, s \in S PROVE Append(s, x) \in S
  <2>1. Append(s, x) \in Seq(X) /\ <<x>> \in Seq(X) /\ Reverse(s) \in Seq(X) /\ Among(kept, s) \in Seq(X)
    BY ReverseSteps, <1>s
  <2>2. Reverse(Append(s, x)) = <<x>> \o Reverse(s) /\ <<x>> \o Reverse(s) \in Seq(X)
    BY <2>1, ReverseSteps
  <2>3. F[<<x>> \o Reverse(s)] = F[<<x>>] \o F[Reverse(s)]
    BY <1>c, <2>1
  <2>4. Among(kept, Reverse(Append(s, x))) = Among(kept, <<x>>) \o Among(kept, Reverse(s))
    BY <2>1, <2>2, <2>3
  <2>5. Among(kept, Append(s, x)) = IF x \in kept THEN Append(Among(kept, s), x) ELSE Among(kept, s)
    BY <1>s
  <2>6. Reverse(Append(Among(kept, s), x)) = <<x>> \o Reverse(Among(kept, s))
    BY <2>1, ReverseSteps
  <2>7. Reverse(Among(kept, s)) \in Seq(X)
    BY <2>1, ReverseSteps
  <2>8. Among(kept, Reverse(s)) = Reverse(Among(kept, s))
    BY <1>2
  <2>9. <<>> \o Reverse(Among(kept, s)) = Reverse(Among(kept, s))
    BY <2>7
  <2> QED
    BY <1>0, <2>1, <2>4, <2>5, <2>6, <2>8, <2>9
<1> HIDE DEF S
<1>3. Seq(X) \subseteq S
  BY <1>1, <1>2, SeqInduction
<1> QED
  BY <1>3 DEF S

\* A sequence that is as long as another.
IsMap(g, s, W) == g = [i \in DOMAIN s |-> g[i]] /\ \A i \in DOMAIN s : g[i] \in W

\* A map of a sequence is a sequence as long.
LEMMA MapType ==
    ASSUME NEW V, NEW s \in Seq(V), NEW W, NEW g, IsMap(g, s, W)
    PROVE  g \in Seq(W) /\ Len(g) = Len(s) /\ DOMAIN g = DOMAIN s
<1>1. DOMAIN s = 1 .. Len(s) /\ Len(s) \in Nat
  OBVIOUS
<1>2. DOMAIN g = 1 .. Len(s) /\ g = [i \in 1 .. Len(s) |-> g[i]] /\ \A i \in 1 .. Len(s) : g[i] \in W
  BY <1>1 DEF IsMap
<1> QED
  BY <1>1, <1>2

\* The type and the length of a concatenation.
LEMMA ConcatType ==
    ASSUME NEW V, NEW s \in Seq(V), NEW t \in Seq(V)
    PROVE  s \o t \in Seq(V) /\ Len(s \o t) = Len(s) + Len(t) /\ (s \o t = <<>> <=> s = <<>> /\ t = <<>>)
OBVIOUS

-----------------------------------------------------------------------------
(* The types of the records.                                               *)

Groups == Seq(Seq(Values)) \ {<<>>}

Records == UNION {[D -> Groups] : D \in SUBSET STRING}

Data == Seq([name : STRING, value : Values])

IsTeamMatch(m) == IsBreakdown(m.breakdown) /\ m.reports \in Seq(Data)

\* What numbers are made of values, groups and sequences of groups.
LEMMA NumberType ==
    /\ Unit \in Int
    /\ \A value \in Values : Number(value) \in Int
<1>0. Unit \in Int
  BY UnitAssumption
<1>1. ASSUME NEW value \in Values PROVE Number(value) \in Int
  <2>1. CASE value \in {"num"} \X Int
    BY <2>1 DEF Number
  <2>2. CASE value \in {"bool"} \X BOOLEAN
    BY <1>0, <2>2 DEF Number
  <2>3. CASE value \in ({"str"} \X STRING) \cup ({"other"} \X {None})
    BY <2>3 DEF Number
  <2> QED
    BY <2>1, <2>2, <2>3 DEF Values
<1> QED
  BY <1>0, <1>1

\* Sums and means of values are integers.
LEMMA SumType ==
    /\ \A group \in Seq(Values) : SumValues(group) \in Int
    /\ \A groups \in Seq(Seq(Values)) :
         Each(groups, SumValues) \in Seq(Int) /\ Len(Each(groups, SumValues)) = Len(groups)
    /\ \A groups \in Groups : Mean(groups) \in Int
<1>1. ASSUME NEW group \in Seq(Values) PROVE SumValues(group) \in Int
  <2>1. Each(group, Number) \in Seq(Int)
    <3>1. \A i \in DOMAIN group : Number(group[i]) \in Int
      BY NumberType
    <3> QED
      BY <3>1 DEF Each
  <2> QED
    BY <2>1, TotalSteps DEF SumValues
<1>2. ASSUME NEW groups \in Seq(Seq(Values))
      PROVE  /\ Each(groups, SumValues) \in Seq(Int)
             /\ Len(Each(groups, SumValues)) = Len(groups)
  <2>1. \A i \in DOMAIN groups : SumValues(groups[i]) \in Int
    BY <1>1
  <2>2. IsMap(Each(groups, SumValues), groups, Int)
    BY <2>1 DEF Each, IsMap
  <2> QED
    BY <2>2, MapType
<1>3. ASSUME NEW groups \in Groups PROVE Mean(groups) \in Int
  <2>1. groups \in Seq(Seq(Values)) /\ Len(groups) \in Nat \ {0}
    BY DEF Groups
  <2>2. Total(Each(groups, SumValues)) \in Int
    BY <1>2, <2>1, TotalSteps
  <2> QED
    BY <2>1, <2>2 DEF Mean
<1> QED
  BY <1>1, <1>2, <1>3

\* What the records of a stat are, and when there are any.
LEMMA RecordsType ==
    ASSUME NEW R \in Records
    PROVE  /\ DOMAIN R \subseteq STRING
           /\ R = [n \in DOMAIN R |-> R[n]]
           /\ \A n \in DOMAIN R : R[n] \in Groups
           /\ \A n \in STRING : /\ RecordsOf(R, n) \in Seq(Seq(Values))
                                /\ RecordsOf(R, n) = <<>> <=> n \notin DOMAIN R
                                /\ n \in DOMAIN R => RecordsOf(R, n) = R[n]
<1>1. PICK D \in SUBSET STRING : R \in [D -> Groups]
  BY DEF Records
<1>2. Groups \subseteq Seq(Seq(Values)) /\ <<>> \notin Groups /\ <<>> \in Seq(Seq(Values))
  BY DEF Groups
<1> QED
  BY <1>1, <1>2 DEF RecordsOf

\* Record adds groups to one stat and leaves the others alone.
LEMMA RecordType ==
    ASSUME NEW R \in Records, NEW name \in STRING, NEW groups \in Groups
    PROVE  /\ Record(R, name, groups) \in Records
           /\ DOMAIN Record(R, name, groups) = DOMAIN R \cup {name}
           /\ Record(R, name, groups)[name] = RecordsOf(R, name) \o groups
           /\ \A n \in DOMAIN R \ {name} : Record(R, name, groups)[n] = R[n]
<1>1. /\ DOMAIN R \cup {name} \in SUBSET STRING
      /\ \A n \in DOMAIN R : R[n] \in Groups
      /\ RecordsOf(R, name) \in Seq(Seq(Values))
  BY RecordsType
<1>2. RecordsOf(R, name) \o groups \in Groups
  <2> DEFINE U == Seq(Values)
  <2>1. groups \in Seq(U) /\ groups # <<>>
    BY DEF Groups
  <2>2. PICK h : h = RecordsOf(R, name)
    OBVIOUS
  <2>3. h \o groups \in Seq(U) /\ h \o groups # <<>>
    <3>1. h \in Seq(U)
      BY <1>1, <2>2
    <3> HIDE DEF U
    <3> QED
      BY <2>1, <3>1, ConcatType
  <2> QED
    BY <2>2, <2>3 DEF Groups
<1>3. Record(R, name, groups) \in [DOMAIN R \cup {name} -> Groups]
  BY <1>1, <1>2 DEF Record
<1>4. Record(R, name, groups) \in Records
  BY <1>1, <1>3 DEF Records
<1> QED
  BY <1>3, <1>4 DEF Record

\* RecordValue adds one group of one value.
LEMMA RecordValueType ==
    ASSUME NEW R \in Records, NEW name \in STRING, NEW value \in Values
    PROVE  /\ RecordValue(R, name, value) \in Records
           /\ DOMAIN RecordValue(R, name, value) = DOMAIN R \cup {name}
           /\ RecordValue(R, name, value)[name] = RecordsOf(R, name) \o << <<value>> >>
           /\ \A n \in DOMAIN R \ {name} : RecordValue(R, name, value)[n] = R[n]
<1>1. << <<value>> >> \in Groups
  BY DEF Groups
<1> QED
  BY <1>1, RecordType DEF RecordValue

\* What one report says of the field.
GroupOf(field, report) ==
  Each(Among({entry \in ToSet(report) : entry.name = field.report}, report),
       LAMBDA entry : entry.value)

GroupsOf(field, reports) == [i \in DOMAIN reports |-> GroupOf(field, reports[i])]

\* A group for every report.
LEMMA GroupType ==
    ASSUME NEW field, NEW reports \in Seq(Data)
    PROVE  /\ \A report \in Data : GroupOf(field, report) \in Seq(Values)
           /\ GroupsOf(field, reports) \in Seq(Seq(Values))
           /\ Len(GroupsOf(field, reports)) = Len(reports)
<1>1. ASSUME NEW report \in Data PROVE GroupOf(field, report) \in Seq(Values)
  <2> DEFINE E == [name : STRING, value : Values]
             kept == {entry \in ToSet(report) : entry.name = field.report}
             found == Among(kept, report)
  <2>1. found \in Seq(E)
    <3>1. report \in Seq(E)
      BY DEF Data
    <3>2. \A s \in Seq(E) : Among(kept, s) \in Seq(E)
      <4> HIDE DEF E, kept
      <4> QED
        BY AmongSteps
    <3> QED
      BY <3>1, <3>2
  <2> HIDE DEF found
  <2>2. Each(found, LAMBDA entry : entry.value) \in Seq(Values)
    <3>1. \A i \in DOMAIN found : found[i] \in E
      <4> HIDE DEF E
      <4> QED
        BY <2>1
    <3> QED
      BY <2>1, <3>1 DEF Each
  <2> QED
    BY <2>2 DEF GroupOf, found
<1>2. \A i \in DOMAIN reports : GroupOf(field, reports[i]) \in Seq(Values)
  BY <1>1
<1>3. PICK g : g = GroupsOf(field, reports)
  OBVIOUS
<1>4. IsMap(g, reports, Seq(Values))
  BY <1>2, <1>3 DEF GroupsOf, IsMap
<1>5. g \in Seq(Seq(Values)) /\ Len(g) = Len(reports)
  BY <1>4, MapType
<1> QED
  BY <1>1, <1>3, <1>5

\* summarizeReportReference in terms of its groups.
LEMMA ReferenceIs ==
    ASSUME NEW field, NEW match, NEW R
    PROVE  SummarizeReportReference(field, match, R)
             = IF match.reports = <<>> THEN R
               ELSE Record(R, field.name, GroupsOf(field, match.reports))
BY DEF SummarizeReportReference, GroupsOf, GroupOf, Each

\* The sum of the means of the stats that a field refers to.
SumOfMeans(field, R) == Total(Each(field.sum, LAMBDA name : Mean(RecordsOf(R, name))))

\* A sum of stats that have records is an integer.
LEMMA SumOfMeansType ==
    ASSUME NEW field, field.sum \in Seq(STRING), NEW R \in Records,
           \A name \in ToSet(field.sum) : RecordsOf(R, name) # <<>>
    PROVE  /\ Each(field.sum, LAMBDA name : Mean(RecordsOf(R, name))) \in Seq(Int)
           /\ SumOfMeans(field, R) \in Int
<1>1. \A i \in DOMAIN field.sum : Mean(RecordsOf(R, field.sum[i])) \in Int
  <2> SUFFICES ASSUME NEW i \in DOMAIN field.sum PROVE Mean(RecordsOf(R, field.sum[i])) \in Int
    OBVIOUS
  <2>1. field.sum[i] \in STRING /\ field.sum[i] \in ToSet(field.sum)
    BY DEF ToSet
  <2>2. RecordsOf(R, field.sum[i]) \in Groups
    BY <2>1, RecordsType DEF Groups
  <2> QED
    BY <2>2, SumType
<1>2. Each(field.sum, LAMBDA name : Mean(RecordsOf(R, name))) \in Seq(Int)
  BY <1>1 DEF Each
<1> QED
  BY <1>2, TotalSteps DEF SumOfMeans

\* The references of a field that may decide, and the first of them.
FoundIn(records, ref) ==
  \E group \in ToSet(RecordsOf(records, ref.name)) :
    \E value \in ToSet(group) : Equal(value, ref.equals)

Deciding(field, records) ==
  {i \in 1 .. Len(field.anyOf) :
     RecordsOf(records, field.anyOf[i].name) = <<>> \/ FoundIn(records, field.anyOf[i])}

\* summarizeAnyOf in terms of the reference that decides.
LEMMA AnyOfIs ==
    ASSUME NEW field, NEW records
    PROVE  LET first == IF Deciding(field, records) # {} THEN Min(Deciding(field, records)) ELSE 0
           IN SummarizeAnyOf(field, records)
                = CASE first = 0 -> RecordValue(records, field.name, <<"num", 0>>)
                    [] first # 0 /\ FoundIn(records, field.anyOf[first]) ->
                         RecordValue(records, field.name, <<"num", Unit>>)
                    [] OTHER -> records
BY Zenon DEF SummarizeAnyOf, SelectInSeq, Deciding, FoundIn

\* The first reference that decides is one that decides.
LEMMA DecidingMin ==
    ASSUME NEW field, NEW records, Len(field.anyOf) \in Nat, Deciding(field, records) # {}
    PROVE  Min(Deciding(field, records)) \in Deciding(field, records)
<1> DEFINE D == Deciding(field, records)
           less == {ss \in Nat \X Nat : ss[1] < ss[2]}
<1>1. D \subseteq Nat /\ D # {}
  BY DEF Deciding
<1>2. IsWellFoundedOn(less, Nat)
  BY NatLessThanWellFounded DEF OpToRel
<1>3. PICK n \in D : \A m \in D : <<m, n>> \notin less
  <2> HIDE DEF D, less
  <2> QED
    BY <1>1, <1>2, WFMin
<1>4. ASSUME NEW m \in D PROVE n <= m
  <2>1. m \in Nat /\ n \in Nat /\ <<m, n>> \notin less
    BY <1>1, <1>3
  <2> QED
    BY <2>1
<1> HIDE DEF D
<1>5. Min(D) \in D
  BY <1>4 DEF Min
<1> QED
  BY <1>5 DEF D

\* A field adds to the records, under its own name, or leaves them alone.
Adds(R, Q, name) ==
  /\ Q \in Records
  /\ Q = R \/ \E groups \in Groups : Q = Record(R, name, groups)

\* A field adds groups to its own stat, or nothing (summary.go:149-261).
LEMMA FieldType ==
    ASSUME NEW field \in Fields, NEW match, IsTeamMatch(match), NEW R \in Records
    PROVE  Adds(R, SummarizeField(field, match, R), field.name)
<1>0. /\ field.name \in STRING /\ field.sum \in Seq(STRING)
      /\ match.reports \in Seq(Data) /\ IsBreakdown(match.breakdown)
  BY DEF Fields, IsTeamMatch
<1>a. ASSUME NEW groups \in Groups PROVE Adds(R, Record(R, field.name, groups), field.name)
  <2>1. Record(R, field.name, groups) \in Records
    BY <1>0, RecordType
  <2> QED
    BY <2>1 DEF Adds
<1>b. ASSUME NEW value \in Values PROVE Adds(R, RecordValue(R, field.name, value), field.name)
  <2>1. << <<value>> >> \in Groups
    BY DEF Groups
  <2> QED
    BY <1>a, <2>1 DEF RecordValue
<1>c. Adds(R, R, field.name)
  BY DEF Adds
<1>1. Adds(R, SummarizeReportReference(field, match, R), field.name)
  <2>1. CASE match.reports = <<>>
    BY <1>c, <2>1, ReferenceIs
  <2>2. CASE match.reports # <<>>
    <3>1. GroupsOf(field, match.reports) \in Groups
      <4>1. PICK g : g = GroupsOf(field, match.reports)
        OBVIOUS
      <4>2. g \in Seq(Seq(Values)) /\ Len(g) = Len(match.reports)
        BY <1>0, <4>1, GroupType
      <4> QED
        BY <1>0, <2>2, <4>1, <4>2 DEF Groups
    <3>2. SummarizeReportReference(field, match, R)
            = Record(R, field.name, GroupsOf(field, match.reports))
      BY <2>2, ReferenceIs
    <3> QED
      BY <1>a, <3>1, <3>2
  <2> QED
    BY <2>1, <2>2
<1>2. Adds(R, SummarizeTBAReference(field, match, R), field.name)
  <2>1. \A key \in DOMAIN match.breakdown : match.breakdown[key] \in Values
    BY <1>0 DEF IsBreakdown
  <2> QED
    BY <1>b, <1>c, <2>1 DEF SummarizeTBAReference
<1>3. Adds(R, SummarizeSum(field, R), field.name)
  <2>1. CASE \E name \in ToSet(field.sum) : RecordsOf(R, name) = <<>>
    BY <1>c, <2>1 DEF SummarizeSum
  <2>2. CASE ~ \E name \in ToSet(field.sum) : RecordsOf(R, name) = <<>>
    <3>1. SumOfMeans(field, R) \in Int
      BY <1>0, <2>2, SumOfMeansType
    <3>2. <<"num", SumOfMeans(field, R)>> \in Values
      BY <3>1 DEF Values
    <3>3. SummarizeSum(field, R) = RecordValue(R, field.name, <<"num", SumOfMeans(field, R)>>)
      BY <2>2 DEF SummarizeSum, SumOfMeans
    <3> QED
      BY <1>b, <3>2, <3>3
  <2> QED
    BY <2>1, <2>2
<1>4. Adds(R, SummarizeAnyOf(field, R), field.name)
  <2>1. <<"num", 0>> \in Values /\ <<"num", Unit>> \in Values
    BY NumberType DEF Values
  <2>2. \/ SummarizeAnyOf(field, R) = RecordValue(R, field.name, <<"num", 0>>)
        \/ SummarizeAnyOf(field, R) = RecordValue(R, field.name, <<"num", Unit>>)
        \/ SummarizeAnyOf(field, R) = R
    BY Zenon DEF SummarizeAnyOf
  <2> QED
    BY <1>b, <1>c, <2>1, <2>2
<1> QED
  BY <1>1, <1>2, <1>3, <1>4 DEF SummarizeField

FieldStep(match) == [p \in Records \X Fields |-> SummarizeField(p[2], match, p[1])]

\* The step of a schema's fold.
LEMMA FieldStepType ==
    ASSUME NEW match, IsTeamMatch(match)
    PROVE  IsStep(FieldStep(match), <<>>, Records, Fields)
<1>1. <<>> \in Records
  <2>1. <<>> \in [{} -> Groups]
    OBVIOUS
  <2> QED
    BY <2>1 DEF Records
<1>2. \A R \in Records, field \in Fields : SummarizeField(field, match, R) \in Records
  BY FieldType DEF Adds
<1> QED
  BY <1>1, <1>2 DEF IsStep, FieldStep

\* summarizeMatch goes through the schema from its first field.
LEMMA SummarizeMatchIsRun ==
    ASSUME NEW match, IsTeamMatch(match), NEW s \in Seq(Fields)
    PROVE  SummarizeMatch(s, match) = Run(FieldStep(match), <<>>, s)
<1> DEFINE N == Len(s)
           Is(f) == f = [t \in SUBSET DOMAIN s |->
                           IF t = {} THEN <<>>
                           ELSE SummarizeField(s[Max(t)], match, f[t \ {Max(t)}])]
           fold == CHOOSE f : Is(f)
<1>1. N \in Nat /\ DOMAIN s = 1 .. N /\ \A i \in 1 .. N : s[i] \in Fields
  OBVIOUS
<1>2. IsStep(FieldStep(match), <<>>, Records, Fields)
  BY FieldStepType
<1>3. PICK f \in [SUBSET (1 .. N) -> Records] : IsFold(f, FieldStep(match), <<>>, s)
  BY <1>2, RunExists
<1>4. Is(f)
  <2>1. ASSUME NEW t \in SUBSET (1 .. N), t # {}
        PROVE  f[t] = SummarizeField(s[Max(t)], match, f[t \ {Max(t)}])
    <3>1. s[Max(t)] \in Fields /\ f[t \ {Max(t)}] \in Records
      BY <1>1, <2>1, MaxIn
    <3> QED
      BY <1>3, <2>1, <3>1 DEF FieldStep, IsFold
  <2>2. \A t \in SUBSET (1 .. N) : f[t] = IF t = {} THEN <<>> ELSE SummarizeField(s[Max(t)], match, f[t \ {Max(t)}])
    BY <1>3, <2>1 DEF IsFold
  <2> QED
    BY <1>1, <2>2
<1>5. Is(fold)
  <2> HIDE DEF Is
  <2> QED
    BY <1>4
<1>6. SummarizeMatch(s, match) = fold[DOMAIN s]
  BY Zenon DEF SummarizeMatch, FoldLeft, MapThenFoldSet
<1> HIDE DEF fold
<1>7. PICK g : g = [i \in 0 .. N |-> fold[1 .. i]]
  OBVIOUS
<1>8. g[0] = <<>>
  <2>1. 1 .. 0 = {} /\ {} \in SUBSET DOMAIN s
    OBVIOUS
  <2> QED
    BY <1>1, <1>5, <1>7, <2>1
<1>9. ASSUME NEW i \in 1 .. N, g[i - 1] \in Records PROVE g[i] = FieldStep(match)[<<g[i - 1], s[i]>>]
  <2>1. i \in 1 .. i /\ 1 .. i \in SUBSET DOMAIN s /\ i - 1 \in 0 .. N /\ i \in 0 .. N
    BY <1>1
  <2>2. Max(1 .. i) = i /\ (1 .. i) \ {i} = 1 .. i - 1
    BY MaxIs
  <2>3. fold[1 .. i] = SummarizeField(s[i], match, fold[1 .. i - 1])
    BY <1>5, <2>1, <2>2
  <2>4. g[i] = fold[1 .. i] /\ g[i - 1] = fold[1 .. i - 1] /\ s[i] \in Fields
    BY <1>1, <1>7, <2>1
  <2> QED
    BY <1>9, <2>3, <2>4 DEF FieldStep
<1>10. g[N] = Run(FieldStep(match), <<>>, s)
  <2>1. PICK op : op = FieldStep(match)
    OBVIOUS
  <2>2. IsStep(op, <<>>, Records, Fields)
    BY <1>2, <2>1
  <2>3. \A i \in 1 .. Len(s) : g[i - 1] \in Records => g[i] = op[<<g[i - 1], s[i]>>]
    BY <1>9, <2>1
  <2>4. g[Len(s)] = Run(op, <<>>, s)
    BY <1>8, <2>2, <2>3, RunIs
  <2> QED
    BY <2>1, <2>4
<1> QED
  BY <1>1, <1>6, <1>7, <1>10

\* A field is applied to what the fields before it recorded.
LEMMA SummarizeMatchSteps ==
    ASSUME NEW match, IsTeamMatch(match)
    PROVE  /\ SummarizeMatch(<<>>, match) = <<>>
           /\ \A s \in Seq(Fields) : SummarizeMatch(s, match) \in Records
           /\ \A s \in Seq(Fields), field \in Fields :
                SummarizeMatch(Append(s, field), match)
                  = SummarizeField(field, match, SummarizeMatch(s, match))
<1> DEFINE op == FieldStep(match)
<1>0. IsStep(op, <<>>, Records, Fields)
  BY FieldStepType
<1>a. ASSUME NEW s \in Seq(Fields) PROVE SummarizeMatch(s, match) = Run(op, <<>>, s)
  BY SummarizeMatchIsRun
<1>b. op = [p \in Records \X Fields |-> SummarizeField(p[2], match, p[1])]
  BY DEF FieldStep
<1> HIDE DEF op
<1>c. /\ Run(op, <<>>, <<>>) = <<>>
      /\ \A s \in Seq(Fields) : Run(op, <<>>, s) \in Records
      /\ \A s \in Seq(Fields), x \in Fields :
           Run(op, <<>>, Append(s, x)) = op[<<Run(op, <<>>, s), x>>]
  BY <1>0, RunSteps
<1>1. SummarizeMatch(<<>>, match) = <<>>
  <2>1. <<>> \in Seq(Fields)
    OBVIOUS
  <2> QED
    BY <1>a, <1>c, <2>1
<1>2. ASSUME NEW s \in Seq(Fields) PROVE SummarizeMatch(s, match) \in Records
  BY <1>a, <1>c
<1>3. ASSUME NEW s \in Seq(Fields), NEW field \in Fields
      PROVE  SummarizeMatch(Append(s, field), match)
               = SummarizeField(field, match, SummarizeMatch(s, match))
  <2>1. Append(s, field) \in Seq(Fields)
    OBVIOUS
  <2>2. SummarizeMatch(Append(s, field), match) = op[<<SummarizeMatch(s, match), field>>]
    BY <1>a, <1>c, <2>1
  <2> QED
    BY <1>2, <1>b, <2>2
<1> QED
  BY <1>1, <1>2, <1>3

-----------------------------------------------------------------------------
(* What a team's stats are made of: for every stat, the sequence of the    *)
(* means that its matches have.                                            *)

AreTeamMatches(M) == \A m \in M : IsTeamMatch(m)

Having(name) == {R \in Records : name \in DOMAIN R}

RecordsOfMatches(schema, played) ==
  [i \in DOMAIN played |-> SummarizeMatch(schema, played[i])]

MeansAmong(found, name) == [i \in DOMAIN found |-> Mean(found[i][name])]

MeansOf(schema, played, name) ==
  MeansAmong(Among(Having(name), RecordsOfMatches(schema, played)), name)

Stat(means) == [max |-> Greatest(means), average |-> Total(means) \div Len(means)]

AmongFollows(kept, X) ==
  /\ Among(kept, <<>>) = <<>>
  /\ \A s \in Seq(X) : Among(kept, s) \in Seq(X)
  /\ \A s \in Seq(X), x \in X :
       Among(kept, Append(s, x)) = IF x \in kept THEN Append(Among(kept, s), x) ELSE Among(kept, s)

\* AmongSteps, by a name.
LEMMA AmongFollow ==
    ASSUME NEW X, NEW kept
    PROVE  AmongFollows(kept, X)
BY AmongSteps DEF AmongFollows

\* The records of a team's matches, one for each.
LEMMA RecordsOfMatchesType ==
    ASSUME NEW schema \in Seq(Fields), NEW M, AreTeamMatches(M), NEW played \in Seq(M)
    PROVE  /\ RecordsOfMatches(schema, played) \in Seq(Records)
           /\ ToSet(RecordsOfMatches(schema, played))
                = {SummarizeMatch(schema, played[i]) : i \in DOMAIN played}
           /\ \A m \in M : RecordsOfMatches(schema, Append(played, m))
                             = Append(RecordsOfMatches(schema, played), SummarizeMatch(schema, m))
<1>0. \A m \in M : SummarizeMatch(schema, m) \in Records
  BY SummarizeMatchSteps DEF AreTeamMatches
<1>1. \A i \in DOMAIN played : SummarizeMatch(schema, played[i]) \in Records
  BY <1>0
<1>2. IsMap(RecordsOfMatches(schema, played), played, Records)
  BY <1>1 DEF RecordsOfMatches, IsMap
<1>3. RecordsOfMatches(schema, played) \in Seq(Records)
  BY <1>2, MapType
<1>4. ToSet(RecordsOfMatches(schema, played))
        = {SummarizeMatch(schema, played[i]) : i \in DOMAIN played}
  BY DEF ToSet, RecordsOfMatches
<1>5. ASSUME NEW m \in M
      PROVE  RecordsOfMatches(schema, Append(played, m))
               = Append(RecordsOfMatches(schema, played), SummarizeMatch(schema, m))
  BY DEF RecordsOfMatches
<1> QED
  BY <1>3, <1>4, <1>5

\* The means of records that have the stat, one by one.
LEMMA MeansAmongSteps ==
    ASSUME NEW name
    PROVE  /\ MeansAmong(<<>>, name) = <<>>
           /\ \A s \in Seq(Records) : DOMAIN MeansAmong(s, name) = DOMAIN s
           /\ \A s \in Seq(Records), R \in Records :
                MeansAmong(Append(s, R), name) = Append(MeansAmong(s, name), Mean(R[name]))
BY DEF MeansAmong

MeansFollow(schema, M, name) ==
  /\ MeansOf(schema, <<>>, name) = <<>>
  /\ \A played \in Seq(M), m \in M :
       MeansOf(schema, Append(played, m), name)
         = IF name \in DOMAIN SummarizeMatch(schema, m)
           THEN Append(MeansOf(schema, played, name), Mean(SummarizeMatch(schema, m)[name]))
           ELSE MeansOf(schema, played, name)

\* The means of the matches, one match after the other.
LEMMA MeansSteps ==
    ASSUME NEW schema \in Seq(Fields), NEW M, AreTeamMatches(M), NEW name
    PROVE  MeansFollow(schema, M, name)
<1>s. /\ Among(Having(name), <<>>) = <<>>
      /\ \A u \in Seq(Records) : Among(Having(name), u) \in Seq(Records)
      /\ \A u \in Seq(Records), v \in Records :
           Among(Having(name), Append(u, v))
             = IF v \in Having(name) THEN Append(Among(Having(name), u), v) ELSE Among(Having(name), u)
  <2>1. AmongFollows(Having(name), Records)
    BY AmongFollow
  <2> QED
    BY <2>1 DEF AmongFollows
<1>1. MeansOf(schema, <<>>, name) = <<>>
  <2>1. RecordsOfMatches(schema, <<>>) = <<>>
    BY DEF RecordsOfMatches
  <2> QED
    BY <1>s, <2>1, MeansAmongSteps DEF MeansOf
<1>2. ASSUME NEW played \in Seq(M), NEW m \in M
      PROVE  MeansOf(schema, Append(played, m), name)
               = IF name \in DOMAIN SummarizeMatch(schema, m)
                 THEN Append(MeansOf(schema, played, name), Mean(SummarizeMatch(schema, m)[name]))
                 ELSE MeansOf(schema, played, name)
  <2>1. PICK recs \in Seq(Records) : recs = RecordsOfMatches(schema, played)
    BY RecordsOfMatchesType
  <2>2. PICK R \in Records : R = SummarizeMatch(schema, m)
    BY SummarizeMatchSteps DEF AreTeamMatches
  <2>3. RecordsOfMatches(schema, Append(played, m)) = Append(recs, R)
    BY <2>1, <2>2, RecordsOfMatchesType
  <2>4. Among(Having(name), Append(recs, R))
          = IF R \in Having(name) THEN Append(Among(Having(name), recs), R)
                                  ELSE Among(Having(name), recs)
    BY <1>s
  <2>5. R \in Having(name) <=> name \in DOMAIN R
    BY DEF Having
  <2>6. PICK found \in Seq(Records) : found = Among(Having(name), recs)
    BY <1>s
  <2>7. MeansAmong(Append(found, R), name) = Append(MeansAmong(found, name), Mean(R[name]))
    BY MeansAmongSteps
  <2> QED
    BY <2>1, <2>2, <2>3, <2>4, <2>5, <2>6, <2>7 DEF MeansOf
<1> QED
  BY <1>1, <1>2 DEF MeansFollow

\* The means of a team's matches are integers, and added match by match.
LEMMA MeansType ==
    ASSUME NEW schema \in Seq(Fields), NEW M, AreTeamMatches(M), NEW name
    PROVE  /\ \A played \in Seq(M) : MeansOf(schema, played, name) \in Seq(Int)
           /\ \A m \in M : MeansOf(schema, <<m>>, name)
                             = IF name \in DOMAIN SummarizeMatch(schema, m)
                               THEN <<Mean(SummarizeMatch(schema, m)[name])>> ELSE <<>>
           /\ IsAdditive([played \in Seq(M) |-> MeansOf(schema, played, name)], M, Int)
<1> DEFINE F == [played \in Seq(M) |-> MeansOf(schema, played, name)]
           S == {played \in Seq(M) : MeansOf(schema, played, name) \in Seq(Int)}
<1>s. /\ MeansOf(schema, <<>>, name) = <<>>
      /\ \A played \in Seq(M), m \in M :
           MeansOf(schema, Append(played, m), name)
             = IF name \in DOMAIN SummarizeMatch(schema, m)
               THEN Append(MeansOf(schema, played, name), Mean(SummarizeMatch(schema, m)[name]))
               ELSE MeansOf(schema, played, name)
  <2>1. MeansFollow(schema, M, name)
    BY MeansSteps
  <2> QED
    BY <2>1 DEF MeansFollow
<1>0. ASSUME NEW m \in M, name \in DOMAIN SummarizeMatch(schema, m)
      PROVE  Mean(SummarizeMatch(schema, m)[name]) \in Int
  <2>1. PICK R \in Records : R = SummarizeMatch(schema, m)
    BY SummarizeMatchSteps DEF AreTeamMatches
  <2>2. R[name] \in Groups
    BY <1>0, <2>1, RecordsType
  <2> QED
    BY <2>1, <2>2, SumType
<1>1. <<>> \in S
  <2>1. <<>> \in Seq(M) /\ <<>> \in Seq(Int)
    OBVIOUS
  <2> QED
    BY <1>s, <2>1
<1>2. ASSUME NEW played \in Seq(M), NEW m \in M, played \in S PROVE Append(played, m) \in S
  <2>1. PICK means \in Seq(Int) : means = MeansOf(schema, played, name)
    BY <1>2
  <2>2. \A x \in Int : Append(means, x) \in Seq(Int)
    OBVIOUS
  <2>3. MeansOf(schema, Append(played, m), name) \in Seq(Int)
    BY <1>0, <1>s, <2>1, <2>2
  <2>4. Append(played, m) \in Seq(M)
    OBVIOUS
  <2> QED
    BY <2>3, <2>4
<1>3. ASSUME NEW played \in Seq(M) PROVE MeansOf(schema, played, name) \in Seq(Int)
  <2>1. Seq(M) \subseteq S
    <3> HIDE DEF S
    <3> QED
      BY <1>1, <1>2, SeqInduction
  <2> QED
    BY <2>1
<1>4. ASSUME NEW m \in M
      PROVE  MeansOf(schema, <<m>>, name) = IF name \in DOMAIN SummarizeMatch(schema, m)
                                            THEN <<Mean(SummarizeMatch(schema, m)[name])>> ELSE <<>>
  <2>1. <<>> \in Seq(M) /\ Append(<<>>, m) = <<m>>
    OBVIOUS
  <2>2. \A x : Append(<<>>, x) = <<x>>
    OBVIOUS
  <2> QED
    BY <1>s, <2>1, <2>2
<1>5. ASSUME NEW played \in Seq(M), NEW m \in M
      PROVE  MeansOf(schema, Append(played, m), name)
               = MeansOf(schema, played, name) \o MeansOf(schema, <<m>>, name)
  <2>1. PICK means \in Seq(Int) : means = MeansOf(schema, played, name)
    BY <1>3
  <2>2. means \o <<>> = means /\ \A x \in Int : Append(means, x) = means \o <<x>>
    OBVIOUS
  <2> QED
    BY <1>0, <1>4, <1>s, <2>1, <2>2
<1>6. IsAdditive(F, M, Int)
  <2>1. \A played \in Seq(M), m \in M : Append(played, m) \in Seq(M) /\ <<m>> \in Seq(M)
    OBVIOUS
  <2>2. <<>> \in Seq(M)
    OBVIOUS
  <2> QED
    BY <1>3, <1>5, <1>s, <2>1, <2>2 DEF IsAdditive
<1> QED
  BY <1>3, <1>4, <1>6

\* A team's stats are those that have a mean in some match.
LEMMA SummarizeTeamIs ==
    ASSUME NEW schema \in Seq(Fields), NEW M, AreTeamMatches(M), NEW played \in Seq(M)
    PROVE  /\ \A name : Means(RecordsOfMatches(schema, played), name) = MeansOf(schema, played, name)
           /\ UNION {DOMAIN r : r \in ToSet(RecordsOfMatches(schema, played))}
                = {n \in STRING : MeansOf(schema, played, n) # <<>>}
           /\ SummarizeTeam(schema, played)
                = [name \in {n \in STRING : MeansOf(schema, played, n) # <<>>} |->
                     Stat(MeansOf(schema, played, name))]
<1>1. PICK recs \in Seq(Records) : recs = RecordsOfMatches(schema, played)
  BY RecordsOfMatchesType
<1>2. Each(played, LAMBDA match : SummarizeMatch(schema, match)) = recs
  BY <1>1 DEF Each, RecordsOfMatches
<1>3. ASSUME NEW name
      PROVE  Means(recs, name) = MeansOf(schema, played, name)
  <2>1. {r \in ToSet(recs) : name \in DOMAIN r} \cap ToSet(recs) = Having(name) \cap ToSet(recs)
    <3>1. ToSet(recs) \subseteq Records
      BY ToSetSteps
    <3> QED
      BY <3>1 DEF Having
  <2>2. Among({r \in ToSet(recs) : name \in DOMAIN r}, recs) = Among(Having(name), recs)
    BY <2>1, AmongAgree
  <2> QED
    BY <1>1, <2>2 DEF Means, Each, MeansOf, MeansAmong
<1>4. UNION {DOMAIN r : r \in ToSet(recs)} = {n \in STRING : MeansOf(schema, played, n) # <<>>}
  <2>0. ToSet(recs) \subseteq Records
    BY ToSetSteps
  <2>1. ASSUME NEW name
        PROVE  MeansOf(schema, played, name) = <<>> <=> Having(name) \cap ToSet(recs) = {}
    <3>1. PICK found \in Seq(Records) : found = Among(Having(name), recs)
      <4>1. \A u \in Seq(Records) : Among(Having(name), u) \in Seq(Records)
        BY AmongSteps
      <4> QED
        BY <4>1
    <3>2. found = <<>> <=> Having(name) \cap ToSet(recs) = {}
      BY <3>1, AmongEmpty
    <3>3. MeansAmong(found, name) = <<>> <=> found = <<>>
      <4>1. DOMAIN MeansAmong(found, name) = DOMAIN found
        BY MeansAmongSteps
      <4>2. found = <<>> <=> DOMAIN found = {}
        OBVIOUS
      <4>3. CASE found = <<>>
        BY <4>3, MeansAmongSteps
      <4>4. CASE found # <<>>
        BY <4>1, <4>2, <4>4
      <4> QED
        BY <4>3, <4>4
    <3> QED
      BY <1>1, <3>1, <3>2, <3>3 DEF MeansOf
  <2>2. ASSUME NEW name
        PROVE  name \in UNION {DOMAIN r : r \in ToSet(recs)} <=> Having(name) \cap ToSet(recs) # {}
    BY <2>0 DEF Having
  <2>3. \A R \in Records : DOMAIN R \subseteq STRING
    BY RecordsType
  <2>4. UNION {DOMAIN r : r \in ToSet(recs)} \subseteq STRING
    BY <2>0, <2>3
  <2> QED
    BY <2>1, <2>2, <2>4
<1>5. SummarizeTeam(schema, played)
        = [name \in UNION {DOMAIN r : r \in ToSet(recs)} |-> Stat(Means(recs, name))]
  BY <1>2 DEF SummarizeTeam, Stat
<1>6. SummarizeTeam(schema, played)
        = [name \in {n \in STRING : MeansOf(schema, played, n) # <<>>} |->
             Stat(MeansOf(schema, played, name))]
  BY <1>3, <1>4, <1>5
<1> QED
  BY <1>1, <1>3, <1>4, <1>6

-----------------------------------------------------------------------------
(* From rows to the means of a team.                                       *)

AreMatches(Ms) == \A m \in Ms : IsMatchRow(m)

AreReports(reports) ==
  reports \in Seq(ToSet(reports)) /\ \A r \in ToSet(reports) : IsReportRow(r)

SeatsOf(match, team) ==
  Among({seat \in DOMAIN Seats(match) : Seats(match)[seat] = team},
        [seat \in DOMAIN Seats(match) |-> seat])

PlayAt(match, seat, reports, team) ==
  [position |-> RobotPosition(match, seat),
   breakdown |-> Breakdown(match, seat),
   reports |-> ReportsOn(reports, team, match.key)]

Plays(Ms, reports, team) ==
  UNION {{PlayAt(m, seat, reports, team) : seat \in DOMAIN Seats(m)} : m \in Ms}

MatchMeans(schema, match, reports, team, name) ==
  MeansOf(schema, MatchOf(match, reports, team), name)

TeamMeans(schema, matches, reports, team, name) ==
  MeansOf(schema, SelectTeamMatches(matches, reports, team), name)

\* What the reports of a robot in a match are.
OnMatch(reports, team, key) == {r \in ToSet(reports) : r.team = team /\ r.match = key}

\* The reports on a team in a match are data, and none only if there are none.
LEMMA ReportsOnType ==
    ASSUME NEW reports, AreReports(reports), NEW team, NEW key
    PROVE  /\ ReportsOn(reports, team, key) \in Seq(Data)
           /\ ReportsOn(reports, team, key) = <<>> <=> OnMatch(reports, team, key) = {}
<1> DEFINE kept == OnMatch(reports, team, key)
           found == Among(kept, reports)
           X == ToSet(reports)
<1>0. reports \in Seq(X) /\ \A r \in X : r.data \in Data
  BY DEF AreReports, IsReportRow, Data
<1>1. found \in Seq(X)
  <2>1. AmongFollows(kept, X)
    BY AmongFollow
  <2> QED
    BY <1>0, <2>1 DEF AmongFollows
<1>2. found = <<>> <=> kept = {}
  <2>1. found = <<>> <=> kept \cap ToSet(reports) = {}
    BY <1>0, AmongEmpty
  <2>2. kept \cap ToSet(reports) = kept
    BY DEF OnMatch
  <2> QED
    BY <2>1, <2>2
<1>3. ReportsOn(reports, team, key) = [i \in DOMAIN found |-> found[i].data]
  BY DEF ReportsOn, Each, OnMatch
<1> HIDE DEF found, kept, X
<1>4. \A i \in DOMAIN found : found[i].data \in Data
  BY <1>0, <1>1
<1>5. PICK g : g = [i \in DOMAIN found |-> found[i].data]
  OBVIOUS
<1>6. IsMap(g, found, Data)
  BY <1>4, <1>5 DEF IsMap
<1>7. g \in Seq(Data) /\ Len(g) = Len(found) /\ DOMAIN g = DOMAIN found
  BY <1>1, <1>6, MapType
<1>8. g = <<>> <=> found = <<>>
  BY <1>1, <1>7
<1> QED
  BY <1>2, <1>3, <1>5, <1>7, <1>8 DEF kept

\* The seats that a team has in a match.
LEMMA SeatsOfType ==
    ASSUME NEW match, IsMatchRow(match), NEW team
    PROVE  /\ Seats(match) \in Seq(STRING)
           /\ SeatsOf(match, team) \in Seq(DOMAIN Seats(match))
           /\ ToSet(SeatsOf(match, team)) = {seat \in DOMAIN Seats(match) : Seats(match)[seat] = team}
<1>1. Seats(match) \in Seq(STRING)
  BY DEF IsMatchRow, Seats
<1> DEFINE X == DOMAIN Seats(match)
           ids == [seat \in X |-> seat]
           kept == {seat \in DOMAIN Seats(match) : Seats(match)[seat] = team}
<1>2. X = 1 .. Len(Seats(match)) /\ Len(Seats(match)) \in Nat
  BY <1>1
<1>3. ids \in Seq(X) /\ ToSet(ids) = X
  <2>1. IsMap(ids, Seats(match), X)
    BY DEF IsMap
  <2>2. ids \in Seq(X)
    <3> HIDE DEF ids, X
    <3> QED
      BY <1>1, <2>1, MapType
  <2> QED
    BY <2>2 DEF ToSet
<1>4. Among(kept, ids) \in Seq(X) /\ ToSet(Among(kept, ids)) = kept
  <2>1. AmongFollows(kept, X)
    BY AmongFollow
  <2>2. ToSet(Among(kept, ids)) = kept \cap ToSet(ids)
    <3> HIDE DEF X, ids, kept
    <3> QED
      BY <1>3, AmongSet
  <2>3. kept \subseteq X
    OBVIOUS
  <2> HIDE DEF kept, ids
  <2> QED
    BY <1>3, <2>1, <2>2, <2>3 DEF AmongFollows
<1> QED
  BY <1>1, <1>4 DEF SeatsOf

\* A team plays a match once for each of its seats, with rows of the right type.
LEMMA PlaysType ==
    ASSUME NEW Ms, AreMatches(Ms), NEW reports, AreReports(reports), NEW team
    PROVE  /\ AreTeamMatches(Plays(Ms, reports, team))
           /\ \A m \in Ms :
                /\ MatchOf(m, reports, team) \in Seq(Plays(Ms, reports, team))
                /\ Len(MatchOf(m, reports, team)) = Len(SeatsOf(m, team))
                /\ MatchOf(m, reports, team)
                     = [i \in DOMAIN SeatsOf(m, team) |->
                          PlayAt(m, SeatsOf(m, team)[i], reports, team)]
<1>1. ASSUME NEW m \in Ms, NEW seat \in DOMAIN Seats(m)
      PROVE  IsTeamMatch(PlayAt(m, seat, reports, team))
  <2>1. ReportsOn(reports, team, m.key) \in Seq(Data)
    BY ReportsOnType
  <2>2. IsBreakdown(Breakdown(m, seat))
    BY DEF AreMatches, IsMatchRow, Breakdown
  <2> QED
    BY <2>1, <2>2 DEF IsTeamMatch, PlayAt
<1>2. ASSUME NEW m \in Ms
      PROVE  /\ MatchOf(m, reports, team) \in Seq(Plays(Ms, reports, team))
             /\ Len(MatchOf(m, reports, team)) = Len(SeatsOf(m, team))
             /\ MatchOf(m, reports, team)
                  = [i \in DOMAIN SeatsOf(m, team) |->
                       PlayAt(m, SeatsOf(m, team)[i], reports, team)]
  <2>0. IsMatchRow(m)
    BY DEF AreMatches
  <2>1. PICK seats \in Seq(DOMAIN Seats(m)) : seats = SeatsOf(m, team)
    BY <2>0, SeatsOfType
  <2>2. PICK g : g = [i \in DOMAIN seats |-> PlayAt(m, seats[i], reports, team)]
    OBVIOUS
  <2>3. MatchOf(m, reports, team) = g
    BY <2>1, <2>2 DEF MatchOf, Each, SeatsOf, PlayAt
  <2>4. \A i \in DOMAIN seats : PlayAt(m, seats[i], reports, team) \in Plays(Ms, reports, team)
    <3>1. \A i \in DOMAIN seats : seats[i] \in DOMAIN Seats(m)
      OBVIOUS
    <3> QED
      BY <3>1 DEF Plays
  <2>5. IsMap(g, seats, Plays(Ms, reports, team))
    BY <2>2, <2>4 DEF IsMap
  <2>6. g \in Seq(Plays(Ms, reports, team)) /\ Len(g) = Len(seats)
    BY <2>5, MapType
  <2> QED
    BY <2>1, <2>2, <2>3, <2>6
<1> QED
  BY <1>1, <1>2 DEF AreTeamMatches, Plays

TeamMeansFollow(schema, Ms, reports, team, name) ==
  /\ TeamMeans(schema, <<>>, reports, team, name) = <<>>
  /\ \A m \in Ms : MatchMeans(schema, m, reports, team, name) \in Seq(Int)
  /\ \A ms \in Seq(Ms) : TeamMeans(schema, ms, reports, team, name) \in Seq(Int)
  /\ \A ms \in Seq(Ms), m \in Ms :
       TeamMeans(schema, Append(ms, m), reports, team, name)
         = TeamMeans(schema, ms, reports, team, name) \o MatchMeans(schema, m, reports, team, name)

\* A team's matches are put together from the rows of the matches, one after the other.
PlayedFollow(Ms, reports, team) ==
  /\ SelectTeamMatches(<<>>, reports, team) = <<>>
  /\ \A ms \in Seq(Ms) :
       SelectTeamMatches(ms, reports, team) \in Seq(Plays(Ms, reports, team))
  /\ \A ms \in Seq(Ms), m \in Ms :
       SelectTeamMatches(Append(ms, m), reports, team)
         = SelectTeamMatches(ms, reports, team) \o MatchOf(m, reports, team)

\* The matches of a team, row by row.
LEMMA PlayedSteps ==
    ASSUME NEW Ms, AreMatches(Ms), NEW reports, AreReports(reports), NEW team
    PROVE  PlayedFollow(Ms, reports, team)
<1> DEFINE V == Plays(Ms, reports, team)
           All(ms) == [i \in DOMAIN ms |-> MatchOf(ms[i], reports, team)]
<1>f. /\ FlattenSeq(<<>>) = <<>>
      /\ \A ss \in Seq(Seq(V)) : FlattenSeq(ss) \in Seq(V)
      /\ \A ss \in Seq(Seq(V)), t \in Seq(V) : FlattenSeq(Append(ss, t)) = FlattenSeq(ss) \o t
  BY FlattenSteps
<1>0. \A m \in Ms : MatchOf(m, reports, team) \in Seq(V)
  BY PlaysType
<1>1. \A ms : SelectTeamMatches(ms, reports, team) = FlattenSeq(All(ms))
  BY DEF SelectTeamMatches, Each
<1> HIDE DEF V
<1>2. ASSUME NEW ms \in Seq(Ms) PROVE All(ms) \in Seq(Seq(V))
  <2>1. \A i \in DOMAIN ms : MatchOf(ms[i], reports, team) \in Seq(V)
    BY <1>0
  <2>2. IsMap(All(ms), ms, Seq(V))
    BY <2>1 DEF IsMap
  <2> HIDE DEF All
  <2> QED
    BY <2>2, MapType
<1>3. ASSUME NEW ms \in Seq(Ms), NEW m \in Ms
      PROVE  All(Append(ms, m)) = Append(All(ms), MatchOf(m, reports, team))
  OBVIOUS
<1>4. All(<<>>) = <<>>
  OBVIOUS
<1> HIDE DEF All
<1>5. SelectTeamMatches(<<>>, reports, team) = <<>>
  BY <1>1, <1>4, <1>f
<1>6. ASSUME NEW ms \in Seq(Ms) PROVE SelectTeamMatches(ms, reports, team) \in Seq(V)
  BY <1>1, <1>2, <1>f
<1>7. ASSUME NEW ms \in Seq(Ms), NEW m \in Ms
      PROVE  SelectTeamMatches(Append(ms, m), reports, team)
               = SelectTeamMatches(ms, reports, team) \o MatchOf(m, reports, team)
  <2>1. All(ms) \in Seq(Seq(V)) /\ MatchOf(m, reports, team) \in Seq(V)
    BY <1>0, <1>2
  <2>2. FlattenSeq(Append(All(ms), MatchOf(m, reports, team)))
          = FlattenSeq(All(ms)) \o MatchOf(m, reports, team)
    BY <1>f, <2>1
  <2> QED
    BY <1>1, <1>3, <2>2
<1> QED
  BY <1>5, <1>6, <1>7 DEF PlayedFollow, V

\* The means of a team, row by row.
LEMMA TeamMeansSteps ==
    ASSUME NEW schema \in Seq(Fields), NEW Ms, AreMatches(Ms),
           NEW reports, AreReports(reports), NEW team, NEW name
    PROVE  TeamMeansFollow(schema, Ms, reports, team, name)
<1> DEFINE V == Plays(Ms, reports, team)
           F == [played \in Seq(V) |-> MeansOf(schema, played, name)]
<1>0. AreTeamMatches(V) /\ \A m \in Ms : MatchOf(m, reports, team) \in Seq(V)
  BY PlaysType
<1>p. PlayedFollow(Ms, reports, team)
  BY PlayedSteps
<1>1. /\ SelectTeamMatches(<<>>, reports, team) = <<>>
      /\ \A ms \in Seq(Ms) : SelectTeamMatches(ms, reports, team) \in Seq(V)
      /\ \A ms \in Seq(Ms), m \in Ms :
           SelectTeamMatches(Append(ms, m), reports, team)
             = SelectTeamMatches(ms, reports, team) \o MatchOf(m, reports, team)
  BY <1>p DEF PlayedFollow
<1> HIDE DEF V
<1>2. /\ \A played \in Seq(V) : MeansOf(schema, played, name) \in Seq(Int)
      /\ IsAdditive(F, V, Int)
  BY <1>0, MeansType
<1>3. MeansOf(schema, <<>>, name) = <<>>
  <2>1. MeansFollow(schema, V, name)
    BY <1>0, MeansSteps
  <2> QED
    BY <2>1 DEF MeansFollow
<1>4. \A s, t \in Seq(V) : MeansOf(schema, s \o t, name) = MeansOf(schema, s, name) \o MeansOf(schema, t, name)
  <2>1. Distributes(F, V)
    <3> HIDE DEF F
    <3> QED
      BY <1>2, AdditiveConcat
  <2>2. \A s, t \in Seq(V) : s \o t \in Seq(V)
    OBVIOUS
  <2> QED
    BY <2>1, <2>2 DEF Distributes
<1> HIDE DEF F
<1> QED
  BY <1>0, <1>1, <1>2, <1>3, <1>4 DEF TeamMeansFollow, TeamMeans, MatchMeans

TeamStats(schema, matches, reports, team) ==
  [name \in {n \in STRING : TeamMeans(schema, matches, reports, team, n) # <<>>} |->
     Stat(TeamMeans(schema, matches, reports, team, name))]

\* The statistics of a team at an event.
LEMMA TeamStatsAre ==
    ASSUME NEW schema \in Seq(Fields), NEW Ms, AreMatches(Ms),
           NEW reports, AreReports(reports), NEW team, NEW matches \in Seq(Ms)
    PROVE  SummarizeTeam(schema, SelectTeamMatches(matches, reports, team))
             = TeamStats(schema, matches, reports, team)
<1>1. AreTeamMatches(Plays(Ms, reports, team))
  BY PlaysType
<1>2. SelectTeamMatches(matches, reports, team) \in Seq(Plays(Ms, reports, team))
  BY PlayedSteps DEF PlayedFollow
<1> QED
  BY <1>1, <1>2, SummarizeTeamIs DEF TeamMeans, TeamStats

-----------------------------------------------------------------------------
(* The handlers.                                                           *)

IsInput(in) ==
  /\ DOMAIN in = {"event", "viewer", "matches", "reports"}
  /\ in.matches \in Seq(ToSet(in.matches)) /\ AreMatches(ToSet(in.matches))
  /\ AreReports(in.reports)
  /\ in.event.schema \in {None} \cup Seq(Fields)

\* The assumption on the inputs, by a name.
LEMMA InputType ==
    ASSUME NEW in \in Inputs
    PROVE  IsInput(in)
BY InputsAssumption DEF IsInput, AreMatches, AreReports

\* The visible reports are some of the reports.
LEMMA VisibleType ==
    ASSUME NEW in, IsInput(in)
    PROVE  AreReports(VisibleReports(in)) /\ ToSet(VisibleReports(in)) \subseteq ToSet(in.reports)
<1> DEFINE X == ToSet(in.reports)
           kept == {r \in ToSet(in.reports) : r.realm \in (Sharing \cup {in.viewer}) \ {None}}
<1>1. in.reports \in Seq(X) /\ \A r \in X : IsReportRow(r)
  BY DEF IsInput, AreReports
<1>2. VisibleReports(in) = Among(kept, in.reports)
  BY DEF VisibleReports
<1> HIDE DEF X, kept
<1>3. Among(kept, in.reports) \in Seq(X)
  BY <1>1, AmongFollow DEF AmongFollows
<1>4. PICK s \in Seq(X) : s = Among(kept, in.reports)
  BY <1>3
<1>5. ToSet(s) \subseteq X /\ s \in Seq(ToSet(s))
  BY ToSetSteps
<1> QED
  BY <1>1, <1>2, <1>4, <1>5 DEF AreReports, X

NoneInvalid(schema) == \A field \in ToSet(schema) : ~Invalid(field)

\* When a handler answers with stats, and with which.
LEMMA AnswerIs ==
    ASSUME NEW to, NEW schema, NEW matches, NEW reports, NEW teams
    PROVE  LET a == Answer(to, schema, matches, reports, teams)
           IN /\ a.to = to
              /\ a.status = "200" <=> /\ ~Panics(matches)
                                      /\ NoneInvalid(schema) \/ teams \cap Teams(matches) = {}
              /\ a.status = "200" =>
                   a.stats = [team \in teams |->
                                SummarizeTeam(schema, SelectTeamMatches(matches, reports, team))]
BY DEF Answer, Respond, NoneInvalid

EventAnswered(in) ==
  /\ VisibleEvent(in) /\ in.event.schema \in Seq(Fields) /\ in.event.schema # None
  /\ ~Panics(in.matches)
  /\ NoneInvalid(in.event.schema) \/ Teams(in.matches) = {}

\* When the event endpoint answers with stats, and with which (server/stats.go:14-80).
LEMMA EventAnswerIs ==
    ASSUME NEW in, IsInput(in)
    PROVE  /\ EventAnswer(in).to = <<>>
           /\ EventAnswer(in).status = "200" <=> EventAnswered(in)
           /\ EventAnswered(in) =>
                EventAnswer(in)
                  = Respond(<<>>, "200",
                      [team \in Teams(in.matches) |->
                         SummarizeTeam(in.event.schema,
                                       SelectTeamMatches(in.matches, VisibleReports(in), team))])
<1>1. in.event.schema # None => in.event.schema \in Seq(Fields)
  BY DEF IsInput
<1>2. Teams(in.matches) \cap Teams(in.matches) = Teams(in.matches)
  OBVIOUS
<1> QED
  BY <1>1, <1>2 DEF EventAnswer, EventAnswered, Answer, Respond, NoneInvalid

MatchAnswered(in, key, team) ==
  /\ VisibleEvent(in) /\ in.event.schema \in Seq(Fields) /\ in.event.schema # None
  /\ MatchInfo(in, key) # <<>> /\ ~Panics(MatchInfo(in, key))
  /\ NoneInvalid(in.event.schema) \/ team \notin Teams(MatchInfo(in, key))

\* When the match endpoint answers with stats, and with which (server/stats.go:83-151).
LEMMA MatchAnswerIs ==
    ASSUME NEW in, IsInput(in), NEW key, NEW team
    PROVE  /\ MatchAnswer(in, key, team).to = <<key, team>>
           /\ MatchAnswer(in, key, team).status = "200" <=> MatchAnswered(in, key, team)
           /\ MatchAnswered(in, key, team) =>
                MatchAnswer(in, key, team)
                  = Respond(<<key, team>>, "200",
                      [t \in {team} |->
                         SummarizeTeam(in.event.schema,
                                       SelectTeamMatches(MatchInfo(in, key), VisibleReports(in), t))])
<1>1. in.event.schema # None => in.event.schema \in Seq(Fields)
  BY DEF IsInput
<1>2. {team} \cap Teams(MatchInfo(in, key)) = {} <=> team \notin Teams(MatchInfo(in, key))
  OBVIOUS
<1> QED
  BY <1>1, <1>2 DEF MatchAnswer, MatchAnswered, Answer, Respond, NoneInvalid

\* Every answer is that of one of the handlers to the rows.
Explained ==
  /\ input \in Inputs
  /\ \/ answer = None
     \/ answer = EventAnswer(input)
     \/ \E key, team : answer = MatchAnswer(input, key, team)

\* Every answer is the answer to a request about the rows (the inductive invariant).
LEMMA ExplainedAlways == Spec => []Explained
<1>1. Init => Explained
  BY DEF Init, Explained
<1>2. Explained /\ [Next]_vars => Explained'
  <2> SUFFICES ASSUME Explained, [Next]_vars PROVE Explained'
    OBVIOUS
  <2>1. CASE EventStats
    BY <2>1 DEF EventStats, Explained
  <2>2. ASSUME NEW key \in AskedKeys, NEW team \in AskedTeams, MatchTeamStats(key, team)
        PROVE  Explained'
    BY <2>2 DEF MatchTeamStats, Explained
  <2>3. CASE UNCHANGED vars
    BY <2>3 DEF vars, Explained
  <2> QED
    BY <2>1, <2>2, <2>3 DEF Next
<1> QED
  BY <1>1, <1>2, PTL DEF Spec

\* What there is when the stats of an event were answered.
LEMMA ForEventIs ==
    ASSUME Explained, ForEvent
    PROVE  IsInput(input) /\ answer = EventAnswer(input) /\ EventAnswered(input)
<1>1. IsInput(input)
  BY InputType DEF Explained
<1>2. \A key, team : MatchAnswer(input, key, team).to # <<>>
  <2> SUFFICES ASSUME NEW key, NEW team PROVE MatchAnswer(input, key, team).to # <<>>
    OBVIOUS
  <2>1. MatchAnswer(input, key, team).to = <<key, team>>
    BY <1>1, MatchAnswerIs
  <2> QED
    BY <2>1
<1>3. answer = EventAnswer(input)
  BY <1>2 DEF Explained, ForEvent, Answered
<1> QED
  BY <1>1, <1>3, EventAnswerIs DEF ForEvent, Answered

\* What there is when the stats of a team in a match were answered.
LEMMA ForMatchIs ==
    ASSUME Explained, ForMatch
    PROVE  /\ IsInput(input)
           /\ \E key, team : /\ answer = MatchAnswer(input, key, team)
                             /\ answer.to = <<key, team>>
                             /\ MatchAnswered(input, key, team)
<1>1. IsInput(input)
  BY InputType DEF Explained
<1>2. EventAnswer(input).to = <<>>
  BY <1>1, EventAnswerIs
<1>3. PICK key, team : answer = MatchAnswer(input, key, team)
  BY <1>2 DEF Explained, ForMatch, Answered
<1>4. /\ answer.to = <<key, team>>
      /\ answer.status = "200" <=> MatchAnswered(input, key, team)
  BY <1>1, <1>3, MatchAnswerIs
<1> QED
  BY <1>1, <1>3, <1>4 DEF ForMatch, Answered

-----------------------------------------------------------------------------
(* Matches that nobody scouted.                                            *)

Unscouted(match) == match.reports = <<>> /\ match.breakdown = <<>>

\* A valid field records nothing of a match that was not scouted, if nothing is recorded yet.
LEMMA FieldOfUnscouted ==
    ASSUME NEW field \in Fields, ~Invalid(field), NEW match, Unscouted(match)
    PROVE  SummarizeField(field, match, <<>>) = <<>>
<1>0. \A name : RecordsOf(<<>>, name) = <<>>
  BY DEF RecordsOf
<1>1. CASE field.report # None
  BY <1>1 DEF SummarizeField, SummarizeReportReference, Unscouted
<1>2. CASE field.report = None /\ field.tba # None
  <2>1. DOMAIN match.breakdown = {}
    BY DEF Unscouted
  <2> QED
    BY <1>2, <2>1 DEF SummarizeField, SummarizeTBAReference
<1>3. CASE field.report = None /\ field.tba = None /\ field.sum # <<>>
  <2>1. field.sum \in Seq(STRING)
    BY DEF Fields
  <2>2. 1 \in DOMAIN field.sum
    BY <1>3, <2>1
  <2>3. field.sum[1] \in ToSet(field.sum)
    BY <2>2 DEF ToSet
  <2> QED
    BY <1>0, <1>3, <2>3 DEF SummarizeField, SummarizeSum
<1>4. CASE field.report = None /\ field.tba = None /\ field.sum = <<>>
  <2> DEFINE I == 1 .. Len(field.anyOf)
  <2>1. field.anyOf # <<>> /\ Len(field.anyOf) \in Nat \ {0}
    <3>1. field.anyOf # <<>> /\ field.anyOf \in Seq([name : STRING, equals : Values])
      BY <1>4 DEF Invalid, Fields
    <3> QED
      BY <3>1
  <2>2. I # {} /\ Min(I) = 1
    <3>1. 1 \in I /\ \A y \in I : 1 <= y /\ y \in Int
      BY <2>1
    <3>2. \A x \in I : (\A y \in I : x <= y) => x = 1
      BY <3>1
    <3> HIDE DEF I
    <3> QED
      BY <3>1, <3>2 DEF Min
  <2>3. ToSet(<<>>) = {}
    BY ToSetSteps
  <2>4. SummarizeAnyOf(field, <<>>) = <<>>
    <3>1. Deciding(field, <<>>) = I
      BY <1>0 DEF Deciding
    <3>2. ~FoundIn(<<>>, field.anyOf[1])
      BY <1>0, <2>3 DEF FoundIn
    <3> HIDE DEF I
    <3> QED
      BY <2>2, <3>1, <3>2, AnyOfIs
  <2> QED
    BY <1>4, <2>4 DEF SummarizeField
<1> QED
  BY <1>1, <1>2, <1>3, <1>4

\* So no field of a valid schema does.
LEMMA UnscoutedHasNoRecords ==
    ASSUME NEW match, IsTeamMatch(match), Unscouted(match)
    PROVE  \A schema \in Seq(Fields) : NoneInvalid(schema) => SummarizeMatch(schema, match) = <<>>
<1> DEFINE S == {s \in Seq(Fields) : NoneInvalid(s) => SummarizeMatch(s, match) = <<>>}
<1>s. /\ SummarizeMatch(<<>>, match) = <<>>
      /\ \A s \in Seq(Fields), field \in Fields :
           SummarizeMatch(Append(s, field), match)
             = SummarizeField(field, match, SummarizeMatch(s, match))
  BY SummarizeMatchSteps
<1>1. <<>> \in S
  <2>1. <<>> \in Seq(Fields)
    OBVIOUS
  <2> QED
    BY <1>s, <2>1
<1>2. ASSUME NEW s \in Seq(Fields), NEW field \in Fields, s \in S PROVE Append(s, field) \in S
  <2>0. Append(s, field) \in Seq(Fields) /\ ToSet(Append(s, field)) = ToSet(s) \cup {field}
    BY ToSetSteps
  <2>1. ASSUME NoneInvalid(Append(s, field)) PROVE SummarizeMatch(Append(s, field), match) = <<>>
    <3>1. NoneInvalid(s) /\ ~Invalid(field)
      BY <2>0, <2>1 DEF NoneInvalid
    <3>2. SummarizeMatch(s, match) = <<>>
      BY <1>2, <3>1
    <3> QED
      BY <1>s, <3>1, <3>2, FieldOfUnscouted
  <2> QED
    BY <2>0, <2>1
<1>3. Seq(Fields) \subseteq S
  <2> HIDE DEF S
  <2> QED
    BY <1>1, <1>2, SeqInduction
<1> QED
  BY <1>3

\* And a team has no means of such matches.
LEMMA NoMeansOfUnscouted ==
    ASSUME NEW M, AreTeamMatches(M), \A m \in M : Unscouted(m),
           NEW schema \in Seq(Fields), NoneInvalid(schema), NEW name
    PROVE  \A played \in Seq(M) : MeansOf(schema, played, name) = <<>>
<1> DEFINE S == {played \in Seq(M) : MeansOf(schema, played, name) = <<>>}
<1>f. MeansFollow(schema, M, name)
  BY MeansSteps
<1>1. <<>> \in S
  <2>1. <<>> \in Seq(M)
    OBVIOUS
  <2> QED
    BY <1>f, <2>1 DEF MeansFollow
<1>2. ASSUME NEW played \in Seq(M), NEW m \in M, played \in S PROVE Append(played, m) \in S
  <2>1. Append(played, m) \in Seq(M)
    OBVIOUS
  <2>2. SummarizeMatch(schema, m) = <<>>
    BY UnscoutedHasNoRecords DEF AreTeamMatches
  <2>3. name \notin DOMAIN SummarizeMatch(schema, m)
    BY <2>2
  <2> QED
    BY <1>2, <1>f, <2>1, <2>3 DEF MeansFollow
<1>3. Seq(M) \subseteq S
  <2> HIDE DEF S
  <2> QED
    BY <1>1, <1>2, SeqInduction
<1> QED
  BY <1>3

\* Leaving out matches without means changes no means.
LEMMA OthersDoNotCount ==
    ASSUME NEW schema \in Seq(Fields), NEW Ms, AreMatches(Ms),
           NEW reports, AreReports(reports), NEW team, NEW name, NEW kept,
           \A m \in Ms : m \in kept \/ MatchMeans(schema, m, reports, team, name) = <<>>
    PROVE  \A ms \in Seq(Ms) : TeamMeans(schema, ms, reports, team, name)
                                 = TeamMeans(schema, Among(kept, ms), reports, team, name)
<1> DEFINE Ok(ms) == TeamMeans(schema, ms, reports, team, name)
                       = TeamMeans(schema, Among(kept, ms), reports, team, name)
           S == {ms \in Seq(Ms) : Ok(ms)}
<1>f. TeamMeansFollow(schema, Ms, reports, team, name) /\ AmongFollows(kept, Ms)
  BY TeamMeansSteps, AmongFollow
<1>1. <<>> \in S
  <2>1. <<>> \in Seq(Ms)
    OBVIOUS
  <2> QED
    BY <1>f, <2>1 DEF TeamMeansFollow, AmongFollows
<1>2. ASSUME NEW ms \in Seq(Ms), NEW m \in Ms, ms \in S PROVE Append(ms, m) \in S
  <2>1. Append(ms, m) \in Seq(Ms)
    OBVIOUS
  <2>2. PICK found \in Seq(Ms) : found = Among(kept, ms)
    BY <1>f DEF AmongFollows
  <2>3. Among(kept, Append(ms, m)) = IF m \in kept THEN Append(found, m) ELSE found
    BY <1>f, <2>2 DEF AmongFollows
  <2>4. /\ TeamMeans(schema, Append(ms, m), reports, team, name)
             = TeamMeans(schema, ms, reports, team, name) \o MatchMeans(schema, m, reports, team, name)
        /\ TeamMeans(schema, Append(found, m), reports, team, name)
             = TeamMeans(schema, found, reports, team, name) \o MatchMeans(schema, m, reports, team, name)
        /\ TeamMeans(schema, ms, reports, team, name) \in Seq(Int)
    BY <1>f DEF TeamMeansFollow
  <2>5. \A s \in Seq(Int) : s \o <<>> = s
    OBVIOUS
  <2>6. Ok(ms)
    BY <1>2
  <2>7. Ok(Append(ms, m))
    BY <2>2, <2>3, <2>4, <2>5, <2>6
  <2> QED
    BY <2>1, <2>7
<1>3. Seq(Ms) \subseteq S
  <2> HIDE DEF S
  <2> QED
    BY <1>1, <1>2, SeqInduction
<1> QED
  BY <1>3

\* A match that has neither a breakdown nor a report has nothing to say of any team.
LEMMA UnknownHasNoMeans ==
    ASSUME NEW schema \in Seq(Fields), NoneInvalid(schema),
           NEW m, IsMatchRow(m), NEW reports, AreReports(reports), NEW team, NEW name,
           m.redBreakdown = <<>>, m.blueBreakdown = <<>>,
           \A r \in ToSet(reports) : r.match # m.key
    PROVE  MatchMeans(schema, m, reports, team, name) = <<>>
<1> DEFINE V == Plays({m}, reports, team)
<1>0. AreMatches({m})
  BY DEF AreMatches
<1>1. AreTeamMatches(V) /\ MatchOf(m, reports, team) \in Seq(V)
  BY <1>0, PlaysType
<1>2. \A p \in V : Unscouted(p)
  <2> SUFFICES ASSUME NEW seat \in DOMAIN Seats(m) PROVE Unscouted(PlayAt(m, seat, reports, team))
    BY DEF Plays
  <2>1. OnMatch(reports, team, m.key) = {}
    BY DEF OnMatch
  <2>2. ReportsOn(reports, team, m.key) = <<>>
    BY <2>1, ReportsOnType
  <2> QED
    BY <2>2 DEF Unscouted, PlayAt, Breakdown
<1>3. \A played \in Seq(V) : MeansOf(schema, played, name) = <<>>
  <2> HIDE DEF V
  <2> QED
    BY <1>1, <1>2, NoMeansOfUnscouted
<1> QED
  BY <1>1, <1>3 DEF MatchMeans

\* A team that has no seat in a match has no means of it, and none if it is in no match.
LEMMA AbsentFromMatch ==
    ASSUME NEW schema \in Seq(Fields), NEW m, IsMatchRow(m), NEW reports, AreReports(reports),
           NEW team, team \notin ToSet(Seats(m)), NEW name
    PROVE  MatchMeans(schema, m, reports, team, name) = <<>>
<1>1. SeatsOf(m, team) = <<>>
  <2>1. ToSet(SeatsOf(m, team)) = {}
    <3>1. \A seat \in DOMAIN Seats(m) : Seats(m)[seat] # team
      BY DEF ToSet
    <3> QED
      BY <3>1, SeatsOfType
  <2>2. PICK seats \in Seq(DOMAIN Seats(m)) : seats = SeatsOf(m, team)
    BY SeatsOfType
  <2>3. seats # <<>> => 1 \in DOMAIN seats
    OBVIOUS
  <2>4. seats # <<>> => seats[1] \in ToSet(seats)
    BY <2>3 DEF ToSet
  <2> QED
    BY <2>1, <2>2, <2>4
<1>2. MatchOf(m, reports, team) = <<>>
  <2>1. MatchOf(m, reports, team) = [i \in DOMAIN SeatsOf(m, team) |->
                                       PlayAt(m, SeatsOf(m, team)[i], reports, team)]
    BY DEF MatchOf, Each, SeatsOf, PlayAt
  <2>2. DOMAIN SeatsOf(m, team) = {}
    BY <1>1
  <2> QED
    BY <2>1, <2>2
<1>3. AreMatches({m})
  BY DEF AreMatches
<1>4. MeansFollow(schema, Plays({m}, reports, team), name)
  BY <1>3, PlaysType, MeansSteps
<1> QED
  BY <1>2, <1>4 DEF MeansFollow, MatchMeans

\* The same for all the matches of an event.
LEMMA AbsentHasNoMeans ==
    ASSUME NEW schema \in Seq(Fields), NEW matches, matches \in Seq(ToSet(matches)),
           AreMatches(ToSet(matches)), NEW reports, AreReports(reports),
           NEW team, team \notin Teams(matches), NEW name
    PROVE  TeamMeans(schema, matches, reports, team, name) = <<>>
<1> DEFINE Ms == ToSet(matches)
<1>1. ASSUME NEW m \in Ms PROVE MatchMeans(schema, m, reports, team, name) = <<>>
  <2>1. IsMatchRow(m) /\ team \notin ToSet(Seats(m))
    BY DEF AreMatches, Teams
  <2> QED
    BY <2>1, AbsentFromMatch
<1>2. \A ms \in Seq(Ms) : TeamMeans(schema, ms, reports, team, name)
                            = TeamMeans(schema, Among({}, ms), reports, team, name)
  <2> HIDE DEF Ms
  <2> QED
    BY <1>1, OthersDoNotCount DEF Ms
<1>3. Among({}, matches) = <<>>
  <2>1. Among({}, matches) = <<>> <=> {} \cap ToSet(matches) = {}
    BY AmongEmpty
  <2> QED
    BY <2>1
<1>4. TeamMeansFollow(schema, Ms, reports, team, name)
  BY TeamMeansSteps
<1> QED
  BY <1>2, <1>3, <1>4 DEF TeamMeansFollow

\* Leaving such matches out leaves every team's means as they are.
LEMMA UnscoutedStep ==
    ASSUME Explained
    PROVE  UnscoutedMatchesDoNotCount
<1> SUFFICES ASSUME ForEvent PROVE UnscoutedMatchesDoNotCount
  BY DEF UnscoutedMatchesDoNotCount
<1> DEFINE Known(m) == \/ m.redBreakdown # <<>>
                       \/ m.blueBreakdown # <<>>
                       \/ \E r \in ToSet(VisibleReports(input)) : r.match = m.key
           Ms == ToSet(input.matches)
           K == {m \in Ms : Known(m)}
           found == Among(K, input.matches)
           in2 == [input EXCEPT !.matches = found]
           R == VisibleReports(input)
           schema == input.event.schema
<1>1. IsInput(input) /\ answer = EventAnswer(input) /\ EventAnswered(input)
  BY ForEventIs
<1>2. AreReports(R)
  BY <1>1, VisibleType
<1>3. found \in Seq(Ms) /\ ToSet(found) = K \cap Ms /\ found \in Seq(ToSet(found))
  <2>0. input.matches \in Seq(Ms)
    BY <1>1 DEF IsInput
  <2> HIDE DEF Ms, K
  <2>1. found \in Seq(Ms)
    BY <2>0, AmongFollow DEF AmongFollows
  <2>2. ToSet(found) = K \cap ToSet(input.matches)
    BY <2>0, AmongSet
  <2>3. found \in Seq(ToSet(found))
    <3> HIDE DEF found
    <3> QED
      BY <2>1, ToSetSteps
  <2> QED
    BY <2>1, <2>2, <2>3 DEF Ms
<1>4. /\ in2.matches = found /\ in2.reports = input.reports /\ in2.event = input.event
      /\ in2.viewer = input.viewer /\ DOMAIN in2 = DOMAIN input
  BY <1>1 DEF IsInput
<1>5. VisibleReports(in2) = R /\ (VisibleEvent(in2) <=> VisibleEvent(input))
  BY <1>4 DEF VisibleReports, VisibleEvent
<1>6. ToSet(found) \subseteq Ms
  BY <1>3
<1> HIDE DEF found, in2, K
<1>7. IsInput(in2)
  BY <1>1, <1>3, <1>4, <1>6 DEF IsInput, AreMatches
<1>8. Teams(found) \subseteq Teams(input.matches) /\ (Panics(found) => Panics(input.matches))
  BY <1>6 DEF Teams, Panics
<1>9. EventAnswered(in2)
  BY <1>1, <1>4, <1>5, <1>8 DEF EventAnswered
<1>10. /\ answer.stats = [team \in Teams(input.matches) |->
                            SummarizeTeam(schema, SelectTeamMatches(input.matches, R, team))]
       /\ EventAnswer(in2).stats = [team \in Teams(found) |->
                                      SummarizeTeam(schema, SelectTeamMatches(found, R, team))]
  BY <1>1, <1>4, <1>5, <1>7, <1>9, EventAnswerIs DEF Respond
<1>11. ASSUME NEW team \in Teams(input.matches)
       PROVE  /\ answer.stats[team] = SummarizeTeam(schema, SelectTeamMatches(found, R, team))
              /\ team \notin Teams(found) => answer.stats[team] = <<>>
  <2>0. schema \in Seq(Fields) /\ NoneInvalid(schema)
    BY <1>1 DEF EventAnswered
  <2>1. input.matches \in Seq(Ms) /\ AreMatches(Ms)
    BY <1>1 DEF IsInput
  <2>2. ASSUME NEW name
        PROVE  TeamMeans(schema, input.matches, R, team, name) = TeamMeans(schema, found, R, team, name)
    <3>1. \A m \in Ms : m \in K \/ MatchMeans(schema, m, R, team, name) = <<>>
      <4> SUFFICES ASSUME NEW m \in Ms, m \notin K PROVE MatchMeans(schema, m, R, team, name) = <<>>
        OBVIOUS
      <4>1. /\ IsMatchRow(m) /\ m.redBreakdown = <<>> /\ m.blueBreakdown = <<>>
            /\ \A r \in ToSet(R) : r.match # m.key
        BY <2>1 DEF AreMatches, K
      <4> HIDE DEF R, schema, Ms
      <4> QED
        BY <1>2, <2>0, <4>1, UnknownHasNoMeans
    <3> HIDE DEF R, schema, Ms
    <3>2. \A ms \in Seq(Ms) : TeamMeans(schema, ms, R, team, name)
                                = TeamMeans(schema, Among(K, ms), R, team, name)
      BY <1>2, <2>0, <2>1, <3>1, OthersDoNotCount
    <3> QED
      BY <2>1, <3>2 DEF found
  <2> HIDE DEF R, schema, Ms
  <2>3. SummarizeTeam(schema, SelectTeamMatches(input.matches, R, team))
          = TeamStats(schema, input.matches, R, team)
    BY <1>2, <2>0, <2>1, TeamStatsAre
  <2>4. SummarizeTeam(schema, SelectTeamMatches(found, R, team))
          = TeamStats(schema, found, R, team)
    BY <1>2, <1>3, <2>0, <2>1, TeamStatsAre
  <2>5. answer.stats[team] = SummarizeTeam(schema, SelectTeamMatches(found, R, team))
    <3>1. TeamStats(schema, input.matches, R, team) = TeamStats(schema, found, R, team)
      BY <2>2 DEF TeamStats
    <3>2. answer.stats[team] = SummarizeTeam(schema, SelectTeamMatches(input.matches, R, team))
      BY <1>10
    <3> QED
      BY <2>3, <2>4, <3>1, <3>2
  <2>6. ASSUME team \notin Teams(found) PROVE answer.stats[team] = <<>>
    <3>1. AreMatches(ToSet(found))
      BY <1>6, <2>1 DEF AreMatches, Ms
    <3>2. \A n : TeamMeans(schema, found, R, team, n) = <<>>
      BY <1>2, <1>3, <2>0, <2>6, <3>1, AbsentHasNoMeans
    <3>3. {n \in STRING : TeamMeans(schema, found, R, team, n) # <<>>} = {}
      BY <3>2
    <3>4. \A f : f = [name \in {} |-> f[name]] => f = <<>>
      OBVIOUS
    <3> QED
      BY <2>4, <2>5, <3>3, <3>4 DEF TeamStats
  <2> QED
    BY <2>5, <2>6
<1>12. \A team \in DOMAIN answer.stats :
         answer.stats[team] = IF team \in DOMAIN EventAnswer(in2).stats
                              THEN EventAnswer(in2).stats[team] ELSE <<>>
  BY <1>10, <1>11
<1> QED
  BY <1>12 DEF UnscoutedMatchesDoNotCount, in2, found, K

\* Whatever the rows and the schema: a match without a breakdown and without a visible
\* report changes no team's stats when it is left out (summary.go:222).
THEOREM UnscoutedDoNotCount == Spec => []UnscoutedMatchesDoNotCount
BY ExplainedAlways, UnscoutedStep, PTL

-----------------------------------------------------------------------------
(* The order of the reports of a match.                                    *)

Sums(groups) == [i \in DOMAIN groups |-> SumValues(groups[i])]

\* Two sequences of groups that no field can tell apart.
GroupsAlike(g, h) == Len(g) = Len(h) /\ ToSet(g) = ToSet(h) /\ Total(Sums(g)) = Total(Sums(h))

RecordsAlike(R, Q) == DOMAIN R = DOMAIN Q /\ \A n \in DOMAIN R : GroupsAlike(R[n], Q[n])

\* The elements of a concatenation.
LEMMA ConcatIs ==
    ASSUME NEW V, NEW a \in Seq(V), NEW b \in Seq(V), NEW c \in Seq(V),
           Len(c) = Len(a) + Len(b),
           \A i \in 1 .. Len(a) : c[i] = a[i],
           \A i \in 1 .. Len(b) : c[Len(a) + i] = b[i]
    PROVE  c = a \o b
<1>1. ASSUME NEW i \in 1 .. Len(a) + Len(b) PROVE c[i] = (a \o b)[i]
  <2>1. CASE i <= Len(a)
    BY <2>1
  <2>2. CASE i > Len(a)
    <3>1. PICK j \in 1 .. Len(b) : i = Len(a) + j
      <4>1. i - Len(a) \in 1 .. Len(b) /\ i = Len(a) + (i - Len(a))
        BY <2>2
      <4> QED
        BY <4>1
    <3> QED
      BY <3>1
  <2> QED
    BY <2>1, <2>2
<1> QED
  BY <1>1

\* The sums of groups, group by group.
LEMMA SumsSteps ==
    /\ \A g \in Seq(Seq(Values)) :
         /\ Sums(g) \in Seq(Int) /\ Len(Sums(g)) = Len(g)
         /\ Mean(g) = Total(Sums(g)) \div Len(g)
    /\ \A g, h \in Seq(Seq(Values)) : Sums(g \o h) = Sums(g) \o Sums(h)
    /\ Sums(<<>>) = <<>>
<1>1. \A g : Each(g, SumValues) = Sums(g)
  BY DEF Each, Sums
<1>2. ASSUME NEW g \in Seq(Seq(Values))
      PROVE  /\ Sums(g) \in Seq(Int) /\ Len(Sums(g)) = Len(g)
             /\ Mean(g) = Total(Sums(g)) \div Len(g)
  BY <1>1, SumType DEF Mean
<1>3. ASSUME NEW g \in Seq(Seq(Values)), NEW h \in Seq(Seq(Values))
      PROVE  Sums(g \o h) = Sums(g) \o Sums(h)
  <2>1. PICK a \in Seq(Int) : a = Sums(g) /\ Len(a) = Len(g)
    BY <1>2
  <2>2. PICK b \in Seq(Int) : b = Sums(h) /\ Len(b) = Len(h)
    BY <1>2
  <2>3. PICK c \in Seq(Int) : c = Sums(g \o h) /\ Len(c) = Len(g) + Len(h)
    <3> DEFINE U == Seq(Values)
    <3>1. g \o h \in Seq(U) /\ Len(g \o h) = Len(g) + Len(h)
      <4> HIDE DEF U
      <4>1. g \in Seq(U) /\ h \in Seq(U)
        BY DEF U
      <4> QED
        BY <4>1, ConcatType
    <3> QED
      BY <1>2, <3>1
  <2>4. \A i \in 1 .. Len(g) : c[i] = a[i]
    BY <2>1, <2>3 DEF Sums
  <2>5. \A i \in 1 .. Len(h) : c[Len(g) + i] = b[i]
    BY <2>2, <2>3 DEF Sums
  <2>6. c = a \o b
    <3>1. Len(c) = Len(a) + Len(b)
      BY <2>1, <2>2, <2>3
    <3>2. \A i \in 1 .. Len(a) : c[i] = a[i]
      BY <2>1, <2>4
    <3>3. \A i \in 1 .. Len(b) : c[Len(a) + i] = b[i]
      BY <2>1, <2>2, <2>5
    <3> QED
      BY <3>1, <3>2, <3>3, ConcatIs
  <2> QED
    BY <2>1, <2>2, <2>3, <2>6
<1>4. Sums(<<>>) = <<>>
  BY DEF Sums
<1> QED
  BY <1>2, <1>3, <1>4

\* Alike groups have the same mean.
LEMMA GroupsAlikeMean ==
    ASSUME NEW g \in Seq(Seq(Values)), NEW h \in Seq(Seq(Values)), GroupsAlike(g, h)
    PROVE  Mean(g) = Mean(h) /\ (g = <<>> <=> h = <<>>) /\ ToSet(g) = ToSet(h)
BY SumsSteps DEF GroupsAlike

\* Groups may be put before or after alike ones.
LEMMA GroupsAlikeConcat ==
    ASSUME NEW g \in Seq(Seq(Values)), NEW h \in Seq(Seq(Values)), GroupsAlike(g, h),
           NEW a \in Seq(Seq(Values)), NEW b \in Seq(Seq(Values)), GroupsAlike(a, b)
    PROVE  GroupsAlike(g \o a, h \o b)
<1>1. /\ Sums(g \o a) = Sums(g) \o Sums(a) /\ Sums(h \o b) = Sums(h) \o Sums(b)
      /\ Sums(g) \in Seq(Int) /\ Sums(a) \in Seq(Int) /\ Sums(h) \in Seq(Int) /\ Sums(b) \in Seq(Int)
  BY SumsSteps
<1>2. /\ Total(Sums(g \o a)) = Total(Sums(g)) + Total(Sums(a))
      /\ Total(Sums(h \o b)) = Total(Sums(h)) + Total(Sums(b))
  BY <1>1, TotalConcat
<1> DEFINE U == Seq(Values)
<1>3. g \in Seq(U) /\ h \in Seq(U) /\ a \in Seq(U) /\ b \in Seq(U)
  OBVIOUS
<1> HIDE DEF U
<1>4. Len(g \o a) = Len(g) + Len(a) /\ Len(h \o b) = Len(h) + Len(b)
  BY <1>3, ConcatType
<1>5. ToSet(g \o a) = ToSet(g) \cup ToSet(a) /\ ToSet(h \o b) = ToSet(h) \cup ToSet(b)
  BY <1>3, ToSetSteps
<1> QED
  BY <1>2, <1>4, <1>5 DEF GroupsAlike

\* Reports in the reverse order give alike groups.
LEMMA GroupsReversed ==
    ASSUME NEW g \in Seq(Seq(Values))
    PROVE  GroupsAlike(g, Reverse(g))
<1> DEFINE U == Seq(Values)
           F == [s \in Seq(U) |-> Sums(s)]
<1>1. IsAdditive(F, U, Int)
  <2>1. F \in [Seq(U) -> Seq(Int)]
    BY SumsSteps
  <2>2. <<>> \in Seq(U) /\ \A s \in Seq(U), x \in U : Append(s, x) \in Seq(U) /\ <<x>> \in Seq(U)
    OBVIOUS
  <2>3. F[<<>>] = <<>>
    BY <2>2, SumsSteps
  <2>4. ASSUME NEW s \in Seq(U), NEW x \in U PROVE F[Append(s, x)] = F[s] \o F[<<x>>]
    <3>1. Append(s, x) = s \o <<x>>
      OBVIOUS
    <3>2. Sums(s \o <<x>>) = Sums(s) \o Sums(<<x>>)
      BY <2>2, SumsSteps
    <3> QED
      BY <2>2, <3>1, <3>2
  <2> HIDE DEF F
  <2> QED
    BY <2>1, <2>3, <2>4 DEF IsAdditive
<1>2. g \in Seq(U)
  OBVIOUS
<1>3. Alike(F[g], F[Reverse(g)])
  <2> HIDE DEF F, U
  <2> QED
    BY <1>1, <1>2, AdditiveReverse
<1>4. Reverse(g) \in Seq(U) /\ Len(Reverse(g)) = Len(g) /\ ToSet(Reverse(g)) = ToSet(g)
  <2> HIDE DEF U
  <2> QED
    BY <1>2, ReverseSteps, ToSetSteps
<1>5. Alike(Sums(g), Sums(Reverse(g)))
  BY <1>2, <1>3, <1>4
<1> QED
  BY <1>4, <1>5 DEF GroupsAlike, Alike

\* Recording alike groups keeps records alike.
LEMMA RecordAlike ==
    ASSUME NEW R \in Records, NEW Q \in Records, RecordsAlike(R, Q), NEW name \in STRING,
           NEW g \in Groups, NEW h \in Groups, GroupsAlike(g, h)
    PROVE  RecordsAlike(Record(R, name, g), Record(Q, name, h))
<1>1. GroupsAlike(RecordsOf(R, name), RecordsOf(Q, name))
  <2>1. GroupsAlike(<<>>, <<>>)
    BY DEF GroupsAlike
  <2> QED
    BY <2>1 DEF RecordsOf, RecordsAlike
<1>2. /\ RecordsOf(R, name) \in Seq(Seq(Values)) /\ RecordsOf(Q, name) \in Seq(Seq(Values))
      /\ g \in Seq(Seq(Values)) /\ h \in Seq(Seq(Values))
  BY RecordsType DEF Groups
<1>3. GroupsAlike(RecordsOf(R, name) \o g, RecordsOf(Q, name) \o h)
  BY <1>1, <1>2, GroupsAlikeConcat
<1>4. /\ DOMAIN Record(R, name, g) = DOMAIN R \cup {name}
      /\ DOMAIN Record(Q, name, h) = DOMAIN Q \cup {name}
      /\ Record(R, name, g)[name] = RecordsOf(R, name) \o g
      /\ Record(Q, name, h)[name] = RecordsOf(Q, name) \o h
      /\ \A n \in DOMAIN R \ {name} : Record(R, name, g)[n] = R[n]
      /\ \A n \in DOMAIN Q \ {name} : Record(Q, name, h)[n] = Q[n]
  BY RecordType
<1> QED
  BY <1>3, <1>4 DEF RecordsAlike

\* The same match with its reports in another order.
Reversed(match, other) ==
  /\ IsTeamMatch(match) /\ IsTeamMatch(other)
  /\ other.position = match.position /\ other.breakdown = match.breakdown
  /\ other.reports = Reverse(match.reports)

\* A field keeps records alike.
LEMMA FieldAlike ==
    ASSUME NEW field \in Fields, NEW match, NEW other, Reversed(match, other),
           NEW R \in Records, NEW Q \in Records, RecordsAlike(R, Q)
    PROVE  RecordsAlike(SummarizeField(field, match, R), SummarizeField(field, other, Q))
<1>0. /\ field.name \in STRING /\ field.sum \in Seq(STRING)
      /\ field.anyOf \in Seq([name : STRING, equals : Values])
      /\ match.reports \in Seq(Data) /\ IsBreakdown(match.breakdown)
      /\ IsTeamMatch(match) /\ IsTeamMatch(other)
  BY DEF Fields, IsTeamMatch, Reversed
<1>a. ASSUME NEW value \in Values
      PROVE  RecordsAlike(RecordValue(R, field.name, value), RecordValue(Q, field.name, value))
  <2>1. << <<value>> >> \in Groups
    BY DEF Groups
  <2>2. GroupsAlike(<< <<value>> >>, << <<value>> >>)
    BY DEF GroupsAlike
  <2> QED
    BY <1>0, <2>1, <2>2, RecordAlike DEF RecordValue
<1>b. ASSUME NEW name \in STRING
      PROVE  /\ RecordsOf(R, name) = <<>> <=> RecordsOf(Q, name) = <<>>
             /\ RecordsOf(R, name) # <<>> => Mean(RecordsOf(R, name)) = Mean(RecordsOf(Q, name))
             /\ ToSet(RecordsOf(R, name)) = ToSet(RecordsOf(Q, name))
  <2>1. RecordsOf(R, name) \in Seq(Seq(Values)) /\ RecordsOf(Q, name) \in Seq(Seq(Values))
    BY RecordsType
  <2>2. GroupsAlike(RecordsOf(R, name), RecordsOf(Q, name))
    <3>1. GroupsAlike(<<>>, <<>>)
      BY DEF GroupsAlike
    <3> QED
      BY <3>1 DEF RecordsOf, RecordsAlike
  <2> QED
    BY <2>1, <2>2, GroupsAlikeMean
<1>1. RecordsAlike(SummarizeReportReference(field, match, R), SummarizeReportReference(field, other, Q))
  <2> DEFINE g == GroupsOf(field, match.reports)
             h == GroupsOf(field, other.reports)
  <2>1. other.reports = Reverse(match.reports) /\ other.reports \in Seq(Data)
    BY <1>0 DEF Reversed, IsTeamMatch
  <2>2. other.reports = <<>> <=> match.reports = <<>>
    <3>1. Len(other.reports) = Len(match.reports)
      BY <1>0, <2>1, ReverseSteps
    <3> QED
      BY <1>0, <2>1, <3>1
  <2>3. CASE match.reports = <<>>
    BY <2>2, <2>3, ReferenceIs
  <2>4. CASE match.reports # <<>>
    <3>1. g \in Seq(Seq(Values)) /\ Len(g) = Len(match.reports)
      BY <1>0, GroupType
    <3>2. h = Reverse(g)
      <4>1. DOMAIN match.reports = 1 .. Len(match.reports) /\ Len(match.reports) \in Nat
        BY <1>0
      <4>2. /\ DOMAIN other.reports = 1 .. Len(match.reports)
            /\ \A i \in 1 .. Len(match.reports) :
                 other.reports[i] = match.reports[(Len(match.reports) - i) + 1]
        BY <2>1 DEF Reverse
      <4>3. \A i \in 1 .. Len(match.reports) : (Len(match.reports) - i) + 1 \in 1 .. Len(match.reports)
        BY <4>1
      <4> QED
        BY <3>1, <4>1, <4>2, <4>3 DEF GroupsOf, Reverse
    <3>3. h \in Seq(Seq(Values)) /\ Len(h) = Len(other.reports)
      BY <2>1, GroupType
    <3> HIDE DEF g, h
    <3>4. g \in Groups /\ h \in Groups
      <4>1. Len(g) # 0 /\ Len(h) # 0
        BY <1>0, <2>1, <2>2, <2>4, <3>1, <3>3
      <4> QED
        BY <3>1, <3>3, <4>1 DEF Groups
    <3>5. GroupsAlike(g, h)
      BY <3>1, <3>2, GroupsReversed
    <3>6. RecordsAlike(Record(R, field.name, g), Record(Q, field.name, h))
      BY <1>0, <3>4, <3>5, RecordAlike
    <3> QED
      BY <2>2, <2>4, <3>6, ReferenceIs DEF g, h
  <2> QED
    BY <2>3, <2>4
<1>2. RecordsAlike(SummarizeTBAReference(field, match, R), SummarizeTBAReference(field, other, Q))
  <2>1. \A key \in DOMAIN match.breakdown : match.breakdown[key] \in Values
    BY <1>0 DEF IsBreakdown
  <2> QED
    BY <1>a, <2>1 DEF SummarizeTBAReference, Reversed
<1>3. RecordsAlike(SummarizeSum(field, R), SummarizeSum(field, Q))
  <2>0. \A name \in ToSet(field.sum) : name \in STRING
    BY <1>0, ToSetSteps
  <2>1. CASE \E name \in ToSet(field.sum) : RecordsOf(R, name) = <<>>
    BY <1>b, <2>0, <2>1 DEF SummarizeSum
  <2>2. CASE ~ \E name \in ToSet(field.sum) : RecordsOf(R, name) = <<>>
    <3>1. ~ \E name \in ToSet(field.sum) : RecordsOf(Q, name) = <<>>
      BY <1>b, <2>0, <2>2
    <3>2. \A i \in DOMAIN field.sum :
            Mean(RecordsOf(R, field.sum[i])) = Mean(RecordsOf(Q, field.sum[i]))
      BY <1>b, <2>0, <2>2 DEF ToSet
    <3>3. SumOfMeans(field, R) = SumOfMeans(field, Q)
      <4>1. [i \in DOMAIN field.sum |-> Mean(RecordsOf(R, field.sum[i]))]
              = [i \in DOMAIN field.sum |-> Mean(RecordsOf(Q, field.sum[i]))]
        BY <3>2
      <4> QED
        BY <4>1 DEF SumOfMeans, Each
    <3>4. SumOfMeans(field, R) \in Int
      BY <1>0, <2>2, SumOfMeansType
    <3>5. <<"num", SumOfMeans(field, R)>> \in Values
      BY <3>4 DEF Values
    <3>6. /\ SummarizeSum(field, R) = RecordValue(R, field.name, <<"num", SumOfMeans(field, R)>>)
          /\ SummarizeSum(field, Q) = RecordValue(Q, field.name, <<"num", SumOfMeans(field, Q)>>)
      BY <2>2, <3>1 DEF SummarizeSum, SumOfMeans
    <3> QED
      BY <1>a, <3>3, <3>5, <3>6
  <2> QED
    BY <2>1, <2>2
<1>4. RecordsAlike(SummarizeAnyOf(field, R), SummarizeAnyOf(field, Q))
  <2>0. \A i \in 1 .. Len(field.anyOf) : field.anyOf[i].name \in STRING
    <3> DEFINE E == [name : STRING, equals : Values]
    <3>1. field.anyOf \in Seq(E)
      BY <1>0
    <3>2. \A i \in 1 .. Len(field.anyOf) : field.anyOf[i] \in E
      <4> HIDE DEF E
      <4> QED
        BY <3>1
    <3> QED
      BY <3>2
  <2>1. \A i \in 1 .. Len(field.anyOf) : FoundIn(R, field.anyOf[i]) <=> FoundIn(Q, field.anyOf[i])
    BY <1>b, <2>0 DEF FoundIn
  <2>2. Deciding(field, R) = Deciding(field, Q)
    BY <1>b, <2>0, <2>1 DEF Deciding
  <2> DEFINE first == IF Deciding(field, R) # {} THEN Min(Deciding(field, R)) ELSE 0
  <2>3. first = 0 \/ first \in 1 .. Len(field.anyOf)
    <3>1. Len(field.anyOf) \in Nat
      BY <1>0
    <3>2. Deciding(field, R) # {} => first \in Deciding(field, R)
      BY <3>1, DecidingMin
    <3> QED
      BY <3>2 DEF Deciding
  <2>4. <<"num", 0>> \in Values /\ <<"num", Unit>> \in Values
    BY NumberType DEF Values
  <2>5. /\ SummarizeAnyOf(field, R)
             = CASE first = 0 -> RecordValue(R, field.name, <<"num", 0>>)
                 [] first # 0 /\ FoundIn(R, field.anyOf[first]) ->
                      RecordValue(R, field.name, <<"num", Unit>>)
                 [] OTHER -> R
        /\ SummarizeAnyOf(field, Q)
             = CASE first = 0 -> RecordValue(Q, field.name, <<"num", 0>>)
                 [] first # 0 /\ FoundIn(Q, field.anyOf[first]) ->
                      RecordValue(Q, field.name, <<"num", Unit>>)
                 [] OTHER -> Q
    BY <2>2, AnyOfIs
  <2> HIDE DEF first
  <2>6. CASE first = 0
    BY <1>a, <2>4, <2>5, <2>6
  <2>7. CASE first # 0 /\ FoundIn(R, field.anyOf[first])
    BY <1>a, <2>1, <2>3, <2>4, <2>5, <2>7
  <2>8. CASE first # 0 /\ ~FoundIn(R, field.anyOf[first])
    BY <2>1, <2>3, <2>5, <2>8
  <2> QED
    BY <2>6, <2>7, <2>8
<1> QED
  BY <1>1, <1>2, <1>3, <1>4 DEF SummarizeField

\* summarizeMatch gives alike records, whatever the order of the reports.
LEMMA MatchAlike ==
    ASSUME NEW match, NEW other, Reversed(match, other)
    PROVE  \A schema \in Seq(Fields) :
             RecordsAlike(SummarizeMatch(schema, match), SummarizeMatch(schema, other))
<1> DEFINE S == {s \in Seq(Fields) : RecordsAlike(SummarizeMatch(s, match), SummarizeMatch(s, other))}
<1>0. IsTeamMatch(match) /\ IsTeamMatch(other)
  BY DEF Reversed
<1>s. ASSUME NEW m, IsTeamMatch(m)
      PROVE  /\ SummarizeMatch(<<>>, m) = <<>>
             /\ \A s \in Seq(Fields) : SummarizeMatch(s, m) \in Records
             /\ \A s \in Seq(Fields), field \in Fields :
                  SummarizeMatch(Append(s, field), m) = SummarizeField(field, m, SummarizeMatch(s, m))
  BY <1>s, SummarizeMatchSteps
<1>1. <<>> \in S
  <2>1. <<>> \in Seq(Fields) /\ RecordsAlike(<<>>, <<>>)
    BY DEF RecordsAlike
  <2> QED
    BY <1>0, <1>s, <2>1
<1>2. ASSUME NEW s \in Seq(Fields), NEW field \in Fields, s \in S PROVE Append(s, field) \in S
  <2>1. Append(s, field) \in Seq(Fields)
    OBVIOUS
  <2>2. PICK R \in Records : R = SummarizeMatch(s, match)
    BY <1>0, <1>s
  <2>3. PICK Q \in Records : Q = SummarizeMatch(s, other)
    BY <1>0, <1>s
  <2>4. RecordsAlike(R, Q)
    BY <1>2, <2>2, <2>3
  <2>5. RecordsAlike(SummarizeField(field, match, R), SummarizeField(field, other, Q))
    BY <2>4, FieldAlike
  <2> QED
    BY <1>0, <1>s, <2>1, <2>2, <2>3, <2>5
<1>3. Seq(Fields) \subseteq S
  <2> HIDE DEF S
  <2> QED
    BY <1>1, <1>2, SeqInduction
<1> QED
  BY <1>3

-----------------------------------------------------------------------------
(* The order of the rows.                                                  *)

\* The reports on a team in a match, when the rows are reversed.
LEMMA ReportsReversed ==
    ASSUME NEW reports, AreReports(reports)
    PROVE  /\ AreReports(Reverse(reports)) /\ ToSet(Reverse(reports)) = ToSet(reports)
           /\ \A team, key : ReportsOn(Reverse(reports), team, key) = Reverse(ReportsOn(reports, team, key))
<1> DEFINE X == ToSet(reports)
<1>1. reports \in Seq(X) /\ \A r \in X : IsReportRow(r)
  BY DEF AreReports
<1>2. Reverse(reports) \in Seq(X) /\ ToSet(Reverse(reports)) = ToSet(reports)
  <2> HIDE DEF X
  <2> QED
    BY <1>1, ReverseSteps, ToSetSteps
<1>3. ASSUME NEW team, NEW key
      PROVE  ReportsOn(Reverse(reports), team, key) = Reverse(ReportsOn(reports, team, key))
  <2> DEFINE kept == OnMatch(reports, team, key)
             Of(s) == [i \in DOMAIN s |-> s[i].data]
  <2>1. OnMatch(Reverse(reports), team, key) = kept
    BY <1>2 DEF OnMatch
  <2>2. /\ ReportsOn(reports, team, key) = Of(Among(kept, reports))
        /\ ReportsOn(Reverse(reports), team, key) = Of(Among(kept, Reverse(reports)))
    BY <2>1 DEF ReportsOn, Each, OnMatch
  <2>3. /\ Among(kept, Reverse(reports)) = Reverse(Among(kept, reports))
        /\ Among(kept, reports) \in Seq(X)
    <3> HIDE DEF X, kept
    <3>1. \A s \in Seq(X) : Among(kept, Reverse(s)) = Reverse(Among(kept, s))
      BY AmongReverse
    <3>2. AmongFollows(kept, X)
      BY AmongFollow
    <3> QED
      BY <1>1, <3>1, <3>2 DEF AmongFollows
  <2>4. ASSUME NEW s \in Seq(X) PROVE Of(Reverse(s)) = Reverse(Of(s))
    <3>1. DOMAIN s = 1 .. Len(s) /\ Len(s) \in Nat
      OBVIOUS
    <3>2. /\ DOMAIN Reverse(s) = 1 .. Len(s)
          /\ \A i \in 1 .. Len(s) : Reverse(s)[i] = s[(Len(s) - i) + 1]
      BY DEF Reverse
    <3>3. \A i \in 1 .. Len(s) : (Len(s) - i) + 1 \in 1 .. Len(s)
      BY <3>1
    <3>4. PICK t : t = Of(s)
      OBVIOUS
    <3>5. DOMAIN t = 1 .. Len(s) /\ \A i \in 1 .. Len(s) : t[i] = s[i].data
      BY <3>1, <3>4
    <3>6. Len(t) = Len(s)
      BY <3>1, <3>5
    <3>7. Reverse(t) = [i \in 1 .. Len(s) |-> t[(Len(s) - i) + 1]]
      BY <3>6 DEF Reverse
    <3>8. Of(Reverse(s)) = [i \in 1 .. Len(s) |-> Reverse(s)[i].data]
      BY <3>2
    <3> QED
      BY <3>2, <3>3, <3>4, <3>5, <3>7, <3>8
  <2> HIDE DEF Of
  <2> QED
    BY <2>2, <2>3, <2>4
<1>4. AreReports(Reverse(reports))
  BY <1>1, <1>2 DEF AreReports
<1> QED
  BY <1>2, <1>3, <1>4

\* The order of the reports changes nothing that a match says of a team.
LEMMA MatchMeansReversed ==
    ASSUME NEW schema \in Seq(Fields), NEW m, IsMatchRow(m),
           NEW reports, AreReports(reports), NEW team, NEW name
    PROVE  MatchMeans(schema, m, reports, team, name)
             = MatchMeans(schema, m, Reverse(reports), team, name)
<1> DEFINE other == Reverse(reports)
           V == Plays({m}, reports, team)
           W == Plays({m}, other, team)
           X == DOMAIN Seats(m)
           Of(seats) == [i \in DOMAIN seats |-> PlayAt(m, seats[i], reports, team)]
           OtherOf(seats) == [i \in DOMAIN seats |-> PlayAt(m, seats[i], other, team)]
           S == {seats \in Seq(X) : MeansOf(schema, Of(seats), name) = MeansOf(schema, OtherOf(seats), name)}
<1>0. AreMatches({m}) /\ AreReports(other)
  BY ReportsReversed DEF AreMatches
<1>1. AreTeamMatches(V) /\ AreTeamMatches(W)
  BY <1>0, PlaysType
<1>2. MeansFollow(schema, V, name) /\ MeansFollow(schema, W, name)
  <2> HIDE DEF V, W
  <2> QED
    BY <1>1, MeansSteps
<1>3. ASSUME NEW seat \in X
      PROVE  /\ PlayAt(m, seat, reports, team) \in V /\ PlayAt(m, seat, other, team) \in W
             /\ RecordsAlike(SummarizeMatch(schema, PlayAt(m, seat, reports, team)),
                             SummarizeMatch(schema, PlayAt(m, seat, other, team)))
  <2>1. PlayAt(m, seat, reports, team) \in V /\ PlayAt(m, seat, other, team) \in W
    BY DEF Plays
  <2>2. Reversed(PlayAt(m, seat, reports, team), PlayAt(m, seat, other, team))
    BY <1>1, <2>1, ReportsReversed DEF Reversed, PlayAt, AreTeamMatches
  <2> QED
    BY <2>1, <2>2, MatchAlike
<1>4. \A seats \in Seq(X) : Of(seats) \in Seq(V) /\ OtherOf(seats) \in Seq(W)
  <2> SUFFICES ASSUME NEW seats \in Seq(X) PROVE Of(seats) \in Seq(V) /\ OtherOf(seats) \in Seq(W)
    OBVIOUS
  <2>1. \A i \in DOMAIN seats : seats[i] \in X
    OBVIOUS
  <2>2. IsMap(Of(seats), seats, V) /\ IsMap(OtherOf(seats), seats, W)
    BY <1>3, <2>1 DEF IsMap
  <2> HIDE DEF Of, OtherOf, X, V, W
  <2> QED
    BY <2>2, MapType
<1>5. <<>> \in S
  <2>1. <<>> \in Seq(X) /\ Of(<<>>) = <<>> /\ OtherOf(<<>>) = <<>>
    OBVIOUS
  <2> QED
    BY <2>1
<1>6. ASSUME NEW seats \in Seq(X), NEW seat \in X, seats \in S PROVE Append(seats, seat) \in S
  <2>1. Append(seats, seat) \in Seq(X)
    OBVIOUS
  <2>2. /\ Of(Append(seats, seat)) = Append(Of(seats), PlayAt(m, seat, reports, team))
        /\ OtherOf(Append(seats, seat)) = Append(OtherOf(seats), PlayAt(m, seat, other, team))
    OBVIOUS
  <2>3. PICK R \in Records : R = SummarizeMatch(schema, PlayAt(m, seat, reports, team))
    BY <1>1, <1>3, SummarizeMatchSteps DEF AreTeamMatches
  <2>4. PICK Q \in Records : Q = SummarizeMatch(schema, PlayAt(m, seat, other, team))
    BY <1>1, <1>3, SummarizeMatchSteps DEF AreTeamMatches
  <2>5. RecordsAlike(R, Q)
    BY <1>3, <2>3, <2>4
  <2>6. name \in DOMAIN R <=> name \in DOMAIN Q
    BY <2>5 DEF RecordsAlike
  <2>7. ASSUME name \in DOMAIN R PROVE Mean(R[name]) = Mean(Q[name])
    <3>1. GroupsAlike(R[name], Q[name])
      BY <2>5, <2>7 DEF RecordsAlike
    <3>2. R[name] \in Seq(Seq(Values)) /\ Q[name] \in Seq(Seq(Values))
      BY <2>6, <2>7, RecordsType DEF Groups
    <3> QED
      BY <3>1, <3>2, GroupsAlikeMean
  <2>8. /\ MeansOf(schema, Append(Of(seats), PlayAt(m, seat, reports, team)), name)
             = IF name \in DOMAIN R THEN Append(MeansOf(schema, Of(seats), name), Mean(R[name]))
                                    ELSE MeansOf(schema, Of(seats), name)
        /\ MeansOf(schema, Append(OtherOf(seats), PlayAt(m, seat, other, team)), name)
             = IF name \in DOMAIN Q THEN Append(MeansOf(schema, OtherOf(seats), name), Mean(Q[name]))
                                    ELSE MeansOf(schema, OtherOf(seats), name)
    <3>1. Of(seats) \in Seq(V) /\ OtherOf(seats) \in Seq(W)
      BY <1>4
    <3> HIDE DEF Of, OtherOf, V, W, other
    <3> QED
      BY <1>2, <1>3, <2>3, <2>4, <3>1 DEF MeansFollow
  <2>9. MeansOf(schema, Of(seats), name) = MeansOf(schema, OtherOf(seats), name)
    BY <1>6
  <2>10. MeansOf(schema, Of(Append(seats, seat)), name)
           = MeansOf(schema, OtherOf(Append(seats, seat)), name)
    <3> HIDE DEF Of, OtherOf, other
    <3> QED
      BY <2>2, <2>6, <2>7, <2>8, <2>9
  <2> QED
    BY <2>1, <2>10
<1>7. Seq(X) \subseteq S
  <2> HIDE DEF S, X
  <2> QED
    BY <1>5, <1>6, SeqInduction
<1>8. SeatsOf(m, team) \in Seq(X)
  BY SeatsOfType
<1>9. /\ MatchOf(m, reports, team) = Of(SeatsOf(m, team))
      /\ MatchOf(m, other, team) = OtherOf(SeatsOf(m, team))
  BY DEF MatchOf, Each, SeatsOf, PlayAt
<1> HIDE DEF Of, OtherOf, other
<1> QED
  BY <1>7, <1>8, <1>9 DEF MatchMeans, other

\* A team's means do not depend on the order of the reports.
LEMMA TeamMeansReversed ==
    ASSUME NEW schema \in Seq(Fields), NEW Ms, AreMatches(Ms),
           NEW reports, AreReports(reports), NEW team, NEW name
    PROVE  \A ms \in Seq(Ms) : TeamMeans(schema, ms, reports, team, name)
                                 = TeamMeans(schema, ms, Reverse(reports), team, name)
<1> DEFINE S == {ms \in Seq(Ms) : TeamMeans(schema, ms, reports, team, name)
                                    = TeamMeans(schema, ms, Reverse(reports), team, name)}
<1>f. /\ TeamMeansFollow(schema, Ms, reports, team, name)
      /\ TeamMeansFollow(schema, Ms, Reverse(reports), team, name)
  BY ReportsReversed, TeamMeansSteps
<1>1. <<>> \in S
  <2>1. <<>> \in Seq(Ms)
    OBVIOUS
  <2> QED
    BY <1>f, <2>1 DEF TeamMeansFollow
<1>2. ASSUME NEW ms \in Seq(Ms), NEW m \in Ms, ms \in S PROVE Append(ms, m) \in S
  <2>1. Append(ms, m) \in Seq(Ms)
    OBVIOUS
  <2>2. MatchMeans(schema, m, reports, team, name) = MatchMeans(schema, m, Reverse(reports), team, name)
    BY MatchMeansReversed DEF AreMatches
  <2> QED
    BY <1>2, <1>f, <2>1, <2>2 DEF TeamMeansFollow
<1>3. Seq(Ms) \subseteq S
  <2> HIDE DEF S
  <2> QED
    BY <1>1, <1>2, SeqInduction
<1> QED
  BY <1>3

\* The order of the matches changes no statistic of a team.
LEMMA MatchesReversed ==
    ASSUME NEW schema \in Seq(Fields), NEW Ms, AreMatches(Ms),
           NEW reports, AreReports(reports), NEW team, NEW ms \in Seq(Ms)
    PROVE  TeamStats(schema, Reverse(ms), reports, team) = TeamStats(schema, ms, reports, team)
<1>1. ASSUME NEW name
      PROVE  /\ TeamMeans(schema, ms, reports, team, name) \in Seq(Int)
             /\ TeamMeans(schema, Reverse(ms), reports, team, name) \in Seq(Int)
             /\ Alike(TeamMeans(schema, ms, reports, team, name),
                      TeamMeans(schema, Reverse(ms), reports, team, name))
  <2> DEFINE F == [s \in Seq(Ms) |-> TeamMeans(schema, s, reports, team, name)]
  <2>f. TeamMeansFollow(schema, Ms, reports, team, name)
    BY TeamMeansSteps
  <2>0. Reverse(ms) \in Seq(Ms)
    BY ReverseSteps
  <2>1. IsAdditive(F, Ms, Int)
    <3>1. F \in [Seq(Ms) -> Seq(Int)]
      BY <2>f DEF TeamMeansFollow
    <3>2. <<>> \in Seq(Ms) /\ \A s \in Seq(Ms), m \in Ms : Append(s, m) \in Seq(Ms) /\ <<m>> \in Seq(Ms)
      OBVIOUS
    <3>3. F[<<>>] = <<>>
      BY <2>f, <3>2 DEF TeamMeansFollow
    <3>4. ASSUME NEW s \in Seq(Ms), NEW m \in Ms PROVE F[Append(s, m)] = F[s] \o F[<<m>>]
      <4>1. F[<<m>>] = MatchMeans(schema, m, reports, team, name)
        <5>1. Append(<<>>, m) = <<m>>
          OBVIOUS
        <5>2. TeamMeans(schema, Append(<<>>, m), reports, team, name)
                = <<>> \o MatchMeans(schema, m, reports, team, name)
          BY <2>f, <3>2 DEF TeamMeansFollow
        <5>3. PICK mm \in Seq(Int) : mm = MatchMeans(schema, m, reports, team, name)
          BY <2>f DEF TeamMeansFollow
        <5>4. <<>> \o mm = mm
          OBVIOUS
        <5> QED
          BY <3>2, <5>1, <5>2, <5>3, <5>4
      <4>2. F[Append(s, m)] = F[s] \o MatchMeans(schema, m, reports, team, name)
        BY <2>f, <3>2 DEF TeamMeansFollow
      <4> QED
        BY <4>1, <4>2
    <3> HIDE DEF F
    <3> QED
      BY <3>1, <3>3, <3>4 DEF IsAdditive
  <2>2. Alike(F[ms], F[Reverse(ms)])
    <3> HIDE DEF F
    <3> QED
      BY <2>1, AdditiveReverse
  <2> QED
    BY <2>0, <2>2, <2>f DEF TeamMeansFollow
<1>2. ASSUME NEW name
      PROVE  /\ TeamMeans(schema, ms, reports, team, name) = <<>>
                  <=> TeamMeans(schema, Reverse(ms), reports, team, name) = <<>>
             /\ Stat(TeamMeans(schema, ms, reports, team, name))
                  = Stat(TeamMeans(schema, Reverse(ms), reports, team, name))
  <2>1. PICK s \in Seq(Int) : s = TeamMeans(schema, ms, reports, team, name)
    BY <1>1
  <2>2. PICK t \in Seq(Int) : t = TeamMeans(schema, Reverse(ms), reports, team, name)
    BY <1>1
  <2>3. Alike(s, t)
    BY <1>1, <2>1, <2>2
  <2>4. Greatest(s) = Greatest(t) /\ Total(s) = Total(t) /\ Len(s) = Len(t)
    BY <2>3, AlikeStats
  <2> QED
    BY <2>1, <2>2, <2>4 DEF Stat
<1>3. {n \in STRING : TeamMeans(schema, ms, reports, team, n) # <<>>}
        = {n \in STRING : TeamMeans(schema, Reverse(ms), reports, team, n) # <<>>}
  BY <1>2
<1> QED
  BY <1>2, <1>3 DEF TeamStats

\* Nor, but for their order, on that of the matches: the stats are the same.
LEMMA RowOrderStep ==
    ASSUME Explained
    PROVE  RowOrderIsFree
<1> SUFFICES ASSUME ForEvent PROVE RowOrderIsFree
  BY DEF RowOrderIsFree
<1> DEFINE in2 == [input EXCEPT !.matches = Reverse(@), !.reports = Reverse(@)]
           Ms == ToSet(input.matches)
           ms == Reverse(input.matches)
           R == VisibleReports(input)
           R2 == Reverse(R)
           schema == input.event.schema
<1>1. IsInput(input) /\ answer = EventAnswer(input) /\ EventAnswered(input)
  BY ForEventIs
<1>2. /\ in2.matches = ms /\ in2.reports = Reverse(input.reports) /\ in2.event = input.event
      /\ in2.viewer = input.viewer /\ DOMAIN in2 = DOMAIN input
  BY <1>1 DEF IsInput
<1>3. input.matches \in Seq(Ms) /\ AreMatches(Ms) /\ AreReports(input.reports)
  BY <1>1 DEF IsInput
<1>4. ms \in Seq(Ms) /\ ToSet(ms) = Ms
  <2>1. PICK s \in Seq(Ms) : s = input.matches
    BY <1>3
  <2>2. Reverse(s) \in Seq(Ms) /\ ToSet(Reverse(s)) = ToSet(s)
    <3> HIDE DEF Ms
    <3> QED
      BY ReverseSteps, ToSetSteps
  <2> QED
    BY <2>1, <2>2
<1>5. AreReports(Reverse(input.reports)) /\ ToSet(Reverse(input.reports)) = ToSet(input.reports)
  BY <1>3, ReportsReversed
<1>6. VisibleReports(in2) = R2 /\ (VisibleEvent(in2) <=> VisibleEvent(input))
  <2> DEFINE kept == {r \in ToSet(input.reports) : r.realm \in (Sharing \cup {input.viewer}) \ {None}}
             X == ToSet(input.reports)
  <2>1. VisibleReports(in2) = Among(kept, Reverse(input.reports)) /\ R = Among(kept, input.reports)
    BY <1>2, <1>5 DEF VisibleReports
  <2>2. input.reports \in Seq(X)
    BY <1>3 DEF AreReports
  <2>3. \A s \in Seq(X) : Among(kept, Reverse(s)) = Reverse(Among(kept, s))
    <3> HIDE DEF kept, X
    <3> QED
      BY AmongReverse
  <2> HIDE DEF kept, X, in2
  <2> QED
    BY <1>2, <2>1, <2>2, <2>3 DEF VisibleEvent
<1>7. AreReports(R)
  BY <1>1, VisibleType
<1>8. AreReports(R2)
  BY <1>7, ReportsReversed
<1> HIDE DEF in2, R, ms
<1>9. IsInput(in2)
  BY <1>1, <1>2, <1>3, <1>4, <1>5 DEF IsInput
<1>10. Teams(ms) = Teams(input.matches) /\ (Panics(ms) <=> Panics(input.matches))
  BY <1>4 DEF Teams, Panics
<1>11. EventAnswered(in2)
  BY <1>1, <1>2, <1>6, <1>10 DEF EventAnswered
<1>12. /\ answer = Respond(<<>>, "200", [team \in Teams(input.matches) |->
                      SummarizeTeam(schema, SelectTeamMatches(input.matches, R, team))])
       /\ EventAnswer(in2) = Respond(<<>>, "200", [team \in Teams(input.matches) |->
                      SummarizeTeam(schema, SelectTeamMatches(ms, R2, team))])
  BY <1>1, <1>2, <1>6, <1>9, <1>10, <1>11, EventAnswerIs DEF R
<1>13. schema \in Seq(Fields)
  BY <1>1 DEF EventAnswered
<1> HIDE DEF schema, Ms, R2
<1>14. ASSUME NEW team
       PROVE  SummarizeTeam(schema, SelectTeamMatches(input.matches, R, team))
                = SummarizeTeam(schema, SelectTeamMatches(ms, R2, team))
  <2>1. SummarizeTeam(schema, SelectTeamMatches(input.matches, R, team))
          = TeamStats(schema, input.matches, R, team)
    BY <1>3, <1>7, <1>13, TeamStatsAre
  <2>2. SummarizeTeam(schema, SelectTeamMatches(ms, R2, team)) = TeamStats(schema, ms, R2, team)
    BY <1>3, <1>4, <1>8, <1>13, TeamStatsAre
  <2>3. TeamStats(schema, ms, R2, team) = TeamStats(schema, input.matches, R2, team)
    BY <1>3, <1>8, <1>13, MatchesReversed DEF ms
  <2>4. TeamStats(schema, input.matches, R2, team) = TeamStats(schema, input.matches, R, team)
    <3>1. \A name : TeamMeans(schema, input.matches, R, team, name)
                      = TeamMeans(schema, input.matches, R2, team, name)
      BY <1>3, <1>7, <1>13, TeamMeansReversed DEF R2
    <3> QED
      BY <3>1 DEF TeamStats
  <2> QED
    BY <2>1, <2>2, <2>3, <2>4
<1>15. answer = EventAnswer(in2)
  BY <1>12, <1>14
<1> QED
  BY <1>15 DEF RowOrderIsFree, in2

\* Whatever the rows and the schema: reversing the matches and the reports, which the
\* queries return in no order, changes no answer (store/matches.go:279, store/reports.go:264).
THEOREM RowOrderFree == Spec => []RowOrderIsFree
BY ExplainedAlways, RowOrderStep, PTL

-----------------------------------------------------------------------------
(* One match.                                                              *)

\* What is kept of a sequence in which one element is.
LEMMA AmongOne ==
    ASSUME NEW X, NEW kept
    PROVE  \A s \in Seq(X) : \A i \in DOMAIN s :
             (s[i] \in kept /\ \A j \in DOMAIN s : s[j] \in kept => j = i) => Among(kept, s) = <<s[i]>>
<1> DEFINE Only(s, i) == s[i] \in kept /\ \A j \in DOMAIN s : s[j] \in kept => j = i
           S == {s \in Seq(X) : \A i \in DOMAIN s : Only(s, i) => Among(kept, s) = <<s[i]>>}
<1>s. AmongFollows(kept, X)
  BY AmongFollow
<1>1. <<>> \in S
  OBVIOUS
<1>2. ASSUME NEW s \in Seq(X), NEW x \in X, s \in S PROVE Append(s, x) \in S
  <2> DEFINE t == Append(s, x)
  <2>1. /\ t \in Seq(X) /\ DOMAIN t = 1 .. Len(s) + 1 /\ t[Len(s) + 1] = x
        /\ DOMAIN s = 1 .. Len(s) /\ Len(s) \in Nat
        /\ \A j \in 1 .. Len(s) : t[j] = s[j]
    OBVIOUS
  <2>2. Among(kept, t) = IF x \in kept THEN Append(Among(kept, s), x) ELSE Among(kept, s)
    BY <1>s DEF AmongFollows
  <2> HIDE DEF t
  <2>3. ASSUME NEW i \in DOMAIN t, Only(t, i) PROVE Among(kept, t) = <<t[i]>>
    <3>1. CASE i = Len(s) + 1
      <4>1. \A j \in DOMAIN s : s[j] \notin kept
        BY <2>1, <2>3, <3>1
      <4>2. kept \cap ToSet(s) = {}
        BY <4>1 DEF ToSet
      <4>3. Among(kept, s) = <<>>
        BY <4>2, AmongEmpty
      <4>4. Append(<<>>, x) = <<x>>
        OBVIOUS
      <4> QED
        BY <2>1, <2>2, <2>3, <3>1, <4>3, <4>4
    <3>2. CASE i # Len(s) + 1
      <4>1. i \in DOMAIN s /\ Only(s, i) /\ x \notin kept /\ t[i] = s[i]
        BY <2>1, <2>3, <3>2
      <4> QED
        BY <1>2, <2>2, <4>1
    <3> QED
      BY <3>1, <3>2
  <2> QED
    BY <2>1, <2>3 DEF t
<1>3. Seq(X) \subseteq S
  <2> HIDE DEF S
  <2> QED
    BY <1>1, <1>2, SeqInduction
<1> QED
  BY <1>3

\* A team with one seat in a match plays it once.
LEMMA OneSeat ==
    ASSUME NEW m, IsMatchRow(m), Once(Seats(m), LAMBDA t : t), NEW reports, NEW seat \in DOMAIN Seats(m)
    PROVE  MatchOf(m, reports, Seats(m)[seat]) = <<PlayAt(m, seat, reports, Seats(m)[seat])>>
<1> DEFINE team == Seats(m)[seat]
           X == DOMAIN Seats(m)
           ids == [i \in X |-> i]
           kept == {i \in X : Seats(m)[i] = team}
<1>1. Seats(m) \in Seq(STRING)
  BY SeatsOfType
<1>2. ids \in Seq(X) /\ DOMAIN ids = X
  <2>1. IsMap(ids, Seats(m), X)
    BY DEF IsMap
  <2> HIDE DEF ids, X
  <2>2. ids \in Seq(X)
    BY <1>1, <2>1, MapType
  <2> QED
    BY <2>2 DEF ids
<1>3. \A j \in X : j \in kept => j = seat
  BY DEF Once
<1>4. seat \in X /\ ids[seat] \in kept /\ \A j \in X : ids[j] \in kept => j = seat
  BY <1>3
<1>5. Among(kept, ids) = <<ids[seat]>>
  <2> HIDE DEF kept, ids, X
  <2> QED
    BY <1>2, <1>4, AmongOne
<1>6. SeatsOf(m, team) = <<seat>>
  BY <1>5 DEF SeatsOf
<1>7. MatchOf(m, reports, team) = [i \in DOMAIN SeatsOf(m, team) |->
                                     PlayAt(m, SeatsOf(m, team)[i], reports, team)]
  BY DEF MatchOf, Each, SeatsOf, PlayAt
<1>8. DOMAIN <<seat>> = 1 .. 1 /\ <<seat>>[1] = seat
  OBVIOUS
<1>9. PICK p : p = PlayAt(m, seat, reports, team)
  OBVIOUS
<1>10. [i \in 1 .. 1 |-> p] = <<p>>
  OBVIOUS
<1>11. MatchOf(m, reports, team) = [i \in 1 .. 1 |-> p]
  BY <1>6, <1>7, <1>8, <1>9
<1> QED
  BY <1>9, <1>10, <1>11

\* The records of a robot in a match.
RobotRecords(schema, m, seat, reports, team) == SummarizeMatch(schema, PlayAt(m, seat, reports, team))

MatchStats(R) ==
  [name \in DOMAIN R |-> [max |-> Greatest(<<Mean(R[name])>>), average |-> Mean(R[name])]]

\* The means of a robot in a match: one for every stat it has a record of.
LEMMA RobotMeans ==
    ASSUME NEW schema \in Seq(Fields), NEW m, IsMatchRow(m), Once(Seats(m), LAMBDA t : t),
           NEW reports, AreReports(reports), NEW seat \in DOMAIN Seats(m)
    PROVE  LET team == Seats(m)[seat]
               R == RobotRecords(schema, m, seat, reports, team)
           IN /\ R \in Records /\ IsTeamMatch(PlayAt(m, seat, reports, team))
              /\ \A name : MatchMeans(schema, m, reports, team, name)
                             = IF name \in DOMAIN R THEN <<Mean(R[name])>> ELSE <<>>
              /\ \A name \in DOMAIN R : Mean(R[name]) \in Int
<1> DEFINE team == Seats(m)[seat]
           R == RobotRecords(schema, m, seat, reports, team)
           V == Plays({m}, reports, team)
           p == PlayAt(m, seat, reports, team)
<1>0. AreMatches({m})
  BY DEF AreMatches
<1>1. AreTeamMatches(V)
  BY <1>0, PlaysType
<1>2. p \in V /\ IsTeamMatch(p)
  <2>1. p \in V
    BY DEF Plays
  <2> QED
    BY <1>1, <2>1 DEF AreTeamMatches
<1>3. R \in Records
  BY <1>2, SummarizeMatchSteps DEF RobotRecords
<1>4. MatchOf(m, reports, team) = <<p>>
  BY OneSeat
<1>5. ASSUME NEW name
      PROVE  MatchMeans(schema, m, reports, team, name) = IF name \in DOMAIN R THEN <<Mean(R[name])>> ELSE <<>>
  <2>1. \A q \in V : MeansOf(schema, <<q>>, name) = IF name \in DOMAIN SummarizeMatch(schema, q)
                                                    THEN <<Mean(SummarizeMatch(schema, q)[name])>> ELSE <<>>
    <3> HIDE DEF V
    <3> QED
      BY <1>1, MeansType
  <2> QED
    BY <1>2, <1>4, <2>1 DEF MatchMeans, RobotRecords
<1>6. \A name \in DOMAIN R : Mean(R[name]) \in Int
  BY <1>3, RecordsType, SumType
<1> QED
  BY <1>2, <1>3, <1>5, <1>6

\* What the match endpoint answers: nothing, if the team is not in the match.
LEMMA OneMatch ==
    ASSUME NEW in, IsInput(in), IsSchedule(in.matches), NEW m \in ToSet(in.matches)
    PROVE  MatchInfo(in, m.key) = <<m>>
<1> DEFINE Ms == ToSet(in.matches)
           kept == {n \in Ms : n.key = m.key}
<1>1. in.matches \in Seq(Ms)
  BY DEF IsInput
<1>2. PICK i \in DOMAIN in.matches : in.matches[i] = m
  BY DEF ToSet
<1>3. \A j \in DOMAIN in.matches : in.matches[j] \in kept => j = i
  BY <1>2 DEF IsSchedule, Once
<1>4. in.matches[i] \in kept
  BY <1>2
<1>5. PICK s \in Seq(Ms) : s = in.matches
  BY <1>1
<1>6. Among(kept, s) = <<s[i]>>
  <2>1. i \in DOMAIN s /\ s[i] \in kept /\ \A j \in DOMAIN s : s[j] \in kept => j = i
    BY <1>2, <1>3, <1>4, <1>5
  <2> HIDE DEF kept, Ms
  <2> QED
    BY <2>1, AmongOne
<1> QED
  BY <1>2, <1>5, <1>6 DEF MatchInfo

\* A match that is found is one of the rows.
LEMMA MatchInfoOf ==
    ASSUME NEW in, IsInput(in), NEW key, MatchInfo(in, key) # <<>>
    PROVE  \E m \in ToSet(in.matches) : m.key = key
<1> DEFINE Ms == ToSet(in.matches)
           kept == {n \in Ms : n.key = key}
<1>1. PICK s \in Seq(Ms) : s = in.matches
  BY DEF IsInput
<1>2. Among(kept, s) = <<>> <=> kept \cap ToSet(s) = {}
  <2> HIDE DEF kept, Ms
  <2> QED
    BY AmongEmpty
<1> QED
  BY <1>1, <1>2 DEF MatchInfo

\* The stats of a team in a match are the means of its robot's records; without a seat, none.
LEMMA MatchStatsAre ==
    ASSUME NEW in, IsInput(in), IsSchedule(in.matches), NEW m \in ToSet(in.matches),
           NEW team, MatchAnswered(in, m.key, team)
    PROVE  LET stats == MatchAnswer(in, m.key, team).stats
               reports == VisibleReports(in)
           IN /\ DOMAIN stats = {team}
              /\ team \notin ToSet(Seats(m)) => stats[team] = <<>>
              /\ \A seat \in DOMAIN Seats(m) :
                   Seats(m)[seat] = team =>
                     stats[team] = MatchStats(RobotRecords(in.event.schema, m, seat, reports, team))
<1> DEFINE reports == VisibleReports(in)
           schema == in.event.schema
           Ms == {m}
<1>1. MatchInfo(in, m.key) = <<m>>
  BY OneMatch
<1>2. IsMatchRow(m) /\ AreMatches(Ms) /\ AreReports(reports) /\ schema \in Seq(Fields)
  <2>1. IsMatchRow(m)
    BY DEF IsInput, AreMatches
  <2> QED
    BY <2>1, VisibleType DEF AreMatches, MatchAnswered
<1>3. /\ DOMAIN MatchAnswer(in, m.key, team).stats = {team}
      /\ MatchAnswer(in, m.key, team).stats[team]
           = SummarizeTeam(schema, SelectTeamMatches(<<m>>, reports, team))
  <2>1. PICK a : a = MatchAnswer(in, m.key, team)
    OBVIOUS
  <2>2. a = Respond(<<m.key, team>>, "200",
              [t \in {team} |-> SummarizeTeam(in.event.schema,
                                   SelectTeamMatches(MatchInfo(in, m.key), VisibleReports(in), t))])
    BY <2>1, MatchAnswerIs
  <2>3. a.stats = [t \in {team} |-> SummarizeTeam(schema, SelectTeamMatches(<<m>>, reports, t))]
    BY <1>1, <2>2 DEF Respond
  <2> QED
    BY <2>1, <2>3
<1>4. <<m>> \in Seq(Ms) /\ <<>> \in Seq(Ms) /\ Append(<<>>, m) = <<m>>
  OBVIOUS
<1> HIDE DEF reports, schema
<1>5. MatchAnswer(in, m.key, team).stats[team] = TeamStats(schema, <<m>>, reports, team)
  <2>1. SummarizeTeam(schema, SelectTeamMatches(<<m>>, reports, team)) = TeamStats(schema, <<m>>, reports, team)
    <3> HIDE DEF Ms
    <3> QED
      BY <1>2, <1>4, TeamStatsAre
  <2> QED
    BY <1>3, <2>1
<1>6. ASSUME NEW name
      PROVE  TeamMeans(schema, <<m>>, reports, team, name) = MatchMeans(schema, m, reports, team, name)
  <2>1. TeamMeansFollow(schema, Ms, reports, team, name)
    BY <1>2, TeamMeansSteps
  <2>2. PICK means \in Seq(Int) : means = MatchMeans(schema, m, reports, team, name)
    BY <2>1 DEF TeamMeansFollow
  <2>3. <<>> \o means = means
    OBVIOUS
  <2>4. TeamMeans(schema, Append(<<>>, m), reports, team, name)
          = <<>> \o MatchMeans(schema, m, reports, team, name)
    BY <1>4, <2>1 DEF TeamMeansFollow
  <2> QED
    BY <1>4, <2>2, <2>3, <2>4
<1>7. ASSUME team \notin ToSet(Seats(m)) PROVE TeamStats(schema, <<m>>, reports, team) = <<>>
  <2>1. ToSet(<<m>>) = {m}
    BY DEF ToSet
  <2>2. team \notin Teams(<<m>>)
    BY <1>7, <2>1 DEF Teams
  <2>3. PICK one : one = <<m>>
    OBVIOUS
  <2>4. one \in Seq(ToSet(one)) /\ AreMatches(ToSet(one)) /\ team \notin Teams(one)
    BY <1>2, <1>4, <2>1, <2>2, <2>3
  <2>5. \A name : TeamMeans(schema, one, reports, team, name) = <<>>
    BY <1>2, <2>4, AbsentHasNoMeans
  <2>6. {n \in STRING : TeamMeans(schema, <<m>>, reports, team, n) # <<>>} = {}
    BY <2>3, <2>5
  <2>7. \A f : f = [name \in {} |-> f[name]] => f = <<>>
    OBVIOUS
  <2> QED
    BY <2>6, <2>7 DEF TeamStats
<1>8. ASSUME NEW seat \in DOMAIN Seats(m), Seats(m)[seat] = team
      PROVE  TeamStats(schema, <<m>>, reports, team)
               = MatchStats(RobotRecords(schema, m, seat, reports, team))
  <2>1. Once(Seats(m), LAMBDA t : t)
    BY DEF IsSchedule
  <2>2. PICK R : R = RobotRecords(schema, m, seat, reports, team)
    OBVIOUS
  <2>3. /\ R \in Records
        /\ \A name : TeamMeans(schema, <<m>>, reports, team, name)
                       = IF name \in DOMAIN R THEN <<Mean(R[name])>> ELSE <<>>
        /\ \A name \in DOMAIN R : Mean(R[name]) \in Int
    BY <1>2, <1>6, <1>8, <2>1, <2>2, RobotMeans
  <2>4. {n \in STRING : TeamMeans(schema, <<m>>, reports, team, n) # <<>>} = DOMAIN R
    <3>1. DOMAIN R \subseteq STRING
      BY <2>3, RecordsType
    <3>2. \A x : <<x>> # <<>>
      OBVIOUS
    <3> QED
      BY <2>3, <3>1, <3>2
  <2>5. ASSUME NEW name \in DOMAIN R
        PROVE  Stat(TeamMeans(schema, <<m>>, reports, team, name))
                 = [max |-> Greatest(<<Mean(R[name])>>), average |-> Mean(R[name])]
    <3>1. PICK x \in Int : x = Mean(R[name])
      BY <2>3
    <3>2. Total(<<x>>) = x
      <4>1. <<>> \in Seq(Int) /\ Append(<<>>, x) = <<x>>
        OBVIOUS
      <4>2. Total(Append(<<>>, x)) = Total(<<>>) + x /\ Total(<<>>) = 0
        BY <4>1, TotalSteps
      <4> QED
        BY <4>1, <4>2
    <3>3. Len(<<x>>) = 1 /\ x \div 1 = x
      OBVIOUS
    <3> QED
      BY <2>3, <3>1, <3>2, <3>3 DEF Stat
  <2> QED
    BY <2>2, <2>4, <2>5 DEF TeamStats, MatchStats
<1> QED
  BY <1>3, <1>5, <1>7, <1>8 DEF reports, schema

\* The seat of the robot within its own alliance.
OwnSeat(match, seat) == IF seat <= Len(match.red) THEN seat ELSE seat - Len(match.red)

\* The team is looked up where it has its seat, and its alliance's breakdown with it.
LEMMA SeatsByAlliance ==
    ASSUME NEW T, NEW match, match.red \in Seq(T), match.blue \in Seq(T),
           NEW seat \in DOMAIN Seats(match)
    PROVE  IF seat <= Len(match.red)
           THEN /\ Seats(match)[seat] = match.red[OwnSeat(match, seat)]
                /\ Breakdown(match, seat) = match.redBreakdown
           ELSE /\ Seats(match)[seat] = match.blue[OwnSeat(match, seat)]
                /\ Breakdown(match, seat) = match.blueBreakdown
BY DEF Seats, Breakdown, OwnSeat

\* One turn around an alliance of n seats.
LEMMA Turn ==
    ASSUME NEW n \in Nat \ {0}, NEW i \in 0 .. n - 1
    PROVE  i % n = i /\ (i + n) % n = i
OBVIOUS

\* The same, for n seats of red and k of blue, one after the other.
LEMMA TurnsMeet ==
    ASSUME NEW n \in Nat \ {0}, NEW k \in Nat
    PROVE  (\A s \in 1 .. n + k : ((s - 1) % n) + 1 = IF s <= n THEN s ELSE s - n) <=> k <= n
<1>1. ASSUME k <= n, NEW s \in 1 .. n + k
      PROVE  ((s - 1) % n) + 1 = IF s <= n THEN s ELSE s - n
  <2>1. CASE s <= n
    <3>1. s - 1 \in 0 .. n - 1
      BY <2>1
    <3>2. (s - 1) % n = s - 1
      BY <3>1, Turn
    <3> QED
      BY <2>1, <3>2
  <2>2. CASE s > n
    <3>1. PICK i \in 0 .. n - 1 : s - 1 = i + n
      <4>1. s - 1 - n \in 0 .. n - 1 /\ s - 1 = (s - 1 - n) + n
        BY <1>1, <2>2
      <4> QED
        BY <4>1
    <3>2. (s - 1) % n = i
      BY <3>1, Turn
    <3> QED
      BY <2>2, <3>1, <3>2
  <2> QED
    BY <2>1, <2>2
<1>2. ASSUME k > n PROVE \E s \in 1 .. n + k : ((s - 1) % n) + 1 # IF s <= n THEN s ELSE s - n
  <2>1. n + n + 1 \in 1 .. n + k /\ n + n \in Nat
    BY <1>2
  <2>2. (n + n) % n \in 0 .. n - 1
    BY <2>1
  <2>3. (((n + n + 1) - 1) % n) + 1 <= n
    <3>1. (n + n + 1) - 1 = n + n
      OBVIOUS
    <3> QED
      BY <2>2, <3>1
  <2>4. (((n + n + 1) - 1) % n) + 1 # IF n + n + 1 <= n THEN n + n + 1 ELSE (n + n + 1) - n
    BY <2>3
  <2> QED
    BY <2>1, <2>4
<1> QED
  BY <1>1, <1>2

\* The position of every robot is its own seat exactly if blue is no longer than red:
\* the first blue seat that red does not have is taken for seat 1 again, whatever the
\* alliances are (server/stats.go:175-181).  This is the condition of RobotInOwnPosition.
THEOREM SeatsFound ==
    ASSUME NEW T, NEW match, match.red \in Seq(T), match.blue \in Seq(T), match.red # <<>>
    PROVE  (\A seat \in DOMAIN Seats(match) : RobotPosition(match, seat) = OwnSeat(match, seat))
             <=> Len(match.blue) <= Len(match.red)
<1>1. Len(match.red) \in Nat \ {0} /\ Len(match.blue) \in Nat
  OBVIOUS
<1>2. DOMAIN Seats(match) = 1 .. Len(match.red) + Len(match.blue)
  BY DEF Seats
<1> QED
  BY <1>1, <1>2, TurnsMeet DEF RobotPosition, OwnSeat

-----------------------------------------------------------------------------
(* What a schema that is well-formed records of a match.                   *)

\* The mean of one value is the value.
LEMMA MeanOfOne ==
    ASSUME NEW value \in Values
    PROVE  Mean(<< <<value>> >>) = Number(value)
<1>1. Number(value) \in Int
  BY NumberType
<1>2. ASSUME NEW x \in Int PROVE Total(<<x>>) = x
  <2>1. <<>> \in Seq(Int) /\ Append(<<>>, x) = <<x>>
    OBVIOUS
  <2>2. Total(Append(<<>>, x)) = Total(<<>>) + x /\ Total(<<>>) = 0
    BY <2>1, TotalSteps
  <2> QED
    BY <2>1, <2>2
<1>3. SumValues(<<value>>) = Number(value)
  <2>1. Each(<<value>>, Number) = <<Number(value)>>
    BY DEF Each
  <2> QED
    BY <1>1, <1>2, <2>1 DEF SumValues
<1>4. Each(<< <<value>> >>, SumValues) = <<SumValues(<<value>>)>>
  BY DEF Each
<1>5. Len(<< <<value>> >>) = 1 /\ Number(value) \div 1 = Number(value)
  BY <1>1
<1> QED
  BY <1>1, <1>2, <1>3, <1>4, <1>5 DEF Mean

Names(schema) == {field.name : field \in ToSet(schema)}

SumsKept(schema, R) ==
  \A field \in ToSet(schema) :
    (field.sum # <<>> /\ field.name \in DOMAIN R) =>
      /\ ToSet(field.sum) \subseteq DOMAIN R
      /\ Mean(R[field.name]) = SumOfMeans(field, R)

BreakdownKept(schema, match, R) ==
  \A field \in ToSet(schema) :
    (field.tba # None /\ BreakdownKey(field.tba, match.position) \in DOMAIN match.breakdown) =>
      /\ field.name \in DOMAIN R
      /\ Mean(R[field.name]) = Number(match.breakdown[BreakdownKey(field.tba, match.position)])

Recorded(schema, match, R) ==
  DOMAIN R \subseteq Names(schema) /\ SumsKept(schema, R) /\ BreakdownKept(schema, match, R)

\* A field adds one stat or none.
LEMMA AddsOne ==
    ASSUME NEW R \in Records, NEW Q, NEW name \in STRING, Adds(R, Q, name), name \notin DOMAIN R
    PROVE  /\ Q \in Records /\ DOMAIN R \subseteq DOMAIN Q /\ DOMAIN Q \subseteq DOMAIN R \cup {name}
           /\ \A n \in DOMAIN R : Q[n] = R[n]
<1>1. CASE Q = R
  BY <1>1
<1>2. ASSUME NEW groups \in Groups, Q = Record(R, name, groups)
      PROVE  /\ Q \in Records /\ DOMAIN R \subseteq DOMAIN Q /\ DOMAIN Q \subseteq DOMAIN R \cup {name}
             /\ \A n \in DOMAIN R : Q[n] = R[n]
  <2>1. /\ Record(R, name, groups) \in Records
        /\ DOMAIN Record(R, name, groups) = DOMAIN R \cup {name}
        /\ \A n \in DOMAIN R \ {name} : Record(R, name, groups)[n] = R[n]
    BY RecordType
  <2>2. /\ Q \in Records /\ DOMAIN Q = DOMAIN R \cup {name}
        /\ \A n \in DOMAIN R \ {name} : Q[n] = R[n]
    BY <1>2, <2>1
  <2> QED
    BY <2>2
<1> QED
  BY <1>1, <1>2 DEF Adds

\* The first value that is recorded of a stat is its mean.
LEMMA FirstValue ==
    ASSUME NEW R \in Records, NEW name \in STRING, name \notin DOMAIN R, NEW value \in Values
    PROVE  /\ name \in DOMAIN RecordValue(R, name, value)
           /\ Mean(RecordValue(R, name, value)[name]) = Number(value)
<1>1. /\ DOMAIN RecordValue(R, name, value) = DOMAIN R \cup {name}
      /\ RecordValue(R, name, value)[name] = RecordsOf(R, name) \o << <<value>> >>
  BY RecordValueType
<1>2. RecordsOf(R, name) = <<>>
  BY DEF RecordsOf
<1>3. <<>> \o << <<value>> >> = << <<value>> >>
  OBVIOUS
<1> QED
  BY <1>1, <1>2, <1>3, MeanOfOne

\* The means that a field refers to do not change when another stat is added.
LEMMA SumOfMeansKept ==
    ASSUME NEW field, field.sum \in Seq(STRING), NEW R \in Records, NEW Q \in Records,
           ToSet(field.sum) \subseteq DOMAIN R, DOMAIN R \subseteq DOMAIN Q,
           \A n \in DOMAIN R : Q[n] = R[n]
    PROVE  SumOfMeans(field, Q) = SumOfMeans(field, R)
<1>1. \A i \in DOMAIN field.sum : RecordsOf(Q, field.sum[i]) = RecordsOf(R, field.sum[i])
  BY DEF RecordsOf, ToSet
<1>2. [i \in DOMAIN field.sum |-> Mean(RecordsOf(Q, field.sum[i]))]
        = [i \in DOMAIN field.sum |-> Mean(RecordsOf(R, field.sum[i]))]
  BY <1>1
<1> QED
  BY <1>2 DEF SumOfMeans, Each

\* One field more: it records its own stat only, and sees the final records of others.
LEMMA RecordedStep ==
    ASSUME NEW s \in Seq(Fields), NEW field \in Fields, NEW match, IsTeamMatch(match), NEW R \in Records,
           Recorded(s, match, R), IsSchema(Append(s, field))
    PROVE  Recorded(Append(s, field), match, SummarizeField(field, match, R))
<1> DEFINE Q == SummarizeField(field, match, R)
           t == Append(s, field)
<1>0. /\ ToSet(t) = ToSet(s) \cup {field} /\ ToSet(s) \subseteq Fields
      /\ \A f \in Fields : f.name \in STRING /\ f.sum \in Seq(STRING)
  <2>1. ToSet(t) = ToSet(s) \cup {field} /\ ToSet(s) \subseteq Fields
    BY ToSetSteps
  <2>2. \A f \in Fields : f.name \in STRING /\ f.sum \in Seq(STRING)
    BY DEF Fields
  <2> HIDE DEF t
  <2> QED
    BY <2>1, <2>2
<1>1. \A f \in ToSet(s) : f.name # field.name
  <2>1. /\ DOMAIN t = 1 .. Len(s) + 1 /\ t[Len(s) + 1] = field /\ Len(s) \in Nat
        /\ DOMAIN s = 1 .. Len(s) /\ \A i \in 1 .. Len(s) : t[i] = s[i]
    OBVIOUS
  <2>2. \A i, j \in DOMAIN t : t[i].name = t[j].name => i = j
    BY DEF IsSchema, Once
  <2> HIDE DEF t
  <2>3. \A i \in DOMAIN s : s[i].name # field.name
    BY <2>1, <2>2
  <2> QED
    BY <2>3 DEF ToSet
<1>2. field.name \notin DOMAIN R
  BY <1>1 DEF Recorded, Names
<1>3. Adds(R, Q, field.name)
  BY FieldType
<1>4. /\ Q \in Records /\ DOMAIN R \subseteq DOMAIN Q /\ DOMAIN Q \subseteq DOMAIN R \cup {field.name}
      /\ \A n \in DOMAIN R : Q[n] = R[n]
  <2> HIDE DEF Q
  <2> QED
    BY <1>0, <1>2, <1>3, AddsOne
<1>5. /\ field.sum # <<>> => field.report = None /\ field.tba = None
      /\ field.tba # None => field.report = None
  BY <1>0 DEF IsSchema
<1>6. ASSUME field.sum # <<>>, field.name \in DOMAIN Q
      PROVE  /\ ToSet(field.sum) \subseteq DOMAIN Q
             /\ Mean(Q[field.name]) = SumOfMeans(field, Q)
  <2>1. Q = SummarizeSum(field, R)
    BY <1>5, <1>6 DEF SummarizeField
  <2>2. ~ \E name \in ToSet(field.sum) : RecordsOf(R, name) = <<>>
    BY <1>2, <1>6, <2>1 DEF SummarizeSum
  <2>3. Q = RecordValue(R, field.name, <<"num", SumOfMeans(field, R)>>)
    BY <2>1, <2>2 DEF SummarizeSum, SumOfMeans
  <2>4. ToSet(field.sum) \subseteq DOMAIN R
    BY <2>2 DEF RecordsOf
  <2>5. SumOfMeans(field, R) \in Int
    BY <1>0, <2>2, SumOfMeansType
  <2>6. /\ <<"num", SumOfMeans(field, R)>> \in Values
        /\ Number(<<"num", SumOfMeans(field, R)>>) = SumOfMeans(field, R)
    BY <2>5 DEF Values, Number
  <2>7. Mean(Q[field.name]) = SumOfMeans(field, R)
    BY <1>0, <1>2, <2>3, <2>6, FirstValue
  <2>8. SumOfMeans(field, Q) = SumOfMeans(field, R)
    <3> HIDE DEF Q
    <3> QED
      BY <1>0, <1>4, <2>4, SumOfMeansKept
  <2> QED
    BY <1>4, <2>4, <2>7, <2>8
<1>7. ASSUME NEW f \in ToSet(s), f.sum # <<>>, f.name \in DOMAIN Q
      PROVE  /\ ToSet(f.sum) \subseteq DOMAIN Q
             /\ Mean(Q[f.name]) = SumOfMeans(f, Q)
  <2>1. f.name \in DOMAIN R
    BY <1>1, <1>4, <1>7
  <2>2. ToSet(f.sum) \subseteq DOMAIN R /\ Mean(R[f.name]) = SumOfMeans(f, R)
    BY <1>7, <2>1 DEF Recorded, SumsKept
  <2>3. SumOfMeans(f, Q) = SumOfMeans(f, R)
    <3>1. f.sum \in Seq(STRING)
      BY <1>0
    <3> HIDE DEF Q
    <3> QED
      BY <1>4, <2>2, <3>1, SumOfMeansKept
  <2> QED
    BY <1>4, <2>1, <2>2, <2>3
<1>8. ASSUME field.tba # None, BreakdownKey(field.tba, match.position) \in DOMAIN match.breakdown
      PROVE  /\ field.name \in DOMAIN Q
             /\ Mean(Q[field.name]) = Number(match.breakdown[BreakdownKey(field.tba, match.position)])
  <2>1. Q = RecordValue(R, field.name, match.breakdown[BreakdownKey(field.tba, match.position)])
    BY <1>5, <1>8 DEF SummarizeField, SummarizeTBAReference
  <2>2. match.breakdown[BreakdownKey(field.tba, match.position)] \in Values
    BY <1>8 DEF IsTeamMatch, IsBreakdown
  <2> QED
    BY <1>0, <1>2, <2>1, <2>2, FirstValue
<1>9. ASSUME NEW f \in ToSet(s), f.tba # None,
             BreakdownKey(f.tba, match.position) \in DOMAIN match.breakdown
      PROVE  /\ f.name \in DOMAIN Q
             /\ Mean(Q[f.name]) = Number(match.breakdown[BreakdownKey(f.tba, match.position)])
  <2>1. /\ f.name \in DOMAIN R
        /\ Mean(R[f.name]) = Number(match.breakdown[BreakdownKey(f.tba, match.position)])
    BY <1>9 DEF Recorded, BreakdownKept
  <2> QED
    BY <1>4, <2>1
<1>10. DOMAIN Q \subseteq Names(t)
  BY <1>0, <1>4 DEF Recorded, Names
<1> HIDE DEF Q, t
<1>11. SumsKept(t, Q)
  BY <1>0, <1>6, <1>7 DEF SumsKept
<1>12. BreakdownKept(t, match, Q)
  BY <1>0, <1>8, <1>9 DEF BreakdownKept
<1> QED
  BY <1>10, <1>11, <1>12 DEF Recorded, Q, t

\* So sums and breakdowns hold of the records of a whole schema.
LEMMA RecordedAlways ==
    ASSUME NEW match, IsTeamMatch(match)
    PROVE  \A schema \in Seq(Fields) :
             IsSchema(schema) => Recorded(schema, match, SummarizeMatch(schema, match))
<1> DEFINE S == {s \in Seq(Fields) : IsSchema(s) => Recorded(s, match, SummarizeMatch(s, match))}
<1>s. /\ SummarizeMatch(<<>>, match) = <<>>
      /\ \A s \in Seq(Fields) : SummarizeMatch(s, match) \in Records
      /\ \A s \in Seq(Fields), field \in Fields :
           SummarizeMatch(Append(s, field), match) = SummarizeField(field, match, SummarizeMatch(s, match))
  BY SummarizeMatchSteps
<1>1. <<>> \in S
  <2>1. <<>> \in Seq(Fields) /\ ToSet(<<>>) = {} /\ DOMAIN <<>> = {}
    BY ToSetSteps
  <2>2. Recorded(<<>>, match, <<>>)
    BY <2>1 DEF Recorded, SumsKept, BreakdownKept
  <2> QED
    BY <1>s, <2>1, <2>2
<1>2. ASSUME NEW s \in Seq(Fields), NEW field \in Fields, s \in S PROVE Append(s, field) \in S
  <2>0. Append(s, field) \in Seq(Fields)
    OBVIOUS
  <2>1. ASSUME IsSchema(Append(s, field))
        PROVE  Recorded(Append(s, field), match, SummarizeMatch(Append(s, field), match))
    <3>1. IsSchema(s)
      <4>1. /\ DOMAIN s = 1 .. Len(s) /\ Len(s) \in Nat
            /\ DOMAIN Append(s, field) = 1 .. Len(s) + 1
            /\ \A i \in 1 .. Len(s) : Append(s, field)[i] = s[i]
        OBVIOUS
      <4>2. \A i, j \in DOMAIN s : s[i].name = s[j].name => i = j
        <5>1. \A i, j \in DOMAIN Append(s, field) :
                Append(s, field)[i].name = Append(s, field)[j].name => i = j
          BY <2>1 DEF IsSchema, Once
        <5> QED
          BY <4>1, <5>1
      <4>3. ToSet(s) \subseteq ToSet(Append(s, field))
        BY ToSetSteps
      <4> QED
        BY <2>1, <4>2, <4>3 DEF IsSchema, Once
    <3>2. PICK R \in Records : R = SummarizeMatch(s, match)
      BY <1>s
    <3>3. Recorded(s, match, R)
      BY <1>2, <3>1, <3>2
    <3>4. Recorded(Append(s, field), match, SummarizeField(field, match, R))
      BY <2>1, <3>3, RecordedStep
    <3> QED
      BY <1>s, <3>2, <3>4
  <2> QED
    BY <2>0, <2>1
<1>3. Seq(Fields) \subseteq S
  <2> HIDE DEF S
  <2> QED
    BY <1>1, <1>2, SeqInduction
<1> QED
  BY <1>3

-----------------------------------------------------------------------------
(* The answer for a team in a match.                                       *)

SumsIn(schema, stats) ==
  \A field \in ToSet(schema) :
    (field.sum # <<>> /\ field.name \in DOMAIN stats) =>
      stats[field.name].average = Total([i \in DOMAIN field.sum |-> stats[field.sum[i]].average])

BreakdownIn(schema, match, seat, stats) ==
  \A field \in ToSet(schema) :
    (field.tba # None /\ BreakdownKey(field.tba, RobotPosition(match, seat)) \in DOMAIN Breakdown(match, seat)) =>
      /\ field.name \in DOMAIN stats
      /\ stats[field.name].average
           = Number(Breakdown(match, seat)[BreakdownKey(field.tba, RobotPosition(match, seat))])

\* What is recorded is what is answered.
LEMMA RobotStats ==
    ASSUME NEW schema \in Seq(Fields), IsSchema(schema), NEW m, IsMatchRow(m), Once(Seats(m), LAMBDA t : t),
           NEW reports, AreReports(reports), NEW seat \in DOMAIN Seats(m)
    PROVE  LET stats == MatchStats(RobotRecords(schema, m, seat, reports, Seats(m)[seat]))
           IN SumsIn(schema, stats) /\ BreakdownIn(schema, m, seat, stats)
<1> DEFINE p == PlayAt(m, seat, reports, Seats(m)[seat])
           R == RobotRecords(schema, m, seat, reports, Seats(m)[seat])
           stats == MatchStats(R)
<1>1. R \in Records /\ IsTeamMatch(p)
  BY RobotMeans
<1>2. Recorded(schema, p, R)
  BY <1>1, RecordedAlways DEF RobotRecords
<1>3. p.position = RobotPosition(m, seat) /\ p.breakdown = Breakdown(m, seat)
  BY DEF PlayAt
<1>4. DOMAIN R \subseteq STRING /\ \A n \in DOMAIN R : RecordsOf(R, n) = R[n]
  BY <1>1, RecordsType
<1> HIDE DEF R, p
<1>5. DOMAIN stats = DOMAIN R /\ \A n \in DOMAIN R : stats[n].average = Mean(R[n])
  BY DEF MatchStats
<1> HIDE DEF stats
<1>6. SumsIn(schema, stats)
  <2>1. ASSUME NEW field \in ToSet(schema), field.sum # <<>>, field.name \in DOMAIN R
        PROVE  stats[field.name].average = Total([i \in DOMAIN field.sum |-> stats[field.sum[i]].average])
    <3>1. ToSet(field.sum) \subseteq DOMAIN R /\ Mean(R[field.name]) = SumOfMeans(field, R)
      BY <1>2, <2>1 DEF Recorded, SumsKept
    <3>2. \A i \in DOMAIN field.sum : field.sum[i] \in DOMAIN R
      BY <3>1 DEF ToSet
    <3>3. [i \in DOMAIN field.sum |-> Mean(RecordsOf(R, field.sum[i]))]
            = [i \in DOMAIN field.sum |-> stats[field.sum[i]].average]
      BY <1>4, <1>5, <3>2
    <3> QED
      BY <1>5, <2>1, <3>1, <3>3 DEF SumOfMeans, Each
  <2> QED
    BY <1>5, <2>1 DEF SumsIn
<1>7. BreakdownIn(schema, m, seat, stats)
  BY <1>2, <1>3, <1>5 DEF Recorded, BreakdownKept, BreakdownIn
<1> QED
  BY <1>6, <1>7 DEF stats, R

\* The match that is asked for, and the one seat of the team that is asked for.
AnsweredFor(key, team, m) ==
  /\ input.event.schema \in Seq(Fields) /\ IsSchema(input.event.schema)
  /\ answer.to[1] = key /\ answer.to[2] = team
  /\ m \in ToSet(input.matches) /\ m.key = key /\ IsMatchRow(m)
  /\ \A n \in ToSet(input.matches) : n.key = key => n = m
  /\ team \notin ToSet(Seats(m)) => answer.stats[team] = <<>>
  /\ \A seat \in DOMAIN Seats(m) :
       Seats(m)[seat] = team => /\ SumsIn(input.event.schema, answer.stats[team])
                                /\ BreakdownIn(input.event.schema, m, seat, answer.stats[team])

\* What there is to say of every answer of the match endpoint.
LEMMA ForMatchAnswer ==
    ASSUME Explained, ForMatch, WellFormed(input)
    PROVE  \E key, team, m : AnsweredFor(key, team, m)
<1>1. IsInput(input)
  BY ForMatchIs
<1>2. PICK key, team : /\ answer = MatchAnswer(input, key, team)
                       /\ answer.to = <<key, team>>
                       /\ MatchAnswered(input, key, team)
  BY ForMatchIs
<1>3. PICK m \in ToSet(input.matches) : m.key = key
  BY <1>1, <1>2, MatchInfoOf DEF MatchAnswered
<1>4. IsSchedule(input.matches) /\ input.event.schema \in Seq(Fields) /\ IsSchema(input.event.schema)
  BY <1>2 DEF WellFormed, MatchAnswered
<1>5. IsMatchRow(m) /\ Once(Seats(m), LAMBDA t : t)
  BY <1>1, <1>4 DEF IsInput, AreMatches, IsSchedule
<1>6. AreReports(VisibleReports(input))
  BY <1>1, VisibleType
<1>7. \A n \in ToSet(input.matches) : n.key = key => n = m
  BY <1>3, <1>4 DEF IsSchedule, Once, ToSet
<1>8. /\ team \notin ToSet(Seats(m)) => answer.stats[team] = <<>>
      /\ \A seat \in DOMAIN Seats(m) :
           Seats(m)[seat] = team =>
             answer.stats[team]
               = MatchStats(RobotRecords(input.event.schema, m, seat, VisibleReports(input), team))
  BY <1>1, <1>2, <1>3, <1>4, MatchStatsAre
<1>9. ASSUME NEW seat \in DOMAIN Seats(m), Seats(m)[seat] = team
      PROVE  /\ SumsIn(input.event.schema, answer.stats[team])
             /\ BreakdownIn(input.event.schema, m, seat, answer.stats[team])
  BY <1>4, <1>5, <1>6, <1>8, <1>9, RobotStats
<1>10. answer.to[1] = key /\ answer.to[2] = team
  BY <1>2
<1> QED
  BY <1>3, <1>4, <1>5, <1>7, <1>8, <1>9, <1>10 DEF AnsweredFor

\* Sums hold of every such answer.
LEMMA SumsStep ==
    ASSUME Explained, WellFormed(input)
    PROVE  SumsAddUp
<1> SUFFICES ASSUME ForMatch PROVE SumsAddUp
  BY DEF SumsAddUp
<1>1. PICK key, team, m : AnsweredFor(key, team, m)
  BY ForMatchAnswer
<1>2. SumsIn(input.event.schema, answer.stats[team])
  <2>1. CASE team \in ToSet(Seats(m))
    <3>1. PICK seat \in DOMAIN Seats(m) : Seats(m)[seat] = team
      BY <2>1 DEF ToSet
    <3> QED
      BY <1>1, <3>1 DEF AnsweredFor
  <2>2. CASE team \notin ToSet(Seats(m))
    <3>1. answer.stats[team] = <<>> /\ DOMAIN <<>> = {}
      BY <1>1, <2>2 DEF AnsweredFor
    <3> QED
      BY <3>1 DEF SumsIn
  <2> QED
    BY <2>1, <2>2
<1>3. answer.to[2] = team
  BY <1>1 DEF AnsweredFor
<1> QED
  BY <1>2, <1>3 DEF SumsAddUp, SumsIn, Each

\* In every schema that names each stat once, a sum is the sum of the averages beside it:
\* summarizeSum averages before it adds, and nothing changes a stat after it is recorded
\* (summary.go:216-240).  A stat that is described twice may get a record after its sum was taken.
THEOREM SumsAreSums ==
    ASSUME \A in \in Inputs : WellFormed(in)
    PROVE  Spec => []SumsAddUp
<1>1. Explained => SumsAddUp
  BY SumsStep DEF Explained
<1> QED
  BY <1>1, ExplainedAlways, PTL

\* Red sits first, and blue after it.
LEMMA SeatNumbers ==
    ASSUME NEW T, NEW m, m.red \in Seq(T), m.blue \in Seq(T)
    PROVE  /\ \A i \in DOMAIN m.red :
                /\ i \in DOMAIN Seats(m) /\ Seats(m)[i] = m.red[i]
                /\ OwnSeat(m, i) = i /\ Breakdown(m, i) = m.redBreakdown
           /\ \A i \in DOMAIN m.blue :
                /\ Len(m.red) + i \in DOMAIN Seats(m) /\ Seats(m)[Len(m.red) + i] = m.blue[i]
                /\ OwnSeat(m, Len(m.red) + i) = i /\ Breakdown(m, Len(m.red) + i) = m.blueBreakdown
<1>1. \A s, t \in Seq(T) :
        /\ \A i \in DOMAIN s : i \in DOMAIN (s \o t) /\ (s \o t)[i] = s[i]
        /\ \A i \in DOMAIN t : Len(s) + i \in DOMAIN (s \o t) /\ (s \o t)[Len(s) + i] = t[i]
  OBVIOUS
<1>2. ASSUME NEW i \in DOMAIN m.red PROVE OwnSeat(m, i) = i /\ Breakdown(m, i) = m.redBreakdown
  <2>1. i <= Len(m.red) /\ ~(i > Len(m.red))
    OBVIOUS
  <2> QED
    BY <2>1 DEF OwnSeat, Breakdown
<1>3. ASSUME NEW i \in DOMAIN m.blue
      PROVE  /\ OwnSeat(m, Len(m.red) + i) = i
             /\ Breakdown(m, Len(m.red) + i) = m.blueBreakdown
  <2>1. Len(m.red) + i > Len(m.red) /\ ~(Len(m.red) + i <= Len(m.red)) /\ (Len(m.red) + i) - Len(m.red) = i
    OBVIOUS
  <2> QED
    BY <2>1 DEF OwnSeat, Breakdown
<1> QED
  BY <1>1, <1>2, <1>3 DEF Seats

\* And so do positions, where blue is no longer than red.
LEMMA RobotStep ==
    ASSUME Explained, WellFormed(input)
    PROVE  RobotInOwnPosition
<1> SUFFICES ASSUME ForMatch PROVE RobotInOwnPosition
  BY DEF RobotInOwnPosition
<1>1. PICK key, team, m : AnsweredFor(key, team, m)
  BY ForMatchAnswer
<1> DEFINE stats == answer.stats[team]
<1>2. m.red \in Seq(STRING) /\ m.blue \in Seq(STRING) /\ Len(m.red) \in Nat /\ Len(m.blue) \in Nat
  BY <1>1 DEF AnsweredFor, IsMatchRow
<1>3. ASSUME Len(m.blue) <= Len(m.red), NEW field \in ToSet(input.event.schema),
             field.tba # None, field.tba.positional,
             NEW seat \in DOMAIN Seats(m), Seats(m)[seat] = team,
             NEW i, i = OwnSeat(m, seat), <<field.tba.stem, i>> \in DOMAIN Breakdown(m, seat)
      PROVE  /\ field.name \in DOMAIN stats
             /\ stats[field.name].average = Number(Breakdown(m, seat)[<<field.tba.stem, i>>])
  <2>1. m.red # <<>>
    <3>1. DOMAIN Seats(m) = 1 .. Len(m.red) + Len(m.blue)
      BY <1>2 DEF Seats
    <3>2. CASE m.red = <<>>
      <4>1. Len(m.red) = 0
        BY <3>2
      <4> QED
        BY <1>2, <1>3, <3>1, <4>1
    <3> QED
      BY <3>2
  <2>2. RobotPosition(m, seat) = i
    BY <1>2, <1>3, <2>1, SeatsFound
  <2>3. BreakdownKey(field.tba, RobotPosition(m, seat)) = <<field.tba.stem, i>>
    BY <1>3, <2>2 DEF BreakdownKey
  <2>4. BreakdownIn(input.event.schema, m, seat, stats)
    BY <1>1, <1>3 DEF AnsweredFor
  <2> QED
    BY <1>3, <2>3, <2>4 DEF BreakdownIn
<1>4. /\ \A i \in DOMAIN m.red :
           /\ i \in DOMAIN Seats(m) /\ Seats(m)[i] = m.red[i]
           /\ OwnSeat(m, i) = i /\ Breakdown(m, i) = m.redBreakdown
      /\ \A i \in DOMAIN m.blue :
           /\ Len(m.red) + i \in DOMAIN Seats(m) /\ Seats(m)[Len(m.red) + i] = m.blue[i]
           /\ OwnSeat(m, Len(m.red) + i) = i /\ Breakdown(m, Len(m.red) + i) = m.blueBreakdown
  BY <1>2, SeatNumbers
<1>5. ASSUME NEW match \in ToSet(input.matches), match.key = answer.to[1] PROVE match = m
  BY <1>1, <1>5 DEF AnsweredFor
<1>6. answer.to[2] = team
  BY <1>1 DEF AnsweredFor
<1>7. ASSUME Len(m.blue) <= Len(m.red), NEW field \in ToSet(input.event.schema),
             field.tba # None, field.tba.positional
      PROVE  /\ \A i \in DOMAIN m.red :
                  (m.red[i] = team /\ <<field.tba.stem, i>> \in DOMAIN m.redBreakdown) =>
                    /\ field.name \in DOMAIN stats
                    /\ stats[field.name].average = Number(m.redBreakdown[<<field.tba.stem, i>>])
             /\ \A i \in DOMAIN m.blue :
                  (m.blue[i] = team /\ <<field.tba.stem, i>> \in DOMAIN m.blueBreakdown) =>
                    /\ field.name \in DOMAIN stats
                    /\ stats[field.name].average = Number(m.blueBreakdown[<<field.tba.stem, i>>])
  <2>1. ASSUME NEW i \in DOMAIN m.red, m.red[i] = team, <<field.tba.stem, i>> \in DOMAIN m.redBreakdown
        PROVE  /\ field.name \in DOMAIN stats
               /\ stats[field.name].average = Number(m.redBreakdown[<<field.tba.stem, i>>])
    BY <1>3, <1>4, <1>7, <2>1
  <2>2. ASSUME NEW i \in DOMAIN m.blue, m.blue[i] = team, <<field.tba.stem, i>> \in DOMAIN m.blueBreakdown
        PROVE  /\ field.name \in DOMAIN stats
               /\ stats[field.name].average = Number(m.blueBreakdown[<<field.tba.stem, i>>])
    <3>1. PICK seat \in DOMAIN Seats(m) : /\ Seats(m)[seat] = team /\ i = OwnSeat(m, seat)
                                          /\ Breakdown(m, seat) = m.blueBreakdown
      BY <1>4, <2>2
    <3> QED
      BY <1>3, <1>7, <2>2, <3>1
  <2> QED
    BY <2>1, <2>2
<1>8. ASSUME NEW match \in {n \in ToSet(input.matches) : n.key = answer.to[1] /\ Len(n.blue) <= Len(n.red)},
             NEW field \in {f \in ToSet(input.event.schema) : f.tba # None /\ f.tba.positional}
      PROVE  /\ match = m /\ Len(m.blue) <= Len(m.red)
             /\ field \in ToSet(input.event.schema) /\ field.tba # None /\ field.tba.positional
  BY <1>5
<1> HIDE DEF stats
<1> QED
  BY <1>6, <1>7, <1>8 DEF RobotInOwnPosition, stats

\* Wherever blue is no longer than red, a stat of a robot is read from its own alliance's
\* breakdown and its own seat in it (server/stats.go:171-191, summary.go:25), and is not
\* changed by what else the schema records.
THEOREM RobotsInTheirPositions ==
    ASSUME \A in \in Inputs : WellFormed(in)
    PROVE  Spec => []RobotInOwnPosition
<1>1. Explained => RobotInOwnPosition
  BY RobotStep DEF Explained
<1> QED
  BY <1>1, ExplainedAlways, PTL

-----------------------------------------------------------------------------
(* A sum over a set of matches.                                            *)

\* What the property adds up.
SumOfAverages(inMatch, name, keys) == MapThenSumSet(LAMBDA key : inMatch[key][name].average, keys)

\* sums has the sum of every subset of keys, whatever the order they are added in.
Adding(sums, inMatch, name, keys) ==
  /\ sums \in [SUBSET keys -> Int]
  /\ sums[{}] = 0
  /\ \A some \in SUBSET keys : \A key \in some :
       /\ inMatch[key][name].average \in Int
       /\ sums[some] = inMatch[key][name].average + sums[some \ {key}]

\* The library's sum, which takes the keys in an order of its own, is that sum.
LEMMA AddingIs ==
    ASSUME NEW inMatch, NEW name, NEW keys, IsFiniteSet(keys),
           NEW sums, Adding(sums, inMatch, name, keys)
    PROVE  SumOfAverages(inMatch, name, keys) = sums[keys]
<1> DEFINE First(some) == CHOOSE key \in some : TRUE
           Is(f) == f = [some \in SUBSET keys |->
                           IF some = {} THEN 0
                           ELSE inMatch[First(some)][name].average + f[some \ {First(some)}]]
           fold == CHOOSE f : Is(f)
<1>1. \A some : some # {} => First(some) \in some
  OBVIOUS
<1>2. SumOfAverages(inMatch, name, keys) = fold[keys]
  BY Zenon DEF SumOfAverages, MapThenSumSet, MapThenFoldSet
<1> HIDE DEF First
<1>3. \A some \in SUBSET keys :
        sums[some] = IF some = {} THEN 0
                     ELSE inMatch[First(some)][name].average + sums[some \ {First(some)}]
  BY <1>1 DEF Adding
<1>4. Is(sums)
  <2>1. sums = [some \in SUBSET keys |-> sums[some]]
    BY DEF Adding
  <2> QED
    BY <1>3, <2>1
<1>5. Is(fold)
  <2> HIDE DEF Is
  <2> QED
    BY <1>4
<1> HIDE DEF fold
<1>6. \A some \in SUBSET keys :
        fold[some] = IF some = {} THEN 0
                     ELSE inMatch[First(some)][name].average + fold[some \ {First(some)}]
  BY <1>5
<1> DEFINE S == {n \in Nat : \A some \in SUBSET keys : Cardinality(some) = n => fold[some] = sums[some]}
<1>7. 0 \in S
  <2>1. \A some \in SUBSET keys : Cardinality(some) = 0 => some = {}
    BY FS_Subset, FS_EmptySet
  <2> QED
    BY <1>6, <2>1 DEF Adding
<1>8. ASSUME NEW n \in Nat, n \in S PROVE n + 1 \in S
  <2> SUFFICES ASSUME NEW some \in SUBSET keys, Cardinality(some) = n + 1
               PROVE  fold[some] = sums[some]
    OBVIOUS
  <2>1. IsFiniteSet(some)
    BY FS_Subset
  <2>2. some # {}
    BY <2>1, FS_EmptySet
  <2>3. PICK key \in some : key = First(some)
    BY <1>1, <2>2
  <2>4. Cardinality(some \ {key}) = n
    <3>1. Cardinality(some \ {key}) = Cardinality(some) - 1
      BY <2>1, FS_RemoveElement
    <3> QED
      BY <3>1
  <2>5. some \ {key} \in SUBSET keys
    OBVIOUS
  <2>6. fold[some \ {key}] = sums[some \ {key}]
    BY <1>8, <2>4, <2>5
  <2> QED
    BY <1>3, <1>6, <2>2, <2>3, <2>6
<1>9. Nat \subseteq S
  <2> HIDE DEF S
  <2> QED
    BY <1>7, <1>8, Induction
<1>10. Cardinality(keys) \in Nat
  BY FS_CardinalityType
<1> QED
  BY <1>2, <1>9, <1>10

\* The sums of one key more.
AddsTo(sums, inMatch, name, keys, new) ==
  \E more : /\ Adding(more, inMatch, name, keys \cup {new})
            /\ more[keys \cup {new}] = inMatch[new][name].average + sums[keys]

\* They exist when they exist for one key less.
LEMMA AddingOne ==
    ASSUME NEW inMatch, NEW name, NEW keys, NEW sums, Adding(sums, inMatch, name, keys),
           NEW new, new \notin keys, inMatch[new][name].average \in Int
    PROVE  AddsTo(sums, inMatch, name, keys, new)
<1> DEFINE all == keys \cup {new}
           more == [some \in SUBSET all |->
                      IF new \in some THEN inMatch[new][name].average + sums[some \ {new}] ELSE sums[some]]
<1>1. /\ sums \in [SUBSET keys -> Int] /\ sums[{}] = 0
      /\ \A some \in SUBSET keys : \A key \in some :
           /\ inMatch[key][name].average \in Int
           /\ sums[some] = inMatch[key][name].average + sums[some \ {key}]
  BY DEF Adding
<1>2. PICK a \in Int : a = inMatch[new][name].average
  OBVIOUS
<1>3. \A some \in SUBSET all : /\ some \ {new} \in SUBSET keys
                               /\ new \notin some => some \in SUBSET keys
                               /\ \A key : some \ {key} \in SUBSET all
  OBVIOUS
<1>4. \A some \in SUBSET all : more[some] = IF new \in some THEN a + sums[some \ {new}] ELSE sums[some]
  BY <1>2
<1>5. more \in [SUBSET all -> Int]
  <2>1. \A some \in SUBSET all : more[some] \in Int
    BY <1>1, <1>3, <1>4
  <2> QED
    BY <2>1
<1> HIDE DEF more, all
<1>6. more[{}] = 0
  BY <1>1, <1>4
<1>7. ASSUME NEW some \in SUBSET all, NEW key \in some
      PROVE  /\ inMatch[key][name].average \in Int
             /\ more[some] = inMatch[key][name].average + more[some \ {key}]
  <2>1. CASE key = new
    <3>1. more[some \ {key}] = sums[some \ {new}]
      BY <1>3, <1>4, <2>1
    <3> QED
      BY <1>2, <1>4, <2>1, <3>1
  <2>2. CASE key # new /\ new \notin some
    <3>1. some \in SUBSET keys /\ more[some] = sums[some] /\ more[some \ {key}] = sums[some \ {key}]
      BY <1>3, <1>4, <2>2
    <3> QED
      BY <1>1, <3>1
  <2>3. CASE key # new /\ new \in some
    <3>1. PICK rest \in SUBSET keys : rest = some \ {new}
      BY <1>3
    <3>2. key \in rest /\ (some \ {key}) \ {new} = rest \ {key} /\ new \in some \ {key}
      BY <2>3, <3>1
    <3>3. more[some] = a + sums[rest] /\ more[some \ {key}] = a + sums[rest \ {key}]
      <4>1. more[some] = a + sums[rest]
        BY <1>4, <2>3, <3>1
      <4>2. PICK others \in SUBSET all : others = some \ {key}
        BY <1>3
      <4>3. more[others] = a + sums[others \ {new}] /\ others \ {new} = rest \ {key}
        BY <1>4, <3>2, <4>2
      <4> QED
        BY <4>1, <4>2, <4>3
    <3>4. PICK b \in Int : b = inMatch[key][name].average
      BY <1>1, <3>2
    <3>5. sums[rest] = b + sums[rest \ {key}] /\ sums[rest \ {key}] \in Int
      <4>1. rest \ {key} \in SUBSET keys
        OBVIOUS
      <4> QED
        BY <1>1, <3>2, <3>4, <4>1
    <3> QED
      BY <3>3, <3>4, <3>5
  <2> QED
    BY <2>1, <2>2, <2>3
<1>8. more[all] = inMatch[new][name].average + sums[keys]
  <2>1. all \in SUBSET all /\ new \in all /\ all \ {new} = keys
    BY DEF all
  <2> QED
    BY <1>2, <1>4, <2>1
<1>9. Adding(more, inMatch, name, all)
  BY <1>5, <1>6, <1>7 DEF Adding
<1> QED
  BY <1>8, <1>9 DEF AddsTo, all

-----------------------------------------------------------------------------
(* The means of a team's matches, and the keys of the matches they are of. *)

\* means are the averages of the matches keys, each of them once.
Matched(inMatch, name, keys, means) ==
  /\ IsFiniteSet(keys) /\ Cardinality(keys) = Len(means)
  /\ ToSet(means) = {inMatch[key][name].average : key \in keys}
  /\ \E sums : Adding(sums, inMatch, name, keys) /\ sums[keys] = Total(means)

\* No matches have no means.
LEMMA MatchedNone ==
    ASSUME NEW inMatch, NEW name
    PROVE  Matched(inMatch, name, {}, <<>>)
<1>1. IsFiniteSet({}) /\ Cardinality({}) = 0 /\ Len(<<>>) = 0
  BY FS_EmptySet
<1>2. ToSet(<<>>) = {inMatch[key][name].average : key \in {}}
  BY ToSetSteps
<1>3. PICK sums : sums = [some \in SUBSET {} |-> 0]
  OBVIOUS
<1>4. Adding(sums, inMatch, name, {}) /\ sums[{}] = 0
  BY <1>3 DEF Adding
<1>5. Total(<<>>) = 0
  BY TotalSteps
<1> QED
  BY <1>1, <1>2, <1>4, <1>5 DEF Matched

\* One match more has one mean more.
LEMMA MatchedOne ==
    ASSUME NEW inMatch, NEW name, NEW keys, NEW means \in Seq(Int), Matched(inMatch, name, keys, means),
           NEW new, new \notin keys, inMatch[new][name].average \in Int
    PROVE  Matched(inMatch, name, keys \cup {new}, Append(means, inMatch[new][name].average))
<1>1. PICK a \in Int : a = inMatch[new][name].average
  OBVIOUS
<1>2. /\ IsFiniteSet(keys \cup {new})
      /\ Cardinality(keys \cup {new}) = Cardinality(keys) + 1
      /\ Cardinality(keys) = Len(means)
  BY FS_AddElement DEF Matched
<1>3. Len(Append(means, a)) = Len(means) + 1
  OBVIOUS
<1>4. ToSet(Append(means, a)) = {inMatch[key][name].average : key \in keys \cup {new}}
  <2>1. ToSet(Append(means, a)) = ToSet(means) \cup {a}
    BY ToSetSteps
  <2> QED
    BY <1>1, <2>1 DEF Matched
<1>5. PICK sums : Adding(sums, inMatch, name, keys) /\ sums[keys] = Total(means)
  BY DEF Matched
<1>6. PICK more : /\ Adding(more, inMatch, name, keys \cup {new})
                  /\ more[keys \cup {new}] = inMatch[new][name].average + sums[keys]
  <2>1. AddsTo(sums, inMatch, name, keys, new)
    BY <1>5, AddingOne
  <2> QED
    BY <2>1 DEF AddsTo
<1>7. Total(Append(means, a)) = Total(means) + a /\ Total(means) \in Int
  BY TotalSteps
<1>8. more[keys \cup {new}] = Total(Append(means, a))
  BY <1>1, <1>5, <1>6, <1>7
<1> QED
  BY <1>1, <1>2, <1>3, <1>4, <1>6, <1>8 DEF Matched

RecordedIn(inMatch, name, ms) ==
  {key \in {m.key : m \in ToSet(ms)} : name \in DOMAIN inMatch[key]}

\* In every match the team's means are what inMatch has, or there are none.
Agrees(inMatch, schema, Ms, reports, team, name) ==
  \A m \in Ms :
    IF name \in DOMAIN inMatch[m.key]
    THEN /\ inMatch[m.key][name].average \in Int
         /\ MatchMeans(schema, m, reports, team, name) = <<inMatch[m.key][name].average>>
    ELSE MatchMeans(schema, m, reports, team, name) = <<>>

\* Every match counts once: the means of the event are those of the matches.
LEMMA MeansMatched ==
    ASSUME NEW schema \in Seq(Fields), NEW Ms, AreMatches(Ms), NEW reports, AreReports(reports),
           NEW team, NEW name, NEW inMatch, Agrees(inMatch, schema, Ms, reports, team, name)
    PROVE  \A ms \in Seq(Ms) :
             Once(ms, LAMBDA match : match.key) =>
               Matched(inMatch, name, RecordedIn(inMatch, name, ms),
                       TeamMeans(schema, ms, reports, team, name))
<1> DEFINE Is(ms) == Matched(inMatch, name, RecordedIn(inMatch, name, ms),
                             TeamMeans(schema, ms, reports, team, name))
           Keyed(ms) == \A i, j \in DOMAIN ms : ms[i].key = ms[j].key => i = j
           S == {ms \in Seq(Ms) : Keyed(ms) => Is(ms)}
<1>s. TeamMeansFollow(schema, Ms, reports, team, name)
  BY TeamMeansSteps
<1>1. <<>> \in S
  <2>1. RecordedIn(inMatch, name, <<>>) = {}
    BY ToSetSteps DEF RecordedIn
  <2>2. TeamMeans(schema, <<>>, reports, team, name) = <<>>
    BY <1>s DEF TeamMeansFollow
  <2>3. Is(<<>>)
    BY <2>1, <2>2, MatchedNone
  <2> HIDE DEF Is
  <2> QED
    BY <2>3
<1>2. ASSUME NEW ms \in Seq(Ms), NEW m \in Ms, ms \in S PROVE Append(ms, m) \in S
  <2> DEFINE t == Append(ms, m)
             keys == RecordedIn(inMatch, name, ms)
             means == TeamMeans(schema, ms, reports, team, name)
  <2>1. /\ t \in Seq(Ms) /\ DOMAIN t = 1 .. Len(ms) + 1 /\ t[Len(ms) + 1] = m
        /\ DOMAIN ms = 1 .. Len(ms) /\ Len(ms) \in Nat
        /\ \A j \in 1 .. Len(ms) : t[j] = ms[j]
    OBVIOUS
  <2>2. ToSet(t) = ToSet(ms) \cup {m}
    BY ToSetSteps
  <2>3. TeamMeans(schema, t, reports, team, name) = means \o MatchMeans(schema, m, reports, team, name)
    BY <1>s DEF TeamMeansFollow
  <2>4. means \in Seq(Int)
    BY <1>s DEF TeamMeansFollow
  <2> HIDE DEF t
  <2> SUFFICES ASSUME Keyed(t) PROVE Is(t)
    <3> HIDE DEF Is, Keyed
    <3> QED
      BY <2>1 DEF t
  <2>5. Keyed(ms) /\ \A i \in DOMAIN ms : ms[i].key # m.key
    <3>1. \A i \in DOMAIN ms : ms[i].key # m.key
      <4> SUFFICES ASSUME NEW i \in DOMAIN ms, ms[i].key = m.key PROVE FALSE
        OBVIOUS
      <4>1. i \in DOMAIN t /\ Len(ms) + 1 \in DOMAIN t /\ t[i].key = t[Len(ms) + 1].key /\ i # Len(ms) + 1
        BY <2>1
      <4> QED
        BY <4>1
    <3>2. Keyed(ms)
      BY <2>1
    <3> QED
      BY <3>1, <3>2
  <2>6. Matched(inMatch, name, keys, means)
    BY <1>2, <2>5
  <2>7. m.key \notin {n.key : n \in ToSet(ms)}
    BY <2>5 DEF ToSet
  <2>8. CASE name \in DOMAIN inMatch[m.key]
    <3>1. RecordedIn(inMatch, name, t) = keys \cup {m.key}
      BY <2>2, <2>8 DEF RecordedIn
    <3>2. m.key \notin keys
      BY <2>7 DEF RecordedIn
    <3>3. PICK a \in Int : a = inMatch[m.key][name].average
      BY <2>8 DEF Agrees
    <3>4. MatchMeans(schema, m, reports, team, name) = <<a>>
      BY <2>8, <3>3 DEF Agrees
    <3> HIDE DEF keys, means
    <3>5. means \o <<a>> = Append(means, a)
      BY <2>4
    <3>6. Matched(inMatch, name, keys \cup {m.key}, Append(means, a))
      BY <2>4, <2>6, <3>2, <3>3, MatchedOne
    <3> QED
      BY <2>3, <3>1, <3>4, <3>5, <3>6
  <2>9. CASE name \notin DOMAIN inMatch[m.key]
    <3>1. RecordedIn(inMatch, name, t) = keys
      BY <2>2, <2>9 DEF RecordedIn
    <3>2. MatchMeans(schema, m, reports, team, name) = <<>>
      BY <2>9 DEF Agrees
    <3> HIDE DEF keys, means
    <3>3. means \o <<>> = means
      BY <2>4
    <3> QED
      BY <2>3, <2>6, <3>1, <3>2, <3>3
  <2> QED
    BY <2>8, <2>9
<1>3. Seq(Ms) \subseteq S
  <2> HIDE DEF S
  <2> QED
    BY <1>1, <1>2, SeqInduction
<1>4. \A ms \in Seq(Ms) : Keyed(ms) => Is(ms)
  BY <1>3
<1> QED
  BY <1>4 DEF Once

\* So the stat of the event is the mean and the greatest of those of the matches.
MeanOfMatches(inMatch, name, keys, stat) ==
  /\ stat.average * Cardinality(keys) = SumOfAverages(inMatch, name, keys)
  /\ \A key \in keys : stat.max >= inMatch[key][name].max
  /\ \E key \in keys : stat.max = inMatch[key][name].max

\* The greatest of one number is the number, or 0.
LEMMA GreatestOfOne == \A x \in Int : Greatest(<<x>>) = IF x > 0 THEN x ELSE 0
<1> SUFFICES ASSUME NEW x \in Int PROVE Greatest(<<x>>) = IF x > 0 THEN x ELSE 0
  OBVIOUS
<1>1. <<>> \in Seq(Int) /\ Append(<<>>, x) = <<x>>
  OBVIOUS
<1>2. Greatest(Append(<<>>, x)) = IF x > Greatest(<<>>) THEN x ELSE Greatest(<<>>)
  BY <1>1, GreatestSteps
<1> QED
  BY <1>1, <1>2, GreatestSteps

\* The stat of exact means is the mean and the greatest of the averages.
LEMMA StatOfMatched ==
    ASSUME NEW inMatch, NEW name, NEW keys, NEW means \in Seq(Int), means # <<>>,
           Matched(inMatch, name, keys, means), Total(means) % Len(means) = 0,
           \A key \in keys : inMatch[key][name].max = Greatest(<<inMatch[key][name].average>>)
    PROVE  MeanOfMatches(inMatch, name, keys, Stat(means))
<1> DEFINE stat == Stat(means)
<1>1. Len(means) \in Nat \ {0} /\ Cardinality(keys) = Len(means)
  BY DEF Matched
<1>2. Total(means) \in Int
  BY TotalSteps
<1>3. stat.max = Greatest(means) /\ stat.average = Total(means) \div Len(means)
  BY DEF Stat
<1>4. \A x \in Int : \A n \in Nat \ {0} : x % n = 0 => (x \div n) * n = x
  OBVIOUS
<1>5. SumOfAverages(inMatch, name, keys) = Total(means)
  BY AddingIs DEF Matched
<1>6. stat.average * Cardinality(keys) = SumOfAverages(inMatch, name, keys)
  BY <1>1, <1>2, <1>3, <1>4, <1>5
<1>7. /\ Greatest(means) \in Int /\ Greatest(means) >= 0
      /\ \A x \in ToSet(means) : Greatest(means) >= x
      /\ Greatest(means) = 0 \/ Greatest(means) \in ToSet(means)
  BY GreatestIs, GreatestSteps
<1>8. ToSet(means) = {inMatch[key][name].average : key \in keys} /\ ToSet(means) \subseteq Int
  BY ToSetSteps DEF Matched
<1>9. \A key \in keys : /\ inMatch[key][name].average \in ToSet(means) /\ inMatch[key][name].average \in Int
                        /\ inMatch[key][name].max
                             = IF inMatch[key][name].average > 0 THEN inMatch[key][name].average ELSE 0
  BY <1>8, GreatestOfOne
<1>10. \A key \in keys : stat.max >= inMatch[key][name].max
  BY <1>3, <1>7, <1>9
<1>11. \E key \in keys : stat.max = inMatch[key][name].max
  <2>1. CASE Greatest(means) \in ToSet(means)
    <3>1. PICK key \in keys : Greatest(means) = inMatch[key][name].average
      BY <1>8, <2>1
    <3> QED
      BY <1>3, <1>7, <1>9, <3>1
  <2>2. CASE Greatest(means) = 0
    <3>1. means[1] \in ToSet(means)
      BY DEF ToSet
    <3>2. PICK key \in keys : means[1] = inMatch[key][name].average
      BY <1>8, <3>1
    <3> QED
      BY <1>3, <1>7, <1>9, <2>2, <3>2
  <2> QED
    BY <1>7, <2>1, <2>2
<1> QED
  BY <1>6, <1>10, <1>11 DEF MeanOfMatches

-----------------------------------------------------------------------------
(* The answer for the event, and what the match endpoint would answer.     *)

InMatch(in, team) ==
  [key \in {m.key : m \in ToSet(in.matches)} |-> MatchAnswer(in, key, team).stats[team]]

\* Where the event is answered, every match of it is.
LEMMA EveryMatchAnswered ==
    ASSUME NEW in, IsInput(in), EventAnswered(in), IsSchedule(in.matches),
           NEW team \in Teams(in.matches), NEW m \in ToSet(in.matches)
    PROVE  MatchAnswered(in, m.key, team)
<1>1. MatchInfo(in, m.key) = <<m>>
  BY OneMatch
<1>2. ToSet(<<m>>) = {m} /\ <<m>> # <<>>
  BY DEF ToSet
<1>3. ~Panics(<<m>>)
  BY <1>2 DEF EventAnswered, Panics
<1>4. NoneInvalid(in.event.schema)
  BY DEF EventAnswered
<1> QED
  BY <1>1, <1>2, <1>3, <1>4 DEF EventAnswered, MatchAnswered

\* A team's means of a match are what the match endpoint answers.
LEMMA InMatchAgrees ==
    ASSUME NEW in, IsInput(in), EventAnswered(in), IsSchedule(in.matches),
           NEW team \in Teams(in.matches), NEW name
    PROVE  /\ Agrees(InMatch(in, team), in.event.schema, ToSet(in.matches), VisibleReports(in), team, name)
           /\ \A key \in RecordedIn(InMatch(in, team), name, in.matches) :
                InMatch(in, team)[key][name].max = Greatest(<<InMatch(in, team)[key][name].average>>)
<1> DEFINE schema == in.event.schema
           reports == VisibleReports(in)
           Ms == ToSet(in.matches)
           stats(m) == InMatch(in, team)[m.key]
<1>1. schema \in Seq(Fields) /\ AreReports(reports) /\ AreMatches(Ms)
  BY VisibleType DEF EventAnswered, IsInput
<1>2. ASSUME NEW m \in Ms
      PROVE  IF name \in DOMAIN stats(m)
             THEN /\ stats(m)[name].average \in Int
                  /\ stats(m)[name].max = Greatest(<<stats(m)[name].average>>)
                  /\ MatchMeans(schema, m, reports, team, name) = <<stats(m)[name].average>>
             ELSE MatchMeans(schema, m, reports, team, name) = <<>>
  <2>1. IsMatchRow(m) /\ Once(Seats(m), LAMBDA t : t)
    BY <1>1 DEF AreMatches, IsSchedule
  <2>2. stats(m) = MatchAnswer(in, m.key, team).stats[team]
    BY DEF InMatch
  <2>3. /\ team \notin ToSet(Seats(m)) => stats(m) = <<>>
        /\ \A seat \in DOMAIN Seats(m) :
             Seats(m)[seat] = team =>
               stats(m) = MatchStats(RobotRecords(schema, m, seat, reports, team))
    <3>1. MatchAnswered(in, m.key, team)
      BY EveryMatchAnswered
    <3> QED
      BY <2>2, <3>1, MatchStatsAre
  <2> HIDE DEF stats, schema, reports, Ms
  <2>4. CASE team \notin ToSet(Seats(m))
    <3>1. MatchMeans(schema, m, reports, team, name) = <<>>
      BY <1>1, <2>1, <2>4, AbsentFromMatch
    <3>2. DOMAIN stats(m) = {}
      BY <2>3, <2>4
    <3> QED
      BY <3>1, <3>2
  <2>5. CASE team \in ToSet(Seats(m))
    <3>1. PICK seat \in DOMAIN Seats(m) : Seats(m)[seat] = team
      BY <2>5 DEF ToSet
    <3>2. PICK R : R = RobotRecords(schema, m, seat, reports, team)
      OBVIOUS
    <3>3. /\ MatchMeans(schema, m, reports, team, name)
               = IF name \in DOMAIN R THEN <<Mean(R[name])>> ELSE <<>>
          /\ \A n \in DOMAIN R : Mean(R[n]) \in Int
      BY <1>1, <2>1, <3>1, <3>2, RobotMeans
    <3>4. stats(m) = MatchStats(R)
      BY <2>3, <3>1, <3>2
    <3>5. /\ DOMAIN stats(m) = DOMAIN R
          /\ \A n \in DOMAIN R : /\ stats(m)[n].average = Mean(R[n])
                                 /\ stats(m)[n].max = Greatest(<<Mean(R[n])>>)
      BY <3>4 DEF MatchStats
    <3> QED
      BY <3>3, <3>5
  <2> QED
    BY <2>4, <2>5
<1>3. Agrees(InMatch(in, team), schema, Ms, reports, team, name)
  BY <1>2 DEF Agrees
<1>4. ASSUME NEW key \in RecordedIn(InMatch(in, team), name, in.matches)
      PROVE  InMatch(in, team)[key][name].max = Greatest(<<InMatch(in, team)[key][name].average>>)
  <2>1. PICK m \in Ms : key = m.key /\ name \in DOMAIN stats(m)
    BY DEF RecordedIn
  <2> QED
    BY <1>2, <2>1
<1> QED
  BY <1>3, <1>4

\* That the averages are exact, said of the means of the team.
LEMMA ExactMeans ==
    ASSUME NEW in, IsInput(in), EventAnswered(in), Exact(in), NEW team \in Teams(in.matches),
           NEW name \in STRING,
           TeamMeans(in.event.schema, in.matches, VisibleReports(in), team, name) # <<>>
    PROVE  LET means == TeamMeans(in.event.schema, in.matches, VisibleReports(in), team, name)
           IN Total(means) % Len(means) = 0
<1> DEFINE schema == in.event.schema
           reports == VisibleReports(in)
           Ms == ToSet(in.matches)
           played == SelectTeamMatches(in.matches, reports, team)
           records == RecordsOfMatches(schema, played)
           M == Plays(Ms, reports, team)
<1>1. schema \in Seq(Fields) /\ AreReports(reports) /\ AreMatches(Ms) /\ in.matches \in Seq(Ms)
  BY VisibleType DEF EventAnswered, IsInput
<1>2. AreTeamMatches(M) /\ played \in Seq(M)
  <2>1. AreTeamMatches(M)
    BY <1>1, PlaysType
  <2>2. PlayedFollow(Ms, reports, team)
    BY <1>1, PlayedSteps
  <2> QED
    BY <1>1, <2>1, <2>2 DEF PlayedFollow
<1>3. /\ Means(records, name) = MeansOf(schema, played, name)
      /\ UNION {DOMAIN r : r \in ToSet(records)} = {n \in STRING : MeansOf(schema, played, n) # <<>>}
  <2> HIDE DEF M, played, schema
  <2> QED
    BY <1>1, <1>2, SummarizeTeamIs
<1>4. \A n \in UNION {DOMAIN r : r \in ToSet(records)} : Total(Means(records, n)) % Len(Means(records, n)) = 0
  BY DEF Exact, EventAnswered, Each, RecordsOfMatches
<1>5. MeansOf(schema, played, name) = TeamMeans(schema, in.matches, reports, team, name)
  BY DEF TeamMeans
<1> HIDE DEF records, played, schema, reports
<1> QED
  BY <1>3, <1>4, <1>5 DEF schema, reports

\* The stats of the event are made of them.
LEMMA MeanOfMatchesIs ==
    ASSUME NEW in, IsInput(in), EventAnswered(in), IsSchedule(in.matches), Exact(in),
           NEW team \in Teams(in.matches),
           NEW name \in DOMAIN EventAnswer(in).stats[team]
    PROVE  MeanOfMatches(InMatch(in, team), name, RecordedIn(InMatch(in, team), name, in.matches),
                         EventAnswer(in).stats[team][name])
<1> DEFINE schema == in.event.schema
           reports == VisibleReports(in)
           Ms == ToSet(in.matches)
           inMatch == InMatch(in, team)
<1>1. schema \in Seq(Fields) /\ AreReports(reports) /\ AreMatches(Ms) /\ in.matches \in Seq(Ms)
  BY VisibleType DEF EventAnswered, IsInput
<1>2. EventAnswer(in).stats[team] = TeamStats(schema, in.matches, reports, team)
  <2>1. EventAnswer(in).stats[team] = SummarizeTeam(schema, SelectTeamMatches(in.matches, reports, team))
    BY EventAnswerIs DEF Respond
  <2> HIDE DEF schema, reports, Ms
  <2> QED
    BY <1>1, <2>1, TeamStatsAre
<1>3. PICK means : means = TeamMeans(schema, in.matches, reports, team, name)
  OBVIOUS
<1>4. name \in STRING /\ means # <<>> /\ EventAnswer(in).stats[team][name] = Stat(means)
  BY <1>2, <1>3 DEF TeamStats
<1>5. Total(means) % Len(means) = 0
  BY <1>3, <1>4, ExactMeans
<1>6. /\ Agrees(inMatch, schema, Ms, reports, team, name)
      /\ \A key \in RecordedIn(inMatch, name, in.matches) :
           inMatch[key][name].max = Greatest(<<inMatch[key][name].average>>)
  BY InMatchAgrees
<1>7. Once(in.matches, LAMBDA match : match.key)
  BY DEF IsSchedule
<1> HIDE DEF inMatch, Ms, reports, schema
<1>8. means \in Seq(Int)
  <2>1. TeamMeansFollow(schema, Ms, reports, team, name)
    BY <1>1, TeamMeansSteps
  <2> QED
    BY <1>1, <1>3, <2>1 DEF TeamMeansFollow
<1>9. Matched(inMatch, name, RecordedIn(inMatch, name, in.matches), means)
  BY <1>1, <1>3, <1>6, <1>7, MeansMatched
<1>10. MeanOfMatches(inMatch, name, RecordedIn(inMatch, name, in.matches), Stat(means))
  BY <1>4, <1>5, <1>6, <1>8, <1>9, StatOfMatched
<1> QED
  BY <1>4, <1>10 DEF inMatch

\* The property is about the same matches.
LEMMA EventStep ==
    ASSUME Explained, IsSchedule(input.matches), Exact(input)
    PROVE  EventIsMeanOfMatches
<1> SUFFICES ASSUME ForEvent PROVE EventIsMeanOfMatches
  BY DEF EventIsMeanOfMatches
<1>1. IsInput(input) /\ answer = EventAnswer(input) /\ EventAnswered(input)
  BY ForEventIs
<1>2. DOMAIN answer.stats = Teams(input.matches)
  BY <1>1, EventAnswerIs DEF Respond
<1>4. ASSUME NEW team \in DOMAIN answer.stats, NEW name \in DOMAIN answer.stats[team]
      PROVE  MeanOfMatches(InMatch(input, team), name,
                           RecordedIn(InMatch(input, team), name, input.matches),
                           answer.stats[team][name])
  BY <1>1, <1>2, <1>4, MeanOfMatchesIs
<1>5. ASSUME NEW team, NEW name
      PROVE  RecordedIn(InMatch(input, team), name, input.matches)
               = {key \in DOMAIN InMatch(input, team) : name \in DOMAIN InMatch(input, team)[key]}
  BY DEF RecordedIn, InMatch
<1>6. \A team \in DOMAIN answer.stats : \A name \in DOMAIN answer.stats[team] :
        MeanOfMatches(InMatch(input, team), name,
                      {key \in DOMAIN InMatch(input, team) : name \in DOMAIN InMatch(input, team)[key]},
                      answer.stats[team][name])
  BY <1>4, <1>5
<1> QED
  BY <1>6, Zenon DEF EventIsMeanOfMatches, MeanOfMatches, SumOfAverages, InMatch

\* Where the averages are exact, the event endpoint answers the mean, and the greatest, of
\* what the match endpoint answers for the matches of the event in which the stat was
\* recorded, each of them once whatever the number of its reports (summary.go:75-128).
THEOREM EventsAreMeans ==
    ASSUME \A in \in Inputs : IsSchedule(in.matches) /\ Exact(in)
    PROVE  Spec => []EventIsMeanOfMatches
<1>1. Explained => EventIsMeanOfMatches
  BY EventStep DEF Explained
<1> QED
  BY <1>1, ExplainedAlways, PTL
=============================================================================
