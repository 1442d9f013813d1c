---------------------------- MODULE SumTheorems ----------------------------
EXTENDS Integers, FiniteSets, Functions, FiniteSetTheorems, WellFoundedInduction, TLAPS

Pick(s) == CHOOSE x \in s : TRUE

(* The equation of the iteration behind SumFunctionOnSet. *)
IterEq(it, f, S) ==
  it = [s \in SUBSET S |-> IF s = {} THEN 0 ELSE f[Pick(s)] + it[s \ {Pick(s)}]]

\* A nonempty family of subsets of a finite set has a member none of whose proper
\* subsets is in the family: induction on cardinality without an operator parameter.
LEMMA MinimalSubset ==
  ASSUME NEW S, IsFiniteSet(S), NEW B, B \subseteq SUBSET S, B # {}
  PROVE  \E T \in B : \A U \in B : ~ (U \subseteq T /\ U # T)
<1>1. B \subseteq FiniteSubsetsOf(S)
  BY FS_Subset DEF FiniteSubsetsOf
<1>2. PICK T \in B : \A U \in B : ~ (<<U, T>> \in StrictSubsetOrdering(S))
  <2>1. IsWellFoundedOn(StrictSubsetOrdering(S), FiniteSubsetsOf(S))
    BY FS_StrictSubsetOrderingWellFounded
  <2> DEFINE R == StrictSubsetOrdering(S)
             F == FiniteSubsetsOf(S)
  <2>2. IsWellFoundedOn(R, F) /\ B \subseteq F
    BY <2>1, <1>1
  <2> HIDE DEF R, F
  <2>3. \E T \in B : \A U \in B : ~ (<<U, T>> \in R)
    BY <2>2, WFMin
  <2> QED BY <2>3 DEF R
<1>3. ASSUME NEW U \in B, U \subseteq T, U # T PROVE FALSE
  BY <1>2, <1>3 DEF StrictSubsetOrdering
<1> QED BY <1>2, <1>3

\* SumFunctionOnSet is the value of the recursion that picks one element at a time.
LEMMA SumUnfold ==
  ASSUME NEW f, NEW S
  PROVE  SumFunctionOnSet(f, S) = (CHOOSE it : IterEq(it, f, S))[S]
  BY DEF SumFunctionOnSet, FoldFunctionOnSet, MapThenFoldSet, IterEq, Pick

\* Removing the picked element of a nonempty set leaves a smaller set.
LEMMA PickSmaller ==
  ASSUME NEW s, s # {}
  PROVE  Pick(s) \in s /\ s \ {Pick(s)} \subseteq s /\ s \ {Pick(s)} # s
  BY DEF Pick

\* At most one function on the subsets of S satisfies the recursion.
LEMMA IterUnique ==
  ASSUME NEW S, IsFiniteSet(S), NEW f, NEW a, NEW b, IterEq(a, f, S), IterEq(b, f, S)
  PROVE  a = b
<1> DEFINE Differ == {s \in SUBSET S : a[s] # b[s]}
<1>1. Differ = {}
  <2> SUFFICES ASSUME Differ # {} PROVE FALSE
    OBVIOUS
  <2>1. PICK s \in Differ : \A u \in Differ : ~ (u \subseteq s /\ u # s)
    <3>1. Differ \subseteq SUBSET S
      OBVIOUS
    <3> HIDE DEF Differ
    <3> QED BY <3>1, MinimalSubset
  <2>2. s # {}
    BY DEF IterEq
  <2>3. s \ {Pick(s)} \notin Differ
    BY <2>1, <2>2, PickSmaller
  <2>4. a[s \ {Pick(s)}] = b[s \ {Pick(s)}]
    BY <2>3, <2>1
  <2>5. a[s] = f[Pick(s)] + a[s \ {Pick(s)}]
    BY <2>1, <2>2 DEF IterEq
  <2>6. b[s] = f[Pick(s)] + b[s \ {Pick(s)}]
    BY <2>1, <2>2 DEF IterEq
  <2> QED BY <2>1, <2>4, <2>5, <2>6
<1>2. \A s \in SUBSET S : a[s] = b[s]
  BY <1>1
<1> QED BY <1>2 DEF IterEq

\* The recursion's solution on S restricted to a subset is its solution there.
LEMMA IterRestrict ==
  ASSUME NEW S, NEW f, NEW a, IterEq(a, f, S), NEW T \in SUBSET S
  PROVE  IterEq([s \in SUBSET T |-> a[s]], f, T)
<1> DEFINE r == [s \in SUBSET T |-> a[s]]
<1>1. ASSUME NEW s \in SUBSET T
      PROVE r[s] = IF s = {} THEN 0 ELSE f[Pick(s)] + r[s \ {Pick(s)}]
  <2>1. s \in SUBSET S /\ s \ {Pick(s)} \in SUBSET T
    OBVIOUS
  <2>2. a[s] = IF s = {} THEN 0 ELSE f[Pick(s)] + a[s \ {Pick(s)}]
    BY <2>1 DEF IterEq
  <2> QED BY <2>1, <2>2
<1> QED BY <1>1 DEF IterEq

\* The recursion has a solution on the subsets of every finite set.
LEMMA IterExists ==
  ASSUME NEW S, IsFiniteSet(S), NEW f
  PROVE  \E it : IterEq(it, f, S)
<1> DEFINE None == {T \in SUBSET S : ~ \E it : IterEq(it, f, T)}
<1> SUFFICES ASSUME None # {} PROVE FALSE
  OBVIOUS
<1>1. PICK T \in None : \A u \in None : ~ (u \subseteq T /\ u # T)
  <2>1. None \subseteq SUBSET S
    OBVIOUS
  <2> HIDE DEF None
  <2> QED BY <2>1, MinimalSubset
<1> DEFINE sub(s) == CHOOSE it : IterEq(it, f, s)
           glue == [s \in SUBSET T |->
                      IF s = {} THEN 0
                      ELSE f[Pick(s)] + sub(s \ {Pick(s)})[s \ {Pick(s)}]]
<1>2. ASSUME NEW s \in SUBSET T, s # T PROVE IterEq(sub(s), f, s)
  <2>1. s \in SUBSET S /\ s \notin None
    BY <1>1, <1>2
  <2>2. \E it : IterEq(it, f, s)
    BY <2>1
  <2> QED BY <2>2
<1>3. ASSUME NEW s \in SUBSET T, s # T PROVE sub(s)[s] = glue[s]
  <2>1. CASE s = {}
    <3> DEFINE a == sub(s)
    <3>1. IterEq(a, f, s)
      BY <1>2, <1>3
    <3>2. glue[s] = 0
      BY <2>1
    <3> HIDE DEF a, glue
    <3>3. a[s] = 0
      BY <3>1, <2>1 DEF IterEq
    <3> QED BY <3>2, <3>3 DEF a
  <2>2. CASE s # {}
    <3> DEFINE p == s \ {Pick(s)}
    <3>1. p \in SUBSET T /\ p # T /\ p \in SUBSET s
      BY <1>3, <2>2, PickSmaller
    <3>2. IterEq(sub(s), f, s) /\ IterEq(sub(p), f, p)
      BY <1>2, <1>3, <3>1
    <3>3. IterEq([u \in SUBSET p |-> sub(s)[u]], f, p)
      <4> DEFINE a == sub(s)
      <4>1. IterEq(a, f, s) BY <3>2
      <4> HIDE DEF a, sub, p
      <4> QED BY <4>1, <3>1, IterRestrict DEF a
    <3>4. sub(p) = [u \in SUBSET p |-> sub(s)[u]]
      <4>1. IsFiniteSet(p)
        BY FS_Subset, <3>1, <1>1
      <4> HIDE DEF sub, p
      <4> QED BY <4>1, <3>2, <3>3, IterUnique
    <3>5. sub(p)[p] = sub(s)[p]
      BY <3>4
    <3>6. sub(s)[s] = f[Pick(s)] + sub(s)[p]
      BY <3>2, <2>2 DEF IterEq
    <3> QED BY <3>5, <3>6, <2>2
  <2> QED BY <2>1, <2>2
<1>4. ASSUME NEW s \in SUBSET T
      PROVE  glue[s] = IF s = {} THEN 0 ELSE f[Pick(s)] + glue[s \ {Pick(s)}]
  <2>1. CASE s = {}
    BY <2>1
  <2>2. CASE s # {}
    <3>1. s \ {Pick(s)} \in SUBSET T /\ s \ {Pick(s)} # T
      BY <2>2, PickSmaller
    <3>2. sub(s \ {Pick(s)})[s \ {Pick(s)}] = glue[s \ {Pick(s)}]
      BY <1>3, <3>1
    <3> QED BY <3>2, <2>2
  <2> QED BY <2>1, <2>2
<1>5. IterEq(glue, f, T)
  <2> HIDE DEF sub
  <2> QED BY <1>4 DEF IterEq
<1> QED BY <1>1, <1>5

(* The recursion SumFunctionOnSet satisfies. *)
LEMMA SumIter ==
  ASSUME NEW S, IsFiniteSet(S), NEW f
  PROVE  \E it : IterEq(it, f, S) /\ SumFunctionOnSet(f, S) = it[S]
<1>1. \E it : IterEq(it, f, S)
  BY IterExists
<1> DEFINE it0 == CHOOSE it : IterEq(it, f, S)
<1>2. IterEq(it0, f, S)
  BY <1>1
<1>3. SumFunctionOnSet(f, S) = it0[S]
  BY SumUnfold
<1> QED BY <1>2, <1>3

(* Changing f at one index d by some amount changes the sum by that amount. *)
THEOREM SumUpdate ==
  ASSUME NEW S, IsFiniteSet(S), NEW f \in [S -> Int], NEW g \in [S -> Int],
         NEW d \in S, \A x \in S \ {d} : f[x] = g[x]
  PROVE  /\ SumFunctionOnSet(f, S) \in Int
         /\ SumFunctionOnSet(g, S) = SumFunctionOnSet(f, S) + g[d] - f[d]
<1>1. PICK a : IterEq(a, f, S) /\ SumFunctionOnSet(f, S) = a[S]
  BY SumIter
<1>2. PICK b : IterEq(b, g, S) /\ SumFunctionOnSet(g, S) = b[S]
  BY SumIter
<1> DEFINE Off(s) == IF d \in s THEN g[d] - f[d] ELSE 0
           Good(s) == a[s] \in Int /\ b[s] = a[s] + Off(s)
           Bad == {s \in SUBSET S : ~ Good(s)}
<1>3. Bad = {}
  <2> SUFFICES ASSUME Bad # {} PROVE FALSE
    OBVIOUS
  <2>1. PICK s \in Bad : \A u \in Bad : ~ (u \subseteq s /\ u # s)
    <3>1. Bad \subseteq SUBSET S
      OBVIOUS
    <3> HIDE DEF Bad
    <3> QED BY <3>1, MinimalSubset
  <2>2. s # {}
    <3>1. a[{}] = 0 /\ b[{}] = 0
      BY <1>1, <1>2 DEF IterEq
    <3>2. Good({})
      BY <3>1
    <3> QED BY <2>1, <3>2
  <2> DEFINE x == Pick(s)
             p == s \ {x}
  <2>3. x \in s /\ x \in S /\ p \in SUBSET S /\ p \subseteq s /\ p # s
    BY <2>1, <2>2, PickSmaller
  <2>4. Good(p)
    <3> HIDE DEF x, p, Good
    <3> QED BY <2>1, <2>3
  <2>5. a[s] = f[x] + a[p] /\ b[s] = g[x] + b[p]
    BY <1>1, <1>2, <2>1, <2>2 DEF IterEq
  <2>6. f[x] \in Int /\ g[x] \in Int /\ f[d] \in Int /\ g[d] \in Int
    <3> HIDE DEF x
    <3> QED BY <2>3
  <2> HIDE DEF x
  <2>7. CASE x = d
    <3>1. d \notin p /\ d \in s
      BY <2>3, <2>7
    <3> QED BY <3>1, <2>1, <2>4, <2>5, <2>6, <2>7
  <2>8. CASE x # d
    <3>1. f[x] = g[x] /\ (d \in p <=> d \in s)
      BY <2>3, <2>8
    <3> QED BY <3>1, <2>1, <2>4, <2>5, <2>6
  <2> QED BY <2>7, <2>8
<1>4. Good(S)
  BY <1>3
<1> QED BY <1>1, <1>2, <1>4

(* A sum of naturals is a natural. *)
THEOREM SumNat ==
  ASSUME NEW S, IsFiniteSet(S), NEW f \in [S -> Nat]
  PROVE  SumFunctionOnSet(f, S) \in Nat
<1>1. PICK a : IterEq(a, f, S) /\ SumFunctionOnSet(f, S) = a[S]
  BY SumIter
<1> DEFINE Bad == {s \in SUBSET S : a[s] \notin Nat}
<1>2. Bad = {}
  <2> SUFFICES ASSUME Bad # {} PROVE FALSE
    OBVIOUS
  <2>1. PICK s \in Bad : \A u \in Bad : ~ (u \subseteq s /\ u # s)
    <3>1. Bad \subseteq SUBSET S
      OBVIOUS
    <3> HIDE DEF Bad
    <3> QED BY <3>1, MinimalSubset
  <2>2. s # {}
    BY <1>1, <2>1 DEF IterEq
  <2>3. Pick(s) \in s /\ s \ {Pick(s)} \in SUBSET S /\ a[s \ {Pick(s)}] \in Nat
    BY <2>1, <2>2, PickSmaller
  <2>4. a[s] = f[Pick(s)] + a[s \ {Pick(s)}]
    BY <1>1, <2>1, <2>2 DEF IterEq
  <2>5. f[Pick(s)] \in Nat
    BY <2>1, <2>3
  <2>6. a[s] \in Nat
    <3> DEFINE u == f[Pick(s)]
               w == a[s \ {Pick(s)}]
    <3>1. u \in Nat /\ w \in Nat /\ a[s] = u + w
      BY <2>3, <2>4, <2>5
    <3> HIDE DEF u, w
    <3> QED BY <3>1
  <2> QED BY <2>1, <2>6
<1> QED BY <1>1, <1>2

(* A sum of zeros is zero. *)
THEOREM SumZero ==
  ASSUME NEW S, IsFiniteSet(S), NEW f \in [S -> {0}]
  PROVE  SumFunctionOnSet(f, S) = 0
<1>0. f \in [S -> Int]
  OBVIOUS
<1>1. PICK a : IterEq(a, f, S) /\ SumFunctionOnSet(f, S) = a[S]
  BY <1>0, SumIter
<1> DEFINE Bad == {s \in SUBSET S : a[s] # 0}
<1>2. Bad = {}
  <2> SUFFICES ASSUME Bad # {} PROVE FALSE
    OBVIOUS
  <2>1. PICK s \in Bad : \A u \in Bad : ~ (u \subseteq s /\ u # s)
    <3>1. Bad \subseteq SUBSET S
      OBVIOUS
    <3> HIDE DEF Bad
    <3> QED BY <3>1, MinimalSubset
  <2>2. s # {}
    BY <1>1, <2>1 DEF IterEq
  <2>3. Pick(s) \in s /\ s \ {Pick(s)} \in SUBSET S /\ a[s \ {Pick(s)}] = 0
    BY <2>1, <2>2, PickSmaller
  <2>4. a[s] = f[Pick(s)] + a[s \ {Pick(s)}]
    BY <1>1, <2>1, <2>2 DEF IterEq
  <2>5. f[Pick(s)] = 0
    BY <2>1, <2>3
  <2> QED BY <2>1, <2>3, <2>4, <2>5
<1> QED BY <1>1, <1>2

(* Sums are monotone in the summed function. *)
THEOREM SumMonotone ==
  ASSUME NEW S, IsFiniteSet(S), NEW f \in [S -> Nat], NEW g \in [S -> Nat],
         \A x \in S : f[x] <= g[x]
  PROVE  SumFunctionOnSet(f, S) <= SumFunctionOnSet(g, S)
<1>1. PICK a : IterEq(a, f, S) /\ SumFunctionOnSet(f, S) = a[S]
  BY SumIter
<1>2. PICK b : IterEq(b, g, S) /\ SumFunctionOnSet(g, S) = b[S]
  BY SumIter
<1> DEFINE Good(s) == a[s] \in Int /\ b[s] \in Int /\ a[s] <= b[s]
           Bad == {s \in SUBSET S : ~ Good(s)}
<1>3. Bad = {}
  <2> SUFFICES ASSUME Bad # {} PROVE FALSE
    OBVIOUS
  <2>1. PICK s \in Bad : \A u \in Bad : ~ (u \subseteq s /\ u # s)
    <3>1. Bad \subseteq SUBSET S
      OBVIOUS
    <3> HIDE DEF Bad
    <3> QED BY <3>1, MinimalSubset
  <2>2. s # {}
    <3>1. a[{}] = 0 /\ b[{}] = 0
      BY <1>1, <1>2 DEF IterEq
    <3>2. Good({})
      BY <3>1
    <3> QED BY <2>1, <3>2
  <2> DEFINE x == Pick(s)
             p == s \ {x}
  <2>3. x \in S /\ p \in SUBSET S /\ p \subseteq s /\ p # s
    BY <2>1, <2>2, PickSmaller
  <2>4. Good(p)
    <3> HIDE DEF x, p, Good
    <3> QED BY <2>1, <2>3
  <2>5. a[s] = f[x] + a[p] /\ b[s] = g[x] + b[p]
    BY <1>1, <1>2, <2>1, <2>2 DEF IterEq
  <2>6. f[x] \in Int /\ g[x] \in Int /\ f[x] <= g[x]
    <3> HIDE DEF x
    <3> QED BY <2>3
  <2> HIDE DEF x, p
  <2> QED BY <2>1, <2>4, <2>5, <2>6
<1>4. Good(S)
  BY <1>3
<1> QED BY <1>1, <1>2, <1>4
=============================================================================
