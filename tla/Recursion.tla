------------------------------- MODULE Recursion -------------------------------
(****************************************************************************)
(* Induction and recursion, stated with sets and functions instead of       *)
(* operator parameters.                                                     *)
(****************************************************************************)
EXTENDS Integers, FiniteSets, SequencesExt, WellFoundedInduction, FiniteSetTheorems, TLAPS

\* Every set of naturals has a least member: its initial segments are finite
\* sets, and those are well-founded.
LEMMA LeastNumber ==
  ASSUME NEW T \in SUBSET Nat, T # {}
  PROVE  \E m \in T : \A k \in T : m <= k
<1> DEFINE I == {0..n : n \in T}
           R == StrictSubsetOrdering(Nat)
<1>1. I \subseteq FiniteSubsetsOf(Nat)
  <2>1. \A n \in T : IsFiniteSet(0..n) /\ 0..n \in SUBSET Nat
    BY FS_Interval
  <2> QED BY <2>1, Zenon DEF FiniteSubsetsOf
<1>2. I # {}
  OBVIOUS
<1>3. PICK x \in I : \A y \in I : <<y, x>> \notin R
  <2> HIDE DEF I
  <2> QED BY <1>1, <1>2, FS_StrictSubsetOrderingWellFounded, WFMin
<1>4. PICK m \in T : x = 0..m
  OBVIOUS
<1>5. \A k \in T : m <= k
  <2> TAKE k \in T
  <2> SUFFICES ASSUME k < m PROVE FALSE
    OBVIOUS
  <2>1. 0..k \in I /\ 0..k \subseteq 0..m /\ m \in 0..m /\ m \notin 0..k
    OBVIOUS
  <2>2. <<0..k, 0..m>> \in R
    BY <2>1 DEF StrictSubsetOrdering
  <2> QED BY <1>3, <1>4, <2>1, <2>2
<1> QED BY <1>5

\* Induction: a set that has 0 and every successor of a member has all numbers.
LEMMA NumbersByInduction ==
  ASSUME NEW S, NEW n \in Nat, 0 \in S, \A i \in 0..(n - 1) : i \in S => i + 1 \in S
  PROVE  0..n \subseteq S
<1> SUFFICES ASSUME NEW b \in 0..n, b \notin S PROVE FALSE
  OBVIOUS
<1> DEFINE T == (0..n) \ S
<1>1. T \in SUBSET Nat /\ T # {}
  OBVIOUS
<1>2. PICK m \in T : \A k \in T : m <= k
  <2> HIDE DEF T
  <2> QED BY <1>1, LeastNumber
<1>3. m # 0 /\ m - 1 \in 0..(n - 1) /\ m = (m - 1) + 1 /\ m - 1 \in S
  BY <1>2
<1> QED BY <1>3

\* The accumulators of a fold that takes step h[i] at index i.
Accumulates(acc, n, V, base, h) ==
    acc \in [0..n -> V] /\ acc[0] = base /\ \A i \in 1..n : acc[i] = h[i][acc[i - 1]]

\* The table the library reads its folds from: that of a set of indices takes the
\* greatest of them last.
FoldsBy(g, n, V, base, h) ==
    /\ g \in [SUBSET (1..n) -> V]
    /\ \A s \in SUBSET (1..n) : g[s] = IF s = {} THEN base ELSE h[Max(s)][g[s \ {Max(s)}]]

\* Max of module FiniteSetsExt, on a set of indices.
LEMMA GreatestIndex ==
  ASSUME NEW n \in Nat, NEW s \in SUBSET (1..n), s # {}
  PROVE  Max(s) \in s /\ \A i \in s : i <= Max(s)
<1> DEFINE T == {n - i : i \in s}
<1>0. \A i \in s : i \in 1..n /\ n - i \in Nat
  OBVIOUS
<1>1. T \in SUBSET Nat /\ T # {} /\ \A i \in s : i \in 1..n /\ n - i \in T
  BY <1>0
<1>2. PICK m \in T : \A k \in T : m <= k
  <2> HIDE DEF T
  <2> QED BY <1>1, LeastNumber
<1>3. PICK j \in s : m = n - j
  OBVIOUS
<1>4. \A i \in s : j >= i
  <2> HIDE DEF T
  <2> QED BY <1>1, <1>2, <1>3
<1> QED BY <1>1, <1>3, <1>4 DEF Max

\* The same of a table that is known to fit only where it has values of V.
FoldsWithin(g, n, V, base, h) ==
    /\ g[{}] = base
    /\ \A s \in SUBSET (1..n) :
          s # {} /\ g[s \ {Max(s)}] \in V => g[s] = h[Max(s)][g[s \ {Max(s)}]]

\* There is such a table.
LEMMA FoldTable ==
  ASSUME NEW n \in Nat, NEW V, NEW base \in V, NEW h \in [1..n -> [V -> V]]
  PROVE  \E g : FoldsBy(g, n, V, base, h)
<1> DEFINE Fits(m, g) == \A s \in SUBSET (1..m) :
                            g[s] = IF s = {} THEN base ELSE h[Max(s)][g[s \ {Max(s)}]]
           S == {m \in 0..n : \E g \in [SUBSET (1..m) -> V] : Fits(m, g)}
<1>1. 0 \in S
  <2> DEFINE g == [s \in SUBSET (1..0) |-> base]
  <2>1. g \in [SUBSET (1..0) -> V] /\ \A s \in SUBSET (1..0) : s = {}
    OBVIOUS
  <2>2. Fits(0, g)
    BY <2>1
  <2>3. 0 \in 0..n
    OBVIOUS
  <2> HIDE DEF Fits, g
  <2> QED BY <2>1, <2>2, <2>3
<1>2. \A m \in 0..(n - 1) : m \in S => m + 1 \in S
  <2> TAKE m \in 0..(n - 1)
  <2> HAVE m \in S
  <2>0. m \in Nat /\ m + 1 \in Nat /\ m + 1 \in 0..n
    OBVIOUS
  <2>1. PICK g \in [SUBSET (1..m) -> V] : Fits(m, g)
    OBVIOUS
  <2> DEFINE more == [s \in SUBSET (1..(m + 1)) |->
                        IF m + 1 \in s THEN h[m + 1][g[s \ {m + 1}]] ELSE g[s]]
  <2>2. \A s \in SUBSET (1..(m + 1)) :
           /\ s \ {m + 1} \in SUBSET (1..m)
           /\ m + 1 \in s => Max(s) = m + 1
           /\ m + 1 \notin s => s \in SUBSET (1..m)
           /\ m + 1 \notin s /\ s # {} => Max(s) \in 1..m /\ s \ {Max(s)} \in SUBSET (1..m)
    <3> TAKE s \in SUBSET (1..(m + 1))
    <3>0. \A i \in s : i \in 1..(m + 1)
      OBVIOUS
    <3>1. s # {} => Max(s) \in s /\ \A i \in s : i <= Max(s)
      BY <2>0, GreatestIndex
    <3>2. ASSUME m + 1 \in s PROVE Max(s) = m + 1
      <4>1. Max(s) \in 1..(m + 1) /\ m + 1 <= Max(s)
        BY <3>0, <3>1, <3>2
      <4> QED BY <2>0, <4>1
    <3>3. s \ {m + 1} \in SUBSET (1..m)
      BY <2>0, <3>0
    <3>4. m + 1 \notin s => s \in SUBSET (1..m)
      BY <3>3
    <3> QED BY <3>1, <3>2, <3>3, <3>4
  <2>3. more \in [SUBSET (1..(m + 1)) -> V]
    BY <2>2
  <2>4. Fits(m + 1, more)
    <3> SUFFICES ASSUME NEW s \in SUBSET (1..(m + 1))
                 PROVE  more[s] = IF s = {} THEN base ELSE h[Max(s)][more[s \ {Max(s)}]]
      OBVIOUS
    <3>1. CASE m + 1 \in s
      <4>1. more[s \ {m + 1}] = g[s \ {m + 1}]
        BY <2>2
      <4> QED BY <3>1, <4>1, <2>2
    <3>2. CASE m + 1 \notin s
      <4>1. g[s] = IF s = {} THEN base ELSE h[Max(s)][g[s \ {Max(s)}]]
        BY <3>2, <2>1, <2>2
      <4>2. s # {} => more[s \ {Max(s)}] = g[s \ {Max(s)}]
        BY <3>2, <2>2
      <4> QED BY <3>2, <4>1, <4>2
    <3> QED BY <3>1, <3>2
  <2> HIDE DEF Fits, more
  <2> QED BY <2>0, <2>3, <2>4
<1>3. 0..n \subseteq S
  <2> HIDE DEF S
  <2> QED BY <1>1, <1>2, NumbersByInduction
<1>4. n \in 0..n
  OBVIOUS
<1>5. \E g \in [SUBSET (1..n) -> V] : Fits(n, g)
  <2> HIDE DEF Fits
  <2> QED BY <1>3, <1>4
<1> QED BY <1>5 DEF FoldsBy

\* Read along the initial segments, the table gives the accumulators of the fold.
LEMMA FoldSteps ==
  ASSUME NEW n \in Nat, NEW V, NEW base \in V, NEW h \in [1..n -> [V -> V]], NEW g,
         FoldsWithin(g, n, V, base, h)
  PROVE  \E acc : Accumulates(acc, n, V, base, h) /\ acc[n] = g[1..n]
<1> DEFINE S == {m \in 0..n : g[1..m] \in V}
           acc == [m \in 0..n |-> g[1..m]]
<1>1. 1..0 = {}
  OBVIOUS
<1>1a. /\ g[{}] = base
      /\ \A s \in SUBSET (1..n) :
            s # {} /\ g[s \ {Max(s)}] \in V => g[s] = h[Max(s)][g[s \ {Max(s)}]]
  BY DEF FoldsWithin
<1>2. \A m \in 0..(n - 1) : g[1..m] \in V => g[1..(m + 1)] = h[m + 1][g[1..m]]
  <2> TAKE m \in 0..(n - 1)
  <2> HAVE g[1..m] \in V
  <2>0. m \in Nat /\ m + 1 \in 1..n
    OBVIOUS
  <2>1. 1..(m + 1) \in SUBSET (1..n) /\ 1..(m + 1) # {} /\ m + 1 \in 1..(m + 1)
    <3>1. \A i \in 1..(m + 1) : i \in 1..n
      BY <2>0
    <3>2. m + 1 \in 1..(m + 1)
      BY <2>0
    <3> QED BY <3>1, <3>2
  <2>2. Max(1..(m + 1)) = m + 1
    <3>1. Max(1..(m + 1)) \in 1..(m + 1) /\ \A i \in 1..(m + 1) : i <= Max(1..(m + 1))
      BY <2>1, GreatestIndex
    <3> QED BY <2>0, <2>1, <3>1
  <2>3. (1..(m + 1)) \ {m + 1} = 1..m
    OBVIOUS
  <2> QED BY <2>1, <2>2, <2>3, <1>1a
<1>3. \A m \in 0..(n - 1) : m \in S => m + 1 \in S
  BY <1>2
<1>4. 0 \in S
  BY <1>1, <1>1a
<1>5. 0..n \subseteq S
  <2> HIDE DEF S
  <2> QED BY <1>3, <1>4, NumbersByInduction
<1>6. acc \in [0..n -> V]
  BY <1>5
<1>7. \A i \in 1..n : acc[i] = h[i][acc[i - 1]]
  <2> TAKE i \in 1..n
  <2>1. i - 1 \in 0..(n - 1) /\ (i - 1) + 1 = i /\ g[1..(i - 1)] \in V
    BY <1>5
  <2>2. g[1..i] = h[i][g[1..(i - 1)]]
    BY <1>2, <2>1
  <2> QED BY <2>1, <2>2
<1>8. acc[0] = base /\ acc[n] = g[1..n]
  BY <1>1, <1>1a
<1> HIDE DEF acc
<1> QED BY <1>6, <1>7, <1>8 DEF Accumulates

\* A fold whose step is a function.
FoldWith(w, base, s) == FoldLeft(LAMBDA v, x : w[x][v], base, s)
FoldsTo(acc, V, w, base, s, r) ==
    /\ acc \in [0..Len(s) -> V] /\ acc[0] = base /\ acc[Len(s)] = r
    /\ \A i \in 1..Len(s) : acc[i] = w[s[i]][acc[i - 1]]

\* Its accumulators.
LEMMA FoldRuns ==
  ASSUME NEW D, NEW V, NEW base \in V, NEW s \in Seq(D), NEW w,
         \A f \in ToSet(s) : w[f] \in [V -> V]
  PROVE  \E acc : FoldsTo(acc, V, w, base, s, FoldWith(w, base, s))
<1> DEFINE n == Len(s)
           h == [i \in 1..n |-> w[s[i]]]
           Body(g, t) == IF t = {} THEN base ELSE w[s[Max(t)]][g[t \ {Max(t)}]]
           iter == CHOOSE g : g = [t \in SUBSET (DOMAIN s) |-> Body(g, t)]
<1>1. n \in Nat /\ DOMAIN s = 1..n /\ h \in [1..n -> [V -> V]]
  BY DEF ToSet
<1>2. FoldWith(w, base, s) = iter[DOMAIN s]
  BY Zenon DEF FoldWith, FoldLeft, MapThenFoldSet
<1>4. \A t \in SUBSET (1..n) : t # {} => Max(t) \in 1..n /\ t \ {Max(t)} \in SUBSET (1..n)
  <2> HIDE DEF n
  <2> QED BY <1>1, GreatestIndex
<1>5. \E g : g = [t \in SUBSET (1..n) |-> Body(g, t)]
  <2>1. \E g : FoldsBy(g, n, V, base, h)
    <3> HIDE DEF n, h
    <3> QED BY <1>1, FoldTable
  <2>2. PICK g : FoldsBy(g, n, V, base, h)
    BY <2>1
  <2>3. g = [t \in SUBSET (1..n) |-> Body(g, t)]
    BY <2>2, <1>4 DEF FoldsBy
  <2> QED BY <2>3
<1>6. iter = [t \in SUBSET (1..n) |-> Body(iter, t)]
  <2> HIDE DEF Body, n
  <2> QED BY <1>1, <1>5
<1>7. iter[{}] = base
  <2> HIDE DEF iter
  <2> QED BY <1>6
<1>8. FoldsWithin(iter, n, V, base, h)
  <2> HIDE DEF iter
  <2> QED BY <1>6, <1>7, <1>4 DEF FoldsWithin
<1>9. \E acc : Accumulates(acc, n, V, base, h) /\ acc[n] = iter[1..n]
  <2> HIDE DEF n, h, iter
  <2> QED BY <1>1, <1>8, FoldSteps
<1>10. PICK acc : Accumulates(acc, n, V, base, h) /\ acc[n] = iter[1..n]
  BY <1>9
<1>11. \A i \in 1..n : acc[i] = w[s[i]][acc[i - 1]]
  <2> HIDE DEF iter
  <2> QED BY <1>10 DEF Accumulates
<1> HIDE DEF iter
<1> QED BY <1>1, <1>2, <1>10, <1>11 DEF Accumulates, FoldsTo

\* Its result is one of the values it runs over.
LEMMA FoldEnds ==
  ASSUME NEW D, NEW V, NEW base \in V, NEW s \in Seq(D), NEW w,
         \A f \in ToSet(s) : w[f] \in [V -> V]
  PROVE  FoldWith(w, base, s) \in V
<1>1. PICK acc : FoldsTo(acc, V, w, base, s, FoldWith(w, base, s))
  BY FoldRuns
<1>2. Len(s) \in 0..Len(s)
  OBVIOUS
<1> QED BY <1>1, <1>2 DEF FoldsTo

\* A fold over functions that agree on what it folds over.
LEMMA FoldAgrees ==
  ASSUME NEW D, NEW V, NEW base \in V, NEW s \in Seq(D), NEW w, NEW u,
         \A f \in ToSet(s) : w[f] \in [V -> V] /\ w[f] = u[f]
  PROVE  FoldWith(w, base, s) = FoldWith(u, base, s)
<1>1. PICK a : FoldsTo(a, V, w, base, s, FoldWith(w, base, s))
  BY FoldRuns
<1>2. PICK b : FoldsTo(b, V, u, base, s, FoldWith(u, base, s))
  BY FoldRuns
<1> DEFINE S == {i \in 0..Len(s) : a[i] = b[i]}
<1>3. Len(s) \in Nat /\ 0 \in 0..Len(s) /\ Len(s) \in 0..Len(s)
  OBVIOUS
<1>6. 0 \in S
  BY <1>1, <1>2, <1>3 DEF FoldsTo
<1>4. \A i \in 0..(Len(s) - 1) : i \in S => i + 1 \in S
  <2> TAKE i \in 0..(Len(s) - 1)
  <2> HAVE i \in S
  <2>1. i + 1 \in 1..Len(s) /\ (i + 1) - 1 = i /\ i + 1 \in 0..Len(s)
    BY <1>3
  <2>2. s[i + 1] \in ToSet(s)
    BY <2>1 DEF ToSet
  <2>3. a[i + 1] = w[s[i + 1]][a[i]] /\ b[i + 1] = u[s[i + 1]][b[i]]
    BY <1>1, <1>2, <2>1 DEF FoldsTo
  <2> QED BY <2>1, <2>2, <2>3
<1>5. Len(s) \in S
  <2> HIDE DEF S
  <2>1. 0..Len(s) \subseteq S
    BY <1>3, <1>6, <1>4, NumbersByInduction
  <2> QED BY <1>3, <2>1
<1> QED BY <1>1, <1>2, <1>5 DEF FoldsTo

\* A relation without infinite descent: every set has a member that leads to none.
Founded(D, next) == \A S \in SUBSET D : S # {} => \E e \in S : next[e] \cap S = {}

\* w is defined on A, which has whatever its members lead to.
Solves(A, w, D, next, V, H) ==
    A \subseteq D /\ w \in [D -> V] /\ \A e \in A : next[e] \subseteq A /\ w[e] = H[e][w]

\* H[e] reads of a function only what e leads to.
ReadsBelow(D, next, V, H) ==
    \A e \in D : \A w, u \in [D -> V] : (\A f \in next[e] : w[f] = u[f]) => H[e][w] = H[e][u]

\* Two such functions agree where both are defined.
LEMMA SolutionsAgree ==
  ASSUME NEW D, NEW next \in [D -> SUBSET D], Founded(D, next), NEW V, NEW H,
         ReadsBelow(D, next, V, H), NEW A, NEW w, Solves(A, w, D, next, V, H),
         NEW B, NEW u, Solves(B, u, D, next, V, H), NEW e \in A \cap B
  PROVE  w[e] = u[e]
<1> DEFINE S == {f \in A \cap B : w[f] # u[f]}
<1> SUFFICES ASSUME S # {} PROVE FALSE
  OBVIOUS
<1>1. S \in SUBSET D
  BY DEF Solves
<1>2. PICK f \in S : next[f] \cap S = {}
  <2> HIDE DEF S
  <2> QED BY <1>1 DEF Founded
<1>3. next[f] \subseteq A \cap B /\ f \in D /\ w \in [D -> V] /\ u \in [D -> V]
      /\ w[f] = H[f][w] /\ u[f] = H[f][u]
  BY <1>1 DEF Solves
<1>4. \A c \in next[f] : w[c] = u[c]
  BY <1>2, <1>3
<1>5. H[f][w] = H[f][u]
  BY <1>3, <1>4 DEF ReadsBelow
<1> QED BY <1>3, <1>5

\* A function may be defined by what it is below.
LEMMA RecursionOn ==
  ASSUME NEW D, NEW next \in [D -> SUBSET D], Founded(D, next), NEW V, NEW v0 \in V,
         NEW H \in [D -> [[D -> V] -> V]], ReadsBelow(D, next, V, H)
  PROVE  \E w : Solves(D, w, D, next, V, H)
<1> DEFINE Good(A, w) == Solves(A, w, D, next, V, H)
           G == {e \in D : \E A, w : e \in A /\ Good(A, w)}
           of(e) == CHOOSE w : \E A : e \in A /\ Good(A, w)
           all == [e \in D |-> IF e \in G THEN of(e)[e] ELSE v0]
<1>1. \A e \in G : \E A : e \in A /\ Good(A, of(e))
  <2> HIDE DEF Good
  <2> QED OBVIOUS
<1>2. \A A, w, e : e \in A /\ Good(A, w) => e \in G /\ A \subseteq G /\ w[e] = all[e]
  <2> SUFFICES ASSUME NEW A, NEW w, NEW e \in A, Good(A, w)
               PROVE  e \in G /\ A \subseteq G /\ w[e] = all[e]
    OBVIOUS
  <2>1. A \subseteq G
    BY DEF Solves
  <2>2. PICK B : e \in B /\ Good(B, of(e))
    BY <1>1, <2>1
  <2>3. e \in A \cap B
    BY <2>2
  <2>4. w[e] = of(e)[e]
    <3> HIDE DEF of
    <3> QED BY <2>2, <2>3, SolutionsAgree
  <2> HIDE DEF of, Good
  <2> QED BY <2>1, <2>4
<1>3. all \in [D -> V]
  <2>1. \A e \in G : of(e)[e] \in V
    <3> TAKE e \in G
    <3>1. PICK A : e \in A /\ Good(A, of(e))
      BY <1>1
    <3> HIDE DEF of
    <3> QED BY <3>1 DEF Solves
  <2> HIDE DEF of, G
  <2> QED BY <2>1
<1>4. Good(G, all)
  <2>1. ASSUME NEW e \in G PROVE next[e] \subseteq G /\ all[e] = H[e][all]
    <3>1. PICK A : e \in A /\ Good(A, of(e))
      BY <1>1
    <3> DEFINE w == of(e)
    <3> HIDE DEF of, all, w
    <3>2. e \in D /\ A \subseteq G /\ w[e] = all[e] /\ \A f \in A : w[f] = all[f]
      <4>1. Good(A, w) /\ e \in A /\ e \in D
        BY <3>1 DEF w
      <4> HIDE DEF Good, G
      <4> QED BY <1>2, <4>1
    <3>3. w \in [D -> V] /\ next[e] \subseteq A /\ w[e] = H[e][w]
      BY <3>1 DEF Solves, w
    <3>4. H[e][w] = H[e][all]
      BY <1>3, <3>2, <3>3 DEF ReadsBelow
    <3> QED BY <3>2, <3>3, <3>4
  <2> HIDE DEF all
  <2> QED BY <1>3, <2>1 DEF Solves
<1> HIDE DEF all, of
<1>5. G = D
  <2> SUFFICES ASSUME D \ G # {} PROVE FALSE
    OBVIOUS
  <2>1. PICK e \in D \ G : next[e] \cap (D \ G) = {}
    <3> HIDE DEF G
    <3> QED BY DEF Founded
  <2>2. next[e] \subseteq G /\ H[e][all] \in V
    <3> HIDE DEF G
    <3> QED BY <1>3, <2>1
  <2> DEFINE more == [all EXCEPT ![e] = H[e][all]]
  <2>3. more \in [D -> V] /\ more[e] = H[e][all] /\ \A f \in G : more[f] = all[f]
    <3> HIDE DEF G
    <3> QED BY <1>3, <2>1, <2>2
  <2> HIDE DEF more
  <2>4. ASSUME NEW f \in G \cup {e} PROVE next[f] \subseteq G /\ more[f] = H[f][more]
    <3>1. next[f] \subseteq G /\ more[f] = H[f][all] /\ f \in D
      <4> HIDE DEF G
      <4> QED BY <1>4, <2>1, <2>2, <2>3 DEF Solves
    <3>2. H[f][all] = H[f][more]
      <4> HIDE DEF G
      <4>1. \A c \in next[f] : all[c] = more[c]
        BY <2>3, <3>1
      <4> QED BY <1>3, <2>3, <3>1, <4>1 DEF ReadsBelow
    <3> QED BY <3>1, <3>2
  <2>5. Good(G \cup {e}, more)
    <3> HIDE DEF G
    <3>1. G \subseteq D
      BY DEF G
    <3> QED BY <2>1, <2>3, <2>4, <3>1 DEF Solves
  <2>6. e \in G
    <3> HIDE DEF Good, G
    <3> QED BY <1>2, <2>5
  <2> QED BY <2>1, <2>6
<1> QED BY <1>4, <1>5

\* The elements of a sequence before index n.
Earlier(r, n) == {r[m] : m \in 1..(n - 1)}

\* What an appended sequence has.
LEMMA AppendedSet ==
  ASSUME NEW D, NEW s \in Seq(D), NEW e \in D
  PROVE  ToSet(Append(s, e)) = ToSet(s) \cup {e} /\ ToSet(s) \subseteq D
<1> DEFINE r == Append(s, e)
<1>1. Len(s) \in Nat /\ DOMAIN s = 1..Len(s) /\ DOMAIN r = 1..(Len(s) + 1)
      /\ r[Len(s) + 1] = e /\ \A i \in 1..Len(s) : r[i] = s[i]
  OBVIOUS
<1>2. \A i \in DOMAIN r : i \in DOMAIN s \/ i = Len(s) + 1
  BY <1>1
<1>3. DOMAIN s \subseteq DOMAIN r /\ Len(s) + 1 \in DOMAIN r
  BY <1>1
<1> HIDE DEF r
<1>4. ToSet(r) = ToSet(s) \cup {e}
  BY <1>1, <1>2, <1>3 DEF ToSet
<1>5. ToSet(s) \subseteq D
  BY DEF ToSet
<1> QED BY <1>4, <1>5 DEF r

\* A sequence has what comes before its end, element by element.
LEMMA Listed ==
  ASSUME NEW D, NEW s \in Seq(D)
  PROVE  ToSet(s) = Earlier(s, Len(s) + 1) /\ ToSet(s) \subseteq D /\ Earlier(s, 1) = {}
         /\ \A i \in 1..Len(s) : i - 1 \in 0..Len(s) /\ s[i] \in ToSet(s) /\ s[i] \in D
                                 /\ Earlier(s, i + 1) = Earlier(s, i) \cup {s[i]}
<1>1. Len(s) \in Nat /\ DOMAIN s = 1..Len(s) /\ (Len(s) + 1) - 1 = Len(s)
  OBVIOUS
<1>2. ToSet(s) = Earlier(s, Len(s) + 1)
  BY <1>1 DEF ToSet, Earlier
<1>3. Earlier(s, 1) = {}
  BY DEF Earlier
<1>4. ASSUME NEW i \in 1..Len(s) PROVE Earlier(s, i + 1) = Earlier(s, i) \cup {s[i]}
  <2>1. \A m : m \in 1..((i + 1) - 1) <=> m \in 1..(i - 1) \/ m = i
    BY <1>1
  <2> QED BY <2>1 DEF Earlier
<1>5. \A i \in 1..Len(s) : i - 1 \in 0..Len(s) /\ s[i] \in ToSet(s) /\ s[i] \in D
  BY <1>1 DEF ToSet
<1>6. ToSet(s) \subseteq D
  BY DEF ToSet
<1> QED BY <1>2, <1>3, <1>4, <1>5, <1>6

\* What joined sequences have.
LEMMA JoinedSet ==
  ASSUME NEW D, NEW x \in Seq(D), NEW y \in Seq(D)
  PROVE  ToSet(x \o y) = ToSet(x) \cup ToSet(y)
<1> DEFINE z == x \o y
<1>1. /\ Len(x) \in Nat /\ Len(y) \in Nat /\ DOMAIN x = 1..Len(x) /\ DOMAIN y = 1..Len(y)
      /\ DOMAIN z = 1..(Len(x) + Len(y))
      /\ \A i \in 1..(Len(x) + Len(y)) : z[i] = IF i <= Len(x) THEN x[i] ELSE y[i - Len(x)]
  OBVIOUS
<1> HIDE DEF z
<1>2. ASSUME NEW i \in DOMAIN z PROVE z[i] \in ToSet(x) \cup ToSet(y)
  BY <1>1 DEF ToSet
<1>3. ASSUME NEW i \in DOMAIN x PROVE x[i] \in ToSet(z)
  BY <1>1 DEF ToSet
<1>4. ASSUME NEW i \in DOMAIN y PROVE y[i] \in ToSet(z)
  <2>1. Len(x) + i \in DOMAIN z /\ z[Len(x) + i] = y[i]
    BY <1>1
  <2> QED BY <2>1 DEF ToSet
<1>5. ToSet(z) = ToSet(x) \cup ToSet(y)
  BY <1>2, <1>3, <1>4 DEF ToSet
<1> QED BY <1>5 DEF z

\* Without repetitions no element comes before itself.
LEMMA Unlisted ==
  ASSUME NEW D, NEW s \in Seq(D), IsInjective(s), NEW n \in 1..Len(s)
  PROVE  s[n] \notin Earlier(s, n)
<1>1. \A m \in 1..(n - 1) : m \in 1..Len(s) /\ m # n
  OBVIOUS
<1> QED BY <1>1 DEF Earlier, IsInjective
================================================================================
