--------------------------- MODULE Converge_proofs ---------------------------
(****************************************************************************)
(* Proofs about Converge, in two parts.                                     *)
(*                                                                          *)
(* What is computed from a repository, for every repository without cycles: *)
(* a walk (PostOrderIs), the plan (PlanIs, PlanIsExactOf), the checks of a  *)
(* tree (ChecksOfIs), its namespace and what it renders.                    *)
(*                                                                          *)
(* What a run does, from the invariant RunInv: the shape of a run (Counted, *)
(* Stands), the plan it follows (Planned), the checks it has seen           *)
(* (ChecksKept); and what it has put in place (AppliedSoFar, where the API  *)
(* rejects nothing next to a resource that exists).                         *)
(****************************************************************************)
EXTENDS Converge, Recursion, SequenceTheorems

\* References of directories to directories.
Edges == [Dirs -> Seq(Dirs)]

\* Below is closed, and the least such set.
LEMMA BelowIs ==
  ASSUME NEW next \in Edges, NEW d \in Dirs
  PROVE  /\ Below(next, d) \subseteq Dirs
         /\ ToSet(next[d]) \subseteq Below(next, d)
         /\ \A c \in Below(next, d) : ToSet(next[c]) \subseteq Below(next, d)
         /\ \A S \in SUBSET Dirs :
               ToSet(next[d]) \subseteq S /\ (\A c \in S : ToSet(next[c]) \subseteq S)
               => Below(next, d) \subseteq S
<1>1. \A c \in Dirs : ToSet(next[c]) \subseteq Dirs
  BY DEF Edges, ToSet
<1> QED BY <1>1 DEF Below

\* What is below d is what d refers to and what is below that.
LEMMA BelowUnfolds ==
  ASSUME NEW next \in Edges, NEW d \in Dirs
  PROVE  Below(next, d) = UNION {{f} \cup Below(next, f) : f \in ToSet(next[d])}
<1> DEFINE U == UNION {{f} \cup Below(next, f) : f \in ToSet(next[d])}
<1>0. \A c \in Dirs : ToSet(next[c]) \subseteq Dirs
  BY DEF Edges, ToSet
<1>1. ASSUME NEW f \in ToSet(next[d]) PROVE {f} \cup Below(next, f) \subseteq Below(next, d)
  <2>1. f \in Dirs /\ f \in Below(next, d)
    BY <1>0, BelowIs
  <2>2. Below(next, d) \in SUBSET Dirs /\ ToSet(next[f]) \subseteq Below(next, d)
        /\ \A c \in Below(next, d) : ToSet(next[c]) \subseteq Below(next, d)
    BY <2>1, BelowIs
  <2>3. Below(next, f) \subseteq Below(next, d)
    BY <2>1, <2>2, BelowIs
  <2> QED BY <2>1, <2>3
<1>2. Below(next, d) \subseteq U
  <2>1. \A f \in ToSet(next[d]) : f \in U /\ f \in Dirs /\ Below(next, f) \subseteq U /\ Below(next, f) \subseteq Dirs
    BY <1>0, BelowIs
  <2>2. ASSUME NEW c \in U PROVE ToSet(next[c]) \subseteq U
    <3>1. PICK f \in ToSet(next[d]) : c \in {f} \cup Below(next, f)
      OBVIOUS
    <3>2. ToSet(next[c]) \subseteq Below(next, f)
      BY <2>1, <3>1, BelowIs
    <3> QED BY <2>1, <3>1, <3>2
  <2>3. U \in SUBSET Dirs /\ ToSet(next[d]) \subseteq U
    BY <2>1
  <2> HIDE DEF U
  <2> QED BY <2>2, <2>3, BelowIs
<1> QED BY <1>1, <1>2

\* What is below something below d is below d.
LEMMA BelowBelow ==
  ASSUME NEW next \in Edges, NEW d \in Dirs, NEW c \in Below(next, d)
  PROVE  c \in Dirs /\ Below(next, c) \subseteq Below(next, d)
<1>1. c \in Dirs /\ Below(next, d) \in SUBSET Dirs /\ ToSet(next[c]) \subseteq Below(next, d)
      /\ \A b \in Below(next, d) : ToSet(next[b]) \subseteq Below(next, d)
  BY BelowIs
<1> QED BY <1>1, BelowIs

\* Fewer references, less below.
LEMMA BelowLess ==
  ASSUME NEW next \in Edges, NEW more \in Edges, NEW d \in Dirs,
         \A e \in Dirs : ToSet(next[e]) \subseteq ToSet(more[e])
  PROVE  Below(next, d) \subseteq Below(more, d)
<1>1. Below(more, d) \in SUBSET Dirs /\ ToSet(more[d]) \subseteq Below(more, d)
      /\ \A c \in Below(more, d) : ToSet(more[c]) \subseteq Below(more, d)
  BY BelowIs
<1>2. ToSet(next[d]) \subseteq Below(more, d)
      /\ \A c \in Below(more, d) : ToSet(next[c]) \subseteq Below(more, d)
  BY <1>1
<1> QED BY <1>1, <1>2, BelowIs

\* Without cycles nothing is below itself.
LEMMA NotBelowItself ==
  ASSUME NEW next \in Edges, Acyclic(next), NEW d \in Dirs
  PROVE  d \notin Below(next, d)
<1> SUFFICES ASSUME d \in Below(next, d) PROVE FALSE
  OBVIOUS
<1> DEFINE S == {e \in Dirs : d \in Below(next, e)}
<1>1. PICK e \in S : ToSet(next[e]) \cap S = {}
  <2>1. d \in S
    OBVIOUS
  <2>2. S \in SUBSET Dirs /\ S # {}
    BY <2>1
  <2> HIDE DEF S
  <2> QED BY <2>2 DEF Acyclic
<1>2. PICK f \in ToSet(next[e]) : d \in {f} \cup Below(next, f)
  BY BelowUnfolds
<1>3. f \in Dirs
  BY DEF Edges, ToSet
<1> QED BY <1>1, <1>2, <1>3

\* r has each directory once, and after what it refers to.
Ordered(next, r) ==
    /\ r \in Seq(Dirs) /\ IsInjective(r)
    /\ \A n \in 1..Len(r) : ToSet(next[r[n]]) \subseteq Earlier(r, n)

\* An order goes on with a directory whose references it has.
LEMMA OrderedAppend ==
  ASSUME NEW next \in Edges, NEW r, Ordered(next, r), NEW e \in Dirs, e \notin ToSet(r),
         ToSet(next[e]) \subseteq ToSet(r)
  PROVE  Ordered(next, Append(r, e)) /\ ToSet(Append(r, e)) = ToSet(r) \cup {e}
<1> DEFINE s == Append(r, e)
<1>1. /\ r \in Seq(Dirs) /\ Len(r) \in Nat /\ DOMAIN r = 1..Len(r) /\ s \in Seq(Dirs)
      /\ Len(s) = Len(r) + 1 /\ DOMAIN s = 1..(Len(r) + 1)
      /\ s[Len(r) + 1] = e /\ \A i \in 1..Len(r) : s[i] = r[i]
  BY DEF Ordered
<1> HIDE DEF s
<1>2. \A i \in 1..(Len(r) + 1) : i \in 1..Len(r) \/ i = Len(r) + 1
  BY <1>1
<1>3. IsInjective(s)
  <2>1. \A i \in 1..Len(r) : r[i] # e
    BY <1>1 DEF ToSet
  <2> QED BY <1>1, <1>2, <2>1 DEF Ordered, IsInjective
<1>4. \A n \in 1..(Len(r) + 1) : Earlier(s, n) = Earlier(r, n)
  <2> TAKE n \in 1..(Len(r) + 1)
  <2>1. \A m \in 1..(n - 1) : m \in 1..Len(r)
    BY <1>1
  <2> QED BY <1>1, <2>1 DEF Earlier
<1>5. ASSUME NEW n \in 1..Len(s) PROVE ToSet(next[s[n]]) \subseteq Earlier(s, n)
  <2>1. CASE n \in 1..Len(r)
    BY <1>1, <1>4, <2>1 DEF Ordered
  <2>2. CASE n = Len(r) + 1
    BY <1>1, <1>4, <2>2, Listed
  <2> QED BY <1>1, <1>2, <2>1, <2>2
<1>6. Ordered(next, s)
  BY <1>1, <1>3, <1>5 DEF Ordered
<1>7. ToSet(Append(r, e)) = ToSet(r) \cup {e}
  BY <1>1, AppendedSet
<1> QED BY <1>6, <1>7 DEF s

\* What an order has, it has with all that is below.
LEMMA OrderedBelow ==
  ASSUME NEW next \in Edges, NEW r, Ordered(next, r), NEW n \in 1..Len(r)
  PROVE  Below(next, r[n]) \subseteq Earlier(r, n) /\ r[n] \in Dirs /\ Earlier(r, n) \subseteq ToSet(r)
<1>1. r \in Seq(Dirs) /\ r[n] \in Dirs /\ Len(r) \in Nat /\ DOMAIN r = 1..Len(r)
  BY DEF Ordered
<1>2. \A m \in 1..(n - 1) : m \in 1..Len(r) /\ \A k \in 1..(m - 1) : k \in 1..(n - 1)
  BY <1>1
<1>3. Earlier(r, n) \in SUBSET Dirs /\ Earlier(r, n) \subseteq ToSet(r)
  BY <1>1, <1>2 DEF Earlier, ToSet
<1>4. ASSUME NEW c \in Earlier(r, n) PROVE ToSet(next[c]) \subseteq Earlier(r, n)
  <2>1. PICK m \in 1..(n - 1) : c = r[m]
    BY DEF Earlier
  <2>2. ToSet(next[c]) \subseteq Earlier(r, m)
    BY <1>2, <2>1 DEF Ordered
  <2>3. Earlier(r, m) \subseteq Earlier(r, n)
    BY <1>2, <2>1 DEF Earlier
  <2> QED BY <2>2, <2>3
<1>5. ToSet(next[r[n]]) \subseteq Earlier(r, n)
  BY DEF Ordered
<1> QED BY <1>1, <1>3, <1>4, <1>5, BelowIs

\* No cycle, no infinite descent.
LEMMA AcyclicFounded ==
  ASSUME NEW next \in Edges, Acyclic(next)
  PROVE  LET to == [e \in Dirs |-> ToSet(next[e])]
         IN  to \in [Dirs -> SUBSET Dirs] /\ Founded(Dirs, to)
<1>1. \A e \in Dirs : ToSet(next[e]) \subseteq Dirs
  BY DEF Edges, ToSet
<1> QED BY <1>1 DEF Acyclic, Founded

\* The walk of PostOrder, one directory at a time.
Visit(w, next, e) ==
    [order \in Seq(Dirs) |->
       IF e \in ToSet(order) THEN order ELSE Append(FoldWith(w, order, next[e]), e)]
Walk(next) == CHOOSE w : w = [e \in Dirs |-> Visit(w, next, e)]

\* PostOrder reads the walk from nothing.
LEMMA PostOrderWalks ==
  ASSUME NEW next, NEW d
  PROVE  PostOrder(next, d) = Walk(next)[d][<<>>]
BY Zenon DEF PostOrder, Walk, Visit, FoldWith

\* Orders of directories, as far as the walk is concerned.
Orders == Seq(Dirs)

\* The walk ends: it is a function on orders.
LEMMA WalkIs ==
  ASSUME NEW next \in Edges, Acyclic(next)
  PROVE  LET w == Walk(next)
         IN  w \in [Dirs -> [Orders -> Orders]] /\ \A e \in Dirs : w[e] = Visit(w, next, e)
<1> DEFINE V == [Orders -> Orders]
           to == [e \in Dirs |-> ToSet(next[e])]
           H == [e \in Dirs |-> [w \in [Dirs -> V] |-> Visit(w, next, e)]]
           v0 == [o \in Orders |-> o]
<1>1. to \in [Dirs -> SUBSET Dirs] /\ Founded(Dirs, to)
  BY AcyclicFounded
<1>2. v0 \in V
  OBVIOUS
<1>3. ASSUME NEW w \in [Dirs -> V], NEW e \in Dirs PROVE Visit(w, next, e) \in V
  <2>1. next[e] \in Seq(Dirs)
    BY DEF Edges
  <2>2. ASSUME NEW o \in Orders PROVE FoldWith(w, o, next[e]) \in Orders
    BY <2>1, FoldEnds DEF ToSet
  <2> QED BY <2>2 DEF Visit, Orders
<1>4. H \in [Dirs -> [[Dirs -> V] -> V]]
  BY <1>3
<1>5. ReadsBelow(Dirs, to, V, H)
  <2> SUFFICES ASSUME NEW e \in Dirs, NEW w \in [Dirs -> V], NEW u \in [Dirs -> V],
                      \A f \in to[e] : w[f] = u[f]
               PROVE  H[e][w] = H[e][u]
    <3> HIDE DEF V, H, to
    <3> QED BY DEF ReadsBelow
  <2>1. next[e] \in Seq(Dirs) /\ \A f \in ToSet(next[e]) : w[f] \in [Orders -> Orders] /\ w[f] = u[f]
    BY DEF Edges, ToSet
  <2>2. \A o \in Orders : FoldWith(w, o, next[e]) = FoldWith(u, o, next[e])
    BY <2>1, FoldAgrees
  <2>3. Visit(w, next, e) = Visit(u, next, e)
    BY <2>2 DEF Visit, Orders
  <2> QED BY <2>3
<1>6. \E w : Solves(Dirs, w, Dirs, to, V, H)
  <2> HIDE DEF V, H, to, v0
  <2> QED BY <1>1, <1>2, <1>4, <1>5, RecursionOn
<1>7. PICK w \in [Dirs -> V] : \A e \in Dirs : w[e] = Visit(w, next, e)
  BY <1>6 DEF Solves
<1>8. w = [e \in Dirs |-> Visit(w, next, e)]
  BY <1>7
<1>9. Walk(next) = [e \in Dirs |-> Visit(Walk(next), next, e)]
  BY <1>8, Zenon DEF Walk
<1> DEFINE x == Walk(next)
<1>10. \A e \in Dirs : x[e] = Visit(x, next, e)
  BY <1>9
<1>11. x \in [Dirs -> V]
  <2> DEFINE bad == {e \in Dirs : x[e] \notin V}
  <2> SUFFICES ASSUME bad # {} PROVE FALSE
    BY <1>9
  <2>1. PICK e \in bad : ToSet(next[e]) \cap bad = {}
    <3>1. bad \in SUBSET Dirs /\ bad # {}
      OBVIOUS
    <3> HIDE DEF bad
    <3> QED BY <3>1 DEF Acyclic
  <2>2. next[e] \in Seq(Dirs) /\ \A f \in ToSet(next[e]) : x[f] \in V
    BY <2>1 DEF Edges, ToSet
  <2>3. \A o \in Orders : FoldWith(x, o, next[e]) \in Orders
    BY <2>2, FoldEnds
  <2>4. Visit(x, next, e) \in V
    BY <2>3 DEF Visit, Orders
  <2> QED BY <1>10, <2>4
<1> QED BY <1>10, <1>11

\* What a walk from e adds to an order.
Visited(next, e, order, r) ==
    Ordered(next, r) /\ ToSet(r) = ToSet(order) \cup {e} \cup Below(next, e)

\* What it adds for the first i of its references.
LEMMA VisitedEach ==
  ASSUME NEW next \in Edges, Acyclic(next), NEW e \in Dirs, NEW w \in [Dirs -> [Orders -> Orders]],
         \A f \in ToSet(next[e]), o \in Orders : Ordered(next, o) => Visited(next, f, o, w[f][o]),
         NEW order \in Orders, Ordered(next, order)
  PROVE  LET r == FoldWith(w, order, next[e])
         IN  Ordered(next, r) /\ ToSet(r) = ToSet(order) \cup Below(next, e)
<1> DEFINE s == next[e]
           Under(S) == UNION {{f} \cup Below(next, f) : f \in S}
           r == FoldWith(w, order, s)
<1>1. s \in Seq(Dirs) /\ Len(s) \in Nat /\ \A f \in ToSet(s) : w[f] \in [Orders -> Orders]
  BY DEF Edges, ToSet
<1>2. PICK acc : FoldsTo(acc, Orders, w, order, s, r)
  <2> HIDE DEF s
  <2> QED BY <1>1, FoldRuns
<1> DEFINE S == {i \in 0..Len(s) : /\ Ordered(next, acc[i])
                                   /\ ToSet(acc[i]) = ToSet(order) \cup Under(Earlier(s, i + 1))}
<1>3. 0 \in S
  <2>1. Earlier(s, 0 + 1) = {} /\ 0 \in 0..Len(s) /\ acc[0] = order
    BY <1>1, <1>2, Listed DEF FoldsTo
  <2>2. Under(Earlier(s, 0 + 1)) = {}
    BY <2>1
  <2> HIDE DEF Under, s
  <2> QED BY <2>1, <2>2
<1>4. \A i \in 0..(Len(s) - 1) : i \in S => i + 1 \in S
  <2> TAKE i \in 0..(Len(s) - 1)
  <2> HAVE i \in S
  <2> HIDE DEF s
  <2>1. i + 1 \in 1..Len(s) /\ (i + 1) - 1 = i /\ i + 1 \in 0..Len(s) /\ i \in 0..Len(s)
    BY <1>1
  <2> DEFINE f == s[i + 1]
  <2>2. f \in ToSet(s) /\ Earlier(s, (i + 1) + 1) = Earlier(s, i + 1) \cup {f}
    BY <1>1, <2>1, Listed
  <2>3. acc[i] \in Orders /\ acc[i + 1] = w[f][acc[i]]
    BY <1>2, <2>1 DEF FoldsTo
  <2>4. Visited(next, f, acc[i], acc[i + 1])
    BY <2>2, <2>3 DEF s
  <2>5. Under(Earlier(s, (i + 1) + 1)) = Under(Earlier(s, i + 1)) \cup {f} \cup Below(next, f)
    BY <2>2
  <2> HIDE DEF Under, f
  <2> QED BY <2>1, <2>4, <2>5 DEF Visited
<1>5. Len(s) \in S
  <2> HIDE DEF S, s
  <2>1. 0..Len(s) \subseteq S
    BY <1>1, <1>3, <1>4, NumbersByInduction
  <2> QED BY <1>1, <2>1
<1>6. acc[Len(s)] = r
  BY <1>2 DEF FoldsTo
<1>7. Under(Earlier(s, Len(s) + 1)) = Below(next, e)
  <2>1. Earlier(s, Len(s) + 1) = ToSet(s)
    BY <1>1, Listed
  <2> QED BY <2>1, BelowUnfolds
<1> HIDE DEF s, Under
<1> QED BY <1>5, <1>6, <1>7 DEF s

\* The walk from e adds e and what is below it, e last.
LEMMA WalkVisits ==
  ASSUME NEW next \in Edges, Acyclic(next), NEW e \in Dirs, NEW order \in Orders, Ordered(next, order)
  PROVE  /\ Visited(next, e, order, Walk(next)[e][order])
         /\ e \notin ToSet(order) => \E o \in Orders : Walk(next)[e][order] = Append(o, e)
<1> DEFINE w == Walk(next)
<1>1. w \in [Dirs -> [Orders -> Orders]] /\ \A f \in Dirs : w[f] = Visit(w, next, f)
  BY WalkIs
<1> HIDE DEF w
<1>2. ASSUME NEW f \in Dirs, NEW o \in Orders
      PROVE  w[f][o] = IF f \in ToSet(o) THEN o ELSE Append(FoldWith(w, o, next[f]), f)
  BY <1>1 DEF Visit, Orders
<1>3. ASSUME NEW f \in Dirs, NEW o \in Orders, Ordered(next, o),
             \A g \in ToSet(next[f]), p \in Orders : Ordered(next, p) => Visited(next, g, p, w[g][p])
      PROVE  Visited(next, f, o, w[f][o])
  <2>1. CASE f \in ToSet(o)
    <3>1. PICK n \in 1..Len(o) : o[n] = f
      BY <2>1 DEF ToSet, Orders
    <3>2. Below(next, f) \subseteq ToSet(o)
      BY <1>3, <3>1, OrderedBelow
    <3> QED BY <1>2, <1>3, <2>1, <3>2 DEF Visited
  <2>2. CASE f \notin ToSet(o)
    <3> DEFINE r == FoldWith(w, o, next[f])
    <3>1. Ordered(next, r) /\ ToSet(r) = ToSet(o) \cup Below(next, f)
      BY <1>1, <1>3, VisitedEach
    <3> HIDE DEF r
    <3>2. f \notin ToSet(r) /\ ToSet(next[f]) \subseteq ToSet(r)
      BY <2>2, <3>1, NotBelowItself, BelowIs
    <3>3. Ordered(next, Append(r, f)) /\ ToSet(Append(r, f)) = ToSet(r) \cup {f}
      BY <3>1, <3>2, OrderedAppend
    <3> QED BY <1>2, <2>2, <3>1, <3>3 DEF Visited, r
  <2> QED BY <2>1, <2>2
<1> DEFINE bad == {f \in Dirs : \E o \in Orders : Ordered(next, o) /\ ~Visited(next, f, o, w[f][o])}
<1>4. bad = {}
  <2> SUFFICES ASSUME bad # {} PROVE FALSE
    OBVIOUS
  <2>1. PICK f \in bad : ToSet(next[f]) \cap bad = {}
    <3>1. bad \in SUBSET Dirs /\ bad # {}
      OBVIOUS
    <3> HIDE DEF bad
    <3> QED BY <3>1 DEF Acyclic
  <2>2. ToSet(next[f]) \subseteq Dirs
    BY <2>1 DEF Edges, ToSet
  <2>3. \A g \in ToSet(next[f]), p \in Orders : Ordered(next, p) => Visited(next, g, p, w[g][p])
    BY <2>1, <2>2
  <2> QED BY <1>3, <2>1, <2>3
<1>5. ASSUME e \notin ToSet(order) PROVE FoldWith(w, order, next[e]) \in Orders
  BY <1>1, FoldEnds DEF Edges, ToSet
<1> QED BY <1>2, <1>4, <1>5 DEF w

\* A post-order has d and what is below it, each after its references, d last.
LEMMA PostOrderIs ==
  ASSUME NEW next \in Edges, Acyclic(next), NEW d \in Dirs
  PROVE  LET r == PostOrder(next, d)
         IN  /\ Ordered(next, r) /\ ToSet(r) = {d} \cup Below(next, d)
             /\ r[Len(r)] = d /\ Len(r) \in 1..Len(r)
<1>1. <<>> \in Orders /\ ToSet(<<>>) = {} /\ Ordered(next, <<>>)
  BY DEF Orders, ToSet, Ordered, IsInjective
<1> DEFINE r == PostOrder(next, d)
<1>2. Visited(next, d, <<>>, r) /\ \E o \in Orders : r = Append(o, d)
  BY <1>1, WalkVisits, PostOrderWalks
<1>3. r[Len(r)] = d /\ Len(r) \in 1..Len(r)
  BY <1>2 DEF Orders
<1> QED BY <1>1, <1>2, <1>3 DEF Visited

\* A filter, one element at a time.
Keeping(D, s, A) ==
    [i \in 1..Len(s) |-> [v \in Seq(D) |-> IF s[i] \in A THEN Append(v, s[i]) ELSE v]]

\* What Kept keeps of a list, prefix by prefix.
LEMMA KeptRuns ==
  ASSUME NEW D, NEW s \in Seq(D), NEW A
  PROVE  \E acc : /\ Accumulates(acc, Len(s), Seq(D), <<>>, Keeping(D, s, A))
                 /\ acc[Len(s)] = Kept(s, A)
<1> DEFINE n == Len(s)
           V == Seq(D)
           base == <<>>
           h == Keeping(D, s, A)
           Body(g, t) == IF t = {} THEN base
                         ELSE IF s[Max(t)] \in A THEN Append(g[t \ {Max(t)}], s[Max(t)]) ELSE g[t \ {Max(t)}]
           iter == CHOOSE g : g = [t \in SUBSET (DOMAIN s) |-> Body(g, t)]
<1>1. n \in Nat /\ DOMAIN s = 1..n /\ base \in V /\ h \in [1..n -> [V -> V]]
  BY DEF Keeping
<1>2. Kept(s, A) = iter[DOMAIN s]
  BY Zenon DEF Kept, FoldLeft, MapThenFoldSet
<1>3. \A t \in SUBSET (1..n) : t # {} => Max(t) \in 1..n /\ t \ {Max(t)} \in SUBSET (1..n)
  <2> HIDE DEF n
  <2> QED BY <1>1, GreatestIndex
<1>4. \A i \in 1..n, v \in V : h[i][v] = IF s[i] \in A THEN Append(v, s[i]) ELSE v
  BY DEF Keeping
<1>5. \E g : g = [t \in SUBSET (1..n) |-> Body(g, t)]
  <2> HIDE DEF n, V, h, base
  <2>1. PICK g : FoldsBy(g, n, V, base, h)
    BY <1>1, FoldTable
  <2>2. g \in [SUBSET (1..n) -> V]
    BY <2>1 DEF FoldsBy
  <2>3. \A t \in SUBSET (1..n) : g[t] = Body(g, t)
    BY <2>1, <2>2, <1>3, <1>4 DEF FoldsBy
  <2>4. g = [t \in SUBSET (1..n) |-> Body(g, t)]
    <3> HIDE DEF Body
    <3> QED BY <2>2, <2>3
  <2> QED BY <2>4
<1>6. iter = [t \in SUBSET (1..n) |-> Body(iter, t)]
  <2> HIDE DEF Body, n
  <2> QED BY <1>1, <1>5
<1>7. FoldsWithin(iter, n, V, base, h)
  <2> HIDE DEF iter, n, V, h, base
  <2> QED BY <1>6, <1>3, <1>4 DEF FoldsWithin
<1>8. \E acc : Accumulates(acc, n, V, base, h) /\ acc[n] = iter[1..n]
  <2> HIDE DEF iter, n, V, h, base
  <2> QED BY <1>1, <1>7, FoldSteps
<1> HIDE DEF iter
<1> QED BY <1>1, <1>2, <1>8

\* The steps of one directory, one at a time.
Adding(target, c, s) ==
    [i \in 1..Len(s) |-> [v \in Orders |->
       IF (s[i] = c /\ c # target) \/ s[i] \in ToSet(v) THEN v ELSE Append(v, s[i])]]

\* One import's steps, as they are added to the plan so far.
LEMMA AddStepsRuns ==
  ASSUME NEW t, NEW target, NEW steps \in Orders, NEW c, ResolveDeps(t, c) \in Orders
  PROVE  \E acc : /\ Accumulates(acc, Len(ResolveDeps(t, c)), Orders, steps, Adding(target, c, ResolveDeps(t, c)))
                 /\ acc[Len(ResolveDeps(t, c))] = AddSteps(t, target, steps, c)
<1> DEFINE s == ResolveDeps(t, c)
           n == Len(s)
           V == Orders
           base == steps
           h == Adding(target, c, ResolveDeps(t, c))
           Body(g, x) == IF x = {} THEN base
                         ELSE IF (s[Max(x)] = c /\ c # target) \/ s[Max(x)] \in ToSet(g[x \ {Max(x)}])
                         THEN g[x \ {Max(x)}] ELSE Append(g[x \ {Max(x)}], s[Max(x)])
           iter == CHOOSE g : g = [x \in SUBSET (DOMAIN s) |-> Body(g, x)]
<1>1. n \in Nat /\ DOMAIN s = 1..n /\ base \in V /\ h \in [1..n -> [V -> V]]
  BY DEF Adding, Orders
<1>2. AddSteps(t, target, steps, c) = iter[DOMAIN s]
  BY Zenon DEF AddSteps, FoldLeft, MapThenFoldSet
<1>3. \A x \in SUBSET (1..n) : x # {} => Max(x) \in 1..n /\ x \ {Max(x)} \in SUBSET (1..n)
  <2> HIDE DEF n
  <2> QED BY <1>1, GreatestIndex
<1>4. \A i \in 1..n, v \in V : h[i][v] = IF (s[i] = c /\ c # target) \/ s[i] \in ToSet(v) THEN v ELSE Append(v, s[i])
  BY DEF Adding
<1>5. \E g : g = [x \in SUBSET (1..n) |-> Body(g, x)]
  <2> HIDE DEF n, V, h, base
  <2>1. PICK g : FoldsBy(g, n, V, base, h)
    BY <1>1, FoldTable
  <2>2. g \in [SUBSET (1..n) -> V]
    BY <2>1 DEF FoldsBy
  <2>3. \A x \in SUBSET (1..n) : g[x] = Body(g, x)
    BY <2>1, <2>2, <1>3, <1>4 DEF FoldsBy
  <2>4. g = [x \in SUBSET (1..n) |-> Body(g, x)]
    <3> HIDE DEF Body
    <3> QED BY <2>2, <2>3
  <2> QED BY <2>4
<1>6. iter = [x \in SUBSET (1..n) |-> Body(iter, x)]
  <2> HIDE DEF Body, n
  <2> QED BY <1>1, <1>5
<1>7. FoldsWithin(iter, n, V, base, h)
  <2> HIDE DEF iter, n, V, h, base
  <2> QED BY <1>6, <1>3, <1>4 DEF FoldsWithin
<1>8. \E acc : Accumulates(acc, n, V, base, h) /\ acc[n] = iter[1..n]
  <2> HIDE DEF iter, n, V, h, base
  <2> QED BY <1>1, <1>7, FoldSteps
<1> HIDE DEF iter
<1> QED BY <1>1, <1>2, <1>8

\* The steps of a plan, one directory with a yconverge.cue at a time.
PlanOver(t, target, s) == FoldLeft(LAMBDA acc, c : AddSteps(t, target, acc, c), <<>>, s)
Planning(t, target, s, W) ==
    [i \in 1..Len(s) |-> [v \in W |-> AddSteps(t, target, v, s[i])]]

\* The steps of every import, file by file.
LEMMA PlanRuns ==
  ASSUME NEW t, NEW target, NEW s \in Orders, NEW W, <<>> \in W,
         \A i \in 1..Len(s), v \in W : AddSteps(t, target, v, s[i]) \in W
  PROVE  \E acc : /\ Accumulates(acc, Len(s), W, <<>>, Planning(t, target, s, W))
                 /\ acc[Len(s)] = PlanOver(t, target, s)
<1> DEFINE n == Len(s)
           V == W
           base == <<>>
           h == Planning(t, target, s, W)
           Body(g, x) == IF x = {} THEN base
                         ELSE AddSteps(t, target, g[x \ {Max(x)}], s[Max(x)])
           iter == CHOOSE g : g = [x \in SUBSET (DOMAIN s) |-> Body(g, x)]
<1>1. n \in Nat /\ DOMAIN s = 1..n /\ base \in V /\ h \in [1..n -> [V -> V]]
  BY DEF Planning, Orders
<1>2. PlanOver(t, target, s) = iter[DOMAIN s]
  BY Zenon DEF PlanOver, FoldLeft, MapThenFoldSet
<1>3. \A x \in SUBSET (1..n) : x # {} => Max(x) \in 1..n /\ x \ {Max(x)} \in SUBSET (1..n)
  <2> HIDE DEF n
  <2> QED BY <1>1, GreatestIndex
<1>4. \A i \in 1..n, v \in V : h[i][v] = AddSteps(t, target, v, s[i])
  BY DEF Planning
<1>5. \E g : g = [x \in SUBSET (1..n) |-> Body(g, x)]
  <2> HIDE DEF n, V, h, base
  <2>1. PICK g : FoldsBy(g, n, V, base, h)
    BY <1>1, FoldTable
  <2>2. g \in [SUBSET (1..n) -> V]
    BY <2>1 DEF FoldsBy
  <2>3. \A x \in SUBSET (1..n) : g[x] = Body(g, x)
    BY <2>1, <2>2, <1>3, <1>4 DEF FoldsBy
  <2>4. g = [x \in SUBSET (1..n) |-> Body(g, x)]
    <3> HIDE DEF Body
    <3> QED BY <2>2, <2>3
  <2> QED BY <2>4
<1>6. iter = [x \in SUBSET (1..n) |-> Body(iter, x)]
  <2> HIDE DEF Body, n
  <2> QED BY <1>1, <1>5
<1>7. FoldsWithin(iter, n, V, base, h)
  <2> HIDE DEF iter, n, V, h, base
  <2> QED BY <1>6, <1>3, <1>4 DEF FoldsWithin
<1>8. \E acc : Accumulates(acc, n, V, base, h) /\ acc[n] = iter[1..n]
  <2> HIDE DEF iter, n, V, h, base
  <2> QED BY <1>1, <1>7, FoldSteps
<1> HIDE DEF iter
<1> QED BY <1>1, <1>2, <1>8

\* The checks of a tree, one directory at a time.
Collecting(t, s) == [i \in 1..Len(s) |-> [v \in Seq(Checks) |-> v \o t.checks[s[i]]]]

\* The checks of every file in a step's tree.
LEMMA ChecksOfRuns ==
  ASSUME NEW t, \A e \in Dirs : t.checks[e] \in Seq(Checks), NEW d,
         FindCueFiles(t, walkTree(t, d)) \in Orders
  PROVE  \E acc : /\ Accumulates(acc, Len(FindCueFiles(t, walkTree(t, d))), Seq(Checks), <<>>, Collecting(t, FindCueFiles(t, walkTree(t, d))))
                 /\ acc[Len(FindCueFiles(t, walkTree(t, d)))] = ChecksOf(t, d)
<1> DEFINE s == FindCueFiles(t, walkTree(t, d))
           n == Len(s)
           V == Seq(Checks)
           base == <<>>
           h == Collecting(t, FindCueFiles(t, walkTree(t, d)))
           Body(g, x) == IF x = {} THEN base
                         ELSE g[x \ {Max(x)}] \o t.checks[s[Max(x)]]
           iter == CHOOSE g : g = [x \in SUBSET (DOMAIN s) |-> Body(g, x)]
<1>1. n \in Nat /\ DOMAIN s = 1..n /\ base \in V /\ h \in [1..n -> [V -> V]]
  BY DEF Collecting, Orders
<1>2. ChecksOf(t, d) = iter[DOMAIN s]
  BY Zenon DEF ChecksOf, FoldLeft, MapThenFoldSet
<1>3. \A x \in SUBSET (1..n) : x # {} => Max(x) \in 1..n /\ x \ {Max(x)} \in SUBSET (1..n)
  <2> HIDE DEF n
  <2> QED BY <1>1, GreatestIndex
<1>4. \A i \in 1..n, v \in V : h[i][v] = v \o t.checks[s[i]]
  BY DEF Collecting
<1>5. \E g : g = [x \in SUBSET (1..n) |-> Body(g, x)]
  <2> HIDE DEF n, V, h, base
  <2>1. PICK g : FoldsBy(g, n, V, base, h)
    BY <1>1, FoldTable
  <2>2. g \in [SUBSET (1..n) -> V]
    BY <2>1 DEF FoldsBy
  <2>3. \A x \in SUBSET (1..n) : g[x] = Body(g, x)
    BY <2>1, <2>2, <1>3, <1>4 DEF FoldsBy
  <2>4. g = [x \in SUBSET (1..n) |-> Body(g, x)]
    <3> HIDE DEF Body
    <3> QED BY <2>2, <2>3
  <2> QED BY <2>4
<1>6. iter = [x \in SUBSET (1..n) |-> Body(iter, x)]
  <2> HIDE DEF Body, n
  <2> QED BY <1>1, <1>5
<1>7. FoldsWithin(iter, n, V, base, h)
  <2> HIDE DEF iter, n, V, h, base
  <2> QED BY <1>6, <1>3, <1>4 DEF FoldsWithin
<1>8. \E acc : Accumulates(acc, n, V, base, h) /\ acc[n] = iter[1..n]
  <2> HIDE DEF iter, n, V, h, base
  <2> QED BY <1>1, <1>7, FoldSteps
<1> HIDE DEF iter
<1> QED BY <1>1, <1>2, <1>8

\* What a filter keeps.  Of a sequence without repetitions, the last element
\* stays the last and is kept once.
LEMMA KeptIs ==
  ASSUME NEW D, NEW s \in Seq(D), NEW A
  PROVE  /\ Kept(s, A) \in Seq(D) /\ ToSet(Kept(s, A)) = ToSet(s) \cap A
         /\ IsInjective(s) /\ Len(s) # 0 /\ s[Len(s)] \in A =>
               \E k \in Seq(D) : /\ Kept(s, A) = Append(k, s[Len(s)])
                                 /\ s[Len(s)] \notin ToSet(k)
<1>1. PICK acc : Accumulates(acc, Len(s), Seq(D), <<>>, Keeping(D, s, A)) /\ acc[Len(s)] = Kept(s, A)
  BY KeptRuns
<1>2. /\ Len(s) \in Nat /\ DOMAIN s = 1..Len(s) /\ acc \in [0..Len(s) -> Seq(D)] /\ acc[0] = <<>>
      /\ \A i \in 1..Len(s) : acc[i] = IF s[i] \in A THEN Append(acc[i - 1], s[i]) ELSE acc[i - 1]
  <2>1. Len(s) \in Nat /\ DOMAIN s = 1..Len(s)
    OBVIOUS
  <2>2. acc \in [0..Len(s) -> Seq(D)] /\ acc[0] = <<>> /\ \A i \in 1..Len(s) : acc[i] = Keeping(D, s, A)[i][acc[i - 1]]
    BY <1>1 DEF Accumulates
  <2>3. \A i \in 1..Len(s) : acc[i - 1] \in Seq(D)
    BY <2>1, <2>2
  <2> QED BY <2>1, <2>2, <2>3 DEF Keeping
<1> DEFINE S == {i \in 0..Len(s) : ToSet(acc[i]) = Earlier(s, i + 1) \cap A}
<1>3. 0 \in S
  BY <1>2, Listed DEF ToSet
<1>4. \A i \in 0..(Len(s) - 1) : i \in S => i + 1 \in S
  <2> TAKE i \in 0..(Len(s) - 1)
  <2> HAVE i \in S
  <2>1. i + 1 \in 1..Len(s) /\ (i + 1) - 1 = i /\ i + 1 \in 0..Len(s) /\ i \in 0..Len(s)
    BY <1>2
  <2>2. Earlier(s, (i + 1) + 1) = Earlier(s, i + 1) \cup {s[i + 1]} /\ s[i + 1] \in D
    BY <2>1, Listed
  <2>3. ToSet(Append(acc[i], s[i + 1])) = ToSet(acc[i]) \cup {s[i + 1]}
    BY <1>2, <2>1, <2>2, AppendedSet
  <2> QED BY <1>2, <2>1, <2>2, <2>3
<1>5. 0..Len(s) \subseteq S
  <2> HIDE DEF S
  <2> QED BY <1>2, <1>3, <1>4, NumbersByInduction
<1>6. Len(s) \in S /\ Len(s) \in 0..Len(s)
  BY <1>2, <1>5
<1>7. Kept(s, A) \in Seq(D) /\ ToSet(Kept(s, A)) = ToSet(s) \cap A
  BY <1>1, <1>2, <1>6, Listed
<1>8. ASSUME IsInjective(s), Len(s) # 0, s[Len(s)] \in A
      PROVE  \E k \in Seq(D) : Kept(s, A) = Append(k, s[Len(s)]) /\ s[Len(s)] \notin ToSet(k)
  <2> DEFINE n == Len(s)
  <2>1. n \in 1..Len(s) /\ n - 1 \in 0..Len(s) /\ (n - 1) + 1 = n
    BY <1>2, <1>8
  <2>2. Kept(s, A) = Append(acc[n - 1], s[n]) /\ acc[n - 1] \in Seq(D)
    BY <1>1, <1>2, <1>8, <2>1
  <2>3. ToSet(acc[n - 1]) = Earlier(s, n) \cap A
    BY <1>5, <2>1
  <2>4. s[n] \notin Earlier(s, n)
    BY <1>8, <2>1, Unlisted
  <2> HIDE DEF n
  <2> QED BY <2>2, <2>3, <2>4 DEF n
<1> QED BY <1>7, <1>8

\* The references of a tree.
LEMMA TreeIs ==
  ASSUME NEW i \in DOMAIN Trees
  PROVE  /\ Trees[i].bases \in Edges /\ Trees[i].imports \in Edges
         /\ Trees[i].cue \subseteq Dirs /\ Trees[i].module \in BOOLEAN
         /\ \A d \in Dirs : /\ Trees[i].ns[d] \in Namespaces /\ Trees[i].owns[d] \subseteq Objs
                            /\ Trees[i].checks[d] \in Seq(Checks)
                            /\ d \notin Trees[i].cue => Trees[i].checks[d] = <<>>
<1> DEFINE R == [kust    : SUBSET Dirs,          bases  : [Dirs -> Seq(Dirs)],
                 imports : [Dirs -> Seq(Dirs)],  cue    : SUBSET Dirs,
                 module  : BOOLEAN,              ns     : [Dirs -> Namespaces],
                 owns    : [Dirs -> SUBSET Objs], checks : [Dirs -> Seq(Checks)]]
<1>1. Trees \in Seq(R) /\ \A d \in Dirs \ Trees[i].cue : Trees[i].checks[d] = <<>>
  BY TreesAssumption
<1>2. Trees[i] \in R
  <2> HIDE DEF R
  <2> QED BY <1>1
<1> QED BY <1>1, <1>2 DEF Edges

\* The references of a tree that are followed.
BasesOf(t)   == [e \in Dirs |-> LocalBases(t, e)]
ImportsOf(t) == [e \in Dirs |-> ParseImports(t, e)]

\* Neither bases nor imports have a cycle, and no import leads from a base of d
\* back to d.
LEMMA EdgesOf ==
  ASSUME NoCycles, NEW i \in DOMAIN Trees
  PROVE  LET b == BasesOf(Trees[i])
             m == ImportsOf(Trees[i])
         IN  /\ b \in Edges /\ Acyclic(b) /\ m \in Edges /\ Acyclic(m)
             /\ \A d \in Dirs : \A c \in {d} \cup Below(b, d) : d \notin Below(m, c)
<1> DEFINE t == Trees[i]
           b == BasesOf(t)
           m == ImportsOf(t)
           both == [e \in Dirs |-> b[e] \o m[e]]
<1>1. \A e \in Dirs : LocalBases(t, e) \in Seq(Dirs) /\ ParseImports(t, e) \in Seq(Dirs)
  <2> TAKE e \in Dirs
  <2>1. t.bases[e] \in Seq(Dirs) /\ t.imports[e] \in Seq(Dirs)
    BY TreeIs DEF Edges
  <2> HIDE DEF t
  <2>2. LocalBases(t, e) \in Seq(Dirs)
    BY <2>1, KeptIs DEF LocalBases
  <2> QED BY <2>1, <2>2 DEF ParseImports
<1>2. b \in Edges /\ m \in Edges
  BY <1>1 DEF Edges, BasesOf, ImportsOf
<1>3. both \in Edges /\ Acyclic(both)
  <2>1. both = [e \in Dirs |-> LocalBases(t, e) \o ParseImports(t, e)]
    BY DEF BasesOf, ImportsOf
  <2>2. Acyclic(both)
    BY <2>1 DEF NoCycles
  <2> QED BY <1>2, <2>2 DEF Edges
<1> HIDE DEF b, m, t
<1>4. \A e \in Dirs : ToSet(both[e]) = ToSet(b[e]) \cup ToSet(m[e])
  <2> TAKE e \in Dirs
  <2> DEFINE x == b[e]
             y == m[e]
  <2>1. x \in Seq(Dirs) /\ y \in Seq(Dirs) /\ both[e] = x \o y
    BY <1>2 DEF Edges
  <2> HIDE DEF x, y
  <2>2. ToSet(x \o y) = ToSet(x) \cup ToSet(y)
    BY <2>1, JoinedSet
  <2> QED BY <2>1, <2>2 DEF x, y
<1> HIDE DEF both
<1>5. Acyclic(b) /\ Acyclic(m)
  <2> SUFFICES ASSUME NEW S \in SUBSET Dirs, S # {}
               PROVE  (\E e \in S : ToSet(b[e]) \cap S = {}) /\ (\E e \in S : ToSet(m[e]) \cap S = {})
    BY DEF Acyclic
  <2>1. PICK e \in S : ToSet(both[e]) \cap S = {}
    BY <1>3 DEF Acyclic
  <2> QED BY <1>4, <2>1
<1>6. ASSUME NEW d \in Dirs, NEW c \in {d} \cup Below(b, d) PROVE d \notin Below(m, c)
  <2>1. CASE c = d
    BY <1>2, <1>5, <2>1, NotBelowItself
  <2>2. CASE c \in Below(b, d)
    <3>1. c \in Dirs /\ c \in Below(both, d)
      <4>1. \A e \in Dirs : ToSet(b[e]) \subseteq ToSet(both[e])
        BY <1>4
      <4>2. Below(b, d) \subseteq Below(both, d) /\ Below(b, d) \subseteq Dirs
        BY <1>2, <1>3, <4>1, BelowLess, BelowIs
      <4> QED BY <2>2, <4>2
    <3>2. Below(m, c) \subseteq Below(both, c) /\ Below(both, c) \subseteq Below(both, d)
      BY <1>2, <1>3, <1>4, <3>1, BelowLess, BelowBelow
    <3> QED BY <1>3, <3>2, NotBelowItself
  <2> QED BY <2>1, <2>2
<1> QED BY <1>2, <1>5, <1>6 DEF b, m, t

\* What is converged for a directory with a yconverge.cue that is met on the way.
Adds(t, target, c) == Below(ImportsOf(t), c) \cup (IF c = target THEN {target} ELSE {})

\* A directory with a yconverge.cue adds what it imports, in order; the target
\* adds itself at the end.
LEMMA AddStepsIs ==
  ASSUME NoCycles, NEW i \in DOMAIN Trees, NEW target \in Dirs, NEW c \in Dirs,
         NEW steps, Ordered(ImportsOf(Trees[i]), steps)
  PROVE  LET t == Trees[i]
             r == AddSteps(t, target, steps, c)
         IN  /\ Ordered(ImportsOf(t), r) /\ ToSet(r) = ToSet(steps) \cup Adds(t, target, c)
             /\ c = target /\ target \notin ToSet(steps) => r[Len(r)] = target
<1> DEFINE t == Trees[i]
           m == ImportsOf(t)
           s == ResolveDeps(t, c)
           r == AddSteps(t, target, steps, c)
           Dropped == IF c = target THEN {} ELSE {c}
<1>1. m \in Edges /\ Acyclic(m)
  BY EdgesOf
<1>2. /\ Ordered(m, s) /\ s \in Seq(Dirs) /\ ToSet(s) = {c} \cup Below(m, c)
      /\ s[Len(s)] = c /\ Len(s) \in 1..Len(s)
  <2>1. s = PostOrder(m, c)
    BY DEF ResolveDeps, ImportsOf
  <2> HIDE DEF m, s
  <2> QED BY <1>1, <2>1, PostOrderIs DEF Ordered
<1>3. c \notin Below(m, c) /\ Below(m, c) \subseteq Dirs
  <2> HIDE DEF m
  <2> QED BY <1>1, NotBelowItself, BelowIs
<1>4. steps \in Orders
  BY DEF Ordered, Orders
<1>5. PICK acc : Accumulates(acc, Len(s), Orders, steps, Adding(target, c, s)) /\ acc[Len(s)] = r
  <2>1. s \in Orders
    BY <1>2 DEF Orders
  <2> QED BY <1>4, <2>1, AddStepsRuns
<1> HIDE DEF r, s, m
<1>6. Len(s) \in Nat /\ acc[0] = steps /\ acc \in [0..Len(s) -> Orders]
  BY <1>2, <1>5 DEF Accumulates
<1>7. ASSUME NEW n \in 1..Len(s)
      PROVE  acc[n] = IF (s[n] = c /\ c # target) \/ s[n] \in ToSet(acc[n - 1])
                      THEN acc[n - 1] ELSE Append(acc[n - 1], s[n])
  <2>1. acc[n - 1] \in Orders
    BY <1>6
  <2>2. acc[n] = Adding(target, c, s)[n][acc[n - 1]]
    BY <1>5 DEF Accumulates
  <2> QED BY <2>1, <2>2 DEF Adding
<1> DEFINE S == {n \in 0..Len(s) : /\ Ordered(m, acc[n])
                                   /\ ToSet(acc[n]) = ToSet(steps) \cup (Earlier(s, n + 1) \ Dropped)}
<1>8. 0 \in S
  <2>1. Earlier(s, 0 + 1) = {}
    BY <1>2, Listed
  <2> QED BY <1>6, <2>1 DEF m
<1>9. \A n \in 0..(Len(s) - 1) : n \in S => n + 1 \in S
  <2> TAKE n \in 0..(Len(s) - 1)
  <2> HAVE n \in S
  <2>1. n + 1 \in 1..Len(s) /\ (n + 1) - 1 = n /\ n + 1 \in 0..Len(s) /\ n \in 0..Len(s)
    BY <1>6
  <2> DEFINE e == s[n + 1]
             o == acc[n]
  <2>2. Earlier(s, (n + 1) + 1) = Earlier(s, n + 1) \cup {e} /\ e \in Dirs /\ e \in ToSet(s)
        /\ ToSet(m[e]) \subseteq Earlier(s, n + 1)
    BY <1>2, <2>1, Listed DEF Ordered
  <2>3. Ordered(m, o) /\ ToSet(o) = ToSet(steps) \cup (Earlier(s, n + 1) \ Dropped)
    OBVIOUS
  <2>4. acc[n + 1] = IF e \in Dropped \/ e \in ToSet(o) THEN o ELSE Append(o, e)
    <3>1. acc[n + 1] = IF (s[n + 1] = c /\ c # target) \/ s[n + 1] \in ToSet(acc[(n + 1) - 1])
                       THEN acc[(n + 1) - 1] ELSE Append(acc[(n + 1) - 1], s[n + 1])
      BY <1>7, <2>1
    <3> QED BY <2>1, <3>1
  <2> HIDE DEF e, o
  <2>5. CASE e \in Dropped \/ e \in ToSet(o)
    <3>1. ToSet(steps) \cup (Earlier(s, (n + 1) + 1) \ Dropped) = ToSet(o)
      BY <2>2, <2>3, <2>5
    <3> QED BY <2>1, <2>3, <2>4, <2>5, <3>1
  <2>6. CASE e \notin Dropped /\ e \notin ToSet(o)
    <3>1. ToSet(m[e]) \cap Dropped = {}
      <4>1. CASE c = target
        BY <4>1
      <4>2. CASE c # target
        <5>1. e \in Below(m, c)
          BY <1>2, <2>2, <2>6, <4>2
        <5>2. ToSet(m[e]) \subseteq Below(m, c)
          BY <1>1, <5>1, BelowIs
        <5> QED BY <1>3, <5>2
      <4> QED BY <4>1, <4>2
    <3>2. ToSet(m[e]) \subseteq ToSet(o)
      BY <2>2, <2>3, <3>1
    <3>3. Ordered(m, Append(o, e)) /\ ToSet(Append(o, e)) = ToSet(o) \cup {e}
      BY <1>1, <2>2, <2>3, <2>6, <3>2, OrderedAppend
    <3>4. ToSet(steps) \cup (Earlier(s, (n + 1) + 1) \ Dropped) = ToSet(o) \cup {e}
      BY <2>2, <2>3, <2>6
    <3> QED BY <2>1, <2>4, <2>6, <3>3, <3>4
  <2> QED BY <2>5, <2>6
<1>10. 0..Len(s) \subseteq S
  <2> HIDE DEF S
  <2> QED BY <1>6, <1>8, <1>9, NumbersByInduction
<1>11. Ordered(m, r) /\ ToSet(r) = ToSet(steps) \cup (ToSet(s) \ Dropped)
  <2>1. Len(s) \in S
    <3> HIDE DEF S
    <3> QED BY <1>6, <1>10
  <2> QED BY <1>2, <1>5, <2>1, Listed
<1>12. ToSet(s) \ Dropped = Adds(t, target, c)
  BY <1>2, <1>3 DEF Adds, m
<1>13. ASSUME c = target, target \notin ToSet(steps)
       PROVE  r[Len(r)] = target
  <2> DEFINE n == Len(s)
  <2>1. n \in 1..Len(s) /\ n - 1 \in 0..Len(s) /\ (n - 1) + 1 = n /\ s[n] = target
    BY <1>2, <1>6, <1>13
  <2>2. target \notin Earlier(s, n)
    BY <1>2, <2>1, Unlisted DEF Ordered
  <2>3. target \notin ToSet(acc[n - 1]) /\ acc[n - 1] \in Seq(Dirs)
    BY <1>10, <1>13, <2>1, <2>2 DEF Ordered
  <2>4. r = Append(acc[n - 1], target)
    BY <1>5, <1>7, <1>13, <2>1, <2>3
  <2> QED BY <2>3, <2>4
<1> QED BY <1>11, <1>12, <1>13 DEF r, m

\* The directories with a yconverge.cue in the tree of the target, and the plan.
LEMMA CueDirs ==
  ASSUME NoCycles, NEW i \in DOMAIN Trees, NEW d \in Dirs
  PROVE  LET t == Trees[i]
             s == FindCueFiles(t, walkTree(t, d))
         IN  /\ s \in Seq(Dirs) /\ ToSet(s) = CueIn[i][d]
             /\ CueIn[i][d] = ({d} \cup Below(BasesOf(t), d)) \cap t.cue /\ CueIn[i][d] \subseteq Dirs
             /\ d \in t.cue => \E k \in Seq(Dirs) : s = Append(k, d) /\ d \notin ToSet(k)
<1> DEFINE t == Trees[i]
           b == BasesOf(t)
           w == walkTree(t, d)
           s == FindCueFiles(t, w)
<1>1. b \in Edges /\ Acyclic(b)
  BY EdgesOf
<1>2. w = PostOrder(b, d) /\ s = Kept(w, t.cue) /\ CueIn[i][d] = ToSet(w) \cap t.cue
  BY DEF walkTree, BasesOf, FindCueFiles, CueIn
<1>3. Below(b, d) \subseteq Dirs
  <2> HIDE DEF b
  <2> QED BY <1>1, BelowIs
<1> HIDE DEF t, b, w, s
<1>4. /\ w \in Seq(Dirs) /\ IsInjective(w) /\ ToSet(w) = {d} \cup Below(b, d)
      /\ w[Len(w)] = d /\ Len(w) # 0
  BY <1>1, <1>2, PostOrderIs DEF Ordered
<1>5. s \in Seq(Dirs) /\ ToSet(s) = CueIn[i][d]
  BY <1>2, <1>4, KeptIs
<1>6. ASSUME d \in t.cue PROVE \E k \in Seq(Dirs) : s = Append(k, d) /\ d \notin ToSet(k)
  <2>1. w[Len(w)] \in t.cue
    BY <1>4, <1>6
  <2>2. \E k \in Seq(Dirs) : Kept(w, t.cue) = Append(k, w[Len(w)]) /\ w[Len(w)] \notin ToSet(k)
    BY <1>4, <2>1, KeptIs
  <2> QED BY <1>2, <1>4, <2>2
<1> QED BY <1>2, <1>3, <1>4, <1>5, <1>6 DEF t, b, w, s

\* What is converged for the first of a sequence of such directories.
AddsOf(t, target, S) == UNION {Adds(t, target, c) : c \in S}

\* What all of them add.
LEMMA PlanOverIs ==
  ASSUME NoCycles, NEW i \in DOMAIN Trees, NEW target \in Dirs, NEW s \in Seq(Dirs)
  PROVE  LET t == Trees[i]
             r == PlanOver(t, target, s)
         IN  /\ Ordered(ImportsOf(t), r) /\ ToSet(r) = AddsOf(t, target, ToSet(s))
             /\ Len(s) # 0 /\ s[Len(s)] = target
                /\ target \notin AddsOf(t, target, Earlier(s, Len(s))) => r[Len(r)] = target
<1> DEFINE t == Trees[i]
           m == ImportsOf(t)
           r == PlanOver(t, target, s)
           W == {v \in Orders : Ordered(m, v)}
           F(A) == AddsOf(t, target, A)
<1>1. Len(s) \in Nat /\ s \in Orders
  BY DEF Orders
<1>2. <<>> \in W
  BY DEF Orders, Ordered, IsInjective
<1>3. ASSUME NEW n \in 1..Len(s), NEW v \in W
      PROVE  /\ AddSteps(t, target, v, s[n]) \in W
             /\ ToSet(AddSteps(t, target, v, s[n])) = ToSet(v) \cup Adds(t, target, s[n])
  <2>1. s[n] \in Dirs
    BY <1>1
  <2>2. Ordered(m, AddSteps(t, target, v, s[n]))
        /\ ToSet(AddSteps(t, target, v, s[n])) = ToSet(v) \cup Adds(t, target, s[n])
    BY <2>1, AddStepsIs
  <2> QED BY <2>2 DEF Ordered, Orders
<1> HIDE DEF t, W, r, m
<1>4. PICK acc : Accumulates(acc, Len(s), W, <<>>, Planning(t, target, s, W)) /\ acc[Len(s)] = r
  BY <1>1, <1>2, <1>3, PlanRuns DEF r
<1>5. acc[0] = <<>> /\ acc \in [0..Len(s) -> W]
  BY <1>4 DEF Accumulates
<1>6. ASSUME NEW n \in 1..Len(s)
      PROVE  acc[n] = AddSteps(t, target, acc[n - 1], s[n]) /\ acc[n - 1] \in W
  <2>1. acc[n - 1] \in W
    BY <1>1, <1>5
  <2>2. acc[n] = Planning(t, target, s, W)[n][acc[n - 1]]
    BY <1>4 DEF Accumulates
  <2> QED BY <2>1, <2>2 DEF Planning
<1> DEFINE S == {n \in 0..Len(s) : ToSet(acc[n]) = F(Earlier(s, n + 1))}
<1>7. 0 \in S
  <2>1. Earlier(s, 0 + 1) = {} /\ ToSet(<<>>) = {}
    BY Listed DEF ToSet
  <2> QED BY <1>1, <1>5, <2>1 DEF AddsOf
<1>8. \A n \in 0..(Len(s) - 1) : n \in S => n + 1 \in S
  <2> TAKE n \in 0..(Len(s) - 1)
  <2> HAVE n \in S
  <2>1. n + 1 \in 1..Len(s) /\ (n + 1) - 1 = n /\ n + 1 \in 0..Len(s)
    BY <1>1
  <2>2. Earlier(s, (n + 1) + 1) = Earlier(s, n + 1) \cup {s[n + 1]}
    BY <2>1, Listed
  <2>3. acc[n + 1] = AddSteps(t, target, acc[n], s[n + 1]) /\ acc[n] \in W
    BY <1>6, <2>1
  <2>4. ToSet(acc[n + 1]) = ToSet(acc[n]) \cup Adds(t, target, s[n + 1])
    BY <1>3, <2>1, <2>3
  <2>5. F(Earlier(s, (n + 1) + 1)) = F(Earlier(s, n + 1)) \cup Adds(t, target, s[n + 1])
    BY <2>2 DEF AddsOf
  <2> HIDE DEF F
  <2> QED BY <2>1, <2>4, <2>5
<1>9. 0..Len(s) \subseteq S
  <2> HIDE DEF S
  <2> QED BY <1>1, <1>7, <1>8, NumbersByInduction
<1>10. Ordered(m, r) /\ ToSet(r) = F(ToSet(s))
  <2>1. Len(s) \in S /\ Len(s) \in 0..Len(s)
    <3> HIDE DEF S
    <3> QED BY <1>1, <1>9
  <2>2. ToSet(s) = Earlier(s, Len(s) + 1)
    BY Listed
  <2> QED BY <1>4, <1>5, <2>1, <2>2 DEF W
<1>11. ASSUME Len(s) # 0, s[Len(s)] = target, target \notin F(Earlier(s, Len(s)))
       PROVE  r[Len(r)] = target
  <2> DEFINE n == Len(s)
  <2>1. n \in 1..Len(s) /\ n - 1 \in 0..Len(s) /\ (n - 1) + 1 = n /\ s[n] = target
    BY <1>1, <1>11
  <2>2. target \notin ToSet(acc[n - 1])
    BY <1>9, <1>11, <2>1
  <2>3. r = AddSteps(t, target, acc[n - 1], target) /\ Ordered(m, acc[n - 1])
    BY <1>4, <1>6, <2>1 DEF W
  <2> HIDE DEF n
  <2> QED BY <2>2, <2>3, AddStepsIs DEF t, m
<1> QED BY <1>10, <1>11 DEF r, t, m

\* The plan: what is to be converged first, in order, and then the target.
LEMMA PlanIs ==
  ASSUME NoCycles, NEW i \in DOMAIN Trees, NEW target \in Dirs, Trees[i].module
  PROVE  LET steps == Plan(Trees[i], target)
         IN  /\ Ordered(ImportsOf(Trees[i]), steps) /\ Len(steps) \in 1..Len(steps)
             /\ steps[Len(steps)] = target
             /\ ToSet(steps) = {target} \cup UNION {Below(ImportsOf(Trees[i]), c) : c \in CueIn[i][target]}
             /\ \A c \in CueIn[i][target] : target \notin Below(ImportsOf(Trees[i]), c)
<1> DEFINE t == Trees[i]
           m == ImportsOf(t)
           C == CueIn[i][target]
           U == UNION {Below(m, c) : c \in C}
           s == FindCueFiles(t, walkTree(t, target))
           r == PlanOver(t, target, s)
           steps == Plan(t, target)
<1>1. steps = IF target \in ToSet(r) THEN r ELSE Append(r, target)
  BY Zenon DEF Plan, PlanOver
<1>2. /\ s \in Seq(Dirs) /\ ToSet(s) = C
      /\ target \in t.cue => \E k \in Seq(Dirs) : s = Append(k, target) /\ target \notin ToSet(k)
      /\ C = ({target} \cup Below(BasesOf(t), target)) \cap t.cue /\ C \subseteq Dirs
  BY CueDirs
<1>3. m \in Edges /\ \A c \in C : target \notin Below(m, c)
  <2>1. m \in Edges /\ \A c \in {target} \cup Below(BasesOf(t), target) : target \notin Below(m, c)
    BY EdgesOf
  <2> QED BY <1>2, <2>1
<1>4. /\ Ordered(m, r) /\ ToSet(r) = AddsOf(t, target, C)
      /\ Len(s) # 0 /\ s[Len(s)] = target
         /\ target \notin AddsOf(t, target, Earlier(s, Len(s))) => r[Len(r)] = target
  <2> HIDE DEF C
  <2>1. s \in Seq(Dirs) /\ ToSet(s) = C
    BY <1>2
  <2> HIDE DEF s
  <2> QED BY <2>1, PlanOverIs
<1>5. AddsOf(t, target, C) = U \cup (IF target \in C THEN {target} ELSE {})
  BY DEF AddsOf, Adds
<1>6. ASSUME NEW A \in SUBSET C, target \notin A
      PROVE  target \notin AddsOf(t, target, A)
  BY <1>3, <1>6 DEF AddsOf, Adds
<1>6b. U = UNION {Below(ImportsOf(Trees[i]), c) : c \in CueIn[i][target]}
  OBVIOUS
<1>6a. target \notin U
  BY <1>3
<1> HIDE DEF t, m, C, U, s, r, steps
<1> DEFINE Exact == /\ Ordered(m, steps) /\ Len(steps) \in 1..Len(steps)
                    /\ steps[Len(steps)] = target /\ ToSet(steps) = U \cup {target}
<1>7. ASSUME target \in t.cue PROVE Exact
  <2>1. PICK k \in Seq(Dirs) : s = Append(k, target) /\ target \notin ToSet(k)
    BY <1>2, <1>7
  <2>2. /\ Len(k) \in Nat /\ Len(s) = Len(k) + 1 /\ s[Len(s)] = target
        /\ Earlier(s, Len(s)) = ToSet(k)
    <3>1. /\ Len(k) \in Nat /\ Len(s) = Len(k) + 1 /\ s[Len(s)] = target
          /\ DOMAIN k = 1..Len(k) /\ \A n \in 1..Len(k) : s[n] = k[n]
      BY <2>1
    <3>2. (Len(k) + 1) - 1 = Len(k)
      BY <3>1
    <3> QED BY <3>1, <3>2 DEF Earlier, ToSet
  <2>3. ToSet(k) \subseteq C /\ target \in C
    BY <1>2, <2>1, AppendedSet
  <2>4. r[Len(r)] = target
    BY <1>4, <1>6, <2>1, <2>2, <2>3
  <2>5. target \in ToSet(r) /\ steps = r
    BY <1>1, <1>4, <1>5, <2>3
  <2>6. Len(r) \in 1..Len(r)
    BY <1>4, <2>5 DEF Ordered, ToSet
  <2> QED BY <1>4, <1>5, <2>3, <2>4, <2>5, <2>6
<1>8. ASSUME target \notin t.cue PROVE Exact
  <2>1. target \notin C /\ ToSet(r) = U /\ target \notin ToSet(r)
    BY <1>2, <1>6a, <1>4, <1>5, <1>8
  <2>2. steps = Append(r, target) /\ r \in Seq(Dirs)
    BY <1>1, <1>4, <2>1 DEF Ordered
  <2>3. ToSet(m[target]) = {}
    BY <1>8 DEF m, ImportsOf, ParseImports, ToSet
  <2>4. Ordered(m, steps) /\ ToSet(steps) = U \cup {target}
    BY <1>3, <1>4, <2>1, <2>2, <2>3, OrderedAppend
  <2>5. steps[Len(steps)] = target /\ Len(steps) \in 1..Len(steps)
    BY <2>2
  <2> QED BY <2>4, <2>5
<1>9. Exact
  BY <1>7, <1>8
<1>10. /\ Ordered(ImportsOf(Trees[i]), Plan(Trees[i], target))
       /\ Plan(Trees[i], target)[Len(Plan(Trees[i], target))] = target
       /\ Len(Plan(Trees[i], target)) \in 1..Len(Plan(Trees[i], target))
  BY <1>9 DEF steps, m, t
<1>11. ToSet(Plan(Trees[i], target)) = {target} \cup UNION {Below(ImportsOf(Trees[i]), c) : c \in CueIn[i][target]}
  BY <1>9, <1>6b DEF steps, t
<1>12. \A c \in CueIn[i][target] : target \notin Below(ImportsOf(Trees[i]), c)
  BY <1>3 DEF m, t, C
<1> QED BY <1>10, <1>11, <1>12

\* No check of a directory's tree is left out.
LEMMA ChecksOfIs ==
  ASSUME NoCycles, NEW i \in DOMAIN Trees, NEW d \in Dirs
  PROVE  /\ ChecksBy[i][d] \in Seq(Checks)
         /\ \A b \in CueIn[i][d] \cup {d} : ToSet(Trees[i].checks[b]) \subseteq ToSet(ChecksBy[i][d])
<1> DEFINE t == Trees[i]
           s == FindCueFiles(t, walkTree(t, d))
           r == ChecksOf(t, d)
<1>1. s \in Seq(Dirs) /\ ToSet(s) = CueIn[i][d]
  BY CueDirs
<1>2. \A e \in Dirs : t.checks[e] \in Seq(Checks)
  BY TreeIs
<1>3. ChecksBy[i][d] = r
  BY DEF ChecksBy
<1>4. d \notin CueIn[i][d] => t.checks[d] = <<>>
  <2>1. CueIn[i][d] = ({d} \cup Below(BasesOf(t), d)) \cap t.cue
    BY CueDirs
  <2> QED BY <2>1, TreeIs
<1>5. PICK acc : Accumulates(acc, Len(s), Seq(Checks), <<>>, Collecting(t, s)) /\ acc[Len(s)] = r
  <2>1. s \in Orders
    BY <1>1 DEF Orders
  <2> HIDE DEF t
  <2> QED BY <1>2, <2>1, ChecksOfRuns
<1> HIDE DEF t, s, r
<1>6. Len(s) \in Nat /\ acc \in [0..Len(s) -> Seq(Checks)] /\ acc[0] = <<>>
  BY <1>1, <1>5 DEF Accumulates
<1>7. ASSUME NEW n \in 1..Len(s)
      PROVE  acc[n] = acc[n - 1] \o t.checks[s[n]] /\ acc[n - 1] \in Seq(Checks) /\ s[n] \in Dirs
  <2>1. acc[n - 1] \in Seq(Checks) /\ s[n] \in Dirs
    BY <1>1, <1>6
  <2>2. acc[n] = Collecting(t, s)[n][acc[n - 1]]
    BY <1>5 DEF Accumulates
  <2> QED BY <2>1, <2>2 DEF Collecting
<1> DEFINE S == {n \in 0..Len(s) : \A b \in Earlier(s, n + 1) : ToSet(t.checks[b]) \subseteq ToSet(acc[n])}
<1>8. 0 \in S
  <2>1. Earlier(s, 0 + 1) = {}
    BY <1>1, Listed
  <2> QED BY <1>6, <2>1
<1>9. \A n \in 0..(Len(s) - 1) : n \in S => n + 1 \in S
  <2> TAKE n \in 0..(Len(s) - 1)
  <2> HAVE n \in S
  <2>1. n + 1 \in 1..Len(s) /\ (n + 1) - 1 = n /\ n + 1 \in 0..Len(s)
    BY <1>6
  <2>2. Earlier(s, (n + 1) + 1) = Earlier(s, n + 1) \cup {s[n + 1]}
    BY <1>1, <2>1, Listed
  <2>3. acc[n + 1] = acc[n] \o t.checks[s[n + 1]] /\ acc[n] \in Seq(Checks) /\ t.checks[s[n + 1]] \in Seq(Checks)
    BY <1>2, <1>7, <2>1
  <2>4. ToSet(acc[n + 1]) = ToSet(acc[n]) \cup ToSet(t.checks[s[n + 1]])
    BY <2>3, JoinedSet
  <2> QED BY <2>1, <2>2, <2>4
<1>10. Len(s) \in S
  <2> HIDE DEF S
  <2>1. 0..Len(s) \subseteq S
    BY <1>6, <1>8, <1>9, NumbersByInduction
  <2> QED BY <1>6, <2>1
<1>11. \A b \in ToSet(s) : ToSet(t.checks[b]) \subseteq ToSet(r)
  <2>1. ToSet(s) = Earlier(s, Len(s) + 1)
    BY <1>1, Listed
  <2>2. \A b \in Earlier(s, Len(s) + 1) : ToSet(t.checks[b]) \subseteq ToSet(acc[Len(s)])
    BY <1>10
  <2> QED BY <1>5, <2>1, <2>2
<1>12. d \notin ToSet(s) => ToSet(t.checks[d]) = {}
  BY <1>1, <1>4 DEF ToSet
<1>13. r \in Seq(Checks)
  BY <1>5, <1>6
<1> QED BY <1>1, <1>3, <1>11, <1>12, <1>13 DEF t

\* The namespace of a root and what it renders, as functions of all directories.
Namespace(t, w, e) ==
    IF t.ns[e] # "" THEN t.ns[e]
    ELSE IF Len(LocalBases(t, e)) = 1 THEN w[LocalBases(t, e)[1]] ELSE ""
Render(t, w, e) ==
    LET all == (t.owns[e] \X {""}) \cup UNION {w[b] : b \in ToSet(LocalBases(t, e))}
    IN  IF t.ns[e] = "" THEN all ELSE {<<k[1], t.ns[e]>> : k \in all}

\* The namespace of a root is one that a directory names, or the default.
LEMMA NamespaceIs ==
  ASSUME NoCycles, NEW i \in DOMAIN Trees, NEW d \in Dirs
  PROVE  resolveNamespace(Trees[i], d) \in Namespaces
<1> DEFINE t == Trees[i]
           b == BasesOf(t)
           to == [e \in Dirs |-> ToSet(b[e])]
           V == Namespaces
           H == [e \in Dirs |-> [w \in [Dirs -> V] |-> Namespace(t, w, e)]]
           of == CHOOSE w : w = [e \in Dirs |-> Namespace(t, w, e)]
<1>1. resolveNamespace(t, d) = of[d]
  BY Zenon DEF resolveNamespace, Namespace
<1>2. b \in Edges /\ Acyclic(b) /\ "" \in V /\ \A e \in Dirs : t.ns[e] \in V /\ b[e] = LocalBases(t, e)
  BY EdgesOf, TreeIs, TreesAssumption DEF BasesOf
<1>3. \A e \in Dirs : Len(b[e]) = 1 => b[e][1] \in to[e] /\ b[e][1] \in Dirs
  <2> TAKE e \in Dirs
  <2>1. b[e] \in Seq(Dirs)
    BY <1>2 DEF Edges
  <2> QED BY <2>1 DEF ToSet
<1> HIDE DEF t, b
<1>4. to \in [Dirs -> SUBSET Dirs] /\ Founded(Dirs, to)
  BY <1>2, AcyclicFounded
<1>5. H \in [Dirs -> [[Dirs -> V] -> V]]
  BY <1>2, <1>3 DEF Namespace
<1>6. ReadsBelow(Dirs, to, V, H)
  <2> HIDE DEF to
  <2> QED BY <1>2, <1>3 DEF ReadsBelow, Namespace
<1>7. \E w : Solves(Dirs, w, Dirs, to, V, H)
  <2> HIDE DEF V, H, to
  <2> QED BY <1>2, <1>4, <1>5, <1>6, RecursionOn
<1>8. PICK w \in [Dirs -> V] : \A e \in Dirs : w[e] = Namespace(t, w, e)
  BY <1>7 DEF Solves
<1>9. of = [e \in Dirs |-> Namespace(t, of, e)]
  <2>1. w = [e \in Dirs |-> Namespace(t, w, e)]
    BY <1>8
  <2> QED BY <2>1, Zenon
<1> HIDE DEF of, H, V
<1>10. {e \in Dirs : of[e] \notin V} = {}
  <2> DEFINE bad == {e \in Dirs : of[e] \notin V}
  <2> SUFFICES ASSUME bad # {} PROVE FALSE
    OBVIOUS
  <2>1. PICK e \in bad : ToSet(b[e]) \cap bad = {}
    <3>1. bad \in SUBSET Dirs /\ bad # {}
      OBVIOUS
    <3> HIDE DEF bad
    <3> QED BY <1>2, <3>1 DEF Acyclic
  <2>2. of[e] = Namespace(t, of, e)
    BY <1>9, <2>1
  <2> QED BY <1>2, <1>3, <2>1, <2>2 DEF Namespace
<1> QED BY <1>1, <1>10 DEF t, V

\* A root renders resources, each in a namespace.
LEMMA RenderIs ==
  ASSUME NoCycles, NEW i \in DOMAIN Trees, NEW d \in Dirs
  PROVE  RenderedBy[i][d] \subseteq Keys
<1> DEFINE t == Trees[i]
           b == BasesOf(t)
           to == [e \in Dirs |-> ToSet(b[e])]
           V == SUBSET Keys
           H == [e \in Dirs |-> [w \in [Dirs -> V] |-> Render(t, w, e)]]
           of == CHOOSE w : w = [e \in Dirs |-> Render(t, w, e)]
<1>1. RenderedBy[i][d] = of[d]
  <2>1. Rendered(t, d) = of[d]
    BY Zenon DEF Rendered, Render
  <2> QED BY <2>1 DEF RenderedBy
<1>2. /\ b \in Edges /\ Acyclic(b) /\ "" \in Namespaces
      /\ \A e \in Dirs : t.ns[e] \in Namespaces /\ t.owns[e] \subseteq Objs /\ b[e] = LocalBases(t, e)
  BY EdgesOf, TreeIs, TreesAssumption DEF BasesOf
<1> HIDE DEF t, b
<1>4. to \in [Dirs -> SUBSET Dirs] /\ Founded(Dirs, to)
  BY <1>2, AcyclicFounded
<1>3. ASSUME NEW w, NEW e \in Dirs, \A f \in ToSet(b[e]) : w[f] \in V
      PROVE  Render(t, w, e) \in V
  <2> DEFINE all == (t.owns[e] \X {""}) \cup UNION {w[f] : f \in ToSet(LocalBases(t, e))}
  <2>1. all \subseteq Keys
    <3>1. (t.owns[e] \X {""}) \subseteq Keys
      BY <1>2 DEF Keys
    <3>2. \A f \in ToSet(LocalBases(t, e)) : w[f] \subseteq Keys
      BY <1>2, <1>3
    <3> QED BY <3>1, <3>2
  <2>2. {<<k[1], t.ns[e]>> : k \in all} \subseteq Keys
    <3> HIDE DEF all
    <3>1. \A k \in all : k[1] \in Objs
      BY <2>1 DEF Keys
    <3>2. \A o \in Objs : <<o, t.ns[e]>> \in Keys
      BY <1>2 DEF Keys
    <3> QED BY <3>1, <3>2
  <2> QED BY <2>1, <2>2 DEF Render
<1>5. H \in [Dirs -> [[Dirs -> V] -> V]]
  <2>1. ASSUME NEW e \in Dirs, NEW w \in [Dirs -> V] PROVE Render(t, w, e) \in V
    <3>1. \A f \in ToSet(b[e]) : f \in Dirs
      BY <1>4
    <3> HIDE DEF V
    <3> QED BY <1>3, <3>1
  <2> HIDE DEF V
  <2> QED BY <2>1
<1>6. ReadsBelow(Dirs, to, V, H)
  <2> HIDE DEF V
  <2> SUFFICES ASSUME NEW e \in Dirs, NEW w \in [Dirs -> V], NEW u \in [Dirs -> V],
                      \A f \in to[e] : w[f] = u[f]
               PROVE  H[e][w] = H[e][u]
    BY DEF ReadsBelow
  <2>1. \A f \in ToSet(LocalBases(t, e)) : w[f] = u[f]
    BY <1>2
  <2>2. {w[f] : f \in ToSet(LocalBases(t, e))} = {u[f] : f \in ToSet(LocalBases(t, e))}
    BY <2>1
  <2>3. Render(t, w, e) = Render(t, u, e)
    BY <2>2, Zenon DEF Render
  <2> QED BY <2>3
<1>7. \E w : Solves(Dirs, w, Dirs, to, V, H)
  <2>1. {} \in V
    OBVIOUS
  <2> HIDE DEF V, H, to
  <2> QED BY <2>1, <1>4, <1>5, <1>6, RecursionOn
<1>8. PICK w \in [Dirs -> V] : \A e \in Dirs : w[e] = Render(t, w, e)
  BY <1>7 DEF Solves
<1>9. of = [e \in Dirs |-> Render(t, of, e)]
  <2>1. w = [e \in Dirs |-> Render(t, w, e)]
    BY <1>8
  <2> QED BY <2>1, Zenon
<1> HIDE DEF of, H, V
<1>10. {e \in Dirs : of[e] \notin V} = {}
  <2> DEFINE bad == {e \in Dirs : of[e] \notin V}
  <2> SUFFICES ASSUME bad # {} PROVE FALSE
    OBVIOUS
  <2>1. PICK e \in bad : ToSet(b[e]) \cap bad = {}
    <3>1. bad \in SUBSET Dirs /\ bad # {}
      OBVIOUS
    <3> HIDE DEF bad
    <3> QED BY <1>2, <3>1 DEF Acyclic
  <2>2. of[e] = Render(t, of, e) /\ \A f \in ToSet(b[e]) : f \in Dirs
    BY <1>4, <1>9, <2>1
  <2> QED BY <1>3, <2>1, <2>2
<1> QED BY <1>1, <1>10 DEF V

\* The plan is exact, and not empty.
LEMMA PlanIsExactOf ==
  ASSUME NoCycles, NEW i \in DOMAIN Trees, NEW target \in Dirs
  PROVE  /\ PlanExact(i, target, Plan(Trees[i], target))
         /\ Plan(Trees[i], target) \in Seq(Dirs) \ {<<>>}
<1> DEFINE t == Trees[i]
           m == ImportsOf(t)
           steps == Plan(t, target)
<1>1. CASE ~t.module
  <2>1. steps = <<target>> /\ \A d : NeedsOf(i, target, d) = {}
    BY <1>1 DEF Plan, NeedsOf
  <2> QED BY <2>1 DEF PlanExact, IsInjective, Last, ToSet
<1>2. CASE t.module
  <2>1. m \in Edges
    BY EdgesOf
  <2>2. /\ Ordered(m, steps) /\ Len(steps) \in 1..Len(steps) /\ steps[Len(steps)] = target
        /\ ToSet(steps) = {target} \cup UNION {Below(m, c) : c \in CueIn[i][target]}
        /\ \A c \in CueIn[i][target] : target \notin Below(m, c)
    BY <1>2, PlanIs
  <2>3. \A c \in Dirs : ImportedBy[i][c] = Below(m, c)
    BY DEF ImportedBy, ImportsOf
  <2>4. CueIn[i][target] \subseteq Dirs
    BY CueDirs
  <2>5. NeedsOf(i, target, target) = UNION {Below(m, c) : c \in CueIn[i][target]}
    <3>1. NeedsOf(i, target, target) = (UNION {ImportedBy[i][c] : c \in CueIn[i][target]}) \ {target}
      BY <1>2 DEF NeedsOf
    <3>2. {ImportedBy[i][c] : c \in CueIn[i][target]} = {Below(m, c) : c \in CueIn[i][target]}
      BY <2>3, <2>4
    <3> QED BY <2>2, <3>1, <3>2
  <2>6. \A d \in Dirs \ {target} : NeedsOf(i, target, d) \subseteq Below(m, d)
    BY <1>2, <2>3 DEF NeedsOf
  <2> HIDE DEF m, steps
  <2>7. steps \in Seq(Dirs) /\ IsInjective(steps) /\ Len(steps) \in Nat
    BY <2>2 DEF Ordered
  <2>8. ASSUME NEW n \in 1..Len(steps)
        PROVE  NeedsOf(i, target, steps[n]) \subseteq Earlier(steps, n)
    <3>1. CASE steps[n] = target
      <4>1. n = Len(steps)
        BY <2>2, <2>7, <3>1 DEF IsInjective
      <4>2. ToSet(steps) = Earlier(steps, n) \cup {target}
        BY <2>7, <3>1, <4>1, Listed
      <4> QED BY <2>2, <2>5, <3>1, <4>2
    <3>2. CASE steps[n] # target
      <4>1. steps[n] \in Dirs /\ Below(m, steps[n]) \subseteq Earlier(steps, n)
        BY <2>1, <2>2, OrderedBelow
      <4> QED BY <2>6, <3>2, <4>1
    <3> QED BY <3>1, <3>2
  <2>9. \A n \in 1..Len(steps) : ToSet(SubSeq(steps, 1, n - 1)) = Earlier(steps, n)
    <3> TAKE n \in 1..Len(steps)
    <3> DEFINE front == SubSeq(steps, 1, n - 1)
    <3>1. front = [j \in 1..(n - 1) |-> steps[j]]
      BY <2>7
    <3>2. DOMAIN front = 1..(n - 1) /\ \A j \in 1..(n - 1) : front[j] = steps[j]
      BY <3>1
    <3> HIDE DEF front
    <3>3. ToSet(front) = Earlier(steps, n)
      BY <3>2 DEF ToSet, Earlier
    <3> QED BY <3>3 DEF front
  <2>10. Last(steps) = target
    BY <2>2 DEF Last
  <2>11. PlanExact(i, target, steps)
    BY <2>2, <2>5, <2>7, <2>8, <2>9, <2>10 DEF PlanExact
  <2>12. steps # <<>>
    BY <2>2
  <2> QED BY <2>7, <2>11, <2>12 DEF steps
<1> QED BY <1>1, <1>2, TreeIs

\* What the runs need of all this: the walks over a repository end, in what its
\* directories name.
WalksEnd ==
    \A i \in DOMAIN Trees, d \in Dirs :
       /\ Plan(Trees[i], d) \in Seq(Dirs) \ {<<>>}
       /\ RenderedBy[i][d] \subseteq Keys
       /\ ChecksBy[i][d] \in Seq(Checks)
       /\ resolveNamespace(Trees[i], d) \in Namespaces

\* The plans are exact.
PlansExact == \A c \in Cases : PlanExact(c[1], c[2].target, Plan(Trees[c[1]], c[2].target))

\* No check of a directory's tree is left out.
ChecksCollected ==
    \A i \in DOMAIN Trees, d \in Dirs : \A b \in CueIn[i][d] \cup {d} :
       ToSet(Trees[i].checks[b]) \subseteq ToSet(ChecksBy[i][d])

\* A repository without cycles gives a run all of it.
LEMMA TreesGive ==
    ASSUME NoCycles
    PROVE  WalksEnd /\ PlansExact /\ ChecksCollected
<1>1. WalksEnd
  BY PlanIsExactOf, RenderIs, ChecksOfIs, NamespaceIs DEF WalksEnd
<1>2. PlansExact
  <2> SUFFICES ASSUME NEW c \in Cases
               PROVE  PlanExact(c[1], c[2].target, Plan(Trees[c[1]], c[2].target))
    BY DEF PlansExact
  <2>1. c[1] \in DOMAIN Trees /\ c[2].target \in Dirs
    BY CasesAssumption DEF Asked
  <2> QED BY <2>1, PlanIsExactOf
<1>3. ChecksCollected
  BY ChecksOfIs DEF ChecksCollected
<1> QED BY <1>1, <1>2, <1>3

--------------------------------------------------------------------------------
Typed == Counted /\ Stands

\* What is in a list and is not its head is in its tail.
LEMMA InTail ==
    ASSUME NEW S, NEW s \in Seq(S), s # <<>>, NEW c \in ToSet(s), c # Head(s)
    PROVE  c \in ToSet(Tail(s))
<1> DEFINE rest == Tail(s)
<1>1. PICK n \in 1..Len(s) : s[n] = c
  BY DEF ToSet
<1>2. rest \in Seq(S) /\ Len(rest) = Len(s) - 1 /\ n # 1
  BY <1>1
<1>3. n - 1 \in 1..Len(rest) /\ rest[n - 1] = c
  BY <1>1, <1>2
<1> HIDE DEF rest
<1>4. n - 1 \in DOMAIN rest
  BY <1>2, <1>3
<1>5. c \in ToSet(rest)
  BY <1>3, <1>4 DEF ToSet
<1> QED
  BY <1>5 DEF rest

\* The six invocations of a step, and which of them puts a mode in place.
LEMMA Groups ==
    /\ Len(applyGroups) = 6
    /\ applyGroups[1].verb = "create" /\ applyGroups[1].modes = {"create"}
    /\ applyGroups[2].verb = "delete" /\ applyGroups[2].modes = {"replace"}
    /\ applyGroups[3].verb = "apply"  /\ applyGroups[3].modes = {"replace"}
    /\ applyGroups[4].verb = "apply"  /\ applyGroups[4].modes = {"serverside-force"}
    /\ applyGroups[5].verb = "apply"  /\ applyGroups[5].modes = {"serverside"}
    /\ applyGroups[6].verb = "apply"
  BY DEF applyGroups

\* The last apply group takes what carries no mode.
LEMMA LastGroup == applyGroups[6].modes = {""}
  BY DEF applyGroups

\* A run is at one of the steps of its plan.
LEMMA StepOfPlan ==
    ASSUME Stands, Running
    PROVE  /\ run.at \in 1..Len(run.steps) /\ run.at \in Nat
           /\ Len(run.steps) \in Nat /\ Step \in Dirs /\ Step \in ToSet(run.steps)
<1>1. run.steps \in Seq(Dirs) /\ run.at \in Nat
  BY DEF Stands, RunRecord
<1>2. run.at \in 1..Len(run.steps)
  BY <1>1 DEF Stands
<1> QED
  BY <1>1, <1>2 DEF Step, ToSet

\* A request that was asked, with its dry-run flag normalised.
LEMMA AskedAgain ==
    ASSUME NEW q \in Asked
    PROVE  /\ [q EXCEPT !.dryRun = normalizeDryRun(@)] \in Asked
           /\ LET r == [q EXCEPT !.dryRun = normalizeDryRun(@)]
              IN  /\ r.target = q.target /\ r.checksOnly = q.checksOnly /\ r.selector = q.selector
                  /\ r.skipChecks = q.skipChecks /\ r.printDeps = q.printDeps
                  /\ r.dryRun = normalizeDryRun(q.dryRun)
<1> DEFINE v == normalizeDryRun(q.dryRun)
<1>1. v \in DryRuns
  BY DEF Asked, normalizeDryRun, DryRuns
<1>2. [q EXCEPT !.dryRun = normalizeDryRun(@)] = [q EXCEPT !.dryRun = v]
  OBVIOUS
<1> HIDE DEF v
<1>3. /\ [q EXCEPT !.dryRun = v] \in Asked
      /\ LET r == [q EXCEPT !.dryRun = v]
         IN  /\ r.target = q.target /\ r.checksOnly = q.checksOnly /\ r.selector = q.selector
             /\ r.skipChecks = q.skipChecks /\ r.printDeps = q.printDeps /\ r.dryRun = v
  BY <1>1 DEF Asked
<1> QED
  BY <1>2, <1>3 DEF v

\* The record of no run has the shape of one.
LEMMA NoRunType ==
    ASSUME NEW q \in Requests
    PROVE  /\ NoRun \in RunRecord
           /\ NoRun.pc = "none" /\ NoRun.steps = <<>> /\ NoRun.at = 0 /\ NoRun.done = {}
<1>1. (CHOOSE r \in Requests : TRUE) \in Asked
  BY CasesAssumption DEF Requests
<1>2. <<>> \in Seq(Dirs) /\ <<>> \in Seq(Checks) /\ 0 \in 0..Timeout
  BY BoundsAssumption
<1> QED
  BY <1>1, <1>2 DEF NoRun, RunRecord, Ended

\* What the operator asked for reaches every step.
LEMMA OptionsReach ==
    ASSUME NEW r
    PROVE  /\ Options(r).dryRun = r.req.dryRun /\ Options(r).skipChecks = r.req.skipChecks
           /\ Options(r).checksOnly = r.req.checksOnly /\ Options(r).selector = r.req.selector
  BY DEF Options, depOpts

\* What a check looks at is somewhere in the cluster.
LEMMA CheckNamespaceIs ==
    ASSUME WalksEnd, NEW i \in DOMAIN Trees, NEW d \in Dirs, NEW c \in Checks
    PROVE  <<c.obj, CheckNamespace(Trees[i], d, c)>> \in Keys
<1>1. resolveNamespace(Trees[i], d) \in Namespaces /\ c.ns \in Namespaces /\ c.obj \in Objs
  BY DEF WalksEnd, Checks
<1> QED
  BY <1>1 DEF CheckNamespace, Keys

\* Where a step starts.
LEMMA EnterIs ==
    ASSUME NEW r \in RunRecord
    PROVE  /\ \E pc \in {"failed", "finish", "parse", "preflight"} : Enter(r) = [r EXCEPT !.pc = pc]
              \/ Enter(r) = [r EXCEPT !.pc = "apply", !.inv = 1]
           /\ Enter(r) \in RunRecord
           /\ Enter(r).req = r.req /\ Enter(r).steps = r.steps /\ Enter(r).at = r.at
           /\ Enter(r).todo = r.todo /\ Enter(r).done = r.done /\ Enter(r).passed = r.passed
           /\ Enter(r).pc \in {"failed", "finish", "parse", "preflight", "apply"}
           /\ Enter(r).pc = "finish" => r.req.checksOnly /\ r.req.skipChecks
           /\ Enter(r).pc = "parse" => r.req.checksOnly /\ ~r.req.skipChecks
           /\ Enter(r).pc \in {"preflight", "apply"} => ~r.req.checksOnly
           /\ Enter(r).pc = "apply" => Enter(r).inv = 1
<1>1. CASE r.steps[r.at] \notin tree.kust
  BY <1>1 DEF Enter, RunRecord, Ended
<1>2. CASE r.steps[r.at] \in tree.kust /\ r.req.checksOnly
  BY <1>2, OptionsReach DEF Enter, RunRecord
<1>3. CASE r.steps[r.at] \in tree.kust /\ ~r.req.checksOnly /\ r.req.selector
  BY <1>3, OptionsReach DEF Enter, RunRecord
<1>4. CASE r.steps[r.at] \in tree.kust /\ ~r.req.checksOnly /\ ~r.req.selector
  <2>1. Enter(r) = [r EXCEPT !.pc = "apply", !.inv = 1]
    BY <1>4, OptionsReach DEF Enter
  <2>2. 1 \in 1..6
    OBVIOUS
  <2> QED
    BY <1>4, <2>1, <2>2 DEF RunRecord
<1> QED
  BY <1>1, <1>2, <1>3, <1>4

\* A run as Begin makes it, before its first step.
LEMMA NewRun ==
    ASSUME WalksEnd, repo \in DOMAIN Trees, NEW q, <<repo, q>> \in Cases
    PROVE  LET steps == Plan(tree, q.target)
               r == [NoRun EXCEPT !.req = [q EXCEPT !.dryRun = normalizeDryRun(@)],
                                  !.steps = steps, !.at = 1]
           IN  /\ q \in Asked /\ q \in Requests /\ q.target \in Dirs
               /\ r \in RunRecord /\ r.req = [q EXCEPT !.dryRun = normalizeDryRun(@)]
               /\ r.steps = steps /\ r.at = 1 /\ r.done = {} /\ steps # <<>> /\ steps \in Seq(Dirs)
               /\ 1 \in 1..Len(steps)
<1> DEFINE steps == Plan(tree, q.target)
           req   == [q EXCEPT !.dryRun = normalizeDryRun(@)]
           r     == [NoRun EXCEPT !.req = req, !.steps = steps, !.at = 1]
<1>1. q \in Asked /\ q \in Requests /\ q.target \in Dirs
  BY CasesAssumption DEF Requests, Asked
<1>2. steps \in Seq(Dirs) /\ steps # <<>>
  BY <1>1 DEF WalksEnd, tree
<1>3. req \in Asked
  BY <1>1, AskedAgain
<1>4. NoRun \in RunRecord /\ NoRun.done = {}
  BY <1>1, NoRunType
<1> HIDE DEF steps, req
<1>5. r \in RunRecord /\ r.req = req /\ r.steps = steps /\ r.at = 1 /\ r.done = {}
  BY <1>2, <1>3, <1>4 DEF RunRecord
<1>6. 1 \in 1..Len(steps)
  BY <1>2
<1> QED
  BY <1>1, <1>2, <1>5, <1>6 DEF steps, req

\* What is known of the repository while a step is on.
LEMMA StepTables ==
    ASSUME Typed, WalksEnd, Running
    PROVE  /\ repo \in DOMAIN Trees /\ Step \in Dirs
           /\ RenderedBy[repo][Step] \subseteq Keys /\ ChecksBy[repo][Step] \in Seq(Checks)
           /\ resolveNamespace(tree, Step) \in Namespaces
  BY StepOfPlan DEF Typed, Counted, WalksEnd, tree

\* Bounds.
LEMMA CountedStep ==
    ASSUME Typed, WalksEnd, [Next]_vars
    PROVE  Counted'
<1> USE DEF Typed
<1> DEFINE Left == [edits : 0..Edits, runs : 0..Runs, faults : 0..Faults, kills : 0..Kills]
           Objects(s) == {NoObject} \cup [ver : 1..s, by : Dirs]
<1>1. /\ Edits \in Nat /\ Runs \in Nat /\ Faults \in Nat /\ Kills \in Nat
      /\ repo \in DOMAIN Trees /\ left \in Left /\ source = 1 + Edits - left.edits
      /\ pods \in Nat /\ pods + left.faults + left.kills <= Faults + Kills
      /\ ready \subseteq Keys /\ cluster \in [Keys -> Objects(source)]
  BY BoundsAssumption DEF Counted
<1>2. /\ left.edits \in 0..Edits /\ left.runs \in 0..Runs /\ left.faults \in 0..Faults
      /\ left.kills \in 0..Kills /\ source \in Nat \ {0}
  BY <1>1
<1>3. ASSUME repo' = repo, left' \in Left, source' = 1 + Edits - left'.edits,
             pods' \in Nat, pods' + left'.faults + left'.kills <= Faults + Kills,
             ready' \subseteq Keys, cluster' \in [Keys -> Objects(source')]
      PROVE  Counted'
  BY <1>1, <1>3 DEF Counted
<1>4. ASSUME Fails
      PROVE  /\ left' \in Left /\ left'.edits = left.edits /\ left'.kills = left.kills
             /\ left'.faults = left.faults - 1
  BY <1>1, <1>2, <1>4 DEF Fails
<1> HIDE DEF Left
<1>5. CASE Edit
  <2>1. left' \in Left /\ left'.edits = left.edits - 1 /\ left'.faults = left.faults /\ left'.kills = left.kills
    BY <1>1, <1>2, <1>5 DEF Edit, Left
  <2>2. Objects(source) \subseteq Objects(source')
    BY <1>2, <1>5 DEF Edit
  <2> QED
    BY <1>1, <1>2, <1>3, <1>5, <2>1, <2>2 DEF Edit
<1>6. CASE Begin
  <2>1. /\ left.runs > 0 /\ left' = [left EXCEPT !.runs = @ - 1]
        /\ UNCHANGED <<repo, source, cluster, ready, pods>>
    BY <1>6, Zenon DEF Begin
  <2>2. left' \in Left /\ left'.edits = left.edits /\ left'.faults = left.faults /\ left'.kills = left.kills
    BY <1>1, <1>2, <2>1 DEF Left
  <2> QED
    BY <1>1, <1>2, <1>3, <2>1, <2>2
<1>7. CASE Preflight
  BY <1>1, <1>2, <1>3, <1>4, <1>7 DEF Preflight
<1>8. CASE Apply
  <2>1. Running /\ Step \in Dirs
    BY <1>8, StepTables DEF Apply, Running, Ended
  <2>2. ASSUME NEW g, NEW k \in Keys
        PROVE  Applied(g, k) \in Objects(source)
    <3>1. [ver |-> source, by |-> Step] \in Objects(source)
      BY <1>2, <2>1
    <3> QED
      BY <1>1, <3>1 DEF Applied
  <2>3. cluster' \in [Keys -> Objects(source)]
    BY <1>1, <1>8, <2>2 DEF Apply
  <2>4. UNCHANGED left \/ Fails
    BY <1>8 DEF Apply
  <2>5. ready' \subseteq Keys /\ UNCHANGED <<repo, source, pods>>
    BY <1>1, <1>8 DEF Apply
  <2> QED
    BY <1>1, <1>2, <1>3, <1>4, <2>3, <2>4, <2>5
<1>9. CASE Parse \/ Wait \/ Attempt \/ AttemptEnds \/ Retry \/ Finish \/ UNCHANGED vars
  <2>1. UNCHANGED <<repo, source, cluster, ready, pods, left>>
    BY <1>9 DEF Parse, Wait, Attempt, AttemptEnds, Retry, Finish, vars
  <2> QED
    BY <1>1, <1>2, <1>3, <2>1
<1>10. CASE ProbeEnds
  <2>1. UNCHANGED <<repo, source, cluster, ready>>
    BY <1>10 DEF ProbeEnds
  <2>2. UNCHANGED <<pods, left>> \/ (Fails /\ pods' = pods + 1)
    BY <1>10 DEF ProbeEnds, deleteProbePod
  <2> QED
    BY <1>1, <1>2, <1>3, <1>4, <2>1, <2>2
<1>11. CASE Killed
  <2>1. /\ left' \in Left /\ left'.edits = left.edits /\ left'.faults = left.faults
        /\ left'.kills = left.kills - 1
    BY <1>1, <1>2, <1>11 DEF Killed, Left
  <2>2. pods' \in {pods, pods + 1} /\ UNCHANGED <<repo, source, cluster, ready>>
    BY <1>11 DEF Killed
  <2> QED
    BY <1>1, <1>2, <1>3, <2>1, <2>2
<1>12. ASSUME NEW k \in Keys, BecomeReady(k)
       PROVE  Counted'
  BY <1>1, <1>2, <1>3, <1>12 DEF BecomeReady
<1> QED
  BY <1>5, <1>6, <1>7, <1>8, <1>9, <1>10, <1>11, <1>12 DEF Next, Progress

\* The run as Begin leaves it.
LEMMA BeginIs ==
    ASSUME Typed, WalksEnd, Begin
    PROVE  \E q : LET steps == Plan(tree, q.target)
                      r == [NoRun EXCEPT !.req = [q EXCEPT !.dryRun = normalizeDryRun(@)],
                                         !.steps = steps, !.at = 1]
                  IN  /\ <<repo, q>> \in Cases
                      /\ \/ run' = [NoRun EXCEPT !.pc = "refused"]
                         \/ run' = [r EXCEPT !.pc = "failed"]
                         \/ run' = [r EXCEPT !.pc = "printed"]
                         \/ run' = Enter(r) /\ ~q.printDeps
  BY Zenon DEF Begin

\* A run that enters a step stands well there.
LEMMA EnterStands ==
    ASSUME NEW r \in RunRecord, r.at \in 1..Len(r.steps), r.done \subseteq ToSet(r.steps),
           ~r.req.printDeps, run' = Enter(r)
    PROVE  Stands'
<1>1. /\ run' \in RunRecord /\ run'.req = r.req /\ run'.steps = r.steps /\ run'.at = r.at
      /\ run'.done = r.done /\ run'.pc \in {"failed", "finish", "parse", "preflight", "apply"}
      /\ run'.pc = "finish" => r.req.skipChecks
      /\ run'.pc = "parse" => ~r.req.skipChecks
      /\ run'.pc \in {"preflight", "apply"} => ~r.req.checksOnly
  BY EnterIs
<1>2. r.at # 0 /\ r.at \in 0..Len(r.steps)
  OBVIOUS
<1> QED
  BY <1>1, <1>2 DEF Stands, RunRecord, Running, Ended, Checking

\* A run that has ended stands.
LEMMA EndedStands ==
    ASSUME NEW r \in RunRecord, NEW pc \in Ended, run' = [r EXCEPT !.pc = pc],
           r.at \in 0..Len(r.steps), r.done \subseteq ToSet(r.steps)
    PROVE  Stands' /\ run'.pc = pc
<1>1. /\ run' \in RunRecord /\ run'.pc = pc /\ run'.steps = r.steps /\ run'.at = r.at
      /\ run'.done = r.done
  BY DEF RunRecord
<1> QED
  BY <1>1 DEF Stands, RunRecord, Running, Ended, Checking

\* A check that passes.
LEMMA PassesIs ==
    ASSUME Typed, WalksEnd, Running, run.todo # <<>>
    PROVE  /\ Looked \in Keys /\ Head(run.todo) \in Checks /\ Passes \in RunRecord
           /\ Passes.pc = "check" /\ Passes.todo = Tail(run.todo) /\ Passes.wait = Timeout
           /\ Passes.passed = run.passed \cup {<<Step, Head(run.todo), Looked>>}
           /\ Passes.req = run.req /\ Passes.steps = run.steps /\ Passes.at = run.at
           /\ Passes.inv = run.inv /\ Passes.done = run.done
<1>1. run \in RunRecord /\ run.todo \in Seq(Checks) /\ run.passed \subseteq Dirs \X Checks \X Keys
  BY DEF Typed, Stands, RunRecord
<1>2. Head(run.todo) \in Checks /\ Tail(run.todo) \in Seq(Checks)
  BY <1>1
<1>3. Looked \in Keys
  BY <1>2, StepTables, CheckNamespaceIs DEF Looked, tree
<1>4. <<Step, Head(run.todo), Looked>> \in Dirs \X Checks \X Keys
  BY <1>2, <1>3, StepTables
<1>5. Timeout \in 0..Timeout /\ "check" \in Checking
  BY BoundsAssumption DEF Checking
<1> DEFINE rest == Tail(run.todo)
           all  == run.passed \cup {<<Step, Head(run.todo), Looked>>}
<1>6. rest \in Seq(Checks) /\ all \in SUBSET (Dirs \X Checks \X Keys)
  BY <1>1, <1>2, <1>4
<1>7. Passes = [run EXCEPT !.pc = "check", !.todo = rest, !.wait = Timeout, !.passed = all]
  BY DEF Passes
<1> HIDE DEF rest, all
<1>8. [run EXCEPT !.pc = "check", !.todo = rest, !.wait = Timeout, !.passed = all] \in RunRecord
  BY <1>1, <1>5, <1>6 DEF RunRecord
<1>9. /\ Passes.pc = "check" /\ Passes.todo = rest /\ Passes.wait = Timeout /\ Passes.passed = all
      /\ Passes.req = run.req /\ Passes.steps = run.steps /\ Passes.at = run.at
      /\ Passes.inv = run.inv /\ Passes.done = run.done
  BY <1>1, <1>7 DEF RunRecord
<1> QED
  BY <1>2, <1>3, <1>7, <1>8, <1>9 DEF rest, all

Moves == Preflight \/ Apply \/ Parse \/ Wait \/ Attempt \/ AttemptEnds \/ ProbeEnds \/ Retry

\* Within a step the run keeps its request, its plan and its place, and what it
\* has seen.
LEMMA MoveStands ==
    ASSUME Typed, WalksEnd, Moves
    PROVE  /\ Stands' /\ Running /\ run'.pc # "ok"
           /\ run'.req = run.req /\ run'.steps = run.steps /\ run'.at = run.at /\ run'.done = run.done
           /\ run.passed \subseteq run'.passed
           /\ UNCHANGED <<repo, source>>
<1> DEFINE Same == /\ run'.req = run.req /\ run'.steps = run.steps /\ run'.at = run.at
                   /\ run'.done = run.done /\ run'.pc # "ok"
                   /\ run.passed \subseteq run'.passed
           At(pc) == /\ pc # "ok"
                     /\ pc \in {"preflight", "apply"} => ~run.req.checksOnly
                     /\ pc \in Checking \cup {"parse"} => ~run.req.skipChecks
                     /\ pc = "finish" => run.req.skipChecks
<1>1. /\ run \in RunRecord /\ run.at \in 0..Len(run.steps) /\ run.done \subseteq ToSet(run.steps)
      /\ run.todo \in Seq(Checks) /\ run.wait \in 0..Timeout /\ run.inv \in 1..6 /\ Timeout \in Nat
      /\ run.pc \in Checking \ {"check"} => run.todo # <<>>
  BY BoundsAssumption DEF Typed, Stands, RunRecord
<1>2. Running /\ At(run.pc) /\ UNCHANGED <<repo, source>>
  BY DEF Moves, Preflight, Apply, Parse, Wait, Attempt, AttemptEnds, ProbeEnds, Retry, Running, Ended,
         Typed, Stands
<1>3. run.at # 0 /\ ~run.req.printDeps
  BY <1>2 DEF Typed, Stands
<1>4. ASSUME run' \in RunRecord, Same, At(run'.pc), run'.pc \in Checking \ {"check"} => run'.todo # <<>>
      PROVE  Stands' /\ Same
  BY <1>1, <1>3, <1>4 DEF Stands, Running
<1>5. ASSUME NEW pc \in Ended \cup Checking \cup {"preflight", "apply", "parse", "finish"}, At(pc),
             NEW w \in 0..Timeout, NEW n \in 1..6,
             NEW todo \in Seq(Checks), pc \in Checking \ {"check"} => todo # <<>>,
             run' = [run EXCEPT !.pc = pc, !.wait = w, !.inv = n, !.todo = todo]
      PROVE  Stands' /\ Same
  <2>1. run' \in RunRecord /\ Same /\ run'.pc = pc /\ run'.todo = todo
    BY <1>1, <1>5 DEF RunRecord
  <2> QED
    BY <1>4, <1>5, <2>1
<1>6. ASSUME run.todo # <<>>, ~run.req.skipChecks, run' = Passes
      PROVE  Stands' /\ Same
  <2>1. run' \in RunRecord /\ Same /\ run'.pc = "check"
    BY <1>1, <1>2, <1>6, PassesIs
  <2> QED
    BY <1>4, <1>6, <2>1 DEF Checking
<1>7. ASSUME NEW pc \in Ended \cup Checking \cup {"preflight", "apply", "parse", "finish"}, At(pc),
             NEW w \in 0..Timeout, pc \in Checking \ {"check"} => run.todo # <<>>,
             run' = [run EXCEPT !.pc = pc, !.wait = w]
      PROVE  Stands' /\ Same
  <2>1. run' \in RunRecord /\ Same /\ run'.pc = pc /\ run'.todo = run.todo
    BY <1>1, <1>7 DEF RunRecord
  <2> QED
    BY <1>4, <1>7, <2>1
<1>8. ASSUME NEW pc \in Ended \cup Checking \cup {"preflight", "apply", "parse", "finish"}, At(pc),
             pc \in Checking \ {"check"} => run.todo # <<>>, run' = [run EXCEPT !.pc = pc]
      PROVE  Stands' /\ Same
  <2>1. run' \in RunRecord /\ Same /\ run'.pc = pc /\ run'.todo = run.todo
    BY <1>1, <1>8 DEF RunRecord
  <2> QED
    BY <1>4, <1>8, <2>1
<1> HIDE DEF Same
<1>9. At("failed") /\ "failed" \in Ended
  BY DEF Ended, Checking
<1>10. run.pc \in Checking \cup {"parse"} =>
         At("check") /\ At("exec") /\ At("probe") /\ At("retry") /\ ~run.req.skipChecks
  BY <1>2 DEF Checking
<1>11. CASE Preflight
  <2>1. run.pc = "preflight" /\ At("apply") /\ 1 \in 1..6
    BY <1>2, <1>11 DEF Preflight, Checking
  <2>2. \/ run' = [run EXCEPT !.pc = "apply", !.inv = 1]
        \/ run' = [run EXCEPT !.pc = "failed"]
    BY <1>11 DEF Preflight
  <2>3. CASE run' = [run EXCEPT !.pc = "apply", !.inv = 1]
    <3>1. run' \in RunRecord /\ Same /\ run'.pc = "apply"
      BY <1>1, <2>1, <2>3 DEF RunRecord, Same
    <3> QED
      BY <1>2, <1>4, <2>1, <3>1 DEF Same, Checking
  <2> QED
    BY <1>2, <1>8, <1>9, <2>2, <2>3 DEF Same, Checking, Ended
<1>12. CASE Apply
  <2>1. run.pc = "apply" /\ ~run.req.checksOnly /\ Len(applyGroups) = 6
    BY <1>2, <1>12, Groups DEF Apply
  <2>2. \/ run' = [run EXCEPT !.pc = "failed"]
        \/ run.inv < 6 /\ run' = [run EXCEPT !.inv = @ + 1]
        \/ run.req.skipChecks /\ run' = [run EXCEPT !.pc = "finish"]
        \/ ~run.req.skipChecks /\ run' = [run EXCEPT !.pc = "parse"]
    <3>1. \E l : run' = IF ~Tolerated(applyGroups[run.inv], l) THEN [run EXCEPT !.pc = "failed"]
                       ELSE IF run.inv < Len(applyGroups) THEN [run EXCEPT !.inv = @ + 1]
                       ELSE IF opts.skipChecks THEN [run EXCEPT !.pc = "finish"]
                       ELSE [run EXCEPT !.pc = "parse"]
      BY <1>12, Zenon DEF Apply
    <3>2. opts.skipChecks = run.req.skipChecks
      BY OptionsReach DEF opts
    <3> QED
      BY <2>1, <3>1, <3>2
  <2>4. CASE run' = [run EXCEPT !.pc = "failed"]
    BY <1>2, <1>8, <1>9, <2>4 DEF Same, Checking, Ended
  <2>5. CASE run.inv < 6 /\ run' = [run EXCEPT !.inv = @ + 1]
    <3>1. run.inv + 1 \in 1..6
      BY <1>1, <2>5
    <3>2. run' \in RunRecord /\ Same /\ run'.pc = "apply"
      BY <1>1, <2>1, <2>5, <3>1 DEF RunRecord, Same
    <3> QED
      BY <1>1, <1>2, <1>4, <2>1, <3>2 DEF Same, Checking
  <2>6. ASSUME NEW pc \in {"finish", "parse"}, At(pc), run' = [run EXCEPT !.pc = pc]
        PROVE  Stands' /\ Same
    BY <1>8, <2>6 DEF Checking
  <2>7. (run.req.skipChecks => At("finish")) /\ (~run.req.skipChecks => At("parse"))
    BY DEF Checking
  <2> QED
    BY <1>2, <2>2, <2>4, <2>5, <2>6, <2>7 DEF Same
<1>13. CASE Parse
  <2> DEFINE todo == ChecksBy[repo][Step]
  <2>1. todo \in Seq(Checks) /\ run' = [run EXCEPT !.pc = "check", !.todo = todo, !.wait = Timeout]
    BY <1>2, <1>13, StepTables DEF Parse
  <2>2. run.pc = "parse"
    BY <1>13 DEF Parse
  <2> HIDE DEF todo
  <2>3. Timeout \in 0..Timeout /\ "check" \in Checking
    BY <1>1 DEF Checking
  <2>4. run' \in RunRecord /\ Same /\ run'.pc = "check"
    BY <1>1, <2>1, <2>3 DEF RunRecord, Same
  <2> QED
    BY <1>2, <1>4, <1>10, <2>2, <2>4 DEF Same, Checking
<1>14. CASE Wait
  <2>1. run.pc = "check" /\ run.todo # <<>> /\ (run' = Passes \/ run' = [run EXCEPT !.pc = "failed"])
    BY <1>14 DEF Wait
  <2> QED
    BY <1>2, <1>6, <1>8, <1>9, <1>10, <2>1 DEF Same, Checking, Ended
<1>15. CASE Attempt
  <2>1. /\ run.pc = "check" /\ run.todo # <<>>
        /\ \E pc \in {"exec", "probe", "retry"} : run' = [run EXCEPT !.pc = pc]
    BY <1>15 DEF Attempt
  <2> QED
    BY <1>2, <1>8, <1>10, <2>1 DEF Same, Checking
<1>16. ASSUME run.pc \in {"exec", "probe"}, NEW took \in 0..run.wait,
              run' = [run EXCEPT !.pc = "retry", !.wait = @ - took]
       PROVE  Stands' /\ Same
  <2>1. run.wait - took \in 0..Timeout
    BY <1>1
  <2> QED
    BY <1>1, <1>7, <1>10, <1>16, <2>1 DEF Checking
<1>17. CASE AttemptEnds
  <2>1. /\ run.pc = "exec" /\ run.todo # <<>>
        /\ \/ run' = Passes
           \/ \E took \in 0..run.wait : run' = [run EXCEPT !.pc = "retry", !.wait = @ - took]
    BY <1>1, <1>17 DEF AttemptEnds, Checking
  <2> QED
    BY <1>2, <1>6, <1>10, <1>16, <2>1 DEF Same, Checking
<1>18. CASE ProbeEnds
  <2>1. /\ run.pc = "probe" /\ run.todo # <<>>
        /\ \/ run' = Passes
           \/ run' = [run EXCEPT !.pc = "retry"]
           \/ \E took \in 0..run.wait : run' = [run EXCEPT !.pc = "retry", !.wait = @ - took]
    BY <1>1, <1>18 DEF ProbeEnds, Checking
  <2> QED
    BY <1>2, <1>6, <1>8, <1>10, <1>16, <2>1 DEF Same, Checking
<1>19. CASE Retry
  <2>1. /\ run.pc = "retry"
        /\ \/ run' = [run EXCEPT !.pc = "failed"]
           \/ run.wait >= 2 /\ run' = [run EXCEPT !.pc = "check", !.wait = @ - 2]
    BY <1>1, <1>19 DEF Retry, RetryInterval
  <2>2. run.wait >= 2 => run.wait - 2 \in 0..Timeout
    BY <1>1
  <2> QED
    BY <1>2, <1>7, <1>8, <1>9, <1>10, <2>1, <2>2 DEF Same, Checking, Ended
<1> QED
  BY <1>2, <1>11, <1>12, <1>13, <1>14, <1>15, <1>17, <1>18, <1>19 DEF Moves, Same

\* A new run has ended at once, or stands before its first step.
LEMMA BeginStands ==
    ASSUME Typed, WalksEnd, Begin
    PROVE  /\ Stands' /\ Planned' /\ ~Running /\ UNCHANGED <<repo, source, cluster, ready>>
           /\ run'.pc \notin {"ok"}
           /\ Running' => /\ run'.at = 1
                          /\ run'.pc \in {"finish", "parse", "preflight", "apply"}
                          /\ run'.pc = "apply" => run'.inv = 1
                          /\ run'.pc \in {"finish", "parse"} => run'.req.checksOnly
<1>1. ~Running /\ UNCHANGED <<repo, source, cluster, ready>>
  BY Zenon DEF Begin
<1> DEFINE req(q)  == [q EXCEPT !.dryRun = normalizeDryRun(@)]
           plan(q) == Plan(tree, q.target)
           new(q)  == [NoRun EXCEPT !.req = req(q), !.steps = plan(q), !.at = 1]
<1>2. PICK q : /\ <<repo, q>> \in Cases
               /\ \/ run' = [NoRun EXCEPT !.pc = "refused"]
                  \/ run' = [new(q) EXCEPT !.pc = "failed"]
                  \/ run' = [new(q) EXCEPT !.pc = "printed"]
                  \/ run' = Enter(new(q)) /\ ~q.printDeps
  BY BeginIs
<1>3. /\ q \in Asked /\ q \in Requests /\ new(q) \in RunRecord /\ new(q).req = req(q)
      /\ new(q).steps = plan(q) /\ new(q).at = 1 /\ new(q).done = {} /\ 1 \in 1..Len(plan(q))
      /\ plan(q) \in Seq(Dirs)
  BY <1>2, NewRun DEF Typed, Counted
<1>4. req(q).printDeps = q.printDeps
  BY <1>3, AskedAgain
<1>5. /\ NoRun \in RunRecord /\ NoRun.pc = "none" /\ NoRun.steps = <<>> /\ NoRun.at = 0
      /\ NoRun.done = {}
  BY <1>3, NoRunType
<1>6. tree' = tree
  BY <1>1 DEF tree
<1>7. ASSUME run'.req = req(q), run'.steps = plan(q)
      PROVE  Planned'
  BY <1>1, <1>2, <1>6, <1>7 DEF Planned
<1> HIDE DEF new, plan, req
<1>8. CASE run' = [NoRun EXCEPT !.pc = "refused"]
  <2>1. "refused" \in Ended /\ NoRun.at \in 0..Len(NoRun.steps) /\ NoRun.done \subseteq ToSet(NoRun.steps)
    BY <1>5 DEF Ended
  <2>2. Stands' /\ run'.pc = "refused"
    BY <1>5, <1>8, <2>1, EndedStands
  <2>3. run'.steps = <<>>
    BY <1>5, <1>8 DEF RunRecord
  <2> QED
    BY <1>1, <2>1, <2>2, <2>3 DEF Planned, Running
<1>9. ASSUME NEW pc \in {"failed", "printed"}, run' = [new(q) EXCEPT !.pc = pc]
      PROVE  Stands' /\ Planned' /\ run'.pc = pc
  <2>1. pc \in Ended /\ new(q).at \in 0..Len(new(q).steps) /\ new(q).done \subseteq ToSet(new(q).steps)
    BY <1>3 DEF Ended
  <2>2. Stands' /\ run'.pc = pc
    BY <1>3, <1>9, <2>1, EndedStands
  <2>3. run'.req = req(q) /\ run'.steps = plan(q)
    BY <1>3, <1>9 DEF RunRecord
  <2> QED
    BY <1>7, <2>2, <2>3
<1>10. CASE run' = Enter(new(q)) /\ ~q.printDeps
  <2>1. Stands'
    BY <1>3, <1>4, <1>10, EnterStands
  <2>2. /\ run'.req = req(q) /\ run'.steps = plan(q) /\ run'.at = 1
        /\ run'.pc \in {"failed", "finish", "parse", "preflight", "apply"}
        /\ run'.pc = "apply" => run'.inv = 1
        /\ run'.pc \in {"finish", "parse"} => run'.req.checksOnly
    BY <1>3, <1>10, EnterIs
  <2> QED
    BY <1>1, <1>7, <2>1, <2>2 DEF Running, Ended
<1> QED
  BY <1>1, <1>2, <1>8, <1>9, <1>10 DEF Running, Ended

\* A finished step is followed by the next one, or by the end.
LEMMA FinishStands ==
    ASSUME Typed, WalksEnd, Finish
    PROVE  /\ Stands' /\ Running /\ UNCHANGED <<repo, source, cluster, ready>>
           /\ run'.req = run.req /\ run'.steps = run.steps /\ run'.done = run.done \cup {Step}
           /\ run'.passed = run.passed
           /\ run'.pc = "ok" => run.at = Len(run.steps)
           /\ Running' => /\ run'.at = run.at + 1
                          /\ run'.pc \in {"finish", "parse", "preflight", "apply"}
                          /\ run'.pc = "apply" => run'.inv = 1
                          /\ run'.pc \in {"finish", "parse"} => run'.req.checksOnly
<1>1. Running /\ UNCHANGED <<repo, source, cluster, ready>>
  BY DEF Finish, Running, Ended
<1>2. /\ run \in RunRecord /\ run.at \in 1..Len(run.steps) /\ run.done \subseteq ToSet(run.steps)
      /\ Step \in Dirs /\ Step \in ToSet(run.steps) /\ ~run.req.printDeps /\ Len(run.steps) \in Nat
  BY <1>1, StepOfPlan DEF Typed, Stands
<1> DEFINE done == run.done \cup {Step}
           r    == [run EXCEPT !.done = done]
           n    == run.at + 1
           s    == [r EXCEPT !.at = n]
<1>3. done \subseteq ToSet(run.steps) /\ done \subseteq Dirs
  BY <1>2 DEF RunRecord
<1>4. run' = IF run.at = Len(run.steps) THEN [r EXCEPT !.pc = "ok"] ELSE Enter(s)
  BY <1>2 DEF Finish, RunRecord
<1>5. n \in Nat /\ (run.at # Len(run.steps) => n \in 1..Len(run.steps))
  BY <1>2
<1> HIDE DEF done, n
<1>6. /\ r \in RunRecord /\ r.req = run.req /\ r.steps = run.steps /\ r.at = run.at /\ r.done = done
      /\ r.passed = run.passed
  BY <1>2, <1>3 DEF RunRecord
<1>7. /\ s \in RunRecord /\ s.req = run.req /\ s.steps = run.steps /\ s.at = n /\ s.done = done
      /\ s.passed = run.passed
  BY <1>2, <1>5, <1>6 DEF RunRecord
<1> HIDE DEF r, s
<1>8. CASE run.at = Len(run.steps)
  <2>1. run' = [r EXCEPT !.pc = "ok"] /\ "ok" \in Ended /\ r.at \in 0..Len(r.steps)
    BY <1>2, <1>4, <1>6, <1>8 DEF Ended
  <2>2. Stands' /\ run'.pc = "ok"
    BY <1>3, <1>6, <2>1, EndedStands
  <2>3. /\ run'.req = run.req /\ run'.steps = run.steps /\ run'.done = done
        /\ run'.passed = run.passed
    BY <1>6, <2>1 DEF RunRecord
  <2> QED
    BY <1>1, <1>8, <2>1, <2>2, <2>3 DEF done, Running
<1>9. CASE run.at # Len(run.steps)
  <2>1. run' = Enter(s) /\ s.at \in 1..Len(s.steps) /\ s.done \subseteq ToSet(s.steps)
    BY <1>3, <1>4, <1>5, <1>7, <1>9
  <2>2. Stands'
    BY <1>2, <1>7, <2>1, EnterStands
  <2>3. /\ run'.req = run.req /\ run'.steps = run.steps /\ run'.done = done /\ run'.at = n
        /\ run'.passed = run.passed
        /\ run'.pc \in {"failed", "finish", "parse", "preflight", "apply"}
        /\ run'.pc = "apply" => run'.inv = 1
        /\ run'.pc \in {"finish", "parse"} => run'.req.checksOnly
    BY <1>7, <2>1, EnterIs
  <2> QED
    BY <1>1, <2>2, <2>3 DEF done, n, Running, Ended
<1> QED
  BY <1>8, <1>9

\* A killed run stands where it was.
LEMMA KilledStands ==
    ASSUME Typed, Killed
    PROVE  /\ Stands' /\ Running /\ run'.pc = "killed" /\ UNCHANGED <<repo, source, cluster, ready>>
           /\ run'.req = run.req /\ run'.steps = run.steps
<1>1. Running /\ run' = [run EXCEPT !.pc = "killed"] /\ UNCHANGED <<repo, source, cluster, ready>>
  BY DEF Killed
<1>2. run \in RunRecord /\ run.at \in 0..Len(run.steps) /\ run.done \subseteq ToSet(run.steps)
  BY DEF Typed, Stands
<1>3. "killed" \in Ended
  BY DEF Ended
<1>4. Stands' /\ run'.pc = "killed"
  BY <1>1, <1>2, <1>3, EndedStands
<1> QED
  BY <1>1, <1>2, <1>4 DEF RunRecord

\* Edits, controllers and stuttering leave the run alone.
LEMMA Others ==
    ASSUME [Next]_vars
    PROVE  \/ Begin \/ Moves \/ Finish \/ Killed
           \/ UNCHANGED <<repo, run>> /\ (Running => UNCHANGED <<source, cluster>>)
  BY Zenon DEF Next, Progress, Moves, Edit, BecomeReady, vars

\* A run's fields fit its place after every step.
LEMMA StandsStep ==
    ASSUME Typed, WalksEnd, [Next]_vars
    PROVE  Stands'
<1>1. CASE UNCHANGED run
  BY <1>1 DEF Typed, Stands, RunRecord, Running
<1> QED
  BY <1>1, Others, BeginStands, MoveStands, FinishStands, KilledStands

\* The request and the plan stay what they were.
LEMMA PlannedStep ==
    ASSUME Typed, WalksEnd, Planned, [Next]_vars
    PROVE  Planned'
<1>1. CASE Begin
  BY <1>1, BeginStands
<1>2. CASE ~Begin
  <2>1. repo' = repo /\ run'.req = run.req /\ run'.steps = run.steps
    BY <1>2, Others, MoveStands, FinishStands, KilledStands
  <2>2. tree' = tree
    BY <2>1 DEF tree
  <2> QED
    BY <2>1, <2>2 DEF Planned
<1> QED
  BY <1>1, <1>2

\* At first nothing runs and nothing is planned.
LEMMA InitInv ==
    ASSUME Init
    PROVE  Typed /\ Planned /\ ~Running
<1>1. PICK c \in Cases : repo = c[1]
  BY DEF Init
<1>2. repo \in DOMAIN Trees /\ c[2] \in Requests
  BY <1>1, CasesAssumption DEF Requests
<1>3. Counted
  <2>1. /\ left \in [edits : 0..Edits, runs : 0..Runs, faults : 0..Faults, kills : 0..Kills]
        /\ left.edits = Edits /\ left.faults = Faults /\ left.kills = Kills
    BY BoundsAssumption DEF Init
  <2>2. cluster \in [Keys -> {NoObject} \cup [ver : 1..source, by : Dirs]]
    BY DEF Init
  <2>3. Edits \in Nat /\ Faults \in Nat /\ Kills \in Nat /\ source = 1 /\ pods = 0 /\ ready = {}
    BY BoundsAssumption DEF Init
  <2> QED
    BY <1>2, <2>1, <2>2, <2>3 DEF Counted
<1>4. run = NoRun /\ run \in RunRecord /\ run.pc = "none" /\ run.steps = <<>> /\ run.at = 0 /\ run.done = {}
  BY <1>2, NoRunType DEF Init
<1>5. Stands
  BY <1>4 DEF Stands, Running, Ended, Checking
<1> QED
  BY <1>3, <1>4, <1>5 DEF Typed, Planned, Running, Ended

\* Where the type invariant comes from.
LEMMA TypedGivesType ==
    ASSUME Typed
    PROVE  TypeOK
<1>1. /\ source \in 1..(Edits + 1) /\ ready \subseteq Keys /\ pods \in 0..(Faults + Kills)
  BY BoundsAssumption DEF Typed, Counted
<1>2. \A k \in Keys : cluster[k] = NoObject \/ (cluster[k].ver \in 1..source /\ cluster[k].by \in Dirs)
  BY DEF Typed, Counted
<1>3. /\ run \in RunRecord /\ run.at \in 0..Len(run.steps) /\ run.done \subseteq ToSet(run.steps)
  BY DEF Typed, Stands
<1>4. /\ run.pc \in Ended \cup {"preflight", "apply", "parse", "check", "exec", "probe", "retry", "finish"}
      /\ run.wait \in 0..Timeout /\ run.inv \in 1..Len(applyGroups)
  BY <1>3, Groups DEF RunRecord, Checking
<1> QED
  BY <1>1, <1>2, <1>3, <1>4 DEF TypeOK

\* Every step keeps the types.
LEMMA TypedStep ==
    ASSUME Typed, WalksEnd, [Next]_vars
    PROVE  Typed'
  BY CountedStep, StandsStep DEF Typed

\* The state of a run and of the cluster keeps its shape: the fields of a run
\* fit together, a deadline is never passed, and no more pods are left behind
\* than calls failed or runs were killed.
THEOREM TypeCorrect == NoCycles => (Spec => []TypeOK)
<1> SUFFICES ASSUME NoCycles, WalksEnd PROVE Spec => []TypeOK
  BY TreesGive
<1>1. Init => Typed
  BY InitInv
<1>2. Typed /\ [Next]_vars => Typed'
  BY TypedStep
<1>3. Typed => TypeOK
  BY TypedGivesType
<1> QED
  BY <1>1, <1>2, <1>3, PTL DEF Spec

\* How a move comes to, or stays at, the checks.
LEMMA CheckMoves ==
    ASSUME Typed, WalksEnd, Moves, run'.pc \in Checking
    PROVE  \/ run'.todo = ChecksBy[repo][Step]
           \/ run.pc \in Checking /\ run'.todo = run.todo /\ run'.passed = run.passed
           \/ /\ run.pc \in Checking /\ run.todo # <<>> /\ run'.todo = Tail(run.todo)
              /\ run'.passed = run.passed \cup {<<Step, Head(run.todo), Looked>>}
<1>1. run \in RunRecord /\ Running
  BY MoveStands DEF Typed, Stands
<1>2. ASSUME run.todo # <<>>, run' = Passes
      PROVE  /\ run'.todo = Tail(run.todo)
             /\ run'.passed = run.passed \cup {<<Step, Head(run.todo), Looked>>}
  BY <1>1, <1>2, PassesIs
<1>3. CASE Preflight
  <2>1. run'.pc \in {"apply", "failed"}
    BY <1>1, <1>3 DEF Preflight, RunRecord
  <2> QED
    BY <2>1 DEF Checking
<1>4. CASE Apply
  <2>1. run' \in {[run EXCEPT !.pc = "failed"], [run EXCEPT !.inv = @ + 1],
                  [run EXCEPT !.pc = "finish"], [run EXCEPT !.pc = "parse"]}
    BY <1>4 DEF Apply
  <2>2. run.pc = "apply"
    BY <1>4 DEF Apply
  <2>3. run'.pc \in {"failed", "apply", "finish", "parse"}
    BY <1>1, <2>1, <2>2 DEF RunRecord
  <2> QED
    BY <2>3 DEF Checking
<1>5. CASE Parse
  BY <1>1, <1>5 DEF Parse, RunRecord
<1>6. CASE Wait
  <2>1. run.pc = "check" /\ run.todo # <<>> /\ (run' = Passes \/ run' = [run EXCEPT !.pc = "failed"])
    BY <1>6 DEF Wait
  <2> QED
    BY <1>1, <1>2, <2>1 DEF Checking, RunRecord
<1>7. ASSUME NEW pc, NEW w, run' = [run EXCEPT !.pc = pc, !.wait = w]
      PROVE  run'.todo = run.todo /\ run'.passed = run.passed
  BY <1>1, <1>7 DEF RunRecord
<1>8. ASSUME NEW pc, run' = [run EXCEPT !.pc = pc]
      PROVE  run'.todo = run.todo /\ run'.passed = run.passed
  BY <1>1, <1>8 DEF RunRecord
<1>9. CASE Attempt
  BY <1>8, <1>9 DEF Attempt, Checking
<1>10. CASE AttemptEnds \/ ProbeEnds
  <2>1. run.pc \in Checking /\ run.todo # <<>>
    BY <1>10 DEF AttemptEnds, ProbeEnds, Checking, Typed, Stands
  <2>2. \/ run' = Passes \/ run' = [run EXCEPT !.pc = "retry"]
        \/ \E w : run' = [run EXCEPT !.pc = "retry", !.wait = w]
    BY <1>10 DEF AttemptEnds, ProbeEnds
  <2> QED
    BY <1>2, <1>7, <1>8, <2>1, <2>2
<1>11. CASE Retry
  <2>1. /\ run.pc = "retry"
        /\ \/ run' = [run EXCEPT !.pc = "failed"]
           \/ \E w : run' = [run EXCEPT !.pc = "check", !.wait = w]
    BY <1>11 DEF Retry
  <2> QED
    BY <1>7, <1>8, <2>1 DEF Checking
<1> QED
  BY <1>3, <1>4, <1>5, <1>6, <1>9, <1>10, <1>11 DEF Moves

\* What was checked stays checked.
LEMMA ChecksKeptStep ==
    ASSUME Typed, WalksEnd, ChecksKept, [Next]_vars
    PROVE  ChecksKept'
<1> SUFFICES ASSUME Running'
             PROVE  ChecksKept'
  BY DEF ChecksKept
<1> DEFINE Met(i) == /\ run.steps[i] \in run.done
                     /\ ~run.req.skipChecks =>
                           \A c \in ToSet(ChecksBy[repo][run.steps[i]]) : PassedFor(run.steps[i], c)
           Seen   == \A c \in ToSet(ChecksBy[repo][Step]) : c \in ToSet(run.todo) \/ PassedFor(Step, c)
<1>1. ASSUME \A i \in 1..(run'.at - 1) : Met(i)', run'.pc \in Checking => Seen'
      PROVE  ChecksKept'
  BY <1>1 DEF ChecksKept
<1>2. CASE UNCHANGED <<repo, run>>
  BY <1>2 DEF ChecksKept, Running, Step, PassedFor, tree
<1>3. CASE Begin
  BY <1>1, <1>3, BeginStands DEF Checking
<1>4. Running => /\ \A i \in 1..(run.at - 1) : Met(i)
                 /\ run.pc \in Checking => Seen
  BY DEF ChecksKept
<1>5. CASE Moves
  <2>1. /\ Running /\ repo' = repo /\ tree' = tree /\ run'.req = run.req /\ run'.steps = run.steps
        /\ run'.at = run.at /\ run'.done = run.done /\ run.passed \subseteq run'.passed /\ Step' = Step
    BY <1>5, MoveStands DEF tree, Step
  <2>2. ASSUME NEW d, NEW c, PassedFor(d, c)
        PROVE  PassedFor(d, c)'
    BY <2>1, <2>2 DEF PassedFor
  <2>3. \A i \in 1..(run'.at - 1) : Met(i)'
    BY <1>4, <2>1, <2>2
  <2>4. ASSUME run'.pc \in Checking
        PROVE  Seen'
    <3> SUFFICES ASSUME NEW c \in ToSet(ChecksBy[repo][Step])
                 PROVE  c \in ToSet(run'.todo) \/ PassedFor(Step, c)'
      BY <2>1
    <3>1. CASE run'.todo = ChecksBy[repo][Step]
      BY <3>1
    <3>2. CASE run.pc \in Checking /\ run'.todo = run.todo /\ run'.passed = run.passed
      BY <1>4, <2>1, <2>2, <3>2
    <3>3. CASE /\ run.pc \in Checking /\ run.todo # <<>> /\ run'.todo = Tail(run.todo)
               /\ run'.passed = run.passed \cup {<<Step, Head(run.todo), Looked>>}
      <4>1. c \in ToSet(run.todo) \/ PassedFor(Step, c)
        BY <1>4, <2>1, <3>3
      <4>2. CASE c = Head(run.todo)
        BY <2>1, <3>3, <4>2 DEF PassedFor, Looked
      <4>3. CASE c \in ToSet(run.todo) /\ c # Head(run.todo)
        <5>1. run.todo \in Seq(Checks)
          BY DEF Typed, Stands, RunRecord
        <5> QED
          BY <3>3, <4>3, <5>1, InTail
      <4> QED
        BY <2>1, <2>2, <4>1, <4>2, <4>3
    <3> QED
      BY <1>5, <2>4, <3>1, <3>2, <3>3, CheckMoves
  <2> QED
    BY <1>1, <2>3, <2>4
<1>6. CASE Finish
  <2>1. /\ Running /\ repo' = repo /\ tree' = tree /\ run'.req = run.req /\ run'.steps = run.steps
        /\ run'.at = run.at + 1 /\ run'.done = run.done \cup {Step} /\ run'.passed = run.passed
        /\ run'.pc \notin Checking
    BY <1>6, FinishStands DEF tree, Checking
  <2>2. run.at \in Nat /\ run.at \in 1..Len(run.steps)
    BY <2>1, StepOfPlan DEF Typed
  <2>3. run.req.skipChecks \/ (run.pc = "check" /\ run.todo = <<>>)
    BY <1>6 DEF Finish, Typed, Stands
  <2>4. ASSUME NEW i, i = run.at
        PROVE  Met(i)'
    <3>1. run'.steps[i] = Step
      BY <2>1, <2>4 DEF Step
    <3>2. ToSet(<<>>) = {}
      BY DEF ToSet
    <3>3. ~run.req.skipChecks => \A c \in ToSet(ChecksBy[repo][Step]) : PassedFor(Step, c)
      BY <1>4, <2>1, <2>3, <3>2 DEF Checking
    <3> QED
      BY <2>1, <3>1, <3>3 DEF PassedFor
  <2>5. \A i \in 1..(run.at - 1) : Met(i)'
    BY <1>4, <2>1 DEF PassedFor
  <2>6. \A i \in 1..(run'.at - 1) : i = run.at \/ i \in 1..(run.at - 1)
    BY <2>1, <2>2
  <2> QED
    BY <1>1, <2>1, <2>4, <2>5, <2>6
<1>7. CASE Killed
  BY <1>7, KilledStands DEF Running, Ended
<1> QED
  BY <1>2, <1>3, <1>5, <1>6, <1>7, Others

\* Outside Apply nothing is written, and a run only comes to its first
\* invocation.
LEMMA QuietMoves ==
    ASSUME Typed, WalksEnd, Moves, ~Apply
    PROVE  /\ UNCHANGED cluster
           /\ \/ /\ run.pc = "preflight"
                 /\ run'.pc = "failed" \/ (run'.pc = "apply" /\ run'.inv = 1)
              \/ run.pc \notin {"preflight", "apply"} /\ run'.pc \notin {"preflight", "apply"}
<1>1. run \in RunRecord /\ Running
  BY MoveStands DEF Typed, Stands
<1>2. UNCHANGED cluster
  BY DEF Moves, Preflight, Parse, Wait, Attempt, AttemptEnds, ProbeEnds, Retry
<1>3. CASE Preflight
  BY <1>1, <1>2, <1>3 DEF Preflight, RunRecord
<1>4. CASE Parse
  BY <1>1, <1>2, <1>4 DEF Parse, RunRecord
<1>5. ASSUME run.todo # <<>>, run' = Passes
      PROVE  run'.pc = "check"
  BY <1>1, <1>5, PassesIs
<1>6. ASSUME NEW pc, NEW w, run' = [run EXCEPT !.pc = pc, !.wait = w]
      PROVE  run'.pc = pc
  BY <1>1, <1>6 DEF RunRecord
<1>7. ASSUME NEW pc, run' = [run EXCEPT !.pc = pc]
      PROVE  run'.pc = pc
  BY <1>1, <1>7 DEF RunRecord
<1>8. CASE Wait
  BY <1>2, <1>5, <1>7, <1>8 DEF Wait
<1>9. CASE Attempt
  <2>1. run.pc = "check" /\ \E pc \in {"exec", "probe", "retry"} : run' = [run EXCEPT !.pc = pc]
    BY <1>9 DEF Attempt
  <2> QED
    BY <1>2, <1>7, <2>1
<1>10. CASE AttemptEnds \/ ProbeEnds
  <2>1. run.pc \in {"exec", "probe"} /\ run.todo # <<>>
    BY <1>10 DEF AttemptEnds, ProbeEnds, Checking, Typed, Stands
  <2>2. \/ run' = Passes \/ run' = [run EXCEPT !.pc = "retry"]
        \/ \E w : run' = [run EXCEPT !.pc = "retry", !.wait = w]
    BY <1>10 DEF AttemptEnds, ProbeEnds
  <2>3. run'.pc \in {"check", "retry"}
    BY <1>5, <1>6, <1>7, <2>1, <2>2
  <2> QED
    BY <1>2, <2>1, <2>3
<1>11. CASE Retry
  <2>1. /\ run.pc = "retry"
        /\ \/ run' = [run EXCEPT !.pc = "failed"]
           \/ \E w : run' = [run EXCEPT !.pc = "check", !.wait = w]
    BY <1>11 DEF Retry
  <2>2. run'.pc \in {"check", "failed"}
    BY <1>6, <1>7, <2>1
  <2> QED
    BY <1>2, <2>1, <2>2
<1> QED
  BY <1>3, <1>4, <1>8, <1>9, <1>10, <1>11 DEF Moves

\* Which invocations take a mode.
LEMMA GroupOf ==
    ASSUME NEW k \in Keys, NEW n \in 1..6
    PROVE  /\ Mode[k[1]] \in applyGroups[n].modes
              <=> (n = PutBy(Mode[k[1]]) \/ (n = 2 /\ Mode[k[1]] = "replace"))
           /\ PutBy(Mode[k[1]]) \in 1..6
           /\ PutBy(Mode[k[1]]) = 1 <=> Mode[k[1]] = "create"
           /\ PutBy(Mode[k[1]]) # 2
           /\ Mode[k[1]] = "replace" => PutBy(Mode[k[1]]) = 3
           /\ applyGroups[n].verb = "create" <=> n = 1
           /\ applyGroups[n].verb = "delete" <=> n = 2
<1> DEFINE m    == Mode[k[1]]
           none == ""
<1>1. m \in Modes
  BY ModeAssumption DEF Keys, Objs
<1>2. n \in {1, 2, 3, 4, 5, 6}
  OBVIOUS
<1>3. m \in {"create", "replace", "serverside-force", "serverside", none}
  BY <1>1, Zenon DEF Modes
<1>4. none \notin {"create", "replace", "serverside-force", "serverside"}
  BY Zenon
<1>5. applyGroups[6].modes = {none}
  BY LastGroup, Zenon
<1> HIDE DEF m, none
<1>6. /\ PutBy(m) \in {1, 3, 4, 5, 6} /\ (PutBy(m) = 1 <=> m = "create")
      /\ PutBy(m) = 3 <=> m = "replace"
      /\ PutBy(m) = 4 <=> m = "serverside-force"
      /\ PutBy(m) = 5 <=> m = "serverside"
      /\ PutBy(m) = 6 <=> m = none
  BY <1>3, <1>4 DEF PutBy
<1>7. m \in applyGroups[n].modes <=> (n = PutBy(m) \/ (n = 2 /\ m = "replace"))
  <2>1. CASE n = 6
    BY <1>3, <1>5, <1>6, <2>1
  <2>2. CASE n \in {1, 2, 3, 4, 5}
    BY <1>6, <2>2, Groups
  <2> QED
    BY <1>2, <2>1, <2>2
<1>8. (applyGroups[n].verb = "create" <=> n = 1) /\ (applyGroups[n].verb = "delete" <=> n = 2)
  BY <1>2, Groups
<1> QED
  BY <1>6, <1>7, <1>8 DEF m

\* What one invocation takes, leaves out and writes, and where the run goes.
LEMMA ApplyIs ==
    ASSUME Typed, WalksEnd, Apply
    PROVE  /\ Running /\ run.pc = "apply" /\ run.inv \in 1..6 /\ UNCHANGED <<repo, source>>
           /\ Selected(applyGroups[run.inv]) \subseteq Keys
           /\ \A k : k \in Selected(applyGroups[run.inv])
                       <=> k \in Taken(Step) /\ Mode[k[1]] \in applyGroups[run.inv].modes
           /\ \E rejected \in SUBSET Selected(applyGroups[run.inv]) :
                 /\ rejected # {} /\ Exists(applyGroups[run.inv]) => HiddenErrors
                 /\ \A k \in Keys : cluster'[k] =
                       IF Writes(applyGroups[run.inv]) /\ k \in Selected(applyGroups[run.inv]) \ rejected
                       THEN Applied(applyGroups[run.inv], k) ELSE cluster[k]
                 /\ Running' =>
                       /\ Tolerated(applyGroups[run.inv], rejected)
                       /\ \/ run.inv < 6 /\ run'.pc = "apply" /\ run'.inv = run.inv + 1
                          \/ run.inv = 6 /\ run'.pc \in {"finish", "parse"}
<1> DEFINE g == applyGroups[run.inv]
<1>1. /\ Running /\ run.pc = "apply" /\ run \in RunRecord /\ run.inv \in 1..6
      /\ UNCHANGED <<repo, source>> /\ Len(applyGroups) = 6
  BY Groups DEF Apply, Running, Ended, Typed, Stands, RunRecord
<1>2. Selected(g) \subseteq Keys
  BY <1>1, StepTables DEF Selected
<1>3. ASSUME NEW k
      PROVE  k \in Selected(g) <=> k \in Taken(Step) /\ Mode[k[1]] \in g.modes
  BY OptionsReach DEF Selected, Taken, opts
<1>4. PICK rejected \in SUBSET Selected(g) :
         /\ cluster' = [k \in Keys |-> IF k \in (IF Writes(g) THEN Selected(g) \ rejected ELSE {})
                                       THEN Applied(g, k) ELSE cluster[k]]
         /\ rejected # {} /\ Exists(g) => HiddenErrors
         /\ run' = IF ~Tolerated(g, rejected) THEN [run EXCEPT !.pc = "failed"]
                   ELSE IF run.inv < Len(applyGroups) THEN [run EXCEPT !.inv = @ + 1]
                   ELSE IF opts.skipChecks THEN [run EXCEPT !.pc = "finish"]
                   ELSE [run EXCEPT !.pc = "parse"]
  BY Zenon DEF Apply
<1>5. rejected \in SUBSET Selected(g)
  OBVIOUS
<1>6. \A k \in Keys : cluster'[k] =
         IF Writes(g) /\ k \in Selected(g) \ rejected THEN Applied(g, k) ELSE cluster[k]
  BY <1>4
<1>7. ASSUME Running'
      PROVE  /\ Tolerated(g, rejected)
             /\ \/ run.inv < 6 /\ run'.pc = "apply" /\ run'.inv = run.inv + 1
                \/ run.inv = 6 /\ run'.pc \in {"finish", "parse"}
  <2>1. Tolerated(g, rejected)
    <3>1. SUFFICES ASSUME ~Tolerated(g, rejected) PROVE FALSE
      OBVIOUS
    <3>2. run' = [run EXCEPT !.pc = "failed"]
      BY <1>4, <3>1
    <3>3. run'.pc = "failed"
      BY <1>1, <3>2 DEF RunRecord
    <3> QED
      BY <1>7, <3>3 DEF Running, Ended
  <2>2. run' = IF run.inv < 6 THEN [run EXCEPT !.inv = @ + 1]
               ELSE IF opts.skipChecks THEN [run EXCEPT !.pc = "finish"] ELSE [run EXCEPT !.pc = "parse"]
    BY <1>1, <1>4, <2>1
  <2>3. CASE run.inv < 6
    BY <1>1, <2>1, <2>2, <2>3 DEF RunRecord
  <2>4. CASE run.inv = 6
    BY <1>1, <2>1, <2>2, <2>4 DEF RunRecord
  <2> QED
    BY <1>1, <2>3, <2>4
<1> QED
  BY <1>1, <1>2, <1>3, <1>4, <1>5, <1>6, <1>7

\* What an invocation makes of an object it writes.
LEMMA AppliedIs ==
    ASSUME Typed, NEW n \in 1..6, NEW k
    PROVE  /\ n = 2 => Applied(applyGroups[n], k) = NoObject
           /\ n = 1 => /\ Applied(applyGroups[n], k) # NoObject
                       /\ cluster[k] # NoObject => Applied(applyGroups[n], k) = cluster[k]
           /\ n \notin {1, 2} => Applied(applyGroups[n], k) = [ver |-> source, by |-> Step]
           /\ [ver |-> source, by |-> Step] # NoObject
<1>1. applyGroups[n].verb = "create" <=> n = 1
  <2>1. n \in {1, 2, 3, 4, 5, 6}
    OBVIOUS
  <2> QED
    BY <2>1, Groups
<1>2. applyGroups[n].verb = "delete" <=> n = 2
  <2>1. n \in {1, 2, 3, 4, 5, 6}
    OBVIOUS
  <2> QED
    BY <2>1, Groups
<1>3. source # 0
  BY BoundsAssumption DEF Typed, Counted
<1>4. [ver |-> source, by |-> Step] # NoObject
  BY <1>3 DEF NoObject
<1> QED
  BY <1>1, <1>2, <1>4 DEF Applied

\* Nothing is written but as the labels and the flags say.
LEMMA RoutedStep ==
    ASSUME Typed, WalksEnd, [Next]_vars, NEW k \in Keys, cluster'[k] # cluster[k]
    PROVE  /\ run.req.dryRun = "" /\ ~run.req.checksOnly /\ ~run.req.printDeps
           /\ k \in RenderedBy[repo][Step] /\ (run.req.selector => k[1] \in Labelled)
           /\ Mode[k[1]] = "create" => cluster[k] = NoObject
           /\ cluster'[k] = NoObject => Mode[k[1]] = "replace" /\ run.inv = 2
<1>1. Apply
  BY Zenon, QuietMoves DEF Next, Progress, Moves, Edit, Begin, Finish, Killed, BecomeReady, vars
<1> DEFINE n == run.inv
           g == applyGroups[n]
<1>2. /\ Running /\ n \in 1..6 /\ ~run.req.checksOnly /\ ~run.req.printDeps
  BY <1>1, ApplyIs DEF Typed, Stands
<1>3. Writes(g) /\ k \in Selected(g) /\ cluster'[k] = Applied(g, k)
  BY <1>1, ApplyIs
<1>4. k \in RenderedBy[repo][Step] /\ (run.req.selector => k[1] \in Labelled) /\ Mode[k[1]] \in g.modes
  BY <1>3, OptionsReach DEF Selected, opts
<1>5. Mode[k[1]] = "create" => n = 1
  BY <1>2, <1>4, GroupOf
<1>6. Mode[k[1]] = "create" => cluster[k] = NoObject
  BY <1>2, <1>3, <1>5, AppliedIs
<1>7. cluster'[k] = NoObject => n = 2
  BY <1>2, <1>3, AppliedIs
<1>8. n = 2 => Mode[k[1]] = "replace"
  BY <1>2, <1>4, GroupOf
<1>9. run.req.dryRun = ""
  BY <1>3, OptionsReach DEF Writes, opts
<1> QED
  BY <1>2, <1>4, <1>6, <1>7, <1>8, <1>9, Zenon

\* Resources are written as their label says, only if the selector takes them,
\* and never by a dry run, a run that only checks, or one that prints the plan.
THEOREM WritesAreRouted == NoCycles => (Spec => WritesRouted)
<1> SUFFICES ASSUME NoCycles, WalksEnd PROVE Spec => WritesRouted
  BY TreesGive
<1>1. Init => Typed
  BY InitInv
<1>2. Typed /\ [Next]_vars => Typed'
  BY TypedStep
<1>3. Typed /\ [Next]_vars =>
        [\A k \in Keys : cluster'[k] # cluster[k] =>
           /\ run.req.dryRun = "" /\ ~run.req.checksOnly /\ ~run.req.printDeps
           /\ k \in RenderedBy[repo][Step] /\ (run.req.selector => k[1] \in Labelled)
           /\ Mode[k[1]] = "create" => cluster[k] = NoObject
           /\ cluster'[k] = NoObject => Mode[k[1]] = "replace" /\ run.inv = 2]_vars
  BY RoutedStep, Zenon
<1> QED
  BY <1>1, <1>2, <1>3, PTL DEF Spec, WritesRouted

\* Resource k of step i is as the steps so far leave it.
Placed(i, k) ==
    IF Mode[k[1]] = "create" THEN cluster[k] # NoObject
    ELSE \/ TakenAway(k)
         \/ \E j \in i..run.at :
               /\ cluster[k] = [ver |-> source, by |-> run.steps[j]]
               /\ \A m \in (j + 1)..run.at : k \in Taken(run.steps[m]) => ~Through(m, k)

\* AppliedSoFar, with Placed for what stands in the cluster.
LEMMA AppliedSoFarIs ==
    AppliedSoFar <=>
       (Running /\ Applies =>
          \A i \in 1..run.at : \A k \in Taken(run.steps[i]) : Through(i, k) => Placed(i, k))
  BY Zenon DEF AppliedSoFar, Placed

\* A move that writes nothing gets no step through with anything.
LEMMA QuietPlaced ==
    ASSUME Typed, WalksEnd, AppliedSoFar, Moves, ~Apply, Running', Applies'
    PROVE  \A i \in 1..run'.at : \A k \in Taken(run.steps[i]) : Through(i, k)' => Placed(i, k)'
<1>1. /\ Running /\ Applies /\ UNCHANGED <<repo, source>> /\ run'.req = run.req /\ run'.steps = run.steps
      /\ run'.at = run.at
  BY MoveStands DEF Applies
<1>2. /\ UNCHANGED cluster
      /\ \/ run.pc = "preflight" /\ run'.pc = "apply" /\ run'.inv = 1
         \/ run.pc \notin {"preflight", "apply"} /\ run'.pc \notin {"preflight", "apply"}
  BY QuietMoves DEF Running, Ended
<1>3. run.at \in 1..Len(run.steps)
  BY <1>1, StepOfPlan DEF Typed
<1> SUFFICES ASSUME NEW i \in 1..run.at, NEW k \in Taken(run.steps[i]), Through(i, k)'
             PROVE  Placed(i, k)'
  BY <1>1
<1>4. k \in Keys
  <2>1. run.steps[i] \in Dirs
    BY <1>3 DEF Typed, Stands, RunRecord
  <2>2. RenderedBy[repo][run.steps[i]] \subseteq Keys
    BY <2>1 DEF WalksEnd, Typed, Counted
  <2> QED
    BY <2>2 DEF Taken
<1>5. PutBy(Mode[k[1]]) \in 1..6
  BY <1>4, GroupOf
<1>6. \A m \in 1..run.at : Through(m, k)' <=> Through(m, k)
  BY <1>1, <1>2, <1>3, <1>5 DEF Through
<1>7. ~TakenAway(k)
  BY <1>2 DEF TakenAway
<1>8. Placed(i, k)
  BY <1>1, <1>6, AppliedSoFarIs
<1>9. CASE Mode[k[1]] = "create"
  BY <1>1, <1>2, <1>8, <1>9 DEF Placed
<1>10. CASE Mode[k[1]] # "create"
  <2>1. PICK j \in i..run.at :
           /\ cluster[k] = [ver |-> source, by |-> run.steps[j]]
           /\ \A m \in (j + 1)..run.at : k \in Taken(run.steps[m]) => ~Through(m, k)
    BY <1>7, <1>8, <1>10 DEF Placed
  <2>2. \A m \in (j + 1)..run.at : m \in 1..run.at
    BY <1>3
  <2>3. \A d : Taken(d)' = Taken(d)
    BY <1>1 DEF Taken
  <2> QED
    BY <1>1, <1>2, <1>6, <1>10, <2>1, <2>2, <2>3 DEF Placed
<1> QED
  BY <1>9, <1>10

\* An invocation puts in place what it takes, and leaves alone the rest.
LEMMA ApplyPlaced ==
    ASSUME Typed, WalksEnd, ~HiddenErrors, AppliedSoFar, Apply, Running', Applies'
    PROVE  \A i \in 1..run'.at : \A k \in Taken(run.steps[i]) : Through(i, k)' => Placed(i, k)'
<1> DEFINE n == run.inv
           g == applyGroups[n]
<1>1. /\ Running /\ Applies /\ UNCHANGED <<repo, source>> /\ run'.req = run.req /\ run'.steps = run.steps
      /\ run'.at = run.at /\ run.pc = "apply" /\ n \in 1..6
  BY MoveStands, ApplyIs DEF Applies, Moves
<1>2. PICK rejected \in SUBSET Selected(g) :
         /\ \A k \in Keys : cluster'[k] =
               IF Writes(g) /\ k \in Selected(g) \ rejected THEN Applied(g, k) ELSE cluster[k]
         /\ Tolerated(g, rejected) /\ (rejected # {} /\ Exists(g) => HiddenErrors)
         /\ \/ n < 6 /\ run'.pc = "apply" /\ run'.inv = n + 1
            \/ n = 6 /\ run'.pc \in {"finish", "parse"}
  BY ApplyIs
<1>3. run.at \in 1..Len(run.steps) /\ run.at \in Nat /\ Writes(g) /\ Step = run.steps[run.at]
  <2>1. Writes(g)
    BY <1>1, OptionsReach DEF Applies, Writes, opts
  <2> QED
    BY <1>1, <2>1, StepOfPlan DEF Typed, Step
<1> SUFFICES ASSUME NEW i \in 1..run.at, NEW k \in Taken(run.steps[i]), Through(i, k)'
             PROVE  Placed(i, k)'
  BY <1>1
<1>4. k \in Keys
  <2>1. run.steps[i] \in Dirs
    BY <1>3 DEF Typed, Stands, RunRecord
  <2>2. RenderedBy[repo][run.steps[i]] \subseteq Keys
    BY <2>1 DEF WalksEnd, Typed, Counted
  <2> QED
    BY <2>2 DEF Taken
<1> DEFINE p == PutBy(Mode[k[1]])
<1>5. /\ Mode[k[1]] \in g.modes <=> (n = p \/ (n = 2 /\ Mode[k[1]] = "replace"))
      /\ p \in 1..6 /\ (p = 1 <=> Mode[k[1]] = "create") /\ p # 2
      /\ Mode[k[1]] = "replace" => p = 3
      /\ g.verb = "create" <=> n = 1
  BY <1>1, <1>4, GroupOf
<1>6. k \in Selected(g) <=> k \in Taken(Step) /\ Mode[k[1]] \in g.modes
  BY ApplyIs
<1>7. \A d : Taken(d)' = Taken(d)
  BY <1>1 DEF Taken
<1>8. /\ \A m \in 1..run.at : Through(m, k)' <=> m < run.at \/ p <= n
      /\ \A m \in 1..run.at : Through(m, k) <=> m < run.at \/ p < n
  <2> HIDE DEF p
  <2>1. \A m \in 1..run.at : Through(m, k) <=> m < run.at \/ p < n
    BY <1>1, <1>3, <1>5 DEF Through, p
  <2>2. CASE n < 6
    BY <1>1, <1>2, <1>3, <1>5, <2>1, <2>2 DEF Through, p
  <2>3. CASE n = 6
    BY <1>1, <1>2, <1>3, <1>5, <2>1, <2>3 DEF Through, p
  <2> QED
    BY <1>1, <2>1, <2>2, <2>3
<1> HIDE DEF p, g
<1>9. CASE Mode[k[1]] = "create"
  <2>1. CASE k \in Selected(g)
    <3>1. n = 1
      BY <1>5, <1>6, <1>9, <2>1
    <3>2. rejected = {}
      BY <1>2 DEF Tolerated
    <3>3. cluster'[k] # NoObject
      BY <1>1, <1>2, <1>3, <1>4, <2>1, <3>1, <3>2, AppliedIs DEF g
    <3> QED
      BY <1>2, <1>9, <3>3 DEF Placed
  <2>2. CASE k \notin Selected(g)
    <3>1. cluster'[k] = cluster[k]
      BY <1>2, <1>4, <2>2
    <3>2. Through(i, k)
      BY <1>1, <1>3, <1>5, <1>6, <1>8, <1>9, <2>2
    <3>3. Placed(i, k)
      BY <1>1, <3>2, AppliedSoFarIs
    <3> QED
      BY <1>9, <3>1, <3>3 DEF Placed
  <2> QED
    BY <2>1, <2>2
<1>10. CASE Mode[k[1]] # "create"
  <2>1. k \notin rejected
    BY <1>2 DEF Tolerated
  <2>2. CASE k \in Selected(g) /\ n = 2
    <3>1. run'.pc = "apply" /\ run'.inv = 3 /\ Mode[k[1]] = "replace" /\ k \in Taken(Step)
      BY <1>2, <1>5, <1>6, <1>10, <2>2
    <3>2. Step' = Step
      BY <1>1 DEF Step
    <3>3. TakenAway(k)'
      BY <1>7, <3>1, <3>2 DEF TakenAway
    <3> QED
      BY <1>10, <3>3 DEF Placed
  <2>3. CASE k \in Selected(g) /\ n # 2
    <3>1. n \notin {1, 2}
      BY <1>5, <1>6, <1>10, <2>3
    <3>2. cluster'[k] = [ver |-> source', by |-> run'.steps[run.at]]
      BY <1>1, <1>2, <1>3, <1>4, <2>1, <2>3, <3>1, AppliedIs DEF g
    <3>3. run.at \in i..run'.at /\ \A m \in (run.at + 1)..run'.at : FALSE
      BY <1>1, <1>3
    <3> QED
      BY <1>10, <3>2, <3>3 DEF Placed
  <2>4. CASE k \notin Selected(g)
    <3>1. cluster'[k] = cluster[k]
      BY <1>2, <1>4, <2>4
    <3>2. k \in Taken(Step) => p # n
      BY <1>5, <1>6, <2>4
    <3>3. Through(i, k)
      BY <1>1, <1>3, <1>5, <1>8, <3>2
    <3>4. Placed(i, k)
      BY <1>1, <3>3, AppliedSoFarIs
    <3>5. ~TakenAway(k)
      BY <1>5, <3>2 DEF TakenAway
    <3>6. PICK j \in i..run.at :
             /\ cluster[k] = [ver |-> source, by |-> run.steps[j]]
             /\ \A m \in (j + 1)..run.at : k \in Taken(run.steps[m]) => ~Through(m, k)
      BY <1>10, <3>4, <3>5 DEF Placed
    <3>7. ASSUME NEW m \in (j + 1)..run.at, k \in Taken(run.steps[m])
          PROVE  ~Through(m, k)'
      <4>1. m \in 1..run.at /\ ~Through(m, k)
        BY <1>3, <3>6, <3>7
      <4>2. m = run.at /\ ~(p < n)
        BY <1>3, <1>8, <4>1
      <4>3. p # n
        BY <1>3, <3>2, <3>7, <4>2
      <4> QED
        BY <1>1, <1>5, <1>8, <4>1, <4>2, <4>3
    <3> QED
      BY <1>1, <1>7, <1>10, <3>1, <3>6, <3>7 DEF Placed
  <2> QED
    BY <2>2, <2>3, <2>4
<1> QED
  BY <1>9, <1>10

\* The next step starts from what the finished ones put in place.
LEMMA FinishPlaced ==
    ASSUME Typed, WalksEnd, AppliedSoFar, Finish, Running', Applies'
    PROVE  \A i \in 1..run'.at : \A k \in Taken(run.steps[i]) : Through(i, k)' => Placed(i, k)'
<1>1. /\ Running /\ Applies /\ UNCHANGED <<repo, source, cluster>> /\ run'.req = run.req
      /\ run'.steps = run.steps /\ run'.at = run.at + 1
      /\ run'.pc \in {"preflight", "apply"} /\ (run'.pc = "apply" => run'.inv = 1)
  BY FinishStands DEF Applies
<1>2. run.pc \in {"finish", "check"}
  BY DEF Finish
<1>3. run.at \in 1..Len(run.steps) /\ run.at \in Nat /\ Len(run.steps) \in Nat
  BY <1>1, StepOfPlan DEF Typed
<1>4. run'.at \in 0..Len(run.steps)
  BY <1>1, FinishStands DEF Stands
<1> SUFFICES ASSUME NEW i \in 1..(run.at + 1), NEW k \in Taken(run.steps[i]), Through(i, k)'
             PROVE  Placed(i, k)'
  BY <1>1
<1>5. k \in Keys
  <2>1. run.steps[i] \in Dirs
    BY <1>1, <1>3, <1>4 DEF Typed, Stands, RunRecord
  <2>2. RenderedBy[repo][run.steps[i]] \subseteq Keys
    BY <2>1 DEF WalksEnd, Typed, Counted
  <2> QED
    BY <2>2 DEF Taken
<1>6. PutBy(Mode[k[1]]) \in 1..6
  BY <1>5, GroupOf
<1>7. /\ \A m \in 1..(run.at + 1) : Through(m, k)' <=> m # run.at + 1
      /\ \A m \in 1..run.at : Through(m, k)
  BY <1>1, <1>2, <1>3, <1>6 DEF Through
<1>8. i \in 1..run.at /\ Through(i, k)
  BY <1>3, <1>7
<1>9. Placed(i, k) /\ ~TakenAway(k)
  BY <1>1, <1>2, <1>8, AppliedSoFarIs DEF TakenAway
<1>10. CASE Mode[k[1]] = "create"
  BY <1>1, <1>9, <1>10 DEF Placed
<1>11. CASE Mode[k[1]] # "create"
  <2>1. PICK j \in i..run.at :
           /\ cluster[k] = [ver |-> source, by |-> run.steps[j]]
           /\ \A m \in (j + 1)..run.at : k \in Taken(run.steps[m]) => ~Through(m, k)
    BY <1>9, <1>11 DEF Placed
  <2>2. j \in i..run'.at
    BY <1>1, <1>3
  <2>3. ASSUME NEW m \in (j + 1)..run'.at, k \in Taken(run.steps[m])
        PROVE  ~Through(m, k)'
    <3>1. CASE m = run.at + 1
      BY <1>3, <1>7, <3>1
    <3>2. CASE m # run.at + 1
      <4>1. m \in (j + 1)..run.at /\ m \in 1..run.at
        BY <1>1, <1>3, <3>2
      <4> QED
        BY <1>7, <2>1, <2>3, <4>1
    <3> QED
      BY <3>1, <3>2
  <2>4. \A d : Taken(d)' = Taken(d)
    BY <1>1 DEF Taken
  <2> QED
    BY <1>1, <1>11, <2>1, <2>2, <2>3, <2>4 DEF Placed
<1> QED
  BY <1>10, <1>11

\* Every step keeps what the run is through with in place.
LEMMA AppliedStep ==
    ASSUME Typed, WalksEnd, ~HiddenErrors, AppliedSoFar, [Next]_vars
    PROVE  AppliedSoFar'
<1>1. CASE UNCHANGED <<repo, run>> /\ (Running => UNCHANGED <<source, cluster>>)
  <2>1. CASE Running
    <3>1. Running' /\ Applies' = Applies /\ run' = run /\ repo' = repo /\ cluster' = cluster /\ source' = source
      BY <1>1, <2>1 DEF Running, Applies
    <3>2. /\ \A d : Taken(d)' = Taken(d)
          /\ \A i, k : Through(i, k)' = Through(i, k)
          /\ \A k : TakenAway(k)' = TakenAway(k)
      BY <3>1 DEF Taken, Through, TakenAway, Step
    <3> QED
      BY <2>1, <3>1, <3>2, Zenon DEF AppliedSoFar
  <2>2. CASE ~Running
    BY <1>1, <2>2 DEF AppliedSoFar, Running
  <2> QED
    BY <2>1, <2>2
<1>2. CASE Begin \/ Killed
  <2>1. SUFFICES ASSUME Running', Applies'
                 PROVE  \A i \in 1..run'.at : \A k \in Taken(run.steps[i])' : ~Through(i, k)'
    BY <2>1, Zenon DEF AppliedSoFar
  <2>2. Begin
    BY <1>2, <2>1, KilledStands DEF Running, Ended
  <2>3. run'.at = 1 /\ (run'.pc = "preflight" \/ (run'.pc = "apply" /\ run'.inv = 1))
    BY <2>1, <2>2, BeginStands DEF Applies
  <2>4. Typed'
    BY TypedStep
  <2> SUFFICES ASSUME NEW i \in 1..run'.at, NEW k \in Taken(run.steps[i])'
               PROVE  ~Through(i, k)'
    OBVIOUS
  <2>5. k \in Keys
    <3>1. run'.steps \in Seq(Dirs) /\ run'.at \in 0..Len(run'.steps) /\ repo' \in DOMAIN Trees
      BY <2>4 DEF Typed, Counted, Stands, RunRecord
    <3>2. run'.steps[i] \in Dirs
      BY <2>3, <3>1
    <3>3. RenderedBy[repo'][run'.steps[i]] \subseteq Keys
      BY <3>1, <3>2 DEF WalksEnd
    <3> QED
      BY <3>3 DEF Taken
  <2>6. PutBy(Mode[k[1]]) \in 1..6
    BY <2>5, GroupOf
  <2> QED
    BY <2>3, <2>6 DEF Through
<1>3. CASE Moves \/ Finish
  <2>1. SUFFICES ASSUME Running', Applies'
                 PROVE  \A i \in 1..run'.at : \A k \in Taken(run.steps[i])' :
                           Through(i, k)' => Placed(i, k)'
    BY <2>1, Zenon DEF AppliedSoFar, Placed
  <2>2. run'.req = run.req /\ run'.steps = run.steps /\ repo' = repo
    BY <1>3, MoveStands, FinishStands
  <2>3. \A i : Taken(run.steps[i])' = Taken(run.steps[i])
    BY <2>2 DEF Taken
  <2>4. \A i \in 1..run'.at : \A k \in Taken(run.steps[i]) : Through(i, k)' => Placed(i, k)'
    BY <1>3, <2>1, QuietPlaced, ApplyPlaced, FinishPlaced
  <2> QED
    BY <2>3, <2>4
<1> QED
  BY <1>1, <1>2, <1>3, Others

\* RunInv holds at first.
LEMMA InvInit ==
    ASSUME Init
    PROVE  RunInv /\ AppliedSoFar
  BY InitInv DEF RunInv, Typed, ChecksKept, AppliedSoFar

\* Every step keeps RunInv.
LEMMA InvStep ==
    ASSUME WalksEnd, RunInv, [Next]_vars
    PROVE  RunInv'
  BY TypedStep, PlannedStep, ChecksKeptStep DEF RunInv, Typed

\* The run follows the plan of its request.
LEMMA InvGivesPlan ==
    ASSUME PlansExact, RunInv, run.steps # <<>>
    PROVE  PlanExact(repo, run.req.target, run.steps)
<1>1. PICK c \in Cases : /\ repo = c[1] /\ run.req = [c[2] EXCEPT !.dryRun = normalizeDryRun(@)]
                         /\ run.steps = Plan(tree, c[2].target)
  BY DEF RunInv, Planned
<1>2. run.req.target = c[2].target
  BY <1>1, CasesAssumption, AskedAgain
<1>3. PlanExact(c[1], c[2].target, Plan(Trees[c[1]], c[2].target))
  BY DEF PlansExact
<1> QED
  BY <1>1, <1>2, <1>3 DEF tree

\* A step's dependencies come before it in the plan, so they are done.
LEMMA InvGivesDeps ==
    ASSUME WalksEnd, PlansExact, ChecksCollected, RunInv
    PROVE  DepsConverged
<1> SUFFICES ASSUME Running, NEW d \in Needs(Step)
             PROVE  /\ d \in run.done
                    /\ ~run.req.skipChecks =>
                          \A c \in ToSet(tree.checks[d]) : \E p \in run.passed : p[1] = d /\ p[2] = c
  BY DEF DepsConverged
<1>1. /\ run.at \in 1..Len(run.steps) /\ run.at \in Nat /\ run.steps \in Seq(Dirs)
      /\ repo \in DOMAIN Trees /\ run.steps # <<>>
  <2>1. run.at \in 1..Len(run.steps) /\ run.at \in Nat
    BY StepOfPlan DEF RunInv, Typed
  <2>2. run.steps \in Seq(Dirs) /\ repo \in DOMAIN Trees
    BY DEF RunInv, Typed, Stands, RunRecord, Counted
  <2> QED
    BY <2>1, <2>2
<1>2. PlanExact(repo, run.req.target, run.steps)
  BY <1>1, InvGivesPlan
<1>3. Needs(Step) \subseteq ToSet(SubSeq(run.steps, 1, run.at - 1))
  BY <1>1, <1>2 DEF PlanExact, Needs, Step
<1>4. PICK i \in 1..(run.at - 1) : run.steps[i] = d
  <2> DEFINE before == SubSeq(run.steps, 1, run.at - 1)
  <2>1. Len(before) = run.at - 1 /\ \A n \in 1..(run.at - 1) : before[n] = run.steps[n]
    BY <1>1, SubSeqProperties
  <2>2. DOMAIN before = 1..(run.at - 1)
    BY <1>1, <2>1
  <2> HIDE DEF before
  <2>3. d \in ToSet(before)
    BY <1>3 DEF before
  <2> QED
    BY <2>1, <2>2, <2>3 DEF ToSet
<1>5. /\ d \in run.done
      /\ ~run.req.skipChecks => \A c \in ToSet(ChecksBy[repo][d]) : PassedFor(d, c)
  BY <1>4 DEF RunInv, Typed, ChecksKept
<1>6. ToSet(tree.checks[d]) \subseteq ToSet(ChecksBy[repo][d])
  <2>1. d \in Dirs
    BY <1>1, <1>4
  <2> QED
    BY <1>1, <2>1 DEF ChecksCollected, tree
<1>7. ASSUME NEW c, PassedFor(d, c)
      PROVE  \E p \in run.passed : p[1] = d /\ p[2] = c
  BY <1>7 DEF PassedFor
<1> QED
  BY <1>5, <1>6, <1>7

\* Whatever is converged, and from whichever repository, the plan of the run has
\* what the target's tree imports, over any number of imports, each directory
\* once and after its own imports, and the target at the end.
THEOREM PlansAreExact == NoCycles => (Spec => []PlanIsExact)
<1> SUFFICES ASSUME NoCycles, WalksEnd, PlansExact PROVE Spec => []PlanIsExact
  BY TreesGive
<1>1. Init => RunInv
  BY InvInit
<1>2. RunInv /\ [Next]_vars => RunInv'
  BY InvStep
<1>3. RunInv => PlanIsExact
  BY InvGivesPlan DEF PlanIsExact
<1> QED
  BY <1>1, <1>2, <1>3, PTL DEF Spec

\* A step is applied and checked only when everything it imports, over any
\* number of imports, has converged in the same run.
THEOREM DepsConvergeFirst == NoCycles => (Spec => []DepsConverged)
<1> SUFFICES ASSUME NoCycles, WalksEnd, PlansExact, ChecksCollected PROVE Spec => []DepsConverged
  BY TreesGive
<1>1. Init => RunInv
  BY InvInit
<1>2. RunInv /\ [Next]_vars => RunInv'
  BY InvStep
<1>3. RunInv => DepsConverged
  BY InvGivesDeps
<1> QED
  BY <1>1, <1>2, <1>3, PTL DEF Spec

\* Only the last step's end makes a run a success, and by then all is in place.
LEMMA SuccessStep ==
    ASSUME WalksEnd, ChecksCollected, ChecksMeetRender, RunInv, AppliedSoFar, [Next]_vars, Running,
           run'.pc = "ok"
    PROVE  /\ Applies => AllApplied
           /\ ~run.req.skipChecks => AllChecked
<1>1. Finish
  BY Others, BeginStands, MoveStands, KilledStands DEF RunInv, Typed, Running, Ended
<1>2. /\ run.at = Len(run.steps) /\ run'.passed = run.passed /\ run.pc \in {"finish", "check"}
      /\ run.pc = "check" => run.todo = <<>>
      /\ run.pc = "finish" => run.req.skipChecks
  BY <1>1, FinishStands DEF RunInv, Finish, Typed, Stands
<1>3. run.at \in Nat /\ run.steps \in Seq(Dirs) /\ repo \in DOMAIN Trees
  BY DEF RunInv, Typed, Counted, Stands, RunRecord
<1>4. ASSUME Applies
      PROVE  AllApplied
  <2> SUFFICES ASSUME NEW i \in 1..Len(run.steps), NEW k \in Taken(run.steps[i])
               PROVE  InPlace(k, i)
    BY DEF AllApplied
  <2>1. \A m \in 1..run.at : Through(m, k)
    BY <1>2, <1>3 DEF Through
  <2>2. Placed(i, k) /\ ~TakenAway(k)
    BY <1>2, <1>4, <2>1, AppliedSoFarIs DEF RunInv, Typed, TakenAway
  <2>3. CASE Mode[k[1]] = "create"
    BY <2>2, <2>3 DEF Placed, InPlace
  <2>4. CASE Mode[k[1]] # "create"
    <3>1. PICK j \in i..run.at :
             /\ cluster[k] = [ver |-> source, by |-> run.steps[j]]
             /\ \A m \in (j + 1)..run.at : k \in Taken(run.steps[m]) => ~Through(m, k)
      BY <2>2, <2>4 DEF Placed
    <3>2. \A m \in (j + 1)..run.at : m \in 1..run.at
      BY <1>3
    <3> QED
      BY <1>2, <2>1, <2>4, <3>1, <3>2 DEF InPlace
  <2> QED
    BY <2>3, <2>4
<1>5. ASSUME ~run.req.skipChecks
      PROVE  AllChecked
  <2>1. ASSUME NEW i \in 1..Len(run.steps), NEW c \in ToSet(ChecksBy[repo][run.steps[i]])
        PROVE  PassedFor(run.steps[i], c)
    <3>1. CASE i = run.at
      <4>1. ToSet(run.todo) = {} /\ run.pc \in Checking
        BY <1>2, <1>5 DEF ToSet, Checking
      <4> QED
        BY <2>1, <3>1, <4>1 DEF RunInv, Typed, ChecksKept, Step
    <3>2. CASE i # run.at
      <4>1. i \in 1..(run.at - 1)
        BY <1>2, <1>3, <3>2
      <4> QED
        BY <1>5, <2>1, <4>1 DEF RunInv, Typed, ChecksKept
    <3> QED
      BY <3>1, <3>2
  <2> SUFFICES ASSUME NEW d \in ToSet(run.steps), NEW b \in CueIn[repo][d], NEW c \in ToSet(tree.checks[b])
               PROVE  \E k \in RenderedBy[repo][d] : k[1] = c.obj /\ <<d, c, k>> \in run'.passed
    BY DEF AllChecked
  <2>2. PICK i \in 1..Len(run.steps) : run.steps[i] = d
    BY <1>3 DEF ToSet
  <2>3. d \in Dirs
    BY <1>3, <2>2
  <2>4. c \in ToSet(ChecksBy[repo][d])
    BY <1>3, <2>3 DEF ChecksCollected, tree
  <2>5. PassedFor(d, c)
    BY <2>1, <2>2, <2>4
  <2> DEFINE k == <<c.obj, CheckNamespace(tree, d, c)>>
  <2>6. k \in RenderedBy[repo][d]
    BY <1>3, <2>3, <2>4 DEF ChecksMeetRender, tree
  <2>7. k[1] = c.obj /\ <<d, c, k>> \in run'.passed
    BY <1>2, <2>5 DEF PassedFor
  <2> QED
    BY <2>6, <2>7
<1> QED
  BY <1>4, <1>5

\* A run that reports success has put every selected resource in place and has
\* seen every check pass, on an object that the step itself rendered: if the API
\* rejects no resource next to one that exists, and each check is about something
\* its own step renders.
THEOREM SuccessIsConverged ==
    NoCycles /\ ChecksMeetRender /\ ~HiddenErrors => (Spec => SuccessMeansConverged)
<1> SUFFICES ASSUME WalksEnd, ChecksCollected, ChecksMeetRender, ~HiddenErrors
             PROVE  Spec => SuccessMeansConverged
  BY TreesGive
<1> DEFINE Inv == RunInv /\ AppliedSoFar
<1>1. Init => Inv
  BY InvInit
<1>2. Inv /\ [Next]_vars => Inv'
  BY InvStep, AppliedStep DEF RunInv, Typed
<1>3. Inv /\ [Next]_vars =>
        [Running /\ run'.pc = "ok" =>
           /\ Applies => AllApplied
           /\ ~run.req.skipChecks => AllChecked]_vars
  BY SuccessStep, Zenon
<1> HIDE DEF Inv
<1> QED
  BY <1>1, <1>2, <1>3, PTL DEF Spec, SuccessMeansConverged
==============================================================================
