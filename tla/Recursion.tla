----------------------------- MODULE Recursion ------------------------------
(***************************************************************************)
(* Recursion over data, for the proofs about the searches, the sums and the *)
(* choices of a best that the models make.                                  *)
(*                                                                         *)
(* A recursive function of TLA+ is some function that satisfies its own     *)
(* equation, so that two things are to be shown of it before anything else: *)
(* that such a function exists, and that it is the only one.  Both follow   *)
(* for any recursion that goes from each argument to one other of a lower   *)
(* rank: a counterexample of the lowest rank is none.                       *)
(***************************************************************************)
EXTENDS Integers, FiniteSets, WellFoundedInduction, FiniteSetTheorems, TLAPS

LEMMA LeastOne ==
  ASSUME NEW T \in SUBSET Nat, T # {}
  PROVE  \E m \in T : \A n \in T : m <= n
<1>1. \E m \in T : \A n \in T : ~(<<n, m>> \in OpToRel(<, Nat))
  BY WFMin, NatLessThanWellFounded
<1>2. PICK m \in T : \A n \in T : ~(<<n, m>> \in OpToRel(<, Nat))
  BY <1>1
<1>3. ASSUME NEW n \in T PROVE m <= n
  <2>1. ~(n < m)
    BY <1>2 DEF OpToRel
  <2> QED BY <2>1
<1> QED BY <1>3

\* A set has an element of the least rank.
LEMMA LeastRank ==
  ASSUME NEW S, NEW rank \in [S -> Nat], NEW T \in SUBSET S, T # {}
  PROVE  \E s \in T : \A t \in T : rank[s] <= rank[t]
<1>1. {rank[s] : s \in T} \in SUBSET Nat /\ {rank[s] : s \in T} # {}
  OBVIOUS
<1>2. PICK m \in {rank[s] : s \in T} : \A n \in {rank[s] : s \in T} : m <= n
  BY <1>1, LeastOne
<1> QED BY <1>2

\* What is asked of a recursion: each argument that is not the last leads to
\* one of a lower rank.
Descends(S, stop, next, rank) ==
  /\ next \in [S -> S] /\ rank \in [S -> Nat]
  /\ \A s \in S : s \notin stop => rank[next[s]] < rank[s]

Combines(S, V, base, comb) == base \in [S -> V] /\ comb \in [S \X V -> V]

\* f answers at each argument from its answer at the next, until it stops.
Solves(f, S, V, stop, next, base, comb) ==
  /\ f \in [S -> V]
  /\ \A s \in S : f[s] = IF s \in stop THEN base[s] ELSE comb[<<s, f[next[s]]>>]

\* f and g agree wherever they agree at the next argument.
Follows(f, g, S, stop, next) ==
  \A s \in S : s \in stop \/ f[next[s]] = g[next[s]] => f[s] = g[s]

\* X is closed under the recursion.
Closed(X, S, V, stop, next, base, comb) ==
  /\ \A s \in S : s \in stop => <<s, base[s]>> \in X
  /\ \A s \in S, v \in V : s \notin stop /\ <<next[s], v>> \in X => <<s, comb[<<s, v>>]>> \in X

LEMMA RecursionSolved ==
  ASSUME NEW S, NEW V, NEW stop, NEW next, NEW rank, NEW base, NEW comb,
         Descends(S, stop, next, rank), Combines(S, V, base, comb)
  PROVE  \E f : Solves(f, S, V, stop, next, base, comb)
<1>0. /\ next \in [S -> S] /\ rank \in [S -> Nat]
      /\ \A s \in S : s \notin stop => rank[next[s]] < rank[s]
      /\ base \in [S -> V] /\ comb \in [S \X V -> V]
  BY DEF Descends, Combines
<1> DEFINE C(X) == Closed(X, S, V, stop, next, base, comb)
           G == {x \in S \X V : \A X \in SUBSET (S \X V) : C(X) => x \in X}
<1>1. C(G)
  <2>1. ASSUME NEW s \in S, s \in stop PROVE <<s, base[s]>> \in G
    BY <1>0, <2>1 DEF Closed
  <2>2. ASSUME NEW s \in S, NEW v \in V, s \notin stop, <<next[s], v>> \in G
        PROVE  <<s, comb[<<s, v>>]>> \in G
    <3>1. <<s, comb[<<s, v>>]>> \in S \X V
      BY <1>0
    <3>2. ASSUME NEW X \in SUBSET (S \X V), C(X) PROVE <<s, comb[<<s, v>>]>> \in X
      BY <2>2, <3>2 DEF Closed
    <3> QED BY <3>1, <3>2
  <2> QED BY <2>1, <2>2 DEF Closed
<1>2. ASSUME NEW X \in SUBSET (S \X V), C(X) PROVE G \subseteq X
  BY <1>2
<1>3. G \in SUBSET (S \X V)
  OBVIOUS
<1> HIDE DEF G
<1> DEFINE One(s) == \E v \in V : \A u \in V : <<s, u>> \in G <=> u = v
<1>4. ASSUME NEW s \in S, s \in stop PROVE One(s)
  <2>1. <<s, base[s]>> \in G /\ base[s] \in V
    BY <1>0, <1>1, <1>4 DEF Closed
  <2>2. ASSUME NEW u \in V, <<s, u>> \in G, u # base[s] PROVE FALSE
    <3> DEFINE X == G \ {<<s, u>>}
    <3>1. X \in SUBSET (S \X V)
      BY <1>3
    <3>2. \A t \in S : t \in stop => <<t, base[t]>> \in X
      BY <1>1, <2>2 DEF Closed
    <3>3. \A t \in S, v \in V : t \notin stop /\ <<next[t], v>> \in X => <<t, comb[<<t, v>>]>> \in X
      BY <1>1, <1>4 DEF Closed
    <3>4. C(X)
      BY <3>2, <3>3 DEF Closed
    <3> QED BY <1>2, <2>2, <3>1, <3>4
  <2> QED BY <2>1, <2>2
<1>5. ASSUME NEW s \in S, s \notin stop, One(next[s]) PROVE One(s)
  <2>1. PICK w \in V : \A u \in V : <<next[s], u>> \in G <=> u = w
    BY <1>0, <1>5
  <2> DEFINE b == comb[<<s, w>>]
  <2>2. <<s, b>> \in G /\ b \in V
    BY <1>0, <1>1, <1>5, <2>1 DEF Closed
  <2>3. ASSUME NEW u \in V, <<s, u>> \in G, u # b PROVE FALSE
    <3> DEFINE X == G \ {<<s, u>>}
    <3>1. X \in SUBSET (S \X V)
      BY <1>3
    <3>2. \A t \in S : t \in stop => <<t, base[t]>> \in X
      BY <1>1, <1>5 DEF Closed
    <3>3. ASSUME NEW t \in S, NEW v \in V, t \notin stop, <<next[t], v>> \in X
          PROVE  <<t, comb[<<t, v>>]>> \in X
      <4>1. <<t, comb[<<t, v>>]>> \in G
        BY <1>1, <3>3 DEF Closed
      <4>2. t = s => v = w
        BY <2>1, <3>3
      <4>3. t = s => comb[<<t, v>>] = b
        BY <4>2
      <4> HIDE DEF b
      <4> QED BY <2>3, <4>1, <4>3
    <3>4. C(X)
      BY <3>2, <3>3 DEF Closed
    <3> QED BY <1>2, <2>3, <3>1, <3>4
  <2> HIDE DEF b
  <2> QED BY <2>2, <2>3
<1>6. \A s \in S : One(s)
  <2> DEFINE bad == {s \in S : ~One(s)}
  <2>1. SUFFICES ASSUME bad # {} PROVE FALSE
    OBVIOUS
  <2>2. PICK s \in bad : \A t \in bad : rank[s] <= rank[t]
    BY <1>0, <2>1, LeastRank
  <2>3. s \in S /\ ~One(s)
    OBVIOUS
  <2>4. s \notin stop
    BY <1>4, <2>3
  <2>5. next[s] \in S /\ ~One(next[s])
    BY <1>0, <1>5, <2>3, <2>4
  <2>6. next[s] \in bad
    BY <2>5
  <2> HIDE DEF One, bad
  <2> QED BY <1>0, <2>2, <2>3, <2>4, <2>5, <2>6
<1> DEFINE f == [s \in S |-> CHOOSE v \in V : \A u \in V : <<s, u>> \in G <=> u = v]
<1>7. ASSUME NEW s \in S PROVE f[s] \in V /\ \A u \in V : <<s, u>> \in G <=> u = f[s]
  BY <1>6
<1>8. f \in [S -> V]
  BY <1>7
<1> HIDE DEF f, One
<1>9. ASSUME NEW s \in S
      PROVE  f[s] = IF s \in stop THEN base[s] ELSE comb[<<s, f[next[s]]>>]
  <2>1. CASE s \in stop
    BY <1>0, <1>1, <1>7, <2>1 DEF Closed
  <2>2. CASE s \notin stop
    <3>1. next[s] \in S /\ f[next[s]] \in V /\ <<next[s], f[next[s]]>> \in G
      BY <1>0, <1>7
    <3>2. <<s, comb[<<s, f[next[s]]>>]>> \in G
      BY <1>1, <2>2, <3>1 DEF Closed
    <3> QED BY <1>0, <1>7, <2>2, <3>1, <3>2
  <2> QED BY <2>1, <2>2
<1> QED BY <1>8, <1>9 DEF Solves

\* Two functions are one that agree wherever they agree at the next argument.
LEMMA RecursionUnique ==
  ASSUME NEW S, NEW stop, NEW next, NEW rank, Descends(S, stop, next, rank),
         NEW f, NEW g, Follows(f, g, S, stop, next)
  PROVE  \A s \in S : f[s] = g[s]
<1>0. /\ next \in [S -> S] /\ rank \in [S -> Nat]
      /\ \A s \in S : s \notin stop => rank[next[s]] < rank[s]
  BY DEF Descends
<1> DEFINE bad == {s \in S : f[s] # g[s]}
<1>1. SUFFICES ASSUME bad # {} PROVE FALSE
  OBVIOUS
<1>2. PICK s \in bad : \A t \in bad : rank[s] <= rank[t]
  BY <1>0, <1>1, LeastRank
<1>3. s \in S /\ s \notin stop
  BY DEF Follows
<1>4. next[s] \in S /\ rank[next[s]] \in Nat /\ rank[s] \in Nat /\ rank[next[s]] < rank[s]
  BY <1>0, <1>3
<1>5. next[s] \notin bad
  BY <1>2, <1>4
<1> QED BY <1>3, <1>4, <1>5 DEF Follows

\* A finite set of integers has a greatest.
LEMMA GreatestOne ==
  ASSUME NEW T \in SUBSET Int, IsFiniteSet(T), T # {}
  PROVE  \E m \in T : \A n \in T : n <= m
<1> DEFINE above(x) == {y \in T : y > x}
           rank == [x \in T |-> Cardinality(above(x))]
<1>1. \A x \in T : IsFiniteSet(above(x)) /\ Cardinality(above(x)) \in Nat
  BY FS_Subset, FS_CardinalityType
<1>2. rank \in [T -> Nat]
  BY <1>1
<1>3. \E m \in T : \A n \in T : rank[m] <= rank[n]
  <2> HIDE DEF rank
  <2> QED BY <1>2, LeastRank
<1>4. PICK m \in T : \A n \in T : rank[m] <= rank[n]
  BY <1>3
<1>5. ASSUME NEW n \in T, n > m PROVE FALSE
  <2>1. above(n) \in SUBSET above(m) /\ n \in above(m) /\ n \notin above(n)
    <3>1. m \in Int /\ n \in Int
      OBVIOUS
    <3>2. ASSUME NEW y \in above(n) PROVE y \in above(m)
      <4>1. y \in Int /\ y > n /\ y \in T
        OBVIOUS
      <4> QED BY <1>5, <3>1, <4>1
    <3>3. n \in above(m) /\ n \notin above(n)
      BY <1>5, <3>1
    <3> QED BY <3>2, <3>3
  <2>2. Cardinality(above(n)) <= Cardinality(above(m))
    BY <1>1, <2>1, FS_Subset
  <2>3. Cardinality(above(m)) = Cardinality(above(n)) => above(m) = above(n)
    BY <1>1, <2>1, FS_Subset
  <2>4. Cardinality(above(n)) < Cardinality(above(m))
    <3>1. Cardinality(above(n)) \in Nat /\ Cardinality(above(m)) \in Nat
      BY <1>1
    <3>2. above(m) # above(n)
      BY <2>1
    <3> HIDE DEF above
    <3> QED BY <2>2, <2>3, <3>1, <3>2
  <2>5. rank[m] <= rank[n]
    BY <1>4
  <2> QED BY <1>1, <2>4, <2>5
<1> QED BY <1>5

LEMMA ImageIsFinite ==
  ASSUME NEW S, IsFiniteSet(S), NEW f, DOMAIN f = S
  PROVE  IsFiniteSet({f[x] : x \in S})
<1> DEFINE T == {f[x] : x \in S}
           g == [x \in S |-> f[x]]
<1>1. g \in Surjection(S, T)
  BY DEF Surjection
<1> HIDE DEF T
<1>2. IsFiniteSet(T)
  BY <1>1, FS_Surjection
<1> QED BY <1>2 DEF T

\* Of a finite set, one that is best by a, and of those by b.
LEMMA BestOfTwo ==
  ASSUME NEW T, IsFiniteSet(T), T # {}, NEW a \in [T -> Int], NEW b \in [T -> Int]
  PROVE  \E m \in T : \A t \in T : a[m] > a[t] \/ (a[m] = a[t] /\ b[m] >= b[t])
<1>1. PICK x \in {a[t] : t \in T} : \A y \in {a[t] : t \in T} : y <= x
  <2> DEFINE A == {a[t] : t \in T}
  <2>1. A \in SUBSET Int /\ A # {} /\ IsFiniteSet(A)
    BY ImageIsFinite
  <2> HIDE DEF A
  <2>2. \E x \in A : \A y \in A : y <= x
    BY <2>1, GreatestOne
  <2> QED BY <2>2 DEF A
<1> DEFINE U == {t \in T : a[t] = x}
           c == [t \in U |-> b[t]]
<1>2. IsFiniteSet(U) /\ U # {} /\ U \subseteq T
  BY FS_Subset
<1>3. PICK z \in {c[t] : t \in U} : \A y \in {c[t] : t \in U} : y <= z
  <2> DEFINE C == {c[t] : t \in U}
  <2>1. C \in SUBSET Int /\ C # {}
    BY <1>2
  <2>2. IsFiniteSet(C)
    <3> HIDE DEF U
    <3> QED BY <1>2, ImageIsFinite
  <2> HIDE DEF C
  <2>3. \E x1 \in C : \A y \in C : y <= x1
    BY <2>1, <2>2, GreatestOne
  <2> QED BY <2>3 DEF C
<1>4. PICK m \in U : c[m] = z
  BY <1>3
<1>5. m \in T /\ a[m] = x /\ b[m] = z
  BY <1>4
<1>6. ASSUME NEW t \in T PROVE a[m] > a[t] \/ (a[m] = a[t] /\ b[m] >= b[t])
  <2>1. a[t] \in Int /\ x \in Int /\ a[t] <= x /\ b[t] \in Int /\ z \in Int
    BY <1>1, <1>5
  <2>2. a[t] = x => b[t] <= z
    BY <1>3
  <2> QED BY <1>5, <2>1, <2>2
<1> QED BY <1>5, <1>6

-----------------------------------------------------------------------------
(* Sums over a finite set, one chosen element after the other.              *)

One(T) == CHOOSE c \in T : TRUE

\* f sums value over each part of D.
AddsUp(f, D, value) ==
  f = [T \in SUBSET D |-> IF T = {} THEN 0 ELSE value[One(T)] + f[T \ {One(T)}]]

\* Of each part, any member may be added first.
AnyFirst(f, D, value) ==
  \A T \in SUBSET D : \A x \in T : f[T] = value[x] + f[T \ {x}]

\* V holds zero and what its members add up to.
Additive(V) == V \subseteq Int /\ 0 \in V /\ \A a \in V, b \in V : a + b \in V

LEMMA OneLess ==
  ASSUME NEW D, IsFiniteSet(D), NEW T \in SUBSET D, T # {}
  PROVE  /\ One(T) \in T
         /\ \A x \in T : Cardinality(T \ {x}) \in Nat /\ Cardinality(T \ {x}) < Cardinality(T)
<1>1. One(T) \in T
  BY DEF One
<1>2. IsFiniteSet(T) /\ Cardinality(T) \in Nat
  BY FS_Subset, FS_CardinalityType
<1>3. ASSUME NEW x \in T
      PROVE  Cardinality(T \ {x}) \in Nat /\ Cardinality(T \ {x}) < Cardinality(T)
  <2>1. Cardinality(T \ {x}) = Cardinality(T) - 1
    BY <1>2, FS_RemoveElement
  <2>2. IsFiniteSet(T \ {x})
    BY <1>2, FS_Subset
  <2> QED BY <1>2, <2>1, <2>2, FS_CardinalityType
<1> QED BY <1>1, <1>3

\* There is such a sum.
LEMMA SumExists ==
  ASSUME NEW D, IsFiniteSet(D), NEW V, Additive(V), NEW value \in [D -> V]
  PROVE  \E f \in [SUBSET D -> V] : AddsUp(f, D, value)
<1> DEFINE S == SUBSET D
           stop == {{}}
           next == [T \in S |-> T \ {One(T)}]
           base == [T \in S |-> 0]
           comb == [x \in S \X V |-> IF x[1] = {} THEN 0 ELSE value[One(x[1])] + x[2]]
           rank == [T \in S |-> Cardinality(T)]
<1>1. \A T \in S : Cardinality(T) \in Nat
  BY FS_Subset, FS_CardinalityType
<1>2. \A T \in S : T \ {One(T)} \in S
  OBVIOUS
<1>3. Descends(S, stop, next, rank)
  <2>1. next \in [S -> S] /\ rank \in [S -> Nat]
    BY <1>1, <1>2
  <2>2. \A s \in S : s \notin stop => rank[next[s]] < rank[s]
    BY <1>2, OneLess
  <2> HIDE DEF S, stop, next, rank
  <2> QED BY <2>1, <2>2 DEF Descends
<1>4. Combines(S, V, base, comb)
  <2>1. \A T \in S : T # {} => value[One(T)] \in V
    BY OneLess
  <2>2. comb \in [S \X V -> V]
    BY <2>1 DEF Additive
  <2>3. base \in [S -> V]
    BY DEF Additive
  <2> QED BY <2>2, <2>3 DEF Combines
<1> HIDE DEF S, next, stop, base, comb, rank
<1>5. PICK f : Solves(f, S, V, stop, next, base, comb)
  BY <1>3, <1>4, RecursionSolved
<1>6. \A T \in S : f[T] = IF T = {} THEN 0 ELSE value[One(T)] + f[T \ {One(T)}]
  <2> SUFFICES ASSUME NEW T \in S
               PROVE  f[T] = IF T = {} THEN 0 ELSE value[One(T)] + f[T \ {One(T)}]
    OBVIOUS
  <2>1. next[T] = T \ {One(T)} /\ next[T] \in S
    BY <1>2 DEF next
  <2>2. T # {} => comb[<<T, f[next[T]]>>] = value[One(T)] + f[next[T]]
    BY <1>5, <2>1 DEF Solves, comb
  <2> QED BY <1>5, <2>1, <2>2 DEF Solves, stop, base
<1> QED BY <1>5, <1>6 DEF Solves, S, AddsUp

\* And one only, which adds whole numbers up to one.
LEMMA SumTyped ==
  ASSUME NEW D, IsFiniteSet(D), NEW V, Additive(V), NEW value \in [D -> V],
         NEW f, AddsUp(f, D, value)
  PROVE  f \in [SUBSET D -> V]
<1>1. PICK g \in [SUBSET D -> V] : AddsUp(g, D, value)
  BY SumExists
<1> DEFINE bad == {T \in SUBSET D : f[T] # g[T]}
           rank == [T \in SUBSET D |-> Cardinality(T)]
<1>2. bad = {}
  <2> SUFFICES ASSUME bad # {} PROVE FALSE
    OBVIOUS
  <2>1. rank \in [SUBSET D -> Nat]
    BY FS_Subset, FS_CardinalityType
  <2>2. PICK T \in bad : \A U \in bad : rank[T] <= rank[U]
    <3>1. bad \in SUBSET (SUBSET D) /\ bad # {}
      OBVIOUS
    <3> HIDE DEF rank, bad
    <3> QED BY <2>1, <3>1, LeastRank
  <2>3. T \in SUBSET D /\ T # {} /\ T \ {One(T)} \in SUBSET D
    BY <1>1 DEF AddsUp
  <2>4. T \ {One(T)} \notin bad
    <3>1. rank[T \ {One(T)}] < rank[T]
      BY <2>3, OneLess
    <3> HIDE DEF rank
    <3> QED BY <2>1, <2>2, <2>3, <3>1
  <2> QED BY <1>1, <2>3, <2>4 DEF AddsUp
<1> QED BY <1>1, <1>2 DEF AddsUp

LEMMA SumOfZeros ==
  ASSUME NEW D, IsFiniteSet(D), NEW value \in [D -> Int], \A x \in D : value[x] = 0,
         NEW f, AddsUp(f, D, value)
  PROVE  f[D] = 0
<1>1. value \in [D -> {0}] /\ Additive({0})
  BY DEF Additive
<1>2. f \in [SUBSET D -> {0}]
  BY <1>1, SumTyped
<1> QED BY <1>2

\* The order of the summands is no matter.
LEMMA SumByAny ==
  ASSUME NEW D, IsFiniteSet(D), NEW value \in [D -> Int], NEW f, AddsUp(f, D, value)
  PROVE  AnyFirst(f, D, value)
<1>1. f \in [SUBSET D -> Int]
  <2>1. Additive(Int)
    BY DEF Additive
  <2> QED BY <2>1, SumTyped
<1> DEFINE Any(T) == \A x \in T : f[T] = value[x] + f[T \ {x}]
           bad == {T \in SUBSET D : ~Any(T)}
           rank == [T \in SUBSET D |-> Cardinality(T)]
<1> SUFFICES ASSUME bad # {} PROVE FALSE
  BY DEF AnyFirst
<1>2. rank \in [SUBSET D -> Nat]
  BY FS_Subset, FS_CardinalityType
<1>3. PICK T \in bad : \A U \in bad : rank[T] <= rank[U]
  <2>1. bad \in SUBSET (SUBSET D) /\ bad # {}
    OBVIOUS
  <2> HIDE DEF rank, bad
  <2> QED BY <1>2, <2>1, LeastRank
<1>4. PICK x \in T : f[T] # value[x] + f[T \ {x}]
  OBVIOUS
<1> DEFINE c == One(T)
<1>5. T \in SUBSET D /\ T # {} /\ c \in T
  BY <1>4, OneLess
<1>6. f[T] = value[c] + f[T \ {c}]
  BY <1>5 DEF AddsUp
<1>7. \A y \in T : T \ {y} \in SUBSET D /\ Any(T \ {y})
  <2> SUFFICES ASSUME NEW y \in T PROVE Any(T \ {y})
    BY <1>5
  <2>1. T \ {y} \in SUBSET D /\ rank[T \ {y}] < rank[T]
    BY <1>5, OneLess
  <2> HIDE DEF rank, Any
  <2> QED BY <1>2, <1>3, <1>5, <2>1
<1> HIDE DEF c
<1>8. x # c
  BY <1>4, <1>6
<1>9. f[T \ {c}] = value[x] + f[(T \ {c}) \ {x}]
  BY <1>4, <1>5, <1>7, <1>8
<1>10. f[T \ {x}] = value[c] + f[(T \ {x}) \ {c}]
  BY <1>4, <1>5, <1>7, <1>8
<1>11. (T \ {c}) \ {x} = (T \ {x}) \ {c}
  OBVIOUS
<1>12. /\ value[x] \in Int /\ value[c] \in Int
       /\ f[(T \ {x}) \ {c}] \in Int
  BY <1>1, <1>4, <1>5
<1> DEFINE a == value[x]
           b == value[c]
           r == f[(T \ {x}) \ {c}]
<1>13. f[T] = b + (a + r) /\ f[T \ {x}] = b + r /\ a \in Int /\ b \in Int /\ r \in Int
  BY <1>6, <1>9, <1>10, <1>11, <1>12
<1>14. f[T] # a + f[T \ {x}]
  BY <1>4
<1> HIDE DEF a, b, r
<1> QED BY <1>13, <1>14
=============================================================================
