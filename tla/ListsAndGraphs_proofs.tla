------------------------ MODULE ListsAndGraphs_proofs ------------------------
(* What the proofs about several components have in common. Of lists, for any  *)
(* list and any positions: what one keeps that loses some of its elements. Of  *)
(* OutboundGraph, for any finite graph: that the rounds of DependsOn and of    *)
(* Started settle within the number of its tags, what they settle at, and that *)
(* a graph starts as a whole exactly when it has no ring. A recursive function *)
(* is a CHOOSE of the function with that equation: Iterated finds one, so the  *)
(* equation may be used, and UpTo takes a fact from one round to the next.     *)
EXTENDS Sublists, OutboundGraph, FiniteSetTheorems, WellFoundedInduction, TLAPS

\* A set of naturals has a least member
LEMMA Least ==
    ASSUME NEW S, S \subseteq Nat, S # {}
    PROVE  \E n \in S : \A m \in S : n <= m
<1>1. PICK n \in S : \A y \in S : ~(<<y, n>> \in OpToRel(<, Nat))
  BY NatLessThanWellFounded, WFMin
<1>2. \A y \in S : ~(y < n)
  BY <1>1 DEF OpToRel
<1> QED  BY <1>2

\* The places of positions are 1, 2, ... in their order
LEMMA Places ==
    ASSUME NEW n \in Nat, NEW P \in SUBSET (1 .. n)
    PROVE  /\ IsFiniteSet(P) /\ Cardinality(P) \in Nat
           /\ \A i \in P : Place(P, i) \in 1 .. Cardinality(P)
           /\ \A i, j \in P : i < j => Place(P, i) < Place(P, j)
           /\ \A k \in 1 .. Cardinality(P) : \E i \in P : Place(P, i) = k
<1> DEFINE Upto(i) == {j \in P : j <= i}
           c == Cardinality(P)
<1>1. IsFiniteSet(P) /\ c \in Nat
  <2>1. IsFiniteSet(1 .. n)
    BY FS_Interval
  <2> QED  BY <2>1, FS_Subset, FS_CardinalityType
<1>5. P \subseteq Nat
  OBVIOUS
<1>2. ASSUME NEW i \in P PROVE IsFiniteSet(Upto(i)) /\ Place(P, i) = Cardinality(Upto(i)) /\ Place(P, i) \in 1 .. c
  <2>1. IsFiniteSet(Upto(i)) /\ Cardinality(Upto(i)) <= c
    BY <1>1, FS_Subset
  <2>2. Cardinality(Upto(i)) \in Nat
    BY <2>1, FS_CardinalityType
  <2>3. Upto(i) # {}
    OBVIOUS
  <2>4. Cardinality(Upto(i)) # 0
    BY <2>1, <2>3, FS_EmptySet
  <2> QED  BY <1>1, <2>1, <2>2, <2>4 DEF Place
<1>3. ASSUME NEW i \in P, NEW j \in P, i < j PROVE Place(P, i) < Place(P, j)
  <2>4. i \in Nat /\ j \in Nat /\ \A k \in P : k \in Nat
    BY <1>5
  <2>1. Upto(i) \subseteq Upto(j) /\ j \in Upto(j) \ Upto(i)
    <3>1. ASSUME NEW k \in Upto(i) PROVE k \in Upto(j)
      <4>1. k \in P /\ k <= i /\ k \in Nat
        BY <2>4
      <4>2. k <= j
        BY <2>4, <4>1, <1>3
      <4> QED  BY <4>1, <4>2
    <3>2. j \in Upto(j) /\ j \notin Upto(i)
      BY <2>4, <1>3
    <3> QED  BY <3>1, <3>2
  <2>2. IsFiniteSet(Upto(j)) /\ Cardinality(Upto(i)) <= Cardinality(Upto(j)) /\ Cardinality(Upto(i)) # Cardinality(Upto(j))
    BY <1>2, <2>1, FS_Subset
  <2>3. Cardinality(Upto(i)) \in Nat /\ Cardinality(Upto(j)) \in Nat
    BY <1>2, FS_CardinalityType
  <2> QED  BY <1>2, <2>2, <2>3
<1>4. ASSUME NEW k \in 1 .. c PROVE \E i \in P : Place(P, i) = k
  <2> DEFINE rank == [i \in P |-> Place(P, i)]
  <2>1. rank \in [P -> 1 .. c]
    BY <1>2
  <2>2. \A i, j \in P : rank[i] = rank[j] => i = j
    <3> SUFFICES ASSUME NEW i \in P, NEW j \in P, i # j PROVE Place(P, i) # Place(P, j)
      OBVIOUS
    <3>1. i \in Nat /\ j \in Nat
      BY <1>5
    <3>2. i < j \/ j < i
      BY <3>1
    <3>3. Place(P, i) \in Nat /\ Place(P, j) \in Nat
      BY <1>1, <1>2 DEF Place
    <3> QED  BY <1>3, <3>2, <3>3
  <2>3. rank \in Injection(P, 1 .. c)
    BY <2>1, <2>2 DEF Injection, IsInjective
  <2>4. IsFiniteSet(1 .. c) /\ Cardinality(1 .. c) = c
    BY <1>1, FS_Interval
  <2>5. rank \in Surjection(P, 1 .. c)
    <3> HIDE DEF rank
    <3> QED  BY <2>3, <2>4, FS_Injection
  <2> QED  BY <2>5 DEF Surjection
<1> QED  BY <1>1, <1>2, <1>3, <1>4

\* t has the elements of s at the positions P: f lists the positions in their
\* order
Lists(s, P, t, f) ==
    /\ f \in [1 .. Cardinality(P) -> P]
    /\ \A k \in 1 .. Cardinality(P) : t[k] = s[f[k]]
    /\ \A k, l \in 1 .. Cardinality(P) : k < l => f[k] < f[l]
    /\ \A i \in P : \E k \in 1 .. Cardinality(P) : f[k] = i

LEMMA Sublist ==
    ASSUME NEW S, NEW s \in Seq(S), NEW P \in SUBSET (DOMAIN s)
    PROVE  /\ At(s, P) \in Seq(S) /\ Len(At(s, P)) = Cardinality(P) /\ Cardinality(P) \in Nat
           /\ \E f : Lists(s, P, At(s, P), f)
<1> DEFINE c == Cardinality(P)
           f == [k \in 1 .. c |-> CHOOSE i \in P : Place(P, i) = k]
<1>1. Len(s) \in Nat /\ P \subseteq 1 .. Len(s) /\ \A i \in P : s[i] \in S
  OBVIOUS
<1>2. /\ c \in Nat
      /\ \A i \in P : Place(P, i) \in 1 .. c
      /\ \A i, j \in P : i < j => Place(P, i) < Place(P, j)
      /\ \A k \in 1 .. c : \E i \in P : Place(P, i) = k
  BY <1>1, Places
<1>3. \A k \in 1 .. c : f[k] \in P /\ Place(P, f[k]) = k
  BY <1>2
<1>4. f \in [1 .. c -> P] /\ At(s, P) = [k \in 1 .. c |-> s[f[k]]]
  BY <1>3 DEF At
<1> HIDE DEF f, c
<1>5. \A k \in 1 .. c : At(s, P)[k] = s[f[k]] /\ s[f[k]] \in S
  BY <1>1, <1>4
<1>6. At(s, P) \in Seq(S) /\ Len(At(s, P)) = c
  BY <1>1, <1>2, <1>4
<1>7. ASSUME NEW k \in 1 .. c, NEW l \in 1 .. c, k < l PROVE f[k] < f[l]
  <2>1. f[k] \in Nat /\ f[l] \in Nat /\ f[k] # f[l]
    BY <1>1, <1>3, <1>7
  <2>2. ~(f[l] < f[k])
    BY <1>2, <1>3, <1>7
  <2> QED  BY <2>1, <2>2
<1>8. ASSUME NEW i \in P PROVE \E k \in 1 .. c : f[k] = i
  <2>1. Place(P, i) \in 1 .. c /\ f[Place(P, i)] \in P /\ Place(P, f[Place(P, i)]) = Place(P, i)
    BY <1>2, <1>3
  <2>2. i \in Nat /\ f[Place(P, i)] \in Nat
    BY <1>1, <2>1
  <2>3. ~(i < f[Place(P, i)]) /\ ~(f[Place(P, i)] < i)
    BY <1>2, <2>1
  <2> QED  BY <2>1, <2>2, <2>3
<1>9. Lists(s, P, At(s, P), f)
  BY <1>4, <1>5, <1>7, <1>8 DEF c, Lists
<1> QED  BY <1>2, <1>6, <1>9 DEF c

\* The elements of t are those of s that are in T, each at its turn: f[k] is
\* where the k-th has been
Picks(s, T, t, f) ==
    /\ f \in [1 .. Len(t) -> 1 .. Len(s)]
    /\ \A k \in 1 .. Len(t) : t[k] = s[f[k]] /\ s[f[k]] \in T
    /\ \A k, l \in 1 .. Len(t) : k < l => f[k] < f[l]
    /\ \A i \in 1 .. Len(s) : s[i] \in T => \E k \in 1 .. Len(t) : f[k] = i

LEMMA OnlyPlaces ==
    ASSUME NEW S, NEW s \in Seq(S), NEW T
    PROVE  Only(s, T) \in Seq(S) /\ \E f : Picks(s, T, Only(s, T), f)
<1> DEFINE P == {i \in DOMAIN s : s[i] \in T}
           t == Only(s, T)
<1>1. t = At(s, P) /\ P \in SUBSET (DOMAIN s) /\ DOMAIN s = 1 .. Len(s)
  BY DEF Only
<1>2. t \in Seq(S) /\ Len(t) = Cardinality(P)
  BY <1>1, Sublist
<1>3. PICK f : Lists(s, P, t, f)
  <2> HIDE DEF P, t
  <2> QED  BY <1>1, Sublist
<1>4. f \in [1 .. Len(t) -> 1 .. Len(s)]
  BY <1>1, <1>2, <1>3 DEF Lists
<1>5. \A k \in 1 .. Len(t) : s[f[k]] \in T
  BY <1>1, <1>2, <1>3 DEF Lists
<1> HIDE DEF t
<1>6. \A i \in 1 .. Len(s) : s[i] \in T => i \in P
  BY <1>1
<1> HIDE DEF P
<1>7. Picks(s, T, t, f)
  BY <1>2, <1>3, <1>4, <1>5, <1>6 DEF Picks, Lists
<1> QED  BY <1>2, <1>7 DEF t

\* In the terms of elements: those of s in T and no others, at different places
\* when they were at different places
LEMMA OnlyThose ==
    ASSUME NEW S, NEW s \in Seq(S), NEW T
    PROVE  LET t == Only(s, T) IN
           /\ t \in Seq(S)
           /\ \A k \in 1 .. Len(t) : \E i \in 1 .. Len(s) : t[k] = s[i] /\ s[i] \in T
           /\ \A i \in 1 .. Len(s) : s[i] \in T => \E k \in 1 .. Len(t) : t[k] = s[i]
           /\ \A k, l \in 1 .. Len(t) : k # l =>
                \E i, j \in 1 .. Len(s) : i # j /\ t[k] = s[i] /\ t[l] = s[j]
<1> DEFINE t == Only(s, T)
<1>1. t \in Seq(S)
  BY OnlyPlaces
<1>2. PICK f : Picks(s, T, t, f)
  BY OnlyPlaces
<1> HIDE DEF t
<1>3. \A k \in 1 .. Len(t) : \E i \in 1 .. Len(s) : t[k] = s[i] /\ s[i] \in T
  BY <1>2 DEF Picks
<1>4. \A i \in 1 .. Len(s) : s[i] \in T => \E k \in 1 .. Len(t) : t[k] = s[i]
  BY <1>2 DEF Picks
<1>5. ASSUME NEW k \in 1 .. Len(t), NEW l \in 1 .. Len(t), k # l PROVE f[k] # f[l]
  <2>1. (k < l \/ l < k) /\ f[k] \in Nat /\ f[l] \in Nat
    BY <1>1, <1>2, <1>5 DEF Picks
  <2> QED  BY <1>2, <2>1 DEF Picks
<1>6. \A k, l \in 1 .. Len(t) : k # l =>
                \E i, j \in 1 .. Len(s) : i # j /\ t[k] = s[i] /\ t[l] = s[j]
  <2> SUFFICES ASSUME NEW k \in 1 .. Len(t), NEW l \in 1 .. Len(t), k # l
               PROVE  \E i, j \in 1 .. Len(s) : i # j /\ t[k] = s[i] /\ t[l] = s[j]
    OBVIOUS
  <2>1. /\ f[k] \in 1 .. Len(s) /\ f[l] \in 1 .. Len(s)
        /\ t[k] = s[f[k]] /\ t[l] = s[f[l]]
    BY <1>2 DEF Picks
  <2>2. f[k] # f[l]
    BY <1>5
  <2> QED  BY <2>1, <2>2
<1> QED  BY <1>1, <1>3, <1>4, <1>6 DEF t

-----------------------------------------------------------------------------
(* What is repeated a number of times *)

\* Induction over a set of numbers, by its least gap
LEMMA UpTo ==
    ASSUME NEW N \in Nat, NEW S, 0 \in S, \A n \in 0 .. N : n \in S /\ n < N => n + 1 \in S
    PROVE  \A n \in 0 .. N : n \in S
<1> SUFFICES ASSUME NEW k \in 0 .. N, k \notin S PROVE FALSE
  OBVIOUS
<1> DEFINE T == {n \in 0 .. N : n \notin S}
<1>1. T \subseteq Nat /\ T # {}
  OBVIOUS
<1>2. PICK n \in T : \A m \in T : n <= m
  BY <1>1, Least
<1>3. n \in 0 .. N /\ n \notin S
  BY <1>2
<1>4. n - 1 \in 0 .. N /\ n - 1 < n
  BY <1>3
<1>5. n - 1 \in S
  BY <1>2, <1>4
<1>6. (n - 1) + 1 \in S /\ (n - 1) + 1 = n
  BY <1>3, <1>4, <1>5
<1> QED  BY <1>3, <1>6

\* A step repeated n times
Iterates(X, F, A, n, f) ==
    f \in [0 .. n -> X] /\ f = [k \in 0 .. n |-> IF k = 0 THEN A ELSE F[f[k - 1]]]

\* It can be
LEMMA Iterated ==
    ASSUME NEW X, NEW F \in [X -> X], NEW A \in X, NEW N \in Nat
    PROVE  \E f : Iterates(X, F, A, N, f)
<1> DEFINE S == {n \in Nat : \E f : Iterates(X, F, A, n, f)}
<1>1. 0 \in S
  <2> DEFINE f == [k \in 0 .. 0 |-> A]
  <2>1. f = [k \in 0 .. 0 |-> IF k = 0 THEN A ELSE F[f[k - 1]]]
    OBVIOUS
  <2>2. f \in [0 .. 0 -> X]
    OBVIOUS
  <2> QED  BY <2>1, <2>2 DEF Iterates
<1>2. ASSUME NEW n \in 0 .. N, n \in S PROVE n + 1 \in S
  <2>1. PICK f : Iterates(X, F, A, n, f)
    BY <1>2
  <2> DEFINE g == [k \in 0 .. n + 1 |-> IF k \in 0 .. n THEN f[k] ELSE F[f[n]]]
  <2>2. f \in [0 .. n -> X] /\ \A k \in 0 .. n : f[k] = IF k = 0 THEN A ELSE F[f[k - 1]]
    BY <2>1 DEF Iterates
  <2>3. g \in [0 .. n + 1 -> X]
    BY <2>2
  <2>4. \A k \in 0 .. n : g[k] = f[k]
    OBVIOUS
  <2>5. g[n + 1] = F[g[n]]
    OBVIOUS
  <2>6. \A k \in 0 .. n + 1 : g[k] = IF k = 0 THEN A ELSE F[g[k - 1]]
    <3> SUFFICES ASSUME NEW k \in 0 .. n + 1 PROVE g[k] = IF k = 0 THEN A ELSE F[g[k - 1]]
      OBVIOUS
    <3>1. CASE k = n + 1
      BY <2>5, <3>1
    <3>2. CASE k \in 0 .. n
      <4>1. k # 0 => k - 1 \in 0 .. n
        BY <3>2
      <4> QED  BY <2>2, <2>4, <3>2, <4>1
    <3> QED  BY <3>1, <3>2
  <2> HIDE DEF g
  <2>7. g = [k \in 0 .. n + 1 |-> IF k = 0 THEN A ELSE F[g[k - 1]]]
    BY <2>3, <2>6
  <2>8. Iterates(X, F, A, n + 1, g)
    BY <2>3, <2>7 DEF Iterates
  <2> QED  BY <2>8
<1>3. \A n \in 0 .. N : n \in S
  <2> HIDE DEF S
  <2> QED  BY <1>1, <1>2, UpTo
<1> QED  BY <1>3

\* A chain of sets that grows until it settles does so within the size of what it is taken from
LEMMA Settles ==
    ASSUME NEW D, IsFiniteSet(D), NEW h \in [0 .. Cardinality(D) -> SUBSET D], NEW Z,
           \A n \in 0 .. Cardinality(D) : n < Cardinality(D) =>
              IF n \in Z THEN n + 1 \in Z ELSE n + 1 \in Z \/ (h[n] \subseteq h[n + 1] /\ h[n] # h[n + 1])
    PROVE  Cardinality(D) \in Z \/ (h[Cardinality(D)] = D /\ h[0] = {} /\ 0 \notin Z)
<1> DEFINE N == Cardinality(D)
           S == {n \in 0 .. N : n \in Z \/ (Cardinality(h[n]) >= n + Cardinality(h[0]) /\ 0 \notin Z)}
<1>1. N \in Nat /\ \A n \in 0 .. N : IsFiniteSet(h[n]) /\ Cardinality(h[n]) \in Nat /\ Cardinality(h[n]) <= N
  <2>1. N \in Nat
    BY FS_CardinalityType
  <2>2. ASSUME NEW n \in 0 .. N PROVE IsFiniteSet(h[n]) /\ Cardinality(h[n]) <= N
    <3>1. h[n] \in SUBSET D
      OBVIOUS
    <3> QED  BY <3>1, FS_Subset
  <2>3. \A n \in 0 .. N : Cardinality(h[n]) \in Nat
    BY <2>2, FS_CardinalityType
  <2> QED  BY <2>1, <2>2, <2>3
<1>2. 0 \in S
  BY <1>1
<1>3. ASSUME NEW n \in 0 .. N, n \in S, n < N PROVE n + 1 \in S
  <2>1. n + 1 \in 0 .. N
    BY <1>1, <1>3
  <2>2. CASE n + 1 \in Z
    BY <2>1, <2>2
  <2>3. CASE n + 1 \notin Z
    <3>1. n \notin Z /\ h[n] \subseteq h[n + 1] /\ h[n] # h[n + 1]
      BY <1>3, <2>3
    <3>2. Cardinality(h[n]) < Cardinality(h[n + 1])
      <4>1. Cardinality(h[n]) <= Cardinality(h[n + 1])
        BY <1>1, <2>1, <3>1, FS_Subset
      <4>2. Cardinality(h[n]) # Cardinality(h[n + 1])
        BY <1>1, <2>1, <3>1, FS_Subset
      <4> QED  BY <1>1, <2>1, <4>1, <4>2
    <3>3. Cardinality(h[n]) >= n + Cardinality(h[0]) /\ 0 \notin Z
      BY <1>3, <3>1
    <3>4. Cardinality(h[n + 1]) >= n + 1 + Cardinality(h[0])
      BY <1>1, <2>1, <3>2, <3>3
    <3> QED  BY <2>1, <3>3, <3>4
  <2> QED  BY <2>2, <2>3
<1>4. \A n \in 0 .. N : n \in S
  <2> HIDE DEF S, N
  <2> QED  BY <1>1, <1>2, <1>3, UpTo
<1>5. N \in S
  BY <1>1, <1>4
<1>6. CASE N \notin Z
  <2>1. Cardinality(h[N]) >= N + Cardinality(h[0]) /\ 0 \notin Z
    BY <1>5, <1>6
  <2>2. Cardinality(h[N]) = N /\ Cardinality(h[0]) = 0
    BY <1>1, <2>1
  <2>3. h[N] = D
    BY <1>1, <2>2, FS_Subset
  <2>4. h[0] = {}
    BY <1>1, <2>2, FS_EmptySet
  <2> QED  BY <2>1, <2>3, <2>4
<1> QED  BY <1>6

\* What F makes of f at x depends on f where the size is less
Shrinks(D, R, size, F) ==
    /\ R # {} /\ size \in [D -> Nat] /\ F \in [[D -> R] -> [D -> R]]
    /\ \A f, g \in [D -> R], x \in D : (\A y \in D : size[y] < size[x] => f[y] = g[y]) => F[f][x] = F[g][x]

\* A recursive function whose arguments shrink exists
LEMMA Recursive ==
    ASSUME NEW D, NEW R, NEW size, NEW F, Shrinks(D, R, size, F)
    PROVE  \E f \in [D -> R] : f = F[f]
<1> DEFINE X == [D -> R]
           A == [x \in D |-> CHOOSE r \in R : TRUE]
           it(n) == CHOOSE f : Iterates(X, F, A, n, f)
           s == [n \in Nat |-> it(n)[n]]
<1>0. size \in [D -> Nat] /\ F \in [[D -> R] -> [D -> R]] /\ R # {}
  BY DEF Shrinks
<1> USE <1>0
<1>1. A \in X /\ F \in [X -> X]
  OBVIOUS
<1> HIDE DEF A
<1>2. \A n \in Nat : Iterates(X, F, A, n, it(n))
  <2> SUFFICES ASSUME NEW n \in Nat PROVE \E f : Iterates(X, F, A, n, f)
    OBVIOUS
  <2> HIDE DEF X
  <2> QED  BY <1>1, Iterated
<1> HIDE DEF it
<1>3. \A n \in Nat : it(n) \in [0 .. n -> X] /\ \A k \in 0 .. n : it(n)[k] = IF k = 0 THEN A ELSE F[it(n)[k - 1]]
  <2> SUFFICES ASSUME NEW n \in Nat PROVE it(n) \in [0 .. n -> X] /\ \A k \in 0 .. n : it(n)[k] = IF k = 0 THEN A ELSE F[it(n)[k - 1]]
    OBVIOUS
  <2> DEFINE f == it(n)
  <2>1. Iterates(X, F, A, n, f)
    BY <1>2
  <2> HIDE DEF f, X
  <2>2. f \in [0 .. n -> X] /\ \A k \in 0 .. n : f[k] = IF k = 0 THEN A ELSE F[f[k - 1]]
    BY <2>1 DEF Iterates
  <2> QED  BY <2>2 DEF f
<1>4. ASSUME NEW n \in Nat PROVE it(n + 1)[n] = it(n)[n]
  <2> DEFINE f == it(n)
             g == it(n + 1)
             S == {k \in Nat : g[k] = f[k]}
  <2>1. /\ \A k \in 0 .. n : f[k] = IF k = 0 THEN A ELSE F[f[k - 1]]
        /\ \A k \in 0 .. n + 1 : g[k] = IF k = 0 THEN A ELSE F[g[k - 1]]
    <3>1. n + 1 \in Nat
      OBVIOUS
    <3> QED  BY <1>3, <3>1
  <2> HIDE DEF f, g
  <2>2. 0 \in S
    BY <2>1
  <2>3. ASSUME NEW k \in 0 .. n, k \in S, k < n PROVE k + 1 \in S
    <3>1. k + 1 \in 0 .. n /\ k + 1 \in 0 .. n + 1 /\ k + 1 # 0 /\ (k + 1) - 1 = k
      BY <2>3
    <3>2. f[k + 1] = F[f[k]]
      BY <2>1, <3>1
    <3>3. g[k + 1] = F[g[k]]
      BY <2>1, <3>1
    <3> QED  BY <2>3, <3>2, <3>3
  <2>4. \A k \in 0 .. n : k \in S
    <3> HIDE DEF S
    <3> QED  BY <2>2, <2>3, UpTo
  <2> QED  BY <2>4 DEF f, g
<1>5. \A n \in Nat : s[n] \in X
  <2> SUFFICES ASSUME NEW n \in Nat PROVE it(n)[n] \in X
    OBVIOUS
  <2> HIDE DEF X
  <2> QED  BY <1>3
<1>6. \A n \in Nat : s[n + 1] = F[s[n]]
  <2> SUFFICES ASSUME NEW n \in Nat PROVE s[n + 1] = F[s[n]]
    OBVIOUS
  <2>1. n + 1 \in Nat /\ n + 1 \in 0 .. n + 1 /\ n + 1 # 0 /\ (n + 1) - 1 = n
    OBVIOUS
  <2>2. it(n + 1)[n + 1] = F[it(n + 1)[n]]
    <3> HIDE DEF X
    <3>1. \A k \in 0 .. n + 1 : it(n + 1)[k] = IF k = 0 THEN A ELSE F[it(n + 1)[k - 1]]
      BY <1>3, <2>1
    <3> QED  BY <2>1, <3>1
  <2>3. it(n + 1)[n] = it(n)[n]
    BY <1>4
  <2>4. s[n] = it(n)[n] /\ s[n + 1] = it(n + 1)[n + 1]
    <3> HIDE DEF it
    <3> QED  BY <2>1
  <2> HIDE DEF s, it
  <2> QED  BY <2>2, <2>3, <2>4
<1> HIDE DEF s
<1> DEFINE Settled == {n \in Nat : \A x \in D : size[x] < n => s[n + 1][x] = s[n][x]}
<1>7. \A n \in Nat : n \in Settled
  <2>1. 0 \in Settled
    OBVIOUS
  <2>2. ASSUME NEW n \in Nat, n \in Settled PROVE n + 1 \in Settled
    <3> SUFFICES ASSUME NEW x \in D, size[x] < n + 1 PROVE s[(n + 1) + 1][x] = s[n + 1][x]
      OBVIOUS
    <3>1. \A y \in D : size[y] < size[x] => s[n + 1][y] = s[n][y]
      <4> SUFFICES ASSUME NEW y \in D, size[y] < size[x] PROVE size[y] < n
        BY <2>2
      <4>1. size[x] \in Nat /\ size[y] \in Nat
        OBVIOUS
      <4> QED  BY <4>1
    <3>2. s[n + 1] \in [D -> R] /\ s[n] \in [D -> R]
      BY <1>5
    <3>3. F[s[n + 1]][x] = F[s[n]][x]
      BY <3>1, <3>2 DEF Shrinks
    <3> QED  BY <1>6, <3>3
  <2> SUFFICES ASSUME NEW N \in Nat PROVE N \in Settled
    OBVIOUS
  <2> HIDE DEF Settled
  <2>3. \A n \in 0 .. N : n \in Settled
    BY <2>1, <2>2, UpTo
  <2> QED  BY <2>3
<1>8. ASSUME NEW x \in D, NEW m \in Nat, size[x] < m PROVE s[m][x] = s[size[x] + 1][x]
  <2> DEFINE z == size[x]
             S == {n \in Nat : n <= z \/ s[n][x] = s[z + 1][x]}
  <2>1. z \in Nat
    OBVIOUS
  <2>2. 0 \in S
    BY <2>1
  <2>3. ASSUME NEW n \in 0 .. m, n \in S, n < m PROVE n + 1 \in S
    <3>1. CASE n < z
      BY <2>1, <3>1
    <3>2. CASE n = z
      BY <3>2
    <3>3. CASE z < n
      <4>1. s[n][x] = s[z + 1][x]
        BY <2>1, <2>3, <3>3
      <4>2. s[n + 1][x] = s[n][x]
        BY <1>7, <3>3
      <4> QED  BY <4>1, <4>2
    <3> QED  BY <2>1, <3>1, <3>2, <3>3
  <2>4. \A n \in 0 .. m : n \in S
    <3> HIDE DEF S, z
    <3> QED  BY <2>2, <2>3, UpTo
  <2>5. m \in S /\ ~(m <= z)
    BY <1>8, <2>1, <2>4
  <2> QED  BY <2>5
<1> DEFINE f == [x \in D |-> s[size[x] + 1][x]]
<1>9. f \in [D -> R]
  <2> SUFFICES ASSUME NEW x \in D PROVE s[size[x] + 1][x] \in R
    OBVIOUS
  <2>1. size[x] + 1 \in Nat
    OBVIOUS
  <2>2. s[size[x] + 1] \in [D -> R]
    BY <1>5, <2>1
  <2> QED  BY <2>2
<1>10. ASSUME NEW x \in D PROVE f[x] = F[f][x]
  <2> DEFINE z == size[x]
  <2>1. z \in Nat
    OBVIOUS
  <2>2. f[x] = F[s[z]][x]
    BY <1>6, <2>1
  <2>3. \A y \in D : size[y] < z => s[z][y] = f[y]
    BY <1>8, <2>1
  <2>4. s[z] \in [D -> R]
    BY <1>5, <2>1
  <2> HIDE DEF f
  <2>5. F[s[z]][x] = F[f][x]
    BY <1>9, <2>3, <2>4 DEF Shrinks
  <2> QED  BY <2>2, <2>5
<1> HIDE DEF f
<1>11. F[f] \in [D -> R]
  BY <1>9
<1>12. f = F[f]
  BY <1>9, <1>10, <1>11
<1> QED  BY <1>9, <1>12

-----------------------------------------------------------------------------
(* What an outbound depends on *)

\* A set that has what these tags depend on
Keeps(graph, T, S) == \A t \in T \cap DOMAIN graph : \A u \in graph[t] : u \in S

LEMMA OneStepIs ==
    ASSUME NEW graph, NEW T
    PROVE  /\ \A u : u \in OneStep(graph, T) <=> \E t \in T \cap DOMAIN graph : u \in graph[t]
           /\ \A S : OneStep(graph, T) \subseteq S <=> Keeps(graph, T, S)
<1>1. \A u : u \in OneStep(graph, T) <=> \E t \in T \cap DOMAIN graph : u \in graph[t]
  BY DEF OneStep
<1> QED  BY <1>1 DEF Keeps

\* What DependsOn computes by rounds
Rounds(graph, tag, r) ==
    \A n \in 0 .. Cardinality(DOMAIN graph) :
        r[n] = IF n = 0 THEN OneStep(graph, {tag}) ELSE r[n - 1] \cup OneStep(graph, r[n - 1])

LEMMA InRounds ==
    ASSUME NEW graph, IsFiniteSet(DOMAIN graph), NEW tag
    PROVE  \E r : Rounds(graph, tag, r) /\ DependsOn(graph, tag) = r[Cardinality(DOMAIN graph)]
<1> DEFINE N == Cardinality(DOMAIN graph)
           U == UNION {graph[t] : t \in DOMAIN graph}
           F == [s \in SUBSET U |-> s \cup OneStep(graph, s)]
           A == OneStep(graph, {tag})
           reached[n \in 0 .. N] ==
              IF n = 0 THEN OneStep(graph, {tag})
              ELSE LET before == reached[n - 1] IN before \cup OneStep(graph, before)
<1>1. N \in Nat
  BY FS_CardinalityType
<1>2. \A s : OneStep(graph, s) \in SUBSET U
  BY OneStepIs
<1>3. F \in [SUBSET U -> SUBSET U] /\ A \in SUBSET U /\ \A s \in SUBSET U : F[s] = s \cup OneStep(graph, s)
  BY <1>2
<1>4. PICK f : Iterates(SUBSET U, F, A, N, f)
  <2> HIDE DEF F, A, N, U
  <2> QED  BY <1>1, <1>3, Iterated
<1>5. f \in [0 .. N -> SUBSET U] /\ \A k \in 0 .. N : f[k] = IF k = 0 THEN A ELSE F[f[k - 1]]
  BY <1>4 DEF Iterates
<1>6. \A k \in 0 .. N : f[k] = IF k = 0 THEN OneStep(graph, {tag})
                               ELSE LET before == f[k - 1] IN before \cup OneStep(graph, before)
  <2> SUFFICES ASSUME NEW k \in 0 .. N
               PROVE f[k] = IF k = 0 THEN A ELSE f[k - 1] \cup OneStep(graph, f[k - 1])
    OBVIOUS
  <2> HIDE DEF F, A, U
  <2>1. k # 0 => k - 1 \in 0 .. N
    BY <1>1
  <2> QED  BY <1>3, <1>5, <2>1
<1>7. f = [n \in 0 .. N |-> IF n = 0 THEN OneStep(graph, {tag})
                            ELSE LET before == f[n - 1] IN before \cup OneStep(graph, before)]
  <2> HIDE DEF F, A, U, N
  <2> QED  BY <1>5, <1>6
<1>8. reached = [n \in 0 .. N |-> IF n = 0 THEN OneStep(graph, {tag})
                            ELSE LET before == reached[n - 1] IN before \cup OneStep(graph, before)]
  <2> HIDE DEF F, A, U, N
  <2> QED  BY <1>7
<1>9. DependsOn(graph, tag) = reached[N]
  BY DEF DependsOn
<1>10. Rounds(graph, tag, reached)
  <2> HIDE DEF N
  <2>1. \A n \in 0 .. N : reached[n] = IF n = 0 THEN OneStep(graph, {tag})
                            ELSE LET before == reached[n - 1] IN before \cup OneStep(graph, before)
    BY <1>8
  <2> HIDE DEF reached
  <2> QED  BY <2>1 DEF Rounds, N
<1> QED  BY <1>9, <1>10

\* DependsOn has the tag's dependencies and theirs, and nothing else: it is in every such set
LEMMA DependsOnIs ==
    ASSUME NEW graph, IsFiniteSet(DOMAIN graph), NEW tag
    PROVE  /\ Keeps(graph, {tag}, DependsOn(graph, tag))
           /\ Keeps(graph, DependsOn(graph, tag), DependsOn(graph, tag))
           /\ \A S : Keeps(graph, {tag}, S) /\ Keeps(graph, S, S) => DependsOn(graph, tag) \subseteq S
<1> DEFINE N == Cardinality(DOMAIN graph)
<1>1. N \in Nat
  BY FS_CardinalityType
<1>2. PICK r : Rounds(graph, tag, r) /\ DependsOn(graph, tag) = r[N]
  BY InRounds
<1>3. /\ r[0] = OneStep(graph, {tag})
      /\ \A n \in 0 .. N : n < N => r[n + 1] = r[n] \cup OneStep(graph, r[n])
  <2>1. \A n \in 0 .. N : r[n] = IF n = 0 THEN OneStep(graph, {tag}) ELSE r[n - 1] \cup OneStep(graph, r[n - 1])
    BY <1>2 DEF Rounds
  <2> HIDE DEF N
  <2>2. ASSUME NEW n \in 0 .. N, n < N PROVE r[n + 1] = r[n] \cup OneStep(graph, r[n])
    <3>1. n + 1 \in 0 .. N /\ n + 1 # 0 /\ (n + 1) - 1 = n
      BY <1>1, <2>2
    <3> QED  BY <2>1, <3>1
  <2>3. r[0] = OneStep(graph, {tag})
    <3>1. 0 \in 0 .. N
      BY <1>1
    <3> QED  BY <2>1, <3>1
  <2> QED  BY <2>2, <2>3
<1> HIDE DEF N
<1>4. \A n \in 0 .. N : r[0] \subseteq r[n]
  <2> DEFINE S == {n \in 0 .. N : r[0] \subseteq r[n]}
  <2>1. 0 \in S /\ \A n \in 0 .. N : n \in S /\ n < N => n + 1 \in S
    <3>1. ASSUME NEW n \in 0 .. N, n \in S, n < N PROVE n + 1 \in S
      <4>1. r[n + 1] = r[n] \cup OneStep(graph, r[n])
        BY <1>3, <3>1
      <4>2. r[0] \subseteq r[n] /\ n + 1 \in 0 .. N
        BY <1>1, <3>1
      <4> QED  BY <4>1, <4>2
    <3> QED  BY <1>1, <3>1
  <2> HIDE DEF S
  <2>2. \A n \in 0 .. N : n \in S
    BY <1>1, <2>1, UpTo
  <2> QED  BY <2>2 DEF S
<1>5. OneStep(graph, r[N]) \subseteq r[N]
  <2> DEFINE h == [n \in 0 .. N |-> r[n] \cap DOMAIN graph]
             Z == {n \in 0 .. N : OneStep(graph, r[n]) \subseteq r[n]}
  <2>1. ASSUME NEW n \in 0 .. N, n < N
        PROVE  IF n \in Z THEN n + 1 \in Z ELSE n + 1 \in Z \/ (h[n] \subseteq h[n + 1] /\ h[n] # h[n + 1])
    <3>1. n + 1 \in 0 .. N /\ r[n + 1] = r[n] \cup OneStep(graph, r[n])
      BY <1>1, <1>3, <2>1
    <3>2. h[n] \subseteq h[n + 1]
      BY <3>1
    <3>3. h[n] = h[n + 1] => OneStep(graph, r[n + 1]) = OneStep(graph, r[n])
      BY <3>1 DEF OneStep
    <3>4. h[n] = h[n + 1] => n + 1 \in Z
      BY <3>1, <3>3
    <3>5. n \in Z => n + 1 \in Z
      BY <3>1
    <3> QED  BY <3>2, <3>4, <3>5
  <2>2. h \in [0 .. N -> SUBSET (DOMAIN graph)] /\ h[0] = r[0] \cap DOMAIN graph
    BY <1>1
  <2>3. 0 \in Z \/ h[0] # {}
    BY <1>1, <2>2, OneStepIs
  <2>4. N \in Z
    <3> HIDE DEF h, Z
    <3>1. N \in Z \/ (h[0] = {} /\ 0 \notin Z)
      BY <2>1, <2>2, Settles DEF N
    <3> QED  BY <2>3, <3>1
  <2> QED  BY <2>4
<1>6. ASSUME NEW S, OneStep(graph, {tag}) \subseteq S, OneStep(graph, S) \subseteq S PROVE r[N] \subseteq S
  <2> DEFINE T == {n \in 0 .. N : r[n] \subseteq S}
  <2>1. 0 \in T
    BY <1>1, <1>3, <1>6
  <2>2. \A n \in 0 .. N : n \in T /\ n < N => n + 1 \in T
    <3> SUFFICES ASSUME NEW n \in 0 .. N, n \in T, n < N PROVE n + 1 \in T
      OBVIOUS
    <3>1. OneStep(graph, r[n]) \subseteq OneStep(graph, S)
      BY OneStepIs
    <3> QED  BY <1>1, <1>3, <1>6, <3>1
  <2> HIDE DEF T
  <2>3. \A n \in 0 .. N : n \in T
    BY <1>1, <2>1, <2>2, UpTo
  <2> QED  BY <1>1, <2>3 DEF T
<1>7. OneStep(graph, {tag}) \subseteq r[N]
  <2>1. N \in 0 .. N
    BY <1>1
  <2>2. r[0] \subseteq r[N]
    BY <1>4, <2>1
  <2> QED  BY <1>3, <2>2
<1>8. \A T, S : OneStep(graph, T) \subseteq S <=> Keeps(graph, T, S)
  BY OneStepIs
<1>9. Keeps(graph, {tag}, r[N]) /\ Keeps(graph, r[N], r[N])
  BY <1>5, <1>7, <1>8
<1>10. \A S : Keeps(graph, {tag}, S) /\ Keeps(graph, S, S) => r[N] \subseteq S
  BY <1>6, <1>8
<1> QED  BY <1>2, <1>9, <1>10
\* What depends on something depends on what that depends on
LEMMA DependsFurther ==
    ASSUME NEW graph, IsFiniteSet(DOMAIN graph), NEW t
    PROVE  /\ \A u \in DependsOn(graph, t) : DependsOn(graph, u) \subseteq DependsOn(graph, t)
           /\ t \in DOMAIN graph => \A u \in graph[t] : /\ u \in DependsOn(graph, t)
                                                       /\ DependsOn(graph, u) \subseteq DependsOn(graph, t)
<1>1. /\ Keeps(graph, {t}, DependsOn(graph, t))
      /\ Keeps(graph, DependsOn(graph, t), DependsOn(graph, t))
  BY DependsOnIs
<1>2. ASSUME NEW u \in DependsOn(graph, t) PROVE DependsOn(graph, u) \subseteq DependsOn(graph, t)
  <2>1. Keeps(graph, {u}, DependsOn(graph, t))
    BY <1>1 DEF Keeps
  <2> QED  BY <1>1, <2>1, DependsOnIs
<1>3. t \in DOMAIN graph => \A u \in graph[t] : u \in DependsOn(graph, t)
  BY <1>1 DEF Keeps
<1> QED  BY <1>2, <1>3

\* The first step of a dependency
LEMMA DependsVia ==
    ASSUME NEW graph, IsFiniteSet(DOMAIN graph), NEW t, NEW v \in DependsOn(graph, t)
    PROVE  t \in DOMAIN graph /\ \E u \in graph[t] : v = u \/ v \in DependsOn(graph, u)
<1> DEFINE S == {x \in DependsOn(graph, t) :
                   t \in DOMAIN graph /\ \E u \in graph[t] : x = u \/ x \in DependsOn(graph, u)}
<1>1. Keeps(graph, {t}, S)
  BY DependsFurther DEF Keeps
<1>2. Keeps(graph, S, S)
  <2> SUFFICES ASSUME NEW x \in S \cap DOMAIN graph, NEW y \in graph[x] PROVE y \in S
    BY DEF Keeps
  <2>1. PICK u \in graph[t] : x = u \/ x \in DependsOn(graph, u)
    OBVIOUS
  <2>2. y \in DependsOn(graph, x) /\ x \in DependsOn(graph, t)
    BY DependsFurther
  <2>3. DependsOn(graph, x) \subseteq DependsOn(graph, t)
    BY <2>2, DependsFurther
  <2>4. y \in DependsOn(graph, u)
    <3>1. x \in DependsOn(graph, u) => DependsOn(graph, x) \subseteq DependsOn(graph, u)
      BY DependsFurther
    <3> QED  BY <2>1, <2>2, <3>1
  <2> QED  BY <2>2, <2>3, <2>4
<1>3. DependsOn(graph, t) \subseteq S
  <2> HIDE DEF S
  <2> QED  BY <1>1, <1>2, DependsOnIs
<1> QED  BY <1>3

\* Where two graphs have the same steps from all a tag depends on, it depends on the same
LEMMA SameDependsOn ==
    ASSUME NEW g, IsFiniteSet(DOMAIN g), NEW h, IsFiniteSet(DOMAIN h), NEW t,
           \A x \in {t} \cup DependsOn(g, t) : OneStep(g, {x}) = OneStep(h, {x})
    PROVE  DependsOn(h, t) = DependsOn(g, t)
<1>1. ASSUME NEW x \in {t} \cup DependsOn(g, t), NEW u
      PROVE  x \in DOMAIN g /\ u \in g[x] <=> x \in DOMAIN h /\ u \in h[x]
  <2>1. u \in OneStep(g, {x}) <=> x \in DOMAIN g /\ u \in g[x]
    BY OneStepIs
  <2>2. u \in OneStep(h, {x}) <=> x \in DOMAIN h /\ u \in h[x]
    BY OneStepIs
  <2> QED  BY <2>1, <2>2
<1>2. DependsOn(h, t) \subseteq DependsOn(g, t)
  <2>1. Keeps(g, {t}, DependsOn(g, t)) /\ Keeps(g, DependsOn(g, t), DependsOn(g, t))
    BY DependsOnIs
  <2>2. \A x \in {t} \cup DependsOn(g, t) : x \in DOMAIN g => \A u \in g[x] : u \in DependsOn(g, t)
    BY <2>1 DEF Keeps
  <2>3. ASSUME NEW x \in {t} \cup DependsOn(g, t), x \in DOMAIN h, NEW u \in h[x] PROVE u \in DependsOn(g, t)
    <3>1. x \in DOMAIN g /\ u \in g[x]
      BY <1>1, <2>3
    <3> QED  BY <2>2, <3>1
  <2>4. Keeps(h, {t}, DependsOn(g, t)) /\ Keeps(h, DependsOn(g, t), DependsOn(g, t))
    BY <2>3 DEF Keeps
  <2> QED  BY <2>4, DependsOnIs
<1>3. DependsOn(g, t) \subseteq DependsOn(h, t)
  <2>1. Keeps(h, {t}, DependsOn(h, t)) /\ Keeps(h, DependsOn(h, t), DependsOn(h, t))
    BY DependsOnIs
  <2>2. \A x \in {t} \cup DependsOn(h, t) : x \in DOMAIN h => \A u \in h[x] : u \in DependsOn(h, t)
    BY <2>1 DEF Keeps
  <2>3. ASSUME NEW x \in {t} \cup DependsOn(h, t), x \in DOMAIN g, NEW u \in g[x] PROVE u \in DependsOn(h, t)
    <3>1. x \in DOMAIN h /\ u \in h[x]
      BY <1>1, <1>2, <2>3
    <3> QED  BY <2>2, <3>1
  <2>4. Keeps(g, {t}, DependsOn(h, t)) /\ Keeps(g, DependsOn(h, t), DependsOn(h, t))
    BY <2>3 DEF Keeps
  <2> QED  BY <2>4, DependsOnIs
<1> QED  BY <1>2, <1>3

\* A graph without tags to start before their dependencies
Startable(graph, S) == {t \in DOMAIN graph : graph[t] \subseteq S}

\* What has started: the tags whose dependencies have, and no others
LEMMA StartedIs ==
    ASSUME NEW graph, IsFiniteSet(DOMAIN graph)
    PROVE  /\ Started(graph) = Startable(graph, Started(graph))
           /\ \A S : Startable(graph, S) \subseteq S => Started(graph) \subseteq S
<1> DEFINE N == Cardinality(DOMAIN graph)
           X == SUBSET (DOMAIN graph)
           F == [s \in X |-> Startable(graph, s)]
           up[n \in 0 .. N] ==
              IF n = 0 THEN {}
              ELSE LET before == up[n - 1] IN {t \in DOMAIN graph : graph[t] \subseteq before}
<1>1. N \in Nat
  BY FS_CardinalityType
<1>2. F \in [X -> X] /\ {} \in X /\ \A s \in X : F[s] = Startable(graph, s)
  BY DEF Startable
<1>3. PICK f : Iterates(X, F, {}, N, f)
  <2> HIDE DEF F, N, X
  <2> QED  BY <1>1, <1>2, Iterated
<1>4. f \in [0 .. N -> X] /\ \A k \in 0 .. N : f[k] = IF k = 0 THEN {} ELSE F[f[k - 1]]
  BY <1>3 DEF Iterates
<1>5. \A k \in 0 .. N : f[k] = IF k = 0 THEN {}
                               ELSE LET before == f[k - 1] IN {t \in DOMAIN graph : graph[t] \subseteq before}
  <2> SUFFICES ASSUME NEW k \in 0 .. N
               PROVE f[k] = IF k = 0 THEN {} ELSE Startable(graph, f[k - 1])
    BY DEF Startable
  <2> HIDE DEF F, X
  <2>1. k # 0 => k - 1 \in 0 .. N
    BY <1>1
  <2> QED  BY <1>2, <1>4, <2>1
<1>6. f = [n \in 0 .. N |-> IF n = 0 THEN {}
                            ELSE LET before == f[n - 1] IN {t \in DOMAIN graph : graph[t] \subseteq before}]
  <2> HIDE DEF F, X, N
  <2> QED  BY <1>4, <1>5
<1>7. up = [n \in 0 .. N |-> IF n = 0 THEN {}
                            ELSE LET before == up[n - 1] IN {t \in DOMAIN graph : graph[t] \subseteq before}]
  <2> HIDE DEF F, X, N
  <2> QED  BY <1>6
<1>8. Started(graph) = up[N]
  BY DEF Started
<1>9. \A n \in 0 .. N : up[n] = IF n = 0 THEN {} ELSE Startable(graph, up[n - 1])
  <2> HIDE DEF N, F, X
  <2>1. \A n \in 0 .. N : up[n] = IF n = 0 THEN {}
                            ELSE LET before == up[n - 1] IN {t \in DOMAIN graph : graph[t] \subseteq before}
    BY <1>7
  <2> HIDE DEF up
  <2> QED  BY <2>1 DEF Startable
<1> HIDE DEF up, N, F, X
<1>10. up[0] = {} /\ \A n \in 0 .. N : n < N => up[n + 1] = Startable(graph, up[n])
  <2>1. 0 \in 0 .. N
    BY <1>1
  <2>2. ASSUME NEW n \in 0 .. N, n < N PROVE up[n + 1] = Startable(graph, up[n])
    <3>1. n + 1 \in 0 .. N /\ n + 1 # 0 /\ (n + 1) - 1 = n
      BY <1>1, <2>2
    <3> QED  BY <1>9, <3>1
  <2> QED  BY <1>9, <2>1, <2>2
<1>11. \A n \in 0 .. N : up[n] \subseteq DOMAIN graph
  BY <1>9 DEF Startable
<1>12. \A n \in 0 .. N : n < N => up[n] \subseteq up[n + 1]
  <2> DEFINE T == {n \in 0 .. N : n < N => up[n] \subseteq up[n + 1]}
  <2>1. 0 \in T
    BY <1>1, <1>10
  <2>2. ASSUME NEW n \in 0 .. N, n \in T, n < N PROVE n + 1 \in T
    <3>1. n + 1 \in 0 .. N
      BY <1>1, <2>2
    <3>2. n + 1 < N => up[n + 2] = Startable(graph, up[n + 1])
      <4>1. (n + 1) + 1 = n + 2
        BY <3>1
      <4> QED  BY <1>10, <3>1, <4>1
    <3>3. up[n + 1] = Startable(graph, up[n]) /\ up[n] \subseteq up[n + 1]
      BY <1>10, <2>2
    <3>4. Startable(graph, up[n]) \subseteq Startable(graph, up[n + 1])
      BY <3>3 DEF Startable
    <3>5. (n + 1) + 1 = n + 2
      BY <3>1
    <3> QED  BY <3>1, <3>2, <3>3, <3>4, <3>5
  <2> HIDE DEF T
  <2>3. \A n \in 0 .. N : n \in T
    BY <1>1, <2>1, <2>2, UpTo
  <2> QED  BY <2>3 DEF T
<1>13. Startable(graph, up[N]) = up[N]
  <2> DEFINE h == [n \in 0 .. N |-> up[n]]
             Z == {n \in 0 .. N : Startable(graph, up[n]) = up[n]}
  <2>1. ASSUME NEW n \in 0 .. N, n < N
        PROVE  IF n \in Z THEN n + 1 \in Z ELSE n + 1 \in Z \/ (h[n] \subseteq h[n + 1] /\ h[n] # h[n + 1])
    <3>1. n + 1 \in 0 .. N /\ up[n + 1] = Startable(graph, up[n]) /\ up[n] \subseteq up[n + 1]
      BY <1>1, <1>10, <1>12, <2>1
    <3> QED  BY <3>1
  <2>2. h \in [0 .. N -> SUBSET (DOMAIN graph)]
    BY <1>11
  <2>3. N \in Z \/ h[N] = DOMAIN graph
    <3> HIDE DEF h, Z
    <3> QED  BY <2>1, <2>2, Settles DEF N
  <2>4. up[N] \subseteq Startable(graph, up[N])
    <3>1. CASE N = 0
      BY <1>10, <3>1
    <3>2. CASE N # 0
      <4>1. N - 1 \in 0 .. N /\ N - 1 < N /\ (N - 1) + 1 = N
        BY <1>1, <3>2
      <4>2. up[N - 1] \subseteq up[N] /\ up[N] = Startable(graph, up[N - 1])
        BY <1>10, <1>12, <4>1
      <4> QED  BY <4>2 DEF Startable
    <3> QED  BY <3>1, <3>2
  <2>5. N \in 0 .. N
    BY <1>1
  <2> QED  BY <2>3, <2>4, <2>5 DEF Startable
<1>14. ASSUME NEW S, Startable(graph, S) \subseteq S PROVE up[N] \subseteq S
  <2> DEFINE T == {n \in 0 .. N : up[n] \subseteq S}
  <2>1. 0 \in T
    BY <1>1, <1>10
  <2>2. ASSUME NEW n \in 0 .. N, n \in T, n < N PROVE n + 1 \in T
    <3>1. Startable(graph, up[n]) \subseteq Startable(graph, S)
      BY <2>2 DEF Startable
    <3> QED  BY <1>1, <1>10, <1>14, <2>2, <3>1
  <2> HIDE DEF T
  <2>3. \A n \in 0 .. N : n \in T
    BY <1>1, <2>1, <2>2, UpTo
  <2> QED  BY <1>1, <2>3 DEF T
<1> QED  BY <1>8, <1>13, <1>14

\* Nothing that starts depends on itself
LEMMA StartedNoRing ==
    ASSUME NEW graph, IsFiniteSet(DOMAIN graph), NEW t \in Started(graph)
    PROVE  t \in DOMAIN graph /\ graph[t] \subseteq Started(graph) /\ t \notin DependsOn(graph, t)
           /\ DependsOn(graph, t) \subseteq Started(graph)
<1> DEFINE S == {x \in Started(graph) : x \notin DependsOn(graph, x)}
<1>1. \A x \in Started(graph) : x \in DOMAIN graph /\ graph[x] \subseteq Started(graph)
  BY StartedIs DEF Startable
<1>2. Startable(graph, S) \subseteq S
  <2> SUFFICES ASSUME NEW x \in DOMAIN graph, graph[x] \subseteq S PROVE x \in S
    BY DEF Startable
  <2>1. x \in Started(graph)
    BY StartedIs DEF Startable
  <2>2. ASSUME x \in DependsOn(graph, x) PROVE FALSE
    <3>1. PICK u \in graph[x] : x = u \/ x \in DependsOn(graph, u)
      BY <2>2, DependsVia
    <3>2. u \in DependsOn(graph, x) /\ u \notin DependsOn(graph, u)
      BY DependsFurther
    <3>3. x \in DependsOn(graph, u) => DependsOn(graph, x) \subseteq DependsOn(graph, u)
      BY DependsFurther
    <3> QED  BY <3>1, <3>2, <3>3
  <2> QED  BY <2>1, <2>2
<1>3. Started(graph) \subseteq S
  <2> HIDE DEF S
  <2> QED  BY <1>2, StartedIs
<1>4. DependsOn(graph, t) \subseteq Started(graph)
  <2>1. Keeps(graph, {t}, Started(graph)) /\ Keeps(graph, Started(graph), Started(graph))
    BY <1>1 DEF Keeps
  <2> QED  BY <2>1, DependsOnIs
<1> QED  BY <1>1, <1>3, <1>4

\* Tags without a missing dependency and without a ring among them all start
LEMMA AllStart ==
    ASSUME NEW graph, IsFiniteSet(DOMAIN graph), NEW R, R \subseteq DOMAIN graph,
           \A t \in R : graph[t] \subseteq R /\ t \notin DependsOn(graph, t)
    PROVE  R \subseteq Started(graph)
<1> DEFINE B == R \ Started(graph)
           Size(t) == Cardinality(DependsOn(graph, t) \cap B)
           S == {Size(t) : t \in B}
<1> SUFFICES ASSUME B # {} PROVE FALSE
  OBVIOUS
<1>1. IsFiniteSet(B)
  BY FS_Subset
<1>2. \A t \in B : IsFiniteSet(DependsOn(graph, t) \cap B) /\ Size(t) \in Nat
  <2>1. \A t \in B : IsFiniteSet(DependsOn(graph, t) \cap B)
    BY <1>1, FS_Subset
  <2> QED  BY <2>1, FS_CardinalityType
<1>3. PICK n \in S : \A m \in S : n <= m
  <2>1. S \subseteq Nat /\ S # {}
    BY <1>2
  <2> HIDE DEF S
  <2> QED  BY <2>1, Least
<1>4. PICK t \in B : n = Size(t)
  BY <1>3
<1>5. PICK u \in graph[t] : u \notin Started(graph)
  <2>1. t \in DOMAIN graph /\ t \notin Startable(graph, Started(graph))
    BY StartedIs
  <2> QED  BY <2>1 DEF Startable
<1>6. u \in B
  BY <1>5
<1>7. u \in DependsOn(graph, t) /\ DependsOn(graph, u) \subseteq DependsOn(graph, t) /\ u \notin DependsOn(graph, u)
  BY <1>6, DependsFurther
<1>8. Size(u) < Size(t)
  <2> DEFINE a == DependsOn(graph, u) \cap B
             b == DependsOn(graph, t) \cap B
  <2>1. a \subseteq b /\ a # b /\ IsFiniteSet(b)
    BY <1>2, <1>6, <1>7
  <2>2. Cardinality(a) \in Nat /\ Cardinality(b) \in Nat
    BY <1>2, <1>6
  <2> HIDE DEF a, b
  <2>3. Cardinality(a) <= Cardinality(b) /\ Cardinality(a) # Cardinality(b)
    BY <2>1, FS_Subset
  <2>4. Cardinality(a) < Cardinality(b)
    BY <2>2, <2>3
  <2> QED  BY <2>4 DEF a, b
<1>9. Size(u) \in S
  BY <1>6
<1>10. Size(t) <= Size(u)
  <2> HIDE DEF Size, S
  <2> QED  BY <1>3, <1>4, <1>9
<1>11. Size(t) \in Nat /\ Size(u) \in Nat
  BY <1>2, <1>6
<1> HIDE DEF Size
<1> QED  BY <1>8, <1>10, <1>11

\* A graph without missing tags starts as a whole if it has no ring, and only then
LEMMA StartsWithoutRings ==
    ASSUME NEW graph, IsFiniteSet(DOMAIN graph), \A t \in DOMAIN graph : graph[t] \subseteq DOMAIN graph
    PROVE  Started(graph) = DOMAIN graph <=> Rings(graph) = {}
<1>1. Rings(graph) = {} <=> \A t \in DOMAIN graph : t \notin DependsOn(graph, t)
  <2> DEFINE deps == [t \in DOMAIN graph |-> DependsOn(graph, t)]
             looping == {t \in DOMAIN graph : t \in deps[t]}
             ring(t) == {u \in deps[t] \cap DOMAIN graph : t \in deps[u]}
  <2>1. Rings(graph) = {ring(t) : t \in looping}
    BY DEF Rings
  <2>2. looping = {} <=> \A t \in DOMAIN graph : t \notin DependsOn(graph, t)
    OBVIOUS
  <2>3. Rings(graph) = {} <=> looping = {}
    <3> HIDE DEF deps, looping, ring
    <3> QED  BY <2>1
  <2> QED  BY <2>2, <2>3
<1>2. Started(graph) \subseteq DOMAIN graph
  BY StartedIs DEF Startable
<1>3. Rings(graph) = {} => DOMAIN graph \subseteq Started(graph)
  BY <1>1, AllStart
<1>4. Started(graph) = DOMAIN graph => Rings(graph) = {}
  BY <1>1, StartedNoRing
<1> QED  BY <1>2, <1>3, <1>4

==============================================================================
