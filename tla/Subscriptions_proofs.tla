------------------------- MODULE Subscriptions_proofs --------------------------
(* Proofs about the subscriptions: the merge of their nodes into the config    *)
(* (SubscriptionSync), for any providers, names, servers and bounds; and what   *)
(* the user hears of their troubles (SubscriptionReports), for any reasons,     *)
(* limits and ages.                                                             *)
EXTENDS SubscriptionSync, SubscriptionReports, ListsAndGraphs_proofs

-----------------------------------------------------------------------------
(* Lists of nodes *)

One(s) == \A i, j \in DOMAIN s : s[i].tag = s[j].tag => i = j

\* What Only leaves of a list: those in the set; a tag still names one node
LEMMA Filtered ==
    ASSUME NEW R, NEW s \in Seq(R), NEW T
    PROVE  /\ Only(s, T) \in Seq(R)
           /\ \A x : x \in Range(Only(s, T)) <=> x \in Range(s) /\ x \in T
           /\ One(s) => One(Only(s, T))
<1> DEFINE t == Only(s, T)
<1>1. PICK f : Picks(s, T, t, f)
  BY OnlyPlaces
<1>2. t \in Seq(R)
  BY OnlyThose
<1> HIDE DEF t
<1>3. DOMAIN t = 1 .. Len(t) /\ DOMAIN s = 1 .. Len(s) /\ Len(t) \in Nat /\ Len(s) \in Nat
  BY <1>2
<1>4. ASSUME NEW x PROVE x \in Range(t) <=> x \in Range(s) /\ x \in T
  <2>1. x \in Range(t) => x \in Range(s) /\ x \in T
    BY <1>1, <1>3 DEF Range, Picks
  <2>2. x \in Range(s) /\ x \in T => x \in Range(t)
    BY <1>1, <1>3 DEF Range, Picks
  <2> QED  BY <2>1, <2>2
<1>5. ASSUME One(s) PROVE One(t)
  <2> SUFFICES ASSUME NEW i \in 1 .. Len(t), NEW j \in 1 .. Len(t), i < j, t[i].tag = t[j].tag PROVE FALSE
    BY <1>3 DEF One
  <2>1. f[i] \in 1 .. Len(s) /\ f[j] \in 1 .. Len(s) /\ f[i] < f[j] /\ s[f[i]].tag = s[f[j]].tag
    BY <1>1 DEF Picks
  <2> QED  BY <1>3, <1>5, <2>1 DEF One
<1> QED  BY <1>2, <1>4, <1>5 DEF t

\* The nodes with these tags, and the others
LEMMA TaggedThose ==
    ASSUME NEW R, NEW s \in Seq(R), NEW T
    PROVE  /\ Tagged(s, T) \in Seq(R) /\ (One(s) => One(Tagged(s, T)))
           /\ \A x : x \in Range(Tagged(s, T)) <=> x \in Range(s) /\ x.tag \in T
           /\ Untagged(s, T) \in Seq(R) /\ (One(s) => One(Untagged(s, T)))
           /\ \A x : x \in Range(Untagged(s, T)) <=> x \in Range(s) /\ x.tag \notin T
<1> DEFINE P == {x \in Range(s) : x.tag \in T}
           Q == {x \in Range(s) : x.tag \notin T}
<1>1. Tagged(s, T) = Only(s, P) /\ Untagged(s, T) = Only(s, Q)
  BY DEF Tagged, Untagged
<1>2. /\ \A x : x \in P <=> x \in Range(s) /\ x.tag \in T
      /\ \A x : x \in Q <=> x \in Range(s) /\ x.tag \notin T
  OBVIOUS
<1> HIDE DEF P, Q
<1>3. /\ Only(s, P) \in Seq(R) /\ (One(s) => One(Only(s, P)))
      /\ \A x : x \in Range(Only(s, P)) <=> x \in Range(s) /\ x \in P
  BY Filtered
<1>4. /\ Only(s, Q) \in Seq(R) /\ (One(s) => One(Only(s, Q)))
      /\ \A x : x \in Range(Only(s, Q)) <=> x \in Range(s) /\ x \in Q
  BY Filtered
<1> QED  BY <1>1, <1>2, <1>3, <1>4

\* Of a list: the tags are those of its nodes, and a tag names one node
LEMMA TagsOf ==
    ASSUME NEW R, NEW s \in Seq(R)
    PROVE  /\ \A t : t \in Tags(s) <=> \E x \in Range(s) : x.tag = t
           /\ \A x \in Range(s) : x \in R /\ x.tag \in Tags(s) /\ \E i \in 1 .. Len(s) : s[i] = x
           /\ \A i \in 1 .. Len(s) : s[i] \in Range(s)
           /\ One(s) => \A x, y \in Range(s) : x.tag = y.tag => x = y
           /\ IsFiniteSet(Tags(s))
<1>1. DOMAIN s = 1 .. Len(s) /\ Len(s) \in Nat /\ \A i \in 1 .. Len(s) : s[i] \in R
  OBVIOUS
<1>2. \A t : t \in Tags(s) <=> \E x \in Range(s) : x.tag = t
  BY <1>1 DEF Tags, Range
<1>3. \A x \in Range(s) : x \in R /\ x.tag \in Tags(s) /\ \E i \in 1 .. Len(s) : s[i] = x
  BY <1>1 DEF Tags, Range
<1>4. \A i \in 1 .. Len(s) : s[i] \in Range(s)
  BY <1>1 DEF Range
<1>5. One(s) => \A x, y \in Range(s) : x.tag = y.tag => x = y
  BY <1>1, <1>3 DEF One
<1>6. IsFiniteSet(Tags(s))
  <2> DEFINE f == [i \in 1 .. Len(s) |-> s[i].tag]
  <2>1. f \in Surjection(1 .. Len(s), Tags(s))
    BY <1>1 DEF Surjection, Tags
  <2>2. IsFiniteSet(1 .. Len(s))
    BY <1>1, FS_Interval
  <2> HIDE DEF f
  <2> QED  BY <2>1, <2>2, FS_Surjection
<1> QED  BY <1>2, <1>3, <1>4, <1>5, <1>6

\* A protected name gets a number nobody has
LEMMA NumberIsFree ==
    ASSUME NEW protected, IsFiniteSet(protected), NEW n
    PROVE  LET k == CHOOSE k \in 1 .. Cardinality(protected) + 1 :
                       /\ <<n, k>> \notin protected
                       /\ \A m \in 1 .. k - 1 : <<n, m>> \in protected
           IN k \in Nat \ {0} /\ <<n, k>> \notin protected
<1> DEFINE c == Cardinality(protected)
           Spare == {k \in 1 .. c + 1 : <<n, k>> \notin protected}
<1>1. c \in Nat
  BY FS_CardinalityType
<1>2. Spare # {}
  <2> SUFFICES ASSUME \A k \in 1 .. c + 1 : <<n, k>> \in protected PROVE FALSE
    OBVIOUS
  <2> DEFINE f == [k \in 1 .. c + 1 |-> <<n, k>>]
  <2>1. f \in Injection(1 .. c + 1, protected)
    BY DEF Injection, IsInjective
  <2>2. Cardinality(1 .. c + 1) = c + 1
    BY <1>1, FS_Interval
  <2> HIDE DEF f
  <2>3. Cardinality(1 .. c + 1) <= c
    BY <2>1, FS_Injection
  <2> QED  BY <1>1, <2>2, <2>3
<1>3. Spare \subseteq Nat
  BY <1>1
<1>4. PICK s \in Spare : \A m \in Spare : s <= m
  BY <1>2, <1>3, Least
<1>5. s \in 1 .. c + 1 /\ <<n, s>> \notin protected /\ \A m \in 1 .. s - 1 : <<n, m>> \in protected
  BY <1>1, <1>4
<1> HIDE DEF c
<1> QED  BY <1>1, <1>5 DEF c

\* x comes before y in the list
Sooner(s, x, y) == \E i, j \in DOMAIN s : i < j /\ s[i] = x /\ s[j] = y

\* What Only leaves is in its order
LEMMA OnlySooner ==
    ASSUME NEW R, NEW s \in Seq(R), NEW T
    PROVE  LET t == Only(s, T)
           IN \A x, y \in Range(t) : Sooner(t, x, y) <=> Sooner(s, x, y)
<1> DEFINE t == Only(s, T)
<1>1. PICK f : Picks(s, T, t, f)
  BY OnlyPlaces
<1>2. t \in Seq(R)
  BY OnlyThose
<1> HIDE DEF t
<1>3. DOMAIN t = 1 .. Len(t) /\ DOMAIN s = 1 .. Len(s) /\ Len(t) \in Nat /\ Len(s) \in Nat
  BY <1>2
<1>4. \A k \in 1 .. Len(t) : f[k] \in 1 .. Len(s) /\ t[k] = s[f[k]] /\ s[f[k]] \in T
  BY <1>1 DEF Picks
<1>5. ASSUME NEW x \in Range(t), NEW y \in Range(t), Sooner(t, x, y) PROVE Sooner(s, x, y)
  <2>1. PICK k \in 1 .. Len(t), l \in 1 .. Len(t) : k < l /\ t[k] = x /\ t[l] = y
    BY <1>3, <1>5 DEF Sooner
  <2>2. f[k] < f[l]
    BY <1>1, <2>1 DEF Picks
  <2> QED  BY <1>3, <1>4, <2>1, <2>2 DEF Sooner
<1>6. ASSUME NEW x \in Range(t), NEW y \in Range(t), Sooner(s, x, y) PROVE Sooner(t, x, y)
  <2>1. PICK i \in 1 .. Len(s), j \in 1 .. Len(s) : i < j /\ s[i] = x /\ s[j] = y
    BY <1>3, <1>6 DEF Sooner
  <2>2. x \in T /\ y \in T
    BY <1>3, <1>4 DEF Range
  <2>3. PICK k \in 1 .. Len(t) : f[k] = i
    BY <1>1, <2>1, <2>2 DEF Picks
  <2>4. PICK l \in 1 .. Len(t) : f[l] = j
    BY <1>1, <2>1, <2>2 DEF Picks
  <2>5. l < k => f[l] < f[k]
    BY <1>1 DEF Picks
  <2>6. k < l
    BY <1>3, <2>1, <2>3, <2>4, <2>5
  <2>7. t[k] = x /\ t[l] = y
    BY <1>4, <2>1, <2>3, <2>4
  <2> QED  BY <1>3, <2>6, <2>7 DEF Sooner
<1> QED  BY <1>5, <1>6 DEF t

\* Only looks at the members of the list
LEMMA SameOnly ==
    ASSUME NEW s, NEW T, NEW U, \A x \in Range(s) : x \in T <=> x \in U
    PROVE  Only(s, T) = Only(s, U)
<1>1. {i \in DOMAIN s : s[i] \in T} = {i \in DOMAIN s : s[i] \in U}
  BY DEF Range
<1> QED  BY <1>1 DEF Only

\* All of them
LEMMA AllOnly ==
    ASSUME NEW R, NEW s \in Seq(R), NEW T, Range(s) \subseteq T
    PROVE  Only(s, T) = s
<1> DEFINE n == Len(s)
           P == {i \in DOMAIN s : s[i] \in T}
           c == Cardinality(P)
<1>1. DOMAIN s = 1 .. n /\ n \in Nat
  OBVIOUS
<1>2. \A i : i \in P <=> i \in 1 .. n
  BY <1>1 DEF Range
<1>3. P = 1 .. n
  BY <1>2
<1>4. c = n
  <2>1. Cardinality(1 .. n) = n
    BY <1>1, FS_Interval
  <2> QED  BY <1>3, <2>1
<1>5. ASSUME NEW i \in 1 .. n PROVE Place(P, i) = i
  <2>1. {j \in P : j <= i} = 1 .. i /\ i \in Nat
    BY <1>1, <1>2
  <2>2. Cardinality(1 .. i) = i
    BY <2>1, FS_Interval
  <2> QED  BY <2>1, <2>2 DEF Place
<1>6. Only(s, T) = [k \in 1 .. c |-> s[CHOOSE i \in P : Place(P, i) = k]]
  BY DEF Only, At
<1> HIDE DEF P, c
<1>7. ASSUME NEW k \in 1 .. n PROVE (CHOOSE i \in P : Place(P, i) = k) = k
  <2>1. k \in P /\ Place(P, k) = k
    BY <1>2, <1>5
  <2>2. \A i \in P : Place(P, i) = k => i = k
    BY <1>2, <1>5
  <2> QED  BY <2>1, <2>2
<1>8. [k \in 1 .. n |-> s[CHOOSE i \in P : Place(P, i) = k]] = [k \in 1 .. n |-> s[k]]
  <2> DEFINE g(k) == CHOOSE i \in P : Place(P, i) = k
  <2>1. \A k \in 1 .. n : g(k) = k
    BY <1>7
  <2> HIDE DEF g
  <2>2. [k \in 1 .. n |-> s[g(k)]] = [k \in 1 .. n |-> s[k]]
    BY <2>1
  <2> QED  BY <2>2 DEF g
<1>9. s = [k \in 1 .. n |-> s[k]]
  BY <1>1
<1> QED  BY <1>4, <1>6, <1>8, <1>9

\* Choosing nodes by their tags leaves their order
LEMMA TaggedSooner ==
    ASSUME NEW R, NEW s \in Seq(R), NEW T
    PROVE  /\ \A x, y \in Range(Tagged(s, T)) : Sooner(Tagged(s, T), x, y) <=> Sooner(s, x, y)
           /\ \A x, y \in Range(Untagged(s, T)) : Sooner(Untagged(s, T), x, y) <=> Sooner(s, x, y)
BY OnlySooner DEF Tagged, Untagged

\* What a merge returns, and the same without a restart
Result(ok, out, c, tags, restart) ==
    [ok |-> ok, outbounds |-> out, chosen |-> c, tags |-> tags, restart |-> restart]
Full(m) == m = Result(m.ok, m.outbounds, m.chosen, m.tags, m.restart)
Calm(m) == [m EXCEPT !.restart = FALSE]

\* The fields of a result
LEMMA ResultIs ==
    ASSUME NEW ok, NEW out, NEW c, NEW tags, NEW restart, NEW m, m = Result(ok, out, c, tags, restart)
    PROVE  m.ok = ok /\ m.outbounds = out /\ m.chosen = c /\ m.tags = tags /\ m.restart = restart /\ Full(m)
<1>1. m.ok = ok /\ m.outbounds = out /\ m.chosen = c /\ m.tags = tags /\ m.restart = restart
  BY DEF Result
<1> QED  BY <1>1 DEF Full

\* A result without its restart
LEMMA ResultCalm ==
    ASSUME NEW m, Full(m)
    PROVE  Calm(m) = Result(m.ok, m.outbounds, m.chosen, m.tags, FALSE)
<1>1. PICK no : no = FALSE
  OBVIOUS
<1>2. PICK k, o, h, t, q : /\ m = Result(k, o, h, t, q)
                           /\ k = m.ok /\ o = m.outbounds /\ h = m.chosen /\ t = m.tags
  BY Zenon DEF Full
<1>3. [m EXCEPT !.restart = no] = Result(k, o, h, t, no)
  BY <1>2 DEF Result
<1>4. [m EXCEPT !.restart = no] = Calm(m)
  BY <1>1, Zenon DEF Calm
<1> QED  BY <1>1, <1>2, <1>3, <1>4, Zenon

-----------------------------------------------------------------------------
(* Names and ranks *)

\* What comes from a provider, before and after it has its tags
Judgeds == [name : Names, content : Contents, origin : Urls \cup {Hand}, fits : BOOLEAN]
Nameds == [tag : AllTags, content : Contents, origin : Urls \cup {Hand}, fits : BOOLEAN]
Distinct(s) == \A i, j \in DOMAIN s : s[i].name = s[j].name => i = j
Origins(s, u) == \A i \in DOMAIN s : s[i].origin = u

\* The names of a merge: none that is protected, none twice (suffixTaken)
LEMMA NamedApart ==
    ASSUME NEW nodes \in Seq(Judgeds), Distinct(nodes), NEW protected, IsFiniteSet(protected)
    PROVE  LET named == SuffixTaken(nodes, protected) IN
           /\ named \in Seq(Nameds) /\ Len(named) = Len(nodes) /\ One(named)
           /\ \A i \in 1 .. Len(nodes) :
                /\ named[i].tag \notin protected
                /\ named[i].content = nodes[i].content /\ named[i].origin = nodes[i].origin
                /\ named[i].fits = nodes[i].fits /\ named[i].tag[1] = nodes[i].name
<1> DEFINE Number(n) == CHOOSE k \in 1 .. Cardinality(protected) + 1 :
                           /\ <<n, k>> \notin protected
                           /\ \A m \in 1 .. k - 1 : <<n, m>> \in protected
           s == SuffixTaken(nodes, protected)
           L == Len(nodes)
<1>1. DOMAIN nodes = 1 .. L /\ L \in Nat /\ \A i \in 1 .. L : nodes[i] \in Judgeds
  OBVIOUS
<1>2. s = [i \in 1 .. L |-> [tag |-> <<nodes[i].name, Number(nodes[i].name)>>, content |-> nodes[i].content,
                             origin |-> nodes[i].origin, fits |-> nodes[i].fits]]
  BY <1>1 DEF SuffixTaken
<1>3. \A n : Number(n) \in Nat \ {0} /\ <<n, Number(n)>> \notin protected
  BY NumberIsFree
<1> HIDE DEF Number, s, L
<1>4. ASSUME NEW i \in 1 .. L
      PROVE  /\ s[i] \in Nameds /\ s[i].tag = <<nodes[i].name, Number(nodes[i].name)>>
             /\ s[i].content = nodes[i].content /\ s[i].origin = nodes[i].origin /\ s[i].fits = nodes[i].fits
  <2>1. s[i] = [tag |-> <<nodes[i].name, Number(nodes[i].name)>>, content |-> nodes[i].content,
                origin |-> nodes[i].origin, fits |-> nodes[i].fits]
    BY <1>2
  <2>2. nodes[i] \in Judgeds /\ Number(nodes[i].name) \in Nat \ {0}
    BY <1>1, <1>3
  <2>3. <<nodes[i].name, Number(nodes[i].name)>> \in AllTags
    BY <2>2 DEF AllTags, Judgeds
  <2>4. nodes[i].content \in Contents /\ nodes[i].origin \in Urls \cup {Hand} /\ nodes[i].fits \in BOOLEAN
    BY <2>2 DEF Judgeds
  <2>5. s[i] \in Nameds
    BY <2>1, <2>3, <2>4 DEF Nameds
  <2> QED  BY <2>1, <2>5
<1>5. s \in Seq(Nameds) /\ Len(s) = L /\ DOMAIN s = 1 .. L
  <2>1. s = [i \in 1 .. L |-> s[i]]
    BY <1>2
  <2> QED  BY <1>1, <1>4, <2>1
<1>6. One(s)
  <2> SUFFICES ASSUME NEW i \in 1 .. L, NEW j \in 1 .. L, s[i].tag = s[j].tag PROVE i = j
    BY <1>5 DEF One
  <2>1. nodes[i].name = nodes[j].name
    BY <1>4
  <2> QED  BY <1>1, <2>1 DEF Distinct
<1>7. ASSUME NEW i \in 1 .. L PROVE s[i].tag \notin protected /\ s[i].tag[1] = nodes[i].name
  <2>1. <<nodes[i].name, Number(nodes[i].name)>> \notin protected
    BY <1>3
  <2>2. s[i].tag = <<nodes[i].name, Number(nodes[i].name)>>
    BY <1>4
  <2>3. s[i].tag \notin protected
    BY <2>1, <2>2
  <2> QED  BY <2>2, <2>3
<1>8. s = SuffixTaken(nodes, protected) /\ L = Len(nodes)
  BY DEF s, L
<1> QED  BY <1>4, <1>5, <1>6, <1>7, <1>8

-----------------------------------------------------------------------------
\* As for SuffixTaken, but renaming nothing
LEMMA RankOf ==
    ASSUME NEW R, NEW s \in Seq(R), NEW x
    PROVE  LET P == {j \in 1 .. Len(s) : s[j].content = x} IN
           /\ P \in SUBSET (1 .. Len(s))
           /\ \A i \in P : Rank(s, i) = Place(P, i)
<1> DEFINE P == {j \in 1 .. Len(s) : s[j].content = x}
<1>1. Len(s) \in Nat
  OBVIOUS
<1>2. ASSUME NEW i \in P PROVE Rank(s, i) = Place(P, i)
  <2>1. i \in 1 .. Len(s) /\ s[i].content = x
    OBVIOUS
  <2>2. {j \in 1 .. i : s[j].content = s[i].content} = {j \in P : j <= i}
    BY <1>1, <2>1
  <2> QED  BY <2>2 DEF Rank, Place
<1> QED  BY <1>2

\* Rank tells nodes of the same content apart, and no rank is left out
LEMMA Ranks ==
    ASSUME NEW R, NEW s \in Seq(R)
    PROVE  /\ \A i, j \in 1 .. Len(s) : s[i].content = s[j].content /\ i < j => Rank(s, i) < Rank(s, j)
           /\ \A i \in 1 .. Len(s) : Rank(s, i) \in Nat \ {0}
           /\ \A i \in 1 .. Len(s), r \in Nat \ {0} : r <= Rank(s, i) =>
                 \E j \in 1 .. Len(s) : j <= i /\ s[j].content = s[i].content /\ Rank(s, j) = r
<1> DEFINE P(x) == {j \in 1 .. Len(s) : s[j].content = x}
<1>1. Len(s) \in Nat
  OBVIOUS
<1>2. \A x : /\ P(x) \in SUBSET (1 .. Len(s))
             /\ \A i \in P(x) : Rank(s, i) = Place(P(x), i)
  BY RankOf
<1>3. \A x : /\ Cardinality(P(x)) \in Nat
             /\ \A i \in P(x) : Place(P(x), i) \in 1 .. Cardinality(P(x))
             /\ \A i, j \in P(x) : i < j => Place(P(x), i) < Place(P(x), j)
             /\ \A k \in 1 .. Cardinality(P(x)) : \E i \in P(x) : Place(P(x), i) = k
  BY <1>1, <1>2, Places
<1>4. \A i \in 1 .. Len(s) : i \in P(s[i].content)
  OBVIOUS
<1>5. \A x : \A i \in P(x) : i \in 1 .. Len(s) /\ s[i].content = x
  OBVIOUS
<1> HIDE DEF P
<1>6. ASSUME NEW i \in 1 .. Len(s), NEW j \in 1 .. Len(s), s[i].content = s[j].content, i < j
      PROVE  Rank(s, i) < Rank(s, j)
  <2>1. i \in P(s[i].content) /\ j \in P(s[i].content)
    BY <1>4, <1>6
  <2> QED  BY <1>2, <1>3, <1>6, <2>1
<1>7. ASSUME NEW i \in 1 .. Len(s) PROVE Rank(s, i) \in Nat \ {0}
  <2>1. Rank(s, i) \in 1 .. Cardinality(P(s[i].content)) /\ Cardinality(P(s[i].content)) \in Nat
    BY <1>2, <1>3, <1>4
  <2> QED  BY <2>1
<1>8. ASSUME NEW i \in 1 .. Len(s), NEW r \in Nat \ {0}, r <= Rank(s, i)
      PROVE  \E j \in 1 .. Len(s) : j <= i /\ s[j].content = s[i].content /\ Rank(s, j) = r
  <2> DEFINE Q == P(s[i].content)
  <2>1. Rank(s, i) = Place(Q, i) /\ Place(Q, i) \in 1 .. Cardinality(Q) /\ i \in Q /\ Cardinality(Q) \in Nat
    BY <1>2, <1>3, <1>4
  <2>2. r \in 1 .. Cardinality(Q)
    BY <1>8, <2>1
  <2>3. PICK j \in Q : Place(Q, j) = r
    BY <1>3, <2>2
  <2>4. j \in 1 .. Len(s) /\ s[j].content = s[i].content /\ Rank(s, j) = r
    BY <1>2, <1>5, <2>3
  <2>5. i < j => Place(Q, i) < Place(Q, j)
    BY <1>3, <2>1, <2>3
  <2>6. j <= i
    BY <1>1, <1>8, <2>1, <2>3, <2>4, <2>5
  <2> QED  BY <2>4, <2>6
<1> QED  BY <1>6, <1>7, <1>8

-----------------------------------------------------------------------------
(* Nodes that reappear under a new name *)

\* The pairs of PairRenamed by their positions
Rest(s, taken) == DOMAIN s \ taken
OfServer(s, rest, srv) == {i \in rest : s[i].content.server = srv}
MovedPairs(dropped, appearing) ==
    LET same  == SameContent(dropped, appearing)
        restD == Rest(dropped, {p[1] : p \in same})
        restA == Rest(appearing, {p[2] : p \in same})
    IN {p \in restD \X restA :
          /\ OfServer(dropped, restD, dropped[p[1]].content.server) = {p[1]}
          /\ OfServer(appearing, restA, dropped[p[1]].content.server) = {p[2]}}
Pairing(dropped, appearing) == SameContent(dropped, appearing) \cup MovedPairs(dropped, appearing)

\* pairRenamed pairs positions; its pairs of tags come from them
LEMMA PairsAre ==
    ASSUME NEW d, NEW a
    PROVE  PairRenamed(d, a) = TagPairs(Pairing(d, a), d, a)
BY DEF PairRenamed, Pairing, MovedPairs, OfServer, Rest

\* A position is in one pair, on both sides
LEMMA PairsApart ==
    ASSUME NEW R, NEW d \in Seq(R), NEW Q, NEW a \in Seq(Q)
    PROVE  /\ \A p \in Pairing(d, a) : p[1] \in 1 .. Len(d) /\ p[2] \in 1 .. Len(a)
           /\ \A p, q \in Pairing(d, a) : p[1] = q[1] <=> p[2] = q[2]
<1> DEFINE same == SameContent(d, a)
           restD == Rest(d, {p[1] : p \in same})
           restA == Rest(a, {p[2] : p \in same})
           moved == MovedPairs(d, a)
<1>1. /\ DOMAIN d = 1 .. Len(d) /\ DOMAIN a = 1 .. Len(a) /\ Len(d) \in Nat /\ Len(a) \in Nat
  OBVIOUS
<1>2. \A p \in same : /\ p[1] \in 1 .. Len(d) /\ p[2] \in 1 .. Len(a)
                      /\ d[p[1]].content = a[p[2]].content /\ Rank(d, p[1]) = Rank(a, p[2])
  BY <1>1 DEF SameContent
<1>3. \A p \in moved : /\ p[1] \in restD /\ p[2] \in restA
                       /\ OfServer(d, restD, d[p[1]].content.server) = {p[1]}
                       /\ OfServer(a, restA, d[p[1]].content.server) = {p[2]}
  BY DEF MovedPairs
<1>4. /\ \A i \in restD : i \in 1 .. Len(d) /\ \A p \in same : p[1] # i
      /\ \A j \in restA : j \in 1 .. Len(a) /\ \A p \in same : p[2] # j
  BY <1>1 DEF Rest
<1> HIDE DEF same, restD, restA, moved
<1>5. ASSUME NEW p \in same, NEW q \in same PROVE p[1] = q[1] <=> p[2] = q[2]
  <2>1. ASSUME p[1] = q[1] PROVE p[2] = q[2]
    <3>1. a[p[2]].content = a[q[2]].content /\ Rank(a, p[2]) = Rank(a, q[2])
      BY <1>2, <2>1
    <3>2. Rank(a, p[2]) \in Nat /\ Rank(a, q[2]) \in Nat
      BY <1>2, Ranks
    <3>3. /\ p[2] < q[2] => Rank(a, p[2]) < Rank(a, q[2])
          /\ q[2] < p[2] => Rank(a, q[2]) < Rank(a, p[2])
      BY <1>2, <3>1, Ranks
    <3>4. ~(p[2] < q[2]) /\ ~(q[2] < p[2])
      BY <3>1, <3>2, <3>3
    <3> QED  BY <1>1, <1>2, <3>4
  <2>2. ASSUME p[2] = q[2] PROVE p[1] = q[1]
    <3>1. d[p[1]].content = d[q[1]].content /\ Rank(d, p[1]) = Rank(d, q[1])
      BY <1>2, <2>2
    <3>2. Rank(d, p[1]) \in Nat /\ Rank(d, q[1]) \in Nat
      BY <1>2, Ranks
    <3>3. /\ p[1] < q[1] => Rank(d, p[1]) < Rank(d, q[1])
          /\ q[1] < p[1] => Rank(d, q[1]) < Rank(d, p[1])
      BY <1>2, <3>1, Ranks
    <3>4. ~(p[1] < q[1]) /\ ~(q[1] < p[1])
      BY <3>1, <3>2, <3>3
    <3> QED  BY <1>1, <1>2, <3>4
  <2> QED  BY <2>1, <2>2
<1>6. ASSUME NEW p \in moved, NEW q \in moved PROVE p[1] = q[1] <=> p[2] = q[2]
  <2>1. ASSUME p[1] = q[1] PROVE p[2] = q[2]
    <3>1. {p[2]} = {q[2]}
      BY <1>3, <2>1
    <3> QED  BY <3>1
  <2>2. ASSUME p[2] = q[2] PROVE p[1] = q[1]
    <3>1. a[p[2]].content.server = d[p[1]].content.server /\ a[q[2]].content.server = d[q[1]].content.server
      <4>1. p[2] \in OfServer(a, restA, d[p[1]].content.server) /\ q[2] \in OfServer(a, restA, d[q[1]].content.server)
        BY <1>3
      <4> QED  BY <4>1 DEF OfServer
    <3>2. d[p[1]].content.server = d[q[1]].content.server
      BY <2>2, <3>1
    <3>3. {p[1]} = {q[1]}
      BY <1>3, <3>2
    <3> QED  BY <3>3
  <2> QED  BY <2>1, <2>2
<1>7. Pairing(d, a) = same \cup moved
  BY DEF Pairing, same, moved
<1>8. \A p \in same, q \in moved : p[1] # q[1] /\ p[2] # q[2]
  BY <1>3, <1>4
<1> QED  BY <1>2, <1>3, <1>4, <1>5, <1>6, <1>7, <1>8

\* A tag has one new name, and no two tags have the same
LEMMA RenamesApart ==
    ASSUME NEW R, NEW d \in Seq(R), NEW Q, NEW a \in Seq(Q), One(d), One(a)
    PROVE  LET r == PairRenamed(d, a) IN
           /\ \A p \in r : p[1] \in Tags(d) /\ p[2] \in Tags(a)
           /\ \A p, q \in r : p[1] = q[1] <=> p[2] = q[2]
<1> DEFINE r == PairRenamed(d, a)
           P == Pairing(d, a)
<1>1. DOMAIN d = 1 .. Len(d) /\ DOMAIN a = 1 .. Len(a)
  OBVIOUS
<1>2. /\ \A p \in P : p[1] \in 1 .. Len(d) /\ p[2] \in 1 .. Len(a)
      /\ \A p, q \in P : p[1] = q[1] <=> p[2] = q[2]
  BY PairsApart
<1>3. \A p \in r : \E i \in P : p[1] = d[i[1]].tag /\ p[2] = a[i[2]].tag
  BY PairsAre DEF TagPairs
<1> HIDE DEF r, P
<1>4. \A p \in r : p[1] \in Tags(d) /\ p[2] \in Tags(a)
  BY <1>1, <1>2, <1>3 DEF Tags
<1>5. ASSUME NEW p \in r, NEW q \in r PROVE p[1] = q[1] <=> p[2] = q[2]
  <2>1. PICK i \in P : p[1] = d[i[1]].tag /\ p[2] = a[i[2]].tag
    BY <1>3
  <2>2. PICK j \in P : q[1] = d[j[1]].tag /\ q[2] = a[j[2]].tag
    BY <1>3
  <2>3. p[1] = q[1] <=> i[1] = j[1]
    BY <1>1, <1>2, <2>1, <2>2 DEF One
  <2>4. p[2] = q[2] <=> i[2] = j[2]
    BY <1>1, <1>2, <2>1, <2>2 DEF One
  <2> QED  BY <1>2, <2>3, <2>4
<1> QED  BY <1>4, <1>5 DEF r

\* A tag with a new name has that one, the others keep theirs
LEMMA RenamedIs ==
    ASSUME NEW r, \A p, q \in r : p[1] = q[1] <=> p[2] = q[2]
    PROVE  /\ \A p \in r : Renamed(r, p[1]) = p[2]
           /\ \A t : (\A p \in r : p[1] # t) => Renamed(r, t) = t
<1>1. ASSUME NEW p \in r PROVE Renamed(r, p[1]) = p[2]
  <2> DEFINE q == CHOOSE q \in r : q[1] = p[1]
  <2>1. q \in r /\ q[1] = p[1]
    OBVIOUS
  <2>2. Renamed(r, p[1]) = q[2]
    BY DEF Renamed
  <2> HIDE DEF q
  <2> QED  BY <2>1, <2>2
<1> QED  BY <1>1 DEF Renamed

-----------------------------------------------------------------------------
(* Replacing and adding *)

Bare(n) == [tag |-> n.tag, content |-> n.content, origin |-> n.origin]

\* Two lists that share no tag, one after the other
LEMMA Concatenated ==
    ASSUME NEW R, NEW a \in Seq(R), NEW b \in Seq(R)
    PROVE  /\ a \o b \in Seq(R)
           /\ \A x : x \in Range(a \o b) <=> x \in Range(a) \/ x \in Range(b)
           /\ One(a) /\ One(b) /\ (\A x \in Range(a), y \in Range(b) : x.tag # y.tag) => One(a \o b)
<1> DEFINE s == a \o b
<1>1. /\ s \in Seq(R) /\ Len(s) = Len(a) + Len(b) /\ Len(a) \in Nat /\ Len(b) \in Nat
      /\ DOMAIN s = 1 .. Len(a) + Len(b) /\ DOMAIN a = 1 .. Len(a) /\ DOMAIN b = 1 .. Len(b)
      /\ \A i \in 1 .. Len(a) : s[i] = a[i]
      /\ \A i \in 1 .. Len(b) : s[Len(a) + i] = b[i]
  OBVIOUS
<1> HIDE DEF s
<1>2. \A i \in DOMAIN s : i \in 1 .. Len(a) \/ (i - Len(a) \in 1 .. Len(b) /\ Len(a) + (i - Len(a)) = i)
  BY <1>1
<1>3. ASSUME NEW x PROVE x \in Range(s) <=> x \in Range(a) \/ x \in Range(b)
  <2>1. ASSUME NEW i \in DOMAIN s, x = s[i] PROVE x \in Range(a) \/ x \in Range(b)
    <3>1. CASE i \in 1 .. Len(a)
      BY <1>1, <2>1, <3>1 DEF Range
    <3>2. CASE i - Len(a) \in 1 .. Len(b) /\ Len(a) + (i - Len(a)) = i
      <4>1. x = b[i - Len(a)]
        BY <1>1, <2>1, <3>2
      <4> QED  BY <1>1, <3>2, <4>1 DEF Range
    <3> QED  BY <1>2, <2>1, <3>1, <3>2
  <2>2. ASSUME NEW i \in 1 .. Len(a), x = a[i] PROVE x \in Range(s)
    <3>1. i \in DOMAIN s /\ s[i] = x
      BY <1>1, <2>2
    <3> QED  BY <3>1 DEF Range
  <2>3. ASSUME NEW i \in 1 .. Len(b), x = b[i] PROVE x \in Range(s)
    <3>1. Len(a) + i \in DOMAIN s /\ s[Len(a) + i] = x
      BY <1>1, <2>3
    <3> QED  BY <3>1 DEF Range
  <2> QED  BY <1>1, <2>1, <2>2, <2>3 DEF Range
<1>4. ASSUME One(a), One(b), \A x \in Range(a), y \in Range(b) : x.tag # y.tag
      PROVE  One(s)
  <2>1. \A i \in 1 .. Len(a), j \in 1 .. Len(b) : a[i].tag # b[j].tag
    BY <1>1, <1>4 DEF Range
  <2> SUFFICES ASSUME NEW i \in DOMAIN s, NEW j \in DOMAIN s, s[i].tag = s[j].tag PROVE i = j
    BY DEF One
  <2>2. CASE i \in 1 .. Len(a) /\ j \in 1 .. Len(a)
    BY <1>1, <1>4, <2>2 DEF One
  <2>3. CASE i \in 1 .. Len(a) /\ (j - Len(a) \in 1 .. Len(b) /\ Len(a) + (j - Len(a)) = j)
    <3>1. s[i] = a[i] /\ s[j] = b[j - Len(a)]
      BY <1>1, <2>3
    <3> QED  BY <2>1, <2>3, <3>1
  <2>4. CASE (i - Len(a) \in 1 .. Len(b) /\ Len(a) + (i - Len(a)) = i) /\ j \in 1 .. Len(a)
    <3>1. s[j] = a[j] /\ s[i] = b[i - Len(a)]
      BY <1>1, <2>4
    <3> QED  BY <2>1, <2>4, <3>1
  <2>5. CASE (i - Len(a) \in 1 .. Len(b) /\ Len(a) + (i - Len(a)) = i)
             /\ (j - Len(a) \in 1 .. Len(b) /\ Len(a) + (j - Len(a)) = j)
    <3>1. s[i] = b[i - Len(a)] /\ s[j] = b[j - Len(a)]
      BY <1>1, <2>5
    <3>2. i - Len(a) = j - Len(a)
      BY <1>1, <1>4, <2>5, <3>1 DEF One
    <3> QED  BY <1>1, <3>2
  <2> QED  BY <1>2, <2>2, <2>3, <2>4, <2>5
<1> QED  BY <1>1, <1>3, <1>4 DEF s

\* A node as the config has it: no fits
LEMMA BareNode ==
    ASSUME NEW n \in Nameds
    PROVE  Bare(n) \in NodeIn /\ Bare(n).tag = n.tag /\ Bare(n).content = n.content /\ Bare(n).origin = n.origin
BY DEF Bare, Nameds, NodeIn

\* Each position that replaces its node by the incoming one of its tag
LEMMA Replaced ==
    ASSUME NEW x \in NodeIn, NEW incoming \in Seq(Nameds), One(incoming), x.tag \in Tags(incoming)
    PROVE  LET n == CHOOSE n \in Range(incoming) : n.tag = x.tag
           IN n \in Range(incoming) /\ n.tag = x.tag
              /\ [x EXCEPT !.content = n.content, !.origin = n.origin] = Bare(n)
<1> DEFINE n == CHOOSE n \in Range(incoming) : n.tag = x.tag
<1>1. n \in Range(incoming) /\ n.tag = x.tag
  <2>1. \E y \in Range(incoming) : y.tag = x.tag
    BY TagsOf
  <2> QED  BY <2>1
<1> HIDE DEF n
<1>2. n \in Nameds
  BY <1>1, TagsOf
<1>3. [x EXCEPT !.content = n.content, !.origin = n.origin] = Bare(n)
  <2> DEFINE y == [x EXCEPT !.content = n.content, !.origin = n.origin]
  <2>1. y \in NodeIn /\ y.tag = x.tag /\ y.content = n.content /\ y.origin = n.origin
    BY <1>2 DEF NodeIn, Nameds
  <2> HIDE DEF y
  <2>2. y = Bare(n)
    BY <1>1, <2>1 DEF NodeIn, Bare
  <2> QED  BY <2>2 DEF y
<1> QED  BY <1>1, <1>3 DEF n

\* upsertOutbounds: the config has the incoming nodes, and its others as before
LEMMA Upserted ==
    ASSUME NEW out \in Seq(NodeIn), One(out), NEW incoming \in Seq(Nameds), One(incoming)
    PROVE  /\ Upsert(out, incoming) \in Seq(NodeIn) /\ One(Upsert(out, incoming))
           /\ \A x : x \in Range(Upsert(out, incoming)) <=>
                        \/ x \in Range(out) /\ x.tag \notin Tags(incoming)
                        \/ \E n \in Range(incoming) : x = Bare(n)
<1> DEFINE New(i) == CHOOSE n \in Range(incoming) : n.tag = out[i].tag
           a == [i \in DOMAIN out |->
                   IF out[i].tag \in Tags(incoming)
                   THEN [out[i] EXCEPT !.content = New(i).content, !.origin = New(i).origin] ELSE out[i]]
           fresh == Untagged(incoming, Tags(out))
           b == [i \in DOMAIN fresh |-> [tag |-> fresh[i].tag, content |-> fresh[i].content, origin |-> fresh[i].origin]]
<1>1. Upsert(out, incoming) = a \o b
  BY DEF Upsert
<1>2. DOMAIN out = 1 .. Len(out) /\ Len(out) \in Nat /\ \A i \in 1 .. Len(out) : out[i] \in NodeIn
  OBVIOUS
<1>3. \A i \in 1 .. Len(out) : out[i].tag \in Tags(incoming) =>
         /\ New(i) \in Range(incoming) /\ New(i).tag = out[i].tag
         /\ [out[i] EXCEPT !.content = New(i).content, !.origin = New(i).origin] = Bare(New(i))
  BY <1>2, Replaced
<1> HIDE DEF New
<1>4. ASSUME NEW i \in 1 .. Len(out)
      PROVE  /\ a[i] \in NodeIn /\ a[i].tag = out[i].tag
             /\ out[i].tag \in Tags(incoming) => a[i] = Bare(New(i)) /\ New(i) \in Range(incoming) /\ New(i).tag = out[i].tag
             /\ out[i].tag \notin Tags(incoming) => a[i] = out[i]
  <2>1. CASE out[i].tag \in Tags(incoming)
    <3>1. a[i] = Bare(New(i)) /\ New(i) \in Range(incoming) /\ New(i).tag = out[i].tag
      BY <1>2, <1>3, <2>1
    <3>2. New(i) \in Nameds
      BY <3>1, TagsOf
    <3> QED  BY <2>1, <3>1, <3>2, BareNode
  <2>2. CASE out[i].tag \notin Tags(incoming)
    BY <1>2, <2>2
  <2> QED  BY <2>1, <2>2
<1>5. a = [i \in 1 .. Len(out) |-> a[i]]
  BY <1>2
<1> HIDE DEF a
<1>6. a \in Seq(NodeIn) /\ Len(a) = Len(out) /\ DOMAIN a = 1 .. Len(out)
  BY <1>2, <1>4, <1>5
<1>7. One(a)
  <2> SUFFICES ASSUME NEW i \in 1 .. Len(out), NEW j \in 1 .. Len(out), a[i].tag = a[j].tag PROVE i = j
    BY <1>6 DEF One
  <2> QED  BY <1>2, <1>4 DEF One
<1>8. \A x : x \in Range(a) <=> \E i \in 1 .. Len(out) : x = a[i]
  BY <1>6 DEF Range
<1>9. /\ fresh \in Seq(Nameds) /\ One(fresh)
      /\ \A x : x \in Range(fresh) <=> x \in Range(incoming) /\ x.tag \notin Tags(out)
  BY TaggedThose
<1> HIDE DEF fresh
<1>10. DOMAIN fresh = 1 .. Len(fresh) /\ Len(fresh) \in Nat /\ \A i \in 1 .. Len(fresh) : fresh[i] \in Nameds
  BY <1>9
<1>11. \A i \in 1 .. Len(fresh) : b[i] = Bare(fresh[i]) /\ b[i] \in NodeIn /\ b[i].tag = fresh[i].tag
  BY <1>10, BareNode DEF Bare
<1>12. b = [i \in 1 .. Len(fresh) |-> b[i]]
  BY <1>10
<1> HIDE DEF b
<1>13. b \in Seq(NodeIn) /\ Len(b) = Len(fresh) /\ DOMAIN b = 1 .. Len(fresh)
  BY <1>10, <1>11, <1>12
<1>14. One(b)
  <2> SUFFICES ASSUME NEW i \in 1 .. Len(fresh), NEW j \in 1 .. Len(fresh), b[i].tag = b[j].tag PROVE i = j
    BY <1>13 DEF One
  <2> QED  BY <1>9, <1>10, <1>11 DEF One
<1>15. \A x : x \in Range(b) <=> \E n \in Range(fresh) : x = Bare(n)
  <2>1. \A x : x \in Range(b) <=> \E i \in 1 .. Len(fresh) : x = b[i]
    BY <1>13 DEF Range
  <2>2. \A n : n \in Range(fresh) <=> \E i \in 1 .. Len(fresh) : n = fresh[i]
    BY <1>10 DEF Range
  <2> QED  BY <1>11, <2>1, <2>2
<1>16. \A x \in Range(a), y \in Range(b) : x.tag # y.tag
  <2> SUFFICES ASSUME NEW i \in 1 .. Len(out), NEW j \in 1 .. Len(fresh) PROVE a[i].tag # b[j].tag
    <3>1. \A y : y \in Range(b) <=> \E j \in 1 .. Len(fresh) : y = b[j]
      BY <1>13 DEF Range
    <3> QED  BY <1>8, <3>1
  <2>1. a[i].tag \in Tags(out)
    BY <1>2, <1>4 DEF Tags
  <2>2. b[j].tag \notin Tags(out)
    <3>1. fresh[j] \in Range(fresh)
      BY <1>10 DEF Range
    <3> QED  BY <1>9, <1>11, <3>1
  <2> QED  BY <2>1, <2>2
<1>17. /\ a \o b \in Seq(NodeIn) /\ One(a \o b)
       /\ \A x : x \in Range(a \o b) <=> x \in Range(a) \/ x \in Range(b)
  BY <1>6, <1>7, <1>13, <1>14, <1>16, Concatenated
<1>18. ASSUME NEW x, x \in Range(a)
       PROVE  \/ x \in Range(out) /\ x.tag \notin Tags(incoming)
              \/ \E n \in Range(incoming) : x = Bare(n)
  <2>1. PICK i \in 1 .. Len(out) : x = a[i]
    BY <1>8, <1>18
  <2>2. out[i] \in Range(out)
    BY <1>2 DEF Range
  <2> QED  BY <1>4, <2>1, <2>2
<1>19. ASSUME NEW x, x \in Range(out), x.tag \notin Tags(incoming) PROVE x \in Range(a)
  <2>1. PICK i \in 1 .. Len(out) : x = out[i]
    BY <1>2, <1>19 DEF Range
  <2>2. a[i] = x
    BY <1>4, <1>19, <2>1
  <2> QED  BY <1>8, <2>2
<1>20. ASSUME NEW n \in Range(incoming) PROVE Bare(n) \in Range(a) \/ Bare(n) \in Range(b)
  <2>1. CASE n.tag \in Tags(out)
    <3>1. PICK i \in 1 .. Len(out) : out[i].tag = n.tag
      BY <1>2, <2>1 DEF Tags
    <3>2. n.tag \in Tags(incoming)
      BY TagsOf
    <3>3. a[i] = Bare(New(i)) /\ New(i) \in Range(incoming) /\ New(i).tag = n.tag
      BY <1>4, <3>1, <3>2
    <3>4. New(i) = n
      BY <3>3, TagsOf
    <3> QED  BY <1>8, <3>3, <3>4
  <2>2. CASE n.tag \notin Tags(out)
    BY <1>9, <1>15, <2>2
  <2> QED  BY <2>1, <2>2
<1>21. ASSUME NEW x PROVE x \in Range(a \o b) <=> \/ x \in Range(out) /\ x.tag \notin Tags(incoming)
                                                 \/ \E n \in Range(incoming) : x = Bare(n)
  <2>1. x \in Range(b) => \E n \in Range(incoming) : x = Bare(n)
    BY <1>9, <1>15
  <2> QED  BY <1>17, <1>18, <1>19, <1>20, <2>1
<1> QED  BY <1>1, <1>17, <1>21

\* Upsert as two parts: the nodes there were, the new ones
Upserts(out, incoming, a, b) ==
    /\ Upsert(out, incoming) = a \o b /\ a \in Seq(NodeIn) /\ Len(a) = Len(out)
    /\ b \in Seq(NodeIn) /\ Len(b) = Len(Untagged(incoming, Tags(out)))
    /\ \A i \in 1 .. Len(out) : \/ out[i].tag \notin Tags(incoming) /\ a[i] = out[i]
                                \/ \E n \in Range(incoming) : n.tag = out[i].tag /\ a[i] = Bare(n)

\* An incoming node replaces the one of its tag where that is; the others stay where they are
LEMMA UpsertPlaces ==
    ASSUME NEW out \in Seq(NodeIn), One(out), NEW incoming \in Seq(Nameds), One(incoming)
    PROVE  \E a, b : Upserts(out, incoming, a, b)
<1> DEFINE New(i) == CHOOSE n \in Range(incoming) : n.tag = out[i].tag
           a == [i \in DOMAIN out |->
                   IF out[i].tag \in Tags(incoming)
                   THEN [out[i] EXCEPT !.content = New(i).content, !.origin = New(i).origin] ELSE out[i]]
           fresh == Untagged(incoming, Tags(out))
           b == [i \in DOMAIN fresh |-> [tag |-> fresh[i].tag, content |-> fresh[i].content, origin |-> fresh[i].origin]]
<1>1. Upsert(out, incoming) = a \o b
  BY DEF Upsert
<1>2. DOMAIN out = 1 .. Len(out) /\ Len(out) \in Nat /\ \A i \in 1 .. Len(out) : out[i] \in NodeIn
  OBVIOUS
<1>3. \A i \in 1 .. Len(out) : out[i].tag \in Tags(incoming) =>
         /\ New(i) \in Range(incoming) /\ New(i).tag = out[i].tag
         /\ [out[i] EXCEPT !.content = New(i).content, !.origin = New(i).origin] = Bare(New(i))
  BY <1>2, Replaced
<1> HIDE DEF New
<1>4. ASSUME NEW i \in 1 .. Len(out)
      PROVE  /\ a[i] \in NodeIn
             /\ \/ out[i].tag \notin Tags(incoming) /\ a[i] = out[i]
                \/ \E n \in Range(incoming) : n.tag = out[i].tag /\ a[i] = Bare(n)
  <2>1. CASE out[i].tag \in Tags(incoming)
    <3>1. a[i] = Bare(New(i)) /\ New(i) \in Range(incoming) /\ New(i).tag = out[i].tag
      BY <1>2, <1>3, <2>1
    <3>2. New(i) \in Nameds
      BY <3>1, TagsOf
    <3> QED  BY <2>1, <3>1, <3>2, BareNode
  <2>2. CASE out[i].tag \notin Tags(incoming)
    BY <1>2, <2>2
  <2> QED  BY <2>1, <2>2
<1>5. a = [i \in 1 .. Len(out) |-> a[i]]
  BY <1>2
<1>6. fresh \in Seq(Nameds)
  BY TaggedThose
<1>7. \A i \in 1 .. Len(fresh) : b[i] \in NodeIn
  <2> SUFFICES ASSUME NEW i \in 1 .. Len(fresh) PROVE b[i] \in NodeIn
    OBVIOUS
  <2>1. fresh[i] \in Nameds /\ i \in DOMAIN fresh
    BY <1>6
  <2>2. b[i] = Bare(fresh[i])
    BY <2>1 DEF Bare
  <2> QED  BY <2>1, <2>2, BareNode
<1>8. b = [i \in 1 .. Len(fresh) |-> b[i]] /\ Len(fresh) \in Nat
  BY <1>6
<1> HIDE DEF a, b
<1>9. a \in Seq(NodeIn) /\ Len(a) = Len(out)
  BY <1>2, <1>4, <1>5
<1>10. b \in Seq(NodeIn) /\ Len(b) = Len(fresh)
  BY <1>7, <1>8
<1> HIDE DEF fresh
<1> QED  BY <1>1, <1>4, <1>9, <1>10 DEF fresh, Upserts

\* What is not replaced keeps its order
LEMMA UpsertSooner ==
    ASSUME NEW out \in Seq(NodeIn), One(out), NEW incoming \in Seq(Nameds), One(incoming),
           NEW x \in Range(out), NEW y \in Range(out), x.tag \notin Tags(incoming), y.tag \notin Tags(incoming)
    PROVE  Sooner(Upsert(out, incoming), x, y) <=> Sooner(out, x, y)
<1> DEFINE u == Upsert(out, incoming)
<1>1. PICK a, b : Upserts(out, incoming, a, b)
  BY UpsertPlaces
<1>2. u \in Seq(NodeIn) /\ One(u)
  BY Upserted
<1> HIDE DEF u
<1>3. /\ DOMAIN u = 1 .. Len(u) /\ Len(u) \in Nat /\ DOMAIN out = 1 .. Len(out) /\ Len(out) \in Nat
      /\ \A i \in 1 .. Len(out) : i \in 1 .. Len(u) /\ u[i] = a[i]
  BY <1>1, <1>2 DEF Upserts, u
<1>4. \A i \in 1 .. Len(out) : out[i].tag \notin Tags(incoming) => u[i] = out[i]
  <2>1. \A n \in Range(incoming) : n.tag \in Tags(incoming)
    BY TagsOf
  <2> QED  BY <1>1, <1>3, <2>1 DEF Upserts
<1>5. \A i, j \in 1 .. Len(u) : u[i] = u[j] => i = j
  BY <1>2, <1>3 DEF One
<1>6. \A i, j \in 1 .. Len(out) : out[i] = out[j] => i = j
  BY <1>3 DEF One
<1>7. PICK i \in 1 .. Len(out), j \in 1 .. Len(out) : out[i] = x /\ out[j] = y
  BY TagsOf
<1>8. u[i] = x /\ u[j] = y
  BY <1>4, <1>7
<1>9. Sooner(u, x, y) <=> i < j
  BY <1>3, <1>5, <1>7, <1>8 DEF Sooner
<1>10. Sooner(out, x, y) <=> i < j
  BY <1>3, <1>6, <1>7 DEF Sooner
<1> QED  BY <1>9, <1>10 DEF u

\* Nodes that are there already change nothing
LEMMA UpsertSame ==
    ASSUME NEW out \in Seq(NodeIn), One(out), NEW incoming \in Seq(Nameds), One(incoming),
           \A n \in Range(incoming) : Bare(n) \in Range(out)
    PROVE  Upsert(out, incoming) = out
<1>1. PICK a, b : Upserts(out, incoming, a, b)
  BY UpsertPlaces
<1>2. Len(b) = 0
  <2> DEFINE fresh == Untagged(incoming, Tags(out))
  <2>1. fresh \in Seq(Nameds) /\ \A x : x \in Range(fresh) <=> x \in Range(incoming) /\ x.tag \notin Tags(out)
    BY TaggedThose
  <2>2. \A n \in Range(incoming) : n.tag \in Tags(out)
    <3> SUFFICES ASSUME NEW n \in Range(incoming) PROVE n.tag \in Tags(out)
      OBVIOUS
    <3>1. Bare(n) \in Range(out) /\ Bare(n).tag = n.tag
      BY TagsOf, BareNode
    <3> QED  BY <3>1, TagsOf
  <2>3. Len(b) = Len(fresh)
    BY <1>1 DEF Upserts
  <2> HIDE DEF fresh
  <2>4. Len(fresh) \in Nat /\ 1 \notin 1 .. Len(fresh)
    <3>1. \A i \in 1 .. Len(fresh) : fresh[i] \in Range(fresh)
      BY <2>1, TagsOf
    <3> QED  BY <2>1, <2>2, <3>1
  <2> QED  BY <2>3, <2>4
<1>3. \A i \in 1 .. Len(out) : a[i] = out[i]
  <2> SUFFICES ASSUME NEW i \in 1 .. Len(out), NEW n \in Range(incoming), n.tag = out[i].tag, a[i] = Bare(n)
               PROVE  a[i] = out[i]
    BY <1>1 DEF Upserts
  <2>1. Bare(n) \in Range(out) /\ Bare(n).tag = out[i].tag /\ out[i] \in Range(out)
    BY TagsOf, BareNode
  <2> QED  BY <2>1, TagsOf
<1>4. a = out
  <2>1. a = [i \in 1 .. Len(out) |-> a[i]] /\ out = [i \in 1 .. Len(out) |-> out[i]]
    BY <1>1 DEF Upserts
  <2> QED  BY <1>3, <2>1
<1>5. b = <<>>
  BY <1>1, <1>2 DEF Upserts
<1> QED  BY <1>1, <1>4, <1>5 DEF Upserts

-----------------------------------------------------------------------------
(* The config rewritten *)

\* The renames have one old name for each new one, a name nobody has; what is
\* removed is neither renamed nor served again
Rewritable(out, incoming, r, removed) ==
    /\ \A p \in r : p[1] \in Tags(out) \ removed /\ p[2] \in Tags(incoming) \ Tags(out)
    /\ \A p, q \in r : p[1] = q[1] <=> p[2] = q[2]
    /\ removed \subseteq Tags(out)

Before(out, r) == [i \in DOMAIN out |-> [out[i] EXCEPT !.tag = Renamed(r, @)]]

\* The config under its new names (applyRenames): the same nodes, no tag twice
LEMMA BeforeIs ==
    ASSUME NEW out \in Seq(NodeIn), One(out), NEW incoming \in Seq(Nameds), NEW r, NEW removed,
           Rewritable(out, incoming, r, removed)
    PROVE  LET b == Before(out, r) IN
           /\ b \in Seq(NodeIn) /\ One(b) /\ Len(b) = Len(out)
           /\ \A i \in 1 .. Len(out) :
                /\ b[i].tag = Renamed(r, out[i].tag) /\ b[i].content = out[i].content
                /\ (\A p \in r : p[1] # out[i].tag) => b[i] = out[i]
<1> DEFINE b == Before(out, r)
           L == Len(out)
<1>1. DOMAIN out = 1 .. L /\ L \in Nat /\ \A i \in 1 .. L : out[i] \in NodeIn /\ out[i].tag \in Tags(out)
  BY DEF Tags
<1>2. b = [i \in 1 .. L |-> [out[i] EXCEPT !.tag = Renamed(r, out[i].tag)]]
  BY <1>1 DEF Before
<1>3. /\ \A p \in r : Renamed(r, p[1]) = p[2]
      /\ \A t : (\A p \in r : p[1] # t) => Renamed(r, t) = t
  BY RenamedIs DEF Rewritable
<1>4. ASSUME NEW t \in Tags(incoming) PROVE t \in AllTags
  <2>1. PICK n \in Range(incoming) : n.tag = t
    BY TagsOf
  <2>2. n \in Nameds
    BY TagsOf
  <2> QED  BY <2>1, <2>2 DEF Nameds
<1> HIDE DEF b, L
<1>5. ASSUME NEW i \in 1 .. L
      PROVE  /\ b[i] \in NodeIn /\ b[i].tag = Renamed(r, out[i].tag) /\ b[i].content = out[i].content
             /\ (\A p \in r : p[1] # out[i].tag) => b[i] = out[i]
  <2> DEFINE t == Renamed(r, out[i].tag)
  <2>1. out[i] \in NodeIn /\ b[i] = [out[i] EXCEPT !.tag = t]
    BY <1>1, <1>2
  <2>2. t \in AllTags
    <3>1. CASE \E p \in r : p[1] = out[i].tag
      BY <1>3, <1>4, <3>1 DEF Rewritable
    <3>2. CASE \A p \in r : p[1] # out[i].tag
      BY <1>3, <2>1, <3>2 DEF NodeIn
    <3> QED  BY <3>1, <3>2
  <2>3. (\A p \in r : p[1] # out[i].tag) => t = out[i].tag
    BY <1>3
  <2> HIDE DEF t
  <2>4. b[i] \in NodeIn /\ b[i].tag = t /\ b[i].content = out[i].content /\ b[i].origin = out[i].origin
    BY <2>1, <2>2 DEF NodeIn
  <2>5. t = out[i].tag => b[i] = out[i]
    BY <2>1, <2>4 DEF NodeIn
  <2> QED  BY <2>3, <2>4, <2>5 DEF t
<1>6. b \in Seq(NodeIn) /\ Len(b) = L /\ DOMAIN b = 1 .. L
  <2>1. b = [i \in 1 .. L |-> b[i]]
    BY <1>2
  <2> QED  BY <1>1, <1>5, <2>1
<1>7. One(b)
  <2> SUFFICES ASSUME NEW i \in 1 .. L, NEW j \in 1 .. L, b[i].tag = b[j].tag PROVE i = j
    BY <1>6 DEF One
  <2>1. out[i].tag \in Tags(out) /\ out[j].tag \in Tags(out)
    BY <1>1
  <2>2. Renamed(r, out[i].tag) = Renamed(r, out[j].tag)
    BY <1>5
  <2>3. out[i].tag = out[j].tag
    <3>1. CASE \E p \in r : p[1] = out[i].tag
      <4>1. PICK p \in r : p[1] = out[i].tag
        BY <3>1
      <4>2. Renamed(r, out[i].tag) = p[2] /\ p[2] \notin Tags(out)
        BY <1>3, <4>1 DEF Rewritable
      <4>3. \E q \in r : q[1] = out[j].tag
        BY <1>3, <2>1, <2>2, <4>2
      <4>4. PICK q \in r : q[1] = out[j].tag
        BY <4>3
      <4>5. q[2] = p[2]
        BY <1>3, <2>2, <4>2, <4>4
      <4> QED  BY <4>1, <4>4, <4>5 DEF Rewritable
    <3>2. CASE \A p \in r : p[1] # out[i].tag
      <4>1. Renamed(r, out[i].tag) = out[i].tag
        BY <1>3, <3>2
      <4>2. \A q \in r : q[1] # out[j].tag
        <5> SUFFICES ASSUME NEW q \in r, q[1] = out[j].tag PROVE FALSE
          OBVIOUS
        <5>1. q[2] = out[i].tag
          BY <1>3, <2>2, <4>1
        <5> QED  BY <2>1, <5>1 DEF Rewritable
      <4> QED  BY <1>3, <2>2, <4>1, <4>2
    <3> QED  BY <3>1, <3>2
  <2> QED  BY <1>1, <2>3 DEF One
<1> QED  BY <1>5, <1>6, <1>7 DEF b, L

\* Nothing but the names has changed: a sing-box works the same
LEMMA SameImage ==
    ASSUME NEW out \in Seq(NodeIn), One(out), NEW incoming \in Seq(Nameds), NEW r, NEW removed,
           Rewritable(out, incoming, r, removed), NEW c \in Tags(out) \cup {Direct}
    PROVE  Image(Before(out, r), Renamed(r, c)) = Image(out, c)
<1> DEFINE b == Before(out, r)
           L == Len(out)
           t == Renamed(r, c)
<1>1. /\ b \in Seq(NodeIn) /\ One(b) /\ Len(b) = L
      /\ \A i \in 1 .. L : b[i].tag = Renamed(r, out[i].tag) /\ b[i].content = out[i].content
  BY BeforeIs
<1> HIDE DEF b
<1>2. DOMAIN out = 1 .. L /\ DOMAIN b = 1 .. L
  BY <1>1
<1>3. [i \in DOMAIN b |-> b[i].content] = [i \in DOMAIN out |-> out[i].content]
  BY <1>1, <1>2
<1>4. /\ \A p \in r : Renamed(r, p[1]) = p[2]
      /\ \A u : (\A p \in r : p[1] # u) => Renamed(r, u) = u
  BY RenamedIs DEF Rewritable
<1>5. ContentOf(b, t) = ContentOf(out, c)
  <2>1. CASE c \in Tags(out)
    <3>1. PICK i \in 1 .. L : out[i].tag = c
      BY <1>2, <2>1 DEF Tags
    <3>2. b[i].tag = t /\ b[i].content = out[i].content
      BY <1>1, <3>1
    <3> HIDE DEF t
    <3>3. out[i] \in Range(out) /\ b[i] \in Range(b) /\ t \in Tags(b)
      BY <1>1, <1>2, <3>2, TagsOf
    <3>4. (CHOOSE o \in Range(out) : o.tag = c) = out[i]
      BY <3>1, <3>3, TagsOf
    <3>5. (CHOOSE o \in Range(b) : o.tag = t) = b[i]
      BY <1>1, <3>2, <3>3, TagsOf
    <3> QED  BY <2>1, <3>2, <3>3, <3>4, <3>5 DEF ContentOf
  <2>2. CASE c = Direct
    <3>1. \A x \in NodeIn \cup Nameds : x.tag # Direct
      BY ApartAssumption DEF NodeIn, Nameds, AllTags
    <3>2. Direct \notin Tags(out) /\ Direct \notin Tags(b)
      <4>1. ASSUME NEW s \in Seq(NodeIn) PROVE Direct \notin Tags(s)
        <5> SUFFICES ASSUME Direct \in Tags(s) PROVE FALSE
          OBVIOUS
        <5>1. PICK x \in Range(s) : x.tag = Direct
          BY TagsOf
        <5>2. x \in NodeIn
          BY TagsOf
        <5> QED  BY <3>1, <5>1, <5>2
      <4> QED  BY <1>1, <4>1
    <3>3. t = Direct
      BY <1>4, <2>2, <3>2 DEF Rewritable
    <3> QED  BY <2>2, <3>2, <3>3 DEF ContentOf
  <2> QED  BY <2>1, <2>2
<1> QED  BY <1>3, <1>5 DEF Image, b

\* What a rewriting makes of the config
Rewrote(out, c, incoming, r, held, removed, m) ==
    /\ m.outbounds \in Seq(NodeIn) /\ One(m.outbounds)
    /\ \A x : x \in Range(m.outbounds) <=>
          \/ /\ x \in Range(out) /\ x.tag \notin removed \cup Tags(incoming)
             /\ \A p \in r : p[1] # x.tag
          \/ \E n \in Range(incoming) : x = Bare(n)
    /\ m.chosen \in Tags(m.outbounds) \cup {Direct}
    /\ \A p \in r : p[1] = c => m.chosen = p[2]
    /\ m.tags = Tags(incoming) \cup held /\ m.restart \in BOOLEAN
    /\ ~m.restart => Image(m.outbounds, m.chosen) = Image(out, c)

\* The rewriting of a config leaves every tag to one node, and the traffic with one of them
LEMMA Rewritten ==
    ASSUME NEW out \in Seq(NodeIn), One(out), NEW incoming \in Seq(Nameds), One(incoming),
           NEW r, NEW removed, NEW held, Rewritable(out, incoming, r, removed),
           NEW c \in Tags(out) \cup {Direct}
    PROVE  Rewrote(out, c, incoming, r, held, removed, Rewrite(out, c, incoming, r, held, removed))
<1> DEFINE m == Rewrite(out, c, incoming, r, held, removed)
           b == Before(out, r)
           follows == Renamed(r, c)
           kept == Untagged(b, removed)
           merged == Upsert(kept, incoming)
           c2 == Prune(follows, removed, incoming, merged)
           L == Len(out)
<1>1. m = [ok |-> TRUE, outbounds |-> merged, chosen |-> c2, tags |-> OwnedNow(incoming, held),
           restart |-> NeedsRestart(b, follows, merged, c2)]
  BY DEF Rewrite, Before
<1>2. /\ b \in Seq(NodeIn) /\ One(b) /\ Len(b) = L
      /\ \A i \in 1 .. L : /\ b[i].tag = Renamed(r, out[i].tag)
                           /\ (\A p \in r : p[1] # out[i].tag) => b[i] = out[i]
  BY BeforeIs
<1>3. /\ \A p \in r : Renamed(r, p[1]) = p[2]
      /\ \A u : (\A p \in r : p[1] # u) => Renamed(r, u) = u
  BY RenamedIs DEF Rewritable
<1>4. Image(b, follows) = Image(out, c)
  BY SameImage
<1> HIDE DEF m, b
<1>5. /\ kept \in Seq(NodeIn) /\ One(kept)
      /\ \A x : x \in Range(kept) <=> x \in Range(b) /\ x.tag \notin removed
  BY <1>2, TaggedThose
<1> HIDE DEF kept
<1>6. /\ merged \in Seq(NodeIn) /\ One(merged)
      /\ \A x : x \in Range(merged) <=> \/ x \in Range(kept) /\ x.tag \notin Tags(incoming)
                                        \/ \E n \in Range(incoming) : x = Bare(n)
  BY <1>5, Upserted
<1> HIDE DEF merged
<1>7. ASSUME NEW x, x.tag \notin Tags(incoming)
      PROVE  x \in Range(b) <=> x \in Range(out) /\ \A p \in r : p[1] # x.tag
  <2>1. ASSUME x \in Range(b) PROVE x \in Range(out) /\ \A p \in r : p[1] # x.tag
    <3>1. PICK i \in 1 .. L : b[i] = x
      BY <1>2, <2>1, TagsOf
    <3>2. \A p \in r : p[1] # out[i].tag
      BY <1>2, <1>3, <1>7, <3>1 DEF Rewritable
    <3>3. x = out[i]
      BY <1>2, <3>1, <3>2
    <3> QED  BY <3>2, <3>3, TagsOf
  <2>2. ASSUME x \in Range(out), \A p \in r : p[1] # x.tag PROVE x \in Range(b)
    <3>1. PICK i \in 1 .. L : out[i] = x
      BY <2>2, TagsOf
    <3>2. b[i] = x
      BY <1>2, <2>2, <3>1
    <3> QED  BY <1>2, <3>2, TagsOf
  <2> QED  BY <2>1, <2>2
<1>8. ASSUME NEW x
      PROVE  x \in Range(merged) <=>
                 \/ /\ x \in Range(out) /\ x.tag \notin removed \cup Tags(incoming)
                    /\ \A p \in r : p[1] # x.tag
                 \/ \E n \in Range(incoming) : x = Bare(n)
  BY <1>5, <1>6, <1>7
<1>9. ASSUME NEW t \in Tags(incoming) PROVE t \in Tags(merged)
  <2>1. PICK n \in Range(incoming) : n.tag = t
    BY TagsOf
  <2>2. Bare(n) \in Range(merged) /\ Bare(n).tag = t
    BY <1>6, <2>1, TagsOf, BareNode
  <2> QED  BY <1>6, <2>2, TagsOf
<1>10. \A p \in r : p[1] = c => c2 = p[2] /\ c2 \in Tags(merged)
  BY <1>3, <1>9 DEF Rewritable, Prune
<1>11. c2 \in Tags(merged) \cup {Direct}
  <2>1. CASE \E p \in r : p[1] = c
    BY <1>10, <2>1
  <2>2. CASE (\A p \in r : p[1] # c) /\ c \notin removed
    <3>1. c2 = c
      BY <1>3, <2>2 DEF Prune
    <3>2. c \in Tags(out) /\ c \notin Tags(incoming) => c \in Tags(merged)
      <4> SUFFICES ASSUME c \in Tags(out), c \notin Tags(incoming) PROVE c \in Tags(merged)
        OBVIOUS
      <4>1. PICK x \in Range(out) : x.tag = c
        BY TagsOf
      <4>2. x \in Range(merged)
        BY <1>8, <2>2, <4>1
      <4> QED  BY <1>6, <4>1, <4>2, TagsOf
    <3> QED  BY <1>9, <3>1, <3>2
  <2>3. CASE (\A p \in r : p[1] # c) /\ c \in removed
    <3>1. c2 = IF incoming # <<>> THEN incoming[1].tag ELSE IF merged # <<>> THEN merged[1].tag ELSE Direct
      BY <1>3, <2>3 DEF Prune
    <3>2. incoming # <<>> => incoming[1].tag \in Tags(incoming)
      BY DEF Tags
    <3>3. merged # <<>> => merged[1].tag \in Tags(merged)
      BY <1>6 DEF Tags
    <3> QED  BY <1>9, <3>1, <3>2, <3>3
  <2> QED  BY <2>1, <2>2, <2>3
<1> HIDE DEF follows, c2
<1>12. /\ m.outbounds = merged /\ m.chosen = c2 /\ m.tags = Tags(incoming) \cup held
       /\ m.restart <=> <<b, follows>> # <<merged, c2>>
       /\ m.restart \in BOOLEAN
  BY <1>1 DEF OwnedNow, NeedsRestart
<1>13. ~m.restart => Image(m.outbounds, m.chosen) = Image(out, c)
  BY <1>4, <1>12
<1>14. /\ \A x : x \in Range(m.outbounds) <=>
                 \/ /\ x \in Range(out) /\ x.tag \notin removed \cup Tags(incoming)
                    /\ \A p \in r : p[1] # x.tag
                 \/ \E n \in Range(incoming) : x = Bare(n)
  BY <1>8, <1>12
<1> QED  BY <1>6, <1>10, <1>11, <1>12, <1>13, <1>14 DEF m, Rewrote

\* What a rewriting leaves alone keeps its order
LEMMA RewriteSooner ==
    ASSUME NEW out \in Seq(NodeIn), One(out), NEW incoming \in Seq(Nameds), One(incoming),
           NEW r, NEW removed, NEW held, Rewritable(out, incoming, r, removed), NEW c,
           NEW x \in Range(out), NEW y \in Range(out),
           x.tag \notin removed \cup Tags(incoming), \A p \in r : p[1] # x.tag,
           y.tag \notin removed \cup Tags(incoming), \A p \in r : p[1] # y.tag
    PROVE  Sooner(Rewrite(out, c, incoming, r, held, removed).outbounds, x, y) <=> Sooner(out, x, y)
<1> DEFINE b == Before(out, r)
           kept == Untagged(b, removed)
           L == Len(out)
<1>1. Rewrite(out, c, incoming, r, held, removed).outbounds = Upsert(kept, incoming)
  BY DEF Rewrite, Before
<1>2. /\ b \in Seq(NodeIn) /\ One(b) /\ Len(b) = L
      /\ \A i \in 1 .. L : (\A p \in r : p[1] # out[i].tag) => b[i] = out[i]
  BY BeforeIs
<1> HIDE DEF b
<1>3. PICK i \in 1 .. L, j \in 1 .. L : out[i] = x /\ out[j] = y
  BY TagsOf
<1>4. b[i] = x /\ b[j] = y
  BY <1>2, <1>3
<1>5. /\ DOMAIN b = 1 .. L /\ DOMAIN out = 1 .. L /\ L \in Nat
      /\ \A k, l \in 1 .. L : b[k] = b[l] => k = l
      /\ \A k, l \in 1 .. L : out[k] = out[l] => k = l
  <2>1. DOMAIN b = 1 .. L /\ DOMAIN out = 1 .. L /\ L \in Nat
    BY <1>2
  <2>2. \A k, l \in 1 .. L : b[k] = b[l] => k = l
    BY <1>2, <2>1 DEF One
  <2>3. \A k, l \in 1 .. L : out[k] = out[l] => k = l
    BY <2>1 DEF One
  <2> QED  BY <2>1, <2>2, <2>3
<1>6. Sooner(b, x, y) <=> i < j
  BY <1>3, <1>4, <1>5 DEF Sooner
<1>7. Sooner(out, x, y) <=> i < j
  BY <1>3, <1>5 DEF Sooner
<1>8. x \in Range(b) /\ y \in Range(b)
  BY <1>2, <1>4, TagsOf
<1>9. /\ kept \in Seq(NodeIn) /\ One(kept)
      /\ \A z : z \in Range(kept) <=> z \in Range(b) /\ z.tag \notin removed
  BY <1>2, TaggedThose
<1>10. \A v, w \in Range(kept) : Sooner(kept, v, w) <=> Sooner(b, v, w)
  BY <1>2, TaggedSooner
<1> HIDE DEF kept
<1>11. x \in Range(kept) /\ y \in Range(kept)
  BY <1>8, <1>9
<1>12. Sooner(Upsert(kept, incoming), x, y) <=> Sooner(kept, x, y)
  BY <1>9, <1>11, UpsertSooner
<1> QED  BY <1>1, <1>6, <1>7, <1>10, <1>11, <1>12

\* A rewriting without renames and removals that finds all it brings
Unmoved(out, c, incoming, held) ==
    Rewrite(out, c, incoming, {}, held, {}) = Result(TRUE, out, c, Tags(incoming) \cup held, FALSE)

\* By nodes that are there, such a rewriting changes nothing
LEMMA RewriteSame ==
    ASSUME NEW out \in Seq(NodeIn), One(out), NEW incoming \in Seq(Nameds), One(incoming),
           \A n \in Range(incoming) : Bare(n) \in Range(out), NEW c, NEW held
    PROVE  Unmoved(out, c, incoming, held)
<1> DEFINE b == [i \in DOMAIN out |-> [out[i] EXCEPT !.tag = Renamed({}, @)]]
<1>1. \A t : Renamed({}, t) = t
  BY DEF Renamed
<1>2. b = out
  <2>1. DOMAIN out = 1 .. Len(out) /\ \A i \in 1 .. Len(out) : out[i] \in NodeIn
    OBVIOUS
  <2>2. \A x \in NodeIn : [x EXCEPT !.tag = x.tag] = x
    BY DEF NodeIn
  <2>3. b = [i \in 1 .. Len(out) |-> out[i]]
    BY <1>1, <2>1, <2>2
  <2>4. out = [i \in 1 .. Len(out) |-> out[i]]
    BY <2>1
  <2> QED  BY <2>3, <2>4
<1>3. Untagged(out, {}) = out
  <2>1. Range(out) \subseteq {x \in Range(out) : x.tag \notin {}}
    OBVIOUS
  <2> QED  BY <2>1, AllOnly DEF Untagged
<1>4. Upsert(out, incoming) = out
  BY UpsertSame
<1>5. Prune(c, {}, incoming, out) = c
  BY DEF Prune
<1> HIDE DEF b
<1>6. Rewrite(out, c, incoming, {}, held, {}) =
         [ok |-> TRUE, outbounds |-> Upsert(Untagged(b, {}), incoming),
          chosen |-> Prune(Renamed({}, c), {}, incoming, Upsert(Untagged(b, {}), incoming)),
          tags |-> OwnedNow(incoming, held),
          restart |-> NeedsRestart(b, Renamed({}, c), Upsert(Untagged(b, {}), incoming),
                                   Prune(Renamed({}, c), {}, incoming, Upsert(Untagged(b, {}), incoming)))]
  BY DEF Rewrite, b
<1>7. NeedsRestart(out, c, out, c) = FALSE
  BY DEF NeedsRestart
<1>8. Rewrite(out, c, incoming, {}, held, {}) =
         [ok |-> TRUE, outbounds |-> out, chosen |-> c, tags |-> Tags(incoming) \cup held, restart |-> FALSE]
  BY <1>1, <1>2, <1>3, <1>4, <1>5, <1>6, <1>7 DEF OwnedNow
<1> QED  BY <1>8 DEF Result, Unmoved

-----------------------------------------------------------------------------
(* The merge *)

\* What becomes of the nodes of a subscription: each is served again, renamed,
\* held or removed, and only one of these
Parted(out, mine, incoming, refused, open, r, held, removed) ==
    /\ open \in Seq(NodeIn) /\ One(open)
    /\ \A x : x \in Range(open) <=>
          x \in Range(out) /\ x.tag \in mine /\ x.tag \notin Tags(incoming) /\ x.tag \notin Tags(refused)
    /\ r = PairRenamed(open, Untagged(incoming, Tags(out)))
    /\ \A p \in r : p[1] \in Tags(open)
    /\ Rewritable(out, incoming, r, removed)
    /\ held \cup removed \subseteq mine
    /\ \A t \in held : t \notin Tags(incoming) /\ t \notin removed /\ \A p \in r : p[1] # t
    /\ \A t \in removed : t \notin Tags(incoming)
    /\ Tags(refused) \cap mine \subseteq held /\ (refused = <<>> => held = {})
    /\ \A t \in mine : t \in Tags(incoming) \/ t \in held \/ t \in removed \/ \E p \in r : p[1] = t

\* Those that are held because they seem to come again, refused, among the ones that have
\* no new name (syncMerge)
HeldFrom(out, mine, refused, open, r, held) ==
    \E unpaired \in Seq(NodeIn) :
        /\ One(unpaired)
        /\ \A x : x \in Range(unpaired) <=> x \in Range(open) /\ \A p \in r : p[1] # x.tag
        /\ \A x, y \in Range(unpaired) : Sooner(unpaired, x, y) <=> Sooner(out, x, y)
        /\ \A t : t \in held <=> \/ t \in Tags(refused) /\ t \in mine
                               \/ \E p \in PairRenamed(unpaired, Untagged(refused, mine)) : p[1] = t

PartedTo(out, c, mine, incoming, refused, open, r, held, removed, m) ==
    /\ Parted(out, mine, incoming, refused, open, r, held, removed)
    /\ HeldFrom(out, mine, refused, open, r, held)
    /\ m = Rewrite(out, c, incoming, r, held, removed)

\* The merge rewrites the config by such a parting
LEMMA Reconciled ==
    ASSUME NEW out \in Seq(NodeIn), One(out), NEW c, NEW mine, mine \subseteq Tags(out),
           NEW incoming \in Seq(Nameds), One(incoming), NEW refused \in Seq(Nameds), One(refused),
           Tags(incoming) \cap Tags(refused) = {}
    PROVE  \E open, r, held, removed :
              PartedTo(out, c, mine, incoming, refused, open, r, held, removed,
                       Reconcile(out, c, mine, incoming, refused))
<1> DEFINE dropped == Tagged(out, mine \ Tags(incoming))
           open == Untagged(dropped, Tags(refused))
           appearing == Untagged(incoming, Tags(out))
           r == PairRenamed(open, appearing)
           firsts == {p[1] : p \in r}
           unpaired == Untagged(open, firsts)
           new == Untagged(refused, mine)
           again == PairRenamed(unpaired, new)
           held == Held(mine, refused, unpaired)
           removed == Tags(unpaired) \ held
<1>1. Reconcile(out, c, mine, incoming, refused) = Rewrite(out, c, incoming, r, held, removed)
  BY DEF Reconcile
<1>2. /\ dropped \in Seq(NodeIn) /\ One(dropped)
      /\ \A x : x \in Range(dropped) <=> x \in Range(out) /\ x.tag \in mine \ Tags(incoming)
  BY TaggedThose
<1>28. \A x, y \in Range(dropped) : Sooner(dropped, x, y) <=> Sooner(out, x, y)
  BY TaggedSooner
<1> HIDE DEF dropped
<1>29. \A x, y \in Range(open) : Sooner(open, x, y) <=> Sooner(dropped, x, y)
  BY <1>2, TaggedSooner
<1>3. /\ open \in Seq(NodeIn) /\ One(open)
      /\ \A x : x \in Range(open) <=> x \in Range(dropped) /\ x.tag \notin Tags(refused)
  BY <1>2, TaggedThose
<1>4. /\ appearing \in Seq(Nameds) /\ One(appearing)
      /\ \A x : x \in Range(appearing) <=> x \in Range(incoming) /\ x.tag \notin Tags(out)
  BY TaggedThose
<1>5. r = PairRenamed(open, Untagged(incoming, Tags(out)))
  OBVIOUS
<1>6. held = (Tags(refused) \cap mine) \cup {p[1] : p \in again}
  BY DEF Held
<1> HIDE DEF open, appearing
<1>7. /\ \A p \in r : p[1] \in Tags(open) /\ p[2] \in Tags(appearing)
      /\ \A p, q \in r : p[1] = q[1] <=> p[2] = q[2]
  BY <1>3, <1>4, RenamesApart
<1> HIDE DEF r
<1>8. \A t : t \in firsts <=> \E p \in r : p[1] = t
  OBVIOUS
<1> HIDE DEF firsts
<1>9. /\ unpaired \in Seq(NodeIn) /\ One(unpaired)
      /\ \A x : x \in Range(unpaired) <=> x \in Range(open) /\ x.tag \notin firsts
  BY <1>3, TaggedThose
<1>30. \A x, y \in Range(unpaired) : Sooner(unpaired, x, y) <=> Sooner(open, x, y)
  BY <1>3, TaggedSooner
<1>31. again = PairRenamed(unpaired, Untagged(refused, mine))
  OBVIOUS
<1>10. new \in Seq(Nameds) /\ One(new) /\ \A x : x \in Range(new) => x \in Range(refused)
  BY TaggedThose
<1> HIDE DEF unpaired, new
<1>32. \A x, y \in Range(unpaired) : Sooner(unpaired, x, y) <=> Sooner(out, x, y)
  BY <1>3, <1>9, <1>28, <1>29, <1>30
<1>11. \A p \in again : p[1] \in Tags(unpaired) /\ p[2] \in Tags(new)
  BY <1>9, <1>10, RenamesApart
<1> HIDE DEF again
<1>27. ASSUME refused = <<>> PROVE held = {}
  <2>1. Tags(refused) = {} /\ Range(refused) = {}
    BY <1>27 DEF Tags, Range
  <2>2. \A t : t \notin Tags(new)
    BY <1>10, <2>1, TagsOf
  <2> QED  BY <1>6, <1>11, <2>1, <2>2
<1>12. /\ \A x \in Range(open) : x \in Range(out) /\ x.tag \in mine /\ x.tag \notin Tags(incoming) /\ x.tag \notin Tags(refused)
       /\ \A x \in Range(out) : x.tag \in mine /\ x.tag \notin Tags(incoming) /\ x.tag \notin Tags(refused) => x \in Range(open)
  BY <1>2, <1>3
<1>13. \A t \in Tags(open) : t \in mine /\ t \notin Tags(incoming) /\ t \notin Tags(refused)
  BY <1>3, <1>12, TagsOf
<1>14. \A t \in mine : t \in Tags(incoming) \/ t \in Tags(refused) \/ t \in Tags(open)
  <2> SUFFICES ASSUME NEW t \in mine, t \notin Tags(incoming), t \notin Tags(refused) PROVE t \in Tags(open)
    OBVIOUS
  <2>1. PICK x \in Range(out) : x.tag = t
    BY TagsOf
  <2> QED  BY <1>3, <1>12, <2>1, TagsOf
<1>15. \A t : t \in Tags(unpaired) <=> t \in Tags(open) /\ t \notin firsts
  <2> TAKE t
  <2>1. t \in Tags(unpaired) => t \in Tags(open) /\ t \notin firsts
    BY <1>3, <1>9, TagsOf
  <2>2. t \in Tags(open) /\ t \notin firsts => t \in Tags(unpaired)
    <3> SUFFICES ASSUME t \in Tags(open), t \notin firsts PROVE t \in Tags(unpaired)
      OBVIOUS
    <3>1. PICK x \in Range(open) : x.tag = t
      BY <1>3, TagsOf
    <3> QED  BY <1>9, <3>1, TagsOf
  <2> QED  BY <2>1, <2>2
<1>16. \A t \in held : t \in mine /\ t \notin Tags(incoming) /\ t \notin firsts
  <2> SUFFICES ASSUME NEW t \in held PROVE t \in mine /\ t \notin Tags(incoming) /\ t \notin firsts
    OBVIOUS
  <2>1. CASE t \in Tags(refused) \cap mine
    <3>1. t \notin firsts
      BY <1>7, <1>8, <1>13, <2>1
    <3> QED  BY <2>1, <3>1
  <2>2. CASE t \in {p[1] : p \in again}
    BY <1>11, <1>13, <1>15, <2>2
  <2> QED  BY <1>6, <2>1, <2>2
<1>17. Tags(refused) \cap mine \subseteq held
  BY <1>6
<1>33. \A t : t \in held <=> \/ t \in Tags(refused) /\ t \in mine
                            \/ \E p \in PairRenamed(unpaired, Untagged(refused, mine)) : p[1] = t
  BY <1>6, <1>31
<1>34. \A x : x \in Range(unpaired) <=> x \in Range(open) /\ \A p \in r : p[1] # x.tag
  BY <1>8, <1>9
<1> HIDE DEF held
<1>18. \A t : t \in removed <=> t \in Tags(open) /\ t \notin firsts /\ t \notin held
  BY <1>15
<1> HIDE DEF removed
<1>19. \A t \in Tags(appearing) : t \in Tags(incoming) /\ t \notin Tags(out)
  BY <1>4, TagsOf
<1>20. Rewritable(out, incoming, r, removed)
  <2>1. \A p \in r : p[1] \in Tags(out) \ removed /\ p[2] \in Tags(incoming) \ Tags(out)
    BY <1>7, <1>8, <1>13, <1>18, <1>19
  <2>2. removed \subseteq Tags(out)
    BY <1>13, <1>18
  <2> QED  BY <1>7, <2>1, <2>2 DEF Rewritable
<1>21. \A t \in held : t \notin Tags(incoming) /\ t \notin removed /\ \A p \in r : p[1] # t
  BY <1>8, <1>16, <1>18
<1>22. \A t \in mine : t \in Tags(incoming) \/ t \in held \/ t \in removed \/ \E p \in r : p[1] = t
  BY <1>8, <1>14, <1>17, <1>18
<1>23. held \cup removed \subseteq mine /\ \A t \in removed : t \notin Tags(incoming)
  BY <1>13, <1>16, <1>18
<1>24. \A x : x \in Range(open) <=>
          x \in Range(out) /\ x.tag \in mine /\ x.tag \notin Tags(incoming) /\ x.tag \notin Tags(refused)
  BY <1>12
<1>25. r = PairRenamed(open, Untagged(incoming, Tags(out)))
  BY <1>5
<1>26. Parted(out, mine, incoming, refused, open, r, held, removed)
  BY <1>3, <1>7, <1>20, <1>21, <1>22, <1>23, <1>17, <1>24, <1>25, <1>27 DEF Parted
<1>35. HeldFrom(out, mine, refused, open, r, held)
  BY <1>9, <1>32, <1>33, <1>34 DEF HeldFrom
<1> QED  BY <1>1, <1>26, <1>35 DEF PartedTo

\* What a sync makes of the config
Outcome(out, c, owned, nodes, m, incoming, held) ==
    /\ incoming \in Seq(Nameds)
    /\ \A n \in Range(incoming) :
          /\ n.tag \in Tags(out) => n.tag \in owned
          /\ \E i \in 1 .. Len(nodes) : n.origin = nodes[i].origin
    /\ held \subseteq owned /\ held \subseteq Tags(out) /\ held \cap Tags(incoming) = {}
    /\ m.outbounds \in Seq(NodeIn) /\ One(m.outbounds)
    /\ \A x : x \in Range(m.outbounds) <=>
          \/ x \in Range(out) /\ (x.tag \notin owned \/ x.tag \in held)
          \/ \E n \in Range(incoming) : x = Bare(n)
    /\ m.chosen \in Tags(m.outbounds) \cup {Direct}
    /\ m.tags = Tags(incoming) \cup held /\ m.restart \in BOOLEAN
    /\ ~m.restart => Image(m.outbounds, m.chosen) = Image(out, c)
    /\ nodes = <<>> => incoming = <<>> /\ held = {}

\* The names given, and what the checks leave of them
LEMMA NamedParts ==
    ASSUME NEW out \in Seq(NodeIn), One(out), NEW owned, NEW nodes \in Seq(Judgeds), Distinct(nodes)
    PROVE  LET mine == owned \cap Tags(out)
               named == SuffixTaken(nodes, Tags(out) \ mine)
               incoming == Only(named, {n \in Range(named) : n.fits})
               refused == Only(named, {n \in Range(named) : ~n.fits})
           IN /\ incoming \in Seq(Nameds) /\ One(incoming) /\ refused \in Seq(Nameds) /\ One(refused)
              /\ Tags(incoming) \cap Tags(refused) = {}
              /\ \A n \in Range(incoming) \cup Range(refused) :
                    /\ n.tag \in Tags(out) => n.tag \in owned
                    /\ \E i \in 1 .. Len(nodes) : n.origin = nodes[i].origin
              /\ nodes = <<>> => incoming = <<>> /\ refused = <<>>
<1> DEFINE protected == Tags(out) \ (owned \cap Tags(out))
           named == SuffixTaken(nodes, protected)
           F == {n \in Range(named) : n.fits}
           G == {n \in Range(named) : ~n.fits}
           incoming == Only(named, F)
           refused == Only(named, G)
<1>1. IsFiniteSet(protected) /\ \A t : t \in protected <=> t \in Tags(out) /\ t \notin owned
  BY TagsOf, FS_Difference
<1> HIDE DEF protected
<1>2. /\ named \in Seq(Nameds) /\ Len(named) = Len(nodes) /\ One(named)
      /\ \A i \in 1 .. Len(nodes) : named[i].tag \notin protected /\ named[i].origin = nodes[i].origin
  BY <1>1, NamedApart
<1> HIDE DEF named
<1>3. /\ \A n \in F : n.fits
      /\ \A n \in G : ~n.fits
  OBVIOUS
<1> HIDE DEF F, G
<1>4. /\ incoming \in Seq(Nameds) /\ One(incoming)
      /\ \A x : x \in Range(incoming) <=> x \in Range(named) /\ x \in F
  BY <1>2, Filtered
<1>5. /\ refused \in Seq(Nameds) /\ One(refused)
      /\ \A x : x \in Range(refused) <=> x \in Range(named) /\ x \in G
  BY <1>2, Filtered
<1> HIDE DEF incoming, refused
<1>6. ASSUME NEW n \in Range(named)
      PROVE  n.tag \notin protected /\ \E i \in 1 .. Len(nodes) : n.origin = nodes[i].origin
  <2>1. PICK i \in 1 .. Len(named) : named[i] = n
    BY <1>2, TagsOf
  <2> QED  BY <1>2, <2>1
<1>7. Tags(incoming) \cap Tags(refused) = {}
  <2> SUFFICES ASSUME NEW t, t \in Tags(incoming), t \in Tags(refused) PROVE FALSE
    OBVIOUS
  <2>1. PICK x \in Range(incoming) : x.tag = t
    BY <1>4, TagsOf
  <2>2. PICK y \in Range(refused) : y.tag = t
    BY <1>5, TagsOf
  <2>3. x = y
    BY <1>2, <1>4, <1>5, <2>1, <2>2, TagsOf
  <2> QED  BY <1>3, <1>4, <1>5, <2>3
<1>8. ASSUME nodes = <<>> PROVE incoming = <<>> /\ refused = <<>>
  <2>1. Len(named) = 0
    BY <1>2, <1>8
  <2>2. ASSUME NEW x \in Range(named) PROVE FALSE
    <3>1. PICK i \in 1 .. Len(named) : named[i] = x
      BY <1>2, TagsOf
    <3> QED  BY <2>1, <3>1
  <2>3. ASSUME NEW s \in Seq(Nameds), \A x \in Range(s) : x \in Range(named) PROVE s = <<>>
    <3>1. Len(s) \in Nat /\ 1 \notin 1 .. Len(s)
      BY <2>2, <2>3, TagsOf
    <3> QED  BY <2>3, <3>1
  <2> QED  BY <1>4, <1>5, <2>3
<1>9. ASSUME NEW n \in Range(incoming) \cup Range(refused)
      PROVE  (n.tag \in Tags(out) => n.tag \in owned) /\ \E i \in 1 .. Len(nodes) : n.origin = nodes[i].origin
  BY <1>1, <1>4, <1>5, <1>6
<1> QED  BY <1>4, <1>5, <1>7, <1>8, <1>9 DEF incoming, refused, F, G, named, protected

\* SyncOutbounds, for any config and any list a provider may serve
LEMMA SyncDoes ==
    ASSUME NEW out \in Seq(NodeIn), One(out), NEW c \in Tags(out) \cup {Direct}, NEW owned,
           NEW nodes \in Seq(Judgeds), Distinct(nodes)
    PROVE  LET m == SyncMerge(out, c, owned, nodes) IN
           \/ /\ m.outbounds = out /\ m.chosen = c /\ m.tags = owned /\ m.restart = FALSE
              /\ nodes # <<>>
           \/ \E incoming, held : Outcome(out, c, owned, nodes, m, incoming, held)
<1> DEFINE mine == owned \cap Tags(out)
           named == SuffixTaken(nodes, Tags(out) \ mine)
           incoming == Only(named, {n \in Range(named) : n.fits})
           refused == Only(named, {n \in Range(named) : ~n.fits})
           m == SyncMerge(out, c, owned, nodes)
<1>1. m = IF nodes # <<>> /\ incoming = <<>>
          THEN [ok |-> FALSE, outbounds |-> out, chosen |-> c, tags |-> owned, restart |-> FALSE]
          ELSE Reconcile(out, c, mine, incoming, refused)
  BY DEF SyncMerge
<1>2. /\ incoming \in Seq(Nameds) /\ One(incoming) /\ refused \in Seq(Nameds) /\ One(refused)
      /\ Tags(incoming) \cap Tags(refused) = {}
      /\ \A n \in Range(incoming) \cup Range(refused) :
                    /\ n.tag \in Tags(out) => n.tag \in owned
                    /\ \E i \in 1 .. Len(nodes) : n.origin = nodes[i].origin
      /\ nodes = <<>> => incoming = <<>> /\ refused = <<>>
  BY NamedParts
<1> HIDE DEF incoming, refused, m
<1>5. /\ incoming \in Seq(Nameds) /\ One(incoming) /\ refused \in Seq(Nameds) /\ One(refused)
      /\ Tags(incoming) \cap Tags(refused) = {}
  BY <1>2
<1>3. CASE nodes # <<>> /\ incoming = <<>>
  BY <1>1, <1>3 DEF m
<1>4. CASE ~(nodes # <<>> /\ incoming = <<>>)
  <2>1. m = Reconcile(out, c, mine, incoming, refused)
    BY <1>1, <1>4
  <2> HIDE DEF mine
  <2>20. mine \subseteq Tags(out)
    BY DEF mine
  <2>2. PICK open, r, held, removed : PartedTo(out, c, mine, incoming, refused, open, r, held, removed, m)
    BY <1>5, <2>1, <2>20, Reconciled
  <2>3. /\ m = Rewrite(out, c, incoming, r, held, removed) /\ Rewritable(out, incoming, r, removed)
        /\ Parted(out, mine, incoming, refused, open, r, held, removed)
    BY <2>2 DEF PartedTo, Parted
  <2>4. /\ m.outbounds \in Seq(NodeIn) /\ One(m.outbounds)
        /\ \A x : x \in Range(m.outbounds) <=>
                 \/ /\ x \in Range(out) /\ x.tag \notin removed \cup Tags(incoming)
                    /\ \A p \in r : p[1] # x.tag
                 \/ \E n \in Range(incoming) : x = Bare(n)
        /\ m.chosen \in Tags(m.outbounds) \cup {Direct}
        /\ m.tags = Tags(incoming) \cup held /\ m.restart \in BOOLEAN
        /\ ~m.restart => Image(m.outbounds, m.chosen) = Image(out, c)
    <3>1. Rewrote(out, c, incoming, r, held, removed, m)
      BY <1>5, <2>3, Rewritten
    <3> QED  BY <3>1 DEF Rewrote
  <2>5. /\ held \subseteq mine /\ removed \subseteq mine
        /\ \A t \in held : t \notin Tags(incoming) /\ t \notin removed /\ \A p \in r : p[1] # t
        /\ \A t \in mine : t \in Tags(incoming) \/ t \in held \/ t \in removed \/ \E p \in r : p[1] = t
        /\ \A p \in r : p[1] \in mine
    <3>1. open \in Seq(NodeIn) /\ \A x : x \in Range(open) => x.tag \in mine
      BY <2>3 DEF Parted
    <3>2. \A p \in r : p[1] \in Tags(open)
      BY <2>3 DEF Parted
    <3>3. \A p \in r : p[1] \in mine
      <4> SUFFICES ASSUME NEW p \in r PROVE p[1] \in mine
        OBVIOUS
      <4>1. open \in Seq(NodeIn) /\ p[1] \in Tags(open)
        BY <3>1, <3>2
      <4>2. PICK x \in Range(open) : x.tag = p[1]
        <5>1. \A t : t \in Tags(open) <=> \E x \in Range(open) : x.tag = t
          BY <4>1, TagsOf
        <5> QED  BY <4>1, <5>1
      <4> QED  BY <3>1, <4>2
    <3> QED  BY <2>3, <3>3 DEF Parted
  <2>6. \A t \in Tags(incoming) : t \in Tags(out) => t \in mine
    <3> SUFFICES ASSUME NEW t \in Tags(incoming), t \in Tags(out) PROVE t \in mine
      OBVIOUS
    <3>1. PICK n \in Range(incoming) : n.tag = t
      BY <1>5, TagsOf
    <3> QED  BY <1>2, <3>1 DEF mine
  <2>7. \A x \in Range(out) : x.tag \in Tags(out)
    BY TagsOf
  <2>8. \A t : t \in mine <=> t \in owned /\ t \in Tags(out)
    BY DEF mine
  <2>9. ASSUME NEW x \in Range(out)
        PROVE  (x.tag \notin removed \cup Tags(incoming) /\ \A p \in r : p[1] # x.tag)
                 <=> (x.tag \notin owned \/ x.tag \in held)
    BY <2>5, <2>6, <2>7, <2>8
  <2>10. \A x : x \in Range(m.outbounds) <=>
          \/ x \in Range(out) /\ (x.tag \notin owned \/ x.tag \in held)
          \/ \E n \in Range(incoming) : x = Bare(n)
    BY <2>4, <2>9
  <2>11. held \subseteq owned /\ held \subseteq Tags(out) /\ held \cap Tags(incoming) = {}
    BY <2>5, <2>8
  <2>12. \A n \in Range(incoming) :
          /\ n.tag \in Tags(out) => n.tag \in owned
          /\ \E i \in 1 .. Len(nodes) : n.origin = nodes[i].origin
    BY <1>2
  <2>13. nodes = <<>> => incoming = <<>> /\ held = {}
    BY <1>2, <2>3 DEF Parted
  <2>14. Outcome(out, c, owned, nodes, m, incoming, held)
    BY <1>2, <2>4, <2>10, <2>11, <2>12, <2>13 DEF Outcome
  <2> QED  BY <2>14 DEF m
<1> QED  BY <1>3, <1>4

-----------------------------------------------------------------------------
(* A subscription and the others *)

\* The list of a provider, as the merge takes it
LEMMA ProviderList ==
    ASSUME NEW b \in Seq(Node), \A i, j \in DOMAIN b : b[i].name = b[j].name => i = j,
           NEW u \in Urls \cup {Hand}, NEW bad
    PROVE  LET s == Judged(b, u, bad) IN
           /\ s \in Seq(Judgeds) /\ Distinct(s) /\ Len(s) = Len(b)
           /\ \A i \in 1 .. Len(s) : s[i].origin = u
           /\ s = <<>> <=> b = <<>>
<1> DEFINE s == Judged(b, u, bad)
           L == Len(b)
<1>1. DOMAIN b = 1 .. L /\ L \in Nat /\ \A i \in 1 .. L : b[i] \in Node
  OBVIOUS
<1>2. s = [i \in 1 .. L |-> [name |-> b[i].name, content |-> b[i].content, origin |-> u, fits |-> i \notin bad]]
  BY <1>1 DEF Judged
<1> HIDE DEF s, L
<1>3. ASSUME NEW i \in 1 .. L PROVE s[i] \in Judgeds /\ s[i].name = b[i].name /\ s[i].origin = u
  <2>1. s[i] = [name |-> b[i].name, content |-> b[i].content, origin |-> u, fits |-> i \notin bad]
    BY <1>2
  <2>2. b[i] \in Node
    BY <1>1
  <2>3. b[i].name \in Names /\ b[i].content \in Contents
    BY <2>2 DEF Node
  <2>4. (i \notin bad) \in BOOLEAN
    OBVIOUS
  <2> QED  BY <2>1, <2>3, <2>4 DEF Judgeds
<1>4. s \in Seq(Judgeds) /\ Len(s) = L /\ DOMAIN s = 1 .. L
  <2>1. s = [i \in 1 .. L |-> s[i]]
    BY <1>2
  <2> QED  BY <1>1, <1>3, <2>1
<1>5. Distinct(s)
  BY <1>1, <1>3, <1>4 DEF Distinct
<1>6. s = <<>> <=> b = <<>>
  BY <1>1, <1>4 DEF L
<1> QED  BY <1>3, <1>4, <1>5, <1>6 DEF s, L

\* The nodes of a subscription are those of these tags
OwnerOf(out, tags, u) == \A t : t \in tags <=> \E x \in Range(out) : x.tag = t /\ x.origin = u

\* What a sync of the subscription of u does to the nodes of everybody
Synced(out, c, owned, u, m) ==
    /\ m.outbounds \in Seq(NodeIn) /\ One(m.outbounds) /\ m.chosen \in Tags(m.outbounds) \cup {Direct}
    /\ m.restart \in BOOLEAN /\ (~m.restart => Image(m.outbounds, m.chosen) = Image(out, c))
    /\ m.tags \in SUBSET AllTags /\ IsFiniteSet(m.tags)
    /\ \A x \in Range(out) : x.origin = Hand => x \in Range(m.outbounds)
    /\ \A x \in Range(m.outbounds) : x.origin = Hand => x \in Range(out) /\ x.tag \notin m.tags
    /\ OwnerOf(out, owned, u) =>
         /\ OwnerOf(m.outbounds, m.tags, u)
         /\ \A x : x.origin # u => (x \in Range(out) <=> x \in Range(m.outbounds))

\* What SyncOutbounds does for the subscription of u, if it claims no server of the user's
LEMMA SyncOne ==
    ASSUME NEW out \in Seq(NodeIn), One(out), NEW c \in Tags(out) \cup {Direct}, NEW u \in Urls,
           NEW owned \in SUBSET AllTags, IsFiniteSet(owned),
           \A x \in Range(out) : x.origin = Hand => x.tag \notin owned,
           NEW nodes \in Seq(Judgeds), Distinct(nodes), \A i \in 1 .. Len(nodes) : nodes[i].origin = u
    PROVE  /\ Synced(out, c, owned, u, SyncMerge(out, c, owned, nodes))
           /\ nodes = <<>> => SyncMerge(out, c, owned, nodes).tags = {}
<1> DEFINE m == SyncMerge(out, c, owned, nodes)
<1>1. \/ /\ m.outbounds = out /\ m.chosen = c /\ m.tags = owned /\ m.restart = FALSE
         /\ nodes # <<>>
      \/ \E incoming, held : Outcome(out, c, owned, nodes, m, incoming, held)
  BY SyncDoes
<1> HIDE DEF m
<1>2. CASE m.outbounds = out /\ m.chosen = c /\ m.tags = owned /\ m.restart = FALSE /\ nodes # <<>>
  BY <1>2 DEF Synced, m
<1>3. CASE \E incoming, held : Outcome(out, c, owned, nodes, m, incoming, held)
  <2>1. PICK incoming, held : Outcome(out, c, owned, nodes, m, incoming, held)
    BY <1>3
  <2>2. /\ incoming \in Seq(Nameds) /\ held \subseteq owned /\ held \subseteq Tags(out) /\ held \cap Tags(incoming) = {}
        /\ m.outbounds \in Seq(NodeIn) /\ One(m.outbounds) /\ m.chosen \in Tags(m.outbounds) \cup {Direct}
        /\ m.tags = Tags(incoming) \cup held /\ m.restart \in BOOLEAN
        /\ ~m.restart => Image(m.outbounds, m.chosen) = Image(out, c)
    BY <2>1 DEF Outcome
  <2>3. \A x : x \in Range(m.outbounds) <=>
          \/ x \in Range(out) /\ (x.tag \notin owned \/ x.tag \in held)
          \/ \E n \in Range(incoming) : x = Bare(n)
    BY <2>1 DEF Outcome
  <2>4. \A n \in Range(incoming) : n \in Nameds /\ n.tag \in Tags(incoming) /\ n.origin = u
                                   /\ (n.tag \in Tags(out) => n.tag \in owned)
    <3>1. \A n \in Range(incoming) : n \in Nameds /\ n.tag \in Tags(incoming)
      BY <2>2, TagsOf
    <3> QED  BY <2>1, <3>1 DEF Outcome
  <2>5. \A n \in Range(incoming) : Bare(n).tag = n.tag /\ Bare(n).origin = u
    BY <2>4, BareNode
  <2>6. u # Hand
    BY ApartAssumption
  <2>7. m.tags \in SUBSET AllTags /\ IsFiniteSet(m.tags)
    <3>1. IsFiniteSet(Tags(incoming))
      BY <2>2, TagsOf
    <3>2. IsFiniteSet(held)
      BY <2>2, FS_Subset
    <3>3. ASSUME NEW t \in Tags(incoming) PROVE t \in AllTags
      <4>1. PICK n \in Range(incoming) : n.tag = t
        BY <2>2, TagsOf
      <4> QED  BY <2>4, <4>1 DEF Nameds
    <3>4. held \subseteq AllTags
      BY <2>2
    <3>5. IsFiniteSet(Tags(incoming) \cup held)
      BY <3>1, <3>2, FS_Union
    <3>6. m.tags = Tags(incoming) \cup held
      BY <2>2
    <3> QED  BY <3>3, <3>4, <3>5, <3>6
  <2>8. ASSUME NEW x \in Range(out), x.origin = Hand PROVE x \in Range(m.outbounds)
    BY <2>3, <2>8
  <2>9. ASSUME NEW x \in Range(m.outbounds), x.origin = Hand PROVE x \in Range(out) /\ x.tag \notin m.tags
    <3>1. x \in Range(out)
      BY <2>3, <2>5, <2>6, <2>9
    <3>2. x.tag \notin owned /\ x.tag \in Tags(out)
      BY <2>9, <3>1, TagsOf
    <3>3. x.tag \notin Tags(incoming)
      <4> SUFFICES ASSUME x.tag \in Tags(incoming) PROVE FALSE
        OBVIOUS
      <4>2. incoming \in Seq(Nameds)
        BY <2>2
      <4>1. PICK n \in Range(incoming) : n.tag = x.tag
        BY <4>2, TagsOf
      <4> QED  BY <2>4, <3>2, <4>1
    <3> QED  BY <2>2, <3>1, <3>2, <3>3
  <2>10. ASSUME OwnerOf(out, owned, u) PROVE OwnerOf(m.outbounds, m.tags, u)
    <3> SUFFICES ASSUME NEW t PROVE t \in m.tags <=> \E x \in Range(m.outbounds) : x.tag = t /\ x.origin = u
      BY DEF OwnerOf
    <3>1. ASSUME t \in Tags(incoming) PROVE \E x \in Range(m.outbounds) : x.tag = t /\ x.origin = u
      <4>1. PICK n \in Range(incoming) : n.tag = t
        BY <2>2, <3>1, TagsOf
      <4> QED  BY <2>3, <2>5, <4>1
    <3>2. ASSUME t \in held PROVE \E x \in Range(m.outbounds) : x.tag = t /\ x.origin = u
      <4>1. PICK x \in Range(out) : x.tag = t /\ x.origin = u
        BY <2>2, <2>10, <3>2 DEF OwnerOf
      <4>2. x \in Range(m.outbounds)
        BY <2>3, <3>2, <4>1
      <4> QED  BY <4>1, <4>2
    <3>3. ASSUME NEW x \in Range(m.outbounds), x.tag = t, x.origin = u PROVE t \in m.tags
      <4>1. CASE \E n \in Range(incoming) : x = Bare(n)
        BY <2>2, <2>4, <2>5, <3>3, <4>1
      <4>2. CASE x \in Range(out) /\ (x.tag \notin owned \/ x.tag \in held)
        <5>1. x.tag \in owned
          BY <2>10, <3>3, <4>2 DEF OwnerOf
        <5> QED  BY <2>2, <3>3, <4>2, <5>1
      <4> QED  BY <2>3, <4>1, <4>2
    <3> QED  BY <2>2, <3>1, <3>2, <3>3
  <2>11. ASSUME OwnerOf(out, owned, u), NEW x, x.origin # u PROVE x \in Range(out) <=> x \in Range(m.outbounds)
    <3>1. x \in Range(m.outbounds) => x \in Range(out)
      BY <2>3, <2>5, <2>11
    <3>2. ASSUME x \in Range(out) PROVE x \in Range(m.outbounds)
      <4>1. x.tag \notin owned
        <5> SUFFICES ASSUME x.tag \in owned PROVE FALSE
          OBVIOUS
        <5>1. PICK y \in Range(out) : y.tag = x.tag /\ y.origin = u
          BY <2>11 DEF OwnerOf
        <5>2. x = y
          BY <3>2, <5>1, TagsOf
        <5> QED  BY <2>11, <5>1, <5>2
      <4> QED  BY <2>3, <3>2, <4>1
    <3> QED  BY <3>1, <3>2
  <2>12. nodes = <<>> => m.tags = {}
    <3>1. nodes = <<>> => incoming = <<>> /\ held = {}
      BY <2>1 DEF Outcome
    <3>2. Tags(<<>>) = {}
      BY DEF Tags
    <3> QED  BY <2>2, <3>1, <3>2
  <2>13. Synced(out, c, owned, u, m)
    BY <2>2, <2>7, <2>8, <2>9, <2>10, <2>11 DEF Synced
  <2> QED  BY <2>12, <2>13 DEF m
<1> QED  BY <1>1, <1>2, <1>3

-----------------------------------------------------------------------------
(* The list of the subscriptions *)

\* Subscriptions as saved, or as an operation has them: one for each URL
Subs == [url : Urls, tags : SUBSET AllTags]
Listing(l) ==
    /\ l \in Seq(Subs)
    /\ \A i, j \in DOMAIN l : l[i].url = l[j].url => i = j
    /\ \A i \in DOMAIN l : IsFiniteSet(l[i].tags)

\* No subscription claims a server of the user
Spared(out, l) == \A x \in Range(out) : x.origin = Hand => \A i \in DOMAIN l : x.tag \notin l[i].tags

\* The list and the config agree on who owns which node
Agreed(out, l) ==
    /\ \A x \in Range(out) : x.origin # Hand => \E i \in DOMAIN l : l[i].url = x.origin
    /\ \A i \in DOMAIN l : OwnerOf(out, l[i].tags, l[i].url)

ConfigOK == outbounds \in Seq(NodeIn) /\ One(outbounds) /\ chosen \in Tags(outbounds) \cup {Direct}
ListsOK == Listing(list) /\ Listing(subs) /\ Spared(outbounds, list) /\ Spared(outbounds, subs)
TurnOK ==
    /\ pc \in {"idle", "refresh"} /\ changed \in BOOLEAN /\ parted \in BOOLEAN
    /\ pc = "idle" => subs = <<>> /\ todo = {} /\ changed = FALSE
    /\ \A u \in todo : \E i \in DOMAIN subs : subs[i].url = u
OwnersOK == ~parted => Agreed(outbounds, IF pc = "idle" THEN list ELSE subs)
RunningOK == running \notin {Down, Stale} /\ ~changed => running = Image(outbounds, chosen)
SyncInv == ConfigOK /\ ListsOK /\ TurnOK /\ OwnersOK /\ RunningOK

\* What the entries of a list are
LEMMA Positions ==
    ASSUME NEW l, Listing(l)
    PROVE  /\ DOMAIN l = 1 .. Len(l) /\ Len(l) \in Nat
           /\ \A i \in DOMAIN l : /\ l[i] \in Subs /\ l[i].url \in Urls
                                  /\ l[i].tags \in SUBSET AllTags /\ IsFiniteSet(l[i].tags)
           /\ \A i, j \in DOMAIN l : l[i].url = l[j].url => i = j
<1>1. l \in Seq(Subs)
  BY DEF Listing
<1>2. DOMAIN l = 1 .. Len(l) /\ Len(l) \in Nat /\ \A i \in DOMAIN l : l[i] \in Subs
  BY <1>1
<1>3. \A s \in Subs : s.url \in Urls /\ s.tags \in SUBSET AllTags
  BY DEF Subs
<1> QED  BY <1>2, <1>3 DEF Listing

\* Between operations no list is worked on
LEMMA NoSubs == Listing(<<>>) /\ \A out : Spared(out, <<>>)
BY DEF Listing, Spared

\* The tags the subscriptions own (subscriptionTags)
LEMMA ReservedFinite ==
    ASSUME NEW l, Listing(l)
    PROVE  IsFiniteSet(Owned(l)) /\ \A t : t \in Owned(l) <=> \E i \in DOMAIN l : t \in l[i].tags
<1> DEFINE All == {l[i].tags : i \in DOMAIN l}
           f == [i \in 1 .. Len(l) |-> l[i].tags]
<1>1. DOMAIN l = 1 .. Len(l) /\ Len(l) \in Nat /\ \A i \in DOMAIN l : IsFiniteSet(l[i].tags)
  BY Positions
<1>2. f \in Surjection(1 .. Len(l), All)
  BY <1>1 DEF Surjection
<1>3. IsFiniteSet(1 .. Len(l))
  BY <1>1, FS_Interval
<1>4. \A T \in All : IsFiniteSet(T)
  BY <1>1
<1>5. Owned(l) = UNION All
  BY DEF Owned
<1>6. \A t : t \in Owned(l) <=> \E i \in DOMAIN l : t \in l[i].tags
  BY <1>5
<1> HIDE DEF All, f
<1>7. IsFiniteSet(All)
  BY <1>2, <1>3, FS_Surjection
<1>8. IsFiniteSet(UNION All)
  BY <1>4, <1>7, FS_UNION
<1> QED  BY <1>5, <1>6, <1>8

\* Add: a subscription of its own, without nodes, unless it is known
LEMMA WithOne ==
    ASSUME Listing(list), NEW u \in Urls
    PROVE  /\ Listing(With(u))
           /\ \E i \in DOMAIN With(u) : With(u)[i].url = u
           /\ Spared(outbounds, list) => Spared(outbounds, With(u))
           /\ Agreed(outbounds, list) /\ Hand # u => Agreed(outbounds, With(u))
<1> DEFINE l == With(u)
           n == Len(list)
           s == [url |-> u, tags |-> {}]
<1>1. CASE Known(list, u)
  BY <1>1 DEF With, Known
<1>2. CASE ~Known(list, u)
  <2>1. /\ DOMAIN list = 1 .. n /\ n \in Nat /\ list \in Seq(Subs)
        /\ \A i \in DOMAIN list : list[i] \in Subs /\ list[i].url \in Urls /\ IsFiniteSet(list[i].tags)
        /\ \A i, j \in DOMAIN list : list[i].url = list[j].url => i = j
    BY Positions DEF Listing
  <2>2. \A i \in 1 .. n : list[i].url # u
    BY <1>2, <2>1 DEF Known
  <2>3. s \in Subs /\ s.url = u /\ s.tags = {} /\ IsFiniteSet({})
    BY FS_EmptySet DEF Subs
  <2>4. l = Append(list, s)
    BY <1>2 DEF With
  <2> HIDE DEF s, l, n
  <2>5. /\ l \in Seq(Subs) /\ DOMAIN l = 1 .. n + 1 /\ l[n + 1] = s
        /\ \A i \in 1 .. n : l[i] = list[i]
    BY <2>1, <2>3, <2>4 DEF n
  <2>6. \A i \in 1 .. n + 1 : i \in 1 .. n \/ i = n + 1
    BY <2>1
  <2>7. n + 1 \in 1 .. n + 1 /\ \A i \in 1 .. n : i \in 1 .. n + 1
    BY <2>1
  <2>8. ASSUME NEW i \in DOMAIN l PROVE (i \in DOMAIN list /\ l[i] = list[i]) \/ (l[i] = s /\ i = n + 1)
    <3>1. i \in 1 .. n \/ i = n + 1
      BY <2>5, <2>6
    <3> QED  BY <2>1, <2>5, <3>1
  <2>9. Listing(l)
    <3>1. \A i, j \in DOMAIN l : l[i].url = l[j].url => i = j
      BY <2>1, <2>2, <2>3, <2>8
    <3>2. \A i \in DOMAIN l : IsFiniteSet(l[i].tags)
      BY <2>1, <2>3, <2>8
    <3> QED  BY <2>5, <3>1, <3>2 DEF Listing
  <2>10. \E i \in DOMAIN l : l[i].url = u
    BY <2>3, <2>5, <2>7
  <2>11. Spared(outbounds, list) => Spared(outbounds, l)
    BY <2>1, <2>3, <2>8 DEF Spared
  <2>12. ASSUME Agreed(outbounds, list), Hand # u PROVE Agreed(outbounds, l)
    <3>1. \A x \in Range(outbounds) : x.origin # Hand => \E i \in DOMAIN l : l[i].url = x.origin
      BY <2>1, <2>5, <2>7, <2>12 DEF Agreed
    <3>2. \A x \in Range(outbounds) : x.origin # u
      BY <2>1, <2>2, <2>12 DEF Agreed
    <3>3. OwnerOf(outbounds, s.tags, s.url)
      BY <2>3, <3>2 DEF OwnerOf
    <3>4. \A i \in DOMAIN l : OwnerOf(outbounds, l[i].tags, l[i].url)
      BY <2>8, <2>12, <3>3 DEF Agreed
    <3> QED  BY <3>1, <3>4 DEF Agreed
  <2> QED  BY <2>9, <2>10, <2>11, <2>12 DEF l
<1> QED  BY <1>1, <1>2

\* While there are URLs left, one subscription of the list is next (refresh)
LEMMA TurnIs ==
    ASSUME SyncInv, todo # {}
    PROVE  Turn \in DOMAIN subs /\ subs[Turn].url \in todo /\ subs[Turn].url \in Urls
<1> DEFINE Due == {i \in DOMAIN subs : subs[i].url \in todo}
<1>1. Listing(subs)
  BY DEF SyncInv, ListsOK
<1>2. DOMAIN subs = 1 .. Len(subs) /\ Len(subs) \in Nat /\ \A i \in DOMAIN subs : subs[i].url \in Urls
  BY <1>1, Positions
<1>3. Due # {} /\ Due \subseteq Nat
  BY <1>2 DEF SyncInv, TurnOK
<1>4. PICK i \in Due : \A j \in Due : i <= j
  BY <1>3, Least
<1>5. i \in DOMAIN subs /\ subs[i].url \in todo /\ \A j \in 1 .. i - 1 : subs[j].url \notin todo
  <2>1. ASSUME NEW j \in 1 .. i - 1 PROVE subs[j].url \notin todo
    <3>1. j \in DOMAIN subs /\ ~(i <= j)
      BY <1>2, <1>4
    <3> QED  BY <1>4, <3>1
  <2> QED  BY <1>4, <2>1
<1>6. Turn \in DOMAIN subs /\ subs[Turn].url \in todo
  BY <1>5 DEF Turn
<1> QED  BY <1>2, <1>6

\* A sync of the subscription at a position of a list: what holds for the list
\* holds for the list with its new tags
LEMMA ListSynced ==
    ASSUME NEW out \in Seq(NodeIn), One(out), NEW c, NEW l, Listing(l), Spared(out, l), NEW k \in DOMAIN l,
           NEW m, Synced(out, c, l[k].tags, l[k].url, m)
    PROVE  LET l2 == [l EXCEPT ![k].tags = m.tags] IN
           /\ Listing(l2) /\ Spared(m.outbounds, l2)
           /\ DOMAIN l2 = DOMAIN l /\ \A i \in DOMAIN l : l2[i].url = l[i].url
           /\ Agreed(out, l) => Agreed(m.outbounds, l2)
<1> DEFINE s == [l[k] EXCEPT !.tags = m.tags]
           l2 == [l EXCEPT ![k].tags = m.tags]
<1>1. /\ DOMAIN l = 1 .. Len(l) /\ Len(l) \in Nat /\ l \in Seq(Subs)
      /\ \A i \in DOMAIN l : l[i] \in Subs /\ l[i].url \in Urls /\ IsFiniteSet(l[i].tags)
      /\ \A i, j \in DOMAIN l : l[i].url = l[j].url => i = j
  BY Positions DEF Listing
<1>2. m.tags \in SUBSET AllTags /\ IsFiniteSet(m.tags)
  BY DEF Synced
<1>3. s \in Subs /\ s.url = l[k].url /\ s.tags = m.tags
  <2>1. l[k] \in Subs
    BY <1>1
  <2> QED  BY <1>2, <2>1 DEF Subs
<1>4. l2 = [l EXCEPT ![k] = s]
  OBVIOUS
<1> HIDE DEF s, l2
<1>5. /\ l2 \in Seq(Subs) /\ DOMAIN l2 = DOMAIN l /\ l2[k] = s
      /\ \A i \in DOMAIN l : i # k => l2[i] = l[i]
  BY <1>1, <1>3, <1>4
<1>6. \A i \in DOMAIN l : l2[i].url = l[i].url
  BY <1>3, <1>5
<1>7. Listing(l2)
  BY <1>1, <1>2, <1>3, <1>5, <1>6 DEF Listing
<1>8. Spared(m.outbounds, l2)
  <2> SUFFICES ASSUME NEW x \in Range(m.outbounds), x.origin = Hand, NEW i \in DOMAIN l PROVE x.tag \notin l2[i].tags
    BY <1>5 DEF Spared
  <2>1. x \in Range(out) /\ x.tag \notin m.tags
    BY DEF Synced
  <2> QED  BY <1>3, <1>5, <2>1 DEF Spared
<1>9. ASSUME Agreed(out, l) PROVE Agreed(m.outbounds, l2)
  <2>1. /\ OwnerOf(m.outbounds, m.tags, l[k].url)
        /\ \A x : x.origin # l[k].url => (x \in Range(out) <=> x \in Range(m.outbounds))
    BY <1>9 DEF Synced, Agreed
  <2>2. ASSUME NEW x \in Range(m.outbounds), x.origin # Hand PROVE \E i \in DOMAIN l2 : l2[i].url = x.origin
    BY <1>5, <1>6, <1>9, <2>1, <2>2 DEF Agreed
  <2>3. ASSUME NEW i \in DOMAIN l2 PROVE OwnerOf(m.outbounds, l2[i].tags, l2[i].url)
    <3>1. CASE i = k
      BY <1>3, <1>5, <2>1, <3>1
    <3>2. CASE i # k
      <4>1. l2[i] = l[i] /\ l[i].url # l[k].url /\ OwnerOf(out, l[i].tags, l[i].url)
        BY <1>1, <1>5, <1>9, <2>3, <3>2 DEF Agreed
      <4> QED  BY <2>1, <4>1 DEF OwnerOf
    <3> QED  BY <3>1, <3>2
  <2> QED  BY <2>2, <2>3 DEF Agreed
<1> QED  BY <1>5, <1>6, <1>7, <1>8, <1>9 DEF l2

\* The list without a subscription
Without(l, u) == Only(l, {x \in Range(l) : x.url # u})

\* Removing a subscription leaves the others (Remove)
LEMMA ListWithout ==
    ASSUME NEW l, Listing(l), NEW u
    PROVE  LET l2 == Without(l, u) IN
           /\ Listing(l2)
           /\ \A i \in DOMAIN l2 : \E j \in DOMAIN l : l2[i] = l[j] /\ l[j].url # u
           /\ \A j \in DOMAIN l : l[j].url # u => \E i \in DOMAIN l2 : l2[i] = l[j]
<1> DEFINE T == {x \in Range(l) : x.url # u}
           l2 == Only(l, T)
<1>1. /\ DOMAIN l = 1 .. Len(l) /\ Len(l) \in Nat /\ l \in Seq(Subs)
      /\ \A i \in DOMAIN l : IsFiniteSet(l[i].tags)
      /\ \A i, j \in DOMAIN l : l[i].url = l[j].url => i = j
  BY Positions DEF Listing
<1>2. \A x : x \in T <=> x \in Range(l) /\ x.url # u
  OBVIOUS
<1>3. \A i \in DOMAIN l : l[i] \in Range(l)
  BY DEF Range
<1>4. l2 \in Seq(Subs) /\ \E f : Picks(l, T, l2, f)
  BY <1>1, OnlyPlaces
<1> HIDE DEF T, l2
<1>5. PICK f : Picks(l, T, l2, f)
  BY <1>4
<1>6. DOMAIN l2 = 1 .. Len(l2) /\ Len(l2) \in Nat
  BY <1>4
<1>7. \A i \in DOMAIN l2 : f[i] \in DOMAIN l /\ l2[i] = l[f[i]] /\ l[f[i]] \in T
  BY <1>1, <1>5, <1>6 DEF Picks
<1>8. \A j \in DOMAIN l : l[j].url # u => \E i \in DOMAIN l2 : l2[i] = l[j]
  <2> SUFFICES ASSUME NEW j \in DOMAIN l, l[j].url # u PROVE \E i \in DOMAIN l2 : l2[i] = l[j]
    OBVIOUS
  <2>1. j \in 1 .. Len(l) /\ l[j] \in T
    BY <1>1, <1>2, <1>3
  <2>2. \E k \in 1 .. Len(l2) : f[k] = j
    BY <1>5, <2>1 DEF Picks
  <2>3. \A k \in 1 .. Len(l2) : l2[k] = l[f[k]]
    BY <1>5 DEF Picks
  <2> QED  BY <1>6, <2>2, <2>3
<1>9. \A i, j \in DOMAIN l2 : l2[i].url = l2[j].url => i = j
  <2> SUFFICES ASSUME NEW i \in DOMAIN l2, NEW j \in DOMAIN l2, l2[i].url = l2[j].url PROVE i = j
    OBVIOUS
  <2>1. f[i] = f[j]
    BY <1>1, <1>7
  <2>2. (i < j => f[i] < f[j]) /\ (j < i => f[j] < f[i])
    BY <1>5, <1>6 DEF Picks
  <2>3. f[i] \in Nat
    BY <1>1, <1>7
  <2> QED  BY <1>6, <2>1, <2>2, <2>3
<1>10. Listing(l2)
  BY <1>1, <1>4, <1>7, <1>9 DEF Listing
<1> QED  BY <1>2, <1>7, <1>8, <1>10 DEF l2, T, Without

\* An import takes no name of a subscription, so it replaces none of their nodes (AddOutbounds)
LEMMA Imported ==
    ASSUME SyncInv, pc = "idle", NEW n \in Imports,
           outbounds' = Upsert(outbounds, SuffixTaken(Judged(<<n>>, Hand, {}), Reserved))
    PROVE  /\ outbounds' \in Seq(NodeIn) /\ One(outbounds') /\ Tags(outbounds) \subseteq Tags(outbounds')
           /\ Spared(outbounds', list)
           /\ ~parted => Agreed(outbounds', list)
<1> DEFINE nodes == Judged(<<n>>, Hand, {})
           new == SuffixTaken(nodes, Reserved)
<1>1. outbounds \in Seq(NodeIn) /\ One(outbounds) /\ Listing(list) /\ Spared(outbounds, list)
  BY DEF SyncInv, ConfigOK, ListsOK
<1>2. IsFiniteSet(Reserved) /\ \A t : t \in Reserved <=> \E i \in DOMAIN list : t \in list[i].tags
  BY <1>1, ReservedFinite DEF Reserved
<1>3. /\ nodes \in Seq(Judgeds) /\ Distinct(nodes)
      /\ \A i \in 1 .. Len(nodes) : nodes[i].origin = Hand
  <2>1. <<n>> \in Seq(Node) /\ \A i, j \in DOMAIN <<n>> : <<n>>[i].name = <<n>>[j].name => i = j
    BY BodiesAssumption
  <2> QED  BY <2>1, ProviderList
<1> HIDE DEF nodes
<1>4. /\ new \in Seq(Nameds) /\ One(new) /\ Len(new) = Len(nodes)
      /\ \A i \in 1 .. Len(nodes) : new[i].tag \notin Reserved /\ new[i].origin = nodes[i].origin
  BY <1>2, <1>3, NamedApart
<1>5. outbounds' = Upsert(outbounds, new)
  BY DEF nodes
<1> HIDE DEF new
<1>6. \A x \in Range(new) : x \in Nameds /\ x.tag \notin Reserved /\ x.origin = Hand /\ x.tag \in Tags(new)
  <2> SUFFICES ASSUME NEW x \in Range(new) PROVE x \in Nameds /\ x.tag \notin Reserved /\ x.origin = Hand /\ x.tag \in Tags(new)
    OBVIOUS
  <2>1. PICK i \in 1 .. Len(new) : new[i] = x
    BY <1>4, TagsOf
  <2>2. x \in Nameds /\ x.tag \in Tags(new)
    BY <1>4, TagsOf
  <2> QED  BY <1>3, <1>4, <2>1, <2>2
<1>7. /\ outbounds' \in Seq(NodeIn) /\ One(outbounds')
      /\ \A x : x \in Range(outbounds') <=> \/ x \in Range(outbounds) /\ x.tag \notin Tags(new)
                                            \/ \E y \in Range(new) : x = Bare(y)
  BY <1>1, <1>4, <1>5, Upserted
<1>8. \A y \in Range(new) : Bare(y).tag = y.tag /\ Bare(y).origin = Hand /\ Bare(y).tag \notin Reserved
  BY <1>6, BareNode
<1>9. \A x \in Range(outbounds') : x \in Range(outbounds) \/ (x.origin = Hand /\ x.tag \notin Reserved)
  BY <1>7, <1>8
<1>10. \A t \in Tags(new) : t \notin Reserved
  <2> SUFFICES ASSUME NEW t \in Tags(new) PROVE t \notin Reserved
    OBVIOUS
  <2>1. PICK y \in Range(new) : y.tag = t
    BY <1>4, TagsOf
  <2> QED  BY <1>6, <2>1
<1>11. ASSUME NEW t \in Tags(outbounds) PROVE t \in Tags(outbounds')
  <2>1. PICK x \in Range(outbounds) : x.tag = t
    BY <1>1, TagsOf
  <2>2. CASE t \in Tags(new)
    <3>1. PICK y \in Range(new) : y.tag = t
      BY <1>4, <2>2, TagsOf
    <3>2. Bare(y) \in Range(outbounds') /\ Bare(y).tag = t
      BY <1>7, <1>8, <3>1
    <3> QED  BY <1>7, <3>2, TagsOf
  <2>3. CASE t \notin Tags(new)
    <3>1. x \in Range(outbounds')
      BY <1>7, <2>1, <2>3
    <3> QED  BY <1>7, <2>1, <3>1, TagsOf
  <2> QED  BY <2>2, <2>3
<1>12. Spared(outbounds', list)
  BY <1>1, <1>2, <1>9 DEF Spared
<1>13. ASSUME ~parted PROVE Agreed(outbounds', list)
  <2>1. Agreed(outbounds, list)
    BY <1>13 DEF SyncInv, OwnersOK
  <2>2. \A x \in Range(outbounds') : x.origin # Hand => \E i \in DOMAIN list : list[i].url = x.origin
    BY <1>9, <2>1 DEF Agreed
  <2>3. ASSUME NEW i \in DOMAIN list, NEW t
        PROVE  t \in list[i].tags <=> \E x \in Range(outbounds') : x.tag = t /\ x.origin = list[i].url
    <3>1. list[i].url # Hand
      BY <1>1, Positions, ApartAssumption
    <3>2. OwnerOf(outbounds, list[i].tags, list[i].url)
      BY <2>1 DEF Agreed
    <3>3. ASSUME t \in list[i].tags PROVE \E x \in Range(outbounds') : x.tag = t /\ x.origin = list[i].url
      <4>1. PICK x \in Range(outbounds) : x.tag = t /\ x.origin = list[i].url
        BY <3>2, <3>3 DEF OwnerOf
      <4>2. x.tag \notin Tags(new)
        BY <1>2, <1>10, <3>3, <4>1
      <4> QED  BY <1>7, <4>1, <4>2
    <3>4. ASSUME NEW x \in Range(outbounds'), x.tag = t, x.origin = list[i].url PROVE t \in list[i].tags
      BY <1>9, <3>1, <3>2, <3>4 DEF OwnerOf
    <3> QED  BY <3>3, <3>4
  <2> QED  BY <2>2, <2>3 DEF Agreed, OwnerOf
<1> QED  BY <1>7, <1>11, <1>12, <1>13

-----------------------------------------------------------------------------
(* The operations *)

\* The lists a provider may serve
LEMMA Body ==
    ASSUME NEW u \in Urls, NEW b \in Bodies[u], NEW bad
    PROVE  LET s == Judged(b, u, bad) IN
           /\ s \in Seq(Judgeds) /\ Distinct(s) /\ s # <<>>
           /\ \A i \in 1 .. Len(s) : s[i].origin = u
<1>1. b \in Seq(Node) /\ b # <<>> /\ \A i, j \in DOMAIN b : b[i].name = b[j].name => i = j
  BY BodiesAssumption
<1> QED  BY <1>1, ProviderList

\* A sync with some list
Merged(out, c, owned, m) == \E nodes \in Seq(Judgeds) : Distinct(nodes) /\ m = SyncMerge(out, c, owned, nodes)

\* A refresh that reaches the config: a sync of the subscription whose turn it is
LEMMA RefreshSyncs ==
    ASSUME SyncInv, Refresh
    PROVE  \E m : /\ Merged(outbounds, chosen, subs[Turn].tags, m)
                  /\ Synced(outbounds, chosen, subs[Turn].tags, subs[Turn].url, m)
                  /\ outbounds' = m.outbounds /\ chosen' = m.chosen
                  /\ subs' = [subs EXCEPT ![Turn].tags = m.tags]
                  /\ changed' = (changed \/ m.restart)
                  /\ todo' = todo \ {subs[Turn].url}
<1> DEFINE u == subs[Turn].url
<1>1. Turn \in DOMAIN subs /\ u \in Urls
  BY TurnIs DEF Refresh
<1>2. /\ outbounds \in Seq(NodeIn) /\ One(outbounds) /\ chosen \in Tags(outbounds) \cup {Direct}
      /\ Listing(subs) /\ Spared(outbounds, subs)
  BY DEF SyncInv, ConfigOK, ListsOK
<1>3. subs[Turn].tags \in SUBSET AllTags /\ IsFiniteSet(subs[Turn].tags)
  BY <1>1, <1>2, Positions
<1>4. \A x \in Range(outbounds) : x.origin = Hand => x.tag \notin subs[Turn].tags
  BY <1>1, <1>2 DEF Spared
<1>5. PICK b \in Bodies[u] : \E bad \in Verdicts(b) :
          LET m == SyncMerge(outbounds, chosen, subs[Turn].tags, Judged(b, u, bad)) IN
             /\ outbounds' = m.outbounds
             /\ chosen' = m.chosen
             /\ subs' = [subs EXCEPT ![Turn].tags = m.tags]
             /\ changed' = (changed \/ m.restart)
             /\ todo' = todo \ {u}
  BY DEF Refresh, Accumulate
<1>9. PICK bad \in Verdicts(b) :
          LET m == SyncMerge(outbounds, chosen, subs[Turn].tags, Judged(b, u, bad)) IN
             /\ outbounds' = m.outbounds
             /\ chosen' = m.chosen
             /\ subs' = [subs EXCEPT ![Turn].tags = m.tags]
             /\ changed' = (changed \/ m.restart)
             /\ todo' = todo \ {u}
  BY <1>5
<1> DEFINE nodes == Judged(b, u, bad)
           m == SyncMerge(outbounds, chosen, subs[Turn].tags, nodes)
<1>10. b \in Bodies[u]
  OBVIOUS
<1> HIDE DEF u
<1>6. nodes \in Seq(Judgeds) /\ Distinct(nodes) /\ \A i \in 1 .. Len(nodes) : nodes[i].origin = u
  BY <1>1, <1>10, Body
<1> HIDE DEF nodes
<1>7. Synced(outbounds, chosen, subs[Turn].tags, u, m)
  BY <1>1, <1>2, <1>3, <1>4, <1>6, SyncOne
<1>8. Merged(outbounds, chosen, subs[Turn].tags, m)
  BY <1>6 DEF Merged
<1> HIDE DEF m
<1> QED  BY <1>9, <1>7, <1>8 DEF m, nodes, u

\* Remove: a sync with nothing, and the list without the subscription
LEMMA RemoveSyncs ==
    ASSUME SyncInv, NEW u \in Urls, RemoveUrl(u)
    PROVE  \E k \in DOMAIN list : \E m :
              /\ list[k].url = u /\ Merged(outbounds, chosen, list[k].tags, m)
              /\ Synced(outbounds, chosen, list[k].tags, u, m) /\ m.tags = {}
              /\ outbounds' = m.outbounds /\ chosen' = m.chosen /\ changed' = m.restart
              /\ subs' = Without(list, u)
<1>1. /\ outbounds \in Seq(NodeIn) /\ One(outbounds) /\ chosen \in Tags(outbounds) \cup {Direct}
      /\ Listing(list) /\ Spared(outbounds, list)
  BY DEF SyncInv, ConfigOK, ListsOK
<1>2. PICK s \in Range(list) : /\ s.url = u
                              /\ outbounds' = SyncMerge(outbounds, chosen, s.tags, <<>>).outbounds
                              /\ chosen' = SyncMerge(outbounds, chosen, s.tags, <<>>).chosen
                              /\ changed' = SyncMerge(outbounds, chosen, s.tags, <<>>).restart
                              /\ subs' = Without(list, u)
  BY DEF RemoveUrl, Without
<1>3. PICK k \in DOMAIN list : list[k] = s
  BY DEF Range
<1> DEFINE m == SyncMerge(outbounds, chosen, s.tags, <<>>)
<1>4. s.tags \in SUBSET AllTags /\ IsFiniteSet(s.tags)
  BY <1>1, <1>3, Positions
<1>5. \A x \in Range(outbounds) : x.origin = Hand => x.tag \notin s.tags
  BY <1>1, <1>3 DEF Spared
<1>6. <<>> \in Seq(Judgeds) /\ Distinct(<<>>) /\ \A i \in 1 .. Len(<<>>) : <<>>[i].origin = u
  BY DEF Distinct
<1>7. Synced(outbounds, chosen, s.tags, u, m) /\ m.tags = {}
  BY <1>1, <1>4, <1>5, <1>6, SyncOne
<1>8. Merged(outbounds, chosen, s.tags, m)
  BY <1>6 DEF Merged
<1> HIDE DEF m
<1> QED  BY <1>2, <1>3, <1>7, <1>8 DEF m

\* A restart that applies the config, or fails (RestartIfRunning)
LEMMA Applied ==
    ASSUME NEW due \in BOOLEAN, Apply(due),
           ~due /\ running \notin {Down, Stale} => running = Image(outbounds', chosen')
    PROVE  running' \notin {Down, Stale} => running' = Image(outbounds', chosen')
BY DEF Apply

\* An operation between others: nothing is left of it
LEMMA IdleAgain ==
    ASSUME pc' = "idle", subs' = <<>>, todo' = {}, changed' = FALSE, parted' \in BOOLEAN,
           outbounds' \in Seq(NodeIn), One(outbounds'), chosen' \in Tags(outbounds') \cup {Direct},
           Listing(list'), Spared(outbounds', list'), ~parted' => Agreed(outbounds', list'),
           running' \notin {Down, Stale} => running' = Image(outbounds', chosen')
    PROVE  SyncInv'
<1>1. ConfigOK'
  BY DEF ConfigOK
<1>2. ListsOK'
  BY NoSubs DEF ListsOK
<1>3. TurnOK'
  BY DEF TurnOK
<1>4. OwnersOK' /\ RunningOK'
  BY DEF OwnersOK, RunningOK
<1> QED  BY <1>1, <1>2, <1>3, <1>4 DEF SyncInv

\* An operation begins with a copy of the list (Add, Update, UpdateAll)
LEMMA LoadKeeps ==
    ASSUME SyncInv, pc = "idle", NEW copy, NEW urls, Load(copy, urls), Listing(copy), Spared(outbounds, copy),
           \A u \in urls : \E i \in DOMAIN copy : copy[i].url = u,
           Agreed(outbounds, list) => Agreed(outbounds, copy)
    PROVE  SyncInv'
<1>1. ConfigOK' /\ ListsOK' /\ TurnOK'
  BY DEF SyncInv, ConfigOK, ListsOK, TurnOK, Load, config
<1>2. OwnersOK'
  BY DEF SyncInv, OwnersOK, Load, config
<1>3. RunningOK'
  BY DEF SyncInv, RunningOK, TurnOK, Load, config
<1> QED  BY <1>1, <1>2, <1>3 DEF SyncInv

\* The subscriptions and the config at every step of every operation: every tag names one
\* node, no subscription claims a server of the user's, each node has its owner, and a
\* running sing-box works with the config unless a restart is due
THEOREM SyncInvariance == Spec => []SyncInv
<1>1. Init => SyncInv
  <2> SUFFICES ASSUME Init PROVE SyncInv
    OBVIOUS
  <2> DEFINE nodes == Judged(Own, Hand, {})
             new == SuffixTaken(nodes, {})
  <2>1. /\ nodes \in Seq(Judgeds) /\ Distinct(nodes) /\ \A i \in 1 .. Len(nodes) : nodes[i].origin = Hand
    <3>1. Own \in Seq(Node) /\ \A i, j \in DOMAIN Own : Own[i].name = Own[j].name => i = j
      BY BodiesAssumption
    <3>2. Hand \in Urls \cup {Hand}
      OBVIOUS
    <3> QED  BY <3>1, <3>2, ProviderList
  <2> HIDE DEF nodes
  <2>2. /\ new \in Seq(Nameds) /\ One(new) /\ Len(new) = Len(nodes)
        /\ \A i \in 1 .. Len(nodes) : new[i].origin = nodes[i].origin
    BY <2>1, NamedApart, FS_EmptySet
  <2>3. outbounds = Upsert(<<>>, new)
    BY DEF Init, nodes
  <2> HIDE DEF new
  <2> DEFINE none == <<>>
  <2>4. none \in Seq(NodeIn) /\ One(none) /\ Range(none) = {}
    BY DEF One, Range
  <2>5. /\ outbounds \in Seq(NodeIn) /\ One(outbounds)
        /\ \A x : x \in Range(outbounds) => \E y \in Range(new) : x = Bare(y)
    <3>1. new \in Seq(Nameds) /\ One(new)
      BY <2>2
    <3>3. outbounds = Upsert(none, new)
      BY <2>3
    <3> HIDE DEF none
    <3>2. /\ outbounds \in Seq(NodeIn) /\ One(outbounds)
          /\ \A x : x \in Range(outbounds) <=>
                  \/ (x \in Range(none) /\ x.tag \notin Tags(new))
                  \/ \E y \in Range(new) : x = Bare(y)
      BY <2>4, <3>1, <3>3, Upserted
    <3> QED  BY <2>4, <3>2
  <2>6. \A y \in Range(new) : Bare(y).origin = Hand
    <3> SUFFICES ASSUME NEW y \in Range(new) PROVE Bare(y).origin = Hand
      OBVIOUS
    <3>1. PICK i \in 1 .. Len(new) : new[i] = y
      BY <2>2, TagsOf
    <3>2. y \in Nameds
      BY <2>2, TagsOf
    <3> QED  BY <2>1, <2>2, <3>1, <3>2, BareNode
  <2>7. ConfigOK
    BY <2>5 DEF Init, ConfigOK
  <2>8. ListsOK /\ TurnOK /\ RunningOK
    BY NoSubs DEF Init, ListsOK, TurnOK, RunningOK
  <2>9. OwnersOK
    BY <2>5, <2>6 DEF Init, OwnersOK, Agreed
  <2> QED  BY <2>7, <2>8, <2>9 DEF SyncInv
<1>2. SyncInv /\ [Next]_vars => SyncInv'
  <2> SUFFICES ASSUME SyncInv, [Next]_vars PROVE SyncInv'
    OBVIOUS
  <2> USE DEF config
  <2>1. /\ outbounds \in Seq(NodeIn) /\ One(outbounds) /\ chosen \in Tags(outbounds) \cup {Direct}
        /\ Listing(list) /\ Listing(subs) /\ Spared(outbounds, list) /\ Spared(outbounds, subs)
    BY DEF SyncInv, ConfigOK, ListsOK
  <2>2. /\ changed \in BOOLEAN /\ parted \in BOOLEAN
        /\ pc = "idle" => subs = <<>> /\ todo = {} /\ changed = FALSE
        /\ \A u \in todo : \E i \in DOMAIN subs : subs[i].url = u
        /\ pc = "idle" /\ ~parted => Agreed(outbounds, list)
        /\ pc = "refresh" /\ ~parted => Agreed(outbounds, subs)
        /\ running \notin {Down, Stale} /\ ~changed => running = Image(outbounds, chosen)
    BY DEF SyncInv, TurnOK, OwnersOK, RunningOK
  <2>3. ASSUME NEW u \in Urls, Add(u) PROVE SyncInv'
    <3>1. /\ Listing(With(u)) /\ Spared(outbounds, With(u))
          /\ \A v \in {u} : \E i \in DOMAIN With(u) : With(u)[i].url = v
          /\ Agreed(outbounds, list) => Agreed(outbounds, With(u))
      BY <2>1, ApartAssumption, WithOne
    <3>2. pc = "idle" /\ Load(With(u), {u})
      BY <2>3 DEF Add, Load
    <3> QED  BY <3>1, <3>2, LoadKeeps
  <2>4. ASSUME NEW u \in Urls, Update(u) PROVE SyncInv'
    <3>1. pc = "idle" /\ Load(list, {u}) /\ \A v \in {u} : \E i \in DOMAIN list : list[i].url = v
      BY <2>4 DEF Update, Load, Known
    <3> QED  BY <2>1, <3>1, LoadKeeps
  <2>5. ASSUME UpdateAll PROVE SyncInv'
    <3> DEFINE urls == {list[i].url : i \in DOMAIN list}
    <3>1. pc = "idle" /\ Load(list, urls) /\ \A v \in urls : \E i \in DOMAIN list : list[i].url = v
      BY <2>5 DEF UpdateAll, Load
    <3> QED  BY <2>1, <3>1, LoadKeeps
  <2>6. ASSUME Refresh PROVE SyncInv'
    <3>1. PICK m : /\ Merged(outbounds, chosen, subs[Turn].tags, m)
                   /\ Synced(outbounds, chosen, subs[Turn].tags, subs[Turn].url, m)
                   /\ outbounds' = m.outbounds /\ chosen' = m.chosen
                   /\ subs' = [subs EXCEPT ![Turn].tags = m.tags]
                   /\ changed' = (changed \/ m.restart)
                   /\ todo' = todo \ {subs[Turn].url}
      BY <2>6, RefreshSyncs
    <3>2. Turn \in DOMAIN subs
      BY <2>6, TurnIs DEF Refresh
    <3>3. /\ Listing(subs') /\ Spared(outbounds', subs')
          /\ DOMAIN subs' = DOMAIN subs /\ \A i \in DOMAIN subs : subs'[i].url = subs[i].url
          /\ Agreed(outbounds, subs) => Agreed(outbounds', subs')
      <4> DEFINE l2 == [subs EXCEPT ![Turn].tags = m.tags]
      <4>1. /\ Listing(l2) /\ Spared(m.outbounds, l2)
            /\ DOMAIN l2 = DOMAIN subs /\ \A i \in DOMAIN subs : l2[i].url = subs[i].url
            /\ Agreed(outbounds, subs) => Agreed(m.outbounds, l2)
        <5>1. Synced(outbounds, chosen, subs[Turn].tags, subs[Turn].url, m)
          BY <3>1
        <5> QED  BY <2>1, <3>2, <5>1, ListSynced
      <4>2. subs' = l2 /\ outbounds' = m.outbounds
        BY <3>1
      <4> HIDE DEF l2
      <4> QED  BY <4>1, <4>2
    <3>4. pc = "refresh" /\ pc' = "refresh" /\ list' = list /\ running' = running /\ parted' = parted
      BY <2>6 DEF Refresh
    <3>5. /\ outbounds' \in Seq(NodeIn) /\ One(outbounds') /\ chosen' \in Tags(outbounds') \cup {Direct}
          /\ m.restart \in BOOLEAN /\ (~m.restart => Image(outbounds', chosen') = Image(outbounds, chosen))
          /\ \A x \in Range(outbounds') : x.origin = Hand => x \in Range(outbounds)
      BY <3>1 DEF Synced
    <3>6. Spared(outbounds', list')
      BY <2>1, <3>4, <3>5 DEF Spared
    <3>7. ConfigOK' /\ ListsOK'
      BY <2>1, <3>3, <3>4, <3>5, <3>6 DEF ConfigOK, ListsOK
    <3>8. TurnOK'
      BY <2>2, <3>1, <3>3, <3>4, <3>5 DEF TurnOK
    <3>9. OwnersOK'
      BY <2>2, <3>3, <3>4 DEF OwnersOK
    <3>10. RunningOK'
      BY <2>2, <3>1, <3>4, <3>5 DEF RunningOK
    <3> QED  BY <3>7, <3>8, <3>9, <3>10 DEF SyncInv
  <2>7. ASSUME RefreshFails PROVE SyncInv'
    <3>1. ConfigOK' /\ ListsOK'
      BY <2>1, <2>7 DEF RefreshFails, ConfigOK, ListsOK
    <3>2. TurnOK' /\ OwnersOK' /\ RunningOK'
      BY <2>2, <2>7 DEF RefreshFails, TurnOK, OwnersOK, RunningOK
    <3> QED  BY <3>1, <3>2 DEF SyncInv
  <2>8. ASSUME NEW u \in Urls, RemoveUrl(u) PROVE SyncInv'
    <3>21. PICK k \in DOMAIN list : \E m :
              /\ list[k].url = u /\ Merged(outbounds, chosen, list[k].tags, m)
              /\ Synced(outbounds, chosen, list[k].tags, u, m) /\ m.tags = {}
              /\ outbounds' = m.outbounds /\ chosen' = m.chosen /\ changed' = m.restart
              /\ subs' = Without(list, u)
      BY <2>8, RemoveSyncs
    <3>22. k \in DOMAIN list
      BY <3>21
    <3>1. PICK m :
              /\ list[k].url = u /\ Merged(outbounds, chosen, list[k].tags, m)
              /\ Synced(outbounds, chosen, list[k].tags, u, m) /\ m.tags = {}
              /\ outbounds' = m.outbounds /\ chosen' = m.chosen /\ changed' = m.restart
              /\ subs' = Without(list, u)
      BY <3>21
    <3>2. pc = "idle" /\ pc' = "refresh" /\ todo' = {} /\ list' = list /\ running' = running /\ parted' = parted
      BY <2>8 DEF RemoveUrl
    <3>3. /\ Listing(subs')
          /\ \A i \in DOMAIN subs' : \E j \in DOMAIN list : subs'[i] = list[j] /\ list[j].url # u
          /\ \A j \in DOMAIN list : list[j].url # u => \E i \in DOMAIN subs' : subs'[i] = list[j]
      <4> DEFINE l2 == Without(list, u)
      <4>1. /\ Listing(l2)
            /\ \A i \in DOMAIN l2 : \E j \in DOMAIN list : l2[i] = list[j] /\ list[j].url # u
            /\ \A j \in DOMAIN list : list[j].url # u => \E i \in DOMAIN l2 : l2[i] = list[j]
        BY <2>1, ListWithout
      <4>2. subs' = l2
        BY <3>1
      <4> HIDE DEF l2
      <4> QED  BY <4>1, <4>2
    <3>4. /\ outbounds' \in Seq(NodeIn) /\ One(outbounds') /\ chosen' \in Tags(outbounds') \cup {Direct}
          /\ changed' \in BOOLEAN /\ (~changed' => Image(outbounds', chosen') = Image(outbounds, chosen))
          /\ \A x \in Range(outbounds') : x.origin = Hand => x \in Range(outbounds)
      BY <3>1 DEF Synced
    <3>5. Spared(outbounds', list') /\ Spared(outbounds', subs')
      BY <2>1, <3>2, <3>3, <3>4 DEF Spared
    <3>6. ConfigOK' /\ ListsOK'
      BY <2>1, <3>2, <3>3, <3>4, <3>5 DEF ConfigOK, ListsOK
    <3>7. TurnOK'
      BY <2>2, <3>2, <3>4 DEF TurnOK
    <3>8. RunningOK'
      BY <2>2, <3>2, <3>4 DEF RunningOK
    <3>9. ASSUME ~parted PROVE Agreed(outbounds', subs')
      <4>1. Agreed(outbounds, list)
        BY <2>2, <3>2, <3>9
      <4>2. OwnerOf(outbounds, list[k].tags, u)
        BY <3>1, <4>1 DEF Agreed
      <4>3. /\ \A x \in Range(outbounds') : x.origin # u
            /\ \A x : x.origin # u => (x \in Range(outbounds) <=> x \in Range(outbounds'))
        BY <3>1, <4>2 DEF Synced, OwnerOf
      <4>4. \A x \in Range(outbounds') : x.origin # Hand => \E i \in DOMAIN subs' : subs'[i].url = x.origin
        BY <3>3, <4>1, <4>3 DEF Agreed
      <4>5. ASSUME NEW i \in DOMAIN subs' PROVE OwnerOf(outbounds', subs'[i].tags, subs'[i].url)
        <5>1. PICK j \in DOMAIN list : subs'[i] = list[j] /\ list[j].url # u
          BY <3>3
        <5>2. OwnerOf(outbounds, list[j].tags, list[j].url)
          BY <4>1 DEF Agreed
        <5> QED  BY <4>3, <5>1, <5>2 DEF OwnerOf
      <4> QED  BY <4>4, <4>5 DEF Agreed
    <3>10. OwnersOK'
      BY <3>2, <3>9 DEF OwnersOK
    <3> QED  BY <3>6, <3>7, <3>8, <3>10 DEF SyncInv
  <2>9. ASSUME Save PROVE SyncInv'
    <3>1. pc = "refresh" /\ list' = subs /\ outbounds' = outbounds /\ chosen' = chosen /\ parted' = parted
      BY <2>9 DEF Save
    <3>2. Apply(changed) /\ Done
      BY <2>9 DEF Save
    <3>3. running' \notin {Down, Stale} => running' = Image(outbounds', chosen')
      BY <2>2, <3>1, <3>2, Applied
    <3> QED  BY <2>1, <2>2, <3>1, <3>2, <3>3, IdleAgain DEF Done
  <2>10. ASSUME Interrupted PROVE SyncInv'
    <3>1. /\ pc = "refresh" /\ list' = list /\ outbounds' = outbounds /\ chosen' = chosen
          /\ parted' = (parted \/ subs # list) /\ Done
          /\ running' = IF changed /\ running # Down THEN Stale ELSE running
      BY <2>10 DEF Interrupted
    <3>2. running' \notin {Down, Stale} => running' = Image(outbounds', chosen')
      BY <2>2, <3>1
    <3>3. parted' \in BOOLEAN /\ (~parted' => Agreed(outbounds', list'))
      BY <2>2, <3>1
    <3> QED  BY <2>1, <3>1, <3>2, <3>3, IdleAgain DEF Done
  <2>11. ASSUME Start \/ Stop PROVE SyncInv'
    <3>1. ConfigOK' /\ ListsOK'
      BY <2>1, <2>11 DEF Start, Stop, ConfigOK, ListsOK
    <3>2. TurnOK' /\ OwnersOK' /\ RunningOK'
      BY <2>2, <2>11 DEF SyncInv, Start, Stop, TurnOK, OwnersOK, RunningOK
    <3> QED  BY <3>1, <3>2 DEF SyncInv
  <2>12. ASSUME NEW n \in Imports, Import(n) PROVE SyncInv'
    <3>1. /\ pc = "idle" /\ outbounds' = Upsert(outbounds, SuffixTaken(Judged(<<n>>, Hand, {}), Reserved))
          /\ chosen' = chosen /\ list' = list /\ pc' = pc /\ subs' = subs /\ todo' = todo /\ changed' = changed
          /\ parted' = parted /\ Apply(outbounds' # outbounds)
      BY <2>12 DEF Import
    <3>2. /\ outbounds' \in Seq(NodeIn) /\ One(outbounds') /\ Tags(outbounds) \subseteq Tags(outbounds')
          /\ Spared(outbounds', list)
          /\ ~parted => Agreed(outbounds', list)
      BY <3>1, Imported
    <3>3. running' \notin {Down, Stale} => running' = Image(outbounds', chosen')
      BY <2>2, <3>1, Applied
    <3>4. chosen' \in Tags(outbounds') \cup {Direct}
      BY <2>1, <3>1, <3>2
    <3> QED  BY <2>1, <2>2, <3>1, <3>2, <3>3, <3>4, IdleAgain
  <2>13. ASSUME NEW t \in Tags(outbounds), Switch(t) PROVE SyncInv'
    <3>1. /\ pc = "idle" /\ outbounds' = outbounds
          /\ chosen' = t /\ list' = list /\ pc' = pc /\ subs' = subs /\ todo' = todo /\ changed' = changed
          /\ parted' = parted /\ Apply(TRUE)
      BY <2>13 DEF Switch
    <3>2. running' \notin {Down, Stale} => running' = Image(outbounds', chosen')
      BY <3>1, Applied
    <3> QED  BY <2>1, <2>2, <3>1, <3>2, IdleAgain
  <2>14. ASSUME NEW t \in Tags(outbounds), Delete(t) PROVE SyncInv'
    <3>1. /\ pc = "idle" /\ outbounds' = Untagged(outbounds, {t}) /\ t # chosen
          /\ chosen' = chosen /\ list' = list /\ pc' = pc /\ subs' = subs /\ todo' = todo /\ changed' = changed
          /\ parted' = (parted \/ t \in Owned(list)) /\ Apply(TRUE)
      BY <2>14 DEF Delete
    <3>2. running' \notin {Down, Stale} => running' = Image(outbounds', chosen')
      BY <3>1, Applied
    <3>3. /\ outbounds' \in Seq(NodeIn) /\ One(outbounds')
          /\ \A x : x \in Range(outbounds') <=> x \in Range(outbounds) /\ x.tag # t
      BY <2>1, <3>1, TaggedThose
    <3>4. chosen' \in Tags(outbounds') \cup {Direct}
      <4>1. CASE chosen = Direct
        BY <3>1, <4>1
      <4>2. CASE chosen \in Tags(outbounds)
        <5>1. PICK x \in Range(outbounds) : x.tag = chosen
          BY <2>1, <4>2, TagsOf
        <5>2. x \in Range(outbounds')
          BY <3>1, <3>3, <5>1
        <5> QED  BY <3>1, <3>3, <5>1, <5>2, TagsOf
      <4> QED  BY <2>1, <4>1, <4>2
    <3>5. Spared(outbounds', list')
      BY <2>1, <3>1, <3>3 DEF Spared
    <3>6. ASSUME ~parted' PROVE Agreed(outbounds', list')
      <4>1. Agreed(outbounds, list) /\ t \notin Owned(list)
        BY <2>2, <3>1, <3>6
      <4>2. \A i \in DOMAIN list : t \notin list[i].tags
        BY <2>1, <4>1, ReservedFinite
      <4>3. \A i \in DOMAIN list : OwnerOf(outbounds', list[i].tags, list[i].url)
        BY <3>3, <4>1, <4>2 DEF Agreed, OwnerOf
      <4> QED  BY <3>1, <3>3, <4>1, <4>3 DEF Agreed
    <3>7. parted' \in BOOLEAN
      BY <2>2, <3>1
    <3> QED  BY <2>1, <2>2, <3>1, <3>2, <3>3, <3>4, <3>5, <3>6, <3>7, IdleAgain
  <2>15. CASE UNCHANGED vars
    BY <2>15 DEF vars, SyncInv, ConfigOK, ListsOK, TurnOK, OwnersOK, RunningOK
  <2> QED  BY <2>3, <2>4, <2>5, <2>6, <2>7, <2>8, <2>9, <2>10, <2>11, <2>12, <2>13, <2>14,
     <2>15 DEF Next
<1> QED  BY <1>1, <1>2, PTL DEF Spec

-----------------------------------------------------------------------------
(* What follows of the invariant *)

\* As many tags as nodes
LEMMA Counted ==
    ASSUME NEW R, NEW s \in Seq(R)
    PROVE  /\ IsFiniteSet(Range(s))
           /\ One(s) => Cardinality(Tags(s)) = Len(s)
<1>1. DOMAIN s = 1 .. Len(s) /\ Len(s) \in Nat /\ IsFiniteSet(1 .. Len(s)) /\ Cardinality(1 .. Len(s)) = Len(s)
  <2>1. Len(s) \in Nat /\ DOMAIN s = 1 .. Len(s)
    OBVIOUS
  <2>2. IsFiniteSet(1 .. Len(s)) /\ Cardinality(1 .. Len(s)) = Len(s)
    BY <2>1, FS_Interval
  <2> QED  BY <2>1, <2>2
<1>2. IsFiniteSet(Range(s))
  <2> DEFINE f == [i \in 1 .. Len(s) |-> s[i]]
  <2>1. f \in Surjection(1 .. Len(s), Range(s))
    BY <1>1 DEF Surjection, Range
  <2> HIDE DEF f
  <2> QED  BY <1>1, <2>1, FS_Surjection
<1>3. ASSUME One(s) PROVE Cardinality(Tags(s)) = Len(s)
  <2> DEFINE f == [i \in 1 .. Len(s) |-> s[i].tag]
  <2>1. f \in [1 .. Len(s) -> Tags(s)] /\ (\A i, j \in 1 .. Len(s) : f[i] = f[j] => i = j)
        /\ \A t \in Tags(s) : \E i \in 1 .. Len(s) : f[i] = t
    BY <1>1, <1>3 DEF Tags, One
  <2> HIDE DEF f
  <2>2. f \in Bijection(1 .. Len(s), Tags(s))
    BY <2>1 DEF Bijection, Injection, Surjection, IsInjective
  <2>3. ExistsBijection(1 .. Len(s), Tags(s))
    BY <2>2 DEF ExistsBijection
  <2> QED  BY <1>1, <2>3, FS_Bijection
<1> QED  BY <1>2, <1>3

\* Every variable has its type, whatever the providers serve
THEOREM SyncTypeCorrect == Spec => []TypeOK
<1>1. SyncInv => TypeOK
  <2> SUFFICES ASSUME SyncInv PROVE TypeOK
    OBVIOUS
  <2>1. /\ outbounds \in Seq(NodeIn) /\ chosen \in Tags(outbounds) \cup {Direct}
        /\ Listing(list) /\ Listing(subs)
    BY DEF SyncInv, ConfigOK, ListsOK
  <2>2. chosen \in AllTags \cup {Direct}
    <3> SUFFICES ASSUME chosen \in Tags(outbounds) PROVE chosen \in AllTags
      BY <2>1
    <3>1. PICK x \in Range(outbounds) : x.tag = chosen
      BY <2>1, TagsOf
    <3>2. x \in NodeIn
      BY <2>1, TagsOf
    <3> QED  BY <3>1, <3>2 DEF NodeIn
  <2>3. /\ list \in Seq([url : Urls, tags : SUBSET AllTags]) /\ subs \in Seq([url : Urls, tags : SUBSET AllTags])
        /\ \A i, j \in DOMAIN list : list[i].url = list[j].url => i = j
    BY <2>1 DEF Listing, Subs
  <2>4. todo \subseteq Urls
    BY <2>1, Positions DEF SyncInv, TurnOK
  <2>5. pc \in {"idle", "refresh"} /\ changed \in BOOLEAN /\ parted \in BOOLEAN
    BY DEF SyncInv, TurnOK
  <2> QED  BY <2>1, <2>2, <2>3, <2>4, <2>5 DEF TypeOK
<1> QED  BY <1>1, SyncInvariance, PTL

\* ListMatchesConfig: tags name one node, the choice exists, and list and config agree on the
\* owners (refreshOne, Remove, AddOutbounds)
THEOREM OwnersMatch == Spec => []ListMatchesConfig
<1>1. SyncInv => ListMatchesConfig
  <2> SUFFICES ASSUME SyncInv PROVE ListMatchesConfig
    OBVIOUS
  <2>1. outbounds \in Seq(NodeIn) /\ One(outbounds) /\ chosen \in Tags(outbounds) \cup {Direct}
    BY DEF SyncInv, ConfigOK
  <2>2. Cardinality(Tags(outbounds)) = Len(outbounds)
    BY <2>1, Counted
  <2>3. ASSUME pc = "idle", ~parted
        PROVE  /\ {o.origin : o \in Range(outbounds)} \ {Hand} \subseteq {s.url : s \in Range(list)}
               /\ \A s \in Range(list) :
                     s.tags = {o.tag : o \in {x \in Range(outbounds) : x.origin = s.url}}
    <3>1. Agreed(outbounds, list)
      BY <2>3 DEF SyncInv, OwnersOK
    <3>2. \A i \in DOMAIN list : list[i] \in Range(list)
      BY DEF Range
    <3>3. ASSUME NEW o \in Range(outbounds), o.origin # Hand PROVE o.origin \in {s.url : s \in Range(list)}
      <4>1. PICK i \in DOMAIN list : list[i].url = o.origin
        BY <3>1, <3>3 DEF Agreed
      <4> QED  BY <3>2, <4>1
    <3>4. ASSUME NEW s \in Range(list)
          PROVE  s.tags = {o.tag : o \in {x \in Range(outbounds) : x.origin = s.url}}
      <4>1. PICK i \in DOMAIN list : list[i] = s
        BY DEF Range
      <4>2. \A t : t \in s.tags <=> \E x \in Range(outbounds) : x.tag = t /\ x.origin = s.url
        BY <3>1, <4>1 DEF Agreed, OwnerOf
      <4> QED  BY <4>2
    <3> QED  BY <3>3, <3>4
  <2> QED  BY <2>1, <2>2, <2>3 DEF ListMatchesConfig
<1> QED  BY <1>1, SyncInvariance, PTL

\* RunsWhatIsSaved: the restarts that are skipped were not needed (refresh, syncMerge)
THEOREM RunsTheSaved == Spec => []RunsWhatIsSaved
<1>1. SyncInv => RunsWhatIsSaved
  BY DEF SyncInv, TurnOK, RunningOK, RunsWhatIsSaved
<1> QED  BY <1>1, SyncInvariance, PTL

\* UserNodesSpared: no operation on a subscription touches a server of the user's (suffixTaken)
THEOREM UserSpared == Spec => UserNodesSpared
<1> DEFINE Kept == "refresh" \in {pc, pc'} =>
                     \A o \in Range(outbounds) : o.origin = Hand => o \in Range(outbounds')
<1>1. SyncInv /\ [Next]_vars => [Kept]_vars
  <2> SUFFICES ASSUME SyncInv, Next, "refresh" \in {pc, pc'},
                      NEW o \in Range(outbounds), o.origin = Hand
               PROVE  o \in Range(outbounds')
    OBVIOUS
  <2>1. ASSUME Refresh PROVE o \in Range(outbounds')
    BY <2>1, RefreshSyncs DEF Synced
  <2>2. ASSUME NEW u \in Urls, RemoveUrl(u) PROVE o \in Range(outbounds')
    BY <2>2, RemoveSyncs DEF Synced
  <2>3. CASE outbounds' = outbounds
    BY <2>3
  <2> QED  BY <2>1, <2>2, <2>3 DEF Next, Add, Update, UpdateAll, Load, RefreshFails, Save,
     Interrupted, Start, Stop,
              Import, Switch, Delete, config
<1> QED  BY <1>1, SyncInvariance, PTL DEF Spec, UserNodesSpared, Kept

-----------------------------------------------------------------------------
(* The choice *)

\* A node is paired with one of the same server
LEMMA PairServer ==
    ASSUME NEW d \in Seq(NodeIn), NEW a \in Seq(Nameds), NEW p \in PairRenamed(d, a)
    PROVE  \E x \in Range(d), y \in Range(a) :
              p[1] = x.tag /\ p[2] = y.tag /\ x.content.server = y.content.server
<1> DEFINE same == SameContent(d, a)
           restA == Rest(a, {q[2] : q \in same})
<1>1. PICK i \in Pairing(d, a) : p = <<d[i[1]].tag, a[i[2]].tag>>
  BY PairsAre DEF TagPairs
<1>2. i[1] \in 1 .. Len(d) /\ i[2] \in 1 .. Len(a)
  BY PairsApart
<1>3. d[i[1]].content.server = a[i[2]].content.server
  <2>1. CASE i \in same
    BY <2>1 DEF SameContent
  <2>2. CASE i \in MovedPairs(d, a)
    <3>1. OfServer(a, restA, d[i[1]].content.server) = {i[2]}
      BY <2>2 DEF MovedPairs
    <3>2. i[2] \in OfServer(a, restA, d[i[1]].content.server)
      BY <3>1
    <3> QED  BY <3>2 DEF OfServer
  <2> QED  BY <2>1, <2>2 DEF Pairing
<1>4. d[i[1]] \in Range(d) /\ a[i[2]] \in Range(a)
  BY <1>2, TagsOf
<1> QED  BY <1>1, <1>3, <1>4

\* The only ones of a server are paired, whatever else has changed
LEMMA OnlyOnesPaired ==
    ASSUME NEW d \in Seq(NodeIn), One(d), NEW a \in Seq(Nameds), One(a), NEW x \in Range(d), NEW y \in Range(a),
           x.content.server = y.content.server,
           \A z \in Range(d) : z.content.server = x.content.server => z = x,
           \A z \in Range(a) : z.content.server = x.content.server => z = y
    PROVE  \E p \in PairRenamed(d, a) : p[1] = x.tag
<1> DEFINE same == SameContent(d, a)
           restD == Rest(d, {p[1] : p \in same})
           restA == Rest(a, {p[2] : p \in same})
<1>1. DOMAIN d = 1 .. Len(d) /\ DOMAIN a = 1 .. Len(a)
  OBVIOUS
<1>2. PICK i \in 1 .. Len(d) : d[i] = x
  BY TagsOf
<1>3. PICK j \in 1 .. Len(a) : a[j] = y
  BY TagsOf
<1>4. \A k \in 1 .. Len(d) : d[k].content.server = x.content.server => k = i
  <2> SUFFICES ASSUME NEW k \in 1 .. Len(d), d[k].content.server = x.content.server PROVE k = i
    OBVIOUS
  <2>1. d[k] \in Range(d)
    BY TagsOf
  <2>2. d[k] = d[i]
    BY <1>2, <2>1
  <2> QED  BY <1>1, <2>2 DEF One
<1>5. \A k \in 1 .. Len(a) : a[k].content.server = x.content.server => k = j
  <2> SUFFICES ASSUME NEW k \in 1 .. Len(a), a[k].content.server = x.content.server PROVE k = j
    OBVIOUS
  <2>1. a[k] \in Range(a)
    BY TagsOf
  <2>2. a[k] = a[j]
    BY <1>3, <2>1
  <2> QED  BY <1>1, <2>2 DEF One
<1>6. \A p \in same : /\ p[1] \in 1 .. Len(d) /\ p[2] \in 1 .. Len(a)
                      /\ d[p[1]].content = a[p[2]].content
  BY <1>1 DEF SameContent
<1>7. \E p \in Pairing(d, a) : p[1] = i
  <2>1. CASE \E p \in same : p[1] = i
    BY <2>1 DEF Pairing
  <2>2. CASE \A p \in same : p[1] # i
    <3>1. \A p \in same : p[2] # j
      <4> SUFFICES ASSUME NEW p \in same, p[2] = j PROVE FALSE
        OBVIOUS
      <4>1. d[p[1]].content.server = x.content.server
        BY <1>3, <1>6
      <4> QED  BY <1>4, <1>6, <2>2, <4>1
    <3>2. i \in restD /\ j \in restA
      BY <1>1, <2>2, <3>1 DEF Rest
    <3>3. restD \subseteq 1 .. Len(d) /\ restA \subseteq 1 .. Len(a)
      BY <1>1 DEF Rest
    <3> HIDE DEF same, restD, restA
    <3>4. OfServer(d, restD, d[i].content.server) = {i}
      BY <1>2, <1>4, <3>2, <3>3 DEF OfServer
    <3>5. OfServer(a, restA, d[i].content.server) = {j}
      BY <1>2, <1>3, <1>5, <3>2, <3>3 DEF OfServer
    <3>6. <<i, j>> \in restD \X restA /\ <<i, j>>[1] = i /\ <<i, j>>[2] = j
      BY <3>2
    <3>7. <<i, j>> \in MovedPairs(d, a)
      BY <3>4, <3>5, <3>6 DEF MovedPairs, same, restD, restA
    <3> QED  BY <3>6, <3>7 DEF Pairing
  <2> QED  BY <2>1, <2>2
<1>8. PICK p \in Pairing(d, a) : p[1] = i
  BY <1>7
<1>9. <<d[p[1]].tag, a[p[2]].tag>> \in PairRenamed(d, a)
  BY PairsAre DEF TagPairs
<1> QED  BY <1>2, <1>8, <1>9

\* The nodes of a server
OfServerIn(s, srv) == {o \in Range(s) : o.content.server = srv}
NewOf(out, s, srv) == {o \in OfServerIn(s, srv) : o.tag \notin Tags(out)}

\* What the traffic takes is the node of that tag
LEMMA ContentIs ==
    ASSUME NEW s \in Seq(NodeIn), One(s), NEW x \in Range(s)
    PROVE  ContentOf(s, x.tag) = x.content
<1>1. x.tag \in Tags(s) /\ \A y \in Range(s) : y.tag = x.tag => y = x
  BY TagsOf
<1>2. (CHOOSE o \in Range(s) : o.tag = x.tag) = x
  BY <1>1
<1> QED  BY <1>1, <1>2 DEF ContentOf

\* A chosen node that is the only one of its server follows that server to its new name
LEMMA ChoiceFollows ==
    ASSUME NEW out \in Seq(NodeIn), One(out), NEW c \in Tags(out), NEW owned, NEW m, Merged(out, c, owned, m),
           c \notin Tags(m.outbounds),
           NEW srv, srv = ContentOf(out, c).server,
           \E o : OfServerIn(out, srv) = {o},
           \E n : NewOf(out, m.outbounds, srv) = {n}
    PROVE  ContentOf(m.outbounds, m.chosen).server = srv
<1>1. PICK nodes \in Seq(Judgeds) : Distinct(nodes) /\ m = SyncMerge(out, c, owned, nodes)
  BY DEF Merged
<1> DEFINE mine == owned \cap Tags(out)
           named == SuffixTaken(nodes, Tags(out) \ mine)
           incoming == Only(named, {n \in Range(named) : n.fits})
           refused == Only(named, {n \in Range(named) : ~n.fits})
<1>2. m = IF nodes # <<>> /\ incoming = <<>>
          THEN [ok |-> FALSE, outbounds |-> out, chosen |-> c, tags |-> owned, restart |-> FALSE]
          ELSE Reconcile(out, c, mine, incoming, refused)
  BY <1>1 DEF SyncMerge
<1>3. /\ incoming \in Seq(Nameds) /\ One(incoming) /\ refused \in Seq(Nameds) /\ One(refused)
      /\ Tags(incoming) \cap Tags(refused) = {}
  BY <1>1, NamedParts
<1> HIDE DEF incoming, refused
<1>4. m = Reconcile(out, c, mine, incoming, refused)
  BY <1>2
<1>5. mine \subseteq Tags(out)
  OBVIOUS
<1> HIDE DEF mine
<1>6. PICK open, r, held, removed : PartedTo(out, c, mine, incoming, refused, open, r, held, removed, m)
  BY <1>3, <1>4, <1>5, Reconciled
<1>7. /\ m = Rewrite(out, c, incoming, r, held, removed) /\ Rewritable(out, incoming, r, removed)
      /\ Parted(out, mine, incoming, refused, open, r, held, removed)
  BY <1>6 DEF PartedTo, Parted
<1>8. Rewrote(out, c, incoming, r, held, removed, m)
  BY <1>3, <1>7, Rewritten
<1>9. /\ m.outbounds \in Seq(NodeIn) /\ One(m.outbounds)
      /\ \A x : x \in Range(m.outbounds) <=>
            \/ /\ x \in Range(out) /\ x.tag \notin removed \cup Tags(incoming)
               /\ \A p \in r : p[1] # x.tag
            \/ \E n \in Range(incoming) : x = Bare(n)
      /\ \A p \in r : p[1] = c => m.chosen = p[2]
  BY <1>8 DEF Rewrote
<1>10. PICK o \in Range(out) : o.tag = c
  BY TagsOf
<1>11. o.content.server = srv
  BY <1>10, ContentIs
<1>12. \A z \in Range(out) : z.content.server = srv => z = o
  BY <1>10, <1>11 DEF OfServerIn
<1>13. PICK n : NewOf(out, m.outbounds, srv) = {n}
  OBVIOUS
<1>14. /\ n \in Range(m.outbounds) /\ n.content.server = srv /\ n.tag \notin Tags(out)
       /\ \A y \in Range(m.outbounds) : y.content.server = srv /\ y.tag \notin Tags(out) => y = n
  BY <1>13 DEF NewOf, OfServerIn
<1> DEFINE appearing == Untagged(incoming, Tags(out))
<1>15. /\ appearing \in Seq(Nameds) /\ One(appearing)
       /\ \A x : x \in Range(appearing) <=> x \in Range(incoming) /\ x.tag \notin Tags(out)
  BY <1>3, TaggedThose
<1>16. r = PairRenamed(open, appearing)
  BY <1>7 DEF Parted
<1> HIDE DEF appearing
<1>17. /\ open \in Seq(NodeIn) /\ One(open)
       /\ \A x : x \in Range(open) <=>
             x \in Range(out) /\ x.tag \in mine /\ x.tag \notin Tags(incoming) /\ x.tag \notin Tags(refused)
       /\ Tags(refused) \cap mine \subseteq held
       /\ \A t \in held : t \notin removed /\ \A p \in r : p[1] # t
       /\ \A t \in removed : t \in mine
       /\ \A p \in r : p[1] \in Tags(open)
  BY <1>7 DEF Parted
<1>18. \A y \in Range(incoming) : /\ y \in Nameds /\ y.tag \in Tags(incoming) /\ Bare(y) \in Range(m.outbounds)
                                  /\ Bare(y).tag = y.tag /\ Bare(y).content = y.content
  <2> SUFFICES ASSUME NEW y \in Range(incoming)
               PROVE  /\ y \in Nameds /\ y.tag \in Tags(incoming) /\ Bare(y) \in Range(m.outbounds)
                      /\ Bare(y).tag = y.tag /\ Bare(y).content = y.content
    OBVIOUS
  <2>1. y \in Nameds /\ y.tag \in Tags(incoming)
    BY <1>3, TagsOf
  <2>2. Bare(y) \in Range(m.outbounds)
    BY <1>9
  <2> QED  BY <2>1, <2>2, BareNode
<1>19. PICK y \in Range(incoming) : n = Bare(y)
  <2>1. n \notin Range(out)
    BY <1>14, TagsOf
  <2> QED  BY <1>9, <1>14, <2>1
<1>20. y \in Range(appearing) /\ y.content.server = srv
  BY <1>14, <1>15, <1>18, <1>19
<1>21. c \notin Tags(incoming)
  <2> SUFFICES ASSUME c \in Tags(incoming) PROVE FALSE
    OBVIOUS
  <2>1. PICK z \in Range(incoming) : z.tag = c
    BY <1>3, TagsOf
  <2>2. Bare(z) \in Range(m.outbounds) /\ Bare(z).tag = c
    BY <1>18, <2>1
  <2> QED  BY <1>9, <2>2, TagsOf
<1>22. \E p \in r : p[1] = c
  <2>1. c \in removed \/ \E p \in r : p[1] = c
    <3> SUFFICES ASSUME c \notin removed, \A p \in r : p[1] # c PROVE FALSE
      OBVIOUS
    <3>1. o \in Range(m.outbounds)
      BY <1>9, <1>10, <1>21
    <3> QED  BY <1>9, <1>10, <3>1, TagsOf
  <2>2. ASSUME c \in removed PROVE \E p \in r : p[1] = c
    <3>1. o \in Range(open)
      BY <1>10, <1>17, <1>21, <2>2
    <3>2. \A z \in Range(open) : z.content.server = o.content.server => z = o
      BY <1>11, <1>12, <1>17
    <3>3. \A z \in Range(appearing) : z.content.server = o.content.server => z = y
      <4> SUFFICES ASSUME NEW z \in Range(appearing), z.content.server = srv PROVE z = y
        BY <1>11
      <4>1. z \in Range(incoming) /\ z.tag \notin Tags(out)
        BY <1>15
      <4>2. Bare(z) = n
        BY <1>14, <1>18, <4>1
      <4>3. z.tag = y.tag
        BY <1>18, <1>19, <4>1, <4>2
      <4> QED  BY <1>3, <4>1, <4>3, TagsOf
    <3>4. o.content.server = y.content.server
      BY <1>11, <1>20
    <3>5. \E p \in PairRenamed(open, appearing) : p[1] = o.tag
      <4>1. open \in Seq(NodeIn) /\ One(open) /\ appearing \in Seq(Nameds) /\ One(appearing)
        BY <1>15, <1>17
      <4> QED  BY <1>20, <3>1, <3>2, <3>3, <3>4, <4>1, OnlyOnesPaired
    <3> QED  BY <1>10, <1>16, <3>5
  <2> QED  BY <2>1, <2>2
<1>23. PICK p \in r : p[1] = c
  BY <1>22
<1>24. PICK x \in Range(open), z \in Range(appearing) :
          p[1] = x.tag /\ p[2] = z.tag /\ x.content.server = z.content.server
  BY <1>15, <1>16, <1>17, PairServer
<1>25. x = o
  <2>1. x \in Range(out) /\ x.tag = o.tag
    BY <1>10, <1>17, <1>23, <1>24
  <2> QED  BY <2>1, TagsOf
<1>26. m.chosen = z.tag /\ z.content.server = srv /\ z \in Range(incoming)
  BY <1>9, <1>11, <1>15, <1>23, <1>24, <1>25
<1>27. Bare(z) \in Range(m.outbounds) /\ Bare(z).tag = m.chosen /\ Bare(z).content.server = srv
  BY <1>18, <1>26
<1>28. ContentOf(m.outbounds, m.chosen) = Bare(z).content
  BY <1>9, <1>27, ContentIs
<1> QED  BY <1>27, <1>28

\* ChoiceFollowsServer: so it is in every operation (pairRenamed, pruneOutboundReferences)
THEOREM ChoiceFollowed == Spec => ChoiceFollowsServer
<1> DEFINE Follows ==
        ("refresh" \in {pc, pc'} /\ chosen \in Tags(outbounds) \ Tags(outbounds')) =>
          LET srv   == ContentOf(outbounds, chosen).server
              Of(s) == {o \in Range(s) : o.content.server = srv}
              new   == {o \in Of(outbounds') : o.tag \notin Tags(outbounds)}
          IN Cardinality(Of(outbounds)) = 1 /\ Cardinality(new) = 1
             => ContentOf(outbounds', chosen').server = srv
<1>1. SyncInv /\ [Next]_vars => [Follows]_vars
  <2> DEFINE srv == ContentOf(outbounds, chosen).server
             old == OfServerIn(outbounds, srv)
             new == NewOf(outbounds, outbounds', srv)
  <2> SUFFICES ASSUME SyncInv, Next, "refresh" \in {pc, pc'}, chosen \in Tags(outbounds) \ Tags(outbounds'),
                      Cardinality(old) = 1, Cardinality(new) = 1
               PROVE  ContentOf(outbounds', chosen').server = srv
    BY DEF OfServerIn, NewOf
  <2>1. outbounds \in Seq(NodeIn) /\ One(outbounds)
    BY DEF SyncInv, ConfigOK
  <2>2. \E owned, m : /\ Merged(outbounds, chosen, owned, m) /\ m.outbounds \in Seq(NodeIn)
                      /\ outbounds' = m.outbounds /\ chosen' = m.chosen
    <3>1. ASSUME Refresh
          PROVE  \E owned, m : /\ Merged(outbounds, chosen, owned, m) /\ m.outbounds \in Seq(NodeIn)
                               /\ outbounds' = m.outbounds /\ chosen' = m.chosen
      BY <3>1, RefreshSyncs DEF Synced
    <3>2. ASSUME NEW u \in Urls, RemoveUrl(u)
          PROVE  \E owned, m : /\ Merged(outbounds, chosen, owned, m) /\ m.outbounds \in Seq(NodeIn)
                               /\ outbounds' = m.outbounds /\ chosen' = m.chosen
      BY <3>2, RemoveSyncs DEF Synced
    <3>3. outbounds' # outbounds
      OBVIOUS
    <3> QED  BY <3>1, <3>2, <3>3 DEF Next, Add, Update, UpdateAll, Load, RefreshFails, Save,
       Interrupted, Start, Stop,
                Import, Switch, Delete, config
  <2>3. PICK owned, m : /\ Merged(outbounds, chosen, owned, m) /\ m.outbounds \in Seq(NodeIn)
                        /\ outbounds' = m.outbounds /\ chosen' = m.chosen
    BY <2>2
  <2>4. \E o : old = {o}
    <3>1. IsFiniteSet(Range(outbounds)) /\ old \subseteq Range(outbounds)
      BY <2>1, Counted DEF OfServerIn
    <3>2. IsFiniteSet(old)
      BY <3>1, FS_Subset
    <3> QED  BY <3>2, FS_Singleton
  <2>5. \E n : new = {n}
    <3>1. IsFiniteSet(Range(outbounds')) /\ new \subseteq Range(outbounds')
      BY <2>3, Counted DEF OfServerIn, NewOf
    <3>2. IsFiniteSet(new)
      BY <3>1, FS_Subset
    <3> QED  BY <3>2, FS_Singleton
  <2>6. \E n : NewOf(outbounds, m.outbounds, srv) = {n}
    BY <2>3, <2>5
  <2>7. chosen \in Tags(outbounds) /\ chosen \notin Tags(m.outbounds)
    BY <2>3
  <2>9. srv = ContentOf(outbounds, chosen).server /\ \E o : OfServerIn(outbounds, srv) = {o}
    BY <2>4
  <2> HIDE DEF srv
  <2>8. ContentOf(m.outbounds, m.chosen).server = srv
    <3>1. Merged(outbounds, chosen, owned, m)
      BY <2>3
    <3> QED  BY <2>1, <2>6, <2>7, <2>9, <3>1, ChoiceFollows
  <2> QED  BY <2>3, <2>8 DEF srv
<1> QED  BY <1>1, SyncInvariance, PTL DEF Spec, ChoiceFollowsServer, Follows

-----------------------------------------------------------------------------
(* The same list again *)

\* The nodes of the same content up to this one: Rank counts them
Ahead(s, y) == {x \in Range(s) : x.content = y.content /\ ~Sooner(s, y, x)}

\* The rank of a node is how many nodes of its content there are up to it
LEMMA RankCounts ==
    ASSUME NEW R, NEW s \in Seq(R), One(s), NEW i \in 1 .. Len(s)
    PROVE  IsFiniteSet(Ahead(s, s[i])) /\ Rank(s, i) = Cardinality(Ahead(s, s[i]))
<1> DEFINE S == {j \in 1 .. i : s[j].content = s[i].content}
           A == Ahead(s, s[i])
           f == [j \in S |-> s[j]]
<1>1. DOMAIN s = 1 .. Len(s) /\ Len(s) \in Nat /\ i \in Nat
  OBVIOUS
<1>2. \A j, k \in 1 .. Len(s) : s[j] = s[k] => j = k
  BY <1>1 DEF One
<1>3. \A j \in 1 .. Len(s) : Sooner(s, s[i], s[j]) <=> i < j
  BY <1>1, <1>2 DEF Sooner
<1>4. \A j \in S : j \in 1 .. Len(s) /\ s[j] \in A
  <2> SUFFICES ASSUME NEW j \in S PROVE j \in 1 .. Len(s) /\ s[j] \in A
    OBVIOUS
  <2>1. j \in 1 .. Len(s) /\ ~(i < j) /\ s[j].content = s[i].content
    BY <1>1
  <2>2. s[j] \in Range(s)
    BY <2>1, TagsOf
  <2> QED  BY <1>3, <2>1, <2>2 DEF Ahead
<1>5. \A x \in A : \E j \in S : s[j] = x
  <2> SUFFICES ASSUME NEW x \in A PROVE \E j \in S : s[j] = x
    OBVIOUS
  <2>1. x \in Range(s) /\ x.content = s[i].content /\ ~Sooner(s, s[i], x)
    BY DEF Ahead
  <2>2. PICK j \in 1 .. Len(s) : s[j] = x
    BY <2>1, TagsOf
  <2>3. j \in 1 .. i
    BY <1>1, <1>3, <2>1, <2>2
  <2> QED  BY <2>1, <2>2, <2>3
<1>6. IsFiniteSet(S)
  <2>1. IsFiniteSet(1 .. i) /\ S \subseteq 1 .. i
    BY <1>1, FS_Interval
  <2> QED  BY <2>1, FS_Subset
<1>7. Rank(s, i) = Cardinality(S)
  BY DEF Rank
<1> HIDE DEF S, A
<1>8. f \in [S -> A] /\ (\A j, k \in S : f[j] = f[k] => j = k) /\ \A x \in A : \E j \in S : f[j] = x
  BY <1>2, <1>4, <1>5
<1> HIDE DEF f
<1>9. f \in Bijection(S, A)
  BY <1>8 DEF Bijection, Injection, Surjection, IsInjective
<1>10. ExistsBijection(S, A)
  BY <1>9 DEF ExistsBijection
<1>11. IsFiniteSet(A) /\ Cardinality(A) = Cardinality(S)
  BY <1>6, <1>10, FS_Bijection
<1> QED  BY <1>7, <1>11 DEF A

\* Some nodes of a list, in its order
PartOf(e, d) ==
    /\ \A x \in Range(e) : x \in Range(d)
    /\ \A x, y \in Range(e) : Sooner(e, x, y) <=> Sooner(d, x, y)

\* A node has the rank it had when all its equals before it are left
LEMMA RankStays ==
    ASSUME NEW R, NEW d \in Seq(R), One(d), NEW e \in Seq(R), One(e), PartOf(e, d),
           NEW i \in 1 .. Len(d), NEW k \in 1 .. Len(e), e[k] = d[i],
           \A x \in Ahead(d, d[i]) : x \in Range(e)
    PROVE  Rank(e, k) = Rank(d, i)
<1>1. Ahead(e, e[k]) = Ahead(d, d[i])
  <2>1. d[i] \in Range(e) /\ d[i] = e[k]
    BY TagsOf
  <2>2. ASSUME NEW x \in Range(e) PROVE x \in Ahead(e, e[k]) <=> x \in Ahead(d, d[i])
    BY <2>1 DEF Ahead, PartOf
  <2>3. \A x \in Ahead(e, e[k]) : x \in Range(e)
    BY DEF Ahead
  <2> QED  BY <2>2, <2>3
<1>2. Rank(e, k) = Cardinality(Ahead(e, e[k]))
  BY RankCounts
<1>3. Rank(d, i) = Cardinality(Ahead(d, d[i]))
  BY RankCounts
<1> QED  BY <1>1, <1>2, <1>3

\* Pairs of the same content, and their elements before
LEMMA AheadPaired ==
    ASSUME NEW R, NEW d \in Seq(R), One(d), NEW Q, NEW a \in Seq(Q),
           NEW p \in SameContent(d, a), NEW x \in Ahead(d, d[p[1]])
    PROVE  \E q \in SameContent(d, a) : d[q[1]] = x
<1>1. /\ p[1] \in 1 .. Len(d) /\ p[2] \in 1 .. Len(a)
      /\ d[p[1]].content = a[p[2]].content /\ Rank(d, p[1]) = Rank(a, p[2])
  BY DEF SameContent
<1>2. x \in Range(d) /\ x.content = d[p[1]].content /\ ~Sooner(d, d[p[1]], x)
  BY DEF Ahead
<1>3. PICK j \in 1 .. Len(d) : d[j] = x
  BY <1>2, TagsOf
<1>4. ~(p[1] < j)
  BY <1>1, <1>2, <1>3 DEF Sooner
<1>5. Rank(d, j) \in Nat \ {0} /\ Rank(d, p[1]) \in Nat \ {0}
  BY <1>1, Ranks
<1>6. j < p[1] => Rank(d, j) < Rank(d, p[1])
  BY <1>1, <1>2, <1>3, Ranks
<1>7. j = p[1] \/ j < p[1]
  BY <1>1, <1>3, <1>4
<1>8. Rank(d, j) <= Rank(a, p[2])
  BY <1>1, <1>5, <1>6, <1>7
<1>9. PICK l \in 1 .. Len(a) : a[l].content = a[p[2]].content /\ Rank(a, l) = Rank(d, j)
  <2>1. ASSUME NEW k \in 1 .. Len(a), NEW r \in Nat \ {0}, r <= Rank(a, k)
        PROVE  \E l \in 1 .. Len(a) : a[l].content = a[k].content /\ Rank(a, l) = r
    BY <2>1, Ranks
  <2> QED  BY <1>1, <1>5, <1>8, <2>1
<1>10. <<j, l>> \in SameContent(d, a)
  BY <1>1, <1>2, <1>3, <1>9 DEF SameContent
<1> QED  BY <1>3, <1>10

\* The tags that get a new name, by the pairs of tags and by their positions
Renames(d, a, t) == \E p \in PairRenamed(d, a) : p[1] = t
PairedAt(d, a, t) == \E p \in Pairing(d, a) : d[p[1]].tag = t

\* A tag gets a new name where its position is paired
LEMMA PairTags ==
    ASSUME NEW d, NEW a
    PROVE  \A t : Renames(d, a, t) <=> PairedAt(d, a, t)
<1> DEFINE P == Pairing(d, a)
           r == PairRenamed(d, a)
<1>1. \A p \in r : \E i \in P : p = <<d[i[1]].tag, a[i[2]].tag>>
  BY PairsAre DEF TagPairs
<1>2. \A i \in P : <<d[i[1]].tag, a[i[2]].tag>> \in r
  BY PairsAre DEF TagPairs
<1> HIDE DEF P, r
<1>3. ASSUME NEW t, NEW p \in r, p[1] = t PROVE \E i \in P : d[i[1]].tag = t
  BY <1>1, <1>3
<1>4. ASSUME NEW t, NEW i \in P, d[i[1]].tag = t PROVE \E p \in r : p[1] = t
  <2>1. <<d[i[1]].tag, a[i[2]].tag>>[1] = t
    BY <1>4
  <2> QED  BY <1>2, <2>1
<1> QED  BY <1>3, <1>4 DEF P, r, Renames, PairedAt

\* Those that were paired are paired again, when only they are left
LEMMA PairedAgain ==
    ASSUME NEW R, NEW d \in Seq(R), One(d), NEW Q, NEW a \in Seq(Q), One(a),
           NEW e \in Seq(R), One(e), PartOf(e, d),
           \A x \in Range(d) : x \in Range(e) <=> \E p \in PairRenamed(d, a) : p[1] = x.tag
    PROVE  \A t : (\E p \in PairRenamed(e, a) : p[1] = t) <=> t \in Tags(e)
<1> DEFINE same == SameContent(d, a)
           restD == Rest(d, {p[1] : p \in same})
           restA == Rest(a, {p[2] : p \in same})
           moved == MovedPairs(d, a)
           again == SameContent(e, a)
           restE == Rest(e, {p[1] : p \in again})
           restB == Rest(a, {p[2] : p \in again})
<1>1. /\ DOMAIN d = 1 .. Len(d) /\ DOMAIN a = 1 .. Len(a) /\ DOMAIN e = 1 .. Len(e)
      /\ Len(d) \in Nat /\ Len(a) \in Nat /\ Len(e) \in Nat
  OBVIOUS
<1>2. \A p \in same : /\ p[1] \in 1 .. Len(d) /\ p[2] \in 1 .. Len(a)
                      /\ d[p[1]].content = a[p[2]].content /\ Rank(d, p[1]) = Rank(a, p[2])
  BY <1>1 DEF SameContent
<1>3. \A k \in 1 .. Len(e), l \in 1 .. Len(a) :
         e[k].content = a[l].content /\ Rank(e, k) = Rank(a, l) => <<k, l>> \in again
  BY <1>1 DEF SameContent
<1>4. \A p \in again : /\ p[1] \in 1 .. Len(e) /\ p[2] \in 1 .. Len(a)
                       /\ e[p[1]].content = a[p[2]].content /\ Rank(e, p[1]) = Rank(a, p[2])
  BY <1>1 DEF SameContent
<1>5. \A p \in moved : /\ p[1] \in restD /\ p[2] \in restA
                       /\ OfServer(d, restD, d[p[1]].content.server) = {p[1]}
                       /\ OfServer(a, restA, d[p[1]].content.server) = {p[2]}
  BY DEF MovedPairs
<1>6. /\ \A i : i \in restD <=> i \in 1 .. Len(d) /\ \A p \in same : p[1] # i
      /\ \A i : i \in restA <=> i \in 1 .. Len(a) /\ \A p \in same : p[2] # i
      /\ \A i : i \in restE <=> i \in 1 .. Len(e) /\ \A p \in again : p[1] # i
      /\ \A i : i \in restB <=> i \in 1 .. Len(a) /\ \A p \in again : p[2] # i
  BY <1>1 DEF Rest
<1>7. \A p \in restE \X restB :
         /\ OfServer(e, restE, e[p[1]].content.server) = {p[1]}
         /\ OfServer(a, restB, e[p[1]].content.server) = {p[2]}
         => p \in MovedPairs(e, a)
  BY DEF MovedPairs
<1>8. Pairing(d, a) = same \cup moved /\ Pairing(e, a) = again \cup MovedPairs(e, a)
  BY DEF Pairing
<1>9. \A x \in Range(d) : x \in Range(e) <=> \E p \in same \cup moved : d[p[1]].tag = x.tag
  <2> HIDE DEF same, moved
  <2>1. \A t : Renames(d, a, t) <=> PairedAt(d, a, t)
    BY PairTags
  <2> QED  BY <1>8, <2>1 DEF Renames, PairedAt
<1>10. \A t : (\E p \in PairRenamed(e, a) : p[1] = t) <=> \E p \in Pairing(e, a) : e[p[1]].tag = t
  <2>1. \A t : Renames(e, a, t) <=> PairedAt(e, a, t)
    BY PairTags
  <2> QED  BY <2>1 DEF Renames, PairedAt
<1> HIDE DEF same, restD, restA, moved, again, restE, restB
<1>11. \A k, l \in 1 .. Len(a) : a[k].content = a[l].content /\ Rank(a, k) = Rank(a, l) => k = l
  <2> SUFFICES ASSUME NEW k \in 1 .. Len(a), NEW l \in 1 .. Len(a),
                      a[k].content = a[l].content, Rank(a, k) = Rank(a, l)
               PROVE  k = l
    OBVIOUS
  <2>1. Rank(a, k) \in Nat /\ Rank(a, l) \in Nat
    BY Ranks
  <2>2. (k < l => Rank(a, k) < Rank(a, l)) /\ (l < k => Rank(a, l) < Rank(a, k))
    BY Ranks
  <2>3. ~(k < l) /\ ~(l < k)
    BY <2>1, <2>2
  <2> QED  BY <1>1, <2>3
\* the nodes of pairs of d are in e
<1>12. \A p \in same \cup moved : p[1] \in 1 .. Len(d) /\ d[p[1]] \in Range(e)
  <2> SUFFICES ASSUME NEW p \in same \cup moved PROVE p[1] \in 1 .. Len(d) /\ d[p[1]] \in Range(e)
    OBVIOUS
  <2>1. p[1] \in 1 .. Len(d)
    BY <1>2, <1>5, <1>6
  <2>2. d[p[1]] \in Range(d)
    BY <2>1, TagsOf
  <2> QED  BY <1>9, <2>1, <2>2
\* pairs of the same content stay pairs
<1>13. ASSUME NEW p \in same, NEW k \in 1 .. Len(e), e[k] = d[p[1]]
       PROVE  <<k, p[2]>> \in again
  <2>1. p[1] \in 1 .. Len(d) /\ p[2] \in 1 .. Len(a) /\ d[p[1]].content = a[p[2]].content /\ Rank(d, p[1]) = Rank(a, p[2])
    BY <1>2
  <2>2. \A x \in Ahead(d, d[p[1]]) : x \in Range(e)
    <3> SUFFICES ASSUME NEW x \in Ahead(d, d[p[1]]) PROVE x \in Range(e)
      OBVIOUS
    <3>1. \E q \in same : d[q[1]] = x
      BY AheadPaired DEF same
    <3> QED  BY <1>12, <3>1
  <2>3. Rank(e, k) = Rank(d, p[1])
    BY <1>13, <2>1, <2>2, RankStays
  <2> QED  BY <1>3, <1>13, <2>1, <2>3
<1>14. \A k \in 1 .. Len(e) : \E i \in 1 .. Len(d) : d[i] = e[k]
  <2> SUFFICES ASSUME NEW k \in 1 .. Len(e) PROVE \E i \in 1 .. Len(d) : d[i] = e[k]
    OBVIOUS
  <2>1. e[k] \in Range(e)
    BY TagsOf
  <2>2. e[k] \in Range(d)
    BY <2>1 DEF PartOf
  <2> QED  BY <2>2, TagsOf
\* a node of e that is in no pair again comes from one in no pair before
<1>15. ASSUME NEW k \in restE, NEW i \in 1 .. Len(d), d[i] = e[k] PROVE i \in restD
  <2> SUFFICES ASSUME NEW p \in same, p[1] = i PROVE FALSE
    BY <1>6
  <2>1. k \in 1 .. Len(e) /\ \A q \in again : q[1] # k
    BY <1>6
  <2>2. <<k, p[2]>> \in again
    BY <1>13, <1>15, <2>1
  <2> QED  BY <2>1, <2>2
<1>16. \A k, l \in 1 .. Len(e) : e[k] = e[l] => k = l
  BY <1>1 DEF One
<1>17. ASSUME NEW k \in 1 .. Len(e) PROVE \E p \in Pairing(e, a) : p[1] = k
  <2>1. CASE \E p \in again : p[1] = k
    BY <1>8, <2>1
  <2>2. CASE \A p \in again : p[1] # k
    <3>1. k \in restE
      BY <1>6, <2>2
    <3>2. PICK i \in 1 .. Len(d) : d[i] = e[k]
      BY <1>14
    <3>3. i \in restD
      BY <1>15, <3>1, <3>2
    <3>4. PICK p \in same \cup moved : d[p[1]].tag = d[i].tag
      <4>1. e[k] \in Range(e) /\ e[k] \in Range(d)
        BY <3>2, TagsOf
      <4> QED  BY <1>9, <3>2, <4>1
    <3>5. p[1] = i
      BY <1>1, <1>12, <3>4 DEF One
    <3>6. p \in moved
      BY <1>6, <3>3, <3>5
    <3> DEFINE srv == d[i].content.server
               l == p[2]
    <3>7. l \in restA /\ OfServer(d, restD, srv) = {i} /\ OfServer(a, restA, srv) = {l}
      BY <1>5, <3>5, <3>6
    <3> HIDE DEF srv, l
    <3>8. /\ \A j \in restD : d[j].content.server = srv => j = i
          /\ \A j \in restA : a[j].content.server = srv => j = l
          /\ a[l].content.server = srv /\ d[i].content.server = srv
      BY <3>7 DEF OfServer, srv
    <3>9. \A j \in restE : e[j].content.server = srv => j = k
      <4> SUFFICES ASSUME NEW j \in restE, e[j].content.server = srv PROVE j = k
        OBVIOUS
      <4>1. j \in 1 .. Len(e)
        BY <1>6
      <4>2. PICK h \in 1 .. Len(d) : d[h] = e[j]
        BY <1>14, <4>1
      <4>3. h \in restD
        BY <1>15, <4>2
      <4>4. h = i
        BY <3>8, <4>2, <4>3
      <4> QED  BY <1>16, <3>2, <4>1, <4>2, <4>4
    <3>10. l \in restB
      <4>1. l \in 1 .. Len(a) /\ \A q \in same : q[2] # l
        BY <1>6, <3>7
      <4> SUFFICES ASSUME NEW q \in again, q[2] = l PROVE FALSE
        BY <1>6, <4>1
      <4>2. q[1] \in 1 .. Len(e) /\ e[q[1]].content = a[l].content /\ Rank(e, q[1]) = Rank(a, l)
        BY <1>4
      <4>3. PICK h \in 1 .. Len(d) : d[h] = e[q[1]]
        BY <1>14, <4>2
      <4>4. CASE h \in restD
        <5>1. h = i
          BY <3>8, <4>2, <4>3, <4>4
        <5>2. q[1] = k
          BY <1>16, <3>2, <4>2, <4>3, <5>1
        <5> QED  BY <2>2, <5>2
      <4>5. CASE h \notin restD
        <5>1. PICK s \in same : s[1] = h
          BY <1>6, <4>3, <4>5
        <5>2. <<q[1], s[2]>> \in again
          BY <1>13, <4>2, <4>3, <5>1
        <5>3. s[2] \in 1 .. Len(a) /\ e[q[1]].content = a[s[2]].content /\ Rank(e, q[1]) = Rank(a, s[2])
          BY <1>4, <5>2
        <5>4. s[2] = l
          BY <1>11, <4>1, <4>2, <5>3
        <5> QED  BY <4>1, <5>4
      <4> QED  BY <4>4, <4>5
    <3>11. \A j \in restB : a[j].content.server = srv => j = l
      <4> SUFFICES ASSUME NEW j \in restB, a[j].content.server = srv, j # l PROVE FALSE
        OBVIOUS
      <4>1. j \in 1 .. Len(a) /\ \A q \in again : q[2] # j
        BY <1>6
      <4>2. PICK s \in same : s[2] = j
        BY <1>6, <3>8, <4>1
      <4>3. d[s[1]] \in Range(e)
        BY <1>12
      <4>4. PICK h \in 1 .. Len(e) : e[h] = d[s[1]]
        <5>1. \A x \in Range(e) : \E z \in 1 .. Len(e) : e[z] = x
          BY TagsOf
        <5> QED  BY <4>3, <5>1
      <4>5. <<h, j>> \in again
        BY <1>13, <4>2, <4>4
      <4> QED  BY <4>1, <4>5
    <3>12. e[k].content.server = srv
      BY <3>2, <3>8
    <3>13. OfServer(e, restE, srv) = {k} /\ OfServer(a, restB, srv) = {l}
      BY <3>1, <3>8, <3>9, <3>10, <3>11, <3>12 DEF OfServer
    <3>14. <<k, l>> \in MovedPairs(e, a)
      BY <1>7, <3>1, <3>10, <3>12, <3>13
    <3> QED  BY <1>8, <3>14
  <2> QED  BY <2>1, <2>2
<1>18. ASSUME NEW t PROVE (\E p \in Pairing(e, a) : e[p[1]].tag = t) <=> t \in Tags(e)
  <2>1. \A p \in Pairing(e, a) : p[1] \in 1 .. Len(e)
    BY PairsApart
  <2>2. \A k \in 1 .. Len(e) : e[k].tag \in Tags(e)
    BY <1>1 DEF Tags
  <2>3. t \in Tags(e) => \E k \in 1 .. Len(e) : e[k].tag = t
    BY <1>1 DEF Tags
  <2> QED  BY <1>17, <2>1, <2>2, <2>3
<1> QED  BY <1>10, <1>18

\* What the merge of a list that has just been merged is: of its own result the same, and the
\* names that are protected are those of the first
Settled(out, mine, m, mine2, incoming, refused) ==
    /\ Tags(m.outbounds) \ mine2 = Tags(out) \ mine
    /\ Reconcile(m.outbounds, m.chosen, mine2, incoming, refused) =
          Result(m.ok, m.outbounds, m.chosen, m.tags, FALSE)
    /\ Full(m)

\* A merge of its own result is the same, but for the restart
Again(m, nodes) == SyncMerge(m.outbounds, m.chosen, m.tags, nodes) = Calm(m)

\* The merge of a list that has just been merged
LEMMA ReconciledAgain ==
    ASSUME NEW out \in Seq(NodeIn), One(out), NEW c \in Tags(out) \cup {Direct},
           NEW mine, mine \subseteq Tags(out),
           NEW incoming \in Seq(Nameds), One(incoming), NEW refused \in Seq(Nameds), One(refused),
           Tags(incoming) \cap Tags(refused) = {},
           \A t \in Tags(incoming) : t \in Tags(out) => t \in mine,
           NEW m, m = Reconcile(out, c, mine, incoming, refused),
           NEW mine2, \A t : t \in mine2 <=> t \in m.tags /\ t \in Tags(m.outbounds)
    PROVE  Settled(out, mine, m, mine2, incoming, refused)
<1> DEFINE out2 == m.outbounds
           m2 == Reconcile(m.outbounds, m.chosen, mine2, incoming, refused)
<1>1. PICK open, r, held, removed : PartedTo(out, c, mine, incoming, refused, open, r, held, removed, m)
  BY Reconciled
<1>2. /\ Parted(out, mine, incoming, refused, open, r, held, removed)
      /\ HeldFrom(out, mine, refused, open, r, held)
      /\ m = Rewrite(out, c, incoming, r, held, removed)
      /\ Rewritable(out, incoming, r, removed)
  BY <1>1 DEF PartedTo, Parted
<1>3. Rewrote(out, c, incoming, r, held, removed, m)
  BY <1>2, Rewritten
<1>4. /\ out2 \in Seq(NodeIn) /\ One(out2)
      /\ \A x : x \in Range(out2) <=>
            \/ /\ x \in Range(out) /\ x.tag \notin removed \cup Tags(incoming)
               /\ \A p \in r : p[1] # x.tag
            \/ \E n \in Range(incoming) : x = Bare(n)
      /\ m.tags = Tags(incoming) \cup held
  BY <1>3 DEF Rewrote
<1>5. /\ open \in Seq(NodeIn)
      /\ \A x : x \in Range(open) <=>
            x \in Range(out) /\ x.tag \in mine /\ x.tag \notin Tags(incoming) /\ x.tag \notin Tags(refused)
      /\ held \cup removed \subseteq mine
      /\ \A t \in held : t \notin Tags(incoming) /\ t \notin removed /\ \A p \in r : p[1] # t
      /\ \A t \in removed : t \notin Tags(incoming)
      /\ Tags(refused) \cap mine \subseteq held
      /\ \A t \in mine : t \in Tags(incoming) \/ t \in held \/ t \in removed \/ \E p \in r : p[1] = t
  BY <1>2 DEF Parted
<1>41. /\ open \in Seq(NodeIn)
       /\ \A x : x \in Range(open) <=>
            x \in Range(out) /\ x.tag \in mine /\ x.tag \notin Tags(incoming) /\ x.tag \notin Tags(refused)
  BY <1>5
<1>42. \A t \in held : /\ t \in mine /\ t \in Tags(out) /\ t \notin Tags(incoming) /\ t \notin removed
                       /\ \A p \in r : p[1] # t
  BY <1>5
<1>43. \A t \in mine : t \in Tags(incoming) \/ t \in held \/ t \in removed \/ \E p \in r : p[1] = t
  BY <1>5
<1>44. \A t \in removed : t \in mine /\ t \notin Tags(incoming)
  BY <1>5
<1>45. \A t \in Tags(refused) : t \in mine => t \in held
  BY <1>5
<1>46. m.ok = TRUE /\ Full(m)
  <2>1. \E k, o, h, t, q : k = TRUE /\ m = Result(k, o, h, t, q)
    BY <1>2 DEF Rewrite, Result
  <2>2. PICK k, o, h, t, q : k = TRUE /\ m = Result(k, o, h, t, q)
    BY <2>1
  <2>3. m = Result(k, o, h, t, q)
    BY <2>2
  <2>4. m.ok = k /\ Full(m)
    BY <2>3, ResultIs
  <2> QED  BY <2>2, <2>4
<1>6. \A p \in r : p[1] \in mine
  <2>1. \A p \in r : p[1] \in Tags(open)
    BY <1>2 DEF Parted
  <2>2. ASSUME NEW t \in Tags(open) PROVE t \in mine
    <3>1. open \in Seq(NodeIn)
      BY <1>41
    <3>2. PICK x \in Range(open) : x.tag = t
      BY <3>1, TagsOf
    <3>3. x \in Range(open)
      BY <3>2
    <3> QED  BY <1>41, <3>2, <3>3
  <2> QED  BY <2>1, <2>2
<1>7. PICK u \in Seq(NodeIn) :
        /\ One(u)
        /\ \A x : x \in Range(u) <=> x \in Range(open) /\ \A p \in r : p[1] # x.tag
        /\ \A x, y \in Range(u) : Sooner(u, x, y) <=> Sooner(out, x, y)
        /\ \A t : t \in held <=> \/ t \in Tags(refused) /\ t \in mine
                               \/ \E p \in PairRenamed(u, Untagged(refused, mine)) : p[1] = t
  BY <1>2 DEF HeldFrom
<1> HIDE DEF out2
<1>8. \A n \in Range(incoming) : Bare(n) \in Range(out2) /\ Bare(n).tag = n.tag /\ n.tag \in Tags(incoming)
  BY <1>4, TagsOf, BareNode
\* the tags there are after the first merge
<1>9. /\ \A t \in Tags(incoming) : t \in Tags(out2)
      /\ \A t \in Tags(out) : t \notin Tags(incoming) /\ (t \notin mine \/ t \in held) => t \in Tags(out2)
      /\ \A t \in Tags(out2) : t \notin Tags(incoming) => t \in Tags(out) /\ (t \notin mine \/ t \in held)
  <2>1. ASSUME NEW t \in Tags(incoming) PROVE t \in Tags(out2)
    <3>1. PICK n \in Range(incoming) : n.tag = t
      BY TagsOf
    <3>2. Bare(n) \in Range(out2) /\ Bare(n).tag = t
      BY <1>8, <3>1
    <3>3. out2 \in Seq(NodeIn)
      BY <1>4
    <3> QED  BY <3>2, <3>3, TagsOf
  <2>2. ASSUME NEW t \in Tags(out), t \notin Tags(incoming), t \notin mine \/ t \in held PROVE t \in Tags(out2)
    <3>1. PICK x \in Range(out) : x.tag = t
      BY TagsOf
    <3>2. t \notin removed /\ \A p \in r : p[1] # t
      BY <1>6, <1>42, <1>44, <2>2
    <3>3. x \in Range(out2)
      BY <1>4, <2>2, <3>1, <3>2
    <3> QED  BY <1>4, <3>1, <3>3, TagsOf
  <2>3. ASSUME NEW t \in Tags(out2), t \notin Tags(incoming) PROVE t \in Tags(out) /\ (t \notin mine \/ t \in held)
    <3>1. PICK x \in Range(out2) : x.tag = t
      BY <1>4, TagsOf
    <3>2. ~\E n \in Range(incoming) : x = Bare(n)
      BY <1>8, <2>3, <3>1
    <3>3. x \in Range(out) /\ x.tag \notin removed /\ \A p \in r : p[1] # x.tag
      BY <1>4, <3>2
    <3>4. t \in Tags(out)
      BY <3>1, <3>3, TagsOf
    <3>5. t \in mine => t \in held
      BY <1>43, <2>3, <3>1, <3>3
    <3> QED  BY <3>4, <3>5
  <2> QED  BY <2>1, <2>2, <2>3
<1>10. \A t : t \in mine2 <=> t \in Tags(incoming) \/ t \in held
  <2>1. \A t : t \in mine2 <=> (t \in Tags(incoming) \/ t \in held) /\ t \in Tags(out2)
    BY <1>4 DEF out2
  <2>2. \A t \in held : t \in Tags(out)
    BY <1>42
  <2>3. \A t : t \in Tags(incoming) \/ t \in held => t \in Tags(out2)
    BY <1>9, <2>2
  <2> QED  BY <2>1, <2>3
<1>11. Tags(out2) \ mine2 = Tags(out) \ mine
  <2>1. ASSUME NEW t PROVE t \in Tags(out2) /\ t \notin mine2 <=> t \in Tags(out) /\ t \notin mine
    BY <1>5, <1>9, <1>10
  <2> QED  BY <2>1
<1>12. \A t \in Tags(refused) : t \in mine2 <=> t \in mine
  BY <1>5, <1>10
<1>13. Untagged(refused, mine2) = Untagged(refused, mine)
  <2> DEFINE P == {x \in Range(refused) : x.tag \notin mine2}
             Q == {x \in Range(refused) : x.tag \notin mine}
  <2>1. \A x \in Range(refused) : x \in P <=> x \in Q
    BY <1>12, TagsOf
  <2>2. Untagged(refused, mine2) = Only(refused, P) /\ Untagged(refused, mine) = Only(refused, Q)
    BY DEF Untagged
  <2> HIDE DEF P, Q
  <2> QED  BY <2>1, <2>2, SameOnly
<1> DEFINE a == Untagged(refused, mine)
<1>14. a \in Seq(Nameds) /\ One(a) /\ \A x : x \in Range(a) <=> x \in Range(refused) /\ x.tag \notin mine
  BY TaggedThose
\* the second merge
<1>15. m.chosen \in Tags(out2) \cup {Direct} /\ mine2 \subseteq Tags(out2)
  <2>1. m.chosen \in Tags(out2) \cup {Direct}
    BY <1>3 DEF Rewrote, out2
  <2> QED  BY <2>1 DEF out2
<1>16. PICK open2, r2, held2, removed2 :
         PartedTo(out2, m.chosen, mine2, incoming, refused, open2, r2, held2, removed2, m2)
  <2>1. m2 = Reconcile(out2, m.chosen, mine2, incoming, refused)
    BY DEF out2
  <2> HIDE DEF m2
  <2> QED  BY <1>4, <1>15, <2>1, Reconciled
<1> HIDE DEF m2
<1>17. /\ Parted(out2, mine2, incoming, refused, open2, r2, held2, removed2)
       /\ HeldFrom(out2, mine2, refused, open2, r2, held2)
       /\ m2 = Rewrite(out2, m.chosen, incoming, r2, held2, removed2)
       /\ Rewritable(out2, incoming, r2, removed2)
  BY <1>16 DEF PartedTo, Parted
<1>18. r2 = {}
  <2>1. \A p \in r2 : p[2] \in Tags(incoming) /\ p[2] \notin Tags(out2)
    BY <1>17 DEF Rewritable
  <2>2. \A t \in Tags(incoming) : t \in Tags(out2)
    BY <1>9
  <2> QED  BY <2>1, <2>2
<1>19. /\ \A x : x \in Range(open2) <=>
             x \in Range(out2) /\ x.tag \in mine2 /\ x.tag \notin Tags(incoming) /\ x.tag \notin Tags(refused)
       /\ held2 \cup removed2 \subseteq mine2
       /\ \A t \in held2 : t \notin removed2
       /\ \A t \in removed2 : t \notin Tags(incoming)
  BY <1>17 DEF Parted
<1>20. PICK u2 \in Seq(NodeIn) :
        /\ One(u2)
        /\ \A x : x \in Range(u2) <=> x \in Range(open2) /\ \A p \in r2 : p[1] # x.tag
        /\ \A x, y \in Range(u2) : Sooner(u2, x, y) <=> Sooner(out2, x, y)
        /\ \A t : t \in held2 <=> \/ t \in Tags(refused) /\ t \in mine2
                                \/ \E p \in PairRenamed(u2, Untagged(refused, mine2)) : p[1] = t
  BY <1>17 DEF HeldFrom
\* what is left of the unpaired: those that are held for a refused node
<1>21. \A x : x \in Range(u2) <=> x \in Range(out2) /\ x.tag \in held /\ x.tag \notin Tags(refused)
  BY <1>5, <1>10, <1>18, <1>19, <1>20
<1>22. \A x : x.tag \in held => (x \in Range(out2) <=> x \in Range(out))
  <2> SUFFICES ASSUME NEW x, x.tag \in held PROVE x \in Range(out2) <=> x \in Range(out)
    OBVIOUS
  <2>1. x.tag \notin removed \cup Tags(incoming) /\ \A p \in r : p[1] # x.tag
    BY <1>5
  <2>2. ~\E n \in Range(incoming) : x = Bare(n)
    BY <1>8, <2>1
  <2> QED  BY <1>4, <2>1, <2>2
<1>23. \A x : x \in Range(u2) <=> x \in Range(u) /\ x.tag \in held
  <2> SUFFICES ASSUME NEW x, x.tag \in held PROVE x \in Range(u2) <=> x \in Range(u)
    BY <1>21
  <2>1. x.tag \in mine /\ x.tag \notin Tags(incoming) /\ \A p \in r : p[1] # x.tag
    BY <1>5
  <2>2. x \in Range(u) <=> x \in Range(out) /\ x.tag \notin Tags(refused)
    BY <1>5, <1>7, <2>1
  <2> QED  BY <1>21, <1>22, <2>2
<1>24. \A x \in Range(u) : x \in Range(u2) <=> \E p \in PairRenamed(u, a) : p[1] = x.tag
  <2> SUFFICES ASSUME NEW x \in Range(u) PROVE x.tag \in held <=> \E p \in PairRenamed(u, a) : p[1] = x.tag
    BY <1>23
  <2>1. x.tag \notin Tags(refused)
    BY <1>5, <1>7
  <2> QED  BY <1>7, <2>1
<1>25. PartOf(u2, u)
  <2>1. \A x \in Range(u2) : /\ x \in Range(out) /\ x \in Range(u)
                             /\ x.tag \notin removed \cup Tags(incoming) /\ \A p \in r : p[1] # x.tag
    BY <1>5, <1>21, <1>22, <1>23
  <2>2. \A x, y \in Range(u2) : Sooner(out2, x, y) <=> Sooner(out, x, y)
    <3> SUFFICES ASSUME NEW x \in Range(u2), NEW y \in Range(u2) PROVE Sooner(out2, x, y) <=> Sooner(out, x, y)
      OBVIOUS
    <3>1. out2 = Rewrite(out, c, incoming, r, held, removed).outbounds
      BY <1>2 DEF out2
    <3> QED  BY <1>2, <2>1, <3>1, RewriteSooner
  <2> QED  BY <1>7, <1>20, <2>1, <2>2 DEF PartOf
<1>31. /\ u \in Seq(NodeIn) /\ One(u) /\ u2 \in Seq(NodeIn) /\ One(u2) /\ a \in Seq(Nameds) /\ One(a)
  BY <1>7, <1>14, <1>20
<1> HIDE DEF a
<1>26. \A t : (\E p \in PairRenamed(u2, a) : p[1] = t) <=> t \in Tags(u2)
  BY <1>24, <1>25, <1>31, PairedAgain
<1>27. \A t : t \in held2 <=> t \in held
  <2> TAKE t
  <2>1. t \in held2 <=> (t \in Tags(refused) /\ t \in mine) \/ t \in Tags(u2)
    BY <1>12, <1>13, <1>20, <1>26 DEF a
  <2>2. t \in Tags(u2) => t \in held
    <3> SUFFICES ASSUME t \in Tags(u2) PROVE t \in held
      OBVIOUS
    <3>1. PICK x \in Range(u2) : x.tag = t
      BY TagsOf
    <3> QED  BY <1>23, <3>1
  <2>3. t \in held /\ t \notin Tags(refused) => t \in Tags(u2)
    <3> SUFFICES ASSUME t \in held, t \notin Tags(refused) PROVE t \in Tags(u2)
      OBVIOUS
    <3>1. t \in Tags(out)
      BY <1>5
    <3>2. PICK x \in Range(out) : x.tag = t
      BY <3>1, TagsOf
    <3>3. x \in Range(u2)
      BY <1>21, <1>22, <3>2
    <3> QED  BY <3>2, <3>3, TagsOf
  <2> QED  BY <1>5, <2>1, <2>2, <2>3
<1>28. held2 = held
  BY <1>27
<1>29. removed2 = {}
  BY <1>10, <1>19, <1>28
<1>30. m2 = Result(TRUE, out2, m.chosen, m.tags, FALSE)
  <2>1. m2 = Rewrite(out2, m.chosen, incoming, {}, held, {})
    BY <1>17, <1>18, <1>28, <1>29
  <2>2. out2 \in Seq(NodeIn) /\ One(out2) /\ \A n \in Range(incoming) : Bare(n) \in Range(out2)
    BY <1>4, <1>8
  <2>5. Unmoved(out2, m.chosen, incoming, held)
    BY <2>2, RewriteSame
  <2>3. Rewrite(out2, m.chosen, incoming, {}, held, {}) =
           Result(TRUE, out2, m.chosen, Tags(incoming) \cup held, FALSE)
    BY <2>5 DEF Unmoved
  <2>4. m.tags = Tags(incoming) \cup held
    BY <1>4
  <2> QED  BY <2>1, <2>3, <2>4
<1> QED  BY <1>11, <1>30, <1>46 DEF out2, m2, Settled

\* SyncOutbounds with the same list again changes nothing
LEMMA SyncAgain ==
    ASSUME NEW out \in Seq(NodeIn), One(out), NEW c \in Tags(out) \cup {Direct}, NEW owned,
           NEW nodes \in Seq(Judgeds), Distinct(nodes), NEW m, m = SyncMerge(out, c, owned, nodes)
    PROVE  Again(m, nodes)
<1> DEFINE mine == owned \cap Tags(out)
           named == SuffixTaken(nodes, Tags(out) \ mine)
           incoming == Only(named, {n \in Range(named) : n.fits})
           refused == Only(named, {n \in Range(named) : ~n.fits})
           mine2 == m.tags \cap Tags(m.outbounds)
           named2 == SuffixTaken(nodes, Tags(m.outbounds) \ mine2)
           incoming2 == Only(named2, {n \in Range(named2) : n.fits})
           refused2 == Only(named2, {n \in Range(named2) : ~n.fits})
<1>1. m = IF nodes # <<>> /\ incoming = <<>>
          THEN [ok |-> FALSE, outbounds |-> out, chosen |-> c, tags |-> owned, restart |-> FALSE]
          ELSE Reconcile(out, c, mine, incoming, refused)
  BY DEF SyncMerge
<1>2. SyncMerge(m.outbounds, m.chosen, m.tags, nodes) =
          IF nodes # <<>> /\ incoming2 = <<>>
          THEN [ok |-> FALSE, outbounds |-> m.outbounds, chosen |-> m.chosen, tags |-> m.tags, restart |-> FALSE]
          ELSE Reconcile(m.outbounds, m.chosen, mine2, incoming2, refused2)
  BY DEF SyncMerge
<1>3. /\ incoming \in Seq(Nameds) /\ One(incoming) /\ refused \in Seq(Nameds) /\ One(refused)
      /\ Tags(incoming) \cap Tags(refused) = {}
      /\ \A n \in Range(incoming) \cup Range(refused) :
                    /\ n.tag \in Tags(out) => n.tag \in owned
                    /\ \E i \in 1 .. Len(nodes) : n.origin = nodes[i].origin
      /\ nodes = <<>> => incoming = <<>> /\ refused = <<>>
  BY NamedParts
<1>4. Tags(m.outbounds) \ mine2 = Tags(out) \ mine => named2 = named /\ incoming2 = incoming /\ refused2 = refused
  OBVIOUS
<1>5. \A t : t \in mine2 <=> t \in m.tags /\ t \in Tags(m.outbounds)
  OBVIOUS
<1>6. mine \subseteq Tags(out)
  OBVIOUS
<1>9. /\ incoming \in Seq(Nameds) /\ One(incoming) /\ refused \in Seq(Nameds) /\ One(refused)
      /\ Tags(incoming) \cap Tags(refused) = {}
  BY <1>3
<1>7. CASE nodes # <<>> /\ incoming = <<>>
  <2>1. \E no : no = FALSE /\ m = Result(no, out, c, owned, no)
    BY <1>1, <1>7 DEF Result
  <2>2. PICK no : no = FALSE /\ m = Result(no, out, c, owned, no)
    BY <2>1
  <2>3. m.ok = no /\ m.outbounds = out /\ m.chosen = c /\ m.tags = owned /\ m.restart = no /\ Full(m)
    BY <2>2, ResultIs
  <2>4. Calm(m) = Result(no, out, c, owned, FALSE)
    BY <2>3, ResultCalm
  <2>5. Calm(m) = m
    BY <2>2, <2>4, Zenon
  <2>6. m = SyncMerge(out, c, owned, nodes)
    OBVIOUS
  <2> QED  BY <2>3, <2>5, <2>6 DEF Again
<1>8. CASE ~(nodes # <<>> /\ incoming = <<>>)
  <2>1. m = Reconcile(out, c, mine, incoming, refused)
    BY <1>1, <1>8
  <2>2. \A t \in Tags(incoming) : t \in Tags(out) => t \in mine
    <3> HIDE DEF incoming, refused
    <3> SUFFICES ASSUME NEW t \in Tags(incoming), t \in Tags(out) PROVE t \in mine
      OBVIOUS
    <3>1. PICK n \in Range(incoming) : n.tag = t
      BY <1>9, TagsOf
    <3> QED  BY <1>3, <3>1
  <2>30. Settled(out, mine, m, mine2, incoming, refused)
    <3> HIDE DEF incoming, refused, mine, mine2
    <3> QED  BY <1>9, <1>5, <1>6, <2>1, <2>2, ReconciledAgain
  <2>3. /\ Tags(m.outbounds) \ mine2 = Tags(out) \ mine
        /\ Reconcile(m.outbounds, m.chosen, mine2, incoming, refused) =
                 Result(m.ok, m.outbounds, m.chosen, m.tags, FALSE)
        /\ Full(m)
    <3> HIDE DEF incoming, refused, mine, mine2
    <3> QED  BY <2>30 DEF Settled
  <2>4. SyncMerge(m.outbounds, m.chosen, m.tags, nodes) = Result(m.ok, m.outbounds, m.chosen, m.tags, FALSE)
    <3>1. incoming2 = incoming /\ refused2 = refused
      BY <1>4, <2>3
    <3> HIDE DEF incoming, refused, mine, mine2, incoming2, refused2
    <3> QED  BY <1>2, <1>8, <2>3, <3>1
  <2>5. Calm(m) = Result(m.ok, m.outbounds, m.chosen, m.tags, FALSE)
    BY <2>3, ResultCalm
  <2> QED  BY <2>4, <2>5 DEF Again
<1> QED  BY <1>7, <1>8

\* RefreshIsStable: a list that is served again changes neither config nor owners, asks for no
\* restart and leaves the numbers of taken names (suffixTaken, syncMerge)
THEOREM RefreshStable == Spec => []RefreshIsStable
<1>1. SyncInv => RefreshIsStable
  <2> SUFFICES ASSUME SyncInv, NEW s \in Range(list), NEW b \in Bodies[s.url], NEW bad \in Verdicts(b)
               PROVE  LET nodes == Judged(b, s.url, bad)
                          m == SyncMerge(outbounds, chosen, s.tags, nodes)
                      IN SyncMerge(m.outbounds, m.chosen, m.tags, nodes) = [m EXCEPT !.restart = FALSE]
    BY DEF RefreshIsStable
  <2>1. outbounds \in Seq(NodeIn) /\ One(outbounds) /\ chosen \in Tags(outbounds) \cup {Direct} /\ Listing(list)
    BY DEF SyncInv, ConfigOK, ListsOK
  <2>2. PICK i \in DOMAIN list : list[i] = s
    BY DEF Range
  <2>3. s.url \in Urls
    BY <2>1, <2>2, Positions
  <2> DEFINE nodes == Judged(b, s.url, bad)
  <2>4. nodes \in Seq(Judgeds) /\ Distinct(nodes)
    BY <2>3, Body
  <2> HIDE DEF nodes
  <2> DEFINE m == SyncMerge(outbounds, chosen, s.tags, nodes)
  <2>5. m = SyncMerge(outbounds, chosen, s.tags, nodes)
    OBVIOUS
  <2> HIDE DEF m
  <2>6. outbounds \in Seq(NodeIn) /\ One(outbounds) /\ chosen \in Tags(outbounds) \cup {Direct}
    BY <2>1
  <2>7. Again(m, nodes)
    BY <2>4, <2>5, <2>6, SyncAgain
  <2> QED  BY <2>7 DEF Again, Calm, m, nodes
<1> QED  BY <1>1, SyncInvariance, PTL

-----------------------------------------------------------------------------
(* Reports *)

\* What is remembered has been shown, and the last problem is remembered
Memories ==
    /\ reported \in Seq(Kinds)
    /\ ToSet(reported) \subseteq told
    /\ before \subseteq ToSet(reported)

\* A problem with no other kinds than the last one is not new
NoNews == update.kinds # {} /\ update.kinds \subseteq update.known => ~update.new
ReportInv == Memories /\ NoNews

\* What a list has is what is at its positions
LEMMA Elements ==
    ASSUME NEW S, NEW s \in Seq(S)
    PROVE  /\ \A e \in ToSet(s) : \E i \in 1..Len(s) : s[i] = e
           /\ \A i \in 1..Len(s) : s[i] \in ToSet(s)
BY DEF ToSet

\* What Only leaves, as sets
LEMMA OnlySet ==
    ASSUME NEW S, NEW s \in Seq(S), NEW T
    PROVE  Only(s, T) \in Seq(S) /\ ToSet(Only(s, T)) = ToSet(s) \cap T
<1>1. Only(s, T) \in Seq(S) /\ \A e : e \in Range(Only(s, T)) <=> e \in Range(s) /\ e \in T
  BY Filtered
<1>2. ToSet(Only(s, T)) = Range(Only(s, T)) /\ ToSet(s) = Range(s)
  BY DEF ToSet, Range
<1> QED  BY <1>1, <1>2

\* A finite set as a list
LEMMA Listed ==
    ASSUME NEW S, IsFiniteSet(S)
    PROVE  /\ SetToSeq(S) \in Seq(S) /\ Len(SetToSeq(S)) = Cardinality(S) /\ Cardinality(S) \in Nat
           /\ ToSet(SetToSeq(S)) = S
<1> DEFINE n == Cardinality(S)
           t == SetToSeq(S)
<1>1. n \in Nat /\ ExistsBijection(1..n, S)
  BY FS_CardinalityType
<1>2. PICK f \in Bijection(1..n, S) : TRUE
  BY <1>1 DEF ExistsBijection
<1>3. f \in [1..n -> S] /\ IsInjective(f)
  BY <1>2 DEF Bijection, Injection
<1>4. t \in [1..n -> S] /\ IsInjective(t)
  BY <1>3 DEF SetToSeq
<1>5. IsFiniteSet(1..n) /\ Cardinality(1..n) = n
  BY <1>1, FS_Interval
<1> HIDE DEF t
<1>6. t \in Surjection(1..n, S)
  <2>1. t \in Injection(1..n, S)
    BY <1>4 DEF Injection
  <2> QED  BY <1>5, <2>1, FS_Injection
<1>7. t \in Seq(S) /\ Len(t) = n /\ DOMAIN t = 1..n
  BY <1>1, <1>4
<1> QED  BY <1>1, <1>6, <1>7 DEF Surjection, ToSet, t

\* The trim drops none of the kinds of this refresh (noteProblem)
LEMMA Remembered ==
    ASSUME NEW memory \in Seq(Kinds), NEW kinds \in SUBSET Kinds, IsFiniteSet(kinds)
    PROVE  LET r == Remember(memory, kinds) IN
           /\ r \in Seq(Kinds) /\ ToSet(r) \subseteq ToSet(memory) \cup kinds /\ kinds \subseteq ToSet(r)
           /\ kinds = {} => ToSet(r) = ToSet(memory)
<1> DEFINE a == Only(memory, Kinds \ kinds)
           b == SetToSeq(kinds)
           all == a \o b
           n == Cardinality(kinds)
           limit == IF Limit > n THEN Limit ELSE n
           r == Remember(memory, kinds)
<1>1. a \in Seq(Kinds) /\ ToSet(a) = ToSet(memory) \ kinds
  <2>1. ToSet(memory) \subseteq Kinds
    BY DEF ToSet
  <2> QED  BY <2>1, OnlySet
<1>2. b \in Seq(kinds) /\ Len(b) = n /\ n \in Nat /\ ToSet(b) = kinds
  BY Listed
<1>3. r = IF kinds # {} /\ Len(all) > limit THEN SubSeq(all, Len(all) - limit + 1, Len(all)) ELSE all
  BY DEF Remember
<1> HIDE DEF a, b, r, n
<1>4. /\ all \in Seq(Kinds) /\ Len(all) = Len(a) + n /\ Len(a) \in Nat
      /\ \A i \in 1..Len(a) : all[i] = a[i]
      /\ \A j \in 1..n : all[Len(a) + j] = b[j]
  BY <1>1, <1>2
<1> HIDE DEF all
<1>5. ToSet(all) = ToSet(a) \cup kinds
  <2>1. \A e \in ToSet(all) : e \in ToSet(a) \cup kinds
    <3> SUFFICES ASSUME NEW i \in 1..Len(all) PROVE all[i] \in ToSet(a) \cup kinds
      BY <1>4, Elements
    <3>1. CASE i \in 1..Len(a)
      BY <1>1, <1>4, <3>1, Elements
    <3>2. CASE i \notin 1..Len(a)
      <4>1. i - Len(a) \in 1..n /\ Len(a) + (i - Len(a)) = i
        BY <1>2, <1>4, <3>2
      <4>2. all[i] = b[i - Len(a)]
        BY <1>4, <4>1
      <4> QED  BY <1>2, <4>1, <4>2
    <3> QED  BY <3>1, <3>2
  <2>2. \A e \in ToSet(a) : e \in ToSet(all)
    <3> SUFFICES ASSUME NEW i \in 1..Len(a) PROVE a[i] \in ToSet(all)
      BY <1>1, Elements
    <3>1. i \in 1..Len(all) /\ all[i] = a[i]
      BY <1>2, <1>4
    <3> QED  BY <1>4, <3>1, Elements
  <2>3. \A e \in kinds : e \in ToSet(all)
    <3> SUFFICES ASSUME NEW j \in 1..n PROVE b[j] \in ToSet(all)
      BY <1>2, Elements
    <3>1. Len(a) + j \in 1..Len(all)
      BY <1>2, <1>4
    <3> QED  BY <1>4, <3>1, Elements
  <2> QED  BY <2>1, <2>2, <2>3
<1>6. CASE ~(kinds # {} /\ Len(all) > limit)
  BY <1>1, <1>3, <1>4, <1>5, <1>6 DEF r
<1>7. CASE kinds # {} /\ Len(all) > limit
  <2>1. limit \in Nat /\ limit >= n /\ limit > 0
    BY <1>2, LimitAssumption
  <2> DEFINE lo == Len(all) - limit
  <2>2. lo \in Nat /\ lo + limit = Len(all) /\ Len(all) \in Nat
    BY <1>2, <1>4, <1>7, <2>1
  <2> HIDE DEF limit
  <2>3. r = SubSeq(all, lo + 1, Len(all))
    BY <1>3, <1>7
  <2> HIDE DEF lo
  <2>4. r \in Seq(Kinds) /\ Len(r) = limit /\ \A i \in 1..limit : r[i] = all[lo + i]
    <3>1. all \in Seq(Kinds) /\ \A i \in 1..limit : lo + i \in 1..Len(all)
      BY <1>4, <2>1, <2>2
    <3>2. r = [i \in 1..limit |-> all[lo + i]]
      BY <2>1, <2>2, <2>3, <3>1
    <3>3. \A i \in 1..limit : r[i] = all[lo + i] /\ r[i] \in Kinds
      BY <3>1, <3>2
    <3> QED  BY <2>1, <3>2, <3>3
  <2>5. ToSet(r) \subseteq ToSet(all)
    <3> SUFFICES ASSUME NEW i \in 1..limit PROVE r[i] \in ToSet(all)
      BY <2>4, Elements
    <3>1. lo + i \in 1..Len(all)
      BY <2>1, <2>2
    <3> QED  BY <1>4, <2>4, <3>1, Elements
  <2>6. \A e \in kinds : e \in ToSet(r)
    <3> SUFFICES ASSUME NEW j \in 1..n PROVE b[j] \in ToSet(r)
      BY <1>2, Elements
    <3>1. (Len(a) + j) - lo \in 1..limit /\ lo + ((Len(a) + j) - lo) = Len(a) + j
      BY <1>2, <1>4, <2>1, <2>2
    <3>2. r[(Len(a) + j) - lo] = b[j]
      BY <1>4, <2>4, <3>1
    <3> QED  BY <2>4, <3>1, <3>2, Elements
  <2> QED  BY <1>1, <1>5, <1>7, <2>4, <2>5, <2>6 DEF r
<1> QED  BY <1>6, <1>7

LEMMA KindsFinite == ASSUME NEW kinds \in SUBSET Kinds PROVE IsFiniteSet(kinds)
<1>1. IsFiniteSet({"download", "parse", "info", "config", "fit"})
  <2>1. IsFiniteSet({"download"} \cup {"parse"})
    BY FS_Singleton, FS_AddElement
  <2>2. IsFiniteSet(({"download"} \cup {"parse"}) \cup {"info"})
    BY <2>1, FS_AddElement
  <2>3. IsFiniteSet((({"download"} \cup {"parse"}) \cup {"info"}) \cup {"config"})
    BY <2>2, FS_AddElement
  <2>4. IsFiniteSet(((({"download"} \cup {"parse"}) \cup {"info"}) \cup {"config"}) \cup {"fit"})
    BY <2>3, FS_AddElement
  <2>5. {"download", "parse", "info", "config", "fit"}
           = ((({"download"} \cup {"parse"}) \cup {"info"}) \cup {"config"}) \cup {"fit"}
    OBVIOUS
  <2> QED  BY <2>4, <2>5
<1>2. IsFiniteSet(Stages \cup Reasons)
  BY <1>1, LimitAssumption, FS_Union DEF Stages
<1> QED  BY <1>2, FS_Subset DEF Kinds

LEMMA RefreshedKeeps ==
    ASSUME ReportInv, NEW stage \in Stages \cup {"saved"}, NEW skipped \in SUBSET Reasons, NEW attended \in BOOLEAN,
           Refreshed(stage, skipped, attended)
    PROVE  ReportInv'
<1> DEFINE F == Forgotten(stage)
           memory == Forget(F)
           kinds == IF Counts(stage) THEN Noted(stage, skipped) ELSE {}
           found == Found(stage, skipped)
           new == kinds \ ToSet(memory) # {}
           shown == IF attended \/ new THEN found ELSE {}
           over == stage = "saved" /\ skipped = {} /\ seenAge >= Memory
<1>1. /\ reported' = IF over THEN <<>> ELSE Remember(memory, kinds)
      /\ update' = [kinds |-> kinds, new |-> new, known |-> before \ F]
      /\ told' = ((told \ F) \cup shown) \cap (ToSet(reported') \cup shown)
      /\ before' = IF over THEN {} ELSE IF kinds # {} THEN kinds ELSE before \ F
  BY Zenon DEF Refreshed
<1>2. memory \in Seq(Kinds) /\ ToSet(memory) = ToSet(reported) \ F
  <2>1. reported \in Seq(Kinds) /\ ToSet(reported) \subseteq Kinds
    BY DEF ReportInv, Memories, ToSet
  <2>2. memory = Only(reported, Kinds \ F)
    BY DEF Forget
  <2> QED  BY <2>1, <2>2, OnlySet
<1>3. kinds \subseteq Kinds /\ kinds \subseteq found
  BY DEF Noted, Found, Kinds
<1>4. over => kinds = {}
  BY DEF Noted, Found
<1>5. new <=> kinds \ ToSet(memory) # {}
  OBVIOUS
<1> HIDE DEF F, memory, kinds, found, new, over
<1>6. new => shown = found
  BY Zenon
<1>7. before \ F \subseteq ToSet(memory) /\ ToSet(memory) \subseteq told \ F
  BY <1>2 DEF ReportInv, Memories
<1> HIDE DEF shown
<1>8. Memories'
  <2>1. CASE over
    <3>1. reported' = <<>> /\ before' = {}
      BY <1>1, <2>1, Zenon
    <3> QED  BY <3>1 DEF Memories, ToSet
  <2>2. CASE ~over
    <3>1. reported' = Remember(memory, kinds) /\ before' = IF kinds # {} THEN kinds ELSE before \ F
      BY <1>1, <2>2, Zenon
    <3>2. IsFiniteSet(kinds)
      BY <1>3, KindsFinite
    <3>3. /\ reported' \in Seq(Kinds) /\ ToSet(reported') \subseteq ToSet(memory) \cup kinds
          /\ kinds \subseteq ToSet(reported') /\ (kinds = {} => ToSet(reported') = ToSet(memory))
      BY <1>2, <1>3, <3>1, <3>2, Remembered
    <3>4. kinds \ ToSet(memory) # {} => shown = found
      BY <1>5, <1>6, Zenon
    <3>5. \A k \in ToSet(reported') : k \in (told \ F) \cup shown
      BY <1>3, <1>7, <3>3, <3>4
    <3>6. ToSet(reported') \subseteq told'
      BY <1>1, <3>5
    <3>7. before' \subseteq ToSet(reported')
      BY <1>7, <3>1, <3>3
    <3>8. ToSet(reported)' = ToSet(reported')
      OBVIOUS
    <3> QED  BY <3>3, <3>6, <3>7 DEF Memories
  <2> QED  BY <2>1, <2>2
<1>9. NoNews'
  <2>1. update'.kinds = kinds /\ update'.known = before \ F /\ (update'.new <=> new)
    BY <1>1, Zenon
  <2>2. kinds \subseteq before \ F => kinds \ ToSet(memory) = {}
    BY <1>7
  <2> QED  BY <1>5, <2>1, <2>2, Zenon DEF NoNews
<1> QED  BY <1>8, <1>9 DEF ReportInv

LEMMA ReportStep == ASSUME ReportInv, [ReportNext]_reportVars PROVE ReportInv'
<1>1. CASE UNCHANGED <<reported, update, told, before>>
  BY <1>1 DEF ReportInv, Memories, NoNews
<1>2. CASE UNCHANGED reportVars
  BY <1>1, <1>2 DEF reportVars
<1>3. CASE Tick
  BY <1>1, <1>3 DEF Tick
<1> QED  BY <1>2, <1>3, RefreshedKeeps DEF ReportNext

-----------------------------------------------------------------------------
\* What is remembered as reported was shown since it was last forgotten, and the
\* kinds of the last problem are all remembered, however long the memory is
THEOREM ReportInvariance == ReportSpec => []ReportInv
<1>1. ReportInit => ReportInv
  BY DEF ReportInit, ReportInv, Memories, NoNews, Nothing, ToSet
<1> QED  BY <1>1, ReportStep, PTL DEF ReportSpec

\* A kind is recorded as reported only when the user was shown it, and a refresh
\* whose kinds are those of the last problem is not news, for any reasons, limit
\* of the memory and ages (noteProblem, forgetKind)
THEOREM NothingTwice == ReportSpec => []ToldOnce
<1>1. ReportInv => ToldOnce
  BY DEF ReportInv, Memories, NoNews, ToldOnce
<1> QED  BY <1>1, ReportInvariance, PTL
=============================================================================
