--------------------------- MODULE VerwaltungProofs ---------------------------
(***************************************************************************)
(* For any number of requests, organisations, Rollen and service providers *)
(* Verwaltung is type correct, nobody writes over a change of an           *)
(* organisation or a Rolle that they have not seen, and what the checks of *)
(* the requests promise holds: names and Kennungen, the shape of the tree, *)
(* what Kontexte refer to, and what the job of VIDIS has written.  What    *)
(* handlers tell itslearning of Klassen comes out right.  The ways to find *)
(* out what someone may do agree in every typed state.                     *)
(***************************************************************************)
EXTENDS Verwaltung, FiniteSetTheorems, WellFoundedInduction, TLAPS

-----------------------------------------------------------------------------
(* Trees                                                                   *)

(* A set of natural numbers has a least one.                                *)
LEMMA Least ==
  ASSUME NEW S \in SUBSET Nat, S # {}
  PROVE  \E n \in S : \A m \in S : n <= m
<1> DEFINE R == {p \in Nat \X Nat : p[1] < p[2]}
<1>1. IsWellFoundedOn(R, Nat)
  BY NatLessThanWellFounded DEF OpToRel
<1>2. PICK n \in S : \A m \in S : ~(<<m, n>> \in R)
  <2> HIDE DEF R
  <2> QED
    BY <1>1, WFMin
<1>3. \A m \in S : ~(m < n)
  BY <1>2
<1> QED
  BY <1>3

(* A set with 0 and all successors has them all.                            *)
LEMMA Induction ==
  ASSUME NEW S, 0 \in S, \A n \in Nat : n \in S => n + 1 \in S
  PROVE  \A n \in Nat : n \in S
<1>1. SUFFICES ASSUME Nat \ S # {} PROVE FALSE
  OBVIOUS
<1>2. PICK n \in Nat \ S : \A m \in Nat \ S : n <= m
  BY <1>1, Least
<1>3. n - 1 \in Nat /\ n - 1 \notin Nat \ S
  BY <1>2
<1> QED
  BY <1>2, <1>3

(* What is defined step by step is defined at every step.                   *)
LEMMA Recursion ==
  ASSUME NEW X, NEW x \in X, NEW g \in [X -> X]
  PROVE  \E f \in [Nat -> X] : f[0] = x /\ \A n \in Nat : f[n + 1] = g[f[n]]
<1> DEFINE Begins(n, h) == h \in [0 .. n -> X] /\ h[0] = x /\ \A m \in 0 .. n - 1 : h[m + 1] = g[h[m]]
<1>1. \A n \in Nat : \E h : Begins(n, h)
  <2> DEFINE S == {n \in Nat : \E h : Begins(n, h)}
  <2>1. 0 \in S
    <3>1. Begins(0, [m \in 0 .. 0 |-> x])
      OBVIOUS
    <3> QED
      BY <3>1
  <2>2. ASSUME NEW n \in Nat, n \in S PROVE n + 1 \in S
    <3>1. PICK h : Begins(n, h)
      BY <2>2
    <3> DEFINE k == [m \in 0 .. n + 1 |-> IF m = n + 1 THEN g[h[n]] ELSE h[m]]
    <3>2. k \in [0 .. n + 1 -> X] /\ k[0] = x
      BY <3>1
    <3>3. ASSUME NEW m \in 0 .. n PROVE k[m + 1] = g[k[m]]
      <4>1. CASE m = n
        BY <3>1, <4>1
      <4>2. CASE m # n
        <5>1. m \in 0 .. n - 1 /\ m \in Nat /\ m + 1 # n + 1 /\ m + 1 \in 0 .. n + 1 /\ m \in 0 .. n + 1 /\ m # n + 1
          BY <3>3, <4>2
        <5>2. k[m + 1] = h[m + 1] /\ k[m] = h[m]
          BY <5>1
        <5> QED
          BY <3>1, <5>1, <5>2
      <4> QED
        BY <4>1, <4>2
    <3>4. Begins(n + 1, k)
      <4> HIDE DEF k
      <4>1. n + 1 - 1 = n
        OBVIOUS
      <4>2. \A m \in 0 .. n + 1 - 1 : k[m + 1] = g[k[m]]
        BY <3>3, <4>1
      <4> QED
        BY <3>2, <4>2
    <3> HIDE DEF k
    <3>5. \E j : Begins(n + 1, j)
      BY <3>4
    <3> QED
      BY <3>5
  <2> HIDE DEF S
  <2>3. \A n \in Nat : n \in S
    BY <2>1, <2>2, Induction
  <2> QED
    BY <2>3 DEF S
<1>2. ASSUME NEW n \in Nat, NEW k \in Nat, NEW h, NEW j, Begins(n, h), Begins(k, j), NEW m \in Nat, m <= n, m <= k
      PROVE  h[m] = j[m]
  <2> DEFINE S == {l \in Nat : l <= n /\ l <= k => h[l] = j[l]}
  <2>1. 0 \in S
    BY <1>2
  <2>2. ASSUME NEW l \in Nat, l \in S PROVE l + 1 \in S
    <3>1. SUFFICES ASSUME l + 1 <= n, l + 1 <= k PROVE h[l + 1] = j[l + 1]
      OBVIOUS
    <3>2. h[l + 1] = g[h[l]] /\ j[l + 1] = g[j[l]] /\ h[l] = j[l]
      BY <1>2, <2>2, <3>1
    <3> QED
      BY <3>2
  <2> HIDE DEF S
  <2>3. m \in S
    BY <2>1, <2>2, Induction
  <2> QED
    BY <1>2, <2>3 DEF S
<1> DEFINE Up(n) == CHOOSE h : Begins(n, h)
           f == [n \in Nat |-> Up(n)[n]]
<1>3. \A n \in Nat : Begins(n, Up(n))
  BY <1>1
<1> HIDE DEF Up
<1>4. f \in [Nat -> X] /\ f[0] = x
  BY <1>3
<1>5. ASSUME NEW n \in Nat PROVE f[n + 1] = g[f[n]]
  <2>1. f[n + 1] = Up(n + 1)[n + 1] /\ f[n] = Up(n)[n]
    OBVIOUS
  <2>2. Up(n + 1)[n + 1] = g[Up(n + 1)[n]]
    BY <1>3
  <2>3. Begins(n + 1, Up(n + 1)) /\ Begins(n, Up(n))
    BY <1>3
  <2> HIDE DEF Begins, f
  <2>4. Up(n + 1)[n] = Up(n)[n]
    BY <1>2, <2>3
  <2> QED
    BY <2>1, <2>2, <2>4
<1> HIDE DEF f
<1> QED
  BY <1>4, <1>5

(* The ways that Ends asks about.                                           *)
LEMMA Ways ==
  ASSUME NEW t, NEW kind, NEW i \in Ids \union {None}, \A x \in Ids : t[x][kind] \in Ids \union {None}
  PROVE  \E way \in [Nat -> Ids \union {None}] :
           /\ way[0] = i
           /\ \A n \in Nat : way[n + 1] = IF way[n] = None THEN None ELSE t[way[n]][kind]
           /\ Ends(t, kind, i) <=> way[Cardinality(Ids)] = None
<1> DEFINE g == [x \in Ids \union {None} |-> IF x = None THEN None ELSE t[x][kind]]
           Is(way) == way = [n \in Nat |-> IF n = 0 THEN i
                               ELSE LET lower == way[n - 1] IN IF lower = None THEN None ELSE t[lower][kind]]
           w == CHOOSE way : Is(way)
<1>1. g \in [Ids \union {None} -> Ids \union {None}]
  OBVIOUS
<1>2. PICK f \in [Nat -> Ids \union {None}] : f[0] = i /\ \A n \in Nat : f[n + 1] = g[f[n]]
  <2> DEFINE X == Ids \union {None}
  <2>1. i \in X /\ g \in [X -> X]
    BY <1>1
  <2> HIDE DEF g, X
  <2>2. \E f \in [Nat -> X] : f[0] = i /\ \A n \in Nat : f[n + 1] = g[f[n]]
    BY <2>1, Recursion
  <2> QED
    BY <2>2 DEF X
<1>3. Is(f)
  <2>1. ASSUME NEW n \in Nat
        PROVE  f[n] = IF n = 0 THEN i
                      ELSE LET lower == f[n - 1] IN IF lower = None THEN None ELSE t[lower][kind]
    <3>1. CASE n = 0
      BY <1>2, <3>1
    <3>2. CASE n # 0
      <4>1. n - 1 \in Nat /\ n = n - 1 + 1
        BY <3>2
      <4>2. f[n] = g[f[n - 1]]
        BY <1>2, <4>1
      <4> QED
        BY <1>2, <3>2, <4>1, <4>2
    <3> QED
      BY <3>1, <3>2
  <2> QED
    BY <1>2, <2>1
<1>4. Is(w)
  BY <1>3
<1>5. Ends(t, kind, i) <=> w[Cardinality(Ids)] = None
  BY Zenon DEF Ends
<1> HIDE DEF w
<1>6. w[0] = i
  BY <1>4
<1>7. ASSUME NEW n \in Nat PROVE w[n + 1] = IF w[n] = None THEN None ELSE t[w[n]][kind]
  <2>1. n + 1 \in Nat /\ n + 1 # 0 /\ n + 1 - 1 = n
    OBVIOUS
  <2>2. w[n + 1] = LET lower == w[n + 1 - 1] IN IF lower = None THEN None ELSE t[lower][kind]
    BY <1>4, <2>1
  <2> QED
    BY <2>1, <2>2
<1> DEFINE S == {n \in Nat : w[n] \in Ids \union {None}}
<1>8. 0 \in S
  BY <1>6
<1>9. ASSUME NEW n \in Nat, n \in S PROVE n + 1 \in S
  <2>1. n + 1 \in Nat /\ (w[n] = None \/ w[n] \in Ids)
    BY <1>9
  <2>2. w[n + 1] \in Ids \union {None}
    BY <1>7, <2>1
  <2> QED
    BY <2>1, <2>2
<1>10. \A n \in Nat : w[n] \in Ids \union {None}
  <2> HIDE DEF S
  <2>1. \A n \in Nat : n \in S
    BY <1>8, <1>9, Induction
  <2> QED
    BY <2>1 DEF S
<1>11. w \in [Nat -> Ids \union {None}]
  BY <1>4, <1>10
<1> HIDE DEF Is
<1> QED
  BY <1>5, <1>6, <1>7, <1>11

(* A set of organisations whose parents are all in it.                      *)
Trap(t, kind, S) == S \subseteq Ids /\ \A x \in S : t[x][kind] \in S

(* The way up has an end unless it runs into such a set.                    *)
LEMMA EndsUnlessTrapped ==
  ASSUME NEW t, NEW kind, NEW i \in Ids, \A x \in Ids : t[x][kind] \in Ids \union {None}
  PROVE  Ends(t, kind, i) <=> \A S \in SUBSET Ids : Trap(t, kind, S) => i \notin S
<1> DEFINE N == Cardinality(Ids)
<1>n. N \in Nat /\ IsFiniteSet(Ids)
  BY FS_CardinalityType, TreeAssumption
<1>1. PICK way \in [Nat -> Ids \union {None}] :
        /\ way[0] = i
        /\ \A n \in Nat : way[n + 1] = IF way[n] = None THEN None ELSE t[way[n]][kind]
        /\ Ends(t, kind, i) <=> way[N] = None
  BY Ways
<1> HIDE DEF N
<1>2. ASSUME NEW S \in SUBSET Ids, Trap(t, kind, S), i \in S PROVE way[N] # None
  <2> DEFINE In == {n \in Nat : way[n] \in S}
  <2>1. 0 \in In
    BY <1>1, <1>2
  <2>2. ASSUME NEW n \in Nat, n \in In PROVE n + 1 \in In
    <3>1. way[n] # None /\ way[n + 1] = t[way[n]][kind]
      BY <1>1, <2>2, TreeAssumption
    <3> QED
      BY <1>2, <2>2, <3>1 DEF Trap
  <2> HIDE DEF In
  <2>3. \A n \in Nat : n \in In
    BY <2>1, <2>2, Induction
  <2> QED
    BY <2>3, <1>n, TreeAssumption DEF In
<1>3. ASSUME way[N] # None PROVE \E S \in SUBSET Ids : Trap(t, kind, S) /\ i \in S
  <2>1. ASSUME NEW m \in Nat, way[m] = None, NEW n \in Nat, m <= n PROVE way[n] = None
    <3> DEFINE In == {k \in Nat : way[m + k] = None}
    <3>1. 0 \in In
      BY <2>1
    <3>2. ASSUME NEW k \in Nat, k \in In PROVE k + 1 \in In
      <4>1. m + k \in Nat /\ m + (k + 1) = m + k + 1
        OBVIOUS
      <4> QED
        BY <1>1, <3>2, <4>1
    <3> HIDE DEF In
    <3>3. \A k \in Nat : k \in In
      BY <3>1, <3>2, Induction
    <3>4. n - m \in Nat /\ m + (n - m) = n
      BY <2>1
    <3>5. way[m + (n - m)] = None
      BY <3>3, <3>4 DEF In
    <3> QED
      BY <3>4, <3>5
  <2>2. \A n \in 0 .. N : way[n] \in Ids
    BY <1>n, <1>1, <1>3, <2>1
  <2> DEFINE f == [n \in 0 .. N |-> way[n]]
  <2>3. f \in [0 .. N -> Ids]
    BY <2>2
  <2>4. IsFiniteSet(0 .. N) /\ Cardinality(0 .. N) = N + 1
    BY <1>n, FS_Interval
  <2>5. N < N + 1
    BY <1>n
  <2>6. \E x, y \in 0 .. N : x # y /\ f[x] = f[y]
    <3> HIDE DEF f
    <3> QED
      BY <1>n, <2>3, <2>4, <2>5, FS_PigeonHole DEF N
  <2>7. PICK a \in Nat, b \in Nat : a < b /\ b <= N /\ way[a] = way[b]
    <3>1. PICK x \in 0 .. N, y \in 0 .. N : x # y /\ way[x] = way[y]
      BY <2>6
    <3> QED
      BY <3>1, <1>n
  <2> DEFINE S == {way[n] : n \in 0 .. b - 1}
  <2>8. S \subseteq Ids
    BY <1>n, <2>2, <2>7
  <2>9. ASSUME NEW n \in 0 .. b - 1 PROVE t[way[n]][kind] \in S
    <3>1. way[n] # None /\ way[n + 1] = t[way[n]][kind]
      BY <1>n, <1>1, <2>2, <2>7, TreeAssumption
    <3>2. CASE n + 1 <= b - 1
      <4>1. n + 1 \in 0 .. b - 1
        BY <3>2
      <4> QED
        BY <3>1, <4>1
    <3>3. CASE n + 1 = b
      <4>1. a \in 0 .. b - 1 /\ t[way[n]][kind] = way[a]
        BY <2>7, <3>1, <3>3
      <4> QED
        BY <4>1
    <3> QED
      BY <2>7, <3>2, <3>3
  <2>10. i \in S
    <3>1. 0 \in 0 .. b - 1
      BY <2>7
    <3> QED
      BY <1>1, <3>1
  <2>11. Trap(t, kind, S)
    BY <2>8, <2>9 DEF Trap
  <2> HIDE DEF S
  <2> QED
    BY <2>8, <2>10, <2>11
<1> QED
  BY <1>1, <1>2, <1>3

(* Sets that grow, and do not once they have not, have stopped to after as  *)
(* many steps as there are elements.                                        *)
LEMMA Settles ==
  ASSUME NEW X, IsFiniteSet(X), NEW f \in [Nat -> SUBSET X],
         \A n \in Nat : f[n] \subseteq f[n + 1],
         \A n \in Nat : f[n] = f[n + 1] => f[n + 1] = f[n + 1 + 1]
  PROVE  f[Cardinality(X) + 1] = f[Cardinality(X)]
<1> DEFINE N == Cardinality(X)
           In == {n \in Nat : n <= Cardinality(f[n]) \/ f[n] = f[n + 1]}
<1>n. N \in Nat
  BY FS_CardinalityType
<1>1. \A n \in Nat : f[n] \in SUBSET X /\ IsFiniteSet(f[n]) /\ Cardinality(f[n]) \in Nat
  BY FS_Subset, FS_CardinalityType
<1>2. 0 \in In
  BY <1>1
<1>3. ASSUME NEW n \in Nat, n \in In PROVE n + 1 \in In
  <2>1. CASE f[n] = f[n + 1]
    BY <2>1
  <2>2. CASE f[n] # f[n + 1]
    <3>1. n + 1 \in Nat /\ f[n] \in SUBSET f[n + 1]
      OBVIOUS
    <3>2. IsFiniteSet(f[n + 1]) /\ Cardinality(f[n + 1]) \in Nat /\ Cardinality(f[n]) \in Nat
      BY <1>1, <3>1
    <3>3. Cardinality(f[n]) <= Cardinality(f[n + 1]) /\ Cardinality(f[n]) # Cardinality(f[n + 1])
      BY <2>2, <3>1, <3>2, FS_Subset
    <3>4. n <= Cardinality(f[n])
      BY <1>3, <2>2
    <3>5. n + 1 <= Cardinality(f[n + 1])
      BY <3>2, <3>3, <3>4
    <3> QED
      BY <3>1, <3>5
  <2> QED
    BY <2>1, <2>2
<1>4. N \in In
  <2> HIDE DEF In
  <2> QED
    BY <1>2, <1>3, <1>n, Induction
<1>5. CASE N <= Cardinality(f[N])
  <2>1. Cardinality(f[N]) <= N /\ f[N] \in SUBSET X
    BY <1>1, <1>n, FS_Subset
  <2>2. Cardinality(f[N]) = N
    BY <1>1, <1>5, <1>n, <2>1
  <2>3. f[N] = X
    BY <2>1, <2>2, FS_Subset
  <2>4. N + 1 \in Nat /\ f[N + 1] \subseteq X /\ f[N] \subseteq f[N + 1]
    BY <1>n
  <2> QED
    BY <2>3, <2>4
<1> QED
  BY <1>4, <1>5

(* The organisations above one are its parent, the parents of those, and no *)
(* others.                                                                  *)
LEMMA AboveIs ==
  ASSUME NEW t, NEW kind, NEW i \in Ids, \A x \in Ids : t[x][kind] \in Ids \union {None}
  PROVE  /\ Above(t, kind, i) \subseteq Ids
         /\ t[i][kind] \in Above(t, kind, i) \union {None}
         /\ \A x \in Above(t, kind, i) : t[x][kind] \in Above(t, kind, i) \union {None}
         /\ \A S : /\ t[i][kind] \in S \union {None}
                   /\ \A x \in S : t[x][kind] \in S \union {None}
                   => Above(t, kind, i) \subseteq S
<1> DEFINE N == Cardinality(Ids)
           Parents(s) == {t[x][kind] : x \in s} \ {None}
           Is(w) == w = [n \in Nat |-> IF n = 0 THEN Parents({i})
                                       ELSE LET lower == w[n - 1] IN lower \union Parents(lower)]
           a == CHOOSE w : Is(w)
           g == [s \in SUBSET Ids |-> s \union Parents(s)]
<1>n. N \in Nat /\ IsFiniteSet(Ids)
  BY FS_CardinalityType, TreeAssumption
<1>1. \A s \in SUBSET Ids : Parents(s) \subseteq Ids
  OBVIOUS
<1>2. PICK f \in [Nat -> SUBSET Ids] : f[0] = Parents({i}) /\ \A n \in Nat : f[n + 1] = g[f[n]]
  <2> DEFINE X == SUBSET Ids
             b == Parents({i})
  <2>1. b \in X /\ g \in [X -> X]
    BY <1>1
  <2> HIDE DEF g, X, b
  <2>2. \E f \in [Nat -> X] : f[0] = b /\ \A n \in Nat : f[n + 1] = g[f[n]]
    BY <2>1, Recursion
  <2> QED
    BY <2>2 DEF X, b
<1>3. \E w : Is(w)
  <2>1. ASSUME NEW n \in Nat
        PROVE  f[n] = IF n = 0 THEN Parents({i})
                      ELSE LET lower == f[n - 1] IN lower \union Parents(lower)
    <3>1. CASE n = 0
      BY <1>2, <3>1
    <3>2. CASE n # 0
      <4>1. n - 1 \in Nat /\ n = n - 1 + 1
        BY <3>2
      <4>2. f[n] = g[f[n - 1]]
        BY <1>2, <4>1
      <4> HIDE DEF Parents
      <4> QED
        BY <1>2, <3>2, <4>1, <4>2
    <3> QED
      BY <3>1, <3>2
  <2>2. f = [n \in Nat |-> IF n = 0 THEN Parents({i})
                           ELSE LET lower == f[n - 1] IN lower \union Parents(lower)]
    <3> HIDE DEF Parents
    <3> QED
      BY <1>2, <2>1
  <2> QED
    BY <2>2
<1>4. Is(a)
  BY <1>3
<1>5. Above(t, kind, i) = a[N]
  BY Zenon DEF Above
<1> HIDE DEF a, Parents
<1>6. a[0] = Parents({i})
  BY <1>4
<1>7. ASSUME NEW n \in Nat PROVE a[n + 1] = a[n] \union Parents(a[n])
  <2>1. n + 1 \in Nat /\ n + 1 # 0 /\ n + 1 - 1 = n
    OBVIOUS
  <2>2. \A m \in Nat : m # 0 => a[m] = a[m - 1] \union Parents(a[m - 1])
    <3> DEFINE b == [m \in Nat |-> IF m = 0 THEN Parents({i}) ELSE a[m - 1] \union Parents(a[m - 1])]
    <3>1. a = b
      BY <1>4
    <3> HIDE DEF Is
    <3>2. \A m \in Nat : m # 0 => b[m] = a[m - 1] \union Parents(a[m - 1])
      OBVIOUS
    <3> QED
      BY <3>1, <3>2
  <2> QED
    BY <2>1, <2>2
<1>8. a \in [Nat -> SUBSET Ids]
  <2> DEFINE In == {n \in Nat : a[n] \in SUBSET Ids}
  <2>1. 0 \in In
    BY <1>1, <1>6
  <2>2. ASSUME NEW n \in Nat, n \in In PROVE n + 1 \in In
    BY <1>1, <1>7, <2>2
  <2> HIDE DEF In
  <2>3. \A n \in Nat : n \in In
    BY <2>1, <2>2, Induction
  <2>4. \A n \in Nat : a[n] \in SUBSET Ids
    BY <2>3 DEF In
  <2> QED
    BY <1>4, <2>4
<1> HIDE DEF Is, N
<1>9. a[N + 1] = a[N]
  <2>1. \A n \in Nat : a[n] \subseteq a[n + 1]
    BY <1>7
  <2>2. ASSUME NEW n \in Nat, a[n] = a[n + 1] PROVE a[n + 1] = a[n + 1 + 1]
    <3>1. n + 1 \in Nat
      OBVIOUS
    <3>2. a[n + 1] = a[n] \union Parents(a[n]) /\ a[n + 1 + 1] = a[n + 1] \union Parents(a[n + 1])
      BY <1>7, <3>1
    <3> QED
      BY <2>2, <3>2
  <2> QED
    BY <1>8, <1>n, <2>1, <2>2, Settles DEF N
<1>10. Parents(a[N]) \subseteq a[N]
  BY <1>7, <1>9, <1>n
<1>11. \A n \in Nat : a[0] \subseteq a[n]
  <2> DEFINE In == {n \in Nat : a[0] \subseteq a[n]}
  <2>1. 0 \in In
    OBVIOUS
  <2>2. ASSUME NEW n \in Nat, n \in In PROVE n + 1 \in In
    BY <1>7, <2>2
  <2> HIDE DEF In
  <2>3. \A n \in Nat : n \in In
    BY <2>1, <2>2, Induction
  <2> QED
    BY <2>3 DEF In
<1>12. ASSUME NEW S, t[i][kind] \in S \union {None}, \A x \in S : t[x][kind] \in S \union {None}
       PROVE  a[N] \subseteq S
  <2> DEFINE In == {n \in Nat : a[n] \subseteq S}
  <2>1. 0 \in In
    BY <1>6, <1>12 DEF Parents
  <2>2. ASSUME NEW n \in Nat, n \in In PROVE n + 1 \in In
    BY <1>7, <1>12, <2>2 DEF Parents
  <2> HIDE DEF In
  <2>3. \A n \in Nat : n \in In
    BY <2>1, <2>2, Induction
  <2> QED
    BY <2>3, <1>n DEF In
<1>13. t[i][kind] \in a[N] \union {None}
  <2>1. Parents({i}) \subseteq a[N]
    BY <1>6, <1>11, <1>n
  <2> QED
    BY <2>1 DEF Parents
<1>14. \A x \in a[N] : t[x][kind] \in a[N] \union {None}
  BY <1>10 DEF Parents
<1>15. a[N] \subseteq Ids
  BY <1>8, <1>n
<1> HIDE DEF N
<1> QED
  BY <1>5, <1>12, <1>13, <1>14, <1>15

(* The organisations below some, unless the root is one of them: their      *)
(* children, the children of those, and no others.                          *)
LEMMA BelowIs ==
  ASSUME NEW s \in SUBSET Ids, Root \notin s
  PROVE  LET D == FindChildOrgasForIds(s) IN
         /\ D \subseteq {x \in Ids : IsThere(x)}
         /\ \A x \in Ids : IsThere(x) /\ orgas[x].administriertVon \in s \union D => x \in D
         /\ \A S : (\A x \in Ids : IsThere(x) /\ orgas[x].administriertVon \in s \union S => x \in S)
                   => D \subseteq S
<1> DEFINE N == Cardinality(Ids)
           Children(of) == {x \in Ids : IsThere(x) /\ orgas[x].administriertVon \in of}
           Is(w) == w = [n \in Nat |-> IF n = 0 THEN Children(s)
                                       ELSE LET upper == w[n - 1] IN upper \union Children(upper)]
           a == CHOOSE w : Is(w)
           g == [z \in SUBSET Ids |-> z \union Children(z)]
<1>n. N \in Nat /\ IsFiniteSet(Ids)
  BY FS_CardinalityType, TreeAssumption
<1>1. \A z : Children(z) \subseteq Ids
  OBVIOUS
<1>2. PICK f \in [Nat -> SUBSET Ids] : f[0] = Children(s) /\ \A n \in Nat : f[n + 1] = g[f[n]]
  <2> DEFINE X == SUBSET Ids
             b == Children(s)
  <2>1. b \in X /\ g \in [X -> X]
    BY <1>1
  <2> HIDE DEF g, X, b
  <2>2. \E f \in [Nat -> X] : f[0] = b /\ \A n \in Nat : f[n + 1] = g[f[n]]
    BY <2>1, Recursion
  <2> QED
    BY <2>2 DEF X, b
<1>3. \E w : Is(w)
  <2>1. ASSUME NEW n \in Nat
        PROVE  f[n] = IF n = 0 THEN Children(s)
                      ELSE LET upper == f[n - 1] IN upper \union Children(upper)
    <3>1. CASE n = 0
      BY <1>2, <3>1
    <3>2. CASE n # 0
      <4>1. n - 1 \in Nat /\ n = n - 1 + 1
        BY <3>2
      <4>2. f[n] = g[f[n - 1]]
        BY <1>2, <4>1
      <4> HIDE DEF Children
      <4> QED
        BY <1>2, <3>2, <4>1, <4>2
    <3> QED
      BY <3>1, <3>2
  <2>2. f = [n \in Nat |-> IF n = 0 THEN Children(s)
                           ELSE LET upper == f[n - 1] IN upper \union Children(upper)]
    <3> HIDE DEF Children
    <3> QED
      BY <1>2, <2>1
  <2> QED
    BY <2>2
<1>4. Is(a)
  BY <1>3
<1>5. FindChildOrgasForIds(s) = IF s = {} THEN {} ELSE a[N]
  <2>1. FindChildOrgasForIds(s) = CASE s = {} -> {}
                                    [] Root \in s -> {x \in Ids \ {Root} : IsThere(x)}
                                    [] OTHER -> a[N]
    BY Zenon DEF FindChildOrgasForIds
  <2> HIDE DEF a
  <2> QED
    BY <2>1
<1> HIDE DEF a, Children
<1>6. a[0] = Children(s)
  BY <1>4
<1>7. ASSUME NEW n \in Nat PROVE a[n + 1] = a[n] \union Children(a[n])
  <2>1. n + 1 \in Nat /\ n + 1 # 0 /\ n + 1 - 1 = n
    OBVIOUS
  <2>2. \A m \in Nat : m # 0 => a[m] = a[m - 1] \union Children(a[m - 1])
    <3> DEFINE b == [m \in Nat |-> IF m = 0 THEN Children(s) ELSE a[m - 1] \union Children(a[m - 1])]
    <3>1. a = b
      BY <1>4
    <3> HIDE DEF Is
    <3>2. \A m \in Nat : m # 0 => b[m] = a[m - 1] \union Children(a[m - 1])
      OBVIOUS
    <3> QED
      BY <3>1, <3>2
  <2> QED
    BY <2>1, <2>2
<1>8. a \in [Nat -> SUBSET Ids]
  <2> DEFINE In == {n \in Nat : a[n] \in SUBSET Ids}
  <2>1. 0 \in In
    BY <1>1, <1>6
  <2>2. ASSUME NEW n \in Nat, n \in In PROVE n + 1 \in In
    BY <1>1, <1>7, <2>2
  <2> HIDE DEF In
  <2>3. \A n \in Nat : n \in In
    BY <2>1, <2>2, Induction
  <2>4. \A n \in Nat : a[n] \in SUBSET Ids
    BY <2>3 DEF In
  <2> QED
    BY <1>4, <2>4
<1> HIDE DEF Is, N
<1>9. a[N + 1] = a[N]
  <2>1. \A n \in Nat : a[n] \subseteq a[n + 1]
    BY <1>7
  <2>2. ASSUME NEW n \in Nat, a[n] = a[n + 1] PROVE a[n + 1] = a[n + 1 + 1]
    <3>1. n + 1 \in Nat
      OBVIOUS
    <3>2. a[n + 1] = a[n] \union Children(a[n]) /\ a[n + 1 + 1] = a[n + 1] \union Children(a[n + 1])
      BY <1>7, <3>1
    <3> QED
      BY <2>2, <3>2
  <2> QED
    BY <1>8, <1>n, <2>1, <2>2, Settles DEF N
<1>10. Children(a[N]) \subseteq a[N]
  BY <1>7, <1>9, <1>n
<1>11. \A n \in Nat : a[0] \subseteq a[n] /\ \A x \in a[n] : x \in Ids /\ IsThere(x)
  <2> DEFINE In == {n \in Nat : a[0] \subseteq a[n] /\ \A x \in a[n] : x \in Ids /\ IsThere(x)}
  <2>1. 0 \in In
    BY <1>6 DEF Children
  <2>2. ASSUME NEW n \in Nat, n \in In PROVE n + 1 \in In
    BY <1>7, <2>2 DEF Children
  <2> HIDE DEF In
  <2>3. \A n \in Nat : n \in In
    BY <2>1, <2>2, Induction
  <2> QED
    BY <2>3 DEF In
<1>12. ASSUME NEW S, \A x \in Ids : IsThere(x) /\ orgas[x].administriertVon \in s \union S => x \in S
       PROVE  a[N] \subseteq S
  <2> DEFINE In == {n \in Nat : a[n] \subseteq S}
  <2>1. 0 \in In
    BY <1>6, <1>12 DEF Children
  <2>2. ASSUME NEW n \in Nat, n \in In PROVE n + 1 \in In
    BY <1>7, <1>12, <2>2 DEF Children
  <2> HIDE DEF In
  <2>3. \A n \in Nat : n \in In
    BY <2>1, <2>2, Induction
  <2> QED
    BY <2>3, <1>n DEF In
<1>13. \A x \in Ids : IsThere(x) /\ orgas[x].administriertVon \in s \union a[N] => x \in a[N]
  BY <1>6, <1>10, <1>11, <1>n DEF Children
<1>14. a[N] \subseteq {x \in Ids : IsThere(x)}
  BY <1>11, <1>n
<1>15. CASE s = {}
  BY <1>5, <1>15
<1>16. CASE s # {}
  <2> HIDE DEF N
  <2> DEFINE D == a[N]
  <2>1. FindChildOrgasForIds(s) = D
    BY <1>5, <1>16
  <2> QED
    BY <1>12, <1>13, <1>14, <2>1
<1> QED
  BY <1>15, <1>16

-----------------------------------------------------------------------------
(* Up and down the tree                                                    *)

(* Above an organisation are its parent and those above that.               *)
LEMMA AboveParent ==
  ASSUME TreeTypeOK, NEW i \in Ids
  PROVE  LET parent == orgas[i].administriertVon IN
         /\ parent = None => Above(orgas, "administriertVon", i) = {}
         /\ parent # None => /\ parent \in Ids
                             /\ Above(orgas, "administriertVon", i) = {parent} \union Above(orgas, "administriertVon", parent)
<1> DEFINE kind == "administriertVon"
           A(x) == Above(orgas, kind, x)
<1>1. \A x \in Ids : orgas[x][kind] \in Ids \union {None}
  BY TreeAssumption DEF TreeTypeOK, Rows, NoRows
<1>2. \A x \in Ids :
        /\ A(x) \subseteq Ids
        /\ orgas[x][kind] \in A(x) \union {None}
        /\ \A y \in A(x) : orgas[y][kind] \in A(x) \union {None}
        /\ \A S : orgas[x][kind] \in S \union {None} /\ (\A y \in S : orgas[y][kind] \in S \union {None}) => A(x) \subseteq S
  BY <1>1, AboveIs
<1> HIDE DEF A
<1> DEFINE parent == orgas[i][kind]
<1>3. CASE parent = None
  <2>1. A(i) \subseteq {}
    <3> DEFINE S == {}
    <3>1. orgas[i][kind] \in S \union {None} /\ \A y \in S : orgas[y][kind] \in S \union {None}
      BY <1>3
    <3> HIDE DEF S
    <3>2. A(i) \subseteq S
      BY <1>2, <3>1
    <3> QED
      BY <3>2 DEF S
  <2> QED
    BY <1>3, <2>1 DEF A
<1>4. CASE parent # None
  <2>1. parent \in Ids
    BY <1>1, <1>4
  <2>2. parent \in A(i)
    BY <1>2, <1>4
  <2>3. orgas[parent][kind] \in A(i) \union {None}
    BY <1>2, <2>2
  <2>4. A(parent) \subseteq A(i)
    BY <1>2, <2>1, <2>3
  <2>5. A(i) \subseteq {parent} \union A(parent)
    <3> DEFINE S == {parent} \union A(parent)
    <3>1. \A y \in S : orgas[y][kind] \in S \union {None}
      BY <1>2, <2>1
    <3> HIDE DEF S
    <3>2. orgas[i][kind] \in S \union {None}
      BY DEF S
    <3>3. A(i) \subseteq S
      BY <1>2, <3>1, <3>2
    <3> QED
      BY <3>3 DEF S
  <2> QED
    BY <1>4, <2>1, <2>2, <2>4, <2>5 DEF A
<1> QED
  BY <1>3, <1>4

(* On the way to the root everything is there, as is the root.              *)
LEMMA ConnectedParent ==
  ASSUME TreeTypeOK, orgas[Root].administriertVon = None, NEW i \in Ids, Connected(i)
  PROVE  LET parent == orgas[i].administriertVon IN
         /\ i = Root => parent = None
         /\ i # Root => /\ parent \in Ids /\ Connected(parent)
                        /\ Way(i) = {i} \union Way(parent)
<1> DEFINE parent == orgas[i].administriertVon
           A(x) == Above(orgas, "administriertVon", x)
<1>1. CASE i = Root
  BY <1>1
<1>2. CASE i # Root
  <2>1. IsThere(i) /\ IsThere(Root) /\ Root \in A(i)
    BY <1>2 DEF Connected, Way
  <2>2. parent # None /\ parent \in Ids /\ A(i) = {parent} \union A(parent)
    BY <2>1, AboveParent
  <2>3. Root \in {parent} \union A(parent)
    BY <2>1, <2>2
  <2>4. IsThere(parent)
    <3>1. SUFFICES ASSUME orgas[parent].typ = "none" PROVE parent = Root
      BY <2>1, <2>2, TreeAssumption DEF IsThere
    <3>2. orgas[parent].administriertVon = None
      BY <2>2, <3>1 DEF TreeTypeOK, Rows, NoRows, Typen
    <3>3. A(parent) = {}
      BY <2>2, <3>2, AboveParent
    <3> QED
      BY <2>3, <3>3
  <2>5. Connected(parent)
    BY <2>1, <2>3, <2>4 DEF Connected, Way
  <2>6. Way(i) = {i} \union Way(parent)
    BY <2>1, <2>2 DEF Way
  <2> QED
    BY <1>2, <2>2, <2>5, <2>6
<1> QED
  BY <1>1, <1>2

(* What walks up to one of some organisations is found when they are walked *)
(* down from, and the other way round.                                      *)
LEMMA UpIsDown ==
  ASSUME TreeTypeOK, orgas[Root].administriertVon = None, \A i \in Ids : Ends(orgas, "administriertVon", i),
         NEW s \in SUBSET Ids, NEW o \in Ids, Connected(o)
  PROVE  o \in s \union FindChildOrgasForIds(s) <=> s \intersect Way(o) # {}
<1> DEFINE D == FindChildOrgasForIds(s)
<1>1. IsThere(o) /\ o \in Way(o) /\ Root \in Way(o) /\ Root \in Ids
  BY TreeAssumption DEF Connected, Way
<1>2. CASE Root \in s
  <2>1. D = {x \in Ids \ {Root} : IsThere(x)}
    BY <1>2 DEF FindChildOrgasForIds
  <2> HIDE DEF D
  <2>2. o \in s \union D
    BY <1>1, <1>2, <2>1
  <2>3. s \intersect Way(o) # {}
    BY <1>1, <1>2
  <2> QED
    BY <2>2, <2>3 DEF D
<1>3. CASE Root \notin s
  <2>1. /\ \A x \in Ids : IsThere(x) /\ orgas[x].administriertVon \in s \union D => x \in D
        /\ \A S : (\A x \in Ids : IsThere(x) /\ orgas[x].administriertVon \in s \union S => x \in S) => D \subseteq S
    BY <1>3, BelowIs
  <2> HIDE DEF D
  <2>2. ASSUME s \intersect Way(o) # {} PROVE o \in s \union D
    <3> DEFINE T == {x \in Ids : Connected(x) /\ s \intersect Way(x) # {} /\ x \notin s \union D}
    <3>1. ASSUME NEW x \in T PROVE orgas[x].administriertVon \in T
      <4>1. x \in Ids /\ Connected(x) /\ s \intersect Way(x) # {} /\ x \notin s \union D
        OBVIOUS
      <4> HIDE DEF T
      <4>2. x # Root
        <5>1. SUFFICES ASSUME x = Root PROVE FALSE
          OBVIOUS
        <5>2. Above(orgas, "administriertVon", Root) = {}
          BY <4>1, <5>1, AboveParent
        <5>3. Way(x) \subseteq {Root}
          BY <5>1, <5>2 DEF Way
        <5> QED
          BY <1>3, <4>1, <5>3
      <4>3. PICK p \in Ids : p = orgas[x].administriertVon /\ Connected(p) /\ Way(x) = {x} \union Way(p)
        BY <4>1, <4>2, ConnectedParent
      <4>4. s \intersect Way(p) # {}
        BY <4>1, <4>3
      <4>5. p \notin s \union D
        BY <2>1, <4>1, <4>3 DEF Connected
      <4>6. p \in T
        BY <4>3, <4>4, <4>5 DEF T
      <4> QED
        BY <4>3, <4>6
    <3>2. \A x \in Ids : orgas[x]["administriertVon"] \in Ids \union {None}
      BY TreeAssumption DEF TreeTypeOK, Rows, NoRows
    <3>3. T \in SUBSET Ids
      OBVIOUS
    <3>4. o \notin s \union D => o \in T
      BY <2>2
    <3> HIDE DEF T
    <3>5. Trap(orgas, "administriertVon", T)
      BY <3>1, <3>3 DEF Trap
    <3>6. o \notin T
      BY <3>2, <3>3, <3>5, EndsUnlessTrapped
    <3> QED
      BY <3>4, <3>6
  <2>3. ASSUME o \in s \union D PROVE s \intersect Way(o) # {}
    <3> DEFINE S == {x \in Ids : ~Connected(x) \/ s \intersect Way(x) # {}}
    <3>1. ASSUME NEW x \in Ids, IsThere(x), orgas[x].administriertVon \in s \union S PROVE x \in S
      <4>1. SUFFICES ASSUME Connected(x) PROVE s \intersect Way(x) # {}
        OBVIOUS
      <4>2. x # Root
        BY <3>1, TreeAssumption
      <4>3. PICK p \in Ids : p = orgas[x].administriertVon /\ Connected(p) /\ Way(x) = {x} \union Way(p)
        BY <4>1, <4>2, ConnectedParent
      <4>4. p \in Way(p)
        BY <4>3 DEF Connected, Way
      <4>5. p \in s \union S
        BY <3>1, <4>3
      <4> QED
        BY <4>3, <4>4, <4>5
    <3> HIDE DEF S
    <3>2. D \subseteq S
      BY <2>1, <3>1
    <3>3. CASE o \in s
      BY <1>1, <3>3
    <3>4. CASE o \in S
      BY <3>4 DEF S
    <3> QED
      BY <2>3, <3>2, <3>3, <3>4
  <2> QED
    BY <2>2, <2>3 DEF D
<1> QED
  BY <1>2, <1>3

-----------------------------------------------------------------------------
(* Rights                                                                  *)

(* A right at the root is one everywhere.                                   *)
LEMMA RightAtRoot ==
  ASSUME TreeTypeOK, orgas[Root].administriertVon = None, NEW p, NEW recht, NEW o, Connected(o),
         HasSystemrechtAtOrganisation(p, Root, recht)
  PROVE  HasSystemrechtAtOrganisation(p, o, recht)
<1>1. PICK k \in KontexteOf(p) : recht \in rollen[k.rolle].systemrechte /\ k.orga \in Way(Root)
  BY DEF HasSystemrechtAtOrganisation
<1>2. Above(orgas, "administriertVon", Root) = {}
  BY AboveParent, TreeAssumption
<1>3. k.orga = Root
  BY <1>1, <1>2 DEF Way
<1>4. k.orga \in Way(o)
  BY <1>3 DEF Connected
<1> QED
  BY <1>1, <1>4 DEF HasSystemrechtAtOrganisation

(* The list of organisations for a set of rights says what the check of one *)
(* organisation says.                                                       *)
LEMMA ListsAreChecks ==
  ASSUME TreeTypeOK, RollenTypeOK, orgas[Root].administriertVon = None,
         \A i \in Ids : Ends(orgas, "administriertVon", i),
         NEW p, NEW rechte, rechte # {}, NEW o \in Ids, Connected(o), NEW matchAll \in BOOLEAN
  PROVE  LET list == GetOrgIdsWithSystemrecht(p, rechte, matchAll).orgaIds IN
         /\ o \in list => HasSystemrechteAtOrganisation(p, o, rechte, matchAll)
         /\ HasSystemrechteAtOrganisation(p, o, rechte, matchAll) /\ (~matchAll \/ \E r : rechte = {r}) => o \in list
<1> DEFINE Fits(r) == IF matchAll THEN rechte \subseteq rollen[r].systemrechte
                                  ELSE rechte \intersect rollen[r].systemrechte # {}
           own == {k.orga : k \in {x \in KontexteOf(p) : Fits(x.rolle)}}
           list == GetOrgIdsWithSystemrecht(p, rechte, matchAll).orgaIds
           Has(x) == HasSystemrechteAtOrganisation(p, x, rechte, matchAll)
<1>1. own \subseteq Ids
  BY DEF RollenTypeOK, KontextRows, KontexteOf
<1>2. CASE Has(Root)
  <2>1. list = Ids
    BY <1>2 DEF GetOrgIdsWithSystemrecht
  <2>2. Has(o)
    BY <1>2, RightAtRoot DEF HasSystemrechteAtOrganisation
  <2> QED
    BY <2>1, <2>2
<1>3. CASE ~Has(Root)
  <2>1. list = own \union FindChildOrgasForIds(own)
    BY <1>3 DEF GetOrgIdsWithSystemrecht
  <2> HIDE DEF list
  <2>2. o \in list <=> own \intersect Way(o) # {}
    BY <1>1, <2>1, UpIsDown
  <2>3. own \intersect Way(o) # {} <=> \E k \in KontexteOf(p) : Fits(k.rolle) /\ k.orga \in Way(o)
    OBVIOUS
  <2>4. ASSUME NEW k \in KontexteOf(p), Fits(k.rolle), k.orga \in Way(o) PROVE Has(o)
    BY <2>4 DEF HasSystemrechteAtOrganisation, HasSystemrechtAtOrganisation
  <2>5. ASSUME Has(o), ~matchAll \/ \E r : rechte = {r}
        PROVE  \E k \in KontexteOf(p) : Fits(k.rolle) /\ k.orga \in Way(o)
    <3>1. PICK recht \in rechte : HasSystemrechtAtOrganisation(p, o, recht)
      BY <2>5 DEF HasSystemrechteAtOrganisation
    <3>2. PICK k \in KontexteOf(p) : recht \in rollen[k.rolle].systemrechte /\ k.orga \in Way(o)
      BY <3>1 DEF HasSystemrechtAtOrganisation
    <3>3. Fits(k.rolle)
      BY <2>5, <3>2
    <3> QED
      BY <3>2, <3>3
  <2> HIDE DEF own, Fits, Has
  <2>6. o \in list => Has(o)
    BY <2>2, <2>3, <2>4
  <2>7. Has(o) /\ (~matchAll \/ \E r : rechte = {r}) => o \in list
    BY <2>2, <2>3, <2>5
  <2> QED
    BY <2>6, <2>7 DEF list, Has
<1> QED
  BY <1>2, <1>3

(* What is offered to create a Kontext is what is accepted in the end.      *)
LEMMA OffersAreAccepted ==
  ASSUME TreeTypeOK, RollenTypeOK, orgas[Root].administriertVon = None,
         \A i \in Ids : Ends(orgas, "administriertVon", i),
         NEW p, NEW r \in RolleIds, NEW o \in Ids, Connected(o), Typ(o) # "KLASSE"
  PROVE  CanCommit(p, o, r) <=>
           o \in FindAllSchulstrukturknoten(p) \intersect FindSchulstrukturknoten(r) /\ r \in FindRollenForOrganisation(p, o)
<1> DEFINE ssk == rollen[r].ssk
<1>1. ASSUME r \in FindRollenForOrganisation(p, o) PROVE CanCommit(p, o, r)
  BY <1>1 DEF FindRollenForOrganisation, CanCommit, HasSystemrechteAtOrganisation
<1>2. ASSUME CanCommit(p, o, r)
      PROVE  o \in FindAllSchulstrukturknoten(p) \intersect FindSchulstrukturknoten(r) /\ r \in FindRollenForOrganisation(p, o)
  <2>1. /\ HasSystemrechteAtOrganisation(p, o, {PERSONEN_VERWALTEN}, TRUE)
        /\ HasSystemrechtAtOrganisation(p, o, PERSONEN_VERWALTEN)
        /\ CheckReferences(o, r)
    BY <1>2 DEF CanCommit, HasSystemrechteAtOrganisation
  <2>2. r \in FindRollenForOrganisation(p, o)
    BY <2>1 DEF FindRollenForOrganisation
  <2>3. o \in PermittedOrgas(p).orgaIds
    BY <2>1, ListsAreChecks DEF PermittedOrgas
  <2>4. o \in FindAllSchulstrukturknoten(p)
    BY <2>1, <2>3 DEF FindAllSchulstrukturknoten, CheckReferences
  <2>5. ssk \in Way(o) /\ OrganisationMatchesRollenart(o, r)
    BY <2>1 DEF CheckReferences
  <2>6. ssk \in Ids /\ IsThere(ssk)
    BY <2>5 DEF Way, IsThere, RollenTypeOK, RolleRows
  <2>7. {ssk} \intersect Way(o) # {}
    BY <2>5
  <2>8. o \in {ssk} \union FindChildOrgasForIds({ssk})
    BY <2>6, <2>7, UpIsDown
  <2>9. o \in FindSchulstrukturknoten(r)
    BY <2>5, <2>6, <2>8 DEF FindSchulstrukturknoten
  <2> QED
    BY <2>2, <2>4, <2>9
<1> QED
  BY <1>1, <1>2

(* Whoever is in the list of persons may be changed, and the other way      *)
(* round.                                                                   *)
LEMMA ScopeIsCheck ==
  ASSUME TreeTypeOK, RollenTypeOK, orgas[Root].administriertVon = None,
         \A i \in Ids : Ends(orgas, "administriertVon", i),
         NEW a, NEW b, \A k \in KontexteOf(b) : k.orga \in Ids /\ Connected(k.orga)
  PROVE  InPersonScope(a, b) <=> CanModifyPerson(a, b)
<1> DEFINE Has(o) == HasSystemrechtAtOrganisation(a, o, PERSONEN_VERWALTEN)
<1>1. \A o : HasSystemrechteAtOrganisation(a, o, {PERSONEN_VERWALTEN}, TRUE) <=> Has(o)
  BY DEF HasSystemrechteAtOrganisation
<1>2. PermittedOrgas(a).all <=> Has(Root)
  BY <1>1 DEF PermittedOrgas, GetOrgIdsWithSystemrecht
<1>3. \A k \in KontexteOf(b) : k.orga \in PermittedOrgas(a).orgaIds <=> Has(k.orga)
  <2>1. SUFFICES ASSUME NEW k \in KontexteOf(b)
                 PROVE  k.orga \in PermittedOrgas(a).orgaIds
                          <=> HasSystemrechteAtOrganisation(a, k.orga, {PERSONEN_VERWALTEN}, TRUE)
    BY <1>1
  <2>2. k.orga \in Ids /\ Connected(k.orga)
    OBVIOUS
  <2>3. PICK o \in Ids : o = k.orga /\ Connected(o)
    BY <2>2
  <2> QED
    BY <2>3, ListsAreChecks DEF PermittedOrgas
<1> QED
  BY <1>2, <1>3 DEF InPersonScope, CanModifyPerson, HasSystemrechtAtAnyKontextOf

(* Of what is typed, that is enough.                                        *)
LEMMA RightsAgree ==
  ASSUME TreeTypeOK, RollenTypeOK
  PROVE  RechteAgree
<1> SUFFICES ASSUME orgas[Root].administriertVon = None, \A i \in Ids : Ends(orgas, "administriertVon", i)
             PROVE  LET orte == {o \in Ids : Connected(o)} IN
                    /\ \A p \in Personen :
                         /\ \A rechte \in (SUBSET Systemrechte) \ {{}} : ListIsCheck(p, rechte, orte)
                         /\ \A r \in RolleIds : OfferIsAccepted(p, r, {o \in orte : Typ(o) # "KLASSE"})
                    /\ \A a, b \in Personen :
                         {k.orga : k \in KontexteOf(b)} \subseteq orte => (InPersonScope(a, b) <=> CanModifyPerson(a, b))
  BY DEF RechteAgree
<1> DEFINE orte == {o \in Ids : Connected(o)}
<1>1. ASSUME NEW p \in Personen, NEW rechte \in (SUBSET Systemrechte) \ {{}} PROVE ListIsCheck(p, rechte, orte)
  <2>1. ASSUME NEW o \in orte
        PROVE  /\ o \in GetOrgIdsWithSystemrecht(p, rechte, FALSE).orgaIds <=> HasSystemrechteAtOrganisation(p, o, rechte, FALSE)
               /\ o \in GetOrgIdsWithSystemrecht(p, rechte, TRUE).orgaIds => HasSystemrechteAtOrganisation(p, o, rechte, TRUE)
    <3>1. o \in Ids /\ Connected(o) /\ rechte # {}
      OBVIOUS
    <3>2. ASSUME NEW matchAll \in BOOLEAN
          PROVE  /\ o \in GetOrgIdsWithSystemrecht(p, rechte, matchAll).orgaIds => HasSystemrechteAtOrganisation(p, o, rechte, matchAll)
                 /\ HasSystemrechteAtOrganisation(p, o, rechte, matchAll) /\ ~matchAll
                      => o \in GetOrgIdsWithSystemrecht(p, rechte, matchAll).orgaIds
      <4> HIDE DEF orte
      <4> QED
        BY <3>1, ListsAreChecks
    <3> QED
      BY <3>2
  <2> QED
    BY <2>1 DEF ListIsCheck
<1>2. ASSUME NEW p \in Personen, NEW r \in RolleIds PROVE OfferIsAccepted(p, r, {o \in orte : Typ(o) # "KLASSE"})
  BY OffersAreAccepted DEF OfferIsAccepted
<1>3. ASSUME NEW a \in Personen, NEW b \in Personen, {k.orga : k \in KontexteOf(b)} \subseteq orte
      PROVE  InPersonScope(a, b) <=> CanModifyPerson(a, b)
  <2>1. \A k \in KontexteOf(b) : k.orga \in Ids /\ Connected(k.orga)
    BY <1>3
  <2> QED
    BY <2>1, ScopeIsCheck
<1> QED
  BY <1>1, <1>2, <1>3

-----------------------------------------------------------------------------
USE RequestsAssumption, TreeAssumption, RollenAssumption

(* The groups of variables, for the frame of an action.                    *)
USE DEF vars, requestVars, treeVars, serviceVars, rollenVars

-----------------------------------------------------------------------------
(* Type correctness                                                        *)

OrgaOps == {"put", "move", "rename", "enable"}
VidisRequests ==
  [op : {"vidis"}, at : {"clear", "write", "delete"}, response : Responses,
   save : SUBSET UNION Responses,
   map : SUBSET [kennung : UNION {a.schulen : a \in UNION Responses}, service : Services],
   delete : SUBSET Services, touches : {{Resource}}]

(* What a request in progress has read is typed like the tables.            *)
RequestTyped(q) ==
  /\ q.op \in OrgaOps => q.id \in Ids /\ q.row \in Rows /\ q.read \in Nat /\ q.version \in Nat
  /\ q.op = "create" => q.id \in Ids /\ q.row \in Rows
  /\ q.op = "delete" => q.id \in Ids /\ q.row = NoOrga
  /\ q.op \in {"createRolle", "updateRolle"} => q.id \in RolleIds /\ q.row \in RolleRows /\ q.read \in Nat
  /\ q.op = "deleteRolle" => q.id \in RolleIds
  /\ q.op = "assign" => q.row \in KontextRows
  /\ q.op = "vidis" => q \in VidisRequests

TaskTyped(t) ==
  /\ t.op = "group" => t.id \in Ids /\ t.name \in Names \union {None} /\ t.parentId \in Ids \union {None}
  /\ t.op \in {"deleted", "enabled", "store"} => t.id \in Ids
  /\ t.op = "store" => \A k \in Ids \intersect DOMAIN t.names : t.names[k] \in Names \union {None}

RequestsTyped ==
  /\ DOMAIN req = Clients
  /\ \A c \in Clients : RequestTyped(req[c])
  /\ \A t \in tasks : TaskTyped(t)
  /\ overwritten \in BOOLEAN
  /\ requests \in 0..MaxRequests /\ faults \in 0..MaxFaults

Typed == RequestsTyped /\ TreeTypeOK /\ ServicesTypeOK /\ RollenTypeOK

(* The program starts with nothing in progress.                             *)
LEMMA InitTyped == Init => Typed
<1> SUFFICES ASSUME Init PROVE Typed
  OBVIOUS
<1>1. PICK start \in Starts :
        /\ orgas = start.orgas /\ groups = start.groups
        /\ services = start.services /\ mappings = start.mappings
        /\ rollen = start.rollen /\ kontexte = start.kontexte
  BY DEF Init
<1>2. overwritten \in BOOLEAN /\ putUsed \in BOOLEAN
  BY DEF Init, NothingBegun
<1>3. requests \in 0..MaxRequests /\ faults \in 0..MaxFaults
  BY DEF Init, NothingBegun
<1>4. TreeTypeOK
  BY <1>1, <1>2, StartsAssumption DEF TreeTypeOK
<1>5. ServicesTypeOK /\ RollenTypeOK
  BY <1>1, StartsAssumption DEF ServicesTypeOK, RollenTypeOK
<1>6. DOMAIN req = Clients /\ tasks = {} /\ \A c \in Clients : req[c] = Idle
  BY DEF Init, NothingBegun
<1>7. RequestTyped(Idle)
  BY DEF RequestTyped, Idle, OrgaOps
<1> QED
  BY <1>2, <1>3, <1>4, <1>5, <1>6, <1>7 DEF Typed, RequestsTyped

(* A typed request that begins or goes on leaves all typed.                 *)
LEMMA BeginTyped ==
  ASSUME RequestsTyped, NEW c \in Clients, NEW r, RequestTyped(r), Begin(c, r) \/ Goto(c, r)
  PROVE  RequestsTyped'
<1>1. overwritten' \in BOOLEAN
  BY DEF RequestsTyped, Begin, Goto
<1>2. requests' \in 0..MaxRequests /\ faults' \in 0..MaxFaults
  BY DEF RequestsTyped, Begin, CanBegin, Goto
<1> QED
  BY <1>1, <1>2 DEF RequestsTyped, Begin, Goto

(* So does one that ends and starts typed handlers.                         *)
LEMMA EndTyped ==
  ASSUME RequestsTyped, NEW c \in Clients, NEW seen, NEW started, NEW untold,
         \A t \in started : TaskTyped(t), End(c, seen, started, untold)
  PROVE  RequestsTyped'
<1>1. overwritten' \in BOOLEAN
  BY DEF RequestsTyped, End
<1>2. requests' \in 0..MaxRequests /\ faults' \in 0..MaxFaults
  BY DEF RequestsTyped, End
<1>3. RequestTyped(Idle)
  BY DEF RequestTyped, Idle, OrgaOps
<1> QED
  BY <1>1, <1>2, <1>3 DEF RequestsTyped, End

(* A refused request leaves well typed requests. *)
LEMMA GiveUpTyped ==
  ASSUME RequestsTyped, NEW c \in Clients, GiveUp(c)
  PROVE  RequestsTyped'
<1>1. overwritten' \in BOOLEAN
  BY DEF RequestsTyped, GiveUp, End
<1>2. tasks' = tasks /\ requests' = requests /\ faults' = faults /\ req' = [req EXCEPT ![c] = Idle]
  BY DEF GiveUp, End
<1>3. RequestTyped(Idle)
  BY DEF RequestTyped, Idle, OrgaOps
<1> QED
  BY <1>1, <1>2, <1>3 DEF RequestsTyped

(* So does the end of a background task, in success or failure. *)
LEMMA EndTaskTyped ==
  ASSUME RequestsTyped, NEW t \in tasks, EndTask(t) \/ TaskFails(t)
  PROVE  RequestsTyped'
<1>1. overwritten' \in BOOLEAN
  BY DEF RequestsTyped, EndTask, TaskFails
<1>2. requests' \in 0..MaxRequests /\ faults' \in 0..MaxFaults
  BY DEF RequestsTyped, EndTask, TaskFails
<1> QED
  BY <1>1, <1>2 DEF RequestsTyped, EndTask, TaskFails

(* What a write of a typed row holds.                                       *)
LEMMA WriteTyped ==
  ASSUME TreeTypeOK, NEW op \in OrgaOps, NEW i \in Ids, NEW o \in Rows, NEW v \in Nat, NEW touches
  PROVE  RequestTyped(Write(op, i, o, v, touches))
BY DEF RequestTyped, Write, TreeTypeOK, OrgaOps, Rows, NoRows

(* Requests about organisations keep the types, ...                         *)
LEMMA TreeTyped ==
  ASSUME Typed, TreeNext(Assigned, Mapped)
  PROVE  RequestsTyped' /\ TreeTypeOK'
<1> USE DEF Typed
<1>t. ASSUME UNCHANGED treeVars PROVE TreeTypeOK'
  BY <1>t DEF TreeTypeOK
<1>1. ASSUME NEW c \in Clients, CreateOrganisation(c) PROVE RequestsTyped' /\ TreeTypeOK'
  <2>1. PICK i, b, touches :
          /\ i \in NewIds /\ b \in NewOrgas
          /\ Begin(c, Write("create", i, [b EXCEPT !.version = 1], 0, touches)) /\ UNCHANGED treeVars
    BY <1>1 DEF CreateOrganisation
  <2>2. RequestTyped(Write("create", i, [b EXCEPT !.version = 1], 0, touches))
    BY <2>1 DEF RequestTyped, Write, OrgaOps, Rows
  <2> QED
    BY <2>1, <2>2, <1>t, BeginTyped
<1>2. ASSUME NEW c \in Clients, PutOrganisation(c) PROVE RequestsTyped' /\ TreeTypeOK'
  <2>1. PICK i, b, touches :
          /\ i \in Ids /\ b \in Bodies
          /\ IsThere(i)
          /\ Begin(c, Write("put", i, [b EXCEPT !.version = orgas[i].version,
                                                !.itslearningEnabled = orgas[i].itslearningEnabled],
                            orgas[i].version, touches))
          /\ UNCHANGED treeVars
    BY <1>2 DEF PutOrganisation
  <2>2. orgas[i] \in Rows
    BY <2>1 DEF IsThere, TreeTypeOK, NoRows
  <2>3. [b EXCEPT !.version = orgas[i].version, !.itslearningEnabled = orgas[i].itslearningEnabled] \in Rows
    BY <2>1, <2>2 DEF Rows
  <2>4. orgas[i].version \in Nat
    BY <2>2 DEF Rows
  <2>5. RequestTyped(Write("put", i, [b EXCEPT !.version = orgas[i].version,
                                               !.itslearningEnabled = orgas[i].itslearningEnabled],
                           orgas[i].version, touches))
    BY <2>1, <2>3, <2>4, WriteTyped DEF OrgaOps
  <2> QED
    BY <2>1, <2>5, <1>t, BeginTyped
<1>3. ASSUME NEW c \in Clients, NEW kind \in Kinds, SetParent(c, kind) PROVE RequestsTyped' /\ TreeTypeOK'
  <2>1. PICK i, parent, touches :
          /\ i \in Ids /\ parent \in Ids
          /\ IsThere(i)
          /\ Begin(c, Write("move", i, [orgas[i] EXCEPT ![kind] = parent], orgas[i].version, touches))
          /\ UNCHANGED treeVars
    BY <1>3 DEF SetParent
  <2>2. orgas[i] \in Rows
    BY <2>1 DEF IsThere, TreeTypeOK, NoRows
  <2>3. [orgas[i] EXCEPT ![kind] = parent] \in Rows
    BY <2>1, <2>2 DEF Rows, Kinds
  <2>4. orgas[i].version \in Nat
    BY <2>2 DEF Rows
  <2>5. RequestTyped(Write("move", i, [orgas[i] EXCEPT ![kind] = parent], orgas[i].version, touches))
    BY <2>1, <2>3, <2>4, WriteTyped DEF OrgaOps
  <2> QED
    BY <2>1, <2>5, <1>t, BeginTyped
<1>4. ASSUME NEW c \in Clients, UpdateKlassenname(c) PROVE RequestsTyped' /\ TreeTypeOK'
  <2>1. PICK i, name, version, touches :
          /\ i \in Ids /\ name \in Names
          /\ Typ(i) = "KLASSE" /\ version \in 1..orgas[i].version
          /\ Begin(c, Write("rename", i, [orgas[i] EXCEPT !.name = name], version, touches))
          /\ UNCHANGED treeVars
    BY <1>4 DEF UpdateKlassenname
  <2>2. orgas[i] \in Rows
    BY <2>1 DEF Typ, TreeTypeOK, NoRows
  <2>3. [orgas[i] EXCEPT !.name = name] \in Rows
    BY <2>1, <2>2 DEF Rows
  <2>4. version \in Nat
    BY <2>1, <2>2 DEF Rows
  <2>5. RequestTyped(Write("rename", i, [orgas[i] EXCEPT !.name = name], version, touches))
    BY <2>1, <2>3, <2>4, WriteTyped DEF OrgaOps
  <2> QED
    BY <2>1, <2>5, <1>t, BeginTyped
<1>5. ASSUME NEW c \in Clients, SetEnabledForitslearning(c) PROVE RequestsTyped' /\ TreeTypeOK'
  <2>1. PICK i, touches :
          /\ i \in Ids
          /\ Typ(i) = "SCHULE"
          /\ Begin(c, Write("enable", i, [orgas[i] EXCEPT !.itslearningEnabled = TRUE], orgas[i].version, touches))
          /\ UNCHANGED treeVars
    BY <1>5 DEF SetEnabledForitslearning
  <2>2. orgas[i] \in Rows
    BY <2>1 DEF Typ, TreeTypeOK, NoRows
  <2>3. [orgas[i] EXCEPT !.itslearningEnabled = TRUE] \in Rows /\ orgas[i].version \in Nat
    BY <2>2 DEF Rows
  <2>5. RequestTyped(Write("enable", i, [orgas[i] EXCEPT !.itslearningEnabled = TRUE], orgas[i].version, touches))
    BY <2>1, <2>3, WriteTyped DEF OrgaOps
  <2> QED
    BY <2>1, <2>5, <1>t, BeginTyped
<1>6. ASSUME NEW c \in Clients, DeleteKlasse(c, Assigned) PROVE RequestsTyped' /\ TreeTypeOK'
  <2>1. PICK i, touches :
          /\ i \in Ids
          /\ Begin(c, Write("delete", i, NoOrga, orgas[i].version, touches))
          /\ UNCHANGED treeVars
    BY <1>6 DEF DeleteKlasse
  <2>2. RequestTyped(Write("delete", i, NoOrga, orgas[i].version, touches))
    BY <2>1 DEF RequestTyped, Write, OrgaOps
  <2> QED
    BY <2>1, <2>2, <1>t, BeginTyped
<1>7. ASSUME NEW r, RequestTyped(r), r.op \in OrgaOps \union {"create", "delete"}
      PROVE  \A t \in Started(r) : TaskTyped(t)
  <2>1. \A op \in {"group", "enabled", "deleted"} :
           TaskTyped(GroupTask(op, r)) \/ (op = "group" /\ r.op \notin {"create", "rename"})
    BY <1>7 DEF GroupTask, TaskTyped, RequestTyped, OrgaOps, Rows
  <2> QED
    BY <1>7, <2>1 DEF Started, OrgaOps
<1>8. ASSUME NEW c \in Clients, Insert(c) PROVE RequestsTyped' /\ TreeTypeOK'
  <2>1. RequestTyped(req[c]) /\ req[c].op = "create" /\ req[c].id \in Ids /\ req[c].row \in Rows
    BY <1>8 DEF RequestsTyped, Insert, RequestTyped
  <2>2. RequestsTyped'
    BY <2>1, <1>7, <1>8, EndTyped DEF Insert
  <2>3. TreeTypeOK'
    BY <1>8, <2>1 DEF Insert, TreeTypeOK
  <2> QED
    BY <2>2, <2>3
<1>9. ASSUME NEW c \in Clients, Update(c) PROVE RequestsTyped' /\ TreeTypeOK'
  <2>1. /\ RequestTyped(req[c]) /\ req[c].op \in OrgaOps
        /\ req[c].id \in Ids /\ req[c].row \in Rows /\ req[c].read \in Nat
    BY <1>9 DEF RequestsTyped, Update, RequestTyped, OrgaOps
  <2>2. RequestsTyped'
    BY <2>1, <1>7, <1>9, EndTyped DEF Update
  <2>3. [req[c].row EXCEPT !.version = req[c].read + 1] \in Rows
    BY <2>1 DEF Rows
  <2>4. orgas' \in [Ids -> Rows \union NoRows]
    BY <1>9, <2>1, <2>3 DEF Update, NextVersion, TreeTypeOK
  <2>5. putUsed' \in BOOLEAN
    BY <1>9 DEF Update, TreeTypeOK
  <2> QED
    BY <1>9, <2>2, <2>4, <2>5 DEF Update, TreeTypeOK
<1>10. ASSUME NEW c \in Clients, UpdateOutdated(c) PROVE RequestsTyped' /\ TreeTypeOK'
  BY <1>10, <1>t, GiveUpTyped DEF UpdateOutdated
<1>11. ASSUME NEW c \in Clients, Remove(c, Mapped) PROVE RequestsTyped' /\ TreeTypeOK'
  <2>1. RequestTyped(req[c]) /\ req[c].op = "delete" /\ req[c].id \in Ids
    BY <1>11 DEF RequestsTyped, Remove, RequestTyped
  <2> DEFINE told == IF req[c].id \in Mapped THEN {} ELSE Started(req[c])
  <2>2. RequestsTyped'
    <3>1. End(c, TRUE, told, {})
      BY <1>11 DEF Remove
    <3>2. \A t \in told : TaskTyped(t)
      BY <2>1, <1>7
    <3> HIDE DEF told
    <3> QED
      BY <3>1, <3>2, EndTyped
  <2>3. [NoOrga EXCEPT !.version = orgas[req[c].id].version] \in NoRows
    BY <2>1 DEF TreeTypeOK, NoOrga, NoRows, Rows
  <2>4. TreeTypeOK'
    BY <1>11, <2>1, <2>3 DEF Remove, TreeTypeOK
  <2> QED
    BY <2>2, <2>4
<1>12. ASSUME NEW t \in tasks, StoreGroup(t) \/ DeleteGroup(t) PROVE RequestsTyped' /\ TreeTypeOK'
  <2>1. TaskTyped(t)
    BY DEF RequestsTyped
  <2> QED
    BY <1>12, <2>1, EndTaskTyped DEF StoreGroup, DeleteGroup, TaskTyped, TreeTypeOK, NoGroup
<1>13. ASSUME NEW t \in tasks, ReadKlassen(t) PROVE RequestsTyped' /\ TreeTypeOK'
  <2>1. TaskTyped(t) /\ t.id \in Ids
    BY <1>13 DEF RequestsTyped, ReadKlassen, TaskTyped
  <2>2. \A k \in Ids : orgas[k].name \in Names \union {None}
    BY DEF TreeTypeOK, Rows, NoRows
  <2>3. TaskTyped([op |-> "store", id |-> t.id, touches |-> t.touches, parentId |-> t.id,
            names |-> [k \in {x \in Below(t.id) : orgas[x].typ = "KLASSE"} |-> orgas[k].name]])
    BY <2>1, <2>2 DEF TaskTyped
  <2>4. \A u \in tasks' : TaskTyped(u)
    BY <1>13, <2>3 DEF ReadKlassen, RequestsTyped
  <2> QED
    BY <1>13, <1>t, <2>4 DEF ReadKlassen, RequestsTyped
<1>14. ASSUME NEW t \in tasks, StoreGroups(t) PROVE RequestsTyped' /\ TreeTypeOK'
  <2>1. TaskTyped(t)
    BY DEF RequestsTyped
  <2>2. groups' \in [Ids -> [name : Names \union {None}, parentId : Ids \union {None}]]
    BY <1>14, <2>1 DEF StoreGroups, TaskTyped, TreeTypeOK
  <2> QED
    BY <1>14, <2>2, EndTaskTyped DEF StoreGroups, TreeTypeOK
<1>15. ASSUME NEW t \in tasks, GroupCallFails(t) PROVE RequestsTyped' /\ TreeTypeOK'
  BY <1>15, <1>t, EndTaskTyped DEF GroupCallFails
<1> QED
  BY <1>1, <1>2, <1>3, <1>4, <1>5, <1>6, <1>8, <1>9, <1>10, <1>11, <1>12, <1>13, <1>14, <1>15 DEF TreeNext

(* ... those of VIDIS, ...                                                  *)
LEMMA ServicesTyped ==
  ASSUME Typed, ServicesNext(Attached)
  PROVE  RequestsTyped' /\ ServicesTypeOK'
<1> USE DEF Typed
<1>t. ASSUME UNCHANGED serviceVars PROVE ServicesTypeOK'
  BY <1>t DEF ServicesTypeOK
<1>v. ASSUME NEW q \in VidisRequests PROVE RequestTyped(q)
  BY <1>v DEF RequestTyped, VidisRequests, OrgaOps
<1>q. ASSUME NEW c \in Clients, req[c].op = "vidis" PROVE req[c] \in VidisRequests
  BY <1>q DEF RequestsTyped, RequestTyped
<1>a. \A a \in UNION Responses : a.angebot \in Angebote
  BY ServicesAssumption
<1>1. ASSUME NEW c \in Clients, VidisBegins(c) PROVE RequestsTyped' /\ ServicesTypeOK'
  <2>1. PICK response \in Responses :
          /\ Begin(c, [op |-> "vidis", at |-> "clear", response |-> response, save |-> response,
                       map |-> {}, delete |-> {}, touches |-> {Resource}])
          /\ UNCHANGED serviceVars
    BY <1>1 DEF VidisBegins
  <2>2. [op |-> "vidis", at |-> "clear", response |-> response, save |-> response,
         map |-> {}, delete |-> {}, touches |-> {Resource}] \in VidisRequests
    BY DEF VidisRequests
  <2> QED
    BY <2>1, <2>2, <1>t, <1>v, BeginTyped
<1>2. ASSUME NEW c \in Clients, DeleteAllMappings(c) PROVE RequestsTyped' /\ ServicesTypeOK'
  <2>1. [req[c] EXCEPT !.at = "write"] \in VidisRequests
    BY <1>2, <1>q DEF DeleteAllMappings, VidisRequests
  <2> QED
    BY <1>2, <2>1, <1>v, BeginTyped DEF DeleteAllMappings, ServicesTypeOK
<1>3. ASSUME NEW c \in Clients, SaveServiceProvider(c) PROVE RequestsTyped' /\ ServicesTypeOK'
  <2>1. PICK a \in req[c].save, s \in Services :
          /\ services' = [services EXCEPT ![s] = a.angebot]
          /\ Goto(c, [req[c] EXCEPT !.save = @ \ {a},
                                    !.map = @ \union {[kennung |-> k, service |-> s] : k \in a.schulen}])
          /\ mappings' = mappings
    BY <1>3 DEF SaveServiceProvider
  <2>2. req[c] \in VidisRequests /\ a \in UNION Responses
    BY <1>3, <1>q DEF SaveServiceProvider, VidisRequests
  <2>3. {[kennung |-> k, service |-> s] : k \in a.schulen}
          \subseteq [kennung : UNION {x.schulen : x \in UNION Responses}, service : Services]
    BY <2>2
  <2>4. [req[c] EXCEPT !.save = @ \ {a},
                       !.map = @ \union {[kennung |-> k, service |-> s] : k \in a.schulen}] \in VidisRequests
    BY <2>2, <2>3 DEF VidisRequests
  <2>5. a.angebot \in Angebote /\ a.angebot # "none"
    BY <2>2, <1>a, ServicesAssumption
  <2>6. ServicesTypeOK'
    BY <2>1, <2>5 DEF ServicesTypeOK
  <2> QED
    BY <2>1, <2>4, <2>6, <1>v, BeginTyped
<1>4. ASSUME NEW c \in Clients, SaveMapping(c) PROVE RequestsTyped' /\ ServicesTypeOK'
  <2>1. PICK m \in req[c].map :
          /\ \/ UNCHANGED mappings
             \/ /\ services[m.service] # "none"
                /\ \E i \in Ids : mappings' = mappings \union {[orga |-> i, service |-> m.service]}
          /\ Goto(c, [req[c] EXCEPT !.map = @ \ {m}])
          /\ services' = services
    BY <1>4 DEF SaveMapping
  <2>2. req[c] \in VidisRequests /\ m.service \in Services
    BY <1>4, <1>q DEF SaveMapping, VidisRequests
  <2>3. [req[c] EXCEPT !.map = @ \ {m}] \in VidisRequests
    BY <2>2 DEF VidisRequests
  <2>4. ServicesTypeOK'
    BY <2>1, <2>2 DEF ServicesTypeOK
  <2> QED
    BY <2>1, <2>3, <2>4, <1>v, BeginTyped
<1>5. ASSUME NEW c \in Clients, ListObsolete(c) PROVE RequestsTyped' /\ ServicesTypeOK'
  <2>1. PICK obsolete \in SUBSET Services : Goto(c, [req[c] EXCEPT !.at = "delete", !.delete = obsolete])
    BY <1>5 DEF ListObsolete
  <2>2. [req[c] EXCEPT !.at = "delete", !.delete = obsolete] \in VidisRequests
    BY <1>5, <1>q DEF ListObsolete, VidisRequests
  <2> QED
    BY <1>5, <2>1, <2>2, <1>t, <1>v, BeginTyped DEF ListObsolete
<1>6. ASSUME NEW c \in Clients, DeleteServiceProvider(c, Attached) PROVE RequestsTyped' /\ ServicesTypeOK'
  <2>1. PICK s \in req[c].delete :
          /\ services' = IF s \in Attached \/ \E m \in mappings : m.service = s THEN services
                         ELSE [services EXCEPT ![s] = "none"]
          /\ Goto(c, [req[c] EXCEPT !.delete = @ \ {s}])
          /\ mappings' = mappings
    BY <1>6 DEF DeleteServiceProvider
  <2>2. req[c] \in VidisRequests /\ s \in Services
    BY <1>6, <1>q DEF DeleteServiceProvider, VidisRequests
  <2>3. [req[c] EXCEPT !.delete = @ \ {s}] \in VidisRequests
    BY <2>2 DEF VidisRequests
  <2>4. ServicesTypeOK'
    BY <2>1, <2>2 DEF ServicesTypeOK
  <2> QED
    BY <2>1, <2>3, <2>4, <1>v, BeginTyped
<1>7. ASSUME NEW c \in Clients, VidisWriteFails(c) PROVE RequestsTyped' /\ ServicesTypeOK'
  <2>1. PICK r : /\ req' = [req EXCEPT ![c] = r]
                 /\ \/ \E a \in req[c].save : r = [req[c] EXCEPT !.save = @ \ {a}]
                    \/ \E m \in req[c].map : r = [req[c] EXCEPT !.map = @ \ {m}]
                    \/ \E s \in req[c].delete : r = [req[c] EXCEPT !.delete = @ \ {s}]
    BY <1>7 DEF VidisWriteFails
  <2>2. req[c] \in VidisRequests
    BY <1>7, <1>q DEF VidisWriteFails
  <2>3. r \in VidisRequests
    BY <2>1, <2>2 DEF VidisRequests
  <2>4. RequestsTyped'
    BY <1>7, <2>1, <2>3, <1>v DEF VidisWriteFails, RequestsTyped
  <2> QED
    BY <1>7, <2>4, <1>t DEF VidisWriteFails
<1>8. ASSUME NEW c \in Clients, VidisEnds(c) PROVE RequestsTyped' /\ ServicesTypeOK'
  BY <1>8, <1>t, GiveUpTyped DEF VidisEnds
<1> QED
  BY <1>1, <1>2, <1>3, <1>4, <1>5, <1>6, <1>7, <1>8 DEF ServicesNext

(* ... and those about Rollen and Kontexte.                                 *)
LEMMA RollenTyped ==
  ASSUME Typed, RollenNext
  PROVE  RequestsTyped' /\ RollenTypeOK'
<1> USE DEF Typed
<1>t. ASSUME UNCHANGED rollenVars PROVE RollenTypeOK'
  BY <1>t DEF RollenTypeOK
<1>r. \A r \in RolleIds : rollen[r] \in RolleRows
  BY DEF RollenTypeOK
<1>s. ASSUME NEW c \in Clients, NEW op \in {"createRolle", "updateRolle"}, NEW r \in RolleIds,
             NEW row \in RolleRows, NEW v, NEW touches, SaveBegins(c, op, r, row, v, touches)
      PROVE  RequestsTyped' /\ RollenTypeOK'
  <2>1. PICK q : Begin(c, q) /\ q.op = op /\ q.id = r /\ q.row = row /\ q.read = rollen[r].version
    BY <1>s DEF SaveBegins
  <2>2. RequestTyped(q)
    BY <2>1, <1>r DEF RequestTyped, OrgaOps, RolleRows
  <2> QED
    BY <1>s, <2>1, <2>2, <1>t, BeginTyped DEF SaveBegins
<1>1. ASSUME NEW c \in Clients, CreateRolle(c) PROVE RequestsTyped' /\ RollenTypeOK'
  <2>1. PICK r, name, ssk, merkmale, touches :
          /\ r \in RolleIds /\ name \in RollenNamen /\ ssk \in Ids /\ merkmale \in SUBSET Merkmale
          /\ SaveBegins(c, "createRolle", r,
               [NoRolle EXCEPT !.name = name, !.ssk = ssk, !.merkmale = merkmale, !.version = 1], 0, touches)
    BY <1>1 DEF CreateRolle
  <2>2. [NoRolle EXCEPT !.name = name, !.ssk = ssk, !.merkmale = merkmale, !.version = 1] \in RolleRows
    BY <2>1 DEF NoRolle, RolleRows, RollenArten
  <2> QED
    BY <2>1, <2>2, <1>s
<1>2. ASSUME NEW c \in Clients, AddSystemRecht(c) PROVE RequestsTyped' /\ RollenTypeOK'
  <2>1. PICK r \in RolleIds, recht \in Systemrechte :
          SaveBegins(c, "updateRolle", r, [rollen[r] EXCEPT !.systemrechte = @ \union {recht}],
                     rollen[r].version, {})
    BY <1>2 DEF AddSystemRecht
  <2>2. [rollen[r] EXCEPT !.systemrechte = @ \union {recht}] \in RolleRows
    BY <1>r DEF RolleRows
  <2> QED
    BY <2>1, <2>2, <1>s
<1>3. ASSUME NEW c \in Clients, SetServiceProviders(c) PROVE RequestsTyped' /\ RollenTypeOK'
  <2>1. PICK r, sps, version :
          /\ r \in RolleIds /\ sps \in SUBSET Services
          /\ SaveBegins(c, "updateRolle", r, [rollen[r] EXCEPT !.serviceProvider = sps], version, {Resource})
    BY <1>3 DEF SetServiceProviders
  <2>2. [rollen[r] EXCEPT !.serviceProvider = sps] \in RolleRows
    BY <2>1, <1>r DEF RolleRows
  <2> QED
    BY <2>1, <2>2, <1>s
<1>4. ASSUME NEW c \in Clients, UpdateRolle(c) PROVE RequestsTyped' /\ RollenTypeOK'
  <2>1. PICK r, name, merkmale, sps, version, touches :
          /\ r \in RolleIds /\ name \in RollenNamen
          /\ merkmale \in SUBSET Merkmale /\ sps \in SUBSET Services
          /\ SaveBegins(c, "updateRolle", r,
               [rollen[r] EXCEPT !.name = name, !.merkmale = merkmale, !.serviceProvider = sps], version, touches)
    BY <1>4 DEF UpdateRolle
  <2>2. [rollen[r] EXCEPT !.name = name, !.merkmale = merkmale, !.serviceProvider = sps] \in RolleRows
    BY <2>1, <1>r DEF RolleRows
  <2> QED
    BY <2>1, <2>2, <1>s
<1>5. ASSUME NEW c \in Clients, InsertRolle(c) PROVE RequestsTyped' /\ RollenTypeOK'
  <2>1. req[c].id \in RolleIds /\ req[c].row \in RolleRows
    BY <1>5 DEF InsertRolle, RequestsTyped, RequestTyped
  <2>2. RequestsTyped'
    BY <1>5, GiveUpTyped DEF InsertRolle, GiveUp
  <2> QED
    BY <1>5, <2>1, <2>2 DEF InsertRolle, RollenTypeOK
<1>6. ASSUME NEW c \in Clients, WriteRolle(c) PROVE RequestsTyped' /\ RollenTypeOK'
  <2>1. req[c].id \in RolleIds /\ req[c].row \in RolleRows /\ req[c].read \in Nat
    BY <1>6 DEF WriteRolle, RequestsTyped, RequestTyped
  <2>2. [req[c].row EXCEPT !.version = req[c].read + 1] \in RolleRows
    BY <2>1 DEF RolleRows
  <2>3. PICK seen : End(c, seen, {}, {})
    BY <1>6 DEF WriteRolle
  <2>4. overwritten' \in BOOLEAN
    BY <2>3 DEF End, RequestsTyped
  <2>5. RequestTyped(Idle)
    BY DEF RequestTyped, Idle, OrgaOps
  <2>6. RequestsTyped'
    BY <2>3, <2>4, <2>5 DEF End, RequestsTyped
  <2> QED
    BY <1>6, <2>1, <2>2, <2>6 DEF WriteRolle, RollenTypeOK
<1>7. ASSUME NEW c \in Clients, WriteRolleFails(c) PROVE RequestsTyped' /\ RollenTypeOK'
  BY <1>7, <1>t, GiveUpTyped DEF WriteRolleFails
<1>8. ASSUME NEW c \in Clients, DeleteRolleBegins(c) PROVE RequestsTyped' /\ RollenTypeOK'
  <2>1. PICK r, q :
          /\ r \in RolleIds
          /\ Begin(c, q) /\ q = [op |-> "deleteRolle", id |-> r, seen |-> rollen[r], touches |-> {Resource}]
          /\ UNCHANGED rollenVars
    BY <1>8 DEF DeleteRolleBegins
  <2>2. RequestTyped(q)
    BY <2>1 DEF RequestTyped, OrgaOps
  <2> QED
    BY <2>1, <2>2, <1>t, BeginTyped
<1>9. ASSUME NEW c \in Clients, DeleteRolle(c) PROVE RequestsTyped' /\ RollenTypeOK'
  <2>1. req[c].id \in RolleIds
    BY <1>9 DEF DeleteRolle, RequestsTyped, RequestTyped
  <2>2. [NoRolle EXCEPT !.version = rollen[req[c].id].version] \in RolleRows
    BY <2>1, <1>r DEF NoRolle, RolleRows, RollenArten
  <2> QED
    BY <1>9, <2>1, <2>2, GiveUpTyped DEF DeleteRolle, RollenTypeOK
<1>10. ASSUME NEW c \in Clients, AssignKontext(c) PROVE RequestsTyped' /\ RollenTypeOK'
  <2>1. PICK q :
          /\ Begin(c, q) /\ q.op = "assign" /\ q.row \in KontextRows
          /\ UNCHANGED rollenVars
    BY <1>10 DEF AssignKontext, KontextRows
  <2>2. RequestTyped(q)
    BY <2>1 DEF RequestTyped, OrgaOps
  <2> QED
    BY <2>1, <2>2, <1>t, BeginTyped
<1>11. ASSUME NEW c \in Clients, InsertKontext(c) PROVE RequestsTyped' /\ RollenTypeOK'
  <2>1. req[c].row \in KontextRows
    BY <1>11 DEF InsertKontext, RequestsTyped, RequestTyped
  <2> QED
    BY <1>11, <2>1, GiveUpTyped DEF InsertKontext, RollenTypeOK
<1>12. ASSUME DeleteKontext PROVE RequestsTyped' /\ RollenTypeOK'
  <2>1. requests' \in 0..MaxRequests
    BY <1>12 DEF DeleteKontext, RequestsTyped
  <2> QED
    BY <1>12, <2>1 DEF DeleteKontext, RequestsTyped, RollenTypeOK
<1> QED
  BY <1>1, <1>2, <1>3, <1>4, <1>5, <1>6, <1>7, <1>8, <1>9, <1>10, <1>11, <1>12 DEF RollenNext

(* Every step of every request and task leads to a well typed state. *)
LEMMA NextTyped == Typed /\ [Next]_vars => Typed'
<1> SUFFICES ASSUME Typed, [Next]_vars PROVE Typed'
  OBVIOUS
<1>t. UNCHANGED treeVars => TreeTypeOK'
  BY DEF Typed, TreeTypeOK
<1>s. UNCHANGED serviceVars => ServicesTypeOK'
  BY DEF Typed, ServicesTypeOK
<1>r. UNCHANGED rollenVars => RollenTypeOK'
  BY DEF Typed, RollenTypeOK
<1>1. CASE TreeNext(Assigned, Mapped) /\ UNCHANGED <<serviceVars, rollenVars>>
  BY <1>1, <1>s, <1>r, TreeTyped DEF Typed
<1>2. CASE ServicesNext(Attached) /\ UNCHANGED <<treeVars, rollenVars>>
  BY <1>2, <1>t, <1>r, ServicesTyped DEF Typed
<1>3. CASE RollenNext /\ UNCHANGED <<treeVars, serviceVars>>
  BY <1>3, <1>t, <1>s, RollenTyped DEF Typed
<1>4. CASE UNCHANGED vars
  BY <1>4, <1>t, <1>s, <1>r DEF Typed, RequestsTyped
<1> QED
  BY <1>1, <1>2, <1>3, <1>4 DEF Next

(* Every reachable state is well typed, for any start that is.              *)
THEOREM VerwaltungTyped == Spec => []TypeOK
<1>1. Typed => TypeOK
  BY DEF Typed, RequestsTyped, TypeOK
<1> QED
  BY <1>1, InitTyped, NextTyped, PTL DEF Spec

-----------------------------------------------------------------------------
(* Which requests an action replaces                                       *)

TreeOps == OrgaOps \union {"create", "delete"}
RolleOps == {"createRolle", "updateRolle", "deleteRolle", "assign"}

(* The step is one of the request c, or of none of them.                    *)
OnlyRequest(c) == DOMAIN req' = Clients /\ \A d \in Clients \ {c} : req'[d] = req[d]
NoRequest == req' = req /\ overwritten' = overwritten

(* Beginning a request, or going on in it, changes that request only. *)
LEMMA BeginStep ==
  ASSUME Typed, NEW c \in Clients, NEW q, Begin(c, q) \/ Goto(c, q)
  PROVE  OnlyRequest(c) /\ req'[c] = q /\ overwritten' = overwritten
BY DEF Typed, RequestsTyped, Begin, Goto, OnlyRequest

(* Ending a request changes that request only. *)
LEMMA EndStep ==
  ASSUME Typed, NEW c \in Clients, NEW seen, NEW started, NEW untold, End(c, seen, started, untold)
  PROVE  OnlyRequest(c) /\ req'[c] = Idle /\ Idle.op = "none"
BY DEF Typed, RequestsTyped, End, OnlyRequest, Idle

(* Giving up changes that request only, and overwrites nothing. *)
LEMMA GiveUpStep ==
  ASSUME Typed, NEW c \in Clients, GiveUp(c)
  PROVE  OnlyRequest(c) /\ req'[c] = Idle /\ Idle.op = "none" /\ (~overwritten => ~overwritten')
<1>1. ~overwritten => ~overwritten'
  BY DEF GiveUp, End
<1> QED
  BY <1>1 DEF Typed, RequestsTyped, GiveUp, End, OnlyRequest, Idle

(* Requests about organisations are no others, before and after.            *)
LEMMA TreeStep ==
  ASSUME Typed, TreeNext(Assigned, Mapped)
  PROVE  NoRequest \/ \E c \in Clients : OnlyRequest(c) /\ req'[c].op \in TreeOps \union {"none"}
<1> USE DEF TreeOps, OrgaOps
<1>b. ASSUME NEW c \in Clients, NEW op \in TreeOps, NEW i, NEW o, NEW v, NEW touches,
             Begin(c, Write(op, i, o, v, touches))
      PROVE  OnlyRequest(c) /\ req'[c].op \in TreeOps
  BY <1>b, BeginStep DEF Write
<1>1. ASSUME NEW c \in Clients, CreateOrganisation(c) \/ PutOrganisation(c) \/ UpdateKlassenname(c)
      PROVE  OnlyRequest(c) /\ req'[c].op \in TreeOps
  BY <1>1, <1>b DEF CreateOrganisation, PutOrganisation, UpdateKlassenname
<1>2. ASSUME NEW c \in Clients,
             \/ SetEnabledForitslearning(c) \/ DeleteKlasse(c, Assigned)
             \/ \E kind \in Kinds : SetParent(c, kind)
      PROVE  OnlyRequest(c) /\ req'[c].op \in TreeOps
  BY <1>2, <1>b DEF SetEnabledForitslearning, DeleteKlasse, SetParent
<1>3. ASSUME NEW c \in Clients, Insert(c) \/ Update(c) \/ UpdateOutdated(c) \/ Remove(c, Mapped)
      PROVE  OnlyRequest(c) /\ req'[c].op = "none"
  BY <1>3, EndStep, GiveUpStep DEF Insert, Update, UpdateOutdated, Remove
<1>4. ASSUME NEW t \in tasks,
             StoreGroup(t) \/ DeleteGroup(t) \/ ReadKlassen(t) \/ StoreGroups(t) \/ GroupCallFails(t)
      PROVE  NoRequest
  BY <1>4 DEF StoreGroup, DeleteGroup, ReadKlassen, StoreGroups, GroupCallFails, EndTask, TaskFails, NoRequest
<1> QED
  BY <1>1, <1>2, <1>3, <1>4 DEF TreeNext

(* Nor are those of VIDIS, and they overwrite nothing that has a version.   *)
LEMMA ServicesStep ==
  ASSUME Typed, ServicesNext(Attached)
  PROVE  \E c \in Clients : /\ OnlyRequest(c) /\ req'[c].op \in {"vidis", "none"}
                            /\ ~overwritten => ~overwritten'
<1>q. ASSUME NEW c \in Clients, req[c].op = "vidis" PROVE req[c] \in VidisRequests
  BY <1>q DEF Typed, RequestsTyped, RequestTyped
<1> DEFINE Stays(c) == /\ OnlyRequest(c) /\ req'[c].op \in {"vidis", "none"}
                       /\ ~overwritten => ~overwritten'
<1>1. ASSUME NEW c \in Clients, VidisBegins(c) PROVE Stays(c)
  BY <1>1, BeginStep DEF VidisBegins
<1>2. ASSUME NEW c \in Clients,
             \/ DeleteAllMappings(c) \/ SaveServiceProvider(c) \/ SaveMapping(c)
             \/ ListObsolete(c) \/ DeleteServiceProvider(c, Attached)
      PROVE  Stays(c)
  <2>1. req[c] \in VidisRequests
    BY <1>2, <1>q DEF DeleteAllMappings, SaveServiceProvider, SaveMapping, ListObsolete, DeleteServiceProvider
  <2>2. ASSUME NEW q, Goto(c, q), q.op = "vidis" PROVE Stays(c)
    BY <2>2, BeginStep
  <2>3. CASE DeleteAllMappings(c)
    <3>1. [req[c] EXCEPT !.at = "write"].op = "vidis"
      BY <2>1 DEF VidisRequests
    <3> QED
      BY <2>2, <2>3, <3>1 DEF DeleteAllMappings
  <2>4. CASE SaveMapping(c)
    <3>1. PICK m : Goto(c, [req[c] EXCEPT !.map = @ \ {m}])
      BY <2>4 DEF SaveMapping
    <3>2. [req[c] EXCEPT !.map = @ \ {m}].op = "vidis"
      BY <2>1 DEF VidisRequests
    <3> QED
      BY <2>2, <3>1, <3>2
  <2>5. CASE SaveServiceProvider(c)
    <3>1. PICK save, map : Goto(c, [req[c] EXCEPT !.save = save, !.map = map])
      BY <2>5 DEF SaveServiceProvider
    <3>2. [req[c] EXCEPT !.save = save, !.map = map].op = "vidis"
      BY <2>1 DEF VidisRequests
    <3> QED
      BY <2>2, <3>1, <3>2
  <2>6. CASE ListObsolete(c)
    <3>1. PICK obsolete : Goto(c, [req[c] EXCEPT !.at = "delete", !.delete = obsolete])
      BY <2>6 DEF ListObsolete
    <3>2. [req[c] EXCEPT !.at = "delete", !.delete = obsolete].op = "vidis"
      BY <2>1 DEF VidisRequests
    <3> QED
      BY <2>2, <3>1, <3>2
  <2>7. CASE DeleteServiceProvider(c, Attached)
    <3>1. PICK s : Goto(c, [req[c] EXCEPT !.delete = @ \ {s}])
      BY <2>7 DEF DeleteServiceProvider
    <3>2. [req[c] EXCEPT !.delete = @ \ {s}].op = "vidis"
      BY <2>1 DEF VidisRequests
    <3> QED
      BY <2>2, <3>1, <3>2
  <2> QED
    BY <1>2, <2>3, <2>4, <2>5, <2>6, <2>7
<1>3. ASSUME NEW c \in Clients, VidisWriteFails(c) PROVE Stays(c)
  <2>1. req[c] \in VidisRequests
    BY <1>3, <1>q DEF VidisWriteFails
  <2> QED
    BY <1>3, <2>1 DEF VidisWriteFails, VidisRequests, Typed, RequestsTyped, OnlyRequest
<1>4. ASSUME NEW c \in Clients, VidisEnds(c) PROVE Stays(c)
  BY <1>4, GiveUpStep DEF VidisEnds
<1> QED
  BY <1>1, <1>2, <1>3, <1>4 DEF ServicesNext

(* Requests about Rollen and Kontexte likewise.                             *)
LEMMA RollenStep ==
  ASSUME Typed, RollenNext
  PROVE  NoRequest \/ \E c \in Clients : OnlyRequest(c) /\ req'[c].op \in RolleOps \union {"none"}
<1> USE DEF RolleOps
<1>1. ASSUME NEW c \in Clients, CreateRolle(c) \/ AddSystemRecht(c) \/ SetServiceProviders(c) \/ UpdateRolle(c)
      PROVE  OnlyRequest(c) /\ req'[c].op \in RolleOps
  <2>1. ASSUME NEW op \in {"createRolle", "updateRolle"}, NEW r, NEW row, NEW v, NEW touches,
               SaveBegins(c, op, r, row, v, touches)
        PROVE  OnlyRequest(c) /\ req'[c].op \in RolleOps
    BY <2>1, BeginStep DEF SaveBegins
  <2> QED
    BY <1>1, <2>1 DEF CreateRolle, AddSystemRecht, SetServiceProviders, UpdateRolle
<1>2. ASSUME NEW c \in Clients, DeleteRolleBegins(c) \/ AssignKontext(c)
      PROVE  OnlyRequest(c) /\ req'[c].op \in RolleOps
  <2>1. ASSUME NEW q, Begin(c, q), q.op \in RolleOps PROVE OnlyRequest(c) /\ req'[c].op \in RolleOps
    BY <2>1, BeginStep
  <2>2. CASE DeleteRolleBegins(c)
    <3>1. PICK r \in RolleIds : Begin(c, [op |-> "deleteRolle", id |-> r, seen |-> rollen[r], touches |-> {Resource}])
      BY <2>2 DEF DeleteRolleBegins
    <3> QED
      BY <2>1, <3>1
  <2>3. CASE AssignKontext(c)
    <3>1. PICK row, touches : Begin(c, [op |-> "assign", row |-> row, touches |-> touches])
      BY <2>3 DEF AssignKontext
    <3> QED
      BY <2>1, <3>1
  <2> QED
    BY <1>2, <2>2, <2>3
<1>3. ASSUME NEW c \in Clients,
             InsertRolle(c) \/ WriteRolle(c) \/ WriteRolleFails(c) \/ DeleteRolle(c) \/ InsertKontext(c)
      PROVE  OnlyRequest(c) /\ req'[c].op = "none"
  BY <1>3, EndStep, GiveUpStep DEF InsertRolle, WriteRolle, WriteRolleFails, DeleteRolle, InsertKontext
<1>4. ASSUME DeleteKontext PROVE NoRequest
  BY <1>4 DEF DeleteKontext, NoRequest
<1> QED
  BY <1>1, <1>2, <1>3, <1>4 DEF RollenNext

-----------------------------------------------------------------------------
(* Versions                                                                *)

(* A request that would write over an organisation and has read the present *)
(* version has read the present row, unless the organisation was deleted;   *)
(* a new one has its place for itself.                                      *)
OrgaVersions ==
  /\ \A i \in Ids : orgas[i].version = 0 => orgas[i].typ = "none"
  /\ \A c \in Clients : req[c].op = "create" =>
       /\ orgas[req[c].id].version = 0 /\ req[c].row.version = 1
       /\ \A d \in Clients \ {c} : req[d].op = "create" => req[d].id # req[c].id
  /\ \A c \in Clients : req[c].op \in OrgaOps =>
       /\ req[c].read <= orgas[req[c].id].version
       /\ /\ req[c].version = req[c].read /\ orgas[req[c].id].version = req[c].read
          /\ orgas[req[c].id].typ # "none"
          => req[c].seen = orgas[req[c].id]

(* The same of Rollen.                                                      *)
RolleVersions ==
  /\ \A r \in RolleIds : rollen[r].version = 0 => rollen[r].name = "none"
  /\ \A c \in Clients : req[c].op = "createRolle" =>
       /\ rollen[req[c].id].version = 0 /\ req[c].row.version = 1
       /\ \A d \in Clients \ {c} : req[d].op = "createRolle" => req[d].id # req[c].id
  /\ \A c \in Clients : req[c].op = "updateRolle" =>
       /\ req[c].read <= rollen[req[c].id].version
       /\ /\ req[c].version = req[c].read /\ rollen[req[c].id].version = req[c].read
          /\ rollen[req[c].id].name # "none"
          => req[c].seen = rollen[req[c].id]

(* Before the first request nobody has read anything. *)
LEMMA InitVersions == Init => OrgaVersions /\ RolleVersions
<1> SUFFICES ASSUME Init PROVE OrgaVersions /\ RolleVersions
  OBVIOUS
<1>1. \A c \in Clients : req[c].op = "none"
  BY DEF Init, NothingBegun, Idle
<1>2. \A i \in Ids : orgas[i].version = 0 => orgas[i].typ = "none"
  BY StartsAssumption DEF Init, NoOrga
<1>3. \A r \in RolleIds : rollen[r].version = 0 => rollen[r].name = "none"
  BY StartsAssumption DEF Init, NoRolle
<1> QED
  BY <1>1, <1>2, <1>3 DEF OrgaVersions, RolleVersions, OrgaOps

(* A request of another kind does not matter.                               *)
LEMMA OtherOrgaVersions ==
  ASSUME OrgaVersions, orgas' = orgas, NEW c \in Clients, OnlyRequest(c),
         req'[c].op \notin OrgaOps \union {"create"}
  PROVE  OrgaVersions'
BY DEF OnlyRequest, OrgaVersions, OrgaOps

(* A request about something else than Rollen, which changes none, keeps what the
   other requests have read of them. *)
LEMMA OtherRolleVersions ==
  ASSUME RolleVersions, rollen' = rollen, NEW c \in Clients, OnlyRequest(c),
         req'[c].op \notin {"createRolle", "updateRolle"}
  PROVE  RolleVersions'
BY DEF OnlyRequest, RolleVersions

(* A write that begins has seen the row whose version it read.              *)
LEMMA WriteVersions ==
  ASSUME Typed, OrgaVersions, orgas' = orgas, NEW c \in Clients, NEW op \in OrgaOps, NEW i \in Ids,
         NEW o, NEW v, NEW touches, Begin(c, Write(op, i, o, v, touches))
  PROVE  OrgaVersions'
<1>1. OnlyRequest(c) /\ req'[c] = Write(op, i, o, v, touches)
  BY BeginStep
<1>2. /\ req'[c].op = op /\ req'[c].id = i /\ req'[c].read = orgas[i].version /\ req'[c].version = v
      /\ v = orgas[i].version => req'[c].seen = orgas[i]
  BY <1>1 DEF Write
<1>3. orgas[i].version \in Nat
  BY DEF Typed, TreeTypeOK, Rows, NoRows
<1> QED
  BY <1>1, <1>2, <1>3 DEF OnlyRequest, OrgaVersions, OrgaOps

(* What is written over has the next version: none of those that have read  *)
(* the row take it for the one they have read.                              *)
LEMMA TreeVersions ==
  ASSUME Typed, OrgaVersions, TreeNext(Assigned, Mapped)
  PROVE  OrgaVersions' /\ (~overwritten => ~overwritten')
<1>n. \A i \in Ids : orgas[i].version \in Nat
  BY DEF Typed, TreeTypeOK, Rows, NoRows
<1>q. \A d \in Clients : /\ req[d].op \in OrgaOps => req[d].id \in Ids /\ req[d].row \in Rows /\ req[d].read \in Nat
                         /\ req[d].op \in {"create", "delete"} => req[d].id \in Ids
  BY DEF Typed, RequestsTyped, RequestTyped, OrgaOps
<1>1. ASSUME NEW c \in Clients, CreateOrganisation(c) PROVE OrgaVersions' /\ (~overwritten => ~overwritten')
  <2>1. PICK i, b, touches :
          /\ i \in NewIds /\ b \in NewOrgas
          /\ orgas[i].version = 0 /\ \A d \in Clients : req[d].op = "create" => req[d].id # i
          /\ Begin(c, Write("create", i, [b EXCEPT !.version = 1], 0, touches)) /\ UNCHANGED treeVars
    BY <1>1 DEF CreateOrganisation
  <2>2. /\ OnlyRequest(c) /\ overwritten' = overwritten
        /\ req'[c].op = "create" /\ req'[c].id = i /\ req'[c].row = [b EXCEPT !.version = 1]
    BY <2>1, BeginStep DEF Write
  <2>3. req'[c].row.version = 1
    BY <2>2 DEF Rows
  <2>4. /\ orgas' = orgas /\ \A d \in Clients \ {c} : req'[d] = req[d]
        /\ \A d \in Clients \ {c} : req[d].op = "create" => req[d].id # i
    BY <2>1, <2>2 DEF OnlyRequest
  <2>5. req'[c].op \notin OrgaOps
    BY <2>2 DEF OrgaOps
  <2>6. \A d \in Clients : req'[d].op = "create" => \A e \in Clients \ {d} :
           req'[e].op = "create" => req'[e].id # req'[d].id
    BY <2>2, <2>4 DEF OrgaVersions
  <2>7. \A d \in Clients : req'[d].op = "create" => orgas[req'[d].id].version = 0 /\ req'[d].row.version = 1
    <3>1. orgas[req'[c].id].version = 0 /\ req'[c].row.version = 1
      BY <2>1, <2>2, <2>3
    <3> QED
      BY <3>1, <2>4 DEF OrgaVersions
  <2> QED
    BY <2>2, <2>4, <2>5, <2>6, <2>7 DEF OrgaVersions
<1>2. ASSUME NEW c \in Clients,
             \/ PutOrganisation(c) \/ UpdateKlassenname(c) \/ SetEnabledForitslearning(c)
             \/ \E kind \in Kinds : SetParent(c, kind)
      PROVE  OrgaVersions' /\ (~overwritten => ~overwritten')
  <2>w. ASSUME NEW op \in OrgaOps, NEW i \in Ids, NEW o, NEW v, NEW touches,
               Begin(c, Write(op, i, o, v, touches)), UNCHANGED treeVars
        PROVE  OrgaVersions' /\ (~overwritten => ~overwritten')
    <3>1. overwritten' = overwritten
      BY <2>w, BeginStep
    <3> QED
      BY <2>w, <3>1, WriteVersions
  <2>1. CASE PutOrganisation(c)
    BY <2>1, <2>w DEF PutOrganisation, OrgaOps
  <2>2. CASE UpdateKlassenname(c)
    BY <2>2, <2>w DEF UpdateKlassenname, OrgaOps
  <2>3. CASE SetEnabledForitslearning(c)
    BY <2>3, <2>w DEF SetEnabledForitslearning, OrgaOps
  <2>4. CASE \E kind \in Kinds : SetParent(c, kind)
    BY <2>4, <2>w DEF SetParent, OrgaOps
  <2> QED
    BY <1>2, <2>1, <2>2, <2>3, <2>4
<1>3. ASSUME NEW c \in Clients, DeleteKlasse(c, Assigned) PROVE OrgaVersions' /\ (~overwritten => ~overwritten')
  <2>1. OnlyRequest(c) /\ req'[c].op = "delete" /\ orgas' = orgas /\ overwritten' = overwritten
    BY <1>3, BeginStep DEF DeleteKlasse, Write
  <2> QED
    BY <2>1, OtherOrgaVersions DEF OrgaOps
<1>4. ASSUME NEW c \in Clients, Insert(c) PROVE OrgaVersions' /\ (~overwritten => ~overwritten')
  <2> DEFINE r == req[c]
  <2>1. /\ r.op = "create" /\ r.id \in Ids /\ orgas[r.id].version = 0 /\ r.row.version = 1
        /\ \A d \in Clients \ {c} : req[d].op = "create" => req[d].id # r.id
    BY <1>4, <1>q DEF Insert, OrgaVersions
  <2>2. OnlyRequest(c) /\ req'[c].op = "none" /\ (~overwritten => ~overwritten')
    <3>1. ~overwritten => ~overwritten'
      BY <1>4 DEF Insert, End
    <3> QED
      BY <1>4, <3>1, EndStep DEF Insert
  <2>3. orgas'[r.id] = r.row /\ \A i \in Ids \ {r.id} : orgas'[i] = orgas[i]
    BY <1>4, <2>1 DEF Insert, Typed, TreeTypeOK
  <2> HIDE DEF r
  <2> QED
    BY <1>n, <1>q, <2>1, <2>2, <2>3 DEF OnlyRequest, OrgaVersions, OrgaOps
<1>5. ASSUME NEW c \in Clients, Update(c) PROVE OrgaVersions' /\ (~overwritten => ~overwritten')
  <2> DEFINE r == req[c]
  <2>1. /\ r.op \in OrgaOps /\ r.id \in Ids /\ r.row \in Rows /\ r.read \in Nat
        /\ r.version = r.read /\ orgas[r.id].version = r.read /\ orgas[r.id].typ # "none"
    BY <1>5, <1>q DEF Update, IsCurrent, IsThere, OrgaOps
  <2>2. r.seen = orgas[r.id]
    BY <2>1 DEF OrgaVersions
  <2>3. OnlyRequest(c) /\ req'[c].op = "none" /\ (~overwritten => ~overwritten')
    <3>1. ~overwritten => ~overwritten'
      BY <1>5, <2>2 DEF Update, End
    <3> QED
      BY <1>5, <3>1, EndStep DEF Update
  <2>4. [r.row EXCEPT !.version = r.read + 1].version = r.read + 1
    BY <2>1 DEF Rows
  <2>5. orgas'[r.id].version = r.read + 1 /\ \A i \in Ids \ {r.id} : orgas'[i] = orgas[i]
    BY <1>5, <2>1, <2>4 DEF Update, NextVersion, Typed, TreeTypeOK
  <2>6. \A d \in Clients \ {c} : req[d].op = "create" => req[d].id # r.id
    BY <2>1 DEF OrgaVersions
  <2> HIDE DEF r
  <2> QED
    BY <1>n, <1>q, <2>1, <2>3, <2>5, <2>6 DEF OnlyRequest, OrgaVersions, OrgaOps
<1>6. ASSUME NEW c \in Clients, UpdateOutdated(c) PROVE OrgaVersions' /\ (~overwritten => ~overwritten')
  BY <1>6, GiveUpStep, OtherOrgaVersions DEF UpdateOutdated, OrgaOps
<1>7. ASSUME NEW c \in Clients, Remove(c, Mapped) PROVE OrgaVersions' /\ (~overwritten => ~overwritten')
  <2>1. req[c].id \in Ids
    BY <1>7, <1>q DEF Remove
  <2>2. OnlyRequest(c) /\ req'[c].op = "none" /\ (~overwritten => ~overwritten')
    <3>1. ~overwritten => ~overwritten'
      BY <1>7 DEF Remove, End
    <3> QED
      BY <1>7, <3>1, EndStep DEF Remove
  <2>3. \A i \in Ids : orgas'[i].version = orgas[i].version /\ (orgas'[i].typ = "none" \/ orgas'[i] = orgas[i])
    BY <1>7, <2>1 DEF Remove, Typed, TreeTypeOK, NoOrga
  <2> QED
    BY <1>q, <2>2, <2>3 DEF OnlyRequest, OrgaVersions, OrgaOps
<1>8. ASSUME NEW t \in tasks,
             StoreGroup(t) \/ DeleteGroup(t) \/ ReadKlassen(t) \/ StoreGroups(t) \/ GroupCallFails(t)
      PROVE  OrgaVersions' /\ (~overwritten => ~overwritten')
  <2>1. UNCHANGED <<req, orgas, overwritten>>
    BY <1>8 DEF StoreGroup, DeleteGroup, ReadKlassen, StoreGroups, GroupCallFails, EndTask, TaskFails
  <2> QED
    BY <2>1 DEF OrgaVersions
<1> QED
  BY <1>1, <1>2, <1>3, <1>4, <1>5, <1>6, <1>7, <1>8 DEF TreeNext

(* The same of Rollen, except that a deleted one has a name no other has.   *)
LEMMA RollenVersions ==
  ASSUME Typed, RolleVersions, RollenNext
  PROVE  RolleVersions' /\ (~overwritten => ~overwritten')
<1>n. \A r \in RolleIds : rollen[r].version \in Nat
  BY DEF Typed, RollenTypeOK, RolleRows
<1>q. \A d \in Clients : /\ req[d].op = "updateRolle" => req[d].id \in RolleIds /\ req[d].row \in RolleRows /\ req[d].read \in Nat
                         /\ req[d].op \in {"createRolle", "deleteRolle"} => req[d].id \in RolleIds
  BY DEF Typed, RequestsTyped, RequestTyped
<1>1. ASSUME NEW c \in Clients, CreateRolle(c) PROVE RolleVersions' /\ (~overwritten => ~overwritten')
  <2>1. PICK r, name, ssk, merkmale, touches :
          /\ r \in RolleIds
          /\ rollen[r].version = 0 /\ \A d \in Clients : req[d].op = "createRolle" => req[d].id # r
          /\ SaveBegins(c, "createRolle", r,
               [NoRolle EXCEPT !.name = name, !.ssk = ssk, !.merkmale = merkmale, !.version = 1], 0, touches)
    BY <1>1 DEF CreateRolle
  <2>2. /\ OnlyRequest(c) /\ overwritten' = overwritten /\ rollen' = rollen
        /\ req'[c].op = "createRolle" /\ req'[c].id = r /\ req'[c].row.version = 1
    <3> DEFINE row == [NoRolle EXCEPT !.name = name, !.ssk = ssk, !.merkmale = merkmale, !.version = 1]
    <3>1. row.version = 1
      BY DEF NoRolle
    <3> HIDE DEF row
    <3>2. /\ OnlyRequest(c) /\ overwritten' = overwritten /\ rollen' = rollen
          /\ req'[c].op = "createRolle" /\ req'[c].id = r /\ req'[c].row = row
      BY <2>1, BeginStep DEF SaveBegins, row
    <3> QED
      BY <3>1, <3>2
  <2>3. \A d \in Clients \ {c} : req'[d] = req[d] /\ (req[d].op = "createRolle" => req[d].id # r)
    BY <2>1, <2>2 DEF OnlyRequest
  <2>4. \A d \in Clients : req'[d].op = "createRolle" => \A e \in Clients \ {d} :
           req'[e].op = "createRolle" => req'[e].id # req'[d].id
    BY <2>2, <2>3 DEF RolleVersions
  <2>5. \A d \in Clients : req'[d].op = "createRolle" => rollen[req'[d].id].version = 0 /\ req'[d].row.version = 1
    <3>1. rollen[req'[c].id].version = 0 /\ req'[c].row.version = 1
      BY <2>1, <2>2
    <3> QED
      BY <3>1, <2>3 DEF RolleVersions
  <2> QED
    BY <2>2, <2>3, <2>4, <2>5 DEF RolleVersions
<1>2. ASSUME NEW c \in Clients, AddSystemRecht(c) \/ SetServiceProviders(c) \/ UpdateRolle(c)
      PROVE  RolleVersions' /\ (~overwritten => ~overwritten')
  <2>w. ASSUME NEW r \in RolleIds, NEW row, NEW v, NEW touches, SaveBegins(c, "updateRolle", r, row, v, touches)
        PROVE  RolleVersions' /\ (~overwritten => ~overwritten')
    <3>1. /\ OnlyRequest(c) /\ overwritten' = overwritten /\ rollen' = rollen
          /\ req'[c].op = "updateRolle" /\ req'[c].id = r /\ req'[c].read = rollen[r].version
          /\ req'[c].version = v /\ (v = rollen[r].version => req'[c].seen = rollen[r])
      BY <2>w, BeginStep DEF SaveBegins
    <3> QED
      BY <1>n, <3>1 DEF OnlyRequest, RolleVersions
  <2>1. CASE AddSystemRecht(c)
    BY <2>1, <2>w DEF AddSystemRecht
  <2>2. CASE SetServiceProviders(c)
    BY <2>2, <2>w DEF SetServiceProviders
  <2>3. CASE UpdateRolle(c)
    BY <2>3, <2>w DEF UpdateRolle
  <2> QED
    BY <1>2, <2>1, <2>2, <2>3
<1>3. ASSUME NEW c \in Clients, DeleteRolleBegins(c) \/ AssignKontext(c)
      PROVE  RolleVersions' /\ (~overwritten => ~overwritten')
  <2>1. ASSUME NEW q, Begin(c, q), q.op \in {"deleteRolle", "assign"}, rollen' = rollen
        PROVE  RolleVersions' /\ (~overwritten => ~overwritten')
    BY <2>1, BeginStep, OtherRolleVersions
  <2>2. CASE DeleteRolleBegins(c)
    <3>1. PICK r \in RolleIds : Begin(c, [op |-> "deleteRolle", id |-> r, seen |-> rollen[r], touches |-> {Resource}])
      BY <2>2 DEF DeleteRolleBegins
    <3> QED
      BY <2>1, <2>2, <3>1 DEF DeleteRolleBegins
  <2>3. CASE AssignKontext(c)
    <3>1. PICK row, touches : Begin(c, [op |-> "assign", row |-> row, touches |-> touches])
      BY <2>3 DEF AssignKontext
    <3> QED
      BY <2>1, <2>3, <3>1 DEF AssignKontext
  <2> QED
    BY <1>3, <2>2, <2>3
<1>4. ASSUME NEW c \in Clients, InsertRolle(c) PROVE RolleVersions' /\ (~overwritten => ~overwritten')
  <2> DEFINE q == req[c]
  <2>1. /\ q.op = "createRolle" /\ q.id \in RolleIds /\ rollen[q.id].version = 0 /\ q.row.version = 1
        /\ \A d \in Clients \ {c} : req[d].op = "createRolle" => req[d].id # q.id
    BY <1>4, <1>q DEF InsertRolle, RolleVersions
  <2>2. OnlyRequest(c) /\ req'[c].op = "none" /\ (~overwritten => ~overwritten')
    <3>1. ~overwritten => ~overwritten'
      BY <1>4 DEF InsertRolle, End
    <3> QED
      BY <1>4, <3>1, EndStep DEF InsertRolle
  <2>3. rollen'[q.id] = q.row /\ \A r \in RolleIds \ {q.id} : rollen'[r] = rollen[r]
    BY <1>4, <2>1 DEF InsertRolle, Typed, RollenTypeOK
  <2> HIDE DEF q
  <2> QED
    BY <1>n, <1>q, <2>1, <2>2, <2>3 DEF OnlyRequest, RolleVersions
<1>5. ASSUME NEW c \in Clients, WriteRolle(c) PROVE RolleVersions' /\ (~overwritten => ~overwritten')
  <2> DEFINE q == req[c]
  <2>1. /\ q.op = "updateRolle" /\ q.id \in RolleIds /\ q.row \in RolleRows /\ q.read \in Nat
        /\ q.version = q.read /\ rollen[q.id].version = q.read /\ rollen[q.id].name # "none"
    BY <1>5, <1>q DEF WriteRolle, RolleIsCurrent, HasRolle
  <2>2. q.seen = rollen[q.id]
    BY <2>1 DEF RolleVersions
  <2>3. OnlyRequest(c) /\ req'[c].op = "none" /\ (~overwritten => ~overwritten')
    <3>1. ~overwritten => ~overwritten'
      BY <1>5, <2>2 DEF WriteRolle, End
    <3> QED
      BY <1>5, <3>1, EndStep DEF WriteRolle
  <2>4. [q.row EXCEPT !.version = q.read + 1].version = q.read + 1
    BY <2>1 DEF RolleRows
  <2>5. rollen'[q.id].version = q.read + 1 /\ \A r \in RolleIds \ {q.id} : rollen'[r] = rollen[r]
    BY <1>5, <2>1, <2>4 DEF WriteRolle, Typed, RollenTypeOK
  <2>6. \A d \in Clients \ {c} : req[d].op = "createRolle" => req[d].id # q.id
    BY <2>1 DEF RolleVersions
  <2> HIDE DEF q
  <2> QED
    BY <1>n, <1>q, <2>1, <2>3, <2>5, <2>6 DEF OnlyRequest, RolleVersions
<1>6. ASSUME NEW c \in Clients, WriteRolleFails(c) \/ InsertKontext(c)
      PROVE  RolleVersions' /\ (~overwritten => ~overwritten')
  BY <1>6, GiveUpStep, OtherRolleVersions DEF WriteRolleFails, InsertKontext
<1>7. ASSUME NEW c \in Clients, DeleteRolle(c) PROVE RolleVersions' /\ (~overwritten => ~overwritten')
  <2>1. req[c].id \in RolleIds
    BY <1>7, <1>q DEF DeleteRolle
  <2>2. OnlyRequest(c) /\ req'[c].op = "none" /\ (~overwritten => ~overwritten')
    BY <1>7, GiveUpStep DEF DeleteRolle
  <2>3. \A r \in RolleIds : rollen'[r].version = rollen[r].version /\ (rollen'[r].name = "none" \/ rollen'[r] = rollen[r])
    BY <1>7, <2>1 DEF DeleteRolle, Typed, RollenTypeOK, NoRolle
  <2> QED
    BY <1>q, <2>2, <2>3 DEF OnlyRequest, RolleVersions
<1>8. ASSUME DeleteKontext PROVE RolleVersions' /\ (~overwritten => ~overwritten')
  BY <1>8 DEF DeleteKontext, RolleVersions
<1> QED
  BY <1>1, <1>2, <1>3, <1>4, <1>5, <1>6, <1>7, <1>8 DEF RollenNext

(* No step overwrites what the request has not read: a request that is about to save
   holds the newest version, or the version check refuses it. *)
LEMMA NextVersions ==
  Typed /\ OrgaVersions /\ RolleVersions /\ ~overwritten /\ [Next]_vars
    => OrgaVersions' /\ RolleVersions' /\ ~overwritten'
<1> SUFFICES ASSUME Typed, OrgaVersions, RolleVersions, ~overwritten, [Next]_vars
             PROVE  OrgaVersions' /\ RolleVersions' /\ ~overwritten'
  OBVIOUS
<1>1. CASE TreeNext(Assigned, Mapped) /\ UNCHANGED <<serviceVars, rollenVars>>
  <2>1. RolleVersions'
    <3>1. CASE NoRequest
      BY <1>1, <3>1 DEF NoRequest, RolleVersions
    <3>2. CASE \E c \in Clients : OnlyRequest(c) /\ req'[c].op \in TreeOps \union {"none"}
      BY <1>1, <3>2, OtherRolleVersions DEF TreeOps, OrgaOps
    <3> QED
      BY <1>1, <3>1, <3>2, TreeStep
  <2> QED
    BY <1>1, <2>1, TreeVersions
<1>2. CASE ServicesNext(Attached) /\ UNCHANGED <<treeVars, rollenVars>>
  BY <1>2, ServicesStep, OtherOrgaVersions, OtherRolleVersions DEF OrgaOps
<1>3. CASE RollenNext /\ UNCHANGED <<treeVars, serviceVars>>
  <2>1. OrgaVersions'
    <3>1. CASE NoRequest
      BY <1>3, <3>1 DEF NoRequest, OrgaVersions
    <3>2. CASE \E c \in Clients : OnlyRequest(c) /\ req'[c].op \in RolleOps \union {"none"}
      BY <1>3, <3>2, OtherOrgaVersions DEF RolleOps, OrgaOps
    <3> QED
      BY <1>3, <3>1, <3>2, RollenStep
  <2> QED
    BY <1>3, <2>1, RollenVersions
<1>4. CASE UNCHANGED vars
  BY <1>4 DEF OrgaVersions, RolleVersions
<1> QED
  BY <1>1, <1>2, <1>3, <1>4 DEF Next

(* Nobody writes over what someone else has changed: whatever requests      *)
(* overlap and whatever version a client sends, an organisation or a Rolle  *)
(* is only written by a request that has seen it as it is.                  *)
THEOREM NobodyOverwrites == Spec => []NothingOverwritten
<1>1. Init => ~overwritten
  BY DEF Init, NothingBegun
<1>2. ~overwritten <=> NothingOverwritten
  BY DEF NothingOverwritten
<1> QED
  BY <1>1, <1>2, InitTyped, NextTyped, InitVersions, NextVersions, PTL DEF Spec

-----------------------------------------------------------------------------
(* What requests touch                                                     *)

(* What two requests touch at a time is disturbed.                          *)
Alone ==
  \A c, d \in Clients : c # d => req[c].touches \intersect req[d].touches \subseteq disturbed

(* A request that begins has told what it touches; otherwise a request goes *)
(* on to touch the same, or ends.  What was disturbed remains so.           *)
LEMMA EveryStep ==
  ASSUME Typed, [Next]_vars
  PROVE  /\ disturbed \subseteq disturbed'
         /\ \/ req' = req
            \/ \E c \in Clients :
                 /\ OnlyRequest(c)
                 /\ \/ \E q : Begin(c, q) /\ req'[c] = q
                    \/ req'[c].touches \subseteq req[c].touches
<1> DEFINE Quietly(c) == OnlyRequest(c) /\ disturbed \subseteq disturbed' /\ req'[c].touches \subseteq req[c].touches
<1>b. ASSUME NEW c \in Clients, NEW q, Begin(c, q)
      PROVE  OnlyRequest(c) /\ disturbed \subseteq disturbed' /\ Begin(c, q) /\ req'[c] = q
  BY <1>b, BeginStep DEF Begin
<1>e. ASSUME NEW c \in Clients, NEW seen, NEW started, NEW untold, End(c, seen, started, untold)
      PROVE  Quietly(c)
  <2>1. disturbed \subseteq disturbed'
    BY <1>e DEF End
  <2> QED
    BY <1>e, <2>1, EndStep DEF Idle
<1>g. ASSUME NEW c \in Clients, GiveUp(c) PROVE Quietly(c)
  BY <1>g, <1>e DEF GiveUp
<1>w. ASSUME NEW c \in Clients, NEW q, Goto(c, q), q.touches \subseteq req[c].touches PROVE Quietly(c)
  BY <1>w, BeginStep DEF Goto
<1>q. ASSUME NEW c \in Clients, req[c].op = "vidis" PROVE req[c] \in VidisRequests
  BY <1>q DEF Typed, RequestsTyped, RequestTyped
<1> HIDE DEF Quietly
<1>1. CASE TreeNext(Assigned, Mapped)
  <2>1. ASSUME NEW c \in Clients, CreateOrganisation(c) \/ PutOrganisation(c) \/ UpdateKlassenname(c)
        PROVE  \E q : Begin(c, q)
    BY <2>1 DEF CreateOrganisation, PutOrganisation, UpdateKlassenname
  <2>2. ASSUME NEW c \in Clients,
               \/ SetEnabledForitslearning(c) \/ DeleteKlasse(c, Assigned) \/ \E kind \in Kinds : SetParent(c, kind)
        PROVE  \E q : Begin(c, q)
    BY <2>2 DEF SetEnabledForitslearning, DeleteKlasse, SetParent
  <2>3. ASSUME NEW c \in Clients, Insert(c) \/ Update(c) \/ UpdateOutdated(c) \/ Remove(c, Mapped)
        PROVE  Quietly(c)
    BY <2>3, <1>e, <1>g DEF Insert, Update, UpdateOutdated, Remove
  <2>4. ASSUME NEW t \in tasks,
               StoreGroup(t) \/ DeleteGroup(t) \/ ReadKlassen(t) \/ StoreGroups(t) \/ GroupCallFails(t)
        PROVE  req' = req /\ disturbed \subseteq disturbed'
    BY <2>4 DEF StoreGroup, DeleteGroup, ReadKlassen, StoreGroups, GroupCallFails, EndTask, TaskFails
  <2> QED
    BY <1>1, <1>b, <2>1, <2>2, <2>3, <2>4 DEF TreeNext, Quietly
<1>2. CASE ServicesNext(Attached)
  <2>1. ASSUME NEW c \in Clients, VidisBegins(c) PROVE \E q : Begin(c, q)
    BY <2>1 DEF VidisBegins
  <2>2. ASSUME NEW c \in Clients, DeleteAllMappings(c) PROVE Quietly(c)
    <3>1. [req[c] EXCEPT !.at = "write"].touches \subseteq req[c].touches
      BY <2>2, <1>q DEF DeleteAllMappings, VidisRequests
    <3> QED
      BY <2>2, <3>1, <1>w DEF DeleteAllMappings
  <2>3. ASSUME NEW c \in Clients, SaveServiceProvider(c) PROVE Quietly(c)
    <3>1. PICK x, y : Goto(c, [req[c] EXCEPT !.save = x, !.map = y])
      BY <2>3 DEF SaveServiceProvider
    <3>2. [req[c] EXCEPT !.save = x, !.map = y].touches \subseteq req[c].touches
      BY <2>3, <1>q DEF SaveServiceProvider, VidisRequests
    <3> QED
      BY <3>1, <3>2, <1>w
  <2>6. ASSUME NEW c \in Clients, SaveMapping(c) PROVE Quietly(c)
    <3>1. PICK x : Goto(c, [req[c] EXCEPT !.map = x])
      BY <2>6 DEF SaveMapping
    <3>2. [req[c] EXCEPT !.map = x].touches \subseteq req[c].touches
      BY <2>6, <1>q DEF SaveMapping, VidisRequests
    <3> QED
      BY <3>1, <3>2, <1>w
  <2>7. ASSUME NEW c \in Clients, ListObsolete(c) PROVE Quietly(c)
    <3>1. PICK x : Goto(c, [req[c] EXCEPT !.at = "delete", !.delete = x])
      BY <2>7 DEF ListObsolete
    <3>2. [req[c] EXCEPT !.at = "delete", !.delete = x].touches \subseteq req[c].touches
      BY <2>7, <1>q DEF ListObsolete, VidisRequests
    <3> QED
      BY <3>1, <3>2, <1>w
  <2>8. ASSUME NEW c \in Clients, DeleteServiceProvider(c, Attached) PROVE Quietly(c)
    <3>1. PICK x : Goto(c, [req[c] EXCEPT !.delete = x])
      BY <2>8 DEF DeleteServiceProvider
    <3>2. [req[c] EXCEPT !.delete = x].touches \subseteq req[c].touches
      BY <2>8, <1>q DEF DeleteServiceProvider, VidisRequests
    <3> QED
      BY <3>1, <3>2, <1>w
  <2>4. ASSUME NEW c \in Clients, VidisWriteFails(c) PROVE Quietly(c)
    <3>1. req[c] \in VidisRequests /\ disturbed \subseteq disturbed'
      BY <2>4, <1>q DEF VidisWriteFails
    <3>2. OnlyRequest(c) /\ req'[c].touches = req[c].touches
      BY <2>4, <3>1 DEF VidisWriteFails, VidisRequests, Typed, RequestsTyped, OnlyRequest
    <3> QED
      BY <3>1, <3>2 DEF Quietly
  <2>5. ASSUME NEW c \in Clients, VidisEnds(c) PROVE Quietly(c)
    BY <2>5, <1>g DEF VidisEnds
  <2> QED
    BY <1>2, <1>b, <2>1, <2>2, <2>3, <2>4, <2>5, <2>6, <2>7, <2>8 DEF ServicesNext, Quietly
<1>3. CASE RollenNext
  <2>1. ASSUME NEW c \in Clients, CreateRolle(c) \/ AddSystemRecht(c) \/ SetServiceProviders(c) \/ UpdateRolle(c)
        PROVE  \E q : Begin(c, q)
    <3>1. \E op, r, row, v, touches : SaveBegins(c, op, r, row, v, touches)
      BY <2>1 DEF CreateRolle, AddSystemRecht, SetServiceProviders, UpdateRolle
    <3> QED
      BY <3>1 DEF SaveBegins
  <2>2. ASSUME NEW c \in Clients, DeleteRolleBegins(c) \/ AssignKontext(c) PROVE \E q : Begin(c, q)
    BY <2>2 DEF DeleteRolleBegins, AssignKontext
  <2>3. ASSUME NEW c \in Clients,
               InsertRolle(c) \/ WriteRolle(c) \/ WriteRolleFails(c) \/ DeleteRolle(c) \/ InsertKontext(c)
        PROVE  Quietly(c)
    <3>1. CASE InsertRolle(c)
      BY <3>1, <1>e DEF InsertRolle
    <3>2. CASE WriteRolle(c)
      BY <3>2, <1>e DEF WriteRolle
    <3> QED
      BY <2>3, <3>1, <3>2, <1>g DEF WriteRolleFails, DeleteRolle, InsertKontext
  <2>4. ASSUME DeleteKontext PROVE req' = req /\ disturbed \subseteq disturbed'
    BY <2>4 DEF DeleteKontext
  <2> QED
    BY <1>3, <1>b, <2>1, <2>2, <2>3, <2>4 DEF RollenNext, Quietly
<1>4. CASE UNCHANGED vars
  BY <1>4
<1> QED
  BY <1>1, <1>2, <1>3, <1>4 DEF Next

(* So it stays true that what two requests touch is disturbed.              *)
LEMMA NextAlone == Typed /\ Alone /\ [Next]_vars => Alone'
<1> SUFFICES ASSUME Typed, Alone, [Next]_vars PROVE Alone'
  OBVIOUS
<1>1. disturbed \subseteq disturbed'
  BY EveryStep
<1>2. CASE req' = req
  BY <1>1, <1>2 DEF Alone
<1>3. ASSUME NEW c \in Clients, OnlyRequest(c),
             \/ \E q : Begin(c, q) /\ req'[c] = q
             \/ req'[c].touches \subseteq req[c].touches
      PROVE  Alone'
  <2>1. \A d \in Clients \ {c} : req'[d] = req[d]
    BY <1>3 DEF OnlyRequest
  <2>2. \A d \in Clients \ {c} : req'[c].touches \intersect req[d].touches \subseteq disturbed'
    <3>1. CASE \E q : Begin(c, q) /\ req'[c] = q
      <4>1. \A d \in Clients : req[d].touches \subseteq Touched
        BY DEF Touched, InProgress
      <4>2. req'[c].touches \intersect Touched \subseteq disturbed'
        BY <3>1 DEF Begin
      <4> QED
        BY <4>1, <4>2
    <3>2. CASE req'[c].touches \subseteq req[c].touches
      BY <1>1, <3>2 DEF Alone
    <3> QED
      BY <1>3, <3>1, <3>2
  <2> QED
    BY <1>1, <2>1, <2>2 DEF Alone
<1> QED
  BY <1>2, <1>3, EveryStep

(* At first nobody has touched anything.                                    *)
LEMMA InitAlone == Init => Alone
BY DEF Init, NothingBegun, Alone, Idle

-----------------------------------------------------------------------------
(* Requests about organisations                                            *)

(* What a request asks for, and has told that it touches: moves, new names  *)
(* and the switch leave the rest as it was read.                            *)
Asked(q) ==
  /\ q.op \in {"create", "put"} => Touches(q.id, q.row) \subseteq q.touches
  /\ q.op \in {"move", "rename", "enable"} /\ q.version = q.read =>
       q.row.typ = q.seen.typ /\ q.row.kennung = q.seen.kennung
  /\ q.op \in {"rename", "enable"} /\ q.version = q.read => \A kind \in Kinds : q.row[kind] = q.seen[kind]
  /\ q.op = "move" => \E kind \in Kinds : /\ <<"parents", kind>> \in q.touches
                                          /\ \A other \in Kinds \ {kind} : q.row[other] = q.seen[other]
  /\ q.op \in {"move", "rename"} /\ q.row.typ = "KLASSE" => <<"names", q.row.administriertVon>> \in q.touches
  /\ q.op = "enable" => q.row.typ = "SCHULE"
  /\ q.op = "delete" => <<"orga", q.id>> \in q.touches

(* What its checks have found and what nothing changes that is undisturbed. *)
KennungFree(q) ==
  q.op \in {"create", "put"} /\ q.row.typ = "SCHULE" /\ Undisturbed("kennung", q.row.kennung) =>
    \A j \in Ids \ {q.id} : Typ(j) = "SCHULE" => orgas[j].kennung # q.row.kennung
NameFree(q) ==
  /\ q.op \in {"create", "put", "move", "rename"} /\ q.row.typ = "KLASSE" /\ q.id # Root
  /\ Undisturbed("names", q.row.administriertVon)
  => \A j \in Ids \ {q.id, Root} :
       Typ(j) = "KLASSE" /\ orgas[j].administriertVon = q.row.administriertVon => orgas[j].name # q.row.name
ParentsFit(q) ==
  ~putUsed => /\ q.op \in {"create", "move"} /\ q.row.typ = "KLASSE" => ParentsAre(q.row, {"SCHULE"})
              /\ q.op = "delete" => Typ(q.id) \in {"KLASSE", "none"} /\ orgas[q.id].version > 0
ParentsCreated(q) ==
  ~putUsed /\ q.op \in {"create", "move"} =>
    \A kind \in Kinds : q.row[kind] # None => orgas[q.row[kind]].version > 0
NoCycleAfter(q) ==
  ~putUsed /\ q.op = "move" => \A kind \in Kinds :
    /\ <<"parents", kind>> \in q.touches /\ Undisturbed("parents", kind)
    => \A S \in SUBSET Ids : Trap([orgas EXCEPT ![q.id] = q.row], kind, S) => q.id \notin S

Checked(q) == KennungFree(q) /\ NameFree(q) /\ ParentsFit(q) /\ ParentsCreated(q) /\ NoCycleAfter(q)

(* All parents have been created.                                           *)
TreeCreated ==
  ~putUsed => \A i \in Ids, kind \in Kinds : orgas[i][kind] # None => orgas[orgas[i][kind]].version > 0

(* The tree is sound and requests know what they have checked.              *)
TreeInv ==
  /\ Alone /\ SchulenSound /\ KlassenSound /\ TreeSound /\ TreeCreated
  /\ \A c \in Clients : Asked(req[c]) /\ Checked(req[c])

(* As long as the tree is as it is, so are the results of the checks.       *)
LEMMA CheckedStays ==
  ASSUME NEW q, Checked(q), orgas' = orgas, putUsed' = putUsed, disturbed \subseteq disturbed'
  PROVE  Checked(q)'
BY DEF Checked, KennungFree, NameFree, ParentsFit, ParentsCreated, NoCycleAfter, Undisturbed, Typ, ParentsAre, Trap

(* And so is the shape of the tree.                                         *)
LEMMA SoundStays ==
  ASSUME SchulenSound, KlassenSound, TreeSound, TreeCreated,
         orgas' = orgas, putUsed' = putUsed, disturbed \subseteq disturbed'
  PROVE  SchulenSound' /\ KlassenSound' /\ TreeSound' /\ TreeCreated'
<1>1. \A kind \in Kinds, i \in Ids : Ends(orgas, kind, i)' <=> Ends(orgas, kind, i)
  BY DEF Ends
<1>2. TreeSound'
  BY <1>1 DEF TreeSound, Undisturbed
<1> QED
  BY <1>2 DEF SchulenSound, KlassenSound, TreeCreated, Undisturbed, Typ, ParentsAre

(* Rows as they are read.                                                   *)
LEMMA RowsTyped ==
  ASSUME TreeTypeOK, NEW i \in Ids
  PROVE  /\ orgas[i] \in Rows \union NoRows
         /\ \A kind \in Kinds : orgas[i][kind] \in Ids \union {None}
         /\ orgas[i].version \in Nat
         /\ orgas[i].typ # "none" => orgas[i] \in Rows
BY DEF TreeTypeOK, Rows, NoRows, Kinds

(* The children are among those below.                                      *)
LEMMA ChildrenBelow ==
  ASSUME TreeTypeOK, NEW i \in Ids, NEW x \in Ids, IsThere(x), orgas[x].administriertVon = i,
         x # Root \/ i # Root
  PROVE  x \in Below(i)
<1>1. CASE i = Root
  <2>1. Below(i) = {y \in Ids \ {Root} : IsThere(y)}
    BY <1>1 DEF Below, FindChildOrgasForIds
  <2> QED
    BY <1>1, <2>1
<1>2. CASE i # Root
  <2>1. {i} \in SUBSET Ids /\ Root \notin {i}
    BY <1>2
  <2> QED
    BY <2>1, BelowIs DEF Below
<1> QED
  BY <1>1, <1>2

(* What the check of the name of a Klasse finds.                            *)
LEMMA NameChecked ==
  ASSUME TreeTypeOK, NEW o \in Rows, o.typ = "KLASSE", KlassenNameAnSchuleEindeutig(o),
         NEW j \in Ids \ {Root}, Typ(j) = "KLASSE", orgas[j].administriertVon = o.administriertVon
  PROVE  orgas[j].name # o.name
<1>1. o.administriertVon \in Ids
  BY DEF KlassenNameAnSchuleEindeutig, IsThere, Rows
<1>2. IsThere(j) /\ orgas[j].typ = "KLASSE"
  BY DEF IsThere, Typ
<1>3. j \in Below(o.administriertVon)
  BY <1>1, <1>2, ChildrenBelow
<1> QED
  BY <1>2, <1>3 DEF KlassenNameAnSchuleEindeutig

(* And that of a Kennung.                                                   *)
LEMMA KennungChecked ==
  ASSUME NEW o, o.typ = "SCHULE", SchuleKennungEindeutig(o), NEW j \in Ids, Typ(j) = "SCHULE"
  PROVE  orgas[j].kennung # o.kennung
BY DEF SchuleKennungEindeutig, IsThere, Typ

(* A request that begins has been checked.                                  *)
LEMMA TreeBegins ==
  ASSUME Typed, OrgaVersions, TreeInv, NEW c \in Clients,
         \/ CreateOrganisation(c) \/ PutOrganisation(c) \/ UpdateKlassenname(c)
         \/ SetEnabledForitslearning(c) \/ DeleteKlasse(c, Assigned)
         \/ \E kind \in Kinds : SetParent(c, kind)
  PROVE  \E q : Begin(c, q) /\ UNCHANGED treeVars /\ Asked(q) /\ Checked(q)
<1> DEFINE Goal == \E q : Begin(c, q) /\ UNCHANGED treeVars /\ Asked(q) /\ Checked(q)
<1>t. TreeTypeOK /\ Kinds = {"administriertVon", "zugehoerigZu"}
  BY DEF Typed, Kinds
<1>v. \A p \in Ids : IsThere(p) => orgas[p].version > 0 /\ orgas[p] \in Rows
  BY RowsTyped, <1>t DEF OrgaVersions, IsThere
<1>w. ASSUME NEW op, NEW i, NEW o, NEW v, NEW touches
      PROVE  LET q == Write(op, i, o, v, touches) IN
             /\ q.op = op /\ q.id = i /\ q.row = o /\ q.read = orgas[i].version /\ q.version = v
             /\ q.touches = touches /\ (v = orgas[i].version => q.seen = orgas[i])
  BY DEF Write
<1>1. ASSUME CreateOrganisation(c) PROVE Goal
  <2>1. PICK i \in NewIds, b \in NewOrgas :
          LET o == [b EXCEPT !.version = 1] IN
          /\ \A kind \in Kinds : IsThere(o[kind])
          /\ SchuleKennungEindeutig(o) /\ KlassenSpecifications(o)
          /\ Begin(c, Write("create", i, o, 0, Touches(i, o))) /\ UNCHANGED treeVars
    BY <1>1 DEF CreateOrganisation
  <2> DEFINE o == [b EXCEPT !.version = 1]
             q == Write("create", i, o, 0, Touches(i, o))
  <2>2. o \in Rows /\ i \in Ids
    BY DEF Rows
  <2>3. q.op = "create" /\ q.id = i /\ q.row = o /\ q.touches = Touches(i, o)
    BY <1>w
  <2> HIDE DEF o, q
  <2>4. /\ \A kind \in Kinds : IsThere(o[kind])
        /\ SchuleKennungEindeutig(o) /\ KlassenSpecifications(o)
        /\ Begin(c, q) /\ UNCHANGED treeVars
    BY <2>1 DEF o, q
  <2>5. Asked(q)
    BY <2>3 DEF Asked
  <2>6. KennungFree(q)
    BY <2>3, <2>4, KennungChecked DEF KennungFree
  <2>7. NameFree(q)
    BY <2>2, <2>3, <2>4, <1>t, NameChecked DEF NameFree, KlassenSpecifications
  <2>8. ParentsFit(q)
    BY <2>3, <2>4 DEF ParentsFit, KlassenSpecifications, KlasseNurVonSchuleAdministriert
  <2>9. ParentsCreated(q)
    <3>1. \A kind \in Kinds : o[kind] \in Ids \union {None}
      BY <2>2 DEF Kinds, Rows
    <3> QED
      BY <2>3, <2>4, <3>1, <1>v DEF ParentsCreated
  <2>10. NoCycleAfter(q)
    BY <2>3 DEF NoCycleAfter
  <2> QED
    BY <2>4, <2>5, <2>6, <2>7, <2>8, <2>9, <2>10 DEF Checked
<1>2. ASSUME PutOrganisation(c) PROVE Goal
  <2>1. PICK i \in Ids, b \in Bodies :
          LET o == [b EXCEPT !.version = orgas[i].version, !.itslearningEnabled = orgas[i].itslearningEnabled] IN
          /\ IsThere(i)
          /\ SchuleKennungEindeutig(o) /\ KlassenSpecifications(o)
          /\ Begin(c, Write("put", i, o, orgas[i].version, Touches(i, o) \union Touches(i, orgas[i])))
          /\ UNCHANGED treeVars
    BY <1>2 DEF PutOrganisation
  <2> DEFINE o == [b EXCEPT !.version = orgas[i].version, !.itslearningEnabled = orgas[i].itslearningEnabled]
             q == Write("put", i, o, orgas[i].version, Touches(i, o) \union Touches(i, orgas[i]))
  <2>2. o \in Rows
    <3>1. orgas[i] \in Rows
      BY <2>1, <1>v
    <3> QED
      BY <3>1 DEF Rows
  <2>3. q.op = "put" /\ q.id = i /\ q.row = o /\ Touches(i, o) \subseteq q.touches
    <3> HIDE DEF o
    <3> QED
      BY <1>w
  <2> HIDE DEF o, q
  <2>4. /\ SchuleKennungEindeutig(o) /\ KlassenSpecifications(o)
        /\ Begin(c, q) /\ UNCHANGED treeVars
    BY <2>1 DEF o, q
  <2>5. Asked(q)
    BY <2>3 DEF Asked
  <2>6. KennungFree(q)
    BY <2>3, <2>4, KennungChecked DEF KennungFree
  <2>7. NameFree(q)
    BY <2>2, <2>3, <2>4, <1>t, NameChecked DEF NameFree, KlassenSpecifications
  <2>8. ParentsFit(q) /\ ParentsCreated(q) /\ NoCycleAfter(q)
    BY <2>3 DEF ParentsFit, ParentsCreated, NoCycleAfter
  <2> QED
    BY <2>4, <2>5, <2>6, <2>7, <2>8 DEF Checked
<1>3. ASSUME UpdateKlassenname(c) PROVE Goal
  <2>1. PICK i, name, version :
          LET o == [orgas[i] EXCEPT !.name = name] IN
          /\ i \in Ids /\ name \in Names /\ Typ(i) = "KLASSE"
          /\ (name # orgas[i].name => KlassenNameAnSchuleEindeutig(o))
          /\ Begin(c, Write("rename", i, o, version, {<<"names", o.administriertVon>>, <<"group", i>>}))
          /\ UNCHANGED treeVars
    BY <1>3 DEF UpdateKlassenname
  <2>i. i \in Ids /\ name \in Names
    BY <2>1
  <2> DEFINE o == [orgas[i] EXCEPT !.name = name]
             q == Write("rename", i, o, version, {<<"names", o.administriertVon>>, <<"group", i>>})
  <2>2. orgas[i] \in Rows /\ orgas[i].typ = "KLASSE"
    BY <2>1, <1>v DEF Typ, IsThere
  <2>3. /\ o \in Rows /\ o.typ = "KLASSE" /\ o.kennung = orgas[i].kennung /\ o.name = name
        /\ o.administriertVon = orgas[i].administriertVon /\ o.zugehoerigZu = orgas[i].zugehoerigZu
    BY <2>2, <2>i DEF Rows
  <2>4. /\ q.op = "rename" /\ q.id = i /\ q.row = o /\ q.read = orgas[i].version /\ q.version = version
        /\ q.touches = {<<"names", o.administriertVon>>, <<"group", i>>}
        /\ (version = orgas[i].version => q.seen = orgas[i])
    <3> HIDE DEF o
    <3> QED
      BY <1>w
  <2> HIDE DEF o, q
  <2>5. /\ (name # orgas[i].name => KlassenNameAnSchuleEindeutig(o))
        /\ Begin(c, q) /\ UNCHANGED treeVars
    BY <2>1 DEF o, q
  <2>6. Asked(q)
    BY <2>2, <2>3, <2>4, <1>t DEF Asked
  <2>7. NameFree(q)
    <3>1. CASE name # orgas[i].name
      BY <2>3, <2>4, <2>5, <3>1, <1>t, NameChecked DEF NameFree
    <3>2. CASE name = orgas[i].name
      BY <2>1, <2>3, <2>4, <3>2 DEF NameFree, TreeInv, KlassenSound
    <3> QED
      BY <3>1, <3>2
  <2>8. KennungFree(q) /\ ParentsFit(q) /\ ParentsCreated(q) /\ NoCycleAfter(q)
    BY <2>4 DEF KennungFree, ParentsFit, ParentsCreated, NoCycleAfter
  <2> QED
    BY <2>5, <2>6, <2>7, <2>8 DEF Checked
<1>4. ASSUME SetEnabledForitslearning(c) PROVE Goal
  <2>1. PICK i, touches :
          /\ i \in Ids /\ Typ(i) = "SCHULE"
          /\ Begin(c, Write("enable", i, [orgas[i] EXCEPT !.itslearningEnabled = TRUE], orgas[i].version, touches))
          /\ UNCHANGED treeVars
    BY <1>4 DEF SetEnabledForitslearning
  <2> DEFINE o == [orgas[i] EXCEPT !.itslearningEnabled = TRUE]
             q == Write("enable", i, o, orgas[i].version, touches)
  <2>2. orgas[i] \in Rows /\ orgas[i].typ = "SCHULE"
    BY <2>1, <1>v DEF Typ, IsThere
  <2>3. /\ o.typ = "SCHULE" /\ o.kennung = orgas[i].kennung
        /\ o.administriertVon = orgas[i].administriertVon /\ o.zugehoerigZu = orgas[i].zugehoerigZu
    BY <2>2 DEF Rows
  <2>4. q.op = "enable" /\ q.id = i /\ q.row = o /\ q.seen = orgas[i]
    <3> HIDE DEF o
    <3> QED
      BY <1>w
  <2> HIDE DEF o, q
  <2>5. Begin(c, q) /\ UNCHANGED treeVars
    BY <2>1 DEF o, q
  <2>6. Asked(q)
    BY <2>2, <2>3, <2>4, <1>t DEF Asked
  <2>7. Checked(q)
    BY <2>4 DEF Checked, KennungFree, NameFree, ParentsFit, ParentsCreated, NoCycleAfter
  <2> QED
    BY <2>5, <2>6, <2>7
<1>5. ASSUME DeleteKlasse(c, Assigned) PROVE Goal
  <2>1. PICK i \in Ids :
          /\ Typ(i) = "KLASSE"
          /\ Begin(c, Write("delete", i, NoOrga, orgas[i].version, {<<"orga", i>>, <<"group", i>>}))
          /\ UNCHANGED treeVars
    BY <1>5 DEF DeleteKlasse
  <2> DEFINE q == Write("delete", i, NoOrga, orgas[i].version, {<<"orga", i>>, <<"group", i>>})
  <2>2. q.op = "delete" /\ q.id = i /\ q.touches = {<<"orga", i>>, <<"group", i>>}
    BY <1>w
  <2> HIDE DEF q
  <2>3. Begin(c, q) /\ UNCHANGED treeVars
    BY <2>1 DEF q
  <2>4. Asked(q) /\ Checked(q)
    <3>1. orgas[i].version > 0
      BY <2>1, <1>v DEF Typ, IsThere
    <3> QED
      BY <2>1, <2>2, <3>1 DEF Asked, Checked, KennungFree, NameFree, ParentsFit, ParentsCreated, NoCycleAfter
  <2> QED
    BY <2>3, <2>4
<1>6. ASSUME NEW kind \in Kinds, SetParent(c, kind) PROVE Goal
  <2>1. PICK i, parent, touches :
          LET o == [orgas[i] EXCEPT ![kind] = parent] IN
          /\ i \in Ids /\ parent \in Ids /\ IsThere(i) /\ IsThere(parent)
          /\ StructureSpecifications(i, o) /\ KlassenSpecifications(o)
          /\ touches = {<<"parents", kind>>} \union (Touches(i, o) \ {<<"kennung", o.kennung>>, <<"vidis", None>>})
          /\ Begin(c, Write("move", i, o, orgas[i].version, touches))
          /\ UNCHANGED treeVars
    BY <1>6 DEF SetParent
  <2>i. i \in Ids /\ parent \in Ids
    BY <2>1
  <2> DEFINE o == [orgas[i] EXCEPT ![kind] = parent]
             q == Write("move", i, o, orgas[i].version, touches)
  <2>2. orgas[i] \in Rows
    BY <2>1, <1>v
  <2>3. /\ o \in Rows /\ o.typ = orgas[i].typ /\ o.kennung = orgas[i].kennung
        /\ o[kind] = parent /\ \A other \in Kinds \ {kind} : o[other] = orgas[i][other]
    BY <2>2, <2>i, <1>t DEF Rows
  <2>4. /\ q.op = "move" /\ q.id = i /\ q.row = o /\ q.seen = orgas[i] /\ q.touches = touches
    <3> HIDE DEF o
    <3> QED
      BY <1>w
  <2> HIDE DEF o, q
  <2>5. /\ IsThere(i) /\ IsThere(parent)
        /\ StructureSpecifications(i, o) /\ KlassenSpecifications(o)
        /\ Begin(c, q) /\ UNCHANGED treeVars
    BY <2>1 DEF o, q
  <2>6. <<"parents", kind>> \in touches /\ (o.typ = "KLASSE" => <<"names", o.administriertVon>> \in touches)
    BY <2>1 DEF Touches, o
  <2>7. Asked(q)
    BY <2>3, <2>4, <2>6 DEF Asked
  <2>8. NameFree(q)
    BY <2>3, <2>4, <2>5, <1>t, NameChecked DEF NameFree, KlassenSpecifications
  <2>9. ParentsFit(q)
    BY <2>4, <2>5 DEF ParentsFit, KlassenSpecifications, KlasseNurVonSchuleAdministriert
  <2>10. ParentsCreated(q)
    BY <2>3, <2>4, <2>5, <2>i, <1>v DEF ParentsCreated, TreeInv, TreeCreated
  <2>11. NoCycleAfter(q)
    <3> DEFINE t == [orgas EXCEPT ![i] = o]
    <3>1. \A k \in Kinds : Ends(t, k, i)
      BY <2>5 DEF StructureSpecifications, ZyklusInOrganisationen
    <3>2. \A k \in Kinds, x \in Ids : t[x][k] \in Ids \union {None}
      <4>1. \A k \in Kinds : o[k] \in Ids \union {None}
        BY <2>3 DEF Kinds, Rows
      <4> QED
        BY <4>1, <1>t, RowsTyped DEF TreeTypeOK
    <3> HIDE DEF t
    <3>3. \A k \in Kinds : \A S \in SUBSET Ids : Trap(t, k, S) => i \notin S
      BY <3>1, <3>2, EndsUnlessTrapped
    <3> QED
      BY <2>4, <3>3 DEF NoCycleAfter, t
  <2>12. KennungFree(q)
    BY <2>4 DEF KennungFree
  <2> QED
    BY <2>5, <2>7, <2>8, <2>9, <2>10, <2>11, <2>12 DEF Checked
<1> QED
  BY <1>1, <1>2, <1>3, <1>4, <1>5, <1>6

(* A request writes its row: a new one, or over the row it has seen.        *)
Writes(c) ==
  LET q == req[c] IN
  /\ OnlyRequest(c) /\ req'[c] = Idle /\ disturbed \subseteq disturbed'
  /\ q.op \in OrgaOps \union {"create"} /\ q.id \in Ids /\ q.row \in Rows
  /\ \A j \in Ids \ {q.id} : orgas'[j] = orgas[j]
  /\ orgas'[q.id].typ = q.row.typ /\ orgas'[q.id].name = q.row.name /\ orgas'[q.id].kennung = q.row.kennung
  /\ \A kind \in Kinds : orgas'[q.id][kind] = q.row[kind]
  /\ orgas'[q.id].version > 0
  /\ q.op = "create" => orgas[q.id].version = 0
  /\ q.op # "create" => q.version = q.read /\ q.seen = orgas[q.id] /\ orgas[q.id].typ # "none"
  /\ putUsed' = (putUsed \/ q.op = "put")

(* A POST writes a new row.                                                 *)
LEMMA InsertWrites ==
  ASSUME Typed, OrgaVersions, NEW c \in Clients, Insert(c)
  PROVE  Writes(c)
<1>1. req[c].op = "create" /\ req[c].id \in Ids /\ req[c].row \in Rows
  BY DEF Insert, Typed, RequestsTyped, RequestTyped
<1>2. orgas[req[c].id].version = 0 /\ req[c].row.version = 1
  BY <1>1 DEF OrgaVersions
<1>3. OnlyRequest(c) /\ req'[c] = Idle /\ disturbed \subseteq disturbed'
  <2>1. disturbed \subseteq disturbed'
    BY DEF Insert, End
  <2> QED
    BY <2>1, EndStep DEF Insert, Typed
<1>4. orgas' = [orgas EXCEPT ![req[c].id] = req[c].row] /\ DOMAIN orgas = Ids
  BY DEF Insert, Typed, TreeTypeOK
<1>5. orgas'[req[c].id] = req[c].row /\ (\A j \in Ids \ {req[c].id} : orgas'[j] = orgas[j])
  BY <1>1, <1>4
<1>6. (\A kind \in Kinds : orgas'[req[c].id][kind] = req[c].row[kind]) /\ orgas'[req[c].id].version > 0
  BY <1>2, <1>5
<1>7. putUsed' = (putUsed \/ req[c].op = "put")
  <2>1. putUsed' = putUsed /\ putUsed \in BOOLEAN /\ req[c].op # "put"
    BY <1>1 DEF Insert, Typed, TreeTypeOK
  <2> QED
    BY <2>1
<1> QED
  BY <1>1, <1>2, <1>3, <1>5, <1>6, <1>7 DEF Writes

(* A save writes over the row that the request has seen.                    *)
LEMMA UpdateWrites ==
  ASSUME Typed, OrgaVersions, NEW c \in Clients, Update(c)
  PROVE  Writes(c)
<1>1. /\ req[c].op \in OrgaOps /\ req[c].id \in Ids /\ req[c].row \in Rows
      /\ req[c].read \in Nat /\ req[c].version = req[c].read
      /\ orgas[req[c].id].version = req[c].read /\ orgas[req[c].id].typ # "none"
  BY DEF Update, IsCurrent, IsThere, Typed, RequestsTyped, RequestTyped, OrgaOps
<1>2. req[c].seen = orgas[req[c].id]
  BY <1>1 DEF OrgaVersions
<1>3. OnlyRequest(c) /\ req'[c] = Idle /\ disturbed \subseteq disturbed'
  <2>1. disturbed \subseteq disturbed'
    BY DEF Update, End
  <2> QED
    BY <2>1, EndStep DEF Update, Typed
<1>4. orgas' = [orgas EXCEPT ![req[c].id] = [req[c].row EXCEPT !.version = req[c].read + 1]] /\ DOMAIN orgas = Ids
  BY DEF Update, NextVersion, Typed, TreeTypeOK
<1>5. (\A j \in Ids \ {req[c].id} : orgas'[j] = orgas[j]) /\ orgas'[req[c].id] = [req[c].row EXCEPT !.version = req[c].read + 1]
  BY <1>1, <1>4
<1>6. /\ orgas'[req[c].id].typ = req[c].row.typ
      /\ orgas'[req[c].id].name = req[c].row.name /\ orgas'[req[c].id].kennung = req[c].row.kennung
      /\ \A kind \in Kinds : orgas'[req[c].id][kind] = req[c].row[kind]
      /\ orgas'[req[c].id].version > 0
  BY <1>1, <1>5 DEF Rows, Kinds
<1>7. putUsed' = (putUsed \/ req[c].op = "put")
  BY DEF Update
<1> QED
  BY <1>1, <1>2, <1>3, <1>5, <1>6, <1>7 DEF Writes, OrgaOps

(* What is touched by two requests and remains undisturbed is touched by    *)
(* none of them.                                                            *)
LEMMA OneOfThem ==
  ASSUME Alone, NEW c \in Clients, NEW d \in Clients \ {c}, NEW kind, NEW x,
         <<kind, x>> \in req[c].touches, <<kind, x>> \in req[d].touches
  PROVE  ~Undisturbed(kind, x)
BY DEF Alone, Undisturbed

(* An organisation leaves a tree where nobody hangs below it.               *)
LEMMA TrapWithout ==
  ASSUME NEW t, NEW u, NEW kind, NEW k, NEW S, Trap(u, kind, S),
         \A x \in S \ {k} : u[x][kind] = t[x][kind] /\ (t[x][kind] \in Ids => t[x][kind] # k)
  PROVE  Trap(t, kind, S \ {k})
BY DEF Trap

(* Kennungen: a write is of one that was free, or that the Schule had.      *)
LEMMA WriteSchulen ==
  ASSUME Typed, TreeInv, NEW c \in Clients, Writes(c)
  PROVE  SchulenSound'
<1>q. PICK q : q = req[c]
  OBVIOUS
<1>1. \A j \in Ids \ {q.id} : orgas'[j] = orgas[j] /\ Typ(j)' = Typ(j)
  BY <1>q DEF Writes, Typ
<1>2. /\ q.id \in Ids /\ Typ(q.id)' = q.row.typ /\ orgas'[q.id].kennung = q.row.kennung
      /\ Asked(q) /\ Checked(q) /\ disturbed \subseteq disturbed'
  BY <1>q DEF Writes, Typ, TreeInv
<1>3. \/ q.op \in {"create", "put"}
      \/ q.row.typ = Typ(q.id) /\ q.row.kennung = orgas[q.id].kennung
  BY <1>q, <1>2 DEF Writes, Asked, OrgaOps, Typ
<1>4. ASSUME NEW j \in Ids \ {q.id}, Typ(j)' = "SCHULE", q.row.typ = "SCHULE", Undisturbed("kennung", q.row.kennung)'
      PROVE  orgas'[j].kennung # q.row.kennung
  <2>1. Typ(j) = "SCHULE" /\ orgas'[j] = orgas[j] /\ Undisturbed("kennung", q.row.kennung)
    BY <1>1, <1>2, <1>4 DEF Undisturbed
  <2>2. CASE q.op \in {"create", "put"}
    BY <1>2, <1>4, <2>1, <2>2 DEF Checked, KennungFree
  <2>3. CASE q.row.typ = Typ(q.id) /\ q.row.kennung = orgas[q.id].kennung
    BY <1>2, <1>4, <2>1, <2>3 DEF TreeInv, SchulenSound
  <2> QED
    BY <1>3, <2>2, <2>3
<1>5. SUFFICES ASSUME NEW i \in Ids, NEW j \in Ids, Typ(i)' = "SCHULE", Typ(j)' = "SCHULE", i # j,
                      Undisturbed("kennung", orgas[i].kennung)'
               PROVE  orgas'[i].kennung # orgas'[j].kennung
  BY DEF SchulenSound
<1>6. CASE i = q.id
  BY <1>2, <1>4, <1>5, <1>6
<1>7. CASE j = q.id
  <2>1. SUFFICES ASSUME orgas'[i].kennung = q.row.kennung PROVE FALSE
    BY <1>2, <1>7
  <2>2. Undisturbed("kennung", q.row.kennung)'
    BY <1>5, <2>1 DEF Undisturbed
  <2> QED
    BY <1>2, <1>4, <1>5, <1>7, <2>1, <2>2
<1>8. CASE i # q.id /\ j # q.id
  BY <1>1, <1>2, <1>5, <1>8 DEF TreeInv, SchulenSound, Undisturbed
<1> QED
  BY <1>6, <1>7, <1>8

(* And another request that has found a Kennung free has touched it.        *)
LEMMA WriteKennungFree ==
  ASSUME Typed, TreeInv, NEW c \in Clients, Writes(c), NEW d \in Clients \ {c}
  PROVE  KennungFree(req[d])'
<1>1. req'[d] = req[d]
  BY DEF Writes, OnlyRequest
<1>q. PICK p, q : p = req[d] /\ q = req[c]
  OBVIOUS
<1>2. /\ Asked(q) /\ Asked(p) /\ KennungFree(p) /\ disturbed \subseteq disturbed' /\ Alone
      /\ \A j \in Ids \ {q.id} : orgas'[j] = orgas[j] /\ Typ(j)' = Typ(j)
      /\ q.id \in Ids /\ Typ(q.id)' = q.row.typ /\ orgas'[q.id].kennung = q.row.kennung
  BY <1>q DEF Writes, Typ, TreeInv, Checked
<1>3. \/ q.op \in {"create", "put"} /\ <<"kennung", q.row.kennung>> \in q.touches
      \/ q.row.typ = Typ(q.id) /\ q.row.kennung = orgas[q.id].kennung
  BY <1>q, <1>2 DEF Writes, Asked, OrgaOps, Typ, Touches
<1>4. p.op \in {"create", "put"} => <<"kennung", p.row.kennung>> \in p.touches
  BY <1>2 DEF Asked, Touches
<1> SUFFICES ASSUME p.op \in {"create", "put"}, p.row.typ = "SCHULE", Undisturbed("kennung", p.row.kennung)',
                    NEW j \in Ids \ {p.id}, Typ(j)' = "SCHULE", orgas'[j].kennung = p.row.kennung
             PROVE  FALSE
  BY <1>q, <1>1 DEF KennungFree
<1>5. Undisturbed("kennung", p.row.kennung)
  BY <1>2 DEF Undisturbed
<1>6. CASE j # q.id
  BY <1>2, <1>5, <1>6 DEF KennungFree
<1>7. CASE j = q.id /\ q.row.typ = Typ(q.id) /\ q.row.kennung = orgas[q.id].kennung
  BY <1>2, <1>5, <1>7 DEF KennungFree
<1>8. CASE j = q.id /\ <<"kennung", q.row.kennung>> \in q.touches
  BY <1>2, <1>4, <1>5, <1>8, <1>q, OneOfThem
<1> QED
  BY <1>3, <1>6, <1>7, <1>8

(* Names of Klassen, alike.                                                 *)
LEMMA WriteNames ==
  ASSUME Typed, TreeInv, NEW c \in Clients, Writes(c),
         NEW i \in Ids \ {Root}, NEW j \in Ids \ {Root}, i # j, Typ(i)' = "KLASSE", Typ(j)' = "KLASSE",
         orgas'[j].administriertVon = orgas'[i].administriertVon,
         Undisturbed("names", orgas[i].administriertVon)'
  PROVE  orgas'[i].name # orgas'[j].name
<1>q. PICK q : q = req[c]
  OBVIOUS
<1>1. \A k \in Ids \ {q.id} : orgas'[k] = orgas[k] /\ Typ(k)' = Typ(k)
  BY <1>q DEF Writes, Typ
<1>2. /\ q.id \in Ids /\ Typ(q.id)' = q.row.typ /\ orgas'[q.id].name = q.row.name
      /\ orgas'[q.id].administriertVon = q.row.administriertVon
      /\ Asked(q) /\ NameFree(q) /\ disturbed \subseteq disturbed'
  BY <1>q DEF Writes, Typ, TreeInv, Checked, Kinds
<1>3. q.row.typ = "KLASSE" => q.op \in {"create", "put", "move", "rename"}
  BY <1>q, <1>2 DEF Writes, Asked, OrgaOps
<1>4. Undisturbed("names", orgas'[i].administriertVon)
  BY <1>2 DEF Undisturbed
<1>5. CASE i = q.id
  BY <1>1, <1>2, <1>3, <1>4, <1>5 DEF NameFree
<1>6. CASE j = q.id
  BY <1>1, <1>2, <1>3, <1>4, <1>6 DEF NameFree
<1>7. CASE i # q.id /\ j # q.id
  BY <1>1, <1>2, <1>4, <1>7 DEF TreeInv, KlassenSound
<1> QED
  BY <1>5, <1>6, <1>7

(* A name that is free for a request remains free for it.                   *)
LEMMA WriteNameFree ==
  ASSUME Typed, TreeInv, NEW c \in Clients, Writes(c), NEW d \in Clients \ {c}
  PROVE  NameFree(req[d])'
<1>1. req'[d] = req[d]
  BY DEF Writes, OnlyRequest
<1>q. PICK p, q : p = req[d] /\ q = req[c]
  OBVIOUS
<1>2. /\ Asked(q) /\ Asked(p) /\ NameFree(p) /\ disturbed \subseteq disturbed' /\ Alone
      /\ \A j \in Ids \ {q.id} : orgas'[j] = orgas[j] /\ Typ(j)' = Typ(j)
      /\ q.id \in Ids /\ Typ(q.id)' = q.row.typ /\ orgas'[q.id].name = q.row.name
      /\ orgas'[q.id].administriertVon = q.row.administriertVon
  BY <1>q DEF Writes, Typ, TreeInv, Checked, Kinds
<1>3. q.row.typ = "KLASSE" => <<"names", q.row.administriertVon>> \in q.touches
  BY <1>q, <1>2 DEF Writes, Asked, OrgaOps, Touches
<1>4. p.op \in {"create", "put", "move", "rename"} /\ p.row.typ = "KLASSE" => <<"names", p.row.administriertVon>> \in p.touches
  BY <1>2 DEF Asked, Touches
<1> SUFFICES ASSUME p.op \in {"create", "put", "move", "rename"}, p.row.typ = "KLASSE", p.id # Root,
                    Undisturbed("names", p.row.administriertVon)',
                    NEW j \in Ids \ {p.id, Root}, Typ(j)' = "KLASSE", orgas'[j].administriertVon = p.row.administriertVon,
                    orgas'[j].name = p.row.name
             PROVE  FALSE
  BY <1>q, <1>1 DEF NameFree
<1>5. Undisturbed("names", p.row.administriertVon)
  BY <1>2 DEF Undisturbed
<1>6. CASE j # q.id
  BY <1>2, <1>5, <1>6 DEF NameFree
<1>7. CASE j = q.id
  BY <1>2, <1>3, <1>4, <1>5, <1>7, <1>q, OneOfThem
<1> QED
  BY <1>6, <1>7

(* A write other than a PUT keeps the types of the organisations that are   *)
(* there, and their parents unless they are moved.                          *)
LEMMA WriteKeeps ==
  ASSUME Typed, TreeInv, NEW c \in Clients, Writes(c), ~putUsed'
  PROVE  \E q :
    /\ q = req[c] /\ ~putUsed /\ q.op \in {"create", "move", "rename", "enable"}
    /\ q.id \in Ids /\ \A kind \in Kinds : q.row[kind] \in Ids \union {None}
    /\ Asked(q) /\ Checked(q) /\ disturbed \subseteq disturbed'
    /\ \A j \in Ids \ {q.id} : orgas'[j] = orgas[j]
    /\ orgas'[q.id].typ = q.row.typ /\ orgas'[q.id].version > 0
    /\ \A kind \in Kinds : orgas'[q.id][kind] = q.row[kind]
    /\ q.op = "create" => orgas[q.id].version = 0
    /\ q.op # "create" => q.row.typ = orgas[q.id].typ
    /\ q.op \in {"rename", "enable"} => \A kind \in Kinds : q.row[kind] = orgas[q.id][kind]
    /\ q.op = "move" => \A kind \in Kinds : <<"parents", kind>> \in q.touches \/ q.row[kind] = orgas[q.id][kind]
<1>1. PICK q : q = req[c]
  OBVIOUS
<1>2. /\ ~putUsed /\ q.op \in {"create", "move", "rename", "enable"} /\ q.id \in Ids
      /\ Asked(q) /\ Checked(q) /\ disturbed \subseteq disturbed'
  <2>1. putUsed \in BOOLEAN /\ putUsed' = (putUsed \/ q.op = "put") /\ q.op \in OrgaOps \union {"create"}
    BY <1>1 DEF Typed, TreeTypeOK, Writes
  <2>2. ~putUsed /\ q.op \in {"create", "move", "rename", "enable"}
    BY <2>1 DEF OrgaOps
  <2> QED
    BY <1>1, <2>2 DEF TreeInv, Writes
<1>3. /\ \A j \in Ids \ {q.id} : orgas'[j] = orgas[j]
      /\ orgas'[q.id].typ = q.row.typ /\ orgas'[q.id].version > 0
      /\ \A kind \in Kinds : orgas'[q.id][kind] = q.row[kind]
      /\ q.op = "create" => orgas[q.id].version = 0
      /\ q.op # "create" => q.version = q.read /\ q.seen = orgas[q.id]
  BY <1>1 DEF Writes
<1>4. q.op # "create" => q.row.typ = orgas[q.id].typ
  BY <1>2, <1>3 DEF Asked
<1>5. q.op \in {"rename", "enable"} => \A kind \in Kinds : q.row[kind] = orgas[q.id][kind]
  BY <1>2, <1>3 DEF Asked
<1>6. ASSUME q.op = "move", NEW kind \in Kinds
      PROVE  <<"parents", kind>> \in q.touches \/ q.row[kind] = orgas[q.id][kind]
  <2>1. PICK moved \in Kinds : <<"parents", moved>> \in q.touches /\ \A other \in Kinds \ {moved} : q.row[other] = q.seen[other]
    BY <1>2, <1>6 DEF Asked
  <2> QED
    BY <1>3, <1>6, <2>1
<1>7. \A kind \in Kinds : q.row[kind] \in Ids \union {None}
  BY <1>1 DEF Writes, Rows, Kinds
<1> QED
  BY <1>1, <1>2, <1>3, <1>4, <1>5, <1>6, <1>7

(* So what was a Schule remains one, and what had been created remains.     *)
LEMMA WriteKeepsTypes ==
  ASSUME Typed, OrgaVersions, TreeInv, NEW c \in Clients, Writes(c), ~putUsed'
  PROVE  /\ \A j \in Ids : Typ(j) # "none" => Typ(j)' = Typ(j)
         /\ \A o : ParentsAre(o, {"SCHULE"}) /\ (\A kind \in Kinds : o[kind] \in Ids \union {None}) => ParentsAre(o, {"SCHULE"})'
         /\ \A j \in Ids : orgas[j].version > 0 => orgas'[j].version > 0
<1>1. PICK q :
    /\ q = req[c] /\ q.id \in Ids
    /\ \A j \in Ids \ {q.id} : orgas'[j] = orgas[j]
    /\ orgas'[q.id].typ = q.row.typ /\ orgas'[q.id].version > 0
    /\ q.op = "create" => orgas[q.id].version = 0
    /\ q.op # "create" => q.row.typ = orgas[q.id].typ
  BY WriteKeeps
<1>2. \A j \in Ids : Typ(j) = orgas[j].typ /\ Typ(j)' = orgas'[j].typ
  BY DEF Typ
<1>3. \A j \in Ids : Typ(j) # "none" => Typ(j)' = Typ(j)
  BY <1>1, <1>2 DEF OrgaVersions
<1>4. ASSUME NEW o, ParentsAre(o, {"SCHULE"}), \A kind \in Kinds : o[kind] \in Ids \union {None} PROVE ParentsAre(o, {"SCHULE"})'
  <2>1. \A kind \in Kinds : Typ(o[kind]) = "SCHULE" /\ o[kind] \in Ids
    BY <1>4 DEF ParentsAre, Typ
  <2>2. \A kind \in Kinds : Typ(o[kind])' = "SCHULE"
    BY <1>3, <2>1
  <2> QED
    BY <2>2 DEF ParentsAre
<1>5. \A j \in Ids : orgas[j].version > 0 => orgas'[j].version > 0
  BY <1>1
<1> QED
  BY <1>3, <1>4, <1>5

(* After a write Klassen have distinct names and hang below Schulen.        *)
LEMMA WriteKlassen ==
  ASSUME Typed, OrgaVersions, TreeInv, NEW c \in Clients, Writes(c)
  PROVE  KlassenSound'
<1>1. ASSUME NEW i \in Ids \ {Root}, Typ(i)' = "KLASSE", ~putUsed'
      PROVE  ParentsAre(orgas[i], {"SCHULE"})'
  <2>1. PICK q :
      /\ ~putUsed /\ q.op \in {"create", "move", "rename", "enable"}
      /\ q.id \in Ids /\ \A kind \in Kinds : q.row[kind] \in Ids \union {None}
      /\ Asked(q) /\ Checked(q)
      /\ \A j \in Ids \ {q.id} : orgas'[j] = orgas[j]
      /\ orgas'[q.id].typ = q.row.typ
      /\ \A kind \in Kinds : orgas'[q.id][kind] = q.row[kind]
      /\ q.op # "create" => q.row.typ = orgas[q.id].typ
      /\ q.op \in {"rename", "enable"} => \A kind \in Kinds : q.row[kind] = orgas[q.id][kind]
    BY <1>1, WriteKeeps
  <2>2. Typ(i)' = orgas'[i].typ /\ Typ(i) = orgas[i].typ
    BY DEF Typ
  <2>3. PICK o : \A kind \in Kinds : o[kind] = orgas'[i][kind]
    OBVIOUS
  <2>4. ParentsAre(o, {"SCHULE"})
    <3>1. CASE i = q.id /\ q.op \in {"create", "move"}
      <4>1. ParentsAre(q.row, {"SCHULE"})
        BY <1>1, <2>1, <2>2, <3>1 DEF Checked, ParentsFit
      <4> QED
        BY <2>1, <2>3, <3>1, <4>1 DEF ParentsAre
    <3>2. CASE i # q.id \/ q.op \in {"rename", "enable"}
      <4>1. Typ(i) = "KLASSE" /\ \A kind \in Kinds : orgas'[i][kind] = orgas[i][kind]
        BY <1>1, <2>1, <2>2, <3>2
      <4>2. ParentsAre(orgas[i], {"SCHULE"})
        BY <2>1, <4>1 DEF TreeInv, KlassenSound
      <4> QED
        BY <2>3, <4>1, <4>2 DEF ParentsAre
    <3> QED
      BY <2>1, <3>1, <3>2
  <2>5. \A kind \in Kinds : o[kind] \in Ids \union {None}
    BY <2>1, <2>3, RowsTyped DEF Typed
  <2>6. ParentsAre(o, {"SCHULE"})'
    BY <1>1, <2>4, <2>5, WriteKeepsTypes
  <2> QED
    BY <2>3, <2>6 DEF ParentsAre
<1>2. SUFFICES ASSUME NEW i \in Ids \ {Root}, NEW j \in Ids \ {Root}, Typ(i)' = "KLASSE", Typ(j)' = "KLASSE"
               PROVE  /\ /\ i # j /\ orgas'[j].administriertVon = orgas'[i].administriertVon
                         /\ Undisturbed("names", orgas[i].administriertVon)'
                         => orgas'[i].name # orgas'[j].name
                      /\ ~putUsed' => ParentsAre(orgas[i], {"SCHULE"})'
  BY DEF KlassenSound
<1> QED
  BY <1>1, <1>2, WriteNames

(* The parents that a request has checked remain Schulen.                   *)
LEMMA WriteParentsFit ==
  ASSUME Typed, OrgaVersions, TreeInv, NEW c \in Clients, Writes(c), NEW d \in Clients \ {c}
  PROVE  ParentsFit(req[d])'
<1>1. req'[d] = req[d]
  BY DEF Writes, OnlyRequest
<1>2. PICK p : p = req[d]
  OBVIOUS
<1> SUFFICES ASSUME ~putUsed'
             PROVE  /\ p.op \in {"create", "move"} /\ p.row.typ = "KLASSE" => ParentsAre(p.row, {"SCHULE"})'
                    /\ p.op = "delete" => Typ(p.id)' \in {"KLASSE", "none"} /\ orgas'[p.id].version > 0
  BY <1>1, <1>2 DEF ParentsFit
<1>3. ParentsFit(p) /\ RequestTyped(p)
  BY <1>2 DEF TreeInv, Checked, Typed, RequestsTyped
<1>4. PICK q :
    /\ ~putUsed /\ q.id \in Ids
    /\ \A j \in Ids \ {q.id} : orgas'[j] = orgas[j]
    /\ orgas'[q.id].typ = q.row.typ /\ orgas'[q.id].version > 0
    /\ q.op = "create" => orgas[q.id].version = 0
    /\ q.op # "create" => q.row.typ = orgas[q.id].typ
  BY WriteKeeps
<1>5. ASSUME p.op \in {"create", "move"}, p.row.typ = "KLASSE" PROVE ParentsAre(p.row, {"SCHULE"})'
  <2>1. ParentsAre(p.row, {"SCHULE"}) /\ \A kind \in Kinds : p.row[kind] \in Ids \union {None}
    BY <1>3, <1>4, <1>5 DEF ParentsFit, RequestTyped, OrgaOps, Rows, Kinds
  <2> QED
    BY <2>1, WriteKeepsTypes
<1>6. ASSUME p.op = "delete" PROVE Typ(p.id)' \in {"KLASSE", "none"} /\ orgas'[p.id].version > 0
  <2>1. p.id \in Ids /\ Typ(p.id) \in {"KLASSE", "none"} /\ orgas[p.id].version > 0
    BY <1>3, <1>4, <1>6 DEF ParentsFit, RequestTyped
  <2>2. Typ(p.id) = orgas[p.id].typ /\ Typ(p.id)' = orgas'[p.id].typ
    BY <2>1 DEF Typ
  <2> QED
    BY <1>4, <2>1, <2>2
<1> QED
  BY <1>5, <1>6

(* After a write parents have been created, and so have those that are      *)
(* checked.                                                                 *)
LEMMA WriteCreated ==
  ASSUME Typed, OrgaVersions, TreeInv, NEW c \in Clients, Writes(c)
  PROVE  TreeCreated' /\ \A d \in Clients \ {c} : ParentsCreated(req[d])'
<1>1. CASE putUsed'
  BY <1>1 DEF TreeCreated, ParentsCreated
<1>2. CASE ~putUsed'
  <2>1. PICK q :
      /\ q = req[c] /\ ~putUsed /\ q.op \in {"create", "move", "rename", "enable"}
      /\ q.id \in Ids /\ \A kind \in Kinds : q.row[kind] \in Ids \union {None}
      /\ Checked(q)
      /\ \A j \in Ids \ {q.id} : orgas'[j] = orgas[j]
      /\ orgas'[q.id].typ = q.row.typ /\ orgas'[q.id].version > 0
      /\ \A kind \in Kinds : orgas'[q.id][kind] = q.row[kind]
      /\ q.op \in {"rename", "enable"} => \A kind \in Kinds : q.row[kind] = orgas[q.id][kind]
    BY <1>2, WriteKeeps
  <2>2. \A j \in Ids : orgas[j].version > 0 => orgas'[j].version > 0
    BY <1>2, WriteKeepsTypes
  <2>3. ASSUME NEW d \in Clients \ {c} PROVE ParentsCreated(req[d])'
    <3>1. PICK p : p = req[d] /\ p = req'[d]
      BY DEF Writes, OnlyRequest
    <3>2. p.op \in {"create", "move"} => \A kind \in Kinds : p.row[kind] \in Ids \union {None}
      BY <3>1 DEF Typed, RequestsTyped, RequestTyped, OrgaOps, Rows, Kinds
    <3>3. p.op \in {"create", "move"} => \A kind \in Kinds : p.row[kind] # None => orgas[p.row[kind]].version > 0
      <4>1. ParentsCreated(p)
        BY <3>1 DEF TreeInv, Checked
      <4> QED
        BY <2>1, <4>1 DEF ParentsCreated
    <3> QED
      BY <2>2, <3>1, <3>2, <3>3 DEF ParentsCreated
  <2>4. ASSUME NEW i \in Ids, NEW kind \in Kinds, orgas'[i][kind] # None PROVE orgas'[orgas'[i][kind]].version > 0
    <3>1. CASE i = q.id /\ q.op \in {"create", "move"}
      <4>1. orgas[q.row[kind]].version > 0
        BY <2>1, <2>4, <3>1 DEF Checked, ParentsCreated
      <4> QED
        BY <2>1, <2>2, <2>4, <3>1, <4>1
    <3>2. CASE i # q.id \/ q.op \in {"rename", "enable"}
      <4>1. orgas'[i][kind] = orgas[i][kind]
        BY <2>1, <3>2
      <4>2. orgas[i][kind] \in Ids \union {None}
        BY RowsTyped DEF Typed
      <4>3. orgas[orgas[i][kind]].version > 0
        BY <2>1, <2>4, <4>1 DEF TreeInv, TreeCreated
      <4> QED
        BY <2>2, <2>4, <4>1, <4>2, <4>3
    <3> QED
      BY <2>1, <3>1, <3>2
  <2> QED
    BY <2>3, <2>4 DEF TreeCreated
<1> QED
  BY <1>1, <1>2

(* In a sound tree there are no traps, and the other way round.             *)
LEMMA TreeTraps ==
  ASSUME TreeTypeOK, NEW kind \in Kinds
  PROVE  (\A i \in Ids : Ends(orgas, kind, i)) <=> \A S \in SUBSET Ids : Trap(orgas, kind, S) => S = {}
<1>1. \A x \in Ids : orgas[x][kind] \in Ids \union {None}
  BY RowsTyped
<1>2. \A i \in Ids : Ends(orgas, kind, i) <=> \A S \in SUBSET Ids : Trap(orgas, kind, S) => i \notin S
  BY <1>1, EndsUnlessTrapped
<1> QED
  BY <1>2

(* What does not move the tree leaves it without cycles; a new organisation *)
(* has nobody below it.                                                     *)
LEMMA WriteTree ==
  ASSUME Typed, Typed', OrgaVersions, TreeInv, NEW c \in Clients, Writes(c)
  PROVE  TreeSound'
<1> SUFFICES ASSUME ~putUsed', NEW kind \in Kinds, Undisturbed("parents", kind)'
             PROVE  \A i \in Ids : Ends(orgas, kind, i)'
  BY DEF TreeSound
<1>1. PICK q :
      /\ q = req[c] /\ ~putUsed /\ q.op \in {"create", "move", "rename", "enable"} /\ q.id \in Ids
      /\ Checked(q) /\ disturbed \subseteq disturbed'
      /\ \A j \in Ids \ {q.id} : orgas'[j] = orgas[j]
      /\ orgas'[q.id][kind] = q.row[kind]
      /\ q.op = "create" => orgas[q.id].version = 0
      /\ q.op \in {"rename", "enable"} => q.row[kind] = orgas[q.id][kind]
      /\ q.op = "move" => <<"parents", kind>> \in q.touches \/ q.row[kind] = orgas[q.id][kind]
  BY WriteKeeps
<1>2. Undisturbed("parents", kind)
  BY <1>1 DEF Undisturbed
<1>3. \A S \in SUBSET Ids : Trap(orgas, kind, S) => S = {}
  <2>1. \A i \in Ids : Ends(orgas, kind, i)
    BY <1>1, <1>2 DEF TreeInv, TreeSound
  <2> QED
    BY <2>1, TreeTraps DEF Typed
<1>t. DOMAIN orgas = Ids
  BY DEF Typed, TreeTypeOK
<1>4. ASSUME NEW S \in SUBSET Ids, Trap(orgas', kind, S) PROVE S = {}
  <2>1. CASE q.op = "create"
    <3>1. \A x \in Ids : orgas[x][kind] \in Ids => orgas[x][kind] # q.id
      BY <1>1, <2>1, RowsTyped DEF TreeInv, TreeCreated, Typed
    <3>2. Trap(orgas, kind, S \ {q.id})
      BY <1>1, <1>4, <3>1, TrapWithout
    <3>3. S \ {q.id} = {}
      BY <1>3, <3>2
    <3>4. q.row[kind] # q.id
      BY <1>1, <2>1 DEF Checked, ParentsCreated
    <3>5. q.id \notin S
      BY <1>1, <1>4, <3>3, <3>4 DEF Trap
    <3> QED
      BY <3>3, <3>5
  <2>2. CASE q.op = "move" /\ <<"parents", kind>> \in q.touches
    <3>1. Trap([orgas EXCEPT ![q.id] = q.row], kind, S)
      BY <1>1, <1>4, <1>t DEF Trap
    <3>2. q.id \notin S
      BY <1>1, <1>2, <2>2, <3>1 DEF Checked, NoCycleAfter
    <3>3. Trap(orgas, kind, S)
      BY <1>1, <1>4, <3>2 DEF Trap
    <3> QED
      BY <1>3, <3>3
  <2>3. CASE q.row[kind] = orgas[q.id][kind]
    <3>1. Trap(orgas, kind, S)
      BY <1>1, <1>4, <2>3 DEF Trap
    <3> QED
      BY <1>3, <3>1
  <2> QED
    BY <1>1, <2>1, <2>2, <2>3
<1>5. (\A S \in SUBSET Ids : Trap(orgas', kind, S) => S = {}) => \A i \in Ids : Ends(orgas, kind, i)'
  <2>1. \A x \in Ids : orgas'[x][kind] \in Ids \union {None}
    BY DEF Typed, TreeTypeOK, Rows, NoRows, Kinds
  <2>2. \A i \in Ids : Ends(orgas', kind, i) <=> \A S \in SUBSET Ids : Trap(orgas', kind, S) => i \notin S
    BY <2>1, EndsUnlessTrapped
  <2>3. \A i \in Ids : Ends(orgas, kind, i)' <=> Ends(orgas', kind, i)
    BY DEF Ends
  <2> QED
    BY <2>2, <2>3
<1> QED
  BY <1>4, <1>5

(* And a request about to move an organisation closes none.                 *)
LEMMA WriteNoCycleAfter ==
  ASSUME Typed, Typed', OrgaVersions, TreeInv, NEW c \in Clients, Writes(c), NEW d \in Clients \ {c}
  PROVE  NoCycleAfter(req[d])'
<1>p. PICK p : p = req[d] /\ p = req'[d]
  BY DEF Writes, OnlyRequest
<1> SUFFICES ASSUME ~putUsed', p.op = "move", NEW kind \in Kinds,
                    <<"parents", kind>> \in p.touches, Undisturbed("parents", kind)',
                    NEW S \in SUBSET Ids, Trap([orgas' EXCEPT ![p.id] = p.row], kind, S)
             PROVE  p.id \notin S
  BY <1>p DEF NoCycleAfter, Trap
<1>1. PICK q :
      /\ q = req[c] /\ ~putUsed /\ q.op \in {"create", "move", "rename", "enable"} /\ q.id \in Ids
      /\ Checked(q) /\ disturbed \subseteq disturbed'
      /\ \A j \in Ids \ {q.id} : orgas'[j] = orgas[j]
      /\ orgas'[q.id][kind] = q.row[kind]
      /\ q.op = "create" => orgas[q.id].version = 0
      /\ q.op \in {"rename", "enable"} => q.row[kind] = orgas[q.id][kind]
      /\ q.op = "move" => <<"parents", kind>> \in q.touches \/ q.row[kind] = orgas[q.id][kind]
  BY WriteKeeps
<1>2. Undisturbed("parents", kind) /\ ParentsCreated(p) /\ NoCycleAfter(p) /\ Alone
  BY <1>p, <1>1 DEF Undisturbed, TreeInv, Checked
<1>t. DOMAIN orgas = Ids /\ DOMAIN orgas' = Ids
  BY DEF Typed, TreeTypeOK
<1>i. p.id \in Ids
  BY <1>p DEF Typed, RequestsTyped, RequestTyped, OrgaOps
<1>3. \A T \in SUBSET Ids : Trap([orgas EXCEPT ![p.id] = p.row], kind, T) => p.id \notin T
  BY <1>1, <1>2 DEF NoCycleAfter
<1>4. PICK t : t = [orgas EXCEPT ![p.id] = p.row]
  OBVIOUS
<1>5. PICK u : u = [orgas' EXCEPT ![p.id] = p.row]
  OBVIOUS
<1>u. t[p.id] = p.row /\ u[p.id] = p.row /\ \A x \in Ids \ {p.id} : t[x] = orgas[x] /\ u[x] = orgas'[x]
  BY <1>t, <1>i, <1>4, <1>5
<1>6. Trap(u, kind, S) /\ \A T \in SUBSET Ids : Trap(t, kind, T) => p.id \notin T
  BY <1>3, <1>4, <1>5
<1>7. CASE q.op = "create" /\ p.id # q.id
  <2>1. \A x \in Ids : orgas[x][kind] \in Ids => orgas[x][kind] # q.id
    BY <1>1, <1>7, RowsTyped DEF TreeInv, TreeCreated, Typed
  <2>2. p.row[kind] \in Ids => p.row[kind] # q.id
    BY <1>1, <1>2, <1>7 DEF ParentsCreated
  <2>3. \A x \in S \ {q.id} : u[x][kind] = t[x][kind] /\ (t[x][kind] \in Ids => t[x][kind] # q.id)
    BY <1>1, <1>u, <2>1, <2>2
  <2>4. Trap(t, kind, S \ {q.id})
    BY <1>6, <2>3, TrapWithout
  <2> QED
    BY <1>6, <1>7, <2>4
<1>8. CASE q.op # "create" \/ p.id = q.id
  <2>1. q.row[kind] = orgas[q.id][kind] \/ p.id = q.id
    BY <1>1, <1>2, <1>8, <1>p, OneOfThem
  <2>2. \A x \in Ids : u[x][kind] = t[x][kind]
    BY <1>1, <1>u, <2>1
  <2>3. Trap(t, kind, S)
    BY <1>6, <2>2 DEF Trap
  <2> QED
    BY <1>6, <2>3
<1> QED
  BY <1>7, <1>8

(* What a Klasse that goes leaves behind.                                   *)
LEMMA Removes ==
  ASSUME Typed, TreeInv, NEW c \in Clients, Remove(c, Mapped), orgas' # orgas
  PROVE  \E i \in Ids :
    /\ OnlyRequest(c) /\ req'[c] = Idle /\ disturbed \subseteq disturbed' /\ putUsed' = putUsed
    /\ \A j \in Ids \ {i} : orgas'[j] = orgas[j]
    /\ orgas'[i].typ = "none" /\ (\A kind \in Kinds : orgas'[i][kind] = None)
    /\ orgas'[i].version = orgas[i].version
    /\ ~putUsed => Typ(i) # "SCHULE"
<1>1. PICK i : i = req[c].id
  OBVIOUS
<1>2. req[c].op = "delete" /\ i \in Ids
  BY <1>1 DEF Remove, Typed, RequestsTyped, RequestTyped
<1>3. orgas' = [orgas EXCEPT ![i] = [NoOrga EXCEPT !.version = orgas[i].version]]
  BY <1>1 DEF Remove
<1>4. DOMAIN orgas = Ids
  BY DEF Typed, TreeTypeOK
<1>5. orgas'[i] = [NoOrga EXCEPT !.version = orgas[i].version] /\ \A j \in Ids \ {i} : orgas'[j] = orgas[j]
  BY <1>2, <1>3, <1>4
<1>6. /\ orgas'[i].typ = "none" /\ (\A kind \in Kinds : orgas'[i][kind] = None)
      /\ orgas'[i].version = orgas[i].version
  BY <1>5 DEF NoOrga, Kinds
<1>7. OnlyRequest(c) /\ req'[c] = Idle /\ disturbed \subseteq disturbed' /\ putUsed' = putUsed
  <2>1. disturbed \subseteq disturbed' /\ putUsed' = putUsed
    BY DEF Remove, End
  <2>2. \E seen, started, untold : End(c, seen, started, untold)
    BY DEF Remove
  <2> QED
    BY <2>1, <2>2, EndStep
<1>8. ~putUsed => Typ(i) # "SCHULE"
  BY <1>1, <1>2 DEF TreeInv, Checked, ParentsFit
<1> QED
  BY <1>2, <1>5, <1>6, <1>7, <1>8

(* A Klasse that goes leaves a sound tree behind: nothing hangs below it.   *)
LEMMA RemoveSound ==
  ASSUME Typed, Typed', TreeInv, NEW c \in Clients, Remove(c, Mapped), orgas' # orgas
  PROVE  SchulenSound' /\ KlassenSound' /\ TreeSound' /\ TreeCreated'
<1>1. PICK i \in Ids :
    /\ disturbed \subseteq disturbed' /\ putUsed' = putUsed
    /\ \A j \in Ids \ {i} : orgas'[j] = orgas[j]
    /\ orgas'[i].typ = "none" /\ (\A kind \in Kinds : orgas'[i][kind] = None)
    /\ orgas'[i].version = orgas[i].version
    /\ ~putUsed => Typ(i) # "SCHULE"
  BY Removes
<1>2. \A j \in Ids : Typ(j) = orgas[j].typ /\ Typ(j)' = orgas'[j].typ
  BY DEF Typ
<1>3. ASSUME NEW j \in Ids, Typ(j)' # "none" PROVE j # i /\ orgas'[j] = orgas[j] /\ Typ(j) = Typ(j)'
  BY <1>1, <1>2, <1>3
<1>4. SchulenSound'
  BY <1>1, <1>3 DEF TreeInv, SchulenSound, Undisturbed
<1>5. KlassenSound'
  <2>1. ASSUME NEW x \in Ids \ {Root}, Typ(x)' = "KLASSE", ~putUsed' PROVE ParentsAre(orgas[x], {"SCHULE"})'
    <3>1. ParentsAre(orgas[x], {"SCHULE"}) /\ orgas'[x] = orgas[x]
      BY <1>1, <1>3, <2>1 DEF TreeInv, KlassenSound
    <3>2. \A j \in Ids \ {i} : Typ(j)' = Typ(j)
      BY <1>1, <1>2
    <3>3. ASSUME NEW kind \in Kinds PROVE Typ(orgas[x][kind])' = "SCHULE"
      <4>1. PICK j : j = orgas[x][kind] /\ j = orgas'[x][kind]
        BY <3>1
      <4>2. Typ(j) = "SCHULE" /\ j \in Ids
        BY <3>1, <4>1, RowsTyped DEF ParentsAre, Typ, Typed
      <4>3. Typ(j)' = "SCHULE"
        BY <1>1, <2>1, <3>2, <4>2
      <4> QED
        BY <4>1, <4>3 DEF Typ
    <3> QED
      BY <3>3 DEF ParentsAre
  <2>2. SUFFICES ASSUME NEW x \in Ids \ {Root}, NEW y \in Ids \ {Root}, Typ(x)' = "KLASSE", Typ(y)' = "KLASSE"
                 PROVE  /\ /\ x # y /\ orgas'[y].administriertVon = orgas'[x].administriertVon
                           /\ Undisturbed("names", orgas[x].administriertVon)'
                           => orgas'[x].name # orgas'[y].name
                        /\ ~putUsed' => ParentsAre(orgas[x], {"SCHULE"})'
    BY DEF KlassenSound
  <2>3. orgas'[x] = orgas[x] /\ orgas'[y] = orgas[y] /\ Typ(x) = "KLASSE" /\ Typ(y) = "KLASSE"
    BY <1>3, <2>2
  <2>4. /\ x # y /\ orgas'[y].administriertVon = orgas'[x].administriertVon
        /\ Undisturbed("names", orgas[x].administriertVon)'
        => orgas'[x].name # orgas'[y].name
    BY <1>1, <2>3 DEF TreeInv, KlassenSound, Undisturbed
  <2> QED
    BY <2>1, <2>2, <2>4
<1>6. TreeSound'
  <2> SUFFICES ASSUME ~putUsed', NEW kind \in Kinds, Undisturbed("parents", kind)'
               PROVE  \A x \in Ids : Ends(orgas, kind, x)'
    BY DEF TreeSound
  <2>1. \A S \in SUBSET Ids : Trap(orgas, kind, S) => S = {}
    <3>1. \A x \in Ids : Ends(orgas, kind, x)
      BY <1>1 DEF TreeInv, TreeSound, Undisturbed
    <3> QED
      BY <3>1, TreeTraps DEF Typed
  <2>2. ASSUME NEW S \in SUBSET Ids, Trap(orgas', kind, S) PROVE S = {}
    <3>1. i \notin S
      BY <1>1, <2>2 DEF Trap
    <3>2. Trap(orgas, kind, S)
      BY <1>1, <2>2, <3>1 DEF Trap
    <3> QED
      BY <2>1, <3>2
  <2>3. \A x \in Ids : orgas'[x][kind] \in Ids \union {None}
    BY DEF Typed, TreeTypeOK, Rows, NoRows, Kinds
  <2>4. \A x \in Ids : Ends(orgas', kind, x) <=> \A S \in SUBSET Ids : Trap(orgas', kind, S) => x \notin S
    BY <2>3, EndsUnlessTrapped
  <2>5. \A x \in Ids : Ends(orgas, kind, x)' <=> Ends(orgas', kind, x)
    BY DEF Ends
  <2> QED
    BY <2>2, <2>4, <2>5
<1>7. TreeCreated'
  <2>1. \A x \in Ids, kind \in Kinds : orgas'[x][kind] # None => orgas'[x][kind] = orgas[x][kind]
    BY <1>1
  <2>2. \A x \in Ids : orgas'[x].version = orgas[x].version
    BY <1>1
  <2>3. \A x \in Ids, kind \in Kinds : orgas[x][kind] \in Ids \union {None}
    BY RowsTyped DEF Typed
  <2> QED
    BY <1>1, <2>1, <2>2, <2>3 DEF TreeInv, TreeCreated
<1> QED
  BY <1>4, <1>5, <1>6, <1>7

(* What other requests have checked survives a Klasse that goes.            *)
LEMMA RemoveChecked ==
  ASSUME Typed, Typed', TreeInv, NEW c \in Clients, Remove(c, Mapped), orgas' # orgas, NEW d \in Clients \ {c}
  PROVE  Checked(req[d])'
<1>1. PICK i \in Ids :
    /\ OnlyRequest(c) /\ disturbed \subseteq disturbed' /\ putUsed' = putUsed
    /\ \A j \in Ids \ {i} : orgas'[j] = orgas[j]
    /\ orgas'[i].typ = "none" /\ (\A kind \in Kinds : orgas'[i][kind] = None)
    /\ orgas'[i].version = orgas[i].version
    /\ ~putUsed => Typ(i) # "SCHULE"
  BY Removes
<1>p. PICK p : p = req[d] /\ p = req'[d]
  BY <1>1 DEF OnlyRequest
<1>2. \A j \in Ids : Typ(j) = orgas[j].typ /\ Typ(j)' = orgas'[j].typ
  BY DEF Typ
<1>3. \A j \in Ids : Typ(j)' # "none" => j # i /\ orgas'[j] = orgas[j] /\ Typ(j) = Typ(j)'
  BY <1>1, <1>2
<1>c. KennungFree(p) /\ NameFree(p) /\ ParentsFit(p) /\ ParentsCreated(p) /\ NoCycleAfter(p) /\ RequestTyped(p)
  BY <1>p DEF TreeInv, Checked, Typed, RequestsTyped
<1>r. p.op \in {"create", "move"} => p.id \in Ids /\ \A kind \in Kinds : p.row[kind] \in Ids \union {None}
  BY <1>c DEF RequestTyped, OrgaOps, Rows, Kinds
<1>4. KennungFree(p)'
  BY <1>1, <1>3, <1>c DEF KennungFree, Undisturbed
<1>5. NameFree(p)'
  BY <1>1, <1>3, <1>c DEF NameFree, Undisturbed
<1>6. ParentsFit(p)'
  <2>1. ASSUME ~putUsed', p.op \in {"create", "move"}, p.row.typ = "KLASSE" PROVE ParentsAre(p.row, {"SCHULE"})'
    <3>1. \A kind \in Kinds : Typ(p.row[kind]) = "SCHULE"
      BY <1>1, <1>c, <2>1 DEF ParentsFit, ParentsAre
    <3>2. \A kind \in Kinds : p.row[kind] \in Ids \ {i}
      BY <1>1, <1>r, <2>1, <3>1 DEF Typ
    <3>3. \A j \in Ids \ {i} : Typ(j)' = Typ(j)
      BY <1>1, <1>2
    <3> QED
      BY <3>1, <3>2, <3>3 DEF ParentsAre
  <2>2. ASSUME ~putUsed', p.op = "delete" PROVE Typ(p.id)' \in {"KLASSE", "none"} /\ orgas'[p.id].version > 0
    <3>1. p.id \in Ids /\ Typ(p.id) \in {"KLASSE", "none"} /\ orgas[p.id].version > 0
      BY <1>1, <1>c, <2>2 DEF ParentsFit, RequestTyped
    <3> QED
      BY <1>1, <1>2, <3>1
  <2> QED
    BY <2>1, <2>2 DEF ParentsFit
<1>7. ParentsCreated(p)'
  <2>1. \A j \in Ids : orgas'[j].version = orgas[j].version
    BY <1>1
  <2> QED
    BY <1>1, <1>c, <1>r, <2>1 DEF ParentsCreated
<1>8. NoCycleAfter(p)'
  <2> SUFFICES ASSUME ~putUsed', p.op = "move", NEW kind \in Kinds,
                      <<"parents", kind>> \in p.touches, Undisturbed("parents", kind)',
                      NEW S \in SUBSET Ids, Trap([orgas' EXCEPT ![p.id] = p.row], kind, S)
               PROVE  p.id \notin S
    BY DEF NoCycleAfter, Trap
  <2>1. PICK t : t = [orgas EXCEPT ![p.id] = p.row]
    OBVIOUS
  <2>2. PICK u : u = [orgas' EXCEPT ![p.id] = p.row]
    OBVIOUS
  <2>3. t[p.id] = p.row /\ u[p.id] = p.row /\ \A x \in Ids \ {p.id} : t[x] = orgas[x] /\ u[x] = orgas'[x]
    BY <1>r, <2>1, <2>2 DEF Typed, TreeTypeOK
  <2>4. \A T \in SUBSET Ids : Trap(t, kind, T) => p.id \notin T
    BY <1>1, <1>c, <2>1 DEF NoCycleAfter, Undisturbed
  <2>5. Trap(u, kind, S)
    BY <2>2
  <2>6. i \in S => i = p.id
    BY <1>1, <2>3, <2>5 DEF Trap
  <2>7. \A x \in S : u[x][kind] = t[x][kind]
    BY <1>1, <2>3, <2>6
  <2>8. Trap(t, kind, S)
    BY <2>5, <2>7 DEF Trap
  <2> QED
    BY <2>4, <2>8
<1> QED
  BY <1>p, <1>4, <1>5, <1>6, <1>7, <1>8 DEF Checked

(* As long as the tree is as it is, only a request that begins has to be    *)
(* looked at.                                                               *)
LEMMA TreeStays ==
  ASSUME Typed, TreeInv, Alone', orgas' = orgas, putUsed' = putUsed, disturbed \subseteq disturbed',
         \/ req' = req
         \/ \E c \in Clients : OnlyRequest(c) /\ (req'[c].op \in TreeOps => Asked(req'[c]) /\ Checked(req'[c]))
  PROVE  TreeInv'
<1>1. SchulenSound' /\ KlassenSound' /\ TreeSound' /\ TreeCreated'
  BY SoundStays DEF TreeInv
<1>2. ASSUME NEW d \in Clients PROVE Asked(req'[d]) /\ Checked(req[d])'
  <2>1. PICK p : p = req'[d]
    OBVIOUS
  <2>2. Asked(p) /\ Checked(p)
    <3>1. CASE p = req[d]
      BY <3>1 DEF TreeInv
    <3>2. CASE p.op \in TreeOps /\ p # req[d]
      BY <2>1, <3>2 DEF OnlyRequest
    <3>3. CASE p.op \notin TreeOps
      BY <3>3 DEF TreeOps, OrgaOps, Asked, Checked, KennungFree, NameFree, ParentsFit, ParentsCreated, NoCycleAfter
    <3> QED
      BY <3>1, <3>2, <3>3
  <2>3. Checked(p)'
    BY <2>2, CheckedStays
  <2> QED
    BY <2>1, <2>2, <2>3
<1> QED
  BY <1>1, <1>2 DEF TreeInv

(* A written or removed row keeps all in order.                             *)
LEMMA TreeChanges ==
  ASSUME Typed, Typed', OrgaVersions, TreeInv, Alone', NEW c \in Clients,
         Writes(c) \/ (Remove(c, Mapped) /\ orgas' # orgas)
  PROVE  TreeInv'
<1>1. OnlyRequest(c) /\ req'[c] = Idle
  BY Removes DEF Writes
<1>2. SchulenSound' /\ KlassenSound' /\ TreeSound' /\ TreeCreated'
  BY WriteSchulen, WriteKlassen, WriteTree, WriteCreated, RemoveSound
<1>3. ASSUME NEW d \in Clients \ {c} PROVE Asked(req'[d]) /\ Checked(req[d])'
  <2>1. req'[d] = req[d]
    BY <1>1 DEF OnlyRequest
  <2>2. Asked(req'[d])
    BY <2>1 DEF TreeInv
  <2>3. CASE Writes(c)
    BY <2>2, <2>3, WriteKennungFree, WriteNameFree, WriteParentsFit, WriteCreated, WriteNoCycleAfter DEF Checked
  <2> QED
    BY <2>2, <2>3, RemoveChecked
<1>4. Asked(req'[c]) /\ Checked(req[c])'
  <2>1. PICK p : p = req'[c]
    OBVIOUS
  <2>2. p.op = "none"
    BY <1>1, <2>1 DEF Idle
  <2>3. Asked(p) /\ Checked(p)'
    BY <2>2 DEF Asked, Checked, KennungFree, NameFree, ParentsFit, ParentsCreated, NoCycleAfter, OrgaOps
  <2> QED
    BY <2>1, <2>3
<1> QED
  BY <1>2, <1>3, <1>4 DEF TreeInv

(* Every step keeps the tree and what requests know of it.                  *)
LEMMA NextTreeInv ==
  ASSUME Typed, Typed', OrgaVersions, TreeInv, [Next]_vars
  PROVE  TreeInv'
<1>1. Alone' /\ disturbed \subseteq disturbed'
  BY NextAlone, EveryStep DEF TreeInv
<1>2. CASE TreeNext(Assigned, Mapped)
  <2>1. ASSUME NEW c \in Clients,
               \/ CreateOrganisation(c) \/ PutOrganisation(c) \/ UpdateKlassenname(c)
               \/ SetEnabledForitslearning(c) \/ DeleteKlasse(c, Assigned)
               \/ \E kind \in Kinds : SetParent(c, kind)
        PROVE  TreeInv'
    <3>1. PICK q : Begin(c, q) /\ UNCHANGED treeVars /\ Asked(q) /\ Checked(q)
      BY <2>1, TreeBegins
    <3>2. OnlyRequest(c) /\ req'[c] = q
      BY <3>1, BeginStep
    <3>3. Asked(req'[c]) /\ Checked(req'[c])
      BY <3>1, <3>2
    <3> QED
      BY <1>1, <3>1, <3>2, <3>3, TreeStays
  <2>2. ASSUME NEW c \in Clients, Insert(c) \/ Update(c) PROVE TreeInv'
    BY <1>1, <2>2, InsertWrites, UpdateWrites, TreeChanges
  <2>3. ASSUME NEW c \in Clients, UpdateOutdated(c) \/ (Remove(c, Mapped) /\ orgas' = orgas) PROVE TreeInv'
    <3>1. orgas' = orgas /\ putUsed' = putUsed
      BY <2>3 DEF UpdateOutdated, Remove
    <3>2. \E seen, started, untold : End(c, seen, started, untold)
      BY <2>3 DEF UpdateOutdated, Remove, GiveUp
    <3>3. OnlyRequest(c) /\ req'[c].op \notin TreeOps
      BY <3>2, EndStep DEF TreeOps, OrgaOps
    <3> QED
      BY <1>1, <3>1, <3>3, TreeStays
  <2>4. ASSUME NEW c \in Clients, Remove(c, Mapped), orgas' # orgas PROVE TreeInv'
    BY <1>1, <2>4, TreeChanges
  <2>5. ASSUME NEW t \in tasks,
               StoreGroup(t) \/ DeleteGroup(t) \/ ReadKlassen(t) \/ StoreGroups(t) \/ GroupCallFails(t)
        PROVE  TreeInv'
    <3>1. req' = req /\ orgas' = orgas /\ putUsed' = putUsed
      BY <2>5 DEF StoreGroup, DeleteGroup, ReadKlassen, StoreGroups, GroupCallFails, EndTask, TaskFails
    <3> QED
      BY <1>1, <3>1, TreeStays
  <2> QED
    BY <1>2, <2>1, <2>2, <2>3, <2>4, <2>5 DEF TreeNext
<1>3. CASE ServicesNext(Attached) /\ UNCHANGED <<treeVars, rollenVars>>
  <2>1. req' = req \/ \E c \in Clients : OnlyRequest(c) /\ req'[c].op \notin TreeOps
    BY <1>3, ServicesStep DEF TreeOps, OrgaOps, NoRequest
  <2> QED
    BY <1>1, <1>3, <2>1, TreeStays
<1>4. CASE RollenNext /\ UNCHANGED <<treeVars, serviceVars>>
  <2>1. req' = req \/ \E c \in Clients : OnlyRequest(c) /\ req'[c].op \notin TreeOps
    BY <1>4, RollenStep DEF TreeOps, OrgaOps, RolleOps, NoRequest
  <2> QED
    BY <1>1, <1>4, <2>1, TreeStays
<1>5. CASE UNCHANGED vars
  BY <1>1, <1>5, TreeStays
<1> QED
  BY <1>2, <1>3, <1>4, <1>5 DEF Next

(* At first nobody knows anything, so a sound tree is all it takes.         *)
LEMMA InitTreeInv ==
  ASSUME Init, SchulenSound, KlassenSound, TreeSound
  PROVE  TreeInv
<1>1. PICK start \in Starts : orgas = start.orgas
  BY DEF Init
<1>2. TreeCreated
  BY <1>1, StartsAssumption DEF TreeCreated
<1>3. \A c \in Clients : req[c] = Idle
  BY DEF Init, NothingBegun
<1>4. Asked(Idle) /\ Checked(Idle)
  <2>1. PICK p : p = Idle
    OBVIOUS
  <2>2. p.op = "none"
    BY <2>1 DEF Idle
  <2>3. Asked(p) /\ Checked(p)
    BY <2>2 DEF Asked, Checked, KennungFree, NameFree, ParentsFit, ParentsCreated, NoCycleAfter, OrgaOps
  <2> QED
    BY <2>1, <2>3
<1> QED
  BY <1>2, <1>3, <1>4, InitAlone DEF TreeInv

-----------------------------------------------------------------------------
(* Requests about Rollen and Kontexte                                       *)

(* What they ask for and have told that they touch: a change of a Rolle     *)
(* that touches neither its name nor its assignment leaves both as they     *)
(* were read, and likewise the service providers.                           *)
RolleAsked(q) ==
  /\ q.op \in {"createRolle", "updateRolle"} => q.row.name # "none"
  /\ q.op = "createRolle" => <<"rollenname", q.row.ssk>> \in q.touches
  /\ q.op = "updateRolle" /\ q.version = q.read =>
       /\ q.row.ssk = q.seen.ssk
       /\ \/ <<"rollenname", q.row.ssk>> \in q.touches /\ <<"zuweisung", q.id>> \in q.touches
          \/ q.row.name = q.seen.name /\ q.row.merkmale = q.seen.merkmale
       /\ Resource \in q.touches \/ q.row.serviceProvider = q.seen.serviceProvider
  /\ q.op = "deleteRolle" => Resource \in q.touches
  /\ q.op = "assign" => <<"zuweisung", q.row.rolle>> \in q.touches /\ <<"orga", q.row.orga>> \in q.touches

(* What their checks have found.                                            *)
RolleChecked(q) ==
  /\ /\ q.op \in {"createRolle", "updateRolle"}
     /\ <<"rollenname", q.row.ssk>> \in q.touches /\ Undisturbed("rollenname", q.row.ssk)
     => RolleNameUniqueOnSsk(q.id, q.row)
  /\ q.op = "updateRolle" /\ <<"zuweisung", q.id>> \in q.touches /\ Undisturbed("zuweisung", q.id) =>
       (IsRolleAlreadyAssigned(q.id) => BEFRISTUNG_PFLICHT \notin q.row.merkmale)
  /\ q.op = "assign" =>
       /\ rollen[q.row.rolle].version > 0
       /\ Undisturbed("orga", q.row.orga) => IsThere(q.row.orga)
       /\ BEFRISTUNG_PFLICHT \in rollen[q.row.rolle].merkmale /\ Undisturbed("zuweisung", q.row.rolle)
          => q.row.befristet
  /\ q.op = "delete" /\ Undisturbed("orga", q.id) => q.id \notin Assigned

(* Rollen and Kontexte are sound and requests know what they have checked.  *)
RolleInv ==
  /\ RollenSound
  /\ \A r \in RolleIds : rollen[r].version = 0 => rollen[r] = NoRolle
  /\ \A c \in Clients : RolleAsked(req[c]) /\ RolleChecked(req[c])

-----------------------------------------------------------------------------
(* The nightly job                                                          *)

(* As long as nobody else touches service providers and nothing fails, what *)
(* it has written follows the answer, and what it has not is on its lists.  *)
Follows(q) == \A m \in mappings : \E a \in q.response :
  services[m.service] = a.angebot /\ orgas[m.orga].kennung \in a.schulen
(* The Schule with a Kennung is mapped to an offer.                         *)
IsMapped(a, k) == \E m \in mappings : services[m.service] = a.angebot /\ orgas[m.orga].kennung = k

(* While it writes: mapped, on a list, or no Schule of ours.                *)
VidisWrites(q) ==
  /\ Follows(q) /\ q.save \subseteq q.response
  /\ \A m \in q.map : \E a \in q.response : services[m.service] = a.angebot /\ m.kennung \in a.schulen
  /\ \A a \in q.response \ q.save : \A k \in a.schulen :
       \/ \E m \in q.map : services[m.service] = a.angebot /\ m.kennung = k
       \/ IsMapped(a, k)
       \/ \A i \in Ids : orgas[i].kennung # k
(* While it deletes what VIDIS no longer offers.                            *)
VidisDeletes(q) ==
  /\ Follows(q)
  /\ \A a \in q.response, i \in Ids : orgas[i].kennung \in a.schulen => IsMapped(a, orgas[i].kennung)
  /\ \A s \in Services : IsVidis(s) =>
       s \in Attached \/ s \in q.delete \/ \E a \in q.response : a.angebot = services[s]
(* By the stage the job has reached.                                        *)
VidisKept(q) ==
  q.op = "vidis" /\ Undisturbed("vidis", None) =>
    /\ q.at = "clear" => q.save = q.response /\ q.map = {} /\ q.delete = {}
    /\ q.at = "write" => VidisWrites(q)
    /\ q.at = "delete" => VidisDeletes(q)

(* It is so for every job that is running.                                  *)
VidisInv == \A c \in Clients : VidisKept(req[c])

(* The checks of a request about a Rolle or a Kontext.                      *)
LEMMA SaveAsked ==
  ASSUME NEW c, NEW op, NEW r, NEW row, NEW v, NEW touches, SaveBegins(c, op, r, row, v, touches)
  PROVE  \E q : /\ Begin(c, q) /\ UNCHANGED rollenVars /\ RolleNameUniqueOnSsk(r, row)
                /\ q.op = op /\ q.id = r /\ q.row = row /\ q.read = rollen[r].version /\ q.version = v
                /\ q.touches = touches /\ (v = rollen[r].version => q.seen = rollen[r])
BY DEF SaveBegins

(* Requests about Rollen and Kontexte begin with what they have checked.    *)
LEMMA RolleBegins ==
  ASSUME Typed, RolleVersions, NEW c \in Clients,
         \/ CreateRolle(c) \/ AddSystemRecht(c) \/ SetServiceProviders(c) \/ UpdateRolle(c)
         \/ DeleteRolleBegins(c) \/ AssignKontext(c)
  PROVE  \E q : Begin(c, q) /\ UNCHANGED rollenVars /\ RolleAsked(q) /\ RolleChecked(q)
<1> DEFINE Goal == \E q : Begin(c, q) /\ UNCHANGED rollenVars /\ RolleAsked(q) /\ RolleChecked(q)
<1>t. \A r \in RolleIds : rollen[r] \in RolleRows
  BY DEF Typed, RollenTypeOK
<1>1. ASSUME CreateRolle(c) PROVE Goal
  <2>1. PICK r \in RolleIds, name \in RollenNamen, ssk \in Ids, merkmale \in SUBSET Merkmale :
          SaveBegins(c, "createRolle", r, [NoRolle EXCEPT !.name = name, !.ssk = ssk, !.merkmale = merkmale, !.version = 1],
                     0, {<<"rollenname", ssk>>, <<"orga", ssk>>})
    BY <1>1 DEF CreateRolle
  <2>2. PICK row : row = [NoRolle EXCEPT !.name = name, !.ssk = ssk, !.merkmale = merkmale, !.version = 1]
    OBVIOUS
  <2>3. row.name # "none" /\ row.ssk = ssk
    BY <2>2 DEF NoRolle
  <2>4. PICK q : /\ Begin(c, q) /\ UNCHANGED rollenVars /\ RolleNameUniqueOnSsk(r, row)
                 /\ q.op = "createRolle" /\ q.id = r /\ q.row = row
                 /\ q.touches = {<<"rollenname", ssk>>, <<"orga", ssk>>}
    BY <2>1, <2>2, SaveAsked
  <2>5. RolleAsked(q) /\ RolleChecked(q)
    BY <2>3, <2>4 DEF RolleAsked, RolleChecked
  <2> QED
    BY <2>4, <2>5
<1>2. ASSUME AddSystemRecht(c) PROVE Goal
  <2>1. PICK r \in RolleIds, recht \in Systemrechte :
          /\ HasRolle(r)
          /\ SaveBegins(c, "updateRolle", r, [rollen[r] EXCEPT !.systemrechte = @ \union {recht}], rollen[r].version, {})
    BY <1>2 DEF AddSystemRecht
  <2>2. PICK row : row = [rollen[r] EXCEPT !.systemrechte = @ \union {recht}]
    OBVIOUS
  <2>3. /\ row.name = rollen[r].name /\ row.ssk = rollen[r].ssk /\ row.merkmale = rollen[r].merkmale
        /\ row.serviceProvider = rollen[r].serviceProvider /\ row.name # "none"
    BY <2>1, <2>2, <1>t DEF RolleRows, HasRolle
  <2>4. PICK q : /\ Begin(c, q) /\ UNCHANGED rollenVars
                 /\ q.op = "updateRolle" /\ q.id = r /\ q.row = row /\ q.touches = {} /\ q.seen = rollen[r]
    BY <2>1, <2>2, SaveAsked
  <2>5. RolleAsked(q) /\ RolleChecked(q)
    BY <2>3, <2>4 DEF RolleAsked, RolleChecked
  <2> QED
    BY <2>4, <2>5
<1>3. ASSUME SetServiceProviders(c) PROVE Goal
  <2>1. PICK r, sps, version :
          /\ r \in RolleIds /\ HasRolle(r)
          /\ SaveBegins(c, "updateRolle", r, [rollen[r] EXCEPT !.serviceProvider = sps], version, {Resource})
    BY <1>3 DEF SetServiceProviders
  <2>2. PICK row : row = [rollen[r] EXCEPT !.serviceProvider = sps]
    OBVIOUS
  <2>3. row.name = rollen[r].name /\ row.ssk = rollen[r].ssk /\ row.merkmale = rollen[r].merkmale /\ row.name # "none"
    BY <2>1, <2>2, <1>t DEF RolleRows, HasRolle
  <2>4. PICK q : /\ Begin(c, q) /\ UNCHANGED rollenVars
                 /\ q.op = "updateRolle" /\ q.id = r /\ q.row = row /\ q.touches = {Resource}
                 /\ q.read = rollen[r].version /\ q.version = version
                 /\ (version = rollen[r].version => q.seen = rollen[r])
    BY <2>1, <2>2, SaveAsked
  <2>5. RolleAsked(q) /\ RolleChecked(q)
    BY <2>3, <2>4 DEF RolleAsked, RolleChecked, Resource
  <2> QED
    BY <2>4, <2>5
<1>4. ASSUME UpdateRolle(c) PROVE Goal
  <2>1. PICK r, name, merkmale, sps, version :
          /\ r \in RolleIds /\ name \in RollenNamen
          /\ MerkmaleMayChange(r, merkmale)
          /\ SaveBegins(c, "updateRolle", r,
               [rollen[r] EXCEPT !.name = name, !.merkmale = merkmale, !.serviceProvider = sps],
               version, {<<"rollenname", rollen[r].ssk>>, <<"zuweisung", r>>, Resource})
    BY <1>4 DEF UpdateRolle
  <2>2. PICK row : row = [rollen[r] EXCEPT !.name = name, !.merkmale = merkmale, !.serviceProvider = sps]
    OBVIOUS
  <2>3. row.name # "none" /\ row.ssk = rollen[r].ssk /\ row.merkmale = merkmale
    BY <2>1, <2>2, <1>t DEF RolleRows
  <2>4. PICK q : /\ Begin(c, q) /\ UNCHANGED rollenVars /\ RolleNameUniqueOnSsk(r, row)
                 /\ q.op = "updateRolle" /\ q.id = r /\ q.row = row
                 /\ q.touches = {<<"rollenname", rollen[r].ssk>>, <<"zuweisung", r>>, Resource}
                 /\ q.read = rollen[r].version /\ q.version = version
                 /\ (version = rollen[r].version => q.seen = rollen[r])
    BY <2>1, <2>2, SaveAsked
  <2>5. IsRolleAlreadyAssigned(r) => BEFRISTUNG_PFLICHT \notin row.merkmale
    BY <2>1, <2>3 DEF MerkmaleMayChange
  <2>6. RolleAsked(q)
    BY <2>3, <2>4 DEF RolleAsked
  <2>7. RolleChecked(q)
    BY <2>4, <2>5 DEF RolleChecked
  <2> QED
    BY <2>4, <2>6, <2>7
<1>5. ASSUME DeleteRolleBegins(c) PROVE Goal
  <2>1. PICK q : Begin(c, q) /\ UNCHANGED rollenVars /\ q.op = "deleteRolle" /\ q.touches = {Resource}
    BY <1>5 DEF DeleteRolleBegins
  <2>2. RolleAsked(q) /\ RolleChecked(q)
    BY <2>1 DEF RolleAsked, RolleChecked
  <2> QED
    BY <2>1, <2>2
<1>6. ASSUME AssignKontext(c) PROVE Goal
  <2>1. PICK p \in Personen, orga \in Ids, r \in RolleIds, befristet \in BOOLEAN :
          /\ CheckReferences(orga, r)
          /\ BEFRISTUNG_PFLICHT \in rollen[r].merkmale => befristet
          /\ Begin(c, [op |-> "assign", row |-> [person |-> p, orga |-> orga, rolle |-> r, befristet |-> befristet],
                       touches |-> {<<"zuweisung", r>>, <<"orga", orga>>}])
          /\ UNCHANGED rollenVars
    BY <1>6 DEF AssignKontext
  <2>2. PICK q : q = [op |-> "assign", row |-> [person |-> p, orga |-> orga, rolle |-> r, befristet |-> befristet],
                      touches |-> {<<"zuweisung", r>>, <<"orga", orga>>}]
    OBVIOUS
  <2>3. /\ q.op = "assign" /\ q.row.orga = orga /\ q.row.rolle = r /\ q.row.befristet = befristet
        /\ q.touches = {<<"zuweisung", r>>, <<"orga", orga>>}
    BY <2>2
  <2>4. IsThere(orga) /\ rollen[r].version > 0
    BY <2>1, <1>t DEF CheckReferences, HasRolle, RolleVersions, RolleRows
  <2>5. RolleAsked(q) /\ RolleChecked(q)
    BY <2>1, <2>3, <2>4 DEF RolleAsked, RolleChecked
  <2> QED
    BY <2>1, <2>2, <2>5
<1> QED
  BY <1>1, <1>2, <1>3, <1>4, <1>5, <1>6

(* As long as Rollen and Kontexte are as they are, only the request that    *)
(* goes on has to be looked at, and the organisations of Kontexte.          *)
LEMMA RolleStays ==
  ASSUME Typed, RolleInv, rollen' = rollen, kontexte' = kontexte, disturbed \subseteq disturbed',
         NEW c \in Clients, OnlyRequest(c), RolleAsked(req'[c]), RolleChecked(req[c])',
         \A i \in Ids :
           /\ IsThere(i) /\ Undisturbed("orga", i)'
           /\ i \in Assigned \/ \E d \in Clients \ {c} : req[d].op = "assign" /\ req[d].row.orga = i
           => IsThere(i)'
  PROVE  RolleInv'
<1>1. RollenSound'
  <2>1. ASSUME NEW r \in RolleIds, HasRolle(r)', Undisturbed("rollenname", rollen[r].ssk)'
        PROVE  RolleNameUniqueOnSsk(r, rollen[r])'
    BY <2>1 DEF RolleInv, RollenSound, Undisturbed, HasRolle, RolleNameUniqueOnSsk
  <2>2. ASSUME NEW k \in kontexte
        PROVE  /\ HasRolle(k.rolle)'
               /\ Undisturbed("orga", k.orga)' => IsThere(k.orga)'
               /\ BEFRISTUNG_PFLICHT \in rollen[k.rolle].merkmale /\ Undisturbed("zuweisung", k.rolle)' => k.befristet
    <3>1. k.orga \in Ids /\ k.orga \in Assigned
      BY DEF Typed, RollenTypeOK, KontextRows, Assigned
    <3>2. ASSUME Undisturbed("orga", k.orga)' PROVE IsThere(k.orga)'
      <4>1. IsThere(k.orga)
        BY <3>2 DEF RolleInv, RollenSound, Undisturbed
      <4> QED
        BY <3>1, <3>2, <4>1
    <3> QED
      BY <3>2 DEF RolleInv, RollenSound, Undisturbed, HasRolle
  <2> QED
    BY <2>1, <2>2 DEF RollenSound
<1>2. ASSUME NEW d \in Clients \ {c} PROVE RolleAsked(req'[d]) /\ RolleChecked(req[d])'
  <2>1. PICK p : p = req[d] /\ p = req'[d]
    BY DEF OnlyRequest
  <2>2. RolleAsked(p) /\ RolleChecked(p) /\ RequestTyped(p)
    BY <2>1 DEF RolleInv, Typed, RequestsTyped
  <2>3. ASSUME p.op = "assign", Undisturbed("orga", p.row.orga)' PROVE IsThere(p.row.orga)'
    <3>1. p.row.orga \in Ids
      BY <2>2, <2>3 DEF RequestTyped, KontextRows
    <3>2. IsThere(p.row.orga)
      BY <2>2, <2>3 DEF RolleChecked, Undisturbed
    <3> QED
      BY <2>1, <2>3, <3>1, <3>2
  <2>4. RolleChecked(p)'
    BY <2>2, <2>3 DEF RolleChecked, RolleNameUniqueOnSsk, HasRolle, IsRolleAlreadyAssigned, Assigned, Undisturbed
  <2> QED
    BY <2>1, <2>2, <2>4
<1> QED
  BY <1>1, <1>2 DEF RolleInv

(* The tables as they were, and no request.                                 *)
LEMMA RolleRests ==
  ASSUME RolleInv, rollen' = rollen, kontexte' = kontexte, orgas' = orgas, req' = req, disturbed \subseteq disturbed'
  PROVE  RolleInv'
<1>1. RollenSound'
  BY DEF RolleInv, RollenSound, Undisturbed, HasRolle, RolleNameUniqueOnSsk, IsThere
<1>2. ASSUME NEW p, RolleChecked(p) PROVE RolleChecked(p)'
  BY <1>2 DEF RolleChecked, RolleNameUniqueOnSsk, HasRolle, IsRolleAlreadyAssigned, Assigned, Undisturbed, IsThere
<1>3. \A d \in Clients : RolleChecked(req[d])'
  <2>1. ASSUME NEW d \in Clients PROVE RolleChecked(req[d])'
    <3>1. PICK p : p = req[d] /\ p = req'[d]
      OBVIOUS
    <3>2. RolleChecked(p)'
      BY <1>2, <3>1 DEF RolleInv
    <3> QED
      BY <3>1, <3>2
  <2> QED
    BY <2>1
<1> QED
  BY <1>1, <1>3 DEF RolleInv

(* Requests that neither ask nor have checked anything about Rollen.        *)
LEMMA NoRolleAsked ==
  ASSUME NEW q, q.op \notin RolleOps \union {"delete"}
  PROVE  RolleAsked(q) /\ RolleChecked(q) /\ RolleChecked(q)'
BY DEF RolleAsked, RolleChecked, RolleOps

(* Changes of the tree: no Kontext hangs at a Klasse that is removed.       *)
LEMMA TreeRollen ==
  ASSUME Typed, OrgaVersions, TreeInv, RolleInv, TreeNext(Assigned, Mapped), UNCHANGED rollenVars, [Next]_vars
  PROVE  RolleInv'
<1>d. disturbed \subseteq disturbed'
  BY EveryStep
<1>1. ASSUME NEW c \in Clients,
             \/ CreateOrganisation(c) \/ PutOrganisation(c) \/ UpdateKlassenname(c)
             \/ SetEnabledForitslearning(c) \/ \E kind \in Kinds : SetParent(c, kind)
      PROVE  RolleInv'
  <2>1. PICK q : Begin(c, q) /\ orgas' = orgas /\ q.op \in OrgaOps \union {"create"}
    <3>1. \E op \in OrgaOps \union {"create"} : \E i, o, v, touches :
            Begin(c, Write(op, i, o, v, touches)) /\ orgas' = orgas
      <4>1. CASE CreateOrganisation(c) \/ PutOrganisation(c) \/ UpdateKlassenname(c)
        BY <4>1 DEF CreateOrganisation, PutOrganisation, UpdateKlassenname, OrgaOps
      <4>2. CASE SetEnabledForitslearning(c) \/ \E kind \in Kinds : SetParent(c, kind)
        BY <4>2 DEF SetEnabledForitslearning, SetParent, OrgaOps
      <4> QED
        BY <1>1, <4>1, <4>2
    <3> QED
      BY <3>1 DEF Write
  <2>2. OnlyRequest(c) /\ req'[c] = q
    BY <2>1, BeginStep
  <2>3. RolleAsked(q) /\ RolleChecked(q)'
    BY <2>1, NoRolleAsked DEF OrgaOps, RolleOps
  <2>4. \A i \in Ids : IsThere(i) => IsThere(i)'
    BY <2>1 DEF IsThere
  <2> QED
    BY <1>d, <2>2, <2>3, <2>4, RolleStays
<1>2. ASSUME NEW c \in Clients, DeleteKlasse(c, Assigned) PROVE RolleInv'
  <2>1. PICK q : Begin(c, q) /\ orgas' = orgas /\ q.op = "delete" /\ q.id \notin Assigned
    BY <1>2 DEF DeleteKlasse, Write
  <2>2. OnlyRequest(c) /\ req'[c] = q
    BY <2>1, BeginStep
  <2>3. RolleAsked(q) /\ RolleChecked(q)'
    BY <2>1 DEF RolleAsked, RolleChecked, Assigned
  <2>4. \A i \in Ids : IsThere(i) => IsThere(i)'
    BY <2>1 DEF IsThere
  <2> QED
    BY <1>d, <2>2, <2>3, <2>4, RolleStays
<1>e. RolleAsked(Idle) /\ RolleChecked(Idle)'
  <2>1. PICK p : p = Idle
    OBVIOUS
  <2>2. p.op = "none"
    BY <2>1 DEF Idle
  <2> QED
    BY <2>1, <2>2, NoRolleAsked DEF RolleOps
<1>3. ASSUME NEW c \in Clients, Insert(c) \/ Update(c) PROVE RolleInv'
  <2>1. Writes(c)
    BY <1>3, InsertWrites, UpdateWrites
  <2>2. OnlyRequest(c) /\ req'[c] = Idle
    BY <2>1 DEF Writes
  <2>3. \A i \in Ids : IsThere(i) => IsThere(i)'
    <3>1. \A row \in Rows : row.typ # "none"
      BY DEF Rows, Typen
    <3> QED
      BY <2>1, <3>1 DEF Writes, IsThere
  <2> QED
    BY <1>d, <1>e, <2>2, <2>3, RolleStays
<1>4. ASSUME NEW c \in Clients, UpdateOutdated(c) PROVE RolleInv'
  <2>1. OnlyRequest(c) /\ req'[c] = Idle /\ orgas' = orgas
    BY <1>4, GiveUpStep DEF UpdateOutdated
  <2>2. \A i \in Ids : IsThere(i) => IsThere(i)'
    BY <2>1 DEF IsThere
  <2> QED
    BY <1>d, <1>e, <2>1, <2>2, RolleStays
<1>5. ASSUME NEW c \in Clients, Remove(c, Mapped) PROVE RolleInv'
  <2>1. PICK q : q = req[c]
    OBVIOUS
  <2>2. q.op = "delete" /\ q.id \in Ids /\ RolleChecked(q) /\ Asked(q)
    BY <1>5, <2>1 DEF Remove, Typed, RequestsTyped, RequestTyped, RolleInv, TreeInv
  <2>3. OnlyRequest(c) /\ req'[c] = Idle
    <3>1. \E seen, started, untold : End(c, seen, started, untold)
      BY <1>5 DEF Remove
    <3> QED
      BY <3>1, EndStep
  <2>4. \A j \in Ids \ {q.id} : orgas'[j] = orgas[j]
    BY <1>5, <2>1 DEF Remove, Typed, TreeTypeOK
  <2>5. ASSUME NEW i \in Ids, IsThere(i), Undisturbed("orga", i)',
               i \in Assigned \/ \E d \in Clients \ {c} : req[d].op = "assign" /\ req[d].row.orga = i
        PROVE  IsThere(i)'
    <3>1. i # q.id
      <4>1. SUFFICES ASSUME i = q.id PROVE FALSE
        OBVIOUS
      <4>2. Undisturbed("orga", q.id) /\ Alone /\ <<"orga", q.id>> \in req[c].touches
        BY <1>d, <2>1, <2>2, <2>5, <4>1 DEF Undisturbed, Asked, TreeInv
      <4>3. CASE i \in Assigned
        BY <2>2, <4>1, <4>2, <4>3 DEF RolleChecked
      <4>4. ASSUME NEW d \in Clients \ {c}, req[d].op = "assign", req[d].row.orga = i PROVE FALSE
        <5>1. <<"orga", q.id>> \in req[d].touches
          BY <4>1, <4>4 DEF RolleInv, RolleAsked
        <5> QED
          BY <4>2, <5>1, OneOfThem
      <4> QED
        BY <2>5, <4>3, <4>4
    <3> QED
      BY <2>4, <2>5, <3>1 DEF IsThere
  <2> QED
    BY <1>d, <1>e, <2>3, <2>5, RolleStays
<1>6. ASSUME NEW t \in tasks,
             StoreGroup(t) \/ DeleteGroup(t) \/ ReadKlassen(t) \/ StoreGroups(t) \/ GroupCallFails(t)
      PROVE  RolleInv'
  <2>1. req' = req /\ orgas' = orgas
    BY <1>6 DEF StoreGroup, DeleteGroup, ReadKlassen, StoreGroups, GroupCallFails, EndTask, TaskFails
  <2> QED
    BY <1>d, <2>1, RolleRests
<1> QED
  BY <1>1, <1>2, <1>3, <1>4, <1>5, <1>6 DEF TreeNext

(* A Rolle is written: a new one, or over the one that was read.            *)
RolleWritten(q) ==
  /\ \A r \in RolleIds \ {q.id} : rollen'[r] = rollen[r]
  /\ q.id \in RolleIds /\ q.row.name # "none"
  /\ rollen'[q.id].name = q.row.name /\ rollen'[q.id].ssk = q.row.ssk /\ rollen'[q.id].merkmale = q.row.merkmale
  /\ rollen'[q.id].serviceProvider = q.row.serviceProvider /\ rollen'[q.id].version > 0
  /\ RolleAsked(q) /\ RolleChecked(q)
  /\ \/ q.op = "createRolle" /\ rollen[q.id].version = 0
     \/ q.op = "updateRolle" /\ HasRolle(q.id) /\ q.version = q.read /\ q.seen = rollen[q.id]

(* A POST or a save of a Rolle writes what was checked.                     *)
LEMMA RolleWrites ==
  ASSUME Typed, RolleVersions, RolleInv, NEW c \in Clients, InsertRolle(c) \/ WriteRolle(c)
  PROVE  \E q : q = req[c] /\ RolleWritten(q)
<1>1. PICK q : q = req[c]
  OBVIOUS
<1>2. /\ q.op \in {"createRolle", "updateRolle"} /\ q.id \in RolleIds /\ q.row \in RolleRows /\ q.read \in Nat
      /\ RolleAsked(q) /\ RolleChecked(q) /\ q.row.name # "none"
  BY <1>1 DEF InsertRolle, WriteRolle, Typed, RequestsTyped, RequestTyped, RolleInv, RolleAsked
<1>3. DOMAIN rollen = RolleIds
  BY DEF Typed, RollenTypeOK
<1>4. CASE InsertRolle(c)
  <2>1. q.op = "createRolle" /\ rollen' = [rollen EXCEPT ![q.id] = q.row]
    BY <1>1, <1>4 DEF InsertRolle
  <2>2. rollen[q.id].version = 0 /\ q.row.version = 1
    BY <1>1, <2>1 DEF RolleVersions
  <2>3. rollen'[q.id] = q.row /\ \A r \in RolleIds \ {q.id} : rollen'[r] = rollen[r]
    BY <1>2, <1>3, <2>1
  <2>4. RolleWritten(q)
    BY <1>2, <2>1, <2>2, <2>3 DEF RolleWritten
  <2> QED
    BY <1>1, <2>4
<1>5. CASE WriteRolle(c)
  <2>1. /\ q.op = "updateRolle" /\ rollen' = [rollen EXCEPT ![q.id] = [q.row EXCEPT !.version = q.read + 1]]
        /\ q.version = q.read /\ rollen[q.id].version = q.read /\ HasRolle(q.id)
    BY <1>1, <1>5 DEF WriteRolle, RolleIsCurrent
  <2>2. q.seen = rollen[q.id]
    BY <1>1, <2>1 DEF RolleVersions, HasRolle
  <2>3. rollen'[q.id] = [q.row EXCEPT !.version = q.read + 1] /\ \A r \in RolleIds \ {q.id} : rollen'[r] = rollen[r]
    BY <1>2, <1>3, <2>1
  <2>4. /\ rollen'[q.id].name = q.row.name /\ rollen'[q.id].ssk = q.row.ssk /\ rollen'[q.id].merkmale = q.row.merkmale
        /\ rollen'[q.id].serviceProvider = q.row.serviceProvider /\ rollen'[q.id].version > 0
    BY <1>2, <2>3 DEF RolleRows
  <2>5. RolleWritten(q)
    BY <1>2, <2>1, <2>2, <2>3, <2>4 DEF RolleWritten
  <2> QED
    BY <1>1, <2>5
<1> QED
  BY <1>4, <1>5

(* What it is written over: its name is free, or the one it had.            *)
LEMMA WrittenNames ==
  ASSUME Typed, RolleInv, NEW q, RolleWritten(q), disturbed \subseteq disturbed',
         NEW r \in RolleIds, HasRolle(r)', Undisturbed("rollenname", rollen[r].ssk)'
  PROVE  RolleNameUniqueOnSsk(r, rollen[r])'
<1>1. SUFFICES ASSUME NEW other \in RolleIds \ {r}, HasRolle(other)', rollen'[other].ssk = rollen'[r].ssk
               PROVE  rollen'[other].name # rollen'[r].name
  BY DEF RolleNameUniqueOnSsk
<1>u. Undisturbed("rollenname", rollen'[r].ssk)
  BY DEF Undisturbed
<1>o. \A x \in RolleIds \ {q.id} : rollen'[x] = rollen[x] /\ (HasRolle(x)' <=> HasRolle(x))
  BY DEF RolleWritten, HasRolle
<1>2. \/ <<"rollenname", q.row.ssk>> \in q.touches
      \/ /\ q.row.name = rollen[q.id].name /\ q.row.ssk = rollen[q.id].ssk /\ HasRolle(q.id)
  BY DEF RolleWritten, RolleAsked
<1>3. CASE r # q.id /\ other # q.id
  BY <1>1, <1>3, <1>o, <1>u DEF RolleInv, RollenSound, RolleNameUniqueOnSsk
<1>4. CASE (r = q.id \/ other = q.id) /\ <<"rollenname", q.row.ssk>> \in q.touches
  <2>1. rollen'[q.id].ssk = q.row.ssk /\ rollen'[q.id].name = q.row.name
    BY DEF RolleWritten
  <2>2. Undisturbed("rollenname", q.row.ssk)
    BY <1>1, <1>4, <1>u, <2>1
  <2>3. RolleNameUniqueOnSsk(q.id, q.row)
    BY <1>4, <2>2 DEF RolleWritten, RolleChecked
  <2> QED
    BY <1>1, <1>4, <1>o, <2>1, <2>3 DEF RolleNameUniqueOnSsk
<1>5. CASE /\ r = q.id \/ other = q.id
           /\ q.row.name = rollen[q.id].name /\ q.row.ssk = rollen[q.id].ssk /\ HasRolle(q.id)
  <2>1. \A x \in {r, other} : rollen'[x].name = rollen[x].name /\ rollen'[x].ssk = rollen[x].ssk /\ HasRolle(x)
    BY <1>1, <1>5, <1>o DEF RolleWritten
  <2> QED
    BY <1>1, <1>u, <2>1 DEF RolleInv, RollenSound, RolleNameUniqueOnSsk
<1> QED
  BY <1>2, <1>3, <1>4, <1>5

(* Those who have the Rolle have a Befristung if it is asked for by then.   *)
LEMMA WrittenKontexte ==
  ASSUME Typed, OrgaVersions, RolleInv, NEW q, RolleWritten(q), disturbed \subseteq disturbed', NEW k \in kontexte
  PROVE  /\ HasRolle(k.rolle)'
         /\ BEFRISTUNG_PFLICHT \in rollen'[k.rolle].merkmale /\ Undisturbed("zuweisung", k.rolle)' => k.befristet
<1>1. k.rolle \in RolleIds
  BY DEF Typed, RollenTypeOK, KontextRows
<1>2. HasRolle(k.rolle) /\ (BEFRISTUNG_PFLICHT \in rollen[k.rolle].merkmale /\ Undisturbed("zuweisung", k.rolle) => k.befristet)
  BY DEF RolleInv, RollenSound
<1>3. Undisturbed("zuweisung", k.rolle)' => Undisturbed("zuweisung", k.rolle)
  BY DEF Undisturbed
<1>4. CASE k.rolle # q.id
  BY <1>1, <1>2, <1>3, <1>4 DEF RolleWritten, HasRolle
<1>5. CASE k.rolle = q.id
  <2>1. q.op = "updateRolle" /\ q.version = q.read /\ q.seen = rollen[q.id]
    BY <1>1, <1>2, <1>5 DEF RolleWritten, RolleInv, HasRolle, NoRolle
  <2>2. HasRolle(k.rolle)'
    BY <1>5 DEF RolleWritten, HasRolle
  <2>3. CASE q.row.merkmale = rollen[q.id].merkmale
    BY <1>2, <1>3, <1>5, <2>2, <2>3 DEF RolleWritten
  <2>4. CASE <<"zuweisung", q.id>> \in q.touches
    <3>1. IsRolleAlreadyAssigned(q.id)
      BY <1>5 DEF IsRolleAlreadyAssigned
    <3>2. Undisturbed("zuweisung", q.id)' => BEFRISTUNG_PFLICHT \notin q.row.merkmale
      BY <1>3, <1>5, <2>1, <2>4, <3>1 DEF RolleWritten, RolleChecked
    <3> QED
      BY <1>5, <2>2, <3>2 DEF RolleWritten
  <2> QED
    BY <2>1, <2>3, <2>4 DEF RolleWritten, RolleAsked
<1> QED
  BY <1>4, <1>5

(* Another request that relies on the name or on who has the Rolle has      *)
(* touched them too.                                                        *)
LEMMA WrittenChecked ==
  ASSUME Typed, Alone, RolleInv, NEW c \in Clients, NEW d \in Clients \ {c}, disturbed \subseteq disturbed',
         NEW q, q = req[c], NEW p, p = req[d], RolleWritten(q), kontexte' = kontexte, orgas' = orgas
  PROVE  RolleChecked(p)'
<1>1. RolleAsked(p) /\ RolleChecked(p) /\ RequestTyped(p)
  BY DEF RolleInv, Typed, RequestsTyped
<1>o. \A x \in RolleIds \ {q.id} : rollen'[x] = rollen[x] /\ (HasRolle(x)' <=> HasRolle(x))
  BY DEF RolleWritten, HasRolle
<1>u. \A kind, x : Undisturbed(kind, x)' => Undisturbed(kind, x)
  BY DEF Undisturbed
<1>2. \/ <<"rollenname", q.row.ssk>> \in q.touches
      \/ /\ q.row.name = rollen[q.id].name /\ q.row.ssk = rollen[q.id].ssk /\ HasRolle(q.id)
  BY DEF RolleWritten, RolleAsked
<1>3. ASSUME p.op \in {"createRolle", "updateRolle"}, <<"rollenname", p.row.ssk>> \in p.touches,
             Undisturbed("rollenname", p.row.ssk)'
      PROVE  RolleNameUniqueOnSsk(p.id, p.row)'
  <2>1. Undisturbed("rollenname", p.row.ssk) /\ RolleNameUniqueOnSsk(p.id, p.row)
    BY <1>1, <1>3, <1>u DEF RolleChecked
  <2>2. SUFFICES ASSUME NEW other \in RolleIds \ {p.id}, HasRolle(other)', rollen'[other].ssk = p.row.ssk
                 PROVE  rollen'[other].name # p.row.name
    BY DEF RolleNameUniqueOnSsk
  <2>3. CASE other # q.id
    BY <1>o, <2>1, <2>2, <2>3 DEF RolleNameUniqueOnSsk
  <2>4. CASE other = q.id /\ <<"rollenname", q.row.ssk>> \in q.touches
    <3>1. q.row.ssk = p.row.ssk
      BY <2>2, <2>4 DEF RolleWritten
    <3> QED
      BY <1>3, <2>1, <2>4, <3>1, OneOfThem
  <2>5. CASE other = q.id /\ q.row.name = rollen[q.id].name /\ q.row.ssk = rollen[q.id].ssk /\ HasRolle(q.id)
    <3>1. rollen'[other].name = rollen[other].name /\ rollen[other].ssk = p.row.ssk
      BY <2>2, <2>5 DEF RolleWritten
    <3> QED
      BY <2>1, <2>2, <2>5, <3>1 DEF RolleNameUniqueOnSsk
  <2> QED
    BY <1>2, <2>3, <2>4, <2>5
<1>4. ASSUME p.op = "assign"
      PROVE  /\ rollen'[p.row.rolle].version > 0
             /\ Undisturbed("orga", p.row.orga)' => IsThere(p.row.orga)'
             /\ BEFRISTUNG_PFLICHT \in rollen'[p.row.rolle].merkmale /\ Undisturbed("zuweisung", p.row.rolle)'
                => p.row.befristet
  <2>1. p.row.rolle \in RolleIds
    BY <1>1, <1>4 DEF RequestTyped, KontextRows
  <2>2. rollen[p.row.rolle].version > 0 /\ <<"zuweisung", p.row.rolle>> \in p.touches
    BY <1>1, <1>4 DEF RolleChecked, RolleAsked
  <2>3. Undisturbed("orga", p.row.orga)' => IsThere(p.row.orga)'
    BY <1>1, <1>4, <1>u DEF RolleChecked, IsThere
  <2>4. rollen'[p.row.rolle].version > 0
    BY <1>o, <2>1, <2>2 DEF RolleWritten
  <2>5. ASSUME BEFRISTUNG_PFLICHT \in rollen'[p.row.rolle].merkmale, Undisturbed("zuweisung", p.row.rolle)'
        PROVE  p.row.befristet
    <3>1. BEFRISTUNG_PFLICHT \in rollen[p.row.rolle].merkmale => p.row.befristet
      BY <1>1, <1>4, <1>u, <2>5 DEF RolleChecked
    <3>2. CASE p.row.rolle # q.id
      BY <1>o, <2>1, <2>5, <3>1, <3>2
    <3>3. CASE p.row.rolle = q.id
      <4>1. q.op = "updateRolle" /\ q.version = q.read /\ q.seen = rollen[q.id]
        BY <2>2, <3>3 DEF RolleWritten
      <4>2. <<"zuweisung", q.id>> \notin q.touches
        BY <1>u, <2>2, <2>5, <3>3, OneOfThem
      <4>3. rollen'[q.id].merkmale = rollen[q.id].merkmale
        BY <4>1, <4>2 DEF RolleWritten, RolleAsked
      <4> QED
        BY <2>5, <3>1, <3>3, <4>3
    <3> QED
      BY <3>2, <3>3
  <2> QED
    BY <2>3, <2>4, <2>5
<1>5. ASSUME p.op = "updateRolle", <<"zuweisung", p.id>> \in p.touches, Undisturbed("zuweisung", p.id)'
      PROVE  IsRolleAlreadyAssigned(p.id)' => BEFRISTUNG_PFLICHT \notin p.row.merkmale
  BY <1>1, <1>5, <1>u DEF RolleChecked, IsRolleAlreadyAssigned
<1>6. ASSUME p.op = "delete", Undisturbed("orga", p.id)' PROVE p.id \notin Assigned'
  BY <1>1, <1>6, <1>u DEF RolleChecked, Assigned
<1> QED
  BY <1>3, <1>4, <1>5, <1>6 DEF RolleChecked

(* A Rolle that goes is one that nobody has.                                *)
LEMMA RolleGoes ==
  ASSUME Typed, RolleInv, NEW c \in Clients, DeleteRolle(c), orgas' = orgas
  PROVE  RolleInv'
<1>1. OnlyRequest(c) /\ req'[c] = Idle /\ disturbed \subseteq disturbed' /\ kontexte' = kontexte
  <2>1. disturbed \subseteq disturbed' /\ kontexte' = kontexte
    BY DEF DeleteRolle, GiveUp, End
  <2> QED
    BY <2>1, GiveUpStep DEF DeleteRolle
<1>e. RolleAsked(req'[c]) /\ RolleChecked(req[c])'
  <2>1. PICK p : p = req'[c]
    OBVIOUS
  <2>2. p.op = "none"
    BY <1>1, <2>1 DEF Idle
  <2> QED
    BY <2>1, <2>2, NoRolleAsked DEF RolleOps
<1>2. CASE rollen' = rollen
  <2>1. \A i \in Ids : IsThere(i) => IsThere(i)'
    BY DEF IsThere
  <2> QED
    BY <1>1, <1>2, <1>e, <2>1, RolleStays
<1>3. CASE rollen' # rollen
  <2>1. PICK i : i = req[c].id
    OBVIOUS
  <2>2. i \in RolleIds
    BY <2>1 DEF DeleteRolle, Typed, RequestsTyped, RequestTyped
  <2>3. /\ ~IsRolleAlreadyAssigned(i)
        /\ rollen' = [rollen EXCEPT ![i] = [NoRolle EXCEPT !.version = rollen[i].version]]
    BY <1>3, <2>1 DEF DeleteRolle
  <2>4. /\ rollen'[i] = [NoRolle EXCEPT !.version = rollen[i].version]
        /\ \A r \in RolleIds \ {i} : rollen'[r] = rollen[r]
    BY <2>2, <2>3 DEF Typed, RollenTypeOK
  <2>5. /\ rollen'[i].name = "none" /\ rollen'[i].merkmale = {} /\ rollen'[i].version = rollen[i].version
        /\ (rollen[i].version = 0 => rollen'[i] = NoRolle)
    BY <2>4 DEF NoRolle
  <2>6. \A r \in RolleIds : HasRolle(r)' => r # i /\ HasRolle(r)
    BY <2>4, <2>5 DEF HasRolle
  <2>u. \A kind, x : Undisturbed(kind, x)' => Undisturbed(kind, x)
    BY <1>1 DEF Undisturbed
  <2>7. RollenSound'
    <3>1. ASSUME NEW r \in RolleIds, HasRolle(r)', Undisturbed("rollenname", rollen[r].ssk)'
          PROVE  RolleNameUniqueOnSsk(r, rollen[r])'
      <4>1. rollen'[r] = rollen[r] /\ HasRolle(r)
        BY <2>4, <2>6, <3>1
      <4>2. RolleNameUniqueOnSsk(r, rollen[r])
        BY <2>u, <3>1, <4>1 DEF RolleInv, RollenSound, Undisturbed
      <4> QED
        BY <2>4, <2>6, <4>1, <4>2 DEF RolleNameUniqueOnSsk
    <3>2. ASSUME NEW k \in kontexte
          PROVE  /\ HasRolle(k.rolle)'
                 /\ Undisturbed("orga", k.orga)' => IsThere(k.orga)'
                 /\ BEFRISTUNG_PFLICHT \in rollen'[k.rolle].merkmale /\ Undisturbed("zuweisung", k.rolle)' => k.befristet
      <4>1. k.rolle # i /\ k.rolle \in RolleIds
        BY <2>3 DEF IsRolleAlreadyAssigned, Typed, RollenTypeOK, KontextRows
      <4>2. rollen'[k.rolle] = rollen[k.rolle]
        BY <2>4, <4>1
      <4> QED
        BY <2>u, <4>2 DEF RolleInv, RollenSound, HasRolle, IsThere
    <3> QED
      BY <1>1, <3>1, <3>2 DEF RollenSound
  <2>8. \A r \in RolleIds : rollen'[r].version = 0 => rollen'[r] = NoRolle
    BY <2>4, <2>5 DEF RolleInv
  <2>9. ASSUME NEW d \in Clients \ {c} PROVE RolleAsked(req'[d]) /\ RolleChecked(req[d])'
    <3>1. PICK p : p = req[d] /\ p = req'[d]
      BY <1>1 DEF OnlyRequest
    <3>2. RolleAsked(p) /\ RolleChecked(p) /\ RequestTyped(p)
      BY <3>1 DEF RolleInv, Typed, RequestsTyped
    <3>3. RolleNameUniqueOnSsk(p.id, p.row) => RolleNameUniqueOnSsk(p.id, p.row)'
      BY <2>4, <2>6 DEF RolleNameUniqueOnSsk
    <3>4. p.op = "assign" =>
            /\ rollen'[p.row.rolle].version > 0
            /\ BEFRISTUNG_PFLICHT \in rollen'[p.row.rolle].merkmale => BEFRISTUNG_PFLICHT \in rollen[p.row.rolle].merkmale
      BY <2>4, <2>5, <3>2 DEF RolleChecked, RequestTyped, KontextRows
    <3>5. RolleChecked(p)'
      BY <1>1, <2>u, <3>2, <3>3, <3>4 DEF RolleChecked, IsRolleAlreadyAssigned, Assigned, IsThere
    <3> QED
      BY <3>1, <3>2, <3>5
  <2> QED
    BY <1>e, <2>7, <2>8, <2>9 DEF RolleInv
<1> QED
  BY <1>2, <1>3

(* A Kontext comes with what was checked for it, or goes.                   *)
LEMMA KontextComes ==
  ASSUME Typed, TreeInv, RolleInv, NEW c \in Clients, InsertKontext(c), orgas' = orgas
  PROVE  RolleInv'
<1>1. OnlyRequest(c) /\ req'[c] = Idle /\ disturbed \subseteq disturbed' /\ rollen' = rollen
  <2>1. disturbed \subseteq disturbed' /\ rollen' = rollen
    BY DEF InsertKontext, GiveUp, End
  <2> QED
    BY <2>1, GiveUpStep DEF InsertKontext
<1>e. RolleAsked(req'[c]) /\ RolleChecked(req[c])'
  <2>1. PICK p : p = req'[c]
    OBVIOUS
  <2>2. p.op = "none"
    BY <1>1, <2>1 DEF Idle
  <2> QED
    BY <2>1, <2>2, NoRolleAsked DEF RolleOps
<1>2. PICK q : q = req[c]
  OBVIOUS
<1>3. /\ q.op = "assign" /\ RolleAsked(q) /\ RolleChecked(q)
      /\ kontexte' \subseteq kontexte \union {q.row} /\ kontexte \subseteq kontexte'
      /\ (q.row \in kontexte' \ kontexte => HasRolle(q.row.rolle))
  BY <1>2 DEF InsertKontext, RolleInv
<1>u. \A kind, x : Undisturbed(kind, x)' => Undisturbed(kind, x)
  BY <1>1 DEF Undisturbed
<1>4. RollenSound'
  <2>1. ASSUME NEW r \in RolleIds, HasRolle(r)', Undisturbed("rollenname", rollen[r].ssk)'
        PROVE  RolleNameUniqueOnSsk(r, rollen[r])'
    BY <1>1, <2>1 DEF RolleInv, RollenSound, Undisturbed, HasRolle, RolleNameUniqueOnSsk
  <2>2. ASSUME NEW k \in kontexte'
        PROVE  /\ HasRolle(k.rolle)'
               /\ Undisturbed("orga", k.orga)' => IsThere(k.orga)'
               /\ BEFRISTUNG_PFLICHT \in rollen'[k.rolle].merkmale /\ Undisturbed("zuweisung", k.rolle)' => k.befristet
    <3>1. CASE k \in kontexte
      BY <1>1, <1>u, <3>1 DEF RolleInv, RollenSound, HasRolle, IsThere
    <3>2. CASE k = q.row /\ k \notin kontexte
      BY <1>1, <1>3, <1>u, <2>2, <3>2 DEF RolleChecked, HasRolle, IsThere
    <3> QED
      BY <1>3, <3>1, <3>2
  <2> QED
    BY <2>1, <2>2 DEF RollenSound
<1>5. ASSUME NEW d \in Clients \ {c} PROVE RolleAsked(req'[d]) /\ RolleChecked(req[d])'
  <2>1. PICK p : p = req[d] /\ p = req'[d]
    BY <1>1 DEF OnlyRequest
  <2>2. RolleAsked(p) /\ RolleChecked(p) /\ Asked(p) /\ Alone
    BY <2>1 DEF RolleInv, TreeInv
  <2>3. ASSUME p.op = "updateRolle", <<"zuweisung", p.id>> \in p.touches, Undisturbed("zuweisung", p.id)',
               IsRolleAlreadyAssigned(p.id)'
        PROVE  BEFRISTUNG_PFLICHT \notin p.row.merkmale
    <3>1. p.id # q.row.rolle
      BY <1>2, <1>3, <1>u, <2>1, <2>2, <2>3, OneOfThem DEF RolleAsked
    <3>2. IsRolleAlreadyAssigned(p.id)
      BY <1>3, <2>3, <3>1 DEF IsRolleAlreadyAssigned
    <3> QED
      BY <1>u, <2>2, <2>3, <3>2 DEF RolleChecked
  <2>4. ASSUME p.op = "delete", Undisturbed("orga", p.id)' PROVE p.id \notin Assigned'
    <3>1. p.id # q.row.orga
      BY <1>2, <1>3, <1>u, <2>1, <2>2, <2>4, OneOfThem DEF RolleAsked, Asked
    <3>2. p.id \notin Assigned
      BY <1>u, <2>2, <2>4 DEF RolleChecked
    <3> QED
      BY <1>3, <3>1, <3>2 DEF Assigned
  <2>5. RolleChecked(p)'
    BY <1>1, <1>u, <2>2, <2>3, <2>4 DEF RolleChecked, RolleNameUniqueOnSsk, HasRolle, IsThere
  <2> QED
    BY <2>1, <2>2, <2>5
<1> QED
  BY <1>1, <1>4, <1>5, <1>e DEF RolleInv

(* A Kontext that goes only makes the conditions easier to meet.            *)
LEMMA KontextGoes ==
  ASSUME RolleInv, DeleteKontext, orgas' = orgas
  PROVE  RolleInv'
<1>1. kontexte' \subseteq kontexte /\ rollen' = rollen /\ req' = req /\ disturbed' = disturbed
  BY DEF DeleteKontext
<1>2. RollenSound'
  BY <1>1 DEF RolleInv, RollenSound, Undisturbed, HasRolle, RolleNameUniqueOnSsk, IsThere
<1>3. ASSUME NEW d \in Clients PROVE RolleChecked(req[d])'
  <2>1. PICK p : p = req[d] /\ p = req'[d]
    BY <1>1
  <2>2. RolleChecked(p)
    BY <2>1 DEF RolleInv
  <2>3. RolleChecked(p)'
    BY <1>1, <2>2 DEF RolleChecked, RolleNameUniqueOnSsk, HasRolle, IsRolleAlreadyAssigned, Assigned, Undisturbed, IsThere
  <2> QED
    BY <2>1, <2>3
<1> QED
  BY <1>1, <1>2, <1>3 DEF RolleInv

(* Every step keeps Rollen, Kontexte and what requests know of them.        *)
LEMMA NextRolleInv ==
  ASSUME Typed, OrgaVersions, RolleVersions, TreeInv, RolleInv, [Next]_vars
  PROVE  RolleInv'
<1>d. disturbed \subseteq disturbed'
  BY EveryStep
<1>1. CASE TreeNext(Assigned, Mapped) /\ UNCHANGED <<serviceVars, rollenVars>>
  BY <1>1, TreeRollen
<1>2. CASE ServicesNext(Attached) /\ UNCHANGED <<treeVars, rollenVars>>
  <2>1. PICK c \in Clients : OnlyRequest(c) /\ req'[c].op \in {"vidis", "none"}
    BY <1>2, ServicesStep
  <2>2. RolleAsked(req'[c]) /\ RolleChecked(req[c])'
    <3>1. PICK p : p = req'[c]
      OBVIOUS
    <3> QED
      BY <2>1, <3>1, NoRolleAsked DEF RolleOps
  <2>3. \A i \in Ids : IsThere(i) => IsThere(i)'
    BY <1>2 DEF IsThere
  <2> QED
    BY <1>2, <1>d, <2>1, <2>2, <2>3, RolleStays
<1>3. CASE RollenNext /\ UNCHANGED <<treeVars, serviceVars>>
  <2>t. \A i \in Ids : IsThere(i) => IsThere(i)'
    BY <1>3 DEF IsThere
  <2>1. ASSUME NEW c \in Clients,
               \/ CreateRolle(c) \/ AddSystemRecht(c) \/ SetServiceProviders(c) \/ UpdateRolle(c)
               \/ DeleteRolleBegins(c) \/ AssignKontext(c)
        PROVE  RolleInv'
    <3>1. PICK q : Begin(c, q) /\ UNCHANGED rollenVars /\ RolleAsked(q) /\ RolleChecked(q)
      BY <2>1, RolleBegins
    <3>2. OnlyRequest(c) /\ req'[c] = q
      BY <3>1, BeginStep
    <3>3. RolleChecked(q)'
      BY <1>3, <1>d, <3>1 DEF RolleChecked, RolleNameUniqueOnSsk, HasRolle, IsRolleAlreadyAssigned, Assigned, Undisturbed, IsThere
    <3> QED
      BY <1>3, <1>d, <2>t, <3>1, <3>2, <3>3, RolleStays
  <2>2. ASSUME NEW c \in Clients, InsertRolle(c) \/ WriteRolle(c) PROVE RolleInv'
    <3>1. PICK q : q = req[c] /\ RolleWritten(q)
      BY <2>2, RolleWrites
    <3>2. OnlyRequest(c) /\ req'[c] = Idle /\ kontexte' = kontexte /\ orgas' = orgas
      <4>1. \E seen, started, untold : End(c, seen, started, untold)
        BY <2>2 DEF InsertRolle, WriteRolle
      <4>2. kontexte' = kontexte /\ orgas' = orgas
        BY <1>3, <2>2 DEF InsertRolle, WriteRolle
      <4> QED
        BY <4>1, <4>2, EndStep
    <3>3. RollenSound'
      <4>1. \A k \in kontexte : Undisturbed("orga", k.orga)' => IsThere(k.orga)'
        BY <1>d, <3>2 DEF RolleInv, RollenSound, Undisturbed, IsThere
      <4>2. \A r \in RolleIds : HasRolle(r)' /\ Undisturbed("rollenname", rollen[r].ssk)'
                                => RolleNameUniqueOnSsk(r, rollen[r])'
        BY <1>d, <3>1, WrittenNames
      <4>3. \A k \in kontexte : /\ HasRolle(k.rolle)'
                                /\ BEFRISTUNG_PFLICHT \in rollen'[k.rolle].merkmale
                                   /\ Undisturbed("zuweisung", k.rolle)' => k.befristet
        BY <1>d, <3>1, WrittenKontexte
      <4> QED
        BY <3>2, <4>1, <4>2, <4>3 DEF RollenSound
    <3>4. \A r \in RolleIds : rollen'[r].version = 0 => rollen'[r] = NoRolle
      BY <3>1 DEF RolleWritten, RolleInv
    <3>5. ASSUME NEW d \in Clients \ {c} PROVE RolleAsked(req'[d]) /\ RolleChecked(req[d])'
      <4>1. PICK p : p = req[d] /\ p = req'[d]
        BY <3>2 DEF OnlyRequest
      <4>2. RolleAsked(p) /\ Alone
        BY <4>1 DEF RolleInv, TreeInv
      <4>3. RolleChecked(p)'
        BY <1>d, <3>1, <3>2, <4>1, <4>2, WrittenChecked
      <4> QED
        BY <4>1, <4>2, <4>3
    <3>6. RolleAsked(req'[c]) /\ RolleChecked(req[c])'
      <4>1. PICK p : p = req'[c]
        OBVIOUS
      <4>2. p.op = "none"
        BY <3>2, <4>1 DEF Idle
      <4> QED
        BY <4>1, <4>2, NoRolleAsked DEF RolleOps
    <3> QED
      BY <3>3, <3>4, <3>5, <3>6 DEF RolleInv
  <2>3. ASSUME NEW c \in Clients, WriteRolleFails(c) PROVE RolleInv'
    <3>1. OnlyRequest(c) /\ req'[c] = Idle /\ UNCHANGED rollenVars
      BY <2>3, GiveUpStep DEF WriteRolleFails
    <3>2. RolleAsked(req'[c]) /\ RolleChecked(req[c])'
      <4>1. PICK p : p = req'[c]
        OBVIOUS
      <4>2. p.op = "none"
        BY <3>1, <4>1 DEF Idle
      <4> QED
        BY <4>1, <4>2, NoRolleAsked DEF RolleOps
    <3> QED
      BY <1>d, <2>t, <3>1, <3>2, RolleStays
  <2>4. ASSUME NEW c \in Clients, DeleteRolle(c) \/ InsertKontext(c) PROVE RolleInv'
    BY <1>3, <2>4, RolleGoes, KontextComes
  <2>5. ASSUME DeleteKontext PROVE RolleInv'
    BY <1>3, <2>5, KontextGoes
  <2> QED
    BY <1>3, <2>1, <2>2, <2>3, <2>4, <2>5 DEF RollenNext
<1>4. CASE UNCHANGED vars
  BY <1>4, <1>d, RolleRests
<1> QED
  BY <1>1, <1>2, <1>3, <1>4 DEF Next

(* At first sound Rollen and Kontexte are all it takes.                     *)
LEMMA InitRolleInv ==
  ASSUME Init, RollenSound
  PROVE  RolleInv
<1>1. \A r \in RolleIds : rollen[r].version = 0 => rollen[r] = NoRolle
  BY StartsAssumption DEF Init
<1>2. \A c \in Clients : req[c] = Idle
  BY DEF Init, NothingBegun
<1>3. RolleAsked(Idle) /\ RolleChecked(Idle)
  <2>1. PICK p : p = Idle
    OBVIOUS
  <2>2. p.op = "none"
    BY <2>1 DEF Idle
  <2> QED
    BY <2>1, <2>2, NoRolleAsked DEF RolleOps
<1> QED
  BY <1>1, <1>2, <1>3 DEF RolleInv

(* What the job has written stays right while organisations keep their      *)
(* Kennungen, unless one goes that nothing is mapped to, and Rollen their   *)
(* service providers.                                                       *)
LEMMA VidisStays ==
  ASSUME Typed, NEW q, RequestTyped(q), VidisKept(q), services' = services, mappings' = mappings,
         disturbed \subseteq disturbed',
         q.op = "vidis" /\ Undisturbed("vidis", None)' =>
           /\ \A i \in Ids : \/ orgas'[i].kennung = orgas[i].kennung
                             \/ orgas'[i].kennung = None /\ i \notin Mapped
           /\ Attached \subseteq Attached'
  PROVE  VidisKept(q)'
<1> SUFFICES ASSUME q.op = "vidis", Undisturbed("vidis", None)'
             PROVE  /\ q.at = "clear" => q.save = q.response /\ q.map = {} /\ q.delete = {}
                    /\ q.at = "write" => VidisWrites(q)'
                    /\ q.at = "delete" => VidisDeletes(q)'
  BY DEF VidisKept
<1>1. Undisturbed("vidis", None)
  BY DEF Undisturbed
<1>2. q \in VidisRequests /\ \A a \in q.response : None \notin a.schulen
  BY ServicesAssumption DEF RequestTyped, VidisRequests
<1>3. \A m \in mappings : m.orga \in Ids /\ m.service \in Services /\ orgas'[m.orga].kennung = orgas[m.orga].kennung
  BY DEF Mapped, Typed, ServicesTypeOK
<1>4. Follows(q) => Follows(q)'
  BY <1>3 DEF Follows
<1>5. \A a, k : IsMapped(a, k) => IsMapped(a, k)'
  BY <1>3 DEF IsMapped
<1>6. VidisWrites(q) => VidisWrites(q)'
  <2>1. SUFFICES ASSUME VidisWrites(q) PROVE VidisWrites(q)'
    OBVIOUS
  <2>2. ASSUME NEW a \in q.response \ q.save, NEW k \in a.schulen
        PROVE  \/ \E m \in q.map : services[m.service] = a.angebot /\ m.kennung = k
               \/ IsMapped(a, k)'
               \/ \A i \in Ids : orgas'[i].kennung # k
    BY <1>2, <1>5, <2>1 DEF VidisWrites
  <2> QED
    BY <1>4, <2>1, <2>2 DEF VidisWrites
<1>7. VidisDeletes(q) => VidisDeletes(q)'
  <2>1. SUFFICES ASSUME VidisDeletes(q) PROVE VidisDeletes(q)'
    OBVIOUS
  <2>2. ASSUME NEW a \in q.response, NEW i \in Ids, orgas'[i].kennung \in a.schulen PROVE IsMapped(a, orgas[i].kennung)'
    <3>1. PICK k : k = orgas'[i].kennung /\ k = orgas[i].kennung
      BY <1>2, <2>2
    <3>2. IsMapped(a, k)'
      BY <1>5, <2>1, <2>2, <3>1 DEF VidisDeletes
    <3> QED
      BY <3>1, <3>2 DEF IsMapped
  <2> QED
    BY <1>4, <2>1, <2>2 DEF VidisDeletes, IsVidis
<1> QED
  BY <1>1, <1>6, <1>7 DEF VidisKept

(* Requests about organisations that change a Kennung touch the mappings.   *)
LEMMA TreeVidis ==
  ASSUME Typed, OrgaVersions, TreeInv, VidisInv, TreeNext(Assigned, Mapped), UNCHANGED <<serviceVars, rollenVars>>,
         [Next]_vars
  PROVE  VidisInv'
<1>d. disturbed \subseteq disturbed'
  BY EveryStep
<1> SUFFICES ASSUME NEW c \in Clients PROVE VidisKept(req[c])'
  BY DEF VidisInv
<1>1. PICK p : p = req'[c]
  OBVIOUS
<1>2. CASE p.op # "vidis"
  BY <1>1, <1>2 DEF VidisKept
<1>3. CASE p.op = "vidis"
  <2>1. p = req[c]
    <3>1. CASE NoRequest
      BY <1>1, <3>1 DEF NoRequest
    <3>2. CASE \E d \in Clients : OnlyRequest(d) /\ req'[d].op \in TreeOps \union {"none"}
      BY <1>1, <1>3, <3>2 DEF OnlyRequest, TreeOps, OrgaOps
    <3> QED
      BY <3>1, <3>2, TreeStep
  <2>2. VidisKept(p) /\ RequestTyped(p)
    BY <2>1 DEF VidisInv, Typed, RequestsTyped
  <2>3. Resource \in p.touches
    BY <1>3, <2>2 DEF RequestTyped, VidisRequests
  <2>4. Attached = Attached'
    BY DEF Attached
  <2>5. ASSUME Undisturbed("vidis", None)', NEW i \in Ids
        PROVE  orgas'[i].kennung = orgas[i].kennung \/ (orgas'[i].kennung = None /\ i \notin Mapped)
    <3>a. ASSUME NEW d \in Clients \ {c} PROVE Resource \notin req[d].touches
      BY <1>d, <2>1, <2>3, <2>5, <3>a, OneOfThem DEF Undisturbed, Resource, TreeInv
    <3>1. ASSUME NEW d \in Clients, Insert(d) \/ Update(d) PROVE orgas'[i].kennung = orgas[i].kennung
      <4>1. Writes(d) /\ Asked(req[d])
        BY <3>1, InsertWrites, UpdateWrites DEF TreeInv
      <4>2. d # c
        BY <1>3, <2>1, <4>1 DEF Writes, OrgaOps
      <4>3. PICK q : q = req[d]
        OBVIOUS
      <4>4. q.op \notin {"create", "put"}
        BY <3>a, <4>1, <4>2, <4>3 DEF Asked, Touches, Resource
      <4>5. orgas'[q.id].kennung = orgas[q.id].kennung
        BY <4>1, <4>3, <4>4 DEF Writes, Asked, OrgaOps
      <4> QED
        BY <4>1, <4>3, <4>5 DEF Writes
    <3>2. ASSUME NEW d \in Clients, Remove(d, Mapped)
          PROVE  orgas'[i].kennung = orgas[i].kennung \/ (orgas'[i].kennung = None /\ i \notin Mapped)
      <4>1. PICK q : q = req[d]
        OBVIOUS
      <4>2. \/ orgas' = orgas
            \/ q.id \notin Mapped /\ orgas' = [orgas EXCEPT ![q.id] = [NoOrga EXCEPT !.version = orgas[q.id].version]]
        BY <3>2, <4>1 DEF Remove
      <4>3. DOMAIN orgas = Ids
        BY DEF Typed, TreeTypeOK
      <4>4. i # q.id => orgas'[i].kennung = orgas[i].kennung
        BY <4>2, <4>3
      <4>5. i = q.id => orgas'[i].kennung = orgas[i].kennung \/ (orgas'[i].kennung = None /\ i \notin Mapped)
        BY <4>2, <4>3 DEF NoOrga
      <4> QED
        BY <4>4, <4>5
    <3>3. ASSUME NEW d \in Clients,
                 \/ CreateOrganisation(d) \/ PutOrganisation(d) \/ UpdateKlassenname(d)
                 \/ SetEnabledForitslearning(d) \/ DeleteKlasse(d, Assigned) \/ UpdateOutdated(d)
                 \/ \E kind \in Kinds : SetParent(d, kind)
          PROVE  orgas' = orgas
      BY <3>3 DEF CreateOrganisation, PutOrganisation, UpdateKlassenname, SetEnabledForitslearning,
                  DeleteKlasse, UpdateOutdated, SetParent
    <3>4. ASSUME NEW t \in tasks,
                 StoreGroup(t) \/ DeleteGroup(t) \/ ReadKlassen(t) \/ StoreGroups(t) \/ GroupCallFails(t)
          PROVE  orgas' = orgas
      BY <3>4 DEF StoreGroup, DeleteGroup, ReadKlassen, StoreGroups, GroupCallFails
    <3> QED
      BY <3>1, <3>2, <3>3, <3>4 DEF TreeNext
  <2>6. VidisKept(p)'
    BY <1>d, <2>2, <2>4, <2>5, VidisStays
  <2> QED
    BY <1>1, <2>6
<1> QED
  BY <1>2, <1>3

(* And requests about Rollen that take a service provider away.             *)
LEMMA RollenVidis ==
  ASSUME Typed, RolleVersions, Alone, RolleInv, VidisInv, RollenNext, UNCHANGED <<treeVars, serviceVars>>, [Next]_vars
  PROVE  VidisInv'
<1>d. disturbed \subseteq disturbed'
  BY EveryStep
<1> SUFFICES ASSUME NEW c \in Clients PROVE VidisKept(req[c])'
  BY DEF VidisInv
<1>1. PICK p : p = req'[c]
  OBVIOUS
<1>2. CASE p.op # "vidis"
  BY <1>1, <1>2 DEF VidisKept
<1>3. CASE p.op = "vidis"
  <2>1. p = req[c]
    <3>1. CASE NoRequest
      BY <1>1, <3>1 DEF NoRequest
    <3>2. CASE \E d \in Clients : OnlyRequest(d) /\ req'[d].op \in RolleOps \union {"none"}
      BY <1>1, <1>3, <3>2 DEF OnlyRequest, RolleOps
    <3> QED
      BY <3>1, <3>2, RollenStep
  <2>2. VidisKept(p) /\ RequestTyped(p)
    BY <2>1 DEF VidisInv, Typed, RequestsTyped
  <2>3. Resource \in p.touches
    BY <1>3, <2>2 DEF RequestTyped, VidisRequests
  <2>4. ASSUME Undisturbed("vidis", None)' PROVE Attached \subseteq Attached'
    <3>a. ASSUME NEW d \in Clients \ {c} PROVE Resource \notin req[d].touches
      BY <1>d, <2>1, <2>3, <2>4, <3>a, OneOfThem DEF Undisturbed, Resource
    <3>1. ASSUME NEW d \in Clients, InsertRolle(d) \/ WriteRolle(d) PROVE Attached \subseteq Attached'
      <4>1. PICK q : q = req[d] /\ RolleWritten(q)
        BY <3>1, RolleWrites
      <4>2. d # c
        BY <1>3, <2>1, <4>1 DEF RolleWritten
      <4>3. rollen[q.id].serviceProvider \subseteq rollen'[q.id].serviceProvider
        <5>1. CASE q.op = "createRolle"
          BY <4>1, <5>1 DEF RolleWritten, RolleInv, NoRolle
        <5>2. CASE q.op = "updateRolle"
          BY <3>a, <4>1, <4>2, <5>2 DEF RolleWritten, RolleAsked
        <5> QED
          BY <4>1, <5>1, <5>2 DEF RolleWritten
      <4>4. \A r \in RolleIds : rollen[r].serviceProvider \subseteq rollen'[r].serviceProvider
        BY <4>1, <4>3 DEF RolleWritten
      <4> QED
        BY <4>4 DEF Attached
    <3>2. ASSUME NEW d \in Clients, DeleteRolle(d) PROVE FALSE
      <4>1. req[d].op = "deleteRolle" /\ RolleAsked(req[d])
        BY <3>2 DEF DeleteRolle, RolleInv
      <4> QED
        BY <1>3, <2>1, <3>a, <4>1 DEF RolleAsked
    <3>3. ASSUME NEW d \in Clients, WriteRolleFails(d) \/ InsertKontext(d) PROVE rollen' = rollen
      BY <3>3 DEF WriteRolleFails, InsertKontext
    <3>4. ASSUME NEW d \in Clients,
                 \/ CreateRolle(d) \/ AddSystemRecht(d) \/ SetServiceProviders(d) \/ UpdateRolle(d)
                 \/ DeleteRolleBegins(d) \/ AssignKontext(d)
          PROVE  rollen' = rollen
      BY <3>4, RolleBegins
    <3>5. ASSUME DeleteKontext PROVE rollen' = rollen
      BY <3>5 DEF DeleteKontext
    <3> QED
      BY <3>1, <3>2, <3>3, <3>4, <3>5 DEF RollenNext, Attached
  <2>5. VidisKept(p)'
    BY <1>d, <2>2, <2>4, VidisStays
  <2> QED
    BY <1>1, <2>5
<1> QED
  BY <1>2, <1>3

(* The steps of the job.                                                    *)
LEMMA GotoVidis ==
  ASSUME Typed, NEW c \in Clients, NEW q, q \in VidisRequests, req[c] = q, NEW r, Goto(c, r)
  PROVE  OnlyRequest(c) /\ req'[c] = r /\ disturbed' = disturbed
BY BeginStep DEF Goto

(* Once all mappings are gone everything is on the list of what to write.   *)
LEMMA MappingsGone ==
  ASSUME Typed, VidisInv, NEW c \in Clients, DeleteAllMappings(c)
  PROVE  OnlyRequest(c) /\ VidisKept(req[c])'
<1>1. PICK q : q = req[c]
  OBVIOUS
<1>2. q \in VidisRequests /\ q.op = "vidis" /\ q.at = "clear" /\ VidisKept(q)
  BY <1>1 DEF DeleteAllMappings, Typed, RequestsTyped, RequestTyped, VidisInv
<1>3. PICK r : r = [q EXCEPT !.at = "write"]
  OBVIOUS
<1>4. r.at = "write" /\ r.response = q.response /\ r.save = q.save /\ r.map = q.map
  BY <1>2, <1>3 DEF VidisRequests
<1>5. OnlyRequest(c) /\ req'[c] = r /\ disturbed' = disturbed /\ mappings' = {}
  BY <1>1, <1>2, <1>3, GotoVidis DEF DeleteAllMappings
<1>6. VidisKept(r)'
  BY <1>2, <1>4, <1>5 DEF VidisKept, VidisWrites, Follows, Undisturbed
<1> QED
  BY <1>5, <1>6

(* A service provider that is saved leaves its Schulen on the list.         *)
LEMMA ProviderSaved ==
  ASSUME Typed, VidisInv, NEW c \in Clients, SaveServiceProvider(c), orgas' = orgas
  PROVE  OnlyRequest(c) /\ VidisKept(req[c])'
<1>1. PICK q : q = req[c]
  OBVIOUS
<1>2. q \in VidisRequests /\ q.op = "vidis" /\ q.at = "write" /\ VidisKept(q)
  BY <1>1 DEF SaveServiceProvider, Typed, RequestsTyped, RequestTyped, VidisInv
<1>3. PICK a \in q.save, s \in Services :
       /\ services[s] = a.angebot \/ services[s] = "none"
       /\ services' = [services EXCEPT ![s] = a.angebot]
       /\ Goto(c, [q EXCEPT !.save = @ \ {a}, !.map = @ \union {[kennung |-> k, service |-> s] : k \in a.schulen}])
  BY <1>1 DEF SaveServiceProvider
<1>m. mappings' = mappings
  BY DEF SaveServiceProvider
<1>4. PICK r : r = [q EXCEPT !.save = @ \ {a}, !.map = @ \union {[kennung |-> k, service |-> s] : k \in a.schulen}]
  OBVIOUS
<1>5. /\ r.at = "write" /\ r.response = q.response /\ r.save = q.save \ {a}
      /\ r.map = q.map \union {[kennung |-> k, service |-> s] : k \in a.schulen}
  BY <1>2, <1>4 DEF VidisRequests
<1>6. OnlyRequest(c) /\ req'[c] = r /\ disturbed' = disturbed
  BY <1>1, <1>2, <1>3, <1>4, GotoVidis
<1>7. services'[s] = a.angebot /\ \A x \in Services : services[x] # "none" => services'[x] = services[x]
  BY <1>3 DEF Typed, ServicesTypeOK
<1>8. ASSUME VidisWrites(q) PROVE VidisWrites(r)'
  <2>a. \A b \in q.response : b.angebot # "none"
    BY <1>2, ServicesAssumption DEF VidisRequests
  <2>b. q.save \subseteq q.response
    BY <1>8 DEF VidisWrites
  <2>c. \A m \in mappings : m.service \in Services /\ services'[m.service] = services[m.service]
    BY <1>7 DEF Typed, ServicesTypeOK
  <2>d. \A m \in q.map : m.service \in Services /\ services'[m.service] = services[m.service]
    <3>1. \A m \in q.map : m.service \in Services
      BY <1>2 DEF VidisRequests
    <3>2. \A m \in q.map : services[m.service] # "none"
      BY <1>8, <2>a DEF VidisWrites
    <3> QED
      BY <1>7, <3>1, <3>2
  <2>1. Follows(r)'
    BY <1>5, <1>8, <1>m, <2>c DEF VidisWrites, Follows
  <2>2. ASSUME NEW m \in r.map PROVE \E b \in r.response : services'[m.service] = b.angebot /\ m.kennung \in b.schulen
    <3>1. CASE m \in q.map
      BY <1>5, <1>8, <2>d, <3>1 DEF VidisWrites
    <3>2. CASE m \in {[kennung |-> k, service |-> s] : k \in a.schulen}
      <4>1. m.service = s /\ m.kennung \in a.schulen
        BY <3>2
      <4> QED
        BY <1>5, <1>7, <2>b, <4>1
    <3> QED
      BY <1>5, <2>2, <3>1, <3>2
  <2>3. ASSUME NEW b \in r.response \ r.save, NEW k \in b.schulen
        PROVE  \/ \E m \in r.map : services'[m.service] = b.angebot /\ m.kennung = k
               \/ IsMapped(b, k)'
               \/ \A i \in Ids : orgas'[i].kennung # k
    <3>1. CASE b = a
      <4>1. [kennung |-> k, service |-> s] \in r.map
        BY <1>5, <2>3, <3>1
      <4> QED
        BY <1>7, <3>1, <4>1
    <3>2. CASE b \in q.response \ q.save
      <4>1. \/ \E m \in q.map : services[m.service] = b.angebot /\ m.kennung = k
            \/ IsMapped(b, k)
            \/ \A i \in Ids : orgas[i].kennung # k
        BY <1>8, <3>2 DEF VidisWrites
      <4>2. IsMapped(b, k) => IsMapped(b, k)'
        BY <1>m, <2>c DEF IsMapped
      <4>3. ASSUME NEW m \in q.map, services[m.service] = b.angebot, m.kennung = k
            PROVE  \E n \in r.map : services'[n.service] = b.angebot /\ n.kennung = k
        BY <1>5, <2>d, <4>3
      <4> QED
        BY <4>1, <4>2, <4>3
    <3> QED
      BY <1>5, <2>3, <3>1, <3>2
  <2> QED
    BY <1>5, <2>1, <2>2, <2>3, <2>b DEF VidisWrites
<1>9. VidisKept(r)'
  BY <1>2, <1>5, <1>6, <1>8 DEF VidisKept, Undisturbed
<1> QED
  BY <1>6, <1>9

(* A Schule leaves the list when it is mapped, or is not there.             *)
LEMMA MappingSaved ==
  ASSUME Typed, VidisInv, NEW c \in Clients, SaveMapping(c), orgas' = orgas
  PROVE  OnlyRequest(c) /\ VidisKept(req[c])'
<1>1. PICK q : q = req[c]
  OBVIOUS
<1>2. q \in VidisRequests /\ q.op = "vidis" /\ q.at = "write" /\ VidisKept(q)
  BY <1>1 DEF SaveMapping, Typed, RequestsTyped, RequestTyped, VidisInv
<1>3. PICK m \in q.map :
        /\ IF {i \in Ids : IsThere(i) /\ orgas[i].kennung = m.kennung} = {} \/ services[m.service] = "none"
           THEN UNCHANGED mappings
           ELSE \E i \in {i \in Ids : IsThere(i) /\ orgas[i].kennung = m.kennung} :
                  mappings' = mappings \union {[orga |-> i, service |-> m.service]}
        /\ Goto(c, [q EXCEPT !.map = @ \ {m}])
  BY <1>1 DEF SaveMapping
<1>s. services' = services
  BY DEF SaveMapping
<1>4. PICK r : r = [q EXCEPT !.map = @ \ {m}]
  OBVIOUS
<1>5. r.at = "write" /\ r.response = q.response /\ r.save = q.save /\ r.map = q.map \ {m}
  BY <1>2, <1>4 DEF VidisRequests
<1>6. OnlyRequest(c) /\ req'[c] = r /\ disturbed' = disturbed
  BY <1>1, <1>2, <1>3, <1>4, GotoVidis
<1>8. ASSUME VidisWrites(q) PROVE VidisWrites(r)'
  <2>a. \A b \in q.response : b.angebot # "none" /\ None \notin b.schulen
    BY <1>2, ServicesAssumption DEF VidisRequests
  <2>b. PICK b \in q.response : services[m.service] = b.angebot /\ m.kennung \in b.schulen
    BY <1>8 DEF VidisWrites
  <2>n. services[m.service] # "none" /\ m.kennung # None
    BY <2>a, <2>b
  <2>1. \/ mappings' = mappings /\ \A i \in Ids : orgas[i].kennung # m.kennung
        \/ \E i \in Ids : orgas[i].kennung = m.kennung /\ mappings' = mappings \union {[orga |-> i, service |-> m.service]}
    <3>1. \A i \in Ids : ~IsThere(i) => orgas[i].kennung = None
      <4>1. \A i \in Ids : ~IsThere(i) => orgas[i] \in NoRows
        BY DEF Typed, TreeTypeOK, Rows, Typen, IsThere
      <4> QED
        BY <4>1 DEF NoRows
    <3> QED
      BY <1>3, <2>n, <3>1
  <2>2. Follows(q) => Follows(r)'
    BY <1>5, <1>s, <2>1, <2>b DEF Follows
  <2>3. \A x \in r.map : \E y \in r.response : services'[x.service] = y.angebot /\ x.kennung \in y.schulen
    BY <1>5, <1>8, <1>s DEF VidisWrites
  <2>4. ASSUME NEW x \in r.response \ r.save, NEW k \in x.schulen
        PROVE  \/ \E n \in r.map : services'[n.service] = x.angebot /\ n.kennung = k
               \/ IsMapped(x, k)'
               \/ \A i \in Ids : orgas'[i].kennung # k
    <3>1. \/ \E n \in q.map : services[n.service] = x.angebot /\ n.kennung = k
          \/ IsMapped(x, k)
          \/ \A i \in Ids : orgas[i].kennung # k
      BY <1>5, <1>8 DEF VidisWrites
    <3>2. IsMapped(x, k) => IsMapped(x, k)'
      BY <1>s, <2>1 DEF IsMapped
    <3>3. ASSUME services[m.service] = x.angebot, m.kennung = k
          PROVE  IsMapped(x, k)' \/ \A i \in Ids : orgas'[i].kennung # k
      <4>1. ASSUME NEW i \in Ids, orgas[i].kennung = m.kennung,
                   mappings' = mappings \union {[orga |-> i, service |-> m.service]}
            PROVE  IsMapped(x, k)'
        <5>1. [orga |-> i, service |-> m.service] \in mappings'
          BY <4>1
        <5> QED
          BY <1>s, <3>3, <4>1, <5>1 DEF IsMapped
      <4> QED
        BY <2>1, <3>3, <4>1
    <3> QED
      BY <1>5, <1>s, <3>1, <3>2, <3>3
  <2> QED
    BY <1>5, <1>8, <2>2, <2>3, <2>4 DEF VidisWrites
<1>9. VidisKept(r)'
  BY <1>2, <1>5, <1>6, <1>8 DEF VidisKept, Undisturbed
<1> QED
  BY <1>6, <1>9

(* Once the lists are empty, what VIDIS no longer offers is put on one.     *)
LEMMA ObsoleteListed ==
  ASSUME Typed, VidisInv, NEW c \in Clients, ListObsolete(c), orgas' = orgas, rollen' = rollen
  PROVE  OnlyRequest(c) /\ VidisKept(req[c])'
<1>1. PICK q : q = req[c]
  OBVIOUS
<1>2. q \in VidisRequests /\ q.op = "vidis" /\ q.at = "write" /\ q.save = {} /\ q.map = {} /\ VidisKept(q)
  BY <1>1 DEF ListObsolete, Typed, RequestsTyped, RequestTyped, VidisInv
<1>3. PICK r : r = [q EXCEPT !.at = "delete",
                             !.delete = {s \in Services : IsVidis(s) /\ \A a \in q.response : a.angebot # services[s]}]
  OBVIOUS
<1>4. /\ r.at = "delete" /\ r.response = q.response
      /\ r.delete = {s \in Services : IsVidis(s) /\ \A a \in q.response : a.angebot # services[s]}
  BY <1>2, <1>3 DEF VidisRequests
<1>5. OnlyRequest(c) /\ req'[c] = r /\ disturbed' = disturbed /\ services' = services /\ mappings' = mappings
  BY <1>1, <1>2, <1>3, GotoVidis DEF ListObsolete
<1>6. ASSUME VidisWrites(q) PROVE VidisDeletes(r)'
  <2>1. Follows(r)'
    BY <1>4, <1>5, <1>6 DEF VidisWrites, Follows
  <2>2. ASSUME NEW a \in r.response, NEW i \in Ids, orgas'[i].kennung \in a.schulen PROVE IsMapped(a, orgas[i].kennung)'
    <3>1. a \in q.response \ q.save /\ orgas[i].kennung \in a.schulen
      BY <1>2, <1>4, <2>2
    <3>2. IsMapped(a, orgas[i].kennung)
      BY <1>2, <1>6, <3>1 DEF VidisWrites
    <3> QED
      BY <1>5, <3>2 DEF IsMapped
  <2>3. ASSUME NEW s \in Services, IsVidis(s)' PROVE s \in r.delete \/ \E a \in r.response : a.angebot = services'[s]
    BY <1>4, <1>5, <2>3 DEF IsVidis
  <2> QED
    BY <2>1, <2>2, <2>3 DEF VidisDeletes
<1>7. VidisKept(r)'
  BY <1>2, <1>4, <1>5, <1>6 DEF VidisKept, Undisturbed
<1> QED
  BY <1>5, <1>7

(* A service provider that goes has no mappings and no Rolle.               *)
LEMMA ProviderDeleted ==
  ASSUME Typed, VidisInv, NEW c \in Clients, DeleteServiceProvider(c, Attached), orgas' = orgas, rollen' = rollen
  PROVE  OnlyRequest(c) /\ VidisKept(req[c])'
<1>1. PICK q : q = req[c]
  OBVIOUS
<1>2. q \in VidisRequests /\ q.op = "vidis" /\ q.at = "delete" /\ VidisKept(q)
  BY <1>1 DEF DeleteServiceProvider, Typed, RequestsTyped, RequestTyped, VidisInv
<1>3. PICK s \in q.delete :
        /\ services' = IF s \in Attached \/ \E m \in mappings : m.service = s THEN services
                       ELSE [services EXCEPT ![s] = "none"]
        /\ Goto(c, [q EXCEPT !.delete = @ \ {s}])
  BY <1>1 DEF DeleteServiceProvider
<1>4. PICK r : r = [q EXCEPT !.delete = @ \ {s}]
  OBVIOUS
<1>5. r.at = "delete" /\ r.response = q.response /\ r.delete = q.delete \ {s} /\ s \in Services
  BY <1>2, <1>4 DEF VidisRequests
<1>6. OnlyRequest(c) /\ req'[c] = r /\ disturbed' = disturbed /\ mappings' = mappings /\ Attached' = Attached
  BY <1>1, <1>2, <1>3, <1>4, GotoVidis DEF DeleteServiceProvider, Attached
<1>7. \A x \in Services \ {s} : services'[x] = services[x]
  BY <1>3, <1>5 DEF Typed, ServicesTypeOK
<1>8. \A m \in mappings : m.service \in Services /\ services'[m.service] = services[m.service]
  <2>1. \A m \in mappings : m.service \in Services
    BY DEF Typed, ServicesTypeOK
  <2>2. ASSUME NEW m \in mappings, m.service = s PROVE services' = services
    BY <1>3, <2>2
  <2> QED
    BY <1>7, <2>1, <2>2
<1>9. services'[s] = "none" \/ (services' = services /\ (s \in Attached \/ \E m \in mappings : m.service = s))
  BY <1>3, <1>5 DEF Typed, ServicesTypeOK
<1>10. ASSUME VidisDeletes(q) PROVE VidisDeletes(r)'
  <2>1. Follows(r)'
    BY <1>5, <1>6, <1>8, <1>10 DEF VidisDeletes, Follows
  <2>2. ASSUME NEW a \in r.response, NEW i \in Ids, orgas'[i].kennung \in a.schulen PROVE IsMapped(a, orgas[i].kennung)'
    <3>1. IsMapped(a, orgas[i].kennung)
      BY <1>5, <1>10, <2>2 DEF VidisDeletes
    <3> QED
      BY <1>6, <1>8, <3>1 DEF IsMapped
  <2>3. ASSUME NEW x \in Services, IsVidis(x)'
        PROVE  x \in Attached \/ x \in r.delete \/ \E a \in r.response : a.angebot = services'[x]
    <3>1. CASE x # s
      BY <1>5, <1>7, <1>10, <2>3, <3>1 DEF VidisDeletes, IsVidis
    <3>2. CASE x = s
      <4>1. services'[s] # "none"
        BY <2>3, <3>2, ServicesAssumption DEF IsVidis
      <4>2. services' = services /\ (s \in Attached \/ \E m \in mappings : m.service = s)
        BY <1>9, <4>1
      <4>3. ASSUME NEW m \in mappings, m.service = s PROVE \E a \in r.response : a.angebot = services'[x]
        BY <1>5, <1>10, <3>2, <4>2, <4>3 DEF VidisDeletes, Follows
      <4> QED
        BY <3>2, <4>2, <4>3
    <3> QED
      BY <3>1, <3>2
  <2> QED
    BY <1>6, <2>1, <2>2, <2>3 DEF VidisDeletes
<1>11. VidisKept(r)'
  BY <1>2, <1>5, <1>6, <1>10 DEF VidisKept, Undisturbed
<1> QED
  BY <1>6, <1>11

(* So every step about service providers keeps the promise of the job.      *)
LEMMA ServicesVidis ==
  ASSUME Typed, Typed', Alone, VidisInv, ServicesNext(Attached), UNCHANGED <<treeVars, rollenVars>>, [Next]_vars
  PROVE  VidisInv'
<1>d. disturbed \subseteq disturbed'
  BY EveryStep
<1>1. ASSUME NEW c \in Clients, VidisBegins(c) PROVE VidisInv'
  <2>1. PICK q : /\ Begin(c, q) /\ UNCHANGED serviceVars
                 /\ q.op = "vidis" /\ q.at = "clear" /\ q.save = q.response /\ q.map = {} /\ q.delete = {}
    BY <1>1 DEF VidisBegins
  <2>2. OnlyRequest(c) /\ req'[c] = q
    BY <2>1, BeginStep
  <2>3. VidisKept(q)'
    BY <2>1 DEF VidisKept
  <2>4. ASSUME NEW d \in Clients \ {c} PROVE VidisKept(req[d])'
    <3>1. PICK p : p = req[d] /\ p = req'[d]
      BY <2>2 DEF OnlyRequest
    <3>2. VidisKept(p) /\ RequestTyped(p)
      BY <3>1 DEF VidisInv, Typed, RequestsTyped
    <3>3. Attached \subseteq Attached' /\ \A i \in Ids : orgas'[i].kennung = orgas[i].kennung
      BY DEF Attached
    <3>4. VidisKept(p)'
      BY <1>d, <2>1, <3>2, <3>3, VidisStays
    <3> QED
      BY <3>1, <3>4
  <2> QED
    BY <2>2, <2>3, <2>4 DEF VidisInv
<1>2. ASSUME NEW c \in Clients, req[c].op = "vidis", OnlyRequest(c), VidisKept(req[c])' PROVE VidisInv'
  <2>1. ASSUME NEW d \in Clients \ {c} PROVE VidisKept(req[d])'
    <3>1. PICK p : p = req[d] /\ p = req'[d]
      BY <1>2 DEF OnlyRequest
    <3>2. ASSUME p.op = "vidis" PROVE ~Undisturbed("vidis", None)'
      <4>1. Resource \in req[c].touches /\ Resource \in req[d].touches
        BY <1>2, <3>1, <3>2 DEF Typed, RequestsTyped, RequestTyped, VidisRequests
      <4>2. ~Undisturbed("vidis", None)
        BY <4>1, OneOfThem DEF Resource
      <4> QED
        BY <1>d, <4>2 DEF Undisturbed
    <3>3. VidisKept(p)'
      BY <3>2 DEF VidisKept
    <3> QED
      BY <3>1, <3>3
  <2> QED
    BY <1>2, <2>1 DEF VidisInv
<1>3. ASSUME NEW c \in Clients,
             \/ DeleteAllMappings(c) \/ SaveServiceProvider(c) \/ SaveMapping(c)
             \/ ListObsolete(c) \/ DeleteServiceProvider(c, Attached)
      PROVE  VidisInv'
  <2>1. req[c].op = "vidis"
    BY <1>3 DEF DeleteAllMappings, SaveServiceProvider, SaveMapping, ListObsolete, DeleteServiceProvider
  <2>2. OnlyRequest(c) /\ VidisKept(req[c])'
    BY <1>3, MappingsGone, ProviderSaved, MappingSaved, ObsoleteListed, ProviderDeleted
  <2> QED
    BY <1>2, <2>1, <2>2
<1>4. ASSUME NEW c \in Clients, VidisWriteFails(c) PROVE VidisInv'
  <2>1. Resource \in disturbed'
    BY <1>4 DEF VidisWriteFails
  <2>2. \A d \in Clients : VidisKept(req[d])'
    BY <2>1 DEF VidisKept, Undisturbed, Resource
  <2> QED
    BY <2>2 DEF VidisInv
<1>5. ASSUME NEW c \in Clients, VidisEnds(c) PROVE VidisInv'
  <2>1. req[c].op = "vidis" /\ OnlyRequest(c) /\ req'[c] = Idle
    BY <1>5, GiveUpStep DEF VidisEnds, VidisDone
  <2>2. VidisKept(req[c])'
    BY <2>1 DEF VidisKept, Idle
  <2> QED
    BY <1>2, <2>1, <2>2
<1> QED
  BY <1>1, <1>3, <1>4, <1>5 DEF ServicesNext

(* Every step of the system does.                                           *)
LEMMA NextVidisInv ==
  ASSUME Typed, Typed', OrgaVersions, RolleVersions, TreeInv, RolleInv, VidisInv, [Next]_vars
  PROVE  VidisInv'
<1>1. CASE TreeNext(Assigned, Mapped) /\ UNCHANGED <<serviceVars, rollenVars>>
  BY <1>1, TreeVidis
<1>2. CASE ServicesNext(Attached) /\ UNCHANGED <<treeVars, rollenVars>>
  BY <1>2, ServicesVidis DEF TreeInv
<1>3. CASE RollenNext /\ UNCHANGED <<treeVars, serviceVars>>
  BY <1>3, RollenVidis DEF TreeInv
<1>4. CASE UNCHANGED vars
  <2>1. ASSUME NEW c \in Clients PROVE VidisKept(req[c])'
    <3>1. PICK p : p = req[c] /\ p = req'[c]
      BY <1>4
    <3>2. VidisKept(p) /\ RequestTyped(p)
      BY <3>1 DEF VidisInv, Typed, RequestsTyped
    <3>3. Attached \subseteq Attached' /\ \A i \in Ids : orgas'[i].kennung = orgas[i].kennung
      BY <1>4 DEF Attached
    <3>4. VidisKept(p)'
      BY <1>4, <3>2, <3>3, VidisStays
    <3> QED
      BY <3>1, <3>4
  <2> QED
    BY <2>1 DEF VidisInv
<1> QED
  BY <1>1, <1>2, <1>3, <1>4 DEF Next

(* When the job is done, what it has written is what VIDIS answered.        *)
LEMMA VidisInvSound ==
  ASSUME VidisInv
  PROVE  VidisSound
<1> SUFFICES ASSUME NEW c \in Clients, VidisDone(c), Undisturbed("vidis", None)
             PROVE  /\ \A m \in mappings : \E a \in req[c].response :
                         services[m.service] = a.angebot /\ orgas[m.orga].kennung \in a.schulen
                    /\ \A a \in req[c].response, i \in Ids : orgas[i].kennung \in a.schulen =>
                         \E m \in mappings : services[m.service] = a.angebot /\ orgas[m.orga].kennung = orgas[i].kennung
                    /\ \A s \in Services : IsVidis(s) =>
                         s \in Attached \/ \E a \in req[c].response : a.angebot = services[s]
  BY DEF VidisSound
<1>1. VidisDeletes(req[c]) /\ req[c].delete = {}
  BY DEF VidisInv, VidisKept, VidisDone
<1> QED
  BY <1>1 DEF VidisDeletes, Follows, IsMapped

(* What the checks promise holds for any number of requests, organisations, *)
(* Rollen and service providers, if it held to begin with: names, Kennungen *)
(* and the shape of the tree, what Kontexte refer to and what the job of    *)
(* VIDIS has written, as far as no two requests touched the same at a time. *)
THEOREM StructureIsKept == StructureHolds /\ Spec => []StructureHolds
<1> DEFINE Inv == Typed /\ OrgaVersions /\ RolleVersions /\ ~overwritten
                /\ TreeInv /\ RolleInv /\ VidisInv
<1>1. StructureHolds /\ Init => Inv
  <2>1. Init => VidisInv
    BY DEF Init, NothingBegun, VidisInv, VidisKept, Idle
  <2>2. Init => ~overwritten
    BY DEF Init, NothingBegun
  <2> QED
    BY <2>1, <2>2, InitTyped, InitVersions, InitTreeInv, InitRolleInv DEF StructureHolds
<1>2. Inv /\ [Next]_vars => Inv'
  <2> SUFFICES ASSUME Inv, [Next]_vars PROVE Inv'
    OBVIOUS
  <2>1. Typed'
    BY NextTyped
  <2>2. OrgaVersions' /\ RolleVersions' /\ ~overwritten'
    BY <2>1, NextVersions
  <2>3. TreeInv'
    BY <2>1, NextTreeInv
  <2>4. RolleInv'
    BY NextRolleInv
  <2>5. VidisInv'
    BY <2>1, NextVidisInv
  <2> QED
    BY <2>1, <2>2, <2>3, <2>4, <2>5
<1>3. Inv => StructureHolds
  BY VidisInvSound DEF StructureHolds, TreeInv, RolleInv
<1> QED
  BY <1>1, <1>2, <1>3, PTL DEF Spec

-----------------------------------------------------------------------------
(* Klassen in itslearning                                                  *)

(* What itslearning should have of a Klasse, when its Schule is there.      *)
Claimed(k) == orgas[k].typ = "KLASSE" => IsThere(orgas[k].administriertVon)
Want(k) ==
  LET o == orgas[k] schule == o.administriertVon IN
  IF o.typ = "KLASSE" /\ IsThere(schule) /\ orgas[schule].itslearningEnabled
  THEN [name |-> o.name, parentId |-> schule] ELSE NoGroup

(* A handler touches nothing that another one or a request touches, unless  *)
(* it is disturbed.                                                         *)
GroupsAlone ==
  /\ \A c \in Clients, t \in tasks : req[c].touches \intersect t.touches \subseteq disturbed
  /\ \A t, u \in tasks : t # u => t.touches \intersect u.touches \subseteq disturbed

(* The Schule of a Klasse has been created, though it may be gone.          *)
SchuleCreated(o) ==
  o.typ = "KLASSE" /\ o.administriertVon # None => orgas[o.administriertVon].version > 0
RowCreated(q) == q.op \in OrgaOps \union {"create"} => SchuleCreated(q.row)

(* What requests tell that they touch in itslearning, and what they leave.  *)
GroupAsked(q) ==
  /\ q.op = "create" => q.id \in NewIds
  /\ q.op \in {"create", "rename", "delete"} => \A x : <<"group", x>> \in q.touches => x = q.id
  /\ q.op \in {"rename", "delete"} \/ (q.op = "create" /\ q.row.typ = "KLASSE") => <<"group", q.id>> \in q.touches
  /\ q.op = "enable" => /\ q.row.typ = "SCHULE" /\ q.row.itslearningEnabled
                        /\ \A x \in NewIds : <<"group", x>> \in q.touches
  /\ q.op = "rename" => q.row.typ = "KLASSE"
  /\ q.op \in {"rename", "enable"} /\ q.version = q.read =>
       q.row.typ = q.seen.typ /\ q.row.administriertVon = q.seen.administriertVon
  /\ q.op \in {"put", "move", "rename"} /\ q.version = q.read => q.row.itslearningEnabled = q.seen.itslearningEnabled

(* All Klassen of a Schule are touched.                                     *)
Covers(touches, i) ==
  \A k \in Ids : /\ orgas[k].typ = "KLASSE" /\ orgas[k].administriertVon = i /\ Undisturbed("group", k)
                 => <<"group", k>> \in touches

(* What they have read of the Schule is still so.                           *)
GroupChecked(q) ==
  /\ /\ (q.op = "create" /\ q.row.typ = "KLASSE") \/ (q.op = "rename" /\ IsCurrent(q))
     /\ Undisturbed("group", q.id) /\ IsThere(q.row.administriertVon)
     => (q.enabled <=> orgas[q.row.administriertVon].itslearningEnabled)
  /\ q.op = "enable" => Covers(q.touches, q.id)

(* A handler has a Klasse right when it sends what it should, or leaves     *)
(* what is already there.                                                   *)
Right(t, k) ==
  /\ t.op = "group" => Want(k) = [name |-> t.name, parentId |-> t.parentId]
  /\ t.op = "deleted" => Want(k) = NoGroup
  /\ t.op = "enabled" => \/ groups[k] = Want(k)
                         \/ /\ orgas[k].typ = "KLASSE" /\ orgas[k].administriertVon = t.id
                            /\ orgas[t.id].itslearningEnabled
  /\ t.op = "store" /\ k \in DOMAIN t.names => Want(k) = [name |-> t.names[k], parentId |-> t.id]
  /\ t.op = "store" /\ k \notin DOMAIN t.names => Want(k) = groups[k]

(* Handlers touch what they change; a Schule that is enabled stays so.      *)
Enabled(i) ==
  /\ orgas[i].version > 0 /\ (Undisturbed("group", i) => orgas[i].typ # "KLASSE")
  /\ IsThere(i) => orgas[i].itslearningEnabled
TaskAsked(t) ==
  /\ t.op \in {"group", "deleted", "enabled", "store"}
  /\ t.op \in {"group", "deleted"} => \A x : <<"group", x>> \in t.touches <=> x = t.id
  /\ t.op = "enabled" => Enabled(t.id) /\ Covers(t.touches, t.id) /\ \A x \in NewIds : <<"group", x>> \in t.touches
  /\ t.op = "store" => \A k \in DOMAIN t.names : Undisturbed("group", k) => <<"group", k>> \in t.touches

(* What is not as it should be yet, a handler that is about to change it    *)
(* has right.                                                               *)
GroupRight(k) ==
  Undisturbed("group", k) /\ Claimed(k) =>
    /\ (\A t \in tasks : <<"group", k>> \notin t.touches) => groups[k] = Want(k)
    /\ \A t \in tasks : <<"group", k>> \in t.touches => Right(t, k)

GroupInv ==
  /\ Alone /\ GroupsAlone
  /\ \A k \in Ids : SchuleCreated(orgas[k]) /\ GroupRight(k)
  /\ \A c \in Clients : RowCreated(req[c]) /\ GroupAsked(req[c]) /\ GroupChecked(req[c])
  /\ \A t \in tasks : TaskAsked(t)

(* A request about organisations begins with what it has read.              *)
LEMMA GroupBegins ==
  ASSUME Typed, OrgaVersions, GroupInv, NEW c \in Clients,
         \/ CreateOrganisation(c) \/ PutOrganisation(c) \/ UpdateKlassenname(c)
         \/ SetEnabledForitslearning(c) \/ DeleteKlasse(c, Assigned)
         \/ \E kind \in Kinds : SetParent(c, kind)
  PROVE  \E q : Begin(c, q) /\ UNCHANGED treeVars /\ RowCreated(q) /\ GroupAsked(q) /\ GroupChecked(q)
<1> DEFINE Goal == \E q : Begin(c, q) /\ UNCHANGED treeVars /\ RowCreated(q) /\ GroupAsked(q) /\ GroupChecked(q)
<1>t. TreeTypeOK /\ Kinds = {"administriertVon", "zugehoerigZu"}
  BY DEF Typed, Kinds
<1>v. \A p \in Ids : IsThere(p) => orgas[p].version > 0 /\ orgas[p] \in Rows
  BY RowsTyped, <1>t DEF OrgaVersions, IsThere
<1>w. ASSUME NEW op, NEW i, NEW o, NEW v, NEW touches
      PROVE  LET q == Write(op, i, o, v, touches) IN
             /\ q.op = op /\ q.id = i /\ q.row = o /\ q.read = orgas[i].version /\ q.version = v
             /\ q.touches = touches /\ (v = orgas[i].version => q.seen = orgas[i])
             /\ (o.administriertVon # None => (q.enabled <=> orgas[o.administriertVon].itslearningEnabled))
  BY DEF Write
<1>c. ASSUME NEW o \in Rows, KlassenSpecifications(o) PROVE SchuleCreated(o)
  <2>1. SUFFICES ASSUME o.typ = "KLASSE", o.administriertVon # None PROVE orgas[o.administriertVon].version > 0
    BY DEF SchuleCreated
  <2>2. o.administriertVon \in Ids /\ IsThere(o.administriertVon)
    BY <1>c, <2>1 DEF KlassenSpecifications, KlassenNameAnSchuleEindeutig, Rows
  <2> QED
    BY <2>2, <1>v
<1>1. ASSUME CreateOrganisation(c) PROVE Goal
  <2>1. PICK i \in NewIds, b \in NewOrgas :
          LET o == [b EXCEPT !.version = 1] IN
          /\ KlassenSpecifications(o)
          /\ Begin(c, Write("create", i, o, 0, Touches(i, o))) /\ UNCHANGED treeVars
    BY <1>1 DEF CreateOrganisation
  <2> DEFINE o == [b EXCEPT !.version = 1]
             q == Write("create", i, o, 0, Touches(i, o))
  <2>2. o \in Rows /\ i \in Ids
    BY DEF Rows
  <2>3. /\ q.op = "create" /\ q.id = i /\ q.row = o /\ q.touches = Touches(i, o)
        /\ (o.administriertVon # None => (q.enabled <=> orgas[o.administriertVon].itslearningEnabled))
    <3> HIDE DEF o
    <3> QED
      BY <1>w
  <2> HIDE DEF o, q
  <2>4. KlassenSpecifications(o) /\ Begin(c, q) /\ UNCHANGED treeVars
    BY <2>1 DEF o, q
  <2>5. (\A x : <<"group", x>> \in Touches(i, o) => x = i) /\ (o.typ = "KLASSE" => <<"group", i>> \in Touches(i, o))
    BY DEF Touches
  <2>6. GroupAsked(q)
    BY <2>3, <2>5 DEF GroupAsked
  <2>7. GroupChecked(q)
    BY <2>3 DEF GroupChecked, IsThere
  <2>8. RowCreated(q)
    BY <2>2, <2>3, <2>4, <1>c DEF RowCreated
  <2> QED
    BY <2>4, <2>6, <2>7, <2>8
<1>2. ASSUME PutOrganisation(c) PROVE Goal
  <2>1. PICK i \in Ids, b \in Bodies :
          LET o == [b EXCEPT !.version = orgas[i].version, !.itslearningEnabled = orgas[i].itslearningEnabled] IN
          /\ IsThere(i) /\ KlassenSpecifications(o)
          /\ Begin(c, Write("put", i, o, orgas[i].version, Touches(i, o) \union Touches(i, orgas[i])))
          /\ UNCHANGED treeVars
    BY <1>2 DEF PutOrganisation
  <2> DEFINE o == [b EXCEPT !.version = orgas[i].version, !.itslearningEnabled = orgas[i].itslearningEnabled]
             q == Write("put", i, o, orgas[i].version, Touches(i, o) \union Touches(i, orgas[i]))
  <2>2. o \in Rows /\ o.itslearningEnabled = orgas[i].itslearningEnabled
    <3>1. orgas[i] \in Rows
      BY <2>1, <1>v
    <3> QED
      BY <3>1 DEF Rows
  <2>3. q.op = "put" /\ q.id = i /\ q.row = o /\ q.seen = orgas[i]
    <3> HIDE DEF o
    <3> QED
      BY <1>w
  <2> HIDE DEF o, q
  <2>4. KlassenSpecifications(o) /\ Begin(c, q) /\ UNCHANGED treeVars
    BY <2>1 DEF o, q
  <2>5. RowCreated(q)
    BY <2>2, <2>3, <2>4, <1>c DEF RowCreated
  <2> QED
    BY <2>2, <2>3, <2>4, <2>5 DEF GroupAsked, GroupChecked
<1>3. ASSUME UpdateKlassenname(c) PROVE Goal
  <2>1. PICK i, name, version :
          LET o == [orgas[i] EXCEPT !.name = name] IN
          /\ i \in Ids /\ name \in Names /\ Typ(i) = "KLASSE"
          /\ Begin(c, Write("rename", i, o, version, {<<"names", o.administriertVon>>, <<"group", i>>}))
          /\ UNCHANGED treeVars
    BY <1>3 DEF UpdateKlassenname
  <2>i. i \in Ids /\ name \in Names
    BY <2>1
  <2> DEFINE o == [orgas[i] EXCEPT !.name = name]
             q == Write("rename", i, o, version, {<<"names", o.administriertVon>>, <<"group", i>>})
  <2>2. orgas[i] \in Rows /\ orgas[i].typ = "KLASSE"
    BY <2>1, <1>v DEF Typ, IsThere
  <2>3. /\ o.typ = "KLASSE" /\ o.administriertVon = orgas[i].administriertVon
        /\ o.itslearningEnabled = orgas[i].itslearningEnabled
    BY <2>2, <2>i DEF Rows
  <2>4. /\ q.op = "rename" /\ q.id = i /\ q.row = o /\ q.read = orgas[i].version /\ q.version = version
        /\ q.touches = {<<"names", o.administriertVon>>, <<"group", i>>}
        /\ (version = orgas[i].version => q.seen = orgas[i])
        /\ (o.administriertVon # None => (q.enabled <=> orgas[o.administriertVon].itslearningEnabled))
    <3> HIDE DEF o
    <3> QED
      BY <1>w
  <2> HIDE DEF o, q
  <2>5. Begin(c, q) /\ UNCHANGED treeVars
    BY <2>1 DEF o, q
  <2>6. GroupAsked(q)
    BY <2>2, <2>3, <2>4 DEF GroupAsked
  <2>7. GroupChecked(q)
    BY <2>4 DEF GroupChecked, IsThere
  <2>8. RowCreated(q)
    BY <2>2, <2>3, <2>4, <2>i DEF RowCreated, SchuleCreated, GroupInv
  <2> QED
    BY <2>5, <2>6, <2>7, <2>8
<1>4. ASSUME SetEnabledForitslearning(c) PROVE Goal
  <2>1. PICK i \in Ids :
          /\ Typ(i) = "SCHULE"
          /\ Begin(c, Write("enable", i, [orgas[i] EXCEPT !.itslearningEnabled = TRUE], orgas[i].version,
                            {<<"group", x>> : x \in NewIds \union Below(i)}))
          /\ UNCHANGED treeVars
    BY <1>4 DEF SetEnabledForitslearning
  <2> DEFINE o == [orgas[i] EXCEPT !.itslearningEnabled = TRUE]
             touches == {<<"group", x>> : x \in NewIds \union Below(i)}
             q == Write("enable", i, o, orgas[i].version, touches)
  <2>2. orgas[i] \in Rows /\ orgas[i].typ = "SCHULE"
    BY <2>1, <1>v DEF Typ, IsThere
  <2>3. o.typ = "SCHULE" /\ o.administriertVon = orgas[i].administriertVon /\ o.itslearningEnabled
    BY <2>2 DEF Rows
  <2>4. q.op = "enable" /\ q.id = i /\ q.row = o /\ q.seen = orgas[i] /\ q.touches = touches
    <3> HIDE DEF o, touches
    <3> QED
      BY <1>w
  <2>5. \A x \in NewIds \union Below(i) : <<"group", x>> \in touches
    OBVIOUS
  <2>6. Begin(c, q) /\ UNCHANGED treeVars
    BY <2>1
  <2> HIDE DEF o, q, touches
  <2>7. GroupAsked(q)
    BY <2>2, <2>3, <2>4, <2>5 DEF GroupAsked
  <2>8. Covers(touches, i)
    <3>1. SUFFICES ASSUME NEW k \in Ids, orgas[k].typ = "KLASSE", orgas[k].administriertVon = i
                   PROVE  k \in Below(i)
      BY <2>5 DEF Covers
    <3>2. IsThere(k) /\ k # i
      BY <2>2, <3>1 DEF IsThere
    <3> QED
      BY <1>t, <3>1, <3>2, ChildrenBelow
  <2>9. RowCreated(q)
    BY <2>3, <2>4 DEF RowCreated, SchuleCreated
  <2> QED
    BY <2>4, <2>6, <2>7, <2>8, <2>9 DEF GroupChecked
<1>5. ASSUME DeleteKlasse(c, Assigned) PROVE Goal
  <2>1. PICK i \in Ids :
          /\ Begin(c, Write("delete", i, NoOrga, orgas[i].version, {<<"orga", i>>, <<"group", i>>}))
          /\ UNCHANGED treeVars
    BY <1>5 DEF DeleteKlasse
  <2> DEFINE q == Write("delete", i, NoOrga, orgas[i].version, {<<"orga", i>>, <<"group", i>>})
  <2>2. q.op = "delete" /\ q.id = i /\ q.touches = {<<"orga", i>>, <<"group", i>>}
    BY <1>w
  <2> HIDE DEF q
  <2>3. Begin(c, q) /\ UNCHANGED treeVars
    BY <2>1 DEF q
  <2> QED
    BY <2>2, <2>3 DEF GroupAsked, GroupChecked, RowCreated, OrgaOps
<1>6. ASSUME NEW kind \in Kinds, SetParent(c, kind) PROVE Goal
  <2>1. PICK i, parent, touches :
          LET o == [orgas[i] EXCEPT ![kind] = parent] IN
          /\ i \in Ids /\ parent \in Ids /\ IsThere(i)
          /\ KlassenSpecifications(o)
          /\ Begin(c, Write("move", i, o, orgas[i].version, touches))
          /\ UNCHANGED treeVars
    BY <1>6 DEF SetParent
  <2>i. i \in Ids /\ parent \in Ids
    BY <2>1
  <2> DEFINE o == [orgas[i] EXCEPT ![kind] = parent]
             q == Write("move", i, o, orgas[i].version, touches)
  <2>2. orgas[i] \in Rows
    BY <2>1, <1>v
  <2>3. o \in Rows /\ o.itslearningEnabled = orgas[i].itslearningEnabled
    BY <2>2, <2>i, <1>t DEF Rows
  <2>4. q.op = "move" /\ q.id = i /\ q.row = o /\ q.seen = orgas[i]
    <3> HIDE DEF o
    <3> QED
      BY <1>w
  <2> HIDE DEF o, q
  <2>5. KlassenSpecifications(o) /\ Begin(c, q) /\ UNCHANGED treeVars
    BY <2>1 DEF o, q
  <2>6. RowCreated(q)
    BY <2>3, <2>4, <2>5, <1>c DEF RowCreated
  <2> QED
    BY <2>3, <2>4, <2>5, <2>6 DEF GroupAsked, GroupChecked
<1> HIDE DEF Goal
<1>7. Goal
  BY <1>1, <1>2, <1>3, <1>4, <1>5, <1>6
<1> QED
  BY <1>7 DEF Goal

(* Other requests neither ask nor have checked anything about Klassen.      *)
LEMMA NoGroupAsked ==
  ASSUME NEW q, q.op \notin OrgaOps \union {"create", "delete"}
  PROVE  RowCreated(q) /\ GroupAsked(q) /\ GroupChecked(q)
BY DEF RowCreated, GroupAsked, GroupChecked, OrgaOps

(* What they have checked remains so, as long as organisations do.          *)
LEMMA GroupCheckedStays ==
  ASSUME NEW q, RowCreated(q), GroupChecked(q), orgas' = orgas, disturbed \subseteq disturbed'
  PROVE  RowCreated(q)' /\ GroupChecked(q)'
BY DEF RowCreated, SchuleCreated, GroupChecked, Covers, Undisturbed, IsThere, IsCurrent

(* As long as organisations, groups and handlers are as they are, only a    *)
(* request that begins has to be looked at.                                 *)
LEMMA GroupStays ==
  ASSUME GroupInv, Alone', orgas' = orgas, groups' = groups, tasks' = tasks, disturbed \subseteq disturbed',
         \/ req' = req
         \/ \E c \in Clients : /\ OnlyRequest(c)
                               /\ RowCreated(req'[c]) /\ GroupAsked(req'[c]) /\ GroupChecked(req'[c])
                               /\ \A t \in tasks : req'[c].touches \intersect t.touches \subseteq disturbed'
  PROVE  GroupInv'
<1>1. ASSUME NEW d \in Clients
      PROVE  /\ RowCreated(req'[d]) /\ GroupAsked(req'[d]) /\ GroupChecked(req'[d])
             /\ \A t \in tasks : req'[d].touches \intersect t.touches \subseteq disturbed'
  BY <1>1 DEF GroupInv, GroupsAlone, OnlyRequest
<1>2. ASSUME NEW d \in Clients PROVE RowCreated(req[d])' /\ GroupAsked(req[d])' /\ GroupChecked(req[d])'
  <2>1. PICK q : q = req'[d]
    OBVIOUS
  <2>2. RowCreated(q) /\ GroupAsked(q) /\ GroupChecked(q)
    BY <1>1, <2>1
  <2>3. RowCreated(q)' /\ GroupChecked(q)'
    BY <2>2, GroupCheckedStays
  <2> QED
    BY <2>1, <2>2, <2>3
<1>3. GroupsAlone'
  BY <1>1 DEF GroupInv, GroupsAlone
<1>4. ASSUME NEW k \in Ids PROVE SchuleCreated(orgas[k])' /\ GroupRight(k)'
  <2>1. SchuleCreated(orgas[k])'
    BY DEF GroupInv, SchuleCreated
  <2>2. (Want(k)' = Want(k)) /\ (Claimed(k)' <=> Claimed(k)) /\ (Undisturbed("group", k)' => Undisturbed("group", k))
    BY DEF Want, Claimed, IsThere, Undisturbed
  <2>3. ASSUME NEW t, Right(t, k) PROVE Right(t, k)'
    BY <2>2, <2>3 DEF Right
  <2> QED
    BY <2>1, <2>2, <2>3 DEF GroupInv, GroupRight
<1>5. ASSUME NEW t \in tasks PROVE TaskAsked(t)'
  BY DEF GroupInv, TaskAsked, Covers, Undisturbed, Enabled, IsThere
<1> QED
  BY <1>2, <1>3, <1>4, <1>5 DEF GroupInv

(* A request that begins.                                                   *)
LEMMA GroupBegun ==
  ASSUME Typed, GroupInv, Alone', NEW c \in Clients, NEW q, Begin(c, q), orgas' = orgas, groups' = groups,
         RowCreated(q), GroupAsked(q), GroupChecked(q)
  PROVE  GroupInv'
<1>1. OnlyRequest(c) /\ req'[c] = q /\ tasks' = tasks /\ disturbed' = disturbed \union (q.touches \intersect Touched)
  BY BeginStep DEF Begin
<1>2. \A t \in tasks : t.touches \subseteq Touched
  BY DEF Touched, InProgress
<1> QED
  BY <1>1, <1>2, GroupStays

(* A request that goes on, or gives up.                                     *)
LEMMA GroupRests ==
  ASSUME GroupInv, Alone', NEW c \in Clients, OnlyRequest(c), orgas' = orgas, groups' = groups, tasks' = tasks,
         disturbed \subseteq disturbed', req'[c].touches \subseteq req[c].touches,
         req'[c].op \notin OrgaOps \union {"create", "delete"}
  PROVE  GroupInv'
<1>1. \A t \in tasks : req'[c].touches \intersect t.touches \subseteq disturbed'
  BY DEF GroupInv, GroupsAlone
<1> QED
  BY <1>1, NoGroupAsked, GroupStays

(* Only requests about organisations concern Klassen.                       *)
LEMMA OthersGroups ==
  ASSUME Typed, GroupInv, Alone', [Next]_vars,
         \/ ServicesNext(Attached) /\ UNCHANGED <<treeVars, rollenVars>>
         \/ RollenNext /\ UNCHANGED <<treeVars, serviceVars>>
         \/ UNCHANGED vars
  PROVE  GroupInv'
<1>1. orgas' = orgas /\ groups' = groups
  OBVIOUS
<1>2. disturbed \subseteq disturbed'
  BY EveryStep
<1>3. tasks' = tasks
  <2>1. CASE ServicesNext(Attached)
    <3>1. ASSUME NEW c \in Clients, NEW q, Begin(c, q) \/ Goto(c, q) \/ GiveUp(c) PROVE tasks' = tasks
      BY <3>1 DEF Begin, Goto, GiveUp, End
    <3>2. ASSUME NEW c \in Clients, VidisBegins(c) \/ DeleteAllMappings(c) \/ SaveServiceProvider(c) PROVE tasks' = tasks
      BY <3>1, <3>2 DEF VidisBegins, DeleteAllMappings, SaveServiceProvider
    <3>3. ASSUME NEW c \in Clients, SaveMapping(c) \/ ListObsolete(c) \/ DeleteServiceProvider(c, Attached) PROVE tasks' = tasks
      BY <3>1, <3>3 DEF SaveMapping, ListObsolete, DeleteServiceProvider
    <3>4. ASSUME NEW c \in Clients, VidisWriteFails(c) \/ VidisEnds(c) PROVE tasks' = tasks
      BY <3>1, <3>4 DEF VidisWriteFails, VidisEnds
    <3> QED
      BY <2>1, <3>2, <3>3, <3>4 DEF ServicesNext
  <2>2. CASE RollenNext
    <3>1. ASSUME NEW c \in Clients, NEW q, Begin(c, q) \/ GiveUp(c) PROVE tasks' = tasks
      BY <3>1 DEF Begin, GiveUp, End
    <3>2. ASSUME NEW c \in Clients, NEW seen, End(c, seen, {}, {}) PROVE tasks' = tasks
      BY <3>2 DEF End
    <3>3. ASSUME NEW c \in Clients, \/ CreateRolle(c) \/ AddSystemRecht(c) \/ SetServiceProviders(c) \/ UpdateRolle(c)
                                    \/ DeleteRolleBegins(c) \/ AssignKontext(c)
          PROVE  tasks' = tasks
      BY <3>1, <3>3 DEF CreateRolle, AddSystemRecht, SetServiceProviders, UpdateRolle, DeleteRolleBegins, AssignKontext, SaveBegins
    <3>4. ASSUME NEW c \in Clients, InsertRolle(c) \/ WriteRolle(c) \/ WriteRolleFails(c) \/ DeleteRolle(c) \/ InsertKontext(c)
          PROVE  tasks' = tasks
      BY <3>1, <3>2, <3>4 DEF InsertRolle, WriteRolle, WriteRolleFails, DeleteRolle, InsertKontext
    <3>5. DeleteKontext => tasks' = tasks
      BY DEF DeleteKontext
    <3> QED
      BY <2>2, <3>3, <3>4, <3>5 DEF RollenNext
  <2>3. CASE UNCHANGED vars
    BY <2>3
  <2> QED
    BY <2>1, <2>2, <2>3
<1>4. CASE req' = req
  BY <1>1, <1>2, <1>3, <1>4, GroupStays
<1>5. CASE req' # req
  <2>1. PICK c \in Clients :
          /\ OnlyRequest(c) /\ req'[c].op \in RolleOps \union {"none", "vidis"}
    <3>1. CASE ServicesNext(Attached)
      BY <1>5, <3>1, ServicesStep DEF NoRequest
    <3>2. CASE RollenNext
      BY <1>5, <3>2, RollenStep DEF NoRequest
    <3> QED
      BY <1>5, <3>1, <3>2
  <2>2. req'[c].op \notin OrgaOps \union {"create", "delete"}
    BY <2>1 DEF RolleOps, OrgaOps
  <2>3. PICK d \in Clients :
          /\ OnlyRequest(d)
          /\ \/ \E q : Begin(d, q) /\ req'[d] = q
             \/ req'[d].touches \subseteq req[d].touches
    BY <1>5, EveryStep
  <2>4. CASE c # d
    <3>1. req'[c] = req[c]
      BY <2>3, <2>4 DEF OnlyRequest
    <3> QED
      BY <1>1, <1>2, <1>3, <2>1, <2>2, <3>1, GroupRests
  <2>6. CASE c = d /\ req'[d].touches \subseteq req[d].touches
    BY <1>1, <1>2, <1>3, <2>1, <2>2, <2>6, GroupRests
  <2>7. CASE c = d /\ \E q : Begin(d, q) /\ req'[d] = q
    BY <1>1, <2>2, <2>7, NoGroupAsked, GroupBegun
  <2> QED
    BY <2>3, <2>4, <2>6, <2>7
<1> QED
  BY <1>4, <1>5

(* A save: what it writes, and what it tells itslearning.                   *)
Tells(c, q) ==
  /\ q = req[c] /\ Writes(c)
  /\ groups' = groups /\ tasks' = tasks \union Started(q)
  /\ disturbed' = disturbed \union (IF q.op \in {"put", "move"} THEN {<<"group", q.id>>} ELSE {})
  /\ orgas'[q.id].itslearningEnabled = q.row.itslearningEnabled
  /\ orgas'[q.id].version > orgas[q.id].version
  /\ q.op = "rename" => IsCurrent(q)

(* A POST and a save are of that kind.                                      *)
LEMMA WriteTells ==
  ASSUME Typed, OrgaVersions, NEW c \in Clients, Insert(c) \/ Update(c)
  PROVE  \E q : Tells(c, q)
<1>1. PICK q : q = req[c]
  OBVIOUS
<1>2. Writes(c)
  BY InsertWrites, UpdateWrites
<1>3. q.id \in Ids /\ q.row \in Rows /\ orgas[q.id].version \in Nat
  <2>1. q.id \in Ids /\ q.row \in Rows
    BY <1>1, <1>2 DEF Writes
  <2> QED
    BY <2>1, RowsTyped DEF Typed
<1>4. DOMAIN orgas = Ids
  BY DEF Typed, TreeTypeOK
<1>5. CASE Insert(c)
  <2>1. q.op = "create" /\ orgas' = [orgas EXCEPT ![q.id] = q.row]
    BY <1>1, <1>5 DEF Insert
  <2>2. groups' = groups /\ tasks' = tasks \union Started(q) /\ disturbed' = disturbed
    BY <1>1, <1>5 DEF Insert, End
  <2>3. orgas[q.id].version = 0 /\ orgas'[q.id].version > 0
    BY <1>1, <1>2, <2>1 DEF Writes
  <2>4. orgas'[q.id] = q.row
    BY <1>3, <1>4, <2>1
  <2> QED
    BY <1>1, <1>2, <2>1, <2>2, <2>3, <2>4 DEF Tells
<1>6. CASE Update(c)
  <2>1. q.op \in {"put", "move", "rename", "enable"} /\ IsCurrent(q)
    BY <1>1, <1>6 DEF Update
  <2>2. /\ groups' = groups /\ tasks' = tasks \union Started(q)
        /\ disturbed' = disturbed \union (IF q.op \in {"put", "move"} THEN {<<"group", q.id>>} ELSE {})
    BY <1>1, <1>6 DEF Update, End
  <2>3. orgas' = [orgas EXCEPT ![q.id] = [q.row EXCEPT !.version = q.read + 1]] /\ orgas[q.id].version = q.read
    BY <1>1, <1>6 DEF Update, NextVersion, IsCurrent
  <2>4. orgas'[q.id] = [q.row EXCEPT !.version = q.read + 1]
    BY <1>3, <1>4, <2>3
  <2>5. orgas'[q.id].itslearningEnabled = q.row.itslearningEnabled /\ orgas'[q.id].version = q.read + 1
    BY <1>3, <2>4 DEF Rows
  <2> QED
    BY <1>1, <1>2, <1>3, <2>1, <2>2, <2>3, <2>5 DEF Tells
<1> QED
  BY <1>5, <1>6

(* The handlers that a save starts.                                         *)
LEMMA StartedBy ==
  ASSUME NEW q, q.op \in OrgaOps \union {"create"}, NEW t, t \in Started(q)
  PROVE  /\ t.id = q.id /\ t.touches \subseteq q.touches
         /\ \A x : <<"group", x>> \in q.touches => <<"group", x>> \in t.touches
         /\ \/ /\ t.op = "group" /\ t.name = q.row.name /\ t.parentId = q.row.administriertVon
               /\ q.enabled /\ (q.op = "rename" \/ (q.op = "create" /\ q.row.typ = "KLASSE"))
            \/ t.op = "enabled" /\ q.op = "enable"
<1>1. t.op = "group" \/ t.op = "enabled"
  BY DEF Started, GroupTask, OrgaOps
<1>2. t = GroupTask(t.op, q)
  BY DEF Started, GroupTask, OrgaOps
<1>3. /\ t.id = q.id /\ t.name = q.row.name /\ t.parentId = q.row.administriertVon
      /\ t.touches = {u \in q.touches : u[1] = "group"}
  BY <1>2 DEF GroupTask
<1>4. \/ t.op = "group" /\ q.enabled /\ (q.op = "rename" \/ (q.op = "create" /\ q.row.typ = "KLASSE"))
      \/ t.op = "enabled" /\ q.op = "enable"
  BY DEF Started, GroupTask, OrgaOps
<1> QED
  BY <1>3, <1>4

(* It starts one handler at most, and one where there is something to tell. *)
LEMMA StartsOne ==
  ASSUME NEW q, q.op \in OrgaOps \union {"create"}
  PROVE  /\ \A t, u \in Started(q) : t = u
         /\ q.op = "enable" => Started(q) # {}
         /\ q.enabled /\ (q.op = "rename" \/ (q.op = "create" /\ q.row.typ = "KLASSE")) => Started(q) # {}
         /\ q.op = "create" /\ q.row.typ # "KLASSE" => Started(q) = {}
BY DEF Started, OrgaOps

(* What else a save leaves of the organisations.                            *)
LEMMA SaveKeeps ==
  ASSUME Typed, Typed', OrgaVersions, GroupInv, NEW c \in Clients, NEW q, Tells(c, q)
  PROVE  /\ q.id \in Ids /\ q.op \in OrgaOps \union {"create"}
         /\ \A x \in Ids : orgas[x].version > 0 => orgas'[x].version > 0
         /\ \A x \in Ids : orgas[x].itslearningEnabled => orgas'[x].itslearningEnabled
         /\ \A k \in Ids : SchuleCreated(orgas[k])'
         /\ \A o : SchuleCreated(o) /\ o.administriertVon \in Ids \union {None} => SchuleCreated(o)'
         /\ q.op = "create" => orgas[q.id].typ = "none" /\ orgas[q.id].version = 0
         /\ q.op # "create" => orgas[q.id].typ # "none" /\ q.seen = orgas[q.id] /\ q.version = q.read
<1>1. /\ q.id \in Ids /\ q.op \in OrgaOps \union {"create"} /\ q = req[c]
      /\ \A j \in Ids \ {q.id} : orgas'[j] = orgas[j]
      /\ orgas'[q.id].typ = q.row.typ /\ orgas'[q.id].administriertVon = q.row.administriertVon
      /\ orgas'[q.id].version > 0
      /\ orgas'[q.id].itslearningEnabled = q.row.itslearningEnabled
      /\ q.op = "create" => orgas[q.id].version = 0
      /\ q.op # "create" => q.version = q.read /\ q.seen = orgas[q.id] /\ orgas[q.id].typ # "none"
  BY DEF Tells, Writes, Kinds
<1>2. GroupAsked(q) /\ RowCreated(q)
  BY <1>1 DEF GroupInv
<1>3. q.op = "create" => orgas[q.id].typ = "none" /\ orgas[q.id].itslearningEnabled = FALSE
  <2>1. orgas[q.id] \in Rows \union NoRows
    BY <1>1, RowsTyped DEF Typed
  <2>2. q.op = "create" => orgas[q.id].typ = "none"
    BY <1>1 DEF OrgaVersions
  <2> QED
    BY <2>1, <2>2 DEF Rows, NoRows, Typen
<1>4. ASSUME NEW x \in Ids PROVE orgas[x].version > 0 => orgas'[x].version > 0
  BY <1>1
<1>5. ASSUME NEW x \in Ids, orgas[x].itslearningEnabled PROVE orgas'[x].itslearningEnabled
  <2>1. CASE x # q.id
    BY <1>1, <1>5, <2>1
  <2>2. CASE x = q.id
    BY <1>1, <1>2, <1>3, <1>5, <2>2 DEF GroupAsked, OrgaOps
  <2> QED
    BY <2>1, <2>2
<1>6. ASSUME NEW o, SchuleCreated(o), o.administriertVon \in Ids \union {None} PROVE SchuleCreated(o)'
  BY <1>4, <1>6 DEF SchuleCreated
<1>7. ASSUME NEW k \in Ids PROVE SchuleCreated(orgas[k])'
  <2>1. orgas[k].administriertVon \in Ids \union {None}
    BY RowsTyped DEF Typed, Kinds
  <2>2. q.row.administriertVon \in Ids \union {None}
    BY DEF Tells, Writes, Rows
  <2>3. SchuleCreated(orgas[k]) /\ SchuleCreated(q.row)
    BY <1>1, <1>2 DEF GroupInv, RowCreated
  <2>4. CASE k # q.id
    BY <1>1, <1>4, <2>1, <2>3, <2>4 DEF SchuleCreated
  <2>5. CASE k = q.id
    BY <1>1, <1>4, <2>2, <2>3, <2>5 DEF SchuleCreated
  <2> QED
    BY <2>4, <2>5
<1> QED
  BY <1>1, <1>3, <1>4, <1>5, <1>6, <1>7

(* Who touches all Klassen of a Schule and all that may come still does.    *)
LEMMA SaveCovered ==
  ASSUME Typed, Typed', OrgaVersions, GroupInv, NEW c \in Clients, NEW q, Tells(c, q),
         NEW touches, NEW i, Covers(touches, i), \A x \in NewIds : <<"group", x>> \in touches
  PROVE  Covers(touches, i)'
<1>1. SUFFICES ASSUME NEW k \in Ids, orgas'[k].typ = "KLASSE", orgas'[k].administriertVon = i,
                      Undisturbed("group", k)', <<"group", k>> \notin touches
               PROVE  FALSE
  BY DEF Covers
<1>2. Undisturbed("group", k)
  BY <1>1 DEF Undisturbed, Tells
<1>3. orgas'[k].typ = q.row.typ /\ orgas'[k].administriertVon = q.row.administriertVon /\ k = q.id
  <2>1. k = q.id
    BY <1>1, <1>2 DEF Tells, Writes, Covers
  <2> QED
    BY <2>1 DEF Tells, Writes, Kinds
<1>4. GroupAsked(q)
  BY DEF Tells, GroupInv
<1>5. q.op # "create"
  BY <1>1, <1>3, <1>4 DEF GroupAsked
<1>6. q.op \notin {"put", "move"}
  BY <1>1, <1>3 DEF Tells, Undisturbed
<1>7. q.op \in {"rename", "enable"} /\ q.version = q.read /\ q.seen = orgas[q.id]
  BY <1>5, <1>6, SaveKeeps DEF OrgaOps
<1>8. orgas[k].typ = "KLASSE" /\ orgas[k].administriertVon = i
  BY <1>1, <1>3, <1>4, <1>7 DEF GroupAsked
<1> QED
  BY <1>1, <1>2, <1>8 DEF Covers

(* What other requests have checked remains so.                             *)
LEMMA SaveChecked ==
  ASSUME Typed, Typed', OrgaVersions, GroupInv, NEW c \in Clients, NEW q, Tells(c, q),
         NEW d \in Clients \ {c}, NEW r, r = req[d]
  PROVE  GroupChecked(r)'
<1>1. GroupChecked(r) /\ GroupAsked(r) /\ RowCreated(r) /\ GroupChecked(q) /\ GroupAsked(q)
  BY DEF GroupInv, Tells
<1>2. r.op = "enable" => Covers(r.touches, r.id)'
  BY <1>1, SaveCovered DEF GroupChecked, GroupAsked
<1>3. ASSUME (r.op = "create" /\ r.row.typ = "KLASSE") \/ (r.op = "rename" /\ IsCurrent(r)'),
             Undisturbed("group", r.id)', IsThere(r.row.administriertVon)'
      PROVE  r.enabled <=> orgas'[r.row.administriertVon].itslearningEnabled
  <2> DEFINE p == r.row.administriertVon
  <2>1. r.id \in Ids /\ p \in Ids /\ (r.op = "rename" => r.read \in Nat)
    <3>1. RequestTyped(r) /\ p # None
      BY <1>3 DEF Typed, RequestsTyped, IsThere
    <3> QED
      BY <1>3, <3>1 DEF RequestTyped, OrgaOps, Rows
  <2>2. Undisturbed("group", r.id) /\ \A j \in Ids \ {q.id} : orgas'[j] = orgas[j]
    BY <1>3 DEF Undisturbed, Tells, Writes
  <2>3. r.op = "rename" => IsCurrent(r)
    <3>1. SUFFICES ASSUME r.op = "rename", IsCurrent(r)' PROVE IsCurrent(r)
      BY <1>3
    <3>2. r.version = r.read /\ orgas'[r.id].version = r.read /\ orgas'[r.id].typ # "none"
      BY <3>1 DEF IsCurrent, IsThere
    <3>3. CASE r.id # q.id
      BY <2>1, <2>2, <3>1, <3>2, <3>3 DEF IsCurrent, IsThere
    <3>4. CASE r.id = q.id
      <4>1. r.read <= orgas[r.id].version
        BY <3>1 DEF OrgaVersions, OrgaOps
      <4>2. orgas'[r.id].version > orgas[r.id].version
        BY <3>4 DEF Tells
      <4>3. orgas[r.id].version \in Nat
        BY <2>1, RowsTyped DEF Typed
      <4> QED
        BY <2>1, <3>1, <3>2, <4>1, <4>2, <4>3
    <3> QED
      BY <3>3, <3>4
  <2>4. (r.op = "create" /\ r.row.typ = "KLASSE") \/ (r.op = "rename" /\ IsCurrent(r))
    BY <1>3, <2>3
  <2>5. r.row.typ = "KLASSE" /\ orgas[p].version > 0
    <3>1. r.row.typ = "KLASSE"
      BY <1>1, <2>4 DEF GroupAsked
    <3>2. SchuleCreated(r.row)
      BY <1>1, <2>4 DEF RowCreated, OrgaOps
    <3> QED
      BY <2>1, <3>1, <3>2 DEF SchuleCreated
  <2>6. CASE p # q.id
    <3>1. orgas'[p] = orgas[p] /\ IsThere(p)
      BY <1>3, <2>1, <2>2, <2>6 DEF IsThere
    <3> QED
      BY <1>1, <2>2, <2>4, <3>1 DEF GroupChecked
  <2>7. CASE p = q.id
    <3>1. q.op # "create"
      BY <2>5, <2>7, SaveKeeps
    <3>2. orgas[p].typ # "none" /\ q.seen = orgas[p] /\ q.version = q.read /\ q.op \in OrgaOps
      BY <2>7, <3>1, SaveKeeps
    <3>3. (r.enabled <=> orgas[p].itslearningEnabled)
      <4>1. IsThere(p)
        BY <2>1, <3>2 DEF IsThere
      <4> QED
        BY <1>1, <2>2, <2>4, <4>1 DEF GroupChecked
    <3>4. CASE q.op # "enable"
      <4>1. q.row.itslearningEnabled = orgas[p].itslearningEnabled
        BY <1>1, <3>2, <3>4 DEF GroupAsked, OrgaOps
      <4> QED
        BY <2>7, <3>3, <4>1 DEF Tells
    <3>5. CASE q.op = "enable"
      <4>1. <<"group", r.id>> \in q.touches
        <5>1. CASE r.op = "create"
          BY <1>1, <3>5, <5>1 DEF GroupAsked
        <5>2. CASE r.op = "rename"
          <6>1. IsCurrent(r) /\ r.seen = orgas[r.id] /\ r.version = r.read
            BY <2>4, <5>2 DEF OrgaVersions, OrgaOps, IsCurrent, IsThere
          <6>2. orgas[r.id].typ = "KLASSE" /\ orgas[r.id].administriertVon = q.id
            BY <1>1, <2>5, <2>7, <5>2, <6>1 DEF GroupAsked
          <6>3. Covers(q.touches, q.id)
            BY <1>1, <3>5 DEF GroupChecked
          <6> QED
            BY <2>1, <2>2, <6>2, <6>3 DEF Covers
        <5> QED
          BY <2>4, <5>1, <5>2
      <4>2. <<"group", r.id>> \in r.touches
        BY <1>1, <2>4, <2>5 DEF GroupAsked
      <4>3. r.touches \intersect q.touches \subseteq disturbed
        BY DEF GroupInv, Alone, Tells
      <4> QED
        BY <2>2, <4>1, <4>2, <4>3 DEF Undisturbed
    <3> QED
      BY <3>4, <3>5
  <2> QED
    BY <2>6, <2>7
<1> QED
  BY <1>2, <1>3 DEF GroupChecked

(* A handler has a Klasse right after the save when it wants the same.      *)
LEMMA RightStays ==
  ASSUME NEW k \in Ids, NEW t, Right(t, k), Want(k)' = Want(k), groups'[k] = groups[k],
         t.op = "enabled" =>
           \/ orgas'[k] = orgas[k] /\ (orgas[t.id].itslearningEnabled => orgas'[t.id].itslearningEnabled)
           \/ orgas[k].typ # "KLASSE"
  PROVE  Right(t, k)'
BY DEF Right

(* What itslearning should have of a Klasse changes only for those of a     *)
(* Schule that is enabled, and for the one that is written.                 *)
LEMMA SaveWants ==
  ASSUME Typed, Typed', OrgaVersions, GroupInv, NEW c \in Clients, NEW q, Tells(c, q),
         NEW k \in Ids, Undisturbed("group", k)', Claimed(k)'
  PROVE  /\ Claimed(k)
         /\ \/ Want(k)' = Want(k) /\ ~(k = q.id /\ (q.op = "rename" \/ (q.op = "create" /\ q.row.typ = "KLASSE")))
            \/ /\ q.op = "enable" /\ k # q.id /\ <<"group", k>> \in q.touches
               /\ orgas'[k].typ = "KLASSE" /\ orgas'[k].administriertVon = q.id /\ orgas'[q.id].itslearningEnabled
            \/ /\ k = q.id /\ (q.op = "rename" \/ (q.op = "create" /\ q.row.typ = "KLASSE")) /\ <<"group", k>> \in q.touches
               /\ IF q.enabled THEN Want(k)' = [name |-> q.row.name, parentId |-> q.row.administriertVon]
                  ELSE Want(k)' = NoGroup /\ Want(k) = NoGroup
<1>1. /\ q.id \in Ids /\ \A j \in Ids \ {q.id} : orgas'[j] = orgas[j]
      /\ orgas'[q.id].typ = q.row.typ /\ orgas'[q.id].administriertVon = q.row.administriertVon
      /\ orgas'[q.id].name = q.row.name /\ orgas'[q.id].itslearningEnabled = q.row.itslearningEnabled
  BY DEF Tells, Writes, Kinds
<1>2. GroupAsked(q) /\ GroupChecked(q) /\ RowCreated(q) /\ SchuleCreated(orgas[k])
  BY DEF GroupInv, Tells
<1>3. Undisturbed("group", k)
  BY DEF Undisturbed, Tells
<1>4. CASE k # q.id
  <2>1. orgas'[k] = orgas[k]
    BY <1>1, <1>4
  <2>2. CASE orgas[k].typ # "KLASSE"
    BY <1>4, <2>1, <2>2 DEF Claimed, Want
  <2>3. CASE orgas[k].typ = "KLASSE"
    <3> DEFINE s == orgas[k].administriertVon
    <3>1. s \in Ids /\ orgas[s].version > 0 /\ IsThere(s)'
      <4>1. s # None /\ IsThere(s)'
        BY <2>1, <2>3 DEF Claimed, IsThere
      <4>2. s \in Ids \union {None}
        BY RowsTyped DEF Typed, Kinds
      <4> QED
        BY <1>2, <2>3, <4>1, <4>2 DEF SchuleCreated
    <3>2. CASE s # q.id
      <4>1. orgas'[s] = orgas[s]
        BY <1>1, <3>1, <3>2
      <4> QED
        BY <1>4, <2>1, <3>1, <4>1 DEF Claimed, Want, IsThere
    <3>3. CASE s = q.id
      <4>1. q.op # "create" /\ orgas[s].typ # "none" /\ q.seen = orgas[s] /\ q.version = q.read /\ q.op \in OrgaOps
        BY <3>1, <3>3, SaveKeeps
      <4>2. IsThere(s) /\ Claimed(k)
        BY <3>1, <4>1 DEF IsThere, Claimed
      <4>3. CASE q.op # "enable"
        <5>1. orgas'[s].itslearningEnabled = orgas[s].itslearningEnabled
          BY <1>1, <1>2, <3>3, <4>1, <4>3 DEF GroupAsked, OrgaOps
        <5>2. Want(k)' = Want(k)
          BY <2>1, <3>1, <4>2, <5>1 DEF Want
        <5> QED
          BY <1>4, <4>2, <5>2
      <4>4. CASE q.op = "enable"
        <5>1. Covers(q.touches, q.id) /\ q.row.itslearningEnabled
          BY <1>2, <4>4 DEF GroupChecked, GroupAsked
        <5>2. <<"group", k>> \in q.touches
          BY <1>3, <2>3, <3>3, <5>1 DEF Covers
        <5> QED
          BY <1>1, <1>4, <2>1, <2>3, <3>3, <4>2, <4>4, <5>1, <5>2
      <4> QED
        BY <4>3, <4>4
    <3> QED
      BY <3>2, <3>3
  <2> QED
    BY <2>2, <2>3
<1>5. CASE k = q.id
  <2>1. q.op \in {"create", "rename", "enable"}
    <3>1. q.op \notin {"put", "move"}
      BY <1>5 DEF Undisturbed, Tells
    <3> QED
      BY <3>1, SaveKeeps DEF OrgaOps
  <2>2. CASE q.op = "create" /\ q.row.typ # "KLASSE"
    BY <1>1, <1>5, <2>2, SaveKeeps DEF Want, Claimed
  <2>3. CASE q.op = "enable"
    BY <1>1, <1>2, <1>5, <2>3, SaveKeeps DEF Want, Claimed, GroupAsked
  <2>4. CASE q.op = "rename" \/ (q.op = "create" /\ q.row.typ = "KLASSE")
    <3> DEFINE p == q.row.administriertVon
    <3>1. q.row.typ = "KLASSE" /\ <<"group", k>> \in q.touches
      BY <1>2, <1>5, <2>4 DEF GroupAsked
    <3>2. IsThere(p)' /\ p \in Ids /\ orgas[p].version > 0
      <4>1. IsThere(p)' /\ p # None
        BY <1>1, <1>5, <3>1 DEF Claimed, IsThere
      <4>2. p \in Ids \union {None}
        BY DEF Tells, Writes, Rows
      <4>3. SchuleCreated(q.row)
        BY <1>2, <2>4 DEF RowCreated, OrgaOps
      <4> QED
        BY <3>1, <4>1, <4>2, <4>3 DEF SchuleCreated
    <3>3. IsThere(p) /\ (orgas'[p].itslearningEnabled <=> orgas[p].itslearningEnabled)
      <4>1. CASE p # q.id
        <5>1. orgas'[p] = orgas[p]
          BY <1>1, <3>2, <4>1
        <5> QED
          BY <3>2, <5>1 DEF IsThere
      <4>2. CASE p = q.id
        <5>1. q.op = "rename" /\ orgas[p].typ # "none" /\ q.seen = orgas[p] /\ q.version = q.read
          BY <2>4, <3>2, <4>2, SaveKeeps
        <5>2. orgas'[p].itslearningEnabled = orgas[p].itslearningEnabled
          BY <1>1, <1>2, <4>2, <5>1 DEF GroupAsked
        <5> QED
          BY <3>2, <5>1, <5>2 DEF IsThere
      <4> QED
        BY <4>1, <4>2
    <3>4. q.enabled <=> orgas[p].itslearningEnabled
      <4>1. q.op = "rename" => IsCurrent(q)
        BY DEF Tells
      <4> QED
        BY <1>2, <1>3, <1>5, <2>4, <3>3, <4>1 DEF GroupChecked
    <3>5. Want(k)' = IF q.enabled THEN [name |-> q.row.name, parentId |-> p] ELSE NoGroup
      <4>1. IsThere(orgas[k].administriertVon)' <=> IsThere(p)'
        BY <1>1, <1>5 DEF IsThere
      <4>2. orgas'[orgas'[k].administriertVon].itslearningEnabled <=> orgas'[p].itslearningEnabled
        BY <1>1, <1>5
      <4> QED
        BY <1>1, <1>5, <3>1, <3>2, <3>3, <3>4, <4>1, <4>2 DEF Want
    <3>6. Claimed(k) /\ (~q.enabled => Want(k) = NoGroup)
      <4>1. CASE q.op = "create"
        BY <1>5, <4>1, SaveKeeps DEF Claimed, Want
      <4>2. CASE q.op = "rename"
        <5>1. orgas[k].administriertVon = p
          <6>1. q.seen = orgas[k] /\ q.version = q.read
            BY <1>5, <4>2, SaveKeeps
          <6> QED
            BY <1>2, <4>2, <6>1 DEF GroupAsked
        <5> QED
          BY <3>3, <3>4, <5>1 DEF Claimed, Want
      <4> QED
        BY <2>4, <4>1, <4>2
    <3>7. IF q.enabled THEN Want(k)' = [name |-> q.row.name, parentId |-> p]
          ELSE Want(k)' = NoGroup /\ Want(k) = NoGroup
      BY <3>5, <3>6
    <3> QED
      BY <1>5, <2>4, <3>1, <3>6, <3>7
  <2> QED
    BY <2>1, <2>2, <2>3, <2>4
<1> QED
  BY <1>4, <1>5

(* So handlers have right what is not as it should be.                      *)
LEMMA SaveRight ==
  ASSUME Typed, Typed', OrgaVersions, GroupInv, NEW c \in Clients, NEW q, Tells(c, q), NEW k \in Ids
  PROVE  GroupRight(k)'
<1>1. SUFFICES ASSUME Undisturbed("group", k)', Claimed(k)'
               PROVE  /\ (\A t \in tasks' : <<"group", k>> \notin t.touches) => groups'[k] = Want(k)'
                      /\ \A t \in tasks' : <<"group", k>> \in t.touches => Right(t, k)'
  BY DEF GroupRight
<1>2. /\ tasks' = tasks \union Started(q) /\ groups'[k] = groups[k]
      /\ q.op \in OrgaOps \union {"create"} /\ q.id \in Ids
      /\ \A j \in Ids \ {q.id} : orgas'[j] = orgas[j]
      /\ GroupAsked(q)
  BY DEF Tells, Writes, GroupInv
<1>3. Undisturbed("group", k)
  BY <1>1 DEF Undisturbed, Tells
<1>4. Claimed(k)
  BY <1>1, SaveWants
<1>5. /\ (\A t \in tasks : <<"group", k>> \notin t.touches) => groups[k] = Want(k)
      /\ \A t \in tasks : <<"group", k>> \in t.touches => Right(t, k)
  BY <1>3, <1>4 DEF GroupInv, GroupRight
<1>6. <<"group", k>> \in q.touches => \A t \in tasks : <<"group", k>> \notin t.touches
  BY <1>3 DEF GroupInv, GroupsAlone, Undisturbed, Tells
<1>7. \A t \in Started(q) : t.touches \subseteq q.touches
  BY <1>2, StartedBy
<1>8. CASE Want(k)' = Want(k) /\ ~(k = q.id /\ (q.op = "rename" \/ (q.op = "create" /\ q.row.typ = "KLASSE")))
  <2>1. (\A t \in tasks' : <<"group", k>> \notin t.touches) => groups'[k] = Want(k)'
    BY <1>2, <1>5, <1>8
  <2>2. ASSUME NEW t \in tasks, <<"group", k>> \in t.touches PROVE Right(t, k)'
    <3>1. Right(t, k)
      BY <1>5, <2>2
    <3>2. orgas'[k] = orgas[k] \/ orgas[k].typ # "KLASSE" \/ t.op # "enabled"
      <4>1. SUFFICES ASSUME k = q.id, q.op \notin {"put", "move"} PROVE orgas[k].typ # "KLASSE"
        <5>1. k = q.id => q.op \notin {"put", "move"}
          BY <1>1 DEF Undisturbed, Tells
        <5> QED
          BY <1>2, <5>1
      <4>2. CASE q.op = "create"
        BY <4>1, <4>2, SaveKeeps
      <4>3. CASE q.op = "rename"
        BY <1>8, <4>1, <4>3
      <4>4. CASE q.op = "enable"
        BY <1>2, <4>1, <4>4, SaveKeeps DEF GroupAsked
      <4> QED
        BY <1>2, <4>1, <4>2, <4>3, <4>4 DEF OrgaOps
    <3>3. t.op = "enabled" => t.id \in Ids
      BY DEF Typed, RequestsTyped, TaskTyped
    <3>4. t.op = "enabled" => (orgas[t.id].itslearningEnabled => orgas'[t.id].itslearningEnabled)
      BY <3>3, SaveKeeps
    <3> QED
      BY <1>2, <1>8, <3>1, <3>2, <3>4, RightStays
  <2>3. ASSUME NEW t \in Started(q), <<"group", k>> \in t.touches PROVE Right(t, k)'
    <3>1. <<"group", k>> \in q.touches
      BY <1>7, <2>3
    <3>2. groups'[k] = Want(k)'
      BY <1>2, <1>5, <1>6, <1>8, <3>1
    <3>3. t.op = "enabled"
      <4>1. CASE t.op = "group"
        <5>1. q.op = "rename" \/ (q.op = "create" /\ q.row.typ = "KLASSE")
          BY <1>2, <2>3, <4>1, StartedBy
        <5>2. k = q.id
          BY <1>2, <3>1, <5>1 DEF GroupAsked
        <5> QED
          BY <1>8, <3>1, <5>1, <5>2
      <4> QED
        BY <1>2, <2>3, <4>1, StartedBy
    <3> QED
      BY <3>2, <3>3 DEF Right
  <2> QED
    BY <1>2, <2>1, <2>2, <2>3
<1>9. CASE /\ q.op = "enable" /\ k # q.id /\ <<"group", k>> \in q.touches
           /\ orgas'[k].typ = "KLASSE" /\ orgas'[k].administriertVon = q.id /\ orgas'[q.id].itslearningEnabled
  <2>1. \A t \in tasks : <<"group", k>> \notin t.touches
    BY <1>6, <1>9
  <2>2. ASSUME NEW t \in Started(q) PROVE <<"group", k>> \in t.touches /\ Right(t, k)'
    <3>1. t.id = q.id /\ t.op = "enabled" /\ <<"group", k>> \in t.touches
      BY <1>2, <1>9, StartedBy
    <3> QED
      BY <1>9, <3>1 DEF Right
  <2>3. Started(q) # {}
    BY <1>2, <1>9, StartsOne
  <2> QED
    BY <1>2, <2>1, <2>2, <2>3
<1>10. CASE /\ k = q.id /\ (q.op = "rename" \/ (q.op = "create" /\ q.row.typ = "KLASSE")) /\ <<"group", k>> \in q.touches
            /\ IF q.enabled THEN Want(k)' = [name |-> q.row.name, parentId |-> q.row.administriertVon]
               ELSE Want(k)' = NoGroup /\ Want(k) = NoGroup
  <2>1. \A t \in tasks : <<"group", k>> \notin t.touches
    BY <1>6, <1>10
  <2>2. groups[k] = Want(k)
    BY <1>5, <2>1
  <2>3. CASE q.enabled
    <3>1. ASSUME NEW t \in Started(q) PROVE <<"group", k>> \in t.touches /\ Right(t, k)'
      <4>1. t.op = "group" /\ t.name = q.row.name /\ t.parentId = q.row.administriertVon /\ <<"group", k>> \in t.touches
        BY <1>2, <1>10, StartedBy
      <4>2. Want(k)' = [name |-> t.name, parentId |-> t.parentId]
        BY <1>10, <2>3, <4>1
      <4> QED
        BY <4>1, <4>2 DEF Right
    <3>2. Started(q) # {}
      BY <1>2, <1>10, <2>3, StartsOne
    <3> QED
      BY <1>2, <2>1, <3>1, <3>2
  <2>4. CASE ~q.enabled
    <3>1. Started(q) = {}
      <4>1. ASSUME NEW t \in Started(q) PROVE FALSE
        BY <1>2, <1>10, <2>4, <4>1, StartedBy
      <4> QED
        BY <4>1
    <3> QED
      BY <1>2, <1>10, <2>1, <2>2, <2>4, <3>1
  <2> QED
    BY <2>3, <2>4
<1> QED
  BY <1>1, <1>8, <1>9, <1>10, SaveWants

(* When a request ends, the handlers it has started touch what it did, and  *)
(* nobody else does.                                                        *)
LEMMA EndAlone ==
  ASSUME Alone, GroupsAlone, NEW c \in Clients, OnlyRequest(c), req'[c] = Idle, disturbed \subseteq disturbed',
         NEW S, tasks' = tasks \union S, \A t \in S : t.touches \subseteq req[c].touches, \A t, u \in S : t = u
  PROVE  GroupsAlone'
<1>1. ASSUME NEW d \in Clients, NEW t \in tasks' PROVE req'[d].touches \intersect t.touches \subseteq disturbed'
  <2>1. CASE d = c
    BY <2>1 DEF Idle
  <2>2. CASE d # c
    <3>1. req'[d] = req[d] /\ req[d].touches \intersect req[c].touches \subseteq disturbed
      BY <2>2 DEF OnlyRequest, Alone
    <3>2. CASE t \in tasks
      BY <3>1, <3>2 DEF GroupsAlone
    <3>3. CASE t \in S
      BY <3>1, <3>3
    <3> QED
      BY <3>2, <3>3
  <2> QED
    BY <2>1, <2>2
<1>2. ASSUME NEW t \in tasks', NEW u \in tasks', t # u PROVE t.touches \intersect u.touches \subseteq disturbed'
  <2>1. CASE t \in tasks /\ u \in tasks
    BY <1>2, <2>1 DEF GroupsAlone
  <2>2. CASE t \in S /\ u \in tasks
    BY <2>2 DEF GroupsAlone
  <2>3. CASE t \in tasks /\ u \in S
    BY <2>3 DEF GroupsAlone
  <2>4. CASE t \in S /\ u \in S
    BY <1>2, <2>4
  <2> QED
    BY <2>1, <2>2, <2>3, <2>4
<1> QED
  BY <1>1, <1>2 DEF GroupsAlone

(* A Schule that is enabled stays so.                                       *)
LEMMA SaveEnabled ==
  ASSUME Typed, Typed', OrgaVersions, GroupInv, NEW c \in Clients, NEW q, Tells(c, q), NEW i \in Ids, Enabled(i)
  PROVE  Enabled(i)'
<1>1. \A j \in Ids \ {q.id} : orgas'[j] = orgas[j]
  BY DEF Tells, Writes
<1>2. q.op # "create" \/ i # q.id
  BY SaveKeeps DEF Enabled
<1>3. orgas'[i].version > 0 /\ (IsThere(i)' => orgas'[i].itslearningEnabled)
  <2>1. CASE i # q.id
    BY <1>1, <2>1 DEF Enabled, IsThere
  <2>2. CASE i = q.id
    BY <1>2, <2>2, SaveKeeps DEF Enabled, IsThere
  <2> QED
    BY <2>1, <2>2
<1>4. Undisturbed("group", i)' => orgas'[i].typ # "KLASSE"
  <2>1. SUFFICES ASSUME Undisturbed("group", i)' PROVE orgas'[i].typ # "KLASSE"
    OBVIOUS
  <2>2. Undisturbed("group", i) /\ (i = q.id => q.op \notin {"put", "move"})
    BY <2>1 DEF Undisturbed, Tells
  <2>3. orgas[i].typ # "KLASSE"
    BY <2>2 DEF Enabled
  <2>4. CASE i # q.id
    BY <1>1, <2>3, <2>4
  <2>5. CASE i = q.id
    <3>1. q.op \in {"rename", "enable"} /\ q.seen = orgas[i] /\ q.version = q.read
      BY <1>2, <2>2, <2>5, SaveKeeps DEF OrgaOps
    <3>2. orgas'[i].typ = q.row.typ
      BY <2>5 DEF Tells, Writes
    <3>3. q.op = "rename" => q.row.typ = "KLASSE" /\ q.row.typ = q.seen.typ
      BY <3>1 DEF GroupInv, GroupAsked, Tells
    <3>4. q.op = "enable" => q.row.typ = "SCHULE"
      BY <3>1 DEF GroupInv, GroupAsked, Tells
    <3> QED
      BY <2>3, <3>1, <3>2, <3>3, <3>4
  <2> QED
    BY <2>4, <2>5
<1> QED
  BY <1>3, <1>4 DEF Enabled

(* A save keeps what handlers and requests have to do with Klassen.         *)
LEMMA SaveGroups ==
  ASSUME Typed, Typed', OrgaVersions, GroupInv, Alone', NEW c \in Clients, Insert(c) \/ Update(c)
  PROVE  GroupInv'
<1>1. PICK q : Tells(c, q)
  BY WriteTells
<1>2. /\ q = req[c] /\ OnlyRequest(c) /\ req'[c] = Idle /\ disturbed \subseteq disturbed'
      /\ q.op \in OrgaOps \union {"create"} /\ tasks' = tasks \union Started(q)
      /\ GroupAsked(q) /\ GroupChecked(q)
  BY <1>1 DEF Tells, Writes, GroupInv
<1>3. GroupsAlone'
  BY <1>2, EndAlone, StartedBy, StartsOne DEF GroupInv
<1>4. ASSUME NEW k \in Ids PROVE SchuleCreated(orgas[k])' /\ GroupRight(k)'
  BY <1>1, SaveKeeps, SaveRight
<1>5. ASSUME NEW d \in Clients PROVE (RowCreated(req[d]) /\ GroupAsked(req[d]) /\ GroupChecked(req[d]))'
  <2>1. CASE d = c
    <3>1. Idle.op \notin OrgaOps \union {"create", "delete"}
      BY DEF Idle, OrgaOps
    <3>2. (RowCreated(Idle) /\ GroupAsked(Idle) /\ GroupChecked(Idle))'
      BY <3>1 DEF RowCreated, GroupAsked, GroupChecked, OrgaOps
    <3> QED
      BY <1>2, <2>1, <3>2
  <2>2. CASE d # c
    <3>1. PICK r : r = req[d]
      OBVIOUS
    <3>2. req'[d] = r
      BY <1>2, <2>2, <3>1 DEF OnlyRequest
    <3>3. GroupChecked(r)'
      BY <1>1, <2>2, <3>1, SaveChecked
    <3>4. GroupAsked(r) /\ RowCreated(r)
      BY <3>1 DEF GroupInv
    <3>5. RowCreated(r)'
      <4>1. r.op \in OrgaOps \union {"create"} => r.row \in Rows
        BY <3>1 DEF Typed, RequestsTyped, RequestTyped
      <4>2. r.op \in OrgaOps \union {"create"} => r.row.administriertVon \in Ids \union {None}
        BY <4>1 DEF Rows
      <4> QED
        BY <1>1, <3>4, <4>2, SaveKeeps DEF RowCreated
    <3> QED
      BY <3>2, <3>3, <3>4, <3>5
  <2> QED
    BY <2>1, <2>2
<1>6. ASSUME NEW t \in tasks' PROVE TaskAsked(t)'
  <2>1. CASE t \in tasks
    <3>1. TaskAsked(t)
      BY <2>1 DEF GroupInv
    <3>2. t.op = "enabled" => Covers(t.touches, t.id)' /\ Enabled(t.id)'
      <4>1. t.op = "enabled" => t.id \in Ids
        BY <2>1 DEF Typed, RequestsTyped, TaskTyped
      <4> QED
        BY <1>1, <3>1, <4>1, SaveCovered, SaveEnabled DEF TaskAsked
    <3> QED
      BY <1>2, <3>1, <3>2 DEF TaskAsked, Undisturbed
  <2>2. CASE t \in Started(q)
    <3>1. /\ t.id = q.id /\ t.touches \subseteq q.touches /\ \A x : <<"group", x>> \in q.touches => <<"group", x>> \in t.touches
          /\ \/ t.op = "group" /\ (q.op = "rename" \/ (q.op = "create" /\ q.row.typ = "KLASSE"))
             \/ t.op = "enabled" /\ q.op = "enable"
      BY <1>2, <2>2, StartedBy
    <3>2. CASE t.op = "group"
      BY <1>2, <3>1, <3>2 DEF TaskAsked, GroupAsked
    <3>3. CASE t.op = "enabled"
      <4>1. q.op = "enable" /\ Covers(q.touches, q.id) /\ \A x \in NewIds : <<"group", x>> \in q.touches
        BY <1>2, <3>1, <3>3 DEF GroupAsked, GroupChecked
      <4>2. Covers(q.touches, q.id)'
        BY <1>1, <4>1, SaveCovered
      <4>3. Enabled(q.id)'
        <5>1. q.row.typ = "SCHULE" /\ q.row.itslearningEnabled
          BY <1>2, <4>1 DEF GroupAsked
        <5> QED
          BY <1>1, <5>1 DEF Enabled, Tells, Writes
      <4> QED
        BY <3>1, <3>3, <4>1, <4>2, <4>3 DEF TaskAsked, Covers
    <3> QED
      BY <3>1, <3>2, <3>3
  <2> QED
    BY <1>2, <2>1, <2>2
<1> QED
  BY <1>3, <1>4, <1>5, <1>6 DEF GroupInv

(* A Klasse that goes: its handler will delete the group, and what hung     *)
(* below it is no longer asked about.                                       *)
LEMMA RemoveGroups ==
  ASSUME Typed, GroupInv, Alone', NEW c \in Clients, Remove(c, Mapped)
  PROVE  GroupInv'
<1>1. PICK q : q = req[c]
  OBVIOUS
<1>2. q.op = "delete" /\ q.id \in Ids /\ GroupAsked(q)
  BY <1>1 DEF Remove, Typed, RequestsTyped, RequestTyped, GroupInv
<1>3. OnlyRequest(c) /\ req'[c] = Idle /\ Idle.op = "none" /\ disturbed' = disturbed /\ groups' = groups
  <2>1. disturbed' = disturbed /\ groups' = groups
    BY DEF Remove, End
  <2> QED
    BY <2>1, EndStep DEF Remove
<1>4. CASE q.id \in Mapped
  <2>1. orgas' = orgas /\ tasks' = tasks
    BY <1>1, <1>4 DEF Remove, End
  <2>2. req'[c].touches \subseteq req[c].touches /\ req'[c].op \notin OrgaOps \union {"create", "delete"}
    BY <1>3 DEF Idle, OrgaOps
  <2> QED
    BY <1>3, <2>1, <2>2, GroupRests
<1>5. CASE q.id \notin Mapped
  <2> DEFINE u == GroupTask("deleted", q)
  <2>1. /\ tasks' = tasks \union {u}
        /\ \A j \in Ids \ {q.id} : orgas'[j] = orgas[j]
        /\ orgas'[q.id] = [NoOrga EXCEPT !.version = orgas[q.id].version]
    <3>1. tasks' = tasks \union Started(q) /\ orgas' = [orgas EXCEPT ![q.id] = [NoOrga EXCEPT !.version = orgas[q.id].version]]
      BY <1>1, <1>5 DEF Remove, End
    <3>2. Started(q) = {u}
      BY <1>2 DEF Started
    <3>3. DOMAIN orgas = Ids
      BY DEF Typed, TreeTypeOK
    <3> HIDE DEF u
    <3> QED
      BY <1>2, <3>1, <3>2, <3>3
  <2>2. u.op = "deleted" /\ u.id = q.id /\ u.touches \subseteq q.touches /\ \A x : <<"group", x>> \in u.touches <=> x = q.id
    BY <1>2 DEF GroupTask, GroupAsked
  <2> HIDE DEF u
  <2>3. orgas'[q.id].typ = "none" /\ orgas'[q.id].version = orgas[q.id].version
    BY <2>1 DEF NoOrga
  <2>4. \A x \in Ids : orgas'[x].version = orgas[x].version
    BY <2>1, <2>3
  <2>5. ASSUME NEW o, SchuleCreated(o), o.administriertVon \in Ids \union {None} PROVE SchuleCreated(o)'
    BY <2>4, <2>5 DEF SchuleCreated
  <2>6. ASSUME NEW x \in Ids \union {None}, IsThere(x)' PROVE x \in Ids /\ x # q.id /\ IsThere(x) /\ orgas'[x] = orgas[x]
    BY <2>1, <2>3, <2>6 DEF IsThere
  <2>7. GroupsAlone'
    <3> DEFINE S == {u}
    <3>1. tasks' = tasks \union S /\ (\A t \in S : t.touches \subseteq req[c].touches) /\ \A t, v \in S : t = v
      BY <1>1, <2>1, <2>2
    <3> HIDE DEF S
    <3>2. Alone /\ GroupsAlone /\ disturbed \subseteq disturbed'
      BY <1>3 DEF GroupInv
    <3> QED
      BY <1>3, <3>1, <3>2, EndAlone
  <2>8. ASSUME NEW k \in Ids PROVE SchuleCreated(orgas[k])'
    <3>1. orgas[k].administriertVon \in Ids \union {None} /\ SchuleCreated(orgas[k])
      BY RowsTyped DEF Typed, Kinds, GroupInv
    <3>2. CASE k # q.id
      BY <2>1, <2>4, <3>1, <3>2 DEF SchuleCreated
    <3>3. CASE k = q.id
      BY <2>3, <3>3 DEF SchuleCreated
    <3> QED
      BY <3>2, <3>3
  <2>9. ASSUME NEW touches, NEW i, Covers(touches, i) PROVE Covers(touches, i)'
    BY <1>3, <2>1, <2>3, <2>9 DEF Covers, Undisturbed
  <2>10. ASSUME NEW k \in Ids PROVE GroupRight(k)'
    <3>1. SUFFICES ASSUME Undisturbed("group", k)', Claimed(k)'
                   PROVE  /\ (\A t \in tasks' : <<"group", k>> \notin t.touches) => groups'[k] = Want(k)'
                          /\ \A t \in tasks' : <<"group", k>> \in t.touches => Right(t, k)'
      BY DEF GroupRight
    <3>2. Undisturbed("group", k)
      BY <1>3, <3>1 DEF Undisturbed
    <3>3. CASE k # q.id
      <4>1. orgas'[k] = orgas[k] /\ orgas[k].administriertVon \in Ids \union {None}
        BY <2>1, <3>3, RowsTyped DEF Typed, Kinds
      <4>2. Claimed(k) /\ Want(k)' = Want(k)
        <5>1. CASE orgas[k].typ # "KLASSE"
          BY <4>1, <5>1 DEF Claimed, Want
        <5>2. CASE orgas[k].typ = "KLASSE"
          <6>1. IsThere(orgas[k].administriertVon)'
            BY <3>1, <4>1, <5>2 DEF Claimed, IsThere
          <6>2. IsThere(orgas[k].administriertVon) /\ orgas'[orgas[k].administriertVon] = orgas[orgas[k].administriertVon]
            BY <2>6, <4>1, <6>1
          <6> QED
            BY <4>1, <6>1, <6>2 DEF Claimed, Want, IsThere
        <5> QED
          BY <5>1, <5>2
      <4>3. /\ (\A t \in tasks : <<"group", k>> \notin t.touches) => groups[k] = Want(k)
            /\ \A t \in tasks : <<"group", k>> \in t.touches => Right(t, k)
        BY <3>2, <4>2 DEF GroupInv, GroupRight
      <4>4. <<"group", k>> \notin u.touches
        BY <2>2, <3>3
      <4>5. ASSUME NEW t \in tasks, Right(t, k) PROVE Right(t, k)'
        <5>1. CASE t.op # "enabled" \/ orgas[k].typ # "KLASSE" \/ orgas[k].administriertVon # t.id
          BY <1>3, <4>1, <4>2, <4>5, <5>1 DEF Right
        <5>2. CASE t.op = "enabled" /\ orgas[k].typ = "KLASSE" /\ orgas[k].administriertVon = t.id
          <6>1. IsThere(t.id)'
            BY <3>1, <4>1, <5>2 DEF Claimed, IsThere
          <6>2. orgas'[t.id] = orgas[t.id]
            BY <2>6, <4>1, <5>2, <6>1
          <6> QED
            BY <1>3, <4>1, <4>2, <4>5, <5>2, <6>2 DEF Right
        <5> QED
          BY <5>1, <5>2
      <4> QED
        BY <1>3, <2>1, <4>2, <4>3, <4>4, <4>5
    <3>4. CASE k = q.id
      <4>1. Want(k)' = NoGroup
        BY <2>3, <3>4 DEF Want
      <4>2. <<"group", k>> \in u.touches /\ Right(u, k)'
        BY <2>2, <3>4, <4>1 DEF Right
      <4>3. \A t \in tasks : <<"group", k>> \notin t.touches
        BY <1>1, <1>2, <2>2, <3>2, <3>4 DEF GroupInv, GroupsAlone, Undisturbed
      <4> QED
        BY <2>1, <4>2, <4>3
    <3> QED
      BY <3>3, <3>4
  <2>11. ASSUME NEW r, RequestTyped(r), RowCreated(r), GroupChecked(r) PROVE RowCreated(r)' /\ GroupChecked(r)'
    <3>1. r.op \in OrgaOps \union {"create"} => r.id \in Ids /\ r.row \in Rows /\ r.row.administriertVon \in Ids \union {None}
      BY <2>11 DEF RequestTyped, Rows
    <3>2. RowCreated(r)'
      BY <2>5, <2>11, <3>1 DEF RowCreated
    <3>3. r.op = "enable" => Covers(r.touches, r.id)'
      BY <2>9, <2>11 DEF GroupChecked
    <3>4. ASSUME (r.op = "create" /\ r.row.typ = "KLASSE") \/ (r.op = "rename" /\ IsCurrent(r)'),
                 Undisturbed("group", r.id)', IsThere(r.row.administriertVon)'
          PROVE  r.enabled <=> orgas'[r.row.administriertVon].itslearningEnabled
      <4>1. r.id \in Ids /\ r.row.administriertVon \in Ids \union {None}
        BY <3>1, <3>4 DEF OrgaOps
      <4>2. IsThere(r.row.administriertVon) /\ orgas'[r.row.administriertVon] = orgas[r.row.administriertVon]
        BY <2>6, <3>4, <4>1
      <4>3. r.op = "rename" => IsCurrent(r)
        BY <2>4, <2>6, <3>4, <4>1 DEF IsCurrent
      <4>4. Undisturbed("group", r.id)
        BY <1>3, <3>4 DEF Undisturbed
      <4> QED
        BY <2>11, <3>4, <4>2, <4>3, <4>4 DEF GroupChecked
    <3> QED
      BY <3>2, <3>3, <3>4 DEF GroupChecked
  <2>12. ASSUME NEW d \in Clients PROVE (RowCreated(req[d]) /\ GroupAsked(req[d]) /\ GroupChecked(req[d]))'
    <3>1. CASE d = c
      <4>1. (RowCreated(Idle) /\ GroupAsked(Idle) /\ GroupChecked(Idle))'
        BY <1>3 DEF RowCreated, GroupAsked, GroupChecked, OrgaOps
      <4> QED
        BY <1>3, <3>1, <4>1
    <3>2. CASE d # c
      <4>1. PICK r : r = req[d]
        OBVIOUS
      <4>2. req'[d] = r /\ RequestTyped(r) /\ RowCreated(r) /\ GroupAsked(r) /\ GroupChecked(r)
        BY <1>3, <3>2, <4>1 DEF OnlyRequest, GroupInv, Typed, RequestsTyped
      <4>3. RowCreated(r)' /\ GroupChecked(r)'
        BY <2>11, <4>2
      <4> QED
        BY <4>2, <4>3
    <3> QED
      BY <3>1, <3>2
  <2>13. ASSUME NEW t \in tasks' PROVE TaskAsked(t)'
    <3>1. CASE t \in tasks
      <4>1. TaskAsked(t)
        BY <3>1 DEF GroupInv
      <4>2. t.op = "enabled" => Covers(t.touches, t.id)' /\ Enabled(t.id)'
        <5>1. t.op = "enabled" => t.id \in Ids
          BY <3>1 DEF Typed, RequestsTyped, TaskTyped
        <5>2. ASSUME NEW i \in Ids, Enabled(i) PROVE Enabled(i)'
          BY <1>3, <2>1, <2>3, <2>4, <2>6, <5>2 DEF Enabled, Undisturbed, IsThere
        <5> QED
          BY <2>9, <4>1, <5>1, <5>2 DEF TaskAsked
      <4> QED
        BY <1>3, <4>1, <4>2 DEF TaskAsked, Undisturbed
    <3>2. CASE t = u
      BY <2>2, <3>2 DEF TaskAsked
    <3> QED
      BY <2>1, <3>1, <3>2
  <2> QED
    BY <2>7, <2>8, <2>10, <2>12, <2>13 DEF GroupInv
<1> QED
  BY <1>4, <1>5

(* A handler that ends, or goes on as another one, leaves alone what it     *)
(* does not touch and has right what it does.                               *)
LEMMA HandlerGroups ==
  ASSUME GroupInv, Alone', orgas' = orgas, req' = req, disturbed \subseteq disturbed',
         NEW t \in tasks, NEW S, tasks' = (tasks \ {t}) \union S,
         \A u, v \in S : u = v, \A u \in S : u.touches = t.touches /\ TaskAsked(u)',
         \A k \in Ids : Undisturbed("group", k)' /\ Claimed(k) =>
           IF <<"group", k>> \in t.touches
           THEN (S = {} => groups'[k] = Want(k)) /\ \A u \in S : Right(u, k)'
           ELSE groups'[k] = groups[k]
  PROVE  GroupInv'
<1>1. GroupsAlone'
  <2>1. ASSUME NEW c \in Clients, NEW u \in tasks' PROVE req'[c].touches \intersect u.touches \subseteq disturbed'
    <3>1. \E v \in tasks : u.touches = v.touches
      OBVIOUS
    <3> QED
      BY <3>1 DEF GroupInv, GroupsAlone
  <2>2. ASSUME NEW u \in tasks', NEW v \in tasks', u # v PROVE u.touches \intersect v.touches \subseteq disturbed'
    <3>1. CASE u \in tasks \ {t} /\ v \in tasks \ {t}
      BY <2>2, <3>1 DEF GroupInv, GroupsAlone
    <3>2. CASE u \in S /\ v \in tasks \ {t}
      BY <3>2 DEF GroupInv, GroupsAlone
    <3>3. CASE u \in tasks \ {t} /\ v \in S
      BY <3>3 DEF GroupInv, GroupsAlone
    <3> QED
      BY <2>2, <3>1, <3>2, <3>3
  <2> QED
    BY <2>1, <2>2 DEF GroupsAlone
<1>2. ASSUME NEW k \in Ids PROVE SchuleCreated(orgas[k])' /\ GroupRight(k)'
  <2>1. SchuleCreated(orgas[k])'
    BY DEF GroupInv, SchuleCreated
  <2>2. (Want(k)' = Want(k)) /\ (Claimed(k)' <=> Claimed(k)) /\ (Undisturbed("group", k)' => Undisturbed("group", k))
    BY DEF Want, Claimed, IsThere, Undisturbed
  <2>3. SUFFICES ASSUME Undisturbed("group", k)', Claimed(k)'
                 PROVE  /\ (\A u \in tasks' : <<"group", k>> \notin u.touches) => groups'[k] = Want(k)'
                        /\ \A u \in tasks' : <<"group", k>> \in u.touches => Right(u, k)'
    BY <2>1 DEF GroupRight
  <2>4. /\ (\A u \in tasks : <<"group", k>> \notin u.touches) => groups[k] = Want(k)
        /\ \A u \in tasks : <<"group", k>> \in u.touches => Right(u, k)
    BY <2>2, <2>3 DEF GroupInv, GroupRight
  <2>5. CASE <<"group", k>> \in t.touches
    <3>1. (S = {} => groups'[k] = Want(k)) /\ \A u \in S : Right(u, k)'
      BY <2>2, <2>3, <2>5
    <3>2. \A u \in tasks \ {t} : <<"group", k>> \notin u.touches
      BY <2>2, <2>3, <2>5 DEF GroupInv, GroupsAlone, Undisturbed
    <3> QED
      BY <2>2, <2>5, <3>1, <3>2
  <2>6. CASE <<"group", k>> \notin t.touches
    <3>1. groups'[k] = groups[k]
      BY <2>2, <2>3, <2>6
    <3>2. ASSUME NEW u, Right(u, k) PROVE Right(u, k)'
      BY <2>2, <3>1, <3>2 DEF Right
    <3> QED
      BY <2>2, <2>4, <2>6, <3>1, <3>2
  <2> QED
    BY <2>5, <2>6
<1>3. ASSUME NEW c \in Clients PROVE (RowCreated(req[c]) /\ GroupAsked(req[c]) /\ GroupChecked(req[c]))'
  <2>1. PICK q : q = req[c]
    OBVIOUS
  <2>2. RowCreated(q) /\ GroupAsked(q) /\ GroupChecked(q)
    BY <2>1 DEF GroupInv
  <2>3. RowCreated(q)' /\ GroupChecked(q)'
    BY <2>2, GroupCheckedStays
  <2> QED
    BY <2>1, <2>2, <2>3
<1>4. ASSUME NEW u \in tasks' PROVE TaskAsked(u)'
  <2>1. CASE u \in tasks
    BY <2>1 DEF GroupInv, TaskAsked, Covers, Undisturbed, Enabled, IsThere
  <2>2. CASE u \in S
    BY <2>2
  <2> QED
    BY <2>1, <2>2
<1> QED
  BY <1>1, <1>2, <1>3, <1>4 DEF GroupInv

(* A handler that ends.                                                     *)
LEMMA HandlerEnds ==
  ASSUME GroupInv, Alone', orgas' = orgas, req' = req, disturbed \subseteq disturbed',
         NEW t \in tasks, tasks' = tasks \ {t},
         \A k \in Ids : Undisturbed("group", k)' /\ Claimed(k) =>
           groups'[k] = IF <<"group", k>> \in t.touches THEN Want(k) ELSE groups[k]
  PROVE  GroupInv'
<1> DEFINE S == {}
<1>1. tasks' = (tasks \ {t}) \union S /\ (\A u, v \in S : u = v) /\ \A u \in S : u.touches = t.touches /\ TaskAsked(u)'
  OBVIOUS
<1>2. \A u \in S : FALSE
  OBVIOUS
<1> HIDE DEF S
<1>3. \A k \in Ids : Undisturbed("group", k)' /\ Claimed(k) =>
        IF <<"group", k>> \in t.touches
        THEN (S = {} => groups'[k] = Want(k)) /\ \A u \in S : Right(u, k)'
        ELSE groups'[k] = groups[k]
  BY <1>2
<1> QED
  BY <1>1, <1>3, HandlerGroups

(* What is below are organisations.                                         *)
LEMMA BelowInIds ==
  ASSUME NEW i \in Ids
  PROVE  Below(i) \subseteq Ids
<1>1. CASE i = Root
  BY <1>1 DEF Below, FindChildOrgasForIds
<1>2. CASE i # Root
  <2> DEFINE s == {i}
  <2>1. s \in SUBSET Ids /\ Root \notin s
    BY <1>2
  <2> HIDE DEF s
  <2>2. FindChildOrgasForIds(s) \subseteq Ids
    BY <2>1, BelowIs
  <2> QED
    BY <2>2 DEF Below, s
<1> QED
  BY <1>1, <1>2

(* Handlers do what they are right about.                                   *)
LEMMA TasksGroups ==
  ASSUME Typed, GroupInv, Alone', NEW t \in tasks,
         StoreGroup(t) \/ DeleteGroup(t) \/ ReadKlassen(t) \/ StoreGroups(t) \/ GroupCallFails(t)
  PROVE  GroupInv'
<1>1. /\ TaskAsked(t)
      /\ \A k \in Ids : /\ Undisturbed("group", k) /\ Claimed(k) /\ <<"group", k>> \in t.touches
                        => Right(t, k)
      /\ DOMAIN groups = Ids /\ TaskTyped(t)
  BY DEF GroupInv, GroupRight, Typed, TreeTypeOK, RequestsTyped
<1>2. CASE StoreGroup(t)
  <2>1. /\ t.op = "group" /\ groups' = [groups EXCEPT ![t.id] = [name |-> t.name, parentId |-> t.parentId]]
        /\ orgas' = orgas /\ req' = req /\ disturbed' = disturbed /\ tasks' = tasks \ {t}
    BY <1>2 DEF StoreGroup, EndTask
  <2>2. ASSUME NEW k \in Ids, Undisturbed("group", k)', Claimed(k)
        PROVE  groups'[k] = IF <<"group", k>> \in t.touches THEN Want(k) ELSE groups[k]
    <3>1. <<"group", k>> \in t.touches <=> k = t.id
      BY <1>1, <2>1 DEF TaskAsked
    <3>2. k = t.id => Want(k) = [name |-> t.name, parentId |-> t.parentId]
      BY <1>1, <2>1, <2>2, <3>1 DEF Right, Undisturbed
    <3> QED
      BY <1>1, <2>1, <3>1, <3>2
  <2> QED
    BY <2>1, <2>2, HandlerEnds
<1>3. CASE DeleteGroup(t)
  <2>1. /\ t.op = "deleted" /\ groups' = [groups EXCEPT ![t.id] = NoGroup]
        /\ orgas' = orgas /\ req' = req /\ disturbed' = disturbed /\ tasks' = tasks \ {t}
    BY <1>3 DEF DeleteGroup, EndTask
  <2>2. ASSUME NEW k \in Ids, Undisturbed("group", k)', Claimed(k)
        PROVE  groups'[k] = IF <<"group", k>> \in t.touches THEN Want(k) ELSE groups[k]
    <3>1. <<"group", k>> \in t.touches <=> k = t.id
      BY <1>1, <2>1 DEF TaskAsked
    <3>2. k = t.id => Want(k) = NoGroup
      BY <1>1, <2>1, <2>2, <3>1 DEF Right, Undisturbed
    <3> QED
      BY <1>1, <2>1, <3>1, <3>2
  <2> QED
    BY <2>1, <2>2, HandlerEnds
<1>4. CASE StoreGroups(t)
  <2>1. /\ t.op = "store" /\ orgas' = orgas /\ req' = req /\ disturbed' = disturbed /\ tasks' = tasks \ {t}
        /\ \A k \in Ids : groups'[k] = IF k \in DOMAIN t.names THEN [name |-> t.names[k], parentId |-> t.id] ELSE groups[k]
    BY <1>4 DEF StoreGroups, EndTask
  <2>2. ASSUME NEW k \in Ids, Undisturbed("group", k)', Claimed(k)
        PROVE  groups'[k] = IF <<"group", k>> \in t.touches THEN Want(k) ELSE groups[k]
    <3>1. Undisturbed("group", k)
      BY <2>1, <2>2 DEF Undisturbed
    <3>2. CASE <<"group", k>> \in t.touches
      BY <1>1, <2>1, <2>2, <3>1, <3>2 DEF Right
    <3>3. CASE <<"group", k>> \notin t.touches
      <4>1. k \notin DOMAIN t.names
        BY <1>1, <2>1, <3>1, <3>3 DEF TaskAsked
      <4> QED
        BY <2>1, <3>3, <4>1
    <3> QED
      BY <3>2, <3>3
  <2> QED
    BY <2>1, <2>2, HandlerEnds
<1>5. ASSUME orgas' = orgas, groups' = groups, req' = req, tasks' = tasks \ {t}, disturbed' = disturbed \union t.touches
      PROVE  GroupInv'
  <2>1. ASSUME NEW k \in Ids, Undisturbed("group", k)', Claimed(k)
        PROVE  groups'[k] = IF <<"group", k>> \in t.touches THEN Want(k) ELSE groups[k]
    BY <1>5, <2>1 DEF Undisturbed
  <2> QED
    BY <1>5, <2>1, HandlerEnds
<1>6. CASE GroupCallFails(t)
  BY <1>5, <1>6 DEF GroupCallFails, TaskFails
<1>7. CASE ReadKlassen(t)
  <2> DEFINE klassen == {x \in Below(t.id) : orgas[x].typ = "KLASSE"}
             nested == {x \in klassen : orgas[x].administriertVon # t.id}
  <2>0. PICK u : u = [op |-> "store", id |-> t.id, touches |-> t.touches, parentId |-> t.id,
                      names |-> [k \in klassen |-> orgas[k].name]]
    OBVIOUS
  <2>1. CASE IsErsatz(t.id)
    BY <1>5, <1>7, <2>1 DEF ReadKlassen
  <2>2. CASE ~IsErsatz(t.id)
    <3>1. /\ t.op = "enabled" /\ orgas' = orgas /\ groups' = groups /\ req' = req
          /\ tasks' = (tasks \ {t}) \union {u}
          /\ disturbed' = disturbed \union {<<"group", k>> : k \in nested}
      BY <1>7, <2>0, <2>2 DEF ReadKlassen
    <3>2. t.id \in Ids /\ Enabled(t.id) /\ Covers(t.touches, t.id)
      BY <1>1, <3>1 DEF TaskTyped, TaskAsked
    <3>3. /\ u.op = "store" /\ u.id = t.id /\ u.touches = t.touches
          /\ DOMAIN u.names = klassen /\ \A k \in klassen : u.names[k] = orgas[k].name
      <4> HIDE DEF klassen
      <4> QED
        BY <2>0
    <3>4. ASSUME NEW k \in klassen, Undisturbed("group", k)'
          PROVE  k \in Below(t.id) /\ orgas[k].typ = "KLASSE" /\ orgas[k].administriertVon = t.id /\ Undisturbed("group", k)
      BY <3>1, <3>4 DEF Undisturbed
    <3>5. ASSUME NEW k \in Ids, Undisturbed("group", k), Claimed(k), orgas[k].typ = "KLASSE", orgas[k].administriertVon = t.id
          PROVE  k \in klassen /\ Want(k) = [name |-> orgas[k].name, parentId |-> t.id]
      <4>1. IsThere(t.id) /\ orgas[t.id].itslearningEnabled
        BY <3>2, <3>5 DEF Claimed, Enabled
      <4>2. IsThere(k) /\ k # t.id
        BY <3>2, <3>5 DEF IsThere, Enabled
      <4>3. k \in Below(t.id)
        BY <3>2, <3>5, <4>2, ChildrenBelow DEF Typed
      <4> QED
        BY <3>5, <4>1, <4>3 DEF Want
    <3> HIDE DEF klassen, nested
    <3>6. TaskAsked(u)'
      <4>1. ASSUME NEW k \in DOMAIN u.names, Undisturbed("group", k)' PROVE <<"group", k>> \in u.touches
        <5>1. k \in klassen
          BY <3>3
        <5>2. k \in Ids
          <6>1. Below(t.id) \subseteq Ids
            BY <3>2, BelowInIds
          <6> QED
            BY <3>4, <4>1, <5>1, <6>1
        <5> QED
          BY <3>2, <3>3, <3>4, <4>1, <5>1, <5>2 DEF Covers
      <4> QED
        BY <3>3, <4>1 DEF TaskAsked
    <3>7. ASSUME NEW k \in Ids, Undisturbed("group", k)', Claimed(k)
          PROVE  IF <<"group", k>> \in t.touches THEN Right(u, k)' ELSE groups'[k] = groups[k]
      <4>1. SUFFICES ASSUME <<"group", k>> \in t.touches PROVE Right(u, k)'
        BY <3>1
      <4>2. Undisturbed("group", k) /\ Want(k)' = Want(k)
        BY <3>1, <3>7 DEF Undisturbed, Want, IsThere
      <4>3. CASE k \in klassen
        <5>1. orgas[k].typ = "KLASSE" /\ orgas[k].administriertVon = t.id
          BY <3>4, <3>7, <4>3
        <5>2. Want(k) = [name |-> u.names[k], parentId |-> u.id]
          BY <3>3, <3>5, <3>7, <4>2, <4>3, <5>1
        <5> QED
          BY <3>3, <4>2, <4>3, <5>2 DEF Right
      <4>4. CASE k \notin klassen
        <5>1. groups[k] = Want(k)
          <6>1. Right(t, k)
            BY <1>1, <3>7, <4>1, <4>2
          <6> QED
            BY <3>1, <3>5, <3>7, <4>2, <4>4, <6>1 DEF Right
        <5> QED
          BY <3>1, <3>3, <4>2, <4>4, <5>1 DEF Right
      <4> QED
        BY <4>3, <4>4
    <3> DEFINE S == {u}
    <3>8. /\ tasks' = (tasks \ {t}) \union S /\ (\A v, w \in S : v = w) /\ \A v \in S : v.touches = t.touches /\ TaskAsked(v)'
          /\ S # {}
      BY <3>1, <3>3, <3>6
    <3>9. ASSUME NEW k \in Ids, Undisturbed("group", k)', Claimed(k)
          PROVE  IF <<"group", k>> \in t.touches
                 THEN (S = {} => groups'[k] = Want(k)) /\ \A v \in S : Right(v, k)'
                 ELSE groups'[k] = groups[k]
      BY <3>7, <3>9
    <3>10. disturbed \subseteq disturbed'
      BY <3>1
    <3> HIDE DEF S
    <3> QED
      BY <3>1, <3>8, <3>9, <3>10, HandlerGroups
  <2> QED
    BY <2>1, <2>2
<1> QED
  BY <1>2, <1>3, <1>4, <1>6, <1>7

(* To begin with nobody touches anything, and itslearning is as it should   *)
(* be.                                                                      *)
LEMMA InitGroups == KlassenFollow /\ Init => GroupInv
<1> SUFFICES ASSUME KlassenFollow, Init PROVE GroupInv
  OBVIOUS
<1>1. tasks = {} /\ disturbed = {} /\ \A c \in Clients : req[c] = Idle
  BY DEF Init, NothingBegun
<1>2. Quiet
  BY <1>1 DEF Quiet, InProgress
<1>3. ASSUME NEW k \in Ids PROVE SchuleCreated(orgas[k]) /\ GroupRight(k)
  <2>1. SchuleCreated(orgas[k])
    BY StartsAssumption DEF Init, SchuleCreated, Kinds
  <2>2. GroupRight(k)
    BY <1>1, <1>2 DEF KlassenFollow, GroupRight, Claimed, Want
  <2> QED
    BY <2>1, <2>2
<1>4. ASSUME NEW c \in Clients PROVE RowCreated(req[c]) /\ GroupAsked(req[c]) /\ GroupChecked(req[c])
  BY <1>1, NoGroupAsked DEF Idle, OrgaOps
<1>5. Alone /\ GroupsAlone
  BY <1>1, InitAlone DEF GroupsAlone
<1> QED
  BY <1>1, <1>3, <1>4, <1>5 DEF GroupInv

(* Every step keeps what requests and handlers have to do with Klassen.     *)
LEMMA NextGroups ==
  ASSUME Typed, Typed', OrgaVersions, GroupInv, [Next]_vars
  PROVE  GroupInv'
<1>1. Alone'
  BY NextAlone DEF GroupInv
<1>2. CASE TreeNext(Assigned, Mapped) /\ UNCHANGED <<serviceVars, rollenVars>>
  <2>1. ASSUME NEW c \in Clients,
               \/ CreateOrganisation(c) \/ PutOrganisation(c) \/ UpdateKlassenname(c)
               \/ SetEnabledForitslearning(c) \/ DeleteKlasse(c, Assigned)
               \/ \E kind \in Kinds : SetParent(c, kind)
        PROVE  GroupInv'
    <3>1. PICK q : Begin(c, q) /\ UNCHANGED treeVars /\ RowCreated(q) /\ GroupAsked(q) /\ GroupChecked(q)
      BY <2>1, GroupBegins
    <3> QED
      BY <1>1, <3>1, GroupBegun
  <2>2. ASSUME NEW c \in Clients, Insert(c) \/ Update(c) PROVE GroupInv'
    BY <1>1, <2>2, SaveGroups
  <2>3. ASSUME NEW c \in Clients, UpdateOutdated(c) PROVE GroupInv'
    <3>1. OnlyRequest(c) /\ req'[c] = Idle
      BY <2>3, GiveUpStep DEF UpdateOutdated
    <3>2. orgas' = orgas /\ groups' = groups /\ tasks' = tasks /\ disturbed' = disturbed
      BY <2>3 DEF UpdateOutdated, GiveUp, End
    <3>3. req'[c].touches \subseteq req[c].touches /\ req'[c].op \notin OrgaOps \union {"create", "delete"}
      BY <3>1 DEF Idle, OrgaOps
    <3> QED
      BY <1>1, <3>1, <3>2, <3>3, GroupRests
  <2>4. ASSUME NEW c \in Clients, Remove(c, Mapped) PROVE GroupInv'
    BY <1>1, <2>4, RemoveGroups
  <2>5. ASSUME NEW t \in tasks,
               StoreGroup(t) \/ DeleteGroup(t) \/ ReadKlassen(t) \/ StoreGroups(t) \/ GroupCallFails(t)
        PROVE  GroupInv'
    BY <1>1, <2>5, TasksGroups
  <2> QED
    BY <1>2, <2>1, <2>2, <2>3, <2>4, <2>5 DEF TreeNext
<1>3. CASE ~(TreeNext(Assigned, Mapped) /\ UNCHANGED <<serviceVars, rollenVars>>)
  BY <1>1, <1>3, OthersGroups DEF Next
<1> QED
  BY <1>2, <1>3

(* When nothing is in progress no handler has anything to do.               *)
LEMMA GroupsFollow ==
  ASSUME GroupInv
  PROVE  KlassenFollow
<1>1. SUFFICES ASSUME Quiet, NEW k \in Ids, Undisturbed("group", k), Claimed(k) PROVE groups[k] = Want(k)
  <2> SUFFICES ASSUME Quiet, NEW k \in Ids, Undisturbed("group", k)
               PROVE  LET o == orgas[k] schule == o.administriertVon IN
                      /\ o.typ # "KLASSE" => groups[k] = NoGroup
                      /\ o.typ = "KLASSE" /\ IsThere(schule) =>
                           groups[k] = IF orgas[schule].itslearningEnabled
                                       THEN [name |-> o.name, parentId |-> schule] ELSE NoGroup
    BY DEF KlassenFollow
  <2> QED
    BY <1>1 DEF Claimed, Want
<1>2. ASSUME NEW t \in tasks PROVE FALSE
  <2>1. t = Idle
    BY <1>1 DEF Quiet, InProgress
  <2>2. t.op \in {"group", "deleted", "enabled", "store"}
    BY DEF GroupInv, TaskAsked
  <2> QED
    BY <2>1, <2>2 DEF Idle
<1> QED
  BY <1>1, <1>2 DEF GroupInv, GroupRight

(* For any number of requests and handlers itslearning has the Klassen it   *)
(* should have, if it had them to begin with, apart from those that were    *)
(* touched twice at a time, moved, or left out by a call that failed.       *)
THEOREM KlassenReachItslearning == KlassenFollow /\ Spec => []KlassenFollow
<1> DEFINE Inv == Typed /\ OrgaVersions /\ RolleVersions /\ ~overwritten /\ GroupInv
<1>1. KlassenFollow /\ Init => Inv
  <2>1. Init => ~overwritten
    BY DEF Init, NothingBegun
  <2> QED
    BY <2>1, InitTyped, InitVersions, InitGroups
<1>2. Inv /\ [Next]_vars => Inv'
  <2> SUFFICES ASSUME Inv, [Next]_vars PROVE Inv'
    OBVIOUS
  <2>1. Typed'
    BY NextTyped
  <2>2. OrgaVersions' /\ RolleVersions' /\ ~overwritten'
    BY <2>1, NextVersions
  <2>3. GroupInv'
    BY <2>1, NextGroups
  <2> QED
    BY <2>1, <2>2, <2>3
<1>3. Inv => KlassenFollow
  BY GroupsFollow
<1> QED
  BY <1>1, <1>2, <1>3, PTL DEF Spec

(* The two ways to find out what someone may do come to the same result,   *)
(* whatever the tree, the Rollen and the Kontexte have become.              *)
THEOREM RightsFound == Spec => []RechteAgree
<1>1. TypeOK => RechteAgree
  BY RightsAgree DEF TypeOK
<1> QED
  BY <1>1, VerwaltungTyped, PTL

=============================================================================
