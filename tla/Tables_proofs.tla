---------------------------- MODULE Tables_proofs ----------------------------
(***************************************************************************)
(* Facts about rows by their key, and about the grid of times on which     *)
(* statistics rows start, that the proofs about the adapters share.        *)
(***************************************************************************)
EXTENDS Tables, FiniteSetTheorems, WellFoundedInduction, TLAPS

(***************************************************************************)
(* Partial functions: what the operators on them return.                   *)
(***************************************************************************)
LEMMA EmptyFunType ==
  /\ DOMAIN EmptyFun = {}
  /\ \A S, T : EmptyFun \in PartialFun(S, T)
<1>1. DOMAIN EmptyFun = {}
  BY DEF EmptyFun
<1>2. ASSUME NEW S, NEW T PROVE EmptyFun \in [{} -> T] /\ {} \in SUBSET S
  BY DEF EmptyFun
<1> QED
  BY <1>1, <1>2 DEF PartialFun

LEMMA PartialFunDef ==
  ASSUME NEW S, NEW T, NEW f \in PartialFun(S, T)
  PROVE  f \in [DOMAIN f -> T] /\ DOMAIN f \subseteq S
  BY DEF PartialFun

LEMMA PutType ==
  ASSUME NEW S, NEW T, NEW f \in PartialFun(S, T), NEW x \in S, NEW v \in T
  PROVE  Put(f, x, v) \in PartialFun(S, T)
<1>1. f \in [DOMAIN f -> T] /\ DOMAIN f \subseteq S
  BY PartialFunDef
<1>2. Put(f, x, v) \in [DOMAIN f \cup {x} -> T]
  BY <1>1 DEF Put
<1> QED
  BY <1>1, <1>2 DEF PartialFun

LEMMA PutValue ==
  ASSUME NEW f, NEW x, NEW v
  PROVE  /\ DOMAIN Put(f, x, v) = DOMAIN f \cup {x}
         /\ Put(f, x, v)[x] = v
         /\ \A y \in DOMAIN f \ {x} : Put(f, x, v)[y] = f[y]
  BY DEF Put

LEMMA WithoutType ==
  ASSUME NEW S, NEW T, NEW f \in PartialFun(S, T), NEW x
  PROVE  /\ Without(f, x) \in PartialFun(S, T)
         /\ DOMAIN Without(f, x) = DOMAIN f \ {x}
<1>1. f \in [DOMAIN f -> T] /\ DOMAIN f \subseteq S
  BY PartialFunDef
<1>2. Without(f, x) \in [DOMAIN f \ {x} -> T]
  BY <1>1 DEF Without
<1> QED
  BY <1>1, <1>2 DEF PartialFun

LEMMA UpdatedRows ==
  ASSUME NEW f, NEW g
  PROVE  /\ DOMAIN Updated(f, g) = DOMAIN f
         /\ \A x \in DOMAIN f : x \in DOMAIN g => Updated(f, g)[x] = g[x]
         /\ \A x \in DOMAIN f : x \notin DOMAIN g => Updated(f, g)[x] = f[x]
  BY DEF Updated

\* What a table holds of an interval is decided by the rows in it.
LEMMA WithinSame ==
  ASSUME NEW f, NEW g, NEW from, NEW to,
         \A y : from <= y /\ y < to => (y \in DOMAIN f <=> y \in DOMAIN g),
         \A y \in DOMAIN f : from <= y /\ y < to => f[y] = g[y]
  PROVE  Within(f, from, to) = Within(g, from, to)
<1>1. {y \in DOMAIN f : from <= y /\ y < to} = {y \in DOMAIN g : from <= y /\ y < to}
  OBVIOUS
<1> QED
  BY <1>1 DEF Within

(***************************************************************************)
(* A set of numbers that is not empty has a least one, and, when bounded,  *)
(* a greatest one: the oldest of some rows is one of them.                 *)
(***************************************************************************)
LEMMA LeastExists ==
  ASSUME NEW S \in SUBSET Nat, S # {}
  PROVE  \E r \in S : \A s \in S : r <= s
<1>1. PICK r \in S : \A s \in S : ~(<<s, r>> \in OpToRel(<, Nat))
  BY WFMin, NatLessThanWellFounded
<1>2. ASSUME NEW s \in S PROVE ~(s < r)
  <2>1. s \in Nat /\ r \in Nat
    OBVIOUS
  <2> QED
    BY <2>1, <1>1, Zenon DEF OpToRel
<1> QED
  BY <1>2

LEMMA GreatestExists ==
  ASSUME NEW N \in Nat, NEW S \in SUBSET (0..N), S # {}
  PROVE  \E m \in S : \A y \in S : m >= y
<1> DEFINE T == {n \in 0..N : N - n \in S}
<1>1. T \subseteq Nat
  OBVIOUS
<1>2. T # {}
  <2>1. PICK y \in S : TRUE
    OBVIOUS
  <2>2. N - y \in 0..N /\ N - (N - y) = y
    BY <2>1
  <2> QED
    BY <2>1, <2>2
<1>3. PICK t \in T : \A u \in T : ~(<<u, t>> \in OpToRel(<, Nat))
  BY <1>1, <1>2, WFMin, NatLessThanWellFounded
<1>4. ASSUME NEW u \in T PROVE ~(u < t)
  <2>1. u \in Nat /\ t \in Nat
    BY <1>1
  <2> QED
    BY <2>1, <1>3, Zenon DEF OpToRel
<1>5. N - t \in S /\ N - t \in Int
  OBVIOUS
<1>6. ASSUME NEW y \in S PROVE N - t >= y
  <2>1. y \in 0..N /\ N - y \in 0..N /\ N - (N - y) = y
    OBVIOUS
  <2>2. ~(N - y < t)
    BY <2>1, <1>4
  <2> QED
    BY <2>1, <2>2
<1> QED
  BY <1>5, <1>6

\* A set of instants that has a last one; Max finds it.
LEMMA MaxIs ==
  ASSUME NEW S \in SUBSET Int, NEW m \in S, \A y \in S : m >= y
  PROVE  Max(S) = m
<1>1. Max(S) \in S /\ \A y \in S : Max(S) >= y
  BY Zenon DEF Max
<1>2. Max(S) >= m /\ m >= Max(S) /\ m \in Int /\ Max(S) \in Int
  BY <1>1
<1> QED
  BY <1>2

LEMMA LastInstant ==
  ASSUME NEW N \in Nat, NEW S \in SUBSET (0..N), S # {}
  PROVE  Max(S) \in S /\ \A y \in S : Max(S) >= y
<1>1. \E m \in S : \A y \in S : m >= y
  BY GreatestExists
<1> QED
  BY <1>1, Zenon DEF Max

LEMMA FirstInstant ==
  ASSUME NEW S \in SUBSET Nat, S # {}
  PROVE  Min(S) \in S /\ \A y \in S : Min(S) <= y
<1>1. \E m \in S : \A y \in S : m <= y
  BY LeastExists
<1> QED
  BY <1>1, Zenon DEF Min

LEMMA OldestType ==
  ASSUME NEW rows \in SUBSET Nat, rows # {}
  PROVE  Oldest(rows) \in rows
<1>1. \E r \in rows : \A s \in rows : r <= s
  BY LeastExists
<1> QED
  BY <1>1 DEF Oldest

-----------------------------------------------------------------------------
(***************************************************************************)
(* The time grid.  Buckets and hours are intervals that begin at multiples *)
(* of their width.                                                         *)
(***************************************************************************)
LEMMA DivisionFacts ==
  ASSUME NEW a \in Int, NEW b \in Nat \ {0}
  PROVE  /\ a \div b \in Int /\ a % b \in 0..(b - 1)
         /\ a = b * (a \div b) + (a % b)
  OBVIOUS

LEMMA DivisionUnique ==
  ASSUME NEW q \in Int, NEW r \in Int, NEW b \in Nat \ {0}, NEW p \in Int, NEW s \in Int,
         b * q + r = b * p + s, 0 <= r, r < b, 0 <= s, s < b
  PROVE  q = p
  OBVIOUS

LEMMA MultipleOf ==
  ASSUME NEW q \in Int, NEW b \in Nat \ {0}
  PROVE  (b * q) % b = 0 /\ (b * q) \div b = q
<1>0. b * q \in Int
  OBVIOUS
<1>1. /\ (b * q) \div b \in Int /\ (b * q) % b \in 0..(b - 1)
      /\ b * q = b * ((b * q) \div b) + ((b * q) % b)
  BY <1>0, DivisionFacts
<1> DEFINE d == (b * q) \div b
           r == (b * q) % b
<1>2. b * q + 0 = b * d + r /\ d \in Int /\ r \in Int /\ 0 <= r /\ r < b
  BY <1>1
<1> HIDE DEF d, r
<1>3. q = d
  BY <1>2, DivisionUnique
<1> QED
  BY <1>2, <1>3 DEF d, r

LEMMA StrictMultiple ==
  ASSUME NEW p \in Int, NEW q \in Int, NEW b \in Nat \ {0}, b * p < b * q
  PROVE  b * p + b <= b * q
<1>1. p < q
  OBVIOUS
<1>2. p + 1 <= q
  BY <1>1
<1> QED
  BY <1>2

\* The start of the interval an instant lies in.
LEMMA GridStart ==
  ASSUME NEW ts \in Nat, NEW b \in Nat \ {0}
  PROVE  /\ (ts \div b) * b \in Nat /\ ((ts \div b) * b) % b = 0
         /\ (ts \div b) * b <= ts /\ ts < (ts \div b) * b + b
<1> DEFINE q == ts \div b
<1>1. q \in Int /\ ts % b \in 0..(b - 1) /\ ts = b * q + (ts % b)
  BY DivisionFacts
<1>2. q >= 0
  BY <1>1
<1>3. (ts \div b) * b = b * q
  BY <1>1
<1>4. (b * q) % b = 0
  BY <1>1, MultipleOf
<1>5. b * q \in Nat
  BY <1>1, <1>2
<1> QED
  BY <1>1, <1>3, <1>4, <1>5

\* Of two starts on one grid, the later begins no sooner than the earlier ends.
LEMMA GridGap ==
  ASSUME NEW b \in Nat \ {0}, NEW x \in Nat, NEW y \in Nat, x % b = 0, y % b = 0, x < y
  PROVE  x + b <= y
<1>1. x = b * (x \div b) /\ y = b * (y \div b) /\ x \div b \in Int /\ y \div b \in Int
  BY DivisionFacts
<1> QED
  BY <1>1, StrictMultiple

\* A coarser grid is part of a finer one.
LEMMA OnFinerGrid ==
  ASSUME NEW b \in Nat \ {0}, NEW c \in Nat \ {0}, c % b = 0, NEW x \in Nat, x % c = 0
  PROVE  x % b = 0
<1>1. /\ c = b * (c \div b) /\ c \div b \in Int
      /\ x = c * (x \div c) /\ x \div c \in Int
  BY DivisionFacts
<1> DEFINE q == (c \div b) * (x \div c)
<1>2. x = b * q /\ q \in Int
  BY <1>1
<1> HIDE DEF q
<1> QED
  BY <1>2, MultipleOf

\* The bucket an instant lies in begins in the hour the instant lies in.
LEMMA GridNested ==
  ASSUME NEW ts \in Nat, NEW b \in Nat \ {0}, NEW c \in Nat \ {0}, c % b = 0
  PROVE  (ts \div c) * c <= (ts \div b) * b
<1> DEFINE x == (ts \div c) * c
           y == (ts \div b) * b
<1>1. x \in Nat /\ x % c = 0 /\ x <= ts
  BY GridStart
<1>2. y \in Nat /\ y % b = 0 /\ ts < y + b
  BY GridStart
<1> HIDE DEF x, y
<1>3. x % b = 0
  BY <1>1, OnFinerGrid
<1>4. ASSUME y < x PROVE FALSE
  <2>1. y + b <= x
    BY <1>1, <1>2, <1>3, <1>4, GridGap
  <2> QED
    BY <2>1, <1>1, <1>2
<1> QED
  BY <1>1, <1>2, <1>4 DEF x, y

LEMMA NextOnGrid ==
  ASSUME NEW b \in Nat \ {0}, NEW x \in Nat, x % b = 0
  PROVE  (x + b) % b = 0
<1>1. x = b * (x \div b) /\ x \div b \in Int
  BY DivisionFacts
<1>2. x + b = b * (x \div b + 1) /\ x \div b + 1 \in Int
  BY <1>1
<1> QED
  BY <1>2, MultipleOf

-----------------------------------------------------------------------------
(***************************************************************************)
(* Sums.  Total is a fold, and a fold a recursive function that CHOOSE     *)
(* picks: that there is one is shown by the size of the set folded over,   *)
(* and from its equation that the order of the terms does not matter.  The *)
(* inductions are least counterexamples.                                   *)
(***************************************************************************)
Pick(s) == CHOOSE x \in s : TRUE

SumsOver(f, D, g) == g = [s \in SUBSET D |-> IF s = {} THEN 0 ELSE f[Pick(s)] + g[s \ {Pick(s)}]]

LEMMA TotalDef == ASSUME NEW f PROVE Total(f) = (CHOOSE g : SumsOver(f, DOMAIN f, g))[DOMAIN f]
  BY DEF Total, MapThenSumSet, MapThenFoldSet, SumsOver, Pick

LEMMA SubsetSize ==
  ASSUME NEW D, IsFiniteSet(D), NEW s \in SUBSET D
  PROVE  /\ IsFiniteSet(s) /\ Cardinality(s) \in Nat /\ Cardinality(s) <= Cardinality(D)
         /\ s # {} => /\ Pick(s) \in s /\ s \ {Pick(s)} \in SUBSET D
                      /\ Cardinality(s \ {Pick(s)}) = Cardinality(s) - 1
                      /\ Cardinality(s) > 0
<1>1. IsFiniteSet(s) /\ Cardinality(s) \in Nat /\ Cardinality(s) <= Cardinality(D)
  BY FS_Subset, FS_CardinalityType
<1>2. ASSUME s # {} PROVE /\ Pick(s) \in s /\ s \ {Pick(s)} \in SUBSET D
                      /\ Cardinality(s \ {Pick(s)}) = Cardinality(s) - 1
                      /\ Cardinality(s) > 0
  <2>1. Pick(s) \in s
    BY <1>2 DEF Pick
  <2>2. Cardinality(s \ {Pick(s)}) = Cardinality(s) - 1
    BY <1>1, <2>1, FS_RemoveElement
  <2>3. Cardinality(s) # 0
    BY <1>1, <1>2, FS_EmptySet
  <2> QED
    BY <1>1, <2>1, <2>2, <2>3
<1> QED
  BY <1>1, <1>2

\* The sums of the subsets of fewer than n elements, from those of fewer
\* than n - 1.
Below(D, n) == {s \in SUBSET D : Cardinality(s) < n}

SumsBelow(f, D, n, g) == g = [s \in Below(D, n) |-> IF s = {} THEN 0 ELSE f[Pick(s)] + g[s \ {Pick(s)}]]

LEMMA SumsExist ==
  ASSUME NEW f, NEW D, IsFiniteSet(D)
  PROVE  \E g : SumsOver(f, D, g)
<1> DEFINE Bad == {n \in Nat : ~ \E g : SumsBelow(f, D, n, g)}
<1>0. Cardinality(D) \in Nat
      /\ \A s \in SUBSET D : Cardinality(s) \in Nat /\ Cardinality(s) <= Cardinality(D)
  BY SubsetSize, FS_CardinalityType
<1>1. Bad = {}
  <2> SUFFICES ASSUME Bad # {} PROVE FALSE
    OBVIOUS
  <2>1. PICK n \in Bad : \A m \in Bad : n <= m
    BY LeastExists
  <2>2. \E g : SumsBelow(f, D, 0, g)
    <3>1. Below(D, 0) = {}
      BY <1>0 DEF Below
    <3>2. SumsBelow(f, D, 0, [s \in Below(D, 0) |-> 0])
      BY <3>1, Zenon DEF SumsBelow
    <3> QED
      BY <3>2
  <2>3. n # 0 /\ n \in Nat /\ n - 1 \in Nat
    <3>1. n \in Nat /\ n # 0
      BY <2>1, <2>2
    <3> QED
      BY <3>1
  <2>4. PICK g : SumsBelow(f, D, n - 1, g)
    <3>1. n - 1 \notin Bad
      BY <2>1, <2>3
    <3> QED
      BY <3>1, <2>3
  <2> DEFINE h == [s \in Below(D, n) |-> IF s = {} THEN 0 ELSE f[Pick(s)] + g[s \ {Pick(s)}]]
  <2>5. ASSUME NEW s \in Below(D, n), s # {} PROVE s \ {Pick(s)} \in Below(D, n - 1)
    BY <1>0, <2>3, <2>5, SubsetSize DEF Below
  <2>6. \A s \in Below(D, n - 1) : g[s] = h[s]
    <3>1. ASSUME NEW s \in Below(D, n - 1) PROVE s \in Below(D, n)
      BY <1>0, <2>3 DEF Below
    <3> QED
      BY <3>1, <2>4 DEF SumsBelow
  <2>7. SumsBelow(f, D, n, h)
    <3>1. ASSUME NEW s \in Below(D, n)
          PROVE  (IF s = {} THEN 0 ELSE f[Pick(s)] + g[s \ {Pick(s)}])
                   = (IF s = {} THEN 0 ELSE f[Pick(s)] + h[s \ {Pick(s)}])
      <4> HIDE DEF h
      <4> QED
        BY <2>5, <2>6
    <3> QED
      BY <3>1, Zenon DEF SumsBelow
  <2> QED
    BY <2>7, <2>1
<1>2. PICK g : SumsBelow(f, D, Cardinality(D) + 1, g)
  <2>1. Cardinality(D) + 1 \in Nat
    BY FS_CardinalityType
  <2> QED
    BY <1>1, <2>1
<1>3. Below(D, Cardinality(D) + 1) = SUBSET D
  <2>1. ASSUME NEW s \in SUBSET D PROVE Cardinality(s) < Cardinality(D) + 1
    BY <1>0
  <2> QED
    BY <2>1 DEF Below
<1>4. SumsOver(f, D, g)
  BY <1>2, <1>3, Zenon DEF SumsOver, SumsBelow
<1> QED
  BY <1>4

\* Two sums of the same numbers are the same.
LEMMA SumsAgree ==
  ASSUME NEW f1, NEW D1, NEW g1, SumsOver(f1, D1, g1),
         NEW f2, NEW D2, NEW g2, SumsOver(f2, D2, g2),
         NEW E, IsFiniteSet(E), E \subseteq D1, E \subseteq D2, \A x \in E : f1[x] = f2[x]
  PROVE  g1[E] = g2[E]
<1> DEFINE Bad == {n \in Nat : \E s \in SUBSET E : Cardinality(s) = n /\ g1[s] # g2[s]}
<1>1. ASSUME Bad # {} PROVE FALSE
  <2>1. PICK n \in Bad : \A m \in Bad : n <= m
    BY LeastExists, <1>1
  <2>2. PICK s \in SUBSET E : Cardinality(s) = n /\ g1[s] # g2[s]
    BY <2>1
  <2>3. s # {}
    BY <2>2 DEF SumsOver
  <2>4. Pick(s) \in s /\ s \ {Pick(s)} \in SUBSET E /\ Cardinality(s \ {Pick(s)}) = n - 1 /\ n - 1 \in Nat
    <3>1. n \in Nat
      BY <2>1
    <3> HIDE DEF Bad
    <3> QED
      BY <3>1, <2>2, <2>3, SubsetSize
  <2>5. g1[s \ {Pick(s)}] = g2[s \ {Pick(s)}]
    <3>1. n - 1 \notin Bad
      BY <2>4, <2>1
    <3> QED
      BY <2>4, <3>1
  <2>6. s \in SUBSET D1 /\ s \in SUBSET D2
    OBVIOUS
  <2>7. g1[s] = f1[Pick(s)] + g1[s \ {Pick(s)}] /\ g2[s] = f2[Pick(s)] + g2[s \ {Pick(s)}]
    BY <2>3, <2>6, Zenon DEF SumsOver
  <2> QED
    BY <2>7, <2>5, <2>4, <2>2
<1>2. Cardinality(E) \in Nat
  BY FS_CardinalityType
<1>3. Cardinality(E) \notin Bad
  BY <1>1
<1> QED
  BY <1>2, <1>3

LEMMA TotalSame ==
  ASSUME NEW f, NEW g, IsFiniteSet(DOMAIN f), DOMAIN g = DOMAIN f, \A x \in DOMAIN f : f[x] = g[x]
  PROVE  Total(f) = Total(g)
<1>1. PICK s : SumsOver(f, DOMAIN f, s)
  BY SumsExist
<1>2. PICK t : SumsOver(g, DOMAIN g, t)
  BY SumsExist
<1> DEFINE a == CHOOSE h : SumsOver(f, DOMAIN f, h)
           b == CHOOSE h : SumsOver(g, DOMAIN g, h)
<1>3. SumsOver(f, DOMAIN f, a) /\ SumsOver(g, DOMAIN g, b)
  BY <1>1, <1>2, Zenon
<1>4. Total(f) = a[DOMAIN f] /\ Total(g) = b[DOMAIN g]
  BY TotalDef
<1> HIDE DEF a, b
<1>5. a[DOMAIN f] = b[DOMAIN f]
  BY <1>3, SumsAgree
<1> QED
  BY <1>4, <1>5

LEMMA TotalEmpty == ASSUME NEW f, DOMAIN f = {} PROVE Total(f) = 0
<1>0. IsFiniteSet({})
  BY FS_EmptySet
<1>1. PICK s : SumsOver(f, {}, s)
  BY <1>0, SumsExist
<1> DEFINE a == CHOOSE h : SumsOver(f, {}, h)
<1>2. SumsOver(f, {}, a)
  BY <1>1, Zenon
<1>3. Total(f) = a[{}]
  BY TotalDef
<1> HIDE DEF a
<1> QED
  BY <1>2, <1>3, Zenon DEF SumsOver

LEMMA TotalPick ==
  ASSUME NEW f, IsFiniteSet(DOMAIN f), DOMAIN f # {}
  PROVE  Total(f) = f[Pick(DOMAIN f)] + Total(Without(f, Pick(DOMAIN f)))
<1> DEFINE x == Pick(DOMAIN f)
           g == Without(f, x)
           a == CHOOSE h : SumsOver(f, DOMAIN f, h)
           b == CHOOSE h : SumsOver(g, DOMAIN g, h)
<1>0. DOMAIN g = DOMAIN f \ {x} /\ \A y \in DOMAIN g : g[y] = f[y]
  BY Zenon DEF Without
<1>1. x \in DOMAIN f
  BY DEF Pick
<1>2. IsFiniteSet(DOMAIN g)
  BY <1>0, FS_RemoveElement
<1>3. SumsOver(f, DOMAIN f, a)
  <2>1. PICK s : SumsOver(f, DOMAIN f, s)
    BY SumsExist
  <2> QED
    BY <2>1, Zenon
<1>4. SumsOver(g, DOMAIN g, b)
  <2>1. PICK s : SumsOver(g, DOMAIN g, s)
    BY <1>2, SumsExist
  <2> QED
    BY <2>1, Zenon
<1>5. Total(f) = a[DOMAIN f] /\ Total(g) = b[DOMAIN g]
  BY TotalDef
<1> HIDE DEF a, b, g
<1>6. a[DOMAIN f] = f[x] + a[DOMAIN f \ {x}]
  BY <1>3, Zenon DEF SumsOver
<1>7. a[DOMAIN g] = b[DOMAIN g]
  BY <1>0, <1>2, <1>3, <1>4, SumsAgree
<1> QED
  BY <1>0, <1>5, <1>6, <1>7 DEF g

\* A fact about every function on a finite set is shown by taking out one
\* element: a function with the fewest elements among those it fails for.
LEMMA TotalType ==
  ASSUME NEW f, IsFiniteSet(DOMAIN f), \A x \in DOMAIN f : f[x] \in Int
  PROVE  Total(f) \in Int
<1> DEFINE part(s) == [x \in s |-> f[x]]
           Bad == {n \in Nat : \E s \in SUBSET DOMAIN f : Cardinality(s) = n /\ Total(part(s)) \notin Int}
<1>1. ASSUME Bad # {} PROVE FALSE
  <2>1. PICK n \in Bad : \A m \in Bad : n <= m
    BY LeastExists, <1>1
  <2>2. PICK s \in SUBSET DOMAIN f : Cardinality(s) = n /\ Total(part(s)) \notin Int
    BY <2>1
  <2> DEFINE g == part(s)
  <2>a. DOMAIN g = s /\ \A y \in s : g[y] = f[y]
    OBVIOUS
  <2> DEFINE x == Pick(s)
  <2>b. Without(g, x) = part(s \ {x})
    BY <2>a, Zenon DEF Without
  <2>c. Total(g) \notin Int
    BY <2>2
  <2>3. s # {}
    <3>1. DOMAIN g # {}
      <4> HIDE DEF g
      <4> QED
       BY <2>c, TotalEmpty
    <3> QED
      BY <3>1, <2>a
  <2>4. x \in s /\ s \ {x} \in SUBSET DOMAIN f /\ Cardinality(s \ {x}) = n - 1 /\ n - 1 \in Nat /\ IsFiniteSet(s)
    <3>1. n \in Nat
      BY <2>1
    <3>2. Cardinality(s) = n
      BY <2>2
    <3>3. Pick(s) \in s /\ s \ {Pick(s)} \in SUBSET DOMAIN f /\ Cardinality(s \ {Pick(s)}) = Cardinality(s) - 1
      BY <2>3, SubsetSize
    <3>4. Cardinality(s) > 0 /\ IsFiniteSet(s)
      BY <2>3, SubsetSize
    <3> HIDE DEF Bad, part, g
    <3> QED
      BY <3>1, <3>2, <3>3, <3>4
  <2>5. Total(part(s \ {x})) \in Int
    <3>1. n - 1 \notin Bad
      BY <2>4, <2>1
    <3> HIDE DEF part
    <3> QED
      BY <2>4, <3>1
  <2> HIDE DEF g, part
  <2>6. Total(g) = g[x] + Total(part(s \ {x}))
    BY <2>a, <2>b, <2>3, <2>4, TotalPick
  <2>7. g[x] \in Int
    BY <2>a, <2>4
  <2> QED
    BY <2>6, <2>7, <2>5, <2>c
<1>2. Cardinality(DOMAIN f) \in Nat
  BY FS_CardinalityType
<1>3. Total(part(DOMAIN f)) \in Int
  <2>1. Cardinality(DOMAIN f) \notin Bad
    BY <1>1
  <2> QED
    BY <1>2, <2>1
<1> DEFINE h == part(DOMAIN f)
<1>4. DOMAIN h = DOMAIN f /\ \A y \in DOMAIN f : f[y] = h[y]
  OBVIOUS
<1> HIDE DEF h
<1>5. Total(f) = Total(h)
  BY <1>4, TotalSame
<1> QED
  BY <1>3, <1>5 DEF h

\* The order does not matter: any element can be taken out.
LEMMA TotalRemove ==
  ASSUME NEW f, IsFiniteSet(DOMAIN f), \A x \in DOMAIN f : f[x] \in Int, NEW e \in DOMAIN f
  PROVE  Total(f) = f[e] + Total(Without(f, e))
<1> DEFINE part(s) == [x \in s |-> f[x]]
           Bad == {n \in Nat : \E s \in SUBSET DOMAIN f : \E x \in s :
                     Cardinality(s) = n /\ Total(part(s)) # f[x] + Total(part(s \ {x}))}
<1>p. ASSUME NEW s \in SUBSET DOMAIN f
      PROVE  /\ Total(part(s)) \in Int
             /\ s # {} => Total(part(s)) = f[Pick(s)] + Total(part(s \ {Pick(s)}))
  <2> DEFINE g == part(s)
  <2>1. DOMAIN g = s /\ \A y \in s : g[y] = f[y]
    OBVIOUS
  <2>2. IsFiniteSet(s)
    BY FS_Subset
  <2>3. Without(g, Pick(s)) = part(s \ {Pick(s)})
    BY <2>1, Zenon DEF Without
  <2>4. s # {} => Pick(s) \in s
    BY DEF Pick
  <2> HIDE DEF g
  <2>5. Total(g) \in Int
    BY <2>1, <2>2, TotalType
  <2>6. s # {} => Total(g) = f[Pick(s)] + Total(Without(g, Pick(s)))
    BY <2>1, <2>2, <2>4, TotalPick
  <2> QED
    BY <2>3, <2>5, <2>6 DEF g
<1> HIDE DEF part
<1>1. ASSUME Bad # {} PROVE FALSE
  <2>1. PICK n \in Bad : \A m \in Bad : n <= m
    BY LeastExists, <1>1
  <2>s. PICK s \in SUBSET DOMAIN f : \E x \in s :
                Cardinality(s) = n /\ Total(part(s)) # f[x] + Total(part(s \ {x}))
    BY <2>1
  <2>2. PICK x \in s : Cardinality(s) = n /\ Total(part(s)) # f[x] + Total(part(s \ {x}))
    BY <2>s
  <2> DEFINE y == Pick(s)
  <2>n. n \in Nat
    BY <2>1
  <2>3. y \in s /\ s \ {y} \in SUBSET DOMAIN f /\ Cardinality(s \ {y}) = n - 1 /\ n - 1 \in Nat /\ IsFiniteSet(s)
    <3> HIDE DEF Bad
    <3> QED
      BY <2>n, <2>2, SubsetSize
  <2>4. Total(part(s)) = f[y] + Total(part(s \ {y}))
    BY <1>p, <2>3
  <2>5. x # y
    BY <2>2, <2>4
  <2>6. Total(part(s \ {y})) = f[x] + Total(part((s \ {y}) \ {x}))
    <3>1. n - 1 \notin Bad
      BY <2>3, <2>1
    <3> QED
      BY <3>1, <2>3, <2>5
  <2>7. Total(part(s \ {x})) = f[y] + Total(part((s \ {x}) \ {y}))
    <3>1. Cardinality(s \ {x}) = n - 1
      BY <2>2, <2>3, FS_RemoveElement
    <3>2. n - 1 \notin Bad
      BY <2>3, <2>1
    <3> QED
      BY <3>1, <3>2, <2>3, <2>5
  <2>8. (s \ {x}) \ {y} = (s \ {y}) \ {x}
    OBVIOUS
  <2>9. f[x] \in Int /\ f[y] \in Int /\ Total(part((s \ {y}) \ {x})) \in Int
    BY <2>3, <1>p
  <2> DEFINE c == Total(part((s \ {y}) \ {x}))
  <2>10. Total(part(s)) = f[y] + (f[x] + c) /\ f[x] + Total(part(s \ {x})) = f[x] + (f[y] + c)
    BY <2>4, <2>6, <2>7, <2>8, Zenon
  <2> HIDE DEF c, y
  <2>11. f[y] + (f[x] + c) = f[x] + (f[y] + c)
    BY <2>9 DEF c
  <2> QED
    BY <2>2, <2>10, <2>11, Zenon
<1>2. Cardinality(DOMAIN f) \in Nat
  BY FS_CardinalityType
<1>3. Total(part(DOMAIN f)) = f[e] + Total(part(DOMAIN f \ {e}))
  <2>1. Cardinality(DOMAIN f) \notin Bad
    BY <1>1
  <2> QED
    BY <1>2, <2>1
<1> DEFINE h == part(DOMAIN f)
<1>4. DOMAIN h = DOMAIN f /\ \A y \in DOMAIN f : f[y] = h[y]
  BY DEF part
<1>5. Without(f, e) = part(DOMAIN f \ {e})
  BY DEF Without, part
<1> HIDE DEF h
<1>6. Total(f) = Total(h)
  BY <1>4, TotalSame
<1> QED
  BY <1>3, <1>5, <1>6 DEF h

LEMMA TotalZero ==
  ASSUME NEW f, IsFiniteSet(DOMAIN f), \A x \in DOMAIN f : f[x] = 0
  PROVE  Total(f) = 0
<1> DEFINE part(s) == [x \in s |-> f[x]]
           Bad == {n \in Nat : \E s \in SUBSET DOMAIN f : Cardinality(s) = n /\ Total(part(s)) # 0}
<1>1. ASSUME Bad # {} PROVE FALSE
  <2>1. PICK n \in Bad : \A m \in Bad : n <= m
    BY LeastExists, <1>1
  <2>2. PICK s \in SUBSET DOMAIN f : Cardinality(s) = n /\ Total(part(s)) # 0
    BY <2>1
  <2> DEFINE g == part(s)
             x == Pick(s)
  <2>3. DOMAIN g = s /\ \A y \in s : g[y] = f[y]
    OBVIOUS
  <2>4. Without(g, x) = part(s \ {x})
    BY <2>3, Zenon DEF Without
  <2>5. s # {}
    <3>1. Total(g) # 0
      BY <2>2
    <3> HIDE DEF g
    <3> QED
      BY <2>3, <3>1, TotalEmpty
  <2>6. x \in s /\ s \ {x} \in SUBSET DOMAIN f /\ Cardinality(s \ {x}) = n - 1 /\ n - 1 \in Nat /\ IsFiniteSet(s)
    <3>1. n \in Nat
      BY <2>1
    <3>2. Cardinality(s) = n
      BY <2>2
    <3>3. x \in s /\ s \ {x} \in SUBSET DOMAIN f /\ Cardinality(s \ {x}) = Cardinality(s) - 1
      BY <2>5, SubsetSize
    <3>4. Cardinality(s) > 0 /\ IsFiniteSet(s)
      BY <2>5, SubsetSize
    <3> HIDE DEF Bad, part, g, x
    <3> QED
      BY <3>1, <3>2, <3>3, <3>4
  <2>7. Total(part(s \ {x})) = 0
    <3>1. n - 1 \notin Bad
      BY <2>6, <2>1
    <3> HIDE DEF part, x
    <3> QED
      BY <2>6, <3>1
  <2>8. Total(g) # 0
    BY <2>2
  <2> HIDE DEF g, part
  <2>9. Total(g) = g[x] + Total(part(s \ {x}))
    BY <2>3, <2>4, <2>5, <2>6, TotalPick
  <2>10. g[x] = 0
    BY <2>3, <2>6
  <2> QED
    BY <2>7, <2>8, <2>9, <2>10
<1>2. Cardinality(DOMAIN f) \in Nat
  BY FS_CardinalityType
<1>3. Total(part(DOMAIN f)) = 0
  <2>1. Cardinality(DOMAIN f) \notin Bad
    BY <1>1
  <2> QED
    BY <1>2, <2>1
<1> DEFINE h == part(DOMAIN f)
<1>4. DOMAIN h = DOMAIN f /\ \A y \in DOMAIN f : f[y] = h[y]
  OBVIOUS
<1> HIDE DEF h
<1>5. Total(f) = Total(h)
  BY <1>4, TotalSame
<1> QED
  BY <1>3, <1>5 DEF h

\* Sums of columns that differ in one row differ by what that row does.
LEMMA TotalOneRow ==
  ASSUME NEW f, IsFiniteSet(DOMAIN f), \A x \in DOMAIN f : f[x] \in Int,
         NEW g, DOMAIN g = DOMAIN f, \A x \in DOMAIN g : g[x] \in Int,
         NEW e \in DOMAIN f, \A x \in DOMAIN f : x # e => g[x] = f[x]
  PROVE  Total(g) = Total(f) + (g[e] - f[e])
<1>1. Without(f, e) = Without(g, e)
  <2>1. \A y \in DOMAIN f \ {e} : g[y] = f[y]
    OBVIOUS
  <2>2. Without(f, e) = [y \in DOMAIN f \ {e} |-> f[y]] /\ Without(g, e) = [y \in DOMAIN f \ {e} |-> g[y]]
    BY DEF Without
  <2> QED
    BY <2>1, <2>2, Zenon
<1> DEFINE w == Without(f, e)
<1>2. DOMAIN w = DOMAIN f \ {e} /\ \A y \in DOMAIN w : w[y] = f[y]
  BY Zenon DEF Without
<1>3. Total(f) = f[e] + Total(w)
  BY TotalRemove
<1>4. Total(g) = g[e] + Total(w)
  BY <1>1, TotalRemove
<1> HIDE DEF w
<1>5. Total(w) \in Int
  <2>1. DOMAIN w \in SUBSET DOMAIN f
    BY <1>2
  <2>2. IsFiniteSet(DOMAIN w)
    BY <2>1, FS_Subset
  <2> QED
    BY <1>2, <2>2, TotalType
<1>6. f[e] \in Int /\ g[e] \in Int
  OBVIOUS
<1> QED
  BY <1>3, <1>4, <1>5, <1>6

\* A column with values has a least and a greatest one.
LEMMA LeastValue ==
  ASSUME NEW f, IsFiniteSet(DOMAIN f), \A x \in DOMAIN f : f[x] \in Int, DOMAIN f # {}
  PROVE  \E x \in DOMAIN f : \A y \in DOMAIN f : f[x] <= f[y]
<1> DEFINE NoLeast(s) == s # {} /\ ~\E x \in s : \A y \in s : f[x] <= f[y]
           Bad == {n \in Nat : \E s \in SUBSET DOMAIN f : Cardinality(s) = n /\ NoLeast(s)}
<1>1. ASSUME Bad # {} PROVE FALSE
  <2>1. PICK n \in Bad : \A m \in Bad : n <= m
    BY LeastExists, <1>1
  <2>2. PICK s \in SUBSET DOMAIN f : Cardinality(s) = n /\ NoLeast(s)
    BY <2>1
  <2> DEFINE x == Pick(s)
             rest == s \ {x}
  <2>3. x \in s /\ rest \in SUBSET DOMAIN f /\ Cardinality(rest) = n - 1 /\ n - 1 \in Nat
    <3>1. n \in Nat /\ Cardinality(s) = n /\ s # {}
      BY <2>1, <2>2
    <3>2. x \in s /\ rest \in SUBSET DOMAIN f /\ Cardinality(rest) = Cardinality(s) - 1 /\ Cardinality(s) > 0
      BY <3>1, SubsetSize
    <3> HIDE DEF Bad, NoLeast, x, rest
    <3> QED
      BY <3>1, <3>2
  <2> HIDE DEF x
  <2>4. CASE rest = {}
    <3>1. s = {x}
      BY <2>3, <2>4
    <3>2. f[x] <= f[x]
      BY <2>3
    <3> QED
      BY <2>2, <3>1, <3>2
  <2>5. CASE rest # {}
    <3>1. ~NoLeast(rest)
      <4>1. n - 1 \notin Bad
        BY <2>3, <2>1
      <4> HIDE DEF NoLeast, rest
      <4> QED
        BY <2>3, <4>1
    <3>2. PICK m \in rest : \A y \in rest : f[m] <= f[y]
      BY <2>5, <3>1
    <3>3. f[m] \in Int /\ f[x] \in Int /\ m \in s /\ \A y \in s : f[y] \in Int /\ (y = x \/ y \in rest)
      BY <2>2, <2>3
    <3>4. CASE f[m] <= f[x]
      BY <2>2, <3>2, <3>3, <3>4
    <3>5. CASE ~(f[m] <= f[x])
      <4>1. \A y \in s : f[x] <= f[y]
        BY <3>2, <3>3, <3>5
      <4> QED
        BY <2>2, <2>3, <4>1
    <3> QED
      BY <3>4, <3>5
  <2> QED
    BY <2>4, <2>5
<1>2. Cardinality(DOMAIN f) \in Nat
  BY FS_CardinalityType
<1>3. ~NoLeast(DOMAIN f)
  <2>1. Cardinality(DOMAIN f) \notin Bad
    BY <1>1
  <2> HIDE DEF NoLeast
  <2> QED
    BY <1>2, <2>1
<1> QED
  BY <1>3

LEMMA ExtremeValues ==
  ASSUME NEW f, IsFiniteSet(DOMAIN f), \A x \in DOMAIN f : f[x] \in Int, DOMAIN f # {}
  PROVE  Min({f[x] : x \in DOMAIN f}) \in {f[x] : x \in DOMAIN f}
         /\ Max({f[x] : x \in DOMAIN f}) \in {f[x] : x \in DOMAIN f}
<1> DEFINE V == {f[x] : x \in DOMAIN f}
<1>1. \E v \in V : \A w \in V : v <= w
  <2>1. PICK x \in DOMAIN f : \A y \in DOMAIN f : f[x] <= f[y]
    BY LeastValue
  <2> QED
    BY <2>1
<1>2. \E v \in V : \A w \in V : v >= w
  <2> DEFINE g == [x \in DOMAIN f |-> 0 - f[x]]
  <2>1. DOMAIN g = DOMAIN f /\ \A x \in DOMAIN f : g[x] = 0 - f[x] /\ g[x] \in Int
    OBVIOUS
  <2> HIDE DEF g
  <2>2. PICK x \in DOMAIN f : \A y \in DOMAIN f : g[x] <= g[y]
    BY <2>1, LeastValue
  <2>3. \A y \in DOMAIN f : f[x] >= f[y]
    BY <2>1, <2>2
  <2> QED
    BY <2>3
<1> HIDE DEF V
<1>3. Min(V) \in V
  BY <1>1, Zenon DEF Min
<1>4. Max(V) \in V
  BY <1>2, Zenon DEF Max
<1> QED
  BY <1>3, <1>4 DEF V

=============================================================================
