-------------------------------- MODULE Sums --------------------------------
(***************************************************************************)
(* Sums over finite sets, for the money of module 08, and the induction on *)
(* a finite set that they need: by a smallest counterexample (Smallest),   *)
(* which the proofs about the logs of module 07 use as well.               *)
(***************************************************************************)
EXTENDS Integers, FiniteSets, FiniteSetTheorems, TLAPS

\* The order in which the folds of the libraries take the elements.
Pick(s) == CHOOSE x \in s : TRUE

\* it is the recursive function behind the sum of h over S.
IsIter(it, h, S) ==
    it = [s \in SUBSET S |-> IF s = {} THEN 0 ELSE h[Pick(s)] + it[s \ {Pick(s)}]]

SumOver(h, S) == (CHOOSE it : IsIter(it, h, S))[S]

LEMMA Picked == \A s : s # {} => Pick(s) \in s
BY DEF Pick

\* Among subsets of a finite set there is one with none below it, ...
LEMMA Smallest ==
    ASSUME NEW S, IsFiniteSet(S), NEW T \in SUBSET SUBSET S, T # {}
    PROVE  \E m \in T : \A t \in T : t \subseteq m => t = m
<1>1. IsWellFoundedOn(StrictSubsetOrdering(S), SUBSET S)
  BY FS_StrictSubsetOrderingWellFounded, FS_FiniteSubsetsOfFinite
<1>2. PICK m \in T : \A t \in T : ~ (<<t, m>> \in StrictSubsetOrdering(S))
  BY <1>1, WFMin
<1> QED
  BY <1>2 DEF StrictSubsetOrdering

\* ... and one with none above it.
LEMMA Largest ==
    ASSUME NEW S, IsFiniteSet(S), NEW T \in SUBSET SUBSET S, T # {}
    PROVE  \E m \in T : \A t \in T : m \subseteq t => t = m
<1> DEFINE U == {S \ t : t \in T}
<1>1. U \in SUBSET SUBSET S /\ U # {}
  <2>1. PICK t \in T : TRUE
    OBVIOUS
  <2>2. S \ t \in U
    BY <2>1
  <2>3. \A u \in U : u \in SUBSET S
    OBVIOUS
  <2> QED
    BY <2>2, <2>3
<1> HIDE DEF U
<1>2. PICK u \in U : \A v \in U : v \subseteq u => v = u
  BY <1>1, Smallest
<1>3. PICK m \in T : u = S \ m
  BY DEF U
<1>4. ASSUME NEW t \in T, m \subseteq t PROVE t = m
  <2>1. S \ t \in U /\ S \ t \subseteq S \ m
    BY <1>4 DEF U
  <2>2. S \ t = S \ m
    BY <1>2, <1>3, <2>1
  <2>3. t \subseteq S /\ m \subseteq S
    OBVIOUS
  <2> QED
    BY <1>4, <2>2, <2>3
<1> QED
  BY <1>4

\* The recursive function exists: the largest family of subsets on which there
\* is one leaves no subset out.
LEMMA IterExists ==
    ASSUME NEW S, IsFiniteSet(S), NEW h \in [S -> Int]
    PROVE  \E it \in [SUBSET S -> Int] : IsIter(it, h, S)
<1> DEFINE P == SUBSET S
           Closed(F) == \A s \in F : s # {} => s \ {Pick(s)} \in F
           Step(g, s) == IF s = {} THEN 0 ELSE h[Pick(s)] + g[s \ {Pick(s)}]
           On(F, g) == \A s \in F : g[s] = Step(g, s)
           T == {F \in SUBSET P : Closed(F) /\ \E g \in [P -> Int] : On(F, g)}
<1>1. {} \in T
  <2>1. [s \in P |-> 0] \in [P -> Int]
    OBVIOUS
  <2> QED
    BY <2>1
<1>2. T \in SUBSET SUBSET P /\ IsFiniteSet(P)
  BY FS_SUBSET
<1>3. PICK F \in T : \A G \in T : F \subseteq G => G = F
  <2> HIDE DEF T
  <2> QED
    BY <1>1, <1>2, Largest
<1>4. PICK g \in [P -> Int] : On(F, g)
  OBVIOUS
<1>5. ASSUME F # P PROVE FALSE
  <2> DEFINE R == P \ F
  <2>0. R \in SUBSET SUBSET S /\ R # {}
    BY <1>5
  <2>1. PICK s \in R : \A t \in R : t \subseteq s => t = s
    <3> HIDE DEF R
    <3> QED
      BY <2>0, Smallest
  <2> DEFINE G == F \cup {s}
             f == [g EXCEPT ![s] = Step(g, s)]
  <2>2. s # {} => Pick(s) \in s /\ Pick(s) \in S
    BY Picked
  <2>3. s # {} => s \ {Pick(s)} \in F
    BY <2>1, <2>2
  <2>4. Step(g, s) \in Int
    BY <2>2
  <2>5. f \in [P -> Int] /\ f[s] = Step(g, s) /\ \A t \in P : t # s => f[t] = g[t]
    BY <2>4
  <2>6. Closed(G)
    BY <2>3
  <2>7. On(G, f)
    <3>1. ASSUME NEW t \in F PROVE f[t] = Step(f, t)
      <4>1. t # s /\ f[t] = g[t] /\ g[t] = Step(g, t)
        BY <1>4, <2>1, <2>5, <3>1
      <4>2. t # {} => t \ {Pick(t)} \in F /\ t \ {Pick(t)} # s
        BY <2>1, <3>1
      <4>3. t # {} => f[t \ {Pick(t)}] = g[t \ {Pick(t)}]
        BY <2>5, <4>2
      <4> QED
        BY <4>1, <4>3
    <3>2. f[s] = Step(f, s)
      <4>1. s # {} => s \ {Pick(s)} # s /\ s \ {Pick(s)} \in P
        BY <2>2
      <4>2. s # {} => f[s \ {Pick(s)}] = g[s \ {Pick(s)}]
        BY <2>5, <4>1
      <4> QED
        BY <2>5, <4>2
    <3> QED
      BY <3>1, <3>2
  <2>8. G \in T
    BY <2>5, <2>6, <2>7
  <2>9. s \in G /\ s \notin F /\ F \subseteq G
    BY <2>1
  <2> HIDE DEF T, G
  <2> QED
    BY <1>3, <2>8, <2>9
<1>6. g = [s \in P |-> Step(g, s)]
  BY <1>4, <1>5
<1> QED
  BY <1>6 DEF IsIter

\* What it is at a subset, from what it is at the subset with one element less.
LEMMA IterStep ==
    ASSUME NEW S, NEW h, NEW it, IsIter(it, h, S)
    PROVE  /\ it[{}] = 0
           /\ \A s \in SUBSET S : s # {} =>
                 /\ Pick(s) \in s /\ s \ {Pick(s)} \in SUBSET S
                 /\ it[s] = h[Pick(s)] + it[s \ {Pick(s)}]
BY Picked DEF IsIter

\* Induction on a finite set: what holds of the empty set and is kept by one
\* more element holds of the whole set.
LEMMA Induct ==
    ASSUME NEW S, IsFiniteSet(S), NEW Good \in SUBSET SUBSET S, {} \in Good,
           \A s \in SUBSET S : s # {} /\ s \ {Pick(s)} \in Good => s \in Good
    PROVE  S \in Good
<1> DEFINE Bad == (SUBSET S) \ Good
<1>1. ASSUME Bad # {} PROVE FALSE
  <2>1. PICK s \in Bad : \A t \in Bad : t \subseteq s => t = s
    <3>1. Bad \in SUBSET SUBSET S
      OBVIOUS
    <3> HIDE DEF Bad
    <3> QED
      BY <1>1, <3>1, Smallest
  <2>2. s # {} /\ Pick(s) \in s
    BY Picked
  <2>3. s \ {Pick(s)} \in SUBSET S /\ s \ {Pick(s)} # s
    BY <2>2
  <2>4. s \ {Pick(s)} \in Good
    BY <2>1, <2>3
  <2> QED
    BY <2>2, <2>4
<1> QED
  BY <1>1

\* There is one only.
LEMMA IterUnique ==
    ASSUME NEW S, IsFiniteSet(S), NEW g, NEW h, NEW i, NEW j, IsIter(i, g, S), IsIter(j, h, S),
           \A x \in S : g[x] = h[x]
    PROVE  i[S] = j[S]
<1> DEFINE Good == {s \in SUBSET S : i[s] = j[s]}
<1>1. {} \in Good
  BY IterStep
<1>2. ASSUME NEW s \in SUBSET S, s # {}, s \ {Pick(s)} \in Good PROVE s \in Good
  <2>0. Pick(s) \in S
    BY <1>2, Picked
  <2>1. i[s] = g[Pick(s)] + i[s \ {Pick(s)}]
    BY <1>2, IterStep
  <2>2. j[s] = h[Pick(s)] + j[s \ {Pick(s)}]
    BY <1>2, IterStep
  <2>3. g[Pick(s)] = h[Pick(s)] /\ i[s \ {Pick(s)}] = j[s \ {Pick(s)}]
    BY <1>2, <2>0
  <2>4. i[s] = j[s]
    BY <2>1, <2>2, <2>3, Zenon
  <2> QED
    BY <2>4
<1>3. Good \in SUBSET SUBSET S
  OBVIOUS
<1> HIDE DEF Good
<1>4. S \in Good
  BY <1>1, <1>2, <1>3, Induct
<1> QED
  BY <1>4 DEF Good

\* The sum is the value at S of any such function.
LEMMA SumIs ==
    ASSUME NEW S, IsFiniteSet(S), NEW h \in [S -> Int], NEW it, IsIter(it, h, S)
    PROVE  SumOver(h, S) = it[S]
<1>1. IsIter(CHOOSE i : IsIter(i, h, S), h, S)
  OBVIOUS
<1> QED
  BY <1>1, IterUnique DEF SumOver

LEMMA SumType ==
    ASSUME NEW S, IsFiniteSet(S), NEW h \in [S -> Int]
    PROVE  SumOver(h, S) \in Int
<1>1. PICK i \in [SUBSET S -> Int] : IsIter(i, h, S)
  BY IterExists
<1> QED
  BY <1>1, SumIs

\* The sum of a sum.
LEMMA SumAdd ==
    ASSUME NEW S, IsFiniteSet(S), NEW f \in [S -> Int], NEW g \in [S -> Int],
           NEW h \in [S -> Int], \A x \in S : h[x] = f[x] + g[x]
    PROVE  SumOver(h, S) = SumOver(f, S) + SumOver(g, S)
<1>1. PICK i \in [SUBSET S -> Int] : IsIter(i, f, S)
  BY IterExists
<1>2. PICK j \in [SUBSET S -> Int] : IsIter(j, g, S)
  BY IterExists
<1>3. PICK k \in [SUBSET S -> Int] : IsIter(k, h, S)
  BY IterExists
<1> DEFINE Good == {s \in SUBSET S : k[s] = i[s] + j[s]}
<1>4. {} \in Good
  BY <1>1, <1>2, <1>3, IterStep
<1>5. ASSUME NEW s \in SUBSET S, s # {}, s \ {Pick(s)} \in Good PROVE s \in Good
  <2> DEFINE t == s \ {Pick(s)}
  <2>1. Pick(s) \in S /\ t \in SUBSET S
    BY <1>5, Picked
  <2>2. i[s] = f[Pick(s)] + i[t]
    BY <1>1, <1>5, IterStep
  <2>3. j[s] = g[Pick(s)] + j[t]
    BY <1>2, <1>5, IterStep
  <2>4. k[s] = h[Pick(s)] + k[t]
    BY <1>3, <1>5, IterStep
  <2>5. k[t] = i[t] + j[t]
    BY <1>5
  <2> HIDE DEF t
  <2>6. /\ i[t] \in Int /\ j[t] \in Int
        /\ f[Pick(s)] \in Int /\ g[Pick(s)] \in Int /\ h[Pick(s)] = f[Pick(s)] + g[Pick(s)]
    BY <2>1
  <2> QED
    BY <2>2, <2>3, <2>4, <2>5, <2>6
<1>6. Good \in SUBSET SUBSET S
  OBVIOUS
<1> HIDE DEF Good
<1>7. S \in Good
  BY <1>4, <1>5, <1>6, Induct
<1>8. k[S] = i[S] + j[S]
  BY <1>7 DEF Good
<1> QED
  BY <1>1, <1>2, <1>3, <1>8, SumIs

\* The sum of the same number everywhere.
LEMMA SumOfSame ==
    ASSUME NEW S, IsFiniteSet(S), NEW c \in Int, NEW h \in [S -> Int], \A x \in S : h[x] = c
    PROVE  SumOver(h, S) = c * Cardinality(S)
<1>1. PICK i \in [SUBSET S -> Int] : IsIter(i, h, S)
  BY IterExists
<1> DEFINE Good == {s \in SUBSET S : i[s] = c * Cardinality(s)}
<1>2. {} \in Good
  <2>1. i[{}] = 0 /\ Cardinality({}) = 0
    BY <1>1, IterStep, FS_EmptySet
  <2> QED
    BY <2>1
<1>3. ASSUME NEW s \in SUBSET S, s # {}, s \ {Pick(s)} \in Good PROVE s \in Good
  <2>1. Pick(s) \in s /\ i[s] = h[Pick(s)] + i[s \ {Pick(s)}]
    BY <1>1, <1>3, IterStep
  <2>2. PICK n \in Nat : n = Cardinality(s) /\ IsFiniteSet(s)
    BY FS_Subset, FS_CardinalityType
  <2>3. Cardinality(s \ {Pick(s)}) = n - 1
    BY <2>1, <2>2, FS_RemoveElement
  <2>4. i[s] = c + c * (n - 1)
    <3>1. Pick(s) \in S /\ i[s \ {Pick(s)}] = c * (n - 1)
      BY <1>3, <2>1, <2>3
    <3> QED
      BY <2>1, <3>1
  <2>5. c + c * (n - 1) = c * n
    OBVIOUS
  <2> QED
    BY <2>2, <2>4, <2>5
<1>4. Good \in SUBSET SUBSET S
  OBVIOUS
<1> HIDE DEF Good
<1>5. S \in Good
  BY <1>2, <1>3, <1>4, Induct
<1> QED
  BY <1>1, <1>5, SumIs DEF Good

\* More at one place is more in sum.
LEMMA SumUpdate ==
    ASSUME NEW S, IsFiniteSet(S), NEW g \in [S -> Int], NEW h \in [S -> Int],
           NEW a \in S, \A x \in S : x # a => h[x] = g[x]
    PROVE  SumOver(h, S) = SumOver(g, S) + (h[a] - g[a])
<1>1. PICK i \in [SUBSET S -> Int] : IsIter(i, g, S)
  BY IterExists
<1>2. PICK j \in [SUBSET S -> Int] : IsIter(j, h, S)
  BY IterExists
<1> DEFINE d == h[a] - g[a]
           Good == {s \in SUBSET S : j[s] = i[s] + (IF a \in s THEN d ELSE 0)}
<1>3. {} \in Good
  BY <1>1, <1>2, IterStep
<1>4. ASSUME NEW s \in SUBSET S, s # {}, s \ {Pick(s)} \in Good PROVE s \in Good
  <2> DEFINE t == s \ {Pick(s)}
  <2>1. Pick(s) \in S /\ Pick(s) \in s /\ t \in SUBSET S
    BY <1>4, Picked
  <2>2. i[s] = g[Pick(s)] + i[t]
    BY <1>1, <1>4, IterStep
  <2>3. j[s] = h[Pick(s)] + j[t]
    BY <1>2, <1>4, IterStep
  <2>4. j[t] = i[t] + (IF a \in t THEN d ELSE 0)
    BY <1>4
  <2>5. i[t] \in Int /\ j[t] \in Int /\ g[Pick(s)] \in Int /\ h[Pick(s)] \in Int /\ d \in Int
    BY <2>1
  <2>6. CASE Pick(s) = a
    <3>1. a \in s /\ a \notin t
      BY <2>1, <2>6
    <3>2. j[s] = i[s] + d
      BY <2>2, <2>3, <2>4, <2>5, <2>6, <3>1
    <3> QED
      BY <3>1, <3>2
  <2>7. CASE Pick(s) # a
    <3>1. (a \in s <=> a \in t) /\ h[Pick(s)] = g[Pick(s)]
      BY <2>1, <2>7
    <3> HIDE DEF t, d
    <3>2. CASE a \in t
      BY <2>2, <2>3, <2>4, <2>5, <3>1, <3>2
    <3>3. CASE a \notin t
      BY <2>2, <2>3, <2>4, <2>5, <3>1, <3>3
    <3> QED
      BY <3>2, <3>3
  <2> QED
    BY <2>6, <2>7
<1>5. Good \in SUBSET SUBSET S
  OBVIOUS
<1> HIDE DEF Good
<1>6. S \in Good
  BY <1>3, <1>4, <1>5, Induct
<1>7. j[S] = i[S] + d
  BY <1>6 DEF Good
<1>8. SumOver(g, S) = i[S] /\ SumOver(h, S) = j[S]
  BY <1>1, <1>2, SumIs
<1> QED
  BY <1>7, <1>8


\* Induction up to a number.
LEMMA UpTo ==
    ASSUME NEW n \in Nat, NEW G, 0 \in G, \A i \in 0 .. n : i < n /\ i \in G => i + 1 \in G
    PROVE  \A i \in 0 .. n : i \in G
<1> DEFINE T == {0 .. i : i \in (0 .. n) \ G}
<1> SUFFICES ASSUME NEW b \in 0 .. n, b \notin G PROVE FALSE
  OBVIOUS
<1>1. T \in SUBSET SUBSET (0 .. n) /\ 0 .. b \in T
  OBVIOUS
<1>2. PICK m \in T : \A t \in T : t \subseteq m => t = m
  <2> DEFINE I == 0 .. n
  <2>1. IsFiniteSet(I)
    BY FS_Interval
  <2>2. T \in SUBSET SUBSET I
    BY <1>1
  <2>3. T # {}
    BY <1>1
  <2> HIDE DEF T, I
  <2> QED
    BY <2>1, <2>2, <2>3, Smallest
<1>3. PICK k \in 0 .. n : k \notin G /\ m = 0 .. k
  OBVIOUS
<1>4. k # 0 /\ k - 1 \in 0 .. n /\ k - 1 < n /\ (k - 1) + 1 = k
  BY <1>3
<1>5. CASE k - 1 \in G
  BY <1>3, <1>4, <1>5
<1>6. CASE k - 1 \notin G
  <2>1. 0 .. (k - 1) \in T
    BY <1>4, <1>6
  <2>2. 0 .. (k - 1) \subseteq 0 .. k /\ k \in 0 .. k /\ k \notin 0 .. (k - 1)
    BY <1>4
  <2> HIDE DEF T
  <2> QED
    BY <1>2, <1>3, <2>1, <2>2
<1> QED
  BY <1>5, <1>6


\* The sum can be taken in any order.
LEMMA IterRemove ==
    ASSUME NEW S, IsFiniteSet(S), NEW h \in [S -> Int], NEW it, IsIter(it, h, S), NEW x \in S
    PROVE  it[S] = h[x] + it[S \ {x}]
<1>0. \A t \in SUBSET S : t # {} =>
         Pick(t) \in t /\ t \ {Pick(t)} \in SUBSET S /\ it[t] = h[Pick(t)] + it[t \ {Pick(t)}]
  BY Picked DEF IsIter
<1>00. \A t \in SUBSET S : it[t] \in Int
  <2> DEFINE Bad == {t \in SUBSET S : it[t] \notin Int}
  <2>1. SUFFICES ASSUME Bad # {} PROVE FALSE
    OBVIOUS
  <2>2. Bad \in SUBSET SUBSET S
    OBVIOUS
  <2>3. PICK m \in Bad : \A t \in Bad : t \subseteq m => t = m
    <3> HIDE DEF Bad
    <3> QED
      BY <2>1, <2>2, Smallest
  <2>4. m # {} /\ m \in SUBSET S
    <3>1. it[{}] = 0
      BY DEF IsIter
    <3> QED
      BY <3>1
  <2>5. Pick(m) \in m /\ it[m] = h[Pick(m)] + it[m \ {Pick(m)}]
    BY <1>0, <2>4
  <2>6. m \ {Pick(m)} \in SUBSET S /\ m \ {Pick(m)} # m
    BY <2>4, <2>5
  <2>7. it[m \ {Pick(m)}] \in Int
    BY <2>3, <2>6
  <2> QED
    BY <2>4, <2>5, <2>7
<1> DEFINE T == {t \in SUBSET S : ~ \A y \in t : it[t] = h[y] + it[t \ {y}]}
<1>1. SUFFICES ASSUME T # {} PROVE FALSE
  <2> SUFFICES S \notin T
    OBVIOUS
  <2> QED
    BY <1>1
<1>2. T \in SUBSET SUBSET S
  OBVIOUS
<1>3. PICK m \in T : \A t \in T : t \subseteq m => t = m
  <2> HIDE DEF T
  <2> QED
    BY <1>1, <1>2, Smallest
<1>4. PICK y \in m : ~ (it[m] = h[y] + it[m \ {y}])
  OBVIOUS
<1> DEFINE p == Pick(m)
<1>5. m \in SUBSET S /\ m # {} /\ y \in S
  BY <1>4
<1>6. p \in m /\ p \in S /\ m \ {p} \in SUBSET S /\ it[m] = h[p] + it[m \ {p}]
  BY <1>0, <1>5
<1> HIDE DEF p
<1>7. y # p
  BY <1>4, <1>6
<1>8. \A v \in m : \A z \in m \ {v} : it[m \ {v}] = h[z] + it[(m \ {v}) \ {z}]
  <2> SUFFICES ASSUME NEW v \in m PROVE m \ {v} \notin T
    BY <1>5
  <2> HIDE DEF T
  <2> QED
    BY <1>3
<1>9. it[m \ {p}] = h[y] + it[(m \ {p}) \ {y}] /\ it[m \ {y}] = h[p] + it[(m \ {y}) \ {p}]
  BY <1>4, <1>6, <1>7, <1>8
<1> DEFINE r == (m \ {p}) \ {y}
<1>10. (m \ {y}) \ {p} = r
  OBVIOUS
<1>11. r \in SUBSET S
  BY <1>5
<1>12. h[y] \in Int /\ h[p] \in Int /\ it[r] \in Int
  BY <1>00, <1>5, <1>6, <1>11
<1>13. it[m \ {p}] = h[y] + it[r] /\ it[m \ {y}] = h[p] + it[r]
  BY <1>9, <1>10
<1> HIDE DEF r
<1> QED
  BY <1>4, <1>6, <1>12, <1>13

LEMMA SumOfNone == \A h : SumOver(h, {}) = 0
<1> SUFFICES ASSUME NEW h PROVE SumOver(h, {}) = 0
  OBVIOUS
<1> DEFINE z == [s \in SUBSET {} |-> 0]
<1>1. \A it : IsIter(it, h, {}) <=> it = z
  <2> SUFFICES ASSUME NEW it PROVE IsIter(it, h, {}) <=> it = z
    OBVIOUS
  <2>1. [s \in SUBSET {} |-> IF s = {} THEN 0 ELSE h[Pick(s)] + it[s \ {Pick(s)}]] = z
    OBVIOUS
  <2> QED
    BY <2>1 DEF IsIter
<1>2. (CHOOSE it : IsIter(it, h, {})) = z
  BY <1>1
<1> QED
  BY <1>2 DEF SumOver

LEMMA SumOfOneMore ==
    ASSUME NEW S, IsFiniteSet(S), NEW x, x \notin S, NEW g \in [S -> Int],
           NEW h \in [S \union {x} -> Int], \A y \in S : h[y] = g[y]
    PROVE  SumOver(h, S \union {x}) = SumOver(g, S) + h[x]
<1> DEFINE T == S \union {x}
<1>0. IsFiniteSet(T)
  BY FS_AddElement
<1>00. S \subseteq T /\ x \in T /\ T \ {x} = S /\ h \in [T -> Int]
  OBVIOUS
<1>000. SUFFICES SumOver(h, T) = SumOver(g, S) + h[x]
  OBVIOUS
<1> HIDE DEF T
<1>1. PICK i \in [SUBSET T -> Int] : IsIter(i, h, T)
  BY <1>0, <1>00, IterExists
<1> DEFINE j == [s \in SUBSET S |-> i[s]]
<1>2. IsIter(j, g, S)
  <2>1. \A s \in SUBSET S : j[s] = IF s = {} THEN 0 ELSE g[Pick(s)] + j[s \ {Pick(s)}]
    <3> SUFFICES ASSUME NEW s \in SUBSET S
                 PROVE  j[s] = IF s = {} THEN 0 ELSE g[Pick(s)] + j[s \ {Pick(s)}]
      OBVIOUS
    <3>1. s \in SUBSET T
      BY <1>00
    <3>2. CASE s = {}
      BY <1>1, <3>2, IterStep
    <3>3. CASE s # {}
      <4>1. Pick(s) \in s /\ i[s] = h[Pick(s)] + i[s \ {Pick(s)}]
        BY <1>00, <1>1, <3>1, <3>3, IterStep
      <4>2. s \ {Pick(s)} \in SUBSET S
        OBVIOUS
      <4> QED
        BY <3>3, <4>1, <4>2
    <3> QED
      BY <3>2, <3>3
  <2> QED
    BY <2>1 DEF IsIter
<1>3. SumOver(g, S) = j[S]
  <2> HIDE DEF j
  <2> QED
    BY <1>2, SumIs
<1>4. SumOver(h, T) = i[T]
  BY <1>0, <1>00, <1>1, SumIs
<1>5. i[T] = h[x] + i[T \ {x}]
  BY <1>0, <1>00, <1>1, IterRemove
<1>6. i[T] = h[x] + i[S]
  BY <1>00, <1>5
<1>7. j[S] = i[S] /\ i[S] \in Int /\ h[x] \in Int
  BY <1>00
<1>8. SumOver(g, S) = i[S]
  BY <1>3, <1>7
<1> QED
  BY <1>4, <1>6, <1>7, <1>8
=============================================================================
