-------------------------- MODULE TransactionProofs --------------------------
(***************************************************************************)
(* Proofs about the three engines of 09, for any accounts, jobs and number *)
(* of threads.                                                             *)
(*                                                                         *)
(* Each engine keeps an order of the finished jobs that explains what they *)
(* saw (Explains).  A job that finishes is put at the end of it, by the    *)
(* optimistic engine and by the locks; the snapshots put a job that writes *)
(* at the end and one that does not at the moment of its snapshot.         *)
(***************************************************************************)
EXTENDS Transactions, Sums, SequenceTheorems

VARIABLES store, drafts,
          clock, data, tx,
          balance, readers, writers, held, seen, wrote

Optimistic == INSTANCE OptimisticStore WITH tx <- drafts
Snapshot   == INSTANCE SnapshotStore
Locking    == INSTANCE LockingStore

-----------------------------------------------------------------------------
(* Orders of jobs. *)

Balances == [Key -> Int]

\* order, with the balances before and after each of its jobs, explains what
\* the finished jobs saw and that the balances are final.
Explains(order, after, finished, saw, final) ==
    /\ order \in Seq(finished)
    /\ \A j \in finished : \E i \in 1 .. Len(order) : order[i] = j
    /\ \A i, k \in 1 .. Len(order) : order[i] = order[k] => i = k
    /\ after \in [0 .. Len(order) -> Balances]
    /\ after[0] = Opening /\ after[Len(order)] = final
    /\ \A i \in 1 .. Len(order) :
         /\ saw[order[i]] = SeenAlone(Jobs[order[i]], after[i - 1])
         /\ after[i] = LeftAlone(Jobs[order[i]], after[i - 1])

Explained(finished, saw, final) == \E order, after : Explains(order, after, finished, saw, final)

LEMMA OpeningType == JobsFit => Opening \in Balances
BY DEF JobsFit, Balances, Key

LEMMA LeftType ==
    ASSUME JobsFit, NEW j \in Job, NEW b \in Balances
    PROVE  LeftAlone(Jobs[j], b) \in Balances
<1>1. Jobs[j].adds \in [DOMAIN Jobs[j].adds -> Int]
  BY DEF JobsFit, Fits
<1>2. \A k \in DOMAIN Jobs[j].adds : Jobs[j].adds[k] \in Int
  BY <1>1
<1>3. \A k \in Key : b[k] \in Int
  BY DEF Balances
<1>4. [k \in Key |-> IF k \in DOMAIN Jobs[j].adds THEN b[k] + Jobs[j].adds[k] ELSE b[k]] \in Balances
  BY <1>2, <1>3 DEF Balances
<1> QED
  BY <1>4 DEF LeftAlone

\* The balances of Explains are those the reference computes.
LEMMA AfterIsOneByOne ==
    ASSUME NEW order, NEW after, Len(order) \in Nat,
           after = [i \in 0 .. Len(order) |-> after[i]], after[0] = Opening,
           \A i \in 1 .. Len(order) : after[i] = LeftAlone(Jobs[order[i]], after[i - 1])
    PROVE  OneByOne(order) = after
<1> DEFINE n == Len(order)
           B(f, i) == IF i = 0 THEN Opening ELSE LeftAlone(Jobs[order[i]], f[i - 1])
           Is(f) == f = [i \in 0 .. n |-> B(f, i)]
<1>1. OneByOne(order) = CHOOSE f : Is(f)
  BY DEF OneByOne
<1>2. Is(after)
  <2>1. ASSUME NEW i \in 0 .. n PROVE after[i] = B(after, i)
    <3>1. CASE i = 0
      BY <3>1
    <3>2. CASE i # 0
      <4>1. i \in 1 .. n
        BY <3>2
      <4> QED
        BY <3>2, <4>1
    <3> QED
      BY <3>1, <3>2
  <2> HIDE DEF B
  <2> QED
    BY <2>1
<1>3. ASSUME NEW f, Is(f) PROVE f = after
  <2>1. \A i \in 0 .. n : f[i] = B(f, i) /\ after[i] = B(after, i)
    BY <1>2, <1>3
  <2> DEFINE G == {i \in 0 .. n : f[i] = after[i]}
  <2>2. 0 \in G
    BY <2>1
  <2>3. ASSUME NEW i \in 0 .. n, i < n, i \in G PROVE i + 1 \in G
    <3>1. i + 1 \in 0 .. n /\ i + 1 # 0 /\ (i + 1) - 1 = i
      BY <2>3
    <3>2. f[i + 1] = LeftAlone(Jobs[order[i + 1]], f[i])
      BY <2>1, <3>1
    <3>3. after[i + 1] = LeftAlone(Jobs[order[i + 1]], after[i])
      BY <2>1, <3>1
    <3> QED
      BY <2>3, <3>1, <3>2, <3>3
  <2>4. \A i \in 0 .. n : i \in G
    <3> HIDE DEF G
    <3> QED
      BY <2>2, <2>3, UpTo
  <2>5. f = [i \in 0 .. n |-> f[i]] /\ after = [i \in 0 .. n |-> after[i]]
    BY <1>3
  <2> HIDE DEF Is, B
  <2> QED
    BY <2>4, <2>5
<1> HIDE DEF Is
<1> QED
  BY <1>1, <1>2, <1>3

LEMMA OrderOfSet ==
    ASSUME NEW S, NEW order \in Seq(S),
           \A j \in S : \E i \in 1 .. Len(order) : order[i] = j,
           \A i, k \in 1 .. Len(order) : order[i] = order[k] => i = k
    PROVE  order \in SetToSeqs(S)
<1> DEFINE n == Len(order)
<1>1. n \in Nat /\ order \in [1 .. n -> S]
  OBVIOUS
<1>2. order \in Bijection(1 .. n, S)
  BY <1>1 DEF Bijection, Injection, Surjection, IsInjective
<1>3. Cardinality(S) = n
  BY <1>1, <1>2, FS_CountingElements DEF ExistsBijection
<1> QED
  BY <1>1, <1>3 DEF SetToSeqs

LEMMA ExplainedSerial ==
    ASSUME NEW finished, NEW saw, NEW final, NEW whole, NEW bal,
           Explained(finished, saw, final), whole => final = bal
    PROVE  Serial(finished, saw, whole, bal)
<1>1. PICK order, after : Explains(order, after, finished, saw, final)
  BY DEF Explained
<1>2. order \in SetToSeqs(finished)
  BY <1>1, OrderOfSet DEF Explains
<1>3. order \in Seq(finished) /\ Len(order) \in Nat /\ DOMAIN order = 1 .. Len(order)
  BY <1>1 DEF Explains
<1>4. OneByOne(order) = after
  <2>1. after = [i \in 0 .. Len(order) |-> after[i]]
    BY <1>1 DEF Explains
  <2> QED
    BY <1>1, <1>3, <2>1, AfterIsOneByOne DEF Explains
<1>5. \A i \in DOMAIN order : saw[order[i]] = SeenAlone(Jobs[order[i]], OneByOne(order)[i - 1])
  BY <1>1, <1>3, <1>4 DEF Explains
<1>6. whole => OneByOne(order)[Len(order)] = bal
  BY <1>1, <1>4 DEF Explains
<1> QED
  BY <1>2, <1>5, <1>6 DEF Serial

-----------------------------------------------------------------------------
(* Smallest and largest numbers. *)

LEMMA MinIs ==
    ASSUME NEW n \in Nat, NEW S \in SUBSET (1 .. n), S # {}
    PROVE  Min(S) \in S /\ \A i \in S : Min(S) <= i
<1>1. ASSUME \A m \in S : \E i \in S : ~ (m <= i) PROVE FALSE
  <2> DEFINE G == {i \in 0 .. n : \A k \in 1 .. i : k \notin S}
  <2>1. 0 \in G
    OBVIOUS
  <2>2. ASSUME NEW i \in 0 .. n, i < n, i \in G PROVE i + 1 \in G
    <3>1. \A k \in 1 .. i + 1 : k \in 1 .. i \/ k = i + 1
      OBVIOUS
    <3>2. i + 1 \notin S
      <4> SUFFICES ASSUME i + 1 \in S PROVE FALSE
        OBVIOUS
      <4>1. PICK k \in S : ~ (i + 1 <= k)
        BY <1>1
      <4>2. k \in 1 .. i
        BY <4>1
      <4> QED
        BY <2>2, <4>2
    <3> QED
      BY <2>2, <3>1, <3>2
  <2>3. n \in G
    <3> HIDE DEF G
    <3>1. n \in 0 .. n
      OBVIOUS
    <3> QED
      BY <2>1, <2>2, <3>1, UpTo
  <2> QED
    BY <2>3
<1> QED
  BY <1>1 DEF Min

LEMMA MaxIs ==
    ASSUME NEW n \in Nat, NEW S \in SUBSET (1 .. n), S # {}
    PROVE  Max(S) \in S /\ \A i \in S : i <= Max(S)
<1> DEFINE T == {i \in 1 .. n : (n + 1) - i \in S}
<1>1. PICK i \in S : TRUE
  OBVIOUS
<1>2. (n + 1) - i \in T
  OBVIOUS
<1>3. T \in SUBSET (1 .. n) /\ T # {}
  BY <1>2
<1>4. Min(T) \in T /\ \A k \in T : Min(T) <= k
  <2> HIDE DEF T
  <2> QED
    BY <1>3, MinIs
<1> DEFINE m == Min(T)
<1>5. m \in 1 .. n /\ (n + 1) - m \in S
  BY <1>4
<1>6. ASSUME NEW k \in S PROVE (n + 1) - m >= k
  <2>1. (n + 1) - k \in T
    OBVIOUS
  <2>2. m <= (n + 1) - k
    BY <1>4, <2>1
  <2> HIDE DEF m, T
  <2> QED
    BY <1>5, <2>2
<1> HIDE DEF m, T
<1>7. \E x \in S : \A y \in S : x >= y
  BY <1>5, <1>6
<1>8. Max(S) \in S /\ \A y \in S : Max(S) >= y
  BY <1>7 DEF Max
<1> QED
  BY <1>8

-----------------------------------------------------------------------------
(* What a job reads, and when it gives up. *)

LEMMA FundsAreSum ==
    ASSUME NEW job, NEW h
    PROVE  Refused(job, h) <=>
             /\ job.covers \subseteq DOMAIN h
             /\ SumOver([k \in job.covers |-> h[k]], job.covers) < job.need
<1> DEFINE S == job.covers
           f == [k \in S |-> h[k]]
           P(i) == i = [s \in SUBSET S |-> IF s = {} THEN 0 ELSE h[Pick(s)] + i[s \ {Pick(s)}]]
<1>1. MapThenSumSet(LAMBDA k : h[k], S) = (CHOOSE i : P(i))[S]
  BY DEF MapThenSumSet, MapThenFoldSet, Pick
<1>2. \A i : P(i) <=> IsIter(i, f, S)
  <2>1. \A s \in SUBSET S : s # {} => f[Pick(s)] = h[Pick(s)]
    BY Picked
  <2>2. ASSUME NEW i
        PROVE  [s \in SUBSET S |-> IF s = {} THEN 0 ELSE h[Pick(s)] + i[s \ {Pick(s)}]]
                 = [s \in SUBSET S |-> IF s = {} THEN 0 ELSE f[Pick(s)] + i[s \ {Pick(s)}]]
    <3> HIDE DEF f
    <3> QED
      BY <2>1
  <2> HIDE DEF f
  <2> QED
    BY <2>2 DEF IsIter
<1>3. (CHOOSE i : P(i)) = CHOOSE i : IsIter(i, f, S)
  <2> HIDE DEF P, f
  <2> QED
    BY <1>2
<1>4. MapThenSumSet(LAMBDA k : h[k], S) = SumOver(f, S)
  <2> HIDE DEF P
  <2> QED
    BY <1>1, <1>3 DEF SumOver
<1> QED
  BY <1>4 DEF Refused

\* Whether a job gives up depends on the accounts of covers alone.
LEMMA RefusedSame ==
    ASSUME NEW job, NEW a, NEW b, job.covers \subseteq DOMAIN a, job.covers \subseteq DOMAIN b,
           \A k \in job.covers : a[k] = b[k]
    PROVE  Refused(job, a) <=> Refused(job, b)
<1>1. [k \in job.covers |-> a[k]] = [k \in job.covers |-> b[k]]
  OBVIOUS
<1> QED
  BY <1>1, FundsAreSum

LEMMA WithoutCovers ==
    ASSUME NEW job, Fits(job), job.covers = {}, NEW a
    PROVE  ~ Refused(job, a)
<1>1. SumOver([k \in job.covers |-> a[k]], job.covers) = 0
  BY SumOfNone
<1>2. job.need \in Int /\ job.need <= 0
  BY DEF Fits
<1>3. Refused(job, a) => SumOver([k \in job.covers |-> a[k]], job.covers) < job.need
  BY FundsAreSum
<1> HIDE DEF Fits
<1> QED
  BY <1>1, <1>2, <1>3

\* seen maps some accounts to numbers: the first of those job reads.
Reading(job, saw) ==
    /\ saw = [k \in DOMAIN saw |-> saw[k]]
    /\ \A k \in DOMAIN saw :
         /\ saw[k] \in Int
         /\ \E i \in DOMAIN job.reads :
              job.reads[i] = k /\ \A l \in 1 .. i : job.reads[l] \in DOMAIN saw

LEMMA NothingIsReading == \A job : Reading(job, Nothing) /\ DOMAIN Nothing = {}
BY DEF Reading, Nothing

LEMMA NextReadIs ==
    ASSUME NEW job, Fits(job), NEW saw, Reading(job, saw), StillToRead(job, saw) # {}
    PROVE  /\ NextRead(job, saw) \in Key
           /\ NextRead(job, saw) \in Range(job.reads) \ DOMAIN saw
           /\ NextRead(job, saw) \in job.covers => DOMAIN saw \subseteq job.covers
           /\ \A value \in Int : Reading(job, With(saw, NextRead(job, saw), value))
<1> DEFINE n == Len(job.reads)
           S == StillToRead(job, saw)
           m == Min(S)
<1>1. n \in Nat /\ DOMAIN job.reads = 1 .. n /\ \A i \in 1 .. n : job.reads[i] \in Key
  BY DEF Fits
<1>2. S \in SUBSET (1 .. n)
  BY <1>1 DEF StillToRead
<1>3. m \in S /\ \A i \in S : m <= i
  <2>1. S # {}
    OBVIOUS
  <2> HIDE DEF S, n
  <2> QED
    BY <1>1, <1>2, <2>1, MinIs
<1>4. NextRead(job, saw) = job.reads[m]
  BY DEF NextRead
<1> HIDE DEF m
<1>5. m \in 1 .. n /\ job.reads[m] \notin DOMAIN saw
  BY <1>1, <1>3 DEF StillToRead
<1>6. \A i \in 1 .. n : i < m => job.reads[i] \in DOMAIN saw
  BY <1>1, <1>3, <1>5 DEF StillToRead
<1>7. \A k \in DOMAIN saw : \E i \in 1 .. n : i < m /\ job.reads[i] = k
  <2> SUFFICES ASSUME NEW k \in DOMAIN saw PROVE \E i \in 1 .. n : i < m /\ job.reads[i] = k
    OBVIOUS
  <2>1. PICK i \in 1 .. n : job.reads[i] = k /\ \A l \in 1 .. i : job.reads[l] \in DOMAIN saw
    BY <1>1 DEF Reading
  <2>2. i < m
    BY <1>5, <2>1
  <2> QED
    BY <2>1, <2>2
<1>8. job.reads[m] \in Range(job.reads)
  BY <1>1, <1>5 DEF Range
<1>9. ASSUME job.reads[m] \in job.covers PROVE DOMAIN saw \subseteq job.covers
  BY <1>1, <1>5, <1>7, <1>9 DEF Fits
<1>10. ASSUME NEW value \in Int PROVE Reading(job, With(saw, job.reads[m], value))
  <2> DEFINE w == With(saw, job.reads[m], value)
  <2>1. w = [k \in DOMAIN w |-> w[k]] /\ DOMAIN w = DOMAIN saw \union {job.reads[m]}
    BY DEF With
  <2>2. \A k \in DOMAIN w : w[k] \in Int
    BY <2>1 DEF With, Reading
  <2>3. ASSUME NEW k \in DOMAIN w
        PROVE  \E i \in DOMAIN job.reads :
                 job.reads[i] = k /\ \A l \in 1 .. i : job.reads[l] \in DOMAIN w
    <3>1. CASE k = job.reads[m]
      <4>1. \A l \in 1 .. m : l \in 1 .. n /\ (l < m \/ l = m)
        BY <1>1, <1>5
      <4> QED
        BY <1>1, <1>5, <1>6, <2>1, <3>1, <4>1
    <3>2. CASE k \in DOMAIN saw
      <4>1. PICK i \in 1 .. n : job.reads[i] = k /\ \A l \in 1 .. i : job.reads[l] \in DOMAIN saw
        BY <1>1, <3>2 DEF Reading
      <4> QED
        BY <1>1, <2>1, <4>1
    <3> QED
      BY <2>1, <3>1, <3>2
  <2> HIDE DEF w
  <2>4. Reading(job, w)
    BY <2>1, <2>2, <2>3 DEF Reading
  <2> QED
    BY <2>4 DEF w
<1> QED
  BY <1>1, <1>4, <1>5, <1>8, <1>9, <1>10

-----------------------------------------------------------------------------
(* One more job in the order. *)

\* the balances that were there between two jobs of order.
Reached(order, after) == {after[i] : i \in 0 .. Len(order)}

\* A job that has run on the final balances goes to the end.
LEMMA AppendJob ==
    ASSUME JobsFit, NEW finished, NEW saw, NEW final, NEW order, NEW after,
           Explains(order, after, finished, saw, final),
           NEW j \in Job, j \notin finished,
           NEW saw2, \A i \in finished : saw2[i] = saw[i],
           saw2[j] = SeenAlone(Jobs[j], final)
    PROVE  \E o, a :
             /\ Explains(o, a, finished \union {j}, saw2, LeftAlone(Jobs[j], final))
             /\ Reached(order, after) \subseteq Reached(o, a)
             /\ LeftAlone(Jobs[j], final) \in Reached(o, a)
<1> DEFINE n == Len(order)
           left == LeftAlone(Jobs[j], final)
           o == [i \in 1 .. n + 1 |-> IF i = n + 1 THEN j ELSE order[i]]
           a == [i \in 0 .. n + 1 |-> IF i = n + 1 THEN left ELSE after[i]]
<1>1. n \in Nat /\ \A i \in 1 .. n : order[i] \in finished
  BY DEF Explains
<1>2. after \in [0 .. n -> Balances] /\ after[0] = Opening /\ after[n] = final
  BY DEF Explains
<1>3. left \in Balances
  BY <1>1, <1>2, LeftType
<1> HIDE DEF left
<1>4. o \in Seq(finished \union {j}) /\ Len(o) = n + 1
  <2>1. o \in [1 .. n + 1 -> finished \union {j}]
    BY <1>1
  <2> QED
    BY <1>1, <2>1
<1>5. \A i \in finished \union {j} : \E k \in 1 .. n + 1 : o[k] = i
  <2> SUFFICES ASSUME NEW i \in finished \union {j} PROVE \E k \in 1 .. n + 1 : o[k] = i
    OBVIOUS
  <2>1. CASE i = j
    <3>1. n + 1 \in 1 .. n + 1 /\ o[n + 1] = j
      BY <1>1
    <3> QED
      BY <2>1, <3>1
  <2>2. CASE i \in finished
    <3>1. PICK k \in 1 .. n : order[k] = i
      BY <2>2 DEF Explains
    <3>2. k \in 1 .. n + 1 /\ k # n + 1
      BY <1>1, <3>1
    <3>3. o[k] = i
      BY <3>1, <3>2
    <3> QED
      BY <3>2, <3>3
  <2> QED
    BY <2>1, <2>2
<1>6. \A i, k \in 1 .. n + 1 : o[i] = o[k] => i = k
  <2>1. \A i \in 1 .. n + 1 : i # n + 1 => i \in 1 .. n
    BY <1>1
  <2>2. \A i, k \in 1 .. n : order[i] = order[k] => i = k
    BY DEF Explains
  <2> QED
    BY <1>1, <2>1, <2>2
<1>7. a \in [0 .. n + 1 -> Balances] /\ a[0] = Opening /\ a[n + 1] = left
  <2>1. \A i \in 0 .. n + 1 : i # n + 1 => i \in 0 .. n
    BY <1>1
  <2>2. 0 \in 0 .. n + 1 /\ n + 1 \in 0 .. n + 1 /\ n + 1 # 0
    BY <1>1
  <2> QED
    BY <1>2, <1>3, <2>1, <2>2
<1>8. ASSUME NEW i \in 1 .. n + 1
      PROVE  saw2[o[i]] = SeenAlone(Jobs[o[i]], a[i - 1]) /\ a[i] = LeftAlone(Jobs[o[i]], a[i - 1])
  <2>1. CASE i = n + 1
    <3>1. i - 1 = n /\ n \in 0 .. n + 1 /\ n # n + 1 /\ n + 1 \in 0 .. n + 1
      BY <1>1, <2>1
    <3>2. o[i] = j /\ a[i] = left /\ a[i - 1] = final
      BY <1>2, <2>1, <3>1
    <3> QED
      BY <3>2 DEF left
  <2>2. CASE i # n + 1
    <3>1. i \in 1 .. n /\ i - 1 \in 0 .. n + 1 /\ i - 1 # n + 1 /\ i \in 0 .. n + 1
      BY <1>1, <2>2
    <3>2. o[i] = order[i] /\ a[i] = after[i] /\ a[i - 1] = after[i - 1]
      BY <2>2, <3>1
    <3>3. saw2[order[i]] = saw[order[i]]
      BY <1>1, <3>1
    <3> QED
      BY <3>1, <3>2, <3>3 DEF Explains
  <2> QED
    BY <2>1, <2>2
<1>9. Reached(order, after) \subseteq Reached(o, a)
  <2> SUFFICES ASSUME NEW i \in 0 .. n PROVE \E k \in 0 .. n + 1 : a[k] = after[i]
    BY <1>4 DEF Reached
  <2>1. i \in 0 .. n + 1 /\ i # n + 1
    BY <1>1
  <2> QED
    BY <2>1
<1>10. left \in Reached(o, a)
  <2>1. n + 1 \in 0 .. n + 1
    BY <1>1
  <2> QED
    BY <1>4, <1>7, <2>1 DEF Reached
<1> HIDE DEF o, a
<1>11. Explains(o, a, finished \union {j}, saw2, left)
  BY <1>4, <1>5, <1>6, <1>7, <1>8 DEF Explains
<1> QED
  BY <1>9, <1>10, <1>11 DEF left

\* A job that has changed nothing goes where the balances were what it saw.
LEMMA InsertJob ==
    ASSUME JobsFit, NEW finished, NEW saw, NEW final, NEW order, NEW after,
           Explains(order, after, finished, saw, final),
           NEW j \in Job, j \notin finished, NEW b \in Reached(order, after),
           LeftAlone(Jobs[j], b) = b,
           NEW saw2, \A i \in finished : saw2[i] = saw[i],
           saw2[j] = SeenAlone(Jobs[j], b)
    PROVE  \E o, a : /\ Explains(o, a, finished \union {j}, saw2, final)
                     /\ Reached(order, after) \subseteq Reached(o, a)
<1> DEFINE n == Len(order)
<1>0. PICK p \in 0 .. n : after[p] = b
  BY DEF Reached
<1> DEFINE o == [i \in 1 .. n + 1 |-> IF i <= p THEN order[i] ELSE IF i = p + 1 THEN j ELSE order[i - 1]]
           a == [i \in 0 .. n + 1 |-> IF i <= p THEN after[i] ELSE after[i - 1]]
<1>1. n \in Nat /\ \A i \in 1 .. n : order[i] \in finished
  BY DEF Explains
<1>2. after \in [0 .. n -> Balances] /\ after[0] = Opening /\ after[n] = final
  BY DEF Explains
<1>3. /\ \A i \in 1 .. n + 1 : i <= p => i \in 1 .. n /\ o[i] = order[i]
      /\ \A i \in 1 .. n + 1 : i > p + 1 => i - 1 \in 1 .. n /\ o[i] = order[i - 1]
      /\ p + 1 \in 1 .. n + 1 /\ o[p + 1] = j
  BY <1>1
<1>31. \A i \in 1 .. n + 1 : i <= p \/ i > p + 1 \/ i = p + 1
  BY <1>1
<1>4. o \in Seq(finished \union {j}) /\ Len(o) = n + 1
  <2>1. \A i \in 1 .. n + 1 : o[i] \in finished \union {j}
    BY <1>1, <1>3, <1>31
  <2>2. o \in [1 .. n + 1 -> finished \union {j}]
    BY <2>1
  <2> QED
    BY <1>1, <2>2
<1>41. \A i \in 0 .. n + 1 : /\ i <= p => i \in 0 .. n /\ a[i] = after[i]
                             /\ i > p => i - 1 \in 0 .. n /\ a[i] = after[i - 1]
  BY <1>1
<1>42. o = [i \in 1 .. n + 1 |-> o[i]] /\ a = [i \in 0 .. n + 1 |-> a[i]]
  OBVIOUS
<1> HIDE DEF o, a
<1>5. \A i \in finished \union {j} : \E k \in 1 .. n + 1 : o[k] = i
  <2> SUFFICES ASSUME NEW i \in finished \union {j} PROVE \E k \in 1 .. n + 1 : o[k] = i
    OBVIOUS
  <2>1. CASE i = j
    BY <1>3, <2>1
  <2>2. CASE i \in finished
    <3>1. PICK k \in 1 .. n : order[k] = i
      BY <2>2 DEF Explains
    <3>2. CASE k <= p
      <4>1. k \in 1 .. n + 1
        BY <1>1
      <4> QED
        BY <1>3, <3>1, <3>2, <4>1
    <3>3. CASE ~ (k <= p)
      <4>1. k + 1 \in 1 .. n + 1 /\ k + 1 > p + 1 /\ (k + 1) - 1 = k
        BY <1>1, <3>3
      <4> QED
        BY <1>3, <3>1, <4>1
    <3> QED
      BY <3>2, <3>3
  <2> QED
    BY <2>1, <2>2
<1>6. ASSUME NEW i \in 1 .. n + 1, NEW k \in 1 .. n + 1, o[i] = o[k] PROVE i = k
  <2>1. \A x, y \in 1 .. n : order[x] = order[y] => x = y
    BY DEF Explains
  <2>2. \A x \in 1 .. n : order[x] # j
    BY <1>1
  <2>3. i = p + 1 \/ (i <= p /\ i \in 1 .. n /\ o[i] = order[i])
          \/ (i > p + 1 /\ i - 1 \in 1 .. n /\ o[i] = order[i - 1])
    BY <1>3, <1>31
  <2>4. k = p + 1 \/ (k <= p /\ k \in 1 .. n /\ o[k] = order[k])
          \/ (k > p + 1 /\ k - 1 \in 1 .. n /\ o[k] = order[k - 1])
    BY <1>3, <1>31
  <2> QED
    BY <1>3, <1>6, <2>1, <2>2, <2>3, <2>4
<1>7. a \in [0 .. n + 1 -> Balances] /\ a[0] = Opening /\ a[n + 1] = final
  <2>1. \A i \in 0 .. n + 1 : i <= p \/ i > p
    BY <1>1
  <2>2. \A i \in 0 .. n + 1 : a[i] \in Balances
    BY <1>2, <1>41, <2>1
  <2>3. 0 \in 0 .. n + 1 /\ 0 <= p /\ n + 1 \in 0 .. n + 1 /\ n + 1 > p /\ (n + 1) - 1 = n
    BY <1>1
  <2> QED
    BY <1>2, <1>41, <1>42, <2>2, <2>3
<1>8. ASSUME NEW i \in 1 .. n + 1
      PROVE  saw2[o[i]] = SeenAlone(Jobs[o[i]], a[i - 1]) /\ a[i] = LeftAlone(Jobs[o[i]], a[i - 1])
  <2>0. \A x \in 1 .. n : /\ saw2[order[x]] = SeenAlone(Jobs[order[x]], after[x - 1])
                          /\ after[x] = LeftAlone(Jobs[order[x]], after[x - 1])
    BY <1>1 DEF Explains
  <2>1. CASE i <= p
    <3>1. i \in 0 .. n + 1 /\ i - 1 \in 0 .. n + 1 /\ i - 1 <= p
      BY <1>1, <2>1
    <3> QED
      BY <1>3, <1>41, <2>0, <2>1, <3>1
  <2>2. CASE i > p + 1
    <3>1. i \in 0 .. n + 1 /\ i - 1 \in 0 .. n + 1 /\ i - 1 > p /\ i > p
      BY <1>1, <2>2
    <3> QED
      BY <1>3, <1>41, <2>0, <2>2, <3>1
  <2>3. CASE i = p + 1
    <3>1. i \in 0 .. n + 1 /\ i - 1 \in 0 .. n + 1 /\ i - 1 <= p /\ i > p /\ i - 1 = p
      BY <1>1, <2>3
    <3>2. a[i] = b /\ a[i - 1] = b /\ o[i] = j
      BY <1>0, <1>3, <1>41, <2>3, <3>1
    <3> QED
      BY <3>2
  <2> QED
    BY <1>31, <2>1, <2>2, <2>3
<1>9. Reached(order, after) \subseteq Reached(o, a)
  <2> SUFFICES ASSUME NEW i \in 0 .. n PROVE \E k \in 0 .. n + 1 : a[k] = after[i]
    BY <1>4 DEF Reached
  <2>1. CASE i <= p
    <3>1. i \in 0 .. n + 1
      BY <1>1
    <3> QED
      BY <1>41, <2>1, <3>1
  <2>2. CASE i > p
    <3>1. i + 1 \in 0 .. n + 1 /\ i + 1 > p /\ (i + 1) - 1 = i
      BY <1>1, <2>2
    <3> QED
      BY <1>41, <3>1
  <2> QED
    BY <1>1, <2>1, <2>2
<1>11. Explains(o, a, finished \union {j}, saw2, final)
  BY <1>4, <1>5, <1>6, <1>7, <1>8 DEF Explains
<1> QED
  BY <1>9, <1>11

\* Nothing has run yet.
LEMMA ExplainsNobody ==
    ASSUME JobsFit, NEW saw
    PROVE  /\ Explains(<<>>, [i \in 0 .. 0 |-> Opening], {}, saw, Opening)
           /\ Opening \in Reached(<<>>, [i \in 0 .. 0 |-> Opening])
BY OpeningType DEF Explains, Reached

\* What a job that has not finished sees is not part of the explanation.
LEMMA ExplainsSame ==
    ASSUME NEW finished, NEW saw, NEW saw2, NEW final, NEW order, NEW after,
           Explains(order, after, finished, saw, final), \A i \in finished : saw2[i] = saw[i]
    PROVE  Explains(order, after, finished, saw2, final)
<1>1. ASSUME NEW i \in 1 .. Len(order)
      PROVE  /\ saw2[order[i]] = SeenAlone(Jobs[order[i]], after[i - 1])
             /\ after[i] = LeftAlone(Jobs[order[i]], after[i - 1])
  <2>1. order[i] \in finished
    BY DEF Explains
  <2> QED
    BY <2>1 DEF Explains
<1>2. /\ order \in Seq(finished)
      /\ \A j \in finished : \E i \in 1 .. Len(order) : order[i] = j
      /\ \A i, k \in 1 .. Len(order) : order[i] = order[k] => i = k
      /\ after \in [0 .. Len(order) -> Balances]
      /\ after[0] = Opening /\ after[Len(order)] = final
  BY DEF Explains
<1> QED
  BY <1>1, <1>2, Zenon DEF Explains

-----------------------------------------------------------------------------
(* The optimistic engine. *)

Stored == [k \in Key |-> store[k].value]
Drafted == [j \in Job |-> drafts[j].seen]
Committed == {j \in Job : drafts[j].done}

\* What an unfinished job has read is there no more, or still there unchanged.
Current(j) ==
    \A k \in DOMAIN drafts[j].seen :
        /\ drafts[j].reads[k] \in Nat
        /\ drafts[j].reads[k] <= store[k].version
        /\ drafts[j].reads[k] = store[k].version => drafts[j].seen[k] = store[k].value

Draft(j) ==
    /\ DOMAIN drafts[j] = {"reads", "seen", "done"}
    /\ drafts[j].done \in BOOLEAN
    /\ DOMAIN drafts[j].reads = DOMAIN drafts[j].seen
    /\ Reading(Jobs[j], drafts[j].seen)
    /\ ~ drafts[j].done => Current(j)

OptimisticInv ==
    /\ store \in [Key -> [version : Nat, value : Int]]
    /\ DOMAIN drafts = Job
    /\ \A j \in Job : Draft(j)
    /\ Explained(Committed, Drafted, Stored)

LEMMA OptimisticStart ==
    ASSUME JobsFit, Optimistic!Init
    PROVE  OptimisticInv
<1>1. store = [k \in Key |-> [version |-> 0, value |-> Opening[k]]]
  BY DEF Optimistic!Init, Optimistic!Key, Key
<1>2. drafts = [j \in Job |-> [reads |-> Nothing, seen |-> Nothing, done |-> FALSE]]
  BY DEF Optimistic!Init, Optimistic!Job, Optimistic!NewTx, Optimistic!Nothing, Nothing, Job
<1>3. Opening \in Balances
  BY OpeningType
<1>4. store \in [Key -> [version : Nat, value : Int]] /\ Stored = Opening
  BY <1>1, <1>3 DEF Balances, Stored
<1>5. \A j \in Job : Draft(j)
  BY <1>2, NothingIsReading DEF Draft, Current
<1>6. Committed = {}
  BY <1>2 DEF Committed
<1>7. Explained(Committed, Drafted, Stored)
  BY <1>4, <1>6, ExplainsNobody DEF Explained
<1> QED
  BY <1>2, <1>4, <1>5, <1>7 DEF OptimisticInv

\* The steps, in the words of this module.
LEMMA OptimisticSteps ==
    ASSUME NEW j \in Job
    PROVE  /\ Optimistic!Read(j) =>
                LET k == NextRead(Jobs[j], drafts[j].seen)
                IN  /\ ~ drafts[j].done
                    /\ StillToRead(Jobs[j], drafts[j].seen) # {}
                    /\ drafts' = [drafts EXCEPT ![j].reads = With(@, k, store[k].version),
                                                ![j].seen  = With(@, k, store[k].value)]
                    /\ store' = store
           /\ Optimistic!Commit(j) =>
                /\ ~ drafts[j].done
                /\ StillToRead(Jobs[j], drafts[j].seen) = {}
                /\ \A k \in DOMAIN drafts[j].reads : store[k].version = drafts[j].reads[k]
                /\ store' = [k \in Key |->
                               IF k \in DOMAIN Jobs[j].adds
                               THEN [version |-> store[k].version + 1,
                                     value   |-> drafts[j].seen[k] + Jobs[j].adds[k]]
                               ELSE store[k]]
                /\ drafts' = [drafts EXCEPT ![j].done = TRUE]
           /\ Optimistic!Conflict(j) =>
                /\ ~ drafts[j].done
                /\ drafts' = [drafts EXCEPT ![j] = [reads |-> Nothing, seen |-> Nothing,
                                                    done |-> FALSE]]
                /\ store' = store
<1>1. \A job, s : Optimistic!StillToRead(job, s) = StillToRead(job, s)
  BY DEF Optimistic!StillToRead, StillToRead
<1>2. \A job, s : Optimistic!NextRead(job, s) = NextRead(job, s)
  BY <1>1 DEF Optimistic!NextRead, NextRead, Optimistic!Min, Min
<1>3. \A s, k, v : Optimistic!With(s, k, v) = With(s, k, v)
  BY DEF Optimistic!With, With
<1>4. ASSUME Optimistic!Read(j)
      PROVE  LET k == NextRead(Jobs[j], drafts[j].seen)
             IN  /\ ~ drafts[j].done
                 /\ StillToRead(Jobs[j], drafts[j].seen) # {}
                 /\ drafts' = [drafts EXCEPT ![j].reads = With(@, k, store[k].version),
                                             ![j].seen  = With(@, k, store[k].value)]
                 /\ store' = store
  BY <1>1, <1>2, <1>3, <1>4 DEF Optimistic!Read
<1>5. ASSUME Optimistic!Commit(j)
      PROVE  /\ ~ drafts[j].done
             /\ StillToRead(Jobs[j], drafts[j].seen) = {}
             /\ \A k \in DOMAIN drafts[j].reads : store[k].version = drafts[j].reads[k]
             /\ store' = [k \in Key |->
                            IF k \in DOMAIN Jobs[j].adds
                            THEN [version |-> store[k].version + 1,
                                  value   |-> drafts[j].seen[k] + Jobs[j].adds[k]]
                            ELSE store[k]]
             /\ drafts' = [drafts EXCEPT ![j].done = TRUE]
  BY <1>1, <1>5 DEF Optimistic!Commit, Optimistic!ReadyToCommit, Optimistic!Valid, Optimistic!Written,
                    Optimistic!Key, Key
<1>6. ASSUME Optimistic!Conflict(j)
      PROVE  /\ ~ drafts[j].done
             /\ drafts' = [drafts EXCEPT ![j] = [reads |-> Nothing, seen |-> Nothing, done |-> FALSE]]
             /\ store' = store
  BY <1>6 DEF Optimistic!Conflict, Optimistic!ReadyToCommit, Optimistic!NewTx, Optimistic!Nothing, Nothing
<1> QED
  BY <1>4, <1>5, <1>6

LEMMA OptimisticReadInv ==
    ASSUME JobsFit, OptimisticInv, NEW j \in Job, Optimistic!Read(j)
    PROVE  OptimisticInv'
<1> DEFINE at == NextRead(Jobs[j], drafts[j].seen)
<1>1. /\ ~ drafts[j].done /\ StillToRead(Jobs[j], drafts[j].seen) # {}
      /\ drafts' = [drafts EXCEPT ![j].reads = With(@, at, store[at].version),
                                  ![j].seen  = With(@, at, store[at].value)]
      /\ store' = store
  BY OptimisticSteps
<1>2. DOMAIN drafts = Job /\ DOMAIN drafts[j] = {"reads", "seen", "done"}
  BY DEF OptimisticInv, Draft
<1>3. Fits(Jobs[j]) /\ Reading(Jobs[j], drafts[j].seen)
  BY DEF OptimisticInv, Draft, JobsFit
<1>4. at \in Key /\ store[at].version \in Nat /\ store[at].value \in Int
  BY <1>1, <1>3, NextReadIs DEF OptimisticInv
<1>5. Reading(Jobs[j], With(drafts[j].seen, at, store[at].value))
  BY <1>1, <1>3, <1>4, NextReadIs
<1> HIDE DEF at
<1>6. /\ DOMAIN drafts' = Job
      /\ \A i \in Job : i # j => drafts'[i] = drafts[i]
      /\ DOMAIN drafts'[j] = {"reads", "seen", "done"}
      /\ drafts'[j].done = drafts[j].done
      /\ drafts'[j].reads = With(drafts[j].reads, at, store[at].version)
      /\ drafts'[j].seen = With(drafts[j].seen, at, store[at].value)
  BY <1>1, <1>2
<1>7. Current(j)'
  <2>1. Current(j)
    BY <1>1 DEF OptimisticInv, Draft
  <2>2. DOMAIN drafts[j].reads = DOMAIN drafts[j].seen
    BY DEF OptimisticInv, Draft
  <2> QED
    BY <1>1, <1>4, <1>6, <2>1, <2>2 DEF Current, With
<1>8. Draft(j)'
  <2>1. DOMAIN drafts'[j].reads = DOMAIN drafts'[j].seen
    BY <1>6 DEF OptimisticInv, Draft, With
  <2>2. drafts'[j].done \in BOOLEAN
    BY <1>6 DEF OptimisticInv, Draft
  <2>3. Reading(Jobs[j], drafts'[j].seen)
    BY <1>5, <1>6
  <2> QED
    BY <1>6, <1>7, <2>1, <2>2, <2>3 DEF Draft
<1>9. \A i \in Job : Draft(i)'
  <2> SUFFICES ASSUME NEW i \in Job, i # j PROVE Draft(i)'
    BY <1>8
  <2>1. Draft(i)
    BY DEF OptimisticInv
  <2>2. drafts'[i] = drafts[i] /\ store' = store
    BY <1>1, <1>6
  <2> QED
    BY <2>1, <2>2 DEF Draft, Current
<1>10. Committed' = Committed /\ Stored' = Stored /\ \A i \in Committed : Drafted'[i] = Drafted[i]
  BY <1>1, <1>6 DEF Committed, Stored, Drafted
<1>11. Explained(Committed, Drafted, Stored)'
  <2>1. PICK order, after : Explains(order, after, Committed, Drafted, Stored)
    BY DEF OptimisticInv, Explained
  <2>2. Explains(order, after, Committed, Drafted', Stored)
    BY <1>10, <2>1, ExplainsSame
  <2> QED
    BY <1>10, <2>2 DEF Explained
<1> QED
  BY <1>1, <1>6, <1>9, <1>11 DEF OptimisticInv

LEMMA OptimisticCommitInv ==
    ASSUME JobsFit, NeverRefuse, OptimisticInv, NEW j \in Job, Optimistic!Commit(j)
    PROVE  OptimisticInv'
<1> DEFINE job == Jobs[j]
<1>1. /\ ~ drafts[j].done
      /\ StillToRead(job, drafts[j].seen) = {}
      /\ \A k \in DOMAIN drafts[j].reads : store[k].version = drafts[j].reads[k]
      /\ store' = [k \in Key |->
                     IF k \in DOMAIN job.adds
                     THEN [version |-> store[k].version + 1, value |-> drafts[j].seen[k] + job.adds[k]]
                     ELSE store[k]]
      /\ drafts' = [drafts EXCEPT ![j].done = TRUE]
  BY OptimisticSteps
<1>2. DOMAIN drafts = Job /\ DOMAIN drafts[j] = {"reads", "seen", "done"}
  BY DEF OptimisticInv, Draft
<1>3. Fits(job) /\ Reading(job, drafts[j].seen) /\ DOMAIN drafts[j].reads = DOMAIN drafts[j].seen
  BY DEF OptimisticInv, Draft, JobsFit
<1>4. ~ Refused(job, Stored)
  BY <1>3, WithoutCovers DEF NeverRefuse
<1>5. DOMAIN drafts[j].seen = Range(job.reads)
  <2>1. DOMAIN drafts[j].seen \subseteq Range(job.reads)
    BY <1>3 DEF Reading, Range
  <2>2. Range(job.reads) \subseteq DOMAIN drafts[j].seen
    BY <1>1 DEF StillToRead, Range
  <2> QED
    BY <2>1, <2>2
<1>6. \A k \in Range(job.reads) : k \in Key /\ drafts[j].seen[k] = store[k].value
  <2>1. Current(j)
    BY <1>1 DEF OptimisticInv, Draft
  <2>2. Range(job.reads) \subseteq Key
    BY <1>3 DEF Fits, Range
  <2> QED
    BY <1>1, <1>3, <1>5, <2>1, <2>2 DEF Current
<1>7. DOMAIN job.adds \subseteq Range(job.reads) /\ \A k \in DOMAIN job.adds : job.adds[k] \in Int
  BY <1>3 DEF Fits
<1>8. drafts[j].seen = SeenAlone(job, Stored)
  <2>1. drafts[j].seen = [k \in Range(job.reads) |-> drafts[j].seen[k]]
    BY <1>3, <1>5 DEF Reading
  <2>2. SeenAlone(job, Stored) = [k \in Range(job.reads) |-> Stored[k]]
    BY <1>4 DEF SeenAlone, Restrict
  <2>3. \A k \in Range(job.reads) : Stored[k] = store[k].value
    BY <1>6 DEF Stored
  <2> QED
    BY <1>6, <2>1, <2>2, <2>3
<1>9. store' \in [Key -> [version : Nat, value : Int]]
  <2>1. \A k \in Key : store[k] \in [version : Nat, value : Int]
    BY DEF OptimisticInv
  <2>2. \A k \in DOMAIN job.adds : drafts[j].seen[k] \in Int
    BY <1>6, <1>7, <2>1
  <2>3. \A k \in Key :
          (IF k \in DOMAIN job.adds
           THEN [version |-> store[k].version + 1, value |-> drafts[j].seen[k] + job.adds[k]]
           ELSE store[k]) \in [version : Nat, value : Int]
    BY <1>7, <2>1, <2>2
  <2> HIDE DEF job
  <2> QED
    BY <1>1, <2>3
<1>10. Stored' = LeftAlone(job, Stored)
  <2>1. LeftAlone(job, Stored)
          = [k \in Key |-> IF k \in DOMAIN job.adds THEN Stored[k] + job.adds[k] ELSE Stored[k]]
    BY <1>4 DEF LeftAlone
  <2>2. \A k \in Key : store'[k].value
          = IF k \in DOMAIN job.adds THEN Stored[k] + job.adds[k] ELSE Stored[k]
    BY <1>1, <1>6, <1>7 DEF Stored
  <2> QED
    BY <2>1, <2>2 DEF Stored
<1> HIDE DEF job
<1>11. /\ DOMAIN drafts' = Job
       /\ \A i \in Job : i # j => drafts'[i] = drafts[i]
       /\ DOMAIN drafts'[j] = {"reads", "seen", "done"}
       /\ drafts'[j].done = TRUE
       /\ drafts'[j].reads = drafts[j].reads
       /\ drafts'[j].seen = drafts[j].seen
  BY <1>1, <1>2
<1>12. ASSUME NEW i \in Job PROVE Draft(i)'
  <2>1. Draft(i)
    BY DEF OptimisticInv
  <2>2. CASE i = j
    BY <1>11, <2>1, <2>2 DEF Draft
  <2>3. CASE i # j
    <3>1. ASSUME ~ drafts[i].done PROVE Current(i)'
      <4>1. Current(i)
        BY <2>1, <3>1 DEF Draft
      <4>2. DOMAIN drafts[i].seen \subseteq Key
        <5>1. Fits(Jobs[i]) /\ Reading(Jobs[i], drafts[i].seen)
          BY <2>1 DEF JobsFit, Draft
        <5> QED
          BY <5>1 DEF Reading, Fits
      <4>3. \A k \in Key : /\ store[k].version \in Nat
                           /\ store'[k] = store[k] \/ store'[k].version = store[k].version + 1
        BY <1>1 DEF OptimisticInv
      <4> SUFFICES ASSUME NEW k \in DOMAIN drafts[i].seen
                   PROVE  /\ drafts[i].reads[k] \in Nat
                          /\ drafts[i].reads[k] <= store'[k].version
                          /\ drafts[i].reads[k] = store'[k].version => drafts[i].seen[k] = store'[k].value
        BY <1>11, <2>3 DEF Current
      <4>4. /\ drafts[i].reads[k] \in Nat
            /\ drafts[i].reads[k] <= store[k].version
            /\ drafts[i].reads[k] = store[k].version => drafts[i].seen[k] = store[k].value
        BY <4>1 DEF Current
      <4> QED
        BY <4>2, <4>3, <4>4
    <3> QED
      BY <1>11, <2>1, <2>3, <3>1 DEF Draft
  <2> QED
    BY <2>2, <2>3
<1>13. Committed' = Committed \union {j} /\ j \notin Committed
  BY <1>1, <1>11 DEF Committed
<1>14. Drafted'[j] = drafts[j].seen /\ \A i \in Committed : Drafted'[i] = Drafted[i]
  BY <1>11, <1>13 DEF Drafted, Committed
<1>15. Explained(Committed, Drafted, Stored)'
  <2>1. PICK order, after : Explains(order, after, Committed, Drafted, Stored)
    BY DEF OptimisticInv, Explained
  <2>2. Drafted'[j] = SeenAlone(Jobs[j], Stored)
    BY <1>8, <1>14 DEF job
  <2>3. \E o, a : Explains(o, a, Committed \union {j}, Drafted', LeftAlone(Jobs[j], Stored))
    BY <1>13, <1>14, <2>1, <2>2, AppendJob
  <2> QED
    BY <1>10, <1>13, <2>3 DEF Explained, job
<1> QED
  BY <1>9, <1>11, <1>12, <1>15 DEF OptimisticInv

LEMMA OptimisticConflictInv ==
    ASSUME JobsFit, OptimisticInv, NEW j \in Job, Optimistic!Conflict(j)
    PROVE  OptimisticInv'
<1>1. /\ ~ drafts[j].done
      /\ drafts' = [drafts EXCEPT ![j] = [reads |-> Nothing, seen |-> Nothing, done |-> FALSE]]
      /\ store' = store
  BY OptimisticSteps
<1>2. /\ DOMAIN drafts' = Job
      /\ \A i \in Job : i # j => drafts'[i] = drafts[i]
      /\ drafts'[j] = [reads |-> Nothing, seen |-> Nothing, done |-> FALSE]
  BY <1>1 DEF OptimisticInv
<1>3. ASSUME NEW i \in Job PROVE Draft(i)'
  <2>1. CASE i = j
    <3>1. drafts'[i].seen = Nothing /\ drafts'[i].reads = Nothing /\ drafts'[i].done = FALSE
      BY <1>2, <2>1
    <3>2. DOMAIN drafts'[i] = {"reads", "seen", "done"}
      BY <1>2, <2>1
    <3>3. Reading(Jobs[i], drafts'[i].seen) /\ DOMAIN drafts'[i].seen = {}
      BY <3>1, NothingIsReading
    <3> QED
      BY <3>1, <3>2, <3>3 DEF Draft, Current
  <2>2. CASE i # j
    <3>1. Draft(i)
      BY DEF OptimisticInv
    <3>2. drafts'[i] = drafts[i] /\ store' = store
      BY <1>1, <1>2, <2>2
    <3> QED
      BY <3>1, <3>2 DEF Draft, Current
  <2> QED
    BY <2>1, <2>2
<1>4. Committed' = Committed /\ Stored' = Stored /\ \A i \in Committed : Drafted'[i] = Drafted[i]
  BY <1>1, <1>2 DEF Committed, Stored, Drafted
<1>5. Explained(Committed, Drafted, Stored)'
  <2>1. PICK order, after : Explains(order, after, Committed, Drafted, Stored)
    BY DEF OptimisticInv, Explained
  <2>2. Explains(order, after, Committed, Drafted', Stored)
    BY <1>4, <2>1, ExplainsSame
  <2> QED
    BY <1>4, <2>2 DEF Explained
<1> QED
  BY <1>1, <1>2, <1>3, <1>5 DEF OptimisticInv

LEMMA OptimisticStep ==
    ASSUME JobsFit, NeverRefuse, OptimisticInv, [Optimistic!Next]_(Optimistic!vars)
    PROVE  OptimisticInv'
<1>1. CASE UNCHANGED Optimistic!vars
  <2>1. store' = store /\ drafts' = drafts
    BY <1>1 DEF Optimistic!vars
  <2>2. Committed' = Committed /\ Drafted' = Drafted /\ Stored' = Stored
    BY <2>1 DEF Committed, Drafted, Stored
  <2>3. \A j \in Job : Draft(j) => Draft(j)'
    BY <2>1 DEF Draft, Current
  <2>4. Explained(Committed, Drafted, Stored) => Explained(Committed, Drafted, Stored)'
    BY <2>2 DEF Explained
  <2> QED
    BY <2>1, <2>3, <2>4 DEF OptimisticInv
<1>2. CASE Optimistic!Next
  <2>1. PICK j \in Job : Optimistic!Read(j) \/ Optimistic!Commit(j) \/ Optimistic!Conflict(j)
    BY <1>2 DEF Optimistic!Next, Optimistic!Step, Optimistic!Job, Job
  <2> QED
    BY <2>1, OptimisticReadInv, OptimisticCommitInv, OptimisticConflictInv
<1> QED
  BY <1>1, <1>2

\* The reference of the instance is that of this module.
LEMMA OptimisticSerial ==
    ASSUME NEW finished, NEW saw, NEW whole, NEW bal
    PROVE  Optimistic!Serial(finished, saw, whole, bal) <=> Serial(finished, saw, whole, bal)
BY DEF Optimistic!Serial, Serial, Optimistic!OneByOne, OneByOne, Optimistic!LeftAlone, LeftAlone,
       Optimistic!SeenAlone, SeenAlone, Optimistic!Refused, Refused, Optimistic!Restrict, Restrict,
       Optimistic!Range, Range, Optimistic!SetToSeqs, SetToSeqs, Optimistic!Key, Key,
       Optimistic!MapThenSumSet, MapThenSumSet, Optimistic!MapThenFoldSet, MapThenFoldSet,
       Optimistic!Cardinality, Cardinality

LEMMA OptimisticResult ==
    ASSUME OptimisticInv
    PROVE  Optimistic!Serializable
<1>1. Serial(Committed, Drafted, TRUE, Stored)
  BY ExplainedSerial DEF OptimisticInv
<1>2. Optimistic!Serial(Committed, Drafted, TRUE, Stored)
  BY <1>1, OptimisticSerial
<1> QED
  BY <1>2 DEF Optimistic!Serializable, Committed, Drafted, Stored, Optimistic!Key, Key,
              Optimistic!Job, Job

\* Whatever the accounts and the jobs, and however their threads interleave,
\* the jobs occ.rs has committed have seen, and have left, what they would
\* have seen and left one after the other.
THEOREM OptimisticSerializable ==
    ASSUME JobsFit, NeverRefuse
    PROVE  Optimistic!Spec => []Optimistic!Serializable
<1>1. Optimistic!Init => OptimisticInv
  BY OptimisticStart
<1>2. OptimisticInv /\ [Optimistic!Next]_(Optimistic!vars) => OptimisticInv'
  BY OptimisticStep
<1>3. OptimisticInv => Optimistic!Serializable
  BY OptimisticResult
<1> QED
  BY <1>1, <1>2, <1>3, PTL DEF Optimistic!Spec

-----------------------------------------------------------------------------
(* Two-phase locking. *)

Wants(j) == Range(Jobs[j].reads)
Writer(j) == DOMAIN Jobs[j].adds # {}

\* The job has touched all its accounts.
Through(j) == StillToRead(Jobs[j], seen[j]) = {} /\ DOMAIN Jobs[j].adds = wrote[j]

AllThrough == {j \in Job : Through(j)}

LockTypes ==
    /\ balance \in Balances
    /\ readers \in [Key -> SUBSET Job] /\ writers \in [Key -> SUBSET Job]
    /\ DOMAIN held = Job /\ DOMAIN seen = Job /\ DOMAIN wrote = Job
    /\ \A j \in Job : /\ held[j] \subseteq Wants(j)
                      /\ Reading(Jobs[j], seen[j])
                      /\ wrote[j] \subseteq DOMAIN Jobs[j].adds \intersect DOMAIN seen[j]

\* The locks know who has them, and writers have theirs alone.
LocksAgree ==
    /\ \A k \in Key : /\ writers[k] = {j \in Job : Writer(j) /\ k \in held[j]}
                      /\ readers[k] = {j \in Job : ~ Writer(j) /\ k \in held[j]}
    /\ \A i, j \in Job : i # j /\ Writer(i) => held[i] \intersect held[j] = {}

\* Who has touched one account and not the last has all its locks.
Locked == \A j \in Job : ~ Through(j) /\ DOMAIN seen[j] # {} => held[j] = Wants(j)

\* base are the balances without what the jobs that are not done have written.
Founded(base, done, saw, wr, bal) ==
    /\ \A j \in Job \ done :
         /\ \A k \in DOMAIN saw[j] : saw[j][k] = base[k]
         /\ \A k \in wr[j] : bal[k] = base[k] + Jobs[j].adds[k]
    /\ \A k \in Key : (\A j \in Job \ done : k \notin wr[j]) => bal[k] = base[k]

LockingInv ==
    /\ LockTypes
    /\ LocksAgree
    /\ Locked
    /\ \E base \in Balances :
         Explained(AllThrough, seen, base) /\ Founded(base, AllThrough, seen, wrote, balance)

LEMMA WantsKeys == ASSUME JobsFit, NEW j \in Job PROVE Wants(j) \subseteq Key /\ Wants(j) # {}
<1>1. Jobs[j].reads \in Seq(Key) \ {<<>>}
  BY DEF JobsFit, Fits
<1>2. Len(Jobs[j].reads) \in Nat /\ DOMAIN Jobs[j].reads = 1 .. Len(Jobs[j].reads)
  BY <1>1
<1>3. 1 \in DOMAIN Jobs[j].reads
  <2>1. Len(Jobs[j].reads) # 0
    BY <1>1, EmptySeq
  <2> QED
    BY <1>2, <2>1
<1>4. \A i \in DOMAIN Jobs[j].reads : Jobs[j].reads[i] \in Key
  BY <1>1, <1>2
<1>5. Jobs[j].reads[1] \in Wants(j)
  BY <1>3 DEF Wants, Range
<1>6. Wants(j) \subseteq Key
  BY <1>4 DEF Wants, Range
<1> QED
  BY <1>5, <1>6

LEMMA ReadsAll ==
    ASSUME JobsFit, NEW j \in Job, NEW saw, Reading(Jobs[j], saw)
    PROVE  /\ DOMAIN saw \subseteq Wants(j)
           /\ StillToRead(Jobs[j], saw) = {} => DOMAIN saw = Wants(j)
<1>1. DOMAIN saw \subseteq Wants(j)
  BY DEF Reading, Range, Wants
<1>2. StillToRead(Jobs[j], saw) = {} => Wants(j) \subseteq DOMAIN saw
  BY DEF StillToRead, Range, Wants
<1> QED
  BY <1>1, <1>2

LEMMA AddsFit ==
    ASSUME JobsFit, NEW j \in Job
    PROVE  DOMAIN Jobs[j].adds \subseteq Wants(j) /\ \A k \in DOMAIN Jobs[j].adds : Jobs[j].adds[k] \in Int
BY DEF JobsFit, Fits, Wants

LEMMA KeysAre == JobsFit => Key = 1 .. Len(Opening) /\ Len(Opening) \in Nat
BY DEF JobsFit, Key

LEMMA LockingStart ==
    ASSUME JobsFit, Locking!Init
    PROVE  LockingInv
<1>1. /\ balance = Opening
      /\ readers = [k \in Key |-> {}] /\ writers = [k \in Key |-> {}]
      /\ held = [j \in Job |-> {}] /\ seen = [j \in Job |-> Nothing] /\ wrote = [j \in Job |-> {}]
  BY DEF Locking!Init, Locking!Key, Key, Locking!Job, Job, Locking!Nothing, Nothing
<1>2. \A j \in Job : Reading(Jobs[j], seen[j]) /\ DOMAIN seen[j] = {}
  BY <1>1, NothingIsReading
<1>3. LockTypes
  BY <1>1, <1>2, OpeningType DEF LockTypes
<1>4. LocksAgree
  BY <1>1 DEF LocksAgree
<1>5. Locked
  BY <1>2 DEF Locked
<1>6. AllThrough = {}
  <2> SUFFICES ASSUME NEW j \in Job PROVE StillToRead(Jobs[j], seen[j]) # {}
    BY DEF AllThrough, Through
  <2> QED
    BY <1>2, ReadsAll, WantsKeys
<1>7. Founded(Opening, AllThrough, seen, wrote, balance)
  BY <1>1, <1>2 DEF Founded
<1>8. Explained(AllThrough, seen, Opening)
  BY <1>6, ExplainsNobody DEF Explained
<1> QED
  BY <1>3, <1>4, <1>5, <1>7, <1>8, OpeningType DEF LockingInv

LEMMA LockingSteps ==
    ASSUME NEW j \in Job
    PROVE  /\ Locking!Accessed(j) <=> Through(j)
           /\ Locking!Lock(j) =>
                LET k == Min(Wants(j) \ held[j])
                IN  /\ ~ Through(j)
                    /\ held[j] # Wants(j)
                    /\ writers[k] = {}
                    /\ IF Writer(j)
                       THEN readers[k] = {} /\ writers' = [writers EXCEPT ![k] = {j}] /\ readers' = readers
                       ELSE readers' = [readers EXCEPT ![k] = @ \union {j}] /\ writers' = writers
                    /\ held' = [held EXCEPT ![j] = @ \union {k}]
                    /\ balance' = balance /\ seen' = seen /\ wrote' = wrote
           /\ Locking!Look(j) =>
                LET k == NextRead(Jobs[j], seen[j])
                IN  /\ held[j] = Wants(j)
                    /\ StillToRead(Jobs[j], seen[j]) # {}
                    /\ seen' = [seen EXCEPT ![j] = With(@, k, balance[k])]
                    /\ UNCHANGED <<balance, readers, writers, held, wrote>>
           /\ Locking!Overwrite(j) =>
                /\ Jobs[j].kind = "deposit"
                /\ \E k \in DOMAIN seen[j] \ wrote[j] :
                     /\ balance' = [balance EXCEPT ![k] = seen[j][k] + Jobs[j].adds[k]]
                     /\ wrote' = [wrote EXCEPT ![j] = @ \union {k}]
                /\ UNCHANGED <<readers, writers, held, seen>>
           /\ Locking!Adjust(j) =>
                LET k == NextRead(Jobs[j], seen[j])
                IN  /\ Jobs[j].kind = "transfer"
                    /\ held[j] = Wants(j)
                    /\ StillToRead(Jobs[j], seen[j]) # {}
                    /\ seen' = [seen EXCEPT ![j] = With(@, k, balance[k])]
                    /\ balance' = [balance EXCEPT ![k] = @ + Jobs[j].adds[k]]
                    /\ wrote' = [wrote EXCEPT ![j] = @ \union {k}]
                    /\ UNCHANGED <<readers, writers, held>>
           /\ Locking!Unlock(j) =>
                LET k == Max(held[j])
                IN  /\ Through(j)
                    /\ held[j] # {}
                    /\ readers' = [readers EXCEPT ![k] = @ \ {j}]
                    /\ writers' = [writers EXCEPT ![k] = @ \ {j}]
                    /\ held' = [held EXCEPT ![j] = @ \ {k}]
                    /\ UNCHANGED <<balance, seen, wrote>>
<1>1. \A job, s : Locking!StillToRead(job, s) = StillToRead(job, s)
  BY DEF Locking!StillToRead, StillToRead
<1>2. \A job, s : Locking!NextRead(job, s) = NextRead(job, s)
  BY <1>1 DEF Locking!NextRead, NextRead, Locking!Min, Min
<1>3. \A s, k, v : Locking!With(s, k, v) = With(s, k, v)
  BY DEF Locking!With, With
<1>4. Locking!Touched(j) = Wants(j) /\ Locking!Writes(j) = Writer(j)
  BY DEF Locking!Touched, Wants, Locking!Range, Range, Locking!Writes, Writer
<1>5. Locking!NextLock(j) = Min(Wants(j) \ held[j])
  BY <1>4 DEF Locking!NextLock, Locking!Min, Min
<1>6. Locking!Max(held[j]) = Max(held[j])
  BY DEF Locking!Max, Max
<1>7. Locking!Accessed(j) <=> Through(j)
  BY <1>1 DEF Locking!Accessed, Through
<1>8. ASSUME Locking!Lock(j)
      PROVE  LET k == Min(Wants(j) \ held[j])
             IN  /\ ~ Through(j)
                 /\ held[j] # Wants(j)
                 /\ writers[k] = {}
                 /\ IF Writer(j)
                    THEN readers[k] = {} /\ writers' = [writers EXCEPT ![k] = {j}] /\ readers' = readers
                    ELSE readers' = [readers EXCEPT ![k] = @ \union {j}] /\ writers' = writers
                 /\ held' = [held EXCEPT ![j] = @ \union {k}]
                 /\ balance' = balance /\ seen' = seen /\ wrote' = wrote
  BY <1>4, <1>5, <1>7, <1>8 DEF Locking!Lock
<1>9. ASSUME Locking!Look(j)
      PROVE  LET k == NextRead(Jobs[j], seen[j])
             IN  /\ held[j] = Wants(j)
                 /\ StillToRead(Jobs[j], seen[j]) # {}
                 /\ seen' = [seen EXCEPT ![j] = With(@, k, balance[k])]
                 /\ UNCHANGED <<balance, readers, writers, held, wrote>>
  BY <1>1, <1>2, <1>3, <1>4, <1>9 DEF Locking!Look, Locking!AllLocked
<1>10. ASSUME Locking!Overwrite(j)
       PROVE  /\ Jobs[j].kind = "deposit"
              /\ \E k \in DOMAIN seen[j] \ wrote[j] :
                   /\ balance' = [balance EXCEPT ![k] = seen[j][k] + Jobs[j].adds[k]]
                   /\ wrote' = [wrote EXCEPT ![j] = @ \union {k}]
              /\ UNCHANGED <<readers, writers, held, seen>>
  BY <1>10 DEF Locking!Overwrite
<1>11. ASSUME Locking!Adjust(j)
       PROVE  LET k == NextRead(Jobs[j], seen[j])
              IN  /\ Jobs[j].kind = "transfer"
                  /\ held[j] = Wants(j)
                  /\ StillToRead(Jobs[j], seen[j]) # {}
                  /\ seen' = [seen EXCEPT ![j] = With(@, k, balance[k])]
                  /\ balance' = [balance EXCEPT ![k] = @ + Jobs[j].adds[k]]
                  /\ wrote' = [wrote EXCEPT ![j] = @ \union {k}]
                  /\ UNCHANGED <<readers, writers, held>>
  BY <1>1, <1>2, <1>3, <1>4, <1>11 DEF Locking!Adjust, Locking!AllLocked
<1>12. ASSUME Locking!Unlock(j)
       PROVE  LET k == Max(held[j])
              IN  /\ Through(j)
                  /\ held[j] # {}
                  /\ readers' = [readers EXCEPT ![k] = @ \ {j}]
                  /\ writers' = [writers EXCEPT ![k] = @ \ {j}]
                  /\ held' = [held EXCEPT ![j] = @ \ {k}]
                  /\ UNCHANGED <<balance, seen, wrote>>
  BY <1>6, <1>7, <1>12 DEF Locking!Unlock
<1> QED
  BY <1>7, <1>8, <1>9, <1>10, <1>11, <1>12

\* The last account makes a job one more of those that ran on base.
LEMMA FinishJob ==
    ASSUME JobsFit, NeverRefuse, NEW base \in Balances, NEW done, done \subseteq Job,
           NEW saw, Explained(done, saw, base), NEW j \in Job \ done,
           NEW saw2, \A i \in done : saw2[i] = saw[i],
           NEW wr, NEW bal, Founded(base, done, saw2, wr, bal),
           Reading(Jobs[j], saw2[j]), DOMAIN saw2[j] = Wants(j), wr[j] = DOMAIN Jobs[j].adds,
           \A i \in Job \ done : i # j => /\ wr[i] \subseteq DOMAIN saw2[i]
                                          /\ DOMAIN saw2[i] \subseteq Key
                                          /\ DOMAIN Jobs[j].adds \intersect DOMAIN saw2[i] = {}
    PROVE  \E b \in Balances :
             Explained(done \union {j}, saw2, b) /\ Founded(b, done \union {j}, saw2, wr, bal)
<1> DEFINE job == Jobs[j]
           b == LeftAlone(job, base)
<1>1. b \in Balances
  BY LeftType
<1>2. Fits(job) /\ ~ Refused(job, base)
  BY WithoutCovers DEF JobsFit, NeverRefuse
<1>3. b = [k \in Key |-> IF k \in DOMAIN job.adds THEN base[k] + job.adds[k] ELSE base[k]]
  BY <1>2 DEF LeftAlone
<1>4. SeenAlone(job, base) = saw2[j]
  <2>1. SeenAlone(job, base) = [k \in Wants(j) |-> base[k]]
    BY <1>2 DEF SeenAlone, Restrict, Wants
  <2>2. saw2[j] = [k \in Wants(j) |-> saw2[j][k]]
    BY DEF Reading
  <2>3. \A k \in Wants(j) : saw2[j][k] = base[k]
    BY DEF Founded
  <2> QED
    BY <2>1, <2>2, <2>3
<1> HIDE DEF b
<1>5. Explained(done \union {j}, saw2, b)
  <2>1. PICK order, after : Explains(order, after, done, saw, base)
    BY DEF Explained
  <2>2. \E o, a : Explains(o, a, done \union {j}, saw2, LeftAlone(Jobs[j], base))
    BY <1>4, <2>1, AppendJob
  <2> QED
    BY <2>2 DEF Explained, b
<1>6. ASSUME NEW i \in Job \ (done \union {j})
      PROVE  /\ \A k \in DOMAIN saw2[i] : saw2[i][k] = b[k]
             /\ \A k \in wr[i] : bal[k] = b[k] + Jobs[i].adds[k]
  <2>1. i \in Job \ done /\ i # j
    OBVIOUS
  <2>2. \A k \in DOMAIN saw2[i] : k \in Key /\ k \notin DOMAIN job.adds /\ saw2[i][k] = base[k]
    BY <2>1 DEF Founded
  <2>3. \A k \in wr[i] : k \in DOMAIN saw2[i] /\ bal[k] = base[k] + Jobs[i].adds[k]
    BY <2>1 DEF Founded
  <2> HIDE DEF job
  <2> QED
    BY <1>3, <2>2, <2>3
<1>7. ASSUME NEW k \in Key, \A i \in Job \ (done \union {j}) : k \notin wr[i] PROVE bal[k] = b[k]
  <2>1. CASE k \in DOMAIN job.adds
    <3>1. bal[k] = base[k] + job.adds[k]
      BY <2>1 DEF Founded
    <3> HIDE DEF job
    <3> QED
      BY <1>3, <2>1, <3>1
  <2>2. CASE k \notin DOMAIN job.adds
    <3>1. \A i \in Job \ done : k \notin wr[i]
      BY <1>7, <2>2
    <3>2. bal[k] = base[k]
      BY <3>1 DEF Founded
    <3> HIDE DEF job
    <3> QED
      BY <1>3, <2>2, <3>2
  <2> QED
    BY <2>1, <2>2
<1>8. Founded(b, done \union {j}, saw2, wr, bal)
  BY <1>6, <1>7 DEF Founded
<1> QED
  BY <1>1, <1>5, <1>8

\* While a job has all its locks nobody else touches what it writes.
LEMMA Untouched ==
    ASSUME JobsFit, LockingInv, NEW i \in Job, NEW j \in Job, i # j, ~ Through(i),
           held[j] = Wants(j), Writer(i) \/ Writer(j)
    PROVE  DOMAIN seen[i] \intersect Wants(j) = {}
<1>1. DOMAIN seen[i] \subseteq Wants(i)
  BY ReadsAll DEF LockingInv, LockTypes
<1>2. DOMAIN seen[i] # {} => held[i] = Wants(i)
  BY DEF LockingInv, Locked
<1>3. held[i] \intersect held[j] = {}
  BY DEF LockingInv, LocksAgree
<1> QED
  BY <1>1, <1>2, <1>3

LEMMA AccessInv ==
    ASSUME JobsFit, NeverRefuse, LockingInv, NEW j \in Job, ~ Through(j), held[j] = Wants(j),
           NEW k \in Wants(j),
           UNCHANGED <<readers, writers, held>>, DOMAIN seen' = Job, DOMAIN wrote' = Job,
           \A i \in Job : i # j => seen'[i] = seen[i] /\ wrote'[i] = wrote[i],
           \/ seen'[j] = seen[j]
           \/ k \notin DOMAIN seen[j] /\ seen'[j] = With(seen[j], k, balance[k]),
           k \in DOMAIN seen'[j], Reading(Jobs[j], seen'[j]),
           \/ balance' = balance /\ wrote'[j] = wrote[j]
           \/ /\ k \in DOMAIN Jobs[j].adds \ wrote[j]
              /\ wrote'[j] = wrote[j] \union {k}
              /\ balance' = [balance EXCEPT ![k] = seen'[j][k] + Jobs[j].adds[k]]
    PROVE  LockingInv'
<1> DEFINE D == AllThrough
<1>0. LockTypes /\ LocksAgree /\ Locked
  BY DEF LockingInv
<1>1. k \in Key /\ Wants(j) \subseteq Key
  BY WantsKeys
<1>2. PICK base \in Balances : Explained(D, seen, base) /\ Founded(base, D, seen, wrote, balance)
  BY DEF LockingInv
<1>3. D \subseteq Job /\ j \in Job \ D /\ \A i \in Job \ D : ~ Through(i)
  BY DEF AllThrough
<1>4. \A i \in Job : /\ Reading(Jobs[i], seen[i]) /\ DOMAIN seen[i] \subseteq Key
                     /\ wrote[i] \subseteq DOMAIN Jobs[i].adds /\ wrote[i] \subseteq DOMAIN seen[i]
  BY <1>0, ReadsAll, WantsKeys DEF LockTypes
<1>5. \A i \in Job \ D : i # j /\ (Writer(i) \/ Writer(j)) => DOMAIN seen[i] \intersect Wants(j) = {}
  BY <1>3, Untouched
<1>6. k \notin DOMAIN seen[j] => balance[k] = base[k]
  <2> SUFFICES ASSUME k \notin DOMAIN seen[j], NEW i \in Job \ D, k \in wrote[i] PROVE FALSE
    BY <1>1, <1>2 DEF Founded
  <2>1. i # j
    BY <1>4
  <2>2. Writer(i) /\ k \in DOMAIN seen[i]
    BY <1>4 DEF Writer
  <2> QED
    BY <1>5, <2>1, <2>2
<1>7. \A l \in DOMAIN seen'[j] : l \in Key /\ seen'[j][l] = base[l]
  <2>1. \A l \in DOMAIN seen[j] : l \in Key /\ seen[j][l] = base[l]
    BY <1>2, <1>3, <1>4 DEF Founded
  <2>2. CASE seen'[j] = seen[j]
    BY <2>1, <2>2
  <2>3. CASE k \notin DOMAIN seen[j] /\ seen'[j] = With(seen[j], k, balance[k])
    BY <1>1, <1>6, <2>1, <2>3 DEF With
  <2> QED
    BY <2>2, <2>3
<1>8. DOMAIN seen[j] \subseteq DOMAIN seen'[j]
  BY DEF With
<1>9. balance \in [Key -> Int] /\ base \in [Key -> Int]
  BY <1>0 DEF LockTypes, Balances
<1>10. \/ balance' = balance /\ wrote'[j] = wrote[j]
       \/ /\ k \in DOMAIN Jobs[j].adds \ wrote[j]
          /\ wrote'[j] = wrote[j] \union {k}
          /\ balance'[k] = base[k] + Jobs[j].adds[k]
          /\ balance' \in [Key -> Int]
          /\ \A l \in Key : l # k => balance'[l] = balance[l]
  <2>1. \A l \in DOMAIN Jobs[j].adds : Jobs[j].adds[l] \in Int
    BY AddsFit
  <2> QED
    BY <1>1, <1>7, <1>9, <2>1
<1>11. Founded(base, D, seen', wrote', balance')
  <2>1. ASSUME NEW i \in Job \ D
        PROVE  /\ \A l \in DOMAIN seen'[i] : seen'[i][l] = base[l]
               /\ \A l \in wrote'[i] : balance'[l] = base[l] + Jobs[i].adds[l]
    <3>1. \A l \in wrote[i] : l \in Key /\ balance[l] = base[l] + Jobs[i].adds[l]
      BY <1>2, <1>4 DEF Founded
    <3>2. CASE i = j
      BY <1>7, <1>10, <3>1, <3>2
    <3>3. CASE i # j
      <4>1. seen'[i] = seen[i] /\ wrote'[i] = wrote[i]
        BY <3>3
      <4>2. \A l \in DOMAIN seen[i] : seen[i][l] = base[l]
        BY <1>2 DEF Founded
      <4>3. k \in wrote[i] => ~ Writer(j)
        BY <1>4, <1>5, <3>3
      <4>4. k \in DOMAIN Jobs[j].adds => Writer(j)
        BY DEF Writer
      <4>5. \A l \in wrote[i] : balance'[l] = balance[l]
        BY <1>10, <3>1, <4>3, <4>4
      <4> QED
        BY <3>1, <4>1, <4>2, <4>5
    <3> QED
      BY <3>2, <3>3
  <2>2. ASSUME NEW l \in Key, \A i \in Job \ D : l \notin wrote'[i] PROVE balance'[l] = base[l]
    <3>1. \A i \in Job \ D : l \notin wrote[i]
      BY <1>10, <2>2
    <3>2. balance[l] = base[l]
      BY <1>2, <3>1 DEF Founded
    <3>3. l \notin wrote'[j]
      BY <1>3, <2>2
    <3> QED
      BY <1>10, <3>2, <3>3
  <2> HIDE DEF D
  <2> QED
    BY <2>1, <2>2 DEF Founded
<1>12. LockTypes'
  <2>1. balance' \in Balances
    BY <1>9, <1>10 DEF Balances
  <2>2. \A i \in Job : /\ held'[i] \subseteq Wants(i)
                       /\ Reading(Jobs[i], seen'[i])
                       /\ wrote'[i] \subseteq DOMAIN Jobs[i].adds \intersect DOMAIN seen'[i]
    <3> SUFFICES ASSUME NEW i \in Job
                 PROVE  /\ held'[i] \subseteq Wants(i)
                        /\ Reading(Jobs[i], seen'[i])
                        /\ wrote'[i] \subseteq DOMAIN Jobs[i].adds \intersect DOMAIN seen'[i]
      OBVIOUS
    <3>1. held'[i] \subseteq Wants(i)
      BY <1>0 DEF LockTypes
    <3>2. CASE i = j
      BY <1>4, <1>8, <1>10, <3>1, <3>2
    <3>3. CASE i # j
      BY <1>4, <3>1, <3>3
    <3> QED
      BY <3>2, <3>3
  <2>3. /\ readers' \in [Key -> SUBSET Job] /\ writers' \in [Key -> SUBSET Job]
        /\ DOMAIN held' = Job
    BY <1>0 DEF LockTypes
  <2> QED
    BY <2>1, <2>2, <2>3 DEF LockTypes, Wants
<1>13. LocksAgree'
  BY <1>0 DEF LocksAgree, Writer
<1>14. \A i \in Job : i # j => (Through(i)' <=> Through(i))
  BY DEF Through
<1>15. Locked'
  <2> SUFFICES ASSUME NEW i \in Job, ~ Through(i)', DOMAIN seen'[i] # {} PROVE held[i] = Wants(i)
    BY DEF Locked, Wants
  <2> QED
    BY <1>0, <1>14 DEF Locked
<1>16. \E b \in Balances : /\ Explained(AllThrough', seen', b)
                           /\ Founded(b, AllThrough', seen', wrote', balance')
  <2>1. \A i \in D : seen'[i] = seen[i]
    BY <1>3
  <2>2. CASE ~ Through(j)'
    <3>1. AllThrough' = D
      BY <1>3, <1>14, <2>2 DEF AllThrough
    <3>2. Explained(D, seen', base)
      BY <1>2, <2>1, ExplainsSame DEF Explained
    <3> QED
      BY <1>11, <3>1, <3>2
  <2>3. CASE Through(j)'
    <3>1. AllThrough' = D \union {j}
      BY <1>3, <1>14, <2>3 DEF AllThrough
    <3>2. StillToRead(Jobs[j], seen'[j]) = {} /\ wrote'[j] = DOMAIN Jobs[j].adds
      BY <2>3 DEF Through
    <3>3. DOMAIN seen'[j] = Wants(j)
      BY <3>2, ReadsAll
    <3>4. ASSUME NEW i \in Job \ D, i # j
          PROVE  /\ wrote'[i] \subseteq DOMAIN seen'[i]
                 /\ DOMAIN seen'[i] \subseteq Key
                 /\ DOMAIN Jobs[j].adds \intersect DOMAIN seen'[i] = {}
      <4>1. seen'[i] = seen[i] /\ wrote'[i] = wrote[i]
        BY <3>4
      <4>2. DOMAIN Jobs[j].adds \intersect DOMAIN seen[i] = {}
        <5>1. DOMAIN Jobs[j].adds # {} => Writer(j)
          BY DEF Writer
        <5>2. DOMAIN Jobs[j].adds \subseteq Wants(j)
          BY AddsFit
        <5> QED
          BY <1>5, <3>4, <5>1, <5>2
      <4> QED
        BY <1>4, <4>1, <4>2
    <3> HIDE DEF D
    <3>5. \E b \in Balances : /\ Explained(D \union {j}, seen', b)
                              /\ Founded(b, D \union {j}, seen', wrote', balance')
      BY <1>2, <1>3, <1>11, <2>1, <3>2, <3>3, <3>4, FinishJob
    <3> QED
      BY <3>1, <3>5
  <2> QED
    BY <2>2, <2>3
<1> QED
  BY <1>12, <1>13, <1>15, <1>16 DEF LockingInv

LEMMA LockInv ==
    ASSUME JobsFit, LockingInv, NEW j \in Job, Locking!Lock(j)
    PROVE  LockingInv'
<1> DEFINE k == Min(Wants(j) \ held[j])
<1>1. /\ ~ Through(j)
      /\ held[j] # Wants(j)
      /\ writers[k] = {}
      /\ IF Writer(j)
         THEN readers[k] = {} /\ writers' = [writers EXCEPT ![k] = {j}] /\ readers' = readers
         ELSE readers' = [readers EXCEPT ![k] = @ \union {j}] /\ writers' = writers
      /\ held' = [held EXCEPT ![j] = @ \union {k}]
      /\ balance' = balance /\ seen' = seen /\ wrote' = wrote
  BY LockingSteps
<1>0. LockTypes /\ LocksAgree /\ Locked
  BY DEF LockingInv
<1>2. k \in Wants(j) /\ k \notin held[j] /\ k \in Key
  <2> DEFINE S == Wants(j) \ held[j]
  <2>1. S # {}
    BY <1>0, <1>1 DEF LockTypes
  <2>2. S \in SUBSET (1 .. Len(Opening)) /\ Len(Opening) \in Nat
    BY WantsKeys, KeysAre
  <2>3. Min(S) \in S
    <3> HIDE DEF S
    <3> QED
      BY <2>1, <2>2, MinIs
  <2> QED
    BY <2>3, WantsKeys
<1> HIDE DEF k
<1>3. /\ DOMAIN held' = Job
      /\ \A i \in Job : i # j => held'[i] = held[i]
      /\ held'[j] = held[j] \union {k}
  BY <1>0, <1>1 DEF LockTypes
<1>4. LockTypes'
  <2>1. readers' \in [Key -> SUBSET Job] /\ writers' \in [Key -> SUBSET Job]
    BY <1>0, <1>1, <1>2 DEF LockTypes
  <2>2. \A i \in Job : held'[i] \subseteq Wants(i)
    BY <1>0, <1>2, <1>3 DEF LockTypes
  <2> QED
    BY <1>0, <1>1, <1>3, <2>1, <2>2 DEF LockTypes, Wants
<1>5. ASSUME NEW i \in Job, i # j, k \in held[i] PROVE ~ Writer(i) /\ ~ Writer(j)
  BY <1>0, <1>1, <1>2, <1>5 DEF LocksAgree
<1>6. LocksAgree'
  <2>1. ASSUME NEW l \in Key
        PROVE  /\ writers'[l] = {i \in Job : Writer(i) /\ l \in held'[i]}
               /\ readers'[l] = {i \in Job : ~ Writer(i) /\ l \in held'[i]}
    <3>1. /\ writers[l] = {i \in Job : Writer(i) /\ l \in held[i]}
          /\ readers[l] = {i \in Job : ~ Writer(i) /\ l \in held[i]}
      BY <1>0 DEF LocksAgree
    <3>2. \A i \in Job : l \in held'[i] <=> (l \in held[i] \/ (i = j /\ l = k))
      BY <1>3
    <3>3. DOMAIN readers = Key /\ DOMAIN writers = Key
      BY <1>0 DEF LockTypes
    <3>4. CASE Writer(j)
      <4>1. readers' = readers /\ writers' = [writers EXCEPT ![k] = {j}] /\ writers[k] = {}
        BY <1>1, <3>4
      <4>2. writers'[l] = IF l = k THEN {j} ELSE writers[l]
        BY <1>2, <3>3, <4>1
      <4> QED
        BY <3>1, <3>2, <3>4, <4>1, <4>2
    <3>5. CASE ~ Writer(j)
      <4>1. writers' = writers /\ readers' = [readers EXCEPT ![k] = readers[k] \union {j}]
        BY <1>1, <3>5
      <4>2. readers'[l] = IF l = k THEN readers[l] \union {j} ELSE readers[l]
        BY <1>2, <3>3, <4>1
      <4> QED
        BY <3>1, <3>2, <3>5, <4>1, <4>2
    <3> QED
      BY <3>4, <3>5
  <2>2. ASSUME NEW i \in Job, NEW l \in Job, i # l, Writer(i) PROVE held'[i] \intersect held'[l] = {}
    <3>1. held[i] \intersect held[l] = {}
      BY <1>0, <2>2 DEF LocksAgree
    <3> QED
      BY <1>3, <1>5, <2>2, <3>1
  <2> QED
    BY <2>1, <2>2 DEF LocksAgree, Writer
<1>7. \A i \in Job : Through(i)' <=> Through(i)
  BY <1>1 DEF Through
<1>8. AllThrough' = AllThrough
  BY <1>7 DEF AllThrough
<1>9. Locked'
  <2> SUFFICES ASSUME NEW i \in Job, ~ Through(i), DOMAIN seen[i] # {} PROVE held'[i] = Wants(i)
    BY <1>1, <1>7 DEF Locked, Wants
  <2>1. held[i] = Wants(i)
    BY <1>0 DEF Locked
  <2> QED
    BY <1>1, <1>3, <2>1
<1>10. \E b \in Balances : /\ Explained(AllThrough', seen', b)
                           /\ Founded(b, AllThrough', seen', wrote', balance')
  BY <1>1, <1>8 DEF LockingInv
<1> QED
  BY <1>4, <1>6, <1>9, <1>10 DEF LockingInv

LEMMA UnlockInv ==
    ASSUME JobsFit, LockingInv, NEW j \in Job, Locking!Unlock(j)
    PROVE  LockingInv'
<1> DEFINE k == Max(held[j])
<1>1. /\ Through(j)
      /\ held[j] # {}
      /\ readers' = [readers EXCEPT ![k] = @ \ {j}]
      /\ writers' = [writers EXCEPT ![k] = @ \ {j}]
      /\ held' = [held EXCEPT ![j] = @ \ {k}]
      /\ balance' = balance /\ seen' = seen /\ wrote' = wrote
  BY LockingSteps
<1>0. LockTypes /\ LocksAgree /\ Locked
  BY DEF LockingInv
<1>2. k \in held[j] /\ k \in Key
  <2>1. held[j] \in SUBSET (1 .. Len(Opening)) /\ Len(Opening) \in Nat
    BY <1>0, WantsKeys, KeysAre DEF LockTypes
  <2>2. k \in held[j]
    BY <1>1, <2>1, MaxIs
  <2> QED
    BY <1>0, <2>2, WantsKeys DEF LockTypes
<1> HIDE DEF k
<1>3. /\ DOMAIN held' = Job
      /\ \A i \in Job : i # j => held'[i] = held[i]
      /\ held'[j] = held[j] \ {k}
  BY <1>0, <1>1 DEF LockTypes
<1>4. LockTypes'
  <2>1. readers' \in [Key -> SUBSET Job] /\ writers' \in [Key -> SUBSET Job]
    BY <1>0, <1>1, <1>2 DEF LockTypes
  <2>2. \A i \in Job : held'[i] \subseteq Wants(i)
    BY <1>0, <1>2, <1>3 DEF LockTypes
  <2> QED
    BY <1>0, <1>1, <1>3, <2>1, <2>2 DEF LockTypes, Wants
<1>6. LocksAgree'
  <2>1. ASSUME NEW l \in Key
        PROVE  /\ writers'[l] = {i \in Job : Writer(i) /\ l \in held'[i]}
               /\ readers'[l] = {i \in Job : ~ Writer(i) /\ l \in held'[i]}
    <3>1. /\ writers[l] = {i \in Job : Writer(i) /\ l \in held[i]}
          /\ readers[l] = {i \in Job : ~ Writer(i) /\ l \in held[i]}
      BY <1>0 DEF LocksAgree
    <3>2. \A i \in Job : l \in held'[i] <=> (l \in held[i] /\ ~ (i = j /\ l = k))
      BY <1>3
    <3>3. /\ readers'[l] = IF l = k THEN readers[l] \ {j} ELSE readers[l]
          /\ writers'[l] = IF l = k THEN writers[l] \ {j} ELSE writers[l]
      BY <1>0, <1>1, <1>2 DEF LockTypes
    <3> QED
      BY <3>1, <3>2, <3>3
  <2>2. ASSUME NEW i \in Job, NEW l \in Job, i # l, Writer(i) PROVE held'[i] \intersect held'[l] = {}
    <3>1. held[i] \intersect held[l] = {}
      BY <1>0, <2>2 DEF LocksAgree
    <3> QED
      BY <1>3, <2>2, <3>1
  <2> QED
    BY <2>1, <2>2 DEF LocksAgree, Writer
<1>7. \A i \in Job : Through(i)' <=> Through(i)
  BY <1>1 DEF Through
<1>8. AllThrough' = AllThrough
  BY <1>7 DEF AllThrough
<1>9. Locked'
  <2> SUFFICES ASSUME NEW i \in Job, ~ Through(i), DOMAIN seen[i] # {} PROVE held'[i] = Wants(i)
    BY <1>1, <1>7 DEF Locked, Wants
  <2>1. held[i] = Wants(i)
    BY <1>0 DEF Locked
  <2> QED
    BY <1>1, <1>3, <2>1
<1>10. \E b \in Balances : /\ Explained(AllThrough', seen', b)
                           /\ Founded(b, AllThrough', seen', wrote', balance')
  BY <1>1, <1>8 DEF LockingInv
<1> QED
  BY <1>4, <1>6, <1>9, <1>10 DEF LockingInv

LEMMA NextOfLocking ==
    ASSUME JobsFit, LockingInv, NEW j \in Job, StillToRead(Jobs[j], seen[j]) # {}
    PROVE  LET k == NextRead(Jobs[j], seen[j])
           IN  /\ k \in Wants(j) /\ k \notin DOMAIN seen[j]
               /\ k \in DOMAIN With(seen[j], k, balance[k])
               /\ With(seen[j], k, balance[k])[k] = balance[k]
               /\ Reading(Jobs[j], With(seen[j], k, balance[k]))
<1> DEFINE k == NextRead(Jobs[j], seen[j])
<1>1. Fits(Jobs[j]) /\ Reading(Jobs[j], seen[j])
  BY DEF JobsFit, LockingInv, LockTypes
<1>2. /\ k \in Key /\ k \in Wants(j) /\ k \notin DOMAIN seen[j]
      /\ \A value \in Int : Reading(Jobs[j], With(seen[j], k, value))
  BY <1>1, NextReadIs DEF Wants
<1>3. balance[k] \in Int
  BY <1>2 DEF LockingInv, LockTypes, Balances
<1> HIDE DEF k
<1>4. k \in DOMAIN With(seen[j], k, balance[k]) /\ With(seen[j], k, balance[k])[k] = balance[k]
  BY DEF With
<1>5. Reading(Jobs[j], With(seen[j], k, balance[k]))
  BY <1>2, <1>3
<1> QED
  BY <1>2, <1>4, <1>5 DEF k

LEMMA LookInv ==
    ASSUME JobsFit, NeverRefuse, LockingInv, NEW j \in Job, Locking!Look(j)
    PROVE  LockingInv'
<1> DEFINE k == NextRead(Jobs[j], seen[j])
<1>1. /\ held[j] = Wants(j) /\ StillToRead(Jobs[j], seen[j]) # {}
      /\ seen' = [seen EXCEPT ![j] = With(@, k, balance[k])]
      /\ UNCHANGED <<balance, readers, writers, held, wrote>>
  BY LockingSteps
<1>2. /\ k \in Wants(j) /\ k \notin DOMAIN seen[j]
      /\ k \in DOMAIN With(seen[j], k, balance[k])
      /\ Reading(Jobs[j], With(seen[j], k, balance[k]))
  BY <1>1, NextOfLocking
<1> HIDE DEF k
<1>3. DOMAIN seen = Job /\ DOMAIN wrote = Job
  BY DEF LockingInv, LockTypes
<1>4. /\ DOMAIN seen' = Job /\ DOMAIN wrote' = Job /\ seen'[j] = With(seen[j], k, balance[k])
      /\ \A i \in Job : i # j => seen'[i] = seen[i] /\ wrote'[i] = wrote[i]
      /\ balance' = balance /\ wrote'[j] = wrote[j]
  BY <1>1, <1>3
<1>5. ~ Through(j) /\ UNCHANGED <<readers, writers, held>>
  BY <1>1 DEF Through
<1> QED
  BY <1>1, <1>2, <1>4, <1>5, AccessInv

LEMMA OverwriteInv ==
    ASSUME JobsFit, NeverRefuse, Locking!KindsFit, LockingInv, NEW j \in Job, Locking!Overwrite(j)
    PROVE  LockingInv'
<1>1. /\ Jobs[j].kind = "deposit" /\ UNCHANGED <<readers, writers, held, seen>>
      /\ \E k \in DOMAIN seen[j] \ wrote[j] :
           /\ balance' = [balance EXCEPT ![k] = seen[j][k] + Jobs[j].adds[k]]
           /\ wrote' = [wrote EXCEPT ![j] = @ \union {k}]
  BY LockingSteps
<1>2. PICK k \in DOMAIN seen[j] \ wrote[j] :
           /\ balance' = [balance EXCEPT ![k] = seen[j][k] + Jobs[j].adds[k]]
           /\ wrote' = [wrote EXCEPT ![j] = wrote[j] \union {k}]
  BY <1>1
<1>3. DOMAIN seen = Job /\ DOMAIN wrote = Job /\ Reading(Jobs[j], seen[j]) /\ Locked
  BY DEF LockingInv, LockTypes
<1>4. k \in Wants(j)
  BY <1>3, ReadsAll
<1>5. k \in DOMAIN Jobs[j].adds
  BY <1>1, <1>4 DEF Locking!KindsFit, Locking!Touched, Locking!Range, Wants, Range, Locking!Job, Job
<1>6. ~ Through(j)
  BY <1>5 DEF Through
<1>7. held[j] = Wants(j)
  BY <1>3, <1>6 DEF Locked
<1>8. /\ DOMAIN seen' = Job /\ DOMAIN wrote' = Job /\ seen'[j] = seen[j]
      /\ \A i \in Job : i # j => seen'[i] = seen[i] /\ wrote'[i] = wrote[i]
      /\ wrote'[j] = wrote[j] \union {k}
  BY <1>1, <1>2, <1>3
<1>9. UNCHANGED <<readers, writers, held>> /\ balance' = [balance EXCEPT ![k] = seen'[j][k] + Jobs[j].adds[k]]
  BY <1>1, <1>2
<1>10. k \in DOMAIN seen'[j] /\ Reading(Jobs[j], seen'[j]) /\ k \in DOMAIN Jobs[j].adds \ wrote[j]
  BY <1>3, <1>5, <1>8
<1> QED
  BY <1>4, <1>6, <1>7, <1>8, <1>9, <1>10, AccessInv

LEMMA AdjustInv ==
    ASSUME JobsFit, NeverRefuse, Locking!KindsFit, LockingInv, NEW j \in Job, Locking!Adjust(j)
    PROVE  LockingInv'
<1> DEFINE k == NextRead(Jobs[j], seen[j])
<1>1. /\ Jobs[j].kind = "transfer" /\ held[j] = Wants(j) /\ StillToRead(Jobs[j], seen[j]) # {}
      /\ seen' = [seen EXCEPT ![j] = With(@, k, balance[k])]
      /\ balance' = [balance EXCEPT ![k] = @ + Jobs[j].adds[k]]
      /\ wrote' = [wrote EXCEPT ![j] = @ \union {k}]
      /\ UNCHANGED <<readers, writers, held>>
  BY LockingSteps
<1>2. /\ k \in Wants(j) /\ k \notin DOMAIN seen[j]
      /\ k \in DOMAIN With(seen[j], k, balance[k]) /\ With(seen[j], k, balance[k])[k] = balance[k]
      /\ Reading(Jobs[j], With(seen[j], k, balance[k]))
  BY <1>1, NextOfLocking
<1> HIDE DEF k
<1>3. DOMAIN seen = Job /\ DOMAIN wrote = Job /\ wrote[j] \subseteq DOMAIN seen[j]
  BY DEF LockingInv, LockTypes
<1>4. k \in DOMAIN Jobs[j].adds \ wrote[j]
  BY <1>1, <1>2, <1>3 DEF Locking!KindsFit, Locking!Touched, Locking!Range, Wants, Range, Locking!Job, Job
<1>5. /\ DOMAIN seen' = Job /\ DOMAIN wrote' = Job /\ seen'[j] = With(seen[j], k, balance[k])
      /\ \A i \in Job : i # j => seen'[i] = seen[i] /\ wrote'[i] = wrote[i]
      /\ wrote'[j] = wrote[j] \union {k}
  BY <1>1, <1>3
<1>6. ~ Through(j)
  BY <1>1 DEF Through
<1>7. balance' = [balance EXCEPT ![k] = seen'[j][k] + Jobs[j].adds[k]]
  BY <1>1, <1>2, <1>5
<1>8. k \in DOMAIN seen'[j] /\ Reading(Jobs[j], seen'[j]) /\ held[j] = Wants(j)
      /\ UNCHANGED <<readers, writers, held>>
  BY <1>1, <1>2, <1>5
<1> QED
  BY <1>2, <1>4, <1>5, <1>6, <1>7, <1>8, AccessInv

LEMMA LockingStep ==
    ASSUME JobsFit, NeverRefuse, Locking!KindsFit, LockingInv, [Locking!Next]_(Locking!vars)
    PROVE  LockingInv'
<1>1. CASE UNCHANGED Locking!vars
  <2>1. UNCHANGED <<balance, readers, writers, held, seen, wrote>>
    BY <1>1 DEF Locking!vars
  <2>2. \A j \in Job : Through(j)' <=> Through(j)
    BY <2>1 DEF Through
  <2>3. AllThrough' = AllThrough
    BY <2>2 DEF AllThrough
  <2>4. LockTypes => LockTypes'
    BY <2>1 DEF LockTypes, Wants
  <2>5. LocksAgree => LocksAgree'
    BY <2>1 DEF LocksAgree, Writer
  <2>6. Locked => Locked'
    BY <2>1, <2>2 DEF Locked, Wants
  <2> QED
    BY <2>1, <2>3, <2>4, <2>5, <2>6 DEF LockingInv
<1>2. CASE Locking!Next
  <2>1. PICK j \in Job : \/ Locking!Lock(j) \/ Locking!Look(j) \/ Locking!Overwrite(j)
                         \/ Locking!Adjust(j) \/ Locking!Unlock(j)
    BY <1>2 DEF Locking!Next, Locking!Step, Locking!Job, Job
  <2> QED
    BY <2>1, LockInv, LookInv, OverwriteInv, AdjustInv, UnlockInv
<1> QED
  BY <1>1, <1>2

LEMMA LockingSerial ==
    ASSUME NEW finished, NEW saw, NEW whole, NEW bal
    PROVE  Locking!Serial(finished, saw, whole, bal) <=> Serial(finished, saw, whole, bal)
BY DEF Locking!Serial, Serial, Locking!OneByOne, OneByOne, Locking!LeftAlone, LeftAlone,
       Locking!SeenAlone, SeenAlone, Locking!Refused, Refused, Locking!Restrict, Restrict,
       Locking!Range, Range, Locking!SetToSeqs, SetToSeqs, Locking!Key, Key,
       Locking!MapThenSumSet, MapThenSumSet, Locking!MapThenFoldSet, MapThenFoldSet,
       Locking!Cardinality, Cardinality

LEMMA LockingResult ==
    ASSUME LockingInv
    PROVE  Locking!Serializable
<1> DEFINE whole == \A j \in Job \ AllThrough : wrote[j] = {}
<1>1. PICK base \in Balances : Explained(AllThrough, seen, base)
                               /\ Founded(base, AllThrough, seen, wrote, balance)
  BY DEF LockingInv
<1>2. whole => base = balance
  <2> SUFFICES ASSUME whole PROVE base = balance
    OBVIOUS
  <2>1. \A k \in Key : balance[k] = base[k]
    BY <1>1 DEF Founded
  <2>2. balance \in Balances
    BY DEF LockingInv, LockTypes
  <2> QED
    BY <2>1, <2>2 DEF Balances
<1> HIDE DEF whole
<1>3. Serial(AllThrough, seen, whole, balance)
  BY <1>1, <1>2, ExplainedSerial
<1>4. Locking!Serial(AllThrough, seen, whole, balance)
  BY <1>3, LockingSerial
<1>5. \A j \in Job : Locking!Accessed(j) <=> Through(j)
  BY LockingSteps
<1>6. {j \in Job : Locking!Accessed(j)} = AllThrough
  BY <1>5 DEF AllThrough
<1>7. Locking!Job = Job
  BY DEF Locking!Job, Job
<1> QED
  BY <1>4, <1>6, <1>7 DEF Locking!Serializable, whole

\* Whatever the accounts and the jobs, the jobs of the programs with locks that
\* have touched all their accounts have seen what they would have seen one
\* after the other, and so are the balances when no job is in the middle,
\* although the locks are given back one by one.
THEOREM LockingSerializable ==
    ASSUME JobsFit, NeverRefuse, Locking!KindsFit
    PROVE  Locking!Spec => []Locking!Serializable
<1>1. Locking!Init => LockingInv
  BY LockingStart
<1>2. LockingInv /\ [Locking!Next]_(Locking!vars) => LockingInv'
  BY LockingStep
<1>3. LockingInv => Locking!Serializable
  BY LockingResult
<1> QED
  BY <1>1, <1>2, <1>3, PTL DEF Locking!Spec

-----------------------------------------------------------------------------
(* Snapshots. *)

Version == [ts : Nat, value : Int]

\* What of versions is shown to a snapshot of moment t.
Shown(versions, t) == versions[Max({i \in DOMAIN versions : versions[i].ts <= t})].value

Versions(versions) ==
    versions \in Seq(Version) /\ Len(versions) # 0 /\ versions[1].ts = 0

LEMMA VersionsType ==
    ASSUME NEW versions, Versions(versions)
    PROVE  \A i \in DOMAIN versions : versions[i].ts \in Nat
<1>1. \A i \in DOMAIN versions : versions[i] \in Version
  BY DEF Versions
<1> QED
  BY <1>1 DEF Version

LEMMA ShownIs ==
    ASSUME NEW versions, Versions(versions), NEW t \in Nat
    PROVE  /\ Shown(versions, t) \in Int
           /\ (\A i \in DOMAIN versions : versions[i].ts <= t) => Shown(versions, t) = Last(versions).value
           /\ \A v \in Version : v.ts > t =>
                Versions(Append(versions, v)) /\ Shown(Append(versions, v), t) = Shown(versions, t)
<1> DEFINE S == {i \in DOMAIN versions : versions[i].ts <= t}
           n == Len(versions)
<1>1. n \in Nat /\ n # 0 /\ DOMAIN versions = 1 .. n /\ \A i \in 1 .. n : versions[i] \in Version
  BY DEF Versions
<1>2. 1 \in S
  BY <1>1 DEF Versions
<1>3. Max(S) \in S /\ \A i \in S : i <= Max(S)
  <2>1. S \in SUBSET (1 .. n) /\ S # {}
    BY <1>1, <1>2
  <2> HIDE DEF S, n
  <2> QED
    BY <1>1, <2>1, MaxIs
<1>4. Shown(versions, t) = versions[Max(S)].value
  BY DEF Shown
<1>5. Shown(versions, t) \in Int
  BY <1>1, <1>3, <1>4 DEF Version
<1>6. ASSUME \A i \in DOMAIN versions : versions[i].ts <= t
      PROVE  Shown(versions, t) = Last(versions).value
  <2>1. n \in S
    BY <1>1, <1>6
  <2>2. Max(S) \in 1 .. n
    BY <1>1, <1>3
  <2> HIDE DEF S
  <2>3. Max(S) = n
    BY <1>1, <1>3, <2>1, <2>2
  <2> QED
    BY <1>4, <2>3 DEF Last
<1>7. ASSUME NEW v \in Version, v.ts > t
      PROVE  Versions(Append(versions, v)) /\ Shown(Append(versions, v), t) = Shown(versions, t)
  <2> DEFINE w == Append(versions, v)
  <2>0. versions \in Seq(Version)
    BY DEF Versions
  <2>1. w \in Seq(Version) /\ Len(w) = n + 1 /\ \A i \in 1 .. n : w[i] = versions[i]
    BY <2>0
  <2>2. w[n + 1] = v /\ DOMAIN w = 1 .. n + 1
    BY <1>1 DEF Versions
  <2> HIDE DEF w
  <2>3. 1 \in 1 .. n
    BY <1>1
  <2>4. Versions(w)
    BY <1>1, <2>1, <2>3 DEF Versions
  <2>5. {i \in DOMAIN w : w[i].ts <= t} = S
    <3>1. ~ (w[n + 1].ts <= t)
      BY <1>7, <2>2 DEF Version
    <3>2. \A i \in 1 .. n + 1 : i \in 1 .. n \/ i = n + 1
      BY <1>1
    <3>3. \A i \in 1 .. n : i \in 1 .. n + 1
      BY <1>1
    <3> HIDE DEF n
    <3> QED
      BY <1>1, <2>1, <2>2, <3>1, <3>2, <3>3
  <2>6. Shown(w, t) = w[Max(S)].value
    BY <2>5 DEF Shown
  <2>7. Max(S) \in 1 .. n
    BY <1>1, <1>3
  <2> QED
    BY <1>4, <2>1, <2>4, <2>6, <2>7 DEF w
<1> QED
  BY <1>5, <1>6, <1>7

Newest == [k \in Key |-> Last(data[k]).value]
Moment(t) == [k \in Key |-> Shown(data[k], t)]
Over == {j \in Job : tx[j].state = "done"}
Viewed == [j \in Job |-> tx[j].seen]

\* What a job has seen is of the moment of its snapshot: all of it, or what made
\* it give up, if it has finished.
OfItsMoment(j) ==
    /\ DOMAIN tx[j] = {"state", "snapshot", "seen"}
    /\ tx[j].state \in {"idle", "running", "done"}
    /\ tx[j].snapshot \in 0 .. clock
    /\ Reading(Jobs[j], tx[j].seen)
    /\ \A k \in DOMAIN tx[j].seen : tx[j].seen[k] = Shown(data[k], tx[j].snapshot)
    /\ tx[j].state = "idle" => DOMAIN tx[j].seen = {}
    /\ tx[j].state = "running" =>
         /\ ~ Refused(Jobs[j], tx[j].seen)
         /\ DOMAIN Jobs[j].adds = {} => StillToRead(Jobs[j], tx[j].seen) # {}

SnapshotInv ==
    /\ clock \in Nat
    /\ DOMAIN data = Key
    /\ \A k \in Key : Versions(data[k]) /\ \A i \in DOMAIN data[k] : data[k][i].ts <= clock
    /\ DOMAIN tx = Job
    /\ \A j \in Job : OfItsMoment(j)

LEMMA MomentIs ==
    ASSUME SnapshotInv, NEW t \in Nat
    PROVE  /\ Moment(t) \in Balances
           /\ Moment(clock) = Newest
           /\ Newest \in Balances
<1>1. \A k \in Key : Shown(data[k], t) \in Int
  BY ShownIs DEF SnapshotInv
<1>2. \A k \in Key : Shown(data[k], clock) = Last(data[k]).value /\ Shown(data[k], clock) \in Int
  BY ShownIs DEF SnapshotInv
<1>3. Moment(t) \in Balances
  BY <1>1 DEF Moment, Balances
<1>4. Moment(clock) = Newest /\ Newest \in Balances
  BY <1>2 DEF Moment, Newest, Balances
<1> QED
  BY <1>3, <1>4

LEMMA MomentNext ==
    ASSUME SnapshotInv'
    PROVE  (Moment(clock) = Newest)'
<1>1. \A k \in Key : Shown(data'[k], clock') = Last(data'[k]).value
  BY ShownIs DEF SnapshotInv
<1> QED
  BY <1>1 DEF Moment, Newest

\* A job that has read all, or has given up, has seen what it would have alone.
LEMMA SeenIsAlone ==
    ASSUME NEW job, Fits(job), NEW b \in Balances, NEW s, Reading(job, s),
           \A k \in DOMAIN s : s[k] = b[k],
           \/ Refused(job, s) /\ DOMAIN s = job.covers
           \/ ~ Refused(job, s) /\ StillToRead(job, s) = {}
    PROVE  s = SeenAlone(job, b) /\ (Refused(job, b) <=> Refused(job, s))
<1>1. s = [k \in DOMAIN s |-> s[k]]
  BY DEF Reading
<1>2. DOMAIN s \subseteq Range(job.reads) /\ Range(job.reads) \subseteq Key
  BY DEF Reading, Range, Fits
<1>3. StillToRead(job, s) = {} => DOMAIN s = Range(job.reads)
  BY <1>2 DEF StillToRead, Range
<1>4. DOMAIN b = Key
  BY DEF Balances
<1>5. job.covers \subseteq DOMAIN s
  BY <1>3 DEF Fits
<1>6. Refused(job, b) <=> Refused(job, s)
  <2>1. job.covers \subseteq DOMAIN b /\ \A k \in job.covers : s[k] = b[k]
    BY <1>2, <1>4, <1>5
  <2> QED
    BY <1>5, <2>1, RefusedSame
<1>7. s = Restrict(b, DOMAIN s)
  BY <1>1 DEF Restrict
<1>8. DOMAIN s = IF Refused(job, b) THEN job.covers ELSE Range(job.reads)
  BY <1>3, <1>6
<1> QED
  BY <1>6, <1>7, <1>8 DEF SeenAlone

LEMMA SnapshotSteps ==
    ASSUME NEW j \in Job
    PROVE  /\ Snapshot!Begin(j) =>
                /\ tx[j].state = "idle"
                /\ tx' = [tx EXCEPT ![j].state = "running", ![j].snapshot = clock]
                /\ clock' = clock /\ data' = data
           /\ Snapshot!Read(j) =>
                LET k == NextRead(Jobs[j], tx[j].seen)
                    s == With(tx[j].seen, k, Shown(data[k], tx[j].snapshot))
                    over == \/ Refused(Jobs[j], s)
                            \/ Jobs[j].adds = Nothing /\ StillToRead(Jobs[j], s) = {}
                IN  /\ tx[j].state = "running"
                    /\ StillToRead(Jobs[j], tx[j].seen) # {}
                    /\ tx' = [tx EXCEPT ![j].seen = s,
                                        ![j].state = IF over THEN "done" ELSE "running"]
                    /\ clock' = clock /\ data' = data
           /\ Snapshot!Commit(j) =>
                /\ tx[j].state = "running" /\ StillToRead(Jobs[j], tx[j].seen) = {}
                /\ \A k \in DOMAIN Jobs[j].adds : \A i \in DOMAIN data[k] : data[k][i].ts <= tx[j].snapshot
                /\ clock' = clock + 1
                /\ data' = [k \in Key |->
                              IF k \in DOMAIN Jobs[j].adds
                              THEN Append(data[k], [ts |-> clock + 1,
                                                    value |-> tx[j].seen[k] + Jobs[j].adds[k]])
                              ELSE data[k]]
                /\ tx' = [tx EXCEPT ![j].state = "done"]
           /\ Snapshot!Conflict(j) =>
                /\ tx[j].state = "running"
                /\ tx' = [tx EXCEPT ![j] = [state |-> "idle", snapshot |-> 0, seen |-> Nothing]]
                /\ clock' = clock /\ data' = data
<1>1. \A job, s : Snapshot!StillToRead(job, s) = StillToRead(job, s)
  BY DEF Snapshot!StillToRead, StillToRead
<1>2. \A job, s : Snapshot!NextRead(job, s) = NextRead(job, s)
  BY <1>1 DEF Snapshot!NextRead, NextRead, Snapshot!Min, Min
<1>3. \A s, k, v : Snapshot!With(s, k, v) = With(s, k, v)
  BY DEF Snapshot!With, With
<1>4. \A job, s : Snapshot!Refused(job, s) <=> Refused(job, s)
  BY DEF Snapshot!Refused, Refused, Snapshot!MapThenSumSet, MapThenSumSet,
         Snapshot!MapThenFoldSet, MapThenFoldSet
<1>5. \A k, t : Snapshot!ReadAt(k, t) = Shown(data[k], t)
  BY DEF Snapshot!ReadAt, Shown, Snapshot!Max, Max
<1>6. Snapshot!Nothing = Nothing /\ Snapshot!Key = Key
  BY DEF Snapshot!Nothing, Nothing, Snapshot!Key, Key
<1>7. ASSUME Snapshot!Begin(j)
      PROVE  /\ tx[j].state = "idle"
             /\ tx' = [tx EXCEPT ![j].state = "running", ![j].snapshot = clock]
             /\ clock' = clock /\ data' = data
  BY <1>7 DEF Snapshot!Begin
<1>8. ASSUME Snapshot!Read(j)
      PROVE  LET k == NextRead(Jobs[j], tx[j].seen)
                 s == With(tx[j].seen, k, Shown(data[k], tx[j].snapshot))
                 over == \/ Refused(Jobs[j], s)
                         \/ Jobs[j].adds = Nothing /\ StillToRead(Jobs[j], s) = {}
             IN  /\ tx[j].state = "running"
                 /\ StillToRead(Jobs[j], tx[j].seen) # {}
                 /\ tx' = [tx EXCEPT ![j].seen = s,
                                     ![j].state = IF over THEN "done" ELSE "running"]
                 /\ clock' = clock /\ data' = data
  BY <1>1, <1>2, <1>3, <1>4, <1>5, <1>6, <1>8 DEF Snapshot!Read
<1>9. ASSUME Snapshot!Commit(j)
      PROVE  /\ tx[j].state = "running" /\ StillToRead(Jobs[j], tx[j].seen) = {}
             /\ \A k \in DOMAIN Jobs[j].adds : \A i \in DOMAIN data[k] : data[k][i].ts <= tx[j].snapshot
             /\ clock' = clock + 1
             /\ data' = [k \in Key |->
                           IF k \in DOMAIN Jobs[j].adds
                           THEN Append(data[k], [ts |-> clock + 1,
                                                 value |-> tx[j].seen[k] + Jobs[j].adds[k]])
                           ELSE data[k]]
             /\ tx' = [tx EXCEPT ![j].state = "done"]
  BY <1>1, <1>6, <1>9 DEF Snapshot!Commit, Snapshot!ReadyToCommit, Snapshot!First, Snapshot!Written
<1>10. ASSUME Snapshot!Conflict(j)
       PROVE  /\ tx[j].state = "running"
              /\ tx' = [tx EXCEPT ![j] = [state |-> "idle", snapshot |-> 0, seen |-> Nothing]]
              /\ clock' = clock /\ data' = data
  BY <1>6, <1>10 DEF Snapshot!Conflict, Snapshot!ReadyToCommit, Snapshot!NotBegun
<1> QED
  BY <1>7, <1>8, <1>9, <1>10

LEMMA SnapshotStart ==
    ASSUME JobsFit, Snapshot!Init
    PROVE  SnapshotInv /\ Over = {} /\ Newest = Opening
<1>1. /\ clock = 0 /\ data = [k \in Key |-> <<[ts |-> 0, value |-> Opening[k]]>>]
      /\ tx = [j \in Job |-> [state |-> "idle", snapshot |-> 0, seen |-> Nothing]]
  BY DEF Snapshot!Init, Snapshot!Key, Key, Snapshot!Job, Job, Snapshot!NotBegun, Snapshot!Nothing, Nothing
<1>2. Opening \in Balances
  BY OpeningType
<1>3. ASSUME NEW k \in Key
      PROVE  /\ Versions(data[k]) /\ \A i \in DOMAIN data[k] : data[k][i].ts <= clock
             /\ Last(data[k]).value = Opening[k]
  <2>1. [ts |-> 0, value |-> Opening[k]] \in Version
    BY <1>2 DEF Version, Balances
  <2>2. data[k] = <<[ts |-> 0, value |-> Opening[k]]>>
    BY <1>1
  <2> QED
    BY <1>1, <2>1, <2>2 DEF Versions, Last
<1>4. \A j \in Job : OfItsMoment(j) /\ tx[j].state = "idle"
  BY <1>1, NothingIsReading DEF OfItsMoment
<1>5. Newest = Opening
  BY <1>2, <1>3 DEF Newest, Balances
<1> QED
  BY <1>1, <1>3, <1>4, <1>5 DEF SnapshotInv, Over

\* Where the clock and the data stay, and one job moves.
LEMMA SnapshotMove ==
    ASSUME SnapshotInv, NEW j \in Job, clock' = clock, data' = data, DOMAIN tx' = Job,
           \A i \in Job : i # j => tx'[i] = tx[i], OfItsMoment(j)'
    PROVE  SnapshotInv'
<1>1. \A i \in Job : i # j => OfItsMoment(i)'
  <2> SUFFICES ASSUME NEW i \in Job, i # j PROVE OfItsMoment(i)'
    OBVIOUS
  <2>1. OfItsMoment(i) /\ tx'[i] = tx[i] /\ clock' = clock /\ data' = data
    BY DEF SnapshotInv
  <2> QED
    BY <2>1 DEF OfItsMoment
<1> QED
  BY <1>1 DEF SnapshotInv

LEMMA SnapshotBeginInv ==
    ASSUME JobsFit, SnapshotInv, NEW j \in Job, Snapshot!Begin(j)
    PROVE  /\ SnapshotInv' /\ Over' = Over /\ j \notin Over
           /\ \A i \in Job : i # j => tx'[i] = tx[i]
           /\ clock' = clock /\ data' = data
<1>1. /\ tx[j].state = "idle" /\ clock' = clock /\ data' = data
      /\ tx' = [tx EXCEPT ![j].state = "running", ![j].snapshot = clock]
  BY SnapshotSteps
<1>2. OfItsMoment(j) /\ DOMAIN tx = Job /\ clock \in Nat /\ Fits(Jobs[j])
  BY DEF SnapshotInv, JobsFit
<1>3. DOMAIN tx[j] = {"state", "snapshot", "seen"}
  BY <1>2 DEF OfItsMoment
<1>4. /\ DOMAIN tx' = Job /\ \A i \in Job : i # j => tx'[i] = tx[i]
      /\ DOMAIN tx'[j] = {"state", "snapshot", "seen"}
      /\ tx'[j].state = "running" /\ tx'[j].snapshot = clock /\ tx'[j].seen = tx[j].seen
  BY <1>1, <1>2, <1>3
<1>5. DOMAIN tx[j].seen = {} /\ Reading(Jobs[j], tx[j].seen)
  BY <1>1, <1>2 DEF OfItsMoment
<1>6. ~ Refused(Jobs[j], tx[j].seen)
  <2>1. CASE Jobs[j].covers = {}
    BY <1>2, <2>1, WithoutCovers
  <2>2. CASE Jobs[j].covers # {}
    BY <1>5, <2>2 DEF Refused
  <2> QED
    BY <2>1, <2>2
<1>7. StillToRead(Jobs[j], tx[j].seen) # {}
  BY <1>5, ReadsAll, WantsKeys
<1>8. OfItsMoment(j)'
  BY <1>1, <1>2, <1>4, <1>5, <1>6, <1>7 DEF OfItsMoment
<1>9. SnapshotInv'
  BY <1>1, <1>4, <1>8, SnapshotMove
<1>10. Over' = Over /\ j \notin Over
  BY <1>1, <1>4 DEF Over
<1> QED
  BY <1>1, <1>4, <1>9, <1>10

LEMMA SnapshotConflictInv ==
    ASSUME JobsFit, SnapshotInv, NEW j \in Job, Snapshot!Conflict(j)
    PROVE  /\ SnapshotInv' /\ Over' = Over /\ j \notin Over
           /\ \A i \in Job : i # j => tx'[i] = tx[i]
           /\ clock' = clock /\ data' = data
<1>1. /\ tx[j].state = "running" /\ clock' = clock /\ data' = data
      /\ tx' = [tx EXCEPT ![j] = [state |-> "idle", snapshot |-> 0, seen |-> Nothing]]
  BY SnapshotSteps
<1>2. DOMAIN tx = Job /\ clock \in Nat
  BY DEF SnapshotInv
<1>4. /\ DOMAIN tx' = Job /\ \A i \in Job : i # j => tx'[i] = tx[i]
      /\ DOMAIN tx'[j] = {"state", "snapshot", "seen"}
      /\ tx'[j].state = "idle" /\ tx'[j].snapshot = 0 /\ tx'[j].seen = Nothing
  BY <1>1, <1>2
<1>5. DOMAIN tx'[j].seen = {} /\ Reading(Jobs[j], tx'[j].seen)
  BY <1>4, NothingIsReading
<1>8. OfItsMoment(j)'
  BY <1>1, <1>2, <1>4, <1>5 DEF OfItsMoment
<1>9. SnapshotInv'
  BY <1>1, <1>4, <1>8, SnapshotMove
<1>10. Over' = Over /\ j \notin Over
  BY <1>1, <1>4 DEF Over
<1> QED
  BY <1>1, <1>4, <1>9, <1>10

\* A job that ends with a read has given up, or writes nothing.
LEMMA SnapshotReadInv ==
    ASSUME JobsFit, SnapshotInv, NEW j \in Job, Snapshot!Read(j)
    PROVE  /\ SnapshotInv' /\ j \notin Over
           /\ \A i \in Job : i # j => tx'[i] = tx[i]
           /\ clock' = clock /\ data' = data
           /\ tx'[j].snapshot = tx[j].snapshot /\ tx[j].snapshot \in 0 .. clock
           /\ \/ Over' = Over
              \/ /\ Over' = Over \union {j}
                 /\ tx'[j].seen = SeenAlone(Jobs[j], Moment(tx[j].snapshot))
                 /\ LeftAlone(Jobs[j], Moment(tx[j].snapshot)) = Moment(tx[j].snapshot)
                 /\ Refused(Jobs[j], tx'[j].seen) \/ DOMAIN Jobs[j].adds = {}
<1> DEFINE job == Jobs[j]
           saw == tx[j].seen
           t == tx[j].snapshot
           k == NextRead(job, saw)
           s == With(saw, k, Shown(data[k], t))
           over == Refused(job, s) \/ (job.adds = Nothing /\ StillToRead(job, s) = {})
<1>1. /\ tx[j].state = "running" /\ StillToRead(job, saw) # {}
      /\ tx' = [tx EXCEPT ![j].seen = s, ![j].state = IF over THEN "done" ELSE "running"]
      /\ clock' = clock /\ data' = data
  BY SnapshotSteps
<1>2. OfItsMoment(j) /\ DOMAIN tx = Job /\ clock \in Nat /\ Fits(job)
  BY DEF SnapshotInv, JobsFit
<1>3. /\ DOMAIN tx[j] = {"state", "snapshot", "seen"} /\ t \in 0 .. clock /\ Reading(job, saw)
      /\ \A l \in DOMAIN saw : saw[l] = Shown(data[l], t)
      /\ ~ Refused(job, saw)
  BY <1>1, <1>2 DEF OfItsMoment
<1>4. /\ k \in Key /\ k \notin DOMAIN saw /\ (k \in job.covers => DOMAIN saw \subseteq job.covers)
      /\ \A value \in Int : Reading(job, With(saw, k, value))
  BY <1>1, <1>2, <1>3, NextReadIs
<1>5. t \in Nat /\ Shown(data[k], t) \in Int
  BY <1>2, <1>3, <1>4, ShownIs DEF SnapshotInv
<1>6. Reading(job, s)
  BY <1>4, <1>5
<1> HIDE DEF k
<1>7. /\ DOMAIN s = DOMAIN saw \union {k}
      /\ \A l \in DOMAIN s : s[l] = Shown(data[l], t)
      /\ \A l \in DOMAIN saw : s[l] = saw[l]
  BY <1>3, <1>4 DEF With
<1> HIDE DEF s
<1>8. /\ DOMAIN tx' = Job /\ \A i \in Job : i # j => tx'[i] = tx[i]
      /\ DOMAIN tx'[j] = {"state", "snapshot", "seen"}
      /\ tx'[j].state = (IF over THEN "done" ELSE "running") /\ tx'[j].snapshot = t /\ tx'[j].seen = s
  BY <1>1, <1>2, <1>3
<1>9. DOMAIN job.adds = {} => job.adds = Nothing
  <2>1. job.adds = [l \in DOMAIN job.adds |-> job.adds[l]]
    BY <1>2 DEF Fits
  <2> QED
    BY <2>1 DEF Nothing
<1>10. OfItsMoment(j)'
  <2>1. tx'[j].state = "running" => ~ over
    BY <1>8
  <2>2. tx'[j].state = "running" => /\ ~ Refused(job, s)
                                    /\ DOMAIN job.adds = {} => StillToRead(job, s) # {}
    BY <1>9, <2>1
  <2>3. tx'[j].state \in {"running", "done"}
    BY <1>8
  <2> HIDE DEF over, job
  <2> QED
    BY <1>1, <1>3, <1>6, <1>7, <1>8, <2>2, <2>3 DEF OfItsMoment, job
<1>11. SnapshotInv'
  BY <1>1, <1>8, <1>10, SnapshotMove
<1>12. j \notin Over
  BY <1>1 DEF Over
<1>13. CASE ~ over
  <2>1. Over' = Over
    BY <1>1, <1>8, <1>13 DEF Over
  <2> QED
    BY <1>1, <1>3, <1>8, <1>11, <1>12, <2>1
<1>14. CASE over
  <2> DEFINE b == Moment(t)
  <2>1. Over' = Over \union {j}
    BY <1>8, <1>14 DEF Over
  <2>2. b \in Balances
    BY <1>5, MomentIs
  <2>3. \A l \in DOMAIN s : s[l] = b[l]
    <3>1. DOMAIN s \subseteq Key
      BY <1>2, <1>6 DEF Reading, Fits
    <3> QED
      BY <1>7, <3>1 DEF Moment
  <2>4. Refused(job, s) => DOMAIN s = job.covers
    <3> SUFFICES ASSUME Refused(job, s) PROVE DOMAIN s = job.covers
      OBVIOUS
    <3>1. job.covers \subseteq DOMAIN s
      BY DEF Refused
    <3>2. ~ (job.covers \subseteq DOMAIN saw)
      <4> SUFFICES ASSUME job.covers \subseteq DOMAIN saw PROVE FALSE
        OBVIOUS
      <4>1. \A l \in job.covers : s[l] = saw[l]
        BY <1>7
      <4>2. Refused(job, s) <=> Refused(job, saw)
        BY <3>1, <4>1, RefusedSame
      <4> QED
        BY <1>3, <4>2
    <3>3. k \in job.covers
      BY <1>7, <3>1, <3>2
    <3> QED
      BY <1>4, <1>7, <3>1, <3>3
  <2>5. \/ Refused(job, s) /\ DOMAIN s = job.covers
        \/ ~ Refused(job, s) /\ StillToRead(job, s) = {}
    BY <1>14, <2>4
  <2> HIDE DEF b, over
  <2>6. s = SeenAlone(job, b) /\ (Refused(job, b) <=> Refused(job, s))
    BY <1>2, <1>6, <2>2, <2>3, <2>5, SeenIsAlone
  <2>7. Refused(job, s) \/ DOMAIN job.adds = {}
    BY <1>14 DEF over, Nothing
  <2>8. LeftAlone(job, b) = b
    <3>1. CASE Refused(job, b)
      BY <3>1 DEF LeftAlone
    <3>2. CASE ~ Refused(job, b)
      <4>1. DOMAIN job.adds = {}
        BY <2>6, <2>7, <3>2
      <4>2. LeftAlone(job, b) = [l \in Key |-> b[l]]
        BY <3>2, <4>1 DEF LeftAlone
      <4> QED
        BY <2>2, <4>2 DEF Balances
    <3> QED
      BY <3>1, <3>2
  <2> QED
    BY <1>1, <1>3, <1>8, <1>11, <1>12, <2>1, <2>6, <2>7, <2>8 DEF b
<1> QED
  BY <1>13, <1>14

\* A commit adds to the newest balances, and changes none of an earlier moment.
LEMMA SnapshotCommitInv ==
    ASSUME JobsFit, SnapshotInv, NEW j \in Job, Snapshot!Commit(j)
    PROVE  /\ SnapshotInv' /\ j \notin Over /\ Over' = Over \union {j}
           /\ \A i \in Job : i # j => tx'[i] = tx[i]
           /\ tx'[j].seen = tx[j].seen /\ Reading(Jobs[j], tx[j].seen)
           /\ ~ Refused(Jobs[j], tx[j].seen) /\ StillToRead(Jobs[j], tx[j].seen) = {}
           /\ DOMAIN Jobs[j].adds # {}
           /\ clock' = clock + 1
           /\ \A t \in 0 .. clock : \A k \in Key : Shown(data'[k], t) = Shown(data[k], t)
           /\ \A k \in DOMAIN Jobs[j].adds : k \in Key /\ tx[j].seen[k] = Newest[k]
           /\ Newest' = [k \in Key |-> IF k \in DOMAIN Jobs[j].adds THEN Newest[k] + Jobs[j].adds[k]
                                       ELSE Newest[k]]
<1> DEFINE job == Jobs[j]
           saw == tx[j].seen
           t0 == tx[j].snapshot
           new(k) == [ts |-> clock + 1, value |-> saw[k] + job.adds[k]]
<1>1. /\ tx[j].state = "running" /\ StillToRead(job, saw) = {}
      /\ \A k \in DOMAIN job.adds : \A i \in DOMAIN data[k] : data[k][i].ts <= t0
      /\ clock' = clock + 1
      /\ data' = [k \in Key |-> IF k \in DOMAIN job.adds THEN Append(data[k], new(k)) ELSE data[k]]
      /\ tx' = [tx EXCEPT ![j].state = "done"]
  BY SnapshotSteps
<1>2. OfItsMoment(j) /\ DOMAIN tx = Job /\ clock \in Nat /\ Fits(job) /\ DOMAIN data = Key
      /\ \A k \in Key : Versions(data[k]) /\ \A i \in DOMAIN data[k] : data[k][i].ts <= clock
  BY DEF SnapshotInv, JobsFit
<1>3. /\ DOMAIN tx[j] = {"state", "snapshot", "seen"} /\ t0 \in 0 .. clock /\ Reading(job, saw)
      /\ \A l \in DOMAIN saw : saw[l] = Shown(data[l], t0)
      /\ ~ Refused(job, saw) /\ DOMAIN job.adds # {}
  BY <1>1, <1>2 DEF OfItsMoment
<1>4. DOMAIN saw = Wants(j) /\ Wants(j) \subseteq Key /\ DOMAIN job.adds \subseteq Wants(j)
      /\ \A k \in DOMAIN job.adds : job.adds[k] \in Int
  BY <1>1, <1>3, ReadsAll, WantsKeys, AddsFit
<1>5. \A k \in DOMAIN job.adds : k \in Key /\ saw[k] = Newest[k] /\ saw[k] \in Int
  <2> SUFFICES ASSUME NEW k \in DOMAIN job.adds PROVE k \in Key /\ saw[k] = Newest[k] /\ saw[k] \in Int
    OBVIOUS
  <2>1. k \in Key /\ k \in DOMAIN saw /\ saw[k] \in Int
    BY <1>3, <1>4 DEF Reading
  <2>2. \A i \in DOMAIN data[k] : data[k][i].ts <= t0
    BY <1>1
  <2>3. t0 \in Nat /\ Versions(data[k])
    BY <1>2, <1>3, <2>1
  <2>4. Shown(data[k], t0) = Last(data[k]).value
    BY <2>2, <2>3, ShownIs
  <2> HIDE DEF t0
  <2> QED
    BY <1>3, <2>1, <2>4 DEF Newest
<1>6. /\ DOMAIN tx' = Job /\ \A i \in Job : i # j => tx'[i] = tx[i]
      /\ DOMAIN tx'[j] = {"state", "snapshot", "seen"}
      /\ tx'[j].state = "done" /\ tx'[j].snapshot = t0 /\ tx'[j].seen = saw
  BY <1>1, <1>2, <1>3
<1>7. \A k \in DOMAIN job.adds : new(k) \in Version /\ new(k).ts = clock + 1
                                  /\ new(k).value = Newest[k] + job.adds[k]
  BY <1>2, <1>4, <1>5 DEF Version
<1> HIDE DEF new
<1>8. ASSUME NEW k \in Key
      PROVE  /\ Versions(data'[k])
             /\ \A i \in DOMAIN data'[k] : data'[k][i].ts <= clock + 1
             /\ \A t \in 0 .. clock : Shown(data'[k], t) = Shown(data[k], t)
             /\ Last(data'[k]).value = IF k \in DOMAIN job.adds THEN Newest[k] + job.adds[k] ELSE Newest[k]
  <2>1. CASE k \in DOMAIN job.adds
    <3>1. data'[k] = Append(data[k], new(k)) /\ new(k) \in Version /\ new(k).ts = clock + 1
      BY <1>1, <1>7, <2>1
    <3>2. data[k] \in Seq(Version) /\ Versions(data[k])
      BY <1>2 DEF Versions
    <3> DEFINE w == data'[k]
               v == new(k)
    <3>3. Len(data[k]) \in Nat /\ Len(w) = Len(data[k]) + 1 /\ w[Len(w)] = v
          /\ DOMAIN w = 1 .. Len(data[k]) + 1 /\ \A i \in 1 .. Len(data[k]) : w[i] = data[k][i]
          /\ DOMAIN data[k] = 1 .. Len(data[k])
      BY <3>1, <3>2
    <3>4. \A t \in 0 .. clock : t \in Nat /\ v.ts > t
      BY <1>2, <3>1
    <3>5. \A t \in 0 .. clock : Versions(w) /\ Shown(w, t) = Shown(data[k], t)
      <4> SUFFICES ASSUME NEW t \in 0 .. clock
                   PROVE  Versions(w) /\ Shown(w, t) = Shown(data[k], t)
        OBVIOUS
      <4>1. t \in Nat /\ v.ts > t /\ v \in Version /\ w = Append(data[k], v)
        BY <3>1, <3>4
      <4> HIDE DEF w, v
      <4> QED
        BY <3>2, <4>1, ShownIs
    <3>6. Versions(w)
      <4>1. 0 \in 0 .. clock
        BY <1>2
      <4> QED
        BY <3>5, <4>1
    <3>7. \A i \in DOMAIN w : w[i].ts <= clock + 1
      <4>1. \A i \in 1 .. Len(data[k]) : data[k][i].ts <= clock
        BY <1>2, <3>3
      <4>2. \A i \in 1 .. Len(data[k]) : data[k][i].ts \in Nat
        BY <3>2, <3>3, VersionsType
      <4>3. v.ts <= clock + 1
        BY <1>2, <3>1
      <4>4. \A i \in DOMAIN w : i \in 1 .. Len(data[k]) \/ i = Len(w)
        BY <3>3
      <4> HIDE DEF w, v
      <4> QED
        BY <1>2, <3>3, <4>1, <4>2, <4>3, <4>4
    <3>8. Last(w).value = Newest[k] + job.adds[k]
      BY <1>7, <2>1, <3>3 DEF Last
    <3> QED
      BY <2>1, <3>5, <3>6, <3>7, <3>8
  <2>2. CASE k \notin DOMAIN job.adds
    <3>1. data'[k] = data[k]
      BY <1>1, <2>2
    <3>2. \A i \in DOMAIN data[k] : data[k][i].ts \in Nat /\ data[k][i].ts <= clock
      BY <1>2, VersionsType
    <3>3. \A i \in DOMAIN data[k] : data[k][i].ts <= clock + 1
      BY <1>2, <3>2
    <3> QED
      BY <1>2, <2>2, <3>1, <3>3 DEF Newest
  <2> QED
    BY <2>1, <2>2
<1>9. ASSUME NEW i \in Job PROVE OfItsMoment(i)'
  <2>1. OfItsMoment(i)
    BY DEF SnapshotInv
  <2>2. tx'[i].seen = tx[i].seen /\ tx'[i].snapshot = tx[i].snapshot
    BY <1>6
  <2>3. DOMAIN tx[i].seen \subseteq Key
    BY <2>1, ReadsAll, WantsKeys DEF OfItsMoment
  <2>4. \A k \in DOMAIN tx[i].seen : Shown(data'[k], tx[i].snapshot) = Shown(data[k], tx[i].snapshot)
    BY <1>8, <2>1, <2>3 DEF OfItsMoment
  <2>5. tx[i].snapshot \in 0 .. clock'
    BY <1>1, <1>2, <2>1 DEF OfItsMoment
  <2>6. DOMAIN tx'[i] = {"state", "snapshot", "seen"}
    BY <1>6, <2>1 DEF OfItsMoment
  <2>7. tx'[i].state = "done" \/ tx'[i].state = tx[i].state
    BY <1>6
  <2> HIDE DEF job, saw, t0
  <2> QED
    BY <2>1, <2>2, <2>4, <2>5, <2>6, <2>7 DEF OfItsMoment
<1>10. SnapshotInv'
  <2>1. clock' \in Nat /\ DOMAIN data' = Key
    BY <1>1, <1>2
  <2>2. \A k \in Key : Versions(data'[k]) /\ \A i \in DOMAIN data'[k] : data'[k][i].ts <= clock'
    BY <1>1, <1>8
  <2> QED
    BY <1>6, <1>9, <2>1, <2>2 DEF SnapshotInv
<1>11. j \notin Over /\ Over' = Over \union {j}
  BY <1>1, <1>6 DEF Over
<1>12. Newest' = [k \in Key |-> IF k \in DOMAIN job.adds THEN Newest[k] + job.adds[k] ELSE Newest[k]]
  BY <1>8 DEF Newest
<1> QED
  BY <1>1, <1>3, <1>5, <1>6, <1>8, <1>10, <1>11, <1>12

LEMMA SnapshotStep ==
    ASSUME JobsFit, SnapshotInv, [Snapshot!Next]_(Snapshot!vars)
    PROVE  SnapshotInv'
<1>1. CASE UNCHANGED Snapshot!vars
  <2>1. clock' = clock /\ data' = data /\ tx' = tx
    BY <1>1 DEF Snapshot!vars
  <2>2. \A j \in Job : OfItsMoment(j)'
    BY <2>1 DEF SnapshotInv, OfItsMoment
  <2> QED
    BY <2>1, <2>2 DEF SnapshotInv
<1>2. CASE Snapshot!Next
  <2>1. PICK j \in Job : \/ Snapshot!Begin(j) \/ Snapshot!Read(j)
                         \/ Snapshot!Commit(j) \/ Snapshot!Conflict(j)
    BY <1>2 DEF Snapshot!Next, Snapshot!Step, Snapshot!Job, Job
  <2> QED
    BY <2>1, SnapshotBeginInv, SnapshotReadInv, SnapshotCommitInv, SnapshotConflictInv
<1> QED
  BY <1>1, <1>2

\* What the job j adds to k.
Share(j, k) == IF k \in DOMAIN Jobs[j].adds THEN Jobs[j].adds[k] ELSE 0

Effect(k, who) == SumOver([j \in who |-> Share(j, k)], who)

\* The finished jobs that have not given up.
Wrote == {j \in Over : ~ Refused(Jobs[j], tx[j].seen)}

KeepsAll == \A k \in Key : Newest[k] = Opening[k] + Effect(k, Wrote)

LEMMA EffectIsSum ==
    ASSUME NEW k, NEW who
    PROVE  Snapshot!MapThenSumSet(
             LAMBDA j : IF k \in DOMAIN Jobs[j].adds THEN Jobs[j].adds[k] ELSE 0, who)
               = Effect(k, who)
<1> DEFINE f == [j \in who |-> Share(j, k)]
           P(i) == i = [s \in SUBSET who |-> IF s = {} THEN 0 ELSE Share(Pick(s), k) + i[s \ {Pick(s)}]]
<1>1. Snapshot!MapThenSumSet(
        LAMBDA j : IF k \in DOMAIN Jobs[j].adds THEN Jobs[j].adds[k] ELSE 0, who)
          = (CHOOSE i : P(i))[who]
  BY DEF Snapshot!MapThenSumSet, Snapshot!MapThenFoldSet, Pick, Share
<1>2. \A i : P(i) <=> IsIter(i, f, who)
  <2>1. \A s \in SUBSET who : s # {} => f[Pick(s)] = Share(Pick(s), k)
    BY Picked
  <2>2. ASSUME NEW i
        PROVE  [s \in SUBSET who |-> IF s = {} THEN 0 ELSE Share(Pick(s), k) + i[s \ {Pick(s)}]]
                 = [s \in SUBSET who |-> IF s = {} THEN 0 ELSE f[Pick(s)] + i[s \ {Pick(s)}]]
    <3> HIDE DEF f
    <3> QED
      BY <2>1
  <2> HIDE DEF f
  <2> QED
    BY <2>2 DEF IsIter
<1>3. (CHOOSE i : P(i)) = CHOOSE i : IsIter(i, f, who)
  <2> HIDE DEF P, f
  <2> QED
    BY <1>2
<1> HIDE DEF P
<1> QED
  BY <1>1, <1>3 DEF SumOver, Effect

LEMMA ShareType ==
    ASSUME JobsFit, NEW j \in Job, NEW k
    PROVE  Share(j, k) \in Int
BY AddsFit DEF Share

LEMMA JobsFinite == ASSUME JobsFit, NEW S \in SUBSET Job PROVE IsFiniteSet(S)
<1>1. Job = 1 .. Len(Jobs) /\ Len(Jobs) \in Nat
  BY DEF JobsFit, Job
<1>2. IsFiniteSet(Job)
  BY <1>1, FS_Interval
<1> QED
  BY <1>2, FS_Subset

LEMMA EffectOfOneMore ==
    ASSUME JobsFit, NEW who \in SUBSET Job, NEW j \in Job, j \notin who, NEW k
    PROVE  /\ Effect(k, who) \in Int
           /\ Effect(k, who \union {j}) = Effect(k, who) + Share(j, k)
<1> DEFINE g == [i \in who |-> Share(i, k)]
           h == [i \in who \union {j} |-> Share(i, k)]
<1>1. IsFiniteSet(who)
  BY JobsFinite
<1>2. g \in [who -> Int] /\ h \in [who \union {j} -> Int] /\ \A i \in who : h[i] = g[i]
  BY ShareType
<1>3. h[j] = Share(j, k)
  OBVIOUS
<1> HIDE DEF g, h
<1>4. SumOver(h, who \union {j}) = SumOver(g, who) + h[j]
  BY <1>1, <1>2, SumOfOneMore
<1>5. SumOver(g, who) \in Int
  BY <1>1, <1>2, SumType
<1> QED
  BY <1>3, <1>4, <1>5 DEF Effect, g, h

LEMMA KeepsStart ==
    ASSUME JobsFit, Snapshot!Init
    PROVE  KeepsAll
<1>1. Wrote = {} /\ Newest = Opening
  BY SnapshotStart DEF Wrote
<1>2. \A k \in Key : Effect(k, {}) = 0
  BY SumOfNone DEF Effect
<1>3. \A k \in Key : Opening[k] \in Int
  BY OpeningType DEF Balances
<1> QED
  BY <1>1, <1>2, <1>3 DEF KeepsAll

LEMMA KeepsStep ==
    ASSUME JobsFit, SnapshotInv, KeepsAll, [Snapshot!Next]_(Snapshot!vars)
    PROVE  KeepsAll'
<1>0. Over \subseteq Job /\ Wrote \subseteq Job
  BY DEF Over, Wrote
<1>1. CASE UNCHANGED Snapshot!vars
  <2>1. clock' = clock /\ data' = data /\ tx' = tx
    BY <1>1 DEF Snapshot!vars
  <2>2. Newest' = Newest /\ Over' = Over
    BY <2>1 DEF Newest, Over
  <2>3. Wrote' = Wrote
    BY <2>1, <2>2 DEF Wrote
  <2> QED
    BY <2>2, <2>3 DEF KeepsAll
<1>2. ASSUME NEW j \in Job, data' = data, Over' = Over, j \notin Over,
             \A i \in Job : i # j => tx'[i] = tx[i]
      PROVE  KeepsAll'
  <2>1. Newest' = Newest
    BY <1>2 DEF Newest
  <2>2. \A i \in Over : tx'[i] = tx[i]
    BY <1>0, <1>2
  <2>3. Wrote' = Wrote
    BY <1>2, <2>2 DEF Wrote
  <2> QED
    BY <2>1, <2>3 DEF KeepsAll
<1>3. ASSUME NEW j \in Job, Snapshot!Read(j) PROVE KeepsAll'
  <2>1. /\ j \notin Over /\ data' = data /\ \A i \in Job : i # j => tx'[i] = tx[i]
        /\ \/ Over' = Over
           \/ /\ Over' = Over \union {j}
              /\ Refused(Jobs[j], tx'[j].seen) \/ DOMAIN Jobs[j].adds = {}
    BY <1>3, SnapshotReadInv
  <2>2. CASE Over' = Over
    BY <1>2, <2>1, <2>2
  <2>3. CASE Over' = Over \union {j} /\ (Refused(Jobs[j], tx'[j].seen) \/ DOMAIN Jobs[j].adds = {})
    <3>1. Newest' = Newest
      BY <2>1 DEF Newest
    <3>2. \A i \in Over : tx'[i] = tx[i]
      BY <1>0, <2>1
    <3>3. CASE Refused(Jobs[j], tx'[j].seen)
      <4>1. Wrote' = Wrote
        BY <2>3, <3>2, <3>3 DEF Wrote
      <4> QED
        BY <3>1, <4>1 DEF KeepsAll
    <3>4. CASE ~ Refused(Jobs[j], tx'[j].seen) /\ DOMAIN Jobs[j].adds = {}
      <4>1. Wrote' = Wrote \union {j} /\ j \notin Wrote
        BY <2>1, <2>3, <3>2, <3>4 DEF Wrote
      <4>2. \A k \in Key : Share(j, k) = 0
        BY <3>4 DEF Share
      <4>3. \A k \in Key : Effect(k, Wrote \union {j}) = Effect(k, Wrote)
        <5> SUFFICES ASSUME NEW k \in Key PROVE Effect(k, Wrote \union {j}) = Effect(k, Wrote)
          OBVIOUS
        <5>1. Effect(k, Wrote) \in Int /\ Effect(k, Wrote \union {j}) = Effect(k, Wrote) + Share(j, k)
          BY <1>0, <4>1, EffectOfOneMore
        <5> QED
          BY <4>2, <5>1
      <4> QED
        BY <3>1, <4>1, <4>3 DEF KeepsAll
    <3> QED
      BY <2>3, <3>3, <3>4
  <2> QED
    BY <2>1, <2>2, <2>3
<1>4. ASSUME NEW j \in Job, Snapshot!Commit(j) PROVE KeepsAll'
  <2>1. /\ j \notin Over /\ Over' = Over \union {j}
        /\ \A i \in Job : i # j => tx'[i] = tx[i]
        /\ tx'[j].seen = tx[j].seen /\ ~ Refused(Jobs[j], tx[j].seen)
        /\ Newest' = [k \in Key |-> IF k \in DOMAIN Jobs[j].adds THEN Newest[k] + Jobs[j].adds[k]
                                    ELSE Newest[k]]
    BY <1>4, SnapshotCommitInv
  <2>2. \A i \in Over : tx'[i] = tx[i]
    BY <1>0, <2>1
  <2>3. Wrote' = Wrote \union {j} /\ j \notin Wrote
    BY <2>1, <2>2 DEF Wrote
  <2> SUFFICES ASSUME NEW k \in Key PROVE Newest'[k] = Opening[k] + Effect(k, Wrote')
    BY DEF KeepsAll
  <2>4. Effect(k, Wrote) \in Int /\ Effect(k, Wrote \union {j}) = Effect(k, Wrote) + Share(j, k)
    BY <1>0, <2>3, EffectOfOneMore
  <2>5. Share(j, k) \in Int /\ Opening[k] \in Int
    BY ShareType, OpeningType DEF Balances
  <2>6. Newest[k] = Opening[k] + Effect(k, Wrote)
    BY DEF KeepsAll
  <2>7. Newest'[k] = Newest[k] + Share(j, k)
    <3>1. Newest[k] + 0 = Newest[k]
      BY <2>4, <2>5, <2>6
    <3> QED
      BY <2>1, <3>1 DEF Share
  <2> QED
    BY <2>3, <2>4, <2>5, <2>6, <2>7
<1>5. CASE Snapshot!Next
  <2>1. PICK j \in Job : \/ Snapshot!Begin(j) \/ Snapshot!Read(j)
                         \/ Snapshot!Commit(j) \/ Snapshot!Conflict(j)
    BY <1>5 DEF Snapshot!Next, Snapshot!Step, Snapshot!Job, Job
  <2>2. CASE Snapshot!Begin(j)
    BY <1>2, <2>2, SnapshotBeginInv
  <2>3. CASE Snapshot!Conflict(j)
    BY <1>2, <2>3, SnapshotConflictInv
  <2> QED
    BY <1>3, <1>4, <2>1, <2>2, <2>3
<1> QED
  BY <1>1, <1>5

LEMMA KeepsResult ==
    ASSUME KeepsAll
    PROVE  Snapshot!NoLostUpdate
<1>1. \A job, s : Snapshot!Refused(job, s) <=> Refused(job, s)
  BY DEF Snapshot!Refused, Refused, Snapshot!MapThenSumSet, MapThenSumSet,
         Snapshot!MapThenFoldSet, MapThenFoldSet
<1>2. {j \in Snapshot!Finished : ~ Snapshot!Refused(Jobs[j], tx[j].seen)} = Wrote
  BY <1>1 DEF Snapshot!Finished, Over, Wrote, Snapshot!Job, Job
<1>3. Snapshot!Key = Key /\ Snapshot!Balance = Newest
  BY DEF Snapshot!Key, Key, Snapshot!Balance, Newest, Snapshot!Last, Last
<1>4. ASSUME NEW k \in Snapshot!Key
      PROVE  Snapshot!Balance[k] = Opening[k] + Snapshot!MapThenSumSet(
               LAMBDA j : IF k \in DOMAIN Jobs[j].adds THEN Jobs[j].adds[k] ELSE 0,
               {j \in Snapshot!Finished : ~ Snapshot!Refused(Jobs[j], tx[j].seen)})
  <2> DEFINE who == {j \in Snapshot!Finished : ~ Snapshot!Refused(Jobs[j], tx[j].seen)}
  <2>1. Newest[k] = Opening[k] + Effect(k, Wrote)
    BY <1>3 DEF KeepsAll
  <2>2. Snapshot!MapThenSumSet(
          LAMBDA j : IF k \in DOMAIN Jobs[j].adds THEN Jobs[j].adds[k] ELSE 0, who) = Effect(k, who)
    BY EffectIsSum
  <2>3. who = Wrote
    BY <1>2
  <2>4. Snapshot!Balance[k] = Opening[k] + Effect(k, who)
    BY <1>3, <2>1, <2>3
  <2> HIDE DEF who
  <2>5. Snapshot!Balance[k] = Opening[k] + Snapshot!MapThenSumSet(
          LAMBDA j : IF k \in DOMAIN Jobs[j].adds THEN Jobs[j].adds[k] ELSE 0, who)
    BY <2>2, <2>4
  <2> QED
    BY <2>5 DEF who
<1> QED
  BY <1>4 DEF Snapshot!NoLostUpdate

\* Whatever the jobs, those of write_skew.rs too: the balances are the opening
\* ones and what each finished job that has not given up has added.
THEOREM SnapshotKeepsAll ==
    ASSUME JobsFit
    PROVE  Snapshot!Spec => []Snapshot!NoLostUpdate
<1>1. Snapshot!Init => SnapshotInv /\ KeepsAll
  BY SnapshotStart, KeepsStart
<1>2. SnapshotInv /\ KeepsAll /\ [Snapshot!Next]_(Snapshot!vars) => SnapshotInv' /\ KeepsAll'
  BY SnapshotStep, KeepsStep
<1>3. KeepsAll => Snapshot!NoLostUpdate
  BY KeepsResult
<1> QED
  BY <1>1, <1>2, <1>3, PTL DEF Snapshot!Spec

\* An order explains the finished jobs, and reaches the balances of every moment.
Timely ==
    \E order, after :
        /\ Explains(order, after, Over, Viewed, Newest)
        /\ \A t \in 0 .. clock : Moment(t) \in Reached(order, after)

LEMMA TimelyStart ==
    ASSUME JobsFit, Snapshot!Init
    PROVE  Timely
<1>1. SnapshotInv /\ Over = {} /\ Newest = Opening
  BY SnapshotStart
<1>2. clock = 0
  BY DEF Snapshot!Init
<1>3. Moment(clock) = Newest
  BY <1>1, MomentIs DEF SnapshotInv
<1>4. \A t \in 0 .. clock : Moment(t) = Opening
  BY <1>1, <1>2, <1>3
<1>5. /\ Explains(<<>>, [i \in 0 .. 0 |-> Opening], Over, Viewed, Newest)
      /\ Opening \in Reached(<<>>, [i \in 0 .. 0 |-> Opening])
  BY <1>1, ExplainsNobody
<1> QED
  BY <1>4, <1>5 DEF Timely

LEMMA TimelyStep ==
    ASSUME JobsFit, WriteAllOrNothing, SnapshotInv, Timely, [Snapshot!Next]_(Snapshot!vars)
    PROVE  Timely'
<1>0. Over \subseteq Job
  BY DEF Over
<1>1. PICK order, after : /\ Explains(order, after, Over, Viewed, Newest)
                          /\ \A t \in 0 .. clock : Moment(t) \in Reached(order, after)
  BY DEF Timely
<1>2. ASSUME clock' = clock, data' = data, Over' = Over, \A i \in Over : tx'[i] = tx[i]
      PROVE  Timely'
  <2>1. Newest' = Newest /\ \A t : Moment(t)' = Moment(t)
    BY <1>2 DEF Newest, Moment
  <2>2. \A i \in Over : Viewed'[i] = Viewed[i]
    BY <1>0, <1>2 DEF Viewed
  <2>3. Explains(order, after, Over, Viewed', Newest)
    BY <1>1, <2>2, ExplainsSame
  <2>4. \A t \in 0 .. clock : Moment(t)' \in Reached(order, after)
    BY <1>1, <2>1
  <2> QED
    BY <1>2, <2>1, <2>3, <2>4 DEF Timely
<1>3. ASSUME NEW j \in Job, Snapshot!Read(j) PROVE Timely'
  <2> DEFINE t0 == tx[j].snapshot
  <2>1. /\ j \notin Over /\ clock' = clock /\ data' = data /\ \A i \in Job : i # j => tx'[i] = tx[i]
        /\ t0 \in 0 .. clock
        /\ \/ Over' = Over
           \/ /\ Over' = Over \union {j}
              /\ tx'[j].seen = SeenAlone(Jobs[j], Moment(t0))
              /\ LeftAlone(Jobs[j], Moment(t0)) = Moment(t0)
    BY <1>3, SnapshotReadInv
  <2>2. \A i \in Over : tx'[i] = tx[i]
    BY <1>0, <2>1
  <2>3. CASE Over' = Over
    BY <1>2, <2>1, <2>2, <2>3
  <2>4. CASE /\ Over' = Over \union {j}
             /\ tx'[j].seen = SeenAlone(Jobs[j], Moment(t0))
             /\ LeftAlone(Jobs[j], Moment(t0)) = Moment(t0)
    <3>1. Newest' = Newest /\ \A t : Moment(t)' = Moment(t)
      BY <2>1 DEF Newest, Moment
    <3>2. Viewed'[j] = SeenAlone(Jobs[j], Moment(t0)) /\ \A i \in Over : Viewed'[i] = Viewed[i]
      BY <1>0, <2>2, <2>4 DEF Viewed
    <3>3. Moment(t0) \in Reached(order, after)
      BY <1>1, <2>1
    <3> HIDE DEF t0
    <3>4. PICK o, a : /\ Explains(o, a, Over \union {j}, Viewed', Newest)
                      /\ Reached(order, after) \subseteq Reached(o, a)
      BY <1>1, <2>1, <2>4, <3>2, <3>3, InsertJob
    <3>5. \A t \in 0 .. clock : Moment(t)' \in Reached(o, a)
      BY <1>1, <3>1, <3>4
    <3> QED
      BY <2>1, <2>4, <3>1, <3>4, <3>5 DEF Timely
  <2> QED
    BY <2>1, <2>3, <2>4
<1>4. ASSUME NEW j \in Job, Snapshot!Commit(j) PROVE Timely'
  <2> DEFINE job == Jobs[j]
             saw == tx[j].seen
  <2>1. /\ SnapshotInv' /\ j \notin Over /\ Over' = Over \union {j}
        /\ \A i \in Job : i # j => tx'[i] = tx[i]
        /\ tx'[j].seen = saw /\ Reading(job, saw)
        /\ ~ Refused(job, saw) /\ StillToRead(job, saw) = {}
        /\ DOMAIN job.adds # {}
        /\ clock' = clock + 1
        /\ \A t \in 0 .. clock : \A k \in Key : Shown(data'[k], t) = Shown(data[k], t)
        /\ \A k \in DOMAIN job.adds : k \in Key /\ saw[k] = Newest[k]
        /\ Newest' = [k \in Key |-> IF k \in DOMAIN job.adds THEN Newest[k] + job.adds[k] ELSE Newest[k]]
    BY <1>4, SnapshotCommitInv
  <2>2. clock \in Nat /\ Newest \in Balances /\ Fits(job)
    BY MomentIs DEF SnapshotInv, JobsFit
  <2>3. \A k \in DOMAIN saw : saw[k] = Newest[k]
    <3>1. DOMAIN saw \subseteq Range(job.reads)
      BY <2>1, ReadsAll DEF Wants
    <3>2. DOMAIN job.adds = Range(job.reads)
      BY <2>1 DEF WriteAllOrNothing
    <3> QED
      BY <2>1, <3>1, <3>2
  <2>4. saw = SeenAlone(job, Newest) /\ ~ Refused(job, Newest)
    <3> HIDE DEF job, saw
    <3> QED
      BY <2>1, <2>2, <2>3, SeenIsAlone
  <2>5. Newest' = LeftAlone(job, Newest)
    BY <2>1, <2>4 DEF LeftAlone
  <2>6. Viewed'[j] = SeenAlone(Jobs[j], Newest) /\ \A i \in Over : Viewed'[i] = Viewed[i]
    BY <1>0, <2>1, <2>4 DEF Viewed
  <2>7. PICK o, a : /\ Explains(o, a, Over \union {j}, Viewed', LeftAlone(Jobs[j], Newest))
                    /\ Reached(order, after) \subseteq Reached(o, a)
                    /\ LeftAlone(Jobs[j], Newest) \in Reached(o, a)
    <3>1. Explains(order, after, Over, Viewed, Newest)
      BY <1>1
    <3>2. j \notin Over
      BY <2>1
    <3> HIDE DEF job, saw
    <3> QED
      BY <2>6, <3>1, <3>2, AppendJob
  <2>8. ASSUME NEW t \in 0 .. clock' PROVE Moment(t)' \in Reached(o, a)
    <3>1. CASE t = clock'
      <4>1. (Moment(clock) = Newest)'
        BY <2>1, MomentNext
      <4>2. Moment(t)' = Newest'
        BY <3>1, <4>1 DEF Moment
      <4> QED
        BY <2>5, <2>7, <4>2
    <3>2. CASE t # clock'
      <4>1. t \in 0 .. clock
        BY <2>1, <2>2, <3>2
      <4>2. Moment(t)' = Moment(t)
        BY <2>1, <4>1 DEF Moment
      <4> QED
        BY <1>1, <2>7, <4>1, <4>2
    <3> QED
      BY <3>1, <3>2
  <2> QED
    BY <2>1, <2>5, <2>7, <2>8 DEF Timely
<1>5. CASE UNCHANGED Snapshot!vars
  <2>1. clock' = clock /\ data' = data /\ tx' = tx
    BY <1>5 DEF Snapshot!vars
  <2> QED
    BY <1>2, <2>1 DEF Over
<1>6. CASE Snapshot!Next
  <2>1. PICK j \in Job : \/ Snapshot!Begin(j) \/ Snapshot!Read(j)
                         \/ Snapshot!Commit(j) \/ Snapshot!Conflict(j)
    BY <1>6 DEF Snapshot!Next, Snapshot!Step, Snapshot!Job, Job
  <2>2. CASE Snapshot!Begin(j) \/ Snapshot!Conflict(j)
    <3>1. clock' = clock /\ data' = data /\ Over' = Over /\ j \notin Over
          /\ \A i \in Job : i # j => tx'[i] = tx[i]
      BY <2>2, SnapshotBeginInv, SnapshotConflictInv
    <3>2. \A i \in Over : tx'[i] = tx[i]
      BY <1>0, <3>1
    <3> QED
      BY <1>2, <3>1, <3>2
  <2> QED
    BY <1>3, <1>4, <2>1, <2>2
<1> QED
  BY <1>5, <1>6

LEMMA SnapshotSerial ==
    ASSUME NEW finished, NEW saw, NEW whole, NEW bal
    PROVE  Snapshot!Serial(finished, saw, whole, bal) <=> Serial(finished, saw, whole, bal)
BY DEF Snapshot!Serial, Serial, Snapshot!OneByOne, OneByOne, Snapshot!LeftAlone, LeftAlone,
       Snapshot!SeenAlone, SeenAlone, Snapshot!Refused, Refused, Snapshot!Restrict, Restrict,
       Snapshot!Range, Range, Snapshot!SetToSeqs, SetToSeqs, Snapshot!Key, Key,
       Snapshot!MapThenSumSet, MapThenSumSet, Snapshot!MapThenFoldSet, MapThenFoldSet,
       Snapshot!Cardinality, Cardinality

LEMMA SnapshotResult ==
    ASSUME Timely
    PROVE  Snapshot!Serializable
<1>1. Explained(Over, Viewed, Newest)
  BY DEF Timely, Explained
<1>2. Serial(Over, Viewed, TRUE, Newest)
  BY <1>1, ExplainedSerial
<1>3. Snapshot!Serial(Over, Viewed, TRUE, Newest)
  BY <1>2, SnapshotSerial
<1>4. Snapshot!Finished = Over /\ Snapshot!Balance = Newest
  BY DEF Snapshot!Key, Key, Snapshot!Balance, Newest, Snapshot!Last, Last,
         Snapshot!Finished, Over, Snapshot!Job, Job
<1> QED
  BY <1>3, <1>4 DEF Snapshot!Serializable, Viewed, Snapshot!Job, Job

\* Jobs that write all that they read, or nothing, are as good as one after
\* the other: those of mvcc.rs are, those of write_skew.rs are not.
THEOREM SnapshotSerializable ==
    ASSUME JobsFit, WriteAllOrNothing
    PROVE  Snapshot!Spec => []Snapshot!Serializable
<1>1. Snapshot!Init => SnapshotInv /\ Timely
  BY SnapshotStart, TimelyStart
<1>2. SnapshotInv /\ Timely /\ [Snapshot!Next]_(Snapshot!vars) => SnapshotInv' /\ Timely'
  BY SnapshotStep, TimelyStep
<1>3. Timely => Snapshot!Serializable
  BY SnapshotResult
<1> QED
  BY <1>1, <1>2, <1>3, PTL DEF Snapshot!Spec
=============================================================================
