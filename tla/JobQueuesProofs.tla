--------------------------- MODULE JobQueuesProofs ----------------------------
(***************************************************************************)
(* What the queue operations of JobQueues return, for every finite set of  *)
(* jobs and every ranking, and that a set of places has a first and a last.*)
(***************************************************************************)
EXTENDS JobQueues, FiniteSetTheorems, SequenceTheorems, WellFoundedInduction, TLAPS

\* A member of S is the last of the members up to it, so the members up to it are a
\* finite, nonempty part of S.
LEMMA UpToFinite ==
    ASSUME NEW S \in SUBSET Int, IsFiniteSet(S), NEW rank \in [S -> Int], NEW x \in S
    PROVE  /\ UpTo(S, rank, x) \in SUBSET S
           /\ IsFiniteSet(UpTo(S, rank, x))
           /\ Cardinality(UpTo(S, rank, x)) \in 1..Cardinality(S)
<1>1. UpTo(S, rank, x) \in SUBSET S /\ x \in UpTo(S, rank, x)
  BY DEF UpTo
<1>2. /\ IsFiniteSet(UpTo(S, rank, x))
      /\ Cardinality(UpTo(S, rank, x)) <= Cardinality(S)
  BY <1>1, FS_Subset
<1>3. Cardinality(UpTo(S, rank, x)) \in Nat /\ Cardinality(S) \in Nat
  BY <1>2, FS_CardinalityType
<1>4. Cardinality(UpTo(S, rank, x)) # 0
  BY <1>1, <1>2, FS_EmptySet
<1>5. QED
  BY <1>1, <1>2, <1>3, <1>4

\* Two members with equally many members up to them are the same.
LEMMA UpToInjective ==
    ASSUME NEW S \in SUBSET Int, IsFiniteSet(S), NEW rank \in [S -> Int],
           NEW x \in S, NEW y \in S,
           Cardinality(UpTo(S, rank, x)) = Cardinality(UpTo(S, rank, y))
    PROVE  x = y
<1>1. \/ UpTo(S, rank, x) \in SUBSET UpTo(S, rank, y)
      \/ UpTo(S, rank, y) \in SUBSET UpTo(S, rank, x)
  <2>1. /\ \A z \in S : rank[z] \in Int /\ z \in Int
        /\ rank[x] \in Int /\ rank[y] \in Int /\ x \in Int /\ y \in Int
    OBVIOUS
  <2>2. CASE rank[x] < rank[y] \/ (rank[x] = rank[y] /\ x <= y)
    <3>1. \A z \in S : rank[z] < rank[x] \/ (rank[z] = rank[x] /\ z <= x)
                       => rank[z] < rank[y] \/ (rank[z] = rank[y] /\ z <= y)
      BY <2>1, <2>2
    <3>2. QED
      BY <3>1 DEF UpTo
  <2>3. CASE rank[y] < rank[x] \/ (rank[y] = rank[x] /\ y <= x)
    <3>1. \A z \in S : rank[z] < rank[y] \/ (rank[z] = rank[y] /\ z <= y)
                       => rank[z] < rank[x] \/ (rank[z] = rank[x] /\ z <= x)
      BY <2>1, <2>3
    <3>2. QED
      BY <3>1 DEF UpTo
  <2>4. QED
    BY <2>1, <2>2, <2>3
<1>2. UpTo(S, rank, x) = UpTo(S, rank, y)
  BY <1>1, UpToFinite, FS_Subset
<1>3. x \in UpTo(S, rank, y) /\ y \in UpTo(S, rank, x)
  BY <1>2 DEF UpTo
<1>4. QED
  BY <1>3 DEF UpTo

\* For every place in the list there is a member of S that belongs there.
LEMMA UpToSurjective ==
    ASSUME NEW S \in SUBSET Int, IsFiniteSet(S), NEW rank \in [S -> Int],
           NEW k \in 1..Cardinality(S)
    PROVE  \E x \in S : Cardinality(UpTo(S, rank, x)) = k
<1> DEFINE n == Cardinality(S)
           f == [x \in S |-> Cardinality(UpTo(S, rank, x))]
<1>1. n \in Nat
  BY FS_CardinalityType
<1>2. IsFiniteSet(1..n) /\ Cardinality(1..n) = n
  BY <1>1, FS_Interval
<1>3. f \in [S -> 1..n]
  BY UpToFinite
<1>4. f \in Injection(S, 1..n)
  BY <1>3, UpToInjective DEF Injection, IsInjective
<1>5. f \in Surjection(S, 1..n)
  BY <1>2, <1>4, FS_Injection
<1>6. QED
  BY <1>5 DEF Surjection

\* SortedBy lists every member of S exactly once, and nothing else.
THEOREM SortedByLists ==
    ASSUME NEW S \in SUBSET Int, IsFiniteSet(S), NEW rank \in [S -> Int]
    PROVE  /\ SortedBy(S, rank) \in Seq(S)
           /\ Members(SortedBy(S, rank)) = S
           /\ NoDuplicates(SortedBy(S, rank))
<1> DEFINE n == Cardinality(S)
           q == SortedBy(S, rank)
<1>1. n \in Nat
  BY FS_CardinalityType
<1>2. \A k \in 1..n : q[k] \in S /\ Cardinality(UpTo(S, rank, q[k])) = k
  BY UpToSurjective DEF SortedBy
<1>3. DOMAIN q = 1..n
  BY DEF SortedBy
<1>4. q \in [1..n -> S]
  BY <1>2 DEF SortedBy
<1>5. q \in Seq(S)
  BY <1>1, <1>4, SeqDef
<1>6. \A i, j \in 1..n : q[i] = q[j] => i = j
  BY <1>2
<1>7. \A x \in S : \E k \in 1..n : q[k] = x
  <2>1. TAKE x \in S
  <2>2. Cardinality(UpTo(S, rank, x)) \in 1..n
    BY UpToFinite
  <2>3. q[Cardinality(UpTo(S, rank, x))] = x
    BY <2>2, <1>2, UpToInjective
  <2>4. QED
    BY <2>2, <2>3
<1>8. Members(q) = S
  BY <1>2, <1>3, <1>7 DEF Members
<1>9. QED
  BY <1>3, <1>5, <1>6, <1>8 DEF NoDuplicates

\* Ascending lists a finite set of job numbers, each one once.
THEOREM AscendingLists ==
    ASSUME NEW S \in SUBSET Int, IsFiniteSet(S)
    PROVE  /\ Ascending(S) \in Seq(S)
           /\ Members(Ascending(S)) = S
           /\ NoDuplicates(Ascending(S))
BY SortedByLists DEF Ascending

\* The members of a queue are finitely many.
LEMMA MembersFinite ==
    ASSUME NEW S, NEW q \in Seq(S)
    PROVE  Members(q) \in SUBSET S /\ IsFiniteSet(Members(q))
<1>1. Len(q) \in Nat /\ DOMAIN q = 1..Len(q) /\ q \in [1..Len(q) -> S]
  BY LenProperties
<1>2. IsFiniteSet(1..Len(q))
  BY <1>1, FS_Interval
<1>3. q \in Surjection(1..Len(q), Members(q))
  BY <1>1 DEF Surjection, Members
<1>4. QED
  BY <1>1, <1>2, <1>3, FS_Surjection DEF Members

\* Taking jobs out of a queue leaves exactly the others, each one once.
THEOREM WithoutLists ==
    ASSUME NEW S \in SUBSET Int, NEW q \in Seq(S), NEW ids
    PROVE  /\ Without(q, ids) \in Seq(S)
           /\ Members(Without(q, ids)) = Members(q) \ ids
           /\ NoDuplicates(Without(q, ids))
<1> DEFINE rest == Members(q) \ ids
           rank == [x \in rest |-> Position(q, x)]
<1>1. rest \in SUBSET S /\ rest \in SUBSET Int /\ IsFiniteSet(rest)
  BY MembersFinite, FS_Subset
<1>2. rank \in [rest -> Int]
  <2>1. \A x \in rest : Position(q, x) \in DOMAIN q
    BY DEF Position, Members
  <2>2. DOMAIN q \in SUBSET Int
    BY LenProperties
  <2>3. QED
    BY <2>1, <2>2
<1>3. /\ SortedBy(rest, rank) \in Seq(rest)
      /\ Members(SortedBy(rest, rank)) = rest
      /\ NoDuplicates(SortedBy(rest, rank))
  <2> HIDE DEF rest, rank
  <2> QED
    BY <1>1, <1>2, SortedByLists
<1>4. Without(q, ids) = SortedBy(rest, rank)
  BY DEF Without
<1>5. SortedBy(rest, rank) \in Seq(S)
  BY <1>1, <1>3, SeqMonotonic
<1>6. QED
  BY <1>3, <1>4, <1>5

\* A job appended to a queue that does not hold it is its only new member.
THEOREM AppendLists ==
    ASSUME NEW S, NEW q \in Seq(S), NEW x \in S, x \notin Members(q), NoDuplicates(q)
    PROVE  /\ Append(q, x) \in Seq(S)
           /\ Members(Append(q, x)) = Members(q) \cup {x}
           /\ NoDuplicates(Append(q, x))
<1> DEFINE a == Append(q, x)
           n == Len(q)
<1>1. n \in Nat /\ DOMAIN q = 1..n
  BY LenProperties
<1>2. /\ a \in Seq(S) /\ Len(a) = n + 1
      /\ \A i \in 1..n : a[i] = q[i]
      /\ a[n + 1] = x
  BY AppendProperties
<1>3. DOMAIN a = 1..(n + 1)
  BY <1>2, LenProperties
<1> HIDE DEF a, n
<1>4. Members(a) = Members(q) \cup {x}
  BY <1>1, <1>2, <1>3 DEF Members
<1>5. \A i, j \in 1..(n + 1) : a[i] = a[j] => i = j
  BY <1>1, <1>2 DEF Members, NoDuplicates
<1>6. NoDuplicates(a)
  BY <1>3, <1>5 DEF NoDuplicates
<1>7. QED
  BY <1>2, <1>4, <1>6 DEF a

\* Two queues with no common member can be joined.
THEOREM ConcatLists ==
    ASSUME NEW S, NEW q \in Seq(S), NEW r \in Seq(S),
           Members(q) \cap Members(r) = {}, NoDuplicates(q), NoDuplicates(r)
    PROVE  /\ q \o r \in Seq(S)
           /\ Members(q \o r) = Members(q) \cup Members(r)
           /\ NoDuplicates(q \o r)
<1> DEFINE c == q \o r
           n == Len(q)
           m == Len(r)
<1>1. n \in Nat /\ DOMAIN q = 1..n /\ m \in Nat /\ DOMAIN r = 1..m
  BY LenProperties
<1>2. /\ c \in Seq(S) /\ Len(c) = n + m
      /\ \A i \in 1..(n + m) : c[i] = IF i <= n THEN q[i] ELSE r[i - n]
  BY ConcatProperties
<1>3. DOMAIN c = 1..(n + m)
  BY <1>2, LenProperties
<1> HIDE DEF c, n, m
<1>4. \A i \in 1..n : c[i] = q[i] /\ i \in 1..(n + m)
  BY <1>1, <1>2
<1>5. \A i \in 1..m : c[n + i] = r[i] /\ n + i \in 1..(n + m)
  BY <1>1, <1>2
<1>6. \A i \in 1..(n + m) : i \in 1..n \/ (i - n \in 1..m /\ i = n + (i - n))
  BY <1>1
<1>7. Members(c) = Members(q) \cup Members(r)
  <2>1. \A x \in Members(c) : x \in Members(q) \/ x \in Members(r)
    <3>1. \A i \in 1..(n + m) : c[i] \in Members(q) \/ c[i] \in Members(r)
      <4>1. TAKE i \in 1..(n + m)
      <4>2. CASE i \in 1..n
        BY <1>1, <1>4, <4>2 DEF Members
      <4>3. CASE i - n \in 1..m /\ i = n + (i - n)
        <5>1. c[i] = r[i - n]
          BY <1>5, <4>3
        <5>2. QED
          BY <1>1, <4>3, <5>1 DEF Members
      <4>4. QED
        BY <1>6, <4>2, <4>3
    <3>2. QED
      BY <1>3, <3>1 DEF Members
  <2>2. \A x \in Members(q) : x \in Members(c)
    BY <1>1, <1>3, <1>4 DEF Members
  <2>3. \A x \in Members(r) : x \in Members(c)
    BY <1>1, <1>3, <1>5 DEF Members
  <2>4. QED
    BY <2>1, <2>2, <2>3
<1>8. \A i, j \in 1..(n + m) : c[i] = c[j] => i = j
  <2>1. \A i, j \in 1..n : c[i] = c[j] => i = j
    BY <1>1, <1>4 DEF NoDuplicates
  <2>2. \A i, j \in 1..m : c[n + i] = c[n + j] => i = j
    BY <1>1, <1>5 DEF NoDuplicates
  <2>3. \A i \in 1..n, j \in 1..m : c[i] # c[n + j]
    <3> SUFFICES ASSUME NEW i \in 1..n, NEW j \in 1..m PROVE c[i] # c[n + j]
      OBVIOUS
    <3>1. c[i] \in Members(q) /\ c[n + j] \in Members(r)
      BY <1>1, <1>4, <1>5 DEF Members
    <3>2. QED
      BY <1>1, <3>1
  <2>4. SUFFICES ASSUME NEW i \in 1..(n + m), NEW j \in 1..(n + m), c[i] = c[j]
                 PROVE  i = j
    OBVIOUS
  <2>5. CASE i \in 1..n /\ j \in 1..n
    BY <2>1, <2>4, <2>5
  <2>6. CASE i \in 1..n /\ j - n \in 1..m /\ j = n + (j - n)
    BY <2>3, <2>4, <2>6
  <2>7. CASE i - n \in 1..m /\ i = n + (i - n) /\ j \in 1..n
    BY <2>3, <2>4, <2>7
  <2>8. CASE i - n \in 1..m /\ i = n + (i - n) /\ j - n \in 1..m /\ j = n + (j - n)
    <3>1. i - n = j - n
      BY <2>2, <2>4, <2>8
    <3>2. QED
      BY <1>1, <2>4, <3>1
  <2>9. QED
    BY <1>6, <2>5, <2>6, <2>7, <2>8
<1>9. NoDuplicates(c)
  BY <1>3, <1>8 DEF NoDuplicates
<1>10. QED
  BY <1>2, <1>7, <1>9 DEF c

--------------------------------------------------------------------------------
(* The order of a queue *)

\* In a queue without repetitions the job at place i has place i.
LEMMA PositionOf ==
    ASSUME NEW q, NoDuplicates(q), NEW i \in DOMAIN q
    PROVE  Position(q, q[i]) = i
BY DEF NoDuplicates, Position

\* A job keeps its place when a queue grows at its end.
LEMMA PrefixKeepsPosition ==
    ASSUME NEW q, NEW longer, NoDuplicates(longer), DOMAIN q \subseteq DOMAIN longer,
           \A i \in DOMAIN q : longer[i] = q[i], NEW x \in Members(q)
    PROVE  Position(longer, x) = Position(q, x)
<1>1. PICK i \in DOMAIN q : q[i] = x
  BY DEF Members
<1>2. NoDuplicates(q)
  BY DEF NoDuplicates
<1>3. Position(q, x) = i
  BY <1>1, <1>2, PositionOf
<1>4. Position(longer, x) = i
  BY <1>1, PositionOf
<1>5. QED
  BY <1>3, <1>4

\* The place of a job in the sorted list is the number of members up to it.
LEMMA SortedByPosition ==
    ASSUME NEW S \in SUBSET Int, IsFiniteSet(S), NEW rank \in [S -> Int], NEW x \in S
    PROVE  Position(SortedBy(S, rank), x) = Cardinality(UpTo(S, rank, x))
<1> DEFINE q == SortedBy(S, rank)
           k == Cardinality(UpTo(S, rank, x))
<1>1. k \in 1..Cardinality(S)
  BY UpToFinite
<1>2. k \in DOMAIN q /\ q[k] = x
  <2>1. DOMAIN q = 1..Cardinality(S)
    BY DEF SortedBy
  <2>2. q[k] = CHOOSE y \in S : Cardinality(UpTo(S, rank, y)) = k
    BY <1>1 DEF SortedBy
  <2>3. \A y \in S : Cardinality(UpTo(S, rank, y)) = k => y = x
    BY UpToInjective
  <2>4. QED
    BY <1>1, <2>1, <2>2, <2>3
<1>3. NoDuplicates(q)
  BY SortedByLists
<1>4. QED
  BY <1>2, <1>3, PositionOf

\* A job of smaller rank stands before one of larger rank.
THEOREM SortedByOrders ==
    ASSUME NEW S \in SUBSET Int, IsFiniteSet(S), NEW rank \in [S -> Int],
           NEW x \in S, NEW y \in S, rank[x] < rank[y]
    PROVE  Position(SortedBy(S, rank), x) < Position(SortedBy(S, rank), y)
<1> DEFINE upX == UpTo(S, rank, x)
           upY == UpTo(S, rank, y)
<1>1. /\ \A z \in S : rank[z] \in Int /\ z \in Int
      /\ rank[x] \in Int /\ rank[y] \in Int
  OBVIOUS
<1>2. \A z \in S : rank[z] < rank[x] \/ (rank[z] = rank[x] /\ z <= x) => rank[z] < rank[y]
  BY <1>1
<1>3. upX \in SUBSET upY /\ y \in upY /\ y \notin upX
  <2>1. upX \in SUBSET upY
    BY <1>2 DEF UpTo
  <2>2. y \in upY /\ y \notin upX
    BY <1>1 DEF UpTo
  <2>3. QED
    BY <2>1, <2>2
<1>4. /\ IsFiniteSet(upX) /\ Cardinality(upX) \in 1..Cardinality(S)
      /\ IsFiniteSet(upY) /\ Cardinality(upY) \in 1..Cardinality(S)
  BY UpToFinite
<1> HIDE DEF upX, upY
<1>5. Cardinality(upX) <= Cardinality(upY) /\ Cardinality(upX) # Cardinality(upY)
  BY <1>3, <1>4, FS_Subset
<1>6. Cardinality(S) \in Nat
  BY FS_CardinalityType
<1>7. Cardinality(upX) < Cardinality(upY)
  BY <1>4, <1>5, <1>6
<1>8. QED
  BY <1>7, SortedByPosition DEF upX, upY

\* Taking jobs out of a queue leaves the others in the order they had.
THEOREM WithoutKeepsOrder ==
    ASSUME NEW S \in SUBSET Int, NEW q \in Seq(S), NEW ids,
           NEW x \in Members(q) \ ids, NEW y \in Members(q) \ ids,
           Position(q, x) < Position(q, y)
    PROVE  Position(Without(q, ids), x) < Position(Without(q, ids), y)
<1> DEFINE rest == Members(q) \ ids
           rank == [z \in rest |-> Position(q, z)]
<1>1. rest \in SUBSET Int /\ IsFiniteSet(rest)
  BY MembersFinite, FS_Subset
<1>2. rank \in [rest -> Int]
  <2>1. \A z \in rest : Position(q, z) \in DOMAIN q
    BY DEF Position, Members
  <2>2. DOMAIN q \in SUBSET Int
    BY LenProperties
  <2>3. QED
    BY <2>1, <2>2
<1>3. rank[x] < rank[y] /\ x \in rest /\ y \in rest
  OBVIOUS
<1>4. Without(q, ids) = SortedBy(rest, rank)
  BY DEF Without
<1> HIDE DEF rest, rank
<1>5. QED
  BY <1>1, <1>2, <1>3, <1>4, SortedByOrders

\* A queue without repetitions has as many members as places; the first k of them
\* are k.
LEMMA MembersCount ==
    ASSUME NEW S, NEW q \in Seq(S), NoDuplicates(q), NEW k \in 0..Len(q)
    PROVE  /\ IsFiniteSet({q[i] : i \in 1..k})
           /\ Cardinality({q[i] : i \in 1..k}) = k
<1> DEFINE first == {q[i] : i \in 1..k}
           f == [i \in 1..k |-> q[i]]
<1>1. Len(q) \in Nat /\ DOMAIN q = 1..Len(q)
  BY LenProperties
<1>2. k \in Nat /\ 1..k \subseteq DOMAIN q
  BY <1>1
<1>3. IsFiniteSet(1..k) /\ Cardinality(1..k) = k
  BY <1>2, FS_Interval
<1>4. f \in Bijection(1..k, first)
  <2>1. f \in Injection(1..k, first)
    BY <1>2 DEF Injection, IsInjective, NoDuplicates
  <2>2. f \in Surjection(1..k, first)
    BY DEF Surjection
  <2>3. QED
    BY <2>1, <2>2 DEF Bijection
<1> HIDE DEF first, f
<1>5. IsFiniteSet(first) /\ Cardinality(first) = Cardinality(1..k)
  BY <1>3, <1>4, FS_Bijection DEF ExistsBijection
<1>6. QED
  BY <1>3, <1>5 DEF first

\* A queue whose jobs have growing ranks is the list sorted by those ranks: sorting
\* the members of a queue by their places gives the queue back.
THEOREM SortedByOwnOrder ==
    ASSUME NEW S \in SUBSET Int, NEW q \in Seq(S), NoDuplicates(q),
           NEW rank \in [Members(q) -> Int],
           \A i, j \in DOMAIN q : i < j => rank[q[i]] < rank[q[j]]
    PROVE  SortedBy(Members(q), rank) = q
<1> DEFINE all == Members(q)
<1>1. Len(q) \in Nat /\ DOMAIN q = 1..Len(q) /\ q \in [1..Len(q) -> S]
  BY LenProperties
<1>2. all \in SUBSET Int /\ IsFiniteSet(all)
  BY MembersFinite
<1>3. Cardinality(all) = Len(q)
  <2>1. all = {q[i] : i \in 1..Len(q)}
    BY <1>1 DEF Members
  <2>2. Len(q) \in 0..Len(q)
    BY <1>1
  <2>3. QED
    BY <2>1, <2>2, MembersCount
<1>4. ASSUME NEW k \in DOMAIN q
      PROVE  SortedBy(all, rank)[k] = q[k]
  <2>1. UpTo(all, rank, q[k]) = {q[i] : i \in 1..k}
    <3>1. ASSUME NEW i \in DOMAIN q
          PROVE  (rank[q[i]] < rank[q[k]] \/ (rank[q[i]] = rank[q[k]] /\ q[i] <= q[k])) <=> i <= k
      <4>1. rank[q[i]] \in Int /\ rank[q[k]] \in Int /\ q[i] \in Int /\ i \in Int /\ k \in Int
        <5>1. q[i] \in all /\ q[k] \in all
          BY DEF Members
        <5>2. q[i] \in Int
          BY <1>2, <5>1
        <5>3. QED
          BY <1>1, <5>1, <5>2
      <4>2. CASE i < k
        BY <4>1, <4>2
      <4>3. CASE i = k
        BY <4>1, <4>3
      <4>4. CASE k < i
        <5>1. rank[q[k]] < rank[q[i]]
          BY <4>4
        <5>2. QED
          BY <4>1, <4>4, <5>1
      <4>5. QED
        BY <4>1, <4>2, <4>3, <4>4
    <3>2. \A i \in 1..k : i \in DOMAIN q /\ i <= k
      BY <1>1
    <3>3. \A i \in DOMAIN q : i <= k => i \in 1..k
      BY <1>1
    <3>4. QED
      BY <3>1, <3>2, <3>3 DEF UpTo, Members
  <2>2. Cardinality(UpTo(all, rank, q[k])) = k
    <3>1. k \in 0..Len(q)
      BY <1>1
    <3>2. QED
      BY <2>1, <3>1, MembersCount
  <2>3. q[k] \in all
    BY DEF Members
  <2>4. \A y \in all : Cardinality(UpTo(all, rank, y)) = k => y = q[k]
    <3> HIDE DEF all
    <3> QED
      BY <1>2, <2>2, <2>3, UpToInjective DEF all
  <2>5. SortedBy(all, rank)[k] = CHOOSE y \in all : Cardinality(UpTo(all, rank, y)) = k
    BY <1>1, <1>3 DEF SortedBy
  <2>6. QED
    BY <2>2, <2>3, <2>4, <2>5
<1>5. SortedBy(all, rank) = [k \in 1..Len(q) |-> SortedBy(all, rank)[k]]
  BY <1>3 DEF SortedBy
<1>6. QED
  BY <1>1, <1>4, <1>5

\* Picking entries of a list gives a list of exactly those, without repetitions if the
\* list had none.
THEOREM PickedLists ==
    ASSUME NEW S, NEW q \in Seq(S), NEW places \in SUBSET (DOMAIN q)
    PROVE  /\ Picked(q, places) \in Seq(S)
           /\ Members(Picked(q, places)) = {q[i] : i \in places}
           /\ NoDuplicates(q) => NoDuplicates(Picked(q, places))
<1> DEFINE order == Ascending(places)
           p == Picked(q, places)
<1>1. Len(q) \in Nat /\ DOMAIN q = 1..Len(q) /\ q \in [1..Len(q) -> S]
  BY LenProperties
<1>2. places \in SUBSET Int /\ IsFiniteSet(places)
  <2>1. IsFiniteSet(1..Len(q))
    BY <1>1, FS_Interval
  <2> QED
    BY <1>1, <2>1, FS_Subset
<1>3. order \in Seq(places) /\ Members(order) = places /\ NoDuplicates(order)
  BY <1>2, AscendingLists
<1>4. Len(order) \in Nat /\ DOMAIN order = 1..Len(order)
  BY <1>3, LenProperties
<1>5. p = [n \in DOMAIN order |-> q[order[n]]]
  BY DEF Picked
<1> HIDE DEF order, p
<1>6. \A n \in DOMAIN order : order[n] \in places
  BY <1>3 DEF Members
<1>7. p \in Seq(S)
  <2>1. \A n \in 1..Len(order) : p[n] \in S
    BY <1>1, <1>4, <1>5, <1>6
  <2> QED
    BY <1>4, <1>5, <2>1, IsASeq
<1>8. Members(p) = {q[i] : i \in places}
  BY <1>3, <1>5, <1>6 DEF Members
<1>9. ASSUME NoDuplicates(q) PROVE NoDuplicates(p)
  BY <1>3, <1>5, <1>6, <1>9 DEF NoDuplicates
<1> QED
  BY <1>7, <1>8, <1>9 DEF p

\* Picking every entry of a list gives the list.
THEOREM PickedAll ==
    ASSUME NEW S, NEW q \in Seq(S)
    PROVE  Picked(q, DOMAIN q) = q
<1> DEFINE places == [i \in 1..Len(q) |-> i]
<1>1. Len(q) \in Nat /\ DOMAIN q = 1..Len(q) /\ q \in [1..Len(q) -> S]
  BY LenProperties
<1>2. places \in Seq(Int)
  <2>1. \A i \in 1..Len(q) : i \in Int
    BY <1>1
  <2> QED
    BY <1>1, <2>1, IsASeq
<1>3. NoDuplicates(places) /\ Members(places) = DOMAIN q
  BY <1>1 DEF NoDuplicates, Members
<1>4. SortedBy(Members(places), [x \in DOMAIN q |-> x]) = places
  <2> DEFINE rank == [x \in DOMAIN q |-> x]
  <2>1. rank \in [Members(places) -> Int]
    BY <1>1, <1>3
  <2>2. \A i, j \in DOMAIN places : i < j => rank[places[i]] < rank[places[j]]
    BY <1>1
  <2> HIDE DEF rank, places
  <2> QED
    BY <1>2, <1>3, <2>1, <2>2, SortedByOwnOrder DEF rank
<1>5. Ascending(DOMAIN q) = places
  BY <1>3, <1>4 DEF Ascending
<1> QED
  BY <1>1, <1>5 DEF Picked

\* A nonempty set of natural numbers has a smallest member.
THEOREM SmallestExists ==
    ASSUME NEW S \in SUBSET Nat, S # {}
    PROVE  \E x \in S : \A y \in S : x <= y
<1>1. \E x \in S : \A y \in S : ~(<<y, x>> \in OpToRel(<, Nat))
  BY WFMin, NatLessThanWellFounded
<1>2. \E x \in S : \A y \in S : ~(y < x)
  BY <1>1, Zenon DEF OpToRel
<1> QED
  BY <1>2

\* A nonempty set of places of a list has a largest member.
THEOREM LargestExists ==
    ASSUME NEW n \in Nat, NEW S \in SUBSET (1..n), S # {}
    PROVE  \E x \in S : \A y \in S : y <= x
<1> DEFINE T == {n - x : x \in S}
<1>1. T \in SUBSET Nat /\ T # {}
  <2>1. \A x \in S : n - x \in Nat /\ n - x \in T
    OBVIOUS
  <2>2. T \in SUBSET Nat
    BY <2>1
  <2>3. T # {}
    BY <2>1
  <2> QED
    BY <2>2, <2>3
<1>2. PICK d \in T : \A e \in T : d <= e
  <2> HIDE DEF T
  <2> QED
    BY <1>1, SmallestExists
<1>3. PICK x \in S : d = n - x
  BY <1>2
<1>4. \A y \in S : n - y \in T
  OBVIOUS
<1>5. \A y \in S : n - x <= n - y
  BY <1>2, <1>3, <1>4
<1>6. \A y \in S : y <= x
  BY <1>5
<1> QED
  BY <1>6

================================================================================
