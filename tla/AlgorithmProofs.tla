---------------------------- MODULE AlgorithmProofs ----------------------------
(***************************************************************************)
(* What the algorithms return for every input: those over the makefile,    *)
(* the variables of the preferences, the records of the log and the        *)
(* expressions of filters.  Their loops are functions, and the proofs are  *)
(* over the rounds they take (EveryRound and RoundsExist).                 *)
(***************************************************************************)
EXTENDS Algorithms, SequenceFacts, FiniteSetTheorems

-------------------------------------------------------------------------------
(* The makefile that is out of date is made before a build.               *)

IsStating(g, deps, files, mf_mtime, errno) ==
    g = [i \in 0..Len(deps) |->
            IF i = 0 THEN [errno |-> errno, mtime |-> mf_mtime]
            ELSE Stat(files[deps[i]], g[i - 1])]

LEMMA NeedsLoop ==
    ASSUME NEW deps, NEW files, NEW mf_mtime, NEW errno
    PROVE  Needs(deps, files, mf_mtime, errno) =
              \E i \in DOMAIN deps :
                 \/ (CHOOSE g : IsStating(g, deps, files, mf_mtime, errno))[i].errno = "ENOENT"
                 \/ (CHOOSE g : IsStating(g, deps, files, mf_mtime, errno))[i].mtime > mf_mtime
  BY Zenon DEF Needs, IsStating

LEMMA StatingExists ==
    ASSUME NEW Names, NEW deps \in Seq(Names), NEW files \in [Names -> Int],
           NEW mf_mtime \in Int, NEW errno
    PROVE  \E g : IsStating(g, deps, files, mf_mtime, errno)
<1> DEFINE n == Len(deps)
           X == [errno : {errno, "ENOENT", "EACCES"}, mtime : Int]
           x == [errno |-> errno, mtime |-> mf_mtime]
           s == [p \in (1..n) \X X |-> Stat(files[deps[p[1]]], p[2])]
<1>1. n \in Nat /\ x \in X
  OBVIOUS
<1>2. ASSUME NEW j \in 1..n, NEW w \in X
      PROVE  Stat(files[deps[j]], w) \in X
  <2>1. files[deps[j]] \in Int
    OBVIOUS
  <2>2. QED
    BY <2>1 DEF Stat
<1>3. \A j \in 1..n, w \in X : s[<<j, w>>] = Stat(files[deps[j]], w)
  OBVIOUS
<1>4. s \in [(1..n) \X X -> X]
  <2>1. \A p \in (1..n) \X X : p[1] \in 1..n /\ p[2] \in X
    OBVIOUS
  <2> HIDE DEF X
  <2> QED
    BY <1>2, <2>1
<1>n. n = Len(deps)
  OBVIOUS
<1> HIDE DEF n, X, x, s
<1>5. PICK g \in [0..n -> X] : IsRounds(g, n, x, s)
  BY <1>1, <1>4, RoundsExist
<1>6. ASSUME NEW j \in 0..n, j # 0
      PROVE  g[j] = Stat(files[deps[j]], g[j - 1])
  <2>1. j \in 1..n /\ j - 1 \in 0..n
    BY <1>1, <1>6
  <2> QED
    BY <1>3, <1>5, <2>1 DEF IsRounds
<1>7. \A j \in 0..n : g[j] = IF j = 0 THEN x ELSE Stat(files[deps[j]], g[j - 1])
  BY <1>5, <1>6 DEF IsRounds
<1> QED
  BY <1>7, <1>n DEF IsStating, x

\* A makefile out of date is made, of whatever it depends on.
LEMMA StaleMade ==
    ASSUME NEW Names, NEW makefile \in Names, NEW deps \in Seq(Names),
           NEW files \in [Names -> {Missing, Unreadable} \cup Nat],
           NEW errno
    PROVE  StaleIsMade(makefile, deps, files, errno)
<1> DEFINE n == Len(deps)
           mf_mtime == files[makefile]
<1>1. /\ files \in [Names -> Int] /\ mf_mtime \in Int /\ n \in Nat
      /\ DOMAIN deps = 1..n
      /\ \A i \in 1..n : files[deps[i]] \in Int
                          /\ (files[deps[i]] >= 0 \/ files[deps[i]] = Missing
                                \/ files[deps[i]] = Unreadable)
  BY DEF Missing, Unreadable
<1>2. ASSUME NEW e
      PROVE  \E g : /\ g[0] = [errno |-> e, mtime |-> mf_mtime]
                    /\ \A i \in 1..n : g[i] = Stat(files[deps[i]], g[i - 1])
                    /\ Needs(deps, files, mf_mtime, e) =
                         \E i \in 1..n : g[i].errno = "ENOENT" \/ g[i].mtime > mf_mtime
  <2> DEFINE g == CHOOSE h : IsStating(h, deps, files, mf_mtime, e)
  <2>1. IsStating(g, deps, files, mf_mtime, e)
    BY <1>1, StatingExists
  <2>2. Needs(deps, files, mf_mtime, e) =
           \E i \in DOMAIN deps : g[i].errno = "ENOENT" \/ g[i].mtime > mf_mtime
    BY NeedsLoop
  <2> HIDE DEF g
  <2>3. \A i \in 0..n : g[i] = IF i = 0 THEN [errno |-> e, mtime |-> mf_mtime]
                               ELSE Stat(files[deps[i]], g[i - 1])
    BY <2>1 DEF IsStating
  <2>4. 0 \in 0..n /\ \A i \in 1..n : i \in 0..n /\ i # 0
    BY <1>1
  <2> QED
    BY <1>1, <2>2, <2>3, <2>4
<1>3. ASSUME mf_mtime # Unreadable, IsStale(makefile, deps, files)
      PROVE  ms_makefile_needs_update(TRUE, makefile, deps, files, errno)
  <2>1. CASE mf_mtime = Missing
    BY <2>1 DEF ms_makefile_needs_update, Missing, Unreadable
  <2>2. CASE mf_mtime # Missing
    <3>1. mf_mtime >= 0
      BY <1>3, <2>2
    <3>2. PICK i \in 1..n : files[deps[i]] = Missing \/ files[deps[i]] > mf_mtime
      BY <1>1, <1>3, <2>2 DEF IsStale
    <3>3. PICK g : /\ g[0] = [errno |-> errno, mtime |-> mf_mtime]
                   /\ \A j \in 1..n : g[j] = Stat(files[deps[j]], g[j - 1])
                   /\ Needs(deps, files, mf_mtime, errno) =
                        \E j \in 1..n : g[j].errno = "ENOENT" \/ g[j].mtime > mf_mtime
      BY <1>2
    <3>4. g[i] = Stat(files[deps[i]], g[i - 1])
      BY <3>3
    <3>5. g[i].errno = "ENOENT" \/ g[i].mtime > mf_mtime
      <4>1. CASE files[deps[i]] = Missing
        BY <3>4, <4>1 DEF Stat
      <4>2. CASE files[deps[i]] > mf_mtime
        <5>1. files[deps[i]] >= 0
          BY <1>1, <3>1, <4>2
        <5> QED
          BY <3>4, <4>2, <5>1 DEF Stat
      <4> QED
        BY <3>2, <4>1, <4>2
    <3>6. Needs(deps, files, mf_mtime, errno)
      BY <3>3, <3>5
    <3> QED
      BY <1>3, <2>2, <3>6 DEF ms_makefile_needs_update
  <2> QED
    BY <2>1, <2>2
<1>4. ASSUME ms_makefile_needs_update(TRUE, makefile, deps, files, "none")
      PROVE  IsStale(makefile, deps, files)
  <2>1. CASE mf_mtime = Missing
    BY <2>1 DEF IsStale
  <2>2. CASE mf_mtime # Missing
    <3>1. mf_mtime # Unreadable /\ Needs(deps, files, mf_mtime, "none")
      BY <1>4, <2>2 DEF ms_makefile_needs_update
    <3>2. PICK g : /\ g[0] = [errno |-> "none", mtime |-> mf_mtime]
                   /\ \A j \in 1..n : g[j] = Stat(files[deps[j]], g[j - 1])
                   /\ Needs(deps, files, mf_mtime, "none") =
                        \E j \in 1..n : g[j].errno = "ENOENT" \/ g[j].mtime > mf_mtime
      BY <1>2
    <3>3. PICK i \in 1..n : g[i].errno = "ENOENT" \/ g[i].mtime > mf_mtime
      BY <3>1, <3>2
    <3> DEFINE Fresh(j) == files[deps[j]] # Missing /\ ~ (files[deps[j]] > mf_mtime)
               T == {j \in 0..n : g[j].errno # "ENOENT" /\ ~ (g[j].mtime > mf_mtime)}
    <3>4. ASSUME \A j \in 1..n : Fresh(j)
          PROVE  FALSE
      <4>1. 0 \in T
        BY <1>1, <3>2
      <4>2. ASSUME NEW j \in 0+1..n, j - 1 \in T
            PROVE  j \in T
        <5>1. g[j] = Stat(files[deps[j]], g[j - 1]) /\ Fresh(j)
          BY <3>2, <3>4
        <5>2. g[j - 1].errno # "ENOENT" /\ ~ (g[j - 1].mtime > mf_mtime)
          BY <4>2
        <5>3. g[j].errno # "ENOENT"
          BY <5>1, <5>2 DEF Stat
        <5>4. ~ (g[j].mtime > mf_mtime)
          BY <5>1, <5>2 DEF Stat
        <5> QED
          BY <5>3, <5>4
      <4>3. \A j \in 0..n : j \in T
        <5> HIDE DEF T
        <5> QED
          BY <1>1, <4>1, <4>2, EveryRound
      <4> QED
        BY <3>3, <4>3
    <3> QED
      BY <1>1, <3>4 DEF IsStale
  <2> QED
    BY <2>1, <2>2
<1> QED
  BY <1>3, <1>4 DEF StaleIsMade

-------------------------------------------------------------------------------
(* Names in order, and the targets that are offered.                       *)

\* q goes up.
Rises(q) == \A i, j \in DOMAIN q : i < j => q[i] < q[j]

LEMMA RankRises ==
    ASSUME NEW S \in SUBSET Int, IsFiniteSet(S), NEW x \in S, NEW y \in S, x < y
    PROVE  Cardinality({z \in S : z <= x}) < Cardinality({z \in S : z <= y})
<1> DEFINE A == {z \in S : z <= x}
           B == {z \in S : z <= y}
<1>1. A \in SUBSET S /\ B \in SUBSET S /\ A \in SUBSET B /\ y \in B /\ y \notin A
  <2>1. x \in Int /\ y \in Int /\ \A z \in S : z \in Int
    OBVIOUS
  <2>2. A \in SUBSET B
    <3>1. \A z \in Int : z <= x => z <= y
      BY <2>1
    <3> QED
      BY <2>1, <3>1
  <2>3. y \in B /\ y \notin A
    BY <2>1
  <2> QED
    BY <2>2, <2>3
<1> HIDE DEF A, B
<1>2. IsFiniteSet(A) /\ IsFiniteSet(B)
  BY <1>1, FS_Subset
<1>3. Cardinality(A) <= Cardinality(B) /\ (Cardinality(B) = Cardinality(A) => B = A)
  BY <1>1, <1>2, FS_Subset
<1>4. Cardinality(A) \in Nat /\ Cardinality(B) \in Nat
  BY <1>2, FS_CardinalityType
<1>5. Cardinality(A) < Cardinality(B)
  BY <1>1, <1>3, <1>4
<1> QED
  BY <1>5 DEF A, B

LEMMA SortedExists ==
    ASSUME NEW S \in SUBSET Int, IsFiniteSet(S)
    PROVE  \E q \in [1..Cardinality(S) -> S] : Rises(q)
<1> DEFINE n == Cardinality(S)
           R(x) == {z \in S : z <= x}
           r == [x \in S |-> Cardinality(R(x))]
<1>1. n \in Nat
  BY FS_CardinalityType
<1>2. ASSUME NEW x \in S
      PROVE  Cardinality(R(x)) \in 1..n
  <2>1. R(x) \in SUBSET S /\ x \in R(x)
    OBVIOUS
  <2> HIDE DEF R
  <2>2. IsFiniteSet(R(x)) /\ Cardinality(R(x)) <= n
    BY <2>1, FS_Subset
  <2>3. Cardinality(R(x)) \in Nat /\ Cardinality(R(x)) # 0
    BY <2>1, <2>2, FS_CardinalityType, FS_EmptySet
  <2> QED
    BY <1>1, <2>2, <2>3
<1>3. \A x, y \in S : x < y => r[x] < r[y]
  BY RankRises
<1>4. r \in [S -> 1..n]
  BY <1>2
<1> HIDE DEF r, n
<1>5. r \in Injection(S, 1..n)
  <2>1. \A x, y \in S : r[x] \in Int /\ r[y] \in Int /\ (x = y \/ x < y \/ y < x)
    BY <1>4
  <2>2. \A x, y \in S : r[x] = r[y] => x = y
    BY <1>3, <2>1
  <2> QED
    BY <1>4, <2>2 DEF Injection, IsInjective
<1>6. r \in Surjection(S, 1..n)
  <2>1. IsFiniteSet(1..n) /\ Cardinality(1..n) = n
    BY <1>1, FS_Interval
  <2> QED
    BY <1>5, <2>1, FS_Injection DEF n
<1>7. \A i \in 1..n : \E x \in S : r[x] = i
  BY <1>6 DEF Surjection
<1> DEFINE q == [i \in 1..n |-> CHOOSE x \in S : r[x] = i]
<1>8. \A i \in 1..n : q[i] \in S /\ r[q[i]] = i
  BY <1>7
<1>9. q \in [1..n -> S]
  BY <1>8
<1> HIDE DEF q
<1>10. ASSUME NEW i \in 1..n, NEW j \in 1..n, i < j
       PROVE  q[i] < q[j]
  <2>1. q[i] \in S /\ q[j] \in S /\ r[q[i]] = i /\ r[q[j]] = j
    BY <1>8
  <2>2. i \in Int /\ j \in Int /\ q[i] \in Int /\ q[j] \in Int
    <3>1. i \in Int /\ j \in Int
      BY <1>1
    <3> QED
      BY <2>1, <3>1
  <2>3. q[i] # q[j]
    BY <1>10, <2>1, <2>2
  <2>4. ~ (q[j] < q[i])
    BY <1>3, <1>10, <2>1, <2>2
  <2> QED
    BY <2>2, <2>3, <2>4
<1>11. Rises(q)
  BY <1>9, <1>10 DEF Rises
<1> QED
  BY <1>9, <1>11 DEF n

\* Sorting keeps the elements and puts them into order.
LEMMA SortedProperties ==
    ASSUME NEW S \in SUBSET Int, IsFiniteSet(S)
    PROVE  Sorted(S) \in Seq(S) /\ Rises(Sorted(S)) /\ ToSet(Sorted(S)) = S
<1> DEFINE n == Cardinality(S)
           q == Sorted(S)
<1>1. n \in Nat
  BY FS_CardinalityType
<1>2. q = CHOOSE p \in [1..n -> S] : Rises(p)
  BY Zenon DEF Sorted, Rises
<1>3. \E p \in [1..n -> S] : Rises(p)
  BY SortedExists
<1> HIDE DEF q
<1>4. q \in [1..n -> S] /\ Rises(q)
  BY <1>2, <1>3
<1>5. q \in Seq(S)
  BY <1>1, <1>4
<1>6. q \in Injection(1..n, S)
  <2>1. \A i, j \in 1..n : i = j \/ i < j \/ j < i
    BY <1>1
  <2>2. \A i, j \in 1..n : q[i] \in Int /\ q[j] \in Int
    BY <1>4
  <2>3. \A i, j \in 1..n : q[i] = q[j] => i = j
    BY <1>4, <2>1, <2>2 DEF Rises
  <2> QED
    BY <1>4, <2>3 DEF Injection, IsInjective
<1>7. q \in Surjection(1..n, S)
  <2>1. IsFiniteSet(1..n) /\ Cardinality(1..n) = n
    BY <1>1, FS_Interval
  <2> QED
    BY <1>6, <2>1, FS_Injection
<1>8. ToSet(q) = S
  <2>1. \A x \in S : \E i \in 1..n : q[i] = x
    BY <1>7 DEF Surjection
  <2> QED
    BY <1>4, <2>1 DEF ToSet
<1> QED
  BY <1>4, <1>5, <1>8 DEF q

LEMMA ElementsFinite ==
    ASSUME NEW S, NEW q \in Seq(S)
    PROVE  IsFiniteSet(ToSet(q)) /\ ToSet(q) \in SUBSET S
<1>1. IsFiniteSet(1..Len(q))
  BY FS_Interval
<1>2. q \in Surjection(1..Len(q), ToSet(q))
  BY DEF Surjection, ToSet
<1>3. IsFiniteSet(ToSet(q))
  BY <1>1, <1>2, FS_Surjection
<1>4. ToSet(q) \in SUBSET S
  BY DEF ToSet
<1> QED
  BY <1>3, <1>4

LEMMA SeqWider ==
    ASSUME NEW S, NEW T, S \in SUBSET T, NEW q \in Seq(S)
    PROVE  q \in Seq(T)
  OBVIOUS

LEMMA RisesOnce ==
    ASSUME NEW q \in Seq(Int), Rises(q)
    PROVE  IsInjective(q)
<1>1. \A i, j \in DOMAIN q : i \in Int /\ j \in Int /\ q[i] \in Int /\ q[j] \in Int
  OBVIOUS
<1>2. \A i, j \in DOMAIN q : (i = j \/ i < j \/ j < i)
  OBVIOUS
<1> QED
  BY <1>1, <1>2 DEF Rises, IsInjective

\* The targets in the menu: each once, the standard ones first, in order.
LEMMA SetTargets ==
    ASSUME Targets \in SUBSET Int, NEW targets \in Seq(Targets)
    PROVE  /\ ToSet(set_targets(targets)) = ToSet(targets)
           /\ IsInjective(set_targets(targets))
           /\ \A i, j \in DOMAIN set_targets(targets) : i < j =>
                 \/ /\ set_targets(targets)[i] \in Standard
                    /\ set_targets(targets)[j] \notin Standard
                 \/ /\ set_targets(targets)[i] \in Standard
                          <=> set_targets(targets)[j] \in Standard
                    /\ set_targets(targets)[i] < set_targets(targets)[j]
<1> DEFINE A == ToSet(targets) \cap Standard
           B == ToSet(targets) \ Standard
           p == Sorted(A)
           q == Sorted(B)
           r == p \o q
<1>1. set_targets(targets) = r
  BY DEF set_targets
<1>2. /\ A \in SUBSET Int /\ IsFiniteSet(A) /\ B \in SUBSET Int /\ IsFiniteSet(B)
      /\ A \cup B = ToSet(targets)
      /\ \A x \in A : x \in Standard
      /\ \A x \in B : x \notin Standard
  <2>1. IsFiniteSet(ToSet(targets)) /\ ToSet(targets) \in SUBSET Targets
    BY ElementsFinite
  <2>2. A \in SUBSET ToSet(targets) /\ B \in SUBSET ToSet(targets)
    OBVIOUS
  <2>3. IsFiniteSet(A) /\ IsFiniteSet(B)
    BY <2>1, <2>2, FS_Subset
  <2> QED
    BY <2>1, <2>3
<1> HIDE DEF A, B
<1>3. p \in Seq(A) /\ Rises(p) /\ ToSet(p) = A
  BY <1>2, SortedProperties
<1>4. q \in Seq(B) /\ Rises(q) /\ ToSet(q) = B
  BY <1>2, SortedProperties
<1> HIDE DEF p, q
<1>5. p \in Seq(Int) /\ q \in Seq(Int)
  BY <1>2, <1>3, <1>4, SeqWider
<1>6. r \in Seq(Int)
  BY <1>5, ConcatProperties
<1>7. ToSet(r) = A \cup B
  <2>1. \A x : On(r, x) <=> On(p, x) \/ On(q, x)
    BY <1>5, OnConcat
  <2>2. \A x : (On(p, x) <=> x \in A) /\ (On(q, x) <=> x \in B)
    BY <1>3, <1>4, <1>5, OnIsToSet
  <2>3. \A x : On(r, x) <=> x \in ToSet(r)
    BY <1>6, OnIsToSet
  <2> QED
    BY <2>1, <2>2, <2>3
<1>8. IsInjective(r)
  <2>1. \A x : (On(p, x) <=> x \in A) /\ (On(q, x) <=> x \in B)
    BY <1>3, <1>4, <1>5, OnIsToSet
  <2>2. \A x : ~ (On(p, x) /\ On(q, x))
    BY <1>2, <2>1
  <2>3. IsInjective(p) /\ IsInjective(q)
    BY <1>3, <1>4, <1>5, RisesOnce
  <2> QED
    BY <1>5, <2>2, <2>3, ConcatInjective
<1>9. ASSUME NEW i \in DOMAIN r, NEW j \in DOMAIN r, i < j
      PROVE  \/ r[i] \in Standard /\ r[j] \notin Standard
             \/ (r[i] \in Standard <=> r[j] \in Standard) /\ r[i] < r[j]
  <2>1. Len(p) \in Nat /\ Len(q) \in Nat /\ i \in 1..Len(p) + Len(q) /\ j \in 1..Len(p) + Len(q)
    BY <1>5, <1>6, ConcatProperties
  <2>2. CASE j <= Len(p)
    <3>1. i \in DOMAIN p /\ j \in DOMAIN p /\ r[i] = p[i] /\ r[j] = p[j]
      BY <1>5, <1>9, <2>1, <2>2
    <3>2. p[i] < p[j] /\ p[i] \in A /\ p[j] \in A
      BY <1>3, <1>9, <3>1 DEF Rises
    <3> QED
      BY <1>2, <3>1, <3>2
  <2>3. CASE i > Len(p)
    <3>1. i - Len(p) \in DOMAIN q /\ j - Len(p) \in DOMAIN q
      BY <1>5, <1>9, <2>1, <2>3
    <3>2. r[i] = q[i - Len(p)] /\ r[j] = q[j - Len(p)]
      BY <1>5, <1>9, <2>1, <2>3
    <3>3. i - Len(p) < j - Len(p)
      BY <1>9, <2>1
    <3>4. q[i - Len(p)] < q[j - Len(p)] /\ q[i - Len(p)] \in B /\ q[j - Len(p)] \in B
      BY <1>4, <3>1, <3>3 DEF Rises
    <3> QED
      BY <1>2, <3>2, <3>4
  <2>4. CASE i <= Len(p) /\ j > Len(p)
    <3>1. i \in DOMAIN p /\ r[i] = p[i] /\ p[i] \in A
      BY <1>3, <1>5, <2>1, <2>4
    <3>2. j - Len(p) \in DOMAIN q /\ r[j] = q[j - Len(p)]
      BY <1>5, <2>1, <2>4
    <3>3. q[j - Len(p)] \in B
      BY <1>4, <3>2
    <3> QED
      BY <1>2, <3>1, <3>2, <3>3
  <2> QED
    BY <2>1, <2>2, <2>3, <2>4
<1> HIDE DEF r
<1> QED
  BY <1>1, <1>2, <1>7, <1>8, <1>9
-------------------------------------------------------------------------------
IsReading(g, output) ==
    g = [i \in 0..Len(output) |->
            IF i = 0 THEN BeforeOutput
            ELSE gmake_list_targets_input(g[i - 1], output[i])]

LEMMA ReadingLoop ==
    ASSUME NEW output
    PROVE  available_targets(output, TRUE) =
              gmake_list_targets_reap(
                 (CHOOSE g : IsReading(g, output))[Len(output)], TRUE)
  BY Zenon DEF available_targets, IsReading

\* What the parser knows between two lines.
Parsers == [is_file : BOOLEAN, is_target : BOOLEAN, no_rule : BOOLEAN,
            targets : Seq(Targets)]

LEMMA InputParses ==
    ASSUME NEW ltt \in Parsers, NEW line \in OutputLines
    PROVE  /\ IsRule(line) =>
                 /\ gmake_list_targets_input(ltt, line).is_file = ltt.is_file
                 /\ gmake_list_targets_input(ltt, line).is_target = TRUE
                 /\ gmake_list_targets_input(ltt, line).targets =
                      IF ltt.is_file /\ ltt.is_target /\ line.rule \notin Hidden
                      THEN Append(ltt.targets, line.rule) ELSE ltt.targets
                 /\ line.rule \in Targets
           /\ ~ IsRule(line) =>
                 /\ gmake_list_targets_input(ltt, line).is_file =
                      (line.mark = "Files"
                        \/ (ltt.is_file /\ line.mark # "SearchPaths"))
                 /\ gmake_list_targets_input(ltt, line).is_target =
                      (ltt.is_target /\ line.mark # "NotATarget")
                 /\ gmake_list_targets_input(ltt, line).targets = ltt.targets
           /\ gmake_list_targets_input(ltt, line) \in Parsers
<1> DEFINE new == gmake_list_targets_input(ltt, line)
<1>1. CASE line \in [rule : Targets]
  <2>1. IsRule(line) /\ line.rule \in Targets
    BY <1>1 DEF IsRule
  <2> DEFINE q == IF ltt.is_file /\ ltt.is_target /\ line.rule \notin Hidden
                  THEN Append(ltt.targets, line.rule) ELSE ltt.targets
  <2>2. new = [ltt EXCEPT !.is_target = TRUE, !.targets = q]
    BY <2>1 DEF gmake_list_targets_input
  <2>3. q \in Seq(Targets)
    BY <2>1 DEF Parsers
  <2> HIDE DEF q, new
  <2>4. new \in Parsers /\ new.is_file = ltt.is_file /\ new.is_target = TRUE
        /\ new.targets = q
    BY <2>2, <2>3 DEF Parsers
  <2> QED
    BY <2>1, <2>4 DEF q, new
<1>2. CASE line \in [mark : Marks]
  <2>1. ~ IsRule(line) /\ line.mark \in Marks
    BY <1>2 DEF IsRule
  <2>2. CASE line.mark = "Files"
    BY <2>1, <2>2 DEF gmake_list_targets_input, Parsers
  <2>3. CASE line.mark = "NotATarget"
    BY <2>1, <2>3 DEF gmake_list_targets_input, Parsers
  <2>4. CASE line.mark = "SearchPaths"
    BY <2>1, <2>4 DEF gmake_list_targets_input, Parsers
  <2>5. CASE line.mark = "NoRule"
    BY <2>1, <2>5 DEF gmake_list_targets_input, Parsers
  <2>6. CASE line.mark = "other"
    BY <2>1, <2>6 DEF gmake_list_targets_input, Parsers
  <2> QED
    BY <2>1, <2>2, <2>3, <2>4, <2>5, <2>6 DEF Marks
<1> QED
  BY <1>1, <1>2 DEF OutputLines

LEMMA ReadingExists ==
    ASSUME NEW output \in Seq(OutputLines)
    PROVE  \E g \in [0..Len(output) -> Parsers] : IsReading(g, output)
<1> DEFINE n == Len(output)
           s == [p \in (1..n) \X Parsers |->
                    gmake_list_targets_input(p[2], output[p[1]])]
<1>1. n \in Nat /\ BeforeOutput \in Parsers
  BY DEF BeforeOutput, Parsers
<1>2. ASSUME NEW j \in 1..n, NEW w \in Parsers
      PROVE  gmake_list_targets_input(w, output[j]) \in Parsers
  <2>1. output[j] \in OutputLines
    OBVIOUS
  <2> QED
    BY <2>1, InputParses
<1>3. \A j \in 1..n, w \in Parsers :
         s[<<j, w>>] = gmake_list_targets_input(w, output[j])
  OBVIOUS
<1>4. s \in [(1..n) \X Parsers -> Parsers]
  <2>1. \A p \in (1..n) \X Parsers : p[1] \in 1..n /\ p[2] \in Parsers
    OBVIOUS
  <2> QED
    BY <1>2, <2>1
<1>n. n = Len(output)
  OBVIOUS
<1> HIDE DEF n, s
<1>5. PICK g \in [0..n -> Parsers] : IsRounds(g, n, BeforeOutput, s)
  BY <1>1, <1>4, RoundsExist
<1>6. ASSUME NEW j \in 0..n, j # 0
      PROVE  g[j] = gmake_list_targets_input(g[j - 1], output[j])
  <2>1. j \in 1..n /\ j - 1 \in 0..n
    BY <1>1, <1>6
  <2> QED
    BY <1>3, <1>5, <2>1 DEF IsRounds
<1>7. \A j \in 0..n : g[j] = IF j = 0 THEN BeforeOutput
                             ELSE gmake_list_targets_input(g[j - 1], output[j])
  BY <1>5, <1>6 DEF IsRounds
<1>8. IsReading(g, output)
  BY <1>7, <1>n DEF IsReading
<1> QED
  BY <1>8, <1>n

\* Line j is this mark.
IsMark(output, j, mark) == ~ IsRule(output[j]) /\ output[j].mark = mark

\* Past the first i lines, the next one is in the section of files.
Inside(output, i) ==
    \E j \in 1..i : /\ IsMark(output, j, "Files")
                    /\ \A k \in j..i : ~ IsMark(output, k, "SearchPaths")

\* Past the first i lines, the next rule is not for a target.
Remarked(output, i) ==
    \E j \in 1..i : /\ IsMark(output, j, "NotATarget")
                    /\ \A k \in j..i : ~ IsRule(output[k])

Listed(output, j) ==
    /\ IsRule(output[j])
    /\ Inside(output, j - 1) /\ ~ Remarked(output, j - 1)
    /\ output[j].rule \notin Hidden

LEMMA InsideStep ==
    ASSUME NEW output, NEW i \in Nat
    PROVE  Inside(output, i + 1) <=>
              \/ IsMark(output, i + 1, "Files")
              \/ Inside(output, i) /\ ~ IsMark(output, i + 1, "SearchPaths")
<1> DEFINE Opens(j) == IsMark(output, j, "Files")
           Closes(j) == IsMark(output, j, "SearchPaths")
<1>1. ~ (Opens(i + 1) /\ Closes(i + 1))
  BY DEF IsMark
<1> HIDE DEF Opens, Closes
<1>2. /\ \A j : j \in 1..i+1 <=> j \in 1..i \/ j = i + 1
      /\ \A j \in 1..i : \A k : k \in j..i+1 <=> k \in j..i \/ k = i + 1
      /\ \A k : k \in i+1..i+1 <=> k = i + 1
  OBVIOUS
<1>3. (\E j \in 1..i+1 : Opens(j) /\ \A k \in j..i+1 : ~ Closes(k)) <=>
         \/ Opens(i + 1)
         \/ (\E j \in 1..i : Opens(j) /\ \A k \in j..i : ~ Closes(k)) /\ ~ Closes(i + 1)
  BY <1>1, <1>2
<1> QED
  BY <1>3 DEF Inside, Opens, Closes

LEMMA RemarkedStep ==
    ASSUME NEW output, NEW i \in Nat
    PROVE  Remarked(output, i + 1) <=>
              ~ IsRule(output[i + 1])
                /\ (IsMark(output, i + 1, "NotATarget") \/ Remarked(output, i))
<1> DEFINE Remark(j) == IsMark(output, j, "NotATarget")
           Rule(j) == IsRule(output[j])
<1>1. ~ (Remark(i + 1) /\ Rule(i + 1))
  BY DEF IsMark
<1> HIDE DEF Remark, Rule
<1>2. /\ \A j : j \in 1..i+1 <=> j \in 1..i \/ j = i + 1
      /\ \A j \in 1..i : \A k : k \in j..i+1 <=> k \in j..i \/ k = i + 1
      /\ \A k : k \in i+1..i+1 <=> k = i + 1
  OBVIOUS
<1>3. (\E j \in 1..i+1 : Remark(j) /\ \A k \in j..i+1 : ~ Rule(k)) <=>
         ~ Rule(i + 1) /\
            (Remark(i + 1) \/ (\E j \in 1..i : Remark(j) /\ \A k \in j..i : ~ Rule(k)))
  BY <1>1, <1>2
<1> QED
  BY <1>3 DEF Remarked, Remark, Rule

\* The parser knows in which section it is and what it has been told, and has
\* collected what is listed.
Knows(ltt, output, i) ==
    /\ ltt.is_file <=> Inside(output, i)
    /\ ltt.is_target <=> ~ Remarked(output, i)
    /\ \A x : On(ltt.targets, x) <=>
          \E j \in 1..i : Listed(output, j) /\ output[j].rule = x

LEMMA KnowsStep ==
    ASSUME NEW output \in Seq(OutputLines), NEW i \in Nat, i + 1 \in 1..Len(output),
           NEW ltt \in Parsers, Knows(ltt, output, i)
    PROVE  Knows(gmake_list_targets_input(ltt, output[i + 1]), output, i + 1)
<1> DEFINE line == output[i + 1]
           new == gmake_list_targets_input(ltt, line)
<1>1. line \in OutputLines
  OBVIOUS
<1>2. /\ ltt.is_file \in BOOLEAN /\ ltt.is_target \in BOOLEAN
      /\ ltt.targets \in Seq(Targets)
  BY DEF Parsers
<1>3. /\ ltt.is_file <=> Inside(output, i)
      /\ ltt.is_target <=> ~ Remarked(output, i)
      /\ \A x : On(ltt.targets, x) <=>
            \E j \in 1..i : Listed(output, j) /\ output[j].rule = x
  BY DEF Knows
<1>4. \A j : j \in 1..i+1 <=> j \in 1..i \/ j = i + 1
  OBVIOUS
<1>5. /\ Inside(output, i + 1) <=>
            \/ IsMark(output, i + 1, "Files")
            \/ Inside(output, i) /\ ~ IsMark(output, i + 1, "SearchPaths")
      /\ Remarked(output, i + 1) <=>
            ~ IsRule(line)
              /\ (IsMark(output, i + 1, "NotATarget") \/ Remarked(output, i))
  BY InsideStep, RemarkedStep
<1>6. i + 1 - 1 = i
  OBVIOUS
<1>7. Listed(output, i + 1) <=>
         IsRule(line) /\ ltt.is_file /\ ltt.is_target /\ line.rule \notin Hidden
  BY <1>3, <1>6 DEF Listed
<1>8. CASE IsRule(line)
  <2>1. /\ new.is_file = ltt.is_file
        /\ new.is_target = TRUE
        /\ new.targets =
             IF ltt.is_file /\ ltt.is_target /\ line.rule \notin Hidden
             THEN Append(ltt.targets, line.rule) ELSE ltt.targets
        /\ line.rule \in Targets
    BY <1>1, <1>8, InputParses
  <2> HIDE DEF new, line
  <2>2. \A x : On(Append(ltt.targets, line.rule), x)
                 <=> On(ltt.targets, x) \/ x = line.rule
    BY <1>2, <2>1, OnAppend
  <2>3. \A x : On(new.targets, x) <=>
                 On(ltt.targets, x) \/ (Listed(output, i + 1) /\ x = line.rule)
    BY <1>7, <1>8, <2>1, <2>2
  <2>4. \A x : On(new.targets, x) <=>
            \E j \in 1..i+1 : Listed(output, j) /\ output[j].rule = x
    BY <1>3, <1>4, <2>3 DEF line
  <2>5. ~ IsMark(output, i + 1, "Files") /\ ~ IsMark(output, i + 1, "SearchPaths")
    BY <1>8 DEF IsMark, line
  <2>6. (new.is_file <=> Inside(output, i + 1))
          /\ (new.is_target <=> ~ Remarked(output, i + 1))
    BY <1>3, <1>5, <1>8, <2>1, <2>5
  <2> QED
    BY <2>4, <2>6 DEF Knows, new, line
<1>9. CASE ~ IsRule(line)
  <2>1. /\ new.is_file = (line.mark = "Files" \/ (ltt.is_file /\ line.mark # "SearchPaths"))
        /\ new.is_target = (ltt.is_target /\ line.mark # "NotATarget")
        /\ new.targets = ltt.targets
    BY <1>1, <1>9, InputParses
  <2>2. /\ IsMark(output, i + 1, "Files") <=> line.mark = "Files"
        /\ IsMark(output, i + 1, "SearchPaths") <=> line.mark = "SearchPaths"
        /\ IsMark(output, i + 1, "NotATarget") <=> line.mark = "NotATarget"
    BY <1>9 DEF IsMark
  <2> HIDE DEF new, line
  <2>3. new.is_file <=> Inside(output, i + 1)
    BY <1>3, <1>5, <2>1, <2>2
  <2>4. new.is_target <=> ~ Remarked(output, i + 1)
    BY <1>3, <1>5, <1>9, <2>1, <2>2
  <2>5. \A x : On(new.targets, x) <=>
            \E j \in 1..i+1 : Listed(output, j) /\ output[j].rule = x
    BY <1>3, <1>4, <1>7, <1>9, <2>1
  <2> QED
    BY <2>3, <2>4, <2>5 DEF Knows, new, line
<1> QED
  BY <1>8, <1>9

LEMMA OutputKnown ==
    ASSUME NEW output \in Seq(OutputLines)
    PROVE  \E ltt \in Parsers :
              /\ available_targets(output, TRUE) = set_targets(ltt.targets)
              /\ Knows(ltt, output, Len(output))
<1> DEFINE n == Len(output)
           g == CHOOSE h : IsReading(h, output)
           T == {j \in 0..n : g[j] \in Parsers /\ Knows(g[j], output, j)}
<1>1. IsReading(g, output)
  BY ReadingExists
<1>2. available_targets(output, TRUE) = gmake_list_targets_reap(g[n], TRUE)
  BY ReadingLoop
<1> HIDE DEF g
<1>3. \A j \in 0..n : g[j] = IF j = 0 THEN BeforeOutput
                             ELSE gmake_list_targets_input(g[j - 1], output[j])
  BY <1>1 DEF IsReading
<1>4. n \in Nat
  OBVIOUS
<1>5. 0 \in T
  <2>1. 0 \in 0..n /\ \A j \in 1..0 : FALSE
    BY <1>4
  <2>2. g[0] = BeforeOutput /\ BeforeOutput \in Parsers
    BY <1>3, <2>1 DEF BeforeOutput, Parsers
  <2>3. \A x : ~ On(BeforeOutput.targets, x)
    BY DEF On, BeforeOutput
  <2>4. ~ Inside(output, 0) /\ ~ Remarked(output, 0)
    BY <2>1 DEF Inside, Remarked
  <2>5. BeforeOutput.is_file = FALSE /\ BeforeOutput.is_target = TRUE
    BY DEF BeforeOutput
  <2>6. Knows(BeforeOutput, output, 0)
    BY <2>1, <2>3, <2>4, <2>5 DEF Knows
  <2> QED
    BY <2>1, <2>2, <2>6
<1>6. ASSUME NEW j \in 0+1..n, j - 1 \in T
      PROVE  j \in T
  <2>1. j \in 0..n /\ j # 0 /\ j - 1 \in Nat /\ (j - 1) + 1 = j /\ j \in 1..n
    BY <1>4
  <2>2. g[j] = gmake_list_targets_input(g[j - 1], output[j])
    BY <1>3, <2>1
  <2>3. g[j - 1] \in Parsers /\ Knows(g[j - 1], output, j - 1)
    BY <1>6
  <2>4. output[j] \in OutputLines
    BY <2>1
  <2>5. g[j] \in Parsers
    BY <2>2, <2>3, <2>4, InputParses
  <2>6. Knows(gmake_list_targets_input(g[j - 1], output[(j - 1) + 1]), output, (j - 1) + 1)
    BY <2>1, <2>3, KnowsStep
  <2> QED
    BY <2>1, <2>2, <2>5, <2>6
<1>7. \A j \in 0..n : j \in T
  <2> HIDE DEF T
  <2> QED
    BY <1>4, <1>5, <1>6, EveryRound
<1>8. n \in 0..n
  BY <1>4
<1>9. gmake_list_targets_reap(g[n], TRUE) = set_targets(g[n].targets)
  BY DEF gmake_list_targets_reap
<1> QED
  BY <1>2, <1>7, <1>8, <1>9

\* The targets offered are those of the output.
LEMMA OutputOffered ==
    ASSUME Targets \in SUBSET Int, NEW output \in Seq(OutputLines)
    PROVE  OffersExactly(output)
<1> DEFINE offered == available_targets(output, TRUE)
           n == Len(output)
<1>1. PICK ltt \in Parsers : /\ offered = set_targets(ltt.targets)
                             /\ Knows(ltt, output, n)
  BY OutputKnown
<1>2. ltt.targets \in Seq(Targets)
  BY DEF Parsers
<1>3. /\ ToSet(offered) = ToSet(ltt.targets)
      /\ IsInjective(offered)
      /\ \A i, j \in DOMAIN offered : i < j =>
            \/ offered[i] \in Standard /\ offered[j] \notin Standard
            \/ /\ offered[i] \in Standard <=> offered[j] \in Standard
               /\ offered[i] < offered[j]
  BY <1>1, <1>2, SetTargets
<1> HIDE DEF offered
<1>4. \A x : x \in ToSet(offered) <=>
         \E j \in 1..n : Listed(output, j) /\ output[j].rule = x
  <2>1. \A x : On(ltt.targets, x) <=> x \in ToSet(ltt.targets)
    BY <1>2, OnIsToSet
  <2> QED
    BY <1>1, <1>3, <2>1 DEF Knows
<1> DEFINE InFiles(i) == \E j \in 1..i : /\ IsMark(output, j, "Files")
                              /\ \A k \in j..i : ~ IsMark(output, k, "SearchPaths")
           NoTarget(i) == \E j \in 1..i : /\ IsMark(output, j, "NotATarget")
                              /\ \A k \in j..i-1 : ~ IsRule(output[k])
<1>5. ASSUME NEW j \in 1..n, IsRule(output[j])
      PROVE  (InFiles(j) <=> Inside(output, j - 1))
               /\ (NoTarget(j) <=> Remarked(output, j - 1))
  <2>1. /\ \A k : k \in 1..j <=> k \in 1..j-1 \/ k = j
        /\ \A i \in 1..j-1 : \A k : k \in i..j <=> k \in i..j-1 \/ k = j
    OBVIOUS
  <2>2. \A mark : ~ IsMark(output, j, mark)
    BY <1>5 DEF IsMark
  <2>3. InFiles(j) <=> Inside(output, j - 1)
    BY <2>1, <2>2 DEF Inside
  <2>4. NoTarget(j) <=> Remarked(output, j - 1)
    BY <2>1, <2>2 DEF Remarked
  <2> QED
    BY <2>3, <2>4
<1>6. DOMAIN output = 1..n
  OBVIOUS
<1> HIDE DEF InFiles, NoTarget, n
<1>7. ToSet(offered) = {output[i].rule : i \in {j \in DOMAIN output :
                           IsRule(output[j]) /\ InFiles(j) /\ ~ NoTarget(j)}} \ Hidden
  BY <1>4, <1>5, <1>6 DEF Listed
<1> QED
  BY <1>3, <1>7, Zenon DEF OffersExactly, offered, InFiles, NoTarget, IsMark

-------------------------------------------------------------------------------
(* A shell reads a line: what it makes of the parts of it, one after       *)
(* another, and of a value in quotes or escaped.                           *)

\* The characters of a command, when the variables have these names.
CommandChars(Names) == ValueChars \cup Names \cup {Equals}

Readings(C) == [words : Seq(Seq(C)), word : Seq(C), some : BOOLEAN,
                mode : {"plain", "quotes", "escape"}]

\* g is what has been read after each character of the line, beginning with r.
HasRead(g, r, line) ==
    /\ g[0] = r
    /\ \A i \in 1..Len(line) : g[i] = ReadChar(g[i - 1], line[i])

LEMMA ReadCharType ==
    ASSUME NEW C, NEW r \in Readings(C), NEW c \in C
    PROVE  ReadChar(r, c) \in Readings(C)
<1>1. /\ r.words \in Seq(Seq(C)) /\ r.word \in Seq(C)
      /\ Append(r.word, c) \in Seq(C)
      /\ Append(r.words, r.word) \in Seq(Seq(C))
      /\ <<>> \in Seq(C)
  BY DEF Readings
<1>2. \A ws \in Seq(Seq(C)), w \in Seq(C), some \in BOOLEAN,
         mode \in {"plain", "quotes", "escape"} :
            Reading(ws, w, some, mode) \in Readings(C)
  BY DEF Reading, Readings
<1>3. r.some \in BOOLEAN /\ r.mode \in {"plain", "quotes", "escape"}
  BY DEF Readings
<1> HIDE DEF Readings, Reading
<1> DEFINE ws == r.words
           w == r.word
           wc == Append(r.word, c)
           wsw == Append(r.words, r.word)
<1>4. CASE r.mode = "escape"
  BY <1>1, <1>2, <1>4 DEF ReadChar
<1>5. CASE r.mode = "quotes"
  BY <1>1, <1>2, <1>5 DEF ReadChar
<1>6. CASE r.mode = "plain"
  BY <1>1, <1>2, <1>6 DEF ReadChar, Quote, Space, Backslash
<1> QED
  BY <1>3, <1>4, <1>5, <1>6

IsReadingLine(g, r, line) ==
    g = [i \in 0..Len(line) |->
            IF i = 0 THEN r ELSE ReadChar(g[i - 1], line[i])]

LEMMA ReadFromLoop ==
    ASSUME NEW r, NEW line
    PROVE  ReadFrom(r, line) = (CHOOSE g : IsReadingLine(g, r, line))[Len(line)]
  BY Zenon DEF ReadFrom, IsReadingLine

LEMMA ReadingLineExists ==
    ASSUME NEW C, NEW r \in Readings(C), NEW line \in Seq(C)
    PROVE  \E g : /\ HasRead(g, r, line)
                  /\ ReadFrom(r, line) = g[Len(line)]
                  /\ g[Len(line)] \in Readings(C)
<1> DEFINE n == Len(line)
           X == Readings(C)
           s == [p \in (1..n) \X X |-> ReadChar(p[2], line[p[1]])]
<1>1. n \in Nat
  OBVIOUS
<1>2. ASSUME NEW j \in 1..n, NEW w \in X
      PROVE  ReadChar(w, line[j]) \in X
  <2>1. line[j] \in C
    OBVIOUS
  <2> QED
    BY <2>1, ReadCharType
<1>3. \A j \in 1..n, w \in X : s[<<j, w>>] = ReadChar(w, line[j])
  OBVIOUS
<1>4. s \in [(1..n) \X X -> X]
  <2>1. \A p \in (1..n) \X X : p[1] \in 1..n /\ p[2] \in X
    OBVIOUS
  <2> HIDE DEF X
  <2> QED
    BY <1>2, <2>1
<1>n. n = Len(line) /\ r \in X
  OBVIOUS
<1> HIDE DEF n, s, X
<1>5. PICK f \in [0..n -> X] : IsRounds(f, n, r, s)
  BY <1>1, <1>4, <1>n, RoundsExist
<1>6. ASSUME NEW j \in 0..n, j # 0
      PROVE  f[j] = ReadChar(f[j - 1], line[j])
  <2>1. j \in 1..n /\ j - 1 \in 0..n
    BY <1>1, <1>6
  <2> QED
    BY <1>3, <1>5, <2>1 DEF IsRounds
<1>7. \A j \in 0..n : f[j] = IF j = 0 THEN r ELSE ReadChar(f[j - 1], line[j])
  BY <1>5, <1>6 DEF IsRounds
<1>8. IsReadingLine(f, r, line)
  BY <1>7, <1>n DEF IsReadingLine
<1> DEFINE g == CHOOSE h : IsReadingLine(h, r, line)
<1>9. IsReadingLine(g, r, line) /\ ReadFrom(r, line) = g[n]
  BY <1>8, <1>n, ReadFromLoop
<1> HIDE DEF g
<1>10. \A j \in 0..n : g[j] = IF j = 0 THEN r ELSE ReadChar(g[j - 1], line[j])
  BY <1>9, <1>n DEF IsReadingLine
<1>11. HasRead(g, r, line)
  <2>1. 0 \in 0..n /\ \A j \in 1..n : j \in 0..n /\ j # 0
    BY <1>1
  <2> QED
    BY <1>10, <1>n, <2>1 DEF HasRead
<1> DEFINE T == {j \in 0..n : g[j] \in X}
<1>12. 0 \in T
  BY <1>1, <1>10, <1>n
<1>13. ASSUME NEW j \in 0+1..n, j - 1 \in T
       PROVE  j \in T
  <2>1. j \in 0..n /\ j # 0 /\ j \in 1..n
    BY <1>1
  <2>2. g[j] = ReadChar(g[j - 1], line[j]) /\ g[j - 1] \in X
    BY <1>10, <1>13, <2>1
  <2> QED
    BY <1>2, <2>1, <2>2
<1>14. \A j \in 0..n : j \in T
  <2> HIDE DEF T
  <2> QED
    BY <1>1, <1>12, <1>13, EveryRound
<1>15. g[n] \in X
  BY <1>1, <1>14
<1> QED
  BY <1>9, <1>11, <1>15, <1>n DEF X

\* There is one way to read a line.
LEMMA ReadIs ==
    ASSUME NEW C, NEW r \in Readings(C), NEW line \in Seq(C),
           NEW g, HasRead(g, r, line)
    PROVE  ReadFrom(r, line) = g[Len(line)]
<1> DEFINE n == Len(line)
<1>1. PICK f : HasRead(f, r, line) /\ ReadFrom(r, line) = f[n]
  BY ReadingLineExists
<1> DEFINE T == {j \in 0..n : f[j] = g[j]}
<1>2. n \in Nat
  OBVIOUS
<1>3. 0 \in T
  BY <1>1, <1>2 DEF HasRead
<1>4. ASSUME NEW j \in 0+1..n, j - 1 \in T
      PROVE  j \in T
  <2>1. j \in 0..n /\ j \in 1..n
    BY <1>2
  <2>2. f[j - 1] = g[j - 1]
    BY <1>4
  <2> QED
    BY <1>1, <2>1, <2>2 DEF HasRead
<1>5. \A j \in 0..n : j \in T
  <2> HIDE DEF T
  <2> QED
    BY <1>2, <1>3, <1>4, EveryRound
<1>6. n \in 0..n
  BY <1>2
<1> QED
  BY <1>1, <1>5, <1>6

\* A line in two parts is read one after the other.
LEMMA ReadConcat ==
    ASSUME NEW C, NEW r \in Readings(C), NEW a \in Seq(C), NEW b \in Seq(C)
    PROVE  /\ ReadFrom(r, a) \in Readings(C)
           /\ ReadFrom(r, a \o b) = ReadFrom(ReadFrom(r, a), b)
<1> DEFINE n == Len(a)
           m == Len(b)
           ab == a \o b
<1>1. /\ ab \in Seq(C) /\ Len(ab) = n + m /\ n \in Nat /\ m \in Nat
      /\ \A i \in 1..n : ab[i] = a[i] /\ i \in 1..n+m
      /\ \A i \in 1..m : ab[n + i] = b[i] /\ n + i \in 1..n+m
                           /\ (n + i) - 1 = n + (i - 1)
  BY ConcatProperties
<1> HIDE DEF ab
<1>a. ab \in Seq(C)
  BY <1>1
<1>2. PICK h : HasRead(h, r, ab) /\ ReadFrom(r, ab) = h[Len(ab)]
  BY <1>a, ReadingLineExists
<1>3. HasRead(h, r, a)
  BY <1>1, <1>2 DEF HasRead
<1>4. ReadFrom(r, a) = h[n]
  BY <1>3, ReadIs
<1>5. ReadFrom(r, a) \in Readings(C)
  BY ReadingLineExists
<1> DEFINE g == [i \in 0..m |-> h[n + i]]
<1>6. HasRead(g, ReadFrom(r, a), b)
  <2>1. g[0] = h[n]
    BY <1>1
  <2>2. ASSUME NEW i \in 1..m
        PROVE  g[i] = ReadChar(g[i - 1], b[i])
    <3>1. g[i] = h[n + i] /\ g[i - 1] = h[n + (i - 1)]
      BY <1>1
    <3>2. h[n + i] = ReadChar(h[(n + i) - 1], ab[n + i])
      BY <1>1, <1>2 DEF HasRead
    <3> QED
      BY <1>1, <3>1, <3>2
  <2> HIDE DEF g
  <2> QED
    BY <1>4, <2>1, <2>2 DEF HasRead
<1>7. ReadFrom(ReadFrom(r, a), b) = g[m]
  <2> HIDE DEF g
  <2> QED
    BY <1>5, <1>6, ReadIs
<1>8. g[m] = h[n + m]
  BY <1>1
<1> QED
  BY <1>1, <1>2, <1>5, <1>7, <1>8 DEF ab

LEMMA ReadOne ==
    ASSUME NEW C, NEW r \in Readings(C), NEW c \in C
    PROVE  ReadFrom(r, <<c>>) = ReadChar(r, c)
<1>1. <<c>> \in Seq(C) /\ Len(<<c>>) = 1 /\ <<c>>[1] = c
  OBVIOUS
<1> HIDE DEF Readings
<1> DEFINE line == <<c>>
<1>2. line \in Seq(C) /\ Len(line) = 1 /\ line[1] = c
  BY <1>1
<1> HIDE DEF line
<1>3. PICK g : HasRead(g, r, line) /\ ReadFrom(r, line) = g[Len(line)]
  BY <1>2, ReadingLineExists
<1>4. g[0] = r /\ \A i \in 1..1 : g[i] = ReadChar(g[i - 1], line[i])
  BY <1>2, <1>3 DEF HasRead
<1>5. g[1] = ReadChar(g[0], line[1])
  <2>1. 1 \in 1..1 /\ 1 - 1 = 0
    OBVIOUS
  <2> QED
    BY <1>4, <2>1
<1> QED
  BY <1>2, <1>3, <1>4, <1>5 DEF line

LEMMA ReadNothing ==
    ASSUME NEW C, NEW r \in Readings(C)
    PROVE  ReadFrom(r, <<>>) = r
<1> DEFINE line == <<>>
<1>1. line \in Seq(C) /\ Len(line) = 0
  OBVIOUS
<1> HIDE DEF line
<1>2. PICK g : HasRead(g, r, line) /\ ReadFrom(r, line) = g[Len(line)]
  BY <1>1, ReadingLineExists
<1> QED
  BY <1>1, <1>2 DEF HasRead, line

LEMMA PairIsAppend ==
    ASSUME NEW C, NEW c \in C, NEW d \in C
    PROVE  Append(<<c>>, d) = <<c, d>>
<1> DEFINE p == <<c>>
           u == <<c, d>>
<1>1. p \in Seq(C) /\ Len(p) = 1 /\ p[1] = c
  OBVIOUS
<1>2. u \in Seq(C) /\ Len(u) = 2 /\ u[1] = c /\ u[2] = d
  OBVIOUS
<1> HIDE DEF p, u
<1> DEFINE v == Append(p, d)
<1>3. /\ v \in Seq(C) /\ Len(v) = Len(p) + 1
      /\ \A i \in 1..Len(p) : v[i] = p[i]
      /\ v[Len(p) + 1] = d
  <2>1. p \in Seq(C)
    BY <1>1
  <2> QED
    BY <2>1, AppendProperties
<1> HIDE DEF v
<1>4. Len(u) = Len(v) /\ \A i \in 1..Len(u) : u[i] = v[i]
  BY <1>1, <1>2, <1>3
<1>5. u = v
  BY <1>2, <1>3, <1>4, SeqEqual
<1> QED
  BY <1>5 DEF u, v, p

LEMMA ReadTwo ==
    ASSUME NEW C, NEW r \in Readings(C), NEW c \in C, NEW d \in C
    PROVE  ReadFrom(r, <<c, d>>) = ReadChar(ReadChar(r, c), d)
<1>1. <<c, d>> = <<c>> \o <<d>> /\ <<c>> \in Seq(C) /\ <<d>> \in Seq(C)
  <2>1. <<c>> \in Seq(C) /\ <<d>> \in Seq(C)
    OBVIOUS
  <2>2. Append(<<c>>, d) = <<c>> \o <<d>>
    BY <2>1, AppendIsConcat
  <2>3. Append(<<c>>, d) = <<c, d>>
    BY PairIsAppend
  <2> QED
    BY <2>1, <2>2, <2>3
<1>2. ReadFrom(r, <<c>>) \in Readings(C)
      /\ ReadFrom(r, <<c>> \o <<d>>) = ReadFrom(ReadFrom(r, <<c>>), <<d>>)
  BY <1>1, ReadConcat
<1>3. ReadFrom(r, <<c>>) = ReadChar(r, c)
  BY ReadOne
<1>4. ReadFrom(ReadFrom(r, <<c>>), <<d>>) = ReadChar(ReadFrom(r, <<c>>), d)
  BY <1>2, ReadOne
<1> QED
  BY <1>1, <1>2, <1>3, <1>4

-------------------------------------------------------------------------------
\* What the shell does with a character, by what it is in.
LEMMA ReadPlain ==
    ASSUME NEW ws, NEW w, NEW some, NEW c, c # Quote, c # Space, c # Backslash
    PROVE  ReadChar(Reading(ws, w, some, "plain"), c)
              = Reading(ws, Append(w, c), TRUE, "plain")
  BY DEF ReadChar, Reading

LEMMA ReadSpace ==
    ASSUME NEW ws, NEW w, NEW some
    PROVE  ReadChar(Reading(ws, w, some, "plain"), Space)
              = Reading(IF some THEN Append(ws, w) ELSE ws, <<>>, FALSE, "plain")
  BY DEF ReadChar, Reading, Space, Quote, Backslash

LEMMA ReadQuote ==
    ASSUME NEW ws, NEW w, NEW some
    PROVE  /\ ReadChar(Reading(ws, w, some, "plain"), Quote)
                 = Reading(ws, w, TRUE, "quotes")
           /\ ReadChar(Reading(ws, w, some, "quotes"), Quote)
                 = Reading(ws, w, TRUE, "plain")
  BY DEF ReadChar, Reading, Space, Quote, Backslash

LEMMA ReadQuoted ==
    ASSUME NEW ws, NEW w, NEW some, NEW c, c # Quote
    PROVE  ReadChar(Reading(ws, w, some, "quotes"), c)
              = Reading(ws, Append(w, c), TRUE, "quotes")
  BY DEF ReadChar, Reading

LEMMA ReadEscaped ==
    ASSUME NEW ws, NEW w, NEW some, NEW c
    PROVE  ReadChar(ReadChar(Reading(ws, w, some, "plain"), Backslash), c)
              = Reading(ws, Append(w, c), TRUE, "plain")
<1>1. ReadChar(Reading(ws, w, some, "plain"), Backslash)
         = Reading(ws, w, TRUE, "escape")
  BY DEF ReadChar, Reading, Space, Quote, Backslash
<1>2. ReadChar(Reading(ws, w, TRUE, "escape"), c)
         = Reading(ws, Append(w, c), TRUE, "plain")
  BY DEF ReadChar, Reading
<1> QED
  BY <1>1, <1>2

LEMMA ReadingType ==
    ASSUME NEW C, NEW ws \in Seq(Seq(C)), NEW w \in Seq(C), NEW some \in BOOLEAN,
           NEW mode \in {"plain", "quotes", "escape"}
    PROVE  Reading(ws, w, some, mode) \in Readings(C)
  BY DEF Reading, Readings

\* A word that goes on with the beginnings of a sequence.
Onto(w, v, i) == w \o SubSeq(v, 1, i)

LEMMA OntoGrows ==
    ASSUME NEW C, NEW w \in Seq(C), NEW v \in Seq(C)
    PROVE  /\ Onto(w, v, 0) = w
           /\ Onto(w, v, Len(v)) = w \o v
           /\ \A i \in 0..Len(v) : Onto(w, v, i) \in Seq(C)
           /\ \A i \in 1..Len(v) : Onto(w, v, i) = Append(Onto(w, v, i - 1), v[i])
<1>1. Onto(w, v, 0) = w
  <2>1. SubSeq(v, 1, 0) = <<>>
    OBVIOUS
  <2> QED
    BY <2>1, ConcatProperties DEF Onto
<1>2. Onto(w, v, Len(v)) = w \o v
  <2>1. SubSeq(v, 1, Len(v)) = v
    OBVIOUS
  <2> QED
    BY <2>1 DEF Onto
<1>3. \A i \in 0..Len(v) : Onto(w, v, i) \in Seq(C)
  <2>1. \A i \in 0..Len(v) : SubSeq(v, 1, i) \in Seq(C)
    OBVIOUS
  <2> QED
    BY <2>1, ConcatProperties DEF Onto
<1>4. ASSUME NEW i \in 1..Len(v)
      PROVE  Onto(w, v, i) = Append(Onto(w, v, i - 1), v[i])
  <2> DEFINE a == SubSeq(v, 1, i - 1)
             b == SubSeq(v, 1, i)
             c == v[i]
  <2>1. a \in Seq(C) /\ <<c>> \in Seq(C) /\ c \in C
    OBVIOUS
  <2>2. 1 \in 1..Len(v) /\ i \in 1..Len(v)
    OBVIOUS
  <2>3. b = a \o <<c>>
    BY <2>2, SubSeqRecursiveSecond
  <2> HIDE DEF a, b, c
  <2>4. w \o b = (w \o a) \o <<c>>
    BY <2>1, <2>3, ConcatAssociative
  <2>5. w \o a \in Seq(C)
    BY <2>1, ConcatProperties
  <2>6. Append(w \o a, c) = (w \o a) \o <<c>>
    BY <2>1, <2>5, AppendIsConcat
  <2> QED
    BY <2>4, <2>6 DEF Onto, a, b, c
<1> QED
  BY <1>1, <1>2, <1>3, <1>4

\* A value in quotes, without one of its own, is taken as it is.
LEMMA ReadInQuotes ==
    ASSUME NEW C, NEW ws \in Seq(Seq(C)), NEW w \in Seq(C), NEW v \in Seq(C),
           ~ On(v, Quote)
    PROVE  ReadFrom(Reading(ws, w, TRUE, "quotes"), v)
              = Reading(ws, w \o v, TRUE, "quotes")
<1> DEFINE n == Len(v)
           r == Reading(ws, w, TRUE, "quotes")
           g == [i \in 0..n |-> Reading(ws, Onto(w, v, i), TRUE, "quotes")]
<1>1. n \in Nat
  OBVIOUS
<1>2. r \in Readings(C)
  BY ReadingType
<1>g. \A i \in 0..n : g[i] = Reading(ws, Onto(w, v, i), TRUE, "quotes")
  <2> HIDE DEF n
  <2> QED
    OBVIOUS
<1> HIDE DEF g, n
<1>3. g[0] = r
  <2>1. Onto(w, v, 0) = w
    BY OntoGrows
  <2>2. 0 \in 0..n
    BY <1>1
  <2> QED
    BY <1>g, <2>1, <2>2
<1>4. ASSUME NEW i \in 1..n
      PROVE  g[i] = ReadChar(g[i - 1], v[i])
  <2>1. v[i] # Quote
    BY DEF On, n
  <2>2. Onto(w, v, i) = Append(Onto(w, v, i - 1), v[i])
    BY OntoGrows DEF n
  <2>3. g[i] = Reading(ws, Onto(w, v, i), TRUE, "quotes")
        /\ g[i - 1] = Reading(ws, Onto(w, v, i - 1), TRUE, "quotes")
    <3>1. i \in 0..n /\ i - 1 \in 0..n
      BY <1>1
    <3> QED
      BY <1>g, <3>1
  <2>4. ReadChar(Reading(ws, Onto(w, v, i - 1), TRUE, "quotes"), v[i])
           = Reading(ws, Append(Onto(w, v, i - 1), v[i]), TRUE, "quotes")
    BY <2>1, ReadQuoted
  <2> QED
    BY <2>2, <2>3, <2>4
<1>5. g[n] = Reading(ws, w \o v, TRUE, "quotes")
  <2>1. Onto(w, v, n) = w \o v
    BY OntoGrows DEF n
  <2>2. n \in 0..n
    BY <1>1
  <2> QED
    BY <1>g, <2>1, <2>2
<1> HIDE DEF r
<1>6. HasRead(g, r, v)
  BY <1>3, <1>4 DEF HasRead, n
<1>7. ReadFrom(r, v) = g[n]
  BY <1>2, <1>6, ReadIs DEF n
<1> QED
  BY <1>5, <1>7 DEF r

\* A value that is escaped is taken as it is.
HasValues(C) == ValueChars \in SUBSET C

\* In the course of the word w, the line means v.
Spells(C, ws, w, line, v) ==
    /\ line \in Seq(C)
    /\ ReadFrom(Reading(ws, w, TRUE, "plain"), line)
          = Reading(ws, w \o v, TRUE, "plain")

Pieces(v) ==
    [i \in DOMAIN v |-> IF v[i] = Letter THEN <<v[i]>> ELSE <<Backslash, v[i]>>]

LEMMA ReadPiece ==
    ASSUME NEW C, NEW ws \in Seq(Seq(C)), NEW w \in Seq(C),
           HasValues(C), NEW v \in Seq(ValueChars), NEW i \in 1..Len(v)
    PROVE  Spells(C, ws, w, Pieces(v)[i], <<v[i]>>)
<1> DEFINE c == v[i]
           r == Reading(ws, w, TRUE, "plain")
<1>1. c \in ValueChars /\ c \in C /\ Backslash \in C
  BY DEF ValueChars, HasValues
<1>2. Pieces(v)[i] = IF c = Letter THEN <<c>> ELSE <<Backslash, c>>
  <2>1. i \in DOMAIN v
    OBVIOUS
  <2> QED
    BY <2>1, Zenon DEF Pieces
<1>3. r \in Readings(C)
  BY ReadingType
<1> HIDE DEF c, r
<1>6. Append(w, c) = w \o <<c>>
  BY <1>1, AppendIsConcat
<1>4. CASE c = Letter
  <2>1. c # Quote /\ c # Space /\ c # Backslash
    BY <1>4 DEF Letter, Quote, Space, Backslash
  <2>2. ReadFrom(r, <<c>>) = ReadChar(r, c)
    BY <1>1, <1>3, ReadOne
  <2>3. ReadChar(r, c) = Reading(ws, Append(w, c), TRUE, "plain")
    BY <2>1, ReadPlain DEF r
  <2>4. <<c>> \in Seq(C)
    BY <1>1
  <2> QED
    BY <1>2, <1>4, <1>6, <2>2, <2>3, <2>4 DEF c, r, Spells
<1>5. CASE c # Letter
  <2>1. ReadFrom(r, <<Backslash, c>>) = ReadChar(ReadChar(r, Backslash), c)
    BY <1>1, <1>3, ReadTwo
  <2>2. ReadChar(ReadChar(r, Backslash), c) = Reading(ws, Append(w, c), TRUE, "plain")
    BY ReadEscaped DEF r
  <2>3. <<Backslash, c>> \in Seq(C)
    BY <1>1
  <2> QED
    BY <1>2, <1>5, <1>6, <2>1, <2>2, <2>3 DEF c, r, Spells
<1> QED
  BY <1>4, <1>5

LEMMA ReadEscapes ==
    ASSUME NEW C, NEW ws \in Seq(Seq(C)), NEW w \in Seq(C),
           HasValues(C), NEW v \in Seq(ValueChars), v # <<>>
    PROVE  Spells(C, ws, w, strescape(v), v)
<1> DEFINE n == Len(v)
           q == Pieces(v)
           r == Reading(ws, w, TRUE, "plain")
           g == CHOOSE f : IsFlattening(f, q)
<1>1. n \in Nat /\ 1 <= n /\ v \in Seq(C)
  <2>1. n \in Nat /\ n # 0
    BY EmptySeq
  <2>2. v \in Seq(C)
    BY SeqMonotonic DEF HasValues
  <2> QED
    BY <2>1, <2>2
<1>2. strescape(v) = FlattenSeq(q)
  BY DEF strescape, Pieces
<1>3. q \in Seq(Seq(C)) /\ Len(q) = n
  <2>1. \A i \in 1..n : q[i] \in Seq(C)
    BY ReadPiece DEF Spells
  <2>2. q = [i \in 1..n |-> q[i]]
    BY DEF Pieces
  <2> HIDE DEF q
  <2> QED
    BY <1>1, <2>1, <2>2
<1>4. r \in Readings(C)
  BY ReadingType
<1>5. IsFlattening(g, q) /\ FlattenSeq(q) = g[n]
  <2>1. \E f : IsFlattening(f, q)
    BY <1>1, <1>3, FlatteningExists
  <2>2. FlattenSeq(q) = g[Len(q)]
    BY <1>1, <1>3, FlattenLoop
  <2> QED
    BY <1>3, <2>1, <2>2
<1> HIDE DEF g
<1>6. \A j \in 1..n : g[j] = IF j = 1 THEN q[j] ELSE g[j - 1] \o q[j]
  BY <1>3, <1>5 DEF IsFlattening
<1>a. v \in Seq(C)
  BY <1>1
<1>7. /\ Onto(w, v, 0) = w
      /\ Onto(w, v, n) = w \o v
      /\ \A i \in 0..n : Onto(w, v, i) \in Seq(C)
      /\ \A i \in 1..n : Onto(w, v, i) = Append(Onto(w, v, i - 1), v[i])
  <2>1. Onto(w, v, 0) = w
    BY <1>a, OntoGrows
  <2>2. Onto(w, v, n) = w \o v
    BY <1>a, OntoGrows
  <2>3. \A i \in 0..n : Onto(w, v, i) \in Seq(C)
    BY <1>a, OntoGrows
  <2>4. \A i \in 1..n : Onto(w, v, i) = Append(Onto(w, v, i - 1), v[i])
    BY <1>a, OntoGrows
  <2> QED
    BY <2>1, <2>2, <2>3, <2>4
<1> DEFINE State(j) == Reading(ws, Onto(w, v, j), TRUE, "plain")
<1>8. ASSUME NEW j \in 1..n
      PROVE  /\ q[j] \in Seq(C) /\ State(j - 1) \in Readings(C)
             /\ ReadFrom(State(j - 1), q[j]) = State(j)
  <2>1. j - 1 \in 0..n /\ Onto(w, v, j - 1) \in Seq(C)
    BY <1>1, <1>7
  <2>2. q[j] \in Seq(C) /\ ReadFrom(State(j - 1), q[j])
           = Reading(ws, Append(Onto(w, v, j - 1), v[j]), TRUE, "plain")
    <3> DEFINE u == Onto(w, v, j - 1)
    <3>1. u \in Seq(C)
      BY <2>1
    <3> HIDE DEF u, q
    <3>2. Spells(C, ws, u, Pieces(v)[j], <<v[j]>>)
      BY <3>1, ReadPiece
    <3>3. v[j] \in C
      BY <1>a
    <3>4. Append(u, v[j]) = u \o <<v[j]>>
      BY <3>1, <3>3, AppendIsConcat
    <3> QED
      BY <3>2, <3>4 DEF u, q, Spells
  <2>3. State(j - 1) \in Readings(C)
    BY <2>1, ReadingType
  <2> QED
    BY <1>7, <2>2, <2>3
<1>9. State(0) = r /\ State(n) = Reading(ws, w \o v, TRUE, "plain")
  BY <1>7
<1> HIDE DEF State, r, q
<1> DEFINE T == {j \in 1..n : g[j] \in Seq(C) /\ ReadFrom(r, g[j]) = State(j)}
<1>10. 1 \in T
  <2>1. 1 \in 1..n /\ g[1] = q[1] /\ 1 - 1 = 0
    BY <1>1, <1>6
  <2>2. q[1] \in Seq(C) /\ ReadFrom(State(1 - 1), q[1]) = State(1)
    BY <1>8, <2>1
  <2> QED
    BY <1>9, <2>1, <2>2
<1>11. ASSUME NEW j \in 1+1..n, j - 1 \in T
       PROVE  j \in T
  <2>1. j \in 1..n /\ j # 1
    BY <1>1
  <2>2. g[j] = g[j - 1] \o q[j]
    BY <1>6, <2>1
  <2>3. g[j - 1] \in Seq(C) /\ ReadFrom(r, g[j - 1]) = State(j - 1)
    BY <1>11
  <2>4. q[j] \in Seq(C) /\ ReadFrom(State(j - 1), q[j]) = State(j)
    BY <1>8, <2>1
  <2>5. ReadFrom(r, g[j - 1] \o q[j]) = ReadFrom(ReadFrom(r, g[j - 1]), q[j])
    BY <1>4, <2>3, <2>4, ReadConcat
  <2>6. g[j - 1] \o q[j] \in Seq(C)
    BY <2>3, <2>4, ConcatProperties
  <2> QED
    BY <2>1, <2>2, <2>3, <2>4, <2>5, <2>6
<1>12. \A j \in 1..n : j \in T
  <2> HIDE DEF T, n
  <2> QED
    BY <1>1, <1>10, <1>11, EveryRound
<1>13. n \in T
  BY <1>1, <1>12
<1> QED
  BY <1>2, <1>5, <1>9, <1>13 DEF r, State, Spells

\* Either way, a value comes out of what Quoted makes of it unchanged.
LEMMA ReadValue ==
    ASSUME NEW C, NEW ws \in Seq(Seq(C)), NEW w \in Seq(C),
           HasValues(C), NEW v \in Seq(ValueChars)
    PROVE  Spells(C, ws, w, Quoted(v), v)
<1> DEFINE r == Reading(ws, w, TRUE, "plain")
           r1 == Reading(ws, w, TRUE, "quotes")
           r2 == Reading(ws, w \o v, TRUE, "quotes")
<1>1. v \in Seq(C) /\ Quote \in C
  BY SeqMonotonic DEF ValueChars, HasValues
<1>2. CASE On(v, Quote)
  <2>1. v # <<>>
    BY <1>2 DEF On
  <2>2. Quoted(v) = strescape(v)
    BY <1>1, <1>2, ContainsIsOn DEF Quoted
  <2>3. Spells(C, ws, w, strescape(v), v)
    BY <2>1, ReadEscapes
  <2> QED
    BY <2>2, <2>3
<1>3. CASE ~ On(v, Quote)
  <2> DEFINE q == <<Quote>>
  <2>1. Quoted(v) = (q \o v) \o q
    BY <1>1, <1>3, ContainsIsOn DEF Quoted
  <2>2. q \in Seq(C)
    BY <1>1
  <2>3. w \o v \in Seq(C)
    BY <1>1, ConcatProperties
  <2>4. r \in Readings(C) /\ r1 \in Readings(C) /\ r2 \in Readings(C)
    BY <2>3, ReadingType
  <2>5. ReadFrom(r, q) = r1
    <3>1. ReadFrom(r, <<Quote>>) = ReadChar(r, Quote)
      BY <1>1, <2>4, ReadOne
    <3>2. ReadChar(r, Quote) = r1
      BY ReadQuote
    <3> QED
      BY <3>1, <3>2
  <2>6. ReadFrom(r1, v) = r2
    BY <1>1, <1>3, ReadInQuotes
  <2>7. ReadFrom(r2, q) = Reading(ws, w \o v, TRUE, "plain")
    <3>1. ReadFrom(r2, <<Quote>>) = ReadChar(r2, Quote)
      BY <1>1, <2>4, ReadOne
    <3>2. ReadChar(r2, Quote) = Reading(ws, w \o v, TRUE, "plain")
      BY ReadQuote
    <3> QED
      BY <3>1, <3>2
  <2> HIDE DEF q, r, r1, r2
  <2> DEFINE qv == q \o v
  <2>8. qv \in Seq(C)
    BY <1>1, <2>2, ConcatProperties
  <2>9. ReadFrom(r, qv) = ReadFrom(ReadFrom(r, q), v)
    BY <1>1, <2>2, <2>4, ReadConcat
  <2> HIDE DEF qv
  <2>10. qv \o q \in Seq(C)
    BY <2>2, <2>8, ConcatProperties
  <2>11. ReadFrom(r, qv \o q) = ReadFrom(ReadFrom(r, qv), q)
    BY <2>2, <2>4, <2>8, ReadConcat
  <2>12. Quoted(v) = qv \o q
    BY <2>1 DEF qv
  <2> QED
    BY <2>5, <2>6, <2>7, <2>9, <2>10, <2>11, <2>12 DEF r, Spells
<1> QED
  BY <1>2, <1>3

-------------------------------------------------------------------------------
(* The rows of the dialog after any edits.                                 *)

\* No two rows have the same name.
NamesOnce(rows) ==
    /\ IsInjective(rows)
    /\ \A x, y : On(rows, x) /\ On(rows, y) /\ x.name = y.name => x = y

Named(rows, name) == SelectInSeq(rows, LAMBDA r : r.name = name)

LEMMA NamedPlace ==
    ASSUME NEW S, NEW rows \in Seq(S), NEW name
    PROVE  \/ Named(rows, name) \in 1..Len(rows) /\ rows[Named(rows, name)].name = name
           \/ Named(rows, name) = 0 /\ \A i \in 1..Len(rows) : rows[i].name # name
<1> DEFINE I == {i \in 1..Len(rows) : rows[i].name = name}
<1>1. Named(rows, name) = IF I # {} THEN Min(I) ELSE 0
  BY DEF Named, SelectInSeq
<1>2. I \in SUBSET Nat /\ I \in SUBSET (1..Len(rows))
  OBVIOUS
<1>3. CASE I # {}
  <2>1. Min(I) \in I
    <3> HIDE DEF I
    <3> QED
      BY <1>2, <1>3, LeastOf
  <2> QED
    BY <1>1, <1>3, <2>1
<1>4. CASE I = {}
  BY <1>1, <1>4
<1> QED
  BY <1>3, <1>4

\* What Set leaves of the rows.
IsSetIn(new, rows, row) ==
    \A x : On(new, x) <=> x = row \/ (On(rows, x) /\ x.name # row.name)

LEMMA SetRow ==
    ASSUME NEW Names, NEW rows \in Seq(Variable(Names)), NamesOnce(rows),
           NEW row \in Variable(Names)
    PROVE  /\ var_set_cb(rows, row) \in Seq(Variable(Names))
           /\ NamesOnce(var_set_cb(rows, row))
           /\ IsSetIn(var_set_cb(rows, row), rows, row)
<1> DEFINE old == Named(rows, row.name)
           new == var_set_cb(rows, row)
<1>1. new = IF old = 0 THEN Append(rows, row) ELSE ReplaceAt(rows, old, row)
  BY DEF var_set_cb, Named
<1>2. \/ old \in 1..Len(rows) /\ rows[old].name = row.name
      \/ old = 0 /\ \A i \in 1..Len(rows) : rows[i].name # row.name
  BY NamedPlace
<1>o. /\ IsInjective(rows)
      /\ \A x, y : On(rows, x) /\ On(rows, y) /\ x.name = y.name => x = y
  BY DEF NamesOnce
<1> DEFINE V == Variable(Names)
<1> HIDE DEF old, new, V
<1>3. CASE old = 0
  <2>1. new = Append(rows, row)
    BY <1>1, <1>3
  <2>2. \A x : On(rows, x) => x.name # row.name
    <3>1. \A i \in 1..Len(rows) : rows[i].name # row.name
      <4>1. ~ (old \in 1..Len(rows))
        BY <1>3
      <4> QED
        BY <1>2, <4>1
    <3>2. DOMAIN rows = 1..Len(rows)
      OBVIOUS
    <3> QED
      BY <3>1, <3>2 DEF On
  <2>3. new \in Seq(V)
    BY <2>1 DEF V
  <2>4. \A x : On(new, x) <=> On(rows, x) \/ x = row
    BY <2>1, OnAppend
  <2>5. ~ On(rows, row)
    BY <2>2
  <2>6. IsInjective(new)
    BY <1>o, <2>1, <2>5, AppendOnce
  <2>7. NamesOnce(new)
    BY <1>o, <2>2, <2>4, <2>6 DEF NamesOnce
  <2>8. IsSetIn(new, rows, row)
    BY <2>2, <2>4 DEF IsSetIn
  <2> QED
    BY <2>3, <2>7, <2>8 DEF new, V
<1>4. CASE old # 0
  <2>1. old \in 1..Len(rows) /\ rows[old].name = row.name
    BY <1>2, <1>4
  <2>2. new = [rows EXCEPT ![old] = row]
    BY <1>1, <1>4 DEF ReplaceAt
  <2>3. rows \in Seq(V) /\ row \in V
    BY DEF V
  <2>4. /\ new \in Seq(V) /\ Len(new) = Len(rows)
        /\ \A j \in 1..Len(rows) : new[j] = IF j = old THEN row ELSE rows[j]
    BY <2>1, <2>2, <2>3, ExceptSeq
  <2>5. DOMAIN rows = 1..Len(rows) /\ DOMAIN new = 1..Len(rows)
    BY <2>4
  <2>6. \A j \in 1..Len(rows) : j # old => rows[j].name # row.name
    <3>1. On(rows, rows[old]) /\ \A j \in 1..Len(rows) : On(rows, rows[j])
      BY <2>1, <2>5 DEF On
    <3> QED
      BY <1>o, <2>1, <2>5, <3>1 DEF IsInjective
  <2>7. ASSUME NEW x
        PROVE  On(new, x) <=> x = row \/ (On(rows, x) /\ x.name # row.name)
    <3>1. On(new, x) => x = row \/ (On(rows, x) /\ x.name # row.name)
      BY <2>4, <2>5, <2>6 DEF On
    <3>2. On(new, row)
      BY <2>1, <2>4, <2>5 DEF On
    <3>3. On(rows, x) /\ x.name # row.name => On(new, x)
      BY <2>1, <2>4, <2>5 DEF On
    <3> QED
      BY <3>1, <3>2, <3>3
  <2>8. IsSetIn(new, rows, row)
    BY <2>7 DEF IsSetIn
  <2>9. IsInjective(new)
    <3>1. \A j \in 1..Len(rows) : j # old => new[j] = rows[j] /\ new[j].name # row.name
      BY <2>4, <2>6
    <3>2. new[old] = row
      BY <2>1, <2>4
    <3> QED
      BY <1>o, <2>5, <3>1, <3>2 DEF IsInjective
  <2>10. NamesOnce(new)
    BY <1>o, <2>7, <2>9 DEF NamesOnce
  <2> QED
    BY <2>4, <2>8, <2>10 DEF new, V
<1> QED
  BY <1>3, <1>4

\* What Unset leaves of them.
IsUnsetIn(new, rows, name) ==
    \A x : On(new, x) <=> On(rows, x) /\ x.name # name

LEMMA UnsetRow ==
    ASSUME NEW Names, NEW rows \in Seq(Variable(Names)), NamesOnce(rows),
           NEW name
    PROVE  /\ var_unset_cb(rows, name) \in Seq(Variable(Names))
           /\ NamesOnce(var_unset_cb(rows, name))
           /\ IsUnsetIn(var_unset_cb(rows, name), rows, name)
<1> DEFINE old == Named(rows, name)
           new == var_unset_cb(rows, name)
           V == Variable(Names)
<1>1. new = IF old = 0 THEN rows ELSE RemoveAt(rows, old)
  BY DEF var_unset_cb, Named
<1>2. \/ old \in 1..Len(rows) /\ rows[old].name = name
      \/ old = 0 /\ \A i \in 1..Len(rows) : rows[i].name # name
  BY NamedPlace
<1>o. /\ IsInjective(rows)
      /\ \A x, y : On(rows, x) /\ On(rows, y) /\ x.name = y.name => x = y
  BY DEF NamesOnce
<1> HIDE DEF old, new, V
<1>3. CASE old = 0
  <2>1. \A i \in 1..Len(rows) : rows[i].name # name
    <3>1. ~ (old \in 1..Len(rows))
      BY <1>3
    <3> QED
      BY <1>2, <3>1
  <2>2. DOMAIN rows = 1..Len(rows)
    OBVIOUS
  <2>3. \A x : On(rows, x) => x.name # name
    BY <2>1, <2>2 DEF On
  <2>4. new = rows
    BY <1>1, <1>3
  <2> QED
    BY <2>3, <2>4 DEF IsUnsetIn, new
<1>4. CASE old # 0
  <2>1. old \in 1..Len(rows) /\ rows[old].name = name
    BY <1>2, <1>4
  <2>2. new = RemoveAt(rows, old)
    BY <1>1, <1>4
  <2>3. old \in DOMAIN rows /\ rows \in Seq(V)
    BY <2>1 DEF V
  <2>4. /\ RemoveAt(rows, old) \in Seq(V)
        /\ \A x : On(RemoveAt(rows, old), x) => On(rows, x)
        /\ \A x : On(rows, x) => x = rows[old] \/ On(RemoveAt(rows, old), x)
        /\ IsInjective(rows) =>
              IsInjective(RemoveAt(rows, old)) /\ ~ On(RemoveAt(rows, old), rows[old])
    <3> HIDE DEF RemoveAt
    <3> QED
      BY <2>3, RemoveAtProperties
  <2>5. On(rows, rows[old])
    BY <2>3 DEF On
  <2>6. IsUnsetIn(new, rows, name)
    BY <1>o, <2>1, <2>2, <2>4, <2>5 DEF IsUnsetIn
  <2>7. NamesOnce(new)
    BY <1>o, <2>2, <2>4 DEF NamesOnce
  <2> QED
    BY <2>2, <2>4, <2>6, <2>7 DEF new, V
<1> QED
  BY <1>3, <1>4

\* Of the first i edits, the last one for the name of x has set x.
SetLastOf(edits, i, x) ==
    \E j \in 1..i : /\ edits[j].set /\ edits[j].row = x
                    /\ \A k \in j+1..i : edits[k].row.name # x.name

LEMMA SetLastStep ==
    ASSUME NEW edits, NEW i \in Nat, NEW x
    PROVE  SetLastOf(edits, i + 1, x) <=>
              \/ edits[i + 1].set /\ edits[i + 1].row = x
              \/ SetLastOf(edits, i, x) /\ edits[i + 1].row.name # x.name
<1> DEFINE P(j) == edits[j].set /\ edits[j].row = x
           Q(j) == edits[j].row.name # x.name
<1>1. /\ \A j : j \in 1..i+1 <=> j \in 1..i \/ j = i + 1
      /\ \A j \in 1..i : \A k : k \in j+1..i+1 <=> k \in j+1..i \/ k = i + 1
      /\ \A k : ~ (k \in (i+1)+1..i+1)
  OBVIOUS
<1> HIDE DEF P, Q
<1>2. (\E j \in 1..i+1 : P(j) /\ \A k \in j+1..i+1 : Q(k)) <=>
         P(i + 1) \/ ((\E j \in 1..i : P(j) /\ \A k \in j+1..i : Q(k)) /\ Q(i + 1))
  BY <1>1
<1> QED
  BY <1>2 DEF SetLastOf, P, Q

IsEditing(g, edits) ==
    g = [i \in 0..Len(edits) |->
            IF i = 0 THEN <<>> ELSE Edit(g[i - 1], edits[i])]

LEMMA EditingLoop ==
    ASSUME NEW edits
    PROVE  Rows(edits) = (CHOOSE g : IsEditing(g, edits))[Len(edits)]
  BY Zenon DEF Rows, IsEditing

\* The rows after the edits are the variables that were set last.
EditedRows(rows, edits, i) == \A x : On(rows, x) <=> SetLastOf(edits, i, x)

LEMMA EditStep ==
    ASSUME NEW Names, NEW edits \in Seq(Edits(Names)),
           NEW i \in Nat, i + 1 \in 1..Len(edits),
           NEW rows \in Seq(Variable(Names)), NamesOnce(rows),
           EditedRows(rows, edits, i)
    PROVE  /\ Edit(rows, edits[i + 1]) \in Seq(Variable(Names))
           /\ NamesOnce(Edit(rows, edits[i + 1]))
           /\ EditedRows(Edit(rows, edits[i + 1]), edits, i + 1)
<1> DEFINE e == edits[i + 1]
           new == Edit(rows, e)
<1>1. e.set \in BOOLEAN /\ e.row \in Variable(Names)
  <2>1. e \in Edits(Names)
    OBVIOUS
  <2> QED
    BY <2>1 DEF Edits
<1>2. \A x : SetLastOf(edits, i + 1, x) <=>
                (e.set /\ e.row = x) \/ (SetLastOf(edits, i, x) /\ e.row.name # x.name)
  BY SetLastStep
<1>3. \A x : On(rows, x) <=> SetLastOf(edits, i, x)
  BY DEF EditedRows
<1> HIDE DEF e
<1>4. CASE e.set
  <2>1. new = var_set_cb(rows, e.row)
    BY <1>4 DEF Edit
  <2>2. new \in Seq(Variable(Names)) /\ NamesOnce(new) /\ IsSetIn(new, rows, e.row)
    BY <1>1, <2>1, SetRow
  <2> HIDE DEF new
  <2>3. EditedRows(new, edits, i + 1)
    BY <1>2, <1>3, <1>4, <2>2 DEF IsSetIn, EditedRows
  <2> QED
    BY <2>2, <2>3 DEF new, e
<1>5. CASE ~ e.set
  <2>1. new = var_unset_cb(rows, e.row.name)
    BY <1>5 DEF Edit
  <2>2. new \in Seq(Variable(Names)) /\ NamesOnce(new)
        /\ IsUnsetIn(new, rows, e.row.name)
    BY <2>1, UnsetRow
  <2> HIDE DEF new
  <2>3. EditedRows(new, edits, i + 1)
    BY <1>2, <1>3, <1>5, <2>2 DEF IsUnsetIn, EditedRows
  <2> QED
    BY <2>2, <2>3 DEF new, e
<1> QED
  BY <1>4, <1>5

LEMMA RowsEdited ==
    ASSUME NEW Names, NEW edits \in Seq(Edits(Names))
    PROVE  /\ Rows(edits) \in Seq(Variable(Names))
           /\ NamesOnce(Rows(edits))
           /\ EditedRows(Rows(edits), edits, Len(edits))
<1> DEFINE n == Len(edits)
           X == {q \in Seq(Variable(Names)) : NamesOnce(q)}
           s == [p \in (1..n) \X X |-> Edit(p[2], edits[p[1]])]
           g == CHOOSE h : IsEditing(h, edits)
<1>1. n \in Nat
  OBVIOUS
<1>2. ASSUME NEW j \in 1..n, NEW w \in X
      PROVE  Edit(w, edits[j]) \in X
  <2>1. edits[j].row \in Variable(Names)
    <3>1. edits[j] \in Edits(Names)
      OBVIOUS
    <3> QED
      BY <3>1 DEF Edits
  <2>2. w \in Seq(Variable(Names)) /\ NamesOnce(w)
    OBVIOUS
  <2>3. var_set_cb(w, edits[j].row) \in X
    BY <2>1, <2>2, SetRow
  <2>4. var_unset_cb(w, edits[j].row.name) \in X
    BY <2>2, UnsetRow
  <2> QED
    BY <2>3, <2>4 DEF Edit
<1>3. <<>> \in X
  <2>1. \A x : ~ On(<<>>, x)
    BY DEF On
  <2>2. IsInjective(<<>>)
    BY DEF IsInjective
  <2> QED
    BY <2>1, <2>2 DEF NamesOnce
<1>4. \A j \in 1..n, w \in X : s[<<j, w>>] = Edit(w, edits[j])
  OBVIOUS
<1>5. s \in [(1..n) \X X -> X]
  <2>1. \A p \in (1..n) \X X : p[1] \in 1..n /\ p[2] \in X
    OBVIOUS
  <2> HIDE DEF X
  <2> QED
    BY <1>2, <2>1
<1>n. n = Len(edits)
  OBVIOUS
<1> HIDE DEF n, s, X, g
<1>6. \E f : IsEditing(f, edits)
  <2>1. PICK f \in [0..n -> X] : IsRounds(f, n, <<>>, s)
    BY <1>1, <1>3, <1>5, RoundsExist
  <2>2. ASSUME NEW j \in 0..n, j # 0
        PROVE  f[j] = Edit(f[j - 1], edits[j])
    <3>1. j \in 1..n /\ j - 1 \in 0..n
      BY <1>1, <2>2
    <3> QED
      BY <1>4, <2>1, <3>1 DEF IsRounds
  <2>3. \A j \in 0..n : f[j] = IF j = 0 THEN <<>> ELSE Edit(f[j - 1], edits[j])
    BY <2>1, <2>2 DEF IsRounds
  <2> QED
    BY <2>3, <1>n DEF IsEditing
<1>7. IsEditing(g, edits) /\ Rows(edits) = g[n]
  BY <1>6, <1>n, EditingLoop DEF g
<1>8. \A j \in 0..n : g[j] = IF j = 0 THEN <<>> ELSE Edit(g[j - 1], edits[j])
  BY <1>7, <1>n DEF IsEditing
<1> DEFINE T == {j \in 0..n : g[j] \in X /\ EditedRows(g[j], edits, j)}
<1>9. 0 \in T
  <2>1. 0 \in 0..n /\ g[0] = <<>>
    BY <1>1, <1>8
  <2>2. \A x : ~ On(<<>>, x)
    BY DEF On
  <2>3. \A x : ~ SetLastOf(edits, 0, x)
    <3>1. \A j \in 1..0 : FALSE
      OBVIOUS
    <3> QED
      BY <3>1 DEF SetLastOf
  <2> QED
    BY <1>3, <2>1, <2>2, <2>3 DEF EditedRows
<1>10. ASSUME NEW j \in 0+1..n, j - 1 \in T
       PROVE  j \in T
  <2>1. j \in 0..n /\ j # 0 /\ j - 1 \in Nat /\ (j - 1) + 1 = j /\ j \in 1..n
    BY <1>1
  <2>2. g[j] = Edit(g[j - 1], edits[j])
    BY <1>8, <2>1
  <2> DEFINE k == j - 1
             rows == g[k]
  <2>3. k \in Nat /\ k + 1 = j /\ k + 1 \in 1..Len(edits)
    BY <2>1, <1>n
  <2>4. rows \in Seq(Variable(Names)) /\ NamesOnce(rows) /\ EditedRows(rows, edits, k)
    BY <1>10 DEF X
  <2> HIDE DEF k, rows
  <2>5. /\ Edit(rows, edits[k + 1]) \in Seq(Variable(Names))
        /\ NamesOnce(Edit(rows, edits[k + 1]))
        /\ EditedRows(Edit(rows, edits[k + 1]), edits, k + 1)
    BY <2>3, <2>4, EditStep
  <2>6. g[j] = Edit(rows, edits[k + 1])
    BY <2>2, <2>3 DEF rows, k
  <2>7. g[j] \in X
    BY <2>5, <2>6 DEF X
  <2> QED
    BY <2>1, <2>3, <2>5, <2>6, <2>7
<1>11. \A j \in 0..n : j \in T
  <2> HIDE DEF T
  <2> QED
    BY <1>1, <1>9, <1>10, EveryRound
<1>12. n \in T
  BY <1>1, <1>11
<1> QED
  BY <1>7, <1>12, <1>n DEF X

-------------------------------------------------------------------------------
(* What is collected of the rows, and the environment.                     *)

\* What is collected of the rows of one type, in a loop over all of them.
Collects(f, rows, type) ==
    /\ f[0] = <<>>
    /\ \A i \in 1..Len(rows) :
          f[i] = IF rows[i].type # type THEN f[i - 1]
                 ELSE Append(f[i - 1], Word(rows[i]))

LEMMA WordType ==
    ASSUME NEW Names, NEW v \in Variable(Names)
    PROVE  /\ Word(v) \in Seq(CommandChars(Names))
           /\ Word(v)[1] = v.name
           /\ Word(v) = <<v.name, Equals>> \o v.value
           /\ <<v.name, Equals>> \in Seq(CommandChars(Names))
           /\ v.value \in Seq(CommandChars(Names))
<1> DEFINE C == CommandChars(Names)
           a == <<v.name, Equals>>
           b == v.value
<1>1. a \in Seq(C) /\ Len(a) = 2 /\ a[1] = v.name
  <2>1. v.name \in C /\ Equals \in C
    BY DEF CommandChars, Variable
  <2> HIDE DEF C
  <2> QED
    BY <2>1
<1>2. b \in Seq(C)
  <2>1. b \in Seq(ValueChars) /\ ValueChars \in SUBSET C
    BY DEF Variable, CommandChars
  <2> HIDE DEF b, C
  <2> QED
    BY <2>1, SeqMonotonic
<1>3. Word(v) = a \o b
  BY DEF Word
<1> HIDE DEF a, b, C
<1>4. a \o b \in Seq(C) /\ (a \o b)[1] = a[1]
  <2>1. 1 \in 1..Len(a) + Len(b)
    BY <1>1, <1>2
  <2> QED
    BY <1>1, <1>2, <2>1, ConcatProperties
<1> QED
  BY <1>1, <1>2, <1>3, <1>4 DEF a, b, C

\* The words for the rows of a type among the first i.
IsWordOf(rows, type, i, x) ==
    \E k \in 1..i : rows[k].type = type /\ Word(rows[k]) = x

LEMMA Collected ==
    ASSUME NEW Names, NEW rows \in Seq(Variable(Names)), NamesOnce(rows),
           NEW type, NEW f, Collects(f, rows, type)
    PROVE  \A i \in 0..Len(rows) :
              /\ f[i] \in Seq(Seq(CommandChars(Names)))
              /\ IsInjective(f[i])
              /\ \A x : On(f[i], x) <=> IsWordOf(rows, type, i, x)
<1> DEFINE n == Len(rows)
           W == Seq(CommandChars(Names))
           Good(i) == /\ f[i] \in Seq(W)
                      /\ IsInjective(f[i])
                      /\ \A x : On(f[i], x) <=> IsWordOf(rows, type, i, x)
           T == {i \in 0..n : Good(i)}
<1>1. n \in Nat /\ DOMAIN rows = 1..n
  OBVIOUS
<1>2. \A k \in 1..n : Word(rows[k]) \in W /\ Word(rows[k])[1] = rows[k].name
  <2>1. \A k \in 1..n : rows[k] \in Variable(Names)
    OBVIOUS
  <2> QED
    BY <2>1, WordType
<1>3. \A i, j \in 1..n : Word(rows[i]) = Word(rows[j]) => i = j
  <2>1. \A i \in 1..n : On(rows, rows[i])
    BY <1>1 DEF On
  <2> QED
    BY <1>1, <1>2, <2>1 DEF NamesOnce, IsInjective
<1> HIDE DEF W
<1>4. 0 \in T
  <2>1. f[0] = <<>>
    BY DEF Collects
  <2>2. <<>> \in Seq(W) /\ IsInjective(<<>>) /\ \A x : ~ On(<<>>, x)
    BY DEF IsInjective, On
  <2>3. \A x : ~ IsWordOf(rows, type, 0, x)
    <3>1. \A k \in 1..0 : FALSE
      OBVIOUS
    <3> QED
      BY <3>1 DEF IsWordOf
  <2>4. 0 \in 0..n
    BY <1>1
  <2> QED
    BY <2>1, <2>2, <2>3, <2>4
<1>5. ASSUME NEW i \in 0+1..n, i - 1 \in T
      PROVE  i \in T
  <2>1. i \in 0..n /\ i \in 1..n /\ \A k : k \in 1..i <=> k \in 1..i-1 \/ k = i
    BY <1>1
  <2>2. f[i] = IF rows[i].type # type THEN f[i - 1] ELSE Append(f[i - 1], Word(rows[i]))
    BY <2>1 DEF Collects
  <2>3. Good(i - 1)
    BY <1>5
  <2>4. \A x : IsWordOf(rows, type, i, x) <=>
                  IsWordOf(rows, type, i - 1, x)
                    \/ (rows[i].type = type /\ Word(rows[i]) = x)
    BY <2>1 DEF IsWordOf
  <2> DEFINE q == f[i - 1]
             w == Word(rows[i])
  <2>5. CASE rows[i].type # type
    BY <2>1, <2>2, <2>3, <2>4, <2>5
  <2>6. CASE rows[i].type = type
    <3>1. f[i] = Append(q, w)
      BY <2>2, <2>6
    <3>2. w \in W
      BY <1>2, <2>1
    <3>3. q \in Seq(W) /\ IsInjective(q) /\ \A x : On(q, x) <=> IsWordOf(rows, type, i - 1, x)
      BY <2>3
    <3>4. ~ On(q, w)
      <4>1. \A k \in 1..i-1 : k \in 1..n /\ k # i
        BY <1>1
      <4> QED
        BY <1>3, <2>1, <3>3, <4>1 DEF IsWordOf
    <3>w. \A x : IsWordOf(rows, type, i, x) <=> IsWordOf(rows, type, i - 1, x) \/ x = w
      BY <2>4, <2>6
    <3> HIDE DEF q, w
    <3>5. Append(q, w) \in Seq(W) /\ IsInjective(Append(q, w))
      BY <3>2, <3>3, <3>4, AppendOnce
    <3>6. \A x : On(Append(q, w), x) <=> On(q, x) \/ x = w
      BY <3>2, <3>3, OnAppend
    <3> QED
      BY <2>1, <3>1, <3>3, <3>5, <3>6, <3>w
  <2> QED
    BY <2>5, <2>6
<1>6. \A i \in 0..n : i \in T
  <2> HIDE DEF T
  <2> QED
    BY <1>1, <1>4, <1>5, EveryRound
<1>7. \A i \in 0..n : Good(i)
  BY <1>6
<1> QED
  BY <1>7 DEF W

\* Each variable of the type once, and nothing else.
LEMMA CollectedOnce ==
    ASSUME NEW Names, NEW edits \in Seq(Edits(Names)),
           NEW type, NEW f, Collects(f, Rows(edits), type)
    PROVE  IsEachOnce(f[Len(Rows(edits))], SetLast(edits, type))
<1> DEFINE rows == Rows(edits)
           m == Len(rows)
           n == Len(edits)
           words == f[m]
           C == CommandChars(Names)
<1>1. /\ rows \in Seq(Variable(Names)) /\ NamesOnce(rows)
      /\ \A x : On(rows, x) <=> SetLastOf(edits, n, x)
  BY RowsEdited DEF EditedRows
<1> HIDE DEF rows
<1>2. m \in Nat /\ m \in 0..m /\ DOMAIN rows = 1..m /\ n \in Nat /\ DOMAIN edits = 1..n
  BY <1>1
<1>3. /\ words \in Seq(Seq(C))
      /\ IsInjective(words)
      /\ \A x : On(words, x) <=> IsWordOf(rows, type, m, x)
  BY <1>1, <1>2, Collected DEF rows
<1>4. \A x : x \in SetLast(edits, type) <=> On(rows, x) /\ x.type = type
  <2>1. ASSUME NEW x, x \in SetLast(edits, type)
        PROVE  On(rows, x) /\ x.type = type
    <3>1. PICK j \in 1..n :
             /\ edits[j].set /\ edits[j].row.type = type /\ edits[j].row = x
             /\ \A k \in 1..n : k > j => edits[k].row.name # edits[j].row.name
      BY <1>2, <2>1 DEF SetLast
    <3>2. \A k \in j+1..n : k \in 1..n /\ k > j
      BY <1>2
    <3>3. SetLastOf(edits, n, x)
      BY <3>1, <3>2 DEF SetLastOf
    <3> QED
      BY <1>1, <3>1, <3>3
  <2>2. ASSUME NEW x, On(rows, x), x.type = type
        PROVE  x \in SetLast(edits, type)
    <3>1. PICK j \in 1..n : /\ edits[j].set /\ edits[j].row = x
                            /\ \A k \in j+1..n : edits[k].row.name # x.name
      BY <1>1, <2>2 DEF SetLastOf
    <3>2. \A k \in 1..n : k > j => k \in j+1..n
      BY <1>2
    <3>3. \A k \in DOMAIN edits : k > j => edits[k].row.name # edits[j].row.name
      BY <1>2, <3>1, <3>2
    <3>4. j \in {i \in DOMAIN edits :
                   /\ edits[i].set /\ edits[i].row.type = type
                   /\ \A k \in DOMAIN edits :
                         k > i => edits[k].row.name # edits[i].row.name}
      BY <1>2, <2>2, <3>1, <3>3
    <3> QED
      BY <3>1, <3>4, Zenon DEF SetLast
  <2> QED
    BY <2>1, <2>2
<1>5. \A x : x \in ToSet(words) <=> On(words, x)
  BY <1>3, OnIsToSet
<1>6. \A x : IsWordOf(rows, type, m, x) <=>
                \E y : y \in SetLast(edits, type) /\ Word(y) = x
  BY <1>2, <1>4 DEF IsWordOf, On
<1> HIDE DEF words
<1>7. ToSet(words) = {Word(y) : y \in SetLast(edits, type)}
  BY <1>3, <1>5, <1>6
<1>8. IsEachOnce(words, SetLast(edits, type))
  BY <1>3, <1>7 DEF IsEachOnce
<1> QED
  BY <1>8 DEF words, rows

IsListing(g, rows) ==
    g = [i \in 0..Len(rows) |->
            IF i = 0 THEN <<>>
            ELSE IF rows[i].type # "environment" THEN g[i - 1]
            ELSE Append(g[i - 1], Word(rows[i]))]

LEMMA ListingLoop ==
    ASSUME NEW rows
    PROVE  prefs_set_var_environment(rows)
              = (CHOOSE g : IsListing(g, rows))[Len(rows)]
  BY Zenon DEF prefs_set_var_environment, IsListing

\* There is a loop that collects.
LEMMA CollectingExists ==
    ASSUME NEW Names, NEW rows \in Seq(Variable(Names)), NEW type
    PROVE  \E f \in [0..Len(rows) -> Seq(Seq(CommandChars(Names)))] :
              Collects(f, rows, type)
<1> DEFINE n == Len(rows)
           X == Seq(Seq(CommandChars(Names)))
           Next1(w, v) == IF v.type # type THEN w ELSE Append(w, Word(v))
           s == [p \in (1..n) \X X |-> Next1(p[2], rows[p[1]])]
<1>1. n \in Nat /\ <<>> \in X
  OBVIOUS
<1>2. ASSUME NEW j \in 1..n, NEW w \in X
      PROVE  Next1(w, rows[j]) \in X
  <2>1. rows[j] \in Variable(Names)
    OBVIOUS
  <2>2. Word(rows[j]) \in Seq(CommandChars(Names))
    BY <2>1, WordType
  <2> QED
    BY <2>2
<1>3. \A j \in 1..n, w \in X : s[<<j, w>>] = Next1(w, rows[j])
  OBVIOUS
<1>n. n = Len(rows)
  OBVIOUS
<1> HIDE DEF Next1
<1>4. s \in [(1..n) \X X -> X]
  <2>1. \A p \in (1..n) \X X : p[1] \in 1..n /\ p[2] \in X
    OBVIOUS
  <2> HIDE DEF X
  <2> QED
    BY <1>2, <2>1
<1> HIDE DEF n, s, X
<1>5. PICK f \in [0..n -> X] : IsRounds(f, n, <<>>, s)
  BY <1>1, <1>4, RoundsExist
<1>6. ASSUME NEW j \in 1..n
      PROVE  f[j] = Next1(f[j - 1], rows[j])
  <2>1. j - 1 \in 0..n
    BY <1>1
  <2> QED
    BY <1>3, <1>5, <2>1 DEF IsRounds
<1>7. f[0] = <<>>
  BY <1>5 DEF IsRounds
<1>8. Collects(f, rows, type)
  BY <1>6, <1>7, <1>n DEF Collects, Next1
<1> QED
  BY <1>5, <1>8, <1>n DEF X

LEMMA ListingCollects ==
    ASSUME NEW Names, NEW rows \in Seq(Variable(Names))
    PROVE  \E f : /\ Collects(f, rows, "environment")
                  /\ prefs_set_var_environment(rows) = f[Len(rows)]
<1> DEFINE n == Len(rows)
           g == CHOOSE h : IsListing(h, rows)
<1>1. PICK f \in [0..n -> Seq(Seq(CommandChars(Names)))] : Collects(f, rows, "environment")
  BY CollectingExists
<1>2. n \in Nat
  OBVIOUS
<1>3. \A i \in 0..n : f[i] = IF i = 0 THEN <<>>
                             ELSE IF rows[i].type # "environment" THEN f[i - 1]
                             ELSE Append(f[i - 1], Word(rows[i]))
  <2>1. \A i \in 0..n : i # 0 => i \in 1..n
    BY <1>2
  <2> QED
    BY <1>1, <2>1 DEF Collects
<1>4. IsListing(f, rows)
  BY <1>1, <1>3 DEF IsListing
<1>5. IsListing(g, rows)
  BY <1>4
<1>6. prefs_set_var_environment(rows) = g[n]
  BY ListingLoop
<1> HIDE DEF g
<1>7. \A i \in 0..n : g[i] = IF i = 0 THEN <<>>
                             ELSE IF rows[i].type # "environment" THEN g[i - 1]
                             ELSE Append(g[i - 1], Word(rows[i]))
  BY <1>5 DEF IsListing
<1>8. Collects(g, rows, "environment")
  <2>1. 0 \in 0..n /\ \A i \in 1..n : i \in 0..n /\ i # 0
    BY <1>2
  <2> QED
    BY <1>7, <2>1 DEF Collects
<1> QED
  BY <1>6, <1>8

-------------------------------------------------------------------------------
(* The words of the command.                                               *)

\* The shell before it has read anything, and when it has read these words, of
\* which the last may go on.
Unread == Reading(<<>>, <<>>, FALSE, "plain")
HasWords(C, out, words) ==
    /\ out \in Seq(C) /\ words \in Seq(Seq(C))
    /\ out = <<>> <=> words = <<>>
    /\ words # <<>> =>
          ReadFrom(Unread, out) = Reading(Front(words), Last(words), TRUE, "plain")

LEMMA UnreadType ==
    ASSUME NEW C
    PROVE  Unread \in Readings(C)
<1>1. <<>> \in Seq(Seq(C)) /\ <<>> \in Seq(C) /\ FALSE \in BOOLEAN
  OBVIOUS
<1> QED
  BY <1>1, ReadingType DEF Unread

\* A space ends the last word.
LEMMA SpaceEnds ==
    ASSUME NEW C, Space \in C, NEW out, NEW words, HasWords(C, out, words)
    PROVE  out # <<>> =>
              ReadFrom(Unread, out \o <<Space>>) = Reading(words, <<>>, FALSE, "plain")
<1> DEFINE q == <<Space>>
           r == ReadFrom(Unread, out)
<1>1. out \in Seq(C) /\ words \in Seq(Seq(C)) /\ q \in Seq(C)
  BY DEF HasWords
<1>2. Unread \in Readings(C)
  BY UnreadType
<1>3. /\ r \in Readings(C)
      /\ ReadFrom(Unread, out \o q) = ReadFrom(r, q)
  <2> HIDE DEF q
  <2> QED
    BY <1>1, <1>2, ReadConcat
<1>4. ReadFrom(r, q) = ReadChar(r, Space)
  BY <1>3, ReadOne
<1>5. ASSUME out # <<>>
      PROVE  ReadChar(r, Space) = Reading(words, <<>>, FALSE, "plain")
  <2>1. words # <<>> /\ r = Reading(Front(words), Last(words), TRUE, "plain")
    BY <1>5 DEF HasWords
  <2>2. ReadChar(r, Space)
           = Reading(Append(Front(words), Last(words)), <<>>, FALSE, "plain")
    <3> DEFINE ws == Front(words)
               w == Last(words)
    <3>1. r = Reading(ws, w, TRUE, "plain")
      BY <2>1
    <3> HIDE DEF r, ws, w
    <3>2. ReadChar(Reading(ws, w, TRUE, "plain"), Space)
             = Reading(Append(ws, w), <<>>, FALSE, "plain")
      BY ReadSpace
    <3> QED
      BY Zenon, <3>1, <3>2 DEF ws, w
  <2>3. Append(Front(words), Last(words)) = words
    <3> DEFINE a == Front(words)
               c == Last(words)
               v == Append(a, c)
    <3>1. /\ a \in Seq(Seq(C)) /\ Len(a) = Len(words) - 1 /\ c \in Seq(C)
          /\ \A i \in 1..Len(words) - 1 : a[i] = words[i]
      BY <1>1, <2>1, FrontProperties
    <3>2. c = words[Len(words)] /\ Len(words) \in Nat
      BY <1>1 DEF Last
    <3> HIDE DEF a, c
    <3>3. /\ v \in Seq(Seq(C)) /\ Len(v) = Len(a) + 1
          /\ \A i \in 1..Len(a) : v[i] = a[i]
          /\ v[Len(a) + 1] = c
      BY <3>1, AppendProperties
    <3> HIDE DEF v
    <3>4. Len(v) = Len(words)
      BY <3>1, <3>2, <3>3
    <3>5. \A i \in 1..Len(v) : v[i] = words[i]
      <4>1. \A i \in 1..Len(v) : \/ i \in 1..Len(a) /\ i \in 1..Len(words) - 1
                                 \/ i = Len(words) /\ i = Len(a) + 1
        BY <3>1, <3>2, <3>4
      <4> QED
        BY <3>1, <3>2, <3>3, <4>1
    <3>6. v = words
      BY <1>1, <3>3, <3>4, <3>5, SeqEqual
    <3> QED
      BY <3>6 DEF v, a, c
  <2> QED
    BY <2>2, <2>3
<1> QED
  BY <1>3, <1>4, <1>5

LEMMA LastAppended ==
    ASSUME NEW S, NEW q \in Seq(S), NEW e \in S
    PROVE  /\ Append(q, e) # <<>>
           /\ Last(Append(q, e)) = e
           /\ Front(Append(q, e)) = q
<1> DEFINE r == Append(q, e)
<1>1. /\ r \in Seq(S) /\ r # <<>> /\ Len(r) = Len(q) + 1 /\ Len(q) \in Nat
      /\ \A i \in 1..Len(q) : r[i] = q[i]
      /\ r[Len(q) + 1] = e
  BY AppendProperties
<1> HIDE DEF r
<1>2. Last(r) = e
  BY <1>1 DEF Last
<1>3. /\ Front(r) \in Seq(S) /\ Len(Front(r)) = Len(r) - 1
      /\ \A i \in 1..Len(r) - 1 : Front(r)[i] = r[i]
  BY <1>1, FrontProperties
<1> DEFINE h == Front(r)
<1> HIDE DEF h
<1>4. h \in Seq(S) /\ Len(h) = Len(q) /\ \A i \in 1..Len(h) : h[i] = q[i]
  BY <1>1, <1>3 DEF h
<1>5. h = q
  BY <1>4, SeqEqual
<1> QED
  BY <1>1, <1>2, <1>5 DEF r, h

\* A variable is added to the line as one more word.
LEMMA AddFlagReads ==
    ASSUME NEW Names, PlainNames(Names), NEW v \in Variable(Names),
           NEW out, NEW words, HasWords(CommandChars(Names), out, words)
    PROVE  HasWords(CommandChars(Names), AddFlag(out, v), Append(words, Word(v)))
<1> DEFINE C == CommandChars(Names)
           sep == IF out = <<>> THEN <<>> ELSE <<Space>>
           a == out \o sep
           p == <<v.name, Equals>>
           b == a \o p
           c == b \o Quoted(v.value)
           e == Word(v)
<1>1. AddFlag(out, v) = c
  BY DEF AddFlag
<1>2. /\ e \in Seq(C) /\ e = p \o v.value /\ p \in Seq(C) /\ v.value \in Seq(C)
  BY WordType
<1>3. Space \in C /\ Equals \in C /\ v.name \in C /\ HasValues(C)
      /\ v.value \in Seq(ValueChars) /\ v.name \in Names
  BY DEF CommandChars, ValueChars, HasValues, Variable
<1>4. out \in Seq(C) /\ words \in Seq(Seq(C)) /\ (out = <<>> <=> words = <<>>)
  BY DEF HasWords
<1>5. Unread \in Readings(C)
  BY UnreadType
<1> HIDE DEF C
<1>6. a \in Seq(C) /\ ReadFrom(Unread, a) = Reading(words, <<>>, FALSE, "plain")
  <2>1. CASE out = <<>>
    <3>1. a = <<>> /\ words = <<>>
      BY <1>4, <2>1, ConcatEmptySeq
    <3>2. ReadFrom(Unread, <<>>) = Unread
      BY <1>5, ReadNothing
    <3>3. a \in Seq(C)
      BY <3>1
    <3> HIDE DEF a
    <3> QED
      BY <3>1, <3>2, <3>3 DEF Unread
  <2>2. CASE out # <<>>
    <3>1. a = out \o <<Space>>
      BY <2>2
    <3>2. ReadFrom(Unread, out \o <<Space>>) = Reading(words, <<>>, FALSE, "plain")
      BY <1>3, <2>2, SpaceEnds DEF C
    <3>3. out \o <<Space>> \in Seq(C)
      BY <1>3, <1>4
    <3> HIDE DEF a
    <3> QED
      BY <3>1, <3>2, <3>3
  <2> QED
    BY <2>1, <2>2
<1> HIDE DEF a
<1>7. b \in Seq(C) /\ ReadFrom(Unread, b) = Reading(words, p, TRUE, "plain")
  <2> DEFINE r == Reading(words, <<>>, FALSE, "plain")
             n == v.name
             d == Equals
             q == <<n>>
             r1 == Reading(words, q, TRUE, "plain")
  <2>0. p = <<n, d>> /\ n \in C /\ d \in C /\ <<>> \in Seq(C)
    BY <1>3
  <2>1. r \in Readings(C)
    <3>1. <<>> \in Seq(C) /\ FALSE \in BOOLEAN
      OBVIOUS
    <3> QED
      BY <1>4, <3>1, ReadingType
  <2>n. /\ n # Quote
        /\ n # Space
        /\ n # Backslash
    BY <1>3 DEF PlainNames
  <2>d. /\ d # Quote
        /\ d # Space
        /\ d # Backslash
    BY DEF Equals, Quote, Space, Backslash
  <2>a. Append(<<>>, n) = q
    OBVIOUS
  <2>b. Append(q, d) = <<n, d>>
    BY <2>0, PairIsAppend
  <2> HIDE DEF n, d
  <2>2. ReadFrom(Unread, b) = ReadFrom(ReadFrom(Unread, a), p)
    <3>1. a \in Seq(C) /\ p \in Seq(C)
      BY <1>2, <1>6
    <3> HIDE DEF p
    <3>2. ReadFrom(Unread, a \o p) = ReadFrom(ReadFrom(Unread, a), p)
      BY <1>5, <3>1, ReadConcat
    <3> QED
      BY Zenon, <3>2
  <2> HIDE DEF r, p, b
  <2>3. ReadFrom(r, <<n, d>>) = ReadChar(ReadChar(r, n), d)
    BY <2>0, <2>1, ReadTwo
  <2> HIDE DEF q
  <2>4. ReadChar(r, n) = r1
    <3>1. ReadChar(Reading(words, <<>>, FALSE, "plain"), n)
             = Reading(words, Append(<<>>, n), TRUE, "plain")
      BY <2>n, ReadPlain
    <3> QED
      BY Zenon, <2>a, <3>1 DEF r
  <2>5. ReadChar(r1, d) = Reading(words, p, TRUE, "plain")
    <3>1. ReadChar(Reading(words, q, TRUE, "plain"), d)
             = Reading(words, Append(q, d), TRUE, "plain")
      BY <2>d, ReadPlain
    <3> QED
      BY Zenon, <2>0, <2>b, <3>1
  <2> HIDE DEF r1
  <2>6. b \in Seq(C)
    BY <1>2, <1>6, ConcatProperties DEF b
  <2>7. ReadFrom(Unread, b) = ReadFrom(r, p)
    BY Zenon, <1>6, <2>2 DEF r
  <2>8. ReadFrom(r, p) = Reading(words, p, TRUE, "plain")
    BY Zenon, <2>0, <2>3, <2>4, <2>5
  <2> QED
    BY <2>6, <2>7, <2>8
<1> HIDE DEF b, p
<1>8. c \in Seq(C) /\ ReadFrom(Unread, c) = Reading(words, e, TRUE, "plain")
  <2>1. Spells(C, words, p, Quoted(v.value), v.value)
    BY <1>2, <1>3, <1>4, ReadValue
  <2>2. /\ Quoted(v.value) \in Seq(C)
        /\ ReadFrom(Reading(words, p, TRUE, "plain"), Quoted(v.value))
              = Reading(words, p \o v.value, TRUE, "plain")
    BY <2>1 DEF Spells
  <2> DEFINE w == Quoted(v.value)
  <2> HIDE DEF w
  <2>3. w \in Seq(C)
    BY <2>2 DEF w
  <2>0. b \in Seq(C)
    BY <1>7
  <2>4. b \o w \in Seq(C)
    BY <2>0, <2>3, ConcatProperties
  <2>5. ReadFrom(Unread, b \o w) = ReadFrom(ReadFrom(Unread, b), w)
    BY <1>5, <2>0, <2>3, ReadConcat
  <2>6. c = b \o w
    BY DEF w
  <2>7. ReadFrom(ReadFrom(Unread, b), w) = Reading(words, e, TRUE, "plain")
    BY <1>2, <1>7, <2>2 DEF w
  <2> HIDE DEF c
  <2> QED
    BY <2>4, <2>5, <2>6, <2>7
<1>9. c # <<>>
  <2>1. Len(p) = 2
    BY DEF p
  <2>2. Len(b) = Len(a) + Len(p) /\ Len(a) \in Nat
    BY <1>2, <1>6, ConcatProperties DEF b
  <2>3. b # <<>>
    BY <1>7, <2>1, <2>2
  <2> DEFINE w == Quoted(v.value)
  <2>4. w \in Seq(C)
    <3>1. Spells(C, words, p, Quoted(v.value), v.value)
      BY <1>2, <1>3, <1>4, ReadValue
    <3> QED
      BY <3>1 DEF Spells
  <2> HIDE DEF w
  <2>5. b \o w # <<>>
    BY <1>7, <2>3, <2>4, HeadConcat
  <2> QED
    BY <2>5 DEF w
<1> HIDE DEF c, e
<1>10. /\ Append(words, e) \in Seq(Seq(C))
       /\ Append(words, e) # <<>>
       /\ Last(Append(words, e)) = e
       /\ Front(Append(words, e)) = words
  <2> DEFINE S == Seq(C)
  <2>1. words \in Seq(S)
    BY <1>4
  <2>2. e \in S
    BY <1>2
  <2> HIDE DEF S
  <2>3. /\ Append(words, e) # <<>>
        /\ Last(Append(words, e)) = e
        /\ Front(Append(words, e)) = words
    BY <2>1, <2>2, LastAppended
  <2>4. Append(words, e) \in Seq(S)
    BY <2>1, <2>2, AppendProperties
  <2> QED
    BY <2>3, <2>4 DEF S
<1>11. HasWords(C, c, Append(words, e))
  BY <1>8, <1>9, <1>10 DEF HasWords
<1> QED
  BY <1>1, <1>11 DEF C, e

IsFlagging(g, rows) ==
    g = [i \in 0..Len(rows) |->
            IF i = 0 THEN <<>>
            ELSE IF rows[i].type # "make" THEN g[i - 1]
            ELSE AddFlag(g[i - 1], rows[i])]

LEMMA FlaggingLoop ==
    ASSUME NEW rows
    PROVE  prefs_set_var_make_flags(rows) = (CHOOSE g : IsFlagging(g, rows))[Len(rows)]
  BY Zenon DEF prefs_set_var_make_flags, IsFlagging

LEMMA FlaggingExists ==
    ASSUME NEW Names, NEW rows \in Seq(Variable(Names))
    PROVE  \E g : IsFlagging(g, rows)
<1> DEFINE n == Len(rows)
           X == Seq(CommandChars(Names))
           Next1(w, v) == IF v.type # "make" THEN w ELSE AddFlag(w, v)
           s == [p \in (1..n) \X X |-> Next1(p[2], rows[p[1]])]
<1>1. n \in Nat /\ <<>> \in X
  OBVIOUS
<1>2. ASSUME NEW j \in 1..n, NEW w \in X
      PROVE  Next1(w, rows[j]) \in X
  <2> DEFINE C == CommandChars(Names)
             v == rows[j]
             p == <<v.name, Equals>>
             q == Quoted(v.value)
             sep == IF w = <<>> THEN <<>> ELSE <<Space>>
             a == w \o sep
             b == a \o p
  <2>1. v \in Variable(Names)
    OBVIOUS
  <2>2. /\ p \in Seq(C) /\ Space \in C /\ HasValues(C) /\ v.value \in Seq(ValueChars)
    BY <2>1, WordType DEF CommandChars, ValueChars, HasValues, Variable
  <2>3. w \in Seq(C)
    OBVIOUS
  <2>4. q \in Seq(C)
    <3>1. <<>> \in Seq(Seq(C))
      OBVIOUS
    <3>2. Spells(C, <<>>, w, Quoted(v.value), v.value)
      BY <2>2, <2>3, <3>1, ReadValue
    <3> QED
      BY <3>2 DEF Spells
  <2>5. sep \in Seq(C)
    BY <2>2
  <2> HIDE DEF C, sep, p, q, v
  <2>6. a \in Seq(C)
    BY <2>3, <2>5, ConcatProperties
  <2> HIDE DEF a
  <2>7. b \in Seq(C)
    BY <2>2, <2>6, ConcatProperties
  <2> HIDE DEF b
  <2>8. b \o q \in Seq(C)
    BY <2>4, <2>7, ConcatProperties
  <2>9. AddFlag(w, v) = b \o q
    BY DEF AddFlag, b, a, sep, p, q
  <2>10. AddFlag(w, v) \in X
    BY <2>8, <2>9 DEF C
  <2> QED
    BY <2>10 DEF v
<1>3. \A j \in 1..n, w \in X : s[<<j, w>>] = Next1(w, rows[j])
  OBVIOUS
<1>n. n = Len(rows)
  OBVIOUS
<1> HIDE DEF Next1
<1>4. s \in [(1..n) \X X -> X]
  <2>1. \A p \in (1..n) \X X : p[1] \in 1..n /\ p[2] \in X
    OBVIOUS
  <2> HIDE DEF X
  <2> QED
    BY <1>2, <2>1
<1> HIDE DEF n, s, X
<1>5. PICK f \in [0..n -> X] : IsRounds(f, n, <<>>, s)
  BY <1>1, <1>4, RoundsExist
<1>6. ASSUME NEW j \in 0..n, j # 0
      PROVE  f[j] = Next1(f[j - 1], rows[j])
  <2>1. j \in 1..n /\ j - 1 \in 0..n
    BY <1>1, <1>6
  <2> QED
    BY <1>3, <1>5, <2>1 DEF IsRounds
<1>7. \A j \in 0..n : f[j] = IF j = 0 THEN <<>> ELSE Next1(f[j - 1], rows[j])
  BY <1>5, <1>6 DEF IsRounds
<1>8. IsFlagging(f, rows)
  BY <1>7, <1>n DEF IsFlagging, Next1
<1> QED
  BY <1>8

\* The shell takes the line apart into the words for the variables.
LEMMA FlagsCollect ==
    ASSUME NEW Names, PlainNames(Names), NEW rows \in Seq(Variable(Names))
    PROVE  \E f : /\ Collects(f, rows, "make")
                  /\ Words(prefs_set_var_make_flags(rows)) = f[Len(rows)]
<1> DEFINE n == Len(rows)
           C == CommandChars(Names)
           g == CHOOSE h : IsFlagging(h, rows)
<1>1. PICK f \in [0..n -> Seq(Seq(C))] : Collects(f, rows, "make")
  BY CollectingExists
<1>2. n \in Nat
  OBVIOUS
<1>3. IsFlagging(g, rows) /\ prefs_set_var_make_flags(rows) = g[n]
  BY FlaggingExists, FlaggingLoop
<1> HIDE DEF g
<1>4. \A i \in 0..n : g[i] = IF i = 0 THEN <<>>
                             ELSE IF rows[i].type # "make" THEN g[i - 1]
                             ELSE AddFlag(g[i - 1], rows[i])
  BY <1>3 DEF IsFlagging
<1> DEFINE T == {i \in 0..n : HasWords(C, g[i], f[i])}
<1>5. 0 \in T
  <2>1. 0 \in 0..n /\ g[0] = <<>> /\ f[0] = <<>>
    BY <1>1, <1>2, <1>4 DEF Collects
  <2>2. <<>> \in Seq(C) /\ <<>> \in Seq(Seq(C))
    OBVIOUS
  <2> QED
    BY <2>1, <2>2 DEF HasWords
<1>6. ASSUME NEW i \in 0+1..n, i - 1 \in T
      PROVE  i \in T
  <2>1. i \in 0..n /\ i # 0 /\ i \in 1..n
    BY <1>2
  <2>2. HasWords(C, g[i - 1], f[i - 1]) /\ rows[i] \in Variable(Names)
    BY <1>6, <2>1
  <2>3. CASE rows[i].type # "make"
    <3>1. g[i] = g[i - 1] /\ f[i] = f[i - 1]
      BY <1>1, <1>4, <2>1, <2>3 DEF Collects
    <3> QED
      BY <2>1, <2>2, <3>1
  <2>4. CASE rows[i].type = "make"
    <3>1. g[i] = AddFlag(g[i - 1], rows[i]) /\ f[i] = Append(f[i - 1], Word(rows[i]))
      BY <1>1, <1>4, <2>1, <2>4 DEF Collects
    <3>2. HasWords(C, AddFlag(g[i - 1], rows[i]), Append(f[i - 1], Word(rows[i])))
      BY <2>2, AddFlagReads
    <3> QED
      BY <2>1, <3>1, <3>2
  <2> QED
    BY <2>3, <2>4
<1>7. \A i \in 0..n : i \in T
  <2> HIDE DEF T
  <2> QED
    BY <1>2, <1>5, <1>6, EveryRound
<1> DEFINE out == g[n]
           words == f[n]
<1>8. HasWords(C, out, words)
  <2>1. n \in 0..n
    BY <1>2
  <2> QED
    BY <1>7, <2>1
<1>9. Space \in C
  BY DEF CommandChars, ValueChars
<1> HIDE DEF out, words, C
<1>10. ReadFrom(Unread, Append(out, Space)) = Reading(words, <<>>, FALSE, "plain")
  <2>1. out \in Seq(C) /\ (out = <<>> <=> words = <<>>)
    BY <1>8 DEF HasWords
  <2>2. Append(out, Space) = out \o <<Space>>
    BY <1>9, <2>1, AppendIsConcat
  <2>3. CASE out # <<>>
    <3>1. ReadFrom(Unread, out \o <<Space>>) = Reading(words, <<>>, FALSE, "plain")
      BY <1>8, <1>9, <2>3, SpaceEnds
    <3> QED
      BY <2>2, <3>1
  <2>4. CASE out = <<>>
    <3>1. Append(out, Space) = <<Space>> /\ words = <<>>
      BY <2>1, <2>4
    <3>2. Unread \in Readings(C)
      BY UnreadType
    <3>3. ReadFrom(Unread, <<Space>>) = ReadChar(Unread, Space)
      BY <1>9, <3>2, ReadOne
    <3>4. ReadChar(Unread, Space) = Reading(<<>>, <<>>, FALSE, "plain")
      BY ReadSpace DEF Unread
    <3> QED
      BY <3>1, <3>3, <3>4
  <2> QED
    BY <2>3, <2>4
<1>11. Words(out) = words
  BY <1>10 DEF Words, Unread, Reading
<1> QED
  BY <1>1, <1>3, <1>11 DEF out, words

\* Variables whose names are plain reach make as they were set last.
LEMMA EditsReachMake ==
    ASSUME NEW Names, PlainNames(Names), NEW edits \in Seq(Edits(Names))
    PROVE  ReachMake(edits)
<1> DEFINE rows == Rows(edits)
<1>1. rows \in Seq(Variable(Names))
  BY RowsEdited
<1>2. IsEachOnce(Words(prefs_set_var_make_flags(rows)), SetLast(edits, "make"))
  <2>1. PICK f : /\ Collects(f, rows, "make")
                 /\ Words(prefs_set_var_make_flags(rows)) = f[Len(rows)]
    BY <1>1, FlagsCollect
  <2>2. IsEachOnce(f[Len(rows)], SetLast(edits, "make"))
    BY <2>1, CollectedOnce
  <2> QED
    BY <2>1, <2>2
<1>3. IsEachOnce(prefs_set_var_environment(rows), SetLast(edits, "environment"))
  <2>1. PICK f : /\ Collects(f, rows, "environment")
                 /\ prefs_set_var_environment(rows) = f[Len(rows)]
    BY <1>1, ListingCollects
  <2>2. IsEachOnce(f[Len(rows)], SetLast(edits, "environment"))
    BY <2>1, CollectedOnce
  <2> QED
    BY <2>1, <2>2
<1> QED
  BY <1>2, <1>3 DEF ReachMake

-------------------------------------------------------------------------------
(* The ways through a log, forward and backwards, and tours of it.         *)

\* The places of records on the way through a log of n records; the way starts
\* at place 0, without a selection.
Places(n, forward) ==
    [k \in 0..n |-> IF k = 0 THEN 0 ELSE IF forward THEN k ELSE n + 1 - k]

IsWay(p, n) ==
    /\ p \in [0..n -> 0..n]
    /\ p[0] = 0
    /\ \A k \in 1..n : p[k] \in 1..n
    /\ \A k, l \in 0..n : p[k] = p[l] => k = l

LEMMA PlacesAreWay ==
    ASSUME NEW n \in Nat, NEW forward \in BOOLEAN
    PROVE  IsWay(Places(n, forward), n)
<1> DEFINE p == Places(n, forward)
<1>1. ASSUME NEW k \in 0..n
      PROVE  p[k] = IF k = 0 THEN 0 ELSE IF forward THEN k ELSE n + 1 - k
  BY DEF Places
<1>2. p \in [0..n -> 0..n]
  <2>1. \A k \in 0..n :
           (IF k = 0 THEN 0 ELSE IF forward THEN k ELSE n + 1 - k) \in 0..n
    OBVIOUS
  <2> QED
    BY <2>1 DEF Places
<1> HIDE DEF p
<1>3. p[0] = 0 /\ \A k \in 1..n : p[k] \in 1..n
  BY <1>1
<1>4. \A k, l \in 0..n : p[k] = p[l] => k = l
  <2>1. CASE forward
    <3>1. \A k \in 0..n : p[k] = k
      BY <1>1, <2>1
    <3> QED
      BY <3>1
  <2>2. CASE ~forward
    <3>1. \A k \in 0..n : p[k] = IF k = 0 THEN 0 ELSE n + 1 - k
      BY <1>1, <2>2
    <3> QED
      BY <3>1
  <2> QED
    BY <2>1, <2>2
<1> QED
  BY <1>2, <1>3, <1>4 DEF IsWay, p

LEMMA AheadByPlace ==
    ASSUME NEW n \in Nat, NEW forward \in BOOLEAN, NEW i \in 1..n, NEW j \in 1..n
    PROVE  Ahead(i, j, forward)
              <=> Places(n, forward)[i] < Places(n, forward)[j]
<1>1. /\ Places(n, forward)[i] = IF forward THEN i ELSE n + 1 - i
      /\ Places(n, forward)[j] = IF forward THEN j ELSE n + 1 - j
  BY DEF Places
<1> QED
  BY <1>1 DEF Ahead

\* What is beyond a record.
Further(p, k, n) == {i \in 1..n : p[k] < p[i]}

LEMMA BeyondByPlace ==
    ASSUME NEW R, NEW log \in Seq(R), NEW forward \in BOOLEAN,
           NEW k \in 0..Len(log)
    PROVE  Beyond(log, k, forward)
              = Further(Places(Len(log), forward), k, Len(log))
<1> DEFINE n == Len(log)
           p == Places(n, forward)
<1>1. n \in Nat /\ DOMAIN log = 1..n
  OBVIOUS
<1>2. \A i \in 0..n : p[i] = IF i = 0 THEN 0 ELSE IF forward THEN i ELSE n + 1 - i
  BY DEF Places
<1> HIDE DEF p
<1>3. k \in 0..n
  OBVIOUS
<1>4. Beyond(log, k, forward) = IF k = 0 THEN 1..n
                                ELSE IF forward THEN k + 1..n ELSE 1..k - 1
  BY <1>1 DEF Beyond
<1> HIDE DEF n
<1>5. \A i \in 1..n : p[k] < p[i] <=> \/ k = 0
                                      \/ forward /\ k < i
                                      \/ ~forward /\ i < k
  BY <1>1, <1>2, <1>3
<1>6. Further(p, k, n) = IF k = 0 THEN 1..n
                         ELSE IF forward THEN k + 1..n ELSE 1..k - 1
  <2>1. \A i : i \in Further(p, k, n) <=> i \in 1..n /\ p[k] < p[i]
    BY DEF Further
  <2>2. CASE k = 0
    BY <1>5, <2>1, <2>2
  <2> DEFINE F == Further(p, k, n)
  <2> HIDE DEF F
  <2>3. CASE k # 0 /\ forward
    <3>1. \A i : i \in F <=> i \in 1..n /\ k < i
      BY <1>5, <2>1, <2>3 DEF F
    <3>2. \A i : i \in F <=> i \in k + 1..n
      BY <1>1, <1>3, <3>1
    <3>3. F = k + 1..n
      BY <3>2
    <3> QED
      BY <2>3, <3>3 DEF F
  <2>4. CASE k # 0 /\ ~forward
    <3>1. \A i : i \in F <=> i \in 1..n /\ i < k
      BY <1>5, <2>1, <2>4 DEF F
    <3>2. \A i : i \in F <=> i \in 1..k - 1
      BY <1>1, <1>3, <3>1
    <3>3. F = 1..k - 1
      BY <3>2
    <3> QED
      BY <2>4, <3>3 DEF F
  <2> QED
    BY <2>2, <2>3, <2>4
<1> QED
  BY <1>4, <1>6 DEF p, n

\* e is the first of S on the way, or 0 if there is none.
IsFirst(e, S, p) ==
    \/ S = {} /\ e = 0
    \/ e \in S /\ \A y \in S : p[e] <= p[y]

LEMMA FirstIsOne ==
    ASSUME NEW n \in Nat, NEW p, IsWay(p, n), NEW S \in SUBSET (1..n),
           NEW d, NEW e, IsFirst(d, S, p), IsFirst(e, S, p)
    PROVE  d = e
<1>1. CASE S = {}
  BY <1>1 DEF IsFirst
<1>2. CASE S # {}
  <2>1. d \in S /\ e \in S /\ p[d] <= p[e] /\ p[e] <= p[d]
    BY <1>2 DEF IsFirst
  <2>2. d \in 0..n /\ e \in 0..n
    BY <2>1
  <2>3. p[d] \in 0..n /\ p[e] \in 0..n
    BY <2>2 DEF IsWay
  <2>4. p[d] = p[e]
    BY <2>1, <2>3
  <2> QED
    BY <2>2, <2>4 DEF IsWay
<1> QED
  BY <1>1, <1>2

LEMMA NearestIsFirst ==
    ASSUME NEW n \in Nat, NEW forward \in BOOLEAN, NEW S \in SUBSET (1..n)
    PROVE  IsFirst(Nearest(S, forward), S, Places(n, forward))
<1> DEFINE e == Nearest(S, forward)
           p == Places(n, forward)
<1>1. CASE S = {}
  BY <1>1 DEF Nearest, IsFirst
<1>2. CASE S # {}
  <2>1. \A i \in 1..n : p[i] = IF forward THEN i ELSE n + 1 - i
    BY DEF Places
  <2>2. e \in S /\ \A y \in S : IF forward THEN e <= y ELSE y <= e
    <3>1. S \in SUBSET Nat /\ S \in SUBSET (0..n)
      OBVIOUS
    <3>2. Min(S) \in S /\ \A y \in S : Min(S) <= y
      BY <1>2, <3>1, LeastOf
    <3>3. Max(S) \in S /\ \A y \in S : y <= Max(S)
      BY <1>2, <3>1, GreatestOf
    <3> QED
      BY <1>2, <3>2, <3>3 DEF Nearest
  <2> HIDE DEF e, p
  <2>3. \A y \in S : p[e] <= p[y]
    <3>1. \A y \in S : y \in 1..n /\ e \in 1..n
      BY <2>2
    <3> QED
      BY <2>1, <2>2, <3>1
  <2> QED
    BY <2>2, <2>3 DEF IsFirst, e, p
<1> QED
  BY <1>1, <1>2

-------------------------------------------------------------------------------
\* The members of S beyond a record.
Among(p, k, n, S) == {i \in 1..n : p[k] < p[i] /\ i \in S}

IsSkipping(g, log, forward, suits) ==
    g = [k \in 0..Len(log) |->
            LET e == log_find_error_aux(log, k, forward)
            IN  IF e = 0 \/ e \in suits THEN e ELSE g[e]]

LEMMA SkipLoop ==
    ASSUME NEW log, NEW lr, NEW forward, NEW suits
    PROVE  Skip(log, lr, forward, suits)
              = (CHOOSE g : IsSkipping(g, log, forward, suits))[lr]
  BY Zenon DEF Skip, IsSkipping

\* One step of the loop: the first of all the errors is the one, or it comes
\* before the one.
LEMMA SkipStep ==
    ASSUME NEW n \in Nat, NEW p, IsWay(p, n), NEW E, NEW W, NEW k \in 0..n,
           NEW e, IsFirst(e, Among(p, k, n, E), p),
           NEW w, IsFirst(w, Among(p, k, n, E \cap W), p)
    PROVE  /\ e = 0 \/ e \in W => w = e
           /\ e # 0 /\ e \notin W =>
                 e \in 1..n /\ p[k] < p[e]
           /\ e # 0 /\ e \notin W =>
                 IsFirst(w, Among(p, e, n, E \cap W), p)
<1> DEFINE A == Among(p, k, n, E)
           B == Among(p, k, n, E \cap W)
           C == Among(p, e, n, E \cap W)
<1>1. /\ \A i : i \in A <=> i \in 1..n /\ p[k] < p[i] /\ i \in E
      /\ \A i : i \in B <=> i \in A /\ i \in W
      /\ \A i : i \in C <=> i \in 1..n /\ p[e] < p[i] /\ i \in E /\ i \in W
  BY DEF Among
<1>2. IsFirst(e, A, p) /\ IsFirst(w, B, p)
  OBVIOUS
<1> HIDE DEF A, B, C
<1>3. A \in SUBSET (1..n) /\ B \in SUBSET (1..n)
  BY <1>1
<1>4. CASE e = 0
  <2>1. A = {}
    BY <1>1, <1>2, <1>4 DEF IsFirst
  <2>2. B = {}
    BY <1>1, <2>1
  <2>3. w = 0
    BY <1>2, <2>2 DEF IsFirst
  <2> QED
    BY <1>4, <2>3
<1>5. CASE e # 0 /\ e \in W
  <2>1. e \in A /\ \A y \in A : p[e] <= p[y]
    BY <1>2, <1>5 DEF IsFirst
  <2>2. IsFirst(e, B, p)
    BY <1>1, <1>5, <2>1 DEF IsFirst
  <2>3. w = e
    BY <1>2, <1>3, <2>2, FirstIsOne
  <2> QED
    BY <1>5, <2>3
<1>6. CASE e # 0 /\ e \notin W
  <2>1. e \in A /\ \A y \in A : p[e] <= p[y]
    BY <1>2, <1>6 DEF IsFirst
  <2>2. e \in 1..n /\ p[k] < p[e] /\ e \in 0..n
    BY <1>1, <2>1
  <2>3. \A i \in 0..n : p[i] \in Int /\ (p[i] = p[e] => i = e)
    <3>1. p \in [0..n -> 0..n] /\ \A i, j \in 0..n : p[i] = p[j] => i = j
      BY DEF IsWay
    <3>2. ASSUME NEW i \in 0..n
          PROVE  p[i] \in Int /\ (p[i] = p[e] => i = e)
      <4>1. p[i] \in 0..n
        BY <3>1
      <4> QED
        BY <2>2, <3>1, <4>1
    <3> QED
      BY <3>2
  <2>4. \A i : i \in B <=> i \in C
    <3>1. ASSUME NEW i \in B PROVE i \in C
      <4>1. i \in A /\ i \in W /\ i \in 0..n /\ i # e
        BY <1>1, <1>6
      <4>2. p[e] <= p[i] /\ p[i] # p[e]
        BY <2>1, <2>3, <4>1
      <4>3. p[e] < p[i]
        BY <2>2, <2>3, <4>1, <4>2
      <4> QED
        BY <1>1, <4>1, <4>3
    <3>2. ASSUME NEW i \in C PROVE i \in B
      <4>1. i \in 0..n /\ p[e] < p[i]
        BY <1>1
      <4>2. p[k] < p[i]
        BY <2>2, <2>3, <4>1
      <4> QED
        BY <1>1, <4>2
    <3> QED
      BY <3>1, <3>2
  <2>5. B = C
    BY <2>4
  <2>6. IsFirst(w, C, p)
    BY <1>2, <2>5
  <2> QED
    BY <1>6, <2>2, <2>6 DEF C
<1> QED
  BY <1>4, <1>5, <1>6

LEMMA SkipFinds ==
    ASSUME NEW R, NEW log \in Seq(R), NEW forward \in BOOLEAN, NEW suits,
           NEW lr \in 0..Len(log)
    PROVE  IsFirst(Skip(log, lr, forward, suits),
                   Among(Places(Len(log), forward), lr, Len(log),
                         {i \in DOMAIN log : IsError(log[i]) /\ i \in suits}),
                   Places(Len(log), forward))
<1> DEFINE n == Len(log)
           p == Places(n, forward)
           E == {i \in 1..n : IsError(log[i])}
           A(k) == Among(p, k, n, E)
           B(k) == Among(p, k, n, E \cap suits)
           e == [k \in 0..n |-> log_find_error_aux(log, k, forward)]
           w == [k \in 0..n |-> Nearest(B(k), forward)]
           g == CHOOSE h : IsSkipping(h, log, forward, suits)
<1>1. n \in Nat /\ lr \in 0..n /\ n = Len(log)
  OBVIOUS
<1>2. IsWay(p, n)
  BY <1>1, PlacesAreWay
<1>3. ASSUME NEW k \in 0..n
      PROVE  /\ A(k) \in SUBSET (1..n)
             /\ B(k) \in SUBSET (1..n)
             /\ e[k] = Nearest(A(k), forward)
             /\ w[k] = Nearest(B(k), forward)
  <2>1. Beyond(log, k, forward) = Further(p, k, n)
    BY BeyondByPlace
  <2>2. {i \in Beyond(log, k, forward) : IsError(log[i])} = A(k)
    BY <2>1 DEF Further, Among
  <2>3. e[k] = Nearest({i \in Beyond(log, k, forward) : IsError(log[i])}, forward)
    BY DEF log_find_error_aux
  <2> QED
    BY <2>2, <2>3 DEF Among
<1>w. DOMAIN w = 0..n
  OBVIOUS
<1>e. \A k \in 0..n : e[k] = log_find_error_aux(log, k, forward)
  OBVIOUS
<1>l. w = [k \in 0..n |-> w[k]]
  OBVIOUS
<1> HIDE DEF e, w
<1>4. ASSUME NEW k \in 0..n
      PROVE  /\ IsFirst(e[k], A(k), p)
             /\ IsFirst(w[k], B(k), p)
  <2> DEFINE S == A(k)
             T == B(k)
  <2>1. S \in SUBSET (1..n) /\ T \in SUBSET (1..n)
    BY <1>3
  <2>2. e[k] = Nearest(S, forward) /\ w[k] = Nearest(T, forward)
    BY <1>3
  <2> HIDE DEF S, T, n
  <2>3. IsFirst(Nearest(S, forward), S, p) /\ IsFirst(Nearest(T, forward), T, p)
    BY <1>1, <2>1, NearestIsFirst
  <2> QED
    BY <2>2, <2>3 DEF S, T
<1>5. ASSUME NEW k \in 0..n
      PROVE  /\ e[k] = 0 \/ e[k] \in suits => w[k] = e[k]
             /\ e[k] # 0 /\ e[k] \notin suits =>
                   e[k] \in 0..n /\ p[k] < p[e[k]] /\ w[k] = w[e[k]]
  <2> DEFINE d == e[k]
             v == w[k]
  <2>1. IsFirst(d, A(k), p) /\ IsFirst(v, B(k), p)
    BY <1>4
  <2>a. IsFirst(d, Among(p, k, n, E), p)
    BY <2>1
  <2>b. IsFirst(v, Among(p, k, n, E \cap suits), p)
    BY <2>1
  <2> HIDE DEF d, v, E, n, p
  <2>3. /\ d = 0 \/ d \in suits => v = d
        /\ d # 0 /\ d \notin suits =>
              d \in 1..n /\ p[k] < p[d]
        /\ d # 0 /\ d \notin suits =>
              IsFirst(v, Among(p, d, n, E \cap suits), p)
    <3>1. n \in Nat
      BY <1>1
    <3> QED
      BY <1>2, <2>a, <2>b, <3>1, SkipStep
  <2>4. ASSUME d # 0, d \notin suits
        PROVE  d \in 0..n /\ p[k] < p[d] /\ v = w[d]
    <3>1. d \in 0..n /\ p[k] < p[d] /\ IsFirst(v, B(d), p)
      BY <1>1, <2>3, <2>4
    <3>2. IsFirst(w[d], B(d), p) /\ B(d) \in SUBSET (1..n)
      BY <1>3, <1>4, <3>1
    <3>3. v = w[d]
      BY <1>1, <1>2, <3>1, <3>2, FirstIsOne
    <3> QED
      BY <3>1, <3>3
  <2> QED
    BY <2>3, <2>4 DEF d, v
<1>6. IsSkipping(w, log, forward, suits)
  <2>1. \A k \in 0..n :
           w[k] = LET d == log_find_error_aux(log, k, forward)
                  IN  IF d = 0 \/ d \in suits THEN d ELSE w[d]
    BY <1>5, <1>e
  <2> HIDE DEF n
  <2> QED
    BY Zenon, <1>1, <1>l, <2>1 DEF IsSkipping
<1>7. IsSkipping(g, log, forward, suits) /\ Skip(log, lr, forward, suits) = g[lr]
  BY <1>6, SkipLoop
<1> HIDE DEF g
<1>8. \A k \in 0..n : g[k] = IF e[k] = 0 \/ e[k] \in suits THEN e[k] ELSE g[e[k]]
  <2>1. \A k \in 0..n :
           g[k] = LET d == log_find_error_aux(log, k, forward)
                  IN  IF d = 0 \/ d \in suits THEN d ELSE g[d]
    BY <1>7 DEF IsSkipping
  <2> QED
    BY <1>e, <2>1
<1> HIDE DEF p, n, E
<1> DEFINE Wrong == {k \in 0..n : g[k] # w[k]}
           At == {p[k] : k \in Wrong}
<1>9. Wrong = {}
  <2> SUFFICES ASSUME Wrong # {} PROVE FALSE
    OBVIOUS
  <2>1. At \in SUBSET (0..n) /\ At # {}
    BY <1>2 DEF IsWay
  <2> HIDE DEF At
  <2>2. PICK m \in At : \A j \in At : j <= m
    BY <1>1, <2>1, GreatestOf
  <2>3. PICK k \in Wrong : m = p[k]
    BY <2>2 DEF At
  <2>4. k \in 0..n /\ g[k] # w[k]
    BY <2>3
  <2>5. e[k] # 0 /\ e[k] \notin suits
    BY <1>5, <1>8, <2>4
  <2>6. e[k] \in 0..n /\ p[k] < p[e[k]] /\ w[k] = w[e[k]] /\ g[k] = g[e[k]]
    BY <1>5, <1>8, <2>4, <2>5
  <2>7. e[k] \in Wrong
    BY <2>4, <2>6
  <2>8. p[e[k]] \in At
    BY <2>7 DEF At
  <2>9. p[e[k]] <= p[k]
    BY <2>2, <2>3, <2>8
  <2>10. p[k] \in Int /\ p[e[k]] \in Int
    BY <1>2, <2>4, <2>6 DEF IsWay
  <2> QED
    BY <2>6, <2>9, <2>10
<1>10. Skip(log, lr, forward, suits) = w[lr]
  BY <1>1, <1>7, <1>9
<1>11. IsFirst(w[lr], B(lr), p)
  BY <1>1, <1>4
<1>12. E \cap suits = {i \in DOMAIN log : IsError(log[i]) /\ i \in suits}
  BY DEF E, n
<1> QED
  BY <1>10, <1>11, <1>12 DEF p, n

IsVisiting(g, log, selected, to, times) ==
    g = [i \in 0..times |->
            IF i = 0 THEN Outset(selected)
            ELSE Visit(log, g[i - 1], to[g[i - 1].selected])]

LEMMA VisitedLoop ==
    ASSUME NEW log, NEW selected, NEW to, NEW times
    PROVE  Visited(log, selected, to, times)
              = (CHOOSE g : IsVisiting(g, log, selected, to, times))[times].visited
  BY Zenon DEF Visited, IsVisiting

\* What is selected and what has been visited, each time the item was chosen.
IsTour(s, v, selected, to, times) ==
    /\ s[0] = selected /\ v[0] = <<>>
    /\ \A i \in 1..times :
          /\ to[s[i - 1]] = 0 => s[i] = s[i - 1] /\ v[i] = v[i - 1]
          /\ to[s[i - 1]] # 0 => /\ s[i] = to[s[i - 1]]
                                 /\ v[i] = Append(v[i - 1], to[s[i - 1]])

LEMMA VisitingExists ==
    ASSUME NEW R, NEW log \in Seq(R), NEW selected \in 0..Len(log),
           NEW to \in [0..Len(log) -> 0..Len(log)], NEW times \in Nat
    PROVE  \E g : IsVisiting(g, log, selected, to, times)
<1> DEFINE n == Len(log)
           X == [selected : 0..n, visited : Seq(1..n)]
           s == [p \in (1..times) \X X |-> Visit(log, p[2], to[p[2].selected])]
           x == Outset(selected)
<1>1. n \in Nat /\ n = Len(log)
  OBVIOUS
<1>2. x \in X
  <2>1. <<>> \in Seq(1..n)
    OBVIOUS
  <2> QED
    BY <2>1 DEF Outset
<1>3. ASSUME NEW at \in X
      PROVE  Visit(log, at, to[at.selected]) \in X
  <2> DEFINE e == to[at.selected]
  <2>1. at.selected \in 0..n /\ at.visited \in Seq(1..n) /\ e \in 0..n
    OBVIOUS
  <2> HIDE DEF e
  <2>2. log_set_selected(log, at.selected, e) \in 0..n
    BY <2>1 DEF log_set_selected
  <2>3. e # 0 => Append(at.visited, e) \in Seq(1..n)
    <3> HIDE DEF n
    <3>1. e # 0 => e \in 1..n
      BY <1>1, <2>1
    <3> QED
      BY <2>1, <3>1, AppendProperties
  <2>4. Visit(log, at, e) \in X
    BY <2>2, <2>3 DEF Visit
  <2> QED
    BY <2>4 DEF e
<1>4. s \in [(1..times) \X X -> X]
  <2>1. \A p \in (1..times) \X X : p[2] \in X
    OBVIOUS
  <2> HIDE DEF X
  <2> QED
    BY <1>3, <2>1
<1>5. \A j \in 1..times, at \in X : s[<<j, at>>] = Visit(log, at, to[at.selected])
  OBVIOUS
<1> HIDE DEF s, x, X
<1>6. PICK f \in [0..times -> X] : IsRounds(f, times, x, s)
  BY <1>2, <1>4, RoundsExist
<1>7. ASSUME NEW j \in 0..times, j # 0
      PROVE  f[j] = Visit(log, f[j - 1], to[f[j - 1].selected])
  <2>1. j \in 1..times /\ j - 1 \in 0..times
    BY <1>7
  <2>2. f[j - 1] \in X
    BY <2>1
  <2> QED
    BY <1>5, <1>6, <2>1, <2>2 DEF IsRounds
<1>8. \A j \in 0..times : f[j] = IF j = 0 THEN Outset(selected)
                                 ELSE Visit(log, f[j - 1], to[f[j - 1].selected])
  BY <1>6, <1>7 DEF IsRounds, x
<1>9. f = [j \in 0..times |-> f[j]]
  OBVIOUS
<1>10. IsVisiting(f, log, selected, to, times)
  BY Zenon, <1>8, <1>9 DEF IsVisiting
<1> QED
  BY <1>10

LEMMA VisitedTour ==
    ASSUME NEW R, NEW log \in Seq(R), AllShown(log), NEW selected \in 0..Len(log),
           NEW to \in [0..Len(log) -> 0..Len(log)], NEW times \in Nat
    PROVE  \E s, v :
              /\ IsTour(s, v, selected, to, times)
              /\ \A i \in 0..times : s[i] \in 0..Len(log)
              /\ Visited(log, selected, to, times) = v[times]
<1> DEFINE n == Len(log)
           g == CHOOSE h : IsVisiting(h, log, selected, to, times)
           s == [i \in 0..times |-> g[i].selected]
           v == [i \in 0..times |-> g[i].visited]
<1>1. /\ IsVisiting(g, log, selected, to, times)
      /\ Visited(log, selected, to, times) = g[times].visited
  BY VisitingExists, VisitedLoop
<1> HIDE DEF g
<1>2. \A i \in 0..times : g[i] = IF i = 0 THEN Outset(selected)
                                 ELSE Visit(log, g[i - 1], to[g[i - 1].selected])
  BY <1>1 DEF IsVisiting
<1>3. \A i \in 0..times : s[i] = g[i].selected /\ v[i] = g[i].visited
  OBVIOUS
<1>4. 0 \in 0..times /\ times \in 0..times
  OBVIOUS
<1> HIDE DEF s, v
<1>5. s[0] = selected /\ v[0] = <<>>
  BY <1>2, <1>3, <1>4 DEF Outset
<1>6. ASSUME NEW i \in 1..times, s[i - 1] \in 0..n
      PROVE  /\ to[s[i - 1]] = 0 => s[i] = s[i - 1] /\ v[i] = v[i - 1]
             /\ to[s[i - 1]] # 0 => /\ s[i] = to[s[i - 1]]
                                    /\ v[i] = Append(v[i - 1], to[s[i - 1]])
             /\ s[i] \in 0..n
  <2> DEFINE e == to[s[i - 1]]
             at == g[i - 1]
  <2>1. i \in 0..times /\ i - 1 \in 0..times /\ i # 0
    OBVIOUS
  <2>2. g[i] = Visit(log, at, e) /\ at.selected = s[i - 1] /\ at.visited = v[i - 1]
    BY <1>2, <1>3, <2>1
  <2>3. s[i] = g[i].selected /\ v[i] = g[i].visited
    BY <1>3, <2>1
  <2>4. e \in 0..n
    BY <1>6
  <2> HIDE DEF e, at
  <2>5. CASE e = 0
    BY <1>6, <2>2, <2>3, <2>5 DEF Visit, e
  <2>6. CASE e # 0
    <3>1. e \in DOMAIN log
      BY <2>4, <2>6
    <3>2. log_set_selected(log, at.selected, e) = e
      BY <3>1 DEF log_set_selected, AllShown
    <3>3. g[i] = [selected |-> e, visited |-> Append(v[i - 1], e)]
      BY <2>2, <2>6, <3>2 DEF Visit
    <3>4. s[i] = e /\ v[i] = Append(v[i - 1], e)
      BY <2>3, <3>3
    <3> QED
      BY <2>4, <2>6, <3>4 DEF e
  <2> QED
    BY <2>5, <2>6
<1> DEFINE T == {i \in 0..times : s[i] \in 0..n}
<1>7. 0 \in T
  BY <1>4, <1>5
<1>8. \A i \in 0+1..times : i - 1 \in T => i \in T
  <2>1. \A i \in 0+1..times : i \in 0..times /\ i \in 1..times
    OBVIOUS
  <2> QED
    BY <1>6, <2>1
<1>9. \A i \in 0..times : i \in T
  <2> HIDE DEF T
  <2> QED
    BY <1>7, <1>8, EveryRound
<1>10. \A i \in 0..times : s[i] \in 0..n
  BY <1>9
<1>11. IsTour(s, v, selected, to, times)
  <2>1. \A i \in 1..times : s[i - 1] \in 0..n
    <3>1. \A i \in 1..times : i - 1 \in 0..times
      OBVIOUS
    <3> QED
      BY <1>10, <3>1
  <2> QED
    BY <1>5, <1>6, <2>1 DEF IsTour
<1>12. Visited(log, selected, to, times) = v[times]
  BY <1>1, <1>3, <1>4
<1> QED
  BY <1>10, <1>11, <1>12

\* v has all those of S whose key is at most k, in the order of their keys.
HasVisited(S, key, k, v) ==
    /\ v \in Seq(S)
    /\ \A i, j \in DOMAIN v : i < j => key[v[i]] < key[v[j]]
    /\ \A x : On(v, x) <=> x \in S /\ key[x] <= k

LEMMA NothingVisited ==
    ASSUME NEW S, NEW key, NEW k, \A x \in S : ~ (key[x] <= k)
    PROVE  HasVisited(S, key, k, <<>>)
<1>1. <<>> \in Seq(S) /\ DOMAIN <<>> = {}
  OBVIOUS
<1>2. \A x : ~ On(<<>>, x)
  BY <1>1 DEF On
<1> QED
  BY <1>1, <1>2 DEF HasVisited

LEMMA VisitNext ==
    ASSUME NEW S, NEW key, \A x \in S : key[x] \in Int, NEW k \in Int, NEW v,
           \A x, y \in S : key[x] = key[y] => x = y,
           HasVisited(S, key, k, v), NEW e \in S, k < key[e],
           \A y \in S : k < key[y] => key[e] <= key[y]
    PROVE  HasVisited(S, key, key[e], Append(v, e))
<1> DEFINE r == Append(v, e)
           m == Len(v)
<1>1. v \in Seq(S) /\ m \in Nat /\ m = Len(v) /\ DOMAIN v = 1..m
  BY DEF HasVisited
<1>2. /\ r \in Seq(S) /\ Len(r) = m + 1
      /\ \A i \in 1..m : r[i] = v[i]
      /\ r[m + 1] = e
      /\ DOMAIN r = 1..m + 1
  BY <1>1, AppendProperties
<1>3. \A x : On(r, x) <=> On(v, x) \/ x = e
  BY <1>1, OnAppend
<1> HIDE DEF r, m
<1>4. \A x : On(v, x) <=> x \in S /\ key[x] <= k
  BY DEF HasVisited
<1>5. \A i \in 1..m : v[i] \in S /\ key[v[i]] <= k
  BY <1>1, <1>4 DEF On
<1>6. ASSUME NEW i \in DOMAIN r, NEW j \in DOMAIN r, i < j
      PROVE  key[r[i]] < key[r[j]]
  <2>1. i \in 1..m /\ (j \in 1..m \/ j = m + 1) /\ i \in Int /\ j \in Int
    BY <1>1, <1>2, <1>6
  <2>2. CASE j \in 1..m
    <3>1. key[v[i]] < key[v[j]]
      BY <1>1, <1>6, <2>1, <2>2 DEF HasVisited
    <3> QED
      BY <1>2, <2>1, <2>2, <3>1
  <2>3. CASE j = m + 1
    <3>1. key[v[i]] <= k /\ key[v[i]] \in Int /\ key[e] \in Int
      BY <1>5, <2>1
    <3>2. key[v[i]] < key[e]
      BY <3>1
    <3>3. r[i] = v[i] /\ r[j] = e
      BY <1>2, <2>1, <2>3
    <3> QED
      BY <3>2, <3>3
  <2> QED
    BY <2>1, <2>2, <2>3
<1>7. ASSUME NEW x
      PROVE  On(r, x) <=> x \in S /\ key[x] <= key[e]
  <2>1. ASSUME On(v, x) PROVE x \in S /\ key[x] <= key[e]
    <3>1. x \in S /\ key[x] <= k /\ key[x] \in Int /\ key[e] \in Int
      BY <1>4, <2>1
    <3> QED
      BY <3>1
  <2>2. x = e => x \in S /\ key[x] <= key[e]
    <3>1. key[e] \in Int
      OBVIOUS
    <3> QED
      BY <3>1
  <2>3. ASSUME x \in S, key[x] <= key[e], ~ On(v, x)
        PROVE  x = e
    <3>1. ~ (key[x] <= k) /\ key[x] \in Int /\ key[e] \in Int
      BY <1>4, <2>3
    <3>2. k < key[x]
      BY <3>1
    <3>3. key[e] <= key[x]
      BY <2>3, <3>2
    <3>4. key[x] = key[e]
      BY <2>3, <3>1, <3>3
    <3> QED
      BY <2>3, <3>4
  <2> QED
    BY <1>3, <2>1, <2>2, <2>3
<1>8. HasVisited(S, key, key[e], r)
  BY <1>2, <1>6, <1>7 DEF HasVisited
<1> QED
  BY <1>8 DEF r

\* There is an end to it: so many have been visited, all or fewer than all.
LEMMA VisitedFewer ==
    ASSUME NEW S, IsFiniteSet(S), NEW key, \A x \in S : key[x] \in Int, NEW k \in Int, NEW v,
           HasVisited(S, key, k, v)
    PROVE  /\ Len(v) < Cardinality(S) => \E y \in S : k < key[y]
           /\ Len(v) = Cardinality(S) => \A y \in S : On(v, y)
<1> DEFINE m == Len(v)
           A == {x \in S : key[x] <= k}
<1>1. v \in Seq(S) /\ m \in Nat /\ m = Len(v) /\ v \in [1..m -> S] /\ DOMAIN v = 1..m
  BY DEF HasVisited
<1>2. \A x : On(v, x) <=> x \in A
  BY DEF HasVisited
<1>3. A \in SUBSET S
  OBVIOUS
<1>4. \A x \in S : x \notin A => k < key[x]
  OBVIOUS
<1>k. \A i \in 1..m : key[v[i]] \in Int
  BY <1>1
<1> HIDE DEF A, m
<1>5. v \in [1..m -> A]
  BY <1>1, <1>2 DEF On
<1>6. v \in Injection(1..m, A)
  <2>1. ASSUME NEW i \in 1..m, NEW j \in 1..m, v[i] = v[j]
        PROVE  i = j
    <3>1. ~ (i < j) /\ ~ (j < i)
      BY <1>1, <1>k, <2>1 DEF HasVisited
    <3>2. i \in Int /\ j \in Int
      BY <1>1
    <3> QED
      BY <3>1, <3>2
  <2> QED
    BY <1>5, <2>1 DEF Injection, IsInjective
<1>7. v \in Surjection(1..m, A)
  <2>1. \A x \in A : \E i \in 1..m : v[i] = x
    BY <1>1, <1>2 DEF On
  <2> QED
    BY <1>5, <2>1 DEF Surjection
<1>8. Cardinality(1..m) = m
  <2>1. m \in Int /\ 1 \in Int
    BY <1>1
  <2>2. Cardinality(1..m) = IF 1 > m THEN 0 ELSE m - 1 + 1
    BY <2>1, FS_Interval
  <2> QED
    BY <1>1, <2>2
<1>9. IsFiniteSet(A) /\ (Cardinality(A) = Cardinality(S) => A = S)
  BY <1>3, FS_Subset
<1>10. Cardinality(A) = m
  <2>1. IsFiniteSet(A)
    BY <1>9
  <2> QED
    BY <1>6, <1>7, <1>8, <2>1, FS_Injection
<1>11. ASSUME m < Cardinality(S) PROVE \E y \in S : k < key[y]
  <2>1. A # S
    BY <1>1, <1>10, <1>11, FS_CardinalityType
  <2> QED
    BY <1>3, <1>4, <2>1
<1>12. ASSUME m = Cardinality(S) PROVE \A y \in S : On(v, y)
  BY <1>2, <1>9, <1>10, <1>12
<1> QED
  BY <1>11, <1>12 DEF m

-------------------------------------------------------------------------------
(* Edit Next Error goes straight on, from each error to the next.          *)

\* Straight on: from each record to the first of W beyond it.
GoesOn(to, p, n, W) == \A k \in 0..n : IsFirst(to[k], Among(p, k, n, W), p)

\* v has exactly those of S, in the order of the places.
InOrder(v, S, p) ==
    /\ v \in Seq(S)
    /\ \A i, j \in DOMAIN v : i < j => p[v[i]] < p[v[j]]
    /\ \A x : On(v, x) <=> x \in S

LEMMA OnwardTour ==
    ASSUME NEW n \in Nat, NEW p, IsWay(p, n), NEW W, NEW to, GoesOn(to, p, n, W),
           NEW selected \in 0..n, NEW s, NEW v,
           IsTour(s, v, selected, to, n + 1), \A i \in 0..n + 1 : s[i] \in 0..n
    PROVE  InOrder(v[n + 1], Among(p, selected, n, W), p)
<1> DEFINE S == Among(p, selected, n, W)
           Last1(i) == \A y \in S : ~ (p[s[i]] < p[y])
           T == {i \in 0..n + 1 : /\ HasVisited(S, p, p[s[i]], v[i])
                                  /\ p[selected] <= p[s[i]]
                                  /\ i <= p[s[i]] \/ Last1(i)}
<1>1. \A x : x \in S <=> x \in 1..n /\ p[selected] < p[x] /\ x \in W
  BY DEF Among
<1>2. /\ \A x \in 0..n : p[x] \in 0..n
      /\ \A x \in S : x \in 0..n
  BY <1>1 DEF IsWay
<1>3. \A x, y \in S : p[x] = p[y] => x = y
  BY <1>2 DEF IsWay
<1> HIDE DEF S
<1>p. \A x \in S : p[x] \in Int
  BY <1>2
<1>4. 0 \in T
  <2>1. s[0] = selected /\ v[0] = <<>> /\ 0 \in 0..n + 1
    BY DEF IsTour
  <2>2. \A x \in S : ~ (p[x] <= p[selected])
    BY <1>1, <1>2
  <2>3. HasVisited(S, p, p[selected], <<>>)
    BY <2>2, NothingVisited
  <2>4. p[selected] \in 0..n
    BY <1>2
  <2> QED
    BY <2>1, <2>3, <2>4
<1>5. ASSUME NEW i \in 0 + 1..n + 1, i - 1 \in T
      PROVE  i \in T
  <2> DEFINE k == s[i - 1]
             e == to[k]
  <2>1. i \in 1..n + 1 /\ i \in 0..n + 1 /\ i - 1 \in 0..n + 1 /\ i \in Int
    OBVIOUS
  <2>2. /\ HasVisited(S, p, p[k], v[i - 1])
        /\ p[selected] <= p[k]
        /\ i - 1 <= p[k] \/ Last1(i - 1)
    BY <1>5
  <2>3. k \in 0..n /\ p[k] \in Int /\ p[selected] \in Int
    BY <1>2, <2>1
  <2>4. /\ e = 0 => s[i] = k /\ v[i] = v[i - 1]
        /\ e # 0 => s[i] = e /\ v[i] = Append(v[i - 1], e)
    BY <2>1 DEF IsTour
  <2>5. IsFirst(e, Among(p, k, n, W), p)
    BY <2>3 DEF GoesOn
  <2> HIDE DEF k, e
  <2>6. \A y : y \in Among(p, k, n, W) <=> y \in S /\ p[k] < p[y]
    <3>1. \A y : y \in Among(p, k, n, W) <=> y \in 1..n /\ p[k] < p[y] /\ y \in W
      BY DEF Among
    <3>2. \A y \in 1..n : p[y] \in Int
      BY <1>2
    <3>3. \A y \in 1..n : p[k] < p[y] => p[selected] < p[y]
      BY <2>2, <2>3, <3>2
    <3> QED
      BY <1>1, <3>1, <3>3
  <2>7. CASE e = 0
    <3>1. Among(p, k, n, W) = {}
      <4>1. ~ (0 \in Among(p, k, n, W))
        <5>1. ~ (0 \in 1..n)
          OBVIOUS
        <5> QED
          BY <5>1 DEF Among
      <4> QED
        BY <2>5, <2>7, <4>1 DEF IsFirst
    <3>2. \A y \in S : ~ (p[k] < p[y])
      BY <2>6, <3>1
    <3> QED
      BY <2>1, <2>2, <2>4, <2>7, <3>2
  <2>8. CASE e # 0
    <3>1. e \in Among(p, k, n, W) /\ \A y \in Among(p, k, n, W) : p[e] <= p[y]
      BY <2>5, <2>8 DEF IsFirst
    <3>2. e \in S /\ p[k] < p[e] /\ \A y \in S : p[k] < p[y] => p[e] <= p[y]
      BY <2>6, <3>1
    <3>3. HasVisited(S, p, p[e], Append(v[i - 1], e))
      BY <1>3, <1>p, <2>2, <2>3, <3>2, VisitNext
    <3>4. p[e] \in Int /\ p[selected] <= p[e]
      BY <1>p, <2>2, <2>3, <3>2
    <3>5. ~ Last1(i - 1)
      BY <3>2 DEF k
    <3>6. i <= p[e]
      BY <2>1, <2>2, <2>3, <3>2, <3>4, <3>5
    <3>7. s[i] = e /\ v[i] = Append(v[i - 1], e)
      BY <2>4, <2>8
    <3> QED
      BY <2>1, <3>3, <3>4, <3>6, <3>7
  <2> QED
    BY <2>7, <2>8
<1>6. \A i \in 0..n + 1 : i \in T
  <2> HIDE DEF T
  <2>1. 0 \in Nat /\ n + 1 \in Nat
    OBVIOUS
  <2> QED
    BY <1>4, <1>5, <2>1, EveryRound
<1>7. n + 1 \in 0..n + 1
  OBVIOUS
<1>8. HasVisited(S, p, p[s[n + 1]], v[n + 1]) /\ (n + 1 <= p[s[n + 1]] \/ Last1(n + 1))
  BY <1>6, <1>7
<1>9. p[s[n + 1]] \in 0..n
  BY <1>2, <1>7
<1>10. \A y \in S : p[y] <= p[s[n + 1]]
  <2>1. Last1(n + 1)
    BY <1>8, <1>9
  <2> QED
    BY <1>p, <1>9, <2>1
<1> QED
  BY <1>8, <1>10 DEF HasVisited, InOrder, S

LEMMA NextErrorGoesOn ==
    ASSUME NEW R, NEW log \in Seq(R), NEW next \in BOOLEAN,
           NEW edit_warnings \in BOOLEAN
    PROVE  GoesOn([k \in 0..Len(log) |-> NextError(log, k, next, edit_warnings)],
                  Places(Len(log), next), Len(log),
                  {i \in DOMAIN log : Wanted(log[i], edit_warnings)})
<1> DEFINE n == Len(log)
           p == Places(n, next)
           W == {i \in DOMAIN log : Wanted(log[i], edit_warnings)}
           U == {i \in DOMAIN log : edit_warnings \/ log[i].code = "FR_ERROR"}
           to == [k \in 0..n |-> NextError(log, k, next, edit_warnings)]
<1>1. ASSUME NEW k \in 0..n
      PROVE  IsFirst(to[k], Among(p, k, n, W), p)
  <2>1. to[k] = Skip(log, k, next, U)
    BY DEF NextError
  <2>2. W = {i \in DOMAIN log : IsError(log[i]) /\ i \in U}
    BY DEF Wanted
  <2> HIDE DEF U, W, to, p
  <2>3. IsFirst(Skip(log, k, next, U),
                Among(Places(Len(log), next), k, Len(log),
                      {i \in DOMAIN log : IsError(log[i]) /\ i \in U}),
                Places(Len(log), next))
    BY SkipFinds
  <2> QED
    BY <2>1, <2>2, <2>3 DEF p
<1> QED
  BY <1>1 DEF GoesOn

\* Whoever goes straight on gets somewhere.
LEMMA GoesSomewhere ==
    ASSUME NEW n \in Nat, NEW p, NEW W, NEW to, GoesOn(to, p, n, W),
           NEW k \in 0..n
    PROVE  to[k] \in 0..n
<1>1. IsFirst(to[k], Among(p, k, n, W), p)
  BY DEF GoesOn
<1> QED
  BY <1>1 DEF IsFirst, Among

LEMMA InOrderMeans ==
    ASSUME NEW n \in Nat, NEW forward \in BOOLEAN, NEW S \in SUBSET (1..n), NEW v,
           InOrder(v, S, Places(n, forward))
    PROVE  /\ ToSet(v) = S
           /\ \A i, j \in DOMAIN v : i < j => Ahead(v[i], v[j], forward)
<1>1. v \in Seq(S)
  BY DEF InOrder
<1>2. ToSet(v) = S
  <2>1. \A x : x \in ToSet(v) <=> On(v, x)
    BY <1>1, OnIsToSet
  <2> QED
    BY <2>1 DEF InOrder
<1>3. ASSUME NEW i \in DOMAIN v, NEW j \in DOMAIN v, i < j
      PROVE  Ahead(v[i], v[j], forward)
  <2>1. v[i] \in 1..n /\ v[j] \in 1..n
    <3>1. v[i] \in S /\ v[j] \in S
      BY <1>1
    <3> QED
      BY <3>1
  <2>2. Places(n, forward)[v[i]] < Places(n, forward)[v[j]]
    BY <1>3 DEF InOrder
  <2> QED
    BY <2>1, <2>2, AheadByPlace
<1> QED
  BY <1>2, <1>3

LEMMA EditsInOrder ==
    ASSUME NEW R, NEW log \in Seq(R), AllShown(log), NEW edit_warnings \in BOOLEAN,
           NEW selected \in 0..Len(log), NEW next \in BOOLEAN
    PROVE  ErrorsInOrder(log, selected, next, edit_warnings)
<1> DEFINE n == Len(log)
           p == Places(n, next)
           W == {i \in DOMAIN log : Wanted(log[i], edit_warnings)}
           to == [k \in 0..n |-> NextError(log, k, next, edit_warnings)]
           S == Among(p, selected, n, W)
           edited == EditNextErrors(log, selected, next, edit_warnings, n + 1)
<1>1. n \in Nat /\ n = Len(log) /\ n + 1 \in Nat /\ selected \in 0..n
  OBVIOUS
<1>2. GoesOn(to, p, n, W)
  BY NextErrorGoesOn
<1>3. \A k \in 0..n : to[k] \in 0..n
  <2> HIDE DEF to, p, W, n
  <2> QED
    BY <1>1, <1>2, GoesSomewhere
<1>4. to \in [0..n -> 0..n]
  <2>1. to = [k \in 0..n |-> to[k]]
    OBVIOUS
  <2> HIDE DEF to, n
  <2> QED
    BY <1>3, <2>1
<1>5. edited = Visited(log, selected, to, n + 1)
  BY DEF EditNextErrors
<1>6. IsWay(p, n)
  BY <1>1, PlacesAreWay
<1>7. S = {i \in Beyond(log, selected, next) : Wanted(log[i], edit_warnings)}
  <2>1. Beyond(log, selected, next) = Further(p, selected, n)
    BY BeyondByPlace
  <2> QED
    BY <2>1 DEF Further, Among
<1>8. S \in SUBSET (1..n)
  BY DEF Among
<1> HIDE DEF to, p, W, edited
<1>9. InOrder(edited, S, p)
  <2>1. PICK s, v : /\ IsTour(s, v, selected, to, n + 1)
                    /\ \A i \in 0..n + 1 : s[i] \in 0..n
                    /\ Visited(log, selected, to, n + 1) = v[n + 1]
    BY <1>1, <1>4, VisitedTour
  <2> HIDE DEF n
  <2>2. InOrder(v[n + 1], Among(p, selected, n, W), p)
    BY <1>1, <1>2, <1>6, <2>1, OnwardTour
  <2> QED
    BY <1>5, <2>1, <2>2
<1> HIDE DEF S, n
<1>10. /\ ToSet(edited) = S
       /\ \A i, j \in DOMAIN edited : i < j => Ahead(edited[i], edited[j], next)
  BY <1>1, <1>8, <1>9, InOrderMeans DEF p
<1> QED
  BY <1>7, <1>10 DEF ErrorsInOrder, edited, n

-------------------------------------------------------------------------------
(* Edit Next File Error: to another file each time.                        *)

\* Edit Next File Error.
FileAt(log, k) == IF k = 0 THEN NoFile ELSE log[k].file

\* The errors in other files than the one at k.
Elsewhere(log, k, edit_warnings) ==
    {i \in DOMAIN log : Wanted(log[i], edit_warnings)
                        /\ log[i].file # FileAt(log, k)}

LEMMA NextFileLeaves ==
    ASSUME NEW R, NEW log \in Seq(R), NEW edit_warnings \in BOOLEAN,
           NEW k \in 0..Len(log)
    PROVE  IsFirst(NextFileError(log, k, FileAt(log, k), edit_warnings),
                   Among(Places(Len(log), TRUE), k, Len(log),
                         Elsewhere(log, k, edit_warnings)),
                   Places(Len(log), TRUE))
<1> DEFINE f == FileAt(log, k)
           U == {i \in DOMAIN log : /\ log[i].file # f
                                    /\ edit_warnings \/ log[i].code = "FR_ERROR"}
           W == Elsewhere(log, k, edit_warnings)
<1>1. NextFileError(log, k, f, edit_warnings) = Skip(log, k, TRUE, U)
  BY DEF NextFileError
<1>2. W = {i \in DOMAIN log : IsError(log[i]) /\ i \in U}
  BY DEF Wanted, Elsewhere
<1>3. TRUE \in BOOLEAN
  OBVIOUS
<1> HIDE DEF U, W
<1>4. IsFirst(Skip(log, k, TRUE, U),
              Among(Places(Len(log), TRUE), k, Len(log),
                    {i \in DOMAIN log : IsError(log[i]) /\ i \in U}),
              Places(Len(log), TRUE))
  BY <1>3, SkipFinds
<1> QED
  BY <1>1, <1>2, <1>4 DEF W

LEMMA LastType ==
    ASSUME NEW S, NEW q \in Seq(S), q # <<>>
    PROVE  Last(q) \in S
<1>1. Len(q) \in 1..Len(q) /\ DOMAIN q = 1..Len(q)
  BY EmptySeq
<1>2. q[Len(q)] \in S
  BY <1>1
<1> QED
  BY <1>2 DEF Last

\* Onward, and never from a file to the same one.
Alternate(log, v) ==
    \A i \in 1..Len(v) - 1 :
        v[i] < v[i + 1] /\ log[v[i]].file # log[v[i + 1]].file

LEMMA AlternateNext ==
    ASSUME NEW log, NEW n \in Nat, NEW v \in Seq(1..n), Alternate(log, v),
           NEW e \in 1..n,
           v # <<>> => Last(v) < e /\ log[Last(v)].file # log[e].file
    PROVE  Alternate(log, Append(v, e))
<1> DEFINE r == Append(v, e)
           m == Len(v)
<1>1. m \in Nat /\ m = Len(v)
  OBVIOUS
<1>2. /\ Len(r) = m + 1
      /\ \A i \in 1..m : r[i] = v[i]
      /\ r[m + 1] = e
  <2>1. \A i \in 1..m : r[i] = v[i]
    OBVIOUS
  <2> QED
    BY <2>1
<1>3. m # 0 => v # <<>> /\ Last(v) = v[m]
  BY DEF Last
<1> HIDE DEF r, m
<1>4. ASSUME NEW i \in 1..m
      PROVE  r[i] < r[i + 1] /\ log[r[i]].file # log[r[i + 1]].file
  <2>1. CASE i = m
    BY <1>1, <1>2, <1>3, <1>4, <2>1
  <2>2. CASE i # m
    <3>1. i \in 1..m - 1 /\ i + 1 \in 1..m
      BY <1>1, <1>4, <2>2
    <3>2. v[i] < v[i + 1] /\ log[v[i]].file # log[v[i + 1]].file
      BY <1>1, <3>1 DEF Alternate
    <3> QED
      BY <1>2, <1>4, <3>1, <3>2
  <2> QED
    BY <2>1, <2>2
<1>5. 1..Len(r) - 1 = 1..m
  BY <1>1, <1>2
<1> QED
  BY <1>4, <1>5 DEF Alternate, r

LEMMA FilesInTurn ==
    ASSUME NEW R, NEW log \in Seq(R), AllShown(log), NEW edit_warnings \in BOOLEAN
    PROVE  FilesAlternate(log, edit_warnings)
<1> DEFINE n == Len(log)
           p == Places(n, TRUE)
           to == [k \in 0..n |-> NextFileError(log, k, FileAt(log, k), edit_warnings)]
           edited == EditNextFiles(log, 0, edit_warnings, n + 1)
           Others(k) == Elsewhere(log, k, edit_warnings)
<1>1. n \in Nat /\ n = Len(log) /\ n + 1 \in Nat /\ 0 \in 0..n /\ DOMAIN log = 1..n
  OBVIOUS
<1>2. ASSUME NEW k \in 0..n
      PROVE  /\ to[k] = 0 => \A y \in Others(k) : ~ (k < y)
             /\ to[k] # 0 => to[k] \in Others(k) /\ k < to[k]
             /\ to[k] \in 0..n
  <2> DEFINE e == to[k]
             A == Among(p, k, n, Others(k))
  <2>1. IsFirst(e, A, p)
    BY NextFileLeaves
  <2>2. \A y : y \in A <=> y \in 1..n /\ p[k] < p[y] /\ y \in Others(k)
    BY DEF Among
  <2>3. \A y \in 0..n : p[y] = y
    <3>1. \A y \in 0..n : p[y] = IF y = 0 THEN 0 ELSE y
      BY DEF Places
    <3> QED
      BY <3>1
  <2>4. \A y : y \in Others(k) => y \in 1..n
    BY <1>1 DEF Elsewhere
  <2> HIDE DEF e, A, p
  <2>5. \A y : y \in A <=> k < y /\ y \in Others(k)
    BY <1>1, <2>2, <2>3, <2>4
  <2>6. ~ (0 \in A)
    BY <2>4, <2>5
  <2>7. CASE A = {}
    <3>1. e = 0
      BY <2>1, <2>7 DEF IsFirst
    <3> QED
      BY <1>1, <2>5, <2>7, <3>1 DEF e
  <2>8. CASE A # {}
    <3>1. e \in A
      BY <2>1, <2>8 DEF IsFirst
    <3> QED
      BY <1>1, <2>4, <2>5, <2>6, <3>1 DEF e
  <2> QED
    BY <2>7, <2>8
<1>3. to \in [0..n -> 0..n]
  <2>1. to = [k \in 0..n |-> to[k]]
    OBVIOUS
  <2> HIDE DEF to, n
  <2> QED
    BY <1>2, <2>1
<1>4. edited = Visited(log, 0, to, n + 1)
  BY DEF EditNextFiles, FileAt
<1> HIDE DEF to, edited, p
<1>5. PICK s, v : /\ IsTour(s, v, 0, to, n + 1)
                  /\ \A i \in 0..n + 1 : s[i] \in 0..n
                  /\ Visited(log, 0, to, n + 1) = v[n + 1]
  BY <1>1, <1>3, VisitedTour
<1> DEFINE Stuck(k) == \A y \in Others(k) : ~ (k < y)
           T == {i \in 0..n + 1 : /\ v[i] \in Seq(1..n)
                                  /\ Alternate(log, v[i])
                                  /\ v[i] = <<>> => s[i] = 0
                                  /\ v[i] # <<>> => Last(v[i]) = s[i]
                                  /\ i <= s[i] \/ Stuck(s[i])}
<1>6. 0 \in T
  <2>1. s[0] = 0 /\ v[0] = <<>> /\ 0 \in 0..n + 1
    BY <1>1, <1>5 DEF IsTour
  <2>2. <<>> \in Seq(1..n) /\ Len(<<>>) = 0
    OBVIOUS
  <2>3. Alternate(log, <<>>)
    BY <2>2 DEF Alternate
  <2> HIDE DEF n
  <2>4. /\ v[0] \in Seq(1..n)
        /\ Alternate(log, v[0])
        /\ v[0] = <<>> => s[0] = 0
        /\ v[0] # <<>> => Last(v[0]) = s[0]
    BY <2>1, <2>2, <2>3
  <2>5. 0 <= s[0]
    BY <2>1
  <2> QED
    BY <2>1, <2>4, <2>5
<1>7. ASSUME NEW i \in 0 + 1..n + 1, i - 1 \in T
      PROVE  i \in T
  <2> DEFINE k == s[i - 1]
             u == v[i - 1]
             e == to[k]
  <2>1. i \in 1..n + 1 /\ i \in 0..n + 1 /\ i - 1 \in 0..n + 1 /\ i \in Int
    BY <1>1
  <2>2. /\ u \in Seq(1..n)
        /\ Alternate(log, u)
        /\ u = <<>> => k = 0
        /\ u # <<>> => Last(u) = k
        /\ i - 1 <= k \/ Stuck(k)
    BY <1>7
  <2>3. k \in 0..n
    BY <1>5, <2>1
  <2>4. /\ e = 0 => s[i] = k /\ v[i] = u
        /\ e # 0 => s[i] = e /\ v[i] = Append(u, e)
    BY <1>5, <2>1 DEF IsTour
  <2>5. /\ e = 0 => Stuck(k)
        /\ e # 0 => e \in Others(k) /\ k < e
    BY <1>2, <2>3
  <2> HIDE DEF k, u, e, n
  <2>6. CASE e = 0
    BY <2>1, <2>2, <2>4, <2>5, <2>6
  <2>7. CASE e # 0
    <3>1. /\ e \in 1..n
          /\ log[e].file # FileAt(log, k)
      BY <1>1, <2>5, <2>7 DEF Elsewhere
    <3>2. u # <<>> => Last(u) < e /\ log[Last(u)].file # log[e].file
      <4>1. ASSUME u # <<>>
            PROVE  Last(u) = k /\ k # 0
        <5>1. Last(u) \in 1..n
          <6>1. u \in Seq(1..n)
            BY <2>2
          <6> QED
            BY <4>1, <6>1, LastType
        <5> QED
          BY <2>2, <4>1, <5>1
      <4> QED
        BY <2>5, <2>7, <3>1, <4>1 DEF FileAt
    <3>3. Alternate(log, Append(u, e))
      BY <1>1, <2>2, <3>1, <3>2, AlternateNext
    <3>4. /\ Append(u, e) \in Seq(1..n)
          /\ Append(u, e) # <<>>
      <4>1. u \in Seq(1..n) /\ e \in 1..n
        BY <2>2, <3>1
      <4> QED
        BY <4>1
    <3>5. Last(Append(u, e)) = e
      <4>1. Len(Append(u, e)) = Len(u) + 1 /\ Append(u, e)[Len(u) + 1] = e
        BY <2>2, <3>1, AppendProperties
      <4> QED
        BY <4>1 DEF Last
    <3>6. i <= e
      <4>1. ~ Stuck(k)
        BY <2>5, <2>7
      <4>2. i - 1 <= k /\ k < e
        BY <2>2, <2>5, <2>7, <4>1
      <4> QED
        BY <2>1, <2>3, <3>1, <4>2
    <3>7. s[i] = e /\ v[i] = Append(u, e)
      BY <2>4, <2>7
    <3> QED
      BY <2>1, <3>3, <3>4, <3>5, <3>6, <3>7
  <2> QED
    BY <2>6, <2>7
<1>8. \A i \in 0..n + 1 : i \in T
  <2> HIDE DEF T, n
  <2>1. 0 \in Nat /\ n + 1 \in Nat
    BY <1>1
  <2> QED
    BY <1>6, <1>7, <2>1, EveryRound
<1>9. n + 1 \in 0..n + 1
  BY <1>1
<1> DEFINE k == s[n + 1]
<1>10. /\ edited \in Seq(1..n)
       /\ Alternate(log, edited)
       /\ edited = <<>> => k = 0
       /\ edited # <<>> => Last(edited) = k
       /\ n + 1 <= k \/ Stuck(k)
  BY <1>4, <1>5, <1>8, <1>9
<1>11. k \in 0..n
  BY <1>5, <1>9
<1> HIDE DEF k, n
<1>12. Stuck(k)
  BY <1>1, <1>10, <1>11
<1>13. ASSUME NEW i \in DOMAIN log, Wanted(log[i], edit_warnings),
              edited = <<>> \/ Last(edited) < i
       PROVE  edited # <<>> /\ log[i].file = log[Last(edited)].file
  <2>1. k < i
    BY <1>1, <1>10, <1>13
  <2>2. ~ (i \in Others(k))
    BY <1>12, <2>1
  <2>3. log[i].file = FileAt(log, k)
    BY <1>13, <2>2 DEF Elsewhere
  <2>4. log[i].file # NoFile
    BY <1>13 DEF Wanted, IsError
  <2>5. k # 0
    BY <2>3, <2>4 DEF FileAt
  <2> QED
    BY <1>10, <2>3, <2>5 DEF FileAt
<1> QED
  BY <1>10, <1>13 DEF FilesAlternate, Alternate, edited, n

\* Going through the errors of any log.
LEMMA ErrorsEdited ==
    ASSUME NEW R, NEW log \in Seq(R), NEW edit_warnings \in BOOLEAN
    PROVE  EditsEachOnce(log, edit_warnings)
  BY EditsInOrder, FilesInTurn DEF EditsEachOnce

-------------------------------------------------------------------------------
(* Find Again goes round.                                                  *)

\* Find Again.  With Wrap it goes round: beyond the last of M it begins again.
GoesRound(to, p, n, M) ==
    \A k \in 0..n :
        /\ Among(p, k, n, M) = {} => IsFirst(to[k], M, p)
        /\ Among(p, k, n, M) # {} => IsFirst(to[k], Among(p, k, n, M), p)

LEMMA FindGoesOn ==
    ASSUME NEW R, NEW log \in Seq(R), NEW forward \in BOOLEAN
    PROVE  LET n == Len(log)
               p == Places(n, forward)
               M == {i \in DOMAIN log : log[i].matches}
           IN  /\ GoesOn([k \in 0..n |-> Find(log, k, forward, FALSE)], p, n, M)
               /\ GoesRound([k \in 0..n |-> Find(log, k, forward, TRUE)], p, n, M)
<1> DEFINE n == Len(log)
           p == Places(n, forward)
           M == {i \in DOMAIN log : log[i].matches}
           on == [k \in 0..n |-> Find(log, k, forward, FALSE)]
           round == [k \in 0..n |-> Find(log, k, forward, TRUE)]
           found(k) == log_apply_after(log, k, forward)
<1>1. n \in Nat /\ n = Len(log) /\ DOMAIN log = 1..n /\ 0 \in 0..n
  OBVIOUS
<1>2. M \in SUBSET (1..n)
  BY <1>1
<1>3. ASSUME NEW k \in 0..n
      PROVE  IsFirst(found(k), Among(p, k, n, M), p)
  <2> DEFINE A == Among(p, k, n, M)
  <2>1. Beyond(log, k, forward) = Further(p, k, n)
    BY BeyondByPlace
  <2>2. {i \in Beyond(log, k, forward) : log[i].matches} = A
    BY <1>1, <2>1 DEF Further, Among
  <2>3. found(k) = Nearest(A, forward)
    BY <2>2 DEF log_apply_after
  <2>4. A \in SUBSET (1..n)
    BY DEF Among
  <2> HIDE DEF A, n
  <2>5. IsFirst(Nearest(A, forward), A, Places(n, forward))
    BY <1>1, <2>4, NearestIsFirst
  <2> QED
    BY <2>3, <2>5 DEF A
<1>4. Among(p, 0, n, M) = M
  <2>1. p[0] = 0 /\ \A i \in 1..n : p[i] \in 1..n
    <3> HIDE DEF n, p
    <3>1. IsWay(Places(n, forward), n)
      BY <1>1, PlacesAreWay
    <3> QED
      BY <3>1 DEF IsWay, p
  <2>2. \A i \in 1..n : p[0] < p[i]
    BY <2>1
  <2> QED
    BY <1>2, <2>2 DEF Among
<1>5. ASSUME NEW k \in 0..n
      PROVE  found(k) = 0 <=> Among(p, k, n, M) = {}
  <2>1. IsFirst(found(k), Among(p, k, n, M), p)
    BY <1>3
  <2>2. ~ (0 \in Among(p, k, n, M))
    BY DEF Among
  <2> QED
    BY <2>1, <2>2 DEF IsFirst
<1>6. ASSUME NEW k \in 0..n
      PROVE  /\ on[k] = found(k)
             /\ round[k] = IF found(k) = 0 THEN found(0) ELSE found(k)
  BY DEF Find
<1>7. IsFirst(found(0), M, p)
  BY <1>1, <1>3, <1>4
<1> HIDE DEF found, on, round
<1>8. GoesOn(on, p, n, M)
  BY <1>3, <1>6 DEF GoesOn
<1>9. ASSUME NEW k \in 0..n
      PROVE  /\ Among(p, k, n, M) = {} => IsFirst(round[k], M, p)
             /\ Among(p, k, n, M) # {} => IsFirst(round[k], Among(p, k, n, M), p)
  BY <1>3, <1>5, <1>6, <1>7
<1>10. GoesRound(round, p, n, M)
  BY <1>9 DEF GoesRound
<1> QED
  BY <1>8, <1>10 DEF on, round

\* How far it is to each record, if the way goes on from the last to the first.
Rounded(p, selected, n) ==
    [x \in 1..n |-> IF p[selected] < p[x] THEN p[x] - p[selected]
                    ELSE p[x] + (n - p[selected])]

LEMMA RoundedIsKey ==
    ASSUME NEW n \in Nat, NEW p, IsWay(p, n), NEW selected \in 0..n
    PROVE  LET key == Rounded(p, selected, n)
           IN  /\ \A x \in 1..n : key[x] \in 1..n
               /\ \A x, y \in 1..n : key[x] = key[y] => x = y
               /\ \A x, y \in 1..n : key[x] < key[y] =>
                     \/ p[selected] < p[x] /\ ~ (p[selected] < p[y])
                     \/ /\ p[selected] < p[x] <=> p[selected] < p[y]
                        /\ p[x] < p[y]
<1> DEFINE key == Rounded(p, selected, n)
           a == p[selected]
<1>1. a \in 0..n /\ \A x \in 1..n : p[x] \in 1..n
  BY DEF IsWay
<1>2. \A x \in 1..n : key[x] = IF a < p[x] THEN p[x] - a ELSE p[x] + (n - a)
  BY DEF Rounded
<1> HIDE DEF key, a
<1>3. \A x, y \in 1..n : p[x] = p[y] => x = y
  <2>1. \A x \in 1..n : x \in 0..n
    OBVIOUS
  <2> QED
    BY <2>1 DEF IsWay
<1>4. ASSUME NEW x \in 1..n
      PROVE  key[x] \in 1..n
  <2>1. p[x] \in 1..n /\ key[x] = IF a < p[x] THEN p[x] - a ELSE p[x] + (n - a)
    BY <1>1, <1>2
  <2> QED
    BY <1>1, <2>1
<1>5. ASSUME NEW x \in 1..n, NEW y \in 1..n
      PROVE  /\ key[x] = key[y] => p[x] = p[y]
             /\ key[x] < key[y] =>
                     \/ a < p[x] /\ ~ (a < p[y])
                     \/ (a < p[x] <=> a < p[y]) /\ p[x] < p[y]
  <2>1. p[x] \in 1..n /\ key[x] = IF a < p[x] THEN p[x] - a ELSE p[x] + (n - a)
    BY <1>1, <1>2
  <2>2. p[y] \in 1..n /\ key[y] = IF a < p[y] THEN p[y] - a ELSE p[y] + (n - a)
    BY <1>1, <1>2
  <2> QED
    BY <1>1, <2>1, <2>2
<1> QED
  BY <1>3, <1>4, <1>5 DEF key, a

LEMMA RoundStep ==
    ASSUME NEW n \in Nat, NEW p, IsWay(p, n), NEW M \in SUBSET (1..n),
           NEW to, GoesRound(to, p, n, M), NEW selected \in 0..n, NEW k \in 0..n,
           NEW far, \/ k = selected /\ far = 0
                    \/ k \in M /\ far = Rounded(p, selected, n)[k],
           \E y \in M : far < Rounded(p, selected, n)[y]
    PROVE  /\ to[k] \in M
           /\ far < Rounded(p, selected, n)[to[k]]
           /\ \A y \in M : far < Rounded(p, selected, n)[y] =>
                 Rounded(p, selected, n)[to[k]] <= Rounded(p, selected, n)[y]
<1> DEFINE key == Rounded(p, selected, n)
           a == p[selected]
           b == p[k]
           e == to[k]
           A == Among(p, k, n, M)
<1>1. a \in 0..n /\ b \in 0..n /\ \A x \in M : x \in 1..n /\ p[x] \in 1..n
  BY DEF IsWay
<1>2. \A x \in M : key[x] = IF a < p[x] THEN p[x] - a ELSE p[x] + (n - a)
  BY DEF Rounded
<1>3. \A y : y \in A <=> y \in M /\ b < p[y]
  BY <1>1 DEF Among
<1>4. /\ A = {} => IsFirst(e, M, p)
      /\ A # {} => IsFirst(e, A, p)
  BY DEF GoesRound
<1>5. \/ b = a /\ far = 0
      \/ k \in M /\ far = IF a < b THEN b - a ELSE b + (n - a)
  BY <1>2
<1>6. k \in M => b \in 1..n
  BY <1>1
<1>7. \E y \in M : far < key[y]
  OBVIOUS
<1> HIDE DEF key, a, b, e, A
<1>8. PICK y0 \in M : far < key[y0]
  BY <1>7
<1>9. far \in Int
  BY <1>1, <1>5
<1>10. ASSUME e \in M,
              \/ b < p[e] /\ \A y \in M : b < p[y] => p[e] <= p[y]
              \/ (\A y \in M : ~ (b < p[y])) /\ \A y \in M : p[e] <= p[y]
       PROVE  far < key[e] /\ \A y \in M : far < key[y] => key[e] <= key[y]
  <2>1. p[e] \in 1..n /\ key[e] = IF a < p[e] THEN p[e] - a ELSE p[e] + (n - a)
    BY <1>1, <1>2, <1>10
  <2>2. p[y0] \in 1..n /\ key[y0] = IF a < p[y0] THEN p[y0] - a ELSE p[y0] + (n - a)
    BY <1>1, <1>2
  <2>3. ASSUME NEW y \in M, far < key[y]
        PROVE  far < key[e] /\ key[e] <= key[y]
    <3>1. p[y] \in 1..n /\ key[y] = IF a < p[y] THEN p[y] - a ELSE p[y] + (n - a)
      BY <1>1, <1>2
    <3>2. CASE b < p[e] /\ \A z \in M : b < p[z] => p[e] <= p[z]
      <4>1. b < p[y] => p[e] <= p[y]
        BY <3>2
      <4> QED
        BY <1>1, <1>5, <1>6, <2>1, <2>3, <3>1, <3>2, <4>1
    <3>3. CASE (\A z \in M : ~ (b < p[z])) /\ \A z \in M : p[e] <= p[z]
      <4>1. ~ (b < p[y]) /\ p[e] <= p[y]
        BY <3>3
      <4> QED
        BY <1>1, <1>5, <1>6, <2>1, <2>3, <3>1, <4>1
    <3> QED
      BY <1>10, <3>2, <3>3
  <2> QED
    BY <1>8, <2>3
<1>11. CASE A = {}
  <2>1. IsFirst(e, M, p) /\ M # {}
    BY <1>4, <1>8, <1>11
  <2>2. e \in M /\ \A y \in M : p[e] <= p[y]
    BY <2>1 DEF IsFirst
  <2>3. \A y \in M : ~ (b < p[y])
    BY <1>3, <1>11
  <2> QED
    BY <1>10, <2>2, <2>3 DEF key, e
<1>12. CASE A # {}
  <2>1. e \in A /\ \A y \in A : p[e] <= p[y]
    BY <1>4, <1>12 DEF IsFirst
  <2>2. e \in M /\ b < p[e] /\ \A y \in M : b < p[y] => p[e] <= p[y]
    BY <1>3, <2>1
  <2> QED
    BY <1>10, <2>2 DEF key, e
<1> QED
  BY <1>11, <1>12

LEMMA RoundTour ==
    ASSUME NEW n \in Nat, NEW p, IsWay(p, n), NEW M \in SUBSET (1..n),
           NEW to, GoesRound(to, p, n, M), NEW selected \in 0..n, NEW s, NEW v,
           IsTour(s, v, selected, to, Cardinality(M)),
           \A i \in 0..Cardinality(M) : s[i] \in 0..n
    PROVE  InOrder(v[Cardinality(M)], M, Rounded(p, selected, n))
<1> DEFINE c == Cardinality(M)
           key == Rounded(p, selected, n)
           T == {i \in 0..c : \E far \in Int :
                    /\ HasVisited(M, key, far, v[i])
                    /\ Len(v[i]) = i
                    /\ \/ s[i] = selected /\ far = 0
                       \/ s[i] \in M /\ far = key[s[i]]}
<1>1. IsFiniteSet(M) /\ c \in Nat /\ c = Cardinality(M)
  <2>1. IsFiniteSet(1..n)
    BY FS_Interval
  <2>2. IsFiniteSet(M)
    BY <2>1, FS_Subset
  <2> QED
    BY <2>2, FS_CardinalityType
<1>2. /\ \A x \in M : x \in 1..n /\ key[x] \in 1..n
      /\ \A x, y \in M : key[x] = key[y] => x = y
  BY RoundedIsKey
<1>i. \A x \in M : key[x] \in Int
  BY <1>2
<1>t. IsTour(s, v, selected, to, c) /\ \A i \in 0..c : s[i] \in 0..n
  OBVIOUS
<1>k. key = Rounded(p, selected, n)
  OBVIOUS
<1> HIDE DEF key, c
<1>3. 0 \in T
  <2>1. s[0] = selected /\ v[0] = <<>> /\ 0 \in 0..c /\ 0 \in Int
    BY <1>1, <1>t DEF IsTour
  <2>2. \A x \in M : ~ (key[x] <= 0)
    BY <1>2
  <2>3. HasVisited(M, key, 0, <<>>)
    BY <2>2, NothingVisited
  <2>4. Len(<<>>) = 0
    OBVIOUS
  <2> QED
    BY <2>1, <2>3, <2>4
<1>4. ASSUME NEW i \in 0 + 1..c, i - 1 \in T
      PROVE  i \in T
  <2> DEFINE k == s[i - 1]
             u == v[i - 1]
             e == to[k]
  <2>1. i \in 1..c /\ i \in 0..c /\ i - 1 \in 0..c /\ i \in Int
    BY <1>1
  <2>2. PICK far \in Int : /\ HasVisited(M, key, far, u)
                           /\ Len(u) = i - 1
                           /\ \/ k = selected /\ far = 0
                              \/ k \in M /\ far = key[k]
    BY <1>4
  <2>3. k \in 0..n
    BY <1>t, <2>1
  <2>4. e # 0 => s[i] = e /\ v[i] = Append(u, e)
    BY <1>t, <2>1 DEF IsTour
  <2> HIDE DEF k, u
  <2>5. \E y \in M : far < key[y]
    <3>1. Len(u) < Cardinality(M)
      BY <1>1, <2>1, <2>2
    <3> QED
      BY <1>1, <1>i, <2>2, <3>1, VisitedFewer
  <2>6. /\ e \in M
        /\ far < key[e]
        /\ \A y \in M : far < key[y] => key[e] <= key[y]
    <3>1. \/ k = selected /\ far = 0
          \/ k \in M /\ far = Rounded(p, selected, n)[k]
      BY <1>k, <2>2
    <3>2. \E y \in M : far < Rounded(p, selected, n)[y]
      BY <1>k, <2>5
    <3>3. /\ to[k] \in M
          /\ far < Rounded(p, selected, n)[to[k]]
          /\ \A y \in M : far < Rounded(p, selected, n)[y] =>
                Rounded(p, selected, n)[to[k]] <= Rounded(p, selected, n)[y]
      BY <2>3, <3>1, <3>2, RoundStep
    <3> QED
      BY <1>k, <3>3
  <2> HIDE DEF e
  <2>7. HasVisited(M, key, key[e], Append(u, e))
    BY <1>2, <1>i, <2>2, <2>6, VisitNext
  <2>8. s[i] = e /\ v[i] = Append(u, e)
    BY <1>2, <2>4, <2>6
  <2>9. Len(Append(u, e)) = i
    <3>1. u \in Seq(M)
      BY <2>2 DEF HasVisited
    <3>2. Len(Append(u, e)) = Len(u) + 1
      BY <2>6, <3>1, AppendProperties
    <3> QED
      BY <2>1, <2>2, <3>2
  <2>10. key[e] \in Int
    BY <1>i, <2>6
  <2> QED
    BY <2>1, <2>6, <2>7, <2>8, <2>9, <2>10
<1>5. \A i \in 0..c : i \in T
  <2> HIDE DEF T
  <2> QED
    BY <1>1, <1>3, <1>4, EveryRound
<1>6. c \in 0..c
  BY <1>1
<1>7. PICK far \in Int : HasVisited(M, key, far, v[c]) /\ Len(v[c]) = c
  BY <1>5, <1>6
<1> DEFINE w == v[c]
<1> HIDE DEF w
<1>8. HasVisited(M, key, far, w) /\ Len(w) = Cardinality(M)
  BY <1>1, <1>7 DEF w
<1>9. \A y \in M : On(w, y)
  BY <1>1, <1>i, <1>8, VisitedFewer
<1>10. InOrder(w, M, key)
  BY <1>8, <1>9 DEF HasVisited, InOrder
<1> QED
  BY <1>10, <1>k DEF w, c

\* v goes through M, first through those beyond the selection.
GoesThrough(v, M, beyond, forward) ==
    /\ ToSet(v) = M
    /\ \A i, j \in DOMAIN v : i < j =>
          \/ v[i] \in beyond /\ v[j] \notin beyond
          \/ /\ v[i] \in beyond <=> v[j] \in beyond
             /\ Ahead(v[i], v[j], forward)

LEMMA RoundMeans ==
    ASSUME NEW n \in Nat, NEW forward \in BOOLEAN, NEW M \in SUBSET (1..n), NEW v,
           NEW selected \in 0..n,
           InOrder(v, M, Rounded(Places(n, forward), selected, n))
    PROVE  GoesThrough(v, M, Among(Places(n, forward), selected, n, M), forward)
<1> DEFINE p == Places(n, forward)
           key == Rounded(p, selected, n)
           B == Among(p, selected, n, M)
<1>1. v \in Seq(M)
  BY DEF InOrder
<1>2. ToSet(v) = M
  <2>1. \A x : x \in ToSet(v) <=> On(v, x)
    BY <1>1, OnIsToSet
  <2> QED
    BY <2>1 DEF InOrder
<1>3. ASSUME NEW i \in DOMAIN v, NEW j \in DOMAIN v, i < j
      PROVE  \/ v[i] \in B /\ v[j] \notin B
             \/ (v[i] \in B <=> v[j] \in B) /\ Ahead(v[i], v[j], forward)
  <2> DEFINE x == v[i]
             y == v[j]
  <2>1. x \in M /\ y \in M
    BY <1>1
  <2>2. x \in 1..n /\ y \in 1..n
    BY <2>1
  <2>3. key[x] < key[y]
    BY <1>3 DEF InOrder
  <2>4. IsWay(p, n)
    BY PlacesAreWay
  <2>5. (x \in B <=> p[selected] < p[x]) /\ (y \in B <=> p[selected] < p[y])
    BY <2>1, <2>2 DEF Among
  <2> HIDE DEF x, y, B
  <2>6. \/ p[selected] < p[x] /\ ~ (p[selected] < p[y])
        \/ (p[selected] < p[x] <=> p[selected] < p[y]) /\ p[x] < p[y]
    <3> HIDE DEF p
    <3>1. \A a, b \in 1..n : key[a] < key[b] =>
             \/ p[selected] < p[a] /\ ~ (p[selected] < p[b])
             \/ /\ p[selected] < p[a] <=> p[selected] < p[b]
                /\ p[a] < p[b]
      BY <2>4, RoundedIsKey
    <3> HIDE DEF key
    <3> QED
      BY <2>2, <2>3, <3>1
  <2>7. Ahead(x, y, forward) <=> p[x] < p[y]
    BY <2>2, AheadByPlace
  <2> QED
    BY <2>5, <2>6, <2>7 DEF x, y
<1> HIDE DEF B
<1>4. GoesThrough(v, M, B, forward)
  BY <1>2, <1>3 DEF GoesThrough
<1> QED
  BY <1>4 DEF B

\* Going through the matches of any log.
LEMMA MatchesFound ==
    ASSUME NEW R, NEW log \in Seq(R), NEW selected \in 0..Len(log),
           NEW forward \in BOOLEAN
    PROVE  FindsEachOnce(log, selected, forward)
<1> DEFINE n == Len(log)
           p == Places(n, forward)
           M == {i \in DOMAIN log : log[i].matches}
           B == Among(p, selected, n, M)
           c == Cardinality(M)
           on == [k \in 0..n |-> Find(log, k, forward, FALSE)]
           round == [k \in 0..n |-> Find(log, k, forward, TRUE)]
           u == FindAgain(log, selected, forward, FALSE, n + 1)
           w == FindAgain(log, selected, forward, TRUE, c)
<1>1. n \in Nat /\ n + 1 \in Nat /\ n = Len(log) /\ selected \in 0..n
  OBVIOUS
<1>2. M \in SUBSET (1..n)
  OBVIOUS
<1>3. B = M \cap Beyond(log, selected, forward) /\ B \in SUBSET (1..n)
  <2>1. Beyond(log, selected, forward) = Further(p, selected, n)
    BY BeyondByPlace
  <2> QED
    BY <1>2, <2>1 DEF Further, Among
<1>4. GoesOn(on, p, n, M) /\ GoesRound(round, p, n, M)
  BY FindGoesOn
<1>5. u = Visited(log, selected, on, n + 1) /\ w = Visited(log, selected, round, c)
  BY DEF FindAgain
<1>6. on = [k \in 0..n |-> on[k]] /\ round = [k \in 0..n |-> round[k]]
  OBVIOUS
<1>m. \A i : i \in M <=> i \in DOMAIN log /\ log[i].matches
  OBVIOUS
<1> HIDE DEF on, round, u, w, M, n
<1>7. on \in [0..n -> 0..n] /\ round \in [0..n -> 0..n]
  <2>1. \A k \in 0..n : on[k] \in 0..n
    <3> HIDE DEF p
    <3> QED
      BY <1>1, <1>4, GoesSomewhere
  <2>2. ASSUME NEW k \in 0..n PROVE round[k] \in 0..n
    <3>1. IsFirst(round[k], M, p) \/ IsFirst(round[k], Among(p, k, n, M), p)
      BY <1>4 DEF GoesRound
    <3>2. Among(p, k, n, M) \in SUBSET (1..n)
      BY DEF Among
    <3>3. round[k] = 0 \/ round[k] \in M \/ round[k] \in Among(p, k, n, M)
      BY <3>1 DEF IsFirst
    <3>4. round[k] = 0 \/ round[k] \in 1..n
      BY <1>2, <3>2, <3>3
    <3> HIDE DEF n
    <3> QED
      BY <1>1, <3>4
  <2> QED
    BY <1>6, <2>1, <2>2
<1>8. c \in Nat
  <2>1. IsFiniteSet(1..n)
    BY <1>1, FS_Interval
  <2>2. IsFiniteSet(M)
    BY <1>2, <2>1, FS_Subset
  <2> QED
    BY <2>2, FS_CardinalityType
<1>9. IsWay(p, n)
  BY <1>1, PlacesAreWay
<1> HIDE DEF c
<1>10. ASSUME AllShown(log)
       PROVE  /\ ToSet(u) = B
              /\ \A i, j \in DOMAIN u : i < j => Ahead(u[i], u[j], forward)
  <2>1. PICK s, v : /\ IsTour(s, v, selected, on, n + 1)
                    /\ \A i \in 0..n + 1 : s[i] \in 0..n
                    /\ Visited(log, selected, on, n + 1) = v[n + 1]
    BY <1>1, <1>7, <1>10, VisitedTour DEF n
  <2>2. InOrder(v[n + 1], Among(p, selected, n, M), p)
    <3> HIDE DEF p
    <3> QED
      BY <1>1, <1>4, <1>9, <2>1, OnwardTour
  <2>3. InOrder(u, B, Places(n, forward))
    BY <1>5, <2>1, <2>2
  <2> HIDE DEF B
  <2> QED
    BY <1>1, <1>3, <2>3, InOrderMeans
<1>11. ASSUME AllShown(log)
       PROVE  GoesThrough(w, M, B, forward)
  <2>1. PICK s, v : /\ IsTour(s, v, selected, round, c)
                    /\ \A i \in 0..c : s[i] \in 0..n
                    /\ Visited(log, selected, round, c) = v[c]
    BY <1>1, <1>7, <1>8, <1>11, VisitedTour DEF n
  <2>2. InOrder(v[Cardinality(M)], M, Rounded(p, selected, n))
    <3>1. /\ IsTour(s, v, selected, round, Cardinality(M))
          /\ \A i \in 0..Cardinality(M) : s[i] \in 0..n
      BY <2>1 DEF c
    <3> HIDE DEF p
    <3> QED
      BY <1>1, <1>2, <1>4, <1>9, <3>1, RoundTour
  <2>3. InOrder(w, M, Rounded(Places(n, forward), selected, n))
    BY <1>5, <2>1, <2>2 DEF c
  <2> QED
    BY <1>1, <1>2, <2>3, RoundMeans
<1> QED
  BY <1>3, <1>10, <1>11 DEF FindsEachOnce, GoesThrough, u, w, M, c, n

-------------------------------------------------------------------------------
(* What the words that parts of an expression stand for start with.        *)

\* Every word of A that is not empty starts with a character of S.
Led(A, S) == \A w \in A : w # <<>> => Head(w) \in S

Languages == SUBSET Seq(Chars)

LEMMA ConcatWords ==
    ASSUME NEW A \in Languages, NEW B \in Languages
    PROVE  /\ Concat(A, B) \in Languages
           /\ \A w \in Concat(A, B) : \E v \in A, u \in B : w = v \o u
<1>1. \A v \in A, u \in B : v \in Seq(Chars) /\ u \in Seq(Chars)
  BY DEF Languages
<1>2. \A w \in Concat(A, B) : \E v \in A, u \in B : w = v \o u
  BY DEF Concat
<1>3. ASSUME NEW w \in Concat(A, B)
      PROVE  w \in Seq(Chars)
  <2>1. PICK v \in A, u \in B : w = v \o u
    BY <1>2
  <2>2. v \in Seq(Chars) /\ u \in Seq(Chars)
    BY <1>1
  <2> QED
    BY <2>1, <2>2
<1> QED
  BY <1>2, <1>3 DEF Languages

LEMMA LedConcat ==
    ASSUME NEW A \in Languages, NEW B \in Languages, NEW S, Led(A, S),
           <<>> \in A => Led(B, S)
    PROVE  /\ Led(Concat(A, B), S)
           /\ <<>> \in Concat(A, B) => <<>> \in A /\ <<>> \in B
<1>1. ASSUME NEW w \in Concat(A, B)
      PROVE  \/ w = <<>> /\ <<>> \in A /\ <<>> \in B
             \/ w # <<>> /\ Head(w) \in S
  <2>1. PICK v \in A, u \in B : w = v \o u
    BY ConcatWords
  <2>2. v \in Seq(Chars) /\ u \in Seq(Chars)
    BY DEF Languages
  <2>3. CASE v = <<>>
    <3>1. w = u
      BY <2>1, <2>2, <2>3
    <3>2. Led(B, S)
      BY <2>3
    <3> QED
      BY <2>3, <3>1, <3>2 DEF Led
  <2>4. CASE v # <<>>
    <3>1. Head(w) = Head(v) /\ w # <<>>
      BY <2>1, <2>2, <2>4
    <3> QED
      BY <2>4, <3>1 DEF Led
  <2> QED
    BY <2>3, <2>4
<1> QED
  BY <1>1 DEF Led

\* g is what the first languages together are, for each number of them.
HasJoined(g, languages) ==
    /\ g[0] = {<<>>}
    /\ \A i \in 1..Len(languages) : g[i] = Concat(g[i - 1], languages[i])

IsJoining(g, languages) ==
    g = [i \in 0..Len(languages) |->
            IF i = 0 THEN {<<>>} ELSE Concat(g[i - 1], languages[i])]

LEMMA InTurnLoop ==
    ASSUME NEW languages
    PROVE  InTurn(languages)
              = (CHOOSE g : IsJoining(g, languages))[Len(languages)]
  BY Zenon DEF InTurn, IsJoining

LEMMA JoiningExists ==
    ASSUME NEW languages \in Seq(Languages)
    PROVE  \E g : HasJoined(g, languages) /\ InTurn(languages) = g[Len(languages)]
<1> DEFINE n == Len(languages)
           s == [p \in (1..n) \X Languages |-> Concat(p[2], languages[p[1]])]
<1>1. n \in Nat
  OBVIOUS
<1>e. {<<>>} \in Languages
  BY EmptySeq DEF Languages
<1>2. ASSUME NEW j \in 1..n, NEW w \in Languages
      PROVE  Concat(w, languages[j]) \in Languages
  <2>1. languages[j] \in Languages
    OBVIOUS
  <2> QED
    BY <2>1, ConcatWords
<1>3. \A j \in 1..n, w \in Languages : s[<<j, w>>] = Concat(w, languages[j])
  OBVIOUS
<1>4. s \in [(1..n) \X Languages -> Languages]
  <2>1. \A p \in (1..n) \X Languages : p[1] \in 1..n /\ p[2] \in Languages
    OBVIOUS
  <2> QED
    BY <1>2, <2>1
<1>n. n = Len(languages)
  OBVIOUS
<1> HIDE DEF n, s
<1>5. PICK f \in [0..n -> Languages] : IsRounds(f, n, {<<>>}, s)
  BY <1>1, <1>4, <1>e, RoundsExist
<1>6. ASSUME NEW j \in 0..n, j # 0
      PROVE  f[j] = Concat(f[j - 1], languages[j])
  <2>1. j \in 1..n /\ j - 1 \in 0..n
    BY <1>1, <1>6
  <2> QED
    BY <1>3, <1>5, <2>1 DEF IsRounds
<1>7. \A j \in 0..n :
         f[j] = IF j = 0 THEN {<<>>} ELSE Concat(f[j - 1], languages[j])
  BY <1>5, <1>6 DEF IsRounds
<1>8. IsJoining(f, languages)
  BY <1>7, <1>n DEF IsJoining
<1> DEFINE g == CHOOSE h : IsJoining(h, languages)
<1>9. IsJoining(g, languages) /\ InTurn(languages) = g[n]
  BY <1>8, <1>n, InTurnLoop
<1> HIDE DEF g
<1>10. \A j \in 0..n :
          g[j] = IF j = 0 THEN {<<>>} ELSE Concat(g[j - 1], languages[j])
  BY <1>9, <1>n DEF IsJoining
<1>11. HasJoined(g, languages)
  <2>1. 0 \in 0..n /\ \A j \in 1..n : j \in 0..n /\ j # 0
    BY <1>1
  <2> QED
    BY <1>10, <1>n, <2>1 DEF HasJoined
<1> QED
  BY <1>9, <1>11, <1>n

\* A word made of parts starts as a part does before which all can be empty;
\* and it is empty only if all can be.
LEMMA InTurnLed ==
    ASSUME NEW languages \in Seq(Languages), NEW S,
           \A i \in 1..Len(languages) :
              \/ \E k \in 1..i-1 : <<>> \notin languages[k]
              \/ Led(languages[i], S)
    PROVE  /\ InTurn(languages) \in Languages
           /\ Led(InTurn(languages), S)
           /\ <<>> \in InTurn(languages) =>
                 \A i \in 1..Len(languages) : <<>> \in languages[i]
<1>1. PICK g : HasJoined(g, languages) /\ InTurn(languages) = g[Len(languages)]
  BY JoiningExists
<1> DEFINE n == Len(languages)
           T == {j \in 0..n :
                    /\ g[j] \in Languages /\ Led(g[j], S)
                    /\ <<>> \in g[j] => \A i \in 1..j : <<>> \in languages[i]}
<1>2. n \in Nat
  OBVIOUS
<1>3. 0 \in T
  <2>1. g[0] = {<<>>}
    BY <1>1 DEF HasJoined
  <2>2. g[0] \in Languages /\ Led(g[0], S)
    BY <2>1, EmptySeq DEF Languages, Led
  <2> QED
    BY <1>2, <2>2
<1>4. ASSUME NEW j \in 0+1..n, j - 1 \in T
      PROVE  j \in T
  <2>1. j \in 1..n /\ j \in 0..n /\ j - 1 \in 0..n
    BY <1>2
  <2>2. g[j] = Concat(g[j - 1], languages[j])
    BY <1>1, <2>1 DEF HasJoined
  <2>3. languages[j] \in Languages
    BY <2>1
  <2> DEFINE A == g[j - 1]
             B == languages[j]
  <2>4. /\ A \in Languages /\ Led(A, S)
        /\ <<>> \in A => \A i \in 1..j-1 : <<>> \in languages[i]
    BY <1>4
  <2>5. <<>> \in A => Led(B, S)
    BY <2>1, <2>4
  <2>6. B \in Languages
    BY <2>3
  <2>b. A = g[j - 1] /\ B = languages[j]
    OBVIOUS
  <2> HIDE DEF A, B, T
  <2>7. Concat(A, B) \in Languages /\ Led(Concat(A, B), S)
    BY <2>4, <2>5, <2>6, ConcatWords, LedConcat
  <2>8. <<>> \in Concat(A, B) => <<>> \in A /\ <<>> \in B
    BY <2>4, <2>5, <2>6, LedConcat
  <2>9. <<>> \in g[j] => \A i \in 1..j : <<>> \in languages[i]
    <3>1. \A i \in 1..j : i = j \/ i \in 1..j-1
      BY <2>1
    <3> QED
      BY <2>2, <2>4, <2>8, <2>b, <3>1
  <2> QED
    BY <2>1, <2>2, <2>7, <2>9, <2>b DEF T
<1>5. \A j \in 0..n : j \in T
  <2> HIDE DEF T, n
  <2> QED
    BY <1>2, <1>3, <1>4, EveryRound
<1>6. n \in T
  BY <1>2, <1>5
<1> QED
  BY <1>1, <1>6

LEMMA RepeatedLed ==
    ASSUME NEW A \in Languages, NEW S, Led(A, S), MaxLine \in Nat
    PROVE  Repeated(A) \in Languages /\ Led(Repeated(A), S)
<1>1. ASSUME NEW n \in 0..MaxLine
      PROVE  /\ InTurn([i \in 1..n |-> A]) \in Languages
             /\ Led(InTurn([i \in 1..n |-> A]), S)
  <2> DEFINE L == [i \in 1..n |-> A]
  <2>1. L \in Seq(Languages) /\ Len(L) = n /\ \A i \in 1..Len(L) : L[i] = A
    OBVIOUS
  <2>l. L = [i \in 1..n |-> A]
    OBVIOUS
  <2> HIDE DEF L
  <2>2. \A i \in 1..Len(L) : (\E k \in 1..i-1 : <<>> \notin L[k]) \/ Led(L[i], S)
    BY <2>1
  <2>3. InTurn(L) \in Languages /\ Led(InTurn(L), S)
    BY <2>1, <2>2, InTurnLed
  <2> QED
    BY <2>3, <2>l
<1>2. \A w \in Repeated(A) : \E n \in 0..MaxLine : w \in InTurn([i \in 1..n |-> A])
  BY Zenon DEF Repeated
<1> DEFINE I(n) == InTurn([i \in 1..n |-> A])
<1>3. \A n \in 0..MaxLine : I(n) \in Languages /\ Led(I(n), S)
  BY <1>1
<1>4. \A w \in Repeated(A) : \E n \in 0..MaxLine : w \in I(n)
  BY <1>2
<1> HIDE DEF I
<1> QED
  BY <1>3, <1>4 DEF Languages, Led

LEMMA OccurringLed ==
    ASSUME NEW A \in Languages, NEW S, Led(A, S), MaxLine \in Nat,
           NEW occurs \in Occurrences
    PROVE  /\ Occurring(A, occurs) \in Languages
           /\ Led(Occurring(A, occurs), S)
           /\ occurs \in {"once", "+"} /\ <<>> \in Occurring(A, occurs) => <<>> \in A
<1> DEFINE R == Repeated(A)
<1>1. R \in Languages /\ Led(R, S)
  BY RepeatedLed
<1>r. R = Repeated(A)
  OBVIOUS
<1> HIDE DEF R
<1>2. /\ Concat(A, R) \in Languages /\ Led(Concat(A, R), S)
      /\ <<>> \in Concat(A, R) => <<>> \in A
  BY <1>1, ConcatWords, LedConcat
<1>3. A \cup {<<>>} \in Languages /\ Led(A \cup {<<>>}, S)
  BY EmptySeq DEF Languages, Led
<1>4. CASE occurs = "once"
  BY <1>4 DEF Occurring
<1>5. CASE occurs = "?"
  <2>1. Occurring(A, occurs) = A \cup {<<>>}
    BY Zenon, <1>5 DEF Occurring
  <2> QED
    BY <1>3, <1>5, <2>1
<1>6. CASE occurs = "*"
  <2>1. Occurring(A, occurs) = R
    BY Zenon, <1>6, <1>r DEF Occurring
  <2> QED
    BY <1>1, <1>6, <2>1
<1>7. CASE occurs = "+"
  <2>1. Occurring(A, occurs) = Concat(A, R)
    BY Zenon, <1>7, <1>r DEF Occurring
  <2> QED
    BY <1>2, <1>7, <2>1
<1> QED
  BY Zenon, <1>4, <1>5, <1>6, <1>7 DEF Occurrences

-------------------------------------------------------------------------------
(* The parts of an expression, and what each piece adds to its leads.      *)

LEMMA ItemLed ==
    ASSUME NEW item \in Items, MaxLine \in Nat
    PROVE  /\ ItemLanguage(item) \in Languages
           /\ Led(ItemLanguage(item), Characters(item))
           /\ item.occurs \in {"once", "+"} => <<>> \notin ItemLanguage(item)
<1> DEFINE A == {<<c>> : c \in Characters(item)}
<1>1. Characters(item) \in SUBSET Chars /\ item.occurs \in Occurrences
  BY DEF Items, Characters
<1>2. \A w \in A : w \in Seq(Chars) /\ w # <<>> /\ Head(w) \in Characters(item)
  <2>1. \A c \in Characters(item) :
           <<c>> \in Seq(Chars) /\ <<c>> # <<>> /\ Head(<<c>>) = c
    BY <1>1
  <2>2. \A w \in A : \E c \in Characters(item) : w = <<c>>
    OBVIOUS
  <2> HIDE DEF A
  <2> QED
    BY <2>1, <2>2
<1>3. A \in Languages /\ Led(A, Characters(item)) /\ <<>> \notin A
  BY <1>2 DEF Languages, Led
<1>4. ItemLanguage(item) = Occurring(A, item.occurs)
  BY DEF ItemLanguage
<1> HIDE DEF A
<1> QED
  BY <1>1, <1>3, <1>4, OccurringLed

\* A branch whose first item is there starts as that does.
LEMMA BranchLed ==
    ASSUME NEW branch \in Alternatives, MaxLine \in Nat,
           branch.items[1].occurs \in {"once", "+"}
    PROVE  /\ BranchLanguage(branch) \in Languages
           /\ Led(BranchLanguage(branch), Characters(branch.items[1]))
           /\ <<>> \notin BranchLanguage(branch)
<1> DEFINE q == branch.items
           L == [i \in 1..Len(q) |-> ItemLanguage(q[i])]
           S == Characters(q[1])
<1>1. q \in Seq(Items) /\ q # <<>>
  BY DEF Alternatives
<1>2. Len(q) \in Nat /\ 1 \in 1..Len(q) /\ \A i \in 1..Len(q) : q[i] \in Items
  BY <1>1
<1>3. \A i \in 1..Len(q) : ItemLanguage(q[i]) \in Languages
  BY <1>2, ItemLed
<1>4. L \in Seq(Languages) /\ Len(L) = Len(q)
  BY <1>2, <1>3
<1>5. Led(L[1], S) /\ <<>> \notin L[1]
  BY <1>2, ItemLed
<1>6. BranchLanguage(branch) = InTurn(L)
  BY DEF BranchLanguage
<1>b. S = Characters(branch.items[1])
  OBVIOUS
<1> HIDE DEF L, S
<1>7. \A i \in 1..Len(L) : (\E k \in 1..i-1 : <<>> \notin L[k]) \/ Led(L[i], S)
  <2>1. ASSUME NEW i \in 1..Len(L), i # 1
        PROVE  1 \in 1..i-1
    BY <1>2, <1>4, <2>1
  <2> QED
    BY <1>5, <2>1
<1>8. /\ InTurn(L) \in Languages /\ Led(InTurn(L), S)
      /\ <<>> \in InTurn(L) => \A i \in 1..Len(L) : <<>> \in L[i]
  BY <1>4, <1>7, InTurnLed
<1> QED
  BY <1>2, <1>4, <1>5, <1>6, <1>8, <1>b

\* The first item of each branch of the piece is there.
IsFirm(piece) ==
    \A j \in 1..Len(piece.branches) :
        piece.branches[j].items[1].occurs \in {"once", "+"}

LEMMA PieceLed ==
    ASSUME NEW piece \in RegexpPieces, MaxLine \in Nat, IsFirm(piece), NEW S,
           \A j \in 1..Len(piece.branches) :
              Characters(piece.branches[j].items[1]) \subseteq S
    PROVE  /\ PieceLanguage(piece) \in Languages
           /\ Led(PieceLanguage(piece), S)
           /\ piece.occurs \in {"once", "+"} => <<>> \notin PieceLanguage(piece)
<1> DEFINE A == UNION {BranchLanguage(b) : b \in ToSet(piece.branches)}
           n == Len(piece.branches)
<1>1. /\ n \in Nat /\ piece.occurs \in Occurrences
      /\ \A j \in 1..n : piece.branches[j] \in Alternatives
  BY DEF RegexpPieces
<1>2. \A b \in ToSet(piece.branches) : \E j \in 1..n : b = piece.branches[j]
  BY <1>1 DEF RegexpPieces, ToSet
<1>3. \A w \in A : \E j \in 1..n : w \in BranchLanguage(piece.branches[j])
  <2>1. \A w \in A : \E b \in ToSet(piece.branches) : w \in BranchLanguage(b)
    OBVIOUS
  <2> HIDE DEF A, n
  <2> QED
    BY <1>2, <2>1
<1>4. ASSUME NEW w \in A
      PROVE  w \in Seq(Chars) /\ w # <<>> /\ Head(w) \in S
  <2>1. PICK j \in 1..n : w \in BranchLanguage(piece.branches[j])
    BY <1>3
  <2> DEFINE branch == piece.branches[j]
  <2>2. branch \in Alternatives /\ branch.items[1].occurs \in {"once", "+"}
    BY <1>1 DEF IsFirm
  <2>3. Characters(branch.items[1]) \subseteq S
    OBVIOUS
  <2>4. w \in BranchLanguage(branch)
    BY <2>1
  <2> HIDE DEF branch
  <2>5. /\ BranchLanguage(branch) \in Languages
        /\ Led(BranchLanguage(branch), Characters(branch.items[1]))
        /\ <<>> \notin BranchLanguage(branch)
    BY <2>2, BranchLed
  <2> QED
    BY <2>3, <2>4, <2>5 DEF Languages, Led
<1>5. A \in Languages /\ Led(A, S) /\ <<>> \notin A
  <2> HIDE DEF A
  <2> QED
    BY <1>4 DEF Languages, Led
<1>6. PieceLanguage(piece) = Occurring(A, piece.occurs)
  BY DEF PieceLanguage
<1> HIDE DEF A
<1> QED
  BY <1>1, <1>5, <1>6, OccurringLed
\* All that an expression and its parts stand for is words.
LEMMA JoinedWords ==
    ASSUME NEW languages \in Seq(Languages)
    PROVE  InTurn(languages) \in Languages
<1>1. \A A \in Languages : Led(A, Chars)
  BY DEF Languages, Led
<1>2. \A i \in 1..Len(languages) :
         (\E k \in 1..i-1 : <<>> \notin languages[k]) \/ Led(languages[i], Chars)
  BY <1>1
<1> QED
  BY <1>2, InTurnLed

LEMMA PieceWords ==
    ASSUME NEW piece \in RegexpPieces, MaxLine \in Nat
    PROVE  PieceLanguage(piece) \in Languages
<1> DEFINE A == UNION {BranchLanguage(b) : b \in ToSet(piece.branches)}
<1>1. piece.occurs \in Occurrences /\ piece.branches \in Seq(Alternatives)
  BY DEF RegexpPieces
<1>2. \A b \in ToSet(piece.branches) : b \in Alternatives
  BY <1>1 DEF ToSet
<1>3. ASSUME NEW b \in Alternatives
      PROVE  BranchLanguage(b) \in Languages
  <2> DEFINE L == [i \in 1..Len(b.items) |-> ItemLanguage(b.items[i])]
  <2>1. b.items \in Seq(Items)
    BY DEF Alternatives
  <2>2. \A i \in 1..Len(b.items) : ItemLanguage(b.items[i]) \in Languages
    BY <2>1, ItemLed
  <2>3. L \in Seq(Languages)
    BY <2>1, <2>2
  <2>4. BranchLanguage(b) = InTurn(L)
    BY DEF BranchLanguage
  <2> HIDE DEF L
  <2> QED
    BY <2>3, <2>4, JoinedWords
<1>4. A \in Languages
  BY <1>2, <1>3 DEF Languages
<1>5. PieceLanguage(piece) = Occurring(A, piece.occurs)
  BY DEF PieceLanguage
<1> HIDE DEF A
<1>6. Led(A, Chars)
  BY <1>4 DEF Languages, Led
<1> QED
  BY <1>1, <1>4, <1>5, <1>6, OccurringLed
-----------------------------------------------------------------------------
\* g is the suitable characters after each branch.
HasLooked(g, suitable, piece) ==
    /\ g[0] = suitable
    /\ \A j \in 1..Len(piece.branches) :
          g[j] = Start(g[j - 1], Head(piece.branches[j].items))

IsLooking(g, suitable, piece) ==
    g = [j \in 0..Len(piece.branches) |->
            IF j = 0 THEN suitable
            ELSE Start(g[j - 1], Head(piece.branches[j].items))]

LEMMA BranchesLoop ==
    ASSUME NEW suitable, NEW piece
    PROVE  Branches(suitable, piece)
              = (CHOOSE g : IsLooking(g, suitable, piece))[Len(piece.branches)]
  BY Zenon DEF Branches, IsLooking

LEMMA StartType ==
    ASSUME NEW suitable \in SUBSET Leads, NEW item \in Items
    PROVE  Start(suitable, item) \in SUBSET Leads
  BY DEF Start, Items, Leads

LEMMA LookingExists ==
    ASSUME NEW suitable \in SUBSET Leads, NEW piece \in RegexpPieces
    PROVE  \E g : /\ HasLooked(g, suitable, piece)
                  /\ Branches(suitable, piece) = g[Len(piece.branches)]
<1> DEFINE q == piece.branches
           n == Len(q)
           X == SUBSET Leads
           s == [p \in (1..n) \X X |-> Start(p[2], Head(q[p[1]].items))]
<1>1. n \in Nat /\ q \in Seq(Alternatives)
  BY DEF RegexpPieces
<1>2. ASSUME NEW j \in 1..n, NEW w \in X
      PROVE  Start(w, Head(q[j].items)) \in X
  <2>1. q[j] \in Alternatives
    BY <1>1
  <2>2. Head(q[j].items) \in Items
    BY <2>1 DEF Alternatives
  <2> QED
    BY <2>2, StartType
<1>3. \A j \in 1..n, w \in X : s[<<j, w>>] = Start(w, Head(q[j].items))
  OBVIOUS
<1>4. s \in [(1..n) \X X -> X]
  <2>1. \A p \in (1..n) \X X : p[1] \in 1..n /\ p[2] \in X
    OBVIOUS
  <2> HIDE DEF X
  <2> QED
    BY <1>2, <2>1
<1>n. n = Len(piece.branches) /\ q = piece.branches /\ suitable \in X
  OBVIOUS
<1> HIDE DEF n, s, X, q
<1>5. PICK f \in [0..n -> X] : IsRounds(f, n, suitable, s)
  BY <1>1, <1>4, <1>n, RoundsExist
<1>6. ASSUME NEW j \in 0..n, j # 0
      PROVE  f[j] = Start(f[j - 1], Head(q[j].items))
  <2>1. j \in 1..n /\ j - 1 \in 0..n
    BY <1>1, <1>6
  <2> QED
    BY <1>3, <1>5, <2>1 DEF IsRounds
<1>7. \A j \in 0..n :
         f[j] = IF j = 0 THEN suitable ELSE Start(f[j - 1], Head(q[j].items))
  BY <1>5, <1>6 DEF IsRounds
<1>8. IsLooking(f, suitable, piece)
  BY <1>7, <1>n DEF IsLooking
<1> DEFINE g == CHOOSE h : IsLooking(h, suitable, piece)
<1>9. IsLooking(g, suitable, piece) /\ Branches(suitable, piece) = g[n]
  BY <1>8, <1>n, BranchesLoop
<1> HIDE DEF g
<1>10. \A j \in 0..n :
          g[j] = IF j = 0 THEN suitable ELSE Start(g[j - 1], Head(q[j].items))
  BY <1>9, <1>n DEF IsLooking
<1>11. HasLooked(g, suitable, piece)
  <2>1. 0 \in 0..n /\ \A j \in 1..n : j \in 0..n /\ j # 0
    BY <1>1
  <2> QED
    BY <1>10, <1>n, <2>1 DEF HasLooked
<1> QED
  BY <1>9, <1>11, <1>n

LEMMA LookedBranches ==
    ASSUME NEW suitable \in SUBSET Leads, NEW piece \in RegexpPieces
    PROVE  Branches(suitable, piece) \in SUBSET Leads
<1>1. PICK g : /\ HasLooked(g, suitable, piece)
               /\ Branches(suitable, piece) = g[Len(piece.branches)]
  BY LookingExists
<1> DEFINE n == Len(piece.branches)
           T == {j \in 0..n : g[j] \in SUBSET Leads}
<1>2. n \in Nat /\ \A j \in 1..n : Head(piece.branches[j].items) \in Items
  <2>1. n \in Nat /\ \A j \in 1..n : piece.branches[j] \in Alternatives
    BY DEF RegexpPieces
  <2> QED
    BY <2>1 DEF Alternatives
<1>3. 0 \in T
  BY <1>1, <1>2 DEF HasLooked
<1>4. ASSUME NEW j \in 0+1..n, j - 1 \in T
      PROVE  j \in T
  <2>1. j \in 1..n /\ j \in 0..n
    BY <1>2
  <2>2. g[j] = Start(g[j - 1], Head(piece.branches[j].items))
    BY <1>1, <2>1 DEF HasLooked
  <2> QED
    BY <1>2, <1>4, <2>1, <2>2, StartType
<1>5. \A j \in 0..n : j \in T
  <2> HIDE DEF T
  <2> QED
    BY <1>2, <1>3, <1>4, EveryRound
<1> QED
  BY <1>1, <1>2, <1>5

\* What a piece adds: the characters of the first item of each branch, and the
\* NUL if that is complemented; a complemented one is alone and overwrites
\* nothing.
LEMMA BranchesSuit ==
    ASSUME NEW suitable \in SUBSET Leads, NEW piece \in RegexpPieces, End \notin Chars,
           \A j \in 1..Len(piece.branches) :
              piece.branches[j].items[1].not =>
                 Len(piece.branches) = 1 /\ suitable = {}
    PROVE  /\ suitable \subseteq Branches(suitable, piece)
           /\ \A j \in 1..Len(piece.branches) :
                 /\ Characters(piece.branches[j].items[1])
                       \subseteq Branches(suitable, piece)
                 /\ piece.branches[j].items[1].not =>
                       End \in Branches(suitable, piece)
<1>1. PICK g : /\ HasLooked(g, suitable, piece)
               /\ Branches(suitable, piece) = g[Len(piece.branches)]
  BY LookingExists
<1> DEFINE q == piece.branches
           n == Len(q)
           F(j) == q[j].items[1]
           In(j) == \A k \in 1..j : /\ Characters(F(k)) \subseteq g[j]
                                    /\ F(k).not => End \in g[j]
           T == {j \in 0..n : suitable \subseteq g[j] /\ In(j)}
<1>2. n \in Nat /\ q \in Seq(Alternatives)
  BY DEF RegexpPieces
<1>3. \A j \in 1..n : F(j) \in Items /\ Head(q[j].items) = F(j)
  <2>1. \A j \in 1..n : q[j] \in Alternatives
    BY <1>2
  <2> QED
    BY <2>1 DEF Alternatives
<1>4. 0 \in T
  BY <1>1, <1>2 DEF HasLooked
<1>5. ASSUME NEW j \in 0+1..n, j - 1 \in T
      PROVE  j \in T
  <2>1. j \in 1..n /\ j \in 0..n /\ j - 1 \in 0..n
    BY <1>2
  <2>2. g[j] = Start(g[j - 1], F(j))
    BY <1>1, <1>3, <2>1 DEF HasLooked
  <2> DEFINE A == g[j - 1]
             item == F(j)
  <2>3. suitable \subseteq A /\ In(j - 1)
    BY <1>5
  <2>4. item \in Items
    BY <1>3, <2>1
  <2>5. item.not => n = 1 /\ suitable = {}
    BY <2>1
  <2>6. CASE item.not
    <3>1. g[j] = Leads \ item.set
      BY <2>2, <2>6 DEF Start
    <3>2. n = 1 /\ suitable = {} /\ j = 1
      BY <2>1, <2>5, <2>6
    <3>3. Characters(item) \subseteq g[j] /\ End \in g[j]
      BY <2>4, <2>6, <3>1 DEF Characters, Leads, Items
    <3>4. In(j)
      BY <3>2, <3>3
    <3> QED
      BY <2>1, <3>2, <3>4
  <2>7. CASE ~ item.not
    <3>1. g[j] = A \cup item.set
      BY <2>2, <2>7 DEF Start
    <3>2. Characters(item) \subseteq g[j] /\ A \subseteq g[j]
      BY <2>7, <3>1 DEF Characters
    <3>3. \A k \in 1..j : k = j \/ k \in 1..j-1
      BY <2>1
    <3>4. In(j)
      BY <2>3, <2>7, <3>2, <3>3
    <3> QED
      BY <2>1, <2>3, <3>2, <3>4
  <2> QED
    BY <2>6, <2>7
<1>6. \A j \in 0..n : j \in T
  <2> HIDE DEF T
  <2> QED
    BY <1>2, <1>4, <1>5, EveryRound
<1>7. n \in T
  BY <1>2, <1>6
<1> QED
  BY <1>1, <1>7

-------------------------------------------------------------------------------
(* The leads of the whole expression.                                      *)

\* g is the suitable characters after each piece.
HasCalculated(g, regexp) ==
    /\ g[0] = {}
    /\ \A i \in 1..Len(regexp.pieces) :
          g[i] = IF i \in Seen(regexp) THEN Branches(g[i - 1], regexp.pieces[i])
                 ELSE g[i - 1]

IsCalculating(g, regexp) ==
    g = [i \in 0..Len(regexp.pieces) |->
            IF i = 0 THEN {}
            ELSE IF i \in Seen(regexp) THEN Branches(g[i - 1], regexp.pieces[i])
            ELSE g[i - 1]]

\* The expression suits the NUL that an empty line starts with.
MayBeEmpty(regexp) ==
    /\ \A i \in DOMAIN regexp.pieces : regexp.pieces[i].occurs = "*"
    /\ regexp.dollar => regexp.pieces = <<>>

LeadsAfter(g, regexp) ==
    IF MayBeEmpty(regexp) THEN g[Len(regexp.pieces)] \cup {End}
    ELSE g[Len(regexp.pieces)]

LEMMA CalculatingLoop ==
    ASSUME NEW regexp
    PROVE  filter_calc_leads(regexp)
              = LeadsAfter(CHOOSE g : IsCalculating(g, regexp), regexp)
  BY Zenon DEF filter_calc_leads, IsCalculating, LeadsAfter, MayBeEmpty

LEMMA CalculatingExists ==
    ASSUME NEW regexp \in Expressions
    PROVE  \E g : /\ HasCalculated(g, regexp)
                  /\ filter_calc_leads(regexp) = LeadsAfter(g, regexp)
<1> DEFINE q == regexp.pieces
           n == Len(q)
           X == SUBSET Leads
           Step(i, w) == IF i \in Seen(regexp) THEN Branches(w, q[i]) ELSE w
           s == [p \in (1..n) \X X |-> Step(p[1], p[2])]
<1>1. n \in Nat /\ q \in Seq(RegexpPieces)
  BY DEF Expressions
<1>2. ASSUME NEW j \in 1..n, NEW w \in X
      PROVE  Step(j, w) \in X
  <2>1. q[j] \in RegexpPieces
    BY <1>1
  <2>2. Branches(w, q[j]) \in X
    BY <2>1, LookedBranches
  <2> QED
    BY <2>2
<1>3. \A j \in 1..n, w \in X : s[<<j, w>>] = Step(j, w)
  OBVIOUS
<1>4. s \in [(1..n) \X X -> X]
  <2>1. \A p \in (1..n) \X X : p[1] \in 1..n /\ p[2] \in X
    OBVIOUS
  <2> HIDE DEF X, Step
  <2> QED
    BY <1>2, <2>1
<1>n. n = Len(regexp.pieces) /\ q = regexp.pieces /\ {} \in X
  OBVIOUS
<1> HIDE DEF n, s, X
<1>5. PICK f \in [0..n -> X] : IsRounds(f, n, {}, s)
  BY <1>1, <1>4, <1>n, RoundsExist
<1>6. ASSUME NEW j \in 0..n, j # 0
      PROVE  f[j] = Step(j, f[j - 1])
  <2>1. j \in 1..n /\ j - 1 \in 0..n
    BY <1>1, <1>6
  <2> HIDE DEF Step
  <2> QED
    BY <1>3, <1>5, <2>1 DEF IsRounds
<1>7. \A j \in 0..n : f[j] = IF j = 0 THEN {} ELSE Step(j, f[j - 1])
  BY <1>5, <1>6 DEF IsRounds
<1>8. IsCalculating(f, regexp)
  <2>1. f = [j \in 0..n |-> f[j]]
    OBVIOUS
  <2> QED
    BY <1>7, <1>n, <2>1 DEF IsCalculating
<1> DEFINE g == CHOOSE h : IsCalculating(h, regexp)
<1>9. IsCalculating(g, regexp) /\ filter_calc_leads(regexp) = LeadsAfter(g, regexp)
  BY <1>8, CalculatingLoop
<1> HIDE DEF g
<1>10. \A j \in 0..n : g[j] = IF j = 0 THEN {} ELSE Step(j, g[j - 1])
  BY <1>9, <1>n DEF IsCalculating
<1>11. HasCalculated(g, regexp)
  <2>1. 0 \in 0..n /\ \A j \in 1..n : j \in 0..n /\ j # 0
    BY <1>1
  <2> QED
    BY <1>10, <1>n, <2>1 DEF HasCalculated
<1> QED
  BY <1>9, <1>11

LEMMA FirstOf ==
    ASSUME NEW piece \in RegexpPieces, NEW j \in 1..Len(piece.branches)
    PROVE  /\ piece.branches[j].items[1] \in Firsts(piece)
           /\ piece.branches[j].items[1] \in Items
<1>1. piece.branches \in Seq(Alternatives)
  BY DEF RegexpPieces
<1>2. piece.branches[j] \in ToSet(piece.branches)
  BY <1>1 DEF ToSet
<1>3. piece.branches[j] \in Alternatives
  BY <1>1
<1> QED
  BY <1>2, <1>3 DEF Firsts, Alternatives

\* The characters of each piece that is looked at are among the leads.
LEMMA SeenSuit ==
    ASSUME NEW regexp \in Expressions, Handled(regexp), End \notin Chars
    PROVE  \A i \in Seen(regexp) : LET piece == regexp.pieces[i] IN
              \A j \in 1..Len(piece.branches) :
                 /\ Characters(piece.branches[j].items[1])
                       \subseteq filter_calc_leads(regexp)
                 /\ piece.branches[j].items[1].not =>
                       End \in filter_calc_leads(regexp)
<1>1. PICK g : HasCalculated(g, regexp) /\ filter_calc_leads(regexp) = LeadsAfter(g, regexp)
  BY CalculatingExists
<1> DEFINE q == regexp.pieces
           n == Len(q)
           F(i, j) == q[i].branches[j].items[1]
           In(i, x) == \A k \in Seen(regexp) : k <= i =>
                          \A j \in 1..Len(q[k].branches) :
                             /\ Characters(F(k, j)) \subseteq x
                             /\ F(k, j).not => End \in x
           T == {i \in 0..n : g[i] \in SUBSET Leads /\ In(i, g[i])}
<1>2. n \in Nat /\ q \in Seq(RegexpPieces) /\ Seen(regexp) \subseteq 1..n
  BY DEF Expressions, Seen
<1>3. 0 \in T
  BY <1>1, <1>2 DEF HasCalculated
<1>4. ASSUME NEW i \in 0+1..n, i - 1 \in T
      PROVE  i \in T
  <2>1. i \in 1..n /\ i \in 0..n /\ i - 1 \in 0..n
    BY <1>2
  <2> DEFINE A == g[i - 1]
             piece == q[i]
  <2>2. A \in SUBSET Leads /\ In(i - 1, A)
    BY <1>4
  <2>3. piece \in RegexpPieces
    BY <1>2, <2>1
  <2>4. \A k \in Seen(regexp) : k <= i => k = i \/ k <= i - 1
    BY <1>2, <2>1
  <2>5. CASE i \notin Seen(regexp)
    <3>1. g[i] = A
      BY <1>1, <2>1, <2>5 DEF HasCalculated
    <3> HIDE DEF F, A
    <3>2. In(i, g[i])
      BY <2>2, <2>4, <2>5, <3>1
    <3> QED
      BY <2>1, <2>2, <3>1, <3>2
  <2>6. CASE i \in Seen(regexp)
    <3>1. g[i] = Branches(A, piece)
      BY <1>1, <2>1, <2>6 DEF HasCalculated
    <3>2. ASSUME NEW j \in 1..Len(piece.branches), piece.branches[j].items[1].not
          PROVE  Len(piece.branches) = 1 /\ A = {}
      <4>1. piece.branches[j].items[1] \in Firsts(piece)
        BY <2>3, FirstOf
      <4>2. Len(piece.branches) = 1 /\ i = 1
        BY <2>6, <3>2, <4>1 DEF Handled
      <4>3. A = {}
        BY <1>1, <4>2 DEF HasCalculated
      <4> QED
        BY <4>2, <4>3
    <3>b. A = g[i - 1] /\ piece = q[i]
      OBVIOUS
    <3> HIDE DEF A, piece
    <3>3. \A j \in 1..Len(piece.branches) :
             piece.branches[j].items[1].not =>
                Len(piece.branches) = 1 /\ A = {}
      BY <3>2
    <3>4. /\ A \subseteq Branches(A, piece)
          /\ \A j \in 1..Len(piece.branches) :
                /\ Characters(piece.branches[j].items[1])
                      \subseteq Branches(A, piece)
                /\ piece.branches[j].items[1].not => End \in Branches(A, piece)
      BY <2>2, <2>3, <3>3, BranchesSuit
    <3>5. \A j \in 1..Len(q[i].branches) :
             /\ Characters(F(i, j)) \subseteq g[i]
             /\ F(i, j).not => End \in g[i]
      BY <3>1, <3>4, <3>b
    <3>6. \A k \in Seen(regexp) : k <= i - 1 =>
             \A j \in 1..Len(q[k].branches) :
                /\ Characters(F(k, j)) \subseteq g[i]
                /\ F(k, j).not => End \in g[i]
      <4> HIDE DEF F
      <4> QED
        BY <2>2, <3>1, <3>4
    <3> HIDE DEF F
    <3>7. In(i, g[i])
      BY <2>4, <3>5, <3>6
    <3>8. g[i] \in SUBSET Leads
      BY <2>2, <2>3, <3>1, LookedBranches
    <3> QED
      BY <2>1, <3>7, <3>8
  <2> QED
    BY <2>5, <2>6
<1>5. \A i \in 0..n : i \in T
  <2> HIDE DEF T
  <2> QED
    BY <1>2, <1>3, <1>4, EveryRound
<1>6. In(n, g[n])
  <2>1. n \in 0..n
    BY <1>2
  <2>2. n \in T
    <3> HIDE DEF T, n
    <3> QED
      BY <1>5, <2>1
  <2> HIDE DEF In
  <2> QED
    BY <2>2
<1>7. g[n] \subseteq filter_calc_leads(regexp)
  BY <1>1 DEF LeadsAfter
<1> QED
  <2>1. \A i \in Seen(regexp) : i <= n
    BY <1>2
  <2> QED
    BY <1>6, <1>7, <2>1

\* Where the pieces before can all be empty, they are starred, and the piece is
\* looked at.
LEMMA EmptyBeforeSeen ==
    ASSUME NEW regexp \in Expressions, Handled(regexp), MaxLine \in Nat,
           NEW m \in Nat, m <= Len(regexp.pieces),
           \A k \in 1..m : <<>> \in PieceLanguage(regexp.pieces[k])
    PROVE  \A k \in 1..m : regexp.pieces[k].occurs = "*"
<1> DEFINE q == regexp.pieces
           U == {k \in 1..m : q[k].occurs # "*"}
<1>1. Len(q) \in Nat /\ q \in Seq(RegexpPieces)
  BY DEF Expressions
<1>2. ASSUME U # {}
      PROVE  FALSE
  <2>1. U \in SUBSET Nat
    OBVIOUS
  <2>2. PICK i \in U : \A k \in U : i <= k
    <3> HIDE DEF U
    <3> QED
      BY <1>2, <2>1, LeastNumber
  <2>3. i \in 1..Len(q) /\ q[i] \in RegexpPieces
    BY <1>1
  <2>4. \A k \in 1..i-1 : k \in 1..m /\ k \notin U
    BY <2>2
  <2>5. \A k \in 1..i-1 : q[k].occurs = "*"
    BY <2>4
  <2>6. i \in Seen(regexp)
    BY <1>1, <2>3, <2>5 DEF Seen
  <2> DEFINE piece == q[i]
  <2>7. piece.occurs # "?" /\ piece.occurs # "*" /\ piece.occurs \in Occurrences
    BY <2>3, <2>6 DEF Handled, RegexpPieces
  <2>8. piece.occurs \in {"once", "+"}
    BY <2>7 DEF Occurrences
  <2>9. IsFirm(piece)
    BY <2>3, <2>6, FirstOf DEF Handled, IsFirm
  <2>10. <<>> \in PieceLanguage(piece)
    OBVIOUS
  <2>11. piece \in RegexpPieces
    BY <2>3
  <2> DEFINE S == Chars
  <2>12. \A j \in 1..Len(piece.branches) :
            Characters(piece.branches[j].items[1]) \subseteq S
    BY <2>11, FirstOf DEF Characters, Items
  <2> HIDE DEF piece, S
  <2>13. <<>> \notin PieceLanguage(piece)
    BY <2>8, <2>9, <2>11, <2>12, PieceLed
  <2> QED
    BY <2>10, <2>13
<1> QED
  BY <1>2

\* A word of an expression starts with one of its leads; and the empty word is
\* one of them only if all pieces are starred.
LEMMA LanguageLed ==
    ASSUME NEW regexp \in Expressions, Handled(regexp), MaxLine \in Nat,
           End \notin Chars
    PROVE  /\ Led(Language(regexp), filter_calc_leads(regexp))
           /\ <<>> \in Language(regexp) =>
                 \A i \in DOMAIN regexp.pieces : regexp.pieces[i].occurs = "*"
<1> DEFINE q == regexp.pieces
           n == Len(q)
           S == filter_calc_leads(regexp)
           L == [i \in 1..n |-> PieceLanguage(q[i])]
<1>1. n \in Nat /\ q \in Seq(RegexpPieces) /\ DOMAIN q = 1..n
  BY DEF Expressions
<1>2. ASSUME NEW i \in Seen(regexp)
      PROVE  Led(PieceLanguage(q[i]), S)
  <2> DEFINE piece == q[i]
  <2>1. piece \in RegexpPieces
    BY <1>1 DEF Seen
  <2>2. IsFirm(piece)
    BY <2>1, FirstOf DEF Handled, IsFirm
  <2>3. \A j \in 1..Len(piece.branches) :
           Characters(piece.branches[j].items[1]) \subseteq S
    BY SeenSuit
  <2> HIDE DEF piece, S
  <2>4. Led(PieceLanguage(piece), S)
    BY <2>1, <2>2, <2>3, PieceLed
  <2> QED
    BY <2>4 DEF piece
<1>3. \A i \in 1..n : PieceLanguage(q[i]) \in Languages
  BY <1>1, PieceWords
<1>4. L \in Seq(Languages) /\ Len(L) = n /\ \A i \in 1..n : L[i] = PieceLanguage(q[i])
  BY <1>1, <1>3
<1>5. Language(regexp) = InTurn(L)
  BY DEF Language
<1>b. S = filter_calc_leads(regexp)
  OBVIOUS
<1> HIDE DEF L, S
<1>6. ASSUME NEW i \in 1..n, \A k \in 1..i-1 : <<>> \in L[k]
      PROVE  Led(L[i], S)
  <2>1. i - 1 \in Nat /\ i - 1 <= Len(q) /\ \A k \in 1..i-1 : k \in 1..n
    BY <1>1
  <2>2. \A k \in 1..i-1 : <<>> \in PieceLanguage(q[k])
    BY <1>4, <1>6, <2>1
  <2> DEFINE m == i - 1
  <2>3. m \in Nat /\ m <= Len(regexp.pieces)
    BY <2>1
  <2>4. \A k \in 1..m : <<>> \in PieceLanguage(regexp.pieces[k])
    BY <2>2
  <2> HIDE DEF m
  <2>5. \A k \in 1..m : regexp.pieces[k].occurs = "*"
    BY <2>3, <2>4, EmptyBeforeSeen
  <2>6. i \in Seen(regexp)
    BY <1>1, <2>5 DEF Seen, m
  <2> QED
    BY <1>2, <1>4, <2>6
<1>7. \A i \in 1..Len(L) : (\E k \in 1..i-1 : <<>> \notin L[k]) \/ Led(L[i], S)
  BY <1>4, <1>6
<1>8. /\ Led(InTurn(L), S)
      /\ <<>> \in InTurn(L) => \A i \in 1..Len(L) : <<>> \in L[i]
  BY <1>4, <1>7, InTurnLed
<1>9. ASSUME <<>> \in InTurn(L)
      PROVE  \A i \in 1..n : q[i].occurs = "*"
  <2>1. \A k \in 1..n : <<>> \in PieceLanguage(q[k])
    BY <1>4, <1>8, <1>9
  <2> HIDE DEF n
  <2>2. n <= Len(regexp.pieces)
    BY <1>1 DEF n
  <2> QED
    BY <1>1, <2>1, <2>2, EmptyBeforeSeen
<1> QED
  BY <1>1, <1>5, <1>8, <1>9, <1>b

\* Where all pieces are starred, the expressions that are handled suit the NUL.
LEMMA EmptySuits ==
    ASSUME NEW regexp \in Expressions, Handled(regexp), End \notin Chars,
           \A i \in DOMAIN regexp.pieces : regexp.pieces[i].occurs = "*"
    PROVE  regexp.dollar /\ End \in filter_calc_leads(regexp)
<1> DEFINE q == regexp.pieces
<1>1. q \in Seq(RegexpPieces) /\ DOMAIN q = 1..Len(q) /\ Len(q) \in Nat
  BY DEF Expressions
<1>2. Seen(regexp) = DOMAIN q
  BY <1>1 DEF Seen
<1>3. /\ regexp.dollar
      /\ q # <<>> => \E item \in Firsts(q[1]) : item.not
  BY <1>2 DEF Handled
<1>4. CASE q = <<>>
  <2>1. MayBeEmpty(regexp)
    BY <1>4 DEF MayBeEmpty
  <2>2. PICK g : filter_calc_leads(regexp) = LeadsAfter(g, regexp)
    BY CalculatingExists
  <2> QED
    BY <1>3, <2>1, <2>2 DEF LeadsAfter
<1>5. CASE q # <<>>
  <2>1. 1 \in DOMAIN q /\ q[1] \in RegexpPieces
    BY <1>1, <1>5
  <2>2. PICK item \in Firsts(q[1]) : item.not
    BY <1>3, <1>5
  <2>3. \E j \in 1..Len(q[1].branches) : item = q[1].branches[j].items[1]
    BY <2>1 DEF Firsts, ToSet, RegexpPieces
  <2>4. 1 \in Seen(regexp)
    BY <1>2, <2>1
  <2> QED
    BY <1>3, <2>2, <2>3, <2>4, SeenSuit
<1> QED
  BY <1>4, <1>5

\* No match of an expression that is handled is missed.
LEMMA MatchesTried ==
    ASSUME End \notin Chars, MaxLine \in Nat,
           NEW regexp \in Expressions, Handled(regexp)
    PROVE  EachMatchTried(regexp)
<1> DEFINE S == filter_calc_leads(regexp)
<1>1. /\ Led(Language(regexp), S)
      /\ <<>> \in Language(regexp) => regexp.dollar /\ End \in S
  BY LanguageLed, EmptySuits
<1>2. ASSUME NEW line \in Lines, InTable(line), Matches(regexp, line)
      PROVE  Tried(regexp, line)
  <2>1. line \in Seq(Chars)
    BY DEF Lines
  <2>2. CASE line = <<>>
    <3>1. \A i \in 0..Len(line) : SubSeq(line, 1, i) = line
      BY <2>1, <2>2
    <3>2. line \in Language(regexp)
      BY <1>2, <3>1 DEF Matches
    <3> QED
      BY <1>1, <1>2, <2>2, <3>2 DEF Tried
  <2>3. CASE line # <<>>
    <3>1. ASSUME NEW i \in 0..Len(line), SubSeq(line, 1, i) \in Language(regexp),
                 ~ regexp.dollar
          PROVE  Head(line) \in S
      <4>1. CASE i = 0
        <5>1. SubSeq(line, 1, i) = <<>>
          BY <2>1, <4>1
        <5> QED
          BY <1>1, <3>1, <5>1
      <4>2. CASE i # 0
        <5>1. SubSeq(line, 1, i) # <<>> /\ Head(SubSeq(line, 1, i)) = Head(line)
          BY <2>1, <2>3, <4>2
        <5> QED
          BY <1>1, <3>1, <5>1 DEF Led
      <4> QED
        BY <4>1, <4>2
    <3>2. regexp.dollar => Head(line) \in S
      BY <1>1, <1>2, <2>3 DEF Matches, Led
    <3>3. Head(line) \in S
      BY <1>2, <3>1, <3>2 DEF Matches
    <3> QED
      BY <1>2, <2>3, <3>3 DEF Tried
  <2> QED
    BY <2>2, <2>3
<1> QED
  BY <1>2 DEF EachMatchTried

-------------------------------------------------------------------------------
(* Whatever the input.                                                     *)

\* Each input is one of those of its kind.
InputInv ==
    /\ input.of = "leads" => input.regexp \in Regexps /\ Handled(input.regexp)
    /\ input.of = "log" => input.log \in Logs
    /\ input.of = "files" => /\ input.files \in [Paths -> Times]
                             /\ input.errno \in {"none", "ENOENT", "EACCES"}
    /\ input.of = "output" => input.output \in Outputs
    /\ input.of = "edits" => input.edits \in EditSeries

LEMMA InputsChosen == Spec => []InputInv
<1>1. Init => InputInv
  BY DEF Init, InputInv
<1>2. ASSUME InputInv, [Next]_input
      PROVE  InputInv'
  <2>1. CASE ChooseRegexp
    BY <2>1 DEF ChooseRegexp, InputInv
  <2>2. CASE ChooseLog
    BY <2>2 DEF ChooseLog, InputInv
  <2>3. CASE ChooseFiles
    BY <2>3 DEF ChooseFiles, InputInv
  <2>4. CASE ChooseOutput
    BY <2>4 DEF ChooseOutput, InputInv
  <2>5. CASE ChooseEdits
    BY <2>5 DEF ChooseEdits, InputInv
  <2>6. CASE UNCHANGED input
    BY <1>2, <2>6 DEF InputInv
  <2> QED
    BY <1>2, <2>1, <2>2, <2>3, <2>4, <2>5, <2>6 DEF Next
<1> QED
  BY <1>1, <1>2, PTL DEF Spec

\* Of the lines that the expression of a filter matches none is withheld from
\* it whose first character is not negative as a char, so none at all where char
\* is unsigned; whatever the characters and however long the lines: the leads that
\* filter_calc_leads() finds by skimming the beginning are enough for the list
\* that filter_apply() looks into (filters_by_lead in filter.c).
THEOREM NoLineWithheld == Spec => []NoMatchMissed
<1>1. ASSUME NEW regexp \in Regexps, Handled(regexp)
      PROVE  EachMatchTried(regexp)
  BY <1>1, MatchesTried, AlgorithmsAssumption
<1>2. InputInv => NoMatchMissed
  BY <1>1 DEF InputInv, NoMatchMissed
<1> QED
  BY <1>2, InputsChosen, PTL

\* Edit Next Error or Edit Prev Error, chosen again and again, edits each error
\* beyond the selection once and in order, if all records have rows; Edit Next
\* File Error goes on to another file each time, until no other has errors left
\* (edit_next_error_cb() and edit_file_next_error_cb() in main.c,
\* log_find_error_aux() in log.c).
THEOREM EditsEachError == Spec => []EachErrorOnce
<1>1. ASSUME NEW log \in Logs, NEW edit_warnings \in BOOLEAN
      PROVE  EditsEachOnce(log, edit_warnings)
  BY ErrorsEdited, AlgorithmsAssumption
<1>2. InputInv => EachErrorOnce
  BY <1>1 DEF InputInv, EachErrorOnce
<1> QED
  BY <1>2, InputsChosen, PTL

\* Find Again, chosen again and again, goes through all the lines that match
\* once, in the order of the log, from where it starts, if they are all shown:
\* beyond the selection, and with Wrap round to it (do_find() in find.c,
\* log_apply_after() in log.c).
THEOREM FindsEachMatch == Spec => []EachMatchOnce
<1>1. ASSUME NEW log \in Logs, NEW selected \in 0..Len(log),
             NEW forward \in BOOLEAN
      PROVE  FindsEachOnce(log, selected, forward)
  BY MatchesFound, AlgorithmsAssumption
<1>2. InputInv => EachMatchOnce
  BY <1>1 DEF InputInv, EachMatchOnce
<1> QED
  BY <1>2, InputsChosen, PTL

\* A makefile that is known to be out of date is made before a build, and only
\* such a one if no earlier call has left its mark in errno
\* (ms_makefile_needs_update() in makesys.c), whatever it depends on.
THEOREM MakefileMade == Spec => []MakefileMadeWhenStale
<1>1. ASSUME NEW files \in [Paths -> Times],
             NEW errno \in {"none", "ENOENT", "EACCES"}
      PROVE  StaleIsMade(Makefile, Deps, files, errno)
  <2>1. files \in [Paths -> {Missing, Unreadable} \cup Nat]
    BY AlgorithmsAssumption
  <2> QED
    BY <2>1, StaleMade, AlgorithmsAssumption
<1>2. InputInv => MakefileMadeWhenStale
  BY <1>1 DEF InputInv, MakefileMadeWhenStale
<1> QED
  BY <1>2, InputsChosen, PTL

\* The targets offered in the menu are those that the output of gmake has a
\* rule for, each once, the standard ones first, whatever else is in the output
\* (gmake_list_targets_input() in gmake.c, set_targets() in main.c).
THEOREM OffersTargets == Spec => []TargetsOffered
<1>1. ASSUME NEW output \in Outputs
      PROVE  OffersExactly(output)
  BY OutputOffered, AlgorithmsAssumption
<1>2. InputInv => TargetsOffered
  BY <1>1 DEF InputInv, TargetsOffered
<1> QED
  BY <1>2, InputsChosen, PTL

\* Every variable that is set in the dialog, and not unset, reaches make once,
\* with its last value unchanged: as a word of the command, when the shell has
\* taken it apart, or as an entry of the environment (var_set_cb(),
\* prefs_set_var_make_flags() and prefs_set_var_environment() in preferences.c,
\* strescape() in util.c).
THEOREM VariablesReachMake == Spec => []VariablesInEffect
<1>1. ASSUME NEW edits \in EditSeries
      PROVE  ReachMake(edits)
  BY EditsReachMake, AlgorithmsAssumption
<1>2. InputInv => VariablesInEffect
  BY <1>1 DEF InputInv, VariablesInEffect
<1> QED
  BY <1>2, InputsChosen, PTL
===============================================================================
