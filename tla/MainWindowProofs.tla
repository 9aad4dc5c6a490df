--------------------------- MODULE MainWindowProofs ---------------------------
(***************************************************************************)
(* What module MainWindow promises, whatever the directories, their        *)
(* targets, the length of the history and what happens around the program: *)
(* MenusRightWhenIdle under all circumstances, and for a user who waits    *)
(* for the queue HistoryAvailable and MadeWhereChosen.                     *)
(***************************************************************************)
EXTENDS MainWindow, SequenceFacts, FiniteSetTheorems

Kinds == {"make", "logged", "list", "finish", "change_directory"}
Names == Targets \cup {FreedString}
Jobs == [kind : Kinds, target : Names \cup {NoTarget}, dir : Dirs]

TypeOK ==
    /\ at \in {"main_loop", "task_start", "nested"}
    /\ task_all \in Seq(Jobs)
    /\ running \in BOOLEAN /\ working \in BOOLEAN
    /\ cwd \in Dirs
    /\ available_targets \in SUBSET Targets
    /\ target_history \in Seq(Names)
    /\ log_is_empty \in BOOLEAN /\ hasty \in BOOLEAN

\* task_start() is called when nothing runs; once it is under way it has
\* something left to start, or has told the window that work has begun and
\* will tell it that it has ended.
StartsWork ==
    /\ at # "main_loop" => ~ running /\ (working \/ task_all # <<>>)
    /\ at = "nested" => working /\ task_all # <<>>
    /\ running => working /\ task_all # <<>>

\* The names in the history are freed by set_targets() only, at the end of a
\* list of targets: it is empty by then.
EmptyUntilListed ==
    /\ at = "nested" => target_history = <<>>
    /\ \A x, y \in Jobs :
          On(task_all, x) /\ On(task_all, y) /\ x.kind = "list" =>
              target_history = <<>> /\ y.kind # "make"

\* The targets of the queue q will be made where they were chosen, if cwd is
\* the directory until a change of directory is started.
InPlace(q, d) ==
    \A i \in DOMAIN q : q[i].kind = "make" =>
        /\ i = 1 => q[i].dir = d
        /\ i > 1 => q[i].dir = q[i - 1].dir
        /\ i = 2 => q[1].kind = "change_directory" \/ q[1].dir = d
        /\ i > 2 => q[i - 1].kind \in {"make", "change_directory"}

WillBeMadeWhereChosen ==
    /\ InPlace(task_all, cwd)
    /\ at = "nested" =>
          Head1.kind = "change_directory" /\ Head1.dir = cwd

-----------------------------------------------------------------------------
(***************************************************************************)
(* Types.                                                                  *)
(***************************************************************************)
LEMMA JobType ==
    ASSUME NEW k \in Kinds, NEW t \in Names \cup {NoTarget}, NEW d \in Dirs
    PROVE  /\ Job(k, t, d) \in Jobs
           /\ Job(k, t, d).kind = k
           /\ Job(k, t, d).target = t
           /\ Job(k, t, d).dir = d
  BY DEF Job, Jobs

LEMMA PlainJob ==
    ASSUME NEW k \in Kinds, NEW d \in Dirs
    PROVE  /\ Job(k, NoTarget, d) \in Jobs
           /\ Job(k, NoTarget, d).kind = k
           /\ Job(k, NoTarget, d).dir = d
  BY JobType

LEMMA SingleJob ==
    ASSUME NEW k \in Kinds, NEW d \in Dirs
    PROVE  /\ <<Job(k, NoTarget, d)>> \in Seq(Jobs)
           /\ DOMAIN <<Job(k, NoTarget, d)>> = 1..1
           /\ <<Job(k, NoTarget, d)>>[1].kind = k
           /\ <<Job(k, NoTarget, d)>>[1].dir = d
           /\ <<Job(k, NoTarget, d)>> # <<>>
<1>1. /\ Job(k, NoTarget, d) \in Jobs
      /\ Job(k, NoTarget, d).kind = k
      /\ Job(k, NoTarget, d).dir = d
  BY PlainJob
<1>2. QED
  BY <1>1

LEMMA RemadeType ==
    ASSUME NEW d \in Dirs, NEW s \in RemadeMakefile(d)
    PROVE  /\ s \in Seq(Jobs)
           /\ \A i \in DOMAIN s : s[i].kind = "logged" /\ s[i].dir = d
           /\ Len(s) <= 1
<1>1. "logged" \in Kinds
  BY DEF Kinds
<1>2. CASE s = <<>>
  BY <1>2
<1>3. CASE s = <<Job("logged", NoTarget, d)>>
  BY <1>1, <1>3, SingleJob
<1>4. QED
  BY <1>2, <1>3 DEF RemadeMakefile

\* What is remembered of the history: a target is in it once, as before.
LEMMA RememberedProperties ==
    ASSUME WindowAssumption, target_history \in Seq(Names), NEW t \in Targets
    PROVE  /\ Remembered(t) \in Seq(Names)
           /\ \A x : On(Remembered(t), x) => x = t \/ On(target_history, x)
           /\ IsInjective(target_history) => IsInjective(Remembered(t))
<1> DEFINE k == CHOOSE i \in DOMAIN target_history : target_history[i] = t
           others == IF Contains(target_history, t)
                     THEN RemoveAt(target_history, k)
                     ELSE target_history
           last == IF Len(others) < TARGET_HISTORY_MAX
                   THEN Len(others) + 1 ELSE TARGET_HISTORY_MAX
           all == <<t>> \o others
<1>1. t \in Names /\ TARGET_HISTORY_MAX \in Nat
  BY DEF WindowAssumption, Names
<1>2. /\ others \in Seq(Names)
      /\ \A x : On(others, x) => On(target_history, x)
      /\ IsInjective(target_history) => IsInjective(others) /\ ~ On(others, t)
  <2>1. CASE On(target_history, t)
    <3>1. k \in DOMAIN target_history /\ target_history[k] = t
      BY <2>1 DEF On
    <3>2. others = RemoveAt(target_history, k)
      BY <2>1, ContainsIsOn
    <3> HIDE DEF k, others
    <3>3. QED
      BY <3>1, <3>2, RemoveAtProperties
  <2>2. CASE ~ On(target_history, t)
    <3>1. others = target_history
      BY <2>2, ContainsIsOn
    <3> HIDE DEF others
    <3>2. QED
      BY <2>2, <3>1
  <2>3. QED
    BY <2>1, <2>2
<1>3. Remembered(t) = SubSeq(all, 1, last)
  BY DEF Remembered
<1> HIDE DEF others, last
<1>4. <<t>> \in Seq(Names)
  BY <1>1
<1>5. all \in Seq(Names) /\ Len(all) = Len(others) + 1
  BY <1>2, <1>4, ConcatProperties
<1>6. \A x : On(all, x) => x = t \/ On(target_history, x)
  BY <1>2, <1>4, OnConcat, OnSingle
<1>7. IsInjective(target_history) => IsInjective(all)
  <2>1. IsInjective(<<t>>)
    BY DEF IsInjective
  <2>2. \A x : On(<<t>>, x) => x = t
    BY OnSingle
  <2>3. ASSUME IsInjective(target_history)
        PROVE  IsInjective(<<t>> \o others)
    <3>1. IsInjective(others) /\ ~ On(others, t)
      BY <1>2, <2>3
    <3>2. \A x : ~ (On(<<t>>, x) /\ On(others, x))
      BY <2>2, <3>1
    <3>3. QED
      BY <1>2, <1>4, <2>1, <3>1, <3>2, ConcatInjective
  <2>4. QED
    BY <2>3
<1>8. last \in 0..Len(all)
  BY <1>1, <1>2, <1>5 DEF last
<1> HIDE DEF all
<1> DEFINE r == SubSeq(all, 1, last)
<1>9. r \in Seq(Names) /\ DOMAIN r = 1..last /\ \A i \in 1..last : r[i] = all[i]
  BY <1>5, <1>8
<1>10. 1..last \subseteq DOMAIN all
  BY <1>5, <1>8
<1> HIDE DEF r
<1>11. \A x : On(r, x) => On(all, x)
  BY <1>9, <1>10 DEF On
<1>12. IsInjective(all) => IsInjective(r)
  BY <1>9, <1>10 DEF IsInjective
<1>13. QED
  BY <1>3, <1>6, <1>7, <1>9, <1>11, <1>12 DEF r

LEMMA AddedProperties ==
    ASSUME WindowAssumption, TypeOK, NEW t
    PROVE  /\ add_target_history(t) \in Seq(Names)
           /\ HistorySaved =>
                 /\ IsInjective(add_target_history(t))
                 /\ ToSet(add_target_history(t)) \subseteq available_targets
<1>1. target_history \in Seq(Names) /\ available_targets \in SUBSET Targets
  BY DEF TypeOK
<1>2. CASE t \in available_targets
  <2> DEFINE h == Remembered(t)
  <2>1. add_target_history(t) = h
    BY <1>2 DEF add_target_history
  <2>2. t \in Targets
    BY <1>1, <1>2
  <2>3. /\ h \in Seq(Names)
        /\ \A x : On(h, x) => x = t \/ On(target_history, x)
        /\ IsInjective(target_history) => IsInjective(h)
    BY <1>1, <2>2, RememberedProperties
  <2> HIDE DEF h
  <2>4. \A x : x \in ToSet(h) => x = t \/ x \in ToSet(target_history)
    BY <1>1, <2>3, OnIsToSet
  <2>5. QED
    BY <1>2, <2>1, <2>3, <2>4 DEF HistorySaved
<1>3. CASE t \notin available_targets
  BY <1>1, <1>3 DEF add_target_history, HistorySaved
<1>4. QED
  BY <1>2, <1>3

-----------------------------------------------------------------------------
(***************************************************************************)
(* The Tasks enqueued for dropped files.  The places of their targets      *)
(* leave room for the changes of directory: the first file's is at 1 or 2, *)
(* and each is one or two places behind the one before.                    *)
(***************************************************************************)
LEMMA Places ==
    ASSUME NEW files, NEW last, NEW n \in Nat \ {0}, DOMAIN files = 1..n,
           NEW i \in 1..n
    PROVE  /\ Place(files, last, i) \in Nat
           /\ Place(files, last, i) =
                 (IF i = 1 THEN 0 ELSE Place(files, last, i - 1)) +
                 (IF i \in Elsewhere(files, last) THEN 2 ELSE 1)
           /\ \A j \in 1..i - 1 : Place(files, last, j) < Place(files, last, i)
<1> DEFINE E == Elsewhere(files, last)
           upto(k) == {j \in E : j <= k}
<1>1. E \subseteq 1..n
  BY DEF Elsewhere
<1> HIDE DEF E
<1>2. \A k \in 0..n : IsFiniteSet(upto(k)) /\ Cardinality(upto(k)) \in Nat
  <2> SUFFICES ASSUME NEW k \in 0..n
               PROVE  IsFiniteSet(upto(k)) /\ Cardinality(upto(k)) \in Nat
    OBVIOUS
  <2>1. upto(k) \subseteq 1..n
    BY <1>1
  <2>2. IsFiniteSet(1..n)
    BY FS_Interval
  <2>3. IsFiniteSet(upto(k))
    BY <2>1, <2>2, FS_Subset
  <2>4. QED
    BY <2>3, FS_CardinalityType
<1>3. Cardinality(upto(i)) =
         Cardinality(upto(i - 1)) + (IF i \in E THEN 1 ELSE 0)
  <2>1. CASE i \in E
    <3>0. /\ \A j \in E : j <= i <=> j <= i - 1 \/ j = i
          /\ ~ (i <= i - 1)
      BY <1>1
    <3>1. upto(i) = upto(i - 1) \cup {i} /\ i \notin upto(i - 1)
      BY <2>1, <3>0
    <3>2. IsFiniteSet(upto(i - 1))
      BY <1>2
    <3> HIDE DEF upto
    <3>3. Cardinality(upto(i - 1) \cup {i}) = Cardinality(upto(i - 1)) + 1
      BY <3>1, <3>2, FS_AddElement
    <3>4. QED
      BY <2>1, <3>1, <3>3
  <2>2. CASE i \notin E
    <3>0. \A j \in E : j <= i <=> j <= i - 1
      <4>1. \A j \in E : j \in Int /\ j # i
        BY <1>1, <2>2
      <4>2. QED
        BY <4>1
    <3>1. upto(i) = upto(i - 1)
      BY <3>0
    <3> HIDE DEF upto
    <3>2. Cardinality(upto(i - 1)) \in Nat
      <4>1. i - 1 \in 0..n
        OBVIOUS
      <4>2. QED
        BY <1>2, <4>1
    <3>3. QED
      BY <2>2, <3>1, <3>2
  <2>3. QED
    BY <2>1, <2>2
<1>4. Cardinality(upto(0)) = 0
  <2>0. \A j \in E : ~ (j <= 0)
    BY <1>1
  <2>1. upto(0) = {}
    BY <2>0
  <2>2. QED
    BY <2>1, FS_EmptySet
<1>5. \A k \in 1..n : Place(files, last, k) = k + Cardinality(upto(k))
  BY DEF Place, E
<1> HIDE DEF upto
<1>6. Cardinality(upto(i)) \in Nat /\ Cardinality(upto(i - 1)) \in Nat
  <2>1. i \in 0..n /\ i - 1 \in 0..n
    OBVIOUS
  <2>2. QED
    BY <1>2, <2>1
<1>7. Place(files, last, i) = i + Cardinality(upto(i))
  BY <1>5
<1>8. ASSUME NEW j \in 1..i - 1
      PROVE  Place(files, last, j) < Place(files, last, i)
  <2>1. j \in 1..n /\ j \in 0..n /\ i \in 0..n /\ j < i
    OBVIOUS
  <2>2. \A m \in E : m <= j => m <= i
    BY <1>1, <2>1
  <2>3. upto(j) \subseteq upto(i)
    BY <2>2 DEF upto
  <2>4. Cardinality(upto(j)) <= Cardinality(upto(i))
    BY <1>2, <2>1, <2>3, FS_Subset
  <2>5. Cardinality(upto(j)) \in Nat /\ Cardinality(upto(i)) \in Nat
    BY <1>2, <2>1
  <2>6. Place(files, last, j) = j + Cardinality(upto(j))
    BY <1>5, <2>1
  <2>7. QED
    BY <1>7, <2>1, <2>4, <2>5, <2>6
<1>9. CASE i = 1
  <2>1. i - 1 = 0
    BY <1>9
  <2>2. QED
    BY <1>3, <1>4, <1>6, <1>7, <1>8, <1>9, <2>1 DEF E
<1>10. CASE i # 1
  <2>1. i - 1 \in 1..n
    BY <1>10
  <2>2. Place(files, last, i - 1) = (i - 1) + Cardinality(upto(i - 1))
    BY <1>5, <2>1
  <2>3. QED
    BY <1>3, <1>6, <1>7, <1>8, <1>10, <2>2 DEF E
<1>11. QED
  BY <1>9, <1>10

\* What stands at the place p of the queue, if i is the first file whose
\* target is at p or behind it.
At(files, last, p, i) ==
    IF p = Place(files, last, i)
    THEN Job("make", files[i].target, files[i].dir)
    ELSE Job("change_directory", NoTarget, files[i].dir)

FirstFrom(files, last, p, i) ==
    /\ p <= Place(files, last, i)
    /\ i > 1 => Place(files, last, i - 1) < p

\* There is one such file.
LEMMA FirstFile ==
    ASSUME NEW files, NEW last, NEW n \in Nat \ {0}, DOMAIN files = 1..n,
           NEW p \in 1..Place(files, last, n)
    PROVE  \E i \in 1..n : FirstFrom(files, last, p, i)
<1>1. \A i \in 1..n : Place(files, last, i) \in Nat
  BY Places
<1> DEFINE behind == {i \in 1..n : p <= Place(files, last, i)}
<1>2. n \in behind /\ p \in Nat /\ n \in 1..n
  BY <1>1
<1>3. behind \in SUBSET Nat /\ behind # {}
  BY <1>2
<1>4. PICK i \in behind : \A j \in behind : i <= j
  <2> HIDE DEF behind
  <2>1. QED
    BY <1>3, LeastNumber
<1>5. i \in 1..n /\ p <= Place(files, last, i)
  OBVIOUS
<1>6. i > 1 => Place(files, last, i - 1) < p
  <2> SUFFICES ASSUME i > 1
               PROVE  Place(files, last, i - 1) < p
    OBVIOUS
  <2>1. i - 1 \in 1..n /\ ~ (i <= i - 1)
    BY <1>5
  <2>2. i - 1 \notin behind
    <3> HIDE DEF behind
    <3>1. QED
      BY <1>4, <2>1
  <2>3. ~ (p <= Place(files, last, i - 1))
    BY <2>1, <2>2
  <2>4. Place(files, last, i - 1) \in Nat
    BY <1>1, <2>1
  <2>5. QED
    BY <1>2, <2>3, <2>4
<1>7. QED
  BY <1>5, <1>6 DEF FirstFrom

LEMMA OneFirstFile ==
    ASSUME NEW files, NEW last, NEW n \in Nat \ {0}, DOMAIN files = 1..n,
           NEW p \in Nat, NEW i \in 1..n, NEW j \in 1..n,
           FirstFrom(files, last, p, i), FirstFrom(files, last, p, j)
    PROVE  i = j
<1>1. SUFFICES ASSUME NEW k \in 1..n, NEW m \in 1..n, k < m,
                      FirstFrom(files, last, p, k),
                      FirstFrom(files, last, p, m)
               PROVE  FALSE
  <2>1. ~ (i < j) /\ ~ (j < i)
    BY <1>1
  <2>2. QED
    BY <2>1
<1>2. m - 1 \in 1..n /\ m > 1 /\ (k = m - 1 \/ k \in 1..(m - 1) - 1)
  BY <1>1
<1>3. Place(files, last, k) <= Place(files, last, m - 1)
  <2>1. Place(files, last, k) \in Nat
    BY Places
  <2>2. CASE k = m - 1
    BY <2>1, <2>2
  <2>3. CASE k \in 1..(m - 1) - 1
    <3>1. Place(files, last, m - 1) \in Nat /\ Place(files, last, k) < Place(files, last, m - 1)
      BY <1>2, <2>3, Places
    <3>2. QED
      BY <2>1, <3>1
  <2>4. QED
    BY <1>2, <2>2, <2>3
<1>4. p <= Place(files, last, k) /\ Place(files, last, m - 1) < p
  BY <1>1, <1>2 DEF FirstFrom
<1>5. Place(files, last, k) \in Nat /\ Place(files, last, m - 1) \in Nat
  BY <1>2, Places
<1>6. QED
  BY <1>3, <1>4, <1>5

LEMMA DroppedAt ==
    ASSUME NEW files, NEW last, NEW n \in Nat \ {0}, DOMAIN files = 1..n,
           Len(files) = n,
           NEW i \in 1..n, NEW p \in 1..Place(files, last, n),
           FirstFrom(files, last, p, i)
    PROVE  Dropped(files, last)[p] = At(files, last, p, i)
<1> DEFINE k == FileAt(files, last, p)
<1>1. k \in 1..n /\ FirstFrom(files, last, p, k)
  <2>1. \E m \in DOMAIN files :
           /\ p <= Place(files, last, m)
           /\ m > 1 => Place(files, last, m - 1) < p
    BY DEF FirstFrom
  <2>2. QED
    BY <2>1 DEF FirstFrom, FileAt
<1>2. Dropped(files, last)[p] = At(files, last, p, k)
  <2> DEFINE N == Place(files, last, Len(files))
             f(q) == At(files, last, q, FileAt(files, last, q))
  <2>1. Dropped(files, last) = [q \in 1..N |-> f(q)]
    BY Zenon DEF Dropped, At
  <2>2. p \in 1..N
    OBVIOUS
  <2> HIDE DEF N, f
  <2>3. [q \in 1..N |-> f(q)][p] = f(p)
    BY <2>2
  <2>4. QED
    BY <2>1, <2>3 DEF f
<1> HIDE DEF k
<1>3. p \in Nat
  <2>1. n \in 1..n
    OBVIOUS
  <2>2. Place(files, last, n) \in Nat
    BY <2>1, Places
  <2>3. QED
    BY <2>2
<1>4. k = i
  BY <1>1, <1>3, OneFirstFile
<1>5. QED
  BY <1>2, <1>4

\* What is enqueued for dropped files will be made where it is.
LEMMA DroppedProperties ==
    ASSUME NEW n \in Nat \ {0},
           NEW files \in [1..n -> [target : Targets, dir : Dirs]], NEW last
    PROVE  /\ Dropped(files, last) \in Seq(Jobs)
           /\ Dropped(files, last) # <<>>
           /\ InPlace(Dropped(files, last), last)
           /\ \A p \in DOMAIN Dropped(files, last) :
                 Dropped(files, last)[p].kind \in {"make", "change_directory"}
<1> DEFINE q == Dropped(files, last)
           N == Place(files, last, n)
<1>1. DOMAIN files = 1..n /\ Len(files) = n /\ n \in 1..n
  OBVIOUS
<1>2. \A i \in 1..n : Place(files, last, i) \in Nat /\ Place(files, last, i) >= 1
  <2> SUFFICES ASSUME NEW i \in 1..n
               PROVE  Place(files, last, i) \in Nat /\ Place(files, last, i) >= 1
    OBVIOUS
  <2>1. /\ Place(files, last, i) \in Nat
        /\ Place(files, last, i) =
              (IF i = 1 THEN 0 ELSE Place(files, last, i - 1)) +
              (IF i \in Elsewhere(files, last) THEN 2 ELSE 1)
    BY <1>1, Places
  <2>2. i # 1 => Place(files, last, i - 1) \in Nat
    <3>1. i # 1 => i - 1 \in 1..n
      OBVIOUS
    <3>2. QED
      BY <1>1, <3>1, Places
  <2>3. QED
    BY <2>1, <2>2
<1>3. N \in Nat /\ N >= 1
  BY <1>1, <1>2
<1>4. DOMAIN q = 1..N
  BY <1>1 DEF Dropped
<1>5. \A p \in 1..N : \E i \in 1..n : FirstFrom(files, last, p, i) /\ q[p] = At(files, last, p, i)
  BY <1>1, FirstFile, DroppedAt
<1>6. \A i \in 1..n : files[i].target \in Targets /\ files[i].dir \in Dirs
  OBVIOUS
<1>7. ASSUME NEW p, NEW i \in 1..n
      PROVE  /\ At(files, last, p, i) \in Jobs
             /\ At(files, last, p, i).dir = files[i].dir
             /\ At(files, last, p, i).kind =
                   IF p = Place(files, last, i) THEN "make" ELSE "change_directory"
  <2>1. "make" \in Kinds /\ "change_directory" \in Kinds
    BY DEF Kinds
  <2>2. files[i].target \in Names \cup {NoTarget} /\ NoTarget \in Names \cup {NoTarget} /\ files[i].dir \in Dirs
    BY <1>6 DEF Names
  <2>3. CASE p = Place(files, last, i)
    <3>1. At(files, last, p, i) = Job("make", files[i].target, files[i].dir)
      BY <2>3 DEF At
    <3>2. QED
      BY <2>1, <2>2, <2>3, <3>1, JobType
  <2>4. CASE p # Place(files, last, i)
    <3>1. At(files, last, p, i) = Job("change_directory", NoTarget, files[i].dir)
      BY <2>4 DEF At
    <3>2. /\ Job("change_directory", NoTarget, files[i].dir) \in Jobs
          /\ Job("change_directory", NoTarget, files[i].dir).kind = "change_directory"
          /\ Job("change_directory", NoTarget, files[i].dir).dir = files[i].dir
      BY <2>1, <2>2, PlainJob
    <3>3. QED
      BY <2>4, <3>1, <3>2
  <2>5. QED
    BY <2>3, <2>4
<1>8. \A p \in 1..N : q[p] \in Jobs /\ q[p].kind \in {"make", "change_directory"}
  BY <1>5, <1>7
<1>9. q \in Seq(Jobs) /\ q # <<>>
  <2>1. q = [p \in 1..N |-> q[p]]
    <3>1. q = [p \in DOMAIN q |-> q[p]]
      BY <1>1 DEF Dropped
    <3>2. QED
      BY <1>4, <3>1
  <2> HIDE DEF q
  <2>2. q \in [1..N -> Jobs]
    BY <1>8, <2>1
  <2>3. QED
    BY <1>3, <1>4, <2>2
<1>10. ASSUME NEW p \in 1..N, q[p].kind = "make"
       PROVE  /\ p = 1 => q[p].dir = last
              /\ p > 1 => q[p].dir = q[p - 1].dir
                          /\ q[p - 1].kind \in {"make", "change_directory"}
              /\ p = 2 => q[1].kind = "change_directory" \/ q[1].dir = last
  <2>1. PICK i \in 1..n : FirstFrom(files, last, p, i) /\ q[p] = At(files, last, p, i)
    BY <1>5
  <2>2. p = Place(files, last, i) /\ q[p].dir = files[i].dir
    BY <1>7, <1>10, <2>1
  <2>3. p = (IF i = 1 THEN 0 ELSE Place(files, last, i - 1)) +
            (IF i \in Elsewhere(files, last) THEN 2 ELSE 1)
    BY <1>1, <2>2, Places
  <2>4. p > 1 => p - 1 \in 1..N
    BY <1>3
  <2>5. CASE i \in Elsewhere(files, last)
    <3>1. /\ i = 1 => p = 2
          /\ i > 1 => i - 1 \in 1..n /\ Place(files, last, i - 1) \in Nat
                      /\ p = Place(files, last, i - 1) + 2
      BY <1>2, <2>3, <2>5
    <3>2. p - 1 \in 1..N /\ p > 1
      BY <1>3, <1>2, <3>1
    <3>3. FirstFrom(files, last, p - 1, i)
      BY <1>3, <2>2, <3>1 DEF FirstFrom
    <3>4. q[p - 1] = At(files, last, p - 1, i)
      BY <1>1, <3>2, <3>3, DroppedAt
    <3>5. q[p - 1].dir = files[i].dir /\ q[p - 1].kind = "change_directory"
      BY <1>7, <2>2, <3>2, <3>4
    <3>6. QED
      BY <2>2, <3>2, <3>5
  <2>6. CASE i \notin Elsewhere(files, last)
    <3>1. files[i].dir = (IF i = 1 THEN last ELSE files[i - 1].dir)
      BY <1>1, <2>6 DEF Elsewhere
    <3>2. CASE i = 1
      <4>1. p = 1 /\ q[p].dir = last
        BY <2>2, <2>3, <2>6, <3>1, <3>2
      <4>2. QED
        BY <4>1
    <3>3. CASE i # 1
      <4> DEFINE h == i - 1
      <4>1. h \in 1..n /\ Place(files, last, h) \in Nat /\ p = Place(files, last, h) + 1
        BY <1>2, <2>3, <2>6, <3>3
      <4>2. /\ Place(files, last, h) \in Nat
            /\ Place(files, last, h) =
                 (IF h = 1 THEN 0 ELSE Place(files, last, h - 1)) +
                 (IF h \in Elsewhere(files, last) THEN 2 ELSE 1)
            /\ h > 1 => Place(files, last, h - 1) \in Nat /\ Place(files, last, h - 1) >= 1
        <5>1. h > 1 => h - 1 \in 1..n
          BY <4>1
        <5>2. QED
          BY <1>1, <1>2, <4>1, <5>1, Places
      <4> HIDE DEF h
      <4>3. h > 1 => Place(files, last, h - 1) < Place(files, last, h)
        BY <4>1, <4>2
      <4>4. Place(files, last, h) >= 1
        BY <4>1, <4>2
      <4>5. p - 1 = Place(files, last, h) /\ p - 1 \in 1..N /\ p > 1
        BY <1>3, <4>1, <4>4
      <4>6. FirstFrom(files, last, p - 1, h)
        BY <4>1, <4>3, <4>5 DEF FirstFrom
      <4>7. q[p - 1] = At(files, last, p - 1, h)
        BY <1>1, <4>1, <4>5, <4>6, DroppedAt
      <4>8. q[p - 1].dir = files[h].dir /\ q[p - 1].kind = "make"
        BY <1>7, <4>1, <4>5, <4>7
      <4>9. files[i].dir = files[h].dir
        BY <3>1, <3>3 DEF h
      <4>10. h = 1 => files[h].dir = last \/ h \in Elsewhere(files, last)
        BY <1>1, <4>1 DEF Elsewhere
      <4>11. p = 2 => h = 1 /\ h \notin Elsewhere(files, last)
        BY <4>1, <4>2
      <4>12. q[p].dir = q[p - 1].dir /\ (p = 2 => q[p - 1].dir = last)
        BY <2>2, <4>8, <4>9, <4>10, <4>11
      <4>13. p = 2 => p - 1 = 1
        OBVIOUS
      <4>14. QED
        BY <4>5, <4>8, <4>12, <4>13
    <3>4. QED
      BY <3>2, <3>3
  <2>7. QED
    BY <2>5, <2>6
<1>11. InPlace(q, last)
  <2> HIDE DEF q
  <2>1. \A p \in 1..N : p > 2 => p > 1
    OBVIOUS
  <2>2. QED
    BY <1>4, <1>10, <2>1 DEF InPlace
<1>12. QED
  BY <1>4, <1>8, <1>9, <1>11

-----------------------------------------------------------------------------
(***************************************************************************)
(* What becomes of a queue whose targets will be made in place.            *)
(***************************************************************************)
LEMMA InPlaceHead ==
    ASSUME NEW q \in Seq(Jobs), q # <<>>, NEW d, InPlace(q, d),
           Head(q).kind = "make"
    PROVE  Head(q).dir = d
<1>1. 1 \in DOMAIN q /\ Head(q) = q[1]
  BY EmptySeq
<1>2. QED
  BY <1>1 DEF InPlace

\* The head of the queue is done, and has changed the directory if it should.
LEMMA InPlaceTail ==
    ASSUME NEW q \in Seq(Jobs), q # <<>>, NEW d, NEW e, InPlace(q, d),
           IF Head(q).kind = "change_directory" THEN e = Head(q).dir ELSE e = d
    PROVE  InPlace(Tail(q), e)
<1> DEFINE r == Tail(q)
<1>1. /\ r \in Seq(Jobs) /\ Len(q) \in Nat /\ Len(q) > 0
      /\ Len(r) = Len(q) - 1 /\ Head(q) = q[1]
      /\ \A i \in 1..Len(q) - 1 : r[i] = q[i + 1]
  BY EmptySeq, HeadTailProperties
<1>2. DOMAIN r = 1..Len(q) - 1 /\ DOMAIN q = 1..Len(q)
  BY <1>1
<1> HIDE DEF r
<1>3. SUFFICES ASSUME NEW i \in 1..Len(q) - 1, r[i].kind = "make"
               PROVE  /\ i = 1 => r[i].dir = e
                      /\ i > 1 => r[i].dir = r[i - 1].dir
                      /\ i = 2 => r[1].kind = "change_directory" \/ r[1].dir = e
                      /\ i > 2 => r[i - 1].kind \in {"make", "change_directory"}
  BY <1>2 DEF InPlace, r
<1>4. i + 1 \in DOMAIN q /\ r[i] = q[i + 1] /\ i + 1 > 1 /\ (i + 1) - 1 = i
  BY <1>1, <1>2
<1>5. r[i].dir = q[i].dir
  BY <1>3, <1>4 DEF InPlace
<1>6. ASSUME i = 1
      PROVE  r[i].dir = e
  <2>1. q[1].kind = "change_directory" \/ q[1].dir = d
    <3>1. i + 1 = 2
      BY <1>6
    <3>2. QED
      BY <1>3, <1>4, <3>1 DEF InPlace
  <2>2. QED
    BY <1>1, <1>5, <1>6, <2>1
<1>7. ASSUME i > 1
      PROVE  /\ r[i].dir = r[i - 1].dir
             /\ r[i - 1].kind \in {"make", "change_directory"}
  <2>1. i - 1 \in 1..Len(q) - 1 /\ (i - 1) + 1 = i /\ i + 1 > 2
    BY <1>1, <1>7
  <2>2. r[i - 1] = q[i]
    BY <1>1, <2>1
  <2>3. q[i].kind \in {"make", "change_directory"}
    BY <1>3, <1>4, <2>1 DEF InPlace
  <2>4. QED
    BY <1>5, <2>2, <2>3
<1>8. ASSUME i = 2, r[1].kind # "change_directory"
      PROVE  r[1].dir = e
  <2>1. r[1] = q[2] /\ 2 \in DOMAIN q /\ i - 1 = 1
    BY <1>1, <1>2, <1>8
  <2>2. q[2].kind = "make"
    BY <1>7, <1>8, <2>1
  <2>3. /\ q[2].dir = q[1].dir
        /\ q[1].kind = "change_directory" \/ q[1].dir = d
    <3>1. 2 > 1 /\ 2 - 1 = 1
      OBVIOUS
    <3>2. QED
      BY <2>1, <2>2, <3>1 DEF InPlace
  <2>4. QED
    BY <1>1, <2>1, <2>3
<1>9. i > 2 => i > 1
  OBVIOUS
<1>10. QED
  BY <1>6, <1>7, <1>8, <1>9

\* Tasks that are not targets are added.
LEMMA InPlaceConcat ==
    ASSUME NEW q \in Seq(Jobs), NEW s \in Seq(Jobs), NEW d, InPlace(q, d),
           \A i \in DOMAIN s : s[i].kind # "make"
    PROVE  InPlace(q \o s, d)
<1> DEFINE r == q \o s
<1>1. \A i \in DOMAIN r :
         \/ i \in DOMAIN q /\ r[i] = q[i]
         \/ i - Len(q) \in DOMAIN s /\ r[i] = s[i - Len(q)]
  OBVIOUS
<1>2. \A i \in DOMAIN q : i \in Nat /\ r[i] = q[i] /\ (i > 1 => i - 1 \in DOMAIN q)
  OBVIOUS
<1> HIDE DEF r
<1>3. SUFFICES ASSUME NEW i \in DOMAIN r, r[i].kind = "make"
               PROVE  /\ i = 1 => r[i].dir = d
                      /\ i > 1 => r[i].dir = r[i - 1].dir
                      /\ i = 2 => r[1].kind = "change_directory" \/ r[1].dir = d
                      /\ i > 2 => r[i - 1].kind \in {"make", "change_directory"}
  BY DEF InPlace, r
<1>4. i \in DOMAIN q /\ q[i].kind = "make" /\ r[i] = q[i]
  BY <1>1, <1>3
<1>5. i > 1 => r[i - 1] = q[i - 1]
  BY <1>2, <1>4
<1>6. i = 2 => i - 1 = 1 /\ i > 1
  OBVIOUS
<1>7. i > 2 => i > 1
  BY <1>2, <1>4
<1>8. QED
  BY <1>4, <1>5, <1>6, <1>7 DEF InPlace

LEMMA InPlaceNothing ==
    ASSUME NEW q, NEW d, \A i \in DOMAIN q : q[i].kind # "make"
    PROVE  InPlace(q, d)
  BY DEF InPlace


\* Which directory is current does not matter before a change of directory.
LEMMA InPlaceChanging ==
    ASSUME NEW q \in Seq(Jobs), q # <<>>, NEW d, NEW e, InPlace(q, d),
           Head(q).kind = "change_directory"
    PROVE  InPlace(q, e)
<1>1. 1 \in DOMAIN q /\ q[1].kind = "change_directory"
  BY EmptySeq
<1>2. q[1].kind # "make"
  BY <1>1
<1>3. QED
  BY <1>1, <1>2 DEF InPlace

\* What build_start() enqueues.
LEMMA InPlaceBuild ==
    ASSUME NEW d \in Dirs, NEW s \in RemadeMakefile(d), NEW e \in Jobs, e.dir = d
    PROVE  InPlace(Append(s, e), d)
<1> DEFINE r == Append(s, e)
<1>1. /\ s \in Seq(Jobs)
      /\ \A i \in DOMAIN s : s[i].kind = "logged" /\ s[i].dir = d
      /\ Len(s) \in Nat /\ Len(s) <= 1
  BY RemadeType
<1>2. /\ DOMAIN r = 1..Len(s) + 1 /\ DOMAIN s = 1..Len(s)
      /\ \A i \in 1..Len(s) : r[i] = s[i]
      /\ r[Len(s) + 1] = e
  BY <1>1
<1> HIDE DEF r
<1>3. \A i \in DOMAIN r : r[i].dir = d
  BY <1>1, <1>2
<1>4. \A i \in DOMAIN r : i \in 1..2 /\ (i > 1 => i - 1 \in DOMAIN r) /\ ~ (i > 2)
  BY <1>1, <1>2
<1>5. \A i \in DOMAIN r : i = 2 => 1 \in DOMAIN r
  BY <1>4
<1>6. QED
  BY <1>3, <1>4, <1>5 DEF InPlace, r

-----------------------------------------------------------------------------
(***************************************************************************)
(* What the actions have in common.                                        *)
(***************************************************************************)
Lawful == TypeOK /\ StartsWork

LEMMA StartsStep ==
    ASSUME Lawful, NEW k, Starts(k)
    PROVE  /\ at = "task_start" /\ running = FALSE
           /\ task_all # <<>> /\ Tail(task_all) \in Seq(Jobs)
           /\ Head1 \in Jobs /\ Head1.kind = k
           /\ working' = TRUE /\ hasty' = hasty
<1>1. task_all \in Seq(Jobs) /\ running \in BOOLEAN
  BY DEF Lawful, TypeOK
<1>2. /\ at = "task_start" /\ ~ running /\ task_all # <<>>
      /\ Head1.kind = k /\ working' = TRUE /\ hasty' = hasty
  BY DEF Starts
<1>3. Head1 \in Jobs /\ Tail(task_all) \in Seq(Jobs)
  BY <1>1, <1>2, HeadTailProperties DEF Head1
<1>4. QED
  BY <1>1, <1>2, <1>3

LEMMA ReapedStep ==
    ASSUME Lawful, NEW k, Reaped(k)
    PROVE  /\ at = "main_loop" /\ running = TRUE
           /\ task_all # <<>> /\ Tail(task_all) \in Seq(Jobs)
           /\ Head1 \in Jobs /\ Head1.kind = k
           /\ running' = FALSE /\ at' = "task_start"
           /\ working' = working /\ cwd' = cwd
           /\ log_is_empty' = log_is_empty /\ hasty' = hasty
<1>1. task_all \in Seq(Jobs) /\ running \in BOOLEAN
  BY DEF Lawful, TypeOK
<1>2. /\ at = "main_loop" /\ running
      /\ Head1.kind = k
      /\ running' = FALSE /\ at' = "task_start"
      /\ working' = working /\ cwd' = cwd
      /\ log_is_empty' = log_is_empty /\ hasty' = hasty
  BY DEF Reaped
<1>3. task_all # <<>>
  BY <1>2 DEF Lawful, StartsWork
<1>4. Head1 \in Jobs /\ Tail(task_all) \in Seq(Jobs)
  BY <1>1, <1>3, HeadTailProperties DEF Head1
<1>5. QED
  BY <1>1, <1>2, <1>3, <1>4

\* A callback has made the queue longer, and task_start() is called.
Longer(s) ==
    /\ at = "main_loop"
    /\ hasty' = (hasty \/ task_all # <<>>)
    /\ task_all' = task_all \o s
    /\ at' = IF running THEN "main_loop" ELSE "task_start"
    /\ UNCHANGED <<running, working>>

LEMMA GivesStep ==
    ASSUME NEW s, Gives(s)
    PROVE  Longer(s)
  BY Zenon DEF Gives, Longer

LEMMA SetTargets ==
    ASSUME NEW T, NEW history \in Seq(Names), NEW r, set_targets(T, history, r)
    PROVE  /\ available_targets' = T
           /\ target_history' \in Seq(Names)
           /\ history = <<>> => target_history' = <<>>
           /\ sensitive' = grey_menu_items(r, log_is_empty, target_history')
<1> DEFINE freed == [i \in DOMAIN history |-> FreedString]
<1>1. /\ available_targets' = T /\ target_history' = freed
      /\ sensitive' = grey_menu_items(r, log_is_empty, history)
  BY DEF set_targets
<1>2. freed \in Seq(Names) /\ Len(freed) = Len(history)
  <2>1. DOMAIN history = 1..Len(history) /\ Len(history) \in Nat
    OBVIOUS
  <2>2. FreedString \in Names
    BY DEF Names
  <2>3. freed \in [1..Len(history) -> Names]
    BY <2>1, <2>2
  <2> HIDE DEF freed
  <2>4. QED
    BY <2>1, <2>3
<1> HIDE DEF freed
<1>3. history = <<>> <=> freed = <<>>
  BY <1>2, EmptySeq
<1>4. grey_menu_items(r, log_is_empty, history) = grey_menu_items(r, log_is_empty, freed)
  BY <1>3 DEF grey_menu_items
<1>5. QED
  BY <1>1, <1>2, <1>3, <1>4

Rest == <<cwd, available_targets, target_history, log_is_empty, sensitive>>

LEMMA BuildStep ==
    ASSUME Lawful, NEW t \in Names, build_start(t)
    PROVE  \E s \in Seq(Jobs) :
              /\ Longer(s) /\ s # <<>> /\ UNCHANGED Rest
              /\ InPlace(s, cwd)
              /\ \A i \in DOMAIN s : s[i].kind # "list"
<1>1. PICK r \in RemadeMakefile(cwd) : Gives(Append(r, Job("make", t, cwd)))
  BY DEF build_start
<1>2. UNCHANGED Rest
  BY DEF build_start, Rest
<1>3. cwd \in Dirs /\ "make" \in Kinds /\ t \in Names \cup {NoTarget}
  BY DEF Lawful, TypeOK, Kinds
<1> DEFINE e == Job("make", t, cwd)
           s == Append(r, e)
<1>4. e \in Jobs /\ e.kind = "make" /\ e.dir = cwd
  BY <1>3, JobType
<1>5. r \in Seq(Jobs) /\ \A i \in DOMAIN r : r[i].kind = "logged"
  BY <1>3, RemadeType
<1>6. Longer(s)
  BY <1>1, GivesStep
<1> HIDE DEF e
<1>7. s \in Seq(Jobs) /\ s # <<>>
  BY <1>4, <1>5, AppendProperties
<1>8. InPlace(s, cwd)
  BY <1>1, <1>3, <1>4, InPlaceBuild
<1>9. \A i \in DOMAIN s : s[i].kind # "list"
  <2>1. \A i \in DOMAIN s : s[i] = e \/ (i \in DOMAIN r /\ s[i] = r[i])
    BY <1>4, <1>5
  <2> HIDE DEF s
  <2>2. QED
    BY <1>4, <1>5, <2>1
<1>10. QED
  BY <1>2, <1>6, <1>7, <1>8, <1>9

\* The user has had targets or a makefile made.
LEMMA GivenStep ==
    ASSUME Lawful, Build \/ BuildAgain \/ BuildOther \/ Drop
    PROVE  \E s \in Seq(Jobs) :
              /\ Longer(s) /\ s # <<>> /\ UNCHANGED Rest
              /\ InPlace(s, cwd)
              /\ \A i \in DOMAIN s : s[i].kind # "list"
<1>1. CASE Build
  <2>1. PICK t \in available_targets : build_start(t)
    BY <1>1 DEF Build
  <2>2. t \in Names
    BY DEF Lawful, TypeOK, Names
  <2>3. QED
    BY <2>1, <2>2, BuildStep
<1>2. CASE BuildAgain
  <2>1. PICK i \in DOMAIN target_history : build_start(target_history[i])
    BY <1>2 DEF BuildAgain
  <2>2. target_history[i] \in Names
    BY DEF Lawful, TypeOK
  <2>3. QED
    BY <2>1, <2>2, BuildStep
<1>3. CASE BuildOther
  <2> DEFINE s == <<Job("logged", NoTarget, cwd)>>
  <2>1. cwd \in Dirs /\ "logged" \in Kinds
    BY DEF Lawful, TypeOK, Kinds
  <2>2. s \in Seq(Jobs) /\ s # <<>> /\ DOMAIN s = 1..1 /\ s[1].kind = "logged"
    BY <2>1, SingleJob
  <2>3. Gives(s) /\ UNCHANGED Rest
    BY <1>3 DEF BuildOther, Rest
  <2>4. Longer(s)
    BY <2>3, GivesStep
  <2> HIDE DEF s
  <2>5. \A i \in DOMAIN s : s[i].kind = "logged"
    BY <2>2
  <2>6. InPlace(s, cwd)
    BY <2>5, InPlaceNothing
  <2>7. QED
    BY <2>2, <2>3, <2>4, <2>5, <2>6
<1>4. CASE Drop
  <2>1. PICK n \in 1..MaxDrop :
           \E files \in [1..n -> [target : Targets, dir : Dirs]] :
              Gives(Dropped(files, cwd))
    BY <1>4 DEF Drop
  <2>2. PICK files \in [1..n -> [target : Targets, dir : Dirs]] :
           Gives(Dropped(files, cwd))
    BY <2>1
  <2>3. n \in Nat \ {0}
    BY WindowAssumption DEF WindowAssumption
  <2> DEFINE s == Dropped(files, cwd)
  <2>4. /\ s \in Seq(Jobs) /\ s # <<>> /\ InPlace(s, cwd)
        /\ \A i \in DOMAIN s : s[i].kind \in {"make", "change_directory"}
    BY <2>3, DroppedProperties
  <2>5. Longer(s) /\ UNCHANGED Rest
    BY <1>4, <2>2, GivesStep DEF Drop, Rest
  <2> HIDE DEF s
  <2>6. QED
    BY <2>4, <2>5
<1>5. QED
  BY <1>1, <1>2, <1>3, <1>4

LEMMA ChangeStep ==
    ASSUME Lawful, NEW d \in Dirs, ChangeDirectory(d)
    PROVE  /\ cwd' = d /\ target_history' = <<>>
           /\ UNCHANGED <<available_targets, log_is_empty, sensitive>>
           /\ \E s \in Seq(Jobs) :
                 /\ Longer(s) /\ s # <<>>
                 /\ \A i \in DOMAIN s : s[i].kind # "make"
<1>1. PICK r \in RemadeMakefile(d) : Gives(Append(r, Job("list", NoTarget, d)))
  BY DEF ChangeDirectory
<1> DEFINE e == Job("list", NoTarget, d)
           s == Append(r, e)
<1>2. "list" \in Kinds
  BY DEF Kinds
<1>3. e \in Jobs /\ e.kind = "list"
  BY <1>2, PlainJob
<1>4. r \in Seq(Jobs) /\ \A i \in DOMAIN r : r[i].kind = "logged"
  BY RemadeType
<1>5. Longer(s)
  BY <1>1, GivesStep
<1> HIDE DEF e
<1>6. s \in Seq(Jobs) /\ s # <<>>
  BY <1>3, <1>4, AppendProperties
<1>7. \A i \in DOMAIN s : s[i] = e \/ (i \in DOMAIN r /\ s[i] = r[i])
  BY <1>3, <1>4
<1> HIDE DEF s
<1>8. \A i \in DOMAIN s : s[i].kind # "make"
  BY <1>3, <1>4, <1>7
<1>9. QED
  BY <1>5, <1>6, <1>8 DEF ChangeDirectory

LEMMA ChangeOnlyStep ==
    ASSUME Lawful, NEW d \in Dirs, ChangeDirectoryOnly(d)
    PROVE  /\ at = "main_loop"
           /\ hasty' = (hasty \/ task_all # <<>>)
           /\ cwd' = d
           /\ UNCHANGED <<at, running, working, log_is_empty>>
           /\ available_targets' = {} /\ target_history' = <<>>
           /\ sensitive' = grey_menu_items(running, log_is_empty, <<>>)
           /\ \E s \in Seq(Jobs) :
                 /\ task_all' = task_all \o s
                 /\ \A i \in DOMAIN s : s[i].kind = "logged"
<1>1. \E s \in RemadeMakefile(d) : task_all' = task_all \o s
  BY Zenon DEF ChangeDirectoryOnly
<1>2. PICK s \in RemadeMakefile(d) : task_all' = task_all \o s
  BY <1>1
<1>3. s \in Seq(Jobs) /\ \A i \in DOMAIN s : s[i].kind = "logged"
  BY RemadeType
<1>4. /\ at = "main_loop"
      /\ hasty' = (hasty \/ task_all # <<>>)
      /\ cwd' = d
      /\ set_targets({}, <<>>, running)
      /\ UNCHANGED <<at, running, working, log_is_empty>>
  BY Zenon DEF ChangeDirectoryOnly
<1>5. /\ available_targets' = {} /\ target_history' = <<>>
      /\ sensitive' = grey_menu_items(running, log_is_empty, target_history')
  <2>1. <<>> \in Seq(Names)
    OBVIOUS
  <2>2. QED
    BY <1>4, <2>1, SetTargets
<1>6. QED
  BY <1>2, <1>3, <1>4, <1>5

-----------------------------------------------------------------------------
(***************************************************************************)
(* The items that can be chosen.                                           *)
(***************************************************************************)
\* The start of a Task of the queue, up to its process or its main loop.
LEMMA StartKept ==
    ASSUME Lawful,
           StartMake \/ StartLogged \/ StartQuietly \/ StartDirectory
           \/ StartDirectoryList \/ AbortQueue
    PROVE  Lawful' /\ MenusRightWhenIdle'
<1>0. /\ task_all \in Seq(Jobs) /\ running \in BOOLEAN /\ cwd \in Dirs
      /\ available_targets \in SUBSET Targets /\ target_history \in Seq(Names)
      /\ log_is_empty \in BOOLEAN /\ hasty \in BOOLEAN
  BY DEF Lawful, TypeOK
<1>1. CASE StartMake
  <2>1. Starts("make")
    BY <1>1 DEF StartMake
  <2>2. /\ at' = "main_loop" /\ running' = TRUE /\ log_is_empty' = FALSE
        /\ UNCHANGED <<task_all, cwd, available_targets>>
        /\ target_history' = add_target_history(Head1.target)
    BY <1>1 DEF StartMake
  <2>3. target_history' \in Seq(Names)
    BY <2>2, AddedProperties, WindowAssumption DEF Lawful
  <2>4. QED
    BY <1>0, <2>1, <2>2, <2>3, StartsStep
       DEF Lawful, TypeOK, StartsWork, MenusRightWhenIdle
<1>2. CASE StartLogged
  <2>1. Starts("logged")
    BY <1>2 DEF StartLogged
  <2>2. /\ at' = "main_loop" /\ running' = TRUE /\ log_is_empty' = FALSE
        /\ UNCHANGED <<task_all, cwd, available_targets, target_history>>
    BY <1>2 DEF StartLogged
  <2>3. QED
    BY <1>0, <2>1, <2>2, StartsStep
       DEF Lawful, TypeOK, StartsWork, MenusRightWhenIdle
<1>3. CASE StartQuietly
  <2>1. Starts("list") \/ Starts("finish")
    BY <1>3 DEF StartQuietly
  <2>2. /\ at' = "main_loop" /\ running' = TRUE
        /\ UNCHANGED <<task_all, cwd, available_targets, target_history,
                       log_is_empty>>
    BY <1>3 DEF StartQuietly
  <2>3. QED
    BY <1>0, <2>1, <2>2, StartsStep
       DEF Lawful, TypeOK, StartsWork, MenusRightWhenIdle
<1>4. CASE StartDirectory
  <2>1. Starts("change_directory") /\ cwd' = Head1.dir
        /\ \E s \in RemadeMakefile(cwd') : task_all' = Tail(task_all) \o s
        /\ set_targets({}, <<>>, FALSE)
        /\ UNCHANGED <<at, running, log_is_empty>>
    BY <1>4 DEF StartDirectory
  <2>2. cwd' \in Dirs
    BY <2>1, StartsStep DEF Jobs
  <2>3. PICK s \in RemadeMakefile(cwd') : task_all' = Tail(task_all) \o s
    BY <2>1
  <2>4. task_all' \in Seq(Jobs)
    <3>1. s \in Seq(Jobs)
      BY <2>2, RemadeType
    <3>2. Tail(task_all) \in Seq(Jobs)
      BY <2>1, StartsStep
    <3>3. QED
      BY <2>3, <3>1, <3>2
  <2>5. available_targets' = {} /\ target_history' \in Seq(Names)
    <3>1. <<>> \in Seq(Names)
      OBVIOUS
    <3>2. QED
      BY <2>1, <3>1, SetTargets
  <2>6. at' = "task_start" /\ running' = FALSE /\ working' = TRUE /\ hasty' = hasty
    BY <2>1, StartsStep
  <2>7. QED
    BY <1>0, <2>1, <2>2, <2>4, <2>5, <2>6
       DEF Lawful, TypeOK, StartsWork, MenusRightWhenIdle
<1>5. CASE StartDirectoryList
  <2>1. /\ Starts("change_directory") /\ cwd' = Head1.dir
        /\ \E s \in RemadeMakefile(cwd') : task_all' = task_all \o s
        /\ target_history' = <<>> /\ at' = "nested"
        /\ UNCHANGED <<running, available_targets, log_is_empty>>
    BY <1>5 DEF StartDirectoryList
  <2>2. cwd' \in Dirs
    BY <2>1, StartsStep DEF Jobs
  <2>3. PICK s \in RemadeMakefile(cwd') : task_all' = task_all \o s
    BY <2>1
  <2>4. s \in Seq(Jobs) /\ task_all # <<>>
    BY <2>1, <2>2, StartsStep, RemadeType
  <2>5. task_all' \in Seq(Jobs) /\ task_all' # <<>>
    BY <1>0, <2>3, <2>4, HeadConcat
  <2>6. target_history' \in Seq(Names)
    BY <2>1
  <2>7. QED
    BY <1>0, <2>1, <2>2, <2>5, <2>6, StartsStep
       DEF Lawful, TypeOK, StartsWork, MenusRightWhenIdle
<1>6. CASE AbortQueue
  <2>1. /\ Starts("change_directory") /\ task_all' = <<>>
        /\ UNCHANGED <<at, running, cwd, available_targets, target_history,
                       log_is_empty>>
    BY <1>6, Zenon DEF AbortQueue
  <2>2. at' = "task_start" /\ running' = FALSE /\ working' = TRUE /\ hasty' = hasty
    BY <2>1, StartsStep
  <2>3. <<>> \in Seq(Jobs)
    OBVIOUS
  <2>4. QED
    BY <1>0, <2>1, <2>2, <2>3
       DEF Lawful, TypeOK, StartsWork, MenusRightWhenIdle
<1>7. QED
  BY <1>1, <1>2, <1>3, <1>4, <1>5, <1>6

\* The end of a Task and of the loop of task_start().
LEMMA EndKept ==
    ASSUME Lawful, EndDirectory \/ EndStart \/ ReapMake \/ ReapList \/ ReapOther
    PROVE  Lawful' /\ MenusRightWhenIdle'
<1>0. /\ task_all \in Seq(Jobs) /\ running \in BOOLEAN /\ working \in BOOLEAN
      /\ cwd \in Dirs
      /\ available_targets \in SUBSET Targets /\ target_history \in Seq(Names)
      /\ log_is_empty \in BOOLEAN /\ hasty \in BOOLEAN
  BY DEF Lawful, TypeOK
<1>1. TargetsIn[cwd] \in SUBSET Targets
  BY <1>0, WindowAssumption DEF WindowAssumption
<1>2. CASE EndDirectory
  <2>1. /\ at = "nested"
        /\ task_all' = Tail(task_all) /\ at' = "task_start"
        /\ UNCHANGED <<running, working, cwd, log_is_empty, hasty>>
    BY <1>2 DEF EndDirectory
  <2>2. PICK T \in {TargetsIn[cwd], {}} : set_targets(T, target_history, FALSE)
    BY <1>2 DEF EndDirectory
  <2>3. T \in SUBSET Targets
    BY <1>1
  <2>4. task_all # <<>> /\ working = TRUE /\ running = FALSE
    BY <1>0, <2>1 DEF Lawful, StartsWork
  <2>5. task_all' \in Seq(Jobs)
    BY <1>0, <2>1, <2>4, HeadTailProperties
  <2>6. available_targets' = T /\ target_history' \in Seq(Names)
    BY <1>0, <2>2, SetTargets
  <2>7. QED
    BY <1>0, <2>1, <2>2, <2>3, <2>4, <2>5, <2>6
       DEF Lawful, TypeOK, StartsWork, MenusRightWhenIdle
<1>3. CASE EndStart
  <2>1. /\ at = "task_start" /\ task_all = <<>>
        /\ at' = "main_loop" /\ working' = FALSE
        /\ sensitive' = IF working
                        THEN grey_menu_items(FALSE, log_is_empty, target_history)
                        ELSE sensitive
        /\ UNCHANGED <<task_all, running, cwd, available_targets,
                       target_history, log_is_empty, hasty>>
    BY <1>3 DEF EndStart
  <2>2. working = TRUE /\ running = FALSE
    BY <1>0, <2>1 DEF Lawful, StartsWork
  <2>3. sensitive' = grey_menu_items(FALSE, log_is_empty, target_history)'
    <3>1. sensitive' = grey_menu_items(FALSE, log_is_empty, target_history)
      BY <2>1, <2>2
    <3>2. QED
      BY <2>1, <3>1 DEF grey_menu_items
  <2>4. QED
    BY <1>0, <2>1, <2>2, <2>3
       DEF Lawful, TypeOK, StartsWork, MenusRightWhenIdle
<1>4. CASE ReapMake \/ ReapList \/ ReapOther
  <2>1. \E k : Reaped(k)
    BY <1>4 DEF ReapMake, ReapList, ReapOther
  <2>2. PICK k : Reaped(k)
    BY <2>1
  <2>3. /\ at = "main_loop" /\ running = TRUE /\ task_all # <<>>
        /\ Tail(task_all) \in Seq(Jobs)
        /\ running' = FALSE /\ at' = "task_start"
        /\ working' = working /\ cwd' = cwd
        /\ log_is_empty' = log_is_empty /\ hasty' = hasty
    BY <2>2, ReapedStep
  <2>4. /\ task_all' \in Seq(Jobs)
        /\ available_targets' \in SUBSET Targets
        /\ target_history' \in Seq(Names)
    <3>1. CASE ReapMake
      <4>1. PICK s \in {<<>>, <<Job("finish", NoTarget, cwd)>>} :
               task_all' = Tail(task_all) \o s
        BY <3>1 DEF ReapMake
      <4>2. s \in Seq(Jobs)
        <5>1. "finish" \in Kinds
          BY DEF Kinds
        <5>2. <<Job("finish", NoTarget, cwd)>> \in Seq(Jobs)
          BY <1>0, <5>1, SingleJob
        <5>3. <<>> \in Seq(Jobs)
          OBVIOUS
        <5>4. CASE s = <<>>
          BY <5>3, <5>4
        <5>5. CASE s = <<Job("finish", NoTarget, cwd)>>
          BY <5>2, <5>5
        <5>6. QED
          BY <4>1, <5>4, <5>5
      <4>3. UNCHANGED <<available_targets, target_history>>
        BY <3>1 DEF ReapMake
      <4>4. QED
        BY <1>0, <2>3, <4>1, <4>2, <4>3
    <3>2. CASE ReapList
      <4>1. PICK T \in {TargetsIn[cwd], {}} :
               set_targets(T, target_history, FALSE)
        BY <3>2 DEF ReapList
      <4>2. T \in SUBSET Targets /\ task_all' = Tail(task_all)
        BY <1>1, <3>2 DEF ReapList
      <4>3. available_targets' = T /\ target_history' \in Seq(Names)
        BY <1>0, <4>1, SetTargets
      <4>4. QED
        BY <2>3, <4>2, <4>3
    <3>3. CASE ReapOther
      BY <1>0, <2>3, <3>3 DEF ReapOther
    <3>4. QED
      BY <1>4, <3>1, <3>2, <3>3
  <2>5. working = TRUE
    BY <1>0, <2>3 DEF Lawful, StartsWork
  <2>6. QED
    BY <1>0, <2>3, <2>4, <2>5
       DEF Lawful, TypeOK, StartsWork, MenusRightWhenIdle
<1>5. QED
  BY <1>2, <1>3, <1>4

\* The queue has grown by a callback.
LEMMA LongerKept ==
    ASSUME Lawful, NEW s \in Seq(Jobs), s # <<>>, Longer(s),
           cwd' \in Dirs, UNCHANGED <<available_targets, log_is_empty>>,
           target_history' \in Seq(Names)
    PROVE  Lawful' /\ MenusRightWhenIdle'
<1>1. /\ task_all \in Seq(Jobs) /\ running \in BOOLEAN /\ working \in BOOLEAN
      /\ available_targets \in SUBSET Targets
      /\ log_is_empty \in BOOLEAN /\ hasty \in BOOLEAN
      /\ running => working
  BY DEF Lawful, TypeOK, StartsWork
<1>2. /\ at = "main_loop"
      /\ hasty' = (hasty \/ task_all # <<>>)
      /\ task_all' = task_all \o s
      /\ at' = IF running THEN "main_loop" ELSE "task_start"
      /\ running' = running /\ working' = working
  BY DEF Longer
<1>3. task_all' \in Seq(Jobs) /\ task_all' # <<>>
  <2>1. Len(s) > 0 /\ Len(task_all \o s) = Len(task_all) + Len(s)
    BY <1>1, EmptySeq
  <2>2. Len(task_all \o s) > 0
    BY <1>1, <2>1
  <2>3. QED
    BY <1>1, <1>2, <2>2, EmptySeq
<1>4. hasty' \in BOOLEAN
  BY <1>2
<1>5. at' \in {"main_loop", "task_start"} /\ (at' # "main_loop" => running = FALSE)
  BY <1>1, <1>2
<1>6. QED
  BY <1>1, <1>2, <1>3, <1>4, <1>5
     DEF Lawful, TypeOK, StartsWork, MenusRightWhenIdle

LEMMA UserKept ==
    ASSUME Lawful, MenusRightWhenIdle,
           \/ Build \/ BuildAgain \/ BuildOther \/ Drop
           \/ \E d \in Dirs : ChangeDirectory(d) \/ ChangeDirectoryOnly(d)
           \/ Clear \/ OpenLog \/ Click
    PROVE  Lawful' /\ MenusRightWhenIdle'
<1>0. /\ task_all \in Seq(Jobs) /\ running \in BOOLEAN /\ working \in BOOLEAN
      /\ cwd \in Dirs
      /\ available_targets \in SUBSET Targets /\ target_history \in Seq(Names)
      /\ log_is_empty \in BOOLEAN /\ hasty \in BOOLEAN
  BY DEF Lawful, TypeOK
<1>1. CASE Build \/ BuildAgain \/ BuildOther \/ Drop
  <2>1. PICK s \in Seq(Jobs) : Longer(s) /\ s # <<>> /\ UNCHANGED Rest
    BY <1>1, GivenStep
  <2>2. UNCHANGED <<cwd, available_targets, target_history, log_is_empty>>
    BY <2>1 DEF Rest
  <2>3. QED
    BY <1>0, <2>1, <2>2, LongerKept
<1>2. ASSUME NEW d \in Dirs, ChangeDirectory(d)
      PROVE  Lawful' /\ MenusRightWhenIdle'
  <2>1. /\ cwd' = d /\ target_history' = <<>>
        /\ UNCHANGED <<available_targets, log_is_empty, sensitive>>
    BY <1>2, ChangeStep
  <2>2. PICK s \in Seq(Jobs) : Longer(s) /\ s # <<>>
    BY <1>2, ChangeStep
  <2>3. target_history' \in Seq(Names)
    BY <2>1
  <2>4. QED
    BY <2>1, <2>2, <2>3, LongerKept
<1>3. ASSUME NEW d \in Dirs, ChangeDirectoryOnly(d)
      PROVE  Lawful' /\ MenusRightWhenIdle'
  <2>1. /\ at = "main_loop"
        /\ hasty' = (hasty \/ task_all # <<>>)
        /\ cwd' = d
        /\ UNCHANGED <<at, running, working, log_is_empty>>
        /\ available_targets' = {} /\ target_history' = <<>>
        /\ sensitive' = grey_menu_items(running, log_is_empty, <<>>)
    BY <1>3, ChangeOnlyStep
  <2>2. PICK s \in Seq(Jobs) : task_all' = task_all \o s
    BY <1>3, ChangeOnlyStep
  <2>3. /\ task_all' \in Seq(Jobs)
        /\ task_all # <<>> => task_all' # <<>>
    BY <1>0, <2>2, HeadConcat
  <2>4. target_history' \in Seq(Names) /\ hasty' \in BOOLEAN
    BY <2>1
  <2>5. Lawful'
    BY <1>0, <2>1, <2>3, <2>4 DEF Lawful, TypeOK, StartsWork
  <2>6. ASSUME task_all' = <<>>
        PROVE  sensitive' = grey_menu_items(FALSE, log_is_empty', target_history')
    <3>1. running = FALSE
      BY <1>0, <2>3, <2>6 DEF Lawful, StartsWork
    <3>2. QED
      BY <2>1, <3>1
  <2>7. QED
    BY <2>5, <2>6 DEF MenusRightWhenIdle, grey_menu_items
<1>4. CASE Clear \/ OpenLog \/ Click
  <2>1. /\ at = "main_loop"
        /\ UNCHANGED <<at, task_all, running, working, cwd, available_targets,
                       target_history, hasty>>
        /\ log_is_empty' \in BOOLEAN
    BY <1>0, <1>4 DEF Clear, OpenLog, Click
  <2>2. Lawful'
    BY <1>0, <2>1 DEF Lawful, TypeOK, StartsWork
  <2>3. ASSUME task_all = <<>>
        PROVE  sensitive' = grey_menu_items(FALSE, log_is_empty', target_history)
    <3>1. running = FALSE
      BY <1>0, <2>3 DEF Lawful, StartsWork
    <3>2. sensitive = grey_menu_items(FALSE, log_is_empty, target_history)
      BY <2>1, <2>3 DEF MenusRightWhenIdle
    <3>3. CASE Clear
      BY <3>1, <3>3 DEF Clear
    <3>4. CASE OpenLog
      <4>1. CASE log_is_empty
        BY <3>1, <3>4, <4>1 DEF OpenLog
      <4>2. CASE ~ log_is_empty
        BY <1>0, <3>2, <3>4, <4>2 DEF OpenLog
      <4>3. QED
        BY <4>1, <4>2
    <3>5. CASE Click
      BY <1>0, <3>1, <3>5 DEF Click
    <3>6. QED
      BY <1>4, <3>3, <3>4, <3>5
  <2>4. QED
    BY <2>1, <2>2, <2>3 DEF MenusRightWhenIdle, grey_menu_items
<1>5. QED
  BY <1>1, <1>2, <1>3, <1>4

LEMMA MenusKept ==
    ASSUME Lawful, MenusRightWhenIdle, [Next]_vars
    PROVE  Lawful' /\ MenusRightWhenIdle'
<1>1. CASE Next
  <2>1. \/ StartMake \/ StartLogged \/ StartQuietly \/ StartDirectory
        \/ StartDirectoryList \/ AbortQueue
        \/ EndDirectory \/ EndStart \/ ReapMake \/ ReapList \/ ReapOther
        \/ Build \/ BuildAgain \/ BuildOther \/ Drop
        \/ \E d \in Dirs : ChangeDirectory(d) \/ ChangeDirectoryOnly(d)
        \/ Clear \/ OpenLog \/ Click
    BY <1>1 DEF Next
  <2>2. QED
    BY <2>1, StartKept, EndKept, UserKept
<1>2. CASE UNCHANGED vars
  BY <1>2 DEF vars, Lawful, TypeOK, StartsWork, MenusRightWhenIdle, grey_menu_items
<1>3. QED
  BY <1>1, <1>2

LEMMA InitLawful ==
    ASSUME Init
    PROVE  Lawful /\ MenusRightWhenIdle
<1>1. /\ at = "main_loop" /\ task_all = <<>> /\ running = FALSE
      /\ working = FALSE /\ cwd \in Dirs /\ available_targets = TargetsIn[cwd]
      /\ target_history = <<>> /\ log_is_empty = TRUE /\ hasty = FALSE
      /\ sensitive = grey_menu_items(FALSE, TRUE, <<>>)
  BY DEF Init
<1>2. available_targets \in SUBSET Targets
  BY <1>1, WindowAssumption DEF WindowAssumption
<1>3. <<>> \in Seq(Jobs) /\ <<>> \in Seq(Names)
  OBVIOUS
<1>4. QED
  BY <1>1, <1>2, <1>3 DEF Lawful, TypeOK, StartsWork, MenusRightWhenIdle

\* Whatever the user does and whatever fails: when the queue is empty and the
\* program waits for the user again, the items that can be chosen are right.
\* (grey_menu_items, work_ended, task_start)
THEOREM MenusAreRight == Spec => []MenusRightWhenIdle
<1>1. Init => Lawful /\ MenusRightWhenIdle
  BY InitLawful
<1>2. Lawful /\ MenusRightWhenIdle /\ [Next]_vars
         => Lawful' /\ MenusRightWhenIdle'
  BY MenusKept
<1>3. QED
  BY <1>1, <1>2, PTL DEF Spec

\* Whatever the user does and whatever fails, every variable keeps to its type,
\* and task_start() is called only when nothing runs and has told the window
\* that work has begun before anything does.  (task_start, task_reap_func)
THEOREM WindowLawful == Spec => []Lawful
<1>1. Init => Lawful /\ MenusRightWhenIdle
  BY InitLawful
<1>2. Lawful /\ MenusRightWhenIdle /\ [Next]_vars
         => Lawful' /\ MenusRightWhenIdle'
  BY MenusKept
<1>3. QED
  BY <1>1, <1>2, PTL DEF Spec

-----------------------------------------------------------------------------
(***************************************************************************)
(* A user who waits for the queue.                                         *)
(***************************************************************************)
InOrder == HistorySaved /\ EmptyUntilListed /\ WillBeMadeWhereChosen

\* Targets join the queue when it is empty, and lists of targets with an empty
\* history; a history grows when a target is at the head.
LEMMA ListsKept ==
    ASSUME Lawful, EmptyUntilListed,
           \A x \in Jobs : On(task_all', x) =>
               On(task_all, x) \/ x.kind \notin {"list", "make"},
           \/ target_history = <<>> => target_history' = <<>>
           \/ \E y \in Jobs : On(task_all, y) /\ y.kind = "make",
           at' = "nested" => target_history' = <<>>
    PROVE  EmptyUntilListed'
<1>1. ASSUME NEW x \in Jobs, NEW y \in Jobs,
             On(task_all', x), On(task_all', y), x.kind = "list"
      PROVE  target_history' = <<>> /\ y.kind # "make"
  <2>1. On(task_all, x)
    BY <1>1
  <2>2. target_history = <<>>
    BY <1>1, <2>1 DEF EmptyUntilListed
  <2>3. ~ \E z \in Jobs : On(task_all, z) /\ z.kind = "make"
    BY <1>1, <2>1 DEF EmptyUntilListed
  <2>4. QED
    BY <1>1, <2>2, <2>3
<1>2. QED
  BY <1>1 DEF EmptyUntilListed

LEMMA HeadOnQueue ==
    ASSUME Lawful, task_all # <<>>
    PROVE  On(task_all, Head1) /\ Head1 \in Jobs
<1>1. task_all \in Seq(Jobs)
  BY DEF Lawful, TypeOK
<1>2. QED
  BY <1>1, HeadOn DEF Head1

LEMMA NothingSaved ==
    ASSUME target_history' = <<>>
    PROVE  HistorySaved'
  BY DEF HistorySaved, ToSet, IsInjective

LEMMA SavedUnchanged ==
    ASSUME HistorySaved, UNCHANGED <<target_history, available_targets>>
    PROVE  HistorySaved'
  BY DEF HistorySaved, ToSet, IsInjective

\* The head starts and stays on the queue until it is reaped.
LEMMA OrderOfStart ==
    ASSUME Lawful, InOrder, StartMake \/ StartLogged \/ StartQuietly
    PROVE  InOrder'
<1>1. PICK k : Starts(k) /\ (StartMake => k = "make")
  BY DEF StartMake, StartLogged, StartQuietly
<1>2. /\ at = "task_start" /\ task_all # <<>> /\ Head1 \in Jobs
      /\ Head1.kind = k /\ On(task_all, Head1)
  BY <1>1, StartsStep, HeadOnQueue
<1>3. UNCHANGED <<task_all, cwd, available_targets>> /\ at' = "main_loop"
  BY DEF StartMake, StartLogged, StartQuietly
<1>4. CASE StartMake
  <2>1. target_history' = add_target_history(Head1.target)
    BY <1>4 DEF StartMake
  <2> DEFINE h == add_target_history(Head1.target)
  <2>2. IsInjective(h) /\ ToSet(h) \subseteq available_targets
    BY AddedProperties, WindowAssumption DEF Lawful, InOrder
  <2> HIDE DEF h
  <2>3. HistorySaved'
    BY <1>3, <2>1, <2>2 DEF HistorySaved, h
  <2>4. EmptyUntilListed'
    BY <1>1, <1>2, <1>3, <1>4, ListsKept DEF InOrder
  <2>5. QED
    BY <1>3, <2>3, <2>4 DEF InOrder, WillBeMadeWhereChosen
<1>5. CASE StartLogged \/ StartQuietly
  <2>1. target_history' = target_history
    BY <1>5 DEF StartLogged, StartQuietly
  <2>2. HistorySaved'
    BY <1>3, <2>1, SavedUnchanged DEF InOrder
  <2>3. EmptyUntilListed'
    BY <1>3, <2>1 DEF InOrder, EmptyUntilListed
  <2>4. QED
    BY <1>3, <2>2, <2>3 DEF InOrder, WillBeMadeWhereChosen
<1>6. QED
  BY <1>4, <1>5

LEMMA InPlaceEmpty ==
    ASSUME NEW d
    PROVE  InPlace(<<>>, d)
  BY DEF InPlace

LEMMA OrderOfDirectory ==
    ASSUME Lawful, InOrder, StartDirectory \/ StartDirectoryList \/ AbortQueue
    PROVE  InOrder'
<1>1. Starts("change_directory")
  <2>1. CASE AbortQueue
    BY <2>1, Zenon DEF AbortQueue
  <2>2. QED
    BY <2>1 DEF StartDirectory, StartDirectoryList
<1>2. /\ at = "task_start" /\ task_all # <<>>
      /\ Tail(task_all) \in Seq(Jobs)
      /\ Head1 \in Jobs /\ Head1.kind = "change_directory"
  BY <1>1, StartsStep
<1>3. task_all \in Seq(Jobs) /\ InPlace(task_all, cwd) /\ EmptyUntilListed
  BY DEF Lawful, TypeOK, InOrder, WillBeMadeWhereChosen
<1>4. CASE StartDirectory
  <2>1. /\ cwd' = Head1.dir /\ at' = at
        /\ \E s \in RemadeMakefile(cwd') : task_all' = Tail(task_all) \o s
        /\ set_targets({}, <<>>, FALSE)
    BY <1>4 DEF StartDirectory
  <2>2. PICK s \in RemadeMakefile(Head1.dir) : task_all' = Tail(task_all) \o s
    BY <2>1
  <2>3. s \in Seq(Jobs) /\ \A i \in DOMAIN s : s[i].kind = "logged"
    <3>1. Head1.dir \in Dirs
      BY <1>2 DEF Jobs
    <3>2. \A d \in Dirs : \A r \in RemadeMakefile(d) :
             r \in Seq(Jobs) /\ \A i \in DOMAIN r : r[i].kind = "logged"
      BY RemadeType
    <3>3. QED
      BY <3>1, <3>2
  <2>4. target_history' = <<>>
    <3>1. <<>> \in Seq(Names)
      OBVIOUS
    <3>2. QED
      BY <2>1, <3>1, SetTargets
  <2>5. \A x \in Jobs : On(task_all', x) =>
           On(task_all, x) \/ x.kind \notin {"list", "make"}
    <3>1. \A x : On(task_all', x) => On(Tail(task_all), x) \/ On(s, x)
      BY <1>2, <2>2, <2>3, OnConcat
    <3>2. \A x : On(Tail(task_all), x) => On(task_all, x)
      BY <1>2, <1>3, OnTail
    <3>3. \A x : On(s, x) => x.kind = "logged"
      BY <2>3 DEF On
    <3>4. QED
      BY <3>1, <3>2, <3>3
  <2>6. EmptyUntilListed'
    BY <1>3, <2>4, <2>5, ListsKept
  <2>7. InPlace(task_all', cwd')
    <3>1. InPlace(Tail(task_all), Head1.dir)
      BY <1>2, <1>3, InPlaceTail DEF Head1
    <3>2. \A i \in DOMAIN s : s[i].kind # "make"
      BY <2>3
    <3>3. InPlace(Tail(task_all) \o s, Head1.dir)
      BY <1>2, <2>3, <3>1, <3>2, InPlaceConcat
    <3>4. QED
      BY <2>1, <2>2, <3>3
  <2>8. QED
    BY <1>2, <2>1, <2>4, <2>6, <2>7, NothingSaved
       DEF InOrder, WillBeMadeWhereChosen
<1>5. CASE StartDirectoryList
  <2>1. /\ cwd' = Head1.dir /\ at' = "nested" /\ target_history' = <<>>
        /\ \E s \in RemadeMakefile(cwd') : task_all' = task_all \o s
    BY <1>5 DEF StartDirectoryList
  <2>2. PICK s \in RemadeMakefile(Head1.dir) : task_all' = task_all \o s
    BY <2>1
  <2>3. s \in Seq(Jobs) /\ \A i \in DOMAIN s : s[i].kind = "logged"
    <3>1. Head1.dir \in Dirs
      BY <1>2 DEF Jobs
    <3>2. \A d \in Dirs : \A r \in RemadeMakefile(d) :
             r \in Seq(Jobs) /\ \A i \in DOMAIN r : r[i].kind = "logged"
      BY RemadeType
    <3>3. QED
      BY <3>1, <3>2
  <2>4. \A x \in Jobs : On(task_all', x) =>
           On(task_all, x) \/ x.kind \notin {"list", "make"}
    <3>1. \A x : On(task_all', x) => On(task_all, x) \/ On(s, x)
      BY <1>3, <2>2, <2>3, OnConcat
    <3>2. \A x : On(s, x) => x.kind = "logged"
      BY <2>3 DEF On
    <3>3. QED
      BY <3>1, <3>2
  <2>5. EmptyUntilListed'
    BY <1>3, <2>1, <2>4, ListsKept
  <2>6. InPlace(task_all', cwd')
    <3>1. InPlace(task_all, Head1.dir)
      BY <1>2, <1>3, InPlaceChanging DEF Head1
    <3>2. \A i \in DOMAIN s : s[i].kind # "make"
      BY <2>3
    <3>3. InPlace(task_all \o s, Head1.dir)
      BY <1>3, <2>3, <3>1, <3>2, InPlaceConcat
    <3>4. QED
      BY <2>1, <2>2, <3>3
  <2>7. Head1' = Head1
    BY <1>2, <1>3, <2>2, <2>3, HeadConcat DEF Head1
  <2>8. QED
    BY <1>2, <2>1, <2>5, <2>6, <2>7, NothingSaved
       DEF InOrder, WillBeMadeWhereChosen
<1>6. CASE AbortQueue
  <2>1. task_all' = <<>>
        /\ UNCHANGED <<at, cwd, available_targets, target_history>>
    BY <1>6, Zenon DEF AbortQueue
  <2>2. \A x : ~ On(task_all', x)
    BY <2>1 DEF On
  <2>3. EmptyUntilListed'
    BY <1>2, <2>1, <2>2 DEF EmptyUntilListed
  <2>4. InPlace(task_all', cwd')
    BY <2>1, InPlaceEmpty
  <2>5. HistorySaved'
    BY <2>1, SavedUnchanged DEF InOrder
  <2>6. QED
    BY <1>2, <2>1, <2>3, <2>4, <2>5 DEF InOrder, WillBeMadeWhereChosen
<1>7. QED
  BY <1>4, <1>5, <1>6

\* The head is done with, and s joins the queue in its stead.
LEMMA OrderOfRest ==
    ASSUME Lawful, InOrder, task_all # <<>>, NEW s \in Seq(Jobs),
           \A i \in DOMAIN s : s[i].kind \notin {"list", "make"},
           task_all' = Tail(task_all) \o s, at' = "task_start", cwd' = cwd,
           Head1.kind = "change_directory" => Head1.dir = cwd,
           target_history = <<>> => target_history' = <<>>,
           HistorySaved'
    PROVE  InOrder'
<1>1. task_all \in Seq(Jobs) /\ InPlace(task_all, cwd) /\ EmptyUntilListed
  BY DEF Lawful, TypeOK, InOrder, WillBeMadeWhereChosen
<1>2. Tail(task_all) \in Seq(Jobs)
  BY <1>1, HeadTailProperties
<1>3. \A x \in Jobs : On(task_all', x) =>
         On(task_all, x) \/ x.kind \notin {"list", "make"}
  <2>1. \A x : On(task_all', x) => On(Tail(task_all), x) \/ On(s, x)
    BY <1>2, OnConcat
  <2>2. \A x : On(Tail(task_all), x) => On(task_all, x)
    BY <1>1, OnTail
  <2>3. \A x : On(s, x) => x.kind \notin {"list", "make"}
    BY DEF On
  <2>4. QED
    BY <2>1, <2>2, <2>3
<1>4. EmptyUntilListed'
  BY <1>1, <1>3, ListsKept
<1>5. InPlace(task_all', cwd')
  <2>1. InPlace(Tail(task_all), cwd)
    BY <1>1, InPlaceTail DEF Head1
  <2>2. \A i \in DOMAIN s : s[i].kind # "make"
    OBVIOUS
  <2>3. InPlace(Tail(task_all) \o s, cwd)
    BY <1>2, <2>1, <2>2, InPlaceConcat
  <2>4. QED
    BY <2>3
<1>6. QED
  BY <1>4, <1>5 DEF InOrder, WillBeMadeWhereChosen

LEMMA OrderOfEnd ==
    ASSUME Lawful, InOrder,
           EndDirectory \/ EndStart \/ ReapMake \/ ReapList \/ ReapOther
    PROVE  InOrder'
<1>0. task_all \in Seq(Jobs) /\ target_history \in Seq(Names) /\ cwd \in Dirs
  BY DEF Lawful, TypeOK
<1>1. <<>> \in Seq(Jobs) /\ \A q \in Seq(Jobs) : q \o <<>> = q
  BY ConcatEmptySeq
<1>2. CASE EndDirectory
  <2>1. /\ at = "nested" /\ at' = "task_start" /\ cwd' = cwd
        /\ task_all' = Tail(task_all)
    BY <1>2 DEF EndDirectory
  <2>2. PICK T \in {TargetsIn[cwd], {}} : set_targets(T, target_history, FALSE)
    BY <1>2 DEF EndDirectory
  <2>3. task_all # <<>> /\ target_history = <<>> /\ Head1.dir = cwd
    BY <2>1
       DEF Lawful, StartsWork, InOrder, EmptyUntilListed, WillBeMadeWhereChosen
  <2>4. target_history' = <<>>
    BY <1>0, <2>2, <2>3, SetTargets
  <2>5. task_all' = Tail(task_all) \o <<>>
    BY <1>0, <1>1, <2>1, <2>3, HeadTailProperties
  <2>6. \A i \in DOMAIN <<>> : <<>>[i].kind \notin {"list", "make"}
    OBVIOUS
  <2>7. QED
    BY <1>1, <2>1, <2>3, <2>4, <2>5, <2>6, NothingSaved, OrderOfRest
<1>3. CASE EndStart
  <2>1. /\ at' = "main_loop"
        /\ UNCHANGED <<task_all, cwd, available_targets, target_history>>
    BY <1>3 DEF EndStart
  <2>2. HistorySaved'
    BY <2>1, SavedUnchanged DEF InOrder
  <2>3. QED
    BY <2>1, <2>2 DEF InOrder, EmptyUntilListed, WillBeMadeWhereChosen
<1>4. CASE ReapMake
  <2>1. Reaped("make") /\ UNCHANGED <<available_targets, target_history>>
    BY <1>4 DEF ReapMake
  <2>2. PICK s \in {<<>>, <<Job("finish", NoTarget, cwd)>>} :
           task_all' = Tail(task_all) \o s
    BY <1>4 DEF ReapMake
  <2>3. s \in Seq(Jobs) /\ \A i \in DOMAIN s : s[i].kind \notin {"list", "make"}
    <3>1. "finish" \in Kinds
      BY DEF Kinds
    <3>2. CASE s = <<>>
      BY <3>2
    <3>3. CASE s = <<Job("finish", NoTarget, cwd)>>
      <4>1. /\ s \in Seq(Jobs) /\ DOMAIN s = 1..1
            /\ s[1].kind = "finish"
        BY <1>0, <3>1, <3>3, SingleJob
      <4>2. QED
        BY <4>1
    <3>4. QED
      BY <2>2, <3>2, <3>3
  <2>4. /\ task_all # <<>> /\ Head1.kind = "make"
        /\ at' = "task_start" /\ cwd' = cwd
    BY <2>1, ReapedStep
  <2>5. HistorySaved'
    BY <2>1, SavedUnchanged DEF InOrder
  <2>6. QED
    BY <2>1, <2>2, <2>3, <2>4, <2>5, OrderOfRest
<1>5. CASE ReapList
  <2>1. Reaped("list") /\ task_all' = Tail(task_all)
    BY <1>5 DEF ReapList
  <2>2. PICK T \in {TargetsIn[cwd], {}} :
           set_targets(T, target_history, FALSE)
    BY <1>5 DEF ReapList
  <2>3. /\ task_all # <<>> /\ Head1.kind = "list" /\ Tail(task_all) \in Seq(Jobs)
        /\ at' = "task_start" /\ cwd' = cwd
    BY <2>1, ReapedStep
  <2>4. target_history = <<>>
    BY <2>3, HeadOnQueue DEF InOrder, EmptyUntilListed
  <2>5. target_history' = <<>>
    BY <1>0, <2>2, <2>4, SetTargets
  <2>6. task_all' = Tail(task_all) \o <<>>
    BY <1>1, <2>1, <2>3
  <2>7. \A i \in DOMAIN <<>> : <<>>[i].kind \notin {"list", "make"}
    OBVIOUS
  <2>8. QED
    BY <1>1, <2>3, <2>5, <2>6, <2>7, NothingSaved, OrderOfRest
<1>6. CASE ReapOther
  <2>1. /\ Reaped("logged") \/ Reaped("finish")
        /\ task_all' = Tail(task_all)
        /\ UNCHANGED <<available_targets, target_history>>
    BY <1>6 DEF ReapOther
  <2>2. /\ task_all # <<>> /\ Head1.kind # "change_directory"
        /\ Tail(task_all) \in Seq(Jobs)
        /\ at' = "task_start" /\ cwd' = cwd
    <3>1. PICK k \in {"logged", "finish"} : Reaped(k)
      BY <2>1
    <3>2. /\ task_all # <<>> /\ Head1.kind = k
          /\ Tail(task_all) \in Seq(Jobs)
          /\ at' = "task_start" /\ cwd' = cwd
      BY <3>1, ReapedStep
    <3>3. QED
      BY <3>2
  <2>3. HistorySaved'
    BY <2>1, SavedUnchanged DEF InOrder
  <2>4. task_all' = Tail(task_all) \o <<>>
    BY <1>1, <2>1, <2>2
  <2>5. \A i \in DOMAIN <<>> : <<>>[i].kind \notin {"list", "make"}
    OBVIOUS
  <2>6. QED
    BY <1>1, <2>1, <2>2, <2>3, <2>4, <2>5, OrderOfRest
<1>7. QED
  BY <1>2, <1>3, <1>4, <1>5, <1>6

\* Who waits gives work to an empty queue.
LEMMA OrderOfUser ==
    ASSUME Lawful, InOrder, ~ hasty',
           \/ Build \/ BuildAgain \/ BuildOther \/ Drop
           \/ \E d \in Dirs : ChangeDirectory(d) \/ ChangeDirectoryOnly(d)
           \/ Clear \/ OpenLog \/ Click
    PROVE  InOrder'
<1>0. task_all \in Seq(Jobs) /\ \A q \in Seq(Jobs) : <<>> \o q = q
  BY ConcatEmptySeq DEF Lawful, TypeOK
<1>1. ASSUME NEW s \in Seq(Jobs), Longer(s)
      PROVE  task_all = <<>> /\ task_all' = s /\ at' # "nested"
  <2>1. /\ hasty' = (hasty \/ task_all # <<>>) /\ task_all' = task_all \o s
        /\ at' = IF running THEN "main_loop" ELSE "task_start"
    BY <1>1 DEF Longer
  <2>2. task_all = <<>>
    BY <2>1
  <2>3. QED
    BY <1>0, <2>1, <2>2
<1>2. CASE Build \/ BuildAgain \/ BuildOther \/ Drop
  <2>1. PICK s \in Seq(Jobs) :
           /\ Longer(s) /\ UNCHANGED Rest
           /\ InPlace(s, cwd)
           /\ \A i \in DOMAIN s : s[i].kind # "list"
    BY <1>2, GivenStep
  <2>2. task_all' = s /\ at' # "nested"
        /\ UNCHANGED <<cwd, available_targets, target_history>>
    BY <1>1, <2>1 DEF Rest
  <2>3. \A x : On(task_all', x) => x.kind # "list"
    BY <2>1, <2>2 DEF On
  <2>4. EmptyUntilListed'
    BY <2>2, <2>3 DEF EmptyUntilListed
  <2>5. HistorySaved'
    BY <2>2, SavedUnchanged DEF InOrder
  <2>6. QED
    BY <2>1, <2>2, <2>4, <2>5 DEF InOrder, WillBeMadeWhereChosen
<1>3. ASSUME NEW d \in Dirs, ChangeDirectory(d)
      PROVE  InOrder'
  <2>1. target_history' = <<>>
    BY <1>3, ChangeStep
  <2>2. PICK s \in Seq(Jobs) :
           Longer(s) /\ \A i \in DOMAIN s : s[i].kind # "make"
    BY <1>3, ChangeStep
  <2>3. task_all' = s /\ at' # "nested"
    BY <1>1, <2>2
  <2>4. \A x : On(task_all', x) => x.kind # "make"
    BY <2>2, <2>3 DEF On
  <2>5. EmptyUntilListed'
    BY <2>1, <2>4 DEF EmptyUntilListed
  <2>6. InPlace(task_all', cwd')
    BY <2>2, <2>3, InPlaceNothing
  <2>7. QED
    BY <2>1, <2>3, <2>5, <2>6, NothingSaved DEF InOrder, WillBeMadeWhereChosen
<1>4. ASSUME NEW d \in Dirs, ChangeDirectoryOnly(d)
      PROVE  InOrder'
  <2>1. /\ at = "main_loop" /\ at' = at
        /\ hasty' = (hasty \/ task_all # <<>>)
        /\ target_history' = <<>>
    BY <1>4, ChangeOnlyStep
  <2>2. PICK s \in Seq(Jobs) :
           /\ task_all' = task_all \o s
           /\ \A i \in DOMAIN s : s[i].kind = "logged"
    BY <1>4, ChangeOnlyStep
  <2>3. task_all' = s
    BY <1>0, <2>1, <2>2
  <2>4. \A x : On(task_all', x) => x.kind = "logged"
    BY <2>2, <2>3 DEF On
  <2>5. EmptyUntilListed'
    BY <2>1, <2>4 DEF EmptyUntilListed
  <2>6. InPlace(task_all', cwd')
    BY <2>2, <2>3, InPlaceNothing
  <2>7. QED
    BY <2>1, <2>5, <2>6, NothingSaved DEF InOrder, WillBeMadeWhereChosen
<1>5. CASE Clear \/ OpenLog \/ Click
  <2>1. UNCHANGED <<at, task_all, cwd, available_targets, target_history>>
    BY <1>5 DEF Clear, OpenLog, Click
  <2>2. HistorySaved'
    BY <2>1, SavedUnchanged DEF InOrder
  <2>3. QED
    BY <2>1, <2>2
       DEF InOrder, EmptyUntilListed, WillBeMadeWhereChosen, Head1
<1>6. QED
  BY <1>2, <1>3, <1>4, <1>5

\* Who has given work to a queue at work stays hasty.
LEMMA HastyStays ==
    ASSUME Lawful, [Next]_vars, hasty
    PROVE  hasty'
<1>1. CASE Build \/ BuildAgain \/ BuildOther \/ Drop
  <2>1. PICK s \in Seq(Jobs) : Longer(s)
    BY <1>1, GivenStep
  <2>2. QED
    BY <2>1 DEF Longer
<1>2. ASSUME NEW d \in Dirs, ChangeDirectory(d)
      PROVE  hasty'
  <2>1. PICK s \in Seq(Jobs) : Longer(s)
    BY <1>2, ChangeStep
  <2>2. QED
    BY <2>1 DEF Longer
<1>3. ASSUME NEW d \in Dirs, ChangeDirectoryOnly(d)
      PROVE  hasty'
  BY <1>3, ChangeOnlyStep
<1>4. CASE Clear \/ OpenLog \/ Click \/ EndDirectory \/ EndStart
  BY <1>4 DEF Clear, OpenLog, Click, EndDirectory, EndStart
<1>5. CASE ReapMake \/ ReapList \/ ReapOther
  <2>1. \E k : Reaped(k)
    BY <1>5 DEF ReapMake, ReapList, ReapOther
  <2>2. QED
    BY <2>1, ReapedStep
<1>6. CASE StartMake \/ StartLogged \/ StartQuietly \/ StartDirectory
           \/ StartDirectoryList
  <2>1. \E k : Starts(k)
    BY <1>6
       DEF StartMake, StartLogged, StartQuietly, StartDirectory, StartDirectoryList
  <2>2. QED
    BY <2>1, StartsStep
<1>7. CASE AbortQueue
  <2>1. Starts("change_directory")
    BY <1>7, Zenon DEF AbortQueue
  <2>2. QED
    BY <2>1, StartsStep
<1>8. CASE UNCHANGED vars
  BY <1>8 DEF vars
<1>9. QED
  BY <1>1, <1>2, <1>3, <1>4, <1>5, <1>6, <1>7, <1>8 DEF Next

Orderly == Lawful /\ (~ hasty => InOrder)

LEMMA OrderKept ==
    ASSUME Lawful, ~ hasty => InOrder, [Next]_vars
    PROVE  ~ hasty' => InOrder'
<1> SUFFICES ASSUME ~ hasty'
             PROVE  InOrder'
  OBVIOUS
<1>1. InOrder
  BY HastyStays
<1>2. CASE Next
  <2>1. \/ StartMake \/ StartLogged \/ StartQuietly
        \/ StartDirectory \/ StartDirectoryList \/ AbortQueue
        \/ EndDirectory \/ EndStart \/ ReapMake \/ ReapList \/ ReapOther
        \/ Build \/ BuildAgain \/ BuildOther \/ Drop
        \/ \E d \in Dirs : ChangeDirectory(d) \/ ChangeDirectoryOnly(d)
        \/ Clear \/ OpenLog \/ Click
    BY <1>2 DEF Next
  <2>2. QED
    BY <1>1, <2>1, OrderOfStart, OrderOfDirectory, OrderOfEnd, OrderOfUser
<1>3. CASE UNCHANGED vars
  <2>1. UNCHANGED <<at, task_all, cwd, available_targets, target_history>>
    BY <1>3 DEF vars
  <2>2. HistorySaved'
    BY <1>1, <2>1, SavedUnchanged DEF InOrder
  <2>3. QED
    BY <1>1, <2>1, <2>2
       DEF InOrder, EmptyUntilListed, WillBeMadeWhereChosen, Head1
<1>4. QED
  BY <1>2, <1>3

LEMMA InitOrder ==
    ASSUME Init
    PROVE  InOrder
<1>1. at = "main_loop" /\ task_all = <<>> /\ target_history = <<>>
  BY DEF Init
<1>2. \A x : ~ On(task_all, x)
  BY <1>1 DEF On
<1>3. HistorySaved
  BY <1>1 DEF HistorySaved, ToSet, IsInjective
<1>4. InPlace(task_all, cwd)
  BY <1>1, InPlaceEmpty
<1>5. QED
  BY <1>1, <1>2, <1>3, <1>4
     DEF InOrder, EmptyUntilListed, WillBeMadeWhereChosen

\* For a user who waits for the queue: what is queued after a change of
\* directory and its list finds that list, an empty history, and the directory
\* it was chosen for.  (change_directory_start, dnd_handle_uri_list)
THEOREM QueueOrderly == Spec => []Orderly
<1>1. Init => Orderly
  BY InitLawful, InitOrder DEF Orderly
<1>2. Lawful /\ Orderly /\ [Next]_vars /\ Lawful' => Orderly'
  BY OrderKept DEF Orderly
<1>3. QED
  BY <1>1, <1>2, WindowLawful, PTL DEF Spec

\* For a user who waits for the queue, what the history offers are targets
\* that can be made, each once, and no name that set_targets() has freed.
\* (add_target_history, clear_target_history, set_targets)
THEOREM HistoryIsAvailable == Spec => []HistoryAvailable
<1>1. Orderly => HistoryAvailable
  BY DEF Orderly, InOrder, HistoryAvailable
<1>2. QED
  BY <1>1, QueueOrderly, PTL

\* For such a user a target is made in the directory in which it was chosen or
\* in that of the file that was dropped, however many changes of directory
\* have been queued with it.  (dnd_handle_uri_list, change_directory)
THEOREM TargetsMadeWhereChosen == Spec => MadeWhereChosen
<1>1. ASSUME Orderly, StartMake, ~ hasty
      PROVE  Head1.dir = cwd
  <2>1. Starts("make")
    BY <1>1 DEF StartMake
  <2>2. task_all # <<>> /\ Head1.kind = "make"
    BY <1>1, <2>1, StartsStep DEF Orderly
  <2>3. task_all \in Seq(Jobs) /\ InPlace(task_all, cwd)
    BY <1>1 DEF Orderly, Lawful, TypeOK, InOrder, WillBeMadeWhereChosen
  <2>4. QED
    BY <2>2, <2>3, InPlaceHead DEF Head1
<1>2. Orderly => [StartMake /\ ~ hasty => Head1.dir = cwd]_vars
  BY <1>1
<1>3. QED
  BY <1>2, QueueOrderly, PTL DEF MadeWhereChosen
=============================================================================
