------------------------------ MODULE LogProofs ------------------------------
(***************************************************************************)
(* What the log promises, for any directories, levels of make, kinds of    *)
(* line, view flags and number of records.                                 *)
(***************************************************************************)
EXTENDS Log, SequenceFacts, FunctionTheorems, FiniteSetTheorems

Codes == {"INFORMATION", "WARNING", "ERROR", "PUSHDIR", "POPDIR",
          "BUILDSTART"}
Files == Dirs \cup {NoFile, Source}
Contexts == {NoContext} \cup Seq(Dirs)

LogLines == Lines \cup {StartLine}

FilterStates == {NoState, "Nmipspro1", "Nmipspro2"}

Recs == [line : LogLines, code : Codes, summary : {"none", "text", "empty"},
         file : Files, depth : 0..MaxDepth, context : Contexts]

Results == [code : Codes \cup {"UNDEFINED"}, pending : BOOLEAN,
            summary : {"none", "text", "empty"},
            file : Files, depth : 0..MaxDepth]

Says == {Plain} \cup (Nat \X Nat)
Rows == [under : Int, says : Says]
Views == [rows : Seq(Rows), stack : Seq(Int), astray : BOOLEAN]

TypeOK ==
    /\ writers \in SUBSET {"build", "file"}
    /\ log \in Seq(Recs)
    /\ rows \in Seq(Rows) /\ Len(rows) = Len(log)
    /\ log_node_stack \in Seq(Int)
    /\ dir_stack \in [1..MaxDepth -> Seq(Dirs)]
    /\ dir_max_depth \in 0..MaxDepth
    /\ context \in Contexts /\ context_dirty \in BOOLEAN
    /\ filter_state \in FilterStates
    /\ res \in Results /\ pending \in Seq(Lines)
    /\ num_errors \in Nat /\ num_warnings \in Nat
    /\ num_ew_changed \in BOOLEAN
    /\ counted \in Nat \X Nat
    /\ log_flags \in SUBSET Flags
    /\ astray \in BOOLEAN

-------------------------------------------------------------------------------
(***************************************************************************)
(* The tree.                                                               *)
(***************************************************************************)
LEMMA LeastElsewhere ==
    ASSUME NEW stk \in Seq(Int), NEW recs, Elsewhere(stk, recs) # {}
    PROVE  Min(Elsewhere(stk, recs)) \in 2..Len(stk)
<1>1. Elsewhere(stk, recs) \in SUBSET 2..Len(stk)
  BY DEF Elsewhere
<1>2. Elsewhere(stk, recs) \in SUBSET Nat
  BY <1>1
<1>3. Min(Elsewhere(stk, recs)) \in Elsewhere(stk, recs)
  BY <1>2, LeastOf
<1> QED
  BY <1>1, <1>3

\* The row that a record is put under is one of the stack, or none.
LEMMA NodeOfStack ==
    ASSUME NEW stk \in Seq(Int), NEW recs
    PROVE  \/ log_current_unique_node(stk, recs) = Top
           \/ \E i \in DOMAIN stk : log_current_unique_node(stk, recs) = stk[i]
<1>1. CASE stk = <<>>
  BY <1>1 DEF log_current_unique_node
<1>2. CASE stk # <<>> /\ Len(stk) = 1
  <2>1. 1 \in DOMAIN stk
    BY <1>2
  <2> QED
    BY <1>2, <2>1 DEF log_current_unique_node
<1>3. CASE Len(stk) > 1
  <2>1. 1 \in DOMAIN stk /\ Len(stk) # 1
    BY <1>3
  <2>2. stk # <<>>
    BY <1>3, EmptySeq
  <2>3. log_current_unique_node(stk, recs) =
           IF stk[1] = Freed \/ recs[stk[1]].code # "PUSHDIR" THEN stk[1]
           ELSE IF Elsewhere(stk, recs) = {} THEN Top
           ELSE stk[Min(Elsewhere(stk, recs)) - 1]
    BY <1>3, <2>1, <2>2 DEF log_current_unique_node
  <2>4. Elsewhere(stk, recs) # {} =>
           Min(Elsewhere(stk, recs)) - 1 \in DOMAIN stk
    BY LeastElsewhere
  <2> QED
    BY <2>1, <2>3, <2>4
<1>4. stk = <<>> \/ (stk # <<>> /\ Len(stk) = 1) \/ Len(stk) > 1
  <2>1. stk # <<>> => Len(stk) \in Nat \ {0}
    BY EmptySeq
  <2>2. \A n \in Nat \ {0} : n = 1 \/ n > 1
    OBVIOUS
  <2> QED
    BY <2>1, <2>2, Zenon
<1> QED
  BY <1>1, <1>2, <1>3, <1>4

\* No record is astray while the stack holds none that has been freed.
LEMMA NotAstray ==
    ASSUME NEW stk \in Seq(Int), NEW recs,
           \A i \in DOMAIN stk : stk[i] # Freed
    PROVE  /\ ~ LooksAtFreed(stk, recs)
           /\ log_current_unique_node(stk, recs) # Freed
<1>1. Len(stk) > 1 => 1 \in DOMAIN stk
  OBVIOUS
<1>2. Elsewhere(stk, recs) # {} => Min(Elsewhere(stk, recs)) \in DOMAIN stk
  BY LeastElsewhere
<1>3. ~ LooksAtFreed(stk, recs)
  BY <1>1, <1>2 DEF LooksAtFreed
<1>4. log_current_unique_node(stk, recs) # Freed
  BY NodeOfStack DEF Top, Freed
<1> QED
  BY <1>3, <1>4

\* Showing one record adds one row, which tells no counts.
LEMMA ShowOne ==
    ASSUME NEW v \in Views, NEW recs \in Seq(Recs), NEW flags,
           NEW i \in DOMAIN recs
    PROVE  LET w == log_show_rec(v, recs, flags, i)
           IN /\ w \in Views
              /\ Len(w.rows) = Len(v.rows) + 1
              /\ \A j \in DOMAIN v.rows : w.rows[j] = v.rows[j]
              /\ w.rows[Len(v.rows) + 1].says = Plain
<1> DEFINE r == recs[i]
           parent == IF r.code = "BUILDSTART" THEN Top
                     ELSE log_current_unique_node(v.stack, recs)
           row == Row(IF Shown(r, flags) THEN parent ELSE Hidden)
           stk == CASE r.code = "BUILDSTART" -> <<i>>
                    [] r.code = "PUSHDIR" /\ "LF_INDENT_DIRS" \in flags ->
                          <<i>> \o v.stack
                    [] r.code = "POPDIR" /\ "LF_INDENT_DIRS" \in flags
                       /\ v.stack # <<>> -> Tail(v.stack)
                    [] OTHER -> v.stack
           lost == \/ v.astray
                   \/ LooksAtFreed(v.stack, recs)
                   \/ Shown(r, flags) /\ parent = Freed
           w == log_show_rec(v, recs, flags, i)
<1>1. w = [rows |-> Append(v.rows, row), stack |-> stk, astray |-> lost]
  BY DEF log_show_rec
<1>2. v.rows \in Seq(Rows) /\ v.stack \in Seq(Int) /\ v.astray \in BOOLEAN
  BY DEF Views
<1>3. parent \in Int
  <2>1. Top \in Int
    BY DEF Top
  <2>2. log_current_unique_node(v.stack, recs) \in Int
    BY <1>2, <2>1, NodeOfStack
  <2> QED
    BY <2>1, <2>2
<1>4. row \in Rows /\ row.says = Plain
  BY <1>3 DEF Row, Rows, Says, Hidden
<1>5. stk \in Seq(Int)
  <2>1. i \in Int
    OBVIOUS
  <2>2. <<i>> \in Seq(Int) /\ <<i>> \o v.stack \in Seq(Int)
    BY <1>2, <2>1
  <2>3. v.stack # <<>> => Tail(v.stack) \in Seq(Int)
    BY <1>2
  <2> QED
    BY <1>2, <2>2, <2>3
<1>6. lost \in BOOLEAN
  OBVIOUS
<1> HIDE DEF r, parent, row, stk, lost
<1>7. w \in Views
  BY <1>1, <1>2, <1>4, <1>5, <1>6 DEF Views
<1>8. /\ Len(w.rows) = Len(v.rows) + 1
      /\ \A j \in DOMAIN v.rows : w.rows[j] = v.rows[j]
      /\ w.rows[Len(v.rows) + 1] = row
  BY <1>1, <1>2, <1>4
<1> QED
  BY <1>4, <1>7, <1>8

-------------------------------------------------------------------------------
(***************************************************************************)
(* What the log says of the directories, and what the program makes of it. *)
(***************************************************************************)
\* The build, or the log file, that the record at place k belongs to.
BeginOf(recs, k) == Max({0} \cup {i \in 1..k : recs[i].code = "BUILDSTART"})
Since(recs, k) == BeginOf(recs, k) + 1..k

\* The directories entered and left since its start, by code ...
Coded(recs, k, c) == {i \in Since(recs, k) : recs[i].code = c}
CodedAt(recs, k, c, f, d) ==
    {i \in Coded(recs, k, c) : recs[i].file = f /\ recs[i].depth = d}

\* ... and by text.
Said(recs, k, kind, f, d) ==
    {i \in Since(recs, k) : recs[i].line = Line(kind, f, d)}

Levels == 1..MaxDepth

\* The records that were added together have the codes of their lines.
LogShape(recs) ==
    /\ recs # <<>> => recs[1].code = "BUILDSTART"
    /\ \A i \in DOMAIN recs :
          /\ recs[i].code = "BUILDSTART" <=> recs[i].line = StartLine
          /\ recs[i].code \in {"PUSHDIR", "POPDIR"} =>
                recs[i].file \in Dirs /\ recs[i].depth \in Levels

\* All that was said was understood.
Understood(recs) ==
    \A f \in Dirs, d \in Levels :
        /\ Cardinality(Said(recs, Len(recs), "enter", f, d))
             = Cardinality(CodedAt(recs, Len(recs), "PUSHDIR", f, d))
        /\ Cardinality(Said(recs, Len(recs), "leave", f, d))
             = Cardinality(CodedAt(recs, Len(recs), "POPDIR", f, d))

\* Nobody left a directory that nobody was in.
NeverStray(recs) ==
    \A k \in DOMAIN recs : \A f \in Dirs, d \in Levels :
        Cardinality(CodedAt(recs, k, "POPDIR", f, d))
          <= Cardinality(CodedAt(recs, k, "PUSHDIR", f, d))

DirsInv == LogShape(log) /\ Understood(log) /\ NeverStray(log)

Depth(recs, k) == Cardinality(Coded(recs, k, "PUSHDIR"))
                    - Cardinality(Coded(recs, k, "POPDIR"))

\* The stack when the record at place k has been shown.
StackFits(stk, recs, k, flags) ==
    /\ stk \in Seq(1..k)
    /\ Len(stk) = 1 + (IF "LF_INDENT_DIRS" \in flags THEN Depth(recs, k) ELSE 0)
    /\ stk[Len(stk)] = BeginOf(recs, k)

Held == {line \in Lines : line.kind \in {"cfe", "indented", "caret"}}

FilterInv ==
    /\ pending \in Seq(Held)
    /\ pending = <<>> => filter_state = NoState /\ ~ res.pending
    /\ filter_state # NoState => res.pending
    /\ res.pending => res.code = "ERROR"

\* Commands that are not killed while make is in a directory ...
Settled == "killed inside" \notin Circumstances

\* A command, or a log file, writes to a log that has its start.
WritersInv ==
    /\ writers # {"build", "file"}
    /\ writers # {} => log # <<>>
    /\ writers = {} /\ log # <<>> /\ Settled => Depth(log, Len(log)) = 0

StackInv ==
    /\ log # <<>> => StackFits(log_node_stack, log, Len(log), log_flags)
    /\ log = <<>> /\ Settled => Len(log_node_stack) <= 1
    /\ Settled => ~ astray

\* What belongs to the build that starts at place i.
Tally(recs, i, c) ==
    {j \in i+1..Len(recs) : recs[j].code = c /\ BeginOf(recs, j) = i}

\* The text of a row tells nothing, or the counts of its build.
Tells(row, recs, i) ==
    \/ row.says = Plain
    \/ /\ recs[i].code = "BUILDSTART"
       /\ row.says = <<Cardinality(Tally(recs, i, "ERROR")),
                       Cardinality(Tally(recs, i, "WARNING"))>>

CountInv ==
    LET now == <<num_errors, num_warnings>> IN
    /\ log # <<>> =>
          /\ Cardinality(Coded(log, Len(log), "ERROR")) = num_errors
          /\ Cardinality(Coded(log, Len(log), "WARNING")) = num_warnings
    /\ "build" \in writers /\ now # <<0, 0>> => counted = now
    /\ \A i \in DOMAIN log : Tells(rows[i], log, i)

LogInv == TypeOK /\ FilterInv /\ DirsInv /\ WritersInv /\ StackInv /\ CountInv

-------------------------------------------------------------------------------
(***************************************************************************)
(* Counting.                                                               *)
(***************************************************************************)
LEMMA SmallerInjects ==
    ASSUME NEW A, NEW B, IsFiniteSet(A), IsFiniteSet(B),
           Cardinality(A) <= Cardinality(B)
    PROVE  \E f : f \in Injection(A, B)
<1>1. /\ Cardinality(A) \in Nat /\ ExistsBijection(1..Cardinality(A), A)
      /\ Cardinality(B) \in Nat /\ ExistsBijection(1..Cardinality(B), B)
  BY FS_CardinalityType
<1>2. PICK h \in Bijection(1..Cardinality(B), B) : TRUE
  BY <1>1 DEF ExistsBijection
<1>3. PICK p \in Bijection(1..Cardinality(A), A) : TRUE
  BY <1>1 DEF ExistsBijection
<1>4. PICK i \in Bijection(A, 1..Cardinality(A)) : TRUE
  BY <1>3, Fun_BijInverse
<1> DEFINE f == [x \in A |-> h[i[x]]]
<1>5. \A x \in A : i[x] \in 1..Cardinality(B)
  <2>1. i \in [A -> 1..Cardinality(A)]
    BY <1>4, Fun_BijectionProperties
  <2> QED
    BY <1>1, <2>1
<1>6. \A j, k \in 1..Cardinality(B) : h[j] \in B /\ (h[j] = h[k] => j = k)
  <2>1. /\ h \in [1..Cardinality(B) -> B]
        /\ \A j, k \in 1..Cardinality(B) : h[j] = h[k] => j = k
    BY <1>2, Fun_BijectionProperties
  <2> QED
    BY <2>1
<1>7. \A x, y \in A : i[x] = i[y] => x = y
  BY <1>4, Fun_BijectionProperties
<1>8. f \in Injection(A, B)
  <2>1. f \in [A -> B] /\ \A x, y \in A : f[x] = f[y] => x = y
    BY <1>5, <1>6, <1>7
  <2> QED
    BY <2>1, Fun_IsInj
<1> QED
  BY <1>8

\* What is not more numerous in any class is not more numerous.
LEMMA NotMore ==
    ASSUME NEW A, NEW B, NEW g, IsFiniteSet(A), IsFiniteSet(B),
           \A x \in A : Cardinality({y \in A : g[y] = g[x]})
                          <= Cardinality({y \in B : g[y] = g[x]})
    PROVE  Cardinality(A) <= Cardinality(B)
<1> DEFINE AC(c) == {y \in A : g[y] = c}
           BC(c) == {y \in B : g[y] = c}
           h(c) == CHOOSE f : f \in Injection(AC(c), BC(c))
           F == [x \in A |-> h(g[x])[x]]
<1>1. ASSUME NEW x \in A
      PROVE  h(g[x]) \in Injection(AC(g[x]), BC(g[x]))
  <2>1. IsFiniteSet(AC(g[x])) /\ IsFiniteSet(BC(g[x]))
    BY FS_Subset
  <2>2. \E f : f \in Injection(AC(g[x]), BC(g[x]))
    BY <2>1, SmallerInjects
  <2> QED
    BY <2>2
<1> HIDE DEF h
<1>2. ASSUME NEW x \in A
      PROVE  F[x] \in B /\ g[F[x]] = g[x]
  <2>1. x \in AC(g[x]) /\ F[x] = h(g[x])[x]
    OBVIOUS
  <2>2. F[x] \in BC(g[x])
    <3> HIDE DEF F, AC, BC
    <3> QED
      BY <1>1, <2>1, Fun_InjectionProperties
  <2> QED
    BY <2>2
<1>3. ASSUME NEW x \in A, NEW y \in A, F[x] = F[y]
      PROVE  x = y
  <2>1. g[x] = g[y]
    BY <1>2, <1>3
  <2>2. /\ x \in AC(g[x]) /\ y \in AC(g[x])
        /\ h(g[x])[x] = h(g[x])[y]
    BY <1>3, <2>1
  <2> HIDE DEF F, AC, BC
  <2> QED
    BY <1>1, <2>2, Fun_InjectionProperties
<1>4. F \in Injection(A, B)
  <2>1. F \in [A -> B]
    BY <1>2
  <2> HIDE DEF F
  <2> QED
    BY <1>3, <2>1, Fun_IsInj
<1> QED
  <2> HIDE DEF F
  <2> QED
    BY <1>4, FS_Injection

\* As many, shifted.
LEMMA AsManyShifted ==
    ASSUME NEW A \in SUBSET Int, NEW B \in SUBSET Int, NEW s \in Int,
           IsFiniteSet(A), \A i \in A : i + s \in B, \A j \in B : j - s \in A
    PROVE  Cardinality(A) = Cardinality(B)
<1> DEFINE f == [i \in A |-> i + s]
<1>1. f \in [A -> B]
  OBVIOUS
<1>2. \A i, j \in A : f[i] = f[j] => i = j
  OBVIOUS
<1>3. \A j \in B : j - s \in A /\ f[j - s] = j
  OBVIOUS
<1>4. f \in Bijection(A, B)
  <2> HIDE DEF f
  <2> QED
    BY <1>1, <1>2, <1>3, Fun_IsBij
<1> QED
  <2> HIDE DEF f
  <2> QED
    BY <1>4, FS_Bijection DEF ExistsBijection

\* What is in a row, and what follows it.
LEMMA CountOne ==
    ASSUME NEW A, NEW k, IsFiniteSet(A), k \notin A
    PROVE  /\ Cardinality(A) \in Nat
           /\ IsFiniteSet(A \cup {k})
           /\ Cardinality(A \cup {k}) = Cardinality(A) + 1
  BY FS_AddElement, FS_CardinalityType

-------------------------------------------------------------------------------
(***************************************************************************)
(* The place where a build begins.                                         *)
(***************************************************************************)
Begins(recs, k, m) ==
    /\ m \in 0..k
    /\ m # 0 => recs[m].code = "BUILDSTART"
    /\ \A i \in m+1..k : recs[i].code # "BUILDSTART"

LEMMA BeginIs ==
    ASSUME NEW recs, NEW k \in Nat
    PROVE  /\ Begins(recs, k, BeginOf(recs, k))
           /\ \A m \in 0..k : Begins(recs, k, m) => m = BeginOf(recs, k)
<1> DEFINE S == {0} \cup {i \in 1..k : recs[i].code = "BUILDSTART"}
<1>1. S \in SUBSET 0..k /\ S # {}
  OBVIOUS
<1>2. Max(S) \in S /\ \A j \in S : j <= Max(S)
  <2> HIDE DEF S
  <2> QED
    BY <1>1, GreatestOf
<1>3. BeginOf(recs, k) = Max(S)
  BY DEF BeginOf
<1> DEFINE n == Max(S)
<1>4. n \in S /\ \A j \in S : j <= n
  BY <1>2
<1> HIDE DEF n
<1>5. Begins(recs, k, n)
  <2>1. n \in 0..k
    BY <1>1, <1>4
  <2>2. n # 0 => recs[n].code = "BUILDSTART"
    BY <1>4
  <2>3. ASSUME NEW i \in n+1..k
        PROVE  recs[i].code # "BUILDSTART"
    <3>1. i \in 1..k /\ ~ (i <= n)
      BY <2>1
    <3> QED
      BY <1>4, <3>1
  <2> QED
    BY <2>1, <2>2, <2>3 DEF Begins
<1>6. ASSUME NEW m \in 0..k, Begins(recs, k, m)
      PROVE  m = n
  <2>1. m \in S
    BY <1>6 DEF Begins
  <2>2. n <= m
    <3>1. n > m => n \in m+1..k /\ n # 0
      BY <1>1, <1>4
    <3> QED
      BY <1>5, <1>6, <3>1 DEF Begins
  <2>3. m <= n /\ n \in 0..k
    BY <1>1, <1>4, <2>1
  <2> QED
    BY <2>2, <2>3
<1> QED
  BY <1>3, <1>5, <1>6 DEF n

\* A record starts a build, or it belongs to the same as the record before it.
LEMMA BeginStep ==
    ASSUME NEW recs, NEW k \in Nat \ {0}
    PROVE  /\ recs[k].code = "BUILDSTART" => BeginOf(recs, k) = k
           /\ recs[k].code # "BUILDSTART" =>
                 BeginOf(recs, k) = BeginOf(recs, k - 1)
<1>1. ASSUME recs[k].code = "BUILDSTART"
      PROVE  BeginOf(recs, k) = k
  <2>1. Begins(recs, k, k)
    BY <1>1 DEF Begins
  <2> QED
    BY <2>1, BeginIs
<1>2. ASSUME recs[k].code # "BUILDSTART"
      PROVE  BeginOf(recs, k) = BeginOf(recs, k - 1)
  <2> DEFINE m == BeginOf(recs, k - 1)
  <2>1. k - 1 \in Nat
    OBVIOUS
  <2>2. Begins(recs, k - 1, m)
    BY <2>1, BeginIs
  <2> HIDE DEF m
  <2>3. Begins(recs, k, m) /\ m \in 0..k
    <3>1. \A i \in m+1..k : i = k \/ i \in m+1..k-1
      BY <2>2 DEF Begins
    <3> QED
      BY <1>2, <2>2, <3>1 DEF Begins
  <2>4. m = BeginOf(recs, k)
    BY <2>3, BeginIs
  <2> QED
    BY <2>4 DEF m
<1> QED
  BY <1>1, <1>2

\* It depends on nothing that comes later.
LEMMA BeginAlike ==
    ASSUME NEW recs, NEW more, NEW k \in Nat,
           \A i \in 1..k : more[i].code = recs[i].code
    PROVE  BeginOf(more, k) = BeginOf(recs, k)
<1> DEFINE m == BeginOf(recs, k)
<1>1. Begins(recs, k, m)
  BY BeginIs
<1> HIDE DEF m
<1>2. Begins(more, k, m) /\ m \in 0..k
  <2>1. m \in 0..k /\ \A i \in m+1..k : i \in 1..k
    BY <1>1 DEF Begins
  <2> QED
    BY <1>1, <2>1 DEF Begins
<1>3. m = BeginOf(more, k)
  BY <1>2, BeginIs
<1> QED
  BY <1>3 DEF m

LEMMA SinceStep ==
    ASSUME NEW recs, NEW k \in Nat \ {0}
    PROVE  /\ recs[k].code = "BUILDSTART" => Since(recs, k) = {}
           /\ recs[k].code # "BUILDSTART" =>
                 Since(recs, k) = Since(recs, k - 1) \cup {k}
           /\ k \notin Since(recs, k - 1)
           /\ IsFiniteSet(Since(recs, k - 1)) /\ IsFiniteSet(Since(recs, k))
<1>1. k - 1 \in Nat
  OBVIOUS
<1>2. BeginOf(recs, k - 1) \in 0..k-1 /\ BeginOf(recs, k) \in 0..k
  BY <1>1, BeginIs DEF Begins
<1>3. recs[k].code = "BUILDSTART" => Since(recs, k) = {}
  BY BeginStep DEF Since
<1>4. recs[k].code # "BUILDSTART" => Since(recs, k) = Since(recs, k - 1) \cup {k}
  <2>1. SUFFICES ASSUME recs[k].code # "BUILDSTART"
                 PROVE  Since(recs, k) = Since(recs, k - 1) \cup {k}
    OBVIOUS
  <2>2. BeginOf(recs, k) = BeginOf(recs, k - 1)
    BY <2>1, BeginStep
  <2> DEFINE m == BeginOf(recs, k - 1)
  <2>3. m \in 0..k-1
    BY <1>2
  <2> HIDE DEF m
  <2>4. m+1..k = (m+1..k-1) \cup {k}
    BY <2>3
  <2> QED
    BY <2>2, <2>4 DEF Since, m
<1>5. k \notin Since(recs, k - 1)
  BY <1>2 DEF Since
<1>6. IsFiniteSet(Since(recs, k - 1)) /\ IsFiniteSet(Since(recs, k))
  <2>1. \A m \in Nat, n \in Nat : IsFiniteSet(m+1..n)
    BY FS_Interval
  <2> QED
    BY <1>1, <1>2, <2>1 DEF Since
<1> QED
  BY <1>3, <1>4, <1>5, <1>6

\* A is since the start of the build when B is, with one record more: nothing
\* if that record is the start, and one more if it counts.
GoesOn(A, B, starts, counts) ==
    /\ IsFiniteSet(B) /\ Cardinality(B) \in Nat
    /\ starts => Cardinality(B) = 0
    /\ ~ starts =>
          /\ Cardinality(A) \in Nat
          /\ Cardinality(B) = Cardinality(A) + (IF counts THEN 1 ELSE 0)

LEMMA CountSince ==
    ASSUME NEW recs, NEW k \in Nat \ {0}, NEW P, NEW A, NEW B,
           A = Since(recs, k - 1) \cap P, B = Since(recs, k) \cap P
    PROVE  GoesOn(A, B, recs[k].code = "BUILDSTART", k \in P)
<1>1. IsFiniteSet(A) /\ IsFiniteSet(B)
  BY SinceStep, FS_Subset
<1>2. Cardinality(A) \in Nat /\ Cardinality(B) \in Nat
  BY <1>1, FS_CardinalityType
<1>3. ASSUME recs[k].code = "BUILDSTART"
      PROVE  Cardinality(B) = 0
  <2>1. B = {}
    BY <1>3, SinceStep
  <2> QED
    BY <2>1, FS_EmptySet
<1>4. ASSUME recs[k].code # "BUILDSTART"
      PROVE  Cardinality(B) = Cardinality(A) + (IF k \in P THEN 1 ELSE 0)
  <2>1. k \notin A
    BY SinceStep
  <2>2. Since(recs, k) = Since(recs, k - 1) \cup {k}
    BY <1>4, SinceStep
  <2>3. /\ k \in P => B = A \cup {k}
        /\ k \notin P => B = A
    BY <2>2
  <2>4. Cardinality(A \cup {k}) = Cardinality(A) + 1
    BY <1>1, <2>1, CountOne
  <2>5. CASE k \in P
    BY <2>3, <2>4, <2>5
  <2>6. CASE k \notin P
    <3>1. Cardinality(A) = Cardinality(A) + 0
      BY <1>2
    <3> QED
      BY <2>3, <2>6, <3>1
  <2> QED
    BY <2>5, <2>6
<1> QED
  BY <1>1, <1>2, <1>3, <1>4 DEF GoesOn

LEMMA CodedStep ==
    ASSUME NEW recs, NEW k \in Nat \ {0}, NEW c
    PROVE  GoesOn(Coded(recs, k - 1, c), Coded(recs, k, c),
                  recs[k].code = "BUILDSTART",
                  recs[k].code = c)
<1> DEFINE P == {i \in Int : recs[i].code = c}
<1>1. \A j \in Nat : Since(recs, j) \subseteq Int
  BY DEF Since
<1>2. /\ Coded(recs, k, c) = Since(recs, k) \cap P
      /\ Coded(recs, k - 1, c) = Since(recs, k - 1) \cap P
  BY <1>1 DEF Coded
<1>3. GoesOn(Coded(recs, k - 1, c), Coded(recs, k, c),
             recs[k].code = "BUILDSTART", k \in P)
  <2> HIDE DEF P
  <2> QED
    BY <1>2, CountSince
<1> QED
  BY <1>3 DEF GoesOn

LEMMA CodedAtStep ==
    ASSUME NEW recs, NEW k \in Nat \ {0}, NEW c, NEW f, NEW d
    PROVE  GoesOn(CodedAt(recs, k - 1, c, f, d), CodedAt(recs, k, c, f, d),
                  recs[k].code = "BUILDSTART",
                  /\ recs[k].code = c
                  /\ recs[k].file = f /\ recs[k].depth = d)
<1> DEFINE P == {i \in Int : /\ recs[i].code = c
                             /\ recs[i].file = f /\ recs[i].depth = d}
<1>1. \A j \in Nat : Since(recs, j) \subseteq Int
  BY DEF Since
<1>2. /\ CodedAt(recs, k, c, f, d) = Since(recs, k) \cap P
      /\ CodedAt(recs, k - 1, c, f, d) = Since(recs, k - 1) \cap P
  BY <1>1 DEF Coded, CodedAt
<1>3. GoesOn(CodedAt(recs, k - 1, c, f, d), CodedAt(recs, k, c, f, d),
             recs[k].code = "BUILDSTART", k \in P)
  <2> HIDE DEF P
  <2> QED
    BY <1>2, CountSince
<1> QED
  BY <1>3 DEF GoesOn

LEMMA SaidStep ==
    ASSUME NEW recs, NEW k \in Nat \ {0}, NEW kind, NEW f, NEW d
    PROVE  GoesOn(Said(recs, k - 1, kind, f, d), Said(recs, k, kind, f, d),
                  recs[k].code = "BUILDSTART",
                  recs[k].line = Line(kind, f, d))
<1> DEFINE P == {i \in Int : recs[i].line = Line(kind, f, d)}
<1>1. \A j \in Nat : Since(recs, j) \subseteq Int
  BY DEF Since
<1>2. /\ Said(recs, k, kind, f, d) = Since(recs, k) \cap P
      /\ Said(recs, k - 1, kind, f, d) = Since(recs, k - 1) \cap P
  BY <1>1 DEF Said
<1>3. GoesOn(Said(recs, k - 1, kind, f, d), Said(recs, k, kind, f, d),
             recs[k].code = "BUILDSTART", k \in P)
  <2> HIDE DEF P
  <2> QED
    BY <1>2, CountSince
<1> QED
  BY <1>3 DEF GoesOn

\* What has been recorded stays as it is when more is.
SameUpTo(recs, more, k) == \A i \in 1..k : more[i] = recs[i]

Retells(recs, more, k) ==
    /\ BeginOf(more, k) = BeginOf(recs, k)
    /\ \A c : Coded(more, k, c) = Coded(recs, k, c)
    /\ \A c, f, d : CodedAt(more, k, c, f, d) = CodedAt(recs, k, c, f, d)
    /\ \A kind, f, d : Said(more, k, kind, f, d) = Said(recs, k, kind, f, d)

LEMMA Alike ==
    ASSUME NEW recs, NEW more, NEW k \in Nat, SameUpTo(recs, more, k)
    PROVE  Retells(recs, more, k)
<1>1. \A i \in 1..k : more[i] = recs[i]
  BY DEF SameUpTo
<1>2. \A i \in 1..k : more[i].code = recs[i].code
  BY <1>1
<1>3. BeginOf(more, k) = BeginOf(recs, k)
  BY <1>2, BeginAlike
<1>4. Since(more, k) = Since(recs, k) /\ Since(recs, k) \subseteq 1..k
  <2>1. BeginOf(recs, k) \in 0..k
    BY BeginIs DEF Begins
  <2> QED
    BY <1>3, <2>1 DEF Since
<1>5. \A c : Coded(more, k, c) = Coded(recs, k, c)
  BY <1>4, <1>2 DEF Coded
<1>6. \A c : Coded(recs, k, c) \subseteq 1..k
  BY <1>4 DEF Coded
<1>7. \A c, f, d : CodedAt(more, k, c, f, d) = CodedAt(recs, k, c, f, d)
  BY <1>1, <1>5, <1>6 DEF CodedAt
<1>8. \A kind, f, d : Said(more, k, kind, f, d) = Said(recs, k, kind, f, d)
  BY <1>1, <1>4 DEF Said
<1> QED
  BY <1>3, <1>5, <1>7, <1>8 DEF Retells

\* How deep the makes are.
LEMMA DepthStep ==
    ASSUME NEW recs, NEW k \in Nat \ {0}
    PROVE  /\ Depth(recs, k) \in Int
           /\ recs[k].code = "BUILDSTART" => Depth(recs, k) = 0
           /\ recs[k].code # "BUILDSTART" =>
                 /\ Depth(recs, k - 1) \in Int
                 /\ recs[k].code = "PUSHDIR" =>
                       Depth(recs, k) = Depth(recs, k - 1) + 1
                 /\ recs[k].code = "POPDIR" =>
                       Depth(recs, k) = Depth(recs, k - 1) - 1
                 /\ recs[k].code \notin {"PUSHDIR", "POPDIR"} =>
                       Depth(recs, k) = Depth(recs, k - 1)
<1>1. ASSUME NEW c
      PROVE  GoesOn(Coded(recs, k - 1, c), Coded(recs, k, c),
                    recs[k].code = "BUILDSTART", recs[k].code = c)
  BY CodedStep
<1> QED
  BY <1>1 DEF Depth, GoesOn

\* What is not more for any directory of any level, is not more in all.
LEMMA Classes ==
    ASSUME NEW recs \in Seq(Recs), LogShape(recs), NEW k \in DOMAIN recs,
           NEW c \in {"PUSHDIR", "POPDIR"}, NEW b \in {"PUSHDIR", "POPDIR"},
           \A f \in Dirs, d \in Levels :
               Cardinality(CodedAt(recs, k, c, f, d))
                 <= Cardinality(CodedAt(recs, k, b, f, d))
    PROVE  Cardinality(Coded(recs, k, c)) <= Cardinality(Coded(recs, k, b))
<1> DEFINE g == [i \in DOMAIN recs |-> <<recs[i].file, recs[i].depth>>]
           A == Coded(recs, k, c)
           B == Coded(recs, k, b)
<1>1. k \in Nat \ {0}
  OBVIOUS
<1>2. IsFiniteSet(A) /\ IsFiniteSet(B)
  BY <1>1, CodedStep DEF GoesOn
<1>3. \A m \in {b, c} : Coded(recs, k, m) \subseteq DOMAIN recs
  <2>1. BeginOf(recs, k) \in 0..k
    BY <1>1, BeginIs DEF Begins
  <2> QED
    BY <2>1 DEF Coded, Since
<1>4. ASSUME NEW x \in A
      PROVE  Cardinality({y \in A : g[y] = g[x]})
               <= Cardinality({y \in B : g[y] = g[x]})
  <2>1. x \in DOMAIN recs /\ recs[x].code = c
    BY <1>3 DEF Coded
  <2>2. recs[x].file \in Dirs /\ recs[x].depth \in Levels
    BY <2>1 DEF LogShape
  <2>3. \A y \in DOMAIN recs :
           g[y] = g[x] <=> /\ recs[y].file = recs[x].file
                           /\ recs[y].depth = recs[x].depth
    BY <2>1
  <2>4. /\ {y \in A : g[y] = g[x]}
             = CodedAt(recs, k, c, recs[x].file, recs[x].depth)
        /\ {y \in B : g[y] = g[x]}
             = CodedAt(recs, k, b, recs[x].file, recs[x].depth)
    <3> HIDE DEF g
    <3> QED
      BY <1>3, <2>3 DEF CodedAt
  <2> QED
    BY <2>2, <2>4
<1> QED
  <2> HIDE DEF g, A, B
  <2>1. Cardinality(A) <= Cardinality(B)
    BY <1>2, <1>4, NotMore
  <2> QED
    BY <2>1 DEF A, B

LEMMA DepthNat ==
    ASSUME NEW recs \in Seq(Recs), LogShape(recs), NeverStray(recs),
           NEW k \in DOMAIN recs
    PROVE  Depth(recs, k) \in Nat
<1>1. k \in Nat \ {0}
  OBVIOUS
<1>2. Cardinality(Coded(recs, k, "POPDIR"))
        <= Cardinality(Coded(recs, k, "PUSHDIR"))
  BY Classes DEF NeverStray
<1>3. /\ Cardinality(Coded(recs, k, "POPDIR")) \in Nat
      /\ Cardinality(Coded(recs, k, "PUSHDIR")) \in Nat
  BY <1>1, CodedStep DEF GoesOn
<1> QED
  BY <1>2, <1>3 DEF Depth

-------------------------------------------------------------------------------
(***************************************************************************)
(* Showing records.                                                        *)
(***************************************************************************)
\* What log_show_rec() makes of the stack.
Stacked(stk, r, flags, i) ==
    CASE r.code = "BUILDSTART" -> <<i>>
      [] r.code = "PUSHDIR" /\ "LF_INDENT_DIRS" \in flags -> <<i>> \o stk
      [] r.code = "POPDIR" /\ "LF_INDENT_DIRS" \in flags /\ stk # <<>> ->
            Tail(stk)
      [] OTHER -> stk

LEMMA ShowStacks ==
    ASSUME NEW v, NEW recs, NEW flags, NEW i
    PROVE  log_show_rec(v, recs, flags, i).stack
             = Stacked(v.stack, recs[i], flags, i)
  BY DEF log_show_rec, Stacked

LEMMA SeqWider ==
    ASSUME NEW k \in Nat \ {0}, NEW stk \in Seq(1..k-1)
    PROVE  stk \in Seq(1..k) /\ stk \in Seq(Int)
  OBVIOUS

\* Each record leaves the stack as it should be.
LEMMA StackStep ==
    ASSUME NEW recs \in Seq(Recs), NEW k \in DOMAIN recs, NEW flags, NEW stk,
           Depth(recs, k) \in Nat,
           \/ recs[k].code = "BUILDSTART"
           \/ /\ k > 1 /\ Depth(recs, k - 1) \in Nat
              /\ StackFits(stk, recs, k - 1, flags)
    PROVE  StackFits(Stacked(stk, recs[k], flags, k), recs, k, flags)
<1> DEFINE indents == "LF_INDENT_DIRS" \in flags
           new == Stacked(stk, recs[k], flags, k)
           old == BeginOf(recs, k - 1)
           c == recs[k].code
<1>1. k \in Nat \ {0}
  OBVIOUS
<1>2. ASSUME c = "BUILDSTART"
      PROVE  StackFits(new, recs, k, flags)
  <2>1. new = <<k>>
    BY <1>2 DEF Stacked
  <2>2. Depth(recs, k) = 0 /\ BeginOf(recs, k) = k
    BY <1>1, <1>2, DepthStep, BeginStep
  <2>3. /\ <<k>> \in Seq(1..k) /\ Len(<<k>>) = 1 /\ <<k>>[1] = k
    OBVIOUS
  <2> QED
    BY <2>1, <2>2, <2>3 DEF StackFits
<1>3. ASSUME c # "BUILDSTART"
      PROVE  StackFits(new, recs, k, flags)
  <2>1. /\ k > 1 /\ Depth(recs, k - 1) \in Nat
        /\ StackFits(stk, recs, k - 1, flags)
    BY <1>3
  <2>2. BeginOf(recs, k) = old
    BY <1>1, <1>3, BeginStep
  <2>3. /\ stk \in Seq(1..k) /\ stk[Len(stk)] = old
        /\ Len(stk) = 1 + (IF indents THEN Depth(recs, k - 1) ELSE 0)
    <3>1. stk \in Seq(1..k-1)
      BY <2>1 DEF StackFits
    <3> QED
      BY <1>1, <2>1, <3>1, SeqWider DEF StackFits
  <2>4. /\ Depth(recs, k - 1) \in Nat
        /\ c = "PUSHDIR" => Depth(recs, k) = Depth(recs, k - 1) + 1
        /\ c = "POPDIR" => Depth(recs, k) = Depth(recs, k - 1) - 1
        /\ c \notin {"PUSHDIR", "POPDIR"} => Depth(recs, k) = Depth(recs, k - 1)
    BY <1>1, <1>3, <2>1, DepthStep
  <2> HIDE DEF old
  <2>5. CASE c = "PUSHDIR" /\ indents
    <3>1. new = <<k>> \o stk
      BY <1>3, <2>5 DEF Stacked
    <3>2. <<k>> \in Seq(1..k) /\ Len(<<k>>) = 1
      OBVIOUS
    <3>3. Len(stk) \in Nat \ {0}
      BY <2>3, <2>4, <2>5
    <3>4. /\ new \in Seq(1..k) /\ Len(new) = Len(stk) + 1
          /\ new[Len(new)] = stk[Len(stk)]
      BY <2>3, <3>1, <3>2, <3>3, ConcatProperties
    <3> HIDE DEF new
    <3> QED
      BY <2>2, <2>3, <2>4, <2>5, <3>4 DEF StackFits
  <2>6. CASE c = "POPDIR" /\ indents
    <3>1. Len(stk) >= 2
      BY <2>3, <2>4, <2>6
    <3>2. stk # <<>>
      BY <3>1, EmptySeq
    <3>3. new = Tail(stk)
      BY <1>3, <2>6, <3>2 DEF Stacked
    <3>4. /\ new \in Seq(1..k) /\ Len(new) = Len(stk) - 1
          /\ \A i \in 1..Len(new) : new[i] = stk[i + 1]
      BY <2>3, <3>2, <3>3, HeadTailProperties
    <3>5. new[Len(new)] = stk[Len(stk)]
      <4>1. Len(stk) \in Nat
        BY <2>3
      <4>2. Len(new) \in 1..Len(new) /\ Len(new) + 1 = Len(stk)
        BY <3>1, <3>4, <4>1
      <4> HIDE DEF new
      <4> QED
        BY <3>4, <4>2
    <3> HIDE DEF new
    <3> QED
      BY <2>2, <2>3, <2>4, <2>6, <3>4, <3>5 DEF StackFits
  <2>7. CASE ~ indents \/ c \notin {"PUSHDIR", "POPDIR"}
    <3>1. new = stk
      BY <1>3, <2>7 DEF Stacked
    <3> QED
      BY <2>2, <2>3, <2>4, <2>7, <3>1 DEF StackFits
  <2> QED
    BY <2>5, <2>6, <2>7
<1> QED
  BY <1>2, <1>3

\* A stack that fits holds nothing that has been freed.
NoneFreed(stk) == \A i \in DOMAIN stk : stk[i] # Freed

LEMMA FitsNoneFreed ==
    ASSUME NEW stk, NEW recs, NEW k \in Nat, NEW flags,
           StackFits(stk, recs, k, flags)
    PROVE  NoneFreed(stk)
<1>1. stk \in Seq(1..k)
  BY DEF StackFits
<1>2. \A i \in DOMAIN stk : stk[i] \in 1..k
  BY <1>1
<1> QED
  BY <1>2 DEF NoneFreed, Freed

\* A start may be shown with a stack of at most one that has been freed.
MayShow(stk, recs, i) ==
    \/ NoneFreed(stk)
    \/ recs[i].code = "BUILDSTART" /\ Len(stk) <= 1

LEMMA StaysSound ==
    ASSUME NEW v \in Views, NEW recs, NEW flags, NEW i, MayShow(v.stack, recs, i)
    PROVE  log_show_rec(v, recs, flags, i).astray = v.astray
<1>1. v.stack \in Seq(Int) /\ v.astray \in BOOLEAN
  BY DEF Views
<1> DEFINE parent == IF recs[i].code = "BUILDSTART" THEN Top
                     ELSE log_current_unique_node(v.stack, recs)
<1>2. log_show_rec(v, recs, flags, i).astray =
         (\/ v.astray
          \/ LooksAtFreed(v.stack, recs)
          \/ Shown(recs[i], flags) /\ parent = Freed)
  BY DEF log_show_rec
<1>3. parent # Freed
  BY <1>1, NotAstray DEF MayShow, NoneFreed, Top, Freed
<1>4. ~ LooksAtFreed(v.stack, recs)
  <2>1. CASE NoneFreed(v.stack)
    BY <1>1, <2>1, NotAstray DEF NoneFreed
  <2>2. CASE Len(v.stack) <= 1
    BY <1>1, <2>2 DEF LooksAtFreed
  <2> QED
    BY <2>1, <2>2 DEF MayShow
<1> HIDE DEF parent
<1>5. CASE v.astray = TRUE
  BY <1>2, <1>5
<1>6. CASE v.astray = FALSE
  BY <1>2, <1>3, <1>4, <1>6
<1> QED
  BY <1>1, <1>5, <1>6

-------------------------------------------------------------------------------
(***************************************************************************)
(* Showing several, one after the other.                                   *)
(***************************************************************************)
IsShowing(g, v, recs, flags, i) ==
    g = [j \in (i - 1)..Len(recs) |->
            IF j = i - 1 THEN v ELSE log_show_rec(g[j - 1], recs, flags, j)]

LEMMA ShownFrom ==
    ASSUME NEW v, NEW recs, NEW flags, NEW i
    PROVE  ShowFrom(v, recs, flags, i)
             = (CHOOSE g : IsShowing(g, v, recs, flags, i))[Len(recs)]
  BY Zenon DEF ShowFrom, IsShowing

LEMMA ShowingExists ==
    ASSUME NEW v \in Views, NEW recs \in Seq(Recs), NEW flags,
           NEW i \in 1..Len(recs) + 1
    PROVE  \E g : IsShowing(g, v, recs, flags, i)
<1> DEFINE n == Len(recs)
           s == [p \in ((i-1)+1..n) \X Views |->
                    log_show_rec(p[2], recs, flags, p[1])]
<1>1. i - 1 \in Nat /\ n \in Nat /\ i - 1 <= n
  OBVIOUS
<1>2. \A j \in (i-1)+1..n, w \in Views :
         s[<<j, w>>] = log_show_rec(w, recs, flags, j)
  OBVIOUS
<1>3. s \in [((i-1)+1..n) \X Views -> Views]
  <2>1. \A p \in ((i-1)+1..n) \X Views :
           log_show_rec(p[2], recs, flags, p[1]) \in Views
    <3>1. ASSUME NEW j \in (i-1)+1..n, NEW w \in Views
          PROVE  log_show_rec(w, recs, flags, j) \in Views
      <4>1. j \in DOMAIN recs
        BY <1>1
      <4> QED
        BY <4>1, ShowOne
    <3>2. \A p \in ((i-1)+1..n) \X Views :
             p[1] \in (i-1)+1..n /\ p[2] \in Views
      OBVIOUS
    <3> QED
      BY <3>1, <3>2
  <2> QED
    BY <2>1
<1> HIDE DEF s
<1>4. PICK g \in [i-1..n -> Views] : IsLoop(g, i - 1, n, v, s)
  BY <1>1, <1>3, LoopExists
<1>5. ASSUME NEW j \in i-1..n, j # i - 1
      PROVE  g[j] = log_show_rec(g[j - 1], recs, flags, j)
  <2>1. j \in (i-1)+1..n /\ j - 1 \in i-1..n
    BY <1>1, <1>5
  <2>2. g[j - 1] \in Views
    BY <2>1
  <2> QED
    BY <1>2, <1>4, <2>1, <2>2 DEF IsLoop
<1>6. g[i - 1] = v
  BY <1>4 DEF IsLoop
<1>7. \A j \in i-1..n :
         g[j] = IF j = i - 1 THEN v ELSE log_show_rec(g[j - 1], recs, flags, j)
  BY <1>5, <1>6
<1>8. IsShowing(g, v, recs, flags, i)
  BY <1>7 DEF IsShowing
<1> QED
  BY <1>8

\* What has become of the view v when the records from i to j are shown.
After(w, v, recs, flags, i, j) ==
    /\ w \in Views
    /\ Len(w.rows) = Len(v.rows) + (j - (i - 1))
    /\ \A m \in DOMAIN v.rows : w.rows[m] = v.rows[m]
    /\ \A m \in DOMAIN w.rows : m > Len(v.rows) => w.rows[m].says = Plain
    /\ j = i - 1 => w = v
    /\ j >= i => StackFits(w.stack, recs, j, flags)
    /\ MayShow(v.stack, recs, i) => w.astray = v.astray

LEMMA AfterStep ==
    ASSUME NEW v \in Views, NEW recs \in Seq(Recs), NEW flags,
           NEW i \in 1..Len(recs), NEW j \in i..Len(recs), NEW w,
           \A k \in DOMAIN recs : Depth(recs, k) \in Nat,
           \/ recs[i].code = "BUILDSTART"
           \/ i > 1 /\ StackFits(v.stack, recs, i - 1, flags),
           After(w, v, recs, flags, i, j - 1)
    PROVE  After(log_show_rec(w, recs, flags, j), v, recs, flags, i, j)
<1> DEFINE x == log_show_rec(w, recs, flags, j)
<1>1. /\ w \in Views /\ j \in DOMAIN recs /\ j \in Nat \ {0}
      /\ Depth(recs, j) \in Nat /\ (j > 1 => Depth(recs, j - 1) \in Nat)
      /\ w.rows \in Seq(Rows) /\ v.rows \in Seq(Rows)
  <2>1. w \in Views
    BY Zenon DEF After
  <2>2. j \in DOMAIN recs /\ j \in Nat \ {0} /\ (j > 1 => j - 1 \in DOMAIN recs)
    OBVIOUS
  <2>3. w.rows \in Seq(Rows) /\ v.rows \in Seq(Rows)
    BY <2>1 DEF Views
  <2> QED
    BY <2>1, <2>2, <2>3
<1>2. /\ x \in Views
      /\ Len(x.rows) = Len(w.rows) + 1
      /\ \A k \in DOMAIN w.rows : x.rows[k] = w.rows[k]
      /\ x.rows[Len(w.rows) + 1].says = Plain
      /\ x.rows \in Seq(Rows)
  BY <1>1, ShowOne DEF Views
<1>3. StackFits(x.stack, recs, j, flags)
  <2>1. x.stack = Stacked(w.stack, recs[j], flags, j)
    BY ShowStacks
  <2>2. CASE j = i
    <3>1. w.stack = v.stack
      BY <2>2 DEF After
    <3> QED
      BY <1>1, <2>1, <2>2, <3>1, StackStep
  <2>3. CASE j # i
    <3>1. j > 1 /\ StackFits(w.stack, recs, j - 1, flags)
      BY <2>3 DEF After
    <3> QED
      BY <1>1, <2>1, <3>1, StackStep
  <2> QED
    BY <2>2, <2>3
<1>4. ASSUME MayShow(v.stack, recs, i)
      PROVE  x.astray = v.astray
  <2>1. w.astray = v.astray
    BY <1>4 DEF After
  <2>2. MayShow(w.stack, recs, j)
    <3>1. CASE j = i
      <4>1. w.stack = v.stack
        BY <3>1 DEF After
      <4> QED
        BY <1>4, <3>1, <4>1
    <3>2. CASE j # i
      <4>1. j - 1 \in Nat /\ StackFits(w.stack, recs, j - 1, flags)
        BY <3>2 DEF After
      <4> QED
        BY <4>1, FitsNoneFreed DEF MayShow
    <3> QED
      BY <3>1, <3>2
  <2> QED
    BY <1>1, <2>1, <2>2, StaysSound
<1> HIDE DEF x
<1>5. /\ Len(x.rows) = Len(v.rows) + (j - (i - 1))
      /\ \A k \in DOMAIN v.rows : x.rows[k] = v.rows[k]
      /\ \A k \in DOMAIN x.rows : k > Len(v.rows) => x.rows[k].says = Plain
  <2>1. /\ Len(w.rows) = Len(v.rows) + (j - 1 - (i - 1))
        /\ \A k \in DOMAIN v.rows : w.rows[k] = v.rows[k]
        /\ \A k \in DOMAIN w.rows : k > Len(v.rows) => w.rows[k].says = Plain
    BY DEF After
  <2>2. /\ Len(x.rows) = Len(v.rows) + (j - (i - 1))
        /\ Len(w.rows) \in Nat /\ Len(v.rows) \in Nat
        /\ Len(w.rows) >= Len(v.rows)
    <3>1. Len(w.rows) \in Nat /\ Len(v.rows) \in Nat
      BY <1>1
    <3>2. i \in Nat /\ j \in Nat /\ i <= j
      OBVIOUS
    <3>3. Len(w.rows) = Len(v.rows) + (j - 1 - (i - 1))
      BY <2>1
    <3>4. Len(x.rows) = Len(w.rows) + 1
      BY <1>2
    <3> DEFINE a == Len(w.rows)
               b == Len(v.rows)
               c == Len(x.rows)
    <3>5. /\ a \in Nat /\ b \in Nat /\ c = a + 1
          /\ a = b + (j - 1 - (i - 1))
      BY <3>1, <3>3, <3>4
    <3> HIDE DEF a, b, c
    <3>6. c = b + (j - (i - 1)) /\ a >= b
      BY <3>2, <3>5
    <3> QED
      BY <3>5, <3>6 DEF a, b, c
  <2>3. \A k \in DOMAIN v.rows : k \in DOMAIN w.rows
    <3>1. DOMAIN v.rows = 1..Len(v.rows) /\ DOMAIN w.rows = 1..Len(w.rows)
      BY <1>1
    <3>2. \A a, b \in Nat : a >= b => \A k \in 1..b : k \in 1..a
      OBVIOUS
    <3>3. \A k \in 1..Len(v.rows) : k \in 1..Len(w.rows)
      BY <2>2, <3>2
    <3> QED
      BY <3>1, <3>3, Zenon
  <2>4. \A k \in DOMAIN x.rows : k \in DOMAIN w.rows \/ k = Len(w.rows) + 1
    BY <1>1, <1>2
  <2> QED
    BY <1>2, <2>1, <2>2, <2>3, <2>4
<1>6. j # i - 1
  OBVIOUS
<1> QED
  BY <1>2, <1>3, <1>4, <1>5, <1>6 DEF After, x

\* All that is shown from place i on, and what the view is meanwhile.
LEMMA ShowEach ==
    ASSUME NEW v \in Views, NEW recs \in Seq(Recs), NEW flags,
           NEW i \in 1..Len(recs) + 1,
           \A j \in DOMAIN recs : Depth(recs, j) \in Nat,
           i <= Len(recs) => \/ recs[i].code = "BUILDSTART"
                             \/ i > 1 /\ StackFits(v.stack, recs, i - 1, flags),
           NEW g, IsShowing(g, v, recs, flags, i)
    PROVE  \A j \in i-1..Len(recs) : After(g[j], v, recs, flags, i, j)
<1> DEFINE n == Len(recs)
           T == {j \in i-1..n : After(g[j], v, recs, flags, i, j)}
<1>1. i - 1 \in Nat /\ n \in Nat /\ i - 1 <= n
  OBVIOUS
<1>2. \A j \in i-1..n :
         g[j] = IF j = i - 1 THEN v ELSE log_show_rec(g[j - 1], recs, flags, j)
  BY DEF IsShowing
<1>3. i - 1 \in T
  <2>1. i - 1 \in i-1..n /\ g[i - 1] = v
    BY <1>1, <1>2
  <2>2. v.rows \in Seq(Rows)
    BY DEF Views
  <2>3. After(v, v, recs, flags, i, i - 1)
    BY <2>2 DEF After
  <2> QED
    BY <2>1, <2>3
<1>4. ASSUME NEW j \in (i-1)+1..n, j - 1 \in T
      PROVE  j \in T
  <2>1. j \in i..n /\ j \in i-1..n /\ j # i - 1 /\ i \in 1..n /\ j \in DOMAIN recs
    BY <1>1
  <2>2. g[j] = log_show_rec(g[j - 1], recs, flags, j)
    BY <1>2, <2>1
  <2>3. After(g[j - 1], v, recs, flags, i, j - 1)
    BY <1>4
  <2>4. i <= n
    BY <2>1
  <2>5. After(g[j], v, recs, flags, i, j)
    BY <2>1, <2>2, <2>3, <2>4, AfterStep
  <2> QED
    BY <2>1, <2>5
<1>5. \A j \in i-1..n : j \in T
  <2> HIDE DEF T, n
  <2> QED
    BY <1>1, <1>3, <1>4, EveryRound
<1> QED
  BY <1>5

LEMMA ShowAll ==
    ASSUME NEW v \in Views, NEW recs \in Seq(Recs), NEW flags,
           NEW i \in 1..Len(recs) + 1,
           \A j \in DOMAIN recs : Depth(recs, j) \in Nat,
           i <= Len(recs) => \/ recs[i].code = "BUILDSTART"
                             \/ i > 1 /\ StackFits(v.stack, recs, i - 1, flags)
    PROVE  After(ShowFrom(v, recs, flags, i), v, recs, flags, i, Len(recs))
<1> DEFINE g == CHOOSE h : IsShowing(h, v, recs, flags, i)
<1>1. IsShowing(g, v, recs, flags, i)
  BY ShowingExists
<1>2. ShowFrom(v, recs, flags, i) = g[Len(recs)]
  BY ShownFrom
<1> HIDE DEF g
<1>3. \A j \in i-1..Len(recs) : After(g[j], v, recs, flags, i, j)
  BY <1>1, ShowEach
<1>4. Len(recs) \in i-1..Len(recs)
  OBVIOUS
<1> QED
  BY <1>2, <1>3, <1>4

-------------------------------------------------------------------------------
(***************************************************************************)
(* The filters.                                                            *)
(***************************************************************************)
\* The states that the filters use are different.
LEMMA States == NoState # "Nmipspro1" /\ NoState # "Nmipspro2"
  BY Zenon DEF NoState

Rule(f) ==
    /\ f.instate \in FilterStates /\ f.outstate \in FilterStates
    /\ f.summary \in {"text", "empty"} /\ f.pending \in BOOLEAN
    /\ f.code \in (Codes \ {"BUILDSTART"}) \cup {"UNDEFINED", "DONE"}
    /\ f.code = "PUSHDIR" <=> f.kinds = {"enter"}
    /\ f.code = "PUSHDIR" <=> "enter" \in f.kinds
    /\ f.code = "POPDIR" <=> f.kinds = {"leave"}
    /\ f.code = "POPDIR" <=> "leave" \in f.kinds
    /\ f.code \in {"UNDEFINED", "DONE"} <=> f.instate # NoState
    /\ f.pending => /\ f.kinds \subseteq {"cfe", "indented", "caret"}
                    /\ f.outstate # NoState
                    /\ f.code \in {"ERROR", "UNDEFINED"}
    /\ ~ f.pending => f.outstate = NoState

LEMMA EachRule ==
    ASSUME NEW i \in DOMAIN Filters
    PROVE  Rule(Filters[i])
<1>1. Rule(Filter(NoState, {"compile"}, "INFORMATION", FALSE, "text", NoState))
  BY States DEF Rule, Filter, FilterStates, Codes
<1>2. Rule(Filter(NoState, {"enter"}, "PUSHDIR", FALSE, "empty", NoState))
  BY States DEF Rule, Filter, FilterStates, Codes
<1>3. Rule(Filter(NoState, {"leave"}, "POPDIR", FALSE, "empty", NoState))
  BY States DEF Rule, Filter, FilterStates, Codes
<1>4. Rule(Filter(NoState, {"warning"}, "WARNING", FALSE, "text", NoState))
  BY States DEF Rule, Filter, FilterStates, Codes
<1>5. Rule(Filter(NoState, {"error"}, "ERROR", FALSE, "text", NoState))
  BY States DEF Rule, Filter, FilterStates, Codes
<1>6. Rule(Filter(NoState, {"cfe"}, "ERROR", TRUE, "text", "Nmipspro1"))
  BY States DEF Rule, Filter, FilterStates, Codes
<1>7. Rule(Filter("Nmipspro1", {"indented", "caret"}, "UNDEFINED", TRUE,
                  "empty", "Nmipspro2"))
  BY States DEF Rule, Filter, FilterStates, Codes
<1>8. Rule(Filter("Nmipspro2", {"caret"}, "DONE", FALSE, "empty", NoState))
  BY States DEF Rule, Filter, FilterStates, Codes
<1>9. /\ DOMAIN Filters = 1..8
      /\ Filters[1] = Filter(NoState, {"compile"}, "INFORMATION", FALSE, "text",
                             NoState)
      /\ Filters[2] = Filter(NoState, {"enter"}, "PUSHDIR", FALSE, "empty",
                             NoState)
      /\ Filters[3] = Filter(NoState, {"leave"}, "POPDIR", FALSE, "empty",
                             NoState)
      /\ Filters[4] = Filter(NoState, {"warning"}, "WARNING", FALSE, "text",
                             NoState)
      /\ Filters[5] = Filter(NoState, {"error"}, "ERROR", FALSE, "text", NoState)
      /\ Filters[6] = Filter(NoState, {"cfe"}, "ERROR", TRUE, "text",
                             "Nmipspro1")
      /\ Filters[7] = Filter("Nmipspro1", {"indented", "caret"}, "UNDEFINED",
                             TRUE, "empty", "Nmipspro2")
      /\ Filters[8] = Filter("Nmipspro2", {"caret"}, "DONE", FALSE, "empty",
                             NoState)
  BY DEF Filters
<1>10. i \in 1..8
  BY <1>9
<1>11. i \in {1, 2, 3, 4, 5, 6, 7, 8}
  BY <1>10
<1> QED
  BY <1>1, <1>2, <1>3, <1>4, <1>5, <1>6, <1>7, <1>8, <1>9, <1>11, Zenon

\* Between messages, what make says of its directories is recognised.
LEMMA DirsMatched ==
    ASSUME filter_state = NoState, NEW line, line.kind \in {"enter", "leave"}
    PROVE  Matching(line) # {}
<1>1. /\ 2 \in DOMAIN Filters /\ 3 \in DOMAIN Filters
      /\ Filters[2].instate = NoState /\ Filters[2].kinds = {"enter"}
      /\ Filters[3].instate = NoState /\ Filters[3].kinds = {"leave"}
  BY DEF Filters, Filter
<1> QED
  BY <1>1 DEF Matching

LEMMA LineIs ==
    ASSUME NEW line \in Lines
    PROVE  /\ line.kind \in AllKinds /\ line.file \in Files
           /\ line.depth \in 0..MaxDepth
           /\ line.kind \in {"enter", "leave"} =>
                 line.file \in Dirs /\ line.depth \in Levels
           /\ line = Line(line.kind, line.file, line.depth)
           /\ line # StartLine /\ line.kind # "start"
<1>1. Kinds \subseteq AllKinds /\ MaxDepth \in Nat \ {0}
  BY LogAssumption
<1>2. CASE \E k \in Kinds \ {"enter", "leave"} : line = Line(k, Source, 0)
  BY <1>1, <1>2 DEF Line, AllKinds, Files, Levels, StartLine
<1>3. CASE \E k \in Kinds \cap {"enter", "leave"} :
              \E f \in Dirs, d \in 1..MaxDepth : line = Line(k, f, d)
  BY <1>1, <1>3 DEF Line, AllKinds, Files, Levels, StartLine
<1> QED
  BY <1>2, <1>3 DEF Lines

\* What the filters make of a line: r becomes a, and the state s.
Filtered(line, r, a, s) ==
    /\ a \in Results /\ s \in FilterStates
    /\ r.code # "BUILDSTART" => a.code # "BUILDSTART"
    /\ a.pending => /\ line \in Held /\ s # NoState
                    /\ a.code = "ERROR" \/ a.code = r.code
    /\ ~ a.pending => s = NoState
    /\ filter_state = NoState =>
          /\ a.pending => a.code = "ERROR"
          /\ a.code = "PUSHDIR" <=> line.kind = "enter"
          /\ a.code = "POPDIR" <=> line.kind = "leave"
          /\ a.code \in {"PUSHDIR", "POPDIR"} =>
                a.file = line.file /\ a.depth = line.depth
    /\ filter_state # NoState => a.code \in {r.code, "UNDEFINED"}

LEMMA Filtering ==
    ASSUME filter_state \in FilterStates, NEW line \in Lines, NEW r \in Results
    PROVE  Filtered(line, r, filter_apply(line, r).result,
                    filter_apply(line, r).state)
<1> DEFINE a == filter_apply(line, r).result
           s == filter_apply(line, r).state
<1>1. /\ r.code \in Codes \cup {"UNDEFINED"} /\ r.pending \in BOOLEAN
      /\ r.summary \in {"none", "text", "empty"}
      /\ r.file \in Files /\ r.depth \in 0..MaxDepth
  BY DEF Results
<1>2. CASE Matching(line) = {}
  <2>1. /\ a = [r EXCEPT !.code = "UNDEFINED", !.pending = FALSE]
        /\ s = NoState
    BY <1>2 DEF filter_apply
  <2>2. a \in Results /\ a.code = "UNDEFINED" /\ ~ a.pending
    BY <2>1 DEF Results
  <2>3. filter_state = NoState => line.kind \notin {"enter", "leave"}
    BY <1>2, DirsMatched
  <2>4. s \in FilterStates /\ s = NoState
    BY <2>1 DEF FilterStates
  <2>5. /\ a.code # "PUSHDIR" /\ a.code # "POPDIR" /\ a.code # "BUILDSTART"
        /\ a.code \in {r.code, "UNDEFINED"}
    BY <2>2
  <2> HIDE DEF a, s
  <2> QED
    BY <2>2, <2>3, <2>4, <2>5 DEF Filtered, a, s
<1>3. CASE Matching(line) # {}
  <2> DEFINE m == CHOOSE i \in Matching(line) :
                      \A j \in Matching(line) : i <= j
             f == Filters[m]
  <2>1. m \in Matching(line)
    <3>1. Matching(line) \in SUBSET Nat
      BY DEF Matching, Filters
    <3> QED
      BY <1>3, <3>1, LeastNumber
  <2>2. a = filter_apply_one(f, line, r) /\ s = f.outstate
    BY <1>3 DEF filter_apply
  <2> HIDE DEF m
  <2>3. /\ Rule(f) /\ f.instate = filter_state /\ line.kind \in f.kinds
    BY <2>1, EachRule DEF Matching
  <2> HIDE DEF f, a, s
  <2> DEFINE continues == f.code \in {"UNDEFINED", "DONE"}
  <2>4. a = [code |-> IF continues THEN r.code ELSE f.code,
             pending |-> f.pending,
             summary |-> f.summary,
             file |-> IF continues THEN r.file ELSE line.file,
             depth |-> IF continues THEN r.depth ELSE line.depth]
    BY <2>2 DEF filter_apply_one
  <2>5. /\ a.code = IF continues THEN r.code ELSE f.code
        /\ a.pending = f.pending
        /\ a.file = IF continues THEN r.file ELSE line.file
        /\ a.depth = IF continues THEN r.depth ELSE line.depth
    BY <2>4
  <2>6. a \in Results
    BY <1>1, <2>3, <2>4, LineIs DEF Rule, Results
  <2>7. continues <=> filter_state # NoState
    BY <2>3 DEF Rule
  <2>8. /\ s \in FilterStates
        /\ a.pending => line \in Held /\ s # NoState
        /\ ~ a.pending => s = NoState
    <3>1. a.pending => line \in Held
      BY <2>3, <2>5 DEF Rule, Held
    <3> QED
      BY <2>2, <2>3, <2>5, <3>1 DEF Rule
  <2>9. r.code # "BUILDSTART" => a.code # "BUILDSTART"
    BY <2>3, <2>5 DEF Rule
  <2>10. a.pending => a.code = "ERROR" \/ (continues /\ a.code = r.code)
    BY <2>3, <2>5 DEF Rule
  <2>11. filter_state = NoState =>
            /\ a.code = "PUSHDIR" <=> line.kind = "enter"
            /\ a.code = "POPDIR" <=> line.kind = "leave"
            /\ a.code \in {"PUSHDIR", "POPDIR"} =>
                  a.file = line.file /\ a.depth = line.depth
    BY <2>3, <2>5, <2>7 DEF Rule
  <2>12. filter_state # NoState => a.code \in {r.code, "UNDEFINED"}
    BY <2>5, <2>7
  <2> HIDE DEF continues
  <2> QED
    BY <2>6, <2>7, <2>8, <2>9, <2>10, <2>11, <2>12 DEF Filtered, a, s
<1> QED
  BY <1>2, <1>3

-------------------------------------------------------------------------------
(***************************************************************************)
(* Records that are added together.                                        *)
(***************************************************************************)
\* Records that start no build belong to the build before them.
LEMMA BlockSince ==
    ASSUME NEW recs, NEW n \in Nat, NEW k \in Nat, n <= k,
           \A j \in n+1..k : recs[j].code # "BUILDSTART"
    PROVE  /\ BeginOf(recs, k) = BeginOf(recs, n)
           /\ Since(recs, k) = Since(recs, n) \cup (n+1..k)
           /\ Since(recs, n) \subseteq 1..n
<1> DEFINE m == BeginOf(recs, n)
<1>1. Begins(recs, n, m)
  BY BeginIs
<1> HIDE DEF m
<1>2. m \in 0..n /\ m \in 0..k
  BY <1>1 DEF Begins
<1>3. Begins(recs, k, m)
  <2>1. \A i \in m+1..k : i \in m+1..n \/ i \in n+1..k
    BY <1>2
  <2> QED
    BY <1>1, <1>2, <2>1 DEF Begins
<1>4. BeginOf(recs, k) = m
  BY <1>2, <1>3, BeginIs
<1>5. m+1..k = (m+1..n) \cup (n+1..k) /\ m+1..n \subseteq 1..n
  BY <1>2
<1>6. Since(recs, k) = m+1..k
  BY <1>4 DEF Since
<1>7. Since(recs, n) = m+1..n
  BY DEF Since, m
<1> QED
  BY <1>4, <1>5, <1>6, <1>7 DEF m

\* The count of B is that of A, and one more if that counts.
OneMore(A, B, counts) ==
    /\ Cardinality(A) \in Nat
    /\ Cardinality(B) = Cardinality(A) + (IF counts THEN 1 ELSE 0)

\* At most the record at place p is of those that count.
LEMMA BlockCount ==
    ASSUME NEW recs, NEW n \in Nat, NEW k \in Nat, n <= k,
           \A j \in n+1..k : recs[j].code # "BUILDSTART",
           NEW P, NEW p \in n+1..k, \A j \in n+1..k : j # p => j \notin P,
           NEW A, NEW B, A = Since(recs, n) \cap P, B = Since(recs, k) \cap P
    PROVE  OneMore(A, B, p \in P)
<1>1. IsFiniteSet(A) /\ Cardinality(A) \in Nat
  <2>1. n + 1 \in Nat \ {0} /\ (n + 1) - 1 = n
    OBVIOUS
  <2>2. IsFiniteSet(Since(recs, n))
    BY <2>1, SinceStep
  <2> QED
    BY <2>2, FS_Subset, FS_CardinalityType
<1>2. /\ Since(recs, k) = Since(recs, n) \cup (n+1..k)
      /\ Since(recs, n) \subseteq 1..n
  BY BlockSince
<1>3. p \notin A
  <2>1. p \notin 1..n
    OBVIOUS
  <2> QED
    BY <1>2, <2>1
<1>4. CASE p \in P
  <2>1. B = A \cup {p}
    BY <1>2, <1>4
  <2>2. Cardinality(A \cup {p}) = Cardinality(A) + 1
    BY <1>1, <1>3, CountOne
  <2>3. Cardinality(B) = Cardinality(A) + 1
    BY <2>1, <2>2
  <2> QED
    BY <1>1, <1>4, <2>3 DEF OneMore
<1>5. CASE p \notin P
  <2>1. B = A
    BY <1>2, <1>5
  <2>2. \A m \in Nat : m = m + 0
    OBVIOUS
  <2>3. Cardinality(B) = Cardinality(A)
    BY <2>1, Zenon
  <2> QED
    BY <1>1, <1>5, <2>2, <2>3 DEF OneMore
<1> QED
  BY <1>4, <1>5

\* The records of one message: only the first is more than information, and
\* only the last line says something of directories.
Message(D) ==
    /\ D \in Seq(Recs) /\ D # <<>>
    /\ \A i \in DOMAIN D : /\ D[i].code # "BUILDSTART" /\ D[i].line # StartLine
                           /\ i > 1 => D[i].code = "INFORMATION"
                           /\ i < Len(D) =>
                                 D[i].line.kind \notin {"enter", "leave"}
    /\ \A f \in Dirs, d \in Levels :
          /\ D[Len(D)].line = Line("enter", f, d) <=>
                D[1].code = "PUSHDIR" /\ D[1].file = f /\ D[1].depth = d
          /\ D[Len(D)].line = Line("leave", f, d) <=>
                D[1].code = "POPDIR" /\ D[1].file = f /\ D[1].depth = d
    /\ D[1].code \in {"PUSHDIR", "POPDIR"} =>
          D[1].file \in Dirs /\ D[1].depth \in Levels

\* The counts after it.
Counted(recs, more, k, D) ==
    /\ \A c \in Codes \ {"INFORMATION"} :
          /\ Cardinality(Coded(recs, Len(recs), c)) \in Nat
          /\ Cardinality(Coded(more, k, c)) =
                Cardinality(Coded(recs, Len(recs), c))
                  + (IF D[1].code = c THEN 1 ELSE 0)
    /\ \A c \in {"PUSHDIR", "POPDIR"}, f \in Dirs, d \in Levels :
          /\ Cardinality(CodedAt(recs, Len(recs), c, f, d)) \in Nat
          /\ Cardinality(CodedAt(more, k, c, f, d)) =
                Cardinality(CodedAt(recs, Len(recs), c, f, d))
                  + (IF D[1].code = c /\ D[1].file = f /\ D[1].depth = d
                     THEN 1 ELSE 0)

\* The log recs is followed by the records D: more.
Adds(recs, D, more) ==
    /\ Len(recs) \in Nat \ {0} /\ Len(more) \in Nat /\ Len(recs) < Len(more)
    /\ more \in Seq(Recs)
    /\ \A j \in 1..Len(recs) : more[j] = recs[j]
    /\ more[Len(recs) + 1] = D[1]
    /\ more[Len(more)] = D[Len(D)]
    /\ \A j \in Len(recs) + 1..Len(more) :
          /\ more[j].code # "BUILDSTART" /\ more[j].line # StartLine
          /\ j # Len(recs) + 1 => more[j].code = "INFORMATION"
          /\ j # Len(more) => more[j].line.kind \notin {"enter", "leave"}

LEMMA MessageAdds ==
    ASSUME NEW recs \in Seq(Recs), recs # <<>>, NEW D, Message(D)
    PROVE  Adds(recs, D, recs \o D)
<1> DEFINE n == Len(recs)
           m == Len(D)
           more == recs \o D
<1>1. D \in Seq(Recs) /\ D # <<>>
  BY DEF Message
<1>2. n \in Nat \ {0} /\ m \in Nat \ {0}
  BY <1>1, EmptySeq
<1>3. /\ more \in Seq(Recs) /\ Len(more) = n + m
      /\ \A j \in 1..n : more[j] = recs[j]
      /\ \A i \in 1..m : more[n + i] = D[i]
  BY <1>1, ConcatProperties
<1>4. /\ DOMAIN D = 1..m
      /\ \A i \in 1..m : /\ D[i].code # "BUILDSTART" /\ D[i].line # StartLine
                         /\ i > 1 => D[i].code = "INFORMATION"
                         /\ i < m => D[i].line.kind \notin {"enter", "leave"}
  BY <1>1 DEF Message
<1> HIDE DEF n, m, more
<1>5. more[n + 1] = D[1] /\ more[n + m] = D[m]
  BY <1>2, <1>3
<1>6. ASSUME NEW j \in n+1..n+m
      PROVE  /\ more[j].code # "BUILDSTART" /\ more[j].line # StartLine
             /\ j # n + 1 => more[j].code = "INFORMATION"
             /\ j # n + m => more[j].line.kind \notin {"enter", "leave"}
  <2>1. /\ j - n \in 1..m /\ n + (j - n) = j
        /\ j # n + 1 => j - n > 1
        /\ j # n + m => j - n < m
    BY <1>2
  <2>2. more[j] = D[j - n]
    BY <1>3, <2>1
  <2> QED
    BY <1>4, <2>1, <2>2
<1>7. n < Len(more) /\ Len(more) \in Nat
  BY <1>2, <1>3
<1> QED
  BY <1>2, <1>3, <1>5, <1>6, <1>7 DEF Adds, n, m, more

LEMMA MessageCounts ==
    ASSUME NEW recs \in Seq(Recs), recs # <<>>, NEW D, Message(D), NEW more,
           Adds(recs, D, more), NEW k \in Len(recs) + 1..Len(more)
    PROVE  Counted(recs, more, k, D)
<1> DEFINE n == Len(recs)
<1>1. /\ n \in Nat \ {0} /\ k \in Nat /\ n <= k /\ k <= Len(more)
      /\ n + 1 <= k /\ n < n + 1 /\ n + 1 \in Nat
  BY DEF Adds
<1>2. /\ \A j \in 1..n : more[j] = recs[j]
      /\ more[n + 1] = D[1]
      /\ \A j \in n+1..k : /\ more[j].code # "BUILDSTART"
                           /\ j # n + 1 => more[j].code = "INFORMATION"
  <2>1. \A j \in n+1..k : j \in n+1..Len(more)
    BY <1>1
  <2> QED
    BY <2>1 DEF Adds
<1> HIDE DEF n
<1>12. n \in Nat /\ k \in Nat /\ n <= k /\ n + 1 \in n+1..k
  BY <1>1
<1>13. \A j \in n+1..k : more[j].code # "BUILDSTART"
  BY <1>2
<1>0. n \in Nat /\ SameUpTo(recs, more, n)
  BY <1>1, <1>2 DEF SameUpTo
<1>10. Retells(recs, more, n)
  BY <1>0, Alike
<1>11. /\ \A b : Coded(more, n, b) = Coded(recs, n, b)
       /\ \A b, e, x : CodedAt(more, n, b, e, x) = CodedAt(recs, n, b, e, x)
  BY <1>10, Zenon DEF Retells
<1>3. \A j \in {n, k} : Since(more, j) \subseteq Int
  BY <1>1, BeginIs DEF Since, Begins
<1>4. ASSUME NEW c \in Codes \ {"INFORMATION"}
      PROVE  /\ Cardinality(Coded(recs, n, c)) \in Nat
             /\ Cardinality(Coded(more, k, c)) =
                   Cardinality(Coded(recs, n, c))
                     + (IF D[1].code = c THEN 1 ELSE 0)
  <2> DEFINE P == {i \in Int : more[i].code = c}
  <2>1. /\ Coded(more, n, c) = Since(more, n) \cap P
        /\ Coded(more, k, c) = Since(more, k) \cap P
    BY <1>3 DEF Coded
  <2>2. \A j \in n+1..k : j # n + 1 => j \notin P
    BY <1>2
  <2>3. n + 1 \in P <=> D[1].code = c
    BY <1>1, <1>2
  <2> HIDE DEF P
  <2>6. OneMore(Coded(more, n, c), Coded(more, k, c), n + 1 \in P)
    BY <1>12, <1>13, <2>1, <2>2, BlockCount
  <2>5. Coded(more, n, c) = Coded(recs, n, c)
    BY <1>11
  <2> QED
    BY <2>3, <2>5, <2>6 DEF OneMore
<1>5. ASSUME NEW c \in {"PUSHDIR", "POPDIR"}, NEW f \in Dirs, NEW d \in Levels
      PROVE  /\ Cardinality(CodedAt(recs, n, c, f, d)) \in Nat
             /\ Cardinality(CodedAt(more, k, c, f, d)) =
                   Cardinality(CodedAt(recs, n, c, f, d))
                     + (IF D[1].code = c /\ D[1].file = f /\ D[1].depth = d
                        THEN 1 ELSE 0)
  <2> DEFINE P == {i \in Int : /\ more[i].code = c
                               /\ more[i].file = f /\ more[i].depth = d}
  <2>1. /\ CodedAt(more, n, c, f, d) = Since(more, n) \cap P
        /\ CodedAt(more, k, c, f, d) = Since(more, k) \cap P
    BY <1>3 DEF CodedAt, Coded
  <2>2. \A j \in n+1..k : j # n + 1 => j \notin P
    BY <1>2
  <2>3. n + 1 \in P <=> D[1].code = c /\ D[1].file = f /\ D[1].depth = d
    BY <1>1, <1>2
  <2> HIDE DEF P
  <2>6. OneMore(CodedAt(more, n, c, f, d), CodedAt(more, k, c, f, d), n + 1 \in P)
    BY <1>12, <1>13, <2>1, <2>2, BlockCount
  <2>5. CodedAt(more, n, c, f, d) = CodedAt(recs, n, c, f, d)
    BY <1>11
  <2> QED
    BY <2>3, <2>5, <2>6 DEF OneMore
<1> QED
  BY <1>4, <1>5 DEF Counted, n

LEMMA MessageSaid ==
    ASSUME NEW recs \in Seq(Recs), recs # <<>>, NEW D, Message(D), NEW more,
           Adds(recs, D, more), NEW kind \in {"enter", "leave"}, NEW f, NEW d
    PROVE  /\ Cardinality(Said(recs, Len(recs), kind, f, d)) \in Nat
           /\ Cardinality(Said(more, Len(more), kind, f, d)) =
                 Cardinality(Said(recs, Len(recs), kind, f, d))
                   + (IF D[Len(D)].line = Line(kind, f, d) THEN 1 ELSE 0)
<1> DEFINE n == Len(recs)
           k == Len(more)
           P == {i \in Int : more[i].line = Line(kind, f, d)}
<1>1. n \in Nat \ {0} /\ k \in Nat /\ n < k /\ n <= k /\ k <= k
  BY DEF Adds
<1>2. /\ \A j \in 1..n : more[j] = recs[j]
      /\ more[k] = D[Len(D)]
      /\ \A j \in n+1..k : /\ more[j].code # "BUILDSTART"
                           /\ j # k => more[j].line.kind \notin {"enter", "leave"}
  BY DEF Adds
<1> HIDE DEF n, k
<1>12. n \in Nat /\ k \in Nat /\ n <= k /\ k \in n+1..k
  BY <1>1
<1>13. \A j \in n+1..k : more[j].code # "BUILDSTART"
  BY <1>2
<1>0. n \in Nat /\ SameUpTo(recs, more, n)
  BY <1>1, <1>2 DEF SameUpTo
<1>10. Retells(recs, more, n)
  BY <1>0, Alike
<1>11. \A b, e, x : Said(more, n, b, e, x) = Said(recs, n, b, e, x)
  BY <1>10, Zenon DEF Retells
<1>3. \A j \in {n, k} : Since(more, j) \subseteq Int
  BY <1>1, BeginIs DEF Since, Begins
<1>4. /\ Said(more, n, kind, f, d) = Since(more, n) \cap P
      /\ Said(more, k, kind, f, d) = Since(more, k) \cap P
  BY <1>3 DEF Said
<1>5. \A j \in n+1..k : j # k => j \notin P
  <2>1. Line(kind, f, d).kind = kind
    BY DEF Line
  <2> QED
    BY <1>2, <2>1
<1>6. k \in P <=> D[Len(D)].line = Line(kind, f, d)
  BY <1>1, <1>2
<1> HIDE DEF P
<1>7. OneMore(Said(more, n, kind, f, d), Said(more, k, kind, f, d), k \in P)
  BY <1>12, <1>13, <1>4, <1>5, BlockCount
<1>8. Said(more, n, kind, f, d) = Said(recs, n, kind, f, d)
  BY <1>11
<1> QED
  BY <1>6, <1>7, <1>8 DEF OneMore, n, k

\* The log stays as it should be.
LEMMA MessageDirs ==
    ASSUME NEW recs \in Seq(Recs), recs # <<>>, NEW D, Message(D), NEW more,
           Adds(recs, D, more),
           LogShape(recs), Understood(recs), NeverStray(recs),
           D[1].code = "POPDIR" =>
              Cardinality(CodedAt(recs, Len(recs), "POPDIR",
                                  D[1].file, D[1].depth))
                < Cardinality(CodedAt(recs, Len(recs), "PUSHDIR",
                                      D[1].file, D[1].depth))
    PROVE  LogShape(more) /\ Understood(more) /\ NeverStray(more)
<1> DEFINE n == Len(recs)
           k == Len(more)
<1>1. /\ n \in Nat \ {0} /\ k \in Nat /\ n < k /\ more \in Seq(Recs)
      /\ \A j \in 1..n : more[j] = recs[j]
      /\ more[n + 1] = D[1]
      /\ \A j \in n+1..k :
            /\ more[j].code # "BUILDSTART" /\ more[j].line # StartLine
            /\ j # n + 1 => more[j].code = "INFORMATION"
  BY DEF Adds
<1>2. DOMAIN more = 1..k /\ DOMAIN recs = 1..n
  BY <1>1
<1> HIDE DEF n, k
<1>3. \A j \in 1..k : j \in 1..n \/ j \in n+1..k
  BY <1>1
<1>4. LogShape(more)
  <2>1. more[1].code = "BUILDSTART"
    <3>1. 1 \in 1..n
      BY <1>1
    <3> QED
      BY <1>1, <3>1 DEF LogShape
  <2>2. ASSUME NEW j \in 1..k
        PROVE  /\ more[j].code = "BUILDSTART" <=> more[j].line = StartLine
               /\ more[j].code \in {"PUSHDIR", "POPDIR"} =>
                     more[j].file \in Dirs /\ more[j].depth \in Levels
    <3>1. CASE j \in 1..n
      BY <1>1, <1>2, <3>1 DEF LogShape
    <3>2. CASE j \in n+1..k
      BY <1>1, <3>2 DEF Message
    <3> QED
      BY <1>3, <3>1, <3>2
  <2> QED
    BY <1>2, <2>1, <2>2 DEF LogShape
<1>5. Understood(more)
  <2>1. ASSUME NEW f \in Dirs, NEW d \in Levels
        PROVE  /\ Cardinality(Said(more, k, "enter", f, d))
                    = Cardinality(CodedAt(more, k, "PUSHDIR", f, d))
               /\ Cardinality(Said(more, k, "leave", f, d))
                    = Cardinality(CodedAt(more, k, "POPDIR", f, d))
    <3>1. Counted(recs, more, k, D)
      BY <1>1, MessageCounts DEF n, k
    <3>2. /\ Cardinality(Said(recs, n, "enter", f, d))
               = Cardinality(CodedAt(recs, n, "PUSHDIR", f, d))
          /\ Cardinality(Said(recs, n, "leave", f, d))
               = Cardinality(CodedAt(recs, n, "POPDIR", f, d))
      BY DEF Understood, n
    <3>3. /\ Cardinality(Said(more, k, "enter", f, d)) =
                Cardinality(Said(recs, n, "enter", f, d))
                  + (IF D[Len(D)].line = Line("enter", f, d) THEN 1 ELSE 0)
          /\ Cardinality(Said(more, k, "leave", f, d)) =
                Cardinality(Said(recs, n, "leave", f, d))
                  + (IF D[Len(D)].line = Line("leave", f, d) THEN 1 ELSE 0)
      BY MessageSaid DEF n, k
    <3>4. /\ Cardinality(CodedAt(more, k, "PUSHDIR", f, d)) =
                Cardinality(CodedAt(recs, n, "PUSHDIR", f, d))
                  + (IF D[1].code = "PUSHDIR" /\ D[1].file = f /\ D[1].depth = d
                     THEN 1 ELSE 0)
          /\ Cardinality(CodedAt(more, k, "POPDIR", f, d)) =
                Cardinality(CodedAt(recs, n, "POPDIR", f, d))
                  + (IF D[1].code = "POPDIR" /\ D[1].file = f /\ D[1].depth = d
                     THEN 1 ELSE 0)
      BY <3>1 DEF Counted, n
    <3>5. /\ D[Len(D)].line = Line("enter", f, d) <=>
                D[1].code = "PUSHDIR" /\ D[1].file = f /\ D[1].depth = d
          /\ D[Len(D)].line = Line("leave", f, d) <=>
                D[1].code = "POPDIR" /\ D[1].file = f /\ D[1].depth = d
      BY DEF Message
    <3> QED
      BY <3>2, <3>3, <3>4, <3>5
  <2> QED
    BY <2>1 DEF Understood, k
<1>6. NeverStray(more)
  <2>1. ASSUME NEW j \in 1..k, NEW f \in Dirs, NEW d \in Levels
        PROVE  Cardinality(CodedAt(more, j, "POPDIR", f, d))
                 <= Cardinality(CodedAt(more, j, "PUSHDIR", f, d))
    <3>1. CASE j \in 1..n
      <4>1. j \in Nat /\ SameUpTo(recs, more, j)
        BY <1>1, <3>1 DEF SameUpTo
      <4>2. Retells(recs, more, j)
        BY <4>1, Alike
      <4>3. \A b, e, x : CodedAt(more, j, b, e, x) = CodedAt(recs, j, b, e, x)
        BY <4>2, Zenon DEF Retells
      <4> QED
        BY <1>2, <3>1, <4>3 DEF NeverStray
    <3>2. CASE j \in n+1..k
      <4>1. Counted(recs, more, j, D)
        BY <3>2, MessageCounts DEF n, k
      <4> DEFINE p == Cardinality(CodedAt(recs, n, "PUSHDIR", f, d))
                 q == Cardinality(CodedAt(recs, n, "POPDIR", f, d))
                 x == Cardinality(CodedAt(more, j, "PUSHDIR", f, d))
                 y == Cardinality(CodedAt(more, j, "POPDIR", f, d))
      <4>2. /\ p \in Nat /\ q \in Nat
            /\ x = p + (IF D[1].code = "PUSHDIR" /\ D[1].file = f
                           /\ D[1].depth = d THEN 1 ELSE 0)
            /\ y = q + (IF D[1].code = "POPDIR" /\ D[1].file = f
                           /\ D[1].depth = d THEN 1 ELSE 0)
        BY <4>1 DEF Counted, n
      <4>3. q <= p
        <5>1. n \in 1..n
          BY <1>1
        <5> QED
          BY <1>2, <5>1 DEF NeverStray
      <4>4. D[1].code = "POPDIR" /\ D[1].file = f /\ D[1].depth = d => q < p
        BY DEF n
      <4> HIDE DEF p, q, x, y
      <4>5. y <= x
        BY <4>2, <4>3, <4>4
      <4> QED
        BY <4>5 DEF x, y
    <3> QED
      BY <1>3, <3>1, <3>2
  <2> QED
    BY <1>2, <2>1 DEF NeverStray
<1> QED
  BY <1>4, <1>5, <1>6

-------------------------------------------------------------------------------
(***************************************************************************)
(* What make has said, up to the lines that are held back.                 *)
(***************************************************************************)
\* The lines of the log are those of its records, then what is held back.
LEMMA TextIs ==
    ASSUME NEW recs \in Seq(Recs), NEW p \in Seq(Held)
    PROVE  LET lines == Text(recs) \o p
               n == Len(recs)
           IN /\ lines \in Seq(LogLines) /\ Len(lines) = n + Len(p)
              /\ \A i \in 1..n : lines[i] = recs[i].line
              /\ \A i \in n+1..n + Len(p) : lines[i] \in Held
<1> DEFINE t == Text(recs)
           n == Len(recs)
           l == Len(p)
<1>1. n \in Nat /\ l \in Nat /\ DOMAIN recs = 1..n
  OBVIOUS
<1>2. \A i \in 1..n : recs[i].line \in LogLines
  <2>1. \A i \in 1..n : recs[i] \in Recs
    OBVIOUS
  <2> QED
    BY <2>1 DEF Recs
<1>3. /\ t \in Seq(LogLines) /\ Len(t) = n
      /\ \A i \in 1..n : t[i] = recs[i].line
  <2>1. t = [i \in 1..n |-> recs[i].line]
    BY <1>1 DEF Text
  <2> HIDE DEF t, n
  <2>2. t \in Seq(LogLines)
    BY <1>1, <1>2, <2>1, IsASeq
  <2>3. DOMAIN t = 1..n
    BY <2>1
  <2>4. Len(t) = n
    BY <1>1, <2>2, <2>3, LenProperties
  <2> QED
    BY <2>1, <2>2, <2>4
<1>4. p \in Seq(LogLines) /\ \A i \in 1..l : p[i] \in Held
  <2>1. Held \subseteq LogLines
    BY DEF Held, LogLines
  <2>2. \A i \in 1..l : p[i] \in Held
    OBVIOUS
  <2>3. \A i \in 1..l : p[i] \in LogLines
    BY <2>1, <2>2
  <2> QED
    BY <2>2, <2>3
<1> HIDE DEF t
<1>5. /\ t \o p \in Seq(LogLines) /\ Len(t \o p) = n + l
      /\ \A i \in 1..n : (t \o p)[i] = t[i]
      /\ \A i \in 1..l : (t \o p)[n + i] = p[i]
  <2>1. /\ t \in Seq(LogLines) /\ p \in Seq(LogLines)
        /\ Len(t) = n /\ Len(p) = l
    BY <1>3, <1>4
  <2> HIDE DEF n, l
  <2>2. /\ t \o p \in Seq(LogLines) /\ Len(t \o p) = n + l
        /\ \A i \in 1..n + l :
              (t \o p)[i] = IF i <= n THEN t[i] ELSE p[i - n]
    BY <2>1, ConcatProperties
  <2>3. \A i \in 1..n : i \in 1..n + l /\ i <= n
    BY <1>1
  <2>4. \A i \in 1..l : n + i \in 1..n + l /\ ~ (n + i <= n) /\ (n + i) - n = i
    BY <1>1
  <2> QED
    BY <2>2, <2>3, <2>4
<1> HIDE DEF n, l
<1>6. ASSUME NEW i \in n+1..n + l
      PROVE  (t \o p)[i] \in Held
  <2>1. i - n \in 1..l /\ n + (i - n) = i
    BY <1>1
  <2> QED
    BY <1>4, <1>5, <2>1
<1>7. \A i \in 1..n : (t \o p)[i] = recs[i].line
  BY <1>3, <1>5
<1> QED
  BY <1>5, <1>6, <1>7 DEF t, n, l

LEMMA HeldIs ==
    ASSUME NEW line \in Held
    PROVE  /\ line \in Lines /\ line # StartLine
           /\ line.kind \notin {"enter", "leave"}
<1>1. line \in Lines /\ line.kind \in {"cfe", "indented", "caret"}
  BY DEF Held
<1>2. line # StartLine
  BY <1>1, LineIs
<1> QED
  BY <1>1, <1>2

\* The last start among the lines is that of the last build.
LEMMA LastStartIs ==
    ASSUME NEW recs \in Seq(Recs), LogShape(recs), NEW p \in Seq(Held)
    PROVE  LastStart(Text(recs) \o p) = BeginOf(recs, Len(recs))
<1> DEFINE lines == Text(recs) \o p
           n == Len(recs)
           l == Len(p)
<1>1. n \in Nat /\ l \in Nat /\ DOMAIN recs = 1..n
  OBVIOUS
<1>2. /\ lines \in Seq(LogLines) /\ Len(lines) = n + l
      /\ \A i \in 1..n : lines[i] = recs[i].line
      /\ \A i \in n+1..n + l : lines[i] \in Held
  BY TextIs
<1>3. DOMAIN lines = 1..n + l
  <2> HIDE DEF lines, n, l
  <2> QED
    BY <1>2, LenProperties
<1> HIDE DEF lines, n, l
<1>4. \A i \in 1..n : lines[i] = StartLine <=> recs[i].code = "BUILDSTART"
  BY <1>1, <1>2 DEF LogShape
<1>5. \A i \in n+1..n + l : lines[i] # StartLine
  BY <1>2, HeldIs
<1>6. \A i \in 1..n + l : i \in 1..n \/ i \in n+1..n + l
  BY <1>1
<1>7. \A i \in 1..n : i \in 1..n + l
  BY <1>1
<1>8. {i \in 1..n + l : lines[i] = StartLine}
        = {i \in 1..n : recs[i].code = "BUILDSTART"}
  BY <1>4, <1>5, <1>6, <1>7
<1>9. LastStart(lines)
        = Max({0} \cup {i \in 1..n : recs[i].code = "BUILDSTART"})
  BY <1>3, <1>8 DEF LastStart
<1> QED
  BY <1>9 DEF BeginOf, lines, n

\* What make has said since is what its records say.
Times(lines, k, f, d) ==
    {i \in DOMAIN SinceStart(lines) : SinceStart(lines)[i] = Line(k, f, d)}

LEMMA TimesSaid ==
    ASSUME NEW recs \in Seq(Recs), LogShape(recs), NEW p \in Seq(Held),
           NEW k \in {"enter", "leave"}, NEW f, NEW d
    PROVE  Cardinality(Times(Text(recs) \o p, k, f, d))
             = Cardinality(Said(recs, Len(recs), k, f, d))
<1> DEFINE lines == Text(recs) \o p
           n == Len(recs)
           l == Len(p)
           m == BeginOf(recs, n)
           since == SinceStart(lines)
           A == Times(lines, k, f, d)
           B == Said(recs, n, k, f, d)
<1>1. n \in Nat /\ l \in Nat /\ n + l \in Nat
  OBVIOUS
<1>2. /\ lines \in Seq(LogLines) /\ Len(lines) = n + l
      /\ \A i \in 1..n : lines[i] = recs[i].line
      /\ \A i \in n+1..n + l : lines[i] \in Held
  BY TextIs
<1>3. m \in 0..n /\ m \in Nat
  BY <1>1, BeginIs DEF Begins
<1>4. LastStart(lines) = m
  BY LastStartIs
<1> HIDE DEF lines, n, l, m
<1>5. since = SubSeq(lines, m + 1, n + l)
  BY <1>2, <1>4 DEF SinceStart
<1>6. m + 1 \in 1..n + l + 1 /\ n + l \in m..n + l
  BY <1>1, <1>3
<1>7. /\ Len(since) = n + l - m /\ since \in Seq(LogLines)
      /\ \A i \in 1..n + l - m : since[i] = lines[m + i]
  <2> DEFINE q == SubSeq(lines, m + 1, n + l)
  <2>1. /\ m + 1 \in 1..n + l + 1 /\ n + l \in (m + 1) - 1..Len(lines)
        /\ n + l - (m + 1) + 1 = n + l - m
    BY <1>1, <1>2, <1>3
  <2>2. /\ q \in Seq(LogLines)
        /\ Len(q) = n + l - m
        /\ \A i \in 1..n + l - m : q[i] = lines[m + i]
    <3>1. \A i \in 1..n + l - m : m + 1 + i - 1 = m + i /\ m + i \in 1..n + l
      BY <1>1, <1>3
    <3>2. \A i \in 1..n + l - m : lines[m + i] \in LogLines
      BY <1>2, <3>1
    <3>3. \A i \in m + 1..n + l : i \in 1..n + l /\ lines[i] \in LogLines
      BY <1>1, <1>2, <1>3
    <3>4. q = [i \in 1..n + l - m |-> lines[m + i]]
      BY <1>1, <1>3
    <3> HIDE DEF q
    <3>5. n + l - m \in Nat
      BY <1>1, <1>3
    <3>6. q \in Seq(LogLines)
      BY <3>2, <3>4, <3>5, IsASeq
    <3>7. DOMAIN q = 1..n + l - m
      BY <3>4
    <3>8. Len(q) = n + l - m
      BY <3>5, <3>6, <3>7, LenProperties
    <3> QED
      BY <3>4, <3>6, <3>8
  <2> QED
    BY <1>5, <2>2
<1> HIDE DEF since
<1>8. DOMAIN since = 1..n + l - m
  BY <1>7, LenProperties
<1>9. A = {i \in 1..n + l - m : lines[m + i] = Line(k, f, d)}
  BY <1>7, <1>8 DEF Times, since
<1>10. B = {i \in m+1..n : recs[i].line = Line(k, f, d)}
  BY DEF Said, Since, m
<1> HIDE DEF A, B
<1>11. IsFiniteSet(A)
  <2>1. A \subseteq 1..n + l - m /\ IsFiniteSet(1..n + l - m)
    BY <1>1, <1>3, <1>9, FS_Interval
  <2> QED
    BY <2>1, FS_Subset
<1>12. A \in SUBSET Int /\ B \in SUBSET Int
  BY <1>9, <1>10
<1>13. \A i \in A : i + m \in B
  <2>1. ASSUME NEW i \in A PROVE i + m \in B
    <3>1. i \in 1..n + l - m /\ lines[m + i] = Line(k, f, d)
      BY <1>9
    <3>2. m + i \in 1..n + l /\ m + i = i + m /\ m + i > m
      BY <1>1, <1>3, <3>1
    <3>3. m + i \notin n+1..n + l
      <4>1. Line(k, f, d).kind = k
        BY DEF Line
      <4> QED
        BY <1>2, <3>1, <4>1, HeldIs
    <3>4. m + i \in m+1..n /\ m + i \in 1..n
      BY <1>1, <1>3, <3>2, <3>3
    <3> QED
      BY <1>2, <1>10, <3>1, <3>2, <3>4
  <2> QED
    BY <2>1
<1>14. \A j \in B : j - m \in A
  <2>1. ASSUME NEW j \in B PROVE j - m \in A
    <3>1. j \in m+1..n /\ recs[j].line = Line(k, f, d)
      BY <1>10
    <3>2. /\ j \in 1..n /\ j - m \in 1..n + l - m /\ m + (j - m) = j
      BY <1>1, <1>3, <3>1
    <3> QED
      BY <1>2, <1>9, <3>1, <3>2
  <2> QED
    BY <2>1
<1>15. m \in Int
  BY <1>3
<1>16. Cardinality(A) = Cardinality(B)
  BY <1>11, <1>12, <1>13, <1>14, <1>15, AsManyShifted
<1> QED
  BY <1>16 DEF A, B, lines, n

LEMMA InsideIs ==
    ASSUME NEW recs \in Seq(Recs), LogShape(recs), NEW p \in Seq(Held),
           NEW f, NEW d
    PROVE  Inside(SinceStart(Text(recs) \o p), d, f)
             = Cardinality(Said(recs, Len(recs), "enter", f, d))
                 - Cardinality(Said(recs, Len(recs), "leave", f, d))
<1> DEFINE lines == Text(recs) \o p
<1> HIDE DEF lines
<1>1. Inside(SinceStart(lines), d, f)
        = Cardinality(Times(lines, "enter", f, d))
            - Cardinality(Times(lines, "leave", f, d))
  BY DEF Inside, Times
<1>2. /\ Cardinality(Times(lines, "enter", f, d))
           = Cardinality(Said(recs, Len(recs), "enter", f, d))
      /\ Cardinality(Times(lines, "leave", f, d))
           = Cardinality(Said(recs, Len(recs), "leave", f, d))
  BY TimesSaid DEF lines
<1>3. Inside(SinceStart(lines), d, f)
        = Cardinality(Said(recs, Len(recs), "enter", f, d))
            - Cardinality(Said(recs, Len(recs), "leave", f, d))
  BY <1>1, <1>2
<1> QED
  BY <1>3 DEF lines

-------------------------------------------------------------------------------
(***************************************************************************)
(* A line is added.                                                        *)
(***************************************************************************)
\* What the filters make of a line, whatever message they were in.
Understands(line, a, s) ==
    /\ a \in Results /\ s \in FilterStates
    /\ a.code # "BUILDSTART"
    /\ a.pending => line \in Held /\ s # NoState /\ a.code = "ERROR"
    /\ ~ a.pending => s = NoState
    /\ filter_state = NoState \/ line.kind \notin {"enter", "leave"} =>
          /\ a.code = "PUSHDIR" <=> line.kind = "enter"
          /\ a.code = "POPDIR" <=> line.kind = "leave"
          /\ a.code \in {"PUSHDIR", "POPDIR"} =>
                a.file = line.file /\ a.depth = line.depth

LEMMA Applying ==
    ASSUME TypeOK, FilterInv, NEW line \in Lines
    PROVE  Understands(line, Applied(line).result, Applied(line).state)
<1> DEFINE r == IF res.pending THEN res ELSE filter_result_init
           a == Applied(line).result
           s == Applied(line).state
<1>1. filter_result_init \in Results
  BY LogAssumption DEF filter_result_init, Results, Files
<1>2. res \in Results /\ filter_state \in FilterStates
  BY DEF TypeOK
<1>3. r \in Results
  BY <1>1, <1>2
<1>4. filter_result_init.code = "UNDEFINED"
  BY DEF filter_result_init
<1>5. res.pending \in BOOLEAN
  BY <1>2 DEF Results
<1>6. r.code # "BUILDSTART" /\ (res.pending => r.code = "ERROR")
  BY <1>4, <1>5 DEF FilterInv
<1>7. filter_state # NoState => r.code = "ERROR"
  BY <1>6 DEF FilterInv
<1> HIDE DEF r
<1>8. Filtered(line, r, a, s)
  <2>1. Filtered(line, r, filter_apply(line, r).result,
                 filter_apply(line, r).state)
    BY <1>2, <1>3, Filtering
  <2> QED
    BY <2>1 DEF Applied, r
<1> HIDE DEF a, s
<1>9. Understands(line, a, s)
  BY <1>6, <1>7, <1>8 DEF Filtered, Understands
<1> QED
  BY <1>9 DEF a, s

LEMMA CurrentDirsIs ==
    ASSUME TypeOK
    PROVE  /\ CurrentDirs \in Seq(Dirs)
           /\ \A f : On(CurrentDirs, f) <=>
                 \E d \in 1..dir_max_depth : On(dir_stack[d], f)
<1> DEFINE n == dir_max_depth
           q == [i \in 1..n |-> dir_stack[n + 1 - i]]
<1>1. n \in Nat /\ \A i \in 1..n : i \in 1..MaxDepth
  BY LogAssumption DEF TypeOK
<1>2. \A i \in 1..n : n + 1 - i \in 1..n /\ n + 1 - (n + 1 - i) = i
  BY <1>1
<1>3. \A i \in 1..n : dir_stack[i] \in Seq(Dirs)
  BY <1>1 DEF TypeOK
<1> HIDE DEF n
<1>4. \A i \in 1..n : dir_stack[n + 1 - i] \in Seq(Dirs)
  BY <1>2, <1>3
<1>5. q \in Seq(Seq(Dirs))
  BY <1>1, <1>4, IsASeq
<1>6. DOMAIN q = 1..n /\ \A i \in 1..n : q[i] = dir_stack[n + 1 - i]
  OBVIOUS
<1>7. CurrentDirs = FlattenSeq(q)
  BY DEF CurrentDirs, n
<1> HIDE DEF q
<1>8. /\ FlattenSeq(q) \in Seq(Dirs)
      /\ \A f : On(FlattenSeq(q), f) <=> \E i \in DOMAIN q : On(q[i], f)
  BY <1>5, FlattenProperties
<1>9. \A f : (\E i \in DOMAIN q : On(q[i], f))
               <=> \E d \in 1..n : On(dir_stack[d], f)
  BY <1>2, <1>6
<1> QED
  BY <1>7, <1>8, <1>9 DEF n

\* The records of the lines that are added together.
LEMMA DrainedIs ==
    ASSUME NEW p \in Seq(Held), NEW line \in Lines, NEW r \in Results,
           NEW con \in Contexts,
           r.code \in Codes \ {"BUILDSTART"},
           r.code = "PUSHDIR" <=> line.kind = "enter",
           r.code = "POPDIR" <=> line.kind = "leave",
           r.code \in {"PUSHDIR", "POPDIR"} =>
              r.file = line.file /\ r.depth = line.depth
    PROVE  LET D == Drained(Append(p, line), r, con)
           IN /\ Message(D) /\ Len(D) = Len(p) + 1
              /\ D[1].code = r.code /\ D[1].file = r.file
              /\ D[1].depth = r.depth
              /\ \A i \in DOMAIN D : D[i].context = con
<1> DEFINE lines == Append(p, line)
           D == Drained(lines, r, con)
           n == Len(p) + 1
           info == [r EXCEPT !.code = "INFORMATION", !.summary = "empty"]
<1>1. n \in Nat \ {0} /\ n \in 1..n /\ 1 \in 1..n
  OBVIOUS
<1>2. /\ lines \in Seq(Lines) /\ Len(lines) = n /\ lines[n] = line
      /\ \A i \in 1..n : i < n => lines[i] \in Held
  <2>1. Held \subseteq Lines
    BY DEF Held
  <2>2. p \in Seq(Lines)
    BY <2>1
  <2> QED
    BY <2>2
<1>3. DOMAIN lines = 1..n /\ \A i \in 1..n : lines[i] \in Lines
  <2> HIDE DEF lines, n
  <2> QED
    BY <1>2
<1>4. /\ r.summary \in {"none", "text", "empty"} /\ r.file \in Files
      /\ r.depth \in 0..MaxDepth
  BY DEF Results
<1>5. /\ info \in Results /\ info.code = "INFORMATION"
      /\ info.summary = "empty" /\ info.file = r.file
      /\ info.depth = r.depth
  BY DEF Results, Codes
<1> HIDE DEF lines, n, info
<1>6. D = [i \in 1..n |-> IF i = 1 THEN LogRec(lines[1], r, con)
                          ELSE LogRec(lines[i], info, con)]
  BY <1>3 DEF Drained, info
<1>7. \A i \in 1..n : /\ LogRec(lines[i], r, con) \in Recs
                      /\ LogRec(lines[i], info, con) \in Recs
  <2>1. Lines \subseteq LogLines
    BY DEF LogLines
  <2>2. "INFORMATION" \in Codes /\ "empty" \in {"none", "text", "empty"}
    BY DEF Codes
  <2> QED
    BY <1>3, <1>4, <1>5, <2>1, <2>2 DEF LogRec, Recs
<1>8. D \in Seq(Recs) /\ DOMAIN D = 1..n
  <2>1. \A i \in 1..n : (IF i = 1 THEN LogRec(lines[1], r, con)
                         ELSE LogRec(lines[i], info, con)) \in Recs
    BY <1>1, <1>7
  <2> QED
    BY <1>1, <1>6, <2>1, IsASeq
<1>9. /\ D[1] = LogRec(lines[1], r, con)
      /\ \A i \in 1..n : /\ i # 1 => D[i] = LogRec(lines[i], info, con)
                         /\ D[i].line = lines[i] /\ D[i].context = con
  BY <1>1, <1>6 DEF LogRec
<1> HIDE DEF D
<1>10. Len(D) = n /\ D # <<>>
  <2>1. Len(D) = n
    BY <1>1, <1>8, LenProperties
  <2> QED
    BY <1>1, <2>1
<1>11. D[1].code = r.code /\ D[1].file = r.file /\ D[1].depth = r.depth
  BY <1>9 DEF LogRec
<1>12. ASSUME NEW i \in 1..n
       PROVE  /\ D[i].code # "BUILDSTART" /\ D[i].line # StartLine
              /\ i > 1 => D[i].code = "INFORMATION"
              /\ i < n => D[i].line.kind \notin {"enter", "leave"}
  <2>1. i > 1 => D[i].code = "INFORMATION"
    <3>1. i > 1 => i # 1
      BY <1>1
    <3>2. LogRec(lines[i], info, con).code = "INFORMATION"
      BY <1>5 DEF LogRec
    <3> QED
      BY <1>9, <3>1, <3>2
  <2>2. i = 1 \/ i > 1
    BY <1>1
  <2>3. D[i].line # StartLine
    BY <1>3, <1>9, LineIs
  <2>4. i < n => D[i].line.kind \notin {"enter", "leave"}
    BY <1>2, <1>9, HeldIs
  <2> QED
    BY <1>11, <2>1, <2>2, <2>3, <2>4
<1>13. /\ line = Line(line.kind, line.file, line.depth)
       /\ line.kind \in {"enter", "leave"} =>
             line.file \in Dirs /\ line.depth \in Levels
  BY LineIs
<1>14. \A k, f, d : line = Line(k, f, d) <=>
                       line.kind = k /\ line.file = f /\ line.depth = d
  <2>1. ASSUME NEW k, NEW f, NEW d
        PROVE  /\ Line(k, f, d).kind = k /\ Line(k, f, d).file = f
               /\ Line(k, f, d).depth = d
    BY DEF Line
  <2> QED
    BY <1>13, <2>1
<1>15. D[n].line = line
  BY <1>1, <1>2, <1>9
<1>16. ASSUME NEW f \in Dirs, NEW d \in Levels
       PROVE  /\ D[n].line = Line("enter", f, d) <=>
                    r.code = "PUSHDIR" /\ r.file = f /\ r.depth = d
              /\ D[n].line = Line("leave", f, d) <=>
                    r.code = "POPDIR" /\ r.file = f /\ r.depth = d
  BY <1>14, <1>15
<1>17. r.code \in {"PUSHDIR", "POPDIR"} => r.file \in Dirs /\ r.depth \in Levels
  BY <1>13
<1>18. Message(D)
  BY <1>8, <1>10, <1>11, <1>12, <1>16, <1>17 DEF Message
<1> QED
  BY <1>8, <1>9, <1>10, <1>11, <1>18 DEF D, lines, n

-------------------------------------------------------------------------------
(***************************************************************************)
(* The counts of each build.                                               *)
(***************************************************************************)
\* What belongs to a build is what came since its start, for the last one.
LEMMA TallyIs ==
    ASSUME NEW recs, Len(recs) \in Nat, NEW m \in 1..Len(recs),
           m = BeginOf(recs, Len(recs)), NEW c
    PROVE  Tally(recs, m, c) = Coded(recs, Len(recs), c)
<1> DEFINE n == Len(recs)
<1>1. Begins(recs, n, m) /\ n \in Nat /\ m \in 1..n
  BY BeginIs
<1> HIDE DEF n
<1>2. ASSUME NEW j \in m+1..n
      PROVE  BeginOf(recs, j) = m
  <2>1. j \in Nat /\ m \in 0..j /\ \A i \in m+1..j : i \in m+1..n
    BY <1>1
  <2>2. Begins(recs, j, m)
    BY <1>1, <2>1 DEF Begins
  <2> QED
    BY <2>1, <2>2, BeginIs
<1>3. Since(recs, n) = m+1..n
  BY DEF Since, n
<1> QED
  BY <1>2, <1>3 DEF Tally, Coded, n

\* It stays as it is while what is added is of another build, or not counted.
LEMMA TallyAlike ==
    ASSUME NEW recs, NEW more, Len(recs) \in Nat, Len(more) \in Nat,
           Len(recs) <= Len(more),
           \A j \in 1..Len(recs) : more[j] = recs[j],
           NEW i \in 1..Len(recs), NEW c,
           \A j \in Len(recs)+1..Len(more) :
              more[j].code # c \/ BeginOf(more, j) # i
    PROVE  Tally(more, i, c) = Tally(recs, i, c)
<1> DEFINE n == Len(recs)
           k == Len(more)
<1>1. \A j \in i+1..k : j \in n+1..k \/ j \in i+1..n
  OBVIOUS
<1>2. \A j \in i+1..n : j \in i+1..k /\ j \in 1..n
  OBVIOUS
<1> HIDE DEF n, k
<1>3. ASSUME NEW j \in i+1..n
      PROVE  BeginOf(more, j) = BeginOf(recs, j)
  <2>1. j \in Nat /\ \A x \in 1..j : x \in 1..n
    BY <1>2 DEF n
  <2>2. \A x \in 1..j : more[x].code = recs[x].code
    BY <2>1 DEF n
  <2> QED
    BY <2>1, <2>2, BeginAlike
<1>4. \A j \in i+1..n : more[j] = recs[j]
  BY <1>2 DEF n
<1>5. \A j \in n+1..k : more[j].code # c \/ BeginOf(more, j) # i
  BY DEF n, k
<1> QED
  BY <1>1, <1>2, <1>3, <1>4, <1>5 DEF Tally, n, k

LEMMA TellsAlike ==
    ASSUME NEW recs, NEW more, NEW i, NEW row, Tells(row, recs, i),
           more[i] = recs[i],
           \A c \in {"ERROR", "WARNING"} :
              Cardinality(Tally(more, i, c)) = Cardinality(Tally(recs, i, c))
    PROVE  Tells(row, more, i)
BY DEF Tells

-------------------------------------------------------------------------------
\* At the bottom of the stack is the start of the build.
LEMMA Bottom ==
    ASSUME NEW recs \in Seq(Recs), recs # <<>>, NEW stk, NEW flags,
           StackFits(stk, recs, Len(recs), flags),
           Depth(recs, Len(recs)) \in Nat
    PROVE  /\ stk # <<>>
           /\ Last(stk) = BeginOf(recs, Len(recs))
           /\ Last(stk) \in 1..Len(recs) /\ Last(stk) # Freed
           /\ recs[Last(stk)].code = "BUILDSTART"
<1> DEFINE n == Len(recs)
<1>1. n \in Nat \ {0} /\ n \in Nat
  BY EmptySeq
<1>3. /\ stk \in Seq(1..n) /\ Len(stk) \in Nat \ {0}
      /\ stk[Len(stk)] = BeginOf(recs, n)
  <2>1. Len(stk) \in Nat \ {0}
    <3>1. \A x \in Nat : 1 + x \in Nat \ {0} /\ 1 + 0 \in Nat \ {0}
      OBVIOUS
    <3> QED
      BY <3>1 DEF StackFits
  <2> QED
    BY <2>1 DEF StackFits
<1>4. Last(stk) = BeginOf(recs, n) /\ Last(stk) \in 1..n /\ stk # <<>>
  <2>1. Last(stk) = stk[Len(stk)]
    BY DEF Last
  <2>2. Len(stk) \in DOMAIN stk
    BY <1>3
  <2>3. stk[Len(stk)] \in 1..n
    BY <1>3, <2>2
  <2>4. stk # <<>>
    BY <1>3
  <2> QED
    BY <1>3, <2>1, <2>3, <2>4
<1>5. Last(stk) # Freed
  BY <1>4 DEF Freed
<1>7. recs[Last(stk)].code = "BUILDSTART"
  <2>1. Begins(recs, n, Last(stk)) /\ Last(stk) # 0
    BY <1>1, <1>4, BeginIs
  <2> QED
    BY <2>1 DEF Begins
<1> QED
  BY <1>4, <1>5, <1>7

\* The text of its row may be set.
Retold(v, e, w, told) ==
    IF told THEN [v.rows EXCEPT ![Last(v.stack)].says = <<e, w>>] ELSE v.rows

\* The counts, and all the rows but the one that is told.
CountsAre(recs, e, w) ==
    /\ e \in Nat /\ w \in Nat
    /\ e = Cardinality(Coded(recs, Len(recs), "ERROR"))
    /\ w = Cardinality(Coded(recs, Len(recs), "WARNING"))
AllTell(rws, recs, told) ==
    /\ Len(rws) = Len(recs)
    /\ \A i \in DOMAIN recs : \/ Tells(rws[i], recs, i)
                              \/ i = BeginOf(recs, Len(recs)) /\ told

LEMMA Updating ==
    ASSUME NEW v \in Views, NEW recs \in Seq(Recs), recs # <<>>,
           NEW flags, StackFits(v.stack, recs, Len(recs), flags),
           Depth(recs, Len(recs)) \in Nat,
           NEW e, NEW w, CountsAre(recs, e, w),
           NEW told \in BOOLEAN, AllTell(v.rows, recs, told)
    PROVE  /\ Retold(v, e, w, told) \in Seq(Rows)
           /\ AllTell(Retold(v, e, w, told), recs, FALSE)
<1> DEFINE n == Len(recs)
           root == Last(v.stack)
           new == Retold(v, e, w, told)
<1>1. n \in Nat \ {0} /\ n \in Nat /\ DOMAIN recs = 1..n
  BY EmptySeq
<1>2. v.rows \in Seq(Rows) /\ v.stack \in Seq(Int) /\ v.astray \in BOOLEAN
  BY DEF Views
<1>3. /\ e \in Nat /\ w \in Nat
      /\ e = Cardinality(Coded(recs, n, "ERROR"))
      /\ w = Cardinality(Coded(recs, n, "WARNING"))
      /\ Len(v.rows) = n
      /\ \A i \in 1..n : \/ Tells(v.rows[i], recs, i)
                         \/ i = BeginOf(recs, n) /\ told
  BY <1>1 DEF CountsAre, AllTell
<1>4. /\ root = BeginOf(recs, n) /\ root \in 1..n
      /\ recs[root].code = "BUILDSTART"
  BY Bottom
<1>8. /\ Tally(recs, root, "ERROR") = Coded(recs, n, "ERROR")
      /\ Tally(recs, root, "WARNING") = Coded(recs, n, "WARNING")
  BY <1>1, <1>4, TallyIs
<1>6. /\ told => new = [v.rows EXCEPT ![root].says = <<e, w>>]
      /\ ~ told => new = v.rows
  BY DEF Retold
<1> HIDE DEF n, root, new
<1>9. ASSUME told
      PROVE  /\ new \in Seq(Rows) /\ Len(new) = n
             /\ \A i \in 1..n : Tells(new[i], recs, i)
  <2>1. new = [v.rows EXCEPT ![root].says = <<e, w>>]
    BY <1>6, <1>9
  <2>2. Len(v.rows) = n /\ DOMAIN v.rows = 1..n
    BY <1>2, <1>3
  <2>3. v.rows[root] \in Rows
    BY <1>2, <1>4, <2>2
  <2>4. <<e, w>> \in Says
    BY <1>3 DEF Says
  <2>5. [v.rows[root] EXCEPT !.says = <<e, w>>] \in Rows
    BY <2>3, <2>4 DEF Rows
  <2>6. /\ new \in Seq(Rows) /\ Len(new) = n
        /\ \A i \in 1..n : i # root => new[i] = v.rows[i]
        /\ new[root] = [v.rows[root] EXCEPT !.says = <<e, w>>]
    BY <1>2, <1>4, <2>1, <2>2, <2>5
  <2>7. new[root].says = <<e, w>>
    BY <2>3, <2>6 DEF Rows
  <2>8. Tells(new[root], recs, root)
    BY <1>3, <1>4, <1>8, <2>7 DEF Tells
  <2>9. \A i \in 1..n : i # root => Tells(new[i], recs, i)
    BY <1>3, <1>4, <2>6
  <2> QED
    BY <2>6, <2>8, <2>9
<1>10. ASSUME ~ told
       PROVE  /\ new \in Seq(Rows) /\ Len(new) = n
              /\ \A i \in 1..n : Tells(new[i], recs, i)
  <2>1. new = v.rows
    BY <1>6, <1>10
  <2> QED
    BY <1>2, <1>3, <1>10, <2>1
<1> QED
  BY <1>1, <1>9, <1>10 DEF n, new, AllTell

-------------------------------------------------------------------------------
(***************************************************************************)
(* Commands whose output is not mixed, and that leave no directory they    *)
(* are not in, while the user lets them finish.                            *)
(***************************************************************************)
Calm == Circumstances \subseteq {"killed between", "killed inside"}

LEMMA CalmNot ==
    ASSUME Calm
    PROVE  /\ "stray leave" \notin Circumstances
           /\ "mixed output" \notin Circumstances
           /\ "clear while building" \notin Circumstances
           /\ "open while building" \notin Circumstances
           /\ "late output" \notin Circumstances
  BY Zenon DEF Calm

LEMMA CalmLine ==
    ASSUME Calm, NEW line, Handle(line)
    PROVE  /\ writers # {}
           /\ line.kind = "leave" => line.file \in MakesAt(line.depth)
           /\ pending # <<>> /\ filter_state # NoState =>
                 line.kind \notin {"enter", "leave"}
<1>1. writers # {} /\ Orderly(line)
  BY CalmNot, Zenon DEF Handle
<1>2. line.kind = "leave" => line.file \in MakesAt(line.depth)
  BY <1>1, CalmNot, Zenon DEF Orderly
<1>3. pending # <<>> /\ filter_state # NoState =>
         line.kind = IF Last(pending).kind = "cfe" THEN "indented" ELSE "caret"
  BY <1>1, CalmNot, Zenon DEF Orderly
<1>4. pending # <<>> /\ filter_state # NoState =>
         line.kind = "indented" \/ line.kind = "caret"
  BY <1>3, Zenon
<1>5. pending # <<>> /\ filter_state # NoState =>
         line.kind \notin {"enter", "leave"}
  BY <1>4
<1> QED
  BY <1>1, <1>2, <1>5

LEMMA CalmStart ==
    ASSUME Calm, StartBuild \/ OpenLog \/ Clear
    PROVE  writers = {}
  BY CalmNot, Zenon DEF StartBuild, OpenLog, Clear

LEMMA SettledEnd ==
    ASSUME Settled, Complete
    PROVE  \A d \in Levels : MakesAt(d) = {}
  BY Zenon DEF Settled, Complete, Levels

-------------------------------------------------------------------------------
(***************************************************************************)
(* The steps.                                                              *)
(***************************************************************************)
LEMMA EmptyDirs == LogShape(<<>>) /\ Understood(<<>>) /\ NeverStray(<<>>)
<1>1. Len(<<>>) = 0 /\ DOMAIN <<>> = {}
  OBVIOUS
<1>2. ASSUME NEW kind, NEW c, NEW f, NEW d
      PROVE  Said(<<>>, 0, kind, f, d) = {} /\ CodedAt(<<>>, 0, c, f, d) = {}
  <2>1. BeginOf(<<>>, 0) \in Nat
    BY BeginIs DEF Begins
  <2>2. Since(<<>>, 0) = {}
    BY <2>1 DEF Since
  <2> QED
    BY <2>2 DEF Said, CodedAt, Coded
<1>3. Understood(<<>>)
  BY <1>1, <1>2 DEF Understood
<1> QED
  BY <1>1, <1>3 DEF LogShape, NeverStray

\* Everything in DirsInv and the depth are as the log is.
LEMMA DepthsNat ==
    ASSUME TypeOK, DirsInv
    PROVE  /\ \A k \in DOMAIN log : Depth(log, k) \in Nat
           /\ log # <<>> => /\ Len(log) \in DOMAIN log
                            /\ Depth(log, Len(log)) \in Nat
                            /\ log[1].code = "BUILDSTART"
<1>1. log \in Seq(Recs)
  BY DEF TypeOK
<1>2. \A k \in DOMAIN log : Depth(log, k) \in Nat
  BY <1>1, DepthNat DEF DirsInv
<1>3. log # <<>> => Len(log) \in DOMAIN log
  BY <1>1, EmptySeq
<1> QED
  BY <1>2, <1>3 DEF DirsInv, LogShape

LEMMA Initially == Init => LogInv
<1> SUFFICES ASSUME Init PROVE LogInv
  OBVIOUS
<1>1. /\ log = <<>> /\ rows = <<>> /\ log_node_stack = <<>>
      /\ writers = {} /\ pending = <<>>
      /\ filter_state = NoState /\ res = filter_result_init
      /\ num_errors = 0 /\ num_warnings = 0 /\ num_ew_changed = FALSE
      /\ counted = <<0, 0>> /\ astray = FALSE
      /\ dir_max_depth = 0 /\ context = NoContext /\ context_dirty = FALSE
      /\ log_flags \in FlagSets
      /\ dir_stack = [d \in 1..MaxDepth |-> <<>>]
  BY DEF Init
<1>2. filter_result_init \in Results /\ ~ filter_result_init.pending
  BY LogAssumption DEF filter_result_init, Results, Files
<1>3. dir_stack \in [1..MaxDepth -> Seq(Dirs)]
  <2>1. <<>> \in Seq(Dirs)
    OBVIOUS
  <2> QED
    BY <1>1, <2>1
<1>4. log_flags \in SUBSET Flags
  BY <1>1, LogAssumption
<1>5. TypeOK
  <2>1. <<>> \in Seq(Recs) /\ <<>> \in Seq(Rows) /\ <<>> \in Seq(Int)
        /\ <<>> \in Seq(Lines) /\ 0 \in 0..MaxDepth
    BY LogAssumption
  <2>2. NoState \in FilterStates /\ NoContext \in Contexts
    BY DEF FilterStates, Contexts
  <2> QED
    BY <1>1, <1>2, <1>3, <1>4, <2>1, <2>2 DEF TypeOK
<1>6. FilterInv
  BY <1>1, <1>2 DEF FilterInv
<1>7. DirsInv
  BY <1>1, EmptyDirs DEF DirsInv
<1>8. WritersInv /\ StackInv /\ CountInv
  <2>1. WritersInv
    BY <1>1 DEF WritersInv
  <2>2. Len(<<>>) = 0 /\ DOMAIN <<>> = {}
    OBVIOUS
  <2>3. StackInv
    BY <1>1, <2>2 DEF StackInv
  <2>4. CountInv
    BY <1>1, <2>2 DEF CountInv
  <2> QED
    BY <2>1, <2>3, <2>4
<1> QED
  BY <1>5, <1>6, <1>7, <1>8 DEF LogInv

LEMMA HeldBack ==
    ASSUME LogInv, NEW line \in Lines, HoldLine(line),
           UNCHANGED <<writers, log_flags>>
    PROVE  LogInv'
<1> DEFINE a == Applied(line).result
           s == Applied(line).state
<1>1. TypeOK /\ FilterInv
  BY DEF LogInv
<1>2. Understands(line, a, s)
  BY <1>1, Applying
<1>3. /\ a.pending /\ res' = a /\ filter_state' = s
      /\ pending' = Append(pending, line)
      /\ log' = log /\ rows' = rows /\ log_node_stack' = log_node_stack
      /\ astray' = astray /\ dir_stack' = dir_stack
      /\ dir_max_depth' = dir_max_depth /\ context' = context
      /\ context_dirty' = context_dirty
      /\ num_errors' = num_errors /\ num_warnings' = num_warnings
      /\ num_ew_changed' = num_ew_changed /\ counted' = counted
      /\ writers' = writers /\ log_flags' = log_flags
  BY DEF HoldLine, treeVars, dirVars, countVars
<1> HIDE DEF a, s
<1>4. /\ a \in Results /\ s \in FilterStates /\ line \in Held
      /\ s # NoState /\ a.code = "ERROR"
  BY <1>2, <1>3 DEF Understands
<1>5. /\ pending' \in Seq(Held) /\ pending' \in Seq(Lines) /\ pending' # <<>>
  <2>1. pending \in Seq(Held) /\ pending \in Seq(Lines)
    BY <1>1 DEF TypeOK, FilterInv
  <2> QED
    BY <1>3, <1>4, <2>1
<1>6. TypeOK'
  BY <1>1, <1>3, <1>4, <1>5 DEF TypeOK
<1>7. FilterInv'
  BY <1>3, <1>4, <1>5 DEF FilterInv
<1>8. DirsInv' /\ WritersInv' /\ StackInv' /\ CountInv'
  <2>1. DirsInv'
    BY <1>3 DEF LogInv, DirsInv
  <2>2. WritersInv'
    BY <1>3 DEF LogInv, WritersInv
  <2>3. StackInv'
    BY <1>3 DEF LogInv, StackInv
  <2>4. CountInv'
    BY <1>3 DEF LogInv, CountInv
  <2> QED
    BY <2>1, <2>2, <2>3, <2>4
<1> QED
  BY <1>6, <1>7, <1>8 DEF LogInv

-------------------------------------------------------------------------------
\* The first place of an element, and the sequence without what is there.
PlaceOf(q, f) == SelectInSeq(q, LAMBDA x : x = f)

LEMMA FirstPlace ==
    ASSUME NEW S, NEW q \in Seq(S), NEW f, Contains(q, f)
    PROVE  PlaceOf(q, f) \in 1..Len(q) /\ q[PlaceOf(q, f)] = f
<1> DEFINE I == {i \in 1..Len(q) : q[i] = f}
<1>1. I # {} /\ I \in SUBSET Nat
  BY DEF Contains
<1>2. PlaceOf(q, f) = Min(I)
  BY <1>1 DEF SelectInSeq, PlaceOf
<1>3. Min(I) \in I
  <2> HIDE DEF I
  <2> QED
    BY <1>1, LeastOf
<1> QED
  BY <1>2, <1>3

LEMMA RemovedIsSeq ==
    ASSUME NEW S, NEW q \in Seq(S), NEW i \in 1..Len(q)
    PROVE  RemoveAt(q, i) \in Seq(S)
<1>1. SubSeq(q, 1, i - 1) \in Seq(S) /\ SubSeq(q, i + 1, Len(q)) \in Seq(S)
  OBVIOUS
<1> HIDE DEF RemoveAt
<1> QED
  BY <1>1, ConcatProperties DEF RemoveAt

DirsOK ==
    /\ dir_stack \in [1..MaxDepth -> Seq(Dirs)]
    /\ dir_max_depth \in 0..MaxDepth
    /\ context_dirty \in BOOLEAN

LEMMA PushedDir ==
    ASSUME DirsOK, NEW d \in Levels, NEW f \in Dirs, log_push_dir(d, f)
    PROVE  DirsOK'
<1>1. CASE d > dir_max_depth + 1
  BY <1>1 DEF DirsOK, log_push_dir
<1>2. CASE ~ (d > dir_max_depth + 1)
  <2>1. /\ dir_max_depth' = IF d > dir_max_depth THEN d ELSE dir_max_depth
        /\ dir_stack' = [dir_stack EXCEPT ![d] = <<f>> \o @]
        /\ context_dirty' = TRUE
    BY <1>2 DEF log_push_dir
  <2>2. dir_stack[d] \in Seq(Dirs) /\ <<f>> \in Seq(Dirs)
    BY DEF DirsOK, Levels
  <2>3. <<f>> \o dir_stack[d] \in Seq(Dirs)
    BY <2>2, ConcatProperties
  <2>4. dir_max_depth' \in 0..MaxDepth
    BY <2>1, LogAssumption DEF DirsOK, Levels
  <2>5. dir_stack' \in [1..MaxDepth -> Seq(Dirs)]
    BY <2>1, <2>3 DEF DirsOK, Levels
  <2> QED
    BY <2>1, <2>4, <2>5 DEF DirsOK
<1> QED
  BY <1>1, <1>2

LEMMA PoppedDir ==
    ASSUME DirsOK, NEW d \in Levels, NEW f \in Dirs, log_pop_dir(d, f)
    PROVE  DirsOK'
<1>1. CASE d > dir_max_depth
  BY <1>1 DEF DirsOK, log_pop_dir
<1>2. CASE ~ (d > dir_max_depth)
  <2> DEFINE q == dir_stack[d]
             rest == IF Contains(q, f) THEN RemoveAt(q, PlaceOf(q, f)) ELSE q
  <2>1. /\ dir_max_depth' = dir_max_depth -
              (IF d = dir_max_depth /\ rest = <<>> THEN 1 ELSE 0)
        /\ dir_stack' = [dir_stack EXCEPT ![d] = rest]
        /\ context_dirty' = (context_dirty \/ Contains(q, f))
    BY <1>2 DEF log_pop_dir, PlaceOf
  <2>2. q \in Seq(Dirs)
    BY DEF DirsOK, Levels
  <2>3. rest \in Seq(Dirs)
    BY <2>2, FirstPlace, RemovedIsSeq
  <2>4. context_dirty' \in BOOLEAN
    BY <2>1 DEF DirsOK
  <2> HIDE DEF q, rest
  <2>5. dir_stack' \in [1..MaxDepth -> Seq(Dirs)]
    BY <2>1, <2>3 DEF DirsOK, Levels
  <2>6. dir_max_depth' \in 0..MaxDepth
    BY <1>2, <2>1, LogAssumption DEF DirsOK, Levels
  <2> QED
    BY <2>4, <2>5, <2>6 DEF DirsOK
<1> QED
  BY <1>1, <1>2

LEMMA ClearedDirs ==
    ASSUME DirsOK, log_clear_dirs
    PROVE  DirsOK'
<1>1. <<>> \in Seq(Dirs)
  OBVIOUS
<1> QED
  BY <1>1, LogAssumption DEF DirsOK, log_clear_dirs

-------------------------------------------------------------------------------
\* log_add_line() in parts.
Outcome(a) ==
    CASE a.code = "UNDEFINED" -> [a EXCEPT !.code = "INFORMATION"]
      [] a.code = "PUSHDIR" -> [a EXCEPT !.summary = "text"]
      [] OTHER -> a
Relative(a) ==
    a.code \in {"INFORMATION", "WARNING", "ERROR"} /\ a.file # NoFile
LookedUpIn(a) == IF Relative(a) THEN log_get_context ELSE NoContext
Block(line) ==
    Drained(Append(pending, line), Outcome(Applied(line).result),
            LookedUpIn(Applied(line).result))
Extended(line) == log \o Block(line)
Errors(line) ==
    num_errors
      + (IF Outcome(Applied(line).result).code = "ERROR" THEN 1 ELSE 0)
Warnings(line) ==
    num_warnings
      + (IF Outcome(Applied(line).result).code = "WARNING" THEN 1 ELSE 0)
ShownLine(line) ==
    ShowFrom(View(rows), Extended(line), log_flags, Len(log) + 1)
CountsChange(line) ==
    num_ew_changed
      \/ Outcome(Applied(line).result).code \in {"ERROR", "WARNING"}

LEMMA AddIs ==
    ASSUME NEW line, AddLine(line)
    PROVE  LET a == Applied(line).result IN
           /\ ~ a.pending
           /\ filter_state' = Applied(line).state
           /\ res' = filter_result_init /\ pending' = <<>>
           /\ a.code = "PUSHDIR" => log_push_dir(a.depth, a.file)
           /\ a.code = "POPDIR" => log_pop_dir(a.depth, a.file)
           /\ a.code \notin {"PUSHDIR", "POPDIR"} =>
                 /\ UNCHANGED <<dir_stack, dir_max_depth>>
                 /\ context_dirty' = (context_dirty /\ ~ Relative(a))
           /\ context' = IF Relative(a) THEN log_get_context ELSE context
           /\ log' = Extended(line)
           /\ num_errors' = Errors(line) /\ num_warnings' = Warnings(line)
           /\ log_node_stack' = ShownLine(line).stack
           /\ log_update_build_start(ShownLine(line), Errors(line),
                                     Warnings(line), CountsChange(line), FALSE)
  BY DEF AddLine, Outcome, Relative, LookedUpIn, Block, Extended, Errors,
         Warnings, ShownLine, CountsChange

LEMMA ContextIs ==
    ASSUME TypeOK
    PROVE  log_get_context \in Contexts
<1>1. context \in Contexts /\ CurrentDirs \in Contexts
  BY CurrentDirsIs DEF TypeOK, Contexts
<1> QED
  BY <1>1 DEF log_get_context

LEMMA BlockIs ==
    ASSUME TypeOK, FilterInv, NEW line \in Lines,
           filter_state = NoState \/ line.kind \notin {"enter", "leave"}
    PROVE  LET r == Outcome(Applied(line).result)
               D == Block(line)
           IN /\ r.code \in Codes \ {"BUILDSTART"}
              /\ Message(D) /\ Len(D) = Len(pending) + 1
              /\ D[1].code = r.code /\ D[1].file = r.file
              /\ D[1].depth = r.depth
              /\ \A i \in DOMAIN D :
                    D[i].context = LookedUpIn(Applied(line).result)
              /\ r.code = "PUSHDIR" <=> line.kind = "enter"
              /\ r.code = "POPDIR" <=> line.kind = "leave"
              /\ r.code \in {"PUSHDIR", "POPDIR"} =>
                    r.file = line.file /\ r.depth = line.depth
<1> DEFINE a == Applied(line).result
           r == Outcome(a)
           con == LookedUpIn(a)
<1>1. Understands(line, a, Applied(line).state)
  BY Applying
<1>2. con \in Contexts
  <2>1. NoContext \in Contexts
    BY DEF Contexts
  <2> QED
    BY <2>1, ContextIs DEF LookedUpIn
<1> HIDE DEF a
<1>3. /\ a \in Results /\ a.code # "BUILDSTART"
      /\ a.code = "PUSHDIR" <=> line.kind = "enter"
      /\ a.code = "POPDIR" <=> line.kind = "leave"
      /\ a.code \in {"PUSHDIR", "POPDIR"} =>
            a.file = line.file /\ a.depth = line.depth
  BY <1>1 DEF Understands
<1>4. /\ r \in Results /\ r.code \in Codes \ {"BUILDSTART"}
      /\ r.code = "PUSHDIR" <=> a.code = "PUSHDIR"
      /\ r.code = "POPDIR" <=> a.code = "POPDIR"
      /\ r.file = a.file /\ r.depth = a.depth
  <2>1. CASE a.code = "UNDEFINED"
    BY <1>3, <2>1 DEF Outcome, Results, Codes
  <2>2. CASE a.code = "PUSHDIR"
    BY <1>3, <2>2 DEF Outcome, Results, Codes
  <2>3. CASE a.code # "UNDEFINED" /\ a.code # "PUSHDIR"
    <3>1. r = a
      BY <2>3 DEF Outcome
    <3>2. a.code \in Codes \cup {"UNDEFINED"}
      BY <1>3 DEF Results
    <3> QED
      BY <1>3, <2>3, <3>1, <3>2
  <2> QED
    BY <2>1, <2>2, <2>3
<1>5. pending \in Seq(Held)
  BY DEF FilterInv
<1> HIDE DEF r, con
<1>6. /\ r.code = "PUSHDIR" <=> line.kind = "enter"
      /\ r.code = "POPDIR" <=> line.kind = "leave"
      /\ r.code \in {"PUSHDIR", "POPDIR"} =>
            r.file = line.file /\ r.depth = line.depth
  BY <1>3, <1>4
<1> DEFINE D == Drained(Append(pending, line), r, con)
<1>7. /\ Message(D) /\ Len(D) = Len(pending) + 1
      /\ D[1].code = r.code /\ D[1].file = r.file /\ D[1].depth = r.depth
      /\ \A i \in DOMAIN D : D[i].context = con
  BY <1>2, <1>4, <1>5, <1>6, DrainedIs
<1>8. D = Block(line)
  BY DEF Block, r, con, a
<1> HIDE DEF D
<1> QED
  BY <1>4, <1>6, <1>7, <1>8 DEF r, con, a

LEMMA CountsNat ==
    ASSUME NEW recs, NEW k \in Nat \ {0}, NEW c
    PROVE  /\ Cardinality(Coded(recs, k, c)) \in Nat
           /\ \A f, d : Cardinality(CodedAt(recs, k, c, f, d)) \in Nat
           /\ \A f, d : Cardinality(Said(recs, k, c, f, d)) \in Nat
<1>1. IsFiniteSet(Since(recs, k))
  BY SinceStep
<1>2. \A A : A \subseteq Since(recs, k) => Cardinality(A) \in Nat
  BY <1>1, FS_Subset, FS_CardinalityType
<1>3. /\ Coded(recs, k, c) \subseteq Since(recs, k)
      /\ \A f, d : CodedAt(recs, k, c, f, d) \subseteq Since(recs, k)
      /\ \A f, d : Said(recs, k, c, f, d) \subseteq Since(recs, k)
  BY DEF Coded, CodedAt, Said
<1> QED
  BY <1>2, <1>3

\* The log, with the records of the message.
LEMMA AddLog ==
    ASSUME LogInv, Calm, NEW line \in Lines, Handle(line)
    PROVE  LET more == Extended(line) IN
           /\ log # <<>> /\ log \in Seq(Recs)
           /\ filter_state = NoState \/ line.kind \notin {"enter", "leave"}
           /\ Message(Block(line))
           /\ Adds(log, Block(line), more)
           /\ LogShape(more) /\ Understood(more) /\ NeverStray(more)
<1> DEFINE D == Block(line)
           more == Extended(line)
<1>1. /\ TypeOK /\ FilterInv /\ WritersInv
      /\ LogShape(log) /\ Understood(log) /\ NeverStray(log)
  BY DEF LogInv, DirsInv
<1>2. log \in Seq(Recs) /\ log # <<>> /\ pending \in Seq(Held)
  BY <1>1, CalmLine DEF TypeOK, WritersInv, FilterInv
<1>3. filter_state = NoState \/ line.kind \notin {"enter", "leave"}
  BY <1>1, CalmLine DEF FilterInv
<1>4. /\ Message(D)
      /\ D[1].code = "POPDIR" =>
            /\ line.kind = "leave"
            /\ D[1].file = line.file /\ D[1].depth = line.depth
  BY <1>1, <1>3, BlockIs
<1>5. more = log \o D
  BY DEF Extended
<1> HIDE DEF D, more
<1>6. Adds(log, D, more)
  BY <1>2, <1>4, <1>5, MessageAdds
<1>7. ASSUME D[1].code = "POPDIR"
      PROVE  Cardinality(CodedAt(log, Len(log), "POPDIR",
                                 D[1].file, D[1].depth))
               < Cardinality(CodedAt(log, Len(log), "PUSHDIR",
                                     D[1].file, D[1].depth))
  <2> DEFINE f == line.file
             d == line.depth
             n == Len(log)
  <2>1. f \in MakesAt(d) /\ f \in Dirs /\ d \in Levels
    BY <1>4, <1>7, CalmLine, LineIs
  <2>2. Inside(SinceStart(Text(log) \o pending), d, f) > 0
    BY <2>1 DEF MakesAt
  <2>3. Inside(SinceStart(Text(log) \o pending), d, f)
          = Cardinality(Said(log, n, "enter", f, d))
              - Cardinality(Said(log, n, "leave", f, d))
    BY <1>1, <1>2, InsideIs
  <2>4. /\ Cardinality(Said(log, n, "enter", f, d))
             = Cardinality(CodedAt(log, n, "PUSHDIR", f, d))
        /\ Cardinality(Said(log, n, "leave", f, d))
             = Cardinality(CodedAt(log, n, "POPDIR", f, d))
    BY <1>1, <2>1 DEF Understood
  <2>5. /\ Cardinality(CodedAt(log, n, "PUSHDIR", f, d)) \in Nat
        /\ Cardinality(CodedAt(log, n, "POPDIR", f, d)) \in Nat
    <3>1. n \in Nat \ {0}
      BY <1>2, EmptySeq
    <3> QED
      BY <3>1, CountsNat
  <2> HIDE DEF f, d, n
  <2>6. \A p, q \in Nat : p - q > 0 => q < p
    OBVIOUS
  <2>7. Cardinality(CodedAt(log, n, "POPDIR", f, d))
          < Cardinality(CodedAt(log, n, "PUSHDIR", f, d))
    BY <2>2, <2>3, <2>4, <2>5, <2>6
  <2> QED
    BY <1>4, <1>7, <2>7 DEF f, d, n
<1>8. LogShape(more) /\ Understood(more) /\ NeverStray(more)
  BY <1>1, <1>2, <1>4, <1>6, <1>7, MessageDirs
<1> QED
  BY <1>2, <1>3, <1>4, <1>6, <1>8 DEF D, more

\* Its counts.
LEMMA AddCounts ==
    ASSUME LogInv, Calm, NEW line \in Lines, Handle(line)
    PROVE  LET more == Extended(line) IN
           /\ Errors(line) \in Nat /\ Warnings(line) \in Nat
           /\ Cardinality(Coded(more, Len(more), "ERROR")) = Errors(line)
           /\ Cardinality(Coded(more, Len(more), "WARNING")) = Warnings(line)
<1> DEFINE D == Block(line)
           more == Extended(line)
           k == Len(more)
           r == Outcome(Applied(line).result)
<1>1. /\ log # <<>> /\ log \in Seq(Recs)
      /\ Message(D) /\ Adds(log, D, more)
      /\ filter_state = NoState \/ line.kind \notin {"enter", "leave"}
  BY AddLog
<1>2. D[1].code = r.code
  BY <1>1, BlockIs DEF LogInv
<1>3. /\ Cardinality(Coded(log, Len(log), "ERROR")) = num_errors
      /\ Cardinality(Coded(log, Len(log), "WARNING")) = num_warnings
      /\ num_errors \in Nat /\ num_warnings \in Nat
  BY <1>1 DEF LogInv, CountInv, TypeOK
<1> HIDE DEF D, more, r
<1>4. k \in Len(log) + 1..Len(more)
  BY <1>1 DEF Adds
<1>5. Counted(log, more, k, D)
  BY <1>1, <1>4, MessageCounts
<1>6. "ERROR" \in Codes \ {"INFORMATION"} /\ "WARNING" \in Codes \ {"INFORMATION"}
  BY DEF Codes
<1>7. /\ Cardinality(Coded(more, k, "ERROR"))
           = num_errors + (IF r.code = "ERROR" THEN 1 ELSE 0)
      /\ Cardinality(Coded(more, k, "WARNING"))
           = num_warnings + (IF r.code = "WARNING" THEN 1 ELSE 0)
  BY <1>2, <1>3, <1>5, <1>6 DEF Counted
<1>8. /\ Errors(line) = num_errors + (IF r.code = "ERROR" THEN 1 ELSE 0)
      /\ Warnings(line) = num_warnings + (IF r.code = "WARNING" THEN 1 ELSE 0)
  BY DEF Errors, Warnings, r
<1>9. Errors(line) \in Nat /\ Warnings(line) \in Nat
  BY <1>3, <1>8
<1> QED
  BY <1>7, <1>8, <1>9 DEF more, k

\* Its tree.
LEMMA AddTree ==
    ASSUME LogInv, Calm, NEW line \in Lines, Handle(line)
    PROVE  LET more == Extended(line) IN
           /\ StackFits(log_node_stack, more, Len(log), log_flags)
           /\ \A j \in DOMAIN more : Depth(more, j) \in Nat
           /\ After(ShownLine(line), View(rows), more, log_flags,
                    Len(log) + 1, Len(more))
           /\ View(rows) \in Views /\ MayShow(log_node_stack, more, Len(log) + 1)
<1> DEFINE D == Block(line)
           more == Extended(line)
           n == Len(log)
<1>1. /\ log # <<>> /\ log \in Seq(Recs)
      /\ Adds(log, D, more)
      /\ LogShape(more) /\ Understood(more) /\ NeverStray(more)
  BY AddLog
<1>2. StackFits(log_node_stack, log, n, log_flags)
  BY <1>1 DEF LogInv, StackInv
<1>3. View(rows) \in Views /\ View(rows).stack = log_node_stack
  BY DEF View, Views, LogInv, TypeOK
<1> HIDE DEF D, more
<1>4. /\ n \in Nat \ {0} /\ n \in Nat /\ more \in Seq(Recs)
      /\ \A j \in 1..n : more[j] = log[j]
      /\ n + 1 \in 1..Len(more) + 1
      /\ n < Len(more) /\ Len(more) \in Nat
  BY <1>1 DEF Adds
<1> HIDE DEF n
<1>12. n \in Nat /\ SameUpTo(log, more, n)
  BY <1>4 DEF SameUpTo
<1>13. Retells(log, more, n)
  BY <1>12, Alike
<1>14. /\ BeginOf(more, n) = BeginOf(log, n)
       /\ \A c : Coded(more, n, c) = Coded(log, n, c)
  BY <1>13, Zenon DEF Retells
<1>5. /\ BeginOf(more, n) = BeginOf(log, n)
      /\ Coded(more, n, "PUSHDIR") = Coded(log, n, "PUSHDIR")
      /\ Coded(more, n, "POPDIR") = Coded(log, n, "POPDIR")
  BY <1>14
<1>6. Depth(more, n) = Depth(log, n)
  BY <1>5 DEF Depth
<1>7. StackFits(log_node_stack, more, n, log_flags)
  BY <1>2, <1>5, <1>6 DEF StackFits
<1>8. \A j \in DOMAIN more : Depth(more, j) \in Nat
  BY <1>1, <1>4, DepthNat
<1>9. MayShow(log_node_stack, more, n + 1)
  BY <1>4, <1>7, FitsNoneFreed DEF MayShow
<1>10. n + 1 > 1 /\ (n + 1) - 1 = n
  BY <1>4
<1>11. After(ShowFrom(View(rows), more, log_flags, n + 1), View(rows), more,
             log_flags, n + 1, Len(more))
  BY <1>3, <1>4, <1>7, <1>8, <1>10, ShowAll
<1> QED
  BY <1>3, <1>7, <1>8, <1>9, <1>11 DEF more, n, ShownLine

\* The rows tell what they told, but for the one that is told anew.
LEMMA AddTells ==
    ASSUME LogInv, Calm, NEW line \in Lines, Handle(line)
    PROVE  LET more == Extended(line) IN
           /\ Len(ShownLine(line).rows) = Len(more)
           /\ \A i \in DOMAIN more :
                 \/ Tells(ShownLine(line).rows[i], more, i)
                 \/ /\ i = BeginOf(more, Len(more))
                    /\ FALSE \/ (/\ CountsChange(line)
                                 /\ Errors(line) + Warnings(line) > 0)
<1> DEFINE D == Block(line)
           more == Extended(line)
           n == Len(log)
           k == Len(more)
           r == Outcome(Applied(line).result)
           v == ShownLine(line)
           told == CountsChange(line) /\ Errors(line) + Warnings(line) > 0
<1>1. /\ log # <<>> /\ log \in Seq(Recs)
      /\ Message(D) /\ Adds(log, D, more)
      /\ filter_state = NoState \/ line.kind \notin {"enter", "leave"}
  BY AddLog
<1>2. D[1].code = r.code
  BY <1>1, BlockIs DEF LogInv
<1>3. /\ rows \in Seq(Rows) /\ Len(rows) = n /\ num_ew_changed \in BOOLEAN
      /\ num_errors \in Nat /\ num_warnings \in Nat
      /\ \A i \in DOMAIN log : Tells(rows[i], log, i)
  BY DEF LogInv, TypeOK, CountInv
<1>4. After(v, View(rows), more, log_flags, n + 1, k)
  BY AddTree
<1>5. r.code \in {"ERROR", "WARNING"} => told
  <2>1. /\ r.code = "ERROR" => Errors(line) = num_errors + 1
        /\ r.code = "WARNING" => Warnings(line) = num_warnings + 1
        /\ Errors(line) \in Nat /\ Warnings(line) \in Nat
    BY AddCounts DEF Errors, Warnings
  <2>2. r.code \in {"ERROR", "WARNING"} => CountsChange(line)
    BY DEF CountsChange
  <2> HIDE DEF r
  <2>3. r.code \in {"ERROR", "WARNING"} => Errors(line) + Warnings(line) > 0
    BY <1>3, <2>1
  <2> QED
    BY <2>2, <2>3
<1> HIDE DEF D, more, r, v, told
<1>6. /\ n \in Nat \ {0} /\ n \in Nat /\ more \in Seq(Recs)
      /\ \A j \in 1..n : more[j] = log[j]
      /\ n < k /\ k \in Nat /\ n <= k
      /\ \A j \in n+1..k : /\ more[j].code # "BUILDSTART"
                           /\ j # n + 1 => more[j].code = "INFORMATION"
      /\ more[n + 1].code = r.code
  BY <1>1, <1>2 DEF Adds
<1>7. View(rows).rows = rows /\ DOMAIN rows = 1..n /\ DOMAIN log = 1..n
  BY <1>1, <1>3 DEF View
<1>8. DOMAIN more = 1..k
  BY <1>6
<1> HIDE DEF n, k
<1>9. /\ Len(v.rows) = k
      /\ \A i \in 1..n : v.rows[i] = rows[i]
      /\ \A i \in 1..k : i > n => v.rows[i].says = Plain
  <2>1. /\ v \in Views
        /\ Len(v.rows) = Len(rows) + (k - ((n + 1) - 1))
        /\ \A i \in DOMAIN rows : v.rows[i] = rows[i]
        /\ \A i \in DOMAIN v.rows : i > Len(rows) => v.rows[i].says = Plain
    <3> DEFINE u == View(rows)
    <3>5. After(v, u, more, log_flags, n + 1, k)
      BY <1>4
    <3> HIDE DEF u
    <3>1. /\ v \in Views
          /\ Len(v.rows) = Len(u.rows) + (k - ((n + 1) - 1))
          /\ \A i \in DOMAIN u.rows : v.rows[i] = u.rows[i]
          /\ \A i \in DOMAIN v.rows : i > Len(u.rows) => v.rows[i].says = Plain
      BY <3>5, Zenon DEF After
    <3>2. u.rows = rows
      BY <1>7 DEF u
    <3> QED
      BY <3>1, <3>2
  <2>2. Len(rows) + (k - ((n + 1) - 1)) = k
    BY <1>3, <1>6 DEF n
  <2>3. Len(v.rows) = k
    BY <2>1, <2>2
  <2>4. DOMAIN v.rows = 1..k
    <3>1. v.rows \in Seq(Rows)
      BY <2>1 DEF Views
    <3> QED
      BY <2>3, <3>1
  <2> QED
    BY <1>3, <1>7, <2>1, <2>3, <2>4 DEF n
<1>10. \A j \in n+1..k : BeginOf(more, j) = BeginOf(log, n)
  <2>1. ASSUME NEW j \in n+1..k PROVE BeginOf(more, j) = BeginOf(log, n)
    <3>1. j \in Nat /\ n <= j /\ \A x \in n+1..j : x \in n+1..k
      BY <1>6
    <3>2. \A x \in n+1..j : more[x].code # "BUILDSTART"
      BY <1>6, <3>1
    <3>3. BeginOf(more, j) = BeginOf(more, n)
      BY <1>6, <3>1, <3>2, BlockSince
    <3>4. BeginOf(more, n) = BeginOf(log, n)
      <4>1. n \in Nat /\ SameUpTo(log, more, n)
        BY <1>6 DEF SameUpTo
      <4>2. Retells(log, more, n)
        BY <4>1, Alike
      <4> QED
        BY <4>2, Zenon DEF Retells
    <3> QED
      BY <3>3, <3>4
  <2> QED
    BY <2>1
<1>11. BeginOf(more, k) = BeginOf(log, n)
  BY <1>6, <1>10
<1>12. ASSUME NEW i \in 1..n, ~ (i = BeginOf(more, k) /\ told)
       PROVE  Tells(rows[i], more, i)
  <2>1. ASSUME NEW c \in {"ERROR", "WARNING"}
        PROVE  Tally(more, i, c) = Tally(log, i, c)
    <3>1. \A j \in n+1..k : more[j].code # c \/ BeginOf(more, j) # i
      <4>1. CASE i # BeginOf(more, k)
        BY <1>10, <1>11, <4>1
      <4>2. CASE ~ told
        <5>1. r.code \notin {"ERROR", "WARNING"}
          BY <1>5, <4>2
        <5>2. \A j \in n+1..k : more[j].code \notin {"ERROR", "WARNING"}
          BY <1>6, <5>1
        <5> QED
          BY <2>1, <5>2
      <4> QED
        BY <1>12, <4>1, <4>2
    <3>2. Len(log) \in Nat /\ Len(more) \in Nat /\ Len(log) <= Len(more)
      BY <1>6 DEF n, k
    <3> QED
      BY <1>6, <3>1, <3>2, TallyAlike DEF n, k
  <2>2. Tells(rows[i], log, i) /\ more[i] = log[i]
    BY <1>3, <1>6, <1>7
  <2>3. \A c \in {"ERROR", "WARNING"} :
           Cardinality(Tally(more, i, c)) = Cardinality(Tally(log, i, c))
    BY <2>1
  <2> QED
    BY <2>2, <2>3, TellsAlike
<1>13. ASSUME NEW i \in 1..k, ~ (i = BeginOf(more, k) /\ told)
       PROVE  Tells(v.rows[i], more, i)
  <2>1. i \in 1..n \/ i > n
    BY <1>6
  <2>2. CASE i \in 1..n
    BY <1>9, <1>12, <1>13, <2>2
  <2>3. CASE i > n
    BY <1>9, <2>3 DEF Tells
  <2> QED
    BY <2>1, <2>2, <2>3
<1>14. \A i \in 1..k : \/ Tells(v.rows[i], more, i)
                       \/ i = BeginOf(more, k) /\ told
  BY <1>13
<1> QED
  BY <1>8, <1>9, <1>14 DEF more, v, k, told

LEMMA Added ==
    ASSUME LogInv, Calm, NEW line \in Lines, Handle(line), AddLine(line)
    PROVE  LogInv'
<1> DEFINE a == Applied(line).result
           more == Extended(line)
           v == ShownLine(line)
           k == Len(more)
<1>1. TypeOK /\ FilterInv
  BY DEF LogInv
<1>2. /\ log # <<>> /\ log \in Seq(Recs) /\ Adds(log, Block(line), more)
      /\ LogShape(more) /\ Understood(more) /\ NeverStray(more)
      /\ filter_state = NoState \/ line.kind \notin {"enter", "leave"}
  BY AddLog
<1>3. /\ Errors(line) \in Nat /\ Warnings(line) \in Nat
      /\ Cardinality(Coded(more, k, "ERROR")) = Errors(line)
      /\ Cardinality(Coded(more, k, "WARNING")) = Warnings(line)
  BY AddCounts
<1>4. /\ \A j \in DOMAIN more : Depth(more, j) \in Nat
      /\ After(v, View(rows), more, log_flags, Len(log) + 1, k)
      /\ View(rows) \in Views
      /\ MayShow(log_node_stack, more, Len(log) + 1)
  BY AddTree
<1>5. /\ Len(v.rows) = k
      /\ \A i \in DOMAIN more :
            \/ Tells(v.rows[i], more, i)
            \/ /\ i = BeginOf(more, k)
               /\ FALSE \/ (/\ CountsChange(line)
                            /\ Errors(line) + Warnings(line) > 0)
  BY AddTells
<1>6. Understands(line, a, Applied(line).state)
  BY <1>1, Applying
<1>7. /\ ~ a.pending
      /\ filter_state' = Applied(line).state
      /\ res' = filter_result_init /\ pending' = <<>>
      /\ a.code = "PUSHDIR" => log_push_dir(a.depth, a.file)
      /\ a.code = "POPDIR" => log_pop_dir(a.depth, a.file)
      /\ a.code \notin {"PUSHDIR", "POPDIR"} =>
            /\ UNCHANGED <<dir_stack, dir_max_depth>>
            /\ context_dirty' = (context_dirty /\ ~ Relative(a))
      /\ context' = IF Relative(a) THEN log_get_context ELSE context
      /\ log' = more
      /\ num_errors' = Errors(line) /\ num_warnings' = Warnings(line)
      /\ log_node_stack' = v.stack
      /\ log_update_build_start(v, Errors(line), Warnings(line),
                                CountsChange(line), FALSE)
  BY AddIs
<1>8. writers' = writers /\ log_flags' = log_flags /\ writers # {}
  BY CalmLine DEF Handle
<1> HIDE DEF a, more, v, k
<1>9. /\ more \in Seq(Recs) /\ more # <<>> /\ k \in Nat \ {0} /\ k \in DOMAIN more
      /\ Len(log) + 1 <= k
  <2>1. more \in Seq(Recs) /\ k \in Nat /\ Len(log) \in Nat /\ Len(log) < k
    BY <1>2 DEF Adds, k
  <2>2. k > 0 /\ k \in 1..k /\ Len(log) + 1 <= k
    BY <2>1
  <2>3. more # <<>> /\ DOMAIN more = 1..k
    BY <2>1, <2>2, EmptySeq DEF k
  <2> QED
    BY <2>1, <2>2, <2>3
<1>10. /\ v \in Views /\ StackFits(v.stack, more, k, log_flags)
       /\ v.astray = astray
  BY <1>4, <1>9 DEF After, View
<1>11. CountsChange(line) \in BOOLEAN /\ FALSE \in BOOLEAN
  BY <1>1 DEF CountsChange, TypeOK
<1>12. Depth(more, k) \in Nat
  BY <1>4, <1>9
<1> DEFINE told == CountsChange(line) /\ Errors(line) + Warnings(line) > 0
<1>13. /\ rows' \in Seq(Rows) /\ Len(rows') = k
       /\ \A i \in DOMAIN more : Tells(rows'[i], more, i)
       /\ astray' = v.astray
       /\ num_ew_changed' \in BOOLEAN
       /\ counted' = IF told THEN <<Errors(line), Warnings(line)>> ELSE counted
  <2>1. /\ Depth(more, Len(more)) \in Nat
        /\ StackFits(v.stack, more, Len(more), log_flags)
        /\ CountsAre(more, Errors(line), Warnings(line))
    BY <1>3, <1>10, <1>12 DEF k, CountsAre
  <2>2. AllTell(v.rows, more, told)
    BY <1>5 DEF k, AllTell
  <2>3. v.stack # <<>> /\ Last(v.stack) # Freed
    BY <1>9, <2>1, Bottom
  <2>4. /\ rows' = Retold(v, Errors(line), Warnings(line), told)
        /\ astray' = v.astray
        /\ counted' = IF told THEN <<Errors(line), Warnings(line)>> ELSE counted
        /\ num_ew_changed' \in BOOLEAN
    <3>1. v.astray \in BOOLEAN
      BY <1>10 DEF Views
    <3> QED
      BY <1>7, <2>3, <3>1 DEF log_update_build_start, Retold
  <2>5. told \in BOOLEAN
    OBVIOUS
  <2> HIDE DEF told
  <2>6. /\ Retold(v, Errors(line), Warnings(line), told) \in Seq(Rows)
        /\ AllTell(Retold(v, Errors(line), Warnings(line), told), more, FALSE)
    BY <1>9, <1>10, <2>1, <2>2, <2>5, Updating
  <2> QED
    BY <2>4, <2>6 DEF k, AllTell
<1>14. dir_stack' \in [1..MaxDepth -> Seq(Dirs)] /\ dir_max_depth' \in 0..MaxDepth
       /\ context_dirty' \in BOOLEAN
  <2>1. DirsOK
    BY <1>1 DEF TypeOK, DirsOK
  <2>2. a.code \in {"PUSHDIR", "POPDIR"} => a.depth \in Levels /\ a.file \in Dirs
    BY <1>2, <1>6, LineIs DEF Understands
  <2>3. CASE a.code = "PUSHDIR"
    BY <1>7, <2>1, <2>2, <2>3, PushedDir DEF DirsOK
  <2>4. CASE a.code = "POPDIR"
    BY <1>7, <2>1, <2>2, <2>4, PoppedDir DEF DirsOK
  <2>5. CASE a.code \notin {"PUSHDIR", "POPDIR"}
    BY <1>7, <2>1, <2>5 DEF DirsOK
  <2> QED
    BY <2>3, <2>4, <2>5
<1>15. context' \in Contexts
  BY <1>1, <1>7, ContextIs DEF TypeOK
<1>16. filter_state' = NoState /\ filter_state' \in FilterStates
  BY <1>6, <1>7 DEF Understands
<1>17. filter_result_init \in Results /\ ~ filter_result_init.pending
  BY LogAssumption DEF filter_result_init, Results, Files
<1>18. counted' \in Nat \X Nat
  BY <1>1, <1>3, <1>13 DEF TypeOK
<1>19. TypeOK'
  <2>1. pending' \in Seq(Lines)
    BY <1>7
  <2>2. log_node_stack' \in Seq(Int) /\ v.astray \in BOOLEAN
    BY <1>7, <1>10 DEF Views
  <2>3. log_flags' \in SUBSET Flags /\ writers' \in SUBSET {"build", "file"}
    BY <1>1, <1>8 DEF TypeOK
  <2>4. /\ log' \in Seq(Recs) /\ rows' \in Seq(Rows) /\ Len(rows') = Len(log')
    BY <1>7, <1>9, <1>13 DEF k
  <2> QED
    BY <1>3, <1>7, <1>13, <1>14, <1>15, <1>16, <1>17, <1>18, <2>1, <2>2, <2>3,
       <2>4 DEF TypeOK
<1>20. FilterInv'
  BY <1>7, <1>16, <1>17 DEF FilterInv
<1>21. DirsInv'
  BY <1>2, <1>7 DEF DirsInv, more
<1>22. WritersInv'
  BY <1>7, <1>8, <1>9 DEF LogInv, WritersInv
<1>23. StackInv'
  <2>1. StackFits(log_node_stack', log', Len(log'), log_flags')
    BY <1>7, <1>8, <1>10 DEF k
  <2>2. Settled => ~ astray'
    BY <1>10, <1>13 DEF LogInv, StackInv
  <2> QED
    BY <1>7, <1>9, <2>1, <2>2 DEF StackInv
<1>24. CountInv'
  <2>1. /\ Cardinality(Coded(log', Len(log'), "ERROR")) = num_errors'
        /\ Cardinality(Coded(log', Len(log'), "WARNING")) = num_warnings'
    BY <1>3, <1>7 DEF k
  <2>2. ASSUME "build" \in writers',
               <<num_errors', num_warnings'>> # <<0, 0>>
        PROVE  counted' = <<num_errors', num_warnings'>>
    <3>1. num_errors \in Nat /\ num_warnings \in Nat
      BY <1>1 DEF TypeOK
    <3>2. CASE CountsChange(line)
      <4>1. \A x, y \in Nat : <<x, y>> # <<0, 0>> => x + y > 0
        OBVIOUS
      <4>2. Errors(line) + Warnings(line) > 0
        BY <1>3, <1>7, <2>2, <4>1
      <4> QED
        BY <1>7, <1>13, <3>2, <4>2
    <3>3. CASE ~ CountsChange(line)
      <4>1. Errors(line) = num_errors /\ Warnings(line) = num_warnings
        BY <3>1, <3>3 DEF Errors, Warnings, CountsChange
      <4>2. <<num_errors, num_warnings>> # <<0, 0>> /\ "build" \in writers
        BY <1>7, <1>8, <2>2, <4>1
      <4>3. counted = <<num_errors, num_warnings>>
        BY <4>2 DEF LogInv, CountInv
      <4> QED
        BY <1>7, <1>13, <3>3, <4>1, <4>3
    <3> QED
      BY <3>2, <3>3
  <2>3. \A i \in DOMAIN log' : Tells(rows'[i], log', i)
    BY <1>7, <1>13
  <2> QED
    BY <2>1, <2>2, <2>3 DEF CountInv
<1> QED
  BY <1>19, <1>20, <1>21, <1>22, <1>23, <1>24 DEF LogInv

-------------------------------------------------------------------------------
\* Between builds, at most the start of the last one is on the stack.
LEMMA StackBetween ==
    ASSUME LogInv, writers = {}, Settled
    PROVE  Len(log_node_stack) <= 1
<1>1. CASE log = <<>>
  BY <1>1 DEF LogInv, StackInv
<1>2. CASE log # <<>>
  <2>1. StackFits(log_node_stack, log, Len(log), log_flags)
    BY <1>2 DEF LogInv, StackInv
  <2>2. Depth(log, Len(log)) = 0
    BY <1>2 DEF LogInv, WritersInv
  <2>3. \A b : 1 + (IF b THEN 0 ELSE 0) <= 1
    OBVIOUS
  <2> QED
    BY <2>1, <2>2, <2>3 DEF StackFits
<1> QED
  BY <1>1, <1>2

StartRec == [LogRec(StartLine, filter_result_init, NoContext)
                EXCEPT !.code = "BUILDSTART"]

LEMMA StartRecIs ==
    /\ StartRec \in Recs /\ StartRec.code = "BUILDSTART"
    /\ StartRec.line = StartLine /\ StartRec.context = NoContext
<1>1. StartRec = [line |-> StartLine, code |-> "BUILDSTART",
                  summary |-> "none", file |-> NoFile, depth |-> 0,
                  context |-> NoContext]
  BY DEF StartRec, LogRec, filter_result_init
<1>2. /\ StartLine \in LogLines /\ NoFile \in Files /\ 0 \in 0..MaxDepth
      /\ NoContext \in Contexts /\ "BUILDSTART" \in Codes
  BY LogAssumption DEF LogLines, Files, Contexts, Codes
<1> QED
  BY <1>1, <1>2 DEF Recs

\* A log with one more build is as it should be.
LEMMA StartLog ==
    ASSUME NEW recs \in Seq(Recs), LogShape(recs), NeverStray(recs)
    PROVE  LET more == Append(recs, StartRec)
               k == Len(recs) + 1
           IN /\ more \in Seq(Recs) /\ more # <<>> /\ Len(more) = k
              /\ k \in Nat \ {0} /\ k \in DOMAIN more
              /\ more[k] = StartRec
              /\ \A i \in 1..Len(recs) : more[i] = recs[i]
              /\ LogShape(more) /\ Understood(more) /\ NeverStray(more)
              /\ Depth(more, k) = 0
              /\ \A c : Cardinality(Coded(more, k, c)) = 0
<1> DEFINE more == Append(recs, StartRec)
           n == Len(recs)
           k == n + 1
<1>1. n \in Nat /\ k \in Nat \ {0} /\ k \in Nat /\ k - 1 = n /\ DOMAIN recs = 1..n
  OBVIOUS
<1>2. /\ more \in Seq(Recs) /\ Len(more) = k /\ more[k] = StartRec
      /\ \A i \in 1..n : more[i] = recs[i]
  BY StartRecIs
<1> HIDE DEF more, n
<1>3. DOMAIN more = 1..k /\ more # <<>> /\ k \in 1..k
  BY <1>1, <1>2
<1>4. more[k].code = "BUILDSTART" /\ more[k].line = StartLine
  BY <1>2, StartRecIs
<1>5. \A i \in 1..k : i \in 1..n \/ i = k
  BY <1>1
<1>6. LogShape(more)
  <2>1. more[1].code = "BUILDSTART"
    <3>1. CASE n = 0
      BY <1>4, <3>1
    <3>2. CASE n # 0
      <4>1. 1 \in 1..n
        BY <1>1, <3>2
      <4>2. recs # <<>>
        BY <3>2 DEF n
      <4> QED
        BY <1>2, <4>1, <4>2 DEF LogShape
    <3> QED
      BY <3>1, <3>2
  <2>2. \A i \in 1..k :
           /\ more[i].code = "BUILDSTART" <=> more[i].line = StartLine
           /\ more[i].code \in {"PUSHDIR", "POPDIR"} =>
                 more[i].file \in Dirs /\ more[i].depth \in Levels
    BY <1>1, <1>2, <1>4, <1>5 DEF LogShape
  <2> QED
    BY <1>3, <2>1, <2>2 DEF LogShape
<1>7. ASSUME NEW c
      PROVE  /\ Cardinality(Coded(more, k, c)) = 0
             /\ \A f, d : Cardinality(CodedAt(more, k, c, f, d)) = 0
             /\ \A f, d : Cardinality(Said(more, k, c, f, d)) = 0
  <2>1. Since(more, k) = {}
    BY <1>1, <1>4, SinceStep
  <2>2. /\ Coded(more, k, c) = {}
        /\ \A f, d : CodedAt(more, k, c, f, d) = {}
        /\ \A f, d : Said(more, k, c, f, d) = {}
    BY <2>1 DEF Coded, CodedAt, Said
  <2> QED
    BY <2>2, FS_EmptySet
<1>8. Understood(more)
  BY <1>2, <1>7 DEF Understood
<1>9. NeverStray(more)
  <2>1. ASSUME NEW i \in 1..k, NEW f \in Dirs, NEW d \in Levels
        PROVE  Cardinality(CodedAt(more, i, "POPDIR", f, d))
                 <= Cardinality(CodedAt(more, i, "PUSHDIR", f, d))
    <3>1. CASE i \in 1..n
      <4>1. i \in Nat /\ SameUpTo(recs, more, i)
        BY <1>1, <1>2, <3>1 DEF SameUpTo
      <4>2. Retells(recs, more, i)
        BY <4>1, Alike
      <4>3. \A b, e, x : CodedAt(more, i, b, e, x) = CodedAt(recs, i, b, e, x)
        BY <4>2, Zenon DEF Retells
      <4> QED
        BY <1>1, <3>1, <4>3 DEF NeverStray
    <3>2. CASE i = k
      <4>1. /\ Cardinality(CodedAt(more, i, "POPDIR", f, d)) = 0
            /\ Cardinality(CodedAt(more, i, "PUSHDIR", f, d)) = 0
        BY <1>7, <3>2
      <4> QED
        BY <4>1
    <3> QED
      BY <1>5, <3>1, <3>2
  <2> QED
    BY <1>3, <2>1 DEF NeverStray
<1>10. Depth(more, k) = 0
  BY <1>1, <1>4, DepthStep
<1> QED
  BY <1>1, <1>2, <1>3, <1>6, <1>7, <1>8, <1>9, <1>10 DEF more, n

LEMMA Started ==
    ASSUME LogInv, NEW cleared \in BOOLEAN, log_start_build(cleared),
           writers = {}, counted' = counted,
           writers' = {"build"} \/ writers' = {"file"}
    PROVE  LogInv'
<1> DEFINE kept == IF cleared THEN <<>> ELSE log
           old == IF cleared THEN <<>> ELSE rows
           stk == IF cleared THEN [i \in DOMAIN log_node_stack |-> Freed]
                  ELSE log_node_stack
           more == Append(kept, StartRec)
           k == Len(kept) + 1
           v == [rows |-> old, stack |-> stk, astray |-> astray]
           w == log_show_rec(v, more, log_flags, k)
<1>1. /\ TypeOK /\ FilterInv
      /\ LogShape(log) /\ Understood(log) /\ NeverStray(log)
  BY DEF LogInv, DirsInv
<1>2. /\ kept \in Seq(Recs) /\ old \in Seq(Rows) /\ Len(old) = Len(kept)
      /\ LogShape(kept) /\ NeverStray(kept)
      /\ \A i \in DOMAIN kept : Tells(old[i], kept, i)
  <2>1. CASE cleared
    <3>1. /\ <<>> \in Seq(Recs) /\ <<>> \in Seq(Rows) /\ DOMAIN <<>> = {}
      OBVIOUS
    <3> QED
      BY <2>1, <3>1, EmptyDirs
  <2>2. CASE ~ cleared
    <3>1. /\ log \in Seq(Recs) /\ rows \in Seq(Rows) /\ Len(rows) = Len(log)
          /\ \A i \in DOMAIN log : Tells(rows[i], log, i)
      BY DEF LogInv, TypeOK, CountInv
    <3> QED
      BY <1>1, <2>2, <3>1
  <2> QED
    BY <2>1, <2>2
<1>3. stk \in Seq(Int) /\ Len(stk) = Len(log_node_stack)
  <2>1. log_node_stack \in Seq(Int)
    BY <1>1 DEF TypeOK
  <2>2. /\ [i \in DOMAIN log_node_stack |-> Freed] \in Seq(Int)
        /\ Len([i \in DOMAIN log_node_stack |-> Freed]) = Len(log_node_stack)
    BY <2>1 DEF Freed
  <2> QED
    BY <2>1, <2>2
<1>4. Settled => MayShow(stk, more, k)
  <2>1. more[k] = StartRec
    BY <1>2, StartLog
  <2>2. Settled => Len(log_node_stack) <= 1
    BY StackBetween
  <2> HIDE DEF stk, more, k
  <2> QED
    BY <1>3, <2>1, <2>2, StartRecIs DEF MayShow
<1>5. /\ Len(more) + Len(pending) <= MaxRecords
      /\ log_clear_dirs
      /\ num_errors' = 0 /\ num_warnings' = 0 /\ num_ew_changed' = FALSE
      /\ filter_state' = NoState
      /\ log' = more /\ context' = context /\ res' = res
      /\ pending' = pending /\ log_flags' = log_flags
      /\ rows' = log_show_rec(v, more, log_flags, Len(more)).rows
      /\ log_node_stack' = log_show_rec(v, more, log_flags, Len(more)).stack
      /\ astray' = log_show_rec(v, more, log_flags, Len(more)).astray
  BY DEF log_start_build, StartRec
<1>6. v \in Views /\ v.stack = stk /\ v.rows = old /\ v.astray = astray
  <2>1. astray \in BOOLEAN
    BY <1>1 DEF TypeOK
  <2> HIDE DEF stk, old
  <2> QED
    BY <1>2, <1>3, <2>1 DEF Views
<1> HIDE DEF kept, old, stk, v
<1>7. /\ more \in Seq(Recs) /\ more # <<>> /\ Len(more) = k
      /\ k \in Nat \ {0} /\ k \in DOMAIN more
      /\ more[k] = StartRec
      /\ \A i \in 1..Len(kept) : more[i] = kept[i]
      /\ LogShape(more) /\ Understood(more) /\ NeverStray(more)
      /\ Depth(more, k) = 0
      /\ \A c : Cardinality(Coded(more, k, c)) = 0
  BY <1>2, StartLog
<1>8. rows' = w.rows /\ log_node_stack' = w.stack /\ astray' = w.astray
  BY <1>5, <1>7
<1>15. Len(kept) \in Nat /\ DOMAIN kept = 1..Len(kept) /\ k = Len(kept) + 1
  BY <1>2
<1> HIDE DEF more, k
<1>9. /\ w \in Views
      /\ Len(w.rows) = Len(old) + 1
      /\ \A j \in DOMAIN old : w.rows[j] = old[j]
      /\ w.rows[Len(old) + 1].says = Plain
  BY <1>6, <1>7, ShowOne
<1>10. StackFits(w.stack, more, k, log_flags)
  <2>1. Depth(more, k) \in Nat /\ more[k].code = "BUILDSTART"
    BY <1>7, StartRecIs
  <2>2. StackFits(Stacked(stk, more[k], log_flags, k), more, k, log_flags)
    BY <1>7, <2>1, StackStep
  <2>3. w.stack = Stacked(stk, more[k], log_flags, k)
    BY <1>6, ShowStacks
  <2> QED
    BY <2>2, <2>3
<1>11. Settled => w.astray = astray
  BY <1>4, <1>6, StaysSound
<1> HIDE DEF w
<1>12. \A i \in DOMAIN more : Tells(w.rows[i], more, i)
  <2> DEFINE n == Len(kept)
  <2>1. n \in Nat /\ DOMAIN kept = 1..n /\ DOMAIN old = 1..n
        /\ Len(more) = n + 1 /\ DOMAIN more = 1..n + 1 /\ k = n + 1
        /\ Len(old) = n
    BY <1>2, <1>7, <1>15
  <2>2. /\ \A i \in 1..n : more[i] = kept[i] /\ w.rows[i] = old[i]
        /\ more[n + 1].code = "BUILDSTART"
        /\ w.rows[n + 1].says = Plain
    BY <1>7, <1>9, <2>1, StartRecIs
  <2> HIDE DEF n
  <2>3. ASSUME NEW i \in 1..n PROVE Tells(w.rows[i], more, i)
    <3>1. \A c \in {"ERROR", "WARNING"} : Tally(more, i, c) = Tally(kept, i, c)
      <4>1. ASSUME NEW c \in {"ERROR", "WARNING"}
            PROVE  Tally(more, i, c) = Tally(kept, i, c)
        <5>1. \A j \in n+1..n+1 : j = n + 1
          BY <2>1
        <5>2. \A j \in n+1..n+1 : more[j].code # c \/ BeginOf(more, j) # i
          BY <2>2, <5>1
        <5>3. /\ Len(kept) = n /\ Len(kept) \in Nat /\ Len(more) \in Nat
              /\ Len(kept) <= Len(more)
          BY <2>1 DEF n
        <5>4. /\ \A j \in Len(kept)+1..Len(more) :
                    more[j].code # c \/ BeginOf(more, j) # i
              /\ \A j \in 1..Len(kept) : more[j] = kept[j]
              /\ i \in 1..Len(kept)
          BY <2>1, <2>2, <5>2, <5>3
        <5> QED
          BY <5>3, <5>4, TallyAlike
      <4> QED
        BY <4>1
    <3>2. Tells(old[i], kept, i)
      BY <1>2, <2>1
    <3>3. \A c \in {"ERROR", "WARNING"} :
             Cardinality(Tally(more, i, c)) = Cardinality(Tally(kept, i, c))
      BY <3>1
    <3>4. more[i] = kept[i] /\ w.rows[i] = old[i]
      BY <2>2
    <3> QED
      BY <3>2, <3>3, <3>4, TellsAlike
  <2>4. Tells(w.rows[n + 1], more, n + 1)
    BY <2>2 DEF Tells
  <2>5. \A i \in 1..n + 1 : i \in 1..n \/ i = n + 1
    BY <2>1
  <2> QED
    BY <2>1, <2>3, <2>4, <2>5
<1>13. DirsOK'
  BY <1>1, <1>5, ClearedDirs DEF TypeOK, DirsOK
<1>14. TypeOK'
  <2>1. /\ w.rows \in Seq(Rows) /\ w.stack \in Seq(Int)
        /\ w.astray \in BOOLEAN /\ Len(w.rows) = Len(more)
    BY <1>2, <1>7, <1>9, <1>15 DEF Views
  <2>2. writers' \in SUBSET {"build", "file"}
    OBVIOUS
  <2>3. counted' \in Nat \X Nat /\ NoState \in FilterStates
    BY <1>1 DEF TypeOK, FilterStates
  <2> QED
    BY <1>1, <1>5, <1>7, <1>8, <1>13, <2>1, <2>2, <2>3 DEF TypeOK, DirsOK
<1>16. FilterInv'
  BY <1>1, <1>5 DEF FilterInv
<1>17. DirsInv'
  BY <1>5, <1>7 DEF DirsInv
<1>18. WritersInv'
  <2>1. writers' # {"build", "file"} /\ writers' # {}
    OBVIOUS
  <2> QED
    BY <1>5, <1>7, <2>1 DEF WritersInv
<1>19. StackInv'
  <2>1. Settled => ~ astray'
    BY <1>8, <1>11 DEF LogInv, StackInv
  <2> QED
    BY <1>5, <1>7, <1>8, <1>10, <2>1 DEF StackInv
<1>20. CountInv'
  BY <1>5, <1>7, <1>8, <1>12 DEF CountInv
<1> QED
  BY <1>14, <1>16, <1>17, <1>18, <1>19, <1>20 DEF LogInv

-------------------------------------------------------------------------------
\* When commands end outside of all directories, nothing is open.
LEMMA NothingOpen ==
    ASSUME TypeOK, FilterInv, DirsInv, log # <<>>, Settled, Complete
    PROVE  Depth(log, Len(log)) = 0
<1> DEFINE n == Len(log)
<1>1. /\ log \in Seq(Recs) /\ pending \in Seq(Held)
      /\ LogShape(log) /\ Understood(log) /\ NeverStray(log)
  BY DEF TypeOK, FilterInv, DirsInv
<1>2. n \in Nat \ {0} /\ n \in DOMAIN log
  BY <1>1, EmptySeq
<1>3. ASSUME NEW f \in Dirs, NEW d \in Levels
      PROVE  Cardinality(CodedAt(log, n, "PUSHDIR", f, d))
               <= Cardinality(CodedAt(log, n, "POPDIR", f, d))
  <2>1. f \notin MakesAt(d)
    BY SettledEnd
  <2>2. ~ (Inside(SinceStart(Text(log) \o pending), d, f) > 0)
    BY <2>1 DEF MakesAt
  <2>3. Inside(SinceStart(Text(log) \o pending), d, f)
          = Cardinality(Said(log, n, "enter", f, d))
              - Cardinality(Said(log, n, "leave", f, d))
    BY <1>1, InsideIs
  <2>4. /\ Cardinality(Said(log, n, "enter", f, d))
             = Cardinality(CodedAt(log, n, "PUSHDIR", f, d))
        /\ Cardinality(Said(log, n, "leave", f, d))
             = Cardinality(CodedAt(log, n, "POPDIR", f, d))
    BY <1>1 DEF Understood
  <2>5. /\ Cardinality(CodedAt(log, n, "PUSHDIR", f, d)) \in Nat
        /\ Cardinality(CodedAt(log, n, "POPDIR", f, d)) \in Nat
    BY <1>2, CountsNat
  <2>6. \A p, q \in Nat : ~ (p - q > 0) => p <= q
    OBVIOUS
  <2> HIDE DEF n
  <2> QED
    BY <2>2, <2>3, <2>4, <2>5, <2>6
<1>4. Cardinality(Coded(log, n, "PUSHDIR")) <= Cardinality(Coded(log, n, "POPDIR"))
  BY <1>1, <1>2, <1>3, Classes
<1>5. Depth(log, n) \in Nat
  BY <1>1, <1>2, DepthNat
<1>6. /\ Cardinality(Coded(log, n, "PUSHDIR")) \in Nat
      /\ Cardinality(Coded(log, n, "POPDIR")) \in Nat
  BY <1>2, CountsNat
<1>7. \A p, q \in Nat : p <= q /\ p - q \in Nat => p - q = 0
  OBVIOUS
<1> HIDE DEF n
<1>8. Depth(log, n) = 0
  BY <1>4, <1>5, <1>6, <1>7 DEF Depth
<1> QED
  BY <1>8 DEF n

LEMMA Ended ==
    ASSUME LogInv, EndBuild
    PROVE  LogInv'
<1> DEFINE e == num_errors
           w == num_warnings
           v == View(rows)
           told == TRUE
<1>1. /\ TypeOK /\ FilterInv /\ DirsInv
      /\ LogShape(log) /\ Understood(log) /\ NeverStray(log)
  BY DEF LogInv, DirsInv
<1>2. /\ "build" \in writers /\ Complete /\ writers' = writers \ {"build"}
      /\ log_update_build_start(v, e, w, num_ew_changed, TRUE)
      /\ log' = log /\ log_node_stack' = log_node_stack
      /\ dir_stack' = dir_stack /\ dir_max_depth' = dir_max_depth
      /\ context' = context /\ context_dirty' = context_dirty
      /\ filter_state' = filter_state /\ res' = res /\ pending' = pending
      /\ num_errors' = num_errors /\ num_warnings' = num_warnings
      /\ log_flags' = log_flags
  BY DEF EndBuild, dirVars, filterVars
<1>3. log # <<>> /\ log \in Seq(Recs) /\ Depth(log, Len(log)) \in Nat
  BY <1>1, <1>2, DepthsNat DEF LogInv, WritersInv, TypeOK
<1>4. /\ v \in Views /\ v.stack = log_node_stack /\ v.rows = rows
      /\ v.astray = astray
  BY <1>1 DEF TypeOK, View, Views
<1>5. StackFits(v.stack, log, Len(log), log_flags)
  BY <1>3, <1>4 DEF LogInv, StackInv
<1>6. CountsAre(log, e, w) /\ AllTell(v.rows, log, told)
  BY <1>1, <1>3, <1>4 DEF LogInv, CountInv, TypeOK, CountsAre, AllTell
<1> HIDE DEF v
<1>7. v.stack # <<>> /\ Last(v.stack) # Freed
  BY <1>3, <1>5, Bottom
<1>8. /\ rows' = Retold(v, e, w, told) /\ astray' = astray
      /\ num_ew_changed' \in BOOLEAN
      /\ counted' = IF num_ew_changed THEN <<e, w>> ELSE counted
  <2>1. astray \in BOOLEAN
    BY <1>1 DEF TypeOK
  <2> QED
    BY <1>2, <1>4, <1>7, <2>1 DEF log_update_build_start, Retold
<1>9. told \in BOOLEAN
  OBVIOUS
<1> HIDE DEF told, e, w
<1>10. /\ Retold(v, e, w, told) \in Seq(Rows)
       /\ AllTell(Retold(v, e, w, told), log, FALSE)
  BY <1>3, <1>4, <1>5, <1>6, <1>9, Updating
<1>11. /\ rows' \in Seq(Rows) /\ Len(rows') = Len(log)
       /\ \A i \in DOMAIN log : Tells(rows'[i], log, i)
  BY <1>8, <1>10 DEF AllTell
<1>12. TypeOK'
  <2>1. counted' \in Nat \X Nat
    BY <1>1, <1>8 DEF TypeOK, e, w
  <2> QED
    BY <1>1, <1>2, <1>8, <1>11, <2>1 DEF TypeOK
<1>13. FilterInv'
  BY <1>1, <1>2 DEF FilterInv
<1>14. DirsInv'
  BY <1>1, <1>2 DEF DirsInv
<1>15. WritersInv'
  <2>1. writers' # {"build", "file"}
    BY <1>2
  <2>2. Settled => Depth(log, Len(log)) = 0
    BY <1>1, <1>2, <1>3, NothingOpen
  <2> QED
    BY <1>2, <1>3, <2>1, <2>2 DEF WritersInv
<1>16. StackInv'
  BY <1>2, <1>3, <1>8 DEF LogInv, StackInv
<1>17. CountInv'
  <2>1. "build" \notin writers'
    BY <1>2
  <2> QED
    BY <1>2, <1>11, <2>1 DEF LogInv, CountInv
<1> QED
  BY <1>12, <1>13, <1>14, <1>15, <1>16, <1>17 DEF LogInv

LEMMA Closed ==
    ASSUME LogInv, CloseLog
    PROVE  LogInv'
<1>1. /\ TypeOK /\ FilterInv /\ DirsInv
  BY DEF LogInv
<1>2. /\ "file" \in writers /\ Complete /\ writers' = writers \ {"file"}
      /\ counted' = <<0, 0>>
      /\ log' = log /\ log_node_stack' = log_node_stack /\ rows' = rows
      /\ astray' = astray
      /\ dir_stack' = dir_stack /\ dir_max_depth' = dir_max_depth
      /\ context' = context /\ context_dirty' = context_dirty
      /\ filter_state' = filter_state /\ res' = res /\ pending' = pending
      /\ num_errors' = num_errors /\ num_warnings' = num_warnings
      /\ num_ew_changed' = num_ew_changed /\ log_flags' = log_flags
  BY DEF CloseLog, treeVars, countVars, dirVars, filterVars
<1>3. log # <<>> /\ "build" \notin writers'
  BY <1>2 DEF LogInv, WritersInv, TypeOK
<1>4. TypeOK'
  <2>1. <<0, 0>> \in Nat \X Nat
    OBVIOUS
  <2> QED
    BY <1>1, <1>2, <2>1 DEF TypeOK
<1>5. FilterInv' /\ DirsInv'
  BY <1>1, <1>2 DEF FilterInv, DirsInv
<1>6. WritersInv'
  <2>1. writers' # {"build", "file"}
    BY <1>2
  <2>2. Settled => Depth(log, Len(log)) = 0
    BY <1>1, <1>2, <1>3, NothingOpen
  <2> QED
    BY <1>2, <1>3, <2>1, <2>2 DEF WritersInv
<1>7. StackInv'
  BY <1>2, <1>3 DEF LogInv, StackInv
<1>8. CountInv'
  BY <1>2, <1>3 DEF LogInv, CountInv
<1> QED
  BY <1>4, <1>5, <1>6, <1>7, <1>8 DEF LogInv

LEMMA Emptied ==
    ASSUME LogInv, Clear, writers = {}
    PROVE  LogInv'
<1>1. TypeOK /\ FilterInv
  BY DEF LogInv
<1>2. /\ log' = <<>> /\ rows' = <<>>
      /\ log_node_stack' = [i \in DOMAIN log_node_stack |-> Freed]
      /\ writers' = writers /\ astray' = astray
      /\ dir_stack' = dir_stack /\ dir_max_depth' = dir_max_depth
      /\ context' = context /\ context_dirty' = context_dirty
      /\ filter_state' = filter_state /\ res' = res /\ pending' = pending
      /\ num_errors' = num_errors /\ num_warnings' = num_warnings
      /\ num_ew_changed' = num_ew_changed /\ counted' = counted
      /\ log_flags' = log_flags
  BY DEF Clear, countVars, dirVars, filterVars
<1>3. /\ log_node_stack' \in Seq(Int)
      /\ Len(log_node_stack') = Len(log_node_stack)
  <2>1. log_node_stack \in Seq(Int)
    BY <1>1 DEF TypeOK
  <2> QED
    BY <1>2, <2>1 DEF Freed
<1>4. /\ <<>> \in Seq(Recs) /\ <<>> \in Seq(Rows) /\ Len(<<>>) = 0
      /\ DOMAIN <<>> = {}
  OBVIOUS
<1>5. TypeOK'
  <2>1. log' \in Seq(Recs) /\ rows' \in Seq(Rows) /\ Len(rows') = Len(log')
    BY <1>2, <1>4
  <2> QED
    BY <1>1, <1>2, <1>3, <2>1 DEF TypeOK
<1>6. FilterInv'
  BY <1>1, <1>2 DEF FilterInv
<1>7. DirsInv'
  BY <1>2, EmptyDirs DEF DirsInv
<1>8. WritersInv'
  BY <1>2 DEF WritersInv
<1>9. StackInv'
  <2>1. Settled => Len(log_node_stack') <= 1
    BY <1>3, StackBetween
  <2> QED
    BY <1>2, <2>1 DEF LogInv, StackInv
<1>10. CountInv'
  <2>1. "build" \notin writers'
    BY <1>2
  <2>2. log' = <<>> /\ DOMAIN log' = {}
    BY <1>2, <1>4
  <2> QED
    BY <2>1, <2>2 DEF CountInv
<1> QED
  BY <1>5, <1>6, <1>7, <1>8, <1>9, <1>10 DEF LogInv

LEMMA Repopulated ==
    ASSUME LogInv, NEW flags \in FlagSets, SetFlags(flags)
    PROVE  LogInv'
<1> DEFINE v == View(<<>>)
           w == ShowFrom(v, log, flags, 1)
           n == Len(log)
<1>1. /\ TypeOK /\ FilterInv /\ DirsInv
  BY DEF LogInv
<1>2. /\ log_flags' = flags /\ rows' = w.rows /\ log_node_stack' = w.stack
      /\ astray' = w.astray
      /\ writers' = writers /\ log' = log
      /\ dir_stack' = dir_stack /\ dir_max_depth' = dir_max_depth
      /\ context' = context /\ context_dirty' = context_dirty
      /\ filter_state' = filter_state /\ res' = res /\ pending' = pending
      /\ num_errors' = num_errors /\ num_warnings' = num_warnings
      /\ num_ew_changed' = num_ew_changed /\ counted' = counted
  BY DEF SetFlags, dirVars, filterVars, countVars
<1>3. /\ \A k \in DOMAIN log : Depth(log, k) \in Nat
      /\ log # <<>> => log[1].code = "BUILDSTART"
  BY <1>1, DepthsNat
<1>4. log \in Seq(Recs) /\ n \in Nat /\ DOMAIN log = 1..n
  BY <1>1 DEF TypeOK
<1>5. /\ v \in Views /\ v.rows = <<>> /\ v.stack = log_node_stack
      /\ v.astray = astray
  <2>1. <<>> \in Seq(Rows)
    OBVIOUS
  <2> QED
    BY <1>1, <2>1 DEF TypeOK, View, Views
<1> HIDE DEF v
<1>6. After(w, v, log, flags, 1, n)
  <2>1. 1 \in 1..n + 1 /\ (1 <= n => log # <<>>)
    BY <1>4
  <2>2. 1 <= n => log[1].code = "BUILDSTART"
    BY <1>3, <2>1
  <2> QED
    BY <1>3, <1>4, <1>5, <2>1, <2>2, ShowAll
<1> HIDE DEF w, n
<1>7. /\ w \in Views
      /\ Len(w.rows) = Len(v.rows) + (n - (1 - 1))
      /\ \A m \in DOMAIN w.rows : m > Len(v.rows) => w.rows[m].says = Plain
      /\ n = 1 - 1 => w = v
      /\ n >= 1 => StackFits(w.stack, log, n, flags)
      /\ MayShow(v.stack, log, 1) => w.astray = v.astray
  BY <1>6, Zenon DEF After
<1>8. /\ Len(w.rows) = n
      /\ \A m \in 1..n : w.rows[m].says = Plain
  <2>1. Len(v.rows) = 0
    BY <1>5
  <2>2. Len(w.rows) = n
    BY <1>4, <1>7, <2>1
  <2>3. w.rows \in Seq(Rows)
    BY <1>7 DEF Views
  <2>4. DOMAIN w.rows = 1..n /\ \A m \in 1..n : m > 0
    BY <1>4, <2>2, <2>3
  <2> QED
    BY <1>7, <2>1, <2>2, <2>4
<1>9. w.astray = astray
  <2>1. CASE log = <<>>
    <3>1. n = 1 - 1
      BY <2>1 DEF n
    <3> QED
      BY <1>5, <1>7, <3>1
  <2>2. CASE log # <<>>
    <3>1. StackFits(log_node_stack, log, n, log_flags)
      BY <2>2 DEF LogInv, StackInv, n
    <3>2. MayShow(v.stack, log, 1)
      BY <1>4, <1>5, <3>1, FitsNoneFreed DEF MayShow
    <3> QED
      BY <1>5, <1>7, <3>2
  <2> QED
    BY <2>1, <2>2
<1>10. TypeOK'
  <2>1. w.rows \in Seq(Rows) /\ w.stack \in Seq(Int) /\ w.astray \in BOOLEAN
    BY <1>7 DEF Views
  <2>2. log_flags' \in SUBSET Flags
    BY <1>2, LogAssumption
  <2>3. Len(rows') = Len(log')
    BY <1>2, <1>8 DEF n
  <2> QED
    BY <1>1, <1>2, <2>1, <2>2, <2>3 DEF TypeOK
<1>11. FilterInv' /\ DirsInv'
  BY <1>1, <1>2 DEF FilterInv, DirsInv
<1>12. WritersInv'
  BY <1>2 DEF LogInv, WritersInv
<1>13. StackInv'
  <2>1. log # <<>> => n >= 1
    BY <1>4, EmptySeq DEF n
  <2>2. log # <<>> => StackFits(log_node_stack', log', Len(log'), log_flags')
    BY <1>2, <1>7, <2>1 DEF n
  <2>3. log = <<>> => log_node_stack' = log_node_stack
    <3>1. log = <<>> => n = 1 - 1
      BY DEF n
    <3> QED
      BY <1>2, <1>5, <1>7, <3>1
  <2> QED
    BY <1>2, <1>9, <2>2, <2>3 DEF LogInv, StackInv
<1>14. CountInv'
  <2>1. \A i \in DOMAIN log' : Tells(rows'[i], log', i)
    BY <1>2, <1>4, <1>8 DEF Tells
  <2> QED
    BY <1>2, <2>1 DEF LogInv, CountInv
<1> QED
  BY <1>10, <1>11, <1>12, <1>13, <1>14 DEF LogInv

LEMMA EachStep ==
    ASSUME Calm, LogInv, [Next]_vars
    PROVE  LogInv'
<1>1. ASSUME NEW line \in Lines, Handle(line) PROVE LogInv'
  <2>1. /\ UNCHANGED <<writers, log_flags>>
        /\ HoldLine(line) \/ AddLine(line)
    BY <1>1 DEF Handle
  <2>2. CASE HoldLine(line)
    BY <2>1, <2>2, HeldBack
  <2>3. CASE AddLine(line)
    BY <1>1, <2>3, Added
  <2> QED
    BY <2>1, <2>2, <2>3
<1>2. ASSUME StartBuild PROVE LogInv'
  <2>1. /\ writers = {} /\ writers' = writers \cup {"build"}
        /\ counted' = counted
    BY <1>2, CalmStart DEF StartBuild
  <2>2. writers' = {"build"}
    BY <2>1
  <2>3. PICK cleared \in BOOLEAN : log_start_build(cleared)
    BY <1>2 DEF StartBuild
  <2> QED
    BY <2>1, <2>2, <2>3, Started
<1>3. ASSUME EndBuild PROVE LogInv'
  BY <1>3, Ended
<1>4. ASSUME WorkEnds PROVE LogInv'
  <2>1. /\ "build" \notin writers /\ writers' = writers
        /\ counted' = <<0, 0>>
        /\ log' = log /\ log_node_stack' = log_node_stack /\ rows' = rows
        /\ astray' = astray
        /\ dir_stack' = dir_stack /\ dir_max_depth' = dir_max_depth
        /\ context' = context /\ context_dirty' = context_dirty
        /\ filter_state' = filter_state /\ res' = res /\ pending' = pending
        /\ num_errors' = num_errors /\ num_warnings' = num_warnings
        /\ num_ew_changed' = num_ew_changed /\ log_flags' = log_flags
    BY <1>4 DEF WorkEnds, treeVars, dirVars, filterVars, countVars
  <2>2. <<0, 0>> \in Nat \X Nat
    OBVIOUS
  <2>3. TypeOK'
    BY <2>1, <2>2 DEF LogInv, TypeOK
  <2>4. FilterInv' /\ DirsInv' /\ WritersInv' /\ StackInv'
    BY <2>1 DEF LogInv, FilterInv, DirsInv, WritersInv, StackInv
  <2>5. CountInv'
    BY <2>1 DEF LogInv, CountInv
  <2> QED
    BY <2>3, <2>4, <2>5 DEF LogInv
<1>5. ASSUME OpenLog PROVE LogInv'
  <2>1. /\ writers = {} /\ writers' = writers \cup {"file"}
        /\ counted' = counted /\ log_start_build(FALSE)
    BY <1>5, CalmStart DEF OpenLog
  <2>2. writers' = {"file"} /\ FALSE \in BOOLEAN
    BY <2>1
  <2> QED
    BY <2>1, <2>2, Started
<1>6. ASSUME CloseLog PROVE LogInv'
  BY <1>6, Closed
<1>7. ASSUME Clear PROVE LogInv'
  BY <1>7, CalmStart, Emptied
<1>8. ASSUME NEW flags \in FlagSets, SetFlags(flags) PROVE LogInv'
  BY <1>8, Repopulated
<1>9. ASSUME UNCHANGED vars PROVE LogInv'
  <2>1. /\ writers' = writers /\ counted' = counted
        /\ log' = log /\ log_node_stack' = log_node_stack /\ rows' = rows
        /\ astray' = astray
        /\ dir_stack' = dir_stack /\ dir_max_depth' = dir_max_depth
        /\ context' = context /\ context_dirty' = context_dirty
        /\ filter_state' = filter_state /\ res' = res /\ pending' = pending
        /\ num_errors' = num_errors /\ num_warnings' = num_warnings
        /\ num_ew_changed' = num_ew_changed /\ log_flags' = log_flags
    BY <1>9 DEF vars, treeVars, dirVars, filterVars, countVars
  <2>2. TypeOK'
    BY <2>1 DEF LogInv, TypeOK
  <2>3. FilterInv' /\ DirsInv' /\ WritersInv' /\ StackInv' /\ CountInv'
    BY <2>1 DEF LogInv, FilterInv, DirsInv, WritersInv, StackInv, CountInv
  <2> QED
    BY <2>2, <2>3 DEF LogInv
<1> QED
  BY <1>1, <1>2, <1>3, <1>4, <1>5, <1>6, <1>7, <1>8, <1>9 DEF Next

-------------------------------------------------------------------------------
(***************************************************************************)
(* The theorems.                                                           *)
(***************************************************************************)
\* Whatever the directories, the levels of make and the flags, the log, its
\* tree and its counts stay as they should be, when commands may be killed at
\* any time but their output is not mixed and the user lets them finish.
\* (log_add_line, log_start_build, log_end_build, log_clear, log_set_flags)
THEOREM LogIsSound ==
    Calm => (Spec => []LogInv)
<1> SUFFICES ASSUME Calm PROVE Spec => []LogInv
  OBVIOUS
<1>1. LogInv /\ [Next]_vars => LogInv'
  BY EachStep
<1> QED
  BY Initially, <1>1, PTL DEF Spec

\* No record is used once the log has been cleared, although the stack still
\* has its node, when no command is killed inside a directory.
\* (log_clear, log_current_unique_node, log_start_build)
THEOREM ClearedIsNotUsed ==
    Circumstances \subseteq {"killed between"} => (Spec => []NoFreedRecordUsed)
<1> SUFFICES ASSUME Circumstances \subseteq {"killed between"}
             PROVE  Spec => []NoFreedRecordUsed
  OBVIOUS
<1>1. Calm /\ Settled
  BY Zenon DEF Calm, Settled
<1>2. LogInv => NoFreedRecordUsed
  BY <1>1 DEF LogInv, StackInv, NoFreedRecordUsed
<1> QED
  BY <1>1, <1>2, LogIsSound, PTL

-------------------------------------------------------------------------------
\* The records of a build have the counts that belong to it.
LEMMA BuildCounts ==
    ASSUME log \in Seq(Recs), NEW i \in DOMAIN log,
           log[i].code = "BUILDSTART", NEW c, c # "BUILDSTART"
    PROVE  CountIn(BuildAt(i), c) = Cardinality(Tally(log, i, c))
<1> DEFINE n == Len(log)
           later == {j \in (i + 1)..n : log[j].code = "BUILDSTART"}
           e == IF later = {} THEN n ELSE Min(later) - 1
           sub == SubSeq(log, i, e)
           A == {j \in DOMAIN sub : sub[j].code = c}
           B == Tally(log, i, c)
           s == i - 1
<1>1. n \in Nat /\ i \in 1..n /\ i \in Nat /\ s \in Int
  OBVIOUS
<1>2. BuildAt(i) = sub /\ CountIn(sub, c) = Cardinality(A)
  BY DEF BuildAt, CountIn
<1> HIDE DEF n
<1>3. later # {} => Min(later) \in later /\ \A j \in later : Min(later) <= j
  <2>1. later \in SUBSET Nat
    BY <1>1
  <2> HIDE DEF later
  <2> QED
    BY <2>1, LeastOf
<1>4. e \in i..n /\ e \in Nat
  BY <1>1, <1>3
<1>5. \A j \in i+1..n : j <= e => log[j].code # "BUILDSTART"
  <2>1. ASSUME NEW j \in i+1..n, j <= e, log[j].code = "BUILDSTART"
        PROVE  FALSE
    <3>1. j \in later /\ later # {}
      BY <2>1
    <3>2. Min(later) <= j /\ Min(later) \in later
      BY <1>3, <3>1
    <3>3. e = Min(later) - 1 /\ Min(later) \in Nat
      BY <1>1, <3>1, <3>2
    <3> HIDE DEF e, later
    <3> QED
      BY <1>1, <2>1, <3>2, <3>3
  <2> QED
    BY <2>1
<1>6. \A j \in i+1..n : j > e =>
         \E x \in i+1..j : log[x].code = "BUILDSTART"
  <2>1. ASSUME NEW j \in i+1..n, j > e
        PROVE  \E x \in i+1..j : log[x].code = "BUILDSTART"
    <3>1. later # {}
      BY <1>1, <2>1
    <3>2. Min(later) \in i+1..n /\ log[Min(later)].code = "BUILDSTART"
      BY <1>3, <3>1
    <3>3. e = Min(later) - 1
      BY <3>1
    <3> HIDE DEF e, later
    <3>4. Min(later) \in i+1..j
      BY <1>1, <2>1, <3>2, <3>3
    <3> QED
      BY <3>2, <3>4
  <2> QED
    BY <2>1
<1> HIDE DEF e, later
<1>7. /\ DOMAIN sub = 1..e - i + 1
      /\ \A j \in 1..e - i + 1 : sub[j] = log[i + (j - 1)]
  <2> DEFINE m == e - i + 1
  <2>1. m \in Nat /\ \A j \in 1..m : i + (j - 1) \in 1..n
    BY <1>1, <1>4
  <2>2. sub = [j \in 1..m |-> log[i + (j - 1)]]
    <3>1. \A j \in 1..m : i + (j - 1) = (i + j) - 1
      BY <1>1
    <3> QED
      BY <1>1, <1>4, <3>1 DEF n
  <2> QED
    BY <2>2
<1> HIDE DEF sub, s
<1>8. A = {j \in 1..e - i + 1 : log[i + (j - 1)].code = c}
  BY <1>7
<1>9. B = {j \in i+1..n : log[j].code = c /\ BeginOf(log, j) = i}
  BY DEF Tally, n
<1> HIDE DEF A, B
<1>10. IsFiniteSet(A) /\ A \in SUBSET Int /\ B \in SUBSET Int
  <2>1. A \subseteq 1..e - i + 1 /\ IsFiniteSet(1..e - i + 1)
    <3>1. 1 \in Int /\ e - i + 1 \in Int
      BY <1>1, <1>4
    <3>2. IsFiniteSet(1..e - i + 1)
      BY <3>1, FS_Interval
    <3> QED
      BY <1>8, <3>2
  <2>2. IsFiniteSet(A)
    BY <2>1, FS_Subset
  <2>3. B \subseteq i+1..n
    BY <1>9
  <2> QED
    BY <1>1, <2>1, <2>2, <2>3
<1>11. \A j \in A : j + s \in B
  <2>1. ASSUME NEW j \in A PROVE j + s \in B
    <3> DEFINE x == i + (j - 1)
    <3>1. j \in 1..e - i + 1 /\ log[x].code = c
      BY <1>8
    <3>2. x \in i..e /\ x \in i..n /\ x = j + s /\ x \in Nat
      <4>1. \A a, b, y, m \in Nat :
               y \in 1..b - a + 1 /\ a <= b /\ b <= m =>
                  /\ a + (y - 1) \in a..b /\ a + (y - 1) \in a..m
                  /\ a + (y - 1) = y + (a - 1) /\ a + (y - 1) \in Nat
        OBVIOUS
      <4>2. i \in Nat /\ e \in Nat /\ n \in Nat /\ i <= e /\ e <= n
        BY <1>1, <1>4
      <4>3. j \in 1..e - i + 1 /\ j \in Nat
        BY <3>1, <4>2
      <4> QED
        BY <4>1, <4>2, <4>3 DEF s
    <3> HIDE DEF x
    <3>3. x \in i+1..n /\ x <= e
      BY <1>1, <3>1, <3>2
    <3>4. Begins(log, x, i)
      <4>1. i \in 0..x
        BY <1>1, <3>3
      <4>2. \A y \in i+1..x : y \in i+1..n /\ y <= e
        BY <1>1, <1>4, <3>2, <3>3
      <4> QED
        BY <1>5, <4>1, <4>2 DEF Begins
    <3>5. BeginOf(log, x) = i
      <4>1. i \in 0..x
        BY <1>1, <3>3
      <4> QED
        BY <3>2, <3>4, <4>1, BeginIs
    <3> QED
      BY <1>9, <3>1, <3>2, <3>3, <3>5
  <2> QED
    BY <2>1
<1>12. \A x \in B : x - s \in A
  <2>1. ASSUME NEW x \in B PROVE x - s \in A
    <3>1. x \in i+1..n /\ log[x].code = c /\ BeginOf(log, x) = i /\ x \in Nat
      BY <1>1, <1>9
    <3>2. Begins(log, x, i)
      BY <3>1, BeginIs
    <3>3. x <= e
      BY <1>1, <1>4, <1>6, <3>1, <3>2 DEF Begins
    <3> DEFINE j == x - s
    <3>4. j \in 1..e - i + 1 /\ i + (j - 1) = x
      <4>1. \A a, b, y \in Nat :
               a + 1 <= y /\ y <= b =>
                  /\ y - (a - 1) \in 1..b - a + 1
                  /\ a + ((y - (a - 1)) - 1) = y
        OBVIOUS
      <4>2. /\ i \in Nat /\ e \in Nat /\ x \in Nat
            /\ i + 1 <= x /\ x <= e
        BY <1>1, <1>4, <3>1, <3>3
      <4> QED
        BY <4>1, <4>2 DEF s
    <3> HIDE DEF j
    <3>5. j \in A
      BY <1>8, <3>1, <3>4
    <3> QED
      BY <3>5 DEF j
  <2> QED
    BY <2>1
<1>13. s \in Int
  BY <1>1 DEF s
<1>14. Cardinality(A) = Cardinality(B)
  BY <1>10, <1>11, <1>12, <1>13, AsManyShifted
<1> QED
  BY <1>2, <1>14 DEF B

LEMMA CountsAreTold == LogInv => CountsTold
<1> SUFFICES ASSUME LogInv PROVE CountsTold
  OBVIOUS
<1> DEFINE n == Len(log)
           last == LastStart(Text(log))
           now == <<num_errors, num_warnings>>
<1>1. /\ log \in Seq(Recs) /\ n \in Nat /\ DOMAIN log = 1..n
      /\ LogShape(log)
  BY DEF LogInv, TypeOK, DirsInv
<1>2. last = BeginOf(log, n)
  <2>1. <<>> \in Seq(Held)
    OBVIOUS
  <2>2. Text(log) \o <<>> = Text(log)
    <3>1. Text(log) = [i \in 1..n |-> log[i].line]
      BY <1>1 DEF Text
    <3>2. \A i \in 1..n : log[i].line \in LogLines
      <4>1. \A i \in 1..n : log[i] \in Recs
        BY <1>1
      <4> QED
        BY <4>1 DEF Recs
    <3>3. Text(log) \in Seq(LogLines)
      BY <1>1, <3>1, <3>2, IsASeq
    <3> QED
      BY <3>3, ConcatEmptySeq
  <2>3. LastStart(Text(log) \o <<>>) = BeginOf(log, n)
    BY <1>1, <2>1, LastStartIs
  <2> QED
    BY <2>2, <2>3
<1> HIDE DEF n, last
<1>3. ASSUME NEW i \in 1..n, log[i].code = "BUILDSTART"
      PROVE  Counts(BuildAt(i)) = <<Cardinality(Tally(log, i, "ERROR")),
                                    Cardinality(Tally(log, i, "WARNING"))>>
  <2>1. /\ CountIn(BuildAt(i), "ERROR") = Cardinality(Tally(log, i, "ERROR"))
        /\ CountIn(BuildAt(i), "WARNING")
             = Cardinality(Tally(log, i, "WARNING"))
    BY <1>1, <1>3, BuildCounts
  <2> QED
    BY <2>1 DEF Counts
<1>4. last # 0 => Counts(BuildAt(last)) = now
  <2> SUFFICES ASSUME last # 0 PROVE Counts(BuildAt(last)) = now
    OBVIOUS
  <2>1. Begins(log, n, last)
    BY <1>1, <1>2, BeginIs
  <2>2. last \in 1..n /\ log[last].code = "BUILDSTART" /\ log # <<>>
    BY <1>1, <2>1 DEF Begins
  <2>3. /\ Tally(log, last, "ERROR") = Coded(log, n, "ERROR")
        /\ Tally(log, last, "WARNING") = Coded(log, n, "WARNING")
    BY <1>1, <1>2, <2>2, TallyIs DEF n
  <2>4. /\ Cardinality(Coded(log, n, "ERROR")) = num_errors
        /\ Cardinality(Coded(log, n, "WARNING")) = num_warnings
    BY <2>2 DEF LogInv, CountInv, n
  <2> QED
    BY <1>3, <2>2, <2>3, <2>4
<1>5. "build" \in writers /\ now # <<0, 0>> => counted = now
  BY DEF LogInv, CountInv
<1>6. ASSUME NEW i \in 1..n
      PROVE  rows[i].says \in {Plain} \cup
                (IF log[i].code = "BUILDSTART" THEN {Counts(BuildAt(i))} ELSE {})
  <2>1. Tells(rows[i], log, i)
    BY <1>1 DEF LogInv, CountInv
  <2>2. CASE rows[i].says = Plain
    BY <2>2
  <2>3. CASE rows[i].says # Plain
    BY <1>3, <2>1, <2>3 DEF Tells
  <2> QED
    BY <2>2, <2>3
<1> QED
  BY <1>1, <1>4, <1>5, <1>6 DEF CountsTold, last

\* The counts of the running build are those of its errors and warnings, the
\* status bar shows them, and the row of every build tells its own or none,
\* wherever commands are killed.
\* (log_add_rec, log_update_build_start, count_changed)
THEOREM CountsAreRight ==
    Calm => (Spec => []CountsTold)
<1> SUFFICES ASSUME Calm PROVE Spec => []CountsTold
  OBVIOUS
<1> QED
  BY LogIsSound, CountsAreTold, PTL

-------------------------------------------------------------------------------
(***************************************************************************)
(* The log is the transcript of what was written.                          *)
(***************************************************************************)
\* Builds and log files that come one after the other, and end with no
\* message in the air.  Make and the compilers may write what they like.
OneByOne ==
    Circumstances \subseteq {"stray leave", "mixed output", "killed inside"}

\* Lines are held back only while somebody writes.
HeldWhileWriting ==
    /\ \E S : log \in Seq(S)
    /\ pending \in Seq(Lines)
    /\ pending # <<>> => writers # {}
    /\ writers \in {{}, {"build"}, {"file"}}

LEMMA TextOfSeq ==
    ASSUME NEW S, NEW recs \in Seq(S)
    PROVE  \E T : /\ Text(recs) \in Seq(T) /\ Len(Text(recs)) = Len(recs)
                  /\ \A i \in 1..Len(recs) : Text(recs)[i] = recs[i].line
<1> DEFINE n == Len(recs)
           T == {recs[i].line : i \in 1..n}
           t == Text(recs)
<1>1. n \in Nat /\ DOMAIN recs = 1..n
  OBVIOUS
<1>2. t = [i \in 1..n |-> recs[i].line]
  BY <1>1 DEF Text
<1>3. \A i \in 1..n : recs[i].line \in T
  OBVIOUS
<1> HIDE DEF n, T, t
<1>4. t \in Seq(T)
  BY <1>1, <1>2, <1>3, IsASeq
<1>5. DOMAIN t = 1..n
  BY <1>2
<1>6. Len(t) = n
  BY <1>1, <1>4, <1>5, LenProperties
<1> QED
  BY <1>2, <1>4, <1>6 DEF n, t

\* Sequences of whatever elements can be taken to be of the same.
LEMMA SeqOfMore ==
    ASSUME NEW S, NEW T, NEW q \in Seq(S)
    PROVE  q \in Seq(S \cup T) /\ q \in Seq(T \cup S)
  OBVIOUS

\* The lines of the records D.
HasLines(D, lines) ==
    /\ Len(D) = Len(lines)
    /\ \A i \in 1..Len(D) : D[i].line = lines[i]

TextGoesOn(recs, D, lines) ==
    /\ \E S : recs \o D \in Seq(S)
    /\ Text(recs \o D) = Text(recs) \o lines

\* Records that are added to a log add their lines to its text.
LEMMA TextAdded ==
    ASSUME NEW S, NEW recs \in Seq(S), NEW R, NEW D \in Seq(R),
           NEW L, NEW lines \in Seq(L), HasLines(D, lines)
    PROVE  TextGoesOn(recs, D, lines)
<1> DEFINE n == Len(recs)
           l == Len(D)
           all == recs \o D
<1>1. n \in Nat /\ l \in Nat
  OBVIOUS
<1>2. recs \in Seq(S \cup R) /\ D \in Seq(S \cup R)
  BY SeqOfMore
<1>3. /\ all \in Seq(S \cup R) /\ Len(all) = n + l
      /\ \A i \in 1..n + l : all[i] = IF i <= n THEN recs[i] ELSE D[i - n]
  BY <1>2, ConcatProperties
<1> HIDE DEF all
<1>4. PICK T : /\ Text(all) \in Seq(T) /\ Len(Text(all)) = Len(all)
               /\ \A i \in 1..Len(all) : Text(all)[i] = all[i].line
  BY <1>3, TextOfSeq
<1>5. PICK U : /\ Text(recs) \in Seq(U) /\ Len(Text(recs)) = n
               /\ \A i \in 1..n : Text(recs)[i] = recs[i].line
  BY TextOfSeq
<1> DEFINE t == Text(recs)
           V == U \cup L
<1>6. t \in Seq(V) /\ lines \in Seq(V)
  BY <1>5, SeqOfMore
<1> HIDE DEF t, V
<1>7. Len(t) = n /\ Len(lines) = l
  BY <1>5 DEF t, HasLines
<1> HIDE DEF n, l
<1>8. /\ t \o lines \in Seq(V) /\ Len(t \o lines) = n + l
      /\ \A i \in 1..n + l :
            (t \o lines)[i] = IF i <= n THEN t[i] ELSE lines[i - n]
  BY <1>6, <1>7, ConcatProperties
<1>9. ASSUME NEW i \in 1..n + l
      PROVE  Text(all)[i] = (t \o lines)[i]
  <2>1. Text(all)[i] = all[i].line
    BY <1>3, <1>4
  <2>2. CASE i <= n
    <3>1. i \in 1..n /\ all[i] = recs[i] /\ (t \o lines)[i] = t[i]
      BY <1>1, <1>3, <1>8, <2>2
    <3> QED
      BY <1>5, <2>1, <3>1 DEF t
  <2>3. CASE ~ (i <= n)
    <3>1. /\ i - n \in 1..l /\ all[i] = D[i - n]
          /\ (t \o lines)[i] = lines[i - n]
      BY <1>1, <1>3, <1>8, <2>3
    <3>2. D[i - n].line = lines[i - n]
      <4>1. \A j \in 1..l : D[j].line = lines[j]
        BY DEF l, HasLines
      <4> QED
        BY <3>1, <4>1
    <3> QED
      BY <2>1, <3>1, <3>2
  <2> QED
    BY <2>2, <2>3
<1>10. Text(all) = t \o lines
  <2>1. Len(Text(all)) = n + l /\ Text(all) \in Seq(T \cup V)
        /\ t \o lines \in Seq(T \cup V)
    BY <1>3, <1>4, <1>8, SeqOfMore
  <2> QED
    BY <1>8, <1>9, <2>1, SeqEqual
<1> QED
  BY <1>3, <1>10, Zenon DEF all, t, TextGoesOn

LEMMA TextEmpty == Text(<<>>) = <<>>
  BY DEF Text

LEMMA OneByOneNot ==
    ASSUME OneByOne
    PROVE  /\ "killed between" \notin Circumstances
           /\ "clear while building" \notin Circumstances
           /\ "open while building" \notin Circumstances
           /\ "late output" \notin Circumstances
  BY Zenon DEF OneByOne

\* What is held back when a message is complete are the lines of the records.
LEMMA DrainedLines ==
    ASSUME NEW L, NEW lines \in Seq(L), NEW r, NEW con
    PROVE  \E R : /\ Drained(lines, r, con) \in Seq(R)
                  /\ HasLines(Drained(lines, r, con), lines)
<1> DEFINE n == Len(lines)
           rest == [r EXCEPT !.code = "INFORMATION", !.summary = "empty"]
           D == Drained(lines, r, con)
           Rec(i) == IF i = 1 THEN LogRec(lines[1], r, con)
                     ELSE LogRec(lines[i], rest, con)
           R == {Rec(i) : i \in 1..n}
<1>1. n \in Nat /\ DOMAIN lines = 1..n
  OBVIOUS
<1>2. D = [i \in 1..n |-> Rec(i)]
  BY <1>1 DEF Drained
<1> HIDE DEF rest
<1>3. \A i \in 1..n : Rec(i).line = lines[i]
  BY DEF LogRec
<1>4. \A i \in 1..n : Rec(i) \in R
  OBVIOUS
<1> HIDE DEF n, R, Rec, D
<1>5. D \in Seq(R)
  BY <1>1, <1>2, <1>4, IsASeq
<1>6. DOMAIN D = 1..n
  BY <1>2
<1>7. Len(D) = n
  BY <1>1, <1>5, <1>6, LenProperties
<1> QED
  BY <1>2, <1>3, <1>5, <1>7 DEF n, D, HasLines

\* A line goes to the end of the text, held back or not.
LEMMA WritesLine ==
    ASSUME HeldWhileWriting, OneByOne, NEW line \in Lines, Handle(line)
    PROVE  /\ HeldWhileWriting'
           /\ (Text(log) \o pending)' = Append(Text(log) \o pending, line)
<1>1. /\ writers # {} /\ writers' = writers
      /\ HoldLine(line) \/ AddLine(line)
  BY OneByOneNot, Zenon DEF Handle
<1>2. PICK S : log \in Seq(S)
  BY DEF HeldWhileWriting
<1>3. PICK T : Text(log) \in Seq(T)
  BY <1>2, TextOfSeq
<1>4. pending \in Seq(Lines) /\ writers \in {{}, {"build"}, {"file"}}
  BY DEF HeldWhileWriting
<1> DEFINE more == Append(pending, line)
           U == T \cup Lines
<1>5. /\ more \in Seq(Lines) /\ more = pending \o <<line>>
      /\ <<line>> \in Seq(Lines)
  BY <1>4, AppendIsConcat
<1>6. Text(log) \o more = Append(Text(log) \o pending, line)
  <2>1. /\ Text(log) \in Seq(U) /\ pending \in Seq(U) /\ <<line>> \in Seq(U)
        /\ line \in U
    BY <1>3, <1>4, <1>5, SeqOfMore
  <2> HIDE DEF U
  <2>2. Text(log) \o pending \in Seq(U)
    BY <2>1, ConcatProperties
  <2>3. Append(Text(log) \o pending, line)
          = (Text(log) \o pending) \o <<line>>
    BY <2>1, <2>2, AppendIsConcat
  <2>4. (Text(log) \o pending) \o <<line>> = Text(log) \o (pending \o <<line>>)
    BY <2>1, ConcatAssociative
  <2> QED
    BY <1>5, <2>3, <2>4
<1>7. CASE HoldLine(line)
  <2>1. log' = log /\ pending' = more
    BY <1>7 DEF HoldLine
  <2>2. HeldWhileWriting'
    BY <1>1, <1>2, <1>4, <1>5, <2>1 DEF HeldWhileWriting
  <2> QED
    BY <1>6, <2>1, <2>2
<1>8. CASE AddLine(line)
  <2>1. PICK r, con : /\ log' = log \o Drained(more, r, con)
                      /\ pending' = <<>>
    BY <1>8, Zenon DEF AddLine
  <2> DEFINE D == Drained(more, r, con)
  <2> HIDE DEF more
  <2>2. PICK R : D \in Seq(R) /\ HasLines(D, more)
    <3>1. more \in Seq(Lines)
      BY <1>5
    <3> QED
      BY <3>1, DrainedLines
  <2> HIDE DEF D
  <2>3. (\E Q : log' \in Seq(Q)) /\ Text(log') = Text(log) \o more
    <3>1. more \in Seq(Lines)
      BY <1>5
    <3>2. log' = log \o D
      BY <2>1 DEF D
    <3>3. TextGoesOn(log, D, more)
      BY <1>2, <2>2, <3>1, TextAdded
    <3> QED
      BY <3>2, <3>3, Zenon DEF TextGoesOn
  <2>4. HeldWhileWriting'
    BY <1>1, <1>4, <2>1, <2>3 DEF HeldWhileWriting
  <2>5. Text(log) \o more \in Seq(U)
    <3>1. Text(log) \in Seq(U) /\ more \in Seq(U)
      BY <1>3, <1>5, SeqOfMore
    <3> HIDE DEF U
    <3> QED
      BY <3>1, ConcatProperties
  <2>6. Text(log') \o pending' = Text(log) \o more
    <3> HIDE DEF U
    <3> QED
      BY <2>1, <2>3, <2>5, ConcatEmptySeq
  <2> QED
    BY <1>6, <2>4, <2>6 DEF more
<1> QED
  BY <1>1, <1>7, <1>8

\* The start of a build goes to the end of the text, or of an empty one.
LEMMA WritesStart ==
    ASSUME HeldWhileWriting, OneByOne, StartBuild \/ OpenLog
    PROVE  /\ HeldWhileWriting'
           /\ \/ (Text(log) \o pending)' = Append(Text(log) \o pending, StartLine)
              \/ (Text(log) \o pending)' = <<StartLine>>
<1>1. /\ writers = {} /\ writers' \in {{"build"}, {"file"}}
      /\ \E cleared \in BOOLEAN : log_start_build(cleared)
  BY OneByOneNot, Zenon DEF StartBuild, OpenLog
<1>2. PICK S : log \in Seq(S)
  BY DEF HeldWhileWriting
<1>3. pending = <<>> /\ writers \in {{}, {"build"}, {"file"}}
  BY <1>1 DEF HeldWhileWriting
<1>4. PICK cleared \in BOOLEAN : log_start_build(cleared)
  BY <1>1
<1> DEFINE kept == IF cleared THEN <<>> ELSE log
           rec == [LogRec(StartLine, filter_result_init, NoContext)
                      EXCEPT !.code = "BUILDSTART"]
<1>5. log' = Append(kept, rec) /\ pending' = <<>>
  BY <1>3, <1>4 DEF log_start_build
<1>6. rec.line = StartLine
  BY DEF LogRec
<1> HIDE DEF rec
<1>7. kept \in Seq(S)
  BY <1>2
<1> HIDE DEF kept
<1> DEFINE D == <<rec>>
           lines == <<StartLine>>
<1>8. /\ D \in Seq({rec}) /\ lines \in Seq({StartLine})
      /\ HasLines(D, lines)
  BY <1>6 DEF HasLines
<1>9. Append(kept, rec) = kept \o D
  BY <1>7, SeqOfMore, AppendIsConcat
<1> HIDE DEF D, lines
<1>10. (\E Q : log' \in Seq(Q)) /\ Text(log') = Text(kept) \o lines
  <2>1. log' = kept \o D
    BY <1>5, <1>9
  <2>2. TextGoesOn(kept, D, lines)
    BY <1>7, <1>8, TextAdded
  <2> QED
    BY <2>1, <2>2, Zenon DEF TextGoesOn
<1>11. PICK T : Text(kept) \in Seq(T)
  BY <1>7, TextOfSeq
<1>12. HeldWhileWriting'
  BY <1>1, <1>5, <1>10 DEF HeldWhileWriting
<1>13. /\ Text(kept) \o lines = Append(Text(kept), StartLine)
       /\ Text(kept) \o <<>> = Text(kept)
       /\ Append(Text(kept), StartLine) \in Seq(T \cup {StartLine})
  <2>1. Text(kept) \in Seq(T \cup {StartLine}) /\ StartLine \in T \cup {StartLine}
    BY <1>11, SeqOfMore
  <2>2. /\ Append(Text(kept), StartLine) = Text(kept) \o lines
        /\ Text(kept) \o <<>> = Text(kept)
    BY <2>1, AppendIsConcat, ConcatEmptySeq DEF lines
  <2>3. Append(Text(kept), StartLine) \in Seq(T \cup {StartLine})
    BY <2>1
  <2> QED
    BY <2>2, <2>3
<1>14. Text(log') \o pending' = Append(Text(kept), StartLine)
  BY <1>5, <1>10, <1>13, ConcatEmptySeq
<1>15. CASE cleared
  <2>1. kept = <<>>
    BY <1>15 DEF kept
  <2>2. Append(Text(kept), StartLine) = <<StartLine>>
    <3>1. Append(<<>>, StartLine) = <<StartLine>>
      OBVIOUS
    <3> QED
      BY <2>1, <3>1, TextEmpty
  <2> QED
    BY <1>12, <1>14, <2>2
<1>16. CASE ~ cleared
  <2>1. kept = log
    BY <1>16 DEF kept
  <2> QED
    BY <1>3, <1>12, <1>13, <1>14, <2>1
<1> QED
  BY <1>15, <1>16

LEMMA TranscriptStep ==
    ASSUME HeldWhileWriting, OneByOne, [Next]_vars
    PROVE  /\ HeldWhileWriting'
           /\ [Transcribed!Next]_(Text(log) \o pending)
<1> DEFINE text == Text(log) \o pending
<1>1. ASSUME UNCHANGED <<log, pending, writers>>
      PROVE  HeldWhileWriting' /\ text' = text
  BY <1>1, Zenon DEF HeldWhileWriting
<1>2. ASSUME NEW line \in Lines, Handle(line)
      PROVE  HeldWhileWriting' /\ Transcribed!Next
  BY <1>2, WritesLine, Zenon DEF Transcribed!Next, Transcribed!Write
<1>3. CASE StartBuild \/ OpenLog
  BY <1>3, WritesStart, Zenon DEF Transcribed!Next, Transcribed!Start,
     Transcribed!StartAfresh
<1>4. ASSUME EndBuild \/ CloseLog
      PROVE  HeldWhileWriting' /\ text' = text
  <2>1. /\ log' = log /\ pending' = pending
        /\ pending = <<>>
        /\ \E w \in {"build", "file"} : writers' = writers \ {w}
    BY <1>4, OneByOneNot, Zenon DEF EndBuild, CloseLog, Complete, filterVars
  <2>2. writers' \in {{}, {"build"}, {"file"}}
    BY <2>1 DEF HeldWhileWriting
  <2> QED
    BY <2>1, <2>2 DEF HeldWhileWriting
<1>5. CASE WorkEnds
  BY <1>1, <1>5, Zenon DEF WorkEnds, filterVars
<1>6. CASE Clear
  <2>1. writers = {} /\ pending = <<>>
    BY <1>6, OneByOneNot, Zenon DEF Clear, HeldWhileWriting
  <2>2. log' = <<>> /\ pending' = <<>> /\ writers' = writers
    BY <1>6, <2>1 DEF Clear, filterVars
  <2>3. text' = <<>>
    BY <2>2, TextEmpty
  <2>4. HeldWhileWriting'
    <3>1. <<>> \in Seq({}) /\ <<>> \in Seq(Lines)
      OBVIOUS
    <3> QED
      BY <2>1, <2>2, <3>1 DEF HeldWhileWriting
  <2> QED
    BY <2>3, <2>4, Zenon DEF Transcribed!Next, Transcribed!Clear
<1>7. ASSUME NEW flags \in FlagSets, SetFlags(flags)
      PROVE  HeldWhileWriting' /\ text' = text
  BY <1>1, <1>7, Zenon DEF SetFlags, filterVars
<1>8. CASE UNCHANGED vars
  BY <1>1, <1>8, Zenon DEF vars, filterVars
<1> QED
  BY <1>2, <1>3, <1>4, <1>5, <1>6, <1>7, <1>8, Zenon DEF Next

\* For builds that come one after the other the log is the transcript of what
\* was written, whatever make and the compilers write, and wherever make is
\* when it is killed.  (log_add_line, log_start_build, log_clear)
THEOREM LogIsTranscript ==
    OneByOne => (Spec => ImplementsTranscript)
<1> SUFFICES ASSUME OneByOne PROVE Spec => ImplementsTranscript
  OBVIOUS
<1>1. Init => HeldWhileWriting /\ Transcribed!Init
  <2> SUFFICES ASSUME Init PROVE HeldWhileWriting /\ Transcribed!Init
    OBVIOUS
  <2>1. log = <<>> /\ pending = <<>> /\ writers = {}
    BY DEF Init
  <2>2. <<>> \in Seq({}) /\ <<>> \in Seq(Lines) /\ <<>> \o <<>> = <<>>
    BY ConcatEmptySeq
  <2> QED
    BY <2>1, <2>2, TextEmpty DEF HeldWhileWriting, Transcribed!Init
<1>2. HeldWhileWriting /\ [Next]_vars
         => HeldWhileWriting' /\ [Transcribed!Next]_(Text(log) \o pending)
  BY TranscriptStep
<1> QED
  BY <1>1, <1>2, PTL DEF Spec, ImplementsTranscript, Transcribed!Spec

-------------------------------------------------------------------------------
(***************************************************************************)
(* The tree is that of the directories.                                    *)
(***************************************************************************)
\* At place k make is still in the directory that it entered at place j.
IsOpen(recs, j, k) ==
    /\ j \in Since(recs, k) /\ recs[j].code = "PUSHDIR"
    /\ \A x \in j..k : Depth(recs, j) <= Depth(recs, x)

\* The stack holds the directories that make is in, the innermost first.
HoldsOpen(stk, recs, k) ==
    \A m \in 1..Len(stk) - 1 :
        /\ IsOpen(recs, stk[m], k)
        /\ Depth(recs, stk[m]) = (Depth(recs, k) - m) + 1

Depths(recs) == \A k \in DOMAIN recs : Depth(recs, k) \in Nat

LEMMA SinceIs ==
    ASSUME NEW recs, NEW k \in Nat, NEW j
    PROVE  j \in Since(recs, k) <=>
              j \in 1..k /\ BeginOf(recs, k) < j
<1>1. BeginOf(recs, k) \in 0..k
  BY BeginIs DEF Begins
<1> QED
  BY <1>1 DEF Since

\* Each record opens one more, closes the innermost, or does neither.
LEMMA OpenStep ==
    ASSUME NEW recs \in Seq(Recs), NEW k \in DOMAIN recs, k > 1,
           recs[k].code # "BUILDSTART", Depths(recs),
           NEW j, IsOpen(recs, j, k - 1), Depth(recs, j) <= Depth(recs, k)
    PROVE  IsOpen(recs, j, k)
<1>1. k \in Nat \ {0} /\ k - 1 \in Nat /\ k \in Nat
  OBVIOUS
<1>2. j \in Since(recs, k - 1) /\ recs[j].code = "PUSHDIR"
      /\ \A x \in j..k-1 : Depth(recs, j) <= Depth(recs, x)
  BY Zenon DEF IsOpen
<1>3. Since(recs, k) = Since(recs, k - 1) \cup {k}
  BY <1>1, SinceStep
<1>4. j \in 1..k-1
  BY <1>1, <1>2, SinceIs
<1>5. \A x \in j..k : x \in j..k-1 \/ x = k
  BY <1>1, <1>4
<1> QED
  BY <1>2, <1>3, <1>5 DEF IsOpen

LEMMA OpenNew ==
    ASSUME NEW recs \in Seq(Recs), NEW k \in DOMAIN recs,
           recs[k].code = "PUSHDIR", Depths(recs)
    PROVE  IsOpen(recs, k, k)
<1>1. k \in Nat \ {0} /\ k \in Nat /\ \A x \in k..k : x = k
  OBVIOUS
<1>2. k \in Since(recs, k)
  BY <1>1, SinceStep
<1>3. Depth(recs, k) \in Nat
  BY DEF Depths
<1> QED
  BY <1>1, <1>2, <1>3 DEF IsOpen

LEMMA OpenStack ==
    ASSUME NEW recs \in Seq(Recs), NEW k \in DOMAIN recs, NEW flags, NEW stk,
           Depths(recs),
           \/ recs[k].code = "BUILDSTART"
           \/ /\ k > 1 /\ StackFits(stk, recs, k - 1, flags)
              /\ HoldsOpen(stk, recs, k - 1)
    PROVE  HoldsOpen(Stacked(stk, recs[k], flags, k), recs, k)
<1> DEFINE indents == "LF_INDENT_DIRS" \in flags
           new == Stacked(stk, recs[k], flags, k)
           c == recs[k].code
           l == Len(stk)
           D(x) == Depth(recs, x)
<1>1. k \in Nat \ {0} /\ k \in Nat
  OBVIOUS
<1>2. ASSUME c = "BUILDSTART"
      PROVE  HoldsOpen(new, recs, k)
  <2>1. new = <<k>>
    BY <1>2 DEF Stacked
  <2>2. Len(<<k>>) = 1 /\ \A m \in 1..1 - 1 : FALSE
    OBVIOUS
  <2> QED
    BY <2>1, <2>2 DEF HoldsOpen
<1>3. ASSUME c # "BUILDSTART"
      PROVE  HoldsOpen(new, recs, k)
  <2>1. /\ k > 1 /\ k - 1 \in DOMAIN recs /\ StackFits(stk, recs, k - 1, flags)
        /\ HoldsOpen(stk, recs, k - 1)
    BY <1>1, <1>3
  <2>2. /\ stk \in Seq(1..k-1)
        /\ l = 1 + (IF indents THEN D(k - 1) ELSE 0)
    BY <2>1, Zenon DEF StackFits
  <2>3. /\ D(k - 1) \in Nat /\ D(k) \in Nat
        /\ c = "PUSHDIR" => D(k) = D(k - 1) + 1
        /\ c = "POPDIR" => D(k) = D(k - 1) - 1
        /\ c \notin {"PUSHDIR", "POPDIR"} => D(k) = D(k - 1)
    BY <1>1, <1>3, <2>1, DepthStep DEF Depths
  <2>4. /\ l \in Nat \ {0} /\ stk # <<>>
        /\ \A m \in 1..l - 1 : /\ IsOpen(recs, stk[m], k - 1)
                               /\ D(stk[m]) = (D(k - 1) - m) + 1
    <3>1. l \in Nat \ {0}
      <4> HIDE DEF l, D
      <4> QED
        BY <2>2, <2>3
    <3>2. stk # <<>>
      BY <3>1
    <3>3. \A m \in 1..l - 1 : /\ IsOpen(recs, stk[m], k - 1)
                              /\ D(stk[m]) = (D(k - 1) - m) + 1
      BY <2>1, Zenon DEF HoldsOpen
    <3> QED
      BY <3>1, <3>2, <3>3
  <2> HIDE DEF D, l
  <2>5. ASSUME NEW m \in 1..l - 1, D(stk[m]) <= D(k)
        PROVE  IsOpen(recs, stk[m], k)
    BY <1>3, <2>1, <2>4, <2>5, OpenStep DEF D
  <2>6. CASE c = "PUSHDIR" /\ indents
    <3>1. new = <<k>> \o stk
      BY <1>3, <2>6 DEF Stacked
    <3>2. <<k>> \in Seq(Int) /\ Len(<<k>>) = 1 /\ stk \in Seq(Int)
      BY <1>1, <2>2
    <3>3. /\ Len(new) = l + 1 /\ new[1] = k
          /\ \A m \in 2..l + 1 : new[m] = stk[m - 1]
      BY <2>4, <3>1, <3>2, ConcatProperties DEF l
    <3> HIDE DEF new
    <3>4. ASSUME NEW m \in 1..Len(new) - 1
          PROVE  /\ IsOpen(recs, new[m], k)
                 /\ D(new[m]) = (D(k) - m) + 1
      <4>1. CASE m = 1
        <5>1. IsOpen(recs, k, k)
          BY <2>6, OpenNew
        <5> QED
          BY <2>3, <3>3, <4>1, <5>1
      <4>2. CASE m # 1
        <5>1. m - 1 \in 1..l - 1 /\ m \in 2..l + 1 /\ new[m] = stk[m - 1]
          BY <2>4, <3>3, <4>2
        <5>2. D(stk[m - 1]) = (D(k - 1) - (m - 1)) + 1
          BY <2>4, <5>1
        <5>3. D(stk[m - 1]) = (D(k) - m) + 1 /\ D(stk[m - 1]) <= D(k)
          BY <2>3, <2>4, <2>6, <5>1, <5>2
        <5>4. IsOpen(recs, stk[m - 1], k)
          BY <2>5, <5>1, <5>3
        <5> QED
          BY <5>1, <5>3, <5>4
      <4> QED
        BY <4>1, <4>2
    <3> QED
      BY <3>4 DEF HoldsOpen, D
  <2>7. CASE c = "POPDIR" /\ indents
    <3>1. new = Tail(stk)
      BY <1>3, <2>4, <2>7 DEF Stacked
    <3>2. /\ Len(new) = l - 1
          /\ \A m \in 1..l - 1 : new[m] = stk[m + 1]
      BY <2>2, <2>4, <3>1, HeadTailProperties DEF l
    <3> HIDE DEF new
    <3>3. ASSUME NEW m \in 1..Len(new) - 1
          PROVE  /\ IsOpen(recs, new[m], k)
                 /\ D(new[m]) = (D(k) - m) + 1
      <4>1. m + 1 \in 1..l - 1 /\ m \in 1..l - 1 /\ new[m] = stk[m + 1]
        BY <2>4, <3>2
      <4>2. D(stk[m + 1]) = (D(k - 1) - (m + 1)) + 1
        BY <2>4, <4>1
      <4>3. D(stk[m + 1]) = (D(k) - m) + 1 /\ D(stk[m + 1]) <= D(k)
        <5>1. D(k - 1) \in Nat /\ D(k) = D(k - 1) - 1
          BY <2>3, <2>7
        <5>2. m \in Nat \ {0}
          BY <2>4, <4>1
        <5>3. \A a \in Nat, b, j \in Int :
                 j >= 1 /\ b = a - 1 => /\ (a - (j + 1)) + 1 = (b - j) + 1
                                        /\ (b - j) + 1 <= b
          OBVIOUS
        <5>4. D(k) \in Int /\ m \in Int /\ m >= 1
          BY <5>1, <5>2
        <5> QED
          BY <4>2, <5>1, <5>3, <5>4
      <4>4. IsOpen(recs, stk[m + 1], k)
        BY <2>5, <4>1, <4>3
      <4> QED
        BY <4>1, <4>3, <4>4
    <3> QED
      BY <3>3 DEF HoldsOpen, D
  <2>8. CASE ~ indents
    <3>1. new = stk
      BY <1>3, <2>8 DEF Stacked
    <3>2. Len(new) = 1 /\ \A m \in 1..1 - 1 : FALSE
      BY <2>2, <2>8, <3>1 DEF l
    <3> HIDE DEF new
    <3> QED
      BY <3>2 DEF HoldsOpen
  <2>9. CASE c \notin {"PUSHDIR", "POPDIR"}
    <3>1. new = stk
      BY <1>3, <2>9 DEF Stacked
    <3>2. ASSUME NEW m \in 1..l - 1
          PROVE  /\ IsOpen(recs, stk[m], k)
                 /\ D(stk[m]) = (D(k) - m) + 1
      <4>1. D(stk[m]) = (D(k) - m) + 1 /\ D(stk[m]) <= D(k)
        BY <2>3, <2>4, <2>9
      <4> QED
        BY <2>5, <4>1
    <3> HIDE DEF new
    <3> QED
      BY <3>1, <3>2 DEF HoldsOpen, D, l
  <2> QED
    BY <2>6, <2>7, <2>8, <2>9
<1> QED
  BY <1>2, <1>3


\* The directories that make is in, as far as rows are indented by them ...
OpenAt(recs, flags, k) ==
    IF "LF_INDENT_DIRS" \in flags
    THEN {j \in Since(recs, k) : IsOpen(recs, j, k)} ELSE {}

\* ... and those from the outermost on that are the innermost again.
Again(recs, open) ==
    {j \in open : \A k \in open :
        k >= j => recs[k].file = recs[Max(open)].file}

Spot(recs, flags, k) ==
    LET here == Again(recs, OpenAt(recs, flags, k))
    IN IF here # {} THEN Min(here) ELSE BeginOf(recs, k)

\* Of two that are open, the later is the deeper.
LEMMA DeeperIsLater ==
    ASSUME NEW recs \in Seq(Recs), NEW k \in DOMAIN recs, Depths(recs),
           NEW j, IsOpen(recs, j, k), NEW m, IsOpen(recs, m, k)
    PROVE  /\ Depth(recs, j) <= Depth(recs, m) => j <= m
           /\ Depth(recs, j) <= Depth(recs, k) /\ Depth(recs, j) \in Nat
           /\ j \in 1..k /\ BeginOf(recs, k) < j
<1>1. k \in Nat /\ k \in 1..Len(recs)
  OBVIOUS
<1>2. /\ j \in Since(recs, k) /\ recs[j].code = "PUSHDIR"
      /\ \A x \in j..k : Depth(recs, j) <= Depth(recs, x)
      /\ m \in Since(recs, k)
      /\ \A x \in m..k : Depth(recs, m) <= Depth(recs, x)
  BY Zenon DEF IsOpen
<1>3. /\ j \in 1..k /\ BeginOf(recs, k) < j
      /\ m \in 1..k /\ BeginOf(recs, k) < m
  BY <1>1, <1>2, SinceIs
<1>4. /\ Depth(recs, j) \in Nat /\ Depth(recs, m) \in Nat
      /\ j > 1 => Depth(recs, j - 1) \in Nat
  <2>1. j \in DOMAIN recs /\ m \in DOMAIN recs
    BY <1>1, <1>3
  <2>2. j > 1 => j - 1 \in DOMAIN recs
    BY <1>1, <1>3
  <2> QED
    BY <2>1, <2>2 DEF Depths
<1>5. Depth(recs, j) = Depth(recs, j - 1) + 1 /\ Depth(recs, j - 1) \in Int
  <2>1. j \in Nat \ {0}
    BY <1>3
  <2> QED
    BY <1>2, <2>1, DepthStep
<1>6. ASSUME Depth(recs, j) <= Depth(recs, m), m < j
      PROVE  FALSE
  <2>1. j - 1 \in m..k
    BY <1>1, <1>3, <1>6
  <2>2. Depth(recs, m) <= Depth(recs, j - 1)
    BY <1>2, <2>1
  <2> QED
    BY <1>4, <1>5, <1>6, <2>2
<1>7. Depth(recs, j) <= Depth(recs, k)
  <2>1. k \in j..k
    BY <1>1, <1>3
  <2> QED
    BY <1>2, <2>1
<1> QED
  BY <1>3, <1>4, <1>6, <1>7

\* The stack holds all of them, from the last to the first.
LEMMA StackIsOpen ==
    ASSUME NEW recs \in Seq(Recs), NEW k \in DOMAIN recs, NEW flags, NEW stk,
           Depths(recs), StackFits(stk, recs, k, flags),
           HoldsOpen(stk, recs, k), "LF_INDENT_DIRS" \in flags
    PROVE  /\ OpenAt(recs, flags, k) = {stk[m] : m \in 1..Len(stk) - 1}
           /\ \A m, e \in 1..Len(stk) - 1 : m <= e <=> stk[e] <= stk[m]
<1> DEFINE l == Len(stk)
           D(x) == Depth(recs, x)
<1>1. /\ stk \in Seq(1..k) /\ l = 1 + D(k) /\ stk[l] = BeginOf(recs, k)
  BY Zenon DEF StackFits
<1>2. D(k) \in Nat
  BY DEF Depths
<1>3. \A m \in 1..l - 1 : /\ IsOpen(recs, stk[m], k)
                          /\ D(stk[m]) = (D(k) - m) + 1
  BY Zenon DEF HoldsOpen
<1>4. l \in Nat \ {0} /\ l - 1 = D(k) /\ stk[l] \in 1..k
  <2> HIDE DEF l, D
  <2>1. l \in Nat \ {0} /\ l - 1 = D(k)
    BY <1>1, <1>2
  <2> QED
    BY <1>1, <2>1 DEF l
<1> HIDE DEF D, l
<1>5. ASSUME NEW j, IsOpen(recs, j, k)
      PROVE  \E m \in 1..l - 1 : stk[m] = j
  <2>1. D(j) <= D(k) /\ D(j) \in Nat /\ j \in 1..k /\ BeginOf(recs, k) < j
    BY <1>5, DeeperIsLater DEF D
  <2>2. D(j) # 0
    <3>1. j > 1 /\ j - 1 \in DOMAIN recs /\ j \in Nat \ {0}
      BY <1>1, <1>4, <2>1
    <3>2. recs[j].code = "PUSHDIR"
      BY <1>5, Zenon DEF IsOpen
    <3>3. D(j) = D(j - 1) + 1
      BY <3>1, <3>2, DepthStep DEF D
    <3>4. D(j - 1) \in Nat
      BY <3>1 DEF Depths, D
    <3> QED
      BY <3>3, <3>4
  <2> DEFINE m == (D(k) - D(j)) + 1
  <2>3. m \in 1..l - 1
    BY <1>2, <1>4, <2>1, <2>2
  <2>4. IsOpen(recs, stk[m], k) /\ D(stk[m]) = D(j)
    <3>1. IsOpen(recs, stk[m], k) /\ D(stk[m]) = (D(k) - m) + 1
      BY <1>3, <2>3
    <3> QED
      BY <1>2, <2>1, <3>1
  <2> HIDE DEF m
  <2>5. stk[m] \in 1..k
    BY <2>4, DeeperIsLater
  <2>6. D(stk[m]) <= D(j) /\ D(j) <= D(stk[m])
    BY <2>1, <2>4
  <2>7. stk[m] <= j
    BY <1>5, <2>4, <2>6, DeeperIsLater DEF D
  <2>8. j <= stk[m]
    BY <1>5, <2>4, <2>6, DeeperIsLater DEF D
  <2> QED
    BY <2>1, <2>3, <2>5, <2>7, <2>8
<1>6. OpenAt(recs, flags, k) = {stk[m] : m \in 1..l - 1}
  <2>1. \A j : IsOpen(recs, j, k) => j \in Since(recs, k)
    BY Zenon DEF IsOpen
  <2> QED
    BY <1>3, <1>5, <2>1 DEF OpenAt
<1>7. ASSUME NEW m \in 1..l - 1, NEW e \in 1..l - 1
      PROVE  m <= e <=> stk[e] <= stk[m]
  <2>1. /\ IsOpen(recs, stk[m], k) /\ D(stk[m]) = (D(k) - m) + 1
        /\ IsOpen(recs, stk[e], k) /\ D(stk[e]) = (D(k) - e) + 1
    BY <1>3
  <2>2. stk[m] \in 1..k /\ stk[e] \in 1..k
    BY <2>1, DeeperIsLater
  <2>3. /\ D(stk[e]) <= D(stk[m]) => stk[e] <= stk[m]
        /\ D(stk[m]) <= D(stk[e]) => stk[m] <= stk[e]
    BY <2>1, DeeperIsLater DEF D
  <2>4. D(stk[e]) = D(stk[m]) => e = m
    BY <1>2, <2>1
  <2>5. m <= e => stk[e] <= stk[m]
    BY <1>2, <2>1, <2>3
  <2>6. e <= m => stk[m] <= stk[e]
    BY <1>2, <2>1, <2>3
  <2>7. stk[e] = stk[m] => e = m
    BY <2>4
  <2> QED
    BY <2>2, <2>5, <2>6, <2>7
<1> QED
  BY <1>6, <1>7 DEF l

\* log_current_unique_node() finds the outermost directory from which on all
\* are the same as the innermost.
LEMMA FindsSpot ==
    ASSUME NEW recs \in Seq(Recs), NEW k \in DOMAIN recs, NEW flags, NEW stk,
           Depths(recs), StackFits(stk, recs, k, flags),
           HoldsOpen(stk, recs, k)
    PROVE  log_current_unique_node(stk, recs) = Spot(recs, flags, k)
<1> DEFINE l == Len(stk)
           open == OpenAt(recs, flags, k)
           here == Again(recs, open)
           E == Elsewhere(stk, recs)
           found == log_current_unique_node(stk, recs)
           b == BeginOf(recs, k)
<1>1. /\ stk \in Seq(1..k) /\ stk[l] = b /\ k \in Nat \ {0}
      /\ l = 1 + (IF "LF_INDENT_DIRS" \in flags THEN Depth(recs, k) ELSE 0)
  <2>1. k \in Nat \ {0}
    OBVIOUS
  <2> QED
    BY <2>1, Zenon DEF StackFits
<1>2. Depth(recs, k) \in Nat
  BY DEF Depths
<1>3. l \in Nat \ {0} /\ stk # <<>>
  <2> HIDE DEF l
  <2>1. l \in Nat \ {0}
    BY <1>1, <1>2
  <2> QED
    BY <2>1 DEF l
<1>4. /\ "LF_INDENT_DIRS" \in flags => open = {stk[m] : m \in 1..l - 1}
      /\ "LF_INDENT_DIRS" \notin flags => open = {} /\ l = 1
      /\ "LF_INDENT_DIRS" \in flags =>
            \A m, e \in 1..l - 1 : m <= e <=> stk[e] <= stk[m]
  <2>1. CASE "LF_INDENT_DIRS" \in flags
    BY <2>1, StackIsOpen
  <2>2. CASE "LF_INDENT_DIRS" \notin flags
    <3>1. open = {}
      BY <2>2 DEF OpenAt
    <3> HIDE DEF l
    <3> QED
      BY <1>1, <2>2, <3>1
  <2> QED
    BY <2>1, <2>2
<1>5. CASE l = 1
  <2>1. open = {}
    <3> HIDE DEF open, l
    <3>1. 1..l - 1 = {}
      BY <1>5
    <3> QED
      BY <1>4, <3>1
  <2>2. here = {}
    BY <2>1 DEF Again
  <2>3. found = stk[l]
    <3> HIDE DEF here, open, E
    <3>1. found = stk[1]
      BY <1>3, <1>5 DEF log_current_unique_node
    <3> QED
      BY <1>5, <3>1
  <2> QED
    BY <1>1, <2>2, <2>3 DEF Spot
<1>6. CASE l # 1
  <2>1. l > 1 /\ open = {stk[m] : m \in 1..l - 1}
        /\ \A m, e \in 1..l - 1 : m <= e <=> stk[e] <= stk[m]
    <3> HIDE DEF l, open
    <3> QED
      BY <1>3, <1>4, <1>6
  <2>2. \A m \in 1..l - 1 : /\ stk[m] \in 1..k
                            /\ recs[stk[m]].code = "PUSHDIR"
    <3>1. \A m \in 1..l - 1 : IsOpen(recs, stk[m], k)
      BY Zenon DEF HoldsOpen
    <3>2. \A m \in 1..l - 1 : m \in 1..l
      <4> HIDE DEF l
      <4> QED
        BY <1>3
    <3>3. \A m \in 1..l : stk[m] \in 1..k
      BY <1>1
    <3> HIDE DEF l
    <3> QED
      BY <3>1, <3>2, <3>3 DEF IsOpen
  <2>3. recs[b].code # "PUSHDIR"
    <3>1. b # 0
      <4>1. stk[l] \in 1..k
        BY <1>1, <1>3
      <4> HIDE DEF l
      <4> QED
        BY <1>1, <4>1
    <3>2. Begins(recs, k, b)
      BY <1>1, BeginIs
    <3>3. recs[b].code = "BUILDSTART"
      BY <3>1, <3>2 DEF Begins
    <3> QED
      BY <3>3
  <2>4. l \in E
    <3>1. l \in 2..l
      <4> HIDE DEF l
      <4> QED
        BY <1>3, <2>1
    <3> QED
      BY <1>1, <2>3, <3>1 DEF Elsewhere
  <2>5. stk \in Seq(Int)
    BY <1>1
  <2> DEFINE e == Min(E)
  <2>6. e \in 2..l /\ e \in E /\ \A x \in E : e <= x
    <3>1. E \in SUBSET Nat
      BY DEF Elsewhere
    <3>2. e \in 2..l
      BY <2>4, <2>5, LeastElsewhere
    <3> HIDE DEF E
    <3> QED
      BY <2>4, <3>1, <3>2, LeastOf
  <2>7. 1 \in 1..l - 1 /\ e - 1 \in 1..l - 1
    <3> HIDE DEF l, e
    <3> QED
      BY <1>3, <2>1, <2>6
  <2>8. found = stk[e - 1]
    <3>1. stk[1] # Freed /\ recs[stk[1]].code = "PUSHDIR"
      <4> HIDE DEF l, e, open, here, E, found
      <4>1. stk[1] \in 1..k
        BY <2>2, <2>7
      <4> QED
        BY <2>2, <2>7, <4>1 DEF Freed
    <3>2. E # {}
      BY <2>4
    <3> QED
      BY <1>3, <2>1, <3>1, <3>2 DEF log_current_unique_node
  <2> DEFINE top == stk[1]
  <2>9. Max(open) = top
    <3>1. top \in open
      BY <2>1, <2>7
    <3>2. open \in SUBSET (0..k)
      BY <2>1, <2>2
    <3>3. Max(open) \in open /\ \A x \in open : x <= Max(open)
      <4> HIDE DEF open, top
      <4> QED
        BY <1>1, <3>1, <3>2, GreatestOf
    <3>4. \A x \in open : x <= top
      <4>1. \A m \in 1..l - 1 : 1 <= m
        OBVIOUS
      <4>2. \A m \in 1..l - 1 : stk[m] <= stk[1]
        <5> HIDE DEF l, e
        <5> QED
          BY <2>1, <2>7, <4>1
      <4> HIDE DEF l
      <4> QED
        BY <2>1, <4>2
    <3> HIDE DEF open, top
    <3>5. Max(open) <= top /\ top <= Max(open)
      BY <3>1, <3>3, <3>4
    <3>6. Max(open) \in 0..k /\ top \in 0..k
      BY <3>1, <3>2, <3>3
    <3> QED
      BY <1>1, <3>5, <3>6
  <2>10. here = {j \in open : \A x \in open :
                    x >= j => recs[x].file = recs[top].file}
    <3> HIDE DEF open, top
    <3> QED
      BY <2>9 DEF Again
  <2>11. \A m \in 1..l - 1 : m < e => recs[stk[m]].file = recs[top].file
    <3> SUFFICES ASSUME NEW m \in 1..l - 1, m < e
                 PROVE  recs[stk[m]].file = recs[top].file
      OBVIOUS
    <3>1. CASE m = 1
      BY <3>1
    <3>2. CASE m # 1
      <4>1. m \in 2..l
        <5> HIDE DEF l, e
        <5> QED
          BY <1>3, <3>2
      <4>2. m \notin E
        <5> HIDE DEF l, E
        <5> QED
          BY <1>3, <2>6
      <4> QED
        BY <4>1, <4>2 DEF Elsewhere
    <3> QED
      BY <3>1, <3>2
  <2> HIDE DEF e, l, open, here, E, found, b, top
  <2>12. stk[e - 1] \in here
    <3>1. stk[e - 1] \in open
      BY <2>1, <2>7
    <3>2. ASSUME NEW m \in 1..l - 1, stk[m] >= stk[e - 1]
          PROVE  recs[stk[m]].file = recs[top].file
      <4>1. stk[m] \in Int /\ stk[e - 1] \in Int
        BY <2>2, <2>7
      <4>2. m <= e - 1
        BY <2>1, <2>7, <3>2, <4>1
      <4>3. m < e
        BY <2>6, <4>2
      <4> QED
        BY <2>11, <4>3
    <3> QED
      BY <2>1, <2>10, <3>1, <3>2
  <2>13. ASSUME NEW j \in here
         PROVE  stk[e - 1] <= j
    <3>1. PICK m \in 1..l - 1 : j = stk[m]
      BY <2>1, <2>10
    <3>2. ASSUME m >= e
          PROVE  FALSE
      <4>1. e \in 1..l - 1
        BY <1>3, <2>6, <3>2
      <4>2. stk[e] \in open /\ stk[e] >= stk[m]
        BY <2>1, <2>2, <3>2, <4>1
      <4>3. recs[stk[e]].file = recs[top].file
        BY <2>10, <3>1, <4>2
      <4>4. stk[e] # Freed /\ recs[stk[e]].code = "PUSHDIR"
        BY <2>2, <4>1 DEF Freed
      <4> QED
        BY <2>6, <4>3, <4>4 DEF E, Elsewhere, top
    <3>3. m <= e - 1
      BY <2>6, <3>2
    <3> QED
      BY <2>1, <2>7, <3>1, <3>3
  <2>14. here \in SUBSET Nat
    <3>1. \A m \in 1..l - 1 : stk[m] \in Nat
      BY <1>1, <2>2
    <3> QED
      BY <2>1, <2>10, <3>1
  <2>15. Min(here) = stk[e - 1]
    <3>1. Min(here) \in here /\ \A j \in here : Min(here) <= j
      BY <2>12, <2>14, LeastOf
    <3>2. stk[e - 1] <= Min(here) /\ Min(here) <= stk[e - 1]
      BY <2>12, <2>13, <3>1
    <3>3. Min(here) \in Nat /\ stk[e - 1] \in Nat
      BY <2>12, <2>14, <3>1
    <3> QED
      BY <3>2, <3>3
  <2>16. here # {}
    BY <2>12
  <2> QED
    BY <2>8, <2>15, <2>16 DEF Spot, here, open, found
<1> QED
  BY <1>5, <1>6

\* Under which record the row of the record at place i belongs.
Place(recs, flags, i) ==
    IF recs[i].code = "BUILDSTART" THEN Top ELSE Spot(recs, flags, i - 1)
Under(recs, flags, i) ==
    IF Shown(recs[i], flags) THEN Place(recs, flags, i) ELSE Hidden

LEMMA ShownUnder ==
    ASSUME NEW v \in Views, NEW recs \in Seq(Recs), NEW flags,
           NEW i \in DOMAIN recs, Depths(recs),
           \/ recs[i].code = "BUILDSTART"
           \/ /\ i > 1 /\ StackFits(v.stack, recs, i - 1, flags)
              /\ HoldsOpen(v.stack, recs, i - 1)
    PROVE  log_show_rec(v, recs, flags, i).rows[Len(v.rows) + 1].under
             = Under(recs, flags, i)
<1> DEFINE parent == IF recs[i].code = "BUILDSTART" THEN Top
                     ELSE log_current_unique_node(v.stack, recs)
           row == Row(IF Shown(recs[i], flags) THEN parent ELSE Hidden)
           w == log_show_rec(v, recs, flags, i)
<1>1. parent = Place(recs, flags, i)
  <2>1. CASE recs[i].code = "BUILDSTART"
    BY <2>1 DEF Place
  <2>2. CASE recs[i].code # "BUILDSTART"
    <3>1. i - 1 \in DOMAIN recs
      BY <2>2
    <3>2. log_current_unique_node(v.stack, recs) = Spot(recs, flags, i - 1)
      BY <2>2, <3>1, FindsSpot
    <3> QED
      BY <2>2, <3>2 DEF Place
  <2> QED
    BY <2>1, <2>2
<1>2. row.under = Under(recs, flags, i)
  <2> HIDE DEF parent
  <2> QED
    BY <1>1 DEF Under, Row
<1>3. w.rows = Append(v.rows, row)
  BY DEF log_show_rec
<1>4. v.rows \in Seq(Rows)
  BY DEF Views
<1> HIDE DEF row, w
<1>5. Append(v.rows, row)[Len(v.rows) + 1] = row
  BY <1>4
<1> QED
  BY <1>2, <1>3, <1>5 DEF w

\* The records from i to j are shown where they belong.
Placed(w, recs, flags, i, j) ==
    /\ \A m \in i..j : w.rows[m].under = Under(recs, flags, m)
    /\ j >= i => HoldsOpen(w.stack, recs, j)

LEMMA PlacedStep ==
    ASSUME NEW v \in Views, NEW recs \in Seq(Recs), NEW flags, Depths(recs),
           NEW i \in 1..Len(recs), NEW j \in i..Len(recs), NEW w,
           Len(v.rows) = i - 1,
           \/ recs[i].code = "BUILDSTART"
           \/ /\ i > 1 /\ StackFits(v.stack, recs, i - 1, flags)
              /\ HoldsOpen(v.stack, recs, i - 1),
           After(w, v, recs, flags, i, j - 1),
           Placed(w, recs, flags, i, j - 1)
    PROVE  Placed(log_show_rec(w, recs, flags, j), recs, flags, i, j)
<1> DEFINE x == log_show_rec(w, recs, flags, j)
<1>1. /\ j \in DOMAIN recs /\ i \in Nat \ {0} /\ j \in Nat
      /\ w \in Views /\ w.rows \in Seq(Rows)
  <2>1. w \in Views
    BY Zenon DEF After
  <2>2. w.rows \in Seq(Rows)
    BY <2>1 DEF Views
  <2> QED
    BY <2>1, <2>2
<1>2. Len(w.rows) = j - 1
  <2>1. Len(w.rows) = Len(v.rows) + ((j - 1) - (i - 1))
    BY Zenon DEF After
  <2>2. \A l, m \in Int : l = i - 1 /\ m = l + ((j - 1) - (i - 1)) => m = j - 1
    BY <1>1
  <2>3. Len(w.rows) \in Int /\ Len(v.rows) \in Int
    BY <1>1
  <2> QED
    BY <2>1, <2>2, <2>3
<1>3. \/ recs[j].code = "BUILDSTART"
      \/ /\ j > 1 /\ StackFits(w.stack, recs, j - 1, flags)
         /\ HoldsOpen(w.stack, recs, j - 1)
  <2>1. CASE j = i
    <3>1. w = v
      <4>1. j - 1 = i - 1
        BY <2>1
      <4> QED
        BY <4>1, Zenon DEF After
    <3> QED
      BY <2>1, <3>1
  <2>2. CASE j # i
    <3>1. j - 1 >= i /\ j > 1
      BY <1>1, <2>2
    <3>2. StackFits(w.stack, recs, j - 1, flags)
      BY <3>1, Zenon DEF After
    <3>3. HoldsOpen(w.stack, recs, j - 1)
      BY <3>1, Zenon DEF Placed
    <3> QED
      BY <3>1, <3>2, <3>3
  <2> QED
    BY <2>1, <2>2
<1>4. x.rows[j].under = Under(recs, flags, j)
  <2>1. x.rows[Len(w.rows) + 1].under = Under(recs, flags, j)
    BY <1>1, <1>3, ShownUnder
  <2>2. Len(w.rows) + 1 = j
    BY <1>1, <1>2
  <2> QED
    BY <2>1, <2>2
<1>5. HoldsOpen(x.stack, recs, j)
  <2>1. x.stack = Stacked(w.stack, recs[j], flags, j)
    BY ShowStacks
  <2>2. HoldsOpen(Stacked(w.stack, recs[j], flags, j), recs, j)
    BY <1>1, <1>3, OpenStack
  <2> QED
    BY <2>1, <2>2
<1>6. \A m \in i..j-1 : x.rows[m].under = Under(recs, flags, m)
  <2>1. \A m \in DOMAIN w.rows : x.rows[m] = w.rows[m]
    BY <1>1, ShowOne
  <2>2. \A m \in i..j-1 : m \in DOMAIN w.rows
    BY <1>1, <1>2
  <2>3. \A m \in i..j-1 : w.rows[m].under = Under(recs, flags, m)
    BY Zenon DEF Placed
  <2> QED
    BY <2>1, <2>2, <2>3
<1> HIDE DEF x
<1>7. \A m \in i..j : m \in i..j-1 \/ m = j
  BY <1>1
<1>8. \A m \in i..j : x.rows[m].under = Under(recs, flags, m)
  BY <1>4, <1>6, <1>7
<1> QED
  BY <1>5, <1>8, Zenon DEF Placed, x

LEMMA PlacesAll ==
    ASSUME NEW v \in Views, NEW recs \in Seq(Recs), NEW flags, Depths(recs),
           NEW i \in 1..Len(recs) + 1, Len(v.rows) = i - 1,
           i <= Len(recs) =>
              \/ recs[i].code = "BUILDSTART"
              \/ /\ i > 1 /\ StackFits(v.stack, recs, i - 1, flags)
                 /\ HoldsOpen(v.stack, recs, i - 1)
    PROVE  Placed(ShowFrom(v, recs, flags, i), recs, flags, i, Len(recs))
<1> DEFINE n == Len(recs)
           g == CHOOSE h : IsShowing(h, v, recs, flags, i)
           T == {j \in i-1..n : Placed(g[j], recs, flags, i, j)}
<1>1. i - 1 \in Nat /\ n \in Nat /\ i - 1 <= n
  OBVIOUS
<1>2. IsShowing(g, v, recs, flags, i)
  BY ShowingExists
<1>3. ShowFrom(v, recs, flags, i) = g[n]
  BY ShownFrom
<1> HIDE DEF g
<1>4. \A j \in i-1..n : After(g[j], v, recs, flags, i, j)
  <2>1. \A j \in DOMAIN recs : Depth(recs, j) \in Nat
    BY DEF Depths
  <2> QED
    BY <1>2, <2>1, ShowEach
<1>5. \A j \in i-1..n :
         g[j] = IF j = i - 1 THEN v ELSE log_show_rec(g[j - 1], recs, flags, j)
  BY <1>2 DEF IsShowing
<1>6. i - 1 \in T
  <2>1. Placed(g[i - 1], recs, flags, i, i - 1)
    <3>1. i..i-1 = {} /\ ~ (i - 1 >= i)
      BY <1>1
    <3> QED
      BY <3>1 DEF Placed
  <2> QED
    BY <1>1, <2>1
<1>7. ASSUME NEW j \in (i-1)+1..n, j - 1 \in T
      PROVE  j \in T
  <2>1. j \in i..n /\ j \in i-1..n /\ j # i - 1 /\ i \in 1..n /\ i <= n
        /\ j - 1 \in i-1..n
    BY <1>1
  <2>2. g[j] = log_show_rec(g[j - 1], recs, flags, j)
    BY <1>5, <2>1
  <2>3. After(g[j - 1], v, recs, flags, i, j - 1)
    BY <1>4, <2>1
  <2>4. Placed(g[j - 1], recs, flags, i, j - 1)
    BY <1>7
  <2>5. Placed(log_show_rec(g[j - 1], recs, flags, j), recs, flags, i, j)
    BY <2>1, <2>3, <2>4, PlacedStep
  <2> QED
    BY <2>1, <2>2, <2>5
<1>8. \A j \in i-1..n : j \in T
  <2> HIDE DEF T, n
  <2> QED
    BY <1>1, <1>6, <1>7, EveryRound
<1>9. n \in i-1..n
  BY <1>1
<1> QED
  BY <1>3, <1>8, <1>9

\* What is shown already belongs where it did when records are added.
LEMMA OpenAlike ==
    ASSUME NEW recs, NEW more, NEW n \in Nat, SameUpTo(recs, more, n),
           NEW k \in 0..n
    PROVE  /\ Depth(more, k) = Depth(recs, k)
           /\ BeginOf(more, k) = BeginOf(recs, k)
           /\ \A j : IsOpen(more, j, k) <=> IsOpen(recs, j, k)
<1>1. k \in Nat /\ \A x \in 0..k : x \in Nat /\ SameUpTo(recs, more, x)
  BY DEF SameUpTo
<1>2. \A x \in 0..k : Retells(recs, more, x)
  BY <1>1, Alike
<1>3. \A x \in 0..k : /\ Depth(more, x) = Depth(recs, x)
                      /\ BeginOf(more, x) = BeginOf(recs, x)
  BY <1>2 DEF Retells, Depth
<1>4. k \in 0..k
  BY <1>1
<1>5. Since(more, k) = Since(recs, k)
  BY <1>3, <1>4 DEF Since
<1>6. ASSUME NEW j, j \in Since(recs, k)
      PROVE  /\ recs[j] = more[j]
             /\ \A x \in j..k : x \in 0..k
             /\ j \in 0..k
  <2>1. j \in 1..k
    BY <1>1, <1>6, SinceIs
  <2> QED
    BY <1>1, <2>1 DEF SameUpTo
<1>7. ASSUME NEW j, j \in Since(recs, k)
      PROVE  IsOpen(more, j, k) <=> IsOpen(recs, j, k)
  <2>1. Depth(more, j) = Depth(recs, j)
    BY <1>3, <1>6, <1>7
  <2>2. \A x \in j..k : Depth(more, x) = Depth(recs, x)
    BY <1>3, <1>6, <1>7
  <2> QED
    BY <1>5, <1>6, <1>7, <2>1, <2>2 DEF IsOpen
<1>8. ASSUME NEW j, j \notin Since(recs, k)
      PROVE  IsOpen(more, j, k) <=> IsOpen(recs, j, k)
  BY <1>5, <1>8, Zenon DEF IsOpen
<1> QED
  BY <1>3, <1>4, <1>7, <1>8

LEMMA HoldsAlike ==
    ASSUME NEW recs, NEW more, NEW n \in Nat, SameUpTo(recs, more, n),
           NEW stk, HoldsOpen(stk, recs, n)
    PROVE  HoldsOpen(stk, more, n)
<1>1. n \in 0..n
  OBVIOUS
<1>2. /\ Depth(more, n) = Depth(recs, n)
      /\ \A j : IsOpen(more, j, n) <=> IsOpen(recs, j, n)
  BY <1>1, OpenAlike
<1> SUFFICES ASSUME NEW m \in 1..Len(stk) - 1
             PROVE  /\ IsOpen(more, stk[m], n)
                    /\ Depth(more, stk[m]) = (Depth(more, n) - m) + 1
  BY DEF HoldsOpen
<1>3. /\ IsOpen(recs, stk[m], n)
      /\ Depth(recs, stk[m]) = (Depth(recs, n) - m) + 1
  BY DEF HoldsOpen
<1>4. stk[m] \in 0..n
  <2>1. stk[m] \in Since(recs, n)
    BY <1>3, Zenon DEF IsOpen
  <2>2. stk[m] \in 1..n
    BY <2>1, SinceIs
  <2> QED
    BY <2>2
<1>5. Depth(more, stk[m]) = Depth(recs, stk[m])
  BY <1>4, OpenAlike
<1> QED
  BY <1>2, <1>3, <1>5

LEMMA AgainIs ==
    ASSUME NEW recs, NEW n \in Nat, NEW open \in SUBSET (1..n)
    PROVE  Again(recs, open) \in SUBSET (1..n)
           /\ (open # {} => Max(open) \in open)
<1>1. open \in SUBSET (0..n)
  OBVIOUS
<1> QED
  BY <1>1, GreatestOf DEF Again

LEMMA UnderAlike ==
    ASSUME NEW recs, NEW more, NEW n \in Nat, SameUpTo(recs, more, n),
           NEW flags, NEW i \in 1..n
    PROVE  Under(more, flags, i) = Under(recs, flags, i)
<1> DEFINE k == i - 1
           open == OpenAt(recs, flags, k)
<1>1. k \in 0..n /\ k \in Nat /\ more[i] = recs[i]
      /\ \A j \in 1..k : more[j] = recs[j]
  BY DEF SameUpTo
<1> HIDE DEF k
<1>2. /\ BeginOf(more, k) = BeginOf(recs, k)
      /\ \A j : IsOpen(more, j, k) <=> IsOpen(recs, j, k)
  BY <1>1, OpenAlike
<1>3. Since(more, k) = Since(recs, k)
  BY <1>2 DEF Since
<1>4. OpenAt(more, flags, k) = open
  BY <1>2, <1>3 DEF OpenAt
<1>5. open \in SUBSET (1..k)
  <2>1. \A j \in Since(recs, k) : j \in 1..k
    BY <1>1, SinceIs
  <2> QED
    BY <2>1 DEF OpenAt
<1> HIDE DEF open
<1>6. Again(more, open) = Again(recs, open)
  <2>1. open # {} => Max(open) \in open
    BY <1>1, <1>5, AgainIs
  <2>2. \A j \in open : more[j] = recs[j]
    BY <1>1, <1>5
  <2> QED
    BY <2>1, <2>2 DEF Again
<1>7. Spot(more, flags, k) = Spot(recs, flags, k)
  BY <1>2, <1>4, <1>6, Zenon DEF Spot, open
<1> QED
  BY <1>1, <1>7 DEF Under, Place, k

-------------------------------------------------------------------------------
(***************************************************************************)
(* Where a row belongs is counted over the brackets between two records.   *)
(***************************************************************************)
Between(recs, c, j, k) == {m \in j..k : recs[m].code = c}

\* A directory is open as long as fewer are left than entered from it on.
LEMMA OpenByCount ==
    ASSUME NEW recs, NEW k \in Nat, NEW j \in Since(recs, k),
           recs[j].code = "PUSHDIR", NEW x \in j..k
    PROVE  Cardinality(Between(recs, "POPDIR", j, x))
             < Cardinality(Between(recs, "PUSHDIR", j, x))
           <=> Depth(recs, j) <= Depth(recs, x)
<1>1. j \in 1..k /\ BeginOf(recs, k) < j /\ j \in Nat \ {0} /\ j - 1 \in Nat
      /\ x \in Nat \ {0} /\ j - 1 <= x /\ x <= k
  <2>1. j \in 1..k /\ BeginOf(recs, k) < j
    BY SinceIs
  <2> QED
    BY <2>1
<1>2. \A i \in (j-1)+1..x : recs[i].code # "BUILDSTART"
  <2>1. Begins(recs, k, BeginOf(recs, k))
    BY BeginIs
  <2>2. BeginOf(recs, k) \in Nat
    BY <2>1 DEF Begins
  <2>3. \A i \in (j-1)+1..x : i \in BeginOf(recs, k)+1..k
    BY <1>1, <2>2
  <2> QED
    BY <2>1, <2>3 DEF Begins
<1>3. /\ Since(recs, x) = Since(recs, j - 1) \cup ((j-1)+1..x)
      /\ Since(recs, j - 1) \subseteq 1..j-1
  BY <1>1, <1>2, BlockSince
<1>4. ASSUME NEW c
      PROVE  /\ Cardinality(Between(recs, c, j, x)) \in Nat
             /\ Cardinality(Coded(recs, j - 1, c)) \in Nat
             /\ Cardinality(Coded(recs, x, c))
                  = Cardinality(Coded(recs, j - 1, c))
                      + Cardinality(Between(recs, c, j, x))
  <2> DEFINE A == Coded(recs, j - 1, c)
             B == Between(recs, c, j, x)
  <2>1. A \subseteq 1..j-1 /\ B \subseteq j..x
    BY <1>3 DEF Coded, Between
  <2>2. A \cap B = {}
    BY <1>1, <2>1
  <2>3. IsFiniteSet(A) /\ IsFiniteSet(B)
    <3>1. IsFiniteSet(1..j-1) /\ IsFiniteSet(j..x)
      BY <1>1, FS_Interval
    <3> QED
      BY <2>1, <3>1, FS_Subset
  <2>4. Coded(recs, x, c) = A \cup B
    <3>1. (j-1)+1..x = j..x
      BY <1>1
    <3> QED
      BY <1>3, <3>1 DEF Coded, Between
  <2>5. Cardinality(A \cap B) = 0
    BY <2>2, FS_EmptySet
  <2> HIDE DEF A, B
  <2>6. Cardinality(A) \in Nat /\ Cardinality(B) \in Nat
    BY <2>3, FS_CardinalityType
  <2>7. Cardinality(A \cup B)
          = Cardinality(A) + Cardinality(B) - Cardinality(A \cap B)
    BY <2>3, FS_Union
  <2> QED
    BY <2>4, <2>5, <2>6, <2>7 DEF A, B
<1>5. Depth(recs, x) = Depth(recs, j - 1)
        + (Cardinality(Between(recs, "PUSHDIR", j, x))
             - Cardinality(Between(recs, "POPDIR", j, x)))
      /\ Depth(recs, j - 1) \in Int
  BY <1>4 DEF Depth
<1>6. Depth(recs, j) = Depth(recs, j - 1) + 1
  BY <1>1, DepthStep
<1> QED
  BY <1>4, <1>5, <1>6

\* The start of the build that a record belongs to, in the text.
LEMMA StartInText ==
    ASSUME NEW recs \in Seq(Recs), LogShape(recs), NEW i \in DOMAIN recs
    PROVE  LastStart(SubSeq(Text(recs), 1, i)) = BeginOf(recs, i)
<1> DEFINE lines == SubSeq(Text(recs), 1, i)
           n == Len(recs)
<1>1. n \in Nat /\ DOMAIN recs = 1..n /\ i \in 1..n
  OBVIOUS
<1>2. DOMAIN lines = 1..i /\ \A j \in 1..i : lines[j] = recs[j].line
  <2>1. PICK S : /\ Text(recs) \in Seq(S) /\ Len(Text(recs)) = Len(recs)
                 /\ \A j \in 1..Len(recs) : Text(recs)[j] = recs[j].line
    BY TextOfSeq
  <2> DEFINE t == Text(recs)
  <2>2. t \in Seq(S) /\ Len(t) = n /\ \A j \in 1..n : t[j] = recs[j].line
    BY <2>1
  <2> HIDE DEF t, n
  <2>3. /\ DOMAIN SubSeq(t, 1, i) = 1..i
        /\ \A j \in 1..i : SubSeq(t, 1, i)[j] = t[j]
    BY <1>1, <2>2
  <2>4. \A j \in 1..i : j \in 1..n
    BY <1>1
  <2> QED
    BY <2>2, <2>3, <2>4 DEF t
<1> HIDE DEF lines, n
<1>3. \A j \in 1..i : lines[j] = StartLine <=> recs[j].code = "BUILDSTART"
  BY <1>1, <1>2 DEF LogShape
<1>4. {j \in DOMAIN lines : lines[j] = StartLine}
        = {j \in 1..i : recs[j].code = "BUILDSTART"}
  BY <1>2, <1>3
<1> QED
  BY <1>4 DEF LastStart, BeginOf, lines

LEMMA OpenDirsIs ==
    ASSUME log \in Seq(Recs), NEW i \in DOMAIN log, i > 1,
           log[i].code # "BUILDSTART"
    PROVE  OpenDirs(i, BeginOf(log, i))
             = {j \in Since(log, i - 1) : IsOpen(log, j, i - 1)}
<1> DEFINE k == i - 1
           Shut(j, x) == Cardinality(Between(log, "POPDIR", j, x))
                           < Cardinality(Between(log, "PUSHDIR", j, x))
<1>1. i \in Nat \ {0} /\ k \in Nat \ {0} /\ k = i - 1
  OBVIOUS
<1>2. BeginOf(log, i) = BeginOf(log, k)
  BY <1>1, BeginStep
<1>3. OpenDirs(i, BeginOf(log, i))
        = {j \in BeginOf(log, i)+1..k : /\ log[j].code = "PUSHDIR"
                                        /\ \A x \in j..k : Shut(j, x)}
  BY Zenon DEF OpenDirs, Between
<1>4. OpenDirs(i, BeginOf(log, i))
        = {j \in Since(log, k) : /\ log[j].code = "PUSHDIR"
                                 /\ \A x \in j..k : Shut(j, x)}
  BY <1>2, <1>3 DEF Since
<1>5. ASSUME NEW j \in Since(log, k), log[j].code = "PUSHDIR", NEW x \in j..k
      PROVE  Shut(j, x) <=> Depth(log, j) <= Depth(log, x)
  BY <1>1, <1>5, OpenByCount
<1> HIDE DEF Shut, k
<1>6. \A j \in Since(log, k) :
         (/\ log[j].code = "PUSHDIR" /\ \A x \in j..k : Shut(j, x))
           <=> IsOpen(log, j, k)
  BY <1>5, Zenon DEF IsOpen
<1> QED
  BY <1>4, <1>6 DEF k

LEMMA BelongsIs ==
    ASSUME log \in Seq(Recs), LogShape(log), NEW i \in DOMAIN log
    PROVE  Belongs(i) = Place(log, log_flags, i)
<1> DEFINE start == LastStart(SubSeq(Text(log), 1, i))
           open == IF "LF_INDENT_DIRS" \in log_flags
                   THEN OpenDirs(i, start) ELSE {}
           here == Again(log, open)
<1>1. start = BeginOf(log, i)
  BY StartInText
<1>2. Belongs(i) = CASE log[i].code = "BUILDSTART" -> Top
                     [] here # {} -> Min(here)
                     [] OTHER -> start
  BY Zenon DEF Belongs, Again
<1>3. CASE log[i].code = "BUILDSTART"
  <2>1. i \in Nat \ {0} /\ i - 1 < i
    OBVIOUS
  <2>2. BeginOf(log, i) = i
    BY <1>3, <2>1, BeginStep
  <2>3. OpenDirs(i, i) = {}
    <3>1. i+1..i-1 = {}
      BY <2>1
    <3> QED
      BY <3>1 DEF OpenDirs
  <2>4. open = {}
    BY <1>1, <2>2, <2>3
  <2>5. here = {}
    BY <2>4 DEF Again
  <2> HIDE DEF here, start
  <2> QED
    BY <1>2, <1>3, <2>5 DEF Place
<1>4. CASE log[i].code # "BUILDSTART"
  <2>1. i > 1 /\ i \in Nat \ {0}
    <3>1. log # <<>> /\ i \in 1..Len(log)
      OBVIOUS
    <3>2. log[1].code = "BUILDSTART"
      BY <3>1 DEF LogShape
    <3> QED
      BY <1>4, <3>1, <3>2
  <2>2. OpenDirs(i, start) = {j \in Since(log, i - 1) : IsOpen(log, j, i - 1)}
    BY <1>1, <1>4, <2>1, OpenDirsIs
  <2>3. open = OpenAt(log, log_flags, i - 1)
    BY <2>2 DEF OpenAt
  <2>4. start = BeginOf(log, i - 1)
    BY <1>1, <1>4, <2>1, BeginStep
  <2>5. Belongs(i) = IF here # {} THEN Min(here) ELSE start
    <3> HIDE DEF here, start
    <3> QED
      BY <1>2, <1>4
  <2>6. here = Again(log, OpenAt(log, log_flags, i - 1))
    BY <2>3
  <2> HIDE DEF here, start, open
  <2>7. Spot(log, log_flags, i - 1) = IF here # {} THEN Min(here) ELSE start
    BY <2>4, <2>6 DEF Spot
  <2> QED
    BY <1>4, <2>5, <2>7 DEF Place
<1> QED
  BY <1>3, <1>4

-------------------------------------------------------------------------------
(***************************************************************************)
(* The tree, whatever is written, shown or cleared.                        *)
(***************************************************************************)
TreeInv ==
    /\ log # <<>> => HoldsOpen(log_node_stack, log, Len(log))
    /\ \A i \in DOMAIN log : rows[i].under = Under(log, log_flags, i)

LEMMA TreeIsRight ==
    ASSUME TypeOK, LogShape(log), TreeInv
    PROVE  TreeOfDirectories
<1> SUFFICES ASSUME NEW i \in DOMAIN log
             PROVE  rows[i].under = IF Shown(log[i], log_flags)
                                    THEN Belongs(i) ELSE Hidden
  BY DEF TreeOfDirectories
<1>1. rows[i].under = Under(log, log_flags, i)
  BY DEF TreeInv
<1>2. Belongs(i) = Place(log, log_flags, i)
  BY BelongsIs DEF TypeOK
<1> QED
  BY <1>1, <1>2 DEF Under

\* The counts are told in rows that stay where they are.
LEMMA UpdateKeepsUnder ==
    ASSUME NEW v \in Views, NEW e, NEW w, NEW changed, NEW final,
           log_update_build_start(v, e, w, changed, final)
    PROVE  \A i \in DOMAIN v.rows : rows'[i].under = v.rows[i].under
<1> DEFINE root == Last(v.stack)
           tells == [v.rows EXCEPT ![root].says = <<e, w>>]
<1>1. v.rows \in Seq(Rows) /\ \A i \in DOMAIN v.rows : v.rows[i] \in Rows
  <2>1. v.rows \in Seq(Rows)
    BY DEF Views
  <2> QED
    BY <2>1
<1>2. rows' = tells \/ rows' = v.rows
  BY DEF log_update_build_start
<1>3. ASSUME NEW i \in DOMAIN v.rows
      PROVE  tells[i].under = v.rows[i].under
  <2> HIDE DEF root
  <2>1. tells[i] = IF i = root THEN [v.rows[i] EXCEPT !.says = <<e, w>>]
                   ELSE v.rows[i]
    BY <1>1
  <2>2. v.rows[i] \in Rows
    BY <1>1
  <2> HIDE DEF tells
  <2> QED
    BY <2>1, <2>2 DEF Rows
<1> HIDE DEF tells
<1> QED
  BY <1>2, <1>3

LEMMA DepthsOf ==
    ASSUME NEW recs \in Seq(Recs), LogShape(recs), NeverStray(recs)
    PROVE  Depths(recs)
  BY DepthNat DEF Depths

LEMMA AddedToTree ==
    ASSUME LogInv, TreeInv, Calm, NEW line \in Lines, Handle(line),
           AddLine(line)
    PROVE  TreeInv'
<1> DEFINE more == Extended(line)
           v == ShownLine(line)
           n == Len(log)
           k == Len(more)
           from == View(rows)
<1>1. TypeOK
  BY DEF LogInv
<1>2. /\ log # <<>> /\ log \in Seq(Recs) /\ Adds(log, Block(line), more)
      /\ LogShape(more) /\ NeverStray(more)
  BY AddLog
<1>3. /\ StackFits(log_node_stack, more, n, log_flags)
      /\ After(v, from, more, log_flags, n + 1, k)
      /\ from \in Views
  BY AddTree
<1>4. /\ log' = more /\ log_node_stack' = v.stack
      /\ log_update_build_start(v, Errors(line), Warnings(line),
                                CountsChange(line), FALSE)
  BY AddIs
<1>5. log_flags' = log_flags
  BY DEF Handle
<1>6. from.rows = rows /\ from.stack = log_node_stack /\ Len(rows) = n
      /\ rows \in Seq(Rows) /\ n \in Nat \ {0}
  <2>1. rows \in Seq(Rows) /\ Len(rows) = n
    BY <1>1 DEF TypeOK
  <2>2. n \in Nat \ {0}
    BY <1>2
  <2> QED
    BY <2>1, <2>2 DEF View
<1>7. v = ShowFrom(from, more, log_flags, n + 1)
  BY DEF ShownLine
<1> HIDE DEF more, v, from
<1>8. /\ more \in Seq(Recs) /\ k \in Nat /\ n + 1 <= k
      /\ \A i \in 1..n : more[i] = log[i]
  <2>1. more \in Seq(Recs) /\ k \in Nat /\ n < k
        /\ \A i \in 1..n : more[i] = log[i]
    BY <1>2 DEF Adds
  <2> QED
    BY <1>6, <2>1
<1>9. SameUpTo(log, more, n)
  BY <1>8 DEF SameUpTo
<1>10. Depths(more)
  BY <1>2, <1>8, DepthsOf
<1> HIDE DEF k, n
<1>11. HoldsOpen(log_node_stack, more, n)
  <2>1. HoldsOpen(log_node_stack, log, n)
    BY <1>2 DEF TreeInv, n
  <2> QED
    BY <1>6, <1>9, <2>1, HoldsAlike
<1>12. Placed(v, more, log_flags, n + 1, k)
  <2>1. /\ n + 1 \in 1..Len(more) + 1 /\ Len(from.rows) = (n + 1) - 1
        /\ n + 1 > 1 /\ (n + 1) - 1 = n
    BY <1>6, <1>8 DEF k
  <2> QED
    BY <1>3, <1>6, <1>7, <1>8, <1>10, <1>11, <2>1, PlacesAll DEF k
<1>13. /\ v \in Views /\ Len(v.rows) = k
       /\ \A m \in 1..n : v.rows[m] = rows[m]
  <2>1. v \in Views /\ Len(v.rows) = Len(from.rows) + (k - ((n + 1) - 1))
        /\ \A m \in DOMAIN from.rows : v.rows[m] = from.rows[m]
    BY <1>3, Zenon DEF After
  <2>2. DOMAIN rows = 1..n
    BY <1>6
  <2>3. n + (k - ((n + 1) - 1)) = k
    BY <1>6, <1>8
  <2>4. Len(v.rows) = k
    BY <1>6, <2>1, <2>3
  <2> QED
    BY <1>6, <2>1, <2>2, <2>4
<1>14. DOMAIN v.rows = 1..k
  <2>1. v.rows \in Seq(Rows)
    BY <1>13 DEF Views
  <2> QED
    BY <1>8, <1>13, <2>1
<1>15. \A m \in 1..k : v.rows[m].under = Under(more, log_flags, m)
  <2>1. ASSUME NEW m \in 1..n
        PROVE  v.rows[m].under = Under(more, log_flags, m)
    <3>1. m \in DOMAIN log
      BY <1>2 DEF n
    <3>2. rows[m].under = Under(log, log_flags, m)
      BY <3>1 DEF TreeInv
    <3>3. Under(more, log_flags, m) = Under(log, log_flags, m)
      BY <1>6, <1>9, UnderAlike
    <3> QED
      BY <1>13, <3>2, <3>3
  <2>2. \A m \in n+1..k : v.rows[m].under = Under(more, log_flags, m)
    BY <1>12, Zenon DEF Placed
  <2>3. \A m \in 1..k : m \in 1..n \/ m \in n+1..k
    BY <1>6, <1>8
  <2> QED
    BY <2>1, <2>2, <2>3
<1>16. \A m \in 1..k : rows'[m].under = v.rows[m].under
  BY <1>4, <1>13, <1>14, UpdateKeepsUnder
<1>17. HoldsOpen(v.stack, more, k)
  <2>1. k >= n + 1
    BY <1>6, <1>8
  <2> QED
    BY <1>12, <2>1, Zenon DEF Placed
<1>18. DOMAIN more = 1..k
  BY <1>8 DEF k
<1> QED
  BY <1>4, <1>5, <1>15, <1>16, <1>17, <1>18 DEF TreeInv, k

LEMMA StartsTree ==
    ASSUME LogInv, TreeInv, NEW cleared \in BOOLEAN, log_start_build(cleared)
    PROVE  TreeInv'
<1> DEFINE kept == IF cleared THEN <<>> ELSE log
           old == IF cleared THEN <<>> ELSE rows
           stk == IF cleared THEN [i \in DOMAIN log_node_stack |-> Freed]
                  ELSE log_node_stack
           more == Append(kept, StartRec)
           n == Len(kept)
           k == n + 1
           v == [rows |-> old, stack |-> stk, astray |-> astray]
           w == log_show_rec(v, more, log_flags, k)
<1>1. TypeOK /\ LogShape(log) /\ NeverStray(log)
  BY DEF LogInv, DirsInv
<1>2. /\ kept \in Seq(Recs) /\ old \in Seq(Rows) /\ Len(old) = n
      /\ LogShape(kept) /\ NeverStray(kept)
      /\ \A i \in DOMAIN kept : old[i].under = Under(kept, log_flags, i)
  <2>1. CASE cleared
    <3>1. /\ <<>> \in Seq(Recs) /\ <<>> \in Seq(Rows) /\ DOMAIN <<>> = {}
      OBVIOUS
    <3> QED
      BY <2>1, <3>1, EmptyDirs
  <2>2. CASE ~ cleared
    <3>1. /\ log \in Seq(Recs) /\ rows \in Seq(Rows) /\ Len(rows) = Len(log)
          /\ \A i \in DOMAIN log : rows[i].under = Under(log, log_flags, i)
      BY <1>1 DEF TypeOK, TreeInv
    <3> QED
      BY <1>1, <2>2, <3>1
  <2> QED
    BY <2>1, <2>2
<1>3. stk \in Seq(Int)
  <2>1. log_node_stack \in Seq(Int)
    BY <1>1 DEF TypeOK
  <2>2. [i \in DOMAIN log_node_stack |-> Freed] \in Seq(Int)
    BY <2>1 DEF Freed
  <2> QED
    BY <2>1, <2>2
<1>4. /\ log' = more /\ log_flags' = log_flags
      /\ rows' = log_show_rec(v, more, log_flags, Len(more)).rows
      /\ log_node_stack' = log_show_rec(v, more, log_flags, Len(more)).stack
  BY DEF log_start_build, StartRec
<1>5. v \in Views /\ v.stack = stk /\ v.rows = old
  <2>1. astray \in BOOLEAN
    BY <1>1 DEF TypeOK
  <2> HIDE DEF stk, old
  <2> QED
    BY <1>2, <1>3, <2>1 DEF Views
<1> HIDE DEF kept, old, stk, v
<1>6. /\ more \in Seq(Recs) /\ Len(more) = k /\ k \in DOMAIN more
      /\ k \in Nat \ {0} /\ more[k].code = "BUILDSTART"
      /\ \A i \in 1..n : more[i] = kept[i]
      /\ LogShape(more) /\ NeverStray(more)
  BY <1>2, StartLog, StartRecIs
<1>7. n \in Nat /\ DOMAIN kept = 1..n /\ k = n + 1
  BY <1>2
<1>8. rows' = w.rows /\ log_node_stack' = w.stack
  BY <1>4, <1>6
<1> HIDE DEF more, k, n
<1>9. Depths(more)
  BY <1>6, DepthsOf
<1>10. HoldsOpen(w.stack, more, k)
  <2>1. HoldsOpen(Stacked(stk, more[k], log_flags, k), more, k)
    BY <1>6, <1>9, OpenStack
  <2>2. w.stack = Stacked(stk, more[k], log_flags, k)
    BY <1>5, ShowStacks
  <2> QED
    BY <2>1, <2>2
<1>11. w.rows[k].under = Under(more, log_flags, k)
  <2>1. w.rows[Len(v.rows) + 1].under = Under(more, log_flags, k)
    BY <1>5, <1>6, <1>9, ShownUnder
  <2> QED
    BY <1>2, <1>5, <1>7, <2>1
<1>12. ASSUME NEW i \in 1..n
       PROVE  w.rows[i].under = Under(more, log_flags, i)
  <2>1. w.rows[i] = old[i]
    <3>1. \A j \in DOMAIN v.rows : w.rows[j] = v.rows[j]
      BY <1>5, <1>6, ShowOne
    <3>2. i \in DOMAIN old
      BY <1>2, <1>7
    <3> QED
      BY <1>5, <3>1, <3>2
  <2>2. SameUpTo(kept, more, n)
    BY <1>6 DEF SameUpTo
  <2>3. Under(more, log_flags, i) = Under(kept, log_flags, i)
    BY <1>7, <2>2, UnderAlike
  <2> QED
    BY <1>2, <1>7, <2>1, <2>3
<1>13. DOMAIN more = 1..k /\ \A i \in 1..k : i \in 1..n \/ i = k
  BY <1>6, <1>7
<1> HIDE DEF w
<1> QED
  BY <1>4, <1>6, <1>8, <1>10, <1>11, <1>12, <1>13 DEF TreeInv

LEMMA ShowsTreeAnew ==
    ASSUME LogInv, TreeInv, NEW flags \in FlagSets, SetFlags(flags)
    PROVE  TreeInv'
<1> DEFINE v == View(<<>>)
           n == Len(log)
           w == ShowFrom(v, log, flags, 1)
<1>1. TypeOK /\ LogShape(log) /\ NeverStray(log)
  BY DEF LogInv, DirsInv
<1>2. log \in Seq(Recs) /\ n \in Nat /\ DOMAIN log = 1..n
  BY <1>1 DEF TypeOK
<1>3. v \in Views /\ v.rows = <<>>
  <2>1. <<>> \in Seq(Rows)
    OBVIOUS
  <2> QED
    BY <1>1, <2>1 DEF TypeOK, View, Views
<1>4. /\ log_flags' = flags /\ rows' = w.rows /\ log_node_stack' = w.stack
      /\ log' = log
  BY DEF SetFlags
<1>5. Depths(log)
  BY <1>1, <1>2, DepthsOf
<1> HIDE DEF v
<1>6. Placed(w, log, flags, 1, n)
  <2>1. 1 \in 1..n + 1 /\ Len(v.rows) = 1 - 1
    BY <1>2, <1>3
  <2>2. 1 <= n => log[1].code = "BUILDSTART"
    <3>1. 1 <= n => log # <<>>
      BY <1>2
    <3> QED
      BY <1>1, <3>1 DEF LogShape
  <2> QED
    BY <1>2, <1>3, <1>5, <2>1, <2>2, PlacesAll
<1>7. log # <<>> => n >= 1
  BY <1>2
<1> HIDE DEF w, n
<1>8. /\ n >= 1 => HoldsOpen(w.stack, log, n)
      /\ \A m \in 1..n : w.rows[m].under = Under(log, flags, m)
  BY <1>6, Zenon DEF Placed
<1> QED
  BY <1>2, <1>4, <1>7, <1>8 DEF TreeInv, n

LEMMA EndsTree ==
    ASSUME LogInv, TreeInv, EndBuild
    PROVE  TreeInv'
<1> DEFINE v == View(rows)
<1>1. TypeOK
  BY DEF LogInv
<1>2. v \in Views /\ v.rows = rows
  BY <1>1 DEF TypeOK, View, Views
<1>3. /\ log' = log /\ log_node_stack' = log_node_stack
      /\ log_flags' = log_flags
      /\ log_update_build_start(v, num_errors, num_warnings, num_ew_changed,
                                TRUE)
  BY DEF EndBuild
<1>4. DOMAIN rows = DOMAIN log
  BY <1>1 DEF TypeOK
<1> HIDE DEF v
<1>5. \A i \in DOMAIN v.rows : rows'[i].under = v.rows[i].under
  BY <1>2, <1>3, UpdateKeepsUnder
<1> QED
  BY <1>2, <1>3, <1>4, <1>5 DEF TreeInv

LEMMA TreeStep ==
    ASSUME Calm, LogInv, TreeInv, [Next]_vars
    PROVE  TreeInv'
<1>1. ASSUME NEW line \in Lines, Handle(line)
      PROVE  TreeInv'
  <2>1. CASE HoldLine(line)
    <3>1. /\ log' = log /\ log_node_stack' = log_node_stack /\ rows' = rows
          /\ log_flags' = log_flags
      BY <1>1, <2>1 DEF HoldLine, Handle, treeVars
    <3> QED
      BY <3>1 DEF TreeInv
  <2>2. CASE AddLine(line)
    BY <1>1, <2>2, AddedToTree
  <2> QED
    BY <1>1, <2>1, <2>2 DEF Handle
<1>2. CASE StartBuild
  <2>1. PICK cleared \in BOOLEAN : log_start_build(cleared)
    BY <1>2 DEF StartBuild
  <2> QED
    BY <2>1, StartsTree
<1>3. CASE OpenLog
  <2>1. log_start_build(FALSE)
    BY <1>3 DEF OpenLog
  <2> QED
    BY <2>1, StartsTree
<1>4. CASE EndBuild
  BY <1>4, EndsTree
<1>5. CASE Clear
  <2>1. log' = <<>>
    BY <1>5 DEF Clear
  <2>2. DOMAIN <<>> = {}
    OBVIOUS
  <2> QED
    BY <2>1, <2>2 DEF TreeInv
<1>6. ASSUME NEW flags \in FlagSets, SetFlags(flags)
      PROVE  TreeInv'
  BY <1>6, ShowsTreeAnew
<1>7. CASE WorkEnds \/ CloseLog \/ UNCHANGED vars
  <2>1. /\ log' = log /\ log_node_stack' = log_node_stack /\ rows' = rows
        /\ log_flags' = log_flags
    BY <1>7 DEF WorkEnds, CloseLog, vars, treeVars
  <2> QED
    BY <2>1 DEF TreeInv
<1> QED
  BY <1>1, <1>2, <1>3, <1>4, <1>5, <1>6, <1>7 DEF Next

LEMMA TreeInitially == Init => TreeInv
<1>1. DOMAIN <<>> = {}
  OBVIOUS
<1> QED
  BY <1>1 DEF Init, TreeInv

\* The tree is that of the builds and directories in the log, however the
\* lines came in, and however often it was built anew.  (log_show_rec,
\* log_current_unique_node, log_repopulate)
THEOREM TreeIsOfDirectories ==
    Calm => (Spec => []TreeOfDirectories)
<1> SUFFICES ASSUME Calm
             PROVE  Spec => []TreeOfDirectories
  OBVIOUS
<1>1. Spec => []LogInv
  BY LogIsSound
<1>2. LogInv /\ TreeInv /\ [Next]_vars => TreeInv'
  BY TreeStep
<1>3. LogInv /\ TreeInv => TreeOfDirectories
  BY TreeIsRight DEF LogInv, DirsInv
<1> QED
  BY <1>1, <1>2, <1>3, TreeInitially, PTL DEF Spec
-------------------------------------------------------------------------------
(***************************************************************************)
(* The stacks of directories.                                              *)
(***************************************************************************)
Occurs(q, f) == {i \in DOMAIN q : q[i] = f}

\* r is q without what is at place i.
Without(q, i, r) ==
    /\ Len(r) = Len(q) - 1
    /\ \A j \in 1..i - 1 : r[j] = q[j]
    /\ \A j \in i..Len(q) - 1 : r[j] = q[j + 1]

LEMMA OneLess ==
    ASSUME NEW S, NEW q \in Seq(S), NEW r \in Seq(S), NEW i \in 1..Len(q),
           Without(q, i, r), NEW f
    PROVE  /\ Cardinality(Occurs(r, f)) \in Nat
           /\ Cardinality(Occurs(q, f))
                = Cardinality(Occurs(r, f)) + (IF q[i] = f THEN 1 ELSE 0)
<1> DEFINE n == Len(q)
           A == Occurs(q, f) \ {i}
           B == Occurs(r, f)
           g == [j \in A |-> IF j < i THEN j ELSE j - 1]
<1>1. /\ n \in Nat /\ DOMAIN q = 1..n /\ DOMAIN r = 1..n-1
      /\ i \in 1..n
      /\ \A j \in 1..i - 1 : r[j] = q[j]
      /\ \A j \in i..n - 1 : r[j] = q[j + 1]
  BY DEF Without
<1> HIDE DEF n
<1>2. /\ A = {j \in 1..n : q[j] = f /\ j # i}
      /\ B = {j \in 1..n-1 : r[j] = f}
  BY <1>1 DEF Occurs
<1>3. IsFiniteSet(A) /\ IsFiniteSet(B)
  <2>1. A \subseteq 1..n /\ B \subseteq 1..n-1
    BY <1>2
  <2>2. IsFiniteSet(1..n) /\ IsFiniteSet(1..n-1)
    BY <1>1, FS_Interval
  <2> QED
    BY <2>1, <2>2, FS_Subset
<1> HIDE DEF A, B
<1>4. g \in [A -> B]
  <2>1. ASSUME NEW j \in A
        PROVE  (IF j < i THEN j ELSE j - 1) \in B
    <3>1. j \in 1..n /\ q[j] = f /\ j # i
      BY <1>2
    <3>2. CASE j < i
      <4>1. j \in 1..i - 1 /\ j \in 1..n-1
        BY <1>1, <3>1, <3>2
      <4> QED
        BY <1>1, <1>2, <3>1, <3>2, <4>1
    <3>3. CASE ~ (j < i)
      <4>1. j - 1 \in i..n - 1 /\ j - 1 \in 1..n-1 /\ (j - 1) + 1 = j
        BY <1>1, <3>1, <3>3
      <4>2. r[j - 1] = q[j]
        BY <1>1, <4>1
      <4> QED
        BY <1>2, <3>1, <3>3, <4>1, <4>2
    <3> QED
      BY <3>2, <3>3
  <2> QED
    BY <2>1
<1>5. ASSUME NEW j \in A, NEW k \in A, g[j] = g[k]
      PROVE  j = k
  <2>1. j \in Int /\ k \in Int /\ i \in Int /\ j # i /\ k # i
    BY <1>1, <1>2
  <2>2. (IF j < i THEN j ELSE j - 1) = (IF k < i THEN k ELSE k - 1)
    BY <1>5
  <2> QED
    BY <2>1, <2>2
<1>6. ASSUME NEW k \in B
      PROVE  \E j \in A : g[j] = k
  <2>1. k \in 1..n-1 /\ r[k] = f
    BY <1>2
  <2>2. CASE k < i
    <3>1. k \in 1..i - 1 /\ k \in 1..n /\ k # i
      BY <1>1, <2>1, <2>2
    <3>2. k \in A
      BY <1>1, <1>2, <2>1, <3>1
    <3> QED
      BY <2>2, <3>2
  <2>3. CASE ~ (k < i)
    <3>1. k \in i..n - 1 /\ k + 1 \in 1..n /\ k + 1 # i /\ ~ (k + 1 < i)
          /\ (k + 1) - 1 = k
      BY <1>1, <2>1, <2>3
    <3>2. k + 1 \in A
      BY <1>1, <1>2, <2>1, <3>1
    <3> QED
      BY <3>1, <3>2
  <2> QED
    BY <2>2, <2>3
<1> HIDE DEF g
<1>7. Cardinality(A) = Cardinality(B)
  <2>1. g \in Bijection(A, B)
    BY <1>4, <1>5, <1>6, Fun_IsBij
  <2> QED
    BY <1>3, <2>1, FS_Bijection DEF ExistsBijection
<1>8. CASE q[i] = f
  <2>1. Occurs(q, f) = A \cup {i} /\ i \notin A
    BY <1>1, <1>8 DEF Occurs, A
  <2>2. Cardinality(A \cup {i}) = Cardinality(A) + 1 /\ Cardinality(A) \in Nat
    BY <1>3, <2>1, CountOne
  <2> QED
    BY <1>7, <1>8, <2>1, <2>2 DEF B
<1>9. CASE q[i] # f
  <2>1. Occurs(q, f) = A
    BY <1>9 DEF Occurs, A
  <2>2. Cardinality(A) \in Nat
    BY <1>3, FS_CardinalityType
  <2> QED
    BY <1>7, <1>9, <2>1, <2>2 DEF B
<1> QED
  BY <1>8, <1>9

Pushed(q, f) == <<f>> \o q

LEMMA PushOccurs ==
    ASSUME NEW S, NEW q \in Seq(S), NEW f \in S, NEW x
    PROVE  Cardinality(Occurs(Pushed(q, f), x))
             = Cardinality(Occurs(q, x)) + (IF f = x THEN 1 ELSE 0)
<1> DEFINE p == <<f>> \o q
           n == Len(q)
<1>1. <<f>> \in Seq(S) /\ Len(<<f>>) = 1 /\ n \in Nat
  OBVIOUS
<1>2. /\ p \in Seq(S) /\ Len(p) = n + 1 /\ p[1] = f
      /\ \A j \in 2..n + 1 : p[j] = q[j - 1]
  BY <1>1, ConcatProperties
<1> HIDE DEF p, n
<1>3. Without(p, 1, q)
  <2>1. Len(q) = Len(p) - 1
    BY <1>1, <1>2 DEF n
  <2>2. \A j \in 1..1 - 1 : q[j] = p[j]
    OBVIOUS
  <2>3. \A j \in 1..(n + 1) - 1 : q[j] = p[j + 1]
    <3>1. \A j \in 1..(n + 1) - 1 : j + 1 \in 2..n + 1 /\ (j + 1) - 1 = j
      BY <1>1
    <3> QED
      BY <1>2, <3>1
  <2> QED
    BY <1>2, <2>1, <2>2, <2>3 DEF Without
<1>4. 1 \in 1..Len(p)
  BY <1>1, <1>2
<1>5. Cardinality(Occurs(p, x))
        = Cardinality(Occurs(q, x)) + (IF p[1] = x THEN 1 ELSE 0)
  BY <1>2, <1>3, <1>4, OneLess
<1> QED
  BY <1>2, <1>5, Zenon DEF p, Pushed

LEMMA RemoveOccurs ==
    ASSUME NEW S, NEW q \in Seq(S), NEW i \in 1..Len(q), NEW x
    PROVE  /\ Cardinality(Occurs(RemoveAt(q, i), x)) \in Nat
           /\ Cardinality(Occurs(q, x))
                = Cardinality(Occurs(RemoveAt(q, i), x))
                    + (IF q[i] = x THEN 1 ELSE 0)
<1> DEFINE n == Len(q)
           a == SubSeq(q, 1, i - 1)
           b == SubSeq(q, i + 1, n)
           r == RemoveAt(q, i)
<1>1. n \in Nat /\ i \in 1..n
  OBVIOUS
<1>2. /\ a \in Seq(S) /\ Len(a) = i - 1 /\ \A j \in 1..i - 1 : a[j] = q[j]
      /\ b \in Seq(S) /\ Len(b) = n - i
      /\ \A j \in 1..n - i : b[j] = q[i + j]
  <2>1. /\ a \in Seq(S) /\ Len(a) = i - 1 /\ \A j \in 1..i - 1 : a[j] = q[j]
    <3>1. i - 1 \in 0..Len(q) /\ i - 1 \in Nat
      OBVIOUS
    <3>2. Len(a) = i - 1
      BY <3>1, PrefixLength
    <3>3. a \in Seq(S)
      OBVIOUS
    <3>4. \A j \in 1..i - 1 : SubSeq(q, 1, i - 1)[j] = q[j]
      OBVIOUS
    <3> QED
      BY <3>2, <3>3, <3>4
  <2>2. i \in DOMAIN q
    OBVIOUS
  <2>3. /\ b \in Seq(S) /\ Len(b) = n - i
        /\ \A j \in 1..n - i : b[j] = q[i + j]
    BY <2>2, SuffixProperties
  <2> QED
    BY <2>1, <2>3
<1>3. r = a \o b
  BY DEF RemoveAt
<1>4. r \in Seq(S)
  BY RemovedIsSeq
<1> HIDE DEF a, b, r, n
<1>5. /\ Len(a \o b) = Len(a) + Len(b)
      /\ \A j \in 1..Len(a) : (a \o b)[j] = a[j]
      /\ \A j \in Len(a) + 1..Len(a) + Len(b) : (a \o b)[j] = b[j - Len(a)]
  <2>1. a \in Seq(S) /\ b \in Seq(S)
    BY <1>2
  <2> QED
    BY <2>1, ConcatProperties
<1>6. Without(q, i, r)
  <2>1. Len(r) = n - 1
    BY <1>1, <1>2, <1>3, <1>5
  <2>2. \A j \in 1..i - 1 : r[j] = q[j]
    BY <1>2, <1>3, <1>5
  <2>3. ASSUME NEW j \in i..n - 1
        PROVE  r[j] = q[j + 1]
    <3>1. /\ j \in Len(a) + 1..Len(a) + Len(b) /\ j - Len(a) = (j - i) + 1
          /\ (j - i) + 1 \in 1..n - i /\ i + ((j - i) + 1) = j + 1
      BY <1>1, <1>2
    <3> QED
      BY <1>2, <1>3, <1>5, <3>1
  <2> QED
    BY <2>1, <2>2, <2>3 DEF Without, n
<1> QED
  BY <1>4, <1>6, OneLess DEF r

LEMMA OnOccurs ==
    ASSUME NEW S, NEW q \in Seq(S), NEW f
    PROVE  /\ Cardinality(Occurs(q, f)) \in Nat
           /\ On(q, f) <=> Cardinality(Occurs(q, f)) > 0
<1>1. IsFiniteSet(Occurs(q, f))
  <2>1. Occurs(q, f) \subseteq 1..Len(q) /\ Len(q) \in Nat
    BY DEF Occurs
  <2>2. IsFiniteSet(1..Len(q))
    BY <2>1, FS_Interval
  <2> QED
    BY <2>1, <2>2, FS_Subset
<1>2. Cardinality(Occurs(q, f)) \in Nat
  BY <1>1, FS_CardinalityType
<1>3. Cardinality(Occurs(q, f)) = 0 <=> Occurs(q, f) = {}
  BY <1>1, FS_EmptySet
<1>4. On(q, f) <=> Occurs(q, f) # {}
  BY DEF On, Occurs
<1> QED
  BY <1>2, <1>3, <1>4

LEMMA SomeOn ==
    ASSUME NEW S, NEW q \in Seq(S)
    PROVE  /\ q # <<>> <=> \E f \in S : On(q, f)
           /\ \A f : On(q, f) => f \in S
<1>1. ASSUME q # <<>>
      PROVE  \E f \in S : On(q, f)
  BY <1>1, HeadOn
<1>2. q = <<>> => ~ \E f : On(q, f)
  BY DEF On
<1>3. \A f : On(q, f) => f \in S
  BY DEF On
<1> QED
  BY <1>1, <1>2, <1>3

\* The levels in use are those at which make is in some directory.
LevelsInv == \A d \in Levels : dir_stack[d] # <<>> <=> d <= dir_max_depth

\* As often as f is stacked at level d, make is in it.
StacksInv ==
    log # <<>> => \A f \in Dirs, d \in Levels :
        Cardinality(Occurs(dir_stack[d], f))
            + Cardinality(CodedAt(log, Len(log), "POPDIR", f, d))
          = Cardinality(CodedAt(log, Len(log), "PUSHDIR", f, d))

\* The cached context is out of date or is what it would be.
ContextInv == context # NoContext /\ ~ context_dirty => context = CurrentDirs

\* A make, of whatever level, was in f after record k.
WasIn(recs, k, f) ==
    /\ f \in Dirs
    /\ \E d \in Levels : Cardinality(Said(recs, k, "leave", f, d))
                           < Cardinality(Said(recs, k, "enter", f, d))
LooksRight(recs, k) ==
    recs[k].context # NoContext =>
        \A f : On(recs[k].context, f) <=> WasIn(recs, k, f)
RecordsInv == \A i \in DOMAIN log : LooksRight(log, i)

LookInv == LevelsInv /\ StacksInv /\ ContextInv /\ RecordsInv

LEMMA StackIsSeq ==
    ASSUME DirsOK, NEW d \in Levels
    PROVE  dir_stack[d] \in Seq(Dirs)
  BY DEF DirsOK, Levels

LEMMA StacksTyped ==
    ASSUME TypeOK
    PROVE  DirsOK
  BY DEF TypeOK, DirsOK

\* The stacks are where the text says that make is.
LEMMA StackedIsSaid ==
    ASSUME TypeOK, Understood(log), StacksInv, log # <<>>,
           NEW f \in Dirs, NEW d \in Levels
    PROVE  /\ Cardinality(Occurs(dir_stack[d], f))
                = Cardinality(Said(log, Len(log), "enter", f, d))
                    - Cardinality(Said(log, Len(log), "leave", f, d))
           /\ On(dir_stack[d], f) <=>
                 Cardinality(Said(log, Len(log), "leave", f, d))
                   < Cardinality(Said(log, Len(log), "enter", f, d))
<1> DEFINE o == Cardinality(Occurs(dir_stack[d], f))
           e == Cardinality(Said(log, Len(log), "enter", f, d))
           l == Cardinality(Said(log, Len(log), "leave", f, d))
<1>1. dir_stack[d] \in Seq(Dirs)
  BY StacksTyped, StackIsSeq
<1>2. o \in Nat /\ (On(dir_stack[d], f) <=> o > 0)
  BY <1>1, OnOccurs
<1>3. /\ e = Cardinality(CodedAt(log, Len(log), "PUSHDIR", f, d))
      /\ l = Cardinality(CodedAt(log, Len(log), "POPDIR", f, d))
  BY DEF Understood
<1>4. o + l = e
  BY <1>3 DEF StacksInv
<1>5. l \in Nat /\ e \in Nat
  <2>1. Len(log) \in Nat \ {0}
    BY EmptySeq DEF TypeOK
  <2> QED
    BY <2>1, CountsNat
<1> HIDE DEF o, e, l
<1>6. o = e - l /\ (o > 0 <=> l < e)
  BY <1>2, <1>4, <1>5
<1> QED
  BY <1>2, <1>6 DEF o, e, l

LEMMA MakesAtIs ==
    ASSUME TypeOK, FilterInv, LogShape(log), Understood(log), StacksInv,
           log # <<>>, NEW d \in Levels
    PROVE  /\ \A f \in Dirs : f \in MakesAt(d) <=> On(dir_stack[d], f)
           /\ MakesAt(d) \subseteq Dirs
           /\ MakesAt(d) = {} <=> dir_stack[d] = <<>>
<1>1. dir_stack[d] \in Seq(Dirs)
  BY StacksTyped, StackIsSeq
<1>2. ASSUME NEW f \in Dirs
      PROVE  f \in MakesAt(d) <=> On(dir_stack[d], f)
  <2> DEFINE o == Cardinality(Occurs(dir_stack[d], f))
             e == Cardinality(Said(log, Len(log), "enter", f, d))
             l == Cardinality(Said(log, Len(log), "leave", f, d))
             in == Inside(SinceStart(Text(log) \o pending), d, f)
  <2>1. in = e - l
    BY InsideIs DEF TypeOK, FilterInv
  <2>2. o = e - l
    BY StackedIsSaid
  <2>3. On(dir_stack[d], f) <=> o > 0
    BY <1>1, OnOccurs
  <2>4. f \in MakesAt(d) <=> in > 0
    BY DEF MakesAt
  <2> HIDE DEF o, e, l, in
  <2> QED
    BY <2>1, <2>2, <2>3, <2>4
<1>3. MakesAt(d) \subseteq Dirs
  BY DEF MakesAt
<1> QED
  BY <1>1, <1>2, <1>3, SomeOn

\* Entering.
LEMMA PushLook ==
    ASSUME DirsOK, LevelsInv, NEW d \in Levels, NEW f \in Dirs,
           d = 1 \/ dir_stack[d - 1] # <<>>, log_push_dir(d, f)
    PROVE  /\ context_dirty' = TRUE /\ LevelsInv'
           /\ \A e \in Levels, g \in Dirs :
                 Cardinality(Occurs(dir_stack'[e], g))
                   = Cardinality(Occurs(dir_stack[e], g))
                       + (IF f = g /\ d = e THEN 1 ELSE 0)
<1>1. dir_max_depth \in 0..MaxDepth /\ MaxDepth \in Nat \ {0}
      /\ d \in 1..MaxDepth /\ dir_stack \in [1..MaxDepth -> Seq(Dirs)]
  BY LogAssumption DEF DirsOK, Levels
<1>2. d <= dir_max_depth + 1
  <2>1. CASE d = 1
    BY <1>1, <2>1
  <2>2. CASE d # 1
    <3>1. d - 1 \in Levels
      BY <1>1, <2>2 DEF Levels
    <3>2. d - 1 <= dir_max_depth
      BY <2>2, <3>1 DEF LevelsInv
    <3> QED
      BY <1>1, <3>2
  <2> QED
    BY <2>1, <2>2
<1>3. /\ dir_max_depth' = IF d > dir_max_depth THEN d ELSE dir_max_depth
      /\ dir_stack' = [dir_stack EXCEPT ![d] = <<f>> \o @]
      /\ context_dirty' = TRUE
  BY <1>1, <1>2 DEF log_push_dir
<1> DEFINE pushed == <<f>> \o dir_stack[d]
<1>4. pushed # <<>> /\ dir_stack[d] \in Seq(Dirs)
  <2>1. dir_stack[d] \in Seq(Dirs) /\ <<f>> \in Seq(Dirs) /\ <<f>> # <<>>
    BY StackIsSeq
  <2> QED
    BY <2>1, HeadConcat
<1>5. ASSUME NEW e \in Levels
      PROVE  dir_stack'[e] = IF e = d THEN pushed ELSE dir_stack[e]
  BY <1>1, <1>3 DEF Levels
<1> HIDE DEF pushed
<1>6. ASSUME NEW e \in Levels
      PROVE  dir_stack'[e] # <<>> <=> e <= dir_max_depth'
  <2>1. dir_stack[e] # <<>> <=> e <= dir_max_depth
    BY DEF LevelsInv
  <2>2. e \in 1..MaxDepth
    BY DEF Levels
  <2> QED
    BY <1>1, <1>2, <1>3, <1>4, <1>5, <2>1, <2>2
<1>7. ASSUME NEW e \in Levels, NEW g \in Dirs
      PROVE  Cardinality(Occurs(dir_stack'[e], g))
               = Cardinality(Occurs(dir_stack[e], g))
                   + (IF f = g /\ d = e THEN 1 ELSE 0)
  <2>1. CASE e = d
    <3>1. dir_stack[d] \in Seq(Dirs)
      BY <1>4
    <3>2. Cardinality(Occurs(Pushed(dir_stack[d], f), g))
            = Cardinality(Occurs(dir_stack[d], g)) + (IF f = g THEN 1 ELSE 0)
      BY <3>1, PushOccurs
    <3>3. Cardinality(Occurs(pushed, g))
            = Cardinality(Occurs(dir_stack[d], g)) + (IF f = g THEN 1 ELSE 0)
      BY <3>2, Zenon DEF pushed, Pushed
    <3> QED
      BY <1>5, <2>1, <3>3
  <2>2. CASE e # d
    <3>1. dir_stack'[e] = dir_stack[e]
      BY <1>5, <2>2
    <3>2. Cardinality(Occurs(dir_stack[e], g)) \in Nat
      BY StackIsSeq, OnOccurs
    <3> QED
      BY <2>2, <3>1, <3>2
  <2> QED
    BY <2>1, <2>2
<1> QED
  BY <1>3, <1>6, <1>7 DEF LevelsInv

\* Leaving.  The last of a level is left when no make is in a deeper one.
LEMMA PopLook ==
    ASSUME DirsOK, LevelsInv, NEW d \in Levels, NEW f \in Dirs,
           On(dir_stack[d], f), log_pop_dir(d, f),
           \/ d = MaxDepth
           \/ dir_stack[d + 1] = <<>>
           \/ \E g \in Dirs : g # f /\ On(dir_stack[d], g)
    PROVE  /\ context_dirty' = TRUE /\ LevelsInv'
           /\ \A e \in Levels, g \in Dirs :
                 Cardinality(Occurs(dir_stack[e], g))
                   = Cardinality(Occurs(dir_stack'[e], g))
                       + (IF f = g /\ d = e THEN 1 ELSE 0)
<1> DEFINE q == dir_stack[d]
           i == PlaceOf(q, f)
           rest == RemoveAt(q, i)
<1>1. /\ dir_max_depth \in 0..MaxDepth /\ MaxDepth \in Nat \ {0}
      /\ d \in 1..MaxDepth /\ dir_stack \in [1..MaxDepth -> Seq(Dirs)]
  BY LogAssumption DEF DirsOK, Levels
<1>2. q \in Seq(Dirs) /\ q # <<>> /\ Contains(q, f)
  <2>1. q \in Seq(Dirs)
    BY StackIsSeq
  <2> QED
    BY <2>1, SomeOn, ContainsIsOn
<1>3. d <= dir_max_depth
  BY <1>2 DEF LevelsInv
<1>4. /\ dir_max_depth' = dir_max_depth -
            (IF d = dir_max_depth /\ rest = <<>> THEN 1 ELSE 0)
      /\ dir_stack' = [dir_stack EXCEPT ![d] = rest]
      /\ context_dirty' = TRUE
  <2>1. ~ (d > dir_max_depth)
    BY <1>1, <1>3
  <2> QED
    BY <1>2, <2>1 DEF log_pop_dir, PlaceOf
<1>5. i \in 1..Len(q) /\ q[i] = f
  BY <1>2, FirstPlace
<1>6. rest \in Seq(Dirs)
  BY <1>2, <1>5, RemovedIsSeq
<1>7. ASSUME NEW g
      PROVE  Cardinality(Occurs(q, g))
               = Cardinality(Occurs(rest, g)) + (IF f = g THEN 1 ELSE 0)
  BY <1>2, <1>5, RemoveOccurs
<1>8. ASSUME NEW e \in Levels
      PROVE  dir_stack'[e] = IF e = d THEN rest ELSE dir_stack[e]
  BY <1>1, <1>4 DEF Levels
<1>9. ASSUME NEW e \in Levels, NEW g \in Dirs
      PROVE  Cardinality(Occurs(dir_stack[e], g))
               = Cardinality(Occurs(dir_stack'[e], g))
                   + (IF f = g /\ d = e THEN 1 ELSE 0)
  <2> HIDE DEF rest
  <2>1. CASE e = d
    BY <1>7, <1>8, <2>1
  <2>2. CASE e # d
    <3>1. dir_stack'[e] = dir_stack[e]
      BY <1>8, <2>2
    <3>2. Cardinality(Occurs(dir_stack[e], g)) \in Nat
      BY StackIsSeq, OnOccurs
    <3> QED
      BY <2>2, <3>1, <3>2
  <2> QED
    BY <2>1, <2>2
<1>10. ASSUME rest = <<>>
       PROVE  d = dir_max_depth
  <2>1. ASSUME NEW g \in Dirs, g # f, On(q, g)
        PROVE  FALSE
    <3>1. Cardinality(Occurs(q, g)) > 0 /\ Cardinality(Occurs(q, g)) \in Nat
      BY <1>2, <2>1, OnOccurs
    <3>2. Cardinality(Occurs(rest, g)) \in Nat
      BY <1>6, OnOccurs
    <3>3. Cardinality(Occurs(q, g)) = Cardinality(Occurs(rest, g)) + 0
      BY <1>7, <2>1
    <3>4. On(rest, g)
      BY <1>6, <3>1, <3>2, <3>3, OnOccurs
    <3> HIDE DEF rest
    <3> QED
      BY <1>10, <1>6, <3>4, SomeOn
  <2>2. d = MaxDepth \/ dir_stack[d + 1] = <<>>
    BY <2>1
  <2>3. CASE d = MaxDepth
    BY <1>1, <1>3, <2>3
  <2>4. CASE d # MaxDepth
    <3>1. d + 1 \in Levels /\ dir_stack[d + 1] = <<>>
      BY <1>1, <2>2, <2>4 DEF Levels
    <3>2. ~ (d + 1 <= dir_max_depth)
      BY <3>1 DEF LevelsInv
    <3> QED
      BY <1>1, <1>3, <3>2
  <2> QED
    BY <2>3, <2>4
<1> HIDE DEF rest, q
<1>11. ASSUME NEW e \in Levels
       PROVE  dir_stack'[e] # <<>> <=> e <= dir_max_depth'
  <2>1. dir_stack[e] # <<>> <=> e <= dir_max_depth
    BY DEF LevelsInv
  <2>2. e \in 1..MaxDepth
    BY DEF Levels
  <2>3. dir_max_depth' = IF rest = <<>> THEN dir_max_depth - 1 ELSE dir_max_depth
    <3>1. CASE rest = <<>>
      BY <1>4, <1>10, <3>1
    <3>2. CASE rest # <<>>
      BY <1>1, <1>4, <3>2
    <3> QED
      BY <3>1, <3>2
  <2>4. CASE e = d
    BY <1>1, <1>3, <1>8, <1>10, <2>2, <2>3, <2>4
  <2>5. CASE e # d
    BY <1>1, <1>8, <1>10, <2>1, <2>2, <2>3, <2>5
  <2> QED
    BY <2>4, <2>5
<1> QED
  BY <1>4, <1>9, <1>11 DEF LevelsInv

\* A build starts in no directory, wherever the last one was.
LEMMA ClearLook ==
    ASSUME DirsOK, LevelsInv, log_clear_dirs
    PROVE  /\ context_dirty' = TRUE /\ LevelsInv'
           /\ \A e \in Levels : dir_stack'[e] = <<>>
<1>1. ASSUME NEW e \in Levels
      PROVE  dir_stack'[e] = <<>>
  <2>1. dir_stack'[e] = IF e <= dir_max_depth THEN <<>> ELSE dir_stack[e]
    BY DEF log_clear_dirs, Levels
  <2> QED
    BY <2>1 DEF LevelsInv
<1>2. \A e \in Levels : ~ (e <= 0)
  BY LogAssumption DEF Levels
<1> QED
  BY <1>1, <1>2 DEF log_clear_dirs, LevelsInv

-------------------------------------------------------------------------------
(***************************************************************************)
(* The directories that are looked up, at every step.                      *)
(***************************************************************************)
\* What the stacks give is where the text says that make is.
LEMMA LookUp ==
    ASSUME TypeOK, Understood(log), LookInv, log # <<>>, NEW f
    PROVE  On(log_get_context, f) <=> WasIn(log, Len(log), f)
<1>1. log_get_context = CurrentDirs
  BY DEF LookInv, ContextInv, log_get_context
<1>2. On(CurrentDirs, f) <=> \E d \in 1..dir_max_depth : On(dir_stack[d], f)
  BY CurrentDirsIs
<1>3. ASSUME NEW d \in 1..dir_max_depth, On(dir_stack[d], f)
      PROVE  WasIn(log, Len(log), f)
  <2>1. d \in Levels
    BY LogAssumption DEF TypeOK, Levels
  <2>2. f \in Dirs
    BY <1>3, <2>1, StacksTyped, StackIsSeq, SomeOn
  <2>3. Cardinality(Said(log, Len(log), "leave", f, d))
          < Cardinality(Said(log, Len(log), "enter", f, d))
    BY <1>3, <2>1, <2>2, StackedIsSaid DEF LookInv
  <2> QED
    BY <2>1, <2>2, <2>3 DEF WasIn
<1>4. ASSUME WasIn(log, Len(log), f)
      PROVE  \E d \in 1..dir_max_depth : On(dir_stack[d], f)
  <2>1. PICK d \in Levels : Cardinality(Said(log, Len(log), "leave", f, d))
                              < Cardinality(Said(log, Len(log), "enter", f, d))
    BY <1>4 DEF WasIn
  <2>2. f \in Dirs
    BY <1>4 DEF WasIn
  <2>3. On(dir_stack[d], f)
    BY <2>1, <2>2, StackedIsSaid DEF LookInv
  <2>4. dir_stack[d] # <<>>
    BY <2>3, StacksTyped, StackIsSeq, SomeOn
  <2>5. d <= dir_max_depth
    BY <2>4 DEF LookInv, LevelsInv
  <2>6. d \in 1..dir_max_depth
    BY <2>5, LogAssumption DEF TypeOK, Levels
  <2> QED
    BY <2>3, <2>6
<1> QED
  BY <1>1, <1>2, <1>3, <1>4

\* Records look right as long as nothing is said of directories.
LEMMA LooksAlike ==
    ASSUME NEW recs, NEW more, NEW k \in Nat, SameUpTo(recs, more, k), k # 0,
           LooksRight(recs, k)
    PROVE  LooksRight(more, k)
<1>1. more[k] = recs[k]
  BY DEF SameUpTo
<1>2. Retells(recs, more, k)
  BY Alike
<1>3. \A kind, f, d : Said(more, k, kind, f, d) = Said(recs, k, kind, f, d)
  BY <1>2, Zenon DEF Retells
<1>4. \A f : WasIn(more, k, f) <=> WasIn(recs, k, f)
  BY <1>3, Zenon DEF WasIn
<1> QED
  BY <1>1, <1>4, Zenon DEF LooksRight

\* Nothing is said of directories from place n + 1 to k.
Quiet(recs, n, k) ==
    \A j \in n+1..k : /\ recs[j].code # "BUILDSTART"
                      /\ recs[j].line.kind \notin {"enter", "leave"}

SaysNoMore(recs, n, k) ==
    \A kind \in {"enter", "leave"} : \A f, d :
        Said(recs, k, kind, f, d) = Said(recs, n, kind, f, d)

LEMMA QuietSays ==
    ASSUME NEW recs, NEW n \in Nat, NEW k \in Nat, n <= k,
           Quiet(recs, n, k)
    PROVE  SaysNoMore(recs, n, k)
<1> SUFFICES ASSUME NEW kind \in {"enter", "leave"}, NEW f, NEW d
             PROVE  Said(recs, k, kind, f, d) = Said(recs, n, kind, f, d)
  BY Zenon DEF SaysNoMore
<1>1. \A j \in n+1..k : recs[j].code # "BUILDSTART"
  BY Zenon DEF Quiet
<1>2. Since(recs, k) = Since(recs, n) \cup (n+1..k)
  BY <1>1, BlockSince
<1>3. Line(kind, f, d).kind = kind
  BY DEF Line
<1>4. \A j \in n+1..k : recs[j].line # Line(kind, f, d)
  BY <1>3 DEF Quiet
<1> QED
  BY <1>2, <1>4 DEF Said

LEMMA StaysIn ==
    ASSUME NEW recs \in Seq(Recs), recs # <<>>, NEW D, NEW more,
           Adds(recs, D, more),
           more[Len(more)].line.kind \notin {"enter", "leave"},
           NEW k \in Len(recs) + 1..Len(more), NEW f
    PROVE  WasIn(more, k, f) <=> WasIn(recs, Len(recs), f)
<1> DEFINE n == Len(recs)
           l == Len(more)
<1>1. /\ n \in Nat \ {0} /\ l \in Nat /\ n < l /\ k \in n+1..l
      /\ \A j \in 1..n : more[j] = recs[j]
      /\ \A j \in n+1..l : more[j].code # "BUILDSTART"
      /\ \A j \in n+1..l : more[j].line.kind \notin {"enter", "leave"}
  BY DEF Adds
<1> HIDE DEF n, l
<1>2. n \in Nat /\ k \in Nat /\ n <= k
  BY <1>1
<1>3. Quiet(more, n, k)
  <2>1. \A j \in n+1..k : j \in n+1..l
    BY <1>1
  <2> QED
    BY <1>1, <2>1 DEF Quiet
<1>4. Retells(recs, more, n)
  <2>1. SameUpTo(recs, more, n)
    BY <1>1 DEF SameUpTo
  <2> QED
    BY <1>2, <2>1, Alike
<1>5. ASSUME NEW kind \in {"enter", "leave"}, NEW d
      PROVE  Said(more, k, kind, f, d) = Said(recs, n, kind, f, d)
  <2>1. SaysNoMore(more, n, k)
    BY <1>2, <1>3, QuietSays
  <2>2. Said(more, k, kind, f, d) = Said(more, n, kind, f, d)
    BY <2>1, Zenon DEF SaysNoMore
  <2>3. Said(more, n, kind, f, d) = Said(recs, n, kind, f, d)
    BY <1>4, Zenon DEF Retells
  <2> QED
    BY <2>2, <2>3
<1>6. \A d : /\ Said(more, k, "enter", f, d) = Said(recs, n, "enter", f, d)
             /\ Said(more, k, "leave", f, d) = Said(recs, n, "leave", f, d)
  BY <1>5
<1> QED
  BY <1>6, Zenon DEF WasIn, n

LEMMA OutcomeIs ==
    ASSUME NEW a \in Results
    PROVE  LET r == Outcome(a) IN
           /\ r.code = "PUSHDIR" <=> a.code = "PUSHDIR"
           /\ r.code = "POPDIR" <=> a.code = "POPDIR"
           /\ r.file = a.file /\ r.depth = a.depth
<1>1. CASE a.code = "UNDEFINED"
  BY <1>1 DEF Outcome, Results
<1>2. CASE a.code = "PUSHDIR"
  BY <1>2 DEF Outcome, Results
<1>3. CASE a.code \notin {"UNDEFINED", "PUSHDIR"}
  BY <1>3 DEF Outcome
<1> QED
  BY <1>1, <1>2, <1>3

\* The brackets in the log when a line has been added.
Bracketed(line) ==
    LET more == Extended(line) IN
    \A f \in Dirs, d \in Levels :
        /\ Cardinality(CodedAt(log, Len(log), "PUSHDIR", f, d)) \in Nat
        /\ Cardinality(CodedAt(log, Len(log), "POPDIR", f, d)) \in Nat
        /\ Cardinality(CodedAt(more, Len(more), "PUSHDIR", f, d))
             = Cardinality(CodedAt(log, Len(log), "PUSHDIR", f, d))
                 + (IF line.kind = "enter" /\ line.file = f /\ line.depth = d
                    THEN 1 ELSE 0)
        /\ Cardinality(CodedAt(more, Len(more), "POPDIR", f, d))
             = Cardinality(CodedAt(log, Len(log), "POPDIR", f, d))
                 + (IF line.kind = "leave" /\ line.file = f /\ line.depth = d
                    THEN 1 ELSE 0)

LEMMA AddBrackets ==
    ASSUME LogInv, Calm, NEW line \in Lines, Handle(line)
    PROVE  /\ Bracketed(line)
           /\ LET a == Applied(line).result IN
              /\ a.code = "PUSHDIR" <=> line.kind = "enter"
              /\ a.code = "POPDIR" <=> line.kind = "leave"
              /\ a.code \in {"PUSHDIR", "POPDIR"} =>
                    a.file = line.file /\ a.depth = line.depth
<1> DEFINE D == Block(line)
           more == Extended(line)
           k == Len(more)
           a == Applied(line).result
           r == Outcome(a)
<1>1. /\ log # <<>> /\ log \in Seq(Recs)
      /\ Message(D) /\ Adds(log, D, more)
      /\ filter_state = NoState \/ line.kind \notin {"enter", "leave"}
  BY AddLog
<1>2. /\ D[1].code = r.code /\ D[1].file = r.file /\ D[1].depth = r.depth
      /\ r.code = "PUSHDIR" <=> line.kind = "enter"
      /\ r.code = "POPDIR" <=> line.kind = "leave"
      /\ r.code \in {"PUSHDIR", "POPDIR"} =>
            r.file = line.file /\ r.depth = line.depth
  BY <1>1, BlockIs DEF LogInv
<1>3. /\ r.code = "PUSHDIR" <=> a.code = "PUSHDIR"
      /\ r.code = "POPDIR" <=> a.code = "POPDIR"
      /\ r.file = a.file /\ r.depth = a.depth
  <2>1. a \in Results
    BY Applying DEF LogInv, Understands
  <2> HIDE DEF a
  <2> QED
    BY <2>1, OutcomeIs
<1> HIDE DEF D, more, a, r
<1>4. k \in Len(log) + 1..Len(more)
  BY <1>1 DEF Adds
<1>5. Counted(log, more, k, D)
  BY <1>1, <1>4, MessageCounts
<1>6. ASSUME NEW f \in Dirs, NEW d \in Levels
      PROVE  /\ D[1].code = "PUSHDIR" /\ D[1].file = f /\ D[1].depth = d
                  <=> line.kind = "enter" /\ line.file = f /\ line.depth = d
             /\ D[1].code = "POPDIR" /\ D[1].file = f /\ D[1].depth = d
                  <=> line.kind = "leave" /\ line.file = f /\ line.depth = d
  BY <1>2
<1>7. Bracketed(line)
  <2> SUFFICES ASSUME NEW f \in Dirs, NEW d \in Levels
               PROVE
        /\ Cardinality(CodedAt(log, Len(log), "PUSHDIR", f, d)) \in Nat
        /\ Cardinality(CodedAt(log, Len(log), "POPDIR", f, d)) \in Nat
        /\ Cardinality(CodedAt(more, k, "PUSHDIR", f, d))
             = Cardinality(CodedAt(log, Len(log), "PUSHDIR", f, d))
                 + (IF line.kind = "enter" /\ line.file = f /\ line.depth = d
                    THEN 1 ELSE 0)
        /\ Cardinality(CodedAt(more, k, "POPDIR", f, d))
             = Cardinality(CodedAt(log, Len(log), "POPDIR", f, d))
                 + (IF line.kind = "leave" /\ line.file = f /\ line.depth = d
                    THEN 1 ELSE 0)
    BY DEF Bracketed, more, k
  <2>1. \A c \in {"PUSHDIR", "POPDIR"} :
          /\ Cardinality(CodedAt(log, Len(log), c, f, d)) \in Nat
          /\ Cardinality(CodedAt(more, k, c, f, d)) =
                Cardinality(CodedAt(log, Len(log), c, f, d))
                  + (IF D[1].code = c /\ D[1].file = f /\ D[1].depth = d
                     THEN 1 ELSE 0)
    BY <1>5 DEF Counted
  <2> HIDE DEF k
  <2> QED
    BY <1>6, <2>1
<1> QED
  BY <1>2, <1>3, <1>7 DEF a

\* The stacks follow the brackets.
LEMMA StacksFollow ==
    ASSUME LogInv, LookInv, Calm, NEW line \in Lines, Handle(line),
           AddLine(line)
    PROVE  LevelsInv' /\ StacksInv' /\ ContextInv'
<1> DEFINE a == Applied(line).result
           f == line.file
           d == line.depth
           more == Extended(line)
           Push(g, e) == Cardinality(CodedAt(log, Len(log), "PUSHDIR", g, e))
           Pop(g, e) == Cardinality(CodedAt(log, Len(log), "POPDIR", g, e))
           Stands(g, e) == Cardinality(Occurs(dir_stack[e], g))
<1>1. /\ TypeOK /\ FilterInv /\ LogShape(log) /\ Understood(log) /\ DirsOK
      /\ StacksInv /\ LevelsInv /\ ContextInv
  BY StacksTyped DEF LogInv, DirsInv, LookInv
<1>2. log # <<>>
  BY AddLog
<1>3. /\ a.code = "PUSHDIR" <=> line.kind = "enter"
      /\ a.code = "POPDIR" <=> line.kind = "leave"
      /\ a.code \in {"PUSHDIR", "POPDIR"} => a.file = f /\ a.depth = d
      /\ Bracketed(line)
  BY AddBrackets
<1>4. /\ a.code = "PUSHDIR" => log_push_dir(a.depth, a.file)
      /\ a.code = "POPDIR" => log_pop_dir(a.depth, a.file)
      /\ a.code \notin {"PUSHDIR", "POPDIR"} =>
            /\ UNCHANGED <<dir_stack, dir_max_depth>>
            /\ context_dirty' = (context_dirty /\ ~ Relative(a))
      /\ context' = IF Relative(a) THEN log_get_context ELSE context
      /\ log' = more
  BY AddIs
<1>5. Orderly(line) /\ "stray leave" \notin Circumstances
  BY CalmNot DEF Handle
<1>6. line.kind \in {"enter", "leave"} => f \in Dirs /\ d \in Levels
  BY LineIs
<1>7. ASSUME NEW g \in Dirs, NEW e \in Levels
      PROVE  /\ Push(g, e) \in Nat /\ Pop(g, e) \in Nat /\ Stands(g, e) \in Nat
             /\ Stands(g, e) + Pop(g, e) = Push(g, e)
             /\ Cardinality(CodedAt(more, Len(more), "PUSHDIR", g, e))
                  = Push(g, e)
                      + (IF line.kind = "enter" /\ f = g /\ d = e THEN 1 ELSE 0)
             /\ Cardinality(CodedAt(more, Len(more), "POPDIR", g, e))
                  = Pop(g, e)
                      + (IF line.kind = "leave" /\ f = g /\ d = e THEN 1 ELSE 0)
  <2>1. Stands(g, e) \in Nat
    BY <1>1, StackIsSeq, OnOccurs
  <2>2. Stands(g, e) + Pop(g, e) = Push(g, e)
    BY <1>1, <1>2 DEF StacksInv
  <2> QED
    BY <1>3, <2>1, <2>2 DEF Bracketed
<1> HIDE DEF a, f, d, more, Push, Pop
<1>8. ASSUME \A g \in Dirs, e \in Levels :
                Cardinality(Occurs(dir_stack'[e], g))
                   + (Pop(g, e) + (IF line.kind = "leave" /\ f = g /\ d = e
                                   THEN 1 ELSE 0))
                 = Push(g, e) + (IF line.kind = "enter" /\ f = g /\ d = e
                                 THEN 1 ELSE 0)
      PROVE  StacksInv'
  <2>1. \A g \in Dirs, e \in Levels :
           Cardinality(Occurs(dir_stack'[e], g))
              + Cardinality(CodedAt(more, Len(more), "POPDIR", g, e))
            = Cardinality(CodedAt(more, Len(more), "PUSHDIR", g, e))
    BY <1>7, <1>8
  <2> QED
    BY <1>4, <2>1 DEF StacksInv
<1>9. context_dirty' = TRUE => ContextInv'
  BY DEF ContextInv
<1>10. CASE line.kind = "enter"
  <2>1. log_push_dir(d, f) /\ f \in Dirs /\ d \in Levels
    BY <1>3, <1>4, <1>6, <1>10
  <2>2. d = 1 \/ dir_stack[d - 1] # <<>>
    <3>1. CASE d # 1
      <4>1. MakesAt(d - 1) # {}
        BY <1>5, <1>10, <3>1 DEF Orderly, d
      <4>2. d - 1 \in Levels
        BY <2>1, <3>1, LogAssumption DEF Levels
      <4> QED
        BY <1>1, <1>2, <4>1, <4>2, MakesAtIs
    <3> QED
      BY <3>1
  <2>3. /\ context_dirty' = TRUE /\ LevelsInv'
        /\ \A e \in Levels, g \in Dirs :
              Cardinality(Occurs(dir_stack'[e], g))
                = Stands(g, e) + (IF f = g /\ d = e THEN 1 ELSE 0)
    BY <1>1, <2>1, <2>2, PushLook
  <2> HIDE DEF Stands
  <2>4. \A g \in Dirs, e \in Levels :
           Cardinality(Occurs(dir_stack'[e], g)) + (Pop(g, e) + 0)
             = Push(g, e) + (IF f = g /\ d = e THEN 1 ELSE 0)
    BY <1>7, <2>3
  <2>5. StacksInv'
    BY <1>8, <1>10, <2>4
  <2> QED
    BY <1>9, <2>3, <2>5
<1>11. CASE line.kind = "leave"
  <2>1. log_pop_dir(d, f) /\ f \in Dirs /\ d \in Levels
    BY <1>3, <1>4, <1>6, <1>11
  <2>2. f \in MakesAt(d) /\ (\/ d = MaxDepth
                             \/ MakesAt(d + 1) = {}
                             \/ MakesAt(d) # {f})
    BY <1>5, <1>11, Zenon DEF Orderly, d, f
  <2>3. /\ \A g \in Dirs : g \in MakesAt(d) <=> On(dir_stack[d], g)
        /\ MakesAt(d) \subseteq Dirs
    BY <1>1, <1>2, <2>1, MakesAtIs
  <2>4. \/ d = MaxDepth
        \/ dir_stack[d + 1] = <<>>
        \/ \E g \in Dirs : g # f /\ On(dir_stack[d], g)
    <3>1. ASSUME d # MaxDepth, MakesAt(d + 1) = {}
          PROVE  dir_stack[d + 1] = <<>>
      <4>1. d + 1 \in Levels
        BY <2>1, <3>1, LogAssumption DEF Levels
      <4> QED
        BY <1>1, <1>2, <3>1, <4>1, MakesAtIs
    <3>2. ASSUME MakesAt(d) # {f}
          PROVE  \E g \in Dirs : g # f /\ On(dir_stack[d], g)
      BY <2>2, <2>3, <3>2
    <3> QED
      BY <2>2, <3>1, <3>2
  <2>5. On(dir_stack[d], f)
    BY <2>1, <2>2, <2>3
  <2>6. /\ context_dirty' = TRUE /\ LevelsInv'
        /\ \A e \in Levels, g \in Dirs :
              Stands(g, e) = Cardinality(Occurs(dir_stack'[e], g))
                               + (IF f = g /\ d = e THEN 1 ELSE 0)
    BY <1>1, <2>1, <2>4, <2>5, PopLook
  <2>7. \A e \in Levels, g \in Dirs :
           Cardinality(Occurs(dir_stack'[e], g)) \in Nat
    <3>1. DirsOK'
      BY <1>1, <2>1, PoppedDir
    <3>2. \A e \in Levels : dir_stack'[e] \in Seq(Dirs)
      BY <3>1 DEF DirsOK, Levels
    <3> QED
      BY <3>2, OnOccurs
  <2> HIDE DEF Stands
  <2>8. \A g \in Dirs, e \in Levels :
           Cardinality(Occurs(dir_stack'[e], g))
              + (Pop(g, e) + (IF f = g /\ d = e THEN 1 ELSE 0))
             = Push(g, e) + 0
    BY <1>7, <2>6, <2>7
  <2>9. StacksInv'
    BY <1>8, <1>11, <2>8
  <2> QED
    BY <1>9, <2>6, <2>9
<1>12. CASE line.kind \notin {"enter", "leave"}
  <2>1. /\ dir_stack' = dir_stack /\ dir_max_depth' = dir_max_depth
        /\ context_dirty' = (context_dirty /\ ~ Relative(a))
    BY <1>3, <1>4, <1>12
  <2>2. CurrentDirs' = CurrentDirs
    BY <2>1 DEF CurrentDirs
  <2>3. ContextInv'
    <3>1. CASE Relative(a)
      <4>1. context' = CurrentDirs
        BY <1>1, <1>4, <3>1 DEF ContextInv, log_get_context
      <4> QED
        BY <2>2, <4>1 DEF ContextInv
    <3>2. CASE ~ Relative(a)
      BY <1>1, <1>4, <2>1, <2>2, <3>2 DEF ContextInv, TypeOK
    <3> QED
      BY <3>1, <3>2
  <2>4. \A g \in Dirs, e \in Levels :
           Cardinality(Occurs(dir_stack'[e], g)) + (Pop(g, e) + 0)
             = Push(g, e) + 0
    BY <1>7, <2>1
  <2>5. StacksInv'
    BY <1>8, <1>12, <2>4
  <2>6. LevelsInv'
    BY <1>1, <2>1 DEF LevelsInv
  <2> QED
    BY <2>3, <2>5, <2>6
<1> QED
  BY <1>10, <1>11, <1>12

LEMMA BlockPlaces ==
    ASSUME NEW recs \in Seq(Recs), NEW D, Message(D),
           NEW j \in Len(recs) + 1..Len(recs \o D)
    PROVE  /\ j - Len(recs) \in DOMAIN D
           /\ (recs \o D)[j] = D[j - Len(recs)]
<1>1. recs \in Seq(Recs) /\ D \in Seq(Recs)
  BY DEF Message
<1>2. /\ Len(recs \o D) = Len(recs) + Len(D)
      /\ \A i \in Len(recs) + 1..Len(recs) + Len(D) :
            (recs \o D)[i] = D[i - Len(recs)]
  BY <1>1, ConcatProperties
<1>3. Len(recs) \in Nat /\ Len(D) \in Nat /\ DOMAIN D = 1..Len(D)
  BY <1>1
<1>4. j \in Len(recs) + 1..Len(recs) + Len(D)
  BY <1>2
<1>5. j - Len(recs) \in 1..Len(D)
  BY <1>3, <1>4
<1> QED
  BY <1>2, <1>3, <1>4, <1>5

\* A message is looked up where make was when it was written.
LEMMA RecordsFollow ==
    ASSUME LogInv, LookInv, Calm, NEW line \in Lines, Handle(line),
           AddLine(line)
    PROVE  RecordsInv'
<1> DEFINE D == Block(line)
           a == Applied(line).result
           more == Extended(line)
           n == Len(log)
           k == Len(more)
<1>1. TypeOK /\ FilterInv /\ Understood(log)
  BY DEF LogInv, DirsInv
<1>2. /\ log # <<>> /\ log \in Seq(Recs) /\ Message(D) /\ Adds(log, D, more)
      /\ filter_state = NoState \/ line.kind \notin {"enter", "leave"}
  BY AddLog
<1>3. \A i \in DOMAIN D : D[i].context = LookedUpIn(a)
  BY <1>1, <1>2, BlockIs
<1>4. /\ a.code = "PUSHDIR" <=> line.kind = "enter"
      /\ a.code = "POPDIR" <=> line.kind = "leave"
  BY AddBrackets
<1>5. log' = more
  BY AddIs
<1>6. more = log \o D
  BY DEF Extended
<1>7. D[Len(D)].line = line
  <2> DEFINE p == Append(pending, line)
  <2>1. pending \in Seq(Lines) /\ p \in Seq(Lines) /\ Len(p) \in Nat \ {0}
        /\ p[Len(p)] = line /\ DOMAIN p = 1..Len(p)
    BY <1>1 DEF TypeOK
  <2> HIDE DEF p
  <2>2. \A r, con : DOMAIN Drained(p, r, con) = 1..Len(p)
    BY <2>1 DEF Drained
  <2>3. DOMAIN D = 1..Len(p)
    BY <2>2, Zenon DEF Block, p
  <2>4. D \in Seq(Recs)
    BY <1>2 DEF Message
  <2>5. Len(D) = Len(p)
    <3> HIDE DEF D
    <3> QED
      BY <2>1, <2>3, <2>4
  <2>6. \A r, con : Drained(p, r, con)[Len(p)].line = p[Len(p)]
    <3>1. Len(p) \in DOMAIN p
      BY <2>1
    <3> QED
      BY <3>1 DEF Drained, LogRec
  <2>7. D[Len(p)].line = p[Len(p)]
    BY <2>6, Zenon DEF Block, p
  <2> HIDE DEF D
  <2> QED
    BY <2>1, <2>5, <2>7
<1>8. \A f : On(log_get_context, f) <=> WasIn(log, n, f)
  BY <1>1, <1>2, LookUp
<1> HIDE DEF D, a, more
<1>9. /\ n \in Nat \ {0} /\ k \in Nat /\ n < k /\ more \in Seq(Recs)
      /\ \A j \in 1..n : more[j] = log[j]
      /\ more[k] = D[Len(D)]
  BY <1>2 DEF Adds
<1>10. DOMAIN more = 1..k /\ DOMAIN log = 1..n
  BY <1>2, <1>9
<1> HIDE DEF n, k
<1>11. ASSUME NEW i \in 1..n
       PROVE  LooksRight(more, i)
  <2>1. SameUpTo(log, more, i) /\ i \in Nat /\ i # 0
    <3>1. \A j \in 1..i : j \in 1..n
      BY <1>9
    <3> QED
      BY <1>9, <3>1 DEF SameUpTo
  <2>2. LooksRight(log, i)
    BY <1>10 DEF LookInv, RecordsInv
  <2> QED
    BY <2>1, <2>2, LooksAlike
<1>12. ASSUME NEW i \in n+1..k
       PROVE  LooksRight(more, i)
  <2>1. more[i].context = LookedUpIn(a)
    <3>1. i \in Len(log) + 1..Len(log \o D)
      BY <1>6, Zenon DEF n, k
    <3>2. /\ i - Len(log) \in DOMAIN D
          /\ (log \o D)[i] = D[i - Len(log)]
      BY <1>2, <3>1, BlockPlaces
    <3>3. more[i] = D[i - Len(log)]
      BY <1>6, <3>2
    <3> QED
      BY <1>3, <3>2, <3>3
  <2>2. CASE ~ Relative(a)
    BY <2>1, <2>2 DEF LookedUpIn, LooksRight
  <2>3. CASE Relative(a)
    <3>1. a.code \notin {"PUSHDIR", "POPDIR"}
      BY <2>3 DEF Relative
    <3>2. more[k].line.kind \notin {"enter", "leave"}
      BY <1>4, <1>7, <1>9, <3>1
    <3>3. \A f : WasIn(more, i, f) <=> WasIn(log, Len(log), f)
      BY <1>2, <3>2, StaysIn DEF n, k
    <3>4. more[i].context = log_get_context
      BY <2>1, <2>3 DEF LookedUpIn
    <3> QED
      BY <1>8, <3>3, <3>4, Zenon DEF LooksRight, n
  <2> QED
    BY <2>2, <2>3
<1>13. \A i \in 1..k : i \in 1..n \/ i \in n+1..k
  BY <1>9
<1> QED
  BY <1>5, <1>10, <1>11, <1>12, <1>13 DEF RecordsInv

LEMMA StartsLook ==
    ASSUME LogInv, LookInv, NEW cleared \in BOOLEAN, log_start_build(cleared)
    PROVE  LookInv'
<1> DEFINE kept == IF cleared THEN <<>> ELSE log
           more == Append(kept, StartRec)
           n == Len(kept)
           k == n + 1
<1>1. TypeOK /\ LogShape(log) /\ NeverStray(log) /\ DirsOK
  BY StacksTyped DEF LogInv, DirsInv
<1>2. /\ context_dirty' = TRUE /\ LevelsInv'
      /\ \A e \in Levels : dir_stack'[e] = <<>>
  BY <1>1, ClearLook DEF log_start_build, LookInv
<1>3. /\ kept \in Seq(Recs) /\ LogShape(kept) /\ NeverStray(kept)
      /\ \A i \in DOMAIN kept : LooksRight(kept, i)
  <2>1. CASE cleared
    <3>1. <<>> \in Seq(Recs) /\ DOMAIN <<>> = {}
      OBVIOUS
    <3> QED
      BY <2>1, <3>1, EmptyDirs
  <2>2. CASE ~ cleared
    <3>1. log \in Seq(Recs) /\ \A i \in DOMAIN log : LooksRight(log, i)
      BY <1>1 DEF TypeOK, LookInv, RecordsInv
    <3> QED
      BY <1>1, <2>2, <3>1
  <2> QED
    BY <2>1, <2>2
<1>4. log' = more
  BY DEF log_start_build, StartRec
<1> HIDE DEF kept
<1>5. /\ more \in Seq(Recs) /\ Len(more) = k /\ more # <<>>
      /\ k \in Nat \ {0} /\ more[k] = StartRec
      /\ \A i \in 1..n : more[i] = kept[i]
  BY <1>3, StartLog
<1>6. more[k].code = "BUILDSTART" /\ more[k].context = NoContext
  BY <1>5, StartRecIs
<1>7. n \in Nat /\ DOMAIN kept = 1..n /\ DOMAIN more = 1..k /\ k = n + 1
  BY <1>3, <1>5
<1> HIDE DEF more, k, n
<1>8. ASSUME NEW c, NEW f, NEW d
      PROVE  Cardinality(CodedAt(more, k, c, f, d)) = 0
  BY <1>5, <1>6, CodedAtStep DEF GoesOn
<1>9. ASSUME NEW f, NEW d \in Levels
      PROVE  Cardinality(Occurs(dir_stack'[d], f)) = 0
  <2>1. Occurs(<<>>, f) = {}
    BY DEF Occurs
  <2> QED
    BY <1>2, <2>1, FS_EmptySet
<1>10. StacksInv'
  <2> SUFFICES ASSUME NEW f \in Dirs, NEW d \in Levels
               PROVE  Cardinality(Occurs(dir_stack'[d], f))
                        + Cardinality(CodedAt(more, k, "POPDIR", f, d))
                      = Cardinality(CodedAt(more, k, "PUSHDIR", f, d))
    BY <1>4, <1>5 DEF StacksInv
  <2>1. /\ Cardinality(Occurs(dir_stack'[d], f)) = 0
        /\ Cardinality(CodedAt(more, k, "POPDIR", f, d)) = 0
        /\ Cardinality(CodedAt(more, k, "PUSHDIR", f, d)) = 0
    BY <1>8, <1>9
  <2> QED
    BY <2>1
<1>11. ContextInv'
  BY <1>2 DEF ContextInv
<1>12. ASSUME NEW i \in 1..n
       PROVE  LooksRight(more, i)
  <2>1. SameUpTo(kept, more, i) /\ i \in Nat /\ i # 0
    <3>1. \A j \in 1..i : j \in 1..n
      BY <1>7
    <3> QED
      BY <1>5, <1>7, <3>1 DEF SameUpTo
  <2>2. LooksRight(kept, i)
    BY <1>3, <1>7
  <2> QED
    BY <2>1, <2>2, LooksAlike
<1>13. LooksRight(more, k)
  BY <1>6 DEF LooksRight
<1>14. \A i \in 1..k : i \in 1..n \/ i = k
  BY <1>7
<1>15. RecordsInv'
  BY <1>4, <1>7, <1>12, <1>13, <1>14 DEF RecordsInv
<1> QED
  BY <1>2, <1>10, <1>11, <1>15 DEF LookInv

LEMMA LookSame ==
    ASSUME LookInv, UNCHANGED dirVars, log' = log \/ log' = <<>>
    PROVE  LookInv'
<1>1. /\ dir_stack' = dir_stack /\ dir_max_depth' = dir_max_depth
      /\ context' = context /\ context_dirty' = context_dirty
  BY DEF dirVars
<1>2. LevelsInv' /\ ContextInv'
  <2>1. CurrentDirs' = CurrentDirs
    BY <1>1 DEF CurrentDirs
  <2> QED
    BY <1>1, <2>1 DEF LookInv, LevelsInv, ContextInv
<1>3. CASE log' = log
  BY <1>1, <1>2, <1>3 DEF LookInv, StacksInv, RecordsInv
<1>4. CASE log' = <<>>
  <2>1. DOMAIN <<>> = {}
    OBVIOUS
  <2> QED
    BY <1>2, <1>4, <2>1 DEF LookInv, StacksInv, RecordsInv
<1> QED
  BY <1>3, <1>4

LEMMA LookStep ==
    ASSUME Calm, LogInv, LookInv, [Next]_vars
    PROVE  LookInv'
<1>1. ASSUME NEW line \in Lines, Handle(line)
      PROVE  LookInv'
  <2>1. CASE HoldLine(line)
    BY <2>1, LookSame DEF HoldLine
  <2>2. CASE AddLine(line)
    BY <1>1, <2>2, StacksFollow, RecordsFollow DEF LookInv
  <2> QED
    BY <1>1, <2>1, <2>2 DEF Handle
<1>2. CASE StartBuild
  <2>1. PICK cleared \in BOOLEAN : log_start_build(cleared)
    BY <1>2 DEF StartBuild
  <2> QED
    BY <2>1, StartsLook
<1>3. CASE OpenLog
  <2>1. log_start_build(FALSE)
    BY <1>3 DEF OpenLog
  <2> QED
    BY <2>1, StartsLook
<1>4. CASE EndBuild \/ WorkEnds \/ CloseLog \/ Clear \/ UNCHANGED vars
  <2>1. UNCHANGED dirVars /\ (log' = log \/ log' = <<>>)
    BY <1>4 DEF EndBuild, WorkEnds, CloseLog, Clear, vars
  <2> QED
    BY <2>1, LookSame
<1>5. ASSUME NEW flags \in FlagSets, SetFlags(flags)
      PROVE  LookInv'
  <2>1. UNCHANGED dirVars /\ log' = log
    BY <1>5 DEF SetFlags
  <2> QED
    BY <2>1, LookSame
<1> QED
  BY <1>1, <1>2, <1>3, <1>4, <1>5 DEF Next

LEMMA LookInitially == Init => LookInv
<1> SUFFICES ASSUME Init
             PROVE  LookInv
  OBVIOUS
<1>1. DOMAIN <<>> = {}
  OBVIOUS
<1>2. LevelsInv
  BY LogAssumption DEF Init, LevelsInv, Levels
<1>3. ContextInv
  BY DEF Init, ContextInv
<1> QED
  BY <1>1, <1>2, <1>3 DEF Init, LookInv, StacksInv, RecordsInv

LEMMA TextUpTo ==
    ASSUME NEW recs \in Seq(Recs), NEW i \in DOMAIN recs
    PROVE  SubSeq(Text(recs), 1, i) = Text(SubSeq(recs, 1, i)) \o <<>>
<1> DEFINE s == SubSeq(recs, 1, i)
           t == Text(recs)
           u == Text(s)
<1>1. i \in Nat /\ i \in 1..Len(recs) /\ Len(recs) \in Nat
  OBVIOUS
<1>2. /\ s \in Seq(Recs) /\ Len(s) = i
      /\ \A j \in 1..i : s[j] = recs[j]
  <2>1. i \in 0..Len(recs) /\ i \in Nat
    BY <1>1
  <2>2. Len(s) = i
    BY <2>1, PrefixLength
  <2>3. s \in Seq(Recs)
    BY <1>1
  <2>4. \A j \in 1..i : SubSeq(recs, 1, i)[j] = recs[j]
    BY <1>1
  <2> QED
    BY <2>2, <2>3, <2>4
<1> HIDE DEF s
<1>3. PICK T : /\ t \in Seq(T) /\ Len(t) = Len(recs)
               /\ \A j \in 1..Len(recs) : t[j] = recs[j].line
  BY TextOfSeq
<1>4. PICK U : /\ u \in Seq(U) /\ Len(u) = Len(s)
               /\ \A j \in 1..Len(s) : u[j] = s[j].line
  BY <1>2, TextOfSeq
<1> HIDE DEF t, u
<1>5. t \in Seq(T \cup U) /\ u \in Seq(T \cup U)
  BY <1>3, <1>4, SeqOfMore
<1>6. /\ SubSeq(t, 1, i) \in Seq(T \cup U) /\ Len(SubSeq(t, 1, i)) = i
      /\ \A j \in 1..i : SubSeq(t, 1, i)[j] = t[j]
  <2>1. i \in 0..Len(t) /\ i \in Nat
    BY <1>1, <1>3
  <2>2. Len(SubSeq(t, 1, i)) = i
    BY <1>5, <2>1, PrefixLength
  <2>3. SubSeq(t, 1, i) \in Seq(T \cup U)
    BY <1>1, <1>3, <1>5
  <2>4. \A j \in 1..i : SubSeq(t, 1, i)[j] = t[j]
    BY <1>1, <1>3, <1>5
  <2> QED
    BY <2>2, <2>3, <2>4
<1> DEFINE w == SubSeq(t, 1, i)
<1> HIDE DEF w
<1>7. w \in Seq(T \cup U) /\ Len(w) = Len(u) /\ \A j \in 1..Len(w) : w[j] = u[j]
  <2>1. \A j \in 1..i : j \in 1..Len(recs) /\ j \in 1..Len(s)
    BY <1>1, <1>2
  <2> QED
    BY <1>2, <1>3, <1>4, <1>6, <2>1 DEF w
<1>8. w = u
  BY <1>5, <1>7, SeqEqual
<1>9. u \o <<>> = u
  BY <1>5, ConcatEmptySeq
<1> QED
  BY <1>8, <1>9 DEF w, t, u, s

LEMMA LookIsRight ==
    ASSUME TypeOK, LogShape(log), LookInv
    PROVE  LookedUpWhereMakeWas
<1> SUFFICES ASSUME NEW i \in DOMAIN log, log[i].context # NoContext
             PROVE  ToSet(log[i].context)
                      = {f \in Dirs : \E d \in 1..MaxDepth :
                            Inside(SinceStart(SubSeq(Text(log), 1, i)), d, f)
                              > 0}
  BY DEF LookedUpWhereMakeWas
<1> DEFINE s == SubSeq(log, 1, i)
           u == SubSeq(Text(log), 1, i)
           c == log[i].context
<1>1. log \in Seq(Recs) /\ i \in Nat \ {0} /\ i \in 1..Len(log)
  BY DEF TypeOK
<1>2. c \in Seq(Dirs)
  <2>1. log[i] \in Recs
    BY <1>1
  <2>2. log[i].context \in Contexts
    BY <2>1 DEF Recs
  <2> QED
    BY <2>2 DEF Contexts
<1>3. \A f : On(c, f) <=> WasIn(log, i, f)
  BY DEF LookInv, RecordsInv, LooksRight
<1>4. /\ s \in Seq(Recs) /\ Len(s) = i
      /\ \A j \in 1..i : s[j] = log[j]
  <2>1. i \in 0..Len(log) /\ i \in Nat
    BY <1>1
  <2>2. Len(s) = i
    BY <1>1, <2>1, PrefixLength
  <2>3. s \in Seq(Recs)
    BY <1>1
  <2>4. \A j \in 1..i : SubSeq(log, 1, i)[j] = log[j]
    BY <1>1
  <2> QED
    BY <2>2, <2>3, <2>4
<1>5. u = Text(s) \o <<>>
  BY <1>1, TextUpTo
<1> HIDE DEF s, u, c
<1>6. LogShape(s)
  <2>1. \A j \in DOMAIN s : j \in DOMAIN log /\ s[j] = log[j]
    BY <1>1, <1>4
  <2>2. log # <<>> /\ 1 \in 1..i /\ s[1] = log[1]
    BY <1>1, <1>4
  <2> QED
    BY <2>1, <2>2 DEF LogShape
<1>7. SameUpTo(log, s, i)
  BY <1>4 DEF SameUpTo
<1>8. Retells(log, s, i)
  BY <1>1, <1>7, Alike
<1>9. \A kind, f, d : Said(s, i, kind, f, d) = Said(log, i, kind, f, d)
  BY <1>8, Zenon DEF Retells
<1>10. ASSUME NEW f, NEW d
       PROVE  Inside(SinceStart(u), d, f) > 0 <=>
                 Cardinality(Said(log, i, "leave", f, d))
                   < Cardinality(Said(log, i, "enter", f, d))
  <2> DEFINE e == Cardinality(Said(log, i, "enter", f, d))
             l == Cardinality(Said(log, i, "leave", f, d))
             in == Inside(SinceStart(u), d, f)
  <2>1. e \in Nat /\ l \in Nat
    BY <1>1, CountsNat
  <2>2. <<>> \in Seq(Held)
    OBVIOUS
  <2>3. Inside(SinceStart(Text(s) \o <<>>), d, f)
          = Cardinality(Said(s, Len(s), "enter", f, d))
              - Cardinality(Said(s, Len(s), "leave", f, d))
    BY <1>4, <1>6, <2>2, InsideIs
  <2>4. in = e - l
    BY <1>4, <1>5, <1>9, <2>3
  <2> HIDE DEF e, l, in
  <2>5. in > 0 <=> l < e
    BY <2>1, <2>4
  <2> QED
    BY <2>5 DEF e, l, in
<1>11. \A f : f \in ToSet(c) <=> On(c, f)
  BY <1>2, OnIsToSet
<1>12. \A f : WasIn(log, i, f) <=>
          f \in Dirs /\ \E d \in 1..MaxDepth : Inside(SinceStart(u), d, f) > 0
  BY <1>10 DEF WasIn, Levels
<1>13. ToSet(c) = {f \in Dirs : \E d \in 1..MaxDepth :
                      Inside(SinceStart(u), d, f) > 0}
  BY <1>3, <1>11, <1>12
<1> QED
  BY <1>13 DEF c, u

\* A message with a relative file name is looked up in the directories that
\* the makes, of whatever level, were in when it was written, and in no other:
\* the stacks of all levels are kept in step with what make says, and the
\* cached context with the stacks.  (log_push_dir, log_pop_dir,
\* log_clear_dirs, log_get_context)
THEOREM ContextsAreRight ==
    Calm => (Spec => []LookedUpWhereMakeWas)
<1> SUFFICES ASSUME Calm
             PROVE  Spec => []LookedUpWhereMakeWas
  OBVIOUS
<1>1. Spec => []LogInv
  BY LogIsSound
<1>2. LogInv /\ LookInv /\ [Next]_vars => LookInv'
  BY LookStep
<1>3. LogInv /\ LookInv => LookedUpWhereMakeWas
  BY LookIsRight DEF LogInv, DirsInv
<1> QED
  BY <1>1, <1>2, <1>3, LookInitially, PTL DEF Spec
==============================================================================
