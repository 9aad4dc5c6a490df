---------------------------- MODULE SequenceFacts ----------------------------
(***************************************************************************)
(* Facts about sequences that the proofs of several components use: what   *)
(* stands on a queue or a stack when something is added to it or taken     *)
(* off, and whether it stands there once.  Some look for the first place   *)
(* at which something holds, the least of a set of numbers.                *)
(***************************************************************************)
EXTENDS Integers, SequencesExt, SequenceTheorems, WellFoundedInduction, TLAPS

\* A set of numbers has a least one.
LEMMA LeastNumber ==
    ASSUME NEW T \in SUBSET Nat, T # {}
    PROVE  \E m \in T : \A k \in T : m <= k
<1> DEFINE R == {ss \in Nat \X Nat : ss[1] < ss[2]}
<1>1. IsWellFoundedOn(R, Nat)
  BY NatLessThanWellFounded DEF OpToRel
<1>2. PICK m \in T : \A y \in T : ~ (<<y, m>> \in R)
  <2> HIDE DEF R
  <2>1. QED
    BY <1>1, WFMin
<1>3. \A k \in T : ~ (k < m)
  BY <1>2
<1>4. QED
  BY <1>3

\* What Min and Max find in sets of numbers.
LEMMA LeastOf ==
    ASSUME NEW S \in SUBSET Nat, S # {}
    PROVE  Min(S) \in S /\ \A j \in S : Min(S) <= j
  BY LeastNumber DEF Min

LEMMA GreatestOf ==
    ASSUME NEW n \in Nat, NEW S \in SUBSET 0..n, S # {}
    PROVE  Max(S) \in S /\ \A j \in S : j <= Max(S)
<1> DEFINE T == {k \in Nat : n - k \in S}
<1>1. T \in SUBSET Nat /\ T # {}
  <2>1. PICK j \in S : TRUE
    OBVIOUS
  <2>2. n - j \in Nat /\ n - (n - j) = j
    OBVIOUS
  <2> QED
    BY <2>1, <2>2
<1>2. PICK m \in T : \A k \in T : m <= k
  <2> HIDE DEF T
  <2> QED
    BY <1>1, LeastNumber
<1>3. n - m \in S /\ \A j \in S : j <= n - m
  <2>1. ASSUME NEW j \in S PROVE j <= n - m
    <3>1. n - j \in Nat /\ n - (n - j) = j
      OBVIOUS
    <3>2. n - j \in T
      BY <3>1
    <3>3. m <= n - j /\ m \in Nat
      BY <1>2, <3>2
    <3> QED
      BY <3>3
  <2> QED
    BY <2>1
<1> QED
  BY <1>3 DEF Max

LEMMA PrefixLength ==
    ASSUME NEW S, NEW q \in Seq(S), NEW n \in 0..Len(q)
    PROVE  Len(SubSeq(q, 1, n)) = n
  OBVIOUS

\* Taking the last element off a sequence leaves the others where they are.
LEMMA FrontProperties ==
    ASSUME NEW S, NEW q \in Seq(S), q # <<>>
    PROVE  /\ Front(q) \in Seq(S)
           /\ Len(Front(q)) = Len(q) - 1
           /\ \A i \in 1..Len(q) - 1 : Front(q)[i] = q[i]
           /\ Last(q) \in S
<1>1. Front(q) \in Seq(S)
  BY DEF Front
<1>2. Len(Front(q)) = Len(q) - 1
  <2>1. Len(q) >= 1
    BY EmptySeq
  <2>2. Len(q) - 1 \in 0..Len(q)
    BY <2>1
  <2>3. QED
    BY <2>2, PrefixLength DEF Front
<1>3. \A i \in 1..Len(q) - 1 : Front(q)[i] = q[i]
  BY DEF Front
<1>4. Last(q) \in S
  BY DEF Last
<1>5. QED
  BY <1>1, <1>2, <1>3, <1>4

LEMMA SuffixProperties ==
    ASSUME NEW S, NEW q \in Seq(S), NEW k \in DOMAIN q
    PROVE  /\ SubSeq(q, k + 1, Len(q)) \in Seq(S)
           /\ Len(SubSeq(q, k + 1, Len(q))) = Len(q) - k
           /\ \A i \in 1..Len(q) - k :
                 SubSeq(q, k + 1, Len(q))[i] = q[k + i]
<1>1. SubSeq(q, k + 1, Len(q)) \in Seq(S)
  OBVIOUS
<1>2. Len(SubSeq(q, k + 1, Len(q))) = Len(q) - k
  OBVIOUS
<1>3. \A i \in 1..Len(q) - k : SubSeq(q, k + 1, Len(q))[i] = q[k + i]
  OBVIOUS
<1>4. QED
  BY <1>1, <1>2, <1>3

On(q, x) == \E i \in DOMAIN q : q[i] = x

LEMMA OnConcat ==
    ASSUME NEW S, NEW q \in Seq(S), NEW r \in Seq(S), NEW x
    PROVE  On(q \o r, x) <=> On(q, x) \/ On(r, x)
<1>1. ASSUME NEW i \in DOMAIN q, q[i] = x
      PROVE  On(q \o r, x)
  <2>1. i \in DOMAIN (q \o r) /\ (q \o r)[i] = x
    BY <1>1
  <2>2. QED
    BY <2>1 DEF On
<1>2. ASSUME NEW i \in DOMAIN r, r[i] = x
      PROVE  On(q \o r, x)
  <2>1. Len(q) + i \in DOMAIN (q \o r) /\ (q \o r)[Len(q) + i] = x
    BY <1>2
  <2>2. QED
    BY <2>1 DEF On
<1>3. ASSUME NEW i \in DOMAIN (q \o r), (q \o r)[i] = x
      PROVE  On(q, x) \/ On(r, x)
  <2>1. CASE i <= Len(q)
    <3>1. i \in DOMAIN q /\ q[i] = x
      BY <1>3, <2>1
    <3>2. QED
      BY <3>1 DEF On
  <2>2. CASE i > Len(q)
    <3>1. i - Len(q) \in DOMAIN r /\ r[i - Len(q)] = x
      BY <1>3, <2>2
    <3>2. QED
      BY <3>1 DEF On
  <2>3. QED
    BY <2>1, <2>2
<1>4. QED
  BY <1>1, <1>2, <1>3 DEF On

LEMMA OnSingle ==
    ASSUME NEW f, NEW x
    PROVE  On(<<f>>, x) <=> x = f
  BY DEF On

LEMMA OnAppend ==
    ASSUME NEW S, NEW q \in Seq(S), NEW f \in S, NEW x
    PROVE  On(Append(q, f), x) <=> On(q, x) \/ x = f
<1>1. Append(q, f) = q \o <<f>> /\ <<f>> \in Seq(S)
  BY AppendIsConcat
<1>2. On(q \o <<f>>, x) <=> On(q, x) \/ On(<<f>>, x)
  BY <1>1, OnConcat
<1>3. QED
  BY <1>1, <1>2, OnSingle

LEMMA OnFront ==
    ASSUME NEW S, NEW q \in Seq(S), q # <<>>, NEW x
    PROVE  /\ On(Front(q), x) => On(q, x)
           /\ On(q, x) => x = Last(q) \/ On(Front(q), x)
<1>1. /\ Front(q) \in Seq(S)
      /\ Len(Front(q)) = Len(q) - 1
      /\ \A i \in 1..Len(q) - 1 : Front(q)[i] = q[i]
  BY FrontProperties
<1>2. \A i \in DOMAIN Front(q) : i \in DOMAIN q /\ Front(q)[i] = q[i]
  BY <1>1
<1>3. \A i \in DOMAIN q : i = Len(q) \/ (i \in DOMAIN Front(q) /\ Front(q)[i] = q[i])
  BY <1>1
<1>4. QED
  BY <1>2, <1>3 DEF On, Last

LEMMA HeadOn ==
    ASSUME NEW S, NEW q \in Seq(S), q # <<>>
    PROVE  On(q, Head(q)) /\ Head(q) \in S
<1>1. 1 \in DOMAIN q /\ Head(q) = q[1]
  BY EmptySeq
<1>2. QED
  BY <1>1 DEF On

LEMMA ContainsIsOn ==
    ASSUME NEW S, NEW q \in Seq(S), NEW x
    PROVE  Contains(q, x) <=> On(q, x)
  BY DEF Contains, On

LEMMA OnIsToSet ==
    ASSUME NEW S, NEW s \in Seq(S), NEW x
    PROVE  On(s, x) <=> x \in ToSet(s)
  BY DEF On, ToSet

LEMMA ConcatInjective ==
    ASSUME NEW S, NEW q \in Seq(S), NEW s \in Seq(S),
           IsInjective(q), IsInjective(s),
           \A x : ~ (On(q, x) /\ On(s, x))
    PROVE  IsInjective(q \o s)
<1>1. \A i \in DOMAIN (q \o s) :
         \/ i \in DOMAIN q /\ (q \o s)[i] = q[i]
         \/ /\ i - Len(q) \in DOMAIN s
            /\ (q \o s)[i] = s[i - Len(q)]
            /\ i \notin DOMAIN q
  OBVIOUS
<1>2. \A i \in DOMAIN q, j \in DOMAIN s : q[i] # s[j]
  BY DEF On
<1>3. \A i, j \in DOMAIN (q \o s) : i - Len(q) = j - Len(q) => i = j
  OBVIOUS
<1>4. QED
  BY <1>1, <1>2, <1>3 DEF IsInjective

LEMMA HeadConcat ==
    ASSUME NEW S, NEW q \in Seq(S), NEW s \in Seq(S), q # <<>>
    PROVE  q \o s # <<>> /\ Head(q \o s) = Head(q)
<1>1. Len(q) > 0 /\ Len(q \o s) > 0 /\ (q \o s)[1] = q[1]
  BY EmptySeq
<1>2. QED
  BY <1>1, EmptySeq

LEMMA TailConcat ==
    ASSUME NEW S, NEW q \in Seq(S), NEW s \in Seq(S), q # <<>>
    PROVE  Tail(q \o s) = Tail(q) \o s
<1> DEFINE r == q \o s
<1>1. r \in Seq(S) /\ r # <<>> /\ Len(r) = Len(q) + Len(s)
  BY HeadConcat
<1>2. /\ Tail(q) \in Seq(S)
      /\ Len(Tail(q)) = Len(q) - 1
      /\ \A i \in 1..Len(Tail(q)) : Tail(q)[i] = q[i + 1]
  BY HeadTailProperties
<1>3. /\ Tail(r) \in Seq(S)
      /\ Len(Tail(r)) = Len(r) - 1
      /\ \A i \in 1..Len(Tail(r)) : Tail(r)[i] = r[i + 1]
  BY <1>1, HeadTailProperties
<1> DEFINE u == Tail(q) \o s
<1>4. u \in Seq(S) /\ Len(u) = Len(q) - 1 + Len(s)
  BY <1>2, ConcatProperties
<1>5. ASSUME NEW i \in 1..Len(u)
      PROVE  u[i] = r[i + 1]
  <2>1. CASE i <= Len(q) - 1
    BY <1>2, <1>4, <2>1, ConcatProperties
  <2>2. CASE i > Len(q) - 1
    <3>1. u[i] = s[i - (Len(q) - 1)]
      BY <1>2, <1>4, <2>2, ConcatProperties
    <3>2. r[i + 1] = s[(i + 1) - Len(q)]
      BY <1>4, <2>2, ConcatProperties
    <3>3. i - (Len(q) - 1) = (i + 1) - Len(q)
      BY <1>4
    <3>4. QED
      BY <3>1, <3>2, <3>3
  <2>3. QED
    BY <1>4, <2>1, <2>2
<1> HIDE DEF r, u
<1>6. Len(Tail(r)) = Len(u) /\ \A i \in 1..Len(Tail(r)) : Tail(r)[i] = u[i]
  BY <1>1, <1>3, <1>4, <1>5
<1>7. Tail(r) = u
  BY <1>3, <1>4, <1>6, SeqEqual
<1>8. QED
  BY <1>7 DEF r, u

LEMMA AppendOnce ==
    ASSUME NEW S, NEW q \in Seq(S), NEW e \in S, IsInjective(q), ~ On(q, e)
    PROVE  IsInjective(Append(q, e))
<1> DEFINE r == Append(q, e)
<1>1. /\ DOMAIN r = 1..Len(q) + 1 /\ DOMAIN q = 1..Len(q) /\ Len(q) \in Nat
      /\ \A i \in 1..Len(q) : r[i] = q[i]
      /\ r[Len(q) + 1] = e
  OBVIOUS
<1>2. \A i \in 1..Len(q) + 1 : i \in 1..Len(q) \/ i = Len(q) + 1
  BY <1>1
<1> HIDE DEF r
<1>3. IsInjective(r)
  BY <1>1, <1>2 DEF IsInjective, On
<1>4. QED
  BY <1>3 DEF r

LEMMA FrontOnce ==
    ASSUME NEW S, NEW q \in Seq(S), q # <<>>, IsInjective(q)
    PROVE  IsInjective(Front(q)) /\ ~ On(Front(q), Last(q))
<1>1. /\ Front(q) \in Seq(S)
      /\ Len(Front(q)) = Len(q) - 1
      /\ \A i \in 1..Len(q) - 1 : Front(q)[i] = q[i]
  BY FrontProperties
<1>2. Len(q) \in Nat /\ Len(q) > 0 /\ Last(q) = q[Len(q)]
  BY EmptySeq DEF Last
<1>3. /\ DOMAIN Front(q) = 1..Len(q) - 1
      /\ \A i \in 1..Len(q) - 1 : i \in DOMAIN q /\ i # Len(q)
      /\ Len(q) \in DOMAIN q
  BY <1>1, <1>2
<1>4. QED
  BY <1>1, <1>2, <1>3 DEF IsInjective, On

\* Taking the first element off a sequence.
LEMMA OnTail ==
    ASSUME NEW S, NEW q \in Seq(S), q # <<>>
    PROVE  /\ Tail(q) \in Seq(S)
           /\ \A x : On(q, x) <=> x = Head(q) \/ On(Tail(q), x)
<1>1. Tail(q) \in Seq(S) /\ Head(q) \in S /\ q = <<Head(q)>> \o Tail(q)
  BY EmptySeq, ConcatProperties
<1>2. <<Head(q)>> \in Seq(S)
  BY <1>1
<1>3. ASSUME NEW x
      PROVE  On(q, x) <=> x = Head(q) \/ On(Tail(q), x)
  <2>1. On(<<Head(q)>> \o Tail(q), x) <=> On(<<Head(q)>>, x) \/ On(Tail(q), x)
    BY <1>1, <1>2, OnConcat
  <2>2. On(<<Head(q)>>, x) <=> x = Head(q)
    BY OnSingle
  <2>3. QED
    BY <1>1, <2>1, <2>2
<1>4. QED
  BY <1>1, <1>3

LEMMA TailOnce ==
    ASSUME NEW S, NEW q \in Seq(S), q # <<>>, IsInjective(q)
    PROVE  IsInjective(Tail(q)) /\ ~ On(Tail(q), Head(q))
<1>1. /\ Tail(q) \in Seq(S) /\ Len(q) \in Nat /\ Len(q) > 0
      /\ Len(Tail(q)) = Len(q) - 1 /\ Head(q) = q[1]
      /\ \A i \in 1..Len(q) - 1 : Tail(q)[i] = q[i + 1]
  BY EmptySeq
<1>2. /\ DOMAIN Tail(q) = 1..Len(q) - 1
      /\ 1 \in DOMAIN q
      /\ \A i \in 1..Len(q) - 1 : i + 1 \in DOMAIN q /\ i + 1 # 1
      /\ \A i, j \in 1..Len(q) - 1 : i + 1 = j + 1 => i = j
  BY <1>1
<1>3. QED
  BY <1>1, <1>2 DEF IsInjective, On

\* Taking an element out of a sequence in which it stands once.
LEMMA RemoveAtProperties ==
    ASSUME NEW S, NEW q \in Seq(S), NEW k \in DOMAIN q
    PROVE  /\ RemoveAt(q, k) \in Seq(S)
           /\ \A x : On(RemoveAt(q, k), x) => On(q, x)
           /\ \A x : On(q, x) => x = q[k] \/ On(RemoveAt(q, k), x)
           /\ IsInjective(q) =>
                 IsInjective(RemoveAt(q, k)) /\ ~ On(RemoveAt(q, k), q[k])
<1> DEFINE r == RemoveAt(q, k)
           old(i) == IF i < k THEN i ELSE i + 1
<1>1. k \in 1..Len(q) /\ Len(q) \in Nat
  OBVIOUS
<1> DEFINE a == SubSeq(q, 1, k - 1)
           b == SubSeq(q, k + 1, Len(q))
<1>2. a \in Seq(S) /\ Len(a) = k - 1 /\ \A i \in 1..k - 1 : a[i] = q[i]
  BY <1>1
<1>3. b \in Seq(S) /\ Len(b) = Len(q) - k /\ \A i \in 1..Len(q) - k : b[i] = q[k + i]
  BY <1>1, SuffixProperties
<1>4. r = a \o b
  BY DEF RemoveAt
<1> HIDE DEF a, b, r
<1>5. r \in Seq(S) /\ DOMAIN r = 1..Len(q) - 1
  BY <1>1, <1>2, <1>3, <1>4
<1>6. \A i \in 1..Len(q) - 1 : r[i] = q[old(i)]
  <2> SUFFICES ASSUME NEW i \in 1..Len(q) - 1
               PROVE  r[i] = q[old(i)]
    OBVIOUS
  <2>1. CASE i < k
    BY <1>1, <1>2, <1>3, <1>4, <2>1
  <2>2. CASE i >= k
    <3>1. r[i] = b[i - (k - 1)] /\ i - (k - 1) \in 1..Len(q) - k
      BY <1>1, <1>2, <1>3, <1>4, <2>2
    <3>2. k + (i - (k - 1)) = i + 1
      BY <1>1
    <3>3. QED
      BY <1>3, <2>2, <3>1, <3>2
  <2>3. QED
    BY <1>1, <2>1, <2>2
<1>7. \A i \in 1..Len(q) - 1 :
         old(i) \in DOMAIN q /\ old(i) # k
  BY <1>1
<1>8. \A i, j \in 1..Len(q) - 1 : old(i) = old(j) => i = j
  BY <1>1
<1> HIDE DEF old
<1>9. QED
  <2>1. r \in Seq(S) /\ \A x : On(r, x) => On(q, x)
    BY <1>5, <1>6, <1>7 DEF On
  <2>2. IsInjective(q) => IsInjective(r) /\ ~ On(r, q[k])
    BY <1>5, <1>6, <1>7, <1>8 DEF IsInjective, On
  <2>3. ASSUME NEW i \in DOMAIN q, i # k
        PROVE  On(r, q[i])
    <3>1. CASE i < k
      <4>1. i \in 1..Len(q) - 1 /\ old(i) = i
        BY <1>1, <3>1 DEF old
      <4>2. QED
        BY <1>5, <1>6, <4>1 DEF On
    <3>2. CASE i > k
      <4>1. i - 1 \in 1..Len(q) - 1 /\ old(i - 1) = i
        BY <1>1, <3>2 DEF old
      <4>2. QED
        BY <1>5, <1>6, <4>1 DEF On
    <3>3. QED
      BY <1>1, <2>3, <3>1, <3>2
  <2>4. \A x : On(q, x) => x = q[k] \/ On(r, x)
    BY <2>3 DEF On
  <2>5. QED
    BY <2>1, <2>2, <2>4 DEF r
-------------------------------------------------------------------------------
(***************************************************************************)
(* Loops.  An induction is over the set of the rounds after which          *)
(* something holds; a loop is the function from rounds to what it has      *)
(* computed.                                                               *)
(***************************************************************************)
\* What holds before the first round, and after a round if it did before it,
\* holds after all of them.
LEMMA EveryRound ==
    ASSUME NEW a \in Nat, NEW b \in Nat, NEW T, a \in T,
           \A j \in a+1..b : j - 1 \in T => j \in T
    PROVE  \A j \in a..b : j \in T
<1> DEFINE U == {j \in a..b : j \notin T}
<1>1. U # {} => \E m \in U : \A k \in U : m <= k
  <2>1. U \in SUBSET Nat
    OBVIOUS
  <2> HIDE DEF U
  <2> QED
    BY <2>1, LeastNumber
<1>2. ASSUME NEW m \in U, \A k \in U : m <= k
      PROVE  FALSE
  <2>1. m \in a+1..b /\ m - 1 \in a..b /\ m - 1 \notin U
    BY <1>2
  <2>2. m - 1 \in T
    BY <2>1
  <2> QED
    BY <1>2, <2>1, <2>2
<1> QED
  BY <1>1, <1>2

\* g is a loop from a to b that starts with x and goes on by the steps of s.
IsLoop(g, a, b, x, s) ==
    /\ g[a] = x
    /\ \A j \in a+1..b : g[j] = s[<<j, g[j - 1]>>]

LEMMA LoopExists ==
    ASSUME NEW a \in Nat, NEW b \in Nat, NEW X, NEW x \in X,
           NEW s \in [(a+1..b) \X X -> X]
    PROVE  \E g \in [a..b -> X] : a <= b => IsLoop(g, a, b, x, s)
<1> DEFINE T == {j \in Nat : \E g \in [a..j -> X] : IsLoop(g, a, j, x, s)}
<1>1. a \in T
  <2> DEFINE g == [j \in a..a |-> x]
  <2>1. g \in [a..a -> X] /\ g[a] = x
    OBVIOUS
  <2>2. \A j \in a+1..a : FALSE
    OBVIOUS
  <2> HIDE DEF g
  <2>3. IsLoop(g, a, a, x, s)
    BY <2>1, <2>2 DEF IsLoop
  <2> QED
    BY <2>1, <2>3
<1>2. ASSUME NEW j \in a+1..b, j - 1 \in T
      PROVE  j \in T
  <2>1. PICK g \in [a..j-1 -> X] : IsLoop(g, a, j - 1, x, s)
    BY <1>2
  <2>2. j - 1 \in a..j-1 /\ g[j - 1] \in X /\ <<j, g[j - 1]>> \in (a+1..b) \X X
    OBVIOUS
  <2> DEFINE y == s[<<j, g[j - 1]>>]
             h == [i \in a..j |-> IF i = j THEN y ELSE g[i]]
  <2>3. y \in X
    BY <2>2
  <2> HIDE DEF y
  <2>4. /\ h \in [a..j -> X] /\ h[j] = y
        /\ \A i \in a..j-1 : h[i] = g[i]
    <3>1. \A i \in a..j : i # j => i \in a..j-1
      OBVIOUS
    <3> QED
      BY <2>3, <3>1
  <2>5. h[a] = x
    <3>1. a \in a..j-1
      OBVIOUS
    <3> QED
      BY <2>1, <2>4, <3>1 DEF IsLoop
  <2>6. ASSUME NEW i \in a+1..j
        PROVE  h[i] = s[<<i, h[i - 1]>>]
    <3>1. i - 1 \in a..j-1 /\ h[i - 1] = g[i - 1]
      BY <2>4
    <3>2. CASE i = j
      BY <2>4, <3>1, <3>2 DEF y
    <3>3. CASE i # j
      <4>1. i \in a+1..j-1 /\ i \in a..j-1
        BY <3>3
      <4>2. g[i] = s[<<i, g[i - 1]>>]
        BY <2>1, <4>1 DEF IsLoop
      <4> QED
        BY <2>4, <3>1, <4>1, <4>2
    <3> QED
      BY <3>2, <3>3
  <2>7. IsLoop(h, a, j, x, s)
    BY <2>5, <2>6 DEF IsLoop
  <2>8. j \in Nat
    OBVIOUS
  <2> QED
    BY <2>4, <2>7, <2>8
<1>3. \A j \in a..b : j \in T
  <2> HIDE DEF T
  <2> QED
    BY <1>1, <1>2, EveryRound
<1>4. CASE a <= b
  <2>1. b \in a..b
    BY <1>4
  <2> QED
    BY <1>3, <2>1
<1>5. CASE ~ (a <= b)
  <2>1. [j \in a..b |-> x] \in [a..b -> X]
    OBVIOUS
  <2> QED
    BY <1>5, <2>1
<1> QED
  BY <1>4, <1>5

\* g takes the steps of s, one for each of the numbers to n.
IsRounds(g, n, x, s) ==
    g[0] = x /\ \A j \in 1..n : g[j] = s[<<j, g[j - 1]>>]

LEMMA RoundsExist ==
    ASSUME NEW n \in Nat, NEW X, NEW x \in X, NEW s \in [(1..n) \X X -> X]
    PROVE  \E g \in [0..n -> X] : IsRounds(g, n, x, s)
<1>1. 0 \in Nat /\ 0 + 1 = 1 /\ 0 <= n
  OBVIOUS
<1>2. \E g \in [0..n -> X] : 0 <= n => IsLoop(g, 0, n, x, s)
  BY <1>1, LoopExists
<1> QED
  BY <1>1, <1>2 DEF IsLoop, IsRounds

\* All sequences of a sequence, one behind the other, hold what any of them
\* holds.
IsFlattening(g, q) ==
    g = [i \in 1..Len(q) |-> IF i = 1 THEN q[i] ELSE g[i - 1] \o q[i]]

LEMMA FlattenLoop ==
    ASSUME NEW q
    PROVE  FlattenSeq(q) = IF Len(q) = 0 THEN q
                           ELSE (CHOOSE g : IsFlattening(g, q))[Len(q)]
  BY Zenon DEF FlattenSeq, IsFlattening

LEMMA FlatteningExists ==
    ASSUME NEW S, NEW q \in Seq(Seq(S)), Len(q) # 0
    PROVE  \E g : IsFlattening(g, q)
<1> DEFINE n == Len(q)
           X == Seq(S)
           s == [p \in (1+1..n) \X X |-> p[2] \o q[p[1]]]
<1>1. n \in Nat /\ 1 <= n /\ 1 \in Nat /\ q[1] \in X
  OBVIOUS
<1>2. \A j \in 1+1..n, w \in X : s[<<j, w>>] = w \o q[j]
  OBVIOUS
<1>3. s \in [(1+1..n) \X X -> X]
  <2>1. ASSUME NEW j \in 1+1..n, NEW w \in X
        PROVE  w \o q[j] \in X
    <3>1. j \in 1..n /\ q[j] \in X
      OBVIOUS
    <3> QED
      BY <3>1, ConcatProperties
  <2>2. \A p \in (1+1..n) \X X : p[1] \in 1+1..n /\ p[2] \in X
    OBVIOUS
  <2>3. \A p \in (1+1..n) \X X : p[2] \o q[p[1]] \in X
    BY <2>1, <2>2
  <2> HIDE DEF X
  <2> QED
    BY <2>3
<1> HIDE DEF s, X
<1>4. PICK g \in [1..n -> X] : IsLoop(g, 1, n, q[1], s)
  BY <1>1, <1>3, LoopExists
<1>5. ASSUME NEW j \in 1..n, j # 1
      PROVE  g[j] = g[j - 1] \o q[j]
  <2>1. j \in 1+1..n /\ j - 1 \in 1..n
    BY <1>1, <1>5
  <2> QED
    BY <1>2, <1>4, <2>1 DEF IsLoop
<1>6. g[1] = q[1]
  BY <1>4 DEF IsLoop
<1>7. \A j \in 1..n : g[j] = IF j = 1 THEN q[j] ELSE g[j - 1] \o q[j]
  BY <1>5, <1>6
<1>8. IsFlattening(g, q)
  BY <1>7 DEF IsFlattening
<1> QED
  BY <1>8

LEMMA FlattenProperties ==
    ASSUME NEW S, NEW q \in Seq(Seq(S))
    PROVE  /\ FlattenSeq(q) \in Seq(S)
           /\ \A x : On(FlattenSeq(q), x) <=> \E i \in DOMAIN q : On(q[i], x)
<1>1. CASE Len(q) = 0
  <2>1. q = <<>>
    BY <1>1, EmptySeq
  <2>2. FlattenSeq(q) = <<>>
    BY <1>1, <2>1, FlattenLoop
  <2>3. DOMAIN q = {} /\ q \in Seq(S)
    BY <1>1, <2>1, EmptySeq
  <2>4. FlattenSeq(q) = q
    BY <2>1, <2>2
  <2> QED
    BY <2>3, <2>4 DEF On
<1>2. CASE Len(q) # 0
  <2> DEFINE n == Len(q)
             g == CHOOSE h : IsFlattening(h, q)
             T == {j \in 1..n :
                      /\ g[j] \in Seq(S)
                      /\ \A x : On(g[j], x) <=> \E i \in 1..j : On(q[i], x)}
  <2>1. IsFlattening(g, q)
    BY <1>2, FlatteningExists
  <2>2. FlattenSeq(q) = g[n]
    BY <1>2, FlattenLoop
  <2> HIDE DEF g
  <2>3. n \in Nat /\ 1 <= n /\ \A j \in 1..n : q[j] \in Seq(S)
    BY <1>2
  <2>4. \A j \in 1..n : g[j] = IF j = 1 THEN q[j] ELSE g[j - 1] \o q[j]
    BY <2>1 DEF IsFlattening
  <2>5. 1 \in T
    <3>1. 1 \in 1..n /\ g[1] = q[1] /\ q[1] \in Seq(S)
      BY <2>3, <2>4
    <3>2. \A i : i \in 1..1 <=> i = 1
      OBVIOUS
    <3> QED
      BY <3>1, <3>2
  <2>6. ASSUME NEW j \in 1+1..n, j - 1 \in T
        PROVE  j \in T
    <3>1. j \in 1..n /\ j # 1
      BY <2>3
    <3>2. g[j] = g[j - 1] \o q[j] /\ q[j] \in Seq(S)
      BY <2>3, <2>4, <3>1
    <3>3. /\ g[j - 1] \in Seq(S)
          /\ \A x : On(g[j - 1], x) <=> \E i \in 1..j-1 : On(q[i], x)
      BY <2>6
    <3>4. g[j] \in Seq(S)
      BY <3>2, <3>3, ConcatProperties
    <3>5. ASSUME NEW x
          PROVE  On(g[j], x) <=> \E i \in 1..j : On(q[i], x)
      <4>1. On(g[j], x) <=> On(g[j - 1], x) \/ On(q[j], x)
        BY <3>2, <3>3, OnConcat
      <4>2. \A i : i \in 1..j <=> i \in 1..j-1 \/ i = j
        BY <3>1
      <4> QED
        BY <3>3, <4>1, <4>2
    <3> QED
      BY <3>1, <3>4, <3>5
  <2>7. n \in T
    <3>1. n \in 1..n
      BY <2>3
    <3> HIDE DEF T, n
    <3> QED
      BY <2>3, <2>5, <2>6, <3>1, EveryRound
  <2>8. DOMAIN q = 1..n
    OBVIOUS
  <2> QED
    BY <2>2, <2>7, <2>8
<1> QED
  BY <1>1, <1>2

==============================================================================
