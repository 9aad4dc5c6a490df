----------------------------- MODULE InputProofs -----------------------------
(***************************************************************************)
(* Proofs about TaskInput: for every set of bytes and every size of the    *)
(* buffer and of the pipe, no output is lost, held back or told twice.     *)
(***************************************************************************)
EXTENDS TaskInput, SequenceFacts

\* The three sequences of bytes that make up an output may be joined in any
\* order.
LEMMA BytesAssociative ==
    \A a, b, c \in Seq(Bytes) : (a \o b) \o c = a \o (b \o c)
<1> SUFFICES ASSUME NEW a \in Seq(Bytes), NEW b \in Seq(Bytes),
                    NEW c \in Seq(Bytes)
             PROVE  (a \o b) \o c = a \o (b \o c)
  OBVIOUS
<1>1. QED
  BY ConcatAssociative

LEMMA BytesJoined ==
    \A a, b \in Seq(Bytes) : a \o b \in Seq(Bytes)
OBVIOUS

(***************************************************************************)
(* Cutting a sequence in lines.                                            *)
(***************************************************************************)
LEMMA LinesLengthProperties ==
    ASSUME NEW S, NEW s \in Seq(S)
    PROVE  /\ LinesLength(s) \in 0..Len(s)
           /\ LinesLength(s) > 0 => s[LinesLength(s)] = Newline
           /\ \A i \in LinesLength(s) + 1..Len(s) : s[i] # Newline
<1> DEFINE T == {n \in 0..Len(s) : \A i \in n + 1..Len(s) : s[i] # Newline}
<1>1. T \in SUBSET Nat /\ Len(s) \in T
  OBVIOUS
<1>2. PICK m \in T : \A k \in T : m <= k
  <2> HIDE DEF T
  <2>1. QED
    BY <1>1, LeastNumber
<1>3. ASSUME m > 0
      PROVE  s[m] = Newline
  <2>1. m - 1 \notin T
    <3>1. ~ (m <= m - 1)
      BY <1>2, <1>3
    <3> HIDE DEF T
    <3>2. QED
      BY <1>2, <3>1
  <2>2. PICK i \in m - 1 + 1..Len(s) : s[i] = Newline
    <3>1. m - 1 \in 0..Len(s)
      BY <1>2, <1>3
    <3>2. QED
      BY <2>1, <3>1
  <2>3. i = m \/ i \in m + 1..Len(s)
    BY <1>2, <2>2
  <2>4. QED
    BY <1>2, <2>2, <2>3
<1>4. \E n \in 0..Len(s) : /\ n > 0 => s[n] = Newline
                           /\ \A i \in n + 1..Len(s) : s[i] # Newline
  BY <1>2, <1>3
<1>5. QED
  BY <1>4 DEF LinesLength

\* Without a NUL in it, the bytes read are the string.
LEMMA WholeString ==
    ASSUME Nul \notin Bytes, NEW s \in Seq(Bytes)
    PROVE  AsString(s) = s
<1> DEFINE P(n) == /\ n < Len(s) => s[n + 1] = Nul
                   /\ \A i \in 1..n : s[i] # Nul
<1>1. P(Len(s)) /\ Len(s) \in 0..Len(s)
  OBVIOUS
<1>2. \A n \in 0..Len(s) : P(n) => n = Len(s)
  OBVIOUS
<1>3. (CHOOSE n \in 0..Len(s) : P(n)) = Len(s)
  <2> HIDE DEF P
  <2>1. QED
    BY <1>1, <1>2
<1>4. QED
  BY <1>3, SubSeqFull DEF AsString

LEMMA StringType ==
    ASSUME NEW s \in Seq(Bytes)
    PROVE  AsString(s) \in Seq(Bytes)
<1> DEFINE P(n) == /\ n < Len(s) => s[n + 1] = Nul
                   /\ \A i \in 1..n : s[i] # Nul
           T == {n \in 0..Len(s) : n < Len(s) => s[n + 1] = Nul}
<1>1. T \in SUBSET Nat /\ Len(s) \in T
  OBVIOUS
<1>2. PICK m \in T : \A k \in T : m <= k
  <2> HIDE DEF T
  <2>1. QED
    BY <1>1, LeastNumber
<1>3. m \in 0..Len(s) /\ P(m)
  <2>1. ASSUME NEW i \in 1..m
        PROVE  s[i] # Nul
    <3>1. i - 1 \in 0..Len(s) /\ i - 1 < m
      BY <1>2
    <3>2. i - 1 \notin T
      BY <1>2, <3>1
    <3>3. QED
      BY <3>1, <3>2
  <2>2. QED
    BY <1>2, <2>1
<1> DEFINE c == CHOOSE n \in 0..Len(s) : P(n)
<1>4. c \in 0..Len(s)
  <2> HIDE DEF P
  <2>1. QED
    BY <1>3
<1>5. AsString(s) = SubSeq(s, 1, c)
  BY DEF AsString
<1>6. QED
  <2> HIDE DEF c
  <2>1. QED
    BY <1>4, <1>5

\* A sequence is cut in two, neither of which is lost.
LEMMA Cut ==
    ASSUME NEW S, NEW s \in Seq(S), NEW n \in 0..Len(s)
    PROVE  /\ SubSeq(s, 1, n) \in Seq(S)
           /\ SubSeq(s, n + 1, Len(s)) \in Seq(S)
           /\ Len(SubSeq(s, 1, n)) = n
           /\ Len(SubSeq(s, n + 1, Len(s))) = Len(s) - n
           /\ \A i \in 1..Len(s) - n : SubSeq(s, n + 1, Len(s))[i] = s[n + i]
           /\ SubSeq(s, 1, n) \o SubSeq(s, n + 1, Len(s)) = s
<1>1. SubSeq(s, 1, n) \in Seq(S) /\ SubSeq(s, n + 1, Len(s)) \in Seq(S)
  OBVIOUS
<1>2. Len(SubSeq(s, 1, n)) = n
  OBVIOUS
<1>3. Len(SubSeq(s, n + 1, Len(s))) = Len(s) - n
  OBVIOUS
<1>4. \A i \in 1..Len(s) - n : SubSeq(s, n + 1, Len(s))[i] = s[n + i]
  OBVIOUS
<1>5. SubSeq(s, 1, n) \o SubSeq(s, n + 1, Len(s)) = SubSeq(s, 1, Len(s))
  <2>1. 1 \in 1..Len(s) + 1 /\ n \in 1 - 1..Len(s) /\ Len(s) \in n..Len(s)
    OBVIOUS
  <2>2. QED
    BY <2>1, ConcatAdjacentSubSeq
<1>6. SubSeq(s, 1, Len(s)) = s
  BY SubSeqFull
<1>7. QED
  BY <1>1, <1>2, <1>3, <1>4, <1>5, <1>6

LEMMA PrefixAgrees ==
    ASSUME NEW S, NEW s \in Seq(S), NEW n \in 0..Len(s)
    PROVE  /\ SubSeq(s, 1, n) \in Seq(S)
           /\ Len(SubSeq(s, 1, n)) = n
           /\ \A i \in 1..n : SubSeq(s, 1, n)[i] = s[i]
<1>1. SubSeq(s, 1, n) \in Seq(S) /\ Len(SubSeq(s, 1, n)) = n
  BY Cut
<1>2. \A i \in 1..n : SubSeq(s, 1, n)[i] = s[i]
  OBVIOUS
<1>3. QED
  BY <1>1, <1>2

-----------------------------------------------------------------------------
(***************************************************************************)
(* task_linemode_input() and read().                                       *)
(***************************************************************************)
LEMMA LinemodeProperties ==
    ASSUME TypeOK, NEW s \in Seq(Bytes), task_linemode_input(s)
    PROVE  /\ told' \in Seq(Bytes) /\ linebuf' \in Seq(Bytes)
           /\ told' \o linebuf' = (told \o linebuf) \o AsString(s)
           /\ \E l \in Seq(Bytes) : told' = told \o l /\ Output!WholeLines(l)
           /\ LinesToldAtOnce'
<1> DEFINE line == linebuf \o AsString(s)
           n == LinesLength(line)
           a == SubSeq(line, 1, n)
           b == SubSeq(line, n + 1, Len(line))
<1>1. AsString(s) \in Seq(Bytes) /\ line \in Seq(Bytes)
  BY StringType DEF TypeOK
<1>2. told' = told \o a /\ linebuf' = b
  BY DEF task_linemode_input
<1>3. /\ n \in 0..Len(line)
      /\ n > 0 => line[n] = Newline
      /\ \A i \in n + 1..Len(line) : line[i] # Newline
  <2> HIDE DEF line
  <2>1. QED
    BY <1>1, LinesLengthProperties
<1>4. /\ a \in Seq(Bytes) /\ b \in Seq(Bytes)
      /\ Len(b) = Len(line) - n
      /\ \A i \in 1..Len(line) - n : b[i] = line[n + i]
      /\ a \o b = line
  <2> HIDE DEF line, n
  <2>1. line \in Seq(Bytes) /\ n \in 0..Len(line)
    BY <1>1, <1>3
  <2>2. QED
    BY <2>1, Cut
<1>5. LinesToldAtOnce'
  <2> SUFFICES ASSUME NEW i \in DOMAIN linebuf'
               PROVE  linebuf'[i] # Newline
    BY DEF LinesToldAtOnce
  <2> HIDE DEF line, n, a, b
  <2>1. i \in 1..Len(line) - n
    BY <1>1, <1>2, <1>3, <1>4
  <2>2. n + i \in n + 1..Len(line)
    BY <1>1, <1>3, <2>1
  <2>3. QED
    BY <1>2, <1>3, <1>4, <2>1, <2>2
<1>6. told' \o linebuf' = (told \o linebuf) \o AsString(s)
  <2> HIDE DEF a, b
  <2>1. (told \o a) \o b = told \o (a \o b)
    <3>1. told \in Seq(Bytes) /\ a \in Seq(Bytes) /\ b \in Seq(Bytes)
      BY <1>4 DEF TypeOK
    <3>2. QED
      BY <3>1, BytesAssociative
  <2>2. told \o (linebuf \o AsString(s)) = (told \o linebuf) \o AsString(s)
    <3>1. /\ told \in Seq(Bytes) /\ linebuf \in Seq(Bytes)
          /\ AsString(s) \in Seq(Bytes)
      BY <1>1 DEF TypeOK
    <3>2. QED
      BY <3>1, BytesAssociative
  <2>3. QED
    BY <1>2, <1>4, <2>1, <2>2
<1>7. told' \in Seq(Bytes) /\ linebuf' \in Seq(Bytes)
  <2> HIDE DEF a, b
  <2>1. QED
    BY <1>2, <1>4 DEF TypeOK
<1>8. Output!WholeLines(a)
  <2>1. Len(a) = n /\ \A i \in 1..n : a[i] = line[i]
    <3> HIDE DEF line, n
    <3>1. QED
      BY <1>1, <1>3, PrefixAgrees
  <2> HIDE DEF line, n, a
  <2>2. CASE n = 0
    BY <1>4, <2>1, <2>2, EmptySeq DEF Output!WholeLines
  <2>3. CASE n > 0
    <3>1. a[Len(a)] = Newline
      BY <1>3, <2>1, <2>3
    <3>2. QED
      BY <3>1 DEF Output!WholeLines, Output!Last
  <2>4. QED
    BY <1>3, <2>2, <2>3
<1>9. QED
  BY <1>2, <1>4, <1>5, <1>6, <1>7, <1>8

\* What a read() takes off the pipe.
LEMMA ReadProperties ==
    ASSUME TypeOK, ReadsWhatIsThere, Read
    PROVE  \E c \in Seq(Bytes) :
              /\ nremain' \in Nat
              /\ nremain = Len(c) + nremain'
              /\ pipe' \in Seq(Bytes)
              /\ Len(pipe) = Len(c) + Len(pipe')
              /\ pipe = c \o pipe'
              /\ task_linemode_input(c)
<1> DEFINE n == IF nremain < BufSize THEN nremain ELSE BufSize
<1>1. n \in 0..Len(pipe) /\ n <= nremain
  BY InputAssumption DEF TypeOK, ReadsWhatIsThere
<1>2. /\ nremain' = nremain - n
      /\ pipe' = SubSeq(pipe, n + 1, Len(pipe))
      /\ task_linemode_input(SubSeq(pipe, 1, n))
  BY DEF Read
<1> HIDE DEF n
<1>3. /\ SubSeq(pipe, 1, n) \in Seq(Bytes)
      /\ Len(SubSeq(pipe, 1, n)) = n
      /\ pipe' \in Seq(Bytes)
      /\ Len(pipe') = Len(pipe) - n
      /\ SubSeq(pipe, 1, n) \o pipe' = pipe
  BY <1>1, <1>2, Cut DEF TypeOK
<1>4. nremain' \in Nat /\ nremain = n + nremain' /\ Len(pipe) = n + Len(pipe')
  BY <1>1, <1>2, <1>3 DEF TypeOK
<1>5. QED
  BY <1>2, <1>3, <1>4

-----------------------------------------------------------------------------
(***************************************************************************)
(* Types, and what a read may ask for.                                     *)
(***************************************************************************)
LEMMA InputStepType ==
    ASSUME TypeOK, ReadsWhatIsThere, [Next]_vars
    PROVE  TypeOK' /\ ReadsWhatIsThere'
<1> USE DEF TypeOK, ReadsWhatIsThere
<1>1. ASSUME NEW w \in Writers, NEW b \in Bytes, Write(w, b)
      PROVE  TypeOK' /\ ReadsWhatIsThere'
  <2>1. pipe' \in Seq(Bytes) /\ text' \in Seq(Bytes)
    BY <1>1 DEF Write
  <2>2. Len(pipe') = Len(pipe) + 1
    BY <1>1 DEF Write
  <2>3. QED
    BY <1>1, <2>1, <2>2 DEF Write
<1>2. CASE Background \/ CommandEnds \/ DescendantEnds
  <2>1. writers' \subseteq Writers
    BY <1>2 DEF Background, CommandEnds, DescendantEnds, Writers
  <2>2. own' \in Nat /\ status' \in {"running", "ended", "reaped"}
    BY <1>2 DEF Background, CommandEnds, DescendantEnds
  <2>3. UNCHANGED <<fd, pipe, linebuf, nremain, pc, text, told>>
    BY <1>2 DEF Background, CommandEnds, DescendantEnds
  <2>4. QED
    BY <2>1, <2>2, <2>3
<1>3. CASE InputReady \/ Reap
  BY <1>3 DEF InputReady, Reap
<1>4. CASE Read
  <2>1. PICK c \in Seq(Bytes) :
              /\ nremain' \in Nat
              /\ nremain = Len(c) + nremain'
              /\ pipe' \in Seq(Bytes)
              /\ Len(pipe) = Len(c) + Len(pipe')
              /\ task_linemode_input(c)
    BY <1>4, ReadProperties
  <2>2. told' \in Seq(Bytes) /\ linebuf' \in Seq(Bytes)
    BY <2>1, LinemodeProperties
  <2>3. nremain' <= Len(pipe')
    BY <2>1
  <2>4. QED
    BY <1>4, <2>1, <2>2, <2>3 DEF Read
<1>5. CASE EndInput
  BY <1>5 DEF EndInput
<1>6. CASE EndReap
  <2>1. told' \in Seq(Bytes)
    BY <1>6 DEF EndReap
  <2>2. QED
    BY <1>6, <2>1, InputAssumption DEF EndReap
<1>7. CASE EndRun
  BY <1>7 DEF EndRun
<1>8. CASE UNCHANGED vars
  BY <1>8 DEF vars
<1>9. QED
  BY <1>1, <1>2, <1>3, <1>4, <1>5, <1>6, <1>7, <1>8
  DEF Next, Program, Input, Processes

LEMMA InputInitType == Init => TypeOK /\ ReadsWhatIsThere
  BY EmptySeq DEF Init, TypeOK, ReadsWhatIsThere, Writers

\* Every variable of the input side keeps to its type.  (task_input_func)
THEOREM InputTypeCorrect == Spec => []TypeOK
  BY InputInitType, InputStepType, PTL DEF Spec

\* Whatever the writers and the reaper do in the meantime, read() is never
\* asked for more than is in the pipe.  (task_input_func)
THEOREM ReadsBounded == Spec => []ReadsWhatIsThere
  BY InputInitType, InputStepType, PTL DEF Spec

-----------------------------------------------------------------------------
(***************************************************************************)
(* Lines are told at once.                                                 *)
(***************************************************************************)
\* However the output is cut into pieces by read(), a line that is whole is
\* told and never kept.  (task_linemode_input)
THEOREM LinesTold == Spec => []LinesToldAtOnce
<1>1. Init => LinesToldAtOnce
  BY DEF Init, LinesToldAtOnce
<1>2. TypeOK /\ ReadsWhatIsThere /\ LinesToldAtOnce /\ [Next]_vars
        => LinesToldAtOnce'
  <2> SUFFICES ASSUME TypeOK, ReadsWhatIsThere, LinesToldAtOnce, [Next]_vars
               PROVE  LinesToldAtOnce'
    OBVIOUS
  <2>1. CASE Read
    <3>1. PICK c \in Seq(Bytes) : task_linemode_input(c)
      BY <2>1, ReadProperties
    <3>2. QED
      BY <3>1, LinemodeProperties
  <2>2. CASE ~ Read
    <3>1. UNCHANGED linebuf
      BY <2>2
      DEF Next, Program, Input, Processes, Write, Background, CommandEnds,
          DescendantEnds, InputReady, EndInput, Reap, EndReap, EndRun, vars
    <3>2. QED
      BY <3>1 DEF LinesToldAtOnce
  <2>3. QED
    BY <2>1, <2>2
<1>3. QED
  BY <1>1, <1>2, InputTypeCorrect, ReadsBounded, PTL DEF Spec

-----------------------------------------------------------------------------
(***************************************************************************)
(* Nothing is lost.                                                        *)
(***************************************************************************)
LEMMA StepNothingLost ==
    ASSUME Nul \notin Bytes,
           TypeOK, ReadsWhatIsThere, NothingLost, [Next]_vars
    PROVE  NothingLost'
<1> SUFFICES ASSUME status' # "reaped"
             PROVE  text' = told' \o linebuf' \o pipe'
  BY DEF NothingLost
<1>1. ASSUME NEW w \in Writers, NEW b \in Bytes, Write(w, b)
      PROVE  text' = told' \o linebuf' \o pipe'
  <2>1. text = (told \o linebuf) \o pipe
    BY <1>1 DEF Write, NothingLost
  <2>2. /\ text' = text \o <<b>> /\ pipe' = pipe \o <<b>>
        /\ told' = told /\ linebuf' = linebuf
    BY <1>1, AppendIsConcat DEF Write, TypeOK
  <2>3. /\ told \o linebuf \in Seq(Bytes)
        /\ pipe \in Seq(Bytes)
        /\ <<b>> \in Seq(Bytes)
    BY BytesJoined DEF TypeOK
  <2>4. ((told \o linebuf) \o pipe) \o <<b>> = (told \o linebuf) \o (pipe \o <<b>>)
    BY <2>3, BytesAssociative
  <2>5. QED
    BY <2>1, <2>2, <2>4
<1>2. CASE Read
  <2>1. PICK c \in Seq(Bytes) :
              /\ pipe' \in Seq(Bytes)
              /\ pipe = c \o pipe'
              /\ task_linemode_input(c)
    BY <1>2, ReadProperties
  <2>2. told' \o linebuf' = (told \o linebuf) \o c
    <3>1. AsString(c) = c
      BY WholeString
    <3>2. told' \o linebuf' = (told \o linebuf) \o AsString(c)
      BY <2>1, LinemodeProperties
    <3>3. QED
      BY <3>1, <3>2
  <2>3. text' = (told \o linebuf) \o (c \o pipe')
    BY <1>2, <2>1 DEF Read, NothingLost
  <2>4. told \o linebuf \in Seq(Bytes)
    BY BytesJoined DEF TypeOK
  <2>5. ((told \o linebuf) \o c) \o pipe' = (told \o linebuf) \o (c \o pipe')
    <3>1. pipe' \in Seq(Bytes)
      BY <2>1
    <3>2. QED
      BY <2>4, <3>1, BytesAssociative
  <2>6. QED
    BY <2>2, <2>3, <2>5
<1>3. CASE EndReap
  BY <1>3 DEF EndReap
<1>4. CASE /\ UNCHANGED <<text, told, linebuf, pipe>>
           /\ status' = status \/ status = "running"
  BY <1>4 DEF NothingLost
<1>5. QED
  BY <1>1, <1>2, <1>3, <1>4
  DEF Next, Program, Input, Processes, Background, CommandEnds,
      DescendantEnds, InputReady, EndInput, Reap, EndRun, vars

\* As long as commands write no NUL, each byte of their output is in exactly
\* one place until they are reaped, in the order it was written in.
\* (task_input_func, task_linemode_input)
THEOREM NothingIsLost ==
    ASSUME Nul \notin Bytes
    PROVE  Spec => []NothingLost
<1>1. Init => NothingLost
  <2>1. <<>> \in Seq(Bytes)
    BY EmptySeq
  <2>2. <<>> = <<>> \o <<>> \o <<>>
    BY <2>1, ConcatEmptySeq
  <2>3. QED
    BY <2>2 DEF Init, NothingLost
<1>2. TypeOK /\ ReadsWhatIsThere /\ NothingLost /\ [Next]_vars
        => NothingLost'
  BY StepNothingLost
<1>3. QED
  BY <1>1, <1>2, InputTypeCorrect, ReadsBounded, PTL DEF Spec

-----------------------------------------------------------------------------
(***************************************************************************)
(* The end of the command.                                                 *)
(***************************************************************************)
\* s and r agree up to n.
Agree(s, r, n) == \A i \in 1..n : s[i] = r[i]

\* While the reap function reads, what it has still to read makes up for what
\* the command wrote and was not told.
EndInv ==
    /\ own <= Len(text)
    /\ pc = "reap" => /\ status = "ended"
                      /\ own <= Len(told) + Len(linebuf) + nremain
    /\ status = "reaped" => own <= Len(told) /\ Agree(told, text, own)

LEMMA ConcatLengths ==
    ASSUME NEW S, NEW a \in Seq(S), NEW b \in Seq(S), NEW c \in Seq(S)
    PROVE  /\ Len(a \o b) = Len(a) + Len(b)
           /\ Len(a \o b \o c) = Len(a) + Len(b) + Len(c)
           /\ \A i \in 1..Len(a) : (a \o b)[i] = a[i]
           /\ \A i \in 1..Len(a) + Len(b) : (a \o b \o c)[i] = (a \o b)[i]
<1>1. a \o b \in Seq(S) /\ Len(a \o b) = Len(a) + Len(b)
  OBVIOUS
<1>2. \A i \in 1..Len(a) : (a \o b)[i] = a[i]
  OBVIOUS
<1> DEFINE d == a \o b
<1> HIDE DEF d
<1>3. d \in Seq(S) /\ Len(d) = Len(a) + Len(b)
  BY <1>1 DEF d
<1>4. /\ Len(d \o c) = Len(d) + Len(c)
      /\ \A i \in 1..Len(d) : (d \o c)[i] = d[i]
  <2>1. d \in Seq(S)
    BY <1>3
  <2>2. Len(d \o c) = Len(d) + Len(c)
    BY <2>1
  <2>3. \A i \in 1..Len(d) : (d \o c)[i] = d[i]
    BY <2>1
  <2>4. QED
    BY <2>2, <2>3
<1>5. Len(d \o c) = Len(a) + Len(b) + Len(c)
  BY <1>3, <1>4
<1>6. \A i \in 1..Len(a) + Len(b) : (d \o c)[i] = d[i]
  BY <1>3, <1>4
<1>7. QED
  BY <1>1, <1>2, <1>5, <1>6 DEF d

LEMMA StepEndInv ==
    ASSUME Nul \notin Bytes,
           TypeOK, ReadsWhatIsThere, NothingLost, EndInv, [Next]_vars
    PROVE  EndInv'
<1> USE DEF EndInv
<1>1. ASSUME NEW w \in Writers, NEW b \in Bytes, Write(w, b)
      PROVE  EndInv'
  <2>1. /\ Len(text') = Len(text) + 1
        /\ \A i \in 1..Len(text) : text'[i] = text[i]
    BY <1>1 DEF Write, TypeOK
  <2>2. UNCHANGED <<own, told, linebuf, nremain, pc, status>>
    BY <1>1 DEF Write
  <2>3. own' <= Len(text')
    BY <2>1, <2>2 DEF TypeOK
  <2>4. ASSUME status = "reaped", NEW i \in 1..own
        PROVE  told[i] = text'[i]
    <3>1. i \in 1..Len(text)
      BY DEF TypeOK
    <3>2. QED
      BY <2>1, <2>4, <3>1 DEF Agree
  <2>5. QED
    BY <2>2, <2>3, <2>4 DEF Agree
<1>2. CASE CommandEnds
  <2>1. status = "running" /\ pc # "reap"
    BY <1>2 DEF CommandEnds
  <2>2. own' = Len(text') /\ status' # "reaped" /\ pc' # "reap"
    BY <1>2, <2>1 DEF CommandEnds
  <2>3. QED
    BY <2>2 DEF TypeOK
<1>3. CASE Reap
  <2>1. status = "ended" /\ nremain' = Len(pipe)
    BY <1>3 DEF Reap
  <2>2. Len(text) = Len(told) + Len(linebuf) + Len(pipe)
    BY <2>1, ConcatLengths DEF NothingLost, TypeOK
  <2>3. QED
    BY <1>3, <2>1, <2>2 DEF Reap
<1>4. CASE Read
  <2>1. PICK c \in Seq(Bytes) :
              /\ nremain' \in Nat
              /\ nremain = Len(c) + nremain'
              /\ task_linemode_input(c)
    BY <1>4, ReadProperties
  <2>2. /\ told' \in Seq(Bytes) /\ linebuf' \in Seq(Bytes)
        /\ told' \o linebuf' = (told \o linebuf) \o AsString(c)
    BY <2>1, LinemodeProperties
  <2>3. PICK l \in Seq(Bytes) : told' = told \o l
    BY <2>1, LinemodeProperties
  <2>4. AsString(c) = c
    BY WholeString
  <2>5. Len(told' \o linebuf') = Len(told') + Len(linebuf')
    BY <2>2, ConcatLengths
  <2>6. Len((told \o linebuf) \o c) = Len(told) + Len(linebuf) + Len(c)
    BY ConcatLengths DEF TypeOK
  <2>7. Len(told') + Len(linebuf') = Len(told) + Len(linebuf) + Len(c)
    BY <2>2, <2>4, <2>5, <2>6
  <2>8. UNCHANGED <<own, text, pc, status>>
    BY <1>4 DEF Read
  <2>9. ASSUME pc = "reap"
        PROVE  own <= Len(told') + Len(linebuf') + nremain'
    <3>1. own <= Len(told) + Len(linebuf) + nremain
      BY <2>9
    <3>2. /\ own \in Nat /\ Len(told) \in Nat /\ Len(linebuf) \in Nat
          /\ Len(told') \in Nat /\ Len(linebuf') \in Nat /\ Len(c) \in Nat
      BY <2>2 DEF TypeOK
    <3>3. QED
      BY <2>1, <2>7, <3>1, <3>2
  <2>10. ASSUME status = "reaped"
         PROVE  own <= Len(told') /\ Agree(told', text, own)
    <3>1. Len(told') = Len(told) + Len(l)
      BY <2>3 DEF TypeOK
    <3>2. \A i \in 1..Len(told) : told'[i] = told[i]
      BY <2>3 DEF TypeOK
    <3>3. own <= Len(told) /\ Agree(told, text, own)
      BY <2>10
    <3>4. own <= Len(told')
      BY <3>1, <3>3 DEF TypeOK
    <3>5. QED
      BY <3>2, <3>3, <3>4 DEF Agree, TypeOK
  <2>11. QED
    BY <2>8, <2>9, <2>10
<1>5. CASE EndReap
  <2>1. /\ status = "ended"
        /\ own <= Len(told) + Len(linebuf)
        /\ told' = told \o linebuf
    BY <1>5 DEF EndReap, TypeOK
  <2>2. text = told \o linebuf \o pipe
    BY <2>1 DEF NothingLost
  <2>3. Len(told') = Len(told) + Len(linebuf)
    BY <2>1, ConcatLengths DEF TypeOK
  <2>4. \A i \in 1..Len(told) + Len(linebuf) : text[i] = told'[i]
    BY <2>1, <2>2, ConcatLengths DEF TypeOK
  <2>5. own <= Len(told') /\ Agree(told', text, own)
    BY <2>1, <2>3, <2>4 DEF Agree, TypeOK
  <2>6. QED
    BY <1>5, <2>5 DEF EndReap
<1>6. CASE EndInput \/ InputReady
  <2>1. pc' # "reap" /\ UNCHANGED <<own, text, told, status>>
    BY <1>6 DEF EndInput, InputReady
  <2>2. QED
    BY <2>1
<1>7. CASE Background \/ DescendantEnds \/ EndRun \/ UNCHANGED vars
  <2>1. UNCHANGED <<own, text, told, status, pc, linebuf, nremain>>
    BY <1>7 DEF Background, DescendantEnds, EndRun, vars
  <2>2. QED
    BY <2>1
<1>8. QED
  BY <1>1, <1>2, <1>3, <1>4, <1>5, <1>6, <1>7
  DEF Next, Program, Input, Processes

\* As long as commands write no NUL, all that a command wrote before its end,
\* whole lines or not, was told when its reap operation is called.
\* (task_reap_func)
THEOREM CommandTold ==
    ASSUME Nul \notin Bytes
    PROVE  Spec => []CommandToldInFull
<1>1. Init => EndInv
  BY EmptySeq DEF Init, EndInv
<1>2. TypeOK /\ ReadsWhatIsThere /\ NothingLost /\ EndInv /\ [Next]_vars
        => EndInv'
  BY StepEndInv
<1>3. TypeOK /\ EndInv => CommandToldInFull
  <2> SUFFICES ASSUME TypeOK, EndInv, status = "reaped"
               PROVE  IsPrefix(SubSeq(text, 1, own), told)
    BY DEF CommandToldInFull
  <2>1. own \in 0..Len(text) /\ own \in 0..Len(told) /\ Agree(told, text, own)
    BY DEF EndInv, TypeOK
  <2> DEFINE s == SubSeq(text, 1, own)
             r == SubSeq(told, 1, own)
  <2>2. /\ s \in Seq(Bytes) /\ Len(s) = own
        /\ \A i \in 1..own : s[i] = text[i]
    BY <2>1, PrefixAgrees DEF TypeOK
  <2>3. /\ r \in Seq(Bytes) /\ Len(r) = own
        /\ \A i \in 1..own : r[i] = told[i]
    BY <2>1, PrefixAgrees DEF TypeOK
  <2> HIDE DEF s, r
  <2>4. \A i \in 1..own : s[i] = r[i]
    BY <2>1, <2>2, <2>3 DEF Agree
  <2>5. s = r
    BY <2>2, <2>3, <2>4, SeqEqual
  <2>6. SubSeq(s, 1, Len(s)) = s
    BY <2>2, SubSeqFull
  <2>7. Len(s) <= Len(told) /\ SubSeq(s, 1, Len(s)) = SubSeq(told, 1, Len(s))
    BY <2>1, <2>2, <2>5, <2>6 DEF r, TypeOK
  <2>8. QED
    BY <2>7 DEF IsPrefix, s
<1>4. QED
  BY <1>1, <1>2, <1>3, InputTypeCorrect, ReadsBounded, NothingIsLost, PTL
  DEF Spec

-----------------------------------------------------------------------------
(***************************************************************************)
(* The promises of maketool_task.h.                                        *)
(***************************************************************************)
\* Lines are told in whole until the reap operation, which frees a Task that is
\* not held.
LineInv ==
    IF status = "reaped"
    THEN Held \/ (~ fd /\ nremain = 0)
    ELSE Output!WholeLines(told)

LEMMA WholeLinesConcat ==
    ASSUME NEW a \in Seq(Bytes), NEW b \in Seq(Bytes),
           Output!WholeLines(a), Output!WholeLines(b)
    PROVE  Output!WholeLines(a \o b)
<1>1. CASE b = <<>>
  <2>1. a \o b = a
    BY <1>1, ConcatEmptySeq
  <2>2. QED
    BY <2>1
<1>2. CASE b # <<>>
  <2>1. b[Len(b)] = Newline
    BY <1>2 DEF Output!WholeLines, Output!Last
  <2>2. Len(b) > 0 /\ Len(a \o b) = Len(a) + Len(b)
    BY <1>2, EmptySeq
  <2>3. (a \o b)[Len(a) + Len(b)] = b[Len(b)]
    BY <2>2
  <2>4. QED
    BY <2>1, <2>2, <2>3 DEF Output!WholeLines, Output!Last
<1>3. QED
  BY <1>1, <1>2

LEMMA PrefixOfConcat ==
    ASSUME NEW S, NEW a \in Seq(S), NEW b \in Seq(S)
    PROVE  IsPrefix(a, a \o b)
<1>1. /\ a \o b \in Seq(S)
      /\ Len(a \o b) = Len(a) + Len(b)
      /\ \A i \in 1..Len(a) : (a \o b)[i] = a[i]
  OBVIOUS
<1> DEFINE d == a \o b
<1>2. Len(a) \in 0..Len(d)
  BY <1>1
<1> HIDE DEF d
<1>3. d \in Seq(S) /\ Len(a) <= Len(d) /\ \A i \in 1..Len(a) : d[i] = a[i]
  BY <1>1, <1>2 DEF d
<1> DEFINE r == SubSeq(d, 1, Len(a))
<1>4. /\ r \in Seq(S) /\ Len(r) = Len(a)
      /\ \A i \in 1..Len(a) : r[i] = d[i]
  BY <1>2, <1>3, PrefixAgrees
<1> HIDE DEF r
<1>5. r = a
  BY <1>3, <1>4, SeqEqual
<1>6. SubSeq(a, 1, Len(a)) = a
  BY SubSeqFull
<1>7. QED
  BY <1>3, <1>5, <1>6 DEF IsPrefix, d, r

\* What a read() tells.
LEMMA ReadTells ==
    ASSUME TypeOK, ReadsWhatIsThere, LineInv, Read
    PROVE  /\ status = "reaped" => Held
           /\ IsPrefix(told, told')
           /\ status # "reaped" => Output!WholeLines(told')
<1>1. status = "reaped" => Held
  BY DEF LineInv, Read
<1>2. PICK c \in Seq(Bytes) : task_linemode_input(c)
  BY ReadProperties
<1>3. PICK l \in Seq(Bytes) : told' = told \o l /\ Output!WholeLines(l)
  BY <1>2, LinemodeProperties
<1>4. IsPrefix(told, told')
  BY <1>3, PrefixOfConcat DEF TypeOK
<1>5. status # "reaped" => Output!WholeLines(told')
  BY <1>3, WholeLinesConcat DEF LineInv, TypeOK
<1>6. QED
  BY <1>1, <1>4, <1>5

LEMMA StepLineInv ==
    ASSUME TypeOK, ReadsWhatIsThere, LineInv, [Next]_vars
    PROVE  LineInv'
<1>1. CASE Read
  BY <1>1, ReadTells DEF LineInv, Read
<1>2. CASE EndReap
  BY <1>2 DEF LineInv, EndReap
<1>3. CASE Reap \/ InputReady
  BY <1>3 DEF LineInv, Reap, InputReady
<1>4. CASE CommandEnds
  BY <1>4 DEF LineInv, CommandEnds
<1>5. CASE EndRun
  BY <1>5 DEF LineInv, EndRun
<1>6. CASE UNCHANGED <<fd, nremain, status, told>>
  BY <1>6 DEF LineInv, Output!WholeLines
<1>7. QED
  BY <1>1, <1>2, <1>3, <1>4, <1>5, <1>6
  DEF Next, Program, Input, Processes, Write, Background, DescendantEnds,
      EndInput, vars

\* Each step is one that maketool_task.h allows, or none it knows of.
LEMMA StepImplements ==
    ASSUME TypeOK, ReadsWhatIsThere, LineInv, EndInv, EndInv',
           NothingLost, NothingLost', TypeOK', [Next]_vars
    PROVE  [Output!OutputNext]_<<text, told, own, status>>
<1> USE DEF Output!OutputNext
<1>1. ASSUME NEW w \in Writers, NEW b \in Bytes, Write(w, b)
      PROVE  Output!Emit
  BY <1>1 DEF Write, Output!Emit
<1>2. CASE CommandEnds
  BY <1>2 DEF CommandEnds, Output!End
<1>3. CASE Read
  <2>1. /\ status = "reaped" => Held
        /\ IsPrefix(told, told')
        /\ status # "reaped" => Output!WholeLines(told')
    BY <1>3, ReadTells
  <2>2. UNCHANGED <<text, own, status>>
    BY <1>3 DEF Read
  <2>3. ASSUME status # "reaped"
        PROVE  IsPrefix(told', text)
    <3>1. text' = (told' \o linebuf') \o pipe'
      BY <2>2, <2>3 DEF NothingLost
    <3>2. /\ told' \in Seq(Bytes) /\ linebuf' \in Seq(Bytes)
          /\ pipe' \in Seq(Bytes)
      BY DEF TypeOK
    <3>3. text' = told' \o (linebuf' \o pipe') /\ linebuf' \o pipe' \in Seq(Bytes)
      BY <3>1, <3>2, BytesAssociative
    <3>4. IsPrefix(told', told' \o (linebuf' \o pipe'))
      BY <3>2, <3>3, PrefixOfConcat
    <3>5. QED
      BY <2>2, <3>3, <3>4
  <2>4. status # "reaped" => Output!Tell
    BY <2>1, <2>2, <2>3 DEF Output!Tell, Output!IsPrefix, IsPrefix
  <2>5. status = "reaped" => Output!Late
    BY <2>1, <2>2 DEF Output!Late, Output!IsPrefix, IsPrefix
  <2>6. QED
    BY <2>4, <2>5
<1>4. CASE EndReap
  <2>1. /\ status = "ended" /\ status' = "reaped"
        /\ UNCHANGED <<text, own>>
        /\ told' = told \o linebuf
    BY <1>4 DEF EndReap, EndInv
  <2>2. IsPrefix(told, told')
    BY <2>1, PrefixOfConcat DEF TypeOK
  <2>3. IsPrefix(told', text)
    <3>1. text = told' \o pipe
      BY <2>1 DEF NothingLost
    <3>2. told' \in Seq(Bytes) /\ pipe \in Seq(Bytes)
      BY DEF TypeOK
    <3>3. IsPrefix(told', told' \o pipe)
      BY <3>2, PrefixOfConcat
    <3>4. QED
      BY <3>1, <3>3
  <2>4. Len(told') >= own
    BY <2>1 DEF EndInv, TypeOK
  <2>5. Output!Reap
    BY <2>1, <2>2, <2>3, <2>4 DEF Output!Reap, Output!IsPrefix, IsPrefix
  <2>6. QED
    BY <2>5
<1>5. CASE UNCHANGED <<text, told, own, status>>
  BY <1>5
<1>6. QED
  BY <1>1, <1>2, <1>3, <1>4, <1>5
  DEF Next, Program, Input, Processes, Background, DescendantEnds,
      InputReady, EndInput, Reap, EndRun, vars

\* A Task keeps the promises of maketool_task.h, whatever background processes
\* its command leaves behind: lines, in order, each once, all that the command
\* wrote before the reap operation, and nothing afterwards unless it is held.
\* (task_input_func, task_linemode_input, task_reap_func)
THEOREM OutputImplemented ==
    ASSUME Nul \notin Bytes
    PROVE  Spec => ImplementsOutput
<1>1. Init => EndInv /\ LineInv /\ Output!OutputInit
  BY EmptySeq DEF Init, EndInv, LineInv, Output!WholeLines, Output!OutputInit
<1>2. TypeOK /\ ReadsWhatIsThere /\ NothingLost /\ EndInv /\ [Next]_vars
        => EndInv'
  BY StepEndInv
<1>3. TypeOK /\ ReadsWhatIsThere /\ LineInv /\ [Next]_vars => LineInv'
  BY StepLineInv
<1>4. TypeOK /\ ReadsWhatIsThere /\ LineInv /\ EndInv /\ EndInv' /\ NothingLost
        /\ NothingLost' /\ TypeOK' /\ [Next]_vars
        => [Output!OutputNext]_<<text, told, own, status>>
  BY StepImplements
<1>5. QED
  BY <1>1, <1>2, <1>3, <1>4, InputTypeCorrect, ReadsBounded, NothingIsLost, PTL
  DEF Spec, ImplementsOutput, Output!OutputSpec, Output!outputVars
=============================================================================
