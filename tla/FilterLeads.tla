----------------------------- MODULE FilterLeads -----------------------------
(***************************************************************************)
(* filter.c tries on a line only the filters whose regular expression can  *)
(* match a line that starts like it: filter_calc_leads() works out, once   *)
(* for each expression, the characters such lines start with.  It does not *)
(* parse the expression but skims over its beginning.                      *)
(*                                                                         *)
(* An expression here is what the skimming tells apart: whether it is      *)
(* anchored at the end, and its pieces.  A piece is a sequence of branches *)
(* (one for an item that stands alone) and how often it occurs; a branch   *)
(* is a sequence of items, each a set of characters, perhaps complemented, *)
(* and how often it occurs.  An expression that is not anchored at the     *)
(* beginning suits every line.                                             *)
(***************************************************************************)
EXTENDS Integers, SequencesExt

CONSTANTS
    Chars,              \* the characters of lines
    High,               \* those that are negative as a char: the bytes from 0x80
                        \* up where char is signed, none where it is not
    End,                \* the NUL that an empty line starts with, not in Chars
    MaxLine             \* the longest line

Leads == Chars \cup {End}

Occurrences == {"once", "?", "*", "+"}
Items == [not : BOOLEAN, set : SUBSET Chars, occurs : Occurrences]
Alternatives == [items : Seq(Items) \ {<<>>}]
RegexpPieces == [branches : Seq(Alternatives), occurs : Occurrences]
Expressions == [pieces : Seq(RegexpPieces), dollar : BOOLEAN]

-------------------------------------------------------------------------------
(* The algorithm.                                                          *)

\* A complemented set overwrites what came before.
Start(suitable, item) ==
    IF item.not THEN Leads \ item.set ELSE suitable \cup item.set

\* Mutant: the branches after the first are not looked at.
MutBranches(suitable, piece) == Start(suitable, Head(piece.branches[1].items))

\* Only the first item of each branch is looked at.
Branches(suitable, piece) ==
    LET after[j \in 0 .. Len(piece.branches)] ==
            IF j = 0 THEN suitable
            ELSE Start(after[j - 1], Head(piece.branches[j].items))
    IN  after[Len(piece.branches)]

\* The pieces that are looked at: a piece that may be missing, but only one
\* marked with a star, lets the next be seen.
Seen(regexp) ==
    {i \in DOMAIN regexp.pieces :
        \A k \in 1 .. i - 1 : regexp.pieces[k].occurs = "*"}

\* Past the last piece the terminating NUL is taken for a literal.
filter_calc_leads(regexp) ==
    LET after[i \in 0 .. Len(regexp.pieces)] ==
            IF i = 0 THEN {}
            ELSE IF i \in Seen(regexp) THEN Branches(after[i - 1], regexp.pieces[i])
            ELSE after[i - 1]
        suitable == after[Len(regexp.pieces)]
    IN  IF /\ \A i \in DOMAIN regexp.pieces : regexp.pieces[i].occurs = "*"
           /\ regexp.dollar => regexp.pieces = <<>>
        THEN suitable \cup {End} ELSE suitable

\* What filter_apply() takes for an index of filters_by_lead, the first
\* character of the line, lies in the table.
InTable(line) == line # <<>> => Head(line) \notin High

\* filter_apply() runs the expression if it is in the list of the first
\* character of the line. Before the table there may be anything: it is sure to
\* run none.
Tried(regexp, line) ==
    /\ InTable(line)
    /\ (IF line = <<>> THEN End ELSE Head(line)) \in filter_calc_leads(regexp)

-------------------------------------------------------------------------------
(* What the expressions mean: the lines that regexec() matches.            *)

Lines == UNION {[1 .. n -> Chars] : n \in 0 .. MaxLine}

Concat(A, B) ==
    {w \in {v \o u : v \in A, u \in B} : Len(w) <= MaxLine}

\* A part of each language, one after another.
InTurn(languages) ==
    LET after[i \in 0 .. Len(languages)] ==
            IF i = 0 THEN {<<>>} ELSE Concat(after[i - 1], languages[i])
    IN  after[Len(languages)]

Repeated(A) == UNION {InTurn([i \in 1 .. n |-> A]) : n \in 0 .. MaxLine}

Occurring(A, occurs) ==
    CASE occurs = "once" -> A
      [] occurs = "?" -> A \cup {<<>>}
      [] occurs = "*" -> Repeated(A)
      [] occurs = "+" -> Concat(A, Repeated(A))

\* What an item stands for.
Characters(item) == IF item.not THEN Chars \ item.set ELSE item.set

ItemLanguage(item) ==
    Occurring({<<c>> : c \in Characters(item)}, item.occurs)

BranchLanguage(branch) ==
    InTurn([i \in 1 .. Len(branch.items) |-> ItemLanguage(branch.items[i])])

PieceLanguage(piece) ==
    Occurring(UNION {BranchLanguage(b) : b \in ToSet(piece.branches)},
              piece.occurs)

Language(regexp) ==
    InTurn([i \in 1 .. Len(regexp.pieces) |-> PieceLanguage(regexp.pieces[i])])

Matches(regexp, line) ==
    IF regexp.dollar THEN line \in Language(regexp)
    ELSE \E i \in 0 .. Len(line) : SubSeq(line, 1, i) \in Language(regexp)

-------------------------------------------------------------------------------
(* What the expressions of filter_load() have in common.                   *)

Firsts(piece) == {branch.items[1] : branch \in ToSet(piece.branches)}

\* The code asserts that a complemented set is not one of several branches.  It
\* relies as well on there being nothing that the set overwrites, on only a
\* starred piece being missing at times, and on not all of them being so, unless
\* the line must end there and the first is a complemented set, that suits the
\* NUL of an empty line, too. No character that it looks at is in High: it would
\* be marked before the table of leads.
Handled(regexp) ==
    /\ \A i \in Seen(regexp) : LET piece == regexp.pieces[i] IN
        /\ piece.occurs # "?"
        /\ \A item \in Firsts(piece) :
            /\ item.occurs \in {"once", "+"}
            /\ item.set \cap High = {}
            /\ item.not => Len(piece.branches) = 1 /\ i = 1
    /\ \/ \E i \in Seen(regexp) : regexp.pieces[i].occurs # "*"
       \/ /\ regexp.dollar
          /\ regexp.pieces # <<>> =>
                \E item \in Firsts(regexp.pieces[1]) : item.not

\* A filter is tried on every line it matches, if its first character is in the
\* table.
EachMatchTried(regexp) ==
    \A line \in Lines :
        InTable(line) /\ Matches(regexp, line) => Tried(regexp, line)
===============================================================================
