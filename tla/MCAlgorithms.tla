----------------------------- MODULE MCAlgorithms -----------------------------
(* Small sets of inputs for the pure parts of maketool. *)
EXTENDS Algorithms

CONSTANTS a, b, c, f, g

UpTo(n, S) == UNION {[1 .. m -> S] : m \in 0 .. n}

-------------------------------------------------------------------------------
\* A literal, a bracket expression, a dot or a complemented bracket expression.
PlainSets == {{a}, {b}, {a, b}}
Item(not, set, occurs) == [not |-> not, set |-> set, occurs |-> occurs]
Plain == {Item(FALSE, set, "once") : set \in PlainSets}
Complemented == {Item(TRUE, set, "once") : set \in {{}, {a}}}
Option == Item(FALSE, {b}, "?")

Branch(items) == [items |-> items]
PlainAlone == {<<Branch(<<item>>)>> : item \in Plain}
Alone == PlainAlone \cup {<<Branch(<<item>>)>> : item \in Complemented}
Groups == {<<Branch(<<x>>), Branch(<<y>>)>> : x, y \in Plain}
          \cup {<<Branch(<<x, Option>>), Branch(<<y>>)>> : x, y \in Plain}
          \cup {<<Branch(<<x, y>>)>> : x \in Complemented, y \in Plain}

Pieces(branches) == [branches : branches, occurs : Occurrences]

MCRegexps == [pieces : UpTo(2, Pieces(Alone \cup Groups))
                       \cup {<<p, q, r>> : p \in Pieces(Alone),
                                           q, r \in Pieces(PlainAlone)},
              dollar : BOOLEAN]

MCLogRecords ==
    [code : {"FR_ERROR", "FR_WARNING", "FR_INFORMATION"},
     file : {f, g, NoFile}, shown : {TRUE}, matches : BOOLEAN]

MCLogs ==
    UpTo(3, {lr \in MCLogRecords : ~lr.matches})
    \cup UpTo(6, {lr \in MCLogRecords :
                     lr.code = "FR_INFORMATION" /\ lr.file = NoFile})

MCDeps == <<"configure", "Makefile.in">>
MCTimes == {Missing, Unreadable, 1, 2}

MCOutputs == UpTo(4, OutputLines)

\* Series of edits of a few values, or two settings of any.
Row(names, values, types) == [name : names, value : values, type : types]
FewEdits ==
    UpTo(4, [set : {TRUE},
             row : Row({"CC", "LD"}, {<<>>, <<Quote, Space>>},
                       {"make", "environment"})]
            \cup [set : {FALSE}, row : Row({"CC", "LD"}, {<<>>}, {"make"})])
TwoSettings == {<<[set |-> TRUE, row |-> x], [set |-> TRUE, row |-> y]>> :
                   x \in Row({"CC"}, UpTo(3, ValueChars), {"make"}),
                   y \in Row({"LD"}, UpTo(2, ValueChars), {"make"})}
MCEditSeries == FewEdits \cup TwoSettings
===============================================================================
