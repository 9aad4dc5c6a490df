------------------------------- MODULE Variables -------------------------------
(***************************************************************************)
(* The variables of the preferences (preferences.c): the rows that the     *)
(* user edits in the dialog, and how they reach make, as words of the      *)
(* command that the shell reads or in its environment.                     *)
(***************************************************************************)
EXTENDS Integers, SequencesExt

\* The characters that the shell tells apart here: a quote; a space, for all
\* white space that can be typed into an entry; a backslash, for the other
\* characters that mean something to the shell; and one that means nothing to
\* it, as the names of variables do and what stands between name and value.
Quote == "quote"
Space == "space"
Backslash == "backslash"
Letter == "letter"
Equals == "equals"
ValueChars == {Quote, Space, Backslash, Letter}

Variable(Names) ==
    [name : Names, value : Seq(ValueChars), type : {"make", "environment"}]

\* The presses of Set and Unset.
Edits(Names) == [set : BOOLEAN, row : Variable(Names)]

\* A name is a word for the shell as it stands.
PlainNames(Names) ==
    Quote \notin Names /\ Space \notin Names /\ Backslash \notin Names

-------------------------------------------------------------------------------
(* The rows of the dialog.                                                 *)

\* Mutant: a row is added even if there is one of this name.
MutSet(rows, row) == Append(rows, row)

var_set_cb(rows, row) ==
    LET old == SelectInSeq(rows, LAMBDA r : r.name = row.name)
    IN  IF old = 0 THEN Append(rows, row) ELSE ReplaceAt(rows, old, row)

var_unset_cb(rows, name) ==
    LET old == SelectInSeq(rows, LAMBDA r : r.name = name)
    IN  IF old = 0 THEN rows ELSE RemoveAt(rows, old)

Edit(rows, edit) == IF edit.set THEN var_set_cb(rows, edit.row)
                    ELSE var_unset_cb(rows, edit.row.name)

Rows(edits) ==
    LET after[i \in 0 .. Len(edits)] ==
            IF i = 0 THEN <<>> ELSE Edit(after[i - 1], edits[i])
    IN  after[Len(edits)]

-------------------------------------------------------------------------------
(* What Apply makes of them; the variables are the rows, in their order.   *)

Word(v) == <<v.name, Equals>> \o v.value

prefs_set_var_environment(variables) ==
    LET after[i \in 0 .. Len(variables)] ==
            IF i = 0 THEN <<>>
            ELSE IF variables[i].type # "environment" THEN after[i - 1]
            ELSE Append(after[i - 1], Word(variables[i]))
    IN  after[Len(variables)]

strescape(s) ==
    FlattenSeq([i \in DOMAIN s |->
                   IF s[i] = Letter THEN <<s[i]>> ELSE <<Backslash, s[i]>>])

\* In single quotes, unless it has one of its own.
Quoted(value) ==
    IF Contains(value, Quote) THEN strescape(value)
    ELSE <<Quote>> \o value \o <<Quote>>

AddFlag(out, v) ==
    out \o (IF out = <<>> THEN <<>> ELSE <<Space>>)
        \o <<v.name, Equals>> \o Quoted(v.value)

prefs_set_var_make_flags(variables) ==
    LET after[i \in 0 .. Len(variables)] ==
            IF i = 0 THEN <<>>
            ELSE IF variables[i].type # "make" THEN after[i - 1]
            ELSE AddFlag(after[i - 1], variables[i])
    IN  after[Len(variables)]

-------------------------------------------------------------------------------
(* How a shell reads words: words, those that are complete; word, what it  *)
(* has of the next one, and whether there is one; mode, what it is in.     *)

Reading(words, word, some, mode) ==
    [words |-> words, word |-> word, some |-> some, mode |-> mode]

ReadChar(r, c) ==
    CASE r.mode = "escape" -> Reading(r.words, Append(r.word, c), TRUE, "plain")
      [] r.mode = "quotes" /\ c = Quote ->
            Reading(r.words, r.word, TRUE, "plain")
      [] r.mode = "quotes" /\ c # Quote ->
            Reading(r.words, Append(r.word, c), TRUE, "quotes")
      [] r.mode = "plain" /\ c = Quote -> Reading(r.words, r.word, TRUE, "quotes")
      [] r.mode = "plain" /\ c = Backslash ->
            Reading(r.words, r.word, TRUE, "escape")
      [] r.mode = "plain" /\ c = Space ->
            Reading(IF r.some THEN Append(r.words, r.word) ELSE r.words,
                    <<>>, FALSE, "plain")
      [] OTHER -> Reading(r.words, Append(r.word, c), TRUE, "plain")

ReadFrom(r, line) ==
    LET after[i \in 0 .. Len(line)] ==
            IF i = 0 THEN r ELSE ReadChar(after[i - 1], line[i])
    IN  after[Len(line)]

\* The words of a line.
Words(line) ==
    ReadFrom(Reading(<<>>, <<>>, FALSE, "plain"), Append(line, Space)).words

-------------------------------------------------------------------------------
\* The variables set and not unset afterwards, with the value and the type
\* that they were given last.
SetLast(edits, type) ==
    {edits[i].row : i \in {j \in DOMAIN edits :
        /\ edits[j].set /\ edits[j].row.type = type
        /\ \A k \in DOMAIN edits :
              k > j => edits[k].row.name # edits[j].row.name}}

\* Each once, and nothing else.
IsEachOnce(words, rows) ==
    /\ IsInjective(words)
    /\ ToSet(words) = {Word(row) : row \in rows}

\* Whatever is set and unset in the dialog, every variable is given to make
\* once, with its last value, character for character, in its command or in its
\* environment: no value is taken apart by the shell and none runs into the
\* next word.
ReachMake(edits) ==
    LET variables == Rows(edits) IN
    /\ IsEachOnce(Words(prefs_set_var_make_flags(variables)),
                  SetLast(edits, "make"))
    /\ IsEachOnce(prefs_set_var_environment(variables),
                  SetLast(edits, "environment"))
===============================================================================
