------------------------------- MODULE Navigate -------------------------------
(***************************************************************************)
(* Going through the log from the selected record: the next error          *)
(* (log.c, main.c) and the next line that matches a pattern (find.c).      *)
(*                                                                         *)
(* A log is a sequence of records; the selection is the index of one, or 0 *)
(* for none.  A record has the code of its filter, the file it names (or   *)
(* NoFile), whether it has a row in the log window, and whether its text   *)
(* matches the pattern searched for.                                       *)
(***************************************************************************)
EXTENDS Integers, FiniteSetsExt, SequencesExt

CONSTANT NoFile

Nearest(S, forward) ==
    IF S = {} THEN 0 ELSE IF forward THEN Min(S) ELSE Max(S)

Beyond(log, start, forward) ==
    IF start = 0 THEN DOMAIN log
    ELSE IF forward THEN start + 1 .. Len(log) ELSE 1 .. start - 1

\* A record without a row cannot be selected: the selection stays.
log_set_selected(log, selected, i) == IF log[i].shown THEN i ELSE selected

-------------------------------------------------------------------------------
(* Errors.                                                                 *)

IsError(lr) == lr.code \in {"FR_ERROR", "FR_WARNING"} /\ lr.file # NoFile

log_find_error_aux(log, lr, forward) ==
    Nearest({i \in Beyond(log, lr, forward) : IsError(log[i])}, forward)

\* Mutant: the warnings to be skipped end the search.
MutNextError(log, lr, next, edit_warnings) ==
    LET e == log_find_error_aux(log, lr, next)
    IN  IF e # 0 /\ (edit_warnings \/ log[e].code = "FR_ERROR") THEN e ELSE 0

\* The first of the errors beyond the record lr that suits.
Skip(log, lr, forward, suits) ==
    LET from[k \in 0 .. Len(log)] ==
            LET e == log_find_error_aux(log, k, forward)
            IN  IF e = 0 \/ e \in suits THEN e ELSE from[e]
    IN  from[lr]

NextError(log, lr, next, edit_warnings) ==
    Skip(log, lr, next,
         {i \in DOMAIN log : edit_warnings \/ log[i].code = "FR_ERROR"})

NextFileError(log, lr, filename, edit_warnings) ==
    Skip(log, lr, TRUE,
         {i \in DOMAIN log : /\ log[i].file # filename
                             /\ edit_warnings \/ log[i].code = "FR_ERROR"})

\* The records that are visited when an item is chosen so many times, if it
\* leads from each record k to to[k], or nowhere if that is 0.
Outset(selected) == [selected |-> selected, visited |-> <<>>]

Visit(log, at, e) ==
    IF e = 0 THEN at
    ELSE [selected |-> log_set_selected(log, at.selected, e),
          visited  |-> Append(at.visited, e)]

Visited(log, selected, to, times) ==
    LET after[i \in 0 .. times] ==
            IF i = 0 THEN Outset(selected)
            ELSE Visit(log, after[i - 1], to[after[i - 1].selected])
    IN  after[times].visited

EditNextErrors(log, selected, next, edit_warnings, times) ==
    Visited(log, selected,
            [k \in 0 .. Len(log) |-> NextError(log, k, next, edit_warnings)], times)

EditNextFiles(log, selected, edit_warnings, times) ==
    LET file(k) == IF k = 0 THEN NoFile ELSE log[k].file
    IN  Visited(log, selected,
                [k \in 0 .. Len(log) |->
                    NextFileError(log, k, file(k), edit_warnings)], times)

-------------------------------------------------------------------------------
(* Patterns.                                                               *)

log_apply_after(log, start, forward) ==
    Nearest({i \in Beyond(log, start, forward) : log[i].matches}, forward)

\* Mutant: the search from the other end stops at the selection.
MutFind(log, selected, forward, wrap) ==
    LET found == log_apply_after(log, selected, forward)
        again == log_apply_after(log, 0, forward)
    IN  IF found # 0 THEN found
        ELSE IF wrap /\ again # selected THEN again ELSE 0

\* The record found, or 0: the search is tried again from the other end.
Find(log, selected, forward, wrap) ==
    LET found == log_apply_after(log, selected, forward)
    IN  IF found = 0 /\ wrap THEN log_apply_after(log, 0, forward) ELSE found

FindAgain(log, selected, forward, wrap, times) ==
    Visited(log, selected,
            [k \in 0 .. Len(log) |-> Find(log, k, forward, wrap)], times)

-------------------------------------------------------------------------------
(* What going through the log must give.                                   *)

AllShown(log) == \A i \in DOMAIN log : log[i].shown

Wanted(lr, edit_warnings) ==
    IsError(lr) /\ (edit_warnings \/ lr.code = "FR_ERROR")

\* i comes before j on the way through the log.
Ahead(i, j, forward) == IF forward THEN i < j ELSE j < i

\* Edit Next Error, chosen again and again, edits every error (and warning,
\* unless they are ignored) beyond the selection once, in the order of the log,
\* and then says that there are no more; Edit Prev Error, backwards.
ErrorsInOrder(log, selected, next, edit_warnings) ==
    LET edited == EditNextErrors(log, selected, next, edit_warnings, Len(log) + 1)
    IN  /\ ToSet(edited) = {i \in Beyond(log, selected, next) :
                                Wanted(log[i], edit_warnings)}
        /\ \A i, j \in DOMAIN edited :
              i < j => Ahead(edited[i], edited[j], next)

\* Edit Next File Error leaves the file: no two errors edited in a row are in
\* the same one, and none it could have gone to is left behind the last.
FilesAlternate(log, edit_warnings) ==
    LET edited == EditNextFiles(log, 0, edit_warnings, Len(log) + 1)
    IN  /\ \A i \in 1 .. Len(edited) - 1 :
              /\ edited[i] < edited[i + 1]
              /\ log[edited[i]].file # log[edited[i + 1]].file
        /\ \A i \in DOMAIN log :
              Wanted(log[i], edit_warnings)
                /\ (edited = <<>> \/ Last(edited) < i)
              => edited # <<>> /\ log[i].file = log[Last(edited)].file

EditsEachOnce(log, edit_warnings) ==
    AllShown(log) =>
        /\ \A selected \in 0 .. Len(log), next \in BOOLEAN :
              ErrorsInOrder(log, selected, next, edit_warnings)
        /\ FilesAlternate(log, edit_warnings)

\* Find Again with Wrap goes round all the lines that match, from wherever it
\* starts, without leaving one out or taking one twice in a round; without
\* Wrap it goes through those beyond the selection.
FindsEachOnce(log, selected, forward) ==
    LET matching == {i \in DOMAIN log : log[i].matches}
        beyond   == matching \cap Beyond(log, selected, forward)
        round    == FindAgain(log, selected, forward, TRUE, Cardinality(matching))
        onward   == FindAgain(log, selected, forward, FALSE, Len(log) + 1)
    IN  AllShown(log) =>
            /\ ToSet(round) = matching
            /\ \A i, j \in DOMAIN round :
                  i < j => \/ round[i] \in beyond /\ round[j] \notin beyond
                           \/ /\ round[i] \in beyond <=> round[j] \in beyond
                              /\ Ahead(round[i], round[j], forward)
            /\ ToSet(onward) = beyond
            /\ \A i, j \in DOMAIN onward :
                  i < j => Ahead(onward[i], onward[j], forward)
===============================================================================
