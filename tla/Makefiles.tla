------------------------------- MODULE Makefiles -------------------------------
(***************************************************************************)
(* What maketool knows of the makefile of the current directory: whether   *)
(* it must be made from other files first (makesys.c), and the targets it  *)
(* offers, parsed from the output of the make program (gmake.c) and put    *)
(* into order (main.c).                                                    *)
(***************************************************************************)
EXTENDS Integers, FiniteSetsExt, SequencesExt

CONSTANTS
    Targets,            \* names of targets: numbers, in the order of strcmp()
    Standard,           \* those the make system takes for standard ones
    Hidden              \* those that filter_target() leaves out

-------------------------------------------------------------------------------
(* Does the makefile need an update?                                       *)
(*                                                                         *)
(* A file is the time of its last modification, Missing, or Unreadable in  *)
(* a directory that cannot be searched.  stat() sets errno when it fails   *)
(* and leaves it when it succeeds; it fills sb only when it succeeds.      *)
(* deps is the dependencies of a make system, then those of its parents.   *)

Missing == -1
Unreadable == -2

\* errno and the time in sb after a stat().
Stat(file, before) ==
    [errno |-> IF file = Missing THEN "ENOENT"
               ELSE IF file = Unreadable THEN "EACCES" ELSE before.errno,
     mtime |-> IF file >= 0 THEN file ELSE before.mtime]

\* Mutant: a dependency that is missing does not count.
MutNeeds(deps, files, mf_mtime, errno) ==
    \E d \in DOMAIN deps : files[deps[d]] > mf_mtime

\* A stat() that succeeds returns 0, which is <= 0 as well.
Needs(deps, files, mf_mtime, errno) ==
    LET after[i \in 0 .. Len(deps)] ==
            IF i = 0 THEN [errno |-> errno, mtime |-> mf_mtime]
            ELSE Stat(files[deps[i]], after[i - 1])
    IN  \E i \in DOMAIN deps :
            after[i].errno = "ENOENT" \/ after[i].mtime > mf_mtime

ms_makefile_needs_update(automatic, makefile, deps, files, errno) ==
    /\ automatic
    /\ CASE files[makefile] = Missing -> TRUE
         [] files[makefile] = Unreadable -> FALSE
         [] OTHER -> Needs(deps, files, files[makefile], errno)

\* The makefile is missing, or older than a file it is made from, or made from
\* one that is missing.
IsStale(makefile, deps, files) ==
    \/ files[makefile] = Missing
    \/ \E i \in DOMAIN deps :
          files[deps[i]] = Missing \/ files[deps[i]] > files[makefile]

\* A build never starts from a makefile that is known to be out of date.  The
\* converse holds when no earlier call has failed for want of a file: errno may
\* be left over.
StaleIsMade(makefile, deps, files, errno) ==
    /\ files[makefile] # Unreadable /\ IsStale(makefile, deps, files) =>
          ms_makefile_needs_update(TRUE, makefile, deps, files, errno)
    /\ ms_makefile_needs_update(TRUE, makefile, deps, files, "none") =>
          IsStale(makefile, deps, files)

-------------------------------------------------------------------------------
(* Which targets are there?                                                *)
(*                                                                         *)
(* A line of the output of "gmake -n -p" is a rule for a target, one of    *)
(* the marks that the parser knows ("# Files", "# Not a target:",          *)
(* "# VPATH Search Paths" and "*** No rule to make target"), or another.   *)

Marks == {"Files", "NotATarget", "SearchPaths", "NoRule", "other"}
OutputLines == [mark : Marks] \cup [rule : Targets]
IsRule(line) == "rule" \in DOMAIN line

BeforeOutput ==
    [is_file |-> FALSE, is_target |-> TRUE, no_rule |-> FALSE, targets |-> <<>>]

\* Mutant: what is not a target hides all the targets that follow.
MutInput(ltt, line) ==
    IF IsRule(line)
    THEN IF ltt.is_file /\ ltt.is_target /\ line.rule \notin Hidden
         THEN [ltt EXCEPT !.targets = Append(@, line.rule)] ELSE ltt
    ELSE CASE line.mark = "Files" -> [ltt EXCEPT !.is_file = TRUE]
           [] line.mark = "NotATarget" -> [ltt EXCEPT !.is_target = FALSE]
           [] line.mark = "SearchPaths" -> [ltt EXCEPT !.is_file = FALSE]
           [] OTHER -> ltt

gmake_list_targets_input(ltt, line) ==
    IF IsRule(line)
    THEN [ltt EXCEPT
            !.is_target = TRUE,
            !.targets = IF ltt.is_file /\ ltt.is_target /\ line.rule \notin Hidden
                        THEN Append(@, line.rule) ELSE @]
    ELSE CASE line.mark = "Files" -> [ltt EXCEPT !.is_file = TRUE]
           [] line.mark = "NotATarget" -> [ltt EXCEPT !.is_target = FALSE]
           [] line.mark = "SearchPaths" -> [ltt EXCEPT !.is_file = FALSE]
           [] line.mark = "NoRule" -> [ltt EXCEPT !.no_rule = TRUE]
           [] OTHER -> ltt

\* set_targets(): each name once, the standard ones first.
Sorted(S) ==
    CHOOSE q \in [1 .. Cardinality(S) -> S] :
        \A i, j \in DOMAIN q : i < j => q[i] < q[j]

set_targets(targets) ==
    Sorted(ToSet(targets) \cap Standard) \o Sorted(ToSet(targets) \ Standard)

\* gmake_list_targets_reap(): gmake fails on the target that does not exist,
\* by which it is made to list the others.
gmake_list_targets_reap(ltt, successful) ==
    IF ~successful /\ (~ltt.no_rule \/ ltt.targets = <<>>)
    THEN <<>> ELSE set_targets(ltt.targets)

available_targets(output, successful) ==
    LET after[i \in 0 .. Len(output)] ==
            IF i = 0 THEN BeforeOutput
            ELSE gmake_list_targets_input(after[i - 1], output[i])
    IN  gmake_list_targets_reap(after[Len(output)], successful)

\* The targets offered are those with a rule in the section of files that is
\* not the first rule after a remark that it is not a target; none of them is
\* lost or offered twice, whatever is mixed into the output.
OffersExactly(output) ==
    LET Is(i, mark) == ~IsRule(output[i]) /\ output[i].mark = mark
        InFiles(i) == \E j \in 1 .. i : Is(j, "Files") /\
                        \A k \in j .. i : ~Is(k, "SearchPaths")
        NoTarget(i) == \E j \in 1 .. i : Is(j, "NotATarget") /\
                        \A k \in j .. i - 1 : ~IsRule(output[k])
        offered == available_targets(output, TRUE)
    IN  /\ ToSet(offered) = {output[i].rule : i \in {j \in DOMAIN output :
                                IsRule(output[j]) /\ InFiles(j) /\ ~NoTarget(j)}}
                            \ Hidden
        /\ IsInjective(offered)
        /\ \A i, j \in DOMAIN offered :
            i < j => \/ offered[i] \in Standard /\ offered[j] \notin Standard
                     \/ /\ offered[i] \in Standard <=> offered[j] \in Standard
                        /\ offered[i] < offered[j]
===============================================================================
