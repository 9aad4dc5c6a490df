------------------------------ MODULE Algorithms ------------------------------
(***************************************************************************)
(* The pure parts of maketool: the first characters of filters, going      *)
(* through the log, what is known of the makefile, and the variables given *)
(* to make.  Each input is a state; in every one of them the algorithms    *)
(* return what they should.                                                *)
(***************************************************************************)
EXTENDS FilterLeads, Navigate, Makefiles, Variables

CONSTANTS
    Regexps,            \* expressions of filters
    Logs,               \* logs: sequences of
    LogRecords,         \* records
    Paths,              \* names of files, among them those of
    Makefile,           \* the makefile
    Deps,               \* and of what it is made from, a sequence
    Times,              \* what stat() says of a file
    Outputs,            \* outputs of gmake
    VarNames,           \* names of variables
    EditSeries          \* what the user does with them in the dialog

ASSUME AlgorithmsAssumption ==
    /\ End \notin Chars /\ High \subseteq Chars
    /\ MaxLine \in Nat
    /\ Regexps \subseteq Expressions
    /\ Logs \subseteq Seq(LogRecords)
    /\ Makefile \in Paths
    /\ Deps \in Seq(Paths)
    /\ Times \subseteq {Missing, Unreadable} \cup Nat
    /\ Targets \subseteq Int
    /\ Outputs \subseteq Seq(OutputLines)
    /\ PlainNames(VarNames)
    /\ EditSeries \subseteq Seq(Edits(VarNames))

VARIABLE input

-------------------------------------------------------------------------------
Init == input = [of |-> "nothing"]

ChooseRegexp ==
    \E regexp \in Regexps :
        /\ Handled(regexp)
        /\ input' = [of |-> "leads", regexp |-> regexp]

ChooseLog == \E log \in Logs : input' = [of |-> "log", log |-> log]

\* errno is what an earlier call has left.
ChooseFiles ==
    \E files \in [Paths -> Times], errno \in {"none", "ENOENT", "EACCES"} :
        input' = [of |-> "files", files |-> files, errno |-> errno]

ChooseOutput ==
    \E output \in Outputs : input' = [of |-> "output", output |-> output]

ChooseEdits ==
    \E edits \in EditSeries : input' = [of |-> "edits", edits |-> edits]

Next ==
    /\ input.of = "nothing"
    /\ \/ ChooseRegexp \/ ChooseLog \/ ChooseFiles \/ ChooseOutput \/ ChooseEdits

Spec == Init /\ [][Next]_input

-------------------------------------------------------------------------------
\* A filter is tried on every line that its expression matches and whose first
\* character is not negative as a char: sorting the filters by the first
\* characters of such lines never hides an error (filter_calc_leads,
\* filters_by_lead in filter.c).
NoMatchMissed == input.of = "leads" => EachMatchTried(input.regexp)

\* Edit Next Error, chosen again and again, edits every error beyond the
\* selection once, in the order of the log, and Edit Prev Error backwards; Edit
\* Next File Error goes to another file each time and leaves none out at the
\* end (edit_next_error_cb, edit_file_next_error_cb in main.c).
EachErrorOnce ==
    input.of = "log" =>
        \A edit_warnings \in BOOLEAN : EditsEachOnce(input.log, edit_warnings)

\* Find Again goes round all the lines that match, one after another (do_find
\* in find.c).
EachMatchOnce ==
    input.of = "log" =>
        \A selected \in 0 .. Len(input.log), forward \in BOOLEAN :
            FindsEachOnce(input.log, selected, forward)

\* A makefile that is out of date is made before a build, whatever an earlier
\* call has left in errno; and one that is not is left alone, if it has left
\* nothing there (ms_makefile_needs_update in makesys.c).
MakefileMadeWhenStale ==
    input.of = "files" => StaleIsMade(Makefile, Deps, input.files, input.errno)

\* The targets offered are those of the makefile, each once and in order, for
\* any interleaving of rules and marks in the output of gmake.
TargetsOffered == input.of = "output" => OffersExactly(input.output)

\* Whatever the user sets and unsets in the dialog, each variable reaches make
\* once and unchanged, through the shell or the environment
\* (prefs_set_var_make_flags, prefs_set_var_environment, var_set_cb).
VariablesInEffect == input.of = "edits" => ReachMake(input.edits)
===============================================================================
