\* Pure parts of the program over small sets of inputs.
SPECIFICATION Spec
CONSTANTS
    a = a
    b = b
    c = c
    f = f
    g = g
    Chars = {a, b, c}
    High = {c}
    End = End
    MaxLine = 3
    Regexps <- MCRegexps
    NoFile = NoFile
    LogRecords <- MCLogRecords
    Logs <- MCLogs
    Paths = {"Makefile", "configure", "Makefile.in"}
    Makefile = "Makefile"
    Deps <- MCDeps
    Times <- MCTimes
    Targets = {1, 2, 3}
    Standard = {2}
    Hidden = {3}
    Outputs <- MCOutputs
    VarNames = {"CC", "LD"}
    EditSeries <- MCEditSeries
CHECK_DEADLOCK FALSE
INVARIANTS
    NoMatchMissed
    EachErrorOnce
    EachMatchOnce
    MakefileMadeWhenStale
    TargetsOffered
    VariablesInEffect
