\* Output in lines, with a background process, of a Task that task_run() holds.
SPECIFICATION FairSpec
CONSTANTS
    Bytes = {char, newline}
    Newline = newline
    Nul = nul
    BufSize = 2
    PipeSize = 3
    MaxOutput = 5
    Held = TRUE
CHECK_DEADLOCK FALSE
INVARIANTS
    TypeOK
    NothingLost
    ReadsWhatIsThere
    LinesToldAtOnce
    CommandToldInFull
PROPERTIES
    ImplementsOutput
    NeverStuck
    EndIsTold
