\* Builds, dropped files and changes of directory, by any user.
SPECIFICATION Spec
CONSTANTS
    Dirs <- SomeDirs
    Targets <- SomeTargets
    TargetsIn <- SomeTargetsIn
    StartActions = {"START_CLEAR", "START_COLLAPSE"}
    TARGET_HISTORY_MAX = 2
    MaxQueue = 4
    MaxDrop = 2
    Circumstances = {"impatient user", "chdir fails", "no makefile"}
CHECK_DEADLOCK FALSE
INVARIANTS
    MenusRightWhenIdle
    HistoryAvailable
PROPERTIES
    MadeWhereChosen
