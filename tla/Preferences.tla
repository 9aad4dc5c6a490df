----------------------------- MODULE Preferences -----------------------------
(***************************************************************************)
(* The preferences of maketool (preferences.c), from one start to the      *)
(* next: the file ~/.maketoolrc and the table of texts it is read into     *)
(* (ui.c), the values in use, the dialog that edits them, and the history  *)
(* of directories (main.c).                                                *)
(*                                                                         *)
(* Each setting stands for those that are treated like it: run_processes   *)
(* for what the command line can override, among it numbers (run_load is   *)
(* the other) that lie outside the range of their widget; dryrun for what  *)
(* is saved alone (the size of the window too), log_flags and              *)
(* bgcolor_error for those that can be empty, prog_make for the commands,  *)
(* makeprog for itself.                                                    *)
(***************************************************************************)
EXTENDS Integers, SequencesExt

CONSTANTS
    Dirs,               \* directories
    MAX_DIR_HISTORY,
    Opened,             \* what may come of opening the file to write it
    MaxEdits            \* bound: widgets edited before Apply or Cancel

ASSUME PreferencesAssumption ==
    /\ MAX_DIR_HISTORY \in Nat /\ MaxEdits \in Nat
    /\ Opened \subseteq BOOLEAN

Settings == {"run_processes", "dryrun", "log_flags", "bgcolor_error",
             "prog_make", "makeprog"}

\* Those that have a widget in the dialog.
Edited == {"run_processes", "bgcolor_error", "prog_make", "makeprog"}

None == "none"          \* no flags, no colour
Unset == "unset"        \* no text in the table or in the file
OldCommand == "gmake %m %t"     \* a command that names the make program
NewCommand == "%M %m %t"
Colour == "#ffc2c2"

\* What the user can set: the widget of run_processes goes from 2 to 10.
Values ==
    [run_processes |-> {"2", "10"}, dryrun |-> {"FALSE", "TRUE"},
     log_flags |-> {None, "SHOW_ERRORS"},
     bgcolor_error |-> {None, Colour},
     prog_make |-> {OldCommand, NewCommand},
     makeprog |-> {"gmake", "pmake"}]

\* Below and above its range: -j alone is 0.
TooFew == "0"
TooMany == "20"

\* What the widget of a setting makes of a value that it is set to.
Clamped(s, v) ==
    CASE s = "run_processes" /\ v = TooFew -> "2"
      [] s = "run_processes" /\ v = TooMany -> "10"
      [] OTHER -> v

Default ==
    [run_processes |-> "2", dryrun |-> "FALSE", log_flags |-> "SHOW_ERRORS",
     bgcolor_error |-> Colour, prog_make |-> NewCommand,
     makeprog |-> "gmake"]

\* A table, or what is in a file: a text for each setting, and the
\* directories dir_history_0, dir_history_1...
Nothing == [settings |-> [s \in Settings |-> Unset], dirs |-> <<>>]

\* A file of version 0.7, which knows of no other make program.
Version07 == [settings |-> [Default EXCEPT !.run_processes = "10",
                                           !.prog_make = OldCommand,
                                           !.makeprog = Unset],
              dirs |-> <<>>]

VARIABLES
    pc,                 \* "down", "up", or "saving": the file is open
    file,               \* ~/.maketoolrc; ~/.maketoolrc.OLD is never read back
    config,             \* ui_config_data
    prefs,
    dir_history,
    cwd,
    shown,              \* what the widgets of the dialog hold, if created
    visible,
    sensitive,          \* of its OK and Apply buttons
    edited,             \* what the user has edited, neither applied nor cancelled
    kept,               \* the settings and directories handed to the table last
    saved               \* and those that the file was last written with

dialogVars == <<shown, visible, sensitive, edited>>
vars == <<pc, file, config, prefs, dir_history, cwd, dialogVars, kept, saved>>

NotCreated == <<>>

-----------------------------------------------------------------------------
\* Setting a text to the null pointer removes it from the table.
ToText(v) == IF v = None THEN Unset ELSE v

\* What is taken for a file of version 0.7.
Obsolete(s, text) ==
    \/ s = "makeprog" /\ text = Unset
    \/ s = "prog_make" /\ text = OldCommand

FromText(s, text) ==
    IF text = Unset \/ Obsolete(s, text) THEN Default[s] ELSE text

Loaded(f) == [s \in Settings |-> FromText(s, f.settings[s])]

\* The history h after one more directory of the file: each once, as many as
\* fit.
WithDir(h, d) ==
    IF Contains(h, d) \/ Len(h) = MAX_DIR_HISTORY THEN h ELSE Append(h, d)

LoadedDirs(f) ==
    LET history[i \in 0..Len(f.dirs)] ==
            IF i = 0 THEN <<>> ELSE WithDir(history[i - 1], f.dirs[i])
    IN history[Len(f.dirs)]

\* The texts of the settings, but the first directory is always the same one.
MutTable(old, p, h) ==
    [settings |-> [s \in Settings |-> ToText(p[s])],
     dirs |-> IF old.dirs = <<>> THEN h ELSE old.dirs]

\* The table after preferences_save(); directories beyond those of the
\* history stay in it.
Table(old, p, h) ==
    [settings |-> [s \in Settings |-> ToText(p[s])],
     dirs |-> h \o SubSeq(old.dirs, Len(h) + 1, Len(old.dirs))]

\* All that a program without a file starts with.
Lost == [settings |-> Default, dirs |-> <<>>]

\* Mutant: a table that could not be written is dropped.
MutSync(table, k) ==
    /\ kept' = k
    /\ \/ /\ TRUE \in Opened
          /\ config' = table
          /\ file' = Nothing /\ pc' = "saving" /\ saved' = k
       \/ /\ FALSE \in Opened
          /\ pc' = "up" /\ UNCHANGED <<config, file, saved>>

\* The table is to be saved, which now gives what is in k.  ui_config_sync() up
\* to where the file has been opened, and is empty; if it cannot be opened,
\* nothing is written.
ui_config_sync(table, k) ==
    /\ config' = table
    /\ kept' = k
    /\ \/ /\ TRUE \in Opened
          /\ file' = Nothing /\ pc' = "saving" /\ saved' = k
       \/ /\ FALSE \in Opened
          /\ pc' = "up" /\ UNCHANGED <<file, saved>>

preferences_save(old, p, h) ==
    ui_config_sync(Table(old, p, h), [settings |-> p, dirs |-> h])

-----------------------------------------------------------------------------
Init ==
    /\ pc = "down"
    /\ file \in {Nothing, Version07}
    /\ config = Nothing
    /\ prefs = Default /\ dir_history = <<>>
    /\ cwd \in Dirs
    /\ shown = NotCreated
    /\ visible = FALSE /\ sensitive = FALSE /\ edited = {}
    /\ saved = [settings |-> Loaded(file), dirs |-> <<>>]
    /\ kept = saved

\* ui_config_backup() has renamed the file of version 0.7, and a new one cannot
\* be opened.
SaveFails(table, k) ==
    /\ FALSE \in Opened
    /\ config' = table
    /\ kept' = k
    /\ file' = Nothing /\ saved' = Lost
    /\ pc' = "up"

\* preferences_load(), then the options of the command line: -j, with a
\* number or without, or none.
preferences_load ==
    LET loaded == Loaded(file)
        dirs == LoadedDirs(file)
        upgraded == \E s \in Settings : Obsolete(s, file.settings[s])
    IN /\ pc = "down"
       /\ IF upgraded /\ file # Nothing
          THEN \/ preferences_save(file, loaded, dirs)
               \/ SaveFails(Table(file, loaded, dirs),
                            [settings |-> loaded, dirs |-> dirs])
          ELSE /\ pc' = "up"
               /\ config' = file
               /\ kept' = [settings |-> loaded, dirs |-> dirs]
               /\ UNCHANGED <<file, saved>>
       /\ dir_history' = dirs
       /\ \E j \in {loaded.run_processes, TooFew, TooMany}
                   \cup Values.run_processes :
             prefs' = [loaded EXCEPT !.run_processes = j]
       /\ cwd' \in Dirs
       /\ UNCHANGED dialogVars

\* ui_config_sync() to its end.
EndSync ==
    /\ pc = "saving"
    /\ file' = config
    /\ pc' = "up"
    /\ UNCHANGED <<config, prefs, dir_history, cwd, dialogVars, kept, saved>>

\* What the program held in memory is gone.
Down ==
    /\ pc' = "down"
    /\ config' = Nothing
    /\ prefs' = Default /\ dir_history' = <<>>
    /\ shown' = NotCreated
    /\ visible' = FALSE /\ sensitive' = FALSE /\ edited' = {}
    /\ kept' = saved'
    /\ UNCHANGED <<file, cwd>>

\* The program is killed, or leaves its main loop.
Exit == pc = "up" /\ UNCHANGED saved /\ Down

\* It is killed while the file is open: the settings are lost.
KilledSaving ==
    /\ pc = "saving"
    /\ saved' = Lost
    /\ Down

-----------------------------------------------------------------------------
(***************************************************************************)
(* The dialog.                                                             *)
(***************************************************************************)
\* The widgets keep what they held when the dialog was shown before.
MutShow ==
    /\ pc = "up"
    /\ shown' = IF shown = NotCreated THEN [s \in Edited |-> Clamped(s, prefs[s])]
                 ELSE shown
    /\ visible' = TRUE
    /\ sensitive' \in {sensitive, TRUE}
    /\ UNCHANGED <<pc, file, config, prefs, dir_history, cwd, edited, kept,
                   saved>>

\* edit_preferences_cb(), print_page_setup_cb(): the list of make programs is
\* set to the current one when it is created, and not by prefs_show().  Whether
\* a text that is set but not changed makes the buttons sensitive depends on
\* the version of the toolkit.
edit_preferences_cb ==
    /\ pc = "up"
    /\ shown' = [s \in Edited |->
                    IF s = "makeprog" /\ shown # NotCreated
                    THEN shown[s] ELSE Clamped(s, prefs[s])]
    /\ visible' = TRUE
    /\ sensitive' \in {sensitive, TRUE}
    /\ UNCHANGED <<pc, file, config, prefs, dir_history, cwd, edited, kept,
                   saved>>

\* The user edits a widget, or resets the colours.
changed_cb(s) ==
    /\ pc = "up" /\ visible
    /\ Cardinality(edited \cup {s}) =< MaxEdits
    /\ \E v \in Values[s] \ {shown[s]} : shown' = [shown EXCEPT ![s] = v]
    /\ edited' = edited \cup {s}
    /\ sensitive' = TRUE
    /\ UNCHANGED <<pc, file, config, prefs, dir_history, cwd, visible, kept,
                   saved>>

\* Apply, or OK, which hides the dialog as well.
prefs_apply_cb ==
    /\ pc = "up" /\ visible /\ sensitive
    /\ prefs' = [s \in Settings |-> IF s \in Edited THEN shown[s] ELSE prefs[s]]
    /\ preferences_save(config, prefs', dir_history)
    /\ visible' \in BOOLEAN
    /\ sensitive' = FALSE
    /\ edited' = {}
    /\ UNCHANGED <<dir_history, cwd, shown>>

\* Cancel, or the window manager closes the dialog.
Cancel ==
    /\ pc = "up" /\ visible
    /\ visible' = FALSE /\ edited' = {}
    /\ UNCHANGED <<pc, file, config, prefs, dir_history, cwd, shown, sensitive,
                   kept, saved>>

-----------------------------------------------------------------------------
(***************************************************************************)
(* What else changes preferences.                                          *)
(***************************************************************************)
log_set_flags(f) ==
    /\ pc = "up"
    /\ prefs' = [prefs EXCEPT !.log_flags = f]
    /\ preferences_save(config, prefs', dir_history)
    /\ UNCHANGED <<dir_history, cwd, dialogVars>>

\* Saves nothing else that is not in the table yet.
preferences_set_dryrun(d) ==
    /\ pc = "up"
    /\ prefs' = [prefs EXCEPT !.dryrun = d]
    /\ ui_config_sync([config EXCEPT !.settings.dryrun = ToText(d)],
                      [kept EXCEPT !.settings.dryrun = d])
    /\ UNCHANGED <<dir_history, cwd, dialogVars>>

\* The directory left is put first, unless it is in the history already.
change_directory(d) ==
    LET history == <<cwd>> \o dir_history IN
    /\ pc = "up"
    /\ cwd' = d
    /\ IF Contains(dir_history, cwd)
       THEN UNCHANGED <<pc, file, config, dir_history, kept, saved>>
       ELSE /\ dir_history' = SubSeq(history, 1, Min({Len(history),
                                                     MAX_DIR_HISTORY}))
            /\ preferences_save(config, prefs, dir_history')
    /\ UNCHANGED <<prefs, dialogVars>>

Next ==
    \/ preferences_load \/ EndSync \/ Exit \/ KilledSaving
    \/ edit_preferences_cb \/ prefs_apply_cb \/ Cancel
    \/ \E s \in Edited : changed_cb(s)
    \/ \E f \in Values.log_flags : log_set_flags(f)
    \/ \E d \in Values.dryrun : preferences_set_dryrun(d)
    \/ \E d \in Dirs : change_directory(d)

Spec == Init /\ [][Next]_vars

-----------------------------------------------------------------------------
\* What a start takes for not set, or for a file of version 0.7.
Forgotten(v) == v \in {None, OldCommand}

\* What the file was written with last is what the next start loads, the
\* directories in their order included, whatever was saved in between, by which
\* of the callbacks, how often it was loaded, and however often the file could
\* not be opened: a save that succeeds makes up for those that did not. Only
\* empty colours, no flags at all, and commands that name gmake are forgotten.
\* If maketool is killed while it saves, everything is lost, and not some
\* settings only.  (preferences_save, preferences_load, ui_config_sync)
RestartKeeps ==
    pc # "saving" =>
        /\ \A s \in Settings : Loaded(file)[s] =
              IF Forgotten(saved.settings[s]) THEN Default[s]
              ELSE saved.settings[s]
        /\ LoadedDirs(file) = saved.dirs

\* A setting of the dialog, the make program apart, changes only if the user
\* has edited it: nothing that was cancelled is applied later. One that its
\* widget cannot hold, which the command line can set, becomes the nearest
\* value that it can.  (prefs_show, prefs_apply_cb)
AppliesOnlyEdits ==
    [][\A s \in Edited \ {"makeprog"} :
          pc = "up" /\ pc' # "down" /\ s \notin edited
             => prefs'[s] \in {prefs[s], Clamped(s, prefs[s])}]_vars

\* Cancel discards "all the changes" (help.sgml): what it discarded is not
\* applied later, the make program included.
CancelDiscards ==
    [][\A s \in Edited :
          pc = "up" /\ pc' # "down" /\ s \notin edited
             => prefs'[s] \in {prefs[s], Clamped(s, prefs[s])}]_vars
=============================================================================
