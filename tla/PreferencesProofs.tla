--------------------------- MODULE PreferencesProofs ---------------------------
(***************************************************************************)
(* For any directories, length of the history and number of edits:         *)
(*   - Apply changes only what the user has edited, since the widgets of a *)
(*     visible dialog hold what they make of the settings but where they   *)
(*     have been edited; the make program excepted;                        *)
(*   - a start loads what the file was written with last, since the table  *)
(*     keeps what has been handed to it, and the file, unless it is open,  *)
(*     what has been written.                                              *)
(***************************************************************************)
EXTENDS Preferences, SequenceFacts

ShownAgain == Edited \ {"makeprog"}

\* The settings in use are a setting each, and a program that is not running
\* shows no dialog.
SettingsKept ==
    /\ prefs = [s \in Settings |-> prefs[s]]
    /\ pc = "down" => visible = FALSE

\* What the widgets hold is what they make of the settings in use or what the
\* user has edited, and in their range.
WidgetsAgree ==
    visible => /\ shown = [s \in Edited |-> shown[s]]
               /\ \A s \in ShownAgain :
                     /\ Clamped(s, shown[s]) = shown[s]
                     /\ shown[s] # Clamped(s, prefs[s]) => s \in edited

DialogInv == SettingsKept /\ WidgetsAgree

-------------------------------------------------------------------------------
\* What is saved alone, and what is set from a menu, is not in the dialog.
LEMMA NotInDialog ==
    /\ Edited \subseteq Settings
    /\ "log_flags" \notin Edited /\ "dryrun" \notin Edited
    /\ {"log_flags", "dryrun", "run_processes"} \subseteq Settings
BY DEF Edited, Settings

LEMMA DefaultSettings == Default = [s \in Settings |-> Default[s]]
BY DEF Default, Settings

\* A widget keeps what is in its range, which everything is that it is set to.
LEMMA InRange ==
    /\ \A s, v : Clamped(s, Clamped(s, v)) = Clamped(s, v)
    /\ \A s \in Edited : \A v \in Values[s] : Clamped(s, v) = v
BY DEF Clamped, Edited, Values, TooFew, TooMany

\* A start gives every setting a value, and shows no dialog.
LEMMA LoadKeepsDialog ==
    ASSUME DialogInv, preferences_load
    PROVE  DialogInv'
<1>1. PICK k : prefs' = [Loaded(file) EXCEPT !.run_processes = k]
  BY DEF preferences_load
<1>2. prefs' = [s \in Settings |-> prefs'[s]]
  BY <1>1 DEF Loaded
<1>3. visible = FALSE /\ visible' = visible
  BY DEF DialogInv, SettingsKept, preferences_load, dialogVars
<1> QED
  BY <1>2, <1>3 DEF DialogInv, SettingsKept, WidgetsAgree

\* A program that ends leaves nothing in the dialog.
LEMMA DownKeepsDialog ==
    ASSUME Down
    PROVE  DialogInv'
BY DefaultSettings DEF Down, DialogInv, SettingsKept, WidgetsAgree

\* Showing the dialog sets every widget but one.
LEMMA ShowKeepsDialog ==
    ASSUME DialogInv, edit_preferences_cb
    PROVE  DialogInv'
<1>1. \A s \in ShownAgain : shown'[s] = Clamped(s, prefs'[s])
  BY DEF edit_preferences_cb, ShownAgain
<1>2. shown' = [s \in Edited |-> shown'[s]]
  BY DEF edit_preferences_cb
<1>3. SettingsKept'
  BY DEF DialogInv, SettingsKept, edit_preferences_cb
<1> QED
  BY <1>1, <1>2, <1>3, InRange DEF DialogInv, WidgetsAgree

\* An edit is remembered.
LEMMA EditKeepsDialog ==
    ASSUME DialogInv, NEW s \in Edited, changed_cb(s)
    PROVE  DialogInv'
<1>1. /\ visible /\ visible' = visible
      /\ prefs' = prefs /\ pc' = pc /\ pc = "up"
      /\ edited' = edited \cup {s}
  BY DEF changed_cb
<1>2. PICK v \in Values[s] : shown' = [shown EXCEPT ![s] = v]
  BY DEF changed_cb
<1>3. shown = [t \in Edited |-> shown[t]]
  BY <1>1 DEF DialogInv, WidgetsAgree
<1>4. shown' = [t \in Edited |-> shown'[t]]
  BY <1>2, <1>3
<1>5. \A t \in ShownAgain : t # s => shown'[t] = shown[t]
  BY <1>2, <1>3 DEF ShownAgain
<1>6. shown'[s] = v /\ Clamped(s, shown'[s]) = shown'[s]
  BY <1>2, <1>3, InRange
<1> QED
  BY <1>1, <1>4, <1>5, <1>6 DEF DialogInv, SettingsKept, WidgetsAgree

\* Apply makes the settings those of the widgets.
LEMMA ApplyKeepsDialog ==
    ASSUME DialogInv, prefs_apply_cb
    PROVE  DialogInv'
<1>1. /\ visible /\ shown' = shown /\ pc' # "down"
      /\ prefs' = [s \in Settings |->
                      IF s \in Edited THEN shown[s] ELSE prefs[s]]
  BY DEF prefs_apply_cb, preferences_save, ui_config_sync
<1>2. \A s \in ShownAgain : /\ Clamped(s, shown'[s]) = shown'[s]
                            /\ shown'[s] = prefs'[s]
  BY <1>1, NotInDialog DEF ShownAgain, DialogInv, WidgetsAgree
<1>3. shown' = [s \in Edited |-> shown'[s]]
  BY <1>1 DEF DialogInv, WidgetsAgree
<1>4. SettingsKept'
  BY <1>1 DEF SettingsKept
<1> QED
  BY <1>2, <1>3, <1>4 DEF DialogInv, WidgetsAgree

\* What else changes a setting changes none of the dialog.
LEMMA OtherSettings ==
    ASSUME SettingsKept,
           \/ \E f \in Values.log_flags : log_set_flags(f)
           \/ \E d \in Values.dryrun : preferences_set_dryrun(d)
    PROVE  /\ prefs' = [s \in Settings |-> prefs'[s]]
           /\ \A s \in Edited : prefs'[s] = prefs[s]
           /\ pc' # "down" /\ UNCHANGED dialogVars
<1>1. CASE \E f \in Values.log_flags : log_set_flags(f)
  <2>1. PICK f : log_set_flags(f)
    BY <1>1
  <2>2. prefs' = [prefs EXCEPT !.log_flags = f]
    BY <2>1 DEF log_set_flags
  <2>3. pc' # "down" /\ UNCHANGED dialogVars
    BY <2>1 DEF log_set_flags, preferences_save, ui_config_sync
  <2> QED
    BY <2>2, <2>3, NotInDialog DEF SettingsKept
<1>2. CASE \E d \in Values.dryrun : preferences_set_dryrun(d)
  <2>1. PICK d : preferences_set_dryrun(d)
    BY <1>2
  <2>2. prefs' = [prefs EXCEPT !.dryrun = d]
    BY <2>1 DEF preferences_set_dryrun
  <2>3. pc' # "down" /\ UNCHANGED dialogVars
    BY <2>1 DEF preferences_set_dryrun, ui_config_sync
  <2> QED
    BY <2>2, <2>3, NotInDialog DEF SettingsKept
<1> QED
  BY <1>1, <1>2

\* Every step keeps the invariant.
LEMMA DialogStep ==
    ASSUME DialogInv, [Next]_vars
    PROVE  DialogInv'
<1>1. CASE preferences_load
  BY <1>1, LoadKeepsDialog
<1>2. CASE EndSync
  BY <1>2 DEF EndSync, DialogInv, SettingsKept, WidgetsAgree, dialogVars
<1>3. CASE Exit
  BY <1>3, DownKeepsDialog DEF Exit
<1>4. CASE KilledSaving
  BY <1>4, DownKeepsDialog DEF KilledSaving
<1>5. CASE edit_preferences_cb
  BY <1>5, ShowKeepsDialog
<1>6. CASE prefs_apply_cb
  BY <1>6, ApplyKeepsDialog
<1>7. CASE Cancel
  BY <1>7 DEF Cancel, DialogInv, SettingsKept, WidgetsAgree
<1>8. ASSUME NEW s \in Edited, changed_cb(s) PROVE DialogInv'
  BY <1>8, EditKeepsDialog
<1>9. CASE \/ \E f \in Values.log_flags : log_set_flags(f)
           \/ \E d \in Values.dryrun : preferences_set_dryrun(d)
  <2>1. SettingsKept /\ WidgetsAgree
    BY DEF DialogInv
  <2>2. /\ prefs' = [s \in Settings |-> prefs'[s]]
        /\ \A s \in Edited : prefs'[s] = prefs[s]
        /\ pc' # "down" /\ UNCHANGED dialogVars
    BY <1>9, <2>1, OtherSettings
  <2>3. visible' = visible /\ shown' = shown /\ edited' = edited
    BY <2>2 DEF dialogVars
  <2>4. \A s \in ShownAgain : prefs'[s] = prefs[s]
    BY <2>2 DEF ShownAgain
  <2>5. SettingsKept'
    BY <2>2 DEF SettingsKept
  <2>6. WidgetsAgree'
    BY <2>1, <2>3, <2>4 DEF WidgetsAgree
  <2> QED
    BY <2>5, <2>6 DEF DialogInv
<1>10. ASSUME NEW d \in Dirs, change_directory(d) PROVE DialogInv'
  <2>1. prefs' = prefs /\ UNCHANGED dialogVars
    BY <1>10 DEF change_directory
  <2>2. pc' # "down"
    BY <1>10 DEF change_directory, preferences_save, ui_config_sync
  <2> QED
    BY <2>1, <2>2 DEF DialogInv, SettingsKept, WidgetsAgree, dialogVars
<1>11. CASE UNCHANGED vars
  BY <1>11 DEF vars, dialogVars, DialogInv, SettingsKept, WidgetsAgree
<1> QED
  BY <1>1, <1>2, <1>3, <1>4, <1>5, <1>6, <1>7, <1>8, <1>9, <1>10, <1>11
     DEF Next

\* The widgets of a dialog that the user sees hold what is in use, or the
\* nearest value that they can, or what has been edited (prefs_show,
\* prefs_apply_cb).
THEOREM WidgetsAlwaysAgree == Spec => []DialogInv
<1>1. Init => DialogInv
  BY DefaultSettings DEF Init, DialogInv, SettingsKept, WidgetsAgree
<1> QED
  BY <1>1, DialogStep, PTL DEF Spec

-------------------------------------------------------------------------------
\* A step changes a setting of the dialog only by Apply, to what its widget
\* holds, which is what the widget made of it unless the user has edited it.
LEMMA ChangeWasEdited ==
    ASSUME DialogInv, [Next]_vars, NEW s \in ShownAgain,
           pc = "up", pc' # "down", s \notin edited
    PROVE  prefs'[s] \in {prefs[s], Clamped(s, prefs[s])}
<1>0. s \in Edited /\ s \in Settings
  BY NotInDialog DEF ShownAgain
<1>1. CASE prefs_apply_cb
  <2>1. visible /\ prefs'[s] = shown[s]
    BY <1>0, <1>1 DEF prefs_apply_cb
  <2> QED
    BY <2>1 DEF DialogInv, WidgetsAgree
<1>2. CASE \/ \E f \in Values.log_flags : log_set_flags(f)
           \/ \E d \in Values.dryrun : preferences_set_dryrun(d)
  BY <1>0, <1>2, OtherSettings DEF DialogInv
<1>3. CASE \/ Cancel \/ EndSync \/ edit_preferences_cb \/ UNCHANGED vars
           \/ \E t \in Edited : changed_cb(t)
           \/ \E d \in Dirs : change_directory(d)
  BY <1>3 DEF Cancel, EndSync, edit_preferences_cb, changed_cb,
              change_directory, vars
<1>4. CASE preferences_load \/ Exit \/ KilledSaving
  BY <1>4 DEF preferences_load, Exit, KilledSaving, Down
<1> QED
  BY <1>1, <1>2, <1>3, <1>4 DEF Next

\* Nothing that was cancelled is applied later, whatever is edited, shown,
\* saved and killed in between: a setting of the dialog, the make program
\* apart, changes only if the user has edited it, or from a value that its
\* widget cannot hold to the nearest that it can (prefs_apply_cb).
THEOREM OnlyEditsApplied == Spec => AppliesOnlyEdits
<1>1. DialogInv /\ [Next]_vars
        => [\A s \in Edited \ {"makeprog"} :
               pc = "up" /\ pc' # "down" /\ s \notin edited
                 => prefs'[s] \in {prefs[s], Clamped(s, prefs[s])}]_vars
  BY ChangeWasEdited DEF ShownAgain
<1> QED
  BY <1>1, WidgetsAlwaysAgree, PTL DEF Spec, AppliesOnlyEdits
-------------------------------------------------------------------------------
(***************************************************************************)
(* What a start finds: RestartKeeps.                                       *)
(***************************************************************************)
\* A value of a setting, which is no text of its own for "not set", and names
\* gmake in a command only.
CanBeSet(s, v) == v # Unset /\ (v = OldCommand => s = "prog_make")

SetIn(p) ==
    /\ p = [s \in Settings |-> p[s]]
    /\ \A s \in Settings : CanBeSet(s, p[s])

IsTable(t) ==
    t = [settings |-> [s \in Settings |-> t.settings[s]], dirs |-> t.dirs]

\* What a start makes of a setting that was saved.
Kept(s, v) == IF Forgotten(v) THEN Default[s] ELSE v

\* The directories q of a table give the history h: they begin with it, and
\* what comes behind it is left out when they are read.
Gives(q, h) ==
    /\ q \in Seq(Dirs) /\ h \in Seq(Dirs)
    /\ Len(h) <= Len(q) /\ Len(h) <= MAX_DIR_HISTORY
    /\ \A i \in 1..Len(h) : q[i] = h[i]
    /\ \A i, j \in 1..Len(h) : h[i] = h[j] => i = j
    /\ Len(h) < MAX_DIR_HISTORY =>
          \A i \in 1..Len(q) : \E j \in 1..Len(h) : h[j] = q[i]

\* The table t gives what was saved.
Keeps(t, sv) ==
    /\ \A s \in Settings : Loaded(t)[s] = Kept(s, sv.settings[s])
    /\ Gives(t.dirs, sv.dirs)

\* What can be saved: a value of each setting, and directories.
Savable(k) == IsTable(k) /\ SetIn(k.settings)

\* A program that runs has what was handed to the table last there, and the
\* file what it was written with last; while it is open it is empty, and what
\* is in the table is being written.
TableInv ==
    /\ IsTable(config) /\ IsTable(file)
    /\ pc \in {"down", "up", "saving"}
    /\ pc # "saving" => Keeps(file, saved)
    /\ pc # "down" => Keeps(config, kept) /\ kept.dirs = dir_history
    /\ pc = "saving" => file = Nothing /\ saved = kept

\* Values only are in use, in the dialog, and saved.
ValuesInv ==
    /\ SetIn(prefs)
    /\ Savable(kept) /\ Savable(saved)
    /\ visible \/ shown # NotCreated =>
          /\ shown = [s \in Edited |-> shown[s]]
          /\ \A s \in Edited : CanBeSet(s, shown[s])
    /\ cwd \in Dirs

RestartInv == TableInv /\ ValuesInv

-------------------------------------------------------------------------------
\* Reading the directories of a file.
IsReading(g, q) ==
    g = [i \in 0..Len(q) |-> IF i = 0 THEN <<>> ELSE WithDir(g[i - 1], q[i])]

LEMMA LoadedReading ==
    ASSUME NEW f
    PROVE  LoadedDirs(f) = (CHOOSE g : IsReading(g, f.dirs))[Len(f.dirs)]
  BY Zenon DEF LoadedDirs, IsReading

\* All readings of a file end alike: they cannot differ at a first place.
LEMMA ReadAlike ==
    ASSUME NEW q \in Seq(Dirs), NEW g, NEW k, IsReading(g, q), IsReading(k, q)
    PROVE  g[Len(q)] = k[Len(q)]
<1> DEFINE T == {i \in 0..Len(q) : g[i] # k[i]}
<1>1. T # {} => \E m \in T : \A i \in T : m <= i
  <2>1. T \in SUBSET Nat
    OBVIOUS
  <2> QED
    BY <2>1, LeastNumber
<1>2. g[0] = k[0]
  BY DEF IsReading
<1>3. \A i \in 1..Len(q) : /\ g[i] = WithDir(g[i - 1], q[i])
                           /\ k[i] = WithDir(k[i - 1], q[i])
  <2>1. ASSUME NEW i \in 1..Len(q)
        PROVE  /\ g[i] = WithDir(g[i - 1], q[i])
               /\ k[i] = WithDir(k[i - 1], q[i])
    <3>1. i \in 0..Len(q) /\ i # 0
      OBVIOUS
    <3> QED
      BY <3>1 DEF IsReading
  <2> QED
    BY <2>1
<1>4. ASSUME NEW m \in T, \A i \in T : m <= i
      PROVE  FALSE
  <2>1. m # 0 /\ m \in 1..Len(q) /\ m - 1 \in 0..Len(q) /\ m - 1 \notin T
    BY <1>2, <1>4
  <2>2. g[m - 1] = k[m - 1]
    BY <2>1
  <2>3. g[m] = k[m]
    BY <1>3, <2>1, <2>2
  <2> QED
    BY <2>3
<1>5. Len(q) \in 0..Len(q)
  OBVIOUS
<1> QED
  BY <1>1, <1>4, <1>5

\* A history that the directories give is what reading them leaves.
LEMMA GivesIsLoaded ==
    ASSUME NEW f, NEW h, Gives(f.dirs, h)
    PROVE  LoadedDirs(f) = h
<1> DEFINE q == f.dirs
           m == Len(h)
           Upto(i) == SubSeq(h, 1, IF i <= m THEN i ELSE m)
           g == [i \in 0..Len(q) |-> Upto(i)]
<1>1. /\ q \in Seq(Dirs) /\ h \in Seq(Dirs) /\ m \in Nat /\ Len(q) \in Nat
      /\ m <= Len(q) /\ m <= MAX_DIR_HISTORY /\ MAX_DIR_HISTORY \in Nat
      /\ \A i \in 1..m : q[i] = h[i]
      /\ \A i, j \in 1..m : h[i] = h[j] => i = j
      /\ m < MAX_DIR_HISTORY =>
            \A i \in 1..Len(q) : \E j \in 1..m : h[j] = q[i]
  BY PreferencesAssumption DEF Gives
<1>2. /\ Upto(0) = <<>> /\ Upto(Len(q)) = h
      /\ \A i \in 0..Len(q) :
            /\ Upto(i) \in Seq(Dirs)
            /\ Len(Upto(i)) = IF i <= m THEN i ELSE m
            /\ \A j \in 1..Len(Upto(i)) : Upto(i)[j] = h[j]
  BY <1>1
<1>3. ASSUME NEW i \in 1..Len(q)
      PROVE  Upto(i) = WithDir(Upto(i - 1), q[i])
  <2>0. i - 1 \in 0..Len(q) /\ i \in 0..Len(q)
    BY <1>1
  <2>1. CASE i <= m
    <3>1. ~ Contains(Upto(i - 1), q[i])
      BY <1>1, <1>2, <2>0, <2>1 DEF Contains
    <3>2. Len(Upto(i - 1)) # MAX_DIR_HISTORY
      <4>1. i - 1 <= m
        BY <1>1, <2>1
      <4>2. Len(Upto(i - 1)) = i - 1
        BY <1>2, <2>0, <4>1
      <4> HIDE DEF Upto
      <4> QED
        BY <1>1, <2>1, <4>2
    <3>3. Upto(i) = Append(Upto(i - 1), q[i])
      BY <1>1, <1>2, <2>0, <2>1
    <3> HIDE DEF Upto
    <3> QED
      BY <3>1, <3>2, <3>3 DEF WithDir
  <2>2. CASE i > m
    <3>1. Upto(i - 1) = h /\ Upto(i) = h
      BY <1>1, <2>2
    <3>2. Contains(h, q[i]) \/ Len(h) = MAX_DIR_HISTORY
      BY <1>1 DEF Contains
    <3> HIDE DEF Upto
    <3> QED
      BY <3>1, <3>2 DEF WithDir
  <2> QED
    BY <1>1, <2>1, <2>2
<1>4. IsReading(g, q)
  <2>1. \A i \in 0..Len(q) :
            Upto(i) = IF i = 0 THEN <<>> ELSE WithDir(g[i - 1], q[i])
    <3>1. ASSUME NEW i \in 0..Len(q)
          PROVE  Upto(i) = IF i = 0 THEN <<>> ELSE WithDir(g[i - 1], q[i])
      <4>1. CASE i = 0
        BY <1>2, <4>1
      <4>2. CASE i # 0
        <5>1. i \in 1..Len(q) /\ i - 1 \in 0..Len(q)
          BY <1>1, <4>2
        <5>2. g[i - 1] = Upto(i - 1)
          BY <5>1
        <5> QED
          BY <1>3, <4>2, <5>1, <5>2
      <4> QED
        BY <4>1, <4>2
    <3> QED
      BY <3>1
  <2> HIDE DEF Upto
  <2> QED
    BY <2>1 DEF IsReading
<1>5. IsReading(CHOOSE k : IsReading(k, q), q)
  BY <1>4
<1>6. (CHOOSE k : IsReading(k, q))[Len(q)] = g[Len(q)]
  BY <1>1, <1>4, <1>5, ReadAlike
<1>7. g[Len(q)] = h
  BY <1>1, <1>2
<1> QED
  BY <1>6, <1>7, LoadedReading

-------------------------------------------------------------------------------
(***************************************************************************)
(* Values and texts.                                                       *)
(***************************************************************************)
LEMMA Constants ==
    /\ None \notin {Unset, OldCommand, NewCommand, Colour}
    /\ {OldCommand, NewCommand, Colour} \cap {None, Unset} = {}
    /\ OldCommand \notin {Unset, NewCommand, Colour}
    /\ {None, Unset, OldCommand} \cap
          {"FALSE", "TRUE", "SHOW_ERRORS", "gmake", "pmake",
           "2", "10", TooFew, TooMany} = {}
  BY Zenon DEF None, Unset, OldCommand, NewCommand, Colour, TooFew, TooMany

LEMMA ValuesOfEach ==
    /\ Values["run_processes"] = {"2", "10"}
    /\ Values["dryrun"] = {"FALSE", "TRUE"}
    /\ Values["log_flags"] = {None, "SHOW_ERRORS"}
    /\ Values["bgcolor_error"] = {None, Colour}
    /\ Values["prog_make"] = {OldCommand, NewCommand}
    /\ Values["makeprog"] = {"gmake", "pmake"}
  BY DEF Values

LEMMA DefaultOfEach ==
    /\ Default["run_processes"] = "2" /\ Default["dryrun"] = "FALSE"
    /\ Default["log_flags"] = "SHOW_ERRORS"
    /\ Default["bgcolor_error"] = Colour
    /\ Default["prog_make"] = NewCommand
    /\ Default["makeprog"] = "gmake"
  BY DEF Default

\* Every value that the dialog or a menu offers can be set.
LEMMA ValuesCanBeSet ==
    \A s \in Settings : \A v \in Values[s] : CanBeSet(s, v)
<1>1. ASSUME NEW s \in Settings, NEW v \in Values[s]
      PROVE  v # Unset /\ (v = OldCommand => s = "prog_make")
  <2>1. CASE s \in {"run_processes", "dryrun"}
    BY <1>1, <2>1, Constants, ValuesOfEach
  <2>2. CASE s = "log_flags"
    BY <1>1, <2>2, Constants, ValuesOfEach
  <2>3. CASE s = "bgcolor_error"
    BY <1>1, <2>3, Constants, ValuesOfEach
  <2>4. CASE s = "prog_make"
    BY <1>1, <2>4, Constants, ValuesOfEach
  <2>5. CASE s = "makeprog"
    BY <1>1, <2>5, Constants, ValuesOfEach
  <2> QED
    BY <2>1, <2>2, <2>3, <2>4, <2>5 DEF Settings
<1> QED
  BY <1>1 DEF CanBeSet

LEMMA DefaultsCanBeSet ==
    \A s \in Settings : CanBeSet(s, Default[s]) /\ ~ Forgotten(Default[s])
<1>1. ASSUME NEW s \in Settings
      PROVE  Default[s] # Unset /\ Default[s] # OldCommand /\ Default[s] # None
  BY Constants, DefaultOfEach DEF Settings
<1> QED
  BY <1>1 DEF CanBeSet, Forgotten

\* What a widget makes of a value can be set, too.
LEMMA ClampedCanBeSet ==
    ASSUME NEW s, NEW v, CanBeSet(s, v)
    PROVE  CanBeSet(s, Clamped(s, v))
  BY Constants DEF CanBeSet, Clamped

\* A value comes back from its text, unless it is forgotten.
LEMMA TextKept ==
    ASSUME NEW s \in Settings, NEW v, CanBeSet(s, v)
    PROVE  FromText(s, ToText(v)) = Kept(s, v)
  BY Constants
     DEF CanBeSet, FromText, ToText, Kept, Forgotten, Obsolete

\* What comes back is kept from then on.
LEMMA KeptOnce ==
    ASSUME NEW s \in Settings, NEW v, CanBeSet(s, v)
    PROVE  /\ Kept(s, Kept(s, v)) = Kept(s, v)
           /\ CanBeSet(s, Kept(s, v))
  BY DefaultsCanBeSet DEF Kept, CanBeSet
-------------------------------------------------------------------------------
(***************************************************************************)
(* Tables.                                                                 *)
(***************************************************************************)
LEMMA NothingKeeps ==
    /\ IsTable(Nothing)
    /\ Keeps(Nothing, Lost)
    /\ Savable(Lost)
<1>1. \A s \in Settings : Loaded(Nothing)[s] = Default[s]
  BY DEF Nothing, Loaded, FromText
<1>2. \A s \in Settings : Kept(s, Default[s]) = Default[s]
  BY DefaultsCanBeSet DEF Kept
<1>3. Gives(<<>>, <<>>)
  BY PreferencesAssumption DEF Gives
<1>4. Nothing.dirs = <<>> /\ IsTable(Nothing)
  BY DEF Nothing, IsTable
<1>5. SetIn(Default)
  BY DefaultSettings, DefaultsCanBeSet DEF SetIn
<1>6. Savable(Lost)
  BY <1>5, DefaultSettings DEF Lost, Savable, IsTable
<1> QED
  BY <1>1, <1>2, <1>3, <1>4, <1>6 DEF Keeps, Lost

\* The history h can be written over the directories q: if it is not full, it
\* has those that are left behind it.
Fits(q, h) ==
    /\ q \in Seq(Dirs) /\ h \in Seq(Dirs)
    /\ Len(h) <= MAX_DIR_HISTORY
    /\ \A i, j \in 1..Len(h) : h[i] = h[j] => i = j
    /\ Len(h) < MAX_DIR_HISTORY =>
          \A i \in Len(h)+1..Len(q) : \E j \in 1..Len(h) : h[j] = q[i]

LEMMA GivesFits ==
    ASSUME NEW q, NEW h, Gives(q, h)
    PROVE  Fits(q, h)
<1>1. \A i \in Len(h)+1..Len(q) : i \in 1..Len(q)
  BY DEF Gives
<1> QED
  BY <1>1 DEF Gives, Fits

LEMMA WrittenGives ==
    ASSUME NEW q, NEW h, Fits(q, h)
    PROVE  Gives(h \o SubSeq(q, Len(h) + 1, Len(q)), h)
<1> DEFINE n == Len(h)
           r == SubSeq(q, n + 1, Len(q))
           t == h \o r
<1>1. /\ q \in Seq(Dirs) /\ h \in Seq(Dirs) /\ n \in Nat /\ Len(q) \in Nat
      /\ n <= MAX_DIR_HISTORY
      /\ n < MAX_DIR_HISTORY =>
            \A i \in n+1..Len(q) : \E j \in 1..n : h[j] = q[i]
  BY DEF Fits
<1>2. /\ r \in Seq(Dirs)
      /\ Len(r) = IF n < Len(q) THEN Len(q) - n ELSE 0
      /\ \A i \in 1..Len(r) : r[i] = q[n + i]
  BY <1>1
<1>3. /\ t \in Seq(Dirs) /\ Len(t) = n + Len(r)
      /\ \A i \in 1..n : t[i] = h[i]
      /\ \A i \in n+1..Len(t) : t[i] = r[i - n]
  <2> HIDE DEF r, n
  <2>1. Len(h) = n
    BY DEF n
  <2> QED
    BY <1>1, <1>2, <2>1
<1>4. ASSUME n < MAX_DIR_HISTORY, NEW i \in 1..Len(t)
      PROVE  \E j \in 1..n : h[j] = t[i]
  <2>1. CASE i <= n
    BY <1>1, <1>3, <2>1
  <2>2. CASE i > n
    <3>1. /\ i - n \in 1..Len(r) /\ i \in n+1..Len(t)
          /\ n + (i - n) = i /\ i \in n+1..Len(q)
      BY <1>1, <1>2, <1>3, <2>2
    <3>2. t[i] = q[i]
      <4> HIDE DEF r, t, n
      <4> QED
        BY <1>2, <1>3, <3>1
    <3> HIDE DEF r, t, n
    <3> QED
      BY <1>1, <1>4, <3>1, <3>2
  <2> QED
    BY <1>1, <2>1, <2>2
<1>5. n <= Len(t)
  <2> HIDE DEF n, r, t
  <2> QED
    BY <1>1, <1>2, <1>3
<1>6. \A i, j \in 1..n : h[i] = h[j] => i = j
  BY DEF Fits
<1> HIDE DEF r, t
<1>7. Gives(t, h)
  BY <1>1, <1>3, <1>4, <1>5, <1>6 DEF Gives
<1> QED
  BY <1>7 DEF r, t

\* A table written over another gives what it was written from.
LEMMA TableKeeps ==
    ASSUME NEW old, NEW p, NEW h, SetIn(p), Fits(old.dirs, h)
    PROVE  /\ IsTable(Table(old, p, h))
           /\ Savable([settings |-> p, dirs |-> h])
           /\ Keeps(Table(old, p, h), [settings |-> p, dirs |-> h])
<1>1. \A s \in Settings : Loaded(Table(old, p, h))[s] = Kept(s, p[s])
  <2>1. \A s \in Settings : Table(old, p, h).settings[s] = ToText(p[s])
    BY DEF Table
  <2>2. ASSUME NEW s \in Settings
        PROVE  Loaded(Table(old, p, h))[s] = Kept(s, p[s])
    <3>1. CanBeSet(s, p[s])
      BY DEF SetIn
    <3>2. FromText(s, ToText(p[s])) = Kept(s, p[s])
      BY <3>1, TextKept
    <3> QED
      BY <2>1, <3>2 DEF Loaded
  <2> QED
    BY <2>2
<1>2. Gives(Table(old, p, h).dirs, h)
  BY WrittenGives DEF Table
<1>3. IsTable(Table(old, p, h)) /\ Savable([settings |-> p, dirs |-> h])
  BY DEF Table, IsTable, Savable, SetIn
<1> QED
  BY <1>1, <1>2, <1>3 DEF Keeps

\* What has been read once is kept when it is read again.
LEMMA LoadedKept ==
    ASSUME NEW t, NEW sv, SetIn(sv.settings), Keeps(t, sv)
    PROVE  /\ SetIn(Loaded(t))
           /\ LoadedDirs(t) = sv.dirs
           /\ Keeps(t, [settings |-> Loaded(t), dirs |-> LoadedDirs(t)])
<1>1. \A s \in Settings : CanBeSet(s, sv.settings[s])
  BY DEF SetIn
<1>2. \A s \in Settings : Loaded(t)[s] = Kept(s, sv.settings[s])
  BY DEF Keeps
<1>3. \A s \in Settings : /\ CanBeSet(s, Loaded(t)[s])
                          /\ Kept(s, Loaded(t)[s]) = Loaded(t)[s]
  BY <1>1, <1>2, KeptOnce
<1>4. SetIn(Loaded(t))
  <2>1. Loaded(t) = [s \in Settings |-> Loaded(t)[s]]
    BY DEF Loaded
  <2> QED
    BY <1>3, <2>1 DEF SetIn
<1>5. LoadedDirs(t) = sv.dirs
  BY GivesIsLoaded DEF Keeps
<1> QED
  BY <1>3, <1>4, <1>5 DEF Keeps
-------------------------------------------------------------------------------
(***************************************************************************)
(* Steps.                                                                  *)
(***************************************************************************)
LEMMA InitRestart == Init => RestartInv
<1> SUFFICES ASSUME Init PROVE RestartInv
  OBVIOUS
<1>1. /\ pc = "down" /\ config = Nothing /\ prefs = Default
      /\ cwd \in Dirs /\ visible = FALSE /\ shown = NotCreated
      /\ file \in {Nothing, Version07}
      /\ saved = [settings |-> Loaded(file), dirs |-> <<>>]
      /\ kept = saved
  BY DEF Init
<1>2. IsTable(Nothing) /\ IsTable(Version07)
  BY NothingKeeps, DefaultSettings DEF Version07, IsTable
<1>3. \A s \in Settings : CanBeSet(s, Loaded(file)[s])
                          /\ Kept(s, Loaded(file)[s]) = Loaded(file)[s]
  <2>1. CASE file = Nothing
    <3>1. \A s \in Settings : Loaded(file)[s] = Default[s]
      BY <2>1 DEF Nothing, Loaded, FromText
    <3> QED
      BY <3>1, DefaultsCanBeSet DEF Kept
  <2>2. CASE file = Version07
    <3>1. /\ "run_processes" \in Settings /\ "prog_make" \in Settings
          /\ "makeprog" \in Settings
      BY DEF Settings
    <3>2. \A s \in Settings :
             file.settings[s] = IF s = "makeprog" THEN Unset
                                ELSE IF s = "prog_make" THEN OldCommand
                                ELSE IF s = "run_processes" THEN "10"
                                ELSE Default[s]
      BY <2>2, DefaultSettings DEF Version07
    <3>3. \A s \in Settings :
             \/ Loaded(file)[s] = Default[s]
             \/ s = "run_processes" /\ Loaded(file)[s] = "10"
      BY <3>2 DEF Loaded, FromText, Obsolete
    <3>4. CanBeSet("run_processes", "10") /\ ~ Forgotten("10")
      BY Constants DEF CanBeSet, Forgotten
    <3> QED
      BY <3>3, <3>4, DefaultsCanBeSet DEF Kept
  <2> QED
    BY <1>1, <2>1, <2>2
<1>4. SetIn(Loaded(file)) /\ Savable(saved)
  <2>1. Loaded(file) = [s \in Settings |-> Loaded(file)[s]]
    BY DEF Loaded
  <2> QED
    BY <1>1, <1>3, <2>1 DEF SetIn, IsTable, Savable
<1>5. Keeps(file, saved)
  <2>1. Gives(<<>>, <<>>)
    BY NothingKeeps DEF Keeps, Nothing, Lost
  <2>2. file.dirs = <<>>
    BY <1>1 DEF Nothing, Version07
  <2> QED
    BY <1>1, <1>3, <2>1, <2>2 DEF Keeps
<1>6. SetIn(Default)
  BY DefaultSettings, DefaultsCanBeSet DEF SetIn
<1>7. TableInv
  BY <1>1, <1>2, <1>5 DEF TableInv
<1>8. ValuesInv
  BY <1>1, <1>4, <1>6 DEF ValuesInv
<1> QED
  BY <1>7, <1>8 DEF RestartInv

\* ui_config_sync() keeps the table that it writes, and the file: it is opened
\* and empty, or what it was.
LEMMA SyncKeeps ==
    ASSUME TableInv, pc # "saving", Savable(saved),
           NEW t, NEW k, IsTable(t), Keeps(t, k), Savable(k),
           k.dirs = dir_history', ui_config_sync(t, k)
    PROVE  TableInv' /\ Savable(kept)' /\ Savable(saved)'
<1>1. config' = t /\ kept' = k
  BY DEF ui_config_sync
<1>2. CASE file' = Nothing /\ pc' = "saving" /\ saved' = k
  <2>1. TableInv'
    BY <1>1, <1>2, NothingKeeps DEF TableInv
  <2> QED
    BY <1>1, <1>2, <2>1 DEF Savable, IsTable, SetIn
<1>3. CASE pc' = "up" /\ file' = file /\ saved' = saved
  <2>1. TableInv'
    BY <1>1, <1>3 DEF TableInv
  <2> QED
    BY <1>1, <1>3, <2>1 DEF Savable, IsTable, SetIn
<1> QED
  BY <1>2, <1>3 DEF ui_config_sync

LEMMA DialogValues ==
    ASSUME ValuesInv, UNCHANGED dialogVars,
           SetIn(prefs)', Savable(kept)', Savable(saved)', cwd' \in Dirs
    PROVE  ValuesInv'
  BY DEF ValuesInv, dialogVars

LEMMA LoadKeepsTable ==
    ASSUME RestartInv, preferences_load
    PROVE  RestartInv'
<1> DEFINE loaded == Loaded(file)
           dirs == LoadedDirs(file)
           k == [settings |-> loaded, dirs |-> dirs]
<1>1. /\ pc = "down" /\ IsTable(file) /\ Keeps(file, saved)
      /\ SetIn(saved.settings) /\ Savable(saved) /\ ValuesInv /\ TableInv
  BY DEF RestartInv, TableInv, ValuesInv, Savable, preferences_load
<1>2. /\ SetIn(loaded) /\ dirs = saved.dirs
      /\ Keeps(file, k)
  BY <1>1, LoadedKept
<1>3. /\ dir_history' = dirs /\ cwd' \in Dirs /\ UNCHANGED dialogVars
      /\ \E j \in {loaded.run_processes, TooFew, TooMany}
                   \cup Values.run_processes :
            prefs' = [loaded EXCEPT !.run_processes = j]
      /\ \/ preferences_save(file, loaded, dirs)
         \/ SaveFails(Table(file, loaded, dirs), k)
         \/ /\ pc' = "up" /\ config' = file /\ kept' = k
            /\ UNCHANGED <<file, saved>>
  BY DEF preferences_load
<1>4. k.dirs = dir_history' /\ Savable(k)
  BY <1>2, <1>3 DEF Savable, IsTable, SetIn
<1>5. /\ IsTable(Table(file, loaded, dirs))
      /\ Keeps(Table(file, loaded, dirs), k)
  <2>1. Fits(file.dirs, dirs)
    BY <1>2, GivesFits DEF Keeps
  <2> QED
    BY <1>2, <2>1, TableKeeps
<1> HIDE DEF loaded, dirs
<1>6. SetIn(prefs)'
  <2>1. PICK j \in {loaded.run_processes, TooFew, TooMany}
                      \cup Values.run_processes :
           prefs' = [loaded EXCEPT !.run_processes = j]
    BY <1>3
  <2>2. "run_processes" \in Settings
    BY DEF Settings
  <2>3. CanBeSet("run_processes", j)
    <3>1. CASE j = loaded.run_processes
      BY <1>2, <2>2, <3>1 DEF SetIn
    <3>2. CASE j \in Values.run_processes
      BY <2>2, <3>2, ValuesCanBeSet
    <3>3. CASE j \in {TooFew, TooMany}
      BY <3>3, Constants DEF CanBeSet
    <3> QED
      BY <2>1, <3>1, <3>2, <3>3
  <2> QED
    BY <1>2, <2>1, <2>3 DEF SetIn
<1>7. TableInv' /\ Savable(kept)' /\ Savable(saved)'
  <2>1. CASE preferences_save(file, loaded, dirs)
    <3>1. ui_config_sync(Table(file, loaded, dirs), k)
      BY <2>1 DEF preferences_save
    <3> HIDE DEF k
    <3> QED
      BY <1>1, <1>4, <1>5, <3>1, SyncKeeps
  <2>2. CASE SaveFails(Table(file, loaded, dirs), k)
    <3>1. /\ config' = Table(file, loaded, dirs) /\ kept' = k
          /\ file' = Nothing /\ saved' = Lost /\ pc' = "up"
      BY <2>2 DEF SaveFails
    <3> HIDE DEF k
    <3>2. TableInv'
      BY <1>4, <1>5, <3>1, NothingKeeps DEF TableInv
    <3> QED
      BY <1>4, <3>1, <3>2, NothingKeeps DEF Savable, IsTable, SetIn
  <2>3. CASE /\ pc' = "up" /\ config' = file /\ kept' = k
             /\ UNCHANGED <<file, saved>>
    <3> HIDE DEF k
    <3>1. TableInv'
      BY <1>1, <1>2, <1>4, <2>3 DEF TableInv
    <3> QED
      BY <1>1, <1>4, <2>3, <3>1 DEF Savable, IsTable, SetIn
  <2> QED
    BY <1>3, <2>1, <2>2, <2>3
<1>8. ValuesInv'
  BY <1>1, <1>3, <1>6, <1>7, DialogValues
<1> QED
  BY <1>7, <1>8 DEF RestartInv

LEMMA DownKeepsTable ==
    ASSUME RestartInv, Exit \/ KilledSaving
    PROVE  RestartInv'
<1>1. /\ pc' = "down" /\ config' = Nothing /\ prefs' = Default
      /\ shown' = NotCreated /\ visible' = FALSE /\ kept' = saved'
      /\ file' = file /\ cwd' = cwd
  BY DEF Exit, KilledSaving, Down
<1>2. SetIn(Default)
  BY DefaultSettings, DefaultsCanBeSet DEF SetIn
<1>3. /\ Keeps(file, saved')
      /\ Savable(saved')
  <2>1. CASE Exit
    BY <2>1 DEF Exit, RestartInv, TableInv, ValuesInv
  <2>2. CASE KilledSaving
    <3>1. file = Nothing /\ saved' = Lost
      BY <2>2 DEF KilledSaving, RestartInv, TableInv
    <3> QED
      BY <3>1, NothingKeeps
  <2> QED
    BY <2>1, <2>2
<1>4. TableInv'
  BY <1>1, <1>3, NothingKeeps DEF RestartInv, TableInv
<1>5. ValuesInv'
  BY <1>1, <1>2, <1>3 DEF RestartInv, ValuesInv
<1> QED
  BY <1>4, <1>5 DEF RestartInv

\* Whatever saves everything writes the settings and the history over the
\* table of before.
LEMMA SaveKeepsTable ==
    ASSUME RestartInv, pc = "up", SetIn(prefs)',
           preferences_save(config, prefs', dir_history'),
           Fits(config.dirs, dir_history')
    PROVE  TableInv' /\ Savable(kept)' /\ Savable(saved)'
<1> DEFINE k == [settings |-> prefs', dirs |-> dir_history']
           t == Table(config, prefs', dir_history')
<1>1. ui_config_sync(t, k) /\ k.dirs = dir_history'
  BY DEF preferences_save
<1>2. SetIn(prefs')
  BY DEF SetIn
<1>3. IsTable(t) /\ Keeps(t, k) /\ Savable(k)
  BY <1>2, TableKeeps
<1>4. TableInv /\ pc # "saving" /\ Savable(saved)
  BY DEF RestartInv, ValuesInv
<1> HIDE DEF k, t
<1> QED
  BY <1>1, <1>3, <1>4, SyncKeeps

\* The history that a program has in memory fits the table it came from.
LEMMA HistoryFits ==
    ASSUME RestartInv, pc = "up"
    PROVE  Gives(config.dirs, dir_history) /\ Fits(config.dirs, dir_history)
<1>1. Gives(config.dirs, dir_history)
  BY DEF RestartInv, TableInv, Keeps
<1> QED
  BY <1>1, GivesFits

LEMMA ApplyKeepsTable ==
    ASSUME RestartInv, prefs_apply_cb
    PROVE  RestartInv'
<1>1. /\ pc = "up" /\ visible /\ ValuesInv
      /\ prefs' = [s \in Settings |->
                      IF s \in Edited THEN shown[s] ELSE prefs[s]]
      /\ preferences_save(config, prefs', dir_history)
      /\ dir_history' = dir_history /\ cwd' = cwd /\ shown' = shown
  BY DEF prefs_apply_cb, RestartInv
<1>2. SetIn(prefs)'
  <2>1. \A s \in Edited : CanBeSet(s, shown[s])
    BY <1>1 DEF ValuesInv
  <2> QED
    BY <1>1, <2>1 DEF SetIn, ValuesInv
<1>3. TableInv' /\ Savable(kept)' /\ Savable(saved)'
  BY <1>1, <1>2, HistoryFits, SaveKeepsTable
<1> QED
  BY <1>1, <1>2, <1>3 DEF RestartInv, ValuesInv

LEMMA FlagsKeepTable ==
    ASSUME RestartInv, NEW f \in Values.log_flags, log_set_flags(f)
    PROVE  RestartInv'
<1>1. /\ pc = "up" /\ ValuesInv /\ UNCHANGED dialogVars
      /\ prefs' = [prefs EXCEPT !.log_flags = f]
      /\ preferences_save(config, prefs', dir_history)
      /\ dir_history' = dir_history /\ cwd' = cwd
  BY DEF log_set_flags, RestartInv
<1>2. SetIn(prefs)'
  <2>1. "log_flags" \in Settings /\ CanBeSet("log_flags", f)
    BY NotInDialog, ValuesCanBeSet
  <2> QED
    BY <1>1, <2>1 DEF SetIn, ValuesInv
<1>3. TableInv' /\ Savable(kept)' /\ Savable(saved)'
  BY <1>1, <1>2, HistoryFits, SaveKeepsTable
<1>4. ValuesInv'
  BY <1>1, <1>2, <1>3, DialogValues DEF ValuesInv
<1> QED
  BY <1>3, <1>4 DEF RestartInv

\* What is saved alone changes in the table what it changes in the settings.
LEMMA DryrunKeepsTable ==
    ASSUME RestartInv, NEW d \in Values.dryrun, preferences_set_dryrun(d)
    PROVE  RestartInv'
<1> DEFINE t == [config EXCEPT !.settings.dryrun = ToText(d)]
           k == [kept EXCEPT !.settings.dryrun = d]
<1>1. /\ pc = "up" /\ TableInv /\ ValuesInv /\ UNCHANGED dialogVars
      /\ prefs' = [prefs EXCEPT !.dryrun = d]
      /\ ui_config_sync(t, k)
      /\ dir_history' = dir_history /\ cwd' = cwd
  BY DEF preferences_set_dryrun, RestartInv
<1>2. /\ IsTable(config) /\ IsTable(kept)
      /\ SetIn(kept.settings) /\ SetIn(prefs) /\ Savable(saved)
      /\ Keeps(config, kept) /\ kept.dirs = dir_history
  BY <1>1 DEF TableInv, ValuesInv, Savable
<1>3. "dryrun" \in Settings /\ CanBeSet("dryrun", d)
  BY NotInDialog, ValuesCanBeSet
<1>4. SetIn(prefs)'
  BY <1>1, <1>2, <1>3 DEF SetIn
<1>5. /\ t.dirs = config.dirs
      /\ IsTable(t)
      /\ \A s \in Settings :
            t.settings[s] = IF s = "dryrun" THEN ToText(d)
                            ELSE config.settings[s]
  BY <1>2, <1>3 DEF IsTable
<1>6. /\ k.dirs = kept.dirs
      /\ IsTable(k) /\ SetIn(k.settings)
      /\ \A s \in Settings :
            k.settings[s] = IF s = "dryrun" THEN d ELSE kept.settings[s]
  BY <1>2, <1>3 DEF IsTable, SetIn
<1> HIDE DEF t, k
<1>7. Keeps(t, k)
  <2>1. FromText("dryrun", ToText(d)) = Kept("dryrun", d)
    BY <1>3, TextKept
  <2>2. \A s \in Settings : Loaded(t)[s] = Kept(s, k.settings[s])
    BY <1>2, <1>5, <1>6, <2>1 DEF Keeps, Loaded
  <2> QED
    BY <1>2, <1>5, <1>6, <2>2 DEF Keeps
<1>8. TableInv' /\ Savable(kept)' /\ Savable(saved)'
  <2>1. pc # "saving" /\ Savable(k) /\ k.dirs = dir_history'
    BY <1>1, <1>2, <1>6 DEF Savable
  <2> QED
    BY <1>1, <1>2, <1>5, <1>7, <2>1, SyncKeeps
<1>9. ValuesInv'
  <2>1. cwd' \in Dirs
    BY <1>1 DEF ValuesInv
  <2> QED
    BY <1>1, <1>4, <1>8, <2>1, DialogValues
<1> QED
  BY <1>8, <1>9 DEF RestartInv

\* The history with d put first, as far as there is room.
LEMMA LongerFits ==
    ASSUME NEW q, NEW h, Gives(q, h), NEW d \in Dirs, ~ Contains(h, d)
    PROVE  LET g == <<d>> \o h
           IN Fits(q, SubSeq(g, 1, Min({Len(g), MAX_DIR_HISTORY})))
<1> DEFINE n == Len(h)
           g == <<d>> \o h
           m == Min({Len(g), MAX_DIR_HISTORY})
           r == SubSeq(g, 1, m)
<1>1. /\ q \in Seq(Dirs) /\ h \in Seq(Dirs) /\ n \in Nat /\ n <= Len(q)
      /\ Len(q) \in Nat /\ n <= MAX_DIR_HISTORY /\ MAX_DIR_HISTORY \in Nat
      /\ \A i \in 1..n : q[i] = h[i] /\ h[i] # d
      /\ \A i, j \in 1..n : h[i] = h[j] => i = j
      /\ n < MAX_DIR_HISTORY =>
            \A i \in 1..Len(q) : \E j \in 1..n : h[j] = q[i]
  BY PreferencesAssumption DEF Gives, Contains
<1>2. /\ g \in Seq(Dirs) /\ Len(g) = n + 1 /\ g[1] = d
      /\ \A i \in 2..n+1 : g[i] = h[i - 1]
  BY <1>1
<1>3. m = IF n < MAX_DIR_HISTORY THEN n + 1 ELSE MAX_DIR_HISTORY
  BY <1>1, <1>2 DEF Min
<1> HIDE DEF m
<1>4. /\ r \in Seq(Dirs) /\ Len(r) = m /\ m \in Nat /\ m <= n + 1
      /\ m <= MAX_DIR_HISTORY
      /\ \A i \in 1..m : r[i] = g[i]
  <2> HIDE DEF g
  <2> QED
    BY <1>1, <1>2, <1>3
<1> HIDE DEF r, g
<1>5. \A i, j \in 1..m : r[i] = r[j] => i = j
  <2>1. ASSUME NEW i \in 1..m, NEW j \in 1..m, r[i] = r[j]
        PROVE  i = j
    <3>1. g[i] = g[j]
      BY <1>4, <2>1
    <3>2. CASE i = 1 \/ j = 1
      <4>1. \A k \in 1..m : k # 1 => g[k] # d
        <5>1. ASSUME NEW k \in 1..m, k # 1 PROVE g[k] # d
          <6>1. k \in 2..n+1 /\ k - 1 \in 1..n
            BY <1>1, <1>4, <5>1
          <6> QED
            BY <1>1, <1>2, <6>1
        <5> QED
          BY <5>1
      <4> QED
        BY <1>2, <3>1, <3>2, <4>1
    <3>3. CASE i # 1 /\ j # 1
      <4>1. /\ i - 1 \in 1..n /\ j - 1 \in 1..n
            /\ i \in 2..n+1 /\ j \in 2..n+1
        BY <1>1, <1>4, <3>3
      <4>2. h[i - 1] = h[j - 1]
        BY <1>2, <3>1, <4>1
      <4>3. i - 1 = j - 1
        BY <1>1, <4>1, <4>2
      <4> QED
        BY <1>4, <4>3
    <3> QED
      BY <3>2, <3>3
  <2> QED
    BY <2>1
<1>6. ASSUME m < MAX_DIR_HISTORY, NEW i \in m+1..Len(q)
      PROVE  \E j \in 1..m : r[j] = q[i]
  <2>1. n < MAX_DIR_HISTORY /\ m = n + 1 /\ i \in 1..Len(q)
    BY <1>1, <1>3, <1>6
  <2>2. PICK j \in 1..n : h[j] = q[i]
    BY <1>1, <2>1
  <2>3. j + 1 \in 1..m /\ j + 1 \in 2..n+1 /\ (j + 1) - 1 = j
    BY <1>1, <2>1
  <2>4. r[j + 1] = g[j + 1] /\ g[j + 1] = h[(j + 1) - 1]
    BY <1>2, <1>4, <2>3
  <2> QED
    BY <2>2, <2>3, <2>4
<1>7. Fits(q, r)
  BY <1>1, <1>4, <1>5, <1>6 DEF Fits
<1> QED
  BY <1>7 DEF r, m, g

LEMMA DirectoryKeepsTable ==
    ASSUME RestartInv, NEW d \in Dirs, change_directory(d)
    PROVE  RestartInv'
<1>1. /\ pc = "up" /\ ValuesInv /\ UNCHANGED dialogVars
      /\ prefs' = prefs /\ cwd' = d /\ cwd \in Dirs
      /\ SetIn(prefs) /\ Savable(kept) /\ Savable(saved)
  BY DEF change_directory, RestartInv, ValuesInv
<1>2. SetIn(prefs)'
  BY <1>1 DEF SetIn
<1>3. CASE Contains(dir_history, cwd)
  <2>1. UNCHANGED <<pc, file, config, dir_history, kept, saved>>
    BY <1>3 DEF change_directory
  <2>2. TableInv'
    BY <2>1 DEF RestartInv, TableInv
  <2>3. ValuesInv'
    BY <1>1, <1>2, <2>1, DialogValues DEF ValuesInv
  <2> QED
    BY <2>2, <2>3 DEF RestartInv
<1>4. CASE ~ Contains(dir_history, cwd)
  <2>1. /\ dir_history' =
              LET g == <<cwd>> \o dir_history
              IN SubSeq(g, 1, Min({Len(g), MAX_DIR_HISTORY}))
        /\ preferences_save(config, prefs', dir_history')
    BY <1>1, <1>4 DEF change_directory
  <2>2. Fits(config.dirs, dir_history')
    BY <1>1, <1>4, <2>1, HistoryFits, LongerFits
  <2>3. TableInv' /\ Savable(kept)' /\ Savable(saved)'
    BY <1>1, <1>2, <2>1, <2>2, SaveKeepsTable
  <2>4. ValuesInv'
    BY <1>1, <1>2, <2>3, DialogValues
  <2> QED
    BY <2>3, <2>4 DEF RestartInv
<1> QED
  BY <1>3, <1>4

LEMMA DialogKeepsTable ==
    ASSUME RestartInv,
           \/ edit_preferences_cb \/ Cancel
           \/ \E s \in Edited : changed_cb(s)
    PROVE  RestartInv'
<1>1. /\ UNCHANGED <<pc, file, config, prefs, dir_history, cwd, kept,
                   saved>>
      /\ TableInv /\ ValuesInv
  BY DEF edit_preferences_cb, Cancel, changed_cb, RestartInv
<1>2. TableInv'
  BY <1>1 DEF TableInv
<1>3. /\ shown' = [s \in Edited |-> shown'[s]]
      /\ \A s \in Edited : CanBeSet(s, shown'[s])
  <2>1. CASE edit_preferences_cb
    <3>1. shown' = [s \in Edited |->
                      IF s = "makeprog" /\ shown # NotCreated
                      THEN shown[s] ELSE Clamped(s, prefs[s])]
      BY <2>1 DEF edit_preferences_cb
    <3>2. \A s \in Edited : CanBeSet(s, Clamped(s, prefs[s]))
      BY <1>1, NotInDialog, ClampedCanBeSet DEF ValuesInv, SetIn
    <3>3. shown # NotCreated => \A s \in Edited : CanBeSet(s, shown[s])
      BY <1>1 DEF ValuesInv
    <3> QED
      BY <3>1, <3>2, <3>3
  <2>2. CASE Cancel
    BY <1>1, <2>2 DEF Cancel, ValuesInv
  <2>3. ASSUME NEW s \in Edited, changed_cb(s)
        PROVE  /\ shown' = [t \in Edited |-> shown'[t]]
               /\ \A t \in Edited : CanBeSet(t, shown'[t])
    <3>1. visible /\ \E v \in Values[s] : shown' = [shown EXCEPT ![s] = v]
      BY <2>3 DEF changed_cb
    <3>2. PICK v \in Values[s] : shown' = [shown EXCEPT ![s] = v]
      BY <3>1
    <3>3. CanBeSet(s, v)
      BY NotInDialog, ValuesCanBeSet
    <3>4. /\ shown = [t \in Edited |-> shown[t]]
          /\ \A t \in Edited : CanBeSet(t, shown[t])
      BY <1>1, <3>1 DEF ValuesInv
    <3> QED
      BY <3>2, <3>3, <3>4
  <2> QED
    BY <2>1, <2>2, <2>3
<1>4. ValuesInv'
  <2>1. SetIn(prefs)' /\ Savable(kept)' /\ Savable(saved)'
    BY <1>1 DEF ValuesInv, SetIn, IsTable, Savable
  <2> QED
    BY <1>1, <1>3, <2>1 DEF ValuesInv
<1> QED
  BY <1>2, <1>4 DEF RestartInv

\* Every step keeps the invariant.
LEMMA RestartStep ==
    ASSUME RestartInv, [Next]_vars
    PROVE  RestartInv'
<1>1. CASE EndSync
  BY <1>1 DEF EndSync, dialogVars, RestartInv, TableInv, ValuesInv, IsTable,
              SetIn, Savable
<1>2. CASE UNCHANGED vars
  BY <1>2 DEF vars, dialogVars, RestartInv, TableInv, ValuesInv
<1>3. CASE Next
  <2>1. CASE preferences_load
    BY <2>1, LoadKeepsTable
  <2>2. CASE Exit \/ KilledSaving
    BY <2>2, DownKeepsTable
  <2>3. CASE \/ edit_preferences_cb \/ Cancel
             \/ \E s \in Edited : changed_cb(s)
    BY <2>3, DialogKeepsTable
  <2>4. CASE prefs_apply_cb
    BY <2>4, ApplyKeepsTable
  <2>5. ASSUME NEW f \in Values.log_flags, log_set_flags(f) PROVE RestartInv'
    BY <2>5, FlagsKeepTable
  <2>6. ASSUME NEW d \in Values.dryrun, preferences_set_dryrun(d)
        PROVE  RestartInv'
    BY <2>6, DryrunKeepsTable
  <2>7. ASSUME NEW d \in Dirs, change_directory(d) PROVE RestartInv'
    BY <2>7, DirectoryKeepsTable
  <2> QED
    BY <1>1, <1>3, <2>1, <2>2, <2>3, <2>4, <2>5, <2>6, <2>7 DEF Next
<1> QED
  BY <1>2, <1>3

\* The next start loads what was saved last, whatever is edited, saved, killed
\* and loaded again, and whatever the length of the history of directories.
\* (preferences_save, preferences_load, ui_config_sync)
THEOREM StartsLoadWhatWasSaved == Spec => []RestartKeeps
<1>1. RestartInv => RestartKeeps
  <2> SUFFICES ASSUME RestartInv PROVE RestartKeeps
    OBVIOUS
  <2>1. pc # "saving" => Keeps(file, saved)
    BY DEF RestartInv, TableInv
  <2>2. pc # "saving" => LoadedDirs(file) = saved.dirs
    BY <2>1, GivesIsLoaded DEF Keeps
  <2> QED
    BY <2>1, <2>2 DEF RestartKeeps, Keeps, Kept
<1> QED
  BY <1>1, InitRestart, RestartStep, PTL DEF Spec
=============================================================================
