--------------------------- MODULE ISOProperties ----------------------------
(***************************************************************************)
(* The game properties dialog of the wx UI (CISOProperties): the game-     *)
(* specific overrides it loads from the default and the local game INI,    *)
(* the overrides it writes back to the local INI, the OnFrame patch list,  *)
(* and the reloads that DOLPHIN_EVT_LOCAL_INI_CHANGED triggers after every *)
(* successful save and after the external editor of "Edit Config".        *)
(*                                                                         *)
(* Settings are abstracted to the three kinds of control the code treats   *)
(* differently: the 3-state override checkboxes (CheckKeys), the           *)
(* emulation-state choice, and the emulation-issues text, with the two    *)
(* projection-hack strings PH_ZNear and PH_ZFar whose reads share a        *)
(* temporary with the issues text. The projection-hack flags, GPU          *)
(* determinism, stereoscopy values and the AR and Gecko code panels are    *)
(* left out (README).                                                      *)
(***************************************************************************)
EXTENDS Naturals, Sequences, SequencesExt, FiniteSets

CONSTANTS
  CheckKeys,        \* the override checkboxes ("Core"/"CPUThread", ...)
  DefaultChecks,    \* [CheckKeys -> BOOLEAN \cup {Absent}]: the default game INI
  EmuStates,        \* the emulation-state choice indices, 0 = "Not Set"
  DefaultEmuState,  \* EmuState/EmulationStateId of the default INI, or Absent
  Texts,            \* emulation-issues strings, "" included
  DefaultIssues,    \* EmuState/EmulationIssues of the default INI, or Absent
  DefaultPH,        \* [PHKeys -> Texts \cup {Absent}]: Video/PH_ZNear, PH_ZFar
  DefaultPatches,   \* the names of the default INI's OnFrame patches, in order
  PatchNames,       \* the names a user may give a patch
  InitialLocals,    \* local INI files the dialog may find on disk
  Absent,           \* a key missing from an INI file
  NotFound,         \* wxNOT_FOUND: no list item selected
  MaxPatchClicks,   \* bound on Add/Edit/Remove clicks
  MaxConfigEdits,   \* bound on "Edit Config" clicks
  MaxSaveFailures   \* bound on IniFile::Save failures

CheckStates == {"checked", "unchecked", "undetermined"}

\* The std::string members of m_phack_data, in the order LoadGameConfig
\* reads them.
PHKeys == {"PH_ZNear", "PH_ZFar"}

\* A local game INI file, as far as the dialog reads and writes it.
Inis ==
  [checks: [CheckKeys -> BOOLEAN \cup {Absent}],
   emuState: EmuStates \cup {Absent},
   issues: Texts \cup {Absent},
   ph: [PHKeys -> Texts \cup {Absent}],
   onFrame: Seq(PatchNames),                    \* "$name" lines of [OnFrame]
   enabled: SUBSET (PatchNames \cup Range(DefaultPatches))]  \* [OnFrame_Enabled]

VARIABLES
  open,         \* the dialog exists
  disk,         \* the local game INI file
  local,        \* m_gameini_local
  dlg,          \* the dialog's controls and patch members (record below)
  crashed,      \* a step with undefined behaviour was taken
  patchClicks, configEdits, saveFailures

vars == <<open, disk, local, dlg, crashed, patchClicks, configEdits, saveFailures>>

-----------------------------------------------------------------------------
(* Loading: LoadGameConfig and its helpers                                 *)

\* Mutant: every checkbox offered the third state.
GetElementStyleAlways3(k) == CheckStates

\* GetElementStyle: the third state is offered only when the default INI
\* does not set the key.
GetElementStyle(k) ==
  IF DefaultChecks[k] # Absent THEN {"checked", "unchecked"} ELSE CheckStates

BoolState(b) == IF b THEN "checked" ELSE "unchecked"

\* SetCheckboxValueFromGameini: the local value, else the default value,
\* else undetermined.
SetCheckboxValueFromGameini(l, k) ==
  IF l.checks[k] # Absent THEN BoolState(l.checks[k])
  ELSE IF DefaultChecks[k] # Absent THEN BoolState(DefaultChecks[k])
  ELSE "undetermined"

\* EmulationStateId: the default INI's value (0 when missing), overridden
\* by the local one.
EmuStateOf(l) ==
  IF l.emuState # Absent THEN l.emuState
  ELSE IF DefaultEmuState # Absent THEN DefaultEmuState ELSE 0

\* PH_ZNear and PH_ZFar: the default INI's value, overridden by the local
\* one; Section::Get without a default leaves m_phack_data as it was.
PHOf(l, k, shown) ==
  IF l.ph[k] # Absent THEN l.ph[k]
  ELSE IF DefaultPH[k] # Absent THEN DefaultPH[k] ELSE shown

\* The local variable sTemp after the two GetIfExists calls: the local
\* PH_ZFar, else the local PH_ZNear, else still empty.
PHTemp(l) ==
  IF l.ph["PH_ZFar"] # Absent THEN l.ph["PH_ZFar"]
  ELSE IF l.ph["PH_ZNear"] # Absent THEN l.ph["PH_ZNear"] ELSE ""

\* EmulationIssues is read into the same sTemp: a default value replaces
\* it, a missing one leaves the projection-hack string in it. A non-empty
\* sTemp is shown, then a local value overrides it even when empty;
\* otherwise the text control keeps what it showed.
IssuesOf(l, shown) ==
  LET sTemp == IF DefaultIssues # Absent THEN DefaultIssues ELSE PHTemp(l)
  IN IF l.issues # Absent THEN l.issues
     ELSE IF sTemp # "" THEN sTemp
     ELSE shown

\* PatchEngine::LoadPatchSection (not in this repository): the default
\* INI's patches, then the local INI's, each active when the local
\* [OnFrame_Enabled] names it.
LoadPatchSection(l) ==
  [i \in 1..Len(DefaultPatches) |->
     [name |-> DefaultPatches[i], user |-> FALSE, active |-> DefaultPatches[i] \in l.enabled]]
  \o [i \in 1..Len(l.onFrame) |->
        [name |-> l.onFrame[i], user |-> TRUE, active |-> l.onFrame[i] \in l.enabled]]

DefaultNamesOf(ps) == {ps[i].name : i \in {j \in DOMAIN ps : ~ps[j].user}}

PatchListLoaded(d, ps) ==
  [d EXCEPT !.onFrame = [i \in DOMAIN ps |-> [name |-> ps[i].name, active |-> ps[i].active]],
            !.checked = [i \in DOMAIN ps |-> ps[i].active],
            !.selection = NotFound,
            !.defaultPatches = d.defaultPatches \cup DefaultNamesOf(ps)]

\* Mutant: the list's selection survives the reload.
PatchList_LoadKeepsSelection(l, d) ==
  [PatchListLoaded(d, LoadPatchSection(l)) EXCEPT !.selection = d.selection]

\* PatchList_Load: the list is cleared (so nothing is selected) and
\* refilled; m_default_patches only grows. The Edit and Remove buttons are
\* left as they were.
PatchList_Load(l, d) == PatchListLoaded(d, LoadPatchSection(l))

LoadGameConfig(l, d) ==
  PatchList_Load(l,
    [d EXCEPT !.checks = [k \in CheckKeys |-> SetCheckboxValueFromGameini(l, k)],
              !.ph = [k \in PHKeys |-> PHOf(l, k, d.ph[k])],
              !.emuState = EmuStateOf(l),
              !.issues = IssuesOf(l, d.issues),
              !.issuesEnabled = EmuStateOf(l) # 0])

-----------------------------------------------------------------------------
(* Saving: SaveGameConfig and its helpers                                  *)

\* SaveGameIniValueFrom3StateCheckbox: undetermined deletes the key; a
\* value is written unless the default INI holds the same one.
SaveGameIniValueFrom3StateCheckbox(state, k) ==
  IF state = "undetermined" THEN Absent
  ELSE IF DefaultChecks[k] = Absent THEN state = "checked"
  ELSE IF DefaultChecks[k] # (state = "checked") THEN state = "checked"
  ELSE Absent

\* Mutant: the value compared with def even when the default INI has the key.
SaveIfNotDefaultIgnoresDefault(val, default, def) == IF val # def THEN val ELSE Absent

\* SAVE_IF_NOT_DEFAULT(section, key, val, def).
SaveIfNotDefault(val, default, def) ==
  IF default # Absent THEN (IF val # default THEN val ELSE Absent)
  ELSE IF val # def THEN val ELSE Absent

PatchNamesOf(ps) == [i \in DOMAIN ps |-> ps[i].name]

\* PatchList_Save: every checked patch is enabled; the patches not named in
\* m_default_patches are written to [OnFrame].
PatchList_Save(l, d) ==
  [l EXCEPT !.enabled = {d.onFrame[i].name : i \in {j \in DOMAIN d.onFrame : d.checked[j]}},
            !.onFrame = SelectSeq(PatchNamesOf(d.onFrame),
                                  LAMBDA n : n \notin d.defaultPatches)]

\* The changes SaveGameConfig makes to m_gameini_local.
SaveGameIni(l, d) ==
  PatchList_Save(
    [l EXCEPT !.checks = [k \in CheckKeys |->
                            SaveGameIniValueFrom3StateCheckbox(d.checks[k], k)],
              !.ph = [k \in PHKeys |-> SaveIfNotDefault(d.ph[k], DefaultPH[k], "")],
              !.emuState = SaveIfNotDefault(d.emuState, DefaultEmuState, 0),
              !.issues = SaveIfNotDefault(d.issues, DefaultIssues, "")],
    d)

-----------------------------------------------------------------------------
(* The dialog                                                              *)

\* dlg holds the controls the code reads back (checkbox states, choice,
\* text, the check list box's checks and selection, whether the Edit and
\* Remove buttons are enabled) and the members m_phack_data's strings,
\* m_on_frame (name and active flag per patch) and m_default_patches.
Dialogs ==
  [checks: [CheckKeys -> CheckStates], emuState: EmuStates, issues: Texts,
   issuesEnabled: BOOLEAN, ph: [PHKeys -> Texts],
   onFrame: Seq([name: PatchNames \cup Range(DefaultPatches), active: BOOLEAN]),
   checked: Seq(BOOLEAN), selection: Nat \cup {NotFound},
   defaultPatches: SUBSET Range(DefaultPatches), buttons: BOOLEAN]

\* CreateGUIControls: empty controls, Edit and Remove disabled; the
\* strings of m_phack_data are constructed empty.
NewDialog ==
  [checks |-> [k \in CheckKeys |-> "unchecked"], emuState |-> 0, issues |-> "",
   issuesEnabled |-> TRUE, ph |-> [k \in PHKeys |-> ""], onFrame |-> <<>>, checked |-> <<>>,
   selection |-> NotFound, defaultPatches |-> {}, buttons |-> FALSE]

\* PatchListSelectionChanged: Edit and Remove are enabled for a selected
\* patch that is not a default one.
PatchListSelectionChanged(d) ==
  [d EXCEPT !.buttons = d.selection # NotFound
                        /\ d.onFrame[d.selection].name \notin d.defaultPatches]

DisableButtons(d) == [d EXCEPT !.buttons = FALSE]

\* The external editor of OnEditConfig: it may leave the file as it is
\* (also when LaunchExternalEditor finds no editor) or delete one entry.
\* (The values an edit could set are the ones a save writes.)
Edits(f) ==
  {f, [f EXCEPT !.issues = Absent], [f EXCEPT !.emuState = Absent]}
  \cup {[f EXCEPT !.checks[k] = Absent] : k \in CheckKeys}
  \cup {[f EXCEPT !.ph[k] = Absent] : k \in PHKeys}

Init ==
  /\ open = FALSE
  /\ disk \in InitialLocals
  /\ local = disk
  /\ dlg = NewDialog
  /\ crashed = FALSE
  /\ patchClicks = 0 /\ configEdits = 0 /\ saveFailures = 0

\* The constructor: m_gameini_local read from the file, the controls
\* created, LoadGameConfig.
Open ==
  /\ ~open /\ ~crashed
  /\ open' = TRUE
  /\ local' = disk
  /\ dlg' = LoadGameConfig(disk, NewDialog)
  /\ UNCHANGED <<disk, crashed, patchClicks, configEdits, saveFailures>>

Usable == open /\ ~crashed

\* The user clicks a checkbox into another state its style allows.
ClickCheckbox(k, s) ==
  /\ Usable
  /\ s \in GetElementStyle(k) \ {dlg.checks[k]}
  /\ dlg' = [dlg EXCEPT !.checks[k] = s]
  /\ UNCHANGED <<open, disk, local, crashed, patchClicks, configEdits, saveFailures>>

\* OnEmustateChanged: the issues text is enabled unless "Not Set".
OnEmustateChanged(s) ==
  /\ Usable
  /\ s # dlg.emuState
  /\ dlg' = [dlg EXCEPT !.emuState = s, !.issuesEnabled = s # 0]
  /\ UNCHANGED <<open, disk, local, crashed, patchClicks, configEdits, saveFailures>>

EditIssues(t) ==
  /\ Usable /\ dlg.issuesEnabled
  /\ t # dlg.issues
  /\ dlg' = [dlg EXCEPT !.issues = t]
  /\ UNCHANGED <<open, disk, local, crashed, patchClicks, configEdits, saveFailures>>

\* A click on a list item (EVT_LISTBOX).
SelectPatch(i) ==
  /\ Usable
  /\ i \in DOMAIN dlg.onFrame /\ i # dlg.selection
  /\ dlg' = PatchListSelectionChanged([dlg EXCEPT !.selection = i])
  /\ UNCHANGED <<open, disk, local, crashed, patchClicks, configEdits, saveFailures>>

\* A click on an item's check box; no handler runs.
CheckPatch(i) ==
  /\ Usable
  /\ i \in DOMAIN dlg.checked
  /\ dlg' = [dlg EXCEPT !.checked[i] = ~@]
  /\ UNCHANGED <<open, disk, local, crashed, patchClicks, configEdits, saveFailures>>

\* The tail of PatchButtonClicked: PatchList_Save into m_gameini_local,
\* the list cleared and reloaded from it, Edit and Remove disabled.
PatchButtonDone(d) ==
  /\ local' = PatchList_Save(local, d)
  /\ dlg' = DisableButtons(PatchList_Load(local', d))
  /\ patchClicks' = patchClicks + 1
  /\ UNCHANGED <<open, disk, crashed, configEdits, saveFailures>>

NewPatch(name) == [name |-> name, active |-> TRUE]

\* Add...: CPatchAddEdit appends an active patch when the user confirms;
\* the list gets a checked item for it.
AddPatch(name, ok) ==
  /\ Usable /\ patchClicks < MaxPatchClicks
  /\ PatchButtonDone(IF ok THEN [dlg EXCEPT !.onFrame = Append(@, NewPatch(name)),
                                            !.checked = Append(@, TRUE)]
                             ELSE dlg)

\* Edit...: CPatchAddEdit renames the selected patch when the user
\* confirms. With nothing selected (selection -1) it runs in add mode
\* (CPatchAddEdit is not in this repository) and appends a patch that has
\* no list item; PatchList_Save's IsChecked past the last item returns
\* false.
EditPatch(name, ok) ==
  /\ Usable /\ dlg.buttons /\ patchClicks < MaxPatchClicks
  /\ PatchButtonDone(
       IF ~ok THEN dlg
       ELSE IF dlg.selection # NotFound
            THEN [dlg EXCEPT !.onFrame[dlg.selection].name = name]
            ELSE [dlg EXCEPT !.onFrame = Append(@, NewPatch(name)),
                             !.checked = Append(@, FALSE)])

\* Remove: m_on_frame.erase(begin() + GetSelection()) and the item's
\* deletion. With nothing selected the iterator is begin() - 1: undefined
\* behaviour, modelled as the end of the program.
RemovePatch ==
  /\ Usable /\ dlg.buttons /\ patchClicks < MaxPatchClicks
  /\ \/ /\ dlg.selection # NotFound
        /\ PatchButtonDone([dlg EXCEPT !.onFrame = RemoveAt(@, dlg.selection),
                                       !.checked = RemoveAt(@, dlg.selection)])
     \/ /\ dlg.selection = NotFound
        /\ crashed' = TRUE
        /\ UNCHANGED <<open, disk, local, dlg, patchClicks, configEdits, saveFailures>>

\* OnLocalIniModified after the editor: m_gameini_local read from the
\* file, LoadGameConfig.
EditedAndReloaded(f, d) ==
  \E e \in Edits(f) :
    /\ disk' = e
    /\ local' = e
    /\ dlg' = LoadGameConfig(e, d)

\* A successful save writes the file and, through GenerateLocalIniModified,
\* reloads the dialog from it before the editor opens.
SavedThenEdited(saved) == EditedAndReloaded(saved, LoadGameConfig(saved, dlg))

\* OnEditConfig: SaveGameConfig (its result ignored), the external editor,
\* GenerateLocalIniModified. A failed save leaves the file as it was and
\* generates no event of its own; the editor opens the old file and the
\* event OnEditConfig generates reloads it over the dialog's edits.
OnEditConfig ==
  /\ Usable /\ configEdits < MaxConfigEdits
  /\ configEdits' = configEdits + 1
  /\ \/ /\ SavedThenEdited(SaveGameIni(local, dlg))
        /\ UNCHANGED saveFailures
     \/ /\ saveFailures < MaxSaveFailures
        /\ saveFailures' = saveFailures + 1
        /\ EditedAndReloaded(disk, dlg)
  /\ UNCHANGED <<open, crashed, patchClicks>>

\* OnClose: SaveGameConfig, an error dialog if it failed, Destroy.
OnClose ==
  /\ Usable
  /\ \/ /\ disk' = SaveGameIni(local, dlg)
        /\ UNCHANGED saveFailures
     \/ /\ saveFailures < MaxSaveFailures
        /\ saveFailures' = saveFailures + 1
        /\ UNCHANGED disk
  /\ open' = FALSE
  /\ local' = disk'
  /\ dlg' = NewDialog
  /\ UNCHANGED <<crashed, patchClicks, configEdits>>

Next ==
  \/ Open
  \/ \E k \in CheckKeys, s \in CheckStates : ClickCheckbox(k, s)
  \/ \E s \in EmuStates : OnEmustateChanged(s)
  \/ \E t \in Texts : EditIssues(t)
  \/ \E i \in 1..Len(dlg.onFrame) : SelectPatch(i) \/ CheckPatch(i)
  \/ \E n \in PatchNames, ok \in BOOLEAN : AddPatch(n, ok) \/ EditPatch(n, ok)
  \/ RemovePatch
  \/ OnEditConfig
  \/ OnClose

Spec == Init /\ [][Next]_vars

-----------------------------------------------------------------------------
(* Properties                                                              *)

TypeOK ==
  /\ open \in BOOLEAN /\ crashed \in BOOLEAN
  /\ disk \in Inis /\ local \in Inis
  /\ dlg \in Dialogs
  /\ Len(dlg.checked) = Len(dlg.onFrame)
  /\ dlg.selection \in (DOMAIN dlg.onFrame) \cup {NotFound}
  /\ patchClicks \in 0..MaxPatchClicks /\ configEdits \in 0..MaxConfigEdits
  /\ saveFailures \in 0..MaxSaveFailures


\* What a checkbox state means for the game: the key's value in the local
\* INI, else in the default INI; Absent means Dolphin's own setting.
Effective(v, k) == IF v # Absent THEN v ELSE DefaultChecks[k]

Intended(s) == CASE s = "checked" -> TRUE [] s = "unchecked" -> FALSE [] OTHER -> Absent

\* The dialog's text above the checkboxes (CreateGUIControls): "These
\* settings override core Dolphin settings. Undetermined means the game
\* uses Dolphin's setting." Whatever state the user leaves a checkbox in,
\* SaveGameConfig writes the local INI so that, over the default INI, the
\* game gets exactly that meaning. GetElementStyle offering the third
\* state where the default INI sets the key would break it.
UndeterminedMeansDolphinSetting ==
  open => \A k \in CheckKeys :
            Effective(SaveGameIni(local, dlg).checks[k], k) = Intended(dlg.checks[k])

SameShown(d, r) ==
  /\ r.checks = d.checks /\ r.emuState = d.emuState /\ r.ph = d.ph
  /\ IsInjective(PatchNamesOf(d.onFrame)) =>
       /\ PatchNamesOf(r.onFrame) = PatchNamesOf(d.onFrame)
       /\ r.checked = d.checked

\* Every successful SaveGameConfig is followed by OnLocalIniModified, which
\* loads the saved INI back into the dialog (and so does the next opening
\* of the dialog). That round trip must show what the user left: the same
\* checkbox states, emulation state, projection-hack strings and, while
\* patch names are distinct, the same patches checked in the same order.
\* SAVE_IF_NOT_DEFAULT deleting a key equal to the default and writing one
\* that differs is what makes this hold for every combination of default
\* and local value. (The issues text is stated on its own below.)
SaveReloadKeepsDialog ==
  open => SameShown(dlg, LoadGameConfig(SaveGameIni(local, dlg), dlg))

\* The same round trip for the issues text. Violated: with no
\* EmulationIssues in the default INI, an emptied issues text is deleted
\* from the local INI, and the reload shows the local PH_ZFar (or PH_ZNear)
\* string left in sTemp (ISOProperties.cpp:543-545).
IssuesSurviveSaveReload ==
  open => LoadGameConfig(SaveGameIni(local, dlg), dlg).issues = dlg.issues

\* Edit and Remove act on the selected patch (PatchButtonClicked reads
\* m_patches->GetSelection()), so they must be enabled only while a user
\* patch is selected, as PatchListSelectionChanged intends. Violated: the
\* reload after "Edit Config" clears the list and its selection but leaves
\* both buttons enabled; Remove then erases m_on_frame.begin() - 1.
EditRemoveNeedUserSelection ==
  dlg.buttons =>
    /\ dlg.selection # NotFound
    /\ dlg.onFrame[dlg.selection].name \notin dlg.defaultPatches

=============================================================================
