CONSTANTS
    Absent = Absent
    NotFound = NotFound
    CheckKeys = {"CPUThread", "MMU"}
    DefaultChecks <- MCDefaultChecks
    EmuStates = {0, 1}
    DefaultEmuState = 1
    Texts = {"", "t"}
    DefaultIssues = Absent
    DefaultPH <- MCDefaultPH
    DefaultPatches <- MCDefaultPatches
    PatchNames = {"u", "d"}
    InitialLocals <- MCInitialLocals
    MaxPatchClicks = 1
    MaxConfigEdits = 1
    MaxSaveFailures = 1
SPECIFICATION Spec
\* A Remove with nothing selected ends the program (undefined behaviour).
CHECK_DEADLOCK FALSE
INVARIANT TypeOK
INVARIANT UndeterminedMeansDolphinSetting
INVARIANT SaveReloadKeepsDialog
