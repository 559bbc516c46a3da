-------------------------- MODULE MCISOProperties ---------------------------
(* Two override checkboxes: "CPUThread", which the default game INI sets   *)
(* (a two-state checkbox), and "MMU", which it does not (three states).    *)
(* The default INI sets the emulation state and PH_ZNear but no issues    *)
(* text, and has one OnFrame patch "d"; a user may name a patch "u" or,    *)
(* like the default one, "d". The local INI starts with an enabled user    *)
(* patch, an MMU override and a PH_ZFar value.                             *)
EXTENDS ISOProperties

MCDefaultChecks == [k \in CheckKeys |-> IF k = "CPUThread" THEN TRUE ELSE Absent]
MCDefaultPatches == <<"d">>
MCDefaultPH == [k \in PHKeys |-> IF k = "PH_ZNear" THEN "" ELSE Absent]
MCEmptyIni ==
  [checks |-> [k \in CheckKeys |-> Absent], emuState |-> Absent, issues |-> Absent,
   ph |-> [k \in PHKeys |-> Absent],
   onFrame |-> <<>>, enabled |-> {}]
MCInitialLocals ==
  {[MCEmptyIni EXCEPT !.checks["MMU"] = FALSE, !.ph["PH_ZFar"] = "t",
                  !.onFrame = <<"u">>, !.enabled = {"u"}]}
====
