------------------------------ MODULE MainWindow ------------------------------
(***************************************************************************)
(* The emulation lifecycle of DolphinQt2's MainWindow (.DolphinQt2/        *)
(* MainWindow.cpp): starting a game, stopping it gracefully or by force,   *)
(* booting a game chosen while another one runs once that one has stopped  *)
(* (m_pending_boot), closing the window, and showing and hiding the render *)
(* widget; the settings it reads are written by InterfacePane.            *)
(*                                                                         *)
(* The GUI thread runs one handler at a time.  Two kinds of posted event   *)
(* call OnStopComplete later: Settings::EmulationStateChanged(Uninitialized)*)
(* queued from the emulation thread, and the host job RequestStop queues   *)
(* when no emulation runs; both are counted in `posted`.  QMessageBox::    *)
(* question runs a nested event loop: while RequestStop waits for the      *)
(* answer, posted events are dispatched and the Core goes on, so the       *)
(* handler that called RequestStop is suspended in a frame of `dialogs`    *)
(* and resumes when the dialog is answered.                                *)
(*                                                                         *)
(* Core, BootManager and UICommon are not in the repository.  The Core is  *)
(* modelled by the states MainWindow reads: booting starts it, the         *)
(* emulation thread brings it to Running, BootManager::Stop or a game that *)
(* honours the power button brings it to Stopping, and its shutdown to     *)
(* Uninitialized, which posts EmulationStateChanged.                       *)
(***************************************************************************)
EXTENDS Naturals, Sequences

CONSTANTS
  Games,        \* boot parameters the user can start (file, IPL, NAND title)
  NoGame,       \* a null std::unique_ptr<BootParameters>
  MaxActions    \* user actions in one behaviour

Active == {"Starting", "Running", "Paused"}

CoreStates == {"Uninitialized", "Stopping"} \cup Active

\* How BootManager::BootCore ends for a game: failure, a game without the
\* STM event hook, or one that installs it (UICommon::TriggerSTMPowerEvent
\* then succeeds).
BootOutcomes == {"fail", "plain", "stm"}

\* m_render_widget: hidden, in m_stack (render to main), or its own window.
WidgetStates == {"hidden", "main", "normal", "full"}

\* The handler suspended in RequestStop's QMessageBox::question, with what
\* it does once RequestStop returns.  `reset`: StartGame was called by
\* OnStopComplete with m_pending_boot itself as its argument.
Frames == [caller: {"Stop", "CloseMain", "CloseRender", "StartGame"},
           game: Games \cup {NoGame}, reset: BOOLEAN,
           saved: CoreStates, paused: BOOLEAN]

\* Movie's mode: no movie, recording input, or playing a recording back.
MovieModes == {"none", "recording", "playing"}

VARIABLES
  app,     \* the MainWindow members, the SConfig fields it reads, the Core
  acts     \* user actions taken

vars == <<app, acts>>

-----------------------------------------------------------------------------
(* The Core and the window's helpers                                       *)

IsRunning(s) == s.core \in Active

\* Core::SetState acts only on a started emulation.
SetState(s, st) ==
  IF s.core \in {"Running", "Paused"} /\ st \in {"Running", "Paused"}
  THEN [s EXCEPT !.core = st] ELSE s

\* BootManager::Stop.
ForceStop(s) == IF IsRunning(s) THEN [s EXCEPT !.core = "Stopping"] ELSE s

\* UICommon::TriggerSTMPowerEvent: true when the running game listens for
\* the power button, which it is then sent.
TriggerSTMPowerEvent(s) == s.core \in {"Running", "Paused"} /\ s.stmHook

ShowRenderWidget(s) ==
  IF s.bRenderToMain
  THEN [s EXCEPT !.m_rendering_to_main = TRUE, !.inStack = TRUE,
                 !.widget = "main", !.titleConnected = TRUE]
  ELSE [s EXCEPT !.m_rendering_to_main = FALSE,
                 !.widget = IF s.bFullscreen THEN "full" ELSE "normal"]

HideRenderWidget(s) ==
  LET t == IF s.m_rendering_to_main
           THEN [s EXCEPT !.inStack = FALSE, !.m_rendering_to_main = FALSE,
                          !.titleConnected = FALSE]
           ELSE s
  IN  [t EXCEPT !.widget = "hidden"]

\* The caller's code after RequestStop returned ok.
Return(s, f, ok) ==
  CASE f.caller = "StartGame" ->
         [s EXCEPT !.m_pending_boot = IF f.reset THEN NoGame
                                      ELSE IF ok THEN f.game ELSE @,
                   !.wanted = IF ok THEN @ ELSE NoGame]
    [] f.caller = "CloseMain" -> [s EXCEPT !.m_exit_requested = @ \/ ok]
    [] OTHER -> s

\* RequestStop past its confirmation.
StopConfirmed(s, f) ==
  IF ~s.m_stop_requested /\ TriggerSTMPowerEvent(s)
  THEN Return(SetState([s EXCEPT !.m_stop_requested = TRUE, !.power = TRUE], "Running"), f, TRUE)
  ELSE Return(ForceStop(s), f, TRUE)

RequestStop(s, f) ==
  IF ~IsRunning(s)
  THEN Return([s EXCEPT !.posted = @ + 1], f, TRUE)
  ELSE IF s.bConfirmStop
  THEN LET pause == s.netplay
           t == IF pause THEN SetState(s, "Paused") ELSE s
       IN  [t EXCEPT !.dialogs = Append(@, [f EXCEPT !.saved = s.core, !.paused = pause])]
  ELSE StopConfirmed(s, f)

Frame(caller, g, reset) ==
  [caller |-> caller, game |-> g, reset |-> reset, saved |-> "Uninitialized", paused |-> FALSE]

\* BootManager::BootCore, then ShowRenderWidget.
Boot(s, boot) ==
  LET t == [s EXCEPT !.wanted = NoGame]
  IN  IF boot = "fail" THEN t
      ELSE ShowRenderWidget([t EXCEPT !.core = "Starting", !.stmHook = (boot = "stm"), !.power = FALSE])

StartGame(s, g, reset, boot) ==
  IF s.core # "Uninitialized"
  THEN RequestStop(s, Frame("StartGame", g, reset))
  ELSE Boot(s, boot)

\* Mutant: OnStopComplete that leaves the render widget on screen.
OnStopCompleteNoHide(s, boot) ==
  LET t == [s EXCEPT !.m_stop_requested = FALSE, !.quit = @ \/ s.m_exit_requested]
      u == IF t.m_pending_boot # NoGame THEN StartGame(t, t.m_pending_boot, TRUE, boot) ELSE t
  IN  IF Len(u.dialogs) > Len(t.dialogs) THEN u ELSE [u EXCEPT !.m_pending_boot = NoGame]

OnStopComplete(s, boot) ==
  LET t == HideRenderWidget([s EXCEPT !.m_stop_requested = FALSE,
                                      !.quit = @ \/ s.m_exit_requested])
      u == IF t.m_pending_boot # NoGame THEN StartGame(t, t.m_pending_boot, TRUE, boot) ELSE t
  IN  IF Len(u.dialogs) > Len(t.dialogs) THEN u ELSE [u EXCEPT !.m_pending_boot = NoGame]

\* Play: resume a paused game, else start the selected game, the default
\* ISO or one chosen in Open's file dialog; g = NoGame when there is none
\* or the dialog is cancelled.
PlayGame(s, g, boot) ==
  IF s.core = "Paused" THEN SetState(s, "Running")
  ELSE IF g = NoGame THEN s
  ELSE StartGame([s EXCEPT !.wanted = g], g, FALSE, boot)

\* OnExportRecording: `file` when the save dialog returns a name.  The game
\* is set Paused when it was paused (already so) and Running again after
\* the dialog, and Running before SaveRecording.
ExportRecording(s, file) ==
  LET was_paused == s.core = "Paused"
      t == IF was_paused THEN SetState(SetState(s, "Paused"), "Running") ELSE s
  IN  IF file THEN SetState(t, "Running") ELSE t

-----------------------------------------------------------------------------
(* Actions                                                                 *)

\* Movie's read-only flag (Core/Movie.cpp, not in the repository) may start
\* either way; the menu shows it.
Init ==
  /\ acts = 0
  /\ \E ro \in BOOLEAN : app = [core |-> "Uninitialized", stmHook |-> FALSE, power |-> FALSE,
            posted |-> 0, netplay |-> FALSE, server |-> FALSE, netDialog |-> FALSE,
            m_stop_requested |-> FALSE, m_exit_requested |-> FALSE, quit |-> FALSE,
            m_pending_boot |-> NoGame, m_rendering_to_main |-> FALSE,
            widget |-> "hidden", inStack |-> FALSE, titleConnected |-> FALSE,
            bRenderToMain |-> TRUE, bConfirmStop |-> TRUE, bFullscreen |-> FALSE,
            dialogs |-> <<>>, wanted |-> NoGame,
            movie |-> "none", readOnly |-> ro, shownRecording |-> FALSE,
            shownReadOnly |-> ro]

\* A user action reaches MainWindow only while no modal dialog is open.
UserStep(new) ==
  /\ acts < MaxActions /\ app.dialogs = <<>> /\ ~app.quit
  /\ app' = new
  /\ acts' = acts + 1

Play(g, boot) == UserStep(PlayGame(app, g, boot))

Pause == UserStep(SetState(app, "Paused"))

\* Open with a file chosen, a drop, the IPL, the system menu, FIFO or
\* NetPlay boots: all end in StartGame.
UserStartGame(g, boot) == UserStep(StartGame([app EXCEPT !.wanted = g], g, FALSE, boot))

\* The Stop button, menu entry, hotkey, Escape and NetPlay's Stop.
\* With nothing running RequestStop queues a completion as well.
Stop == UserStep(RequestStop(app, Frame("Stop", NoGame, FALSE)))

\* eventFilter: a Close event on the main window, or on the render widget
\* while it is on screen as a window of its own.
Close(obj) ==
  /\ obj = "CloseRender" => app.widget \in {"normal", "full"}
  /\ UserStep(RequestStop(app, Frame(obj, NoGame, FALSE)))

FullScreen ==
  /\ IsRunning(app)
  /\ LET t == HideRenderWidget(app)
     IN  UserStep(IF app.widget = "full" THEN ShowRenderWidget(t) ELSE [t EXCEPT !.widget = "full"])

\* InterfacePane::OnSaveConfig writes the checkboxes back to SConfig.
OnSaveConfig(toMain, confirm) ==
  UserStep([app EXCEPT !.bRenderToMain = toMain, !.bConfirmStop = confirm])

\* NetPlayJoin creates the client before it knows whether it connected.
NetPlayJoin(ok) ==
  /\ ~IsRunning(app) /\ ~app.netDialog
  /\ UserStep([app EXCEPT !.netplay = TRUE, !.netDialog = ok])

\* NetPlayHost creates the server, which stays when it fails to listen,
\* and then joins it.
NetPlayHost(listens, ok) ==
  /\ ~IsRunning(app) /\ ~app.netDialog
  /\ UserStep([app EXCEPT !.server = TRUE, !.netplay = @ \/ listens,
                          !.netDialog = listens /\ ok])

\* The NetPlay dialog's rejected signal: both the client and the server go.
NetPlayQuit ==
  /\ app.netDialog
  /\ UserStep([app EXCEPT !.netplay = FALSE, !.server = FALSE, !.netDialog = FALSE])

\* The ToggleReadOnlyMode hotkey.
ToggleReadOnlyMode ==
  UserStep([app EXCEPT !.readOnly = ~@, !.shownReadOnly = ~app.readOnly])

\* Movie > Play Recording with a .dtm chosen (a cancelled dialog changes
\* nothing); `ok` when Movie::PlayInput accepts it.  The read-only flag is
\* set first.
OnPlayRecording(ok, g, boot) ==
  /\ LET t == IF ~app.readOnly
              THEN [app EXCEPT !.readOnly = TRUE, !.shownReadOnly = TRUE] ELSE app
     IN  UserStep(IF ok THEN PlayGame([t EXCEPT !.movie = "playing",
                                               !.shownRecording = TRUE], g, boot)
                  ELSE t)

\* Movie > Start Recording: not while the game is booting or a movie is
\* active; `ok` when Movie::BeginRecordingInput starts; Play when no game
\* runs.
OnStartRecording(ok, g, boot) ==
  /\ app.core # "Starting" /\ app.movie = "none"
  /\ LET t == IF app.readOnly
              THEN [app EXCEPT !.readOnly = FALSE, !.shownReadOnly = TRUE] ELSE app
         u == [t EXCEPT !.movie = "recording", !.shownRecording = TRUE]
     IN  UserStep(IF ~ok THEN t ELSE IF IsRunning(u) THEN u ELSE PlayGame(u, g, boot))

\* Movie > Stop Recording: export a recording first, then
\* Movie::EndPlayInput(false).
OnStopRecording(file) ==
  LET t == IF app.movie = "recording" THEN ExportRecording(app, file) ELSE app
  IN  UserStep([t EXCEPT !.movie = "none", !.shownRecording = TRUE])

\* Movie > Export Recording, or its hotkey.
OnExportRecording(file) == UserStep(ExportRecording(app, file))

\* The user answers the innermost QMessageBox::question.
AnswerDialog(yes) ==
  /\ app.dialogs # <<>>
  /\ LET f == app.dialogs[Len(app.dialogs)]
         t == [app EXCEPT !.dialogs = SubSeq(@, 1, Len(@) - 1)]
         u == IF f.paused THEN SetState(t, f.saved) ELSE t
     IN  app' = IF yes THEN StopConfirmed(u, f) ELSE Return(u, f, FALSE)
  /\ UNCHANGED acts

\* The GUI thread dispatches a posted OnStopComplete: the
\* EmulationStateChanged(Uninitialized) lambda or RequestStop's host job.
Dispatch(boot) ==
  /\ app.posted > 0 /\ ~app.quit
  /\ app' = OnStopComplete([app EXCEPT !.posted = @ - 1], boot)
  /\ UNCHANGED acts

CoreStarted ==
  /\ app.core = "Starting" /\ ~app.quit
  /\ app' = [app EXCEPT !.core = "Running"]
  /\ UNCHANGED acts

\* The emulation thread fails to set up the game it was handed (Core::Init
\* succeeded, but the video backend or the boot image does not): it
\* returns without running and the Core reports Uninitialized.
CoreBootFailed ==
  /\ app.core = "Starting" /\ ~app.quit
  /\ app' = [app EXCEPT !.core = "Uninitialized", !.stmHook = FALSE, !.power = FALSE,
                        !.posted = @ + 1]
  /\ UNCHANGED acts

\* A game that got the power button shuts itself down, or never does.
GameShutsDown ==
  /\ app.power /\ app.core = "Running" /\ ~app.quit
  /\ app' = [app EXCEPT !.core = "Stopping"]
  /\ UNCHANGED acts

CoreStopped ==
  /\ app.core = "Stopping" /\ ~app.quit
  /\ app' = [app EXCEPT !.core = "Uninitialized", !.stmHook = FALSE, !.power = FALSE,
                        !.posted = @ + 1]
  /\ UNCHANGED acts

UserNext ==
  \/ Pause \/ Stop \/ FullScreen \/ NetPlayQuit
  \/ \E g \in Games, boot \in BootOutcomes : UserStartGame(g, boot)
  \/ \E g \in Games \cup {NoGame}, boot \in BootOutcomes :
       \/ Play(g, boot)
       \/ \E ok \in BOOLEAN : OnPlayRecording(ok, g, boot) \/ OnStartRecording(ok, g, boot)
  \/ ToggleReadOnlyMode
  \/ \E file \in BOOLEAN : OnStopRecording(file) \/ OnExportRecording(file)
  \/ \E obj \in {"CloseMain", "CloseRender"} : Close(obj)
  \/ \E toMain, confirm \in BOOLEAN : OnSaveConfig(toMain, confirm)
  \/ \E ok \in BOOLEAN : NetPlayJoin(ok)
  \/ \E listens, ok \in BOOLEAN : NetPlayHost(listens, ok)
  \/ \E yes \in BOOLEAN : AnswerDialog(yes)

Next ==
  \/ UserNext
  \/ \E boot \in BootOutcomes : Dispatch(boot)
  \/ CoreStarted \/ CoreBootFailed \/ GameShutsDown \/ CoreStopped

\* The Qt event loop dispatches what is posted and the emulation thread
\* starts (or fails to) and shuts down; the user and the game owe nothing.
Fairness ==
  /\ WF_vars(\E boot \in BootOutcomes : Dispatch(boot))
  /\ WF_vars(CoreStarted \/ CoreBootFailed) /\ WF_vars(CoreStopped)

Spec == Init /\ [][Next]_vars /\ Fairness

-----------------------------------------------------------------------------
(* Properties                                                              *)

\* Every field keeps its type; in particular a completion is dispatched
\* only when one was posted by CoreStopped or RequestStop.
TypeOK ==
  /\ acts \in 0..MaxActions
  /\ app.core \in CoreStates /\ app.widget \in WidgetStates
  /\ app.m_pending_boot \in Games \cup {NoGame} /\ app.wanted \in Games \cup {NoGame}
  /\ app.posted \in Nat /\ app.dialogs \in Seq(Frames)
  /\ app.movie \in MovieModes

\* A game the user chose while another one ran is booted once that one has
\* stopped: until it boots or the user cancels it, it is m_pending_boot or
\* held by a StartGame waiting in its stop confirmation, and an
\* OnStopComplete is still to come (OnStopComplete's comment: "If the current
\* emulation prevented the booting of another, do that now").
ChosenGameStillBoots ==
  app.wanted # NoGame =>
    /\ \/ app.m_pending_boot = app.wanted
       \/ \E i \in 1..Len(app.dialogs) : app.dialogs[i].game = app.wanted
    /\ app.core # "Uninitialized" \/ app.posted > 0 \/ app.dialogs # <<>>

\* While a game runs and no stop completion is pending, its render widget is
\* on screen: OnStopComplete hides the widget of the game that stopped, never
\* of one booted after it.
RenderWidgetShownWhileRunning ==
  IsRunning(app) /\ app.posted = 0 /\ app.dialogs = <<>> /\ ~app.quit => app.widget # "hidden"

\* Once the emulation is stopping, the render widget is eventually hidden by
\* OnStopComplete, unless a new game has started or the application quit:
\* EmulationStateChanged(Uninitialized) reaches the GUI thread whatever the
\* window was doing, a confirmation dialog included.
RenderWidgetHiddenAfterStop ==
  app.core = "Stopping" ~> (app.widget = "hidden" \/ IsRunning(app) \/ app.quit)

\* The Movie menu shows what Movie is doing: Stop Recording is enabled
\* (RecordingStatusChanged) exactly while a movie is recorded or played, and
\* the read-only check mark (ReadOnlyModeChanged) is Movie::IsReadOnly().
RecordingMenuShowsMovie ==
  /\ app.shownRecording = (app.movie # "none")
  /\ app.shownReadOnly = app.readOnly

\* Exporting a recording leaves the emulation running or paused as it was:
\* OnExportRecording only pauses it while its file dialog is open.
ExportKeepsEmulationState ==
  [][\A file \in BOOLEAN : OnExportRecording(file) => app'.core = app.core]_vars

\* Closing the main window quits the application once the emulation has
\* stopped (eventFilter sets m_exit_requested, OnStopComplete quits), unless
\* the running game was sent the power button and is free to ignore it.
ExitHonoured ==
  app.m_exit_requested ~> (app.quit \/ (app.power /\ app.core \in {"Running", "Paused"}))

====
