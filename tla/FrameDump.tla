----------------------------- MODULE FrameDump -----------------------------
(***************************************************************************)
(* The frame-dump and screenshot pipeline of VideoCommon's Renderer        *)
(* (VideoCommon/RenderBase.cpp).  Three threads share it:                  *)
(*                                                                         *)
(*  - the video thread runs Renderer::Swap once per presented field:       *)
(*    FlushFrameDump hands the frame read back during the previous Swap to *)
(*    the encoder, then a new XFB is rendered into                         *)
(*    m_frame_dump_render_texture and copied into readback texture [0];    *)
(*  - the "FrameDumping" thread (RunFrameDumps) waits on                   *)
(*    m_frame_dump_start, reads m_frame_dump_config, saves a requested     *)
(*    screenshot, writes the frame to the AVI/image dump and sets          *)
(*    m_frame_dump_done;                                                   *)
(*  - the UI thread calls SaveScreenshot and toggles SConfig::m_DumpFrames.*)
(*                                                                         *)
(* Common::Event is an auto-reset flag: Set raises it, Wait blocks until   *)
(* it is raised and lowers it, WaitFor may also give up.  Common::Flag is  *)
(* an atomic bool.  Frames are identified by the number of the Swap that   *)
(* presented them; pixel data is abstracted to that number.                *)
(***************************************************************************)
EXTENDS Naturals, Sequences, SequencesExt, FiniteSets

CONSTANTS
  Backend,         \* which AbstractStagingTexture implementation is in use
  Buffers,         \* identities of staging texture objects
  NoBuffer,        \* a null std::unique_ptr<AbstractStagingTexture>
  Dims,            \* frame-dump target sizes, records [w |-> .., h |-> ..]
  NoTexture,       \* a null m_frame_dump_render_texture
  MaxFrames,       \* bound on Swap calls
  MaxScreenshots,  \* bound on SaveScreenshot calls
  MaxToggles       \* bound on the UI toggling m_DumpFrames

ASSUME MaxFrames \in Nat /\ MaxScreenshots \in Nat /\ MaxToggles \in Nat

ST == INSTANCE StagingTexture

Frames == 0..MaxFrames              \* 0: no frame
Names == 0..MaxScreenshots          \* screenshot file names; 0 is ""

VARIABLES
  \* video thread
  mpc,                        \* where the video thread is in Swap/Shutdown
  flushRet,                   \* where FlushFrameDump returns to
  shutRet,                    \* where ShutdownFrameDumping returns to
  frameCount,
  renderTexture,              \* m_frame_dump_render_texture's size
  dumpTarget,                 \* target size of the last RenderFrameDump
  readback,                   \* m_frame_dump_readback_textures[0..1]
  staging,                    \* state of each staging texture object
  alive,                      \* staging texture objects not yet destroyed
  lastFrameState,             \* m_last_frame_state (its frame)
  lastFrameExported,          \* m_last_frame_exported
  frameRunning,               \* m_frame_dump_frame_running
  \* shared between the video and FrameDumping threads
  threadRunning,              \* m_frame_dump_thread_running
  frameDumpStart,             \* m_frame_dump_start
  frameDumpDone,              \* m_frame_dump_done
  frameDumpConfig,            \* m_frame_dump_config: data pointer and frame
  \* FrameDumping thread
  wpc,
  wbuf, wframe,               \* its local copy of the config
  dumpStarted,                \* frame_dump_started
  \* shared with the UI thread
  dumpFrames,                 \* SConfig::m_DumpFrames
  screenshotRequest,          \* m_screenshot_request
  screenshotName,             \* m_screenshot_name (guarded by m_screenshot_lock)
  screenshotCompleted,        \* m_screenshot_completed
  \* UI thread
  uipc, uiWaitName, shotsRequested, toggles,
  \* history
  dispatched,                 \* frames handed to the encoder, in order
  taken,                      \* frames the encoder picked up, in order
  savedShots,                 \* screenshots written
  offSwaps,                   \* Swaps that presented with m_DumpFrames off
  dumpStartFrame              \* the frame the current dump was started with

videoVars == <<mpc, flushRet, shutRet, frameCount, renderTexture, dumpTarget,
               readback, staging, alive, lastFrameState, lastFrameExported,
               frameRunning>>
sharedVars == <<threadRunning, frameDumpStart, frameDumpDone, frameDumpConfig>>
workerVars == <<wpc, wbuf, wframe, dumpStarted>>
uiVars == <<dumpFrames, screenshotRequest, screenshotName, screenshotCompleted,
            uipc, uiWaitName, shotsRequested, toggles>>
histVars == <<dispatched, taken, savedShots, offSwaps, dumpStartFrame>>
vars == <<videoVars, sharedVars, workerVars, uiVars, histVars>>

-----------------------------------------------------------------------------
(* Helpers                                                                 *)

\* Renderer::IsFrameDumping
IsFrameDumping == screenshotRequest \/ dumpFrames

\* Staging objects that nothing points at and may be allocated anew.
FreeBuffers == Buffers \ (alive \cup {frameDumpConfig.buf, wbuf})

\* What is left of a destroyed staging object: its contents are unknown.
FreedStaging == ST!Create(CHOOSE d \in Dims : TRUE)

-----------------------------------------------------------------------------
(* Initial state: renderer constructed, no dump running.                   *)

Init ==
  /\ mpc = "idle"
  /\ flushRet = "swap_xfb"
  /\ shutRet = "stopped"
  /\ frameCount = 0
  /\ renderTexture = NoTexture
  /\ dumpTarget = NoTexture
  /\ readback = [i \in 0..1 |-> NoBuffer]
  /\ staging = [b \in Buffers |-> FreedStaging]
  /\ alive = {}
  /\ lastFrameState = 0
  /\ lastFrameExported = FALSE
  /\ frameRunning = FALSE
  /\ threadRunning = FALSE
  /\ frameDumpStart = FALSE
  /\ frameDumpDone = FALSE
  /\ frameDumpConfig = [buf |-> NoBuffer, frame |-> 0]
  /\ wpc = "none"
  /\ wbuf = NoBuffer
  /\ wframe = 0
  /\ dumpStarted = FALSE
  /\ dumpFrames \in BOOLEAN
  /\ screenshotRequest = FALSE
  /\ screenshotName = 0
  /\ screenshotCompleted = FALSE
  /\ uipc = "idle"
  /\ uiWaitName = 0
  /\ shotsRequested = 0
  /\ toggles = 0
  /\ dispatched = <<>>
  /\ taken = <<>>
  /\ savedShots = {}
  /\ offSwaps = {}
  /\ dumpStartFrame = 0

-----------------------------------------------------------------------------
(* Video thread: Renderer::Swap                                            *)

\* Swap entry: the aspect-ratio heuristic touches nothing modelled here;
\* then FlushFrameDump() (line 633), returning to the XFB part of Swap.
Swap ==
  /\ mpc = "idle"
  /\ frameCount < MaxFrames
  /\ mpc' = "flush"
  /\ flushRet' = "swap_xfb"
  /\ UNCHANGED <<shutRet, frameCount, renderTexture, dumpTarget, readback,
                 staging, alive, lastFrameState, lastFrameExported,
                 frameRunning, sharedVars, workerVars, uiVars, histVars>>

\* Variant of FlushFrameDump without FinishFrameData().
FlushFrameDumpNoFinish ==
  /\ mpc = "flush"
  /\ mpc' = IF ~lastFrameExported THEN flushRet ELSE "flush_map"
  /\ UNCHANGED <<flushRet, shutRet, frameCount, renderTexture, dumpTarget,
                 readback, staging, alive, lastFrameState, lastFrameExported,
                 frameRunning, sharedVars, workerVars, uiVars, histVars>>

\* FlushFrameDump: nothing to do unless the last Swap queued a readback;
\* otherwise FinishFrameData() waits for the previous encode if one runs.
FlushFrameDump ==
  /\ mpc = "flush"
  /\ mpc' = CASE ~lastFrameExported -> flushRet
              [] frameRunning       -> "flush_wait"
              [] OTHER              -> "flush_map"
  /\ UNCHANGED <<flushRet, shutRet, frameCount, renderTexture, dumpTarget,
                 readback, staging, alive, lastFrameState, lastFrameExported,
                 frameRunning, sharedVars, workerVars, uiVars, histVars>>

\* FinishFrameData: m_frame_dump_done.Wait(); m_frame_dump_frame_running = false.
\* Used by FlushFrameDump and by ShutdownFrameDumping.
FinishFrameData(from, to) ==
  /\ mpc = from
  /\ frameDumpDone
  /\ frameDumpDone' = FALSE
  /\ frameRunning' = FALSE
  /\ mpc' = to
  /\ UNCHANGED <<flushRet, shutRet, frameCount, renderTexture, dumpTarget,
                 readback, staging, alive, lastFrameState, lastFrameExported,
                 threadRunning, frameDumpStart, frameDumpConfig,
                 workerVars, uiVars, histVars>>

\* FlushFrameDump, lines 770-776: Flush() and Map() readback texture [0],
\* then DumpFrameData: publish the mapped pointer in m_frame_dump_config,
\* start the FrameDumping thread if it is not running (joining the one
\* that exited), wake it, and mark a frame as running.
DumpFrameData ==
  /\ mpc = "flush_map"
  /\ LET rb == readback[0] IN
       /\ staging' = [staging EXCEPT ![rb] = ST!Map(ST!Flush(@))]
       /\ frameDumpConfig' = [buf |-> rb, frame |-> lastFrameState]
  /\ IF threadRunning
       THEN UNCHANGED <<threadRunning, workerVars, dumpStartFrame>>
       ELSE /\ wpc \in {"none", "exited"}          \* join()
            /\ threadRunning' = TRUE
            /\ wpc' = "wait_start"
            /\ dumpStarted' = FALSE
            /\ UNCHANGED <<wbuf, wframe, dumpStartFrame>>
  /\ frameDumpStart' = TRUE
  /\ frameRunning' = TRUE
  /\ dispatched' = Append(dispatched, lastFrameState)
  /\ mpc' = "flush_unmap"
  /\ UNCHANGED <<flushRet, shutRet, frameCount, renderTexture, dumpTarget,
                 readback, alive, lastFrameState, lastFrameExported,
                 frameDumpDone, uiVars, taken, savedShots, offSwaps>>

\* FlushFrameDump, lines 779-784: clear m_last_frame_exported, and shut
\* frame dumping down if it is no longer active.  The FlushFrameDump at the
\* top of that ShutdownFrameDumping returns at once (m_last_frame_exported
\* is false); and when this flush was itself called from
\* ShutdownFrameDumping, the outer call finds the thread stopped by the
\* inner one and returns, so the inner one returns straight to the outer
\* call's caller.
EndFlush ==
  /\ lastFrameExported' = FALSE
  /\ IF IsFrameDumping
       THEN /\ mpc' = flushRet
            /\ UNCHANGED shutRet
       ELSE /\ mpc' = "shutdown_cont"
            /\ shutRet' = IF flushRet = "shutdown_cont" THEN shutRet ELSE flushRet

\* FlushFrameDump, line 777: Unmap() readback texture [0], then EndFlush.
FlushUnmap ==
  /\ mpc = "flush_unmap"
  /\ staging' = [staging EXCEPT ![readback[0]] = ST!Unmap(@)]
  /\ EndFlush
  /\ UNCHANGED <<flushRet, frameCount, renderTexture, dumpTarget, readback,
                 alive, lastFrameState, frameRunning, sharedVars, workerVars,
                 uiVars, histVars>>

\* FlushFrameDump, lines 770-771 and 779-784: Flush() readback texture
\* [0], and Map() fails.  Map only does work, and can fail, on a texture
\* that is not already mapped (D3D, GL without persistent buffers).  The
\* frame is not handed over and nothing is unmapped.
MapFailed ==
  /\ mpc = "flush_map"
  /\ ST!MapCanFail(staging[readback[0]])
  /\ staging' = [staging EXCEPT ![readback[0]] = ST!Flush(@)]
  /\ EndFlush
  /\ UNCHANGED <<flushRet, frameCount, renderTexture, dumpTarget, readback,
                 alive, lastFrameState, frameRunning, sharedVars, workerVars,
                 uiVars, histVars>>

\* ShutdownFrameDumping called by the backend when the renderer shuts down:
\* its first statement is FlushFrameDump().
ShutdownFrameDumping ==
  /\ mpc = "idle"
  /\ mpc' = "flush"
  /\ flushRet' = "shutdown_cont"
  /\ shutRet' = "stopped"
  /\ UNCHANGED <<frameCount, renderTexture, dumpTarget, readback, staging,
                 alive, lastFrameState, lastFrameExported, frameRunning,
                 sharedVars, workerVars, uiVars, histVars>>

\* Variant of ShutdownFrameDumping without FinishFrameData().
ShutdownCheckRunningNoFinish ==
  /\ mpc = "shutdown_cont"
  /\ mpc' = IF ~threadRunning THEN shutRet ELSE "shutdown_signal"
  /\ UNCHANGED <<flushRet, shutRet, frameCount, renderTexture, dumpTarget,
                 readback, staging, alive, lastFrameState, lastFrameExported,
                 frameRunning, sharedVars, workerVars, uiVars, histVars>>

\* ShutdownFrameDumping after its flush: return if the thread is not
\* running, otherwise FinishFrameData() first.
ShutdownCheckRunning ==
  /\ mpc = "shutdown_cont"
  /\ mpc' = CASE ~threadRunning -> shutRet
              [] frameRunning   -> "shutdown_wait"
              [] OTHER          -> "shutdown_signal"
  /\ UNCHANGED <<flushRet, shutRet, frameCount, renderTexture, dumpTarget,
                 readback, staging, alive, lastFrameState, lastFrameExported,
                 frameRunning, sharedVars, workerVars, uiVars, histVars>>

\* Variant of ShutdownSignal that does not wake the thread.
ShutdownSignalNoWake ==
  /\ mpc = "shutdown_signal"
  /\ threadRunning' = FALSE
  /\ mpc' = "shutdown_join"
  /\ UNCHANGED <<flushRet, shutRet, frameCount, renderTexture, dumpTarget,
                 readback, staging, alive, lastFrameState, lastFrameExported,
                 frameRunning, frameDumpDone, frameDumpStart, frameDumpConfig,
                 workerVars, uiVars, histVars>>

\* m_frame_dump_thread_running.Clear(); m_frame_dump_start.Set();
ShutdownSignal ==
  /\ mpc = "shutdown_signal"
  /\ threadRunning' = FALSE
  /\ frameDumpStart' = TRUE
  /\ mpc' = "shutdown_join"
  /\ UNCHANGED <<flushRet, shutRet, frameCount, renderTexture, dumpTarget,
                 readback, staging, alive, lastFrameState, lastFrameExported,
                 frameRunning, frameDumpDone, frameDumpConfig, workerVars,
                 uiVars, histVars>>

\* m_frame_dump_thread.join(): blocks until RunFrameDumps has returned.
ShutdownJoin ==
  /\ mpc = "shutdown_join"
  /\ wpc = "exited"
  /\ mpc' = shutRet
  /\ UNCHANGED <<flushRet, shutRet, frameCount, renderTexture, dumpTarget,
                 readback, staging, alive, lastFrameState, lastFrameExported,
                 frameRunning, sharedVars, workerVars, uiVars, histVars>>

\* RenderFrameDump, lines 715-726: (re)create m_frame_dump_render_texture
\* when there is none or its size is not the target's.  The height test
\* is written "==" in the code.
RenderTextureFor(tex, d) ==
  IF tex = NoTexture \/ tex.w # d.w \/ tex.h = d.h THEN d ELSE tex

\* Variant of QueueFrameDumpReadback that never swaps the two textures.
QueueFrameDumpReadbackNoSwap(tex, frame) ==
  LET rb == readback[0]
  IN /\ IF rb = NoBuffer \/ staging[rb].dims # tex
          THEN \E nb \in FreeBuffers :
                 /\ readback' = [readback EXCEPT ![0] = nb]
                 /\ staging' = [b \in Buffers |->
                                  CASE b = nb -> ST!CopyFromTexture(ST!Create(tex), frame)
                                    [] b = rb -> FreedStaging
                                    [] OTHER  -> staging[b]]
                 /\ alive' = (alive \ {rb}) \cup {nb}
          ELSE /\ readback' = readback
               /\ staging' = [staging EXCEPT ![rb] = ST!CopyFromTexture(@, frame)]
               /\ UNCHANGED alive
     /\ lastFrameState' = frame
     /\ lastFrameExported' = TRUE

\* QueueFrameDumpReadback: swap the two readback textures if [0] exists,
\* (re)create [0] when it is null or its config differs from the render
\* texture's (destroying the old object), record the frame and copy the
\* render texture into [0].
QueueFrameDumpReadback(tex, frame) ==
  LET swapped == IF readback[0] # NoBuffer
                   THEN [i \in 0..1 |-> readback[1 - i]] ELSE readback
      rb == swapped[0]
  IN /\ IF rb = NoBuffer \/ staging[rb].dims # tex
          THEN \E nb \in FreeBuffers :
                 /\ readback' = [swapped EXCEPT ![0] = nb]
                 /\ staging' = [b \in Buffers |->
                                  CASE b = nb -> ST!CopyFromTexture(ST!Create(tex), frame)
                                    [] b = rb -> FreedStaging
                                    [] OTHER  -> staging[b]]
                 /\ alive' = (alive \ {rb}) \cup {nb}
          ELSE /\ readback' = swapped
               /\ staging' = [staging EXCEPT ![rb] = ST!CopyFromTexture(@, frame)]
               /\ UNCHANGED alive
     /\ lastFrameState' = frame
     /\ lastFrameExported' = TRUE

\* Swap, lines 635-669, after FlushFrameDump.  The XFB is either absent or
\* the one presented last time (nothing is drawn), or a new one: SwapImpl
\* presents it and, if IsFrameDumping(), DumpCurrentFrame() renders it
\* into the dump texture at a target size (window or internal resolution)
\* and queues its readback.  Then frameCount++.
SwapXFB ==
  /\ mpc = "swap_xfb"
  /\ LET frame == frameCount + 1 IN
       \/ UNCHANGED <<renderTexture, dumpTarget, readback, staging, alive,
                      lastFrameState, lastFrameExported>>
       \/ /\ IsFrameDumping
          /\ \E d \in Dims :
               /\ renderTexture' = RenderTextureFor(renderTexture, d)
               /\ dumpTarget' = d
               /\ QueueFrameDumpReadback(renderTexture', frame)
  /\ frameCount' = frameCount + 1
  /\ offSwaps' = IF dumpFrames THEN offSwaps ELSE offSwaps \cup {frameCount + 1}
  /\ mpc' = "idle"
  /\ UNCHANGED <<flushRet, shutRet, frameRunning, sharedVars, workerVars,
                 uiVars, dispatched, taken, savedShots, dumpStartFrame>>

-----------------------------------------------------------------------------
(* FrameDumping thread: Renderer::RunFrameDumps                            *)

\* m_frame_dump_start.Wait(); exit the loop if the thread was told to stop
\* (then StopFrameDumpToAVI if a dump was started); otherwise copy
\* m_frame_dump_config and m_screenshot_request.TestAndClear().
WakeAndTakeConfig ==
  /\ wpc = "wait_start"
  /\ frameDumpStart
  /\ frameDumpStart' = FALSE
  /\ IF ~threadRunning
       THEN /\ wpc' = "exited"
            /\ UNCHANGED <<wbuf, wframe, screenshotRequest, taken>>
       ELSE /\ wbuf' = frameDumpConfig.buf
            /\ wframe' = frameDumpConfig.frame
            /\ taken' = Append(taken, frameDumpConfig.frame)
            /\ screenshotRequest' = FALSE
            /\ wpc' = IF screenshotRequest THEN "screenshot" ELSE "dump"
  /\ UNCHANGED <<videoVars, threadRunning, frameDumpDone, frameDumpConfig,
                 dumpStarted, dumpFrames, screenshotName, screenshotCompleted,
                 uipc, uiWaitName, shotsRequested, toggles, dispatched,
                 savedShots, offSwaps, dumpStartFrame>>

\* Under m_screenshot_lock: TextureToPng(config.data, ..., m_screenshot_name),
\* m_screenshot_name.clear(), m_screenshot_completed.Set().  A PNG with an
\* empty name cannot be opened and is not written.
SaveScreenshotFrame ==
  /\ wpc = "screenshot"
  /\ savedShots' = IF screenshotName # 0
                     THEN savedShots \cup {screenshotName} ELSE savedShots
  /\ screenshotName' = 0
  /\ screenshotCompleted' = TRUE
  /\ wpc' = "dump"
  /\ UNCHANGED <<videoVars, sharedVars, wbuf, wframe, dumpStarted, dumpFrames,
                 screenshotRequest, uipc, uiWaitName, shotsRequested, toggles,
                 dispatched, taken, offSwaps, dumpStartFrame>>

\* Lines 869-893: if m_DumpFrames, start the AVI/image dump the first time
\* (a failed start clears m_DumpFrames) and write the frame once started;
\* then m_frame_dump_done.Set().
DumpFrame ==
  /\ wpc = "dump"
  /\ \/ /\ ~dumpFrames \/ dumpStarted
        /\ UNCHANGED <<dumpStarted, dumpFrames, dumpStartFrame>>
     \/ /\ dumpFrames /\ ~dumpStarted
        /\ dumpStarted' = TRUE
        /\ dumpStartFrame' = wframe
        /\ UNCHANGED dumpFrames
     \/ /\ dumpFrames /\ ~dumpStarted
        /\ dumpFrames' = FALSE
        /\ UNCHANGED <<dumpStarted, dumpStartFrame>>
  /\ frameDumpDone' = TRUE
  /\ wpc' = "wait_start"
  /\ UNCHANGED <<videoVars, threadRunning, frameDumpStart, frameDumpConfig,
                 wbuf, wframe, screenshotRequest, screenshotName,
                 screenshotCompleted, uipc, uiWaitName, shotsRequested,
                 toggles, dispatched, taken, savedShots, offSwaps>>

-----------------------------------------------------------------------------
(* UI thread                                                               *)

\* Renderer::SaveScreenshot: under m_screenshot_lock set the name and the
\* request; then, if asked to, m_screenshot_completed.WaitFor(2 s).  The
\* n-th request names its file n.
SaveScreenshot ==
  /\ uipc = "idle"
  /\ shotsRequested < MaxScreenshots
  /\ \E wait \in BOOLEAN :
       LET n == shotsRequested + 1 IN
       /\ screenshotName' = n
       /\ screenshotRequest' = TRUE
       /\ shotsRequested' = n
       /\ uipc' = IF wait THEN "waiting" ELSE "idle"
       /\ uiWaitName' = IF wait THEN n ELSE uiWaitName
  /\ UNCHANGED <<videoVars, sharedVars, workerVars, dumpFrames,
                 screenshotCompleted, toggles, histVars>>

\* WaitFor returns true once the event is set, and lowers it.
ScreenshotWaitReturns ==
  /\ uipc = "waiting"
  /\ screenshotCompleted
  /\ screenshotCompleted' = FALSE
  /\ uipc' = "idle"
  /\ UNCHANGED <<videoVars, sharedVars, workerVars, dumpFrames,
                 screenshotRequest, screenshotName, uiWaitName,
                 shotsRequested, toggles, histVars>>

\* WaitFor gives up after 2 seconds without the event.
ScreenshotWaitTimesOut ==
  /\ uipc = "waiting"
  /\ ~screenshotCompleted
  /\ uipc' = "idle"
  /\ UNCHANGED <<videoVars, sharedVars, workerVars, dumpFrames,
                 screenshotRequest, screenshotName, screenshotCompleted,
                 uiWaitName, shotsRequested, toggles, histVars>>

\* Movie > Dump Frames flips SConfig::m_DumpFrames.
ToggleDumpFrames ==
  /\ uipc = "idle"
  /\ toggles < MaxToggles
  /\ dumpFrames' = ~dumpFrames
  /\ toggles' = toggles + 1
  /\ UNCHANGED <<videoVars, sharedVars, workerVars, screenshotRequest,
                 screenshotName, screenshotCompleted, uipc, uiWaitName,
                 shotsRequested, histVars>>

\* The renderer has been shut down and every thread has finished.
Terminated ==
  /\ mpc = "stopped"
  /\ wpc \in {"none", "exited"}
  /\ uipc = "idle"
  /\ UNCHANGED vars

-----------------------------------------------------------------------------

VideoStep ==
  \/ FlushFrameDump
  \/ FinishFrameData("flush_wait", "flush_map")
  \/ DumpFrameData
  \/ MapFailed
  \/ FlushUnmap
  \/ ShutdownCheckRunning
  \/ FinishFrameData("shutdown_wait", "shutdown_signal")
  \/ ShutdownSignal
  \/ ShutdownJoin
  \/ SwapXFB

WorkerStep == WakeAndTakeConfig \/ SaveScreenshotFrame \/ DumpFrame

UIStep ==
  \/ SaveScreenshot \/ ScreenshotWaitReturns \/ ScreenshotWaitTimesOut
  \/ ToggleDumpFrames

Next ==
  \/ Swap \/ ShutdownFrameDumping \/ VideoStep
  \/ WorkerStep
  \/ UIStep
  \/ Terminated

\* Once inside Swap or ShutdownFrameDumping the video thread keeps running
\* (it blocks only on events the model has), and the FrameDumping thread is
\* an OS thread that runs when its event is set.  Neither the emulated game
\* (calling Swap) nor the user is obliged to do anything.
Fairness == WF_vars(VideoStep) /\ WF_vars(WorkerStep)

Spec == Init /\ [][Next]_vars /\ Fairness

-----------------------------------------------------------------------------
(* Properties                                                              *)

TypeOK ==
  /\ mpc \in {"idle", "flush", "flush_wait", "flush_map", "flush_unmap",
              "swap_xfb", "shutdown_cont", "shutdown_wait",
              "shutdown_signal", "shutdown_join", "stopped"}
  /\ flushRet \in {"swap_xfb", "shutdown_cont"}
  /\ shutRet \in {"swap_xfb", "stopped"}
  /\ frameCount \in 0..MaxFrames
  /\ renderTexture \in Dims \cup {NoTexture}
  /\ dumpTarget \in Dims \cup {NoTexture}
  /\ readback \in [0..1 -> Buffers \cup {NoBuffer}]
  /\ staging \in [Buffers -> ST!StagingState(Dims, Frames)]
  /\ alive \subseteq Buffers
  /\ lastFrameState \in Frames
  /\ {lastFrameExported, frameRunning, threadRunning, frameDumpStart,
      frameDumpDone, dumpStarted, dumpFrames, screenshotRequest,
      screenshotCompleted} \subseteq BOOLEAN
  /\ frameDumpConfig \in [buf: Buffers \cup {NoBuffer}, frame: Frames]
  /\ wpc \in {"none", "wait_start", "screenshot", "dump", "exited"}
  /\ wbuf \in Buffers \cup {NoBuffer}
  /\ wframe \in Frames
  /\ screenshotName \in Names
  /\ uipc \in {"idle", "waiting"}
  /\ uiWaitName \in Names
  /\ dispatched \in Seq(Frames)
  /\ taken \in Seq(Frames)
  /\ savedShots \subseteq Names
  /\ offSwaps \subseteq 1..MaxFrames
  /\ dumpStartFrame \in Frames

\* The FrameDumping thread reads the pixels of frame wframe through the
\* pointer published in m_frame_dump_config while it saves a screenshot or
\* writes the dump.  Over that whole time the staging texture must still
\* exist, be mapped, have had its GPU copy waited for, and hold that frame:
\* the video thread must neither unmap, destroy nor copy a new frame into
\* it (FlushFrameDump, QueueFrameDumpReadback).
WorkerFrameIntact ==
  wpc \in {"screenshot", "dump"} =>
    /\ wbuf \in alive
    /\ ST!CPUReadable(staging[wbuf])
    /\ staging[wbuf].data = wframe

\* The events hand each frame from DumpFrameData to the FrameDumping thread
\* exactly once and in order, with at most one frame in flight: no frame is
\* lost by setting m_frame_dump_start twice before the thread wakes, and
\* none is taken twice.
FramesTakenInOrder ==
  /\ IsPrefix(taken, dispatched)
  /\ Len(dispatched) <= Len(taken) + 1

\* Every frame handed to the FrameDumping thread is eventually picked up by
\* it, also when dumping is being shut down (ShutdownFrameDumping must let
\* the last frame be encoded before telling the thread to exit).
EveryFrameEncoded ==
  \A n \in 1..MaxFrames : (Len(dispatched) >= n) ~> (Len(taken) >= n)

\* ShutdownFrameDumping, and the FlushFrameDump at the start of every Swap,
\* return: the video thread never waits for good on m_frame_dump_done
\* (FinishFrameData) or on joining the FrameDumping thread, whatever the
\* worker, a failed Map or the user's toggles did before.
VideoThreadReturns ==
  (mpc \notin {"idle", "stopped"}) ~> (mpc \in {"idle", "stopped"})

\* A screenshot is saved under the name SaveScreenshot gave it: whenever the
\* FrameDumping thread has found m_screenshot_request set, m_screenshot_name
\* is not empty.
ScreenshotHasName == wpc = "screenshot" => screenshotName # 0

\* SaveScreenshot(name, true) returns through the completion event only
\* after that screenshot has been written.
ScreenshotWaitSeesOwnShot ==
  [][(uipc = "waiting" /\ uipc' = "idle" /\ screenshotCompleted)
       => uiWaitName \in savedShots]_vars

\* Spec 5: stopping frame dumping makes the FrameDumping thread exit, so
\* one AVI/image dump holds frames of one period of dumping: no Swap that
\* presented with m_DumpFrames off lies between the frame a dump was
\* started with and a frame written to it.
DumpNotResumedAfterStop ==
  (wpc = "dump" /\ dumpFrames /\ dumpStarted) =>
    \A s \in offSwaps : ~(dumpStartFrame < s /\ s < wframe)

\* Between Swaps, m_frame_dump_render_texture has the size RenderFrameDump
\* last computed as the target.
RenderTextureMatchesTarget == mpc = "idle" => renderTexture = dumpTarget

=============================================================================
