# TLA+ models of the DolphinUWP video pipeline

This directory holds TLA+ models of the rendering and frame-dump code in
`src/Source/Core`, and of two dialogs and the main window of its UI, the TLC configurations that check them, and `PROJECT.json`,
which records:

- which definition models which source lines;
- what each run checks;
- the mutants that show each property can fail;
- the findings;
- the hazards.

## The system

The repository is a slice of Dolphin's video code:

- **VideoCommon (`RenderBase.cpp/.h`)**: the backend-independent `Renderer`.
  - `Swap` is called by the emulated GPU at each XFB copy. It presents new
    XFB textures through the backend's `SwapImpl` and drives frame dumping
    and screenshots.
  - It also does the coordinate arithmetic between EFB and host resolution:
    `CalculateTargetSize`, `EFBToScaledX/Y`, `UpdateDrawRectangle` and
    `CalculateOutputDimensions`.
- **Staging textures.** A staging texture is a CPU-visible copy of a GPU
  texture.
  - The implementations are `DXStagingTexture`, `OGLStagingTexture` and
    `SWStagingTexture`.
  - The contract is `CopyFromTexture` (GPU→staging), then `Flush` (wait for
    the copy), then `Map`, then a read through the mapped pointer, then
    `Unmap`.
  - Each backend implements these differently. GL with `ARB_buffer_storage`
    maps its buffers persistently. D3D and GL without it map on demand, and
    `Unmap` releases the pointer.
- **Backends.**
  - The D3D11, OpenGL, Vulkan, Software and Null renderers provide EFB
    peek/poke (`AccessEFB`, `PokeEFB`), clears, pixel-format
    reinterpretation and `SwapImpl`.
  - OpenGL keeps a tiled peek cache.
  - Vulkan batches pokes until `SwapImpl`.
- **EFB-to-RAM encoders** (`OGL/TextureConverter.cpp`,
  `D3D/PSTextureEncoder.cpp`): shader caches keyed by copy parameters,
  plus a readback through a staging texture.
- **Texture cache**: only `TextureCacheBase.h` is in the repository.
- **UI** (DolphinQt2, DolphinWX): widget code. The parts that reach the
  renderer are the screenshot action (`MainWindow::ScreenShot` →
  `Core::SaveScreenShot` → `Renderer::SaveScreenshot`) and the "Dump Frames"
  toggle (`SConfig::m_DumpFrames`). Two dialogs hold state of their own:
  the debugger's Code Diff Tool and the wx game properties dialog
  (`CISOProperties`), which edits a game's local INI file. DolphinQt2's
  `MainWindow` starts and stops emulation: it boots games through
  `BootManager`, asks the Core to stop, and shows the render widget the
  renderer draws into while a game runs.

### Concurrency in the frame-dump pipeline

The frame-dump pipeline is where several threads meet (spec §5):

| thread | code | shares |
|---|---|---|
| video thread | `Swap` → `FlushFrameDump` → `DumpFrameData`; `DumpCurrentFrame` → `RenderFrameDump`, `QueueFrameDumpReadback`; `ShutdownFrameDumping` | writes `m_frame_dump_config`, sets `m_frame_dump_start`, waits on `m_frame_dump_done`, maps and unmaps the readback textures |
| FrameDumping thread | `RunFrameDumps` | waits on `m_frame_dump_start`, reads `m_frame_dump_config` and the pixels through its pointer, `TestAndClear`s `m_screenshot_request`, takes `m_screenshot_lock`, sets `m_screenshot_completed` and `m_frame_dump_done`, may clear `m_DumpFrames` |
| UI thread | `SaveScreenshot`, Dump Frames menu | sets the name and request under `m_screenshot_lock`, waits up to 2 s on `m_screenshot_completed`, toggles `m_DumpFrames` |

The dump is one frame behind. `Swap` *n* copies frame *n* into readback
texture `[0]`. `Swap` *n+1* then does the following:

1. flushes and maps that texture;
2. hands its pointer to the worker;
3. unmaps it;
4. if dumping is off, shuts the worker down;
5. swaps the two readback textures before copying frame *n+1*.

## Modules

| module | models | state | actions |
|---|---|---|---|
| `StagingTexture` | Readback staging textures of D3D, GL (persistent and mapped-on-demand) and Software | one record per texture: `mapped` (`m_map_pointer != nullptr`), `needsFlush` (`m_needs_flush`), `dims` (its `TextureConfig`), `data` (which frame it holds) | per-backend operators `D3DCreate`, `OGLCopyFromTexture`, `SWUnmap`, …, dispatched on the constant `Backend` |
| `FrameDump` | the three threads above | video thread: `mpc`, plus the return points `flushRet` and `shutRet` that stand for the call stack, and every frame-dump member of `Renderer`; worker: `wpc` and its local copy of the config (`wbuf`, `wframe`) and `frame_dump_started`; UI: `uipc`, the name waited for, bounded counters; history: `dispatched`, `taken`, `savedShots`, `offSwaps`, `dumpStartFrame` | one action per blocking point or critical step (see below) |
| `MCFrameDump` | TLC instance | the target-size sets (records) and the symmetry set | — |
| `EFBFormat` | the pure conversions of an EFB value in `AccessEFB` | — | `RGBA8ToRGBA6ToRGBA8`, `RGBA8ToRGB565ToRGBA8`, `PeekColorValue` (format round trip, then `GX_PokeAlphaRead`), `ClampDepth`, `PeekZValue`, the GLES `SwapRB`, the reinterpretation shaders |
| `EFBAccess` | what `AccessEFB` promises, with no cache | `efbColor`, `efbDepth`, `lastPeek` | `Peek` returns the converted current pixel; `Write` changes the EFB arbitrarily |
| `OGLPeekCache` | the OpenGL peek cache and every operation that touches it | the EFB planes; `efbCache`, `efbCacheValid`, `efbCacheIsCleared` (the three statics); `lastPeek`; a write counter; history `staleTiles` | `AccessEFB` (read back and fill on a miss, then convert), `ClearScreen`, `Draw`, `PokeEFB`, `ReinterpretPixelData`, `SwapImpl` |
| `MCOGLPeekCache` | TLC instance | the colours, depths and clear rectangles | — |
| `D3DEFB` | the Direct3D 11 EFB targets (`D3D/Render.cpp`, `D3D/FramebufferManager.cpp`) | `colorTex` (channels of the RGBA8 target), `depthTex` (the inverted float depth); `depthBound` (is the depth target bound), `integerRT` (`s_integer_efb_render_target`); `lastPeek`; a write counter; history `gxDepth` | `AccessEFB`, `PokeEFB`, `ClearScreen`, `Draw` (through `ApplyState`), `ReinterpretPixelData`, `Encode` (`PSTextureEncoder::Encode`), `SwapImpl(resize)` |
| `MCD3DEFB` | TLC instance | one colour and the whole 2×2 EFB as clear rectangle | — |
| `EFBBackends` | both backends against one contract | `backend` (chosen in `Init`), the variables of both modules | a step of the chosen backend |
| `MCEFBBackends` | TLC instance | each backend's colours and clear rectangles | — |
| `CodeDiff` | the debugger's Code Diff Tool (`CodeDiffDialog.cpp`) and, as its environment, the JIT's block profiling and the Core's state | `m_include`, `m_exclude` (sequences of `Diff` = `[symbol, addr]`), `m_include_active`, `m_failed_requirements`, the record button's check state, the list buttons' enabled state, the table rows; `core`, `symbolsLoaded`, `compiled`/`profiled` blocks, `profiling`; history `candidate`, `included` | `ClickRecord` (toggle, then `OnRecord`), `Update(TRUE/FALSE)` (include/exclude), `ClearData`, `OnDelete`; environment `RunBlock`, `StartEmulation` and `CoreStarted` (through `Starting`), `StopEmulation` and `CoreStopped` (through `Stopping`, which ends with the block cache gone), `TogglePause`, `LoadSymbols`. `OnRecord` refuses only `Uninitialized`, so a recording may start or stop while the Core is `Starting` or `Stopping`; `ClearBlockCache` then clears without the pause it takes around a `Running` Core |
| `MCCodeDiff` | TLC instance | four blocks and their symbols | — |
| `Presentation` | the renderer core's sizing code (`RenderBase.cpp`) and the resize handling of the OGL, D3D and Vulkan `SwapImpl`s | `backend` (chosen in `Init`); host: `window`, `cfg` (`g_Config`), Vulkan's `surfaceNeedsChange`; `renderer`: the `Renderer` members `backbuffer`, `act` (`g_ActiveConfig`), `aspectWide`, `targetRect`, `efbScale`, `target`, `lastXfb`, `lastRequest`, plus `efb` (the FramebufferManager's size) and the history field `sizedFor`; bounded counters | `Swap(xfb, counts, fresh)` (heuristic, backend `SwapImpl`, last-XFB update), `UserResize`, `ChangeConfig` |
| `TargetCoordinates` | how each backend places GX-coordinate state on the upscaled target and the screen (`RenderBase.cpp`, the three backends' `Render.cpp`/`Renderer.cpp`) | none of its own: operators over `Presentation`'s `backend` and `renderer` | `OGLSetViewport`/`D3DSetViewport`/`VulkanSetViewport`, the three `SetScissorRect`s and `ConvertEFBRectangle`s, the three `BBoxWrite`/`BBoxRead`s, `VulkanClearScreen`'s path choice, `ConvertStereoRectangle` and the three stereo `BlitScreen`s |
| `VulkanEFBAccess` | the value conversions of Vulkan's `AccessEFB` and `PokeEFB` | — | `VulkanPokeColor`, `VulkanPeekColor`, `VulkanPokeZ`, `VulkanPeekZ` |
| `MCPresentation` | TLC instance, extending `TargetCoordinates` and instancing `VulkanEFBAccess` | window sizes, XFBs, flush counts, the VI aspect; viewports, scissor rectangles, bounding boxes, clear rectangles; peek and poke values | — |
| `ISOProperties` | the wx game properties dialog (`ISOProperties.cpp`) | `disk` (the local game INI file), `local` (`m_gameini_local`), `dlg` (the controls the code reads back, `m_on_frame`, `m_default_patches`, whether Edit and Remove are enabled), `open`, `crashed`; bounded counters | `Open` (constructor), `ClickCheckbox`, `OnEmustateChanged`, `EditIssues`, `SelectPatch`, `CheckPatch`, `AddPatch`, `EditPatch`, `RemovePatch`, `OnEditConfig`, `OnClose` |
| `MCISOProperties` | TLC instance | the default INI, the initial local INI | — |
| `MainWindow` | DolphinQt2's emulation lifecycle (`MainWindow.cpp`) and the two settings it reads (`InterfacePane::OnSaveConfig`) | one record `app`: the Core state as `MainWindow` sees it (`core`, `stmHook`, `power`), `posted` (completions queued for the GUI thread), `m_stop_requested`, `m_exit_requested`, `m_pending_boot`, `m_rendering_to_main`, the render widget (`widget`, `inStack`, `titleConnected`), `bRenderToMain`, `bConfirmStop`, NetPlay's client, server and dialog, `dialogs` (the handlers suspended in a confirmation), `quit`; history `wanted`; a user-action counter | `Play`, `Pause`, `UserStartGame`, `Stop`, `Close`, `FullScreen`, `OnSaveConfig`, `NetPlayJoin`, `NetPlayHost`, `NetPlayQuit`, `AnswerDialog`, `Dispatch` (`OnStopComplete`); environment `CoreStarted`, `CoreBootFailed`, `GameShutsDown`, `CoreStopped` |
| `MCMainWindow` | TLC instance | two games, the user-action bound | — |

### Actions

The actions of `FrameDump` follow the code statement by statement. A thread
is split into two actions only where another thread can act in between.
That happens at a blocking wait, or where the interleaving matters, as
between `Map`/`DumpFrameData` and `Unmap`.

- **Video thread**
  - `Swap`: the entry of `Swap`, up to the call of `FlushFrameDump`.
  - `FlushFrameDump`: the early return on `!m_last_frame_exported`, and
    the call of `FinishFrameData`.
  - `FinishFrameData(from, to)`: the `m_frame_dump_done.Wait()`.
  - `DumpFrameData`: `Flush`, `Map`, writing the config, the thread
    (re)start with `join`, and `start.Set`.
  - `FlushUnmap`: `Unmap`, then `EndFlush`: clearing
    `m_last_frame_exported`, and the `IsFrameDumping` test that may enter
    `ShutdownFrameDumping`.
  - `MapFailed`: `Flush` and a `Map` that fails, then `EndFlush`. Only a
    texture that is not mapped already can fail to map (D3D, GL without
    persistent buffers); the frame is not handed over.
  - `SwapXFB`: the rest of `Swap`. Nothing is presented, or a new XFB is
    presented and, if dumping, rendered and queued through
    `RenderTextureFor` and `QueueFrameDumpReadback`.
  - `ShutdownFrameDumping`, `ShutdownCheckRunning`, `ShutdownSignal`,
    `ShutdownJoin`: the steps of `ShutdownFrameDumping`.
- **Worker**
  - `WakeAndTakeConfig`: `start.Wait()`, the exit test, copying the
    config, and `TestAndClear`.
  - `SaveScreenshotFrame`: the locked screenshot block.
  - `DumpFrame`: start the dump (which may fail), write the frame, and
    `done.Set()`.
- **UI**
  - `SaveScreenshot`.
  - `ScreenshotWaitReturns` / `ScreenshotWaitTimesOut`: the two outcomes
    of `WaitFor(2 s)`.
  - `ToggleDumpFrames`.
- **`Terminated`**: the renderer has shut down and all threads are idle. It
  is the only state allowed to stutter, so the deadlock check stays on.

`Common::Event` is modelled as a boolean. `Set` raises it, and `Wait` is
enabled only when it is raised and lowers it. That is exactly the
auto-reset, one-slot semantics, so a second `Set` before a `Wait` is lost.
Pixel data is abstracted to the number of the `Swap` that presented it, so
a corrupted or torn read shows up as the wrong number, or as an unmapped or
destroyed buffer.

### The OpenGL EFB peek cache

A peek of EFB pixel (x, y) in `OGL/Render.cpp` works like this:

1. `AccessEFB` finds the 64×64 tile holding the pixel (`cacheRectIdx`,
   with the tile rectangle clipped at the EFB edge).
2. If `s_efbCacheValid[type][tile]` is down, it reads the whole tile back
   with `glReadPixels` from the upscaled, y-flipped render target, and
   `UpdateEFBCache` copies the centre texel of every EFB pixel into the
   tile's slots. The fill sets the valid flag and clears
   `s_efbCacheIsCleared`.
3. The slot's value is converted for the current pixel format and alpha
   read mode, and returned.

`ClearEFBCache` drops every valid flag, unless `s_efbCacheIsCleared` says
nothing was filled since the last clear. `ClearScreen`, `SwapImpl` and the
constructor call it. So do the draws (`VertexManager::vFlush`) and the pokes
(`FramebufferManager::PokeEFB`); that code is not in the repository, so these
two are modelled from the spec (§3, §4.3), marked `spec_modelled`.

`ReinterpretPixelData` hands convtypes 0 and 2 to the FramebufferManager's
reinterpretation pass and logs the others. It does not call `ClearEFBCache`.

Modelling choices:

- A colour is a record of its four bytes. TLC's integers are signed 32-bit,
  so `0x80FF2112` is not a value it can hold. Each 32-bit mask in the code is
  translated to its effect on each byte.
- A depth is the integer d standing for d/2^24. The EFB starts at the far
  plane 1.0, which reads back as 2^24 and is clamped to 0xFFFFFF.
- The render target is `EFBScale` times the EFB. Every texel of a pixel's
  block holds that pixel's value. `ReadPixels` and `UpdateEFBCache` use the
  code's own index arithmetic on it.
- A draw is abstracted to one pixel it covers. The cache effect of a draw
  does not depend on its coverage, since it always clears the whole cache.
- Only single-sample EFBs (`s_MSAASamples = 1`) are modelled. With MSAA
  `AccessEFB` first resolves the tile through `FramebufferManager`, which
  is not in the repository, and the code's own comment says that path is
  "broken/offset and doesn't return the correct pixel" (OGL/Render.cpp:958).
  So `PeekSeesCurrentEFB` is claimed for the single-sample path only.
- `lastPeek` is the request and result of the most recent call, if that call
  was a peek. It is what the refinement to `EFBAccess` relates.

### The Direct3D EFB

The D3D11 renderer has no peek cache. Every `AccessEFB` peek:

1. draws the centre texel of the pixel's target rectangle into a 1×1 read
   texture (`ConvertEFBRectangle` scales without a y flip: D3D's origin is
   the top-left, as the EFB's);
2. copies it to a staging buffer and maps it;
3. for a colour, swaps red and blue, because the RGBA8 bytes read as a u32
   are A8B8G8R8, and then applies the same format and alpha conversions as
   GL;
4. for a depth, computes `1 - val`, because the backend stores depth
   inverted, then `Clamp(val·65536, 0xFFFF)` for RGB565 or
   `Clamp(val·2^24, 0xFFFFFF)` otherwise;
5. rebinds the EFB with `BindEFBRenderTarget()`.

Stored depths of 24-bit z are exact in a float (`1 - z/2^24` is a multiple
of 2^-24 below 1), so the model keeps them as integers. `ClearScreen`
converts the guest colour to RGBA (`rgbaColor`) and draws a quad with the
depth `1 - z/2^24`, under the masked blend state and, when `zEnable` is
set, a depth-writing state.

The binding of the targets is modelled, because a depth write only lands
when the depth target is bound:

- `BindEFBRenderTarget(false)` binds colour only. A colour `PokeEFB` is the
  only caller, and `RestoreAPIState` does not rebind.
- `BindEFBRenderTarget()` binds both. It is called by peeks, z pokes,
  `ReinterpretPixelData`, `PSTextureEncoder::Encode` (EFB copies),
  `DXTexture::ScaleRectangleFromTexture` (a texture-cache copy, at any time
  between the renderer's calls) and the end of `SwapImpl`.
- `SetIntegerEFBRenderTarget(enabled)` rebinds (with depth) only when the
  flag changes and `D3D::device1` exists (the constant `Device1`: the
  driver offers D3D 11.1, which integer targets for logic ops need).
  `peek_refines` has it, and `d3d_depth_unbound` runs without it, where
  nothing but a peek, a z poke, a copy or a swap rebinds the depth. `ClearScreen` calls it with false, `ApplyState` (every
  draw) with the blend state's logic-op bit.

`gxDepth` is a history variable: the z each pixel holds according to the
guest's commands. `HostDepthMatchesGX` says the depth target agrees with
it. A `SwapImpl` whose target size, window or MSAA mode changed recreates
the FramebufferManager and clears the EFB. The model restarts the history
there, because losing the EFB on a resize is how the code is designed.

Draws come from `VertexManager` and pokes are drawn by
`D3D::DrawEFBPokeQuads`; neither is in this repository. The model assumes
they write the pixel and bind nothing.

Not modelled: the MSAA depth resolve (min over samples) and colour resolve,
since with one sample they are the identity; stereo slices; the viewport
and scissor arithmetic; and BBox.

`EFBBackends` runs the GL and D3D modules as one specification. `Init`
chooses the backend, and each step is a step of that backend, so the state
spaces add rather than multiply. Its refinement mapping to `EFBAccess` uses
the GL planes directly, or the D3D channels and `1 - depthTex`. The D3D EFB
is 2×2 and padded with constant pixels to the contract's 3×3; nothing
writes or peeks the padding.

### The Code Diff Tool

The Code Diff Tool finds a guest function by when it runs:

1. The user starts recording. `OnRecord` clears the JIT cache and turns
   block profiling on.
2. The user presses "Code has been executed" (include) or "Code did not
   get executed" (exclude).
3. `Update` pauses the Core, turns the profiled blocks into a sorted list
   of `Diff`s (one per symbol: `CalculateSymbolsFromProfile`), narrows the
   lists (`OnInclude`/`OnExclude`), rebuilds the table, and clears the JIT
   cache so that the next recording starts empty.

How the model corresponds to the code:

- Every slot runs to completion on the GUI thread, so each is one action.
  The CPU thread's block runs and the Core's start, stop and pause
  interleave between slots. `Update` and `ClearBlockCache` pause a running
  Core around the cache clear, so no block runs inside them.
- `OnRecord` is entered from the button's `toggled` signal. On failed
  requirements it sets `m_failed_requirements` and calls
  `setChecked(false)`. That emits `toggled(false)`, and so re-enters
  `OnRecord` to clear the flag, only when the button was checked. The
  operator `OnRecord(enabled)` returns the values the whole nested call
  leaves. `ClickRecord` and `ClearData` (whose `toggle()` reaches the same
  slot) apply them.
- The JIT side is modelled from its behaviour, not from this repository. A
  block is profiled if it was compiled while profiling was on. Stopping
  emulation discards the block cache. The profile lists blocks in address
  order, so a function's `Diff` takes its lowest profiled block.
- Hit counts (`hits`, `total_hits`) are left out: no property is about
  them, and they would multiply the state space.

### Presentation: sizing and placing the picture

`Presentation` models how the picture is sized and placed on the host
window.

- Floats are exact rationals `[num, den]`. `Ceil`, `Round` (half away from
  zero) and the `- x % 4` steps are applied as the code does.
- `CalculateTargetSize` keeps its unsigned arithmetic. `EFB_WIDTH` is a
  `u32`, so `(width - 1) / EFB_WIDTH` divides `2^32 + width - 1` when
  `width` is 0. `MaxTextureSize < EFB_WIDTH * m_efb_scale` is compared
  modulo 2^32. `U32DivOfInt` and `U32LessThanProduct` compute these
  through 16-bit limbs, because TLC's integers are 32-bit signed.
- Each backend's `SwapImpl` is one operator, composed from the core's
  operators in the code's order:
  - **D3D**: `UpdateDrawRectangle`, then `UpdateActiveConfig`, then
    `SetWindowSize`, then `CheckForResize` (client size ≥ 4×4), then
    `CalculateTargetSize`. If the target changed or the window was
    resized: a new backbuffer size, `UpdateDrawRectangle` and a new
    FramebufferManager.
  - **OGL**: `UpdateDrawRectangle`, then `SetWindowSize` with the old
    active config. The backbuffer becomes `max(client, 1)`. Then
    `CalculateTargetSize`. On a resize or a target change,
    `UpdateDrawRectangle`; on a target change, a new FramebufferManager.
    `UpdateActiveConfig` comes last.
  - **Vulkan**: `UpdateDrawRectangle`, then `CheckForConfigChanges` (a new
    target only when the scale or aspect setting changed), then
    `CheckForSurfaceChange` (`OnSwapChainResized` if `ChangeSurface` was
    called), then `if (CalculateTargetSize()) ResizeEFBTextures()`, then
    `SetWindowSize`.
- `Swap` applies the GameCube widescreen heuristic (`n > 0.75·total` as
  `4n > 3·total`). It runs `SwapImpl` only for a valid XFB that the texture
  cache returns as new (`fresh`). For every valid XFB it records the
  clamped last-XFB size that the auto scale uses next frame.
- The host resizes the window, either to a size of its own or to the size
  the renderer last requested. On Vulkan the resize calls `ChangeSurface`.
  The host also writes `g_Config`: the scale (0 = auto), the aspect mode
  and the crop flag.
- `EFBMatchesTargetSize` says that the EFB has the target size after every
  frame. Its mutant is a Vulkan `CheckForConfigChanges` that computes the
  new target but does not resize. `CalculateTargetSize` reports the change
  only once, so the EFB then stays stale.
- `DrawRectangleCentred` says that the draw rectangle is centred on the
  current backbuffer, with sides that are multiples of 4. Its mutant is an
  `OnSwapChainResized` that takes the new size without
  `UpdateDrawRectangle`.
- `TypeOK`'s mutant rounds the `MaxTextureSize` cap up.
- `AutoScaleCoversWindow` compares the auto scale with the scale that the
  same formula gives with the rectangle's height in the vertical term and
  signed arithmetic. It has no run (see the stated defects). TLC finds
  two counterexamples, both in the initial state:
  - A 640×480 window with the initial last-XFB size 720×576 gets scale 2;
    scale 1 covers it. This is the `GetWidth()` at RenderBase.cpp:150.
  - A window 2 pixels tall gives a draw rectangle 0 wide. The u32 wrap
    makes the scale about 6.7 million, which the cap turns into
    `MaxTextureSize / 640`: a 7680×6336 EFB for a window nobody sees.
- The comment at RenderBase.cpp:570 says that `CalculateOutputDimensions`
  matches `UpdateDrawRectangle`. An evaluation over XFB sizes and all
  configurations shows this is not exact. For example, a 640×574 XFB
  under Auto 4:3 requests 764×572, and the picture drawn in that window is
  760×572. The difference was at most one 4-pixel step in every case
  tried. No run states it.

Assumptions:

- `VideoCommon.h` is not in the repository. The constants
  `EFB_WIDTH = 640`, `EFB_HEIGHT = 528`, `MAX_XFB_WIDTH = 720` and
  `MAX_XFB_HEIGHT = 576`, and `EFB_SCALE_AUTO_INTEGRAL = 0`, are Dolphin's
  values.
- `Swap` asks `GetXFBTexture` for `fbStride × fbHeight`
  (RenderBase.cpp:640), and `SwapImpl` passes the returned texture's own
  size to `SetWindowSize`. That size is the texture cache's choice, and
  `TextureCacheBase.cpp` is not in the repository. So `XfbTextureSizes`
  offers both the requested size (an XFB loaded from RAM) and that size
  times `m_efb_scale` (an XFB an EFB copy left in the cache).
- Not modelled: MSAA, changes of the stereo mode and fullscreen (fixed), the
  widescreen hack's writes to `g_Config`, OGL's Android surface path, and
  the Vulkan swap chain recreated by `DrawScreen` on an out-of-date
  present.

### Target coordinates, bounding box, clears and stereoscopy

`TargetCoordinates` adds no state. Its operators are evaluated in every
state of the `presentation` run, so they are checked for every backend,
target size and draw rectangle that run reaches.

- **Scaling.** The target is always `EFB × efbScale`
  (`CalculateTargetScale`), so the float `EFBToScaledXf` is the exact
  integer `(x · target width) ÷ EFB_WIDTH` and `EFBToScaledX` is
  `x · efbScale`.
- **Viewport.** OGL's `SetViewport` gives `glViewport` a bottom-up box
  (`EFB_HEIGHT - yOrig + ht + 2·scissorYOff`, a negative height undone).
  Vulkan and D3D give a top-down one. D3D returns early on a zero extent
  and then clamps a viewport that starts outside the target.
- **Scissor.** Each backend converts the EFB rectangle (OGL flipped), then
  builds its box: OGL as left, bottom and two absolute extents, D3D as a
  signed `RECT`, Vulkan as offset and extent.
- **Bounding box.** OGL's `BBoxWrite` swaps top and bottom, flips the rows
  and scales. Its `BBoxRead` undoes this with an outer border. D3D and
  Vulkan scale without a flip (Vulkan keeps the `u16` wrap).
  `WriteBBox(w)` is the four writes in order from zeros. `DrawBBox` is
  what a draw's pixel shader does to the stored box: it is spec_modelled,
  because the shaders are not in the repository.
- **Vulkan clear.** `ClearScreen` picks the clear render pass, then
  `vkCmdClearAttachments`, then a coloured quad for what is left. The
  choice depends on render-pass state, the MSAA and load-op driver-bug
  workarounds, and a format without alpha.
- **Stereoscopy.** `ConvertStereoRectangle` halves the draw rectangle
  (C division toward zero, because OGL's rectangle is flipped) and shifts
  the halves by a quarter of the backbuffer. OGL swaps the eyes in
  top-and-bottom mode. How each eye is then drawn (`BlitFromTexture`,
  `PostProcessing.cpp`) is not in the repository: `BottomUpBox` reads
  OGL's `dst.left, dst.bottom` as a bottom-up origin, like `glViewport`,
  and is spec_modelled.

Properties (all in `presentation`):

- `RasterRegionsMatchGX`: every backend's scissor box and viewport land
  where GX puts them on the upscaled target. For D3D this is required
  only where neither its early return nor its clamp applies. Mutant: OGL
  adds the y scissor offset with the wrong sign.
- `BBoxReadsWrittenUnionDrawn`: after the four `BBoxWrite`s and a draw,
  `BBoxRead(i)` returns the union of the written box and the drawn
  rectangle. Mutant: OGL's write without the top/bottom swap.
- `VulkanClearWritesRequested`: whatever path Vulkan's `ClearScreen` takes,
  it clears each requested channel exactly once (alpha counts as
  requested on a format without alpha) and nothing else. Mutant: clear
  attachments that drop alpha.
- `StereoEyesInTheirHalves`: when the draw rectangle is inside the
  backbuffer, every backend's side-by-side or top-and-bottom `BlitScreen`
  shows two eyes of equal size, both on screen and apart, with the left eye
  (layer 0) left of or above the right one. Exact halves are not required:
  an odd backbuffer size loses a pixel. Mutant: OGL without the
  top-and-bottom swap, which puts the left eye at the bottom.
- `VulkanPokeThenPeekRoundTrips` (`VulkanEFBAccess`, instanced by
  `MCPresentation`): on Vulkan, a peek after a poke returns the poked
  colour through `PeekColorValue` and the poked 24-bit depth through
  `PeekZValue`. For every stored depth from 0 to 1.0, the Z16 peek of
  `depth · 65536` agrees with OGL's 24-bit clamp shifted right by 8. The
  floats are exact: `1 - z/2^24` has at most 24 significant bits.
  Mutant: `PokeEFB` without the depth inversion.
- `D3DViewportMatchesGX` is stated with no run. It is violated in the
  initial state by a viewport that starts left of the target: the clamp
  at D3D/Render.cpp:491-495 moves it to 0 without shortening it.

### The game properties dialog

`ISOProperties` models `CISOProperties`, the wx dialog that edits a game's
overrides. Its data are two INI files: the read-only default game INI
(constants) and the local one, which the dialog reads into
`m_gameini_local` and saves back.

- An INI is a record of the keys the dialog touches: the override
  checkboxes' booleans, `EmulationStateId`, `EmulationIssues`, the
  `[OnFrame]` patch names and the `[OnFrame_Enabled]` set. `Absent` is a
  missing key.
- `LoadGameConfig` and `SaveGameConfig` are operators from INI and dialog
  to dialog and INI, composed from `SetCheckboxValueFromGameini`,
  `SAVE_IF_NOT_DEFAULT` (`SaveIfNotDefault`),
  `SaveGameIniValueFrom3StateCheckbox`, `PatchList_Load` and
  `PatchList_Save`, in the code's order.
- Every successful `SaveGameConfig` sends `DOLPHIN_EVT_LOCAL_INI_CHANGED`,
  and `OnLocalIniModified` reloads the file into the dialog at once
  (`ProcessEvent` is synchronous). `OnEditConfig` therefore saves, reloads,
  runs the external editor, and reloads again. A failed save sends no
  event of its own, but `OnEditConfig` sends one anyway, so the reload
  then reads the old file over the dialog's edits.
- The external editor may leave the file alone (also when no editor is
  found) or delete one key. The values it could write are the ones a save
  writes, so leaving them out loses no reachable file.
- `PatchButtonClicked` is one action per button. Each ends with
  `PatchList_Save`, a reload of the list (which clears its selection) and
  both buttons disabled.
- `PatchEngine::LoadPatchSection` and `CPatchAddEdit` are not in the
  repository. `LoadPatchSection` is modelled from Dolphin's behaviour
  (`spec_modelled`): the default INI's patches, then the local ones, each
  active if named in the local `[OnFrame_Enabled]`. `CPatchAddEdit`
  renames the selected patch, or with selection -1 appends a new active
  patch.
- Removing with nothing selected erases `m_on_frame.begin() - 1`:
  undefined behaviour, modelled as the end of the program (`crashed`).

Properties:

- `UndeterminedMeansDolphinSetting`: for every checkbox, what the saved
  local INI gives over the default INI is what the dialog's text promises
  (checked, unchecked, or Dolphin's own setting). It holds because
  `GetElementStyle` offers the third state only where the default INI
  does not set the key. The mutant offers it everywhere.
- `SaveReloadKeepsDialog`: loading what `SaveGameConfig` wrote shows the
  dialog as the user left it. This covers the checkbox states, the
  emulation state, the PH_ZNear and PH_ZFar strings of `m_phack_data`, and
  the patches with their check marks while names are distinct. The mutant
  of `SAVE_IF_NOT_DEFAULT` compares with the fallback even when the default
  INI has the key, so a "Not Set" emulation state is deleted and the
  default's state comes back. The issues text is left to
  `IssuesSurviveSaveReload`, which fails (see the list of defects below):
  `IssuesOf` models the `sTemp` that `LoadGameConfig` shares between the
  projection-hack strings and the issues text (lines 529-546).
- `TypeOK`'s mutant keeps the list's selection across the reload, which
  after a Remove points past the list.

### The main window: starting and stopping emulation

`MainWindow` runs on the GUI thread, one handler at a time. Three things
make its lifecycle hard:

- **Completions are posted.** `OnStopComplete` runs when the emulation
  thread's `EmulationStateChanged(Uninitialized)` reaches the GUI thread,
  and also as a host job that `RequestStop` queues when no emulation is
  running (for example while it is already stopping). The model counts
  both in `posted`; `Dispatch` runs one. A stop can therefore have two
  completions, and a user action can come between the Core stopping and
  its completion.
- **The confirmation dialog is a nested event loop.** With
  `bConfirmStop`, `RequestStop` waits in `QMessageBox::question`. While
  it waits, posted completions run and the Core goes on, but no other
  user input reaches the window (the box is modal). The model pushes the
  waiting handler onto `dialogs` as a frame: who called (`Stop`, the
  main window's or the render widget's Close event, `StartGame`), the game
  it carries, the state saved for NetPlay's pause. `AnswerDialog` pops the
  frame and runs the rest of `RequestStop` and of its caller (`Return`):
  `StartGame` then stores `m_pending_boot`, the close filter sets
  `m_exit_requested`.
- **`StartGame` re-enters itself.** Choosing a game while one runs stops
  the running one and stores the choice in `m_pending_boot`.
  `OnStopComplete` boots it with `StartGame(std::move(m_pending_boot))`,
  which, if the Core is still not `Uninitialized`, goes through
  `RequestStop` again and moves the game back into `m_pending_boot`
  before `OnStopComplete` resets it. The `reset` field of a frame says
  that this reset is still to come.

Core, BootManager and UICommon are not in the repository. The Core is
modelled by the states `MainWindow` reads: `BootCore` fails or starts it
(`Starting`, with or without a game that handles the STM power event),
the emulation thread brings it to `Running` (`CoreStarted`) or, when it
cannot set the game up, straight back to `Uninitialized` with a posted
completion (`CoreBootFailed`),
`BootManager::Stop` or a game that got the power event brings it to
`Stopping` (`GameShutsDown`), and its shutdown to `Uninitialized`, which
posts a completion (`CoreStopped`). `Core::SetState` acts only on a
started emulation. NetPlay matters only through `RequestStop`'s pause,
which tests whether a client exists; `NetPlayJoin` creates the client
before it knows whether it connected, and only the NetPlay dialog's
rejection removes it.

The Movie menu's handlers are actions too. `Play` resumes a paused game,
or starts the selected game, the default ISO or one picked in Open
(`PlayGame`, which goes through `StartGame` and so may ask to stop a
running game). `OnPlayRecording` and `OnStartRecording` set Movie's
read-only flag and call `Play`. `OnStopRecording` exports a recording
before it ends the movie. `OnExportRecording` changes the Core's state
around its save dialog. The read-only hotkey flips the flag. `Movie`
(Core/Movie.cpp) is not in the repository, so `PlayInput` and
`BeginRecordingInput` are outcomes that may fail, and the movie's mode
and read-only flag are the state they leave. `shownRecording` and
`shownReadOnly` are the values last sent to the Movie menu by
`RecordingStatusChanged` and `ReadOnlyModeChanged`. The file dialogs of
these handlers are taken as atomic: unlike the stop confirmation, their
nested event loops are not modelled.

Properties:

- `RenderWidgetHiddenAfterStop` (liveness): once the Core is stopping,
  the render widget is eventually hidden, unless a new game has started
  or the application quit, also when the stop happens while a
  confirmation dialog is open. Its mutant is an `OnStopComplete` without
  `HideRenderWidget`.
- `ChosenGameStillBoots` (run `mainwindow_pending_boot`): a game chosen
  while another runs stays pending, or held by a handler in its
  confirmation, and a completion is still to come, until it boots or the
  user cancels. It is violated in five steps: start a game, stop it
  (confirmed, forced), choose another while the first is `Stopping`.
  `RequestStop` queues a host job and `StartGame` stores the game. The
  host job runs before the Core is `Uninitialized`, `StartGame` queues
  another completion and keeps the game in `m_pending_boot`, and
  `OnStopComplete`'s `m_pending_boot.reset()` (MainWindow.cpp:379)
  destroys it. The Core's own completion then finds nothing to boot. The
  property is also violated through the dialog: a `StartGame` waiting in
  its confirmation while the stop completes stores its game after the
  completion that would have booted it.
- `ExitHonoured` (liveness, no run: `MainWindow.cfg` with
  `PROPERTY ExitHonoured` alone): closing the main window quits once the
  emulation has stopped, unless the running game was sent the power event
  and ignores it. TLC finds it violated in about a dozen steps: a graceful stop
  sends the power event, the user closes the window and gets "A shutdown
  is already in progress … Force stop?", the game finishes shutting down
  and its completion runs inside the dialog's event loop, and then the
  user answers Yes. `m_exit_requested` is set after the last completion,
  the close event was ignored, and the window stays open until it is
  closed again.
- `RenderWidgetShownWhileRunning` (no run: `MainWindow_pending_boot.cfg`
  with that invariant): while a game runs and no completion is pending,
  its render widget is on screen. A completion that belongs to the
  previous game hides the new game's widget when the new game was booted
  before it was dispatched (MainWindow.cpp:370). With `bRenderToMain`
  changed in between, the same race leaves the widget in `m_stack` with
  `m_rendering_to_main` false, so no later `HideRenderWidget` removes it.

A reading of the code that no property states: `RequestStop`'s comment
says "Only pause the game, if NetPlay is not running", but `pause` is
true exactly when a NetPlay client exists (MainWindow.cpp:396-397).

## Runs

| run | cfg | expect | shows |
|---|---|---|---|
| `persistent` | `FrameDump_persistent.cfg` | pass | `WorkerFrameIntact`, `FramesTakenInOrder` hold on GL with persistent buffers. There are no deadlocks. |
| `liveness` | `FrameDump_liveness.cfg` | pass | `EveryFrameEncoded`: every frame handed to the worker is taken, also across shutdown; `VideoThreadReturns`: every `FlushFrameDump` and `ShutdownFrameDumping` returns, also after a failed `Map` |
| `d3d_unmap` | `FrameDump_d3d_unmap.cfg` | violation | D3D: `FlushFrameDump` unmaps the buffer the worker is reading (RenderBase.cpp:777) |
| `screenshot_name` | `FrameDump_screenshot_name.cfg` | violation | a second `SaveScreenshot` between the worker's `TestAndClear` and its lock produces a screenshot request with an empty name |
| `peek_coherent` | `OGLPeekCache_coherent.cfg` | pass | `TypeOK`, `CacheCoherent`: every valid tile holds, in each pixel's slot, what a read-back of that pixel gives now. Tiles cached before a reinterpretation are excluded. |
| `peek_refines` | `EFBBackends_refines.cfg` | pass | `PeekSeesCurrentEFB` (`EFBAccess!Spec` as a property): on GL with only unsupported convtypes the cached `AccessEFB` implements uncached access, and so does D3D's across pokes, clears, draws with and without logic ops, reinterpretations, EFB copies and resizes |
| `codediff` | `CodeDiff_pass.cfg` | pass | `TableMirrorsInclude` (the results table lists `m_include` row for row, so `OnDelete`'s index is right), `CandidateKept` (a function in every include recording and no exclude recording since Reset is never dropped) |
| `d3d_depth_unbound` | `D3DEFB_depth_unbound.cfg` | violation | D3D: after a colour poke the depth target is unbound, and a z-enabled `ClearScreen` writes no depth (D3D/Render.cpp:423) |
| `presentation` | `Presentation.cfg` | pass | `TypeOK`, `EFBMatchesTargetSize`, `DrawRectangleCentred` on OGL, D3D and Vulkan, across resizes, surface changes, setting changes and the widescreen heuristic; in every state `RasterRegionsMatchGX`, `BBoxReadsWrittenUnionDrawn`, `VulkanClearWritesRequested`, `StereoEyesInTheirHalves` and `VulkanPokeThenPeekRoundTrips` |
| `isoproperties` | `ISOProperties.cfg` | pass | `TypeOK`, `UndeterminedMeansDolphinSetting`, `SaveReloadKeepsDialog` (checkboxes, emulation state, projection-hack strings, patches) across checkbox, issues and patch edits, Edit Config with external edits, and failed saves |
| `mainwindow` | `MainWindow.cfg` | pass | `RenderWidgetHiddenAfterStop` over every order of up to six user actions, recording handlers included, dialog answers, posted completions and Core transitions |
| `mainwindow_pending_boot` | `MainWindow_pending_boot.cfg` | violation | a game chosen while the previous one is stopping never boots: `OnStopComplete` resets `m_pending_boot` after `StartGame` handed it back (MainWindow.cpp:379) |

Notes on the properties:

- `WorkerFrameIntact` relates the worker's state to the video thread's
  buffers. While the worker is inside the screenshot or dump block, the
  buffer it holds must be alive, mapped, flushed, and still hold the frame
  it was given.
- `FramesTakenInOrder` relates two histories: the frames taken are a
  prefix of the frames handed over, with at most one in flight.
- `VideoThreadReturns` is about the two blocking calls of the video
  thread: the `done.Wait()` of `FinishFrameData` and the final `join`.
  Breaking it takes several steps of two threads. A wakeup must be lost,
  or a frame must be counted as running that no worker will finish, for
  example after a failed `Map`. The run finds neither.
- On the two software-style paths (GL persistent, SW), `Unmap` is a no-op,
  and the double buffering keeps the in-flight buffer out of the next copy.
  Under those conditions all three hold.
- Each property of a passing run has a mutant in `PROJECT.json`:
  - dropping the readback swap breaks `WorkerFrameIntact`;
  - dropping `FinishFrameData` from `FlushFrameDump` breaks
    `FramesTakenInOrder`;
  - dropping it from `ShutdownFrameDumping` breaks `EveryFrameEncoded`;
  - a `ShutdownFrameDumping` that clears the running flag without setting
    `m_frame_dump_start` leaves the worker asleep and the `join` waiting
    for ever, which breaks `VideoThreadReturns`.
- `CacheCoherent` is stated against an independent description of the
  tiles (tile `i` covers columns `(i % W)·64 …`), not against
  `CacheRectIdx`. A wrong index, a write path that skips `ClearEFBCache`,
  or a stale `s_efbCacheIsCleared` each break it. Its mutant is a fill that
  leaves `s_efbCacheIsCleared` set. `TypeOK`'s mutant stores the depth
  without the clamp, so the far plane reads back as 2^24.
- `PeekSeesCurrentEFB` is the refinement. On GL, the detailed module's
  `efbColor`, `efbDepth` and `lastPeek` map to the abstract ones by name,
  and the cache is hidden. On D3D, the colour channels map to `efbColor`
  and `1 - depthTex` to `efbDepth`. Its mutant gives D3D's
  `ConvertEFBRectangle` GL's y flip, so a peek reads the wrong row.
- Fifteen defects are stated by properties but get no run. The first
  three are reached by a unit test in one step:
  - `AutoScaleCoversWindow` (Presentation) fails in the initial state
    (`Presentation.cfg` with that invariant alone): the vertical term of
    the auto scale uses the rectangle's width (RenderBase.cpp:150), and a
    zero-width rectangle wraps to the maximum scale.
  - `RenderTextureMatchesTarget` (FrameDump) is violated with two target
    sizes of equal width (`Dims <- MCDimsHeight`). The `==` at
    RenderBase.cpp:719 keeps a dump texture of the wrong height.
  - `PeekSeesCurrentEFB` is violated with `GLES = TRUE`. The GLES
    read-back swaps red and blue (Render.cpp:1017, "XXX: Swap colours").
  - `ScreenshotWaitSeesOwnShot` (FrameDump) is violated in four steps.
    `m_screenshot_completed` is an auto-reset event that every saved
    screenshot sets, so `SaveScreenshot(name, true)` can return on the
    completion of an earlier screenshot nobody waited for
    (RenderBase.cpp:228). Its run gave its slot to the D3D backend.
  - `DumpNotResumedAfterStop` (FrameDump) is violated. Dumping turned off
    while no readback is pending never shuts the FrameDumping thread down
    (RenderBase.cpp:763), so after a re-enable frames go into the old dump.
  - `ExhaustedIncludeStaysEmpty` (CodeDiff) is violated. `OnInclude` tests
    `m_include.empty() && m_exclude.empty()` before `m_include_active`
    (CodeDiffDialog.cpp:217), so an emptied include list is refilled,
    against the comment at line 224.
  - `PeekSeesCurrentEFB` (OGLPeekCache) is violated when `ConvTypes`
    includes a supported conversion: `OGLPeekCache_coherent.cfg` with
    `VIEW PeekView` and `PROPERTY PeekSeesCurrentEFB` as its only
    property. `ReinterpretPixelData` does not call
    `ClearEFBCache` (Render.cpp:1264), so a peek after it is served from
    a tile cached before the reinterpretation.
  - `EditRemoveNeedUserSelection` (ISOProperties) is violated in four
    steps (`ISOProperties.cfg` with that invariant alone): select the user
    patch, then Edit Config. The reload clears the list and its selection
    but not the buttons, and Remove then erases `m_on_frame.begin() - 1`
    (ISOProperties.cpp:855).
  - `IssuesSurviveSaveReload` (ISOProperties) is violated in three steps
    (`ISOProperties.cfg` with that invariant alone): open, empty the
    issues text, save. `LoadGameConfig` reads PH_ZNear, PH_ZFar and
    EmulationIssues into one `sTemp`, and `Get` without a default leaves
    it alone when the default INI has no EmulationIssues
    (ISOProperties.cpp:543). The deleted key is reloaded as the local
    PH_ZFar string.
  - `D3DViewportMatchesGX` (TargetCoordinates) is violated in the
    initial state (`Presentation.cfg` with that invariant alone, D3D):
    the viewport `(352, 406, 40, 64)` starts left of the target, and the
    clamp at D3D/Render.cpp:491-495 moves it without shortening it.
  - `RecordingStateConsistent` (CodeDiff) is violated by
    `CodeDiff_pass.cfg` with that invariant alone: Stop Recording clicked
    after emulation stopped is refused but leaves the list buttons
    enabled, profiling on and `m_failed_requirements` set
    (CodeDiffDialog.cpp:171). `setChecked(false)` re-enters `OnRecord` to
    clear the flag only when the button was checked.
  - `ExitHonoured` and `RenderWidgetShownWhileRunning` (MainWindow), see
    the main window's section.
  - `RecordingMenuShowsMovie` (MainWindow) is violated in one step
    (`MainWindow.cfg` with that invariant alone). With read-only on,
    Start Recording turns it off but emits `ReadOnlyModeChanged(true)`
    (MainWindow.cpp:959). Stop Recording emits
    `RecordingStatusChanged(true)` after `EndPlayInput` (line 988).
  - `ExportKeepsEmulationState` (MainWindow) is violated in two steps
    (`MainWindow.cfg` with that property alone): pause, then export.
    `OnExportRecording` pauses the game only when it already was paused
    (line 995), sets it running again after the dialog, and sets it
    running before it saves (line 1007), so exporting resumes a paused
    game.
  Several had runs, which gave their slots to `presentation`,
  `isoproperties` and the two main-window runs.
- `HostDepthMatchesGX` is checked only where it fails. The counterexample
  is a colour poke and then a z-enabled clear of the whole EFB.
- `TableMirrorsInclude` is what makes `OnDelete` correct: it erases
  `m_include[row]` for the clicked table row. Its mutant shows the "No
  possible functions left" row whenever the list is empty, without the
  `m_include_active` test.
- `CandidateKept` uses two history variables:
  - `candidate[s]`: `s` was in every include recording and no exclude
    recording since Reset, and was never deleted;
  - `included`: an include recording has built the list.
  A function's `Diff` carries the address of its first profiled block,
  which differs between recordings, so the filters must match by symbol.
  The mutant that matches only on symbol *and* address drops the function.
- Spec §8 says a peek after a colour poke returns the poked value after the
  alpha-read policy. The code first applies the pixel-format round trip:
  alpha becomes 0xFF for formats without alpha, and RGBA6 and RGB565 drop
  low bits. The spec's sentence is therefore only true for `RGBA6_Z24` with
  6-bit values. `PeekSeesCurrentEFB` states the code's behaviour instead.

### Bounds

The safety run uses the following bounds:

- 4 Swaps, which gives three frames dumped through both readback textures
  and a shutdown;
- 2 screenshots, enough for the request/name race and a stale completion;
- 2 dump toggles, enough for on→off→on;
- two target sizes of different widths, so staging textures are recreated
  and freed;
- 4 staging object identities, which covers the two slots, the pointer the
  worker holds, and a new allocation.

Staging identities are symmetric in the safety run. A destroyed object's
record is reset, so a freed identity carries no state.

The liveness run has no symmetry, because its properties are temporal. It
uses GL staging buffers mapped on demand, so that `Map` can fail and the
frame is unmapped after each handover. It has 3 Swaps, 1 screenshot, 1
toggle and 3 staging identities (the two slots and one new allocation),
which keeps the run near one minute.

The violation runs use the smallest bounds that reach the behaviour.

The Code Diff runs use four blocks:

- blocks 1 and 2 belong to one function, so that which one a recording
  lists first depends on which ran;
- block 3 belongs to a second function;
- block 4 lies outside every symbol (" --- ").

Symbols are loaded once and never unloaded. There is no counter to bound:
the sets of compiled and profiled blocks are subsets of the four, and the
lists hold at most one `Diff` per symbol. The run is exhaustive in about
13k states.

The peek-cache runs use the following setup:

- a 3×3 EFB in 2×2 tiles, so that the four tiles are full, clipped right,
  clipped at the bottom, and both;
- scale 2, so that the read-back index arithmetic is not the identity;
- two colours, with alpha below 0xFF, red unlike blue, and low bits the
  6-bit round trip drops;
- one written depth besides the far plane;
- the whole EFB and an inner rectangle as clear rectangles.

The write bounds differ:

- `peek_coherent` allows 2 writes (fill, write, refill, write). With one pixel
  format and read mode, it reaches 721k states in about 2 minutes.
- `peek_refines` allows 1 GL write. Its D3D half has a 2×2 EFB, one
  colour, the bottom row as clear rectangle, two pixel formats (RGB8 and
  RGB565, for both depth clamps), two read modes and 2 writes, enough for
  poke-then-clear, logic-op draw then clear, and a resize. Together they
  reach 194k states in about 2½ minutes.

Both runs identify states that differ only in the contents of invalid
tiles, which no peek reads (`VIEW`). `peek_coherent` also leaves
out `lastPeek`, which no action reads.

The presentation runs use three window sizes: 640×480, 1280×720, and
160×2, a window dragged almost shut. The host may also take the size the
renderer requests. There are two XFBs: a 640×480 one, which differs from
the initial last-XFB size of 720×576, and one of width 0, which `Swap`
skips. The scale settings are auto and 2. All four aspect modes, both crop
settings, and flush counts that flip the heuristic either way are
included. One resize (the user's, or the host taking the requested size)
and one setting change are allowed, and `MaxTextureSize` is 8192, so the
cap is 12. With a second resize the two XFB texture sizes put the run past
five minutes. The backend is chosen in `Init`. The run reaches 274k states
in about 1.5 minutes, and
`AutoScaleCoversWindow` fails in the initial state.

The coordinate operators are checked on four viewports in every reached
state. Two have GX's usual negative height, and one of those two has a
zero width. One has a negative width. One, `(352, 406, 40, 64)`,
starts 30 EFB pixels left of the target once twice the scissor offset is
subtracted. The scissor offset is 171, so the `- 2·offset` terms matter. One
scissor rectangle is used. Two bounding-box writes are checked: the
initial maximal box, and a box with its ends reversed. They are combined
with no draw and with one draw that crosses them. The clear covers the
whole EFB, and both pixel formats (with and without alpha) are checked
against every combination of the six flags. The Vulkan peek and poke
values are:

- colours with the byte patterns 0, 3, 130 and 255;
- depths at both ends of the range, at the 16-bit and midpoint
  boundaries, and one poke above 24 bits.

The game properties run has two checkboxes: `CPUThread`, which the default
INI sets (a two-state checkbox), and `MMU`, which it does not (three
states). The default INI sets the emulation state and an empty PH_ZNear.
It has no issues text, so the local PH_ZFar is carried into the issues
text. It has one patch `d`; a user patch may be named `u` or `d`. The local
INI starts with an enabled user patch, an MMU override and a PH_ZFar
value. One patch-button
click, one Edit Config and one failed save are allowed: enough to select,
Edit Config, and then Remove or Edit with a stale button, and for a failed
save on either path. The run reaches 3.5M states in about 2.5 minutes. It
does not check deadlock: a Remove with nothing selected ends the program.

The main window run has two games, enough for one to run while the
other is chosen, and at most six user actions. That is enough for the
longest counterexample above (three user actions and two answers:
start, graceful stop confirmed, close confirmed), for a NetPlay join before a
stop so that the confirmation pauses, and for a setting change between a
boot and a stop, and for a recording started, exported and stopped around
a pause. Dialog answers, completions and Core transitions are
not counted. `posted` is bounded by the user actions: each action or
Core shutdown or failed boot posts at most one completion. A Stop when
nothing runs is allowed: `RequestStop` then queues a completion of its
own (MainWindow.cpp:388). The run reaches 1.05M states in about 85
seconds. It does not check deadlock: the application stops
once it quits, and the window is idle once the user's actions are spent.
No symmetry is used, because the run checks liveness.

### Fairness

The following steps are weakly fair:

- the video thread's steps inside `Swap`/`ShutdownFrameDumping`: once in
  those functions it only blocks on events the model has;
- the FrameDumping thread's steps: it is an OS thread that runs when its
  event is set.

In the main window model, dispatching a posted completion (`Dispatch`),
the emulation thread's start (`CoreStarted`) and its shutdown once
stopping (`CoreStopped`) are weakly fair: Qt's event loop delivers what
is posted, also inside a dialog's nested loop, and `BootManager::Stop`
ends in the Core's shutdown. A game that got the power event need not
shut down (`GameShutsDown` is not fair), and the user need not answer a
dialog.

Starting a `Swap` is not fair, because the game need not present. Shutting
the renderer down is not fair, and neither is anything the user does. The
game properties dialog acts only on user input, so its run has no fairness
and no liveness property.

## What is not modelled (yet), and the plan

The frame-dump pipeline, the GL and D3D EFB access, the sizing of the
picture on all three backends, the Code Diff Tool, the game properties
dialog and the main window's emulation lifecycle are modelled. The rest of the code, in order of the risk it carries:

1. **OpenGL EFB peek cache**: done (`OGLPeekCache`). The rest of
   `OGL/Render.cpp` is modelled for the viewport, scissor, bounding box
   and stereo blit (`TargetCoordinates`). Its other state setters (blend,
   depth and rasterization state) are not modelled.
2. **Vulkan poke batching and peek cache**, against the same abstract EFB.
   The peek cache and the poke batches live in `Vulkan/FramebufferManager
   .cpp`, which is not in the repository, so they would be modelled from the
   header and the spec.
3. **D3D EFB**: done (`D3DEFB`, checked in `EFBBackends`). The MSAA
   resolves, BBox and the viewport arithmetic remain.
4. **Renderer arithmetic**: done for `CalculateTargetSize`,
   `UpdateDrawRectangle`, `CalculateOutputDimensions`/`SetWindowSize` and
   the widescreen heuristic (`Presentation`), and for `ConvertStereoRectangle`,
   the viewport, scissor and BBox conversions of all three backends and
   Vulkan's `ClearScreen` (`TargetCoordinates`). The widescreen hack, the
   viewport depth range (`UseVertexDepthRange`) and the post-processing
   blit itself remain. The Vulkan EFB access is modelled for its value
   conversions (`VulkanEFBAccess`). Its read-back cache and the poke
   batches are in `Vulkan/FramebufferManager.cpp`, which is not in the
   repository.
5. **The EFB-to-RAM encoders' shader caches**, including cached failures,
   and their staging readbacks.
6. **Texture cache** entry lifecycle and EFB-copy references: modelled from
   the header and the spec (spec_modelled).
7. **Frame dump**:
   - a refinement of `FrameDump`'s handoff by an abstract one-slot channel
     (spec §5 "bounded channel of depth 1").

Not modelled at all:

- the Null backend, which has no state;
- the software GL window, the Qt/wx widget construction and signal
  wiring, and the AVI/PNG writers, which are I/O;
- of the main window: `Movie` itself, and the nested event loops of the
  recording handlers' file dialogs; the state-slot, NAND-import, controller
  and settings-window handlers, which only call into the Core or open
  windows; hotkeys that arrive while a confirmation is open (the hotkey
  thread's signals are queued and could be dispatched by the dialog's
  loop; the model lets no user input through a modal dialog);
- of the game properties dialog: the projection-hack flags (the strings are
  modelled), GPU determinism and
  stereoscopy values (more `SAVE_IF_NOT_DEFAULT` keys of the same shape;
  a depth of 0 is saved as 100, ISOProperties.cpp:656), the AR and Gecko
  code panels, Show Defaults, and the issues text that keeps its old value
  when a reload finds neither a local nor a non-empty default value
  (ISOProperties.cpp:544; modelled, stated by no property);
- header-only files.
