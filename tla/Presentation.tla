---------------------------- MODULE Presentation ----------------------------
(***************************************************************************)
(* How the renderer sizes and places the picture: the aspect ratio, draw   *)
(* rectangle, EFB scale and requested window size that the renderer core   *)
(* computes (VideoCommon/RenderBase.cpp), and the part of each backend's   *)
(* SwapImpl that reacts to a resized window or a changed configuration     *)
(* (OGL/Render.cpp, D3D/Render.cpp, Vulkan/Renderer.cpp).  The backend is  *)
(* chosen in Init; the host resizes the window and edits g_Config between  *)
(* frames.  Floats are exact rationals; the u32 arithmetic of              *)
(* CalculateTargetSize keeps its 32-bit wrap.                              *)
(***************************************************************************)
EXTENDS Integers

CONSTANTS
    EFB_WIDTH, EFB_HEIGHT,          \* VideoCommon.h
    MAX_XFB_WIDTH, MAX_XFB_HEIGHT,
    MaxTextureSize,                 \* g_ActiveConfig.backend_info.MaxTextureSize
    VIAspect,                       \* VideoInterface::GetAspectRatio() as [num, den]
    Wii,                            \* SConfig::bWii
    Backends,                       \* a subset of {"OGL", "D3D", "Vulkan"}
    ScaleSettings,                  \* iEFBScale values; 0 is EFB_SCALE_AUTO_INTEGRAL
    AspectModes,                    \* a subset of {"Auto", "AnalogWide", "Analog", "Stretch"}
    WindowSizes,                    \* client sizes <<w, h>> the render window may take
    Xfbs,                           \* [width, stride, height] of the XFBs passed to Swap
    FlushCounts,                    \* <<4:3 flushes, anamorphic flushes>> of one frame
    MaxResizes, MaxConfigChanges    \* bounds on the host's steps

VARIABLES
    backend,             \* the video backend g_renderer belongs to
    cfg,                 \* g_Config: the settings the UI thread writes
    window,              \* the render window's client size
    surfaceNeedsChange,  \* Vulkan m_surface_needs_change
    renderer,            \* Renderer members, and the size of the FramebufferManager's EFB
    resizes, configChanges

vars == <<backend, cfg, window, surfaceNeedsChange, renderer, resizes, configChanges>>

EFB_SCALE_AUTO_INTEGRAL == 0

Configs == [scale : ScaleSettings, aspect : AspectModes, crop : BOOLEAN]

Larger(a, b) == IF a >= b THEN a ELSE b

(***************************************************************************)
(* Floats as exact rationals [num, den] with den > 0.  Every intermediate  *)
(* value used twice is passed to an operator as an argument.               *)
(***************************************************************************)
RECURSIVE GCD(_, _)
GCD(a, b) == IF b = 0 THEN a ELSE GCD(b, a % b)

QReduce(n, d, g) == [num |-> n \div g, den |-> d \div g]
Q(n, d) == QReduce(n, d, GCD(n, d))
QInt(n) == [num |-> n, den |-> 1]
QMul(p, q) == Q(p.num * q.num, p.den * q.den)
QDiv(p, q) == Q(p.num * q.den, p.den * q.num)
QGeq(p, q) == p.num * q.den >= q.num * p.den
QGt(p, q) == p.num * q.den > q.num * p.den
\* std::ceil, and std::round (halves away from zero)
Ceil(p) == -((-p.num) \div p.den)
Round(p) == IF p.num >= 0 THEN (2 * p.num + p.den) \div (2 * p.den)
                          ELSE -((2 * (-p.num) + p.den) \div (2 * p.den))

(***************************************************************************)
(* u32 arithmetic.  2^32 is out of TLC's range, so a negative int x        *)
(* converted to u32 (2^32 + x) is divided through 2^31 = 2 * 2^30.          *)
(***************************************************************************)
Pow31Div(b) == 2 * (2^30 \div b) + (2 * (2^30 % b)) \div b
Pow31Mod(b) == (2 * (2^30 % b)) % b
\* (y + 2^31) / b for 0 <= y < 2^31
U32DivShifted(y, b) == y \div b + Pow31Div(b) + ((y % b) + Pow31Mod(b)) \div b
\* (u32)x / b for an int x and a u32 b > 0
U32DivOfInt(x, b) ==
    IF x >= 0 THEN x \div b ELSE U32DivShifted((x + 2^30) + 2^30, b)
\* m < hi * 2^16 + lo
U32LessThanLimbs(m, hi, lo) ==
    \/ m \div 65536 < hi
    \/ m \div 65536 = hi /\ m % 65536 < lo
U32MulLimbs(m, a, s, lo) ==
    U32LessThanLimbs(m, (a * (s \div 65536) + lo \div 65536) % 65536, lo % 65536)
\* m < (a * s mod 2^32), for a, s, m >= 0 and a < 2^15
U32LessThanProduct(m, a, s) == U32MulLimbs(m, a, s, a * (s % 65536))

(***************************************************************************)
(* The renderer core.  r is the record of Renderer members.                 *)
(***************************************************************************)
AspectToWidescreen(a) == QMul(a, QDiv(Q(16, 9), Q(4, 3)))

\* The condition that selects 16:9 in CalculateDrawAspectRatio and the crops
Widescreen(r) == r.act.aspect = "AnalogWide" \/ (r.act.aspect # "Analog" /\ r.aspectWide)

ExpectedAspect(r) == IF Widescreen(r) THEN Q(16, 9) ELSE Q(4, 3)

CalculateDrawAspectRatio(r) ==
    IF r.act.aspect = "Stretch" THEN Q(r.backbuffer[1], r.backbuffer[2])
    ELSE IF Widescreen(r) THEN AspectToWidescreen(VIAspect)
    ELSE VIAspect

ScaleToAspect(w, h, draw_aspect) ==
    IF QGeq(Q(w, h), draw_aspect) THEN <<QInt(w), QDiv(QInt(w), draw_aspect)>>
    ELSE <<QMul(QInt(h), draw_aspect), QInt(h)>>

ScaleToDisplayAspectRatio(r, w, h) == ScaleToAspect(w, h, CalculateDrawAspectRatio(r))

\* ceil, then down to a multiple of 4
Down4(n) == n - (n % 4)
Ceil4(p) == Down4(Ceil(p))

\* <<crop_width, crop_height>> of a picture aspect x 1 cropped to a standard ratio
CropTo(aspect, expected) ==
    IF QGeq(aspect, expected) THEN <<expected, QInt(1)>> ELSE <<aspect, QDiv(aspect, expected)>>

Crop(r, aspect) ==
    IF r.act.crop /\ r.act.aspect # "Stretch" THEN CropTo(aspect, ExpectedAspect(r))
    ELSE <<aspect, QInt(1)>>

\* The factor that scales the cropped picture to fit the backbuffer bb
FitFactor(bb, crop) ==
    IF QGeq(Q(bb[1], bb[2]), QDiv(crop[1], crop[2])) THEN QDiv(QInt(bb[2]), crop[2])
    ELSE QDiv(QInt(bb[1]), crop[1])

RectAt(left, top, w, h) == [left |-> left, top |-> top, right |-> left + w, bottom |-> top + h]

\* A draw_w x draw_h picture centred on bb
CentredRect(bb, draw_w, draw_h) ==
    RectAt(Round(Q(bb[1] - draw_w, 2)), Round(Q(bb[2] - draw_h, 2)), draw_w, draw_h)

DrawRect(bb, aspect, factor) == CentredRect(bb, Ceil4(QMul(aspect, factor)), Ceil4(factor))

DrawRectFor(r, aspect) == DrawRect(r.backbuffer, aspect, FitFactor(r.backbuffer, Crop(r, aspect)))

UpdateDrawRectangle(r) == [r EXCEPT !.targetRect = DrawRectFor(r, CalculateDrawAspectRatio(r))]

RectWidth(rc) == rc.right - rc.left
RectHeight(rc) == rc.bottom - rc.top

CalculateTargetScale(r, x, y) == <<x * r.efbScale, y * r.efbScale>>

\* The scale before the MaxTextureSize cap, in u32 arithmetic as the code has it
AutoIntegralScale(r) ==
    Larger(U32DivOfInt((EFB_WIDTH * RectWidth(r.targetRect)) \div r.lastXfb[1] - 1, EFB_WIDTH) + 1,
           U32DivOfInt((EFB_HEIGHT * RectWidth(r.targetRect)) \div r.lastXfb[2] - 1, EFB_HEIGHT) + 1)

ChosenScale(r) ==
    IF r.act.scale = EFB_SCALE_AUTO_INTEGRAL THEN AutoIntegralScale(r) ELSE r.act.scale

\* mutant: the cap rounds up
CappedScaleRoundedUp(s) ==
    IF U32LessThanProduct(MaxTextureSize, EFB_WIDTH, s)
    THEN (MaxTextureSize + EFB_WIDTH - 1) \div EFB_WIDTH ELSE s

CappedScale(s) ==
    IF U32LessThanProduct(MaxTextureSize, EFB_WIDTH, s) THEN MaxTextureSize \div EFB_WIDTH ELSE s

\* sizedFor is a history field: what the last CalculateTargetSize saw
SetEFBScale(r, scale) ==
    [r EXCEPT !.efbScale = scale,
              !.sizedFor = [auto |-> r.act.scale = EFB_SCALE_AUTO_INTEGRAL,
                            rect |-> <<RectWidth(r.targetRect), RectHeight(r.targetRect)>>,
                            xfb |-> r.lastXfb]]

SetTargetSize(r) == [r EXCEPT !.target = CalculateTargetScale(r, EFB_WIDTH, EFB_HEIGHT)]

CalculateTargetSize(r) == SetTargetSize(SetEFBScale(r, CappedScale(ChosenScale(r))))

\* The `if (CalculateTargetSize()) ResizeEFBTextures();` idiom: a new EFB only
\* when the target size of s differs from that of the renderer r before
ResizeIfTargetChanged(r, s) == IF s.target # r.target THEN [s EXCEPT !.efb = s.target] ELSE s

CalculateTargetSizeAndResize(r) == ResizeIfTargetChanged(r, CalculateTargetSize(r))

CropOutputTo(scaled, expected) ==
    IF QGt(QDiv(scaled[1], scaled[2]), expected) THEN <<QMul(scaled[2], expected), scaled[2]>>
    ELSE <<scaled[1], QDiv(scaled[1], expected)>>

CropOutput(r, scaled) == IF r.act.crop THEN CropOutputTo(scaled, ExpectedAspect(r)) ELSE scaled

Ceil4Pair(p) == <<Ceil4(p[1]), Ceil4(p[2])>>

CalculateOutputDimensions(r, width, height) ==
    Ceil4Pair(CropOutput(r, ScaleToDisplayAspectRatio(r, Larger(width, 1), Larger(height, 1))))

RequestWindowSize(r, size) ==
    [r EXCEPT !.lastRequest = CalculateOutputDimensions(r, size[1], size[2])]

\* Host_RequestRenderWindowSize is sent when the request differs from the last
SetWindowSize(r, width, height) ==
    RequestWindowSize(r, IF r.act.scale # EFB_SCALE_AUTO_INTEGRAL
                         THEN CalculateTargetScale(r, width, height) ELSE <<width, height>>)

UpdateActiveConfig(r) == [r EXCEPT !.act = cfg]

(***************************************************************************)
(* The backends' SwapImpl, reduced to what sizes and places the picture.   *)
(* tex is the size of the XFB texture (XfbTextureSizes below).             *)
(***************************************************************************)
\* D3D: the client area differs from the backbuffer and is at least 4x4
D3DCheckForResize(r) ==
    window # r.backbuffer /\ window[1] >= 4 /\ window[2] >= 4

\* D3D::Reset takes the client size; a new FramebufferManager of the target size
NewFramebuffer(r) == [r EXCEPT !.efb = r.target]

D3DRecreate(r, window_resized) ==
    NewFramebuffer(UpdateDrawRectangle(IF window_resized THEN [r EXCEPT !.backbuffer = window]
                                       ELSE r))

\* r before and s after CalculateTargetSize
D3DResizeBuffers(r, s, window_resized) ==
    IF s.target # r.target \/ window_resized THEN D3DRecreate(s, window_resized) ELSE s

D3DCheckBuffers(r) == D3DResizeBuffers(r, CalculateTargetSize(r), D3DCheckForResize(r))

D3DSwapImpl(r, tex) ==
    D3DCheckBuffers(SetWindowSize(UpdateActiveConfig(UpdateDrawRectangle(r)), tex[1], tex[2]))

\* OGL: the GL backbuffer is the client size, at least 1x1
OGLBackbuffer == <<Larger(window[1], 1), Larger(window[2], 1)>>

OGLRecreate(r, fb_needs_update) == IF fb_needs_update THEN NewFramebuffer(r) ELSE r

OGLUpdateBuffers(s, window_resized, fb_needs_update) ==
    UpdateActiveConfig(OGLRecreate(IF window_resized \/ fb_needs_update
                                   THEN UpdateDrawRectangle(s) ELSE s, fb_needs_update))

\* r before the backbuffer check, s after CalculateTargetSize
OGLCheckBuffers(r, s) ==
    OGLUpdateBuffers(s, s.backbuffer # r.backbuffer, s.target # r.target)

OGLCheckResize(r) == OGLCheckBuffers(r, CalculateTargetSize([r EXCEPT !.backbuffer = OGLBackbuffer]))

OGLSwapImpl(r, tex) ==
    OGLCheckResize(SetWindowSize(UpdateDrawRectangle(r), tex[1], tex[2]))

\* Vulkan: the target is recomputed when the scale or aspect setting changed
\* mutant: the new target size is computed but the EFB textures are not resized
VulkanCheckForConfigChangesNoResize(r) ==
    LET s == UpdateActiveConfig(r)
    IN  IF s.act.scale # r.act.scale \/ s.act.aspect # r.act.aspect
        THEN CalculateTargetSize(s) ELSE s

VulkanConfigChanged(r, s) ==
    IF s.act.scale # r.act.scale \/ s.act.aspect # r.act.aspect
    THEN CalculateTargetSizeAndResize(s) ELSE s

VulkanCheckForConfigChanges(r) == VulkanConfigChanged(r, UpdateActiveConfig(r))

\* mutant: the new backbuffer size is taken without a new draw rectangle
OnSwapChainResizedNoRedraw(r) ==
    CalculateTargetSizeAndResize([r EXCEPT !.backbuffer = window])

\* The recreated swap chain has the size of the window's surface
OnSwapChainResized(r) ==
    CalculateTargetSizeAndResize(UpdateDrawRectangle([r EXCEPT !.backbuffer = window]))

VulkanCheckForSurfaceChange(r) ==
    IF surfaceNeedsChange THEN OnSwapChainResized(r) ELSE r

VulkanSwapImpl(r, tex) ==
    SetWindowSize(CalculateTargetSizeAndResize(
                      VulkanCheckForSurfaceChange(VulkanCheckForConfigChanges(UpdateDrawRectangle(r)))),
                  tex[1], tex[2])

SwapImpl(r, tex) ==
    CASE backend = "OGL" -> OGLSwapImpl(r, tex)
      [] backend = "D3D" -> D3DSwapImpl(r, tex)
      [] backend = "Vulkan" -> VulkanSwapImpl(r, tex)

(***************************************************************************)
(* Init: the Renderer constructor, then the backend's FramebufferManager   *)
(* of the target size; m_aspect_wide is read from SYSCONF on the Wii after  *)
(* the draw rectangle was computed.                                         *)
(***************************************************************************)
InitialRenderer ==
    [backbuffer |-> window, act |-> cfg, aspectWide |-> FALSE,
     targetRect |-> [left |-> 0, top |-> 0, right |-> 0, bottom |-> 0],
     efbScale |-> 1, target |-> <<0, 0>>, efb |-> <<0, 0>>,
     lastXfb |-> <<MAX_XFB_WIDTH, MAX_XFB_HEIGHT>>, lastRequest |-> <<0, 0>>,
     sizedFor |-> [auto |-> FALSE, rect |-> <<0, 0>>, xfb |-> <<MAX_XFB_WIDTH, MAX_XFB_HEIGHT>>]]

Constructed(r, wide) == [r EXCEPT !.aspectWide = wide, !.efb = r.target]

Init ==
    /\ backend \in Backends
    /\ cfg \in Configs
    /\ window \in WindowSizes
    /\ surfaceNeedsChange = FALSE
    /\ resizes = 0
    /\ configChanges = 0
    /\ \E wide \in IF Wii THEN BOOLEAN ELSE {FALSE} :
          renderer = Constructed(CalculateTargetSize(UpdateDrawRectangle(InitialRenderer)), wide)

(***************************************************************************)
(* Renderer::Swap on the GPU thread: the GameCube widescreen heuristic,    *)
(* SwapImpl for a new XFB, then the last XFB size.  fresh is whether the   *)
(* texture cache returned an XFB entry other than the last one shown.       *)
(***************************************************************************)
AspectHeuristic(wide, counts) ==
    LET total == counts[1] + counts[2]
    IN  IF Wii THEN wide
        ELSE IF wide THEN ~(4 * counts[1] > 3 * total)
        ELSE 4 * counts[2] > 3 * total

ClampXfb(v, max) == IF v < 1 \/ v > max THEN max ELSE v

XfbValid(xfb) == xfb.width # 0 /\ xfb.stride # 0 /\ xfb.height # 0

RecordLastXfb(r, xfb) ==
    IF XfbValid(xfb)
    THEN [r EXCEPT !.lastXfb = <<ClampXfb(xfb.stride, MAX_XFB_WIDTH),
                                 ClampXfb(xfb.height, MAX_XFB_HEIGHT)>>]
    ELSE r

\* GetXFBTexture is asked for fbStride x fbHeight; the size of the texture
\* it returns is the texture cache's choice (TextureCacheBase.cpp is not in
\* this repository): the requested size for an XFB loaded from RAM, the
\* size scaled by m_efb_scale for one an EFB copy left in the cache.
XfbTextureSizes(r, xfb) ==
    {<<xfb.stride, xfb.height>>, <<xfb.stride * r.efbScale, xfb.height * r.efbScale>>}

\* GetXFBTexture and SwapImpl run only for a valid XFB the texture cache
\* returns as a new entry; otherwise the texture size plays no part.
TextureChoices(r, xfb, fresh) ==
    IF XfbValid(xfb) /\ fresh THEN XfbTextureSizes(r, xfb) ELSE {<<xfb.stride, xfb.height>>}

SwapFrame(r, xfb, fresh, tex) ==
    RecordLastXfb(IF XfbValid(xfb) /\ fresh THEN SwapImpl(r, tex) ELSE r, xfb)

Swap(xfb, counts, fresh, tex) ==
    /\ tex \in TextureChoices(renderer, xfb, fresh)
    /\ renderer' = SwapFrame([renderer EXCEPT !.aspectWide =
                                 AspectHeuristic(renderer.aspectWide, counts)], xfb, fresh, tex)
    /\ surfaceNeedsChange' = (surfaceNeedsChange /\ ~(backend = "Vulkan" /\ XfbValid(xfb) /\ fresh))
    /\ UNCHANGED <<backend, cfg, window, resizes, configChanges>>

(***************************************************************************)
(* The host: the user resizes the window, or the host honours the size     *)
(* the renderer requested; on Vulkan the resize handler calls              *)
(* ChangeSurface.  The UI thread writes g_Config.                          *)
(***************************************************************************)
ChangeSurface == surfaceNeedsChange' = (backend = "Vulkan" \/ surfaceNeedsChange)

UserResize(size) ==
    /\ resizes < MaxResizes
    /\ size # window
    /\ size[1] > 0 /\ size[2] > 0
    /\ window' = size
    /\ ChangeSurface
    /\ resizes' = resizes + 1
    /\ UNCHANGED <<backend, cfg, renderer, configChanges>>

ChangeConfig(c) ==
    /\ configChanges < MaxConfigChanges
    /\ c # cfg
    /\ cfg' = c
    /\ configChanges' = configChanges + 1
    /\ UNCHANGED <<backend, window, surfaceNeedsChange, renderer, resizes>>

Next ==
    \/ \E xfb \in Xfbs, counts \in FlushCounts, fresh \in BOOLEAN :
          \E tex \in TextureChoices(renderer, xfb, fresh) : Swap(xfb, counts, fresh, tex)
    \/ \E size \in WindowSizes \cup {renderer.lastRequest} : UserResize(size)
    \/ \E c \in Configs : ChangeConfig(c)

Spec == Init /\ [][Next]_vars

(***************************************************************************)
(* Properties                                                               *)
(***************************************************************************)
TypeOK ==
    /\ backend \in Backends
    /\ cfg \in Configs
    /\ window \in Nat \X Nat
    /\ surfaceNeedsChange \in BOOLEAN
    /\ renderer.act \in Configs
    /\ renderer.aspectWide \in BOOLEAN
    /\ renderer.efbScale \in 1..(MaxTextureSize \div EFB_WIDTH)
    /\ renderer.lastXfb \in (1..MAX_XFB_WIDTH) \X (1..MAX_XFB_HEIGHT)
    /\ resizes \in 0..MaxResizes
    /\ configChanges \in 0..MaxConfigChanges

\* Between frames the FramebufferManager's EFB has the size m_target_width x
\* m_target_height that CalculateTargetSize last computed: every path of
\* every backend's SwapImpl that can change the target size (a new scale
\* setting, a resized window under the auto scale, a surface change on
\* Vulkan) also recreates or resizes the EFB.  CalculateTargetSize reports a
\* change once only, so a caller that drops its result leaves the EFB stale
\* for good.
EFBMatchesTargetSize == renderer.efb = renderer.target

\* The draw rectangle is the one for the current backbuffer: its sides are
\* multiples of 4 and it is centred on m_backbuffer_width x
\* m_backbuffer_height.  A backend that takes a new backbuffer size in
\* SwapImpl without calling UpdateDrawRectangle again presents the next
\* frame's picture off-centre.
DrawRectangleCentred ==
    LET rc == renderer.targetRect
        bb == renderer.backbuffer
    IN  /\ RectWidth(rc) % 4 = 0
        /\ RectHeight(rc) % 4 = 0
        /\ rc.left = Round(Q(bb[1] - RectWidth(rc), 2))
        /\ rc.top = Round(Q(bb[2] - RectHeight(rc), 2))

\* C's truncating int division
CDiv(a, b) == IF a >= 0 THEN a \div b ELSE -((-a) \div b)

CapIntended(s) == IF MaxTextureSize < EFB_WIDTH * s THEN MaxTextureSize \div EFB_WIDTH ELSE s

\* The auto setting's scale as the spec describes it: the smallest integer
\* scale whose EFB covers the draw rectangle, horizontally and vertically,
\* capped by the maximum texture size.  It is CalculateTargetSize's formula
\* with the rectangle's height in the vertical term and signed arithmetic.
IntendedAutoScale(f) ==
    CapIntended(Larger(CDiv((EFB_WIDTH * f.rect[1]) \div f.xfb[1] - 1, EFB_WIDTH) + 1,
                       CDiv((EFB_HEIGHT * f.rect[2]) \div f.xfb[2] - 1, EFB_HEIGHT) + 1))

\* When CalculateTargetSize last ran under EFB_SCALE_AUTO_INTEGRAL, m_efb_scale
\* is the intended auto scale for the draw rectangle and last XFB size it saw.
AutoScaleCoversWindow ==
    renderer.sizedFor.auto => renderer.efbScale = IntendedAutoScale(renderer.sizedFor)

====
