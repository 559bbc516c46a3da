------------------------- MODULE TargetCoordinates -------------------------
(***************************************************************************)
(* How each backend places GX-coordinate state on the upscaled EFB target  *)
(* that Presentation sizes: the viewport (SetViewport), the scissor box    *)
(* (SetScissorRect after ConvertEFBRectangle), the bounding-box registers  *)
(* (BBoxWrite, BBoxRead) and, on Vulkan, the paths ClearScreen takes.      *)
(* Each is an operator of the renderer's current target size and scale; a  *)
(* property quantifies over small sets of GX inputs and is checked in      *)
(* every state of the presentation runs, for the backend and target size   *)
(* of that state.                                                          *)
(***************************************************************************)
EXTENDS Presentation, Sequences, FiniteSets

CONSTANTS
    Viewports,      \* xfmem.viewport with bpmem.scissorOffset: [xOrig, yOrig, wd, ht, sx, sy]
    ScissorRects,   \* EFB rectangles passed to SetScissorRect
    BBoxWrites,     \* <<left, right, top, bottom>> a game writes to the bbox registers
    BBoxDraws,      \* EFB rectangles drawn while the bounding box is active
    NoDraw,         \* no draw between the writes and the reads
    ClearRects,     \* EFB rectangles passed to ClearScreen
    PixelFormats,   \* bpmem.zcontrol.pixel_format
    NoViewport      \* D3D's SetViewport returned without setting a viewport

TW == renderer.target[1]
TH == renderer.target[2]

\* EFBToScaledXf/Yf multiply by target/EFB size; CalculateTargetScale makes
\* the target an integer multiple of the EFB, so the float products are exact.
ScaledXf(x) == (x * TW) \div EFB_WIDTH
ScaledYf(y) == (y * TH) \div EFB_HEIGHT

\* EFBToScaledX/Y multiply by m_efb_scale.
ScaledX(x) == x * renderer.efbScale
ScaledY(y) == y * renderer.efbScale

\* MathUtil::Rectangle::GetWidth/GetHeight: the absolute difference.
Span(a, b) == IF b >= a THEN b - a ELSE a - b

\* A host rectangle as origin and extent, the form every API takes.
Box(x, y, w, h) == [x |-> x, y |-> y, w |-> w, h |-> h]

(***************************************************************************)
(* SetViewport                                                              *)
(***************************************************************************)
\* The sign fix-up every SetViewport does: a negative extent moves the origin.
Unflip(pos, ext) == IF ext < 0 THEN <<pos + ext, -ext>> ELSE <<pos, ext>>

BoxOf(xs, ys) == Box(xs[1], ys[1], xs[2], ys[2])

\* mutant: the scissor offset added to y instead of subtracted
OGLSetViewportOffsetSign(v) ==
    BoxOf(Unflip(ScaledXf(v.xOrig - v.wd - 2 * v.sx), ScaledXf(2 * v.wd)),
          Unflip(ScaledYf(EFB_HEIGHT - v.yOrig + v.ht - 2 * v.sy), ScaledYf(-2 * v.ht)))

\* OGL: y measured up from the bottom of the target; integer inputs make
\* glViewportIndexedf and the iceilf fallback agree.
OGLSetViewport(v) ==
    BoxOf(Unflip(ScaledXf(v.xOrig - v.wd - 2 * v.sx), ScaledXf(2 * v.wd)),
          Unflip(ScaledYf(EFB_HEIGHT - v.yOrig + v.ht + 2 * v.sy), ScaledYf(-2 * v.ht)))

\* The top-left arithmetic D3D and Vulkan share.
TopLeftViewport(v) ==
    BoxOf(Unflip(ScaledXf(v.xOrig - v.wd - 2 * v.sx), ScaledXf(2 * v.wd)),
          Unflip(ScaledYf(v.yOrig + v.ht - 2 * v.sy), ScaledYf(-2 * v.ht)))

VulkanSetViewport(v) == TopLeftViewport(v)

\* D3D: the viewport must fit within the render target.
FitToTarget(x, y, vp) ==
    Box(x, y, IF x + vp.w <= TW THEN vp.w ELSE TW - x,
              IF y + vp.h <= TH THEN vp.h ELSE TH - y)

D3DClampViewport(vp) == FitToTarget(Larger(vp.x, 0), Larger(vp.y, 0), vp)

\* D3D returns early for a zero viewport, keeping the previous one.
D3DSetViewport(v) ==
    IF v.wd = 0 \/ v.ht = 0 THEN NoViewport ELSE D3DClampViewport(TopLeftViewport(v))

(***************************************************************************)
(* SetScissorRect                                                           *)
(***************************************************************************)
\* OGL's ConvertEFBRectangle flips y; D3D's and Vulkan's do not.
OGLConvertEFBRectangle(rc) ==
    [left |-> ScaledX(rc.left), top |-> ScaledY(EFB_HEIGHT - rc.top),
     right |-> ScaledX(rc.right), bottom |-> ScaledY(EFB_HEIGHT - rc.bottom)]

ConvertEFBRectangleTopLeft(rc) ==
    [left |-> ScaledX(rc.left), top |-> ScaledY(rc.top),
     right |-> ScaledX(rc.right), bottom |-> ScaledY(rc.bottom)]

\* glScissor(left, bottom, GetWidth, GetHeight)
OGLScissorBox(trc) ==
    Box(trc.left, trc.bottom, Span(trc.left, trc.right), Span(trc.top, trc.bottom))

OGLSetScissorRect(rc) == OGLScissorBox(OGLConvertEFBRectangle(rc))

\* RSSetScissorRects(trc.AsRECT()): a RECT is left, top, right, bottom.
D3DScissorBox(trc) == Box(trc.left, trc.top, trc.right - trc.left, trc.bottom - trc.top)

D3DSetScissorRect(rc) == D3DScissorBox(ConvertEFBRectangleTopLeft(rc))

\* VkRect2D {{left, top}, {(u32)GetWidth, (u32)GetHeight}}
VulkanScissorBox(trc) ==
    Box(trc.left, trc.top, Span(trc.left, trc.right), Span(trc.top, trc.bottom))

VulkanSetScissorRect(rc) == VulkanScissorBox(ConvertEFBRectangleTopLeft(rc))

(***************************************************************************)
(* The bounding box: four registers, 0 left, 1 right, 2 top, 3 bottom, in  *)
(* EFB pixels with the maxima one past the border; the GPU keeps them as   *)
(* min/max pixel positions of the upscaled target.                         *)
(***************************************************************************)
BBoxIndex == 0 .. 3
IsMax(i) == i % 2 = 1
OuterBorder(i) == IF IsMax(i) THEN 1 ELSE 0
U16(x) == x % 65536

\* index ^= 1 for the top/bottom registers
SwapTopBottom(i) == IF i < 2 THEN i ELSE 5 - i

\* OGL BBoxWrite: the target's rows run bottom-up, so y is flipped and top
\* and bottom trade registers.
OGLScaledBBox(i, value) ==
    IF i < 2 THEN CDiv(value * TW, EFB_WIDTH)
    ELSE CDiv((EFB_HEIGHT - value - 1) * TH, EFB_HEIGHT)

\* mutant: index ^= 1 dropped, top and bottom written where they are read unswapped
OGLBBoxWriteUnswapped(box, i, v) ==
    [box EXCEPT ![i] = OGLScaledBBox(i, v - OuterBorder(i))]

OGLBBoxWrite(box, i, v) ==
    [box EXCEPT ![SwapTopBottom(i)] = OGLScaledBBox(i, v - OuterBorder(i))]

\* OGL BBoxRead, returning the int as u16
OGLUnscaledBBox(i, value) ==
    IF i < 2 THEN CDiv(value * EFB_WIDTH, TW)
    ELSE EFB_HEIGHT - CDiv(value * EFB_HEIGHT, TH) - 1

OGLBBoxRead(box, i) == U16(OGLUnscaledBBox(i, box[SwapTopBottom(i)]) + OuterBorder(i))

\* D3D and Vulkan: the same scaling without the flip.
ScaledBBox(i, value) ==
    IF i < 2 THEN CDiv(value * TW, EFB_WIDTH) ELSE CDiv(value * TH, EFB_HEIGHT)

UnscaledBBox(i, value) ==
    IF i < 2 THEN CDiv(value * EFB_WIDTH, TW) ELSE CDiv(value * EFB_HEIGHT, TH)

D3DBBoxWrite(box, i, v) == [box EXCEPT ![i] = ScaledBBox(i, v - OuterBorder(i))]
D3DBBoxRead(box, i) == U16(UnscaledBBox(i, box[i]) + OuterBorder(i))
VulkanBBoxWrite(box, i, v) == [box EXCEPT ![i] = ScaledBBox(i, v - OuterBorder(i))]
VulkanBBoxRead(box, i) == U16(UnscaledBBox(i, box[i]) + OuterBorder(i))

BBoxWrite(box, i, v) ==
    CASE backend = "OGL" -> OGLBBoxWrite(box, i, v)
      [] backend = "D3D" -> D3DBBoxWrite(box, i, v)
      [] backend = "Vulkan" -> VulkanBBoxWrite(box, i, v)

BBoxRead(box, i) ==
    CASE backend = "OGL" -> OGLBBoxRead(box, i)
      [] backend = "D3D" -> D3DBBoxRead(box, i)
      [] backend = "Vulkan" -> VulkanBBoxRead(box, i)

\* The pixel shader merges the truncated positions of the pixels it draws:
\* the rows of an EFB rectangle in the target's own row order.
DrawnRows(rc) ==
    IF backend = "OGL" THEN <<TH - ScaledY(rc.bottom), TH - ScaledY(rc.top) - 1>>
    ELSE <<ScaledY(rc.top), ScaledY(rc.bottom) - 1>>

MergeBBox(box, lo, hi) ==
    [box EXCEPT ![0] = IF lo[1] < @ THEN lo[1] ELSE @, ![1] = Larger(@, hi[1]),
                ![2] = IF lo[2] < @ THEN lo[2] ELSE @, ![3] = Larger(@, hi[2])]

DrawBBox(box, rc) ==
    IF rc = NoDraw THEN box
    ELSE MergeBBox(box, <<ScaledX(rc.left), DrawnRows(rc)[1]>>,
                        <<ScaledX(rc.right) - 1, DrawnRows(rc)[2]>>)

\* The four writes a game makes, from whatever the registers held.
WriteBBox(w) ==
    BBoxWrite(BBoxWrite(BBoxWrite(BBoxWrite([i \in BBoxIndex |-> 0], 0, w[1]), 1, w[2]), 2, w[3]), 3, w[4])

(***************************************************************************)
(* Vulkan ClearScreen                                                       *)
(***************************************************************************)
\* The formats without an alpha channel, where ClearScreen forces alpha writes.
NoAlphaFormat(fmt) == fmt \in {"RGB565_Z16", "RGB8_Z24", "Z24"}

\* MathUtil::Rectangle::ClampUL(0, 0, m_target_width, m_target_height)
ClampToTarget(trc) ==
    [left |-> Larger(trc.left, 0), top |-> Larger(trc.top, 0),
     right |-> IF trc.right > TW THEN TW ELSE trc.right,
     bottom |-> IF trc.bottom > TH THEN TH ELSE trc.bottom]

ClearOp(path, channels, trc) ==
    [path |-> path, channels |-> channels,
     rect |-> Box(trc.left, trc.top, Span(trc.left, trc.right), Span(trc.top, trc.bottom))]

\* mutant: the colour attachment chosen on color_enable alone
AttachmentChannelsColorOnly(ce, ae, ze) ==
    (IF ce THEN {"rgb", "a"} ELSE {}) \cup (IF ze THEN {"z"} ELSE {})

\* The channels vkCmdClearAttachments clears: colour with alpha, and depth.
AttachmentChannels(ce, ae, ze) ==
    (IF ce /\ ae THEN {"rgb", "a"} ELSE {}) \cup (IF ze THEN {"z"} ELSE {})

Requested(ce, ae, ze) ==
    (IF ce THEN {"rgb"} ELSE {}) \cup (IF ae THEN {"a"} ELSE {}) \cup (IF ze THEN {"z"} ELSE {})

\* The colored quad draws what the other paths left, with colorupdate,
\* alphaupdate and depth updateenable set from the remaining flags.
QuadOp(left, trc) == IF left = {} THEN <<>> ELSE <<ClearOp("quad", left, trc)>>

ClearPaths(trc, ce, ae, ze, inRenderPass, msaaBug, loadOpBug) ==
    IF ~inRenderPass /\ ce /\ ae /\ ze /\ ~msaaBug /\ ~loadOpBug
    THEN <<ClearOp("renderpass", {"rgb", "a", "z"}, trc)>>
    ELSE IF ((ce /\ ae) \/ ze) /\ ~msaaBug
         THEN <<ClearOp("attachments", AttachmentChannels(ce, ae, ze), trc)>>
              \o QuadOp(Requested(ce, ae, ze) \ AttachmentChannels(ce, ae, ze), trc)
         ELSE QuadOp(Requested(ce, ae, ze), trc)

\* msaaBug: iMultisamples > 1 on a driver with BUG_BROKEN_MSAA_CLEAR;
\* loadOpBug: BUG_BROKEN_CLEAR_LOADOP_RENDERPASS.
VulkanClearScreen(rc, ce, ae, ze, fmt, inRenderPass, msaaBug, loadOpBug) ==
    ClearPaths(ClampToTarget(ConvertEFBRectangleTopLeft(rc)), ce, ae \/ NoAlphaFormat(fmt), ze,
               inRenderPass, msaaBug, loadOpBug)

(***************************************************************************)
(* Side-by-side and top-and-bottom stereoscopy: BlitScreen draws eye 0 and *)
(* eye 1 of the XFB into the two rectangles ConvertStereoRectangle derives *)
(* from the draw rectangle.                                                *)
(***************************************************************************)
StereoModes == {"SBS", "TAB"}

BW == renderer.backbuffer[1]
BH == renderer.backbuffer[2]

\* Resize target to half its original size; the height of a flipped
\* rectangle is negative and C's division truncates toward zero.
HalveRect(rc, mode) ==
    IF mode = "TAB"
    THEN [rc EXCEPT !.top = @ + CDiv(rc.bottom - rc.top, 4),
                    !.bottom = @ - CDiv(rc.bottom - rc.top, 4)]
    ELSE [rc EXCEPT !.left = @ + CDiv(rc.right - rc.left, 4),
                    !.right = @ - CDiv(rc.right - rc.left, 4)]

ShiftRect(rc, mode, d) ==
    IF mode = "TAB" THEN [rc EXCEPT !.top = @ + d, !.bottom = @ + d]
    ELSE [rc EXCEPT !.left = @ + d, !.right = @ + d]

StereoPair(draw, q, mode) == <<ShiftRect(draw, mode, -q), ShiftRect(draw, mode, q)>>

\* Renderer::ConvertStereoRectangle: <<left_rc, right_rc>>, a quarter of the
\* backbuffer to either side.
ConvertStereoRectangle(rc, mode) ==
    StereoPair(HalveRect(rc, mode), (IF mode = "TAB" THEN BH ELSE BW) \div 4, mode)

\* A rectangle where the API puts it, top-down: D3D's CD3D11_VIEWPORT and
\* Vulkan's blit take left, top and the absolute extents; OGL's blit takes
\* dst.left, dst.bottom in bottom-up window coordinates.
TopDownBox(rc) == Box(rc.left, rc.top, Span(rc.left, rc.right), Span(rc.top, rc.bottom))
BottomUpBox(rc) ==
    Box(rc.left, BH - (rc.bottom + Span(rc.top, rc.bottom)), Span(rc.left, rc.right), Span(rc.top, rc.bottom))

\* Mutant: BlitScreen without the top-and-bottom swap of the eyes.
OGLStereoEyesUnswapped(mode) ==
    LET pair == ConvertStereoRectangle([renderer.targetRect EXCEPT !.top = renderer.targetRect.bottom,
                                                                   !.bottom = renderer.targetRect.top], mode)
    IN  <<BottomUpBox(pair[1]), BottomUpBox(pair[2])>>

\* OGL SwapImpl passes the target rectangle with top and bottom swapped, and
\* BlitScreen swaps the eyes in top-and-bottom mode.
OGLStereoEyes(mode) ==
    LET pair == ConvertStereoRectangle([renderer.targetRect EXCEPT !.top = renderer.targetRect.bottom,
                                                                   !.bottom = renderer.targetRect.top], mode)
    IN  IF mode = "TAB" THEN <<BottomUpBox(pair[2]), BottomUpBox(pair[1])>>
        ELSE <<BottomUpBox(pair[1]), BottomUpBox(pair[2])>>

D3DStereoEyes(mode) ==
    <<TopDownBox(ConvertStereoRectangle(renderer.targetRect, mode)[1]),
      TopDownBox(ConvertStereoRectangle(renderer.targetRect, mode)[2])>>

VulkanStereoEyes(mode) ==
    <<TopDownBox(ConvertStereoRectangle(renderer.targetRect, mode)[1]),
      TopDownBox(ConvertStereoRectangle(renderer.targetRect, mode)[2])>>

(***************************************************************************)
(* Properties                                                               *)
(***************************************************************************)
\* The GX viewport in target pixels, top-left origin: xOrig -+ wd by
\* yOrig -+ ht, less twice the scissor offset, at the target's scale.
GXViewport(v) ==
    Box(ScaledXf(v.xOrig - Span(0, v.wd) - 2 * v.sx), ScaledYf(v.yOrig - Span(0, v.ht) - 2 * v.sy),
        ScaledXf(2 * Span(0, v.wd)), ScaledYf(2 * Span(0, v.ht)))

GXScissor(rc) ==
    Box(ScaledX(rc.left), ScaledY(rc.top), ScaledX(rc.right - rc.left), ScaledY(rc.bottom - rc.top))

\* A box OGL gives bottom-up, seen top-down.
FromBottomUp(b) == [b EXCEPT !.y = TH - (b.y + b.h)]

InsideTarget(b) == b.x >= 0 /\ b.y >= 0 /\ b.x + b.w <= TW /\ b.y + b.h <= TH

HostViewport(v) ==
    CASE backend = "OGL" -> FromBottomUp(OGLSetViewport(v))
      [] backend = "D3D" -> D3DSetViewport(v)
      [] backend = "Vulkan" -> VulkanSetViewport(v)

HostScissor(rc) ==
    CASE backend = "OGL" -> FromBottomUp(OGLSetScissorRect(rc))
      [] backend = "D3D" -> D3DSetScissorRect(rc)
      [] backend = "Vulkan" -> VulkanSetScissorRect(rc)

\* Every backend's SetScissorRect and SetViewport put the scissor box and
\* the viewport where GX has them on the upscaled target, whatever the
\* target size: OGL through its flipped ConvertEFBRectangle and bottom-up
\* viewport, D3D and Vulkan top-down, each undoing a negative viewport
\* extent.  D3D is held to it only where its zero-viewport return and its
\* fit-to-target clamp do not apply (D3DViewportMatchesGX states the rest).
RasterRegionsMatchGX ==
    /\ \A rc \in ScissorRects : HostScissor(rc) = GXScissor(rc)
    /\ \A v \in Viewports :
          (backend = "D3D" => v.wd # 0 /\ v.ht # 0 /\ InsideTarget(GXViewport(v)))
             => HostViewport(v) = GXViewport(v)

\* D3D's SetViewport places every nonzero viewport where GX has it.  The
\* clamp at D3D/Render.cpp:491-495 moves a viewport that starts left of or
\* above the target to 0 without shortening it, which stretches the image.
D3DViewportMatchesGX ==
    backend = "D3D" =>
        \A v \in Viewports : v.wd # 0 /\ v.ht # 0 => D3DSetViewport(v) = GXViewport(v)

Smaller(a, b) == IF a <= b THEN a ELSE b

UnionBBox(w, rc) ==
    IF rc = NoDraw THEN w
    ELSE <<Smaller(w[1], rc.left), Larger(w[2], rc.right),
           Smaller(w[3], rc.top), Larger(w[4], rc.bottom)>>

\* After a game writes the four bounding-box registers (BBoxWrite) and the
\* GPU draws an EFB rectangle, BBoxRead returns the union of the written box
\* and the rectangle in EFB pixels, the maxima one past the border: the
\* scaling, OGL's row flip and top/bottom swap, and the outer-border fix of
\* the maxima cancel on the way back at every target size.
BBoxReadsWrittenUnionDrawn ==
    \A w \in BBoxWrites, rc \in BBoxDraws \cup {NoDraw}, i \in BBoxIndex :
        BBoxRead(DrawBBox(WriteBBox(w), rc), i) = UnionBBox(w, rc)[i + 1]

ChannelsOf(ops) == UNION {ops[k].channels : k \in DOMAIN ops}

ClearsEachOnce(ops, requested) ==
    /\ ChannelsOf(ops) = requested
    /\ \A k, j \in DOMAIN ops : k # j => ops[k].channels \cap ops[j].channels = {}

\* Vulkan's ClearScreen clears exactly the channels the game enabled, alpha
\* also on a format without alpha, and each of them once, whichever of the
\* clear render pass, vkCmdClearAttachments and the coloured quad the
\* render-pass state and the driver bugs select: in particular it never
\* clears the alpha a game preserves while clearing colour.
VulkanClearWritesRequested ==
    backend = "Vulkan" =>
        \A rc \in ClearRects, fmt \in PixelFormats, ce, ae, ze, inRP, msaa, lo \in BOOLEAN :
            ClearsEachOnce(VulkanClearScreen(rc, ce, ae, ze, fmt, inRP, msaa, lo),
                           Requested(ce, ae \/ NoAlphaFormat(fmt), ze))

StereoEyes(mode) ==
    CASE backend = "OGL" -> OGLStereoEyes(mode)
      [] backend = "D3D" -> D3DStereoEyes(mode)
      [] backend = "Vulkan" -> VulkanStereoEyes(mode)

InsideBackbuffer(b) == b.x >= 0 /\ b.y >= 0 /\ b.x + b.w <= BW /\ b.y + b.h <= BH

DrawRectInsideBackbuffer ==
    LET rc == renderer.targetRect
    IN  0 <= rc.left /\ rc.left <= rc.right /\ rc.right <= BW
        /\ 0 <= rc.top /\ rc.top <= rc.bottom /\ rc.bottom <= BH

\* In side-by-side and top-and-bottom stereoscopy every backend's BlitScreen
\* shows the left eye (layer 0) in the left or the upper half of the
\* screen and the right eye in the other, both on screen, of equal size and
\* not overlapping, whatever the backend's vertical convention: OGL's
\* flipped target rectangle and bottom-up blit are undone by its swap of
\* the eyes in top-and-bottom mode.
StereoEyesInTheirHalves ==
    DrawRectInsideBackbuffer =>
        \A mode \in StereoModes :
            LET e == StereoEyes(mode)
            IN  /\ InsideBackbuffer(e[1]) /\ InsideBackbuffer(e[2])
                /\ e[1].w = e[2].w /\ e[1].h = e[2].h
                /\ IF mode = "SBS" THEN e[1].x + e[1].w <= e[2].x /\ e[1].y = e[2].y
                   ELSE e[1].y + e[1].h <= e[2].y /\ e[1].x = e[2].x

====
