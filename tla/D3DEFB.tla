------------------------------- MODULE D3DEFB -------------------------------
(***************************************************************************)
(* The Direct3D 11 renderer's EFB (D3D/Render.cpp, D3D/FramebufferManager  *)
(* .cpp): the colour and depth render targets and every call that touches  *)
(* them. There is no peek cache: AccessEFB renders the centre texel of the *)
(* pixel into a 1x1 read texture, copies it to a staging buffer and maps   *)
(* it on every peek.                                                       *)
(*                                                                         *)
(* colorTex holds the channels of the R8G8B8A8 colour target, written as   *)
(* an [a, r, g, b] record; depthTex the R32 float depth d stored as the    *)
(* integer d * 2^24 (the backend inverts depth: the GX z is 1 - d).  Both  *)
(* are held at guest resolution: every target texel of an EFB pixel's      *)
(* EFBScale-square block holds that pixel's value, and D3D's origin is the *)
(* top-left, as the EFB's.                                                 *)
(*                                                                         *)
(* depthBound is whether the depth target is bound with the colour target  *)
(* (BindEFBRenderTarget(true)); integerRT is s_integer_efb_render_target.  *)
(* gxDepth is a history variable: the z the guest's commands have left in  *)
(* each pixel of the EFB.                                                  *)
(***************************************************************************)
EXTENDS EFBFormat

CONSTANTS
  EFB_WIDTH, EFB_HEIGHT,  \* the EFB in guest pixels
  EFBScale,               \* Renderer::m_efb_scale
  Device1,                \* D3D::device1 exists: the driver offers D3D 11.1
  ColorValues,            \* colours draws, clears and pokes write
  DepthValues,            \* 24-bit z values draws, clears and pokes write
  PeekFormats,            \* bpmem pixel formats a peek may see
  ReadModes,              \* GX_PokeAlphaRead modes a peek may see
  ConvTypes,              \* convtype arguments of ReinterpretPixelData
  ClearRects,             \* EFB rectangles passed to ClearScreen
  MaxWrites               \* bound on EFB writes in a behaviour

ASSUME /\ EFBScale \in 1 .. 4 /\ Device1 \in BOOLEAN
       /\ ColorValues \subseteq Colors /\ DepthValues \subseteq 0 .. MaxZ24
       /\ PeekFormats \subseteq PixelFormats /\ ReadModes \subseteq AlphaReadModes
       /\ ConvTypes \subseteq 0 .. 5 /\ MaxWrites \in Nat

VARIABLES colorTex, depthTex, depthBound, integerRT, lastPeek, writes, gxDepth

d3dVars == <<colorTex, depthTex, depthBound, integerRT, lastPeek, writes, gxDepth>>

Pixels == (0 .. EFB_WIDTH - 1) \X (0 .. EFB_HEIGHT - 1)

NoPeek == [type |-> "none"]

\* The depth of the GX z value z as the inverted target stores it.
StoredDepth(z) == DepthOne - z

\* The EFB the guest sees: the colour channels, and 1 - stored depth.
Access == INSTANCE EFBAccess
            WITH efbColor <- colorTex,
                 efbDepth <- [p \in Pixels |-> DepthOne - depthTex[p]]

-----------------------------------------------------------------------------
\* Mutant: the rectangle flipped vertically, as the GL backend does.
ConvertEFBRectangleFlipped(rc) ==
  [left |-> rc.left * EFBScale, top |-> (EFB_HEIGHT - rc.top) * EFBScale,
   right |-> rc.right * EFBScale, bottom |-> (EFB_HEIGHT - rc.bottom) * EFBScale]

\* Renderer::ConvertEFBRectangle: scaled, with no flip.
ConvertEFBRectangle(rc) ==
  [left |-> rc.left * EFBScale, top |-> rc.top * EFBScale,
   right |-> rc.right * EFBScale, bottom |-> rc.bottom * EFBScale]

\* The guest pixel whose block holds target texel (tx, ty).
TexelPixel(tx, ty) == <<tx \div EFBScale, ty \div EFBScale>>

\* The staging buffer mapped as a u32: the R8G8B8A8 bytes put R in the low
\* byte, so read as A8R8G8B8 red and blue trade places. The same holds the
\* other way for a u32 colour unpacked into R8G8B8A8 channels.
ReadTexel(c) == SwapRB(c)
UnpackRGBA8(u) == SwapRB(u)

ClampTo(v, hi) == IF v > hi THEN hi ELSE v

\* FramebufferManager::BindEFBRenderTarget(bind_depth).
BindEFBRenderTarget(bindDepth) == depthBound' = bindDepth

\* FramebufferManager::SetIntegerEFBRenderTarget: a change of the flag
\* rebinds the target with its depth buffer; without D3D 11.1 (no logic
\* ops) it returns before either.
SetIntegerEFBRenderTarget(enabled) ==
  IF integerRT = enabled \/ ~Device1
  THEN UNCHANGED <<integerRT, depthBound>>
  ELSE integerRT' = enabled /\ BindEFBRenderTarget(TRUE)

-----------------------------------------------------------------------------
Init ==
  \* Renderer::Renderer creates the FramebufferManager, clears its targets
  \* to opaque black and depth 0.0 (GX z at the far plane) and binds them.
  /\ colorTex = [p \in Pixels |-> [a |-> 255, r |-> 0, g |-> 0, b |-> 0]]
  /\ depthTex = [p \in Pixels |-> 0]
  /\ depthBound = TRUE
  /\ integerRT = FALSE
  /\ lastPeek = NoPeek
  /\ writes = 0
  /\ gxDepth = [p \in Pixels |-> DepthOne]

\* Renderer::AccessEFB for PeekColor and PeekZ: sample the centre texel of
\* the pixel's target rectangle, map it, convert it; then
\* BindEFBRenderTarget() restores the target with depth.
AccessEFB(type, x, y, fmt, mode) ==
  LET trc == ConvertEFBRectangle([left |-> x, top |-> y, right |-> x + 1, bottom |-> y + 1])
      p   == TexelPixel((trc.left + trc.right) \div 2, (trc.top + trc.bottom) \div 2)
      val == IF type = "PeekColor" THEN SwapRB(ReadTexel(colorTex[p]))
             ELSE DepthOne - depthTex[p]
      ret == IF type = "PeekColor" THEN PeekColorValue(val, fmt, mode)
             ELSE IF fmt = "RGB565_Z16" THEN ClampTo(val \div 256, 65535)
             ELSE ClampTo(val, MaxZ24)
  IN  /\ lastPeek' = [type |-> type, x |-> x, y |-> y, fmt |-> fmt, mode |-> mode,
                      value |-> ret]
      /\ BindEFBRenderTarget(TRUE)
      /\ UNCHANGED <<colorTex, depthTex, integerRT, writes, gxDepth>>

\* Renderer::PokeEFB: a colour poke binds the target without depth and a
\* z poke with it; D3D::DrawEFBPokeQuads (spec 4.3) then draws the point,
\* a z poke under a colour-masked, depth-writing state. RestoreAPIState
\* does not rebind the target.
PokeEFB(type, p, data) ==
  /\ writes < MaxWrites
  /\ writes' = writes + 1
  /\ lastPeek' = NoPeek
  /\ UNCHANGED integerRT
  /\ IF type = "PokeColor"
     THEN /\ BindEFBRenderTarget(FALSE)
          /\ colorTex' = [colorTex EXCEPT ![p] = data]
          /\ UNCHANGED <<depthTex, gxDepth>>
     ELSE /\ BindEFBRenderTarget(TRUE)
          /\ depthTex' = [depthTex EXCEPT ![p] = StoredDepth(data % 2^24)]
          /\ gxDepth' = [gxDepth EXCEPT ![p] = data % 2^24]
          /\ UNCHANGED colorTex

\* m_clear_blend_states[0..3]: the write mask of the clear's colour and
\* alpha channels.
MaskedClear(old, new, colorEnable, alphaEnable) ==
  [a |-> IF alphaEnable THEN new.a ELSE old.a,
   r |-> IF colorEnable THEN new.r ELSE old.r,
   g |-> IF colorEnable THEN new.g ELSE old.g,
   b |-> IF colorEnable THEN new.b ELSE old.b]

InRectangle(p, rc) ==
  rc.left <= p[1] /\ p[1] < rc.right /\ rc.top <= p[2] /\ p[2] < rc.bottom

\* Renderer::ClearScreen: a quad over rc under the masked blend state and,
\* with zEnable, the depth-writing state; the depth write lands only if
\* the depth target is bound. SetIntegerEFBRenderTarget(false) comes first.
ClearScreen(rc, colorEnable, alphaEnable, zEnable, color, z) ==
  LET rgbaColor == SwapRB(color)
      writesZ   == zEnable /\ (depthBound' = TRUE)
  IN  /\ writes < MaxWrites
      /\ writes' = writes + 1
      /\ lastPeek' = NoPeek
      /\ SetIntegerEFBRenderTarget(FALSE)
      /\ colorTex' = [p \in Pixels |-> IF InRectangle(p, rc)
                        THEN MaskedClear(colorTex[p], UnpackRGBA8(rgbaColor),
                                         colorEnable, alphaEnable)
                        ELSE colorTex[p]]
      /\ depthTex' = [p \in Pixels |-> IF InRectangle(p, rc) /\ writesZ
                        THEN StoredDepth(z % 2^24) ELSE depthTex[p]]
      /\ gxDepth' = [p \in Pixels |-> IF InRectangle(p, rc) /\ zEnable
                       THEN z % 2^24 ELSE gxDepth[p]]

\* A draw through VertexManager (spec 3): Renderer::ApplyState selects the
\* integer target for a logic op, then the primitive writes colour and, if
\* the depth target is bound, z. One pixel stands for its coverage.
Draw(p, color, z, logicop) ==
  /\ writes < MaxWrites
  /\ writes' = writes + 1
  /\ lastPeek' = NoPeek
  /\ SetIntegerEFBRenderTarget(logicop)
  /\ colorTex' = [colorTex EXCEPT ![p] = color]
  /\ depthTex' = IF depthBound' THEN [depthTex EXCEPT ![p] = StoredDepth(z)] ELSE depthTex
  /\ gxDepth' = [gxDepth EXCEPT ![p] = z]

\* Renderer::ReinterpretPixelData: convtype 0 and 2 run the reinterpretation
\* shader over the colour target into the temporary texture, swap the two
\* and rebind the target with depth; any other convtype only logs.
ReinterpretPixelData(convtype) ==
  /\ lastPeek' = NoPeek
  /\ UNCHANGED <<depthTex, integerRT, gxDepth>>
  /\ IF convtype \in {0, 2}
     THEN /\ writes < MaxWrites
          /\ writes' = writes + 1
          /\ colorTex' = [p \in Pixels |-> ReinterpretColor(convtype, colorTex[p])]
          /\ BindEFBRenderTarget(TRUE)
     ELSE UNCHANGED <<writes, colorTex, depthBound>>

\* PSTextureEncoder::Encode, an EFB copy: it reads the EFB into the encoding
\* texture and restores the target with BindEFBRenderTarget().
Encode ==
  /\ lastPeek' = NoPeek
  /\ BindEFBRenderTarget(TRUE)
  /\ UNCHANGED <<colorTex, depthTex, integerRT, writes, gxDepth>>

\* DXTexture::ScaleRectangleFromTexture, a scaled texture-to-texture copy
\* of the texture cache: it binds the destination, draws into it and
\* restores the EFB with BindEFBRenderTarget().
ScaleRectangleFromTexture ==
  /\ lastPeek' = NoPeek
  /\ BindEFBRenderTarget(TRUE)
  /\ UNCHANGED <<colorTex, depthTex, integerRT, writes, gxDepth>>

\* Renderer::SwapImpl: when the target size, window, fullscreen state,
\* multisampling or stereo mode changed, the FramebufferManager is
\* recreated (s_integer_efb_render_target reset) and its targets cleared to
\* opaque black and depth 0.0; the frame ends with BindEFBRenderTarget().
\* The guest's EFB survives a resize, the host's does not; the history
\* restarts there, as the host's contents are lost by design.
SwapImpl(resize) ==
  /\ lastPeek' = NoPeek
  /\ BindEFBRenderTarget(TRUE)
  /\ IF resize
     THEN /\ writes < MaxWrites
          /\ writes' = writes + 1
          /\ colorTex' = [p \in Pixels |-> [a |-> 255, r |-> 0, g |-> 0, b |-> 0]]
          /\ depthTex' = [p \in Pixels |-> 0]
          /\ integerRT' = FALSE
          /\ gxDepth' = [p \in Pixels |-> DepthOne]
     ELSE UNCHANGED <<colorTex, depthTex, integerRT, writes, gxDepth>>

Next ==
  \/ \E x \in 0 .. EFB_WIDTH - 1, y \in 0 .. EFB_HEIGHT - 1, fmt \in PeekFormats :
        \/ AccessEFB("PeekZ", x, y, fmt, 0)
        \/ \E mode \in ReadModes : AccessEFB("PeekColor", x, y, fmt, mode)
  \/ \E p \in Pixels :
        \/ \E c \in ColorValues : PokeEFB("PokeColor", p, c)
        \/ \E z \in DepthValues : PokeEFB("PokeZ", p, z)
  \/ \E rc \in ClearRects, ce, ae, ze \in BOOLEAN, c \in ColorValues, z \in DepthValues :
        ClearScreen(rc, ce, ae, ze, c, z)
  \/ \E p \in Pixels, c \in ColorValues, z \in DepthValues, lo \in BOOLEAN : Draw(p, c, z, lo)
  \/ \E convtype \in ConvTypes : ReinterpretPixelData(convtype)
  \/ Encode
  \/ ScaleRectangleFromTexture
  \/ \E resize \in BOOLEAN : SwapImpl(resize)

Spec == Init /\ [][Next]_d3dVars

-----------------------------------------------------------------------------
(* Properties                                                              *)

TypeOK ==
  /\ colorTex \in [Pixels -> Colors]
  /\ depthTex \in [Pixels -> 0 .. DepthOne]
  /\ depthBound \in BOOLEAN /\ integerRT \in BOOLEAN
  /\ writes \in 0 .. MaxWrites
  /\ gxDepth \in [Pixels -> 0 .. DepthOne]

\* Every peek of AccessEFB returns the current EFB value at (x, y) converted
\* for the pixel format and alpha-read mode: the centre-texel address, the
\* R/B swap of the mapped RGBA bytes, the inversion of the stored depth and
\* the 16- and 24-bit clamps together give what the uncached access
\* promises (spec 8, peek/poke consistency).
PeekSeesCurrentEFB == Access!Spec

\* The depth target holds, in every pixel, the z the guest's clears, pokes
\* and draws left there: no z write of ClearScreen or a draw is lost
\* because the depth target is not bound (spec 6, ClearScreen's zEnable).
HostDepthMatchesGX ==
  \A p \in Pixels : DepthOne - depthTex[p] = gxDepth[p]
====
