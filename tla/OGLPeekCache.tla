---------------------------- MODULE OGLPeekCache ----------------------------
(***************************************************************************)
(* The OpenGL renderer's EFB peek cache (OGL/Render.cpp). A peek of pixel  *)
(* (x, y) reads back the whole EFB_CACHE_RECT_SIZE-square tile holding it  *)
(* with glReadPixels, stores it in s_efbCache[type][tile] and marks the    *)
(* tile valid; later peeks of that tile are served from memory until       *)
(* ClearEFBCache drops every valid flag. ClearEFBCache is skipped when     *)
(* s_efbCacheIsCleared says nothing has been filled since the last clear.  *)
(*                                                                         *)
(* The EFB is held at guest resolution; the render target is EFBScale      *)
(* times larger, upside down (GL's origin is bottom-left), and every       *)
(* target pixel of an EFB pixel's block holds that pixel's value.          *)
(* Draws and the FramebufferManager's pokes and reinterpretation pass are  *)
(* outside this repository and are modelled from the spec.                 *)
(***************************************************************************)
EXTENDS EFBFormat, FiniteSets

CONSTANTS
  EFB_WIDTH, EFB_HEIGHT,  \* the EFB in guest pixels
  EFB_CACHE_RECT_SIZE,    \* tile side (64 in the code)
  EFBScale,               \* Renderer::m_efb_scale, the internal resolution
  GLES,                   \* GLInterface->GetMode() == MODE_OPENGLES3
  ColorValues,            \* colours draws, clears and pokes write
  DepthValues,            \* 24-bit z values draws, clears and pokes write
  PeekFormats,            \* bpmem pixel formats a peek may see
  ReadModes,              \* GX_PokeAlphaRead modes a peek may see
  ConvTypes,              \* convtype arguments of ReinterpretPixelData
  ClearRects,             \* EFB rectangles passed to ClearScreen
  MaxWrites               \* bound on EFB writes in a behaviour

ASSUME /\ EFBScale \in 1 .. 4 /\ GLES \in BOOLEAN
       /\ ColorValues \subseteq Colors /\ DepthValues \subseteq 0 .. MaxZ24
       /\ PeekFormats \subseteq PixelFormats /\ ReadModes \subseteq AlphaReadModes
       /\ ConvTypes \subseteq 0 .. 5 /\ MaxWrites \in Nat

VARIABLES
  efbColor, efbDepth,     \* the EFB colour and depth planes
  efbCache,               \* s_efbCache[type][tile][i]
  efbCacheValid,          \* s_efbCacheValid[type][tile]
  efbCacheIsCleared,      \* s_efbCacheIsCleared
  lastPeek,               \* request and result of the last call, if a peek
  writes,                 \* EFB writes so far (bounded by MaxWrites)
  staleTiles              \* history: colour tiles filled before a reinterpretation

vars == <<efbColor, efbDepth, efbCache, efbCacheValid, efbCacheIsCleared,
          lastPeek, writes, staleTiles>>

Access == INSTANCE EFBAccess

Pixels == Access!Pixels
NoPeek == Access!NoPeek

-----------------------------------------------------------------------------
(* Tile geometry                                                           *)

EFB_CACHE_WIDTH  == (EFB_WIDTH + EFB_CACHE_RECT_SIZE - 1) \div EFB_CACHE_RECT_SIZE
EFB_CACHE_HEIGHT == (EFB_HEIGHT + EFB_CACHE_RECT_SIZE - 1) \div EFB_CACHE_RECT_SIZE

Tiles == 0 .. EFB_CACHE_WIDTH * EFB_CACHE_HEIGHT - 1
CacheSlots == 0 .. EFB_CACHE_RECT_SIZE * EFB_CACHE_RECT_SIZE - 1
CacheTypes == {0, 1}   \* 0: PeekZ, 1: PeekColor

Lesser(a, b) == IF a < b THEN a ELSE b

CacheRectIdx(x, y) ==
  (y \div EFB_CACHE_RECT_SIZE) * EFB_CACHE_WIDTH + (x \div EFB_CACHE_RECT_SIZE)

\* efbPixelRc of a peek: the tile holding (x, y), clipped to the EFB.
TileRect(x, y) ==
  LET left == (x \div EFB_CACHE_RECT_SIZE) * EFB_CACHE_RECT_SIZE
      top  == (y \div EFB_CACHE_RECT_SIZE) * EFB_CACHE_RECT_SIZE
  IN  [left |-> left, top |-> top,
       right |-> Lesser(left + EFB_CACHE_RECT_SIZE, EFB_WIDTH),
       bottom |-> Lesser(top + EFB_CACHE_RECT_SIZE, EFB_HEIGHT)]

EFBToScaledX(x) == x * EFBScale
EFBToScaledY(y) == y * EFBScale

\* Renderer::ConvertEFBRectangle: scaled, with y flipped.
ConvertEFBRectangle(rc) ==
  [left |-> EFBToScaledX(rc.left), top |-> EFBToScaledY(EFB_HEIGHT - rc.top),
   right |-> EFBToScaledX(rc.right), bottom |-> EFBToScaledY(EFB_HEIGHT - rc.bottom)]

-----------------------------------------------------------------------------
(* Read-back                                                               *)

\* What one texel of the colour or depth target holds as glReadPixels
\* returns it: a float depth, or a colour as GL_BGRA/8_8_8_8_REV (A8R8G8B8)
\* on desktop GL and as GL_RGBA/GL_UNSIGNED_BYTE on GLES.
ReadValue(type, p) ==
  IF type = 0 THEN efbDepth[p]
  ELSE IF GLES THEN SwapRB(efbColor[p]) ELSE efbColor[p]

TargetTexel(type, tx, ty) ==
  ReadValue(type, <<tx \div EFBScale, EFB_HEIGHT - 1 - ty \div EFBScale>>)

\* glReadPixels(left, bottom, w, h): rows from the bottom up.
ReadPixels(type, trc) ==
  LET w == trc.right - trc.left
      h == trc.top - trc.bottom
  IN  [j \in 0 .. w * h - 1 |->
         TargetTexel(type, trc.left + (j % w), trc.bottom + (j \div w))]

\* Mutant: the depth read back is stored without the clamp to 0xFFFFFF.
UpdateEFBCacheNoClamp(type, idx, rc, trc, data) ==
  LET tw == trc.right - trc.left
      Slot(xc, yc) ==
        LET yEFB   == rc.top + yc
            yPixel == (EFBToScaledY(EFB_HEIGHT - yEFB) + EFBToScaledY(EFB_HEIGHT - yEFB - 1)) \div 2
            xEFB   == rc.left + xc
            xPixel == (EFBToScaledX(xEFB) + EFBToScaledX(xEFB + 1)) \div 2
            v      == data[(yPixel - trc.bottom) * tw + (xPixel - trc.left)]
        IN  v
      InRect(i) == i % EFB_CACHE_RECT_SIZE < rc.right - rc.left
                   /\ i \div EFB_CACHE_RECT_SIZE < rc.bottom - rc.top
  IN  /\ efbCache' = [efbCache EXCEPT ![type][idx] =
           [i \in CacheSlots |->
              IF InRect(i) THEN Slot(i % EFB_CACHE_RECT_SIZE, i \div EFB_CACHE_RECT_SIZE)
              ELSE @[i]]]
      /\ efbCacheValid' = [efbCacheValid EXCEPT ![type][idx] = TRUE]
      /\ efbCacheIsCleared' = FALSE

\* Mutant: a fill does not reset s_efbCacheIsCleared.
UpdateEFBCacheKeepsCleared(type, idx, rc, trc, data) ==
  LET tw == trc.right - trc.left
      Slot(xc, yc) ==
        LET yEFB   == rc.top + yc
            yPixel == (EFBToScaledY(EFB_HEIGHT - yEFB) + EFBToScaledY(EFB_HEIGHT - yEFB - 1)) \div 2
            xEFB   == rc.left + xc
            xPixel == (EFBToScaledX(xEFB) + EFBToScaledX(xEFB + 1)) \div 2
            v      == data[(yPixel - trc.bottom) * tw + (xPixel - trc.left)]
        IN  IF type = 0 THEN ClampDepth(v) ELSE v
      InRect(i) == i % EFB_CACHE_RECT_SIZE < rc.right - rc.left
                   /\ i \div EFB_CACHE_RECT_SIZE < rc.bottom - rc.top
  IN  /\ efbCache' = [efbCache EXCEPT ![type][idx] =
           [i \in CacheSlots |->
              IF InRect(i) THEN Slot(i % EFB_CACHE_RECT_SIZE, i \div EFB_CACHE_RECT_SIZE)
              ELSE @[i]]]
      /\ efbCacheValid' = [efbCacheValid EXCEPT ![type][idx] = TRUE]
      /\ UNCHANGED efbCacheIsCleared

\* Renderer::UpdateEFBCache: copy the centre texel of every EFB pixel of
\* the tile into its slot, mark the tile valid and the cache not cleared.
UpdateEFBCache(type, idx, rc, trc, data) ==
  LET tw == trc.right - trc.left
      Slot(xc, yc) ==
        LET yEFB   == rc.top + yc
            yPixel == (EFBToScaledY(EFB_HEIGHT - yEFB) + EFBToScaledY(EFB_HEIGHT - yEFB - 1)) \div 2
            xEFB   == rc.left + xc
            xPixel == (EFBToScaledX(xEFB) + EFBToScaledX(xEFB + 1)) \div 2
            v      == data[(yPixel - trc.bottom) * tw + (xPixel - trc.left)]
        IN  IF type = 0 THEN ClampDepth(v) ELSE v
      InRect(i) == i % EFB_CACHE_RECT_SIZE < rc.right - rc.left
                   /\ i \div EFB_CACHE_RECT_SIZE < rc.bottom - rc.top
  IN  /\ efbCache' = [efbCache EXCEPT ![type][idx] =
           [i \in CacheSlots |->
              IF InRect(i) THEN Slot(i % EFB_CACHE_RECT_SIZE, i \div EFB_CACHE_RECT_SIZE)
              ELSE @[i]]]
      /\ efbCacheValid' = [efbCacheValid EXCEPT ![type][idx] = TRUE]
      /\ efbCacheIsCleared' = FALSE

\* ClearEFBCache: drop every valid flag unless already cleared.
ClearEFBCache ==
  IF ~efbCacheIsCleared
  THEN /\ efbCacheIsCleared' = TRUE
       /\ efbCacheValid' = [t \in CacheTypes |-> [i \in Tiles |-> FALSE]]
       /\ staleTiles' = {}
  ELSE UNCHANGED <<efbCacheIsCleared, efbCacheValid, staleTiles>>

-----------------------------------------------------------------------------
(* Operations                                                              *)

Init ==
  \* FramebufferManager creates the EFB cleared to black and the far plane;
  \* the Renderer constructor ends with ClearEFBCache() on the static state
  \* (nothing valid, s_efbCacheIsCleared = false), leaving it cleared.
  /\ efbColor = [p \in Pixels |-> [a |-> 0, r |-> 0, g |-> 0, b |-> 0]]
  /\ efbDepth = [p \in Pixels |-> DepthOne]
  /\ efbCache = [t \in CacheTypes |-> [i \in Tiles |-> [s \in CacheSlots |->
                  IF t = 0 THEN 0 ELSE [a |-> 0, r |-> 0, g |-> 0, b |-> 0]]]]
  /\ efbCacheValid = [t \in CacheTypes |-> [i \in Tiles |-> FALSE]]
  /\ efbCacheIsCleared = TRUE
  /\ lastPeek = NoPeek
  /\ writes = 0
  /\ staleTiles = {}

\* Renderer::AccessEFB for PeekZ and PeekColor: on a miss, read the tile
\* back and fill the cache; then convert the cached value of (x, y).
AccessEFB(type, x, y, fmt, mode) ==
  LET ct   == IF type = "PeekZ" THEN 0 ELSE 1
      idx  == CacheRectIdx(x, y)
      rc   == TileRect(x, y)
      trc  == ConvertEFBRectangle(rc)
      slot == (y % EFB_CACHE_RECT_SIZE) * EFB_CACHE_RECT_SIZE + (x % EFB_CACHE_RECT_SIZE)
  IN  /\ IF efbCacheValid[ct][idx]
         THEN UNCHANGED <<efbCache, efbCacheValid, efbCacheIsCleared>>
         ELSE UpdateEFBCache(ct, idx, rc, trc, ReadPixels(ct, trc))
      /\ LET v == efbCache'[ct][idx][slot]
         IN  lastPeek' = [type |-> type, x |-> x, y |-> y, fmt |-> fmt, mode |-> mode,
                          value |-> IF ct = 0 THEN PeekZValue(v, fmt)
                                    ELSE PeekColorValue(v, fmt, mode)]
      /\ UNCHANGED <<efbColor, efbDepth, writes, staleTiles>>

\* glColorMask(color, color, color, alpha) applied to a cleared pixel.
MaskedClear(old, new, colorEnable, alphaEnable) ==
  [a |-> IF alphaEnable THEN new.a ELSE old.a,
   r |-> IF colorEnable THEN new.r ELSE old.r,
   g |-> IF colorEnable THEN new.g ELSE old.g,
   b |-> IF colorEnable THEN new.b ELSE old.b]

InRectangle(p, rc) ==
  rc.left <= p[1] /\ p[1] < rc.right /\ rc.top <= p[2] /\ p[2] < rc.bottom

\* Renderer::ClearScreen: a scissored glClear under the colour, alpha and
\* depth masks, then ClearEFBCache().
ClearScreen(rc, colorEnable, alphaEnable, zEnable, color, z) ==
  /\ writes < MaxWrites
  /\ writes' = writes + 1
  /\ efbColor' = [p \in Pixels |-> IF InRectangle(p, rc)
                    THEN MaskedClear(efbColor[p], color, colorEnable, alphaEnable)
                    ELSE efbColor[p]]
  /\ efbDepth' = [p \in Pixels |-> IF InRectangle(p, rc) /\ zEnable
                    THEN z % 2^24 ELSE efbDepth[p]]
  /\ ClearEFBCache
  /\ lastPeek' = NoPeek
  /\ UNCHANGED efbCache

\* VertexManager::vFlush (outside this repository; spec 3 and 4.3): a draw
\* writes the EFB, then calls ClearEFBCache(). One pixel stands for the
\* primitives' coverage.
Draw(p, color, z) ==
  /\ writes < MaxWrites
  /\ writes' = writes + 1
  /\ efbColor' = [efbColor EXCEPT ![p] = color]
  /\ efbDepth' = [efbDepth EXCEPT ![p] = z]
  /\ ClearEFBCache
  /\ lastPeek' = NoPeek
  /\ UNCHANGED efbCache

\* Renderer::PokeEFB hands the points to FramebufferManager::PokeEFB, which
\* (spec 4.3) draws them as point geometry and then clears the EFB cache.
PokeEFB(type, p, data) ==
  /\ writes < MaxWrites
  /\ writes' = writes + 1
  /\ IF type = "PokeColor"
     THEN /\ efbColor' = [efbColor EXCEPT ![p] = data]
          /\ UNCHANGED efbDepth
     ELSE /\ efbDepth' = [efbDepth EXCEPT ![p] = data % 2^24]
          /\ UNCHANGED efbColor
  /\ ClearEFBCache
  /\ lastPeek' = NoPeek
  /\ UNCHANGED efbCache

\* Renderer::ReinterpretPixelData: convtype 0 and 2 run the
\* FramebufferManager's reinterpretation pass over every EFB colour; any
\* other convtype only logs an error. Neither path clears the EFB cache.
ReinterpretPixelData(convtype) ==
  /\ lastPeek' = NoPeek
  /\ UNCHANGED <<efbDepth, efbCache, efbCacheValid, efbCacheIsCleared>>
  /\ IF convtype \in {0, 2}
     THEN /\ writes < MaxWrites
          /\ writes' = writes + 1
          /\ efbColor' = [p \in Pixels |-> ReinterpretColor(convtype, efbColor[p])]
          /\ staleTiles' = {i \in Tiles : efbCacheValid[1][i]}
             ELSE UNCHANGED <<writes, efbColor, staleTiles>>

\* Renderer::SwapImpl ends by clearing the EFB cache for the next frame.
SwapImpl ==
  /\ ClearEFBCache
  /\ lastPeek' = NoPeek
  /\ UNCHANGED <<efbColor, efbDepth, efbCache, writes>>

Next ==
  \/ \E x \in 0 .. EFB_WIDTH - 1, y \in 0 .. EFB_HEIGHT - 1, fmt \in PeekFormats :
        \/ AccessEFB("PeekZ", x, y, fmt, 0)
        \/ \E mode \in ReadModes : AccessEFB("PeekColor", x, y, fmt, mode)
  \/ \E rc \in ClearRects, ce, ae, ze \in BOOLEAN, c \in ColorValues, z \in DepthValues :
        ClearScreen(rc, ce, ae, ze, c, z)
  \/ \E p \in Pixels, c \in ColorValues, z \in DepthValues : Draw(p, c, z)
  \/ \E p \in Pixels :
        \/ \E c \in ColorValues : PokeEFB("PokeColor", p, c)
        \/ \E z \in DepthValues : PokeEFB("PokeZ", p, z)
  \/ \E convtype \in ConvTypes : ReinterpretPixelData(convtype)
  \/ SwapImpl

Spec == Init /\ [][Next]_vars

\* The slots of a tile whose valid flag is down are never read: a fill
\* overwrites every slot a later peek of the tile reads. States differing
\* only there behave alike, so the model checker identifies them.
ObservableCache ==
  [t \in CacheTypes |-> [i \in Tiles |->
     IF efbCacheValid[t][i] THEN efbCache[t][i] ELSE <<>>]]

\* No action reads lastPeek, so an invariant over the other variables can
\* be checked with it left out as well.
CacheView == <<efbColor, efbDepth, ObservableCache, efbCacheValid, efbCacheIsCleared,
               writes, staleTiles>>

PeekView == <<CacheView, lastPeek>>

-----------------------------------------------------------------------------
(* Properties                                                              *)

TypeOK ==
  /\ efbColor \in [Pixels -> Colors]
  /\ efbDepth \in [Pixels -> 0 .. DepthOne]
  /\ DOMAIN efbCache = CacheTypes
  /\ efbCache[0] \in [Tiles -> [CacheSlots -> 0 .. MaxZ24]]
  /\ efbCache[1] \in [Tiles -> [CacheSlots -> Colors]]
  /\ efbCacheValid \in [CacheTypes -> [Tiles -> BOOLEAN]]
  /\ efbCacheIsCleared \in BOOLEAN
  /\ writes \in 0 .. MaxWrites
  /\ staleTiles \subseteq Tiles

\* The value the cache should hold for pixel p: the clamped depth, or the
\* colour as the read-back delivers it.
ReadBackOf(ct, p) == IF ct = 0 THEN ClampDepth(ReadValue(0, p)) ELSE ReadValue(1, p)

\* Every valid tile of s_efbCache holds, in the slot of each EFB pixel it
\* covers, what a read-back of that pixel would return now: every path that
\* writes the EFB (ClearScreen, draws, pokes) invalidates the tile, the
\* s_efbCacheIsCleared shortcut in ClearEFBCache never skips a needed
\* clear, and UpdateEFBCache's index arithmetic puts each texel in the
\* right slot. Colour tiles filled before a ReinterpretPixelData are
\* excluded: PeekSeesCurrentEFB fails for them (README).
CacheCoherent ==
  \A ct \in CacheTypes, idx \in Tiles :
    (efbCacheValid[ct][idx] /\ ~(ct = 1 /\ idx \in staleTiles)) =>
      LET tx == idx % EFB_CACHE_WIDTH
          ty == idx \div EFB_CACHE_WIDTH
      IN  \A p \in Pixels :
            (tx * EFB_CACHE_RECT_SIZE <= p[1] /\ p[1] < (tx + 1) * EFB_CACHE_RECT_SIZE
             /\ ty * EFB_CACHE_RECT_SIZE <= p[2] /\ p[2] < (ty + 1) * EFB_CACHE_RECT_SIZE)
            => efbCache[ct][idx][(p[2] - ty * EFB_CACHE_RECT_SIZE) * EFB_CACHE_RECT_SIZE
                                  + (p[1] - tx * EFB_CACHE_RECT_SIZE)] = ReadBackOf(ct, p)

\* AccessEFB with the cache implements uncached EFB access: every peek
\* returns the converted value the EFB holds at that pixel at that moment
\* (spec 3, invariant 3: the peek cache is never read across a write).
PeekSeesCurrentEFB == Access!Spec

=============================================================================
