--------------------------- MODULE VulkanEFBAccess ---------------------------
(***************************************************************************)
(* The Vulkan backend's AccessEFB and PokeEFB: the conversions between the *)
(* guest's peek and poke values and what Vulkan's FramebufferManager holds *)
(* in its EFB.  The colour target is RGBA8 read as a little-endian u32 (R  *)
(* in the low byte); the depth target holds 1 - z, inverted for precision  *)
(* near the far plane, and is read back as that float.                     *)
(*                                                                         *)
(* Values follow EFBFormat: a colour is its four bytes, a depth d stands   *)
(* for the float d / 2^24.  The floats the code computes are exact here:   *)
(* 1 - z / 2^24 for a 24-bit z, and its products by 2^16 and 2^24, have at *)
(* most 24 significant bits, so the only rounding is the truncating cast.  *)
(***************************************************************************)
EXTENDS EFBFormat

CONSTANTS
    VulkanPokeColors,   \* guest colours poked, A8R8G8B8
    VulkanPokeDepths,   \* u32 poke data for a depth poke
    VulkanStoredDepths  \* depths the EFB can hold, 0 .. DepthOne

\* MathUtil::Clamp<u32>(v, 0, hi) of a non-negative value.
Clamp(v, hi) == IF v > hi THEN hi ELSE v

\* PokeEFB, PokeColor: BGRA -> RGBA, then FramebufferManager::PokeEFBColor
\* stores the value as the texel.
VulkanPokeColor(data) == SwapRB(data)

\* AccessEFB, PeekColor: the texel read by PeekEFBColor swapped back to
\* A8R8G8B8, then the format round trip and GX_PokeAlphaRead.
VulkanPeekColor(texel, fmt, mode) == PeekColorValue(SwapRB(texel), fmt, mode)

\* Mutant: PokeEFB storing the depth without the inversion.
VulkanPokeZUninverted(data) == data % DepthOne

\* PokeEFB, PokeZ: depth = 1 - (data & 0xFFFFFF) / 2^24.
VulkanPokeZ(data) == DepthOne - (data % DepthOne)

\* AccessEFB, PeekZ: depth = 1 - PeekEFBDepth; a 16-bit Z format returns
\* (u32)(depth * 65536) clamped to 0xFFFF, the others (u32)(depth * 2^24)
\* clamped to 0xFFFFFF.
VulkanPeekZ(stored, fmt) ==
    LET depth == DepthOne - stored
    IN  IF fmt = "RGB565_Z16" THEN Clamp(depth \div 256, 65535) ELSE Clamp(depth, MaxZ24)

-----------------------------------------------------------------------------
\* Peeking a pixel just poked returns what was poked, through the pixel
\* format's conversion and the alpha-read policy, as OGL's AccessEFB
\* computes it (spec: peek/poke consistency): Vulkan's R/B swap on poke and
\* on peek cancel, and its depth inversion in PokeEFB is undone by the one
\* in AccessEFB.  And whatever depth the EFB holds, from 0 to 1.0 inclusive,
\* Vulkan's Z16 peek of depth * 65536 agrees with OGL's
\* 24-bit clamp shifted right by 8.
PokeThenPeekRoundTrips ==
    /\ \A c \in VulkanPokeColors, fmt \in PixelFormats, mode \in AlphaReadModes :
          VulkanPeekColor(VulkanPokeColor(c), fmt, mode) = PeekColorValue(c, fmt, mode)
    /\ \A z \in VulkanPokeDepths, fmt \in PixelFormats :
          VulkanPeekZ(VulkanPokeZ(z), fmt) = PeekZValue(z % DepthOne, fmt)
    /\ \A d \in VulkanStoredDepths, fmt \in PixelFormats :
          VulkanPeekZ(d, fmt) = PeekZValue(ClampDepth(DepthOne - d), fmt)

==============================================================================
