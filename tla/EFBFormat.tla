----------------------------- MODULE EFBFormat ------------------------------
(***************************************************************************)
(* Pure operators on EFB pixel values shared by the backends' AccessEFB:   *)
(* the pixel-format conversions applied to a peeked colour or depth, the   *)
(* GX_PokeAlphaRead policy, the clamp of a depth read back as a float, the *)
(* R/B swap of a GLES read-back, and the pixel-reinterpretation shaders.   *)
(*                                                                         *)
(* A colour is the guest's 32-bit A8R8G8B8 value, kept as its four bytes   *)
(* [a, r, g, b]: TLC's integers are signed 32-bit, so a u32 with alpha >=  *)
(* 0x80 is not a number it can hold. Every 32-bit mask of the code is      *)
(* translated to what it does to each byte.                                *)
(* A depth is the number d standing for the float d / 2^24 in [0, 1], so   *)
(* 2^24 is the far plane 1.0 and the 24-bit integers are exact.            *)
(***************************************************************************)
EXTENDS Naturals, Bitwise

\* PEControl::PixelFormat values of bpmem.zcontrol.pixel_format.
PixelFormats == {"RGB8_Z24", "RGBA6_Z24", "RGB565_Z16", "Z24"}

\* PixelEngine::UPEAlphaReadReg::ReadMode is a 2-bit field.
AlphaReadModes == 0..3

Bytes == 0..255

Colors == [a: Bytes, r: Bytes, g: Bytes, b: Bytes]

\* Far plane 1.0 as a depth value.
DepthOne == 2^24

MaxZ24 == 2^24 - 1

-----------------------------------------------------------------------------
(* Format round trips applied to a colour read from the RGBA8 EFB.         *)

\* color &= 0xFCFCFCFC; color |= (color >> 6) & 0x03030303: every byte
\* keeps its top six bits and repeats its top two below them.
RGBA8ToRGBA6ToRGBA8(c) ==
  LET six(x) == (x & 252) | shiftR(x & 252, 6)
  IN  [a |-> six(c.a), r |-> six(c.r), g |-> six(c.g), b |-> six(c.b)]

\* color &= 0xF8FCF8; color |= (color >> 5) & 0x070007;
\* color |= (color >> 6) & 0x000300; color |= 0xFF000000: R and B keep five
\* bits, G six, each refilled from its own top bits, alpha 0xFF.
RGBA8ToRGB565ToRGBA8(c) ==
  LET five(x) == (x & 248) | shiftR(x & 248, 5)
      six(x)  == (x & 252) | shiftR(x & 252, 6)
  IN  [a |-> 255, r |-> five(c.r), g |-> six(c.g), b |-> five(c.b)]

\* The tail of AccessEFB's PeekColor case: the format round trip, alpha
\* forced to 0xFF unless the format has alpha, then GX_PokeAlphaRead
\* (2: GX_READ_NONE, 1: GX_READ_FF, otherwise GX_READ_00).
PeekColorValue(color, fmt, mode) ==
  LET conv   == CASE fmt = "RGBA6_Z24"  -> RGBA8ToRGBA6ToRGBA8(color)
                  [] fmt = "RGB565_Z16" -> RGBA8ToRGB565ToRGBA8(color)
                  [] OTHER              -> color
      opaque == IF fmt # "RGBA6_Z24" THEN [conv EXCEPT !.a = 255] ELSE conv
  IN  CASE mode = 2 -> opaque
        [] mode = 1 -> [opaque EXCEPT !.a = 255]
        [] OTHER    -> [opaque EXCEPT !.a = 0]

\* UpdateEFBCache stores Clamp<u32>((u32)(depth * 16777216.0f), 0, 0xFFFFFF).
ClampDepth(d) == IF d > MaxZ24 THEN MaxZ24 ELSE d

\* The tail of AccessEFB's PeekZ case: a 16-bit Z format returns z >> 8.
PeekZValue(z, fmt) == IF fmt = "RGB565_Z16" THEN shiftR(z, 8) ELSE z

\* glReadPixels(GL_RGBA, GL_UNSIGNED_BYTE) into a little-endian u32 puts R
\* in the low byte and B in bits 16..23: A8B8G8R8 read as A8R8G8B8.
SwapRB(c) == [c EXCEPT !.r = c.b, !.b = c.r]

-----------------------------------------------------------------------------
(* FramebufferManager::ReinterpretPixelData: a full-screen pass re-reading *)
(* the bits of every EFB colour in another layout. The shaders normalise   *)
(* 6-bit channels by 63 and 8-bit ones by 255; the RGBA8 target rounds.    *)

Expand6(v) == (v * 255 + 31) \div 63

Quantise6(x) == (x * 63 + 127) \div 255

\* convtype 0: RGB8 -> RGBA6.
ReinterpRGB8ToRGBA6(c) ==
  [a |-> Expand6(c.b % 64), r |-> Expand6(c.r \div 4),
   g |-> Expand6((c.r % 4) * 16 + c.g \div 16),
   b |-> Expand6((c.g % 16) * 4 + c.b \div 64)]

\* convtype 2: RGBA6 -> RGB8.
ReinterpRGBA6ToRGB8(c) ==
  LET r == Quantise6(c.r)  g == Quantise6(c.g)
      b == Quantise6(c.b)  a == Quantise6(c.a)
  IN  [a |-> 255, r |-> r * 4 + g \div 16,
       g |-> (g % 16) * 16 + b \div 4, b |-> (b % 4) * 64 + a]

ReinterpretColor(convtype, c) ==
  IF convtype = 0 THEN ReinterpRGB8ToRGBA6(c) ELSE ReinterpRGBA6ToRGB8(c)

=============================================================================
