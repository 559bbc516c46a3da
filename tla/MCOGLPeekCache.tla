--------------------------- MODULE MCOGLPeekCache ---------------------------
(* Model values for OGLPeekCache: a 3x3 EFB in 2x2 tiles, so the four      *)
(* tiles are full, clipped on the right, clipped at the bottom, and both.  *)
EXTENDS OGLPeekCache

\* Alpha below 0xFF, red differing from blue, and low bits that the RGBA6
\* and RGB565 round trips drop.
MCColorA == [a |-> 128, r |-> 255, g |-> 33, b |-> 18]
MCColorB == [a |-> 255, r |-> 3, g |-> 200, b |-> 77]
MCColorValues == {MCColorA, MCColorB}

\* Two 24-bit depths; the EFB starts at the far plane 1.0, which a peek
\* clamps to 0xFFFFFF.
MCDepthValues == {0, 74565}

MCWholeEFB == [left |-> 0, top |-> 0, right |-> 3, bottom |-> 3]
MCInnerRect == [left |-> 1, top |-> 1, right |-> 2, bottom |-> 3]
MCClearRects == {MCWholeEFB, MCInnerRect}

MCPeekFormats == {"RGB8_Z24", "RGBA6_Z24", "RGB565_Z16"}
MCReadModes == {0, 1, 2}

=============================================================================
