--------------------------- MODULE MCEFBBackends ----------------------------
(* Model values for EFBBackends: the GL EFB 3x3 in 2x2 tiles (full and     *)
(* clipped tiles), the D3D EFB 2x2, both at twice the native resolution.   *)
EXTENDS EFBBackends

\* Alpha below 0xFF, red differing from blue, and low bits that the RGBA6
\* and RGB565 round trips drop.
MCColorA == [a |-> 128, r |-> 255, g |-> 33, b |-> 18]
MCColorB == [a |-> 255, r |-> 3, g |-> 200, b |-> 77]
MCColorValues == {MCColorA, MCColorB}

MCClearRects == {[left |-> 0, top |-> 0, right |-> 3, bottom |-> 3],
                 [left |-> 1, top |-> 1, right |-> 2, bottom |-> 3]}

\* One colour for the D3D behaviours: alpha below 0xFF, red and blue apart.
MCD3DColorValues == {MCColorA}

\* The bottom row of the D3D EFB: a clear that must miss the top row.
MCD3DClearRects == {[left |-> 0, top |-> 1, right |-> 2, bottom |-> 2]}

=============================================================================
