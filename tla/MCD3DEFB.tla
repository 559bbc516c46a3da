------------------------------ MODULE MCD3DEFB ------------------------------
(* Model values for D3DEFB: a 2x2 EFB at twice the native resolution.     *)
EXTENDS D3DEFB

\* Alpha below 0xFF and red differing from blue.
MCColorValues == {[a |-> 128, r |-> 255, g |-> 33, b |-> 18]}

MCWholeEFB == [left |-> 0, top |-> 0, right |-> 2, bottom |-> 2]
MCClearRects == {MCWholeEFB}

=============================================================================
