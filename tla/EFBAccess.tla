----------------------------- MODULE EFBAccess ------------------------------
(***************************************************************************)
(* What Renderer::AccessEFB promises the command processor, with no cache: *)
(* a peek of pixel (x, y) returns the value the EFB holds there at that    *)
(* moment, converted for the current pixel format and, for colour, the     *)
(* GX_PokeAlphaRead mode. Anything else the renderer does may change the  *)
(* EFB arbitrarily but returns no peek.                                    *)
(*                                                                         *)
(* lastPeek is the request and result of the most recent call when that   *)
(* call was a peek, and NoPeek otherwise.                                  *)
(***************************************************************************)
EXTENDS EFBFormat

CONSTANTS EFB_WIDTH, EFB_HEIGHT

VARIABLES efbColor, efbDepth, lastPeek

Pixels == (0 .. EFB_WIDTH - 1) \X (0 .. EFB_HEIGHT - 1)

PeekTypes == {"PeekZ", "PeekColor"}

NoPeek == [type |-> "none"]

\* The value a peek must return for the current EFB contents.
PeekResult(type, x, y, fmt, mode) ==
  IF type = "PeekZ"
  THEN PeekZValue(ClampDepth(efbDepth[<<x, y>>]), fmt)
  ELSE PeekColorValue(efbColor[<<x, y>>], fmt, mode)

Peek(type, x, y, fmt, mode) ==
  /\ lastPeek' # NoPeek
  /\ lastPeek'.type = type /\ lastPeek'.x = x /\ lastPeek'.y = y
  /\ lastPeek'.fmt = fmt /\ lastPeek'.mode = mode
  /\ lastPeek'.value = PeekResult(type, x, y, fmt, mode)
  /\ UNCHANGED <<efbColor, efbDepth>>

\* A draw, clear, poke, reinterpretation or swap.
Write ==
  /\ lastPeek' = NoPeek
  /\ efbColor' \in [Pixels -> Colors]
  /\ efbDepth' \in [Pixels -> 0 .. DepthOne]

Init ==
  /\ efbColor \in [Pixels -> Colors]
  /\ efbDepth \in [Pixels -> 0 .. DepthOne]
  /\ lastPeek = NoPeek

Next ==
  \/ Write
  \/ \E type \in PeekTypes, x \in 0 .. EFB_WIDTH - 1, y \in 0 .. EFB_HEIGHT - 1,
        fmt \in PixelFormats, mode \in AlphaReadModes : Peek(type, x, y, fmt, mode)

Spec == Init /\ [][Next]_<<efbColor, efbDepth, lastPeek>>

=============================================================================
