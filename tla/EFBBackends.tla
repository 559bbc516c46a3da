---------------------------- MODULE EFBBackends -----------------------------
(***************************************************************************)
(* The EFB access of the two modelled backends side by side: a behaviour   *)
(* runs the OpenGL renderer (OGLPeekCache) or the Direct3D 11 renderer     *)
(* (D3DEFB), chosen once when the video backend is initialised, and both   *)
(* are checked against the one uncached contract EFBAccess. Each backend   *)
(* keeps its own bounds; the D3D renderer's EFB is a smaller one.          *)
(***************************************************************************)
EXTENDS EFBFormat

CONSTANTS
  EFB_WIDTH, EFB_HEIGHT, EFB_CACHE_RECT_SIZE, EFBScale, GLES, ColorValues,
  DepthValues, PeekFormats, ReadModes, ConvTypes, ClearRects, MaxWrites,
  D3D_WIDTH, D3D_HEIGHT,          \* the EFB of the D3D behaviours
  D3DColorValues,                 \* colours D3D draws, clears and pokes write
  D3DPeekFormats, D3DReadModes,   \* what a D3D peek may see
  D3DConvTypes, D3DClearRects, D3DMaxWrites,
  Device1                         \* D3D::device1 exists (D3D 11.1)

VARIABLES
  backend,
  efbColor, efbDepth, efbCache, efbCacheValid, efbCacheIsCleared, staleTiles,
  colorTex, depthTex, depthBound, integerRT, gxDepth,
  lastPeek, writes

oglOnly == <<efbColor, efbDepth, efbCache, efbCacheValid, efbCacheIsCleared, staleTiles>>
d3dOnly == <<colorTex, depthTex, depthBound, integerRT, gxDepth>>
vars == <<backend, oglOnly, d3dOnly, lastPeek, writes>>

OGL == INSTANCE OGLPeekCache

D3D == INSTANCE D3DEFB
         WITH EFB_WIDTH <- D3D_WIDTH, EFB_HEIGHT <- D3D_HEIGHT,
              ColorValues <- D3DColorValues, PeekFormats <- D3DPeekFormats,
              ReadModes <- D3DReadModes,
              ConvTypes <- D3DConvTypes, ClearRects <- D3DClearRects,
              MaxWrites <- D3DMaxWrites

Init ==
  /\ backend \in {"OGL", "D3D"}
  /\ OGL!Init
  /\ D3D!Init

Next ==
  \/ backend = "OGL" /\ OGL!Next /\ UNCHANGED <<backend, d3dOnly>>
  \/ backend = "D3D" /\ D3D!Next /\ UNCHANGED <<backend, oglOnly>>

Spec == Init /\ [][Next]_vars

\* Each backend's unobservable state left out, as in its own module. The
\* other backend's variables keep their initial values.
BackendView ==
  IF backend = "OGL" THEN <<backend, OGL!PeekView, d3dOnly>>
  ELSE <<backend, d3dOnly, lastPeek, writes, oglOnly>>

ASSUME D3D_WIDTH <= EFB_WIDTH /\ D3D_HEIGHT <= EFB_HEIGHT

\* The guest's view of the D3D targets, on the EFB of the contract: pixels
\* beyond the D3D behaviours' EFB are never written or peeked there.
D3DColorView ==
  [p \in OGL!Pixels |-> IF p \in D3D!Pixels THEN colorTex[p]
                       ELSE [a |-> 0, r |-> 0, g |-> 0, b |-> 0]]
D3DDepthView ==
  [p \in OGL!Pixels |-> IF p \in D3D!Pixels THEN DepthOne - depthTex[p] ELSE DepthOne]

\* The uncached EFB each backend presents to the command processor.
Access == INSTANCE EFBAccess
            WITH efbColor <- IF backend = "OGL" THEN efbColor ELSE D3DColorView,
                 efbDepth <- IF backend = "OGL" THEN efbDepth ELSE D3DDepthView

-----------------------------------------------------------------------------
(* Properties                                                              *)

TypeOK ==
  /\ backend \in {"OGL", "D3D"}
  /\ IF backend = "OGL" THEN OGL!TypeOK ELSE D3D!TypeOK

\* On either backend, every AccessEFB peek returns the converted value the
\* EFB holds at that pixel at that moment: the GL peek cache is never read
\* across a write, and D3D's centre-texel read, R/B swap and depth
\* inversion undo how its targets store the guest's values.
PeekSeesCurrentEFB == Access!Spec

=============================================================================
