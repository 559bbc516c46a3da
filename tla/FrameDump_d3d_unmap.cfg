\* D3D: FlushFrameDump unmaps readback texture [0] right after handing its
\* pointer to the FrameDumping thread.
CONSTANTS
  Backend = "D3D"
  Buffers = {b1, b2, b3, b4}
  NoBuffer = NoBuffer
  NoTexture = NoTexture
  Dims <- MCDimsWidth
  MaxFrames = 3
  MaxScreenshots = 0
  MaxToggles = 0
SPECIFICATION Spec
INVARIANT WorkerFrameIntact
