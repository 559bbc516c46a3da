\* GL driver with persistent staging buffers: the handoff between the video
\* and FrameDumping threads and the lifetime of the mapped readback buffers.
CONSTANTS
  Backend = "OGLPersistent"
  Buffers = {b1, b2, b3, b4}
  NoBuffer = NoBuffer
  NoTexture = NoTexture
  Dims <- MCDimsWidth
  MaxFrames = 4
  MaxScreenshots = 2
  MaxToggles = 2
SPECIFICATION Spec
INVARIANT WorkerFrameIntact
INVARIANT FramesTakenInOrder
SYMMETRY MCSymmetry
