\* Every frame handed to the FrameDumping thread is picked up, and the
\* video thread returns from every Swap and from ShutdownFrameDumping,
\* with GL staging buffers that are mapped on demand (so Map can fail).
\* No symmetry: the properties are temporal.
CONSTANTS
  Backend = "OGLMapped"
  Buffers = {b1, b2, b3}
  NoBuffer = NoBuffer
  NoTexture = NoTexture
  Dims <- MCDimsWidth
  MaxFrames = 3
  MaxScreenshots = 1
  MaxToggles = 1
SPECIFICATION Spec
PROPERTY EveryFrameEncoded
PROPERTY VideoThreadReturns
