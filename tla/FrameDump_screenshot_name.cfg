\* A second SaveScreenshot between the FrameDumping thread's TestAndClear
\* of the request and its taking m_screenshot_lock.
CONSTANTS
  Backend = "OGLPersistent"
  Buffers = {b1, b2, b3, b4}
  NoBuffer = NoBuffer
  NoTexture = NoTexture
  Dims <- MCDimsWidth
  MaxFrames = 2
  MaxScreenshots = 2
  MaxToggles = 0
SPECIFICATION Spec
INVARIANT ScreenshotHasName
