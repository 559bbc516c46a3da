CONSTANTS
  EFB_WIDTH = 3
  EFB_HEIGHT = 3
  EFB_CACHE_RECT_SIZE = 2
  EFBScale = 2
  Device1 = TRUE
  GLES = FALSE
  ColorValues <- MCColorValues
  DepthValues = {74565}
  PeekFormats = {"RGB8_Z24"}
  ReadModes = {2}
  ConvTypes = {1, 3}
  ClearRects <- MCClearRects
  MaxWrites = 1
  D3D_WIDTH = 2
  D3D_HEIGHT = 2
  D3DColorValues <- MCD3DColorValues
  D3DPeekFormats = {"RGB8_Z24", "RGB565_Z16"}
  D3DReadModes = {0, 2}
  D3DConvTypes = {0, 3}
  D3DClearRects <- MCD3DClearRects
  D3DMaxWrites = 2
SPECIFICATION Spec
VIEW BackendView
PROPERTY PeekSeesCurrentEFB
