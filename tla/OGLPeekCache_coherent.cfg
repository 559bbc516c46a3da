CONSTANTS
  EFB_WIDTH = 3
  EFB_HEIGHT = 3
  EFB_CACHE_RECT_SIZE = 2
  EFBScale = 2
  GLES = FALSE
  ColorValues <- MCColorValues
  DepthValues = {74565}
  PeekFormats = {"RGB8_Z24"}
  ReadModes = {2}
  ConvTypes = {0, 1, 2}
  ClearRects <- MCClearRects
  MaxWrites = 2
SPECIFICATION Spec
INVARIANT TypeOK
INVARIANT CacheCoherent
VIEW CacheView
