CONSTANTS
  EFB_WIDTH = 2
  EFB_HEIGHT = 2
  EFBScale = 2
  Device1 = FALSE
  ColorValues <- MCColorValues
  DepthValues = {74565}
  PeekFormats = {"RGB8_Z24"}
  ReadModes = {2}
  ConvTypes = {0}
  ClearRects <- MCClearRects
  MaxWrites = 2
SPECIFICATION Spec
INVARIANT HostDepthMatchesGX
