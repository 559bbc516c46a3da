CONSTANTS
    EFB_WIDTH = 640
    EFB_HEIGHT = 528
    MAX_XFB_WIDTH = 720
    MAX_XFB_HEIGHT = 576
    MaxTextureSize = 8192
    VIAspect <- MCVIAspect
    Wii = FALSE
    Backends = {"OGL", "D3D", "Vulkan"}
    ScaleSettings = {0, 2}
    AspectModes = {"Auto", "AnalogWide", "Analog", "Stretch"}
    WindowSizes <- MCWindowSizes
    Xfbs <- MCXfbs
    FlushCounts <- MCFlushCounts
    MaxResizes = 1
    MaxConfigChanges = 1
    Viewports <- MCViewports
    ScissorRects <- MCScissorRects
    BBoxWrites <- MCBBoxWrites
    BBoxDraws <- MCBBoxDraws
    NoDraw = NoDraw
    ClearRects <- MCClearRects
    PixelFormats = {"RGBA6_Z24", "RGB8_Z24"}
    NoViewport = NoViewport
SPECIFICATION Spec
INVARIANT TypeOK
INVARIANT EFBMatchesTargetSize
INVARIANT DrawRectangleCentred
INVARIANT RasterRegionsMatchGX
INVARIANT BBoxReadsWrittenUnionDrawn
INVARIANT VulkanClearWritesRequested
INVARIANT StereoEyesInTheirHalves
INVARIANT VulkanPokeThenPeekRoundTrips
