--------------------------- MODULE MCPresentation ---------------------------
(* Three window sizes, one of them a few pixels tall (a window dragged     *)
(* almost shut); a 640x480 XFB, which differs from the initial last-XFB    *)
(* size 720x576, and a zero-width one; the GameCube aspect heuristic.      *)
(* For the target coordinates: a full-EFB viewport, one with a negative    *)
(* width, one reaching left of the EFB, and a zero one; the bbox reset     *)
(* values games write and an ordinary box, with a draw that extends it on  *)
(* every side but the right; a format with and one without alpha.          *)
EXTENDS TargetCoordinates

MCVIAspect == [num |-> 4, den |-> 3]
MCWindowSizes == {<<640, 480>>, <<1280, 720>>, <<160, 2>>}
MCXfbs == {[width |-> 640, stride |-> 640, height |-> 480],
           [width |-> 0, stride |-> 640, height |-> 480]}
MCFlushCounts == {<<4, 0>>, <<0, 4>>}
MCViewport(xOrig, yOrig, wd, ht) ==
    [xOrig |-> xOrig, yOrig |-> yOrig, wd |-> wd, ht |-> ht, sx |-> 171, sy |-> 171]
MCViewports == {MCViewport(662, 606, 320, -264), MCViewport(500, 500, -50, 64),
                MCViewport(352, 406, 40, 64), MCViewport(662, 606, 0, -264)}
MCRect(l, t, r, b) == [left |-> l, top |-> t, right |-> r, bottom |-> b]
MCScissorRects == {MCRect(10, 20, 630, 500)}
MCBBoxWrites == {<<1023, 0, 1023, 0>>, <<100, 200, 50, 150>>}
MCBBoxDraws == {MCRect(60, 30, 150, 190)}
MCClearRects == {MCRect(0, 0, 640, 528)}

\* Every byte pattern the swap and the RGBA6 and RGB565 round trips tell
\* apart: zero, low bits only, top bits only, all ones.
MCVulkanBytes == {0, 3, 130, 255}
MCVulkanPokeColors == [a: {130, 255}, r: MCVulkanBytes, g: {3, 255}, b: MCVulkanBytes]

\* Near plane, the smallest steps, a 16-bit boundary, the midpoint whose
\* inversion is exact only by a margin, the far plane, and a u32 with bits
\* above the 24 the poke masks off.
MCVulkanPokeDepths == {0, 1, 255, 256, 2^23, 2^23 + 1, 2^24 - 1, 2^24 + 77, 2147483647}

\* Both ends of the depth range, 0 being 1.0 once AccessEFB inverts it.
MCVulkanStoredDepths == {0, 1, 256, 2^23, 2^24 - 1, 2^24}

VK == INSTANCE VulkanEFBAccess WITH VulkanPokeColors <- MCVulkanPokeColors,
                                   VulkanPokeDepths <- MCVulkanPokeDepths,
                                   VulkanStoredDepths <- MCVulkanStoredDepths

\* On the Vulkan backend, peeking a pixel just poked returns what was poked
\* through the pixel format and alpha-read policy, and a depth peek agrees
\* with OGL's whatever the EFB holds (VulkanEFBAccess states it in full).
VulkanPokeThenPeekRoundTrips == backend = "Vulkan" => VK!PokeThenPeekRoundTrips

====
