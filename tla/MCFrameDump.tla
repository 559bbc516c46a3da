---------------------------- MODULE MCFrameDump ----------------------------
(* Model-checking instance of FrameDump: the target sizes are records,     *)
(* which a .cfg cannot write.                                              *)
EXTENDS FrameDump, TLC

\* Two target sizes that differ in width only: the readback textures are
\* recreated when the size changes and the render texture test on the
\* width is exercised.
MCDimsWidth == {[w |-> 1, h |-> 1], [w |-> 2, h |-> 1]}

\* Two target sizes that differ in height only.
MCDimsHeight == {[w |-> 1, h |-> 1], [w |-> 1, h |-> 2]}

\* Staging texture objects are interchangeable (safety runs only).
MCSymmetry == Permutations(Buffers)

=============================================================================
