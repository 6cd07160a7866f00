------------------------------- MODULE MCPointer --------------------------------
\* The instance of Pointer that TLC checks: buffers and cache indexes are
\* interchangeable.
EXTENDS Pointer, TLC

PointerSymmetry == Permutations(Cells) \cup Permutations(Slots)
=============================================================================
