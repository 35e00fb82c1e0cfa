-------------------------- MODULE MCSecureByteArray --------------------------
\* Two arrays and four handles: two readers and two writers of one array, or handles on both.
\* The objects of a kind are interchangeable.
EXTENDS SecureByteArray, TLC

Symmetry == Permutations(Arrays) \cup Permutations(Handles) \cup Permutations(Blocks)
=============================================================================
