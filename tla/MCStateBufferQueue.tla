------------------------- MODULE MCStateBufferQueue -------------------------
EXTENDS StateBufferQueue, TLC

Symmetry == Permutations(Envs)
=============================================================================
