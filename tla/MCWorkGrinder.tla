--------------------------- MODULE MCWorkGrinder ---------------------------
EXTENDS WorkGrinder, TLC
ItemSymmetry == Permutations(Items)
=============================================================================
