---------------------------- MODULE MCFileVault ----------------------------
EXTENDS FileVault, TLC

MCSymmetry == Permutations(Threads)
=============================================================================
