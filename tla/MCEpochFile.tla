---------------------------- MODULE MCEpochFile ----------------------------
EXTENDS EpochFile, TLC

WriterSymmetry == Permutations(Writers)
=============================================================================
