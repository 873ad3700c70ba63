---------------------------- MODULE MCNvCharMisc ----------------------------
(* Model checking of NvCharMisc: the struct files are interchangeable.       *)
EXTENDS NvCharMisc, TLC

FileSymmetry == Permutations(File)
=============================================================================
