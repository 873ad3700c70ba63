---------------------------- MODULE MCNvCharDev ----------------------------
(* Model checking of NvCharDev: the struct files are interchangeable.       *)
EXTENDS NvCharDev, TLC

FileSymmetry == Permutations(File)
=============================================================================
