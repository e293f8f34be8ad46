---------------------------- MODULE MCFilesystem ----------------------------
(* Filesystem with few names and contents, which are interchangeable.        *)
EXTENDS Filesystem, TLC

Interchangeable == Permutations(Names) \cup Permutations(Data)
=============================================================================
