---------------------------- MODULE MCFilesPool ----------------------------
(* Model-checking instance of FilesPool. Callers are interchangeable, and  *)
(* so are connections, in every invariant.                                 *)
EXTENDS FilesPool

Symmetry == Permutations(Workers) \cup Permutations(Conns)
=============================================================================
