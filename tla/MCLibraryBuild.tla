--------------------------- MODULE MCLibraryBuild ---------------------------
(* Instances of LibraryBuild. *)
EXTENDS LibraryBuild, TLC
CONSTANTS w1, w2, c1, c2, a1, a2

MCFound == <<a1, a1, a2>>
=============================================================================
