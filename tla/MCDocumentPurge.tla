--------------------------- MODULE MCDocumentPurge --------------------------
(* Instances of DocumentPurge.                                              *)
EXTENDS DocumentPurge
=============================================================================
