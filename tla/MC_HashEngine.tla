--------------------------- MODULE MC_HashEngine ---------------------------
(* Model-checking instance of HashEngine; the constants are set by the     *)
(* .cfg files.                                                             *)
EXTENDS HashEngine

=============================================================================
