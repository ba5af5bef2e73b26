--------------------------- MODULE MC_NonceSpace ---------------------------
(* Model-checking instance of NonceSpace; the constants are set by the     *)
(* .cfg files.                                                             *)
EXTENDS NonceSpace

=============================================================================
