--------------------------- MODULE MC_MinerDriver ---------------------------
(* Model-checking instance of MinerDriver; the constants are set by the    *)
(* .cfg files.                                                             *)
EXTENDS MinerDriver

=============================================================================
