------------------------ MODULE MC_NodeGapcoinMiner ------------------------
(* Model-checking instance of NodeGapcoinMiner; the constants are set by   *)
(* the .cfg files.                                                         *)
EXTENDS NodeGapcoinMiner

=============================================================================
