--------------------------- MODULE MCConsensusDriver ---------------------------
(***************************************************************************)
(* Values for the constants of ConsensusDriver.  Two drivers are enough to *)
(* meet in one queue; the events of two calls can wait behind a third.     *)
(***************************************************************************)
EXTENDS ConsensusDriver

CONSTANTS c1, c2
=============================================================================
