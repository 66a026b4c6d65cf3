--------------------------- MODULE MCBlockIterator ---------------------------
(***************************************************************************)
(* Values for the constants of BlockIterator: starts before, at and beyond *)
(* the chain's end, two blocks to a batch, a queue that three batches do   *)
(* not fit.                                                                *)
(***************************************************************************)
EXTENDS BlockIterator

MCStarts == {None, 0, 1}
MCStops == {None, 0, 4}
=============================================================================
