----------------------------- MODULE BlockStream -----------------------------
(***************************************************************************)
(* What iterBlocks promises to whoever iterates: the blocks from start on, *)
(* each once and in order, up to and without stop, and an end only there.  *)
(* Without a start the first block is one the provider chooses; without a  *)
(* stop the stream has no end.  Errors are answers of their own and move   *)
(* nothing.                                                                *)
(***************************************************************************)
EXTENDS Naturals

CONSTANT None

VARIABLES
    start, stop,    \* the IterOptions, fixed
    last,           \* the index of the last block delivered, or None
    ended           \* the consumer was told there is no more

vars == <<start, stop, last, ended>>

Init == last = None /\ ended = FALSE

BeforeStop(i) == stop = None \/ i < stop

Deliver ==
    /\ ~ended
    /\ last' \in Nat
    /\ BeforeStop(last')
    /\ IF last # None THEN last' = last + 1 ELSE start # None => last' = start
    /\ UNCHANGED <<start, stop, ended>>

End ==
    /\ stop # None
    /\ last # None => ~BeforeStop(last + 1)
    /\ last = None /\ start # None => ~BeforeStop(start)
    /\ ended' = TRUE
    /\ UNCHANGED <<start, stop, last>>

Next == Deliver \/ End

Spec == Init /\ [][Next]_vars
=============================================================================
