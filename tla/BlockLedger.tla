----------------------------- MODULE BlockLedger ------------------------------
(***************************************************************************)
(* What the persist pipeline promises its readers: a ledger that grows by  *)
(* one whole block at a time.  A block's records are all there from the    *)
(* step that makes it the current block, numbered on from its              *)
(* predecessor's, and nothing but a reset takes a block away.              *)
(***************************************************************************)
EXTENDS Integers

CONSTANTS MaxHeight, Acts, NoLog

VARIABLES
    top,        \* height of the current block, -1 before genesis
    log         \* the range of global action indexes of each block

Empty == [h \in 0..MaxHeight |-> NoLog]

Init == top = -1 /\ log = Empty

\* The index of the last action before block h.
LastBefore(h) == IF h = 0 THEN -1 ELSE log[h - 1].last

Append ==
    /\ top < MaxHeight
    /\ top' = top + 1
    /\ log' = [log EXCEPT ![top + 1] =
                  [first |-> LastBefore(top + 1) + 1,
                   last |-> LastBefore(top + 1) + Acts[top + 1]]]

Clear == top' = -1 /\ log' = Empty

Next == Append \/ Clear

Spec == Init /\ [][Next]_<<top, log>>
=============================================================================
