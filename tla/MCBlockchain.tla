----------------------------- MODULE MCBlockchain -----------------------------
(***************************************************************************)
(* Values for the constants of Blockchain.  Three calls let one block be   *)
(* written while a later one waits and a duplicate arrives; the run that   *)
(* also checks liveness, without symmetry, has two.                        *)
(***************************************************************************)
EXTENDS Blockchain, TLC

CONSTANTS c1, c2, c3

\* Genesis emits actions too; a block with none is the case first > last.
MCActs == [h \in 0..MaxHeight |-> IF h = 1 THEN 0 ELSE 2]

\* Calls are interchangeable: nothing compares or orders them.
Symmetry == Permutations({c1, c2, c3} \cap Calls)
=============================================================================
