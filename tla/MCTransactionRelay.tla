-------------------------- MODULE MCTransactionRelay --------------------------
(***************************************************************************)
(* Two transactions of one sender, who can pay for one of them or for both *)
(* but not also for the payment that the second one makes, and the first   *)
(* one may be too large for any block.  The client sends it twice when its *)
(* answer is lost.                                                         *)
(***************************************************************************)
EXTENDS TransactionRelay, TLC

CONSTANTS t1, t2, alice, bob

MCSenderOf == t1 :> alice @@ t2 :> alice
MCPaysTo == t1 :> alice @@ t2 :> bob
MCAttempts == t1 :> 2 @@ t2 :> 1
MCSettings ==
    {[funds |-> alice :> n @@ bob :> 0, oversized |-> {}] : n \in {1, 2}}
    \cup {[funds |-> alice :> 2 @@ bob :> 0, oversized |-> {t1}]}
=============================================================================
