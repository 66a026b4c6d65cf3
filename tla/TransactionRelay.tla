--------------------------- MODULE TransactionRelay ---------------------------
(***************************************************************************)
(* The life of a transaction on a private network of one validator: the    *)
(* client that relays it and repeats a request whose answer got lost, the  *)
(* node's relayTransaction with its memory pool, its set of known hashes   *)
(* and its verification context, the consensus run that makes a block of   *)
(* the pool, persistBlock, and the RPC method "reset".                     *)
(*                                                                         *)
(* Every await is the end of a step.  A fee is one unit.  Left out: the    *)
(* peers, the false positives of the Bloom filter that stands for `known`, *)
(* and the reasons of a refusal other than the sender's balance.           *)
(***************************************************************************)
EXTENDS Naturals, FiniteSets, Sequences

CONSTANTS
    Tx,             \* transactions
    Senders,        \* accounts that pay for them
    SenderOf,       \* tx.sender
    PaysTo,         \* whom the script of a transaction pays one unit: its own
                    \* sender stands for a script that pays nobody
    Settings,       \* blockchain.settings: the balances of the genesis block,
                    \* and the transactions that alone exceed a block's limits
    BlockTx,        \* most transactions that fit in one block
    PoolSize,       \* MEM_POOL_SIZE
    Attempts,       \* how often the client sends each transaction
    MaxResets       \* bound: resets

ASSUME ConstantsAssumption ==
    /\ SenderOf \in [Tx -> Senders]
    /\ PaysTo \in [Tx -> Senders]
    /\ Settings \subseteq [funds : [Senders -> Nat], oversized : SUBSET Tx]
    /\ BlockTx \in Nat \ {0}
    /\ PoolSize \in Nat
    /\ Attempts \in [Tx -> Nat \ {0}]
    /\ MaxResets \in Nat

VARIABLES
    setting,        \* the settings, which never change
    ledger,         \* the transactions of each block that has any
    balance,        \* the store's GAS balances
    pool,           \* mutableMemPool: each transaction's place in the order of
                    \* insertion, counted from 1
    known, temp,    \* mutableKnownTransactionHashes, tempKnownTransactionHashes
    fees,           \* mutableSenderFee of transactionVerificationContext
    call,           \* each relaytransaction request at the node
    client,         \* each transaction's sendTransaction
    proposal,       \* the run of consensus
    reset, resets,  \* the RPC method "reset"
    doubtful        \* history: see Doubt

chain == <<setting, ledger, balance>>
node == <<pool, known, temp, fees>>
control == <<reset, resets>>
vars == <<chain, node, call, client, proposal, control, doubtful>>

Calls == UNION {{t} \X (1..Attempts[t]) : t \in Tx}
Under == {"finding", "verifying", "reading", "checking", "signing"}
Answers == {"known", "accepted", "refused", "failed"}

OnChain == UNION {ledger[i] : i \in DOMAIN ledger}
Pooled == DOMAIN pool
Relayed == {t \in Tx : \E n \in 1..Attempts[t] : call[<<t, n>>].pc # "idle"}

\* The memory pool with nothing in it.
Empty == [t \in {} |-> 0]

At(pc) == [pc |-> pc, seen |-> 0, counted |-> 0]

\* Every client has sent its transaction: it arrives at any time.
Init ==
    /\ ledger = <<>>
    /\ setting \in Settings
    /\ balance = setting.funds
    /\ pool = Empty /\ known = {} /\ temp = {}
    /\ fees = [s \in Senders |-> 0]
    /\ call = [c \in Calls |-> At("idle")]
    /\ client = [t \in Tx |-> [pc |-> "waiting", n |-> 1]]
    /\ proposal = [pc |-> "idle", txs |-> {}]
    /\ reset = "none" /\ resets = 0
    /\ doubtful = {}

\* What the properties cannot be asked of: a transaction relayed before the
\* last reset, or trimmed, or accepted although another one of its sender had
\* been accepted since its fees were checked.
Doubt(S) == doubtful' = doubtful \cup S

-----------------------------------------------------------------------------
(* The client. *)

\* No verifyResult is taken for a success.
Told(t) ==
    LET answer == call[<<t, client[t].n>>].pc
    IN  /\ client[t].pc = "waiting"
        /\ answer \in Answers
        /\ client' = [client EXCEPT ![t].pc =
                          IF answer \in {"known", "accepted"} THEN "ok" ELSE "failed"]
        /\ UNCHANGED <<chain, node, call, proposal, control, doubtful>>

\* Defect: one try more than there are.
TriesTooOften(t) == client[t].n <= Attempts[t]

TriesAgain(t) == client[t].n < Attempts[t]

\* The request or its answer is lost or late: it is sent again.
GiveUp(t) ==
    /\ client[t].pc = "waiting"
    /\ client' = IF TriesAgain(t) THEN [client EXCEPT ![t].n = @ + 1]
                 ELSE [client EXCEPT ![t].pc = "failed"]
    /\ UNCHANGED <<chain, node, call, proposal, control, doubtful>>

-----------------------------------------------------------------------------
(* relayTransaction. *)

Enter(c, pc) == call' = [call EXCEPT ![c] = At(pc)]

\* The end of a relay that threw nothing, and the `finally`.
Finish(c, answer) ==
    /\ Enter(c, answer)
    /\ known' = known \cup {c[1]}
    /\ temp' = temp \ {c[1]}

\* Defect: a relay of the same transaction may be under way.
SeenOnlyKnown(t) == t \in known

Seen(t) == t \in temp \cup known

\* A request arrives, perhaps after the client has given it up.
Receive(c) ==
    /\ call[c].pc = "idle"
    /\ client[c[1]].n >= c[2]
    /\ \/ /\ Seen(c[1])
          /\ Enter(c, "known")
          /\ UNCHANGED temp
       \/ /\ ~Seen(c[1])
          /\ Enter(c, "finding")
          /\ temp' = temp \cup {c[1]}
    /\ UNCHANGED <<chain, pool, known, fees, client, proposal, control, doubtful>>

Find(c) ==
    /\ call[c].pc = "finding"
    /\ \/ c[1] \in OnChain /\ Finish(c, "known")
       \/ c[1] \notin OnChain /\ Enter(c, "verifying") /\ UNCHANGED <<known, temp>>
    /\ UNCHANGED <<chain, pool, fees, client, proposal, control, doubtful>>

\* containsTransactionInternal.
Lookup(c) ==
    /\ call[c].pc = "verifying"
    /\ \/ c[1] \in OnChain \cup Pooled /\ Finish(c, "refused")
       \/ /\ c[1] \notin OnChain \cup Pooled
          /\ Enter(c, "reading")
          /\ UNCHANGED <<known, temp>>
    /\ UNCHANGED <<chain, pool, fees, client, proposal, control, doubtful>>

ReadBalance(c) ==
    /\ call[c].pc = "reading"
    /\ call' = [call EXCEPT ![c].pc = "checking", ![c].seen = balance[SenderOf[c[1]]]]
    /\ UNCHANGED <<chain, node, client, proposal, control, doubtful>>

\* checkTransaction: the balance covers the fee and all fees counted before.
Covers(c) == call[c].seen >= fees[SenderOf[c[1]]] + 1

Check(c) ==
    /\ call[c].pc = "checking"
    /\ \/ ~Covers(c) /\ Finish(c, "refused")
       \/ /\ Covers(c)
          /\ call' = [call EXCEPT ![c].pc = "signing",
                                  ![c].counted = fees[SenderOf[c[1]]]]
          /\ UNCHANGED <<known, temp>>
    /\ UNCHANGED <<chain, pool, fees, client, proposal, control, doubtful>>

\* A transaction of the pool keeps its place, another one gets the last.
Put(t) == [u \in Pooled \cup {t} |-> IF u \in Pooled THEN pool[u]
                                    ELSE Cardinality(Pooled) + 1]

\* The rest of the verification has succeeded.  What was counted is never
\* taken off the fees again.
Accept(c) ==
    LET t == c[1]  s == SenderOf[t]
    IN  /\ call[c].pc = "signing"
        /\ pool' = Put(t)
        /\ fees' = [fees EXCEPT ![s] = @ + 1]
        /\ Finish(c, "accepted")
        /\ Doubt(IF fees[s] # call[c].counted THEN {t} ELSE {})
        /\ UNCHANGED <<chain, client, proposal, control>>

\* A read of the store throws.
Fail(c) ==
    /\ call[c].pc \in Under \ {"checking"}
    /\ Enter(c, "failed")
    /\ temp' = temp \ {c[1]}
    /\ UNCHANGED <<chain, pool, known, fees, client, proposal, control, doubtful>>

\* trimMemPool: of a pool over its size the first memoryPoolMaxTransactions
\* go, which are more than it holds.
Trim ==
    /\ Cardinality(Pooled) > PoolSize
    /\ pool' = Empty
    /\ Doubt(Pooled)
    /\ UNCHANGED <<chain, known, temp, fees, call, client, proposal, control>>

-----------------------------------------------------------------------------
(* The run of consensus on the timer, which commits its own proposal. *)

\* Defect: the last index is left out.
FitsButLast(n) == {t \in Pooled : pool[t] < n}

\* ensureMaxBlockLimitation: the sums of size and fee grow also for what does
\* not fit, so a block takes the pool up to the first that does not.
Fits(n) ==
    {t \in Pooled :
        /\ pool[t] <= n
        /\ \A u \in Pooled : pool[u] <= pool[t] => u \notin setting.oversized}

Propose ==
    /\ proposal.pc = "idle"
    /\ reset = "none"
    /\ proposal' = [pc |-> "made", txs |-> Fits(BlockTx)]
    /\ UNCHANGED <<chain, node, call, client, control, doubtful>>

Paying(s, S) == Cardinality({t \in S : SenderOf[t] = s})
Giving(s, S) == Cardinality({t \in S : SenderOf[t] = s /\ PaysTo[t] # s})
Getting(s, S) == Cardinality({t \in S : SenderOf[t] # s /\ PaysTo[t] = s})

Payable(S) == \A s \in Senders : Paying(s, S) <= balance[s]

\* What an account can give: the fees are burnt first.
Left(s, S) == balance[s] + Getting(s, S) - Paying(s, proposal.txs)

\* The block is committed: the fees are burnt, then the scripts run, of which
\* those in S do not fault.
StoreBlock ==
    /\ proposal.pc = "made"
    /\ Payable(proposal.txs)
    /\ ledger' = IF proposal.txs = {} THEN ledger ELSE Append(ledger, proposal.txs)
    /\ \E S \in SUBSET proposal.txs :
          /\ \A s \in Senders : Giving(s, S) <= Left(s, S)
          /\ balance' = [s \in Senders |-> Left(s, S) - Giving(s, S)]
    /\ proposal' = [proposal EXCEPT !.pc = "stored"]
    /\ UNCHANGED <<setting, node, call, client, control, doubtful>>

\* A fee that cannot be burnt fails the native OnPersist script, persistBlock
\* and the handler, and with it ends the loop of consensus.
BlockFails ==
    /\ proposal.pc = "made"
    /\ ~Payable(proposal.txs)
    /\ proposal' = [pc |-> "dead", txs |-> {}]
    /\ UNCHANGED <<chain, node, call, client, control, doubtful>>

\* Defect: the fees are given back, as TransactionVerificationContext allows.
FeesReturned(txs) == [s \in Senders |-> fees[s] - Paying(s, txs)]

FeesKept(txs) == fees

\* Defect: the pool is emptied.
Emptied(txs) == Empty

\* What a block leaves of the pool, in the same order.
Remaining(txs) ==
    LET rest == Pooled \ txs
    IN  [t \in rest |-> Cardinality({u \in rest : pool[u] <= pool[t]})]

\* The rest of persistBlock, and the timer of the next run.
FinishBlock ==
    /\ proposal.pc = "stored"
    /\ pool' = Remaining(proposal.txs)
    /\ known' = known \cup proposal.txs
    /\ fees' = FeesKept(proposal.txs)
    /\ proposal' = [pc |-> "idle", txs |-> {}]
    /\ UNCHANGED <<chain, temp, call, client, control, doubtful>>

-----------------------------------------------------------------------------
(* The RPC method "reset": pause, node.reset, blockchain.reset, resume. *)

Pause ==
    /\ reset = "none"
    /\ resets < MaxResets
    /\ proposal.pc # "dead"
    /\ reset' = "pausing"
    /\ UNCHANGED <<chain, node, call, client, proposal, resets, doubtful>>

\* The verification context is not cleared.
ResetNode ==
    /\ reset = "pausing"
    /\ proposal.pc = "idle"
    /\ reset' = "cleared"
    /\ pool' = Empty
    /\ known' = {}
    /\ temp' = {}
    /\ Doubt(Relayed)
    /\ UNCHANGED <<chain, fees, call, client, proposal, resets>>

ResetChain ==
    /\ reset = "cleared"
    /\ reset' = "none"
    /\ resets' = resets + 1
    /\ ledger' = <<>>
    /\ balance' = setting.funds
    /\ Doubt(Relayed)
    /\ UNCHANGED <<setting, node, call, client, proposal>>

-----------------------------------------------------------------------------
Consensus == Propose \/ StoreBlock \/ BlockFails \/ FinishBlock

Next ==
    \/ \E t \in Tx : Told(t) \/ GiveUp(t)
    \/ \E c \in Calls :
          \/ Receive(c) \/ Find(c) \/ Lookup(c) \/ ReadBalance(c)
          \/ Check(c) \/ Accept(c) \/ Fail(c)
    \/ Trim
    \/ Consensus
    \/ Pause \/ ResetNode \/ ResetChain

Spec == Init /\ [][Next]_vars

\* The event loop runs what is due, and the timer fires.
Fairness == WF_vars(Consensus) /\ WF_vars(ResetNode) /\ WF_vars(ResetChain)

FairSpec == Spec /\ Fairness

-----------------------------------------------------------------------------
TypeOK ==
    /\ setting \in Settings
    /\ ledger \in Seq(SUBSET Tx)
    /\ balance \in [Senders -> Nat]
    /\ Pooled \subseteq Tx
    /\ pool \in [Pooled -> 1..Cardinality(Pooled)]
    /\ known \subseteq Tx
    /\ temp \subseteq Tx
    /\ fees \in [Senders -> Nat]
    /\ call \in [Calls -> [pc : {"idle"} \cup Under \cup Answers,
                           seen : Nat, counted : Nat]]
    /\ client \in [Tx -> [pc : {"waiting", "ok", "failed"}, n : Nat]]
    /\ \A t \in Tx : client[t].n \in 1..Attempts[t]
    /\ proposal \in [pc : {"idle", "made", "stored", "dead"}, txs : SUBSET Tx]
    /\ reset \in {"none", "pausing", "cleared"}
    /\ resets \in 0..MaxResets
    /\ doubtful \subseteq Tx

\* No transaction is in two blocks, or in the pool after the block with it is
\* done: neither node nor consensus looks for it in the chain before it
\* proposes it (Node.relayTransaction, makePrepareRequest).
OncePerChain ==
    \A t \in Tx \ doubtful :
        /\ \A i, j \in DOMAIN ledger : t \in ledger[i] \cap ledger[j] => i = j
        /\ t \in OnChain \cap Pooled => proposal.pc = "stored" /\ t \in proposal.txs

\* What a sender still owes for the transactions of the pool.
Owed(s) == Paying(s, Pooled \ OnChain)

\* The accounts of which nothing but fees has been taken, on checks that were
\* not out of date.
Settled(s) ==
    \A t \in Tx : SenderOf[t] = s =>
        /\ t \in OnChain => PaysTo[t] = s
        /\ t \notin doubtful

\* The pool never holds more than its senders can pay, so that no proposal
\* kills consensus: the balance is read before the fees it is compared with,
\* and a block may come in between (checkTransaction).
Affordable == \A s \in Senders : Settled(s) => Owed(s) <= balance[s]

\* When sendTransaction succeeds, the transaction is in the pool or on the
\* chain, or the node has turned an earlier attempt away, or still verifies
\* one (relayTransaction answers {} to all of these).
SentIsKept ==
    \A t \in Tx \ doubtful : client[t].pc = "ok" =>
        \/ t \in Pooled \cup OnChain \cup temp
        \/ \E n \in 1..Attempts[t] : call[<<t, n>>].pc \in {"refused", "failed"}

Blocked(t) ==
    /\ t \in Pooled
    /\ \E u \in Pooled : pool[u] <= pool[t] /\ u \in setting.oversized

\* A transaction of the pool gets into a block, unless consensus died, or one
\* that no block can hold came before it.
PoolDrains ==
    \A t \in Tx : t \in Pooled ~>
        \/ t \notin Pooled
        \/ Blocked(t)
        \/ proposal.pc = "dead"
=============================================================================
