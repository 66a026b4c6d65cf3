------------------------ MODULE TransactionRelay_proofs ------------------------
(***************************************************************************)
(* The life of a transaction, for any transactions, senders, balances,     *)
(* block and pool sizes and any number of attempts and resets: it gets on  *)
(* the chain once, the pool can be paid for, and what the client takes for *)
(* sent is kept.                                                           *)
(*                                                                         *)
(* The lemmas named ...Step of the part "Types" say what each action does  *)
(* to the pool and the chain as sets; the invariants are proved from those *)
(* alone.  RelayedInv: what the node holds was relayed, so that a reset    *)
(* makes all of it doubtful.  HashesInv: one relay of a transaction at a   *)
(* time, of a hash not known yet.  BlockInv: pool, then block, then chain. *)
(* HeldInv: where an answered transaction is.  FeesInv: what a sender owes *)
(* and has paid, the fees counted for it, and its means, in this order.    *)
(***************************************************************************)
EXTENDS TransactionRelay, FiniteSetTheorems, SequenceTheorems, TLAPS

\* What the fee sums are counts of.
Finite ==
    /\ IsFiniteSet(Pooled)
    /\ IsFiniteSet(OnChain)
    /\ IsFiniteSet(proposal.txs)

\* A reset under way is one of the resets that there are.
Bounded == reset # "none" => resets < MaxResets

Types == TypeOK /\ Finite /\ Bounded

CallStates == [pc : {"idle"} \cup Under \cup Answers, seen : Nat, counted : Nat]

-----------------------------------------------------------------------------
(* Operators. *)

LEMMA CallParts ==
    ASSUME NEW c \in Calls
    PROVE  c[1] \in Tx /\ c[2] \in 1..Attempts[c[1]] /\ c = <<c[1], c[2]>>
BY DEF Calls

LEMMA CallOf ==
    ASSUME NEW t \in Tx, NEW n \in 1..Attempts[t]
    PROVE  <<t, n>> \in Calls
BY DEF Calls

LEMMA AtType ==
    ASSUME NEW pc \in {"idle"} \cup Under \cup Answers
    PROVE  At(pc) \in CallStates /\ At(pc).pc = pc
BY DEF At, CallStates

\* One request's step leaves the others alone.
LEMMA EnterStep ==
    ASSUME TypeOK, NEW c \in Calls, NEW pc \in {"idle"} \cup Under \cup Answers,
           Enter(c, pc)
    PROVE  /\ call' \in [Calls -> CallStates]
           /\ call'[c].pc = pc
           /\ \A d \in Calls : d # c => call'[d] = call[d]
BY AtType DEF TypeOK, Enter, CallStates

LEMMA EmptyPool ==
    ASSUME pool' = Empty
    PROVE  /\ Pooled' = {} /\ IsFiniteSet(Pooled)'
           /\ pool' \in [Pooled' -> 1..Cardinality(Pooled')]
<1>1. Pooled' = {} /\ pool' = [t \in {} |-> 0]
  BY DEF Pooled, Empty
<1> QED BY <1>1, FS_EmptySet

LEMMA PutPool ==
    ASSUME TypeOK, Finite, NEW t \in Tx, pool' = Put(t)
    PROVE  /\ Pooled' = Pooled \cup {t} /\ IsFiniteSet(Pooled)'
           /\ pool' \in [Pooled' -> 1..Cardinality(Pooled')]
<1>1. Pooled' = Pooled \cup {t}
  BY DEF Pooled, Put
<1>2. /\ IsFiniteSet(Pooled \cup {t}) /\ Cardinality(Pooled) \in Nat
      /\ Cardinality(Pooled \cup {t}) =
            IF t \in Pooled THEN Cardinality(Pooled) ELSE Cardinality(Pooled) + 1
  BY FS_AddElement, FS_CardinalityType DEF Finite
<1>3. \A u \in Pooled : pool[u] \in 1..Cardinality(Pooled)
  BY DEF TypeOK
<1>4. pool' = [u \in Pooled \cup {t} |-> IF u \in Pooled THEN pool[u]
                                         ELSE Cardinality(Pooled) + 1]
  BY DEF Put
<1>5. \A u \in Pooled \cup {t} : pool'[u] \in 1..Cardinality(Pooled \cup {t})
  BY <1>2, <1>3, <1>4
<1> QED BY <1>1, <1>2, <1>4, <1>5

LEMMA RemainingPool ==
    ASSUME TypeOK, Finite, NEW S, pool' = Remaining(S)
    PROVE  /\ Pooled' = Pooled \ S /\ IsFiniteSet(Pooled)'
           /\ pool' \in [Pooled' -> 1..Cardinality(Pooled')]
<1> DEFINE rest == Pooled \ S
           before(t) == {u \in rest : pool[u] <= pool[t]}
<1>1. Pooled' = rest
  BY DEF Pooled, Remaining
<1>2. IsFiniteSet(rest)
  BY FS_Subset DEF Finite
<1>3. ASSUME NEW t \in rest PROVE Cardinality(before(t)) \in 1..Cardinality(rest)
  <2>1. /\ IsFiniteSet(before(t)) /\ Cardinality(before(t)) <= Cardinality(rest)
    BY <1>2, FS_Subset
  <2>2. Cardinality(before(t)) \in Nat /\ Cardinality(rest) \in Nat
    BY <1>2, <2>1, FS_CardinalityType
  <2>3. t \in before(t)
    <3>1. pool[t] \in 1..Cardinality(Pooled)
      BY DEF TypeOK
    <3> QED BY <3>1
  <2>4. Cardinality(before(t)) # 0
    BY <2>1, <2>3, FS_EmptySet
  <2> HIDE DEF rest, before
  <2> QED BY <2>1, <2>2, <2>4
<1>4. pool' = [t \in rest |-> Cardinality(before(t))]
  BY DEF Remaining
<1> HIDE DEF rest, before
<1>5. pool' \in [rest -> 1..Cardinality(rest)]
  BY <1>3, <1>4
<1> QED BY <1>1, <1>2, <1>5 DEF rest

\* The chain after a block, and after a reset.
LEMMA AppendChain ==
    ASSUME TypeOK, NEW S \in SUBSET Tx, ledger' = Append(ledger, S)
    PROVE  /\ OnChain' = OnChain \cup S /\ ledger' \in Seq(SUBSET Tx)
           /\ DOMAIN ledger' = DOMAIN ledger \cup {Len(ledger) + 1}
           /\ \A i \in DOMAIN ledger : ledger'[i] = ledger[i] /\ i # Len(ledger) + 1
           /\ ledger'[Len(ledger) + 1] = S
<1>1. ledger \in Seq(SUBSET Tx)
  BY DEF TypeOK
<1>2. /\ ledger' \in Seq(SUBSET Tx)
      /\ DOMAIN ledger' = DOMAIN ledger \cup {Len(ledger) + 1}
      /\ \A i \in DOMAIN ledger : ledger'[i] = ledger[i] /\ i # Len(ledger) + 1
      /\ ledger'[Len(ledger) + 1] = S
  BY <1>1, AppendProperties
<1> QED BY <1>2 DEF OnChain

LEMMA EmptyChain ==
    ASSUME ledger' = <<>> PROVE OnChain' = {} /\ ledger' \in Seq(SUBSET Tx)
BY DEF OnChain

LEMMA FitsPool == Fits(BlockTx) \subseteq Pooled
BY DEF Fits

\* A finite set of transactions has a number of payers, givers, getters.
LEMMA CountType ==
    ASSUME NEW S, IsFiniteSet(S), NEW s
    PROVE  Paying(s, S) \in Nat /\ Giving(s, S) \in Nat /\ Getting(s, S) \in Nat
<1>1. /\ IsFiniteSet({t \in S : SenderOf[t] = s})
      /\ IsFiniteSet({t \in S : SenderOf[t] = s /\ PaysTo[t] # s})
      /\ IsFiniteSet({t \in S : SenderOf[t] # s /\ PaysTo[t] = s})
  BY FS_Subset
<1> QED BY <1>1, FS_CardinalityType DEF Paying, Giving, Getting

LEMMA PayingMonotone ==
    ASSUME NEW S, IsFiniteSet(S), NEW T \in SUBSET S, NEW s
    PROVE  Paying(s, T) <= Paying(s, S)
<1>1. IsFiniteSet({t \in S : SenderOf[t] = s})
  BY FS_Subset
<1>2. {t \in T : SenderOf[t] = s} \in SUBSET {t \in S : SenderOf[t] = s}
  OBVIOUS
<1> QED BY <1>1, <1>2, FS_Subset DEF Paying

\* Payments of two sets that share none of the sender's transactions add up.
LEMMA PayingUnion ==
    ASSUME NEW S, IsFiniteSet(S), NEW T, IsFiniteSet(T), NEW s,
           \A t \in S \cap T : SenderOf[t] # s
    PROVE  Paying(s, S \cup T) = Paying(s, S) + Paying(s, T)
<1> DEFINE A == {t \in S : SenderOf[t] = s}
           B == {t \in T : SenderOf[t] = s}
<1>1. IsFiniteSet(A) /\ IsFiniteSet(B)
  BY FS_Subset
<1>2. A \cap B = {} /\ {t \in S \cup T : SenderOf[t] = s} = A \cup B
  OBVIOUS
<1>3. Cardinality(A) \in Nat /\ Cardinality(B) \in Nat /\ Cardinality({}) = 0
  BY <1>1, FS_CardinalityType, FS_EmptySet
<1> HIDE DEF A, B
<1>4. Cardinality(A \cup B) = Cardinality(A) + Cardinality(B)
  <2>1. Cardinality(A \cup B) = Cardinality(A) + Cardinality(B) - Cardinality(A \cap B)
    BY <1>1, FS_Union
  <2>2. Cardinality(A \cap B) = 0
    BY <1>2, <1>3, Zenon
  <2> QED BY <1>3, <2>1, <2>2
<1> QED BY <1>2, <1>4 DEF Paying, A, B

LEMMA PayingAdd ==
    ASSUME NEW S, IsFiniteSet(S), NEW t, NEW s
    PROVE  /\ Paying(s, S \cup {t}) <= Paying(s, S) + 1
           /\ SenderOf[t] # s => Paying(s, S \cup {t}) = Paying(s, S)
<1> DEFINE A == {u \in S : SenderOf[u] = s}
           B == {u \in S \cup {t} : SenderOf[u] = s}
<1>1. IsFiniteSet(A)
  BY FS_Subset
<1>2. /\ Cardinality(A) \in Nat
      /\ Cardinality(A \cup {t}) \in {Cardinality(A), Cardinality(A) + 1}
  BY <1>1, FS_CardinalityType, FS_AddElement
<1>3. B = A \/ (B = A \cup {t} /\ SenderOf[t] = s)
  OBVIOUS
<1> HIDE DEF A, B
<1>4. /\ Cardinality(B) <= Cardinality(A) + 1
      /\ SenderOf[t] # s => Cardinality(B) = Cardinality(A)
  BY <1>2, <1>3
<1> QED BY <1>4 DEF Paying, A, B

-----------------------------------------------------------------------------
(* Types. *)

ClientTypes ==
    /\ client \in [Tx -> [pc : {"waiting", "ok", "failed"}, n : Nat]]
    /\ \A t \in Tx : client[t].n \in 1..Attempts[t]

LEMMA TypesInit == Init => Types
<1> USE ConstantsAssumption DEF ConstantsAssumption
<1> SUFFICES ASSUME Init PROVE Types
  OBVIOUS
<1>1. Pooled = {} /\ OnChain = {} /\ proposal.txs = {} /\ pool = [t \in {} |-> 0]
  BY DEF Init, Pooled, OnChain, Empty
<1>2. setting \in Settings /\ balance \in [Senders -> Nat] /\ fees \in [Senders -> Nat]
  BY DEF Init
<1>3. call \in [Calls -> CallStates]
  BY AtType DEF Init
<1>4. ClientTypes
  BY DEF Init, ClientTypes
<1>5. ledger \in Seq(SUBSET Tx)
  BY DEF Init
<1>6. /\ known \subseteq Tx /\ temp \subseteq Tx /\ doubtful \subseteq Tx
      /\ resets \in 0..MaxResets /\ reset \in {"none", "pausing", "cleared"}
      /\ proposal \in [pc : {"idle", "made", "stored", "dead"}, txs : SUBSET Tx]
  BY DEF Init
<1>7. Finite
  BY <1>1, FS_EmptySet DEF Finite
<1> QED BY <1>1, <1>2, <1>3, <1>4, <1>5, <1>6, <1>7
        DEF Types, TypeOK, CallStates, ClientTypes, Bounded, Init

\* A step that leaves the pool, the chain and the proposal alone.
LEMMA StillTypes ==
    ASSUME Types, UNCHANGED <<chain, pool, proposal>>,
           known' \subseteq Tx, temp' \subseteq Tx, doubtful' \subseteq Tx,
           fees' \in [Senders -> Nat], call' \in [Calls -> CallStates], ClientTypes',
           UNCHANGED control
    PROVE  Types'
<1>1. UNCHANGED <<setting, ledger, balance, pool, proposal, reset, resets>>
  BY DEF chain, control
<1>2. Pooled' = Pooled /\ OnChain' = OnChain
  BY <1>1 DEF Pooled, OnChain
<1> QED BY <1>1, <1>2 DEF Types, TypeOK, Finite, Bounded, CallStates, ClientTypes

LEMMA RelayTypes ==
    ASSUME Types, NEW c \in Calls,
           Receive(c) \/ Find(c) \/ Lookup(c) \/ ReadBalance(c) \/ Check(c) \/ Fail(c)
    PROVE  Types'
<1> USE DEF Types
<1>0. /\ c[1] \in Tx /\ SenderOf[c[1]] \in Senders
      /\ known \subseteq Tx /\ temp \subseteq Tx /\ doubtful \subseteq Tx
      /\ fees \in [Senders -> Nat] /\ balance \in [Senders -> Nat]
      /\ call \in [Calls -> CallStates] /\ ClientTypes
  BY CallParts, ConstantsAssumption
     DEF TypeOK, CallStates, ClientTypes, ConstantsAssumption
<1>1. UNCHANGED <<chain, pool, proposal, fees, client, reset, resets, doubtful>>
  BY Zenon DEF Receive, Find, Lookup, ReadBalance, Check, Fail, node, control
<1>2. ClientTypes'
  BY <1>0, <1>1 DEF ClientTypes
<1>3. known' \subseteq Tx /\ temp' \subseteq Tx
  <2>1. known' \in {known, known \cup {c[1]}}
    BY <1>1 DEF Receive, Find, Lookup, ReadBalance, Check, Fail, Finish, node
  <2>2. temp' \in {temp, temp \cup {c[1]}, temp \ {c[1]}}
    BY DEF Receive, Find, Lookup, ReadBalance, Check, Fail, Finish, node
  <2> QED BY <1>0, <2>1, <2>2
<1>4. call' \in [Calls -> CallStates]
  <2>1. ASSUME NEW pc \in {"idle"} \cup Under \cup Answers, Enter(c, pc)
        PROVE  call' \in [Calls -> CallStates]
    BY <2>1, EnterStep
  <2>2. CASE Receive(c) \/ Find(c) \/ Lookup(c) \/ Fail(c)
    BY <2>1, <2>2 DEF Receive, Find, Lookup, Fail, Finish, Under, Answers
  <2>3. CASE ReadBalance(c)
    BY <1>0, <2>3 DEF ReadBalance, CallStates, Under
  <2>4. CASE Check(c)
    <3>1. CASE Finish(c, "refused")
      BY <2>1, <3>1 DEF Finish, Answers
    <3>2. CASE call' = [call EXCEPT ![c].pc = "signing",
                                    ![c].counted = fees[SenderOf[c[1]]]]
      <4>1. fees[SenderOf[c[1]]] \in Nat /\ "signing" \in Under
        BY <1>0 DEF Under
      <4> QED BY <1>0, <3>2, <4>1 DEF CallStates
    <3> QED BY <2>4, <3>1, <3>2 DEF Check
  <2> QED BY <2>2, <2>3, <2>4
<1> QED BY <1>0, <1>1, <1>2, <1>3, <1>4, StillTypes DEF control

LEMMA ClientStep ==
    ASSUME Types, NEW t \in Tx, Told(t) \/ GiveUp(t)
    PROVE  /\ Types' /\ UNCHANGED <<chain, node, call, proposal, control, doubtful>>
           /\ \A u \in Tx : u # t => client'[u] = client[u]
           /\ client'[t].pc = "ok" =>
                 /\ Told(t) /\ <<t, client[t].n>> \in Calls
                 /\ call[<<t, client[t].n>>].pc \in {"known", "accepted"}
<1>1. UNCHANGED <<chain, node, call, proposal, control, doubtful>>
  BY Zenon DEF Told, GiveUp
<1>2. ClientTypes
  BY DEF Types, TypeOK, ClientTypes
<1>3. /\ ClientTypes' /\ \A u \in Tx : u # t => client'[u] = client[u]
      /\ client'[t].pc = "ok" =>
            Told(t) /\ call[<<t, client[t].n>>].pc \in {"known", "accepted"}
  <2>1. CASE Told(t)
    BY <1>2, <2>1 DEF Told, ClientTypes
  <2>2. CASE GiveUp(t)
    <3>1. client[t].pc = "waiting" /\ Attempts[t] \in Nat
      BY <2>2, ConstantsAssumption DEF GiveUp, ConstantsAssumption
    <3>2. CASE client[t].n < Attempts[t]
      <4>1. client' = [client EXCEPT ![t].n = client[t].n + 1]
        BY <2>2, <3>2 DEF GiveUp, TriesAgain
      <4> QED BY <1>2, <3>1, <3>2, <4>1 DEF ClientTypes
    <3>3. CASE ~(client[t].n < Attempts[t])
      <4>1. client' = [client EXCEPT ![t].pc = "failed"]
        BY <2>2, <3>3 DEF GiveUp, TriesAgain
      <4> QED BY <1>2, <3>1, <4>1 DEF ClientTypes
    <3> QED BY <3>2, <3>3
  <2> QED BY <2>1, <2>2
<1>4. <<t, client[t].n>> \in Calls
  BY <1>2, CallOf DEF ClientTypes
<1>5. UNCHANGED <<pool, known, temp, fees, reset, resets>>
  BY <1>1 DEF node, control
<1> QED BY <1>1, <1>3, <1>4, <1>5, StillTypes DEF Types, TypeOK, CallStates

LEMMA AcceptStep ==
    ASSUME Types, NEW c \in Calls, Accept(c)
    PROVE  /\ Types'
           /\ UNCHANGED <<chain, client, proposal, control>> /\ OnChain' = OnChain
           /\ Pooled' = Pooled \cup {c[1]}
           /\ call[c].pc = "signing" /\ Enter(c, "accepted")
           /\ known' = known \cup {c[1]} /\ temp' = temp \ {c[1]}
           /\ fees' = [fees EXCEPT ![SenderOf[c[1]]] = fees[SenderOf[c[1]]] + 1]
           /\ doubtful' = doubtful \cup
                 (IF fees[SenderOf[c[1]]] # call[c].counted THEN {c[1]} ELSE {})
<1>1. /\ UNCHANGED <<chain, client, proposal, control>>
      /\ pool' = Put(c[1]) /\ call[c].pc = "signing" /\ Enter(c, "accepted")
      /\ known' = known \cup {c[1]} /\ temp' = temp \ {c[1]}
      /\ fees' = [fees EXCEPT ![SenderOf[c[1]]] = fees[SenderOf[c[1]]] + 1]
      /\ doubtful' = doubtful \cup
            (IF fees[SenderOf[c[1]]] # call[c].counted THEN {c[1]} ELSE {})
  BY DEF Accept, Finish, Doubt
<1>2. UNCHANGED <<setting, ledger, balance, client, proposal, reset, resets>>
  BY <1>1 DEF chain, control
<1>3. OnChain' = OnChain
  BY <1>2 DEF OnChain
<1>4. c[1] \in Tx /\ SenderOf[c[1]] \in Senders
  BY CallParts, ConstantsAssumption DEF ConstantsAssumption
<1>5. /\ Pooled' = Pooled \cup {c[1]} /\ IsFiniteSet(Pooled)'
      /\ pool' \in [Pooled' -> 1..Cardinality(Pooled')]
  BY <1>1, <1>4, PutPool DEF Types
<1>6. call' \in [Calls -> CallStates]
  BY <1>1, EnterStep DEF Types, Answers
<1>7. /\ known' \subseteq Tx /\ temp' \subseteq Tx /\ doubtful' \subseteq Tx
      /\ Pooled' \subseteq Tx /\ fees' \in [Senders -> Nat]
  BY <1>1, <1>4, <1>5 DEF Types, TypeOK
<1>8. Types'
  BY <1>2, <1>3, <1>5, <1>6, <1>7 DEF Types, TypeOK, Finite, Bounded, CallStates
<1> QED BY <1>1, <1>3, <1>5, <1>8

LEMMA TrimStep ==
    ASSUME Types, Trim
    PROVE  /\ Types'
           /\ UNCHANGED <<chain, known, temp, fees, call, client, proposal, control>>
           /\ OnChain' = OnChain /\ Pooled' = {} /\ doubtful' = doubtful \cup Pooled
<1>1. /\ UNCHANGED <<chain, known, temp, fees, call, client, proposal, control>>
      /\ pool' = Empty /\ doubtful' = doubtful \cup Pooled
  BY DEF Trim, Doubt
<1>2. UNCHANGED <<setting, ledger, balance, reset, resets>>
  BY <1>1 DEF chain, control
<1>3. OnChain' = OnChain
  BY <1>2 DEF OnChain
<1>4. /\ Pooled' = {} /\ IsFiniteSet(Pooled)'
      /\ pool' \in [Pooled' -> 1..Cardinality(Pooled')]
  BY <1>1, EmptyPool
<1>5. Types'
  BY <1>1, <1>2, <1>3, <1>4 DEF Types, TypeOK, Finite, Bounded
<1> QED BY <1>1, <1>3, <1>4, <1>5

LEMMA ProposeStep ==
    ASSUME Types, Propose \/ BlockFails
    PROVE  /\ Types'
           /\ UNCHANGED <<chain, node, call, client, control, doubtful>>
           /\ OnChain' = OnChain /\ Pooled' = Pooled
           /\ \/ /\ proposal.pc = "idle" /\ proposal'.pc = "made"
                 /\ proposal'.txs \subseteq Pooled
              \/ /\ proposal.pc = "made" /\ proposal'.pc = "dead"
                 /\ proposal'.txs = {}
<1>1. UNCHANGED <<chain, node, call, client, control, doubtful>>
  BY Zenon DEF Propose, BlockFails
<1>2. UNCHANGED <<setting, ledger, balance, pool, known, temp, fees, reset, resets>>
  BY <1>1 DEF chain, node, control
<1>3. OnChain' = OnChain /\ Pooled' = Pooled
  BY <1>2 DEF OnChain, Pooled
<1>4. \/ /\ proposal.pc = "idle" /\ proposal'.pc = "made"
         /\ proposal'.txs \subseteq Pooled
      \/ /\ proposal.pc = "made" /\ proposal'.pc = "dead"
         /\ proposal'.txs = {}
  BY FitsPool DEF Propose, BlockFails
<1>5. IsFiniteSet(proposal'.txs)
  BY <1>4, FS_Subset, FS_EmptySet DEF Types, Finite
<1>6. proposal' \in [pc : {"idle", "made", "stored", "dead"}, txs : SUBSET Tx]
  <2>1. Fits(BlockTx) \subseteq Tx
    BY FitsPool DEF Types, TypeOK
  <2> QED BY <2>1 DEF Propose, BlockFails
<1>7. Types'
  BY <1>1, <1>2, <1>3, <1>5, <1>6 DEF Types, TypeOK, Finite, Bounded
<1> QED BY <1>1, <1>3, <1>4, <1>7

\* The balances after a block: nothing leaves an account but what it pays and
\* gives.
LEMMA StoreStep ==
    ASSUME Types, StoreBlock
    PROVE  /\ Types'
           /\ UNCHANGED <<setting, node, call, client, control, doubtful>>
           /\ Pooled' = Pooled /\ OnChain' = OnChain \cup proposal.txs
           /\ proposal.pc = "made" /\ proposal'.pc = "stored"
           /\ proposal'.txs = proposal.txs
           /\ \/ ledger' = ledger /\ proposal.txs = {}
              \/ ledger' = Append(ledger, proposal.txs)
           /\ \A s \in Senders :
                 (\A t \in proposal.txs : SenderOf[t] = s => PaysTo[t] = s)
                    => balance'[s] + Paying(s, proposal.txs) >= balance[s]
<1> DEFINE P == proposal.txs
<1>1. /\ UNCHANGED <<setting, node, call, client, control, doubtful>>
      /\ proposal.pc = "made" /\ proposal' = [proposal EXCEPT !.pc = "stored"]
      /\ ledger' = IF P = {} THEN ledger ELSE Append(ledger, P)
  BY DEF StoreBlock
<1>2. UNCHANGED <<pool, known, temp, fees, reset, resets>>
  BY <1>1 DEF node, control
<1>3. Pooled' = Pooled
  BY <1>2 DEF Pooled
<1>4. /\ proposal \in [pc : {"idle", "made", "stored", "dead"}, txs : SUBSET Tx]
      /\ IsFiniteSet(P) /\ IsFiniteSet(OnChain)
      /\ balance \in [Senders -> Nat] /\ ledger \in Seq(SUBSET Tx)
  BY DEF Types, TypeOK, Finite, Bounded
<1>5. /\ proposal'.pc = "stored" /\ proposal'.txs = P
      /\ proposal' \in [pc : {"idle", "made", "stored", "dead"}, txs : SUBSET Tx]
  BY <1>1, <1>4
<1>6. OnChain' = OnChain \cup P /\ ledger' \in Seq(SUBSET Tx)
  <2>1. CASE P = {}
    <3>1. ledger' = ledger
      BY <1>1, <2>1
    <3> QED BY <1>4, <2>1, <3>1 DEF OnChain
  <2>2. CASE P # {}
    <3>1. ledger' = Append(ledger, P) /\ P \in SUBSET Tx
      BY <1>1, <1>4, <2>2
    <3> QED BY <3>1, AppendChain DEF Types
  <2> QED BY <2>1, <2>2
<1>7. IsFiniteSet(OnChain)'
  BY <1>4, <1>6, FS_Union
<1>8. PICK S \in SUBSET P :
         /\ \A s \in Senders : Giving(s, S) <= Left(s, S)
         /\ balance' = [s \in Senders |-> Left(s, S) - Giving(s, S)]
  BY DEF StoreBlock
<1>9. IsFiniteSet(S)
  BY <1>4, FS_Subset
<1>10. ASSUME NEW s \in Senders
       PROVE  /\ balance'[s] \in Nat
              /\ (\A t \in P : SenderOf[t] = s => PaysTo[t] = s)
                    => balance'[s] + Paying(s, P) >= balance[s]
  <2>1. /\ Giving(s, S) \in Nat /\ Getting(s, S) \in Nat /\ Paying(s, P) \in Nat
        /\ balance[s] \in Nat
    BY <1>4, <1>9, CountType
  <2>2. balance'[s] = Left(s, S) - Giving(s, S) /\ Giving(s, S) <= Left(s, S)
    BY <1>8
  <2>3. Left(s, S) = balance[s] + Getting(s, S) - Paying(s, P)
    BY DEF Left
  <2>4. ASSUME \A t \in P : SenderOf[t] = s => PaysTo[t] = s PROVE Giving(s, S) = 0
    <3>1. {t \in S : SenderOf[t] = s /\ PaysTo[t] # s} = {}
      BY <2>4
    <3> QED BY <3>1, FS_EmptySet, Zenon DEF Giving
  <2> HIDE DEF P
  <2> QED BY <2>1, <2>2, <2>3, <2>4
<1>11. balance' \in [Senders -> Nat]
  BY <1>8, <1>10
<1>12. Types'
  BY <1>1, <1>2, <1>3, <1>4, <1>5, <1>6, <1>7, <1>11 DEF Types, TypeOK, Finite, Bounded
<1> QED BY <1>1, <1>3, <1>5, <1>6, <1>10, <1>12

LEMMA FinishStep ==
    ASSUME Types, FinishBlock
    PROVE  /\ Types'
           /\ UNCHANGED <<chain, temp, fees, call, client, control, doubtful>>
           /\ OnChain' = OnChain /\ Pooled' = Pooled \ proposal.txs
           /\ known' = known \cup proposal.txs
           /\ proposal.pc = "stored" /\ proposal' = [pc |-> "idle", txs |-> {}]
<1>1. /\ UNCHANGED <<chain, temp, fees, call, client, control, doubtful>>
      /\ known' = known \cup proposal.txs
      /\ pool' = Remaining(proposal.txs)
      /\ proposal.pc = "stored" /\ proposal' = [pc |-> "idle", txs |-> {}]
  BY DEF FinishBlock, FeesKept
<1>2. UNCHANGED <<setting, ledger, balance, reset, resets>>
  BY <1>1 DEF chain, control
<1>3. OnChain' = OnChain
  BY <1>2 DEF OnChain
<1>4. /\ Pooled' = Pooled \ proposal.txs /\ IsFiniteSet(Pooled)'
      /\ pool' \in [Pooled' -> 1..Cardinality(Pooled')]
  BY <1>1, RemainingPool DEF Types
<1>5. IsFiniteSet(proposal.txs)' /\ known' \subseteq Tx
  BY <1>1, FS_EmptySet DEF Types, TypeOK
<1>6. Types'
  BY <1>1, <1>2, <1>3, <1>4, <1>5 DEF Types, TypeOK, Finite, Bounded
<1> QED BY <1>1, <1>3, <1>4, <1>6

LEMMA RelayedType == Relayed \subseteq Tx
BY DEF Relayed

\* Both halves of a reset make doubtful whatever had been relayed.
LEMMA ResetStep ==
    ASSUME Types, Pause \/ ResetNode \/ ResetChain
    PROVE  /\ Types'
           /\ UNCHANGED <<setting, fees, call, client, proposal>>
           /\ \/ UNCHANGED <<chain, node, doubtful, Pooled, OnChain>>
              \/ /\ doubtful' = doubtful \cup Relayed
                 /\ \/ /\ UNCHANGED <<chain, OnChain>> /\ Pooled' = {}
                       /\ known' = {} /\ temp' = {}
                    \/ /\ UNCHANGED <<node, Pooled>>
                       /\ ledger' = <<>> /\ OnChain' = {}
<1> USE ConstantsAssumption DEF ConstantsAssumption, Types
<1>1. CASE Pause
  <2>1. /\ UNCHANGED <<chain, node, call, client, proposal, resets, doubtful>>
        /\ reset' = "pausing" /\ resets < MaxResets
    BY <1>1 DEF Pause
  <2>2. UNCHANGED <<setting, ledger, balance, pool, known, temp, fees>>
    BY <2>1 DEF chain, node
  <2>3. UNCHANGED <<Pooled, OnChain>>
    BY <2>2 DEF Pooled, OnChain
  <2>4. Types'
    BY <2>1, <2>2, <2>3 DEF TypeOK, Finite, Bounded
  <2> QED BY <2>1, <2>2, <2>3, <2>4
<1>2. CASE ResetNode
  <2>1. /\ UNCHANGED <<chain, fees, call, client, proposal, resets>>
        /\ doubtful' = doubtful \cup Relayed /\ pool' = Empty
        /\ known' = {} /\ temp' = {} /\ reset' = "cleared"
        /\ reset # "none"
    BY <1>2 DEF ResetNode, Doubt
  <2>2. UNCHANGED <<setting, ledger, balance>>
    BY <2>1 DEF chain
  <2>3. OnChain' = OnChain
    BY <2>2 DEF OnChain
  <2>4. /\ Pooled' = {} /\ IsFiniteSet(Pooled)'
        /\ pool' \in [Pooled' -> 1..Cardinality(Pooled')]
    BY <2>1, EmptyPool
  <2>5. Types'
    BY <2>1, <2>2, <2>3, <2>4, RelayedType DEF TypeOK, Finite, Bounded
  <2> QED BY <2>1, <2>2, <2>3, <2>4, <2>5
<1>3. CASE ResetChain
  <2>1. /\ UNCHANGED <<setting, node, call, client, proposal>>
        /\ doubtful' = doubtful \cup Relayed /\ ledger' = <<>>
        /\ balance' = setting.funds /\ reset' = "none" /\ resets' = resets + 1
        /\ reset # "none"
    BY <1>3 DEF ResetChain, Doubt
  <2>2. UNCHANGED <<pool, known, temp, fees>>
    BY <2>1 DEF node
  <2>3. Pooled' = Pooled
    BY <2>2 DEF Pooled
  <2>4. OnChain' = {} /\ ledger' \in Seq(SUBSET Tx) /\ IsFiniteSet(OnChain)'
    BY <2>1, EmptyChain, FS_EmptySet
  <2>5. balance' \in [Senders -> Nat]
    BY <2>1 DEF TypeOK
  <2>6. resets' \in 0..MaxResets
    BY <2>1 DEF TypeOK, Bounded
  <2>7. Types'
    BY <2>1, <2>2, <2>3, <2>4, <2>5, <2>6, RelayedType DEF TypeOK, Finite, Bounded
  <2> QED BY <2>1, <2>2, <2>3, <2>4, <2>7
<1> QED BY <1>1, <1>2, <1>3

\* How a step of a relay that does not accept leaves the hashes: the request
\* is a repetition, or begins, or goes on, or ends.
Repeats(c) ==
    /\ call[c].pc = "idle" /\ call'[c].pc = "known"
    /\ c[1] \in temp \cup known
    /\ known' = known /\ temp' = temp

Begins(c) ==
    /\ call[c].pc = "idle" /\ call'[c].pc = "finding"
    /\ c[1] \notin temp \cup known
    /\ known' = known /\ temp' = temp \cup {c[1]}

GoesOn(c) ==
    /\ call[c].pc \in Under /\ call'[c].pc \in Under
    /\ known' = known /\ temp' = temp

Ends(c) ==
    /\ call[c].pc \in Under
    /\ temp' = temp \ {c[1]}
    /\ \/ /\ known' = known \cup {c[1]}
          /\ \/ call'[c].pc = "known" /\ c[1] \in OnChain
             \/ call'[c].pc = "refused"
       \/ known' = known /\ call'[c].pc = "failed"

\* What a relay that is checked or signed has read and counted.
Counts(c) ==
    call'[c].pc \in {"checking", "signing"} =>
        /\ \/ call'[c].seen = balance[SenderOf[c[1]]]
           \/ call[c].pc = "checking" /\ call'[c].seen = call[c].seen
        /\ call'[c].pc = "signing" => call'[c].counted + 1 <= call'[c].seen

LEMMA RelayStep ==
    ASSUME Types, NEW c \in Calls,
           Receive(c) \/ Find(c) \/ Lookup(c) \/ ReadBalance(c) \/ Check(c) \/ Fail(c)
    PROVE  /\ Types'
           /\ UNCHANGED <<ledger, balance, fees, client, proposal, doubtful,
                          Pooled, OnChain>>
           /\ \A d \in Calls : d # c => call'[d] = call[d]
           /\ Repeats(c) \/ Begins(c) \/ GoesOn(c) \/ Ends(c)
           /\ Counts(c)
<1>0. /\ SenderOf[c[1]] \in Senders /\ fees \in [Senders -> Nat]
      /\ call \in [Calls -> CallStates] /\ TypeOK
  BY CallParts, ConstantsAssumption
     DEF Types, TypeOK, CallStates, ConstantsAssumption
<1>1. UNCHANGED <<chain, pool, fees, client, proposal, doubtful>>
  BY Zenon DEF Receive, Find, Lookup, ReadBalance, Check, Fail, node
<1>2. UNCHANGED <<ledger, balance, Pooled, OnChain>>
  BY <1>1 DEF chain, Pooled, OnChain
<1> DEFINE Alone == \A d \in Calls : d # c => call'[d] = call[d]
           Result == Alone /\ (Repeats(c) \/ Begins(c) \/ GoesOn(c) \/ Ends(c)) /\ Counts(c)
<1>3. ASSUME NEW pc \in {"idle"} \cup Under \cup Answers, Enter(c, pc)
      PROVE  call'[c].pc = pc /\ Alone
  BY <1>0, <1>3, EnterStep
<1> SUFFICES Result
  BY <1>1, <1>2, RelayTypes
<1> HIDE DEF Alone
<1>4. CASE Receive(c)
  <2>1. CASE Seen(c[1]) /\ Enter(c, "known") /\ UNCHANGED temp
    BY <1>3, <1>4, <2>1 DEF Receive, Seen, Repeats, Counts, Answers
  <2>2. CASE ~Seen(c[1]) /\ Enter(c, "finding") /\ temp' = temp \cup {c[1]}
    BY <1>3, <1>4, <2>2 DEF Receive, Seen, Begins, Counts, Under
  <2> QED BY <1>4, <2>1, <2>2 DEF Receive
<1>5. CASE Find(c)
  <2>1. CASE c[1] \in OnChain /\ Finish(c, "known")
    BY <1>3, <1>5, <2>1 DEF Find, Finish, Ends, Counts, Under, Answers
  <2>2. CASE Enter(c, "verifying") /\ UNCHANGED <<known, temp>>
    BY <1>3, <1>5, <2>2 DEF Find, GoesOn, Counts, Under
  <2> QED BY <1>5, <2>1, <2>2 DEF Find
<1>6. CASE Lookup(c)
  <2>1. CASE Finish(c, "refused")
    BY <1>3, <1>6, <2>1 DEF Lookup, Finish, Ends, Counts, Under, Answers
  <2>2. CASE Enter(c, "reading") /\ UNCHANGED <<known, temp>>
    BY <1>3, <1>6, <2>2 DEF Lookup, GoesOn, Counts, Under
  <2> QED BY <1>6, <2>1, <2>2 DEF Lookup
<1>7. CASE ReadBalance(c)
  <2>1. /\ call' = [call EXCEPT ![c].pc = "checking",
                                ![c].seen = balance[SenderOf[c[1]]]]
        /\ call[c].pc = "reading" /\ known' = known /\ temp' = temp
    BY <1>7 DEF ReadBalance, node
  <2>2. /\ call'[c].pc = "checking" /\ call'[c].seen = balance[SenderOf[c[1]]]
        /\ \A d \in Calls : d # c => call'[d] = call[d]
    BY <1>0, <2>1 DEF CallStates
  <2> QED BY <2>1, <2>2 DEF GoesOn, Counts, Under, Alone
<1>8. CASE Check(c)
  <2>1. CASE Finish(c, "refused")
    BY <1>3, <1>8, <2>1 DEF Check, Finish, Ends, Counts, Under, Answers
  <2>2. CASE /\ Covers(c)
             /\ call' = [call EXCEPT ![c].pc = "signing",
                                     ![c].counted = fees[SenderOf[c[1]]]]
             /\ UNCHANGED <<known, temp>>
    <3>1. /\ call'[c].pc = "signing" /\ call'[c].counted = fees[SenderOf[c[1]]]
          /\ call'[c].seen = call[c].seen
          /\ \A d \in Calls : d # c => call'[d] = call[d]
      BY <1>0, <2>2 DEF CallStates
    <3>2. call[c].pc = "checking" /\ call[c].seen >= fees[SenderOf[c[1]]] + 1
      BY <1>8, <2>2 DEF Check, Covers
    <3>3. call[c].seen \in Nat /\ fees[SenderOf[c[1]]] \in Nat
      BY <1>0 DEF CallStates
    <3>4. Counts(c)
      BY <3>1, <3>2, <3>3 DEF Counts
    <3>5. GoesOn(c)
      BY <2>2, <3>1, <3>2 DEF GoesOn, Under
    <3> QED BY <3>1, <3>4, <3>5 DEF Alone
  <2> QED BY <1>8, <2>1, <2>2 DEF Check
<1>9. CASE Fail(c)
  BY <1>3, <1>9 DEF Fail, Ends, Counts, Under, Answers
<1> QED BY <1>4, <1>5, <1>6, <1>7, <1>8, <1>9

\* Nothing of what the properties are about changes.
LEMMA StillStep ==
    ASSUME Types, UNCHANGED vars
    PROVE  /\ Types' /\ UNCHANGED <<ledger, balance, known, temp, fees, call, client,
                                    proposal, doubtful, Pooled, OnChain>>
<1>1. /\ UNCHANGED <<chain, pool, proposal, control>>
      /\ UNCHANGED <<ledger, balance, known, temp, fees, call, client, proposal,
                     doubtful>>
  BY DEF vars, chain, node
<1>2. UNCHANGED <<Pooled, OnChain>>
  BY <1>1 DEF Pooled, OnChain, chain
<1>3. Types'
  BY <1>1, StillTypes DEF Types, TypeOK, CallStates, ClientTypes
<1> QED BY <1>1, <1>2, <1>3

LEMMA TypesStep ==
    ASSUME Types, [Next]_vars
    PROVE  Types'
<1>1. CASE \E t \in Tx : Told(t) \/ GiveUp(t)
  BY <1>1, ClientStep
<1>2. CASE \E c \in Calls : \/ Receive(c) \/ Find(c) \/ Lookup(c) \/ ReadBalance(c)
                            \/ Check(c) \/ Fail(c)
  BY <1>2, RelayTypes
<1>3. CASE \E c \in Calls : Accept(c)
  BY <1>3, AcceptStep
<1>4. CASE Trim
  BY <1>4, TrimStep
<1>5. CASE Consensus
  BY <1>5, ProposeStep, StoreStep, FinishStep DEF Consensus
<1>6. CASE Pause \/ ResetNode \/ ResetChain
  BY <1>6, ResetStep
<1>7. CASE UNCHANGED vars
  BY <1>7, StillStep
<1> QED BY <1>1, <1>2, <1>3, <1>4, <1>5, <1>6, <1>7 DEF Next

LEMMA TypesAlways == Spec => []Types
<1>1. Init => Types
  BY TypesInit
<1>2. Types /\ [Next]_vars => Types'
  BY TypesStep
<1> QED BY <1>1, <1>2, PTL DEF Spec

\* The model has the types it is written for: in particular the balances of
\* the store stay naturals, and each pooled transaction has one place.
THEOREM TypeCorrect == Spec => []TypeOK
<1>1. Types => TypeOK
  BY DEF Types
<1> QED BY <1>1, TypesAlways, PTL

-----------------------------------------------------------------------------
(* The inductive invariant. *)

\* Everything the node holds has been relayed to it.
RelayedInv ==
    /\ Pooled \cup OnChain \cup known \cup temp \cup proposal.txs \subseteq Relayed
    /\ \A s \in Senders : fees[s] # 0 => \E t \in Relayed : SenderOf[t] = s
    /\ \A t \in Tx : client[t].pc = "ok" => t \in Relayed

\* One relay of a transaction at a time, and none of a transaction whose hash
\* is known, as all are that are in the pool or on the chain.
Hashed(t) ==
    /\ t \in Pooled \cup OnChain => t \in known
    /\ \A c \in Calls : c[1] = t /\ call[c].pc \in Under =>
          /\ t \in temp \ known
          /\ \A d \in Calls : d[1] = t /\ call[d].pc \in Under => d = c

HashesInv == \A t \in Tx \ doubtful : Hashed(t)

\* A transaction is in the pool, then in a block of the pool, then on the
\* chain, and leaves the pool when the block is done.
Placed(t) ==
    /\ \A i, j \in DOMAIN ledger : t \in ledger[i] \cap ledger[j] => i = j
    /\ t \in proposal.txs =>
          /\ proposal.pc = "made" => t \in Pooled \ OnChain
          /\ proposal.pc = "stored" => t \in OnChain
    /\ t \in OnChain \cap Pooled => proposal.pc = "stored" /\ t \in proposal.txs

BlockInv == \A t \in Tx \ doubtful : Placed(t)

\* Where a transaction is that the node has answered for.
Held(t) ==
    \/ t \in Pooled \cup OnChain \cup temp
    \/ \E c \in Calls : c[1] = t /\ call[c].pc \in {"refused", "failed"}

Kept(t) ==
    \/ t \in known
    \/ client[t].pc = "ok"
    \/ \E c \in Calls : c[1] = t /\ call[c].pc \in {"known", "accepted"}
    => Held(t)

HeldInv == \A t \in Tx \ doubtful : Kept(t)

\* What the account had, but for what others gave it, before its blocks.
Means(s) == balance[s] + Paying(s, OnChain)

\* The fees counted for an account cover what it has in the pool and on the
\* chain, and never exceed what it had; nor does a balance that a check read.
Covered(s) ==
    /\ Paying(s, Pooled \cup OnChain) <= fees[s]
    /\ fees[s] <= Means(s)
    /\ \A c \in Calls : SenderOf[c[1]] = s =>
          /\ call[c].pc \in {"checking", "signing"} => call[c].seen <= Means(s)
          /\ call[c].pc = "signing" => call[c].counted + 1 <= call[c].seen

FeesInv == \A s \in Senders : Settled(s) => Covered(s)

IndInv == Types /\ RelayedInv /\ HashesInv /\ BlockInv /\ HeldInv /\ FeesInv

-----------------------------------------------------------------------------
(* What has been relayed. *)

LEMMA RelayedCalls ==
    /\ \A t \in Tx : t \in Relayed <=> \E c \in Calls : c[1] = t /\ call[c].pc # "idle"
    /\ \A t \in Tx : t \in Relayed' <=> \E c \in Calls : c[1] = t /\ call'[c].pc # "idle"
<1>1. \A t \in Tx : \A n \in 1..Attempts[t] : <<t, n>> \in Calls /\ <<t, n>>[1] = t
  BY CallOf
<1>2. \A c \in Calls : c[2] \in 1..Attempts[c[1]] /\ c = <<c[1], c[2]>>
  BY CallParts
<1>3. \A t \in Tx :
         /\ t \in Relayed <=> \E n \in 1..Attempts[t] : call[<<t, n>>].pc # "idle"
         /\ t \in Relayed' <=> \E n \in 1..Attempts[t] : call'[<<t, n>>].pc # "idle"
  BY DEF Relayed
<1>4. ASSUME NEW c \in Calls, NEW t \in Tx, c[1] = t
      PROVE  \E n \in 1..Attempts[t] : c = <<t, n>>
  BY <1>2, <1>4
<1>5. ASSUME NEW t \in Tx
      PROVE  /\ t \in Relayed => \E c \in Calls : c[1] = t /\ call[c].pc # "idle"
             /\ t \in Relayed' => \E c \in Calls : c[1] = t /\ call'[c].pc # "idle"
  <2>1. ASSUME NEW n \in 1..Attempts[t]
        PROVE  /\ call[<<t, n>>].pc # "idle" =>
                     \E c \in Calls : c[1] = t /\ call[c].pc # "idle"
               /\ call'[<<t, n>>].pc # "idle" =>
                     \E c \in Calls : c[1] = t /\ call'[c].pc # "idle"
    BY <1>1
  <2> QED BY <1>3, <2>1, Zenon
<1>6. ASSUME NEW t \in Tx, NEW c \in Calls, c[1] = t
      PROVE  /\ call[c].pc # "idle" => t \in Relayed
             /\ call'[c].pc # "idle" => t \in Relayed'
  <2>1. PICK n \in 1..Attempts[t] : c = <<t, n>>
    BY <1>4, <1>6
  <2> QED BY <1>3, <2>1, Zenon
<1> QED BY <1>5, <1>6

LEMMA RelayedGrows ==
    ASSUME \A c \in Calls : call[c].pc # "idle" => call'[c].pc # "idle"
    PROVE  Relayed \subseteq Relayed'
<1>1. \A t \in Tx : t \in Relayed => t \in Relayed'
  BY RelayedCalls
<1> QED BY <1>1, RelayedType

LEMMA RelayedStep ==
    ASSUME Types, RelayedInv, [Next]_vars
    PROVE  RelayedInv'
<1> USE DEF RelayedInv
<1>0. /\ Relayed \subseteq Tx /\ "idle" \notin Under /\ fees \in [Senders -> Nat]
      /\ SenderOf \in [Tx -> Senders]
  BY RelayedType, ConstantsAssumption DEF Under, Types, TypeOK, ConstantsAssumption
<1>1. ASSUME NEW t \in Tx, Told(t) \/ GiveUp(t)
      PROVE  RelayedInv'
  <2>1. /\ UNCHANGED <<known, temp, fees, call, proposal>>
        /\ Pooled' = Pooled /\ OnChain' = OnChain
    BY <1>1, ClientStep DEF node, chain, Pooled, OnChain
  <2>2. Relayed' = Relayed
    BY <2>1 DEF Relayed
  <2>3. ASSUME NEW u \in Tx, client'[u].pc = "ok" PROVE u \in Relayed
    <3>1. CASE u # t
      BY <1>1, <2>3, <3>1, ClientStep
    <3>2. CASE u = t
      <4>1. /\ <<t, client[t].n>> \in Calls
            /\ call[<<t, client[t].n>>].pc \in {"known", "accepted"}
        BY <1>1, <2>3, <3>2, ClientStep
      <4> QED BY <3>2, <4>1, RelayedCalls
    <3> QED BY <3>1, <3>2
  <2> QED BY <2>1, <2>2, <2>3
<1>2. ASSUME NEW c \in Calls, \/ Receive(c) \/ Find(c) \/ Lookup(c) \/ ReadBalance(c)
                              \/ Check(c) \/ Fail(c)
      PROVE  RelayedInv'
  <2>1. /\ UNCHANGED <<fees, client, proposal, Pooled, OnChain>>
        /\ \A d \in Calls : d # c => call'[d] = call[d]
        /\ Repeats(c) \/ Begins(c) \/ GoesOn(c) \/ Ends(c)
    BY <1>2, RelayStep
  <2>2. /\ call'[c].pc # "idle"
        /\ known' \cup temp' \subseteq known \cup temp \cup {c[1]}
    BY <1>0, <2>1 DEF Repeats, Begins, GoesOn, Ends
  <2>3. Relayed \cup {c[1]} \subseteq Relayed'
    BY <2>1, <2>2, RelayedGrows, RelayedCalls, CallParts
  <2> QED BY <2>1, <2>2, <2>3
<1>3. ASSUME NEW c \in Calls, Accept(c)
      PROVE  RelayedInv'
  <2>1. /\ UNCHANGED <<client, proposal, OnChain>>
        /\ Pooled' = Pooled \cup {c[1]} /\ Enter(c, "accepted")
        /\ known' = known \cup {c[1]} /\ temp' = temp \ {c[1]}
        /\ fees' = [fees EXCEPT ![SenderOf[c[1]]] = fees[SenderOf[c[1]]] + 1]
    BY <1>3, AcceptStep
  <2>2. call'[c].pc # "idle" /\ \A d \in Calls : d # c => call'[d] = call[d]
    BY <2>1, EnterStep DEF Answers, Types
  <2>3. Relayed \cup {c[1]} \subseteq Relayed'
    BY <2>2, RelayedGrows, RelayedCalls, CallParts
  <2>4. \A s \in Senders : s # SenderOf[c[1]] => fees'[s] = fees[s]
    BY <1>0, <2>1
  <2> QED BY <2>1, <2>3, <2>4
<1> DEFINE There == (Pooled \cup OnChain \cup known \cup temp \cup proposal.txs)'
<1>4. CASE UNCHANGED <<fees, call, client>> /\ There \subseteq Relayed
  <2>1. Relayed' = Relayed
    BY <1>4 DEF Relayed
  <2> QED BY <1>4, <2>1
<1>5. CASE Trim
  BY <1>4, <1>5, TrimStep
<1>6. CASE Propose \/ BlockFails
  BY <1>4, <1>6, ProposeStep DEF node
<1>7. CASE StoreBlock
  BY <1>4, <1>7, StoreStep DEF node
<1>8. CASE FinishBlock
  BY <1>4, <1>8, FinishStep
<1>9. CASE Pause \/ ResetNode \/ ResetChain
  BY <1>4, <1>9, ResetStep DEF node
<1>10. CASE UNCHANGED vars
  BY <1>4, <1>10, StillStep
<1> QED BY <1>1, <1>2, <1>3, <1>5, <1>6, <1>7, <1>8, <1>9, <1>10 DEF Next, Consensus

-----------------------------------------------------------------------------
(* One relay at a time, of what the node does not know. *)

LEMMA CallNames == "idle" \notin Under /\ \A pc \in Answers : pc \notin Under
BY DEF Under, Answers

\* A step of relays that keeps the hashes of t right.
LEMMA HashedByCalls ==
    ASSUME Types, NEW t \in Tx, Hashed(t), NEW c \in Calls,
           UNCHANGED OnChain, Pooled' \subseteq Pooled \cup {c[1]},
           \A d \in Calls : d # c => call'[d] = call[d],
           \/ Repeats(c) /\ Pooled' = Pooled
           \/ Begins(c) /\ Pooled' = Pooled
           \/ GoesOn(c) /\ Pooled' = Pooled
           \/ Ends(c) /\ Pooled' = Pooled
           \/ /\ call[c].pc \in Under /\ call'[c].pc \notin Under
              /\ known' = known \cup {c[1]} /\ temp' = temp \ {c[1]}
    PROVE  Hashed(t)'
<1> USE CallNames DEF Hashed
<1>1. /\ "finding" \in Under /\ "known" \notin Under
      /\ "refused" \notin Under /\ "failed" \notin Under
  BY DEF Under
<1>2. t \in (Pooled \cup OnChain)' => t \in known'
  BY <1>1 DEF Repeats, Begins, GoesOn, Ends
<1>3. ASSUME NEW d \in Calls, d[1] = t, call'[d].pc \in Under,
             NEW e \in Calls, e[1] = t, call'[e].pc \in Under
      PROVE  t \in (temp \ known)' /\ e = d
  <2>1. CASE c[1] # t
    <3>1. call'[d] = call[d] /\ call'[e] = call[e]
      BY <1>3, <2>1
    <3>2. t \in temp \ known /\ e = d
      BY <1>3, <3>1
    <3> QED BY <2>1, <3>2 DEF Repeats, Begins, GoesOn, Ends
  <2>2. CASE c[1] = t /\ call[c].pc \in Under
    <3>1. \A f \in Calls : f[1] = t /\ call'[f].pc \in Under => f = c
      BY <2>2
    <3>2. d = c /\ e = c
      BY <1>3, <3>1
    <3>3. GoesOn(c)
      BY <1>1, <1>3, <2>2, <3>2 DEF Repeats, Begins, Ends
    <3> QED BY <2>2, <3>2, <3>3 DEF GoesOn
  <2>3. CASE c[1] = t /\ call[c].pc \notin Under /\ Repeats(c)
    <3>1. d # c /\ e # c
      BY <1>1, <1>3, <2>3 DEF Repeats
    <3> QED BY <1>3, <2>3, <3>1 DEF Repeats
  <2>4. CASE c[1] = t /\ call[c].pc \notin Under /\ Begins(c)
    <3>1. \A f \in Calls : f[1] = t => call[f].pc \notin Under
      BY <2>4 DEF Begins
    <3>2. d = c /\ e = c
      BY <1>3, <3>1
    <3> QED BY <2>4, <3>2 DEF Begins
  <2> QED BY <2>1, <2>2, <2>3, <2>4 DEF GoesOn, Ends
<1> QED BY <1>2, <1>3

LEMMA HashesStep ==
    ASSUME Types, RelayedInv, HashesInv, BlockInv, [Next]_vars
    PROVE  HashesInv'
<1> SUFFICES ASSUME NEW t \in Tx, t \notin doubtful'
             PROVE  Hashed(t)'
  BY DEF HashesInv
<1>0. ASSUME t \notin doubtful PROVE Hashed(t) /\ Placed(t)
  BY <1>0 DEF HashesInv, BlockInv
<1>1. CASE UNCHANGED <<Pooled, OnChain, known, temp, call, doubtful>>
  BY <1>0, <1>1 DEF Hashed
<1>2. ASSUME NEW u \in Tx, Told(u) \/ GiveUp(u)
      PROVE  Hashed(t)'
  BY <1>1, <1>2, ClientStep DEF node, chain, Pooled, OnChain
<1>3. ASSUME NEW c \in Calls, \/ Receive(c) \/ Find(c) \/ Lookup(c) \/ ReadBalance(c)
                              \/ Check(c) \/ Fail(c)
      PROVE  Hashed(t)'
  BY <1>0, <1>3, RelayStep, HashedByCalls
<1>4. ASSUME NEW c \in Calls, Accept(c)
      PROVE  Hashed(t)'
  <2>1. /\ UNCHANGED OnChain /\ Pooled' = Pooled \cup {c[1]}
        /\ call[c].pc = "signing" /\ Enter(c, "accepted") /\ t \notin doubtful
        /\ known' = known \cup {c[1]} /\ temp' = temp \ {c[1]}
    BY <1>4, AcceptStep
  <2>2. call'[c].pc = "accepted" /\ \A d \in Calls : d # c => call'[d] = call[d]
    BY <2>1, EnterStep DEF Answers, Types
  <2>3. call[c].pc \in Under /\ call'[c].pc \notin Under
    BY <2>1, <2>2 DEF Under
  <2> QED BY <1>0, <2>1, <2>2, <2>3, HashedByCalls
<1>5. CASE Trim
  BY <1>0, <1>5, TrimStep DEF Hashed
<1>6. CASE Propose \/ BlockFails
  BY <1>1, <1>6, ProposeStep DEF node
<1>7. CASE StoreBlock
  BY <1>0, <1>7, StoreStep DEF Hashed, Placed, node
<1>8. CASE FinishBlock
  BY <1>0, <1>8, FinishStep DEF Hashed, Placed
<1>9. CASE Pause \/ ResetNode \/ ResetChain
  <2>1. CASE UNCHANGED <<chain, node, doubtful, Pooled, OnChain>>
    BY <1>1, <1>9, <2>1, ResetStep DEF node
  <2>2. CASE doubtful' = doubtful \cup Relayed
    <3>1. \A c \in Calls : c[1] = t => call'[c].pc \notin Under
      BY <1>9, <2>2, ResetStep, RelayedCalls, CallNames
    <3>2. t \notin (Pooled \cup OnChain)'
      BY <1>9, <2>2, ResetStep DEF RelayedInv
    <3> QED BY <3>1, <3>2 DEF Hashed
  <2> QED BY <1>9, <2>1, <2>2, ResetStep
<1>10. CASE UNCHANGED vars
  BY <1>1, <1>10, StillStep
<1> QED BY <1>2, <1>3, <1>4, <1>5, <1>6, <1>7, <1>8, <1>9, <1>10 DEF Next, Consensus

-----------------------------------------------------------------------------
(* One block for each transaction. *)

LEMMA BlockStep ==
    ASSUME Types, RelayedInv, HashesInv, BlockInv, [Next]_vars
    PROVE  BlockInv'
<1> SUFFICES ASSUME NEW t \in Tx, t \notin doubtful'
             PROVE  Placed(t)'
  BY DEF BlockInv
<1>0. ASSUME t \notin doubtful PROVE Hashed(t) /\ Placed(t)
  BY <1>0 DEF HashesInv, BlockInv
<1>1. CASE UNCHANGED <<ledger, Pooled, OnChain, proposal, doubtful>>
  BY <1>0, <1>1 DEF Placed
<1>2. ASSUME NEW u \in Tx, Told(u) \/ GiveUp(u)
      PROVE  Placed(t)'
  BY <1>1, <1>2, ClientStep DEF node, chain, Pooled, OnChain
<1>3. ASSUME NEW c \in Calls, \/ Receive(c) \/ Find(c) \/ Lookup(c) \/ ReadBalance(c)
                              \/ Check(c) \/ Fail(c)
      PROVE  Placed(t)'
  BY <1>1, <1>3, RelayStep
<1>4. ASSUME NEW c \in Calls, Accept(c)
      PROVE  Placed(t)'
  <2>1. /\ UNCHANGED <<ledger, proposal, OnChain>> /\ Pooled' = Pooled \cup {c[1]}
        /\ call[c].pc \in Under /\ t \notin doubtful
    BY <1>4, AcceptStep DEF chain, Under
  <2>2. t \in Pooled' \ Pooled => t \notin OnChain
    BY <1>0, <2>1 DEF Hashed
  <2> QED BY <1>0, <2>1, <2>2 DEF Placed
<1>5. CASE Trim
  BY <1>0, <1>5, TrimStep DEF Placed, chain
<1>6. CASE Propose \/ BlockFails
  BY <1>0, <1>6, ProposeStep DEF Placed, chain
<1>7. CASE StoreBlock
  <2> DEFINE P == proposal.txs
             n == Len(ledger) + 1
  <2>1. /\ UNCHANGED <<Pooled, doubtful>> /\ OnChain' = OnChain \cup P
        /\ proposal.pc = "made" /\ proposal'.pc = "stored" /\ proposal'.txs = P
        /\ \/ ledger' = ledger /\ P = {}
           \/ ledger' = Append(ledger, P)
    BY <1>7, StoreStep
  <2>2. Placed(t)
    BY <1>0, <2>1
  <2>3. \A i, j \in DOMAIN ledger' : t \in ledger'[i] \cap ledger'[j] => i = j
    <3>1. CASE ledger' = ledger
      BY <2>2, <3>1 DEF Placed
    <3>2. CASE ledger' = Append(ledger, P)
      <4>1. /\ DOMAIN ledger' = DOMAIN ledger \cup {n} /\ ledger'[n] = P
            /\ \A i \in DOMAIN ledger : ledger'[i] = ledger[i]
        BY <3>2, AppendChain DEF Types, TypeOK
      <4>2. t \in P => \A i \in DOMAIN ledger : t \notin ledger[i]
        BY <2>1, <2>2 DEF Placed, OnChain
      <4> HIDE DEF n, P
      <4> QED BY <2>2, <4>1, <4>2 DEF Placed
    <3> QED BY <2>1, <3>1, <3>2
  <2> QED BY <2>1, <2>2, <2>3 DEF Placed
<1>8. CASE FinishBlock
  BY <1>0, <1>8, FinishStep DEF Placed, chain
<1>9. CASE Pause \/ ResetNode \/ ResetChain
  <2>1. CASE UNCHANGED <<chain, node, doubtful, Pooled, OnChain>>
    BY <1>1, <1>9, <2>1, ResetStep DEF chain
  <2>2. CASE doubtful' = doubtful \cup Relayed
    <3>1. t \notin Pooled \cup OnChain \cup proposal.txs
      BY <2>2 DEF RelayedInv
    <3>2. \A i \in DOMAIN ledger' : t \notin ledger'[i]
      <4>1. CASE ledger' = <<>>
        BY <4>1
      <4>2. CASE ledger' = ledger
        BY <3>1, <4>2 DEF OnChain
      <4> QED BY <1>9, <4>1, <4>2, ResetStep DEF chain
    <3>3. t \notin (Pooled \cup OnChain \cup proposal.txs)'
      BY <1>9, <3>1, ResetStep
    <3> QED BY <3>2, <3>3 DEF Placed
  <2> QED BY <1>9, <2>1, <2>2, ResetStep
<1>10. CASE UNCHANGED vars
  BY <1>1, <1>10, StillStep
<1> QED BY <1>2, <1>3, <1>4, <1>5, <1>6, <1>7, <1>8, <1>9, <1>10 DEF Next, Consensus

-----------------------------------------------------------------------------
(* What the node answers for. *)

LEMMA HeldStep ==
    ASSUME Types, RelayedInv, BlockInv, HeldInv, [Next]_vars
    PROVE  HeldInv'
<1> SUFFICES ASSUME NEW t \in Tx, t \notin doubtful'
             PROVE  Kept(t)'
  BY DEF HeldInv
<1>0. ASSUME t \notin doubtful PROVE Kept(t) /\ Placed(t)
  BY <1>0 DEF HeldInv, BlockInv
<1> USE DEF Kept, Held
<1>1. CASE /\ UNCHANGED <<client, call, temp, known, doubtful>>
           /\ Pooled \cup OnChain \subseteq (Pooled \cup OnChain)'
  BY <1>0, <1>1
<1>2. ASSUME NEW u \in Tx, Told(u) \/ GiveUp(u)
      PROVE  Kept(t)'
  <2>1. UNCHANGED <<call, known, temp, doubtful, Pooled, OnChain>>
    BY <1>2, ClientStep DEF node, chain, Pooled, OnChain
  <2>2. CASE t = u /\ client'[t].pc = "ok"
    <3>1. PICK c \in Calls : c[1] = t /\ call[c].pc \in {"known", "accepted"}
      BY <1>2, <2>2, ClientStep
    <3> QED BY <1>0, <2>1, <3>1
  <2>3. CASE t # u \/ client'[t].pc # "ok"
    BY <1>0, <1>2, <2>1, <2>3, ClientStep
  <2> QED BY <2>2, <2>3
<1>3. ASSUME NEW c \in Calls, \/ Receive(c) \/ Find(c) \/ Lookup(c) \/ ReadBalance(c)
                              \/ Check(c) \/ Fail(c)
      PROVE  Kept(t)'
  <2>1. /\ UNCHANGED <<client, doubtful, Pooled, OnChain>>
        /\ \A d \in Calls : d # c => call'[d] = call[d]
        /\ Repeats(c) \/ Begins(c) \/ GoesOn(c) \/ Ends(c)
    BY <1>3, RelayStep
  <2>2. call[c].pc \notin Answers
    BY <2>1, CallNames DEF Repeats, Begins, GoesOn, Ends, Answers
  <2>3. \A d \in Calls : call[d].pc \in Answers => call'[d] = call[d]
    BY <2>1, <2>2
  <2>4. Kept(t)
    BY <1>0, <2>1
  <2>5. CASE c[1] # t
    <3>1. /\ \A d \in Calls : d[1] = t => call'[d] = call[d]
          /\ t \in known' <=> t \in known
          /\ t \in temp' <=> t \in temp
      BY <2>1, <2>5 DEF Repeats, Begins, GoesOn, Ends
    <3> QED BY <2>1, <2>4, <3>1
  <2>6. CASE c[1] = t /\ (Repeats(c) \/ Begins(c) \/ GoesOn(c))
    <3>1. /\ temp \subseteq temp' /\ known' = known
          /\ call'[c].pc \in {"known", "accepted"} => t \in temp \cup known
      BY <2>6, CallNames DEF Repeats, Begins, GoesOn, Under
    <3>2. Held(t) => Held(t)'
      BY <2>1, <2>3, <3>1 DEF Answers
    <3> QED BY <2>1, <2>4, <3>1, <3>2
  <2>7. CASE c[1] = t /\ Ends(c)
    <3>1. t \in OnChain \/ call'[c].pc \in {"refused", "failed"}
      BY <2>7 DEF Ends
    <3> QED BY <2>1, <2>7, <3>1
  <2> QED BY <2>1, <2>5, <2>6, <2>7
<1>4. ASSUME NEW c \in Calls, Accept(c)
      PROVE  Kept(t)'
  <2>1. /\ UNCHANGED <<client, OnChain>> /\ Pooled' = Pooled \cup {c[1]}
        /\ call[c].pc = "signing" /\ Enter(c, "accepted") /\ t \notin doubtful
        /\ known' = known \cup {c[1]} /\ temp' = temp \ {c[1]}
    BY <1>4, AcceptStep
  <2>2. call'[c].pc = "accepted" /\ \A d \in Calls : d # c => call'[d] = call[d]
    BY <2>1, EnterStep DEF Answers, Types
  <2>3. CASE c[1] = t
    BY <2>1, <2>3
  <2>4. CASE c[1] # t
    BY <1>0, <2>1, <2>2, <2>4
  <2> QED BY <2>3, <2>4
<1>5. CASE Trim
  BY <1>0, <1>5, TrimStep
<1>6. CASE Propose \/ BlockFails
  BY <1>1, <1>6, ProposeStep DEF node
<1>7. CASE StoreBlock
  BY <1>1, <1>7, StoreStep DEF node
<1>8. CASE FinishBlock
  <2>1. /\ UNCHANGED <<call, client, temp, doubtful>> /\ OnChain' = OnChain
        /\ Pooled' = Pooled \ proposal.txs /\ known' = known \cup proposal.txs
    BY <1>8, FinishStep
  <2>2. t \in proposal.txs => t \in OnChain
    BY <1>0, <1>8, <2>1, FinishStep DEF Placed
  <2> QED BY <1>0, <2>1, <2>2
<1>9. CASE Pause \/ ResetNode \/ ResetChain
  <2>1. CASE UNCHANGED <<chain, node, doubtful, Pooled, OnChain>>
    BY <1>1, <1>9, <2>1, ResetStep DEF node
  <2>2. CASE doubtful' = doubtful \cup Relayed
    <3>1. t \notin known' /\ client'[t].pc # "ok"
      BY <1>9, <2>2, ResetStep DEF RelayedInv, node
    <3>2. \A c \in Calls : c[1] = t => call'[c].pc \notin {"known", "accepted"}
      BY <1>9, <2>2, ResetStep, RelayedCalls
    <3> QED BY <3>1, <3>2
  <2> QED BY <1>9, <2>1, <2>2, ResetStep
<1>10. CASE UNCHANGED vars
  BY <1>1, <1>10, StillStep
<1> QED BY <1>2, <1>3, <1>4, <1>5, <1>6, <1>7, <1>8, <1>9, <1>10 DEF Next, Consensus

-----------------------------------------------------------------------------
(* The fees. *)

LEMMA MeansType ==
    ASSUME Types, NEW s \in Senders
    PROVE  /\ Paying(s, OnChain) \in Nat /\ Paying(s, Pooled \cup OnChain) \in Nat
           /\ balance[s] \in Nat /\ fees[s] \in Nat /\ Means(s) \in Nat
<1>1. IsFiniteSet(OnChain) /\ IsFiniteSet(Pooled \cup OnChain)
  BY FS_Union DEF Types, Finite
<1>2. Paying(s, OnChain) \in Nat /\ Paying(s, Pooled \cup OnChain) \in Nat
  BY <1>1, CountType
<1> QED BY <1>2 DEF Means, Types, TypeOK

LEMMA MeansTypePrime ==
    ASSUME Types', NEW s \in Senders
    PROVE  balance'[s] \in Nat /\ Means(s)' \in Nat
<1>1. IsFiniteSet(OnChain)' /\ balance'[s] \in Nat
  BY DEF Types, TypeOK, Finite
<1>2. Paying(s, OnChain') \in Nat
  BY <1>1, CountType
<1> QED BY <1>1, <1>2 DEF Means

\* A transaction stays doubtful, and one that leaves the chain becomes so.
LEMMA SettledBefore ==
    ASSUME Types, RelayedInv, [Next]_vars, NEW s \in Senders, Settled(s)'
    PROVE  Settled(s)
<1>1. doubtful \subseteq doubtful' /\ OnChain \subseteq OnChain' \cup doubtful'
  <2>1. ASSUME NEW t \in Tx, Told(t) \/ GiveUp(t)
        PROVE  UNCHANGED doubtful /\ OnChain' = OnChain
    BY <2>1, ClientStep DEF chain, OnChain
  <2>2. ASSUME NEW c \in Calls, \/ Receive(c) \/ Find(c) \/ Lookup(c) \/ ReadBalance(c)
                                \/ Check(c) \/ Fail(c)
        PROVE  UNCHANGED doubtful /\ OnChain' = OnChain
    BY <2>2, RelayStep
  <2>3. ASSUME NEW c \in Calls, Accept(c)
        PROVE  doubtful \subseteq doubtful' /\ OnChain' = OnChain
    BY <2>3, AcceptStep
  <2>4. CASE Trim
    BY <2>4, TrimStep
  <2>5. CASE Consensus
    BY <2>5, ProposeStep, StoreStep, FinishStep DEF Consensus
  <2>6. CASE Pause \/ ResetNode \/ ResetChain
    BY <2>6, ResetStep DEF RelayedInv
  <2>7. CASE UNCHANGED vars
    BY <2>7, StillStep
  <2> QED BY <2>1, <2>2, <2>3, <2>4, <2>5, <2>6, <2>7 DEF Next
<1> QED BY <1>1 DEF Settled

\* Neither fees nor balances change, and nothing enters the pool.
LEMMA CoveredStill ==
    ASSUME Types, NEW s \in Senders, Covered(s),
           UNCHANGED <<balance, fees, call, OnChain>>, Pooled' \subseteq Pooled
    PROVE  Covered(s)'
<1>1. IsFiniteSet(Pooled \cup OnChain)
  BY FS_Union DEF Types, Finite
<1>2. Paying(s, Pooled' \cup OnChain) <= Paying(s, Pooled \cup OnChain)
  BY <1>1, PayingMonotone
<1>3. IsFiniteSet(Pooled' \cup OnChain)
  BY <1>1, FS_Subset
<1>4. Paying(s, Pooled' \cup OnChain) \in Nat
  BY <1>3, CountType
<1>5. Paying(s, Pooled \cup OnChain)' <= fees'[s]
  <2>1. Paying(s, Pooled \cup OnChain)' = Paying(s, Pooled' \cup OnChain)
    BY DEF Paying
  <2>2. Paying(s, Pooled \cup OnChain) \in Nat /\ fees[s] \in Nat /\ fees' = fees
    BY MeansType
  <2>3. Paying(s, Pooled \cup OnChain) <= fees[s]
    BY DEF Covered
  <2> QED BY <1>2, <1>4, <2>1, <2>2, <2>3
<1>6. Means(s)' = Means(s)
  BY DEF Means, Paying
<1> QED BY <1>5, <1>6 DEF Covered

LEMMA FeesStep ==
    ASSUME Types, RelayedInv, BlockInv, FeesInv, [Next]_vars
    PROVE  FeesInv'
<1> SUFFICES ASSUME NEW s \in Senders, Settled(s)'
             PROVE  Covered(s)'
  BY DEF FeesInv
<1>0. Settled(s) /\ Covered(s)
  BY SettledBefore DEF FeesInv
<1>t. /\ Paying(s, OnChain) \in Nat /\ Paying(s, Pooled \cup OnChain) \in Nat
      /\ balance[s] \in Nat /\ fees[s] \in Nat /\ Means(s) \in Nat
      /\ \A c \in Calls : call[c].seen \in Nat /\ call[c].counted \in Nat
      /\ fees \in [Senders -> Nat]
      /\ IsFiniteSet(OnChain) /\ IsFiniteSet(Pooled \cup OnChain)
      /\ IsFiniteSet(proposal.txs)
  BY MeansType, FS_Union DEF Types, TypeOK, Finite
<1>1. ASSUME NEW u \in Tx, Told(u) \/ GiveUp(u)
      PROVE  Covered(s)'
  BY <1>0, <1>1, ClientStep, CoveredStill DEF node, chain, Pooled, OnChain
<1>2. ASSUME NEW c \in Calls, \/ Receive(c) \/ Find(c) \/ Lookup(c) \/ ReadBalance(c)
                              \/ Check(c) \/ Fail(c)
      PROVE  Covered(s)'
  <2>1. /\ UNCHANGED <<balance, fees, Pooled, OnChain>>
        /\ \A d \in Calls : d # c => call'[d] = call[d]
        /\ Counts(c)
    BY <1>2, RelayStep
  <2>2. /\ Means(s)' = Means(s)
        /\ Paying(s, Pooled \cup OnChain)' = Paying(s, Pooled \cup OnChain)
    BY <2>1 DEF Means, Paying
  <2>3. balance[s] <= Means(s)
    BY <1>t DEF Means
  <2>4. SenderOf[c[1]] = s =>
           /\ call'[c].pc \in {"checking", "signing"} => call'[c].seen <= Means(s)
           /\ call'[c].pc = "signing" => call'[c].counted + 1 <= call'[c].seen
    BY <1>0, <2>1, <2>3 DEF Counts, Covered
  <2> QED BY <1>0, <2>1, <2>2, <2>4 DEF Covered
<1>3. ASSUME NEW c \in Calls, Accept(c)
      PROVE  Covered(s)'
  <2> DEFINE S == Pooled \cup OnChain
  <2>1. /\ UNCHANGED <<chain, OnChain>> /\ Pooled' = Pooled \cup {c[1]}
        /\ call[c].pc = "signing" /\ Enter(c, "accepted")
        /\ fees' = [fees EXCEPT ![SenderOf[c[1]]] = fees[SenderOf[c[1]]] + 1]
        /\ doubtful' = doubtful \cup
              (IF fees[SenderOf[c[1]]] # call[c].counted THEN {c[1]} ELSE {})
    BY <1>3, AcceptStep
  <2>2. call'[c].pc = "accepted" /\ \A d \in Calls : d # c => call'[d] = call[d]
    BY <2>1, EnterStep DEF Answers, Types
  <2>3. Means(s)' = Means(s) /\ Paying(s, Pooled \cup OnChain)' = Paying(s, S \cup {c[1]})
    <3>1. (Pooled \cup OnChain)' = S \cup {c[1]} /\ balance' = balance
      BY <2>1 DEF chain
    <3> QED BY <2>1, <3>1 DEF Means, Paying
  <2>4. /\ Paying(s, S \cup {c[1]}) <= Paying(s, S) + 1
        /\ SenderOf[c[1]] # s => Paying(s, S \cup {c[1]}) = Paying(s, S)
    BY <1>t, PayingAdd
  <2>5. Paying(s, S \cup {c[1]}) \in Nat
    <3>1. IsFiniteSet(S \cup {c[1]})
      BY <1>t, FS_AddElement
    <3> QED BY <3>1, CountType
  <2>6. \A d \in Calls : SenderOf[d[1]] = s =>
           /\ call'[d].pc \in {"checking", "signing"} => call'[d].seen <= Means(s)
           /\ call'[d].pc = "signing" => call'[d].counted + 1 <= call'[d].seen
    BY <1>0, <2>2 DEF Covered
  <2>7. CASE SenderOf[c[1]] # s
    <3>1. fees'[s] = fees[s]
      BY <1>t, <2>1, <2>7
    <3> QED BY <1>0, <2>3, <2>4, <2>6, <2>7, <3>1 DEF Covered
  <2>8. CASE SenderOf[c[1]] = s
    <3>1. fees'[s] = fees[s] + 1
      BY <1>t, <2>1, <2>8
    <3>2. fees[s] = call[c].counted
      BY <2>1, <2>8, CallParts DEF Settled
    <3>3. fees[s] + 1 <= Means(s)
      <4>1. call[c].counted + 1 <= call[c].seen /\ call[c].seen <= Means(s)
        BY <1>0, <2>1, <2>8 DEF Covered
      <4> QED BY <1>t, <3>2, <4>1
    <3>4. Paying(s, S) <= fees[s]
      BY <1>0 DEF Covered
    <3>5. Paying(s, S \cup {c[1]}) <= fees[s] + 1
      <4> HIDE DEF S
      <4>1. Paying(s, S) \in Nat
        BY <1>t DEF S
      <4> QED BY <1>t, <2>4, <2>5, <3>4, <4>1
    <3> QED BY <2>3, <2>6, <3>1, <3>3, <3>5 DEF Covered
  <2> QED BY <2>7, <2>8
<1>4. CASE Trim
  BY <1>0, <1>4, TrimStep, CoveredStill DEF chain
<1>5. CASE Propose \/ BlockFails
  BY <1>0, <1>5, ProposeStep, CoveredStill DEF chain, node
<1>6. CASE StoreBlock
  <2> DEFINE P == proposal.txs
  <2>1. /\ UNCHANGED <<fees, call, doubtful>> /\ Pooled' = Pooled
        /\ OnChain' = OnChain \cup P /\ proposal.pc = "made"
        /\ (\A t \in P : SenderOf[t] = s => PaysTo[t] = s)
              => balance'[s] + Paying(s, P) >= balance[s]
        /\ Types'
    BY <1>6, StoreStep DEF node
  <2>2. P \subseteq Tx
    BY DEF Types, TypeOK
  <2>3. \A t \in P : SenderOf[t] = s => PaysTo[t] = s /\ t \in Pooled \ OnChain
    BY <2>1, <2>2 DEF Settled, BlockInv, Placed
  <2>4. Paying(s, Pooled \cup OnChain)' = Paying(s, Pooled \cup OnChain)
    <3>1. {t \in (Pooled \cup OnChain)' : SenderOf[t] = s}
             = {t \in Pooled \cup OnChain : SenderOf[t] = s}
      BY <2>1, <2>3
    <3> QED BY <3>1 DEF Paying
  <2>5. Means(s) <= Means(s)'
    <3>1. Paying(s, OnChain \cup P) = Paying(s, OnChain) + Paying(s, P)
      BY <1>t, <2>3, PayingUnion
    <3>2. Paying(s, OnChain)' = Paying(s, OnChain \cup P)
      BY <2>1 DEF Paying
    <3>3. balance'[s] \in Nat /\ Paying(s, P) \in Nat
      BY <1>t, <2>1, CountType DEF Types, TypeOK
    <3>4. balance'[s] + Paying(s, P) >= balance[s]
      BY <2>1, <2>3
    <3> HIDE DEF P
    <3> QED BY <1>t, <3>1, <3>2, <3>3, <3>4 DEF Means
  <2>6. Means(s)' \in Nat
    BY <2>1, MeansTypePrime
  <2>7. fees[s] <= Means(s)'
    BY <1>0, <1>t, <2>5, <2>6 DEF Covered
  <2>8. \A c \in Calls : SenderOf[c[1]] = s =>
           /\ call[c].pc \in {"checking", "signing"} => call[c].seen <= Means(s)'
           /\ call[c].pc = "signing" => call[c].counted + 1 <= call[c].seen
    BY <1>0, <1>t, <2>5, <2>6 DEF Covered
  <2> QED BY <1>0, <2>1, <2>4, <2>7, <2>8 DEF Covered
<1>7. CASE FinishBlock
  BY <1>0, <1>7, FinishStep, CoveredStill DEF chain
<1>8. CASE Pause \/ ResetNode \/ ResetChain
  <2>1. CASE /\ UNCHANGED <<chain, OnChain>>
             /\ Pooled' \subseteq Pooled
    BY <1>0, <1>8, <2>1, ResetStep, CoveredStill DEF chain
  <2>2. CASE doubtful' = doubtful \cup Relayed
    <3>1. \A t \in Relayed : SenderOf[t] # s
      BY <2>2, RelayedType DEF Settled
    <3>2. fees'[s] = 0
      BY <1>8, <3>1, ResetStep DEF RelayedInv
    <3>3. \A c \in Calls : SenderOf[c[1]] = s => call'[c].pc = "idle"
      BY <1>8, <3>1, ResetStep, RelayedCalls, CallParts
    <3>4. Means(s)' \in Nat
      BY <1>8, ResetStep, MeansTypePrime
    <3>5. Paying(s, Pooled \cup OnChain)' = 0
      <4>1. (Pooled \cup OnChain)' \subseteq Relayed
        BY <1>8, <2>2, ResetStep DEF RelayedInv
      <4>2. {t \in (Pooled \cup OnChain)' : SenderOf[t] = s} = {}
        BY <3>1, <4>1
      <4> QED BY <4>2, FS_EmptySet, Zenon DEF Paying
    <3> QED BY <3>2, <3>3, <3>4, <3>5 DEF Covered
  <2> QED BY <1>8, <2>1, <2>2, ResetStep
<1>9. CASE UNCHANGED vars
  BY <1>0, <1>9, StillStep, CoveredStill
<1> QED BY <1>1, <1>2, <1>3, <1>4, <1>5, <1>6, <1>7, <1>8, <1>9 DEF Next, Consensus

-----------------------------------------------------------------------------
(* The theorems. *)

LEMMA IndInit == Init => IndInv
<1> SUFFICES ASSUME Init PROVE IndInv
  OBVIOUS
<1>1. Types
  BY TypesInit
<1>2. /\ Pooled = {} /\ OnChain = {} /\ known = {} /\ temp = {} /\ proposal.txs = {}
      /\ ledger = <<>> /\ \A t \in Tx : client[t].pc = "waiting"
      /\ \A c \in Calls : call[c].pc = "idle"
      /\ \A s \in Senders : fees[s] = 0
  BY DEF Init, Pooled, OnChain, Empty, At
<1>3. RelayedInv
  BY <1>2 DEF RelayedInv
<1>4. HashesInv /\ BlockInv
  BY <1>2, CallNames DEF HashesInv, Hashed, BlockInv, Placed
<1>5. HeldInv
  BY <1>2 DEF HeldInv, Kept
<1>6. FeesInv
  <2>1. ASSUME NEW s \in Senders PROVE Covered(s)
    <3>1. Paying(s, {}) = 0
      <4>1. {t \in {} : SenderOf[t] = s} = {}
        OBVIOUS
      <4> QED BY <4>1, FS_EmptySet, Zenon DEF Paying
    <3>2. Pooled \cup OnChain = {} /\ Means(s) \in Nat
      BY <1>1, <1>2, MeansType
    <3>3. Paying(s, Pooled \cup OnChain) = 0
      BY <3>1, <3>2, Zenon
    <3> QED BY <1>2, <3>2, <3>3 DEF Covered
  <2> QED BY <2>1 DEF FeesInv
<1> QED BY <1>1, <1>3, <1>4, <1>5, <1>6 DEF IndInv

LEMMA IndAlways == Spec => []IndInv
<1>1. Init => IndInv
  BY IndInit
<1>2. IndInv /\ [Next]_vars => IndInv'
  BY TypesStep, RelayedStep, HashesStep, BlockStep, HeldStep, FeesStep DEF IndInv
<1> QED BY <1>1, <1>2, PTL DEF Spec

\* A transaction gets on the chain once: relays of one transaction exclude
\* each other, and one that is known is never accepted again.
THEOREM OncePerChainCorrect == Spec => []OncePerChain
<1>1. IndInv => OncePerChain
  BY DEF IndInv, BlockInv, Placed, OncePerChain
<1> QED BY <1>1, IndAlways, PTL

\* Fees are counted before a transaction enters the pool and never given
\* back, so what a check read of the balance stays enough.
THEOREM AffordableCorrect == Spec => []Affordable
<1>1. ASSUME IndInv, NEW s \in Senders, Settled(s) PROVE Owed(s) <= balance[s]
  <2>1. Covered(s) /\ Types
    BY <1>1 DEF IndInv, FeesInv
  <2>2. IsFiniteSet(OnChain) /\ IsFiniteSet(Pooled \ OnChain)
    BY <2>1, FS_Subset, FS_Difference DEF Types, Finite
  <2>3. (Pooled \ OnChain) \cup OnChain = Pooled \cup OnChain
    OBVIOUS
  <2>4. Paying(s, Pooled \cup OnChain) = Paying(s, Pooled \ OnChain) + Paying(s, OnChain)
    <3>1. Paying(s, (Pooled \ OnChain) \cup OnChain)
             = Paying(s, Pooled \ OnChain) + Paying(s, OnChain)
      BY <2>2, PayingUnion
    <3> QED BY <2>3, <3>1
  <2>5. Paying(s, Pooled \ OnChain) \in Nat
    BY <2>2, CountType
  <2>6. /\ Paying(s, Pooled \cup OnChain) <= fees[s]
        /\ fees[s] <= balance[s] + Paying(s, OnChain)
    BY <2>1 DEF Covered, Means
  <2> QED BY <2>1, <2>4, <2>5, <2>6, MeansType DEF Owed
<1>2. IndInv => Affordable
  BY <1>1 DEF Affordable
<1> QED BY <1>2, IndAlways, PTL

\* What the client takes for sent is in the pool or on the chain, or was
\* turned away, or is still verified, whatever got lost or came late.
THEOREM SentIsKeptCorrect == Spec => []SentIsKept
<1>1. ASSUME IndInv, NEW t \in Tx \ doubtful, client[t].pc = "ok"
      PROVE  \/ t \in Pooled \cup OnChain \cup temp
             \/ \E n \in 1..Attempts[t] : call[<<t, n>>].pc \in {"refused", "failed"}
  <2>1. Held(t)
    BY <1>1 DEF IndInv, HeldInv, Kept
  <2>2. ASSUME NEW c \in Calls, c[1] = t, call[c].pc \in {"refused", "failed"}
        PROVE  \E n \in 1..Attempts[t] : call[<<t, n>>].pc \in {"refused", "failed"}
    <3>1. c[2] \in 1..Attempts[t] /\ c = <<t, c[2]>>
      BY <2>2, CallParts
    <3>2. call[<<t, c[2]>>].pc \in {"refused", "failed"}
      BY <2>2, <3>1, Zenon
    <3> QED BY <3>1, <3>2
  <2> QED BY <2>1, <2>2 DEF Held
<1>2. IndInv => SentIsKept
  BY <1>1 DEF SentIsKept
<1> QED BY <1>2, IndAlways, PTL
=============================================================================
