---------------------------- MODULE MCNetworkPeers ----------------------------
(***************************************************************************)
(* Values for the constants of NetworkPeers: a node that is dialled and    *)
(* dials in, this node's own address, and a second peer.  Three            *)
(* connections to one endpoint are needed for one that lost its flag to be *)
(* overtaken by another.                                                   *)
(***************************************************************************)
EXTENDS NetworkPeers

CONSTANTS o1, o2, i1, n1, n2

\* Room for a stale connection to o1 and two rival ones.
RivalConns == ({o1} \X (1..3)) \cup {<<i1, 1>>}

\* Room for one dead connection per endpoint.
DialConns == ({o1} \X (1..2)) \cup {<<o2, 1>>}

\* The first endpoint and the accepted one are the same node's.
TwoNodes == [e \in Endpoints |-> IF e = o2 THEN n2 ELSE n1]
=============================================================================
