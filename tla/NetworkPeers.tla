----------------------------- MODULE NetworkPeers ------------------------------
(***************************************************************************)
(* The connections of one node: Network of packages/neo-one-node-network   *)
(* with the Peer it holds per socket, and the negotiation and the choice   *)
(* of the best peer, which Node of packages/neo-one-node-protocol does in  *)
(* callbacks.  connectToPeer awaits three times between its check of an    *)
(* endpoint and the entry it makes for it; sockets close, peers are        *)
(* dropped and the network stops at any of those points.                   *)
(*                                                                         *)
(* A connection is an endpoint and a number: the tables of Network are     *)
(* keyed by the endpoint alone.  Endpoints are taken as normalized, with   *)
(* no host "localhost".  How far the peers' chains have got is left out:   *)
(* the highest peer may be any whose height is known.                      *)
(***************************************************************************)
EXTENDS Integers, FiniteSets

CONSTANTS
    Conns,          \* bound: room for connections, pairs <<endpoint, number>>
    Outbound,       \* endpoints the node may come to know of and dial
    Inbound,        \* endpoints sockets are accepted from
    Seeds,          \* options.seeds
    PeerSeeds,      \* options.peerSeeds
    Nonces,         \* nonces of the nodes
    RemoteOf,       \* the nonce of the node behind an endpoint
    Self,           \* this node's nonce
    MaxPeers,       \* options.maxConnectedPeers
    MayReset,       \* whether the RPC method "reset" is ever called
    NoPeer          \* no connection

Endpoints == Outbound \cup Inbound

ASSUME PeersAssumption ==
    /\ Conns \subseteq Endpoints \X Nat
    /\ Outbound \cap Inbound = {}
    /\ Seeds \cup PeerSeeds \subseteq Outbound
    /\ RemoteOf \in [Endpoints -> Nonces]
    /\ MaxPeers \in Nat
    /\ MayReset \in BOOLEAN
    /\ NoPeer \notin Conns

VARIABLES
    conn,           \* each connection: its connectToPeer and its socket
    connecting,     \* mutableConnectingPeers
    connected,      \* mutableConnectedPeers
    known,          \* unconnectedPeers
    prelist,        \* mutableBadEndpointsPrelist
    bad,            \* mutableBadEndpoints
    permanent,      \* permanentBlacklist
    blocked,        \* endpointBlacklist
    checked,        \* endpoints with a mutablePreviousHealth
    best,           \* mutableBestPeer of Node
    indexed,        \* endpoints with a mutableBlockIndex in Node
    stopped         \* mutableStopped

lists == <<known, prelist, bad, permanent, blocked>>
node == <<best, indexed>>
vars == <<conn, connecting, connected, lists, checked, node, stopped>>

Unused == [proc |-> "none", sock |-> "none"]

\* After start(): its connect loop makes its first turn at once.
Init ==
    /\ conn = [c \in Conns |-> Unused]
    /\ connecting = {}
    /\ connected = [e \in Endpoints |-> NoPeer]
    /\ known = Seeds
    /\ prelist = {}
    /\ bad = {}
    /\ permanent = {}
    /\ blocked = {}
    /\ checked = {}
    /\ best = NoPeer
    /\ indexed = {}
    /\ stopped = FALSE

-----------------------------------------------------------------------------
(* Peers and endpoints. *)

Connected == {e \in Endpoints : connected[e] # NoPeer}

\* Peer.close: the socket is destroyed, its close event is still to come.
ClosingOf(c) ==
    IF conn[c].sock = "open" THEN [conn[c] EXCEPT !.sock = "closing"] ELSE conn[c]

FilterEndpoint(e) ==
    e \notin blocked \cup bad \cup permanent \cup connecting \cup Connected

ShouldConnect(e) ==
    IF e \in PeerSeeds THEN e \notin blocked \cup connecting \cup Connected
                       ELSE FilterEndpoint(e)

Room(e) == {c \in Conns : c[1] = e /\ conn[c] = Unused}
Fresh(E) == {CHOOSE c \in Room(e) : TRUE : e \in E}

\* Defects: an endpoint is taken for its peer; the table is looked up while
\* the closed peer is still in it.
BestEndpoint(tbl, idx, except) ==
    LET eligible == {e \in idx \ except : tbl[e] # NoPeer}
    IN  IF eligible = {} THEN {NoPeer} ELSE eligible
BestBeforeRemoval(tbl, idx, except) ==
    LET eligible == {e \in idx \ except : connected[e] # NoPeer}
    IN  IF eligible = {} THEN {NoPeer} ELSE {connected[e] : e \in eligible}

\* findBestPeer: one of the highest; a peer without a known height is never it.
FindBestPeer(tbl, idx, except) ==
    LET eligible == {e \in idx \ except : tbl[e] # NoPeer}
    IN  IF eligible = {} THEN {NoPeer} ELSE {tbl[e] : e \in eligible}

\* Defect: the best peer may change, but it is never chosen at first.
OnlyBetterPeer(c) ==
    IF best # NoPeer /\ best[1] \in indexed THEN {best, c} ELSE {best}

\* onEvent for PEER_CONNECT_SUCCESS: c's chain may be 100 blocks longer.
BestAfterConnect(c) ==
    IF best = NoPeer THEN {c}
    ELSE IF best[1] \in indexed THEN {best, c} ELSE {best}

-----------------------------------------------------------------------------
(* The connect loop. *)

\* Defect: what was bad stays bad.
BadForGood(chosen) == bad

\* connectToPeers tries everybody again when it runs out of endpoints.
BadAfterChoice(chosen) ==
    IF Cardinality(chosen) + Cardinality(Connected) < MaxPeers THEN {} ELSE bad

\* The number of endpoints connectToPeers may dial in one turn.
Attempts ==
    LET missing == MaxPeers - Cardinality(Connected)
    IN  IF missing <= 0 THEN 0
        ELSE IF missing * 2 > MaxPeers THEN missing * 2 ELSE MaxPeers

\* A shuffled slice of the eligible endpoints.
Choices ==
    LET eligible == {e \in known : FilterEndpoint(e)}
    IN  IF Cardinality(eligible) <= Attempts THEN {eligible}
        ELSE {E \in SUBSET eligible : Cardinality(E) = Attempts}

\* One turn of run: connectToPeers, then checkPeerHealth, which finds nobody
\* sick whom it has not checked before.
Turn ==
    /\ ~stopped
    /\ \E chosen \in Choices, sick \in SUBSET (Connected \cap checked) :
          LET dialled == chosen \cup {e \in PeerSeeds : ShouldConnect(e)}
          IN  /\ \A e \in dialled : Room(e) # {}
              /\ conn' = [c \in Conns |->
                             IF c \in Fresh(dialled)
                             THEN [Unused EXCEPT !.proc = "connect"]
                             ELSE IF c \in {connected[e] : e \in sick}
                             THEN ClosingOf(c) ELSE conn[c]]
              /\ connecting' = connecting \cup dialled
              /\ bad' = BadAfterChoice(chosen) \cup sick
              /\ checked' = checked \cup (Connected \ sick)
    /\ UNCHANGED <<connected, known, prelist, permanent, blocked, node, stopped>>

\* A socket is accepted; its peer is connected at once.
Accept(e) ==
    /\ ~stopped
    /\ e \in Inbound
    /\ \A c \in Conns : c[1] = e => conn[c].sock = "none"
    /\ ShouldConnect(e)
    /\ Room(e) # {}
    /\ connecting' = connecting \cup {e}
    /\ conn' = [c \in Conns |->
                   IF c \in Fresh({e}) THEN [proc |-> "version", sock |-> "open"]
                                       ELSE conn[c]]
    /\ UNCHANGED <<connected, lists, checked, node, stopped>>

-----------------------------------------------------------------------------
(* connectToPeer and startPeerConnection. *)

\* Defect: only the close event clears the flag.
ConnectingUntilClosed(e) == connecting

\* The finally block of connectToPeer: the flag goes, whoever has set it.
ConnectingAfter(e) == connecting \ {e}

\* The catch block of connectToPeer: an error whose code is on the list costs
\* the endpoint its place, the second time.
Blame(e, listed) ==
    IF listed
    THEN /\ prelist' = prelist \cup {e}
         /\ bad' = IF e \in prelist THEN bad \cup {e} ELSE bad
    ELSE UNCHANGED <<prelist, bad>>

ConnectSucceeds(c) ==
    /\ conn[c].proc = "connect"
    /\ conn' = [conn EXCEPT ![c] = [proc |-> "version", sock |-> "open"]]
    /\ UNCHANGED <<connecting, connected, lists, checked, node, stopped>>

ConnectFails(c) ==
    /\ conn[c].proc = "connect"
    /\ conn' = [conn EXCEPT ![c] = Unused]
    /\ known' = IF c[1] \in Seeds THEN known ELSE known \ {c[1]}
    /\ \E listed \in BOOLEAN : Blame(c[1], listed)
    /\ connecting' = ConnectingAfter(c[1])
    /\ UNCHANGED <<connected, permanent, blocked, checked, node, stopped>>

\* The negotiation throws: the peer is closed, unless it already is.
Abandon(c) ==
    /\ conn' = [conn EXCEPT ![c] = [ClosingOf(c) EXCEPT !.proc = "none"]]
    /\ connecting' = ConnectingAfter(c[1])
    /\ UNCHANGED <<connected, known, checked, node, stopped>>

\* Data reaches the negotiation only while the socket is open.
At(c, stage) == conn[c].proc = stage /\ conn[c].sock = "open"

Taken(c) == \E e \in Connected : RemoteOf[e] = RemoteOf[c[1]]

\* checkVersion finds this node at the other end.
FindsItself(c) ==
    /\ At(c, "version")
    /\ RemoteOf[c[1]] = Self
    /\ permanent' = permanent \cup {c[1]}
    /\ Abandon(c)
    /\ UNCHANGED <<prelist, bad, blocked>>

\* checkVersion finds a connected peer with the same nonce.  The endpoint is
\* filed in mutableReverseBlacklist under error.endpoint, which the error does
\* not have, so no close event takes it off the blacklist again.
AlreadyConnected(c) ==
    /\ At(c, "version")
    /\ RemoteOf[c[1]] # Self
    /\ Taken(c)
    /\ blocked' = blocked \cup {c[1]}
    /\ Abandon(c)
    /\ UNCHANGED <<prelist, bad, permanent>>

VersionReceived(c) ==
    /\ At(c, "version")
    /\ RemoteOf[c[1]] # Self
    /\ ~Taken(c)
    /\ conn' = [conn EXCEPT ![c].proc = "verack"]
    /\ UNCHANGED <<connecting, connected, lists, checked, node, stopped>>

\* The peer is connected, and Node told so.
VerackReceived(c) ==
    /\ At(c, "verack")
    /\ conn' = [conn EXCEPT ![c].proc = "none"]
    /\ connecting' = ConnectingAfter(c[1])
    /\ connected' = [connected EXCEPT ![c[1]] = c]
    /\ indexed' = indexed \cup {c[1]}
    /\ best' \in BestAfterConnect(c)
    /\ UNCHANGED <<lists, checked, stopped>>

\* A timeout, whose code is on the list, an error of the socket or an
\* unexpected message.  A socket that just closes is noticed by the timeout.
NegotiationFails(c) ==
    /\ conn[c].proc \in {"version", "verack"}
    /\ \E listed \in BOOLEAN :
          /\ listed \/ conn[c].sock = "open"
          /\ Blame(c[1], listed)
    /\ Abandon(c)
    /\ UNCHANGED <<permanent, blocked>>

Negotiate(c) ==
    \/ FindsItself(c)
    \/ AlreadyConnected(c)
    \/ VersionReceived(c)
    \/ VerackReceived(c)
    \/ NegotiationFails(c)

-----------------------------------------------------------------------------
(* The end of connections. *)

\* An error or the timeout of the socket of a peer that is streaming.
SocketFails(c) ==
    /\ At(c, "none")
    /\ conn' = [conn EXCEPT ![c] = ClosingOf(c)]
    /\ UNCHANGED <<connecting, connected, lists, checked, node, stopped>>

\* Defect: onClose leaves the entry to whoever closed the peer.
EntryKept(e) == connected

\* onClose removes what there is for the endpoint, be it another connection's.
EntryRemoved(e) == [connected EXCEPT ![e] = NoPeer]

\* The close event, after a close() or because the other end closed: onClose,
\* then onEvent for PEER_CLOSED.
Close(c) ==
    /\ conn[c].sock \in {"open", "closing"}
    /\ conn' = [conn EXCEPT ![c].sock = "none"]
    /\ connecting' = ConnectingAfter(c[1])
    /\ connected' = EntryRemoved(c[1])
    /\ checked' = checked \ {c[1]}
    /\ IF best # NoPeer /\ best[1] = c[1]
       THEN best' \in FindBestPeer(connected', indexed, {})
       ELSE UNCHANGED best
    /\ UNCHANGED <<lists, indexed, stopped>>

OtherPeer(e) == {NoPeer}

\* requestBlocks gives up on a best peer that does not deliver.
DropBestPeer ==
    /\ best # NoPeer
    /\ best[1] \in indexed
    /\ best' \in FindBestPeer(connected, indexed, {best[1]})
    /\ bad' = bad \cup {best[1]}
    /\ conn' = [conn EXCEPT ![best] = ClosingOf(best)]
    /\ UNCHANGED <<connecting, connected, known, prelist, permanent, blocked>>
    /\ UNCHANGED <<checked, indexed, stopped>>

\* stop() closes the peers in the table; those under way are not in it.
Stop ==
    /\ ~stopped
    /\ stopped' = TRUE
    /\ connected' = [e \in Endpoints |-> NoPeer]
    /\ conn' = [c \in Conns |->
                   IF c[1] \in Connected /\ connected[c[1]] = c
                   THEN ClosingOf(c) ELSE conn[c]]
    /\ UNCHANGED <<connecting, lists, checked, node>>

-----------------------------------------------------------------------------
(* What the messages and the RPC method "reset" do to the tables. *)

AddEndpoint(e) ==
    /\ known' = known \cup {e}
    /\ UNCHANGED <<conn, connecting, connected, prelist, bad, permanent>>
    /\ UNCHANGED <<blocked, checked, node, stopped>>

\* updateLastBlockIndex, for a message of a connected peer.
HeightLearned(c) ==
    /\ At(c, "none")
    /\ indexed' = indexed \cup {c[1]}
    /\ UNCHANGED <<conn, connecting, connected, lists, checked, best, stopped>>

\* Node.reset forgets the heights of its peers.
Reset ==
    /\ MayReset
    /\ indexed' = {}
    /\ UNCHANGED <<conn, connecting, connected, lists, checked, best, stopped>>

Next ==
    \/ Turn
    \/ \E e \in Inbound : Accept(e)
    \/ \E c \in Conns : ConnectSucceeds(c)
    \/ \E c \in Conns : ConnectFails(c)
    \/ \E c \in Conns : FindsItself(c)
    \/ \E c \in Conns : AlreadyConnected(c)
    \/ \E c \in Conns : VersionReceived(c)
    \/ \E c \in Conns : VerackReceived(c)
    \/ \E c \in Conns : NegotiationFails(c)
    \/ \E c \in Conns : SocketFails(c)
    \/ \E c \in Conns : Close(c)
    \/ DropBestPeer
    \/ Stop
    \/ \E e \in Outbound : AddEndpoint(e)
    \/ \E c \in Conns : HeightLearned(c)
    \/ Reset

\* The loop's timer fires; a dial succeeds or is given up by the system; a
\* negotiation answers or times out; a destroyed socket reports its end.
Fairness ==
    /\ WF_vars(Turn)
    /\ \A c \in Conns :
          /\ WF_vars(ConnectSucceeds(c) \/ ConnectFails(c))
          /\ WF_vars(Negotiate(c))
          /\ WF_vars(conn[c].sock = "closing" /\ Close(c))

Spec == Init /\ [][Next]_vars
FairSpec == Spec /\ Fairness

-----------------------------------------------------------------------------
(* Properties. *)

\* Every table has entries for endpoints only, every entry its own endpoint's.
TypeOK ==
    /\ conn \in [Conns -> [proc : {"none", "connect", "version", "verack"},
                           sock : {"none", "open", "closing"}]]
    /\ connecting \subseteq Endpoints
    /\ connected \in [Endpoints -> Conns \cup {NoPeer}]
    /\ \A e \in Connected : connected[e][1] = e
    /\ known \subseteq Outbound
    /\ prelist \subseteq Endpoints /\ bad \subseteq Endpoints
    /\ permanent \subseteq Endpoints /\ blocked \subseteq Endpoints
    /\ checked \subseteq Endpoints /\ indexed \subseteq Endpoints
    /\ best \in Conns \cup {NoPeer}
    /\ stopped \in BOOLEAN

\* mutableConnectedPeers has no peer whose close event has been handled: what
\* relay, checkPeerHealth and findBestPeer go through are live connections,
\* though negotiations end after their endpoint was closed and dialled again.
ConnectedIsOpen ==
    \A e \in Connected : conn[connected[e]].sock # "none"

\* Node asks no dead connection for blocks: the peer it holds as the best one
\* has not reported its end, even when another connection has taken its entry.
BestPeerLives == best # NoPeer => conn[best].sock # "none"

\* As long as the node has a peer that nobody is closing it has a best peer,
\* and so goes on asking for blocks.  (A reset of the node breaks this.)
BestPeerExists ==
    best = NoPeer =>
        \A e \in Connected :
            \E c \in Conns : c[1] = e /\ conn[c].sock = "closing"

\* No endpoint is marked as being connected for ever, which would bar it from
\* being dialled again.
AttemptsEnd == \A e \in Endpoints : e \in connecting ~> e \notin connecting

\* With no more endpoints than it may have peers a node does not give up on a
\* seed: it is dialled again and again unless it is connected or blacklisted.
SeedsRetried ==
    \A e \in Seeds :
        []<>(e \in connecting \cup Connected \cup blocked \cup permanent
             \/ stopped)

=============================================================================
