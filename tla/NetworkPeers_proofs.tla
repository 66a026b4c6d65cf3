-------------------------- MODULE NetworkPeers_proofs --------------------------
(***************************************************************************)
(* The tables of Network name live connections only, and a peer is the     *)
(* best one as soon as one can be, for any endpoints, any number of        *)
(* concurrent connections to each and any limit on peers.                  *)
(***************************************************************************)
EXTENDS NetworkPeers, TLAPS

\* A socket is created by the dial: while it is under way there is none.
DialInv == \A c \in Conns : conn[c].proc = "connect" => conn[c].sock = "none"

Inv == TypeOK /\ DialInv /\ ConnectedIsOpen /\ BestPeerLives

Procs == {"none", "connect", "version", "verack"}
Socks == {"none", "open", "closing"}
States == [proc : Procs, sock : Socks]

\* A connection belongs to an endpoint.
LEMMA ConnEndpoint == \A c \in Conns : c[1] \in Endpoints
BY PeersAssumption DEF PeersAssumption

\* Rooms are found among the unused connections.
LEMMA FreshUnused ==
    ASSUME NEW E, \A e \in E : Room(e) # {}
    PROVE  \A c \in Fresh(E) : c \in Conns /\ conn[c] = Unused
BY DEF Fresh, Room

\* Closing leaves the connection a connection, and its end to be reported.
LEMMA ClosingType ==
    ASSUME TypeOK, NEW c \in Conns
    PROVE  /\ ClosingOf(c) \in States
           /\ ClosingOf(c).proc = conn[c].proc
           /\ ClosingOf(c).sock = "none" <=> conn[c].sock = "none"
BY DEF TypeOK, ClosingOf, States, Procs, Socks

\* The best peer found is one of the table's.
LEMMA FoundInTable ==
    ASSUME NEW tbl, NEW idx \in SUBSET Endpoints, NEW except,
           NEW b \in FindBestPeer(tbl, idx, except), b # NoPeer
    PROVE  \E e \in Endpoints : tbl[e] # NoPeer /\ b = tbl[e]
BY DEF FindBestPeer

\* A step that leaves the entries alone and ends no connection is harmless.
LEMMA NoneEnds ==
    ASSUME Inv,
           conn' \in [Conns -> States],
           \A c \in Conns : conn'[c].proc = "connect" => conn'[c].sock = "none",
           \A c \in Conns : conn[c].sock # "none" => conn'[c].sock # "none",
           UNCHANGED <<connected, best>>
    PROVE  DialInv' /\ ConnectedIsOpen' /\ BestPeerLives'
BY DEF Inv, TypeOK, DialInv, ConnectedIsOpen, BestPeerLives, Connected

LEMMA PeersInit == Init => Inv
<1> SUFFICES ASSUME Init PROVE Inv
  OBVIOUS
<1>1. TypeOK
  BY PeersAssumption
     DEF Init, TypeOK, PeersAssumption, Connected, Endpoints, Unused
<1> QED BY <1>1 DEF Init, Inv, DialInv, ConnectedIsOpen, BestPeerLives,
                    Connected, Unused

LEMMA PeersStep == Inv /\ [Next]_vars => Inv'
<1> SUFFICES ASSUME Inv, [Next]_vars PROVE Inv'
  OBVIOUS
<1>0. /\ TypeOK /\ DialInv
      /\ conn \in [Conns -> States]
  BY DEF Inv, TypeOK, States, Procs, Socks
<1>1. CASE Turn
  <2>1. PICK chosen \in Choices, sick \in SUBSET (Connected \cap checked) :
           LET dialled == chosen \cup {e \in PeerSeeds : ShouldConnect(e)}
           IN  /\ \A e \in dialled : Room(e) # {}
               /\ conn' = [c \in Conns |->
                              IF c \in Fresh(dialled)
                              THEN [Unused EXCEPT !.proc = "connect"]
                              ELSE IF c \in {connected[e] : e \in sick}
                              THEN ClosingOf(c) ELSE conn[c]]
               /\ connecting' = connecting \cup dialled
               /\ bad' = BadAfterChoice(chosen) \cup sick
               /\ checked' = checked \cup (Connected \ sick)
    BY <1>1 DEF Turn
  <2> DEFINE dialled == chosen \cup {e \in PeerSeeds : ShouldConnect(e)}
  <2>2. UNCHANGED <<connected, known, prelist, permanent, blocked, best,
                    indexed, stopped>>
    BY <1>1 DEF Turn, node
  <2>3. dialled \subseteq Endpoints
    BY <1>0, PeersAssumption
       DEF Choices, TypeOK, PeersAssumption, Endpoints
  <2>4. \A c \in Fresh(dialled) : c \in Conns /\ conn[c] = Unused
    BY <2>1, FreshUnused
  <2>5. conn' \in [Conns -> States]
    BY <1>0, <2>1, ClosingType DEF States, Procs, Socks, Unused
  <2>6. ASSUME NEW c \in Conns
        PROVE  /\ conn'[c].proc = "connect" => conn'[c].sock = "none"
               /\ conn[c].sock # "none" => conn'[c].sock # "none"
    <3>1. CASE c \in Fresh(dialled)
      BY <2>1, <2>4, <3>1 DEF Unused
    <3>2. CASE c \notin Fresh(dialled)
      <4>1. conn'[c] = ClosingOf(c) \/ conn'[c] = conn[c]
        BY <2>1, <3>2
      <4> QED BY <1>0, <4>1, ClosingType DEF DialInv
    <3> QED BY <3>1, <3>2
  <2>7. TypeOK'
    <3>1. bad' \subseteq Endpoints /\ checked' \subseteq Endpoints
      BY <1>0, <2>1 DEF TypeOK, BadAfterChoice, Connected
    <3> HIDE DEF dialled
    <3>2. connecting' \subseteq Endpoints
      BY <1>0, <2>1, <2>3 DEF TypeOK, dialled
    <3> QED BY <1>0, <2>2, <2>5, <3>1, <3>2
            DEF TypeOK, Connected, States, Procs, Socks
  <2> QED BY <2>2, <2>5, <2>6, <2>7, NoneEnds DEF Inv
<1>2. ASSUME NEW e \in Inbound, Accept(e) PROVE Inv'
  <2>1. \A c \in Fresh({e}) : c \in Conns /\ conn[c] = Unused
    BY <1>2, FreshUnused DEF Accept
  <2>2. conn' = [c \in Conns |-> IF c \in Fresh({e})
                                 THEN [proc |-> "version", sock |-> "open"]
                                 ELSE conn[c]]
    BY <1>2 DEF Accept
  <2>3. conn' \in [Conns -> States]
    BY <1>0, <2>2 DEF States, Procs, Socks
  <2>4. UNCHANGED <<connected, lists, checked, node, stopped>>
    BY <1>2 DEF Accept
  <2>5. TypeOK'
    BY <1>0, <1>2, <2>3, <2>4
       DEF Accept, TypeOK, Connected, Endpoints, lists, node, States, Procs, Socks
  <2>6. \A c \in Conns :
           /\ conn'[c].proc = "connect" => conn'[c].sock = "none"
           /\ conn[c].sock # "none" => conn'[c].sock # "none"
    BY <1>0, <2>2 DEF DialInv
  <2> QED BY <2>3, <2>4, <2>5, <2>6, NoneEnds DEF Inv, node
<1>3. ASSUME NEW c \in Conns,
             \/ ConnectSucceeds(c) \/ ConnectFails(c) \/ FindsItself(c)
             \/ AlreadyConnected(c) \/ VersionReceived(c)
             \/ NegotiationFails(c) \/ SocketFails(c) \/ HeightLearned(c)
      PROVE  Inv'
  <2>1. PICK s \in States :
           /\ conn' = [conn EXCEPT ![c] = s]
           /\ s.proc = "connect" => s.sock = "none"
           /\ conn[c].sock # "none" => s.sock # "none"
    <3>1. CASE ConnectSucceeds(c)
      <4> DEFINE s == [proc |-> "version", sock |-> "open"]
      <4>1. s \in States /\ s.proc # "connect" /\ s.sock # "none"
        BY DEF States, Procs, Socks
      <4>2. conn' = [conn EXCEPT ![c] = s]
        BY <3>1 DEF ConnectSucceeds
      <4> HIDE DEF s
      <4> QED BY <4>1, <4>2
    <3>2. CASE ConnectFails(c)
      BY <1>0, <3>2 DEF ConnectFails, DialInv, Unused, States, Procs, Socks
    <3>3. CASE FindsItself(c) \/ AlreadyConnected(c) \/ NegotiationFails(c)
      <4>1. conn' = [conn EXCEPT ![c] = [ClosingOf(c) EXCEPT !.proc = "none"]]
        BY <3>3 DEF FindsItself, AlreadyConnected, NegotiationFails, Abandon
      <4>2. [ClosingOf(c) EXCEPT !.proc = "none"] \in States
        BY <1>0, ClosingType DEF States, Procs, Socks
      <4>3. [ClosingOf(c) EXCEPT !.proc = "none"].sock = ClosingOf(c).sock
        BY <1>0, ClosingType DEF States
      <4>4. [ClosingOf(c) EXCEPT !.proc = "none"].proc = "none"
        BY <1>0, ClosingType DEF States
      <4> QED BY <1>0, <4>1, <4>2, <4>3, <4>4, ClosingType
    <3>4. CASE VersionReceived(c)
      <4> DEFINE s == [conn[c] EXCEPT !.proc = "verack"]
      <4>1. s \in States /\ s.proc # "connect" /\ s.sock = conn[c].sock
        BY <1>0 DEF States, Procs, Socks
      <4>2. conn' = [conn EXCEPT ![c] = s]
        BY <3>4 DEF VersionReceived
      <4> HIDE DEF s
      <4> QED BY <4>1, <4>2
    <3>5. CASE SocketFails(c)
      <4>1. conn' = [conn EXCEPT ![c] = ClosingOf(c)]
        BY <3>5 DEF SocketFails
      <4> QED BY <1>0, <4>1, ClosingType DEF DialInv
    <3>6. CASE HeightLearned(c)
      <4>1. conn' = [conn EXCEPT ![c] = conn[c]]
        BY <1>0, <3>6 DEF HeightLearned
      <4> QED BY <1>0, <4>1 DEF DialInv
    <3> QED BY <1>3, <3>1, <3>2, <3>3, <3>4, <3>5, <3>6
  <2>2. UNCHANGED <<connected, best, checked, stopped>>
    BY <1>3, Zenon DEF ConnectSucceeds, ConnectFails, FindsItself,
       AlreadyConnected, VersionReceived, NegotiationFails, SocketFails,
       HeightLearned, Abandon, node
  <2>3. conn' \in [Conns -> States]
    BY <1>0, <2>1
  <2>4. /\ connecting' \subseteq connecting /\ known' \subseteq known
        /\ prelist' \subseteq prelist \cup {c[1]}
        /\ bad' \subseteq bad \cup {c[1]}
        /\ permanent' \subseteq permanent \cup {c[1]}
        /\ blocked' \subseteq blocked \cup {c[1]}
        /\ indexed' \subseteq indexed \cup {c[1]}
    BY <1>3 DEF ConnectSucceeds, ConnectFails, FindsItself,
       AlreadyConnected, VersionReceived, NegotiationFails, SocketFails,
       HeightLearned, Abandon, Blame, ConnectingAfter, lists, node
  <2>5. TypeOK'
    BY <1>0, <2>2, <2>3, <2>4, ConnEndpoint
       DEF TypeOK, Connected, States, Procs, Socks
  <2>6. \A d \in Conns :
           /\ conn'[d].proc = "connect" => conn'[d].sock = "none"
           /\ conn[d].sock # "none" => conn'[d].sock # "none"
    BY <1>0, <2>1 DEF DialInv
  <2> QED BY <2>2, <2>3, <2>5, <2>6, NoneEnds DEF Inv
<1>4. ASSUME NEW c \in Conns, VerackReceived(c) PROVE Inv'
  <2>1. /\ conn' = [conn EXCEPT ![c].proc = "none"] /\ conn[c].sock = "open"
        /\ connected' = [connected EXCEPT ![c[1]] = c]
        /\ best' \in {best, c}
        /\ UNCHANGED <<lists, checked, stopped>>
    BY <1>4 DEF VerackReceived, At, BestAfterConnect
  <2>2. conn' \in [Conns -> States]
    BY <1>0, <2>1 DEF States, Procs, Socks
  <2>3. \A d \in Conns : /\ conn'[d].sock = conn[d].sock
                         /\ conn'[d].proc \in {conn[d].proc, "none"}
    BY <1>0, <2>1 DEF States
  <2>4. c[1] \in Endpoints /\ c # NoPeer
    BY ConnEndpoint, PeersAssumption DEF PeersAssumption
  <2>5. /\ connecting' \subseteq connecting
        /\ indexed' = indexed \cup {c[1]}
    BY <1>4 DEF VerackReceived, ConnectingAfter
  <2>6. TypeOK'
    BY <1>0, <2>1, <2>2, <2>4, <2>5
       DEF TypeOK, Connected, lists, States, Procs, Socks
  <2>7. DialInv' /\ ConnectedIsOpen' /\ BestPeerLives'
    <3>1. DialInv'
      BY <1>0, <2>3 DEF DialInv
    <3>2. ConnectedIsOpen'
      BY <1>0, <2>1, <2>3, <2>4
         DEF Inv, ConnectedIsOpen, Connected, TypeOK
    <3>3. BestPeerLives'
      BY <1>0, <2>1, <2>3, <2>4 DEF Inv, BestPeerLives, TypeOK
    <3> QED BY <3>1, <3>2, <3>3
  <2> QED BY <2>6, <2>7 DEF Inv
<1>5. ASSUME NEW c \in Conns, Close(c) PROVE Inv'
  <2>1. /\ conn[c].sock # "none"
        /\ conn' = [conn EXCEPT ![c].sock = "none"]
        /\ connected' = [connected EXCEPT ![c[1]] = NoPeer]
        /\ connecting' \subseteq connecting /\ checked' \subseteq checked
        /\ UNCHANGED <<lists, indexed, stopped>>
    BY <1>5 DEF Close, EntryRemoved, ConnectingAfter
  <2>2. conn' \in [Conns -> States]
    BY <1>0, <2>1 DEF States, Procs, Socks
  <2>3. /\ \A d \in Conns : d # c => conn'[d] = conn[d]
        /\ conn'[c].sock = "none"
    BY <1>0, <2>1 DEF States
  <2>4. \A e \in Endpoints : connected'[e] # NoPeer =>
           /\ connected'[e] = connected[e] /\ e # c[1]
           /\ connected[e] \in Conns /\ connected[e] # c
    BY <1>0, <2>1, ConnEndpoint DEF TypeOK, Connected
  <2>5. best' = NoPeer \/ (best' = best /\ best \in Conns /\ best # c)
        \/ \E e \in Endpoints : connected'[e] # NoPeer /\ best' = connected'[e]
    <3>1. CASE best # NoPeer /\ best[1] = c[1]
      <4>1. best' \in FindBestPeer(connected', indexed, {})
        BY <1>5, <3>1 DEF Close
      <4> QED BY <1>0, <4>1, FoundInTable DEF TypeOK
    <3>2. CASE ~(best # NoPeer /\ best[1] = c[1])
      BY <1>0, <1>5, <3>2 DEF Close, TypeOK
    <3> QED BY <3>1, <3>2
  <2>6. TypeOK'
    <3>1. connected' \in [Endpoints -> Conns \cup {NoPeer}]
      BY <1>0, <2>1 DEF TypeOK
    <3>2. best' \in Conns \cup {NoPeer}
      BY <2>4, <2>5
    <3> QED BY <1>0, <2>1, <2>2, <2>4, <3>1, <3>2
            DEF TypeOK, Connected, lists, States, Procs, Socks
  <2>7. DialInv'
    BY <1>0, <2>3 DEF DialInv
  <2>8. ConnectedIsOpen'
    BY <2>3, <2>4 DEF Inv, ConnectedIsOpen, Connected
  <2>9. BestPeerLives'
    BY <2>3, <2>4, <2>5 DEF Inv, ConnectedIsOpen, BestPeerLives, Connected
  <2> QED BY <2>6, <2>7, <2>8, <2>9 DEF Inv
<1>6. CASE DropBestPeer
  <2>1. /\ best \in Conns
        /\ conn' = [conn EXCEPT ![best] = ClosingOf(best)]
        /\ best' \in FindBestPeer(connected, indexed, {best[1]})
        /\ bad' = bad \cup {best[1]}
        /\ UNCHANGED <<connecting, connected, known, prelist, permanent,
                       blocked, checked, indexed, stopped>>
    BY <1>0, <1>6 DEF DropBestPeer, TypeOK
  <2>2. best' = NoPeer \/ \E e \in Endpoints :
           connected[e] # NoPeer /\ best' = connected[e]
    BY <1>0, <2>1, FoundInTable DEF TypeOK
  <2>3. conn' \in [Conns -> States]
    BY <1>0, <2>1, ClosingType
  <2>4. \A d \in Conns : /\ conn'[d].proc = conn[d].proc
                         /\ conn'[d].sock = "none" <=> conn[d].sock = "none"
    BY <1>0, <2>1, ClosingType
  <2>5. TypeOK'
    BY <1>0, <2>1, <2>2, <2>3, ConnEndpoint
       DEF TypeOK, Connected, States, Procs, Socks
  <2>6. DialInv'
    BY <1>0, <2>4 DEF DialInv
  <2>7. ConnectedIsOpen' /\ BestPeerLives'
    BY <1>0, <2>1, <2>2, <2>4
       DEF Inv, TypeOK, ConnectedIsOpen, BestPeerLives, Connected
  <2> QED BY <2>5, <2>6, <2>7 DEF Inv
<1>7. CASE Stop
  <2>1. /\ conn' = [c \in Conns |->
                       IF c[1] \in Connected /\ connected[c[1]] = c
                       THEN ClosingOf(c) ELSE conn[c]]
        /\ connected' = [e \in Endpoints |-> NoPeer]
        /\ stopped' = TRUE
        /\ UNCHANGED <<connecting, lists, checked, node>>
    BY <1>7 DEF Stop
  <2>2. conn' \in [Conns -> States]
    BY <1>0, <2>1, ClosingType
  <2>3. \A d \in Conns : /\ conn'[d].proc = conn[d].proc
                         /\ conn'[d].sock = "none" <=> conn[d].sock = "none"
    BY <1>0, <2>1, ClosingType
  <2>4. TypeOK'
    BY <1>0, <2>1, <2>2
       DEF TypeOK, Connected, lists, node, States, Procs, Socks
  <2>5. DialInv' /\ ConnectedIsOpen'
    BY <1>0, <2>1, <2>3 DEF DialInv, ConnectedIsOpen, Connected
  <2>6. BestPeerLives'
    BY <1>0, <2>1, <2>3 DEF Inv, TypeOK, BestPeerLives, node
  <2> QED BY <2>4, <2>5, <2>6 DEF Inv
<1>8. ASSUME \/ \E e \in Outbound : AddEndpoint(e)
             \/ Reset
             \/ UNCHANGED vars
      PROVE  Inv'
  <2>1. UNCHANGED <<conn, connected, best, connecting, prelist, bad, permanent,
                    blocked, checked, stopped>>
    BY <1>8, Zenon DEF AddEndpoint, Reset, vars, lists, node
  <2>2. known' \subseteq known \cup Outbound /\ indexed' \subseteq indexed
    BY <1>8 DEF AddEndpoint, Reset, vars, lists, node
  <2>3. TypeOK'
    BY <1>0, <2>1, <2>2 DEF TypeOK, Connected
  <2> QED BY <2>1, <2>3
          DEF Inv, DialInv, ConnectedIsOpen, BestPeerLives, Connected
<1> QED BY <1>1, <1>2, <1>3, <1>4, <1>5, <1>6, <1>7, <1>8 DEF Next

-----------------------------------------------------------------------------
(* The best peer exists, as long as Node never forgets its peers' heights. *)

BestInv == Connected \subseteq indexed /\ BestPeerExists

\* Who is being closed stays so, and nobody connects.
LEMMA ClosingStays ==
    ASSUME BestInv, connected' = connected, best' = best,
           indexed \subseteq indexed',
           \A c \in Conns : conn[c].sock = "closing" => conn'[c].sock = "closing"
    PROVE  BestInv'
<1>1. Connected' = Connected
  BY DEF Connected
<1> QED BY <1>1 DEF BestInv, BestPeerExists

\* A search finds nobody only among peers that are left out.
LEMMA FoundAmong ==
    ASSUME NEW tbl, NEW idx, NEW except, NoPeer \in FindBestPeer(tbl, idx, except)
    PROVE  \A e \in idx : tbl[e] # NoPeer => e \in except
BY DEF FindBestPeer

LEMMA BestStep ==
    ASSUME ~MayReset, Inv, BestInv, [Next]_vars
    PROVE  BestInv'
<1>0. TypeOK /\ DialInv /\ conn \in [Conns -> States]
  BY DEF Inv, TypeOK, States, Procs, Socks
<1>1. CASE Turn
  <2>1. UNCHANGED <<connected, best, indexed>>
    BY <1>1 DEF Turn, node
  <2>2. PICK F, S :
           /\ \A c \in F : conn[c] = Unused
           /\ conn' = [c \in Conns |->
                          IF c \in F THEN [Unused EXCEPT !.proc = "connect"]
                          ELSE IF c \in S THEN ClosingOf(c) ELSE conn[c]]
    <3>1. PICK chosen \in Choices, sick \in SUBSET (Connected \cap checked) :
             LET dialled == chosen \cup {e \in PeerSeeds : ShouldConnect(e)}
             IN  /\ \A e \in dialled : Room(e) # {}
                 /\ conn' = [c \in Conns |->
                               IF c \in Fresh(dialled)
                               THEN [Unused EXCEPT !.proc = "connect"]
                               ELSE IF c \in {connected[e] : e \in sick}
                               THEN ClosingOf(c) ELSE conn[c]]
      BY <1>1 DEF Turn
    <3>2. \A c \in Fresh(chosen \cup {e \in PeerSeeds : ShouldConnect(e)}) :
             conn[c] = Unused
      BY <3>1, FreshUnused
    <3> QED BY <3>1, <3>2
  <2>3. ASSUME NEW c \in Conns, conn[c].sock = "closing"
        PROVE  conn'[c].sock = "closing"
    <3>1. c \notin F
      BY <2>2, <2>3 DEF Unused
    <3> QED BY <2>2, <2>3, <3>1 DEF ClosingOf
  <2> QED BY <2>1, <2>3, ClosingStays
<1>2. ASSUME NEW e \in Inbound, Accept(e) PROVE BestInv'
  <2>1. \A c \in Fresh({e}) : conn[c] = Unused
    BY <1>2, FreshUnused DEF Accept
  <2>2. ASSUME NEW c \in Conns, conn[c].sock = "closing"
        PROVE  conn'[c].sock = "closing"
    <3>1. c \notin Fresh({e})
      BY <2>1, <2>2 DEF Unused
    <3> QED BY <1>2, <2>2, <3>1 DEF Accept
  <2> QED BY <1>2, <2>2, ClosingStays DEF Accept, node
<1>3. ASSUME NEW c \in Conns,
             \/ ConnectSucceeds(c) \/ ConnectFails(c) \/ FindsItself(c)
             \/ AlreadyConnected(c) \/ VersionReceived(c)
             \/ NegotiationFails(c) \/ SocketFails(c) \/ HeightLearned(c)
      PROVE  BestInv'
  <2>1. UNCHANGED <<connected, best>>
    BY <1>3, Zenon DEF ConnectSucceeds, ConnectFails, FindsItself,
       AlreadyConnected, VersionReceived, NegotiationFails, SocketFails,
       HeightLearned, Abandon, node
  <2>2. indexed \subseteq indexed'
    BY <1>3 DEF ConnectSucceeds, ConnectFails, FindsItself,
       AlreadyConnected, VersionReceived, NegotiationFails, SocketFails,
       HeightLearned, Abandon, node
  <2>3. \A d \in Conns : conn[d].sock = "closing" => conn'[d].sock = "closing"
    <3>1. CASE ConnectSucceeds(c) \/ ConnectFails(c)
      BY <1>0, <3>1 DEF ConnectSucceeds, ConnectFails, DialInv
    <3>2. CASE FindsItself(c) \/ AlreadyConnected(c) \/ NegotiationFails(c)
      <4>1. conn' = [conn EXCEPT ![c] = [ClosingOf(c) EXCEPT !.proc = "none"]]
        BY <3>2 DEF FindsItself, AlreadyConnected, NegotiationFails, Abandon
      <4>2. [ClosingOf(c) EXCEPT !.proc = "none"].sock = ClosingOf(c).sock
        BY <1>0, ClosingType DEF States
      <4>3. conn[c].sock = "closing" => ClosingOf(c).sock = "closing"
        BY DEF ClosingOf
      <4> QED BY <1>0, <4>1, <4>2, <4>3
    <3>3. CASE VersionReceived(c)
      BY <1>0, <3>3 DEF VersionReceived, States
    <3>4. CASE SocketFails(c)
      BY <1>0, <3>4 DEF SocketFails, ClosingOf
    <3>5. CASE HeightLearned(c)
      BY <3>5 DEF HeightLearned
    <3> QED BY <1>3, <3>1, <3>2, <3>3, <3>4, <3>5
  <2> QED BY <2>1, <2>2, <2>3, ClosingStays
<1>4. ASSUME NEW c \in Conns, VerackReceived(c) PROVE BestInv'
  <2>1. /\ connected' = [connected EXCEPT ![c[1]] = c]
        /\ indexed' = indexed \cup {c[1]} /\ best' \in BestAfterConnect(c)
    BY <1>4 DEF VerackReceived
  <2>2. c # NoPeer
    BY PeersAssumption DEF PeersAssumption
  <2>3. best' # NoPeer
    BY <2>1, <2>2 DEF BestAfterConnect
  <2>4. Connected' \subseteq Connected \cup {c[1]}
    BY <1>0, <2>1 DEF Connected, TypeOK
  <2> QED BY <2>1, <2>3, <2>4 DEF BestInv, BestPeerExists
<1>5. ASSUME NEW c \in Conns, Close(c) PROVE BestInv'
  <2>1. /\ conn' = [conn EXCEPT ![c].sock = "none"]
        /\ connected' = [connected EXCEPT ![c[1]] = NoPeer]
        /\ indexed' = indexed
    BY <1>5 DEF Close, EntryRemoved
  <2>2. Connected' = Connected \ {c[1]}
    BY <1>0, <2>1, ConnEndpoint DEF Connected, TypeOK
  <2>3. ASSUME best' = NoPeer, NEW e \in Connected'
        PROVE  \E d \in Conns : d[1] = e /\ conn'[d].sock = "closing"
    <3>1. best = NoPeer
      <4>1. ASSUME best # NoPeer, best[1] = c[1] PROVE FALSE
        <5>1. NoPeer \in FindBestPeer(connected', indexed, {})
          BY <1>5, <2>3, <4>1 DEF Close
        <5>2. e \in indexed /\ connected'[e] # NoPeer
          BY <2>2, <2>3 DEF BestInv, Connected
        <5> QED BY <5>1, <5>2, FoundAmong
      <4> QED BY <1>5, <2>3, <4>1 DEF Close
    <3>2. PICK d \in Conns : d[1] = e /\ conn[d].sock = "closing"
      BY <2>2, <2>3, <3>1 DEF BestInv, BestPeerExists
    <3>3. d # c
      BY <2>2, <2>3, <3>2
    <3> QED BY <1>0, <2>1, <3>2, <3>3
  <2> QED BY <2>1, <2>2, <2>3 DEF BestInv, BestPeerExists
<1>6. CASE DropBestPeer
  <2>1. /\ best \in Conns /\ best # NoPeer
        /\ conn' = [conn EXCEPT ![best] = ClosingOf(best)]
        /\ best' \in FindBestPeer(connected, indexed, {best[1]})
        /\ UNCHANGED <<connected, indexed>>
    BY <1>0, <1>6 DEF DropBestPeer, TypeOK
  <2>2. conn'[best].sock = "closing"
    <3>1. conn[best].sock \in {"open", "closing"}
      BY <1>0, <2>1 DEF Inv, BestPeerLives, States, Socks
    <3>2. ClosingOf(best).sock = "closing"
      BY <1>0, <2>1, <3>1 DEF ClosingOf, States
    <3> QED BY <1>0, <2>1, <3>2
  <2>3. Connected' = Connected
    BY <2>1 DEF Connected
  <2>4. ASSUME best' = NoPeer, NEW e \in Connected PROVE e = best[1]
    BY <2>1, <2>4, FoundAmong DEF BestInv, Connected
  <2> QED BY <2>1, <2>2, <2>3, <2>4 DEF BestInv, BestPeerExists
<1>7. CASE Stop
  <2>1. Connected' = {}
    BY <1>7 DEF Stop, Connected
  <2> QED BY <2>1 DEF BestInv, BestPeerExists
<1>8. CASE (\E e \in Outbound : AddEndpoint(e)) \/ UNCHANGED vars
  <2>1. UNCHANGED <<conn, connected, best, indexed>>
    BY <1>8 DEF AddEndpoint, vars, node
  <2> QED BY <2>1, ClosingStays
<1> QED BY <1>1, <1>2, <1>3, <1>4, <1>5, <1>6, <1>7, <1>8 DEF Next, Reset

-----------------------------------------------------------------------------
(* The theorems. *)

\* The inductive invariant holds always.
LEMMA PeersAlways == Spec => []Inv
BY PeersInit, PeersStep, PTL DEF Spec

\* No peer in mutableConnectedPeers has reported its end, however many stale
\* and rival connections to its endpoint there are.
THEOREM ConnectedIsOpenCorrect == Spec => []ConnectedIsOpen
<1>1. Inv => ConnectedIsOpen
  BY DEF Inv
<1> QED BY <1>1, PeersAlways, PTL

\* The peer Node asks for blocks has not reported its end.
THEOREM BestPeerLivesCorrect == Spec => []BestPeerLives
<1>1. Inv => BestPeerLives
  BY DEF Inv
<1> QED BY <1>1, PeersAlways, PTL

\* The tables have entries for endpoints only, each its own endpoint's.
THEOREM TypeCorrect == Spec => []TypeOK
<1>1. Inv => TypeOK
  BY DEF Inv
<1> QED BY <1>1, PeersAlways, PTL

\* Without a reset of the node, a node with a peer that nobody is closing has a
\* best peer: whoever closes or drops the best one finds another.
THEOREM BestPeerExistsCorrect ==
    ASSUME ~MayReset
    PROVE  Spec => []BestPeerExists
<1>1. Init => BestInv
  BY DEF Init, BestInv, BestPeerExists, Connected
<1>2. Inv /\ BestInv /\ [Next]_vars => BestInv'
  BY BestStep
<1>3. BestInv => BestPeerExists
  BY DEF BestInv
<1> QED BY <1>1, <1>2, <1>3, PeersAlways, PTL DEF Spec
=============================================================================
