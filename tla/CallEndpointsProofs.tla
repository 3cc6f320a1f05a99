------------------------ MODULE CallEndpointsProofs ------------------------
(***************************************************************************)
(* Proofs about one end of a call, for every set of relays, every          *)
(* configuration and any number of network changes.                        *)
(***************************************************************************)
EXTENDS CallEndpoints, TLAPS

(* The UDP relays are never dropped.                                       *)
RelaysStay == UdpRelays \subseteq endpoints

(* The relay about to be adopted is one the call has.                      *)
AdoptedIsListed == rx \in Adopting => rx.src \in endpoints

(* TCP is used while a thread is about to prefer a TCP relay.              *)
CommittedUsesTCP == Committed => useTCP \/ "tcp" \in races

(* Before the LAN endpoint is dropped the call is on a relay, or prefers   *)
(* one over TCP and goes to another with the end of TCP.                   *)
LeavesLan ==
    app = "drop" =>
        IsRelay(currentEndpoint) \/ preferredRelay \in TcpRelays \/ "lan" \in races

(* What keeps the endpoint in use and the preferred relay valid.           *)
PathsInv ==
    /\ RelaysStay /\ AdoptedIsListed /\ CommittedUsesTCP /\ LeavesLan
    /\ CurrentIsKept /\ PreferredIsUsable

(* A delayed verdict that the call is established is pending only after    *)
(* the peer's answer.                                                      *)
DelayIsAnswered == setEstablished => receivedInitAck

AnswerInv == DelayIsAnswered /\ EstablishedIsAnswered

(* The kinds of endpoints are told apart, and a call has a UDP relay.      *)
LEMMA Kinds ==
    /\ Udp(First) \in UdpRelays /\ Tcp(First) \in TcpRelays
    /\ UdpRelays \cap TcpRelays = {}
    /\ {P2p, Lan, Dropped} \cap (UdpRelays \cup TcpRelays) = {}
    /\ P2p # Lan /\ P2p # Dropped /\ Lan # Dropped /\ Dropped \notin Endpoints
    /\ UdpRelays \subseteq Endpoints /\ TcpRelays \subseteq Endpoints
    /\ P2p \in Endpoints /\ Lan \in Endpoints
<1>1. Udp(First) \in UdpRelays /\ Tcp(First) \in TcpRelays
    BY EndpointsAssumption DEF UdpRelays, TcpRelays, First
<1>2. \A r \in Relays : Udp(r)[1] = "udp" /\ Tcp(r)[1] = "tcp"
    BY DEF Udp, Tcp
<1>3. /\ P2p[1] = "p2p" /\ Lan[1] = "p2p" /\ Dropped[1] = "p2p"
      /\ P2p[2] = "inet" /\ Lan[2] = "lan" /\ Dropped[2] = "dropped"
    BY DEF P2p, Lan, Dropped
<1>4. \A e \in UdpRelays : e[1] = "udp"
    BY <1>2 DEF UdpRelays
<1>5. \A e \in TcpRelays : e[1] = "tcp"
    BY <1>2 DEF TcpRelays
<1>6. UdpRelays \cap TcpRelays = {}
    BY <1>4, <1>5
<1>7. {P2p, Lan, Dropped} \cap (UdpRelays \cup TcpRelays) = {}
    BY <1>3, <1>4, <1>5
<1>8. P2p # Lan /\ P2p # Dropped /\ Lan # Dropped
    BY <1>3
<1> QED BY <1>1, <1>6, <1>7, <1>8 DEF Endpoints

(* Where the receive thread is with the first init packet.                 *)
LEMMA Places ==
    /\ Idle \notin Adopting /\ Idle.at = "idle"
    /\ \A e \in UdpRelays \cup TcpRelays, a \in {"test", "prefer"} :
        [src |-> e, at |-> a] \in Adopting
    /\ \A x \in Adopting :
        /\ x.at \in {"test", "prefer"} /\ IsRelay(x.src)
        /\ LET y == [x EXCEPT !.at = "prefer"] IN
            y \in Adopting /\ y.at = "prefer" /\ y.src = x.src
BY DEF Adopting, Idle, IsRelay

(* The initial state is typed and satisfies both invariants.               *)
LEMMA InitHolds == Init => TypeOK /\ PathsInv /\ AnswerInv
<1> SUFFICES ASSUME Init PROVE TypeOK /\ PathsInv /\ AnswerInv
    OBVIOUS
<1>1. TypeOK
    <2>1. endpoints \subseteq Endpoints /\ currentEndpoint \in Endpoints
          /\ preferredRelay \in Endpoints /\ known \subseteq Endpoints
        BY Kinds DEF Init
    <2>2. changes \in 0..MaxChanges
        BY EndpointsAssumption DEF Init
    <2> QED BY <2>1, <2>2 DEF Init, TypeOK
<1>2. RelaysStay /\ CurrentIsKept /\ PreferredIsUsable
    BY Kinds DEF Init, RelaysStay, CurrentIsKept, PreferredIsUsable, IsRelay
<1>3. AdoptedIsListed /\ CommittedUsesTCP /\ LeavesLan
    BY DEF Init, AdoptedIsListed, CommittedUsesTCP, LeavesLan, Committed, Adopting, Idle
<1>4. AnswerInv
    BY DEF Init, AnswerInv, DelayIsAnswered, EstablishedIsAnswered
<1> QED BY <1>1, <1>2, <1>3, <1>4 DEF PathsInv

(* The peer's answer comes before the call counts as established: each     *)
(* step of each thread keeps this.                                         *)
LEMMA AnswerStep == TypeOK /\ AnswerInv /\ [Next]_vars => AnswerInv'
<1> SUFFICES ASSUME TypeOK, AnswerInv, [Next]_vars PROVE AnswerInv'
    OBVIOUS
<1> USE DEF AnswerInv, DelayIsAnswered, EstablishedIsAnswered, call, handshake
<1>1. CASE Connect BY <1>1 DEF Connect
<1>2. CASE SetNetworkType BY <1>2 DEF SetNetworkType
<1>3. CASE DropLan BY <1>3 DEF DropLan
<1>4. CASE ResetUdp BY <1>4 DEF ResetUdp
<1>5. CASE EndChange BY <1>5 DEF EndChange
<1>6. CASE AddTcpRelays BY <1>6 DEF AddTcpRelays
<1>7. CASE MoveToTcp BY <1>7 DEF MoveToTcp
<1>8. CASE PreferTcp BY <1>8 DEF PreferTcp
<1>9. CASE InsertTcp BY <1>9 DEF InsertTcp
<1>10. CASE StartResend BY <1>10 DEF StartResend
<1>11. CASE EndResend BY <1>11 DEF EndResend
<1>12. CASE ResendRequest BY <1>12 DEF ResendRequest
<1>13. CASE SendUdpPings BY <1>13 DEF SendUdpPings
<1>14. CASE JudgeUdp BY <1>14 DEF JudgeUdp
<1>15. CASE SendRelayPings BY <1>15 DEF SendRelayPings
<1>16. CASE ReceiveTimeout BY <1>16 DEF ReceiveTimeout
<1>17. CASE InitTimeout BY <1>17 DEF InitTimeout
<1>18. CASE Reconnecting BY <1>18 DEF Reconnecting
<1>19. CASE SetEstablished BY <1>19 DEF SetEstablished
<1>20. CASE AudioFailed BY <1>20 DEF AudioFailed
<1>21. CASE PeerInfo BY <1>21 DEF PeerInfo
<1>22. CASE \E e \in Endpoints : Pong(e) BY <1>22 DEF Pong
<1>23. CASE \E e \in Endpoints : FollowPeer(e) BY <1>23 DEF FollowPeer
<1>24. CASE \E e \in Endpoints, c \in BOOLEAN : ReceiveInit(e, c)
    BY <1>24 DEF ReceiveInit
<1>25. CASE RepeatedInit BY <1>25 DEF RepeatedInit
<1>26. CASE \E o \in {"incompatible", "noAudio", "audio"} : ReceiveInitAck(o)
    BY <1>26 DEF ReceiveInitAck
<1>27. CASE ReceiveStream BY <1>27 DEF ReceiveStream, Establishes
<1>28. CASE ReceiveLan BY <1>28 DEF ReceiveLan
<1>29. CASE ReceiveNetworkChanged BY <1>29 DEF ReceiveNetworkChanged
<1>30. CASE UdpSocketFailed BY <1>30 DEF UdpSocketFailed
<1>31. CASE \E c \in BOOLEAN : AdoptTest(c) BY <1>31 DEF AdoptTest
<1>32. CASE \E c \in BOOLEAN : AdoptPrefer(c) BY <1>32 DEF AdoptPrefer
<1>33. CASE UNCHANGED vars BY <1>33 DEF vars
<1> QED BY <1>1, <1>2, <1>3, <1>4, <1>5, <1>6, <1>7, <1>8, <1>9, <1>10, <1>11,
    <1>12, <1>13, <1>14, <1>15, <1>16, <1>17, <1>18, <1>19, <1>20, <1>21, <1>22,
    <1>23, <1>24, <1>25, <1>26, <1>27, <1>28, <1>29, <1>30, <1>31, <1>32, <1>33
    DEF Next, Tick, Recv, Packet

(* The UDP relays and the relay about to be adopted survive each step, and *)
(* a thread about to prefer a TCP relay keeps TCP in use or the overlap is *)
(* recorded.                                                               *)
LEMMA ListsStep ==
    TypeOK /\ PathsInv /\ [Next]_vars => RelaysStay' /\ AdoptedIsListed' /\ CommittedUsesTCP'
<1> SUFFICES ASSUME TypeOK, PathsInv, [Next]_vars
             PROVE RelaysStay' /\ AdoptedIsListed' /\ CommittedUsesTCP'
    OBVIOUS
<1>0. rx \in {Idle} \cup Adopting
    BY DEF TypeOK
<1> USE Kinds, Places DEF PathsInv, RelaysStay, AdoptedIsListed, CommittedUsesTCP,
    Committed, IsRelay, paths, threads, transports
<1>1. CASE Connect BY <1>1 DEF Connect, InitUDPProxy
<1>2. CASE SetNetworkType BY <1>2 DEF SetNetworkType
<1>3. CASE DropLan BY <1>3 DEF DropLan
<1>4. CASE ResetUdp BY <1>4 DEF ResetUdp
<1>5. CASE EndChange BY <1>5 DEF EndChange, InitUDPProxy
<1>6. CASE AddTcpRelays BY <1>6 DEF AddTcpRelays, Ticks
<1>7. CASE MoveToTcp BY <1>7 DEF MoveToTcp
<1>8. CASE PreferTcp BY <1>8 DEF PreferTcp
<1>9. CASE InsertTcp BY <1>9 DEF InsertTcp
<1>10. CASE StartResend BY <1>10 DEF StartResend, Ticks
<1>11. CASE EndResend BY <1>11 DEF EndResend
<1>12. CASE ResendRequest BY <1>12 DEF ResendRequest
<1>13. CASE SendUdpPings BY <1>13 DEF SendUdpPings
<1>14. CASE JudgeUdp BY <1>14 DEF JudgeUdp
<1>15. CASE SendRelayPings BY <1>15 DEF SendRelayPings, Ticks, LanRace
<1>16. CASE ReceiveTimeout BY <1>16 DEF ReceiveTimeout, Ticks
<1>17. CASE InitTimeout BY <1>17 DEF InitTimeout
<1>18. CASE Reconnecting BY <1>18 DEF Reconnecting
<1>19. CASE SetEstablished BY <1>19 DEF SetEstablished
<1>20. CASE AudioFailed BY <1>20 DEF AudioFailed
<1>21. CASE PeerInfo BY <1>21 DEF PeerInfo
<1>22. CASE \E e \in Endpoints : Pong(e) BY <1>22 DEF Pong
<1>23. CASE \E e \in Endpoints : FollowPeer(e) BY <1>23 DEF FollowPeer, Arrives
<1>24. CASE \E e \in Endpoints, c \in BOOLEAN : ReceiveInit(e, c)
    BY <1>24 DEF ReceiveInit, Adopts, Arrives
<1>25. CASE RepeatedInit BY <1>25 DEF RepeatedInit
<1>26. CASE \E o \in {"incompatible", "noAudio", "audio"} : ReceiveInitAck(o)
    BY <1>26 DEF ReceiveInitAck
<1>27. CASE ReceiveStream BY <1>27 DEF ReceiveStream, Establishes
<1>28. CASE ReceiveLan BY <1>28 DEF ReceiveLan
<1>29. CASE ReceiveNetworkChanged BY <1>29 DEF ReceiveNetworkChanged
<1>30. CASE UdpSocketFailed BY <1>30 DEF UdpSocketFailed
<1>31. CASE \E c \in BOOLEAN : AdoptTest(c)
    <2>1. UNCHANGED <<endpoints, useTCP, races, tick>>
        BY <1>31 DEF AdoptTest, paths, transports
    <2>2. CASE useTCP
        <3>1. rx \in Adopting /\ rx' = [rx EXCEPT !.at = "prefer"]
            BY <1>0, <1>31, <2>2 DEF AdoptTest
        <3> QED BY <2>1, <2>2, <3>1
    <2>3. CASE ~useTCP
        <3>1. rx' = Idle
            BY <1>31, <2>3 DEF AdoptTest
        <3> QED BY <2>1, <3>1
    <2> QED BY <2>2, <2>3
<1>32. CASE \E c \in BOOLEAN : AdoptPrefer(c)
    BY <1>0, <1>32 DEF AdoptPrefer
<1>33. CASE UNCHANGED vars BY <1>33 DEF vars
<1> QED BY <1>1, <1>2, <1>3, <1>4, <1>5, <1>6, <1>7, <1>8, <1>9, <1>10, <1>11,
    <1>12, <1>13, <1>14, <1>15, <1>16, <1>17, <1>18, <1>19, <1>20, <1>21, <1>22,
    <1>23, <1>24, <1>25, <1>26, <1>27, <1>28, <1>29, <1>30, <1>31, <1>32, <1>33
    DEF Next, Tick, Recv, Packet

(* The relay preferred survives each step.                                 *)
LEMMA PreferredStep == TypeOK /\ PathsInv /\ [Next]_vars => PreferredIsUsable'
<1> SUFFICES ASSUME TypeOK, PathsInv, [Next]_vars PROVE PreferredIsUsable'
    OBVIOUS
<1>0. rx \in {Idle} \cup Adopting
    BY DEF TypeOK
<1> USE Kinds, Places DEF PathsInv, RelaysStay, AdoptedIsListed, CommittedUsesTCP,
    Committed, PreferredIsUsable, IsRelay, paths, threads, transports
<1>1. CASE Connect BY <1>1 DEF Connect, InitUDPProxy
<1>2. CASE SetNetworkType BY <1>2 DEF SetNetworkType
<1>3. CASE DropLan BY <1>3 DEF DropLan, AfterTcp
<1>4. CASE ResetUdp BY <1>4 DEF ResetUdp
<1>5. CASE EndChange BY <1>5 DEF EndChange, InitUDPProxy
<1>6. CASE AddTcpRelays BY <1>6 DEF AddTcpRelays, Ticks
<1>7. CASE MoveToTcp BY <1>7 DEF MoveToTcp
<1>8. CASE PreferTcp BY <1>8 DEF PreferTcp
<1>9. CASE InsertTcp BY <1>9 DEF InsertTcp
<1>10. CASE StartResend BY <1>10 DEF StartResend, Ticks
<1>11. CASE EndResend BY <1>11 DEF EndResend
<1>12. CASE ResendRequest BY <1>12 DEF ResendRequest
<1>13. CASE SendUdpPings BY <1>13 DEF SendUdpPings
<1>14. CASE JudgeUdp BY <1>14 DEF JudgeUdp
<1>15. CASE SendRelayPings BY <1>15 DEF SendRelayPings, Ticks, Candidates, LanRace
<1>16. CASE ReceiveTimeout BY <1>16 DEF ReceiveTimeout, Ticks
<1>17. CASE InitTimeout BY <1>17 DEF InitTimeout
<1>18. CASE Reconnecting BY <1>18 DEF Reconnecting
<1>19. CASE SetEstablished BY <1>19 DEF SetEstablished
<1>20. CASE AudioFailed BY <1>20 DEF AudioFailed
<1>21. CASE PeerInfo BY <1>21 DEF PeerInfo
<1>22. CASE \E e \in Endpoints : Pong(e) BY <1>22 DEF Pong
<1>23. CASE \E e \in Endpoints : FollowPeer(e) BY <1>23 DEF FollowPeer, Arrives
<1>24. CASE \E e \in Endpoints, c \in BOOLEAN : ReceiveInit(e, c)
    BY <1>24 DEF ReceiveInit, Adopts, Arrives
<1>25. CASE RepeatedInit BY <1>25 DEF RepeatedInit
<1>26. CASE \E o \in {"incompatible", "noAudio", "audio"} : ReceiveInitAck(o)
    BY <1>26 DEF ReceiveInitAck
<1>27. CASE ReceiveStream BY <1>27 DEF ReceiveStream, Establishes
<1>28. CASE ReceiveLan BY <1>28 DEF ReceiveLan
<1>29. CASE ReceiveNetworkChanged BY <1>29 DEF ReceiveNetworkChanged
<1>30. CASE UdpSocketFailed BY <1>30 DEF UdpSocketFailed
<1>31. CASE \E c \in BOOLEAN : AdoptTest(c) BY <1>31 DEF AdoptTest
<1>32. CASE \E c \in BOOLEAN : AdoptPrefer(c)
    <2>1. rx \in Adopting /\ preferredRelay' = rx.src /\ IsRelay(rx.src)
        BY <1>0, <1>32 DEF AdoptPrefer
    <2>2. UNCHANGED <<endpoints, useTCP, tick>> /\ races \subseteq races'
        BY <1>32 DEF AdoptPrefer
    <2>3. rx.src \in endpoints /\ (rx.src \in TcpRelays => useTCP \/ "tcp" \in races)
        BY <1>32, <2>1 DEF AdoptPrefer
    <2> QED BY <2>1, <2>2, <2>3
<1>33. CASE UNCHANGED vars BY <1>33 DEF vars
<1> QED BY <1>1, <1>2, <1>3, <1>4, <1>5, <1>6, <1>7, <1>8, <1>9, <1>10, <1>11,
    <1>12, <1>13, <1>14, <1>15, <1>16, <1>17, <1>18, <1>19, <1>20, <1>21, <1>22,
    <1>23, <1>24, <1>25, <1>26, <1>27, <1>28, <1>29, <1>30, <1>31, <1>32, <1>33
    DEF Next, Tick, Recv, Packet

(* So does the endpoint in use.  Two steps drop endpoints: DropLan the LAN *)
(* one, PeerInfo both peer to peer ones.                                   *)
LEMMA CurrentStep == TypeOK /\ PathsInv /\ [Next]_vars => CurrentIsKept' /\ LeavesLan'
<1> SUFFICES ASSUME TypeOK, PathsInv, [Next]_vars PROVE CurrentIsKept' /\ LeavesLan'
    OBVIOUS
<1>0. rx \in {Idle} \cup Adopting
    BY DEF TypeOK
<1> USE Kinds, Places DEF PathsInv, RelaysStay, AdoptedIsListed, LeavesLan,
    CurrentIsKept, PreferredIsUsable, IsRelay, paths, threads
<1>1. CASE Connect BY <1>1 DEF Connect, InitUDPProxy
<1>2. CASE SetNetworkType BY <1>2 DEF SetNetworkType, AfterChange
<1>3. CASE DropLan BY <1>3 DEF DropLan
<1>4. CASE ResetUdp BY <1>4 DEF ResetUdp
<1>5. CASE EndChange BY <1>5 DEF EndChange, InitUDPProxy
<1>6. CASE AddTcpRelays BY <1>6 DEF AddTcpRelays, Ticks
<1>7. CASE MoveToTcp BY <1>7 DEF MoveToTcp
<1>8. CASE PreferTcp BY <1>8 DEF PreferTcp
<1>9. CASE InsertTcp BY <1>9 DEF InsertTcp
<1>10. CASE StartResend BY <1>10 DEF StartResend, Ticks
<1>11. CASE EndResend BY <1>11 DEF EndResend
<1>12. CASE ResendRequest BY <1>12 DEF ResendRequest
<1>13. CASE SendUdpPings BY <1>13 DEF SendUdpPings
<1>14. CASE JudgeUdp BY <1>14 DEF JudgeUdp
<1>15. CASE SendRelayPings BY <1>15 DEF SendRelayPings, Ticks, Candidates, LanRace
<1>16. CASE ReceiveTimeout BY <1>16 DEF ReceiveTimeout, Ticks
<1>17. CASE InitTimeout BY <1>17 DEF InitTimeout
<1>18. CASE Reconnecting BY <1>18 DEF Reconnecting
<1>19. CASE SetEstablished BY <1>19 DEF SetEstablished
<1>20. CASE AudioFailed BY <1>20 DEF AudioFailed
<1>21. CASE PeerInfo BY <1>21 DEF PeerInfo
<1>22. CASE \E e \in Endpoints : Pong(e) BY <1>22 DEF Pong
<1>23. CASE \E e \in Endpoints : FollowPeer(e)
    BY <1>23 DEF FollowPeer, MayFollow, Arrives
<1>24. CASE \E e \in Endpoints, c \in BOOLEAN : ReceiveInit(e, c)
    BY <1>24 DEF ReceiveInit, Adopts, Arrives
<1>25. CASE RepeatedInit BY <1>25 DEF RepeatedInit
<1>26. CASE \E o \in {"incompatible", "noAudio", "audio"} : ReceiveInitAck(o)
    BY <1>26 DEF ReceiveInitAck
<1>27. CASE ReceiveStream BY <1>27 DEF ReceiveStream, Establishes
<1>28. CASE ReceiveLan BY <1>28 DEF ReceiveLan
<1>29. CASE ReceiveNetworkChanged BY <1>29 DEF ReceiveNetworkChanged
<1>30. CASE UdpSocketFailed BY <1>30 DEF UdpSocketFailed
<1>31. CASE \E c \in BOOLEAN : AdoptTest(c) BY <1>31 DEF AdoptTest
<1>32. CASE \E c \in BOOLEAN : AdoptPrefer(c)
    BY <1>0, <1>32 DEF AdoptPrefer, LanRace
<1>33. CASE UNCHANGED vars BY <1>33 DEF vars
<1> QED BY <1>1, <1>2, <1>3, <1>4, <1>5, <1>6, <1>7, <1>8, <1>9, <1>10, <1>11,
    <1>12, <1>13, <1>14, <1>15, <1>16, <1>17, <1>18, <1>19, <1>20, <1>21, <1>22,
    <1>23, <1>24, <1>25, <1>26, <1>27, <1>28, <1>29, <1>30, <1>31, <1>32, <1>33
    DEF Next, Tick, Recv, Packet

(* TypeOK in three parts, proved one after the other.                      *)
FlagsOK ==
    /\ initiated \in BOOLEAN /\ receivedInit \in BOOLEAN /\ receivedInitAck \in BOOLEAN
    /\ setEstablished \in BOOLEAN
    /\ useTCP \in BOOLEAN /\ useUDP \in BOOLEAN
    /\ didAddTcpRelays \in BOOLEAN /\ setCurrentEndpointToTCP \in BOOLEAN
    /\ waitingForRelayPeerInfo \in BOOLEAN
StatesOK ==
    /\ state \in {"waitInit", "waitInitAck", "established", "failed", "reconnecting"}
    /\ tick \in {"idle", "resend", "copy", "prefer", "insert"}
    /\ rx \in {Idle} \cup Adopting
    /\ app \in {"idle", "drop", "reset", "proxy"}
    /\ udpState \in {"unknown", "pingSent", "available", "notAvailable", "bad"}
    /\ socket \in {"real", "proxy"}
    /\ changes \in 0..MaxChanges /\ races \subseteq {"lan", "tcp"}
PathsOK ==
    /\ endpoints \subseteq Endpoints /\ known \subseteq Endpoints
    /\ currentEndpoint \in Endpoints \cup {Dropped} /\ preferredRelay \in Endpoints

(* No step makes a flag anything but a flag.                               *)
LEMMA FlagsStep == TypeOK /\ [Next]_vars => FlagsOK'
<1> SUFFICES ASSUME TypeOK, [Next]_vars PROVE FlagsOK'
    OBVIOUS
<1> USE EndpointsAssumption DEF TypeOK, FlagsOK, call, handshake, transports
<1>1. CASE Connect BY <1>1 DEF Connect, InitUDPProxy, ProxyOutcomes
<1>2. CASE SetNetworkType BY <1>2 DEF SetNetworkType
<1>3. CASE DropLan BY <1>3 DEF DropLan
<1>4. CASE ResetUdp BY <1>4 DEF ResetUdp
<1>5. CASE EndChange BY <1>5 DEF EndChange, InitUDPProxy, ProxyOutcomes
<1>6. CASE AddTcpRelays BY <1>6 DEF AddTcpRelays
<1>7. CASE MoveToTcp BY <1>7 DEF MoveToTcp
<1>8. CASE PreferTcp BY <1>8 DEF PreferTcp
<1>9. CASE InsertTcp BY <1>9 DEF InsertTcp
<1>10. CASE StartResend BY <1>10 DEF StartResend
<1>11. CASE EndResend BY <1>11 DEF EndResend
<1>12. CASE ResendRequest BY <1>12 DEF ResendRequest, Requested
<1>13. CASE SendUdpPings BY <1>13 DEF SendUdpPings
<1>14. CASE JudgeUdp BY <1>14 DEF JudgeUdp, Verdicts
<1>15. CASE SendRelayPings BY <1>15 DEF SendRelayPings
<1>16. CASE ReceiveTimeout BY <1>16 DEF ReceiveTimeout, Requested
<1>17. CASE InitTimeout BY <1>17 DEF InitTimeout
<1>18. CASE Reconnecting BY <1>18 DEF Reconnecting
<1>19. CASE SetEstablished BY <1>19 DEF SetEstablished
<1>20. CASE AudioFailed BY <1>20 DEF AudioFailed
<1>21. CASE PeerInfo BY <1>21 DEF PeerInfo
<1>22. CASE \E e \in Endpoints : Pong(e) BY <1>22 DEF Pong
<1>23. CASE \E e \in Endpoints : FollowPeer(e) BY <1>23 DEF FollowPeer, Requested
<1>24. CASE \E e \in Endpoints, c \in BOOLEAN : ReceiveInit(e, c)
    BY <1>24 DEF ReceiveInit
<1>25. CASE RepeatedInit BY <1>25 DEF RepeatedInit
<1>26. CASE \E o \in {"incompatible", "noAudio", "audio"} : ReceiveInitAck(o)
    BY <1>26 DEF ReceiveInitAck, Requested
<1>27. CASE ReceiveStream BY <1>27 DEF ReceiveStream, Establishes
<1>28. CASE ReceiveLan BY <1>28 DEF ReceiveLan
<1>29. CASE ReceiveNetworkChanged BY <1>29 DEF ReceiveNetworkChanged, Requested
<1>30. CASE UdpSocketFailed BY <1>30 DEF UdpSocketFailed
<1>31. CASE \E c \in BOOLEAN : AdoptTest(c) BY <1>31 DEF AdoptTest
<1>32. CASE \E c \in BOOLEAN : AdoptPrefer(c) BY <1>32 DEF AdoptPrefer
<1>33. CASE UNCHANGED vars BY <1>33 DEF vars
<1> QED BY <1>1, <1>2, <1>3, <1>4, <1>5, <1>6, <1>7, <1>8, <1>9, <1>10, <1>11,
    <1>12, <1>13, <1>14, <1>15, <1>16, <1>17, <1>18, <1>19, <1>20, <1>21, <1>22,
    <1>23, <1>24, <1>25, <1>26, <1>27, <1>28, <1>29, <1>30, <1>31, <1>32, <1>33
    DEF Next, Tick, Recv, Packet

(* No step leaves the call or a thread in a state the code has no case for. *)
LEMMA StatesStep == TypeOK /\ [Next]_vars => StatesOK'
<1> SUFFICES ASSUME TypeOK, [Next]_vars PROVE StatesOK'
    OBVIOUS
<1> USE EndpointsAssumption, Places DEF TypeOK, StatesOK, call, handshake, threads, env
<1>1. CASE Connect BY <1>1 DEF Connect, InitUDPProxy, ProxyOutcomes
<1>2. CASE SetNetworkType BY <1>2 DEF SetNetworkType
<1>3. CASE DropLan BY <1>3 DEF DropLan
<1>4. CASE ResetUdp BY <1>4 DEF ResetUdp
<1>5. CASE EndChange BY <1>5 DEF EndChange, InitUDPProxy, ProxyOutcomes
<1>6. CASE AddTcpRelays BY <1>6 DEF AddTcpRelays
<1>7. CASE MoveToTcp BY <1>7 DEF MoveToTcp
<1>8. CASE PreferTcp BY <1>8 DEF PreferTcp
<1>9. CASE InsertTcp BY <1>9 DEF InsertTcp
<1>10. CASE StartResend BY <1>10 DEF StartResend
<1>11. CASE EndResend BY <1>11 DEF EndResend
<1>12. CASE ResendRequest BY <1>12 DEF ResendRequest
<1>13. CASE SendUdpPings BY <1>13 DEF SendUdpPings
<1>14. CASE JudgeUdp BY <1>14 DEF JudgeUdp, Verdicts
<1>15. CASE SendRelayPings BY <1>15 DEF SendRelayPings, LanRace
<1>16. CASE ReceiveTimeout BY <1>16 DEF ReceiveTimeout
<1>17. CASE InitTimeout BY <1>17 DEF InitTimeout
<1>18. CASE Reconnecting BY <1>18 DEF Reconnecting
<1>19. CASE SetEstablished BY <1>19 DEF SetEstablished
<1>20. CASE AudioFailed BY <1>20 DEF AudioFailed
<1>21. CASE PeerInfo BY <1>21 DEF PeerInfo
<1>22. CASE \E e \in Endpoints : Pong(e) BY <1>22 DEF Pong
<1>23. CASE \E e \in Endpoints : FollowPeer(e) BY <1>23 DEF FollowPeer
<1>24. CASE \E e \in Endpoints, c \in BOOLEAN : ReceiveInit(e, c)
    <2>1. PICK e \in Endpoints, c \in BOOLEAN : ReceiveInit(e, c)
        BY <1>24
    <2> DEFINE a == IF e \in UdpRelays THEN "prefer" ELSE "test"
    <2>2. rx' = rx \/ (e \in UdpRelays \cup TcpRelays /\ rx' = [src |-> e, at |-> a])
        BY <2>1 DEF ReceiveInit, Adopts
    <2>3. a \in {"test", "prefer"}
        OBVIOUS
    <2>4. rx' \in {Idle} \cup Adopting
        BY <2>2, <2>3
    <2> QED BY <2>1, <2>4 DEF ReceiveInit
<1>25. CASE RepeatedInit BY <1>25 DEF RepeatedInit
<1>26. CASE \E o \in {"incompatible", "noAudio", "audio"} : ReceiveInitAck(o)
    BY <1>26 DEF ReceiveInitAck
<1>27. CASE ReceiveStream BY <1>27 DEF ReceiveStream, Establishes
<1>28. CASE ReceiveLan BY <1>28 DEF ReceiveLan
<1>29. CASE ReceiveNetworkChanged BY <1>29 DEF ReceiveNetworkChanged
<1>30. CASE UdpSocketFailed BY <1>30 DEF UdpSocketFailed
<1>31. CASE \E c \in BOOLEAN : AdoptTest(c) BY <1>31 DEF AdoptTest
<1>32. CASE \E c \in BOOLEAN : AdoptPrefer(c) BY <1>32 DEF AdoptPrefer, LanRace
<1>33. CASE UNCHANGED vars BY <1>33 DEF vars
<1> QED BY <1>1, <1>2, <1>3, <1>4, <1>5, <1>6, <1>7, <1>8, <1>9, <1>10, <1>11,
    <1>12, <1>13, <1>14, <1>15, <1>16, <1>17, <1>18, <1>19, <1>20, <1>21, <1>22,
    <1>23, <1>24, <1>25, <1>26, <1>27, <1>28, <1>29, <1>30, <1>31, <1>32, <1>33
    DEF Next, Tick, Recv, Packet

(* Every endpoint a step keeps, prefers or uses is one of the known kinds. *)
LEMMA PathsTypeStep == TypeOK /\ PathsInv' /\ [Next]_vars => PathsOK'
<1> SUFFICES ASSUME TypeOK, PathsInv', [Next]_vars PROVE PathsOK'
    OBVIOUS
<1> USE Kinds, Places DEF TypeOK, PathsOK, IsRelay, paths
<1>1. CASE Connect BY <1>1 DEF Connect
<1>2. CASE SetNetworkType BY <1>2 DEF SetNetworkType, AfterChange
<1>3. CASE DropLan BY <1>3 DEF DropLan, AfterTcp
<1>4. CASE ResetUdp BY <1>4 DEF ResetUdp
<1>5. CASE EndChange BY <1>5 DEF EndChange
<1>6. CASE AddTcpRelays BY <1>6 DEF AddTcpRelays
<1>7. CASE MoveToTcp BY <1>7 DEF MoveToTcp
<1>8. CASE PreferTcp BY <1>8 DEF PreferTcp
<1>9. CASE InsertTcp BY <1>9 DEF InsertTcp
<1>10. CASE StartResend BY <1>10 DEF StartResend
<1>11. CASE EndResend BY <1>11 DEF EndResend
<1>12. CASE ResendRequest BY <1>12 DEF ResendRequest
<1>13. CASE SendUdpPings BY <1>13 DEF SendUdpPings
<1>14. CASE JudgeUdp BY <1>14 DEF JudgeUdp
<1>15. CASE SendRelayPings BY <1>15 DEF SendRelayPings, Candidates
<1>16. CASE ReceiveTimeout BY <1>16 DEF ReceiveTimeout
<1>17. CASE InitTimeout BY <1>17 DEF InitTimeout
<1>18. CASE Reconnecting BY <1>18 DEF Reconnecting
<1>19. CASE SetEstablished BY <1>19 DEF SetEstablished
<1>20. CASE AudioFailed BY <1>20 DEF AudioFailed
<1>21. CASE PeerInfo BY <1>21 DEF PeerInfo
<1>22. CASE \E e \in Endpoints : Pong(e) BY <1>22 DEF Pong
<1>23. CASE \E e \in Endpoints : FollowPeer(e) BY <1>23 DEF FollowPeer
<1>24. CASE \E e \in Endpoints, c \in BOOLEAN : ReceiveInit(e, c)
    BY <1>24 DEF ReceiveInit
<1>25. CASE RepeatedInit BY <1>25 DEF RepeatedInit
<1>26. CASE \E o \in {"incompatible", "noAudio", "audio"} : ReceiveInitAck(o)
    BY <1>26 DEF ReceiveInitAck
<1>27. CASE ReceiveStream BY <1>27 DEF ReceiveStream, Establishes
<1>28. CASE ReceiveLan BY <1>28 DEF ReceiveLan
<1>29. CASE ReceiveNetworkChanged BY <1>29 DEF ReceiveNetworkChanged
<1>30. CASE UdpSocketFailed BY <1>30 DEF UdpSocketFailed
<1>31. CASE \E c \in BOOLEAN : AdoptTest(c) BY <1>31 DEF AdoptTest
<1>32. CASE \E c \in BOOLEAN : AdoptPrefer(c) BY <1>32 DEF AdoptPrefer
<1>33. CASE UNCHANGED vars BY <1>33 DEF vars
<1> QED BY <1>1, <1>2, <1>3, <1>4, <1>5, <1>6, <1>7, <1>8, <1>9, <1>10, <1>11,
    <1>12, <1>13, <1>14, <1>15, <1>16, <1>17, <1>18, <1>19, <1>20, <1>21, <1>22,
    <1>23, <1>24, <1>25, <1>26, <1>27, <1>28, <1>29, <1>30, <1>31, <1>32, <1>33
    DEF Next, Tick, Recv, Packet

(* Every step keeps the three invariants together.                         *)
LEMMA StepHolds ==
    TypeOK /\ PathsInv /\ AnswerInv /\ [Next]_vars => TypeOK' /\ PathsInv' /\ AnswerInv'
<1> SUFFICES ASSUME TypeOK, PathsInv, AnswerInv, [Next]_vars
             PROVE TypeOK' /\ PathsInv' /\ AnswerInv'
    OBVIOUS
<1>1. PathsInv'
    BY ListsStep, PreferredStep, CurrentStep DEF PathsInv
<1>2. AnswerInv'
    BY AnswerStep
<1>3. FlagsOK' /\ StatesOK' /\ PathsOK'
    BY <1>1, FlagsStep, StatesStep, PathsTypeStep
<1>4. TypeOK'
    BY <1>3 DEF FlagsOK, StatesOK, PathsOK, TypeOK
<1> QED BY <1>1, <1>2, <1>4

(* They hold in every behaviour.                                           *)
LEMMA Invariants == Spec => [](TypeOK /\ PathsInv /\ AnswerInv)
<1>1. TypeOK /\ PathsInv /\ AnswerInv /\ [Next]_vars
      => (TypeOK /\ PathsInv /\ AnswerInv)'
    BY StepHolds
<1> QED BY InitHolds, <1>1, PTL DEF Spec

(* Every variable keeps its type, for any relays and limits.               *)
THEOREM TypeCorrect == Spec => []TypeOK
BY Invariants, PTL

(* The endpoint that packets are sent to is one the call has or is about   *)
(* to have, whichever thread drops endpoints and whichever moves the call, *)
(* but for a LAN endpoint dropped while another thread came in between.    *)
THEOREM CurrentSafe == Spec => []CurrentIsKept
<1>1. PathsInv => CurrentIsKept
    BY DEF PathsInv
<1> QED BY <1>1, Invariants, PTL

(* The relay that the call falls back to when a peer to peer path is lost  *)
(* is one it has or is about to have, and a TCP relay only while TCP is    *)
(* used, but for a thread that was about to prefer it when TCP was left.   *)
THEOREM PreferredSafe == Spec => []PreferredIsUsable
<1>1. PathsInv => PreferredIsUsable
    BY DEF PathsInv
<1> QED BY <1>1, Invariants, PTL

(* A call counts as established only after the peer answered the init      *)
(* packet, although a resend of that packet sets the state back.           *)
THEOREM EstablishedSafe == Spec => []EstablishedIsAnswered
<1>1. AnswerInv => EstablishedIsAnswered
    BY DEF AnswerInv
<1> QED BY <1>1, Invariants, PTL
============================================================================
