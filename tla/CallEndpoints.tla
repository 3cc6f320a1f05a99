--------------------------- MODULE CallEndpoints ---------------------------
(***************************************************************************)
(* One end of a call: its state, its endpoints and the transports it uses  *)
(* (submodules/libtgvoip/VoIPController.cpp).  A call starts on a UDP      *)
(* relay.  The tick thread finds out whether UDP works, falls back to TCP  *)
(* copies of the relays, measures the endpoints and moves to the best; the *)
(* receive thread learns of peer to peer endpoints and follows the peer;   *)
(* the application reports changes of the network.                         *)
(*                                                                         *)
(* currentEndpoint, preferredRelay and useTCP are shared without a lock,   *)
(* so what a thread does to them is cut where another thread can come in   *)
(* between: the tick thread's copying of the relays and its resending of   *)
(* the init packet (tick), the receive thread's first init packet (rx) and *)
(* a change of the network (app) are several actions each.  The rest of a  *)
(* thread's step is one action: it holds endpointsMutex, or reads and      *)
(* writes one of these variables in one statement.                         *)
(* An endpoint's averageRTT is known or 0: which of two known ones is      *)
(* better is a choice, and so are how many UDP pings are answered and      *)
(* which packets arrive.  Timeouts come at any time.  IPv6-only endpoints  *)
(* and what the packets carry are left out.                                *)
(***************************************************************************)
EXTENDS Naturals, FiniteSets

CONSTANTS
    Relays,        \* relays that the server names, all UDP
    AllowP2p,      \* allowP2p
    ConfigUseTCP,  \* "use_tcp" of the server's configuration
    UseProxy,      \* proxyProtocol is PROXY_SOCKS5
    MaxChanges     \* bound on the changes of the network

ASSUME EndpointsAssumption ==
    /\ Relays # {} /\ IsFiniteSet(Relays)
    /\ AllowP2p \in BOOLEAN /\ ConfigUseTCP \in BOOLEAN /\ UseProxy \in BOOLEAN
    /\ MaxChanges \in Nat

Udp(r) == <<"udp", r>>
Tcp(r) == <<"tcp", r>>
P2p == <<"p2p", "inet">>
Lan == <<"p2p", "lan">>
UdpRelays == {Udp(r) : r \in Relays}
TcpRelays == {Tcp(r) : r \in Relays}
IsRelay(e) == e \in UdpRelays \cup TcpRelays
Endpoints == UdpRelays \cup TcpRelays \cup {P2p, Lan}

(* An endpoint object that is not in the list any more: a LAN endpoint     *)
(* that was dropped while the call used it.                                *)
Dropped == <<"p2p", "dropped">>

(* The first relay of the list.                                            *)
First == CHOOSE r \in Relays : TRUE

VARIABLES
    state,            \* the call's state
    initiated,        \* connectionInitTime > 0
    receivedInitAck, receivedInit,
    setEstablished,   \* setEstablishedAt > 0
    tick,             \* where the tick thread is
    rx,               \* where the receive thread is with the first init packet
    app,              \* where SetNetworkType is
    endpoints,
    currentEndpoint, preferredRelay,
    known,            \* endpoints whose averageRTT is not 0
    useTCP, useUDP,
    didAddTcpRelays, setCurrentEndpointToTCP,
    udpState,         \* udpConnectivityState
    waitingForRelayPeerInfo,
    socket,           \* what udpSocket is: the real socket or the proxy's
    changes,
    races             \* overlaps of threads so far, for the properties

handshake == <<initiated, receivedInitAck, receivedInit>>
call == <<state, handshake, setEstablished>>
threads == <<tick, rx, app, races>>
paths == <<endpoints, currentEndpoint, preferredRelay, known>>
transports == <<useTCP, useUDP, didAddTcpRelays, setCurrentEndpointToTCP>>
env == <<socket, changes>>
vars == <<call, threads, paths, transports, udpState, waitingForRelayPeerInfo, env>>

(* The source of the first init packet and what is next: the test of       *)
(* useTCP or the assignment to preferredRelay.                             *)
Adopting == [src : UdpRelays \cup TcpRelays, at : {"test", "prefer"}]
Idle == [at |-> "idle"]

TypeOK ==
    /\ state \in {"waitInit", "waitInitAck", "established", "failed", "reconnecting"}
    /\ initiated \in BOOLEAN /\ receivedInit \in BOOLEAN /\ receivedInitAck \in BOOLEAN
    /\ setEstablished \in BOOLEAN
    /\ tick \in {"idle", "resend", "copy", "prefer", "insert"}
    /\ rx \in {Idle} \cup Adopting
    /\ app \in {"idle", "drop", "reset", "proxy"}
    /\ endpoints \subseteq Endpoints /\ known \subseteq Endpoints
    /\ currentEndpoint \in Endpoints \cup {Dropped} /\ preferredRelay \in Endpoints
    /\ useTCP \in BOOLEAN /\ useUDP \in BOOLEAN
    /\ didAddTcpRelays \in BOOLEAN /\ setCurrentEndpointToTCP \in BOOLEAN
    /\ udpState \in {"unknown", "pingSent", "available", "notAvailable", "bad"}
    /\ waitingForRelayPeerInfo \in BOOLEAN
    /\ socket \in {"real", "proxy"}
    /\ changes \in 0..MaxChanges /\ races \subseteq {"lan", "tcp"}

(* After SetRemoteEndpoints and Start.                                     *)
Init ==
    /\ state = "waitInit"
    /\ initiated = FALSE /\ receivedInit = FALSE /\ receivedInitAck = FALSE
    /\ setEstablished = FALSE
    /\ tick = "idle" /\ rx = Idle /\ app = "idle" /\ races = {}
    /\ endpoints = UdpRelays /\ known = {}
    /\ currentEndpoint = Udp(First) /\ preferredRelay = Udp(First)
    /\ useTCP = FALSE /\ useUDP = TRUE
    /\ didAddTcpRelays = FALSE /\ setCurrentEndpointToTCP = FALSE
    /\ udpState = "unknown"
    /\ waitingForRelayPeerInfo = FALSE
    /\ socket = "real" /\ changes = 0

-----------------------------------------------------------------------------
(* Shared pieces                                                           *)

(* Connect was called; the tick thread is at the start of a step.          *)
Connected == state # "waitInit"
Ticks == initiated /\ tick = "idle"

(* Whether the send thread hands a packet for e to a socket (884).         *)
Sends(e) == IF e \in TcpRelays THEN useTCP ELSE useUDP

(* Whether a packet from e can arrive.                                     *)
Arrives(e) ==
    /\ e \in endpoints
    /\ e \in TcpRelays => useTCP

(* Whether any packet can: from which endpoint does not matter to most.    *)
Receives == Connected /\ \E e \in Endpoints : Arrives(e)

(* waitingForRelayPeerInfo after SendPublicEndpointsRequest.               *)
Requested == IF AllowP2p /\ useUDP THEN TRUE ELSE waitingForRelayPeerInfo

(* InitUDPProxy: the proxy cannot be reached, it refuses UDP, or UDP goes  *)
(* through it.  tcp and udp are useTCP and udpConnectivityState before it. *)
ProxyOutcomes == IF UseProxy THEN {"unreachable", "noUdp", "proxied"} ELSE {"none"}
InitUDPProxy(outcome, tcp, udp) ==
    /\ socket' = IF outcome = "proxied" THEN "proxy" ELSE "real"
    /\ useTCP' = (tcp \/ outcome = "noUdp")
    /\ useUDP' = (useUDP /\ outcome # "noUdp")
    /\ udpState' = IF outcome = "noUdp" THEN "notAvailable" ELSE udp

-----------------------------------------------------------------------------
(* The application                                                         *)

(* The proxy is set up and the init packet sent; SendInit sets the state   *)
(* whatever InitUDPProxy set it to.  Only a proxy whose name cannot be     *)
(* resolved ends the attempt.                                              *)
Connect ==
    /\ state = "waitInit"
    /\ \/ /\ \E o \in ProxyOutcomes : InitUDPProxy(o, useTCP, udpState)
          /\ state' = "waitInitAck" /\ initiated' = TRUE
       \/ /\ UseProxy
          /\ state' = "failed" /\ initiated' = FALSE
          /\ UNCHANGED <<socket, useTCP, useUDP, udpState>>
    /\ UNCHANGED <<receivedInitAck, receivedInit, setEstablished, threads, paths,
                   didAddTcpRelays, setCurrentEndpointToTCP, waitingForRelayPeerInfo,
                   changes>>

(* Mutant: a change of the network leaves the LAN endpoint in use.         *)
AfterChangeKeep == currentEndpoint

(* currentEndpoint when the interface changed, without endpointsMutex.     *)
AfterChange ==
    IF currentEndpoint \notin UdpRelays /\ preferredRelay \in UdpRelays
    THEN preferredRelay ELSE currentEndpoint

(* Mutant: TCP is left and a TCP relay stays preferred.                    *)
AfterTcpPrefer == preferredRelay

(* preferredRelay when the use of TCP ends.                                *)
AfterTcp == IF useTCP /\ preferredRelay \in TcpRelays THEN Udp(First) ELSE preferredRelay

(* The active interface changes: a call that is not on a UDP relay goes    *)
(* to the preferred one, and its endpoints are looked through next.        *)
SetNetworkType ==
    /\ Connected /\ app = "idle" /\ changes < MaxChanges
    /\ changes' = changes + 1
    /\ currentEndpoint' = AfterChange
    /\ app' = IF currentEndpoint \in UdpRelays THEN "reset" ELSE "drop"
    /\ UNCHANGED <<call, tick, rx, races, endpoints, preferredRelay, known, transports,
                   udpState, waitingForRelayPeerInfo, socket>>

(* A thread that has read useTCP and will prefer a TCP relay.              *)
Committed ==
    \/ tick \in {"copy", "prefer"}
    \/ rx \in Adopting /\ rx.at = "prefer" /\ rx.src \in TcpRelays

(* The loop over the endpoints, under endpointsMutex: the first UDP relay  *)
(* ends the use of TCP, nothing is measured any more and the LAN endpoint  *)
(* goes.                                                                   *)
DropLan ==
    /\ app = "drop" /\ app' = "reset"
    /\ preferredRelay' = AfterTcp
    /\ useTCP' = FALSE
    /\ currentEndpoint' = IF useTCP /\ preferredRelay \in TcpRelays THEN Udp(First)
                          ELSE IF currentEndpoint = Lan THEN Dropped ELSE currentEndpoint
    /\ endpoints' = endpoints \ {Lan}
    /\ known' = {}
    /\ races' = races \cup (IF useTCP /\ Committed THEN {"tcp"} ELSE {})
    /\ UNCHANGED <<call, tick, rx, useUDP, didAddTcpRelays, setCurrentEndpointToTCP,
                   udpState, waitingForRelayPeerInfo, env>>

(* UDP is to be tried again, and InitUDPProxy puts the real socket back.   *)
ResetUdp ==
    /\ app = "reset" /\ app' = "proxy"
    /\ udpState' = "unknown"
    /\ socket' = "real"
    /\ UNCHANGED <<call, tick, rx, races, paths, transports, waitingForRelayPeerInfo,
                   changes>>

(* The rest of InitUDPProxy, and a new request for the peer's address.     *)
EndChange ==
    /\ app = "proxy" /\ app' = "idle"
    /\ \E o \in ProxyOutcomes :
        /\ InitUDPProxy(o, useTCP, udpState)
        /\ state' = IF o = "unreachable" THEN "failed" ELSE state
    /\ waitingForRelayPeerInfo' =
          IF AllowP2p /\ useUDP' THEN TRUE ELSE waitingForRelayPeerInfo
    /\ UNCHANGED <<handshake, setEstablished, tick, rx, races, paths, didAddTcpRelays,
                   setCurrentEndpointToTCP, changes>>

-----------------------------------------------------------------------------
(* The tick thread                                                         *)

(* TCP is taken up for the first time: the relays are to be copied.        *)
AddTcpRelays ==
    /\ Ticks /\ useTCP /\ ~didAddTcpRelays
    /\ tick' = "copy"
    /\ UNCHANGED <<call, rx, app, races, paths, transports, udpState,
                   waitingForRelayPeerInfo, env>>

(* The call moves to the copy of the first relay, if a verdict asked for   *)
(* that, then prefers it, then adds all copies to the endpoints.           *)
MoveToTcp ==
    /\ tick = "copy"
    /\ IF setCurrentEndpointToTCP /\ currentEndpoint \notin TcpRelays
       THEN /\ tick' = "prefer"
            /\ setCurrentEndpointToTCP' = FALSE /\ currentEndpoint' = Tcp(First)
       ELSE tick' = "insert" /\ UNCHANGED <<setCurrentEndpointToTCP, currentEndpoint>>
    /\ UNCHANGED <<call, rx, app, races, endpoints, preferredRelay, known, useTCP,
                   useUDP, didAddTcpRelays, udpState, waitingForRelayPeerInfo, env>>
PreferTcp ==
    /\ tick = "prefer" /\ tick' = "insert"
    /\ preferredRelay' = Tcp(First)
    /\ UNCHANGED <<call, rx, app, races, endpoints, currentEndpoint, known, transports,
                   udpState, waitingForRelayPeerInfo, env>>
InsertTcp ==
    /\ tick = "insert" /\ tick' = "idle"
    /\ endpoints' = endpoints \cup TcpRelays
    /\ didAddTcpRelays' = TRUE
    /\ UNCHANGED <<call, rx, app, races, currentEndpoint, preferredRelay, known, useTCP,
                   useUDP, setCurrentEndpointToTCP, udpState, waitingForRelayPeerInfo,
                   env>>

(* The init packet is sent again: the state is looked at, and set later.   *)
StartResend ==
    /\ Ticks /\ state = "waitInitAck"
    /\ tick' = "resend"
    /\ UNCHANGED <<call, rx, app, races, paths, transports, udpState,
                   waitingForRelayPeerInfo, env>>
EndResend ==
    /\ tick = "resend" /\ tick' = "idle"
    /\ state' = "waitInitAck"
    /\ UNCHANGED <<handshake, setEstablished, rx, app, races, paths, transports,
                   udpState, waitingForRelayPeerInfo, env>>

(* The request for the peer's address is repeated, and given up after ten  *)
(* times.                                                                  *)
ResendRequest ==
    /\ Ticks /\ waitingForRelayPeerInfo
    /\ waitingForRelayPeerInfo' \in {FALSE, Requested}
    /\ UNCHANGED <<call, threads, paths, transports, udpState, env>>

(* UDP pings go to all UDP relays; more of them follow.                    *)
SendUdpPings ==
    /\ Ticks /\ udpState = "unknown"
    /\ udpState' = "pingSent"
    /\ UNCHANGED <<call, threads, paths, transports, waitingForRelayPeerInfo, env>>

(* The verdict on UDP once enough pings are sent: how many were answered   *)
(* is the network's choice.  The second verdict, after more pings, does    *)
(* not leave it open: fewer than 7 answers are too few, and 3 enough.      *)
Verdicts ==
    IF ~ConfigUseTCP THEN {"notAvailable"}
    ELSE {"notAvailable", "available"} \cup
         (IF udpState = "pingSent" THEN {"bad"} ELSE {})

(* Whether a verdict takes up TCP.                                         *)
VerdictUsesTCP(v) == v \in {"notAvailable", "bad"}

JudgeUdp ==
    /\ Ticks /\ udpState \in {"pingSent", "bad"}
    /\ \E v \in Verdicts :
        /\ udpState' = v
        /\ IF ConfigUseTCP
           THEN /\ useTCP' = (useTCP \/ VerdictUsesTCP(v))
                /\ useUDP' = (useUDP /\ v # "notAvailable")
                /\ waitingForRelayPeerInfo' =
                      (waitingForRelayPeerInfo /\ v # "notAvailable")
                /\ setCurrentEndpointToTCP' =
                      (\/ setCurrentEndpointToTCP
                       \/ v = "bad"
                       \/ v = "notAvailable" /\ currentEndpoint \notin TcpRelays)
           ELSE UNCHANGED <<useTCP, useUDP, waitingForRelayPeerInfo,
                            setCurrentEndpointToTCP>>
    /\ UNCHANGED <<call, threads, paths, didAddTcpRelays, env>>

(* Relays SendRelayPings may prefer: none is faster than an average of 0.  *)
Candidates ==
    {e \in endpoints \cap known :
        preferredRelay \in known /\ (e \in UdpRelays \/ (useTCP /\ e \in TcpRelays))}

(* A step of another thread leaves the call off the relays, with a UDP     *)
(* relay preferred, after SetNetworkType took the call there and before it *)
(* drops the LAN endpoint.                                                 *)
LanRace(cur, pref) ==
    IF app = "drop" /\ ~IsRelay(cur) /\ pref \in UdpRelays
    THEN {"lan"} ELSE {}

(* The endpoints are compared.                                             *)
SendRelayPings ==
    /\ Ticks
    /\ state \in {"established", "reconnecting"} /\ Cardinality(endpoints) > 1
    /\ \E pref \in {preferredRelay} \cup Candidates :
        LET cur == IF pref # preferredRelay /\ IsRelay(currentEndpoint)
                   THEN pref ELSE currentEndpoint
            direct == {e \in {P2p, Lan} \cap endpoints \cap known : P2p \in endpoints}
            better == IF pref \notin known THEN {}
                      ELSE IF cur \in UdpRelays THEN direct
                      ELSE IF cur \in known THEN {pref} ELSE {} IN
        /\ preferredRelay' = pref
        /\ currentEndpoint' \in {cur} \cup better
        /\ races' = races \cup LanRace(currentEndpoint', pref)
    /\ UNCHANGED <<call, tick, rx, app, endpoints, known, transports, udpState,
                   waitingForRelayPeerInfo, env>>

(* No packet came for recvTimeout.                                         *)
ReceiveTimeout ==
    /\ Ticks
    /\ state \in {"established", "reconnecting"}
    /\ IF IsRelay(currentEndpoint)
       THEN state' = "failed"
            /\ UNCHANGED <<currentEndpoint, known, waitingForRelayPeerInfo>>
       ELSE /\ currentEndpoint' = preferredRelay
            /\ known' = known \ {P2p, Lan}
            /\ waitingForRelayPeerInfo' = Requested
            /\ state' = state
    /\ UNCHANGED <<handshake, setEstablished, threads, endpoints, preferredRelay,
                   transports, udpState, env>>

(* The call was not established within initTimeout.                        *)
InitTimeout ==
    /\ Ticks /\ state \in {"waitInit", "waitInitAck"}
    /\ state' = "failed"
    /\ UNCHANGED <<handshake, setEstablished, threads, paths, transports, udpState,
                   waitingForRelayPeerInfo, env>>

Reconnecting ==
    /\ Ticks
    /\ state = "established"
    /\ state' = "reconnecting"
    /\ UNCHANGED <<handshake, setEstablished, threads, paths, transports, udpState,
                   waitingForRelayPeerInfo, env>>

(* established_delay_if_no_stream_data after the first init ack.           *)
SetEstablished ==
    /\ Ticks /\ setEstablished /\ state # "established"
    /\ state' = "established" /\ setEstablished' = FALSE
    /\ UNCHANGED <<handshake, threads, paths, transports, udpState,
                   waitingForRelayPeerInfo, env>>

(* The microphone or the loudspeaker failed.                               *)
AudioFailed ==
    /\ Ticks
    /\ state = "established"
    /\ state' = "failed"
    /\ UNCHANGED <<handshake, setEstablished, threads, paths, transports, udpState,
                   waitingForRelayPeerInfo, env>>

-----------------------------------------------------------------------------
(* The receive thread                                                      *)

(* A relay answers with the peer's address: older peer to peer endpoints   *)
(* are dropped.                                                            *)
PeerInfo ==
    /\ waitingForRelayPeerInfo
    /\ waitingForRelayPeerInfo' = FALSE
    /\ currentEndpoint' = IF currentEndpoint \in {P2p, Lan} THEN preferredRelay
                          ELSE currentEndpoint
    /\ endpoints' = (endpoints \ {P2p, Lan}) \cup {P2p}
    /\ known' = known \ {P2p, Lan}
    /\ UNCHANGED <<call, threads, preferredRelay, transports, udpState, env>>

(* The answer to a ping.                                                   *)
Pong(e) ==
    /\ Connected /\ Arrives(e) /\ Sends(e)
    /\ known' = known \cup {e}
    /\ UNCHANGED <<call, threads, endpoints, currentEndpoint, preferredRelay,
                   transports, udpState, waitingForRelayPeerInfo, env>>

(* A packet from a relay that is not the current endpoint, while the peer  *)
(* has not acknowledged for long: the peer's address probably changed.     *)
MayFollow(src) ==
    /\ src # currentEndpoint /\ IsRelay(src)
    /\ ~IsRelay(currentEndpoint) \/ currentEndpoint \notin known

(* A packet from src that changes nothing but the endpoint in use; any     *)
(* other packet from src does this first, like two packets in a row.       *)
FollowPeer(src) ==
    /\ Connected /\ Arrives(src) /\ MayFollow(src)
    /\ currentEndpoint' = src
    /\ waitingForRelayPeerInfo' = Requested
    /\ UNCHANGED <<call, threads, endpoints, preferredRelay, known, transports,
                   udpState, env>>

(* The peer's first init packet makes its source the endpoint in use and   *)
(* goes on in AdoptTest and AdoptPrefer; its version fits or not.          *)
Adopts(src) ==
    \/ src \in UdpRelays /\ udpState \notin {"bad", "notAvailable"}
    \/ src \in TcpRelays
ReceiveInit(src, compatible) ==
    /\ Connected /\ Arrives(src) /\ ~receivedInit
    /\ receivedInit' = TRUE
    /\ IF Adopts(src)
       THEN /\ currentEndpoint' = src /\ state' = state
            /\ rx' = [src |-> src, at |-> IF src \in UdpRelays THEN "prefer" ELSE "test"]
       ELSE /\ state' = IF compatible THEN state ELSE "failed"
            /\ UNCHANGED <<currentEndpoint, rx>>
    /\ UNCHANGED <<initiated, receivedInitAck, setEstablished, tick, app, races,
                   endpoints, preferredRelay, known, transports, udpState,
                   waitingForRelayPeerInfo, env>>

(* Of a repeated one only the version counts, and only when it does not    *)
(* fit.                                                                    *)
RepeatedInit ==
    /\ Receives /\ receivedInit
    /\ state' = "failed"
    /\ UNCHANGED <<handshake, setEstablished, threads, paths, transports, udpState,
                   waitingForRelayPeerInfo, env>>

(* A TCP relay is preferred only when TCP is used.                         *)
AdoptTest(compatible) ==
    /\ rx.at = "test"
    /\ IF useTCP THEN rx' = [rx EXCEPT !.at = "prefer"] /\ state' = state
       ELSE rx' = Idle /\ state' = IF compatible THEN state ELSE "failed"
    /\ UNCHANGED <<handshake, setEstablished, tick, app, races, paths, transports,
                   udpState, waitingForRelayPeerInfo, env>>
AdoptPrefer(compatible) ==
    /\ rx.at = "prefer" /\ rx' = Idle
    /\ preferredRelay' = rx.src
    /\ state' = IF compatible THEN state ELSE "failed"
    /\ races' = races \cup LanRace(currentEndpoint, rx.src)
    /\ UNCHANGED <<handshake, setEstablished, tick, app, endpoints, currentEndpoint,
                   known, transports, udpState, waitingForRelayPeerInfo, env>>

(* The peer's answer to our init packet; only the first one counts.  Its   *)
(* version does not fit, it names no audio stream, or audio starts.        *)
ReceiveInitAck(outcome) ==
    /\ Receives /\ ~receivedInitAck
    /\ receivedInitAck' = TRUE
    /\ state' = IF outcome = "incompatible" THEN "failed" ELSE state
    /\ IF outcome = "audio"
       THEN setEstablished' = TRUE /\ waitingForRelayPeerInfo' = Requested
       ELSE UNCHANGED <<setEstablished, waitingForRelayPeerInfo>>
    /\ UNCHANGED <<initiated, receivedInit, threads, paths, transports, udpState, env>>

(* Mutant: stream data is enough.                                          *)
EstablishesAny == state # "established"

(* Whether stream data establishes the call.                               *)
Establishes == state # "established" /\ receivedInitAck

ReceiveStream ==
    /\ Receives /\ Establishes
    /\ state' = "established"
    /\ UNCHANGED <<handshake, setEstablished, threads, paths, transports, udpState,
                   waitingForRelayPeerInfo, env>>

(* The peer's LAN address, in a packet or an extra.                        *)
ReceiveLan ==
    /\ Receives
    /\ currentEndpoint' = IF currentEndpoint = Lan THEN preferredRelay
                          ELSE currentEndpoint
    /\ endpoints' = endpoints \cup {Lan}
    /\ UNCHANGED <<call, threads, preferredRelay, known, transports, udpState,
                   waitingForRelayPeerInfo, env>>

(* The peer's network changed.                                             *)
ReceiveNetworkChanged ==
    /\ Receives /\ ~IsRelay(currentEndpoint)
    /\ currentEndpoint' = preferredRelay
    /\ waitingForRelayPeerInfo' = Requested
    /\ UNCHANGED <<call, threads, endpoints, preferredRelay, known, transports,
                   udpState, env>>

(* The UDP socket reports an error and the thread ends.  Whether packets   *)
(* still come is the network's choice anyway, so nothing remembers that.   *)
UdpSocketFailed ==
    /\ Connected
    /\ state' = "failed"
    /\ UNCHANGED <<handshake, setEstablished, threads, paths, transports, udpState,
                   waitingForRelayPeerInfo, env>>

-----------------------------------------------------------------------------
Tick ==
    \/ AddTcpRelays \/ MoveToTcp \/ PreferTcp \/ InsertTcp
    \/ StartResend \/ EndResend \/ ResendRequest
    \/ SendUdpPings \/ JudgeUdp \/ SendRelayPings
    \/ ReceiveTimeout \/ InitTimeout \/ Reconnecting \/ SetEstablished \/ AudioFailed

Packet ==
    /\ rx = Idle
    /\ \/ PeerInfo
       \/ \E e \in Endpoints : Pong(e)
       \/ \E e \in Endpoints : FollowPeer(e)
       \/ \E e \in Endpoints, c \in BOOLEAN : ReceiveInit(e, c)
       \/ RepeatedInit
       \/ \E o \in {"incompatible", "noAudio", "audio"} : ReceiveInitAck(o)
       \/ ReceiveStream
       \/ ReceiveLan
       \/ ReceiveNetworkChanged
       \/ UdpSocketFailed

Recv ==
    \/ Packet
    \/ \E c \in BOOLEAN : AdoptTest(c)
    \/ \E c \in BOOLEAN : AdoptPrefer(c)

Next ==
    \/ Connect
    \/ SetNetworkType \/ DropLan \/ ResetUdp \/ EndChange
    \/ Tick
    \/ Recv

Spec == Init /\ [][Next]_vars

-----------------------------------------------------------------------------
(* Properties                                                              *)

(* Violated.  The endpoint in use is one the call has.                     *)
CurrentIsListed == currentEndpoint \in endpoints

(* The endpoint in use is one the call has, or the copy of a relay that is *)
(* about to be added.  Else it is a LAN endpoint that SetNetworkType       *)
(* dropped, and another thread came in between: one moved the call back,   *)
(* or chose another relay, between 2281 and 2282, or preferred a TCP relay *)
(* when TCP had been left.  The receive thread never drops an endpoint in  *)
(* use.                                                                    *)
CurrentIsKept ==
    \/ currentEndpoint \in endpoints
    \/ currentEndpoint \in TcpRelays /\ tick \in {"prefer", "insert"}
    \/ currentEndpoint = Dropped /\ races # {}

(* Violated.  A TCP relay is preferred only while TCP is used.             *)
PreferredIsUsed == preferredRelay \in TcpRelays => useTCP

(* The relay the call falls back to is a relay it has or is about to have, *)
(* and a TCP relay only while TCP is used, unless SetNetworkType left TCP  *)
(* while another thread that had read useTCP was about to prefer it.       *)
PreferredIsUsable ==
    /\ IsRelay(preferredRelay)
    /\ \/ preferredRelay \in endpoints
       \/ preferredRelay \in TcpRelays /\ tick = "insert"
    /\ preferredRelay \in TcpRelays => useTCP \/ "tcp" \in races

(* A call is established, or lost its connection after that, only when the *)
(* peer answered the init packet.                                          *)
EstablishedIsAnswered ==
    state \in {"established", "reconnecting"} => receivedInitAck

(* Violated.  A call always has a transport: without UDP replies it tries  *)
(* TCP (2021).                                                             *)
TransportLeft == useUDP \/ useTCP

(* Violated.  A call that was disconnected (2055, 2062) stays so.          *)
FailedIsFinal == [][state = "failed" => state' = "failed"]_vars

(* Violated.  With a proxy the data goes through it                        *)
(* (VoIPController.h:322), or the call has failed.                         *)
ProxiedOrFailed ==
    UseProxy /\ state # "waitInit" => socket = "proxy" \/ ~useUDP \/ state = "failed"
=============================================================================
