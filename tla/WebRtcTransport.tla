--------------------------- MODULE WebRtcTransport ---------------------------
(***************************************************************************)
(* The connection state machine of RTC::WebRtcTransport                    *)
(* (src/src/RTC/WebRtcTransport.cpp): connect(), the ICE server and DTLS   *)
(* transport callbacks, SRTP session creation, the packet demultiplexer    *)
(* with its tuple checks and ForceSelectedTuple, and the send gate.        *)
(*                                                                         *)
(* RTC::IceServer and RTC::DtlsTransport are not in src/: their state      *)
(* changes are modelled from the specification (ICE-Lite: a binding       *)
(* request connects, USE-CANDIDATE completes, losing the last tuple        *)
(* disconnects; DTLS: Run starts a handshake in a role, a completed        *)
(* handshake is checked against the remote fingerprint). The consumers     *)
(* are represented by what Transport::Connected and Transport::            *)
(* Disconnected tell them.                                                 *)
(***************************************************************************)
EXTENDS Naturals, FiniteSets

CONSTANTS
    Tuples,     \* transport tuples a peer may use (model values)
    TcpTuples,  \* those of them that are TCP connections, which may close
    None        \* no tuple / no session

ASSUME TcpTuples \subseteq Tuples /\ None \notin Tuples

IceStates  == {"NEW", "CONNECTED", "COMPLETED", "DISCONNECTED"}
DtlsStates == {"NEW", "CONNECTING", "CONNECTED", "FAILED", "CLOSED"}
Roles      == {"AUTO", "CLIENT", "SERVER"}
IceUp      == {"CONNECTED", "COMPLETED"}

VARIABLES
    \* the peer (environment)
    peerRole,            \* the DTLS role the peer announces and plays
    fingerprintMatches,  \* whether the peer's certificate matches connect()'s fingerprint
    \* RTC::IceServer
    iceState, iceTuples,
    \* RTC::WebRtcTransport
    iceSelectedTuple, connected, dtlsRole,
    dtlsTransport,       \* [state, localRole, handshakeDone, remoteFingerprint, epoch]
    srtpSendSession, srtpRecvSession,  \* epoch of the handshake whose keys, or 0
    consumersConnected,  \* what Transport::Connected/Disconnected told the consumers
    rembServer,          \* the REMB server (RemoteBitrateEstimatorAbsSendTime) exists
    \* history
    lastSrtpCreate,      \* [send, recv]: outcome of the last session creation
    lastReceived,        \* [kind, tuple, parity] of the last accepted packet
    lastSent             \* [kind, key, tuple, parity] of the last packet sent

peerVars    == <<peerRole, fingerprintMatches>>
iceVars     == <<iceState, iceTuples, iceSelectedTuple>>
srtpVars    == <<srtpSendSession, srtpRecvSession, consumersConnected, lastSrtpCreate>>
vars == <<peerVars, iceVars, connected, dtlsRole, dtlsTransport, srtpVars,
          rembServer, lastReceived, lastSent>>

-----------------------------------------------------------------------------
(* IsConnected: a selected tuple and DTLS connected.                       *)
IsConnected == iceSelectedTuple # None /\ dtlsTransport.state = "CONNECTED"

(* The local role connect() derives from the remote one: the opposite of  *)
(* client or server, and client for auto (ICE controlled side).            *)
LocalRoleFor(remoteRole) ==
    CASE remoteRole = "CLIENT" -> "SERVER"
      [] remoteRole = "SERVER" -> "CLIENT"
      [] remoteRole = "AUTO"   -> "CLIENT"

(* DtlsTransport::Run(role): a new handshake in role, after a reset when a *)
(* role was already running.                                               *)
DtlsRun(d, role) ==
    [d EXCEPT !.localRole = role, !.state = "CONNECTING", !.handshakeDone = FALSE,
              !.epoch = d.epoch + 1]

(* Mutants of MayRunDtlsTransport: running the DTLS transport in role    *)
(* auto without resolving it; running it only once.                      *)
MayRunAutoUnresolved(d, role, ice) ==
    CASE d.localRole = role -> <<role, d>>
      [] ice \notin IceUp   -> <<role, d>>
      [] OTHER              -> <<role, DtlsRun(d, role)>>

MayRunOnlyOnce(d, role, ice) ==
    CASE d.localRole # "NONE" -> <<role, d>>
      [] ice \notin IceUp     -> <<role, d>>
      [] role = "AUTO"        -> <<"SERVER", DtlsRun(d, "SERVER")>>
      [] OTHER                -> <<role, DtlsRun(d, role)>>

(* MayRunDtlsTransport for DTLS transport d, local role role and ICE state *)
(* ice: the resulting <<dtlsRole, DTLS transport>>.                        *)
MayRunDtlsTransport(d, role, ice) ==
    CASE d.localRole = role -> <<role, d>>
      [] ice \notin IceUp   -> <<role, d>>
      [] role = "AUTO"      -> <<"SERVER", DtlsRun(d, "SERVER")>>
      [] OTHER              -> <<role, DtlsRun(d, role)>>

(* DtlsTransport::ProcessHandshake: check the remote fingerprint; connected *)
(* with SRTP keys of this handshake, or failed and reset.                  *)
ProcessHandshake(d) ==
    IF fingerprintMatches THEN [d EXCEPT !.state = "CONNECTED"]
    ELSE [d EXCEPT !.state = "FAILED", !.handshakeDone = FALSE]

(* Mutant: prior sessions kept when a new one cannot be created.         *)
KeepsPriorSessions(sendOk, recvOk, e) ==
    /\ srtpSendSession' = IF sendOk /\ recvOk THEN e ELSE srtpSendSession
    /\ srtpRecvSession' = IF recvOk THEN e ELSE srtpRecvSession
    /\ consumersConnected' = TRUE
    /\ lastSrtpCreate' = [send |-> sendOk, recv |-> recvOk]

(* OnDtlsTransportConnected with the outcomes of creating the sending and  *)
(* the receiving SRTP session for the keys of handshake e: prior sessions  *)
(* are deleted first; a failed receiving session also deletes the sending  *)
(* one; then Transport::Connected.                                         *)
OnDtlsTransportConnected(sendOk, recvOk, e) ==
    /\ srtpSendSession' = IF sendOk /\ recvOk THEN e ELSE 0
    /\ srtpRecvSession' = IF recvOk THEN e ELSE 0
    /\ consumersConnected' = TRUE
    /\ lastSrtpCreate' = [send |-> sendOk, recv |-> recvOk]

(* The DTLS transport d after a handshake with the peer completes: checked *)
(* now when the remote fingerprint is known, kept pending otherwise.       *)
HandshakeDone(d) ==
    LET d1 == [d EXCEPT !.handshakeDone = TRUE] IN
    IF d.remoteFingerprint THEN ProcessHandshake(d1) ELSE d1

(* The DTLS transport reached CONNECTED in this step: the session callback *)
(* runs with any creation outcome; otherwise sessions are untouched.       *)
SessionsFor(d) ==
    IF d.state = "CONNECTED" /\ dtlsTransport.state # "CONNECTED"
    THEN \E sendOk, recvOk \in BOOLEAN : OnDtlsTransportConnected(sendOk, recvOk, d.epoch)
    ELSE UNCHANGED srtpVars

Flip(r) == 1 - r.parity

-----------------------------------------------------------------------------
(* TRANSPORT_CONNECT: rejected when already connected; resolves dtlsRole   *)
(* from the remote role, passes the remote fingerprint to the DTLS        *)
(* transport (which processes a handshake already done), and, if that     *)
(* succeeded, calls MayRunDtlsTransport. The peer announces its own role. *)
Connect ==
    LET d1      == [dtlsTransport EXCEPT !.remoteFingerprint = TRUE]
        pending == d1.handshakeDone /\ d1.state # "CONNECTED"
        d2      == IF pending THEN ProcessHandshake(d1) ELSE d1
        ok      == ~pending \/ fingerprintMatches
        run     == IF ok THEN MayRunDtlsTransport(d2, LocalRoleFor(peerRole), iceState)
                   ELSE <<LocalRoleFor(peerRole), d2>>
    IN /\ ~connected
       /\ connected' = TRUE
       /\ dtlsRole' = run[1]
       /\ dtlsTransport' = run[2]
       /\ SessionsFor(d2)
       /\ UNCHANGED <<peerVars, rembServer, iceVars, lastReceived, lastSent>>

(* A valid STUN binding request on tuple t, with or without USE-CANDIDATE *)
(* (IceServer::ProcessStunPacket). From NEW or DISCONNECTED the tuple is  *)
(* stored and selected and ICE is connected (completed with USE-          *)
(* CANDIDATE); afterwards new tuples are stored, and USE-CANDIDATE        *)
(* selects the tuple and completes. OnIceServerSelectedTuple updates      *)
(* iceSelectedTuple; OnIceServerConnected/Completed call                  *)
(* MayRunDtlsTransport.                                                    *)
OnStunDataReceived(t, useCandidate) ==
    LET fresh    == iceState \in {"NEW", "DISCONNECTED"}
        selects  == fresh \/ useCandidate
        ice1     == CASE fresh /\ ~useCandidate -> "CONNECTED"
                      [] useCandidate           -> "COMPLETED"
                      [] OTHER                  -> iceState
        notifies == fresh \/ (iceState = "CONNECTED" /\ useCandidate)
        run      == IF notifies THEN MayRunDtlsTransport(dtlsTransport, dtlsRole, ice1)
                    ELSE <<dtlsRole, dtlsTransport>>
    IN /\ iceState' = ice1
       /\ iceTuples' = IF fresh THEN {t} ELSE iceTuples \cup {t}
       /\ iceSelectedTuple' = IF selects THEN t ELSE iceSelectedTuple
       /\ dtlsRole' = run[1]
       /\ dtlsTransport' = run[2]
       /\ UNCHANGED <<peerVars, rembServer, connected, srtpVars, lastReceived, lastSent>>

(* OnRtcTcpConnectionClosed: IceServer::RemoveTuple. Removing the selected *)
(* tuple selects another one, or, when none is left, disconnects ICE:     *)
(* OnIceServerDisconnected unsets iceSelectedTuple and calls              *)
(* Transport::Disconnected.                                               *)
(* Mutant: the selected tuple is not unset on ICE disconnection.         *)
DisconnectedKeepsTuple ==
    /\ UNCHANGED iceSelectedTuple
    /\ consumersConnected' = FALSE

OnIceServerDisconnected ==
    /\ iceSelectedTuple' = None
    /\ consumersConnected' = FALSE

OnRtcTcpConnectionClosed(t) ==
    /\ t \in TcpTuples
    /\ t \in iceTuples
    /\ iceTuples' = iceTuples \ {t}
    /\ \/ /\ t # iceSelectedTuple
          /\ UNCHANGED <<iceState, iceSelectedTuple, consumersConnected>>
       \/ /\ t = iceSelectedTuple
          /\ iceTuples' # {}
          /\ \E n \in iceTuples' : iceSelectedTuple' = n
          /\ UNCHANGED <<iceState, consumersConnected>>
       \/ /\ t = iceSelectedTuple
          /\ iceTuples' = {}
          /\ iceState' = "DISCONNECTED"
          /\ OnIceServerDisconnected
    /\ UNCHANGED <<peerVars, rembServer, connected, dtlsRole, dtlsTransport, srtpSendSession,
                   srtpRecvSession, lastSrtpCreate, lastReceived, lastSent>>

(* DTLS records from the peer on tuple t (OnDtlsDataReceived): dropped     *)
(* from an invalid tuple; otherwise the tuple is force-selected and the   *)
(* data is processed when DTLS is connecting or connected. The record     *)
(* completes the handshake (only when the peer plays the opposite role),  *)
(* fails it, closes the connection, or carries nothing that changes state. *)
PlaysOpposite(localRole) ==
    \/ peerRole = "AUTO"
    \/ {localRole, peerRole} = {"CLIENT", "SERVER"}

ProcessDtlsData(d, record) ==
    CASE record = "handshake" /\ d.state = "CONNECTING" /\ ~d.handshakeDone
              /\ PlaysOpposite(d.localRole)                -> HandshakeDone(d)
      [] record = "fatal" /\ d.state = "CONNECTING"         -> [d EXCEPT !.state = "FAILED"]
      [] record = "close" /\ d.state = "CONNECTED"          -> [d EXCEPT !.state = "CLOSED"]
      [] OTHER                                             -> d

(* OnDtlsTransportClosed: Transport::Disconnected; the SRTP sessions stay. *)
OnDtlsTransportClosed ==
    /\ consumersConnected' = FALSE
    /\ UNCHANGED <<srtpSendSession, srtpRecvSession, lastSrtpCreate>>

OnDtlsDataReceived(t, record) ==
    LET d1 == IF dtlsTransport.state \in {"CONNECTING", "CONNECTED"}
              THEN ProcessDtlsData(dtlsTransport, record) ELSE dtlsTransport
    IN /\ t \in iceTuples
       /\ iceSelectedTuple' = t
       /\ dtlsTransport' = d1
       /\ IF d1.state = "CLOSED" /\ dtlsTransport.state = "CONNECTED"
          THEN OnDtlsTransportClosed
          ELSE SessionsFor(d1)
       /\ lastReceived' = [kind |-> "DTLS", tuple |-> t, parity |-> Flip(lastReceived)]
       /\ UNCHANGED <<peerVars, rembServer, iceState, iceTuples, connected, dtlsRole, lastSent>>

(* SRTP/SRTCP from the peer on tuple t: accepted when DTLS is connected, *)
(* a receiving session exists, the tuple is valid and decryption with the *)
(* session's keys (those of the peer's current handshake) succeeds.       *)
SrtpAccepts(t) ==
    /\ dtlsTransport.state = "CONNECTED"
    /\ srtpRecvSession # 0
    /\ t \in iceTuples
    /\ srtpRecvSession = dtlsTransport.epoch

(* OnRtpDataReceived: an accepted packet of a known producer force-selects *)
(* the tuple; one without a producer is dropped after decryption.         *)
OnRtpDataReceived(t, hasProducer) ==
    /\ SrtpAccepts(t)
    /\ iceSelectedTuple' = IF hasProducer THEN t ELSE iceSelectedTuple
    /\ lastReceived' = IF hasProducer
                       THEN [kind |-> "RTP", tuple |-> t, parity |-> Flip(lastReceived)]
                       ELSE lastReceived
    /\ UNCHANGED <<peerVars, rembServer, iceState, iceTuples, connected, dtlsRole, dtlsTransport,
                   srtpVars, lastSent>>

(* OnRtcpDataReceived: an accepted compound packet goes to the transport. *)
OnRtcpDataReceived(t) ==
    /\ SrtpAccepts(t)
    /\ lastReceived' = [kind |-> "RTCP", tuple |-> t, parity |-> Flip(lastReceived)]
    /\ UNCHANGED <<peerVars, rembServer, iceVars, connected, dtlsRole, dtlsTransport, srtpVars,
                   lastSent>>

(* SendRtcpPacket, whose gate SendRtpPacket and SendRtcpCompoundPacket    *)
(* share: IsConnected and a sending session; the packet is encrypted with  *)
(* that session and sent on the selected tuple.                            *)
SendEncrypted(kind) ==
    /\ IsConnected
    /\ srtpSendSession # 0
    /\ lastSent' = [kind |-> kind, key |-> srtpSendSession, tuple |-> iceSelectedTuple,
                    parity |-> Flip(lastSent)]
    /\ UNCHANGED <<peerVars, iceVars, connected, dtlsRole, dtlsTransport, srtpVars,
                   rembServer, lastReceived>>

(* SendRtpPacket from a consumer that was told the transport is connected: *)
(* sent when the gate lets it through, dropped otherwise.                  *)
SendRtpPacket == consumersConnected /\ SendEncrypted("RTP")

(* SendRtcpCompoundPacket, from the transport's RTCP timer: the same gate. *)
SendRtcpCompoundPacket == SendEncrypted("RTCP")

(* UserOnNewProducer: the first producer whose parameters carry           *)
(* abs-send-time and goog-remb creates the REMB server.                    *)
UserOnNewProducer(remb) ==
    /\ rembServer' = (rembServer \/ remb)
    /\ UNCHANGED <<peerVars, iceVars, connected, dtlsRole, dtlsTransport, srtpVars,
                   lastReceived, lastSent>>

(* OnRembServerAvailableBitrate: the REMB server's estimate of what the    *)
(* peer sends goes back to it in a REMB packet through SendRtcpPacket. The *)
(* estimator (not in src/) may report whenever it exists.                  *)
OnRembServerAvailableBitrate ==
    /\ rembServer
    /\ SendEncrypted("RTCP")

-----------------------------------------------------------------------------
Init ==
    /\ peerRole \in Roles
    /\ fingerprintMatches \in BOOLEAN
    /\ iceState = "NEW"
    /\ iceTuples = {}
    /\ iceSelectedTuple = None
    /\ connected = FALSE
    /\ dtlsRole = "AUTO"
    /\ dtlsTransport = [state |-> "NEW", localRole |-> "NONE", handshakeDone |-> FALSE,
                        remoteFingerprint |-> FALSE, epoch |-> 0]
    /\ srtpSendSession = 0
    /\ srtpRecvSession = 0
    /\ consumersConnected = FALSE
    /\ rembServer = FALSE
    /\ lastSrtpCreate = [send |-> FALSE, recv |-> FALSE]
    /\ lastReceived = [kind |-> "NONE", tuple |-> None, parity |-> 0]
    /\ lastSent = [kind |-> "NONE", key |-> 0, tuple |-> None, parity |-> 0]

DtlsRecords == {"handshake", "fatal", "close", "data"}

Next ==
    \/ Connect
    \/ \E t \in Tuples, u \in BOOLEAN : OnStunDataReceived(t, u)
    \/ \E t \in Tuples : OnRtcTcpConnectionClosed(t)
    \/ \E t \in Tuples, r \in DtlsRecords : OnDtlsDataReceived(t, r)
    \/ \E t \in Tuples, p \in BOOLEAN : OnRtpDataReceived(t, p)
    \/ \E t \in Tuples : OnRtcpDataReceived(t)
    \/ SendRtpPacket
    \/ \E remb \in BOOLEAN : UserOnNewProducer(remb)
    \/ OnRembServerAvailableBitrate
    \/ SendRtcpCompoundPacket

Spec == Init /\ [][Next]_vars

-----------------------------------------------------------------------------
Sessions == 0..2

TypeOK ==
    /\ peerRole \in Roles /\ fingerprintMatches \in BOOLEAN
    /\ iceState \in IceStates
    /\ iceTuples \subseteq Tuples
    /\ iceSelectedTuple \in Tuples \cup {None}
    /\ connected \in BOOLEAN
    /\ dtlsRole \in Roles
    /\ dtlsTransport \in [state : DtlsStates, localRole : {"NONE", "CLIENT", "SERVER"},
                          handshakeDone : BOOLEAN, remoteFingerprint : BOOLEAN,
                          epoch : Sessions]
    /\ srtpSendSession \in Sessions /\ srtpRecvSession \in Sessions
    /\ consumersConnected \in BOOLEAN /\ rembServer \in BOOLEAN
    /\ lastSrtpCreate \in [send : BOOLEAN, recv : BOOLEAN]

(* ICE-Lite tuple bookkeeping across STUN, TCP closes and the force-select *)
(* of DTLS/RTP receipt: the transport's selected tuple is set exactly when *)
(* ICE is connected or completed, and it is always one of the IceServer's *)
(* valid tuples (so sends never go to a closed TCP connection).           *)
SelectedTupleIsValid ==
    /\ (iceSelectedTuple # None) <=> (iceState \in IceUp)
    /\ iceSelectedTuple # None => iceSelectedTuple \in iceTuples

(* Role resolution as the spec states it: once connect() was called and   *)
(* ICE is up, the DTLS transport runs in the role opposite to the peer's, *)
(* client when the peer is auto -- whatever order connect() and the ICE   *)
(* callbacks came in, and even if DTLS had already started as server.     *)
(* A handshake that failed on the fingerprint in connect() is excluded:   *)
(* connect() then skips MayRunDtlsTransport.                              *)
DtlsRoleFollowsConnect ==
    (connected /\ iceState \in IceUp /\ dtlsTransport.state # "FAILED")
        => dtlsTransport.localRole = LocalRoleFor(peerRole)

(* Every RTP and RTCP packet sent is encrypted with the keys of the handshake the  *)
(* DTLS transport is connected with: OnDtlsTransportConnected tears down  *)
(* the sessions of an earlier handshake before creating new ones, so a    *)
(* failed creation never leaves stale keys in use.                        *)
SentWithCurrentKeys ==
    [][lastSent' # lastSent =>
         /\ dtlsTransport'.state = "CONNECTED"
         /\ lastSent'.key = dtlsTransport'.epoch]_vars

(* Whenever the transport is connected (IsConnected), its consumers have  *)
(* been told so by Transport::Connected and are not left disconnected by  *)
(* an earlier Transport::Disconnected.                                    *)
ConsumersSeeConnectedTransport ==
    IsConnected => consumersConnected

(* The spec: any recognized-valid RTP, RTCP or DTLS traffic promotes its  *)
(* tuple to selected. Checked on every packet OnDtls/Rtp/RtcpDataReceived *)
(* accepts (RTP without a producer is dropped, so not recognized).        *)
ValidTrafficSelectsTuple ==
    [][lastReceived' # lastReceived => iceSelectedTuple' = lastReceived'.tuple]_vars

(* The spec: if one SRTP session cannot be created, that direction alone  *)
(* is left unset; a successfully created sending session is in place      *)
(* while DTLS stays connected.                                            *)
SrtpDirectionsIndependent ==
    dtlsTransport.state = "CONNECTED" => ((srtpSendSession # 0) <=> lastSrtpCreate.send)

=============================================================================
