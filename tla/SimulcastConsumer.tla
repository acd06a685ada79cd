-------------------------- MODULE SimulcastConsumer --------------------------
(***************************************************************************)
(* One RTC::SimulcastConsumer (src/src/RTC/SimulcastConsumer.cpp) with    *)
(* the RTC::Consumer base it inherits (src/src/RTC/Consumer.cpp), in the   *)
(* mode where the consumer manages its own layers                          *)
(* (externallyManagedBitrate = false).                                     *)
(*                                                                         *)
(* The environment is the producer: a set of spatial-layer RTP streams     *)
(* that appear, change score, receive Sender Reports and deliver packets.  *)
(* Every environment event is fused with the consumer handler the router   *)
(* calls for it, since the worker runs both in one event-loop turn.        *)
(*                                                                         *)
(* Collaborators outside src/ (SeqManager, RtpStreamSend, EncodingContext, *)
(* the SimulcastConsumer.hpp IsActive override) are modelled from the      *)
(* specification by what they do to the consumer's output.                 *)
(***************************************************************************)
EXTENDS Integers, FiniteSets, TLC

CONSTANTS
    NumSpatialLayers,       \* encoding.spatialLayers
    NumTemporalLayers,      \* encoding.temporalLayers
    Scores,                 \* producer stream scores the producer may report
    TsBase,                 \* [SpatialLayers -> Nat]: RTP ts of each stream at NTP 0
    TicksPerFrame,          \* RTP ticks between two frames
    FrameMs,                \* NTP milliseconds between two frames
    ClockRate,              \* rtpStream->GetClockRate()
    SrErrors,               \* deviation of a Sender Report ts from the stream clock
    ExtraOffsetPacketLimit, \* the 200 of SendRtpPacket's map reset
    ExtraOffsetIdleLimit,   \* the 500 of SendRtpPacket's map reset
    TsMod,                  \* modulus of RTP timestamps (2^32 in the code)
    SeqMod,                 \* modulus of RTP sequence numbers (2^16 in the code)
    MaxFrames,              \* bound: frames per producer stream
    MaxPackets,             \* bound: packets per producer stream
    PayloadSupport          \* {TRUE}, or {TRUE, FALSE} when the producer also sends
                            \* payload types the consumer does not support

SpatialLayers  == 0 .. NumSpatialLayers - 1
TemporalLayers == 0 .. NumTemporalLayers - 1

ASSUME /\ NumSpatialLayers >= 1 /\ NumTemporalLayers >= 1
       /\ Scores \subseteq 0 .. 10 /\ 0 \in Scores
       /\ TsBase \in [SpatialLayers -> 0 .. TsMod - 1]
       /\ TicksPerFrame = (FrameMs * ClockRate) \div 1000
       /\ ClockRate % 1000 = 0

VARIABLES
    \* producer side
    streams,            \* producerRtpStreams: [exists, score, srNtpMs, srTs] per layer
    frame,              \* index of the last frame each producer stream produced
    inSeq,              \* sequence number of the last packet of each stream
    \* RTC::Consumer
    transportConnected, paused, producerPaused,
    \* RTC::SimulcastConsumer
    preferredSpatialLayer, preferredTemporalLayer,
    targetSpatialLayer, targetTemporalLayer,
    currentSpatialLayer, tsReferenceSpatialLayer,
    encTargetTemporal,  \* encodingContext->GetTargetTemporalLayer()
    keyFrameRequested,  \* layers asked for a key frame (OnConsumerKeyFrameRequested)
                        \* whose producer stream has not sent one since
    syncRequired,
    tsOffset, tsExtraOffsets, tsExtraOffetPacketCount,
    \* RTC::SeqManager<uint16_t> rtpSeqManager
    seqBase, seqDropped, seqMaxOutput,
    \* RTC::RtpStreamSend rtpStream
    maxPacketTs,
    \* history: the last packet handed to the transport, the highest ts sent
    lastSent, sentMaxTs

producerVars == <<streams, frame, inSeq>>
flagVars     == <<transportConnected, paused, producerPaused>>
switchVars   == <<targetSpatialLayer, targetTemporalLayer, currentSpatialLayer,
                  tsReferenceSpatialLayer, encTargetTemporal>>
layerVars    == <<switchVars, keyFrameRequested>>
syncVars     == <<syncRequired, tsOffset, tsExtraOffsets, tsExtraOffetPacketCount,
                  seqBase, seqDropped, seqMaxOutput, maxPacketTs>>
historyVars  == <<lastSent, sentMaxTs>>
vars == <<producerVars, flagVars, preferredSpatialLayer, preferredTemporalLayer,
          layerVars, syncVars, historyVars>>

NoStream == [exists |-> FALSE, score |-> 0, srNtpMs |-> 0, srTs |-> 0]
NoPacket == [layer |-> -1, inTs |-> 0, ts |-> 0, seq |-> 0, key |-> FALSE, sync |-> FALSE]
EmptyMap == [t \in {} |-> 0]

(* RTP timestamp of frame f of spatial layer l: all layers share the       *)
(* capture clock, so frame f of every layer has NTP time f * FrameMs.      *)
FrameTs(l, f) == (TsBase[l] + f * TicksPerFrame) % TsMod

-----------------------------------------------------------------------------
(* Consumer::IsActive (Consumer.hpp) without producerClosed: a closed       *)
(* producer destroys the consumer, so no state follows it.                 *)
ConsumerIsActive(tc, p, pp) == tc /\ ~p /\ ~pp

(* SimulcastConsumer::IsActive: the base check and at least one producer   *)
(* stream, as SvcConsumer::IsActive does.                                  *)
IsActiveWith(tc, p, pp, st) == ConsumerIsActive(tc, p, pp) /\ \E l \in SpatialLayers : st[l].exists

IsActive == IsActiveWith(transportConnected, paused, producerPaused, streams)

ProducerScore(st, l) == IF st[l].exists THEN st[l].score ELSE 0

HasSenderReport(st, l) == st[l].srNtpMs # 0

(* Faulty variant of CanSwitchToSpatialLayer: does not ask for a Sender   *)
(* Report on the ts reference stream.                                      *)
CanSwitchWithoutReferenceReport(st, l) ==
    \/ tsReferenceSpatialLayer = -1
    \/ l = tsReferenceSpatialLayer
    \/ HasSenderReport(st, l)

(* CanSwitchToSpatialLayer: no ts reference yet, the reference itself, or  *)
(* Sender Reports on both the reference and the candidate stream.          *)
CanSwitchToSpatialLayer(st, l) ==
    \/ tsReferenceSpatialLayer = -1
    \/ l = tsReferenceSpatialLayer
    \/ HasSenderReport(st, tsReferenceSpatialLayer) /\ HasSenderReport(st, l)

(* The spatial-layer loop of RecalculateTargetLayers, from layer s on,     *)
(* with the best layer so far and maxProducerScore.                        *)
RECURSIVE ScanSpatialLayers(_, _, _, _, _)
ScanSpatialLayers(st, ps, s, best, maxScore) ==
    IF s >= NumSpatialLayers THEN best
    ELSE LET score == ProducerScore(st, s) IN
         IF \/ score = 0
            \/ ~CanSwitchToSpatialLayer(st, s)
            \/ score < maxScore /\ score < 7
         THEN ScanSpatialLayers(st, ps, s + 1, best, maxScore)
         ELSE IF s >= ps /\ score >= 7 THEN s
         ELSE ScanSpatialLayers(st, ps, s + 1, s, score)

(* RecalculateTargetLayers: the new target layers for the producer         *)
(* streams st and the preferred layers ps, pt.                             *)
RecalculateTargetLayers(st, ps, pt) ==
    LET s == ScanSpatialLayers(st, ps, 0, -1, 0)
        t == CASE s = -1 -> -1
               [] s = ps -> pt
               [] s < ps -> NumTemporalLayers - 1
               [] OTHER  -> 0
    IN <<s, t>>

(* GetProducerCurrentRtpStream / GetProducerTargetRtpStream for layer l:  *)
(* none for layer -1 or a layer whose producer stream does not exist.      *)
HasProducerStream(l) == l # -1 /\ streams[l].exists

(* RequestKeyFrameForTargetSpatialLayer / ForCurrentSpatialLayer with the  *)
(* layer l: ask the producer stream of l, if there is one, for a key frame. *)
RequestKeyFrameFor(req, l) == IF HasProducerStream(l) THEN req \cup {l} ELSE req

(* UpdateTargetLayers up to its key-frame request: the ts reference, the   *)
(* target layers, and the current layer dropped with a target of -1.       *)
SetTargetLayers(s, t) ==
    /\ tsReferenceSpatialLayer' =
          IF s # -1 /\ tsReferenceSpatialLayer = -1 THEN s ELSE tsReferenceSpatialLayer
    /\ IF s = -1
       THEN /\ targetSpatialLayer' = -1 /\ targetTemporalLayer' = -1
            /\ currentSpatialLayer' = -1 /\ encTargetTemporal' = -1
       ELSE /\ targetSpatialLayer' = s /\ targetTemporalLayer' = t
            /\ encTargetTemporal' = IF s = currentSpatialLayer THEN t ELSE encTargetTemporal
            /\ UNCHANGED currentSpatialLayer

(* Mutant: UpdateTargetLayers that never asks for a key frame.             *)
UpdateTargetLayersNoKeyFrameRequest(s, t) ==
    SetTargetLayers(s, t) /\ UNCHANGED keyFrameRequested

UpdateTargetLayers(s, t) ==
    /\ SetTargetLayers(s, t)
    /\ keyFrameRequested' = IF s # -1 /\ s # currentSpatialLayer
                            THEN RequestKeyFrameFor(keyFrameRequested, s)
                            ELSE keyFrameRequested

(* MayChangeLayers with locally managed bitrate: apply the recalculated    *)
(* target layers when they differ from the present ones.                   *)
MayChangeLayers(st, ps, pt) ==
    LET new == RecalculateTargetLayers(st, ps, pt) IN
    IF new # <<targetSpatialLayer, targetTemporalLayer>>
    THEN UpdateTargetLayers(new[1], new[2])
    ELSE UNCHANGED layerVars

(* MayChangeLayers when the consumer is active after the step, else nothing. *)
MayChangeLayersIfActive(tc, p, pp, st, ps, pt) ==
    IF IsActiveWith(tc, p, pp, st) THEN MayChangeLayers(st, ps, pt) ELSE UNCHANGED layerVars

(* Faulty variant of UserOnPaused: keeps the layers it should drop.        *)
UserOnPausedKeepsLayers == UNCHANGED layerVars

(* UserOnPaused: drop every layer.                                         *)
UserOnPaused == UpdateTargetLayers(-1, -1)

(* UserOnTransportDisconnected: drop every layer.                         *)
UserOnTransportDisconnected == UpdateTargetLayers(-1, -1)

(* UserOnTransportConnected: resync, then MayChangeLayers when active.    *)
UserOnTransportConnected ==
    /\ syncRequired' = TRUE
    /\ MayChangeLayersIfActive(TRUE, paused, producerPaused, streams,
                               preferredSpatialLayer, preferredTemporalLayer)

-----------------------------------------------------------------------------
(* Consumer::TransportConnected and SimulcastConsumer::                    *)
(* UserOnTransportConnected. The transport may call it again while         *)
(* connected (a new DTLS handshake); the code does not guard against it.   *)
TransportConnected ==
    /\ transportConnected' = TRUE
    /\ UserOnTransportConnected
    /\ UNCHANGED <<producerVars, paused, producerPaused, preferredSpatialLayer,
                   preferredTemporalLayer, tsOffset, tsExtraOffsets,
                   tsExtraOffetPacketCount, seqBase, seqDropped, seqMaxOutput,
                   maxPacketTs, historyVars>>

(* Consumer::TransportDisconnected and UserOnTransportDisconnected.        *)
TransportDisconnected ==
    /\ transportConnected' = FALSE
    /\ UserOnTransportDisconnected
    /\ UNCHANGED <<producerVars, paused, producerPaused, preferredSpatialLayer,
                   preferredTemporalLayer, syncVars, historyVars>>

(* CONSUMER_PAUSE, and Consumer::ProducerPaused: a no-op when already      *)
(* paused; UserOnPaused only when the consumer was active.                 *)
Pause ==
    /\ ~paused
    /\ paused' = TRUE
    /\ IF IsActive THEN UserOnPaused ELSE UNCHANGED layerVars
    /\ UNCHANGED <<producerVars, transportConnected, producerPaused,
                   preferredSpatialLayer, preferredTemporalLayer, syncVars, historyVars>>

ProducerPaused ==
    /\ ~producerPaused
    /\ producerPaused' = TRUE
    /\ IF IsActive THEN UserOnPaused ELSE UNCHANGED layerVars
    /\ UNCHANGED <<producerVars, transportConnected, paused,
                   preferredSpatialLayer, preferredTemporalLayer, syncVars, historyVars>>

(* CONSUMER_RESUME and Consumer::ProducerResumed: UserOnResumed (resync,   *)
(* then MayChangeLayers) only when the consumer is active afterwards.      *)
UserOnResumedIf(active) ==
    /\ syncRequired' = (active \/ syncRequired)
    /\ IF active THEN MayChangeLayers(streams, preferredSpatialLayer, preferredTemporalLayer)
                 ELSE UNCHANGED layerVars

Resume ==
    /\ paused
    /\ paused' = FALSE
    /\ UserOnResumedIf(IsActiveWith(transportConnected, FALSE, producerPaused, streams))
    /\ UNCHANGED <<producerVars, transportConnected, producerPaused,
                   preferredSpatialLayer, preferredTemporalLayer, tsOffset, tsExtraOffsets,
                   tsExtraOffetPacketCount, seqBase, seqDropped, seqMaxOutput,
                   maxPacketTs, historyVars>>

ProducerResumed ==
    /\ producerPaused
    /\ producerPaused' = FALSE
    /\ UserOnResumedIf(IsActiveWith(transportConnected, paused, FALSE, streams))
    /\ UNCHANGED <<producerVars, transportConnected, paused,
                   preferredSpatialLayer, preferredTemporalLayer, tsOffset, tsExtraOffsets,
                   tsExtraOffetPacketCount, seqBase, seqDropped, seqMaxOutput,
                   maxPacketTs, historyVars>>

(* Faulty variant of ClampLayer: keeps a value one past the last layer.    *)
ClampLayerOffByOne(v, n) == IF v > n THEN n ELSE v

(* The clamp of a requested layer to the n layers the stream has.          *)
ClampLayer(v, n) == IF v > n - 1 THEN n - 1 ELSE v

(* CONSUMER_SET_PREFERRED_LAYERS with spatialLayer s and temporalLayer t   *)
(* (-1: absent): clamp both, then MayChangeLayers(true) when the consumer  *)
(* is active and a preference changed.                                     *)
SetPreferredLayers(s, t) ==
    LET ps == ClampLayer(s, NumSpatialLayers)
        pt == IF t = -1 THEN NumTemporalLayers - 1 ELSE ClampLayer(t, NumTemporalLayers)
    IN /\ preferredSpatialLayer' = ps
       /\ preferredTemporalLayer' = pt
       /\ IF IsActive /\ <<ps, pt>> # <<preferredSpatialLayer, preferredTemporalLayer>>
          THEN MayChangeLayers(streams, ps, pt)
          ELSE UNCHANGED layerVars
       /\ UNCHANGED <<producerVars, flagVars, syncVars, historyVars>>

(* A producer stream appears for layer l (ProducerNewRtpStream). A new     *)
(* RtpStreamRecv starts with score 0 and no Sender Report.                 *)
ProducerNewRtpStream(l) ==
    LET st == [streams EXCEPT ![l] = [NoStream EXCEPT !.exists = TRUE]] IN
    /\ ~streams[l].exists
    /\ streams' = st
    /\ MayChangeLayersIfActive(transportConnected, paused, producerPaused, st,
                               preferredSpatialLayer, preferredTemporalLayer)
    /\ UNCHANGED <<frame, inSeq, flagVars, preferredSpatialLayer,
                   preferredTemporalLayer, syncVars, historyVars>>

(* The score of producer stream l changes to s (ProducerRtpStreamScore).   *)
ProducerRtpStreamScore(l, s) ==
    LET st == [streams EXCEPT ![l].score = s] IN
    /\ streams[l].exists /\ streams[l].score # s
    /\ streams' = st
    /\ IF ConsumerIsActive(transportConnected, paused, producerPaused)
       THEN MayChangeLayers(st, preferredSpatialLayer, preferredTemporalLayer)
       ELSE UNCHANGED layerVars
    /\ UNCHANGED <<frame, inSeq, flagVars, preferredSpatialLayer,
                   preferredTemporalLayer, syncVars, historyVars>>

(* Producer stream l receives a Sender Report for its latest frame, off by *)
(* err ticks (ProducerRtcpSenderReport). Only the first SR of a stream,    *)
(* and only while the current layer's stream has one, re-evaluates.       *)
ProducerRtcpSenderReport(l, err) ==
    LET first == ~HasSenderReport(streams, l)
        st == [streams EXCEPT ![l].srNtpMs = frame[l] * FrameMs,
                              ![l].srTs = (FrameTs(l, frame[l]) + err) % TsMod]
    IN /\ streams[l].exists /\ frame[l] >= 1
       /\ streams' = st
       /\ IF first /\ currentSpatialLayer # -1 /\ HasSenderReport(st, currentSpatialLayer)
          THEN MayChangeLayersIfActive(transportConnected, paused, producerPaused, st,
                                       preferredSpatialLayer, preferredTemporalLayer)
          ELSE UNCHANGED layerVars
       /\ UNCHANGED <<frame, inSeq, flagVars, preferredSpatialLayer,
                      preferredTemporalLayer, syncVars, historyVars>>

(* The score of the consumer's own send stream changes (OnRtpStreamScore). *)
OnRtpStreamScore ==
    /\ IsActive
    /\ MayChangeLayers(streams, preferredSpatialLayer, preferredTemporalLayer)
    /\ UNCHANGED <<producerVars, flagVars, preferredSpatialLayer,
                   preferredTemporalLayer, syncVars, historyVars>>

(* CONSUMER_REQUEST_KEY_FRAME: when active, RequestKeyFrames asks the      *)
(* target layer's producer stream and, if it is another one, the current   *)
(* layer's stream for a key frame.                                         *)
RequestKeyFrame ==
    /\ IsActive
    /\ keyFrameRequested' =
          RequestKeyFrameFor(RequestKeyFrameFor(keyFrameRequested, targetSpatialLayer),
                             currentSpatialLayer)
    /\ UNCHANGED <<producerVars, flagVars, preferredSpatialLayer, preferredTemporalLayer,
                   switchVars, syncVars, historyVars>>

(* ReceiveKeyFrameRequest: a PLI or FIR from the receiver; when active,    *)
(* RequestKeyFrameForCurrentSpatialLayer.                                  *)
ReceiveKeyFrameRequest ==
    /\ IsActive
    /\ keyFrameRequested' = RequestKeyFrameFor(keyFrameRequested, currentSpatialLayer)
    /\ UNCHANGED <<producerVars, flagVars, preferredSpatialLayer, preferredTemporalLayer,
                   switchVars, syncVars, historyVars>>

-----------------------------------------------------------------------------
(* The packet path.                                                         *)

(* Temporal layer of frame f: frames cycle through the temporal layers,    *)
(* frame 1 being a base-layer frame. Key frames are base-layer frames.     *)
FrameTemporalLayer(f) == (f - 1) % NumTemporalLayers

(* Faulty variant of SeqSyncBase: syncs to the key frame's own number.     *)
SeqSyncBaseOffByOne(input) == (seqMaxOutput - input - 1) % SeqMod

(* SeqManager::Sync(input): the next input after it maps to maxOutput + 1. *)
SeqSyncBase(input) == (seqMaxOutput - input) % SeqMod

(* SeqManager::Input: shift by base, minus the dropped inputs before it.   *)
SeqOutput(base, dropped, input) ==
    (input + base - Cardinality({d \in dropped : d < input})) % SeqMod

(* The tsOffset computed on a sync packet of layer l: 0 on the reference   *)
(* layer, otherwise the NTP-aligned difference of the two streams' Sender  *)
(* Reports (diffMs scaled to ticks, newTs2 = ts2 - diffTs, newTs2 - ts1).  *)
SyncTsOffset(l) ==
    IF l = tsReferenceSpatialLayer THEN 0
    ELSE LET ref    == streams[tsReferenceSpatialLayer]
             cur    == streams[l]
             diffTs == ((cur.srNtpMs - ref.srNtpMs) * ClockRate) \div 1000
         IN (((cur.srTs - diffTs) % TsMod) - ref.srTs) % TsMod

(* Faulty variant of SyncExtraOffsets: "<" in place of "<=".              *)
SyncExtraOffsetsStrict(inTs, off) ==
    IF (inTs - off) % TsMod < maxPacketTs
    THEN inTs :> (maxPacketTs - inTs + off + 1) % TsMod
    ELSE EmptyMap

(* The extra-offset map a sync packet with input ts inTs leaves: one entry *)
(* lifting it above maxPacketTs when ts - tsOffset <= maxPacketTs.         *)
SyncExtraOffsets(inTs, off) ==
    IF (inTs - off) % TsMod <= maxPacketTs
    THEN inTs :> (maxPacketTs - inTs + off + 1) % TsMod
    ELSE EmptyMap

(* The extra offset of a packet with input ts inTs and offset ts t0 while  *)
(* the map is not empty: its entry, or a new one when t0 < maxPacketTs.    *)
PacketExtraOffset(map, inTs, t0) ==
    CASE inTs \in DOMAIN map -> map[inTs]
      [] t0 < maxPacketTs    -> (maxPacketTs - t0 + 1) % TsMod
      [] OTHER               -> 0

(* The map and tsExtraOffetPacketCount after a packet with extra offset x: *)
(* both are cleared after ExtraOffsetPacketLimit packets with an offset,   *)
(* or ExtraOffsetIdleLimit packets in all.                                 *)
ExtraOffsetsAfter(map, count, inTs, t0, x) ==
    LET map1  == IF inTs \notin DOMAIN map /\ x # 0 THEN map @@ (inTs :> x) ELSE map
        count1 == IF x # 0 THEN count + 1 ELSE count
    IN IF (x # 0 /\ count1 > ExtraOffsetPacketLimit) \/ count1 > ExtraOffsetIdleLimit
       THEN <<EmptyMap, 0>>
       ELSE <<map1, count1>>

(* Faulty variant of WaitsForKeyFrame: never holds a packet back.          *)
NeverWaitsForKeyFrame(p, sync) == FALSE

(* A packet of the current layer is dropped while a resync is due and it   *)
(* is not a key frame.                                                     *)
WaitsForKeyFrame(p, sync) == sync /\ ~p.key

(* The rest of SendRtpPacket once the packet is of the current layer and   *)
(* may be sent: sync when isSync, ProcessPayload against the temporal      *)
(* target encT, then the seq/ts rewrite and the hand-off to the transport. *)
ForwardPacket(p, isSync, encT) ==
    LET off      == IF isSync THEN SyncTsOffset(p.layer) ELSE tsOffset
        map0     == IF isSync THEN SyncExtraOffsets(p.ts, off) ELSE tsExtraOffsets
        count0   == IF isSync THEN 0 ELSE tsExtraOffetPacketCount
        base0    == IF isSync THEN SeqSyncBase((p.seq - 1) % SeqMod) ELSE seqBase
        dropped0 == IF isSync THEN {} ELSE seqDropped
        t0       == (p.ts - off) % TsMod
        x        == IF map0 = EmptyMap THEN 0 ELSE PacketExtraOffset(map0, p.ts, t0)
        after    == IF map0 = EmptyMap THEN <<map0, count0>>
                    ELSE ExtraOffsetsAfter(map0, count0, p.ts, t0, x)
        ts       == (t0 + x) % TsMod
        seq      == SeqOutput(base0, dropped0, p.seq)
    IN /\ syncRequired' = FALSE
       /\ tsOffset' = off
       /\ seqBase' = base0
       /\ IF p.tl > encT
          THEN \* ProcessPayload drops the packet: rtpSeqManager.Drop
               /\ seqDropped' = dropped0 \cup {p.seq}
               /\ tsExtraOffsets' = map0 /\ tsExtraOffetPacketCount' = count0
               /\ UNCHANGED <<seqMaxOutput, maxPacketTs, historyVars>>
          ELSE /\ seqDropped' = dropped0
               /\ tsExtraOffsets' = after[1] /\ tsExtraOffetPacketCount' = after[2]
               /\ seqMaxOutput' = IF seq > seqMaxOutput THEN seq ELSE seqMaxOutput
               /\ maxPacketTs' = IF ts > maxPacketTs THEN ts ELSE maxPacketTs
               /\ lastSent' = [layer |-> p.layer, inTs |-> p.ts, ts |-> ts, seq |-> seq,
                               key |-> p.key, sync |-> isSync]
               /\ sentMaxTs' = IF ts > sentMaxTs THEN ts ELSE sentMaxTs

(* SimulcastConsumer::SendRtpPacket for packet p. A packet of the target   *)
(* layer that is a key frame commits the pending switch and requires a     *)
(* resync; packets of other layers, and non-key packets while a resync is  *)
(* due, are dropped.                                                        *)
SendRtpPacket(p) ==
    LET switching == currentSpatialLayer # targetSpatialLayer /\ p.layer = targetSpatialLayer
        commit    == switching /\ p.key
        cur       == IF commit THEN targetSpatialLayer ELSE currentSpatialLayer
        encT      == IF commit THEN targetTemporalLayer ELSE encTargetTemporal
        sync      == commit \/ syncRequired
    IN \/ /\ \/ ~IsActive
             \/ targetTemporalLayer = -1
             \/ ~p.supported
             \/ switching /\ ~p.key
          /\ UNCHANGED <<switchVars, syncVars, historyVars>>
       \/ /\ IsActive /\ targetTemporalLayer # -1 /\ p.supported
          /\ ~(switching /\ ~p.key)
          /\ currentSpatialLayer' = cur
          /\ encTargetTemporal' = encT
          /\ UNCHANGED <<targetSpatialLayer, targetTemporalLayer, tsReferenceSpatialLayer>>
          /\ IF p.layer # cur \/ WaitsForKeyFrame(p, sync)
             THEN /\ syncRequired' = sync
                  /\ UNCHANGED <<tsOffset, tsExtraOffsets, tsExtraOffetPacketCount, seqBase,
                                 seqDropped, seqMaxOutput, maxPacketTs, historyVars>>
             ELSE ForwardPacket(p, sync, encT)

(* Producer stream l delivers its next packet: the first packet of a new   *)
(* frame (possibly a key frame) or a further packet of the current frame,  *)
(* with a payload type the consumer supports or not. A key frame answers   *)
(* the requests for its layer.                                             *)
ProducerRtpPacket(l, newFrame, key, supported) ==
    LET f == IF newFrame THEN frame[l] + 1 ELSE frame[l] IN
    /\ streams[l].exists
    /\ inSeq[l] < MaxPackets
    /\ IF newFrame THEN frame[l] < MaxFrames ELSE frame[l] >= 1 /\ ~key
    /\ key => FrameTemporalLayer(f) = 0
    /\ frame' = [frame EXCEPT ![l] = f]
    /\ inSeq' = [inSeq EXCEPT ![l] = @ + 1]
    /\ keyFrameRequested' = IF key THEN keyFrameRequested \ {l} ELSE keyFrameRequested
    /\ SendRtpPacket([layer |-> l, seq |-> inSeq[l] + 1, ts |-> FrameTs(l, f), key |-> key,
                      tl |-> FrameTemporalLayer(f), supported |-> supported])
    /\ UNCHANGED <<streams, flagVars, preferredSpatialLayer, preferredTemporalLayer>>

-----------------------------------------------------------------------------
(* The consumer as created: no target, no ts reference, preferred layers   *)
(* at their constructor default (the highest layers), transport not yet    *)
(* connected; the producer's streams as ProducerRtpStream reported them    *)
(* (a stream with score 0 is the state ProducerNewRtpStream creates).      *)
(* A consumer created paused is the state Pause reaches from this one.     *)
Init ==
    /\ streams \in [SpatialLayers ->
                      {NoStream} \cup {[NoStream EXCEPT !.exists = TRUE, !.score = s] : s \in Scores \ {0}}]
    /\ frame = [l \in SpatialLayers |-> 0]
    /\ inSeq = [l \in SpatialLayers |-> 0]
    /\ transportConnected = FALSE
    /\ paused = FALSE
    /\ producerPaused = FALSE
    /\ preferredSpatialLayer = NumSpatialLayers - 1
    /\ preferredTemporalLayer = NumTemporalLayers - 1
    /\ targetSpatialLayer = -1 /\ targetTemporalLayer = -1
    /\ currentSpatialLayer = -1 /\ tsReferenceSpatialLayer = -1
    /\ encTargetTemporal = -1
    /\ keyFrameRequested = {}
    /\ syncRequired = FALSE
    /\ tsOffset = 0 /\ tsExtraOffsets = EmptyMap /\ tsExtraOffetPacketCount = 0
    /\ seqBase = 0 /\ seqDropped = {} /\ seqMaxOutput = 0
    /\ maxPacketTs = 0
    /\ lastSent = NoPacket /\ sentMaxTs = 0

Next ==
    \/ TransportConnected
    \/ TransportDisconnected
    \/ Pause
    \/ Resume
    \/ ProducerPaused
    \/ ProducerResumed
    \/ \E s \in 0 .. NumSpatialLayers, t \in {-1} \cup TemporalLayers : SetPreferredLayers(s, t)
    \/ \E l \in SpatialLayers : ProducerNewRtpStream(l)
    \/ \E l \in SpatialLayers, s \in Scores : ProducerRtpStreamScore(l, s)
    \/ \E l \in SpatialLayers, err \in SrErrors : ProducerRtcpSenderReport(l, err)
    \/ OnRtpStreamScore
    \/ RequestKeyFrame
    \/ ReceiveKeyFrameRequest
    \/ \E l \in SpatialLayers, newFrame, key \in BOOLEAN, supported \in PayloadSupport :
          ProducerRtpPacket(l, newFrame, key, supported)

Spec == Init /\ [][Next]_vars

-----------------------------------------------------------------------------
Layer == {-1} \cup SpatialLayers

TypeOK ==
    /\ streams \in [SpatialLayers -> [exists : BOOLEAN, score : 0 .. 10,
                                      srNtpMs : Nat, srTs : 0 .. TsMod - 1]]
    /\ frame \in [SpatialLayers -> 0 .. MaxFrames]
    /\ inSeq \in [SpatialLayers -> 0 .. MaxPackets]
    /\ {transportConnected, paused, producerPaused, syncRequired} \subseteq BOOLEAN
    /\ preferredSpatialLayer \in SpatialLayers /\ preferredTemporalLayer \in TemporalLayers
    /\ {targetSpatialLayer, currentSpatialLayer, tsReferenceSpatialLayer} \subseteq Layer
    /\ {targetTemporalLayer, encTargetTemporal} \subseteq {-1} \cup TemporalLayers
    /\ keyFrameRequested \subseteq SpatialLayers
    /\ tsOffset \in 0 .. TsMod - 1
    /\ DOMAIN tsExtraOffsets \subseteq 0 .. TsMod - 1
    /\ tsExtraOffetPacketCount \in 0 .. ExtraOffsetIdleLimit
    /\ seqBase \in 0 .. SeqMod - 1 /\ seqMaxOutput \in 0 .. SeqMod - 1
    /\ seqDropped \subseteq 0 .. SeqMod - 1
    /\ maxPacketTs \in 0 .. TsMod - 1 /\ sentMaxTs \in 0 .. TsMod - 1

(* A consumer that is not active (transport down, paused by the app or by  *)
(* the producer, or no producer stream) holds no target and no current     *)
(* layer: Pause, ProducerPaused and TransportDisconnected must reset them, *)
(* and no later score, Sender Report or packet may set them again.         *)
InactiveHoldsNoLayers ==
    ~IsActive => targetSpatialLayer = -1 /\ currentSpatialLayer = -1

(* A pending switch can complete: while an active consumer waits for a key *)
(* frame on a target spatial layer other than the current one, that        *)
(* layer's producer stream has been asked for one since it last sent one   *)
(* (UpdateTargetLayers' request), across re-targets, pauses, stream deaths *)
(* and key frames of other layers.                                         *)
PendingSwitchKeyFrameRequested ==
    (IsActive /\ targetSpatialLayer # -1 /\ targetSpatialLayer # currentSpatialLayer)
        => targetSpatialLayer \in keyFrameRequested

(* Every resync on a layer other than the ts reference -- the key frame    *)
(* that commits a switch as well as one after Resume or TransportConnected *)
(* -- computes tsOffset from both streams' Sender Reports (the MS_ASSERTs  *)
(* in SendRtpPacket): the reports CanSwitchToSpatialLayer saw when the     *)
(* target was chosen must still be there when the key frame is forwarded.  *)
SyncNeedsSenderReports ==
    [][ lastSent' # lastSent /\ lastSent'.sync
        /\ lastSent'.layer # tsReferenceSpatialLayer
        => HasSenderReport(streams, tsReferenceSpatialLayer)
           /\ HasSenderReport(streams, lastSent'.layer) ]_vars

(* The receiver can decode what it gets: each forwarded packet is either a *)
(* key frame that resynchronised the stream, or continues the layer of the *)
(* previous forwarded packet with no resync due (switch commit, resume,    *)
(* transport reconnect).                                                   *)
DecodableOutput ==
    [][ lastSent' # lastSent =>
          \/ lastSent'.sync /\ lastSent'.key
          \/ ~lastSent'.sync /\ ~syncRequired /\ lastSent # NoPacket
             /\ lastSent'.layer = lastSent.layer ]_vars

(* Output sequence numbers strictly increase across layer switches: the    *)
(* SeqManager Sync on the switching key frame continues the numbering.     *)
OutputSeqIncreasing ==
    [][ lastSent' # lastSent /\ lastSent # NoPacket => lastSent'.seq > lastSent.seq ]_vars

(* The key frame that resynchronises the stream gets an output timestamp   *)
(* above every timestamp sent before, whatever the new layer's offset:     *)
(* the extra offset of the sync path lifts it (ts - tsOffset <= max).     *)
SwitchTsAdvances ==
    [][ lastSent' # lastSent /\ lastSent'.sync /\ lastSent # NoPacket
        => lastSent'.ts > sentMaxTs ]_vars

(* Each forwarded packet that starts a new frame (a new input timestamp or  *)
(* a new layer) gets an output timestamp above every timestamp sent before *)
(* (spec: output timestamps strictly increase). The per-packet extra       *)
(* offset of SendRtpPacket lifts only timestamps strictly below the        *)
(* highest one sent.                                                        *)
FrameTsIncreasing ==
    [][ lastSent' # lastSent /\ lastSent # NoPacket
        /\ (lastSent'.inTs # lastSent.inTs \/ lastSent'.layer # lastSent.layer)
        => lastSent'.ts > sentMaxTs ]_vars

(* All forwarded packets of one input frame carry one output timestamp:    *)
(* the extra offset a frame was given must stay while its packets flow,    *)
(* whatever tsExtraOffetPacketCount reaches.                               *)
FramePacketsShareTs ==
    [][ lastSent' # lastSent /\ lastSent # NoPacket /\ ~lastSent'.sync
        /\ lastSent'.layer = lastSent.layer /\ lastSent'.inTs = lastSent.inTs
        => lastSent'.ts = lastSent.ts ]_vars

(* The output sequence is gap-free: every forwarded packet is numbered one *)
(* past the previous one (spec: the remapper produces a gap-free monotone  *)
(* sequence; packets ProcessPayload drops are taken out by Drop).          *)
OutputSeqGapFree ==
    [][ lastSent' # lastSent /\ lastSent # NoPacket
        => lastSent'.seq = (lastSent.seq + 1) % SeqMod ]_vars

(* An active consumer's target layers are those RecalculateTargetLayers    *)
(* would choose now: every event that changes a stream's eligibility      *)
(* (score, first Sender Report, new stream) re-runs the selection.         *)
TargetIsUpToDate ==
    IsActive => <<targetSpatialLayer, targetTemporalLayer>> =
                RecalculateTargetLayers(streams, preferredSpatialLayer, preferredTemporalLayer)

=============================================================================
