# TLA+ models of the mediasoup worker core (my_mediasoup)

This directory holds TLA+ models of the C++ worker in `src/`. They are checked
with TLC. Every definition is translated from the source lines that
`PROJECT.json` ("map") names. A few collaborators are not in `src/`, such as
SeqManager, RtpStreamSend and the SimulcastConsumer header. Those are modelled
from `spec.md` and marked `spec_modelled`.

## 1. The system: parts, state, operations

| Part | Source | State it keeps | Operations (state-changing) |
|---|---|---|---|
| Consumer base | `Consumer.cpp`, `Consumer.hpp` | `transportConnected`, `paused`, `producerPaused`, `producerClosed` | TransportConnected/Disconnected, PAUSE, RESUME, ProducerPaused/Resumed/Closed |
| SimulcastConsumer | `SimulcastConsumer.cpp` | producer stream table; preferred, target and current layers; ts reference layer; `syncRequired`; `tsOffset`; `tsExtraOffsets` and its packet count; the seq remapper; the send stream; provisional layers for bitrate mode | SET_PREFERRED_LAYERS, REQUEST_KEY_FRAME, Producer{NewRtpStream, RtpStreamScore, RtcpSenderReport}, SendRtpPacket, UserOn{TransportConnected, TransportDisconnected, Paused, Resumed}, OnRtpStreamScore, UseAvailableBitrate, IncreaseLayer, ApplyLayers |
| WebRtcTransport | `WebRtcTransport.cpp` | ICE server state and selected tuple; DTLS state and role; `connected`; SRTP send and recv sessions; REMB client and server | connect(), RESTART_ICE, SET_MAX_INCOMING_BITRATE, ICE callbacks (selected tuple, connected, completed, disconnected), DTLS callbacks (connecting, connected, failed, closed), packet demux (STUN, RTCP, RTP, DTLS), SendRtpPacket/SendRtcpPacket, DistributeAvailableOutgoingBitrate, REMB callbacks |
| SvcConsumer, SimpleConsumer | headers only | — | not available |
| RateControlInput, TcpConnection | headers | data / socket I/O | not modelled |

How the parts interact:
- The transport tells its consumers when it is connected (`Transport::Connected`) and when it is not (`Transport::Disconnected`).
- The transport gets outgoing RTP from the consumers through `OnConsumerSendRtpPacket`.
- The transport's REMB client feeds `DistributeAvailableOutgoingBitrate`. That function calls each consumer's `UseAvailableBitrate`, then `IncreaseLayer`, then `ApplyLayers`.
- The router delivers producer events and packets to each consumer.

Everything runs on one event loop (spec §5). Each handler runs to completion, so one action of a model is one whole handler together with the event that triggers it.

Hard behaviours:
- Interleavings of producer events (scores, Sender Reports, packets of several layers) with pause/resume and transport loss.
- The keyframe-gated layer switch.
- Timestamp rewriting across layers from NTP-aligned Sender Reports, including the transient extra-offset map.
- Sequence continuity across switches and drops.
- ICE and DTLS callbacks arriving in any order relative to `connect()`.
- SRTP session replacement and partial failure.

## 2. Modules

### SimulcastConsumer.tla: one consumer, locally managed layers

This module covers one SimulcastConsumer together with its Consumer base. The producer is the environment: streams appear, change score, receive Sender Reports and deliver packets. Each environment event is fused with the handler it triggers.

| Model | Code |
|---|---|
| `streams[l]` (exists, score, first SR ntp/ts) | `producerRtpStreams` and each RtpStream's score and last SR |
| `targetSpatialLayer`, `currentSpatialLayer`, `tsReferenceSpatialLayer`, `encTargetTemporal`, ... | the fields of the same names; `encodingContext`'s target temporal layer |
| `tsOffset`, `tsExtraOffsets`, `tsExtraOffetPacketCount`, `syncRequired` | the fields of the same names |
| `seqBase`, `seqDropped`, `seqMaxOutput` | `rtpSeqManager` (SeqManager, spec-modelled) |
| `maxPacketTs` | `rtpStream->GetMaxPacketTs()` |
| `lastSent`, `sentMaxTs` | history: the last packet handed to the transport |
| `keyFrameRequested` | the layers whose producer stream was asked for a key frame (`OnConsumerKeyFrameRequested`) and has not sent one since; the producer side of the request |

Actions:
- TransportConnected, TransportDisconnected
- Pause, Resume, ProducerPaused, ProducerResumed
- SetPreferredLayers
- ProducerNewRtpStream, ProducerRtpStreamScore, ProducerRtcpSenderReport
- OnRtpStreamScore
- RequestKeyFrame (CONSUMER_REQUEST_KEY_FRAME, `RequestKeyFrames`) and ReceiveKeyFrameRequest (a PLI or FIR from the receiver)
- ProducerRtpPacket, which is SendRtpPacket. A key frame answers the requests for its layer.

Helpers (RecalculateTargetLayers, UpdateTargetLayers with its key-frame request, UserOnTransportConnected/Disconnected, MayChangeLayers, CanSwitchToSpatialLayer and the timestamp functions) follow the code one for one.

Data is abstracted:
- A packet is a record of layer, sequence number, timestamp, key flag and temporal layer.
- Frame `f` of every layer has NTP time `f * FrameMs`. Layer `l` has RTP timestamp `TsBase[l] + f * TicksPerFrame`.
- Temporal layers cycle per frame. Key frames are base-layer frames.
- Only the first packet of a frame can be a key frame.
- A Sender Report reports the stream's latest frame, off by an error in `SrErrors`.

### WebRtcTransport.tla: the connection state machine

This module covers one WebRtcTransport: `connect()`, the ICE server, the DTLS transport, the SRTP sessions and the send gate. The peer is the environment. It announces a DTLS role, chosen in Init, which it also plays. Its certificate either matches the fingerprint given to `connect()` or does not. It sends STUN, DTLS, RTP and RTCP on two tuples: `udp`, and `tcp`, whose connection may close.

`RTC::IceServer` and `RTC::DtlsTransport` are not in `src/`, so their transitions are modelled from spec §4.1 and marked `spec_modelled`:
- ICE: a binding request connects from NEW or DISCONNECTED. USE-CANDIDATE selects and completes. Losing the selected tuple selects another one, or disconnects when none is left.
- DTLS: `Run(role)` resets and starts a handshake (`epoch` counts them). A completed handshake is checked against the remote fingerprint when it is known, and is kept pending otherwise.

| Model | Code |
|---|---|
| `iceState`, `iceTuples` | `iceServer` state and tuple list (`IsValidTuple`) |
| `iceSelectedTuple`, `connected`, `dtlsRole` | the fields of the same names |
| `dtlsTransport` | `dtlsTransport`: state, local role, handshake done, remote fingerprint set |
| `srtpSendSession`, `srtpRecvSession` | the sessions, as the epoch of the handshake whose keys they hold (0 = null) |
| `consumersConnected` | what `Transport::Connected`/`Disconnected` last told the consumers |
| `lastSrtpCreate`, `lastReceived`, `lastSent` | history: session creation outcomes, last accepted packet, last RTP sent |

Actions:
- `Connect` is the TRANSPORT_CONNECT handler, with `SetRemoteFingerprint` and `MayRunDtlsTransport`.
- `OnStunDataReceived` includes the ICE callbacks it triggers.
- `OnRtcTcpConnectionClosed` covers `RemoveTuple` and `OnIceServerDisconnected`.
- `OnDtlsDataReceived` covers ForceSelectedTuple, DTLS processing, and the connected/failed/closed callbacks.
- `OnRtpDataReceived` and `OnRtcpDataReceived` are the receive paths.
- `SendRtpPacket` is the send gate. `SendEncrypted` is `SendRtcpPacket`, whose gate all sends share. `SendRtcpCompoundPacket` stands for the transport's RTCP reports, and `OnRembServerAvailableBitrate` for REMB feedback. REMB feedback is sent once `UserOnNewProducer` has created the REMB server; its estimator is not in src/ and may report at any time.

Packets that the code drops without changing state are stuttering steps and are left out.

### BandwidthDistributor.tla and BandwidthAllocation.tla: sharing the outgoing bitrate

`BandwidthDistributor` models `WebRtcTransport::DistributeAvailableOutgoingBitrate` over two `SimulcastConsumer`s. Consumers join the transport over time (`UserOnNewConsumer`), each in locally managed mode: `MayChangeLayers` applies the recalculated target itself. The first consumer whose parameters carry abs-send-time and goog-remb (`RembCapable`) makes the transport create its REMB client. `SetExternallyManagedBitrate` then switches every consumer already in `mapConsumers` to externally managed mode, and every later consumer as it joins. The model also covers the consumer side that the distribution calls, and every handler that asks for a distribution (`OnConsumerNeedBitrateChange`). Target-layer recalculation and the switch-safety rule come from `SimulcastConsumer.tla`, through a parameterised `INSTANCE`.

The distribution runs inside one handler. The model takes it one loop iteration at a time (`phase`, `idx`), so that the remainder can be inspected between iterations. No other action is enabled until `phase` is back to `"idle"`. That is the run-to-completion of the event loop.

| Model | Code |
|---|---|
| `consumerPaused[c]` | the negation of `Consumer::IsActive()` (pause, producer pause, transport) |
| `producerStreams[c]`, `loss[c]` | `producerRtpStreams` (score, first SR), `rtpStream->GetLossPercentage()` |
| `target[c]`, `tsReference[c]`, `provisional[c]` | the fields of the same names |
| `created[c]`, `externallyManaged[c]`, `rembClient` | `c` is in `mapConsumers`, `externallyManagedBitrate`, `this->rembClient != nullptr` |
| `rembAvailable` | `rembClient->GetAvailableBitrate()` (initially the initial available outgoing bitrate) |
| `order` | `multimapPriorityConsumer`, iterated from the highest priority down |
| `share`, `remaining`, `roundStart` | `bitrate`, `remainingBitrate`, `previousRemainingBitrate` |
| `Rates[c][s][t]` | `GetLayerBitrate(now, 0, t)` of spatial layer s; `GetBitrate` sums them (spec-modelled) |

Actions:
- `DistributeBegin`, `DistributeProportional`, `DistributeLayerByLayer` and `DistributeApply` are the four parts of the function.
- Equal priorities come in any order (`PriorityOrders`), because `mapConsumers` is an unordered map.
- `OnRembClientAvailableBitrate`, `Pause` (CONSUMER_PAUSE with `UserOnPaused`), `Resume` (CONSUMER_RESUME with `UserOnResumed` and `MayChangeLayers`) and `ProducerRtpStreamScore` are the triggers.
- `UserOnNewConsumer` inserts a consumer, inactive until the transport tells it it is connected (`Resume` stands for that call too), and creates the REMB client as above. The REMB callback needs the client.
- `LossChange` is the only input that does not trigger a distribution. A stream's first Sender Report, a new producer stream and SetPreferredLayers with force also distribute in the code; they are not modelled as triggers.
- `UseScan` and `IncreaseScan` are the layer loops of `UseAvailableBitrate` and `IncreaseLayer`, written as `RECURSIVE` operators. Their early exits and `goto done` are kept.

`BandwidthAllocation` is what a distribution promises, with no loops:
- In one step, every active consumer gets layers its producer can serve, or none: a live stream, switchable under the Sender Report rule, with a layer being received.
- The inactive consumers keep their layers.
- The total cost is at most 108% of the estimate: the most `UseAvailableBitrate` and `IncreaseLayer` may overshoot by under 2% loss.
- Pausing drops the consumer's layers.
- Distributions need the REMB client. An active consumer whose bitrate is not externally managed may take any layers its producer sends, one consumer per step (`SelfManage`).

The refinement mapping:
- While the `ApplyLayers` loop has not reached a consumer yet, its abstract target is already its provisional layers.
- So the abstract distribution happens at the step that ends the second pass.

### Open questions without a run

Every one of the twelve run slots is used, so the following were found while modelling but have no run of their own:

- **Consumers told "connected" by a handshake that `connect()` completes.**
  - `OnDtlsTransportConnected` calls `Transport::Connected` whatever the ICE state (WebRtcTransport.cpp:1592). `OnDtlsTransportConnecting`/`Failed` never call `Transport::Disconnected`.
  - Checking `consumersConnected => IsConnected` on `MC_WebRtcTransport.cfg` fails in five steps, in two ways. Either the only TCP tuple closes before `connect()` processes the pending handshake, or `connect()` restarts DTLS in the other role after processing it.
  - In both cases the consumers stay active while the transport drops everything. When it really connects, `Consumer::TransportConnected` returns early, so they never resync.
  - This is the converse of the `webrtc_consumers` finding. It is listed as a hazard.
- **Spec §4.2 says a switch asks for key frames from the new target and from the still-current layer.** `UpdateTargetLayers` (SimulcastConsumer.cpp:1309) asks only the target. `PendingSwitchKeyFrameRequested` checks the request the code makes.
- **`UseAvailableBitrate` never raises `maxProducerScore` (:419).** See Not modelled.

A composition of the transport with a consumer would add no question of its own: the consumers' view of the transport is `consumersConnected`, and both directions of its disagreement with `IsConnected` are above.

## 3. Runs

| Run | Config | Expect | What it shows |
|---|---|---|---|
| simulcast_safety | `MC_SimulcastConsumer.cfg` | pass | The invariants and action properties below hold for every interleaving within the bounds. |
| simulcast_frame_ts | `MC_SimulcastConsumer_frame_ts.cfg` | violation | `FrameTsIncreasing`: the `<` at SimulcastConsumer.cpp:824 gives a new frame the previous frame's timestamp. |
| simulcast_extra_reset | `MC_SimulcastConsumer_extra_reset.cfg` | violation | `FramePacketsShareTs`: the count-based clear at :842 strips the offset in the middle of a frame. |
| simulcast_seq_gap | `MC_SimulcastConsumer_seq_gap.cfg` | violation | `OutputSeqGapFree`: the unsupported payload type return at :664 skips `rtpSeqManager.Drop`. |
| simulcast_target | `MC_SimulcastConsumer_target.cfg` | violation | `TargetIsUpToDate`: a first SR while no layer is current (:322) never re-runs the selection. |
| webrtc_safety | `MC_WebRtcTransport.cfg` | pass | The transport's invariants and action properties below hold for every order of connect(), ICE, DTLS and media events. |
| webrtc_consumers | `MC_WebRtcTransport_consumers.cfg` | violation | `ConsumersSeeConnectedTransport`: after ICE disconnects and reconnects with DTLS still up, `OnIceServerConnected` (WebRtcTransport.cpp:1481) never calls `Transport::Connected`. |
| webrtc_rtcp_select | `MC_WebRtcTransport_rtcp_select.cfg` | violation | `ValidTrafficSelectsTuple`: accepted RTCP (:1227) does not force-select its tuple, unlike DTLS and RTP. |
| bw_safety | `MC_BandwidthDistributor.cfg` | pass | Every distribution keeps each layer-by-layer claim within the remainder. It runs only with a REMB client, over consumers whose bitrate is externally managed, even when one joined before the client existed. It implements `BandwidthAllocation` for every order of equal priorities and every order in which consumers join. 1,143,233 states. |
| bw_liveness | `MC_BandwidthDistributor_live.cfg` | pass | `DistributionCompletes`: every requested distribution returns to idle, under both loss regimes. |
| bw_greedy_preferred | `MC_BandwidthDistributor_greedy.cfg` | violation | `GreedyReachesPreferred`: `IncreaseLayer` leaves at the preferred pair before pricing it (SimulcastConsumer.cpp:564). c2, at <<0,0>> after its proportional share with 15% loss, keeps it although 4500 bps remain and its preferred layer costs 2500. |
| webrtc_srtp_partial | `MC_WebRtcTransport_srtp_partial.cfg` | violation | `SrtpDirectionsIndependent`: a failed receiving session also deletes the sending one (:1579). |

Properties of the passing run:
- `TypeOK`.
- `InactiveHoldsNoLayers`: an inactive consumer has no target and no current layer.
- `SyncNeedsSenderReports`: the MS_ASSERTs of the sync path hold for every forwarded sync packet on a layer other than the ts reference. This covers the key frame that commits a layer switch and a resync after Resume or TransportConnected. The Sender Reports that CanSwitchToSpatialLayer saw when the target was chosen are still there when the key frame is forwarded.
- `DecodableOutput`: every forwarded packet is a resyncing key frame, or continues the previous packet's layer with no resync due.
- `OutputSeqIncreasing`: output sequence numbers strictly increase across switches.
- `SwitchTsAdvances`: the resyncing key frame's timestamp is above everything sent before.
- `PendingSwitchKeyFrameRequested`: while an active consumer waits to switch to a target spatial layer other than the current one, that layer's producer stream has been asked for a key frame since it last sent one. Otherwise the switch could wait forever on a key frame nobody asked for. It holds across re-targets, pauses, stream deaths and key frames of other layers.

Properties of webrtc_safety:
- `TypeOK`, including that the DTLS transport never runs in role auto.
- `SelectedTupleIsValid`: a selected tuple exists exactly while ICE is up, and it is one of the valid tuples.
- `DtlsRoleFollowsConnect`: after `connect()` with ICE up, DTLS runs in the role the spec's table gives. This holds even when DTLS first started as server.
- `SentWithCurrentKeys`: every RTP and RTCP packet sent uses the keys of the handshake DTLS is connected with.

Properties of bw_safety and bw_liveness:
- `TypeOK`, including that the loop position stays within the priority order.
- `LayerClaimsWithinOffer`: the MS_ASSERT at WebRtcTransport.cpp:976 holds. No `IncreaseLayer` claims more than the remainder.
- `DistributionAssertions`: the MS_ASSERTs at WebRtcTransport.cpp:897 (a REMB client) and SimulcastConsumer.cpp:379/498/627 (externally managed bitrate) hold in every distribution. A consumer that joined first, without REMB support, chose its own layers in local mode. It must have been switched by the loop at WebRtcTransport.cpp:1354 when a REMB-capable consumer joined.
- `AllocationRefined`: the distributor implements `BandwidthAllocation`.
- `DistributionCompletes`: `phase = "begin" ~> phase = "idle"`.

Each has a mutant in `PROJECT.json` that TLC catches. Each mutant is a plausible bug:
- the off-by-one clamp;
- UserOnPaused without the reset;
- CanSwitch without the reference's SR;
- no key-frame wait on resync;
- `Sync(seq)` in place of `Sync(seq-1)`;
- `<` in place of `<=` at :769;
- UpdateTargetLayers without its key-frame request.
- For the transport: MayRunDtlsTransport running in role auto or running only once; OnIceServerDisconnected keeping the tuple; OnDtlsTransportConnected keeping the prior sessions when creation fails.
- For the distributor: the `ApplyLayers` loop running one past its end; `UserOnNewConsumer` telling only the new consumer, and not the others in the map, that its bitrate is externally managed; `IncreaseLayer` without the "No luck" check; +80% in place of +8% in the virtual bitrate; the layer-by-layer loop without its exit after a round that used nothing.

### Bounds

The consumer has 2 spatial and 2 temporal layers. The per-stream limits are 3 frames and 3 packets. Fewer frames or packets let the mutants of `SyncNeedsSenderReports`, `OutputSeqIncreasing` and `SwitchTsAdvances` survive. In simulcast_safety, scores are {0, 9}. With {0, 4, 9}, tracking key-frame requests takes the run past five minutes (6.4 million states). The four simulcast violation runs keep {0, 4, 9}, where 4 < 7 and 9 ≥ 7, so both branches of the skip rule are still explored. simulcast_safety has 2,841,356 distinct states. These bounds are enough for:
- a full switch (a packet on the new layer, Sender Reports, a key frame at frame 3);
- a temporal-layer drop by ProcessPayload;
- a resync after pause/resume.

The timestamp violation needs one more frame and a Sender Report error of one tick. That is realistic: NTP milliseconds round the reported time. The extra-offset violation replaces the limit of 200 packets by 0, so that a 2-packet key frame stands for a key frame of more than 200 packets. Timestamps stay far below `TsMod`, so wrap-around is not explored.

The transport runs with two tuples, one of them TCP. That is enough to lose the selected tuple while another stays valid, and to lose the only one. All three peer roles and both fingerprint outcomes are initial states. At most two handshakes happen: the `auto`→server start and the restart in the role `connect()` resolves. That is the case in which stale SRTP keys could survive. The run has 21,668 distinct states.

The distributor runs with two consumers of 2×2 layers:
- c1 prefers <<1,1>>, and its layers cost 600+400 and 2500+1500 bps.
- c2 prefers <<0,1>>, and its layers cost 500+2500 and 1500+1500 bps.
- The estimates are 3000 and 6000 bps: one leaves nothing for the layer-by-layer pass, the other something.
- Only c2 is REMB-capable. c1 may join first and choose its layers in local mode, or join after c2 and be externally managed from the start.
- c1's 2500-bps step exceeds 108% of a 2000-bps remainder, so a missing affordability check can overdraw.

In bw_safety:
- Scores are {0, 4, 9}.
- Sender Reports may be missing, so the switch rule can refuse a layer.
- Loss is 0. That is the regime in which claims may exceed the offer by 8%, so the budget is tightest.

bw_liveness uses losses {0, 15} and scores {0, 9}, to keep the liveness graph small. Two consumers with priorities 1 or 2 give both unequal priorities and ties, so several orders are explored.

### Fairness

The safety runs assume no fairness.

`BandwidthDistributor!Spec` has weak fairness on `DistributionStep`, the four loop actions. The code runs the whole function inside the handler that called it (spec §5), so once a distribution has begun, its next step is always taken. No fairness is assumed on the events.

## 4. Not modelled

- RTCP generation, NACK and retransmission, stats and scores of the send stream: only the score-change callback is kept.
- Probation packets.
- JSON and logging.
- Constructor validation.
- `ProducerClosed`: the router destroys the consumer right after it.
- Transport: RESTART_ICE only changes the IceServer's credentials, and IceServer is outside src/; the spec does not describe how old credentials are treated. SET_MAX_INCOMING_BITRATE only caps the number the REMB server announces (:1678), a value no property distinguishes. `UserOnRembFeedback`, the DTLS connecting/failed notifications, and `OnDtlsTransportSendData` change no state of the transport. The destructor, a fixed sequence with no interleaving. SCTP, the REMB estimators themselves, stats.
- Distributor: the REMB client itself (not in src/) is only the estimate it reports, and its rescheduling is left out. Layer bitrates are constants. Sender Reports are fixed at Init. The uint32 overflow of `availableBitrate * priority` needs estimates above 1.4 Gbps.
- `UseAvailableBitrate`'s `maxProducerScore` is never raised from 0 in the code, so its skip rule never fires. The model keeps it that way.
- The peer in role auto is allowed to complete a handshake in either role. This over-approximates a real actpass peer.
