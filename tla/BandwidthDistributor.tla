------------------------- MODULE BandwidthDistributor -------------------------
(***************************************************************************)
(* WebRtcTransport::DistributeAvailableOutgoingBitrate                     *)
(* (src/src/RTC/WebRtcTransport.cpp) over several SimulcastConsumers in    *)
(* externally managed mode, with the consumer side of the protocol         *)
(* (src/src/RTC/SimulcastConsumer.cpp): GetBitratePriority,                *)
(* UseAvailableBitrate, IncreaseLayer, ApplyLayers, and the handlers that  *)
(* ask the transport for a new distribution (OnConsumerNeedBitrateChange). *)
(*                                                                         *)
(* The distribution runs to completion inside one handler; it is modelled  *)
(* loop iteration by loop iteration (phase, idx) so that the provisional   *)
(* layers and the remaining bitrate can be inspected between iterations,   *)
(* and no other action is enabled until it is back to "idle".              *)
(*                                                                         *)
(* Target-layer selection (RecalculateTargetLayers) and the switch-safety  *)
(* rule are taken from the SimulcastConsumer module.                       *)
(***************************************************************************)
EXTENDS Integers, Sequences, FiniteSets, Functions, FiniteSetsExt

CONSTANTS
    Consumers,          \* consumers of the transport (model values)
    NumSpatialLayers,   \* spatial layers of every producer
    NumTemporalLayers,  \* temporal layers of every producer
    Scores,             \* producer stream scores
    InitialScores,      \* the scores of the producer streams when the model starts
    Preferred,          \* [Consumers -> <<s, t>>]: preferred layers of each consumer
    Rates,              \* [Consumers -> [s -> [t -> bps]]]: GetLayerBitrate per layer
    Losses,             \* packet loss percentages of a consumer's send stream
    AvailableBitrates,  \* estimates the REMB client may report
    SenderReports,      \* srNtpMs of a producer stream: 0 if no Sender Report yet
    RembCapable         \* consumers whose RTP parameters carry abs-send-time and goog-remb

SpatialLayers  == 0 .. NumSpatialLayers - 1
TemporalLayers == 0 .. NumTemporalLayers - 1
NoLayers       == <<-1, -1>>

(* The 2000 bps below which the layer-by-layer pass stops.                 *)
MinLayerBitrate == 2000

SC(ref) == INSTANCE SimulcastConsumer
    WITH tsReferenceSpatialLayer <- ref,
         TsBase <- [l \in SpatialLayers |-> 0], TicksPerFrame <- 1, FrameMs <- 1,
         ClockRate <- 1000, SrErrors <- {0}, ExtraOffsetPacketLimit <- 0,
         ExtraOffsetIdleLimit <- 0, TsMod <- 1, SeqMod <- 1, MaxFrames <- 0,
         MaxPackets <- 0, PayloadSupport <- {TRUE},
         streams <- 0, frame <- 0, inSeq <- 0, transportConnected <- 0, paused <- 0,
         producerPaused <- 0, preferredSpatialLayer <- 0, preferredTemporalLayer <- 0,
         targetSpatialLayer <- 0, targetTemporalLayer <- 0, currentSpatialLayer <- 0,
         encTargetTemporal <- 0, keyFrameRequested <- 0, syncRequired <- 0, tsOffset <- 0, tsExtraOffsets <- 0,
         tsExtraOffetPacketCount <- 0, seqBase <- 0, seqDropped <- 0, seqMaxOutput <- 0,
         maxPacketTs <- 0, lastSent <- 0, sentMaxTs <- 0

VARIABLES
    \* per consumer
    consumerPaused,     \* [Consumers -> BOOLEAN]: not Consumer::IsActive()
    producerStreams,    \* [Consumers -> [s -> [exists, score, srNtpMs, srTs]]]
    loss,               \* [Consumers -> Losses]: rtpStream->GetLossPercentage()
    target,             \* [Consumers -> <<targetSpatialLayer, targetTemporalLayer>>]
    tsReference,        \* [Consumers -> tsReferenceSpatialLayer]
    provisional,        \* [Consumers -> <<provisionalTarget{Spatial,Temporal}Layer>>]
    created,            \* [Consumers -> BOOLEAN]: in the transport's mapConsumers
    externallyManaged,  \* [Consumers -> BOOLEAN]: externallyManagedBitrate
    \* the transport
    rembClient,         \* the transport has a REMB client
    rembAvailable,      \* rembClient->GetAvailableBitrate()
    phase,              \* "idle", "begin", "proportional", "greedy", "apply"
    order,              \* multimapPriorityConsumer in reverse (highest priority first)
    idx,                \* position of the loop in order
    share,              \* [Consumers -> availableBitrate * priority / totalPriorities]
    remaining,          \* remainingBitrate
    roundStart          \* previousRemainingBitrate of the layer-by-layer round

consumerVars == <<consumerPaused, producerStreams, loss>>
layerVars    == <<target, tsReference, provisional>>
loopVars     == <<phase, order, idx, share, remaining, roundStart>>
modeVars     == <<created, externallyManaged, rembClient>>
vars == <<consumerVars, layerVars, modeVars, rembAvailable, loopVars>>

-----------------------------------------------------------------------------
(* RTC::Consumer::IsActive: consumer and producer not paused, transport    *)
(* connected, producer not closed; consumerPaused stands for its negation. *)
ConsumerIsActive(c) == ~consumerPaused[c]

(* SimulcastConsumer::IsActive: Consumer::IsActive and some producer stream. *)
IsActive(c) == ~consumerPaused[c] /\ \E l \in SpatialLayers : producerStreams[c][l].exists

Score(c, s) == SC(tsReference[c])!ProducerScore(producerStreams[c], s)

CanSwitchToSpatialLayer(c, s) ==
    SC(tsReference[c])!CanSwitchToSpatialLayer(producerStreams[c], s)

(* What the layer loops read of consumer c's producer streams, per layer:  *)
(* the score and whether the consumer may switch to it.                    *)
LayerInfo(c) ==
    [s \in SpatialLayers |-> [exists |-> producerStreams[c][s].exists, score |-> Score(c, s),
                              canSwitch |-> CanSwitchToSpatialLayer(c, s)]]

(* producerRtpStream->GetBitrate(now, 0, t): the bitrate of temporal layers *)
(* 0..t, or 0 when layer t itself is not being received.                   *)
GetBitrate(c, s, t) ==
    IF Rates[c][s][t] = 0 THEN 0 ELSE SumFunctionOnSet(Rates[c][s], 0 .. t)

(* The bitrate a target layer pair costs, 0 for no layers.                 *)
LayersBitrate(c, l) == IF l[1] = -1 THEN 0 ELSE GetBitrate(c, l[1], l[2])

(* Mutant: +80% instead of +8% under 2% loss.                            *)
VirtualBitrateSkewed(c, bitrate) ==
    CASE loss[c] < 2  -> (180 * bitrate) \div 100
      [] loss[c] > 10 -> (bitrate * (200 - loss[c])) \div 200
      [] OTHER        -> bitrate

(* The loss-adjusted "virtual" bitrate of UseAvailableBitrate and          *)
(* IncreaseLayer: +8% under 2% loss, minus half the loss above 10%.        *)
VirtualBitrate(c, bitrate) ==
    CASE loss[c] < 2  -> (108 * bitrate) \div 100
      [] loss[c] > 10 -> (bitrate * (200 - loss[c])) \div 200
      [] OTHER        -> bitrate

(* The bitrate reported as used: what the layers need, but no more than   *)
(* offered when the virtual bitrate covered the difference.                *)
ClaimedBitrate(used, bitrate, virtualBitrate) ==
    CASE used <= bitrate        -> used
      [] used <= virtualBitrate -> bitrate
      [] OTHER                  -> used

(* GetBitratePriority: 0 when inactive; otherwise one plus the highest     *)
(* live spatial layer not above the preferred one, or the lowest live one  *)
(* above it, or one when no stream is live.                                *)
GetBitratePriority(c) ==
    LET live  == {s \in SpatialLayers : Score(c, s) > 0}
        below == {s \in live : s <= Preferred[c][1]}
        chosen == IF below # {} THEN Max(below) ELSE IF live # {} THEN Min(live) ELSE -1
    IN CASE ~ConsumerIsActive(c) -> 0
         [] chosen = -1    -> 1
         [] OTHER          -> chosen + 1

-----------------------------------------------------------------------------
(* The layer loops of UseAvailableBitrate from spatial layer s, temporal   *)
(* layer t on, with the provisional layers and used bitrate so far in acc. *)
(* A spatial layer is skipped when its score is 0, when it may not be      *)
(* switched to, or by the rule "score below maxProducerScore and below 7", *)
(* whose maxProducerScore is never raised from 0 in this function.         *)
RECURSIVE UseScan(_, _, _, _, _, _)
UseScan(c, info, virtualBitrate, s, t, acc) ==
    LET maxProducerScore == 0
        score == info[s].score
        required == GetBitrate(c, s, t)
        chosen == [s |-> s, t |-> t, used |-> required]
    IN
    CASE s >= NumSpatialLayers -> acc
      [] t = 0 /\ \/ score = 0
                  \/ ~info[s].canSwitch
                  \/ score < maxProducerScore /\ score < 7
         -> UseScan(c, info, virtualBitrate, s + 1, 0, acc)
      [] t >= NumTemporalLayers \/ required = 0
         -> IF s >= Preferred[c][1] /\ score >= 7 THEN acc
            ELSE UseScan(c, info, virtualBitrate, s + 1, 0, acc)
      [] required > virtualBitrate -> acc
      [] <<s, t>> = Preferred[c] /\ score >= 7 -> chosen
      [] OTHER -> UseScan(c, info, virtualBitrate, s, t + 1, chosen)

(* UseAvailableBitrate(bitrate): the provisional layers it sets and the   *)
(* bitrate it returns.                                                     *)
UseAvailableBitrate(c, bitrate) ==
    LET v == VirtualBitrate(c, bitrate)
        r == UseScan(c, LayerInfo(c), v, 0, 0, [s |-> -1, t |-> -1, used |-> 0])
    IN IF ~ConsumerIsActive(c) THEN [layers |-> NoLayers, used |-> 0]
       ELSE [layers |-> <<r.s, r.t>>, used |-> ClaimedBitrate(r.used, bitrate, v)]

(* The layer loops of IncreaseLayer from spatial layer s, temporal layer t *)
(* on: the next layer pair above the provisional one and the bitrate of    *)
(* that single layer (GetLayerBitrate), or required 0 if none. The loop   *)
(* leaves with required 0 when it reaches the preferred layer pair.       *)
RECURSIVE IncreaseScan(_, _, _, _, _)
IncreaseScan(c, info, p, s, t) ==
    LET none == [s |-> s, t |-> t, required |-> 0]
        required == Rates[c][s][t]
    IN
    CASE s >= NumSpatialLayers -> none
      [] t = 0 /\ \/ s < p[1]
                  \/ ~info[s].exists \/ info[s].score < 7
                  \/ ~info[s].canSwitch
         -> IncreaseScan(c, info, p, s + 1, 0)
      [] t >= NumTemporalLayers
         -> IF s >= Preferred[c][1] THEN none ELSE IncreaseScan(c, info, p, s + 1, 0)
      [] <<s, t>> = Preferred[c] -> none
      [] s = p[1] /\ t <= p[2] -> IncreaseScan(c, info, p, s, t + 1)
      [] required # 0 -> [s |-> s, t |-> t, required |-> required]
      [] OTHER -> IF s >= Preferred[c][1] THEN none ELSE IncreaseScan(c, info, p, s + 1, 0)

(* Mutant: the "No luck" check against the virtual bitrate is missing.    *)
IncreaseLayerNoLuckCheck(c, bitrate) ==
    LET v == VirtualBitrate(c, bitrate)
        r == IncreaseScan(c, LayerInfo(c), provisional[c], 0, 0)
        keep == [layers |-> provisional[c], used |-> 0]
    IN CASE ~ConsumerIsActive(c) \/ provisional[c] = Preferred[c] -> keep
         [] r.required = 0 -> keep
         [] OTHER -> [layers |-> <<r.s, r.t>>, used |-> ClaimedBitrate(r.required, bitrate, v)]

(* IncreaseLayer(bitrate): the provisional layers after it and the       *)
(* bitrate it returns.                                                     *)
IncreaseLayer(c, bitrate) ==
    LET v == VirtualBitrate(c, bitrate)
        r == IncreaseScan(c, LayerInfo(c), provisional[c], 0, 0)
        keep == [layers |-> provisional[c], used |-> 0]
    IN CASE ~ConsumerIsActive(c) \/ provisional[c] = Preferred[c] -> keep
         [] r.required = 0 \/ r.required > v -> keep
         [] OTHER -> [layers |-> <<r.s, r.t>>, used |-> ClaimedBitrate(r.required, bitrate, v)]

(* UpdateTargetLayers as far as the distribution sees it: the target       *)
(* layers, and the ts reference layer set by the first real target.        *)
UpdateTargetLayers(c, l) ==
    /\ target' = [target EXCEPT ![c] = l]
    /\ tsReference' = [tsReference EXCEPT ![c] = IF l[1] # -1 /\ @ = -1 THEN l[1] ELSE @]

(* ApplyLayers: reset the provisional layers; an active consumer whose     *)
(* provisional layers differ from its target updates the target.           *)
ApplyLayers(c) ==
    LET l == provisional[c] IN
    /\ provisional' = [provisional EXCEPT ![c] = NoLayers]
    /\ IF ConsumerIsActive(c) /\ l # target[c]
       THEN UpdateTargetLayers(c, l)
       ELSE UNCHANGED <<target, tsReference>>

-----------------------------------------------------------------------------
(* The orders in which the loops visit the consumers with a positive       *)
(* priority: highest priority first. Consumers of equal priority come in   *)
(* the order of mapConsumers, an unordered map, so any order among them.   *)
PriorityOrders(priority) ==
    LET S == {c \in Consumers : priority[c] > 0}
        n == Cardinality(S)
    IN {o \in [1 .. n -> S] : IsInjective(o) /\ \A i \in 1 .. n - 1 : priority[o[i]] >= priority[o[i + 1]]}

IdleLoop ==
    /\ order' = <<>> /\ idx' = 0 /\ share' = [c \in Consumers |-> 0]
    /\ remaining' = 0 /\ roundStart' = 0

(* DistributeAvailableOutgoingBitrate, before its loops: collect the       *)
(* consumers with a positive priority; nothing to do if none; otherwise    *)
(* each consumer's proportional share of the REMB estimate.                *)
DistributeBegin ==
    LET priority == [c \in Consumers |-> GetBitratePriority(c)]
        total    == SumFunction(priority)
    IN /\ phase = "begin"
       /\ IF total = 0
          THEN phase' = "idle" /\ IdleLoop
          ELSE /\ phase' = "proportional"
               /\ order' \in PriorityOrders(priority)
               /\ idx' = 1
               /\ share' = [c \in Consumers |-> (rembAvailable * priority[c]) \div total]
               /\ remaining' = rembAvailable
               /\ UNCHANGED roundStart
       /\ UNCHANGED <<consumerVars, layerVars, modeVars, rembAvailable>>

(* One iteration of the proportional loop: UseAvailableBitrate(share), the *)
(* used bitrate taken from the remainder (down to 0); after the last one,  *)
(* the layer-by-layer loop if at least 2000 bps remain, else ApplyLayers.  *)
DistributeProportional ==
    LET c   == order[idx]
        r   == UseAvailableBitrate(c, share[c])
        rem == IF r.used <= remaining THEN remaining - r.used ELSE 0
    IN /\ phase = "proportional"
       /\ provisional' = [provisional EXCEPT ![c] = r.layers]
       /\ remaining' = rem
       /\ CASE idx < Len(order)      -> idx' = idx + 1 /\ UNCHANGED <<phase, roundStart>>
            [] rem >= MinLayerBitrate -> phase' = "greedy" /\ idx' = 1 /\ roundStart' = rem
            [] OTHER                  -> phase' = "apply" /\ idx' = 1 /\ UNCHANGED roundStart
       /\ UNCHANGED <<consumerVars, target, tsReference, modeVars, rembAvailable, order, share>>

(* Mutant: no exit after a round that used nothing.                       *)
DistributeLayerByLayerNoExit ==
    LET c   == order[idx]
        r   == IncreaseLayer(c, remaining)
        rem == remaining - r.used
    IN /\ phase = "greedy"
       /\ provisional' = [provisional EXCEPT ![c] = r.layers]
       /\ remaining' = rem
       /\ CASE rem < MinLayerBitrate -> phase' = "apply" /\ idx' = 1 /\ UNCHANGED roundStart
            [] idx < Len(order)      -> idx' = idx + 1 /\ UNCHANGED <<phase, roundStart>>
            [] OTHER                 -> idx' = 1 /\ roundStart' = rem /\ UNCHANGED phase
       /\ UNCHANGED <<consumerVars, target, tsReference, modeVars, rembAvailable, order, share>>

(* One iteration of the layer-by-layer loop: IncreaseLayer(remaining)      *)
(* (whose result the code asserts to be at most remaining); stop below     *)
(* 2000 bps, or after a whole round that used nothing.                     *)
DistributeLayerByLayer ==
    LET c   == order[idx]
        r   == IncreaseLayer(c, remaining)
        rem == remaining - r.used
    IN /\ phase = "greedy"
       /\ provisional' = [provisional EXCEPT ![c] = r.layers]
       /\ remaining' = rem
       /\ CASE rem < MinLayerBitrate -> phase' = "apply" /\ idx' = 1 /\ UNCHANGED roundStart
            [] idx < Len(order)      -> idx' = idx + 1 /\ UNCHANGED <<phase, roundStart>>
            [] rem = roundStart      -> phase' = "apply" /\ idx' = 1 /\ UNCHANGED roundStart
            [] OTHER                 -> idx' = 1 /\ roundStart' = rem /\ UNCHANGED phase
       /\ UNCHANGED <<consumerVars, target, tsReference, modeVars, rembAvailable, order, share>>

(* Mutant: the ApplyLayers loop runs one position past its end.            *)
DistributeApplyPastEnd ==
    /\ phase = "apply"
    /\ ApplyLayers(order[idx])
    /\ IF idx <= Len(order)
       THEN idx' = idx + 1 /\ UNCHANGED <<phase, order, share, remaining, roundStart>>
       ELSE phase' = "idle" /\ IdleLoop
    /\ UNCHANGED <<consumerVars, modeVars, rembAvailable>>

(* One iteration of the final loop: ApplyLayers.                           *)
DistributeApply ==
    /\ phase = "apply"
    /\ ApplyLayers(order[idx])
    /\ IF idx < Len(order)
       THEN idx' = idx + 1 /\ UNCHANGED <<phase, order, share, remaining, roundStart>>
       ELSE phase' = "idle" /\ IdleLoop
    /\ UNCHANGED <<consumerVars, modeVars, rembAvailable>>

DistributionStep ==
    DistributeBegin \/ DistributeProportional \/ DistributeLayerByLayer \/ DistributeApply

-----------------------------------------------------------------------------
(* MayChangeLayers for consumer c with producer streams st: nothing when   *)
(* RecalculateTargetLayers finds the present target; with externally      *)
(* managed bitrate, ask the transport for a distribution                   *)
(* (OnConsumerNeedBitrateChange) when the spatial layer differs; with      *)
(* locally managed bitrate, UpdateTargetLayers right away.                 *)
MayChangeLayers(c, st) ==
    LET new == SC(tsReference[c])!RecalculateTargetLayers(st, Preferred[c][1], Preferred[c][2])
    IN CASE new = target[c] -> UNCHANGED <<target, tsReference, phase>>
         [] externallyManaged[c] ->
               /\ IF new[1] # target[c][1] THEN phase' = "begin" ELSE UNCHANGED phase
               /\ UNCHANGED <<target, tsReference>>
         [] OTHER -> UpdateTargetLayers(c, new) /\ UNCHANGED phase

(* SetExternallyManagedBitrate on every consumer of S.                     *)
SetExternallyManagedBitrate(S) ==
    externallyManaged' = [k \in Consumers |-> externallyManaged[k] \/ k \in S]

(* Mutant: the REMB client is created but only the new consumer is told    *)
(* that its bitrate is externally managed.                                 *)
UserOnNewConsumerNewOnly(c) ==
    /\ phase = "idle"
    /\ ~created[c]
    /\ created' = [created EXCEPT ![c] = TRUE]
    /\ IF ~rembClient /\ c \in RembCapable
       THEN rembClient' = TRUE /\ SetExternallyManagedBitrate({c})
       ELSE /\ SetExternallyManagedBitrate(IF rembClient THEN {c} ELSE {})
            /\ UNCHANGED rembClient
    /\ UNCHANGED <<consumerVars, layerVars, rembAvailable, loopVars>>

(* The transport's consume request inserts consumer c into mapConsumers,   *)
(* inactive until the transport tells it that it is connected, then calls  *)
(* UserOnNewConsumer: the first REMB-capable consumer creates the REMB     *)
(* client, and every consumer in the map is told that its bitrate is       *)
(* externally managed; once the client exists, each new consumer is told.  *)
UserOnNewConsumer(c) ==
    /\ phase = "idle"
    /\ ~created[c]
    /\ created' = [created EXCEPT ![c] = TRUE]
    /\ IF ~rembClient /\ c \in RembCapable
       THEN rembClient' = TRUE /\ SetExternallyManagedBitrate({k \in Consumers : created'[k]})
       ELSE /\ SetExternallyManagedBitrate(IF rembClient THEN {c} ELSE {})
            /\ UNCHANGED rembClient
    /\ UNCHANGED <<consumerVars, layerVars, rembAvailable, loopVars>>

(* OnRembClientAvailableBitrate: a new estimate, then a distribution.      *)
OnRembClientAvailableBitrate(bitrate) ==
    /\ phase = "idle"
    /\ rembClient
    /\ rembAvailable' = bitrate
    /\ phase' = "begin"
    /\ UNCHANGED <<consumerVars, layerVars, modeVars, order, idx, share, remaining, roundStart>>

(* Consumer::Pause of an active consumer: UserOnPaused drops the target    *)
(* layers and, with externally managed bitrate, asks for a distribution.   *)
Pause(c) ==
    /\ phase = "idle"
    /\ created[c] /\ ~consumerPaused[c]
    /\ consumerPaused' = [consumerPaused EXCEPT ![c] = TRUE]
    /\ IF IsActive(c)
       THEN /\ UpdateTargetLayers(c, NoLayers)
            /\ phase' = IF externallyManaged[c] THEN "begin" ELSE phase
       ELSE UNCHANGED <<target, tsReference, phase>>
    /\ UNCHANGED <<producerStreams, loss, provisional, modeVars, rembAvailable, order, idx,
                   share, remaining, roundStart>>

(* Consumer::Resume, or Consumer::TransportConnected: the consumer becomes *)
(* active and UserOnResumed / UserOnTransportConnected call               *)
(* MayChangeLayers.                                                        *)
Resume(c) ==
    /\ phase = "idle"
    /\ created[c] /\ consumerPaused[c]
    /\ consumerPaused' = [consumerPaused EXCEPT ![c] = FALSE]
    /\ IF \E l \in SpatialLayers : producerStreams[c][l].exists
       THEN MayChangeLayers(c, producerStreams[c]) ELSE UNCHANGED <<target, tsReference, phase>>
    /\ UNCHANGED <<producerStreams, loss, provisional, modeVars, rembAvailable, order, idx,
                   share, remaining, roundStart>>

(* ProducerRtpStreamScore: an active consumer calls MayChangeLayers; with  *)
(* externally managed bitrate only when the stream died or revived.        *)
ProducerRtpStreamScore(c, l, score) ==
    LET previousScore == producerStreams[c][l].score
        st == [producerStreams[c] EXCEPT ![l].score = score]
    IN /\ phase = "idle"
       /\ producerStreams[c][l].exists
       /\ score # previousScore
       /\ producerStreams' = [producerStreams EXCEPT ![c] = st]
       /\ IF ConsumerIsActive(c) /\ (~externallyManaged[c] \/ score = 0 \/ previousScore = 0)
          THEN MayChangeLayers(c, st) ELSE UNCHANGED <<target, tsReference, phase>>
       /\ UNCHANGED <<consumerPaused, loss, provisional, modeVars, rembAvailable, order, idx,
                      share, remaining, roundStart>>

(* The send stream's loss percentage changes (RTCP receiver reports); no  *)
(* handler of the consumer reacts to it.                                   *)
LossChange(c, x) ==
    /\ phase = "idle"
    /\ loss' = [loss EXCEPT ![c] = x]
    /\ UNCHANGED <<consumerPaused, producerStreams, layerVars, modeVars, rembAvailable, loopVars>>

-----------------------------------------------------------------------------
StreamStates ==
    {[exists |-> TRUE, score |-> sc, srNtpMs |-> sr, srTs |-> 0] : sc \in InitialScores, sr \in SenderReports}

(* No consumer yet, no REMB client; rembAvailable stands for the initial   *)
(* available outgoing bitrate the client will start from.                  *)
Init ==
    /\ consumerPaused = [c \in Consumers |-> TRUE]
    /\ producerStreams \in [Consumers -> [SpatialLayers -> StreamStates]]
    /\ loss \in [Consumers -> Losses]
    /\ target = [c \in Consumers |-> NoLayers]
    /\ tsReference = [c \in Consumers |-> -1]
    /\ provisional = [c \in Consumers |-> NoLayers]
    /\ created = [c \in Consumers |-> FALSE]
    /\ externallyManaged = [c \in Consumers |-> FALSE]
    /\ rembClient = FALSE
    /\ rembAvailable \in AvailableBitrates
    /\ phase = "idle"
    /\ order = <<>> /\ idx = 0 /\ share = [c \in Consumers |-> 0]
    /\ remaining = 0 /\ roundStart = 0

Next ==
    \/ DistributionStep
    \/ \E b \in AvailableBitrates : OnRembClientAvailableBitrate(b)
    \/ \E c \in Consumers : UserOnNewConsumer(c) \/ Pause(c) \/ Resume(c)
    \/ \E c \in Consumers, l \in SpatialLayers, sc \in Scores : ProducerRtpStreamScore(c, l, sc)
    \/ \E c \in Consumers, x \in Losses : LossChange(c, x)

(* The event loop runs a distribution to completion once it has started.  *)
Spec == Init /\ [][Next]_vars /\ WF_vars(DistributionStep)

-----------------------------------------------------------------------------
(* Properties.                                                             *)

Layers == {NoLayers} \cup (SpatialLayers \X TemporalLayers)

TypeOK ==
    /\ consumerPaused \in [Consumers -> BOOLEAN]
    /\ loss \in [Consumers -> Losses]
    /\ target \in [Consumers -> Layers]
    /\ provisional \in [Consumers -> Layers]
    /\ tsReference \in [Consumers -> {-1} \cup SpatialLayers]
    /\ created \in [Consumers -> BOOLEAN] /\ externallyManaged \in [Consumers -> BOOLEAN]
    /\ rembClient \in BOOLEAN
    /\ rembAvailable \in AvailableBitrates
    /\ phase \in {"idle", "begin", "proportional", "greedy", "apply"}
    /\ order \in Seq(Consumers)
    /\ idx \in 0 .. Len(order)
    /\ remaining \in Int /\ roundStart \in Int

(* The MS_ASSERT of the layer-by-layer loop (WebRtcTransport.cpp:976):     *)
(* no IncreaseLayer, in any round and for any consumer, ever reports more  *)
(* bitrate than it was offered, so remainingBitrate, a uint32, never       *)
(* wraps below zero.                                                       *)
LayerClaimsWithinOffer == remaining >= 0

(* The MS_ASSERTs of a distribution: DistributeAvailableOutgoingBitrate    *)
(* runs only when the transport has a REMB client (WebRtcTransport.cpp:897) *)
(* and hands bitrate only to consumers whose bitrate is externally managed *)
(* (SimulcastConsumer.cpp:379, 498 and 627), although a consumer created  *)
(* before the REMB client chose its layers itself until the client came.   *)
DistributionAssertions ==
    /\ phase # "idle" => rembClient
    /\ phase \in {"proportional", "greedy", "apply"} =>
          \A i \in 1 .. Len(order) : externallyManaged[order[i]]

(* The refinement mapping: during the ApplyLayers loop, a consumer the     *)
(* loop has not reached yet already holds, abstractly, the layers it is    *)
(* about to apply.                                                         *)
Pending(c) == phase = "apply" /\ \E i \in idx .. Len(order) : order[i] = c

absTarget == [c \in Consumers |->
                 IF Pending(c) /\ ConsumerIsActive(c) THEN provisional[c] ELSE target[c]]

absTsReference == [c \in Consumers |->
                      IF /\ Pending(c) /\ ConsumerIsActive(c) /\ provisional[c] # target[c]
                         /\ provisional[c][1] # -1 /\ tsReference[c] = -1
                      THEN provisional[c][1] ELSE tsReference[c]]

Alloc == INSTANCE BandwidthAllocation
    WITH target <- absTarget, tsReference <- absTsReference

(* DistributeAvailableOutgoingBitrate implements BandwidthAllocation: each *)
(* distribution, over both of its passes and whatever order the consumers  *)
(* of equal priority come in, gives every active consumer layers its       *)
(* producer can serve and switch to, leaves the inactive ones alone, and   *)
(* never targets more than 108% of the REMB estimate in total.             *)
AllocationRefined == Alloc!Spec

(* A requested distribution always comes to an end: the layer-by-layer     *)
(* loop stops once a round uses nothing.                                   *)
DistributionCompletes == phase = "begin" ~> phase = "idle"

(* IncreaseLayer, as spec.md describes it, accepts the first higher layer  *)
(* combination that is active and fits the virtual bitrate. So when the   *)
(* layer-by-layer loop ended because a whole round claimed nothing, with   *)
(* at least 2000 bps left, no consumer sits one temporal layer short of    *)
(* its preferred pair while that layer is active on a healthy stream and   *)
(* fits what every consumer was offered in that round.                     *)
GreedyReachesPreferred ==
    (phase = "apply" /\ remaining >= MinLayerBitrate) =>
        \A i \in 1 .. Len(order) :
            LET c == order[i]
                p == provisional[c]
                step == Rates[c][Preferred[c][1]][Preferred[c][2]]
            IN ~ /\ p[1] = Preferred[c][1] /\ p[2] + 1 = Preferred[c][2]
                 /\ Score(c, p[1]) >= 7
                 /\ 0 < step /\ step <= VirtualBitrate(c, remaining)

=============================================================================
