------------------------- MODULE BandwidthAllocation --------------------------
(***************************************************************************)
(* What a distribution of the transport's outgoing bitrate promises, with  *)
(* no loops, priorities or provisional layers: in one step, every active   *)
(* consumer receives target layers that its producer can serve (a live     *)
(* stream it may switch to, a layer being received) or none, the inactive  *)
(* ones keep theirs, and all the targets together cost no more than the    *)
(* REMB estimate plus the 8% that a loss-free consumer may overshoot by.   *)
(* A paused consumer drops its layers; the inputs (pause state, producer   *)
(* streams, estimate, consumers joining) change freely and leave the       *)
(* targets alone. Distributions need the REMB client; an active consumer   *)
(* whose bitrate is not externally managed picks layers the producer       *)
(* sends by itself, one consumer at a time.                                *)
(*                                                                         *)
(* BandwidthDistributor refines this module (AllocationRefined).           *)
(***************************************************************************)
EXTENDS Integers, FiniteSets, Functions, FiniteSetsExt

CONSTANTS Consumers, NumSpatialLayers, NumTemporalLayers, Rates

VARIABLES
    consumerPaused,     \* [Consumers -> BOOLEAN]
    producerStreams,    \* [Consumers -> [s -> [exists, score, srNtpMs, srTs]]]
    rembAvailable,      \* the estimate
    externallyManaged,  \* [Consumers -> BOOLEAN]
    rembClient,         \* the transport has a REMB client
    target,             \* [Consumers -> <<s, t>>]
    tsReference         \* [Consumers -> the first spatial layer ever targeted]

avars == <<consumerPaused, producerStreams, externallyManaged, rembClient, rembAvailable,
          target, tsReference>>
inputs == <<consumerPaused, producerStreams, externallyManaged, rembClient, rembAvailable>>

SpatialLayers == 0 .. NumSpatialLayers - 1
NoLayers      == <<-1, -1>>

Active(c) == ~consumerPaused[c] /\ \E l \in SpatialLayers : producerStreams[c][l].exists

(* The cost of layers <<s, t>>: the bitrate of temporal layers 0..t.       *)
Cost(c, l) == IF l[1] = -1 THEN 0 ELSE SumFunctionOnSet(Rates[c][l[1]], 0 .. l[2])

(* Spatial layer s of streams st is switchable from reference layer ref:  *)
(* it and the reference layer have a Sender Report, or no reference has   *)
(* been fixed yet.                                                         *)
Switchable(st, ref, s) ==
    \/ ref = -1
    \/ s = ref
    \/ st[s].srNtpMs # 0 /\ st[ref].srNtpMs # 0

(* Layers the producer streams st send and a consumer may switch to.      *)
Receivable(st, ref, l) ==
    \/ l = NoLayers
    \/ /\ l[1] \in SpatialLayers /\ l[2] \in 0 .. NumTemporalLayers - 1
       /\ st[l[1]].exists /\ st[l[1]].score > 0
       /\ Switchable(st, ref, l[1])

Servable(c, l) == Receivable(producerStreams[c], tsReference[c], l) /\ (l = NoLayers \/ Rates[c][l[1]][l[2]] > 0)

(* The spatial layer the ts reference is fixed to when target' is taken.  *)
NewTsReference ==
    [c \in Consumers |->
        IF target'[c] # target[c] /\ target'[c][1] # -1 /\ tsReference[c] = -1
        THEN target'[c][1] ELSE tsReference[c]]

Budget == (108 * rembAvailable) \div 100

Distribute ==
    /\ rembClient
    /\ \A c \in Consumers :
          IF Active(c) THEN Servable(c, target'[c]) ELSE target'[c] = target[c]
    /\ SumFunctionOnSet([c \in Consumers |-> Cost(c, target'[c])], Consumers) <= Budget
    /\ tsReference' = NewTsReference
    /\ UNCHANGED inputs

(* A consumer whose bitrate is not externally managed, active after the   *)
(* step, takes other layers that the producer streams send after the step  *)
(* (the step may be the stream or pause change it reacts to), whatever the *)
(* estimate.                                                               *)
SelfManage(c) ==
    /\ ~externallyManaged[c]
    /\ Active(c)'
    /\ \E l \in {NoLayers} \cup (SpatialLayers \X (0 .. NumTemporalLayers - 1)) :
          /\ l # target[c] /\ Receivable(producerStreams'[c], tsReference[c], l)
          /\ target' = [target EXCEPT ![c] = l]
    /\ tsReference' = NewTsReference
    /\ UNCHANGED <<externallyManaged, rembClient, rembAvailable>>

Drop(c) ==
    /\ consumerPaused' = [consumerPaused EXCEPT ![c] = TRUE]
    /\ target' = [target EXCEPT ![c] = NoLayers]
    /\ UNCHANGED <<producerStreams, externallyManaged, rembClient, rembAvailable, tsReference>>

Inputs == UNCHANGED <<target, tsReference>>

Init ==
    /\ target = [c \in Consumers |-> NoLayers]
    /\ tsReference = [c \in Consumers |-> -1]

Next == Distribute \/ (\E c \in Consumers : SelfManage(c) \/ Drop(c)) \/ Inputs

Spec == Init /\ [][Next]_avars
=============================================================================
