----------------------- MODULE MC_BandwidthDistributor -----------------------
(* Two consumers of two spatial and two temporal layers.                   *)
(* c1 prefers the top layer pair; its base layer costs 600 + 400 bps and   *)
(* its upper layer 2500 + 1500 bps. c2 prefers the base layer's top        *)
(* temporal layer, which costs 500 + 2500 bps. Scores 0, 4 and 9 exercise dead streams and both sides  *)
(* of the "score < 7" rules; losses 0 and 15 both sides of the virtual     *)
(* bitrate adjustment; estimates of 3000 and 6000 bps leave the greedy     *)
(* pass something to distribute or not. Only c2's parameters let the      *)
(* transport create a REMB client, so c1 may join with locally managed    *)
(* bitrate and be switched when c2 joins.                                  *)
EXTENDS BandwidthDistributor, TLC

CONSTANTS c1, c2

MCConsumers == {c1, c2}
MCRembCapable == {c2}
MCPreferred == (c1 :> <<1, 1>> @@ c2 :> <<0, 1>>)
MCRates ==
    (c1 :> (0 :> (0 :> 600 @@ 1 :> 400) @@ 1 :> (0 :> 2500 @@ 1 :> 1500))
     @@ c2 :> (0 :> (0 :> 500 @@ 1 :> 2500) @@ 1 :> (0 :> 1500 @@ 1 :> 1500)))
=============================================================================
