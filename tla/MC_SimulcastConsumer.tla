------------------------ MODULE MC_SimulcastConsumer ------------------------
(* Model values for SimulcastConsumer: two spatial and two temporal        *)
(* layers; layer 1's clock starts ahead of layer 0's so switching needs a  *)
(* non-zero tsOffset. The violation configs take scores 4 and 9, both     *)
(* sides of the "< 7" rule of RecalculateTargetLayers; simulcast_safety    *)
(* takes {0, 9} to stay within its time budget.                           *)
EXTENDS SimulcastConsumer

MCTsBase == (0 :> 10 @@ 1 :> 3)
=============================================================================
