------------------------- MODULE MC_WebRtcTransport -------------------------
(* Two tuples, one UDP and one TCP: enough to lose the selected TCP tuple *)
(* while the UDP one stays valid, and to lose the only tuple.             *)
EXTENDS WebRtcTransport

CONSTANTS udp, tcp

MCTuples    == {udp, tcp}
MCTcpTuples == {tcp}
=============================================================================
