--------------------------- MODULE MCRelayTunnel ---------------------------
(* RelayTunnel for TLC: the values of its constants are in ShareRelay.cfg.   *)
EXTENDS RelayTunnel
=============================================================================
