----------------------------- MODULE MCRealtime -----------------------------
(* RealtimeConnection with the default order of transports.                *)
EXTENDS RealtimeConnection, TLC

DefaultOrder == <<"webtransport", "websocket">>
=============================================================================
