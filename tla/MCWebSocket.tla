---------------------------- MODULE MCWebSocket ----------------------------
(* WebSocket for TLC; the configurations choose how the client is used.     *)
EXTENDS WebSocket
=============================================================================
