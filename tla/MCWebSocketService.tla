--------------------------- MODULE MCWebSocketService ---------------------------
(* Two browsers, one alarm and the pump over a channel of one. *)
EXTENDS WebSocketService
===============================================================================
