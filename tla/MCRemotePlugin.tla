--------------------------- MODULE MCRemotePlugin ---------------------------
(* Small instances of RemotePlugin for TLC. *)
EXTENDS RemotePlugin
==============================================================================
