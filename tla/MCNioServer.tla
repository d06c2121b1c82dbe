---------------------------- MODULE MCNioServer -----------------------------
(***************************************************************************)
(* The NIO server with a few clients.                                      *)
(***************************************************************************)
EXTENDS NioServer
=============================================================================
