----------------------------- MODULE MCRemoteKv -----------------------------
(* A small instance of RemoteKv. *)
EXTENDS RemoteKv
=============================================================================
