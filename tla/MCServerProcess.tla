-------------------------- MODULE MCServerProcess --------------------------
(* A small instance of the server process for TLC. *)
EXTENDS ServerProcess
=============================================================================
