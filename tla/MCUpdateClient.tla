--------------------------- MODULE MCUpdateClient ---------------------------
(* A small instance of the update client for TLC. *)
EXTENDS UpdateClient
=============================================================================
