--------------------------- MODULE MCServeListener ---------------------------
(* A small instance of ServeListener for TLC. *)
EXTENDS ServeListener
=============================================================================
