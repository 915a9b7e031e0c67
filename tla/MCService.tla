----------------------------- MODULE MCService -----------------------------
(* The program and its HTTP server with a few connections. *)
EXTENDS Service
=============================================================================
