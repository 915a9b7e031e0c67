--------------------------- MODULE MCEventHandle ---------------------------
(* A few handles and as many timers. *)
EXTENDS EventHandle
=============================================================================
