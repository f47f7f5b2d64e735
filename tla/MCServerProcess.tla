--------------------------- MODULE MCServerProcess ---------------------------
(* Server processes for model checking. *)
EXTENDS ServerProcess
=============================================================================
