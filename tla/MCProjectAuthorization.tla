----------------------- MODULE MCProjectAuthorization -----------------------
(* Project authorization for model checking: an owner and another account. *)
EXTENDS ProjectAuthorization

CONSTANTS owner, member
=============================================================================
