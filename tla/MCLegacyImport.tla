--------------------------- MODULE MCLegacyImport ---------------------------
(* The import of an old site for model checking. *)
EXTENDS LegacyImport
=============================================================================
