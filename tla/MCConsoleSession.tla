------------------------- MODULE MCConsoleSession -------------------------
(* Console sessions for model checking: two tabs, two users. *)
EXTENDS ConsoleSession, TLC

Symmetry == Permutations(Tabs) \cup Permutations(Users)
=============================================================================
