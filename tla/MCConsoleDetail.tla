--------------------------- MODULE MCConsoleDetail ---------------------------
(* The console's workspace for model checking: a project that changes twice, and *)
(* another one to switch to.                                                     *)
EXTENDS ConsoleDetail

CONSTANTS p, q

TwoProjects == {p, q}
Versions == [x \in Projects |-> IF x = p THEN 2 ELSE 0]
Changes == {[role |-> "owner", rule |-> "wecom", spare |-> "preview"],
            [role |-> "deployer", rule |-> "none", spare |-> "archived"],
            [role |-> "none", rule |-> "plain", spare |-> "collected"]}
=============================================================================
