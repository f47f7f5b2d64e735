----------------------- MODULE PublicationRefinement -----------------------
(***************************************************************************)
(* The deployment lifecycle implements Publication: SQLite's rows are what *)
(* decides which deployment is retained and which one is shown, and the    *)
(* artifact directory, the locks, the crashes and the collector stay       *)
(* behind it.                                                              *)
(***************************************************************************)
EXTENDS Deployment

Phase(i) ==
  IF Available(i) THEN "retained"
  ELSE IF state[i] = "missing" THEN "lost"
  ELSE IF status[i] = "uploading" \/ i >= nextId THEN "draft"
  ELSE "gone"

Home(i) == IF IsPublished(i) THEN project[i] ELSE None

Production(p) ==
  LET shown == {i \in RowsOf(p) : status[i] = "active"} IN
  IF shown = {} THEN None ELSE CHOOSE i \in shown : TRUE

Promise == INSTANCE Publication WITH
  phase      <- [i \in Ids |-> Phase(i)],
  home       <- [i \in Ids |-> Home(i)],
  production <- [p \in Projects |-> Production(p)],
  branch     <- alias,
  previews   <- {i \in Ids : IsPublished(i) /\ target[i] # "production"},
  reading    <- serving

\* Every step of the server, its crashes and its recovery included, is a step the
\* abstract publication allows or one that it cannot see (handleDeploy,
\* switchPublication, cleanupProject, prepareDeployments, siteHandler).
Publishes == Promise!Spec
=============================================================================
