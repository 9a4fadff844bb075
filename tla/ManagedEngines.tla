--------------------------- MODULE ManagedEngines ---------------------------
(***************************************************************************)
(* The engines PerspectiveManager drives are SyncEngines: what startSync,  *)
(* stopSync and the adapter's answers do to one engine object is what the  *)
(* module SyncEngine says start() and stop() do, with one call of start()  *)
(* and none of commit() (the manager commits to the adapter itself).       *)
(***************************************************************************)
EXTENDS PerspectiveManager

OneStart == {"start"}

SE(e) ==
  INSTANCE SyncEngine WITH
    Starts       <- OneStart,
    Commits      <- {},
    Reports      <- {},
    running      <- engines[e].running,
    syncState    <- engines[e].state,
    start        <- [c \in OneStart |-> engines[e].pc],
    commit       <- [k \in {} |-> "new"],
    syncInterval <- IF engines[e].interval THEN "start" ELSE None,
    timers       <- IF engines[e].interval THEN OneStart ELSE {}

(***************************************************************************)
(* Every engine the manager makes implements the SyncEngine specification, *)
(* whatever calls, removals and failures run around it: it starts in its   *)
(* initial state, and every step of the manager is one step of each engine *)
(* or none (SE(e)!Spec for every e, with the quantifier inside).           *)
(***************************************************************************)
EnginesConform ==
  /\ \A e \in Engines : SE(e)!Init
  /\ [][\A e \in Engines : [SE(e)!Next]_(SE(e)!vars)]_vars
=============================================================================
