--------------------------- MODULE MCSyncPipeline ---------------------------
(* Two deployments of the pipeline for TLC, by WORKER_MODE.  "all": one     *)
(* process with a scheduler and one worker, one profile with two accounts,  *)
(* and every failure.  "server": two worker processes without a scheduler,  *)
(* two profiles that share one account, chunks from OAuth callbacks only,   *)
(* and no outage while a task runs.  Accounts, profiles and      *)
(* workers are alike there, so account 1 is the first to be imported,       *)
(* profile 1 the first to connect, and of two idle workers it is the first  *)
(* that takes a task.                                                       *)
EXTENDS SyncPipeline

VARIABLE mode   \* WORKER_MODE of the worker processes

Profiles == 1 .. 2
Accounts == 1 .. 2
FirstWorker == CHOOSE w \in Worker : TRUE

DeployedInit == Init /\ mode \in {"all", "server"}

DeployedNext ==
  /\ Next /\ UNCHANGED mode
  /\ \/ /\ mode = "all"
        /\ connected' \subseteq {1}
        /\ owner'[2] # NoProfile => owner'[1] # NoProfile
        /\ \A w \in Worker \ {FirstWorker} : run'[w] = Idle
     \/ /\ mode = "server"
        /\ schedPc' = "idle" /\ UNCHANGED sameDay
        /\ up' \/ \A w \in Worker : run'[w] = Idle
        /\ owner'[2] = NoProfile
        /\ 2 \in connected' => 1 \in connected'
        /\ \A w \in Worker :
             run[w] = Idle /\ run'[w] # Idle =>
               w = FirstWorker \/ run[FirstWorker] # Idle

DeployedSafety == DeployedInit /\ [][DeployedNext]_<<vars, mode>>

Deployed ==
  /\ DeployedSafety
  /\ WF_vars(mode = "all" /\ Tick) /\ WF_vars(TickLoop)
  /\ ServerFairness
=============================================================================
