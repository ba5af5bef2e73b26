--------------------------- MODULE MiningSession ---------------------------
(***************************************************************************)
(* What a Gapcoin miner promises its callers about a mining session,       *)
(* whichever driver runs it (node::GapcoinMiner behind the RPCs, or the   *)
(* GapcoinMiner of the stand-alone driver).  A session is "stopped",      *)
(* "running" or "stopping"; each of its NumWorkers worker threads is      *)
(* "none" (no thread object), "run" (mining) or "done" (returned, not yet *)
(* joined).                                                                *)
(*                                                                         *)
(*  - a session starts only when no worker of the last one is left, and   *)
(*    its workers are launched with the start or right after it;          *)
(*  - a worker returns only after a stop was requested;                   *)
(*  - the session ends only after every worker has returned, and the end *)
(*    leaves no thread object behind;                                     *)
(*  - a requested stop completes.                                         *)
(***************************************************************************)
EXTENDS Naturals

CONSTANT NumWorkers

VARIABLES session, workers

Workers == 1..NumWorkers

NoWorkers  == [i \in Workers |-> "none"]
AllRunning == [i \in Workers |-> "run"]

TypeOK ==
    /\ session \in {"stopped", "running", "stopping"}
    /\ workers \in [Workers -> {"none", "run", "done"}]

Init ==
    /\ session = "stopped"
    /\ workers = NoWorkers

Begin ==
    /\ session = "stopped"
    /\ workers = NoWorkers
    /\ session' = "running"
    /\ workers' \in {NoWorkers, AllRunning}

Launch ==
    /\ session = "running"
    /\ workers = NoWorkers
    /\ workers' = AllRunning
    /\ UNCHANGED session

RequestStop ==
    /\ session = "running"
    /\ session' = "stopping"
    /\ UNCHANGED workers

Exit(i) ==
    /\ session = "stopping"
    /\ workers[i] = "run"
    /\ workers' = [workers EXCEPT ![i] = "done"]
    /\ UNCHANGED session

Join(i) ==
    /\ session = "stopping"
    /\ workers[i] = "done"
    /\ workers' = [workers EXCEPT ![i] = "none"]
    /\ UNCHANGED session

End ==
    /\ session = "stopping"
    /\ \A i \in Workers : workers[i] # "run"
    /\ session' = "stopped"
    /\ workers' = NoWorkers

Next ==
    \/ Begin \/ Launch \/ RequestStop \/ End
    \/ \E i \in Workers : Exit(i) \/ Join(i)

\* Starting and stopping are up to the caller; a stop in progress finishes.
Spec ==
    /\ Init /\ [][Next]_<<session, workers>>
    /\ \A i \in Workers : WF_<<session, workers>>(Exit(i))
    /\ WF_<<session, workers>>(End)

=============================================================================
