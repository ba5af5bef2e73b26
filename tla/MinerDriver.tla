---------------------------- MODULE MinerDriver ----------------------------
(***************************************************************************)
(* The Gapcoin mining driver: the RPCs startgapcoinmining and              *)
(* stopgapcoinmining with their globals g_mining_active and                *)
(* g_mining_thread, the MiningLoop thread (src/unnamed/part_002), and the *)
(* lifecycle of the GapcoinMiner they drive: StartMining, StopMining and  *)
(* its sieve threads' stop flag (src/unnamed/part_000).                    *)
(*                                                                         *)
(* RPC requests run on the RPC server's worker threads (Callers); nothing *)
(* serialises two of them.  What a template, a sieve cycle or a found gap  *)
(* contains is abstracted: MiningLoop's pass over one template is one step *)
(* and a sieve thread is only observed when it sees the stop flag.        *)
(***************************************************************************)
EXTENDS Naturals

CONSTANTS
    Callers,       \* RPC worker threads
    NumSieves,     \* GapcoinMiner::m_nThreads
    MaxCalls,      \* bound: RPCs each caller makes
    MaxTemplates   \* bound: block templates the mining loop works through

Sieves == 1..NumSieves

VARIABLES
    active,        \* g_mining_active
    loopHandle,    \* g_mining_thread: "none" (not joinable) or "running" (joinable)
    loopPc,        \* the MiningLoop thread: "none", "loop" or "exited"
    templates,     \* templates the mining loop has worked through
    blocksFound,   \* g_blocks_found
    gmMining,      \* GapcoinMiner::m_mining
    gmStop,        \* GapcoinMiner::m_stopRequested
    sieve,         \* GapcoinMiner::m_threads: "none", "run" or "done" per thread
    pc,            \* RPC caller program counters
    calls          \* RPCs made per caller

vars == <<active, loopHandle, loopPc, templates, blocksFound, gmMining, gmStop, sieve,
          pc, calls>>

loopVars  == <<loopHandle, loopPc, templates, blocksFound>>
minerVars == <<gmMining, gmStop, sieve>>

Goto(r, l) == pc' = [pc EXCEPT ![r] = l]

-----------------------------------------------------------------------------
(* startgapcoinmining                                                      *)

\* Mutation variant: startgapcoinmining without the g_mining_active check.
StartRpcNoActiveCheck(r) ==
    /\ pc[r] = "idle" /\ calls[r] < MaxCalls
    /\ calls' = [calls EXCEPT ![r] = @ + 1]
    /\ \E shiftValid \in BOOLEAN : Goto(r, IF shiftValid THEN "gm_start" ELSE "idle")
    /\ UNCHANGED <<active, loopVars, minerVars>>

\* if (g_mining_active) throw "Mining is already active"; a shift outside
\* [GAPCOIN_SHIFT_MIN, GAPCOIN_SHIFT_MAX] is also refused.
StartRpc(r) ==
    /\ pc[r] = "idle" /\ calls[r] < MaxCalls
    /\ calls' = [calls EXCEPT ![r] = @ + 1]
    /\ \/ /\ active
          /\ UNCHANGED pc
       \/ /\ ~active
          /\ \E shiftValid \in BOOLEAN : Goto(r, IF shiftValid THEN "gm_start" ELSE "idle")
    /\ UNCHANGED <<active, loopVars, minerVars>>

\* Mutation variant: StartMining that does not clear m_stopRequested.
GapcoinStartMiningKeepsStop(r) ==
    /\ pc[r] = "gm_start"
    /\ IF gmMining
         THEN UNCHANGED minerVars
         ELSE /\ gmMining' = TRUE
              /\ sieve' = [s \in Sieves |-> "run"]
              /\ UNCHANGED gmStop
    /\ Goto(r, "set_active")
    /\ UNCHANGED <<active, loopVars, calls>>

\* g_gapcoin_miner->StartMining(...): returns false (ignored by the RPC) when
\* m_mining is already set; otherwise clears m_stopRequested, sets m_mining
\* and starts the m_nThreads sieve threads.
GapcoinStartMining(r) ==
    /\ pc[r] = "gm_start"
    /\ IF gmMining
         THEN UNCHANGED minerVars
         ELSE /\ gmStop' = FALSE
              /\ gmMining' = TRUE
              /\ sieve' = [s \in Sieves |-> "run"]
    /\ Goto(r, "set_active")
    /\ UNCHANGED <<active, loopVars, calls>>

\* g_mining_active = true; g_mining_thread = std::thread(MiningLoop, ...).
\* Move-assigning onto a std::thread that is still joinable calls
\* std::terminate.
StartMiningLoop(r) ==
    /\ pc[r] = "set_active"
    /\ active' = TRUE
    /\ IF loopHandle = "running"
         THEN /\ Goto(r, "terminated")
              /\ UNCHANGED loopVars
         ELSE /\ loopHandle' = "running"
              /\ loopPc' = "loop"
              /\ templates' = 0
              /\ Goto(r, "idle")
              /\ UNCHANGED blocksFound
    /\ UNCHANGED <<minerVars, calls>>

-----------------------------------------------------------------------------
(* stopgapcoinmining                                                       *)

\* if (!g_mining_active) return false; g_mining_active = false.
StopRpc(r) ==
    /\ pc[r] = "idle" /\ calls[r] < MaxCalls
    /\ calls' = [calls EXCEPT ![r] = @ + 1]
    /\ IF active THEN /\ active' = FALSE
                      /\ Goto(r, "gm_stop")
                 ELSE UNCHANGED <<active, pc>>
    /\ UNCHANGED <<loopVars, minerVars>>

\* Mutation variant: StopMining that never sets m_stopRequested.
GapcoinStopMiningNoFlag(r) ==
    /\ pc[r] = "gm_stop"
    /\ Goto(r, IF gmMining THEN "gm_join" ELSE "join_loop")
    /\ UNCHANGED <<active, loopVars, minerVars, calls>>

\* g_gapcoin_miner->StopMining(): if (!m_mining) return; else set
\* m_stopRequested (and ask the GPUs to stop).
GapcoinStopMining(r) ==
    /\ pc[r] = "gm_stop"
    /\ IF gmMining THEN /\ gmStop' = TRUE
                        /\ Goto(r, "gm_join")
                   ELSE /\ Goto(r, "join_loop")
                        /\ UNCHANGED gmStop
    /\ UNCHANGED <<active, loopVars, gmMining, sieve, calls>>

\* Mutation variant: StopMining that leaves m_mining set.
GapcoinJoinThreadsKeepsMining(r) ==
    /\ pc[r] = "gm_join"
    /\ \A s \in Sieves : sieve[s] # "run"
    /\ sieve' = [s \in Sieves |-> "none"]
    /\ Goto(r, "join_loop")
    /\ UNCHANGED <<active, loopVars, gmMining, gmStop, calls>>

\* StopMining: join every sieve thread, m_threads.clear(), m_mining = false.
GapcoinJoinThreads(r) ==
    /\ pc[r] = "gm_join"
    /\ \A s \in Sieves : sieve[s] # "run"
    /\ sieve' = [s \in Sieves |-> "none"]
    /\ gmMining' = FALSE
    /\ Goto(r, "join_loop")
    /\ UNCHANGED <<active, loopVars, gmStop, calls>>

\* if (g_mining_thread.joinable()) g_mining_thread.join().
JoinMiningLoop(r) ==
    /\ pc[r] = "join_loop"
    /\ loopHandle = "running" => loopPc = "exited"
    /\ loopHandle' = "none"
    /\ loopPc' = IF loopHandle = "running" THEN "none" ELSE loopPc
    /\ Goto(r, "idle")
    /\ UNCHANGED <<active, templates, blocksFound, minerVars, calls>>

-----------------------------------------------------------------------------
(* The MiningLoop thread and the sieve threads.                            *)

\* while (g_mining_active): one block template.  CreateNewBlock may fail
\* (sleep, continue); the nonce search may find a PoW that ProcessNewBlock
\* accepts as new (g_blocks_found++), or the template expires after 60 s.
\* An exception ends the loop through the catch handlers.
MiningLoop ==
    /\ loopPc = "loop"
    /\ IF ~active
         THEN /\ loopPc' = "exited"
              /\ UNCHANGED <<templates, blocksFound>>
         ELSE \/ /\ templates < MaxTemplates
                 /\ templates' = templates + 1
                 /\ UNCHANGED <<loopPc, blocksFound>>
              \/ /\ templates < MaxTemplates
                 /\ templates' = templates + 1
                 /\ blocksFound' = blocksFound + 1
                 /\ UNCHANGED loopPc
              \/ /\ loopPc' = "exited"
                 /\ UNCHANGED <<templates, blocksFound>>
    /\ UNCHANGED <<active, loopHandle, minerVars, pc, calls>>

\* GapcoinMiner::MineThread: while (!m_stopRequested) { sieve; find gaps };
\* the thread returns once it sees the flag.
SieveThreadExit(s) ==
    /\ sieve[s] = "run"
    /\ gmStop
    /\ sieve' = [sieve EXCEPT ![s] = "done"]
    /\ UNCHANGED <<active, loopVars, gmMining, gmStop, pc, calls>>

-----------------------------------------------------------------------------

Init ==
    /\ active = FALSE
    /\ loopHandle = "none"
    /\ loopPc = "none"
    /\ templates = 0
    /\ blocksFound = 0
    /\ gmMining = FALSE
    /\ gmStop = FALSE
    /\ sieve = [s \in Sieves |-> "none"]
    /\ pc = [r \in Callers |-> "idle"]
    /\ calls = [r \in Callers |-> 0]

RpcStep(r) ==
    GapcoinStartMining(r) \/ StartMiningLoop(r) \/ GapcoinStopMining(r)
    \/ GapcoinJoinThreads(r) \/ JoinMiningLoop(r)

Next ==
    \/ \E r \in Callers : StartRpc(r) \/ StopRpc(r) \/ RpcStep(r)
    \/ MiningLoop
    \/ \E s \in Sieves : SieveThreadExit(s)

\* A request in progress runs to completion and every started thread keeps
\* running; issuing RPCs is up to the user.
Spec ==
    /\ Init /\ [][Next]_vars
    /\ \A r \in Callers : WF_vars(RpcStep(r))
    /\ WF_vars(MiningLoop)
    /\ \A s \in Sieves : WF_vars(SieveThreadExit(s))

-----------------------------------------------------------------------------
(* Properties.                                                             *)

AllIdle == \A r \in Callers : pc[r] = "idle"

\* Once stopgapcoinmining has returned (and no RPC is in progress), the
\* mining loop thread has been joined and no sieve thread is left.
StopQuiescent ==
    (AllIdle /\ ~active) =>
        /\ loopHandle = "none"
        /\ ~gmMining
        /\ \A s \in Sieves : sieve[s] = "none"

\* While g_mining_active is set (and no RPC is in progress) the
\* GapcoinMiner is mining with all its sieve threads running.
ActiveImpliesSieving ==
    (AllIdle /\ active) => gmMining /\ \A s \in Sieves : sieve[s] = "run"

\* While g_mining_active is set (what getgapcoinmininginfo reports as
\* "mining"), the MiningLoop thread is still building and submitting blocks.
LoopRunsWhileActive == (AllIdle /\ active) => loopPc = "loop"

\* stopgapcoinmining returns: the sieve threads and the mining loop see
\* their flags and end, and every join completes.
StopTerminates == \A r \in Callers : (pc[r] = "gm_stop") ~> (pc[r] = "idle")

\* No pair of RPCs makes the node call std::terminate through the
\* g_mining_thread assignment.
NoTerminate == \A r \in Callers : pc[r] # "terminated"

-----------------------------------------------------------------------------
(* Refinement of the abstract mining session by the GapcoinMiner this     *)
(* driver starts and stops: m_mining opens a session, m_stopRequested     *)
(* inside it marks it stopping, and the workers are its sieve threads.    *)

SessionOf == IF ~gmMining THEN "stopped" ELSE IF gmStop THEN "stopping" ELSE "running"

Session == INSTANCE MiningSession
               WITH NumWorkers <- NumSieves, session <- SessionOf, workers <- sieve

\* GapcoinMiner::StartMining and StopMining, as the RPCs call them,
\* implement a mining session: sieve threads start only when none is
\* left, return only after m_stopRequested, and are all joined before
\* m_mining is cleared; a stop completes.
SessionRefinement == Session!Spec

=============================================================================
