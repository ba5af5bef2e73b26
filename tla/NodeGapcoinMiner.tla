-------------------------- MODULE NodeGapcoinMiner --------------------------
(***************************************************************************)
(* node::GapcoinMiner (src/src/node/gapcoin_miner.cpp) as driven by the    *)
(* RPCs startgapcoinmining and stopgapcoinmining of                        *)
(* src/src/rpc/gapcoin_mining.cpp.  Here StartMining stops a running      *)
(* session first instead of refusing, and no lock serialises the RPC      *)
(* worker threads (Callers) around m_mining and the m_threads vector.     *)
(*                                                                         *)
(* m_threads is a sequence of std::thread objects: "run" (joinable, still  *)
(* in MineThread), "done" (joinable, returned) or "joined".  Destroying a  *)
(* joinable std::thread, which m_threads.clear() does, calls               *)
(* std::terminate; a caller doing so moves to "terminated".  The sieve and *)
(* gap search are abstracted (GapSearch models them): a mining thread is   *)
(* observed when it reports a solution and when it sees m_stopRequested   *)
(* and returns.  m_nShift is a plain uint32_t that SetShift writes and the *)
(* mining threads read; a thread reads it when it computes its base prime *)
(* and again when it fills a result's nShift.  Of m_stats, bestMerit is *)
(* kept: StartMining resets it and each verified gap raises it with a    *)
(* compare_exchange_weak loop that other threads may interleave with.    *)
(***************************************************************************)
EXTENDS Integers, Sequences

CONSTANTS
    Callers,      \* RPC worker threads
    NumThreads,   \* m_nThreads
    MaxCalls,     \* bound: RPCs each caller makes
    ShiftArgs,    \* shift parameters an RPC may pass (25 when it is omitted)
    Merits        \* merits VerifyGap may compute for a gap a thread finds

\* GAPCOIN_SHIFT_MIN and GAPCOIN_SHIFT_MAX.
ShiftMin == 14
ShiftMax == 65536

\* targetMerit = GAPCOIN_INITIAL_DIFFICULTY, the target startgapcoinmining
\* passes to StartMining.
TargetMerit == 20

\* A thread that is not inside the bestMerit update loop.
NoCas == -1

VARIABLES
    created,      \* g_gapcoin_miner != nullptr
    mining,       \* m_mining
    stopReq,      \* m_stopRequested
    threads,      \* m_threads
    pc,           \* RPC caller program counters
    op,           \* the RPC a caller is serving: "start" or "stop"
    idx,          \* position of StopMining's range-for over m_threads
    calls,        \* RPCs made per caller
    shift,        \* m_nShift
    baseShift,    \* per element of m_threads: the m_nShift its base prime was computed with
    reported,     \* history: <<base shift, nShift>> of every result handed to the callback
    bestMerit,    \* m_stats.bestMerit
    expected,     \* per element of m_threads: currentBest of its update loop, NoCas outside it
    gapMerit,     \* per element of m_threads: the merit of the gap it is recording
    updated       \* history: merits whose update loop completed in this session

vars == <<created, mining, stopReq, threads, pc, op, idx, calls, shift, baseShift, reported,
          bestMerit, expected, gapMerit, updated>>

shiftVars == <<shift, baseShift, reported>>
statVars  == <<bestMerit, expected, gapMerit, updated>>

Goto(r, l) == pc' = [pc EXCEPT ![r] = l]

\* Where StopMining returns to: StartMining's body, or the end of the RPC.
ReturnFromStop(r) == Goto(r, IF op[r] = "start" THEN "start_set" ELSE "idle")

Joinable(s) == \E i \in 1..Len(s) : s[i] # "joined"

\* m_threads.clear(): fine when no element is joinable, std::terminate
\* otherwise.
ClearThreads(r, next) ==
    IF Joinable(threads)
      THEN /\ Goto(r, "terminated")
           /\ UNCHANGED <<threads, baseShift, expected, gapMerit>>
      ELSE /\ threads' = <<>>
           /\ baseShift' = <<>>
           /\ expected' = <<>>
           /\ gapMerit' = <<>>
           /\ Goto(r, next)

-----------------------------------------------------------------------------
(* startgapcoinmining and GapcoinMiner::StartMining                        *)

\* The RPC refuses a shift outside [GAPCOIN_SHIFT_MIN, GAPCOIN_SHIFT_MAX],
\* creates g_gapcoin_miner if there is none, calls SetShift(nShift) (the
\* threads of a running session still read m_nShift), and calls
\* StartMining, whose first step reads m_mining.
StartRpc(r) ==
    /\ pc[r] = "idle" /\ calls[r] < MaxCalls
    /\ calls' = [calls EXCEPT ![r] = @ + 1]
    /\ \E s \in ShiftArgs :
         IF s \in ShiftMin..ShiftMax
           THEN /\ created' = TRUE
                /\ shift' = s
                /\ op' = [op EXCEPT ![r] = "start"]
                /\ Goto(r, "start_check")
           ELSE UNCHANGED <<created, shift, op, pc>>
    /\ UNCHANGED <<mining, stopReq, threads, idx, baseShift, reported, statVars>>

\* if (m_mining.load()) StopMining();
StartCheck(r) ==
    /\ pc[r] = "start_check"
    /\ Goto(r, IF mining THEN "stop_check" ELSE "start_set")
    /\ UNCHANGED <<created, mining, stopReq, threads, op, idx, calls, shiftVars, statVars>>

\* GapcoinMiningStatsAtomic::Reset(): of the counters only bestMerit is kept;
\* the merits recorded so far belong to the session before.
ResetStats == bestMerit' = 0 /\ updated' = {}

\* Mutation variant: StartMining that leaves m_stopRequested as it was.
StartSetKeepsStop(r) ==
    /\ pc[r] = "start_set"
    /\ mining' = TRUE
    /\ ResetStats
    /\ Goto(r, "start_clear")
    /\ UNCHANGED <<created, stopReq, threads, op, idx, calls, shiftVars, expected, gapMerit>>

\* m_stopRequested = false; m_stats.Reset(); m_mining = true;
StartSet(r) ==
    /\ pc[r] = "start_set"
    /\ stopReq' = FALSE
    /\ ResetStats
    /\ mining' = TRUE
    /\ Goto(r, "start_clear")
    /\ UNCHANGED <<created, threads, op, idx, calls, shiftVars, expected, gapMerit>>

\* m_threads.clear();
StartClear(r) ==
    /\ pc[r] = "start_clear"
    /\ ClearThreads(r, "start_spawn")
    /\ UNCHANGED <<created, mining, stopReq, op, idx, calls, shift, reported, bestMerit, updated>>

\* for (i < m_nThreads) m_threads.emplace_back(&MineThread, this, i);
\* return true.  Each new thread computes its base prime from m_nShift
\* (read here, as the thread starts).
StartSpawn(r) ==
    /\ pc[r] = "start_spawn"
    /\ threads' = threads \o [i \in 1..NumThreads |-> "run"]
    /\ baseShift' = baseShift \o [i \in 1..NumThreads |-> shift]
    /\ expected' = expected \o [i \in 1..NumThreads |-> NoCas]
    /\ gapMerit' = gapMerit \o [i \in 1..NumThreads |-> 0]
    /\ Goto(r, "idle")
    /\ UNCHANGED <<created, mining, stopReq, op, idx, calls, shift, reported, bestMerit, updated>>

-----------------------------------------------------------------------------
(* stopgapcoinmining and GapcoinMiner::StopMining                          *)

\* if (!g_gapcoin_miner) return false; g_gapcoin_miner->StopMining();
StopRpc(r) ==
    /\ pc[r] = "idle" /\ calls[r] < MaxCalls
    /\ calls' = [calls EXCEPT ![r] = @ + 1]
    /\ IF created
         THEN /\ op' = [op EXCEPT ![r] = "stop"]
              /\ Goto(r, "stop_check")
         ELSE UNCHANGED <<op, pc>>
    /\ UNCHANGED <<created, mining, stopReq, threads, idx, shiftVars, statVars>>

\* Mutation variant: StopMining that does not set m_stopRequested.
StopCheckNoFlag(r) ==
    /\ pc[r] = "stop_check"
    /\ IF mining
         THEN /\ idx' = [idx EXCEPT ![r] = 1]
              /\ Goto(r, "stop_join")
         ELSE /\ ReturnFromStop(r)
              /\ UNCHANGED idx
    /\ UNCHANGED <<created, mining, stopReq, threads, op, calls, shiftVars, statVars>>

\* if (!m_mining.load()) return; m_stopRequested = true;
StopCheck(r) ==
    /\ pc[r] = "stop_check"
    /\ IF mining
         THEN /\ stopReq' = TRUE
              /\ idx' = [idx EXCEPT ![r] = 1]
              /\ Goto(r, "stop_join")
         ELSE /\ ReturnFromStop(r)
              /\ UNCHANGED <<stopReq, idx>>
    /\ UNCHANGED <<created, mining, threads, op, calls, shiftVars, statVars>>

\* Mutation variant: the join loop stops one element early.
StopJoinSkipsLast(r) ==
    /\ pc[r] = "stop_join"
    /\ LET i == idx[r] IN
         IF i >= Len(threads)
           THEN /\ Goto(r, "stop_clear")
                /\ UNCHANGED <<threads, idx>>
           ELSE /\ threads[i] # "run"
                /\ threads' = [threads EXCEPT ![i] = "joined"]
                /\ idx' = [idx EXCEPT ![r] = i + 1]
                /\ UNCHANGED pc
    /\ UNCHANGED <<created, mining, stopReq, op, calls, shiftVars, statVars>>

\* for (auto& thread : m_threads) if (thread.joinable()) thread.join();
\* One element per step; join blocks until the thread has returned.
StopJoin(r) ==
    /\ pc[r] = "stop_join"
    /\ LET i == idx[r] IN
         IF i > Len(threads)
           THEN /\ Goto(r, "stop_clear")
                /\ UNCHANGED <<threads, idx>>
           ELSE /\ threads[i] # "run"
                /\ threads' = [threads EXCEPT ![i] = "joined"]
                /\ idx' = [idx EXCEPT ![r] = i + 1]
                /\ UNCHANGED pc
    /\ UNCHANGED <<created, mining, stopReq, op, calls, shiftVars, statVars>>

\* Mutation variant: StopMining that leaves m_mining set.
StopDoneKeepsMining(r) ==
    /\ pc[r] = "stop_done"
    /\ ReturnFromStop(r)
    /\ UNCHANGED <<created, mining, stopReq, threads, op, idx, calls, shiftVars, statVars>>

\* m_threads.clear(); m_mining = false;
StopClear(r) ==
    /\ pc[r] = "stop_clear"
    /\ ClearThreads(r, "stop_done")
    /\ UNCHANGED <<created, mining, stopReq, op, idx, calls, shift, reported, bestMerit, updated>>

StopDone(r) ==
    /\ pc[r] = "stop_done"
    /\ mining' = FALSE
    /\ ReturnFromStop(r)
    /\ UNCHANGED <<created, stopReq, threads, op, idx, calls, shiftVars, statVars>>

-----------------------------------------------------------------------------
(* enablegpumining and GapcoinMiner::EnableGpu                             *)

\* A backend other than "opencl" or "cuda" is refused; otherwise the RPC
\* creates g_gapcoin_miner if there is none and calls EnableGpu, which only
\* records the backend and device (no property reads them) and returns
\* false.
EnableGpuRpc(r) ==
    /\ pc[r] = "idle" /\ calls[r] < MaxCalls
    /\ calls' = [calls EXCEPT ![r] = @ + 1]
    /\ \E backend \in {"opencl", "cuda", "other"} :
         created' = (created \/ backend # "other")
    /\ UNCHANGED <<mining, stopReq, threads, pc, op, idx, shiftVars, statVars>>

-----------------------------------------------------------------------------
(* GapcoinMiner::MineThread                                                *)

\* while (!m_stopRequested.load()) { ... }: the thread returns once it sees
\* the flag.  The flag is read between gaps, never inside the update of
\* bestMerit.
MineThreadExit(i) ==
    /\ threads[i] = "run"
    /\ expected[i] = NoCas
    /\ stopReq
    /\ threads' = [threads EXCEPT ![i] = "done"]
    /\ UNCHANGED <<created, mining, stopReq, pc, op, idx, calls, shiftVars, statVars>>

\* VerifyGap accepts a gap of merit m: m_stats.gapsFound++ (not kept), then
\* double currentBest = m_stats.bestMerit.load();  The byte loop reads
\* m_stopRequested before every byte; a gap closing later in the byte in
\* which the flag is set is left out, so a stop is seen at the next gap.
GapFound(i) ==
    /\ threads[i] = "run"
    /\ expected[i] = NoCas
    /\ ~stopReq
    /\ \E m \in Merits :
         /\ gapMerit' = [gapMerit EXCEPT ![i] = m]
         /\ expected' = [expected EXCEPT ![i] = bestMerit]
    /\ UNCHANGED <<created, mining, stopReq, threads, pc, op, idx, calls, shiftVars,
                   bestMerit, updated>>

\* The end of a gap's handling: if merit >= m_targetMerit, a result whose
\* nShift is read from m_nShift now goes to m_solutionCallback.
Finish(i) ==
    /\ expected' = [expected EXCEPT ![i] = NoCas]
    /\ updated' = updated \cup {gapMerit[i]}
    /\ reported' = IF gapMerit[i] >= TargetMerit
                     THEN reported \cup {<<baseShift[i], shift>>}
                     ELSE reported

\* Mutation variant: if (merit > currentBest) m_stats.bestMerit = merit;
CasStepPlainStore(i) ==
    /\ expected[i] # NoCas
    /\ bestMerit' = IF gapMerit[i] > expected[i] THEN gapMerit[i] ELSE bestMerit
    /\ Finish(i)
    /\ UNCHANGED <<created, mining, stopReq, threads, pc, op, idx, calls, shift, baseShift,
                   gapMerit>>

\* while (merit > currentBest &&
\*        !m_stats.bestMerit.compare_exchange_weak(currentBest, merit)) {}
\* A failed exchange reloads currentBest from bestMerit and loops; a
\* spurious failure reloads the same value and is a stuttering step.
CasStep(i) ==
    /\ expected[i] # NoCas
    /\ LET m == gapMerit[i]
           e == expected[i]
       IN IF m > e /\ bestMerit # e
            THEN /\ expected' = [expected EXCEPT ![i] = bestMerit]
                 /\ UNCHANGED <<bestMerit, updated, reported>>
            ELSE /\ bestMerit' = IF m > e THEN m ELSE bestMerit
                 /\ Finish(i)
    /\ UNCHANGED <<created, mining, stopReq, threads, pc, op, idx, calls, shift, baseShift,
                   gapMerit>>

-----------------------------------------------------------------------------

Init ==
    /\ created = FALSE
    /\ mining = FALSE
    /\ stopReq = FALSE
    /\ threads = <<>>
    /\ pc = [r \in Callers |-> "idle"]
    /\ op = [r \in Callers |-> "stop"]
    /\ idx = [r \in Callers |-> 1]
    /\ calls = [r \in Callers |-> 0]
    /\ shift = 25
    /\ baseShift = <<>>
    /\ reported = {}
    /\ bestMerit = 0
    /\ expected = <<>>
    /\ gapMerit = <<>>
    /\ updated = {}

RpcStep(r) ==
    \/ StartCheck(r) \/ StartSet(r) \/ StartClear(r) \/ StartSpawn(r)
    \/ StopCheck(r) \/ StopJoin(r) \/ StopClear(r) \/ StopDone(r)

Next ==
    \/ \E r \in Callers : StartRpc(r) \/ StopRpc(r) \/ EnableGpuRpc(r) \/ RpcStep(r)
    \/ \E i \in 1..Len(threads) : MineThreadExit(i) \/ GapFound(i) \/ CasStep(i)

\* A request in progress runs to completion and a mining thread keeps
\* running; issuing RPCs is up to the user.
Spec ==
    /\ Init /\ [][Next]_vars
    /\ \A r \in Callers : WF_vars(RpcStep(r))
    /\ WF_vars(\E i \in 1..Len(threads) : MineThreadExit(i) \/ CasStep(i))

-----------------------------------------------------------------------------
(* Properties.                                                             *)

AllIdle == \A r \in Callers : pc[r] = "idle"

\* No sequence of RPCs makes m_threads.clear() destroy a joinable
\* std::thread (which calls std::terminate and takes the node down).
NoTerminate == \A r \in Callers : pc[r] # "terminated"

\* Between RPCs, m_mining (what IsMining() and the destructor's StopMining
\* rely on) says exactly whether m_threads holds threads to join, and a
\* running session has every thread mining with the stop flag clear.
MiningMatchesThreads ==
    AllIdle =>
        /\ mining <=> Joinable(threads)
        /\ mining => ~stopReq /\ \A i \in 1..Len(threads) : threads[i] = "run"

\* StopMining, once past its check, returns: every thread sees
\* m_stopRequested and every join completes.
StopTerminates ==
    \A r \in Callers :
        (pc[r] = "stop_join") ~> (pc[r] \in {"idle", "start_set", "terminated"})

\* Every result a mining thread reports carries the shift its prime was
\* computed with (p = sha256(header) * 2^nShift + adder): startgapcoinmining
\* may restart a session with another shift, and its SetShift must not
\* reach the threads of the session it is about to stop.
ReportedShiftMatches == \A res \in reported : res[1] = res[2]

\* When a thread has finished recording a gap, m_stats.bestMerit (what
\* getgapcoinmininginfo reports as best_merit) is at least that gap's merit,
\* however the threads' load / compare_exchange_weak steps interleave;
\* StartMining's m_stats.Reset() opens a new session.
BestMeritIsMax == \A m \in updated : bestMerit >= m

-----------------------------------------------------------------------------
(* Refinement of the abstract mining session.  m_mining opens a session,   *)
(* m_stopRequested inside it marks it stopping; a worker is the element of *)
(* m_threads at its index until that element is joined.                   *)

SessionOf == IF ~mining THEN "stopped" ELSE IF stopReq THEN "stopping" ELSE "running"

WorkersOf ==
    [i \in 1..NumThreads |->
        IF i <= Len(threads) /\ threads[i] # "joined" THEN threads[i] ELSE "none"]

Session == INSTANCE MiningSession
               WITH NumWorkers <- NumThreads, session <- SessionOf, workers <- WorkersOf

\* StartMining and StopMining, called one RPC at a time, implement a mining
\* session: a start never finds threads of the last session, mining
\* threads return only once m_stopRequested is set, m_mining is cleared only
\* after every thread was joined, and a stop completes.
SessionRefinement == Session!Spec

=============================================================================
