----------------------------- MODULE HashEngine -----------------------------
(***************************************************************************)
(* The RandomX hash engine, node::RandomXMiner (src/unnamed/part_001,      *)
(* randomx_miner.cpp): the shared context (cache, dataset, VMs) built by   *)
(* Initialize and torn down by CleanupInternal, share validation through   *)
(* CalculateHash, and the mining session of StartMining / MineThread /     *)
(* StopMining.                                                             *)
(*                                                                         *)
(* Threads:                                                                *)
(*   - Validators: Stratum client threads in ValidateAndSubmitShare, which *)
(*     call Initialize(genesis, LIGHT) when !IsInitialized() and then      *)
(*     CalculateHash;                                                      *)
(*   - Ctl: the thread that calls StartMining and StopMining;            *)
(*   - Miners: the MineThread workers, identified by their threadId.       *)
(* Memory: every cache and VM belongs to the epoch in which it was made;   *)
(* CleanupInternal frees all of them and starts a new epoch.  A VM is live *)
(* exactly when its tag is the current epoch; tag 0 is a VM built while   *)
(* m_cache was null, and Null is a null pointer.                           *)
(***************************************************************************)
EXTENDS Integers, Sequences, FiniteSets

CONSTANTS
    Validators,   \* Stratum client threads that validate shares
    MaxMiners,    \* numThreads requested by StartMining
    MaxNonces,    \* bound: nonces a mining thread tries (its nonceRange)
    MaxCalls,     \* bound: operations started by the controlling thread
    MaxValidations \* bound: shares each validator validates

ASSUME MaxMiners \in Nat \ {0} /\ MaxNonces \in Nat \ {0}

\* Mining threads are their threadId; the controlling thread and the free
\* lock get negative ids so that all thread ids compare.
Ctl     == -2
Miners  == 0..(MaxMiners - 1)
Threads == Validators \cup {Ctl} \cup Miners
NoOwner == -3
Null    == -1

VARIABLES
    initialized,   \* m_initialized
    cachePresent,  \* m_cache != nullptr
    epoch,         \* generation of the live context (advanced by CleanupInternal)
    validationVm,  \* m_validationVm: Null or the tag of the VM
    vms,           \* m_vms: tags of the mining VMs, in order
    mutex,         \* owner of m_mutex
    vmMutex,       \* owner of m_vmMutex
    mining,        \* m_mining
    stopMining,    \* m_stopMining
    pc,            \* program counter of every thread
    ctlOp,         \* the operation the controlling thread is in
    calls,         \* operations the controlling thread has started
    ptr,           \* validator: the VM pointer randomx_calculate_hash runs on
    result,        \* validator: the hash CalculateHash produced
    myVm,          \* miner: the VM pointer taken from m_vms
    tries,         \* miner: nonces tried in this session
    callbacks,     \* solution callbacks run in the current mining session
    validations    \* validator: shares validated so far

vars == <<initialized, cachePresent, epoch, validationVm, vms, mutex,
          vmMutex, mining, stopMining, pc, ctlOp, calls, ptr, result, myVm,
          tries, callbacks, validations>>

ctxVars   == <<initialized, cachePresent, epoch, validationVm, vms>>
ctlVars   == <<ctlOp, calls>>
valVars   == <<ptr, result, validations>>
minerVars == <<myVm, tries, callbacks>>

Goto(t, l) == pc' = [pc EXCEPT ![t] = l]

\* A VM with this tag has not been destroyed and was built on a live cache.
Live(tag) == tag = epoch

\* The tag of a VM randomx_create_vm builds now from m_cache.
NewVmTag == IF cachePresent THEN epoch ELSE 0

-----------------------------------------------------------------------------
(* Initialize(key, mode), run by a validator or by the controlling thread. *)

\* The key the thread passes to Initialize.

\* Where Initialize returns to: the validator goes on to CalculateHash, or
\* gives the share up when Initialize failed.
AfterInit(ok) == IF ok THEN "ch_lock" ELSE "done"

\* Take m_mutex; if the context is initialized, CleanupInternal destroys
\* every mining VM, the validation VM, the dataset and the cache, and
\* clears m_initialized.  m_vmMutex is not taken.
InitLock(t) ==
    /\ pc[t] = "init_lock"
    /\ mutex = NoOwner
    /\ mutex' = t
    /\ IF initialized
         THEN /\ epoch' = epoch + 1
              /\ vms' = <<>>
              /\ validationVm' = Null
              /\ cachePresent' = FALSE
              /\ initialized' = FALSE
         ELSE UNCHANGED <<epoch, vms, validationVm, cachePresent, initialized>>
    /\ Goto(t, "init_alloc")
    /\ UNCHANGED <<vmMutex, mining, stopMining, ctlVars, valVars, minerVars>>

\* randomx_alloc_cache (retried without JIT) may fail: return false.
\* Otherwise the cache is initialised with the key (saved in m_currentKey), the
\* dataset built in FULL mode (LIGHT when it cannot be allocated) and
\* m_initialized set; m_mutex is released on return.
InitAlloc(t) ==
    /\ pc[t] = "init_alloc"
    /\ mutex' = NoOwner
    /\ \/ /\ Goto(t, AfterInit(FALSE))
          /\ result' = [result EXCEPT ![t] = "fail"]
          /\ UNCHANGED <<cachePresent, initialized>>
       \/ /\ cachePresent' = TRUE
          /\ initialized' = TRUE
          /\ Goto(t, AfterInit(TRUE))
          /\ UNCHANGED result
    /\ UNCHANGED <<epoch, validationVm, vms, vmMutex, mining, stopMining, ctlVars, ptr,
                   validations, minerVars>>

-----------------------------------------------------------------------------
(* A validator: the RandomX part of StratumServer::ValidateAndSubmitShare. *)

\* A new share: if (!miner.IsInitialized()) miner.Initialize(genesis, LIGHT).
\* m_initialized is read without any lock.
ValidatorCheck(v) ==
    /\ pc[v] \in {"idle", "done"}
    /\ validations[v] < MaxValidations
    /\ validations' = [validations EXCEPT ![v] = @ + 1]
    /\ result' = [result EXCEPT ![v] = "none"]
    /\ Goto(v, IF initialized THEN "ch_lock" ELSE "init_lock")
    /\ UNCHANGED <<ctxVars, mutex, vmMutex, mining, stopMining, ctlVars, ptr, minerVars>>

\* CalculateHash: take m_vmMutex; when !m_initialized the output is zeroed
\* and the function returns.
CalculateHashLock(v) ==
    /\ pc[v] = "ch_lock"
    /\ vmMutex = NoOwner
    /\ IF initialized
         THEN /\ vmMutex' = v
              /\ Goto(v, "ch_vm")
              /\ UNCHANGED result
         ELSE /\ result' = [result EXCEPT ![v] = "zero"]
              /\ Goto(v, "done")
              /\ UNCHANGED vmMutex
    /\ UNCHANGED <<ctxVars, mutex, mining, stopMining, ctlVars, ptr, validations, minerVars>>

\* CalculateHash: create the validation VM from m_cache on first use; if
\* randomx_create_vm fails the output is zeroed and the function returns.
CalculateHashVm(v) ==
    /\ pc[v] = "ch_vm"
    /\ \/ /\ validationVm # Null
          /\ Goto(v, "ch_hash")
          /\ UNCHANGED <<validationVm, vmMutex, result>>
       \/ /\ validationVm = Null
          /\ validationVm' = NewVmTag
          /\ Goto(v, "ch_hash")
          /\ UNCHANGED <<vmMutex, result>>
       \/ /\ validationVm = Null
          /\ result' = [result EXCEPT ![v] = "zero"]
          /\ vmMutex' = NoOwner
          /\ Goto(v, "done")
          /\ UNCHANGED validationVm
    /\ UNCHANGED <<initialized, cachePresent, epoch, vms, mutex, mining,
                   stopMining, ctlVars, ptr, validations, minerVars>>

\* randomx_calculate_hash(m_validationVm, ...) starts on the VM the member
\* points to now ...
CalculateHashRun(v) ==
    /\ pc[v] = "ch_hash"
    /\ ptr' = [ptr EXCEPT ![v] = validationVm]
    /\ Goto(v, "ch_end")
    /\ UNCHANGED <<ctxVars, mutex, vmMutex, mining, stopMining, ctlVars, result,
                   validations, minerVars>>

\* ... and completes; the hash is real only if that VM stayed alive
\* throughout.  m_vmMutex is released.
CalculateHashEnd(v) ==
    /\ pc[v] = "ch_end"
    /\ result' = [result EXCEPT ![v] = IF Live(ptr[v]) THEN "real" ELSE "fault"]
    /\ vmMutex' = NoOwner
    /\ Goto(v, "done")
    /\ UNCHANGED <<ctxVars, mutex, mining, stopMining, ctlVars, ptr, validations, minerVars>>

-----------------------------------------------------------------------------
(* The controlling thread: StartMining and StopMining.                    *)

CallStartMining ==
    /\ pc[Ctl] = "idle" /\ calls < MaxCalls
    /\ calls' = calls + 1
    /\ ctlOp' = "start"
    /\ Goto(Ctl, "stop_check")
    /\ UNCHANGED <<ctxVars, mutex, vmMutex, mining, stopMining, valVars, minerVars>>

CallStopMining ==
    /\ pc[Ctl] = "idle" /\ calls < MaxCalls
    /\ calls' = calls + 1
    /\ ctlOp' = "stop"
    /\ Goto(Ctl, "stop_check")
    /\ UNCHANGED <<ctxVars, mutex, vmMutex, mining, stopMining, valVars, minerVars>>

\* What follows StopMining: StartMining goes on, StopMining returns.
AfterStop == IF ctlOp = "start" THEN "start_check" ELSE "idle"

\* Mutation variant of StopMiningCheck: the flags are reset but the mining
\* threads are not joined.
StopMiningNoJoin ==
    /\ pc[Ctl] = "stop_check"
    /\ IF mining THEN /\ stopMining' = TRUE
                      /\ mining' = FALSE
                 ELSE UNCHANGED <<stopMining, mining>>
    /\ Goto(Ctl, AfterStop)
    /\ UNCHANGED <<ctxVars, mutex, vmMutex, ctlVars, valVars, minerVars>>

\* StopMining: if (!m_mining) return; otherwise m_stopMining = true.
StopMiningCheck ==
    /\ pc[Ctl] = "stop_check"
    /\ IF mining THEN /\ stopMining' = TRUE
                      /\ Goto(Ctl, "stop_join")
                 ELSE /\ Goto(Ctl, AfterStop)
                      /\ UNCHANGED stopMining
    /\ UNCHANGED <<ctxVars, mutex, vmMutex, mining, ctlVars, valVars, minerVars>>

\* StopMining: join every mining thread, m_threads.clear(), m_mining = false.
\* (The VMs stay in m_vms for the next session.)
StopMiningJoin ==
    /\ pc[Ctl] = "stop_join"
    /\ \A i \in Miners : pc[i] \in {"none", "done"}
    /\ mining' = FALSE
    /\ pc' = [t \in Threads |-> IF t \in Miners THEN "none"
                                ELSE IF t = Ctl THEN AfterStop ELSE pc[t]]
    /\ UNCHANGED <<ctxVars, mutex, vmMutex, stopMining, ctlVars, valVars, minerVars>>

\* StartMining: if (!m_initialized) return; else clear m_stopMining and
\* set m_mining.
StartMiningCheck ==
    /\ pc[Ctl] = "start_check"
    /\ IF initialized THEN /\ stopMining' = FALSE
                           /\ mining' = TRUE
                           /\ Goto(Ctl, "start_vms")
                      ELSE /\ Goto(Ctl, "idle")
                           /\ UNCHANGED <<stopMining, mining>>
    /\ UNCHANGED <<ctxVars, mutex, vmMutex, ctlVars, valVars, minerVars>>

\* StartMining: under m_vmMutex create VMs from m_cache until m_vms holds
\* numThreads (a failed randomx_create_vm ends the loop), cap numThreads at
\* m_vms.size(); with none, m_mining = false and return; otherwise start
\* threads 0 .. numThreads-1, each with its own nonce range.
NewVms(n) == [j \in 1..n |-> NewVmTag]

\* Mutation variant of StartMiningThreads: the VM loop runs while
\* m_vms.size() <= numThreads.
StartMiningThreadsExtraVm ==
    /\ pc[Ctl] = "start_vms"
    /\ vmMutex = NoOwner
    /\ \E made \in 0..(MaxMiners + 1 - Len(vms)) :
         LET size       == Len(vms) + made
             numThreads == IF size < MaxMiners THEN size ELSE MaxMiners
         IN /\ vms' = vms \o NewVms(made)
            /\ mining' = (numThreads > 0)
            /\ pc' = [t \in Threads |->
                        IF t \in Miners /\ t < numThreads THEN "get_vm"
                        ELSE IF t = Ctl THEN "idle" ELSE pc[t]]
    /\ tries' = [i \in Miners |-> 0]
    /\ callbacks' = 0
    /\ UNCHANGED <<initialized, cachePresent, epoch, validationVm, mutex,
                   vmMutex, stopMining, ctlVars, valVars, myVm>>

StartMiningThreads ==
    /\ pc[Ctl] = "start_vms"
    /\ vmMutex = NoOwner
    /\ \E made \in 0..(MaxMiners - Len(vms)) :
         LET size       == Len(vms) + made
             numThreads == IF size < MaxMiners THEN size ELSE MaxMiners
         IN /\ vms' = vms \o NewVms(made)
            /\ mining' = (numThreads > 0)
            /\ pc' = [t \in Threads |->
                        IF t \in Miners /\ t < numThreads THEN "get_vm"
                        ELSE IF t = Ctl THEN "idle" ELSE pc[t]]
    /\ tries' = [i \in Miners |-> 0]
    /\ callbacks' = 0
    /\ UNCHANGED <<initialized, cachePresent, epoch, validationVm, mutex,
                   vmMutex, stopMining, ctlVars, valVars, myVm>>

-----------------------------------------------------------------------------
(* A mining thread: MineThread(threadId, ...).                            *)

\* Take m_vms[threadId] under m_vmMutex; without one the thread returns.
MineGetVm(i) ==
    /\ pc[i] = "get_vm"
    /\ vmMutex = NoOwner
    /\ IF i < Len(vms) THEN /\ myVm' = [myVm EXCEPT ![i] = vms[i + 1]]
                            /\ Goto(i, "loop")
                       ELSE /\ Goto(i, "done")
                            /\ UNCHANGED myVm
    /\ UNCHANGED <<ctxVars, mutex, vmMutex, mining, stopMining, ctlVars, valVars,
                   tries, callbacks>>

\* while (!m_stopMining && nonce < startNonce + nonceRange)
MineLoop(i) ==
    /\ pc[i] = "loop"
    /\ Goto(i, IF ~stopMining /\ tries[i] < MaxNonces THEN "hash" ELSE "done")
    /\ UNCHANGED <<ctxVars, mutex, vmMutex, mining, stopMining, ctlVars, valVars, minerVars>>

\* Hash the header with this nonce on the thread's VM.  A hash meeting the
\* target sets m_stopMining and goes on to the callback; otherwise nonce++.
MineHash(i) ==
    /\ pc[i] = "hash"
    /\ tries' = [tries EXCEPT ![i] = @ + 1]
    /\ \/ /\ Goto(i, "loop")
          /\ UNCHANGED stopMining
       \/ /\ stopMining' = TRUE
          /\ Goto(i, "callback")
    /\ UNCHANGED <<ctxVars, mutex, vmMutex, mining, ctlVars, valVars, myVm, callbacks>>

\* callback(block); break; the thread adds its remaining hash count and returns.
MineCallback(i) ==
    /\ pc[i] = "callback"
    /\ callbacks' = callbacks + 1
    /\ Goto(i, "done")
    /\ UNCHANGED <<ctxVars, mutex, vmMutex, mining, stopMining, ctlVars, valVars,
                   myVm, tries>>

-----------------------------------------------------------------------------
(* The engine.                                                             *)

Init ==
    /\ initialized = FALSE
    /\ cachePresent = FALSE
    /\ epoch = 1
    /\ validationVm = Null
    /\ vms = <<>>
    /\ mutex = NoOwner
    /\ vmMutex = NoOwner
    /\ mining = FALSE
    /\ stopMining = FALSE
    /\ pc = [t \in Threads |-> IF t \in Miners THEN "none" ELSE "idle"]
    /\ ctlOp = "stop"
    /\ calls = 0
    /\ ptr = [v \in Validators |-> Null]
    /\ result = [v \in Validators |-> "none"]
    /\ validations = [v \in Validators |-> 0]
    /\ myVm = [i \in Miners |-> Null]
    /\ tries = [i \in Miners |-> 0]
    /\ callbacks = 0

Next ==
    \/ \E t \in Validators : InitLock(t) \/ InitAlloc(t)
    \/ \E v \in Validators :
         \/ ValidatorCheck(v) \/ CalculateHashLock(v) \/ CalculateHashVm(v)
         \/ CalculateHashRun(v) \/ CalculateHashEnd(v)
    \/ CallStartMining \/ CallStopMining
    \/ StopMiningCheck \/ StopMiningJoin \/ StartMiningCheck \/ StartMiningThreads
    \/ \E i \in Miners : MineGetVm(i) \/ MineLoop(i) \/ MineHash(i) \/ MineCallback(i)

Spec == Init /\ [][Next]_vars

-----------------------------------------------------------------------------
(* Properties.                                                             *)

Tags == {Null} \cup 0..(MaxCalls + Cardinality(Validators) * MaxValidations + 1)

TypeOK ==
    /\ initialized \in BOOLEAN /\ cachePresent \in BOOLEAN
    /\ validationVm \in Tags
    /\ vms \in Seq(Tags) /\ Len(vms) <= MaxMiners
    /\ mutex \in Threads \cup {NoOwner} /\ vmMutex \in Threads \cup {NoOwner}
    /\ mining \in BOOLEAN /\ stopMining \in BOOLEAN
    /\ ctlOp \in {"start", "stop"} /\ calls \in 0..MaxCalls
    /\ ptr \in [Validators -> Tags] /\ myVm \in [Miners -> Tags]
    /\ result \in [Validators -> {"none", "real", "zero", "fault", "fail"}]
    /\ tries \in [Miners -> 0..MaxNonces] /\ callbacks \in Nat

\* No thread hashes on a freed VM: a mining thread's VM (taken from m_vms)
\* and the validation VM a CalculateHash runs on are alive for the whole
\* computation.  CleanupInternal, run by Initialize under m_mutex only, is
\* what could free them under a thread holding m_vmMutex or a VM pointer.
NoUseAfterFree ==
    /\ \A v \in Validators : pc[v] = "ch_end" => Live(ptr[v])
    /\ \A i \in Miners : pc[i] = "hash" => Live(myVm[i])

\* The hash ValidateAndSubmitShare compares with the target is a real
\* RandomX hash, never the zeroed output CalculateHash produces when it is
\* not initialized or cannot create its VM (a zero hash meets every target).
ValidationHashIsReal == \A v \in Validators : result[v] # "zero"

\* After StopMining (or a StartMining that did not start) has returned and
\* m_mining is false, no mining thread of any session is still running.
StopJoinsMiners ==
    (pc[Ctl] = "idle" /\ ~mining) => \A i \in Miners : pc[i] = "none"

\* The spec: on a hit the stop flag is set and on_solution is invoked
\* exactly once per mining session (MineThread's check of m_stopMining).
CallbackAtMostOnce == callbacks <= 1

=============================================================================
