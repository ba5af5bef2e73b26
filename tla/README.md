# TLA+ models of the WATTx mining subsystems

This directory holds TLA+ models of the concurrent parts of the WATTx mining
code, and the TLC configurations that check them. Each module is written from
the C++ source it names. `PROJECT.json` gives the source lines behind every
definition (`map`), the checked runs, the mutation tests, the findings and the
hazards.

## 1. The system

| Part | Source | What runs concurrently |
|---|---|---|
| Stratum server | `src/src/stratum/stratum_server.cpp` | The caller of `Start`/`Stop` (GUI or RPC); the accept thread; the job thread; one thread per client. Shared state: `m_clients` under `m_clients_mutex`, `m_jobs`/`m_current_job` under `m_jobs_mutex`, atomic counters, and the `m_job_cv` condition variable. |
| RandomX engine `RandomXMiner` | `src/unnamed/part_001` | A process-wide singleton. Stratum client threads validate shares through it (`Initialize` when `!IsInitialized()`, then `CalculateHash`). A controlling thread runs `StartMining`/`StopMining`; the mining threads run `MineThread`. Locks: `m_mutex` (Initialize/Cleanup) and `m_vmMutex` (VMs). |
| Gapcoin RPC driver | `src/unnamed/part_002` | RPC worker threads run `startgapcoinmining`/`stopgapcoinmining` against the globals `g_mining_active` and `g_mining_thread`; the `MiningLoop` thread; the `GapcoinMiner` of `src/unnamed/part_000` with its sieve threads. |
| `node::GapcoinMiner` with its RPCs | `src/src/node/gapcoin_miner.cpp`, `src/src/rpc/gapcoin_mining.cpp` | A second version of the Gapcoin miner. Its `StartMining` stops a running session first, and the RPCs have no "already active" check. RPC worker threads share `m_mining` and the `m_threads` vector. |
| Gapcoin PoW, difficulty | `src/unnamed/part_004`, `src/src/consensus/gapcoin_pow.h` | Nothing: `CheckGapcoinProof` is arithmetic that judges what a miner reports. |
| Mining page and stratum RPCs | `src/src/qt/miningpage.h` | The Qt page runs on the GUI thread only. The file also holds the `startstratum`, `stopstratum` and `getstratuminfo` RPCs, which RPC worker threads run against the Stratum server. |

**How the parts interact.** The Stratum server's client threads call into the
RandomX engine. `ValidateAndSubmitShare` initialises the engine when it finds it
uninitialised, hashes the block header, then compares the hash with the target
and submits. A block accepted by the node wakes the job thread through
`NotifyNewBlock`. The two Gapcoin drivers each own their own `GapcoinMiner`.
A solution a Gapcoin mining thread finds is meant to become a block header
(`nShift`, `nAdder`, `nGapSize`) that `CheckGapcoinProof` accepts.

## 2. Modules

Every module keeps the control flow of the code:
- every lock section, check and early return;
- the order in which they happen;
- one program counter per thread.

The data is abstracted: jobs are their ids, requests are small records, hashes
are "meets the target or not", and the memory of a VM is an epoch tag.

### StratumServer (+ MC_StratumServer)

**Variables:**
- `running`, `listenOpen`;
- per client: `conn`, `subscribed`, `authorized`, share counters;
- the job history `jobs`, `currentJob` and `jobCounter`;
- the server totals;
- the owners of both mutexes;
- the thread handles (`thread`) and every thread's `pc`.

**Actions:**
- The `startstratum` RPC is `StartStratum` (its unlocked `IsRunning()` check), then Start's `StartCheck` and `StartLaunch`.
- The `stopstratum` RPC calls Stop: `StopCheck`, `StopSet`, `StopJoinAccept`, `StopJoinJob`, `StopJoinClients` and `StopClear`.
- The accept thread is `AcceptLoop`, `AcceptCall`, `AcceptConnection` and `AcceptFails`.
- The job thread is `JobLoop`, `CreateJobFails`/`CreateNewJob`, `StoreJob` (store and trim under the jobs lock) and `BroadcastJob`, then the `wait_for` as `JobWaitCheck`, `JobBlock` and `JobTimeout`.
- A client thread is `ClientTop`, `ClientRecv` and `Dispatch`, then one action per lock section of each handler: subscribe, authorize, login/getjob and submit, which splits into `ValidateLookup`, `ValidateShare` and `CountShare`. It ends with `SendToClient` and `DisconnectClient`.

**How the code's behaviour is modelled:**
- **Lost wakeup.** `Stop` sets `m_running` without `m_job_cv_mutex`, so the job thread's wait is three steps: test the predicate, block, wait. `notify_all` (`Wake`) only wakes a thread that is already blocked.
- **Linux accept.** The constant `CloseWakesAccept` says whether `close()` wakes a blocked `accept()`. It does on Windows and does not on Linux.
- **Relocking.** `SendToClient` locks `m_clients_mutex`. When `BroadcastJob` already holds it, the job thread enters `"relock"` and stays there.
- **Job eviction.** The `m_jobs.begin()` eviction may remove any job, the new one included (`EvictionChoices`). The declaration of `m_jobs` is not under `src/`, and `spec.md` describes the map as ordered by the hash of `job_id`, so this definition is marked `spec_modelled`.

### HashEngine (+ MC_HashEngine)

**Variables:**
- `initialized`, `cachePresent`, `validationVm` and `vms`;
- `epoch`: each `CleanupInternal` frees every cache and VM and starts a new epoch. A VM pointer is live exactly when its tag is the current epoch; tag 0 means "built on a null cache".
- both mutexes, `mining` and `stopMining`;
- the validators' pointers and results;
- the miners' VMs, nonce counts and callbacks.

**Actions:**
- `Initialize` is `InitLock` (take `m_mutex`, clean up) and `InitAlloc` (the allocation may fail).
- The validator runs `ValidatorCheck` (the unlocked `IsInitialized`), then `CalculateHashLock`, `CalculateHashVm`, `CalculateHashRun` and `CalculateHashEnd`.
- The controller runs `StartMining` (which calls `StopMining` first) and `StopMining`.
- A miner runs `MineGetVm`, `MineLoop`, `MineHash` and `MineCallback`.

`ReinitializeIfNeeded`, `StartMining` and `StopMining` have no caller in this
repository. The controller stands for any caller of the last two.
`ReinitializeIfNeeded` is left out.

### NonceSpace (+ MC_NonceSpace)

The nonce split of `RandomXMiner::StartMining`: `nonceRange = UINT32_MAX / n`,
`startNonce = i * nonceRange`. `MineThread` walks its range with the loop bound
`nonce < startNonce + nonceRange`. The threads' `nonce++` steps interleave.
Arithmetic is unsigned, modulo `2^Width`.

### MinerDriver (+ MC_MinerDriver)

**RPCs:**
- `StartRpc`: the `g_mining_active` check and the shift check.
- `GapcoinStartMining`: `StartMining` of `part_000`, which returns false if the miner is already mining.
- `StartMiningLoop`: `g_mining_active = true`, then the move-assignment to `g_mining_thread`. Assigning to a joinable handle is `std::terminate`.
- `StopRpc`: the check and `g_mining_active = false`.
- `GapcoinStopMining` and `GapcoinJoinThreads`.
- `JoinMiningLoop`.

**Threads:**
- The `MiningLoop` thread does one step per block template: no template, a template with no solution, an accepted new block, or an exception that ends the loop.
- Each sieve thread exits once it sees `m_stopRequested` (`SieveThreadExit`).

### NodeGapcoinMiner (+ MC_NodeGapcoinMiner)

**`m_threads`** is a sequence of `"run"`, `"done"` and `"joined"` elements.
`m_threads.clear()` on a joinable element is `std::terminate`.

**Start path:** `StartRpc`, then `StartCheck`. When the miner is already mining,
this calls `StopMining` and returns to `StartSet`. `StartSet` is followed by
`StartClear` and `StartSpawn`.

**Stop path:** `StopRpc`, then `StopCheck`, then `StopJoin` (one element per
step), `StopClear` and `StopDone`.

**Mining threads:** a mining thread exits once it sees `m_stopRequested` (`MineThreadExit`).
While the flag is clear, it may verify a gap of any merit in `Merits` (`GapFound`).
The code reads the flag before each byte, so a gap that closes later in the byte
where the flag was set is still verified. The model leaves out that last gap.
It keeps every mining thread's stop within a bounded number of steps, and no
property depends on it.
It then raises `m_stats.bestMerit` (`bestMerit`). The raise is a load of
`currentBest`, followed by a `compare_exchange_weak` loop (`CasStep`), and other
threads may run between its steps. When the loop ends (`Finish`), a merit of at
least `targetMerit` (`TargetMerit`, `GAPCOIN_INITIAL_DIFFICULTY` = 20) is
reported to the solution callback. A thread is never inside the loop when it
checks the stop flag.

**Statistics:** `StartSet` includes `m_stats.Reset()` (`ResetStats`). Of the
counters, only `bestMerit` is kept, because no property reads the others.
`updated` is a history variable: the merits whose update loop has completed in
the current session.

**Shift:** `StartRpc` refuses a shift outside `[GAPCOIN_SHIFT_MIN,
GAPCOIN_SHIFT_MAX]` (`ShiftMin`, `ShiftMax`). Otherwise it calls `SetShift`,
which writes `shift` (`m_nShift`). Each thread records the shift it read when
it started (`baseShift`). A result's `nShift` is read when the result is built,
so `reported` records both values.

**`enablegpumining`** (`EnableGpuRpc`) creates `g_gapcoin_miner` when there is
none. The backend it stores is read by nothing.

### MiningSession (abstract) and the two refinements

`MiningSession` states what a Gapcoin miner promises about a session,
whichever driver runs it. A session is `stopped`, `running` or `stopping`; each
of its `NumWorkers` workers is `none`, `run` or `done`. Its actions are:
- `Begin`: only with no worker left; the workers start with it or later (`Launch`);
- `RequestStop`;
- `Exit(i)`: a worker returns, only after a stop was requested;
- `Join(i)`;
- `End`: only once no worker runs, leaving no thread object.
A stop in progress finishes (weak fairness on `Exit` and `End`).

Both drivers are checked to implement it, as the property `SessionRefinement ==
Session!Spec` with `Session == INSTANCE MiningSession WITH ...`:
- **NodeGapcoinMiner:** `session` is `stopped` when `!m_mining`, `stopping` when `m_stopRequested` is also set, `running` otherwise. Worker `i` is `m_threads[i]` until that element is joined.
- **MinerDriver:** the same mapping over its `GapcoinMiner` (`gmMining`, `gmStop`), with the sieve threads as workers. Its `StopMining` joins every thread and clears `m_mining` in one step: the abstract `End`.

The refinement holds for one RPC caller. With two callers, the races of the
findings break it.

### GapSearch (+ MC_GapSearch)

One mining thread of `node::GapcoinMiner`, with exact arithmetic on small
numbers. The header hash is the constant `HashValue`. The probabilistic
primality tests are exact.
- `Init`: the constructor's `InitializeSieve` (`GenerateSmallPrimes` as the Sieve of Eratosthenes `CrossOff`, the limit `min(sqrt(size*8)+1000, primes*20)`, then truncation), and the thread's first `startAdder`.
- `SieveStep`: the top of the `while` loop, with `SieveSegment`.
- `ScanStep`: one bit of the byte/bit loops. A set bit whose candidate `basePrime + adder + offset` is prime closes the open gap. `RecordGap` passes it to `VerifyGap` (ends prime; interior sampled every `max(1, gap/100)`), counts it, raises the best, and reports a result when the merit reaches the target.
- `NextSegment`: `startAdder += m_nSieveSize * 8`, and the restart at `threadId * rangePerThread + rng() % rangePerThread` past the thread's range. `rng()` is a small set of draws.

Merit is `gapSize / ln(p)`. At the model's magnitude, "merit ≥ target" is the
threshold `TargetGap` on the gap size. `CheckGapcoinProof`, from `part_004`,
with `CalculatePrimeCandidate` and `VerifyGapComposites`, judges each result.
`MC_GapSearch` also makes two assumptions, which TLC evaluates before each run:
- `GenerateSmallPrimes` agrees with trial division for every limit up to 150;
- `GenerateWheelPattern(WHEEL_MODULUS)` has `WHEEL_SIZE` (48) entries.

`m_nThreads` is computed as in the constructor: `hardware_concurrency()` when
the argument is 0, and 1 when that is 0 too.

## 3. Runs

`CHECK_DEADLOCK FALSE` is set everywhere because each run bounds the calls its
callers make. When the bounds are used up, the system idles, which is correct.

| Run | Checks | Bounds | Result |
|---|---|---|---|
| stratum_lifecycle | TypeOK, StopQuiescent | 2 clients (symmetric), 1 caller with 2 calls, 3 jobs, history 2, 2 frames per client, session requests | pass (about 2.5M states) |
| stratum_stop | BlockAccounting, StopTerminates | 2 clients, no symmetry (liveness), 1 frame each: subscribe, an unknown method or a submit | pass (about 320k states) |
| stratum_broadcast | EveryBroadcastCompletes | 1 client sending `login` | **violation** |
| stratum_linux_stop | StopTerminates | `CloseWakesAccept = FALSE` | **violation** |
| stratum_restart | NoTerminate | 2 RPC callers with 2 calls each | **violation** |
| hash_mining | TypeOK, StopJoinsMiners | 1 validator with 2 shares, 2 miners, 4 controller calls | pass (47k states) |
| hash_race | NoUseAfterFree | 2 validators | **violation** |
| gap_consensus | SolutionAccepted | hash 6, shift 14, thread 1 of 256, 4-byte sieve, primes 2, 3, 5, 3 segments | **violation** |
| nonce_disjoint | NoNonceTwice | width 5, 1 to 4 threads | pass |
| driver_serial | StopQuiescent, ActiveImpliesSieving, NoTerminate, StopTerminates, SessionRefinement | 1 RPC caller with 4 calls, 2 sieves, 2 templates | pass |
| node_serial | NoTerminate, MiningMatchesThreads, BestMeritIsMax, StopTerminates, SessionRefinement | 1 caller with 4 calls, 2 threads, shifts 14, 25 and 70000 (refused), merits 10 and 25 | pass (about 70k states) |
| node_shift_race | ReportedShiftMatches | 1 caller with 2 calls, shifts 25 and 14, 1 thread | **violation** |

Why these bounds are enough:
- **Two clients** are the least with which a broadcast, a submit and a disconnect can interleave.
- **A history of 2 with 3 jobs** forces the trim. No passing run checks the size of `m_jobs`: `StoreJob` alone writes it, and its trim makes the bound immediate. The eviction hazard is `CurrentJobResolvable`'s counterexample.
- **One validator in `hash_mining`.** With one validator, `Initialize` runs only while the engine is uninitialized, so `CleanupInternal` never frees a VM in use. `NoUseAfterFree` is therefore checked only by `hash_race`, with two validators, where TLC finds it violated.
- **Two solutions** (jobs 1 and 2) let an accepted share and an evicted job meet.
- **Two mining threads and the merits 10 and 25** are the least with which two updates of `bestMerit` overlap. One merit is below the target of 20 and one reaches it.
- **Two stratum callers with two calls each** allow start/start and start/stop races.
- **Two shifts and one Gapcoin thread** are the least with which a restart changes `m_nShift` under a running thread.
- **Four controller calls** allow start, stop, start and stop, so the restart-while-mining paths run.
- **Width 5 with up to 4 threads** covers both a divisor (1, 2 and 4 threads divide 32) and a non-divisor (3 threads).
- **GapSearch at shift 14** (the least the RPC accepts) with 256 threads gives thread 1 a range of 64 adders: two 32-bit segments, then a restart. Hash 6 with the sieving primes 2, 3 and 5 (`SievePrimes = 3`) puts a real gap of 10 in the first segment whose ends survive the sieve.

### Findings

The six violation runs show:
1. **BroadcastJob deadlocks.** `BroadcastJob` holds `m_clients_mutex` while `SendJob` → `SendToClient` locks it again. The job thread deadlocks as soon as one client is subscribed and authorized. From then on every client handler that needs the lock blocks too.
2. **Stop hangs on Linux.** `Stop` waits in `m_accept_thread.join()` until some client connects, because `close()` does not wake `accept()`.
3. **No Gapcoin solution can pass consensus.** `MineThread` exports the whole gap start, `basePrime + adder + currentGapStart`, into `result.nAdder`. `CheckGapcoinProof` rebuilds `p = sha256 * 2^shift + nAdder` and rejects `nAdder >= 2^shift`. TLC reports the verified gap of 10 at 98377 with `nAdder = 98377`. With `nAdder = adder + currentGapStart = 73`, the same gap would pass. For a real 256-bit hash the exported number also overruns the 32 bytes of `nAdder`.
4. **Use-after-free in the RandomX engine.** Two share validations on a fresh engine both see `!IsInitialized()`. The second `Initialize` runs `CleanupInternal` under `m_mutex` only, and frees the VM and cache that the first is using in `CalculateHash` under `m_vmMutex`.
5. **Two stratum RPCs can terminate the node.** Two `startstratum` calls both pass `IsRunning()` and `Start`'s own `m_running` check. `SO_REUSEPORT` lets the second `bind` succeed. The second `Start` then assigns `m_accept_thread` while it is still joinable, and `std::thread::operator=` calls `std::terminate`. A `startstratum` racing a `stopstratum` fails the same way: the stop has cleared `m_running` but not yet joined the threads.
6. **A restart with another shift reports wrong solutions.** `startgapcoinmining` calls `SetShift` before `StartMining` stops the running session. A thread of that session built its prime from the old shift, but fills `result.nShift` from `m_nShift`, which now holds the new one. A single user is enough: mine at shift 14, then call `startgapcoinmining` with shift 25.

### Further counterexamples

TLC also finds the properties below violated. Their cfgs are kept here, but
`PROJECT.json` does not list them as runs. Each one's hazard is in
`PROJECT.json`.

| Cfg | Property | What it shows |
|---|---|---|
| `MC_StratumServer_authorize.cfg` | AuthorizedImpliesSubscribed | `mining.authorize` works without `mining.subscribe`. |
| `MC_StratumServer_malformed.cfg` | ShareAccounting | A submit without `job_id`/`nonce` (error 20) is counted nowhere. |
| `MC_StratumServer_evict.cfg` | CurrentJobResolvable | The trim can evict the current job. |
| `MC_StratumServer_nonce.cfg` | AcceptedNonceWellFormed | A nonce that is not 8 characters is hashed as 0. |
| `MC_HashEngine_zero.cfg` | ValidationHashIsReal | A failed VM creation yields an all-zero hash, which passes `hashArith > target`. |
| `MC_HashEngine_callback.cfg` | CallbackAtMostOnce | Two mining threads both invoke the block-found callback. |
| `MC_NonceSpace_coverage.cfg` | FullCoverage | Nonces from `n * (UINT32_MAX / n)` up, `UINT32_MAX` included, are never tried. |
| `MC_MinerDriver_restart.cfg` | NoTerminate | Two concurrent `startgapcoinmining` calls both pass the active check. |
| `MC_MinerDriver_race.cfg` | ActiveImpliesSieving | A start racing a stop leaves `g_mining_active` set with the miner stopped. |
| `MC_MinerDriver_loop_exit.cfg` | LoopRunsWhileActive | An exception ends `MiningLoop` while `g_mining_active` stays true. |
| `MC_NodeGapcoinMiner_concurrent_start.cfg` | NoTerminate | Two concurrent starts: `clear()` destroys joinable threads. |
| `MC_NodeGapcoinMiner_stop_race.cfg` | MiningMatchesThreads | A `StopMining` between `m_mining = true` and the `emplace_back` loop of a concurrent `StartMining` leaves `m_mining` false with joinable threads in `m_threads`. The next `StartMining` then calls `clear()`, which calls `std::terminate`, and so would `~GapcoinMiner`. |
| `MC_StratumServer_notify.cfg` | NewBlockTriggersJob | Without the timer, `NotifyNewBlock` never brings a new job: the `wait_for` predicate is only `!m_running`, so the wakeup is treated as spurious. Miners keep working on the stale job until the timer fires, against the comment's "within condvar wake latency". |
| `MC_GapSearch_sieve.cfg` | SieveKeepsPrimes | `SieveSegment` crosses off offsets where `segmentStart + offset`, not the candidate `basePrime + adder + offset`, is a multiple: it clears real primes, so the scan reports false gaps and misses real ones. |

## 4. Fairness

A thread that has started always gets to run, so every step of a started thread
has weak fairness:
- the Stop steps;
- the accept thread, the job thread and every client thread;
- the Gapcoin RPCs once they have been called;
- the sieve and mining threads, including a mining thread's steps in the `bestMerit` update loop.

Finding a gap (`GapFound`) has no fairness, because whether a segment holds a gap
is up to the numbers.

**Creating a job.** `CreateNewJob`'s successful branch has strong fairness: a
block template does not fail forever.

**The `wait_for` timeout** elapses: it is weakly fair in `Spec`. It is left
without fairness in `SpecWithoutTimer`. That spec asks whether a new block alone
brings the next job, as the code's comment "NotifyNewBlock ... within condvar
wake latency" promises.

**The abstract session** of `MiningSession` has weak fairness on `Exit` and `End`. It follows from the drivers' own fairness: a stopping worker exits, and the stopping RPC or `StopMining` joins.

**External events** have no fairness: whether a user calls Start, Stop or an
RPC, and whether a client connects. A blocked `accept()` therefore returns only
if `close()` wakes it.

## 5. Mutation tests

Every property of a passing run has a mutant in `PROJECT.json`. A mutant
replaces one mapped definition with a plausible bug that TLC must catch under
the run's own configuration. Examples:
- client threads detached instead of joined;
- the block counted before the submit answer;
- the nonce loop bound made inclusive;
- the `g_mining_active` check dropped;
- `m_stopRequested` not cleared or not set;
- `m_mining` not reset;
- the join loop stopping one element early;
- `bestMerit` raised with a plain store after the load;
- for the refinements, `m_stopRequested` left set by a restart.

## 6. Not modelled

- **Gapcoin difficulty.** `CalculateMerit`'s logarithm, `CalculateNextGapcoinDifficulty`, `MeritToCompact`, `CompactToMerit` and `GetGapcoinWork` are floating-point functions without state. `CheckGapcoinProof` is modelled on small exact numbers, with merit as a gap threshold.
- **Share contents.** Block-template construction, serialisation, JSON formatting and hex encoding are abstracted to job ids and request records.
- **Gapcoin search across threads.** `GapSearch` runs one thread. The scanning threads share only statistics and `bestMerit`. In `NodeGapcoinMiner`, a thread is observed at its stop check and when it records a verified gap. There, `bestMerit`'s update loop is checked by `BestMeritIsMax`. The `part_000` variant's `FindGaps` is not modelled.
- **GPU calls.** `EnableGpu` only stores the backend, and nothing calls `DisableGpu`; GPU mining is not implemented. `enablegpumining` is modelled for its creation of `g_gapcoin_miner`.
- **Read-only RPCs.** `getgapcoinmininginfo`, `listgpudevices` and `getstratuminfo` change no state.
- **GPU/OpenCL threads and `GetHashrate`.**
- **Statistics other than `bestMerit`.** The counters `primesChecked`, `gapsFound` and `sieveCycles` are single atomic increments. `GetSnapshot` reads each field on its own, and only the read-only `getgapcoinmininginfo` uses it. `SetProgressCallback` has no caller.
- **The thread count of `g_gapcoin_miner`.** It is fixed when the miner is first created, so later `threads` arguments are ignored (see the hazards). The models give it as the constant `NumThreads`.
- **The `MiningPage` GUI.** `spec.md` lists the GUI mining page as out of scope. Its slots change only widget state: buttons, labels, the stats timer and the progress bar. The RPC calls in `startMining`, `stopMining` and `updateMiningStats` are commented out. The page therefore drives no other component, and no property about mining can observe it. It runs on the GUI thread alone, so it has no interleavings either.
- **`ReinitializeIfNeeded`.** It has no caller, so its unlocked read of `m_currentKey` is not listed as a hazard.
- **Creating `g_gapcoin_miner` and `g_stratum_server`.** Each is a racy lazy `make_unique` on the first concurrent calls. Both are created atomically in the models.
- **Growth.** The unbounded `recv_buffer` and `m_client_threads` growth: see the hazards.

## 7. Plan for later work

1. Model the client-thread reaping and idle-client hazards, with explicit resource bounds.
2. Split `Stop`'s `joinable()` tests from the joins, so that two concurrent `stopstratum` calls can join the same thread.
3. Model the lazy creation of `g_gapcoin_miner` as a check and an assignment. The assignment destroys the miner another RPC thread is using.
