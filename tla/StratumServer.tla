--------------------------- MODULE StratumServer ---------------------------
(***************************************************************************)
(* The pool-facing Stratum server of src/stratum/stratum_server.cpp and    *)
(* the job broker it contains (CreateNewJob, m_jobs, m_current_job).       *)
(*                                                                         *)
(* Every OS thread of the server is a process with a program counter:      *)
(*   - the accept thread (AcceptThread),                                   *)
(*   - the job thread (JobThread / CreateNewJob / BroadcastJob),           *)
(*   - one reader thread per accepted client (ClientThread and the         *)
(*     Handle* functions it dispatches to),                                *)
(*   - RPC callers that run Start and Stop (startstratum / stopstratum).   *)
(* The two std::mutex objects m_clients_mutex and m_jobs_mutex are owner   *)
(* variables.  A critical section that takes no other lock is one atomic  *)
(* step guarded on the lock being free; a section that blocks on a second *)
(* lock while holding the first keeps the first owned across steps.       *)
(* Bytes on the wire are abstracted: a receive delivers one complete       *)
(* request frame, and replies are not recorded (no property reads them).  *)
(***************************************************************************)
EXTENDS Naturals, FiniteSets

CONSTANTS
    Clients,          \* client ids the accept thread may hand out (m_next_client_id)
    Callers,          \* RPC threads that may call Start / Stop
    Requests,         \* request frames a miner may send (see the MC module)
    MaxJobs,          \* bound: number of jobs CreateNewJob may produce
    MaxHistory,       \* the history bound of CreateNewJob (10 in the code)
    MaxRecv,          \* bound: request frames each client may send
    MaxCalls,         \* bound: Start/Stop calls per RPC caller
    Solutions,        \* pairs <<job, nonce>> whose RandomX hash meets the block target
    CloseWakesAccept  \* TRUE where closing the listening socket makes a blocked accept() fail

ASSUME MaxHistory \in Nat \ {0} /\ MaxJobs \in Nat /\ MaxRecv \in Nat /\ MaxCalls \in Nat
ASSUME CloseWakesAccept \in BOOLEAN

NoOwner == "none"
AcceptT == "accept"
JobT    == "job"
Threads == {AcceptT, JobT} \cup Clients \cup Callers

\* Job ids are the values of m_job_counter; 0 stands for the empty job id.
JobIds == 1..MaxJobs
NoJob  == 0

\* A client thread that is not handling a frame.
NoRequest == [method |-> "none", job |-> NoJob, nonce |-> [len |-> 0, val |-> 0]]

VARIABLES
    running,        \* m_running
    listenOpen,     \* m_listen_socket >= 0
    conn,           \* client id -> "new" (not yet accepted), "open" (in m_clients), "gone" (erased)
    subscribed,     \* StratumClient::subscribed
    authorized,     \* StratumClient::authorized
    sharesAcc,      \* StratumClient::shares_accepted
    sharesRej,      \* StratumClient::shares_rejected
    jobs,           \* key set of m_jobs
    currentJob,     \* m_current_job.job_id (NoJob while empty)
    jobCounter,     \* m_job_counter
    blocksFound,    \* m_blocks_found
    totalAcc,       \* m_total_shares_accepted
    totalRej,       \* m_total_shares_rejected
    clientsLock,    \* owner of m_clients_mutex
    jobsLock,       \* owner of m_jobs_mutex
    thread,         \* std::thread handles: m_accept_thread, m_job_thread, m_client_threads[c]: "none" | "running" | "done"
    pc,             \* program counter of every thread
    req,            \* the request a client thread is dispatching
    valid,          \* result of ValidateAndSubmitShare in a client thread
    recvCount,      \* frames received per client (bounded by MaxRecv)
    calls,          \* Start/Stop calls made per caller (bounded by MaxCalls)
    submits,        \* history: HandleSubmit invocations per client
    blockPending    \* history: a block was accepted after the last job was stored

vars == <<running, listenOpen, conn, subscribed, authorized, sharesAcc, sharesRej,
          jobs, currentJob, jobCounter, blocksFound, totalAcc, totalRej,
          clientsLock, jobsLock, thread, pc, req, valid, recvCount,
          calls, submits, blockPending>>

clientVars == <<conn, subscribed, authorized, sharesAcc, sharesRej>>
jobVars    == <<jobs, currentJob, jobCounter>>
countVars  == <<blocksFound, totalAcc, totalRej, blockPending>>
localVars  == <<req, valid>>

Goto(t, l) == pc' = [pc EXCEPT ![t] = l]

\* m_job_cv.notify_all(): a job thread blocked in wait_for wakes to re-check
\* its predicate; a thread that is not yet blocked misses the notification.
Wake(p) == [p EXCEPT ![JobT] = IF @ = "waiting" THEN "wait_check" ELSE @]

-----------------------------------------------------------------------------
(* Helpers translated from the code.                                       *)

\* HandleSubmit: a standard params array yields params[1] and params[4], an
\* object yields its "job_id" and "nonce" members; a missing member stays "".
SubmitMalformed(r) == r.job = NoJob \/ r.nonce.len = 0

\* ValidateAndSubmitShare: an 8-character nonce is parsed as 4 bytes little
\* endian; any other length silently leaves the nonce at 0.
ParseNonce(s) == IF s.len = 8 THEN s.val ELSE 0

\* The RandomX hash of the job's header with this nonce is <= the target.
MeetsTarget(j, n) == <<j, n>> \in Solutions

\* BroadcastJob sends to a client only when both flags are set.
Eligible(c) == conn[c] = "open" /\ subscribed[c] /\ authorized[c]

\* CreateNewJob: m_jobs[job.job_id] = job; m_current_job = job; then, when
\* the map holds more than 10 jobs, m_jobs.erase(m_jobs.begin()).  m_jobs is
\* keyed by the job-id string in a hashed container, so begin() is whichever
\* job hashes first: any job of the map, the one just inserted included.
EvictionChoices(js) == IF Cardinality(js) > MaxHistory THEN {js \ {e} : e \in js} ELSE {js}

-----------------------------------------------------------------------------
(* Start / Stop, run by an RPC caller thread.                              *)

\* The startstratum RPC: if (server.IsRunning()) it throws "Stratum server
\* already running"; otherwise it calls Start.  IsRunning reads m_running
\* without a lock, in a step of its own before Start reads it again.
StartStratum(r) ==
    /\ pc[r] = "idle" /\ calls[r] < MaxCalls
    /\ calls' = [calls EXCEPT ![r] = @ + 1]
    /\ Goto(r, IF running THEN "idle" ELSE "start_check")
    /\ UNCHANGED <<running, listenOpen, clientVars, jobVars, countVars, clientsLock,
                   jobsLock, thread, localVars, recvCount, submits>>

\* StratumServer::Start, first half: if (m_running.load()) return false.
StartCheck(r) ==
    /\ pc[r] = "start_check"
    /\ Goto(r, IF running THEN "idle" ELSE "start_bind")
    /\ UNCHANGED <<running, listenOpen, clientVars, jobVars, countVars, clientsLock,
                   jobsLock, thread, localVars, recvCount, calls, submits>>

\* Start, second half: socket/bind/listen may fail, and each failure leaves
\* m_listen_socket = -1 (over a socket a concurrent Start may have opened);
\* otherwise m_running is set and both threads are created.  Assigning a new std::thread to a handle
\* that is still joinable calls std::terminate.
StartLaunch(r) ==
    /\ pc[r] = "start_bind"
    /\ \/ /\ Goto(r, "idle")                       \* bind or listen failed
          /\ listenOpen' = FALSE
          /\ UNCHANGED <<running, thread>>
       \/ /\ running' = TRUE
          /\ listenOpen' = TRUE
          /\ IF thread[AcceptT] # "none" \/ thread[JobT] # "none"
               THEN /\ Goto(r, "terminated")
                    /\ UNCHANGED thread
               ELSE /\ thread' = [thread EXCEPT ![AcceptT] = "running", ![JobT] = "running"]
                    /\ pc' = [pc EXCEPT ![r] = "idle", ![AcceptT] = "loop", ![JobT] = "loop"]
    /\ UNCHANGED <<clientVars, jobVars, countVars, clientsLock, jobsLock, localVars,
                   recvCount, calls, submits>>

\* The stopstratum RPC calls Stop and returns true.  StratumServer::Stop,
\* first half: if (!m_running.load()) return.
StopCheck(r) ==
    /\ pc[r] = "idle" /\ calls[r] < MaxCalls
    /\ calls' = [calls EXCEPT ![r] = @ + 1]
    /\ Goto(r, IF running THEN "stop_set" ELSE "idle")
    /\ UNCHANGED <<running, listenOpen, clientVars, jobVars, countVars, clientsLock,
                   jobsLock, thread, localVars, recvCount, submits>>

\* Stop: m_running = false, close the listening socket, notify the job cv
\* (without holding m_job_cv_mutex).
StopSet(r) ==
    /\ pc[r] = "stop_set"
    /\ running' = FALSE
    /\ listenOpen' = FALSE
    /\ pc' = [Wake(pc) EXCEPT ![r] = "join_accept"]
    /\ UNCHANGED <<clientVars, jobVars, countVars, clientsLock, jobsLock, thread,
                   localVars, recvCount, calls, submits>>

\* Stop: join the accept thread (a handle that is not joinable is skipped;
\* join blocks until the thread has returned).
StopJoinAccept(r) ==
    /\ pc[r] = "join_accept"
    /\ thread[AcceptT] \in {"none", "done"}
    /\ thread' = [thread EXCEPT ![AcceptT] = "none"]
    /\ Goto(r, "join_job")
    /\ UNCHANGED <<running, listenOpen, clientVars, jobVars, countVars, clientsLock,
                   jobsLock, localVars, recvCount, calls, submits>>

\* Stop: join the job thread.
StopJoinJob(r) ==
    /\ pc[r] = "join_job"
    /\ thread[JobT] \in {"none", "done"}
    /\ thread' = [thread EXCEPT ![JobT] = "none"]
    /\ Goto(r, "join_clients")
    /\ UNCHANGED <<running, listenOpen, clientVars, jobVars, countVars, clientsLock,
                   jobsLock, localVars, recvCount, calls, submits>>

\* Mutation variant of StopJoinClients: the client threads are detached
\* (their handles cleared) instead of joined.
StopJoinClientsDetach(r) ==
    /\ pc[r] = "join_clients"
    /\ thread' = [t \in Threads |-> IF t \in Clients THEN "none" ELSE thread[t]]
    /\ Goto(r, "stop_clear")
    /\ UNCHANGED <<running, listenOpen, clientVars, jobVars, countVars, clientsLock,
                   jobsLock, localVars, recvCount, calls, submits>>

\* Stop: join every client thread, then m_client_threads.clear().
StopJoinClients(r) ==
    /\ pc[r] = "join_clients"
    /\ \A c \in Clients : thread[c] \in {"none", "done"}
    /\ thread' = [t \in Threads |-> IF t \in Clients THEN "none" ELSE thread[t]]
    /\ Goto(r, "stop_clear")
    /\ UNCHANGED <<running, listenOpen, clientVars, jobVars, countVars, clientsLock,
                   jobsLock, localVars, recvCount, calls, submits>>

\* Stop: close every client socket and clear m_clients under the clients lock.
StopClear(r) ==
    /\ pc[r] = "stop_clear"
    /\ clientsLock = NoOwner
    /\ conn' = [c \in Clients |-> IF conn[c] = "open" THEN "gone" ELSE conn[c]]
    /\ Goto(r, "idle")
    /\ UNCHANGED <<running, listenOpen, subscribed, authorized, sharesAcc, sharesRej,
                   jobVars, countVars, clientsLock, jobsLock, thread, localVars,
                   recvCount, calls, submits>>

-----------------------------------------------------------------------------
(* The accept thread.                                                      *)

\* while (m_running.load()) ... ; leaving the loop ends the thread.
AcceptLoop ==
    /\ pc[AcceptT] = "loop"
    /\ IF running THEN /\ Goto(AcceptT, "accept")
                       /\ UNCHANGED thread
                  ELSE /\ Goto(AcceptT, "exited")
                       /\ thread' = [thread EXCEPT ![AcceptT] = "done"]
    /\ UNCHANGED <<running, listenOpen, clientVars, jobVars, countVars, clientsLock,
                   jobsLock, localVars, recvCount, calls, submits>>

\* accept(m_listen_socket): on a socket already closed (-1) it fails at once
\* and the loop continues; otherwise the thread blocks in the call.
AcceptCall ==
    /\ pc[AcceptT] = "accept"
    /\ Goto(AcceptT, IF listenOpen THEN "blocked" ELSE "loop")
    /\ UNCHANGED <<running, listenOpen, clientVars, jobVars, countVars, clientsLock,
                   jobsLock, thread, localVars, recvCount, calls, submits>>

\* accept() returns a connection: the client is created under the clients
\* lock with a fresh id and its reader thread is started.  Where close does
\* not wake a blocked accept(), the closed socket still completes a pending
\* connection, and that is the only way such an accept() returns.
AcceptConnection(c) ==
    /\ pc[AcceptT] = "blocked"
    /\ conn[c] = "new"
    /\ clientsLock = NoOwner
    /\ listenOpen \/ ~CloseWakesAccept
    /\ conn' = [conn EXCEPT ![c] = "open"]
    /\ thread' = [thread EXCEPT ![c] = "running"]
    /\ pc' = [pc EXCEPT ![AcceptT] = "loop", ![c] = "top"]
    /\ UNCHANGED <<running, listenOpen, subscribed, authorized, sharesAcc, sharesRej,
                   jobVars, countVars, clientsLock, jobsLock, localVars, recvCount,
                   calls, submits>>

\* A blocked accept() fails because Stop closed the listening socket: continue.
AcceptFails ==
    /\ pc[AcceptT] = "blocked"
    /\ ~listenOpen /\ CloseWakesAccept
    /\ Goto(AcceptT, "loop")
    /\ UNCHANGED <<running, listenOpen, clientVars, jobVars, countVars, clientsLock,
                   jobsLock, thread, localVars, recvCount, calls, submits>>

-----------------------------------------------------------------------------
(* The job thread: JobThread, CreateNewJob, BroadcastJob.                  *)

JobLoop ==
    /\ pc[JobT] = "loop"
    /\ IF running THEN /\ Goto(JobT, "create")
                       /\ UNCHANGED thread
                  ELSE /\ Goto(JobT, "exited")
                       /\ thread' = [thread EXCEPT ![JobT] = "done"]
    /\ UNCHANGED <<running, listenOpen, clientVars, jobVars, countVars, clientsLock,
                   jobsLock, localVars, recvCount, calls, submits>>

\* CreateNewJob: createNewBlock() returns no template: return to the wait.
CreateJobFails ==
    /\ pc[JobT] = "create"
    /\ Goto(JobT, "wait_check")
    /\ UNCHANGED <<running, listenOpen, clientVars, jobVars, countVars, clientsLock,
                   jobsLock, thread, localVars, recvCount, calls, submits>>

\* CreateNewJob: a template; the job (id from m_job_counter) is built
\* without locks.
CreateNewJob ==
    /\ pc[JobT] = "create"
    /\ jobCounter < MaxJobs
    /\ Goto(JobT, "store")
    /\ UNCHANGED <<running, listenOpen, clientVars, jobVars, countVars, clientsLock,
                   jobsLock, thread, localVars, recvCount, calls, submits>>

\* Mutation variant of StoreJob: the job is stored under the counter value
\* before the increment.
StoreJobOldId ==
    /\ pc[JobT] = "store"
    /\ jobsLock = NoOwner
    /\ jobCounter' = jobCounter + 1
    /\ currentJob' = jobCounter
    /\ jobs' \in EvictionChoices(jobs \cup {jobCounter})
    /\ blockPending' = FALSE
    /\ Goto(JobT, "broadcast")
    /\ UNCHANGED <<running, listenOpen, clientVars, blocksFound, totalAcc, totalRej,
                   clientsLock, jobsLock, thread, localVars, recvCount, calls, submits>>

\* CreateNewJob: store the job and trim the history under the jobs lock.
StoreJob ==
    /\ pc[JobT] = "store"
    /\ jobsLock = NoOwner
    /\ jobCounter' = jobCounter + 1
    /\ currentJob' = jobCounter + 1
    /\ jobs' \in EvictionChoices(jobs \cup {jobCounter + 1})
    /\ blockPending' = FALSE
    /\ Goto(JobT, "broadcast")
    /\ UNCHANGED <<running, listenOpen, clientVars, blocksFound, totalAcc, totalRej,
                   clientsLock, jobsLock, thread, localVars, recvCount, calls, submits>>

\* BroadcastJob takes the clients lock and calls SendJob -> SendToClient
\* for every subscribed and authorized client; SendToClient locks the same
\* non-recursive std::mutex again.  Re-locking a std::mutex held by the
\* calling thread never returns with the default (glibc) mutex, so the
\* thread stays in "relock" owning the lock.
BroadcastJob ==
    /\ pc[JobT] = "broadcast"
    /\ clientsLock = NoOwner
    /\ IF \E c \in Clients : Eligible(c)
         THEN /\ clientsLock' = JobT
              /\ Goto(JobT, "relock")
         ELSE /\ Goto(JobT, "wait_check")
              /\ UNCHANGED clientsLock
    /\ UNCHANGED <<running, listenOpen, clientVars, jobVars, countVars, jobsLock,
                   thread, localVars, recvCount, calls, submits>>

\* m_job_cv.wait_for(lock, timeout, [this]{ return !m_running; }) first
\* evaluates the predicate: when it holds the wait returns at once.
JobWaitCheck ==
    /\ pc[JobT] = "wait_check"
    /\ Goto(JobT, IF running THEN "block" ELSE "loop")
    /\ UNCHANGED <<running, listenOpen, clientVars, jobVars, countVars, clientsLock,
                   jobsLock, thread, localVars, recvCount, calls, submits>>

\* ... otherwise the thread blocks on the condition variable.  Stop sets
\* m_running without m_job_cv_mutex, so its notify may fall between the
\* check and this step and be lost.
JobBlock ==
    /\ pc[JobT] = "block"
    /\ Goto(JobT, "waiting")
    /\ UNCHANGED <<running, listenOpen, clientVars, jobVars, countVars, clientsLock,
                   jobsLock, thread, localVars, recvCount, calls, submits>>

\* The timeout elapses: wait_for returns and the loop re-tests m_running.
JobTimeout ==
    /\ pc[JobT] = "waiting"
    /\ Goto(JobT, "loop")
    /\ UNCHANGED <<running, listenOpen, clientVars, jobVars, countVars, clientsLock,
                   jobsLock, thread, localVars, recvCount, calls, submits>>

-----------------------------------------------------------------------------
(* A client reader thread: ClientThread, HandleMessage and the Handle*    *)
(* functions, ValidateAndSubmitShare, DisconnectClient.                    *)

\* Mutation variant of ClientTop: the reader loop does not test m_running.
ClientTopIgnoresStop(c) ==
    /\ pc[c] = "top"
    /\ clientsLock = NoOwner
    /\ Goto(c, IF conn[c] = "open" THEN "recv" ELSE "disconnect")
    /\ req' = [req EXCEPT ![c] = NoRequest]
    /\ UNCHANGED <<running, listenOpen, clientVars, jobVars, countVars, clientsLock,
                   jobsLock, thread, valid, recvCount, calls, submits>>

\* while (m_running.load()): look the client up under the clients lock;
\* a client no longer in m_clients ends the loop (break -> DisconnectClient).
ClientTop(c) ==
    /\ pc[c] = "top"
    /\ \/ /\ ~running
          /\ Goto(c, "disconnect")
       \/ /\ running /\ clientsLock = NoOwner
          /\ Goto(c, IF conn[c] = "open" THEN "recv" ELSE "disconnect")
    /\ req' = [req EXCEPT ![c] = NoRequest]   \* the previous frame is out of scope
    /\ UNCHANGED <<running, listenOpen, clientVars, jobVars, countVars, clientsLock,
                   jobsLock, thread, valid, recvCount, calls, submits>>

\* HandleMessage: the handler a request frame is dispatched to.  Invalid
\* JSON is dropped without reply; an unknown method gets SendError(-1); a
\* submit without job_id or nonce gets SendError(20) and is not counted.
Dispatch(m) ==
    CASE m.method = "badjson"          -> "top"
      [] m.method = "unknown"          -> "send_error"
      [] m.method = "mining.subscribe" -> "subscribe"
      [] m.method = "mining.authorize" -> "authorize"
      [] m.method = "login"            -> "login"
      [] m.method = "submit"           -> IF SubmitMalformed(m) THEN "send_error" ELSE "lookup"

\* recv() on the non-blocking socket: data (a complete frame, extracted
\* from recv_buffer under the clients lock, then handled without it), 0 or
\* an error (the peer is gone: break), or EAGAIN (sleep and loop).
ClientRecv(c) ==
    /\ pc[c] = "recv"
    /\ \/ /\ recvCount[c] < MaxRecv
          /\ clientsLock = NoOwner
          /\ \E m \in Requests :
               IF conn[c] # "open"
                 THEN /\ Goto(c, "disconnect")
                      /\ UNCHANGED <<req, recvCount, submits>>
                 ELSE /\ req' = [req EXCEPT ![c] = m]
                      /\ recvCount' = [recvCount EXCEPT ![c] = @ + 1]
                      /\ submits' = [submits EXCEPT ![c] = IF m.method = "submit" THEN @ + 1 ELSE @]
                      /\ Goto(c, Dispatch(m))
       \/ /\ Goto(c, "disconnect")
          /\ UNCHANGED <<req, recvCount, submits>>
       \/ /\ Goto(c, "top")
          /\ UNCHANGED <<req, recvCount, submits>>
    /\ UNCHANGED <<running, listenOpen, clientVars, jobVars, countVars, clientsLock,
                   jobsLock, thread, valid, calls>>

\* SendToClient (also via SendError / SendJob): lock, find, send.  The
\* reply itself is not recorded; what the handler does next is.
AfterSend == [send_error   |-> "top",
              sub_reply    |-> "top",
              auth_reply   |-> "auth_job",
              login_reply  |-> "top",
              submit_reply |-> "credit"]

SendToClient(c) ==
    /\ pc[c] \in DOMAIN AfterSend
    /\ clientsLock = NoOwner
    /\ Goto(c, AfterSend[pc[c]])
    /\ UNCHANGED <<running, listenOpen, clientVars, jobVars, countVars, clientsLock,
                   jobsLock, thread, localVars, recvCount, calls, submits>>

\* HandleSubscribe: set subscribed under the clients lock (return if gone).
HandleSubscribe(c) ==
    /\ pc[c] = "subscribe"
    /\ clientsLock = NoOwner
    /\ subscribed' = [subscribed EXCEPT ![c] = (conn[c] = "open") \/ @]
    /\ Goto(c, IF conn[c] = "open" THEN "sub_reply" ELSE "top")
    /\ UNCHANGED <<running, listenOpen, conn, authorized, sharesAcc, sharesRej, jobVars,
                   countVars, clientsLock, jobsLock, thread, localVars, recvCount,
                   calls, submits>>

\* HandleAuthorize: set authorized under the clients lock, whatever
\* subscribed is (return if gone).
HandleAuthorize(c) ==
    /\ pc[c] = "authorize"
    /\ clientsLock = NoOwner
    /\ authorized' = [authorized EXCEPT ![c] = (conn[c] = "open") \/ @]
    /\ Goto(c, IF conn[c] = "open" THEN "auth_reply" ELSE "top")
    /\ UNCHANGED <<running, listenOpen, conn, subscribed, sharesAcc, sharesRej, jobVars,
                   countVars, clientsLock, jobsLock, thread, localVars, recvCount,
                   calls, submits>>

\* HandleAuthorize, after the reply: lock m_jobs_mutex; if m_current_job is
\* set, SendJob is called while that lock is held.
AuthorizeLockJobs(c) ==
    /\ pc[c] = "auth_job"
    /\ jobsLock = NoOwner
    /\ IF currentJob # NoJob
         THEN /\ jobsLock' = c
              /\ Goto(c, "auth_send")
         ELSE /\ Goto(c, "top")
              /\ UNCHANGED jobsLock
    /\ UNCHANGED <<running, listenOpen, clientVars, jobVars, countVars, clientsLock,
                   thread, localVars, recvCount, calls, submits>>

\* SendJob -> SendToClient takes the clients lock inside the jobs lock;
\* the jobs lock is released when the block ends.
AuthorizeSendJob(c) ==
    /\ pc[c] = "auth_send"
    /\ clientsLock = NoOwner
    /\ jobsLock' = NoOwner
    /\ Goto(c, "top")
    /\ UNCHANGED <<running, listenOpen, clientVars, jobVars, countVars, clientsLock,
                   thread, localVars, recvCount, calls, submits>>

\* HandleGetJob (login / getjob): set subscribed and authorized under the
\* clients lock (return if gone) ...
HandleGetJob(c) ==
    /\ pc[c] = "login"
    /\ clientsLock = NoOwner
    /\ subscribed' = [subscribed EXCEPT ![c] = (conn[c] = "open") \/ @]
    /\ authorized' = [authorized EXCEPT ![c] = (conn[c] = "open") \/ @]
    /\ Goto(c, IF conn[c] = "open" THEN "login_job" ELSE "top")
    /\ UNCHANGED <<running, listenOpen, conn, sharesAcc, sharesRej, jobVars,
                   countVars, clientsLock, jobsLock, thread, localVars, recvCount,
                   calls, submits>>

\* ... then copy m_current_job under the jobs lock (it may be empty) and
\* send it in the login reply.
GetJobCopy(c) ==
    /\ pc[c] = "login_job"
    /\ jobsLock = NoOwner
    /\ Goto(c, "login_reply")
    /\ UNCHANGED <<running, listenOpen, clientVars, jobVars, countVars, clientsLock,
                   jobsLock, thread, localVars, recvCount, calls, submits>>

\* ValidateAndSubmitShare: find job_id in m_jobs under the jobs lock; an
\* unknown (never issued or evicted) job returns false.
ValidateLookup(c) ==
    /\ pc[c] = "lookup"
    /\ jobsLock = NoOwner
    /\ IF req[c].job \in jobs
         THEN /\ Goto(c, "validate")
              /\ UNCHANGED valid
         ELSE /\ valid' = [valid EXCEPT ![c] = FALSE]
              /\ Goto(c, "submit_reply")
    /\ UNCHANGED <<running, listenOpen, clientVars, jobVars, countVars, clientsLock,
                   jobsLock, thread, req, recvCount, calls, submits>>

\* Mutation variant of ValidateShare: m_blocks_found is incremented as soon
\* as the hash meets the target, before submitSolution's answer.
ValidateShareEarlyCount(c) ==
    /\ pc[c] = "validate"
    /\ LET meets == MeetsTarget(req[c].job, ParseNonce(req[c].nonce)) IN
       \/ /\ valid' = [valid EXCEPT ![c] = FALSE]
          /\ Goto(c, "submit_reply")
          /\ UNCHANGED countVars
       \/ /\ meets
          /\ valid' = [valid EXCEPT ![c] = FALSE]
          /\ blocksFound' = blocksFound + 1
          /\ Goto(c, "submit_reply")
          /\ UNCHANGED <<totalAcc, totalRej, blockPending>>
       \/ /\ meets
          /\ valid' = [valid EXCEPT ![c] = TRUE]
          /\ blocksFound' = blocksFound + 1
          /\ blockPending' = TRUE
          /\ pc' = [Wake(pc) EXCEPT ![c] = "submit_reply"]
          /\ UNCHANGED <<totalAcc, totalRej>>
    /\ UNCHANGED <<running, listenOpen, clientVars, jobVars, clientsLock, jobsLock,
                   thread, req, recvCount, calls, submits>>

\* ValidateAndSubmitShare, without locks: parse the nonce, initialise
\* RandomX if needed (failure returns false), hash the header, compare with
\* the target, and submitSolution.  An accepted block increments
\* m_blocks_found and calls NotifyNewBlock (m_job_cv.notify_all).
ValidateShare(c) ==
    /\ pc[c] = "validate"
    /\ LET meets == MeetsTarget(req[c].job, ParseNonce(req[c].nonce)) IN
       \/ /\ valid' = [valid EXCEPT ![c] = FALSE]          \* init failure, above target, or node rejects
          /\ Goto(c, "submit_reply")
          /\ UNCHANGED countVars
       \/ /\ meets                                           \* submitSolution accepted
          /\ valid' = [valid EXCEPT ![c] = TRUE]
          /\ blocksFound' = blocksFound + 1
          /\ blockPending' = TRUE
          /\ pc' = [Wake(pc) EXCEPT ![c] = "submit_reply"]
          /\ UNCHANGED <<totalAcc, totalRej>>
    /\ UNCHANGED <<running, listenOpen, clientVars, jobVars, clientsLock, jobsLock,
                   thread, req, recvCount, calls, submits>>

\* HandleSubmit, after the reply: under the clients lock count the share on
\* the client (if it is still in m_clients) and in the server totals.
CountShare(c) ==
    /\ pc[c] = "credit"
    /\ clientsLock = NoOwner
    /\ LET present == conn[c] = "open" IN
       IF valid[c]
         THEN /\ sharesAcc' = [sharesAcc EXCEPT ![c] = IF present THEN @ + 1 ELSE @]
              /\ totalAcc' = totalAcc + 1
              /\ UNCHANGED <<sharesRej, totalRej>>
         ELSE /\ sharesRej' = [sharesRej EXCEPT ![c] = IF present THEN @ + 1 ELSE @]
              /\ totalRej' = totalRej + 1
              /\ UNCHANGED <<sharesAcc, totalAcc>>
    /\ valid' = [valid EXCEPT ![c] = FALSE]
    /\ Goto(c, "top")
    /\ UNCHANGED <<running, listenOpen, conn, subscribed, authorized, jobVars,
                   blocksFound, blockPending, clientsLock, jobsLock, thread, req,
                   recvCount, calls, submits>>

\* After the loop: DisconnectClient closes the socket and erases the client
\* under the clients lock; the thread function returns.
DisconnectClient(c) ==
    /\ pc[c] = "disconnect"
    /\ clientsLock = NoOwner
    /\ conn' = [conn EXCEPT ![c] = IF @ = "open" THEN "gone" ELSE @]
    /\ thread' = [thread EXCEPT ![c] = "done"]
    /\ Goto(c, "exited")
    /\ UNCHANGED <<running, listenOpen, subscribed, authorized, sharesAcc, sharesRej,
                   jobVars, countVars, clientsLock, jobsLock, localVars, recvCount,
                   calls, submits>>

-----------------------------------------------------------------------------
(* The whole server.                                                       *)

Init ==
    /\ running = FALSE
    /\ listenOpen = FALSE
    /\ conn = [c \in Clients |-> "new"]
    /\ subscribed = [c \in Clients |-> FALSE]
    /\ authorized = [c \in Clients |-> FALSE]
    /\ sharesAcc = [c \in Clients |-> 0]
    /\ sharesRej = [c \in Clients |-> 0]
    /\ jobs = {}
    /\ currentJob = NoJob
    /\ jobCounter = 0
    /\ blocksFound = 0
    /\ totalAcc = 0
    /\ totalRej = 0
    /\ blockPending = FALSE
    /\ clientsLock = NoOwner
    /\ jobsLock = NoOwner
    /\ thread = [t \in Threads |-> "none"]
    /\ pc = [t \in Threads |-> IF t \in Callers THEN "idle" ELSE "exited"]
    /\ req = [c \in Clients |-> NoRequest]
    /\ valid = [c \in Clients |-> FALSE]
    /\ recvCount = [c \in Clients |-> 0]
    /\ calls = [r \in Callers |-> 0]
    /\ submits = [c \in Clients |-> 0]

CallerStep(r) ==
    StartCheck(r) \/ StartLaunch(r) \/ StopSet(r) \/ StopJoinAccept(r) \/ StopJoinJob(r)
    \/ StopJoinClients(r) \/ StopClear(r)

AcceptStep == AcceptLoop \/ AcceptCall \/ AcceptFails

JobStep == JobLoop \/ CreateJobFails \/ CreateNewJob \/ StoreJob \/ BroadcastJob
           \/ JobWaitCheck \/ JobBlock

ClientStep(c) ==
    ClientTop(c) \/ ClientRecv(c) \/ SendToClient(c) \/ HandleSubscribe(c)
    \/ HandleAuthorize(c) \/ AuthorizeLockJobs(c) \/ AuthorizeSendJob(c)
    \/ HandleGetJob(c) \/ GetJobCopy(c) \/ ValidateLookup(c) \/ ValidateShare(c)
    \/ CountShare(c) \/ DisconnectClient(c)

Next ==
    \/ \E r \in Callers : StartStratum(r) \/ StopCheck(r) \/ CallerStep(r)
    \/ AcceptStep
    \/ \E c \in Clients : AcceptConnection(c)
    \/ JobStep \/ JobTimeout
    \/ \E c \in Clients : ClientStep(c)

\* Every started thread keeps being scheduled (weak fairness per step of
\* each thread).  Calling Start/Stop and connecting are up to the outside
\* world and get no fairness.  createNewBlock does not fail forever (strong
\* fairness on the successful branch); the wait_for timeout always elapses.
ThreadFairness ==
    /\ \A r \in Callers : WF_vars(CallerStep(r))
    /\ WF_vars(AcceptStep)
    /\ WF_vars(JobStep) /\ SF_vars(CreateNewJob)
    /\ \A c \in Clients : WF_vars(ClientStep(c))

Spec == Init /\ [][Next]_vars /\ ThreadFairness /\ WF_vars(JobTimeout)

\* The same server where the job timer is never relied on: a new job must
\* come from NotifyNewBlock alone, "within condvar wake latency".
SpecWithoutTimer == Init /\ [][Next]_vars /\ ThreadFairness

-----------------------------------------------------------------------------
(* Properties.                                                             *)

TypeOK ==
    /\ running \in BOOLEAN /\ listenOpen \in BOOLEAN
    /\ conn \in [Clients -> {"new", "open", "gone"}]
    /\ subscribed \in [Clients -> BOOLEAN] /\ authorized \in [Clients -> BOOLEAN]
    /\ sharesAcc \in [Clients -> Nat] /\ sharesRej \in [Clients -> Nat]
    /\ jobs \subseteq JobIds /\ currentJob \in JobIds \cup {NoJob}
    /\ jobCounter \in 0..MaxJobs
    /\ blocksFound \in Nat /\ totalAcc \in Nat /\ totalRej \in Nat
    /\ blockPending \in BOOLEAN
    /\ clientsLock \in Threads \cup {NoOwner} /\ jobsLock \in Threads \cup {NoOwner}
    /\ thread \in [Threads -> {"none", "running", "done"}]
    /\ req \in [Clients -> Requests \cup {NoRequest}] /\ valid \in [Clients -> BOOLEAN]

\* Block accounting across threads: m_blocks_found is incremented in
\* ValidateAndSubmitShare and m_total_shares_accepted later, in HandleSubmit
\* under the clients lock.  Every accepted share was a found block, and a
\* found block not yet counted as accepted belongs to a handler that is
\* still between validation and counting.
InFlightAccepted == {c \in Clients : pc[c] \in {"submit_reply", "credit"} /\ valid[c]}

BlockAccounting ==
    /\ totalAcc <= blocksFound
    /\ blocksFound <= totalAcc + Cardinality(InFlightAccepted)

\* Once Stop has returned (and no Start or Stop is running) the server is
\* quiescent: every std::thread handle was joined and cleared and no client
\* is left in m_clients.
StopQuiescent ==
    (~running /\ \A r \in Callers : pc[r] = "idle")
        => /\ \A t \in Threads \ Callers : thread[t] = "none"
           /\ \A c \in Clients : conn[c] # "open"

\* Stop returns: a caller that has entered Stop eventually comes back, the
\* accept, job and client threads all having ended and been joined.
StopTerminates == \A r \in Callers : (pc[r] = "stop_set") ~> (pc[r] = "idle")

\* The job thread's BroadcastJob always completes and the thread goes back
\* to waiting for the next block (it holds m_clients_mutex meanwhile).
EveryBroadcastCompletes == (pc[JobT] = "broadcast") ~> (pc[JobT] \in {"wait_check", "loop"})

\* The spec: a client is authorized only after it subscribed (the broadcast
\* filter relies on both).  HandleAuthorize is about this.
AuthorizedImpliesSubscribed ==
    \A c \in Clients : conn[c] = "open" /\ authorized[c] => subscribed[c]

\* The spec: shares_accepted + shares_rejected equals the number of
\* HandleSubmit calls of the client, once a handler has finished.
ShareAccounting ==
    \A c \in Clients :
        conn[c] = "open" /\ pc[c] \in {"top", "recv"}
            => sharesAcc[c] + sharesRej[c] = submits[c]

\* The job announced as current (m_current_job) can still be found in
\* m_jobs, so a share for it is not rejected as unknown.  CreateNewJob's
\* trim is about this.
CurrentJobResolvable == currentJob # NoJob => currentJob \in jobs

\* The spec: a share is accepted only if its nonce parses as 4 bytes.
\* ValidateAndSubmitShare's nonce parsing is about this.
AcceptedNonceWellFormed ==
    \A c \in InFlightAccepted : req[c].nonce.len = 8

\* The spec: an accepted block makes the job thread produce the next job
\* (NotifyNewBlock wakes JobThread), without waiting for the timer.
\* (Below MaxJobs only: the model's bound on job creation must not be what
\* keeps the next job from coming.)
NewBlockTriggersJob ==
    (blockPending /\ running /\ jobCounter < MaxJobs) ~> (~blockPending \/ ~running)

\* Two Start/Stop calls never make the process call std::terminate by
\* assigning a thread to a still-joinable std::thread handle.
NoTerminate == \A r \in Callers : pc[r] # "terminated"

=============================================================================
