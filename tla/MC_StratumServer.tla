------------------------- MODULE MC_StratumServer -------------------------
(* Model-checking instance of StratumServer: request frames, nonces and    *)
(* the solution set are small definitions selected by the .cfg files.     *)
EXTENDS StratumServer, TLC

\* Nonce strings by what ValidateAndSubmitShare can tell apart: empty, a
\* well-formed 8-hex-digit value, and a string of another length.
NoNonce    == [len |-> 0, val |-> 0]
Nonce(v)   == [len |-> 8, val |-> v]
ShortNonce == [len |-> 3, val |-> 7]

Req(m, j, n) == [method |-> m, job |-> j, nonce |-> n]

Subscribe   == Req("mining.subscribe", NoJob, NoNonce)
Authorize   == Req("mining.authorize", NoJob, NoNonce)
Login       == Req("login", NoJob, NoNonce)
Unknown     == Req("unknown", NoJob, NoNonce)
BadJson     == Req("badjson", NoJob, NoNonce)
NoJobSubmit == Req("submit", NoJob, Nonce(1))
Submit(j, v) == Req("submit", j, Nonce(v))

\* Frames that change the session state of a client, and frames that fail.
SessionRequests == {Subscribe, Authorize, Login, Unknown, BadJson}

\* Share submissions of an XMRig-style miner: a solution, a non-solution
\* and a frame without job id.
ShareRequests == {NoJobSubmit, Submit(1, 1), Submit(1, 2)}

\* Frames that never make a client eligible for BroadcastJob.
UnauthenticatedRequests ==
    {Subscribe, Unknown, Submit(1, 1)}

\* Single-kind request sets for the runs that exhibit one behaviour.
LoginOnly        == {Login}
AuthorizeOnly    == {Authorize}
NoJobSubmitOnly  == {NoJobSubmit}
IdleOnly         == {BadJson}
SolvingSubmit    == {Submit(1, 1)}
ShortNonceSubmit == {Req("submit", 1, ShortNonce)}

\* Nonce 1 solves job 1 and nonce 2 solves job 2; nonce 0 solves job 1 as well.
MCSolutions == {<<1, 1>>, <<2, 2>>, <<1, 0>>}

\* Client ids are interchangeable: the accept thread may hand out any of them.
ClientSymmetry == Permutations(Clients)

=============================================================================
