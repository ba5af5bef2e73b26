----------------------------- MODULE NonceSpace -----------------------------
(***************************************************************************)
(* How RandomXMiner::StartMining splits the 32-bit nonce space among its   *)
(* mining threads, and how each MineThread walks its share               *)
(* (src/unnamed/part_001).  The arithmetic is uint32_t arithmetic, here at *)
(* a smaller width: UINT32_MAX becomes 2^Width - 1 and every sum and       *)
(* product is taken modulo 2^Width.  Threads step independently, so the    *)
(* model interleaves their nonce++ steps.                                  *)
(***************************************************************************)
EXTENDS Naturals

CONSTANTS
    Width,       \* bits of the nonce (32 in the code)
    MaxThreads   \* largest numThreads StartMining may end up with

ASSUME Width \in Nat \ {0} /\ MaxThreads \in Nat \ {0}

Modulus  == 2^Width
UintMax  == Modulus - 1            \* UINT32_MAX
Nonces   == 0..UintMax

\* uint32_t nonceRange = UINT32_MAX / numThreads;
NonceRange(n) == UintMax \div n

\* uint32_t startNonce = i * nonceRange;
StartNonce(i, n) == (i * NonceRange(n)) % Modulus

\* Mutation variant of Limit: the loop runs while nonce <= startNonce + nonceRange.
LimitInclusive(i, n) == (StartNonce(i, n) + NonceRange(n) + 1) % Modulus

\* The loop bound startNonce + nonceRange, evaluated in uint32_t.
Limit(i, n) == (StartNonce(i, n) + NonceRange(n)) % Modulus

VARIABLES
    numThreads,  \* threads started
    nonce,       \* each thread's current nonce
    tried        \* how many threads have hashed each nonce

vars == <<numThreads, nonce, tried>>

Init ==
    /\ numThreads \in 1..MaxThreads
    /\ nonce = [i \in 0..(numThreads - 1) |-> StartNonce(i, numThreads)]
    /\ tried = [x \in Nonces |-> 0]

\* One iteration of MineThread's loop (no hit): hash this nonce, nonce++.
MineStep(i) ==
    /\ nonce[i] < Limit(i, numThreads)
    /\ tried' = [tried EXCEPT ![nonce[i]] = @ + 1]
    /\ nonce' = [nonce EXCEPT ![i] = (@ + 1) % Modulus]
    /\ UNCHANGED numThreads

\* Every thread has left its loop.
Finished == \A i \in DOMAIN nonce : nonce[i] >= Limit(i, numThreads)

Next == \E i \in DOMAIN nonce : MineStep(i)

Spec == Init /\ [][Next]_vars

-----------------------------------------------------------------------------
(* Properties.                                                             *)

\* No nonce is hashed by two threads: the ranges StartMining hands out do
\* not overlap, whatever numThreads is.
NoNonceTwice == \A x \in Nonces : tried[x] <= 1

\* The spec: StartMining partitions the nonce space, so once every thread
\* has run out of nonces without a hit, every nonce has been tried.
FullCoverage == Finished => \A x \in Nonces : tried[x] >= 1

=============================================================================
