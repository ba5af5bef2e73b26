----------------------------- MODULE GapSearch -----------------------------
(***************************************************************************)
(* One mining thread of node::GapcoinMiner (src/src/node/gapcoin_miner.cpp) *)
(* and the consensus rule that judges what it finds (CheckGapcoinProof,    *)
(* src/unnamed/part_004).  The thread sieves a segment of sieve bits,     *)
(* scans the surviving offsets for primes, hands every gap of at least 10 *)
(* between consecutive primes to VerifyGap, and reports a gap whose merit  *)
(* reaches the target as a GapcoinMiningResult.                           *)
(*                                                                         *)
(* Numbers are kept exact and small: the header hash is the constant      *)
(* HashValue (the miner and consensus are assumed to hash the header the  *)
(* same way), and the probabilistic primality tests are exact.  Merit is  *)
(* gapSize / ln(p); at the magnitude of the model, "merit >= target" is    *)
(* "gapSize >= TargetGap".                                                 *)
(***************************************************************************)
EXTENDS Naturals, Sequences

CONSTANTS
    HashValue,    \* sha256 of the header, as a number
    Shift,        \* m_nShift
    ThreadsArg,   \* the constructor's nThreads (the RPC's "threads", 0 = auto)
    HardwareConcurrency, \* std::thread::hardware_concurrency(), 0 when unknown
    ThreadId,     \* the thread modelled
    SieveSize,    \* m_nSieveSize, in bytes
    SievePrimes,  \* m_nSievePrimes
    TargetGap,    \* smallest gap whose merit reaches m_targetMerit
    RngDraws,     \* values rng() may return (a small sample)
    MaxSegments   \* bound: segments the thread sieves

MinOf(a, b) == IF a < b THEN a ELSE b
MaxOf(a, b) == IF a > b THEN a ELSE b

\* The largest r with r * r <= n, by bisection of lo..hi-1 (lo * lo <= n <
\* hi * hi): static_cast<uint32_t>(std::sqrt(n)).
RECURSIVE ISqrtIn(_, _, _)
ISqrtIn(n, lo, hi) ==
    IF hi - lo <= 1 THEN lo
    ELSE LET mid == (lo + hi) \div 2
         IN  IF mid * mid <= n THEN ISqrtIn(n, mid, hi) ELSE ISqrtIn(n, lo, mid)

\* (46341 * 46341 exceeds the model checker's 32-bit integers.)
ISqrt(n) == ISqrtIn(n, 0, MinOf(n + 1, 46341))

\* What mpz_probab_prime_p and IsProbablePrime decide, without their rare
\* errors.
IsPrime(n) == n >= 2 /\ \A d \in 2..ISqrt(n) : n % d # 0

-----------------------------------------------------------------------------
(* GenerateSmallPrimes and InitializeSieve (the constructor's tables).    *)

\* The outer loop of the Sieve of Eratosthenes from i on: while i * i <=
\* limit, a number still marked prime clears its multiples from i * i.
RECURSIVE CrossOff(_, _, _)
CrossOff(isPrime, i, limit) ==
    IF i * i > limit THEN isPrime
    ELSE CrossOff(IF isPrime[i]
                    THEN [k \in DOMAIN isPrime |->
                            IF k >= i * i /\ (k - i * i) % i = 0 THEN FALSE ELSE isPrime[k]]
                    ELSE isPrime,
                  i + 1, limit)

GenerateSmallPrimes(limit) ==
    IF limit < 2 THEN <<>>
    ELSE LET isPrime == CrossOff([k \in 0..limit |-> k >= 2], 2, limit)
         IN  SelectSeq([j \in 1..(limit - 1) |-> j + 1], LAMBDA k : isPrime[k])

\* primeLimit = min(sqrt(m_nSieveSize * 8) + 1000, m_nSievePrimes * 20),
\* then at most m_nSievePrimes of them.  The wheel pattern it also builds
\* is never read by the search.
InitializeSieve ==
    LET limit  == MinOf(ISqrt(SieveSize * 8) + 1000, SievePrimes * 20)
        primes == GenerateSmallPrimes(limit)
    IN  SubSeq(primes, 1, MinOf(Len(primes), SievePrimes))

\* The Euclidean algorithm: std::gcd.
RECURSIVE Gcd(_, _)
Gcd(a, b) == IF b = 0 THEN a ELSE Gcd(b, a % b)

\* GenerateWheelPattern: the residues in 1..modulus-1 coprime to the
\* modulus, each stored as a uint8_t.
GenerateWheelPattern(modulus) ==
    LET coprime == SelectSeq([i \in 1..(modulus - 1) |-> i], LAMBDA i : Gcd(i, modulus) = 1)
    IN  [k \in DOMAIN coprime |-> coprime[k] % 256]

\* WHEEL_MODULUS (2 * 3 * 5 * 7) and WHEEL_SIZE, "Number of residues
\* coprime to WHEEL_MODULUS".
WheelModulus == 210
WheelSize    == 48

\* The constructor: m_nThreads = nThreads, or hardware_concurrency() for 0,
\* and 1 if that is 0 as well.
NumThreads ==
    LET n == IF ThreadsArg = 0 THEN HardwareConcurrency ELSE ThreadsArg
    IN  IF n = 0 THEN 1 ELSE n

-----------------------------------------------------------------------------
(* MineThread's arithmetic.                                                *)

SegmentBits == SieveSize * 8

\* CalculateBasePrime: sha256(header) * 2^shift.
BasePrime == HashValue * 2^Shift

\* rangePerThread = (1 << min(shift, 32)) / m_nThreads.
RangePerThread == 2^(MinOf(Shift, 32)) \div NumThreads

\* SieveSegment(sieve, startAdder, m_nSieveSize): every prime above 2 of
\* m_smallPrimes clears the bits of the offsets where segmentStart + offset
\* is one of its multiples.
SieveSegment(smallPrimes, segmentStart) ==
    {o \in 0..(SegmentBits - 1) :
        \A k \in 1..Len(smallPrimes) :
            smallPrimes[k] <= 2 \/ (segmentStart + o) % smallPrimes[k] # 0}

\* VerifyGap: both ends prime and a sample of the numbers in between, every
\* max(1, gapSize / 100)-th from startPrime + 2, composite.
VerifyGap(startPrime, gapSize) ==
    LET step == MaxOf(1, gapSize \div 100)
    IN  /\ IsPrime(startPrime)
        /\ IsPrime(startPrime + gapSize)
        /\ \A i \in 2..(gapSize - 1) :
              (i - 2) % step = 0 => ~IsPrime(startPrime + i)

\* The gap MineThread hands to VerifyGap must be at least this long.
MinGap == 10

-----------------------------------------------------------------------------
(* CheckGapcoinProof (consensus).                                          *)

\* CalculatePrimeCandidate: hash * 2^shift + adder, made odd.
PrimeCandidate(res) ==
    LET p == HashValue * 2^res.nShift + res.nAdder
    IN  IF p % 2 = 0 THEN p + 1 ELSE p

\* VerifyGapComposites: every number strictly inside the gap is composite.
VerifyGapComposites(p, gapSize) ==
    gapSize >= 2 /\ \A off \in 1..(gapSize - 1) : ~IsPrime(p + off)

CheckGapcoinProof(res) ==
    /\ res.nShift \in 14..65536
    /\ res.nGapSize >= 2
    /\ res.nAdder < 2^res.nShift
    /\ LET p == PrimeCandidate(res)
       IN  /\ IsPrime(p)
           /\ IsPrime(p + res.nGapSize)
           /\ VerifyGapComposites(p, res.nGapSize)
           /\ res.nGapSize >= TargetGap

-----------------------------------------------------------------------------

VARIABLES
    smallPrimes,  \* m_smallPrimes
    startAdder,   \* the thread's startAdder
    sieve,        \* offsets whose bit is still set in the thread's sieve
    phase,        \* "sieve": top of the while loop; "scan": in the bit loops
    offset,       \* byteIdx * 8 + bit
    inGap,        \* inGap
    gapStart,     \* currentGapStart
    segments,     \* segments sieved (m_stats.sieveCycles)
    gapsFound,    \* m_stats.gapsFound
    bestGap,      \* the largest verified gap (m_stats.bestMerit)
    results       \* the GapcoinMiningResults handed to m_solutionCallback

vars == <<smallPrimes, startAdder, sieve, phase, offset, inGap, gapStart, segments,
          gapsFound, bestGap, results>>

\* The constructor's InitializeSieve and MineThread's set-up.
Init ==
    /\ smallPrimes = InitializeSieve
    /\ startAdder = ThreadId * RangePerThread
    /\ sieve = {}
    /\ phase = "sieve"
    /\ offset = 0
    /\ inGap = FALSE
    /\ gapStart = 0
    /\ segments = 0
    /\ gapsFound = 0
    /\ bestGap = 0
    /\ results = {}

\* Top of the while loop: fill the sieve, SieveSegment, sieveCycles++; the
\* gap state is local to the iteration.
SieveStep ==
    /\ phase = "sieve" /\ segments < MaxSegments
    /\ sieve' = SieveSegment(smallPrimes, startAdder)
    /\ segments' = segments + 1
    /\ phase' = "scan"
    /\ offset' = 0
    /\ inGap' = FALSE
    /\ gapStart' = 0
    /\ UNCHANGED <<smallPrimes, startAdder, gapsFound, bestGap, results>>

\* A gap of at least MinGap that VerifyGap accepts: gapsFound++, the best
\* merit rises to it, and a merit at the target becomes a result whose
\* nAdder is mpz_export(gapStart), the whole start of the gap.
RecordGap(g) ==
    LET start == BasePrime + startAdder + gapStart
    IN  IF g >= MinGap /\ VerifyGap(start, g)
          THEN /\ gapsFound' = gapsFound + 1
               /\ bestGap' = MaxOf(bestGap, g)
               /\ results' = IF g >= TargetGap
                               THEN results \cup {[nShift |-> Shift, nGapSize |-> g,
                                                   nAdder |-> start]}
                               ELSE results
          ELSE UNCHANGED <<gapsFound, bestGap, results>>

\* One bit of the scan: a set bit whose number basePrime + adder + offset
\* is prime closes the open gap (if any) and opens a new one.
ScanStep ==
    /\ phase = "scan" /\ offset < SegmentBits
    /\ offset' = offset + 1
    /\ IF offset \in sieve /\ IsPrime(BasePrime + startAdder + offset)
         THEN /\ IF inGap THEN RecordGap(offset - gapStart)
                          ELSE UNCHANGED <<gapsFound, bestGap, results>>
              /\ gapStart' = offset
              /\ inGap' = TRUE
         ELSE UNCHANGED <<inGap, gapStart, gapsFound, bestGap, results>>
    /\ UNCHANGED <<smallPrimes, startAdder, sieve, phase, segments>>

\* End of the segment: startAdder += m_nSieveSize * 8; past the thread's
\* range it restarts at threadId * rangePerThread + rng() % rangePerThread.
NextSegment ==
    /\ phase = "scan" /\ offset = SegmentBits
    /\ LET next == startAdder + SegmentBits
       IN  IF next >= RangePerThread * (ThreadId + 1)
             THEN \E r \in RngDraws :
                    startAdder' = ThreadId * RangePerThread + (r % RangePerThread)
             ELSE startAdder' = next
    /\ phase' = "sieve"
    /\ UNCHANGED <<smallPrimes, sieve, offset, inGap, gapStart, segments, gapsFound,
                   bestGap, results>>

Next == SieveStep \/ ScanStep \/ NextSegment

Spec == Init /\ [][Next]_vars

-----------------------------------------------------------------------------
(* Properties.                                                             *)

\* Every solution MineThread reports, put into a block header as its
\* nShift, nAdder and nGapSize, passes CheckGapcoinProof: the header
\* comment's p = sha256(header) * 2^shift + adder with adder < 2^shift.
SolutionAccepted == \A res \in results : CheckGapcoinProof(res)

\* SieveSegment clears only composites: the sieve's comment reads "1 =
\* potentially prime, 0 = composite" for the number basePrime + adder +
\* offset that the scan then tests.
SieveKeepsPrimes ==
    phase = "scan" =>
        \A o \in 0..(SegmentBits - 1) :
            IsPrime(BasePrime + startAdder + o) => o \in sieve

=============================================================================
