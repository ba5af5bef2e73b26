---------------------------- MODULE MC_GapSearch ----------------------------
(* Model-checking instance of GapSearch; the constants are set in the .cfg. *)
EXTENDS GapSearch

\* rng() draws: one that keeps the next segment inside the thread's range
\* and one that runs it past the range's end.
MCRngDraws == {5, 63}

\* GenerateSmallPrimes agrees with trial division for every limit up to 150.
ASSUME \A l \in 0..150 :
          GenerateSmallPrimes(l) = SelectSeq([j \in 1..(l - 1) |-> j + 1], IsPrime)

\* The wheel the constructor builds has WHEEL_SIZE entries.
ASSUME Len(GenerateWheelPattern(WheelModulus)) = WheelSize

=============================================================================
