\* A queue and a bucket of two, three progress values, two ticks to a token.
SPECIFICATION FairSpec
CONSTANTS
  MaxProgress = 3
  Burst = 2
  PerToken = 2
\* The call is over and the upstream has nothing left to say.
CHECK_DEADLOCK FALSE
INVARIANTS ToldInOrder RateKept
PROPERTY ProgressMoves
