\* Any sequence of worker counts: what holds when the counts never shrink, and
\* that tpool_wait and tpool_destroy return whatever the counts are.
SPECIFICATION FairSpec
CONSTANTS NumThreads = 3
          MaxPhases = 2
INVARIANTS TypeOK SteadyBarrierWaits RunsItsDispatch ResultsAreFresh
           EverybodyWasCounted
PROPERTIES MainEnds SteadyImplementsForkJoin
