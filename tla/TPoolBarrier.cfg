SPECIFICATION Spec
CONSTANTS NumThreads = 3
          MaxPhases = 3
INVARIANT BarrierWaits
