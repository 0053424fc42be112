\* Two workers that both may add tasks, two queues, two phases.
SPECIFICATION FairSpec
CONSTANTS NumThreads = 2
          LgrpSize = 1
          Hints <- const_Hints
          Adders = {0, 1}
          Tasks = {a, b}
          NONE = NONE
          MaxPhases = 2
INVARIANTS OnePlace NoMoreWork PhaseComplete
PROPERTIES PhaseEnds
