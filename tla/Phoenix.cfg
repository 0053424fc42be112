\* A failed assertion aborts the program, which stops: no deadlock check.
SPECIFICATION SpecPhoenix
CHECK_DEADLOCK FALSE
CONSTANTS ChunkLen = 1
          NumProcs = 2
          ExtendedNumReduceTasks = 4
          DefaultNumReduceTasks = 5
          Calls <- MixedCalls
          Inputs <- MixedInputs
INVARIANTS NothingLostOrDoubled ResultsAreRight WorkIsDivided
PROPERTIES ProgramEnds
