\* Two workers, two rounds, two runs; every run stops for good at some time.
SPECIFICATION FairSpec
CONSTANTS NThreads = 2
          CLength = 3
          Nets <- const_Nets
          Header = 1
          FirstMax = 1
          BufMax = 2
          LockSurvives = FALSE
          NoLog = NoLog
          Free = Free
          MaxRounds = 2
          MaxRuns = 2
INVARIANTS SectionsRight LogLosesNothing CompletedIsWhole
 
CHECK_DEADLOCK FALSE
