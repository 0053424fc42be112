\* The assertion of verifier.h on the saved log.
SPECIFICATION Spec
CONSTANTS NThreads = 2
          CLength = 4
          Nets <- const_HttpWorks
          Header = 1
          FirstMax = 2
          BufMax = 2
          LockSurvives = FALSE
          NoLog = NoLog
          Free = Free
          MaxRounds = 2
          MaxRuns = 1
INVARIANT LogVerifies
CHECK_DEADLOCK FALSE
