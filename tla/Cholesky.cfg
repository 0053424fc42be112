\* A grid of two by two processes.
SPECIFICATION FairSpec
CONSTANTS P = 4
          Matrices <- const_Matrices
INVARIANTS FactoredWhenRight ForgetsWhatIsUsed StopsWhenDone
PROPERTIES Ends
