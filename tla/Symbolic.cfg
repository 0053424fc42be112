\* All matrices of five columns, two processes, partitions of about two columns.
SPECIFICATION Spec
CONSTANTS N = 5
          P = 2
          PPS = 2
          Graphs <- const_Graphs
INVARIANTS TreeIsRight OrderIsRight BlocksAreRight
