\* Radix: eight processes (a tree of three levels), nine keys of two binary
\* digits.  The sizes of Lu and Fft are in MCSplash.
SPECIFICATION SpecSplash
CONSTANTS P = 8
          R = 2
          NumKeys = 9
          NumDigits = 2
          Inputs <- const_Inputs
          Spurious = FALSE
INVARIANTS NoConflict ResultsAreRight
PROPERTIES ProgramEnds
