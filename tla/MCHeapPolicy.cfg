\* Both algorithms, four slots, keys 0..2: every permutation the sift loops
\* can produce of up to four queued processes.
CONSTANTS
    Procs <- MCProcs4
    AproxVals = {0, 1, 2}
    ExeVals = {0, 1, 2}
    Algos = {0, 1}
SPECIFICATION Spec
INVARIANT HeapHoldsQueued
