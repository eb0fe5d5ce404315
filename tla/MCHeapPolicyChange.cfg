\* Both algorithms, three slots: rearrange_heap under the CFS key.
CONSTANTS
    Procs <- MCProcs4
    AproxVals = {0, 1}
    ExeVals = {0, 1}
    Algos = {0, 1}
SPECIFICATION Spec
PROPERTY ChangeSchedMakesHeap
