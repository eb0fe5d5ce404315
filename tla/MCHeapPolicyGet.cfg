\* SJF only, five slots: heapify_down after get() on a valid heap.
CONSTANTS
    Procs <- MCProcs5
    AproxVals = {0, 1, 2}
    ExeVals = {0}
    Algos = {0}
SPECIFICATION Spec
PROPERTY GetKeepsHeap
