\* SJF only, five slots: heapify_up on a heap of size 5.
CONSTANTS
    Procs <- MCProcs5
    AproxVals = {0, 1, 2}
    ExeVals = {0}
    Algos = {0}
SPECIFICATION Spec
PROPERTY PutKeepsHeap
