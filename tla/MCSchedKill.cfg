\* kill(0) marks the first UNUSED slot; fork() then reuses it.  The process
\* lifecycle bounds of MCSchedLife.cfg.
CONSTANTS
    NPROC = 3
    CPUs = {c1, c2}
    Chans = {ch}
    NoProc = NoProc
    NoChan = NoChan
    MaxTicks = 0
    MaxBurst = 1
    MaxPid = 6
    AVals = {}
    PreemptVals = {}
SPECIFICATION Spec
CONSTRAINT HeapConstraint
SYMMETRY CPUSymmetry
PROPERTY ForkedChildNotKilled
