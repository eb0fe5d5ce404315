\* Scheduling policy: init and one child on two CPUs, timer ticks up to a
\* burst of 2, one clock tick, change_sched between SJF (preemptive or not)
\* and CFS.
CONSTANTS
    NPROC = 2
    CPUs = {c1, c2}
    Chans = {ch}
    NoProc = NoProc
    NoChan = NoChan
    MaxTicks = 1
    MaxBurst = 2
    MaxPid = 3
    AVals = {50}
    PreemptVals = {0, 1}
SPECIFICATION Spec
CONSTRAINT HeapConstraint
SYMMETRY CPUSymmetry
PROPERTY SmoothedOnEnqueue
