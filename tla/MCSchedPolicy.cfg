\* Scheduling policy: init and one child on two CPUs, one clock tick,
\* change_sched between SJF (preemptive or not) and CFS, whose timeslice of
\* 1 preempts at every tick: yield windows, duplicate and stale heap
\* entries, and the refinement of ProcStates through all of them.
CONSTANTS
    NPROC = 2
    CPUs = {c1, c2}
    Chans = {ch}
    NoProc = NoProc
    NoChan = NoChan
    MaxTicks = 1
    MaxBurst = 1
    MaxPid = 4
    AVals = {50}
    PreemptVals = {0, 1}
SPECIFICATION Spec
CONSTRAINT HeapConstraint
SYMMETRY CPUSymmetry
INVARIANT RunningOnOneCPU
INVARIANT RunnableIsQueued
PROPERTY RefinesProcStates
