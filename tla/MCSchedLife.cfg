\* Process lifecycle: init forks a child and a grandchild (pids 2, 3) on two
\* CPUs; sleep, wakeup, kill, exit (with reparenting) and wait interleave.
\* The timer never preempts (SJF, not preemptive, no change_sched), so there
\* are no duplicate heap entries and the state space is finite without a
\* constraint.  FairSpec adds weak fairness of every CPU's scheduler()
\* steps.  No symmetry: TLC's liveness checking is not sound under it.
CONSTANTS
    NPROC = 3
    CPUs = {c1, c2}
    Chans = {ch}
    NoProc = NoProc
    NoChan = NoChan
    MaxTicks = 0
    MaxBurst = 1
    MaxPid = 6
    AVals = {}
    PreemptVals = {}
SPECIFICATION FairSpec
INVARIANT RunningOnOneCPU
INVARIANT NoLostChildExit
INVARIANT HeapIsRunQueue
INVARIANT PidNamesLiveProcess
PROPERTY IdleCPURuns
