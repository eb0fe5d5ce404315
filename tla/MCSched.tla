------------------------------- MODULE MCSched -------------------------------
(* Model-checking instance of Sched.                                       *)
EXTENDS Sched, TLC

\* CPUs are interchangeable: scheduler() does not depend on cpuid().
CPUSymmetry == Permutations(CPUs)

\* Duplicate heap entries make the heap grow with every yield(); explore
\* heaps up to this length.
HeapBound == 3
HeapConstraint == Len(proc_sched.heap) <= HeapBound
=============================================================================
