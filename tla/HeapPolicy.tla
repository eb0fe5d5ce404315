----------------------------- MODULE HeapPolicy -----------------------------
(***************************************************************************)
(* The priority queue of struct sched_policy proc_sched, used the way its  *)
(* interface intends: put() of a process that is not queued, get() of the  *)
(* root, change_sched() re-arranging under a new key.  The statistics put  *)
(* writes (cpu_burst_aprox, exe_time) are abstracted to a choice from      *)
(* small sets; the heap code is the one of module Heap.  This isolates the *)
(* heap algorithms from the scheduler that drives them (module Sched).     *)
(***************************************************************************)
EXTENDS Heap, FiniteSets

CONSTANTS Procs,      \* process slots that may be queued
          AproxVals,  \* values put() may leave in cpu_burst_aprox
          ExeVals,    \* values put() may leave in exe_time
          Algos       \* algorithms change_sched() is called with

ASSUME /\ AproxVals \subseteq Int /\ ExeVals \subseteq Int
       /\ Algos \subseteq {0, 1}

VARIABLES heap,       \* proc_sched.heap[0..heap_size)
          algorithm,  \* proc_sched.algorithm
          aprox,      \* p->cpu_burst_aprox of every slot
          exe,        \* p->exe_time of every slot
          queued      \* history: the slots put and not yet returned by get

vars == <<heap, algorithm, aprox, exe, queued>>

InHeap(p) == \E i \in 1..Len(heap) : heap[i] = p

Init == /\ heap = <<>>
        /\ algorithm = 0
        /\ aprox = [p \in Procs |-> 0]
        /\ exe = [p \in Procs |-> 0]
        /\ queued = {}

\* put(p): the statistics update (abstracted), then append and heapify_up
\* under the new keys.
Put(p) ==
    /\ ~InHeap(p)
    /\ \E ka \in AproxVals, ke \in ExeVals :
          LET aprox2 == [aprox EXCEPT ![p] = ka]
              exe2   == [exe EXCEPT ![p] = ke]
          IN  /\ aprox' = aprox2
              /\ exe' = exe2
              /\ heap' = HeapInsert(heap, p, algorithm, aprox2, exe2)
    /\ queued' = queued \cup {p}
    /\ UNCHANGED algorithm

\* get() on a non-empty heap returns heap[0] and removes it.
Get ==
    /\ heap # <<>>
    /\ heap' = HeapRemoveRoot(heap, algorithm, aprox, exe)
    /\ queued' = queued \ {heap[1]}
    /\ UNCHANGED <<algorithm, aprox, exe>>

\* change_sched(algo, ...) with valid arguments: set the algorithm and
\* rearrange_heap under it.
ChangeSched(algo) ==
    /\ algorithm' = algo
    /\ heap' = RearrangeHeap(heap, Len(heap), algo, aprox, exe)
    /\ UNCHANGED <<aprox, exe, queued>>

Next == \/ \E p \in Procs : Put(p)
        \/ Get
        \/ \E algo \in Algos : ChangeSched(algo)

Spec == Init /\ [][Next]_vars

-----------------------------------------------------------------------------
TypeOK == /\ heap \in Seq(Procs)
          /\ algorithm \in {0, 1}
          /\ aprox \in [Procs -> AproxVals \cup {0}]
          /\ exe \in [Procs -> ExeVals \cup {0}]
          /\ queued \subseteq Procs

\* The sift loops of heapify_up / heapify_down_i only permute: the heap
\* holds every process put and not yet got, each exactly once.
HeapHoldsQueued ==
    /\ Len(heap) = Cardinality(queued)
    /\ \A p \in queued : InHeap(p)

CurrentKey == Key(algorithm, aprox, exe)

\* put() keeps a valid min-heap valid under the current key (spec 4.1,
\* heapify_up).
PutKeepsHeap ==
    [][ (IsMinHeap(heap, CurrentKey) /\ \E p \in Procs : Put(p))
          => IsMinHeap(heap', CurrentKey') ]_vars

\* get() keeps a valid min-heap valid under the current key (spec 4.1,
\* heapify_down).
GetKeepsHeap ==
    [][ (IsMinHeap(heap, CurrentKey) /\ Get) => IsMinHeap(heap', CurrentKey') ]_vars

\* After change_sched() the heap is a valid min-heap under the new key,
\* whatever order it was in (spec 8.3, rearrange_heap).
ChangeSchedMakesHeap ==
    [][ (\E algo \in Algos : ChangeSched(algo))
          => IsMinHeap(heap', Key(algorithm', aprox', exe')) ]_vars
=============================================================================
