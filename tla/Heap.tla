-------------------------------- MODULE Heap --------------------------------
(***************************************************************************)
(* The array-backed binary heap of src/kernel/proc.c (heapify_up,          *)
(* heapify_down, heapify_down_i, rearrange_heap) as pure operators.        *)
(*                                                                         *)
(* arr is the prefix heap[0..n) of proc_sched.heap as a TLA+ sequence; the *)
(* C index i is the sequence index i+1.  An element is a process slot; its *)
(* key is read from the functions aprox (cpu_burst_aprox) and exe          *)
(* (exe_time), exactly as the C code dereferences arr[i]->field.           *)
(***************************************************************************)
EXTENDS Integers, Sequences

\* The key selected by proc_sched.algorithm: 0 = SJF, otherwise CFS.
Key(algo, aprox, exe) == IF algo = 0 THEN aprox ELSE exe

\* arr[i] in C (0-based).
At(arr, i) == arr[i + 1]

\* Mutant of Swap: arr[j] = tmp forgotten.
SwapLost(arr, i, j) == [arr EXCEPT ![i + 1] = arr[j + 1]]

\* The three-assignment swap through struct proc *tmp.
Swap(arr, i, j) == [arr EXCEPT ![i + 1] = arr[j + 1], ![j + 1] = arr[i + 1]]

\* The while(1) loop of heapify_up: swap with `parent` while strictly
\* smaller, stop after the root; the next parent is (curr - 1) / 2.
RECURSIVE SiftUp(_, _, _, _)
SiftUp(arr, curr, parent, k) ==
    IF k[At(arr, curr)] < k[At(arr, parent)]
    THEN IF parent = 0
         THEN Swap(arr, curr, parent)
         ELSE SiftUp(Swap(arr, curr, parent), parent, (parent - 1) \div 2, k)
    ELSE arr

\* heapify_up(arr, n, algo): the first parent index is curr / 2.
HeapifyUp(arr, n, algo, aprox, exe) ==
    IF n = 1 THEN arr
    ELSE SiftUp(arr, n - 1, (n - 1) \div 2, Key(algo, aprox, exe))

\* The while(1) loop of heapify_down_i.  The left child is tried first and
\* taken whenever it is smaller under kl; only otherwise is the right child
\* compared, under kr.
RECURSIVE SiftDown(_, _, _, _, _)
SiftDown(arr, n, curr, kl, kr) ==
    LET l == 2 * curr + 1
        r == 2 * curr + 2
    IN  IF l < n /\ kl[At(arr, curr)] > kl[At(arr, l)]
        THEN SiftDown(Swap(arr, curr, l), n, l, kl, kr)
        ELSE IF r < n /\ kr[At(arr, curr)] > kr[At(arr, r)]
        THEN SiftDown(Swap(arr, curr, r), n, r, kl, kr)
        ELSE arr

\* heapify_down_i(arr, n, i, algo).  Both disjuncts of the right-child test
\* compare cpu_burst_aprox, so the right child is ordered by aprox whatever
\* the algorithm.
HeapifyDownI(arr, n, i, algo, aprox, exe) ==
    IF n = 1 THEN arr
    ELSE SiftDown(arr, n, i, Key(algo, aprox, exe), aprox)

HeapifyDown(arr, n, algo, aprox, exe) == HeapifyDownI(arr, n, 0, algo, aprox, exe)

\* The for loop of rearrange_heap, i from n/2 - 1 down to 0.
RECURSIVE RearrangeFrom(_, _, _, _, _, _)
RearrangeFrom(arr, n, i, algo, aprox, exe) ==
    IF i < 0 THEN arr
    ELSE RearrangeFrom(HeapifyDownI(arr, n, i, algo, aprox, exe),
                       n, i - 1, algo, aprox, exe)

RearrangeHeap(arr, n, algo, aprox, exe) ==
    RearrangeFrom(arr, n, n \div 2 - 1, algo, aprox, exe)

\* The heap part of put(): store at heap[heap_size], grow, heapify_up.
HeapInsert(arr, p, algo, aprox, exe) ==
    HeapifyUp(Append(arr, p), Len(arr) + 1, algo, aprox, exe)

\* Mutant of HeapRemoveRoot: heap_size decremented twice.
HeapRemoveRootShort(arr, algo, aprox, exe) ==
    LET n == Len(arr) - 1
    IN  HeapifyDown(SubSeq([arr EXCEPT ![1] = arr[Len(arr)]], 1, n - 1),
                    n - 1, algo, aprox, exe)

\* The heap part of get() on a non-empty heap: the last element replaces the
\* root, heap_size shrinks by one, heapify_down.
HeapRemoveRoot(arr, algo, aprox, exe) ==
    LET n == Len(arr) - 1
    IN  HeapifyDown(SubSeq([arr EXCEPT ![1] = arr[Len(arr)]], 1, n),
                    n, algo, aprox, exe)

\* Reference definition: every element is no smaller than its parent
\* (1-based parent index i \div 2) under key k.
IsMinHeap(arr, k) ==
    \A i \in 2..Len(arr) : k[arr[i \div 2]] <= k[arr[i]]
=============================================================================
