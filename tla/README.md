# TLA+ models of the xv6 priority-queue scheduler

This directory holds the TLA+ models of the process scheduler in
`src/kernel/proc.c`, the TLC configurations that check them, and
`PROJECT.json`. `PROJECT.json` lists the components, runs, mutants, the map from
definitions to source lines, the findings and the hazards.

## The system

`proc.c` replaces xv6's round-robin loop with a binary min-heap
(`proc_sched.heap`). The heap is ordered by `cpu_burst_aprox` under SJF
(`algorithm` 0) or by `exe_time` under CFS (`algorithm` 1).

| Component | State | Operations |
|---|---|---|
| Priority queue | `proc_sched.heap[0..heap_size)` of `struct proc *` | `heapify_up`, `heapify_down`, `heapify_down_i`, `rearrange_heap` |
| Policy state | `proc_sched.{algorithm,is_preemptive,a,lock}` | `change_sched` (syscall `chsched`) |
| PCB scheduling fields | `state, cpu_burst, cpu_burst_aprox, exe_time, put_timestamp, timeslice, chan, killed, parent, pid` | written by `put`, `get`, `timer_routine`, `allocproc`, `freeproc` |
| State-transition API | the process table, `wait_lock`, `p->lock` | `put`, `get`, `yield`, `sleep`, `wakeup`, `fork`, `exit`, `wait`, `kill` |
| Per-CPU loop | `c->proc` | `scheduler`, `sched` |
| Timer routine | `cpu_burst`, global `ticks` | `timer_routine` (called from trap.c) |
| Not modelled | page tables, user memory, kernel stacks, `procdump`, `src/user/chsched.c` | see `PROJECT.json` |

How the components interact:

- **Enqueue.** `put` is the only way a process becomes RUNNABLE. It is called
  from `fork`, `wakeup`, `kill`, `yield` and `scheduler`. It holds `p->lock`,
  then `proc_sched.lock`. It updates the statistics and then inserts into the heap.
- **Dequeue.** `get` takes only `proc_sched.lock`. It removes the root and writes
  that process's `cpu_burst` and `timeslice` without holding `p->lock`.
- **Dispatch.** `scheduler` then takes `p->lock`. It re-checks RUNNABLE and
  switches to the process.
- **Preemption.** `timer_routine` increments `cpu_burst`. It calls `yield` when
  the CFS timeslice is used up, or on every tick under preemptive SJF. `yield`
  puts the process and switches back to `scheduler` while still holding
  `p->lock`. `scheduler` then calls `put` on it again (line 492) before it
  releases the lock.

What makes this code hard:

- CPUs interleave between `get` and `acquire(&p->lock)`.
- `p->lock` stays held across CPUs during the `yield` window.
- Stale heap entries are dispatched or discarded later.
- Fields are written by `get` without the owner's lock.
- Policy changes happen while processes are queued or running.
- The `wait`/`exit` sleep-wakeup protocol.

## Modules

- **`Heap.tla`**: the heap code as pure RECURSIVE operators over a sequence of
  process slots. C index `i` is sequence index `i+1`. Keys are read from the
  `aprox`/`exe` functions, just as the C code dereferences `arr[i]->field`.
  `IsMinHeap` is the reference definition.
- **`HeapPolicy.tla`**: the heap driven as its interface intends. Only
  processes not already queued are `put`, and `change_sched` re-arranges. The
  keys `put` leaves are a choice from small sets. This isolates the heap
  algorithms from the scheduler's misuse of them.
- **`Sched.tla`**: the whole scheduler.
  - `proc` is `struct proc proc[NPROC]` restricted to the scheduling fields.
    `proc_sched` is the policy record, and `cpu` is `c->proc`.
  - `spc` is where each CPU's `scheduler()` is: `get`, `acquire`, `switched` or
    `yielded`. `chosen` is its local `p`.
  - `ppc` says whether a process resumes in user code or in `wait()`'s loop.
  - Actions:
    - Loop and timer: `Get`, `Dispatch`/`Discard`, `SchedReturn` (line 492),
      `TimerTick`/`TimerPreempt` (`timer_routine` + `yield`).
    - Process calls: `Sleep`, `Wakeup`, `DeviceWakeup`, `Fork`, `ForkFails`, `Exit` (with
      `reparent`), `WaitReap`/`WaitCopyoutFails`/`WaitFails`/`WaitSleeps`,
      `Kill`, `ChangeSched`.
    - Environment: `Clock`, the global `ticks` of `clockintr`.
  - `ForkFails` is a `fork` whose `allocproc` took a slot and a pid (`AllocPid`)
    and then failed in `kalloc`/`proc_pagetable`, or whose `uvmcopy` failed.
    `freeproc` returns the slot to UNUSED, clearing `killed`, and the pid is
    spent.
  - `put` is the pure operator `PutS`. `wakeup`'s table scan is a fold of it
    (`WakeupS`), because the insertion order decides the heap layout.
  - Atomicity: a step is a stretch of code that holds the locks it needs. Steps
    that scan the table (`wakeup`, `wait`, `kill`, `fork`, `exit`) wait while
    any process lock is held in a `yield` window (`LocksFree`). In the code they
    would block on that lock.
- **`ProcStates.tla`**: the abstract specification of what the scheduler
  promises about process states, with no heap, statistics or policy.
  - `state` maps each process to its state. `oncpu` maps each CPU to the
    process it executes.
  - Actions: `Create`, `Run` (an idle CPU starts a RUNNABLE process), `Stop` (to
    RUNNABLE or SLEEPING), `Wake` (a set of sleepers), `Exit` (ZOMBIE, waking
    sleepers in the same step), `Reap` (ZOMBIE to UNUSED).
  - `Fairness` says that while a CPU is idle and a process is RUNNABLE, some
    CPU eventually runs a process.
  - `Sched` instantiates it as `PS` with the refinement mapping
    `state <- proc[p].state` and `oncpu <- AbsOnCPU`. `AbsOnCPU` is `cpu[c]`
    once `c` has switched to the process. In the `yield` window the process is
    RUNNABLE and the CPU counts as idle, so `TimerPreempt` is an abstract
    `Stop`, and `Get`, `Discard` and `SchedReturn` are stuttering steps.
- **`MCHeapPolicy.tla`, `MCSched.tla`**: instantiate the modules for TLC.
  - They define `CPUSymmetry`. This is sound because nothing in `scheduler()`
    depends on `cpuid()`.
  - They define `HeapConstraint` (heap length ≤ 3). The duplicate entries make
    the heap unbounded, so the state constraint bounds exploration.

## Runs

| Run | Result | What it shows |
|---|---|---|
| `heap_queue` | pass | sift loops only permute: the heap holds every queued process once |
| `heap_put_order` | violation | `heapify_up` starts at `curr/2` (line 700) |
| `heap_get_order` | violation | `heapify_down_i` takes the left child without comparing children (731) |
| `heap_rearrange_order` | violation | CFS right-child test compares `cpu_burst_aprox` (740) |
| `sched_lifecycle` | pass | fork (and its failure after `allocproc`)/sleep/wakeup/kill/exit/wait on 2 CPUs under `FairSpec`: no double run, `exit` wakes the waiting parent and init (`NoLostChildExit`), the heap holds exactly the RUNNABLE processes not yet taken, each once (`HeapIsRunQueue`, spec 8.1), a nonzero pid names one slot in use, after every path that frees a slot (`PidNamesLiveProcess`), and no CPU idles for ever beside a RUNNABLE process (`IdleCPURuns`) |
| `sched_policy` | pass | with preemption, CFS and `change_sched`, stale duplicates are never run twice and nothing RUNNABLE is lost; `Sched` refines `ProcStates` (`RefinesProcStates`) |
| `sched_heap_duplicates` | violation | line 492 puts a yielded process a second time; the heap then outgrows `NPROC` |
| `sched_exe_time_reset` | violation | the second put zeroes `exe_time` (770) |
| `sched_smoothing_head` | violation | line 766 tests `proc[0]`'s state, not `p`'s |
| `sched_stale_timeslice` | violation | a CFS timeslice preempts under non-preemptive SJF |
| `sched_burst_reset` | violation | `get` of a stale entry resets the burst of a process running elsewhere |
| `sched_fork_killed` | violation | `kill(0)` marks the first UNUSED slot (pid 0); `allocproc` keeps `killed`, so the next forked child starts killed |

Each property of a passing run has a mutant in `PROJECT.json`. The mutant is a
plausible bug in the mapped code, and TLC finds it. Examples: the RUNNABLE
re-check in `scheduler` dropped, and `get` losing the moved last entry. Two more mutants: `kill` putting every victim that
is not RUNNING, which only the refinement catches because it revives a ZOMBIE;
and `get` treating a one-entry heap as empty, which only `IdleCPURuns` catches.
`PidNamesLiveProcess` is broken by a `fork` failure path that resets only
the state instead of calling `freeproc`, so the free slot keeps its pid.
`HeapIsRunQueue` is broken by `wakeup` dropping its `state == SLEEPING` test.
Then a process woken twice on the same channel gets a second heap entry.

### Bounds

- **`sched_lifecycle`**: 3 slots, 2 CPUs, 1 channel, pids up to 5. The
  state space is finite without a constraint, so the liveness check is exact.
  It uses no symmetry, because TLC's liveness checking is unsound under
  symmetry.
  - Four forks in total, so slots are freed and reused.
  - Covers a child and a grandchild, reparenting, and waits that sleep, reap
    and fail.
  - No preemption, so there are no duplicate entries.
- **`sched_policy`**: 2 slots, 2 CPUs, bursts up to 1, one clock tick, pids up
  to 3. A burst of 1 is enough here, because CFS timeslices of 1 and
  preemptive SJF preempt at every tick. The smoothing run
  (`MCSchedSmooth.cfg`) and the other violation configurations keep bursts up
  to 2.
  - `change_sched` over both algorithms and `is_preemptive` ∈ {0,1}, with
    `a` = 50.
  - In the violation configurations, a burst of 2 is the smallest at which the average
    `(50*burst + 50*aprox)/100` becomes non-zero.
  - One tick makes the CFS timeslice computation non-trivial.
  - Preemption creates the duplicate entries the properties are about.
- **`HeapPolicy`**: five slots are needed for the `heapify_up` bug, whose first
  wrong parent appears at index 4.

### Fairness

`Sched!FairSpec` adds `SchedFairness`: weak fairness of `Get`, `Dispatch`,
`Discard` and `SchedReturn` for every CPU.
- **Why the code justifies it.** `scheduler()` loops with interrupts on. Its
  only waits are spinlocks that their holders release within one step of the
  model.
- **What stays unfair.** The steps of processes (system calls, exit, and so
  on) and the timer. Nothing forces a process to make a call, and the burst
  bound would cut the timer off.

Under this fairness `IdleCPURuns` holds. It says that while a CPU is idle and
a process is RUNNABLE, some CPU eventually runs a process.

The per-CPU form does not hold: "every idle CPU eventually runs a RUNNABLE
process". TLC finds a behaviour in which c2 wins every race for `get()`, and
c1 spins for ever seeing an empty heap. That is the expected cost of an unfair
`proc_sched.lock`, not a defect: the work is still done.

Starvation of a single process is not promised, and it happens. This was
checked with the `sched_lifecycle` constants on one CPU with four slots. The
property: if the CPU returns to `get()` infinitely often, every RUNNABLE
process eventually runs. TLC finds a lasso that violates it:
- two processes take turns sleeping and waking at the heap root;
- a third waits at index 1 for ever.

The cause is that `get()` moves the last entry to the root, so SJF breaks ties
last-in-first-out. Spec section 1 disclaims fairness guarantees and section 3
leaves ties unspecified. So this is neither a finding nor a hazard of the
code: the behaviour is the one the spec allows.

Liveness under preemption is not checked. Every `yield` adds a heap entry, so
the state space is infinite, and the state constraint that bounds it makes a
liveness verdict unsound.

## Not modelled

- **Process memory:** page tables, user memory and kernel stacks.
- **`procdump`:** output formatting only.
- **`chsched.c`:** the user-space tool. Its one state change is the
  `change_sched` system call, which `ChangeSched` models. The rest is `atoi`
  and printing, and spec 1 lists the tool as a non-goal.
- **Failure paths that change no state:** `fork` with a full table, and the
  `-2`/`-3` returns of `change_sched`. (A `fork` that fails after `allocproc`
  took a slot does change state, and is `ForkFails`.)
- **Usertrap's check of `killed`:** in trap.c, which is not among the files. A
  killed process may keep running in the model.
- **Unlocked accesses:** `get`'s store and `timer_routine`'s
  `cpu_burst += 1` are modelled as atomic. The lost-update variant of that race
  is not explored. Its effect would be a `cpu_burst` past the CFS timeslice, so
  the `==` test of line 860 never fires. Showing that needs a violation run of
  its own.

## Plan

1. Done: `Heap`, `HeapPolicy`, and `Sched` with safety runs.
2. Done: the `kill(0)` finding; liveness of the scheduler loop under
   `SchedFairness`; the abstract `ProcStates` and the refinement check.
3. Done: `HeapIsRunQueue` (spec 8.1 holds exactly while nothing yields);
   the SJF tie starvation analysed.
4. Done: `allocpid` and the failed `fork` (`ForkFails`); `PidNamesLiveProcess`.
   No type invariant is checked: `TypeOK` was dropped because no plausible
   bug in the C code changes only a field's type.
5. Next:
   - A `ReadyQueue` abstraction of the heap contents as a bag. It would show
     exactly how far the duplicates depart from "each RUNNABLE process once".
   - The lost-update race between `get`'s `cpu_burst = 0` and
     `timer_routine`'s `cpu_burst += 1`, as a two-step read-modify-write.
   - The `change_sched` argument checks for `a`, now a hazard without a run.
