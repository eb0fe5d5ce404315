------------------------------- MODULE Sched -------------------------------
(***************************************************************************)
(* The process scheduler of src/kernel/proc.c on NCPU CPUs: the process    *)
(* table proc[], the priority queue proc_sched, the per-CPU scheduler()    *)
(* loop, the timer routine and the state-transition calls that running     *)
(* processes make (sleep, wakeup, fork, exit, wait, kill, change_sched).   *)
(*                                                                         *)
(* Atomicity.  A step is a stretch of code during which the locks it needs *)
(* are held, so no other CPU can observe an intermediate state.  The only  *)
(* place where a lock stays held across steps of different CPUs is yield(): *)
(* p->lock is taken before put(p) and released by scheduler() after its    *)
(* own put at line 492, while other CPUs may call get() (which takes only  *)
(* proc_sched.lock) in between; spc[c] = "yielded" is that window.  get()  *)
(* and the acquire(&p->lock) that follows it are separate steps too.       *)
(***************************************************************************)
EXTENDS Heap, SequencesExt

CONSTANTS NPROC,        \* slots of proc[]
          CPUs,         \* the CPUs, each running scheduler()
          Chans,        \* sleep channels other than a process (wait())
          NoProc,       \* the null struct proc *
          NoChan,       \* the null channel
          MaxTicks,     \* bound on the global ticks counter
          MaxBurst,     \* bound on p->cpu_burst
          MaxPid,       \* bound on nextpid, i.e. on fork()
          AVals,        \* values of a passed to change_sched
          PreemptVals   \* values of is_preemptive passed to change_sched

Procs == 0 .. NPROC - 1

\* proc[0] is initproc: userinit() takes the first UNUSED slot at boot.
InitProc == 0

ASSUME /\ NPROC \in Nat \ {0}
       /\ NoProc \notin Procs /\ NoChan \notin Chans \cup Procs
       /\ {MaxTicks, MaxBurst, MaxPid} \subseteq Nat
       /\ AVals \subseteq Int /\ PreemptVals \subseteq Int

VARIABLES proc,        \* struct proc proc[NPROC], scheduling fields
          proc_sched,  \* struct sched_policy proc_sched
          ticks,       \* the global tick counter
          nextpid,     \* the pid counter of allocpid()
          cpu,         \* c->proc of every CPU
          spc,         \* where scheduler() of every CPU is
          chosen,      \* the local p of scheduler(), returned by get()
          ppc          \* where a process resumes: user code or wait()'s loop

vars == <<proc, proc_sched, ticks, nextpid, cpu, spc, chosen, ppc>>

-----------------------------------------------------------------------------
(* Helpers                                                                 *)

\* C integer division truncates toward zero; TLA+ \div floors.
CDiv(x, y) == IF x >= 0 THEN x \div y ELSE -((-x) \div y)

Aprox(pr) == [q \in Procs |-> pr[q].cpu_burst_aprox]
Exe(pr) == [q \in Procs |-> pr[q].exe_time]

\* The fields of a slot as allocproc() leaves them, and freeproc().
Fresh(pid, parent, killed) ==
    [state |-> "USED", pid |-> pid, parent |-> parent, killed |-> killed,
     chan |-> NoChan, cpu_burst |-> 0, cpu_burst_aprox |-> 0,
     exe_time |-> 0, put_timestamp |-> 0, timeslice |-> 0]
Freed == [Fresh(0, NoProc, 0) EXCEPT !.state = "UNUSED"]

\* Some CPU is between yield() and line 492 of scheduler(), holding p->lock.
LockHeld(p) == \E c \in CPUs : spc[c] = "yielded" /\ cpu[c] = p
\* No process lock is held by a CPU across steps.
LocksFree == \A q \in Procs : ~LockHeld(q)

InHeap(p) == \E i \in 1..Len(proc_sched.heap) : proc_sched.heap[i] = p

Running(c) == spc[c] = "switched"

\* put(p) on the pair s = [proc, heap].  The exponential average is guarded
\* by proc->state, the state of proc[0], not p->state (line 766).
PutS(s, p) ==
    LET pr  == s.proc
        smoothed == CDiv(proc_sched.a * pr[p].cpu_burst
                           + (100 - proc_sched.a) * pr[p].cpu_burst_aprox, 100)
        pr2 == [pr EXCEPT
                  ![p].cpu_burst_aprox = IF pr[InitProc].state # "RUNNING"
                                         THEN smoothed ELSE @,
                  ![p].exe_time = IF pr[p].state = "RUNNING"
                                  THEN @ + pr[p].cpu_burst ELSE 0,
                  ![p].put_timestamp = ticks,
                  ![p].state = "RUNNABLE"]
    IN  [proc |-> pr2,
         heap |-> HeapInsert(s.heap, p, proc_sched.algorithm, Aprox(pr2), Exe(pr2))]

\* Mutant of WakeupS: the p->state == SLEEPING test dropped, so a process
\* still carrying chan after its wakeup is put again.
WakeupNoStateCheck(s, chan, self) ==
    LET wake(acc, q) == IF q # self /\ acc.proc[q].state # "UNUSED"
                                    /\ acc.proc[q].chan = chan
                        THEN PutS(acc, q) ELSE acc
    IN  FoldLeft(wake, s, [i \in 1..NPROC |-> i - 1])

\* wakeup(chan) from a context whose myproc() is self: put every other
\* process SLEEPING on chan, in table order.
WakeupS(s, chan, self) ==
    LET wake(acc, q) == IF q # self /\ acc.proc[q].state = "SLEEPING"
                                    /\ acc.proc[q].chan = chan
                        THEN PutS(acc, q) ELSE acc
    IN  FoldLeft(wake, s, [i \in 1..NPROC |-> i - 1])

Now == [proc |-> proc, heap |-> proc_sched.heap]

\* Write back a [proc, heap] pair.
Commit(s) == /\ proc' = s.proc
             /\ proc_sched' = [proc_sched EXCEPT !.heap = s.heap]

-----------------------------------------------------------------------------
Init ==
    \* userinit(): allocproc() takes proc[0], put() enqueues it at ticks 0
    \* (cpu_burst and cpu_burst_aprox are 0, so the average stays 0).
    /\ proc = [q \in Procs |->
                 IF q = InitProc
                 THEN [Fresh(1, NoProc, 0) EXCEPT !.state = "RUNNABLE"]
                 ELSE Freed]
    /\ proc_sched = [heap |-> <<InitProc>>, algorithm |-> 0,
                     is_preemptive |-> 0, a |-> 50]
    /\ ticks = 0
    /\ nextpid = 2
    /\ cpu = [c \in CPUs |-> NoProc]
    /\ spc = [c \in CPUs |-> "get"]
    /\ chosen = [c \in CPUs |-> NoProc]
    /\ ppc = [q \in Procs |-> "user"]

-----------------------------------------------------------------------------
(* scheduler(), get() and the return from swtch                            *)

\* Mutant of Get: heap_size <= 1 taken for an empty heap.
GetEmptyAtOne(c) ==
    /\ spc[c] = "get"
    /\ Len(proc_sched.heap) > 1
    /\ LET h   == proc_sched.heap
           ret == h[1]
           n   == Len(h) - 1
           sl  == (ticks - proc[ret].put_timestamp) \div (n + 1)
       IN  /\ proc' = [proc EXCEPT
                         ![ret].cpu_burst = 0,
                         ![ret].timeslice = IF proc_sched.algorithm = 1
                                            THEN IF sl = 0 THEN 1 ELSE sl
                                            ELSE @]
           /\ proc_sched' = [proc_sched EXCEPT !.heap =
                               HeapRemoveRoot(h, proc_sched.algorithm,
                                              Aprox(proc), Exe(proc))]
           /\ chosen' = [chosen EXCEPT ![c] = ret]
    /\ spc' = [spc EXCEPT ![c] = "acquire"]
    /\ UNCHANGED <<ticks, nextpid, cpu, ppc>>

\* get() on a non-empty heap: take the root, reset its cpu_burst, move the
\* last entry to the root and heapify_down; under CFS give it a timeslice
\* of (ticks - put_timestamp) / (heap_size + 1), at least 1.  Neither write
\* to ret holds ret->lock.
Get(c) ==
    /\ spc[c] = "get"
    /\ proc_sched.heap # <<>>
    /\ LET h   == proc_sched.heap
           ret == h[1]
           n   == Len(h) - 1
           sl  == (ticks - proc[ret].put_timestamp) \div (n + 1)
       IN  /\ proc' = [proc EXCEPT
                         ![ret].cpu_burst = 0,
                         ![ret].timeslice = IF proc_sched.algorithm = 1
                                            THEN IF sl = 0 THEN 1 ELSE sl
                                            ELSE @]
           /\ proc_sched' = [proc_sched EXCEPT !.heap =
                               HeapRemoveRoot(h, proc_sched.algorithm,
                                              Aprox(proc), Exe(proc))]
           /\ chosen' = [chosen EXCEPT ![c] = ret]
    /\ spc' = [spc EXCEPT ![c] = "acquire"]
    /\ UNCHANGED <<ticks, nextpid, cpu, ppc>>

\* Mutant of Dispatch: the p->state == RUNNABLE re-check dropped.
DispatchNoRecheck(c) ==
    LET p == chosen[c] IN
    /\ spc[c] = "acquire"
    /\ ~LockHeld(p)
    /\ proc' = [proc EXCEPT ![p].state = "RUNNING", ![p].chan = NoChan]
    /\ cpu' = [cpu EXCEPT ![c] = p]
    /\ spc' = [spc EXCEPT ![c] = "switched"]
    /\ chosen' = [chosen EXCEPT ![c] = NoProc]
    /\ UNCHANGED <<proc_sched, ticks, nextpid, ppc>>

\* acquire(&p->lock) on a RUNNABLE p: mark it RUNNING and swtch to it.  The
\* process resumes in sched() and, still holding p->lock, finishes the code
\* that released it: forkret(), yield(), or sleep() which clears p->chan.
Dispatch(c) ==
    LET p == chosen[c] IN
    /\ spc[c] = "acquire"
    /\ ~LockHeld(p)
    /\ proc[p].state = "RUNNABLE"
    /\ proc' = [proc EXCEPT ![p].state = "RUNNING", ![p].chan = NoChan]
    /\ cpu' = [cpu EXCEPT ![c] = p]
    /\ spc' = [spc EXCEPT ![c] = "switched"]
    /\ chosen' = [chosen EXCEPT ![c] = NoProc]
    /\ UNCHANGED <<proc_sched, ticks, nextpid, ppc>>

\* acquire(&p->lock) on a p that is no longer RUNNABLE: release, loop.
Discard(c) ==
    LET p == chosen[c] IN
    /\ spc[c] = "acquire"
    /\ ~LockHeld(p)
    /\ proc[p].state # "RUNNABLE"
    /\ spc' = [spc EXCEPT ![c] = "get"]
    /\ chosen' = [chosen EXCEPT ![c] = NoProc]
    /\ UNCHANGED <<proc, proc_sched, ticks, nextpid, cpu, ppc>>

\* Back from swtch after yield(): if c->proc is RUNNABLE put it (line 492),
\* clear c->proc, release p->lock.
SchedReturn(c) ==
    LET p == cpu[c] IN
    /\ spc[c] = "yielded"
    /\ IF proc[p].state = "RUNNABLE" THEN Commit(PutS(Now, p))
                                     ELSE UNCHANGED <<proc, proc_sched>>
    /\ cpu' = [cpu EXCEPT ![c] = NoProc]
    /\ spc' = [spc EXCEPT ![c] = "get"]
    /\ UNCHANGED <<ticks, nextpid, chosen, ppc>>

\* Mutant of SwitchOut: c->proc = 0 forgotten.
SwitchOutKeepProc(c) == /\ cpu' = cpu
                        /\ spc' = [spc EXCEPT ![c] = "get"]

\* The switch into sched() of a process that left the RUNNING state and the
\* return to scheduler(), where c->proc is not RUNNABLE: clear c->proc and
\* release p->lock.
SwitchOut(c) == /\ cpu' = [cpu EXCEPT ![c] = NoProc]
                /\ spc' = [spc EXCEPT ![c] = "get"]

-----------------------------------------------------------------------------
(* The timer                                                               *)

\* clockintr() on CPU 0 advances ticks.
Clock == /\ ticks < MaxTicks
         /\ ticks' = ticks + 1
         /\ UNCHANGED <<proc, proc_sched, nextpid, cpu, spc, chosen, ppc>>

Preempts(p, burst) ==
    \/ proc[p].timeslice # 0 /\ burst = proc[p].timeslice
    \/ proc_sched.algorithm = 0 /\ proc_sched.is_preemptive = 1

\* timer_routine(p) on the CPU running p: cpu_burst += 1, no yield.
TimerTick(c) ==
    LET p == cpu[c] IN
    /\ Running(c)
    /\ proc[p].cpu_burst < MaxBurst
    /\ ~Preempts(p, proc[p].cpu_burst + 1)
    /\ proc' = [proc EXCEPT ![p].cpu_burst = @ + 1]
    /\ UNCHANGED <<proc_sched, ticks, nextpid, cpu, spc, chosen, ppc>>

\* timer_routine(p) that calls yield(): acquire p->lock, put(p) while p is
\* RUNNING, sched() back into scheduler() still holding p->lock.
TimerPreempt(c) ==
    LET p == cpu[c] IN
    /\ Running(c)
    /\ proc[p].cpu_burst < MaxBurst
    /\ Preempts(p, proc[p].cpu_burst + 1)
    /\ Commit(PutS([Now EXCEPT !.proc[p].cpu_burst = @ + 1], p))
    /\ spc' = [spc EXCEPT ![c] = "yielded"]
    /\ UNCHANGED <<ticks, nextpid, cpu, chosen, ppc>>

-----------------------------------------------------------------------------
(* Calls of the running process                                            *)

\* The process on c runs its own code, outside wait()'s loop.
InUser(c) == Running(c) /\ ppc[cpu[c]] = "user"

\* sleep(chan, lk): acquire p->lock, release lk, SLEEPING on chan, sched().
Sleep(c, ch) ==
    LET p == cpu[c] IN
    /\ InUser(c)
    /\ proc' = [proc EXCEPT ![p].chan = ch, ![p].state = "SLEEPING"]
    /\ SwitchOut(c)
    /\ UNCHANGED <<proc_sched, ticks, nextpid, chosen, ppc>>

\* wakeup(chan) called by the running process.
Wakeup(c, ch) ==
    /\ InUser(c)
    /\ LocksFree
    /\ Commit(WakeupS(Now, ch, cpu[c]))
    /\ UNCHANGED <<ticks, nextpid, cpu, spc, chosen, ppc>>

\* wakeup(chan) from a device interrupt handler: it skips only the
\* interrupted process, which is not SLEEPING.
DeviceWakeup(ch) ==
    /\ LocksFree
    /\ Commit(WakeupS(Now, ch, NoProc))
    /\ UNCHANGED <<ticks, nextpid, cpu, spc, chosen, ppc>>

Unused == {q \in Procs : proc[q].state = "UNUSED"}

\* allocpid(): under pid_lock, hand out nextpid and advance it.
AllocPid == /\ nextpid < MaxPid
            /\ nextpid' = nextpid + 1

\* Mutant of ForkFails: the failure path undoes only p->state = USED
\* instead of calling freeproc(), so the slot keeps the pid it was given.
ForkFailsNoFree(c) ==
    /\ InUser(c)
    /\ LocksFree
    /\ Unused # {}
    /\ AllocPid
    /\ proc' = [proc EXCEPT ![Min(Unused)].pid = nextpid]
    /\ UNCHANGED <<proc_sched, ticks, cpu, spc, chosen, ppc>>

\* fork() whose allocproc() found an UNUSED slot and took a pid, but whose
\* kalloc() of the trapframe or proc_pagetable() failed (or, the same
\* effect, whose uvmcopy() failed): freeproc() returns the slot to UNUSED,
\* clearing killed, and fork() returns -1.  The pid is spent.
ForkFails(c) ==
    /\ InUser(c)
    /\ LocksFree
    /\ Unused # {}
    /\ AllocPid
    /\ proc' = [proc EXCEPT ![Min(Unused)] = Freed]
    /\ UNCHANGED <<proc_sched, ticks, cpu, spc, chosen, ppc>>

\* fork(): allocproc() takes the first UNUSED slot (pid from allocpid(),
\* statistics zeroed, killed left as it is), parent is set under wait_lock,
\* put(np).
Fork(c) ==
    /\ InUser(c)
    /\ LocksFree
    /\ Unused # {}
    /\ LET np == Min(Unused)
           pr == [proc EXCEPT ![np] = Fresh(nextpid, cpu[c], proc[np].killed)]
       IN  /\ Commit(PutS([proc |-> pr, heap |-> proc_sched.heap], np))
           /\ ppc' = [ppc EXCEPT ![np] = "user"]
    /\ AllocPid
    /\ UNCHANGED <<ticks, cpu, spc, chosen>>

\* Mutant of Exit: wakeup(p->parent) dropped.
ExitNoParentWakeup(c) ==
    LET p == cpu[c]
        reparent(acc, q) ==
            IF acc.proc[q].parent = p
            THEN WakeupS([acc EXCEPT !.proc[q].parent = InitProc], InitProc, p)
            ELSE acc
        s1 == FoldLeft(reparent, Now, [i \in 1..NPROC |-> i - 1])
    IN  /\ InUser(c)
        /\ p # InitProc
        /\ LocksFree
        /\ Commit([s1 EXCEPT !.proc[p].state = "ZOMBIE"])
        /\ SwitchOut(c)
        /\ UNCHANGED <<ticks, nextpid, chosen, ppc>>

\* exit(): under wait_lock give the children to init, waking init for each,
\* wake the parent, become ZOMBIE, sched() never to return.
Exit(c) ==
    LET p == cpu[c]
        reparent(acc, q) ==
            IF acc.proc[q].parent = p
            THEN WakeupS([acc EXCEPT !.proc[q].parent = InitProc], InitProc, p)
            ELSE acc
        s1 == FoldLeft(reparent, Now, [i \in 1..NPROC |-> i - 1])
        s2 == WakeupS(s1, s1.proc[p].parent, p)
    IN  /\ InUser(c)
        /\ p # InitProc
        /\ LocksFree
        /\ Commit([s2 EXCEPT !.proc[p].state = "ZOMBIE"])
        /\ SwitchOut(c)
        /\ UNCHANGED <<ticks, nextpid, chosen, ppc>>

\* The children of p in table order.
Kids(p) == {q \in Procs : proc[q].parent = p}
Zombies(p) == {q \in Kids(p) : proc[q].state = "ZOMBIE"}

\* One pass of wait()'s loop, from user code or resumed after sleep().
InWait(c) == Running(c) /\ ppc[cpu[c]] \in {"user", "wait"}

\* The first ZOMBIE child is found: copyout of xstate, freeproc, return pid.
WaitReap(c) ==
    LET p == cpu[c] IN
    /\ InWait(c)
    /\ LocksFree
    /\ Zombies(p) # {}
    /\ proc' = [proc EXCEPT ![Min(Zombies(p))] = Freed]
    /\ ppc' = [ppc EXCEPT ![p] = "user"]
    /\ UNCHANGED <<proc_sched, ticks, nextpid, cpu, spc, chosen>>

\* copyout() of xstate fails: return -1 and leave the child ZOMBIE.
WaitCopyoutFails(c) ==
    LET p == cpu[c] IN
    /\ InWait(c)
    /\ LocksFree
    /\ Zombies(p) # {}
    /\ ppc' = [ppc EXCEPT ![p] = "user"]
    /\ UNCHANGED <<proc, proc_sched, ticks, nextpid, cpu, spc, chosen>>

\* No children, or p->killed: return -1.
WaitFails(c) ==
    LET p == cpu[c] IN
    /\ InWait(c)
    /\ LocksFree
    /\ Zombies(p) = {}
    /\ Kids(p) = {} \/ proc[p].killed # 0
    /\ ppc' = [ppc EXCEPT ![p] = "user"]
    /\ UNCHANGED <<proc, proc_sched, ticks, nextpid, cpu, spc, chosen>>

\* Children that have not exited: sleep(p, &wait_lock).
WaitSleeps(c) ==
    LET p == cpu[c] IN
    /\ InWait(c)
    /\ LocksFree
    /\ Zombies(p) = {}
    /\ Kids(p) # {} /\ proc[p].killed = 0
    /\ proc' = [proc EXCEPT ![p].chan = p, ![p].state = "SLEEPING"]
    /\ ppc' = [ppc EXCEPT ![p] = "wait"]
    /\ SwitchOut(c)
    /\ UNCHANGED <<proc_sched, ticks, nextpid, chosen>>

\* Mutant of Kill: every victim that is not RUNNING is put().
KillNotRunning(c, pid) ==
    LET match == {q \in Procs : proc[q].pid = pid}
        q == Min(match)
    IN  /\ InUser(c)
        /\ LocksFree
        /\ match # {}
        /\ LET s == [Now EXCEPT !.proc[q].killed = 1]
           IN  Commit(IF proc[q].state # "RUNNING" THEN PutS(s, q) ELSE s)
        /\ UNCHANGED <<ticks, nextpid, cpu, spc, chosen, ppc>>

\* kill(pid): the first slot whose pid matches is marked killed and, if
\* SLEEPING, put().  A pid that matches nothing returns -1.
Kill(c, pid) ==
    LET match == {q \in Procs : proc[q].pid = pid}
        q == Min(match)
    IN  /\ InUser(c)
        /\ LocksFree
        /\ match # {}
        /\ LET s == [Now EXCEPT !.proc[q].killed = 1]
           IN  Commit(IF proc[q].state = "SLEEPING" THEN PutS(s, q) ELSE s)
        /\ UNCHANGED <<ticks, nextpid, cpu, spc, chosen, ppc>>

\* change_sched(algo, is_preemptive, a) with arguments it accepts: store
\* them and rearrange_heap under the new algorithm.
ChangeSched(c, algo, isp, a) ==
    /\ InUser(c)
    /\ algo \in {0, 1} /\ isp >= 0
    /\ algo = 0 => a \in 0..100
    /\ proc_sched' = [proc_sched EXCEPT
                        !.algorithm = algo, !.is_preemptive = isp, !.a = a,
                        !.heap = RearrangeHeap(@, Len(@), algo,
                                               Aprox(proc), Exe(proc))]
    /\ UNCHANGED <<proc, ticks, nextpid, cpu, spc, chosen, ppc>>

-----------------------------------------------------------------------------
Next ==
    \/ \E c \in CPUs :
          \/ Get(c) \/ Dispatch(c) \/ Discard(c) \/ SchedReturn(c)
          \/ TimerTick(c) \/ TimerPreempt(c)
          \/ \E ch \in Chans : Sleep(c, ch) \/ Wakeup(c, ch)
          \/ Fork(c) \/ ForkFails(c) \/ Exit(c)
          \/ WaitReap(c) \/ WaitCopyoutFails(c) \/ WaitFails(c) \/ WaitSleeps(c)
          \/ \E pid \in 0..MaxPid : Kill(c, pid)
          \/ \E algo \in {0, 1}, isp \in PreemptVals, a \in AVals :
                ChangeSched(c, algo, isp, a)
    \/ Clock
    \/ \E ch \in Chans : DeviceWakeup(ch)

Spec == Init /\ [][Next]_vars

\* scheduler() runs with interrupts on and takes only spinlocks that their
\* holders release within a step, so each CPU keeps taking its loop steps.
\* Nothing forces a process to make a system call, so its own steps are
\* not fair.
SchedFairness ==
    \A c \in CPUs : /\ WF_vars(Get(c)) /\ WF_vars(Dispatch(c))
                   /\ WF_vars(Discard(c)) /\ WF_vars(SchedReturn(c))

FairSpec == Spec /\ SchedFairness

-----------------------------------------------------------------------------
(* Refinement mapping to ProcStates: a process executes on c once c has    *)
(* switched to it; between yield() and line 492 it is RUNNABLE and c runs  *)
(* scheduler() again.                                                      *)

AbsOnCPU == [c \in CPUs |-> IF Running(c) THEN cpu[c] ELSE NoProc]

PS == INSTANCE ProcStates WITH state <- [p \in Procs |-> proc[p].state],
                               oncpu <- AbsOnCPU

-----------------------------------------------------------------------------
(* Properties                                                              *)

\* A process is RUNNING exactly when one CPU has switched to it: the
\* RUNNABLE re-check after acquire(&p->lock) in scheduler() keeps a heap
\* entry that outlived its put() from running p on a second CPU.
RunningOnOneCPU ==
    \A p \in Procs :
        /\ proc[p].state = "RUNNING" <=> \E c \in CPUs : Running(c) /\ cpu[c] = p
        /\ \A c1, c2 \in CPUs : cpu[c1] = p /\ cpu[c2] = p => c1 = c2

\* No RUNNABLE process is forgotten: it is in the heap, or a CPU has taken
\* it out with get() and not yet locked it, or it is between yield() and
\* line 492 of scheduler(), which puts it (put() is the only way to make a
\* process RUNNABLE: fork, wakeup, kill, yield).
RunnableIsQueued ==
    \A p \in Procs :
        proc[p].state = "RUNNABLE" =>
            \/ InHeap(p)
            \/ \E c \in CPUs : spc[c] = "acquire" /\ chosen[c] = p
            \/ LockHeld(p)

\* A parent never sleeps in wait() while one of its children is a ZOMBIE:
\* exit() wakes the parent and, for each reparented child, init, under
\* wait_lock, so the wakeup cannot fall between wait()'s scan and its sleep.
NoLostChildExit ==
    \A p \in Procs :
        (proc[p].state = "SLEEPING" /\ ppc[p] = "wait") => Zombies(p) = {}

\* The scheduler implements the process-state protocol of ProcStates: get()
\* and the RUNNABLE re-check dispatch only a RUNNABLE process to an idle
\* CPU, yield/sleep/exit leave the CPU, wakeup and kill make only SLEEPING
\* processes RUNNABLE, and only wait() frees a ZOMBIE.
RefinesProcStates == PS!Spec

\* While some CPU's scheduler() loop is idle and a process is RUNNABLE,
\* some idle CPU eventually runs a process: every RUNNABLE process has a
\* heap entry that get() reaches, past the stale entries that the RUNNABLE
\* re-check discards.  (One CPU may stay idle for ever: the others can win
\* every race for proc_sched.lock.)
IdleCPURuns == PS!Fairness

\* Spec 8.1 as long as no process yields: the heap holds exactly the
\* RUNNABLE processes that no CPU has taken with get(), each once.  put()
\* is called only from states other than RUNNABLE (fork, wakeup and kill of
\* a SLEEPING process), so the duplicate and stale entries sched_policy
\* meets come from the yield() path alone.
HeapIsRunQueue ==
    LET h     == proc_sched.heap
        taken == {chosen[c] : c \in {d \in CPUs : spc[d] = "acquire"}}
    IN  /\ \A i, j \in 1..Len(h) : h[i] = h[j] => i = j
        /\ \A p \in Procs :
              InHeap(p) <=> proc[p].state = "RUNNABLE" /\ p \notin taken

\* A pid other than 0 names at most one slot, and that slot is in use: kill()
\* of a pid fork() returned reaches that process alone, and a pid that wait()
\* reaped or that a failed fork() spent matches no slot, so kill() returns -1
\* instead of marking a free slot the next fork() reuses.  It holds only if
\* every path that frees a slot (wait()'s reap, allocproc()'s and fork()'s
\* failures) goes through freeproc(), which sets pid = 0.
PidNamesLiveProcess ==
    \A p \in Procs :
        proc[p].pid # 0 =>
            /\ proc[p].state # "UNUSED"
            /\ \A q \in Procs \ {p} : proc[q].pid # proc[p].pid

-----------------------------------------------------------------------------
(* What the spec states of the scheduler and the code does not keep        *)

\* Spec 3 and 8.1: the heap holds RUNNABLE processes, each exactly once.
\* scheduler() puts a process again at line 492 after yield() has put it.
HeapHoldsRunnableOnce ==
    LET h == proc_sched.heap IN
    \A i, j \in 1..Len(h) : h[i] = h[j] => i = j

\* Spec 3: exe_time accumulates while a process stays in the runnable-or-
\* running lifecycle; it is reset only on entering a non-running state.
\* The second put() of line 492 finds p RUNNABLE and zeroes it.
ExeTimeKeptWhileRunnable ==
    [][\A p \in Procs :
         (proc[p].state = "RUNNABLE" /\ proc'[p].state = "RUNNABLE")
            => proc'[p].exe_time >= proc[p].exe_time]_vars

\* Spec 8.6: a put() of a process that is not RUNNING (fork, wakeup, kill)
\* applies the exponential average to p's own burst.  Line 766 tests the
\* state of proc[0] instead.
SmoothedOnEnqueue ==
    [][\A p \in Procs :
         (proc[p].state \in {"USED", "SLEEPING"} /\ proc'[p].state = "RUNNABLE")
            => proc'[p].cpu_burst_aprox =
                 CDiv(proc_sched.a * proc[p].cpu_burst
                        + (100 - proc_sched.a) * proc[p].cpu_burst_aprox, 100)]_vars

\* Spec 4.3 and 4.5: non-preemptive SJF is cooperative, the timer never
\* makes the running process yield.  A timeslice given by get() under CFS
\* survives a change_sched() to SJF.
CooperativeSJF ==
    [][(proc_sched.algorithm = 0 /\ proc_sched.is_preemptive # 1)
         => \A c \in CPUs : ~TimerPreempt(c)]_vars

\* Spec 3: cpu_burst counts the ticks of the current RUNNING interval, so
\* it never drops while the process keeps running.  get() of a stale heap
\* entry resets cpu_burst of a process running on another CPU.
BurstKeptWhileRunning ==
    [][\A p \in Procs :
         (proc[p].state = "RUNNING" /\ proc'[p].state = "RUNNING")
            => proc'[p].cpu_burst >= proc[p].cpu_burst]_vars

\* Spec 7 and freeproc(): a freed slot has killed = 0 and kill() of a pid
\* that names no process returns -1, so a child fork() creates starts with
\* killed = 0.  kill(0) matches the first UNUSED slot, whose pid freeproc()
\* set to 0, and allocproc() does not reset killed.
ForkedChildNotKilled ==
    [][\A q \in Procs :
         (proc[q].state = "UNUSED" /\ proc'[q].state # "UNUSED")
            => proc'[q].killed = 0]_vars
=============================================================================
