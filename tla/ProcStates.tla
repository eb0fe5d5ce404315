----------------------------- MODULE ProcStates -----------------------------
(***************************************************************************)
(* What the scheduler promises about process states (spec 1 and 8.5),      *)
(* without heap, statistics or policy: a process moves                     *)
(*   UNUSED -> RUNNABLE -> RUNNING -> RUNNABLE | SLEEPING | ZOMBIE,        *)
(*   SLEEPING -> RUNNABLE, ZOMBIE -> UNUSED,                               *)
(* it runs only on a CPU that runs nothing else, and while a CPU is idle   *)
(* and a process RUNNABLE, some idle CPU eventually runs a process.  Which *)
(* CPU does is not promised: the CPUs race for proc_sched.lock.            *)
(***************************************************************************)
CONSTANTS Procs, CPUs, NoProc

VARIABLES state,   \* the state of every process
          oncpu    \* the process each CPU executes, or NoProc

vars == <<state, oncpu>>

Idle(c) == oncpu[c] = NoProc
Sleepers == {p \in Procs : state[p] = "SLEEPING"}

Init == /\ state \in [Procs -> {"UNUSED", "RUNNABLE"}]
        /\ oncpu = [c \in CPUs |-> NoProc]

\* A new process becomes RUNNABLE.
Create(p) == /\ state[p] = "UNUSED"
             /\ state' = [state EXCEPT ![p] = "RUNNABLE"]
             /\ UNCHANGED oncpu

\* An idle CPU starts a RUNNABLE process.
Run(c, p) == /\ Idle(c)
             /\ state[p] = "RUNNABLE"
             /\ state' = [state EXCEPT ![p] = "RUNNING"]
             /\ oncpu' = [oncpu EXCEPT ![c] = p]

\* The process on c gives up the CPU, ready again or asleep.
Stop(c, to) == /\ ~Idle(c)
               /\ state[oncpu[c]] = "RUNNING"
               /\ state' = [state EXCEPT ![oncpu[c]] = to]
               /\ oncpu' = [oncpu EXCEPT ![c] = NoProc]

\* Some sleeping processes become RUNNABLE.
Wake(S) == /\ S # {}
           /\ state' = [p \in Procs |-> IF p \in S THEN "RUNNABLE" ELSE state[p]]
           /\ UNCHANGED oncpu

\* The process on c exits, waking some sleepers in the same step.
Exit(c, S) == /\ ~Idle(c)
              /\ state[oncpu[c]] = "RUNNING"
              /\ state' = [p \in Procs |->
                             IF p = oncpu[c] THEN "ZOMBIE"
                             ELSE IF p \in S THEN "RUNNABLE" ELSE state[p]]
              /\ oncpu' = [oncpu EXCEPT ![c] = NoProc]

\* A running process frees an exited one.
Reap(c, q) == /\ ~Idle(c)
              /\ state[q] = "ZOMBIE"
              /\ state' = [state EXCEPT ![q] = "UNUSED"]
              /\ UNCHANGED oncpu

Next == \/ \E p \in Procs : Create(p)
        \/ \E c \in CPUs :
              \/ \E p \in Procs : Run(c, p) \/ Reap(c, p)
              \/ \E to \in {"RUNNABLE", "SLEEPING"} : Stop(c, to)
              \/ \E S \in SUBSET Sleepers : Exit(c, S)
        \/ \E S \in SUBSET Sleepers : Wake(S)

\* The CPUs do not all stay idle while a process is RUNNABLE.
Fairness == WF_vars(\E c \in CPUs, p \in Procs : Run(c, p))

Spec == Init /\ [][Next]_vars
FairSpec == Spec /\ Fairness
=============================================================================
