-------------------------------- MODULE ProcFs --------------------------------
(***************************************************************************)
(* The kernel's table of processes, which /proc shows to spl_top, spl_ps   *)
(* and ancestors while it changes.  A process that has ended is a zombie   *)
(* until it is reaped: its files can be read, but it has no memory left.   *)
(* A process keeps its number for ever: none is used twice.                *)
(***************************************************************************)
EXTENDS Integers, FiniteSets, SequencesExt

CONSTANTS MaxPid,         \* processes are numbered from 1, which is init
          AtStart,        \* the processes there are at first
          Uid, Mem,       \* each process's user and its memory, 0 for a kernel thread
          Forkers,        \* the processes that may fork
          Bursts,         \* the times a process may work
          MaxEvents       \* bound on what the other processes and the user do

Pids == 1 .. MaxPid

ProcAssumption == /\ 1 \in AtStart /\ AtStart \subseteq Pids /\ MaxEvents \in Nat

VARIABLES state, ppid, cpu, events

procfs == <<state, ppid, cpu, events>>

Exists(p)  == state[p] \in {"running", "zombie"}
Running(p) == state[p] = "running"
Rss(p)     == IF Running(p) THEN Mem[p] ELSE 0
PidsInOrder == SelectSeq([n \in Pids |-> n], Exists)

Boot ==
    /\ state = [p \in Pids |-> IF p \in AtStart THEN "running" ELSE "unborn"]
    /\ ppid = [p \in Pids |-> p - 1]
    /\ cpu = [p \in Pids |-> 0]
    /\ events = 0

Event == events < MaxEvents /\ events' = events + 1

Fork(p, parent) ==
    /\ Event /\ state[p] = "unborn" /\ (\A q \in 1 .. p - 1 : state[q] # "unborn")
    /\ parent \in Forkers /\ Running(parent)
    /\ state' = [state EXCEPT ![p] = "running"]
    /\ ppid' = [ppid EXCEPT ![p] = parent]
    /\ UNCHANGED cpu

\* Its children become init's.
Exit(p) ==
    /\ Event /\ Running(p) /\ p # 1
    /\ state' = [state EXCEPT ![p] = "zombie"]
    /\ ppid' = [q \in Pids |-> IF ppid[q] = p THEN 1 ELSE ppid[q]]
    /\ UNCHANGED cpu

Reap(p) ==
    /\ state[p] = "zombie"
    /\ state' = [state EXCEPT ![p] = "gone"]
    /\ UNCHANGED <<ppid, cpu, events>>

Work(p, t) ==
    /\ Event /\ Running(p)
    /\ cpu' = [cpu EXCEPT ![p] = @ + t]
    /\ UNCHANGED <<state, ppid>>

Others ==
    \E p \in Pids : \/ \E q \in Pids : Fork(p, q)
                    \/ Exit(p) \/ Reap(p)
                    \/ \E t \in Bursts : Work(p, t)
==============================================================================
