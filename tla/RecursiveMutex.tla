---------------------------- MODULE RecursiveMutex ----------------------------
(***************************************************************************)
(* chapter16/recursive_mutex_demo.c: two threads call up(), which calls    *)
(* itself with the mutex locked until the count is at its bound.           *)
(***************************************************************************)
EXTENDS Integers

CONSTANTS BOUND

RecursiveAssumption == BOUND \in Nat \ {0}

VARIABLES owner, locks,     \* of the mutex: the thread (0: none), and how often it has locked it
          count,
          pc, frames        \* of each thread: where it is; the calls of up() it is in

vars == <<owner, locks, count, pc, frames>>

Tids == {1, 2}

Init ==
    /\ owner = 0 /\ locks = 0 /\ count = 0
    /\ pc = [i \in Tids |-> "lock"] /\ frames = [i \in Tids |-> 1]
------------------------------------------------------------------------------
(* up() *)

\* Mutant: a mutex of the default type.
Lock_default(i) ==
    /\ pc[i] = "lock" /\ owner = 0
    /\ owner' = i /\ locks' = locks + 1
    /\ pc' = [pc EXCEPT ![i] = "count"]
    /\ UNCHANGED <<count, frames>>

Lock(i) ==
    /\ pc[i] = "lock" /\ owner \in {0, i}
    /\ owner' = i /\ locks' = locks + 1
    /\ pc' = [pc EXCEPT ![i] = "count"]
    /\ UNCHANGED <<count, frames>>

Count(i) ==
    /\ pc[i] = "count"
    /\ IF count + 1 < BOUND
       THEN /\ count' = count + 1 /\ frames' = [frames EXCEPT ![i] = @ + 1]
            /\ pc' = [pc EXCEPT ![i] = "lock"]
       ELSE /\ count' = 0 /\ UNCHANGED frames
            /\ pc' = [pc EXCEPT ![i] = "unlock"]
    /\ UNCHANGED <<owner, locks>>

Unlock(i) ==
    /\ pc[i] = "unlock"
    /\ locks' = locks - 1 /\ owner' = IF locks = 1 THEN 0 ELSE i
    /\ frames' = [frames EXCEPT ![i] = @ - 1]
    /\ pc' = [pc EXCEPT ![i] = IF frames[i] = 1 THEN "exit" ELSE "unlock"]
    /\ UNCHANGED count

thread_routine(i) == Lock(i) \/ Count(i) \/ Unlock(i)

Next == \E i \in Tids : thread_routine(i)
Spec == Init /\ [][Next]_vars /\ \A i \in Tids : WF_vars(thread_routine(i))
------------------------------------------------------------------------------
(* Properties *)

\* up(): a thread that has the mutex keeps it until its last call returns, so
\* each counts from 0 to the bound with no step of the other in between.
TurnsAreWhole ==
    \A i \in Tids :
        /\ pc[i] # "exit" /\ (frames[i] > 1 \/ pc[i] # "lock") => owner = i
        /\ pc[i] = "count" => count = frames[i] - 1

\* Both threads end: neither waits for itself.
BothEnd == <>(\A i \in Tids : pc[i] = "exit")
------------------------------------------------------------------------------
(* The inductive invariant behind TurnsAreWhole *)

\* A thread that does not own the mutex is about to lock it for the first time,
\* or has returned from its last call.
Outside(i) == (pc[i] = "lock" /\ frames[i] = 1) \/ pc[i] = "exit"

\* The owner has locked it once for each call it is in, but for the lock it is
\* about to take; and while it goes down the count is its depth.
Inside(i) ==
    /\ \/ pc[i] = "lock" /\ frames[i] > 1 /\ locks = frames[i] - 1 /\ count = frames[i] - 1
       \/ pc[i] = "count" /\ frames[i] >= 1 /\ locks = frames[i] /\ count = frames[i] - 1
       \/ pc[i] = "unlock" /\ frames[i] >= 1 /\ locks = frames[i] /\ count = 0

MutexInv ==
    /\ owner \in {0} \cup Tids /\ locks \in Nat /\ count \in Nat
    /\ pc \in [Tids -> {"lock", "count", "unlock", "exit"}]
    /\ frames \in [Tids -> Nat]
    /\ \A i \in Tids : IF owner = i THEN Inside(i) ELSE Outside(i)
    /\ owner = 0 => locks = 0 /\ count = 0
==============================================================================
