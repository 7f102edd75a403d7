----------------------------- MODULE BcastBarrier -----------------------------
(***************************************************************************)
(* chapter16/pthread_bcast_demo.c: threads that use a count, two mutexes   *)
(* and two condition variables as a pair of barriers.  Both waits sit      *)
(* under an "if", and count is written under mutex but read, at the second *)
(* barrier, under count_mutex: what that test has seen may be over when    *)
(* the thread waits, so the test and the wait are two steps.               *)
(***************************************************************************)
EXTENDS Naturals, FiniteSets

CONSTANTS Threads,          \* the NUM_THREADS threads that run f()
          None      \* owner of a free mutex

BarrierAssumption == IsFiniteSet(Threads) /\ Threads # {} /\ None \notin Threads

VARIABLES pc, mutex, count_mutex, count

vars == <<pc, mutex, count_mutex, count>>

NUM_THREADS == Cardinality(Threads)

Init ==
    /\ pc = [t \in Threads |-> "start"]
    /\ mutex = None /\ count_mutex = None
    /\ count = 0

Goto(t, from, to) == pc[t] = from /\ pc' = [pc EXCEPT ![t] = to]

\* pthread_cond_broadcast: every waiter must now take the mutex again.
Broadcast(t, from, to, waiting, woken) ==
    /\ pc[t] = from
    /\ pc' = [u \in Threads |-> IF u = t THEN to
                                ELSE IF pc[u] = waiting THEN woken ELSE pc[u]]

\* pthread_mutex_lock(&mutex), first or inside the wait.
Lock(t) ==
    /\ Goto(t, "start", "arrive") \/ Goto(t, "woken1", "release")
    /\ mutex = None /\ mutex' = t
    /\ UNCHANGED <<count_mutex, count>>

\* Mutant: one thread too few is waited for.
ArriveOff(t) ==
    /\ count' = count + 1
    /\ \/ count' < NUM_THREADS - 1 /\ Goto(t, "arrive", "wait1") /\ mutex' = None
       \/ count' >= NUM_THREADS - 1 /\ Goto(t, "arrive", "release")
          /\ UNCHANGED mutex
    /\ UNCHANGED count_mutex

\* count++; if ( count < NUM_THREADS ) pthread_cond_wait(...)
Arrive(t) ==
    /\ count' = count + 1
    /\ \/ count' < NUM_THREADS /\ Goto(t, "arrive", "wait1") /\ mutex' = None
       \/ count' >= NUM_THREADS /\ Goto(t, "arrive", "release") /\ UNCHANGED mutex
    /\ UNCHANGED count_mutex

Release(t) ==
    /\ Broadcast(t, "release", "leave", "wait1", "woken1")
    /\ UNCHANGED <<mutex, count_mutex, count>>

\* count--; pthread_mutex_unlock(&mutex)
Leave(t) ==
    /\ Goto(t, "leave", "lock2")
    /\ count' = count - 1 /\ mutex' = None
    /\ UNCHANGED count_mutex

\* Mutant: count is tested without count_mutex, which only the wait then takes.
LockCountLate(t) ==
    /\ \/ Goto(t, "lock2", "test2") /\ UNCHANGED count_mutex
       \/ Goto(t, "woken2", "release2") /\ count_mutex = None /\ count_mutex' = t
    /\ UNCHANGED <<mutex, count>>

LockCount(t) ==
    /\ Goto(t, "lock2", "test2") \/ Goto(t, "woken2", "release2")
    /\ count_mutex = None /\ count_mutex' = t
    /\ UNCHANGED <<mutex, count>>

\* if ( count > 0 ): count is read without its mutex ...
TestCount(t) ==
    /\ \/ count > 0 /\ Goto(t, "test2", "sleep2")
       \/ count = 0 /\ Goto(t, "test2", "release2")
    /\ UNCHANGED <<mutex, count_mutex, count>>

\* ... and may have become zero when pthread_cond_wait(...) lets count_mutex go.
WaitCount(t) ==
    /\ Goto(t, "sleep2", "wait2")
    /\ count_mutex' = None
    /\ UNCHANGED <<mutex, count>>

Release2(t) ==
    /\ Broadcast(t, "release2", "unlock2", "wait2", "woken2")
    /\ UNCHANGED <<mutex, count_mutex, count>>

Return(t) ==
    /\ Goto(t, "unlock2", "done")
    /\ count_mutex' = None
    /\ UNCHANGED <<mutex, count>>

f(t) ==
    \/ Lock(t) \/ Arrive(t) \/ Release(t) \/ Leave(t)
    \/ LockCount(t) \/ TestCount(t) \/ WaitCount(t) \/ Release2(t) \/ Return(t)

Next == \E t \in Threads : f(t)

Spec == Init /\ [][Next]_vars

FairSpec == Spec /\ \A t \in Threads : WF_vars(f(t))

\* POSIX lets pthread_cond_wait return although nobody signalled.
SpuriousWakeup(t) ==
    /\ Goto(t, "wait1", "woken1") \/ Goto(t, "wait2", "woken2")
    /\ UNCHANGED <<mutex, count_mutex, count>>

SpuriousSpec == Init /\ [][Next \/ \E t \in Threads : SpuriousWakeup(t)]_vars
------------------------------------------------------------------------------
(* Properties *)

BeforeFirst == {"start", "arrive", "wait1", "woken1"}
Past        == {"unlock2", "done"}

\* "count reached N, so all threads proceed" (line 55): whoever gets past the
\* first wait does so when every thread has counted itself in.
AllArrived ==
    \A t, u \in Threads :
        pc[t] \notin BeforeFirst => pc[u] \notin {"start", "arrive"}

\* Whoever gets past the second wait does so when every thread has left the
\* first barrier, though count is read there without the mutex that guards it.
AllLeft ==
    \A t, u \in Threads : pc[t] \in Past => pc[u] \notin BeforeFirst \cup {"release", "leave"}

\* Every thread gets through both barriers.  The decrement that makes count zero
\* may fall between another thread's test of it and its wait; no wakeup is lost,
\* since who broadcasts must first have the count_mutex that the tester holds.
AllDone == <>(\A t \in Threads : pc[t] = "done")
------------------------------------------------------------------------------
(* The inductive invariant behind AllArrived and AllLeft *)

Pcs == BeforeFirst \cup Past \cup
       {"release", "leave", "lock2", "test2", "sleep2", "wait2", "woken2", "release2"}

\* The threads that have counted themselves in and not yet out again.
Counted == {t \in Threads : pc[t] \in {"wait1", "woken1", "release", "leave"}}

\* count is exact; a thread that was woken, or did not have to wait, is proof
\* that the barrier it was at is open: all others are at least that far.
BarrierInv ==
    /\ pc \in [Threads -> Pcs]
    /\ count = Cardinality(Counted)
    /\ (\E t \in Threads : pc[t] \notin {"start", "arrive", "wait1"}) =>
          \A u \in Threads : pc[u] \notin {"start", "arrive"}
    /\ (\E t \in Threads : pc[t] \in {"woken2", "release2"} \cup Past) =>
          \A u \in Threads : pc[u] \notin BeforeFirst \cup {"release", "leave"}
==============================================================================
