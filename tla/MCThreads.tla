------------------------------ MODULE MCThreads ------------------------------
(***************************************************************************)
(* Instances for TLC of the programs of several threads of chapters 15 and *)
(* 16, but for the producers and consumers.  They have nothing in common   *)
(* but their kind: a behaviour runs one of them, and the variables of the  *)
(* others stay as they are.                                                *)
(***************************************************************************)
EXTENDS Integers, Sequences, FiniteSets, Functions, Partition

CONSTANTS Threads, None,                                    \* BcastBarrier
          FULL, Works,                                      \* ThreadedProgressBar
          nreaders, nwriters, arraysize, reader_preference, \* RwlockDemo
          MaxThreads,                                       \* VmemUsage, SumThreads
          BOUND                                             \* RecursiveMutex

VARIABLES
    program,
    barrier_pc, mutex, count_mutex, count,
    bar_pc, work, frac_mutex, fraction_completed, computedby, spc, alarm, bar, main,
    rwlock_pc, k, curtime, rwlock, print_mutex, shared_data, seen, created,
    num_threads, data, partial_sum, t, arrived, sum,
    sum_threads, maxsize, array, array_size, sums, sum_k, main_t, main_pc, total,
    owner, locks, rec_count, rec_pc, frames

\* Powers of two: no two sets of processes have the same sum.
ProcSizes == <<1, 2, 4, 8, 16, 32>>

Barrier == INSTANCE BcastBarrier WITH pc <- barrier_pc
Bar     == INSTANCE ThreadedProgressBar WITH pc <- bar_pc
Rwlock  == INSTANCE RwlockDemo WITH pc <- rwlock_pc
Vmem    == INSTANCE VmemUsage WITH Sizes <- ProcSizes
Sum     == INSTANCE SumThreads WITH num_threads <- sum_threads, sum <- sums, k <- sum_k,
             t <- main_t, pc <- main_pc, Numbers <- SubSeq(ProcSizes, 1, 5)
Rec     == INSTANCE RecursiveMutex WITH count <- rec_count, pc <- rec_pc

ASSUME ThreadsAssumption ==
    /\ Barrier!BarrierAssumption /\ Bar!ProgressAssumption /\ Rwlock!RwlockAssumption
    /\ Vmem!VmemAssumption /\ Sum!SumAssumption /\ Rec!RecursiveAssumption

barrier_vars == <<barrier_pc, mutex, count_mutex, count>>
bar_vars     == <<bar_pc, work, frac_mutex, fraction_completed, computedby, spc, alarm, bar, main>>
rwlock_vars  == <<rwlock_pc, k, curtime, rwlock, print_mutex, shared_data, seen, created>>
vmem_vars    == <<num_threads, data, partial_sum, t, arrived, sum>>
sum_vars     == <<sum_threads, maxsize, array, array_size, sums, sum_k, main_t, main_pc, total>>
rec_vars     == <<owner, locks, rec_count, rec_pc, frames>>
more_vars    == <<sum_vars, rec_vars>>
vars         == <<program, barrier_vars, bar_vars, rwlock_vars, vmem_vars, more_vars>>

Init ==
    /\ program \in {"barrier", "bar", "rwlock", "vmem", "sum", "recursive"}
    /\ Barrier!Init /\ Bar!Init /\ Rwlock!Init /\ Vmem!Init /\ Sum!Init /\ Rec!Init
    /\ program # "vmem" => num_threads = 1
    /\ program # "sum" => sum_threads = 0 /\ maxsize = 0

BarrierStep(A) ==
    program = "barrier" /\ A /\ UNCHANGED <<program, bar_vars, rwlock_vars, vmem_vars, more_vars>>
BarStep(A) ==
    program = "bar" /\ A /\ UNCHANGED <<program, barrier_vars, rwlock_vars, vmem_vars, more_vars>>
RwlockStep(A) ==
    program = "rwlock" /\ A /\ UNCHANGED <<program, barrier_vars, bar_vars, vmem_vars, more_vars>>
VmemStep(A) ==
    program = "vmem" /\ A /\ UNCHANGED <<program, barrier_vars, bar_vars, rwlock_vars, more_vars>>

First_four == <<barrier_vars, bar_vars, rwlock_vars, vmem_vars>>

SumStep(A) == program = "sum" /\ A /\ UNCHANGED <<program, First_four, rec_vars>>
RecStep(A) == program = "recursive" /\ A /\ UNCHANGED <<program, First_four, sum_vars>>

Next ==
    \/ BarrierStep(Barrier!Next) \/ BarStep(Bar!Next)
    \/ RwlockStep(Rwlock!Next)   \/ VmemStep(Vmem!Next)
    \/ SumStep(Sum!Next)         \/ RecStep(Rec!Next)

\* The fairness each module asks for.  Only one program runs, so one formula
\* can stand for an action of each: its disjuncts are never enabled together.
Spec ==
    /\ Init /\ [][Next]_vars
    /\ \A u \in Threads : WF_vars(BarrierStep(Barrier!f(u)))
    /\ \A u \in Threads : WF_vars(BarStep(Bar!long_running_task(u)))
    /\ WF_vars(BarStep(Bar!Report) \/ RecStep(Rec!thread_routine(1)))
    /\ WF_vars(RwlockStep(Rwlock!Create) \/ RecStep(Rec!thread_routine(2)))
    /\ \A u \in Rwlock!Tids : WF_vars(RwlockStep(Rwlock!Thread(u)))
------------------------------------------------------------------------------
(* Properties *)

\* pthread_bcast_demo.c: whoever gets past the first wait does so when every
\* thread has counted itself in ("so all threads proceed", line 55), and past
\* the second when every thread has left the first, though count is read there
\* without the mutex that guards it.
\* recursive_mutex_demo.c: a thread counts to the bound undisturbed.
BarriersHold == /\ program = "barrier" => Barrier!AllArrived /\ Barrier!AllLeft
                /\ program = "recursive" => Rec!TurnsAreWhole

\* threaded_progressbar.c: no work is lost or counted twice between a thread's
\* draw, the clamp, the sleep and the unlocked addition to its own share, and
\* the table main() prints adds up to 100 percent even when several threads saw
\* the same fraction below 1.0 and all added to it; the bar is drawn too long by
\* one piece of work at most.
WorkAccounted == program = "bar" => Bar!WorkAccounted /\ Bar!ReportAddsUp /\ Bar!OverdrawnByOne

\* pthread_rwlock_demo.c: what a reader has printed since it took the lock is a
\* snapshot of the array, each item with the time of the writer it names.
SnapshotWhileReading == program = "rwlock" => Rwlock!SnapshotWhileReading

\* vmem_usage.c: for any number of threads, what main() prints is the sum of
\* the array, as no thread writes a cell another is about to read: the barrier
\* between the rounds is enough.
\* pthread_create_demo2.c: so is the total of the parts, for any number of
\* threads and of numbers.
SumOfArray == /\ program = "vmem" => Vmem!SumOfArray /\ Vmem!NoDataRace
              /\ program = "sum" => Sum!TotalIsSum

\* pthread_bcast_demo.c: every thread gets through both barriers.  The one that
\* makes count zero may do so between another's test and its wait, but broadcasts
\* only when it has the mutex that the tester keeps until it waits.
\* threaded_progressbar.c: unless a signal ends it, it comes to its report.
\* recursive_mutex_demo.c: no thread waits for itself.
AllThreadsEnd ==
    <>(/\ program = "barrier" => \A u \in Threads : barrier_pc[u] = "done"
       /\ program = "bar" => main = "exit" \/ spc = "exit"
       /\ program = "recursive" => \A u \in Rec!Tids : rec_pc[u] = "exit")

\* pthread_rwlock_demo.c: although the readers' turns overlap for ever, writers
\* get their turn again and again, thanks to the attribute of lines 323-335.
WritersNotStarved ==
    []<>(program = "rwlock" => \E u \in Rwlock!Tids : rwlock_pc[u] \in {"choose", "exited"})
==============================================================================
