------------------------------ MODULE VmemUsage ------------------------------
(***************************************************************************)
(* chapter16/vmem_usage.c: the memory sizes of all processes are read into *)
(* an array, which num_threads threads sum up: each its own part, then in  *)
(* rounds that halve the number of partial sums, a barrier between them.   *)
(* A "+=" on a shared cell is a load and a store.                          *)
(***************************************************************************)
EXTENDS Integers, Sequences, Functions, Partition

CONSTANTS MaxThreads,   \* the largest num_threads the command line gives
          Sizes         \* the sizes of the processes of /proc, a sequence

VmemAssumption == MaxThreads \in Nat /\ Sizes \in Seq(Nat)

VARIABLES
    num_threads,
    data,             \* vmsizes: the array that is summed
    partial_sum,
    t,                \* of each thread: its half, where it is, what it loaded
    arrived,          \* the threads in the barrier
    sum               \* what main() prints, once all are joined

vars == <<num_threads, data, partial_sum, t, arrived, sum>>

Tids == 0 .. num_threads - 1
NoSum == -1
size == Len(Sizes)
------------------------------------------------------------------------------
(* get_all_vmsizes() *)

\* The loop ends at n - 2: the last element keeps the zero calloc() gave it.
get_all_vmsizes == [i \in 0 .. size - 1 |-> IF i < size - 1 THEN Sizes[i + 1] ELSE 0]

Init ==
    /\ num_threads \in 1 .. MaxThreads
    /\ data = get_all_vmsizes
    /\ partial_sum = [i \in Tids |-> 0]
    /\ t = [i \in Tids |-> [pc |-> "sum", half |-> num_threads, cell |-> 0, loaded |-> 0]]
    /\ arrived = {} /\ sum = NoSum
------------------------------------------------------------------------------
(* sum_reduce() *)

Become(i, pc, half, cell) ==
    t' = [t EXCEPT ![i] = [pc |-> pc, half |-> half, cell |-> cell, loaded |-> 0]]

\* Mutant: the wait is left out of the loop.
RoundUnsynchronised(i, half) == Become(i, IF half > 1 THEN "odd" ELSE "done", half, 0)

\* The head of the loop: another round while half > 1.
Round(i, half) == Become(i, IF half > 1 THEN "barrier" ELSE "done", half, 0)

SumShare(i) ==
    /\ t[i].pc = "sum"
    /\ partial_sum' = [partial_sum EXCEPT ![i] =
            SumFunctionOnSet(data, Share(i, size, num_threads))]
    /\ Round(i, t[i].half)
    /\ UNCHANGED <<num_threads, data, arrived, sum>>

\* pthread_barrier_wait(): the last to arrive releases them all.
Arrive(i) ==
    /\ t[i].pc = "barrier" /\ i \notin arrived
    /\ IF arrived \cup {i} = Tids
       THEN /\ arrived' = {}
            /\ t' = [j \in Tids |-> [t[j] EXCEPT !.pc = "odd"]]
       ELSE arrived' = arrived \cup {i} /\ UNCHANGED t
    /\ UNCHANGED <<num_threads, data, partial_sum, sum>>

\* if ( half % 2 == 1 && tid == 0 ) partial_sum[0] += partial_sum[half-1]
Odd(i) ==
    /\ t[i].pc = "odd"
    /\ IF t[i].half % 2 = 1 /\ i = 0
       THEN Become(i, "load", t[i].half, t[i].half - 1)
       ELSE Become(i, "halve", t[i].half, 0)
    /\ UNCHANGED <<num_threads, data, partial_sum, arrived, sum>>

\* half = half/2; if ( tid < half ) partial_sum[tid] += partial_sum[tid+half]
Halve(i) ==
    LET half == t[i].half \div 2 IN
    /\ t[i].pc = "halve"
    /\ IF i < half THEN Become(i, "load", half, i + half) ELSE Round(i, half)
    /\ UNCHANGED <<num_threads, data, partial_sum, arrived, sum>>

Load(i) ==
    /\ t[i].pc = "load"
    /\ t' = [t EXCEPT ![i].pc = "store", ![i].loaded = partial_sum[i] + partial_sum[t[i].cell]]
    /\ UNCHANGED <<num_threads, data, partial_sum, arrived, sum>>

\* The cell of the odd element is half - 1, that of the halving tid + half >= half.
Store(i) ==
    /\ t[i].pc = "store"
    /\ partial_sum' = [partial_sum EXCEPT ![i] = t[i].loaded]
    /\ IF t[i].cell = t[i].half - 1 THEN Become(i, "halve", t[i].half, 0)
                                    ELSE Round(i, t[i].half)
    /\ UNCHANGED <<num_threads, data, arrived, sum>>

sum_reduce(i) == SumShare(i) \/ Arrive(i) \/ Odd(i) \/ Halve(i) \/ Load(i) \/ Store(i)

\* compute_sum(): every thread is joined, then partial_sum[0] is the answer.
compute_sum ==
    /\ sum = NoSum /\ \A i \in Tids : t[i].pc = "done"
    /\ sum' = partial_sum[0]
    /\ UNCHANGED <<num_threads, data, partial_sum, t, arrived>>

Next == (\E i \in Tids : sum_reduce(i)) \/ compute_sum

Spec == Init /\ [][Next]_vars
------------------------------------------------------------------------------
(* Properties *)

\* Whatever the number of threads, odd or even, and however they overtake each
\* other between the barriers, what main() prints is the sum of the array.
SumOfArray == sum # NoSum => sum = SumFunction(data)

\* No cell is written by one thread while another is about to read it: the
\* barrier is enough, although a round reads and writes without a mutex.
NoDataRace ==
    \A i, j \in Tids :
        i # j /\ t[i].pc \in {"load", "store"} /\ t[j].pc \in {"load", "store"}
            => t[i].cell # j

\* Why they hold.  Between two barriers all threads halve the same number of
\* partial sums, 2*half + odd of them, though each at its own pace.  A cell counts
\* until it has been added to the one that takes it over; the cells that count
\* add up to the array, and no cell is written that another thread still reads.
Adding == {"load", "store"}
Pcs == {"sum", "barrier", "odd", "halve", "done"} \cup Adding

VmemTypes ==
    /\ num_threads \in Nat \ {0}
    /\ data = get_all_vmsizes
    /\ partial_sum \in [Tids -> Int] /\ sum \in Int
    /\ t \in [Tids -> [pc : Pcs, half : Int, cell : Int, loaded : Int]]
    /\ arrived \subseteq {i \in Tids : t[i].pc = "barrier"}

InRound(i, half, odd) ==
    \/ t[i].pc = "sum" /\ t[i].half = half /\ half = num_threads
    \/ /\ 2 * half + odd <= num_threads
       /\ \/ t[i].pc \in {"odd", "halve"} /\ t[i].half = 2 * half + odd
          \/ /\ t[i].pc \in Adding /\ t[i].half = 2 * half + odd
             /\ t[i].cell = 2 * half /\ i = 0 /\ odd = 1
          \/ /\ t[i].pc \in Adding /\ t[i].half = half
             /\ t[i].cell = i + half /\ i < half
    \/ t[i].pc = (IF half > 1 THEN "barrier" ELSE "done") /\ t[i].half = half

\* Cell j has not been taken over yet.
Counts(j, half, odd) ==
    \/ j < half
    \/ j >= half /\ j < 2 * half /\ t[j - half].pc \in {"odd", "halve"} \cup Adding
    \/ /\ j = 2 * half /\ odd = 1
       /\ t[0].pc = "odd" \/ (t[0].pc \in Adding /\ t[0].half = 2 * half + odd)

Part(j, half, odd) ==
    IF t[j].pc = "sum" THEN SumFunctionOnSet(data, Share(j, size, num_threads))
    ELSE IF Counts(j, half, odd) THEN partial_sum[j] ELSE 0

VmemInv ==
    /\ VmemTypes
    /\ \A i \in Tids : t[i].pc = "store" => t[i].loaded = partial_sum[i] + partial_sum[t[i].cell]
    /\ \E half \in 1 .. num_threads, odd \in 0 .. 1 :
         /\ \A i \in Tids : InRound(i, half, odd)
         /\ SumFunction([j \in Tids |-> Part(j, half, odd)]) = SumFunction(data)
    /\ SumOfArray
==============================================================================
