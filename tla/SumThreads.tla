------------------------------ MODULE SumThreads ------------------------------
(***************************************************************************)
(* chapter15/pthread_create_demo2.c: numbers are read into an array, each  *)
(* thread adds up its part of it, and main() adds up what the threads      *)
(* found.  The first threads run while main() creates the others.          *)
(*                                                                         *)
(* The products of First and Last are those of integers without a bound.   *)
(***************************************************************************)
EXTENDS Integers, Sequences, Functions, Partition

CONSTANTS MaxThreads,   \* the most threads the command line asks for
          Numbers       \* the numbers in the file, a sequence

SumAssumption == MaxThreads \in Nat /\ Numbers \in Seq(Int)

VARIABLES
    num_threads, maxsize,
    array, array_size,
    sum,
    k,                \* the element each thread is at; -1: not created
    t,                \* main()'s loops: threads created, then joined, then counted
    pc, total

vars == <<num_threads, maxsize, array, array_size, sum, k, t, pc, total>>

Tids == 0 .. num_threads - 1

Init ==
    /\ num_threads \in 0 .. MaxThreads /\ maxsize \in 0 .. Len(Numbers) + 1
    /\ array = [i \in 0 .. maxsize - 1 |-> 0] /\ array_size = 0
    /\ sum = [i \in Tids |-> 0] /\ k = [i \in Tids |-> -1]
    /\ t = 0 /\ pc = "read" /\ total = 0
------------------------------------------------------------------------------
(* main() *)

\* It reads until the array is full or the file is at its end.
get_data ==
    /\ pc = "read" /\ pc' = "create"
    /\ array_size' = IF maxsize < Len(Numbers) THEN maxsize ELSE Len(Numbers)
    /\ array' = [i \in DOMAIN array |-> IF i < array_size' THEN Numbers[i + 1] ELSE 0]
    /\ UNCHANGED <<num_threads, maxsize, sum, k, t, total>>

Create ==
    /\ pc = "create"
    /\ IF t < num_threads
       THEN t' = t + 1 /\ k' = [k EXCEPT ![t] = First(t, array_size, num_threads)] /\ UNCHANGED pc
       ELSE t' = 0 /\ pc' = "join" /\ UNCHANGED k
    /\ UNCHANGED <<num_threads, maxsize, array, array_size, sum, total>>

Finished(i) == k[i] > Last(i, array_size, num_threads)

Join ==
    /\ pc = "join"
    /\ IF t < num_threads
       THEN k[t] >= 0 /\ Finished(t) /\ t' = t + 1 /\ UNCHANGED pc
       ELSE t' = 0 /\ pc' = "collect"
    /\ UNCHANGED <<num_threads, maxsize, array, array_size, sum, k, total>>

Collect ==
    /\ pc = "collect"
    /\ IF t < num_threads
       THEN t' = t + 1 /\ total' = total + sum[t] /\ UNCHANGED pc
       ELSE pc' = "printed" /\ UNCHANGED <<t, total>>
    /\ UNCHANGED <<num_threads, maxsize, array, array_size, sum, k>>

main == get_data \/ Create \/ Join \/ Collect
------------------------------------------------------------------------------
(* The threads: no two of them write one cell of sum[]. *)

add_array(i) ==
    /\ k[i] >= 0 /\ ~Finished(i)
    /\ sum' = [sum EXCEPT ![i] = @ + array[k[i]]]
    /\ k' = [k EXCEPT ![i] = @ + 1]
    /\ UNCHANGED <<num_threads, maxsize, array, array_size, t, pc, total>>

Next == main \/ \E i \in Tids : add_array(i)
Spec == Init /\ [][Next]_vars
------------------------------------------------------------------------------
(* Properties *)

\* main(): the total printed is that of all numbers read, each counted once, for
\* any number of threads, also where there are more of them than numbers; only
\* with no thread at all it is 0.
TotalIsSum ==
    pc = "printed" => total = IF num_threads = 0 THEN 0 ELSE SumFunction(array)

\* Why it holds.  The parts follow each other without a gap: as long as each
\* thread's sum is that of the elements from its first to the one it is at, the
\* sums of the first threads together are those of all elements before the next.
Before(m) == SumFunction([x \in DOMAIN array |-> IF x < m THEN array[x] ELSE 0])

SumTypes ==
    /\ num_threads \in Nat /\ maxsize \in Nat /\ array_size \in 0 .. maxsize
    /\ array \in [0 .. maxsize - 1 -> Int]
    /\ sum \in [Tids -> Int] /\ k \in [Tids -> Int] /\ t \in 0 .. num_threads /\ total \in Int
    /\ pc \in {"read", "create", "join", "collect", "printed"}

PartSummed(i) ==
    IF k[i] = -1 THEN sum[i] = 0
    ELSE /\ First(i, array_size, num_threads) <= k[i]
         /\ k[i] <= Last(i, array_size, num_threads) + 1
         /\ sum[i] = Before(k[i]) - Before(First(i, array_size, num_threads))

SumInv ==
    /\ SumTypes
    /\ \A x \in DOMAIN array : x < array_size \/ array[x] = 0
    /\ \A i \in Tids : PartSummed(i)
    /\ \A i \in Tids : k[i] = -1 <=> pc = "read" \/ (pc = "create" /\ i >= t)
    /\ pc = "read" => t = 0
    /\ \A i \in Tids : pc \in {"collect", "printed"} \/ (pc = "join" /\ i < t) => Finished(i)
    /\ pc \notin {"collect", "printed"} \/ num_threads = 0 => total = 0
    /\ pc = "collect" /\ num_threads # 0 => total = Before(First(t, array_size, num_threads))
    /\ pc = "printed" /\ num_threads # 0 => total = Before(array_size)
==============================================================================
