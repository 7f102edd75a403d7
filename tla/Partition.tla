------------------------------ MODULE Partition ------------------------------
(***************************************************************************)
(* How the thread programs share an array out: thread t of num_threads     *)
(* takes the elements first .. last (chapter15/pthread_create_demo2.c,     *)
(* chapter16/vmem_usage.c and pthread_rwlock_demo.c).                      *)
(***************************************************************************)
EXTENDS Integers

\* Mutant: the division comes first, and its remainder is lost.
LastRounded(t, size, num_threads) == (t + 1) * (size \div num_threads) - 1

First(t, size, num_threads) == (t * size) \div num_threads
Last(t, size, num_threads)  == ((t + 1) * size) \div num_threads - 1

Share(t, size, num_threads) == First(t, size, num_threads) .. Last(t, size, num_threads)
==============================================================================
