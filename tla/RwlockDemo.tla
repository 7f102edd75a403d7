------------------------------ MODULE RwlockDemo ------------------------------
(***************************************************************************)
(* chapter16/pthread_rwlock_demo.c: readers print their share of an array  *)
(* and writers overwrite parts of it under a reader/writer lock, after a   *)
(* barrier that all of them reach first.  A writer's time of modification  *)
(* is a token that differs between two consecutive sections of a writer.   *)
(***************************************************************************)
EXTENDS Integers, FiniteSets, Partition

CONSTANTS nreaders, nwriters, arraysize,
          reader_preference,               \* the option -R
          None                             \* no writer, no owner of the mutex

RwlockAssumption ==
    /\ nreaders \in Nat /\ nwriters \in Nat /\ arraysize \in Nat
    /\ None \notin 0 .. nreaders + nwriters - 1

VARIABLES
    pc,             \* of each thread
    k,              \* its loop index
    curtime,        \* of each writer: the time it read
    rwlock,         \* who holds it: the set of readers, the writer
    print_mutex,
    shared_data,
    seen,           \* of each reader: the items printed in this section
    created         \* how many threads main() has created

vars == <<pc, k, curtime, rwlock, print_mutex, shared_data, seen, created>>

num_threads == nreaders + nwriters
Readers == 0 .. nreaders - 1
Writers == nreaders .. num_threads - 1
Tids    == Readers \cup Writers
Items   == 0 .. arraysize - 1

Init ==
    /\ pc = [t \in Tids |-> "new"]
    /\ k = [t \in Tids |-> 0]
    /\ curtime = [w \in Writers |-> <<w, FALSE>>]
    /\ rwlock = [readers |-> {}, writer |-> None] /\ print_mutex = None
    /\ shared_data = [i \in Items |-> [wrid |-> 0, wrtime |-> <<0, FALSE>>]]
    /\ seen = [r \in Readers |-> <<>>]
    /\ created = 0

Goto(t, from, to) == pc[t] = from /\ pc' = [pc EXCEPT ![t] = to]

\* main() creates the readers, then the writers.
Create ==
    /\ created < num_threads
    /\ created' = created + 1
    /\ Goto(created, "new", "barrier")
    /\ UNCHANGED <<k, curtime, rwlock, print_mutex, shared_data, seen>>

barrier_count == num_threads

\* pthread_barrier_wait(): the last one to arrive lets all of them go.
Barrier(t) ==
    /\ pc[t] = "barrier"
    /\ LET arrived == {u \in Tids : pc[u] = "arrived"} \cup {t} IN
       pc' = IF Cardinality(arrived) = barrier_count
             THEN [u \in Tids |-> IF u \in arrived THEN "lock" ELSE pc[u]]
             ELSE [pc EXCEPT ![t] = "arrived"]
    /\ UNCHANGED <<k, curtime, rwlock, print_mutex, shared_data, seen, created>>
------------------------------------------------------------------------------
(* The lock *)

\* Mutant: the attribute is not set, so that readers go before writers.
prefer_writer_never == FALSE

\* The kind is set only for more than one writer; glibc's default is readers.
prefer_writer == nwriters > 1 /\ ~reader_preference

\* A thread that cannot have the lock waits for it.
rdlock(r) ==
    LET free == /\ rwlock.writer = None
                /\ prefer_writer => \A w \in Writers : pc[w] # "waiting"
    IN  /\ pc[r] \in {"lock", "waiting"}
        /\ IF free
           THEN /\ pc' = [pc EXCEPT ![r] = "print_lock"]
                /\ rwlock' = [rwlock EXCEPT !.readers = @ \cup {r}]
           ELSE Goto(r, "lock", "waiting") /\ UNCHANGED rwlock
        /\ UNCHANGED <<k, curtime, print_mutex, shared_data, seen, created>>

wrlock(w) ==
    /\ pc[w] \in {"lock", "waiting"}
    /\ IF rwlock.writer = None /\ rwlock.readers = {}
       THEN /\ pc' = [pc EXCEPT ![w] = "gettime"]
            /\ rwlock' = [rwlock EXCEPT !.writer = w]
       ELSE Goto(w, "lock", "waiting") /\ UNCHANGED rwlock
    /\ UNCHANGED <<k, curtime, print_mutex, shared_data, seen, created>>

\* pthread_rwlock_unlock() and the sleep before the next turn
unlock(t) ==
    /\ Goto(t, "unlock", "lock")
    /\ rwlock' = [readers |-> rwlock.readers \ {t},
                  writer  |-> IF rwlock.writer = t THEN None ELSE rwlock.writer]
    /\ seen' = [r \in Readers |-> IF r = t THEN <<>> ELSE seen[r]]
    /\ UNCHANGED <<k, curtime, print_mutex, shared_data, created>>
------------------------------------------------------------------------------
(* reader() *)

LockPrint(r) ==
    /\ Goto(r, "print_lock", "print")
    /\ print_mutex = None /\ print_mutex' = r
    /\ k' = [k EXCEPT ![r] = First(r, arraysize, nreaders)]
    /\ UNCHANGED <<curtime, rwlock, shared_data, seen, created>>

PrintItem(r) ==
    /\ pc[r] = "print"
    /\ IF k[r] <= Last(r, arraysize, nreaders)
       THEN /\ seen' = [seen EXCEPT ![r] =
                 [i \in DOMAIN @ \cup {k[r]} |-> IF i = k[r] THEN shared_data[i] ELSE @[i]]]
            /\ k' = [k EXCEPT ![r] = @ + 1]
            /\ UNCHANGED <<pc, print_mutex>>
       ELSE /\ Goto(r, "print", "unlock") /\ print_mutex' = None
            /\ UNCHANGED <<seen, k>>
    /\ UNCHANGED <<curtime, rwlock, shared_data, created>>

reader(r) == Barrier(r) \/ rdlock(r) \/ LockPrint(r) \/ PrintItem(r) \/ unlock(r)
------------------------------------------------------------------------------
(* writer() *)

GetTime(w) ==
    /\ Goto(w, "gettime", "choose")
    /\ curtime' = [curtime EXCEPT ![w] = <<w, ~@[2]>>]
    /\ k' = [k EXCEPT ![w] = 0]
    /\ UNCHANGED <<rwlock, print_mutex, shared_data, seen, created>>

\* Mutant: the lock is given back before the last time is written.
ChooseEarly(w) ==
    /\ pc[w] = "choose"
    /\ \/ /\ k[w] < arraysize /\ Goto(w, "choose", "settime")
          /\ shared_data' = [shared_data EXCEPT ![k[w]].wrid = -w]
          /\ rwlock' = [rwlock EXCEPT !.writer = None]
          /\ UNCHANGED k
       \/ /\ k[w] < arraysize
          /\ k' = [k EXCEPT ![w] = @ + 1] /\ UNCHANGED <<pc, shared_data, rwlock>>
       \/ /\ k[w] = arraysize /\ Goto(w, "choose", "unlock")
          /\ UNCHANGED <<k, shared_data, rwlock>>
    /\ UNCHANGED <<curtime, print_mutex, seen, created>>

\* random() decides which items are overwritten; the writer's identity first.
Choose(w) ==
    /\ pc[w] = "choose"
    /\ \/ /\ k[w] < arraysize /\ Goto(w, "choose", "settime")
          /\ shared_data' = [shared_data EXCEPT ![k[w]].wrid = -w]
          /\ UNCHANGED k
       \/ /\ k[w] < arraysize
          /\ k' = [k EXCEPT ![w] = @ + 1] /\ UNCHANGED <<pc, shared_data>>
       \/ /\ k[w] = arraysize /\ Goto(w, "choose", "unlock")
          /\ UNCHANGED <<k, shared_data>>
    /\ UNCHANGED <<curtime, rwlock, print_mutex, seen, created>>

SetTime(w) ==
    /\ Goto(w, "settime", "choose")
    /\ shared_data' = [shared_data EXCEPT ![k[w]].wrtime = curtime[w]]
    /\ k' = [k EXCEPT ![w] = @ + 1]
    /\ UNCHANGED <<curtime, rwlock, print_mutex, seen, created>>

writer(w) ==
    Barrier(w) \/ wrlock(w) \/ GetTime(w) \/ Choose(w) \/ SetTime(w) \/ unlock(w)

\* The signals are blocked in all threads but this one, which waits for them:
\* the process is gone.
sighandler ==
    /\ pc' = [t \in Tids |-> "exited"]
    /\ k' = [t \in Tids |-> 0] /\ curtime' = [w \in Writers |-> <<w, FALSE>>]
    /\ rwlock' = [readers |-> {}, writer |-> None] /\ print_mutex' = None
    /\ shared_data' = <<>> /\ seen' = [r \in Readers |-> <<>>] /\ created' = num_threads

Thread(t) == (t \in Readers /\ reader(t)) \/ (t \in Writers /\ writer(t))

Next == Create \/ (\E t \in Tids : Thread(t)) \/ sighandler

Spec == Init /\ [][Next]_vars

FairSpec == Spec /\ WF_vars(Create) /\ \A t \in Tids : WF_vars(Thread(t))
------------------------------------------------------------------------------
(* Properties *)

\* What a reader has printed since it took the lock is a snapshot: the items
\* are as they still are, each with the time of the writer it names.
SnapshotWhileReading ==
    \A r \in Readers : \A i \in DOMAIN seen[r] :
        /\ seen[r][i] = shared_data[i]
        /\ seen[r][i].wrid = -seen[r][i].wrtime[1]

\* Although the readers' turns overlap for ever, writers get their turn again
\* and again while the program runs: the attribute of lines 323-335 ensures it.
WritersNotStarved == []<>(\E t \in Tids : pc[t] \in {"choose", "exited"})
------------------------------------------------------------------------------
(* The inductive invariant behind SnapshotWhileReading *)

Reading == {"print_lock", "print", "unlock"}
Writing == {"gettime", "choose", "settime", "unlock"}

\* Every thread is at a statement of its own function, with its index in the
\* array wherever it uses it; the array is there until the process is gone.
TypeOK ==
    /\ pc \in [Tids -> {"new", "barrier", "arrived", "lock", "waiting", "exited"}
                         \cup Reading \cup Writing]
    /\ k \in [Tids -> Int] /\ created \in Int
    /\ \A r \in Readers : pc[r] = "print" => k[r] >= 0
    /\ \A w \in Writers : /\ pc[w] = "choose" => k[w] \in 0 .. arraysize
                          /\ pc[w] = "settime" => k[w] \in Items
    /\ curtime \in [Writers -> Writers \X BOOLEAN]
    /\ \A w \in Writers : curtime[w][1] = w
    /\ rwlock \in [readers : SUBSET Readers, writer : Writers \cup {None}]
    /\ seen = [r \in Readers |-> seen[r]]
    /\ \/ shared_data = <<>> /\ \A t \in Tids : pc[t] = "exited"
       \/ shared_data \in [Items -> [wrid : Int, wrtime : Int \X BOOLEAN]]

\* The lock is held by whoever is between lock and unlock, and not by a writer
\* and another thread at a time.
LockHeld ==
    /\ \A r \in Readers : r \in rwlock.readers <=> pc[r] \in Reading
    /\ \A w \in Writers : rwlock.writer = w <=> pc[w] \in Writing
    /\ rwlock.readers = {} \/ rwlock.writer = None

\* A reader remembers what it printed in this section, and it is still there.
SeenIsThere ==
    \A r \in Readers :
        /\ pc[r] \notin {"print", "unlock"} => seen[r] = <<>>
        /\ \A i \in DOMAIN seen[r] : i \in DOMAIN shared_data /\ seen[r][i] = shared_data[i]

\* Only the item a writer is at, between its two stores, names one writer and
\* has the time of another.
ItemsWhole ==
    /\ \A w \in Writers : pc[w] = "settime" => shared_data[k[w]].wrid = -w
    /\ \A i \in DOMAIN shared_data :
          \/ shared_data[i].wrid = -shared_data[i].wrtime[1]
          \/ \E w \in Writers : pc[w] = "settime" /\ k[w] = i

RwlockInv == TypeOK /\ LockHeld /\ SeenIsThere /\ ItemsWhole
==============================================================================
