--------------------------- MODULE PthreadProdCons ---------------------------
(***************************************************************************)
(* chapter16/pthread_prodcons.c: a bounded ring buffer shared by producer  *)
(* and consumer threads through one mutex and two condition variables, and *)
(* the protocol by which consumers learn that no producer is left.         *)
(*                                                                         *)
(* A step is a lock, an unlock, a test, a signal or the code between them. *)
(* Two tests read a counter that another mutex protects (lines 101, 114):  *)
(* each reads the counter as it is at that instant, which may be over when *)
(* the statement after the test runs.  Threads are numbered in the order   *)
(* main() creates them, so thread t >= numConsumers is the producer with   *)
(* tid = t - numConsumers.                                                 *)
(***************************************************************************)
EXTENDS Integers, Sequences, FiniteSets

CONSTANTS numProducers, numConsumers,  \* options -p and -c
          BUFFER_SIZE,                 \* slots of the ring
          MaxItems,                    \* option -m: items each producer adds
          SpuriousWakeups              \* may pthread_cond_wait return unsignalled?

ASSUME SizesAssumption ==
    /\ numProducers \in Nat \ {0}
    /\ numConsumers \in Nat \ {0}
    /\ BUFFER_SIZE \in Nat \ {0}
    /\ MaxItems \in Nat \ {0}
    /\ SpuriousWakeups \in BOOLEAN

VARIABLES
    pc,                 \* pc[t]: where thread t is
    i,                  \* i[p]: the producer's local loop counter
    reg,                \* reg[t]: the value loaded by a counter's "--"
    buf_mutex, prodcount_mutex, conscount_mutex,   \* owner of each, or None
    producer_count, consumer_count,
    buffer, front, rear, buf_count,
    received,           \* history: what get_buffer returned, in order
    main                \* "create", "join" or "exited"

counters == <<producer_count, consumer_count>>
locks    == <<buf_mutex, prodcount_mutex, conscount_mutex>>
ring     == <<buffer, front, rear, buf_count>>
vars     == <<pc, i, reg, locks, counters, ring, received, main>>

Consumers == 0 .. numConsumers - 1
Producers == numConsumers .. numConsumers + numProducers - 1
Threads   == Consumers \cup Producers
Slots     == 0 .. BUFFER_SIZE - 1
None      == -1

tid(p)     == p - numConsumers
Item(p, k) == tid(p) * MaxItems + k

\* The waiters of the two condition variables: only producers wait for
\* space_available and only consumers for data_available.
SpaceWaiters == {p \in Producers : pc[p] = "wait"}
DataWaiters  == {c \in Consumers : pc[c] = "wait"}

Init ==
    /\ pc = [t \in Threads |-> "new"]
    /\ i = [p \in Producers |-> 0]
    /\ reg = [t \in Threads |-> 0]
    /\ buf_mutex = None /\ prodcount_mutex = None /\ conscount_mutex = None
    /\ producer_count = numProducers
    /\ consumer_count = numConsumers
    /\ buffer = [s \in Slots |-> 0]
    /\ front = 0 /\ rear = 0 /\ buf_count = 0
    /\ received = <<>>
    /\ main = "create"
------------------------------------------------------------------------------
Goto(t, from, to) == pc[t] = from /\ pc' = [pc EXCEPT ![t] = to]

\* pthread_cond_signal: one of the waiters, if there is one, is unblocked and
\* must take the mutex again before its pthread_cond_wait returns.
Signal(t, waiters, from, to) ==
    /\ pc[t] = from
    /\ \/ waiters = {} /\ pc' = [pc EXCEPT ![t] = to]
       \/ \E w \in waiters : pc' = [pc EXCEPT ![t] = to, ![w] = "relock"]

\* Mutant: "if" instead of "while" round pthread_cond_wait.
LockBufIf(t) ==
    /\ \/ Goto(t, "lock", "test")
       \/ Goto(t, "relock", IF t \in Producers THEN "add" ELSE "get")
    /\ buf_mutex = None
    /\ buf_mutex' = t
    /\ UNCHANGED <<i, reg, prodcount_mutex, conscount_mutex, counters, ring,
                   received, main>>

\* pthread_mutex_lock(&buf_mutex), at the head of a loop or inside a wait.
LockBuf(t) ==
    /\ \/ Goto(t, "lock", "test")
       \/ Goto(t, "relock", "test")
    /\ buf_mutex = None
    /\ buf_mutex' = t
    /\ UNCHANGED <<i, reg, prodcount_mutex, conscount_mutex, counters, ring,
                   received, main>>

\* pthread_cond_wait releases the mutex and blocks in one step.
Wait(t, from) ==
    /\ Goto(t, from, "wait")
    /\ buf_mutex' = None
    /\ UNCHANGED <<i, reg, prodcount_mutex, conscount_mutex, counters, ring,
                   received, main>>

SpuriousWakeup(t) ==
    /\ SpuriousWakeups
    /\ Goto(t, "wait", "relock")
    /\ UNCHANGED <<i, reg, locks, counters, ring, received, main>>
------------------------------------------------------------------------------
(* producer() *)

\* while ( ++i <= MaxItems )
ProducerLoop(p) ==
    /\ i' = [i EXCEPT ![p] = @ + 1]
    /\ \/ i[p] + 1 <= MaxItems /\ Goto(p, "head", "lock")
       \/ i[p] + 1 > MaxItems /\ Goto(p, "head", "exit")
    /\ UNCHANGED <<reg, locks, counters, ring, received, main>>

\* buf_mutex protects buf_count, so nothing comes between this test and the wait.
ProducerWait(p) == buf_count = BUFFER_SIZE /\ Wait(p, "test")

ProducerProceed(p) ==
    /\ buf_count # BUFFER_SIZE
    /\ Goto(p, "test", "add")
    /\ UNCHANGED <<i, reg, locks, counters, ring, received, main>>

\* Mutant: rear is advanced before the slot is written.
add_buffer_late(p) ==
    /\ Goto(p, "add", "signal")
    /\ rear' = (rear + 1) % BUFFER_SIZE
    /\ buffer' = [buffer EXCEPT ![rear'] = Item(p, i[p])]
    /\ buf_count' = buf_count + 1
    /\ UNCHANGED <<i, reg, locks, counters, front, received, main>>

add_buffer(p) ==
    /\ Goto(p, "add", "signal")
    /\ buffer' = [buffer EXCEPT ![rear] = Item(p, i[p])]
    /\ rear' = (rear + 1) % BUFFER_SIZE
    /\ buf_count' = buf_count + 1
    /\ UNCHANGED <<i, reg, locks, counters, front, received, main>>

SignalData(p) ==
    /\ Signal(p, DataWaiters, "signal", "unlock")
    /\ UNCHANGED <<i, reg, locks, counters, ring, received, main>>

ProducerUnlock(p) ==
    /\ Goto(p, "unlock", "head")
    /\ buf_mutex' = None
    /\ UNCHANGED <<i, reg, prodcount_mutex, conscount_mutex, counters, ring,
                   received, main>>

\* Mutant: the count is decremented without its mutex.
LockProdcountNot(p) ==
    /\ Goto(p, "exit", "load")
    /\ UNCHANGED <<i, reg, locks, counters, ring, received, main>>

LockProdcount(p) ==
    /\ Goto(p, "exit", "load")
    /\ prodcount_mutex = None
    /\ prodcount_mutex' = p
    /\ UNCHANGED <<i, reg, buf_mutex, conscount_mutex, counters, ring,
                   received, main>>

LoadProducerCount(p) ==
    /\ Goto(p, "load", "store")
    /\ reg' = [reg EXCEPT ![p] = producer_count]
    /\ UNCHANGED <<i, locks, counters, ring, received, main>>

\* Mutant: every exiting producer drains, not only the one that reaches zero.
StoreProducerCountAll(p) ==
    /\ producer_count' = reg[p] - 1
    /\ Goto(p, "store", "drain")
    /\ UNCHANGED <<i, reg, locks, consumer_count, ring, received, main>>

\* producer_count--, and the test that makes the last producer drain.
StoreProducerCount(p) ==
    /\ producer_count' = reg[p] - 1
    /\ \/ reg[p] - 1 = 0 /\ Goto(p, "store", "drain")
       \/ reg[p] - 1 # 0 /\ Goto(p, "store", "release")
    /\ UNCHANGED <<i, reg, locks, consumer_count, ring, received, main>>

\* Mutant: the last producer wakes every waiter once, as a broadcast would, and
\* does not come back for a consumer that falls asleep afterwards.
DrainBroadcast(p) ==
    /\ consumer_count > 0
    /\ pc[p] = "drain"
    /\ pc' = [t \in Threads |-> CASE t = p -> "release"
                                 [] t \in DataWaiters -> "relock"
                                 [] OTHER -> pc[t]]
    /\ UNCHANGED <<i, reg, locks, counters, ring, received, main>>

\* while ( consumer_count > 0 ) pthread_cond_signal(&data_available)
DrainSignal(p) ==
    /\ consumer_count > 0
    /\ Signal(p, DataWaiters, "drain", "drain")
    /\ UNCHANGED <<i, reg, locks, counters, ring, received, main>>

DrainEnd(p) ==
    /\ consumer_count <= 0
    /\ Goto(p, "drain", "release")
    /\ UNCHANGED <<i, reg, locks, counters, ring, received, main>>

UnlockProdcount(p) ==
    /\ Goto(p, "release", "done")
    /\ prodcount_mutex' = None
    /\ UNCHANGED <<i, reg, buf_mutex, conscount_mutex, counters, ring,
                   received, main>>

producer(p) ==
    \/ LockBuf(p) \/ ProducerLoop(p) \/ ProducerWait(p) \/ ProducerProceed(p)
    \/ add_buffer(p) \/ SignalData(p) \/ ProducerUnlock(p)
    \/ LockProdcount(p) \/ LoadProducerCount(p) \/ StoreProducerCount(p)
    \/ DrainSignal(p) \/ DrainEnd(p) \/ UnlockProdcount(p)
------------------------------------------------------------------------------
(* consumer() *)

\* The buffer is empty and a producer is left, as producer_count reads now ...
ConsumerTest(c) ==
    /\ buf_count = 0
    /\ producer_count > 0
    /\ Goto(c, "test", "sleep")
    /\ UNCHANGED <<i, reg, locks, counters, ring, received, main>>

\* ... and may no longer be when the consumer blocks: the last producer may have
\* decremented the count and signalled in between.
ConsumerWait(c) == Wait(c, "sleep")

\* Mutant: producer_count is tested before buf_count.
ConsumerLeaveEarly(c) ==
    /\ producer_count <= 0
    /\ Goto(c, "test", "leave")
    /\ UNCHANGED <<i, reg, locks, counters, ring, received, main>>

ConsumerLeave(c) ==
    /\ buf_count = 0
    /\ producer_count <= 0
    /\ Goto(c, "test", "leave")
    /\ UNCHANGED <<i, reg, locks, counters, ring, received, main>>

ConsumerProceed(c) ==
    /\ buf_count # 0
    /\ Goto(c, "test", "get")
    /\ UNCHANGED <<i, reg, locks, counters, ring, received, main>>

get_buffer(c) ==
    /\ Goto(c, "get", "signal")
    /\ received' = Append(received, buffer[front])
    /\ front' = (front + 1) % BUFFER_SIZE
    /\ buf_count' = buf_count - 1
    /\ UNCHANGED <<i, reg, locks, counters, buffer, rear, main>>

SignalSpace(c) ==
    /\ Signal(c, SpaceWaiters, "signal", "unlock")
    /\ UNCHANGED <<i, reg, locks, counters, ring, received, main>>

\* The unlock that ends a round, and the one a leaving consumer does.
ConsumerUnlock(c) ==
    /\ Goto(c, "unlock", "lock") \/ Goto(c, "leave", "exit")
    /\ buf_mutex' = None
    /\ UNCHANGED <<i, reg, prodcount_mutex, conscount_mutex, counters, ring,
                   received, main>>

LockConscount(c) ==
    /\ Goto(c, "exit", "load")
    /\ conscount_mutex = None
    /\ conscount_mutex' = c
    /\ UNCHANGED <<i, reg, buf_mutex, prodcount_mutex, counters, ring,
                   received, main>>

LoadConsumerCount(c) ==
    /\ Goto(c, "load", "store")
    /\ reg' = [reg EXCEPT ![c] = consumer_count]
    /\ UNCHANGED <<i, locks, counters, ring, received, main>>

StoreConsumerCount(c) ==
    /\ Goto(c, "store", "release")
    /\ consumer_count' = reg[c] - 1
    /\ UNCHANGED <<i, reg, locks, producer_count, ring, received, main>>

UnlockConscount(c) ==
    /\ Goto(c, "release", "done")
    /\ conscount_mutex' = None
    /\ UNCHANGED <<i, reg, buf_mutex, prodcount_mutex, counters, ring,
                   received, main>>

consumer(c) ==
    \/ LockBuf(c) \/ ConsumerTest(c) \/ ConsumerWait(c) \/ ConsumerLeave(c)
    \/ ConsumerProceed(c) \/ get_buffer(c) \/ SignalSpace(c) \/ ConsumerUnlock(c)
    \/ LockConscount(c) \/ LoadConsumerCount(c) \/ StoreConsumerCount(c)
    \/ UnlockConscount(c)
------------------------------------------------------------------------------
(* main(): create the consumers, then the producers, then join them all. *)

Create(t) ==
    /\ main = "create"
    /\ \A u \in Threads : u < t => pc[u] # "new"
    /\ Goto(t, "new", IF t \in Consumers THEN "lock" ELSE "head")
    /\ main' = IF t = numConsumers + numProducers - 1 THEN "join" ELSE main
    /\ UNCHANGED <<i, reg, locks, counters, ring, received>>

Exit ==
    /\ main = "join"
    /\ \A t \in Threads : pc[t] = "done"
    /\ main' = "exited"
    /\ UNCHANGED <<pc, i, reg, locks, counters, ring, received>>

\* The process is gone: nothing happens any more.
Exited == main = "exited" /\ UNCHANGED vars

Next ==
    \/ \E p \in Producers : producer(p)
    \/ \E c \in Consumers : consumer(c)
    \/ \E t \in Threads : SpuriousWakeup(t)
    \/ \E t \in Threads : Create(t)
    \/ Exit
    \/ Exited

Spec == Init /\ [][Next]_vars

\* Each thread that can run is eventually run; nothing is assumed about which
\* thread a free mutex or a signal goes to, nor that spurious wakeups happen.
FairSpec ==
    /\ Spec
    /\ \A p \in Producers : WF_vars(producer(p))
    /\ \A c \in Consumers : WF_vars(consumer(c))
    /\ WF_vars((\E t \in Threads : Create(t)) \/ Exit)
------------------------------------------------------------------------------
(* Properties *)

ProducerPcs == {"new", "head", "lock", "relock", "test", "wait", "add", "signal",
                "unlock", "exit", "load", "store", "drain", "release", "done"}
ConsumerPcs == {"new", "lock", "relock", "test", "sleep", "wait", "get", "signal",
                "unlock", "leave", "exit", "load", "store", "release", "done"}

\* Every variable stays in its range: above all buf_count, front and rear never
\* leave the ring, although the code adds and takes without testing them again.
TypeOK ==
    /\ pc \in [Threads -> ProducerPcs \cup ConsumerPcs]
    /\ \A p \in Producers : pc[p] \in ProducerPcs
    /\ \A c \in Consumers : pc[c] \in ConsumerPcs
    /\ i \in [Producers -> 0 .. MaxItems + 1]
    /\ reg \in [Threads -> Nat]
    /\ buf_mutex \in Threads \cup {None}
    /\ prodcount_mutex \in Producers \cup {None}
    /\ conscount_mutex \in Consumers \cup {None}
    /\ producer_count \in 0 .. numProducers
    /\ consumer_count \in 0 .. numConsumers
    /\ buffer \in [Slots -> Int]
    /\ front \in Slots /\ rear \in Slots
    /\ buf_count \in 0 .. BUFFER_SIZE
    /\ received \in Seq(Int)
    /\ main \in {"create", "join", "exited"}

\* The contents of the ring, oldest first.
Contents == [k \in 1 .. buf_count |-> buffer[(front + k - 1) % BUFFER_SIZE]]

\* How many items producer p has put into the ring.
Sent(p) == IF pc[p] \in {"new", "head", "signal", "unlock"} THEN i[p]
                                                            ELSE i[p] - 1

Leaving == {"leave", "exit", "load", "store", "release", "done"}

\* The ring, seen through Contents, is the FIFO queue of BoundedBuffer; the
\* numbers 0.. of its producers are the tids of the program's.
Abstract ==
    INSTANCE BoundedBuffer WITH
        Producers <- 0 .. numProducers - 1,
        Capacity <- BUFFER_SIZE,
        queue <- Contents,
        sent <- [n \in 0 .. numProducers - 1 |-> Sent(numConsumers + n)],
        open <- {c \in Consumers : pc[c] \notin Leaving}

\* Adding and taking are the abstract Put and Get whatever the interleaving of
\* the threads, a consumer decides to leave (the unlocked read of
\* producer_count, line 114) only when all is sent and taken, and no other
\* step moves an item.
ImplementsBoundedBuffer == Abstract!Spec

\* No item of a producer comes twice in s, or after a later one of its own.
InOrder(s) ==
    \A p \in Producers, k, l \in 1 .. MaxItems, a, b \in DOMAIN s :
        a < b /\ s[a] = Item(p, k) /\ s[b] = Item(p, l) => k < l

\* When main() exits, nothing was lost, duplicated or reordered within one
\* producer's items, the counts are back to zero and every mutex is free.
CompleteAtExit ==
    main = "exited" =>
        /\ Len(received) = numProducers * MaxItems
        /\ \A p \in Producers, k \in 1 .. MaxItems :
              \E j \in DOMAIN received : received[j] = Item(p, k)
        /\ InOrder(received)
        /\ producer_count = 0 /\ consumer_count = 0
        /\ \A m \in {buf_mutex, prodcount_mutex, conscount_mutex} : m = None

\* The threads that have not yet counted themselves out.
Producing == {p \in Producers : pc[p] \notin {"drain", "release", "done"}}
Consuming == {c \in Consumers : pc[c] \notin {"release", "done"}}

\* The counters are exact, although "--" is a load and a store: they are the
\* threads that have not counted themselves out.
CountsExact ==
    /\ producer_count = Cardinality(Producing)
    /\ consumer_count = Cardinality(Consuming)

\* A producer still holds prodcount_mutex while it drains, so another producer
\* that came to its exit then would wait for ever.  There is none: only the
\* last one drains.
LastProducerDrains ==
    \A p, q \in Producers :
        pc[p] = "drain" /\ p # q => pc[q] \in {"release", "done"}

\* main() gets to exit, also when the last producer decrements its count, or
\* signals, between a consumer's test of it (line 114) and its wait (line 115):
\* no consumer sleeps after the last signal.
Terminates == <>(main = "exited")
------------------------------------------------------------------------------
(* The inductive invariant behind TypeOK, CountsExact and LastProducerDrains *)

BufHolding == {"test", "sleep", "add", "get", "signal", "unlock", "leave"}

\* Whoever is inside a critical section owns its mutex, so nobody else is.
LocksHeld ==
    /\ \A t \in Threads : pc[t] \in BufHolding => buf_mutex = t
    /\ \A p \in Producers :
         pc[p] \in {"load", "store", "drain", "release"} => prodcount_mutex = p
    /\ \A c \in Consumers :
         pc[c] \in {"load", "store", "release"} => conscount_mutex = c

\* The outcome of a while test still holds when the code after it runs.
Tested ==
    /\ \A p \in Producers : pc[p] = "add" => buf_count < BUFFER_SIZE
    /\ \A c \in Consumers : pc[c] = "get" => buf_count > 0

\* Where the loop counter stands at each point of producer().
LoopCounter ==
    \A p \in Producers :
        /\ pc[p] = "new" => i[p] = 0
        /\ pc[p] = "head" => i[p] <= MaxItems
        /\ pc[p] \in {"lock", "relock", "test", "wait", "add", "signal", "unlock"}
             => i[p] \in 1 .. MaxItems
        /\ pc[p] \in {"exit", "load", "store", "drain", "release", "done"}
             => i[p] = MaxItems + 1

\* A loaded counter is not stale, and who drains has seen it reach zero.
Loaded ==
    /\ \A p \in Producers : pc[p] = "store" => reg[p] = producer_count
    /\ \A c \in Consumers : pc[c] = "store" => reg[c] = consumer_count
    /\ \A p \in Producers : pc[p] = "drain" => producer_count = 0

IndInv ==
    TypeOK /\ LocksHeld /\ Tested /\ LoopCounter /\ Loaded /\ CountsExact

\* rear is buf_count slots beyond front, so Contents are the slots written last.
RingClosed == rear = (front + buf_count) % BUFFER_SIZE

\* A mutex that is owned is owned by a thread inside its critical section.
OwnersInside ==
    /\ buf_mutex # None => pc[buf_mutex] \in BufHolding
    /\ prodcount_mutex # None =>
         pc[prodcount_mutex] \in {"load", "store", "drain", "release"}
    /\ conscount_mutex # None => pc[conscount_mutex] \in {"load", "store", "release"}

\* Once a consumer has decided to leave, no producer is left and no item.
LeftEmpty ==
    (\E c \in Consumers : pc[c] \in Leaving) => producer_count = 0 /\ buf_count = 0

\* All that was ever put into the ring, in the order it was put.
Arrived == received \o Contents

\* What arrived is what was sent, and each producer's items came in order.
Delivery ==
    /\ \A p \in Producers, k \in 1 .. MaxItems :
          k <= Sent(p) <=> \E j \in DOMAIN Arrived : Arrived[j] = Item(p, k)
    /\ \A j \in DOMAIN Arrived :
          \E p \in Producers, k \in 1 .. MaxItems : Arrived[j] = Item(p, k)
    /\ InOrder(Arrived)

\* main() exits only after it has joined every thread.
JoinedAll == main = "exited" => \A t \in Threads : pc[t] = "done"

IndInvExit ==
    IndInv /\ RingClosed /\ OwnersInside /\ LeftEmpty /\ Delivery /\ JoinedAll
==============================================================================
