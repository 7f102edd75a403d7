----------------------------- MODULE ShmProdCons -----------------------------
(***************************************************************************)
(* chapter12/shm_producer.c, shm_consumer.c and shm_prodcons.h: processes  *)
(* that share a ring in a POSIX shared memory object, ordered by two       *)
(* counting semaphores and a binary one.  The consumer creates the object, *)
(* initialises what is in it and serves until a signal kills it; producers *)
(* attach to whatever object has the name.                                 *)
(*                                                                         *)
(* A fresh object is filled with zeroes, so a producer that attaches early *)
(* finds semaphores of value 0.  Its sem_wait may return once the value is *)
(* positive or never, as sem_init overwrites what it waits on: the model's *)
(* wait is enabled when the value is positive, and no fairness is claimed  *)
(* for a producer that attaches early.                                     *)
(***************************************************************************)
EXTENDS Integers, Sequences, FiniteSets

CONSTANTS Producers,      \* producer processes, numbers 0, 1, ...
          BUF_SIZE,       \* slots in the object
          MaxItems,       \* numbers on each producer's standard input
          AttachEarly,    \* may a producer attach before the consumer is ready?
          MayKill         \* may signals kill processes?

ShmAssumption ==
    /\ IsFiniteSet(Producers) /\ Producers \subseteq Nat
    /\ BUF_SIZE \in Nat \ {0} /\ MaxItems \in Nat \ {0}
    /\ AttachEarly \in BOOLEAN /\ MayKill \in BOOLEAN

VARIABLES
    pc,         \* pc[q]: where process q is, or died
    alive,      \* the processes still running
    name,       \* does the object have its name?
    shm,        \* the object: the semaphores, the indices and the slots
    sent,       \* history: how many items each producer has written
    accepted,   \* history: the items written, in order
    received    \* history: the items read, in order

history == <<sent, accepted, received>>
vars    == <<pc, alive, name, shm, history>>

Consumer   == -1
Processes  == Producers \cup {Consumer}
Slots      == 0 .. BUF_SIZE - 1
Item(p, k) == p * MaxItems + k

Init ==
    /\ pc = [q \in Processes |-> "start"]
    /\ alive = Processes
    /\ name = FALSE
    /\ shm = [sized |-> FALSE, filledbuf_count |-> 0, emptybuf_count |-> 0,
              mutex |-> 0, front |-> 0, rear |-> 0, buf |-> [s \in Slots |-> 0]]
    /\ sent = [p \in Producers |-> 0] /\ accepted = <<>> /\ received = <<>>

Step(q, from, to) == q \in alive /\ pc[q] = from /\ pc' = [pc EXCEPT ![q] = to]

\* A step that sets one member of the object; WAIT and POST are such steps.
Assign(q, member, v, from, to) ==
    /\ Step(q, from, to)
    /\ shm' = [shm EXCEPT ![member] = v]
    /\ UNCHANGED <<alive, name, history>>
WAIT(q, sem, from, to) == shm[sem] > 0 /\ Assign(q, sem, shm[sem] - 1, from, to)
POST(q, sem, from, to) == Assign(q, sem, shm[sem] + 1, from, to)
------------------------------------------------------------------------------
(* shm_producer.c *)

Initialising == {"start", "opened", "sized", "handlers", "filled", "empty",
                 "mutex", "front"}

\* shm_open without O_CREAT, mmap: there must be an object of that name.
Attach(p) ==
    /\ \/ name /\ (AttachEarly \/ pc[Consumer] \notin Initialising)
          /\ Step(p, "start", "input") /\ UNCHANGED alive
       \/ ~name /\ Step(p, "start", "exit") /\ alive' = alive \ {p}
    /\ UNCHANGED <<name, shm, history>>

\* while ( scanf > 0 ); touching an object that is not sized yet is a SIGBUS.
ReadInput(p) ==
    /\ \/ sent[p] < MaxItems /\ shm.sized
          /\ Step(p, "input", "waitempty") /\ UNCHANGED alive
       \/ (sent[p] = MaxItems \/ ~shm.sized)
          /\ Step(p, "input", "exit") /\ alive' = alive \ {p}
    /\ UNCHANGED <<name, shm, history>>

WriteSlot(p) ==
    LET v == Item(p, sent[p] + 1) IN
    /\ Step(p, "write", "advance")
    /\ shm' = [shm EXCEPT !.buf[shm.rear] = v]
    /\ sent' = [sent EXCEPT ![p] = @ + 1]
    /\ accepted' = Append(accepted, v)
    /\ UNCHANGED <<alive, name, received>>

AdvanceRear(p) ==
    Assign(p, "rear", (shm.rear + 1) % BUF_SIZE, "advance", "postmutex")

\* Mutant: the slot is written without the mutex.
add_next_unlocked(p) ==
    \/ WAIT(p, "emptybuf_count", "waitempty", "write")
    \/ WriteSlot(p)
    \/ Assign(p, "rear", (shm.rear + 1) % BUF_SIZE, "advance", "postfilled")
    \/ POST(p, "filledbuf_count", "postfilled", "input")

\* Mutant: the mutex is taken before a free slot is waited for.
add_next_swapped(p) ==
    \/ WAIT(p, "mutex", "waitempty", "waitmutex")
    \/ WAIT(p, "emptybuf_count", "waitmutex", "write")
    \/ WriteSlot(p)
    \/ AdvanceRear(p)
    \/ POST(p, "mutex", "postmutex", "postfilled")
    \/ POST(p, "filledbuf_count", "postfilled", "input")

add_next(p) ==
    \/ WAIT(p, "emptybuf_count", "waitempty", "waitmutex")
    \/ WAIT(p, "mutex", "waitmutex", "write")
    \/ WriteSlot(p)
    \/ AdvanceRear(p)
    \/ POST(p, "mutex", "postmutex", "postfilled")
    \/ POST(p, "filledbuf_count", "postfilled", "input")

Producer(p) == Attach(p) \/ ReadInput(p) \/ add_next(p)
------------------------------------------------------------------------------
(* shm_consumer.c *)

\* shm_open(O_CREAT | O_EXCL), ftruncate, and mmap with the sigaction calls.
SetUp ==
    /\ \/ Step(Consumer, "start", "opened") /\ name' = TRUE /\ UNCHANGED shm
       \/ Step(Consumer, "opened", "sized") /\ UNCHANGED name
          /\ shm' = [shm EXCEPT !.sized = TRUE]
       \/ Step(Consumer, "sized", "handlers") /\ UNCHANGED <<name, shm>>
    /\ UNCHANGED <<alive, history>>

\* Mutant: one free slot too many is promised.
INITSEM_off ==
    \/ Assign(Consumer, "filledbuf_count", 0, "handlers", "filled")
    \/ Assign(Consumer, "emptybuf_count", BUF_SIZE + 1, "filled", "empty")
    \/ Assign(Consumer, "mutex", 1, "empty", "mutex")
    \/ Assign(Consumer, "front", 0, "mutex", "front")
    \/ Assign(Consumer, "rear", 0, "front", "waitfilled")

\* The semaphores one by one, and only then front and rear.
INITSEM ==
    \/ Assign(Consumer, "filledbuf_count", 0, "handlers", "filled")
    \/ Assign(Consumer, "emptybuf_count", BUF_SIZE, "filled", "empty")
    \/ Assign(Consumer, "mutex", 1, "empty", "mutex")
    \/ Assign(Consumer, "front", 0, "mutex", "front")
    \/ Assign(Consumer, "rear", 0, "front", "waitfilled")

ReadSlot ==
    /\ Step(Consumer, "read", "advance")
    /\ received' = Append(received, shm.buf[shm.front])
    /\ UNCHANGED <<alive, name, shm, sent, accepted>>

\* Mutant: the freed slot is announced before it is read.
get_next_early ==
    \/ WAIT(Consumer, "filledbuf_count", "waitfilled", "postempty")
    \/ POST(Consumer, "emptybuf_count", "postempty", "waitmutex")
    \/ WAIT(Consumer, "mutex", "waitmutex", "read")
    \/ ReadSlot
    \/ Assign(Consumer, "front", (shm.front + 1) % BUF_SIZE, "advance", "postmutex")
    \/ POST(Consumer, "mutex", "postmutex", "waitfilled")

get_next ==
    \/ WAIT(Consumer, "filledbuf_count", "waitfilled", "waitmutex")
    \/ WAIT(Consumer, "mutex", "waitmutex", "read")
    \/ ReadSlot
    \/ Assign(Consumer, "front", (shm.front + 1) % BUF_SIZE, "advance", "postmutex")
    \/ POST(Consumer, "mutex", "postmutex", "postempty")
    \/ POST(Consumer, "emptybuf_count", "postempty", "waitfilled")

ConsumerStep == SetUp \/ INITSEM \/ get_next

\* A signal kills a process where it is.  The consumer, once its handlers are
\* installed, runs cleanup() there, which removes the name; sem_destroy leaves
\* the semaphores that attached producers use as they are, so a mutex the
\* consumer held stays taken.
Kill(q) ==
    /\ MayKill
    /\ q \in alive
    /\ alive' = alive \ {q}
    /\ name' = (name /\ (q # Consumer \/ pc[q] \in {"start", "opened", "sized"}))
    /\ UNCHANGED <<pc, shm, history>>
------------------------------------------------------------------------------
Next ==
    \/ \E p \in Producers : Producer(p)
    \/ ConsumerStep
    \/ \E q \in Processes : Kill(q)

Spec == Init /\ [][Next]_vars

\* A process that can run eventually does, and one blocked in sem_wait is not
\* passed over for ever.  Nothing forces a producer to start in time.
FairSpec ==
    /\ Spec
    /\ \A p \in Producers : SF_vars(pc[p] # "start" /\ Producer(p))
    /\ SF_vars(ConsumerStep)
------------------------------------------------------------------------------
(* Properties *)

TypeOK ==
    /\ pc \in [Processes -> Initialising \cup
               {"input", "waitempty", "waitfilled", "waitmutex", "write", "read",
                "advance", "postmutex", "postfilled", "postempty", "exit"}]
    /\ alive \subseteq Processes /\ name \in BOOLEAN
    /\ shm \in [sized : BOOLEAN, filledbuf_count : 0 .. BUF_SIZE,
                emptybuf_count : 0 .. BUF_SIZE, mutex : 0 .. 1,
                front : Slots, rear : Slots, buf : [Slots -> Int]]
    /\ sent \in [Producers -> 0 .. MaxItems]
    /\ accepted \in Seq(Int) /\ received \in Seq(Int)

\* How many processes, dead ones included, stopped or are at a point in S.
At(S) == Cardinality({q \in Processes : pc[q] \in S})

\* Once the consumer is ready, every slot is free, filled, or in the hands of
\* one process between its WAIT and its POST, and the mutex is free exactly
\* when nobody is between the two: a death there takes the slot and the mutex
\* with it, and nothing else.
SlotsConserved ==
    pc[Consumer] \notin Initialising =>
        /\ shm.filledbuf_count + shm.emptybuf_count
             + At({"waitmutex", "write", "read", "advance", "postmutex",
                   "postfilled", "postempty"}) = BUF_SIZE
        /\ shm.mutex + At({"write", "read", "advance", "postmutex"}) = 1

\* The items written and not yet read, oldest first.  Between the read and the
\* increment the oldest is one slot past front.
Contents ==
    LET first == shm.front + (IF pc[Consumer] = "advance" THEN 1 ELSE 0)
    IN  [k \in 1 .. Len(accepted) - Len(received) |->
            shm.buf[(first + k - 1) % BUF_SIZE]]

Abstract ==
    INSTANCE BoundedBuffer WITH
        Consumers <- {Consumer}, Capacity <- BUF_SIZE,
        queue <- Contents, open <- {Consumer}

\* The object is the FIFO queue of BoundedBuffer for any number of producers,
\* wherever signals kill producers and the consumer: a death inside the
\* critical section may stop the others but does not corrupt the queue.
ImplementsBoundedBuffer == Abstract!Spec

\* "To prevent race condition on buffer" (shm_prodcons.h:37): what the consumer
\* reads is what was written, in the order it was written.
ReceivedInOrder ==
    /\ Len(received) <= Len(accepted)
    /\ received = SubSeq(accepted, 1, Len(received))

\* Unless a process is killed, every item a producer has read from its input
\* is written, and in the end read by the consumer: no deadlock over the three
\* semaphores, whichever processes wait on each.
AllReceived ==
    \A p \in Producers :
        pc[p] = "waitempty"
            ~> \/ \E k \in 1 .. Len(received) : received[k] = Item(p, MaxItems)
               \/ \E q \in Processes : q \notin alive /\ pc[q] # "exit"
------------------------------------------------------------------------------
(* The inductive invariant behind SlotsConserved, ReceivedInOrder and          *)
(* ImplementsBoundedBuffer, for producers that wait until the consumer is ready *)

Ready == pc[Consumer] \notin Initialising

\* Each process is in its own program; a producer that is in a loop before the
\* consumer is ready does not exist, and one that has read a number may write it.
Places ==
    /\ pc[Consumer] \in Initialising \cup
            {"waitfilled", "waitmutex", "read", "advance", "postmutex", "postempty"}
    /\ \A p \in Producers :
         /\ pc[p] \in {"start", "input", "waitempty", "waitmutex", "write", "advance",
                      "postmutex", "postfilled", "exit"}
         /\ pc[p] \in {"waitempty", "waitmutex", "write"} => sent[p] < MaxItems
         /\ ~Ready => pc[p] \in {"start", "exit"}

\* Until the consumer is ready the object has what INITSEM has put into it.
SettingUp ==
    ~Ready =>
        /\ accepted = <<>> /\ received = <<>>
        /\ shm.filledbuf_count = 0 /\ shm.front = 0 /\ shm.rear = 0
        /\ shm.emptybuf_count = IF pc[Consumer] \in {"empty", "mutex", "front"}
                                THEN BUF_SIZE ELSE 0
        /\ shm.mutex = IF pc[Consumer] \in {"mutex", "front"} THEN 1 ELSE 0

\* The processes that have a filled slot in their hands: producers that have
\* not announced it yet, and the consumer when it has not read it yet.
HoldingItem ==
    {q \in Processes : pc[q] \in IF q = Consumer THEN {"waitmutex", "read"}
                                ELSE {"advance", "postmutex", "postfilled"}}

\* The items in the ring are those the semaphore counts and those in hands.
ItemsCounted ==
    Len(accepted) - Len(received) = shm.filledbuf_count + Cardinality(HoldingItem)

\* At most one process is between WAIT(mutex) and POST(mutex).
OneInside ==
    \A q, r \in Processes :
        /\ pc[q] \in {"write", "read", "advance", "postmutex"}
        /\ pc[r] \in {"write", "read", "advance", "postmutex"}
        => q = r

\* Where the next number is read, and where the next is written: an index that
\* is about to be advanced counts as advanced.
FirstSlot == IF pc[Consumer] = "advance" THEN (shm.front + 1) % BUF_SIZE ELSE shm.front
NextSlot  == IF \E p \in Producers : pc[p] = "advance"
             THEN (shm.rear + 1) % BUF_SIZE ELSE shm.rear

\* The ring closes: from the one index to the other there are as many slots as
\* items; and these are what was written but for what was read.
RingInv ==
    /\ NextSlot = (FirstSlot + (Len(accepted) - Len(received))) % BUF_SIZE
    /\ accepted = received \o Contents

ShmInv ==
    TypeOK /\ SlotsConserved /\ Places /\ SettingUp /\ ItemsCounted /\ OneInside /\ RingInv
==============================================================================
