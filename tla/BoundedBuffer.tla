---------------------------- MODULE BoundedBuffer ----------------------------
(***************************************************************************)
(* What the producer-consumer program of chapter 16 promises, without its  *)
(* threads, mutexes, condition variables or ring of slots: a FIFO queue of *)
(* bounded capacity, from which every item every producer adds is taken    *)
(* once, and a consumer that leaves only when nothing can arrive any more. *)
(***************************************************************************)
EXTENDS Naturals, Sequences, FiniteSets

CONSTANTS Producers, Consumers,  \* thread numbers; Producers are numbers in Nat
          Capacity,              \* slots of the buffer
          MaxItems               \* items each producer adds

VARIABLES queue,      \* the items in the buffer, oldest first
          sent,       \* sent[p]: how many items producer p has added
          received,   \* every item taken so far, in the order it was taken
          open        \* the consumers that have not decided to leave

vars == <<queue, sent, received, open>>

\* The i-th item of producer p, numbered as the program numbers it.
Item(p, i) == p * MaxItems + i

Init ==
    /\ queue = <<>>
    /\ sent = [p \in Producers |-> 0]
    /\ received = <<>>
    /\ open = Consumers

Put(p) ==
    /\ sent[p] < MaxItems
    /\ Len(queue) < Capacity
    /\ sent' = [sent EXCEPT ![p] = @ + 1]
    /\ queue' = Append(queue, Item(p, sent[p] + 1))
    /\ UNCHANGED <<received, open>>

Get ==
    /\ open # {}
    /\ queue # <<>>
    /\ received' = Append(received, Head(queue))
    /\ queue' = Tail(queue)
    /\ UNCHANGED <<sent, open>>

Leave(c) ==
    /\ c \in open
    /\ queue = <<>>
    /\ \A p \in Producers : sent[p] = MaxItems
    /\ open' = open \ {c}
    /\ UNCHANGED <<queue, sent, received>>

Next ==
    \/ \E p \in Producers : Put(p)
    \/ Get
    \/ \E c \in Consumers : Leave(c)

Spec == Init /\ [][Next]_vars

\* The queue never stops while an item can still be moved or a consumer leave.
Progress == WF_vars(Next)

FairSpec == Spec /\ Progress
==============================================================================
