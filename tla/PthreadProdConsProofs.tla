------------------------ MODULE PthreadProdConsProofs ------------------------
(* Proofs about PthreadProdCons, for every number of threads, slots, items. *)
EXTENDS PthreadProdCons, FiniteSetTheorems, SequenceTheorems, TLAPS

\* The threads are numbered without overlap, and None is no thread.
LEMMA ThreadFacts ==
    /\ Producers \subseteq Int /\ Consumers \subseteq Int
    /\ Producers \cap Consumers = {}
    /\ None \notin Threads
    /\ IsFiniteSet(Producers) /\ Cardinality(Producers) = numProducers
    /\ IsFiniteSet(Consumers) /\ Cardinality(Consumers) = numConsumers
<1>1. numProducers \in Nat /\ numConsumers \in Nat
                           /\ numProducers > 0 /\ numConsumers > 0
  BY SizesAssumption
<1>2. /\ IsFiniteSet(Producers) /\ Cardinality(Producers) = numProducers
      /\ IsFiniteSet(Consumers) /\ Cardinality(Consumers) = numConsumers
  BY <1>1, FS_Interval DEF Producers, Consumers
<1>3. QED  BY <1>1, <1>2 DEF Producers, Consumers, Threads, None

\* The invariant holds when main() has set the counters.
LEMMA Initially == Init => IndInv
<1> SUFFICES ASSUME Init PROVE IndInv  OBVIOUS
<1> USE SizesAssumption DEF Init
<1>1. TypeOK
  BY ThreadFacts DEF TypeOK, ProducerPcs, ConsumerPcs, Threads, Slots, None
<1>2. CountsExact
  <2>1. Producing = Producers /\ Consuming = Consumers
    BY DEF Producing, Consuming, Threads
  <2>2. QED  BY <2>1, ThreadFacts DEF CountsExact
<1>3. LocksHeld /\ Tested /\ LoopCounter /\ Loaded
  BY DEF LocksHeld, Tested, LoopCounter, Loaded, BufHolding, Threads
<1>4. QED  BY <1>1, <1>2, <1>3 DEF IndInv

\* Putting an item in, or taking one out, keeps an index inside the ring.
LEMMA IndexInRing ==
    ASSUME NEW x \in Slots
    PROVE  (x + 1) % BUFFER_SIZE \in Slots
  BY SizesAssumption DEF Slots

\* When no thread counts itself out, the two counts stay exact.
LEMMA CountsUnchanged ==
    ASSUME CountsExact, UNCHANGED counters,
           \A p \in Producers : pc[p] \in {"drain", "release", "done"}
                                <=> pc'[p] \in {"drain", "release", "done"},
           \A c \in Consumers : pc[c] \in {"release", "done"}
                                <=> pc'[c] \in {"release", "done"}
    PROVE  CountsExact'
<1>1. Producing' = Producing /\ Consuming' = Consuming
  BY DEF Producing, Consuming
<1>2. QED  BY <1>1 DEF CountsExact, counters

\* Every statement of producer() preserves the invariant.
LEMMA ProducerSteps ==
    ASSUME IndInv, NEW p \in Producers, producer(p)
    PROVE  IndInv'
<1> USE ThreadFacts, SizesAssumption
      DEF IndInv, Goto, BufHolding, Threads, locks, counters, ring,
          ProducerPcs, ConsumerPcs
<1>1. CASE LockBuf(p)
  <2> USE <1>1 DEF LockBuf
  <2>1. TypeOK'  BY DEF TypeOK
  <2>2. LocksHeld'  BY DEF TypeOK, LocksHeld, None
  <2>3. Tested'  BY DEF TypeOK, Tested
  <2>4. LoopCounter'  BY DEF TypeOK, LoopCounter
  <2>5. Loaded'  BY DEF TypeOK, Loaded, LocksHeld
  <2>6. CountsExact'  BY CountsUnchanged DEF TypeOK
  <2>7. QED  BY <2>1, <2>2, <2>3, <2>4, <2>5, <2>6
<1>2. CASE ProducerLoop(p)
  <2> USE <1>2 DEF ProducerLoop
  <2>1. MaxItems \in Nat /\ i[p] \in 0 .. MaxItems + 1  BY DEF TypeOK
  <2>2. i[p] <= MaxItems  BY DEF LoopCounter
  <2>3. i[p] + 1 \in 1 .. MaxItems + 1  BY <2>1, <2>2
  <2>4. i' \in [Producers -> 0 .. MaxItems + 1]  BY <2>3, SMTT(60) DEF TypeOK
  <2>5. pc' \in [Threads -> ProducerPcs \cup ConsumerPcs]  BY DEF TypeOK
  <2>6. \/ pc'[p] = "lock" /\ i'[p] \in 1 .. MaxItems
        \/ pc'[p] = "exit" /\ i'[p] = MaxItems + 1
    BY <2>1, <2>2, <2>3 DEF TypeOK
  <2>7. \A q \in Producers : q # p => pc'[q] = pc[q] /\ i'[q] = i[q]
    BY DEF TypeOK
  <2>8. TypeOK'  BY <2>4, <2>5 DEF TypeOK
  <2>9. LocksHeld'  BY DEF TypeOK, LocksHeld, None
  <2>10. Tested'  BY DEF TypeOK, Tested
  <2>11. LoopCounter'  BY <2>6, <2>7 DEF LoopCounter
  <2>12. Loaded'  BY DEF TypeOK, Loaded, LocksHeld
  <2>13. CountsExact'  BY CountsUnchanged DEF TypeOK
  <2>14. QED  BY <2>8, <2>9, <2>10, <2>11, <2>12, <2>13
<1>3. CASE ProducerWait(p)
  <2> USE <1>3 DEF ProducerWait, Wait
  <2>1. TypeOK'  BY DEF TypeOK
  <2>2. LocksHeld'  BY DEF TypeOK, LocksHeld, None
  <2>3. Tested'  BY DEF TypeOK, Tested
  <2>4. LoopCounter'  BY DEF TypeOK, LoopCounter
  <2>5. Loaded'  BY DEF TypeOK, Loaded, LocksHeld
  <2>6. CountsExact'  BY CountsUnchanged DEF TypeOK
  <2>7. QED  BY <2>1, <2>2, <2>3, <2>4, <2>5, <2>6
<1>4. CASE ProducerProceed(p)
  <2> USE <1>4 DEF ProducerProceed
  <2>1. TypeOK'  BY DEF TypeOK
  <2>2. LocksHeld'  BY DEF TypeOK, LocksHeld, None
  <2>3. Tested'  BY DEF TypeOK, Tested
  <2>4. LoopCounter'  BY DEF TypeOK, LoopCounter
  <2>5. Loaded'  BY DEF TypeOK, Loaded, LocksHeld
  <2>6. CountsExact'  BY CountsUnchanged DEF TypeOK
  <2>7. QED  BY <2>1, <2>2, <2>3, <2>4, <2>5, <2>6
<1>5. CASE add_buffer(p)
  <2> USE <1>5 DEF add_buffer, Item
  <2>1. buf_count < BUFFER_SIZE  BY DEF Tested
  <2>2. tid(p) * MaxItems + i[p] \in Int  BY DEF TypeOK, tid
  <2>3. rear' \in Slots  BY IndexInRing DEF TypeOK
  <2>4. buf_count' \in 0 .. BUFFER_SIZE  BY <2>1 DEF TypeOK
  <2>5. buffer' \in [Slots -> Int]  BY <2>2 DEF TypeOK
  <2>6. TypeOK'  BY <2>3, <2>4, <2>5 DEF TypeOK
  <2>7. LocksHeld'  BY DEF TypeOK, LocksHeld, None
  <2>8. Tested'  BY DEF TypeOK, Tested, LocksHeld
  <2>9. LoopCounter'  BY DEF TypeOK, LoopCounter
  <2>10. Loaded'  BY DEF TypeOK, Loaded, LocksHeld
  <2>11. CountsExact'  BY CountsUnchanged DEF TypeOK
  <2>12. QED  BY <2>6, <2>7, <2>8, <2>9, <2>10, <2>11
<1>6. CASE SignalData(p)
  <2> USE <1>6 DEF SignalData, Signal, DataWaiters
  <2>1. TypeOK'  BY DEF TypeOK
  <2>2. LocksHeld'  BY DEF TypeOK, LocksHeld, None
  <2>3. Tested'  BY DEF TypeOK, Tested
  <2>4. LoopCounter'  BY SMTT(60) DEF TypeOK, LoopCounter
  <2>5. Loaded'  BY DEF TypeOK, Loaded, LocksHeld
  <2>6. CountsExact'  BY CountsUnchanged DEF TypeOK
  <2>7. QED  BY <2>1, <2>2, <2>3, <2>4, <2>5, <2>6
<1>7. CASE ProducerUnlock(p)
  <2> USE <1>7 DEF ProducerUnlock
  <2>1. TypeOK'  BY DEF TypeOK
  <2>2. LocksHeld'  BY DEF TypeOK, LocksHeld, None
  <2>3. Tested'  BY DEF TypeOK, Tested
  <2>4. LoopCounter'  BY DEF TypeOK, LoopCounter
  <2>5. Loaded'  BY DEF TypeOK, Loaded, LocksHeld
  <2>6. CountsExact'  BY CountsUnchanged DEF TypeOK
  <2>7. QED  BY <2>1, <2>2, <2>3, <2>4, <2>5, <2>6
<1>8. CASE LockProdcount(p)
  <2> USE <1>8 DEF LockProdcount
  <2>1. TypeOK'  BY DEF TypeOK
  <2>2. LocksHeld'  BY DEF TypeOK, LocksHeld, None
  <2>3. Tested'  BY DEF TypeOK, Tested
  <2>4. LoopCounter'  BY DEF TypeOK, LoopCounter
  <2>5. Loaded'  BY DEF TypeOK, Loaded, LocksHeld
  <2>6. CountsExact'  BY CountsUnchanged DEF TypeOK
  <2>7. QED  BY <2>1, <2>2, <2>3, <2>4, <2>5, <2>6
<1>9. CASE LoadProducerCount(p)
  <2> USE <1>9 DEF LoadProducerCount
  <2>1. producer_count \in Nat /\ consumer_count \in Nat  BY DEF TypeOK
  <2>2. TypeOK'  BY <2>1 DEF TypeOK
  <2>3. LocksHeld'  BY DEF TypeOK, LocksHeld, None
  <2>4. Tested'  BY DEF TypeOK, Tested
  <2>5. LoopCounter'  BY DEF TypeOK, LoopCounter
  <2>6. Loaded'  BY DEF TypeOK, Loaded, LocksHeld
  <2>7. CountsExact'  BY CountsUnchanged DEF TypeOK
  <2>8. QED  BY <2>2, <2>3, <2>4, <2>5, <2>6, <2>7
<1>10. CASE StoreProducerCount(p)
  <2> USE <1>10 DEF StoreProducerCount
  <2>1. producer_count \in Nat /\ consumer_count \in Nat  BY DEF TypeOK
  <2>2. reg[p] = producer_count  BY DEF Loaded
  <2>3. /\ pc[p] = "store" /\ pc'[p] \in {"drain", "release"}
        /\ \A u \in Threads : u # p => pc'[u] = pc[u]
    BY DEF TypeOK
  <2>4. Producing' = Producing \ {p} /\ p \in Producing
    BY <2>3 DEF Producing
  <2>5. Consuming' = Consuming
    BY <2>3 DEF Consuming
  <2>6. IsFiniteSet(Producing)  BY FS_Subset DEF Producing
  <2>7. Cardinality(Producing') = Cardinality(Producing) - 1
    BY <2>4, <2>6, FS_RemoveElement
  <2>8. producer_count # 0
    BY <2>4, <2>6, FS_EmptySet DEF CountsExact
  <2>9. producer_count' \in 0 .. numProducers  BY <2>1, <2>2, <2>8 DEF TypeOK
  <2>10. TypeOK'  BY <2>9 DEF TypeOK
  <2>11. LocksHeld'  BY DEF TypeOK, LocksHeld, None
  <2>12. Tested'  BY DEF TypeOK, Tested
  <2>13. LoopCounter'  BY DEF TypeOK, LoopCounter
  <2>14. Loaded'  BY <2>2 DEF TypeOK, Loaded, LocksHeld
  <2>15. CountsExact'  BY <2>2, <2>4, <2>5, <2>7 DEF CountsExact
  <2>16. QED  BY <2>10, <2>11, <2>12, <2>13, <2>14, <2>15
<1>11. CASE DrainSignal(p)
  <2> USE <1>11 DEF DrainSignal, Signal, DataWaiters
  <2>1. TypeOK'  BY DEF TypeOK
  <2>2. LocksHeld'  BY DEF TypeOK, LocksHeld, None
  <2>3. Tested'  BY DEF TypeOK, Tested
  <2>4. LoopCounter'  BY DEF TypeOK, LoopCounter
  <2>5. Loaded'  BY DEF TypeOK, Loaded, LocksHeld
  <2>6. CountsExact'  BY CountsUnchanged DEF TypeOK
  <2>7. QED  BY <2>1, <2>2, <2>3, <2>4, <2>5, <2>6
<1>12. CASE DrainEnd(p)
  <2> USE <1>12 DEF DrainEnd
  <2>1. TypeOK'  BY DEF TypeOK
  <2>2. LocksHeld'  BY DEF TypeOK, LocksHeld, None
  <2>3. Tested'  BY DEF TypeOK, Tested
  <2>4. LoopCounter'  BY DEF TypeOK, LoopCounter
  <2>5. Loaded'  BY DEF TypeOK, Loaded, LocksHeld
  <2>6. CountsExact'  BY CountsUnchanged DEF TypeOK
  <2>7. QED  BY <2>1, <2>2, <2>3, <2>4, <2>5, <2>6
<1>13. CASE UnlockProdcount(p)
  <2> USE <1>13 DEF UnlockProdcount
  <2>1. TypeOK'  BY DEF TypeOK
  <2>2. LocksHeld'  BY DEF TypeOK, LocksHeld, None
  <2>3. Tested'  BY DEF TypeOK, Tested
  <2>4. LoopCounter'  BY DEF TypeOK, LoopCounter
  <2>5. Loaded'  BY DEF TypeOK, Loaded, LocksHeld
  <2>6. CountsExact'  BY CountsUnchanged DEF TypeOK
  <2>7. QED  BY <2>1, <2>2, <2>3, <2>4, <2>5, <2>6
<1>14. QED
  BY <1>1, <1>2, <1>3, <1>4, <1>5, <1>6, <1>7, <1>8, <1>9, <1>10, <1>11, <1>12, <1>13
  DEF producer

\* Every statement of consumer() preserves the invariant.
LEMMA ConsumerSteps ==
    ASSUME IndInv, NEW c \in Consumers, consumer(c)
    PROVE  IndInv'
<1> USE ThreadFacts, SizesAssumption
      DEF IndInv, Goto, BufHolding, Threads, locks, counters, ring,
          ProducerPcs, ConsumerPcs
<1>1. CASE LockBuf(c)
  <2> USE <1>1 DEF LockBuf
  <2>1. TypeOK'  BY DEF TypeOK
  <2>2. LocksHeld'  BY DEF TypeOK, LocksHeld, None
  <2>3. Tested'  BY DEF TypeOK, Tested
  <2>4. LoopCounter'  BY DEF TypeOK, LoopCounter
  <2>5. Loaded'  BY DEF TypeOK, Loaded, LocksHeld
  <2>6. CountsExact'  BY CountsUnchanged DEF TypeOK
  <2>7. QED  BY <2>1, <2>2, <2>3, <2>4, <2>5, <2>6
<1>2. CASE ConsumerWait(c)
  <2> USE <1>2 DEF ConsumerWait, Wait
  <2>1. TypeOK'  BY DEF TypeOK
  <2>2. LocksHeld'  BY DEF TypeOK, LocksHeld, None
  <2>3. Tested'  BY DEF TypeOK, Tested
  <2>4. LoopCounter'  BY DEF TypeOK, LoopCounter
  <2>5. Loaded'  BY DEF TypeOK, Loaded, LocksHeld
  <2>6. CountsExact'  BY CountsUnchanged DEF TypeOK
  <2>7. QED  BY <2>1, <2>2, <2>3, <2>4, <2>5, <2>6
<1>3. CASE ConsumerLeave(c)
  <2> USE <1>3 DEF ConsumerLeave
  <2>1. TypeOK'  BY DEF TypeOK
  <2>2. LocksHeld'  BY DEF TypeOK, LocksHeld, None
  <2>3. Tested'  BY DEF TypeOK, Tested
  <2>4. LoopCounter'  BY DEF TypeOK, LoopCounter
  <2>5. Loaded'  BY DEF TypeOK, Loaded, LocksHeld
  <2>6. CountsExact'  BY CountsUnchanged DEF TypeOK
  <2>7. QED  BY <2>1, <2>2, <2>3, <2>4, <2>5, <2>6
<1>4. CASE ConsumerProceed(c)
  <2> USE <1>4 DEF ConsumerProceed
  <2>1. TypeOK'  BY DEF TypeOK
  <2>2. LocksHeld'  BY DEF TypeOK, LocksHeld, None
  <2>3. Tested'  BY DEF TypeOK, Tested
  <2>4. LoopCounter'  BY DEF TypeOK, LoopCounter
  <2>5. Loaded'  BY DEF TypeOK, Loaded, LocksHeld
  <2>6. CountsExact'  BY CountsUnchanged DEF TypeOK
  <2>7. QED  BY <2>1, <2>2, <2>3, <2>4, <2>5, <2>6
<1>5. CASE get_buffer(c)
  <2> USE <1>5 DEF get_buffer
  <2>1. buf_count > 0  BY DEF Tested
  <2>2. front' \in Slots  BY IndexInRing DEF TypeOK
  <2>3. received' \in Seq(Int)  BY DEF TypeOK
  <2>4. buf_count' \in 0 .. BUFFER_SIZE  BY <2>1 DEF TypeOK
  <2>5. TypeOK'  BY <2>2, <2>3, <2>4 DEF TypeOK
  <2>6. LocksHeld'  BY DEF TypeOK, LocksHeld, None
  <2>7. Tested'  BY DEF TypeOK, Tested, LocksHeld
  <2>8. LoopCounter'  BY DEF TypeOK, LoopCounter
  <2>9. Loaded'  BY DEF TypeOK, Loaded, LocksHeld
  <2>10. CountsExact'  BY CountsUnchanged DEF TypeOK
  <2>11. QED  BY <2>5, <2>6, <2>7, <2>8, <2>9, <2>10
<1>6. CASE SignalSpace(c)
  <2> USE <1>6 DEF SignalSpace, Signal, SpaceWaiters
  <2>1. TypeOK'  BY DEF TypeOK
  <2>2. LocksHeld'  BY DEF TypeOK, LocksHeld, None
  <2>3. Tested'  BY DEF TypeOK, Tested
  <2>4. LoopCounter'  BY SMTT(60) DEF TypeOK, LoopCounter
  <2>5. Loaded'  BY DEF TypeOK, Loaded, LocksHeld
  <2>6. CountsExact'  BY CountsUnchanged DEF TypeOK
  <2>7. QED  BY <2>1, <2>2, <2>3, <2>4, <2>5, <2>6
<1>7. CASE ConsumerUnlock(c)
  <2> USE <1>7 DEF ConsumerUnlock
  <2>1. TypeOK'  BY DEF TypeOK
  <2>2. LocksHeld'  BY DEF TypeOK, LocksHeld, None
  <2>3. Tested'  BY DEF TypeOK, Tested
  <2>4. LoopCounter'  BY DEF TypeOK, LoopCounter
  <2>5. Loaded'  BY DEF TypeOK, Loaded, LocksHeld
  <2>6. CountsExact'  BY CountsUnchanged DEF TypeOK
  <2>7. QED  BY <2>1, <2>2, <2>3, <2>4, <2>5, <2>6
<1>8. CASE LockConscount(c)
  <2> USE <1>8 DEF LockConscount
  <2>1. TypeOK'  BY DEF TypeOK
  <2>2. LocksHeld'  BY DEF TypeOK, LocksHeld, None
  <2>3. Tested'  BY DEF TypeOK, Tested
  <2>4. LoopCounter'  BY DEF TypeOK, LoopCounter
  <2>5. Loaded'  BY DEF TypeOK, Loaded, LocksHeld
  <2>6. CountsExact'  BY CountsUnchanged DEF TypeOK
  <2>7. QED  BY <2>1, <2>2, <2>3, <2>4, <2>5, <2>6
<1>9. CASE LoadConsumerCount(c)
  <2> USE <1>9 DEF LoadConsumerCount
  <2>1. producer_count \in Nat /\ consumer_count \in Nat  BY DEF TypeOK
  <2>2. TypeOK'  BY <2>1 DEF TypeOK
  <2>3. LocksHeld'  BY DEF TypeOK, LocksHeld, None
  <2>4. Tested'  BY DEF TypeOK, Tested
  <2>5. LoopCounter'  BY DEF TypeOK, LoopCounter
  <2>6. Loaded'  BY DEF TypeOK, Loaded, LocksHeld
  <2>7. CountsExact'  BY CountsUnchanged DEF TypeOK
  <2>8. QED  BY <2>2, <2>3, <2>4, <2>5, <2>6, <2>7
<1>10. CASE StoreConsumerCount(c)
  <2> USE <1>10 DEF StoreConsumerCount
  <2>1. producer_count \in Nat /\ consumer_count \in Nat  BY DEF TypeOK
  <2>2. reg[c] = consumer_count  BY DEF Loaded
  <2>3. /\ pc[c] = "store" /\ pc'[c] \in {"drain", "release"}
        /\ \A u \in Threads : u # c => pc'[u] = pc[u]
    BY DEF TypeOK
  <2>4. Consuming' = Consuming \ {c} /\ c \in Consuming
    BY <2>3 DEF Consuming
  <2>5. Producing' = Producing
    BY <2>3 DEF Producing
  <2>6. IsFiniteSet(Consuming)  BY FS_Subset DEF Consuming
  <2>7. Cardinality(Consuming') = Cardinality(Consuming) - 1
    BY <2>4, <2>6, FS_RemoveElement
  <2>8. consumer_count # 0
    BY <2>4, <2>6, FS_EmptySet DEF CountsExact
  <2>9. consumer_count' \in 0 .. numConsumers  BY <2>1, <2>2, <2>8 DEF TypeOK
  <2>10. TypeOK'  BY <2>9 DEF TypeOK
  <2>11. LocksHeld'  BY DEF TypeOK, LocksHeld, None
  <2>12. Tested'  BY DEF TypeOK, Tested
  <2>13. LoopCounter'  BY DEF TypeOK, LoopCounter
  <2>14. Loaded'  BY <2>2 DEF TypeOK, Loaded, LocksHeld
  <2>15. CountsExact'  BY <2>2, <2>4, <2>5, <2>7 DEF CountsExact
  <2>16. QED  BY <2>10, <2>11, <2>12, <2>13, <2>14, <2>15
<1>11. CASE UnlockConscount(c)
  <2> USE <1>11 DEF UnlockConscount
  <2>1. TypeOK'  BY DEF TypeOK
  <2>2. LocksHeld'  BY DEF TypeOK, LocksHeld, None
  <2>3. Tested'  BY DEF TypeOK, Tested
  <2>4. LoopCounter'  BY DEF TypeOK, LoopCounter
  <2>5. Loaded'  BY DEF TypeOK, Loaded, LocksHeld
  <2>6. CountsExact'  BY CountsUnchanged DEF TypeOK
  <2>7. QED  BY <2>1, <2>2, <2>3, <2>4, <2>5, <2>6
<1>12. CASE ConsumerTest(c)
  <2> USE <1>12 DEF ConsumerTest
  <2>1. TypeOK'  BY DEF TypeOK
  <2>2. LocksHeld'  BY DEF TypeOK, LocksHeld, None
  <2>3. Tested'  BY DEF TypeOK, Tested
  <2>4. LoopCounter'  BY DEF TypeOK, LoopCounter
  <2>5. Loaded'  BY DEF TypeOK, Loaded, LocksHeld
  <2>6. CountsExact'  BY CountsUnchanged DEF TypeOK
  <2>7. QED  BY <2>1, <2>2, <2>3, <2>4, <2>5, <2>6
<1>13. QED
  BY <1>1, <1>2, <1>3, <1>4, <1>5, <1>6, <1>7, <1>8, <1>9, <1>10, <1>11, <1>12
  DEF consumer

\* So do main()'s thread creations and spurious wakeups.
LEMMA MainSteps ==
    ASSUME IndInv, NEW t \in Threads, SpuriousWakeup(t) \/ Create(t)
    PROVE  IndInv'
<1> USE ThreadFacts, SizesAssumption
      DEF IndInv, Goto, BufHolding, Threads, locks, counters, ring,
          ProducerPcs, ConsumerPcs
<1>1. CASE SpuriousWakeup(t)
  <2> USE <1>1 DEF SpuriousWakeup
  <2>1. TypeOK'  BY DEF TypeOK
  <2>2. LocksHeld'  BY DEF TypeOK, LocksHeld, None
  <2>3. Tested'  BY DEF TypeOK, Tested
  <2>4. LoopCounter'  BY DEF TypeOK, LoopCounter
  <2>5. Loaded'  BY DEF TypeOK, Loaded, LocksHeld
  <2>6. CountsExact'  BY CountsUnchanged DEF TypeOK
  <2>7. QED  BY <2>1, <2>2, <2>3, <2>4, <2>5, <2>6
<1>2. CASE Create(t)
  <2> USE <1>2 DEF Create
  <2>1. TypeOK'  BY DEF TypeOK
  <2>2. LocksHeld'  BY DEF TypeOK, LocksHeld, None
  <2>3. Tested'  BY DEF TypeOK, Tested
  <2>4. LoopCounter'  BY DEF TypeOK, LoopCounter
  <2>5. Loaded'  BY DEF TypeOK, Loaded, LocksHeld
  <2>6. CountsExact'  BY CountsUnchanged DEF TypeOK
  <2>7. QED  BY <2>1, <2>2, <2>3, <2>4, <2>5, <2>6
<1>3. QED  BY <1>1, <1>2

\* The invariant is inductive.
LEMMA Inductive == IndInv /\ [Next]_vars => IndInv'
<1> SUFFICES ASSUME IndInv, [Next]_vars PROVE IndInv'  OBVIOUS
<1>1. CASE Exit \/ UNCHANGED vars
  BY <1>1 DEF Exit, vars, locks, counters, ring, IndInv, TypeOK, LocksHeld, Tested,
              LoopCounter, Loaded, CountsExact, Producing, Consuming
<1>2. QED
  BY <1>1, ProducerSteps, ConsumerSteps, MainSteps DEF Next, Exited

\* IndInv holds in every reachable state: the ground of the theorems below.
THEOREM Invariance == Spec => []IndInv
  BY Initially, Inductive, PTL DEF Spec

\* Type correctness: no interleaving of the threads takes buf_count, front or
\* rear out of the ring, or a count below zero.
THEOREM TypeCorrect == Spec => []TypeOK
<1>1. IndInv => TypeOK  BY DEF IndInv
<1>2. QED  BY <1>1, Invariance, PTL

\* The counters count exactly the threads that have not counted themselves out.
THEOREM CountersAreExact == Spec => []CountsExact
<1>1. IndInv => CountsExact  BY DEF IndInv
<1>2. QED  BY <1>1, Invariance, PTL

\* The producer that keeps prodcount_mutex while it drains is the last one, so
\* no other producer is kept out for ever.
THEOREM OnlyLastDrains == Spec => []LastProducerDrains
<1>1. IndInv => LastProducerDrains
  <2> SUFFICES ASSUME IndInv, NEW p \in Producers, NEW q \in Producers,
                      pc[p] = "drain", p # q
               PROVE  pc[q] \in {"release", "done"}
    BY DEF LastProducerDrains
  <2>1. producer_count = 0 /\ producer_count = Cardinality(Producing)
    BY DEF IndInv, Loaded, CountsExact
  <2>2. IsFiniteSet(Producing)  BY ThreadFacts, FS_Subset DEF Producing
  <2>3. pc[q] \in {"drain", "release", "done"}
    BY <2>1, <2>2, FS_EmptySet DEF Producing
  <2>4. pc[q] # "drain"  BY DEF IndInv, LocksHeld, Threads
  <2>5. QED  BY <2>3, <2>4
<1>2. QED  BY <1>1, Invariance, PTL
------------------------------------------------------------------------------
\* The ring as a queue

\* Going round the ring once at most, % subtracts BUFFER_SIZE or nothing.
LEMMA RoundOnce ==
    ASSUME NEW x \in Nat, x < 2 * BUFFER_SIZE
    PROVE  x % BUFFER_SIZE = IF x < BUFFER_SIZE THEN x ELSE x - BUFFER_SIZE
  BY SizesAssumption

\* Two items with one number are one producer's, and the same one.
LEMMA ItemsDiffer ==
    ASSUME NEW p \in Producers, NEW q \in Producers,
           NEW k \in 1 .. MaxItems, NEW l \in 1 .. MaxItems, Item(p, k) = Item(q, l)
    PROVE  p = q /\ k = l
<1>1. MaxItems \in Nat /\ p \in Int /\ q \in Int /\ numConsumers \in Int
  BY SizesAssumption, ThreadFacts
<1>2. ASSUME NEW d \in Int, NEW e \in Int, d < e,
             NEW m \in 1 .. MaxItems, NEW n \in 1 .. MaxItems
      PROVE  d * MaxItems + m # e * MaxItems + n
  <2>1. e * MaxItems = d * MaxItems + (e - d) * MaxItems  BY <1>1, <1>2
  <2>2. (e - d) * MaxItems >= MaxItems  BY <1>1, <1>2
  <2>3. d * MaxItems \in Int /\ e * MaxItems \in Int  BY <1>1, <1>2
  <2>4. QED  BY <1>1, <2>1, <2>2, <2>3, <1>2
<1>3. tid(p) \in Int /\ tid(q) \in Int  BY <1>1 DEF tid
<1>4. tid(p) * MaxItems + k = tid(q) * MaxItems + l  BY DEF Item
<1>5. tid(p) = tid(q)  BY <1>2, <1>3, <1>4
<1>6. p = q  BY <1>1, <1>5 DEF tid
<1>7. tid(p) * MaxItems \in Int  BY <1>1, <1>3
<1>8. QED  BY <1>4, <1>6, <1>7

\* Every item is a number.
LEMMA ItemIsInt ==
    ASSUME NEW p \in Producers, NEW k \in Int
    PROVE  Item(p, k) \in Int
  BY SizesAssumption, ThreadFacts DEF Item, tid

\* add_buffer appends its item to the contents of the ring.
LEMMA AddAppends ==
    ASSUME IndInv, RingClosed, NEW p \in Producers, add_buffer(p)
    PROVE  RingClosed' /\ Contents' = Append(Contents, Item(p, i[p]))
<1> USE SizesAssumption DEF Slots, RingClosed
<1>1. /\ front \in Nat /\ front < BUFFER_SIZE /\ rear \in Slots
      /\ buf_count \in Nat /\ buf_count < BUFFER_SIZE /\ buffer \in [Slots -> Int]
      /\ BUFFER_SIZE \in Nat /\ i[p] \in Int
  BY DEF add_buffer, Goto, IndInv, TypeOK, Tested
<1>2. /\ buffer' = [buffer EXCEPT ![rear] = Item(p, i[p])]
      /\ rear' = (rear + 1) % BUFFER_SIZE
      /\ buf_count' = buf_count + 1
      /\ front' = front
  BY DEF add_buffer
<1>3. rear = IF front + buf_count < BUFFER_SIZE THEN front + buf_count
                                    ELSE front + buf_count - BUFFER_SIZE
  BY <1>1
<1>4. RingClosed'
  <2>1. (rear + 1) % BUFFER_SIZE
          = IF rear + 1 < BUFFER_SIZE THEN rear + 1 ELSE rear + 1 - BUFFER_SIZE
    BY <1>1, SMTT(30)
  <2>2. (front + (buf_count + 1)) % BUFFER_SIZE
          = IF front + (buf_count + 1) < BUFFER_SIZE THEN front + (buf_count + 1)
                                    ELSE front + (buf_count + 1) - BUFFER_SIZE
    BY <1>1, SMTT(60)
  <2>3. (rear + 1) % BUFFER_SIZE = (front + (buf_count + 1)) % BUFFER_SIZE
    BY <1>1, <1>3, <2>1, <2>2
  <2>4. QED  BY <1>2, <2>3
<1>5. ASSUME NEW k \in 1 .. buf_count + 1
      PROVE  /\ (front + k - 1) % BUFFER_SIZE \in Slots
             /\ k <= buf_count => (front + k - 1) % BUFFER_SIZE # rear
             /\ k = buf_count + 1 => (front + k - 1) % BUFFER_SIZE = rear
  <2>1. PICK x \in Nat : x = front + k - 1 /\ x < 2 * BUFFER_SIZE  BY <1>1
  <2>2. x % BUFFER_SIZE = IF x < BUFFER_SIZE THEN x ELSE x - BUFFER_SIZE
    BY <2>1, RoundOnce
  <2>3. PICK y \in Nat : y = x % BUFFER_SIZE  BY <1>1, <2>1, <2>2
  <2>4. y = IF x < BUFFER_SIZE THEN x ELSE x - BUFFER_SIZE  BY <2>2, <2>3
  <2> HIDE DEF RingClosed
  <2>5. /\ y \in Slots
        /\ k <= buf_count => y # rear
        /\ k = buf_count + 1 => y = rear
    BY <1>1, <1>3, <2>1, <2>4
  <2>6. QED  BY <2>1, <2>3, <2>5
<1>6. Contents' = [k \in 1 .. buf_count + 1 |->
                     IF k <= buf_count THEN buffer[(front + k - 1) % BUFFER_SIZE]
                                       ELSE Item(p, i[p])]
  <2>1. Contents' = [k \in 1 .. buf_count + 1 |->
                       buffer'[(front + k - 1) % BUFFER_SIZE]]
    BY <1>2 DEF Contents
  <2>2. ASSUME NEW k \in 1 .. buf_count + 1
        PROVE  buffer'[(front + k - 1) % BUFFER_SIZE]
                 = IF k <= buf_count THEN buffer[(front + k - 1) % BUFFER_SIZE]
                                     ELSE Item(p, i[p])
    <3> DEFINE s == (front + k - 1) % BUFFER_SIZE
    <3>1. s \in Slots /\ (k <= buf_count => s # rear) /\ (k = buf_count + 1 => s = rear)
      BY <1>5
    <3>2. k <= buf_count \/ k = buf_count + 1  BY <1>1
    <3>3. buffer'[s] = IF s = rear THEN Item(p, i[p]) ELSE buffer[s]
      BY <1>1, <1>2, <3>1
    <3>4. ~(buf_count + 1 <= buf_count)  BY <1>1
    <3> HIDE DEF s
    <3>5. buffer'[s] = IF k <= buf_count THEN buffer[s] ELSE Item(p, i[p])
      BY <3>1, <3>2, <3>3, <3>4
    <3>6. QED  BY <3>5 DEF s
  <2>3. QED  BY <2>1, <2>2
<1>7. Contents \in Seq(Int) /\ Len(Contents) = buf_count
  <2>1. \A k \in 1 .. buf_count : buffer[(front + k - 1) % BUFFER_SIZE] \in Int
    BY <1>1, <1>5
  <2>2. QED  BY <1>1, <2>1 DEF Contents
<1>8. Append(Contents, Item(p, i[p]))
        = [k \in 1 .. buf_count + 1 |->
             IF k <= buf_count THEN Contents[k] ELSE Item(p, i[p])]
  <2>1. Item(p, i[p]) \in Int  BY <1>1, ItemIsInt
  <2>2. QED  BY SMTT(60), <1>1, <1>7, <2>1, AppendProperties
<1>9. \A k \in 1 .. buf_count + 1 : k <= buf_count =>
         Contents[k] = buffer[(front + k - 1) % BUFFER_SIZE]
  BY <1>1 DEF Contents
<1>10. QED  BY <1>4, <1>6, <1>8, <1>9

\* The contents of the ring are a sequence of numbers.
LEMMA ContentsAreSeq ==
    ASSUME IndInv
    PROVE  Contents \in Seq(Int) /\ Len(Contents) = buf_count
<1>1. /\ front \in Nat /\ front < BUFFER_SIZE /\ buf_count \in Nat
      /\ buf_count <= BUFFER_SIZE /\ buffer \in [Slots -> Int] /\ BUFFER_SIZE \in Nat
  BY SizesAssumption DEF IndInv, TypeOK, Slots
<1>2. ASSUME NEW k \in 1 .. buf_count
      PROVE  buffer[(front + k - 1) % BUFFER_SIZE] \in Int
  <2>1. PICK x \in Nat : x = front + k - 1 /\ x < 2 * BUFFER_SIZE  BY <1>1
  <2>2. x % BUFFER_SIZE = IF x < BUFFER_SIZE THEN x ELSE x - BUFFER_SIZE
    BY <2>1, RoundOnce
  <2>3. x % BUFFER_SIZE \in Slots  BY <1>1, <2>1, <2>2 DEF Slots
  <2>4. QED  BY <1>1, <2>1, <2>3
<1>3. QED  BY <1>1, <1>2 DEF Contents

\* get_buffer takes the first item of the contents off the ring.
LEMMA TakeRemoves ==
    ASSUME IndInv, RingClosed, NEW c \in Consumers, get_buffer(c)
    PROVE  /\ RingClosed'
           /\ Contents # <<>> /\ Contents' = Tail(Contents)
           /\ received' = Append(received, Head(Contents))
<1>1. /\ front \in Nat /\ front < BUFFER_SIZE /\ BUFFER_SIZE \in Nat
      /\ buf_count \in Nat /\ 0 < buf_count /\ buf_count <= BUFFER_SIZE
  BY SizesAssumption DEF get_buffer, Goto, IndInv, TypeOK, Tested, Slots
<1>2. /\ received' = Append(received, buffer[front])
      /\ front' = (front + 1) % BUFFER_SIZE
      /\ buf_count' = buf_count - 1
      /\ buffer' = buffer /\ rear' = rear
  BY DEF get_buffer
<1>3. front' = IF front + 1 < BUFFER_SIZE THEN front + 1 ELSE front + 1 - BUFFER_SIZE
  BY <1>1, <1>2
<1>4. front' \in Nat /\ front' < BUFFER_SIZE  BY <1>1, <1>3
<1>5. ASSUME NEW f \in Nat, f < BUFFER_SIZE, NEW k \in 1 .. buf_count,
             f = IF front + 1 < BUFFER_SIZE THEN front + 1 ELSE front + 1 - BUFFER_SIZE
      PROVE  (f + k - 1) % BUFFER_SIZE = (front + k) % BUFFER_SIZE
  <2>1. PICK x \in Nat : x = front + k /\ x < 2 * BUFFER_SIZE  BY <1>1
  <2>2. PICK y \in Nat : y = f + k - 1 /\ y < 2 * BUFFER_SIZE  BY <1>1, <1>5
  <2>3. x % BUFFER_SIZE = IF x < BUFFER_SIZE THEN x ELSE x - BUFFER_SIZE
    BY <2>1, RoundOnce
  <2>4. y % BUFFER_SIZE = IF y < BUFFER_SIZE THEN y ELSE y - BUFFER_SIZE
    BY <2>2, RoundOnce
  <2>5. x % BUFFER_SIZE = y % BUFFER_SIZE
    BY <1>1, <1>5, <2>1, <2>2, <2>3, <2>4
  <2>6. QED  BY <2>1, <2>2, <2>5
<1>6. RingClosed'
  <2>1. (front' + buf_count - 1) % BUFFER_SIZE = (front + buf_count) % BUFFER_SIZE
    BY <1>1, <1>3, <1>4, <1>5
  <2>2. front' + buf_count' = front' + buf_count - 1  BY <1>1, <1>2, <1>4
  <2>3. QED  BY <1>2, <2>1, <2>2 DEF RingClosed
<1>7. Contents \in Seq(Int) /\ Len(Contents) = buf_count  BY ContentsAreSeq
<1>8. Contents # <<>>  BY <1>1, <1>7
<1>9. Head(Contents) = buffer[front]
  <2>1. Head(Contents) = Contents[1]  BY <1>7, <1>8
  <2>2. front + 1 - 1 = front /\ front % BUFFER_SIZE = front  BY <1>1
  <2>3. Contents[1] = buffer[(front + 1 - 1) % BUFFER_SIZE]  BY <1>1 DEF Contents
  <2>4. QED  BY <2>1, <2>2, <2>3
<1>10. Contents' = Tail(Contents)
  <2>1. Contents' = [k \in 1 .. buf_count - 1 |-> Contents[k + 1]]
    <3>1. Contents' = [k \in 1 .. buf_count - 1 |->
                         buffer[(front' + k - 1) % BUFFER_SIZE]]
      BY <1>2 DEF Contents
    <3>2. ASSUME NEW k \in 1 .. buf_count - 1
          PROVE  buffer[(front' + k - 1) % BUFFER_SIZE] = Contents[k + 1]
      <4>1. k \in 1 .. buf_count /\ k + 1 \in 1 .. buf_count  BY <1>1
      <4>2. Contents[k + 1] = buffer[(front + (k + 1) - 1) % BUFFER_SIZE]
        BY <4>1 DEF Contents
      <4>3. front + (k + 1) - 1 = front + k  BY <1>1, <4>1
      <4>4. QED  BY <1>3, <1>4, <1>5, <4>1, <4>2, <4>3
    <3>3. QED  BY <3>1, <3>2
  <2>2. Len(Contents) = buf_count /\ Len(Contents) \in Nat  BY <1>7, <1>1
  <2>3. Tail(Contents) \in Seq(Int) /\ Len(Tail(Contents)) = buf_count - 1
        /\ \A k \in 1 .. buf_count - 1 : Tail(Contents)[k] = Contents[k + 1]
    BY <1>7, <1>8, <2>2, HeadTailProperties
  <2>4. Contents' \in Seq(Int) /\ Len(Contents') = buf_count - 1
    BY <1>1, <1>7, <2>1
  <2>5. QED  BY <2>1, <2>3, <2>4, SeqEqual
<1>11. QED  BY <1>2, <1>6, <1>8, <1>9, <1>10

\* Only add_buffer and get_buffer touch the ring, what was received and what
\* each producer has sent.
LEMMA OtherSteps ==
    ASSUME IndInv, \A p \in Producers : ~add_buffer(p),
           \A c \in Consumers : ~get_buffer(c), [Next]_vars
    PROVE  UNCHANGED <<ring, received>> /\ \A q \in Producers : Sent(q)' = Sent(q)
<1> DEFINE Unmoved == /\ UNCHANGED <<ring, received>>
                      /\ \A q \in Producers : Sent(q)' = Sent(q)
<1> SUFFICES Unmoved  OBVIOUS
<1> USE ThreadFacts DEF IndInv, TypeOK, Goto, Threads, locks, counters, ring, Sent
<1>1. ASSUME NEW p \in Producers, producer(p) PROVE Unmoved
  <2>1. CASE LockBuf(p)
    BY <2>1 DEF LockBuf
  <2>2. CASE ProducerLoop(p)
    <3>1. i[p] \in Int /\ (i[p] + 1) - 1 = i[p]  BY ThreadFacts
    <3>2. \A q \in Producers : q # p => pc'[q] = pc[q] /\ i'[q] = i[q]
      BY <2>2 DEF ProducerLoop
    <3>3. pc[p] = "head" /\ pc'[p] \in {"lock", "exit"} /\ i'[p] = i[p] + 1
      BY <2>2 DEF ProducerLoop
    <3>4. \A q \in Producers : Sent(q)' = Sent(q)  BY <3>1, <3>2, <3>3
    <3>5. QED  BY <2>2, <3>4 DEF ProducerLoop
  <2>3. CASE ProducerWait(p)
    BY <2>3 DEF ProducerWait, Wait
  <2>4. CASE ProducerProceed(p)
    BY <2>4 DEF ProducerProceed
  <2>5. CASE add_buffer(p)
    BY <2>5
  <2>6. CASE SignalData(p)
    BY <2>6 DEF SignalData, Signal, DataWaiters
  <2>7. CASE ProducerUnlock(p)
    BY <2>7 DEF ProducerUnlock
  <2>8. CASE LockProdcount(p)
    BY <2>8 DEF LockProdcount
  <2>9. CASE LoadProducerCount(p)
    BY <2>9 DEF LoadProducerCount
  <2>10. CASE StoreProducerCount(p)
    BY <2>10 DEF StoreProducerCount
  <2>11. CASE DrainSignal(p)
    BY <2>11 DEF DrainSignal, Signal, DataWaiters
  <2>12. CASE DrainEnd(p)
    BY <2>12 DEF DrainEnd
  <2>13. CASE UnlockProdcount(p)
    BY <2>13 DEF UnlockProdcount
  <2>14. QED
    BY <1>1, <2>1, <2>2, <2>3, <2>4, <2>5, <2>6, <2>7, <2>8, <2>9, <2>10,
       <2>11, <2>12, <2>13 DEF producer
<1>2. ASSUME NEW c \in Consumers, consumer(c) PROVE Unmoved
  <2>1. CASE LockBuf(c)
    BY <2>1 DEF LockBuf
  <2>2. CASE ConsumerWait(c)
    BY <2>2 DEF ConsumerWait, Wait
  <2>3. CASE ConsumerLeave(c)
    BY <2>3 DEF ConsumerLeave
  <2>4. CASE ConsumerProceed(c)
    BY <2>4 DEF ConsumerProceed
  <2>5. CASE get_buffer(c)
    BY <2>5
  <2>6. CASE SignalSpace(c)
    BY <2>6 DEF SignalSpace, Signal, SpaceWaiters
  <2>7. CASE ConsumerUnlock(c)
    BY <2>7 DEF ConsumerUnlock
  <2>8. CASE LockConscount(c)
    BY <2>8 DEF LockConscount
  <2>9. CASE LoadConsumerCount(c)
    BY <2>9 DEF LoadConsumerCount
  <2>10. CASE StoreConsumerCount(c)
    BY <2>10 DEF StoreConsumerCount
  <2>11. CASE UnlockConscount(c)
    BY <2>11 DEF UnlockConscount
  <2>12. CASE ConsumerTest(c)
    BY <2>12 DEF ConsumerTest
  <2>13. QED
    BY <1>2, <2>1, <2>2, <2>3, <2>4, <2>5, <2>6, <2>7, <2>8, <2>9, <2>10,
       <2>11, <2>12 DEF consumer
<1>3. ASSUME NEW t \in Threads, SpuriousWakeup(t) PROVE Unmoved
  BY <1>3 DEF SpuriousWakeup
<1>4. ASSUME NEW t \in Threads, Create(t) PROVE Unmoved
  BY <1>4 DEF Create
<1>5. CASE Exit \/ UNCHANGED vars
  BY <1>5 DEF Exit, vars
<1>6. QED  BY <1>1, <1>2, <1>3, <1>4, <1>5 DEF Next, Exited

\* A thread leaves its critical section only by the unlock.
LEMMA OwnersStayInside ==
    ASSUME IndInv, OwnersInside, [Next]_vars
    PROVE  OwnersInside'
<1> USE ThreadFacts DEF IndInv, TypeOK, LocksHeld, OwnersInside, BufHolding, Goto, Threads,
          None, locks, counters, ring, ProducerPcs, ConsumerPcs
<1>1. ASSUME NEW p \in Producers, producer(p) PROVE OwnersInside'
  <2>1. CASE LockBuf(p)
    BY <2>1 DEF LockBuf
  <2>2. CASE ProducerLoop(p)
    BY <2>2 DEF ProducerLoop
  <2>3. CASE ProducerWait(p)
    BY <2>3 DEF ProducerWait, Wait
  <2>4. CASE ProducerProceed(p)
    BY <2>4 DEF ProducerProceed
  <2>5. CASE add_buffer(p)
    BY <2>5 DEF add_buffer
  <2>6. CASE SignalData(p)
    BY <2>6 DEF SignalData, Signal, DataWaiters
  <2>7. CASE ProducerUnlock(p)
    BY <2>7 DEF ProducerUnlock
  <2>8. CASE LockProdcount(p)
    BY <2>8 DEF LockProdcount
  <2>9. CASE LoadProducerCount(p)
    BY <2>9 DEF LoadProducerCount
  <2>10. CASE StoreProducerCount(p)
    BY <2>10 DEF StoreProducerCount
  <2>11. CASE DrainSignal(p)
    BY <2>11 DEF DrainSignal, Signal, DataWaiters
  <2>12. CASE DrainEnd(p)
    BY <2>12 DEF DrainEnd
  <2>13. CASE UnlockProdcount(p)
    BY <2>13 DEF UnlockProdcount
  <2>14. QED
    BY <1>1, <2>1, <2>2, <2>3, <2>4, <2>5, <2>6, <2>7, <2>8, <2>9, <2>10,
       <2>11, <2>12, <2>13 DEF producer
<1>2. ASSUME NEW c \in Consumers, consumer(c) PROVE OwnersInside'
  <2>1. CASE LockBuf(c)
    BY <2>1 DEF LockBuf
  <2>2. CASE ConsumerWait(c)
    BY <2>2 DEF ConsumerWait, Wait
  <2>3. CASE ConsumerLeave(c)
    BY <2>3 DEF ConsumerLeave
  <2>4. CASE ConsumerProceed(c)
    BY <2>4 DEF ConsumerProceed
  <2>5. CASE get_buffer(c)
    BY <2>5 DEF get_buffer
  <2>6. CASE SignalSpace(c)
    BY <2>6 DEF SignalSpace, Signal, SpaceWaiters
  <2>7. CASE ConsumerUnlock(c)
    BY <2>7 DEF ConsumerUnlock
  <2>8. CASE LockConscount(c)
    BY <2>8 DEF LockConscount
  <2>9. CASE LoadConsumerCount(c)
    BY <2>9 DEF LoadConsumerCount
  <2>10. CASE StoreConsumerCount(c)
    BY <2>10 DEF StoreConsumerCount
  <2>11. CASE UnlockConscount(c)
    BY <2>11 DEF UnlockConscount
  <2>12. CASE ConsumerTest(c)
    BY <2>12 DEF ConsumerTest
  <2>13. QED
    BY <1>2, <2>1, <2>2, <2>3, <2>4, <2>5, <2>6, <2>7, <2>8, <2>9, <2>10,
       <2>11, <2>12 DEF consumer
<1>3. ASSUME NEW t \in Threads, SpuriousWakeup(t) PROVE OwnersInside'
  BY <1>3 DEF SpuriousWakeup
<1>4. ASSUME NEW t \in Threads, Create(t) PROVE OwnersInside'
  BY <1>4 DEF Create
<1>5. CASE Exit \/ UNCHANGED vars
  BY <1>5 DEF Exit, vars
<1>6. QED  BY <1>1, <1>2, <1>3, <1>4, <1>5 DEF Next, Exited

\* A consumer leaves for good only when all is taken and all producers are out.
LEMMA LeftStaysEmpty ==
    ASSUME IndInv, LeftEmpty, [Next]_vars
    PROVE  LeftEmpty'
<1> USE ThreadFacts
      DEF LeftEmpty, Leaving, IndInv, TypeOK, Goto, Threads, locks, counters, ring
<1>1. ASSUME NEW p \in Producers, producer(p) PROVE LeftEmpty'
  <2>1. CASE LockBuf(p)
    BY <2>1 DEF LockBuf
  <2>2. CASE ProducerLoop(p)
    BY <2>2 DEF ProducerLoop
  <2>3. CASE ProducerWait(p)
    BY <2>3 DEF ProducerWait, Wait
  <2>4. CASE ProducerProceed(p)
    BY <2>4 DEF ProducerProceed
  <2>5. CASE add_buffer(p)
    <3>1. IsFiniteSet(Producing) /\ p \in Producing
      BY <2>5, FS_Subset DEF Producing, add_buffer
    <3>2. producer_count # 0  BY <3>1, FS_EmptySet DEF CountsExact
    <3>3. QED  BY <2>5, <3>2 DEF add_buffer
  <2>6. CASE SignalData(p)
    BY <2>6 DEF SignalData, Signal, DataWaiters
  <2>7. CASE ProducerUnlock(p)
    BY <2>7 DEF ProducerUnlock
  <2>8. CASE LockProdcount(p)
    BY <2>8 DEF LockProdcount
  <2>9. CASE LoadProducerCount(p)
    BY <2>9 DEF LoadProducerCount
  <2>10. CASE StoreProducerCount(p)
    <3>1. IsFiniteSet(Producing) /\ p \in Producing
      BY <2>10, FS_Subset DEF Producing, StoreProducerCount
    <3>2. producer_count # 0  BY <3>1, FS_EmptySet DEF CountsExact
    <3>3. QED  BY <2>10, <3>2 DEF StoreProducerCount
  <2>11. CASE DrainSignal(p)
    BY <2>11 DEF DrainSignal, Signal, DataWaiters
  <2>12. CASE DrainEnd(p)
    BY <2>12 DEF DrainEnd
  <2>13. CASE UnlockProdcount(p)
    BY <2>13 DEF UnlockProdcount
  <2>14. QED
    BY <1>1, <2>1, <2>2, <2>3, <2>4, <2>5, <2>6, <2>7, <2>8, <2>9, <2>10,
       <2>11, <2>12, <2>13 DEF producer
<1>2. ASSUME NEW c \in Consumers, consumer(c) PROVE LeftEmpty'
  <2>1. CASE LockBuf(c)
    BY <2>1 DEF LockBuf
  <2>2. CASE ConsumerWait(c)
    BY <2>2 DEF ConsumerWait, Wait
  <2>3. CASE ConsumerLeave(c)
    <3>1. producer_count = 0 /\ buf_count = 0
      BY <2>3 DEF ConsumerLeave
    <3>2. QED  BY <2>3, <3>1 DEF ConsumerLeave
  <2>4. CASE ConsumerProceed(c)
    BY <2>4 DEF ConsumerProceed
  <2>5. CASE get_buffer(c)
    BY <2>5 DEF get_buffer, Tested
  <2>6. CASE SignalSpace(c)
    BY <2>6 DEF SignalSpace, Signal, SpaceWaiters
  <2>7. CASE ConsumerUnlock(c)
    BY <2>7 DEF ConsumerUnlock
  <2>8. CASE LockConscount(c)
    BY <2>8 DEF LockConscount
  <2>9. CASE LoadConsumerCount(c)
    BY <2>9 DEF LoadConsumerCount
  <2>10. CASE StoreConsumerCount(c)
    BY <2>10 DEF StoreConsumerCount
  <2>11. CASE UnlockConscount(c)
    BY <2>11 DEF UnlockConscount
  <2>12. CASE ConsumerTest(c)
    BY <2>12 DEF ConsumerTest
  <2>13. QED
    BY <1>2, <2>1, <2>2, <2>3, <2>4, <2>5, <2>6, <2>7, <2>8, <2>9, <2>10,
       <2>11, <2>12 DEF consumer
<1>3. ASSUME NEW t \in Threads, SpuriousWakeup(t) PROVE LeftEmpty'
  BY <1>3 DEF SpuriousWakeup
<1>4. ASSUME NEW t \in Threads, Create(t) PROVE LeftEmpty'
  BY <1>4 DEF Create
<1>5. CASE Exit \/ UNCHANGED vars
  BY <1>5 DEF Exit, vars
<1>6. QED  BY <1>1, <1>2, <1>3, <1>4, <1>5 DEF Next, Exited

\* Nothing runs any more once main() has exited, and it exits when all are done.
LEMMA ExitIsLast ==
    ASSUME IndInv, JoinedAll, [Next]_vars
    PROVE  JoinedAll'
<1> USE ThreadFacts DEF JoinedAll, IndInv, TypeOK, Goto, Threads, locks, counters, ring
<1>1. ASSUME NEW p \in Producers, producer(p) PROVE JoinedAll'
  <2>1. CASE LockBuf(p)
    BY <2>1 DEF LockBuf
  <2>2. CASE ProducerLoop(p)
    BY <2>2 DEF ProducerLoop
  <2>3. CASE ProducerWait(p)
    BY <2>3 DEF ProducerWait, Wait
  <2>4. CASE ProducerProceed(p)
    BY <2>4 DEF ProducerProceed
  <2>5. CASE add_buffer(p)
    BY <2>5 DEF add_buffer
  <2>6. CASE SignalData(p)
    BY <2>6 DEF SignalData, Signal, DataWaiters
  <2>7. CASE ProducerUnlock(p)
    BY <2>7 DEF ProducerUnlock
  <2>8. CASE LockProdcount(p)
    BY <2>8 DEF LockProdcount
  <2>9. CASE LoadProducerCount(p)
    BY <2>9 DEF LoadProducerCount
  <2>10. CASE StoreProducerCount(p)
    BY <2>10 DEF StoreProducerCount
  <2>11. CASE DrainSignal(p)
    BY <2>11 DEF DrainSignal, Signal, DataWaiters
  <2>12. CASE DrainEnd(p)
    BY <2>12 DEF DrainEnd
  <2>13. CASE UnlockProdcount(p)
    BY <2>13 DEF UnlockProdcount
  <2>14. QED
    BY <1>1, <2>1, <2>2, <2>3, <2>4, <2>5, <2>6, <2>7, <2>8, <2>9, <2>10,
       <2>11, <2>12, <2>13 DEF producer
<1>2. ASSUME NEW c \in Consumers, consumer(c) PROVE JoinedAll'
  <2>1. CASE LockBuf(c)
    BY <2>1 DEF LockBuf
  <2>2. CASE ConsumerWait(c)
    BY <2>2 DEF ConsumerWait, Wait
  <2>3. CASE ConsumerLeave(c)
    BY <2>3 DEF ConsumerLeave
  <2>4. CASE ConsumerProceed(c)
    BY <2>4 DEF ConsumerProceed
  <2>5. CASE get_buffer(c)
    BY <2>5 DEF get_buffer
  <2>6. CASE SignalSpace(c)
    BY <2>6 DEF SignalSpace, Signal, SpaceWaiters
  <2>7. CASE ConsumerUnlock(c)
    BY <2>7 DEF ConsumerUnlock
  <2>8. CASE LockConscount(c)
    BY <2>8 DEF LockConscount
  <2>9. CASE LoadConsumerCount(c)
    BY <2>9 DEF LoadConsumerCount
  <2>10. CASE StoreConsumerCount(c)
    BY <2>10 DEF StoreConsumerCount
  <2>11. CASE UnlockConscount(c)
    BY <2>11 DEF UnlockConscount
  <2>12. CASE ConsumerTest(c)
    BY <2>12 DEF ConsumerTest
  <2>13. QED
    BY <1>2, <2>1, <2>2, <2>3, <2>4, <2>5, <2>6, <2>7, <2>8, <2>9, <2>10,
       <2>11, <2>12 DEF consumer
<1>3. ASSUME NEW t \in Threads, SpuriousWakeup(t) PROVE JoinedAll'
  BY <1>3 DEF SpuriousWakeup
<1>4. ASSUME NEW t \in Threads, Create(t) PROVE JoinedAll'
  BY <1>4 DEF Create
<1>5. CASE Exit \/ UNCHANGED vars
  BY <1>5 DEF Exit, vars
<1>6. QED  BY <1>1, <1>2, <1>3, <1>4, <1>5 DEF Next, Exited

\* A consumer decides to leave nowhere but at its test.
LEMMA StaysOpen ==
    ASSUME IndInv, \A d \in Consumers : ~ConsumerLeave(d), [Next]_vars
    PROVE  \A d \in Consumers : pc'[d] \in Leaving <=> pc[d] \in Leaving
<1> DEFINE Same == \A d \in Consumers : pc'[d] \in Leaving <=> pc[d] \in Leaving
<1> SUFFICES Same  OBVIOUS
<1> USE ThreadFacts DEF Leaving, IndInv, TypeOK, Goto, Threads, locks, counters, ring
<1>1. ASSUME NEW p \in Producers, producer(p) PROVE Same
  <2>1. CASE LockBuf(p)
    BY <2>1 DEF LockBuf
  <2>2. CASE ProducerLoop(p)
    BY <2>2 DEF ProducerLoop
  <2>3. CASE ProducerWait(p)
    BY <2>3 DEF ProducerWait, Wait
  <2>4. CASE ProducerProceed(p)
    BY <2>4 DEF ProducerProceed
  <2>5. CASE add_buffer(p)
    BY <2>5 DEF add_buffer
  <2>6. CASE SignalData(p)
    BY <2>6 DEF SignalData, Signal, DataWaiters
  <2>7. CASE ProducerUnlock(p)
    BY <2>7 DEF ProducerUnlock
  <2>8. CASE LockProdcount(p)
    BY <2>8 DEF LockProdcount
  <2>9. CASE LoadProducerCount(p)
    BY <2>9 DEF LoadProducerCount
  <2>10. CASE StoreProducerCount(p)
    BY <2>10 DEF StoreProducerCount
  <2>11. CASE DrainSignal(p)
    BY <2>11 DEF DrainSignal, Signal, DataWaiters
  <2>12. CASE DrainEnd(p)
    BY <2>12 DEF DrainEnd
  <2>13. CASE UnlockProdcount(p)
    BY <2>13 DEF UnlockProdcount
  <2>14. QED
    BY <1>1, <2>1, <2>2, <2>3, <2>4, <2>5, <2>6, <2>7, <2>8, <2>9, <2>10,
       <2>11, <2>12, <2>13 DEF producer
<1>2. ASSUME NEW c \in Consumers, consumer(c) PROVE Same
  <2>1. CASE LockBuf(c)
    BY <2>1 DEF LockBuf
  <2>2. CASE ConsumerWait(c)
    BY <2>2 DEF ConsumerWait, Wait
  <2>3. CASE ConsumerLeave(c)
    BY <2>3
  <2>4. CASE ConsumerProceed(c)
    BY <2>4 DEF ConsumerProceed
  <2>5. CASE get_buffer(c)
    BY <2>5 DEF get_buffer
  <2>6. CASE SignalSpace(c)
    BY <2>6 DEF SignalSpace, Signal, SpaceWaiters
  <2>7. CASE ConsumerUnlock(c)
    BY <2>7 DEF ConsumerUnlock
  <2>8. CASE LockConscount(c)
    BY <2>8 DEF LockConscount
  <2>9. CASE LoadConsumerCount(c)
    BY <2>9 DEF LoadConsumerCount
  <2>10. CASE StoreConsumerCount(c)
    BY <2>10 DEF StoreConsumerCount
  <2>11. CASE UnlockConscount(c)
    BY <2>11 DEF UnlockConscount
  <2>12. CASE ConsumerTest(c)
    BY <2>12 DEF ConsumerTest
  <2>13. QED
    BY <1>2, <2>1, <2>2, <2>3, <2>4, <2>5, <2>6, <2>7, <2>8, <2>9, <2>10,
       <2>11, <2>12 DEF consumer
<1>3. ASSUME NEW t \in Threads, SpuriousWakeup(t) PROVE Same
  BY <1>3 DEF SpuriousWakeup
<1>4. ASSUME NEW t \in Threads, Create(t) PROVE Same
  BY <1>4 DEF Create
<1>5. CASE Exit \/ UNCHANGED vars
  BY <1>5 DEF Exit, vars
<1>6. QED  BY <1>1, <1>2, <1>3, <1>4, <1>5 DEF Next, Exited

\* Moving the first item of t to the end of s leaves s \o t as it is.
LEMMA MoveFirst ==
    ASSUME NEW s \in Seq(Int), NEW t \in Seq(Int), t # <<>>
    PROVE  Append(s, Head(t)) \o Tail(t) = s \o t
<1>1. Head(t) \in Int /\ Head(t) = t[1]  BY HeadTailProperties
<1>2. Append(s, Head(t)) = s \o <<Head(t)>>  BY <1>1, AppendIsConcat
<1>3. <<Head(t)>> \o Tail(t) = t
  <2>1. /\ Tail(t) \in Seq(Int) /\ Len(Tail(t)) = Len(t) - 1
        /\ \A j \in 1 .. Len(Tail(t)) : Tail(t)[j] = t[j + 1]
    BY HeadTailProperties
  <2>2. <<Head(t)>> \in Seq(Int) /\ Len(<<Head(t)>>) = 1 /\ <<Head(t)>>[1] = Head(t)
    BY <1>1
  <2>3. /\ <<Head(t)>> \o Tail(t) \in Seq(Int)
        /\ Len(<<Head(t)>> \o Tail(t)) = 1 + (Len(t) - 1)
        /\ \A j \in 1 .. 1 + (Len(t) - 1) : (<<Head(t)>> \o Tail(t))[j] =
                IF j <= 1 THEN <<Head(t)>>[j] ELSE Tail(t)[j - 1]
    BY <2>1, <2>2, ConcatProperties
  <2>4. Len(t) \in Nat /\ Len(t) >= 1  BY LenProperties
  <2>5. ASSUME NEW j \in 1 .. Len(t) PROVE (<<Head(t)>> \o Tail(t))[j] = t[j]
    <3>1. CASE j = 1  BY <1>1, <2>2, <2>3, <2>4, <3>1
    <3>2. CASE j > 1
      <4>1. j - 1 \in 1 .. Len(Tail(t)) /\ (j - 1) + 1 = j  BY <2>1, <2>4, <3>2
      <4>2. QED  BY <2>1, <2>3, <2>4, <3>2, <4>1
    <3>3. QED  BY <2>4, <3>1, <3>2
  <2>6. Len(<<Head(t)>> \o Tail(t)) = Len(t)  BY <2>3, <2>4
  <2>7. QED  BY <2>3, <2>5, <2>6, SeqEqual
<1>4. <<Head(t)>> \in Seq(Int) /\ Tail(t) \in Seq(Int)  BY <1>1, HeadTailProperties
<1>5. (s \o <<Head(t)>>) \o Tail(t) = s \o (<<Head(t)>> \o Tail(t))
  BY <1>4, ConcatAssociative
<1>6. QED  BY <1>2, <1>3, <1>5

\* Appending to t appends to s \o t.
LEMMA AppendToSecond ==
    ASSUME NEW s \in Seq(Int), NEW t \in Seq(Int), NEW e \in Int
    PROVE  s \o Append(t, e) = Append(s \o t, e)
<1>1. s \o t \in Seq(Int) /\ <<e>> \in Seq(Int)  BY ConcatProperties
<1>2. Append(t, e) = t \o <<e>> /\ Append(s \o t, e) = (s \o t) \o <<e>>
  BY <1>1, AppendIsConcat
<1>3. QED  BY <1>1, <1>2, ConcatAssociative

\* What the steps of add_buffer and get_buffer do to the items that arrived.
LEMMA ArrivedBy ==
    ASSUME IndInv, RingClosed
    PROVE  /\ Arrived \in Seq(Int)
           /\ \A p \in Producers :
                add_buffer(p) => Arrived' = Append(Arrived, Item(p, i[p]))
           /\ \A c \in Consumers : get_buffer(c) => Arrived' = Arrived
<1>1. received \in Seq(Int) /\ Contents \in Seq(Int)
  BY ContentsAreSeq DEF IndInv, TypeOK
<1>2. Arrived \in Seq(Int)  BY <1>1, ConcatProperties DEF Arrived
<1>3. ASSUME NEW p \in Producers, add_buffer(p)
      PROVE  Arrived' = Append(Arrived, Item(p, i[p]))
  <2>1. received' = received /\ Item(p, i[p]) \in Int
    BY <1>3, ItemIsInt DEF add_buffer, IndInv, TypeOK
  <2>2. Contents' = Append(Contents, Item(p, i[p]))  BY <1>3, AddAppends
  <2>3. QED  BY <1>1, <2>1, <2>2, AppendToSecond DEF Arrived
<1>4. ASSUME NEW c \in Consumers, get_buffer(c) PROVE Arrived' = Arrived
  BY <1>1, <1>4, TakeRemoves, MoveFirst DEF Arrived
<1>5. QED  BY <1>2, <1>3, <1>4

\* add_buffer and get_buffer keep the record of what arrived; nothing else moves.
LEMMA DeliveryKept ==
    ASSUME IndInv, RingClosed, Delivery, [Next]_vars
    PROVE  Delivery'
<1>1. Arrived \in Seq(Int)  BY ArrivedBy
<1>2. CASE (\A p \in Producers : ~add_buffer(p)) /\ (\A c \in Consumers : ~get_buffer(c))
  <2>1. /\ UNCHANGED <<ring, received>>
        /\ \A q \in Producers : Sent(q)' = Sent(q)
    BY <1>2, OtherSteps
  <2>2. Arrived' = Arrived  BY <2>1 DEF Arrived, Contents, ring
  <2>3. QED  BY <2>1, <2>2 DEF Delivery, InOrder
<1>3. ASSUME NEW c \in Consumers, get_buffer(c) PROVE Delivery'
  <2>1. Arrived' = Arrived  BY <1>3, ArrivedBy
  <2>2. \A q \in Producers : Sent(q)' = Sent(q)
    BY <1>3, ThreadFacts DEF get_buffer, Sent, Goto, IndInv, TypeOK
  <2>3. QED  BY <2>1, <2>2 DEF Delivery, InOrder
<1>4. ASSUME NEW p \in Producers, add_buffer(p) PROVE Delivery'
  <2>1. Arrived' = Append(Arrived, Item(p, i[p]))  BY <1>4, ArrivedBy
  <2>2. /\ i[p] \in 1 .. MaxItems
        /\ Sent(p) = i[p] - 1 /\ Sent(p)' = i[p]
        /\ \A q \in Producers : q # p => Sent(q)' = Sent(q)
    BY <1>4, ThreadFacts DEF add_buffer, Sent, Goto, IndInv, TypeOK,
             LoopCounter, Threads
  <2>3. PICK n \in Nat : n = Len(Arrived)  BY <1>1
  <2>4. /\ DOMAIN Arrived = 1 .. n /\ DOMAIN Arrived' = 1 .. n + 1
        /\ \A j \in 1 .. n : Arrived'[j] = Arrived[j]
        /\ Arrived'[n + 1] = Item(p, i[p])
    <3>1. Item(p, i[p]) \in Int  BY <2>2, ItemIsInt
    <3>2. QED  BY <1>1, <2>1, <2>3, <3>1, AppendProperties, LenProperties
  <2>5. \A j \in 1 .. n + 1 : j \in 1 .. n \/ j = n + 1  BY <2>3
  <2>6. n + 1 \in 1 .. n + 1 /\ 1 .. n \subseteq 1 .. n + 1  BY <2>3
  <2>7. ASSUME NEW q \in Producers, NEW k \in 1 .. MaxItems
        PROVE  k <= Sent(q)' <=> \E j \in DOMAIN Arrived' : Arrived'[j] = Item(q, k)
    <3>1. k <= Sent(q)' <=> k <= Sent(q) \/ (q = p /\ k = i[p])  BY <2>2
    <3>2. k <= Sent(q) <=> \E j \in 1 .. n : Arrived[j] = Item(q, k)
      BY <2>4 DEF Delivery
    <3>3. (q = p /\ k = i[p]) <=> Arrived'[n + 1] = Item(q, k)
      BY <2>2, <2>4, ItemsDiffer
    <3>4. QED  BY <2>4, <2>5, <2>6, <3>1, <3>2, <3>3
  <2>8. ASSUME NEW j \in DOMAIN Arrived'
        PROVE  \E q \in Producers, k \in 1 .. MaxItems : Arrived'[j] = Item(q, k)
    BY <2>2, <2>4, <2>5 DEF Delivery
  <2>9. InOrder(Arrived')
    <3> SUFFICES ASSUME NEW q \in Producers, NEW k \in 1 .. MaxItems,
                        NEW l \in 1 .. MaxItems, NEW a \in 1 .. n + 1,
                        NEW b \in 1 .. n + 1, a < b,
                        Arrived'[a] = Item(q, k), Arrived'[b] = Item(q, l)
                 PROVE  k < l
      BY <2>4 DEF InOrder
    <3>1. a \in 1 .. n  BY <2>3
    <3>2. CASE b \in 1 .. n
      <4>1. /\ a \in DOMAIN Arrived /\ b \in DOMAIN Arrived
            /\ Arrived[a] = Item(q, k) /\ Arrived[b] = Item(q, l)
        BY <2>4, <3>1, <3>2
      <4>2. InOrder(Arrived)  BY DEF Delivery
      <4>3. QED  BY <4>1, <4>2 DEF InOrder
    <3>3. CASE b = n + 1
      <4>1. q = p /\ l = i[p]  BY <2>2, <2>4, <3>3, ItemsDiffer
      <4>2. k <= Sent(p)  BY <2>4, <3>1, <4>1 DEF Delivery
      <4>3. QED  BY <2>2, <4>1, <4>2
    <3>4. QED  BY <2>5, <3>2, <3>3
  <2>10. QED  BY <2>7, <2>8, <2>9 DEF Delivery
<1>5. QED  BY <1>2, <1>3, <1>4

------------------------------------------------------------------------------
\* What holds at exit, and the refinement

\* The stronger invariant holds when nothing has been created.
LEMMA InitiallyExit == Init => IndInvExit
<1> SUFFICES ASSUME Init PROVE IndInvExit  OBVIOUS
<1>1. IndInv  BY Initially
<1>2. RingClosed  BY SizesAssumption DEF Init, RingClosed
<1>3. OwnersInside /\ LeftEmpty /\ JoinedAll
  BY DEF Init, OwnersInside, LeftEmpty, JoinedAll, Leaving, Threads, Consumers
<1>4. Delivery
  <2>1. Contents = <<>> /\ received = <<>>
    BY <1>1, ContentsAreSeq DEF Init
  <2>2. Arrived = <<>>  BY <2>1 DEF Arrived
  <2>3. \A p \in Producers : Sent(p) = 0  BY ThreadFacts DEF Init, Sent, Threads
  <2>4. DOMAIN Arrived = {}  BY <2>2
  <2>5. QED  BY <2>3, <2>4 DEF Delivery, InOrder
<1>5. QED  BY <1>1, <1>2, <1>3, <1>4 DEF IndInvExit

\* Its parts are preserved by every step.
LEMMA InductiveExit == IndInvExit /\ [Next]_vars => IndInvExit'
<1> SUFFICES ASSUME IndInvExit, [Next]_vars PROVE IndInvExit'  OBVIOUS
<1>1. IndInv /\ RingClosed /\ OwnersInside /\ LeftEmpty /\ Delivery /\ JoinedAll
  BY DEF IndInvExit
<1>2. IndInv'  BY <1>1, Inductive
<1>3. RingClosed'
  <2>1. CASE (\A p \in Producers : ~add_buffer(p)) /\ (\A c \in Consumers : ~get_buffer(c))
    BY <1>1, <2>1, OtherSteps DEF RingClosed, ring
  <2>2. ASSUME NEW p \in Producers, add_buffer(p) PROVE RingClosed'
    BY <1>1, <2>2, AddAppends
  <2>3. ASSUME NEW c \in Consumers, get_buffer(c) PROVE RingClosed'
    BY <1>1, <2>3, TakeRemoves
  <2>4. QED  BY <2>1, <2>2, <2>3
<1>4. OwnersInside' /\ LeftEmpty' /\ JoinedAll'
  BY <1>1, OwnersStayInside, LeftStaysEmpty, ExitIsLast
<1>5. Delivery'  BY <1>1, DeliveryKept
<1>6. QED  BY <1>2, <1>3, <1>4, <1>5 DEF IndInvExit

\* What arrived, where each mutex's owner is and what a consumer that leaves has
\* seen, in every reachable state.
THEOREM InvarianceExit == Spec => []IndInvExit
  BY InitiallyExit, InductiveExit, PTL DEF Spec

\* All the items there are, numbered from 1 without a gap.
LEMMA AllItems ==
    /\ \A p \in Producers, k \in 1 .. MaxItems : Item(p, k) \in 1 .. numProducers * MaxItems
    /\ \A v \in 1 .. numProducers * MaxItems :
         \E p \in Producers, k \in 1 .. MaxItems : v = Item(p, k)
<1>1. /\ MaxItems \in Nat /\ MaxItems > 0 /\ numProducers \in Nat /\ numConsumers \in Nat
      /\ numProducers * MaxItems \in Nat
  BY SizesAssumption
<1>2. ASSUME NEW p \in Producers, NEW k \in 1 .. MaxItems
      PROVE  Item(p, k) \in 1 .. numProducers * MaxItems
  <2>1. PICK d \in Nat : d = tid(p) /\ d + 1 <= numProducers
    BY <1>1 DEF Producers, tid
  <2>2. (d + 1) * MaxItems <= numProducers * MaxItems  BY <1>1, <2>1
  <2>3. (d + 1) * MaxItems = d * MaxItems + MaxItems /\ d * MaxItems \in Nat  BY <1>1
  <2>4. d * MaxItems + k \in 1 .. numProducers * MaxItems  BY <1>1, <2>2, <2>3
  <2>5. QED  BY <2>1, <2>4 DEF Item
<1>3. ASSUME NEW v \in 1 .. numProducers * MaxItems
      PROVE  \E p \in Producers, k \in 1 .. MaxItems : v = Item(p, k)
  <2>1. PICK w \in Nat : w = v - 1 /\ w < numProducers * MaxItems  BY <1>1
  <2>2. PICK d \in Nat, r \in Nat : w = d * MaxItems + r /\ r < MaxItems
    <3>1. /\ w \div MaxItems \in Nat /\ w % MaxItems \in Nat /\ w % MaxItems < MaxItems
          /\ w = MaxItems * (w \div MaxItems) + (w % MaxItems)
      BY <1>1
    <3>2. w = (w \div MaxItems) * MaxItems + (w % MaxItems)  BY <1>1, <3>1
    <3>3. QED  BY <3>1, <3>2
  <2>3. d < numProducers
    <3>1. SUFFICES ASSUME d >= numProducers PROVE FALSE  BY <1>1
    <3>2. d * MaxItems >= numProducers * MaxItems  BY <1>1, <3>1
    <3>3. d * MaxItems \in Nat  BY <1>1
    <3>4. QED  BY <1>1, <2>1, <2>2, <3>2, <3>3
  <2>4. numConsumers + d \in Producers /\ tid(numConsumers + d) = d
    BY <1>1, <2>3 DEF Producers, tid
  <2>5. r + 1 \in 1 .. MaxItems  BY <1>1, <2>2
  <2>6. v = d * MaxItems + (r + 1)
    <3>1. d * MaxItems \in Nat  BY <1>1
    <3>2. QED  BY <1>1, <2>1, <2>2, <3>1
  <2>7. QED  BY <2>4, <2>5, <2>6 DEF Item
<1>4. QED  BY <1>2, <1>3

\* A sequence of all the items, each once, is as long as there are items.
LEMMA OnceEachLength ==
    ASSUME NEW s \in Seq(Int), InOrder(s),
           \A j \in DOMAIN s : \E p \in Producers, k \in 1 .. MaxItems : s[j] = Item(p, k),
           \A p \in Producers, k \in 1 .. MaxItems : \E j \in DOMAIN s : s[j] = Item(p, k)
    PROVE  Len(s) = numProducers * MaxItems
<1>1. PICK n \in Nat, N \in Nat :
        n = Len(s) /\ DOMAIN s = 1 .. n /\ N = numProducers * MaxItems
  BY SizesAssumption
<1>2. s \in [1 .. n -> 1 .. N]
  <2>1. \A j \in 1 .. n : s[j] \in 1 .. N  BY <1>1, AllItems
  <2>2. s = [j \in 1 .. n |-> s[j]]  BY <1>1
  <2>3. QED  BY <2>1, <2>2
<1>3. \A v \in 1 .. N : \E j \in 1 .. n : s[j] = v
  BY <1>1, AllItems
<1>4. ASSUME NEW a \in 1 .. n, NEW b \in 1 .. n, s[a] = s[b] PROVE a = b
  <2>1. PICK p \in Producers, k \in 1 .. MaxItems : s[a] = Item(p, k)  BY <1>1
  <2>2. ~(k < k)  OBVIOUS
  <2>3. ~(a < b) /\ ~(b < a)
    <3>1. a \in DOMAIN s /\ b \in DOMAIN s /\ s[b] = Item(p, k)  BY <1>1, <1>4, <2>1
    <3>2. QED  BY <2>1, <2>2, <3>1 DEF InOrder
  <2>4. QED  BY <1>1, <2>3
<1>5. ExistsBijection(1 .. n, 1 .. N)
  <2>1. s \in Injection(1 .. n, 1 .. N)  BY <1>2, <1>4 DEF Injection, IsInjective
  <2>2. s \in Surjection(1 .. n, 1 .. N)  BY <1>2, <1>3 DEF Surjection
  <2>3. QED  BY <2>1, <2>2 DEF Bijection, ExistsBijection
<1>6. ASSUME NEW m \in Nat PROVE IsFiniteSet(1 .. m) /\ Cardinality(1 .. m) = m
  <2>1. /\ IsFiniteSet(1 .. m)
        /\ Cardinality(1 .. m) = IF 1 > m THEN 0 ELSE m - 1 + 1
    BY FS_Interval
  <2>2. QED  BY <2>1
<1>7. n = N  BY <1>5, <1>6, FS_Bijection
<1>8. QED  BY <1>1, <1>7

\* When every thread is done, all was sent and taken and every lock is free.
LEMMA CompleteWhenDone ==
    ASSUME IndInvExit, \A t \in Threads : pc[t] = "done"
    PROVE  /\ Len(received) = numProducers * MaxItems
           /\ \A p \in Producers, k \in 1 .. MaxItems :
                 \E j \in DOMAIN received : received[j] = Item(p, k)
           /\ InOrder(received)
           /\ producer_count = 0 /\ consumer_count = 0
           /\ \A m \in {buf_mutex, prodcount_mutex, conscount_mutex} : m = None
<1>1. IndInv /\ OwnersInside /\ LeftEmpty /\ Delivery  BY DEF IndInvExit
<1>2. producer_count = 0 /\ consumer_count = 0
  <2>1. Producing = {} /\ Consuming = {}  BY DEF Producing, Consuming, Threads
  <2>2. QED  BY <1>1, <2>1, FS_EmptySet DEF IndInv, CountsExact
<1>3. buf_count = 0
  <2>1. 0 \in Consumers  BY SizesAssumption DEF Consumers
  <2>2. QED  BY <1>1, <2>1 DEF LeftEmpty, Leaving, Threads
<1>4. received \in Seq(Int) /\ Arrived = received
  <2>1. Contents \in Seq(Int) /\ Len(Contents) = 0  BY <1>1, <1>3, ContentsAreSeq
  <2>2. Contents = <<>>  BY <2>1
  <2>3. received \in Seq(Int)  BY <1>1 DEF IndInv, TypeOK
  <2>4. QED  BY <2>2, <2>3, ConcatEmptySeq DEF Arrived
<1>5. ASSUME NEW p \in Producers PROVE Sent(p) = MaxItems
  <2>1. i[p] = MaxItems + 1 /\ pc[p] = "done"
    BY <1>1 DEF IndInv, LoopCounter, Threads
  <2>2. QED  BY <2>1, SizesAssumption DEF Sent
<1>6. \A p \in Producers, k \in 1 .. MaxItems :
        \E j \in DOMAIN received : received[j] = Item(p, k)
  <2>1. \A k \in 1 .. MaxItems : k <= MaxItems  BY SizesAssumption
  <2>2. QED  BY <1>1, <1>4, <1>5, <2>1 DEF Delivery
<1>7. InOrder(received)  BY <1>1, <1>4 DEF Delivery
<1>8. Len(received) = numProducers * MaxItems
  BY <1>1, <1>4, <1>6, <1>7, OnceEachLength DEF Delivery
<1>9. \A m \in {buf_mutex, prodcount_mutex, conscount_mutex} : m = None
  BY <1>1 DEF IndInv, TypeOK, OwnersInside, BufHolding, Threads
<1>10. QED  BY <1>2, <1>6, <1>7, <1>8, <1>9

\* When main() exits every item has been taken exactly once, each producer's in
\* order, the counts are back to zero and no mutex is left locked.
THEOREM CompleteWhenExited == Spec => []CompleteAtExit
<1>1. IndInvExit => CompleteAtExit
  BY CompleteWhenDone DEF CompleteAtExit, JoinedAll, IndInvExit
<1>2. QED  BY <1>1, InvarianceExit, PTL

\* The ring, its mutex and its two conditions implement the abstract FIFO queue.
THEOREM Refinement == Spec => ImplementsBoundedBuffer
<1>1. Init => Abstract!Init
  <2> SUFFICES ASSUME Init PROVE Abstract!Init  OBVIOUS
  <2>1. Contents = <<>>
    <3>1. Contents \in Seq(Int) /\ Len(Contents) = 0
      BY Initially, ContentsAreSeq DEF Init
    <3>2. QED  BY <3>1
  <2>2. ASSUME NEW n \in 0 .. numProducers - 1 PROVE Sent(numConsumers + n) = 0
    <3>1. numConsumers + n \in Producers  BY SizesAssumption DEF Producers
    <3>2. QED  BY <3>1 DEF Init, Sent, Threads
  <2>3. {c \in Consumers : pc[c] \notin Leaving} = Consumers
    BY DEF Init, Leaving, Threads
  <2>4. QED  BY <2>1, <2>2, <2>3 DEF Abstract!Init, Init
<1>2. IndInvExit /\ [Next]_vars => [Abstract!Next]_(Abstract!vars)
  <2> SUFFICES ASSUME IndInvExit, [Next]_vars
               PROVE  [Abstract!Next]_(Abstract!vars)
    OBVIOUS
  <2>1. IndInv /\ RingClosed /\ LeftEmpty  BY DEF IndInvExit
  <2> DEFINE sentNow == [n \in 0 .. numProducers - 1 |-> Sent(numConsumers + n)]
             openNow == {c \in Consumers : pc[c] \notin Leaving}
  <2>2. \A n \in 0 .. numProducers - 1 :
          numConsumers + n \in Producers /\ tid(numConsumers + n) = n
    BY SizesAssumption DEF Producers, tid
  <2>3. \A p \in Producers :
          tid(p) \in 0 .. numProducers - 1 /\ numConsumers + tid(p) = p
    BY SizesAssumption DEF Producers, tid
  <2>4. ASSUME NEW p \in Producers, add_buffer(p) PROVE Abstract!Put(tid(p))
    <3>1. /\ Contents \in Seq(Int) /\ Len(Contents) = buf_count
          /\ Contents' = Append(Contents, Item(p, i[p]))
      BY <2>1, <2>4, ContentsAreSeq, AddAppends
    <3>2. buf_count < BUFFER_SIZE
      BY <2>1, <2>4 DEF add_buffer, Goto, IndInv, Tested
    <3>3. /\ i[p] \in 1 .. MaxItems
          /\ Sent(p) = i[p] - 1 /\ Sent(p)' = i[p]
          /\ \A q \in Producers : q # p => Sent(q)' = Sent(q)
      BY <2>1, <2>4, ThreadFacts DEF add_buffer, Sent, Goto, IndInv, TypeOK,
             LoopCounter, Threads
    <3>4. sentNow[tid(p)] < MaxItems /\ sentNow[tid(p)] + 1 = i[p]
      BY <2>3, <3>3, SizesAssumption
    <3>5. sentNow' = [sentNow EXCEPT ![tid(p)] = @ + 1]
      <4>1. ASSUME NEW n \in 0 .. numProducers - 1
            PROVE  Sent(numConsumers + n)' = IF n = tid(p) THEN sentNow[n] + 1 ELSE sentNow[n]
        BY <2>2, <2>3, <3>3, <3>4
      <4>2. QED  BY <2>3, <4>1
    <3>6. Item(p, i[p]) = Abstract!Item(tid(p), sentNow[tid(p)] + 1)
      BY <3>4 DEF Item, Abstract!Item
    <3>7. openNow' = openNow /\ received' = received
      BY <2>1, <2>4, ThreadFacts DEF add_buffer, Goto, Leaving, IndInv, TypeOK, Threads
    <3>8. QED  BY <3>1, <3>2, <3>4, <3>5, <3>6, <3>7 DEF Abstract!Put
  <2>5. ASSUME NEW c \in Consumers, get_buffer(c) PROVE Abstract!Get
    <3>1. /\ Contents # <<>> /\ Contents' = Tail(Contents)
          /\ received' = Append(received, Head(Contents))
      BY <2>1, <2>5, TakeRemoves
    <3>2. c \in openNow /\ openNow' = openNow
      BY <2>1, <2>5, ThreadFacts DEF get_buffer, Goto, Leaving, IndInv, TypeOK, Threads
    <3>3. \A q \in Producers : Sent(q)' = Sent(q)
      BY <2>1, <2>5, ThreadFacts DEF get_buffer, Goto, Sent, IndInv, TypeOK, Threads
    <3>4. sentNow' = sentNow  BY <2>2, <3>3
    <3>5. QED  BY <3>1, <3>2, <3>4 DEF Abstract!Get
  <2>6. ASSUME NEW c \in Consumers, ConsumerLeave(c) PROVE Abstract!Leave(c)
    <3>1. buf_count = 0 /\ producer_count = 0
      BY <2>1, <2>6 DEF ConsumerLeave, IndInv, TypeOK
    <3>2. Contents = <<>>
      <4>1. Contents \in Seq(Int) /\ Len(Contents) = 0  BY <2>1, <3>1, ContentsAreSeq
      <4>2. QED  BY <4>1
    <3>3. Producing = {}
      <4>1. IsFiniteSet(Producing)  BY ThreadFacts, FS_Subset DEF Producing
      <4>2. QED  BY <2>1, <3>1, <4>1, FS_EmptySet DEF IndInv, CountsExact
    <3>4. \A q \in Producers : Sent(q) = MaxItems
      BY <2>1, <3>3, SizesAssumption DEF Producing, Sent, IndInv, LoopCounter
    <3>5. \A n \in 0 .. numProducers - 1 : sentNow[n] = MaxItems  BY <2>2, <3>4
    <3>6. openNow' = openNow \ {c} /\ c \in openNow
      BY <2>1, <2>6 DEF ConsumerLeave, Goto, Leaving, IndInv, TypeOK, Threads
    <3>7. \A q \in Producers : Sent(q)' = Sent(q)
      BY <2>1, <2>6, ThreadFacts DEF ConsumerLeave, Goto, Sent, IndInv, TypeOK, Threads
    <3>8. sentNow' = sentNow /\ Contents' = Contents /\ received' = received
      BY <2>2, <2>6, <3>7 DEF ConsumerLeave, ring, Contents
    <3>9. QED  BY <3>2, <3>5, <3>6, <3>8 DEF Abstract!Leave
  <2>7. CASE /\ \A p \in Producers : ~add_buffer(p)
             /\ \A c \in Consumers : ~get_buffer(c) /\ ~ConsumerLeave(c)
    <3>1. UNCHANGED <<ring, received>> /\ \A q \in Producers : Sent(q)' = Sent(q)
      BY <2>1, <2>7, OtherSteps
    <3>2. \A d \in Consumers : pc'[d] \in Leaving <=> pc[d] \in Leaving
      BY <2>1, <2>7, StaysOpen
    <3>3. /\ Contents' = Contents /\ received' = received
          /\ sentNow' = sentNow /\ openNow' = openNow
      BY <2>2, <3>1, <3>2 DEF Contents, ring
    <3>4. UNCHANGED Abstract!vars  BY <3>3 DEF Abstract!vars
    <3>5. QED  BY <3>4
  <2>8. QED  BY <2>3, <2>4, <2>5, <2>6, <2>7 DEF Abstract!Next
<1>3. QED  BY <1>1, <1>2, InvarianceExit, PTL DEF Spec, ImplementsBoundedBuffer, Abstract!Spec
==============================================================================
