-------------------------- MODULE MCProcessesProofs --------------------------
(***************************************************************************)
(* Proofs about the programs of MCProcesses, for all values of their       *)
(* constants.                                                              *)
(*                                                                         *)
(* The ring in POSIX shared memory (shm_producer.c and shm_consumer.c, the *)
(* "shm" program): for any number of producers, slots and numbers, and     *)
(* wherever signals kill processes.  The theorems assume ~AttachEarly:     *)
(* that no producer gets hold of the object before INITSEM is done with    *)
(* it.  The programs do not ensure this, and without it ReceivedInOrder    *)
(* fails (run shm_early).                                                  *)
(*                                                                         *)
(* Shm!ShmInv is the inductive invariant.  A semaphore operation or a move *)
(* of an index keeps a balance between what it takes from a semaphore and  *)
(* what its process has in hands (Balanced, QuietShm); WriteSlot and       *)
(* ReadSlot in addition append to the items in the ring and take their     *)
(* head (WriteAppends, ReadTakes), which is the refinement.                *)
(*                                                                         *)
(* What the others keep in order: the turns of sync_io_demo.c, the         *)
(* messages of ulogger.c and the sections between WAIT and POST of the     *)
(* semaphore demonstrations.  Each program has its inductive invariant     *)
(* beside its properties; the lemmas take it through the start, every      *)
(* step, and the steps in which another program runs.                      *)
(***************************************************************************)
EXTENDS MCProcesses, FiniteSetTheorems, SequenceTheorems, TLAPS

------------------------------------------------------------------------------
(* Counting *)

\* Cardinality is the same notion inside the instance.
LEMMA ShmCardinality ==
    ASSUME NEW S PROVE Shm!Cardinality(S) = Cardinality(S)
  BY Zenon DEF Shm!Cardinality, Cardinality

\* So is finiteness.
LEMMA ShmFiniteness ==
    ASSUME NEW S PROVE Shm!IsFiniteSet(S) <=> IsFiniteSet(S)
  BY Zenon DEF Shm!IsFiniteSet, IsFiniteSet

\* One where x is in S, to add up with cardinalities.
In(x, S) == IF x \in S THEN 1 ELSE 0

\* When one member enters or leaves, the cardinality changes by one.
LEMMA MoveOne ==
    ASSUME NEW Q, IsFiniteSet(Q), NEW A \in SUBSET Q, NEW B \in SUBSET Q, NEW q \in Q,
           \A r \in Q : r # q => (r \in A <=> r \in B)
    PROVE  /\ Cardinality(A) \in Nat /\ Cardinality(B) \in Nat
           /\ Cardinality(B) + In(q, A) = Cardinality(A) + In(q, B)
<1>1. IsFiniteSet(A) /\ IsFiniteSet(B)  BY FS_Subset
<1>2. Cardinality(A) \in Nat /\ Cardinality(B) \in Nat  BY <1>1, FS_CardinalityType
<1>3. CASE q \in A /\ q \notin B
  <2>1. B = A \ {q}  BY <1>3
  <2>2. Cardinality(B) = Cardinality(A) - 1  BY <1>1, <1>3, <2>1, FS_RemoveElement
  <2>3. QED  BY <1>2, <1>3, <2>2 DEF In
<1>4. CASE q \notin A /\ q \in B
  <2>1. B = A \cup {q}  BY <1>4
  <2>2. Cardinality(B) = Cardinality(A) + 1  BY <1>1, <1>4, <2>1, FS_AddElement
  <2>3. QED  BY <1>2, <1>4, <2>2 DEF In
<1>5. CASE q \in A <=> q \in B
  <2>1. A = B  BY <1>5
  <2>2. QED  BY <1>2, <1>5, <2>1 DEF In
<1>6. QED  BY <1>3, <1>4, <1>5

\* Two members of a set of one are the same.
LEMMA AtMostOne ==
    ASSUME NEW S, IsFiniteSet(S), Cardinality(S) \in Nat, Cardinality(S) <= 1,
           NEW r \in S, NEW s \in S
    PROVE  r = s
<1> SUFFICES ASSUME r # s PROVE FALSE  OBVIOUS
<1>1. IsFiniteSet(S \ {r}) /\ Cardinality(S \ {r}) = Cardinality(S) - 1
  BY FS_RemoveElement
<1>2. Cardinality(S \ {r}) \in Nat /\ Cardinality(S \ {r}) # 0
  BY <1>1, FS_EmptySet, FS_CardinalityType
<1>3. QED  BY <1>1, <1>2

------------------------------------------------------------------------------
(* shm_producer.c and shm_consumer.c: what the semaphores count *)

\* The processes between WAIT and POST of the semaphores that count slots, and
\* of the mutex.
InHands == {q \in Shm!Processes :
               shm_pc[q] \in {"waitmutex", "write", "read", "advance", "postmutex",
                              "postfilled", "postempty"}}
Inside  == {q \in Shm!Processes : shm_pc[q] \in {"write", "read", "advance", "postmutex"}}

\* What the assumptions on the constants say of the processes and the sizes.
LEMMA ShmFacts ==
    /\ IsFiniteSet(Shm!Processes) /\ Producers \subseteq Shm!Processes
    /\ Shm!Consumer = -1 /\ Shm!Consumer \in Shm!Processes /\ Shm!Consumer \notin Producers
    /\ \A p \in Producers : p \in Nat /\ p # Shm!Consumer
    /\ Shm!Processes = Producers \cup {Shm!Consumer}
    /\ BUF_SIZE \in Nat /\ BUF_SIZE > 0 /\ MaxItems \in Nat /\ MaxItems > 0
<1>1. IsFiniteSet(Producers) /\ Producers \subseteq Nat /\ BUF_SIZE \in Nat \ {0}
      /\ MaxItems \in Nat \ {0}
  BY ProcessesAssumption, ShmFiniteness DEF Shm!ShmAssumption
<1>2. IsFiniteSet(Producers \cup {-1})  BY <1>1, FS_AddElement
<1>3. QED  BY <1>1, <1>2 DEF Shm!Processes, Shm!Consumer

\* SlotsConserved in terms of these sets.
LEMMA SlotsOfSets ==
    /\ Shm!SlotsConserved <=>
          (Shm!Ready => /\ shm.filledbuf_count + shm.emptybuf_count + Cardinality(InHands) = BUF_SIZE
                        /\ shm.mutex + Cardinality(Inside) = 1)
    /\ Shm!SlotsConserved' <=>
          (Shm!Ready' => /\ shm'.filledbuf_count + shm'.emptybuf_count + Cardinality(InHands') = BUF_SIZE
                         /\ shm'.mutex + Cardinality(Inside') = 1)
  BY ShmCardinality DEF Shm!SlotsConserved, Shm!Ready, Shm!At, InHands, Inside

\* A step of one process moves no other in or out.
LEMMA StepCounts ==
    ASSUME NEW q \in Shm!Processes, \A r \in Shm!Processes : r # q => shm_pc'[r] = shm_pc[r]
    PROVE  /\ Cardinality(InHands) \in Nat /\ Cardinality(InHands') \in Nat
           /\ Cardinality(InHands') + In(q, InHands) = Cardinality(InHands) + In(q, InHands')
           /\ Cardinality(Inside) \in Nat /\ Cardinality(Inside') \in Nat
           /\ Cardinality(Inside') + In(q, Inside) = Cardinality(Inside) + In(q, Inside')
           /\ Cardinality(Shm!HoldingItem) \in Nat /\ Cardinality(Shm!HoldingItem') \in Nat
           /\ Cardinality(Shm!HoldingItem') + In(q, Shm!HoldingItem)
                = Cardinality(Shm!HoldingItem) + In(q, Shm!HoldingItem')
<1>1. /\ InHands \in SUBSET Shm!Processes /\ InHands' \in SUBSET Shm!Processes
      /\ \A r \in Shm!Processes : r # q => (r \in InHands <=> r \in InHands')
  BY DEF InHands
<1>2. /\ Inside \in SUBSET Shm!Processes /\ Inside' \in SUBSET Shm!Processes
      /\ \A r \in Shm!Processes : r # q => (r \in Inside <=> r \in Inside')
  BY DEF Inside
<1>3. /\ Shm!HoldingItem \in SUBSET Shm!Processes /\ Shm!HoldingItem' \in SUBSET Shm!Processes
      /\ \A r \in Shm!Processes : r # q => (r \in Shm!HoldingItem <=> r \in Shm!HoldingItem')
  BY DEF Shm!HoldingItem
<1>4. IsFiniteSet(Shm!Processes)  BY ShmFacts
<1>5. /\ Cardinality(InHands) \in Nat /\ Cardinality(InHands') \in Nat
      /\ Cardinality(InHands') + In(q, InHands) = Cardinality(InHands) + In(q, InHands')
  BY <1>1, <1>4, MoveOne
<1>6. /\ Cardinality(Inside) \in Nat /\ Cardinality(Inside') \in Nat
      /\ Cardinality(Inside') + In(q, Inside) = Cardinality(Inside) + In(q, Inside')
  BY <1>2, <1>4, MoveOne
<1>7. /\ Cardinality(Shm!HoldingItem) \in Nat /\ Cardinality(Shm!HoldingItem') \in Nat
      /\ Cardinality(Shm!HoldingItem') + In(q, Shm!HoldingItem)
           = Cardinality(Shm!HoldingItem) + In(q, Shm!HoldingItem')
  BY <1>3, <1>4, MoveOne
<1>8. QED  BY <1>5, <1>6, <1>7

\* Whoever holds an item has a slot in hands, and who is about to write, or has
\* just read, has one and no item: the items in the ring are never too many.
LEMMA QueueBounds ==
    ASSUME Shm!ShmInv
    PROVE  /\ Len(accepted) \in Nat /\ Len(received) \in Nat
           /\ Len(accepted) - Len(received) \in Nat
           /\ Len(accepted) - Len(received) <= BUF_SIZE
           /\ \A p \in Producers : shm_pc[p] = "write" =>
                 Len(accepted) - Len(received) < BUF_SIZE
           /\ shm_pc[Shm!Consumer] \in {"waitmutex", "read"} =>
                 Len(accepted) - Len(received) > 0
<1> USE DEF Shm!ShmInv
<1>1. /\ shm.filledbuf_count \in Nat /\ shm.emptybuf_count \in Nat
      /\ Len(accepted) \in Nat /\ Len(received) \in Nat
  BY DEF Shm!TypeOK
<1>2. /\ IsFiniteSet(InHands) /\ Shm!HoldingItem \subseteq InHands
      /\ IsFiniteSet(Shm!HoldingItem)
      /\ Cardinality(InHands) \in Nat /\ Cardinality(Shm!HoldingItem) \in Nat
      /\ Cardinality(Shm!HoldingItem) <= Cardinality(InHands)
  <2>1. IsFiniteSet(InHands)  BY ShmFacts, FS_Subset DEF InHands
  <2>2. Shm!HoldingItem \in SUBSET InHands  BY DEF InHands, Shm!HoldingItem
  <2>3. QED  BY <2>1, <2>2, FS_Subset, FS_CardinalityType
<1>3. Len(accepted) - Len(received) = shm.filledbuf_count + Cardinality(Shm!HoldingItem)
  BY ShmCardinality DEF Shm!ItemsCounted
<1>4. Shm!Ready => shm.filledbuf_count + shm.emptybuf_count + Cardinality(InHands) = BUF_SIZE
  BY SlotsOfSets
<1>5. CASE ~Shm!Ready
  <2>1. accepted = <<>> /\ received = <<>>  BY <1>5 DEF Shm!SettingUp
  <2>2. \A p \in Producers : shm_pc[p] # "write"  BY <1>5 DEF Shm!Places
  <2>3. shm_pc[Shm!Consumer] \notin {"waitmutex", "read"}
    BY <1>5 DEF Shm!Ready, Shm!Initialising
  <2>4. QED  BY <1>1, <2>1, <2>2, <2>3, ShmFacts
<1>6. CASE Shm!Ready
  <2>1. ASSUME NEW p \in Producers, shm_pc[p] = "write"
        PROVE  Cardinality(Shm!HoldingItem) < Cardinality(InHands)
    <3>1. p \in InHands /\ p \notin Shm!HoldingItem  BY <2>1, ShmFacts DEF InHands, Shm!HoldingItem
    <3>2. Cardinality(Shm!HoldingItem) # Cardinality(InHands)
      BY <1>2, <3>1, FS_Subset
    <3>3. QED  BY <1>2, <3>2
  <2>2. ASSUME shm_pc[Shm!Consumer] \in {"waitmutex", "read"}
        PROVE  Cardinality(Shm!HoldingItem) > 0
    <3>1. Shm!HoldingItem # {}  BY <2>2, ShmFacts DEF Shm!HoldingItem
    <3>2. Cardinality(Shm!HoldingItem) # 0  BY <1>2, <3>1, FS_EmptySet
    <3>3. QED  BY <1>2, <3>2
  <2>3. PICK h \in Nat, n \in Nat : h = Cardinality(Shm!HoldingItem) /\ n = Cardinality(InHands)
    BY <1>2
  <2>4. h <= n /\ Len(accepted) - Len(received) = shm.filledbuf_count + h
        /\ shm.filledbuf_count + shm.emptybuf_count + n = BUF_SIZE
    BY <1>2, <1>3, <1>4, <1>6, <2>3
  <2>5. \A p \in Producers : shm_pc[p] = "write" => h < n  BY <2>1, <2>3
  <2>6. shm_pc[Shm!Consumer] \in {"waitmutex", "read"} => h > 0  BY <2>2, <2>3
  <2>7. PICK d \in Int : d = Len(accepted) - Len(received)
    <3>1. PICK a \in Nat, b \in Nat : a = Len(accepted) /\ b = Len(received)
      BY <1>1
    <3>2. a - b \in Int  OBVIOUS
    <3>3. QED  BY <3>1, <3>2
  <2>8. d = shm.filledbuf_count + h /\ d <= BUF_SIZE /\ d \in Nat
    BY <1>1, <2>4, <2>7, ShmFacts
  <2>9. (\A p \in Producers : shm_pc[p] = "write" => d < BUF_SIZE)
    BY <1>1, <2>4, <2>5, <2>8, ShmFacts
  <2>10. shm_pc[Shm!Consumer] \in {"waitmutex", "read"} => d > 0
    BY <1>1, <2>4, <2>6, <2>8
  <2>11. QED  BY <1>1, <2>7, <2>8, <2>9, <2>10
<1>7. QED  BY <1>5, <1>6

------------------------------------------------------------------------------
(* The ring in shared memory as a queue *)

\* Going round the ring once at most, % subtracts BUF_SIZE or nothing.
LEMMA RoundOnce ==
    ASSUME NEW x \in Nat, x < 2 * BUF_SIZE
    PROVE  /\ x % BUF_SIZE = IF x < BUF_SIZE THEN x ELSE x - BUF_SIZE
           /\ x % BUF_SIZE \in Shm!Slots
<1>1. BUF_SIZE \in Nat /\ BUF_SIZE > 0  BY ShmFacts
<1>2. x % BUF_SIZE = IF x < BUF_SIZE THEN x ELSE x - BUF_SIZE  BY <1>1
<1>3. QED  BY <1>1, <1>2 DEF Shm!Slots

\* An index advanced before the addition or in it leads to the same slot.
LEMMA AdvanceFirst ==
    ASSUME NEW m \in Shm!Slots, NEW j \in Nat, j < BUF_SIZE
    PROVE  (((m + 1) % BUF_SIZE) + j) % BUF_SIZE = (m + 1 + j) % BUF_SIZE
<1>1. BUF_SIZE \in Nat /\ BUF_SIZE > 0 /\ m \in Nat /\ m < BUF_SIZE
  BY ShmFacts DEF Shm!Slots
<1>2. PICK y \in Nat : y = (m + 1) % BUF_SIZE
                       /\ y = IF m + 1 < BUF_SIZE THEN m + 1 ELSE m + 1 - BUF_SIZE
  <2>1. PICK x \in Nat : x = m + 1 /\ x < 2 * BUF_SIZE  BY <1>1
  <2>2. x % BUF_SIZE = IF x < BUF_SIZE THEN x ELSE x - BUF_SIZE  BY <2>1, RoundOnce
  <2>3. PICK y \in Nat : y = x % BUF_SIZE  BY <2>1, RoundOnce DEF Shm!Slots
  <2>4. y = IF x < BUF_SIZE THEN x ELSE x - BUF_SIZE  BY <1>1, <2>2, <2>3
  <2>5. y = IF m + 1 < BUF_SIZE THEN m + 1 ELSE m + 1 - BUF_SIZE
    BY <1>1, <2>1, <2>4
  <2>6. y = (m + 1) % BUF_SIZE  BY <2>1, <2>3
  <2>7. QED  BY <2>5, <2>6
<1>3. CASE m + 1 < BUF_SIZE  BY <1>1, <1>2, <1>3
<1>4. CASE ~(m + 1 < BUF_SIZE)
  <2>1. y = 0 /\ m + 1 = BUF_SIZE  BY <1>1, <1>2, <1>4
  <2>2. PICK x \in Nat : x = m + 1 + j /\ x < 2 * BUF_SIZE /\ ~(x < BUF_SIZE) /\ x - BUF_SIZE = j
    BY <1>1, <2>1
  <2>3. x % BUF_SIZE = j  BY <2>2, RoundOnce
  <2>4. j % BUF_SIZE = j
    <3>1. j < 2 * BUF_SIZE  BY <1>1
    <3>2. QED  BY <3>1, RoundOnce
  <2>5. QED  BY <1>2, <2>1, <2>2, <2>3, <2>4
<1>5. QED  BY <1>3, <1>4

\* The items after the first are the same from either expression of the index.
LEMMA AdvancedContents ==
    ASSUME NEW m \in Shm!Slots, NEW n \in Nat, n <= BUF_SIZE, NEW b
    PROVE  [j \in 1 .. n |-> b[(m + 1 + j - 1) % BUF_SIZE]]
             = [j \in 1 .. n |-> b[(((m + 1) % BUF_SIZE) + j - 1) % BUF_SIZE]]
<1>1. BUF_SIZE \in Nat /\ m \in Nat  BY ShmFacts DEF Shm!Slots
<1>2. ASSUME NEW j \in 1 .. n
      PROVE  (m + 1 + j - 1) % BUF_SIZE = (((m + 1) % BUF_SIZE) + j - 1) % BUF_SIZE
  <2>1. PICK i \in Nat : i = j - 1 /\ i < BUF_SIZE  BY <1>1
  <2>2. PICK y \in Int : y = (m + 1) % BUF_SIZE
    <3>1. m + 1 \in Nat /\ m + 1 < 2 * BUF_SIZE  BY <1>1, ShmFacts DEF Shm!Slots
    <3>2. (m + 1) % BUF_SIZE \in Shm!Slots  BY <3>1, RoundOnce
    <3>3. QED  BY <3>2 DEF Shm!Slots
  <2>3. m + 1 + j - 1 = m + 1 + i /\ y + j - 1 = y + i  BY <1>1, <2>1, <2>2
  <2>4. (y + i) % BUF_SIZE = (m + 1 + i) % BUF_SIZE  BY <2>1, <2>2, AdvanceFirst
  <2>5. QED  BY <2>2, <2>3, <2>4
<1>3. QED  BY <1>2

\* Contents starts at FirstSlot, in this state and in the next.
LEMMA ContentsFromFirst ==
    /\ shm.front \in Shm!Slots /\ Len(accepted) - Len(received) \in Nat
       /\ Len(accepted) - Len(received) <= BUF_SIZE
       => Shm!Contents = [j \in 1 .. Len(accepted) - Len(received) |->
                             shm.buf[(Shm!FirstSlot + j - 1) % BUF_SIZE]]
    /\ shm'.front \in Shm!Slots /\ Len(accepted') - Len(received') \in Nat
       /\ Len(accepted') - Len(received') <= BUF_SIZE
       => Shm!Contents' = [j \in 1 .. Len(accepted') - Len(received') |->
                             shm'.buf[(Shm!FirstSlot' + j - 1) % BUF_SIZE]]
<1>1. ASSUME shm.front \in Shm!Slots, Len(accepted) - Len(received) \in Nat,
             Len(accepted) - Len(received) <= BUF_SIZE
      PROVE  Shm!Contents = [j \in 1 .. Len(accepted) - Len(received) |->
                             shm.buf[(Shm!FirstSlot + j - 1) % BUF_SIZE]]
  <2>1. CASE shm_pc[Shm!Consumer] = "advance"
    BY <1>1, <2>1, AdvancedContents DEF Shm!Contents, Shm!FirstSlot
  <2>2. CASE shm_pc[Shm!Consumer] # "advance"
    <3>1. shm.front + 0 = shm.front  BY <1>1, ShmFacts DEF Shm!Slots
    <3>2. QED  BY <2>2, <3>1 DEF Shm!Contents, Shm!FirstSlot
  <2>3. QED  BY <2>1, <2>2
<1>2. ASSUME shm'.front \in Shm!Slots, Len(accepted') - Len(received') \in Nat,
             Len(accepted') - Len(received') <= BUF_SIZE
      PROVE  Shm!Contents' = [j \in 1 .. Len(accepted') - Len(received') |->
                             shm'.buf[(Shm!FirstSlot' + j - 1) % BUF_SIZE]]
  <2>1. CASE shm_pc'[Shm!Consumer] = "advance"
    BY <1>2, <2>1, AdvancedContents DEF Shm!Contents, Shm!FirstSlot, Shm!Consumer
  <2>2. CASE shm_pc'[Shm!Consumer] # "advance"
    <3>1. shm'.front + 0 = shm'.front  BY <1>2, ShmFacts DEF Shm!Slots
    <3>2. QED  BY <2>2, <3>1 DEF Shm!Contents, Shm!FirstSlot, Shm!Consumer
  <2>3. QED  BY <2>1, <2>2
<1>3. QED  BY <1>1, <1>2

------------------------------------------------------------------------------
(* The steps that move neither items nor indices *)

\* The type of the state with no bounds on the semaphores; these follow from the
\* balance below.
ShmType ==
    /\ alive \subseteq Shm!Processes /\ name \in BOOLEAN
    /\ shm \in [sized : BOOLEAN, filledbuf_count : Nat, emptybuf_count : Nat, mutex : Nat,
                front : Shm!Slots, rear : Shm!Slots, buf : [Shm!Slots -> Int]]
    /\ sent \in [Producers -> 0 .. MaxItems]
    /\ accepted \in Seq(Int) /\ received \in Seq(Int)
    /\ shm_pc = [q \in Shm!Processes |-> shm_pc[q]]

\* What one process takes from a semaphore it has in its hands afterwards.
Balanced(q) ==
    /\ shm'.filledbuf_count - (Len(accepted') - Len(received')) + In(q, Shm!HoldingItem')
         = shm.filledbuf_count - (Len(accepted) - Len(received)) + In(q, Shm!HoldingItem)
    /\ shm'.filledbuf_count + shm'.emptybuf_count + In(q, InHands')
         = shm.filledbuf_count + shm.emptybuf_count + In(q, InHands)
    /\ shm'.mutex + In(q, Inside') = shm.mutex + In(q, Inside)

\* A step of one process that keeps the balance keeps all that is counted.
LEMMA BalanceKept ==
    ASSUME Shm!ShmInv, Shm!Ready, NEW q \in Shm!Processes, ShmType',
           \A r \in Shm!Processes : r # q => shm_pc'[r] = shm_pc[r],
           Shm!Ready', Shm!Places', Balanced(q)
    PROVE  Shm!TypeOK' /\ Shm!SlotsConserved' /\ Shm!SettingUp' /\ Shm!ItemsCounted' /\ Shm!OneInside'
<1>1. /\ shm.filledbuf_count \in Nat /\ shm.emptybuf_count \in Nat /\ shm.mutex \in Nat
      /\ shm'.filledbuf_count \in Nat /\ shm'.emptybuf_count \in Nat /\ shm'.mutex \in Nat
      /\ Len(accepted) \in Nat /\ Len(received) \in Nat
      /\ Len(accepted') \in Nat /\ Len(received') \in Nat
  BY DEF Shm!ShmInv, Shm!TypeOK, ShmType
<1>2. /\ Cardinality(InHands) \in Nat /\ Cardinality(InHands') \in Nat
      /\ Cardinality(InHands') + In(q, InHands) = Cardinality(InHands) + In(q, InHands')
      /\ Cardinality(Inside) \in Nat /\ Cardinality(Inside') \in Nat
      /\ Cardinality(Inside') + In(q, Inside) = Cardinality(Inside) + In(q, Inside')
      /\ Cardinality(Shm!HoldingItem) \in Nat /\ Cardinality(Shm!HoldingItem') \in Nat
      /\ Cardinality(Shm!HoldingItem') + In(q, Shm!HoldingItem)
           = Cardinality(Shm!HoldingItem) + In(q, Shm!HoldingItem')
  BY StepCounts
<1>3. /\ shm.filledbuf_count + shm.emptybuf_count + Cardinality(InHands) = BUF_SIZE
      /\ shm.mutex + Cardinality(Inside) = 1
  BY SlotsOfSets DEF Shm!ShmInv
<1>4. Len(accepted) - Len(received) = shm.filledbuf_count + Cardinality(Shm!HoldingItem)
  BY ShmCardinality DEF Shm!ShmInv, Shm!ItemsCounted
<1>5. \A x, S : In(x, S) \in {0, 1}  BY DEF In
<1>6. PICK f \in Nat, e \in Nat, m \in Nat, f1 \in Nat, e1 \in Nat, m1 \in Nat :
        /\ f = shm.filledbuf_count /\ e = shm.emptybuf_count /\ m = shm.mutex
        /\ f1 = shm'.filledbuf_count /\ e1 = shm'.emptybuf_count /\ m1 = shm'.mutex
  BY <1>1
<1>7. PICK c \in Nat, k \in Nat, h \in Nat, c1 \in Nat, k1 \in Nat, h1 \in Nat :
        /\ c = Cardinality(InHands) /\ k = Cardinality(Inside) /\ h = Cardinality(Shm!HoldingItem)
        /\ c1 = Cardinality(InHands') /\ k1 = Cardinality(Inside')
        /\ h1 = Cardinality(Shm!HoldingItem')
  BY <1>2
<1>8. PICK i \in {0, 1}, j \in {0, 1}, g \in {0, 1}, i1 \in {0, 1}, j1 \in {0, 1}, g1 \in {0, 1} :
        /\ i = In(q, InHands) /\ j = In(q, Inside) /\ g = In(q, Shm!HoldingItem)
        /\ i1 = In(q, InHands') /\ j1 = In(q, Inside') /\ g1 = In(q, Shm!HoldingItem')
  BY <1>5
<1>9. PICK a \in Nat, b \in Nat, a1 \in Nat, b1 \in Nat :
        /\ a = Len(accepted) /\ b = Len(received) /\ a1 = Len(accepted') /\ b1 = Len(received')
  BY <1>1
<1>10. /\ c1 + i = c + i1 /\ k1 + j = k + j1 /\ h1 + g = h + g1
  BY <1>2, <1>7, <1>8
<1>11. /\ f1 - (a1 - b1) + g1 = f - (a - b) + g
       /\ f1 + e1 + i1 = f + e + i /\ m1 + j1 = m + j
  BY <1>6, <1>8, <1>9 DEF Balanced
<1>12. f + e + c = BUF_SIZE /\ m + k = 1 /\ a - b = f + h
  BY <1>3, <1>4, <1>6, <1>7, <1>9
<1>13. f1 + e1 + c1 = BUF_SIZE /\ m1 + k1 = 1 /\ a1 - b1 = f1 + h1
  BY <1>10, <1>11, <1>12
<1>14. Shm!SlotsConserved'  BY <1>6, <1>7, <1>13, SlotsOfSets
<1>15. Shm!ItemsCounted'  BY <1>6, <1>7, <1>9, <1>13, ShmCardinality DEF Shm!ItemsCounted
<1>16. Shm!SettingUp'  BY DEF Shm!SettingUp
<1>17. Shm!TypeOK'
  <2>1. f1 \in 0 .. BUF_SIZE /\ e1 \in 0 .. BUF_SIZE /\ m1 \in 0 .. 1
    BY <1>13, ShmFacts
  <2>2. shm' \in [sized : BOOLEAN, filledbuf_count : 0 .. BUF_SIZE,
                  emptybuf_count : 0 .. BUF_SIZE, mutex : 0 .. 1,
                  front : Shm!Slots, rear : Shm!Slots, buf : [Shm!Slots -> Int]]
    BY <1>6, <2>1 DEF ShmType
  <2>3. \A r \in Shm!Processes :
           shm_pc'[r] \in Shm!Initialising \cup
               {"input", "waitempty", "waitfilled", "waitmutex", "write", "read",
                "advance", "postmutex", "postfilled", "postempty", "exit"}
    BY ShmFacts DEF Shm!Places, Shm!Initialising
  <2>4. QED  BY <2>2, <2>3 DEF Shm!TypeOK, ShmType
<1>18. Shm!OneInside'
  <2> SUFFICES ASSUME NEW r \in Inside', NEW s \in Inside' PROVE r = s
    BY DEF Shm!OneInside, Inside
  <2>1. IsFiniteSet(Inside')  BY ShmFacts, FS_Subset DEF Inside
  <2>2. k1 <= 1  BY <1>13
  <2>3. QED  BY <1>7, <2>1, <2>2, AtMostOne
<1>19. QED  BY <1>14, <1>15, <1>16, <1>17, <1>18

\* Such a step that leaves the items and where the ring begins and ends alone.
LEMMA QuietShm ==
    ASSUME Shm!ShmInv, Shm!Ready, NEW q \in Shm!Processes, ShmType',
           \A r \in Shm!Processes : r # q => shm_pc'[r] = shm_pc[r],
           Shm!Ready', Shm!Places', Balanced(q), accepted' = accepted, received' = received,
           shm'.buf = shm.buf, Shm!FirstSlot' = Shm!FirstSlot, Shm!NextSlot' = Shm!NextSlot
    PROVE  Shm!ShmInv'
<1>1. Shm!TypeOK' /\ Shm!SlotsConserved' /\ Shm!SettingUp' /\ Shm!ItemsCounted' /\ Shm!OneInside'
  BY BalanceKept
<1>2. Shm!Contents' = Shm!Contents
  <2>1. Len(accepted) - Len(received) \in Nat /\ Len(accepted) - Len(received) <= BUF_SIZE
    BY QueueBounds
  <2>2. shm.front \in Shm!Slots /\ shm'.front \in Shm!Slots
    BY DEF Shm!ShmInv, Shm!TypeOK, ShmType
  <2>3. QED  BY <2>1, <2>2, ContentsFromFirst
<1>3. Shm!RingInv'  BY <1>2 DEF Shm!RingInv, Shm!ShmInv
<1>4. QED  BY <1>1, <1>3 DEF Shm!ShmInv

\* The type with the bounds implies the type without.
LEMMA TypeWeakens == Shm!TypeOK => ShmType
<1> SUFFICES ASSUME Shm!TypeOK PROVE ShmType  OBVIOUS
<1>1. BUF_SIZE \in Nat  BY ShmFacts
<1>2. shm \in [sized : BOOLEAN, filledbuf_count : Nat, emptybuf_count : Nat, mutex : Nat,
                front : Shm!Slots, rear : Shm!Slots, buf : [Shm!Slots -> Int]]
  BY <1>1 DEF Shm!TypeOK
<1>3. QED  BY <1>2 DEF Shm!TypeOK, ShmType

\* A producer attaches to the object that is ready, or goes on to its next
\* number, or ends; with no slot in hands before or after.
LEMMA AtHome ==
    ASSUME Shm!ShmInv, Shm!Ready, NEW p \in Producers,
           Shm!Attach(p) \/ Shm!ReadInput(p)
    PROVE  Shm!ShmInv'
<1>1. /\ shm' = shm /\ sent' = sent /\ accepted' = accepted /\ received' = received
      /\ name' = name /\ alive' \subseteq alive
      /\ \/ shm_pc[p] = "start" /\ shm_pc' = [shm_pc EXCEPT ![p] = "input"]
         \/ shm_pc[p] = "start" /\ shm_pc' = [shm_pc EXCEPT ![p] = "exit"]
         \/ /\ shm_pc[p] = "input" /\ sent[p] < MaxItems
            /\ shm_pc' = [shm_pc EXCEPT ![p] = "waitempty"]
         \/ shm_pc[p] = "input" /\ shm_pc' = [shm_pc EXCEPT ![p] = "exit"]
  BY DEF Shm!Attach, Shm!ReadInput, Shm!Step, Shm!history
<1>2. ShmType  BY TypeWeakens DEF Shm!ShmInv
<1>3. p \in Shm!Processes /\ p # Shm!Consumer  BY ShmFacts
<1>4. /\ \A r \in Shm!Processes : r # p => shm_pc'[r] = shm_pc[r]
      /\ \/ shm_pc'[p] \in {"input", "exit"}
         \/ shm_pc'[p] = "waitempty" /\ sent[p] < MaxItems
      /\ shm_pc[p] \in {"start", "input"}
      /\ shm_pc' = [q \in Shm!Processes |-> shm_pc'[q]]
  BY <1>1, <1>2, <1>3 DEF ShmType
<1>5. ShmType'  BY <1>1, <1>2, <1>4 DEF ShmType
<1>6. Shm!Consumer \in Shm!Processes  BY ShmFacts
<1>7. Shm!Ready' /\ shm_pc'[Shm!Consumer] = shm_pc[Shm!Consumer]
  BY <1>3, <1>4, <1>6 DEF Shm!Ready
<1>8. Shm!Places'  BY <1>1, <1>3, <1>4, <1>7, ShmFacts DEF Shm!Places, Shm!ShmInv
<1>9. Balanced(p)
  <2>1. /\ In(p, InHands) = 0 /\ In(p, InHands') = 0
        /\ In(p, Inside) = 0 /\ In(p, Inside') = 0
        /\ In(p, Shm!HoldingItem) = 0 /\ In(p, Shm!HoldingItem') = 0
    BY <1>3, <1>4 DEF In, InHands, Inside, Shm!HoldingItem
  <2>2. QED  BY <1>1, <2>1 DEF Balanced
<1>10. Shm!FirstSlot' = Shm!FirstSlot /\ Shm!NextSlot' = Shm!NextSlot
  BY <1>1, <1>3, <1>4, <1>7, ShmFacts DEF Shm!FirstSlot, Shm!NextSlot
<1>11. QED  BY <1>1, <1>3, <1>4, <1>5, <1>7, <1>8, <1>9, <1>10, QuietShm

\* A producer or the consumer waits for a semaphore or posts one, or advances
\* its index: what it takes from a semaphore it has in hands.
LEMMA ProducerSemaphores ==
    ASSUME Shm!ShmInv, Shm!Ready, NEW p \in Producers,
           \/ Shm!WAIT(p, "emptybuf_count", "waitempty", "waitmutex")
           \/ Shm!WAIT(p, "mutex", "waitmutex", "write")
           \/ Shm!AdvanceRear(p)
           \/ Shm!POST(p, "mutex", "postmutex", "postfilled")
           \/ Shm!POST(p, "filledbuf_count", "postfilled", "input")
    PROVE  Shm!ShmInv'
<1>1. /\ sent' = sent /\ accepted' = accepted /\ received' = received
      /\ name' = name /\ alive' = alive
      /\ \/ /\ shm_pc[p] = "waitempty" /\ shm_pc' = [shm_pc EXCEPT ![p] = "waitmutex"]
            /\ shm.emptybuf_count > 0
            /\ shm' = [shm EXCEPT !.emptybuf_count = shm.emptybuf_count - 1]
         \/ /\ shm_pc[p] = "waitmutex" /\ shm_pc' = [shm_pc EXCEPT ![p] = "write"]
            /\ shm.mutex > 0 /\ shm' = [shm EXCEPT !.mutex = shm.mutex - 1]
         \/ /\ shm_pc[p] = "advance" /\ shm_pc' = [shm_pc EXCEPT ![p] = "postmutex"]
            /\ shm' = [shm EXCEPT !.rear = (shm.rear + 1) % BUF_SIZE]
         \/ /\ shm_pc[p] = "postmutex" /\ shm_pc' = [shm_pc EXCEPT ![p] = "postfilled"]
            /\ shm' = [shm EXCEPT !.mutex = shm.mutex + 1]
         \/ /\ shm_pc[p] = "postfilled" /\ shm_pc' = [shm_pc EXCEPT ![p] = "input"]
            /\ shm' = [shm EXCEPT !.filledbuf_count = shm.filledbuf_count + 1]
  BY DEF Shm!WAIT, Shm!POST, Shm!AdvanceRear, Shm!Assign, Shm!Step, Shm!history
<1>2. ShmType /\ p \in Shm!Processes /\ p # Shm!Consumer
      /\ shm_pc' = [shm_pc EXCEPT ![p] = shm_pc'[p]]
  BY <1>1, TypeWeakens, ShmFacts DEF Shm!ShmInv, ShmType
<1>3. /\ \A r \in Shm!Processes : r # p => shm_pc'[r] = shm_pc[r]
      /\ shm_pc' = [q \in Shm!Processes |-> shm_pc'[q]]
  BY <1>2 DEF ShmType
<1>4. Shm!Ready' /\ shm_pc'[Shm!Consumer] = shm_pc[Shm!Consumer]
  BY <1>2, <1>3, ShmFacts DEF Shm!Ready
<1>5. PICK y \in Shm!Slots : y = (shm.rear + 1) % BUF_SIZE
  <2>1. PICK m \in Shm!Slots : m = shm.rear  BY <1>2 DEF ShmType
  <2>2. PICK x \in Nat : x = m + 1 /\ x < 2 * BUF_SIZE  BY ShmFacts DEF Shm!Slots
  <2>3. x % BUF_SIZE \in Shm!Slots  BY <2>2, RoundOnce
  <2>4. QED  BY <2>1, <2>2, <2>3
<1>6. ShmType'
  <2>1. shm' \in [sized : BOOLEAN, filledbuf_count : Nat, emptybuf_count : Nat, mutex : Nat,
                  front : Shm!Slots, rear : Shm!Slots, buf : [Shm!Slots -> Int]]
    <3>1. /\ shm.emptybuf_count > 0 => shm.emptybuf_count - 1 \in Nat
          /\ shm.mutex > 0 => shm.mutex - 1 \in Nat
          /\ shm.mutex + 1 \in Nat /\ shm.filledbuf_count + 1 \in Nat
      BY <1>2 DEF ShmType
    <3>2. (shm.rear + 1) % BUF_SIZE \in Shm!Slots  BY <1>5
    <3>3. QED  BY <1>1, <1>2, <3>1, <3>2 DEF ShmType
  <2>2. QED  BY <1>1, <1>2, <1>3, <2>1 DEF ShmType
<1>7. Shm!Places'
  BY <1>1, <1>2, <1>3, <1>4, ShmFacts DEF Shm!Places, Shm!ShmInv, ShmType
<1>8. Balanced(p)
  <2>1. /\ In(p, InHands) = IF shm_pc[p] = "waitempty" THEN 0 ELSE 1
        /\ In(p, InHands') = IF shm_pc[p] = "postfilled" THEN 0 ELSE 1
        /\ In(p, Inside) = IF shm_pc[p] \in {"advance", "postmutex"} THEN 1 ELSE 0
        /\ In(p, Inside') = IF shm_pc[p] \in {"waitmutex", "advance"} THEN 1 ELSE 0
        /\ In(p, Shm!HoldingItem)
             = IF shm_pc[p] \in {"advance", "postmutex", "postfilled"} THEN 1 ELSE 0
        /\ In(p, Shm!HoldingItem') = IF shm_pc[p] \in {"advance", "postmutex"} THEN 1 ELSE 0
    BY <1>1, <1>2 DEF In, InHands, Inside, Shm!HoldingItem, ShmType
  <2>2. PICK f \in Nat, e \in Nat, m \in Nat, f1 \in Nat, e1 \in Nat, m1 \in Nat :
          /\ f = shm.filledbuf_count /\ e = shm.emptybuf_count /\ m = shm.mutex
          /\ f1 = shm'.filledbuf_count /\ e1 = shm'.emptybuf_count /\ m1 = shm'.mutex
    BY <1>2, <1>6 DEF ShmType
  <2>3. PICK d \in Nat : d = Len(accepted) - Len(received)
    BY QueueBounds
  <2>4. /\ f1 = IF shm_pc[p] = "postfilled" THEN f + 1 ELSE f
        /\ e1 = IF shm_pc[p] = "waitempty" THEN e - 1 ELSE e
        /\ m1 = IF shm_pc[p] = "waitmutex" THEN m - 1
                ELSE IF shm_pc[p] = "postmutex" THEN m + 1 ELSE m
    BY <1>1, <1>2, <2>2 DEF ShmType
  <2>5. /\ f1 - d + In(p, Shm!HoldingItem') = f - d + In(p, Shm!HoldingItem)
        /\ f1 + e1 + In(p, InHands') = f + e + In(p, InHands)
        /\ m1 + In(p, Inside') = m + In(p, Inside)
    BY <1>1, <2>1, <2>4
  <2>6. QED  BY <1>1, <2>2, <2>3, <2>5 DEF Balanced
<1>9. Shm!FirstSlot' = Shm!FirstSlot
  BY <1>1, <1>2, <1>4 DEF Shm!FirstSlot, ShmType
<1>10. Shm!NextSlot' = Shm!NextSlot
  <2>1. CASE shm_pc[p] = "advance"
    <3>1. \A r \in Producers : shm_pc'[r] # "advance"
      <4>1. \A r \in Producers : r # p => shm_pc[r] # "advance"
        BY <2>1, ShmFacts DEF Shm!OneInside, Shm!ShmInv
      <4>2. QED  BY <1>1, <1>2, <1>3, <2>1, <4>1, ShmFacts DEF ShmType
    <3>2. shm'.rear = (shm.rear + 1) % BUF_SIZE  BY <1>1, <1>2, <2>1 DEF ShmType
    <3>3. QED  BY <2>1, <3>1, <3>2 DEF Shm!NextSlot
  <2>2. CASE shm_pc[p] # "advance"
    <3>1. shm'.rear = shm.rear /\ shm_pc'[p] # "advance"
      BY <1>1, <1>2, <2>2 DEF ShmType
    <3>2. \A r \in Producers : shm_pc'[r] = "advance" <=> shm_pc[r] = "advance"
      BY <1>3, <2>2, <3>1, ShmFacts
    <3>3. QED  BY <3>1, <3>2 DEF Shm!NextSlot
  <2>3. QED  BY <2>1, <2>2
<1>11. shm'.buf = shm.buf  BY <1>1, <1>2 DEF ShmType
<1>12. QED  BY <1>1, <1>2, <1>3, <1>4, <1>6, <1>7, <1>8, <1>9, <1>10, <1>11, QuietShm

\* The same of the consumer, whose loop runs only when it is ready.
LEMMA ConsumerSemaphores ==
    ASSUME Shm!ShmInv,
           \/ Shm!WAIT(Shm!Consumer, "filledbuf_count", "waitfilled", "waitmutex")
           \/ Shm!WAIT(Shm!Consumer, "mutex", "waitmutex", "read")
           \/ Shm!Assign(Shm!Consumer, "front", (shm.front + 1) % BUF_SIZE, "advance", "postmutex")
           \/ Shm!POST(Shm!Consumer, "mutex", "postmutex", "postempty")
           \/ Shm!POST(Shm!Consumer, "emptybuf_count", "postempty", "waitfilled")
    PROVE  Shm!ShmInv'
<1> DEFINE c == Shm!Consumer
<1>1. /\ sent' = sent /\ accepted' = accepted /\ received' = received
      /\ name' = name /\ alive' = alive
      /\ \/ /\ shm_pc[c] = "waitfilled" /\ shm_pc' = [shm_pc EXCEPT ![c] = "waitmutex"]
            /\ shm.filledbuf_count > 0
            /\ shm' = [shm EXCEPT !.filledbuf_count = shm.filledbuf_count - 1]
         \/ /\ shm_pc[c] = "waitmutex" /\ shm_pc' = [shm_pc EXCEPT ![c] = "read"]
            /\ shm.mutex > 0 /\ shm' = [shm EXCEPT !.mutex = shm.mutex - 1]
         \/ /\ shm_pc[c] = "advance" /\ shm_pc' = [shm_pc EXCEPT ![c] = "postmutex"]
            /\ shm' = [shm EXCEPT !.front = (shm.front + 1) % BUF_SIZE]
         \/ /\ shm_pc[c] = "postmutex" /\ shm_pc' = [shm_pc EXCEPT ![c] = "postempty"]
            /\ shm' = [shm EXCEPT !.mutex = shm.mutex + 1]
         \/ /\ shm_pc[c] = "postempty" /\ shm_pc' = [shm_pc EXCEPT ![c] = "waitfilled"]
            /\ shm' = [shm EXCEPT !.emptybuf_count = shm.emptybuf_count + 1]
  BY DEF Shm!WAIT, Shm!POST, Shm!Assign, Shm!Step, Shm!history
<1>2. ShmType /\ c \in Shm!Processes /\ c \notin Producers
      /\ shm_pc' = [shm_pc EXCEPT ![c] = shm_pc'[c]]
  BY <1>1, TypeWeakens, ShmFacts DEF Shm!ShmInv, ShmType
<1> HIDE DEF c
<1>3. /\ \A r \in Shm!Processes : r # c => shm_pc'[r] = shm_pc[r]
      /\ shm_pc' = [q \in Shm!Processes |-> shm_pc'[q]]
  BY <1>2 DEF ShmType
<1>4. Shm!Ready /\ Shm!Ready'
  BY <1>1, <1>2 DEF Shm!Ready, Shm!Initialising, ShmType, c
<1>5. PICK y \in Shm!Slots : y = (shm.front + 1) % BUF_SIZE
  <2>1. PICK m \in Shm!Slots : m = shm.front  BY <1>2 DEF ShmType
  <2>2. PICK x \in Nat : x = m + 1 /\ x < 2 * BUF_SIZE  BY ShmFacts DEF Shm!Slots
  <2>3. x % BUF_SIZE \in Shm!Slots  BY <2>2, RoundOnce
  <2>4. QED  BY <2>1, <2>2, <2>3
<1>6. ShmType'
  <2>1. shm' \in [sized : BOOLEAN, filledbuf_count : Nat, emptybuf_count : Nat, mutex : Nat,
                  front : Shm!Slots, rear : Shm!Slots, buf : [Shm!Slots -> Int]]
    <3>1. /\ shm.filledbuf_count > 0 => shm.filledbuf_count - 1 \in Nat
          /\ shm.mutex > 0 => shm.mutex - 1 \in Nat
          /\ shm.mutex + 1 \in Nat /\ shm.emptybuf_count + 1 \in Nat
      BY <1>2 DEF ShmType
    <3>2. (shm.front + 1) % BUF_SIZE \in Shm!Slots  BY <1>5
    <3>3. QED  BY <1>1, <1>2, <3>1, <3>2 DEF ShmType
  <2>2. QED  BY <1>1, <1>2, <1>3, <2>1 DEF ShmType
<1>7. Shm!Places'
  <2>1. \A p \in Producers : shm_pc'[p] = shm_pc[p]  BY <1>2, <1>3, ShmFacts
  <2>2. shm_pc'[c] \in {"waitfilled", "waitmutex", "read", "postmutex", "postempty"}
    BY <1>1, <1>2 DEF ShmType
  <2>3. QED  BY <1>1, <1>4, <2>1, <2>2 DEF Shm!Places, Shm!ShmInv, c
<1>8. Balanced(c)
  <2>1. /\ In(c, InHands) = IF shm_pc[c] = "waitfilled" THEN 0 ELSE 1
        /\ In(c, InHands') = IF shm_pc[c] = "postempty" THEN 0 ELSE 1
        /\ In(c, Inside) = IF shm_pc[c] \in {"advance", "postmutex"} THEN 1 ELSE 0
        /\ In(c, Inside') = IF shm_pc[c] \in {"waitmutex", "advance"} THEN 1 ELSE 0
        /\ In(c, Shm!HoldingItem) = IF shm_pc[c] = "waitmutex" THEN 1 ELSE 0
        /\ In(c, Shm!HoldingItem') = IF shm_pc[c] \in {"waitfilled", "waitmutex"} THEN 1 ELSE 0
    BY <1>1, <1>2 DEF In, InHands, Inside, Shm!HoldingItem, ShmType, c, Shm!Consumer
  <2>2. PICK f \in Nat, e \in Nat, m \in Nat, f1 \in Nat, e1 \in Nat, m1 \in Nat :
          /\ f = shm.filledbuf_count /\ e = shm.emptybuf_count /\ m = shm.mutex
          /\ f1 = shm'.filledbuf_count /\ e1 = shm'.emptybuf_count /\ m1 = shm'.mutex
    BY <1>2, <1>6 DEF ShmType
  <2>3. PICK d \in Nat : d = Len(accepted) - Len(received)
    BY QueueBounds
  <2>4. /\ f1 = IF shm_pc[c] = "waitfilled" THEN f - 1 ELSE f
        /\ e1 = IF shm_pc[c] = "postempty" THEN e + 1 ELSE e
        /\ m1 = IF shm_pc[c] = "waitmutex" THEN m - 1
                ELSE IF shm_pc[c] = "postmutex" THEN m + 1 ELSE m
    BY <1>1, <1>2, <2>2 DEF ShmType
  <2>5. /\ f1 - d + In(c, Shm!HoldingItem') = f - d + In(c, Shm!HoldingItem)
        /\ f1 + e1 + In(c, InHands') = f + e + In(c, InHands)
        /\ m1 + In(c, Inside') = m + In(c, Inside)
    BY <1>1, <2>1, <2>4
  <2>6. QED  BY <1>1, <2>2, <2>3, <2>5 DEF Balanced
<1>9. Shm!NextSlot' = Shm!NextSlot
  <2>1. \A p \in Producers : shm_pc'[p] = shm_pc[p]  BY <1>2, <1>3, ShmFacts
  <2>2. shm'.rear = shm.rear  BY <1>1, <1>2 DEF ShmType
  <2>3. QED  BY <2>1, <2>2 DEF Shm!NextSlot
<1>10. Shm!FirstSlot' = Shm!FirstSlot
  <2>1. shm_pc'[c] # "advance"  BY <1>1, <1>2 DEF ShmType
  <2>2. shm'.front = IF shm_pc[c] = "advance" THEN (shm.front + 1) % BUF_SIZE ELSE shm.front
    BY <1>1, <1>2 DEF ShmType
  <2>3. QED  BY <2>1, <2>2 DEF Shm!FirstSlot, c, Shm!Consumer
<1>11. shm'.buf = shm.buf  BY <1>1, <1>2 DEF ShmType
<1>12. QED
  BY <1>1, <1>2, <1>3, <1>4, <1>6, <1>7, <1>8, <1>9, <1>10, <1>11, QuietShm

\* Who is alive and whether the object has its name do not matter to the rest.
LEMMA SameShm ==
    ASSUME Shm!ShmInv, shm_pc' = shm_pc, shm' = shm, sent' = sent, accepted' = accepted,
           received' = received, alive' \subseteq alive, name' \in BOOLEAN
    PROVE  Shm!ShmInv'
<1>2. Shm!TypeOK'  BY DEF Shm!ShmInv, Shm!TypeOK
<1>3. Shm!SlotsConserved' /\ Shm!SettingUp'
  BY DEF Shm!ShmInv, Shm!SlotsConserved, Shm!SettingUp, Shm!Ready, Shm!At
<1>4. Shm!Places'  BY DEF Shm!ShmInv, Shm!Places, Shm!Ready
<1>5. Shm!ItemsCounted' /\ Shm!OneInside'
  BY DEF Shm!ShmInv, Shm!ItemsCounted, Shm!OneInside, Shm!HoldingItem
<1>6. Shm!RingInv'
  BY DEF Shm!ShmInv, Shm!RingInv, Shm!FirstSlot, Shm!NextSlot, Shm!Contents
<1>7. QED  BY <1>2, <1>3, <1>4, <1>5, <1>6 DEF Shm!ShmInv

\* A death changes nothing but who is alive, and may take the name away.
LEMMA KillKeeps == ASSUME Shm!ShmInv, NEW q \in Shm!Processes, Shm!Kill(q) PROVE Shm!ShmInv'
<1>1. /\ shm_pc' = shm_pc /\ shm' = shm /\ sent' = sent /\ accepted' = accepted
      /\ received' = received /\ alive' \subseteq alive /\ name' \in BOOLEAN
  BY DEF Shm!Kill, Shm!history, Shm!ShmInv, Shm!TypeOK
<1>2. QED  BY <1>1, SameShm

------------------------------------------------------------------------------
(* The steps that move an item *)

\* The n items from slot m on.
ItemsFrom(b, m, n) == [j \in 1 .. n |-> b[(m + j - 1) % BUF_SIZE]]

\* The slots of these items are the next ones round the ring, all different.
LEMMA SlotOf ==
    ASSUME NEW m \in Shm!Slots, NEW j \in Nat, j < BUF_SIZE
    PROVE  /\ (m + j) % BUF_SIZE = IF m + j < BUF_SIZE THEN m + j ELSE m + j - BUF_SIZE
           /\ (m + j) % BUF_SIZE \in Shm!Slots
<1>1. BUF_SIZE \in Nat /\ m \in Nat /\ m < BUF_SIZE  BY ShmFacts DEF Shm!Slots
<1>2. PICK x \in Nat : x = m + j /\ x < 2 * BUF_SIZE  BY <1>1
<1>3. /\ x % BUF_SIZE = IF x < BUF_SIZE THEN x ELSE x - BUF_SIZE
      /\ x % BUF_SIZE \in Shm!Slots
  BY <1>2, RoundOnce
<1>4. PICK y \in Shm!Slots : y = x % BUF_SIZE  BY <1>3
<1>5. y = IF x < BUF_SIZE THEN x ELSE x - BUF_SIZE  BY <1>3, <1>4
<1>6. y = IF m + j < BUF_SIZE THEN m + j ELSE m + j - BUF_SIZE  BY <1>1, <1>2, <1>5
<1>7. QED  BY <1>2, <1>4, <1>6

\* These items are a sequence of as many numbers.
LEMMA ItemsAreSeq ==
    ASSUME NEW m \in Shm!Slots, NEW n \in Nat, n <= BUF_SIZE, NEW b \in [Shm!Slots -> Int]
    PROVE  ItemsFrom(b, m, n) \in Seq(Int) /\ Len(ItemsFrom(b, m, n)) = n
<1>1. ASSUME NEW j \in 1 .. n PROVE b[(m + j - 1) % BUF_SIZE] \in Int
  <2>1. m \in Nat /\ BUF_SIZE \in Nat  BY ShmFacts DEF Shm!Slots
  <2>2. PICK i \in Nat : i = j - 1 /\ i < BUF_SIZE  BY <2>1
  <2>3. m + j - 1 = m + i  BY <2>1, <2>2
  <2>4. (m + i) % BUF_SIZE \in Shm!Slots  BY <2>2, SlotOf
  <2>5. QED  BY <2>3, <2>4
<1>2. QED  BY <1>1 DEF ItemsFrom

\* Append, element by element.
LEMMA AppendedSeq ==
    ASSUME NEW s \in Seq(Int), NEW v \in Int, NEW n \in Nat, Len(s) = n
    PROVE  Append(s, v) = [j \in 1 .. n + 1 |-> IF j <= n THEN s[j] ELSE v]
<1>1. Append(s, v) \in Seq(Int) /\ Len(Append(s, v)) = n + 1  OBVIOUS
<1>2. \A j \in 1 .. n + 1 : Append(s, v)[j] = IF j <= n THEN s[j] ELSE v  OBVIOUS
<1>3. PICK t \in Seq(Int) : t = Append(s, v)  BY <1>1
<1>4. t \in [1 .. Len(t) -> Int]  BY LenProperties
<1>5. t \in [1 .. n + 1 -> Int]  BY <1>1, <1>3, <1>4
<1>6. QED  BY <1>2, <1>3, <1>5

\* A write into the slot after the last item appends to the items.
LEMMA WriteAppends ==
    ASSUME NEW m \in Shm!Slots, NEW n \in Nat, n < BUF_SIZE, NEW b \in [Shm!Slots -> Int],
           NEW v \in Int, NEW r \in Shm!Slots, r = (m + n) % BUF_SIZE
    PROVE  /\ ItemsFrom([b EXCEPT ![r] = v], m, n + 1) = Append(ItemsFrom(b, m, n), v)
           /\ (r + 1) % BUF_SIZE = (m + (n + 1)) % BUF_SIZE
<1>1. /\ BUF_SIZE \in Nat /\ m \in Nat /\ m < BUF_SIZE /\ r \in Nat /\ r < BUF_SIZE
      /\ r = IF m + n < BUF_SIZE THEN m + n ELSE m + n - BUF_SIZE
  <2>1. (m + n) % BUF_SIZE = IF m + n < BUF_SIZE THEN m + n ELSE m + n - BUF_SIZE
    BY SlotOf
  <2>2. QED  BY <2>1, ShmFacts DEF Shm!Slots
<1>2. (r + 1) % BUF_SIZE = (m + (n + 1)) % BUF_SIZE
  <2>1. PICK x \in Nat : x = r + 1 /\ x < 2 * BUF_SIZE  BY <1>1
  <2>2. PICK y \in Nat : y = m + (n + 1) /\ y < 2 * BUF_SIZE  BY <1>1
  <2>3. /\ x % BUF_SIZE = IF x < BUF_SIZE THEN x ELSE x - BUF_SIZE
        /\ y % BUF_SIZE = IF y < BUF_SIZE THEN y ELSE y - BUF_SIZE
    BY <2>1, <2>2, RoundOnce
  <2>4. x = y \/ x = y - BUF_SIZE  BY <1>1, <2>1, <2>2
  <2>5. (IF x < BUF_SIZE THEN x ELSE x - BUF_SIZE) = (IF y < BUF_SIZE THEN y ELSE y - BUF_SIZE)
    BY <1>1, <2>1, <2>2, <2>4
  <2>6. QED  BY <2>1, <2>2, <2>3, <2>5
<1>3. DEFINE c == [b EXCEPT ![r] = v]
<1>4. ASSUME NEW j \in 1 .. n + 1
      PROVE  c[(m + j - 1) % BUF_SIZE] = IF j <= n THEN b[(m + j - 1) % BUF_SIZE] ELSE v
  <2>1. PICK i \in Nat : i = j - 1 /\ i < BUF_SIZE /\ i <= n  BY <1>1
  <2>2. m + j - 1 = m + i  BY <1>1, <2>1
  <2>3. PICK y \in Shm!Slots : /\ y = (m + i) % BUF_SIZE
                               /\ y = IF m + i < BUF_SIZE THEN m + i ELSE m + i - BUF_SIZE
    BY <2>1, SlotOf
  <2>4. y = r <=> i = n  BY <1>1, <2>1, <2>3
  <2>5. j <= n <=> i # n  BY <2>1
  <2>6. c[y] = IF y = r THEN v ELSE b[y]  OBVIOUS
  <2> HIDE DEF c
  <2>7. QED  BY <2>2, <2>3, <2>4, <2>5, <2>6
<1> HIDE DEF c
<1>5. ItemsFrom(b, m, n) \in Seq(Int) /\ Len(ItemsFrom(b, m, n)) = n  BY <1>1, ItemsAreSeq
<1>6. Append(ItemsFrom(b, m, n), v)
        = [j \in 1 .. n + 1 |-> IF j <= n THEN ItemsFrom(b, m, n)[j] ELSE v]
  BY <1>5, AppendedSeq
<1>7. \A j \in 1 .. n + 1 : j <= n => ItemsFrom(b, m, n)[j] = b[(m + j - 1) % BUF_SIZE]
  BY DEF ItemsFrom
<1>8. ItemsFrom(c, m, n + 1)
        = [j \in 1 .. n + 1 |-> IF j <= n THEN b[(m + j - 1) % BUF_SIZE] ELSE v]
  BY <1>4 DEF ItemsFrom
<1>9. ItemsFrom(c, m, n + 1) = Append(ItemsFrom(b, m, n), v)  BY <1>6, <1>7, <1>8
<1>10. QED  BY <1>2, <1>9 DEF c

\* Advancing the first slot takes the head off.
LEMMA ReadTakes ==
    ASSUME NEW m \in Shm!Slots, NEW n \in Nat, n < BUF_SIZE, NEW b \in [Shm!Slots -> Int],
           NEW s \in Shm!Slots, s = (m + 1) % BUF_SIZE
    PROVE  /\ ItemsFrom(b, m, n + 1) \in Seq(Int) /\ ItemsFrom(b, m, n + 1) # <<>>
           /\ ItemsFrom(b, s, n) = Tail(ItemsFrom(b, m, n + 1))
           /\ b[m] = Head(ItemsFrom(b, m, n + 1))
           /\ (m + (n + 1)) % BUF_SIZE = (s + n) % BUF_SIZE
<1>1. BUF_SIZE \in Nat /\ m \in Nat /\ m < BUF_SIZE /\ s \in Nat /\ n + 1 <= BUF_SIZE
  BY ShmFacts DEF Shm!Slots
<1>2. ItemsFrom(b, m, n + 1) \in Seq(Int) /\ Len(ItemsFrom(b, m, n + 1)) = n + 1
  BY <1>1, ItemsAreSeq
<1>3. ItemsFrom(b, m, n + 1) # <<>>  BY <1>2
<1>4. b[m] = ItemsFrom(b, m, n + 1)[1]
  <2>1. m + 1 - 1 = m + 0  BY <1>1
  <2>2. (m + 0) % BUF_SIZE = m
    <3>1. 0 < BUF_SIZE /\ m + 0 = m  BY <1>1
    <3>2. (m + 0) % BUF_SIZE = IF m + 0 < BUF_SIZE THEN m + 0 ELSE m + 0 - BUF_SIZE
      BY <3>1, SlotOf
    <3>3. QED  BY <1>1, <3>1, <3>2
  <2>3. 1 \in 1 .. n + 1  BY <1>1
  <2>4. QED  BY <2>1, <2>2, <2>3 DEF ItemsFrom
<1>5. ASSUME NEW j \in 1 .. n
      PROVE  b[(s + j - 1) % BUF_SIZE] = ItemsFrom(b, m, n + 1)[j + 1]
  <2>1. PICK i \in Nat : i = j - 1 /\ i < BUF_SIZE  BY <1>1
  <2>2. s + j - 1 = s + i /\ m + (j + 1) - 1 = m + 1 + i /\ j + 1 \in 1 .. n + 1
    BY <1>1, <2>1
  <2>3. (s + i) % BUF_SIZE = (m + 1 + i) % BUF_SIZE  BY <2>1, AdvanceFirst
  <2>4. QED  BY <2>2, <2>3 DEF ItemsFrom
<1>6. Tail(ItemsFrom(b, m, n + 1)) = [j \in 1 .. n |-> ItemsFrom(b, m, n + 1)[j + 1]]
  <2>1. (n + 1) - 1 = n  BY <1>1
  <2>2. QED  BY SMTT(60), <1>2, <1>3, <2>1, HeadTailProperties
<1>7. ItemsFrom(b, s, n) = Tail(ItemsFrom(b, m, n + 1))  BY <1>5, <1>6 DEF ItemsFrom
<1>8. (m + (n + 1)) % BUF_SIZE = (s + n) % BUF_SIZE
  <2>1. m + (n + 1) = m + 1 + n  BY <1>1
  <2>2. (s + n) % BUF_SIZE = (m + 1 + n) % BUF_SIZE  BY AdvanceFirst
  <2>3. QED  BY <2>1, <2>2
<1>9. QED  BY <1>2, <1>3, <1>4, <1>7, <1>8

\* Moving the first item of t to the end of s leaves s \o t as it is.
LEMMA MoveFirst ==
    ASSUME NEW s \in Seq(Int), NEW t \in Seq(Int), t # <<>>
    PROVE  Append(s, Head(t)) \o Tail(t) = s \o t
<1>1. Head(t) \in Int /\ Head(t) = t[1]  BY HeadTailProperties
<1>2. Append(s, Head(t)) = s \o <<Head(t)>>  BY <1>1, AppendIsConcat
<1>3. <<Head(t)>> \o Tail(t) = t
  <2>1. /\ Tail(t) \in Seq(Int) /\ Len(Tail(t)) = Len(t) - 1
        /\ \A j \in 1 .. Len(Tail(t)) : Tail(t)[j] = t[j + 1]
    BY HeadTailProperties
  <2>2. <<Head(t)>> \in Seq(Int) /\ Len(<<Head(t)>>) = 1 /\ <<Head(t)>>[1] = Head(t)
    BY <1>1
  <2>3. /\ <<Head(t)>> \o Tail(t) \in Seq(Int)
        /\ Len(<<Head(t)>> \o Tail(t)) = 1 + (Len(t) - 1)
        /\ \A j \in 1 .. 1 + (Len(t) - 1) : (<<Head(t)>> \o Tail(t))[j] =
                IF j <= 1 THEN <<Head(t)>>[j] ELSE Tail(t)[j - 1]
    BY <2>1, <2>2, ConcatProperties
  <2>4. Len(t) \in Nat /\ Len(t) >= 1  BY LenProperties
  <2>5. ASSUME NEW j \in 1 .. Len(t) PROVE (<<Head(t)>> \o Tail(t))[j] = t[j]
    <3>1. CASE j = 1  BY <1>1, <2>2, <2>3, <2>4, <3>1
    <3>2. CASE j > 1
      <4>1. j - 1 \in 1 .. Len(Tail(t)) /\ (j - 1) + 1 = j  BY <2>1, <2>4, <3>2
      <4>2. QED  BY <2>1, <2>3, <2>4, <3>2, <4>1
    <3>3. QED  BY <2>4, <3>1, <3>2
  <2>6. Len(<<Head(t)>> \o Tail(t)) = Len(t)  BY <2>3, <2>4
  <2>7. QED  BY <2>3, <2>5, <2>6, SeqEqual
<1>4. <<Head(t)>> \in Seq(Int) /\ Tail(t) \in Seq(Int)  BY <1>1, HeadTailProperties
<1>5. (s \o <<Head(t)>>) \o Tail(t) = s \o (<<Head(t)>> \o Tail(t))
  BY <1>4, ConcatAssociative
<1>6. QED  BY <1>2, <1>3, <1>5

\* Appending to t appends to s \o t.
LEMMA AppendToSecond ==
    ASSUME NEW s \in Seq(Int), NEW t \in Seq(Int), NEW e \in Int
    PROVE  s \o Append(t, e) = Append(s \o t, e)
<1>1. s \o t \in Seq(Int) /\ <<e>> \in Seq(Int)  BY ConcatProperties
<1>2. Append(t, e) = t \o <<e>> /\ Append(s \o t, e) = (s \o t) \o <<e>>
  BY <1>1, AppendIsConcat
<1>3. QED  BY <1>1, <1>2, ConcatAssociative

\* A writer is alone in the critical section: the indices are where they seem.
LEMMA AloneInside ==
    ASSUME Shm!ShmInv, NEW q \in Shm!Processes, shm_pc[q] \in {"write", "read"}
    PROVE  /\ Shm!FirstSlot = shm.front /\ Shm!NextSlot = shm.rear
           /\ \A r \in Shm!Processes : shm_pc[r] # "advance"
<1>1. \A r \in Shm!Processes : shm_pc[r] # "advance"  BY DEF Shm!ShmInv, Shm!OneInside
<1>2. QED  BY <1>1, ShmFacts DEF Shm!FirstSlot, Shm!NextSlot

\* The item goes into the slot after the last and so to the end of the queue.
LEMMA WriteSlotAppends ==
    ASSUME Shm!ShmInv, Shm!Ready, NEW p \in Producers, Shm!WriteSlot(p)
    PROVE  /\ Shm!ShmInv'
           /\ Shm!Contents \in Seq(Int) /\ Len(Shm!Contents) < BUF_SIZE
           /\ Shm!Contents' = Append(Shm!Contents, Shm!Item(p, sent[p] + 1))
<1>1. /\ p \in alive /\ shm_pc[p] = "write" /\ shm_pc' = [shm_pc EXCEPT ![p] = "advance"]
      /\ shm' = [shm EXCEPT !.buf[shm.rear] = Shm!Item(p, sent[p] + 1)]
      /\ sent' = [sent EXCEPT ![p] = @ + 1]
      /\ accepted' = Append(accepted, Shm!Item(p, sent[p] + 1))
      /\ alive' = alive /\ name' = name /\ received' = received
  BY DEF Shm!WriteSlot, Shm!Step
<1>2. ShmType /\ p \in Shm!Processes /\ p # Shm!Consumer
  BY TypeWeakens, ShmFacts DEF Shm!ShmInv
<1>3. sent[p] \in Nat /\ sent[p] < MaxItems /\ sent[p] + 1 \in 0 .. MaxItems
  <2>1. sent[p] \in 0 .. MaxItems /\ sent[p] < MaxItems
    BY <1>1, <1>2 DEF Shm!ShmInv, Shm!Places, ShmType
  <2>2. QED  BY <2>1, ShmFacts
<1>4. PICK v \in Int : v = Shm!Item(p, sent[p] + 1)
  <2>1. PICK k \in Nat : k = sent[p] + 1  BY <1>3
  <2>2. p \in Nat /\ MaxItems \in Nat  BY ShmFacts
  <2>3. p * MaxItems \in Nat  BY <2>2
  <2>4. p * MaxItems + k \in Int  BY <2>1, <2>3
  <2>5. QED  BY <2>1, <2>4 DEF Shm!Item
<1>5. PICK a \in Nat, c \in Nat, n \in Nat :
        /\ a = Len(accepted) /\ c = Len(received) /\ n = a - c /\ n < BUF_SIZE
        /\ n = Len(accepted) - Len(received) /\ n <= BUF_SIZE
  BY <1>1, QueueBounds
<1>6. PICK m \in Shm!Slots, r \in Shm!Slots, b \in [Shm!Slots -> Int] :
        m = shm.front /\ r = shm.rear /\ b = shm.buf
  BY <1>2 DEF ShmType
<1>7. Shm!FirstSlot = m /\ Shm!NextSlot = r /\ \A q \in Shm!Processes : shm_pc[q] # "advance"
  BY <1>1, <1>2, <1>6, AloneInside
<1>8. r = (m + n) % BUF_SIZE  BY <1>5, <1>7 DEF Shm!ShmInv, Shm!RingInv
<1>9. /\ \A q \in Shm!Processes : q # p => shm_pc'[q] = shm_pc[q]
      /\ shm_pc'[p] = "advance" /\ shm_pc' = [q \in Shm!Processes |-> shm_pc'[q]]
  BY <1>1, <1>2 DEF ShmType
<1>10. /\ shm'.front = m /\ shm'.rear = r /\ shm'.buf = [b EXCEPT ![r] = v]
       /\ shm'.filledbuf_count = shm.filledbuf_count
       /\ shm'.emptybuf_count = shm.emptybuf_count /\ shm'.mutex = shm.mutex
       /\ shm' \in [sized : BOOLEAN, filledbuf_count : Nat, emptybuf_count : Nat, mutex : Nat,
                    front : Shm!Slots, rear : Shm!Slots, buf : [Shm!Slots -> Int]]
  BY <1>1, <1>2, <1>4, <1>6 DEF ShmType
<1>11. accepted \in Seq(Int) /\ received \in Seq(Int) /\ accepted' \in Seq(Int)
       /\ Len(accepted') = a + 1
  BY <1>1, <1>2, <1>4, <1>5, AppendProperties DEF ShmType
<1>12. Shm!Contents = ItemsFrom(b, m, n)
  <2>1. Shm!Contents = [j \in 1 .. n |-> shm.buf[(Shm!FirstSlot + j - 1) % BUF_SIZE]]
    BY Zenon, <1>5, <1>6, ContentsFromFirst
  <2>2. QED  BY Zenon, <1>6, <1>7, <2>1 DEF ItemsFrom
<1>13. Shm!FirstSlot' = m /\ Shm!NextSlot' = (r + 1) % BUF_SIZE
  BY <1>2, <1>7, <1>9, <1>10, ShmFacts DEF Shm!FirstSlot, Shm!NextSlot, Shm!Consumer
<1>14. Shm!Contents' = ItemsFrom([b EXCEPT ![r] = v], m, n + 1)
  <2>1. Len(accepted') - Len(received') = n + 1 /\ n + 1 \in Nat /\ n + 1 <= BUF_SIZE
    BY <1>1, <1>5, <1>11, ShmFacts
  <2>2. QED  BY <1>10, <1>13, <2>1, ContentsFromFirst DEF ItemsFrom
<1>15. /\ ItemsFrom([b EXCEPT ![r] = v], m, n + 1) = Append(ItemsFrom(b, m, n), v)
       /\ (r + 1) % BUF_SIZE = (m + (n + 1)) % BUF_SIZE
  <2>1. n < BUF_SIZE  BY <1>5
  <2>2. (r + 1) % BUF_SIZE = (m + (n + 1)) % BUF_SIZE
    BY Zenon, <1>8, <2>1, WriteAppends
  <2>3. ItemsFrom([b EXCEPT ![r] = v], m, n + 1) = Append(ItemsFrom(b, m, n), v)
    BY Zenon, <1>8, <2>1, WriteAppends
  <2>4. QED  BY <2>2, <2>3
<1>16. Shm!Contents \in Seq(Int) /\ Len(Shm!Contents) = n
  BY Zenon, <1>5, <1>12, ItemsAreSeq
<1>17. Shm!RingInv'
  <2>1. accepted' = Append(received \o Shm!Contents, v)
    BY Zenon, <1>1, <1>4 DEF Shm!ShmInv, Shm!RingInv
  <2>2. accepted' = received' \o Shm!Contents'
    <3>1. Shm!Contents' = Append(Shm!Contents, v)  BY Zenon, <1>12, <1>14, <1>15
    <3>2. received \o Append(Shm!Contents, v) = Append(received \o Shm!Contents, v)
      BY Zenon, <1>11, <1>16, AppendToSecond
    <3>3. QED  BY Zenon, <1>1, <2>1, <3>1, <3>2
  <2>3. Len(accepted') - Len(received') = n + 1  BY <1>1, <1>5, <1>11
  <2>4. QED  BY <1>13, <1>15, <2>2, <2>3 DEF Shm!RingInv
<1>18. ShmType'
  <2>1. sent' \in [Producers -> 0 .. MaxItems]  BY <1>1, <1>2, <1>3 DEF ShmType
  <2>2. QED  BY <1>1, <1>2, <1>9, <1>10, <1>11, <2>1 DEF ShmType
<1>19. Shm!Ready' /\ Shm!Places'
  <2>1. Shm!Ready' /\ shm_pc'[Shm!Consumer] = shm_pc[Shm!Consumer]
    BY <1>2, <1>9, ShmFacts DEF Shm!Ready
  <2>2. \A q \in Producers : q # p => shm_pc'[q] = shm_pc[q] /\ sent'[q] = sent[q]
    BY <1>1, <1>2, <1>9, ShmFacts DEF ShmType
  <2>3. QED  BY <1>9, <2>1, <2>2 DEF Shm!Places, Shm!ShmInv
<1>20. Balanced(p)
  <2>1. /\ In(p, InHands) = 1 /\ In(p, InHands') = 1 /\ In(p, Inside) = 1 /\ In(p, Inside') = 1
        /\ In(p, Shm!HoldingItem) = 0 /\ In(p, Shm!HoldingItem') = 1
    BY <1>1, <1>2, <1>9 DEF In, InHands, Inside, Shm!HoldingItem
  <2>2. PICK f \in Nat : f = shm.filledbuf_count  BY <1>2 DEF ShmType
  <2>3. f - (a + 1 - c) + 1 = f - (a - c) + 0  BY <1>5
  <2>4. QED  BY <1>1, <1>5, <1>10, <1>11, <2>1, <2>2, <2>3 DEF Balanced
<1>21. QED
  BY <1>2, <1>4, <1>5, <1>9, <1>12, <1>14, <1>15, <1>16, <1>17, <1>18, <1>19, <1>20,
     BalanceKept DEF Shm!ShmInv

\* The consumer reads the head of the queue and takes it off.
LEMMA ReadSlotTakes ==
    ASSUME Shm!ShmInv, Shm!ReadSlot
    PROVE  /\ Shm!ShmInv'
           /\ Shm!Contents \in Seq(Int) /\ Shm!Contents # <<>>
           /\ Shm!Contents' = Tail(Shm!Contents)
           /\ received' = Append(received, Head(Shm!Contents))
<1>1. /\ shm_pc[Shm!Consumer] = "read" /\ shm_pc' = [shm_pc EXCEPT ![Shm!Consumer] = "advance"]
      /\ received' = Append(received, shm.buf[shm.front])
      /\ alive' = alive /\ name' = name /\ shm' = shm /\ sent' = sent /\ accepted' = accepted
  BY DEF Shm!ReadSlot, Shm!Step
<1>2. ShmType /\ Shm!Consumer \in Shm!Processes /\ Shm!Consumer \notin Producers
  BY TypeWeakens, ShmFacts DEF Shm!ShmInv
<1>3. PICK a \in Nat, c \in Nat, d \in Nat :
        /\ a = Len(accepted) /\ c = Len(received) /\ d = a - c /\ d <= BUF_SIZE /\ d > 0
        /\ d = Len(accepted) - Len(received)
  BY <1>1, QueueBounds
<1>4. PICK n \in Nat : d = n + 1 /\ n < BUF_SIZE
  <2>1. d - 1 \in Nat /\ d = (d - 1) + 1 /\ d - 1 < BUF_SIZE  BY <1>3, ShmFacts
  <2>2. QED  BY <2>1
<1>5. PICK m \in Shm!Slots, b \in [Shm!Slots -> Int] : m = shm.front /\ b = shm.buf
  BY <1>2 DEF ShmType
<1>6. Shm!FirstSlot = m  BY <1>1, <1>2, <1>5, AloneInside
<1>7. PICK s \in Shm!Slots : s = (m + 1) % BUF_SIZE
  <2>1. PICK x \in Nat : x = m + 1 /\ x < 2 * BUF_SIZE  BY ShmFacts DEF Shm!Slots
  <2>2. x % BUF_SIZE \in Shm!Slots  BY <2>1, RoundOnce
  <2>3. QED  BY <2>1, <2>2
<1>8. /\ \A q \in Shm!Processes : q # Shm!Consumer => shm_pc'[q] = shm_pc[q]
      /\ shm_pc'[Shm!Consumer] = "advance" /\ shm_pc' = [q \in Shm!Processes |-> shm_pc'[q]]
  BY <1>1, <1>2 DEF ShmType
<1>9. Shm!FirstSlot' = s
  BY <1>1, <1>5, <1>7, <1>8 DEF Shm!FirstSlot, Shm!Consumer
<1>10. Shm!NextSlot' = Shm!NextSlot
  <2>1. \A p \in Producers : shm_pc'[p] = shm_pc[p]  BY <1>2, <1>8, ShmFacts
  <2>2. QED  BY <1>1, <2>1 DEF Shm!NextSlot
<1>11. Shm!Contents = ItemsFrom(b, m, n + 1)
  <2>1. Shm!Contents = [j \in 1 .. d |-> shm.buf[(Shm!FirstSlot + j - 1) % BUF_SIZE]]
    BY Zenon, <1>3, <1>5, ContentsFromFirst
  <2>2. QED  BY Zenon, <1>4, <1>5, <1>6, <2>1 DEF ItemsFrom
<1>12. /\ ItemsFrom(b, m, n + 1) \in Seq(Int) /\ ItemsFrom(b, m, n + 1) # <<>>
       /\ ItemsFrom(b, s, n) = Tail(ItemsFrom(b, m, n + 1))
       /\ b[m] = Head(ItemsFrom(b, m, n + 1))
       /\ (m + (n + 1)) % BUF_SIZE = (s + n) % BUF_SIZE
  BY Zenon, <1>4, <1>7, ReadTakes
<1>13. received' = Append(received, Head(Shm!Contents))  BY Zenon, <1>1, <1>5, <1>11, <1>12
<1>14. b[m] \in Int  OBVIOUS
<1>15. accepted' \in Seq(Int) /\ received' \in Seq(Int) /\ Len(received') = c + 1
  BY <1>1, <1>2, <1>3, <1>5, <1>14, AppendProperties DEF ShmType
<1>16. /\ Len(accepted') - Len(received') = n /\ n \in Nat /\ n <= BUF_SIZE
       /\ Len(accepted') - Len(received') \in Nat /\ Len(accepted') - Len(received') <= BUF_SIZE
  <2>1. Len(accepted') = a /\ Len(received') = c + 1  BY <1>1, <1>3, <1>15
  <2>2. a - (c + 1) = n /\ n <= BUF_SIZE  BY <1>3, <1>4, ShmFacts
  <2>3. QED  BY <2>1, <2>2
<1>17. Shm!Contents' = ItemsFrom(b, s, n)
  <2>1. Shm!Contents' = [j \in 1 .. n |-> shm'.buf[(Shm!FirstSlot' + j - 1) % BUF_SIZE]]
    BY Zenon, <1>1, <1>5, <1>16, ContentsFromFirst
  <2>2. QED  BY Zenon, <1>1, <1>5, <1>9, <2>1 DEF ItemsFrom
<1>18. Shm!Contents' = Tail(Shm!Contents)  BY Zenon, <1>11, <1>12, <1>17
<1>19. Shm!RingInv'
  <2>1. Shm!NextSlot = (m + d) % BUF_SIZE /\ accepted = received \o Shm!Contents
    BY Zenon, <1>3, <1>6 DEF Shm!ShmInv, Shm!RingInv
  <2>2. Shm!NextSlot' = (Shm!FirstSlot' + (Len(accepted') - Len(received'))) % BUF_SIZE
    BY Zenon, <1>4, <1>9, <1>10, <1>12, <1>16, <2>1
  <2>3. Append(received, Head(Shm!Contents)) \o Tail(Shm!Contents) = received \o Shm!Contents
    BY Zenon, <1>2, <1>11, <1>12, MoveFirst DEF ShmType
  <2>4. QED  BY Zenon, <1>1, <1>13, <1>18, <2>1, <2>2, <2>3 DEF Shm!RingInv
<1>20. ShmType'  BY <1>1, <1>2, <1>8, <1>15 DEF ShmType
<1>21. Shm!Ready /\ Shm!Ready' /\ Shm!Places'
  <2>1. Shm!Ready /\ Shm!Ready'
    BY <1>1, <1>8 DEF Shm!Ready, Shm!Initialising, Shm!Consumer
  <2>2. \A q \in Producers : shm_pc'[q] = shm_pc[q]  BY <1>2, <1>8, ShmFacts
  <2>3. QED  BY <1>1, <1>8, <2>1, <2>2 DEF Shm!Places, Shm!ShmInv, Shm!Consumer
<1>22. Balanced(Shm!Consumer)
  <2>1. /\ In(Shm!Consumer, InHands) = 1 /\ In(Shm!Consumer, InHands') = 1
        /\ In(Shm!Consumer, Inside) = 1 /\ In(Shm!Consumer, Inside') = 1
        /\ In(Shm!Consumer, Shm!HoldingItem) = 1 /\ In(Shm!Consumer, Shm!HoldingItem') = 0
    BY <1>1, <1>2, <1>8 DEF In, InHands, Inside, Shm!HoldingItem, Shm!Consumer
  <2>2. PICK f \in Nat : f = shm.filledbuf_count  BY <1>2 DEF ShmType
  <2>3. f - n + 0 = f - d + 1  BY <1>4
  <2>4. QED  BY <1>1, <1>3, <1>16, <2>1, <2>2, <2>3 DEF Balanced
<1>23. Shm!ShmInv'
  BY <1>2, <1>8, <1>19, <1>20, <1>21, <1>22, BalanceKept DEF Shm!ShmInv
<1>24. QED  BY Zenon, <1>11, <1>12, <1>13, <1>18, <1>23

------------------------------------------------------------------------------
(* Before the consumer is ready *)

\* Nobody is inside, and nobody has an item or a slot.
LEMMA NobodyYet ==
    ASSUME Shm!Places
    PROVE  ~Shm!Ready => /\ InHands = {} /\ Inside = {} /\ Shm!HoldingItem = {}
  BY ShmFacts DEF Shm!Places, Shm!Ready, Shm!Initialising, InHands, Inside, Shm!HoldingItem

\* While the object is being made, what has its type and is as SettingUp says
\* is all of the invariant.
LEMMA NotReadyShm == ShmType /\ Shm!Places /\ Shm!SettingUp /\ ~Shm!Ready => Shm!ShmInv
<1> SUFFICES ASSUME ShmType, Shm!Places, Shm!SettingUp, ~Shm!Ready PROVE Shm!ShmInv
  OBVIOUS
<1>1. accepted = <<>> /\ received = <<>> /\ shm.filledbuf_count = 0
      /\ shm.front = 0 /\ shm.rear = 0
      /\ shm.emptybuf_count \in {0, BUF_SIZE} /\ shm.mutex \in {0, 1}
  BY DEF Shm!SettingUp
<1>2. InHands = {} /\ Inside = {} /\ Shm!HoldingItem = {}  BY NobodyYet
<1>3. Cardinality({}) = 0  BY FS_EmptySet
<1>4. Shm!TypeOK
  <2>1. shm \in [sized : BOOLEAN, filledbuf_count : 0 .. BUF_SIZE,
                 emptybuf_count : 0 .. BUF_SIZE, mutex : 0 .. 1,
                 front : Shm!Slots, rear : Shm!Slots, buf : [Shm!Slots -> Int]]
    BY <1>1, ShmFacts DEF ShmType
  <2>2. \A r \in Shm!Processes :
           shm_pc[r] \in Shm!Initialising \cup
               {"input", "waitempty", "waitfilled", "waitmutex", "write", "read",
                "advance", "postmutex", "postfilled", "postempty", "exit"}
    BY ShmFacts DEF Shm!Places, Shm!Initialising
  <2>3. QED  BY <2>1, <2>2 DEF Shm!TypeOK, ShmType
<1>5. Shm!SlotsConserved  BY SlotsOfSets
<1>6. Len(accepted) = 0 /\ Len(received) = 0  BY <1>1
<1>7. Shm!ItemsCounted
  <2>1. Cardinality(Shm!HoldingItem) = 0  BY <1>2, <1>3
  <2>2. QED  BY <1>1, <1>6, <2>1, ShmCardinality DEF Shm!ItemsCounted
<1>8. Shm!OneInside  BY <1>2 DEF Shm!OneInside, Inside
<1>9. Shm!RingInv
  <2>1. Shm!FirstSlot = 0 /\ Shm!NextSlot = 0
    BY <1>1, <1>2, ShmFacts DEF Shm!FirstSlot, Shm!NextSlot, Inside
  <2>2. Len(accepted) - Len(received) = 0  BY <1>6
  <2>3. 0 % BUF_SIZE = 0  BY RoundOnce, ShmFacts
  <2>4. Shm!Contents = <<>>  BY <2>2 DEF Shm!Contents
  <2>5. <<>> \o <<>> = <<>>  OBVIOUS
  <2>6. Shm!NextSlot = (Shm!FirstSlot + (Len(accepted) - Len(received))) % BUF_SIZE
    BY <2>1, <2>2, <2>3
  <2>7. QED  BY <1>1, <2>4, <2>5, <2>6 DEF Shm!RingInv
<1>10. QED  BY <1>4, <1>5, <1>7, <1>8, <1>9 DEF Shm!ShmInv

\* The same of the next state.
LEMMA NotReadyShmNext ==
    ShmType' /\ Shm!Places' /\ Shm!SettingUp' /\ ~Shm!Ready' => Shm!ShmInv'
  BY NotReadyShm, PTL

\* The consumer makes the object and initialises what is in it; with the last
\* step of INITSEM all the slots are free and the ring is empty.
LEMMA SetUpKeeps ==
    ASSUME Shm!ShmInv, Shm!SetUp \/ Shm!INITSEM
    PROVE  Shm!ShmInv' /\ accepted' = accepted /\ received' = received /\ sent' = sent
<1> DEFINE c == Shm!Consumer
<1>1. /\ sent' = sent /\ accepted' = accepted /\ received' = received
      /\ name' \in BOOLEAN /\ alive' = alive
      /\ \/ /\ shm_pc[c] = "start" /\ shm_pc' = [shm_pc EXCEPT ![c] = "opened"] /\ shm' = shm
         \/ /\ shm_pc[c] = "opened" /\ shm_pc' = [shm_pc EXCEPT ![c] = "sized"]
            /\ shm' = [shm EXCEPT !.sized = TRUE]
         \/ /\ shm_pc[c] = "sized" /\ shm_pc' = [shm_pc EXCEPT ![c] = "handlers"] /\ shm' = shm
         \/ /\ shm_pc[c] = "handlers" /\ shm_pc' = [shm_pc EXCEPT ![c] = "filled"]
            /\ shm' = [shm EXCEPT !.filledbuf_count = 0]
         \/ /\ shm_pc[c] = "filled" /\ shm_pc' = [shm_pc EXCEPT ![c] = "empty"]
            /\ shm' = [shm EXCEPT !.emptybuf_count = BUF_SIZE]
         \/ /\ shm_pc[c] = "empty" /\ shm_pc' = [shm_pc EXCEPT ![c] = "mutex"]
            /\ shm' = [shm EXCEPT !.mutex = 1]
         \/ /\ shm_pc[c] = "mutex" /\ shm_pc' = [shm_pc EXCEPT ![c] = "front"]
            /\ shm' = [shm EXCEPT !.front = 0]
         \/ /\ shm_pc[c] = "front" /\ shm_pc' = [shm_pc EXCEPT ![c] = "waitfilled"]
            /\ shm' = [shm EXCEPT !.rear = 0]
  BY DEF Shm!SetUp, Shm!INITSEM, Shm!Assign, Shm!Step, Shm!history, Shm!ShmInv, Shm!TypeOK
<1>2. ShmType /\ c \in Shm!Processes /\ c \notin Producers
  BY TypeWeakens, ShmFacts DEF Shm!ShmInv
<1>3. ~Shm!Ready  BY <1>1 DEF Shm!Ready, Shm!Initialising
<1>4. /\ accepted = <<>> /\ received = <<>>
      /\ shm.filledbuf_count = 0 /\ shm.front = 0 /\ shm.rear = 0
      /\ shm.emptybuf_count = IF shm_pc[c] \in {"empty", "mutex", "front"} THEN BUF_SIZE ELSE 0
      /\ shm.mutex = IF shm_pc[c] \in {"mutex", "front"} THEN 1 ELSE 0
  BY <1>3 DEF Shm!ShmInv, Shm!SettingUp
<1> HIDE DEF c
<1>5. /\ \A r \in Shm!Processes : r # c => shm_pc'[r] = shm_pc[r]
      /\ shm_pc' = [q \in Shm!Processes |-> shm_pc'[q]]
  BY <1>1, <1>2 DEF ShmType
<1>6. \A p \in Producers : shm_pc'[p] = shm_pc[p] /\ shm_pc[p] \in {"start", "exit"}
  BY <1>2, <1>3, <1>5, ShmFacts DEF Shm!ShmInv, Shm!Places
<1>7. /\ shm_pc[c] \in Shm!Initialising
      /\ shm_pc'[c] \in Shm!Initialising \cup {"waitfilled"}
      /\ shm_pc'[c] = "waitfilled" => shm_pc[c] = "front"
      /\ shm_pc'[c] # "waitfilled" => shm_pc'[c] \in Shm!Initialising
  BY <1>1, <1>2 DEF Shm!Initialising, ShmType
<1>8. /\ shm'.filledbuf_count = 0 /\ shm'.front = 0 /\ shm'.rear = 0
      /\ shm'.emptybuf_count = IF shm_pc'[c] \in {"empty", "mutex", "front", "waitfilled"}
                               THEN BUF_SIZE ELSE 0
      /\ shm'.mutex = IF shm_pc'[c] \in {"mutex", "front", "waitfilled"} THEN 1 ELSE 0
      /\ shm' \in [sized : BOOLEAN, filledbuf_count : Nat, emptybuf_count : Nat, mutex : Nat,
                   front : Shm!Slots, rear : Shm!Slots, buf : [Shm!Slots -> Int]]
  <2>1. 0 \in Shm!Slots /\ BUF_SIZE \in Nat  BY ShmFacts DEF Shm!Slots
  <2>3. shm' \in [sized : BOOLEAN, filledbuf_count : Nat, emptybuf_count : Nat, mutex : Nat,
                  front : Shm!Slots, rear : Shm!Slots, buf : [Shm!Slots -> Int]]
    <3>1. \/ shm' = shm
          \/ shm' = [shm EXCEPT !.sized = TRUE]
          \/ shm' = [shm EXCEPT !.filledbuf_count = 0]
          \/ shm' = [shm EXCEPT !.emptybuf_count = BUF_SIZE]
          \/ shm' = [shm EXCEPT !.mutex = 1]
          \/ shm' = [shm EXCEPT !.front = 0]
          \/ shm' = [shm EXCEPT !.rear = 0]
      BY Zenon, <1>1
    <3>2. 0 \in Nat /\ 1 \in Nat /\ TRUE \in BOOLEAN  OBVIOUS
    <3>3. QED  BY Zenon, <1>2, <2>1, <3>1, <3>2 DEF ShmType
  <2>4. shm'.filledbuf_count = 0 /\ shm'.front = 0 /\ shm'.rear = 0
    BY <1>1, <1>2, <1>4 DEF ShmType
  <2>5. shm'.emptybuf_count = IF shm_pc'[c] \in {"empty", "mutex", "front", "waitfilled"}
                              THEN BUF_SIZE ELSE 0
    BY <1>1, <1>2, <1>4 DEF ShmType
  <2>6. shm'.mutex = IF shm_pc'[c] \in {"mutex", "front", "waitfilled"} THEN 1 ELSE 0
    BY <1>1, <1>2, <1>4 DEF ShmType
  <2>7. QED  BY <2>3, <2>4, <2>5, <2>6
<1>9. ShmType'  BY <1>1, <1>2, <1>5, <1>8 DEF ShmType
<1>10. Shm!Places'  BY <1>6, <1>7 DEF Shm!Places, c
<1>11. CASE shm_pc'[c] # "waitfilled"
  <2>1. ~Shm!Ready'  BY <1>7, <1>11 DEF Shm!Ready, c
  <2>2. Shm!SettingUp'  BY <1>1, <1>4, <1>8, <1>11 DEF Shm!SettingUp, c
  <2>3. QED  BY <1>1, <1>9, <1>10, <2>1, <2>2, NotReadyShmNext
<1>12. CASE shm_pc'[c] = "waitfilled"
  <2>1. Shm!Ready'  BY <1>12 DEF Shm!Ready, Shm!Initialising, c
  <2>2. InHands' = {} /\ Inside' = {} /\ Shm!HoldingItem' = {}
    BY <1>6, <1>12, ShmFacts DEF InHands, Inside, Shm!HoldingItem, Shm!Consumer, Shm!Processes, c
  <2>3. Cardinality({}) = 0  BY FS_EmptySet
  <2>4. /\ Cardinality(InHands') = 0 /\ Cardinality(Inside') = 0
        /\ Cardinality(Shm!HoldingItem') = 0
    BY <2>2, <2>3
  <2>5. shm'.emptybuf_count = BUF_SIZE /\ shm'.mutex = 1  BY <1>8, <1>12
  <2>6. 0 + BUF_SIZE + 0 = BUF_SIZE /\ 1 + 0 = 1  BY ShmFacts
  <2>7. Shm!SlotsConserved'  BY <1>8, <2>4, <2>5, <2>6, SlotsOfSets
  <2>8. Shm!TypeOK'
    <3>1. shm' \in [sized : BOOLEAN, filledbuf_count : 0 .. BUF_SIZE,
                    emptybuf_count : 0 .. BUF_SIZE, mutex : 0 .. 1,
                    front : Shm!Slots, rear : Shm!Slots, buf : [Shm!Slots -> Int]]
      BY <1>8, <2>5, ShmFacts
    <3>2. \A r \in Shm!Processes :
             shm_pc'[r] \in Shm!Initialising \cup
                 {"input", "waitempty", "waitfilled", "waitmutex", "write", "read",
                  "advance", "postmutex", "postfilled", "postempty", "exit"}
      BY <1>6, <1>12, ShmFacts DEF Shm!Initialising, c
    <3>3. QED  BY <1>9, <3>1, <3>2 DEF Shm!TypeOK, ShmType
  <2>9. Shm!SettingUp'  BY <2>1 DEF Shm!SettingUp
  <2>10. Len(accepted') = 0 /\ Len(received') = 0  BY <1>1, <1>4
  <2>11. Shm!ItemsCounted'
    BY <1>8, <2>4, <2>10, ShmCardinality DEF Shm!ItemsCounted
  <2>12. Shm!OneInside'  BY <2>2 DEF Shm!OneInside, Inside
  <2>13. Shm!RingInv'
    <3>1. Shm!FirstSlot' = 0 /\ Shm!NextSlot' = 0
      BY <1>6, <1>8, <1>12 DEF Shm!FirstSlot, Shm!NextSlot, c
    <3>2. Len(accepted') - Len(received') = 0  BY <2>10
    <3>3. 0 % BUF_SIZE = 0  BY RoundOnce, ShmFacts
    <3>4. Shm!Contents' = <<>>  BY <3>2 DEF Shm!Contents
    <3>5. <<>> \o <<>> = <<>>  OBVIOUS
    <3>6. Shm!NextSlot' = (Shm!FirstSlot' + (Len(accepted') - Len(received'))) % BUF_SIZE
      BY <3>1, <3>2, <3>3
    <3>7. QED  BY <1>1, <1>4, <3>4, <3>5, <3>6 DEF Shm!RingInv
  <2>14. QED
    BY <1>1, <1>10, <2>7, <2>8, <2>9, <2>11, <2>12, <2>13 DEF Shm!ShmInv
<1>13. QED  BY <1>11, <1>12

------------------------------------------------------------------------------
(* All the steps *)

\* One step of the programs, where a producer attaches when the consumer is
\* ready: the invariant is kept, and a number enters or leaves the ring in
\* WriteSlot and ReadSlot only.
LEMMA ShmNext ==
    ASSUME ~AttachEarly, Shm!ShmInv, Shm!Next
    PROVE  /\ Shm!ShmInv'
           /\ \/ \E p \in Producers : Shm!WriteSlot(p) /\ Shm!Ready
              \/ Shm!ReadSlot
              \/ sent' = sent /\ accepted' = accepted /\ received' = received
<1>1. ASSUME NEW p \in Producers, Shm!Producer(p), ~Shm!Ready
      PROVE  Shm!ShmInv' /\ sent' = sent /\ accepted' = accepted /\ received' = received
  <2>1. shm_pc[p] \in {"start", "exit"}  BY <1>1 DEF Shm!ShmInv, Shm!Places
  <2>2. /\ shm_pc[p] = "start" /\ shm_pc' = [shm_pc EXCEPT ![p] = "exit"]
        /\ alive' = alive \ {p} /\ name' = name /\ shm' = shm
        /\ sent' = sent /\ accepted' = accepted /\ received' = received
    BY <1>1, <2>1 DEF Shm!Producer, Shm!Attach, Shm!ReadInput, Shm!add_next, Shm!WAIT,
       Shm!WriteSlot, Shm!AdvanceRear, Shm!POST, Shm!Assign, Shm!Step, Shm!history, Shm!Ready
  <2>3. ShmType /\ p \in Shm!Processes /\ p # Shm!Consumer /\ Shm!Consumer \in Shm!Processes
    BY TypeWeakens, ShmFacts DEF Shm!ShmInv
  <2>4. /\ \A r \in Shm!Processes : r # p => shm_pc'[r] = shm_pc[r]
        /\ shm_pc'[p] = "exit" /\ shm_pc' = [q \in Shm!Processes |-> shm_pc'[q]]
    BY <2>2, <2>3 DEF ShmType
  <2>5. ShmType'  BY <2>2, <2>3, <2>4 DEF ShmType
  <2>6. ~Shm!Ready'  BY <1>1, <2>3, <2>4 DEF Shm!Ready
  <2>7. Shm!SettingUp'
    BY <1>1, <2>2, <2>3, <2>4 DEF Shm!SettingUp, Shm!ShmInv
  <2>8. Shm!Places'
    BY <1>1, <2>2, <2>3, <2>4, <2>6, ShmFacts DEF Shm!Places, Shm!ShmInv
  <2>9. QED  BY <2>2, <2>5, <2>6, <2>7, <2>8, NotReadyShmNext
<1>2. ASSUME NEW p \in Producers, Shm!Producer(p), Shm!Ready
      PROVE  /\ Shm!ShmInv'
             /\ \/ Shm!WriteSlot(p)
                \/ sent' = sent /\ accepted' = accepted /\ received' = received
  <2>1. CASE Shm!Attach(p) \/ Shm!ReadInput(p)
    <3>1. Shm!ShmInv'  BY <1>2, <2>1, AtHome
    <3>2. QED  BY <2>1, <3>1 DEF Shm!Attach, Shm!ReadInput, Shm!history
  <2>2. CASE Shm!WriteSlot(p)  BY <1>2, <2>2, WriteSlotAppends
  <2>3. CASE \/ Shm!WAIT(p, "emptybuf_count", "waitempty", "waitmutex")
             \/ Shm!WAIT(p, "mutex", "waitmutex", "write")
             \/ Shm!AdvanceRear(p)
             \/ Shm!POST(p, "mutex", "postmutex", "postfilled")
             \/ Shm!POST(p, "filledbuf_count", "postfilled", "input")
    <3>1. Shm!ShmInv'  BY <1>2, <2>3, ProducerSemaphores
    <3>2. QED  BY <2>3, <3>1 DEF Shm!WAIT, Shm!POST, Shm!AdvanceRear, Shm!Assign, Shm!history
  <2>4. QED  BY Zenon, <1>2, <2>1, <2>2, <2>3 DEF Shm!Producer, Shm!add_next
<1>3. ASSUME Shm!ConsumerStep
      PROVE  /\ Shm!ShmInv'
             /\ \/ Shm!ReadSlot
                \/ sent' = sent /\ accepted' = accepted /\ received' = received
  <2>1. CASE Shm!SetUp \/ Shm!INITSEM  BY <2>1, SetUpKeeps
  <2>2. CASE Shm!ReadSlot  BY <2>2, ReadSlotTakes
  <2>3. CASE \/ Shm!WAIT(Shm!Consumer, "filledbuf_count", "waitfilled", "waitmutex")
             \/ Shm!WAIT(Shm!Consumer, "mutex", "waitmutex", "read")
             \/ Shm!Assign(Shm!Consumer, "front", (shm.front + 1) % BUF_SIZE,
                           "advance", "postmutex")
             \/ Shm!POST(Shm!Consumer, "mutex", "postmutex", "postempty")
             \/ Shm!POST(Shm!Consumer, "emptybuf_count", "postempty", "waitfilled")
    <3>1. Shm!ShmInv'  BY <2>3, ConsumerSemaphores
    <3>2. QED  BY <2>3, <3>1 DEF Shm!WAIT, Shm!POST, Shm!Assign, Shm!history
  <2>4. QED  BY Zenon, <1>3, <2>1, <2>2, <2>3 DEF Shm!ConsumerStep, Shm!get_next
<1>4. ASSUME NEW q \in Shm!Processes, Shm!Kill(q)
      PROVE  Shm!ShmInv' /\ sent' = sent /\ accepted' = accepted /\ received' = received
  <2>1. Shm!ShmInv'  BY <1>4, KillKeeps
  <2>2. QED  BY <1>4, <2>1 DEF Shm!Kill, Shm!history
<1>5. QED  BY Zenon, <1>1, <1>2, <1>3, <1>4 DEF Shm!Next

\* At first there is no object and the consumer has everything to set up.
LEMMA ShmStart == ASSUME Shm!Init PROVE Shm!ShmInv
<1>1. shm_pc = [q \in Shm!Processes |-> "start"] /\ alive = Shm!Processes /\ name = FALSE
      /\ shm = [sized |-> FALSE, filledbuf_count |-> 0, emptybuf_count |-> 0,
                mutex |-> 0, front |-> 0, rear |-> 0, buf |-> [s \in Shm!Slots |-> 0]]
      /\ sent = [p \in Producers |-> 0] /\ accepted = <<>> /\ received = <<>>
  BY DEF Shm!Init
<1>2. ~Shm!Ready  BY <1>1, ShmFacts DEF Shm!Ready, Shm!Initialising
<1>3. ShmType
  <2>1. 0 \in Shm!Slots /\ 0 \in 0 .. MaxItems  BY ShmFacts DEF Shm!Slots
  <2>2. shm \in [sized : BOOLEAN, filledbuf_count : Nat, emptybuf_count : Nat, mutex : Nat,
                 front : Shm!Slots, rear : Shm!Slots, buf : [Shm!Slots -> Int]]
    BY <1>1, <2>1
  <2>3. sent \in [Producers -> 0 .. MaxItems]  BY <1>1, <2>1
  <2>4. accepted \in Seq(Int) /\ received \in Seq(Int)  BY <1>1
  <2>5. shm_pc = [q \in Shm!Processes |-> shm_pc[q]]  BY <1>1
  <2>6. QED  BY <1>1, <2>2, <2>3, <2>4, <2>5 DEF ShmType
<1>4. Shm!Places  BY <1>1, <1>2, ShmFacts DEF Shm!Places, Shm!Initialising
<1>5. Shm!SettingUp  BY <1>1, ShmFacts DEF Shm!SettingUp
<1>6. QED  BY <1>2, <1>3, <1>4, <1>5, NotReadyShm

\* Equal fronts, equal wholes: equal rests.
LEMMA ConcatCancels ==
    ASSUME NEW s \in Seq(Int), NEW t \in Seq(Int), NEW u \in Seq(Int), s \o t = s \o u
    PROVE  t = u
<1>1. PICK a \in Nat, b \in Nat, c \in Nat : a = Len(s) /\ b = Len(t) /\ c = Len(u)
  BY LenProperties
<1>2. a + b = a + c
  <2>1. Len(s \o t) = a + b /\ Len(s \o u) = a + c  BY <1>1, ConcatProperties
  <2>2. QED  BY <2>1
<1>3. b = c  BY <1>2
<1>4. ASSUME NEW j \in 1 .. b PROVE t[j] = u[j]
  <2>1. PICK i \in Nat : i = a + j /\ i \in 1 .. a + b /\ i > a /\ i - a = j  OBVIOUS
  <2>2. (s \o t)[i] = t[i - a] /\ (s \o u)[i] = u[i - a]
    BY <1>1, <1>3, <2>1, ConcatProperties
  <2>3. QED  BY <2>1, <2>2
<1>5. QED  BY <1>1, <1>3, <1>4, SeqEqual

\* The items in the ring are a sequence.
LEMMA ContentsIsSeq == Shm!ShmInv => Shm!Contents \in Seq(Int)
<1> SUFFICES ASSUME Shm!ShmInv PROVE Shm!Contents \in Seq(Int)  OBVIOUS
<1>1. PICK n \in Nat : n = Len(accepted) - Len(received) /\ n <= BUF_SIZE  BY QueueBounds
<1>2. PICK m \in Shm!Slots, b \in [Shm!Slots -> Int] : m = Shm!FirstSlot /\ b = shm.buf
  <2>1. PICK f \in Shm!Slots : f = shm.front  BY DEF Shm!ShmInv, Shm!TypeOK
  <2>2. PICK x \in Nat : x = f + 1 /\ x < 2 * BUF_SIZE  BY ShmFacts DEF Shm!Slots
  <2>3. x % BUF_SIZE \in Shm!Slots  BY <2>2, RoundOnce
  <2>4. Shm!FirstSlot \in Shm!Slots  BY <2>1, <2>2, <2>3 DEF Shm!FirstSlot
  <2>5. QED  BY <2>4 DEF Shm!ShmInv, Shm!TypeOK
<1>3. shm.front \in Shm!Slots  BY DEF Shm!ShmInv, Shm!TypeOK
<1>4. Shm!Contents = ItemsFrom(b, m, n)
  BY Zenon, <1>1, <1>2, <1>3, ContentsFromFirst DEF ItemsFrom
<1>5. QED  BY Zenon, <1>1, <1>4, ItemsAreSeq

\* The same of the next state.
LEMMA ContentsIsSeqNext == (Shm!ShmInv => Shm!Contents \in Seq(Int))'
  BY ContentsIsSeq, PTL

\* A step of the programs is a step of the queue, or none.
LEMMA QueueSteps ==
    ASSUME ~AttachEarly, Shm!ShmInv, Shm!Next
    PROVE  [Shm!Abstract!Next]_(Shm!Abstract!vars)
<1>1. Shm!ShmInv'  BY ShmNext
<1>2. ASSUME NEW p \in Producers, Shm!WriteSlot(p), Shm!Ready
      PROVE  Shm!Abstract!Put(p)
  <2>1. /\ Shm!Contents \in Seq(Int) /\ Len(Shm!Contents) < BUF_SIZE
        /\ Shm!Contents' = Append(Shm!Contents, Shm!Item(p, sent[p] + 1))
    BY <1>2, WriteSlotAppends
  <2>2. shm_pc[p] = "write" /\ sent' = [sent EXCEPT ![p] = @ + 1] /\ received' = received
    BY <1>2 DEF Shm!WriteSlot, Shm!Step
  <2>3. sent[p] < MaxItems  BY <2>2 DEF Shm!ShmInv, Shm!Places
  <2>4. Shm!Item(p, sent[p] + 1) = Shm!Abstract!Item(p, sent[p] + 1)
    BY DEF Shm!Item, Shm!Abstract!Item
  <2>5. QED  BY <2>1, <2>2, <2>3, <2>4 DEF Shm!Abstract!Put, Shm!Consumer
<1>3. ASSUME Shm!ReadSlot PROVE Shm!Abstract!Get
  <2>1. /\ Shm!Contents # <<>> /\ Shm!Contents' = Tail(Shm!Contents)
        /\ received' = Append(received, Head(Shm!Contents))
    BY <1>3, ReadSlotTakes
  <2>2. sent' = sent  BY <1>3 DEF Shm!ReadSlot
  <2>3. QED  BY <2>1, <2>2 DEF Shm!Abstract!Get, Shm!Consumer
<1>4. ASSUME sent' = sent, accepted' = accepted, received' = received
      PROVE  UNCHANGED Shm!Abstract!vars
  <2>1. Shm!Contents \in Seq(Int) /\ Shm!Contents' \in Seq(Int)
    BY <1>1, ContentsIsSeq, ContentsIsSeqNext
  <2>2. /\ accepted = received \o Shm!Contents /\ accepted' = received' \o Shm!Contents'
        /\ received \in Seq(Int)
    BY <1>1 DEF Shm!ShmInv, Shm!RingInv, Shm!TypeOK
  <2>3. received \o Shm!Contents = received \o Shm!Contents'  BY <1>4, <2>2
  <2>4. Shm!Contents' = Shm!Contents  BY <2>1, <2>2, <2>3, ConcatCancels
  <2>5. QED  BY <1>4, <2>4 DEF Shm!Abstract!vars, Shm!Consumer
<1>5. QED  BY <1>2, <1>3, <1>4, ShmNext DEF Shm!Abstract!Next

\* An empty ring is an empty queue.
LEMMA QueueStart == ASSUME Shm!Init PROVE Shm!Abstract!Init
<1>1. /\ shm_pc[Shm!Consumer] = "start" /\ accepted = <<>> /\ received = <<>>
      /\ sent = [p \in Producers |-> 0]
  BY ShmFacts DEF Shm!Init
<1>2. Len(accepted) - Len(received) = 0
  <2>1. Len(accepted) = 0 /\ Len(received) = 0  BY <1>1
  <2>2. QED  BY <2>1
<1>3. Shm!Contents = <<>>  BY <1>2 DEF Shm!Contents
<1>4. QED  BY <1>1, <1>3 DEF Shm!Abstract!Init

------------------------------------------------------------------------------
(* The behaviours of MCProcesses, without producers that attach too early *)

\* The invariant of the shared ring holds in every state: for any number of
\* producers, slots and items, wherever signals kill.
THEOREM RingInvariant == ~AttachEarly => (Spec => []Shm!ShmInv)
<1> SUFFICES ASSUME ~AttachEarly PROVE Spec => []Shm!ShmInv  OBVIOUS
<1>1. Init => Shm!ShmInv  BY ShmStart DEF Init
<1>2. Shm!ShmInv /\ [Next]_vars => Shm!ShmInv'
  <2> SUFFICES ASSUME Shm!ShmInv, [Next]_vars PROVE Shm!ShmInv'  OBVIOUS
  <2>1. CASE ShmStep(Shm!Next)  BY <2>1, ShmNext DEF ShmStep, Run
  <2>2. CASE UNCHANGED shm_vars
    <3>1. alive' \subseteq alive /\ name' \in BOOLEAN
      BY <2>2 DEF shm_vars, Shm!ShmInv, Shm!TypeOK
    <3>2. QED  BY <2>2, <3>1, SameShm DEF shm_vars
  <2>3. QED  BY <2>1, <2>2 DEF Next, SyncStep, LoggerStep, SemStep, vars
<1>3. QED  BY <1>1, <1>2, PTL DEF Spec

\* Every slot is free, filled or in the hands of one process, dead or alive, and
\* the mutex likewise, if producers attach when the consumer is ready.
THEOREM SlotsKept == ~AttachEarly => (Spec => []SlotsConserved)
<1>1. Shm!ShmInv => SlotsConserved  BY DEF Shm!ShmInv, SlotsConserved
<1>2. QED  BY <1>1, RingInvariant, PTL

\* The consumer reads what was written, in the order it was written: what the
\* run that lets producers attach early refutes holds when they do not.
THEOREM ReadAsWritten == ~AttachEarly => (Spec => []Shm!ReceivedInOrder)
<1>1. Shm!ShmInv => Shm!ReceivedInOrder
  <2> SUFFICES ASSUME Shm!ShmInv PROVE Shm!ReceivedInOrder  OBVIOUS
  <2>1. Shm!Contents \in Seq(Int) /\ received \in Seq(Int)
        /\ accepted = received \o Shm!Contents
    BY ContentsIsSeq DEF Shm!ShmInv, Shm!RingInv, Shm!TypeOK
  <2>2. PICK a \in Nat, b \in Nat : a = Len(received) /\ b = Len(Shm!Contents)
    BY <2>1, LenProperties
  <2>3. accepted \in Seq(Int) /\ Len(accepted) = a + b
    BY <2>1, <2>2, ConcatProperties
  <2>4. \A j \in 1 .. a : accepted[j] = received[j]
    BY <2>1, <2>2, ConcatProperties
  <2>5. SubSeq(accepted, 1, a) = [j \in 1 .. a |-> accepted[j]]
    <3>1. a \in 0 .. Len(accepted)  BY <2>2, <2>3
    <3>2. \A j \in 1 .. a : j + 1 - 1 = j  OBVIOUS
    <3>3. 1 + a - 1 = a  OBVIOUS
    <3>4. QED  BY <2>3, <3>1, <3>2, <3>3, SubSeqProperties
  <2>6. received = [j \in 1 .. a |-> received[j]]
    BY <2>1, <2>2, LenProperties
  <2>7. received = SubSeq(accepted, 1, a)  BY <2>4, <2>5, <2>6
  <2>8. QED  BY <2>2, <2>3, <2>7 DEF Shm!ReceivedInOrder
<1>2. QED  BY <1>1, RingInvariant, PTL

\* The object, its semaphores and its indices implement the abstract FIFO queue.
THEOREM ShmRefinement == ~AttachEarly => (Spec => ImplementsBoundedBuffer)
<1> SUFFICES ASSUME ~AttachEarly PROVE Spec => ImplementsBoundedBuffer  OBVIOUS
<1>1. Init => Shm!Abstract!Init  BY QueueStart DEF Init
<1>2. Shm!ShmInv /\ [Next]_vars => [Shm!Abstract!Next]_(Shm!Abstract!vars)
  <2> SUFFICES ASSUME Shm!ShmInv, [Next]_vars
               PROVE  [Shm!Abstract!Next]_(Shm!Abstract!vars)
    OBVIOUS
  <2>1. CASE ShmStep(Shm!Next)  BY <2>1, QueueSteps DEF ShmStep, Run
  <2>2. CASE UNCHANGED shm_vars
    <3>1. UNCHANGED Shm!Abstract!vars
      BY <2>2 DEF shm_vars, Shm!Abstract!vars, Shm!Contents
    <3>2. QED  BY <3>1
  <2>3. QED  BY <2>1, <2>2 DEF Next, SyncStep, LoggerStep, SemStep, vars
<1>3. QED
  BY <1>1, <1>2, RingInvariant, PTL
  DEF Spec, ImplementsBoundedBuffer, Shm!ImplementsBoundedBuffer, Shm!Abstract!Spec
------------------------------------------------------------------------------
(* ulogger.c: the types *)

\* The sizes are as the instance assumes.
LEMMA LoggerFacts == MAX_USERS \in Nat /\ MAXMSG \in Nat /\ MAXMSG > 0 /\ ROWS \in Nat
  BY ProcessesAssumption DEF Logger!ULoggerAssumption

\* The fields of the records, for the steps to change one by one.
Fields ==
    /\ mq = [exists |-> mq.exists, msgs |-> mq.msgs, registered |-> mq.registered]
    /\ signals = [avail |-> signals.avail, update |-> signals.update]
    /\ main = [pc |-> main.pc, i |-> main.i]
    /\ handler = [pc |-> handler.pc, got |-> handler.got]
    /\ logger_log = [sent |-> logger_log.sent, early |-> logger_log.early]
    /\ logger_client = [c \in LoggerClients |-> logger_client[c]]

\* The invariant gives them.
LEMMA HasFields == Logger!LoggerInv => Fields
  BY DEF Logger!LoggerInv, Logger!TypeOK, Logger!LastSent, Fields

\* A message that is sent to the queue.
LEMMA SendTyped ==
    ASSUME Logger!LoggerInv, NEW c \in LoggerClients, Logger!mq_send(c)
    PROVE  Logger!TypeOK' /\ Logger!Drawing'
<1>1. /\ mq'.msgs = Append(mq.msgs, c) /\ Len(mq.msgs) < MAXMSG
      /\ mq' = [exists |-> mq.exists, msgs |-> mq'.msgs, registered |-> mq'.registered]
      /\ mq'.registered = (mq.registered /\ ~(mq.msgs = <<>> /\ mq.registered))
      /\ signals' = IF mq.msgs = <<>> /\ mq.registered
                    THEN [signals EXCEPT !.avail = signals.avail + 1] ELSE signals
      /\ logger_client' = [logger_client EXCEPT ![c] = "sent"]
      /\ main' = main /\ handler' = handler /\ users' = users /\ screen' = screen
  BY HasFields DEF Logger!mq_send, Fields
<1>2. mq.msgs \in Seq(LoggerClients) /\ Len(mq.msgs) \in Nat  BY DEF Logger!LoggerInv, Logger!TypeOK
<1>3. mq'.msgs \in Seq(LoggerClients) /\ Len(mq'.msgs) = Len(mq.msgs) + 1
  BY <1>1, <1>2, AppendProperties
<1>4. mq' \in [exists : BOOLEAN, msgs : Seq(LoggerClients), registered : BOOLEAN]
  <2>1. mq.exists \in BOOLEAN  BY DEF Logger!LoggerInv, Logger!TypeOK
  <2>2. mq'.registered \in BOOLEAN  BY <1>1
  <2>3. PICK e \in BOOLEAN, m \in Seq(LoggerClients), r \in BOOLEAN :
          mq' = [exists |-> e, msgs |-> m, registered |-> r]
    BY Zenon, <1>1, <1>3, <2>1, <2>2
  <2>4. QED  BY <2>3
<1>5. Len(mq'.msgs) <= MAXMSG
  <2>1. PICK n \in Nat : n = Len(mq.msgs)  BY <1>2
  <2>2. n + 1 <= MAXMSG  BY <1>1, <2>1, LoggerFacts
  <2>3. QED  BY <1>3, <2>1, <2>2
<1>6. signals' \in [avail : 0 .. 1, update : Nat]
  <2>1. signals \in [avail : 0 .. 1, update : Nat]  BY DEF Logger!LoggerInv, Logger!TypeOK
  <2>2. mq.registered => signals.avail = 0  BY <2>1 DEF Logger!LoggerInv, Logger!OneSignal
  <2>3. QED  BY <1>1, <2>1, <2>2
<1>7. logger_client' \in [LoggerClients -> {"start", "opened", "sent", "failed"}]
  BY <1>1 DEF Logger!LoggerInv, Logger!TypeOK
<1>8. QED  BY <1>1, <1>4, <1>5, <1>6, <1>7 DEF Logger!LoggerInv, Logger!TypeOK, Logger!Drawing

\* A client that opens the queue.
LEMMA OpenTyped ==
    ASSUME Logger!LoggerInv, NEW c \in LoggerClients, Logger!OpenQueue(c)
    PROVE  Logger!TypeOK' /\ Logger!Drawing'
  BY DEF Logger!OpenQueue, Logger!LoggerInv, Logger!TypeOK, Logger!Drawing

\* The handler.
LEMMA HandlerTyped ==
    ASSUME Logger!LoggerInv, Logger!msg_handler
    PROVE  Logger!TypeOK' /\ Logger!Drawing'
<1> USE DEF Logger!LoggerInv
<1>1. CASE Logger!Deliver
  BY <1>1 DEF Logger!Deliver, Logger!TypeOK, Logger!Drawing
<1>2. CASE Logger!Receive
  <2>1. CASE mq.msgs = <<>>
    <3>1. /\ handler' = [pc |-> "notify", got |-> FALSE]
          /\ UNCHANGED <<mq, users, screen, signals, main, logger_client>>
      BY <1>2, <2>1 DEF Logger!Receive
    <3>2. QED  BY <3>1 DEF Logger!TypeOK, Logger!Drawing
  <2>2. CASE mq.msgs # <<>>
    <3>1. /\ mq' = [mq EXCEPT !.msgs = Tail(mq.msgs)]
          /\ users' = IF Len(users) = MAX_USERS THEN users ELSE Append(users, Head(mq.msgs))
          /\ screen' = {} /\ handler' = [pc |-> "notify", got |-> TRUE]
          /\ signals' = signals /\ main' = main /\ logger_client' = logger_client
      BY <1>2, <2>2 DEF Logger!Receive, Logger!update
    <3>2. /\ mq.msgs \in Seq(LoggerClients) /\ users \in Seq(LoggerClients)
          /\ Len(mq.msgs) <= MAXMSG /\ Len(users) <= MAX_USERS
      BY DEF Logger!TypeOK
    <3>3. /\ Tail(mq.msgs) \in Seq(LoggerClients) /\ Len(Tail(mq.msgs)) = Len(mq.msgs) - 1
          /\ Head(mq.msgs) \in LoggerClients
      BY <2>2, <3>2, HeadTailProperties
    <3>4. mq' \in [exists : BOOLEAN, msgs : Seq(LoggerClients), registered : BOOLEAN]
          /\ mq'.msgs = Tail(mq.msgs)
      BY <3>1, <3>3 DEF Logger!TypeOK
    <3>5. Len(mq'.msgs) <= MAXMSG
      <4>1. PICK n \in Nat : n = Len(mq.msgs)  BY <3>2, LenProperties
      <4>2. n - 1 <= MAXMSG  BY <3>2, <4>1, LoggerFacts
      <4>3. QED  BY <3>3, <3>4, <4>1, <4>2
    <3>6. users' \in Seq(LoggerClients) /\ Len(users') <= MAX_USERS
      <4>1. CASE Len(users) = MAX_USERS  BY <3>1, <3>2, <4>1
      <4>2. CASE Len(users) # MAX_USERS
        <5>1. PICK n \in Nat : n = Len(users)  BY <3>2, LenProperties
        <5>2. n + 1 <= MAX_USERS  BY <3>2, <4>2, <5>1, LoggerFacts
        <5>3. users' \in Seq(LoggerClients) /\ Len(users') = n + 1
          BY <3>1, <3>2, <3>3, <4>2, <5>1, AppendProperties
        <5>4. QED  BY <5>2, <5>3
      <4>3. QED  BY <4>1, <4>2
    <3>7. QED  BY <3>1, <3>4, <3>5, <3>6 DEF Logger!TypeOK, Logger!Drawing
  <2>3. QED  BY <2>1, <2>2
<1>3. CASE Logger!Reregister
  BY <1>3 DEF Logger!Reregister, Logger!TypeOK, Logger!Drawing
<1>4. CASE Logger!Drain
  <2>1. CASE mq.msgs = <<>>
    BY <1>4, <2>1 DEF Logger!Drain, Logger!TypeOK, Logger!Drawing
  <2>2. CASE mq.msgs # <<>>
    <3>1. /\ mq' = [mq EXCEPT !.msgs = Tail(mq.msgs)]
          /\ UNCHANGED <<handler, signals, main, users, screen, logger_client>>
      BY <1>4, <2>2 DEF Logger!Drain
    <3>2. mq.msgs \in Seq(LoggerClients) /\ Len(mq.msgs) <= MAXMSG  BY DEF Logger!TypeOK
    <3>3. Tail(mq.msgs) \in Seq(LoggerClients) /\ Len(Tail(mq.msgs)) = Len(mq.msgs) - 1
      BY <2>2, <3>2, HeadTailProperties
    <3>4. mq' \in [exists : BOOLEAN, msgs : Seq(LoggerClients), registered : BOOLEAN]
          /\ mq'.msgs = Tail(mq.msgs)
      BY <3>1, <3>3 DEF Logger!TypeOK
    <3>5. Len(mq'.msgs) <= MAXMSG
      <4>1. PICK n \in Nat : n = Len(mq.msgs)  BY <3>2, LenProperties
      <4>2. n - 1 <= MAXMSG  BY <3>2, <4>1, LoggerFacts
      <4>3. QED  BY <3>3, <3>4, <4>1, <4>2
    <3>6. QED  BY <3>1, <3>4, <3>5 DEF Logger!TypeOK, Logger!Drawing
  <2>3. QED  BY <2>1, <2>2
<1>5. CASE Logger!Raise
  <2>1. /\ handler' = [handler EXCEPT !.pc = "none"]
        /\ signals' = [signals EXCEPT !.update = signals.update + 1]
        /\ UNCHANGED <<mq, users, screen, main, logger_client>>
    BY <1>5 DEF Logger!Raise
  <2>2. PICK n \in Nat : n = signals.update  BY DEF Logger!TypeOK
  <2>3. signals' \in [avail : 0 .. 1, update : Nat]
    BY <2>1, <2>2 DEF Logger!TypeOK
  <2>4. QED  BY <2>1, <2>3 DEF Logger!TypeOK, Logger!Drawing
<1>6. QED  BY <1>1, <1>2, <1>3, <1>4, <1>5 DEF Logger!msg_handler

\* main() and the signal that ends it.
LEMMA MainTyped ==
    ASSUME Logger!LoggerInv, Logger!Logger \/ Logger!cleanup
    PROVE  Logger!TypeOK' /\ Logger!Drawing'
<1> USE DEF Logger!LoggerInv
<1>1. CASE Logger!mq_open
  BY <1>1 DEF Logger!mq_open, Logger!Step, Logger!TypeOK, Logger!Drawing
<1>2. CASE Logger!mq_notify
  BY <1>2 DEF Logger!mq_notify, Logger!Step, Logger!TypeOK, Logger!Drawing
<1>3. CASE Logger!setup_sighandlers
  BY <1>3 DEF Logger!setup_sighandlers, Logger!Step, Logger!TypeOK, Logger!Drawing
<1>4. CASE Logger!sigwait
  <2>1. PICK n \in Nat : n = Len(users)  BY LenProperties DEF Logger!TypeOK
  <2>2. PICK f \in Int : f = Len(users) - ROWS + 2  BY <2>1, LoggerFacts
  <2>3. PICK m \in Nat : m > 0 /\ m = IF f >= 0 THEN f + 1 ELSE 1  OBVIOUS
  <2>4. main' = [pc |-> "draw", i |-> m]  BY <1>4, <2>2, <2>3 DEF Logger!sigwait
  <2>5. signals' \in [avail : 0 .. 1, update : Nat]
    <3>1. PICK a \in 0 .. 1, b \in Nat : signals = [avail |-> a, update |-> b]
      BY DEF Logger!TypeOK
    <3>2. signals.update > 0 /\ signals' = [signals EXCEPT !.update = @ - 1]
      BY <1>4 DEF Logger!sigwait
    <3>3. b > 0 /\ signals' = [avail |-> a, update |-> b - 1]  BY <3>1, <3>2
    <3>4. b - 1 \in Nat  BY <3>3
    <3>5. QED  BY <3>3, <3>4
  <2>6. QED  BY <1>4, <2>3, <2>4, <2>5 DEF Logger!sigwait, Logger!TypeOK, Logger!Drawing
<1>5. CASE Logger!DrawUser
  <2>1. PICK n \in Nat : n = Len(users)  BY LenProperties DEF Logger!TypeOK
  <2>2. PICK m \in Nat : m = main.i /\ m > 0  BY <1>5 DEF Logger!DrawUser, Logger!TypeOK, Logger!Drawing
  <2>3. CASE m <= n
    <3>1. main' = [main EXCEPT !.i = m + 1] /\ screen' = screen \cup {m}
      BY <1>5, <2>1, <2>2, <2>3 DEF Logger!DrawUser
    <3>2. screen' \subseteq 1 .. Len(users)  BY <2>1, <2>2, <2>3, <3>1 DEF Logger!TypeOK
    <3>3. QED
      BY <1>5, <2>2, <3>1, <3>2 DEF Logger!DrawUser, Logger!TypeOK, Logger!Drawing
  <2>4. CASE ~(m <= n)
    <3>1. main' = [pc |-> "wait", i |-> 0] /\ screen' = screen
      BY <1>5, <2>1, <2>2, <2>4 DEF Logger!DrawUser
    <3>2. QED  BY <1>5, <3>1 DEF Logger!DrawUser, Logger!TypeOK, Logger!Drawing
  <2>5. QED  BY <2>3, <2>4
<1>6. CASE Logger!cleanup
  BY <1>6 DEF Logger!cleanup, Logger!TypeOK, Logger!Drawing
<1>7. QED  BY <1>1, <1>2, <1>3, <1>4, <1>5, <1>6 DEF Logger!Logger

------------------------------------------------------------------------------
(* ulogger.c: the signal, and who hears it *)

\* What the signal, the registration and the handler have to do with each other.
Heard ==
    /\ Logger!BeforeRegistration /\ Logger!OneSignal
    /\ Logger!HeardWhileDraining /\ Logger!Hears

\* A logger that is deaf stays so: the message that was there stays at the head
\* of the queue, so that none finds it empty.
LEMMA StaysDeaf ==
    ASSUME Logger!LoggerInv, Logger!Next
    PROVE  /\ Logger!Deaf'
           /\ Logger!mq_notify \/ logger_log'.early = logger_log.early
<1> USE DEF Logger!LoggerInv
<1>1. CASE Logger!mq_notify
  <2>1. /\ main.pc = "opened" /\ UNCHANGED <<signals, handler, users>>
        /\ mq' = [mq EXCEPT !.registered = TRUE]
        /\ logger_log' = [logger_log EXCEPT !.early = mq.msgs # <<>>]
    BY <1>1 DEF Logger!mq_notify, Logger!Step
  <2>2. mq'.msgs = mq.msgs /\ (logger_log'.early <=> mq.msgs # <<>>)
    BY <2>1, HasFields DEF Fields
  <2>3. users = <<>> /\ signals.avail = 0 /\ handler.pc = "none"
    BY <2>1 DEF Logger!BeforeRegistration
  <2>4. QED  BY <1>1, <2>1, <2>2, <2>3 DEF Logger!Deaf
<1>2. ASSUME logger_log'.early = logger_log.early, UNCHANGED <<users, handler>>,
             signals'.avail = signals.avail, mq'.msgs = mq.msgs
      PROVE  Logger!Deaf'
  BY <1>2 DEF Logger!Deaf
<1>3. CASE Logger!mq_open \/ Logger!setup_sighandlers \/ Logger!sigwait \/ Logger!DrawUser
           \/ Logger!cleanup
  <2>1. /\ UNCHANGED <<users, handler, logger_log>>
        /\ signals' = signals \/ signals' = [signals EXCEPT !.update = @ - 1]
        /\ \/ mq' = mq \/ mq' = [mq EXCEPT !.exists = TRUE]
           \/ mq' = [mq EXCEPT !.exists = @ /\ main.pc \notin {"wait", "draw"},
                               !.registered = FALSE]
    BY <1>3 DEF Logger!mq_open, Logger!setup_sighandlers, Logger!sigwait, Logger!DrawUser,
       Logger!cleanup
  <2>2. signals'.avail = signals.avail /\ mq'.msgs = mq.msgs  BY <2>1, HasFields DEF Fields
  <2>3. QED  BY <1>2, <2>1, <2>2
<1>4. CASE Logger!msg_handler
  <2>1. ~logger_log.early
    BY <1>4 DEF Logger!msg_handler, Logger!Deliver, Logger!Receive, Logger!Reregister,
       Logger!Drain, Logger!Raise, Logger!Deaf
  <2>2. logger_log' = logger_log
    BY <1>4 DEF Logger!msg_handler, Logger!Deliver, Logger!Receive, Logger!Reregister,
       Logger!Drain, Logger!Raise
  <2>3. logger_log'.early = logger_log.early  BY <2>2
  <2>4. QED  BY <2>1, <2>3 DEF Logger!Deaf
<1>5. ASSUME NEW c \in LoggerClients, Logger!OpenQueue(c)
      PROVE  Logger!Deaf' /\ logger_log'.early = logger_log.early
  BY <1>2, <1>5 DEF Logger!OpenQueue
<1>6. ASSUME NEW c \in LoggerClients, Logger!mq_send(c)
      PROVE  Logger!Deaf' /\ logger_log'.early = logger_log.early
  <2>1. /\ UNCHANGED <<users, handler>>
        /\ logger_log' = [logger_log EXCEPT !.sent = Append(@, c)]
        /\ mq' = [mq EXCEPT !.msgs = Append(@, c),
                            !.registered = @ /\ ~(mq.msgs = <<>> /\ mq.registered)]
        /\ mq.msgs # <<>> => signals' = signals
    BY <1>6 DEF Logger!mq_send
  <2>2. logger_log'.early = logger_log.early /\ mq'.msgs = Append(mq.msgs, c)
    BY <2>1, HasFields DEF Fields
  <2>3. mq.msgs \in Seq(LoggerClients)  BY DEF Logger!TypeOK
  <2>4. mq'.msgs # <<>>  BY <2>2, <2>3, AppendProperties
  <2>5. QED  BY <2>1, <2>2, <2>4 DEF Logger!Deaf
<1>7. QED
  BY <1>1, <1>3, <1>4, <1>5, <1>6 DEF Logger!Next, Logger!Logger

\* A message on the empty queue uses up the registration and raises the signal.
LEMMA SendHeard ==
    ASSUME Logger!LoggerInv, NEW c \in LoggerClients, Logger!mq_send(c)
    PROVE  Heard'
<1>1. main' = main /\ handler' = handler /\ users' = users
  BY DEF Logger!mq_send
<1>0. logger_log'.early = logger_log.early
  <2>1. logger_log' = [logger_log EXCEPT !.sent = Append(@, c)]  BY DEF Logger!mq_send
  <2>2. QED  BY <2>1, HasFields DEF Fields
<1>2. signals.avail \in {0, 1} /\ signals = [avail |-> signals.avail, update |-> signals.update]
  BY DEF Logger!LoggerInv, Logger!TypeOK
<1>3. CASE mq.msgs = <<>> /\ mq.registered
  <2>1. signals' = [signals EXCEPT !.avail = signals.avail + 1]
        /\ mq' = [mq EXCEPT !.msgs = Append(@, c), !.registered = FALSE]
    BY <1>3 DEF Logger!mq_send
  <2>2. signals'.avail > 0 /\ ~mq'.registered
    BY <1>2, <2>1, HasFields DEF Fields
  <2>3. QED
    BY <1>1, <1>3, <1>0, <2>2 DEF Heard, Logger!LoggerInv, Logger!BeforeRegistration,
       Logger!OneSignal, Logger!HeardWhileDraining, Logger!Hears
<1>4. CASE ~(mq.msgs = <<>> /\ mq.registered)
  <2>1. /\ signals' = signals
        /\ mq' = [mq EXCEPT !.msgs = Append(@, c), !.registered = @ /\ TRUE]
    BY <1>4 DEF Logger!mq_send
  <2>2. mq'.registered <=> mq.registered  BY <2>1, HasFields DEF Fields
  <2>3. QED
    BY <1>1, <1>4, <1>0, <2>1, <2>2 DEF Heard, Logger!LoggerInv, Logger!BeforeRegistration,
       Logger!OneSignal, Logger!HeardWhileDraining, Logger!Hears
<1>5. QED  BY <1>3, <1>4

\* A client that opens the queue does not matter to the logger.
LEMMA OpenHeard ==
    ASSUME Logger!LoggerInv, NEW c \in LoggerClients, Logger!OpenQueue(c)
    PROVE  Heard'
  BY DEF Logger!OpenQueue, Heard, Logger!LoggerInv, Logger!BeforeRegistration,
     Logger!OneSignal, Logger!HeardWhileDraining, Logger!Hears

\* The handler renews the registration before it empties the queue.
LEMMA HandlerHeard ==
    ASSUME Logger!LoggerInv, Logger!msg_handler
    PROVE  Heard'
<1>1. main' = main /\ main.pc # "exited"
      /\ logger_client' = logger_client
  BY DEF Logger!msg_handler, Logger!Deliver, Logger!Receive, Logger!Reregister,
     Logger!Drain, Logger!Raise, Logger!Running
<1>2. main.pc \notin {"start", "opened"}
  BY DEF Logger!msg_handler, Logger!Deliver, Logger!Receive, Logger!Reregister,
     Logger!Drain, Logger!Raise, Logger!LoggerInv, Logger!BeforeRegistration
<1>0. logger_log'.early = logger_log.early
  BY DEF Logger!msg_handler, Logger!Deliver, Logger!Receive, Logger!Reregister,
     Logger!Drain, Logger!Raise
<1>3. signals.avail \in {0, 1}  BY DEF Logger!LoggerInv, Logger!TypeOK
<1>4. CASE Logger!Deliver
  <2>1. signals'.avail = 0 /\ handler'.pc = "receive" /\ mq' = mq /\ ~mq.registered
    BY <1>3, <1>4, HasFields DEF Logger!Deliver, Fields, Logger!LoggerInv, Logger!OneSignal
  <2>2. QED
    BY <1>0, <1>1, <1>2, <2>1 DEF Heard, Logger!BeforeRegistration, Logger!OneSignal,
       Logger!HeardWhileDraining, Logger!Hears
<1>5. CASE Logger!Receive
  <2>1. /\ handler.pc = "receive" /\ handler'.pc = "notify" /\ signals' = signals
        /\ mq' = mq \/ mq' = [mq EXCEPT !.msgs = Tail(@)]
    BY <1>5 DEF Logger!Receive
  <2>2. mq'.registered <=> mq.registered  BY <2>1, HasFields DEF Fields
  <2>3. QED
    BY <1>0, <1>1, <1>2, <2>1, <2>2 DEF Heard, Logger!LoggerInv, Logger!BeforeRegistration,
       Logger!OneSignal, Logger!HeardWhileDraining, Logger!Hears
<1>6. CASE Logger!Reregister
  <2>1. /\ handler.pc = "notify" /\ handler' = [handler EXCEPT !.pc = "drain"]
        /\ signals' = signals /\ mq' = [mq EXCEPT !.registered = TRUE]
    BY <1>6 DEF Logger!Reregister
  <2>2. mq'.registered /\ handler'.pc = "drain"  BY <2>1, HasFields DEF Fields
  <2>3. ~(signals.avail > 0)  BY <2>1 DEF Logger!LoggerInv, Logger!OneSignal
  <2>4. QED
    BY <1>0, <1>1, <1>2, <2>1, <2>2, <2>3 DEF Heard, Logger!BeforeRegistration,
       Logger!OneSignal, Logger!HeardWhileDraining, Logger!Hears
<1>7. CASE Logger!Drain
  <2>1. CASE mq.msgs = <<>>
    <3>1. /\ handler.pc = "drain" /\ mq' = mq /\ signals' = signals
          /\ handler'.pc \in {"raise", "none"}
      BY <1>7, <2>1, HasFields DEF Logger!Drain, Fields
    <3>2. QED
      BY <1>0, <1>1, <1>2, <2>1, <3>1 DEF Heard, Logger!LoggerInv, Logger!BeforeRegistration,
         Logger!OneSignal, Logger!HeardWhileDraining, Logger!Hears
  <2>2. CASE mq.msgs # <<>>
    <3>1. /\ handler.pc = "drain" /\ handler' = handler /\ signals' = signals
          /\ mq' = [mq EXCEPT !.msgs = Tail(@)]
      BY <1>7, <2>2 DEF Logger!Drain
    <3>2. mq'.registered <=> mq.registered  BY <3>1, HasFields DEF Fields
    <3>3. QED
      BY <1>0, <1>1, <1>2, <3>1, <3>2 DEF Heard, Logger!LoggerInv, Logger!BeforeRegistration,
         Logger!OneSignal, Logger!HeardWhileDraining, Logger!Hears
  <2>3. QED  BY <2>1, <2>2
<1>8. CASE Logger!Raise
  <2>1. /\ handler.pc = "raise" /\ handler' = [handler EXCEPT !.pc = "none"] /\ mq' = mq
        /\ signals' = [signals EXCEPT !.update = @ + 1]
    BY <1>8 DEF Logger!Raise
  <2>2. handler'.pc = "none" /\ signals'.avail = signals.avail
    BY <2>1, HasFields DEF Fields
  <2>3. QED
    BY <1>0, <1>1, <1>2, <2>1, <2>2 DEF Heard, Logger!LoggerInv, Logger!BeforeRegistration,
       Logger!OneSignal, Logger!HeardWhileDraining, Logger!Hears
<1>9. QED  BY <1>4, <1>5, <1>6, <1>7, <1>8 DEF Logger!msg_handler

\* main() registers when the queue is empty, or notes that it was not.
LEMMA MainHeard ==
    ASSUME Logger!LoggerInv, Logger!Logger \/ Logger!cleanup
    PROVE  Heard'
<1>1. handler' = handler /\ users' = users
  BY DEF Logger!Logger, Logger!mq_open, Logger!mq_notify, Logger!setup_sighandlers,
     Logger!sigwait, Logger!DrawUser, Logger!cleanup
<1>2. CASE Logger!mq_open
  <2>1. /\ logger_log' = logger_log
        /\ main.pc = "start" /\ main' = [main EXCEPT !.pc = "opened"] /\ signals' = signals
        /\ mq' = [mq EXCEPT !.exists = TRUE]
    BY <1>2 DEF Logger!mq_open, Logger!Step
  <2>2. main'.pc = "opened" /\ (mq'.registered <=> mq.registered) /\ mq'.msgs = mq.msgs
    BY <2>1, HasFields DEF Fields
  <2>3. QED
    BY <1>1, <2>1, <2>2 DEF Heard, Logger!LoggerInv, Logger!BeforeRegistration,
       Logger!OneSignal, Logger!HeardWhileDraining, Logger!Hears
<1>3. CASE Logger!mq_notify
  <2>1. /\ main.pc = "opened" /\ main' = [main EXCEPT !.pc = "registered"]
        /\ signals' = signals /\ mq' = [mq EXCEPT !.registered = TRUE]
        /\ logger_log' = [logger_log EXCEPT !.early = mq.msgs # <<>>]
    BY <1>3 DEF Logger!mq_notify, Logger!Step
  <2>2. /\ main'.pc = "registered" /\ mq'.registered /\ mq'.msgs = mq.msgs
        /\ logger_log'.early <=> mq.msgs # <<>>
    BY <2>1, HasFields DEF Fields
  <2>3. signals.avail = 0 /\ handler.pc = "none"
    BY <2>1 DEF Logger!LoggerInv, Logger!BeforeRegistration
  <2>4. QED
    BY <1>1, <2>1, <2>2, <2>3 DEF Heard, Logger!BeforeRegistration,
       Logger!OneSignal, Logger!HeardWhileDraining, Logger!Hears
<1>4. CASE Logger!setup_sighandlers \/ Logger!sigwait \/ Logger!DrawUser
  <2>1. /\ main.pc \in {"registered", "wait", "draw"} /\ mq' = mq
        /\ logger_log' = logger_log
        /\ signals' = signals \/ signals' = [signals EXCEPT !.update = @ - 1]
    BY <1>4 DEF Logger!setup_sighandlers, Logger!sigwait, Logger!DrawUser, Logger!Step
  <2>2. main'.pc \in {"wait", "draw"}
    <3>1. CASE Logger!setup_sighandlers
      BY <3>1, HasFields DEF Logger!setup_sighandlers, Logger!Step, Fields
    <3>2. CASE Logger!sigwait  BY <3>2 DEF Logger!sigwait
    <3>3. CASE Logger!DrawUser
      <4>1. main.pc = "draw" /\ (main' = [main EXCEPT !.i = @ + 1] \/ main'.pc = "wait")
        BY <3>3 DEF Logger!DrawUser
      <4>2. QED  BY <4>1, HasFields DEF Fields
    <3>4. QED  BY <1>4, <3>1, <3>2, <3>3
  <2>3. signals'.avail = signals.avail  BY <2>1, HasFields DEF Fields
  <2>4. QED
    BY <1>1, <2>1, <2>2, <2>3 DEF Heard, Logger!LoggerInv, Logger!BeforeRegistration,
       Logger!OneSignal, Logger!HeardWhileDraining, Logger!Hears
<1>5. CASE Logger!cleanup
  <2>1. main' = [pc |-> "exited", i |-> 0] /\ signals' = signals
        /\ mq' = [mq EXCEPT !.exists = @ /\ main.pc \notin {"wait", "draw"},
                            !.registered = FALSE]
    BY <1>5 DEF Logger!cleanup
  <2>2. main'.pc = "exited" /\ ~mq'.registered  BY <2>1, HasFields DEF Fields
  <2>3. QED
    BY <1>1, <2>1, <2>2 DEF Heard, Logger!LoggerInv, Logger!BeforeRegistration,
       Logger!OneSignal, Logger!HeardWhileDraining, Logger!Hears
<1>6. QED  BY <1>2, <1>3, <1>4, <1>5 DEF Logger!Logger

------------------------------------------------------------------------------
(* ulogger.c: the order of the messages *)

\* The end of what was sent stays the end when both get the same message.
LEMMA EndAppends ==
    ASSUME NEW S, NEW q \in Seq(S), NEW s \in Seq(S), NEW c \in S, Logger!EndOf(q, s)
    PROVE  /\ Logger!EndOf(Append(q, c), Append(s, c))
           /\ Len(Append(s, c)) - Len(Append(q, c)) = Len(s) - Len(q)
<1>1. PICK n \in Nat, m \in Nat : n = Len(s) /\ m = Len(q) /\ m <= n
  BY LenProperties DEF Logger!EndOf
<1>2. PICK t \in Nat : t = n - m
  <2>1. n - m \in Nat  BY <1>1
  <2>2. QED  BY <2>1
<1>3. \A k \in 1 .. m : q[k] = s[t + k]  BY <1>1, <1>2 DEF Logger!EndOf
<1>4. /\ Len(Append(s, c)) = n + 1 /\ Len(Append(q, c)) = m + 1
      /\ \A k \in 1 .. n : Append(s, c)[k] = s[k]
      /\ \A k \in 1 .. m : Append(q, c)[k] = q[k]
      /\ Append(s, c)[n + 1] = c /\ Append(q, c)[m + 1] = c
  <2>1. /\ Len(Append(s, c)) = n + 1
        /\ \A k \in 1 .. n : Append(s, c)[k] = s[k]
        /\ Append(s, c)[n + 1] = c
    BY <1>1, AppendProperties
  <2>2. /\ Len(Append(q, c)) = m + 1
        /\ \A k \in 1 .. m : Append(q, c)[k] = q[k]
        /\ Append(q, c)[m + 1] = c
    BY <1>1, AppendProperties
  <2>3. QED  BY <2>1, <2>2
<1>5. ASSUME NEW k \in 1 .. m + 1 PROVE Append(q, c)[k] = Append(s, c)[t + k]
  <2>1. CASE k \in 1 .. m
    <3>1. t + k \in 1 .. n  BY <1>1, <1>2, <2>1
    <3>2. QED  BY <1>3, <1>4, <2>1, <3>1
  <2>2. CASE k \notin 1 .. m
    <3>1. k = m + 1 /\ t + k = n + 1  BY <1>1, <1>2, <2>2
    <3>2. QED  BY <1>4, <3>1
  <2>3. QED  BY <2>1, <2>2
<1>6. (n + 1) - (m + 1) = t /\ m + 1 <= n + 1 /\ t = n - m  BY <1>1, <1>2
<1>7. QED  BY <1>1, <1>4, <1>5, <1>6 DEF Logger!EndOf

\* And when it loses its head.
LEMMA EndTails ==
    ASSUME NEW S, NEW q \in Seq(S), NEW s \in Seq(S), q # <<>>, Logger!EndOf(q, s)
    PROVE  /\ Logger!EndOf(Tail(q), s)
           /\ \E t \in Nat : /\ t = Len(s) - Len(q) /\ t + 1 = Len(s) - Len(Tail(q))
                             /\ t + 1 <= Len(s) /\ s[t + 1] = Head(q)
<1>1. PICK n \in Nat, m \in Nat : n = Len(s) /\ m = Len(q) /\ m <= n
  BY LenProperties DEF Logger!EndOf
<1>2. PICK t \in Nat : t = n - m
  <2>1. n - m \in Nat  BY <1>1
  <2>2. QED  BY <2>1
<1>3. \A k \in 1 .. m : q[k] = s[t + k]  BY <1>1, <1>2 DEF Logger!EndOf
<1>4. /\ Head(q) = q[1] /\ Len(Tail(q)) = m - 1
      /\ \A k \in 1 .. m - 1 : Tail(q)[k] = q[k + 1]
  BY <1>1, HeadTailProperties
<1>5. m > 0  BY <1>1, EmptySeq
<1>6. ASSUME NEW k \in 1 .. m - 1 PROVE Tail(q)[k] = s[(t + 1) + k]
  <2>1. k + 1 \in 1 .. m /\ t + (k + 1) = (t + 1) + k  BY <1>1
  <2>2. QED  BY <1>3, <1>4, <2>1
<1>7. 1 \in 1 .. m /\ n - (m - 1) = t + 1 /\ m - 1 <= n /\ t + 1 <= n  BY <1>1, <1>2, <1>5
<1>8. Logger!EndOf(Tail(q), s)  BY <1>1, <1>4, <1>6, <1>7 DEF Logger!EndOf
<1>9. s[t + 1] = Head(q)  BY <1>3, <1>4, <1>7
<1>10. QED  BY <1>1, <1>2, <1>4, <1>7, <1>8, <1>9

\* A new message is not among the old ones.
LEMMA DistinctAppends ==
    ASSUME NEW S, NEW s \in Seq(S), NEW c \in S, Logger!Distinct(s),
           \A k \in 1 .. Len(s) : s[k] # c
    PROVE  Logger!Distinct(Append(s, c))
<1>1. PICK n \in Nat : n = Len(s)  BY LenProperties
<1>2. /\ Len(Append(s, c)) = n + 1 /\ \A k \in 1 .. n : Append(s, c)[k] = s[k]
      /\ Append(s, c)[n + 1] = c
  BY <1>1, AppendProperties
<1>3. \A k \in 1 .. n + 1 : k \in 1 .. n \/ k = n + 1  OBVIOUS
<1>4. QED  BY <1>1, <1>2, <1>3 DEF Logger!Distinct

\* What is among the first t is among them in a longer sequence.
LEMMA AmongPrefix ==
    ASSUME NEW w, NEW s, NEW r, NEW t, \A k \in 1 .. t : r[k] = s[k], Logger!Among(w, s, t)
    PROVE  Logger!Among(w, r, t)
<1>1. ASSUME NEW j \in 1 .. Len(w) PROVE \E k \in 1 .. t : r[k] = w[j]
  BY DEF Logger!Among
<1>2. ASSUME NEW j \in 1 .. Len(w), NEW i \in 1 .. j - 1
      PROVE  \E k, l \in 1 .. t : k < l /\ r[k] = w[i] /\ r[l] = w[j]
  <2>1. PICK k \in 1 .. t, l \in 1 .. t : k < l /\ s[k] = w[i] /\ s[l] = w[j]
    BY Zenon DEF Logger!Among
  <2>2. r[k] = w[i] /\ r[l] = w[j]  BY <2>1
  <2>3. QED  BY Zenon, <2>1, <2>2
<1>3. QED  BY Zenon, <1>1, <1>2 DEF Logger!Among

\* And among the first t + 1.
LEMMA AmongGrows ==
    ASSUME NEW w, NEW s, NEW t \in Nat, Logger!Among(w, s, t)
    PROVE  Logger!Among(w, s, t + 1)
<1>1. \A k \in 1 .. t : k \in 1 .. t + 1  OBVIOUS
<1>2. ASSUME NEW j \in 1 .. Len(w) PROVE \E k \in 1 .. t + 1 : s[k] = w[j]
  <2>1. PICK k \in 1 .. t : s[k] = w[j]  BY Zenon DEF Logger!Among
  <2>2. QED  BY Zenon, <1>1, <2>1
<1>3. ASSUME NEW j \in 1 .. Len(w), NEW i \in 1 .. j - 1
      PROVE  \E k, l \in 1 .. t + 1 : k < l /\ s[k] = w[i] /\ s[l] = w[j]
  <2>1. PICK k \in 1 .. t, l \in 1 .. t : k < l /\ s[k] = w[i] /\ s[l] = w[j]
    BY Zenon DEF Logger!Among
  <2>2. QED  BY Zenon, <1>1, <2>1
<1>4. QED  BY Zenon, <1>2, <1>3 DEF Logger!Among

\* The next message may be recorded after these.
LEMMA AmongAppends ==
    ASSUME NEW S, NEW w \in Seq(S), NEW e \in S, NEW s, NEW t \in Nat, s[t + 1] = e,
           Logger!Among(w, s, t)
    PROVE  Logger!Among(Append(w, e), s, t + 1)
<1>1. PICK u \in Nat : u = Len(w)  BY LenProperties
<1>2. PICK x : x = Append(w, e)  OBVIOUS
<1>3. Len(x) = u + 1 /\ (\A j \in 1 .. u : x[j] = w[j]) /\ x[u + 1] = e
  BY <1>1, <1>2, AppendProperties
<1>4. \A k \in 1 .. t : k \in 1 .. t + 1 /\ k < t + 1  OBVIOUS
<1>5. t + 1 \in 1 .. t + 1  OBVIOUS
<1>6. ASSUME NEW j \in 1 .. u + 1
      PROVE  /\ \E k \in 1 .. t + 1 : s[k] = x[j]
             /\ \A i \in 1 .. j - 1 : \E k, l \in 1 .. t + 1 :
                   k < l /\ s[k] = x[i] /\ s[l] = x[j]
  <2>1. \A i \in 1 .. j - 1 : i \in 1 .. u /\ x[i] = w[i]  BY <1>3
  <2>2. CASE j \in 1 .. u
    <3>1. x[j] = w[j]  BY <1>3, <2>2
    <3>2. /\ \E k \in 1 .. t : s[k] = w[j]
          /\ \A i \in 1 .. j - 1 : \E k, l \in 1 .. t : k < l /\ s[k] = w[i] /\ s[l] = w[j]
      BY <1>1, <2>2 DEF Logger!Among
    <3>3. \E k \in 1 .. t + 1 : s[k] = x[j]  BY Zenon, <1>4, <3>1, <3>2
    <3>4. ASSUME NEW i \in 1 .. j - 1
          PROVE  \E k, l \in 1 .. t + 1 : k < l /\ s[k] = x[i] /\ s[l] = x[j]
      <4>1. PICK k \in 1 .. t, l \in 1 .. t : k < l /\ s[k] = w[i] /\ s[l] = w[j]
        BY Zenon, <3>2
      <4>2. QED  BY Zenon, <1>4, <2>1, <3>1, <4>1
    <3>5. QED  BY Zenon, <3>3, <3>4
  <2>3. CASE j \notin 1 .. u
    <3>1. j = u + 1  BY <2>3
    <3>2. s[t + 1] = x[j]  BY <1>3, <3>1
    <3>3. ASSUME NEW i \in 1 .. j - 1
          PROVE  \E k, l \in 1 .. t + 1 : k < l /\ s[k] = x[i] /\ s[l] = x[j]
      <4>1. PICK k \in 1 .. t : s[k] = w[i]  BY <1>1, <2>1 DEF Logger!Among
      <4>2. s[k] = x[i] /\ k \in 1 .. t + 1 /\ k < t + 1  BY <1>4, <2>1, <4>1
      <4>3. QED  BY Zenon, <1>5, <3>2, <4>2
    <3>4. QED  BY Zenon, <1>5, <3>2, <3>3
  <2>4. QED  BY <2>2, <2>3
<1>7. QED  BY <1>2, <1>3, <1>6 DEF Logger!Among

\* What is sent, in the queue and recorded.
Ordered == Logger!LastSent /\ Logger!SentOnce /\ Logger!RecordedTaken

\* Where none of the three sequences changes the order stays.
LEMMA SameOrder ==
    ASSUME Logger!LoggerInv, mq'.msgs = mq.msgs, logger_log'.sent = logger_log.sent,
           logger_log' = [sent |-> logger_log'.sent, early |-> logger_log'.early],
           users' = users,
           \A c \in LoggerClients : logger_client[c] = "sent" => logger_client'[c] = "sent"
    PROVE  Ordered'
<1>1. Logger!LastSent'  BY DEF Logger!LoggerInv, Logger!LastSent
<1>2. Logger!SentOnce'
  <2>1. \A k \in 1 .. Len(logger_log.sent) : logger_log.sent[k] \in LoggerClients
    BY ElementOfSeq DEF Logger!LoggerInv, Logger!LastSent
  <2>2. QED  BY <2>1 DEF Logger!LoggerInv, Logger!SentOnce
<1>3. Logger!RecordedTaken'
  BY DEF Logger!LoggerInv, Logger!RecordedTaken, Logger!Taken
<1>4. QED  BY <1>1, <1>2, <1>3 DEF Ordered

\* A message joins the end of both.
LEMMA SendOrdered ==
    ASSUME Logger!LoggerInv, NEW c \in LoggerClients, Logger!mq_send(c)
    PROVE  Ordered'
<1>1. /\ logger_client[c] = "opened" /\ logger_client' = [logger_client EXCEPT ![c] = "sent"]
      /\ mq'.msgs = Append(mq.msgs, c)
      /\ logger_log' = [logger_log EXCEPT !.sent = Append(@, c)]
      /\ users' = users
  BY HasFields DEF Logger!mq_send, Fields
<1>2. /\ logger_log'.sent = Append(logger_log.sent, c)
      /\ logger_log' = [sent |-> logger_log'.sent, early |-> logger_log'.early]
  BY <1>1, HasFields DEF Fields
<1>3. PICK s \in Seq(LoggerClients), q \in Seq(LoggerClients) :
        s = logger_log.sent /\ q = mq.msgs /\ Logger!EndOf(q, s) /\ Logger!Distinct(s)
  BY DEF Logger!LoggerInv, Logger!LastSent, Logger!TypeOK, Logger!SentOnce
<1>4. Logger!EndOf(Append(q, c), Append(s, c)) /\ Logger!Taken' = Logger!Taken
  <2>1. /\ Logger!EndOf(Append(q, c), Append(s, c))
        /\ Len(Append(s, c)) - Len(Append(q, c)) = Len(s) - Len(q)
    BY <1>3, EndAppends
  <2>2. QED  BY <1>1, <1>2, <1>3, <2>1 DEF Logger!Taken
<1>5. PICK n \in Nat : n = Len(s)  BY LenProperties
<1>6. /\ Append(s, c) \in Seq(LoggerClients) /\ Len(Append(s, c)) = n + 1
      /\ Append(s, c)[n + 1] = c /\ \A k \in 1 .. n : Append(s, c)[k] = s[k]
  BY <1>5, AppendProperties
<1>7. Logger!LastSent'  BY <1>1, <1>2, <1>3, <1>4, <1>6 DEF Logger!LastSent
<1>8. Logger!SentOnce'
  <2>1. \A k \in 1 .. n : logger_client[s[k]] = "sent" /\ s[k] \in LoggerClients
    BY <1>3, <1>5, ElementOfSeq DEF Logger!LoggerInv, Logger!SentOnce
  <2>2. Logger!Distinct(Append(s, c))  BY <1>1, <1>3, <1>5, <2>1, DistinctAppends
  <2>3. \A k \in 1 .. n + 1 : k \in 1 .. n \/ k = n + 1  OBVIOUS
  <2>4. ASSUME NEW k \in 1 .. n + 1 PROVE logger_client'[Append(s, c)[k]] = "sent"
    <3>1. CASE k \in 1 .. n  BY <1>1, <1>6, <2>1, <3>1, HasFields DEF Fields
    <3>2. CASE k = n + 1  BY <1>1, <1>6, <3>2, HasFields DEF Fields
    <3>3. QED  BY <2>3, <3>1, <3>2
  <2>5. QED  BY <1>2, <1>3, <1>6, <2>2, <2>4 DEF Logger!SentOnce
<1>9. Logger!RecordedTaken'
  <2>1. PICK t \in Nat : t = Logger!Taken /\ t <= n
    <3>1. PICK m \in Nat : m = Len(q) /\ m <= n  BY <1>3, <1>5, LenProperties DEF Logger!EndOf
    <3>2. n - m \in Nat /\ n - m <= n  BY <3>1
    <3>3. QED  BY <1>3, <1>5, <3>1, <3>2 DEF Logger!Taken
  <2>2. \A k \in 1 .. t : Append(s, c)[k] = s[k]  BY <1>6, <2>1
  <2>3. Logger!Among(users, Append(s, c), t)
    BY <1>3, <2>1, <2>2, AmongPrefix DEF Logger!LoggerInv, Logger!RecordedTaken
  <2>4. QED  BY <1>1, <1>2, <1>3, <1>4, <2>1, <2>3 DEF Logger!RecordedTaken
<1>10. QED  BY <1>7, <1>8, <1>9 DEF Ordered

\* A message leaves the head of the queue, recorded or not.
LEMMA TakeOrdered ==
    ASSUME Logger!LoggerInv, mq.msgs # <<>>, mq'.msgs = Tail(mq.msgs),
           logger_log'.sent = logger_log.sent,
           logger_log' = [sent |-> logger_log'.sent, early |-> logger_log'.early],
           logger_client' = logger_client,
           users' = users \/ users' = Append(users, Head(mq.msgs))
    PROVE  Ordered'
<1>1. PICK s \in Seq(LoggerClients), q \in Seq(LoggerClients), w \in Seq(LoggerClients) :
        s = logger_log.sent /\ q = mq.msgs /\ w = users /\ Logger!EndOf(q, s)
  BY DEF Logger!LoggerInv, Logger!LastSent, Logger!TypeOK
<1>2. /\ Logger!EndOf(Tail(q), s)
      /\ \E t \in Nat : /\ t = Len(s) - Len(q) /\ t + 1 = Len(s) - Len(Tail(q))
                        /\ t + 1 <= Len(s) /\ s[t + 1] = Head(q)
  BY <1>1, EndTails
<1>3. PICK t \in Nat : /\ t = Len(s) - Len(q) /\ t + 1 = Len(s) - Len(Tail(q))
                       /\ s[t + 1] = Head(q)
  BY <1>2
<1>4. Logger!Taken = t /\ Logger!Taken' = t + 1  BY <1>1, <1>3 DEF Logger!Taken
<1>5. Logger!LastSent'
  BY <1>1, <1>2 DEF Logger!LastSent
<1>6. Logger!SentOnce'  BY DEF Logger!LoggerInv, Logger!SentOnce
<1>7. Logger!Among(w, s, t)  BY <1>1, <1>4 DEF Logger!LoggerInv, Logger!RecordedTaken
<1>8. Logger!Among(w, s, t + 1)  BY <1>7, AmongGrows
<1>9. Head(q) \in LoggerClients  BY <1>1, HeadTailProperties
<1>10. Logger!Among(Append(w, Head(q)), s, t + 1)  BY <1>3, <1>7, <1>9, AmongAppends
<1>11. Logger!RecordedTaken'  BY <1>1, <1>4, <1>8, <1>10 DEF Logger!RecordedTaken
<1>12. QED  BY <1>5, <1>6, <1>11 DEF Ordered

\* All the other steps of the clients, the handler and main().
LEMMA StepsOrdered ==
    ASSUME Logger!LoggerInv, Logger!Next
    PROVE  Ordered'
<1>1. CASE Logger!Logger \/ Logger!cleanup
  <2>1. /\ \/ logger_log' = logger_log
           \/ logger_log' = [logger_log EXCEPT !.early = mq.msgs # <<>>]
        /\ users' = users /\ logger_client' = logger_client
        /\ \/ mq' = mq \/ mq' = [mq EXCEPT !.exists = TRUE]
           \/ mq' = [mq EXCEPT !.registered = TRUE]
           \/ mq' = [mq EXCEPT !.exists = @ /\ main.pc \notin {"wait", "draw"},
                               !.registered = FALSE]
    BY <1>1 DEF Logger!Logger, Logger!cleanup, Logger!mq_open, Logger!mq_notify,
       Logger!setup_sighandlers, Logger!sigwait, Logger!DrawUser
  <2>2. mq'.msgs = mq.msgs  BY <2>1, HasFields DEF Fields
  <2>3. QED  BY <2>1, <2>2, SameOrder, HasFields DEF Fields
<1>2. CASE Logger!Deliver \/ Logger!Reregister \/ Logger!Raise
  <2>1. /\ logger_log' = logger_log /\ users' = users /\ logger_client' = logger_client
        /\ mq' = mq \/ mq' = [mq EXCEPT !.registered = TRUE]
    BY <1>2 DEF Logger!Deliver, Logger!Reregister, Logger!Raise
  <2>2. mq'.msgs = mq.msgs  BY <2>1, HasFields DEF Fields
  <2>3. QED  BY <2>1, <2>2, SameOrder, HasFields DEF Fields
<1>3. CASE Logger!Receive
  <2>1. CASE mq.msgs = <<>>
    <3>1. mq' = mq /\ UNCHANGED <<users, logger_log, logger_client>>
      BY <1>3, <2>1 DEF Logger!Receive
    <3>2. QED  BY <3>1, SameOrder, HasFields DEF Fields
  <2>2. CASE mq.msgs # <<>>
    <3>1. /\ mq' = [mq EXCEPT !.msgs = Tail(@)] /\ UNCHANGED <<logger_log, logger_client>>
          /\ users' = users \/ users' = Append(users, Head(mq.msgs))
      BY <1>3, <2>2 DEF Logger!Receive, Logger!update
    <3>2. mq'.msgs = Tail(mq.msgs)  BY <3>1, HasFields DEF Fields
    <3>3. QED  BY <2>2, <3>1, <3>2, TakeOrdered, HasFields DEF Fields
  <2>3. QED  BY <2>1, <2>2
<1>4. CASE Logger!Drain
  <2>1. CASE mq.msgs = <<>>
    <3>1. UNCHANGED <<mq, users, logger_log, logger_client>>
      BY <1>4, <2>1 DEF Logger!Drain
    <3>2. QED  BY <3>1, SameOrder, HasFields DEF Fields
  <2>2. CASE mq.msgs # <<>>
    <3>1. mq' = [mq EXCEPT !.msgs = Tail(@)] /\ UNCHANGED <<users, logger_client, logger_log>>
      BY <1>4, <2>2 DEF Logger!Drain
    <3>2. mq'.msgs = Tail(mq.msgs) /\ logger_log'.sent = logger_log.sent
          /\ logger_log' = [sent |-> logger_log'.sent, early |-> logger_log'.early]
      BY <3>1, HasFields DEF Fields
    <3>3. QED  BY <2>2, <3>1, <3>2, TakeOrdered
  <2>3. QED  BY <2>1, <2>2
<1>5. ASSUME NEW c \in LoggerClients, Logger!OpenQueue(c) PROVE Ordered'
  <2>1. /\ UNCHANGED <<mq, users, logger_log>> /\ logger_client[c] = "start"
        /\ \E v : logger_client' = [logger_client EXCEPT ![c] = v]
    BY <1>5 DEF Logger!OpenQueue
  <2>2. \A d \in LoggerClients : logger_client[d] = "sent" => logger_client'[d] = "sent"
    BY <2>1, HasFields DEF Fields
  <2>3. QED  BY <2>1, <2>2, SameOrder, HasFields DEF Fields
<1>6. ASSUME NEW c \in LoggerClients, Logger!mq_send(c) PROVE Ordered'  BY <1>6, SendOrdered
<1>7. QED
  BY Zenon, <1>1, <1>2, <1>3, <1>4, <1>5, <1>6 DEF Logger!Next, Logger!msg_handler

------------------------------------------------------------------------------
(* ulogger.c: the invariant *)

\* Nothing is sent yet.
LEMMA LoggerStart == ASSUME Logger!Init PROVE Logger!LoggerInv
<1>1. /\ \E left \in BOOLEAN : mq = [exists |-> left, msgs |-> <<>>, registered |-> FALSE]
      /\ signals = [avail |-> 0, update |-> 0]
      /\ main = [pc |-> "start", i |-> 0]
      /\ handler = [pc |-> "none", got |-> FALSE]
      /\ users = <<>> /\ screen = {}
      /\ logger_client = [c \in LoggerClients |-> "start"]
      /\ logger_log = [sent |-> <<>>, early |-> FALSE]
  BY DEF Logger!Init
<1>2. mq.msgs = <<>> /\ logger_log.sent = <<>> /\ Len(<<>>) = 0  BY <1>1
<1>3. Logger!TypeOK
  <2>1. mq \in [exists : BOOLEAN, msgs : Seq(LoggerClients), registered : BOOLEAN]
    BY <1>1
  <2>2. Len(mq.msgs) <= MAXMSG /\ Len(users) <= MAX_USERS  BY <1>1, <1>2, LoggerFacts
  <2>3. QED  BY <1>1, <2>1, <2>2 DEF Logger!TypeOK
<1>4. Heard
  BY <1>1 DEF Heard, Logger!BeforeRegistration, Logger!OneSignal,
     Logger!HeardWhileDraining, Logger!Hears
<1>5. Logger!Drawing /\ Logger!Deaf  BY <1>1 DEF Logger!Drawing, Logger!Deaf
<1>6. Logger!LastSent /\ Logger!SentOnce
  BY <1>1, <1>2 DEF Logger!LastSent, Logger!SentOnce, Logger!EndOf, Logger!Distinct
<1>7. Logger!RecordedTaken  BY <1>1, <1>2 DEF Logger!RecordedTaken, Logger!Among
<1>8. QED  BY <1>3, <1>4, <1>5, <1>6, <1>7 DEF Logger!LoggerInv, Heard

\* Every step of the logger and its clients keeps the invariant.
LEMMA LoggerNext ==
    ASSUME Logger!LoggerInv, Logger!Next
    PROVE  Logger!LoggerInv'
<1>1. Logger!TypeOK' /\ Logger!Drawing'
  BY Zenon, MainTyped, HandlerTyped, OpenTyped, SendTyped DEF Logger!Next
<1>2. Heard'  BY Zenon, MainHeard, HandlerHeard, OpenHeard, SendHeard DEF Logger!Next
<1>3. Ordered' /\ Logger!Deaf'  BY StepsOrdered, StaysDeaf
<1>4. QED  BY <1>1, <1>2, <1>3 DEF Logger!LoggerInv, Heard, Ordered

\* While another program runs the logger's state stays.
LEMMA LoggerStays ==
    ASSUME Logger!LoggerInv, UNCHANGED logger_vars PROVE Logger!LoggerInv'
<1>1. /\ mq' = mq /\ signals' = signals /\ main' = main /\ handler' = handler
      /\ users' = users /\ screen' = screen /\ logger_client' = logger_client
      /\ logger_log' = logger_log
  BY DEF logger_vars
<1>2. Logger!TypeOK' /\ Logger!Drawing'
  BY <1>1 DEF Logger!LoggerInv, Logger!TypeOK, Logger!Drawing
<1>3. Heard'
  BY <1>1 DEF Heard, Logger!LoggerInv, Logger!BeforeRegistration, Logger!OneSignal,
     Logger!HeardWhileDraining, Logger!Hears
<1>4. Ordered' /\ Logger!Deaf'
  BY <1>1 DEF Ordered, Logger!LoggerInv, Logger!LastSent, Logger!SentOnce,
     Logger!RecordedTaken, Logger!Taken, Logger!Deaf
<1>5. QED  BY <1>2, <1>3, <1>4 DEF Logger!LoggerInv, Heard, Ordered

\* The place of a recorded message is the one it was sent in.
LEMMA LoggerImplies ==
    Logger!LoggerInv => Logger!TypeOK /\ Logger!Listening /\ Logger!RecordedInOrder
<1> SUFFICES ASSUME Logger!LoggerInv PROVE Logger!RecordedInOrder
  BY DEF Logger!LoggerInv, Logger!Listening, Logger!Deaf
<1>1. PICK n \in Nat, m \in Nat, u \in Nat :
        /\ n = Len(logger_log.sent) /\ m = Len(mq.msgs) /\ m <= n /\ u = Len(users)
  BY LenProperties DEF Logger!LoggerInv, Logger!LastSent, Logger!EndOf, Logger!TypeOK
<1>2. PICK t \in Nat : t = Logger!Taken /\ t <= n
  <2>1. m <= n  BY <1>1
  <2>2. n - m \in Nat /\ n - m <= n  BY <2>1
  <2>3. QED  BY <1>1, <2>2 DEF Logger!Taken
<1>3. PICK s : s = logger_log.sent  OBVIOUS
<1>4. \A j, k \in 1 .. n : s[j] = s[k] => j = k
  BY <1>1, <1>3 DEF Logger!LoggerInv, Logger!SentOnce, Logger!Distinct
<1>5. ASSUME NEW i \in 1 .. u, NEW j \in 1 .. u, i < j
      PROVE  (CHOOSE k \in 1 .. n : s[k] = users[i]) < (CHOOSE k \in 1 .. n : s[k] = users[j])
  <2>1. i \in 1 .. j - 1  BY <1>5
  <2>2. PICK k \in 1 .. t, l \in 1 .. t : k < l /\ s[k] = users[i] /\ s[l] = users[j]
    BY Zenon, <1>1, <1>2, <1>3, <2>1
       DEF Logger!LoggerInv, Logger!RecordedTaken, Logger!Among
  <2>3. k \in 1 .. n /\ l \in 1 .. n  BY <1>2
  <2>4. (CHOOSE x \in 1 .. n : s[x] = users[i]) = k  BY <1>4, <2>2, <2>3
  <2>5. (CHOOSE x \in 1 .. n : s[x] = users[j]) = l  BY <1>4, <2>2, <2>3
  <2>6. QED  BY <2>2, <2>4, <2>5
<1>6. QED  BY <1>1, <1>3, <1>5 DEF Logger!RecordedInOrder

------------------------------------------------------------------------------
(* sync_io_demo.c: the turns *)

\* Rounds and lengths are positive.
LEMMA SyncFacts ==
    ROUNDS \in Nat /\ ROUNDS > 0 /\ DATA_LEN \in Nat /\ DATA_LEN > 0 /\ CHUNKSIZE \in Nat
  BY ProcessesAssumption DEF Sync!SyncAssumption

\* The shape of the state, for the steps to change its parts one by one.
SyncFields ==
    /\ sync_pc = [q \in {"parent", "child"} |-> sync_pc[q]]
    /\ pending = [q \in {"parent", "child"} |-> pending[q]]
    /\ fd = [offset |-> fd.offset, size |-> fd.size]
    /\ sync_child = [count |-> sync_child.count, pos |-> sync_child.pos]
    /\ parent = [pos |-> parent.pos, unread |-> parent.unread, done |-> parent.done,
                 handlers |-> parent.handlers]
    /\ sync_log = [written |-> sync_log.written, printed |-> sync_log.printed,
                   lost |-> sync_log.lost]

\* The child moves, or the parent.
ChildMoves(from, to) ==
    /\ sync_pc["child"] = from /\ sync_pc'["child"] = to
    /\ sync_pc'["parent"] = sync_pc["parent"]
\* Of the two, the parent.
ParentMoves(from, to) ==
    /\ sync_pc["parent"] = from /\ sync_pc'["parent"] = to
    /\ sync_pc'["child"] = sync_pc["child"]

\* Goto moves one of them.
LEMMA GotoMoves ==
    ASSUME SyncFields, NEW from, NEW to
    PROVE  /\ Sync!Goto("child", from, to) => ChildMoves(from, to)
           /\ Sync!Goto("parent", from, to) => ParentMoves(from, to)
           /\ \A q \in {"parent", "child"} : Sync!Goto(q, from, to) =>
                 sync_pc' = [r \in {"parent", "child"} |-> sync_pc'[r]]
  BY DEF SyncFields, Sync!Goto, ChildMoves, ParentMoves

\* No step but a delivery changes a record in another way than by its fields.
LEMMA KeepsFields ==
    ASSUME SyncFields, Sync!Next PROVE SyncFields'
<1>1. CASE Sync!SeekToWrite
  BY <1>1, GotoMoves DEF SyncFields, Sync!SeekToWrite, Sync!Goto
<1>2. CASE Sync!Write
  BY <1>2, GotoMoves DEF SyncFields, Sync!Write, Sync!Goto
<1>3. CASE Sync!SeekEnd
  BY <1>3, GotoMoves DEF SyncFields, Sync!SeekEnd, Sync!Goto
<1>4. CASE Sync!Notify
  BY <1>4, GotoMoves DEF SyncFields, Sync!Notify, Sync!Goto, Sync!Send
<1>5. CASE Sync!Install
  BY <1>5, GotoMoves DEF SyncFields, Sync!Install, Sync!Goto
<1>6. CASE Sync!SeekToRead
  BY <1>6, GotoMoves DEF SyncFields, Sync!SeekToRead, Sync!Goto
<1>7. CASE Sync!ReadChunk \/ Sync!ReadTail
  BY <1>7, GotoMoves DEF SyncFields, Sync!ReadChunk, Sync!ReadTail, Sync!Read, Sync!Goto
<1>8. CASE Sync!SavePosition
  BY <1>8, GotoMoves DEF SyncFields, Sync!SavePosition, Sync!Goto
<1>9. CASE Sync!Reply
  BY <1>9, GotoMoves DEF SyncFields, Sync!Reply, Sync!Goto, Sync!Send
<1>10. ASSUME NEW q \in {"parent", "child"}, Sync!Pause(q) PROVE SyncFields'
  BY <1>10, GotoMoves DEF SyncFields, Sync!Pause, Sync!Goto
<1>11. ASSUME NEW q \in {"parent", "child"}, Sync!usr_handler(q) PROVE SyncFields'
  BY <1>11 DEF SyncFields, Sync!usr_handler
<1>12. QED
  BY <1>1, <1>2, <1>3, <1>4, <1>5, <1>6, <1>7, <1>8, <1>9, <1>10, <1>11
     DEF Sync!Next, Sync!produce_data, Sync!main

\* The steps that neither signal nor are signalled go on within a turn.
LEMMA TurnGoesOn ==
    ASSUME SyncFields, Sync!Turns, Sync!Installed,
           \/ Sync!SeekToWrite \/ Sync!Write \/ Sync!SeekEnd \/ Sync!Install
           \/ Sync!SeekToRead \/ Sync!ReadChunk \/ Sync!ReadTail \/ Sync!SavePosition
           \/ Sync!Pause("child") \/ Sync!Pause("parent")
    PROVE  Sync!Turns' /\ Sync!Installed'
<1>1. pending' = pending /\ sync_log'.lost = sync_log.lost
  BY DEF Sync!SeekToWrite, Sync!Write, Sync!SeekEnd, Sync!Install, Sync!SeekToRead,
     Sync!ReadChunk, Sync!ReadTail, Sync!Read, Sync!SavePosition, Sync!Pause, SyncFields
<1>2. CASE Sync!SeekToWrite \/ Sync!Write \/ Sync!SeekEnd
  <2>1. /\ parent' = parent
        /\ \/ ChildMoves("seek", "write") \/ ChildMoves("write", "end")
           \/ ChildMoves("end", "notify")
    BY <1>2, GotoMoves DEF Sync!SeekToWrite, Sync!Write, Sync!SeekEnd
  <2>2. QED  BY <1>1, <2>1 DEF Sync!Turns, Sync!Installed, ChildMoves
<1>3. CASE Sync!Install
  <2>1. \/ /\ ParentMoves("install", "install2") /\ parent'.handlers = {"SIGUSR1"}
           /\ (parent'.done <=> parent.done)
        \/ /\ ParentMoves("install2", "pause") /\ parent'.handlers = {"SIGUSR1", "SIGUSR2"}
           /\ (parent'.done <=> parent.done)
    BY <1>3, GotoMoves DEF Sync!Install, SyncFields
  <2>2. QED  BY <1>1, <2>1 DEF Sync!Turns, Sync!Installed, ParentMoves
<1>4. CASE Sync!SeekToRead
  <2>1. /\ parent'.handlers = parent.handlers /\ (parent'.done <=> parent.done)
        /\ ParentMoves("size", "seek") \/ ParentMoves("seek", "read")
    BY <1>4, GotoMoves DEF Sync!SeekToRead, SyncFields
  <2>2. QED  BY <1>1, <2>1 DEF Sync!Turns, Sync!Installed, ParentMoves
<1>5. CASE Sync!ReadChunk
  <2>1. /\ parent'.handlers = parent.handlers /\ (parent'.done <=> parent.done)
        /\ ParentMoves("read", "read")
    BY <1>5, GotoMoves DEF Sync!ReadChunk, Sync!Read, SyncFields
  <2>2. QED  BY <1>1, <2>1 DEF Sync!Turns, Sync!Installed, ParentMoves
<1>6. CASE Sync!ReadTail
  <2>1. /\ parent'.handlers = parent.handlers /\ (parent'.done <=> parent.done) /\ parent.done
        /\ ParentMoves("read", "exit")
    BY <1>6, GotoMoves DEF Sync!ReadTail, Sync!Read, SyncFields
  <2>2. QED  BY <1>1, <2>1 DEF Sync!Turns, Sync!Installed, ParentMoves
<1>7. CASE Sync!SavePosition
  <2>1. /\ parent'.handlers = parent.handlers /\ (parent'.done <=> parent.done) /\ ~parent.done
        /\ ParentMoves("read", "reply")
    BY <1>7, GotoMoves DEF Sync!SavePosition, SyncFields
  <2>2. QED  BY <1>1, <2>1 DEF Sync!Turns, Sync!Installed, ParentMoves
<1>8. CASE Sync!Pause("child") \/ Sync!Pause("parent")
  <2>1. /\ parent' = parent
        /\ ChildMoves("pause", "paused") \/ ParentMoves("pause", "paused")
    BY <1>8, GotoMoves DEF Sync!Pause
  <2>2. QED  BY <1>1, <2>1 DEF Sync!Turns, Sync!Installed, ChildMoves, ParentMoves
<1>9. QED  BY <1>2, <1>3, <1>4, <1>5, <1>6, <1>7, <1>8

\* Where a signal finds its receiver.
NotReading == {"install", "install2", "pause", "paused"}

\* A signal that is sent ends a turn.  Its delivery to a process in pause(), the
\* handler installed, begins the other's; to any other process it is lost.
LEMMA TurnPasses ==
    ASSUME SyncFields, Sync!Turns, Sync!Installed,
           Sync!Notify \/ Sync!Reply \/ Sync!usr_handler("child") \/ Sync!usr_handler("parent")
    PROVE  Sync!Turns' /\ Sync!Installed'
<1>1. CASE Sync!Notify
  <2>1. /\ parent' = parent
        /\ \/ /\ ChildMoves("notify", "pause")
              /\ pending' = [pending EXCEPT !["parent"] = @ \cup {"SIGUSR1"}]
           \/ /\ ChildMoves("notify", "exit")
              /\ pending' = [pending EXCEPT !["parent"] = @ \cup {"SIGUSR2"}]
    BY <1>1, GotoMoves DEF Sync!Notify, Sync!Send
  <2>2. /\ pending["parent"] = {} /\ pending["child"] = {} /\ ~parent.done
        /\ sync_pc["parent"] \in NotReading
    BY <2>1 DEF Sync!Turns, ChildMoves, NotReading
  <2>3. /\ pending'["child"] = {}
        /\ \/ ChildMoves("notify", "pause") /\ pending'["parent"] = {"SIGUSR1"}
           \/ ChildMoves("notify", "exit") /\ pending'["parent"] = {"SIGUSR2"}
    BY <2>1, <2>2 DEF SyncFields
  <2>4. QED  BY <2>1, <2>2, <2>3 DEF Sync!Turns, Sync!Installed, ChildMoves, NotReading
<1>2. CASE Sync!Reply
  <2>1. /\ parent' = parent /\ ParentMoves("reply", "pause")
        /\ pending' = [pending EXCEPT !["child"] = @ \cup {"SIGUSR1"}]
    BY <1>2, GotoMoves DEF Sync!Reply, Sync!Send
  <2>2. /\ pending["parent"] = {} /\ pending["child"] = {} /\ ~parent.done
        /\ sync_pc["child"] \in {"pause", "paused"}
    BY <2>1 DEF Sync!Turns, ParentMoves
  <2>3. pending'["child"] = {"SIGUSR1"} /\ pending'["parent"] = {}
    BY <2>1, <2>2 DEF SyncFields
  <2>4. QED  BY <2>1, <2>2, <2>3 DEF Sync!Turns, Sync!Installed, ParentMoves
<1>3. CASE Sync!usr_handler("child")
  <2>1. PICK sig \in pending["child"] :
          /\ pending' = [pending EXCEPT !["child"] = @ \ {sig}]
          /\ parent' = [parent EXCEPT !.done = @ \/ FALSE]
          /\ sync_pc' = [sync_pc EXCEPT !["child"] = IF @ # "paused" THEN @ ELSE "seek"]
          /\ sync_log' = [sync_log EXCEPT !.lost = @ \/ sync_pc["child"] # "paused"]
    BY <1>3 DEF Sync!usr_handler
  <2>2. /\ sync_pc["child"] \in {"pause", "paused"}
        /\ sync_pc["parent"] \in {"pause", "paused"}
        /\ pending["parent"] = {} /\ pending["child"] = {"SIGUSR1"} /\ ~parent.done
    BY <2>1 DEF Sync!Turns
  <2>3. /\ pending'["child"] = {} /\ pending'["parent"] = {}
        /\ ~parent'.done /\ parent'.handlers = parent.handlers
        /\ sync_pc'["parent"] = sync_pc["parent"]
        /\ \/ sync_pc["child"] = "paused" /\ sync_pc'["child"] = "seek"
           \/ sync_pc["child"] = "pause" /\ sync_pc'["child"] = "pause" /\ sync_log'.lost
    BY <2>1, <2>2 DEF SyncFields
  <2>4. QED  BY <2>2, <2>3 DEF Sync!Turns, Sync!Installed
<1>4. CASE Sync!usr_handler("parent")
  <2>1. PICK sig \in pending["parent"] :
          /\ pending' = [pending EXCEPT !["parent"] = @ \ {sig}]
          /\ parent' = [parent EXCEPT !.done = @ \/ sig = "SIGUSR2"]
          /\ sync_pc' = [sync_pc EXCEPT !["parent"] =
                           IF ~(sig \in parent.handlers) THEN "killed"
                           ELSE IF @ # "paused" THEN @ ELSE "size"]
          /\ sync_log' = [sync_log EXCEPT !.lost = @ \/ sync_pc["parent"] # "paused"]
    BY <1>4 DEF Sync!usr_handler
  <2>2. /\ sync_pc["parent"] \in NotReading /\ ~parent.done /\ pending["child"] = {}
        /\ \/ pending["parent"] = {"SIGUSR1"} /\ sync_pc["child"] \in {"pause", "paused"}
           \/ pending["parent"] = {"SIGUSR2"} /\ sync_pc["child"] = "exit"
    BY <2>1 DEF Sync!Turns, NotReading
  <2>3. /\ pending'["parent"] = {} /\ pending'["child"] = {}
        /\ parent'.handlers = parent.handlers
        /\ sync_pc'["child"] = sync_pc["child"]
    BY <2>1, <2>2 DEF SyncFields
  <2>4. CASE sync_pc["parent"] = "paused"
    <3>1. parent.handlers = {"SIGUSR1", "SIGUSR2"}  BY <2>4 DEF Sync!Installed
    <3>2. sync_pc'["parent"] = "size"  BY <2>1, <2>2, <2>4, <3>1 DEF SyncFields
    <3>3. parent'.done <=> sig = "SIGUSR2"  BY <2>1, <2>2 DEF SyncFields
    <3>4. QED  BY <2>1, <2>2, <2>3, <2>4, <3>1, <3>2, <3>3 DEF Sync!Turns, Sync!Installed
  <2>5. CASE sync_pc["parent"] \in {"install", "install2", "pause"}
    <3>1. sync_log'.lost  BY <2>1, <2>5 DEF SyncFields
    <3>2. \/ sync_pc'["parent"] = "killed"
          \/ sync_pc'["parent"] = sync_pc["parent"] /\ sig \in parent.handlers
      BY <2>1, <2>5 DEF SyncFields
    <3>3. sync_pc'["parent"] \in {"install2", "pause", "killed"}
      BY <2>5, <3>2 DEF Sync!Installed
    <3>4. Sync!Installed'  BY <2>3, <2>5, <3>2 DEF Sync!Installed
    <3>5. QED  BY <2>2, <2>3, <3>1, <3>3, <3>4 DEF Sync!Turns
  <2>6. QED  BY <2>2, <2>4, <2>5 DEF NotReading
<1>5. QED  BY <1>1, <1>2, <1>3, <1>4

------------------------------------------------------------------------------
(* sync_io_demo.c: the data *)

\* One more round is written where the last one ended.
LEMMA RoundAppended ==
    ASSUME NEW n \in Nat
    PROVE  Append([k \in 1 .. n |-> (k - 1) * DATA_LEN], n * DATA_LEN)
             = [k \in 1 .. n + 1 |-> (k - 1) * DATA_LEN]
<1> DEFINE w == [k \in 1 .. n |-> (k - 1) * DATA_LEN]
           v == [k \in 1 .. n + 1 |-> (k - 1) * DATA_LEN]
<1>1. w \in Seq(Int) /\ Len(w) = n  BY SyncFacts
<1>2. v \in Seq(Int) /\ Len(v) = n + 1  BY SyncFacts
<1>3. n * DATA_LEN \in Int  BY SyncFacts
<1>4. /\ Append(w, n * DATA_LEN) \in Seq(Int) /\ Len(Append(w, n * DATA_LEN)) = n + 1
      /\ \A k \in 1 .. n : Append(w, n * DATA_LEN)[k] = w[k]
      /\ Append(w, n * DATA_LEN)[n + 1] = n * DATA_LEN
  <2> HIDE DEF w
  <2>1. QED  BY <1>1, <1>3, AppendProperties
<1>5. ASSUME NEW k \in 1 .. n + 1 PROVE Append(w, n * DATA_LEN)[k] = v[k]
  <2>1. CASE k = n + 1
    <3>1. v[n + 1] = n * DATA_LEN  OBVIOUS
    <3>2. QED  BY <2>1, <3>1, <1>4
  <2>2. CASE k # n + 1
    <3>1. k \in 1 .. n  BY <2>2
    <3>2. QED  BY <3>1, <1>4
  <2>3. QED  BY <2>1, <2>2
<1> HIDE DEF w, v
<1>6. Append(w, n * DATA_LEN) = v  BY <1>1, <1>2, <1>3, <1>4, <1>5, SeqEqual
<1>7. QED  BY <1>6 DEF w, v

\* What a step leaves of the file and the child's locals if it is none of theirs.
ChildRests ==
    /\ sync_child' = sync_child /\ sync_log'.written = sync_log.written /\ fd'.size = fd.size
    /\ \/ sync_pc'["child"] = sync_pc["child"]
       \/ ChildMoves("pause", "paused") \/ ChildMoves("paused", "seek")
    /\ sync_pc["child"] = "write" => fd'.offset = fd.offset

\* All steps but those that write and count leave these so.
LEMMA ChildsRest ==
    ASSUME SyncFields, Sync!Turns, Sync!Next,
           ~Sync!SeekToWrite, ~Sync!Write, ~Sync!SeekEnd, ~Sync!Notify
    PROVE  ChildRests
<1>1. CASE Sync!Install
  BY <1>1, GotoMoves DEF Sync!Install, ChildRests, ParentMoves
<1>2. CASE Sync!SeekToRead
  BY <1>2, GotoMoves DEF Sync!SeekToRead, ChildRests, ParentMoves, SyncFields, Sync!Turns
<1>3. CASE Sync!ReadChunk \/ Sync!ReadTail
  BY <1>3, GotoMoves
     DEF Sync!ReadChunk, Sync!ReadTail, Sync!Read, ChildRests, ParentMoves, SyncFields, Sync!Turns
<1>4. CASE Sync!SavePosition
  BY <1>4, GotoMoves DEF Sync!SavePosition, ChildRests, ParentMoves
<1>5. CASE Sync!Reply
  BY <1>5, GotoMoves DEF Sync!Reply, ChildRests, ParentMoves
<1>6. CASE Sync!Pause("child") \/ Sync!Pause("parent")
  BY <1>6, GotoMoves DEF Sync!Pause, ChildRests, ParentMoves, ChildMoves
<1>7. CASE Sync!usr_handler("child")
  <2>1. PICK sig \in pending["child"] :
          sync_pc' = [sync_pc EXCEPT !["child"] = IF @ # "paused" THEN @ ELSE "seek"]
    BY <1>7 DEF Sync!usr_handler
  <2>2. UNCHANGED <<fd, sync_child>> /\ sync_log'.written = sync_log.written
    BY <1>7 DEF Sync!usr_handler, SyncFields
  <2>3. QED  BY <2>1, <2>2 DEF ChildRests, ChildMoves, SyncFields
<1>8. CASE Sync!usr_handler("parent")
  <2>1. sync_pc'["child"] = sync_pc["child"]  BY <1>8 DEF Sync!usr_handler, SyncFields
  <2>2. UNCHANGED <<fd, sync_child>> /\ sync_log'.written = sync_log.written
    BY <1>8 DEF Sync!usr_handler, SyncFields
  <2>3. QED  BY <2>1, <2>2 DEF ChildRests
<1>9. QED
  BY <1>1, <1>2, <1>3, <1>4, <1>5, <1>6, <1>7, <1>8 DEF Sync!Next, Sync!produce_data, Sync!main

\* Each round is written after the one before.
LEMMA KeepsWritten ==
    ASSUME SyncFields, Sync!Turns, Sync!RoundsWritten, Sync!Next PROVE Sync!RoundsWritten'
<1> USE SyncFacts
<1> DEFINE c == sync_child.count
<1>0. c \in Int  BY DEF Sync!RoundsWritten
<1>1. CASE Sync!SeekToWrite
  <2>1. /\ ChildMoves("seek", "write") /\ fd'.offset = sync_child.pos /\ fd'.size = fd.size
        /\ UNCHANGED <<sync_child, sync_log>>
    BY <1>1, GotoMoves DEF Sync!SeekToWrite, SyncFields
  <2>2. Sync!Rounds' = Sync!Rounds  BY <2>1 DEF Sync!Rounds, ChildMoves
  <2>3. QED  BY <2>1, <2>2 DEF Sync!RoundsWritten, ChildMoves
<1>2. CASE Sync!Write
  <2>1. /\ ChildMoves("write", "end") /\ UNCHANGED sync_child
        /\ sync_log'.written = Append(sync_log.written, fd.offset)
        /\ fd'.size = IF fd.offset + DATA_LEN > fd.size THEN fd.offset + DATA_LEN ELSE fd.size
    BY <1>2, GotoMoves DEF Sync!Write, SyncFields
  <2>2. /\ c \in Nat /\ c < ROUNDS /\ Sync!Rounds = c /\ fd.size = c * DATA_LEN
        /\ fd.offset = c * DATA_LEN
        /\ sync_log.written = [k \in 1 .. c |-> (k - 1) * DATA_LEN]
    BY <2>1, <1>0 DEF Sync!RoundsWritten, Sync!Rounds, ChildMoves
  <2>3. Sync!Rounds' = c + 1  BY <2>1, <2>2 DEF Sync!Rounds, ChildMoves
  <2>4. sync_log'.written = [k \in 1 .. c + 1 |-> (k - 1) * DATA_LEN]
    BY <2>1, <2>2, RoundAppended
  <2>5. fd'.size = (c + 1) * DATA_LEN
    <3>1. c * DATA_LEN \in Nat /\ c * DATA_LEN + DATA_LEN = (c + 1) * DATA_LEN  BY <2>2
    <3>2. QED  BY <2>1, <2>2, <3>1
  <2>6. QED  BY <2>1, <2>2, <2>3, <2>4, <2>5 DEF Sync!RoundsWritten, ChildMoves
<1>3. CASE Sync!SeekEnd
  <2>1. /\ ChildMoves("end", "notify") /\ UNCHANGED sync_log /\ fd'.size = fd.size
        /\ sync_child'.count = c + 1 /\ sync_child'.pos = fd.size
    BY <1>3, GotoMoves DEF Sync!SeekEnd, SyncFields
  <2>2. Sync!Rounds' = Sync!Rounds  BY <2>1, <1>0 DEF Sync!Rounds, ChildMoves
  <2>3. c < ROUNDS  BY <2>1 DEF Sync!RoundsWritten, ChildMoves
  <2>4. c + 1 \in 0 .. ROUNDS  BY <2>3 DEF Sync!RoundsWritten
  <2>5. QED  BY <2>1, <2>2, <2>4 DEF Sync!RoundsWritten, ChildMoves
<1>4. CASE Sync!Notify
  <2>1. /\ UNCHANGED <<sync_child, sync_log, fd>>
        /\ \/ ChildMoves("notify", "pause") /\ c < ROUNDS
           \/ ChildMoves("notify", "exit") /\ c >= ROUNDS
    BY <1>4, GotoMoves DEF Sync!Notify
  <2>2. Sync!Rounds' = Sync!Rounds  BY <2>1 DEF Sync!Rounds, ChildMoves
  <2>3. QED  BY <2>1, <2>2 DEF Sync!RoundsWritten, ChildMoves
<1>5. CASE ChildRests
  <2>1. Sync!Rounds' = Sync!Rounds  BY <1>5 DEF Sync!Rounds, ChildRests, ChildMoves
  <2>2. QED  BY <1>5, <2>1 DEF Sync!RoundsWritten, ChildRests, ChildMoves
<1>6. QED  BY <1>1, <1>2, <1>3, <1>4, <1>5, ChildsRest

\* What a step leaves of the parent's locals if it is none of its reading steps.
ParentRests ==
    /\ parent'.pos = parent.pos /\ parent'.unread = parent.unread
    /\ sync_log'.printed = sync_log.printed
    /\ fd'.offset \in Int /\ fd'.size \in Int
    /\ sync_pc["parent"] \in {"seek", "read", "exit"} => fd' = fd
    /\ \/ sync_pc'["parent"] = sync_pc["parent"]
       \/ sync_pc["parent"] \notin {"read", "exit"} /\ sync_pc'["parent"] \notin {"seek", "read", "exit"}

\* All steps but those that seek to read, read or save leave these so.
LEMMA ParentsRest ==
    ASSUME SyncFields, Sync!Turns, Sync!Installed, Sync!RoundsWritten,
           Sync!ReadUpTo, Sync!Next,
           ~Sync!SeekToRead, ~Sync!ReadChunk, ~Sync!ReadTail, ~Sync!SavePosition
    PROVE  ParentRests
<1> USE SyncFacts
<1>0. /\ fd.offset \in Int /\ fd.size \in Int
      /\ sync_pc["child"] = "seek" => sync_child.pos \in Int
  BY DEF Sync!RoundsWritten, Sync!ReadUpTo
<1>1. CASE Sync!SeekToWrite
  BY <1>0, <1>1, GotoMoves DEF Sync!SeekToWrite, ParentRests, ChildMoves, SyncFields, Sync!Turns
<1>2. CASE Sync!Write
  <2>1. /\ ChildMoves("write", "end") /\ UNCHANGED parent
        /\ sync_log'.printed = sync_log.printed
        /\ fd'.offset = fd.offset + DATA_LEN
        /\ fd'.size = IF fd.offset + DATA_LEN > fd.size THEN fd.offset + DATA_LEN ELSE fd.size
    BY <1>2, GotoMoves DEF Sync!Write, SyncFields
  <2>2. fd'.offset \in Int /\ fd'.size \in Int  BY <2>1, <1>0
  <2>3. sync_pc["parent"] \notin {"seek", "read", "exit"}
    BY <2>1 DEF ChildMoves, Sync!Turns
  <2>4. QED  BY <2>1, <2>2, <2>3 DEF ParentRests, ChildMoves
<1>3. CASE Sync!SeekEnd
  BY <1>0, <1>3, GotoMoves DEF Sync!SeekEnd, ParentRests, ChildMoves, SyncFields, Sync!Turns
<1>4. CASE Sync!Notify
  BY <1>0, <1>4, GotoMoves DEF Sync!Notify, ParentRests, ChildMoves
<1>5. CASE Sync!Install
  BY <1>0, <1>5, GotoMoves DEF Sync!Install, ParentRests, ParentMoves, SyncFields
<1>6. CASE Sync!Reply
  BY <1>0, <1>6, GotoMoves DEF Sync!Reply, ParentRests, ParentMoves
<1>7. CASE Sync!Pause("child") \/ Sync!Pause("parent")
  BY <1>0, <1>7, GotoMoves DEF Sync!Pause, ParentRests, ParentMoves, ChildMoves
<1>8. CASE Sync!usr_handler("child")
  <2>1. sync_pc'["parent"] = sync_pc["parent"]  BY <1>8 DEF Sync!usr_handler, SyncFields
  <2>2. /\ fd' = fd /\ sync_log'.printed = sync_log.printed
        /\ parent'.pos = parent.pos /\ parent'.unread = parent.unread
    BY <1>8 DEF Sync!usr_handler, SyncFields
  <2>3. QED  BY <1>0, <2>1, <2>2 DEF ParentRests
<1>9. CASE Sync!usr_handler("parent")
  <2>1. /\ pending["parent"] # {}
        /\ \/ sync_pc'["parent"] = sync_pc["parent"]
           \/ sync_pc'["parent"] = "killed" \/ sync_pc'["parent"] = "size"
    BY <1>9 DEF Sync!usr_handler, SyncFields
  <2>2. /\ fd' = fd /\ sync_log'.printed = sync_log.printed
        /\ parent'.pos = parent.pos /\ parent'.unread = parent.unread
    BY <1>9 DEF Sync!usr_handler, SyncFields
  <2>3. sync_pc["parent"] \in NotReading  BY <2>1 DEF Sync!Turns, NotReading
  <2>4. QED  BY <1>0, <2>1, <2>2, <2>3 DEF ParentRests, NotReading
<1>10. QED
  BY <1>1, <1>2, <1>3, <1>4, <1>5, <1>6, <1>7, <1>8, <1>9
     DEF Sync!Next, Sync!produce_data, Sync!main

\* A sequence that was appended to is not empty.
LEMMA Appended ==
    ASSUME NEW S, NEW s \in Seq(S), NEW e \in S PROVE Append(s, e) # <<>>
<1>1. Len(s) \in Nat /\ Len(Append(s, e)) = Len(s) + 1  BY AppendProperties, LenProperties
<1>2. QED  BY <1>1

\* A read prints what follows what is printed.
LEMMA ReadPrints ==
    ASSUME SyncFields, Sync!NoGap, fd.offset = Sync!Printed, fd.offset \in Int,
           NEW n \in Int, NEW to, Sync!Read(n, to)
    PROVE  /\ Sync!NoGap'
           /\ Sync!Printed' = fd.offset + n
           /\ sync_log'.printed # <<>>
<1> DEFINE P == sync_log.printed
           Q == Append(P, <<fd.offset, n>>)
<1>1. sync_log'.printed = Q  BY DEF Sync!Read, SyncFields
<1>2. PICK L \in Nat : L = Len(P)  BY DEF Sync!NoGap
<1>3. P \in Seq(Int \X Int) /\ <<fd.offset, n>> \in Int \X Int  BY DEF Sync!NoGap
<1>4. /\ Q \in Seq(Int \X Int) /\ Len(Q) = L + 1 /\ Q[L + 1] = <<fd.offset, n>>
      /\ \A k \in 1 .. L : Q[k] = P[k]
  <2> HIDE DEF P
  <2>1. QED  BY <1>2, <1>3, AppendProperties
<1>5. Q # <<>>
  <2> HIDE DEF P
  <2>1. QED  BY <1>3, Appended, Zenon
<1>6. Sync!Printed' = fd.offset + n  BY <1>1, <1>4, <1>5 DEF Sync!Printed
<1>7. Q[1][1] = 0
  <2>1. CASE L = 0
    <3>1. P = <<>>  BY <2>1, <1>2, <1>3, EmptySeq
    <3>2. QED  BY <3>1, <2>1, <1>4 DEF Sync!Printed
  <2>2. CASE L # 0
    <3>1. 1 \in 1 .. L /\ P # <<>>  BY <2>2, <1>2
    <3>2. QED  BY <3>1, <1>4 DEF Sync!NoGap
  <2>3. QED  BY <2>1, <2>2
<1>8. ASSUME NEW k \in 1 .. Len(Q) - 1 PROVE Q[k][1] + Q[k][2] = Q[k + 1][1]
  <2>1. k \in 1 .. L  BY <1>4
  <2>2. CASE k = L
    <3>1. P # <<>>  BY <2>1, <1>2
    <3>2. P[L][1] + P[L][2] = fd.offset  BY <3>1, <1>2 DEF Sync!Printed
    <3>3. QED  BY <3>2, <2>1, <2>2, <1>4
  <2>3. CASE k # L
    <3>1. k \in 1 .. L - 1 /\ k + 1 \in 1 .. L  BY <2>1, <2>3
    <3>2. P[k][1] + P[k][2] = P[k + 1][1]  BY <3>1, <1>2 DEF Sync!NoGap
    <3>3. QED  BY <3>1, <3>2, <2>1, <1>4
  <2>4. QED  BY <2>2, <2>3
<1> HIDE DEF Q
<1>9. Sync!NoGap'  BY <1>1, <1>4, <1>7, <1>8 DEF Sync!NoGap
<1>10. QED  BY <1>1, <1>5, <1>6, <1>9

\* What is printed and where the parent reads on.
LEMMA KeepsRead ==
    ASSUME SyncFields, Sync!Turns, Sync!Installed, Sync!RoundsWritten,
           Sync!NoGap, Sync!ReadUpTo, Sync!Next
    PROVE  Sync!NoGap' /\ Sync!ReadUpTo'
<1> USE SyncFacts
<1>0. /\ fd.offset \in Int /\ fd.size \in Int /\ parent.pos \in Int /\ parent.unread \in Int
  BY DEF Sync!ReadUpTo
<1>1. CASE ParentRests
  <2>1. Sync!NoGap' /\ Sync!Printed' = Sync!Printed
    BY <1>1 DEF ParentRests, Sync!NoGap, Sync!Printed
  <2>2. QED  BY <1>0, <1>1, <2>1 DEF ParentRests, Sync!ReadUpTo
<1>2. CASE Sync!SeekToRead
  <2>1. sync_log' = sync_log /\ parent'.pos = parent.pos /\ fd'.size = fd.size
    BY <1>2 DEF Sync!SeekToRead, SyncFields
  <2>2. Sync!NoGap' /\ Sync!Printed' = Sync!Printed
    BY <2>1 DEF Sync!NoGap, Sync!Printed
  <2>3. \/ /\ ParentMoves("size", "seek") /\ fd'.offset = fd.size
           /\ parent'.unread = fd.size - parent.pos
        \/ /\ ParentMoves("seek", "read") /\ fd'.offset = parent.pos
           /\ parent'.unread = parent.unread
    BY <1>2, GotoMoves DEF Sync!SeekToRead, SyncFields
  <2>4. QED  BY <1>0, <2>1, <2>2, <2>3 DEF Sync!ReadUpTo, ParentMoves
<1>3. CASE Sync!ReadChunk
  <2>1. /\ ParentMoves("read", "read") /\ parent'.pos = parent.pos
        /\ parent'.unread = parent.unread - CHUNKSIZE
        /\ fd'.offset = fd.offset + CHUNKSIZE /\ fd'.size = fd.size
    BY <1>3, GotoMoves DEF Sync!ReadChunk, Sync!Read, SyncFields
  <2>2. fd.offset = Sync!Printed /\ parent.unread = fd.size - fd.offset
    BY <2>1 DEF ParentMoves, Sync!ReadUpTo
  <2>3. Sync!Read(CHUNKSIZE, "read") /\ CHUNKSIZE \in Int  BY <1>3 DEF Sync!ReadChunk
  <2>4. Sync!NoGap' /\ Sync!Printed' = fd.offset + CHUNKSIZE
    BY <1>0, <2>2, <2>3, ReadPrints
  <2>5. parent.unread - CHUNKSIZE = fd.size - (fd.offset + CHUNKSIZE)
    BY <1>0, <2>2
  <2>6. QED  BY <1>0, <2>1, <2>4, <2>5 DEF Sync!ReadUpTo, ParentMoves
<1>4. CASE Sync!ReadTail
  <2>1. /\ ParentMoves("read", "exit") /\ parent'.pos = parent.pos
        /\ parent'.unread = parent.unread - parent.unread
        /\ fd'.offset = fd.offset + parent.unread /\ fd'.size = fd.size
    BY <1>4, GotoMoves DEF Sync!ReadTail, Sync!Read, SyncFields
  <2>2. fd.offset = Sync!Printed /\ parent.unread = fd.size - fd.offset
    BY <2>1 DEF ParentMoves, Sync!ReadUpTo
  <2>3. Sync!Read(parent.unread, "exit")  BY <1>4 DEF Sync!ReadTail
  <2>4. Sync!NoGap' /\ Sync!Printed' = fd.offset + parent.unread /\ sync_log'.printed # <<>>
    BY <1>0, <2>2, <2>3, ReadPrints
  <2>5. fd.offset + parent.unread = fd.size  BY <1>0, <2>2
  <2>6. QED  BY <1>0, <2>1, <2>4, <2>5 DEF Sync!ReadUpTo, ParentMoves
<1>5. CASE Sync!SavePosition
  <2>1. /\ ParentMoves("read", "reply") /\ parent'.pos = fd.offset
        /\ parent'.unread = parent.unread /\ fd' = fd /\ sync_log' = sync_log
    BY <1>5, GotoMoves DEF Sync!SavePosition, SyncFields
  <2>2. Sync!NoGap' /\ Sync!Printed' = Sync!Printed
    BY <2>1 DEF Sync!NoGap, Sync!Printed
  <2>3. QED  BY <1>0, <2>1, <2>2 DEF Sync!ReadUpTo, ParentMoves
<1>6. QED  BY <1>1, <1>2, <1>3, <1>4, <1>5, ParentsRest

\* Together, from the start and over every step.
LEMMA SyncStart == Sync!Init => Sync!IOInv
<1> SUFFICES ASSUME Sync!Init PROVE Sync!IOInv
  OBVIOUS
<1> USE SyncFacts DEF Sync!Init
<1>1. SyncFields  BY DEF SyncFields
<1>2. Sync!Turns  BY DEF Sync!Turns
<1>3. Sync!Installed  BY DEF Sync!Installed
<1>4. Sync!RoundsWritten
  <2>1. Sync!Rounds = 0  BY DEF Sync!Rounds
  <2>2. sync_log.written = [k \in 1 .. 0 |-> (k - 1) * DATA_LEN]
    <3>1. [k \in 1 .. 0 |-> (k - 1) * DATA_LEN] = <<>>  OBVIOUS
    <3>2. QED  BY <3>1
  <2>3. QED  BY <2>1, <2>2 DEF Sync!RoundsWritten
<1>5. Sync!NoGap  BY DEF Sync!NoGap
<1>6. Sync!ReadUpTo  BY DEF Sync!ReadUpTo, Sync!Printed
<1>7. QED
  BY <1>1, <1>2, <1>3, <1>4, <1>5, <1>6 DEF SyncFields, Sync!IOInv

\* Every step.
LEMMA SyncNext == ASSUME Sync!IOInv, Sync!Next PROVE Sync!IOInv'
<1>1. /\ SyncFields /\ Sync!Turns /\ Sync!Installed /\ Sync!RoundsWritten
      /\ Sync!NoGap /\ Sync!ReadUpTo
  BY DEF SyncFields, Sync!IOInv
<1>2. SyncFields'  BY <1>1, KeepsFields
<1>3. Sync!Turns' /\ Sync!Installed'
  BY <1>1, TurnGoesOn, TurnPasses DEF Sync!Next, Sync!produce_data, Sync!main
<1>4. Sync!RoundsWritten'  BY <1>1, KeepsWritten
<1>5. Sync!NoGap' /\ Sync!ReadUpTo'  BY <1>1, KeepsRead
<1>6. QED  BY <1>2, <1>3, <1>4, <1>5 DEF SyncFields, Sync!IOInv

\* The steps of the other programs.
LEMMA SyncStays == ASSUME UNCHANGED sync_vars, Sync!IOInv PROVE Sync!IOInv'
<1>1. /\ SyncFields' = SyncFields /\ Sync!Turns' = Sync!Turns /\ Sync!Installed' = Sync!Installed
      /\ Sync!Rounds' = Sync!Rounds /\ Sync!Printed' = Sync!Printed
  BY DEF sync_vars, SyncFields, Sync!Turns, Sync!Installed, Sync!Rounds, Sync!Printed
<1>2. /\ Sync!RoundsWritten' = Sync!RoundsWritten /\ Sync!NoGap' = Sync!NoGap
      /\ Sync!ReadUpTo' = Sync!ReadUpTo
  BY <1>1 DEF sync_vars, Sync!RoundsWritten, Sync!NoGap, Sync!ReadUpTo
<1>3. QED  BY <1>1, <1>2 DEF SyncFields, Sync!IOInv

\* Neither moves the other's offset, all is printed at the parent's exit, and
\* nobody waits for ever but after the loss of a signal.
LEMMA SyncImplies ==
    Sync!IOInv => Sync!TurnsTaken /\ Sync!AllPrintedAtExit /\ Sync!AsleepOnlyIfLost
<1> SUFFICES ASSUME Sync!IOInv
             PROVE  Sync!TurnsTaken /\ Sync!AllPrintedAtExit /\ Sync!AsleepOnlyIfLost
  OBVIOUS
<1> USE SyncFacts
<1>1. Sync!TurnsTaken  BY DEF Sync!IOInv, Sync!Turns, Sync!TurnsTaken
<1>2. ASSUME sync_pc["parent"] = "exit"
      PROVE  /\ sync_log.written = [k \in 1 .. ROUNDS |-> (k - 1) * DATA_LEN]
             /\ sync_log.printed[1][1] = 0
             /\ \A k \in 1 .. Len(sync_log.printed) :
                  sync_log.printed[k][1] + sync_log.printed[k][2]
                    = IF k = Len(sync_log.printed) THEN fd.size ELSE sync_log.printed[k + 1][1]
  <2>1. sync_pc["child"] = "exit"  BY <1>2 DEF Sync!IOInv, Sync!Turns
  <2>2. Sync!Rounds = ROUNDS  BY <2>1 DEF Sync!IOInv, Sync!RoundsWritten, Sync!Rounds
  <2>3. sync_log.written = [k \in 1 .. ROUNDS |-> (k - 1) * DATA_LEN]
    BY <2>2 DEF Sync!IOInv, Sync!RoundsWritten
  <2>4. /\ sync_log.printed # <<>> /\ Sync!Printed = fd.size
    BY <1>2 DEF Sync!IOInv, Sync!ReadUpTo
  <2>5. sync_log.printed[1][1] = 0  BY <2>4 DEF Sync!IOInv, Sync!NoGap
  <2>6. PICK L \in Nat : L = Len(sync_log.printed)
    <3>1. sync_log.printed \in Seq(Int \X Int)  BY DEF Sync!IOInv, Sync!NoGap
    <3>2. Len(sync_log.printed) \in Nat  BY <3>1, LenProperties
    <3>3. QED  BY <3>2
  <2>7. sync_log.printed[L][1] + sync_log.printed[L][2] = fd.size
    BY <2>4, <2>6 DEF Sync!Printed
  <2>8. ASSUME NEW k \in 1 .. L, k # L
        PROVE  sync_log.printed[k][1] + sync_log.printed[k][2] = sync_log.printed[k + 1][1]
    <3>1. k \in 1 .. L - 1  BY <2>8
    <3>2. QED  BY <3>1, <2>6 DEF Sync!IOInv, Sync!NoGap
  <2>9. QED  BY <2>3, <2>5, <2>6, <2>7, <2>8
<1>3. Sync!AsleepOnlyIfLost
  BY DEF Sync!IOInv, Sync!Turns, Sync!AsleepOnlyIfLost, Sync!NobodyWaitsForEver
<1>4. QED  BY <1>1, <1>2, <1>3 DEF Sync!AllPrintedAtExit

------------------------------------------------------------------------------
(* namedsem_demo.c, unnamedsem_demo.c *)

\* A line has at least one chunk.
LEMMA SemFacts == ITERATIONS \in Nat /\ CHUNKS \in Nat /\ CHUNKS > 0
  BY ProcessesAssumption DEF Sem!SemAssumption

\* Types: no step leaves them.
LEMMA SemTyped ==
    ASSUME Sem!StateOK, Sem!Iterating, Sem!Next PROVE Sem!StateOK'
<1> USE SemFacts DEF Sem!StateOK, Sem!Processes
<1>1. CASE Sem!Kill
  BY <1>1 DEF Sem!Kill
<1>2. ASSUME NEW p \in {"child", "parent"}, Sem!WAIT(p) PROVE Sem!StateOK'
  BY <1>2 DEF Sem!WAIT
<1>3. ASSUME NEW p \in {"child", "parent"}, Sem!Load(p) PROVE Sem!StateOK'
  BY <1>3 DEF Sem!Load
<1>4. ASSUME NEW p \in {"child", "parent"}, Sem!Store(p) PROVE Sem!StateOK'
  BY <1>4 DEF Sem!Store
<1>5. ASSUME NEW p \in {"child", "parent"}, Sem!WriteLine(p) PROVE Sem!StateOK'
  <2>1. file' \in Seq({"child", "parent"})
    BY <1>5, AppendProperties DEF Sem!WriteLine
  <2>2. tmp[p] + 1 \in Int  OBVIOUS
  <2>3. CASE tmp[p] + 1 < CHUNKS
    BY <1>5, <2>1, <2>2, <2>3 DEF Sem!WriteLine
  <2>4. CASE ~(tmp[p] + 1 < CHUNKS)
    BY <1>5, <2>1, <2>4 DEF Sem!WriteLine
  <2>5. QED  BY <2>3, <2>4
<1>6. ASSUME NEW p \in {"child", "parent"}, Sem!POST(p) PROVE Sem!StateOK'
  <2>1. rounds[p] \in Nat /\ rounds[p] < ITERATIONS
    BY <1>6 DEF Sem!POST, Sem!Iterating, Sem!InSection
  <2>2. rounds[p] + 1 \in 0 .. ITERATIONS  BY <2>1
  <2>3. QED  BY <1>6, <2>2 DEF Sem!POST
<1>7. ASSUME NEW p \in {"child", "parent"}, Sem!Exit(p) PROVE Sem!StateOK'
  BY <1>7 DEF Sem!Exit
<1>8. QED  BY <1>1, <1>2, <1>3, <1>4, <1>5, <1>6, <1>7 DEF Sem!Next, Sem!main

\* One holder, or none: no step but WAIT takes and none but POST gives back.
LEMMA KeepsHolder ==
    ASSUME Sem!StateOK, Sem!OneHolder, Sem!Next PROVE Sem!OneHolder'
<1> USE DEF Sem!StateOK, Sem!Processes, Sem!OneHolder, Sem!InSection, Sem!KilledInside
<1>1. CASE Sem!Kill
  BY <1>1 DEF Sem!Kill
<1>2. ASSUME NEW p \in {"child", "parent"}, Sem!WAIT(p) PROVE Sem!OneHolder'
  BY <1>2 DEF Sem!WAIT
<1>3. ASSUME NEW p \in {"child", "parent"}, Sem!Load(p) PROVE Sem!OneHolder'
  BY <1>3 DEF Sem!Load
<1>4. ASSUME NEW p \in {"child", "parent"}, Sem!Store(p) PROVE Sem!OneHolder'
  BY <1>4 DEF Sem!Store
<1>5. ASSUME NEW p \in {"child", "parent"}, Sem!WriteLine(p) PROVE Sem!OneHolder'
  <2>1. sem_pc' = sem_pc \/ sem_pc' = [sem_pc EXCEPT ![p] = "post"]
    BY <1>5 DEF Sem!WriteLine
  <2>2. QED  BY <1>5, <2>1 DEF Sem!WriteLine
<1>6. ASSUME NEW p \in {"child", "parent"}, Sem!POST(p) PROVE Sem!OneHolder'
  BY <1>6 DEF Sem!POST
<1>7. ASSUME NEW p \in {"child", "parent"}, Sem!Exit(p) PROVE Sem!OneHolder'
  BY <1>7 DEF Sem!Exit
<1>8. QED  BY <1>1, <1>2, <1>3, <1>4, <1>5, <1>6, <1>7 DEF Sem!Next, Sem!main

\* The iterations go on in order.
LEMMA KeepsIterating ==
    ASSUME Sem!StateOK, Sem!Iterating, Sem!Next PROVE Sem!Iterating'
<1> USE SemFacts DEF Sem!StateOK, Sem!Processes, Sem!Iterating, Sem!InSection
<1>1. CASE Sem!Kill
  BY <1>1 DEF Sem!Kill
<1>2. ASSUME NEW p \in {"child", "parent"}, Sem!WAIT(p) PROVE Sem!Iterating'
  BY <1>2 DEF Sem!WAIT
<1>3. ASSUME NEW p \in {"child", "parent"}, Sem!Load(p) PROVE Sem!Iterating'
  BY <1>3 DEF Sem!Load
<1>4. ASSUME NEW p \in {"child", "parent"}, Sem!Store(p) PROVE Sem!Iterating'
  BY <1>4 DEF Sem!Store
<1>5. ASSUME NEW p \in {"child", "parent"}, Sem!WriteLine(p) PROVE Sem!Iterating'
  <2>1. sem_pc' = sem_pc \/ sem_pc' = [sem_pc EXCEPT ![p] = "post"]
    BY <1>5 DEF Sem!WriteLine
  <2>2. QED  BY <1>5, <2>1 DEF Sem!WriteLine
<1>6. ASSUME NEW p \in {"child", "parent"}, Sem!POST(p) PROVE Sem!Iterating'
  BY <1>6 DEF Sem!POST
<1>7. ASSUME NEW p \in {"child", "parent"}, Sem!Exit(p) PROVE Sem!Iterating'
  BY <1>7 DEF Sem!Exit
<1>8. QED  BY <1>1, <1>2, <1>3, <1>4, <1>5, <1>6, <1>7 DEF Sem!Next, Sem!main

\* An addition is a load and a store that nobody comes between.
LEMMA KeepsCounted ==
    ASSUME Sem!StateOK, Sem!OneHolder, Sem!Counted, Sem!Next PROVE Sem!Counted'
<1> USE SemFacts DEF Sem!StateOK, Sem!Processes, Sem!Counted, Sem!Done
<1>1. CASE Sem!Kill
  BY <1>1 DEF Sem!Kill
<1>2. ASSUME NEW p \in {"child", "parent"}, Sem!WAIT(p) PROVE Sem!Counted'
  BY <1>2 DEF Sem!WAIT
<1>3. ASSUME NEW p \in {"child", "parent"}, Sem!Load(p) PROVE Sem!Counted'
  BY <1>3 DEF Sem!Load
<1>4. ASSUME NEW p \in {"child", "parent"}, Sem!Store(p) PROVE Sem!Counted'
  BY <1>4 DEF Sem!Store, Sem!OneHolder, Sem!InSection
<1>5. ASSUME NEW p \in {"child", "parent"}, Sem!WriteLine(p) PROVE Sem!Counted'
  <2>1. sem_pc' = sem_pc \/ sem_pc' = [sem_pc EXCEPT ![p] = "post"]
    BY <1>5 DEF Sem!WriteLine
  <2>2. version = "named" /\ version' = version /\ count' = count
    BY <1>5 DEF Sem!WriteLine
  <2>3. QED  BY <2>1, <2>2
<1>6. ASSUME NEW p \in {"child", "parent"}, Sem!POST(p) PROVE Sem!Counted'
  BY <1>6 DEF Sem!POST
<1>7. ASSUME NEW p \in {"child", "parent"}, Sem!Exit(p) PROVE Sem!Counted'
  BY <1>7 DEF Sem!Exit
<1>8. QED  BY <1>1, <1>2, <1>3, <1>4, <1>5, <1>6, <1>7 DEF Sem!Next, Sem!main

\* The chunks of the first q lines are the first q * c of the file.
LEMMA ChunkOfLine ==
    ASSUME NEW c \in Nat, c > 0, NEW q \in Nat, NEW n \in 1 .. q, NEW m \in 1 .. c
    PROVE  (n - 1) * c + m \in 1 .. q * c
<1>1. PICK k \in Nat : n = k + 1  BY n - 1 \in Nat, n = (n - 1) + 1
<1>2. k + 1 <= q  BY <1>1
<1>3. (k + 1) * c <= q * c  BY <1>2
<1>4. (k + 1) * c = k * c + c  OBVIOUS
<1>5. k * c \in Nat /\ q * c \in Nat  OBVIOUS
<1>6. k * c + m \in 1 .. q * c
  <2> DEFINE a == k * c
             b == q * c
  <2>1. a \in Nat /\ b \in Nat /\ a + c <= b  BY <1>3, <1>4, <1>5
  <2> HIDE DEF a, b
  <2>2. a + m \in 1 .. b  BY <2>1
  <2>3. QED  BY <2>2 DEF a, b
<1>7. QED  BY <1>6, <1>1

\* The first q lines of c chunks are of one process each.
WholeLines(f, c, q) ==
    \A n \in 1 .. q : \A m \in 1 .. c : f[(n - 1) * c + m] = f[(n - 1) * c + 1]
\* The chunks of the line after them.
PartLine(f, c, q, r, w) ==
    Len(f) = q * c + r /\ \A m \in 1 .. r : f[q * c + m] = w

\* A chunk is appended to the q lines and r chunks of the next by who wrote those.
LEMMA ChunkAppended ==
    ASSUME NEW c \in Nat, c > 0, NEW q \in Nat, NEW r \in Nat, NEW S, NEW f \in Seq(S), NEW w \in S,
           WholeLines(f, c, q), PartLine(f, c, q, r, w)
    PROVE  WholeLines(Append(f, w), c, q) /\ PartLine(Append(f, w), c, q, r + 1, w)
<1> USE DEF WholeLines, PartLine
<1> DEFINE g == Append(f, w)
<1>1. PICK a \in Nat : a = q * c  OBVIOUS
<1>2. /\ Len(g) = a + (r + 1) /\ g[a + (r + 1)] = w
      /\ \A k \in 1 .. a + r : g[k] = f[k]
  BY <1>1, AppendProperties
<1> HIDE DEF g
<1>3. ASSUME NEW n \in 1 .. q, NEW m \in 1 .. c
      PROVE  g[(n - 1) * c + m] = g[(n - 1) * c + 1]
  <2>1. 1 \in 1 .. c  OBVIOUS
  <2>2. PICK x \in 1 .. a, y \in 1 .. a : x = (n - 1) * c + m /\ y = (n - 1) * c + 1
    BY <2>1, <1>1, ChunkOfLine, Zenon
  <2>3. f[x] = f[y]  BY <2>2
  <2>4. x \in 1 .. a + r /\ y \in 1 .. a + r  OBVIOUS
  <2>5. g[x] = g[y]  BY <2>3, <2>4, <1>2
  <2>6. QED  BY <2>2, <2>5
<1>4. ASSUME NEW m \in 1 .. r + 1 PROVE g[a + m] = w
  <2>1. CASE m = r + 1  BY <2>1, <1>2
  <2>2. CASE m # r + 1
    <3>1. m \in 1 .. r /\ a + m \in 1 .. a + r  BY <2>2
    <3>2. QED  BY <3>1, <1>1, <1>2
  <2>3. QED  BY <2>1, <2>2
<1>5. QED  BY <1>1, <1>2, <1>3, <1>4 DEF g

\* Only the process in its section may be within a line.
LEMMA OneWriter ==
    ASSUME Sem!StateOK, Sem!OneHolder, Sem!FileWhole, version = "named"
    PROVE  /\ tmp["child"] = 0 \/ tmp["parent"] = 0
           /\ \A p \in {"child", "parent"} : sem_pc[p] = "begin" =>
                \A r \in {"child", "parent"} \ {p} : tmp[r] = 0
<1>1. \A p \in {"child", "parent"} :
        /\ tmp[p] \in Int /\ tmp[p] >= 0
        /\ tmp[p] > 0 => sem_pc[p] = "begin" \/ (p = "child" /\ killed = "begin")
  BY SemFacts DEF Sem!FileWhole, Sem!Processes
<1>2. \A p \in {"child", "parent"} :
         tmp[p] # 0 => sem_pc[p] = "begin" \/ (p = "child" /\ killed = "begin")
  BY <1>1
<1>3. QED
  BY <1>2 DEF Sem!StateOK, Sem!OneHolder, Sem!InSection, Sem!KilledInside, Sem!Processes

\* A chunk written by the process in its section goes on with its line, or ends it.
LEMMA WriteWhole ==
    ASSUME Sem!StateOK, Sem!OneHolder, Sem!FileWhole,
           NEW p \in {"child", "parent"}, Sem!WriteLine(p)
    PROVE  Sem!FileWhole'
<1> USE SemFacts
<1> DEFINE o == IF p = "child" THEN "parent" ELSE "child"
<1>1. /\ version = "named" /\ version' = "named" /\ sem_pc[p] = "begin"
      /\ file' = Append(file, p) /\ killed' = killed
  BY DEF Sem!WriteLine
<1>2. /\ tmp[o] = 0 /\ tmp["child"] \in 0 .. CHUNKS - 1 /\ tmp["parent"] \in 0 .. CHUNKS - 1
      /\ tmp[o] > 0 => sem_pc[o] = "begin" \/ (o = "child" /\ killed = "begin")
  BY <1>1, OneWriter DEF Sem!FileWhole, Sem!Processes
<1>3. PICK r \in 0 .. CHUNKS - 1 : r = tmp[p]  BY <1>2
<1>4. PICK q \in 0 .. Len(file) : Sem!Lines(q)  BY <1>1 DEF Sem!FileWhole
<1>5. file \in Seq({"child", "parent"})  BY DEF Sem!StateOK, Sem!Processes
<1>6. q \in Nat  BY <1>5
<1>7. tmp["child"] + tmp["parent"] = r  BY <1>2, <1>3
<1>8. Len(file) = q * CHUNKS + r  BY <1>4, <1>7 DEF Sem!Lines
<1>9. /\ \A n \in 1 .. q : \A m \in 1 .. CHUNKS :
            file[(n - 1) * CHUNKS + m] = file[(n - 1) * CHUNKS + 1]
      /\ \A m \in 1 .. r : file[q * CHUNKS + m] = p
  BY <1>3, <1>4 DEF Sem!Lines, Sem!Processes
<1>10. /\ Len(file') = q * CHUNKS + (r + 1)
       /\ \A n \in 1 .. q : \A m \in 1 .. CHUNKS :
            file'[(n - 1) * CHUNKS + m] = file'[(n - 1) * CHUNKS + 1]
       /\ \A m \in 1 .. r + 1 : file'[q * CHUNKS + m] = p
  <2>1. r \in Nat  OBVIOUS
  <2> HIDE DEF o
  <2>2. CHUNKS \in Nat /\ CHUNKS > 0  OBVIOUS
  <2>3. WholeLines(file, CHUNKS, q) /\ PartLine(file, CHUNKS, q, r, p)
    BY <1>8, <1>9 DEF WholeLines, PartLine
  <2>4. WholeLines(Append(file, p), CHUNKS, q) /\ PartLine(Append(file, p), CHUNKS, q, r + 1, p)
    BY <1>5, <1>6, <2>1, <2>2, <2>3, ChunkAppended, Zenon
  <2>5. QED  BY <1>1, <2>4, Zenon DEF WholeLines, PartLine
<1>11. PICK b \in Nat : b = q * CHUNKS  BY <1>6
<1>12. CASE r + 1 < CHUNKS
  <2>1. tmp' = [tmp EXCEPT ![p] = r + 1] /\ sem_pc' = sem_pc
    BY <1>3, <1>12 DEF Sem!WriteLine
  <2>2. tmp'[p] = r + 1 /\ tmp'[o] = 0
    BY <2>1, <1>2 DEF Sem!StateOK, Sem!Processes
  <2>3. tmp'["child"] + tmp'["parent"] = r + 1  BY <2>2
  <2>4. Sem!Lines(q)'
    <3>1. \A s \in {"child", "parent"} : s = p \/ s = o  OBVIOUS
    <3>2. ASSUME NEW s \in {"child", "parent"}, NEW m \in 1 .. tmp'[s]
          PROVE  file'[q * CHUNKS + m] = s
      <4>1. s = p  BY <2>2, <3>1, <3>2
      <4>2. m \in 1 .. r + 1  BY <4>1, <2>2
      <4>3. QED  BY <4>1, <4>2, <1>10
    <3>3. Len(file') = q * CHUNKS + (tmp'["child"] + tmp'["parent"])  BY <2>3, <1>10
    <3>4. QED  BY <3>2, <3>3, <1>10, Zenon DEF Sem!Lines, Sem!Processes
  <2>5. q \in 0 .. Len(file')
    <3>1. q <= b + r  BY <1>8, <1>11
    <3>2. q <= b + (r + 1)  BY <3>1, <1>6
    <3>3. QED  BY <3>2, <1>6, <1>10, <1>11
  <2>6. \A s \in {"child", "parent"} : tmp'[s] \in 0 .. CHUNKS - 1 /\
           (tmp'[s] > 0 => sem_pc'[s] = "begin" \/ (s = "child" /\ killed' = "begin"))
    BY <2>1, <2>2, <1>1, <1>12
  <2>7. QED  BY <2>4, <2>5, <2>6, <1>1 DEF Sem!FileWhole, Sem!Processes
<1>13. CASE ~(r + 1 < CHUNKS)
  <2>1. r + 1 = CHUNKS  BY <1>13
  <2>2. tmp' = [tmp EXCEPT ![p] = 0]
    BY <1>3, <1>13 DEF Sem!WriteLine
  <2>3. tmp'[p] = 0 /\ tmp'[o] = 0
    BY <2>2, <1>2 DEF Sem!StateOK, Sem!Processes
  <2>4. (q + 1) * CHUNKS = b + CHUNKS  BY <1>6, <1>11
  <2>5. Len(file') = (q + 1) * CHUNKS  BY <2>1, <2>4, <1>10, <1>11
  <2>6. ASSUME NEW n \in 1 .. q + 1, NEW m \in 1 .. CHUNKS
        PROVE  file'[(n - 1) * CHUNKS + m] = file'[(n - 1) * CHUNKS + 1]
    <3>1. CASE n = q + 1
      <4>1. n - 1 = q  BY <3>1, <1>6
      <4>2. m \in 1 .. r + 1 /\ 1 \in 1 .. r + 1  BY <2>1
      <4>3. file'[q * CHUNKS + m] = p /\ file'[q * CHUNKS + 1] = p  BY <4>2, <1>10
      <4>4. QED  BY <4>1, <4>3
    <3>2. CASE n # q + 1
      <4>1. n \in 1 .. q  BY <3>2, <1>6
      <4>2. QED  BY <4>1, <1>10
    <3>3. QED  BY <3>1, <3>2
  <2>7. Sem!Lines(q + 1)'
    <3>1. tmp'["child"] = 0 /\ tmp'["parent"] = 0  BY <2>3
    <3>2. (q + 1) * CHUNKS + (0 + 0) = (q + 1) * CHUNKS  BY <1>6
    <3>3. QED  BY <2>5, <2>6, <3>1, <3>2 DEF Sem!Lines, Sem!Processes
  <2>8. q + 1 \in 0 .. Len(file')
    <3>1. q <= b + r  BY <1>8, <1>11
    <3>2. q + 1 <= b + (r + 1)  BY <3>1, <1>6
    <3>3. QED  BY <3>2, <1>6, <1>10, <1>11
  <2>9. \A s \in {"child", "parent"} : tmp'[s] \in 0 .. CHUNKS - 1 /\ ~(tmp'[s] > 0)
    BY <2>3
  <2>10. QED  BY <2>7, <2>8, <2>9, <1>1 DEF Sem!FileWhole, Sem!Processes
<1>14. QED  BY <1>12, <1>13

\* No other step writes or leaves a line half written.
LEMMA KeepsWhole ==
    ASSUME Sem!StateOK, Sem!OneHolder, Sem!Counted, Sem!FileWhole, Sem!Next
    PROVE  Sem!FileWhole'
<1> USE DEF Sem!Processes
<1> DEFINE Within(p) == tmp[p] > 0 => sem_pc[p] = "begin" \/ (p = "child" /\ killed = "begin")
<1>1. ASSUME UNCHANGED <<version, file>>, version = "named" => UNCHANGED tmp,
             version = "named" => \A p \in {"child", "parent"} : Within(p)'
      PROVE  Sem!FileWhole'
  <2>1. version = "named" => \A q : Sem!Lines(q)' = Sem!Lines(q)
    BY <1>1 DEF Sem!Lines
  <2>2. QED  BY <1>1, <2>1 DEF Sem!FileWhole
<1>2. version = "named" => \A p \in {"child", "parent"} : Within(p) /\ sem_pc[p] # "store"
  BY DEF Sem!FileWhole, Sem!Counted
<1>3. CASE Sem!Kill
  BY <1>1, <1>2, <1>3 DEF Sem!Kill, Sem!StateOK
<1>4. ASSUME NEW p \in {"child", "parent"}, Sem!WAIT(p) PROVE Sem!FileWhole'
  BY <1>1, <1>2, <1>4 DEF Sem!WAIT, Sem!StateOK
<1>5. ASSUME NEW p \in {"child", "parent"}, Sem!Load(p) PROVE Sem!FileWhole'
  BY <1>1, <1>5 DEF Sem!Load
<1>6. ASSUME NEW p \in {"child", "parent"}, Sem!Store(p) PROVE Sem!FileWhole'
  BY <1>1, <1>2, <1>6 DEF Sem!Store
<1>7. ASSUME NEW p \in {"child", "parent"}, Sem!POST(p) PROVE Sem!FileWhole'
  BY <1>1, <1>2, <1>7 DEF Sem!POST, Sem!StateOK
<1>8. ASSUME NEW p \in {"child", "parent"}, Sem!Exit(p) PROVE Sem!FileWhole'
  BY <1>1, <1>2, <1>8 DEF Sem!Exit, Sem!StateOK
<1>9. QED
  BY <1>3, <1>4, <1>5, <1>6, <1>7, <1>8, WriteWhole DEF Sem!Next, Sem!main

\* Nobody has begun.
LEMMA SemStart == Sem!Init => Sem!SemInv
<1> SUFFICES ASSUME Sem!Init PROVE Sem!SemInv
  OBVIOUS
<1> USE SemFacts DEF Sem!Init, Sem!Processes
<1>1. Sem!StateOK  BY DEF Sem!StateOK
<1>2. Sem!OneHolder  BY DEF Sem!OneHolder, Sem!InSection, Sem!KilledInside
<1>3. Sem!Iterating  BY DEF Sem!Iterating, Sem!InSection
<1>4. Sem!Counted  BY DEF Sem!Counted, Sem!Done
<1>5. Sem!FileWhole
  <2>1. Len(file) = 0  OBVIOUS
  <2>2. 0 = 0 * CHUNKS + (0 + 0)  OBVIOUS
  <2>3. tmp["child"] = 0 /\ tmp["parent"] = 0  OBVIOUS
  <2>4. Len(file) = 0 * CHUNKS + (tmp["child"] + tmp["parent"])  BY <2>1, <2>2, <2>3, Zenon
  <2>5. Sem!Lines(0)  BY <2>3, <2>4 DEF Sem!Lines
  <2>6. QED  BY <2>1, <2>3, <2>5 DEF Sem!FileWhole
<1>6. QED  BY <1>1, <1>2, <1>3, <1>4, <1>5 DEF Sem!SemInv

\* Every step.
LEMMA SemNext == ASSUME Sem!SemInv, Sem!Next PROVE Sem!SemInv'
  BY SemTyped, KeepsHolder, KeepsIterating, KeepsCounted, KeepsWhole DEF Sem!SemInv

\* The steps of the other programs.
LEMMA SemStays == ASSUME UNCHANGED sem_vars, Sem!SemInv PROVE Sem!SemInv'
<1> USE DEF sem_vars
<1>1. Sem!StateOK' = Sem!StateOK  BY DEF Sem!StateOK
<1>2. \A p : Sem!InSection(p)' = Sem!InSection(p) /\ Sem!Done(p)' = Sem!Done(p)
  BY DEF Sem!InSection, Sem!Done
<1>3. Sem!OneHolder' = Sem!OneHolder
  BY <1>2 DEF Sem!OneHolder, Sem!KilledInside
<1>4. Sem!Iterating' = Sem!Iterating  BY <1>2 DEF Sem!Iterating
<1>5. Sem!Counted' = Sem!Counted  BY <1>2 DEF Sem!Counted
<1>6. Sem!FileWhole' = Sem!FileWhole
  <2>1. \A q : Sem!Lines(q)' = Sem!Lines(q)  BY DEF Sem!Lines
  <2>2. QED  BY <2>1 DEF Sem!FileWhole
<1>7. QED  BY <1>1, <1>3, <1>4, <1>5, <1>6 DEF Sem!SemInv

\* The number of whole lines is the quotient.
LEMMA QuotientBounds ==
    ASSUME NEW c \in Nat, c > 0, NEW a \in Nat
    PROVE  a \div c \in Nat /\ (a \div c) * c <= a /\ a < (a \div c) * c + c
  BY SMTT(30)

\* And no other number is.
LEMMA QuotientIs ==
    ASSUME NEW c \in Nat, c > 0, NEW q \in Nat, NEW r \in Nat, r < c,
           NEW d \in Nat, d * c <= q * c + r, q * c + r < d * c + c
    PROVE  d = q
<1>1. CASE d < q
  <2>1. d + 1 <= q  BY <1>1
  <2>2. (d + 1) * c <= q * c  BY <2>1
  <2>3. (d + 1) * c = d * c + c  OBVIOUS
  <2>4. QED  BY <2>2, <2>3
<1>2. CASE d > q
  <2>1. q + 1 <= d  BY <1>2
  <2>2. (q + 1) * c <= d * c  BY <2>1
  <2>3. (q + 1) * c = q * c + c  OBVIOUS
  <2>4. QED  BY <2>2, <2>3
<1>3. QED  BY <1>1, <1>2

\* The lines of the file are whole, and the additions cancel in the end.
LEMMA SemImplies == Sem!SemInv => Sem!SectionsWhole
<1> SUFFICES ASSUME Sem!SemInv PROVE Sem!SectionsWhole
  OBVIOUS
<1> USE SemFacts
<1>0. Sem!StateOK /\ Sem!OneHolder /\ Sem!Iterating /\ Sem!Counted /\ Sem!FileWhole
  BY DEF Sem!SemInv
<1>1. ASSUME sem_pc["parent"] = "exit", killed = "no" PROVE count = 0
  <2>1. rounds["parent"] = ITERATIONS /\ rounds["child"] = ITERATIONS /\ sem_pc["child"] = "exit"
    BY <1>0, <1>1 DEF Sem!Iterating, Sem!Processes
  <2>2. Sem!Done("child") = ITERATIONS /\ Sem!Done("parent") = ITERATIONS
    BY <1>1, <2>1 DEF Sem!Done
  <2>3. version = "named" => count = 0  BY <1>0 DEF Sem!Counted
  <2>4. version = "unnamed" => count = ITERATIONS - ITERATIONS
    BY <1>0, <1>1, <2>2 DEF Sem!Counted
  <2>5. QED  BY <1>0, <2>3, <2>4 DEF Sem!StateOK
<1>2. ASSUME NEW n \in 1 .. Len(file) \div CHUNKS, NEW m \in 1 .. CHUNKS
      PROVE  file[(n - 1) * CHUNKS + m] = file[(n - 1) * CHUNKS + 1]
  <2>1. PICK a \in Nat : a = Len(file)
    BY <1>0, LenProperties DEF Sem!StateOK
  <2>2. CASE version = "unnamed"
    <3>1. Len(file) = 0  BY <1>0, <2>2 DEF Sem!FileWhole
    <3>2. Len(file) \div CHUNKS = 0
      <4>1. 0 \div CHUNKS = 0  OBVIOUS
      <4>2. QED  BY <3>1, <4>1
    <3>3. QED  BY <3>2
  <2>3. CASE version = "named"
    <3>1. tmp["child"] = 0 \/ tmp["parent"] = 0  BY <1>0, <2>3, OneWriter
    <3>2. tmp["child"] \in 0 .. CHUNKS - 1 /\ tmp["parent"] \in 0 .. CHUNKS - 1
      BY <1>0, <2>3 DEF Sem!FileWhole, Sem!Processes
    <3>3. PICK r \in Nat : r < CHUNKS /\ r = tmp["child"] + tmp["parent"]
      BY <3>1, <3>2
    <3>4. PICK q \in 0 .. a : Sem!Lines(q)  BY <1>0, <2>1, <2>3 DEF Sem!FileWhole
    <3>5. q \in Nat  OBVIOUS
    <3>6. a = q * CHUNKS + r  BY <2>1, <3>3, <3>4 DEF Sem!Lines
    <3>7. PICK d \in Nat : d = a \div CHUNKS /\ d * CHUNKS <= a /\ a < d * CHUNKS + CHUNKS
      BY QuotientBounds
    <3>8. d = q
      <4>1. d * CHUNKS <= q * CHUNKS + r /\ q * CHUNKS + r < d * CHUNKS + CHUNKS
        BY <3>6, <3>7
      <4>2. CHUNKS \in Nat /\ CHUNKS > 0 /\ r < CHUNKS  BY <3>3
      <4>3. QED  BY <3>5, <4>1, <4>2, QuotientIs
    <3>9. n \in 1 .. q  BY <2>1, <3>7, <3>8
    <3>10. QED  BY <3>4, <3>9 DEF Sem!Lines
  <2>4. QED  BY <1>0, <2>2, <2>3 DEF Sem!StateOK
<1>3. QED  BY <1>1, <1>2 DEF Sem!SectionsWhole

------------------------------------------------------------------------------
(* The programs side by side *)

\* The turns of sync_io_demo.c hold to the end, wherever the processes are when
\* signals come: a signal that is lost is nobody's turn.
THEOREM TurnsInvariant == Spec => []Sync!IOInv
<1>1. Init => Sync!IOInv  BY SyncStart DEF Init
<1>2. Sync!IOInv /\ [Next]_vars => Sync!IOInv'
  <2> SUFFICES ASSUME Sync!IOInv, [Next]_vars PROVE Sync!IOInv'  OBVIOUS
  <2>1. CASE SyncStep(Sync!Next)  BY <2>1, SyncNext DEF SyncStep, Run
  <2>2. CASE UNCHANGED sync_vars  BY <2>2, SyncStays
  <2>3. QED  BY <2>1, <2>2 DEF Next, LoggerStep, ShmStep, SemStep, vars
<1>3. QED  BY <1>1, <1>2, PTL DEF Spec

\* What the logger hears of and records: the queue found empty at its first
\* registration or not, and whenever clients send.
THEOREM LoggerInvariant == Spec => []Logger!LoggerInv
<1>1. Init => Logger!LoggerInv  BY LoggerStart DEF Init
<1>2. Logger!LoggerInv /\ [Next]_vars => Logger!LoggerInv'
  <2> SUFFICES ASSUME Logger!LoggerInv, [Next]_vars PROVE Logger!LoggerInv'  OBVIOUS
  <2>1. CASE LoggerStep(Logger!Next)  BY <2>1, LoggerNext DEF LoggerStep, Run
  <2>2. CASE UNCHANGED logger_vars  BY <2>2, LoggerStays
  <2>3. QED  BY <2>1, <2>2 DEF Next, SyncStep, ShmStep, SemStep, vars
<1>3. QED  BY <1>1, <1>2, PTL DEF Spec

\* One process at a time between WAIT and POST, wherever the child is killed.
THEOREM SectionsInvariant == Spec => []Sem!SemInv
<1>1. Init => Sem!SemInv  BY SemStart DEF Init
<1>2. Sem!SemInv /\ [Next]_vars => Sem!SemInv'
  <2> SUFFICES ASSUME Sem!SemInv, [Next]_vars PROVE Sem!SemInv'  OBVIOUS
  <2>1. CASE SemStep(Sem!Next)  BY <2>1, SemNext DEF SemStep, Run
  <2>2. CASE UNCHANGED sem_vars  BY <2>2, SemStays
  <2>3. QED  BY <2>1, <2>2 DEF Next, SyncStep, LoggerStep, ShmStep, vars
<1>3. QED  BY <1>1, <1>2, PTL DEF Spec

\* The shared object, its semaphores and the logger's users[] keep their types:
\* no index leaves its array, whatever the numbers of processes and of slots.
THEOREM TypesKept == ~AttachEarly => (Spec => []TypeOK)
<1> SUFFICES ASSUME ~AttachEarly PROVE Spec => []TypeOK  OBVIOUS
<1>1. Shm!ShmInv /\ Logger!LoggerInv => TypeOK
  BY DEF TypeOK, Shm!ShmInv, Logger!LoggerInv
<1>2. QED  BY <1>1, RingInvariant, LoggerInvariant, PTL

\* The shared file offset, the logger's list and the turns by a semaphore are
\* in order, for any number of rounds, clients, users, iterations and chunks.
THEOREM OrderIsKept == Spec => []OrderKept
<1>1. Sync!IOInv /\ Logger!LoggerInv /\ Sem!SemInv => OrderKept
  BY SyncImplies, LoggerImplies, SemImplies DEF OrderKept
<1>2. QED  BY <1>1, TurnsInvariant, LoggerInvariant, SectionsInvariant, PTL
==============================================================================
