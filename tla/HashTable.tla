------------------------------ MODULE HashTable ------------------------------
(***************************************************************************)
(* common/hash.c: a set of numbers as a table with linear probing, doubled *)
(* when it is half full.  chapter07/spl_du2.c keeps the inodes it has      *)
(* visited in it, chapter19/spl_top.c the users.  Words have WORD bits.    *)
(***************************************************************************)
EXTENDS Integers, Sequences, SequencesExt, FiniteSetsExt

CONSTANTS Items,          \* the numbers inserted
          WORD,           \* bits of an unsigned long (64)
          Hash_Constant,  \* 0.618... of the largest word
          initial_size    \* at least 2: for 1 the shift by all of WORD's bits is undefined

\* 1 << b
Bit[b \in 0 .. WORD] == IF b = 0 THEN 1 ELSE 2 * Bit[b - 1]

HashAssumption ==
    /\ WORD \in Nat \ {0} /\ Items \subseteq 0 .. Bit[WORD] - 1
    /\ Hash_Constant \in 0 .. Bit[WORD] - 1 /\ initial_size \in Nat \ {0, 1}

VARIABLES
    h,      \* the table: its slots 0 .. table_size - 1, its size_bits, current_size
    seen,   \* history: the items inserted
    news    \* history: how many insertions returned TRUE

hash_vars == <<h, seen, news>>

EMPTYTAG == -1

size(t)      == Len(t.table)
size_bits(n) == Max({b \in 0 .. WORD : Bit[b] <= n})

\* table is a sequence: slot i of the code is its element i + 1.
init_hash(n) ==
    [table |-> [i \in 1 .. n |-> EMPTYTAG], size_bits |-> size_bits(n), current_size |-> 0]

Init == h = init_hash(initial_size) /\ seen = {} /\ news = 0

\* Hash_Constant * item wraps round; its highest size_bits bits are the slot.
Home(t, item) == ((Hash_Constant * item) % Bit[WORD]) \div Bit[WORD - t.size_bits]

\* The slot that a search looks at when it has gone on k times.
Probe(t, item, k) == ((Home(t, item) + k) % size(t)) + 1

\* The first slot from Home on that is empty or holds the item; in a full table
\* there may be none, which is fatal: the model returns 0.
findloc_hash(t, item) ==
    LET stops == {k \in 0 .. size(t) - 1 : t.table[Probe(t, item, k)] \in {EMPTYTAG, item}}
    IN  IF stops = {} THEN 0 ELSE Probe(t, item, Min(stops))

is_in_hash(t, item) ==
    LET i == findloc_hash(t, item) IN i # 0 /\ t.table[i] # EMPTYTAG

Put(t, item) ==
    LET i == findloc_hash(t, item) IN
    IF i # 0 /\ t.table[i] = EMPTYTAG
    THEN [t EXCEPT !.table[i] = item, !.current_size = @ + 1] ELSE t

\* Mutant: the slots are copied instead of inserted again.
rehash_copy(t, new_size) ==
    [table |-> [i \in 1 .. new_size |-> IF i <= size(t) THEN t.table[i] ELSE EMPTYTAG],
     size_bits |-> size_bits(new_size), current_size |-> t.current_size]

\* Its calls of insert_hash() never find the new table half full: it gets
\* at most half as many items as the old one has slots, a quarter of its own.
rehash(t, new_size) ==
    LET Reinsert(new, item) == IF item = EMPTYTAG THEN new ELSE Put(new, item)
    IN  FoldLeft(Reinsert, init_hash(new_size), t.table)

Grown(t) == IF t.current_size >= size(t) \div 2 THEN rehash(t, 2 * size(t)) ELSE t

insert_hash(item) ==
    /\ h' = Put(Grown(h), item)
    /\ seen' = seen \cup {item}
    /\ news' = IF h'.current_size > Grown(h).current_size THEN news + 1 ELSE news

Next == \E item \in Items : insert_hash(item)

Spec == Init /\ [][Next]_hash_vars
------------------------------------------------------------------------------
(* Properties *)

\* Whatever collides, and however often the table has been doubled, it is the
\* set of the items inserted, and exactly the first insertion of each says so;
\* half of it is empty, so that a search stops and rehash() never has to grow
\* the table that it is filling.
IsTheSet ==
    /\ h.current_size <= size(h) \div 2
    /\ \A item \in Items : is_in_hash(h, item) <=> item \in seen
    /\ h.current_size = Cardinality(seen) /\ news = h.current_size

\* Why it is.  Between the slot where a search for an item begins and the slot that
\* holds it none is empty, so the search does not stop too early: insertion takes
\* the first empty slot, and nothing is ever removed.  The slots in use are as many
\* as the items, which current_size counts, so that another one is empty.
Slots(t)   == 1 .. size(t)
Used(t)    == {i \in Slots(t) : t.table[i] # EMPTYTAG}
Content(t) == {t.table[i] : i \in Used(t)}

Reached(t) ==
    \A i \in Used(t) : \E k \in 0 .. size(t) - 1 :
        /\ Probe(t, t.table[i], k) = i
        /\ \A m \in 0 .. k - 1 : Probe(t, t.table[i], m) \in Used(t)

TableInv(t) ==
    /\ t \in [table : Seq(Items \cup {EMPTYTAG}), size_bits : 0 .. WORD, current_size : Nat]
    /\ size(t) >= 2
    /\ Reached(t)
    /\ Cardinality(Used(t)) = t.current_size /\ Cardinality(Content(t)) = t.current_size

HashInv ==
    /\ TableInv(h) /\ h.current_size <= size(h) \div 2
    /\ Content(h) = seen /\ news = h.current_size
==============================================================================
