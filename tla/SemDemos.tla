------------------------------- MODULE SemDemos -------------------------------
(***************************************************************************)
(* chapter12/unnamedsem_demo.c and namedsem_demo.c: a child and its parent *)
(* take turns by a semaphore.  In the first they add to a counter in       *)
(* shared memory and take from it; in the second they write lines, longer  *)
(* than stdio's buffer, to one file.  The parent waits for the child.      *)
(***************************************************************************)
EXTENDS Integers, Sequences

CONSTANTS ITERATIONS,
          CHUNKS        \* the write()s of a line

SemAssumption == ITERATIONS \in Nat /\ CHUNKS \in Nat \ {0}

VARIABLES
    version,        \* "unnamed" or "named"
    sem, count, file,
    pc, i,          \* of each process
    tmp,            \* what it has loaded, or the chunks it has written
    killed          \* ghost: where the child was when a signal ended it

vars == <<version, sem, count, file, pc, i, tmp, killed>>

Processes == {"child", "parent"}

Init ==
    /\ version \in {"unnamed", "named"}
    /\ sem = 1 /\ count = 0 /\ file = <<>> /\ killed = "no"
    /\ pc = [p \in Processes |-> "wait"]
    /\ i = [p \in Processes |-> 0] /\ tmp = [p \in Processes |-> 0]
------------------------------------------------------------------------------
\* Mutant: the value of the semaphore is not looked at.
WAIT_not(p) ==
    /\ pc[p] = "wait" /\ i[p] < ITERATIONS
    /\ sem' = 0 /\ pc' = [pc EXCEPT ![p] = "begin"]
    /\ UNCHANGED <<version, count, file, i, tmp, killed>>

WAIT(p) ==
    /\ pc[p] = "wait" /\ i[p] < ITERATIONS
    /\ sem > 0 /\ sem' = sem - 1 /\ pc' = [pc EXCEPT ![p] = "begin"]
    /\ UNCHANGED <<version, count, file, i, tmp, killed>>

\* count++ or count--: a load and a store.
Load(p) ==
    /\ version = "unnamed" /\ pc[p] = "begin"
    /\ tmp' = [tmp EXCEPT ![p] = count] /\ pc' = [pc EXCEPT ![p] = "store"]
    /\ UNCHANGED <<version, sem, count, file, i, killed>>

Store(p) ==
    /\ pc[p] = "store"
    /\ count' = tmp[p] + IF p = "child" THEN 1 ELSE -1
    /\ tmp' = [tmp EXCEPT ![p] = 0] /\ pc' = [pc EXCEPT ![p] = "post"]
    /\ UNCHANGED <<version, sem, file, i, killed>>

\* fprintf() and fflush(); the offset is of both processes.
WriteLine(p) ==
    /\ version = "named" /\ pc[p] = "begin"
    /\ file' = Append(file, p)
    /\ IF tmp[p] + 1 < CHUNKS
       THEN tmp' = [tmp EXCEPT ![p] = @ + 1] /\ UNCHANGED pc
       ELSE tmp' = [tmp EXCEPT ![p] = 0] /\ pc' = [pc EXCEPT ![p] = "post"]
    /\ UNCHANGED <<version, sem, count, i, killed>>

POST(p) ==
    /\ pc[p] = "post"
    /\ sem' = sem + 1 /\ i' = [i EXCEPT ![p] = @ + 1]
    /\ pc' = [pc EXCEPT ![p] = "wait"]
    /\ UNCHANGED <<version, count, file, tmp, killed>>

Exit(p) ==
    /\ pc[p] = "wait" /\ i[p] = ITERATIONS
    /\ p = "parent" => pc["child"] = "exit"
    /\ pc' = [pc EXCEPT ![p] = "exit"]
    /\ UNCHANGED <<version, sem, count, file, i, tmp, killed>>

main(p) == WAIT(p) \/ Load(p) \/ Store(p) \/ WriteLine(p) \/ POST(p) \/ Exit(p)

\* A signal ends the child; nobody posts for it.
Kill ==
    /\ pc["child"] # "exit" /\ killed' = pc["child"]
    /\ pc' = [pc EXCEPT !["child"] = "exit"]
    /\ UNCHANGED <<version, sem, count, file, i, tmp>>

Next == Kill \/ \E p \in Processes : main(p)

Spec == Init /\ [][Next]_vars /\ \A p \in Processes : WF_vars(main(p))
------------------------------------------------------------------------------
(* Properties *)

\* The lines of the file are of one process each, and after one that the child
\* was killed in nothing follows; the count is back at 0 when the parent prints
\* it, unless the child was killed.
SectionsWhole ==
    /\ \A n \in 1 .. Len(file) \div CHUNKS :
         \A m \in 1 .. CHUNKS : file[(n - 1) * CHUNKS + m] = file[(n - 1) * CHUNKS + 1]
    /\ pc["parent"] = "exit" /\ killed = "no" => count = 0

\* The parent ends, unless the child was killed before it could post.
ParentEnded == pc["parent"] = "exit" \/ killed \in {"begin", "store", "post"}
ParentEnds  == []<>ParentEnded
------------------------------------------------------------------------------
(* The inductive invariant behind SectionsWhole *)

StateOK ==
    /\ version \in {"unnamed", "named"}
    /\ sem \in Int /\ count \in Int /\ file \in Seq(Processes)
    /\ pc \in [Processes -> {"wait", "begin", "store", "post", "exit"}]
    /\ i \in [Processes -> 0 .. ITERATIONS]
    /\ tmp \in [Processes -> Int]
    /\ killed \in {"no", "wait", "begin", "store", "post"}
    /\ killed # "no" => pc["child"] = "exit"

\* The semaphore is 1 or one process is between WAIT and POST, or the child was
\* when it was killed; never two.
InSection(p) == pc[p] \in {"begin", "store", "post"}
KilledInside == killed \in {"begin", "store", "post"}
OneHolder ==
    /\ sem = IF InSection("child") \/ InSection("parent") \/ KilledInside THEN 0 ELSE 1
    /\ ~ (InSection("child") /\ InSection("parent"))
    /\ ~ (InSection("parent") /\ KilledInside)

\* A process has begun no iteration that does not exist, and ends after the last.
Iterating ==
    \A p \in Processes :
        /\ InSection(p) => i[p] < ITERATIONS
        /\ pc[p] = "exit" /\ killed = "no" => i[p] = ITERATIONS
        /\ p = "parent" /\ pc[p] = "exit" => i[p] = ITERATIONS /\ pc["child"] = "exit"

\* The additions are the iterations and one that is not posted yet.
Done(p) == i[p] + IF pc[p] = "post" THEN 1 ELSE 0
Counted ==
    /\ version = "named" => count = 0 /\ \A p \in Processes : pc[p] # "store"
    /\ version = "unnamed" /\ killed = "no" => count = Done("child") - Done("parent")
    /\ version = "unnamed" => \A p \in Processes : pc[p] = "store" => tmp[p] = count

\* The file is q lines of one process each and the chunks of the line that a
\* process is in, or was killed in.
Lines(q) ==
    /\ \A n \in 1 .. q : \A m \in 1 .. CHUNKS :
          file[(n - 1) * CHUNKS + m] = file[(n - 1) * CHUNKS + 1]
    /\ Len(file) = q * CHUNKS + (tmp["child"] + tmp["parent"])
    /\ \A p \in Processes : \A m \in 1 .. tmp[p] : file[q * CHUNKS + m] = p
FileWhole ==
    /\ version = "unnamed" => file = <<>>
    /\ version = "named" =>
         /\ \A p \in Processes :
              /\ tmp[p] \in 0 .. CHUNKS - 1
              /\ tmp[p] > 0 => pc[p] = "begin" \/ (p = "child" /\ killed = "begin")
         /\ \E q \in 0 .. Len(file) : Lines(q)

SemInv == StateOK /\ OneHolder /\ Iterating /\ Counted /\ FileWhole
==============================================================================
