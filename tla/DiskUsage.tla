------------------------------- MODULE DiskUsage -------------------------------
(***************************************************************************)
(* chapter07/spl_du1.c and spl_du2.c: nftw() reports the files of a tree,  *)
(* those in a directory before the directory, and file_usage() adds their  *)
(* sizes up, level by level.  spl_du1 keeps to one file system and counts  *)
(* a file once for each of its links; spl_du2 counts it once only.         *)
(*                                                                         *)
(* A file may be removed while the tree is walked: before nftw() comes to  *)
(* it, which then either does not meet it or cannot stat it, and passes    *)
(* what its buffer held before; or after, and its other links have one     *)
(* link less from then on.                                                 *)
(***************************************************************************)
EXTENDS Integers, FiniteSets, SequencesExt, FiniteSetsExt

CONSTANTS MaxNodes,       \* files and directories; 1 is the command's argument
          MAXDEPTH,
          Inodes          \* the numbers of the files that are not directories

DuAssumption == MaxNodes \in Nat \ {0} /\ MAXDEPTH \in Nat \ {0}
                /\ Inodes \subseteq 1 .. MaxNodes

VARIABLES
    version,        \* "du1" or "du2"
    tree,           \* parents, directories, identities, and the links outside the tree
    gone,           \* the files removed
    walk,           \* what nftw() has still to report
    total_usage, prev_level,
    visited,        \* the hash table
    printed, status,
    heard, unknown  \* ghosts: the files reported, with and without a successful stat

vars == <<version, tree, gone, walk, total_usage, prev_level, visited, printed, status, heard, unknown>>

Nodes == 1 .. MaxNodes
Children(t, n) == {c \in Nodes : t.parent[c] = n}

\* nftw() with FTW_DEPTH: a directory comes after all that is in it.
PostOrder(t, n) ==
    LET order[m \in Nodes] ==
            FoldLeft(LAMBDA s, c : IF c \in Children(t, m) THEN s \o order[c] ELSE s,
                     <<>>, [c \in Nodes |-> c]) \o <<m>>
    IN order[n]

Subtree(n) == ToSet(PostOrder(tree, n))
Level(n) == LET up[m \in Nodes] == IF m = 1 THEN 0 ELSE 1 + up[tree.parent[m]] IN up[n]

Links(n) == {m \in Nodes : tree.id[m] = tree.id[n]}

\* What stat() gives of a file when those of removed are removed.  A directory's
\* link is in its parent and in itself.
stat(n, removed) ==
    [key   |-> tree.id[n][1] * tree.id[n][2],
     nlink |-> IF n \in tree.dirs THEN 2 ELSE tree.elsewhere + Cardinality(Links(n) \ removed),
     dir   |-> n \in tree.dirs,
     usage |-> IF n \in tree.dirs THEN 1 ELSE 2 * tree.id[n][1]]

\* The nodes numbered level by level, so that no tree is met twice.
Parents == {f \in [Nodes -> 0 .. MaxNodes - 1] :
              f[1] = 0 /\ \A n \in Nodes \ {1} : f[n] \in 1 .. n - 1 /\ f[n] >= f[n - 1]}

\* A tree in which a directory may be the root of another file system; files of
\* one number and one file system are links to one file.
Tree(parent, dirs, mount, ino, elsewhere) ==
    LET t == [parent |-> parent, dirs |-> dirs, elsewhere |-> elsewhere]
        mounted == IF mount = 1 THEN {} ELSE ToSet(PostOrder(t, mount))
    IN t @@ ("id" :> [n \in Nodes |-> << IF n \in dirs THEN n + 10 ELSE ino[n],
                                       IF n \in mounted THEN 3 ELSE 2 >>])

\* One directory with files in it.
Flat == Tree([n \in Nodes |-> IF n = 1 THEN 0 ELSE 1], {1}, 1, [n \in Nodes |-> n], 0)

\* FTW_MOUNT: nothing of another file system is reported.
Reported(v, t) ==
    SelectSeq(PostOrder(t, 1), LAMBDA n : v = "du2" \/ t.id[n][2] = t.id[1][2])

Start(v, t) ==
    /\ version = v /\ tree = t
    /\ gone = {} /\ walk = Reported(v, t)
    /\ total_usage = [k \in 0 .. MAXDEPTH - 1 |-> 0] /\ prev_level = -1
    /\ visited = {} /\ printed = <<>> /\ status = "walking"
    /\ heard = {} /\ unknown = {}

Init ==
    \E v \in {"du1", "du2"}, parent \in Parents, dirs \in SUBSET Nodes :
        /\ \A n \in Nodes \ {1} : parent[n] \in dirs
        /\ \E mount \in dirs \cup {1}, ino \in [Nodes \ dirs -> Inodes], elsewhere \in {0, 1} :
             /\ v = "du1" => elsewhere = 0 /\ \A n \in DOMAIN ino : ino[n] = Min(Inodes)
             /\ Start(v, Tree(parent, dirs, mount, ino, elsewhere))
------------------------------------------------------------------------------
(* file_usage() *)

\* Is the table asked?  Not where the children of a directory come before it,
\* and not for a directory that follows what is higher up.
Checked(sb, cur) ==
    /\ version = "du2" /\ sb.nlink > 1
    /\ prev_level = cur \/ (prev_level < cur /\ ~sb.dir)

\* Mutant: the level below keeps its sum.
add_usage_keep(cur, usage, already) ==
    total_usage' = IF already THEN total_usage
                   ELSE IF prev_level < cur THEN [total_usage EXCEPT ![cur] = usage]
                   ELSE [total_usage EXCEPT ![cur] = @ + usage]

\* A file that leads down starts the sum of its level; a directory takes over
\* the sum of the level below.
add_usage(cur, usage, already) ==
    total_usage' = IF already THEN total_usage
                   ELSE IF prev_level < cur THEN [total_usage EXCEPT ![cur] = usage]
                   ELSE IF prev_level = cur THEN [total_usage EXCEPT ![cur] = @ + usage]
                   ELSE [total_usage EXCEPT ![cur] = @ + usage, ![prev_level] = 0]

file_usage(n, sb) ==
    LET cur     == Level(n)
        already == Checked(sb, cur) /\ sb.key \in visited
        usage   == sb.usage + IF prev_level > cur THEN total_usage[prev_level] ELSE 0
    IN IF cur >= MAXDEPTH
       THEN status' = "failed" /\ UNCHANGED <<total_usage, prev_level, visited, printed>>
       ELSE /\ visited' = IF Checked(sb, cur) THEN visited \cup {sb.key} ELSE visited
            /\ add_usage(cur, usage, already)
            /\ printed' = IF already THEN printed ELSE Append(printed, <<n, usage>>)
            /\ prev_level' = cur
            /\ UNCHANGED status

Report ==
    /\ status = "walking" /\ walk # <<>>
    /\ LET n == Head(walk) IN
       \/ n \notin gone /\ file_usage(n, stat(n, gone)) /\ heard' = heard \cup {n} /\ UNCHANGED unknown
       \/ /\ n \in gone /\ unknown' = unknown \cup {n} /\ UNCHANGED heard
          /\ \E m \in heard \cup {1}, removed \in SUBSET gone : file_usage(n, stat(m, removed))
       \/ n \in gone /\ UNCHANGED <<total_usage, prev_level, visited, printed, status, heard, unknown>>
    /\ walk' = Tail(walk)
    /\ UNCHANGED <<version, tree, gone>>

Leave ==
    /\ status = "walking" /\ walk = <<>>
    /\ status' = "done"
    /\ UNCHANGED <<version, tree, gone, walk, total_usage, prev_level, visited, printed, heard, unknown>>

\* Another process removes a file, reported or not, one in all.
Unlink ==
    /\ status = "walking" /\ gone = {}
    /\ \E n \in Nodes \ tree.dirs : n # 1 /\ gone' = {n}
    /\ UNCHANGED <<version, tree, walk, total_usage, prev_level, visited, printed, status, heard, unknown>>

Next == Report \/ Leave \/ Unlink
Spec == Init /\ [][Next]_vars
------------------------------------------------------------------------------
(* Properties *)

\* The table holds the product of a file's number and its file system's: two
\* files may have the same.
Confused ==
    \E m, n \in Nodes : tree.id[m] # tree.id[n] /\ stat(m, {}).key = stat(n, {}).key
                        /\ stat(m, {}).nlink > 1 /\ stat(n, {}).nlink > 1

\* The links of a file of which one was reported, then removed, and left one only.
Bereft == {m \in Nodes : gone \cap heard \cap Links(m) # {} /\ stat(m, gone).nlink = 1}

\* The files that were reported in the tree of n, and, for spl_du2, were not
\* reported before.
Counted(n) ==
    LET order == PostOrder(tree, 1)
        Before(m) == {order[k] : k \in 1 .. IndexFirstSubSeq(<<m>>, order) - 1}
    IN {m \in Subtree(n) \cap heard :
          version = "du2" => \A b \in Before(m) \cap heard : tree.id[b] # tree.id[m]}

\* file_usage(): what is printed beside a name is the sum of the sizes of all
\* that is under it, however deep the walk goes down and comes up again, and of
\* nothing else; in spl_du2 each file is in one sum only, whatever links it has,
\* and has one line.  Not so if two files have one key in the table, not above a
\* file that could not be looked at, and not above a file that had two links of
\* which one was removed after it was reported: the other has st_nlink 1 by then,
\* is not looked for in the table, and is counted and printed again.
UsageAddsUp ==
    version = "du1" \/ ~Confused =>
        \A k \in DOMAIN printed :
            LET n == printed[k][1]
                clean == IF version = "du1" THEN Subtree(n) \cap unknown = {}
                         ELSE unknown = {} /\ Subtree(n) \cap Bereft = {}
            IN clean =>
                 /\ printed[k][2] = MapThenSumSet(LAMBDA m : stat(m, {}).usage, Counted(n))
                 /\ \A m \in DOMAIN printed :
                      version = "du2" /\ tree.id[printed[m][1]] = tree.id[n] => m = k

\* main(): it fails only if the tree is too deep.
FailsIfDeep ==
    status = "failed" => \E n \in Nodes : Level(n) >= MAXDEPTH
==============================================================================
