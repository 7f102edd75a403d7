-------------------------------- MODULE SplPwd --------------------------------
(***************************************************************************)
(* chapter07/spl_pwd.c: the path of the working directory, found by going  *)
(* up to the root and looking in each directory for the entry that has the *)
(* number and the file system of the directory come from.                  *)
(*                                                                         *)
(* Directories may be moved meanwhile.  A directory's node stands for its  *)
(* name, of one character; 0 is the name ".", which every directory has.   *)
(***************************************************************************)
EXTENDS Integers, Sequences, SequencesExt

CONSTANTS MaxDirs,      \* directories; 1 is the root
          MaxFront,     \* PATH_MAX - 1
          MaxMoves      \* bound on the directories moved

PwdAssumption == MaxDirs \in Nat \ {0} /\ MaxFront \in Nat \ {0} /\ MaxMoves \in Nat

VARIABLES
    fs,             \* a directory mounted (1: none), one that may not be entered (0: none),
                    \* and the one the program starts in
    parent, id,     \* the tree, and the directories' inode numbers and devices
    moves,
    cwd, current,   \* the working directory, and the identity looked for
    pc,
    entries,        \* what readdir() has still to return
    pathname, front,
    paths           \* ghost: the paths that the start has had

vars == <<fs, parent, id, moves, cwd, current, pc, entries, pathname, front, paths>>
tree == <<fs, parent, id, moves>>

Dirs == 1 .. MaxDirs
Above(p, d) == LET up[n \in Dirs] == IF n = 1 THEN <<>> ELSE Append(up[p[n]], n) IN up[d]
Under(p, d, n) == n = d \/ \E k \in DOMAIN Above(p, n) : Above(p, n)[k] = d

\* The root of a file system has inode number 2, also where one is mounted.
Ids(p, mount) ==
    [d \in Dirs |-> << IF d \in {1, mount} THEN 2 ELSE d + 1,
                       IF mount # 1 /\ Under(p, mount, d) THEN 2 ELSE 1 >>]

Start(p, start, mount, closed) ==
    /\ fs = [mount |-> mount, closed |-> closed, start |-> start]
    /\ parent = p /\ id = Ids(p, mount) /\ moves = 0
    /\ cwd = start /\ current = id[start]
    /\ pc = IF start = 1 THEN "printed" ELSE "chdir"
    /\ entries = {} /\ pathname = <<>> /\ front = MaxFront
    /\ paths = {Above(p, start)}

Init ==
    \E p \in [Dirs -> Dirs], start, mount \in Dirs, closed \in 0 .. MaxDirs :
        /\ p[1] = 1 /\ \A d \in Dirs \ {1} : p[d] < d
        /\ closed # start
        /\ Start(p, start, mount, closed)
------------------------------------------------------------------------------
(* get_filename() and main() *)

\* Mutant: the inode number alone.
are_samefile_ino(f1, f2) == f1[1] = f2[1]

are_samefile(f1, f2) == f1 = f2

\* It stays where it is if it may not enter the directory: nothing is said.
chdir ==
    /\ pc = "chdir" /\ pc' = "opendir"
    /\ cwd' = IF parent[cwd] = fs.closed THEN cwd ELSE parent[cwd]
    /\ UNCHANGED <<tree, current, entries, pathname, front, paths>>

opendir ==
    /\ pc = "opendir" /\ pc' = "readdir"
    /\ entries' = {d \in Dirs \ {1} : parent[d] = cwd} \cup {0, -1}
    /\ UNCHANGED <<tree, cwd, current, pathname, front, paths>>

\* What lstat() of an entry gives: -1 is the name "..".
dev_ino(e) == IF e > 0 THEN id[e] ELSE id[IF e = 0 THEN cwd ELSE parent[cwd]]

\* The name is put to the left of the path, or dots are if it does not fit.
Found(e) ==
    IF front - 1 <= 0
    THEN pc' = "dots" /\ front' = 0 /\ UNCHANGED <<current, pathname>>
    ELSE /\ pathname' = <<e>> \o pathname /\ front' = front - 2
         /\ current' = id[cwd]
         /\ pc' = IF are_samefile(id[cwd], id[1]) THEN "printed" ELSE "chdir"

get_filename ==
    /\ pc = "readdir"
    /\ \E e \in entries :
         /\ entries' = entries \ {e}
         /\ IF e > 0 /\ parent[e] # cwd
            THEN \* moved after it was read, or not read
                 pc' \in {"fatal", "readdir"} /\ UNCHANGED <<current, pathname, front>>
            ELSE IF are_samefile(dev_ino(e), current) THEN Found(e)
            ELSE UNCHANGED <<pc, current, pathname, front>>
    /\ UNCHANGED <<tree, cwd, paths>>

NotFound ==
    /\ pc = "readdir" /\ entries = {} /\ pc' = "fatal"
    /\ UNCHANGED <<tree, cwd, current, entries, pathname, front, paths>>

main == chdir \/ opendir \/ get_filename \/ NotFound

Ended == pc \in {"printed", "dots", "fatal"}

\* rename() by another process, within a file system.  A directory that comes
\* into one that is being read may be returned or not.
Move ==
    /\ ~Ended /\ moves < MaxMoves /\ moves' = moves + 1
    /\ \E d \in Dirs \ {1, fs.mount}, to \in Dirs :
         /\ ~Under(parent, d, to) /\ to # parent[d] /\ id[d][2] = id[to][2]
         /\ parent' = [parent EXCEPT ![d] = to]
         /\ \/ UNCHANGED entries
            \/ pc = "readdir" /\ to = cwd /\ entries' = entries \cup {d}
    /\ paths' = paths \cup {Above(parent', fs.start)}
    /\ UNCHANGED <<fs, id, cwd, current, pc, pathname, front>>

Next == main \/ Move
Spec == Init /\ [][Next]_vars /\ WF_vars(main)
------------------------------------------------------------------------------
(* Properties *)

\* The names that lead somewhere; was it ever unable to go up?
Named == SelectSeq(pathname, LAMBDA e : e > 0)
Stuck == current = id[cwd] \/ 0 \in ToSet(pathname)

\* main(): the path printed is one the directory had while the program ran, if
\* no more than one directory was moved; it fails only if one was, and prints
\* dots only where it could not go up or the path is longer than fits.
PathWasTrue ==
    /\ pc = "printed" /\ moves <= 1 => Named \in paths
    /\ pc = "fatal" => moves > 0
    /\ pc = "dots" => \/ Stuck
                      \/ moves > 1
                      \/ \E p \in paths : 2 * Len(p) > MaxFront /\ IsSuffix(pathname, p)

\* It ends, though going up may change nothing for as long as the path has room.
Ends == <>Ended
==============================================================================
