-------------------------------- MODULE SyncIO --------------------------------
(***************************************************************************)
(* chapter11/sync_io_demo.c: a parent reads what its child writes to a     *)
(* file whose descriptor, and so whose offset, they share.  They take      *)
(* turns with kill() and pause(); a signal that is delivered before its    *)
(* receiver is in pause() wakes nobody.                                    *)
(*                                                                         *)
(* Every system call that touches the shared offset, a signal or a         *)
(* disposition is a step.  A byte of the file stands for its offset.       *)
(***************************************************************************)
EXTENDS Integers, Sequences

CONSTANTS ROUNDS,       \* how often the child writes (20 in the code)
          DATA_LEN,     \* bytes of a write (20)
          CHUNKSIZE     \* bytes of a read (8)

SyncAssumption ==
    /\ ROUNDS \in Nat \ {0} /\ DATA_LEN \in Nat \ {0} /\ CHUNKSIZE \in Nat \ {0}

VARIABLES
    pc,        \* where each process is
    pending,   \* the signals sent to each process and not yet delivered
    fd,        \* the open file description: its offset, and the file's size
    child,     \* the child's locals
    parent,    \* the parent's locals, its flag and its installed handlers
    log        \* history: offsets written at, <<offset, length>> printed, and was
               \* a signal delivered to a process that was not in pause()?

vars == <<pc, pending, fd, child, parent, log>>

Init ==
    /\ pc = [parent |-> "install", child |-> "seek"]
    /\ pending = [parent |-> {}, child |-> {}]
    /\ fd = [offset |-> 0, size |-> 0]
    /\ child = [count |-> 0, pos |-> 0]
    /\ parent = [pos |-> 0, unread |-> 0, done |-> FALSE, handlers |-> {}]
    /\ log = [written |-> <<>>, printed |-> <<>>, lost |-> FALSE]

Goto(q, from, to) == pc[q] = from /\ pc' = [pc EXCEPT ![q] = to]

\* kill(): the signal is pending until it is delivered.
Send(q, sig) == pending' = [pending EXCEPT ![q] = @ \cup {sig}]
------------------------------------------------------------------------------
(* produce_data(), the child; its handler is installed before it writes *)

SeekToWrite ==
    /\ Goto("child", "seek", "write")
    /\ fd' = [fd EXCEPT !.offset = child.pos]
    /\ UNCHANGED <<pending, child, parent, log>>

Write ==
    LET end == fd.offset + DATA_LEN IN
    /\ Goto("child", "write", "end")
    /\ log' = [log EXCEPT !.written = Append(@, fd.offset)]
    /\ fd' = [offset |-> end, size |-> IF end > fd.size THEN end ELSE fd.size]
    /\ UNCHANGED <<pending, child, parent>>

SeekEnd ==
    /\ Goto("child", "end", "notify")
    /\ fd' = [fd EXCEPT !.offset = fd.size]
    /\ child' = [count |-> child.count + 1, pos |-> fd.size]
    /\ UNCHANGED <<pending, parent, log>>

Notify ==
    /\ \/ child.count < ROUNDS
          /\ Goto("child", "notify", "pause") /\ Send("parent", "SIGUSR1")
       \/ child.count >= ROUNDS
          /\ Goto("child", "notify", "exit") /\ Send("parent", "SIGUSR2")
    /\ UNCHANGED <<fd, child, parent, log>>

produce_data == SeekToWrite \/ Write \/ SeekEnd \/ Notify
------------------------------------------------------------------------------
(* main(), the parent *)

Install ==
    /\ \/ Goto("parent", "install", "install2")
          /\ parent' = [parent EXCEPT !.handlers = {"SIGUSR1"}]
       \/ Goto("parent", "install2", "pause")
          /\ parent' = [parent EXCEPT !.handlers = {"SIGUSR1", "SIGUSR2"}]
    /\ UNCHANGED <<pending, fd, child, log>>

\* Mutant: the child is answered before the parent has read.
SeekToReadAnswering ==
    /\ \/ Goto("parent", "size", "seek") /\ UNCHANGED pending
          /\ fd' = [fd EXCEPT !.offset = fd.size]
          /\ parent' = [parent EXCEPT !.unread = fd.size - parent.pos]
       \/ Goto("parent", "seek", "read") /\ Send("child", "SIGUSR1")
          /\ fd' = [fd EXCEPT !.offset = parent.pos] /\ UNCHANGED parent
    /\ UNCHANGED <<child, log>>

\* unread_bytes = lseek(fd, 0, SEEK_END) - pos; lseek(fd, pos, SEEK_SET)
SeekToRead ==
    /\ \/ Goto("parent", "size", "seek")
          /\ fd' = [fd EXCEPT !.offset = fd.size]
          /\ parent' = [parent EXCEPT !.unread = fd.size - parent.pos]
       \/ Goto("parent", "seek", "read")
          /\ fd' = [fd EXCEPT !.offset = parent.pos] /\ UNCHANGED parent
    /\ UNCHANGED <<pending, child, log>>

Read(n, to) ==
    /\ Goto("parent", "read", to)
    /\ log' = [log EXCEPT !.printed = Append(@, <<fd.offset, n>>)]
    /\ fd' = [fd EXCEPT !.offset = @ + n]
    /\ parent' = [parent EXCEPT !.unread = @ - n]
    /\ UNCHANGED <<pending, child>>

ReadChunk == parent.unread >= CHUNKSIZE /\ Read(CHUNKSIZE, "read")
ReadTail  == parent.unread < CHUNKSIZE /\ parent.done /\ Read(parent.unread, "exit")

\* Mutant: the position is not saved after the reads.
SavePositionNot ==
    /\ parent.unread < CHUNKSIZE /\ ~parent.done
    /\ Goto("parent", "read", "reply")
    /\ UNCHANGED <<pending, fd, child, parent, log>>

SavePosition ==
    /\ parent.unread < CHUNKSIZE /\ ~parent.done
    /\ Goto("parent", "read", "reply")
    /\ parent' = [parent EXCEPT !.pos = fd.offset]
    /\ UNCHANGED <<pending, fd, child, log>>

Reply ==
    /\ Goto("parent", "reply", "pause") /\ Send("child", "SIGUSR1")
    /\ UNCHANGED <<fd, child, parent, log>>

main == Install \/ SeekToRead \/ ReadChunk \/ ReadTail \/ SavePosition \/ Reply
------------------------------------------------------------------------------
Pause(q) ==
    Goto(q, "pause", "paused") /\ UNCHANGED <<pending, fd, child, parent, log>>

\* Mutant: the handler tests for the wrong signal.
usr_handler_wrong(q) == \E sig \in pending[q] :
    LET handled == q = "child" \/ sig \in parent.handlers IN
    /\ pc[q] \notin {"exit", "killed"}
    /\ pending' = [pending EXCEPT ![q] = @ \ {sig}]
    /\ parent' = [parent EXCEPT !.done = @ \/ sig = "SIGTERM"]
    /\ pc' = [pc EXCEPT ![q] = IF ~handled THEN "killed"
                               ELSE IF @ # "paused" THEN @
                               ELSE IF q = "parent" THEN "size" ELSE "seek"]
    /\ log' = [log EXCEPT !.lost = @ \/ pc[q] # "paused"]
    /\ UNCHANGED <<fd, child>>

\* The delivery of a signal: the handler runs and a pause() it interrupts
\* returns; before pause() it has no other effect.  Where no handler is
\* installed yet, the signal kills.
usr_handler(q) == \E sig \in pending[q] :
    LET handled == q = "child" \/ sig \in parent.handlers IN
    /\ pc[q] \notin {"exit", "killed"}
    /\ pending' = [pending EXCEPT ![q] = @ \ {sig}]
    /\ parent' = [parent EXCEPT !.done = @ \/ (q = "parent" /\ sig = "SIGUSR2")]
    /\ pc' = [pc EXCEPT ![q] = IF ~handled THEN "killed"
                               ELSE IF @ # "paused" THEN @
                               ELSE IF q = "parent" THEN "size" ELSE "seek"]
    /\ log' = [log EXCEPT !.lost = @ \/ pc[q] # "paused"]
    /\ UNCHANGED <<fd, child>>

Next ==
    produce_data \/ main \/ \E q \in {"parent", "child"} : Pause(q) \/ usr_handler(q)

Spec == Init /\ [][Next]_vars

\* Both processes run and the kernel delivers what is pending.
FairSpec ==
    /\ Spec
    /\ WF_vars(produce_data \/ Pause("child")) /\ WF_vars(usr_handler("child"))
    /\ WF_vars(main \/ Pause("parent")) /\ WF_vars(usr_handler("parent"))
------------------------------------------------------------------------------
(* Properties *)

\* The two never use the shared offset at once: neither moves it between the
\* other's lseek and the read or write that relies on it.
TurnsTaken == ~ (pc["parent"] \in {"seek", "read"} /\ pc["child"] \in {"write", "end"})

\* When the parent exits, the child has written each round after the one before
\* and the parent has printed every byte once, in order, the short tail included.
AllPrintedAtExit ==
    LET P == log.printed IN
    pc["parent"] = "exit" =>
        /\ log.written = [k \in 1 .. ROUNDS |-> (k - 1) * DATA_LEN]
        /\ P[1][1] = 0
        /\ \A k \in 1 .. Len(P) :
             P[k][1] + P[k][2] = IF k = Len(P) THEN fd.size ELSE P[k + 1][1]

\* "To prevent deadlock the order of pausing and signaling is reversed" (lines
\* 21-28): it never happens that the parent sleeps with no signal on its way
\* while the child sleeps likewise or has exited.
NobodyWaitsForEver ==
    ~ /\ pc["parent"] = "paused" /\ pending["parent"] = {}
      /\ pc["child"] \in {"paused", "exit"} /\ pending["child"] = {}

\* They do so only after a signal came to a process that was not yet in pause():
\* nothing else parts the two (lines 75-76 and the parent's loop).
AsleepOnlyIfLost == ~NobodyWaitsForEver => log.lost

\* The parent comes to its exit, or a signal came before its receiver slept.
ParentExits == <>(pc["parent"] = "exit" \/ log.lost)
------------------------------------------------------------------------------
(* The inductive invariant behind TurnsTaken, AllPrintedAtExit and             *)
(* AsleepOnlyIfLost                                                            *)

\* Whose turn it is: the child writes, the parent's signal is on its way, the
\* parent reads, or the child's signal is; the second and third but for the
\* signal's name once the child has exited.  After the loss of a signal it is
\* nobody's.
Turns ==
    LET p == pc["parent"] c == pc["child"]
        toParent == pending["parent"] toChild == pending["child"]
        notReading == {"install", "install2", "pause", "paused"}
    IN  \/ /\ c \in {"seek", "write", "end", "notify"} /\ p \in notReading
           /\ toParent = {} /\ toChild = {} /\ ~parent.done
        \/ /\ c \in {"pause", "paused"} /\ p \in notReading
           /\ toParent = {"SIGUSR1"} /\ toChild = {} /\ ~parent.done
        \/ /\ c \in {"pause", "paused"} /\ p \in {"size", "seek", "read", "reply"}
           /\ toParent = {} /\ toChild = {} /\ ~parent.done
        \/ /\ c \in {"pause", "paused"} /\ p \in {"pause", "paused"}
           /\ toParent = {} /\ toChild = {"SIGUSR1"} /\ ~parent.done
        \/ /\ c = "exit" /\ p \in notReading
           /\ toParent = {"SIGUSR2"} /\ toChild = {} /\ ~parent.done
        \/ /\ c = "exit" /\ p \in {"size", "seek", "read", "exit"}
           /\ toParent = {} /\ toChild = {} /\ parent.done
        \/ /\ c \in {"pause", "paused", "exit"} /\ p \in {"install2", "pause", "paused", "killed"}
           /\ toParent = {} /\ toChild = {} /\ log.lost

\* The handlers that main() has installed by then.
Installed ==
    pc["parent"] # "killed" =>
    parent.handlers = IF pc["parent"] = "install" THEN {}
                      ELSE IF pc["parent"] = "install2" THEN {"SIGUSR1"}
                      ELSE {"SIGUSR1", "SIGUSR2"}

\* The rounds written: the child counts one after it has written it.
Rounds == child.count + IF pc["child"] = "end" THEN 1 ELSE 0
RoundsWritten ==
    /\ child.count \in 0 .. ROUNDS
    /\ pc["child"] \notin {"notify", "exit"} => child.count < ROUNDS
    /\ pc["child"] = "exit" => child.count = ROUNDS
    /\ log.written = [k \in 1 .. Rounds |-> (k - 1) * DATA_LEN]
    /\ fd.size = Rounds * DATA_LEN
    /\ pc["child"] # "end" => child.pos = fd.size
    /\ pc["child"] = "write" => fd.offset = child.pos

\* Up to where the file has been printed, and that without a gap.
Printed ==
    LET P == log.printed IN
    IF P = <<>> THEN 0 ELSE P[Len(P)][1] + P[Len(P)][2]
NoGap ==
    LET P == log.printed IN
    /\ P \in Seq(Int \X Int)
    /\ P # <<>> => P[1][1] = 0
    /\ \A k \in 1 .. Len(P) - 1 : P[k][1] + P[k][2] = P[k + 1][1]

\* The parent's position and how much it has to read when it reads.
ReadUpTo ==
    /\ fd.offset \in Int /\ fd.size \in Int /\ parent.pos \in Int /\ parent.unread \in Int
    /\ pc["parent"] \notin {"read", "exit"} => parent.pos = Printed
    /\ pc["parent"] = "seek" => parent.unread = fd.size - parent.pos
    /\ pc["parent"] = "read" => fd.offset = Printed /\ parent.unread = fd.size - fd.offset
    /\ pc["parent"] = "exit" => log.printed # <<>> /\ Printed = fd.size

IOInv ==
    /\ pc = [q \in {"parent", "child"} |-> pc[q]]
    /\ pending = [q \in {"parent", "child"} |-> pending[q]]
    /\ fd = [offset |-> fd.offset, size |-> fd.size]
    /\ child = [count |-> child.count, pos |-> child.pos]
    /\ parent = [pos |-> parent.pos, unread |-> parent.unread, done |-> parent.done,
                 handlers |-> parent.handlers]
    /\ log = [written |-> log.written, printed |-> log.printed, lost |-> log.lost]
    /\ Turns /\ Installed /\ RoundsWritten /\ NoGap /\ ReadUpTo
==============================================================================
