-------------------------------- MODULE Upcase --------------------------------
(***************************************************************************)
(* chapter14/upcased.c and upcase.c: a daemon reads the names of a         *)
(* client's two private FIFOs from a public one and forks a child, which   *)
(* reads a chunk of text from one and writes it converted to the other.    *)
(*                                                                         *)
(* A FIFO's open() for reading waits for a writer; the O_NONBLOCK open for *)
(* writing fails without a reader.  A FIFO's private names are created and *)
(* removed in pairs, a chunk is its number, and its conversion is written  *)
(* <<"upper", number>>.                                                    *)
(***************************************************************************)
EXTENDS Integers, Sequences

CONSTANTS Clients,
          CHUNKS,      \* how many chunks each client has to send: a function
          MAXTRIES,    \* tries at an open, a second apart (5)
          PIPE_MSGS,   \* messages the public FIFO holds (16)
          MaxStarts    \* how often the daemon is started

UpcaseAssumption ==
    CHUNKS \in [Clients -> Nat] /\ MAXTRIES \in Nat /\ PIPE_MSGS \in Nat /\ MaxStarts \in Nat

VARIABLES
    server,     \* the daemon: where it is, its incarnation, SIGCHLD pending?
    public,     \* the public FIFO: does its name exist, the messages in it
    client,     \* each client: where it is, its tries, the chunk it is at, the
                \* incarnation whose FIFO it opened
    child,      \* the process forked for it: where it is, its tries, its buffer
    fifos,      \* the clients whose private FIFOs exist
    raw, upcased, \* the private FIFOs: opened for writing?, the chunks in it
    output      \* what each client has copied to its standard output

vars == <<server, public, client, child, fifos, raw, upcased, output>>

Init ==
    /\ server = [pc |-> "off", gen |-> 0, sigchld |-> FALSE]
    /\ public = [exists |-> FALSE, msgs |-> <<>>]
    /\ client = [c \in Clients |-> [pc |-> "start", tries |-> 0, n |-> 1, gen |-> 0]]
    /\ child = [c \in Clients |-> [pc |-> "none", tries |-> 0, buf |-> <<>>]]
    /\ fifos = {}
    /\ raw = [c \in Clients |-> [opened |-> FALSE, data |-> <<>>]]
    /\ upcased = [c \in Clients |-> [opened |-> FALSE, data |-> <<>>]]
    /\ output = [c \in Clients |-> <<>>]

Ended   == {"done", "failed", "killed", "full"}     \* of a client
Running == {"openraw", "rawwait", "read", "openup", "write", "close"}   \* of a child
Reading == {"opening", "opened", "serving"} \* the daemon has the public FIFO open
------------------------------------------------------------------------------
(* upcased.c: main() *)

\* A name left behind keeps the next daemon from starting.
mkfifo_public ==
    /\ server.pc = "off" /\ server.gen < MaxStarts
    /\ server' = [server EXCEPT !.gen = @ + 1, !.pc = IF public.exists THEN "off" ELSE "daemon"]
    /\ public' = [exists |-> TRUE, msgs |-> <<>>]
    /\ UNCHANGED <<client, child, fifos, raw, upcased, output>>

\* The daemon installs its handlers and blocks in open() until a client has
\* opened the FIFO for writing; the handler needs server_pid, stored after it.
OpenPublic ==
    /\ \/ server.pc = "daemon" /\ server' = [server EXCEPT !.pc = "opening"]
       \/ /\ server.pc = "opening" /\ \E c \in Clients : client[c].gen = server.gen
          /\ server' = [server EXCEPT !.pc = "opened"]
       \/ server.pc = "opened" /\ server' = [server EXCEPT !.pc = "serving"]
    /\ UNCHANGED <<public, client, child, fifos, raw, upcased, output>>

ForkChild ==
    /\ server.pc = "serving" /\ public.msgs # <<>>
    /\ public' = [public EXCEPT !.msgs = Tail(@)]
    /\ child' = [child EXCEPT ![Head(public.msgs)].pc = "openraw"]
    /\ UNCHANGED <<server, client, fifos, raw, upcased, output>>

\* Mutant: one child is collected for each SIGCHLD.
on_sigchld_once ==
    /\ server.pc = "serving" /\ server.sigchld
    /\ server' = [server EXCEPT !.sigchld = FALSE]
    /\ \E c \in Clients : child[c].pc = "zombie" /\ child' = [child EXCEPT ![c].pc = "gone"]
    /\ UNCHANGED <<public, client, fifos, raw, upcased, output>>

\* Signals do not queue: the handler's loop collects every child that has ended.
on_sigchld ==
    /\ server.pc = "serving" /\ server.sigchld
    /\ server' = [server EXCEPT !.sigchld = FALSE]
    /\ child' = [c \in Clients |->
                    [child[c] EXCEPT !.pc = IF @ = "zombie" THEN "gone" ELSE @]]
    /\ UNCHANGED <<public, client, fifos, raw, upcased, output>>

\* A terminating signal.  Before the handlers are installed it just kills;
\* before server_pid is stored the handler does not know it is in the daemon.
on_signal_server ==
    /\ server.pc # "off"
    /\ server' = [server EXCEPT !.pc = "off", !.sigchld = FALSE]
    /\ public' = [exists |-> server.pc # "serving", msgs |-> <<>>]
    /\ child' = [c \in Clients |->
                    [child[c] EXCEPT !.pc = IF @ = "zombie" THEN "gone" ELSE @]]
    /\ UNCHANGED <<client, fifos, raw, upcased, output>>
------------------------------------------------------------------------------
(* upcased.c: process_client(), in the child for client c *)

\* exit(): a zombie until the daemon collects it, unless that is gone.
Exit(c) ==
    LET parent == server.pc = "serving" /\ server.gen = client[c].gen IN
    /\ child' = [child EXCEPT ![c].pc = IF parent THEN "zombie" ELSE "gone"]
    /\ server' = IF parent THEN [server EXCEPT !.sigchld = TRUE] ELSE server

ChildGoto(c, to) == child' = [child EXCEPT ![c].pc = to] /\ UNCHANGED server

OpenRaw(c) ==
    /\ \/ child[c].pc = "openraw" /\ c \in fifos /\ ChildGoto(c, "rawwait")
       \/ child[c].pc = "openraw" /\ c \notin fifos /\ Exit(c)
       \/ child[c].pc = "rawwait" /\ raw[c].opened /\ ChildGoto(c, "read")
    /\ UNCHANGED <<public, client, fifos, raw, upcased, output>>

\* read() returns what is there, or 0 once the client has ended.
ReadRaw(c) ==
    /\ child[c].pc = "read"
    /\ \/ /\ raw[c].data # <<>>
          /\ raw' = [raw EXCEPT ![c].data = <<>>]
          /\ child' = [child EXCEPT ![c] = [pc |-> "openup", tries |-> 0, buf |-> raw[c].data]]
          /\ UNCHANGED server
       \/ raw[c].data = <<>> /\ client[c].pc \in Ended /\ Exit(c) /\ UNCHANGED raw
    /\ UNCHANGED <<public, client, fifos, upcased, output>>

\* Mutant: the child goes on to the next chunk.
OpenUpcasedSkipping(c) ==
    LET reader == client[c].pc \in {"upwait", "upread"} IN
    /\ child[c].pc = "openup"
    /\ \/ child[c].tries < MAXTRIES /\ reader /\ ChildGoto(c, "write")
       \/ child[c].tries < MAXTRIES /\ ~reader
          /\ child' = [child EXCEPT ![c].tries = @ + 1] /\ UNCHANGED server
       \/ child[c].tries = MAXTRIES /\ ChildGoto(c, "read")
    /\ upcased' = [upcased EXCEPT ![c].opened = @ \/ reader]
    /\ UNCHANGED <<public, client, fifos, raw, output>>

\* The tries are counted so that a success after the last one is given up too.
OpenUpcased(c) ==
    LET reader == client[c].pc \in {"upwait", "upread"} IN
    /\ child[c].pc = "openup"
    /\ \/ child[c].tries < MAXTRIES /\ reader /\ ChildGoto(c, "write")
       \/ child[c].tries < MAXTRIES /\ ~reader
          /\ child' = [child EXCEPT ![c].tries = @ + 1] /\ UNCHANGED server
       \/ child[c].tries = MAXTRIES /\ Exit(c)
    /\ upcased' = [upcased EXCEPT ![c].opened = @ \/ reader]
    /\ UNCHANGED <<public, client, fifos, raw, output>>

\* Mutant: the FIFO is left open for the next chunk.
WriteUpcasedOpen(c) ==
    /\ \/ /\ child[c].pc = "write" /\ client[c].pc \notin Ended
          /\ upcased' = [upcased EXCEPT ![c].data = @ \o [k \in DOMAIN child[c].buf |->
                                                          <<"upper", child[c].buf[k]>>]]
          /\ ChildGoto(c, "close")
       \/ /\ child[c].pc = "write" /\ client[c].pc \in Ended
          /\ Exit(c) /\ UNCHANGED upcased
       \/ /\ child[c].pc = "close" /\ raw[c].data # <<>>
          /\ ChildGoto(c, "read") /\ UNCHANGED upcased
    /\ UNCHANGED <<public, client, fifos, raw, output>>

\* EPIPE when the client has closed its end, else write and close.
WriteUpcased(c) ==
    /\ \/ /\ child[c].pc = "write" /\ client[c].pc \notin Ended
          /\ upcased' = [upcased EXCEPT ![c].data = @ \o [k \in DOMAIN child[c].buf |->
                                                          <<"upper", child[c].buf[k]>>]]
          /\ ChildGoto(c, "close")
       \/ /\ child[c].pc = "write" /\ client[c].pc \in Ended
          /\ Exit(c) /\ UNCHANGED upcased
       \/ child[c].pc = "close" /\ ChildGoto(c, "read") /\ UNCHANGED upcased
    /\ UNCHANGED <<public, client, fifos, raw, output>>

on_signal_child(c) ==
    /\ child[c].pc \in Running /\ Exit(c)
    /\ UNCHANGED <<public, client, fifos, raw, upcased, output>>

process_client(c) == OpenRaw(c) \/ ReadRaw(c) \/ OpenUpcased(c) \/ WriteUpcased(c)
------------------------------------------------------------------------------
(* upcase.c *)

ClientGoto(c, from, to) == client[c].pc = from /\ client' = [client EXCEPT ![c].pc = to]

\* clean_up() and exit(), also of the two signal handlers
CleanUp(c, to) ==
    client' = [client EXCEPT ![c].pc = to] /\ fifos' = fifos \ {c}

mkfifo_private(c) ==
    /\ ClientGoto(c, "start", "created")
    /\ fifos' = fifos \cup {c}
    /\ UNCHANGED <<server, public, child, raw, upcased, output>>

\* ENOENT without the name, ENXIO when nobody reads.
open_public(c) ==
    /\ client[c].pc = "created"
    /\ \/ /\ public.exists /\ server.pc \in Reading
          /\ client' = [client EXCEPT ![c].pc = "opened", ![c].gen = server.gen]
          /\ UNCHANGED fifos
       \/ ~(public.exists /\ server.pc \in Reading) /\ CleanUp(c, "failed")
    /\ UNCHANGED <<server, public, child, raw, upcased, output>>

\* A child has the daemon's descriptors too: as long as one lives, the write to
\* a FIFO whose daemon is gone succeeds.  Else on_sigpipe().  A full FIFO makes
\* the write fail, which is fatal_error() without clean_up().
send(c) ==
    LET alive  == server.pc \in Reading /\ server.gen = client[c].gen
        reader == alive \/ \E d \in Clients : child[d].pc \in Running
                                              /\ client[d].gen = client[c].gen
        full   == alive /\ Len(public.msgs) >= PIPE_MSGS
    IN  /\ client[c].pc = "opened"
        /\ public' = IF alive /\ ~full THEN [public EXCEPT !.msgs = Append(@, c)] ELSE public
        /\ \/ full /\ ClientGoto(c, "opened", "full") /\ UNCHANGED fifos
           \/ reader /\ ~full /\ ClientGoto(c, "opened", "sent") /\ UNCHANGED fifos
           \/ ~reader /\ CleanUp(c, "failed")
        /\ UNCHANGED <<server, child, raw, upcased, output>>

\* Mutant: giving up leaves the private FIFOs.
open_raw_littering(c) ==
    LET reader == child[c].pc = "rawwait" IN
    /\ client[c].pc = "sent"
    /\ \/ client[c].tries < MAXTRIES /\ reader /\ ClientGoto(c, "sent", "chunk") /\ UNCHANGED fifos
       \/ client[c].tries < MAXTRIES /\ ~reader
          /\ client' = [client EXCEPT ![c].tries = @ + 1] /\ UNCHANGED fifos
       \/ client[c].tries = MAXTRIES /\ ClientGoto(c, "sent", "failed") /\ UNCHANGED fifos
    /\ raw' = [raw EXCEPT ![c].opened = @ \/ reader]
    /\ UNCHANGED <<server, public, child, upcased, output>>

open_raw(c) ==
    LET reader == child[c].pc = "rawwait" IN
    /\ client[c].pc = "sent"
    /\ \/ client[c].tries < MAXTRIES /\ reader /\ ClientGoto(c, "sent", "chunk") /\ UNCHANGED fifos
       \/ client[c].tries < MAXTRIES /\ ~reader
          /\ client' = [client EXCEPT ![c].tries = @ + 1] /\ UNCHANGED fifos
       \/ client[c].tries = MAXTRIES /\ CleanUp(c, "failed")
    /\ raw' = [raw EXCEPT ![c].opened = @ \/ reader]
    /\ UNCHANGED <<server, public, child, upcased, output>>

\* Without a reader the write raises SIGPIPE.
write_raw(c) ==
    /\ client[c].pc = "chunk"
    /\ \/ client[c].n > CHUNKS[c] /\ CleanUp(c, "done") /\ UNCHANGED raw
       \/ /\ client[c].n <= CHUNKS[c] /\ child[c].pc \in Running
          /\ raw' = [raw EXCEPT ![c].data = Append(@, client[c].n)]
          /\ ClientGoto(c, "chunk", "openup") /\ UNCHANGED fifos
       \/ client[c].n <= CHUNKS[c] /\ child[c].pc \notin Running
          /\ CleanUp(c, "failed") /\ UNCHANGED raw
    /\ UNCHANGED <<server, public, child, upcased, output>>

\* open(O_RDONLY) announces a reader, then waits for a writer to have come.
open_upcased(c) ==
    /\ \/ ClientGoto(c, "openup", "upwait")
       \/ upcased[c].opened /\ ClientGoto(c, "upwait", "upread")
    /\ UNCHANGED <<server, public, child, fifos, raw, upcased, output>>

\* Reads go on to the end of file, that is until the child has closed.
read_upcased(c) ==
    /\ client[c].pc = "upread"
    /\ IF upcased[c].data # <<>>
       THEN /\ output' = [output EXCEPT ![c] = @ \o upcased[c].data]
            /\ upcased' = [upcased EXCEPT ![c].data = <<>>]
            /\ UNCHANGED client
       ELSE /\ child[c].pc \notin {"write", "close"}
            /\ client' = [client EXCEPT ![c].pc = "chunk", ![c].n = @ + 1]
            /\ upcased' = [upcased EXCEPT ![c].opened = FALSE]
            /\ UNCHANGED output
    /\ UNCHANGED <<server, public, child, fifos, raw>>

on_signal_client(c) ==
    /\ client[c].pc \notin Ended \cup {"start"}
    /\ CleanUp(c, "killed")
    /\ UNCHANGED <<server, public, child, raw, upcased, output>>

upcase(c) ==
    \/ mkfifo_private(c) \/ open_public(c) \/ send(c) \/ open_raw(c)
    \/ write_raw(c) \/ open_upcased(c) \/ read_upcased(c)
------------------------------------------------------------------------------
Daemon == OpenPublic \/ ForkChild \/ on_sigchld

Next ==
    \/ mkfifo_public \/ Daemon \/ on_signal_server
    \/ \E c \in Clients :
         process_client(c) \/ on_signal_child(c) \/ upcase(c) \/ on_signal_client(c)

Spec == Init /\ [][Next]_vars

\* Processes run; nobody has to start the daemon or to send a signal.
FairSpec ==
    /\ Spec
    /\ WF_vars(Daemon)
    /\ \A c \in Clients : WF_vars(process_client(c)) /\ WF_vars(upcase(c))
------------------------------------------------------------------------------
(* Properties *)

\* A client's output is its text converted, chunk after chunk, nothing twice
\* and nothing left out before the end, although the FIFO that carries it is
\* opened and closed anew for each chunk.
OutputIsConverted ==
    \A c \in Clients : output[c] = [k \in 1 .. Len(output[c]) |-> <<"upper", k>>]

\* Wherever a client is when it ends or is ended, its private FIFOs are removed,
\* but for the exit of line 151 (chapter15/upcase.c:155), where the public FIFO is
\* full: although "added calls to [cleanup()] whenever client exits prematurely"
\* (chapter15/upcase.c:25-26).
NoPrivateFifoLeft == \A c \in Clients : client[c].pc \in Ended \ {"full"} => c \notin fifos

\* A client whose message is sent comes to its end, unless the child that
\* serves it has ended first: no pair of opens where each waits for the other.
SessionsEnd ==
    []<>(\A c \in Clients : \/ client[c].pc \in Ended \cup {"start", "created", "opened"}
                           \/ child[c].pc \in {"zombie", "gone"})

\* Children that end together raise one SIGCHLD: all are collected while the
\* daemon lives.
NoZombieStays == []<>(\A c \in Clients : child[c].pc # "zombie")

\* "This server handles all user-initiated terminating signals by ... removing
\* the public FIFO" (upcased.c:23-25): on_signal(), once it is installed.
PublicFifoRemoved ==
    [][server.pc \in Reading /\ server'.pc = "off" => ~public'.exists]_vars
------------------------------------------------------------------------------
(* The inductive invariant behind OutputIsConverted and NoPrivateFifoLeft.     *)
(* ThreadedUpcase, whose clients and threads do the same, has it too.          *)

Before == {"start", "created", "opened"}    \* a client that has not sent yet
Dead   == {"zombie", "gone"}                \* of a child

Places == Before \cup Ended \cup {"sent", "chunk", "openup", "upwait", "upread"}
Shapes ==
    /\ client \in [Clients -> [pc : Places, tries : Int, n : Int, gen : Int]]
    /\ child \in [Clients -> [pc : {"none"} \cup Running \cup Dead, tries : Int, buf : Seq(Int)]]
    /\ raw \in [Clients -> [opened : BOOLEAN, data : Seq(Int)]]
    /\ upcased \in [Clients -> [opened : BOOLEAN, data : Seq({"upper"} \X Int)]]
    /\ output \in [Clients -> Seq({"upper"} \X Int)]

\* A message waits for a child that is not there yet, and each client sends one.
Waits(c) == child[c].pc = "none" /\ client[c].pc \in {"sent"} \cup Ended
Asks(q) ==
    /\ q \in Seq(Clients) /\ \A j \in 1 .. Len(q) : Waits(q[j])
    /\ \A j, k \in 1 .. Len(q) : q[j] = q[k] => j = k
Served == \A c \in Clients : client[c].pc \in Before => child[c].pc = "none"

\* Where the chunk that the client is at is: not written yet or in the first
\* FIFO; in the child's hands; in the second; or copied to the output.
Unread(c, seq) ==
    /\ child[c].pc \in {"rawwait", "read"} /\ raw[c].data = seq
    /\ ~upcased[c].opened /\ upcased[c].data = <<>>
InHand(c, pc) ==
    /\ child[c].pc = pc /\ raw[c].data = <<>> /\ child[c].buf = <<client[c].n>>
    /\ (upcased[c].opened <=> pc = "write") /\ upcased[c].data = <<>>
Written(c, seq) ==
    /\ child[c].pc \in {"close", "read"} /\ raw[c].data = <<>>
    /\ upcased[c].opened /\ upcased[c].data = seq

\* A client that lives and its child, which lives too: the chunk it is at
Passing(c) ==
    LET pc    == client[c].pc
        n     == client[c].n
        next  == n = Len(output[c]) + 1
        upper == << <<"upper", n>> >>
    IN  \/ /\ pc \in Before \cup {"sent"} /\ child[c].pc \in {"none", "openraw", "rawwait"}
           /\ n = 1 /\ Len(output[c]) = 0
           /\ ~raw[c].opened /\ raw[c].data = <<>>
           /\ ~upcased[c].opened /\ upcased[c].data = <<>>
        \/ pc = "chunk" /\ next /\ Unread(c, <<>>)
        \/ pc \in {"openup", "upwait"} /\ next /\ (Unread(c, <<n>>) \/ InHand(c, "openup"))
        \/ pc \in {"upwait", "upread"} /\ next /\ (InHand(c, "write") \/ Written(c, upper))
        \/ pc = "upread" /\ n = Len(output[c]) /\ Written(c, <<>>)

\* Whoever has died, the second FIFO holds the chunk after those copied, or nothing.
Flow(c) ==
    /\ output[c] = [k \in 1 .. Len(output[c]) |-> <<"upper", k>>]
    /\ upcased[c].data = <<>> \/ upcased[c].data = << <<"upper", Len(output[c]) + 1>> >>
    /\ client[c].pc \notin Ended /\ child[c].pc \notin Dead => Passing(c)

DaemonOK ==
    /\ server \in [pc : {"off", "daemon", "opening", "opened", "serving"}, gen : Int, sigchld : BOOLEAN]
    /\ public \in [exists : BOOLEAN, msgs : Seq(Clients)]
    /\ Asks(public.msgs)

FlowInv ==
    /\ Shapes /\ Served /\ DaemonOK /\ NoPrivateFifoLeft
    /\ \A c \in Clients : Flow(c)
==============================================================================
