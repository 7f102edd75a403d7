-------------------------------- MODULE SplCalc --------------------------------
(***************************************************************************)
(* chapter14/spl_calc_server.c and spl_calc_client.c: a server that takes  *)
(* the messages of its clients one at a time, lets bc evaluate the         *)
(* expression and writes the result to the client's private FIFO, trying   *)
(* MAXTRIES times to open it.                                              *)
(***************************************************************************)
EXTENDS Integers, Sequences

CONSTANTS Clients, MAXTRIES, PIPE_MSGS,
          MaxStarts     \* how often the server is started

VARIABLES
    server,     \* where it is, the client it serves, its tries, its incarnation
    public,     \* the public FIFO: does the name exist, has a client opened it,
                \* the messages in it
    client,     \* each client: where it is, the incarnation whose FIFO it has open
                \* (0 if none), what it has read
    fifos,      \* the clients whose private FIFO has its name
    private     \* each private FIFO: has the server opened it?, what is in it

vars == <<server, public, client, fifos, private>>

Init ==
    /\ server = [pc |-> "off", for |-> "none", tries |-> 0, gen |-> 0]
    /\ public = [exists |-> FALSE, writer |-> FALSE, msgs |-> <<>>]
    /\ client = [c \in Clients |-> [pc |-> "start", public_fd |-> 0, got |-> <<>>]]
    /\ fifos = {}
    /\ private = [c \in Clients |-> [opened |-> FALSE, data |-> <<>>]]

Alive == server.pc # "off"
Ended == {"done", "failed", "unserved", "abandoned", "killed"}
------------------------------------------------------------------------------
(* spl_calc_server.c *)

mkfifo_public ==
    /\ server.pc = "off" /\ server.gen < MaxStarts
    /\ server' = [server EXCEPT !.gen = @ + 1, !.pc = IF public.exists THEN "off" ELSE "opening"]
    /\ public' = [public EXCEPT !.exists = TRUE, !.writer = FALSE]
    /\ UNCHANGED <<client, fifos, private>>

OpenPublic ==
    /\ server.pc = "opening" /\ public.writer
    /\ server' = [server EXCEPT !.pc = "read"]
    /\ UNCHANGED <<public, client, fifos, private>>

ReadMessage ==
    /\ server.pc = "read" /\ public.msgs # <<>>
    /\ server' = [server EXCEPT !.pc = "try", !.for = Head(public.msgs), !.tries = 0]
    /\ public' = [public EXCEPT !.msgs = Tail(@)]
    /\ UNCHANGED <<client, fifos, private>>

Reader(c) == c \in fifos /\ client[c].pc \in {"waiting", "reading"}

TryOpenForever ==       \* a mistake: the tries are not counted
    /\ server.pc = "try"
    /\ IF Reader(server.for)
       THEN /\ server' = [server EXCEPT !.pc = "bc"]
            /\ private' = [private EXCEPT ![server.for].opened = TRUE]
       ELSE UNCHANGED <<server, private>>
    /\ UNCHANGED <<public, client, fifos>>

\* open(O_WRONLY | O_NONBLOCK), or a second's sleep
TryOpen ==
    /\ server.pc = "try"
    /\ IF Reader(server.for)
       THEN /\ server' = [server EXCEPT !.pc = "bc"]
            /\ private' = [private EXCEPT ![server.for].opened = TRUE]
       ELSE /\ server' = [server EXCEPT !.tries = @ + 1,
                                        !.pc = IF server.tries + 1 < MAXTRIES THEN "try" ELSE "read"]
            /\ UNCHANGED private
    /\ UNCHANGED <<public, client, fifos>>

\* bc answers or not; a client that does not read any more costs EPIPE.
Evaluate ==
    /\ server.pc = "bc" /\ server' = [server EXCEPT !.pc = "close"]
    /\ \/ /\ client[server.for].pc \in {"waiting", "reading"}
          /\ private' = [private EXCEPT ![server.for].data = Append(@, server.for)]
       \/ UNCHANGED private
    /\ UNCHANGED <<public, client, fifos>>

ClosePrivate ==
    /\ server.pc = "close" /\ server' = [server EXCEPT !.pc = "read", !.for = "none"]
    /\ UNCHANGED <<public, client, fifos, private>>

\* on_signal() is installed before the FIFO is made.
on_signal_server ==
    /\ Alive
    /\ server' = [server EXCEPT !.pc = "off", !.for = "none"]
    /\ public' = [exists |-> FALSE, writer |-> FALSE, msgs |-> <<>>]
    /\ UNCHANGED <<client, fifos, private>>

Serve == OpenPublic \/ ReadMessage \/ TryOpen \/ Evaluate \/ ClosePrivate
------------------------------------------------------------------------------
(* spl_calc_client.c *)

Goto(c, pc) == client' = [client EXCEPT ![c].pc = pc]

mkfifo_private(c) ==
    /\ client[c].pc = "start" /\ Goto(c, "created") /\ fifos' = fifos \cup {c}
    /\ UNCHANGED <<server, public, private>>

\* The five sigaction() calls come after the FIFO is made.
InstallHandlers(c) ==
    /\ client[c].pc = "created" /\ Goto(c, "ready")
    /\ UNCHANGED <<server, public, fifos, private>>

\* Without a server the client exits, and its FIFO stays.
open_public(c) ==
    /\ client[c].pc = "ready"
    /\ IF public.exists /\ Alive
       THEN /\ client' = [client EXCEPT ![c].pc = "opened", ![c].public_fd = server.gen]
            /\ public' = [public EXCEPT !.writer = TRUE]
       ELSE Goto(c, "unserved") /\ UNCHANGED public
    /\ UNCHANGED <<server, fifos, private>>

\* What write() returns is not looked at: a full FIFO or a descriptor that the
\* handler has closed lose the message.  on_sigpipe() exits.
send(c) ==
    /\ client[c].pc = "opened"
    /\ \/ /\ client[c].public_fd = server.gen /\ Alive /\ Goto(c, "sent") /\ UNCHANGED fifos
          /\ public' = IF Len(public.msgs) < PIPE_MSGS
                       THEN [public EXCEPT !.msgs = Append(@, c)] ELSE public
       \/ client[c].public_fd = 0 /\ Goto(c, "sent") /\ UNCHANGED <<public, fifos>>
       \/ /\ client[c].public_fd \notin {0, IF Alive THEN server.gen ELSE 0} /\ Goto(c, "failed")
          /\ fifos' = fifos \ {c} /\ UNCHANGED public
    /\ UNCHANGED <<server, private>>

\* open(O_RDONLY) announces a reader, then waits for the server's open().
open_private(c) ==
    /\ \/ client[c].pc = "sent" /\ c \in fifos /\ Goto(c, "waiting")
       \/ client[c].pc = "sent" /\ c \notin fifos /\ Goto(c, "failed")
       \/ client[c].pc = "waiting" /\ private[c].opened /\ Goto(c, "reading")
    /\ UNCHANGED <<server, public, fifos, private>>

\* Read up to the end of file, which is the server's close() or exit.
read_private(c) ==
    /\ client[c].pc = "reading"
    /\ \/ /\ private[c].data # <<>>
          /\ client' = [client EXCEPT ![c].got = @ \o private[c].data]
          /\ private' = [private EXCEPT ![c].data = <<>>] /\ UNCHANGED fifos
       \/ /\ private[c].data = <<>> /\ server.for # c
          /\ Goto(c, "done") /\ fifos' = fifos \ {c} /\ UNCHANGED private
    /\ UNCHANGED <<server, public>>

\* Where a signal leaves the client: before the handlers are installed it is
\* killed.  Then the handler returns, and the client goes on, but for one in
\* open() or read() of its FIFO: whether the call is restarted or not (sa_flags is
\* not set), the name is gone, or the descriptor closed, and the client ends.
AfterSignal(pc) == CASE pc = "created" -> "abandoned"
                     [] pc \in {"waiting", "reading"} -> "killed"
                     [] OTHER -> pc

on_signalKeeping(c) ==      \* a mistake: the FIFO is not removed
    /\ client[c].pc \in {"created", "ready", "opened", "sent", "waiting", "reading"}
    /\ client' = [client EXCEPT ![c].public_fd = 0, ![c].pc = AfterSignal(@)]
    /\ UNCHANGED <<server, public, private, fifos>>

on_signal_client(c) ==
    /\ client[c].pc \in {"created", "ready", "opened", "sent", "waiting", "reading"}
    /\ fifos' = IF client[c].pc = "created" THEN fifos ELSE fifos \ {c}
    /\ client' = [client EXCEPT ![c].public_fd = 0, ![c].pc = AfterSignal(@)]
    /\ UNCHANGED <<server, public, private>>

spl_calc(c) ==
    \/ mkfifo_private(c) \/ InstallHandlers(c) \/ open_public(c) \/ send(c)
    \/ open_private(c) \/ read_private(c)
------------------------------------------------------------------------------
Next ==
    \/ mkfifo_public \/ Serve \/ on_signal_server
    \/ \E c \in Clients : spl_calc(c) \/ on_signal_client(c)
------------------------------------------------------------------------------
(* Properties *)

\* Once its handlers are installed (line 106) a client leaves no FIFO behind,
\* however it ends and wherever a signal finds it, but for the exit without a
\* server (line 114).  A signal before that leaves it (lines 92-106).
NoPrivateFifoLeft ==
    \A c \in Clients : client[c].pc \in Ended \ {"unserved", "abandoned"} => c \notin fifos

\* Whatever becomes of the clients, the server comes to every message: it waits
\* for none of them for ever.
MessagesHandled == []<>(Alive /\ server.pc # "opening" => public.msgs = <<>>)
==============================================================================
