---------------------------- MODULE ThreadedUpcase ----------------------------
(***************************************************************************)
(* chapter15/threaded_upcased.c and upcase.c: the daemon of chapter 14     *)
(* with a thread instead of a child for each client.  The threads and the  *)
(* clients take the steps that module Upcase has for them (child[c] is the *)
(* thread that serves c); what differs is the daemon.  It accepts a public *)
(* FIFO that exists, so that several may read the same one; its exit ends  *)
(* its threads; and all threads of a daemon have one locale.  The signals  *)
(* that end a client are left to Upcase.                                   *)
(***************************************************************************)
EXTENDS Upcase, FiniteSets

CONSTANT Locale     \* of each client's environment: a function

VARIABLES
    daemons,    \* each daemon: where it is, the FIFO it has open, its locale
    name,       \* the FIFO that PUBLIC names, 0 if none
    queue,      \* of each FIFO, the messages in it
    served,     \* the daemon whose thread serves each client, 0 if none
    converted   \* the locales in which each client's text was converted

tvars == <<vars, daemons, name, queue, served, converted>>

Daemons == 1 .. MaxStarts

TInit ==
    /\ Init
    /\ daemons = [d \in Daemons |-> [pc |-> "off", fifo |-> 0, locale |-> "C"]]
    /\ name = 0 /\ queue = [d \in Daemons |-> <<>>]
    /\ served = [c \in Clients |-> 0] /\ converted = [c \in Clients |-> {}]

HasOpen(d) == daemons[d].pc \in {"opening", "serving", "closing", "unlinked"}
Readers(f) == {d \in Daemons : HasOpen(d) /\ daemons[d].fifo = f}
------------------------------------------------------------------------------
(* threaded_upcased.c *)

\* A FIFO is named after the daemon that makes it.
StartDaemon(d) ==
    /\ daemons[d].pc = "off" /\ daemons[d].fifo = 0
    /\ \A e \in Daemons : e < d => daemons[e].fifo # 0
    /\ name' = IF name = 0 THEN d ELSE name
    /\ daemons' = [daemons EXCEPT ![d].pc = "opening", ![d].fifo = name']
    /\ UNCHANGED <<vars, queue, served, converted>>

\* open() returns when a client has opened the FIFO; then signals are blocked.
OpenBoth(d) ==
    /\ daemons[d].pc = "opening"
    /\ \E c \in Clients : client[c].gen = daemons[d].fifo
    /\ daemons' = [daemons EXCEPT ![d].pc = "serving"]
    /\ UNCHANGED <<vars, name, queue, served, converted>>

\* exit(): the threads end, and what nobody can read any more is lost.
Ends(d, upto) ==
    /\ daemons' = [daemons EXCEPT ![d].pc = "ended"]
    /\ child' = [c \in Clients |-> IF upto[c] = d THEN [child[c] EXCEPT !.pc = "gone"] ELSE child[c]]
    /\ served' = upto
    /\ UNCHANGED <<server, public, client, fifos, raw, upcased, output, converted>>

\* A read() that is under way goes on when the signal's thread closes the
\* descriptor; the one after it fails, and main() ends the process.
main(d) ==
    LET f == daemons[d].fifo
        c == Head(queue[f])
    IN  /\ daemons[d].pc \in {"serving", "closing", "unlinked"} /\ queue[f] # <<>>
        /\ IF daemons[d].pc = "serving"
           THEN /\ child' = [child EXCEPT ![c].pc = "openraw"]
                /\ served' = [served EXCEPT ![c] = d]
                /\ queue' = [queue EXCEPT ![f] = Tail(@)]
                /\ UNCHANGED <<daemons, name, server, public, client, fifos, raw, upcased, output,
                               converted>>
           ELSE /\ Ends(d, [served EXCEPT ![c] = d]) /\ name' = 0
                /\ queue' = [queue EXCEPT ![f] = IF Readers(f) = {d} THEN <<>> ELSE Tail(@)]

\* The thread that waits for the signals: close, unlink(PUBLIC), exit.
sighandler(d) ==
    \/ /\ daemons[d].pc = "serving" /\ daemons' = [daemons EXCEPT ![d].pc = "closing"]
       /\ UNCHANGED <<vars, name, queue, served, converted>>
    \/ /\ daemons[d].pc = "closing" /\ daemons' = [daemons EXCEPT ![d].pc = "unlinked"]
       /\ name' = 0 /\ UNCHANGED <<vars, queue, served, converted>>
    \/ /\ daemons[d].pc = "unlinked" /\ Ends(d, served) /\ UNCHANGED name
       /\ queue' = IF Readers(daemons[d].fifo) = {d}
                   THEN [queue EXCEPT ![daemons[d].fifo] = <<>>] ELSE queue

\* Before the signals are blocked one kills, and the name stays.
Killed(d) ==
    /\ daemons[d].pc = "opening"
    /\ daemons' = [daemons EXCEPT ![d].pc = "ended"]
    /\ UNCHANGED <<vars, name, queue, served, converted>>

threadNoLocale(c) ==        \* a mistake: the locale stays as it is
    /\ child[c].pc # "none" /\ process_client(c)
    /\ converted' = IF child[c].pc = "read" /\ child'[c].pc = "openup"
                    THEN [converted EXCEPT ![c] = @ \cup {daemons[served[c]].locale}]
                    ELSE converted
    /\ UNCHANGED <<daemons, name, queue, served>>

\* process_client(): once the FIFO is open the thread sets the locale, of all
\* threads; what it reads is converted in the locale of that moment.
thread(c) ==
    /\ child[c].pc # "none" /\ process_client(c)
    /\ daemons' = IF child[c].pc = "rawwait"
                  THEN [daemons EXCEPT ![served[c]].locale = Locale[c]] ELSE daemons
    /\ converted' = IF child[c].pc = "read" /\ child'[c].pc = "openup"
                    THEN [converted EXCEPT ![c] = @ \cup {daemons[served[c]].locale}]
                    ELSE converted
    /\ UNCHANGED <<name, queue, served>>
------------------------------------------------------------------------------
(* upcase.c *)

open_public_fifo(c) ==
    /\ client[c].pc = "created"
    /\ \/ /\ name # 0 /\ Readers(name) # {}
          /\ client' = [client EXCEPT ![c].pc = "opened", ![c].gen = name] /\ UNCHANGED fifos
       \/ (name = 0 \/ Readers(name) = {}) /\ CleanUp(c, "failed")
    /\ UNCHANGED <<server, public, child, raw, upcased, output>>
    /\ UNCHANGED <<daemons, name, queue, served, converted>>

send_message(c) ==
    LET f    == client[c].gen
        full == Len(queue[f]) >= PIPE_MSGS
    IN  /\ client[c].pc = "opened"
        /\ \/ /\ Readers(f) # {} /\ ~full
              /\ queue' = [queue EXCEPT ![f] = Append(@, c)]
              /\ ClientGoto(c, "opened", "sent") /\ UNCHANGED fifos
           \/ Readers(f) # {} /\ full /\ ClientGoto(c, "opened", "full") /\ UNCHANGED <<queue, fifos>>
           \/ Readers(f) = {} /\ CleanUp(c, "failed") /\ UNCHANGED queue
    /\ UNCHANGED <<server, public, child, raw, upcased, output>>
    /\ UNCHANGED <<daemons, name, served, converted>>

upcase_client(c) ==
    \/ open_public_fifo(c) \/ send_message(c)
    \/ /\ mkfifo_private(c) \/ open_raw(c) \/ write_raw(c) \/ open_upcased(c) \/ read_upcased(c)
       /\ UNCHANGED <<daemons, name, queue, served, converted>>
------------------------------------------------------------------------------
TNext ==
    \/ \E d \in Daemons : StartDaemon(d) \/ OpenBoth(d) \/ main(d) \/ sighandler(d) \/ Killed(d)
    \/ \E c \in Clients : thread(c) \/ upcase_client(c)

\* Text is converted in the client's own locale, unless the daemon served another
\* client as well.
LocaleOfAClientServed ==
    \A c \in Clients : converted[c] \subseteq {Locale[e] : e \in {e \in Clients : served[e] = served[c]}}
------------------------------------------------------------------------------
(* The inductive invariant behind LocaleOfAClientServed, and what the daemons   *)
(* have to keep for the output                                                 *)

\* A client's message is in the FIFO it has opened, and in no other.
Queued ==
    /\ public.msgs = <<>>      \* which these daemons do not use
    /\ queue \in [Daemons -> Seq(Clients)]
    /\ \A f \in Daemons : Asks(queue[f])
    /\ \A f \in Daemons : \A j \in 1 .. Len(queue[f]) : client[queue[f][j]].gen = f

Locales == {"C"} \cup {Locale[c] : c \in Clients}
DaemonShapes ==
    /\ daemons \in [Daemons -> [pc : {"off", "opening", "serving", "closing", "unlinked", "ended"},
                                fifo : 0 .. MaxStarts, locale : Locales]]
    /\ converted \in [Clients -> SUBSET Locales]
    /\ \A d \in Daemons : daemons[d].pc # "off" => daemons[d].fifo # 0
    /\ name \in 0 .. MaxStarts
    /\ served \in [Clients -> 0 .. MaxStarts]
    /\ \A c \in Clients : client[c].gen \in 0 .. MaxStarts
    /\ \A c \in Clients : client[c].pc = "opened" => client[c].gen # 0

\* The locale that a daemon is in once a thread of it has set one.
Own(d) == \E e \in Clients : served[e] = d /\ daemons[d].locale = Locale[e]
LocaleSet ==
    \A c \in Clients :
        /\ child[c].pc = "none" => served[c] = 0
        /\ child[c].pc \in Running => served[c] # 0
        /\ child[c].pc \in Running \ {"openraw", "rawwait"} => Own(served[c])
        /\ served[c] = 0 => converted[c] = {}

ThreadedInv == Queued /\ DaemonShapes /\ LocaleSet /\ LocaleOfAClientServed
==============================================================================
