----------------------------- MODULE PipePrograms -----------------------------
(***************************************************************************)
(* Processes that fork, wait for each other and are joined by pipes, as    *)
(* the kernel sees them; and, as data for it, the programs of chapter 11   *)
(* that wait for children, those of chapter 13 with pipes and FIFOs, and   *)
(* chapter17/select_demo.c.  A program is a sequence of statements, one    *)
(* for each system call, and a process that forks gives its child one of   *)
(* its own.  A number in a statement is the place of another in its        *)
(* program.                                                                *)
(*                                                                         *)
(* What is written is a sequence of items <<p, k>>, the k-th item that     *)
(* process p makes.  A write of several items is one step: it is short     *)
(* enough to be atomic.                                                    *)
(***************************************************************************)
EXTENDS Integers, Sequences, FiniteSets

CONSTANTS Capacity,   \* items that a pipe holds
          MaxTyped,   \* lines that the user types
          MaxSent     \* signals that the user sends

Procs == 1 .. 4
Pipes == 1 .. 3
PipeAssumption == Capacity \in Nat \ {0} /\ MaxTyped \in Nat /\ MaxSent \in Nat

VARIABLES
    procs,      \* the processes
    pipe,       \* what each pipe holds
    file,       \* what an appended file holds, or the name of a FIFO that is there
    out,        \* what has been written to the terminal
    waited,     \* what the calls of wait() and its like have returned
    typed, sent \* counts of what the user does

vars == <<procs, pipe, file, out, waited, typed, sent>>
------------------------------------------------------------------------------
(* Statements *)

R(n) == <<"r", n>>          \* the ends of a pipe
W(n) == <<"w", n>>
Pipe(n)         == [do |-> "pipe", n |-> n]
Fork(c, code)   == [do |-> "fork", child |-> c, code |-> code]
Exec(codes)     == [do |-> "exec", codes |-> codes]   \* one of them
Close(e)        == [do |-> "close", end |-> e]
Dup2(e, as)     == [do |-> "dup2", end |-> e, as |-> as]
Read(e, n, to)  == [do |-> "read", end |-> e, n |-> n, to |-> to]     \* to: where EOF leads
Write(e, n)     == [do |-> "write", end |-> e, n |-> n]               \* n new items
Relay(e)        == [do |-> "relay", end |-> e]                        \* what was read
Fill(e, n)      == [do |-> "fill", end |-> e, n |-> n]
Show            == [do |-> "show"]
Append1         == [do |-> "append"]                                  \* a new item to the file
Pread(to)       == [do |-> "pread", to |-> to]
Open(e)         == [do |-> "open", end |-> e]                         \* a FIFO
Unlink          == [do |-> "unlink"]
Input(S)        == [do |-> "input", of |-> S]
If(S, to)       == [do |-> "if", in |-> S, to |-> to]
Unless(n, to)   == [do |-> "unless", n |-> n, to |-> to]              \* select() found it ready
Goto(to)        == [do |-> "goto", to |-> to]
Loop(n, to)     == [do |-> "loop", n |-> n, to |-> to]                \* the n-th time go on
Select(S, e)    == [do |-> "select", from |-> S, into |-> e]
Pause           == [do |-> "pause"]
Catch(s, code)  == [do |-> "sigaction", sig |-> s, code |-> code]
Block(S)        == [do |-> "block", sigs |-> S]
Sigwait(S)      == [do |-> "sigwait", sigs |-> S]
Kill(q, s)      == [do |-> "kill", child |-> q, sig |-> s]
Raise(s)        == [do |-> "raise", sig |-> s]
Ends == {"exited", "killed"}
Any  == 0
\* kinds of changes; where no change leads, and where no child leads
Waits(q, kinds, none, err) == [do |-> "wait", child |-> q, kinds |-> kinds, none |-> none, err |-> err]
Wait(q)         == Waits(q, Ends, 0, 0)
Exit(v)         == [do |-> "exit", val |-> v]
------------------------------------------------------------------------------
(* Processes *)

Born(code, parent, fds) ==
    [status |-> "running", code |-> code, pc |-> 1, parent |-> parent, fds |-> fds, buf |-> <<>>,
     made |-> 0, turns |-> 0, x |-> "", ready |-> {}, caught |-> <<>>, blocked |-> {}, pending |-> {},
     change |-> <<"none">>, end |-> <<"none">>, asleep |-> FALSE]

Unborn == [Born(<<>>, 0, {}) EXCEPT !.status = "none"]

Start(codes) ==
    /\ procs = [p \in Procs |-> IF p \in DOMAIN codes THEN Born(codes[p], 0, {}) ELSE Unborn]
    /\ pipe = [n \in Pipes |-> <<>>] /\ file = <<>> /\ out = <<>> /\ waited = <<>>
    /\ typed = 0 /\ sent = 0

stmt(p) == procs[p].code[procs[p].pc]
Doing(p, what) == procs[p].status = "running" /\ stmt(p).do = what

Alive(p)   == procs[p].status \in {"running", "stopped"}
Holds(p, e) == \E d \in procs[p].fds : d[1] \in e[1] /\ d[2] = e[2]
Readers(n) == {p \in Procs : Alive(p) /\ Holds(p, <<{"r", "stdin"}, n>>)}
Writers(n) == {p \in Procs : Alive(p) /\ Holds(p, <<{"w", "stdout"}, n>>)}

To(p, n)  == [procs EXCEPT ![p].pc = n]
On(p)     == To(p, procs[p].pc + 1)

\* A process ends: its ends are closed, and init takes and reaps its children.
Ended(ps, p, how) ==
    [q \in Procs |->
        IF q = p THEN [ps[q] EXCEPT !.status = IF ps[q].parent = 0 THEN "gone" ELSE "zombie",
                                    !.fds = {}, !.change = how, !.end = how]
        ELSE IF ps[q].parent = p
             THEN [ps[q] EXCEPT !.parent = 0, !.status = IF @ = "zombie" THEN "gone" ELSE @]
             ELSE ps[q]]

\* A handler of these programs ends its program: it takes over for good.  An open()
\* of a FIFO that it interrupts fails.
Signaled(ps, q, s) ==
    CASE ps[q].status \notin {"running", "stopped"} -> ps
      [] s = "STOP" -> [ps EXCEPT ![q].status = "stopped", ![q].change = <<"stopped">>]
      [] s = "CONT" -> IF ps[q].status = "stopped"
                       THEN [ps EXCEPT ![q].status = "running", ![q].change = <<"continued">>] ELSE ps
      [] s \in ps[q].blocked -> [ps EXCEPT ![q].pending = @ \cup {s}]
      [] OTHER -> LET h == SelectSeq(ps[q].caught, LAMBDA c : c.sig = s) IN
                  IF h = <<>> THEN Ended(ps, q, <<"killed", s>>)
                  ELSE [ps EXCEPT ![q].code = h[1].code, ![q].pc = 1, ![q].caught = <<>>,
                                  ![q].fds = IF ps[q].asleep THEN @ \ {ps[q].code[ps[q].pc].end}
                                             ELSE @,
                                  ![q].asleep = FALSE]

Same == UNCHANGED <<pipe, file, out, waited, typed, sent>>
------------------------------------------------------------------------------
(* What a process does by itself *)

Internal(p) ==
    /\ procs[p].status = "running"
    /\ LET s == stmt(p) IN
       procs' = CASE s.do = "pipe"  -> [On(p) EXCEPT ![p].fds = @ \cup {R(s.n), W(s.n)}]
                  [] s.do = "close" -> [On(p) EXCEPT ![p].fds = @ \ {s.end}]
                  [] s.do = "dup2"  -> [On(p) EXCEPT ![p].fds = @ \cup {<<s.as, s.end[2]>>}]
                  [] s.do = "goto"  -> To(p, s.to)
                  [] s.do = "if"    -> IF procs[p].x \in s.in THEN To(p, s.to) ELSE On(p)
                  [] s.do = "unless" -> IF s.n \in procs[p].ready
                                         THEN [On(p) EXCEPT ![p].ready = @ \ {s.n}] ELSE To(p, s.to)
                  [] s.do = "loop"  -> IF procs[p].turns + 1 < s.n
                                       THEN [To(p, s.to) EXCEPT ![p].turns = @ + 1]
                                       ELSE [On(p) EXCEPT ![p].turns = 0]
                  [] s.do = "sigaction" -> [On(p) EXCEPT ![p].caught = Append(@, s)]
                  [] s.do = "block" -> [On(p) EXCEPT ![p].blocked = s.sigs]
                  [] OTHER -> procs
    /\ stmt(p).do \in {"pipe", "close", "dup2", "goto", "if", "unless", "loop", "sigaction", "block"}
    /\ Same

\* The child has the parent's descriptors, and what it blocks and catches.
ForkChild(p) ==
    /\ Doing(p, "fork")
    /\ LET c == stmt(p).child IN
       procs' = [On(p) EXCEPT ![c] = [Born(stmt(p).code, p, procs[p].fds) EXCEPT
                                          !.blocked = procs[p].blocked, !.caught = procs[p].caught]]
    /\ Same

Execute(p) ==
    /\ Doing(p, "exec")
    /\ \E code \in stmt(p).codes :
         procs' = [procs EXCEPT ![p].code = code, ![p].pc = 1, ![p].caught = <<>>]
    /\ Same

Terminate(p) ==
    /\ Doing(p, "exit")
    /\ procs' = Ended(procs, p, <<"exited", stmt(p).val>>)
    /\ Same
------------------------------------------------------------------------------
(* Pipes, files and the terminal *)

ReadPipe(p) ==
    /\ Doing(p, "read")
    /\ LET n == stmt(p).end[2]
           k == IF stmt(p).n < Len(pipe[n]) THEN stmt(p).n ELSE Len(pipe[n])
       IN \/ /\ k > 0
             /\ procs' = [On(p) EXCEPT ![p].buf = SubSeq(pipe[n], 1, k)]
             /\ pipe' = [pipe EXCEPT ![n] = SubSeq(@, k + 1, Len(@))]
          \/ k = 0 /\ Writers(n) = {} /\ procs' = To(p, stmt(p).to) /\ UNCHANGED pipe
    /\ UNCHANGED <<file, out, waited, typed, sent>>

New(p, k) == [i \in 1 .. k |-> <<p, procs[p].made + i>>]

WritePipe(p) ==
    /\ Doing(p, "write") \/ Doing(p, "relay")
    /\ LET n     == stmt(p).end[2]
           items == IF stmt(p).do = "relay" THEN procs[p].buf ELSE New(p, stmt(p).n)
       IN IF Readers(n) = {} THEN procs' = Signaled(procs, p, "PIPE") /\ UNCHANGED pipe
          ELSE /\ Len(pipe[n]) + Len(items) <= Capacity
               /\ pipe' = [pipe EXCEPT ![n] = @ \o items]
               /\ procs' = IF stmt(p).do = "relay" THEN [On(p) EXCEPT ![p].buf = <<>>]
                           ELSE [On(p) EXCEPT ![p].made = @ + Len(items)]
    /\ UNCHANGED <<file, out, waited, typed, sent>>

\* fillpipe(): until there are n items, or no room; its items are <<0, 0>>.
FillPipe(p) ==
    /\ Doing(p, "fill")
    /\ LET n == stmt(p).end[2]
           k == IF stmt(p).n < Capacity - Len(pipe[n]) THEN stmt(p).n ELSE Capacity - Len(pipe[n])
       IN pipe' = [pipe EXCEPT ![n] = @ \o [i \in 1 .. k |-> <<0, 0>>]]
    /\ procs' = On(p)
    /\ UNCHANGED <<file, out, waited, typed, sent>>

Terminal(p) ==
    /\ \/ /\ Doing(p, "show")
          /\ out' = out \o procs[p].buf /\ procs' = [On(p) EXCEPT ![p].buf = <<>>] /\ UNCHANGED <<file, typed>>
       \/ /\ Doing(p, "append")
          /\ file' = file \o New(p, 1) /\ procs' = [On(p) EXCEPT ![p].made = @ + 1]
          /\ UNCHANGED <<out, typed>>
       \/ /\ Doing(p, "pread")       \* at an offset that is the count of turns
          /\ procs' = IF procs[p].turns < Len(file)
                      THEN [On(p) EXCEPT ![p].buf = << file[procs[p].turns + 1] >>]
                      ELSE To(p, stmt(p).to)
          /\ UNCHANGED <<file, out, typed>>
       \/ /\ Doing(p, "input")       \* after MaxTyped lines the user ends the input
          /\ \E line \in IF typed < MaxTyped THEN stmt(p).of ELSE {"quit"} :
               procs' = [On(p) EXCEPT ![p].x = line]
          /\ typed' = IF typed < MaxTyped THEN typed + 1 ELSE typed
          /\ UNCHANGED <<file, out>>
    /\ UNCHANGED <<pipe, waited, sent>>

\* select() on the ends to read in from, on the end to write into, and on the
\* terminal, 0.
Readable(n) == pipe[n] # <<>> \/ Writers(n) = {}
SelectEnds(p) ==
    /\ Doing(p, "select")
    /\ LET s == stmt(p)
           ready == {n \in s.from : Readable(n)} \cup {n \in {s.into} : Len(pipe[n]) < Capacity}
       IN \E keys \in {{}, {0}} :
            /\ ready \cup keys # {}
            /\ procs' = [On(p) EXCEPT ![p].ready = ready \cup keys]
    /\ Same

\* A FIFO's open() waits for the other end to be opened, and wakes up those who
\* wait for this one.  A second end of one's own is there at once.
Other(e) == IF e[1] = "r" THEN Writers(e[2]) ELSE Readers(e[2])
OpenFifo(p) ==
    /\ Doing(p, "open")
    /\ LET e == stmt(p).end
           Waiting(q) == Doing(q, "open") /\ procs[q].asleep /\ stmt(q).end[1] # e[1]
       IN \/ /\ ~procs[p].asleep /\ file = <<>>
             /\ procs' = [q \in Procs |->
                   IF q = p THEN [procs[q] EXCEPT !.fds = @ \cup {e}, !.asleep = (Other(e) = {}),
                                                  !.pc = IF Other(e) = {} THEN @ ELSE @ + 1]
                   ELSE IF Waiting(q) THEN [procs[q] EXCEPT !.asleep = FALSE, !.pc = @ + 1]
                   ELSE procs[q]]
          \/ ~procs[p].asleep /\ file # <<>> /\ procs' = Ended(procs, p, <<"exited", 1>>)
    /\ Same

UnlinkFifo(p) ==
    /\ Doing(p, "unlink")
    /\ file' = <<"unlinked">> /\ procs' = On(p)
    /\ UNCHANGED <<pipe, out, waited, typed, sent>>
------------------------------------------------------------------------------
(* Waiting and signals *)

WaitChild(p) ==
    /\ Doing(p, "wait")
    /\ LET s        == stmt(p)
           children == {c \in Procs : procs[c].parent = p /\ procs[c].status \notin {"none", "gone"}
                                      /\ s.child \in {Any, c}}
           changed  == {c \in children : procs[c].change[1] \in s.kinds}
       IN \/ \E c \in changed :
               /\ waited' = Append(waited, << c, procs[c].change >>)
               /\ procs' = [On(p) EXCEPT ![c].change = <<"none">>, ![p].x = procs[c].change[1],
                                         ![c].status = IF @ = "zombie" THEN "gone" ELSE @]
          \/ /\ changed = {} /\ children # {} /\ s.none # 0
             /\ procs' = To(p, s.none) /\ UNCHANGED waited
          \/ /\ children = {} /\ UNCHANGED waited
             /\ procs' = IF s.err = 0 THEN Ended(procs, p, <<"exited", 1>>) ELSE To(p, s.err)
    /\ UNCHANGED <<pipe, file, out, typed, sent>>

Signals(p) ==
    /\ \/ Doing(p, "kill") /\ procs' = Signaled(On(p), stmt(p).child, stmt(p).sig)
       \/ Doing(p, "raise") /\ procs' = Signaled(On(p), p, stmt(p).sig)
       \/ /\ Doing(p, "sigwait")
          /\ \E s \in procs[p].pending \cap stmt(p).sigs :
               procs' = [On(p) EXCEPT ![p].pending = @ \ {s}, ![p].x = s]
    /\ Same

Step(p) == \/ Internal(p) \/ ForkChild(p) \/ Execute(p) \/ Terminate(p)
           \/ ReadPipe(p) \/ WritePipe(p) \/ FillPipe(p) \/ Terminal(p)
           \/ SelectEnds(p) \/ OpenFifo(p) \/ UnlinkFifo(p) \/ WaitChild(p) \/ Signals(p)

\* The user sends a signal to a process that runs, or resumes a stopped one.
Send(p, s) ==
    /\ sent < MaxSent /\ sent' = sent + 1
    /\ procs[p].status = IF s = "CONT" THEN "stopped" ELSE "running"
    /\ procs' = Signaled(procs, p, s)
    /\ UNCHANGED <<pipe, file, out, waited, typed>>
------------------------------------------------------------------------------
(* The programs *)

stdin(n)  == <<"stdin", n>>
stdout(n) == <<"stdout", n>>
Changes   == Ends \cup {"stopped", "continued"}
Paused    == {"stopped", "continued"}
HEAD      == 9            \* marks the end of a command that does not read all

\* Commands: one that writes, one that reads all, one that reads one item only.
writer(n)  == << Write(stdout(n), 1), Loop(3, 1), Exit(0) >>
reader(n)  == << Read(stdin(n), 1, 4), Show, Goto(1), Exit(0) >>
head(n)    == << Read(stdin(n), 1, 3), Show, Exit(HEAD) >>
execfailed == << Exit(1) >>
------------------------------------------------------------------------------
(* Chapter 13 *)

\* Mutant: the child keeps the pipe's write end.
pipe_demo1_open == << Read(R(1), 1, 4), Show, Goto(1), Close(R(1)), Exit(0) >>

pipe_demo1_child == << Close(W(1)), Read(R(1), 1, 5), Show, Goto(2), Close(R(1)), Exit(0) >>
pipe_demo1 == << Pipe(1), Fork(2, pipe_demo1_child), Close(R(1)), Write(W(1), 2), Close(W(1)),
                 Wait(Any), Exit(0) >>

pipe_demo2_producer == << Close(R(1)), Input({"line"}), If({"quit"}, 6), Write(W(1), 2), Goto(2),
                          Close(W(1)), Exit(0) >>
pipe_demo2_consumer == << Close(W(1)), Read(R(1), 1, 5), Show, Goto(2), Close(R(1)), Exit(0) >>
pipe_demo2 == << Pipe(1), Fork(2, pipe_demo2_producer), Fork(3, pipe_demo2_consumer),
                 Close(R(1)), Close(W(1)), Waits(Any, Ends, 0, 8), Waits(Any, Ends, 0, 8), Exit(0) >>

\* Mutant: the child reads once.
pipe_demo3_once == << Close(W(1)), Read(R(1), 2, 4), Show, Close(R(1)), Exit(4) >>

\* The pipe is filled to where the messages still find room.
pipe_demo3_child == << Close(W(1)), Read(R(1), 2, 5), Show, Goto(2), Close(R(1)), Exit(4) >>
pipe_demo3 == << Pipe(1), Fork(2, pipe_demo3_child), Close(R(1)), Fill(W(1), 1), Write(W(1), 1),
                 Loop(2, 5), Close(W(1)), Wait(Any), Exit(0) >>

shellpipe_first  == << Dup2(W(1), "stdout"), Close(R(1)), Close(W(1)), Exec({writer(1), execfailed}) >>
shellpipe_second == << Dup2(R(1), "stdin"), Close(R(1)), Close(W(1)),
                       Exec({reader(1), head(1), execfailed}) >>
shellpipe_demo == << Pipe(1), Fork(2, shellpipe_first), Fork(3, shellpipe_second),
                     Close(R(1)), Close(W(1)), Wait(Any), Wait(Any), Exit(0) >>

\* popen() closes in the child what it gave the parent, the earlier stream too.
popen_r == << Dup2(W(1), "stdout"), Close(R(1)), Close(W(1)), Exec({writer(1), execfailed}) >>
popen_w == << Dup2(R(2), "stdin"), Close(R(2)), Close(W(2)), Close(R(1)),
              Exec({reader(2), head(2), execfailed}) >>
popen_demo == << Pipe(1), Fork(2, popen_r), Close(W(1)), Pipe(2), Fork(3, popen_w), Close(R(2)),
                 Read(R(1), 2, 10), Relay(W(2)), Goto(7),
                 Close(R(1)), Wait(2), Close(W(2)), Wait(3), Exit(0) >>

\* main() stays in its loop until a signal's handler takes over.
clean_up      == << Close(R(1)), Close(W(1)), Unlink, Exit(2) >>
fifomonitor   == << Catch("TERM", clean_up), Open(R(1)), Open(W(1)),
                    Read(R(1), 2, 7), Show, Goto(4), Exit(0) >>
on_sigpipe    == << Exit(1) >>
fifosender    == << Catch("PIPE", on_sigpipe), Open(W(1)), Input({"line", "quit"}), If({"quit"}, 7),
                    Write(W(1), 1), Goto(3), Close(W(1)), Exit(0) >>
------------------------------------------------------------------------------
(* Chapter 17: a manager, two senders and a receiver.  A sender stops sending *)
(* after one or two messages, where the program's goes on for ever.           *)

sender(n) == << Close(R(n)), Write(W(n), 1), Loop(3 - n, 2), Pause >>
receiver  == << Close(W(3)), Read(R(3), 1, 2), Goto(2) >>

manager == << Close(W(1)), Close(W(2)), Close(R(3)), Fill(W(3), Capacity),
              Select({1, 2}, 3), Unless(3, 8), Fill(W(3), 1), Unless(0, 11), Input({"line"}), If({"quit"}, 18),
              Unless(1, 14), Read(R(1), 1, 14), Show, Unless(2, 17), Read(R(2), 1, 17), Show,
              Goto(5), Kill(2, "INT"), Kill(3, "INT"), Kill(4, "INT"),
              Waits(Any, Ends, 23, 23), Goto(21), Exit(0) >>
select_demo == << Pipe(1), Fork(2, sender(1)), Pipe(2), Fork(3, sender(2)), Pipe(3),
                  Fork(4, receiver), Exec({manager}) >>      \* a call; nothing is caught
------------------------------------------------------------------------------
(* Chapter 11 *)

\* waitpid_demo: loops of two turns for the program's 40; the consumer may be
\* told to wait for a signal instead.
waitpid_producer == << Append1, Loop(2, 1), Exit(63) >>
waitpid_consumer == << Pread(4), Show, Loop(3, 1), Exit(127) >>
waitpid_demo == << Fork(2, waitpid_producer), Fork(3, << Exec({waitpid_consumer, << Pause >>}) >>),
                   Waits(2, Changes, 3, 3), If(Paused, 3), Waits(3, Changes, 5, 5), If(Paused, 5),
                   Exit(0) >>

wait_demo1_child == << Exit(2) >>
wait_demo1 == << Fork(2, wait_demo1_child), Fork(3, wait_demo1_child), Fork(4, wait_demo1_child),
                 Waits(Any, Ends, 0, 6), Goto(4), Exit(0) >>

wait_demo2 == << Fork(2, << Exec({<< Pause >>, << Exit(7) >>}) >>), Waits(Any, Ends, 0, 3), Exit(0) >>

\* Two children of the program's four.  The parent ends with a failure, for no
\* call has set errno to ECHILD.
wait_demo3_handler  == << Raise("TERM") >>
wait_demo3_child(v) == << Catch("TERM", wait_demo3_handler), Block({"INT", "HUP"}),
                          Sigwait({"INT", "HUP"}), If({"HUP"}, 6), Exit(v), Raise("TERM"), Goto(3) >>
wait_demo3 == << Fork(2, wait_demo3_child(32)), Fork(3, wait_demo3_child(33)),
                 Waits(2, Changes, 0, 0), Waits(3, Changes, 0, 0), Exit(1) >>

\* Mutant: the loop ends at any change.
waitid_demo_once == << Fork(2, << Exit(0) >>), Waits(2, Changes, 0, 0), Exit(0) >>

waitid_demo == << Fork(2, << Exit(0) >>), Waits(2, Changes, 0, 0), If(Paused, 2), Exit(0) >>

\* A child whose execvp() fails goes on as a shell of its own, which reads the
\* same terminal.  A line of blanks has no first word to compare.
command == << Exit(0) >>
shell(c, may) == << Input({"command", "help", "blanks"}), If({"quit"}, 8), If({"help"}, 1),
                    If({"blanks"}, 9), Fork(c, << Exec(may) >>), Wait(c), Goto(1), Exit(0),
                    Raise("SEGV") >>
spl_sh == shell(2, {command, shell(3, {command, shell(4, {command})})})

fork_demo3_loop == << Append1, Loop(2, 1), Append1, Exit(0) >>
fork_demo3 == << Fork(2, fork_demo3_loop), Goto(3), Append1, Loop(2, 3), Append1, Exit(0) >>
------------------------------------------------------------------------------
(* A behaviour runs one of them. *)

VARIABLE pipe_prog

Programs ==
    [pipe_demo1 |-> <<pipe_demo1>>, pipe_demo2 |-> <<pipe_demo2>>, pipe_demo3 |-> <<pipe_demo3>>,
     shellpipe_demo |-> <<shellpipe_demo>>, popen_demo |-> <<popen_demo>>,
     fifo |-> <<fifomonitor, fifosender, fifosender>>, select_demo |-> <<select_demo>>,
     waitpid_demo |-> <<waitpid_demo>>, wait_demo1 |-> <<wait_demo1>>, wait_demo2 |-> <<wait_demo2>>,
     wait_demo3 |-> <<wait_demo3>>, waitid_demo |-> <<waitid_demo>>, spl_sh |-> <<spl_sh>>,
     fork_demo3 |-> <<fork_demo3>>]

\* What the user may send to the processes of each
Sends ==
    [fifo |-> {<<1, "TERM">>}, wait_demo2 |-> {2} \X {"TERM"},
     waitpid_demo |-> {2, 3} \X {"TERM", "STOP", "CONT"},
     wait_demo3 |-> {2, 3} \X {"INT", "HUP", "TERM", "STOP", "CONT"},
     waitid_demo |-> {2} \X {"TERM", "STOP", "CONT"}]

Init == pipe_prog \in DOMAIN Programs /\ Start(Programs[pipe_prog])
Next == /\ \/ \E p \in Procs : Step(p)
           \/ /\ pipe_prog \in DOMAIN Sends
              /\ \E a \in Sends[pipe_prog] : Send(a[1], a[2])
        /\ UNCHANGED pipe_prog

Run(p) == Step(p) /\ UNCHANGED pipe_prog
Spec == Init /\ [][Next]_<<vars, pipe_prog>> /\ \A p \in Procs : WF_<<vars, pipe_prog>>(Run(p))
------------------------------------------------------------------------------
(* Properties *)

Of(p, s) == SelectSeq(s, LAMBDA item : item[1] = p)
Whole(p, n) == [k \in 1 .. n |-> <<p, k>>]
InOrder(s)  == \A p \in Procs : Of(p, s) = Whole(p, Len(Of(p, s)))
AllEnded    == \A p \in Procs : ~Alive(p)
Failed(p)   == procs[p].end[1] = "killed" \/ procs[p].end \in {<<"exited", 1>>, <<"exited", HEAD>>}

\* Pipes, FIFOs and shared files: what each process writes comes out in the
\* order it was written and nothing of it twice, however the writers, the relay
\* and the readers take turns; and when all have ended and no process was
\* killed, failed to run or left off reading, everything has come out.
Delivered ==
    /\ InOrder(out)
    /\ pipe_prog = "fork_demo3" => InOrder(file)
    /\ AllEnded /\ pipe_prog \in {"pipe_demo1", "pipe_demo2", "pipe_demo3", "shellpipe_demo", "popen_demo"}
       /\ ~(\E p \in Procs : Failed(p)) =>
         \A p \in Procs : Len(Of(p, out)) = procs[p].made

\* The waiting parents: each end that is told of is the child's own and is told
\* once, after its stops; and a parent that exits in order knows how every
\* child ended, but in wait_demo3, where a child's first change ends the wait
\* for it, and in select_demo, which kills its children and leaves.
StatusesTold ==
    /\ \A i, j \in DOMAIN waited :
         waited[i][1] = waited[j][1] /\ i < j => waited[i][2][1] \in Paused \/ pipe_prog = "spl_sh"
    /\ procs[1].end = <<"exited", 0>> /\ pipe_prog \notin {"fifo", "select_demo", "fork_demo3"} =>
         \A c \in Procs \ {1} : \/ procs[c].status = "none"
                                \/ \E i \in DOMAIN waited : waited[i] = << c, procs[c].end >>
    /\ procs[1].end = <<"exited", 0>> /\ pipe_prog = "select_demo" =>
         \A c \in Procs \ {1} : ~Alive(c)

\* A process that only a signal can wake, and one whose FIFO was removed before
\* the other end came.
Idle(p) == \/ procs[p].status = "stopped"
           \/ Doing(p, "pause") \/ Doing(p, "sigwait")
           \/ Doing(p, "open") /\ (file # <<>> \/ ~procs[1].asleep)

\* Every process of these programs ends, unless one stays stopped or waits for
\* a signal: a reader comes to the end of its pipe because no process keeps a
\* write end.
EndedOrIdle == pipe_prog \in {"fifo", "select_demo"} \/ AllEnded \/ \E p \in Procs : Idle(p)
AllEnd == []<>EndedOrIdle

\* fifomonitor.c: senders come and go, but the monitor never sees the end of
\* the FIFO, for it holds a write end itself; only a signal ends it.
MonitorStays == pipe_prog = "fifo" => procs[1].end # <<"exited", 0>>
==============================================================================
