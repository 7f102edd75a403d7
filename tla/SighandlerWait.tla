---------------------------- MODULE SighandlerWait ----------------------------
(***************************************************************************)
(* chapter11/sighandler_wait_demo.c: a parent forks children and waits for *)
(* them in its SIGCHLD handler; then it reaps in main() those whose        *)
(* signals were lost.                                                      *)
(*                                                                         *)
(* SIGCHLD does not queue: while one is pending, others are dropped, and   *)
(* it keeps the siginfo of the first.  The handler runs in main()'s        *)
(* thread, and main() stands still meanwhile.                              *)
(***************************************************************************)
EXTENDS Integers, FiniteSets

CONSTANTS NUM_CHILDREN,
          MaxStops        \* bound on the stops of children by others

WaitAssumption == NUM_CHILDREN \in Nat \ {0} /\ MaxStops \in Nat

VARIABLES
    kids,           \* each child's state, and the change waitpid() has yet to report
    stops,          \* how many stops there were
    sigchld,        \* the pending signal: its child and code, or NoSignal
    blocked,        \* does main() block SIGCHLD?
    handler,        \* the signal being handled, or NoSignal
    sigchld_count,
    pc, i           \* main()

vars == <<kids, stops, sigchld, blocked, handler, sigchld_count, pc, i>>

Children == 0 .. NUM_CHILDREN - 1
NoSignal == [pid |-> -1, code |-> "none"]
Alive    == {"running", "stopped"}

Init ==
    /\ kids = [c \in Children |-> [state |-> "unborn", news |-> FALSE]]
    /\ stops = 0
    /\ sigchld = NoSignal /\ blocked = FALSE /\ handler = NoSignal
    /\ sigchld_count = 0
    /\ pc = "fork" /\ i = 0

Raise(c, code) ==
    sigchld' = IF sigchld = NoSignal THEN [pid |-> c, code |-> code] ELSE sigchld
------------------------------------------------------------------------------
(* The children.  A stopped one can be killed. *)

End(c) ==
    /\ kids[c].state \in Alive /\ pc # "exit"
    /\ kids' = [kids EXCEPT ![c] = [state |-> "zombie", news |-> FALSE]]
    /\ Raise(c, "ended")
    /\ UNCHANGED <<stops, blocked, handler, sigchld_count, pc, i>>

\* SIGSTOP and SIGCONT from elsewhere
Switch(c, from, to) ==
    /\ kids[c].state = from /\ pc # "exit"
    /\ kids' = [kids EXCEPT ![c] = [state |-> to, news |-> TRUE]]
    /\ Raise(c, to)
    /\ UNCHANGED <<blocked, handler, sigchld_count, pc, i>>

Stop(c) ==
    /\ stops < MaxStops /\ stops' = stops + 1
    /\ Switch(c, "running", "stopped")

Continue(c) == Switch(c, "stopped", "running") /\ UNCHANGED stops
------------------------------------------------------------------------------
(* handle_sigchld() *)

Deliver ==
    /\ sigchld # NoSignal /\ handler = NoSignal /\ ~blocked /\ pc # "exit"
    /\ handler' = sigchld /\ sigchld' = NoSignal
    /\ UNCHANGED <<kids, stops, blocked, sigchld_count, pc, i>>

\* Mutant: every signal counts.
handle_sigchld_any ==
    LET kid == kids[handler.pid] IN
    /\ handler # NoSignal
    /\ kid.state \in {"zombie", "reaped"} \/ kid.news
    /\ kids' = [kids EXCEPT ![handler.pid].state = IF @ = "zombie" THEN "reaped" ELSE @,
                            ![handler.pid].news = FALSE]
    /\ sigchld_count' = IF kid.state # "reaped" THEN sigchld_count + 1 ELSE sigchld_count
    /\ handler' = NoSignal
    /\ UNCHANGED <<stops, sigchld, blocked, pc, i>>

\* waitpid(si_pid) waits for a change of that child, which an earlier call may
\* have reported already.  It fails when the child is reaped.  What is counted
\* goes by the signal's code, not by the status.
handle_sigchld ==
    LET kid == kids[handler.pid] IN
    /\ handler # NoSignal
    /\ kid.state \in {"zombie", "reaped"} \/ kid.news
    /\ kids' = [kids EXCEPT ![handler.pid].state = IF @ = "zombie" THEN "reaped" ELSE @,
                            ![handler.pid].news = FALSE]
    /\ sigchld_count' = IF kid.state # "reaped" /\ handler.code = "ended"
                        THEN sigchld_count + 1 ELSE sigchld_count
    /\ handler' = NoSignal
    /\ UNCHANGED <<stops, sigchld, blocked, pc, i>>
------------------------------------------------------------------------------
(* main() *)

Fork ==
    /\ pc = "fork" /\ handler = NoSignal
    /\ kids' = [kids EXCEPT ![i].state = "running"]
    /\ i' = (i + 1) % NUM_CHILDREN
    /\ pc' = IF i' = 0 THEN "sleep" ELSE "fork"
    /\ UNCHANGED <<stops, sigchld, blocked, handler, sigchld_count>>

\* A turn of the loop: sleep(6) ends in time or when a signal has been handled.
Sleep ==
    /\ pc = "sleep" /\ handler = NoSignal
    /\ IF sigchld_count = NUM_CHILDREN \/ i = NUM_CHILDREN
       THEN pc' = "reap" /\ blocked' = TRUE /\ UNCHANGED i
       ELSE i' = i + 1 /\ UNCHANGED <<pc, blocked>>
    /\ UNCHANGED <<kids, stops, sigchld, handler, sigchld_count>>

\* Mutant: the loop ends when the handler has counted every child.
Reap_counted ==
    LET ended == {c \in Children : kids[c].state = "zombie"} IN
    /\ pc = "reap" /\ handler = NoSignal
    /\ \/ \E c \in ended : kids' = [kids EXCEPT ![c].state = "reaped"]
          /\ UNCHANGED <<pc, blocked>>
       \/ /\ sigchld_count = NUM_CHILDREN
          /\ pc' = "leave" /\ blocked' = FALSE /\ UNCHANGED kids
    /\ UNCHANGED <<stops, sigchld, handler, sigchld_count, i>>

\* waitpid(-1, WNOHANG) again and again until there is no child left.
Reap ==
    LET ended == {c \in Children : kids[c].state = "zombie"} IN
    /\ pc = "reap" /\ handler = NoSignal
    /\ \/ \E c \in ended : kids' = [kids EXCEPT ![c].state = "reaped"]
          /\ UNCHANGED <<pc, blocked>>
       \/ /\ \A c \in Children : kids[c].state = "reaped"
          /\ pc' = "leave" /\ blocked' = FALSE /\ UNCHANGED kids
    /\ UNCHANGED <<stops, sigchld, handler, sigchld_count, i>>

\* A pending signal is handled when it is unblocked, before exit().
Leave ==
    /\ pc = "leave" /\ handler = NoSignal /\ sigchld = NoSignal
    /\ pc' = "exit"
    /\ UNCHANGED <<kids, stops, sigchld, blocked, handler, sigchld_count, i>>

main == Fork \/ Sleep \/ Reap \/ Leave

Next ==
    \/ \E c \in Children : End(c) \/ Stop(c) \/ Continue(c)
    \/ Deliver \/ handle_sigchld \/ main

Spec == Init /\ [][Next]_vars

\* main() and its handler run, and a child that is not stopped comes to its
\* end: none was started with the argument 0, for which it pauses.
FairSpec ==
    /\ Spec
    /\ WF_vars(Deliver \/ handle_sigchld \/ main)
    /\ WF_vars(\E c \in Children : kids[c].state = "running" /\ End(c))
------------------------------------------------------------------------------
(* Properties *)

\* "If the sigchld_count equals the number of child processes, they all
\* terminated" (lines 137-138): although signals are lost, and one may be
\* handled when its child has changed again, no child is counted that is not
\* reaped.  And whichever signals were lost, and whichever children outlive the
\* sleeps, at the end none is left unreaped (lines 146-149).
ReapedAndCounted ==
    LET reaped == {c \in Children : kids[c].state = "reaped"} IN
    /\ sigchld_count <= Cardinality(reaped)
    /\ pc \in {"leave", "exit"} => reaped = Children

\* The program comes to its end unless a child is stopped for ever: the
\* handler's waitpid() and the loop in main() do not keep it.
EndedOrStopped == pc = "exit" \/ \E c \in Children : kids[c].state = "stopped"
EndsUnlessStopped == []<>EndedOrStopped
==============================================================================
