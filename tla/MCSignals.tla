------------------------------ MODULE MCSignals ------------------------------
(***************************************************************************)
(* The programs of chapters 8 and 9 (SignalPrograms) and those of chapters *)
(* 11, 13 and 17 (PipePrograms): a behaviour is one of them, with a few    *)
(* signals sent to it from outside.                                        *)
(***************************************************************************)
EXTENDS SignalPrograms

CONSTANTS Capacity, MaxTyped, MaxKilled       \* PipePrograms

VARIABLES prog,     \* the name of the program, of PipePrograms if it is "piped"
          procs, pipe, file, out, waited, typed, killed, pipe_prog

Piped == INSTANCE PipePrograms WITH sent <- killed, MaxSent <- MaxKilled

Flags == {"reset", "nodefer", "restart"}

Programs ==
    {<<"signal_demo1", signal_demo1, {"INT", "QUIT"}>>,
     <<"signal_demo1b", signal_demo1b, {"INT", "QUIT"}>>,
     <<"signal_demo2", signal_demo2, {"INT", "QUIT"}>>,
     <<"signal_demo3", signal_demo3, {"INT", "TERM"}>>,
     <<"signal_demo4", signal_demo4, {"INT", "USR1"}>>,
     <<"sysv_signal_demo", sysv_signal_demo, {"INT", "QUIT"}>>,
     <<"sigact_demo1", sigact_demo1, {"INT", "QUIT"}>>,
     <<"raise_demo", raise_demo, {"INT", "TSTP", "CONT"}>>,
     <<"restart_demo", restart_demo, {"INT", "QUIT"}>>,
     <<"sigprocmask_demo1", sigprocmask_demo1, {"INT", "QUIT"}>>,
     <<"sigprocmask_demo2", sigprocmask_demo2, {"INT", "TERM"}>>,
     <<"sigprocmask_demo3", sigprocmask_demo3, {"INT", "QUIT"}>>,
     <<"sigsuspend_demo", sigsuspend_demo, {"INT", "QUIT"}>>,
     <<"signal_counter1", signal_counter1, {"INT", "QUIT"}>>,
     <<"signal_counter2", signal_counter2, {"INT"}>>,
     <<"sigwait_demo1", sigwait_demo1, {"INT", "HUP", "QUIT"}>>,
     <<"sigwait_demo2", sigwait_demo2, {"INT", "HUP", "QUIT"}>>,
     <<"alarm_demo1", alarm_demo1, {"INT"}>>,
     <<"nanosleep_demo1", nanosleep_demo1, {"INT"}>>,
     <<"nanosleep_demo2", nanosleep_demo2, {"INT"}>>,
     <<"clock_nanosleep_demo", clock_nanosleep_demo, {"INT"}>>,
     <<"posix_timer_demo1", posix_timer_demo1, {"INT"}>>,
     <<"posix_timer_demo1b", posix_timer_demo1b, {"INT"}>>,
     <<"posix_timer_demo2", posix_timer_demo2, {"INT"}>>,
     <<"posix_timer_demo3", posix_timer_demo3, {"INT"}>>,
     <<"posix_timer_manpage_example", posix_timer_manpage_example, {"INT"}>>,
     <<"timer_overrun_demo", timer_overrun_demo, {"INT"}>>,
     <<"progress_bar1", progress_bar1, {"INT", "QUIT"}>>,
     <<"progress_bar2", progress_bar2, {"INT", "QUIT"}>>}
    \cup {<<"sigact_demo2", sigact_demo2(b), {"INT"}>> : b \in BOOLEAN}
    \cup UNION {{<<"sigact_demo3", sigact_demo3(f), {"INT"}>>,
                 <<"sigact_demo4", sigact_demo4(f), {"INT"}>>,
                 <<"alarm_demo2", alarm_demo2(f), {"INT"}>>,
                 <<"alarm_demo3", alarm_demo3(f), {"INT"}>>} : f \in SUBSET Flags}
    \* SA_RESTART makes no difference to a program that only sleeps.
    \cup {<<"progress_bar_blocked_signal", progress_bar_blocked_signal(f, m), {"INT"}>> :
             f \in SUBSET (Flags \ {"restart"}), m \in {Sig, {}}}

Variables ==
    [errno |-> "ok", input |-> "line", sig |-> "none", temp |-> 0, i |-> 0,
     count |-> 0, prev_count |-> 0, printed |-> 0, sig_received |-> 0, stop |-> 0,
     got_interrupt |-> 0, cleaned |-> 0, fraction_completed |-> 0, shown |-> 0, bar |-> 0,
     quitting |-> 0, redrawn |-> 0,
     signal_count |-> 0, overrun_count |-> 0, toggle |-> 1]

piped_vars == <<procs, pipe, file, out, waited, typed, killed, pipe_prog>>
all        == <<prog, vars, piped_vars>>

ASSUME SignalAssumption /\ Piped!PipeAssumption

Init ==
    /\ mem = Variables
    /\ \/ /\ \E p \in Programs : prog = p[1] /\ Start(p[2], p[3])
          /\ Piped!Start(<<>>) /\ pipe_prog = "none"
       \/ prog = "piped" /\ Start(<<>>, {}) /\ Piped!Init

Step(A)      == prog # "piped" /\ A /\ UNCHANGED <<prog, piped_vars>>
PipedStep(A) == prog = "piped" /\ A /\ UNCHANGED <<prog, vars>>

\* The scheduler runs the process, the kernel delivers, timers expire; nobody
\* has to press a key.  Every process of PipePrograms runs.
Spec == /\ Init /\ [][Step(Next) \/ PipedStep(Piped!Next)]_all
        /\ WF_all(Step(Process) \/ PipedStep(Piped!Run(1)))
        /\ WF_all(Step(Deliver) \/ PipedStep(Piped!Run(2)))
        /\ WF_all(Step(Expire) \/ PipedStep(Piped!Run(3)))
        /\ WF_all(PipedStep(Piped!Run(4)))
------------------------------------------------------------------------------
(* Properties *)

Asleep == status = "running" /\ Len(frames) = 1 /\ frames[1].asleep

\* sigsuspend_demo.c, signal_counter2.c: no signal is left uncounted while the
\* process waits for the next, and the two counts agree when their difference is
\* printed, wherever the handler comes in.
SignalsCounted ==
    /\ prog = "sigsuspend_demo" /\ Asleep => mem.sig_received = 0
    /\ prog = "signal_counter2" /\ Len(frames) = 1 /\ frames[1].pc = 5
         => mem.prev_count = mem.printed

\* The progress bars: no handler shows more than the whole, although handlers draw
\* it at any time; and the terminal is left without a bar, by main() and by
\* sig_handler(), which erases it before its raise() can kill.  Not so where another
\* handler draws the bar again between the two (progress_bar1.c:97-98), nor
\* where a signal kills whose handler is not yet installed, or reset.
BarDrawnRight ==
    /\ mem.shown <= FULL
    /\ status = "exited" => mem.bar = 0
    /\ LET Expected == {"INT", "QUIT"} \cup {s \in Sig : timer[s].kind # "off"} IN
       status = "killed" /\ (\A s \in Expected : action[s].is = "caught")
         => mem.bar = 0 \/ mem.redrawn = 1

\* timer_overrun_demo.c: signals and overruns add up to the expirations, but for
\* those that the last, ignored, signal stands for, and for the overruns that
\* stophandler()'s timer_settime() (line 60) sets to 0 when it interrupts
\* timerhandler() before its timer_getoverrun(), one of the races of lines 13-16.
OverrunsAddUp ==
    prog = "timer_overrun_demo" /\ status = "exited" =>
        LET t == timer["RT0"] IN
        mem.signal_count + mem.overrun_count + t.undelivered + t.cleared = t.fired

\* posix_timer_demo1.c: no handler writes while another has not flushed.
\* nanosleep_demo2.c: a sleep lasts to its end, however often it is interrupted.
NothingCutShort ==
    /\ prog \in {"posix_timer_demo1", "posix_timer_demo1b"} => mem.i <= 1
    /\ prog \in {"nanosleep_demo2", "clock_nanosleep_demo"} /\ status = "exited"
         => mem.errno = "ok"

\* What goes through pipes and FIFOs comes out in order and once, and all of it;
\* fifomonitor.c never takes a sender's end for its own.
PipesDeliver == Piped!Delivered /\ Piped!MonitorStays

\* A parent is told of each child's end, and once.
StatusesTold == Piped!StatusesTold

\* The programs that end by themselves do, whenever signals and timers come; so
\* do all processes of those with pipes, unless one waits for a signal.
ProgramsEnd ==
    []<>(/\ prog \in {"signal_demo1", "signal_demo1b", "signal_demo2", "sysv_signal_demo",
                      "sigprocmask_demo1", "alarm_demo1", "alarm_demo2", "nanosleep_demo1",
                      "nanosleep_demo2", "clock_nanosleep_demo", "posix_timer_manpage_example",
                      "timer_overrun_demo", "progress_bar1", "progress_bar2",
                      "progress_bar_blocked_signal"}
              => status \in {"exited", "killed"}
         /\ prog = "piped" => Piped!EndedOrIdle)
==============================================================================
