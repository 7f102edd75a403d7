---------------------------- MODULE SignalPrograms ----------------------------
(***************************************************************************)
(* A process of one thread as the kernel sees it: what it is doing, which  *)
(* signals it blocks, which are pending and what it has asked to be done   *)
(* with each; and, as data for it, the programs of chapter08 and those of  *)
(* chapter09 that use alarms and timers (watchfiles.c has a module of its  *)
(* own).  A program is a sequence of statements, one for each system call  *)
(* or access to a variable that a handler shares, and a handler is such a  *)
(* sequence too.                                                           *)
(*                                                                         *)
(* A signal that is not blocked is delivered before the next statement, as *)
(* the kernel does on each return to the program.  Pending signals do not  *)
(* queue.  A sleep, a pause or a read is two steps, so that a signal may   *)
(* come just before the process is asleep.                                 *)
(*                                                                         *)
(* What a handler prints is left out; a handler that only prints is << >>. *)
(* A loop of n rounds runs ROUNDS times, a delay loop is nothing, a busy   *)
(* loop jumps to itself.  Where a program is told by its arguments which   *)
(* flags to use, or leaves a part of its action uninitialised, that is a   *)
(* parameter.                                                              *)
(***************************************************************************)
EXTENDS Integers, FiniteSets, SequencesExt

CONSTANTS Sig,        \* the signals
          MaxSent,    \* how many the environment sends
          MaxFired,   \* how often the timers expire
          ROUNDS,     \* for the 20 rounds of a loop and the 5 signals of sigwait_demo2
          FULL        \* the whole of a fraction, for 1.0

SignalAssumption ==
    /\ {"INT", "QUIT", "TERM", "TSTP", "CONT", "ALRM"} \subseteq Sig
    /\ MaxSent \in Nat /\ MaxFired \in Nat

VARIABLES
    frames,     \* main() and the handlers that interrupt it, the running one last
    mask, pending,
    action,     \* what is to be done with each signal
    status,     \* "running", "stopped", "exited" or "killed"
    timer,      \* each signal's timer: kind, expirations, those undelivered, the overruns
                \* that timer_getoverrun() gives, those its handler has not asked for yet,
                \* and those that were cleared before
    mem,        \* the program's variables, errno and input included
    sends, sent     \* what the environment may send, how many it has sent

vars == <<frames, mask, pending, action, status, timer, mem, sends, sent>>
------------------------------------------------------------------------------
(* Statements *)

Block(S)   == [do |-> "block", sigs |-> S]
Unblock(S) == [do |-> "unblock", sigs |-> S]
Default    == [is |-> "default"]
Ignored    == [is |-> "ignored"]
Catch(code, flags, sa_mask) ==
    [is |-> "caught", code |-> code, flags |-> flags, mask |-> sa_mask]
Sigaction(s, act) == [do |-> "sigaction", sig |-> s, to |-> act]
\* signal() of the GNU library
Signal(s, code) == Sigaction(s, Catch(code, {"restart"}, {}))
Pause      == [do |-> "wait", for |-> "signal"]
Sleep      == [do |-> "wait", for |-> "time"]
Read       == [do |-> "wait", for |-> "input"]
Sigsuspend == [do |-> "suspend"]             \* with an empty mask
Sigwait(S) == [do |-> "sigwait", sigs |-> S]
Raise(s)   == [do |-> "raise", sig |-> s]
Fault(s)   == [do |-> "fault", sig |-> s]    \* an instruction that traps
SetTimer(s, kind) == [do |-> "timer", sig |-> s, kind |-> kind]
Getoverrun(s)     == [do |-> "overrun", sig |-> s]
Exit       == [do |-> "exit"]
Goto(n)    == [do |-> "goto", to |-> n]
JumpIf(x, S, n) == [do |-> "if", var |-> x, in |-> S, to |-> n]
Set(x, v)  == [do |-> "set", var |-> x, val |-> v]
Copy(x, y) == [do |-> "copy", var |-> x, from |-> y]
Add(x, S)  == [do |-> "add", var |-> x, some |-> S]     \* one of the numbers in S
AddVar(x, y) == [do |-> "addvar", var |-> x, from |-> y]
------------------------------------------------------------------------------
Kills(s) == s \notin {"TSTP", "CONT", "CHLD"}       \* the default action

top == frames[Len(frames)]
stmt == top.code[top.pc]
AtEnd == top.pc > Len(top.code)

Begin(code) == [code |-> code, pc |-> 1, asleep |-> FALSE, old |-> {}, sig |-> "none"]
Start(code, set) ==
    /\ frames = << Begin(code) >>
    /\ mask = {} /\ pending = {} /\ status = "running" /\ sends = set /\ sent = 0
    /\ action = [s \in Sig |-> Default]
    /\ timer = [s \in Sig |-> [kind |-> "off", fired |-> 0, undelivered |-> 0, last |-> 0,
                             unread |-> 0, cleared |-> 0]]

\* The program runs: nothing is to be delivered first.
Running == status = "running" /\ pending \ mask = {}
Doing(what) == Running /\ ~AtEnd /\ stmt.do = what

To(n) == frames' = [frames EXCEPT ![Len(frames)].pc = n]
GoOn  == To(top.pc + 1)

\* A stop signal takes back a pending SIGCONT, which resumes the process and
\* takes back a pending stop signal.
Post(s) ==
    /\ pending' = IF action[s].is = "ignored" /\ s \notin mask THEN pending
                  ELSE (pending \cup {s}) \ (CASE s = "CONT" -> {"TSTP"} [] s = "TSTP" -> {"CONT"}
                                               [] OTHER -> {})
    /\ status' = IF s = "CONT" /\ status = "stopped" THEN "running" ELSE status
------------------------------------------------------------------------------
(* The process *)

Sigprocmask ==
    /\ \/ Doing("block") /\ mask' = mask \cup stmt.sigs
       \/ Doing("unblock") /\ mask' = mask \ stmt.sigs
    /\ GoOn
    /\ UNCHANGED <<pending, action, status, timer, mem, sends, sent>>

Sigact ==
    /\ Doing("sigaction")
    /\ action' = [action EXCEPT ![stmt.sig] = stmt.to]
    /\ pending' = IF stmt.to = Ignored THEN pending \ {stmt.sig} ELSE pending
    /\ GoOn
    /\ UNCHANGED <<mask, status, timer, mem, sends, sent>>

FallAsleep ==
    /\ Running /\ ~AtEnd /\ stmt.do \in {"wait", "suspend"} /\ ~top.asleep
    /\ frames' = [frames EXCEPT ![Len(frames)].asleep = TRUE, ![Len(frames)].old = mask]
    /\ mask' = IF stmt.do = "suspend" THEN {} ELSE mask
    /\ UNCHANGED <<pending, action, status, timer, mem, sends, sent>>

\* The time is over or a line has been typed.
Wake ==
    /\ Doing("wait") /\ top.asleep /\ stmt.for # "signal"
    /\ frames' = [frames EXCEPT ![Len(frames)].asleep = FALSE, ![Len(frames)].pc = @ + 1]
    /\ \E q \in {"line", "quit"} : mem' = [mem EXCEPT !.errno = "ok", !.input = q]
    /\ UNCHANGED <<mask, pending, action, status, timer, sends, sent>>

TakeSignal ==
    /\ Doing("sigwait")
    /\ \E s \in pending \cap stmt.sigs :
         pending' = pending \ {s} /\ mem' = [mem EXCEPT !.sig = s]
    /\ GoOn
    /\ UNCHANGED <<mask, action, status, timer, sends, sent>>

\* The instruction that traps is executed again after the handler.
RaiseSignal ==
    /\ \/ Doing("raise") /\ GoOn
       \/ Doing("fault") /\ UNCHANGED frames
    /\ Post(stmt.sig)
    /\ UNCHANGED <<mask, action, timer, mem, sends, sent>>

\* timer_settime() sets the overruns to 0, those of a signal that is still pending too.
Timers ==
    /\ \/ /\ Doing("timer")
          /\ LET t == timer[stmt.sig]
                 overruns == IF t.undelivered > 1 THEN t.undelivered - 1 ELSE 0
             IN timer' = [timer EXCEPT ![stmt.sig] =
                            [t EXCEPT !.kind = stmt.kind, !.undelivered = @ - overruns,
                                      !.last = 0, !.unread = 0,
                                      !.cleared = @ + t.unread + overruns]]
          /\ UNCHANGED mem
       \/ /\ Doing("overrun")
          /\ mem' = [mem EXCEPT !.temp = timer[stmt.sig].last]
          /\ timer' = [timer EXCEPT ![stmt.sig].unread = 0]
    /\ GoOn
    /\ UNCHANGED <<mask, pending, action, status, sends, sent>>

Compute ==
    /\ \/ Doing("set") /\ mem' = [mem EXCEPT ![stmt.var] = stmt.val]
       \/ Doing("copy") /\ mem' = [mem EXCEPT ![stmt.var] = mem[stmt.from]]
       \/ Doing("add") /\ \E d \in stmt.some : mem' = [mem EXCEPT ![stmt.var] = @ + d]
       \/ Doing("addvar") /\ mem' = [mem EXCEPT ![stmt.var] = @ + mem[stmt.from]]
    /\ GoOn
    /\ UNCHANGED <<mask, pending, action, status, timer, sends, sent>>

Jump ==
    /\ \/ Doing("goto") /\ To(stmt.to)
       \/ Doing("if") /\ To(IF mem[stmt.var] \in stmt.in THEN stmt.to ELSE top.pc + 1)
    /\ UNCHANGED <<mask, pending, action, status, timer, mem, sends, sent>>

Leave ==
    /\ Doing("exit")
    /\ status' = "exited"
    /\ UNCHANGED <<frames, mask, pending, action, timer, mem, sends, sent>>

Return ==
    /\ Running /\ Len(frames) > 1 /\ AtEnd
    /\ mask' = top.old
    /\ frames' = SubSeq(frames, 1, Len(frames) - 1)
    /\ timer' = [timer EXCEPT ![top.sig].unread = 0]
    /\ UNCHANGED <<pending, action, status, mem, sends, sent>>

Process ==
    \/ Sigprocmask \/ Sigact \/ FallAsleep \/ Wake \/ TakeSignal \/ RaiseSignal
    \/ Timers \/ Compute \/ Jump \/ Leave \/ Return
------------------------------------------------------------------------------
(* The kernel *)

\* The handler's frame keeps the mask to be put back.  The call it interrupts
\* fails with EINTR, unless it is a read that is restarted.
Handle(s) ==
    LET act  == action[s]
        ends == top.asleep /\ ~("restart" \in act.flags /\ stmt.do = "wait" /\ stmt.for = "input")
        old  == IF ~AtEnd /\ stmt.do = "suspend" /\ top.asleep THEN top.old ELSE mask
        below == IF ends THEN [frames EXCEPT ![Len(frames)].asleep = FALSE, ![Len(frames)].pc = @ + 1]
                 ELSE frames
    IN  /\ frames' = Append(below, [Begin(act.code) EXCEPT !.old = old, !.sig = s])
        /\ mask' = mask \cup act.mask \cup (IF "nodefer" \in act.flags THEN {} ELSE {s})
        /\ action' = IF "reset" \in act.flags THEN [action EXCEPT ![s] = Default] ELSE action
        /\ mem' = IF ends THEN [mem EXCEPT !.errno = "EINTR"] ELSE mem
        /\ UNCHANGED status

Deliver ==
    /\ status = "running"
    /\ \E s \in pending \ mask :
         /\ pending' = pending \ {s}
         /\ LET overruns == IF timer[s].undelivered = 0 THEN 0 ELSE timer[s].undelivered - 1
            IN timer' = [timer EXCEPT ![s].undelivered = 0, ![s].last = overruns,
                                      ![s].unread = overruns]
         /\ \/ action[s].is = "caught" /\ Handle(s)
            \/ /\ action[s] = Default
               /\ status' = CASE Kills(s) -> "killed" [] s = "TSTP" -> "stopped"
                              [] OTHER -> status
               /\ UNCHANGED <<frames, mask, action, mem>>
            \/ action[s] = Ignored /\ UNCHANGED <<frames, mask, action, status, mem>>
    /\ UNCHANGED <<sends, sent>>

Expire ==
    /\ status \in {"running", "stopped"}
    /\ \E s \in Sig :
         /\ timer[s].kind # "off" /\ timer[s].fired < MaxFired
         /\ timer' = [timer EXCEPT ![s].fired = @ + 1, ![s].undelivered = @ + 1,
                                   ![s].kind = IF @ = "once" THEN "off" ELSE @]
         /\ Post(s)
    /\ UNCHANGED <<frames, mask, action, mem, sends, sent>>

\* Somebody presses CTRL-C, or calls kill().
Send ==
    /\ status \in {"running", "stopped"} /\ sent < MaxSent
    /\ \E s \in sends : Post(s)
    /\ sent' = sent + 1
    /\ UNCHANGED <<frames, mask, action, timer, mem, sends>>

Next == Process \/ Deliver \/ Expire \/ Send
------------------------------------------------------------------------------
(* The programs of chapter 8 *)

Times(body) == FlattenSeq([k \in 1 .. ROUNDS |-> body])

\* signal_demo1.c
signal_demo1 == << Signal("INT", <<>>), Signal("QUIT", <<>>) >> \o Times(<<Sleep>>) \o <<Exit>>

\* signal_demo1b.c: with MOUSETRAPMODE the second CTRL-C kills.
signal_demo1b ==
    << Signal("INT", << Sigaction("INT", Default) >>), Signal("QUIT", <<>>) >>
    \o Times(<<Sleep>>) \o <<Exit>>

\* signal_demo2.c
signal_demo2 ==
    << Sigaction("INT", Ignored), Sigaction("QUIT", Ignored) >> \o Times(<<Sleep>>) \o <<Exit>>

\* signal_demo3.c
signal_demo3 == << Signal("INT", <<>>), Goto(2) >>

\* signal_demo4.c: a handler for every signal
signal_demo4 ==
    FoldSet(LAMBDA s, rest : << Signal(s, <<>>) >> \o rest, <<>>, Sig) \o << Goto(Cardinality(Sig) + 1) >>

\* sysv_signal_demo.c: System V's signal() resets the action and defers nothing.
sysv_signal_demo ==
    LET once == Catch(<<>>, {"reset", "nodefer"}, {}) IN
    << Sigaction("INT", once), Sigaction("QUIT", once) >> \o Times(<<Sleep>>) \o <<Exit>>

\* sigact_demo1.c
sigact_demo1 ==
    << Sigaction("INT", Catch(<< Raise("QUIT") >>, {}, {})),
       Sigaction("QUIT", Catch(<< Raise("TERM") >>, {}, {})), Pause, Exit >>

\* sigact_demo2.c: noreturn makes the handler return into the division by zero.
sigact_demo2(noreturn) ==
    << Sigaction("FPE", Catch(IF noreturn THEN <<>> ELSE << Raise("TERM") >>, {}, {})),
       Fault("FPE") >>

\* sigact_demo3.c, sigact_demo4.c: read lines until "quit"; the handler takes its
\* time, so that the next signal arrives before it returns.
read_lines == << Read, JumpIf("errno", {"EINTR"}, 2), JumpIf("input", {"line"}, 2), Exit >>

sigact_demo3(flags) == << Sigaction("INT", Catch(<< Set("temp", 0) >>, flags, {})) >> \o read_lines
sigact_demo4(flags) == << Sigaction("INT", Catch(<< Set("temp", 0) >>, flags, {})) >> \o read_lines

\* restart_demo.c: printed is 1 for "interrupted", 2 for "interrupted and
\* restarted", 3 for the text entered.
restart_demo ==
    << Sigaction("INT", Catch(<< Set("got_interrupt", 1) >>, {}, {})),
       Sigaction("QUIT", Catch(<< Set("got_interrupt", 1) >>, {"restart"}, {})),
       Read, JumpIf("errno", {"ok"}, 6), Goto(8),
       JumpIf("got_interrupt", {1}, 10), Goto(12),
       Set("printed", 1), Exit,
       Set("printed", 2), Exit,
       Set("printed", 3), Exit >>

\* raise_demo.c: cleaned says whether sigtstp_handler() has cleaned up since
\* sigcont_handler() last installed it.
sigtstp_handler == << Sigaction("TSTP", Default), Set("cleaned", 1), Raise("TSTP") >>
sigcont_handler == << Signal("TSTP", sigtstp_handler), Set("cleaned", 0) >>
raise_demo ==
    << Signal("TSTP", sigtstp_handler), Signal("CONT", sigcont_handler) >>
    \o Times(<<Sleep>>) \o <<Exit>>

\* sigprocmask_demo1.c: blocked for a while, then not
sigprocmask_demo1 ==
    << Signal("INT", <<>>), Block({"INT"}) >> \o Times(<<Sleep>>) \o << Unblock({"INT"}) >>
    \o Times(<<Sleep>>) \o <<Exit>>

\* sigprocmask_demo2.c: everything is blocked.
sigprocmask_demo2 == << Block(Sig), Sleep, Goto(2) >>

\* sigprocmask_demo3.c: unblock the signal, then pause().
sigprocmask_demo3 ==
    << Signal("INT", << Set("sig_received", 1) >>),
       Block({"INT"}), JumpIf("sig_received", {0}, 6), Add("count", {1}), Set("sig_received", 0),
       Unblock({"INT"}), Pause, Goto(2) >>

sigsuspend_demoPause ==     \* a mistake: as in sigprocmask_demo3.c
    << Signal("INT", << Set("sig_received", 1) >>),
       Block({"INT"}), JumpIf("sig_received", {0}, 6), Add("count", {1}), Set("sig_received", 0),
       Unblock({"INT"}), Pause, Goto(2) >>
\* sigsuspend_demo.c: wait and unblock at once.
sigsuspend_demo ==
    << Signal("INT", << Set("sig_received", 1) >>),
       Block({"INT"}), JumpIf("sig_received", {0}, 6), Add("count", {1}), Set("sig_received", 0),
       Sigsuspend, Goto(2) >>

\* signal_counter1.c
signal_counter1 ==
    << Signal("INT", << Add("count", {1}) >>), Signal("QUIT", << Set("stop", 1) >>),
       JumpIf("stop", {0}, 3), Copy("printed", "count"), Exit >>

\* signal_counter2.c: printed is the count when the difference is printed.
signal_counter2 ==
    << Signal("INT", << Add("count", {1}) >>),
       Block({"INT"}), Copy("printed", "count"), Copy("prev_count", "count"),
       Unblock({"INT"}), Sleep, Goto(2) >>

\* sigwait_demo1.c
sigwait_demo1 ==
    << Sigaction("QUIT", Catch(<< Sigaction("QUIT", Default), Raise("QUIT") >>, {}, {})),
       Block({"INT", "HUP", "USR1"}), Sigwait({"INT", "HUP", "USR1"}), Goto(3) >>

\* sigwait_demo2.c: sigdelset() changes the set and not the mask, so the SIGINT
\* that is raised at the end stays blocked.
sigwait_demo2 ==
    LET handler == Catch(<< Set("sig_received", 1), Raise("TERM") >>, {}, {}) IN
    << Block({"INT", "HUP", "USR1"}), Sigaction("INT", handler), Sigaction("QUIT", handler),
       Sigwait({"INT", "HUP", "USR1"}), JumpIf("sig", {"HUP", "USR1"}, 4),
       Add("count", {1}), JumpIf("count", 0 .. ROUNDS - 1, 4), Raise("INT"), Exit >>
------------------------------------------------------------------------------
(* chapter09.  A SIGRTMIN+k is "RTk".  How long an interval is is left     *)
(* out: a timer expires when it likes.  A bar is drawn (bar = 1) or erased *)
(* (0), shown is the fraction it shows, of FULL.  Two variables are not    *)
(* the program's: quitting, that sig_handler() has begun, and redrawn,     *)
(* that the bar was drawn after that.                                      *)

\* alarm_demo1.c: SIGALRM kills.
alarm_demo1 == << SetTimer("ALRM", "once"), Pause, Exit >>

\* alarm_demo2.c: the handler exits; i counts the seconds slept, up to 2.
alarm_demo2(flags) ==
    << Sigaction("ALRM", Catch(<< Exit >>, flags, {})), SetTimer("ALRM", "once"),
       Sleep, JumpIf("i", {2}, 3), Add("i", {1}), Goto(3) >>

\* alarm_demo3.c
alarm_demo3(flags) ==
    << Sigaction("ALRM", Catch(<<>>, flags, Sig)), SetTimer("ALRM", "once"), Pause, Exit >>

\* nanosleep_demo1.c: a signal ends the sleep early.
nanosleep_demo1 == << Sigaction("INT", Catch(<<>>, {}, {})), Sleep, Exit >>

\* nanosleep_demo2.c: sleep on for what remains.
nanosleep_demo2 ==
    << Sigaction("INT", Catch(<<>>, {}, {})), Sleep, JumpIf("errno", {"EINTR"}, 2), Exit >>

\* clock_nanosleep_demo.c: sleep again up to the same time.
clock_nanosleep_demo ==
    << Sigaction("INT", Catch(<<>>, {}, {})), Sleep, JumpIf("errno", {"EINTR"}, 2), Exit >>

\* Programs that set timers and then read until a 'q'
TimerUnmasked(s, code, sa_mask) ==      \* a mistake: the mask is not given
    << Sigaction(s, Catch(code, {"restart"}, {})), SetTimer(s, "periodic") >>
Timer(s, code, sa_mask) ==
    << Sigaction(s, Catch(code, {"restart"}, sa_mask)), SetTimer(s, "periodic") >>
ReadQ(n) == << Read, JumpIf("input", {"line"}, n), Exit >>

\* posix_timer_demo1.c (2 of its 8 timers): the handlers block one another; i
\* is 1 while a handler writes and flushes.
Writing == << Add("i", {1}), Set("i", 0) >>
posix_timer_demo1 == Timer("RT1", Writing, Sig) \o Timer("RT2", Writing, Sig) \o ReadQ(5)

\* posix_timer_demo1b.c: the same, the timer is looked up in the handler.
posix_timer_demo1b == Timer("RT1", Writing, Sig) \o Timer("RT2", Writing, Sig) \o ReadQ(5)

\* posix_timer_demo2.c: two handlers that may interrupt each other
posix_timer_demo2 == Timer("USR1", <<>>, {}) \o Timer("USR2", <<>>, {}) \o ReadQ(5)

\* posix_timer_demo3.c (2 of its 4 timers): handler3 shows or blanks its number.
handler3 == << JumpIf("toggle", {0}, 4), Set("toggle", 0), Goto(5), Set("toggle", 1) >>
posix_timer_demo3 == Timer("RT0", <<>>, {}) \o Timer("RT3", handler3, {}) \o ReadQ(5)

\* posix_timer_manpage_example.c: the signal is blocked while the timer runs.
posix_timer_manpage_example ==
    << Sigaction("RT0", Catch(<< Getoverrun("RT0"), Sigaction("RT0", Ignored) >>, {}, {})),
       Block({"RT0"}), SetTimer("RT0", "periodic"), Sleep, Unblock({"RT0"}), Exit >>

\* timer_overrun_demo.c
timerhandlerOneByOne == << Add("signal_count", {1}) >>      \* a mistake: no overruns
timerhandler == << Add("signal_count", {1}), Getoverrun("RT0"), AddVar("overrun_count", "temp") >>
stophandlerQuiet ==                     \* a mistake: main() is not told
    << SetTimer("RT0", "off"), Sigaction("RT0", Ignored), Sigaction("RT1", Ignored) >>
stophandler  == << SetTimer("RT0", "off"),
                   Sigaction("RT0", Ignored), Sigaction("RT1", Ignored), Set("stop", 1) >>
timer_overrun_demo ==
    << Sigaction("RT0", Catch(timerhandler, {}, {})), Sigaction("RT1", Catch(stophandler, {}, {})),
       Block({"RT0"}), SetTimer("RT0", "periodic"), Unblock({"RT0"}), SetTimer("RT1", "once"),
       JumpIf("stop", {0}, 7), Exit >>

\* What the three progress bars share
erase_progress_bar  == << Set("bar", 0) >>
draw_initial_bar    == << Set("shown", 0), Set("bar", 1) >>
refresh_progressbar == << Copy("shown", "fraction_completed"), Copy("redrawn", "quitting"), Set("bar", 1) >>
sig_handlerLate     == << Set("quitting", 1), Raise("TERM") >> \o erase_progress_bar   \* a mistake
sig_handler         == << Set("quitting", 1) >> \o erase_progress_bar \o << Raise("TERM") >>
Installed(flags, sa_mask) == << Sigaction("INT", Catch(sig_handler, flags, sa_mask)),
                                Sigaction("QUIT", Catch(sig_handler, flags, sa_mask)) >>
UpdateUnblocked(s, at, loop) ==         \* a mistake: a handler sees it half done
    << Unblock({s}), Add("fraction_completed", {1, 2}),
       JumpIf("fraction_completed", 0 .. FULL, at + 4), Set("fraction_completed", FULL),
       Unblock({s}), JumpIf("fraction_completed", 0 .. FULL - 1, loop) >>
\* The update of lengthy_task(), with s blocked, and the jump back to the loop
Update(s, at, loop) ==
    << Block({s}), Add("fraction_completed", {1, 2}),
       JumpIf("fraction_completed", 0 .. FULL, at + 4), Set("fraction_completed", FULL),
       Unblock({s}), JumpIf("fraction_completed", 0 .. FULL - 1, loop) >>

\* progress_bar1.c: each SIGALRM asks for the next; the sleep is resumed once.
progress_bar1 ==
    Installed({}, {}) \o draw_initial_bar
    \o << Sigaction("ALRM", Catch(refresh_progressbar \o << SetTimer("ALRM", "once") >>, {}, {})),
          SetTimer("ALRM", "once"),
          Sleep, JumpIf("errno", {"ok"}, 10), Sleep >> \o Update("ALRM", 10, 7)
    \o << Sleep, JumpIf("errno", {"ok"}, 19), Sleep, SetTimer("ALRM", "off") >>
    \o erase_progress_bar \o <<Exit>>

\* progress_bar2.c: a timer, and sleeps that end at a fixed time
progress_bar2 ==
    draw_initial_bar \o Installed({}, {})
    \o << Sigaction("USR1", Catch(refresh_progressbar, {}, {})), SetTimer("USR1", "periodic"),
          Sleep, JumpIf("errno", {"EINTR"}, 7) >> \o Update("USR1", 9, 7)
    \o << Sleep, JumpIf("errno", {"ok"}, 18), Sleep, SetTimer("USR1", "off"),
          Sigaction("USR1", Ignored) >> \o erase_progress_bar \o <<Exit>>

\* progress_bar_blocked_signal.c: the signal is blocked during the sleep too.
progress_bar_blocked_signal(flags, sa_mask) ==
    draw_initial_bar \o Installed(flags, sa_mask)
    \o << Sigaction("USR1", Catch(refresh_progressbar, flags, sa_mask)), SetTimer("USR1", "periodic"),
          Block({"USR1"}), Sleep, JumpIf("errno", {"ok"}, 11), Sleep, Unblock({"USR1"}) >>
    \o Update("USR1", 12, 7)
    \o << Sleep, JumpIf("errno", {"ok"}, 21), Sleep, SetTimer("USR1", "off"),
          Sigaction("USR1", Ignored) >> \o erase_progress_bar \o <<Exit>>
==============================================================================
