-------------------------------- MODULE SplTop --------------------------------
(***************************************************************************)
(* chapter19/spl_top.c with chapter19/top_utils.c and common/ps_utils.c: a *)
(* table of the processes, read from /proc while they come and go, sorted  *)
(* and scrolled as the user's keys say.                                    *)
(*                                                                         *)
(* Reading a process takes three steps: its directory, its stat file, its  *)
(* status file.  The signals that end the program are blocked but in       *)
(* pselect().  mem_pct and cpu_pct are rss and diff over a common divisor. *)
(***************************************************************************)
EXTENDS ProcFs

CONSTANTS Spaced,         \* the processes whose name has a space
          contentlines,   \* rows of the window
          hz,             \* clock ticks per second
          Typed           \* the keys, and the users entered at the prompt

TopAssumption == /\ ProcAssumption /\ Spaced \subseteq Pids
                 /\ contentlines \in Nat /\ contentlines >= 2 /\ hz \in Nat \ {0}

VARIABLES
    pc,
    dirs, i,        \* namelist of scandir(), and the index into it
    errno,          \* is errno set?
    slot,           \* proclist[j], which may keep what a skipped process left
    proclist,
    prevcpu_times,
    ui,             \* sortfield, sortdir, startline, filter_uid
    content,        \* the rows on the screen, and the number of tasks above them
    signal,         \* is one of the blocked signals pending?
    charged, missed \* ghosts: the ticks shown of each process, and those not in some table

loading == <<dirs, i, errno, slot, proclist, prevcpu_times>>
showing == <<ui, content, signal, charged, missed>>
vars    == <<procfs, pc, loading, showing>>

Nobody == [pid |-> 0, uid |-> 0, cputime |-> 0, rss |-> 0, diff |-> 0]
NoFilter == -1

Init ==
    /\ Boot
    /\ pc = "load" /\ dirs = <<>> /\ i = 1 /\ errno = FALSE
    /\ slot = Nobody /\ proclist = <<>> /\ prevcpu_times = <<>>
    /\ ui = [sortfield |-> "CPU", sortdir |-> FALSE, startline |-> 0, filter_uid |-> NoFilter]
    /\ content = [rows |-> <<>>, tasks |-> 0] /\ signal = FALSE
    /\ charged = [p \in Pids |-> 0] /\ missed = {}
------------------------------------------------------------------------------
(* Sorting and showing *)

Value(f, p) == CASE f = "PID" -> p.pid [] f = "USER" -> p.uid [] f = "CPU" -> p.diff
                 [] f = "MEM" -> p.rss [] f = "TIME" -> p.cputime

\* Mutant: the direction is forgotten for one of the fields.
GoesAfter_mem(u, a, b) == IF u.sortdir \/ u.sortfield = "MEM"
                          THEN Value(u.sortfield, a) > Value(u.sortfield, b)
                          ELSE Value(u.sortfield, b) > Value(u.sortfield, a)

\* The comparisons, sortfunc(a, b, &sortdir) > 0: a goes after b.
GoesAfter(u, a, b) == IF u.sortdir THEN Value(u.sortfield, a) > Value(u.sortfield, b)
                      ELSE Value(u.sortfield, b) > Value(u.sortfield, a)

\* sortprocs(): qsort_r() is a merge sort.
sortprocs(s, u) ==
    FoldLeft(LAMBDA sorted, p :
                 LET n == Cardinality({k \in DOMAIN sorted : ~GoesAfter(u, sorted[k], p)}) IN
                 InsertAt(sorted, n + 1, p),
             <<>>, s)

\* Mutant: the hours are not taken modulo a day.
get_cpu_time_str_hours(ticks) ==
    LET secs == ticks \div hz IN
    IF secs >= 86400 THEN << secs \div 86400, secs \div 3600, (secs \div 60) % 60, secs % 60 >>
    ELSE << secs \div 3600, (secs \div 60) % 60, secs % 60, ((100 * ticks) \div hz) % 100 >>

\* get_cpu_time_str(): days, hours, minutes, seconds; centiseconds up to a day.
get_cpu_time_str(ticks) ==
    LET centis  == (100 * ticks) \div hz
        secs    == centis \div 100
        minutes == (secs \div 60) % 60
        hours   == (secs \div 3600) % 24
        days    == secs \div 86400
    IN IF days > 0 THEN << days, hours, minutes, secs % 60 >>
       ELSE << hours, minutes, secs % 60, centis % 100 >>

Matching(s, filter) == SelectSeq(s, LAMBDA p : filter = NoFilter \/ p.uid = filter)

\* Mutant: the count of rows begins at start.
print_procs_count(s, start, filter) ==
    LET matching == Matching(SubSeq(s, start + 1, Len(s)), filter)
    IN SubSeq(matching, start + 1, Min({contentlines, Len(matching)}))
\* print_procs(): the first startline matches fall above the window.
print_procs(s, start, filter) ==
    LET matching == Matching(SubSeq(s, start + 1, Len(s)), filter)
    IN SubSeq(matching, start + 1, Min({start + contentlines, Len(matching)}))
------------------------------------------------------------------------------
(* loadprocs() *)

\* main() loads a table before its loop; show_summary() counts the last one.
\* What scandir() keeps of /proc, in the order it is in.
isprocdir == PidsInOrder

\* Of the summary window: the number of tasks
show_summary == [content EXCEPT !.tasks = Len(proclist)]

Load ==
    /\ pc \in {"load", "summary"}
    /\ content' = IF pc = "load" THEN content ELSE show_summary
    /\ dirs' = isprocdir /\ i' = 1 /\ errno' = FALSE /\ slot' = Nobody
    /\ prevcpu_times' = [k \in DOMAIN proclist |->
                            [pid |-> proclist[k].pid, cputime |-> proclist[k].cputime]]
    /\ proclist' = <<>>
    /\ pc' = "stat"
    /\ UNCHANGED <<procfs, ui, signal, charged, missed>>

Skip == i' = i + 1 /\ pc' = "stat"

\* stat() and fopen()
OpenStat ==
    /\ pc = "stat" /\ i <= Len(dirs)
    /\ IF Exists(dirs[i])
       THEN slot' = [slot EXCEPT !.uid = Uid[dirs[i]]] /\ pc' = "getline" /\ UNCHANGED <<i, errno>>
       ELSE errno' = TRUE /\ Skip /\ UNCHANGED slot
    /\ UNCHANGED <<procfs, dirs, proclist, prevcpu_times, showing>>

\* getline() and parse_buf(), which leaves off at a space in the name
ReadStat ==
    /\ pc = "getline"
    /\ IF Exists(dirs[i])
       THEN /\ slot' = [slot EXCEPT !.pid = dirs[i],
                                    !.cputime = IF dirs[i] \in Spaced THEN @ ELSE cpu[dirs[i]]]
            /\ pc' = "status"
       ELSE pc' = "died" /\ UNCHANGED slot
    /\ UNCHANGED <<procfs, dirs, i, errno, proclist, prevcpu_times, showing>>

\* Mutant: any errno ends the reading.
Usable_errno == Exists(dirs[i]) /\ ~errno

\* Without memory, getline() comes to the end of the file, and an errno that
\* was set before is taken for an error.
Usable == Exists(dirs[i]) /\ (Rss(dirs[i]) > 0 \/ ~errno)

get_procmem_usage ==
    /\ pc = "status"
    /\ IF Usable
       THEN /\ proclist' = Append(proclist, [slot EXCEPT !.rss = Rss(dirs[i])])
            /\ slot' = Nobody /\ UNCHANGED errno
       ELSE errno' = TRUE /\ UNCHANGED <<proclist, slot>>
    /\ Skip
    /\ UNCHANGED <<procfs, dirs, prevcpu_times, showing>>

\* Mutant: a process that is new in the table is charged its whole time.
Diff_whole(p) ==
    LET before == {k \in DOMAIN prevcpu_times : prevcpu_times[k].pid = p.pid} IN
    IF before = {} THEN p.cputime ELSE p.cputime - prevcpu_times[Max(before)].cputime

\* The time since the last refresh, or the whole time the first time; a process
\* that was not in the last table has 0.
Diff(p) ==
    LET before == {k \in DOMAIN prevcpu_times : prevcpu_times[k].pid = p.pid} IN
    IF prevcpu_times = <<>> THEN p.cputime
    ELSE IF before = {} THEN 0
    ELSE p.cputime - prevcpu_times[Max(before)].cputime

\* The end of loadprocs() and, in the loop, of a refresh.
Show ==
    /\ pc = "stat" /\ i > Len(dirs)
    /\ LET loaded == [k \in DOMAIN proclist |-> [proclist[k] EXCEPT !.diff = Diff(proclist[k])]]
           sorted == sortprocs(loaded, ui)
           share(p) == FoldSeq(LAMBDA e, n : IF e.pid = p THEN n + e.diff ELSE n, 0, loaded)
       IN /\ charged' = [p \in Pids |-> charged[p] + share(p)]
          /\ missed' = missed \cup (Pids \ {loaded[k].pid : k \in DOMAIN loaded})
          /\ prevcpu_times' = <<>>
          /\ IF prevcpu_times = <<>>
             THEN proclist' = loaded /\ pc' = "summary" /\ UNCHANGED content
             ELSE /\ proclist' = sorted /\ pc' = "pselect"
                  /\ content' = [content EXCEPT !.rows =
                                    print_procs(sorted, ui.startline, ui.filter_uid)]
    /\ slot' = Nobody /\ errno' = FALSE
    /\ UNCHANGED <<procfs, dirs, i, ui, signal>>
------------------------------------------------------------------------------
(* The keys and the signals *)

\* Mutant: what is left below the window is not counted.
CanScroll_half(start) == start < (Len(proclist) - contentlines) \div 2

CanScroll(start) == start < Len(proclist) - contentlines

\* pick_user(): a blank or an unknown name shows all.
pick_user(u) == IF u \in {Uid[p] : p \in Pids} THEN u ELSE NoFilter

\* The switch in main()
Obey(key) ==
    ui' = CASE key.is = "sort"     -> [ui EXCEPT !.sortfield = key.by, !.sortdir = FALSE,
                                                 !.startline = 0]
            [] key.is = "reverse"  -> [ui EXCEPT !.sortdir = ~@, !.startline = 0]
            [] key.is = "user"     -> [ui EXCEPT !.filter_uid = pick_user(key.by), !.startline = 0]
            [] key.is = "forward"  -> [ui EXCEPT !.startline = IF CanScroll(@) THEN @ + 1 ELSE @]
            [] key.is = "backward" -> [ui EXCEPT !.startline = IF @ > 0 THEN @ - 1 ELSE @]
            [] OTHER               -> ui

\* A key comes before a signal: pselect() leaves the signal pending.
Key ==
    /\ pc = "pselect" /\ Event
    /\ \E key \in Typed :
         /\ Obey(key)
         /\ pc' = IF key.is = "quit" THEN "exit" ELSE "summary"
    /\ UNCHANGED <<state, ppid, cpu, loading, content, signal, charged, missed>>

Timeout ==
    /\ pc = "pselect" /\ ~signal
    /\ pc' = "summary"
    /\ UNCHANGED <<procfs, loading, showing>>

\* cleanup() runs in pselect(), and then cleanup_exit().
Caught ==
    /\ pc = "pselect" /\ signal
    /\ pc' = "caught"
    /\ UNCHANGED <<procfs, loading, showing>>

Kill ==
    /\ Event /\ ~signal /\ signal' = TRUE
    /\ UNCHANGED <<state, ppid, cpu, pc, loading, ui, content, charged, missed>>

Ended   == pc \in {"exit", "caught", "died"}
main    == Load \/ OpenStat \/ ReadStat \/ get_procmem_usage \/ Show \/ Key \/ Timeout \/ Caught
Next    == ~Ended /\ (main \/ Kill \/ (Others /\ UNCHANGED <<pc, loading, showing>>))

Spec == Init /\ [][Next]_vars
------------------------------------------------------------------------------
(* Properties *)

Listed == {proclist[k].pid : k \in DOMAIN proclist}

\* loadprocs(): however processes come and go meanwhile, a process that runs
\* from the scan to the end of the load is in the table, and once.  One without
\* memory may be dropped, but only where another one went away during the load.
ListsAll ==
    pc = "pselect" =>
        /\ IsInjective([k \in DOMAIN proclist |-> proclist[k].pid])
        /\ \A k \in DOMAIN dirs :
             Running(dirs[k]) =>
                \/ dirs[k] \in Listed
                \/ Mem[dirs[k]] = 0 /\ \E m \in DOMAIN dirs : m < k /\ state[dirs[m]] = "gone"

\* loadprocs(): the percentages never count a tick twice, whichever refreshes a
\* process is missing from; if it is in all of them, they count every tick.
NoTickTwice ==
    \A p \in Pids \ Spaced :
        /\ 0 <= charged[p] /\ charged[p] <= cpu[p]
        /\ \A k \in DOMAIN proclist :
             pc = "pselect" /\ proclist[k].pid = p /\ p \notin missed =>
                charged[p] = proclist[k].cputime

\* main(): the screen shows a run of the table in the order asked for, without
\* a gap, from its first line if it is not scrolled; and by scrolling every
\* line can be brought up.  "Scrolling has no effect if all lines are visible"
\* (line 27) is so without a filter only: main() compares with the number of all
\* processes (line 915).  And which line comes next is not said: a key moves the
\* run by two lines, where the header has the next unseen one (lines 22-24).
ScreenShowsTable ==
    pc = "pselect" =>
        LET wanted == Matching(proclist, ui.filter_uid)
            Rows(n) == print_procs(proclist, n, ui.filter_uid)
            starts == {n \in 0 .. Len(proclist) : \A m \in 0 .. n - 1 : CanScroll(m)}
            v(k) == Value(ui.sortfield, proclist[k])
        IN /\ \A k \in 1 .. Len(proclist) - 1 :
                IF ui.sortdir THEN v(k) <= v(k + 1) ELSE v(k) >= v(k + 1)
           /\ \E n \in 0 .. Len(wanted) :
                content.rows = SubSeq(wanted, n + 1, n + Len(content.rows))
           /\ ui.startline = 0 => IsPrefix(content.rows, wanted)
           /\ \A k \in DOMAIN wanted : \E n \in starts : wanted[k] \in ToSet(Rows(n))
           /\ ui.filter_uid = NoFilter /\ Rows(0) = wanted => starts = {0}

\* get_cpu_time_str(): the time in a row reads back as the process's time, and
\* no part of it overflows.
TimesReadBack ==
    \A k \in DOMAIN proclist :
        LET t == get_cpu_time_str(proclist[k].cputime)
            ticks == proclist[k].cputime
        IN IF ticks >= 86400 * hz
           THEN /\ t[2] < 24 /\ t[3] < 60 /\ t[4] < 60
                /\ ((t[1] * 24 + t[2]) * 60 + t[3]) * 60 + t[4] = ticks \div hz
           ELSE /\ t[2] < 60 /\ t[3] < 60 /\ t[4] < 100
                /\ ((t[1] * 60 + t[2]) * 60 + t[3]) * 100 + t[4] = (100 * ticks) \div hz
==============================================================================
