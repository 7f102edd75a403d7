-------------------------------- MODULE PsTools --------------------------------
(***************************************************************************)
(* Two programs of chapter 10 that read /proc while processes come and go: *)
(* spl_ps.c, with common/ps_utils.c, prints a line for each process;       *)
(* ancestors.c prints a process's parent, its parent's parent and so on.   *)
(***************************************************************************)
EXTENDS ProcFs

CONSTANTS Spaced,         \* the processes whose name has a space
          Tty,            \* each process's terminal, <<major, minor>>
          Born, Today,    \* the day each process started, and the present one
          YearLength,     \* days
          Of,             \* the process whose ancestors are printed
          hz

PsAssumption == ProcAssumption /\ Spaced \subseteq Pids /\ 1 \notin Spaced
                /\ Of \in AtStart /\ hz \in Nat \ {0}

VARIABLES
    cmd,            \* which of the two runs
    pc, pid,        \* the process that is looked at
    ps_fields,
    printed

vars == <<procfs, cmd, pc, pid, ps_fields, printed>>

NoFields == [pid |-> 0, uid |-> 0, of |-> 0, cputime |-> 0]

Init ==
    /\ Boot
    /\ cmd \in {"ps", "ancestors"}
    /\ pc = "next" /\ ps_fields = NoFields /\ printed = <<>>
    /\ pid = IF cmd = "ps" THEN 0 ELSE Of
------------------------------------------------------------------------------
(* What is printed of a process *)

\* Mutant: the minutes are taken from the hours' remainder of a day.
make_cpu_time_str_day(ticks) ==
    LET s == ticks \div hz IN << s \div 86400, s \div 3600, (s \div 60) % 60, s % 60 >>

\* days, shown if there are any, hours, minutes, seconds
make_cpu_time_str(ticks) ==
    LET s == ticks \div hz IN
    << s \div 86400, (s \div 3600) % 24, (s \div 60) % 60, s % 60 >>

\* make_start_time_str(): the hour, the day of the year, or the year
StartFormat(day) ==
    CASE day \div YearLength # Today \div YearLength -> << "year", day \div YearLength >>
      [] day % YearLength # Today % YearLength       -> << "day", day % YearLength >>
      [] OTHER                                       -> << "time" >>

Series == [m \in {4, 11, 17, 19, 22, 23, 24, 32, 43, 46, 48, 57, 71, 75, 78, 105, 112, 148, 154,
                  156, 164, 166, 172, 174, 188} |->
            CASE m \in {22, 23} -> "D" [] m \in {78, 112} -> "M" [] m \in {154, 156} -> "SR"
              [] OTHER -> ToString(m)]

\* tty_name()
tty_name(maj, min) ==
    CASE maj = 4              -> IF min < 64 THEN << "tty", min >> ELSE << "ttyS", min - 64 >>
      [] maj \in 136 .. 143   -> << "pts", min + (maj - 136) * 256 >>
      [] maj = 156            -> << "SR", min + 256 >>
      [] maj \in DOMAIN Series \ {4, 156} -> << Series[maj], min >>
      [] OTHER                -> << "?" >>

\* print_one_ps()
print_one_ps(f) ==
    [pid |-> f.pid, uid |-> f.uid, of |-> f.of, cputime |-> f.cputime,
     time |-> make_cpu_time_str(f.cputime),
     start |-> StartFormat(Born[f.of]), tty |-> tty_name(Tty[f.of][1], Tty[f.of][2])]
------------------------------------------------------------------------------
(* printallprocs() *)

\* readdir() gives the next process there is, stat() and fopen() find it.
NextEntry ==
    /\ cmd = "ps" /\ pc = "next"
    /\ LET later == {p \in Pids : p > pid /\ Exists(p)} IN
       IF later = {} THEN pc' = "exit" /\ UNCHANGED <<pid, ps_fields>>
       ELSE /\ pid' = Min(later) /\ pc' = "getline"
            /\ ps_fields' = [ps_fields EXCEPT !.uid = Uid[pid']]
    /\ UNCHANGED <<procfs, cmd, printed>>

\* parse_buf() leaves off at a space in the name: what follows it stays as it
\* was.
parse_buf ==
    ps_fields' = IF pid \in Spaced THEN [ps_fields EXCEPT !.pid = pid]
                 ELSE [ps_fields EXCEPT !.pid = pid, !.of = pid, !.cputime = cpu[pid]]

PrintLine ==
    /\ cmd = "ps" /\ pc = "getline"
    /\ IF Exists(pid)
       THEN /\ parse_buf /\ printed' = Append(printed, print_one_ps(ps_fields'))
            /\ pc' = "next"
       ELSE pc' = "died" /\ UNCHANGED <<ps_fields, printed>>
    /\ UNCHANGED <<procfs, cmd, pid>>
------------------------------------------------------------------------------
(* ancestors.c *)

\* Mutant: the loop looks at the same process again.
Ascend_same(parent) == pid' = pid

Ascend(parent) == pid' = parent

\* getparentid(), and the loop's body
getparentid ==
    /\ cmd = "ancestors" /\ pc = "next"
    /\ IF ~Exists(pid) THEN pc' = "died" /\ UNCHANGED <<pid, printed>>
       ELSE IF ppid[pid] > 0
            THEN printed' = Append(printed, ppid[pid]) /\ Ascend(ppid[pid]) /\ UNCHANGED pc
            ELSE pc' = "exit" /\ UNCHANGED <<pid, printed>>
    /\ UNCHANGED <<procfs, cmd, ps_fields>>

Ended == pc \in {"exit", "died"}
Next  == ~Ended /\ (NextEntry \/ PrintLine \/ getparentid
                    \/ (Others /\ UNCHANGED <<cmd, pc, pid, ps_fields, printed>>))

Spec == Init /\ [][Next]_vars
------------------------------------------------------------------------------
(* Properties *)

\* spl_ps.c: every process that runs from first to last has a line, and each
\* has one only.  A line shows its own process's fields, which read back as
\* they were, and tells two terminals apart; but a process whose name has a
\* space shows the fields of the line before.
LinesRight ==
    cmd = "ps" =>
        /\ \A k \in DOMAIN printed :
             LET l == printed[k] IN
             /\ k > 1 => printed[k - 1].pid < l.pid
             /\ l.of = IF l.pid \in Spaced THEN printed[k - 1].of ELSE l.pid
             /\ l.time[2] < 24 /\ l.cputime <= cpu[l.of]
             /\ ((l.time[1] * 24 + l.time[2]) * 60 + l.time[3]) * 60 + l.time[4] = l.cputime \div hz
             /\ l.start = << "time" >> <=> Born[l.of] = Today
             /\ \A m \in DOMAIN printed : printed[m].tty = l.tty => Tty[printed[m].of] = Tty[l.of]
        /\ pc = "exit" => \A p \in AtStart :
             Running(p) => \E k \in DOMAIN printed : printed[k].pid = p

\* ancestors.c: though parents end and children are given to init between two
\* readings, the walk goes up: no process is printed twice, and it leaves off
\* at init or where a process went away before it was read.
WalkGoesUp ==
    cmd = "ancestors" =>
        /\ \A k \in 2 .. Len(printed) : printed[k] < printed[k - 1]
        /\ pc = "exit" /\ Of # 1 => printed # <<>> /\ Last(printed) = 1
        /\ pc = "died" => state[pid] = "gone"
==============================================================================
