------------------------------ MODULE MCUtilities ------------------------------
(***************************************************************************)
(* Instances for TLC of programs of a single thread: two that take data    *)
(* apart (chapter05/spl_last.c, common/hash.c), two that walk directories  *)
(* (chapter 7), five with a signal handler (chapters 9, 11 and 17), those  *)
(* that read /proc (chapters 10 and 19), and those that set the terminal   *)
(* (chapters 18 and 19).  They are independent: a behaviour runs one of    *)
(* them, and the variables of the others stay as they are.                 *)
(***************************************************************************)
EXTENDS Integers, Sequences

CONSTANTS Terminals, NoLine, MaxRecords, show_sys_events,   \* SplLast
          Items, WORD, Hash_Constant, initial_size,         \* HashTable
          numfiles, nochange_limit, MaxSize, MaxChanges,    \* Watchfiles
          NUM_CHILDREN, MaxStops,                           \* SighandlerWait
          MaxLength, BUFFER_SIZE,                           \* CpAio
          MaxPid, AtStart, Spaced, hz, MaxEvents,           \* ProcFs, SplTop, PsTools
          Reach,                                            \* Sprite
          Rates, Characters, MaxCommands,                   \* SplStty
          MaxNodes, MAXDEPTH, Inodes,                       \* DiskUsage
          MaxDirs, MaxFront, MaxMoves,                      \* SplPwd
          TOP_ROW, numrows, numcols, MaxKeys,               \* SigioDemo
          LineSize                                          \* AioWrite

VARIABLES
    program,
    wtmp, file, saved_ut_recs, last, printed, done,
    table, seen, news,
    size, changes, prevsize, stable_cnt, stopflag, update, timer, watch_pc, key, frames, freed,
    kids, stops, sigchld, blocked, handler, sigchld_count, wait_pc, sleeps,
    length, aio_pc, readbuf, num_bytes_read, aio, buf, sigio, input_ready, target,
    state, ppid, cpu, events,
    top_pc, dirs, i, errno, slot, proclist, prevcpu_times, ui, content, signal, charged, missed,
    cmd, ps_pc, pid, ps_fields, printed_ps,
    version, sprite_pc, keys, window, winch, screen, pos, prev, direction, new, pause,
    term, savedtty, ws, steered, torn,
    tt, asked, commands,
    du_version, tree, gone, walk, total_usage, prev_level, visited, printed_du, status, heard, unknown,
    fs, parent, id, moves, cwd, current, pwd_pc, entries, pathname, front, paths,
    demo, demo_pc, typed_keys, typed, sigs, blocked_io, key_ready, timer_expired, finished,
    row, col, user_row_adjust,
    line_read, write_pc, request, written_sig, output_ready, total_bytes, written, short

SplLast == INSTANCE SplLast
Hash    == INSTANCE HashTable WITH h <- table
Watch   == INSTANCE Watchfiles WITH handler <- update, pc <- watch_pc, c <- key
Wait    == INSTANCE SighandlerWait WITH pc <- wait_pc, i <- sleeps
Copy    == INSTANCE CpAio WITH pc <- aio_pc, i <- readbuf

\* A kernel thread among the processes; a user of two of them.
Uid == <<0, 1, 1, 0>>
Mem == <<5, 7, 0, 5>>

Top == INSTANCE SplTop WITH pc <- top_pc, Forkers <- {1}, contentlines <- 2,
         Bursts <- {3600 * hz + 1, 86400 * hz},
         Typed <- [is : {"sort"}, by : {"MEM"}] \cup [is : {"user"}, by : {1}]
                  \cup [is : {"reverse", "forward", "backward", "quit"}, by : {0}]

\* Days in two years; terminals at the edges of their series.
Ps == INSTANCE PsTools WITH pc <- ps_pc, printed <- printed_ps, Forkers <- AtStart, Of <- MaxPid - 1,
         Bursts <- {3600 * hz + 1, 86400 * hz}, Born <- <<365, 730, 795, 800>>, Today <- 800,
         YearLength <- 365, Tty <- << <<136, 255>>, <<137, 0>>, <<4, 64>>, <<4, 0>> >>

\* The lower window has the corners in the rows the sprite starts in.
Sprite == INSTANCE Sprite WITH pc <- sprite_pc, events <- keys, size <- screen,
            Sizes <- {<<3, 3>>, <<5, 4>>}

Stty == INSTANCE SplStty WITH Numbers <- {-1, 0, 255, 256}

Du == INSTANCE DiskUsage WITH version <- du_version, printed <- printed_du

Pwd == INSTANCE SplPwd WITH pc <- pwd_pc

Sigio == INSTANCE SigioDemo WITH version <- demo, pc <- demo_pc, keys <- typed_keys,
           blocked <- blocked_io, input_ready <- key_ready

Write == INSTANCE AioWrite WITH BUFFER_SIZE <- LineSize, num_bytes_read <- line_read, pc <- write_pc,
           aio <- request, sigio <- written_sig, file <- written

ASSUME UtilitiesAssumption ==
       /\ SplLast!LastAssumption /\ Hash!HashAssumption /\ Watch!WatchAssumption
       /\ Wait!WaitAssumption /\ Copy!AioAssumption
       /\ Top!TopAssumption /\ Ps!PsAssumption
       /\ Sprite!SpriteAssumption /\ Stty!SttyAssumption
       /\ Du!DuAssumption /\ Pwd!PwdAssumption
       /\ Sigio!SigioAssumption /\ Write!WriteAssumption

last_vars  == <<wtmp, file, saved_ut_recs, last, printed, done>>
hash_vars  == <<table, seen, news>>
watch_vars == <<size, changes, prevsize, stable_cnt, stopflag, update, timer, watch_pc, key,
                frames, freed>>
wait_vars  == <<kids, stops, sigchld, blocked, handler, sigchld_count, wait_pc, sleeps>>
copy_vars  == <<length, aio_pc, readbuf, num_bytes_read, aio, buf, sigio, input_ready, target>>
table_vars == <<state, ppid, cpu, events>>
top_vars   == <<top_pc, dirs, i, errno, slot, proclist, prevcpu_times, ui, content, signal,
                charged, missed>>
ps_vars    == <<cmd, ps_pc, pid, ps_fields, printed_ps>>
sprite_vars == <<version, sprite_pc, keys, window, winch, screen, pos, prev, direction, new, pause,
                 term, savedtty, ws, steered, torn>>
stty_vars  == <<tt, asked, commands>>
du_vars    == <<du_version, tree, gone, walk, total_usage, prev_level, visited, printed_du, status,
                heard, unknown>>
pwd_vars   == <<fs, parent, id, moves, cwd, current, pwd_pc, entries, pathname, front, paths>>
sigio_vars == <<demo, demo_pc, typed_keys, typed, sigs, blocked_io, key_ready, timer_expired, finished,
                row, col, user_row_adjust>>
write_vars == <<line_read, write_pc, request, written_sig, output_ready, total_bytes, written, short>>

\* The programs with a handler, those that walk directories, and the rest
one_vars   == <<watch_vars, wait_vars, copy_vars>>
tree_vars  == <<du_vars, pwd_vars>>
io_vars    == <<sigio_vars, write_vars>>
tty_vars   == <<sprite_vars, stty_vars>>
vars       == <<program, last_vars, hash_vars, one_vars, table_vars, top_vars, ps_vars, tty_vars,
                tree_vars, io_vars>>

\* The inputs of a program that does not run are not varied: they are fixed before
\* its Init is met.
Init ==
    /\ program \in {"last", "hash", "watch", "wait", "copy", "top", "ps", "sprite", "stty",
                    "du", "pwd", "sigio", "write"}
    /\ \/ program = "du" /\ Du!Init
       \/ program # "du" /\ Du!Start("du1", Du!Flat)
    /\ \/ program = "pwd" /\ Pwd!Init
       \/ program # "pwd" /\ Pwd!Start([d \in Pwd!Dirs |-> 1], 1, 1, 0)
    /\ IF program = "last" THEN TRUE
       ELSE /\ wtmp = << [type |-> "boot", line |-> NoLine] >>
            /\ last = [boot |-> 0, shutdown |-> 0]
    /\ IF program = "watch" THEN TRUE ELSE size = [f \in Watch!Files |-> 0]
    /\ IF program = "copy" THEN TRUE ELSE length = 0
    /\ IF program = "ps" THEN TRUE ELSE cmd = "ps"
    /\ IF program = "sprite" THEN TRUE ELSE version = "ansi" /\ window = <<3, 3>>
    /\ IF program = "sigio" THEN TRUE ELSE demo = "demo"
    /\ IF program = "write" THEN TRUE ELSE line_read = 0
    /\ Watch!Init /\ Copy!Init /\ Hash!Init /\ Wait!Init /\ Top!Init /\ Ps!Init
    /\ Sprite!Init /\ Stty!Init /\ Sigio!Init /\ Write!Init
    /\ SplLast!Init
    /\ program = "watch" => size[1] = 0      \* an empty file and any other

Walks == <<tree_vars, io_vars>>
Rest == <<table_vars, top_vars, ps_vars, tty_vars, Walks>>

LastStep(A)  == program = "last" /\ A /\ UNCHANGED <<program, hash_vars, one_vars, Rest>>
HashStep(A)  == program = "hash" /\ A /\ UNCHANGED <<program, last_vars, one_vars, Rest>>
WatchStep(A) == program = "watch" /\ A
                /\ UNCHANGED <<program, last_vars, hash_vars, wait_vars, copy_vars, Rest>>
WaitStep(A)  == program = "wait" /\ A
                /\ UNCHANGED <<program, last_vars, hash_vars, watch_vars, copy_vars, Rest>>
CopyStep(A)  == program = "copy" /\ A
                /\ UNCHANGED <<program, last_vars, hash_vars, watch_vars, wait_vars, Rest>>
TopStep(A)   == program = "top" /\ A
                /\ UNCHANGED <<program, last_vars, hash_vars, one_vars, ps_vars, tty_vars, Walks>>
PsStep(A)    == program = "ps" /\ A
                /\ UNCHANGED <<program, last_vars, hash_vars, one_vars, top_vars, tty_vars, Walks>>
SpriteStep(A) == program = "sprite" /\ A
                 /\ UNCHANGED <<program, last_vars, hash_vars, one_vars, table_vars, top_vars, ps_vars,
                                stty_vars, Walks>>
SttyStep(A)  == program = "stty" /\ A
                /\ UNCHANGED <<program, last_vars, hash_vars, one_vars, table_vars, top_vars, ps_vars,
                               sprite_vars, Walks>>

Others == <<last_vars, hash_vars, one_vars, table_vars, top_vars, ps_vars, tty_vars>>

DuStep(A)    == program = "du" /\ A /\ UNCHANGED <<program, Others, pwd_vars, io_vars>>
PwdStep(A)   == program = "pwd" /\ A /\ UNCHANGED <<program, Others, du_vars, io_vars>>
SigioStep(A) == program = "sigio" /\ A /\ UNCHANGED <<program, Others, tree_vars, write_vars>>
WriteStep(A) == program = "write" /\ A /\ UNCHANGED <<program, Others, tree_vars, sigio_vars>>

Next == \/ LastStep(SplLast!Next) \/ HashStep(Hash!Next) \/ WatchStep(Watch!Next)
        \/ WaitStep(Wait!Next) \/ CopyStep(Copy!Next) \/ TopStep(Top!Next) \/ PsStep(Ps!Next)
        \/ SpriteStep(Sprite!Next) \/ SttyStep(Stty!Next)
        \/ DuStep(Du!Next) \/ PwdStep(Pwd!Next) \/ SigioStep(Sigio!Next) \/ WriteStep(Write!Next)

\* The fairness each module asks for.  Only one program runs, so one formula
\* can stand for an action of each: its disjuncts are never enabled together.
Spec ==
    /\ Init /\ [][Next]_vars
    /\ WF_vars(WatchStep(Watch!Tick) \/ CopyStep(Copy!aio_fill /\ ~aio'.pending)
               \/ WaitStep(Wait!Deliver \/ Wait!handle_sigchld \/ Wait!main)
               \/ PwdStep(Pwd!main) \/ SigioStep(Sigio!main) \/ WriteStep(Write!aio_complete))
    /\ WF_vars(WatchStep(Watch!update_stats) \/ CopyStep(Copy!on_input)
               \/ SigioStep(Sigio!on_input) \/ WriteStep(Write!on_output)
               \/ WaitStep(\E k \in Wait!Children : kids[k].state = "running" /\ Wait!End(k)))
    /\ SF_vars(WatchStep(Watch!main))
    /\ WF_vars(CopyStep(Copy!main) \/ SigioStep(Sigio!Expire) \/ WriteStep(Write!main))
    /\ WF_vars(SigioStep(Sigio!on_timer))
------------------------------------------------------------------------------
(* Properties *)

\* spl_last.c: each login is printed with the logouts of its own session and of
\* no other, each on a line of its own (although the comment has one line per
\* login: see OneLinePerLogin), every record is read, and boots and shutdowns
\* end each other.
SessionsMatched == program = "last" => SplLast!SessionsMatched /\ SplLast!SystemEvents

\* hash.c: the table is the set of the items inserted, and half of it is empty.
IsTheSet == program = "hash" => Hash!IsTheSet

\* spl_top.c: the table misses no process, and no tick is counted twice.
\* spl_ps.c: every process has its own line.  ancestors.c: the walk goes up.
ProcessesListed ==
    /\ program = "top" => Top!ListsAll /\ Top!NoTickTwice
    /\ program = "ps" => Ps!LinesRight /\ Ps!WalkGoesUp

\* spl_top.c: the screen shows the table in order; the times read back.
\* spl_stty.c: every setting shows as it was asked for.
ScreensRight ==
    /\ program = "top" => Top!ScreenShowsTable /\ Top!TimesReadBack
    /\ program = "stty" => Stty!ReadsBack

\* watchfiles.c: on main()'s way out no update runs with the arrays freed, nor
\* are they freed twice; where sig_handler() frees them, only before its raise().
\* sighandler_wait_demo.c: no child is counted that is not reaped, and when the
\* program ends every child is reaped.
\* sprite.c: the sprite stays in the window that its handler measures anew, and
\* the terminal is restored.  sigio_demo.c: the sprite stays in its rows.
HandlersSafe == /\ program = "watch" => Watch!ArraysInUse
                /\ program = "wait" => Wait!ReapedAndCounted
                /\ program = "sprite" => Sprite!StaysInWindow /\ Sprite!TerminalRestored
                /\ program = "sigio" => Sigio!InRows

\* spl_du1.c, spl_du2.c: what is printed beside a directory is the sum of what is
\* under it, each file counted once, although files are removed meanwhile; not if
\* one of the two links of a file is removed between the reports of the two.
\* spl_pwd.c: the path printed is one that the directory had, although
\* directories are moved meanwhile.
TreesWalked == /\ program = "du" => Du!UsageAddsUp /\ Du!FailsIfDeep
               /\ program = "pwd" => Pwd!PathWasTrue

\* watchfiles.c: the program stops once the files are quiet.
\* sighandler_wait_demo.c: it ends unless a child is stopped for ever.
\* spl_pwd.c: it ends.  sigio_demo.c: every key is answered.
EndsInTime == []<>(/\ program = "watch" => Watch!Ended
                   /\ program = "wait" => Wait!EndedOrStopped
                   /\ program = "pwd" => Pwd!Ended
                   /\ program = "sigio" => Sigio!Answered)

\* cp_aio.c: the target comes to be a copy of the source.
\* aio_write_demo.c: the file comes to be the line read, or what it writes of it.
CopyCompletes == []<>(/\ program = "copy" => Copy!Copied
                      /\ program = "write" => Write!Closed)
==============================================================================
