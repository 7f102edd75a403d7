------------------------------ MODULE Watchfiles ------------------------------
(***************************************************************************)
(* chapter09/watchfiles.c: a timer's signal handler reads and shows the    *)
(* sizes of some files, and raises stopflag after nochange_limit updates   *)
(* without a change; main() reads the keyboard until then.                 *)
(*                                                                         *)
(* The handlers run in main()'s thread: main() stands still meanwhile, and *)
(* a read() that one interrupts returns EINTR.  No handler masks another   *)
(* signal than its own, so that of SIGINT and SIGQUIT, which frees the     *)
(* arrays and then kills the process, interrupts an update and is itself   *)
(* interrupted by one, or by the other of the two.                         *)
(***************************************************************************)
EXTENDS Integers, Sequences, FiniteSets

CONSTANTS numfiles, nochange_limit,
          MaxSize,      \* of a file, in some unit
          MaxChanges    \* bound on the changes others make to the files

WatchAssumption ==
    numfiles \in Nat \ {0} /\ nochange_limit \in Nat /\ MaxSize \in Nat /\ MaxChanges \in Nat

VARIABLES
    size,         \* of each file, Gone when there is none
    changes,      \* how many changes were made to the files
    prevsize, stable_cnt, stopflag,
    handler,      \* update_stats(): the file it is at (0: not running), changed
    timer,        \* is it armed, is its signal pending?
    pc, c,        \* main(): where it is, the character read
    frames,       \* the handlers on the stack, with what sig_handler() does next
    freed         \* ghost: how often the arrays were freed

vars == <<size, changes, prevsize, stable_cnt, stopflag, handler, timer, pc, c, frames, freed>>
files == <<size, changes>>
stats == <<prevsize, stable_cnt, stopflag>>
stack == <<frames, freed>>

Files == 1 .. numfiles
Gone  == -1
QKey  == 113
Keys  == {QKey, 10}

\* getopt() returned -1 to end the loop over the options: that is still in c.
Init ==
    /\ size \in [Files -> 0 .. MaxSize] /\ changes = 0
    /\ prevsize = [f \in Files |-> 0] /\ stable_cnt = 0 /\ stopflag = FALSE
    /\ handler = [at |-> 0, changed |-> FALSE]
    /\ timer = [armed |-> TRUE, pending |-> FALSE]
    /\ pc = "test" /\ c = -1
    /\ frames = <<>> /\ freed = 0

\* The function that runs
Top == IF frames = <<>> THEN "main" ELSE frames[Len(frames)]

Frames(f) == {k \in DOMAIN frames : frames[k] = f}

Ended == pc \in {"exit", "killed"}

\* Somebody writes to a file or removes it.
Change ==
    /\ ~Ended /\ changes < MaxChanges
    /\ \E f \in Files, s \in (0 .. MaxSize) \cup {Gone} :
          s # size[f] /\ size' = [size EXCEPT ![f] = s]
    /\ changes' = changes + 1
    /\ UNCHANGED <<stats, handler, timer, pc, c, stack>>

Tick ==
    /\ ~Ended /\ timer.armed /\ ~timer.pending
    /\ timer' = [timer EXCEPT !.pending = TRUE]
    /\ UNCHANGED <<files, stats, handler, pc, c, stack>>
------------------------------------------------------------------------------
(* update_stats() *)

\* SIGUSR1 is masked in its own handler only.
Enter ==
    /\ ~Ended /\ timer.pending /\ handler.at = 0
    /\ timer' = [timer EXCEPT !.pending = FALSE]
    /\ handler' = [at |-> 1, changed |-> FALSE]
    /\ frames' = Append(frames, "update")
    /\ UNCHANGED <<files, stats, pc, c, freed>>

\* lstat(): a file that is gone is not a change.
Stat ==
    LET f == handler.at
        news == size[f] # Gone /\ size[f] # prevsize[f]
    IN  /\ ~Ended /\ Top = "update" /\ f \in Files
        /\ freed = 0
        /\ handler' = [at |-> f + 1, changed |-> handler.changed \/ news]
        /\ prevsize' = IF news THEN [prevsize EXCEPT ![f] = size[f]] ELSE prevsize
        /\ UNCHANGED <<files, stable_cnt, stopflag, timer, pc, c, stack>>

\* With a name and a size from freed memory anything may come of it, or the end.
StatFreed ==
    /\ ~Ended /\ Top = "update" /\ handler.at \in Files
    /\ freed > 0
    /\ \E news \in BOOLEAN :
          handler' = [at |-> handler.at + 1, changed |-> handler.changed \/ news]
    /\ pc' \in {pc, "killed"}
    /\ UNCHANGED <<files, stats, timer, c, stack>>

\* The count is only compared with the limit: there the model stops counting.
OneMore(n) == IF n < nochange_limit THEN n + 1 ELSE n

\* Mutant: read() is restarted.
Leave_restart ==
    /\ ~Ended /\ Top = "update" /\ handler.at = numfiles + 1
    /\ stable_cnt' = IF handler.changed THEN 0 ELSE OneMore(stable_cnt)
    /\ stopflag' = (stopflag \/ stable_cnt' >= nochange_limit)
    /\ handler' = [handler EXCEPT !.at = 0]
    /\ frames' = SubSeq(frames, 1, Len(frames) - 1)
    /\ UNCHANGED <<files, prevsize, timer, pc, c, freed>>

\* Back in main(), read() returns EINTR and the loop goes on.
Leave ==
    /\ ~Ended /\ Top = "update" /\ handler.at = numfiles + 1
    /\ stable_cnt' = IF handler.changed THEN 0 ELSE OneMore(stable_cnt)
    /\ stopflag' = (stopflag \/ stable_cnt' >= nochange_limit)
    /\ handler' = [handler EXCEPT !.at = 0]
    /\ frames' = SubSeq(frames, 1, Len(frames) - 1)
    /\ pc' = IF pc = "read" /\ frames' = <<>> THEN "test" ELSE pc
    /\ UNCHANGED <<files, prevsize, timer, c, freed>>

update_stats == Enter \/ Stat \/ StatFreed \/ Leave
------------------------------------------------------------------------------
(* main() *)

Test ==
    /\ pc = "test" /\ Top = "main"
    /\ pc' = IF stopflag THEN "disarm" ELSE "read"
    /\ UNCHANGED <<files, stats, handler, timer, c, stack>>

\* read(STDIN_FILENO, &c, 1) replaces the lowest byte of the int c.
Read ==
    /\ pc = "read" /\ Top = "main"
    /\ \E key \in Keys : c' = (c \div 256) * 256 + key
    /\ pc' = IF c' = QKey THEN "disarm" ELSE "test"
    /\ UNCHANGED <<files, stats, handler, timer, stack>>

\* Mutant: the arrays are freed while the timer still runs.
Disarm_not ==
    /\ pc = "disarm" /\ Top = "main"
    /\ pc' = "cleanup"
    /\ UNCHANGED <<files, stats, handler, timer, c, stack>>

Disarm ==
    /\ pc = "disarm" /\ Top = "main"
    /\ pc' = "cleanup" /\ timer' = [timer EXCEPT !.armed = FALSE]
    /\ UNCHANGED <<files, stats, handler, c, stack>>

\* cleanup(), in main().  A signal that was pending is delivered before, on the way
\* out of timer_settime().
cleanup ==
    /\ pc = "cleanup" /\ Top = "main" /\ ~timer.pending
    /\ pc' = "freed" /\ freed' = freed + 1
    /\ UNCHANGED <<files, stats, handler, timer, c, frames>>

Exit ==
    /\ pc = "freed" /\ Top = "main"
    /\ pc' = "exit"
    /\ UNCHANGED <<files, stats, handler, timer, c, stack>>
------------------------------------------------------------------------------
(* sig_handler() *)

\* SIGINT or SIGQUIT, in the midst of an update, of the other one's handler or of
\* main()'s way out too
Quit ==
    /\ ~Ended
    /\ Cardinality(Frames("cleanup") \cup Frames("raise")) < 2
    /\ frames' = Append(frames, "cleanup")
    /\ UNCHANGED <<files, stats, handler, timer, pc, c, freed>>

\* cleanup(), then raise(SIGTERM)
sig_handler ==
    /\ ~Ended
    /\ \/ /\ Top = "cleanup"
          /\ frames' = [frames EXCEPT ![Len(frames)] = "raise"]
          /\ freed' = freed + 1
          /\ UNCHANGED pc
       \/ /\ Top = "raise"
          /\ pc' = "killed"
          /\ UNCHANGED stack
    /\ UNCHANGED <<files, stats, handler, timer, c>>

main == Test \/ Disarm \/ cleanup \/ Exit \/ sig_handler

Next == Change \/ Tick \/ update_stats \/ main \/ Read \/ Quit

Spec == Init /\ [][Next]_vars

\* The timer ticks and its signals are delivered.  An update takes far less than
\* the time to the next tick, so what it interrupts runs in between.  Nobody has to press a
\* key.
FairSpec == Spec /\ WF_vars(Tick) /\ WF_vars(update_stats) /\ SF_vars(main)
------------------------------------------------------------------------------
(* Properties *)

\* On main()'s way out the timer is disarmed first: no update runs with the arrays
\* freed, and they are freed once.  On the way of sig_handler() nothing disarms it
\* (lines 126-127): an update may then use freed arrays, and a second signal free
\* them again, but only between its cleanup() and its raise(), from where no
\* statement of main() is reached any more.
ArraysInUse ==
    /\ freed > 0 /\ (Top = "update" \/ pc \in {"test", "read"}) => Frames("raise") # {}
    /\ freed > 1 => Frames("raise") # {}
    /\ pc = "exit" => handler.at = 0 /\ ~timer.armed /\ ~timer.pending /\ freed = 1

\* When the files change no more the program stops by itself: although stopflag
\* may be raised between its test and read(), which then waits for a key, a
\* later tick interrupts the read.
StopsWhenQuiet == []<>Ended

\* "Enter 'q' to quit" (line 73).
QuitsOnQ == [][Read /\ c' % 256 = QKey => pc' = "disarm"]_vars
==============================================================================
