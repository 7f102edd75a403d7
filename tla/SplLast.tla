------------------------------- MODULE SplLast -------------------------------
(***************************************************************************)
(* chapter05/spl_last.c: the records of the wtmp file are read from the    *)
(* last to the first, and each login is paired with the logout read before *)
(* it, if no boot or shutdown came in between.                             *)
(*                                                                         *)
(* A record is named by its place in the file, which is also its time.  An *)
(* offset counts whole records.                                            *)
(***************************************************************************)
EXTENDS Integers, SequencesExt

CONSTANTS Terminals,        \* values of ut_line; NoLine is the empty one
          NoLine,
          MaxRecords,       \* bound on the length of the file
          show_sys_events   \* the option -x

LastAssumption == NoLine \notin Terminals /\ MaxRecords \in Nat /\ show_sys_events \in BOOLEAN

VARIABLES
    wtmp,           \* the file, oldest record first
    file,           \* the descriptor's offset; get_prev_utrec()'s static variables
    saved_ut_recs,  \* the logouts kept, most recently read first
    last,           \* last_boot_time and last_shutdown_time
    printed,        \* the lines printed: <<record, its end>>
    done

vars == <<wtmp, file, saved_ut_recs, last, printed, done>>

\* "dead" is DEAD_PROCESS and "user" USER_PROCESS; "other" stands for RUN_LVL,
\* LOGIN_PROCESS and the rest, which main() skips.
Records == [type : {"user", "dead"}, line : Terminals] \cup
           [type : {"boot", "shutdown", "other", "dead"}, line : {NoLine}]

\* main() has read the first record for its time, so the offset is 1.  Nothing
\* initialises last_boot_time: it is zero or anything else.
Init ==
    /\ \E n \in 1 .. MaxRecords : wtmp \in [1 .. n -> Records]
    /\ file = [offset |-> 1, is_first |-> TRUE, saved |-> 0]
    /\ saved_ut_recs = <<>>
    /\ last \in [boot : {0, MaxRecords + 1}, shutdown : {0}]
    /\ printed = <<>>
    /\ done = FALSE
------------------------------------------------------------------------------
(* get_prev_utrec() *)

Saved == IF file.is_first THEN Len(wtmp) - 1 ELSE file.saved
At    == IF file.is_first THEN Len(wtmp) - 1 ELSE file.offset

\* Mutant: the seek goes back by one record.
Advance_once ==
    [is_first |-> FALSE, saved |-> Saved - 1,
     offset |-> IF Saved - 1 >= 0 THEN At + 1 - 1 ELSE At + 1]

\* After the read, back over the record read and the one before it.
Advance ==
    [is_first |-> FALSE, saved |-> Saved - 1,
     offset |-> IF Saved - 1 >= 0 THEN At + 1 - 2 ELSE At + 1]
------------------------------------------------------------------------------
(* main(): what it does with record k *)

Show(lines) == printed' = printed \o lines

BootTime(k) ==
    /\ wtmp[k].type = "boot"
    /\ Show(<< <<k, last.shutdown>> >>)
    /\ last' = [last EXCEPT !.boot = k]
    /\ saved_ut_recs' = <<>>

\* Mutant: logouts are kept across a shutdown.
ShutdownTime_keep(k) ==
    /\ wtmp[k].type = "shutdown"
    /\ Show(IF show_sys_events THEN << <<k, last.boot>> >> ELSE <<>>)
    /\ last' = [last EXCEPT !.shutdown = k]
    /\ UNCHANGED saved_ut_recs

ShutdownTime(k) ==
    /\ wtmp[k].type = "shutdown"
    /\ Show(IF show_sys_events THEN << <<k, last.boot>> >> ELSE <<>>)
    /\ last' = [last EXCEPT !.shutdown = k]
    /\ saved_ut_recs' = <<>>

\* The loop over the list: every saved logout of the line is printed and deleted,
\* not only the first.
Pair(k, found, r) ==
    IF wtmp[r].line = wtmp[k].line THEN [found EXCEPT !.lines = Append(@, <<k, r>>)]
                                   ELSE [found EXCEPT !.left = Append(@, r)]

Paired(k) == FoldLeft(LAMBDA found, r : Pair(k, found, r),
                      [lines |-> <<>>, left |-> <<>>], saved_ut_recs)

UserProcess(k) ==
    LET gone == IF last.shutdown > 0 THEN -1 ELSE 0
    IN  /\ wtmp[k].type = "user"
        /\ Show(IF Paired(k).lines # <<>> THEN Paired(k).lines ELSE << <<k, gone>> >>)
        /\ saved_ut_recs' = Paired(k).left
        /\ UNCHANGED last

DeadProcess(k) ==
    /\ wtmp[k].type = "dead"
    /\ saved_ut_recs' = IF wtmp[k].line = NoLine THEN saved_ut_recs
                                                 ELSE <<k>> \o saved_ut_recs
    /\ UNCHANGED <<last, printed>>

Other(k) == wtmp[k].type = "other" /\ UNCHANGED <<saved_ut_recs, last, printed>>

\* One turn of the loop.
Next ==
    /\ ~done
    /\ done' = (Saved < 0)
    /\ IF Saved < 0
       THEN saved_ut_recs' = <<>> /\ UNCHANGED <<file, last, printed>>
       ELSE LET k == At + 1 IN
            /\ file' = Advance
            /\ \/ BootTime(k) \/ ShutdownTime(k) \/ UserProcess(k) \/ DeadProcess(k) \/ Other(k)
    /\ UNCHANGED wtmp

Spec == Init /\ [][Next]_vars
------------------------------------------------------------------------------
(* Properties *)

Later(k, S)    == {j \in k + 1 .. Len(wtmp) : wtmp[j].type \in S}
First(S, none) == IF S = {} THEN none ELSE CHOOSE j \in S : \A i \in S : j <= i
Ends(k)        == {e \in -1 .. Len(wtmp) : \E i \in DOMAIN printed : printed[i] = <<k, e>>}

\* The logouts of record k's line that come before any other login on that
\* line, boot or shutdown.
Logouts(k) ==
    {j \in Later(k, {"dead"}) :
        /\ wtmp[j].line = wtmp[k].line
        /\ \A i \in k + 1 .. j - 1 :
              wtmp[i].type = "user" => wtmp[i].line # wtmp[k].line
        /\ Later(k, {"boot", "shutdown"}) \cap 1 .. j = {}}

\* Reading backwards with one list of open logouts, the program prints for each
\* login a line for every logout that belongs to it, never for one of another
\* session of the line or of another run of the system; without one, "gone" if
\* the system was shut down since.  That the line should be one only, as the
\* comment at lines 344-346 has it, is OneLinePerLogin below, and is not so.
SessionsMatched ==
    done => \A k \in 1 .. Len(wtmp) : wtmp[k].type = "user" =>
                Ends(k) = IF Logouts(k) # {} THEN Logouts(k)
                          ELSE {IF Later(k, {"shutdown"}) # {} THEN -1 ELSE 0}

\* The file is read to its beginning and each record once, the newest first: a
\* boot ends at the next shutdown and with -x a shutdown at the next boot, if
\* there is one; no line is printed twice or out of turn.
SystemEvents ==
    done =>
        /\ \A k \in 1 .. Len(wtmp) :
              /\ wtmp[k].type = "boot" => Ends(k) = {First(Later(k, {"shutdown"}), 0)}
              /\ wtmp[k].type = "shutdown" /\ show_sys_events /\ Later(k, {"boot"}) # {}
                    => Ends(k) = {First(Later(k, {"boot"}), 0)}
        /\ \A i, j \in DOMAIN printed :
              i < j => \/ printed[i][1] > printed[j][1]
                       \/ printed[i][1] = printed[j][1] /\ printed[i][2] < printed[j][2]

\* Why they hold.  When the first Unread records are still to be read, the list holds
\* the logouts after them that no login, boot or shutdown has taken out, the oldest at
\* the front; each of the two times is that of the first such event there; and
\* what is printed is right for the records read.
Unread == Saved + 1

Open(c) ==
    {j \in Later(c, {"dead"}) :
        /\ wtmp[j].line # NoLine
        /\ \A i \in c + 1 .. j - 1 :
              /\ wtmp[i].type = "user" => wtmp[i].line # wtmp[j].line
              /\ wtmp[i].type \notin {"boot", "shutdown"}}

RightEnds(k) ==
    /\ wtmp[k].type = "user" =>
          Ends(k) = IF Logouts(k) # {} THEN Logouts(k)
                    ELSE {IF Later(k, {"shutdown"}) # {} THEN -1 ELSE 0}
    /\ wtmp[k].type = "boot" => Ends(k) = {First(Later(k, {"shutdown"}), 0)}
    /\ wtmp[k].type = "shutdown" /\ show_sys_events /\ Later(k, {"boot"}) # {}
          => Ends(k) = {First(Later(k, {"boot"}), 0)}

Before(l, m) == l[1] > m[1] \/ (l[1] = m[1] /\ l[2] < m[2])

LastTypes ==
    /\ wtmp \in Seq(Records) /\ wtmp # <<>>
    /\ file \in [offset : Int, is_first : BOOLEAN, saved : Int]
    /\ ~file.is_first => /\ file.saved \in -1 .. Len(wtmp) - 2
                         /\ file.saved >= 0 => file.offset = file.saved
    /\ saved_ut_recs \in Seq(1 .. Len(wtmp))
    /\ last \in [boot : Int, shutdown : Int]
    /\ printed \in Seq((Unread + 1 .. Len(wtmp)) \X Int)

LastInv ==
    /\ LastTypes
    /\ IF done THEN Unread = 0
       ELSE /\ ToSet(saved_ut_recs) = Open(Unread)
            /\ \A i, j \in DOMAIN saved_ut_recs : i < j => saved_ut_recs[i] < saved_ut_recs[j]
    /\ last.shutdown = First(Later(Unread, {"shutdown"}), 0)
    /\ Later(Unread, {"boot"}) # {} => last.boot = First(Later(Unread, {"boot"}), 0)
    /\ \A k \in Unread + 1 .. Len(wtmp) : RightEnds(k)
    /\ \A i, j \in DOMAIN printed : i < j => Before(printed[i], printed[j])

\* "Find the logout entry for this login in the saved_ut_recs list. This should be
\* the entry closest to the front of the list with the same ut_line field" (lines
\* 344-346): one logout, and so one line, for a login.  The loop of 349-360 does
\* not stop at the first: where two logouts of a line follow a login, it prints
\* the login twice, with two ends.
OneLinePerLogin == \A i, j \in DOMAIN printed : i # j => printed[i][1] # printed[j][1]
==============================================================================
