------------------------------- MODULE SigioDemo -------------------------------
(***************************************************************************)
(* chapter17/sigio_demo.c and sigio_counter.c: the terminal is set to send *)
(* SIGIO when there is input; the handler sets a flag, and main() reads    *)
(* the keys, without blocking, when it finds the flag set.  sigio_demo     *)
(* moves a sprite as well, each time a timer expires; sigio_counter has no *)
(* timer, and blocks SIGIO while it reads.                                 *)
(*                                                                         *)
(* The window's least size and what is drawn are left out.                 *)
(***************************************************************************)
EXTENDS Integers, Sequences

CONSTANTS TOP_ROW, numrows, numcols,
          MaxKeys       \* bound on the keys that are typed

SigioAssumption == /\ TOP_ROW \in Nat /\ numrows \in Nat /\ numcols \in Nat \ {0}
                   /\ TOP_ROW < numrows /\ MaxKeys \in Nat

VARIABLES
    version,            \* "demo" or "counter"
    pc,
    keys, typed,        \* what can be read; the number typed
    sigs, blocked,      \* the signals pending; is SIGIO blocked?
    input_ready, timer_expired,
    finished,
    row, col, user_row_adjust

sprite == <<row, col, user_row_adjust>>
flags  == <<input_ready, timer_expired>>
vars   == <<version, pc, keys, typed, sigs, blocked, flags, finished, sprite>>

\* The demo looks at the flag before it sleeps, the counter after.
Init ==
    /\ version \in {"demo", "counter"}
    /\ pc = IF version = "demo" THEN "input" ELSE "pause"
    /\ keys = <<>> /\ typed = 0 /\ sigs = {} /\ blocked = FALSE
    /\ input_ready = FALSE /\ timer_expired = FALSE /\ finished = FALSE
    /\ row = TOP_ROW /\ col = 1 /\ user_row_adjust = 0
------------------------------------------------------------------------------
(* The user, the timer and the handlers *)

Ended == pc = "exit"

Type ==
    /\ ~Ended /\ typed < MaxKeys /\ typed' = typed + 1
    /\ \E ch \in {"u", "d", "q", "other"} : keys' = Append(keys, ch)
    /\ sigs' = sigs \cup {"SIGIO"}
    /\ UNCHANGED <<version, pc, blocked, flags, finished, sprite>>

Expire ==
    /\ version = "demo" /\ ~Ended
    /\ sigs' = sigs \cup {"SIGUSR1"}
    /\ UNCHANGED <<version, pc, keys, typed, blocked, flags, finished, sprite>>

Awake == IF pc # "sleep" THEN pc ELSE IF finished THEN "exit" ELSE "input"

on_input ==
    /\ "SIGIO" \in sigs /\ ~blocked /\ ~Ended
    /\ sigs' = sigs \ {"SIGIO"} /\ input_ready' = TRUE /\ pc' = Awake
    /\ UNCHANGED <<version, keys, typed, blocked, timer_expired, finished, sprite>>

on_timer ==
    /\ "SIGUSR1" \in sigs /\ ~Ended
    /\ sigs' = sigs \ {"SIGUSR1"} /\ timer_expired' = TRUE /\ pc' = Awake
    /\ UNCHANGED <<version, keys, typed, blocked, input_ready, finished, sprite>>
------------------------------------------------------------------------------
(* main() *)

\* The flag is reset before the keys are read; what the user moved the sprite by
\* and it has not moved yet is forgotten.
CheckInput ==
    /\ pc = "input"
    /\ input_ready' = FALSE
    /\ IF input_ready
       THEN /\ pc' = "read"
            /\ user_row_adjust' = 0
            /\ blocked' = (version = "counter")
       ELSE /\ pc' = IF version = "demo" THEN "timer" ELSE "pause"
            /\ UNCHANGED <<user_row_adjust, blocked>>
    /\ UNCHANGED <<version, keys, typed, sigs, timer_expired, finished, row, col>>

\* Mutant: one key is read for each signal, which may stand for several keys.
ReadKey_one ==
    /\ pc = "read" /\ keys # <<>> /\ keys' = Tail(keys)
    /\ finished' = (finished \/ Head(keys) = "q")
    /\ pc' = IF version = "demo" THEN "timer" ELSE "unblock"
    /\ UNCHANGED <<version, typed, sigs, blocked, flags, sprite>>

\* A key that follows a 'q' is read too, and dropped.
ReadKey ==
    /\ pc = "read" /\ keys # <<>> /\ keys' = Tail(keys)
    /\ IF finished
       THEN /\ pc' = IF version = "demo" THEN "timer" ELSE "unblock"
            /\ UNCHANGED <<finished, user_row_adjust>>
       ELSE /\ finished' = (Head(keys) = "q")
            /\ user_row_adjust' = user_row_adjust + (IF version = "counter" THEN 0
                                                     ELSE CASE Head(keys) = "d" -> 1
                                                            [] Head(keys) = "u" -> -1
                                                            [] OTHER -> 0)
            /\ UNCHANGED pc
    /\ UNCHANGED <<version, typed, sigs, blocked, flags, row, col>>

ReadNothing ==
    /\ pc = "read" /\ keys = <<>>
    /\ pc' = IF version = "demo" THEN "timer" ELSE "unblock"
    /\ UNCHANGED <<version, keys, typed, sigs, blocked, flags, finished, sprite>>

\* A signal that is pending is delivered before sigprocmask() returns.
Unblock ==
    /\ pc = "unblock" /\ blocked' = FALSE
    /\ pc' = IF finished THEN "exit" ELSE "pause"
    /\ sigs' = sigs \ {"SIGIO"}
    /\ input_ready' = (input_ready \/ "SIGIO" \in sigs)
    /\ UNCHANGED <<version, keys, typed, timer_expired, finished, sprite>>

\* Mutant: the row is not looked at again when the sprite goes one down.
Advance_down ==
    LET r == row + user_row_adjust
        adjusted == IF r < TOP_ROW \/ r > numrows - 1 THEN TOP_ROW ELSE r
    IN IF col < numcols THEN row' = adjusted /\ col' = col + 1
       ELSE row' = adjusted + 1 /\ col' = 1

\* To the right, at the end of a row to the next, and from the last to the first.
Advance ==
    LET r == row + user_row_adjust
        adjusted == IF r < TOP_ROW \/ r > numrows - 1 THEN TOP_ROW ELSE r
    IN IF col < numcols THEN row' = adjusted /\ col' = col + 1
       ELSE /\ row' = IF adjusted < numrows - 1 THEN adjusted + 1 ELSE TOP_ROW
            /\ col' = 1

CheckTimer ==
    /\ pc = "timer" /\ pc' = "pause"
    /\ timer_expired' = FALSE
    /\ IF timer_expired THEN Advance /\ user_row_adjust' = 0 ELSE UNCHANGED sprite
    /\ UNCHANGED <<version, keys, typed, sigs, blocked, input_ready, finished>>

\* A signal that came after the flag was looked at does not end the sleep.
Pause ==
    /\ pc = "pause" /\ pc' = "sleep"
    /\ UNCHANGED <<version, keys, typed, sigs, blocked, flags, finished, sprite>>

main == CheckInput \/ ReadKey \/ ReadNothing \/ Unblock \/ CheckTimer \/ Pause
Next == Type \/ Expire \/ on_input \/ on_timer \/ main

\* The timer is periodic; signals that are pending are delivered.
Spec == /\ Init /\ [][Next]_vars
        /\ WF_vars(main) /\ WF_vars(Expire) /\ WF_vars(on_input) /\ WF_vars(on_timer)
------------------------------------------------------------------------------
(* Properties *)

\* CheckTimer: however the keys move it, the sprite is in the rows between the
\* keys' messages and the bottom row.
InRows == version = "demo" => row \in TOP_ROW .. numrows - 1 /\ col \in 1 .. numcols

\* Not so in the counter if SIGIO comes between the end of the reading and the
\* sleep: the flag is set, and nobody looks at it before the next key.
Overslept == version = "counter" /\ pc = "sleep" /\ input_ready

\* main(): no key stays unread, and the program ends when it has read a 'q'.
Answered == Ended \/ (keys = <<>> /\ ~finished) \/ Overslept
KeysAnswered == []<>Answered
==============================================================================
