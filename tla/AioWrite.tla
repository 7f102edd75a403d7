------------------------------- MODULE AioWrite -------------------------------
(***************************************************************************)
(* chapter17/aio_write_demo.c: a line is written to a file by asynchronous *)
(* writes of half its length, the next one started when SIGIO has told of  *)
(* the end of the one before.  The byte at offset k of the buffer and of   *)
(* the memory that follows it is the number k + 1.                         *)
(***************************************************************************)
EXTENDS Integers, Sequences

CONSTANTS BUFFER_SIZE

WriteAssumption == BUFFER_SIZE \in Nat

VARIABLES
    num_bytes_read,
    pc,
    aio,                \* the request: under way?, its offset in the buffer, its result
    sigio, output_ready,
    total_bytes,
    file,
    short               \* ghost: a write failed, or wrote less than it was asked for

vars == <<num_bytes_read, pc, aio, sigio, output_ready, total_bytes, file, short>>

Half == num_bytes_read \div 2

Init ==
    /\ num_bytes_read \in 0 .. BUFFER_SIZE
    /\ pc = "poll" /\ aio = [pending |-> TRUE, buf |-> 0, result |-> 0]
    /\ sigio = FALSE /\ output_ready = FALSE /\ total_bytes = 0 /\ file = <<>> /\ short = FALSE
------------------------------------------------------------------------------
(* The write and the handler *)

\* The disk may be full, or fill up: -1 is a failure.
aio_complete ==
    /\ aio.pending
    /\ \E n \in -1 .. Half :
         /\ file' = file \o [k \in 1 .. n |-> aio.buf + k]
         /\ aio' = [aio EXCEPT !.pending = FALSE, !.result = n]
         /\ short' = (short \/ n < Half)
    /\ sigio' = TRUE
    /\ UNCHANGED <<num_bytes_read, pc, output_ready, total_bytes>>

on_output ==
    /\ sigio /\ pc # "closed" /\ sigio' = FALSE /\ output_ready' = TRUE
    /\ UNCHANGED <<num_bytes_read, pc, aio, total_bytes, file, short>>
------------------------------------------------------------------------------
(* main() *)

Poll ==
    /\ pc = "poll" /\ output_ready
    /\ output_ready' = FALSE /\ pc' = "return"
    /\ UNCHANGED <<num_bytes_read, aio, sigio, total_bytes, file, short>>

\* Mutant: the next write begins where the one before did.
Return_same ==
    /\ pc = "return"
    /\ IF aio.result >= 1
       THEN /\ total_bytes' = total_bytes + aio.result
            /\ IF total_bytes + aio.result < num_bytes_read
               THEN pc' = "poll" /\ aio' = [aio EXCEPT !.pending = TRUE]
               ELSE pc' = "closed" /\ UNCHANGED aio
       ELSE pc' = "closed" /\ UNCHANGED <<aio, total_bytes>>
    /\ UNCHANGED <<num_bytes_read, sigio, output_ready, file, short>>

\* The length asked for stays as it is.
Return ==
    /\ pc = "return"
    /\ IF aio.result >= 1
       THEN /\ total_bytes' = total_bytes + aio.result
            /\ IF total_bytes + aio.result < num_bytes_read
               THEN pc' = "poll" /\ aio' = [aio EXCEPT !.pending = TRUE, !.buf = @ + aio.result]
               ELSE pc' = "closed" /\ UNCHANGED aio
       ELSE pc' = "closed" /\ UNCHANGED <<aio, total_bytes>>
    /\ UNCHANGED <<num_bytes_read, sigio, output_ready, file, short>>

main == Poll \/ Return
Next == aio_complete \/ on_output \/ main

Spec == Init /\ [][Next]_vars /\ WF_vars(aio_complete) /\ WF_vars(on_output) /\ WF_vars(main)
------------------------------------------------------------------------------
(* Properties *)

\* main() comes to close a file that holds the buffer from its beginning, no
\* byte twice, however the writes fall short: all of the line, unless a write
\* failed or the line is of one byte, whose half is 0; of a line of odd length up
\* to half a line too much.
Written ==
    /\ \A k \in DOMAIN file : file[k] = k
    /\ ~short => IF num_bytes_read <= 1 THEN file = <<>>
                 ELSE Len(file) = IF num_bytes_read % 2 = 0 THEN num_bytes_read ELSE 3 * Half

Closed == pc = "closed" /\ Written
WriteCompletes == []<>Closed
==============================================================================
