-------------------------------- MODULE CpAio --------------------------------
(***************************************************************************)
(* chapter17/cp_aio.c: a file is copied with two buffers: while one is     *)
(* written, an asynchronous read fills the other.  The read's completion   *)
(* raises SIGIO, whose handler sets a flag that main() polls.              *)
(*                                                                         *)
(* A read that is under way may have changed its buffer already.  The byte *)
(* at offset k of the source is the number k + 1.                          *)
(***************************************************************************)
EXTENDS Integers, Sequences

CONSTANTS MaxLength,    \* bytes of the largest source file
          BUFFER_SIZE   \* bytes of a buffer (4096)

AioAssumption == MaxLength \in Nat /\ BUFFER_SIZE \in Nat \ {0}

VARIABLES
    length,     \* of the source file
    pc, i,      \* main(): where it is, the buffer it reads into
    num_bytes_read,
    aio,        \* the request: under way?, its buffer, offset and result
    buf,        \* the two buffers
    sigio,      \* is SIGIO pending?
    input_ready,
    target      \* the target file

vars == <<length, pc, i, num_bytes_read, aio, buf, sigio, input_ready, target>>

Source(from, n) == [k \in 1 .. n |-> from + k]

\* A buffer with n bytes read into it from an offset of the source.
Fill(b, from, n) == [k \in 1 .. BUFFER_SIZE |-> IF k <= n THEN from + k ELSE b[k]]
Least(a, b)     == IF a <= b THEN a ELSE b

Init ==
    /\ length \in 0 .. MaxLength
    /\ pc = "poll" /\ i = 0 /\ num_bytes_read = 0
    /\ aio = [pending |-> TRUE, buf |-> 0, offset |-> 0, result |-> 0]
    /\ buf = [b \in {0, 1} |-> [k \in 1 .. BUFFER_SIZE |-> 0]]
    /\ sigio = FALSE /\ input_ready = FALSE
    /\ target = <<>>
------------------------------------------------------------------------------
(* The asynchronous read and the handler *)

aio_fill ==
    LET n == Least(BUFFER_SIZE, length - aio.offset) IN
    /\ aio.pending
    /\ \/ \* part of the buffer
          /\ n > 1
          /\ buf' = [buf EXCEPT ![aio.buf] = Fill(@, aio.offset, 1)]
          /\ UNCHANGED <<aio, sigio>>
       \/ \* all of it: the request is complete
          /\ buf' = [buf EXCEPT ![aio.buf] = Fill(@, aio.offset, n)]
          /\ aio' = [aio EXCEPT !.pending = FALSE, !.result = n]
          /\ sigio' = TRUE
    /\ UNCHANGED <<length, pc, i, num_bytes_read, input_ready, target>>

\* Blocked nowhere, so it may run between any two statements of main().
on_input ==
    /\ sigio /\ pc # "closed"
    /\ sigio' = FALSE /\ input_ready' = TRUE
    /\ UNCHANGED <<length, pc, i, num_bytes_read, aio, buf, target>>
------------------------------------------------------------------------------
(* main() *)

\* if ( input_ready ) input_ready = 0;
Poll ==
    /\ pc = "poll" /\ input_ready
    /\ input_ready' = FALSE /\ pc' = "return"
    /\ UNCHANGED <<length, i, num_bytes_read, aio, buf, sigio, target>>

\* aio_return(): 0 is the end of the file.
Return ==
    /\ pc = "return"
    /\ num_bytes_read' = aio.result
    /\ pc' = IF aio.result > 0 THEN "read" ELSE "closed"
    /\ UNCHANGED <<length, i, aio, buf, sigio, input_ready, target>>

\* Mutant: the next read goes to the buffer that is to be written.
StartRead_same ==
    /\ pc = "read" /\ pc' = "write"
    /\ i' = 1 - i
    /\ aio' = [pending |-> TRUE, buf |-> i, offset |-> aio.offset + num_bytes_read, result |-> 0]
    /\ UNCHANGED <<length, num_bytes_read, buf, sigio, input_ready, target>>

StartRead ==
    /\ pc = "read" /\ pc' = "write"
    /\ i' = 1 - i
    /\ aio' = [pending |-> TRUE, buf |-> 1 - i, offset |-> aio.offset + num_bytes_read, result |-> 0]
    /\ UNCHANGED <<length, num_bytes_read, buf, sigio, input_ready, target>>

\* writebuf is the buffer of the read before.
Write ==
    /\ pc = "write" /\ pc' = "poll"
    /\ target' = target \o [k \in 1 .. num_bytes_read |-> buf[1 - i][k]]
    /\ UNCHANGED <<length, i, num_bytes_read, aio, buf, sigio, input_ready>>

main == Poll \/ Return \/ StartRead \/ Write

Next == aio_fill \/ on_input \/ main

Spec == Init /\ [][Next]_vars

\* The read comes to its end, the signal is delivered and main() polls on.
FairSpec == Spec /\ WF_vars(aio_fill /\ ~aio'.pending) /\ WF_vars(on_input) /\ WF_vars(main)
------------------------------------------------------------------------------
(* Properties *)

\* No completion is missed between the flag's test, its reset and the start of
\* the next read, and no read overwrites the buffer that a write still needs:
\* the target comes to be a copy of the source.
Copied == pc = "closed" /\ target = Source(0, length)
CopyCompletes == []<>Copied
==============================================================================
