----------------------------- MODULE MCProcesses -----------------------------
(***************************************************************************)
(* Instances for TLC of programs of several processes (chapters 11 and     *)
(* 12).  They are independent: a behaviour runs one of them, and the       *)
(* variables of the others stay as they are.                               *)
(***************************************************************************)
EXTENDS Integers, Sequences

CONSTANTS ROUNDS, DATA_LEN, CHUNKSIZE,                         \* SyncIO
          LoggerClients, MAX_USERS, MAXMSG, ROWS,              \* ULogger
          Producers, BUF_SIZE, MaxItems, AttachEarly, MayKill, \* ShmProdCons
          ITERATIONS, CHUNKS                                  \* SemDemos

VARIABLES
    program,
    sync_pc, pending, fd, sync_child, parent, sync_log,
    mq, signals, main, handler, users, screen, logger_client, logger_log,
    shm_pc, alive, name, shm, sent, accepted, received,
    version, sem, count, file, sem_pc, rounds, tmp, killed

Sync   == INSTANCE SyncIO WITH pc <- sync_pc, child <- sync_child, log <- sync_log
Logger == INSTANCE ULogger WITH
              Clients <- LoggerClients, client <- logger_client, log <- logger_log
Shm    == INSTANCE ShmProdCons WITH pc <- shm_pc
Sem    == INSTANCE SemDemos WITH pc <- sem_pc, i <- rounds

ASSUME ProcessesAssumption ==
    /\ Sync!SyncAssumption /\ Logger!ULoggerAssumption /\ Shm!ShmAssumption
    /\ Sem!SemAssumption

sync_vars   == <<sync_pc, pending, fd, sync_child, parent, sync_log>>
logger_vars == <<mq, signals, main, handler, users, screen, logger_client, logger_log>>
shm_vars    == <<shm_pc, alive, name, shm, sent, accepted, received>>
sem_vars    == <<version, sem, count, file, sem_pc, rounds, tmp, killed>>
vars        == <<program, sync_vars, logger_vars, shm_vars, sem_vars>>

Init ==
    /\ program \in {"sync", "logger", "shm", "sem"}
    /\ Sync!Init /\ Logger!Init /\ Shm!Init /\ Sem!Init
    /\ program # "sem" => version = "named"

Run(p, A) == program = p /\ UNCHANGED program /\ A
SyncStep(A)   == Run("sync", A) /\ UNCHANGED <<logger_vars, shm_vars, sem_vars>>
LoggerStep(A) == Run("logger", A) /\ UNCHANGED <<sync_vars, shm_vars, sem_vars>>
ShmStep(A)    == Run("shm", A) /\ UNCHANGED <<sync_vars, logger_vars, sem_vars>>
SemStep(A)    == Run("sem", A) /\ UNCHANGED <<sync_vars, logger_vars, shm_vars>>

Next == SyncStep(Sync!Next) \/ LoggerStep(Logger!Next) \/ ShmStep(Shm!Next) \/ SemStep(Sem!Next)

\* The fairness each module asks for.  Only one program runs, so one formula
\* can stand for an action of each: its disjuncts are never enabled together.
Spec ==
    /\ Init /\ [][Next]_vars
    /\ WF_vars(SyncStep(Sync!produce_data \/ Sync!Pause("child")) \/ LoggerStep(Logger!Logger))
    /\ WF_vars(SyncStep(Sync!main \/ Sync!Pause("parent")) \/ LoggerStep(Logger!msg_handler))
    /\ WF_vars(SyncStep(Sync!usr_handler("child")) \/ SemStep(Sem!main("child")))
    /\ WF_vars(SyncStep(Sync!usr_handler("parent")) \/ SemStep(Sem!main("parent")))
    /\ \A p \in Producers : SF_vars(ShmStep(shm_pc[p] # "start" /\ Shm!Producer(p)))
    /\ SF_vars(ShmStep(Shm!ConsumerStep))
------------------------------------------------------------------------------
(* Properties *)

\* The states of the shared memory and of the logger have their types: users[]
\* never overflows.
TypeOK == Shm!TypeOK /\ (program = "logger" => Logger!TypeOK)

\* shm_producer.c, shm_consumer.c: every slot of the ring is free, filled or in
\* the hands of one process, a dead one included; the mutex likewise.
SlotsConserved == Shm!SlotsConserved

\* The ring in shared memory is a first-in-first-out queue for any number of
\* producers, wherever signals kill producers and the consumer.
ImplementsBoundedBuffer == Shm!ImplementsBoundedBuffer

\* sync_io_demo.c: neither process moves the shared offset between the other's
\* lseek() and the read or write that relies on it; at the parent's exit every
\* byte the child wrote has been printed, once and in order; and the two sleep
\* for ever only if a signal came to one that was not yet in pause().
\* ulogger.c: unless a message was in the queue when it registered, the logger is
\* not deaf outside its handler: the queue is empty and the next message will
\* raise the signal, or the signal is pending; if one was, it never records
\* anyone.  users[] holds messages in the order sent and each once.
\* namedsem_demo.c, unnamedsem_demo.c: no line or addition is parted by another.
OrderKept == /\ program = "sync" => Sync!TurnsTaken /\ Sync!AllPrintedAtExit
                                   /\ Sync!AsleepOnlyIfLost
             /\ program = "logger" => Logger!Listening /\ Logger!RecordedInOrder
             /\ program = "sem" => Sem!SectionsWhole

\* ulogger.c: although the handler clears the screen and extends users[] in the
\* middle of the drawing loop, the users that fit come to be drawn again.
ScreenCatchesUp ==
    []<>(program = "logger" =>
            \/ main.pc = "exited"
            \/ {i \in 1 .. Len(users) : i > Len(users) - ROWS + 2} \subseteq screen)

\* shm_producer.c: unless a process is killed, every item typed is written, and
\* in the end read by the consumer.
\* sync_io_demo.c: the parent comes to its exit, unless a signal comes to a
\* process that is not yet in pause().
\* namedsem_demo.c, unnamedsem_demo.c: the parent ends, unless the child was
\* killed with the semaphore taken.
EndsInTime == /\ Shm!AllReceived
              /\ []<>(/\ program = "sync" => sync_pc["parent"] = "exit" \/ sync_log.lost
                      /\ program = "sem" => Sem!ParentEnded)
==============================================================================
