# Verification of the programs of "System Programming in Linux"

The repository holds the programs of a book: some 200 small C programs, one
directory per chapter, and a library (`src/common`) that they share.  Many print
the result of one system call.  About eighty do more: threads, processes and
signal handlers that share a buffer, a file offset, a pipe, a message queue, a
terminal or a flag, and programs that read what others change meanwhile.  Those
are the subject of this directory.  A module models one program, the two or
three that talk to each other, or a group of small programs on a common model
of the kernel; its actions carry the names of the C functions where one action
is one function, and otherwise of what the statements do.

Check a run with `tlc -config <run>.cfg <module>.tla`, the proofs with
`tlapm --threads 2 --stretch 1.3 <module>.tla` for `PthreadProdConsProofs`,
`MCThreadsProofs`, `MCProcessesProofs`, `MCServicesProofs` and `MCUtilitiesProofs`
(up to a quarter of an hour each).
`PROJECT.json` lists runs, mutants (one for each property: a plausible bug that
makes TLC refute it), the source lines of every definition, the hazards and the
findings.


## 1. Inventory

All components but those of the last row are modelled, some in part; section 7
and `PROJECT.json` say what is left out.

| component | state | operations | interaction | what is hard | what makes it correct |
|---|---|---|---|---|---|
| `chapter16/pthread_prodcons.c` | ring, three mutexes, two condition variables, two counters of threads | `producer`, `consumer`, `add_buffer`, `get_buffer`, `main` | shared memory | a counter read under the wrong mutex, signals nobody waits for, spurious wakeups, the end of the program | FIFO without loss; only the last producer drains; everybody terminates |
| `chapter12/shm_producer.c`, `shm_consumer.c` | shared object: semaphores, `front`, `rear`, slots | `add_next`, `get_next`, initialisation, `cleanup` | shared memory between processes | death inside a critical section, a producer that attaches too early | FIFO for every producer; a slot is never promised twice |
| `chapter12/namedsem_demo.c`, `unnamedsem_demo.c` | a semaphore, a counter or a file | `WAIT`, `POST`, parent and child loops | semaphore | a child killed with the semaphore taken | no section is parted; the parent ends |
| `chapter16/pthread_bcast_demo.c` | `count`, two mutexes, a condition variable | `f`, twice through a barrier | shared memory | a count read and written under different mutexes, an `if` where POSIX wants a `while` | nobody passes early, everybody passes |
| `chapter16/threaded_progressbar.c` | the fraction completed, each thread's part | `long_running_task`, `refresh_progressbar` | shared memory, SIGALRM | unlocked reads of the fraction, threads that overshoot it | the parts add up to the whole |
| `chapter16/pthread_rwlock_demo.c` | an array of two-field items, a reader/writer lock, a barrier | `reader`, `writer`, `sighandler` | shared memory | starvation of writers, half-written items | readers see snapshots, writers get their turn |
| `chapter16/vmem_usage.c`, `chapter15/pthread_create_demo2.c` | array, partial sums, barrier | `sum_reduce`, `compute_sum`, `add_array` | shared memory | rounds without a lock; odd sizes, more threads than numbers | the sum of the array |
| `chapter16/recursive_mutex_demo.c` | a count, a mutex that is locked again by its owner | `up`, `thread_routine` | shared memory | the lock count | whole turns, no self-deadlock |
| `chapter11/sync_io_demo.c` | one open file shared by parent and child | `produce_data`, `main`, `usr_handler` | SIGUSR1/2, shared file offset | signal before `pause()`, two users of one offset | turns; all is printed once |
| `chapter12/ulogger.c`, `ulogger_client.c` | message queue, `users[]`, the screen | `msg_handler`, `cleanup`, drawing loop | queue, one-shot notification, SIGUPDATE | notification lost between drain and re-arming; handler in the middle of the drawing loop | never deaf; order kept; the screen catches up |
| `chapter14/upcased.c`, `upcase.c` | public FIFO, two private FIFOs per client, children | daemon, `process_client`, client, all handlers | FIFOs, SIGCHLD, SIGPIPE | opens that wait for each other, clients or children that die anywhere, stale FIFO names | answers complete and in order, no FIFO or zombie left, sessions end |
| `chapter15/threaded_upcased.c` | the same, threads instead of children | `process_client`, `sighandler`, the accepting loop | FIFOs, signals, one locale per process | two daemons on one FIFO, `setlocale` under another thread | as above, in the client's locale |
| `chapter14/spl_calc_server.c`, `spl_calc_client.c` | public FIFO, one private FIFO per client | iterative server, tries and sleeps | FIFOs, signals | a client that is gone, or opens too late | the server comes to every message |
| chapter 8 (22 programs) | mask, pending signals, handler frames, flags | handlers, `sigsuspend`, `sigwait`, `raise` | signals from outside | a signal between test and sleep, nested handlers, flags of `sigaction` | no signal uncounted, the programs end |
| chapter 9: alarms, sleeps, POSIX timers, progress bars | timers, the bar | handlers, the interrupted loops | SIGALRM, SIGRTMIN, SIGINT | overruns, interrupted sleeps, drawing while another erases | counts add up, no sleep is cut short |
| `chapter09/watchfiles.c` | `prevsize`, `stable_cnt`, `stopflag`, the timer | `update_stats`, `sig_handler`, `main` | SIGUSR1 from a timer | flag tested before a blocking read; arrays freed under the handler | stops when quiet |
| chapter 11: waits, `spl_sh`, `fork_demo3`; chapter 13: pipes, FIFOs; `chapter17/select_demo.c` | processes, pipes, descriptors | `fork`, `exec`, `wait*`, `read`, `write`, `close` | pipes, FIFOs, statuses, signals | a write end kept open, a stop taken for an end, death by SIGPIPE | all that is written is read, each status is told, all end |
| `chapter11/sighandler_wait_demo.c` | children, the pending SIGCHLD, `sigchld_count` | `handle_sigchld`, `main` | SIGCHLD | signals that do not queue, stale `siginfo` | all children reaped, none counted too early |
| `chapter17/cp_aio.c`, `aio_write_demo.c` | buffers, the request, a flag | handlers, `main` | asynchronous I/O, SIGIO | buffer reused while written, a completion missed, short writes | the target is the source |
| `chapter17/sigio_demo.c`, `sigio_counter.c` | the keys typed, flags, the sprite | `on_input`, `on_timer`, `main` | SIGIO, SIGALRM | SIGIO between test and `pause()` | every key is answered |
| `chapter05/spl_last.c` | the file offset, the list of open logouts | `get_prev_utrec`, `save_ut_to_list`, `delete_utnode`, `erase_utlist`, `main` | none | reading backwards; sessions across a crash | each login paired with its own logout |
| `common/hash.c` | the table | `init_hash`, `insert_hash`, `rehash`, `findloc_hash`, `is_in_hash` | used by `spl_du2`, `spl_top` | collisions, wrap-round, growth | it is a set; searches stop |
| `chapter07/spl_du1.c`, `spl_du2.c`, `spl_pwd.c` | level sums, visited table; the path so far | `file_usage`, `get_filename`, `main` | files removed, directories moved | identities that coincide, sums of a level that must be reset | sums of what is below; a path the directory had |
| `chapter10/spl_ps.c`, `ancestors.c`, `common/ps_utils.c` | the fields of one process | reading `/proc`, walking to init | processes come and go | fields left from the process before | every process once; the walk goes up |
| `chapter19/spl_top.c`, `top_utils.c` | process list, CPU times, sorting, scrolling, the screen | `loadprocs`, `print_procs`, keys, signals | processes come and go | `errno` left set, a process that goes between two reads | misses nobody, no tick twice, the screen shows the table |
| `chapter19/sprite.c`, `sprite_curses.c`; `chapter18/spl_stty.c` | position, direction, window, terminal settings | `on_boundary`, `on_resize`, `cleanup`; `set_switch`, `set_var`, `show_all` | SIGWINCH, signals | resize between reading and use, a signal before the settings are saved; flags of several bits | stays in the window, terminal restored, settings read back |
| the rest of chapters 1-7, 10, 12, 15, 17-19, the conversions of `common`, `limits_and_standards`, `opt-processing`, `makefile_tutorial` | none between steps | one system call or one parse, printed | none | nothing a model checker reaches | not modelled |


## 2. Modules

| module | models | extends / instantiates |
|---|---|---|
| `BoundedBuffer` | the abstract FIFO buffer that both producer-consumer programs implement | |
| `PthreadProdCons` | `pthread_prodcons.c`, statement by statement between lock operations | instantiates `BoundedBuffer` |
| `PthreadProdConsProofs` | theorems about it | extends `PthreadProdCons` |
| `ShmProdCons` | `shm_producer.c`, `shm_consumer.c`, `shm_prodcons.h` | instantiates `BoundedBuffer` |
| `SemDemos` | the two semaphore programs of chapter 12 | |
| `BcastBarrier`, `ThreadedProgressBar`, `RwlockDemo`, `VmemUsage`, `RecursiveMutex` | the other programs of chapter 16 | `RwlockDemo`, `VmemUsage` extend `Partition` |
| `MCThreadsProofs` | theorems about the programs of `MCThreads`; lemmas on induction and finite sums | extends `MCThreads` |
| `MCProcessesProofs` | theorems about `ShmProdCons`, then about `SyncIO`, `ULogger`, `SemDemos` | extends `MCProcesses` |
| `MCServicesProofs` | theorems about the three services | extends `MCServices` |
| `MCUtilitiesProofs` | theorems about `Watchfiles`, `SighandlerWait`, `Sprite`, `SigioDemo`, `HashTable`, `SplLast` | extends `MCUtilities` |
| `SumThreads` | `pthread_create_demo2.c` | extends `Partition` |
| `Partition` | how an array is shared out between threads | |
| `SyncIO`, `ULogger` | the programs of several processes | |
| `Upcase`, `ThreadedUpcase`, `SplCalc` | the three services | `ThreadedUpcase` extends `Upcase` |
| `SignalPrograms` | one process and its signals as the kernel sees them; the programs of chapters 8 and 9 as data for it | |
| `PipePrograms` | processes that fork, wait, and share pipes; the programs of chapters 11, 13 and 17 as data for it | |
| `SplLast`, `HashTable`, `DiskUsage`, `SplPwd` | programs of one thread on data, the last two while the data change | |
| `Watchfiles`, `SighandlerWait`, `CpAio`, `AioWrite`, `SigioDemo` | programs of one thread with signal handlers | |
| `ProcFs` | the kernel's table of processes | |
| `PsTools`, `SplTop` | the programs that read it | extend `ProcFs` |
| `Sprite`, `SplStty` | the programs on a terminal | |
| `MCPthreadProdCons` | the instance for TLC of `PthreadProdCons` | |
| `MCThreads`, `MCProcesses`, `MCServices`, `MCSignals`, `MCUtilities` | instances of several independent programs in one run | |

The last five declare the variables of all their modules and a variable
`program` (`prog`).  `Init` chooses the program; every step is a step of that
program and leaves the other variables alone, and the inputs of the programs
that do not run are fixed.  A property reads `program = "x" => P`, and a mutant
changes the module of one program.  The state graph is the disjoint union of the
programs' graphs, so this shows what separate runs would.  The fairness
conditions of different programs are joined in one `WF` whose disjuncts are never
enabled together.

### How the code is read

* **Grain.**  A step is one system call, one operation on a mutex, condition
  variable, semaphore, barrier or shared variable, or the code between two of
  these if it touches only what the thread owns.  `x--` on a counter that others
  read is a load and a store.
* **Signal handlers** run in the thread of `main()`: no action of `main()` is
  enabled while a handler runs.  A standard signal does not queue.  A handler
  ends a blocking call unless `SA_RESTART` is set.
* **Processes that die** take effect at once on what the kernel keeps for them:
  descriptors, children's parents, the readers and writers of a FIFO.
* **Data** is reduced to what the properties tell apart: a message is its
  sender, a byte its offset, a chunk its number, a file a sequence of these.
* **Programs as data.**  The small programs of chapters 8, 9, 11 and 13 differ in
  the order of a few system calls, not in what the calls do.  Each is a sequence
  of statements, and the first part of `SignalPrograms` or `PipePrograms` says what a
  statement does;
  a jump is a number, as is a handler's place in the sequence of its signal.

### Module by module

`PthreadProdCons`.  `pc[t]` is the place of thread `t`; `buf_mutex`,
`prodcount_mutex` and `conscount_mutex` hold their owner; a thread in
`pthread_cond_wait` has `pc = "wait"` (which condition variable follows from its
kind) and goes on at `"relock"`.  `Signal` wakes one waiter, any; a constant
allows spurious wakeups.  The counter of the last producer's drain loop and the
consumers' test of `producer_count`, which is under another mutex than its writers,
read the variable as it is then.  The test and the `pthread_cond_wait()` after it are
two steps: in between the last producer may count itself out and signal, and the
consumer sleeps after that signal.

`ShmProdCons`.  `shm` is the content of the object.  A fresh object is full of
zeroes and its semaphores therefore zero.  `Kill` ends a process anywhere; the
consumer's handler unlinks the name.  An object without a name lives on for those
who have attached.  A consumer is started once: a name left behind
by an earlier run is not modelled (the code would refuse or reuse it).

`SemDemos`.  A line of the named program is longer than stdio's buffer and takes
several writes; the addition of the unnamed one is a load and a store.  The child
may be killed anywhere.

`SyncIO`.  `fd` is the open file description that parent and child share.
Signals arrive anywhere.  The ghost `log.lost` notes one that came to a process not yet in
`pause()`; the turns hold whether or not, and the two sleep for ever only after one.

`ULogger`.  `mq.registered` is the one-shot request for a signal.  `mq_send`
raises it only on an empty queue and consumes the request.  The screen is the set
of the users drawn since it was last cleared.  Clients send at any time.  The ghost
`log.early` notes that the queue was not empty when the logger first registered
(line 209): a message sent since `mq_open()`, or left by an earlier logger.  It is
then deaf, since the notification needs an empty queue.

`Upcase`.  A blocking `open()` of a FIFO is two steps, "I am here" and "the other
side is there too"; a non-blocking one for writing fails without a reader.
The daemon may be started `MaxStarts` times; a client remembers the incarnation
whose FIFO it opened, since a name that is created anew is another FIFO.

`ThreadedUpcase` takes the steps of clients and servers from `Upcase` and adds
the daemons: several may run at once and read one public FIFO, since
a name that exists is tolerated; `converted` records the locale each chunk was
converted in.  `SplCalc`: one
server serves the clients in turn; `private` is what their FIFOs hold.  A client
makes its FIFO, then installs its handlers, then opens the server's.  A signal before
the second kills it and the FIFO stays (`"abandoned"`); one after it removes the FIFO
and, unless the client was in a call on it, lets it go on without.

`SignalPrograms`.  `frames` is the stack of `main()` and the handlers that have
interrupted it, each with its program, its place, the mask to restore and whether
it sleeps.  A blocking statement is two steps, entering and waking, so that a
signal may come just before the sleep.  `timer` counts expirations, and those that
have not been delivered.  The `timer_settime()` of a stop handler also clears the
overruns that the interrupted handler has still to ask for (`cleared`).

`PipePrograms`.  A process has a program, a place, descriptors (a set of pipe ends),
a status and what it has made; `waited` is what the parents were told.  Programs
that exec drop their handlers; `fifomonitor.c` does not, and its `clean_up()` runs
wherever its loop is.

`BcastBarrier`, `ThreadedProgressBar`, `RwlockDemo`, `VmemUsage`, `SumThreads`,
`RecursiveMutex`.  One action per
statement between lock operations.  The barrier's test of `count`, which another
mutex guards than the decrement, and the wait are two steps.  Work in the progress bar is counted in units
of `1/FULL`.  The reader/writer lock prefers writers when the attribute of lines
323-335 is set, as glibc does.  `SumOfArray` speaks of `data`, the array that
the threads add up.  `frames` counts a thread's open calls of `up()`.

`SplLast`.  A record is its place in the file, which is also its time; an
offset counts records.  The list of logouts is a sequence of places.
`last_boot_time` has no initial value in the code: any is allowed.

`HashTable`.  Words have `WORD` bits instead of 64, so the multiplication
wraps round for small items; `Hash_Constant` is the same fraction of the largest word.

`DiskUsage`.  The tree is any tree of up to `MaxNodes` nodes with any sharing of
identities; `walk` is what `nftw()` has still to report, in the order it does.  Files
are removed before or after they are reported, and `st_nlink` follows.
`SplPwd`.  Directories have an inode number and a device, one may be mounted, one
closed; others move them while the program walks.

`Watchfiles`.  The `int c` of `main()` is kept as a number: `read()` replaces its
lowest byte (little-endian).  Files change or vanish at any moment.  `frames` is the
stack of handlers: `sig_handler()` frees the arrays in one step and raises SIGTERM in
another, with the timer still armed; an update in between (`StatFreed`) uses what is
freed, and a second signal frees it again (`freed` counts).

`SighandlerWait`.  `news` is a change of a child (stopped, continued) that no
`waitpid()` has reported.  The handler unblocks SIGCHLD just before it returns;
what could nest there is taken to run after it.

`CpAio`, `AioWrite`.  The kernel may fill part of the buffer before the read
completes, and a write may take fewer bytes than it was given, or fail.
`SigioDemo`.  `sigs` is what is pending.  Both SIGIO programs of chapter 17 are in it.

`ProcFs`.  Processes fork, use the processor, end, become zombies, are reaped and
lose their parents, at any moment; a process number is used once.  `SplTop` reads
a process in three steps (directory, stat, status), `PsTools` in one per file.

`Sprite`.  Both versions of the program; a turn and a move are a read and a store,
between which `on_resize()` may run; so are asking for the size of the window, storing its
rows and storing its columns.  `SplStty`.  A word of flags is a set of bits;
the tables are those of the source, so that a wrong mask shows.


## 3. Runs

| run | instance | distinct states | shows |
|---|---|---|---|
| `prodcons` | 2 producers, 2 consumers, 2 slots, 3 items; each behaviour has either spurious wakeups or fair scheduling | 218,190 | types, exact counters, only the last producer drains, complete at exit, the FIFO buffer, progress, the end |
| `threads` | 3 threads at the barrier; 3 at the bar, whole = 2 units; 2 readers, 2 writers, 2 items; 1-5 summing threads, 0-5 on up to 5 numbers; a bound of 4 for the recursive mutex | 154,363 | the properties of the six thread programs |
| `processes` | 20 rounds of 20 bytes read by 8; 3 logger clients, 2 places, 2 messages, 3 lines; 2 producers, 2 slots, 3 items, deaths anywhere; 2 turns with the semaphore | 126,203 | the properties of the four groups of processes |
| `services` | 2 clients of each service, one with two chunks, 2 starts, 1 try, 1 message in the FIFO | 399,317 | the three services, their daemons and clients signalled, restarted, run twice at once |
| `signals` | every program with 2 signals from outside, 2 expirations of each timer, all sets of `sigaction` flags that matter where they are arguments; pipes of 3 items, 2 lines typed, 3 signals | 661,470 | the programs of chapters 8, 9, 11 and 13, and `select_demo` |
| `utilities` | all wtmp files of up to 4 records on 2 lines; 6 numbers in a table of 3 slots; all trees of up to 5 files, depth 4; 4 directories, one move; 4 processes of which 2 events change; windows of 3x3 and 5x4, 2 events; 2 commands to the terminal; 2 watched files; 3 children, 2 stops; files of up to 5 bytes by 2, lines of up to 5; 2 keys | 358,759 | the properties of the thirteen programs of one thread |
| `bcast_spurious`, `shm_early`, `syncio_race`, `upcase_stale`, `watchfiles_q`, `last_lines` | small | up to 8,700 | section 6 |

### What the properties say

* `ImplementsBoundedBuffer`: seen through `Contents`, the occupied part of the
  ring, the program is `BoundedBuffer`: no item is lost, duplicated or reordered,
  nobody leaves while something may still arrive.  `KeepsMoving` is that module's
  fairness.
* `CompleteAtExit`, `CountsExact`, `LastProducerDrains`, `MainExits`: the end of
  the thread program.  `SlotsConserved`: semaphores against the processes in
  between, dead ones too.
* `BarriersHold`, `AllThreadsEnd`: the two barriers and the recursive mutex.
  `WorkAccounted`: the parts of the bar, and how far it may be overdrawn.
  `SnapshotWhileReading`, `WritersNotStarved`: the lock.  `SumOfArray`: both sums,
  with the absence of data races between rounds.
* `OrderKept`, `ScreenCatchesUp`, `EndsInTime`: the shared file, the logger, the
  semaphores, the ring in shared memory.
* `OutputIsConverted`, `LocaleOfAClientServed`, `NoPrivateFifoLeft`,
  `SessionsEnd`, `NoZombieStays`, `MessagesHandled`: the services.
* `SignalsCounted`, `BarDrawnRight`, `OverrunsAddUp`, `NothingCutShort`,
  `ProgramsEnd`: signals and timers.  `PipesDeliver`, `StatusesTold`: pipes and
  children; `PipesDeliver` compares what comes out with what each process made.
* `SessionsMatched`: each line printed against a definition that
  looks forward in the file.  `IsTheSet`: the table against the set of items.
  `TreesWalked`: the sums against those of the subtree, the path against those the
  directory has had.  `ProcessesListed`: the lists against the kernel's table.
  `ScreensRight`: what is shown against what was asked for.  `HandlersSafe`,
  `EndsInTime`, `CopyCompletes`: the programs with handlers, what these may find
  half done, and their flags.

A property of the collective runs is a conjunction of properties of the modules,
where each is stated and explained.

`CHECK_DEADLOCK FALSE` stands where the programs end by themselves or may be
stopped by a death.  The producer-consumer threads have
an action for their end that stutters, and are checked for deadlock.

### Bounds and why they are enough

Two producers and two consumers are the least for which the order of exits, the
drain by the last producer and the overtaking of a woken thread matter; two slots
tell a full ring from an empty one and let the indices wrap, one slot makes
everybody wait.  Three threads at a barrier: one waits, one arrives last, one
slips in between.  Five threads in the sum give odd and even rounds, and more
threads than numbers.  Three
clients for two places overflow the list; two uppercase clients end together, so
that one SIGCHLD stands for two.  Four records hold two sessions of a line with a
shutdown in between; three slots grow twice and wrap.  `MAXTRIES = 1` for 5 tries,
as only "some" and "none" left differ.  Two signals are the least that coalesce,
interrupt each other's handlers, and come both before and after a test.  A pipe
of three items is filled by one process and drained by another within a program.
Trees of five nodes have two levels with siblings on both and two links
to one file.  Four processes of which two change are one that comes and one that
goes during a load; one has a space in its name.  Windows of 3x3 and 5x4: the
lower has the corners in the rows the sprite starts in.  Counters that are only
compared with a
limit stop there (`OneMore` in `Watchfiles`).  `MaxItems`, `MaxStarts`,
`MaxChanges`, `MaxStops`, `MaxRecords`, `MaxLength`, `MaxEvents`, `MaxSent`,
`MaxFired`, `MaxTyped`, `MaxKilled`, `MaxCommands`, `MaxKeys` and `MaxMoves` bound
what the environment may do; `Reach` leaves off following a sprite that is lost.


## 4. Fairness

* Threads and processes: weak fairness for each (`WF(producer(p))`, ...): the
  scheduler runs whoever can run.  Nothing is assumed about who gets a mutex.
* `ShmProdCons` has strong fairness: a process that waits on a semaphore is not
  passed over for ever (Linux wakes waiters of a futex in order).  Nothing
  forces a producer to start.
* `Watchfiles`: the timer ticks, its signal is delivered, and `main()` has strong
  fairness since the handler takes far less than the interval between ticks.
  Nobody has to press a key.
* `SighandlerWait`: children that are not stopped end.  The code's other kind,
  which pauses until it is killed, would never end by itself.
* `CpAio`, `AioWrite`: an asynchronous request completes, its signal is delivered.
* `SignalPrograms`: signals that are pending and not blocked are delivered, armed
  timers expire.  `PipePrograms`: every process runs.  `SigioDemo`: the timer of
  `sigio_demo.c` expires.
* No signal from outside, death, start of a client, key or change of a file is
  ever assumed to happen.


## 5. Proofs

Every theorem is for all values of the constants that the `ASSUME` of its module
admits: any number of threads, processes or clients, any sizes, bounds and rounds.
Those of the collective modules (`MCThreads`, `MCProcesses`, `MCServices`, `MCUtilities`) are about
the specifications that the runs check, and say for all instances what the runs
show on one.

| theorem | property | needs |
|---|---|---|
| `TypeCorrect`, `CountersAreExact`, `OnlyLastDrains` | `TypeOK`, `CountsExact`, `LastProducerDrains` of `PthreadProdCons` | |
| `CompleteWhenExited` | `CompleteAtExit` | |
| `Refinement` | `ImplementsBoundedBuffer` | |
| `BarriersKept` | `BarriersHold`: condition-variable barrier, recursive mutex | |
| `SnapshotKept` | `SnapshotWhileReading` | |
| `WorkIsAccounted` | `WorkAccounted`: the progress bar, its report, the overdraft | |
| `ArraysAreSummed` | `SumOfArray`: both parallel sums, and no data race in the reduction | |
| `SlotsKept`, `ShmRefinement` | `SlotsConserved`, `ImplementsBoundedBuffer` of `MCProcesses` | `~AttachEarly` |
| `ReadAsWritten` | `ReceivedInOrder` of `ShmProdCons` | `~AttachEarly` |
| `OrderIsKept` | `OrderKept`: shared file, logger, semaphores | |
| `TypesKept` | `TypeOK` of `MCProcesses` | `~AttachEarly` |
| `OutputConverted`, `FifosRemoved`, `LocaleServed` | `OutputIsConverted`, `NoPrivateFifoLeft`, `LocaleOfAClientServed` | |
| `ProgramsWithHandlers` | `HandlersSafe`: watcher, waiting handler, sprites | |
| `TableIsTheSet` | `IsTheSet`: the hash table | |
| `SessionsAreMatched` | `SessionsMatched`: the login history | |

The one hypothesis is a constant that keeps an environment the code does not
survive out of the run `processes`; it is not an assumption that the code
discharges.  Without it the statements are false: `shm_early` refutes
`ReceivedInOrder` when a producer attaches before `INITSEM` is done.  Where the code
has a fault that a property meets, the exception is in the property: that of
`sync_io_demo.c` says that the two sleep for ever only if a signal was lost, that of the
logger what becomes of one that is deaf, that of `watchfiles.c` that freed arrays are
used only while a `sig_handler()` is between its two statements.

Each proof has the same form.  An inductive invariant stands at the end of the
program's module and was an invariant of a TLC run before it was proved.
One lemma is for the initial states, one for each action; under an action's lemma
there is a step for each part of the invariant that the action can disturb.

**`PthreadProdConsProofs`.**  `IndInv == TypeOK /\ LocksHeld /\ Tested /\ LoopCounter /\
Loaded /\ CountsExact`.  That `add_buffer` keeps `buf_count` in range needs that the
test before it still holds (`Tested`), which needs that whoever is between lock and
unlock owns the mutex (`LocksHeld`).  That `producer_count` stays exact needs that the
value loaded by `--` is still there at the store (`Loaded`).  For the end of the
program and the refinement `IndInvExit` adds that `rear` is `buf_count` slots beyond `front` (`RingClosed`: what
makes an operation on the ring one on the sequence `Contents`), that an owned mutex
is owned from inside (`OwnersInside`), that the buffer is empty once a consumer has
decided to leave (`LeftEmpty`), that what is delivered is what was put (`Delivery`),
and that `main()` has joined all (`JoinedAll`).  The refinement maps the
two critical sections to `Put` and `Get`, the decisions to leave to the
abstract ones, and everything else to a stutter.

**`MCThreadsProofs`.**  `BarrierInv`: the count is the number of threads that have
counted themselves in and not out; a thread beyond a wait is proof that all have
arrived.  `MutexInv`: the lock count is as often as its owner has calls open, less the
lock the innermost is about to take.  `RwlockInv`: the lock is held by whoever is
between lock and unlock; only the item at which a writer stands between its two
stores names one writer and has the time of another; a reader remembers only what is
still there.
`BarInv`: the fraction is the sum, over the threads, of what a thread has recorded and
the work that it has added and not yet recorded (`Counted`); without the second part
the sum would be wrong from the addition until after the sleep.  What lies beyond the
whole is there only while one thread stands between addition and clamp, is that
thread's piece of work at most, and that is how far a bar drawn without the mutex can
be overdrawn.
`SumInv`: a thread's sum is that of the elements before its place less that of the elements
before its share, so that the shares, which tile the array, add up as a telescope.
`VmemInv`: at any moment there is one pair of a half and an odd element such that
each thread is in that round or at its end (`InRound`), and the cells that have not
been taken over (`Counts`) add up to the array; a thread that has not
stored its first sum counts with its share (`Part`).  `NoDataRace` follows from `InRound`:
two threads of one round add from cells at least `half`, to cells below.

The constants of these three: a finite set of threads that is not empty, pieces of work that
are natural numbers, arrays that are sequences of numbers.

*Induction and sums* (here and, for sequences, in `MCUtilitiesProofs`).  The library's induction theorems cannot be
instantiated here by the provers, but its well-foundedness of `<` on the naturals gives a
least element of any non-empty set of naturals (`Least`), and a set in place of the
predicate gives induction as a lemma (`Induct`): what is to be shown for all `n` becomes that
the set of the `n` of which it holds contains 0 and the successors of its members.
With it a fold, a `CHOOSE` of a function with a given recursion, is shown to have one
(`FoldDefined`), and `MapThenFoldSet`, on which the community modules' sums rest, is shown to
satisfy its equation, and the sums to have their laws: one element more, pointwise
addition, a change of one element, two disjoint sets, an interval cut in two.

**`MCProcessesProofs`.**  `ShmInv`: until the consumer is ready the object has what `INITSEM`
has put there (`SettingUp`); the semaphores count the slots less those in the hands of
processes, killed ones included (`SlotsConserved`, `ItemsCounted`); at most one process is between
`WAIT(mutex)` and `POST(mutex)` (`OneInside`); the indices are as far apart as what was
accepted and not yet received is long, an index about to be advanced counting as
advanced (`RingInv`).  A killed process keeps its place for ever, and the
refinement holds all the same.

`IOInv`: the phases of a round of `sync_io_demo.c` (`Turns`), one of which is that of
two processes asleep after a signal was lost, and how far file, offset and output are
in each.  `LoggerInv`: outside the handler the registration for the next message is there
on an empty queue, or its signal is pending, or the logger is deaf (`Hears`); within it
the handler has still to renew the registration (`OneSignal`, `HeardWhileDraining`); a deaf
logger's queue is never empty again and it records nobody (`Deaf`); the queue is the last
part of what was sent, and `users[]` holds messages from before it, in order.
`SemInv`: one holder of the semaphore, and what counter or file holds
besides whole contributions is the holder's.

**`MCServicesProofs`.**  `FlowInv`: for a client and its child that both live, the
chunk the client is at is in exactly one place: not yet written or in the first FIFO
(`Unread`), in the child's buffer (`InHand`), in the second FIFO (`Written`), or copied;
with that the two of them are at places that fit (`Passing`).  When either dies the
second FIFO holds the chunk after those copied, or nothing, which is what keeps the
output a prefix.  A queued message is of a client that waits for a child it has not
got, and no client has two (`Asks`): or `fork()` might give a second child to a
client that is served.  For `spl_calc_client.c` it is enough that each place of a client
says whether its FIFO exists.  The children's and clients' lemmas serve both services.
`ThreadedInv` adds that a message is in the FIFO its
client has opened and in no other, although several daemons may read one, and that a
daemon whose thread is beyond its `setlocale()` is in the locale of a client it serves.

**`MCUtilitiesProofs`.**  `WatchInv`: `main()` frees the arrays after it has disarmed the
timer and with no tick pending; elsewhere they are freed only below or in a frame of
`sig_handler()` that is about to raise SIGTERM, and as each handler's frame lies above
what it interrupts, no statement of `main()` is reached any more.  `WaitInv`: a signal may be older than the state of its
child, but the child of a signal that tells of an end has ended and stays so, which is
why the handler may count by the signal's code.  `StaysInv`: the direction that
`main()` has read is the one that follows from where the sprite is, unless a resize
has come between; a sprite left alone goes clockwise, so that in a corner one turn is
enough.  `TerminalInv`: what is saved are the user's settings, whoever saves them first.
The lemmas are for windows of 3 to 9 rows and 2 to 9 columns; the specification
of the run, and so the theorem, has two sizes of them.

`HashInv`, for `hash.c`: from the slot where the search for an item begins to the one
that holds it no slot is empty (`Reached`), so that a search that stops at an
empty slot has not passed it; the slots in use and the items in them are both
`current_size`, so that no item is there twice, and that is half the table at
most, so that there is an empty slot to stop at.  A search passes every slot once (`ProbeAll`).
`rehash()` keeps all this by an induction over its loop.

`LastInv`, for `spl_last.c`: when the first `Unread` records have still to be
read, the list holds the logouts behind them that no login of their line, boot or
shutdown has taken out (`Open`), oldest first; the two times are those of the
first shutdown and the first boot there; and what is printed is right for
the records read (`RightEnds`) and in order.  The reference `Logouts` of a login looks forward in
the file, and is what `Open` has of its line just when it is read (`OpenLogouts`).
The loop over the list splits it in two by an induction (`PairedIs`).  The file may be of any
length and hold any records; nothing is assumed of their order.

What stays with TLC:

* Liveness (`KeepsMoving`, `MainExits`, `AllThreadsEnd`, `WritersNotStarved`,
  `ScreenCatchesUp`, `EndsInTime`, `SessionsEnd`, `NoZombieStays`, `MessagesHandled`,
  `ProgramsEnd`, `CopyCompletes`): the prover does not reason about fairness and
  `ENABLED`.
* `TreesWalked`, `ProcessesListed`, `ScreensRight` compare with trees, process tables and
  paths that are defined recursively or filtered by `SelectSeq`, which the prover
  cannot expand.
* `SignalsCounted`, `BarDrawnRight`, `OverrunsAddUp`, `NothingCutShort`,
  `PipesDeliver`, `StatusesTold`: the programs are data with fixed places of each
  statement, so that an invariant would be a table of the reachable places of every
  program; exhaustive checking does that better.

## 6. Where code and documentation disagree

Each is a run that ends in a counterexample.

| run | code | says |
|---|---|---|
| `bcast_spurious` | `pthread_bcast_demo.c:53` waits under an `if`: one spurious wakeup passes the barrier early | line 55: "count reached N, so all threads proceed" |
| `shm_early` | `shm_consumer.c:92` sets the indices after the semaphores: an early producer's item is overwritten | `shm_prodcons.h:37`: "To prevent race condition on buffer" |
| `syncio_race` | `sync_io_demo.c:76`: `kill()` then `pause()`; a signal in between is lost and both sleep for ever | lines 21-22: "To prevent deadlock ..." |
| `upcase_stale` | `upcased.c:249` stores `server_pid` only after the first client: a signal before leaves the public FIFO, and no daemon starts again | lines 23-25: "... removing the public FIFO and exiting" |
| `last_lines` | `spl_last.c:349`: the loop goes on after a match, and prints a login once for every later logout of its line | lines 344-346: "the entry closest to the front of the list" |
| `watchfiles_q` | `watchfiles.c:282` compares an `int` of which `read()` set one byte: 'q' is never seen | line 73: "Enter 'q' to quit:" |

Also met, and not given a run of their own:

* `vmem_usage.c:107`: the loop that fills the array ends one element early, so
  the last process is not counted.  The model has it (`get_all_vmsizes`).
* `threaded_progressbar.c:104` reads the fraction between the addition and its
  clamp, and may draw a bar longer than its buffer, by one piece of work at most
  (`OverdrawnByOne`).
* `watchfiles.c:124-128`: `sig_handler()` frees the arrays with the timer armed and
  SIGUSR1 unblocked, so that `update_stats()` may use them freed before the process is
  dead, and a second signal frees them twice (`ArraysInUse`).
* `ulogger.c:124` drains the queue without recording what it reads: of two clients that
  log in at once one is never listed, where line 5 promises the "list of users logged in".
  The model drains likewise (`Drain`); no property says that nobody is dropped.
* `ulogger.c:209`: with a message in the queue at the first `mq_notify()` the logger never
  hears of anything (`Listening`).
* `spl_calc_client.c`: a signal between `mkfifo()` (92) and the last `sigaction()` (106)
  kills the client and leaves its FIFO; so does the exit without a server (114).
* `spl_du2.c:101,149`: when one of two links was reported and then removed, the other has
  an `st_nlink` of 1, is not looked up, and is counted and printed again (`Bereft`).
* `progress_bar1.c:97-98`: a SIGALRM between the erasing and `raise(SIGTERM)` draws the bar
  again, and the process dies with it on the terminal (`BarDrawnRight`).
* `timer_overrun_demo.c:60`: the stop handler's `timer_settime()` clears the overruns that
  the handler it interrupted, before line 51, then counts as none.  The comment at
  13-16 warns of races; `OverrunsAddUp` counts these apart.
* `chapter15/upcase.c:155`: a write to a full public FIFO fails and the client ends without
  `clean_up()`, its FIFOs stay, where lines 25-26 have "added calls to it whenever client
  exits prematurely" (the exit `"full"`, which `NoPrivateFifoLeft` leaves out).
* `spl_top.c:915` compares with the number of all processes, not of those shown: with a
  filter 'F' scrolls visible lines away, where line 27 says "Scrolling has no effect if all
  lines are visible."  `ScreenShowsTable` has that for a table without a filter.
* `spl_top.c`: 'F' and 'B' move by two lines where the comment at 22-24 speaks of the next
  unseen line; the model moves as the code does.
* `sigprocmask_demo3.c` can sleep with a signal that it has not counted, as it
  tests and pauses without a mask; `sigio_counter.c` likewise looks at its flag and
  then pauses (`Overslept`); `alarm_demo3.c` sleeps for ever if SIGALRM comes
  before `pause()`.  In `sigio_demo.c` the timer wakes it, but of the keys typed
  between two ticks only the last 'u' or 'd' moves the sprite.
* `raise_demo.c` can stop without its clean-up, as the handler's raised SIGTSTP
  may be answered by SIGCONT before it is delivered.
* `sprite.c:227-229`: a resize between `ioctl()` and the stores leaves rows and columns of
  an older window in place of the newer.
* `sprite.c:20-21` says the menu's row is never entered; steered in a corner, or
  resized between the reading of a direction and its use, the sprite enters it
  (`StaysInWindow`).  Ended by a signal before it has saved the settings of the
  terminal, it sets them all to zero (`TerminalRestored`).
* `spl_stty.c`: the entry `crtscts` is bit 31, its value a negative `int`, as the
  table's end is; it is neither found nor shown.
* `spl_top.c` divides by the seconds since a refresh that it takes to be 3, and at
  its first load by zero; `errno` that a vanished process left may drop another one
  without memory (`ListsAll`).  A name with a space shifts the fields of a line, so
  that `spl_ps` shows those of the line before (`LinesRight`).
* `spl_du2.c:61` knows a file by the product of inode and device: two files may have
  one key (`Confused`).  `spl_pwd.c` does not check `chdir()`: where it may not go up
  it adds dots until the path is full, and after two moves the path printed may
  never have existed.
* `aio_write_demo.c` writes halves: of a line of odd length half a line too much, of a
  line of one byte nothing.
* `fifosender.c` takes an empty line, or any beginning of "quit", for "quit", and loops at
  the end of its input.  Killing the manager of `select_demo.c` leaves its children.
* `namedsem_demo.c`, `unnamedsem_demo.c`: a child killed with the semaphore taken
  leaves the parent waiting for ever.
* `pthread_create_demo2.c` with no thread prints 0 whatever it read.
* `watchfiles.c`: the report "No changes were detected" may be false (a file that
  vanished is no change), and `strncat` limits what is appended by the length of
  what is there.
* `cp_aio.c:106` takes a failed read for the end of the file.
* `pthread_bcast_demo.c` and `recursive_mutex_demo.c` create mutexes from an
  attribute that is not initialised, the
  thread programs ignore failures of `pthread_create`, `pthread_rwlock_demo.c`
  joins a thread it has detached, `upcase.c` sets a handler with uninitialised
  `sa_flags`.  Their outcome depends on the library and is not modelled; the
  recursive mutex is taken to be what the program asks for.
* `hash.c` with an initial size of one shifts by the whole width of a word, which
  is undefined; no caller does it, and the model's assumption excludes it.


## 7. What the models leave out

* Failing `malloc`, `open`, `fork`, `pthread_create` and the like, where the code
  reports and exits.
* Formatting, option parsing, terminal control, time arithmetic in output.
* The time that `nanosleep()` says remains: `NothingCutShort` says that an interrupted sleep
  is resumed until it is done, not with what.
* `LocaleOfAClientServed` allows the locale of another client that the daemon serves, as the
  code does (one locale for all threads); that a client gets its own is not true and
  not claimed.
* `Upcase`: a client killed between its message and its first open leaves its
  child in `open()` for ever; the behaviour is in the model, no property forbids it.
* `ThreadedUpcase`: clients are not killed (they are in `Upcase`), and
  `pthread_create` does not fail.
* `SignalPrograms`: `kill_demo.c` and `send_sigint.c` send one signal and end.
  `SignalPrograms`: `nanosleep_demo3.c` and the escape sequences.
* `PipePrograms`: the exec programs and most fork programs print and end; a
  second shell job.  `sighandler_wait_demo2.c` is `SighandlerWait` without blocking.
* `ProcFs`: a process number is not used again; `spl_top` does not read
  `/proc/meminfo`, whose lines it prints as they are.
* `SumThreads`: `(t + 1) * array_size` may overflow an `int` for arrays of hundreds
  of millions.
* `shm_consumer_nosem.c`, which does not compile against the header beside it.
* Programs without state between steps: listings of directories, users, file
  status, dates and limits, copies by one loop, the executables of chapter 10, the
  curses and terminal demonstrations, the conversions of numbers and times in
  `common`, whose loops over characters a test reaches.


## 8. Plan

What is left is to prove, in order of importance:

1. `PublicFifoRemoved` of `Upcase` for daemons whose `server_pid` is stored, and that
   zombies raise a signal that is still pending, the safety half of `NoZombieStays`.
2. `ProcessesListed`, with the filter of `PidsInOrder` written as a fold, as those of
   `HashTable` and `SplLast` are.
