------------------------- MODULE ThreadedProgressBar -------------------------
(***************************************************************************)
(* chapter16/threaded_progressbar.c: threads add random amounts of work to *)
(* fraction_completed under a mutex until it reaches 1.0, while a signal-  *)
(* handling thread draws the bar, without the mutex, at every SIGALRM.     *)
(* Amounts are counted in units: FULL units are the fraction 1.0.          *)
(***************************************************************************)
EXTENDS Integers, FiniteSets, Functions

CONSTANTS Threads,     \* the NUMTHREADS workers
          FULL,        \* units in the whole computation
          Works,       \* the amounts one pass may draw
          None         \* owner of a free mutex

ProgressAssumption ==
    /\ IsFiniteSet(Threads) /\ Threads # {} /\ None \notin Threads
    /\ FULL \in Nat \ {0} /\ Works \subseteq Nat /\ Works # {}

VARIABLES
    pc, work,               \* of each worker: where it is, its local work
    frac_mutex,
    fraction_completed, computedby,
    spc,                    \* the signal thread: "sigwait", "drawn" or "exit"
    alarm,                  \* "off", "armed", or "pending": SIGALRM blocked
    bar,                    \* how many units the bar last showed
    main                    \* "join", "reported" or "exit"

vars == <<pc, work, frac_mutex, fraction_completed, computedby, spc, alarm, bar, main>>
display == <<spc, alarm, bar, main>>

Init ==
    /\ pc = [t \in Threads |-> "check"] /\ work = [t \in Threads |-> 0]
    /\ frac_mutex = None
    /\ fraction_completed = 0 /\ computedby = [t \in Threads |-> 0]
    /\ spc = "sigwait" /\ alarm = "armed" /\ bar = 0
    /\ main = "join"

\* Once a terminating signal was handled the whole process is gone.
Goto(t, from, to) == spc # "exit" /\ pc[t] = from /\ pc' = [pc EXCEPT ![t] = to]
------------------------------------------------------------------------------
(* long_running_task() *)

\* while ( fraction_completed < 1.0 ), read without the mutex.
Check(t) ==
    /\ Goto(t, "check", IF fraction_completed < FULL THEN "lock" ELSE "done")
    /\ UNCHANGED <<work, frac_mutex, fraction_completed, computedby, display>>

Lock(t) ==
    /\ Goto(t, "lock", "add")
    /\ frac_mutex = None /\ frac_mutex' = t
    /\ UNCHANGED <<work, fraction_completed, computedby, display>>

\* fraction_completed += work: the sum may exceed 1.0 until the next step.
Add(t) ==
    /\ Goto(t, "add", "clamp")
    /\ \E w \in Works :
         /\ work' = [work EXCEPT ![t] = w]
         /\ fraction_completed' = fraction_completed + w
    /\ UNCHANGED <<frac_mutex, computedby, display>>

\* Mutant: the excess is cut from the total but not from this thread's work.
ClampTotalOnly(t) ==
    /\ Goto(t, "clamp", "unlock")
    /\ fraction_completed' = IF fraction_completed > FULL THEN FULL ELSE fraction_completed
    /\ UNCHANGED <<work, frac_mutex, computedby, display>>

Clamp(t) ==
    LET excess == IF fraction_completed > FULL THEN fraction_completed - FULL ELSE 0 IN
    /\ Goto(t, "clamp", "unlock")
    /\ work' = [work EXCEPT ![t] = @ - excess]
    /\ fraction_completed' = fraction_completed - excess
    /\ UNCHANGED <<frac_mutex, computedby, display>>

\* Mutant: the mutex is kept by the thread that completes the work.
UnlockUnlessFull(t) ==
    /\ Goto(t, "unlock", "sleep")
    /\ frac_mutex' = IF fraction_completed = FULL THEN frac_mutex ELSE None
    /\ UNCHANGED <<work, fraction_completed, computedby, display>>

Unlock(t) ==
    /\ Goto(t, "unlock", "sleep")
    /\ frac_mutex' = None
    /\ UNCHANGED <<work, fraction_completed, computedby, display>>

\* Mutant: the thread's share is overwritten.
RecordOver(t) ==
    /\ Goto(t, "sleep", "check")
    /\ computedby' = [computedby EXCEPT ![t] = work[t]]
    /\ UNCHANGED <<work, frac_mutex, fraction_completed, display>>

\* After the sleep: computedby[td.id] += work.
Record(t) ==
    /\ Goto(t, "sleep", "check")
    /\ computedby' = [computedby EXCEPT ![t] = @ + work[t]]
    /\ UNCHANGED <<work, frac_mutex, fraction_completed, display>>

long_running_task(t) ==
    Check(t) \/ Lock(t) \/ Add(t) \/ Clamp(t) \/ Unlock(t) \/ Record(t)
------------------------------------------------------------------------------
(* sighandler() and refresh_progressbar() *)

workers == <<pc, work, frac_mutex, fraction_completed, computedby, main>>

Ring == alarm = "armed" /\ alarm' = "pending" /\ UNCHANGED <<workers, spc, bar>>

\* The fraction is read without the mutex, then the timer is set again.
refresh_progressbar ==
    /\ main # "exit"
    /\ \/ spc = "sigwait" /\ alarm = "pending"
          /\ spc' = "drawn" /\ alarm' = "off" /\ bar' = fraction_completed
       \/ spc = "drawn" /\ spc' = "sigwait" /\ alarm' = "armed" /\ UNCHANGED bar
    /\ UNCHANGED workers

\* SIGINT, SIGTERM and the like: cancel the workers and exit.
Quit ==
    /\ spc = "sigwait" /\ main # "exit"
    /\ spc' = "exit"
    /\ UNCHANGED <<workers, alarm, bar>>

\* main(): alarm(0) and the report once every worker is joined, then exit.
Report ==
    /\ spc # "exit"
    /\ \/ main = "join" /\ (\A t \in Threads : pc[t] = "done")
          /\ main' = "reported" /\ alarm' = "off"
       \/ main = "reported" /\ main' = "exit" /\ UNCHANGED alarm
    /\ UNCHANGED <<pc, work, frac_mutex, fraction_completed, computedby, spc, bar>>

Next ==
    \/ \E t \in Threads : long_running_task(t)
    \/ Ring \/ refresh_progressbar \/ Quit \/ Report

Spec == Init /\ [][Next]_vars

FairSpec ==
    /\ Spec
    /\ \A t \in Threads : WF_vars(long_running_task(t))
    /\ WF_vars(Report)
------------------------------------------------------------------------------
(* Properties *)

\* No work is lost or counted twice between a thread's draw, the clamp, the
\* sleep and the unlocked addition to its own share: outside the critical
\* section the fraction is what the threads have recorded or still carry.
WorkAccounted ==
    frac_mutex = None =>
        fraction_completed =
            SumFunction([t \in Threads |-> computedby[t] +
                                     (IF pc[t] = "sleep" THEN work[t] ELSE 0)])

\* The table that main() prints adds up to 100 percent, even when several
\* threads saw the same fraction below 1.0 and all went on to add to it.
ReportAddsUp == main \in {"reported", "exit"} => SumFunction(computedby) = FULL

\* Read without the mutex, the fraction may be above 1.0, and the bar is then
\* drawn beyond the end of its array, but never by more than one piece of work.
OverdrawnByOne == \E w \in Works : bar <= FULL + w

\* Why they hold.  From its addition to the fraction until it has recorded it, a
\* thread's work is counted in the fraction; the mutex lets one thread at a time
\* be between the addition and the clamp, so the excess is that thread's; and
\* a fraction that has reached the whole stays there.
Counted(t) ==
    computedby[t] + (IF pc[t] \in {"clamp", "unlock", "sleep"} THEN work[t] ELSE 0)

BarTypes ==
    /\ pc \in [Threads -> {"check", "lock", "add", "clamp", "unlock", "sleep", "done"}]
    /\ work \in [Threads -> Int] /\ computedby \in [Threads -> Int]
    /\ fraction_completed \in Int /\ bar \in Int
    /\ main \in {"join", "reported", "exit"}

BarInv ==
    /\ BarTypes
    /\ \A t \in Threads : pc[t] \in {"add", "clamp", "unlock"} <=> frac_mutex = t
    /\ fraction_completed = SumFunction([t \in Threads |-> Counted(t)])
    /\ fraction_completed > FULL =>
           \E t \in Threads : /\ pc[t] = "clamp" /\ work[t] \in Works
                              /\ fraction_completed <= FULL + work[t]
    /\ (\E t \in Threads : pc[t] = "done") => fraction_completed >= FULL
    /\ main # "join" => \A t \in Threads : pc[t] = "done"
    /\ OverdrawnByOne

\* Unless a signal ends it, the program comes to its report.
Finishes == <>(main = "exit" \/ spc = "exit")
==============================================================================
