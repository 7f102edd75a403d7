-------------------------- MODULE MCPthreadProdCons --------------------------
(***************************************************************************)
(* The instance of PthreadProdCons for TLC.  A behaviour either has the    *)
(* spurious wakeups that POSIX allows, or is fair to every thread: endless *)
(* spurious wakeups would keep a fair thread busy for ever.                *)
(***************************************************************************)
EXTENDS PthreadProdCons

VARIABLE spurious

Fair == INSTANCE PthreadProdCons WITH SpuriousWakeups <- FALSE

MCInit == Init /\ spurious \in BOOLEAN
MCNext == IF spurious THEN Next ELSE Fair!Next
MCSpec ==
    /\ MCInit /\ [][MCNext /\ UNCHANGED spurious]_<<vars, spurious>>
    /\ \A p \in Producers : WF_vars(~spurious /\ producer(p))
    /\ \A c \in Consumers : WF_vars(~spurious /\ consumer(c))
    /\ WF_vars(~spurious /\ ((\E t \in Threads : Create(t)) \/ Exit))
------------------------------------------------------------------------------
\* Scheduled fairly, the ring keeps the abstract queue's promise of progress: no
\* wakeup is lost for good, neither between a producer and a waiting consumer nor
\* at the end, where a consumer that has read the count of the producers blocks
\* after the last of them has signalled: that one signals until all have left.
KeepsMoving == spurious \/ Abstract!Progress

\* main() gets to exit, however the last producer's decrement and signals fall
\* between a consumer's test and its wait.
MainExits == spurious \/ Terminates
==============================================================================
