------------------------------ MODULE MCServices ------------------------------
(***************************************************************************)
(* Instances for TLC of the services of chapters 14 and 15.  A behaviour   *)
(* runs one of them.  The two uppercase services share the variables of    *)
(* module Upcase; all texts are of one chunk but one, in the first.        *)
(***************************************************************************)
EXTENDS Integers, Sequences

CONSTANTS Clients, LongClient, MAXTRIES, PIPE_MSGS, MaxStarts

VARIABLES
    program,
    server, public, client, child, fifos, raw, upcased, output,
    daemons, name, queue, served, converted,
    calc_server, calc_public, calc_client, calc_fifos, private

Upper    == INSTANCE Upcase WITH
                CHUNKS <- [c \in Clients |-> IF c = LongClient THEN 2 ELSE 1]
Threaded == INSTANCE ThreadedUpcase WITH
                CHUNKS <- [c \in Clients |-> 1],
                Locale <- [c \in Clients |-> IF c = LongClient THEN "fr" ELSE "de"]
Calc     == INSTANCE SplCalc WITH
                server <- calc_server, public <- calc_public, client <- calc_client,
                fifos <- calc_fifos

ASSUME ServicesAssumption == Upper!UpcaseAssumption

upcase_vars   == <<server, public, client, child, fifos, raw, upcased, output>>
threaded_vars == <<daemons, name, queue, served, converted>>
calc_vars     == <<calc_server, calc_public, calc_client, calc_fifos, private>>
vars          == <<program, upcase_vars, threaded_vars, calc_vars>>

Init ==
    /\ program \in {"upcase", "threaded", "calc"}
    /\ Threaded!TInit /\ Calc!Init

Run(p, A) == program = p /\ UNCHANGED program /\ A
UpcaseStep(A)   == Run("upcase", A) /\ UNCHANGED <<threaded_vars, calc_vars>>
ThreadedStep(A) == Run("threaded", A) /\ UNCHANGED calc_vars
CalcStep(A)     == Run("calc", A) /\ UNCHANGED <<upcase_vars, threaded_vars>>

Next == UpcaseStep(Upper!Next) \/ ThreadedStep(Threaded!TNext) \/ CalcStep(Calc!Next)

\* Processes and threads run; nobody has to start a daemon or to send a signal.
Spec ==
    /\ Init /\ [][Next]_vars
    /\ WF_vars(UpcaseStep(Upper!Daemon) \/ CalcStep(Calc!Serve))
    /\ \A c \in Clients :
         /\ WF_vars(UpcaseStep(Upper!process_client(c)) \/ ThreadedStep(Threaded!thread(c)))
         /\ WF_vars(UpcaseStep(Upper!upcase(c)) \/ ThreadedStep(Threaded!upcase_client(c))
                    \/ CalcStep(Calc!spl_calc(c)))
    /\ \A d \in 1 .. MaxStarts : WF_vars(ThreadedStep(Threaded!main(d) \/ Threaded!OpenBoth(d)))
------------------------------------------------------------------------------
(* Properties *)

\* upcase.c, both services: a client's output is its text converted, chunk after
\* chunk, nothing twice and nothing left out before the end.
OutputIsConverted == Upper!OutputIsConverted

\* threaded_upcased.c: a text is converted in the client's own locale, unless its
\* daemon served another client as well.
LocaleOfAClientServed == Threaded!LocaleOfAClientServed

\* upcase.c, spl_calc_client.c: wherever a client is when it ends or is ended, its
\* private FIFOs are removed, but for the exits at upcase.c:151 (chapter 15: 155,
\* "whenever client exits prematurely" its lines 25-26 say) and spl_calc_client.c:114, and for a signal that comes before spl_calc_client.c has
\* installed its handlers (lines 92-106).
NoPrivateFifoLeft == Upper!NoPrivateFifoLeft /\ Calc!NoPrivateFifoLeft

\* upcase.c: a client whose message is sent comes to its end, unless the child or
\* the thread that serves it has ended first: the opens do not wait for each other.
SessionsEnd == Upper!SessionsEnd

\* upcased.c: of children that end together, raising one SIGCHLD, none stays a
\* zombie while the daemon lives.
NoZombieStays == Upper!NoZombieStays

\* spl_calc_server.c: whatever becomes of the clients, the server comes to every
\* message: it waits for none of them for ever.
MessagesHandled == Calc!MessagesHandled

\* "This server handles all user-initiated terminating signals by ... removing the
\* public FIFO" (upcased.c:23-25): once the daemon has its handler.
PublicFifoRemoved == Upper!PublicFifoRemoved
==============================================================================
