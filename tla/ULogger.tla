------------------------------- MODULE ULogger -------------------------------
(***************************************************************************)
(* chapter12/ulogger.c and ulogger_client.c: clients send a login message  *)
(* through a POSIX message queue; the logger asks for a signal when one    *)
(* arrives on the empty queue, records its sender in the signal's handler  *)
(* and draws the list of users in a loop around sigwait().                 *)
(*                                                                         *)
(* main() and the handler are one thread: while the handler runs, main()   *)
(* does not.  A message is its sender.                                     *)
(***************************************************************************)
EXTENDS Integers, Sequences, SequencesExt

CONSTANTS Clients,      \* the processes that run ulogger_client
          MAX_USERS,    \* capacity of users[]
          MAXMSG,       \* capacity of the message queue
          ROWS          \* lines of the terminal

ULoggerAssumption ==
    /\ MAX_USERS \in Nat /\ MAXMSG \in Nat \ {0} /\ ROWS \in Nat \ {0}

VARIABLES
    mq,        \* the queue: does its name exist, its messages, is a signal registered?
    signals,   \* pending signals: how many SIGMSGAVAIL, how many SIGUPDATE
    main,      \* main(): where it is, its loop index and its handlers
    handler,   \* msg_handler(): where it is ("none": not running), did it receive?
    users,     \* users[0 .. count - 1]
    screen,    \* the indices drawn since the screen was last cleared
    client,    \* where each client is
    log        \* history: the messages in the order sent, and was there one in
               \* the queue when mq_notify() was called?

vars == <<mq, signals, main, handler, users, screen, client, log>>

TypeOK ==
    /\ mq \in [exists : BOOLEAN, msgs : Seq(Clients), registered : BOOLEAN]
    /\ Len(mq.msgs) <= MAXMSG
    /\ signals \in [avail : 0 .. 1, update : Nat]
    /\ main \in [pc : {"start", "opened", "registered", "wait", "draw", "exited"},
                 i : Nat]
    /\ handler \in [pc : {"none", "receive", "notify", "drain", "raise"}, got : BOOLEAN]
    /\ users \in Seq(Clients) /\ Len(users) <= MAX_USERS
    /\ screen \subseteq 1 .. Len(users)
    /\ client \in [Clients -> {"start", "opened", "sent", "failed"}]

\* An earlier logger may have left its queue behind: clients find it.
Init ==
    /\ \E left \in BOOLEAN : mq = [exists |-> left, msgs |-> <<>>, registered |-> FALSE]
    /\ signals = [avail |-> 0, update |-> 0]
    /\ main = [pc |-> "start", i |-> 0]
    /\ handler = [pc |-> "none", got |-> FALSE]
    /\ users = <<>> /\ screen = {}
    /\ client = [c \in Clients |-> "start"]
    /\ log = [sent |-> <<>>, early |-> FALSE]
------------------------------------------------------------------------------
(* ulogger_client *)

OpenQueue(c) ==
    /\ client[c] = "start"
    /\ client' = [client EXCEPT ![c] = IF mq.exists THEN "opened" ELSE "failed"]
    /\ UNCHANGED <<mq, signals, main, handler, users, screen, log>>

\* mq_send() blocks while the queue is full.  A message that finds the queue
\* empty uses up the registration and raises its signal.
mq_send(c) ==
    LET notify == mq.msgs = <<>> /\ mq.registered IN
    /\ client[c] = "opened" /\ Len(mq.msgs) < MAXMSG
    /\ client' = [client EXCEPT ![c] = "sent"]
    /\ mq' = [mq EXCEPT !.msgs = Append(@, c), !.registered = @ /\ ~notify]
    /\ signals' = IF notify THEN [signals EXCEPT !.avail = @ + 1] ELSE signals
    /\ log' = [log EXCEPT !.sent = Append(@, c)]
    /\ UNCHANGED <<main, handler, users, screen>>
------------------------------------------------------------------------------
(* msg_handler() *)

Running == main.pc # "exited"

Deliver ==
    /\ Running /\ handler.pc = "none" /\ signals.avail > 0
    /\ signals' = [signals EXCEPT !.avail = @ - 1]
    /\ handler' = [handler EXCEPT !.pc = "receive"]
    /\ UNCHANGED <<mq, main, users, screen, client, log>>

\* Mutant: the capacity is not tested.
update_unbounded(c) == users' = Append(users, c)

\* A new entry of users[], or the message that there is no room for one.
update(c) == users' = IF Len(users) = MAX_USERS THEN users ELSE Append(users, c)

\* Mutant: newmsg is recorded whether or not a message was received.
ReceiveUnchecked ==
    /\ Running /\ handler.pc = "receive"
    /\ mq' = [mq EXCEPT !.msgs = IF @ = <<>> THEN @ ELSE Tail(@)]
    /\ handler' = [pc |-> "notify", got |-> TRUE]
    /\ screen' = {}
    /\ update(IF mq.msgs # <<>> THEN Head(mq.msgs) ELSE Last(users))
    /\ UNCHANGED <<signals, main, client, log>>

\* The queue is O_NONBLOCK: mq_receive() fails when it is empty.  The status
\* line clears the screen.
Receive ==
    /\ Running /\ handler.pc = "receive"
    /\ IF mq.msgs = <<>>
       THEN /\ handler' = [pc |-> "notify", got |-> FALSE]
            /\ UNCHANGED <<mq, users, screen>>
       ELSE /\ handler' = [pc |-> "notify", got |-> TRUE]
            /\ mq' = [mq EXCEPT !.msgs = Tail(@)]
            /\ screen' = {}
            /\ update(Head(mq.msgs))
    /\ UNCHANGED <<signals, main, client, log>>

\* Mutant: the process registers again only if it received a message.
ReregisterIfReceived ==
    /\ Running /\ handler.pc = "notify"
    /\ handler' = [handler EXCEPT !.pc = "drain"]
    /\ mq' = [mq EXCEPT !.registered = handler.got]
    /\ UNCHANGED <<signals, main, users, screen, client, log>>

Reregister ==
    /\ Running /\ handler.pc = "notify"
    /\ handler' = [handler EXCEPT !.pc = "drain"]
    /\ mq' = [mq EXCEPT !.registered = TRUE]
    /\ UNCHANGED <<signals, main, users, screen, client, log>>

\* One mq_receive() of the loop that empties the queue: what it reads is
\* neither recorded nor shown.
Drain ==
    /\ Running /\ handler.pc = "drain"
    /\ IF mq.msgs = <<>>
       THEN /\ handler' = [handler EXCEPT !.pc = IF handler.got THEN "raise" ELSE "none"]
            /\ UNCHANGED mq
       ELSE mq' = [mq EXCEPT !.msgs = Tail(@)] /\ UNCHANGED handler
    /\ UNCHANGED <<signals, main, users, screen, client, log>>

Raise ==
    /\ Running /\ handler.pc = "raise"
    /\ handler' = [handler EXCEPT !.pc = "none"]
    /\ signals' = [signals EXCEPT !.update = @ + 1]
    /\ UNCHANGED <<mq, main, users, screen, client, log>>

msg_handler == Deliver \/ Receive \/ Reregister \/ Drain \/ Raise
------------------------------------------------------------------------------
(* main(), which runs while the handler does not *)

Step(from, to) == main.pc = from /\ main' = [main EXCEPT !.pc = to] /\ handler.pc = "none"

\* mq_open(O_CREAT) without O_EXCL
mq_open ==
    /\ Step("start", "opened")
    /\ mq' = [mq EXCEPT !.exists = TRUE]
    /\ UNCHANGED <<signals, handler, users, screen, client, log>>

\* The registration is for a message that finds the queue empty: one that is in
\* it already raises nothing, and nobody reads it.
mq_notify ==
    /\ Step("opened", "registered")
    /\ mq' = [mq EXCEPT !.registered = TRUE]
    /\ log' = [log EXCEPT !.early = mq.msgs # <<>>]
    /\ UNCHANGED <<signals, handler, users, screen, client>>

\* Then main() clears the screen.
setup_sighandlers ==
    /\ Step("registered", "wait")
    /\ screen' = {}
    /\ UNCHANGED <<mq, signals, handler, users, client, log>>

\* Mutant: indices start at one.
sigwait_from_one ==
    LET first == Len(users) - ROWS + 2 IN
    /\ main.pc = "wait" /\ handler.pc = "none" /\ signals.update > 0
    /\ signals' = [signals EXCEPT !.update = @ - 1]
    /\ main' = [pc |-> "draw", i |-> IF first >= 1 THEN first + 1 ELSE 2]
    /\ UNCHANGED <<mq, handler, users, screen, client, log>>

\* SIGUPDATE is blocked: it stays pending until sigwait() takes it.  The first
\* index to draw is computed from the count of that moment.
sigwait ==
    LET first == Len(users) - ROWS + 2 IN
    /\ main.pc = "wait" /\ handler.pc = "none" /\ signals.update > 0
    /\ signals' = [signals EXCEPT !.update = @ - 1]
    /\ main' = [pc |-> "draw", i |-> IF first >= 0 THEN first + 1 ELSE 1]
    /\ UNCHANGED <<mq, handler, users, screen, client, log>>

\* An iteration of the loop that draws, up to the count it reads each time.
DrawUser ==
    /\ main.pc = "draw" /\ handler.pc = "none"
    /\ IF main.i <= Len(users)
       THEN /\ main' = [main EXCEPT !.i = @ + 1]
            /\ screen' = screen \cup {main.i}
       ELSE main' = [pc |-> "wait", i |-> 0] /\ UNCHANGED screen
    /\ UNCHANGED <<mq, signals, handler, users, client, log>>

\* A terminating signal, even in the middle of the other handler.  Before the
\* handlers are installed it kills the process, and the queue is left behind.
cleanup ==
    /\ main.pc \notin {"start", "exited"}
    /\ main' = [pc |-> "exited", i |-> 0]
    /\ mq' = [mq EXCEPT !.exists = @ /\ main.pc \notin {"wait", "draw"},
                        !.registered = FALSE]
    /\ UNCHANGED <<signals, handler, users, screen, client, log>>

Logger == mq_open \/ mq_notify \/ setup_sighandlers \/ sigwait \/ DrawUser

Next == Logger \/ msg_handler \/ cleanup \/ \E c \in Clients : OpenQueue(c) \/ mq_send(c)

Spec == Init /\ [][Next]_vars

\* The logger's process runs; nothing obliges anyone to end it.
FairSpec == Spec /\ WF_vars(Logger) /\ WF_vars(msg_handler)
------------------------------------------------------------------------------
(* Properties *)

\* Unless a message was in the queue when it registered first (line 209), the
\* logger is never deaf: whenever it is neither in the handler nor about to enter
\* it, the queue is empty and its next message will raise the signal.  The
\* re-registration before the drain (lines 121-125) is what ensures this.
Hears ==
    main.pc \in {"registered", "wait", "draw"} /\ handler.pc \in {"none", "raise"}
        => \/ log.early
           \/ mq.registered /\ mq.msgs = <<>>
           \/ signals.avail > 0

\* If one was, sent after mq_open() (line 184) or left by an earlier logger, it
\* is deaf from the start and never records anyone.
Listening == Hears /\ (log.early => users = <<>>)

\* users[] holds messages that were sent, in the order sent and each once, also
\* when the handler finds the queue emptied by its previous run (line 116).
RecordedInOrder ==
    LET Position(c) == CHOOSE k \in 1 .. Len(log.sent) : log.sent[k] = c IN
    \A i, j \in 1 .. Len(users) : i < j => Position(users[i]) < Position(users[j])

\* Although the handler clears the screen and extends users[] in the middle of
\* the drawing loop (lines 218-227), the last users that fit the window come to
\* be drawn again.
ScreenCatchesUp ==
    []<>(\/ main.pc = "exited"
         \/ {i \in 1 .. Len(users) : i > Len(users) - ROWS + 2} \subseteq screen)

------------------------------------------------------------------------------
(* The inductive invariant behind TypeOK, Listening and RecordedInOrder        *)

\* Before it has registered the logger hears of nothing.
BeforeRegistration ==
    main.pc \in {"start", "opened"} =>
        /\ signals.avail = 0 /\ handler.pc = "none" /\ ~mq.registered
        /\ users = <<>> /\ ~log.early

\* A message that was there when it registered keeps the signal from ever coming.
Deaf ==
    log.early =>
        /\ users = <<>> /\ signals.avail = 0 /\ handler.pc = "none"
        /\ mq.msgs # <<>>

\* A signal, pending or delivered, has used up the registration, and the handler
\* renews it at its third step only.
OneSignal ==
    /\ signals.avail > 0 => ~mq.registered /\ handler.pc \notin {"receive", "notify"}
    /\ handler.pc \in {"receive", "notify"} => ~mq.registered

\* The handler drains a queue whose next message will be announced, or has been.
HeardWhileDraining ==
    main.pc # "exited" /\ handler.pc = "drain" => mq.registered \/ signals.avail > 0

Drawing == main.pc = "draw" => main.i > 0

\* The queue holds the last messages sent; how many have left it.
Taken == Len(log.sent) - Len(mq.msgs)
EndOf(q, s) ==
    Len(q) <= Len(s) /\ \A k \in 1 .. Len(q) : q[k] = s[(Len(s) - Len(q)) + k]
LastSent ==
    /\ log = [sent |-> log.sent, early |-> log.early]
    /\ log.sent \in Seq(Clients) /\ EndOf(mq.msgs, log.sent)

\* Each client sends once, so that its message has one place among those sent.
Distinct(s) == \A j, k \in 1 .. Len(s) : s[j] = s[k] => j = k
SentOnce ==
    /\ \A k \in 1 .. Len(log.sent) : client[log.sent[k]] = "sent"
    /\ Distinct(log.sent)

\* users[] holds messages that have left the queue, in the order sent.
Among(w, s, t) ==
    \A j \in 1 .. Len(w) :
        /\ \E k \in 1 .. t : s[k] = w[j]
        /\ \A i \in 1 .. j - 1 : \E k, l \in 1 .. t : k < l /\ s[k] = w[i] /\ s[l] = w[j]
RecordedTaken == Among(users, log.sent, Taken)

LoggerInv ==
    /\ TypeOK /\ BeforeRegistration /\ Deaf /\ OneSignal /\ HeardWhileDraining /\ Hears
    /\ Drawing /\ LastSent /\ SentOnce /\ RecordedTaken
==============================================================================
