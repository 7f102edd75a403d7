--------------------------- MODULE MCServicesProofs ---------------------------
(***************************************************************************)
(* Proofs about the services of chapters 14 and 15, for every set of       *)
(* clients, every number of tries and starts and every size of the public  *)
(* FIFO: each client's output is its text converted chunk by chunk, the    *)
(* private FIFOs are removed, and a thread converts in the locale of a     *)
(* client that its daemon serves.                                          *)
(*                                                                         *)
(* The two uppercase services share Upper!FlowInv, which says where the    *)
(* chunk is that a client is at.  Each kind of step of a client or of the  *)
(* child that serves it has a lemma, cited for both services; the daemons  *)
(* differ, and with them what is said of the messages that wait.           *)
(***************************************************************************)
EXTENDS MCServices, SequenceTheorems, TLAPS

------------------------------------------------------------------------------
(* upcase.c and the children or threads that serve it *)

\* What a step leaves of another client's chunk.
Same(e) ==
    /\ client'[e] = client[e] /\ child'[e] = child[e] /\ raw'[e] = raw[e]
    /\ upcased'[e] = upcased[e] /\ output'[e] = output[e]
\* The same when its child dies
Dies(e) ==
    /\ client'[e] = client[e] /\ child'[e].pc \in Upper!Dead /\ raw'[e] = raw[e]
    /\ upcased'[e] = upcased[e] /\ output'[e] = output[e]

\* What every step of either service keeps.
Kept ==
    /\ Upper!Shapes' /\ Upper!Served' /\ Upper!NoPrivateFifoLeft'
    /\ \A e \in Clients : Upper!Flow(e)' /\ (Upper!Waits(e) => Upper!Waits(e)')

\* A client that the step leaves alone keeps its chunk where it is.
LEMMA FlowOfOthers == ASSUME NEW e, Same(e), Upper!Flow(e) PROVE Upper!Flow(e)'
  BY DEF Same, Upper!Flow, Upper!Passing, Upper!Unread, Upper!InHand, Upper!Written

\* A child may die anywhere.
LEMMA FlowOfDead == ASSUME NEW e, Dies(e), Upper!Flow(e) PROVE Upper!Flow(e)'
  BY DEF Dies, Upper!Flow

\* A client that has ended copies no more.
LEMMA FlowOfEnded ==
    ASSUME NEW e, Upper!Flow(e), client'[e].pc \in Upper!Ended,
           upcased'[e].data = upcased[e].data, output'[e] = output[e]
    PROVE  Upper!Flow(e)'
  BY DEF Upper!Flow

\* A step of one client or its child keeps all that it keeps of that one.
LEMMA OneMoves ==
    ASSUME Upper!FlowInv, NEW c \in Clients, \A e \in Clients \ {c} : Same(e),
           fifos' \ {c} = fifos \ {c},
           Upper!Shapes', Upper!Flow(c)',
           client'[c].pc \in Upper!Before => child'[c].pc = "none",
           client'[c].pc \in Upper!Ended \ {"full"} => c \notin fifos',
           Upper!Waits(c) => Upper!Waits(c)'
    PROVE  Kept
<1>1. \A e \in Clients : Upper!Flow(e)' /\ (Upper!Waits(e) => Upper!Waits(e)')
  <2>1. ASSUME NEW e \in Clients \ {c} PROVE Upper!Flow(e)' /\ (Upper!Waits(e) => Upper!Waits(e)')
    <3>1. Same(e) /\ Upper!Flow(e)  BY DEF Upper!FlowInv
    <3>2. QED  BY <3>1, FlowOfOthers DEF Same, Upper!Waits
  <2>2. QED  BY <2>1, Zenon
<1>2. Upper!Served'
  BY DEF Upper!FlowInv, Upper!Served, Same
<1>3. Upper!NoPrivateFifoLeft'
  BY DEF Upper!FlowInv, Upper!NoPrivateFifoLeft, Same
<1>4. QED  BY <1>1, <1>2, <1>3 DEF Kept

\* The client's place changes, and nothing else of it.
ClientMoves(c, from, to) ==
    /\ client[c].pc = from /\ client' = [client EXCEPT ![c].pc = to]

\* The shape of the clients, and what a step of c leaves of the others.
ClientsOK == client \in [Clients -> [pc : Upper!Places, tries : Int, n : Int, gen : Int]]
OthersStay(c) == \A e \in Clients \ {c} : client'[e] = client[e]

\* The other clients stay, and of this one the chunk and the incarnation.
LEMMA ClientMoved ==
    ASSUME ClientsOK, NEW c \in Clients, NEW from, NEW to \in Upper!Places,
           ClientMoves(c, from, to)
    PROVE  /\ ClientsOK' /\ OthersStay(c)
           /\ client[c].pc = from /\ client'[c].pc = to
           /\ client'[c].n = client[c].n /\ client'[c].gen = client[c].gen
  BY DEF ClientsOK, OthersStay, ClientMoves

\* A step of the client that leaves the FIFOs' contents and the output as they are.
LEMMA OnlyClient ==
    ASSUME Upper!FlowInv, NEW c \in Clients, ClientsOK', OthersStay(c),
           UNCHANGED <<child, raw, upcased, output>>
    PROVE  Upper!Shapes' /\ \A e \in Clients \ {c} : Same(e)
  BY DEF ClientsOK, OthersStay, Upper!FlowInv, Upper!Shapes, Same

\* What the invariant says of the clients
LEMMA Facts == Upper!FlowInv => ClientsOK /\ \A c \in Clients : Upper!Flow(c)
  BY DEF Upper!FlowInv, Upper!Shapes, ClientsOK

\* clean_up() and exit.
LEMMA CleanedUp ==
    ASSUME Upper!FlowInv, NEW c \in Clients, NEW to \in Upper!Ended, Upper!CleanUp(c, to),
           client[c].pc \notin Upper!Ended,
           UNCHANGED <<child, upcased, output>>,
           \A e \in Clients \ {c} : raw'[e] = raw[e],
           raw' \in [Clients -> [opened : BOOLEAN, data : Seq(Int)]]
    PROVE  Kept
<1>1. to \in Upper!Places  BY DEF Upper!Places
<1>2. ClientMoves(c, client[c].pc, to) /\ fifos' = fifos \ {c}
  BY DEF Upper!CleanUp, ClientMoves
<1>3. ClientsOK' /\ OthersStay(c) /\ client'[c].pc = to
  BY <1>1, <1>2, ClientMoved, Facts
<1>4. Upper!Shapes'  BY <1>3 DEF ClientsOK, Upper!FlowInv, Upper!Shapes
<1>5. \A e \in Clients \ {c} : Same(e)  BY <1>3 DEF OthersStay, Same
<1>6. Upper!Flow(c)'  BY <1>3, FlowOfEnded, Facts
<1>7. QED
  BY <1>2, <1>3, <1>4, <1>5, <1>6, OneMoves DEF Upper!Waits, Upper!Ended, Upper!Before

\* The client makes its FIFOs.
LEMMA MakesFifos ==
    ASSUME Upper!FlowInv, NEW c \in Clients, Upper!mkfifo_private(c) PROVE Kept
<1>1. /\ ClientMoves(c, "start", "created") /\ fifos' = fifos \cup {c}
      /\ UNCHANGED <<child, raw, upcased, output>>
  BY DEF Upper!mkfifo_private, Upper!ClientGoto, ClientMoves
<1>2. "created" \in Upper!Places  BY DEF Upper!Places, Upper!Before
<1>3. /\ ClientsOK' /\ OthersStay(c) /\ client[c].pc = "start" /\ client'[c].pc = "created"
      /\ client'[c].n = client[c].n
  BY <1>1, <1>2, ClientMoved, Facts
<1>4. Upper!Shapes' /\ \A e \in Clients \ {c} : Same(e)  BY <1>1, <1>3, OnlyClient
<1>5. child[c].pc = "none"  BY <1>3 DEF Upper!FlowInv, Upper!Served, Upper!Before
<1>6. Upper!Flow(c)'
  BY <1>1, <1>3, <1>5, Facts DEF Upper!Flow, Upper!Passing, Upper!Before, Upper!Ended, Upper!Dead
<1>7. QED
  BY <1>1, <1>3, <1>4, <1>5, <1>6, OneMoves DEF Upper!Waits, Upper!Before, Upper!Ended

\* The client opens the public FIFO.
LEMMA Opens ==
    ASSUME Upper!FlowInv, NEW c \in Clients, NEW g \in Int, client[c].pc = "created",
           client' = [client EXCEPT ![c].pc = "opened", ![c].gen = g],
           UNCHANGED <<child, fifos, raw, upcased, output>>
    PROVE  Kept
<1>1. "opened" \in Upper!Places  BY DEF Upper!Places, Upper!Before
<1>2. /\ ClientsOK' /\ OthersStay(c) /\ client'[c].pc = "opened"
      /\ client'[c].n = client[c].n
  BY <1>1, Facts DEF ClientsOK, OthersStay
<1>3. Upper!Shapes' /\ \A e \in Clients \ {c} : Same(e)  BY <1>2, OnlyClient
<1>4. child[c].pc = "none"  BY DEF Upper!FlowInv, Upper!Served, Upper!Before
<1>5. Upper!Flow(c)'
  BY <1>2, <1>4, Facts DEF Upper!Flow, Upper!Passing, Upper!Before, Upper!Ended, Upper!Dead
<1>6. QED
  BY <1>2, <1>3, <1>4, <1>5, OneMoves DEF Upper!Waits, Upper!Before, Upper!Ended

\* It writes its message, or exits as the FIFO is full.
LEMMA Sends ==
    ASSUME Upper!FlowInv, NEW c \in Clients, NEW to \in {"sent", "full"},
           ClientMoves(c, "opened", to), UNCHANGED <<child, fifos, raw, upcased, output>>
    PROVE  Kept
<1>1. to \in Upper!Places  BY DEF Upper!Places, Upper!Ended
<1>2. /\ ClientsOK' /\ OthersStay(c) /\ client[c].pc = "opened" /\ client'[c].pc = to
      /\ client'[c].n = client[c].n
  BY <1>1, ClientMoved, Facts
<1>3. Upper!Shapes' /\ \A e \in Clients \ {c} : Same(e)  BY <1>2, OnlyClient
<1>4. child[c].pc = "none"  BY <1>2 DEF Upper!FlowInv, Upper!Served, Upper!Before
<1>5. Upper!Flow(c)'
  BY <1>2, <1>4, Facts DEF Upper!Flow, Upper!Passing, Upper!Before, Upper!Ended, Upper!Dead
<1>6. QED
  BY <1>2, <1>3, <1>4, <1>5, OneMoves DEF Upper!Waits, Upper!Before, Upper!Ended

\* It opens its first FIFO once the child has, or gives up.
LEMMA OpensRaw ==
    ASSUME Upper!FlowInv, NEW c \in Clients, Upper!open_raw(c) PROVE Kept
<1> DEFINE reader == child[c].pc = "rawwait"
<1>1. /\ client[c].pc = "sent" /\ UNCHANGED <<child, upcased, output>>
      /\ raw' = [raw EXCEPT ![c].opened = @ \/ reader]
      /\ \/ reader /\ ClientMoves(c, "sent", "chunk") /\ UNCHANGED fifos
         \/ /\ ~reader /\ client' = [client EXCEPT ![c].tries = @ + 1] /\ UNCHANGED fifos
         \/ Upper!CleanUp(c, "failed")
  BY DEF Upper!open_raw, Upper!ClientGoto, ClientMoves
<1>2. raw \in [Clients -> [opened : BOOLEAN, data : Seq(Int)]]
  BY DEF Upper!FlowInv, Upper!Shapes
<1>3. /\ raw' \in [Clients -> [opened : BOOLEAN, data : Seq(Int)]]
      /\ \A e \in Clients \ {c} : raw'[e] = raw[e]
      /\ raw'[c].data = raw[c].data
      /\ raw'[c].opened <=> raw[c].opened \/ reader
  <2>1. PICK b \in BOOLEAN : b <=> raw[c].opened \/ reader  OBVIOUS
  <2>2. raw' = [raw EXCEPT ![c].opened = b]  BY <1>1, <1>2, <2>1
  <2>3. QED  BY <1>2, <2>1, <2>2
<1>4. CASE ClientMoves(c, "sent", "chunk") /\ reader /\ UNCHANGED fifos
  <2>1. "chunk" \in Upper!Places  BY DEF Upper!Places
  <2>2. /\ ClientsOK' /\ OthersStay(c) /\ client'[c].pc = "chunk" /\ client'[c].n = client[c].n
    BY <1>4, <2>1, ClientMoved, Facts
  <2>3. Upper!Shapes' /\ \A e \in Clients \ {c} : Same(e)
    BY <1>1, <1>3, <2>2 DEF ClientsOK, OthersStay, Upper!FlowInv, Upper!Shapes, Same
  <2>4. /\ child[c].pc = "rawwait" /\ client[c].n = 1 /\ Len(output[c]) = 0
        /\ raw[c].data = <<>> /\ ~upcased[c].opened /\ upcased[c].data = <<>>
    BY <1>1, <1>4, Facts DEF Upper!Flow, Upper!Passing, Upper!Before, Upper!Ended, Upper!Dead
  <2>5. Upper!Passing(c)'
    BY <1>1, <1>3, <2>2, <2>4 DEF Upper!Passing, Upper!Unread, Upper!Before
  <2>6. Upper!Flow(c)'  BY <1>1, <2>5, Facts DEF Upper!Flow
  <2>7. QED
    BY <1>1, <1>4, <2>2, <2>3, <2>4, <2>6, OneMoves DEF Upper!Waits, Upper!Before, Upper!Ended
<1>5. CASE ~reader /\ client' = [client EXCEPT ![c].tries = @ + 1] /\ UNCHANGED fifos
  <2>1. /\ ClientsOK' /\ OthersStay(c) /\ client'[c].pc = "sent" /\ client'[c].n = client[c].n
    BY <1>1, <1>5, Facts DEF ClientsOK, OthersStay
  <2>2. Upper!Shapes' /\ \A e \in Clients \ {c} : Same(e)
    BY <1>1, <1>3, <2>1 DEF ClientsOK, OthersStay, Upper!FlowInv, Upper!Shapes, Same
  <2>3. Upper!Flow(c)'
    BY <1>1, <1>3, <1>5, <2>1, Facts
       DEF Upper!Flow, Upper!Passing, Upper!Before, Upper!Ended, Upper!Dead
  <2>4. QED
    BY <1>1, <1>5, <2>1, <2>2, <2>3, OneMoves DEF Upper!Waits, Upper!Before, Upper!Ended
<1>6. CASE Upper!CleanUp(c, "failed")
  BY <1>1, <1>3, <1>6, CleanedUp DEF Upper!Ended
<1>7. QED  BY <1>1, <1>4, <1>5, <1>6

\* It writes a chunk if its child lives; the test for the end is left out.
WritesChunk(c) ==
    /\ UNCHANGED <<child, upcased, output>>
    /\ \/ client[c].pc = "chunk" /\ Upper!CleanUp(c, "done") /\ UNCHANGED raw
       \/ /\ ClientMoves(c, "chunk", "openup") /\ child[c].pc \in Upper!Running
          /\ raw' = [raw EXCEPT ![c].data = Append(@, client[c].n)] /\ UNCHANGED fifos
       \/ client[c].pc = "chunk" /\ Upper!CleanUp(c, "failed") /\ UNCHANGED raw

\* A client writes its chunk to the first FIFO, or ends.
LEMMA Writes == ASSUME Upper!FlowInv, NEW c \in Clients, WritesChunk(c) PROVE Kept
<1>1. raw \in [Clients -> [opened : BOOLEAN, data : Seq(Int)]] /\ client[c].n \in Int
  BY DEF Upper!FlowInv, Upper!Shapes
<1>2. CASE /\ ClientMoves(c, "chunk", "openup") /\ child[c].pc \in Upper!Running
           /\ raw' = [raw EXCEPT ![c].data = Append(@, client[c].n)] /\ UNCHANGED fifos
  <2>1. "openup" \in Upper!Places  BY DEF Upper!Places
  <2>2. /\ ClientsOK' /\ OthersStay(c) /\ client'[c].pc = "openup" /\ client'[c].n = client[c].n
        /\ client[c].pc = "chunk"
    BY <1>2, <2>1, ClientMoved, Facts
  <2>3. Append(raw[c].data, client[c].n) \in Seq(Int)  BY <1>1, AppendProperties
  <2>4. /\ raw' \in [Clients -> [opened : BOOLEAN, data : Seq(Int)]]
        /\ \A e \in Clients \ {c} : raw'[e] = raw[e]
        /\ raw'[c].data = Append(raw[c].data, client[c].n)
    BY <1>1, <1>2, <2>3
  <2>5. Upper!Shapes' /\ \A e \in Clients \ {c} : Same(e)
    BY <2>2, <2>4 DEF WritesChunk, ClientsOK, OthersStay, Upper!FlowInv, Upper!Shapes, Same
  <2>6. child[c].pc \notin Upper!Dead /\ child[c].pc # "none"
    BY <1>2 DEF Upper!Running, Upper!Dead
  <2>7. client[c].n = Len(output[c]) + 1 /\ Upper!Unread(c, <<>>)
    BY <2>2, <2>6, Facts DEF Upper!Flow, Upper!Passing, Upper!Before, Upper!Ended
  <2>8. raw'[c].data = <<client[c].n>>  BY <2>4, <2>7 DEF Upper!Unread
  <2>9. Upper!Flow(c)'
    BY <2>2, <2>7, <2>8, Facts
       DEF WritesChunk, Upper!Flow, Upper!Passing, Upper!Unread, Upper!Before, Upper!Ended
  <2>10. QED
    BY <1>2, <2>2, <2>5, <2>6, <2>9, OneMoves
       DEF WritesChunk, Upper!Waits, Upper!Before, Upper!Ended
<1>3. CASE client[c].pc = "chunk" /\ (Upper!CleanUp(c, "done") \/ Upper!CleanUp(c, "failed"))
           /\ UNCHANGED raw
  <2>1. client[c].pc \notin Upper!Ended /\ "done" \in Upper!Ended /\ "failed" \in Upper!Ended
    BY <1>3 DEF Upper!Ended
  <2>2. QED  BY <1>1, <1>3, <2>1, CleanedUp DEF WritesChunk
<1>4. QED  BY <1>2, <1>3 DEF WritesChunk

\* It opens its second FIFO and waits until the child has.
LEMMA OpensUpcased ==
    ASSUME Upper!FlowInv, NEW c \in Clients, Upper!open_upcased(c) PROVE Kept
<1>1. /\ UNCHANGED <<child, fifos, raw, upcased, output>>
      /\ \/ ClientMoves(c, "openup", "upwait")
         \/ upcased[c].opened /\ ClientMoves(c, "upwait", "upread")
  BY DEF Upper!open_upcased, Upper!ClientGoto, ClientMoves
<1>2. "upwait" \in Upper!Places /\ "upread" \in Upper!Places  BY DEF Upper!Places
<1>3. /\ ClientsOK' /\ OthersStay(c) /\ client'[c].n = client[c].n
      /\ \/ client[c].pc = "openup" /\ client'[c].pc = "upwait"
         \/ upcased[c].opened /\ client[c].pc = "upwait" /\ client'[c].pc = "upread"
  BY <1>1, <1>2, ClientMoved, Facts
<1>4. Upper!Shapes' /\ \A e \in Clients \ {c} : Same(e)  BY <1>1, <1>3, OnlyClient
<1>5. Upper!Flow(c)'
  <2>1. ASSUME child[c].pc \notin Upper!Dead PROVE Upper!Passing(c)'
    <3>1. Upper!Passing(c)  BY <1>3, <2>1, Facts DEF Upper!Flow, Upper!Ended
    <3>2. CASE client[c].pc = "openup" /\ client'[c].pc = "upwait"
      <4>1. /\ client[c].n = Len(output[c]) + 1
            /\ Upper!Unread(c, <<client[c].n>>) \/ Upper!InHand(c, "openup")
        BY <3>1, <3>2 DEF Upper!Passing, Upper!Before
      <4>2. QED
        BY <1>1, <1>3, <3>2, <4>1
           DEF Upper!Passing, Upper!Unread, Upper!InHand, Upper!Before
    <3>3. CASE upcased[c].opened /\ client[c].pc = "upwait" /\ client'[c].pc = "upread"
      <4>1. /\ client[c].n = Len(output[c]) + 1
            /\ \/ Upper!InHand(c, "write") \/ Upper!Written(c, << <<"upper", client[c].n>> >>)
        BY <3>1, <3>3
           DEF Upper!Passing, Upper!Unread, Upper!InHand, Upper!Before
      <4>2. QED
        BY <1>1, <1>3, <3>3, <4>1
           DEF Upper!Passing, Upper!InHand, Upper!Written, Upper!Before
    <3>4. QED  BY <1>3, <3>2, <3>3
  <2>2. QED  BY <1>1, <2>1, Facts DEF Upper!Flow
<1>6. client[c].pc \notin Upper!Before \cup Upper!Ended \cup {"sent"}
      /\ client'[c].pc \notin Upper!Before \cup Upper!Ended
  BY <1>3 DEF Upper!Before, Upper!Ended
<1>7. QED  BY <1>1, <1>3, <1>4, <1>5, <1>6, OneMoves DEF Upper!Waits

\* What the next chunk adds to a converted prefix is a converted prefix.
LEMMA NextChunk ==
    ASSUME NEW s \in Seq({"upper"} \X Int), s = [k \in 1 .. Len(s) |-> <<"upper", k>>]
    PROVE  LET t == s \o << <<"upper", Len(s) + 1>> >> IN
           /\ t \in Seq({"upper"} \X Int) /\ Len(t) = Len(s) + 1
           /\ t = [k \in 1 .. Len(t) |-> <<"upper", k>>]
<1> DEFINE u == << <<"upper", Len(s) + 1>> >>
           t == s \o u
<1>1. PICK m \in Nat : m = Len(s)  BY LenProperties
<1>2. u \in Seq({"upper"} \X Int) /\ Len(u) = 1 /\ u[1] = <<"upper", m + 1>>  BY <1>1
<1> HIDE DEF u
<1>3. /\ t \in Seq({"upper"} \X Int) /\ Len(t) = m + 1
      /\ \A k \in 1 .. m + 1 : t[k] = IF k <= m THEN s[k] ELSE u[k - m]
  <2>1. /\ t \in Seq({"upper"} \X Int) /\ Len(t) = Len(s) + Len(u)
        /\ \A k \in 1 .. Len(s) + Len(u) :
             t[k] = IF k <= Len(s) THEN s[k] ELSE u[k - Len(s)]
    BY <1>2, ConcatProperties
  <2> HIDE DEF t
  <2>2. Len(s) + Len(u) = m + 1  BY <1>1, <1>2
  <2>3. QED  BY <1>1, <2>1, <2>2
<1> HIDE DEF t
<1>4. ASSUME NEW k \in 1 .. m + 1 PROVE t[k] = <<"upper", k>>
  <2>1. CASE k <= m
    <3>1. k \in 1 .. m  BY <2>1
    <3>2. s[k] = <<"upper", k>>  BY <1>1, <3>1
    <3>3. QED  BY <1>3, <2>1, <3>2
  <2>2. CASE ~(k <= m)
    <3>1. k = m + 1 /\ k - m = 1  BY <2>2
    <3>2. QED  BY <1>2, <1>3, <2>2, <3>1
  <2>3. QED  BY <2>1, <2>2
<1>5. t = [k \in 1 .. Len(t) |-> t[k]]  BY <1>3, LenProperties
<1>6. t = [k \in 1 .. Len(t) |-> <<"upper", k>>]  BY <1>3, <1>4, <1>5
<1>7. QED  BY <1>1, <1>3, <1>6 DEF t, u

\* It copies the chunk, and goes on when the child has closed.
LEMMA Reads ==
    ASSUME Upper!FlowInv, NEW c \in Clients, Upper!read_upcased(c) PROVE Kept
<1>0. /\ client[c].pc = "upread" /\ UNCHANGED <<child, fifos, raw>>
      /\ upcased \in [Clients -> [opened : BOOLEAN, data : Seq({"upper"} \X Int)]]
      /\ output \in [Clients -> Seq({"upper"} \X Int)] /\ Upper!Flow(c)
  BY Facts DEF Upper!read_upcased, Upper!FlowInv, Upper!Shapes
<1>1. CASE upcased[c].data # <<>>
  <2> DEFINE t == output[c] \o << <<"upper", Len(output[c]) + 1>> >>
  <2>1. /\ output' = [output EXCEPT ![c] = t] /\ UNCHANGED client
        /\ upcased' = [upcased EXCEPT ![c].data = <<>>]
        /\ upcased[c].data = << <<"upper", Len(output[c]) + 1>> >>
    BY <1>0, <1>1 DEF Upper!read_upcased, Upper!Flow
  <2>2. /\ t \in Seq({"upper"} \X Int) /\ Len(t) = Len(output[c]) + 1
        /\ t = [k \in 1 .. Len(t) |-> <<"upper", k>>]
    BY <1>0, NextChunk DEF Upper!Flow
  <2> HIDE DEF t
  <2>3. /\ Upper!Shapes' /\ (\A e \in Clients \ {c} : Same(e)) /\ output'[c] = t
        /\ upcased'[c].data = <<>> /\ (upcased'[c].opened <=> upcased[c].opened)
    <3>1. /\ output' \in [Clients -> Seq({"upper"} \X Int)] /\ output'[c] = t
          /\ \A e \in Clients \ {c} : output'[e] = output[e]
      BY <1>0, <2>1, <2>2
    <3>2. /\ upcased' \in [Clients -> [opened : BOOLEAN, data : Seq({"upper"} \X Int)]]
          /\ upcased'[c].data = <<>> /\ (upcased'[c].opened <=> upcased[c].opened)
          /\ \A e \in Clients \ {c} : upcased'[e] = upcased[e]
      <4>0. <<>> \in Seq({"upper"} \X Int)  OBVIOUS
      <4>1. PICK E : E = Seq({"upper"} \X Int) /\ <<>> \in E  BY <4>0
      <4>2. upcased \in [Clients -> [opened : BOOLEAN, data : E]]  BY <1>0, <4>1
      <4>3. upcased' \in [Clients -> [opened : BOOLEAN, data : E]]  BY <2>1, <4>1, <4>2
      <4>4. QED  BY <2>1, <4>1, <4>2, <4>3
    <3>3. QED
      BY <1>0, <2>1, <3>1, <3>2 DEF Upper!FlowInv, Upper!Shapes, Same
  <2>4. ASSUME child[c].pc \notin Upper!Dead PROVE Upper!Passing(c)'
    <3>1. PICK m \in Nat : m = Len(output[c])  BY <1>0, LenProperties
    <3>2. Upper!Passing(c)  BY <1>0, <2>4 DEF Upper!Flow, Upper!Ended
    <3>3. client[c].n = m + 1 /\ Upper!Written(c, << <<"upper", client[c].n>> >>)
      BY <1>0, <1>1, <3>1, <3>2
         DEF Upper!Passing, Upper!InHand, Upper!Written, Upper!Before
    <3>4. Len(output'[c]) = client[c].n  BY <2>2, <2>3, <3>1, <3>3
    <3>5. Upper!Written(c, <<>>)'  BY <1>0, <2>3, <3>3 DEF Upper!Written
    <3>6. QED  BY <1>0, <2>1, <3>4, <3>5 DEF Upper!Passing, Upper!Before
  <2>5. Upper!Flow(c)'
    BY <1>0, <2>2, <2>3, <2>4 DEF Upper!Flow
  <2>6. client'[c].pc \notin Upper!Before \cup Upper!Ended \cup {"sent"}
    BY <1>0, <2>1 DEF Upper!Before, Upper!Ended
  <2>7. QED  BY <1>0, <2>1, <2>3, <2>5, <2>6, OneMoves DEF Upper!Waits
<1>2. CASE upcased[c].data = <<>>
  <2>1. /\ child[c].pc \notin {"write", "close"} /\ UNCHANGED output
        /\ client' = [client EXCEPT ![c].pc = "chunk", ![c].n = @ + 1]
        /\ upcased' = [upcased EXCEPT ![c].opened = FALSE]
    BY <1>0, <1>2 DEF Upper!read_upcased
  <2>2. "chunk" \in Upper!Places  BY DEF Upper!Places
  <2>3. /\ ClientsOK' /\ OthersStay(c) /\ client'[c].pc = "chunk"
        /\ client'[c].n = client[c].n + 1
    BY <2>1, <2>2, Facts DEF ClientsOK, OthersStay
  <2>4. /\ upcased' \in [Clients -> [opened : BOOLEAN, data : Seq({"upper"} \X Int)]]
        /\ upcased'[c].data = <<>> /\ ~upcased'[c].opened
        /\ \A e \in Clients \ {c} : upcased'[e] = upcased[e]
    BY <1>0, <1>2, <2>1
  <2>5. Upper!Shapes' /\ (\A e \in Clients \ {c} : Same(e))
    BY <1>0, <2>1, <2>3, <2>4 DEF Upper!FlowInv, Upper!Shapes, Same, ClientsOK, OthersStay
  <2>6. ASSUME child[c].pc \notin Upper!Dead PROVE Upper!Passing(c)'
    <3>1. Upper!Passing(c)  BY <1>0, <2>6 DEF Upper!Flow, Upper!Ended
    <3>2. client[c].n = Len(output[c]) /\ Upper!Written(c, <<>>)
      BY <1>0, <1>2, <2>1, <3>1
         DEF Upper!Passing, Upper!InHand, Upper!Written, Upper!Before
    <3>3. Upper!Unread(c, <<>>)'
      BY <1>0, <2>1, <2>4, <3>2 DEF Upper!Written, Upper!Unread
    <3>4. QED  BY <2>1, <2>3, <3>2, <3>3 DEF Upper!Passing, Upper!Before
  <2>7. Upper!Flow(c)'
    BY <1>0, <2>1, <2>4, <2>6 DEF Upper!Flow
  <2>8. client'[c].pc \notin Upper!Before \cup Upper!Ended \cup {"sent"}
        /\ client[c].pc \notin Upper!Before \cup Upper!Ended \cup {"sent"}
    BY <1>0, <2>3 DEF Upper!Before, Upper!Ended
  <2>9. QED  BY <1>0, <2>5, <2>7, <2>8, OneMoves DEF Upper!Waits
<1>3. QED  BY <1>1, <1>2

\* The shape of the children, and what a step of one leaves of the others.
ChildrenOK ==
    child \in [Clients -> [pc : {"none"} \cup Upper!Running \cup Upper!Dead,
                           tries : Int, buf : Seq(Int)]]

\* A step of the child that leaves the client, its output and its names alone.
LEMMA ChildMoves ==
    ASSUME Upper!FlowInv, NEW c \in Clients, child[c].pc # "none",
           UNCHANGED <<client, fifos, output>>,
           Upper!Shapes', Upper!Flow(c)',
           \A e \in Clients \ {c} : child'[e] = child[e] /\ raw'[e] = raw[e] /\ upcased'[e] = upcased[e]
    PROVE  Kept
<1>1. \A e \in Clients \ {c} : Same(e)  BY DEF Same
<1>2. client'[c].pc \notin Upper!Before  BY DEF Upper!FlowInv, Upper!Served
<1>3. client'[c].pc \in Upper!Ended \ {"full"} => c \notin fifos'
  BY DEF Upper!FlowInv, Upper!NoPrivateFifoLeft
<1>4. ~Upper!Waits(c)  BY DEF Upper!Waits
<1>5. QED  BY <1>1, <1>2, <1>3, <1>4, OneMoves

\* exit(), in one of the places where the child lives.
LEMMA Exits ==
    ASSUME Upper!FlowInv, NEW c \in Clients, child[c].pc # "none", Upper!Exit(c),
           UNCHANGED <<client, fifos, raw, output>>,
           upcased' \in [Clients -> [opened : BOOLEAN, data : Seq({"upper"} \X Int)]],
           upcased'[c].data = upcased[c].data,
           \A e \in Clients \ {c} : upcased'[e] = upcased[e]
    PROVE  Kept
<1>1. PICK p \in Upper!Dead : child' = [child EXCEPT ![c].pc = p]
  BY DEF Upper!Exit, Upper!Dead
<1>2. ChildrenOK  BY DEF Upper!FlowInv, Upper!Shapes, ChildrenOK
<1>3. ChildrenOK' /\ child'[c].pc \in Upper!Dead /\ \A e \in Clients \ {c} : child'[e] = child[e]
  BY <1>1, <1>2 DEF ChildrenOK
<1>4. Upper!Shapes'  BY <1>3 DEF ChildrenOK, Upper!FlowInv, Upper!Shapes
<1>5. Upper!Flow(c)'  BY <1>3, Facts DEF Upper!Flow
<1>6. QED  BY <1>3, <1>4, <1>5, ChildMoves

\* The child opens the first FIFO and waits for its client to.
LEMMA ChildOpensRaw ==
    ASSUME Upper!FlowInv, NEW c \in Clients, Upper!OpenRaw(c) PROVE Kept
<1>0. child[c].pc # "none" /\ UNCHANGED <<client, fifos, raw, upcased, output>>
  BY DEF Upper!OpenRaw
<1>1. CASE Upper!Exit(c)
  BY <1>0, <1>1, Exits DEF Upper!FlowInv, Upper!Shapes
<1>2. ASSUME NEW p, \/ child[c].pc = "openraw" /\ p = "rawwait"
                    \/ child[c].pc = "rawwait" /\ raw[c].opened /\ p = "read",
             child' = [child EXCEPT ![c].pc = p]
      PROVE  Kept
  <2>1. ChildrenOK /\ p \in Upper!Running
    BY <1>2 DEF Upper!FlowInv, Upper!Shapes, ChildrenOK, Upper!Running
  <2>2. ChildrenOK' /\ child'[c].pc = p /\ \A e \in Clients \ {c} : child'[e] = child[e]
    BY <1>2, <2>1 DEF ChildrenOK
  <2>3. Upper!Shapes'  BY <1>0, <2>2 DEF ChildrenOK, Upper!FlowInv, Upper!Shapes
  <2>4. ASSUME client[c].pc \notin Upper!Ended PROVE Upper!Passing(c)'
    <3>1. Upper!Passing(c)
      BY <1>2, <2>4, Facts DEF Upper!Flow, Upper!Dead
    <3>2. QED
      BY <1>0, <1>2, <2>2, <3>1
         DEF Upper!Passing, Upper!Unread, Upper!InHand, Upper!Written, Upper!Before
  <2>5. Upper!Flow(c)'  BY <1>0, <2>4, Facts DEF Upper!Flow
  <2>6. QED  BY <1>0, <2>2, <2>3, <2>5, ChildMoves
<1>3. QED
  BY <1>1, <1>2 DEF Upper!OpenRaw, Upper!ChildGoto

\* It reads the chunk, or finds its client gone.
LEMMA ChildReads ==
    ASSUME Upper!FlowInv, NEW c \in Clients, Upper!ReadRaw(c) PROVE Kept
<1>0. child[c].pc = "read" /\ UNCHANGED <<client, fifos, upcased, output>>
  BY DEF Upper!ReadRaw
<1>1. CASE Upper!Exit(c) /\ UNCHANGED raw
  BY <1>0, <1>1, Exits DEF Upper!FlowInv, Upper!Shapes
<1>2. CASE /\ raw[c].data # <<>> /\ raw' = [raw EXCEPT ![c].data = <<>>]
           /\ child' = [child EXCEPT ![c] = [pc |-> "openup", tries |-> 0, buf |-> raw[c].data]]
  <2>1. /\ ChildrenOK /\ raw \in [Clients -> [opened : BOOLEAN, data : Seq(Int)]]
        /\ raw[c].data \in Seq(Int) /\ <<>> \in Seq(Int)
        /\ "openup" \in {"none"} \cup Upper!Running \cup Upper!Dead
    BY DEF Upper!FlowInv, Upper!Shapes, ChildrenOK, Upper!Running
  <2>2. /\ ChildrenOK' /\ child'[c].pc = "openup" /\ child'[c].buf = raw[c].data
        /\ \A e \in Clients \ {c} : child'[e] = child[e]
    BY <1>2, <2>1 DEF ChildrenOK
  <2>3. /\ raw' \in [Clients -> [opened : BOOLEAN, data : Seq(Int)]]
        /\ raw'[c].data = <<>> /\ \A e \in Clients \ {c} : raw'[e] = raw[e]
    BY <1>2, <2>1
  <2>4. Upper!Shapes'  BY <1>0, <2>2, <2>3 DEF ChildrenOK, Upper!FlowInv, Upper!Shapes
  <2>5. ASSUME client[c].pc \notin Upper!Ended PROVE Upper!Passing(c)'
    <3>1. Upper!Passing(c)  BY <1>0, <2>5, Facts DEF Upper!Flow, Upper!Dead
    <3>2. /\ client[c].pc \in {"openup", "upwait"} /\ client[c].n = Len(output[c]) + 1
          /\ Upper!Unread(c, <<client[c].n>>)
      BY <1>0, <1>2, <3>1
         DEF Upper!Passing, Upper!Unread, Upper!InHand, Upper!Written, Upper!Before
    <3>3. Upper!InHand(c, "openup")'
      BY <1>0, <2>2, <2>3, <3>2 DEF Upper!Unread, Upper!InHand
    <3>4. QED  BY <1>0, <3>2, <3>3 DEF Upper!Passing
  <2>6. Upper!Flow(c)'  BY <1>0, <2>5, Facts DEF Upper!Flow
  <2>7. QED  BY <1>0, <2>2, <2>3, <2>4, <2>6, ChildMoves
<1>3. QED  BY <1>1, <1>2 DEF Upper!ReadRaw

\* It opens the second FIFO if its client reads, up to MAXTRIES times.
LEMMA ChildOpensUpcased ==
    ASSUME Upper!FlowInv, NEW c \in Clients, Upper!OpenUpcased(c) PROVE Kept
<1>1. PICK reader \in BOOLEAN : reader <=> client[c].pc \in {"upwait", "upread"}  OBVIOUS
<1>2. /\ child[c].pc = "openup" /\ UNCHANGED <<client, fifos, raw, output>>
      /\ upcased' = [upcased EXCEPT ![c].opened = @ \/ reader]
      /\ \/ reader /\ child' = [child EXCEPT ![c].pc = "write"]
         \/ ~reader /\ child' = [child EXCEPT ![c].tries = @ + 1]
         \/ Upper!Exit(c)
  BY <1>1 DEF Upper!OpenUpcased, Upper!ChildGoto
<1>3. /\ upcased' \in [Clients -> [opened : BOOLEAN, data : Seq({"upper"} \X Int)]]
      /\ upcased'[c].data = upcased[c].data
      /\ upcased'[c].opened <=> upcased[c].opened \/ reader
      /\ \A e \in Clients \ {c} : upcased'[e] = upcased[e]
  <2>1. PICK E : E = Seq({"upper"} \X Int)  OBVIOUS
  <2>2. upcased \in [Clients -> [opened : BOOLEAN, data : E]]
    BY <2>1 DEF Upper!FlowInv, Upper!Shapes
  <2>3. PICK b \in BOOLEAN : b <=> upcased[c].opened \/ reader  OBVIOUS
  <2>4. upcased' = [upcased EXCEPT ![c].opened = b]  BY <1>2, <2>2, <2>3
  <2>5. QED  BY <2>1, <2>2, <2>3, <2>4
<1>4. ChildrenOK /\ child[c].pc # "none" /\ {"openup", "write"} \subseteq Upper!Running
  BY <1>2 DEF Upper!FlowInv, Upper!Shapes, ChildrenOK, Upper!Running
<1>5. CASE Upper!Exit(c)
  BY <1>2, <1>3, <1>4, <1>5, Exits
<1>6. ASSUME client[c].pc \notin Upper!Ended
      PROVE  /\ client[c].pc \in {"openup", "upwait"} /\ client[c].n = Len(output[c]) + 1
             /\ Upper!InHand(c, "openup")
  <2>1. Upper!Passing(c)  BY <1>2, <1>6, Facts DEF Upper!Flow, Upper!Dead
  <2>2. QED
    BY <1>2, <2>1 DEF Upper!Passing, Upper!Unread, Upper!InHand, Upper!Written, Upper!Before
<1>7. CASE reader /\ child' = [child EXCEPT ![c].pc = "write"]
  <2>1. /\ ChildrenOK' /\ child'[c].pc = "write" /\ child'[c].buf = child[c].buf
        /\ \A e \in Clients \ {c} : child'[e] = child[e]
    BY <1>4, <1>7 DEF ChildrenOK
  <2>2. Upper!Shapes'  BY <1>2, <1>3, <2>1 DEF ChildrenOK, Upper!FlowInv, Upper!Shapes
  <2>3. Upper!Passing(c)'
    <3>1. client[c].pc \notin Upper!Ended  BY <1>1, <1>7 DEF Upper!Ended
    <3>2. client[c].pc = "upwait"  BY <1>1, <1>6, <1>7, <3>1
    <3>3. Upper!InHand(c, "write")'
      BY <1>2, <1>3, <1>6, <1>7, <2>1, <3>1 DEF Upper!InHand
    <3>4. QED  BY <1>2, <1>6, <3>1, <3>2, <3>3 DEF Upper!Passing
  <2>4. Upper!Flow(c)'  BY <1>2, <1>3, <2>3, Facts DEF Upper!Flow
  <2>5. QED  BY <1>2, <1>3, <1>4, <2>1, <2>2, <2>4, ChildMoves
<1>8. CASE ~reader /\ child' = [child EXCEPT ![c].tries = @ + 1]
  <2>1. /\ ChildrenOK' /\ child'[c].pc = "openup" /\ child'[c].buf = child[c].buf
        /\ \A e \in Clients \ {c} : child'[e] = child[e]
    <3>1. PICK t \in Int : t = child[c].tries + 1  BY <1>4 DEF ChildrenOK
    <3>2. child' = [child EXCEPT ![c].tries = t]  BY <1>4, <1>8, <3>1 DEF ChildrenOK
    <3>3. QED  BY <1>2, <1>4, <3>1, <3>2 DEF ChildrenOK
  <2>2. Upper!Shapes'  BY <1>2, <1>3, <2>1 DEF ChildrenOK, Upper!FlowInv, Upper!Shapes
  <2>3. ASSUME client[c].pc \notin Upper!Ended PROVE Upper!Passing(c)'
    <3>1. client[c].pc = "openup"  BY <1>1, <1>6, <1>8, <2>3
    <3>2. Upper!InHand(c, "openup")'
      BY <1>2, <1>3, <1>6, <1>8, <2>1, <2>3 DEF Upper!InHand
    <3>3. QED  BY <1>2, <1>6, <2>3, <3>1, <3>2 DEF Upper!Passing
  <2>4. Upper!Flow(c)'  BY <1>2, <1>3, <2>3, Facts DEF Upper!Flow
  <2>5. QED  BY <1>2, <1>3, <1>4, <2>1, <2>2, <2>4, ChildMoves
<1>9. QED  BY <1>2, <1>5, <1>7, <1>8

\* It writes the chunk converted, and closes; or finds its client gone.
LEMMA ChildWrites ==
    ASSUME Upper!FlowInv, NEW c \in Clients, Upper!WriteUpcased(c) PROVE Kept
<1>0. /\ child[c].pc \in {"write", "close"} /\ UNCHANGED <<client, fifos, raw, output>>
      /\ ChildrenOK /\ {"read", "close"} \subseteq Upper!Running
      /\ child[c].pc # "none" /\ child[c].pc \notin Upper!Dead
  BY DEF Upper!WriteUpcased, Upper!FlowInv, Upper!Shapes, ChildrenOK, Upper!Running, Upper!Dead
<1>1. CASE Upper!Exit(c) /\ UNCHANGED upcased
  BY <1>0, <1>1, Exits DEF Upper!FlowInv, Upper!Shapes
<1>2. CASE /\ child[c].pc = "write" /\ client[c].pc \notin Upper!Ended
           /\ upcased' = [upcased EXCEPT ![c].data = @ \o [k \in DOMAIN child[c].buf |->
                                                            <<"upper", child[c].buf[k]>>]]
           /\ child' = [child EXCEPT ![c].pc = "close"]
  <2> DEFINE u == << <<"upper", client[c].n>> >>
  <2>1. /\ client[c].pc \in {"upwait", "upread"} /\ client[c].n = Len(output[c]) + 1
        /\ Upper!InHand(c, "write")
    <3>1. Upper!Passing(c)  BY <1>0, <1>2, Facts DEF Upper!Flow
    <3>2. QED
      BY <1>2, <3>1 DEF Upper!Passing, Upper!Unread, Upper!InHand, Upper!Written, Upper!Before
  <2>2. upcased' = [upcased EXCEPT ![c].data = u]
    <3>1. client[c].n \in Int  BY DEF Upper!FlowInv, Upper!Shapes
    <3>2. PICK n \in Int : n = client[c].n  BY <3>1
    <3>3. child[c].buf = <<n>> /\ upcased[c].data = <<>>  BY <2>1, <3>2 DEF Upper!InHand
    <3>4. [k \in DOMAIN <<n>> |-> <<"upper", <<n>>[k]>>] = << <<"upper", n>> >>  OBVIOUS
    <3>5. u \in Seq({"upper"} \X Int)  BY <3>2
    <3>6. <<>> \o u = u  BY <3>5, ConcatEmptySeq
    <3>7. [k \in DOMAIN child[c].buf |-> <<"upper", child[c].buf[k]>>] = u
      BY <3>2, <3>3, <3>4
    <3> HIDE DEF u
    <3>8. QED  BY <1>2, <3>3, <3>6, <3>7
  <2>3. u \in Seq({"upper"} \X Int) /\ u # <<>>  BY DEF Upper!FlowInv, Upper!Shapes
  <2>4. /\ upcased' \in [Clients -> [opened : BOOLEAN, data : Seq({"upper"} \X Int)]]
        /\ upcased'[c].data = u /\ (upcased'[c].opened <=> upcased[c].opened)
        /\ \A e \in Clients \ {c} : upcased'[e] = upcased[e]
    <3> HIDE DEF u
    <3>1. PICK E : E = Seq({"upper"} \X Int)  OBVIOUS
    <3>2. upcased \in [Clients -> [opened : BOOLEAN, data : E]]
      BY <3>1 DEF Upper!FlowInv, Upper!Shapes
    <3>3. QED  BY <2>2, <2>3, <3>1, <3>2
  <2>5. /\ ChildrenOK' /\ child'[c].pc = "close"
        /\ \A e \in Clients \ {c} : child'[e] = child[e]
    BY <1>0, <1>2 DEF ChildrenOK
  <2>6. Upper!Shapes'  BY <1>0, <2>4, <2>5 DEF ChildrenOK, Upper!FlowInv, Upper!Shapes
  <2>7. Upper!Written(c, u)'
    BY <1>0, <2>1, <2>4, <2>5 DEF Upper!Written, Upper!InHand
  <2>8. Upper!Passing(c)'  BY <1>0, <2>1, <2>7 DEF Upper!Passing
  <2>9. u = << <<"upper", Len(output[c]) + 1>> >>  BY <2>1
  <2>10. Upper!Flow(c)'
    <3> HIDE DEF u
    <3>1. QED  BY <1>0, <2>4, <2>8, <2>9, Facts DEF Upper!Flow
  <2>11. QED  BY <1>0, <2>4, <2>5, <2>6, <2>10, ChildMoves
<1>3. CASE child[c].pc = "close" /\ child' = [child EXCEPT ![c].pc = "read"] /\ UNCHANGED upcased
  <2>1. /\ ChildrenOK' /\ child'[c].pc = "read"
        /\ \A e \in Clients \ {c} : child'[e] = child[e]
    BY <1>0, <1>3 DEF ChildrenOK
  <2>2. Upper!Shapes'  BY <1>0, <1>3, <2>1 DEF ChildrenOK, Upper!FlowInv, Upper!Shapes
  <2>3. ASSUME client[c].pc \notin Upper!Ended PROVE Upper!Passing(c)'
    <3>1. Upper!Passing(c)  BY <1>0, <2>3, Facts DEF Upper!Flow
    <3>2. QED
      BY <1>0, <1>3, <2>1, <3>1
         DEF Upper!Passing, Upper!Unread, Upper!InHand, Upper!Written, Upper!Before
  <2>4. Upper!Flow(c)'  BY <1>0, <1>3, <2>3, Facts DEF Upper!Flow
  <2>5. QED  BY <1>0, <1>3, <2>1, <2>2, <2>4, ChildMoves
<1>4. QED  BY <1>1, <1>2, <1>3 DEF Upper!WriteUpcased, Upper!ChildGoto

\* All steps of a child.
LEMMA ServesClient ==
    ASSUME Upper!FlowInv, NEW c \in Clients, Upper!process_client(c) PROVE Kept
  BY ChildOpensRaw, ChildReads, ChildOpensUpcased, ChildWrites DEF Upper!process_client

\* A signal ends a child.
LEMMA ChildKilled ==
    ASSUME Upper!FlowInv, NEW c \in Clients, Upper!on_signal_child(c) PROVE Kept
<1>1. child[c].pc # "none" /\ Upper!Exit(c) /\ UNCHANGED <<client, fifos, raw, upcased, output>>
  BY DEF Upper!on_signal_child, Upper!Running
<1>2. QED  BY <1>1, Exits DEF Upper!FlowInv, Upper!Shapes

------------------------------------------------------------------------------
(* The daemons: what waits in a FIFO, and what becomes of the children *)

\* A queue of clients of a set, none of them in it twice.
Asking(q, W) ==
    /\ q \in Seq(Clients) /\ \A j \in 1 .. Len(q) : q[j] \in W
    /\ \A j, k \in 1 .. Len(q) : q[j] = q[k] => j = k
\* The clients that wait for a child
Waiting == {c \in Clients : Upper!Waits(c)}

\* Asks in terms of that set.
LEMMA AsksIsAsking == ASSUME NEW q PROVE Upper!Asks(q) <=> Asking(q, Waiting)
<1>1. ASSUME q \in Seq(Clients), NEW j \in 1 .. Len(q) PROVE q[j] \in Clients
  BY <1>1, ElementOfSeq
<1>2. QED  BY <1>1 DEF Upper!Asks, Asking, Waiting

\* More clients may wait than before.
LEMMA AskingMore ==
    ASSUME NEW q, NEW W, NEW V, Asking(q, W), W \subseteq V PROVE Asking(q, V)
  BY DEF Asking

\* The first message is taken, and its client waits no more.
LEMMA AskingTail ==
    ASSUME NEW q, NEW W, Asking(q, W), q # <<>>
    PROVE  Head(q) \in W /\ Head(q) \in Clients /\ Asking(Tail(q), W \ {Head(q)})
<1>1. q \in Seq(Clients)  BY DEF Asking
<1>2. PICK n \in Nat : n = Len(q)  BY <1>1, LenProperties
<1>3. n # 0 /\ Head(q) = q[1]  BY <1>1, <1>2, EmptySeq, HeadTailProperties
<1>4. PICK t : t = Tail(q)  OBVIOUS
<1>5. /\ t \in Seq(Clients) /\ Len(t) = n - 1
      /\ \A k \in 1 .. n - 1 : t[k] = q[k + 1]
  BY <1>1, <1>2, <1>4, HeadTailProperties
<1>6. \A k \in 1 .. n : q[k] \in W /\ \A j \in 1 .. n : q[j] = q[k] => j = k
  BY <1>2 DEF Asking
<1>7. q[1] \in W /\ q[1] \in Clients  BY <1>1, <1>2, <1>3, <1>6, ElementOfSeq
<1>8. ASSUME NEW k \in 1 .. n - 1 PROVE t[k] \in W \ {q[1]}
  <2>1. k + 1 \in 1 .. n /\ 1 \in 1 .. n /\ k + 1 # 1  BY <1>2, <1>8
  <2>2. q[k + 1] \in W /\ q[k + 1] # q[1]  BY <1>6, <2>1
  <2>3. QED  BY <1>5, <2>2
<1>9. ASSUME NEW j \in 1 .. n - 1, NEW k \in 1 .. n - 1, t[j] = t[k] PROVE j = k
  <2>1. j + 1 \in 1 .. n /\ k + 1 \in 1 .. n  BY <1>2, <1>9
  <2>2. q[j + 1] = q[k + 1]  BY <1>5, <1>9
  <2>3. j + 1 = k + 1  BY <1>6, <2>1, <2>2
  <2>4. QED  BY <2>3
<1>10. QED  BY <1>3, <1>4, <1>5, <1>7, <1>8, <1>9 DEF Asking

\* A client that did not wait is added.
LEMMA AskingAppend ==
    ASSUME NEW q, NEW W, Asking(q, W), NEW c \in Clients, c \notin W
    PROVE  Asking(Append(q, c), W \cup {c})
<1>1. q \in Seq(Clients)  BY DEF Asking
<1>2. PICK n \in Nat : n = Len(q)  BY <1>1, LenProperties
<1>3. PICK t : t = Append(q, c)  OBVIOUS
<1>4. /\ t \in Seq(Clients) /\ Len(t) = n + 1 /\ t[n + 1] = c
      /\ \A k \in 1 .. n : t[k] = q[k]
  BY <1>1, <1>2, <1>3, AppendProperties
<1>5. \A k \in 1 .. n : q[k] \in W /\ \A j \in 1 .. n : q[j] = q[k] => j = k
  BY <1>2 DEF Asking
<1>6. \A k \in 1 .. n + 1 : k = n + 1 \/ k \in 1 .. n  BY <1>2
<1>7. \A k \in 1 .. n + 1 : t[k] \in W \cup {c}  BY <1>4, <1>5, <1>6
<1>8. ASSUME NEW j \in 1 .. n + 1, NEW k \in 1 .. n + 1, t[j] = t[k] PROVE j = k
  BY <1>4, <1>5, <1>6, <1>8
<1>9. QED  BY <1>3, <1>4, <1>7, <1>8 DEF Asking

\* A step of a daemon alone.
LEMMA Idles ==
    ASSUME Upper!FlowInv, UNCHANGED <<client, child, fifos, raw, upcased, output>> PROVE Kept
<1>1. \A e \in Clients : Same(e) /\ (Upper!Waits(e) => Upper!Waits(e)')
  BY DEF Same, Upper!Waits
<1>2. \A e \in Clients : Upper!Flow(e)'  BY <1>1, Facts, FlowOfOthers
<1>3. Upper!Shapes' /\ Upper!Served' /\ Upper!NoPrivateFifoLeft'
  BY DEF Upper!FlowInv, Upper!Shapes, Upper!Served, Upper!NoPrivateFifoLeft
<1>4. QED  BY <1>1, <1>2, <1>3 DEF Kept

\* What a step that ends a client's wait keeps.
KeptBut(S) ==
    /\ Upper!Shapes' /\ Upper!Served' /\ Upper!NoPrivateFifoLeft'
    /\ \A e \in Clients : Upper!Flow(e)'
    /\ Waiting \ S \subseteq Waiting'

\* Kept in terms of the clients that wait.
LEMMA KeptIsKept == Kept => KeptBut({})
  BY DEF Kept, KeptBut, Waiting

\* A child is forked, or a thread created, for a client that waits.
LEMMA Forks ==
    ASSUME Upper!FlowInv, NEW h \in Clients, h \in Waiting,
           child' = [child EXCEPT ![h].pc = "openraw"],
           UNCHANGED <<client, fifos, raw, upcased, output>>
    PROVE  KeptBut({h})
<1>1. Upper!Waits(h) /\ ChildrenOK /\ "openraw" \in Upper!Running
  BY DEF Waiting, Upper!FlowInv, Upper!Shapes, ChildrenOK, Upper!Running
<1>2. /\ ChildrenOK' /\ child'[h].pc = "openraw"
      /\ \A e \in Clients \ {h} : child'[e] = child[e]
  BY <1>1 DEF ChildrenOK
<1>3. Upper!Shapes'  BY <1>2 DEF ChildrenOK, Upper!FlowInv, Upper!Shapes
<1>4. Upper!Served' /\ Upper!NoPrivateFifoLeft'
  BY <1>1, <1>2 DEF Upper!FlowInv, Upper!Served, Upper!NoPrivateFifoLeft, Upper!Waits,
                    Upper!Before, Upper!Ended
<1>5. Upper!Flow(h)'
  <2>1. ASSUME client[h].pc \notin Upper!Ended PROVE Upper!Passing(h)'
    <3>1. client[h].pc = "sent" /\ Upper!Passing(h)
      BY <1>1, <2>1, Facts DEF Upper!Waits, Upper!Flow, Upper!Dead
    <3>2. QED  BY <1>2, <3>1 DEF Upper!Passing, Upper!Before
  <2>2. QED  BY <2>1, Facts DEF Upper!Flow
<1>6. ASSUME NEW e \in Clients \ {h} PROVE Upper!Flow(e)'
  <2>1. Same(e) /\ Upper!Flow(e)  BY <1>2, Facts DEF Same
  <2>2. QED  BY <2>1, FlowOfOthers
<1>7. \A e \in Clients : Upper!Flow(e)'  BY <1>5, <1>6
<1>8. Waiting \ {h} \subseteq Waiting'  BY <1>2 DEF Waiting, Upper!Waits
<1>9. QED  BY <1>3, <1>4, <1>7, <1>8 DEF KeptBut

\* Children that are collected, or threads that end with their process.
LEMMA Vanish ==
    ASSUME Upper!FlowInv, NEW S \in SUBSET Clients,
           \A c \in S : client[c].pc \notin Upper!Before,
           child' = [c \in Clients |-> IF c \in S THEN [child[c] EXCEPT !.pc = "gone"] ELSE child[c]],
           UNCHANGED <<client, fifos, raw, upcased, output>>
    PROVE  KeptBut(S)
<1>1. ChildrenOK /\ "gone" \in Upper!Dead
  BY DEF Upper!FlowInv, Upper!Shapes, ChildrenOK, Upper!Dead
<1>2. /\ ChildrenOK' /\ (\A e \in S : child'[e].pc = "gone")
      /\ \A e \in Clients \ S : child'[e] = child[e]
  BY <1>1 DEF ChildrenOK
<1>3. Upper!Shapes'  BY <1>2 DEF ChildrenOK, Upper!FlowInv, Upper!Shapes
<1>4. Upper!Served' /\ Upper!NoPrivateFifoLeft'
  BY <1>2 DEF Upper!FlowInv, Upper!Served, Upper!NoPrivateFifoLeft
<1>5. ASSUME NEW e \in Clients PROVE Upper!Flow(e)'
  <2>1. CASE e \in S
    <3>1. Dies(e) /\ Upper!Flow(e)  BY <1>1, <1>2, <2>1, Facts DEF Dies
    <3>2. QED  BY <3>1, FlowOfDead
  <2>2. CASE e \notin S
    <3>1. Same(e) /\ Upper!Flow(e)  BY <1>2, <2>2, Facts DEF Same
    <3>2. QED  BY <3>1, FlowOfOthers
  <2>3. QED  BY <2>1, <2>2
<1>6. Waiting \ S \subseteq Waiting'  BY <1>2 DEF Waiting, Upper!Waits
<1>7. QED  BY <1>3, <1>4, <1>5, <1>6 DEF KeptBut

\* Zombies are collected.
LEMMA Collects ==
    ASSUME Upper!FlowInv,
           child' = [c \in Clients |->
                        [child[c] EXCEPT !.pc = IF @ = "zombie" THEN "gone" ELSE @]],
           UNCHANGED <<client, fifos, raw, upcased, output>>
    PROVE  KeptBut({})
<1> DEFINE S == {c \in Clients : child[c].pc = "zombie"}
<1>1. ChildrenOK  BY DEF Upper!FlowInv, Upper!Shapes, ChildrenOK
<1>2. child' = [c \in Clients |-> IF c \in S THEN [child[c] EXCEPT !.pc = "gone"] ELSE child[c]]
  BY <1>1 DEF ChildrenOK
<1>3. \A c \in S : client[c].pc \notin Upper!Before
  BY DEF Upper!FlowInv, Upper!Served
<1>4. S \in SUBSET Clients  OBVIOUS
<1>5. S \cap Waiting = {}  BY DEF Waiting, Upper!Waits
<1> HIDE DEF S
<1>6. KeptBut(S)  BY <1>2, <1>3, <1>4, Vanish
<1>7. QED  BY <1>5, <1>6 DEF KeptBut

------------------------------------------------------------------------------
(* Module Upcase: every step keeps the invariant *)

\* The shape of the daemon and its FIFO
ServerOK ==
    /\ server \in [pc : {"off", "daemon", "opening", "opened", "serving"}, gen : Int,
                   sigchld : BOOLEAN]
    /\ public \in [exists : BOOLEAN, msgs : Seq(Clients)]

\* The invariant, from what a step keeps and from the messages after it.
LEMMA Together ==
    ASSUME NEW S, KeptBut(S), ServerOK', Asking(public'.msgs, Waiting') PROVE Upper!FlowInv'
<1>1. Upper!Asks(public.msgs)'
  <2>1. PICK q : q = public'.msgs  OBVIOUS
  <2>2. /\ q \in Seq(Clients) /\ \A j \in 1 .. Len(q) : q[j] \in Waiting'
        /\ \A j, k \in 1 .. Len(q) : q[j] = q[k] => j = k
    BY <2>1 DEF Asking
  <2>3. \A c \in Waiting' : Upper!Waits(c)'  BY DEF Waiting
  <2>4. \A j \in 1 .. Len(q) : Upper!Waits(q[j])'  BY <2>2, <2>3, Zenon
  <2>5. QED  BY <2>1, <2>2, <2>4 DEF Upper!Asks
<1>2. QED  BY <1>1 DEF KeptBut, ServerOK, Upper!FlowInv, Upper!DaemonOK

\* What the invariant says of the daemon
LEMMA DaemonFacts == Upper!FlowInv => ServerOK /\ Asking(public.msgs, Waiting)
<1>1. Upper!FlowInv => ServerOK /\ Upper!Asks(public.msgs)
  BY DEF Upper!FlowInv, Upper!DaemonOK, ServerOK
<1>2. Upper!Asks(public.msgs) => Asking(public.msgs, Waiting)  BY AsksIsAsking, Zenon
<1>3. QED  BY <1>1, <1>2

\* The public FIFO's messages stay, or are lost.
LEMMA Stays ==
    ASSUME Upper!FlowInv, Kept \/ KeptBut({}), ServerOK',
           public'.msgs \in {public.msgs, <<>>}
    PROVE  Upper!FlowInv'
<1>1. KeptBut({})  BY KeptIsKept
<1>2. Waiting \subseteq Waiting'  BY <1>1 DEF KeptBut
<1>3. Asking(public.msgs, Waiting')
  BY <1>2, DaemonFacts, AskingMore, Zenon
<1>4. Asking(<<>>, Waiting')
  <2>1. <<>> \in Seq(Clients) /\ Len(<<>>) = 0  OBVIOUS
  <2>2. QED  BY <2>1 DEF Asking
<1>5. QED  BY <1>1, <1>3, <1>4, Together

\* A step of one client or child that sends nothing
LEMMA StaysServed ==
    ASSUME Upper!FlowInv, Kept \/ KeptBut({}), UNCHANGED public,
           \/ UNCHANGED server \/ server' = [server EXCEPT !.sigchld = TRUE]
           \/ server' = [server EXCEPT !.sigchld = FALSE]
    PROVE  Upper!FlowInv'
<1>1. ServerOK'  BY DaemonFacts DEF ServerOK
<1>2. QED  BY <1>1, Stays

\* The daemon starts, or finds a FIFO left behind; it opens the FIFO.
LEMMA Starts ==
    ASSUME Upper!FlowInv, Upper!mkfifo_public \/ Upper!OpenPublic PROVE Upper!FlowInv'
<1>1. UNCHANGED <<client, child, fifos, raw, upcased, output>>
  BY DEF Upper!mkfifo_public, Upper!OpenPublic
<1>2. Kept  BY <1>1, Idles
<1>3. CASE Upper!mkfifo_public
  <2>1. ServerOK' /\ public'.msgs = <<>>
    <3>1. <<>> \in Seq(Clients)  OBVIOUS
    <3>2. PICK p \in {"off", "daemon"} :
            server' = [server EXCEPT !.gen = @ + 1, !.pc = p]
      BY <1>3 DEF Upper!mkfifo_public
    <3>3. server.gen + 1 \in Int  BY DaemonFacts DEF ServerOK
    <3>4. public' = [exists |-> TRUE, msgs |-> <<>>]  BY <1>3 DEF Upper!mkfifo_public
    <3>5. public'.msgs = <<>> /\ public' \in [exists : BOOLEAN, msgs : Seq(Clients)]
      BY <3>1, <3>4
    <3>6. server' \in [pc : {"off", "daemon", "opening", "opened", "serving"}, gen : Int,
                       sigchld : BOOLEAN]
      BY <3>2, <3>3, DaemonFacts DEF ServerOK
    <3>7. QED  BY <3>5, <3>6 DEF ServerOK
  <2>2. QED  BY <1>2, <2>1, Stays
<1>4. CASE Upper!OpenPublic
  <2>1. ServerOK' /\ UNCHANGED public
    BY <1>4, DaemonFacts DEF ServerOK, Upper!OpenPublic
  <2>2. QED  BY <1>2, <2>1, Stays
<1>5. QED  BY <1>3, <1>4

\* It forks a child for the first message.
LEMMA ForksAChild ==
    ASSUME Upper!FlowInv, Upper!ForkChild PROVE Upper!FlowInv'
<1> DEFINE h == Head(public.msgs)
<1>1. /\ public.msgs # <<>> /\ public' = [public EXCEPT !.msgs = Tail(@)]
      /\ child' = [child EXCEPT ![h].pc = "openraw"]
      /\ UNCHANGED <<server, client, fifos, raw, upcased, output>>
  BY DEF Upper!ForkChild
<1>2. h \in Waiting /\ h \in Clients /\ Asking(Tail(public.msgs), Waiting \ {h})
  BY <1>1, DaemonFacts, AskingTail, Zenon
<1>3. ServerOK' /\ public'.msgs = Tail(public.msgs)
  <2>1. Tail(public.msgs) \in Seq(Clients)  BY <1>2 DEF Asking
  <2>2. PICK t \in Seq(Clients) : t = Tail(public.msgs)  BY <2>1
  <2>3. public' = [public EXCEPT !.msgs = t]  BY <1>1, <2>2
  <2>4. QED  BY <1>1, <2>2, <2>3, DaemonFacts DEF ServerOK
<1> HIDE DEF h
<1>4. KeptBut({h})  BY <1>1, <1>2, Forks
<1>5. Asking(public'.msgs, Waiting')
  BY <1>2, <1>3, <1>4, AskingMore DEF KeptBut
<1>6. QED  BY <1>3, <1>4, <1>5, Together

\* It collects its children, or is ended itself.
LEMMA Handles ==
    ASSUME Upper!FlowInv, Upper!on_sigchld \/ Upper!on_signal_server PROVE Upper!FlowInv'
<1>1. KeptBut({})
  BY Collects DEF Upper!on_sigchld, Upper!on_signal_server
<1>2. CASE Upper!on_sigchld
  BY <1>1, <1>2, StaysServed DEF Upper!on_sigchld
<1>3. CASE Upper!on_signal_server
  <2>1. <<>> \in Seq(Clients)  OBVIOUS
  <2>2. ServerOK' /\ public'.msgs = <<>>
    BY <1>3, <2>1, DaemonFacts DEF ServerOK, Upper!on_signal_server
  <2>3. QED  BY <1>1, <2>2, Stays
<1>4. QED  BY <1>2, <1>3

\* A child takes a step, or is ended by a signal.
LEMMA ChildSteps ==
    ASSUME Upper!FlowInv, NEW c \in Clients,
           Upper!process_client(c) \/ Upper!on_signal_child(c)
    PROVE  Upper!FlowInv'
<1>1. Kept  BY ServesClient, ChildKilled
<1>2. ASSUME Upper!Exit(c)
      PROVE  UNCHANGED server \/ server' = [server EXCEPT !.sigchld = TRUE]
  BY <1>2 DEF Upper!Exit
<1>3. \/ UNCHANGED server \/ server' = [server EXCEPT !.sigchld = TRUE]
  BY <1>2 DEF Upper!process_client, Upper!on_signal_child, Upper!OpenRaw, Upper!ReadRaw,
              Upper!OpenUpcased, Upper!WriteUpcased, Upper!ChildGoto
<1>4. UNCHANGED public
  BY DEF Upper!process_client, Upper!on_signal_child, Upper!OpenRaw, Upper!ReadRaw,
         Upper!OpenUpcased, Upper!WriteUpcased
<1>5. QED  BY <1>1, <1>3, <1>4, StaysServed

\* The client opens the public FIFO or gives up.
LEMMA ClientOpens ==
    ASSUME Upper!FlowInv, NEW c \in Clients, Upper!open_public(c) PROVE Upper!FlowInv'
<1>1. Kept
  <2>1. CASE client' = [client EXCEPT ![c].pc = "opened", ![c].gen = server.gen] /\ UNCHANGED fifos
    <3>1. server.gen \in Int  BY DaemonFacts DEF ServerOK
    <3>2. PICK g \in Int : g = server.gen  BY <3>1
    <3>3. QED  BY <2>1, <3>2, Opens DEF Upper!open_public
  <2>2. CASE Upper!CleanUp(c, "failed")
    BY <2>2, CleanedUp DEF Upper!open_public, Upper!Ended, Upper!FlowInv, Upper!Shapes
  <2>3. QED  BY <2>1, <2>2 DEF Upper!open_public
<1>2. QED  BY <1>1, StaysServed DEF Upper!open_public

\* It sends its message, if there is room and a reader.
LEMMA ClientSends ==
    ASSUME Upper!FlowInv, NEW c \in Clients, Upper!send(c) PROVE Upper!FlowInv'
<1>1. /\ client[c].pc = "opened" /\ UNCHANGED <<server, child, raw, upcased, output>>
      /\ \/ ClientMoves(c, "opened", "full") /\ UNCHANGED fifos /\ UNCHANGED public
         \/ /\ ClientMoves(c, "opened", "sent") /\ UNCHANGED fifos
            /\ public' \in {public, [public EXCEPT !.msgs = Append(@, c)]}
         \/ Upper!CleanUp(c, "failed") /\ UNCHANGED public
  <2> DEFINE alive == server.pc \in Upper!Reading /\ server.gen = client[c].gen
             full  == alive /\ Len(public.msgs) >= PIPE_MSGS
  <2>1. alive => \E d \in Clients : TRUE  OBVIOUS
  <2>2. /\ client[c].pc = "opened" /\ UNCHANGED <<server, child, raw, upcased, output>>
        /\ public' = IF alive /\ ~full THEN [public EXCEPT !.msgs = Append(@, c)] ELSE public
        /\ \/ full /\ ClientMoves(c, "opened", "full") /\ UNCHANGED fifos
           \/ ~full /\ ClientMoves(c, "opened", "sent") /\ UNCHANGED fifos
           \/ ~alive /\ Upper!CleanUp(c, "failed")
    BY DEF Upper!send, Upper!ClientGoto, ClientMoves
  <2> HIDE DEF alive, full
  <2>3. full => alive  BY DEF full
  <2>4. QED  BY <2>2, <2>3
<1>2. CASE Upper!CleanUp(c, "failed") /\ UNCHANGED public
  <2>1. Kept  BY <1>1, <1>2, CleanedUp DEF Upper!Ended, Upper!FlowInv, Upper!Shapes
  <2>2. QED  BY <1>1, <1>2, <2>1, StaysServed
<1>3. CASE ClientMoves(c, "opened", "full") /\ UNCHANGED fifos /\ UNCHANGED public
  <2>1. Kept  BY <1>1, <1>3, Sends
  <2>2. QED  BY <1>1, <1>3, <2>1, StaysServed
<1>4. CASE /\ ClientMoves(c, "opened", "sent") /\ UNCHANGED fifos
           /\ public' = [public EXCEPT !.msgs = Append(@, c)]
  <2>1. Kept  BY <1>1, <1>4, Sends
  <2>2. KeptBut({}) /\ Waiting \subseteq Waiting'
    BY <2>1, KeptIsKept DEF KeptBut
  <2>3. c \notin Waiting /\ child[c].pc = "none"
    BY <1>1 DEF Waiting, Upper!Waits, Upper!FlowInv, Upper!Served, Upper!Before, Upper!Ended
  <2>4. c \in Waiting'
    <3>1. client'[c].pc = "sent" /\ child'[c].pc = "none"
      BY <1>1, <1>4, <2>3, Facts DEF ClientMoves, ClientsOK
    <3>2. QED  BY <3>1 DEF Waiting, Upper!Waits
  <2>5. Asking(Append(public.msgs, c), Waiting \cup {c})
    BY <2>3, DaemonFacts, AskingAppend
  <2>6. Asking(Append(public.msgs, c), Waiting')
    <3>1. Waiting \cup {c} \subseteq Waiting'  BY <2>2, <2>4
    <3>2. QED  BY <2>5, <3>1, AskingMore, Zenon
  <2>7. ServerOK' /\ public'.msgs = Append(public.msgs, c)
    <3>1. Append(public.msgs, c) \in Seq(Clients)  BY <2>6 DEF Asking
    <3>2. PICK t \in Seq(Clients) : t = Append(public.msgs, c)  BY <3>1
    <3>3. public' = [public EXCEPT !.msgs = t]  BY <1>4, <3>2
    <3>4. QED  BY <1>1, <3>2, <3>3, DaemonFacts DEF ServerOK
  <2>8. QED  BY <2>2, <2>6, <2>7, Together
<1>5. CASE ClientMoves(c, "opened", "sent") /\ UNCHANGED fifos /\ UNCHANGED public
  <2>1. Kept  BY <1>1, <1>5, Sends
  <2>2. QED  BY <1>1, <1>5, <2>1, StaysServed
<1>6. QED  BY <1>1, <1>2, <1>3, <1>4, <1>5

\* The writer's test for the end only restricts its step.
LEMMA WriteRaw ==
    ASSUME Upper!FlowInv, NEW c \in Clients, Upper!write_raw(c) PROVE Kept
  BY Writes DEF Upper!write_raw, WritesChunk, Upper!ClientGoto, ClientMoves

\* A signal ends a client.
LEMMA ClientKilled ==
    ASSUME Upper!FlowInv, NEW c \in Clients, Upper!on_signal_client(c) PROVE Upper!FlowInv'
<1>1. Kept
  BY CleanedUp DEF Upper!on_signal_client, Upper!Ended, Upper!FlowInv, Upper!Shapes
<1>2. QED  BY <1>1, StaysServed DEF Upper!on_signal_client

\* All steps of a client.
LEMMA ClientSteps ==
    ASSUME Upper!FlowInv, NEW c \in Clients, Upper!upcase(c) PROVE Upper!FlowInv'
<1>1. CASE Upper!open_public(c) \/ Upper!send(c)
  BY <1>1, ClientOpens, ClientSends
<1>2. CASE \/ Upper!mkfifo_private(c) \/ Upper!open_raw(c) \/ Upper!write_raw(c)
           \/ Upper!open_upcased(c) \/ Upper!read_upcased(c)
  <2>1. Kept  BY <1>2, MakesFifos, OpensRaw, WriteRaw, OpensUpcased, Reads
  <2>2. UNCHANGED <<server, public>>
    BY <1>2 DEF Upper!mkfifo_private, Upper!open_raw, Upper!write_raw, Upper!open_upcased,
                Upper!read_upcased
  <2>3. QED  BY <2>1, <2>2, StaysServed
<1>3. QED  BY <1>1, <1>2 DEF Upper!upcase

\* Every step of the service of chapter 14.
LEMMA UpperNext == ASSUME Upper!FlowInv, Upper!Next PROVE Upper!FlowInv'
  BY Starts, ForksAChild, Handles, ChildSteps, ClientSteps, ClientKilled
     DEF Upper!Next, Upper!Daemon

------------------------------------------------------------------------------
(* Module ThreadedUpcase: its clients and threads take the steps of Upcase *)

\* The daemons, and the locales of module MCServices
Daemons == 1 .. MaxStarts
Language == [c \in Clients |-> IF c = LongClient THEN "fr" ELSE "de"]
Locales == {"C"} \cup {Language[c] : c \in Clients}

\* The same definitions, with the constants of the other instance
LEMMA SameWords ==
    /\ Threaded!Running = Upper!Running /\ Threaded!Before = Upper!Before
    /\ Threaded!Ended = Upper!Ended /\ Threaded!Daemons = Daemons
    /\ Threaded!Locales = Locales
  BY Zenon DEF Threaded!Running, Upper!Running, Threaded!Before, Upper!Before,
               Threaded!Ended, Upper!Ended, Threaded!Daemons, Daemons,
               Threaded!Locales, Locales, Language

\* So is what waits in a queue.
LEMMA SameQueues ==
    ASSUME NEW q PROVE Threaded!Asks(q) <=> Upper!Asks(q)
  BY SameWords DEF Threaded!Asks, Upper!Asks, Threaded!Waits, Upper!Waits

\* A thread takes the steps of a child.
LEMMA ThreadIsChild ==
    ASSUME NEW c, Threaded!process_client(c) PROVE Upper!process_client(c)
<1>1. Threaded!OpenRaw(c) => Upper!OpenRaw(c)
  BY Zenon DEF Threaded!OpenRaw, Upper!OpenRaw, Threaded!Exit, Upper!Exit,
               Threaded!ChildGoto, Upper!ChildGoto
<1>2. Threaded!ReadRaw(c) => Upper!ReadRaw(c)
  BY SameWords, Zenon DEF Threaded!ReadRaw, Upper!ReadRaw, Threaded!Exit, Upper!Exit
<1>3. Threaded!OpenUpcased(c) => Upper!OpenUpcased(c)
  BY Zenon DEF Threaded!OpenUpcased, Upper!OpenUpcased, Threaded!Exit, Upper!Exit,
               Threaded!ChildGoto, Upper!ChildGoto
<1>4. Threaded!WriteUpcased(c) => Upper!WriteUpcased(c)
  BY SameWords, Zenon DEF Threaded!WriteUpcased, Upper!WriteUpcased, Threaded!Exit, Upper!Exit,
               Threaded!ChildGoto, Upper!ChildGoto
<1>5. QED  BY <1>1, <1>2, <1>3, <1>4, Zenon DEF Threaded!process_client, Upper!process_client

\* What a client does once its message is sent, or before, is the same too.
LEMMA SameClient ==
    ASSUME Upper!FlowInv, NEW c \in Clients,
           \/ Threaded!mkfifo_private(c) \/ Threaded!open_raw(c) \/ Threaded!write_raw(c)
           \/ Threaded!open_upcased(c) \/ Threaded!read_upcased(c)
    PROVE  /\ Kept /\ UNCHANGED <<server, public>>
           /\ UNCHANGED child
           /\ \A e \in Clients : client'[e].gen = client[e].gen
           /\ \A e \in Clients : client'[e].pc = "opened" => client[e].pc = "opened"
<1>0. ClientsOK  BY Facts
<1>1. CASE Threaded!mkfifo_private(c)
  <2>1. Upper!mkfifo_private(c)
    BY <1>1, Zenon DEF Threaded!mkfifo_private, Upper!mkfifo_private, Threaded!ClientGoto,
                       Upper!ClientGoto
  <2>2. QED
    BY <1>0, <2>1, MakesFifos DEF Upper!mkfifo_private, Upper!ClientGoto, ClientsOK
<1>2. CASE Threaded!open_raw(c)
  <2>1. Upper!open_raw(c)
    BY <1>2, Zenon DEF Threaded!open_raw, Upper!open_raw, Threaded!ClientGoto, Upper!ClientGoto,
                       Threaded!CleanUp, Upper!CleanUp
  <2>2. UNCHANGED <<server, public, child>>  BY <2>1 DEF Upper!open_raw
  <2>3. \/ \E p \in {"chunk", "failed"} : client' = [client EXCEPT ![c].pc = p]
        \/ client' = [client EXCEPT ![c].tries = @ + 1]
    BY <2>1 DEF Upper!open_raw, Upper!ClientGoto, Upper!CleanUp
  <2>4. QED  BY <1>0, <2>1, <2>2, <2>3, OpensRaw DEF ClientsOK
<1>3. CASE Threaded!write_raw(c)
  <2>1. WritesChunk(c) /\ UNCHANGED <<server, public>>
    BY <1>3, SameWords
       DEF Threaded!write_raw, WritesChunk, Threaded!ClientGoto, ClientMoves,
           Threaded!CleanUp, Upper!CleanUp
  <2>2. UNCHANGED child /\ \E p \in {"done", "failed", "openup"} : client' = [client EXCEPT ![c].pc = p]
    BY <2>1 DEF WritesChunk, ClientMoves, Upper!CleanUp
  <2>3. QED  BY <1>0, <2>1, <2>2, Writes DEF ClientsOK
<1>4. CASE Threaded!open_upcased(c)
  <2>1. Upper!open_upcased(c)
    BY <1>4, Zenon DEF Threaded!open_upcased, Upper!open_upcased, Threaded!ClientGoto,
                       Upper!ClientGoto
  <2>2. /\ UNCHANGED <<server, public, child>>
        /\ \E p \in {"upwait", "upread"} : client' = [client EXCEPT ![c].pc = p]
    BY <2>1 DEF Upper!open_upcased, Upper!ClientGoto
  <2>3. QED  BY <1>0, <2>1, <2>2, OpensUpcased DEF ClientsOK
<1>5. CASE Threaded!read_upcased(c)
  <2>1. Upper!read_upcased(c)
    BY <1>5, Zenon DEF Threaded!read_upcased, Upper!read_upcased
  <2>2. /\ UNCHANGED <<server, public, child>>
        /\ \/ UNCHANGED client
           \/ client' = [client EXCEPT ![c].pc = "chunk", ![c].n = @ + 1]
    BY <2>1 DEF Upper!read_upcased
  <2>3. QED  BY <1>0, <2>1, <2>2, Reads DEF ClientsOK
<1>6. QED  BY <1>1, <1>2, <1>3, <1>4, <1>5

------------------------------------------------------------------------------
(* What the daemons of ThreadedUpcase keep *)

\* The clients whose message is in FIFO f
WaitingAt(f) == {c \in Clients : Upper!Waits(c) /\ client[c].gen = f}

\* Every FIFO holds messages of clients that have opened it.
QueuesOK ==
    /\ public.msgs = <<>>
    /\ queue \in [Daemons -> Seq(Clients)]
    /\ \A f \in Daemons : Asking(queue[f], WaitingAt(f))

\* The shape of the daemons, and the incarnations that clients know
DaemonsOK ==
    /\ daemons \in [Daemons -> [pc : {"off", "opening", "serving", "closing", "unlinked", "ended"},
                                fifo : 0 .. MaxStarts, locale : Locales]]
    /\ converted \in [Clients -> SUBSET Locales]
    /\ \A d \in Daemons : daemons[d].pc # "off" => daemons[d].fifo # 0
    /\ name \in 0 .. MaxStarts
    /\ served \in [Clients -> 0 .. MaxStarts]
GensOK ==
    /\ \A c \in Clients : client[c].gen \in 0 .. MaxStarts
    /\ \A c \in Clients : client[c].pc = "opened" => client[c].gen # 0

\* A daemon's locale is of a client that it serves, and so is every conversion.
Own(d) == \E e \in Clients : served[e] = d /\ daemons[d].locale = Language[e]
Languages(c) == {Language[e] : e \in {e \in Clients : served[e] = served[c]}}
LocaleOK(c) ==
    /\ child[c].pc = "none" => served[c] = 0
    /\ child[c].pc \in Upper!Running => served[c] # 0
    /\ child[c].pc \in Upper!Running \ {"openraw", "rawwait"} => Own(served[c])
    /\ served[c] = 0 => converted[c] = {}
    /\ converted[c] \subseteq Languages(c)

\* The invariant of module ThreadedUpcase, in these terms
LEMMA ThreadedIs ==
    Threaded!ThreadedInv <=> QueuesOK /\ DaemonsOK /\ GensOK /\ \A c \in Clients : LocaleOK(c)
<1>1. Threaded!Queued <=> QueuesOK
  <2>1. ASSUME NEW q, NEW f
        PROVE  Upper!Asks(q) /\ (\A j \in 1 .. Len(q) : client[q[j]].gen = f)
                 <=> Asking(q, WaitingAt(f))
    <3>1. ASSUME q \in Seq(Clients), NEW j \in 1 .. Len(q) PROVE q[j] \in Clients
      BY <3>1, ElementOfSeq
    <3>2. QED  BY <3>1 DEF Upper!Asks, Asking, WaitingAt
  <2>2. QED
    BY <2>1, SameQueues, SameWords, Zenon DEF Threaded!Queued, QueuesOK
<1>2. Threaded!DaemonShapes <=> DaemonsOK /\ GensOK
  BY SameWords, Zenon DEF Threaded!DaemonShapes, DaemonsOK, GensOK
<1>3. Threaded!LocaleSet /\ Threaded!LocaleOfAClientServed <=> \A c \in Clients : LocaleOK(c)
  <2>1. \A d : Threaded!Own(d) <=> Own(d)  BY Zenon DEF Threaded!Own, Own, Language
  <2>2. Threaded!LocaleOfAClientServed <=> \A c \in Clients : converted[c] \subseteq Languages(c)
    BY Zenon DEF Threaded!LocaleOfAClientServed, Languages, Language
  <2>3. QED  BY <2>1, <2>2, SameWords, Zenon DEF Threaded!LocaleSet, LocaleOK
<1>4. QED  BY <1>1, <1>2, <1>3, Zenon DEF Threaded!ThreadedInv

\* The invariant of both modules together
Both == Upper!FlowInv /\ QueuesOK /\ DaemonsOK /\ GensOK /\ \A c \in Clients : LocaleOK(c)

\* Threads that a step of a daemon creates or ends
ThreadMoves(e) ==
    \/ served'[e] = served[e] /\ child'[e].pc = child[e].pc
    \/ served'[e] = served[e] /\ child[e].pc # "none" /\ child'[e].pc = "gone"
    \/ served[e] = 0 /\ served'[e] # 0 /\ child'[e].pc \in {"openraw", "gone"}

\* Such a step changes no locale.
LEMMA LocalesKept ==
    ASSUME Both, UNCHANGED converted, \A d \in Daemons : daemons'[d].locale = daemons[d].locale,
           \A e \in Clients : ThreadMoves(e), DaemonsOK'
    PROVE  \A c \in Clients : LocaleOK(c)'
<1> SUFFICES ASSUME NEW c \in Clients PROVE LocaleOK(c)'  OBVIOUS
<1>0. LocaleOK(c) /\ ThreadMoves(c)  BY DEF Both
<1>1. "openraw" \in Upper!Running /\ "gone" \notin Upper!Running /\ "none" \notin Upper!Running
  BY DEF Upper!Running
<1>2. child'[c].pc = "none" => served'[c] = 0  BY <1>0 DEF LocaleOK, ThreadMoves
<1>3. child'[c].pc \in Upper!Running => served'[c] # 0
  BY <1>0, <1>1 DEF LocaleOK, ThreadMoves
<1>4. served'[c] = 0 => converted'[c] = {}  BY <1>0 DEF LocaleOK, ThreadMoves
<1>5. \A e \in Clients : served[e] # 0 => served'[e] = served[e]  BY DEF ThreadMoves
<1>6. ASSUME child'[c].pc \in Upper!Running \ {"openraw", "rawwait"} PROVE Own(served[c])'
  <2>1. /\ served'[c] = served[c] /\ served[c] # 0 /\ Own(served[c])
    BY <1>0, <1>1, <1>6 DEF LocaleOK, ThreadMoves
  <2>2. PICK e \in Clients : served[e] = served[c] /\ daemons[served[c]].locale = Language[e]
    BY <2>1 DEF Own
  <2>3. served'[e] = served[c]  BY <1>5, <2>1, <2>2
  <2>4. served[c] \in Daemons  BY <2>1, ServicesAssumption DEF Both, DaemonsOK, Daemons, Upper!UpcaseAssumption
  <2>5. daemons'[served[c]].locale = Language[e]  BY <2>2, <2>4
  <2>6. QED  BY <2>1, <2>3, <2>5 DEF Own
<1>7. converted'[c] \subseteq Languages(c)'
  <2>1. CASE served[c] = 0  BY <1>0, <2>1 DEF LocaleOK
  <2>2. CASE served[c] # 0
    <3>1. \A e \in Clients : served[e] = served[c] => served'[e] = served'[c]  BY <1>5, <2>2
    <3>2. Languages(c) \subseteq Languages(c)'  BY <3>1 DEF Languages
    <3>3. QED  BY <1>0, <3>2 DEF LocaleOK
  <2>3. QED  BY <2>1, <2>2
<1>8. QED  BY <1>2, <1>3, <1>4, <1>6, <1>7 DEF LocaleOK

\* A thread's step: it may set the locale, and what it reads is converted.
LEMMA ThreadSteps ==
    ASSUME Both, NEW c \in Clients, Threaded!thread(c)
    PROVE  Both' 
<1>1. /\ child[c].pc # "none" /\ Upper!process_client(c) /\ UNCHANGED <<name, queue, served>>
      /\ daemons' = IF child[c].pc = "rawwait"
                    THEN [daemons EXCEPT ![served[c]].locale = Language[c]] ELSE daemons
      /\ converted' = IF child[c].pc = "read" /\ child'[c].pc = "openup"
                      THEN [converted EXCEPT ![c] = @ \cup {daemons[served[c]].locale}]
                      ELSE converted
  BY ThreadIsChild, Zenon DEF Threaded!thread, Language
<1>2. Kept  BY <1>1, ServesClient DEF Both
<1>3. Upper!FlowInv'  BY <1>1, ChildSteps DEF Both
<1>4. /\ UNCHANGED client /\ UNCHANGED public /\ \A e \in Clients \ {c} : child'[e] = child[e]
      /\ child[c].pc \in Upper!Running
      /\ child'[c].pc = "none" => FALSE
      /\ child[c].pc = "openraw" => child'[c].pc \in {"rawwait"} \cup Upper!Dead
  <2>1. ChildrenOK  BY DEF Both, Upper!FlowInv, Upper!Shapes, ChildrenOK
  <2>2. /\ UNCHANGED client /\ UNCHANGED public /\ child[c].pc \in Upper!Running
    BY <1>1 DEF Upper!process_client, Upper!OpenRaw, Upper!ReadRaw, Upper!OpenUpcased,
                Upper!WriteUpcased, Upper!Running
  <2>3. \/ Upper!Exit(c)
        \/ child' = [child EXCEPT ![c] = [pc |-> "openup", tries |-> 0, buf |-> raw[c].data]]
           /\ child[c].pc # "openraw"
        \/ child' = [child EXCEPT ![c].tries = @ + 1] /\ child[c].pc # "openraw"
        \/ child' = [child EXCEPT ![c].pc = "rawwait"]
        \/ /\ \E p \in {"read", "write", "close"} : child' = [child EXCEPT ![c].pc = p]
           /\ child[c].pc # "openraw"
    BY <1>1 DEF Upper!process_client, Upper!OpenRaw, Upper!ReadRaw, Upper!OpenUpcased,
                Upper!WriteUpcased, Upper!ChildGoto
  <2>4. Upper!Exit(c) => \E p \in Upper!Dead : child' = [child EXCEPT ![c].pc = p]
    BY DEF Upper!Exit, Upper!Dead
  <2>5. \A e \in Clients \ {c} : child'[e] = child[e]
    BY <2>1, <2>3, <2>4 DEF ChildrenOK
  <2>6. /\ child'[c].pc # "none"
        /\ child[c].pc = "openraw" => child'[c].pc \in {"rawwait"} \cup Upper!Dead
    BY <1>1, <2>1, <2>3, <2>4 DEF ChildrenOK, Upper!Dead
  <2>7. QED  BY <2>2, <2>5, <2>6
<1>5. served[c] \in Daemons
  BY <1>4, ServicesAssumption
     DEF Both, LocaleOK, DaemonsOK, Daemons, Upper!UpcaseAssumption
<1>6. QueuesOK' /\ GensOK'
  <2>1. \A f \in Daemons : WaitingAt(f) \subseteq WaitingAt(f)'
    BY <1>2, <1>4 DEF Kept, WaitingAt
  <2>2. QueuesOK'
    BY <1>1, <1>4, <2>1, AskingMore DEF Both, QueuesOK
  <2>3. QED  BY <1>4, <2>2 DEF Both, GensOK
<1>7. /\ DaemonsOK'
      /\ \A d \in Daemons \ {served[c]} : daemons'[d].locale = daemons[d].locale
      /\ child[c].pc # "rawwait" => UNCHANGED daemons
      /\ child[c].pc = "rawwait" => daemons'[served[c]].locale = Language[c]
  <2>1. Language[c] \in Locales  BY DEF Locales
  <2>2. PICK l \in Locales : l = Language[c]  BY <2>1
  <2>3. /\ daemons' \in [Daemons -> [pc : {"off", "opening", "serving", "closing", "unlinked", "ended"},
                                fifo : 0 .. MaxStarts, locale : Locales]]
        /\ \A d \in Daemons : daemons'[d].pc = daemons[d].pc /\ daemons'[d].fifo = daemons[d].fifo
        /\ \A d \in Daemons \ {served[c]} : daemons'[d].locale = daemons[d].locale
        /\ child[c].pc # "rawwait" => UNCHANGED daemons
        /\ child[c].pc = "rawwait" => daemons'[served[c]].locale = l
    BY <1>1, <1>5, <2>2 DEF Both, DaemonsOK
  <2>4. converted' \in [Clients -> SUBSET Locales]
    <3>1. daemons[served[c]].locale \in Locales  BY <1>5 DEF Both, DaemonsOK
    <3>2. QED  BY <1>1, <3>1 DEF Both, DaemonsOK
  <2>5. QED  BY <1>1, <2>2, <2>3, <2>4 DEF Both, DaemonsOK
<1>8. ASSUME NEW e \in Clients PROVE LocaleOK(e)'
  <2>0. LocaleOK(e) /\ LocaleOK(c)  BY DEF Both
  <2>1. /\ child'[e].pc = "none" => served'[e] = 0
        /\ child'[e].pc \in Upper!Running => served'[e] # 0
    BY <1>1, <1>4, <2>0 DEF LocaleOK
  <2>2. ASSUME \/ child[c].pc = "rawwait" /\ served[e] = served[c]
               \/ Own(served[e]) /\ (child[c].pc = "rawwait" => served[e] # served[c])
        PROVE  Own(served[e])'
    BY <1>1, <1>5, <1>7, <2>2, ServicesAssumption DEF Own, Both, DaemonsOK, Daemons, Upper!UpcaseAssumption
  <2>3. child'[e].pc \in Upper!Running \ {"openraw", "rawwait"} => Own(served[e])'
    BY <1>4, <2>0, <2>2 DEF LocaleOK, Upper!Dead, Upper!Running
  <2>4. Languages(e)' = Languages(e)  BY <1>1 DEF Languages
  <2>5. /\ converted'[e] \subseteq Languages(e)
        /\ served[e] = 0 => converted'[e] = {}
    <3>1. CASE converted'[e] = converted[e]  BY <2>0, <3>1 DEF LocaleOK
    <3>2. CASE converted'[e] # converted[e]
      <4>1. e = c /\ child[c].pc = "read" /\ converted'[c] = converted[c] \cup {daemons[served[c]].locale}
        BY <1>1, <3>2 DEF Both, DaemonsOK
      <4>2. Own(served[c])  BY <2>0, <4>1 DEF LocaleOK, Upper!Running
      <4>3. daemons[served[c]].locale \in Languages(c)  BY <4>2 DEF Own, Languages
      <4>4. served[c] # 0  BY <1>5 DEF Daemons
      <4>5. QED  BY <2>0, <4>1, <4>3, <4>4 DEF LocaleOK
    <3>3. QED  BY <3>1, <3>2
  <2>6. QED  BY <1>1, <2>1, <2>3, <2>4, <2>5 DEF LocaleOK
<1>9. QED  BY <1>3, <1>6, <1>7, <1>8 DEF Both

\* A daemon starts, opens its FIFO, is killed, or heeds a signal.
LEMMA DaemonAlone ==
    ASSUME Both, UNCHANGED <<server, public, client, child, fifos, raw, upcased, output>>,
           UNCHANGED <<queue, served, converted>>, DaemonsOK',
           \A d \in Daemons : daemons'[d].locale = daemons[d].locale
    PROVE  Both'
<1>1. Upper!FlowInv'
  <2>1. Kept  BY Idles DEF Both
  <2>2. QED  BY <2>1, StaysServed DEF Both
<1>2. QueuesOK' /\ GensOK'
  <2>1. \A f \in Daemons : WaitingAt(f)' = WaitingAt(f)  BY DEF WaitingAt, Upper!Waits
  <2>2. QED  BY <2>1 DEF Both, QueuesOK, GensOK
<1>3. \A e \in Clients : ThreadMoves(e)  BY DEF ThreadMoves
<1>4. \A e \in Clients : LocaleOK(e)'  BY <1>3, LocalesKept
<1>5. QED  BY <1>1, <1>2, <1>4 DEF Both

\* Those steps of a daemon
LEMMA DaemonSteps ==
    ASSUME Both, NEW d \in Daemons,
           \/ Threaded!StartDaemon(d) \/ Threaded!OpenBoth(d) \/ Threaded!Killed(d)
           \/ /\ Threaded!sighandler(d) /\ daemons[d].pc # "unlinked"
    PROVE  Both'
<1>1. UNCHANGED <<server, public, client, child, fifos, raw, upcased, output>>
  BY DEF Threaded!StartDaemon, Threaded!OpenBoth, Threaded!Killed, Threaded!sighandler,
         Threaded!vars
<1>2. UNCHANGED <<queue, served, converted>>
  BY DEF Threaded!StartDaemon, Threaded!OpenBoth, Threaded!Killed, Threaded!sighandler,
         Threaded!vars
<1>3. DaemonsOK' /\ \A e \in Daemons : daemons'[e].locale = daemons[e].locale
  <2>0. DaemonsOK /\ 0 \in 0 .. MaxStarts /\ d \in 0 .. MaxStarts /\ d # 0
    BY ServicesAssumption DEF Both, Daemons, Upper!UpcaseAssumption
  <2>1. CASE Threaded!StartDaemon(d)
    <3>1. /\ name' \in 0 .. MaxStarts /\ name' # 0
          /\ daemons' = [daemons EXCEPT ![d].pc = "opening", ![d].fifo = name']
      BY <2>0, <2>1 DEF Threaded!StartDaemon, DaemonsOK
    <3>2. PICK m \in 0 .. MaxStarts : m = name' /\ m # 0  BY <3>1
    <3>3. daemons' = [daemons EXCEPT ![d].pc = "opening", ![d].fifo = m]  BY <3>1, <3>2
    <3>4. QED  BY <1>2, <2>0, <3>2, <3>3 DEF DaemonsOK
  <2>2. CASE Threaded!OpenBoth(d)
    <3>1. /\ daemons[d].pc = "opening" /\ UNCHANGED name
          /\ daemons' = [daemons EXCEPT ![d].pc = "serving"]
      BY <2>2 DEF Threaded!OpenBoth
    <3>2. QED  BY <1>2, <2>0, <3>1 DEF DaemonsOK
  <2>3. CASE Threaded!Killed(d)
    <3>1. /\ daemons[d].pc = "opening" /\ UNCHANGED name
          /\ daemons' = [daemons EXCEPT ![d].pc = "ended"]
      BY <2>3 DEF Threaded!Killed
    <3>2. QED  BY <1>2, <2>0, <3>1 DEF DaemonsOK
  <2>4. CASE Threaded!sighandler(d) /\ daemons[d].pc # "unlinked"
    <3>1. /\ daemons[d].pc \in {"serving", "closing"} /\ name' \in {0, name}
          /\ \E p \in {"closing", "unlinked"} : daemons' = [daemons EXCEPT ![d].pc = p]
      BY <2>4 DEF Threaded!sighandler
    <3>2. QED  BY <1>2, <2>0, <3>1 DEF DaemonsOK
  <2>5. QED  BY <2>1, <2>2, <2>3, <2>4
<1>4. QED  BY <1>1, <1>2, <1>3, DaemonAlone

\* What a message in a queue says of its client.
LEMMA Queueing ==
    ASSUME Both, NEW f \in Daemons, queue[f] # <<>>
    PROVE  LET c == Head(queue[f]) IN
           /\ c \in Clients /\ c \in Waiting /\ served[c] = 0
           /\ Asking(Tail(queue[f]), WaitingAt(f) \ {c})
           /\ \A g \in Daemons \ {f} : Asking(queue[g], WaitingAt(g) \ {c})
<1> DEFINE c == Head(queue[f])
<1>1. \A g \in Daemons : Asking(queue[g], WaitingAt(g))  BY DEF Both, QueuesOK
<1>2. c \in WaitingAt(f) /\ c \in Clients /\ Asking(Tail(queue[f]), WaitingAt(f) \ {c})
  BY <1>1, AskingTail, Zenon
<1> HIDE DEF c
<1>3. client[c].gen = f /\ Upper!Waits(c)  BY <1>2 DEF WaitingAt
<1>4. served[c] = 0  BY <1>2, <1>3 DEF Both, LocaleOK, Upper!Waits
<1>5. \A g \in Daemons \ {f} : WaitingAt(g) \subseteq WaitingAt(g) \ {c}
  BY <1>3 DEF WaitingAt
<1>6. \A g \in Daemons \ {f} : Asking(queue[g], WaitingAt(g) \ {c})
  BY <1>1, <1>5, AskingMore
<1>7. QED  BY <1>2, <1>3, <1>4, <1>6 DEF c, Waiting

\* A queue whose first message is taken, and all that wait but its client.
LEMMA QueuesLess ==
    ASSUME Both, NEW f \in Daemons, NEW c \in Clients,
           UNCHANGED <<client, public>>, Waiting \ {c} \subseteq Waiting',
           NEW q, Asking(q, WaitingAt(f) \ {c}), queue' = [queue EXCEPT ![f] = q],
           \A g \in Daemons \ {f} : Asking(queue[g], WaitingAt(g) \ {c})
    PROVE  QueuesOK'
<1>1. \A g \in Daemons : WaitingAt(g) \ {c} \subseteq WaitingAt(g)'
  BY DEF WaitingAt, Waiting
<1>2. q \in Seq(Clients)  BY DEF Asking
<1>3. PICK E : E = Seq(Clients)  OBVIOUS
<1>4. queue \in [Daemons -> E]  BY <1>3 DEF Both, QueuesOK
<1>5. /\ queue' \in [Daemons -> E] /\ queue'[f] = q
      /\ \A g \in Daemons \ {f} : queue'[g] = queue[g]
  BY <1>2, <1>3, <1>4
<1>6. Asking(q, WaitingAt(f)')  BY <1>1, AskingMore, Zenon
<1>7. \A g \in Daemons \ {f} : Asking(queue[g], WaitingAt(g)')
  BY <1>1, AskingMore
<1>8. \A g \in Daemons : Asking(queue'[g], WaitingAt(g)')
  BY <1>5, <1>6, <1>7
<1>9. QED  BY <1>3, <1>5, <1>8 DEF Both, QueuesOK

\* No message at all.
LEMMA AskingNone == ASSUME NEW W PROVE Asking(<<>>, W)
<1>1. <<>> \in Seq(Clients) /\ Len(<<>>) = 0  OBVIOUS
<1>2. QED  BY <1>1 DEF Asking

\* main() takes a message and creates a thread for its client.
LEMMA MainServes ==
    ASSUME Both, NEW d \in Daemons, Threaded!main(d), daemons[d].pc = "serving"
    PROVE  Both'
<1> DEFINE f == daemons[d].fifo
           c == Head(queue[f])
<1>1. /\ queue[f] # <<>> /\ child' = [child EXCEPT ![c].pc = "openraw"]
      /\ served' = [served EXCEPT ![c] = d] /\ queue' = [queue EXCEPT ![f] = Tail(@)]
      /\ UNCHANGED <<daemons, name, server, public, client, fifos, raw, upcased, output, converted>>
  BY DEF Threaded!main
<1>2. f \in Daemons
  BY ServicesAssumption DEF Both, DaemonsOK, Daemons, Upper!UpcaseAssumption
<1>3. /\ c \in Clients /\ c \in Waiting /\ served[c] = 0
      /\ Asking(Tail(queue[f]), WaitingAt(f) \ {c})
      /\ \A g \in Daemons \ {f} : Asking(queue[g], WaitingAt(g) \ {c})
  BY <1>1, <1>2, Queueing, Zenon
<1>4. queue' = [queue EXCEPT ![f] = Tail(queue[f])]  BY <1>1
<1> HIDE DEF c
<1>5. KeptBut({c})  BY <1>1, <1>3, Forks DEF Both
<1>6. Upper!FlowInv'
  <2>1. ServerOK'  BY <1>1, DaemonFacts DEF Both, ServerOK
  <2>2. Asking(public'.msgs, Waiting')
    BY <1>1, AskingNone DEF Both, QueuesOK
  <2>3. QED  BY <1>5, <2>1, <2>2, Together
<1>7. Waiting \ {c} \subseteq Waiting'  BY <1>5 DEF KeptBut
<1>8. QueuesOK'
  <2>1. PICK q : q = Tail(queue[f])  OBVIOUS
  <2>2. Asking(q, WaitingAt(f) \ {c}) /\ queue' = [queue EXCEPT ![f] = q]
    BY <1>3, <1>4, <2>1
  <2>3. QED  BY <1>1, <1>2, <1>3, <1>7, <2>2, QueuesLess
<1>9. DaemonsOK' /\ GensOK'
  <2>1. d \in 0 .. MaxStarts  BY ServicesAssumption DEF Daemons, Upper!UpcaseAssumption
  <2>2. served' \in [Clients -> 0 .. MaxStarts]  BY <1>1, <2>1 DEF Both, DaemonsOK
  <2>3. QED  BY <1>1, <2>2 DEF Both, DaemonsOK, GensOK
<1>10. \A e \in Clients : ThreadMoves(e)
  <2>1. ChildrenOK  BY DEF Both, Upper!FlowInv, Upper!Shapes, ChildrenOK
  <2>2. d # 0  BY DEF Daemons
  <2>3. QED  BY <1>1, <1>3, <2>1, <2>2 DEF ThreadMoves, ChildrenOK, Both, DaemonsOK
<1>11. \A e \in Clients : LocaleOK(e)'  BY <1>1, <1>9, <1>10, LocalesKept
<1>12. QED  BY <1>6, <1>8, <1>9, <1>11 DEF Both

\* exit(): the threads of the daemon end; the client c, if it is one's turn, is served.
LEMMA DaemonEnds ==
    ASSUME Both, NEW d \in Daemons, daemons[d].pc # "off", NEW upto,
           Threaded!Ends(d, upto), name' \in {0, name},
           upto \in [Clients -> 0 .. MaxStarts], NEW W \in SUBSET Clients,
           \A e \in W : Upper!Waits(e) /\ served[e] = 0 /\ upto[e] = d,
           \A e \in Clients \ W : upto[e] = served[e]
    PROVE  /\ Upper!FlowInv' /\ UNCHANGED <<client, public>> /\ Waiting \ W \subseteq Waiting'
           /\ DaemonsOK' /\ GensOK' /\ \A e \in Clients : LocaleOK(e)'
<1> DEFINE S == {e \in Clients : upto[e] = d}
<1>1. /\ daemons' = [daemons EXCEPT ![d].pc = "ended"] /\ served' = upto
      /\ child' = [c \in Clients |-> IF c \in S THEN [child[c] EXCEPT !.pc = "gone"] ELSE child[c]]
      /\ UNCHANGED <<server, public, client, fifos, raw, upcased, output, converted>>
  BY DEF Threaded!Ends
<1>2. d # 0  BY DEF Daemons
<1>3. \A e \in S : e \in W \/ child[e].pc # "none"
  BY <1>2 DEF Both, LocaleOK
<1>4. \A e \in S : client[e].pc \notin Upper!Before
  BY <1>3 DEF Both, Upper!FlowInv, Upper!Served, Upper!Waits, Upper!Before, Upper!Ended
<1>5. S \in SUBSET Clients /\ \A e \in S : upto[e] = d  OBVIOUS
<1>6. \A e \in Clients \ S : upto[e] # d  OBVIOUS
<1> HIDE DEF S
<1>7. KeptBut(S)  BY <1>1, <1>4, <1>5, Vanish DEF Both
<1>8. Upper!FlowInv'
  <2>1. ServerOK'  BY <1>1, DaemonFacts DEF Both, ServerOK
  <2>2. Asking(public'.msgs, Waiting')
    BY <1>1, AskingNone DEF Both, QueuesOK
  <2>3. QED  BY <1>7, <2>1, <2>2, Together
<1>9. Waiting \ W \subseteq Waiting'
  BY <1>3, <1>7 DEF KeptBut, Waiting, Upper!Waits
<1>10. DaemonsOK' /\ GensOK'
  <2>1. 0 \in 0 .. MaxStarts  BY ServicesAssumption DEF Upper!UpcaseAssumption
  <2>2. QED  BY <1>1, <2>1 DEF Both, DaemonsOK, GensOK
<1>11. \A e \in Clients : ThreadMoves(e)
  <2>1. ChildrenOK  BY DEF Both, Upper!FlowInv, Upper!Shapes, ChildrenOK
  <2>2. ASSUME NEW e \in Clients PROVE ThreadMoves(e)
    <3>1. CASE e \in S
      <4>1. child'[e].pc = "gone"  BY <1>1, <2>1, <3>1 DEF ChildrenOK
      <4>2. QED  BY <1>1, <1>2, <1>3, <1>5, <3>1, <4>1 DEF ThreadMoves
    <3>2. CASE e \notin S
      <4>1. child'[e] = child[e]  BY <1>1, <3>2
      <4>2. e \notin W  BY <1>6, <3>2
      <4>3. QED  BY <1>1, <4>1, <4>2 DEF ThreadMoves
    <3>3. QED  BY <3>1, <3>2
  <2>3. QED  BY <2>2
<1>12. \A e \in Daemons : daemons'[e].locale = daemons[e].locale
  BY <1>1 DEF Both, DaemonsOK
<1>13. \A e \in Clients : LocaleOK(e)'  BY <1>1, <1>10, <1>11, <1>12, LocalesKept
<1>14. QED  BY <1>1, <1>8, <1>9, <1>10, <1>13

\* The read() after the one under way fails, and main() ends the process.
LEMMA MainEnds ==
    ASSUME Both, NEW d \in Daemons, Threaded!main(d), daemons[d].pc # "serving"
    PROVE  Both'
<1> DEFINE f == daemons[d].fifo
           c == Head(queue[f])
<1>1. /\ queue[f] # <<>> /\ daemons[d].pc \in {"closing", "unlinked"}
      /\ Threaded!Ends(d, [served EXCEPT ![c] = d]) /\ name' = 0
      /\ queue' = [queue EXCEPT ![f] = IF Threaded!Readers(f) = {d} THEN <<>> ELSE Tail(@)]
  BY DEF Threaded!main
<1>2. f \in Daemons
  BY <1>1, ServicesAssumption DEF Both, DaemonsOK, Daemons, Upper!UpcaseAssumption
<1>3. /\ c \in Clients /\ c \in Waiting /\ served[c] = 0
      /\ Asking(Tail(queue[f]), WaitingAt(f) \ {c})
      /\ \A g \in Daemons \ {f} : Asking(queue[g], WaitingAt(g) \ {c})
  BY <1>1, <1>2, Queueing, Zenon
<1>4. PICK q : /\ Asking(q, WaitingAt(f) \ {c}) /\ queue' = [queue EXCEPT ![f] = q]
  <2>1. queue' = [queue EXCEPT ![f] = IF Threaded!Readers(f) = {d} THEN <<>> ELSE Tail(queue[f])]
    BY <1>1
  <2>2. QED  BY <1>3, <2>1, AskingNone
<1> HIDE DEF c
<1>5. PICK upto : upto = [served EXCEPT ![c] = d]  OBVIOUS
<1>6. /\ upto \in [Clients -> 0 .. MaxStarts] /\ upto[c] = d
      /\ \A e \in Clients \ {c} : upto[e] = served[e]
  BY <1>3, <1>5, ServicesAssumption DEF Both, DaemonsOK, Daemons, Upper!UpcaseAssumption
<1>7. Threaded!Ends(d, upto) /\ daemons[d].pc # "off" /\ Upper!Waits(c)
  BY <1>1, <1>3, <1>5 DEF Waiting
<1>8. /\ Upper!FlowInv' /\ UNCHANGED <<client, public>> /\ Waiting \ {c} \subseteq Waiting'
      /\ DaemonsOK' /\ GensOK' /\ \A e \in Clients : LocaleOK(e)'
  <2>1. {c} \in SUBSET Clients  BY <1>3
  <2>2. \A e \in {c} : Upper!Waits(e) /\ served[e] = 0 /\ upto[e] = d
    BY <1>3, <1>6, <1>7
  <2>3. QED  BY <1>1, <1>6, <1>7, <2>1, <2>2, DaemonEnds
<1>9. QueuesOK'  BY <1>2, <1>3, <1>4, <1>8, QueuesLess
<1>10. QED  BY <1>8, <1>9 DEF Both

\* The thread that waits for the signals ends it.
LEMMA SignalEnds ==
    ASSUME Both, NEW d \in Daemons, Threaded!sighandler(d), daemons[d].pc = "unlinked"
    PROVE  Both'
<1>1. /\ Threaded!Ends(d, served) /\ UNCHANGED name
      /\ queue' \in {queue, [queue EXCEPT ![daemons[d].fifo] = <<>>]}
  BY DEF Threaded!sighandler
<1>2. /\ Upper!FlowInv' /\ UNCHANGED <<client, public>> /\ Waiting \ {} \subseteq Waiting'
      /\ DaemonsOK' /\ GensOK' /\ \A e \in Clients : LocaleOK(e)'
  <2>1. PICK upto, W : upto = served /\ W = {}  OBVIOUS
  <2>2. upto \in [Clients -> 0 .. MaxStarts] /\ \A e \in Clients \ W : upto[e] = served[e]
    BY <2>1 DEF Both, DaemonsOK
  <2>3. W \in SUBSET Clients /\ \A e \in W : Upper!Waits(e) /\ served[e] = 0 /\ upto[e] = d
    BY <2>1
  <2>4. Threaded!Ends(d, upto) /\ daemons[d].pc # "off" /\ name' \in {0, name}
    BY <1>1, <2>1
  <2>5. /\ Upper!FlowInv' /\ UNCHANGED <<client, public>> /\ Waiting \ W \subseteq Waiting'
        /\ DaemonsOK' /\ GensOK' /\ \A e \in Clients : LocaleOK(e)'
    BY <2>2, <2>3, <2>4, DaemonEnds
  <2>6. QED  BY <2>1, <2>5
<1>3. \A g \in Daemons : WaitingAt(g) \subseteq WaitingAt(g)'
  BY <1>2 DEF WaitingAt, Waiting
<1>4. \A g \in Daemons : queue'[g] \in {queue[g], <<>>}
  BY <1>1 DEF Both, QueuesOK
<1>5. queue' \in [Daemons -> Seq(Clients)]
  <2>1. PICK E : E = Seq(Clients) /\ <<>> \in E
    <3>1. <<>> \in Seq(Clients)  OBVIOUS
    <3>2. QED  BY <3>1
  <2>2. QED  BY <1>1, <2>1 DEF Both, QueuesOK
<1>6. \A g \in Daemons : Asking(queue[g], WaitingAt(g)') /\ Asking(<<>>, WaitingAt(g)')
  BY <1>3, AskingMore, AskingNone DEF Both, QueuesOK
<1>7. QueuesOK'
  BY <1>2, <1>4, <1>5, <1>6 DEF Both, QueuesOK
<1>8. QED  BY <1>2, <1>7 DEF Both

\* A client's steps that leave the daemons alone
LEMMA ClientAlone ==
    ASSUME Both, Kept, UNCHANGED <<server, public, child>>,
           UNCHANGED <<daemons, name, queue, served, converted>>, GensOK',
           \A e \in Clients : Upper!Waits(e) => client'[e].gen = client[e].gen
    PROVE  Both'
<1>1. Upper!FlowInv'  BY StaysServed DEF Both
<1>2. \A f \in Daemons : WaitingAt(f) \subseteq WaitingAt(f)'
  BY DEF WaitingAt, Kept
<1>3. QueuesOK'  BY <1>2, AskingMore DEF Both, QueuesOK
<1>4. DaemonsOK'  BY DEF Both, DaemonsOK
<1>5. \A e \in Clients : ThreadMoves(e)  BY DEF ThreadMoves
<1>6. \A e \in Clients : LocaleOK(e)'  BY <1>4, <1>5, LocalesKept
<1>7. QED  BY <1>1, <1>3, <1>4, <1>6 DEF Both

\* It opens the FIFO that has the name, or gives up.
LEMMA OpensNamed ==
    ASSUME Both, NEW c \in Clients, Threaded!open_public_fifo(c) PROVE Both'
<1>1. /\ client[c].pc = "created" /\ UNCHANGED <<server, public, child, raw, upcased, output>>
      /\ UNCHANGED <<daemons, name, queue, served, converted>>
      /\ \/ /\ name # 0 /\ UNCHANGED fifos
            /\ client' = [client EXCEPT ![c].pc = "opened", ![c].gen = name]
         \/ Upper!CleanUp(c, "failed")
  BY DEF Threaded!open_public_fifo, Threaded!CleanUp, Upper!CleanUp
<1>2. PICK m : m = name /\ m \in 0 .. MaxStarts /\ m \in Int  BY DEF Both, DaemonsOK
<1>3. Kept
  <2>1. CASE client' = [client EXCEPT ![c].pc = "opened", ![c].gen = m] /\ UNCHANGED fifos
    BY <1>1, <1>2, <2>1, Opens DEF Both
  <2>2. CASE Upper!CleanUp(c, "failed")
    BY <1>1, <2>2, CleanedUp DEF Both, Upper!Ended, Upper!FlowInv, Upper!Shapes
  <2>3. QED  BY <1>1, <1>2, <2>1, <2>2
<1>4. ClientsOK  BY Facts DEF Both
<1>5. GensOK'
  BY <1>1, <1>2, <1>4 DEF Both, GensOK, ClientsOK, Upper!CleanUp
<1>6. \A e \in Clients : Upper!Waits(e) => client'[e].gen = client[e].gen
  BY <1>1, <1>4 DEF Upper!Waits, Upper!Ended, ClientsOK, Upper!CleanUp
<1>7. QED  BY <1>1, <1>3, <1>5, <1>6, ClientAlone

\* It writes its message to that FIFO.
LEMMA SendsNamed ==
    ASSUME Both, NEW c \in Clients, Threaded!send_message(c) PROVE Both'
<1> DEFINE f == client[c].gen
<1>1. /\ client[c].pc = "opened" /\ UNCHANGED <<server, public, child, raw, upcased, output>>
      /\ UNCHANGED <<daemons, name, served, converted>>
      /\ \/ /\ queue' = [queue EXCEPT ![f] = Append(@, c)]
            /\ ClientMoves(c, "opened", "sent") /\ UNCHANGED fifos
         \/ ClientMoves(c, "opened", "full") /\ UNCHANGED <<queue, fifos>>
         \/ Upper!CleanUp(c, "failed") /\ UNCHANGED queue
  BY DEF Threaded!send_message, Threaded!ClientGoto, ClientMoves, Threaded!CleanUp, Upper!CleanUp
<1>2. ClientsOK  BY Facts DEF Both
<1>3. \E p \in {"sent", "full", "failed"} : client' = [client EXCEPT ![c].pc = p]
  BY <1>1 DEF ClientMoves, Upper!CleanUp
<1>4. /\ GensOK' /\ \A e \in Clients : client'[e].gen = client[e].gen
      /\ \A e \in Clients \ {c} : client'[e] = client[e]
  BY <1>2, <1>3 DEF Both, GensOK, ClientsOK
<1>5. CASE UNCHANGED queue
  <2>1. Kept
    <3>1. CASE Upper!CleanUp(c, "failed")
      BY <1>1, <3>1, CleanedUp DEF Both, Upper!Ended, Upper!FlowInv, Upper!Shapes
    <3>2. CASE ClientMoves(c, "opened", "full") /\ UNCHANGED fifos
      BY <1>1, <3>2, Sends DEF Both
    <3>3. CASE ClientMoves(c, "opened", "sent") /\ UNCHANGED fifos
      BY <1>1, <3>3, Sends DEF Both
    <3>4. QED  BY <1>1, <3>1, <3>2, <3>3
  <2>2. QED  BY <1>1, <1>4, <1>5, <2>1, ClientAlone
<1>6. CASE /\ queue' = [queue EXCEPT ![f] = Append(@, c)]
           /\ ClientMoves(c, "opened", "sent") /\ UNCHANGED fifos
  <2>1. Kept  BY <1>1, <1>6, Sends DEF Both
  <2>2. Upper!FlowInv'  BY <1>1, <2>1, StaysServed DEF Both
  <2>3. f \in Daemons
    BY <1>1, ServicesAssumption DEF Both, GensOK, Daemons, Upper!UpcaseAssumption
  <2>4. c \notin WaitingAt(f) /\ child[c].pc = "none"
    BY <1>1 DEF WaitingAt, Upper!Waits, Both, Upper!FlowInv, Upper!Served, Upper!Before, Upper!Ended
  <2>5. c \in WaitingAt(f)'
    <3>1. client'[c].pc = "sent"  BY <1>2, <1>6 DEF ClientMoves, ClientsOK
    <3>2. QED  BY <1>1, <1>4, <2>4, <3>1 DEF WaitingAt, Upper!Waits
  <2>6. \A g \in Daemons : WaitingAt(g) \subseteq WaitingAt(g)'
    BY <1>4, <2>1 DEF WaitingAt, Kept
  <2>7. PICK q : q = Append(queue[f], c)  OBVIOUS
  <2>8. Asking(queue[f], WaitingAt(f))  BY <2>3 DEF Both, QueuesOK
  <2>9. Asking(q, WaitingAt(f) \cup {c})
    BY <2>4, <2>7, <2>8, AskingAppend
  <2>10. PICK h \in Daemons : h = f  BY <2>3
  <2>11. Asking(q, WaitingAt(h)')
    <3>1. WaitingAt(h) \cup {c} \subseteq WaitingAt(h)'
      BY <1>4, <2>5, <2>6, <2>10 DEF WaitingAt
    <3>2. QED  BY <2>9, <2>10, <3>1, AskingMore
  <2>12. PICK E : E = Seq(Clients)  OBVIOUS
  <2>13. q \in E  BY <2>9, <2>12 DEF Asking
  <2>14. /\ queue' \in [Daemons -> E] /\ queue'[h] = q
         /\ \A g \in Daemons \ {h} : queue'[g] = queue[g]
    <3>1. queue' = [queue EXCEPT ![h] = q]  BY <1>6, <2>7, <2>10
    <3>2. queue \in [Daemons -> E]  BY <2>12 DEF Both, QueuesOK
    <3>3. QED  BY <2>13, <3>1, <3>2
  <2>15. \A g \in Daemons : Asking(queue[g], WaitingAt(g)')
    BY <2>6, AskingMore DEF Both, QueuesOK
  <2>16. QueuesOK'
    BY <1>1, <2>11, <2>12, <2>14, <2>15 DEF Both, QueuesOK
  <2>17. DaemonsOK'  BY <1>1 DEF Both, DaemonsOK
  <2>18. \A e \in Clients : ThreadMoves(e)  BY <1>1 DEF ThreadMoves
  <2>19. \A e \in Clients : LocaleOK(e)'  BY <1>1, <2>17, <2>18, LocalesKept
  <2>20. QED  BY <1>4, <2>2, <2>16, <2>17, <2>19 DEF Both
<1>7. QED  BY <1>1, <1>5, <1>6

\* What it does besides is as in Upcase.
LEMMA OtherSteps ==
    ASSUME Both, NEW c \in Clients,
           \/ Threaded!mkfifo_private(c) \/ Threaded!open_raw(c) \/ Threaded!write_raw(c)
           \/ Threaded!open_upcased(c) \/ Threaded!read_upcased(c),
           UNCHANGED <<daemons, name, queue, served, converted>>
    PROVE  Both'
<1>1. /\ Kept /\ UNCHANGED <<server, public, child>>
      /\ \A e \in Clients : client'[e].gen = client[e].gen
      /\ \A e \in Clients : client'[e].pc = "opened" => client[e].pc = "opened"
  BY SameClient DEF Both
<1>2. GensOK'  BY <1>1 DEF Both, GensOK
<1>3. QED  BY <1>1, <1>2, ClientAlone

\* Every step of the service of chapter 15.
LEMMA ThreadedNext == ASSUME Both, Threaded!TNext PROVE Both'
<1>1. ASSUME NEW d \in Daemons,
             \/ Threaded!StartDaemon(d) \/ Threaded!OpenBoth(d) \/ Threaded!main(d)
             \/ Threaded!sighandler(d) \/ Threaded!Killed(d)
      PROVE  Both'
  BY <1>1, DaemonSteps, MainServes, MainEnds, SignalEnds
<1>2. ASSUME NEW c \in Clients, Threaded!thread(c) \/ Threaded!upcase_client(c) PROVE Both'
  BY <1>2, ThreadSteps, OpensNamed, SendsNamed, OtherSteps DEF Threaded!upcase_client
<1>3. QED  BY <1>1, <1>2, SameWords DEF Threaded!TNext

------------------------------------------------------------------------------
(* Module SplCalc *)

\* The clients are records, and whoever has ended has removed its FIFO.
CalcOK ==
    /\ calc_client = [c \in Clients |-> calc_client[c]]
    /\ \A c \in Clients : DOMAIN calc_client[c] = {"pc", "public_fd", "got"}
    /\ Calc!NoPrivateFifoLeft

\* One client changes, and none but it loses or gets a name.
LEMMA CalcMoves ==
    ASSUME CalcOK, NEW c \in Clients,
           calc_client' = [calc_client EXCEPT ![c] = calc_client'[c]],
           DOMAIN calc_client'[c] = {"pc", "public_fd", "got"},
           calc_fifos' \ {c} = calc_fifos \ {c},
           calc_client'[c].pc \in Calc!Ended \ {"unserved", "abandoned"} => c \notin calc_fifos'
    PROVE  CalcOK'
<1>1. /\ \A e \in Clients \ {c} : calc_client'[e] = calc_client[e]
      /\ calc_client' = [e \in Clients |-> calc_client'[e]]
  BY DEF CalcOK
<1>2. \A e \in Clients : DOMAIN calc_client'[e] = {"pc", "public_fd", "got"}
  BY <1>1 DEF CalcOK
<1>3. Calc!NoPrivateFifoLeft'
  BY <1>1 DEF CalcOK, Calc!NoPrivateFifoLeft
<1>4. QED  BY <1>1, <1>2, <1>3 DEF CalcOK

\* Where the client is, or with which FIFO, changes.
LEMMA CalcGoes ==
    ASSUME CalcOK, NEW c \in Clients, NEW p,
           \/ calc_client' = [calc_client EXCEPT ![c].pc = p]
           \/ \E g : calc_client' = [calc_client EXCEPT ![c].pc = p, ![c].public_fd = g]
           \/ \E g : calc_client' = [calc_client EXCEPT ![c].public_fd = g, ![c].pc = p],
           calc_fifos' \ {c} = calc_fifos \ {c},
           p \in Calc!Ended \ {"unserved", "abandoned"} => c \notin calc_fifos'
    PROVE  CalcOK'
<1>1. \E r : /\ calc_client' = [calc_client EXCEPT ![c] = r] /\ r.pc = p
             /\ DOMAIN r = {"pc", "public_fd", "got"}
  <2>1. PICK q : q = calc_client[c] /\ DOMAIN q = {"pc", "public_fd", "got"}  BY DEF CalcOK
  <2>2. CASE calc_client' = [calc_client EXCEPT ![c].pc = p]
    <3>1. calc_client' = [calc_client EXCEPT ![c] = [q EXCEPT !.pc = p]]  BY <2>1, <2>2 DEF CalcOK
    <3>2. [q EXCEPT !.pc = p].pc = p /\ DOMAIN [q EXCEPT !.pc = p] = {"pc", "public_fd", "got"}
      BY <2>1
    <3>3. QED  BY <3>1, <3>2
  <2>3. ASSUME NEW g, calc_client' = [calc_client EXCEPT ![c].pc = p, ![c].public_fd = g]
        PROVE  \E r : /\ calc_client' = [calc_client EXCEPT ![c] = r] /\ r.pc = p
                      /\ DOMAIN r = {"pc", "public_fd", "got"}
    <3> DEFINE r == [q EXCEPT !.pc = p, !.public_fd = g]
    <3>1. calc_client' = [calc_client EXCEPT ![c] = r]  BY <2>1, <2>3 DEF CalcOK
    <3>2. r.pc = p /\ DOMAIN r = {"pc", "public_fd", "got"}  BY <2>1
    <3>3. QED  BY <3>1, <3>2
  <2>4. ASSUME NEW g, calc_client' = [calc_client EXCEPT ![c].public_fd = g, ![c].pc = p]
        PROVE  \E r : /\ calc_client' = [calc_client EXCEPT ![c] = r] /\ r.pc = p
                      /\ DOMAIN r = {"pc", "public_fd", "got"}
    <3> DEFINE r == [q EXCEPT !.public_fd = g, !.pc = p]
    <3>1. calc_client' = [calc_client EXCEPT ![c] = r]  BY <2>1, <2>4 DEF CalcOK
    <3>2. r.pc = p /\ DOMAIN r = {"pc", "public_fd", "got"}  BY <2>1
    <3>3. QED  BY <3>1, <3>2
  <2>5. QED  BY <2>2, <2>3, <2>4
<1>2. PICK r : /\ calc_client' = [calc_client EXCEPT ![c] = r] /\ r.pc = p
               /\ DOMAIN r = {"pc", "public_fd", "got"}
  BY <1>1
<1>3. calc_client'[c] = r  BY <1>2 DEF CalcOK
<1>4. QED  BY <1>2, <1>3, CalcMoves

\* The server leaves the clients and their names alone.
LEMMA CalcServer ==
    ASSUME CalcOK, UNCHANGED <<calc_client, calc_fifos>> PROVE CalcOK'
  BY DEF CalcOK, Calc!NoPrivateFifoLeft

\* Every step of the calculator service.
LEMMA CalcNext == ASSUME CalcOK, Calc!Next PROVE CalcOK'
<1>1. CASE Calc!mkfifo_public \/ Calc!Serve \/ Calc!on_signal_server
  BY <1>1, CalcServer
     DEF Calc!mkfifo_public, Calc!Serve, Calc!on_signal_server, Calc!OpenPublic,
         Calc!ReadMessage, Calc!TryOpen, Calc!Evaluate, Calc!ClosePrivate
<1>2. ASSUME NEW c \in Clients, Calc!spl_calc(c) \/ Calc!on_signal_client(c) PROVE CalcOK'
  <2>1. CASE Calc!mkfifo_private(c)
    <3>1. /\ calc_client' = [calc_client EXCEPT ![c].pc = "created"]
          /\ calc_fifos' = calc_fifos \cup {c}
      BY <2>1 DEF Calc!mkfifo_private, Calc!Goto
    <3>2. "created" \notin Calc!Ended  BY DEF Calc!Ended
    <3>3. QED  BY <3>1, <3>2, CalcGoes
  <2>2. CASE Calc!open_public(c)
    <3>1. /\ \/ calc_client' = [calc_client EXCEPT ![c].pc = "opened",
                                                   ![c].public_fd = calc_server.gen]
             \/ calc_client' = [calc_client EXCEPT ![c].pc = "unserved"]
          /\ UNCHANGED calc_fifos
      BY <2>2 DEF Calc!open_public, Calc!Goto
    <3>2. PICK g : g = calc_server.gen  OBVIOUS
    <3>3. PICK p \in {"opened", "unserved"} :
            \/ calc_client' = [calc_client EXCEPT ![c].pc = p]
            \/ calc_client' = [calc_client EXCEPT ![c].pc = p, ![c].public_fd = g]
      BY <3>1, <3>2
    <3>4. p \notin Calc!Ended \ {"unserved", "abandoned"}  BY <3>3 DEF Calc!Ended
    <3>5. QED  BY <3>1, <3>3, <3>4, CalcGoes
  <2>3. CASE Calc!send(c)
    <3>1. \/ /\ calc_client' = [calc_client EXCEPT ![c].pc = "sent"] /\ UNCHANGED calc_fifos
          \/ /\ calc_client' = [calc_client EXCEPT ![c].pc = "failed"]
             /\ calc_fifos' = calc_fifos \ {c}
      BY <2>3 DEF Calc!send, Calc!Goto
    <3>2. "sent" \notin Calc!Ended  BY DEF Calc!Ended
    <3>3. QED  BY <3>1, <3>2, CalcGoes
  <2>4. CASE Calc!open_private(c)
    <3>1. /\ UNCHANGED calc_fifos
          /\ \/ calc_client' = [calc_client EXCEPT ![c].pc = "waiting"]
             \/ calc_client' = [calc_client EXCEPT ![c].pc = "reading"]
             \/ c \notin calc_fifos /\ calc_client' = [calc_client EXCEPT ![c].pc = "failed"]
      BY <2>4 DEF Calc!open_private, Calc!Goto
    <3>2. "waiting" \notin Calc!Ended /\ "reading" \notin Calc!Ended  BY DEF Calc!Ended
    <3>3. QED  BY <3>1, <3>2, CalcGoes
  <2>5. CASE Calc!read_private(c)
    <3>1. CASE calc_client' = [calc_client EXCEPT ![c].pc = "done"] /\ calc_fifos' = calc_fifos \ {c}
      BY <3>1, CalcGoes
    <3>2. CASE /\ calc_client' = [calc_client EXCEPT ![c].got = @ \o private[c].data]
               /\ UNCHANGED calc_fifos
      <4>1. PICK q : q = calc_client[c] /\ DOMAIN q = {"pc", "public_fd", "got"}  BY DEF CalcOK
      <4>2. PICK s : s = q.got \o private[c].data  OBVIOUS
      <4> DEFINE r == [q EXCEPT !.got = s]
      <4>3. r.pc = q.pc /\ DOMAIN r = {"pc", "public_fd", "got"}  BY <4>1
      <4>4. calc_client' = [calc_client EXCEPT ![c] = r]  BY <3>2, <4>1, <4>2 DEF CalcOK
      <4>5. calc_client'[c] = r  BY <4>4 DEF CalcOK
      <4> HIDE DEF r
      <4>6. q.pc \in Calc!Ended \ {"unserved", "abandoned"} => c \notin calc_fifos'
        BY <3>2, <4>1 DEF CalcOK, Calc!NoPrivateFifoLeft
      <4>7. QED  BY <3>2, <4>3, <4>4, <4>5, <4>6, CalcMoves
    <3>3. QED  BY <2>5, <3>1, <3>2 DEF Calc!read_private, Calc!Goto
  <2>6. CASE Calc!on_signal_client(c)
    <3>1. PICK p : /\ calc_client' = [calc_client EXCEPT ![c].public_fd = 0, ![c].pc = p]
                   /\ calc_client[c].pc = "created" => p = "abandoned"
      BY <2>6 DEF Calc!on_signal_client, Calc!AfterSignal, CalcOK
    <3>2. calc_fifos' = IF calc_client[c].pc = "created" THEN calc_fifos ELSE calc_fifos \ {c}
      BY <2>6 DEF Calc!on_signal_client
    <3>3. p \in Calc!Ended \ {"unserved", "abandoned"} => c \notin calc_fifos'
      BY <3>1, <3>2
    <3>4. QED  BY <3>1, <3>2, <3>3, CalcGoes
  <2>7. CASE Calc!InstallHandlers(c)
    <3>1. UNCHANGED calc_fifos /\ calc_client' = [calc_client EXCEPT ![c].pc = "ready"]
      BY <2>7 DEF Calc!InstallHandlers, Calc!Goto
    <3>2. "ready" \notin Calc!Ended  BY DEF Calc!Ended
    <3>3. QED  BY <3>1, <3>2, CalcGoes
  <2>8. QED  BY <1>2, <2>1, <2>2, <2>3, <2>4, <2>5, <2>6, <2>7 DEF Calc!spl_calc
<1>3. QED  BY <1>1, <1>2 DEF Calc!Next

------------------------------------------------------------------------------
(* The three services together *)

\* Each program keeps its invariant; the variables of the others stay as they start.
ServicesInv ==
    /\ Upper!FlowInv
    /\ program = "threaded" => Both
    /\ program # "threaded" => \A c \in Clients : converted[c] = {}
    /\ CalcOK

\* It holds at the start.
LEMMA ServicesInit == Init => ServicesInv
<1> SUFFICES ASSUME Init PROVE ServicesInv  OBVIOUS
<1>1. Threaded!TInit /\ Calc!Init  BY DEF Init
<1>2. /\ server = [pc |-> "off", gen |-> 0, sigchld |-> FALSE]
      /\ public = [exists |-> FALSE, msgs |-> <<>>]
      /\ client = [c \in Clients |-> [pc |-> "start", tries |-> 0, n |-> 1, gen |-> 0]]
      /\ child = [c \in Clients |-> [pc |-> "none", tries |-> 0, buf |-> <<>>]]
      /\ fifos = {}
      /\ raw = [c \in Clients |-> [opened |-> FALSE, data |-> <<>>]]
      /\ upcased = [c \in Clients |-> [opened |-> FALSE, data |-> <<>>]]
      /\ output = [c \in Clients |-> <<>>]
  BY <1>1 DEF Threaded!TInit, Threaded!Init
<1>3. <<>> \in Seq(Int) /\ <<>> \in Seq({"upper"} \X Int) /\ <<>> \in Seq(Clients)  OBVIOUS
<1>4. Upper!Shapes
  <2>1. PICK E : E = Seq({"upper"} \X Int) /\ <<>> \in E  BY <1>3
  <2>2. PICK I : I = Seq(Int) /\ <<>> \in I  BY <1>3
  <2>3. "start" \in Upper!Places  BY DEF Upper!Places, Upper!Before
  <2>4. client \in [Clients -> [pc : Upper!Places, tries : Int, n : Int, gen : Int]]
    BY <1>2, <2>3
  <2>5. child \in [Clients -> [pc : {"none"} \cup Upper!Running \cup Upper!Dead, tries : Int,
                               buf : I]]
    BY <1>2, <2>2
  <2>6. /\ raw \in [Clients -> [opened : BOOLEAN, data : I]]
        /\ upcased \in [Clients -> [opened : BOOLEAN, data : E]]
        /\ output \in [Clients -> E]
    BY <1>2, <2>1, <2>2
  <2>7. QED  BY <2>1, <2>2, <2>4, <2>5, <2>6 DEF Upper!Shapes
<1>5. Upper!Served /\ Upper!NoPrivateFifoLeft
  BY <1>2 DEF Upper!Served, Upper!NoPrivateFifoLeft
<1>6. ASSUME NEW c \in Clients PROVE Upper!Flow(c)
  <2>1. output[c] = <<>> /\ Len(output[c]) = 0 /\ upcased[c].data = <<>>  BY <1>2
  <2>2. <<>> = [k \in 1 .. 0 |-> <<"upper", k>>]  OBVIOUS
  <2>3. Upper!Passing(c)  BY <1>2, <2>1 DEF Upper!Passing, Upper!Before
  <2>4. QED  BY <2>1, <2>2, <2>3 DEF Upper!Flow
<1>7. Upper!DaemonOK
  <2>1. Upper!Asks(<<>>)  BY AskingNone, AsksIsAsking, Zenon
  <2>2. public \in [exists : BOOLEAN, msgs : Seq(Clients)]  BY <1>2, <1>3
  <2>3. server \in [pc : {"off", "daemon", "opening", "opened", "serving"}, gen : Int, sigchld : BOOLEAN]
    BY <1>2
  <2>4. public.msgs = <<>>  BY <1>2
  <2>5. QED  BY <2>1, <2>2, <2>3, <2>4 DEF Upper!DaemonOK
<1>8. Upper!FlowInv  BY <1>4, <1>5, <1>6, <1>7 DEF Upper!FlowInv
<1>9. /\ daemons = [d \in Daemons |-> [pc |-> "off", fifo |-> 0, locale |-> "C"]]
      /\ name = 0 /\ queue = [d \in Daemons |-> <<>>]
      /\ served = [c \in Clients |-> 0] /\ converted = [c \in Clients |-> {}]
  BY <1>1, SameWords DEF Threaded!TInit
<1>10. Both
  <2>1. QueuesOK
    <3>1. queue \in [Daemons -> Seq(Clients)]  BY <1>3, <1>9
    <3>2. \A f \in Daemons : queue[f] = <<>>  BY <1>9
    <3>3. QED  BY <1>2, <3>1, <3>2, AskingNone DEF QueuesOK
  <2>2. 0 \in 0 .. MaxStarts  BY ServicesAssumption DEF Upper!UpcaseAssumption
  <2>3. "C" \in Locales  BY DEF Locales
  <2>4. DaemonsOK  BY <1>9, <2>2, <2>3 DEF DaemonsOK
  <2>5. GensOK  BY <1>2, <2>2 DEF GensOK
  <2>6. "none" \notin Upper!Running  BY DEF Upper!Running
  <2>7. \A c \in Clients : LocaleOK(c)  BY <1>2, <1>9, <2>6 DEF LocaleOK
  <2>8. QED  BY <1>8, <2>1, <2>4, <2>5, <2>7 DEF Both
<1>11. \A c \in Clients : converted[c] = {}  BY <1>9
<1>12. CalcOK
  <2>1. calc_client = [c \in Clients |-> [pc |-> "start", public_fd |-> 0, got |-> <<>>]]
    BY <1>1 DEF Calc!Init
  <2>2. QED  BY <2>1 DEF CalcOK, Calc!NoPrivateFifoLeft, Calc!Ended
<1>13. QED  BY <1>8, <1>10, <1>11, <1>12 DEF ServicesInv

\* A step of another service, or none
LEMMA OthersRun ==
    ASSUME ServicesInv, UNCHANGED <<program, upcase_vars, threaded_vars>>
    PROVE  /\ Upper!FlowInv' /\ (program = "threaded" => Both')
           /\ program # "threaded" => \A c \in Clients : converted'[c] = {}
<1>1. /\ UNCHANGED <<server, public, client, child, fifos, raw, upcased, output>>
      /\ UNCHANGED <<daemons, name, queue, served, converted>>
  BY DEF upcase_vars, threaded_vars
<1>2. Upper!FlowInv'
  <2>1. Kept  BY <1>1, Idles DEF ServicesInv
  <2>2. QED  BY <1>1, <2>1, StaysServed DEF ServicesInv
<1>3. ASSUME program = "threaded" PROVE Both'
  <2>1. Both  BY <1>3 DEF ServicesInv
  <2>2. DaemonsOK'  BY <1>1, <2>1 DEF Both, DaemonsOK
  <2>3. QED  BY <1>1, <2>1, <2>2, DaemonAlone
<1>4. QED  BY <1>1, <1>2, <1>3 DEF ServicesInv

\* Every step keeps it.
LEMMA ServicesNext == ServicesInv /\ [Next]_vars => ServicesInv'
<1> SUFFICES ASSUME ServicesInv, [Next]_vars PROVE ServicesInv'  OBVIOUS
<1>1. CASE UpcaseStep(Upper!Next)
  <2>1. /\ program = "upcase" /\ UNCHANGED program /\ Upper!Next
        /\ UNCHANGED <<threaded_vars, calc_vars>>
    BY <1>1 DEF UpcaseStep, Run
  <2>2. Upper!FlowInv'  BY <2>1, UpperNext DEF ServicesInv
  <2>3. CalcOK'  BY <2>1, CalcServer DEF ServicesInv, calc_vars
  <2>4. QED  BY <2>1, <2>2, <2>3 DEF ServicesInv, threaded_vars
<1>2. CASE ThreadedStep(Threaded!TNext)
  <2>1. /\ program = "threaded" /\ UNCHANGED program /\ Threaded!TNext
        /\ UNCHANGED calc_vars
    BY <1>2 DEF ThreadedStep, Run
  <2>2. Both'  BY <2>1, ThreadedNext DEF ServicesInv
  <2>3. CalcOK'  BY <2>1, CalcServer DEF ServicesInv, calc_vars
  <2>4. QED  BY <2>1, <2>2, <2>3 DEF ServicesInv, Both
<1>3. CASE CalcStep(Calc!Next)
  <2>1. Calc!Next /\ UNCHANGED <<program, upcase_vars, threaded_vars>>
    BY <1>3 DEF CalcStep, Run
  <2>2. CalcOK'  BY <2>1, CalcNext DEF ServicesInv
  <2>3. QED  BY <2>1, <2>2, OthersRun DEF ServicesInv
<1>4. CASE UNCHANGED vars
  <2>1. UNCHANGED <<program, upcase_vars, threaded_vars, calc_vars>>  BY <1>4 DEF vars
  <2>2. CalcOK'  BY <2>1, CalcServer DEF ServicesInv, calc_vars
  <2>3. QED  BY <2>1, <2>2, OthersRun DEF ServicesInv
<1>5. QED  BY <1>1, <1>2, <1>3, <1>4 DEF Next

\* The inductive invariant of the services
THEOREM ServicesInvariant == Spec => []ServicesInv
<1>1. Init /\ [][Next]_vars => []ServicesInv  BY ServicesInit, ServicesNext, PTL
<1>2. QED  BY <1>1, PTL DEF Spec

\* upcase.c, both services: a client's output is its text converted, chunk after
\* chunk, for any number of clients, chunks and starts of the daemon, wherever a
\* client, a child or a daemon is ended.
THEOREM OutputConverted == Spec => []OutputIsConverted
<1>1. ServicesInv => OutputIsConverted
  BY DEF ServicesInv, Upper!FlowInv, Upper!Flow, OutputIsConverted, Upper!OutputIsConverted
<1>2. QED  BY <1>1, ServicesInvariant, PTL

\* upcase.c, spl_calc_client.c: clients that end remove their private FIFOs, but for
\* the exits at upcase.c:151 and spl_calc_client.c:114, and for a signal that comes
\* before spl_calc_client.c has installed its handlers (lines 92-106).
THEOREM FifosRemoved == Spec => []NoPrivateFifoLeft
<1>1. ServicesInv => NoPrivateFifoLeft
  BY DEF ServicesInv, Upper!FlowInv, CalcOK, NoPrivateFifoLeft
<1>2. QED  BY <1>1, ServicesInvariant, PTL

\* threaded_upcased.c: a text is converted in the locale of a client that the same
\* daemon serves.
THEOREM LocaleServed == Spec => []LocaleOfAClientServed
<1>1. ServicesInv => LocaleOfAClientServed
  <2>1. CASE program = "threaded"
    <3>1. ServicesInv => Threaded!ThreadedInv
      BY <2>1, ThreadedIs DEF ServicesInv, Both
    <3>2. QED  BY <3>1 DEF Threaded!ThreadedInv, LocaleOfAClientServed
  <2>2. CASE program # "threaded"
    BY <2>2 DEF ServicesInv, LocaleOfAClientServed, Threaded!LocaleOfAClientServed
  <2>3. QED  BY <2>1, <2>2
<1>2. QED  BY <1>1, ServicesInvariant, PTL
===============================================================================
