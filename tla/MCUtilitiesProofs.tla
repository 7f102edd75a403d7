-------------------------- MODULE MCUtilitiesProofs --------------------------
(***************************************************************************)
(* Proofs about the programs of one thread whose signal handlers share     *)
(* state with main(): chapter09/watchfiles.c,                              *)
(* chapter11/sighandler_wait_demo.c, chapter19/sprite.c (and               *)
(* sprite_curses.c) and chapter17/sigio_demo.c; about the hash table of    *)
(* common/hash.c, for any items, width of a word and initial size; and     *)
(* about chapter05/spl_last.c, for a file of any records.  Each has an     *)
(* inductive invariant; UtilitiesInv says that the program that runs has   *)
(* its own.                                                                *)
(*                                                                         *)
(* The table and the list need induction on numbers.  The theorems of the  *)
(* library take a predicate as a parameter, which no prover here can       *)
(* instantiate; its statement that < is well founded has none, and a set   *)
(* stands in for the predicate.                                            *)
(***************************************************************************)
EXTENDS MCUtilities, FiniteSetTheorems, SequenceTheorems, WellFoundedInduction, TLAPS

(* induction on numbers, and the recursion of a fold *)

\* A set of numbers that has a member has a least one.
LEMMA Least ==
  ASSUME NEW T \in SUBSET Nat, T # {}
  PROVE  \E x \in T : \A y \in T : ~(y < x)
<1> DEFINE R == {ss \in Nat \X Nat : ss[1] < ss[2]}
<1>1. IsWellFoundedOn(R, Nat)
  BY NatLessThanWellFounded DEF OpToRel
<1>2. PICK x \in T : \A y \in T : ~(<<y, x>> \in R)
  BY ONLY <1>1, WFMin, T \in SUBSET Nat, T # {}
<1>3. \A y \in T : y < x => <<y, x>> \in R
  OBVIOUS
<1> QED BY <1>2, <1>3

\* Induction, for a set of numbers in place of a predicate.
LEMMA Induct ==
  ASSUME NEW P \in SUBSET Nat, 0 \in P, \A n \in P : n + 1 \in P
  PROVE  P = Nat
<1>1. SUFFICES ASSUME Nat \ P # {} PROVE FALSE
  OBVIOUS
<1>2. PICK x \in Nat \ P : \A y \in Nat \ P : ~(y < x)
  BY Least, <1>1
<1>3. x - 1 \in Nat /\ x - 1 < x
  BY <1>2
<1>4. x - 1 \in P /\ (x - 1) + 1 = x
  BY <1>2, <1>3
<1> QED BY <1>2, <1>4

\* The first and the last of some numbers, as the community modules name them
Smallest(T) == CHOOSE x \in T : \A y \in T : x =< y
Greatest(T) == CHOOSE x \in T : \A y \in T : x >= y

\* Numbers that are bounded have a first and a last.
LEMMA Extremes ==
  ASSUME NEW n \in Nat, NEW T \in SUBSET (0 .. n), T # {}
  PROVE  /\ Smallest(T) \in T /\ \A y \in T : Smallest(T) <= y
         /\ Greatest(T) \in T /\ \A y \in T : y <= Greatest(T)
<1>1. \E x \in T : \A y \in T : x =< y
  <2>1. PICK x \in T : \A y \in T : ~(y < x)
    BY Least
  <2> QED BY <2>1
<1>2. \E x \in T : \A y \in T : x >= y
  <2> DEFINE D == {m \in 0 .. n : n - m \in T}
  <2>1. PICK x \in T : TRUE
    OBVIOUS
  <2> x \in 0 .. n
    OBVIOUS
  <2>2. n - x \in D
    <3>1. PICK z \in 0 .. n : z = n - x /\ n - z = x
      OBVIOUS
    <3>2. z \in D
      BY <3>1
    <3> QED BY <3>1, <3>2
  <2>3. D \in SUBSET Nat /\ D # {}
    <3>1. D # {}
      <4> HIDE DEF D
      <4> QED BY <2>2
    <3>2. \A m \in D : m \in Nat
      OBVIOUS
    <3> QED BY <3>1, <3>2
  <2> HIDE DEF D
  <2>4. PICK m \in D : \A y \in D : ~(y < m)
    BY <2>3, Least
  <2> USE DEF D
  <2>5. m \in 0 .. n /\ n - m \in T
    OBVIOUS
  <2>6. ASSUME NEW y \in T PROVE n - m >= y
    <3> y \in 0 .. n
      OBVIOUS
    <3>1. n - y \in D
      <4>1. PICK z \in 0 .. n : z = n - y /\ n - z = y
        OBVIOUS
      <4>2. z \in D
        BY <4>1
      <4> QED BY <4>1, <4>2
    <3>2. ~(n - y < m)
      BY <2>4, <3>1
    <3> QED BY <2>5, <3>2
  <2> QED BY <2>5, <2>6
<1> QED BY <1>1, <1>2, Zenon DEF Smallest, Greatest

\* A set of numbers up to n is finite.
LEMMA SomeOf ==
  ASSUME NEW n \in Nat
  PROVE  /\ Cardinality(1 .. n) = n
         /\ \A S \in SUBSET (1 .. n) : /\ IsFiniteSet(S) /\ Cardinality(S) \in Nat
                                       /\ Cardinality(S) <= n
<1>1. IsFiniteSet(1 .. n) /\ Cardinality(1 .. n) = IF 1 > n THEN 0 ELSE n - 1 + 1
  BY FS_Interval
<1>2. Cardinality(1 .. n) = n
  BY <1>1
<1>3. ASSUME NEW S \in SUBSET (1 .. n)
      PROVE  IsFiniteSet(S) /\ Cardinality(S) <= n
  BY <1>1, <1>2, FS_Subset
<1> QED BY <1>2, <1>3, FS_CardinalityType

\* The last of some numbers is one of them, and there are fewer without it.
LEMMA Fewer ==
  ASSUME NEW n \in Nat, NEW S \in SUBSET (1 .. n), S # {}
  PROVE  /\ Greatest(S) \in S /\ IsFiniteSet(S) /\ Cardinality(S) \in Nat
         /\ Cardinality(S \ {Greatest(S)}) = Cardinality(S) - 1
<1>1. S \in SUBSET (0 .. n)
  OBVIOUS
<1>2. Greatest(S) \in S
  BY <1>1, Extremes
<1>3. IsFiniteSet(S)
  BY SomeOf
<1> QED BY <1>2, <1>3, FS_RemoveElement, FS_CardinalityType

\* The last of the first j numbers is j.
LEMMA LastOfFirst ==
  ASSUME NEW j \in Nat, j > 0
  PROVE  Greatest(1 .. j) = j /\ (1 .. j) \ {j} = 1 .. j - 1 /\ 1 .. j # {}
<1>1. (1 .. j) \in SUBSET (0 .. j) /\ j \in 1 .. j
  OBVIOUS
<1>2. Greatest(1 .. j) \in 1 .. j /\ \A y \in 1 .. j : y <= Greatest(1 .. j)
  BY <1>1, Extremes
<1> QED BY <1>1, <1>2

\* The recursion of a fold over a list: to what was made of the numbers before,
\* the last is added.
Folding(base, op, it, S) ==
    IF S = {} THEN base ELSE op[<<it[S \ {Greatest(S)}], Greatest(S)>>]

HasFold(n, D, base, op) ==
    \E g \in [SUBSET (1 .. n) -> D] :
        \A S \in SUBSET (1 .. n) : g[S] = Folding(base, op, g, S)

\* It has a solution.
LEMMA FoldDefined ==
  ASSUME NEW n \in Nat, NEW D, NEW base \in D, NEW op \in [D \X (1 .. n) -> D]
  PROVE  HasFold(n, D, base, op)
<1> DEFINE Small(m) == {S \in SUBSET (1 .. n) : Cardinality(S) <= m}
           Good(m, g) == g \in [Small(m) -> D] /\ \A S \in Small(m) : g[S] = Folding(base, op, g, S)
           P == {m \in Nat : \E g : Good(m, g)}
<1>0. \A S \in SUBSET (1 .. n) : IsFiniteSet(S) /\ Cardinality(S) \in Nat
  BY SomeOf
<1>1. 0 \in P
  <2> DEFINE g == [S \in Small(0) |-> base]
  <2>1. \A S \in Small(0) : S = {}
    BY <1>0, FS_EmptySet
  <2>2. Good(0, g)
    BY <2>1 DEF Folding
  <2> QED BY <2>2
<1>2. ASSUME NEW m \in P PROVE m + 1 \in P
  <2> m \in Nat OBVIOUS
  <2>1. PICK g : Good(m, g)
    OBVIOUS
  <2> DEFINE G == [S \in Small(m + 1) |-> Folding(base, op, g, S)]
  <2>2. ASSUME NEW S \in Small(m + 1), S # {}
        PROVE  /\ S \ {Greatest(S)} \in Small(m) /\ S \ {Greatest(S)} \in Small(m + 1)
               /\ Greatest(S) \in 1 .. n
    <3>1. /\ Cardinality(S \ {Greatest(S)}) = Cardinality(S) - 1 /\ Cardinality(S) \in Nat
          /\ Greatest(S) \in S
      BY <2>2, Fewer
    <3>2. Cardinality(S) <= m + 1
      OBVIOUS
    <3>3. Cardinality(S \ {Greatest(S)}) <= m
      BY <3>1, <3>2
    <3>4. Cardinality(S \ {Greatest(S)}) <= m + 1
      BY <3>1, <3>2
    <3> QED BY <3>1, <3>3, <3>4
  <2>3. ASSUME NEW S \in Small(m) PROVE S \in Small(m + 1) /\ G[S] = g[S]
    <3>1. Cardinality(S) <= m /\ Cardinality(S) \in Nat BY <1>0
    <3>2. S \in Small(m + 1) BY <3>1
    <3> QED BY <2>1, <3>2
  <2>4. ASSUME NEW S \in Small(m + 1) PROVE G[S] = Folding(base, op, G, S) /\ G[S] \in D
    <3>1. CASE S = {}
      BY <3>1 DEF Folding
    <3>2. CASE S # {}
      <4>1. G[S \ {Greatest(S)}] = g[S \ {Greatest(S)}] /\ g[S \ {Greatest(S)}] \in D
        BY <2>1, <2>2, <2>3, <3>2
      <4>2. G[S] = Folding(base, op, g, S)
        OBVIOUS
      <4> HIDE DEF G
      <4>3. G[S] = op[<<g[S \ {Greatest(S)}], Greatest(S)>>]
        BY <3>2, <4>2 DEF Folding
      <4>4. <<g[S \ {Greatest(S)}], Greatest(S)>> \in D \X (1 .. n)
        BY <2>2, <3>2, <4>1
      <4>5. op[<<g[S \ {Greatest(S)}], Greatest(S)>>] \in D
        BY <4>4
      <4> QED BY <3>2, <4>1, <4>3, <4>5, Zenon DEF Folding
    <3> QED BY <3>1, <3>2
  <2>5. Good(m + 1, G)
    BY <2>4
  <2> HIDE DEF G, Good
  <2> QED BY <2>5
<1>3. P = Nat
  <2> HIDE DEF P
  <2>1. P \in SUBSET Nat BY DEF P
  <2> QED BY <1>1, <1>2, <2>1, Induct
<1>4. PICK g : Good(n, g)
  BY <1>3
<1>5. Small(n) = SUBSET (1 .. n)
  BY SomeOf
<1> QED BY <1>4, <1>5, Zenon DEF HasFold
------------------------------------------------------------------------------
(* watchfiles.c *)
\* The handlers that may be on the stack
WatchFrame == {"update", "cleanup", "raise"}

\* The handler's place, the timer and the stack
WatchTypeOK ==
    /\ update \in [at : Nat, changed : BOOLEAN]
    /\ timer \in [armed : BOOLEAN, pending : BOOLEAN]
    /\ frames \in Seq(WatchFrame)
    /\ freed \in Nat

\* Once main() has disarmed the timer it stays so, and main() frees the arrays only
\* when no tick is pending either; whoever else has freed them is sig_handler(),
\* which is still on the stack.
WatchInv ==
    /\ WatchTypeOK
    /\ watch_pc \in {"cleanup", "freed", "exit"} => ~timer.armed
    /\ watch_pc \in {"freed", "exit"} => update.at = 0 /\ ~timer.pending
    /\ (\E k \in DOMAIN frames : frames[k] = "update") <=> update.at # 0
    /\ \A k, l \in DOMAIN frames : frames[k] = "update" /\ frames[l] = "update" => k = l
    /\ freed > 0 => watch_pc \in {"freed", "exit"} \/ \E k \in DOMAIN frames : frames[k] = "raise"
    /\ freed > 1 => \E k \in DOMAIN frames : frames[k] = "raise"
    /\ watch_pc = "freed" => freed > 0
    /\ watch_pc = "exit" => frames = <<>> /\ freed = 1

\* main() starts with the handler at rest and nothing freed.
LEMMA WatchInit == ASSUME Watch!WatchAssumption, Watch!Init PROVE WatchInv
BY DEF Watch!Init, WatchInv, WatchTypeOK

\* A handler that begins is put on top of those that run already,
LEMMA Pushed ==
    ASSUME NEW s \in Seq(WatchFrame), NEW f \in WatchFrame
    PROVE  /\ Append(s, f) \in Seq(WatchFrame)
           /\ DOMAIN Append(s, f) = DOMAIN s \cup {Len(s) + 1} /\ Len(s) + 1 \notin DOMAIN s
           /\ \A k \in DOMAIN s : Append(s, f)[k] = s[k]
           /\ Append(s, f)[Len(s) + 1] = f
  OBVIOUS

\* and one that returns leaves the others where they were.
LEMMA Popped ==
    ASSUME NEW s \in Seq(WatchFrame), s # <<>>
    PROVE  LET rest == SubSeq(s, 1, Len(s) - 1) IN
           /\ rest \in Seq(WatchFrame)
           /\ Len(s) \in DOMAIN s /\ DOMAIN rest = DOMAIN s \ {Len(s)}
           /\ \A k \in DOMAIN rest : rest[k] = s[k]
<1>1. Len(s) \in Nat /\ Len(s) >= 1 /\ DOMAIN s = 1 .. Len(s)
  OBVIOUS
<1>2. PICK n \in Nat : Len(s) = n + 1
  <2>1. Len(s) - 1 \in Nat /\ Len(s) = (Len(s) - 1) + 1
    BY <1>1
  <2> QED BY <2>1, Zenon
<1>3. /\ SubSeq(s, 1, n) \in Seq(WatchFrame) /\ Len(SubSeq(s, 1, n)) = n
      /\ \A k \in 1 .. n : SubSeq(s, 1, n)[k] = s[k]
  BY <1>1, <1>2
<1> QED BY <1>1, <1>2, <1>3

\* The function that runs is the one on top.
LEMMA OnTop ==
    ASSUME WatchTypeOK, NEW f \in WatchFrame, Watch!Top = f
    PROVE  frames # <<>> /\ Len(frames) \in DOMAIN frames /\ frames[Len(frames)] = f
BY DEF Watch!Top, WatchTypeOK, WatchFrame

\* The statements of update_stats() keep WatchInv,
LEMMA WatchUpdates ==
    ASSUME Watch!WatchAssumption, WatchInv, Watch!update_stats PROVE WatchInv'
<1> USE DEF Watch!Ended, Watch!stats, Watch!files, Watch!stack
<1>0. WatchTypeOK
  BY DEF WatchInv
<1>1. CASE Watch!Enter
  <2>1. frames' = Append(frames, "update") /\ "update" \in WatchFrame
    BY <1>1 DEF Watch!Enter, WatchFrame
  <2>2. \A k \in DOMAIN frames : frames[k] # "update"
    BY <1>1 DEF Watch!Enter, WatchInv
  <2>3. /\ frames' \in Seq(WatchFrame)
        /\ DOMAIN frames' = DOMAIN frames \cup {Len(frames) + 1}
        /\ \A k \in DOMAIN frames : frames'[k] = frames[k]
        /\ frames'[Len(frames) + 1] = "update"
    BY <1>0, <2>1, Pushed DEF WatchTypeOK
  <2>4. /\ update' = [at |-> 1, changed |-> FALSE] /\ timer' = [timer EXCEPT !.pending = FALSE]
        /\ UNCHANGED <<watch_pc, freed>> /\ watch_pc \notin {"freed", "exit"}
    BY <1>1 DEF Watch!Enter, WatchInv
  <2>5. WatchTypeOK'
    BY <1>0, <2>3, <2>4 DEF WatchTypeOK
  <2>6. \A k, l \in DOMAIN frames' : frames'[k] = "update" /\ frames'[l] = "update" => k = l
    BY <2>2, <2>3
  <2>7. (\E k \in DOMAIN frames : frames[k] = "raise") => \E k \in DOMAIN frames' : frames'[k] = "raise"
    BY <2>3
  <2>8. \E k \in DOMAIN frames' : frames'[k] = "update"
    BY <2>3
  <2>9. watch_pc = "cleanup" => ~timer'.armed
    BY <1>0, <2>4 DEF WatchInv, WatchTypeOK
  <2> QED BY <2>4, <2>5, <2>6, <2>7, <2>8, <2>9 DEF WatchInv
<1>2. CASE Watch!Stat
  BY <1>2 DEF Watch!Stat, Watch!WatchAssumption, Watch!Files, WatchInv, WatchTypeOK
<1>3. CASE Watch!StatFreed
  <2>1. \E k \in DOMAIN frames : frames[k] = "update"
    BY <1>0, <1>3, OnTop DEF Watch!StatFreed, WatchFrame
  <2>2. watch_pc \notin {"freed", "exit"}
    BY <2>1 DEF WatchInv
  <2> QED BY <1>3, <2>2 DEF Watch!StatFreed, Watch!WatchAssumption, Watch!Files, WatchInv, WatchTypeOK
<1>4. CASE Watch!Leave
  <2>1. frames # <<>> /\ Len(frames) \in DOMAIN frames /\ frames[Len(frames)] = "update"
    BY <1>0, <1>4, OnTop DEF Watch!Leave, WatchFrame
  <2>2. /\ frames' \in Seq(WatchFrame)
        /\ DOMAIN frames' = DOMAIN frames \ {Len(frames)}
        /\ \A k \in DOMAIN frames' : frames'[k] = frames[k]
    BY <1>0, <1>4, <2>1, Popped DEF Watch!Leave, WatchTypeOK
  <2>3. \A k \in DOMAIN frames' : frames'[k] # "update"
    BY <2>1, <2>2 DEF WatchInv
  <2>4. \A k \in DOMAIN frames : frames[k] = "raise" => k \in DOMAIN frames' /\ frames'[k] = "raise"
    BY <2>1, <2>2
  <2>5. watch_pc' \in {"freed", "exit"} <=> watch_pc \in {"freed", "exit"}
    BY <1>4 DEF Watch!Leave
  <2>6. watch_pc \notin {"freed", "exit"}
    BY <2>1 DEF WatchInv
  <2>7. freed > 0 => \E k \in DOMAIN frames' : frames'[k] = "raise"
    BY <2>4, <2>6 DEF WatchInv
  <2>8. watch_pc' = watch_pc \/ watch_pc' = "test"
    BY <1>4 DEF Watch!Leave
  <2>9. freed > 1 => \E k \in DOMAIN frames' : frames'[k] = "raise"
    BY <2>4 DEF WatchInv
  <2> QED BY <1>4, <2>2, <2>3, <2>6, <2>7, <2>8, <2>9 DEF Watch!Leave, WatchInv, WatchTypeOK
<1> QED BY <1>1, <1>2, <1>3, <1>4 DEF Watch!update_stats

\* and so does every other step.
LEMMA WatchNext == ASSUME Watch!WatchAssumption, WatchInv, Watch!Next PROVE WatchInv'
<1> USE DEF Watch!Ended, Watch!stats, Watch!files, Watch!stack
<1>0. WatchTypeOK
  BY DEF WatchInv
<1>1. CASE Watch!Change  BY <1>1 DEF Watch!Change, WatchInv, WatchTypeOK
<1>2. CASE Watch!Tick  BY <1>2 DEF Watch!Tick, WatchInv, WatchTypeOK
<1>3. CASE Watch!update_stats  BY <1>3, WatchUpdates
<1>4. CASE Watch!Test  BY <1>4 DEF Watch!Test, Watch!Top, WatchInv, WatchTypeOK
<1>5. CASE Watch!Disarm  BY <1>5 DEF Watch!Disarm, Watch!Top, WatchInv, WatchTypeOK
<1>6. CASE Watch!Read  BY <1>6 DEF Watch!Read, Watch!Top, WatchInv, WatchTypeOK
<1>7. ASSUME Watch!Top = "main" PROVE frames = <<>>
  BY <1>0, <1>7 DEF Watch!Top, WatchTypeOK, WatchFrame
<1>8. CASE Watch!cleanup
  <2>1. frames = <<>>  BY <1>7, <1>8 DEF Watch!cleanup
  <2>2. freed = 0 /\ freed' = 1  BY <1>8, <2>1 DEF Watch!cleanup, WatchInv, WatchTypeOK
  <2>3. update.at = 0
    \* An update would be on the stack.
    BY <1>8, <2>1 DEF Watch!cleanup, WatchInv
  <2> QED BY <1>8, <2>1, <2>2, <2>3 DEF Watch!cleanup, WatchInv, WatchTypeOK
<1>9. CASE Watch!Exit
  <2>1. frames = <<>>  BY <1>7, <1>9 DEF Watch!Exit
  <2> QED BY <1>9, <2>1 DEF Watch!Exit, WatchInv, WatchTypeOK
<1>10. CASE Watch!Quit
  <2>1. frames' = Append(frames, "cleanup") /\ "cleanup" \in WatchFrame
    BY <1>10 DEF Watch!Quit, WatchFrame
  <2>2. /\ frames' \in Seq(WatchFrame)
        /\ DOMAIN frames' = DOMAIN frames \cup {Len(frames) + 1}
        /\ \A k \in DOMAIN frames : frames'[k] = frames[k]
        /\ frames'[Len(frames) + 1] = "cleanup"
    BY <1>0, <2>1, Pushed DEF WatchTypeOK
  <2> QED BY <1>10, <2>2 DEF Watch!Quit, WatchInv, WatchTypeOK
<1>11. CASE Watch!sig_handler
  <2>1. CASE Watch!Top = "cleanup"
    <3>1. frames # <<>> /\ Len(frames) \in DOMAIN frames /\ frames[Len(frames)] = "cleanup"
      BY <1>0, <2>1, OnTop DEF WatchFrame
    <3>2. /\ frames' = [frames EXCEPT ![Len(frames)] = "raise"] /\ freed' = freed + 1
          /\ UNCHANGED <<watch_pc, update, timer>>
      BY <1>11, <2>1 DEF Watch!sig_handler
    <3>3. /\ frames' \in Seq(WatchFrame) /\ DOMAIN frames' = DOMAIN frames
          /\ frames'[Len(frames)] = "raise"
          /\ \A k \in DOMAIN frames : k # Len(frames) => frames'[k] = frames[k]
      BY <1>0, <3>1, <3>2 DEF WatchTypeOK, WatchFrame
    <3>4. watch_pc # "exit"
      BY <3>1 DEF WatchInv
    <3> QED BY <3>1, <3>2, <3>3, <3>4 DEF WatchInv, WatchTypeOK
  <2>2. CASE Watch!Top = "raise"
    <3>1. Len(frames) \in DOMAIN frames /\ frames[Len(frames)] = "raise"
      BY <1>0, <2>2, OnTop DEF WatchFrame
    <3> QED BY <1>11, <2>2, <3>1 DEF Watch!sig_handler, WatchInv, WatchTypeOK
  <2> QED BY <1>11, <2>1, <2>2 DEF Watch!sig_handler
<1> QED BY <1>1, <1>2, <1>3, <1>4, <1>5, <1>6, <1>8, <1>9, <1>10, <1>11
        DEF Watch!Next, Watch!main

\* So the arrays are in use, but for what sig_handler() does.
LEMMA WatchSafe == ASSUME WatchInv PROVE Watch!ArraysInUse
<1>0. WatchTypeOK
  BY DEF WatchInv
<1>1. ASSUME Watch!Top = "update" PROVE watch_pc \notin {"freed", "exit"}
  BY <1>0, <1>1, OnTop DEF WatchInv, WatchFrame
<1>2. (\E k \in DOMAIN frames : frames[k] = "raise") => Watch!Frames("raise") # {}
  BY DEF Watch!Frames
<1> QED BY <1>1, <1>2 DEF WatchInv, Watch!ArraysInUse

(* sighandler_wait_demo.c *)
\* The states of a child, and the codes of a signal
KidState == {"unborn", "running", "stopped", "zombie", "reaped"}
Code     == {"ended", "running", "stopped"}
Sig      == [pid : Wait!Children, code : Code] \cup {Wait!NoSignal}

WaitTypeOK ==
    /\ kids \in [Wait!Children -> [state : KidState, news : BOOLEAN]]
    /\ sigchld \in Sig /\ handler \in Sig
    /\ sigchld_count \in Nat /\ sleeps \in Nat
    /\ wait_pc \in {"fork", "sleep", "reap", "leave", "exit"}

\* The child of a signal that tells of an end has ended: it stays so, whatever
\* the signal waits for.
Ended(s) == s # Wait!NoSignal /\ s.code = "ended" => kids[s.pid].state \in {"zombie", "reaped"}
WaitReaped == {c \in Wait!Children : kids[c].state = "reaped"}

\* Children are forked once, in order; what is counted is no more than what is
\* reaped; main() leaves its last loop when all are reaped.
WaitInv ==
    /\ WaitTypeOK
    /\ Ended(sigchld) /\ Ended(handler)
    /\ wait_pc = "fork" => /\ sleeps \in Wait!Children
                           /\ \A c \in Wait!Children : c >= sleeps => kids[c].state = "unborn"
    /\ wait_pc \in {"leave", "exit"} => WaitReaped = Wait!Children
    /\ sigchld_count <= Cardinality(WaitReaped)

\* No child has been forked, none is counted.
LEMMA WaitInit == ASSUME Wait!WaitAssumption, Wait!Init PROVE WaitInv
<1>1. WaitTypeOK
  BY DEF Wait!Init, WaitTypeOK, Sig, KidState
<1>2. 0 \in Wait!Children
  BY DEF Wait!WaitAssumption, Wait!Children
<1>3. WaitReaped = {}
  BY DEF Wait!Init, WaitReaped
<1>4. Cardinality(WaitReaped) = 0
  BY <1>3, FS_EmptySet
<1>5. /\ sigchld = Wait!NoSignal /\ handler = Wait!NoSignal
      /\ wait_pc = "fork" /\ sigchld_count = 0 /\ sleeps = 0
  BY DEF Wait!Init
<1>6. Ended(sigchld) /\ Ended(handler)
  BY <1>5 DEF Ended
<1>7. \A c \in Wait!Children : kids[c].state = "unborn"
  BY DEF Wait!Init
<1> QED BY <1>1, <1>2, <1>4, <1>5, <1>6, <1>7 DEF WaitInv

\* The number of children that are reaped, and that of one more
LEMMA ReapedFinite ==
    ASSUME Wait!WaitAssumption
    PROVE  /\ IsFiniteSet(WaitReaped) /\ Cardinality(WaitReaped) \in Nat
           /\ \A c \in Wait!Children : c \notin WaitReaped =>
                 Cardinality(WaitReaped \cup {c}) = Cardinality(WaitReaped) + 1
<1>1. IsFiniteSet(Wait!Children)
  BY FS_Interval DEF Wait!Children, Wait!WaitAssumption
<1>2. WaitReaped \subseteq Wait!Children
  BY DEF WaitReaped
<1>3. IsFiniteSet(WaitReaped)
  BY <1>1, <1>2, FS_Subset
<1> QED BY <1>3, FS_CardinalityType, FS_AddElement

\* fork's loop counts up, and ends at the number of children.
LEMMA NextIndex ==
    ASSUME NEW n \in Nat \ {0}, NEW a \in 0 .. n - 1
    PROVE  (a + 1) % n = IF a + 1 = n THEN 0 ELSE a + 1
<1>1. CASE a + 1 = n  BY <1>1, Z3
<1>2. CASE a + 1 < n  BY <1>2, Z3
<1> QED BY <1>1, <1>2

\* Every step of a child, of the handler and of main() keeps WaitInv.
LEMMA WaitNext == ASSUME Wait!WaitAssumption, WaitInv, Wait!Next PROVE WaitInv'
<1> USE DEF WaitInv, WaitTypeOK
<1> DEFINE same == WaitReaped' = WaitReaped
<1>1. ASSUME NEW c \in Wait!Children, Wait!End(c) PROVE WaitInv'
  <2>1. WaitTypeOK'
    BY <1>1 DEF Wait!End, Wait!Raise, Sig, Code, KidState
  <2>2. WaitReaped' = WaitReaped
    BY <1>1 DEF Wait!End, WaitReaped, Wait!Alive
  <2>3. Ended(sigchld)' /\ Ended(handler)'
    BY <1>1 DEF Wait!End, Wait!Raise, Ended, Sig, Wait!Alive
  <2>4. wait_pc = "fork" => kids[c].state # "unborn"
    BY <1>1 DEF Wait!End, Wait!Alive
  <2>5. (wait_pc = "fork" => /\ sleeps \in Wait!Children
                             /\ \A k \in Wait!Children : k >= sleeps => kids[k].state = "unborn")'
    BY <1>1, <2>4 DEF Wait!End
  <2> QED BY <1>1, <2>1, <2>2, <2>3, <2>5 DEF Wait!End
<1>2. ASSUME NEW c \in Wait!Children, NEW from \in {"running", "stopped"},
             NEW to \in {"running", "stopped"},
             Wait!Switch(c, from, to)
      PROVE WaitInv'
  <2>1. WaitTypeOK'
    BY <1>2 DEF Wait!Switch, Wait!Raise, Sig, Code, KidState
  <2>2. WaitReaped' = WaitReaped
    BY <1>2 DEF Wait!Switch, WaitReaped
  <2>3. Ended(sigchld)' /\ Ended(handler)'
    BY <1>2 DEF Wait!Switch, Wait!Raise, Ended, Sig
  <2>5. (wait_pc = "fork" => /\ sleeps \in Wait!Children
                             /\ \A k \in Wait!Children : k >= sleeps => kids[k].state = "unborn")'
    BY <1>2 DEF Wait!Switch
  <2> QED BY <1>2, <2>1, <2>2, <2>3, <2>5 DEF Wait!Switch
<1>3. ASSUME Wait!Deliver PROVE WaitInv'
  <2>1. WaitReaped' = WaitReaped
    BY <1>3 DEF Wait!Deliver, WaitReaped
  <2> QED BY <1>3, <2>1 DEF Wait!Deliver, Sig, Ended
<1>4. ASSUME Wait!handle_sigchld PROVE WaitInv'
  <2> DEFINE k == handler.pid
  <2>1. handler # Wait!NoSignal /\ k \in Wait!Children
    BY <1>4 DEF Wait!handle_sigchld, Sig
  <2>2. WaitTypeOK'
    BY <1>4, <2>1 DEF Wait!handle_sigchld, Sig, KidState
  <2>3. \A c \in Wait!Children : kids'[c].state = IF c = k /\ kids[c].state = "zombie" THEN "reaped"
                                                  ELSE kids[c].state
    BY <1>4, <2>1 DEF Wait!handle_sigchld
  <2>4. Ended(sigchld)' /\ Ended(handler)'
    BY <1>4, <2>1, <2>3 DEF Wait!handle_sigchld, Ended, Sig
  <2>5. WaitReaped' = IF kids[k].state = "zombie" THEN WaitReaped \cup {k} ELSE WaitReaped
    BY <2>1, <2>3 DEF WaitReaped
  <2>6. kids[k].state = "zombie" => k \notin WaitReaped
    BY DEF WaitReaped
  <2>7. sigchld_count' <= Cardinality(WaitReaped')
    <3>1. CASE kids[k].state = "zombie"
      <4>1. Cardinality(WaitReaped') = Cardinality(WaitReaped) + 1
        BY <3>1, <2>1, <2>5, <2>6, ReapedFinite
      <4> QED BY <1>4, <4>1, ReapedFinite DEF Wait!handle_sigchld
    <3>2. CASE kids[k].state # "zombie"
      <4>1. WaitReaped' = WaitReaped /\ sigchld_count' = sigchld_count
        BY <1>4, <2>1, <2>5, <3>2 DEF Wait!handle_sigchld, Ended
      <4> QED BY <4>1
    <3> QED BY <3>1, <3>2
  <2>8. wait_pc' = wait_pc /\ sleeps' = sleeps
    BY <1>4 DEF Wait!handle_sigchld
  <2>9. wait_pc \in {"leave", "exit"} => WaitReaped' = Wait!Children
    BY <2>1, <2>5
  <2> QED BY <2>2, <2>3, <2>4, <2>7, <2>8, <2>9
<1>5. ASSUME Wait!Fork PROVE WaitInv'
  <2>1. /\ sleeps \in Wait!Children /\ kids[sleeps].state = "unborn"
        /\ \A c \in Wait!Children : c >= sleeps => kids[c].state = "unborn"
    BY <1>5 DEF Wait!Fork, Wait!Children
  <2>2. WaitTypeOK'
    BY <1>5, <2>1 DEF Wait!Fork, KidState, Wait!WaitAssumption
  <2>3. sleeps' = 0 \/ (sleeps' = sleeps + 1 /\ sleeps' \in Wait!Children)
    BY <1>5, <2>1, NextIndex DEF Wait!Fork, Wait!WaitAssumption, Wait!Children
  <2>4. WaitReaped' = WaitReaped
    BY <1>5, <2>1 DEF Wait!Fork, WaitReaped
  <2>5. Ended(sigchld)' /\ Ended(handler)'
    BY <1>5, <2>1 DEF Wait!Fork, Ended, Sig
  <2>6. (wait_pc = "fork" => /\ sleeps \in Wait!Children
                             /\ \A c \in Wait!Children : c >= sleeps => kids[c].state = "unborn")'
    BY <1>5, <2>1, <2>3 DEF Wait!Fork, Wait!Children
  <2> QED BY <1>5, <2>2, <2>4, <2>5, <2>6 DEF Wait!Fork
<1>6. ASSUME Wait!Sleep PROVE WaitInv'
  <2>1. WaitReaped' = WaitReaped
    BY <1>6 DEF Wait!Sleep, WaitReaped
  <2> QED BY <1>6, <2>1 DEF Wait!Sleep, Ended
<1>7. ASSUME Wait!Reap PROVE WaitInv'
  <2>1. CASE UNCHANGED kids
    <3>1. WaitReaped' = WaitReaped
      BY <2>1 DEF WaitReaped
    <3>2. wait_pc' \in {"leave", "exit"} => WaitReaped = Wait!Children
      BY <1>7 DEF Wait!Reap, WaitReaped
    <3> QED BY <1>7, <2>1, <3>1, <3>2 DEF Wait!Reap, Ended
  <2>2. ASSUME NEW c \in Wait!Children, kids[c].state = "zombie", wait_pc' = wait_pc,
               kids' = [kids EXCEPT ![c].state = "reaped"]
        PROVE WaitInv'
    <3>1. WaitReaped' = WaitReaped \cup {c} /\ c \notin WaitReaped
      BY <2>2 DEF WaitReaped
    <3>2. Cardinality(WaitReaped') = Cardinality(WaitReaped) + 1
      BY <3>1, ReapedFinite
    <3>3. sigchld_count' <= Cardinality(WaitReaped')
      BY <1>7, <3>2, ReapedFinite DEF Wait!Reap
    <3>4. WaitTypeOK'
      BY <1>7, <2>2 DEF Wait!Reap, KidState
    <3>5. Ended(sigchld)' /\ Ended(handler)'
      BY <1>7, <2>2 DEF Wait!Reap, Ended, Sig
    <3> QED BY <1>7, <2>2, <3>3, <3>4, <3>5 DEF Wait!Reap
  <2> QED BY <1>7, <2>1, <2>2 DEF Wait!Reap
<1>8. ASSUME Wait!Leave PROVE WaitInv'
  <2>1. WaitReaped' = WaitReaped
    BY <1>8 DEF Wait!Leave, WaitReaped
  <2> QED BY <1>8, <2>1 DEF Wait!Leave, Ended
<1> QED BY <1>1, <1>2, <1>3, <1>4, <1>5, <1>6, <1>7, <1>8
        DEF Wait!Next, Wait!main, Wait!Stop, Wait!Continue
------------------------------------------------------------------------------
(* sprite.c, sprite_curses.c *)

\* The sizes that a window may have (SpriteAssumption)
AnySize == (3 .. 9) \X (2 .. 9)
Playing == {"turn", "assign", "draw", "update", "read"}

\* The values of the variables, and where main() relies on them
SpriteTypeOK ==
    /\ version \in {"ansi", "curses"}
    /\ window \in AnySize
    /\ sprite_pc \in {"setup"} \cup Playing => screen \in AnySize
    /\ sprite_pc \in {"save_tty", "init_terminal", "size", "rows", "cols", "setup", "quit", "exit",
                      "terminated"} \cup Playing
    /\ screen \in Int \X Int
    /\ sprite_pc \in {"rows", "cols"} => ws \in AnySize
    /\ sprite_pc = "cols" => screen[1] \in 3 .. 9
    /\ pos \in Int \X Int /\ prev \in Int \X Int
    /\ sprite_pc \in Playing => direction \in 1 .. 4
    /\ new \in 0 .. 4 /\ (sprite_pc = "update" => new \in 1 .. 4)
    /\ steered \in BOOLEAN /\ torn \in BOOLEAN

\* The sprite starts in the window, in its first column: away from the bottom
\* row unless in a corner, and not at the edge that it faces.
LEMMA SpriteStart ==
    ASSUME version \in {"ansi", "curses"}, NEW s \in AnySize
    PROVE  /\ Sprite!Start(s) \in Int \X Int
           /\ Sprite!Start(s) \in Sprite!Window(s)
           /\ Sprite!Start(s) \notin Sprite!Corners(s) => Sprite!Start(s)[1] # Sprite!First + s[1] - 2
           /\ ~Sprite!on_boundary(Sprite!Start(s), s, 2)
<1>1. PICK s1 \in 3 .. 9, s2 \in 2 .. 9 : s = <<s1, s2>>
  BY DEF AnySize
<1>2. Sprite!First \in {0, 1} /\ Sprite!First \in Int
  BY DEF Sprite!First
<1>3. Sprite!Start(s) = << s1 \div 2, Sprite!First >> /\ s1 \div 2 \in Int
  BY <1>1, <1>2 DEF Sprite!Start
<1>4. 1 <= s1 \div 2 /\ s1 \div 2 <= s1 - 2
  BY <1>1
<1> QED BY <1>1, <1>2, <1>3, <1>4
        DEF Sprite!Window, Sprite!Corners, Sprite!on_boundary, Sprite!UP, Sprite!RIGHT, Sprite!DOWN,
            Sprite!LEFT

\* Every step keeps the types.
LEMMA SpriteType == ASSUME Sprite!SpriteAssumption, SpriteTypeOK, Sprite!Next PROVE SpriteTypeOK'
<1> USE DEF SpriteTypeOK, Playing
<1>1. CASE Sprite!save_tty  BY <1>1 DEF Sprite!save_tty, Sprite!motion
<1>2. CASE Sprite!init_terminal  BY <1>2 DEF Sprite!init_terminal, Sprite!motion
<1>3. CASE Sprite!get_window_size
  <2>1. /\ sprite_pc = "rows" => ws[1] \in 3 .. 9
        /\ sprite_pc = "cols" => ws[2] \in 2 .. 9 /\ screen[1] \in 3 .. 9
        /\ screen[1] \in Int /\ screen[2] \in Int
    BY DEF AnySize
  <2>2. CASE sprite_pc = "size"
    BY <1>3, <2>2 DEF Sprite!get_window_size, Sprite!motion
  <2>3. CASE sprite_pc = "rows"
    BY <1>3, <2>1, <2>3 DEF Sprite!get_window_size, Sprite!motion
  <2>4. CASE sprite_pc = "cols"
    BY <1>3, <2>1, <2>4 DEF Sprite!get_window_size, Sprite!motion, AnySize
  <2> QED BY <1>3, <2>2, <2>3, <2>4 DEF Sprite!get_window_size
<1>4. CASE Sprite!setup_screen
  <2>1. Sprite!Start(screen) \in Int \X Int
    BY <1>4, SpriteStart DEF Sprite!setup_screen
  <2> QED BY <1>4, <2>1 DEF Sprite!setup_screen, Sprite!RIGHT
<1>5. CASE Sprite!ReadTurn  BY <1>5 DEF Sprite!ReadTurn, Sprite!Turned
<1>6. CASE Sprite!Turn  BY <1>6 DEF Sprite!Turn
<1>7. CASE Sprite!Draw  BY <1>7 DEF Sprite!Draw
<1>8. CASE Sprite!update_sprite
  BY <1>8 DEF Sprite!update_sprite, Sprite!addto, Sprite!sprite_state
<1>9. CASE Sprite!Paused  BY <1>9 DEF Sprite!Paused, Sprite!motion
<1>10. CASE Sprite!NoKey  BY <1>10 DEF Sprite!NoKey, Sprite!motion
<1>11. CASE Sprite!Key  BY <1>11 DEF Sprite!Key, Sprite!UP, Sprite!LEFT
<1>12. CASE Sprite!Resize
  <2>1. window' \in AnySize
    BY <1>12 DEF Sprite!Resize, Sprite!SpriteAssumption, AnySize
  <2> QED BY <1>12, <2>1 DEF Sprite!Resize, Sprite!motion, Sprite!terminal
<1>13. CASE Sprite!on_resize
  <2>1. Sprite!Start(window) \in Int \X Int
    BY SpriteStart
  <2>2. torn' = (sprite_pc \in {"assign", "update"})
    BY <1>13 DEF Sprite!on_resize
  <2>3. torn' \in BOOLEAN
    <3>1. (sprite_pc \in {"assign", "update"}) \in BOOLEAN
      OBVIOUS
    <3> QED BY <2>2, <3>1
  <2>4. /\ UNCHANGED <<version, sprite_pc, window, new, ws>> /\ screen' = window /\ direction' = 2
        /\ pos' = Sprite!Start(window) /\ prev' = Sprite!Start(window) /\ steered' = FALSE
    BY <1>13 DEF Sprite!on_resize, Sprite!RIGHT
  <2>5. direction' \in 1 .. 4
    BY <2>4
  <2>6. steered' \in BOOLEAN
    BY <2>4
  <2>7. /\ pos' \in Int \X Int /\ prev' \in Int \X Int /\ screen' \in AnySize /\ window' \in AnySize
        /\ screen' \in Int \X Int /\ screen'[1] \in 3 .. 9
    BY <2>1, <2>4 DEF AnySize
  <2>8. /\ new' \in 0 .. 4 /\ (sprite_pc' = "update" => new' \in 1 .. 4)
        /\ sprite_pc' \in {"rows", "cols"} => ws' \in AnySize
    BY <2>4
  <2>9. version' \in {"ansi", "curses"} /\ sprite_pc' = sprite_pc
    BY <2>4
  <2> QED BY <2>3, <2>5, <2>6, <2>7, <2>8, <2>9
<1>14. CASE Sprite!cleanup  BY <1>14 DEF Sprite!cleanup, Sprite!motion
<1> QED BY <1>1, <1>2, <1>3, <1>4, <1>5, <1>6, <1>7, <1>8, <1>9, <1>10, <1>11, <1>12, <1>13, <1>14
        DEF Sprite!Next, Sprite!main

\* The settings saved are the user's, for both versions save them before they
\* change them: a handler may do it first, but not after init_terminal().
TerminalInv ==
    /\ savedtty \in {"zero", "user"}
    /\ sprite_pc \in {"save_tty", "init_terminal"} => term = "user"
    /\ sprite_pc \notin {"save_tty", "exit", "terminated"} => savedtty = "user"
    /\ Sprite!TerminalRestored

\* Every step keeps TerminalInv: whenever cleanup() comes, it restores.
LEMMA SpriteTerminal ==
    ASSUME SpriteTypeOK, TerminalInv, Sprite!Next PROVE TerminalInv'
<1> USE DEF TerminalInv, Sprite!TerminalRestored, Sprite!Ended, Sprite!terminal
<1>1. CASE Sprite!save_tty  BY <1>1 DEF Sprite!save_tty
<1>2. CASE Sprite!init_terminal  BY <1>2 DEF Sprite!init_terminal
<1>3. CASE Sprite!get_window_size  BY <1>3 DEF Sprite!get_window_size
<1>4. CASE Sprite!setup_screen  BY <1>4 DEF Sprite!setup_screen
<1>5. CASE Sprite!ReadTurn  BY <1>5 DEF Sprite!ReadTurn
<1>6. CASE Sprite!Turn  BY <1>6 DEF Sprite!Turn
<1>7. CASE Sprite!Draw  BY <1>7 DEF Sprite!Draw
<1>8. CASE Sprite!update_sprite  BY <1>8 DEF Sprite!update_sprite
<1>9. CASE Sprite!Paused  BY <1>9 DEF Sprite!Paused
<1>10. CASE Sprite!NoKey  BY <1>10 DEF Sprite!NoKey
<1>11. CASE Sprite!Key  BY <1>11 DEF Sprite!Key
<1>12. CASE Sprite!Resize  BY <1>12 DEF Sprite!Resize
<1>13. CASE Sprite!on_resize  BY <1>13 DEF Sprite!on_resize
<1>14. CASE Sprite!cleanup
  BY <1>14 DEF Sprite!cleanup, Sprite!restore_tty, SpriteTypeOK
<1> QED BY <1>1, <1>2, <1>3, <1>4, <1>5, <1>6, <1>7, <1>8, <1>9, <1>10, <1>11, <1>12, <1>13, <1>14
        DEF Sprite!Next, Sprite!main

\* Is the sprite at the edge in a direction, in the window, in a corner; was it
\* set in motion by nothing but on_resize() and the edges?
Facing(dir) == Sprite!on_boundary(pos, screen, dir)
Inside      == pos \in Sprite!Window(screen)
InCorner    == pos \in Sprite!Corners(screen)
LeftAlone   == ~torn /\ ~steered /\ Sprite!Start(screen) \notin Sprite!Corners(screen)

\* The sprite goes right in the first rows, down in the last column, left in the
\* bottom row and up in the first column.
Clockwise ==
    /\ direction = 1 => pos[2] = Sprite!First
    /\ direction = 2 => pos[1] # Sprite!First + screen[1] - 2
    /\ direction = 3 => pos[2] = Sprite!First + screen[2] - 1
    /\ direction = 4 => pos[1] = Sprite!First + screen[1] - 2

\* on_boundary(): the direction read is the one that follows from where the
\* sprite is, unless a resize came between; a sprite at an edge that it faces has
\* turned, and faces another only in a corner, where one left alone does not.
StaysInv ==
    /\ sprite_pc \in Playing /\ LeftAlone => Inside /\ Clockwise
    /\ sprite_pc = "assign" /\ ~torn =>
         new = IF Facing(direction) THEN Sprite!Turned(direction) ELSE 0
    /\ sprite_pc \in {"draw", "update"} /\ ~torn /\ Inside /\ Facing(direction) =>
         InCorner /\ ~LeftAlone
    /\ sprite_pc = "update" /\ ~torn => new = direction
    /\ Sprite!StaysInWindow

\* One turn is enough, unless in a corner that the sprite did not come to
\* clockwise.
LEMMA SpriteTurns ==
    ASSUME SpriteTypeOK, sprite_pc \in Playing, Inside, Facing(direction),
           NEW dir \in 1 .. 4, dir = Sprite!Turned(direction), Sprite!on_boundary(pos, screen, dir)
    PROVE  InCorner /\ ~Clockwise
<1>1. Sprite!First \in Int
  BY DEF Sprite!First
<1>2. PICK s1 \in 3 .. 9, s2 \in 2 .. 9 : screen = <<s1, s2>>
  BY DEF SpriteTypeOK, AnySize
<1>3. PICK p1 \in Int, p2 \in Int : pos = <<p1, p2>>
  BY DEF SpriteTypeOK
<1>4. direction \in 1 .. 4
  BY DEF SpriteTypeOK
<1> QED
  BY <1>1, <1>2, <1>3, <1>4
  DEF Inside, InCorner, Clockwise, Facing, Sprite!Window, Sprite!Corners, Sprite!on_boundary,
      Sprite!Turned, Sprite!UP, Sprite!RIGHT, Sprite!DOWN, Sprite!LEFT

\* A step away from an edge that the sprite does not face keeps it in the window,
\* and in its row or column.
LEMMA SpriteMoves ==
    ASSUME SpriteTypeOK, sprite_pc \in Playing, Inside, ~Facing(direction)
    PROVE  /\ Sprite!addto(pos, Sprite!sprite_state[direction]) \in Sprite!Window(screen)
           /\ direction \in {2, 4} => Sprite!addto(pos, Sprite!sprite_state[direction])[1] = pos[1]
           /\ direction \in {1, 3} => Sprite!addto(pos, Sprite!sprite_state[direction])[2] = pos[2]
<1>1. Sprite!First \in Int
  BY DEF Sprite!First
<1>2. PICK s1 \in 3 .. 9, s2 \in 2 .. 9 : screen = <<s1, s2>>
  BY DEF SpriteTypeOK, AnySize
<1>3. PICK p1 \in Int, p2 \in Int : pos = <<p1, p2>>
  BY DEF SpriteTypeOK
<1>4. direction \in {1, 2, 3, 4}
  BY DEF SpriteTypeOK
<1> QED
  BY <1>1, <1>2, <1>3, <1>4
  DEF Inside, Facing, Sprite!Window, Sprite!on_boundary, Sprite!addto, Sprite!sprite_state,
      Sprite!UP, Sprite!RIGHT, Sprite!DOWN, Sprite!LEFT

\* A step that leaves the sprite where it is
LEMMA SpriteStays ==
    ASSUME UNCHANGED <<version, screen, pos, prev, direction, steered, torn>>
    PROVE  /\ Inside' = Inside /\ InCorner' = InCorner /\ Clockwise' = Clockwise
           /\ LeftAlone' = LeftAlone /\ Facing(direction)' = Facing(direction)
           /\ Sprite!Turned(direction)' = Sprite!Turned(direction)
           /\ (sprite_pc' \in Playing => sprite_pc \in Playing) /\ Sprite!StaysInWindow
                => Sprite!StaysInWindow'
BY DEF Sprite!Turned, Playing, Sprite!StaysInWindow, Sprite!Playing, Inside, InCorner, Clockwise,
       LeftAlone, Facing, Sprite!Window, Sprite!Corners,
       Sprite!on_boundary, Sprite!Start, Sprite!First, Sprite!UP, Sprite!RIGHT, Sprite!DOWN, Sprite!LEFT


\* Every step of main() and of the handlers keeps StaysInv.
LEMMA SpriteNext ==
    ASSUME Sprite!SpriteAssumption, SpriteTypeOK, StaysInv, Sprite!Next PROVE StaysInv'
<1>0. SpriteTypeOK'
  BY SpriteType
<1>1. ASSUME sprite_pc' \notin Playing PROVE StaysInv'
  BY <1>1 DEF StaysInv, Playing, Sprite!StaysInWindow, Sprite!Playing
<1>2. ASSUME UNCHANGED <<version, screen, pos, prev, direction, new, steered, torn>>,
             sprite_pc \in Playing, sprite_pc' \in {"turn", "read"} \/ sprite_pc' = sprite_pc
      PROVE  StaysInv'
  <2>1. /\ Inside' = Inside /\ Clockwise' = Clockwise /\ InCorner' = InCorner
        /\ LeftAlone' = LeftAlone /\ Facing(direction)' = Facing(direction)
        /\ Sprite!Turned(direction)' = Sprite!Turned(direction)
    BY <1>2, SpriteStays
  <2>2. Sprite!StaysInWindow'
    BY <1>2, SpriteStays DEF StaysInv
  <2> QED BY <1>2, <2>1, <2>2 DEF StaysInv, Playing
<1>3. CASE Sprite!save_tty \/ Sprite!init_terminal \/ Sprite!get_window_size
  BY <1>1, <1>3 DEF Sprite!save_tty, Sprite!init_terminal, Sprite!get_window_size, Playing
<1>4. CASE Sprite!cleanup
  BY <1>1, <1>4 DEF Sprite!cleanup, Playing
<1>5. CASE Sprite!Paused \/ Sprite!NoKey
  <2>1. /\ UNCHANGED <<version, screen, pos, prev, direction, new, steered, torn>>
        /\ sprite_pc \in {"turn", "read"} /\ sprite_pc' \in {"read", "turn"}
    BY <1>5 DEF Sprite!Paused, Sprite!NoKey, Sprite!motion
  <2> QED BY <1>2, <2>1 DEF Playing
<1>6. CASE Sprite!Resize
  BY <1>1, <1>2, <1>6 DEF Sprite!Resize, Sprite!motion
<1>7. CASE Sprite!Key /\ UNCHANGED <<direction, steered>>
  BY <1>1, <1>2, <1>7 DEF Sprite!Key, Playing
<1>8. ASSUME Sprite!Key
       PROVE  UNCHANGED <<direction, steered>> \/ (steered' = TRUE /\ sprite_pc' = "turn")
  BY <1>8, Zenon DEF Sprite!Key
<1> USE DEF StaysInv
<1>9. CASE Sprite!setup_screen
  <2>1. screen \in AnySize /\ version \in {"ansi", "curses"}
    BY <1>9 DEF Sprite!setup_screen, SpriteTypeOK
  <2>2. /\ version' = version /\ screen' = screen /\ pos' = Sprite!Start(screen) /\ direction' = 2
        /\ sprite_pc' = "turn"
    BY <1>9 DEF Sprite!setup_screen, Sprite!RIGHT
  <2>3. Sprite!First' = Sprite!First
    BY <2>2 DEF Sprite!First
  <2>4. Inside' /\ (LeftAlone' => Clockwise')
    BY <2>1, <2>2, <2>3, SpriteStart
    DEF Inside, LeftAlone, Clockwise, Sprite!Window, Sprite!Corners, Sprite!Start
  <2> QED BY <2>2, <2>4 DEF Sprite!StaysInWindow, Inside
<1>10. CASE Sprite!on_resize
  <2>1. window \in AnySize /\ version \in {"ansi", "curses"}
    BY DEF SpriteTypeOK
  <2>2. /\ version' = version /\ screen' = window /\ pos' = Sprite!Start(window) /\ direction' = 2
        /\ sprite_pc' = sprite_pc
    BY <1>10 DEF Sprite!on_resize, Sprite!RIGHT
  <2>3. Sprite!First' = Sprite!First
    BY <2>2 DEF Sprite!First
  <2>4. Inside' /\ (LeftAlone' => Clockwise')
    BY <2>1, <2>2, <2>3, SpriteStart
    DEF Inside, LeftAlone, Clockwise, Sprite!Window, Sprite!Corners, Sprite!Start
  <2>5. ~Facing(direction)'
    BY <2>1, <2>2, <2>3, SpriteStart
    DEF Facing, Sprite!on_boundary, Sprite!UP, Sprite!RIGHT, Sprite!DOWN, Sprite!LEFT
  <2>6. sprite_pc \in {"assign", "update"} => torn'
    BY <1>10 DEF Sprite!on_resize
  <2> QED BY <2>2, <2>4, <2>5, <2>6 DEF Sprite!StaysInWindow, Inside
<1>11. CASE Sprite!Key
  <2>2. CASE steered' = TRUE /\ sprite_pc' = "turn"
    <3>1. UNCHANGED <<version, screen, pos, prev, torn>> /\ sprite_pc = "read"
      BY <1>11 DEF Sprite!Key
    <3>2. Sprite!StaysInWindow'
      BY <2>2, <3>1 DEF Sprite!StaysInWindow, Sprite!Playing, Sprite!Window, Sprite!Corners,
                        Sprite!Start, Sprite!First
    <3> QED BY <2>2, <3>2 DEF LeftAlone
  <2> QED BY <1>11, <1>7, <1>8, <2>2
<1>12. CASE Sprite!ReadTurn
  <2>1. /\ UNCHANGED <<version, screen, pos, prev, direction, steered, torn>>
        /\ sprite_pc = "turn" /\ sprite_pc' = "assign"
        /\ new' = IF Facing(direction) THEN Sprite!Turned(direction) ELSE 0
    BY <1>12 DEF Sprite!ReadTurn, Facing
  <2> QED BY <2>1, SpriteStays DEF Playing
<1>13. CASE Sprite!Turn
  <2>1. /\ UNCHANGED <<version, screen, pos, prev, new, steered, torn>>
        /\ sprite_pc = "assign" /\ sprite_pc' = "draw"
        /\ direction' = IF new # 0 THEN new ELSE direction
    BY <1>13 DEF Sprite!Turn
  <2>2. direction \in 1 .. 4 /\ direction' \in 1 .. 4 /\ Sprite!Turned(direction) \in 1 .. 4
    BY <1>0, <2>1 DEF SpriteTypeOK, Playing, Sprite!Turned
  <2>3. /\ Inside' = Inside /\ InCorner' = InCorner /\ LeftAlone' = LeftAlone
        /\ Facing(direction)' = Facing(direction')
    BY <2>1 DEF Inside, InCorner, LeftAlone, Facing, Sprite!Window, Sprite!Corners, Sprite!Start,
                Sprite!First, Sprite!on_boundary, Sprite!UP, Sprite!RIGHT, Sprite!DOWN, Sprite!LEFT
  <2>4. Sprite!StaysInWindow'
    BY <2>1 DEF Sprite!StaysInWindow, Sprite!Playing, Sprite!Window, Sprite!Corners, Sprite!Start,
                Sprite!First
  <2>5. CASE torn
    BY <2>1, <2>3, <2>4, <2>5 DEF LeftAlone
  <2>6. CASE ~torn /\ ~Facing(direction)
    <3>1. direction' = direction
      BY <2>1, <2>6
    <3> QED BY <2>1, <2>4, <2>6, <3>1, SpriteStays DEF Playing
  <2>7. CASE ~torn /\ Facing(direction)
    <3>1. direction' = Sprite!Turned(direction)
      BY <2>1, <2>2, <2>7
    <3>2. Inside /\ Facing(direction') => InCorner /\ ~Clockwise
      BY <2>1, <2>2, <2>7, <3>1, SpriteTurns DEF Facing, Playing
    <3>3. LeftAlone => Clockwise'
      BY <2>1, <2>2, <2>7, <3>1
      DEF Clockwise, Facing, Playing, Sprite!First, Sprite!Turned, Sprite!on_boundary, SpriteTypeOK,
          Sprite!UP, Sprite!RIGHT, Sprite!DOWN, Sprite!LEFT, Inside, Sprite!Window, AnySize
    <3> QED BY <2>1, <2>3, <2>4, <3>2, <3>3 DEF Playing
  <2> QED BY <2>5, <2>6, <2>7
<1>14. CASE Sprite!Draw
  <2>1. /\ UNCHANGED <<version, screen, pos, prev, direction, steered, torn>>
        /\ sprite_pc = "draw" /\ sprite_pc' = "update" /\ new' = direction
    BY <1>14 DEF Sprite!Draw
  <2> QED BY <2>1, SpriteStays DEF Playing
<1>15. CASE Sprite!update_sprite
  <2>1. /\ UNCHANGED <<version, screen, direction, steered, torn>>
        /\ sprite_pc = "update" /\ sprite_pc' = "read"
        /\ pos' = Sprite!addto(pos, Sprite!sprite_state[new]) /\ prev' = pos
    BY <1>15 DEF Sprite!update_sprite
  <2>2. /\ LeftAlone' = LeftAlone /\ Sprite!Window(screen)' = Sprite!Window(screen)
        /\ Sprite!Corners(screen)' = Sprite!Corners(screen) /\ Sprite!Start(screen)' = Sprite!Start(screen)
        /\ Sprite!First' = Sprite!First
    BY <2>1 DEF LeftAlone, Sprite!Window, Sprite!Corners, Sprite!Start, Sprite!First
  <2>3. CASE torn \/ ~Inside
    BY <2>1, <2>2, <2>3 DEF Sprite!StaysInWindow, LeftAlone, Inside, Playing
  <2>4. CASE ~torn /\ Inside /\ Facing(direction)
    BY <2>1, <2>2, <2>4 DEF Sprite!StaysInWindow, LeftAlone, Inside, InCorner, Playing
  <2>5. CASE ~torn /\ Inside /\ ~Facing(direction)
    <3>1. Inside'
      BY <2>1, <2>2, <2>5, SpriteMoves DEF Inside, Playing
    <3>2. LeftAlone => Clockwise'
      BY <2>1, <2>2, <2>5, SpriteMoves DEF Clockwise, Playing
    <3> QED BY <2>1, <2>2, <3>1, <3>2 DEF Sprite!StaysInWindow, Inside
  <2> QED BY <2>3, <2>4, <2>5
<1> QED BY <1>3, <1>4, <1>5, <1>6, <1>9, <1>10, <1>11, <1>12, <1>13, <1>14, <1>15
        DEF Sprite!Next, Sprite!main
------------------------------------------------------------------------------
(* sigio_demo.c *)

\* The sprite is in its rows, whatever main() and the handlers do.
SigioInv ==
    /\ row \in TOP_ROW .. numrows - 1 /\ col \in 1 .. numcols
    /\ user_row_adjust \in Int

\* Keys move the sprite by any number of rows, and CheckTimer() puts it back.
LEMMA SigioNext == ASSUME Sigio!SigioAssumption, SigioInv, Sigio!Next PROVE SigioInv'
<1> USE DEF SigioInv, Sigio!sprite
<1>1. CASE Sigio!Type \/ Sigio!Expire  BY <1>1 DEF Sigio!Type, Sigio!Expire
<1>2. CASE Sigio!on_input \/ Sigio!on_timer  BY <1>2 DEF Sigio!on_input, Sigio!on_timer
<1>3. CASE Sigio!CheckInput  BY <1>3 DEF Sigio!CheckInput
<1>4. CASE Sigio!ReadKey
  <2>1. PICK n \in {-1, 0, 1} : user_row_adjust' = user_row_adjust \/ user_row_adjust' = user_row_adjust + n
    BY <1>4 DEF Sigio!ReadKey
  <2> QED BY <1>4, <2>1 DEF Sigio!ReadKey
<1>5. CASE Sigio!ReadNothing \/ Sigio!Unblock \/ Sigio!Pause
  BY <1>5 DEF Sigio!ReadNothing, Sigio!Unblock, Sigio!Pause
<1>6. CASE Sigio!CheckTimer
  <2>1. ASSUME Sigio!Advance PROVE row' \in TOP_ROW .. numrows - 1 /\ col' \in 1 .. numcols
    BY <2>1 DEF Sigio!Advance, Sigio!SigioAssumption
  <2>2. CASE Sigio!Advance /\ user_row_adjust' = 0
    BY <2>1, <2>2
  <2>3. CASE UNCHANGED Sigio!sprite
    BY <2>3
  <2> QED BY <1>6, <2>2, <2>3 DEF Sigio!CheckTimer
<1> QED BY <1>1, <1>2, <1>3, <1>4, <1>5, <1>6 DEF Sigio!Next, Sigio!main
------------------------------------------------------------------------------
(* hash.c *)

\* The powers of two that fit into a word are positive numbers.
LEMMA BitIs ==
  ASSUME WORD \in Nat
  PROVE  /\ Hash!Bit \in [0 .. WORD -> Nat] /\ Hash!Bit[0] = 1
         /\ \A b \in 0 .. WORD : Hash!Bit[b] > 0
<1> DEFINE Sol(n, g) == g = [b \in 0 .. n |-> IF b = 0 THEN 1 ELSE 2 * g[b - 1]]
           P == {n \in Nat : \E g : Sol(n, g)}
<1>1. 0 \in P
  <2> DEFINE G == [b \in 0 .. 0 |-> 1]
  <2>1. \A b \in 0 .. 0 : G[b] = IF b = 0 THEN 1 ELSE 2 * G[b - 1]
    OBVIOUS
  <2>2. Sol(0, G)
    BY <2>1
  <2> QED BY <2>2
<1>2. ASSUME NEW n \in P PROVE n + 1 \in P
  <2> n \in Nat OBVIOUS
  <2>1. PICK g : Sol(n, g)
    OBVIOUS
  <2> DEFINE G == [b \in 0 .. n + 1 |-> IF b = 0 THEN 1 ELSE 2 * g[b - 1]]
  <2>2. ASSUME NEW b \in 0 .. n PROVE g[b] = G[b]
    <3>1. g[b] = IF b = 0 THEN 1 ELSE 2 * g[b - 1]
      BY <2>1
    <3>2. b \in 0 .. n + 1
      OBVIOUS
    <3> QED BY <3>1, <3>2
  <2>3. ASSUME NEW b \in 0 .. n + 1 PROVE G[b] = IF b = 0 THEN 1 ELSE 2 * G[b - 1]
    <3>1. CASE b = 0
      BY <3>1
    <3>2. CASE b # 0
      <4>1. b - 1 \in 0 .. n
        BY <3>2
      <4>2. g[b - 1] = G[b - 1]
        BY <4>1, <2>2
      <4>3. G[b] = 2 * g[b - 1]
        BY <3>2
      <4> HIDE DEF G
      <4> QED BY <3>2, <4>2, <4>3
    <3> QED BY <3>1, <3>2
  <2>4. G = [b \in 0 .. n + 1 |-> G[b]]
    OBVIOUS
  <2>5. Sol(n + 1, G)
    <3> HIDE DEF G
    <3> QED BY <2>3, <2>4
  <2> HIDE DEF G, Sol
  <2> QED BY <2>5
<1>3. P = Nat
  <2> HIDE DEF P
  <2>1. P \in SUBSET Nat BY DEF P
  <2> QED BY <1>1, <1>2, <2>1, Induct
<1>4. \E g : Sol(WORD, g)
  BY <1>3
<1>5. Hash!Bit = [b \in 0 .. WORD |-> IF b = 0 THEN 1 ELSE 2 * Hash!Bit[b - 1]]
  BY <1>4, Zenon DEF Hash!Bit
<1> DEFINE Q == {n \in Nat : n \in 0 .. WORD => Hash!Bit[n] \in Nat /\ Hash!Bit[n] > 0}
<1>6. 0 \in Q /\ Hash!Bit[0] = 1
  <2>1. 0 \in 0 .. WORD
    OBVIOUS
  <2>2. Hash!Bit[0] = 1
    BY <1>5, <2>1
  <2> QED BY <2>2
<1>7. ASSUME NEW n \in Q PROVE n + 1 \in Q
  <2> n \in Nat OBVIOUS
  <2> SUFFICES ASSUME n + 1 \in 0 .. WORD PROVE Hash!Bit[n + 1] \in Nat /\ Hash!Bit[n + 1] > 0
    OBVIOUS
  <2>1. n \in 0 .. WORD
    OBVIOUS
  <2>2. Hash!Bit[n] \in Nat /\ Hash!Bit[n] > 0
    BY <2>1
  <2>3. Hash!Bit[n + 1] = IF n + 1 = 0 THEN 1 ELSE 2 * Hash!Bit[(n + 1) - 1]
    BY <1>5, Zenon
  <2>4. n + 1 # 0 /\ (n + 1) - 1 = n
    OBVIOUS
  <2>5. Hash!Bit[n + 1] = 2 * Hash!Bit[n]
    BY <2>3, <2>4
  <2> QED BY <2>2, <2>5
<1>8. Q = Nat
  <2> HIDE DEF Q
  <2>1. Q \in SUBSET Nat BY DEF Q
  <2> QED BY <1>6, <1>7, <2>1, Induct
<1>9. \A b \in 0 .. WORD : Hash!Bit[b] \in Nat /\ Hash!Bit[b] > 0
  BY <1>8
<1>10. Hash!Bit = [b \in 0 .. WORD |-> Hash!Bit[b]]
  BY <1>5
<1> QED BY <1>6, <1>9, <1>10

\* The first and the last of some numbers, in the instance.
LEMMA HashOrder == ASSUME NEW T PROVE Hash!Min(T) = Smallest(T) /\ Hash!Max(T) = Greatest(T)
  BY Zenon DEF Hash!Min, Hash!Max, Smallest, Greatest

\* What division and remainder leave of a natural number.
LEMMA DivMod ==
  ASSUME NEW a \in Nat, NEW b \in Nat, b > 0
  PROVE  a % b \in 0 .. b - 1 /\ a \div b \in Nat /\ a = b * (a \div b) + (a % b)
<1>1. a % b \in 0 .. b - 1 /\ a \div b \in Int /\ a = b * (a \div b) + (a % b)
  BY Z3
<1>2. a \div b >= 0
  <2> SUFFICES ASSUME a \div b < 0 PROVE FALSE
    BY <1>1
  <2>1. PICK q \in Int, r \in Int : q = a \div b /\ r = a % b
    BY <1>1
  <2>2. q <= -1 /\ r <= b - 1 /\ a = b * q + r
    BY <1>1, <2>1
  <2>3. b * q <= b * (-1)
    BY <2>2, Z3
  <2> QED BY <2>2, <2>3
<1> QED BY <1>1, <1>2

\* Of a number beyond a multiple the remainder is what it is beyond it.
LEMMA Beyond ==
  ASSUME NEW b \in Nat, b > 0, NEW q \in Nat, NEW r \in 0 .. b - 1
  PROVE  (b * q + r) % b = r
<1>0. b * q \in Nat
  BY Z3
<1>1. PICK a \in Nat : a = b * q + r
  BY <1>0
<1>2. PICK p \in Int, m \in Int : m = a % b /\ p = a \div b
  BY DivMod
<1>3. m \in 0 .. b - 1 /\ a = b * p + m
  BY <1>2, DivMod
<1>4. CASE p = q
  BY <1>1, <1>2, <1>3, <1>4
<1>5. CASE p > q
  <2>1. b * p >= b * (q + 1)
    BY <1>5, Z3
  <2>2. b * (q + 1) = b * q + b
    BY Z3
  <2>3. b * p \in Int
    BY Z3
  <2> QED BY <1>0, <1>1, <1>3, <2>1, <2>2, <2>3
<1>6. CASE p < q
  <2>1. b * q >= b * (p + 1)
    BY <1>6, Z3
  <2>2. b * (p + 1) = b * p + b
    BY Z3
  <2>3. b * p \in Int
    BY Z3
  <2> QED BY <1>0, <1>1, <1>3, <2>1, <2>2, <2>3
<1> QED BY <1>4, <1>5, <1>6

\* The items are natural numbers, and no mark of an empty slot.
LEMMA ItemsAre ==
  ASSUME Hash!HashAssumption
  PROVE  /\ Items \subseteq Nat /\ Hash!EMPTYTAG \notin Items
         /\ Hash_Constant \in Nat /\ WORD \in Nat
BY DEF Hash!HashAssumption, Hash!EMPTYTAG

LEMMA HashSize == ASSUME NEW S PROVE Hash!Cardinality(S) = Cardinality(S)
  BY Zenon DEF Hash!Cardinality, Cardinality

\* A search begins at a slot's number.
LEMMA HomeIs ==
  ASSUME Hash!HashAssumption, NEW tb, tb.size_bits \in 0 .. WORD, NEW item \in Items
  PROVE  Hash!Home(tb, item) \in Nat
<1>1. /\ Hash!Bit[WORD] \in Nat /\ Hash!Bit[WORD] > 0
      /\ Hash!Bit[WORD - tb.size_bits] \in Nat /\ Hash!Bit[WORD - tb.size_bits] > 0
  <2>1. WORD \in Nat
    BY ItemsAre
  <2>2. WORD \in 0 .. WORD /\ WORD - tb.size_bits \in 0 .. WORD
    BY <2>1
  <2> QED BY <2>1, <2>2, BitIs
<1>2. Hash_Constant * item \in Nat
  <2>1. Hash_Constant \in Nat /\ item \in Nat
    BY ItemsAre
  <2> QED BY <2>1, Z3
<1>3. PICK p \in Nat, b \in Nat, d \in Nat :
        /\ p = Hash_Constant * item /\ b = Hash!Bit[WORD] /\ d = Hash!Bit[WORD - tb.size_bits]
        /\ b > 0 /\ d > 0
  BY <1>1, <1>2
<1>4. p % b \in Nat
  BY <1>3, DivMod
<1>5. (p % b) \div d \in Nat
  BY <1>3, <1>4, DivMod
<1> QED BY <1>3, <1>5, Zenon DEF Hash!Home

\* A table as memory: slots, and the number of bits of a slot's number.
IsTable(tb) ==
    /\ Hash!size(tb) \in Nat /\ Hash!size(tb) >= 2 /\ tb.size_bits \in 0 .. WORD
    /\ \A s \in 1 .. Hash!size(tb) : tb.table[s] \in Items \cup {Hash!EMPTYTAG}

\* A search stays in the table,
LEMMA ProbeIs ==
  ASSUME Hash!HashAssumption, NEW tb, IsTable(tb), NEW item \in Items, NEW k0 \in Nat
  PROVE  Hash!Probe(tb, item, k0) \in 1 .. Hash!size(tb)
<1>1. PICK n \in Nat, a \in Nat : n = Hash!size(tb) /\ n >= 2 /\ a = Hash!Home(tb, item) + k0
  BY HomeIs DEF IsTable
<1>2. a % n \in 0 .. n - 1
  BY <1>1, DivMod
<1>3. (a % n) + 1 \in 1 .. n
  BY <1>2
<1> QED BY <1>1, <1>3, Zenon DEF Hash!Probe

\* and comes to every slot.
LEMMA ProbeAll ==
  ASSUME Hash!HashAssumption, NEW tb, IsTable(tb), NEW item \in Items,
         NEW s \in 1 .. Hash!size(tb)
  PROVE  \E k0 \in 0 .. Hash!size(tb) - 1 : Hash!Probe(tb, item, k0) = s
<1>1. PICK n \in Nat, a \in Nat : n = Hash!size(tb) /\ n >= 2 /\ a = Hash!Home(tb, item)
  BY HomeIs DEF IsTable
<1>2. PICK r \in 0 .. n - 1, q \in Nat : a = n * q + r
  <2>1. a % n \in 0 .. n - 1 /\ a \div n \in Nat /\ a = n * (a \div n) + (a % n)
    <3>1. n > 0
      BY <1>1
    <3> QED BY <3>1, DivMod
  <2> QED BY <2>1, Zenon
<1>3. n * q \in Nat /\ n * (q + 1) = n * q + n /\ q + 1 \in Nat
  BY Z3
<1>4. PICK w \in 0 .. n - 1 : w = s - 1
  BY <1>1
<1>5. \E k0 \in 0 .. n - 1 : (a + k0) % n = w
  <2>0. n > 0
    BY <1>1
  <2>1. CASE w >= r
    <3>1. PICK k0 \in 0 .. n - 1 : k0 = w - r
      BY <1>2, <2>1
    <3>2. a + k0 = n * q + w
      BY <1>2, <1>3, <3>1
    <3>3. (n * q + w) % n = w
      BY <2>0, Beyond
    <3> QED BY <3>2, <3>3
  <2>2. CASE w < r
    <3>1. PICK k0 \in 0 .. n - 1 : k0 = w - r + n
      BY <1>2, <2>2
    <3>2. a + k0 = n * (q + 1) + w
      BY <1>2, <1>3, <3>1
    <3>3. (n * (q + 1) + w) % n = w
      BY <1>3, <2>0, Beyond
    <3> QED BY <3>2, <3>3
  <2> QED BY <1>2, <2>1, <2>2
<1>6. PICK k0 \in 0 .. n - 1 : (a + k0) % n = w
  BY <1>5
<1>7. w + 1 = s
  BY <1>4
<1>8. Hash!Probe(tb, item, k0) = s
  BY <1>1, <1>6, <1>7, Zenon DEF Hash!Probe
<1> QED BY <1>1, <1>8

\* What the invariant says of the memory.
LEMMA TableIs ==
  ASSUME Hash!HashAssumption, NEW tb, Hash!TableInv(tb)
  PROVE  /\ IsTable(tb) /\ tb.current_size \in Nat
         /\ IsFiniteSet(Hash!Used(tb)) /\ Cardinality(Hash!Used(tb)) = tb.current_size
         /\ IsFiniteSet(Hash!Content(tb)) /\ Cardinality(Hash!Content(tb)) = tb.current_size
         /\ Hash!Used(tb) \subseteq 1 .. Hash!size(tb)
         /\ Hash!Content(tb) \subseteq Items
<1>1. tb \in [table : Seq(Items \cup {Hash!EMPTYTAG}), size_bits : 0 .. WORD, current_size : Nat]
  BY DEF Hash!TableInv
<1>2. Hash!size(tb) \in Nat
  BY <1>1 DEF Hash!size
<1>3. \A s \in 1 .. Hash!size(tb) : tb.table[s] \in Items \cup {Hash!EMPTYTAG}
  BY <1>1 DEF Hash!size
<1>4. IsTable(tb) /\ tb.current_size \in Nat
  BY <1>1, <1>2, <1>3 DEF IsTable, Hash!TableInv
<1>5. Hash!Used(tb) \in SUBSET (1 .. Hash!size(tb))
  BY DEF Hash!Used, Hash!Slots
<1>6. IsFiniteSet(Hash!Used(tb))
  BY <1>2, <1>5, SomeOf
<1>7. IsFiniteSet(Hash!Content(tb))
  <2> DEFINE f == [s \in Hash!Used(tb) |-> tb.table[s]]
  <2>1. f \in Surjection(Hash!Used(tb), Hash!Content(tb))
    BY DEF Surjection, Hash!Content
  <2> HIDE DEF f
  <2> QED BY <1>6, <2>1, FS_Surjection
<1>8. Hash!Content(tb) \subseteq Items
  BY <1>3, <1>5 DEF Hash!Content, Hash!Used
<1>9. /\ Cardinality(Hash!Used(tb)) = tb.current_size
       /\ Cardinality(Hash!Content(tb)) = tb.current_size
  BY HashSize DEF Hash!TableInv
<1> QED BY <1>4, <1>5, <1>6, <1>7, <1>8, <1>9

\* A table that is not full has an empty slot, so that a search comes to an end.
LEMMA Found ==
  ASSUME Hash!HashAssumption, NEW tb, Hash!TableInv(tb), tb.current_size < Hash!size(tb),
         NEW item \in Items
  PROVE  \E k0 \in 0 .. Hash!size(tb) - 1 :
            /\ Hash!findloc_hash(tb, item) = Hash!Probe(tb, item, k0)
            /\ Hash!Probe(tb, item, k0) \in 1 .. Hash!size(tb)
            /\ tb.table[Hash!Probe(tb, item, k0)] \in {Hash!EMPTYTAG, item}
            /\ \A m \in 0 .. k0 - 1 : /\ Hash!Probe(tb, item, m) \in Hash!Used(tb)
                                      /\ tb.table[Hash!Probe(tb, item, m)] # item
<1> DEFINE n == Hash!size(tb)
           at(k0) == Hash!Probe(tb, item, k0)
           ends == {k0 \in 0 .. n - 1 : tb.table[at(k0)] \in {Hash!EMPTYTAG, item}}
<1>0. IsTable(tb) /\ n \in Nat /\ n >= 2
  BY TableIs DEF IsTable
<1>1. PICK s \in 1 .. n : s \notin Hash!Used(tb)
  <2>1. Hash!Used(tb) # 1 .. n
    <3>1. Cardinality(1 .. n) = n
      BY <1>0, SomeOf
    <3>2. Cardinality(Hash!Used(tb)) = tb.current_size /\ tb.current_size \in Nat
      BY TableIs
    <3> QED BY <1>0, <3>1, <3>2
  <2>2. Hash!Used(tb) \subseteq 1 .. n
    BY TableIs
  <2> QED BY <2>1, <2>2
<1>2. tb.table[s] = Hash!EMPTYTAG
  BY <1>1 DEF Hash!Used, Hash!Slots
<1>3. PICK kk \in 0 .. n - 1 : at(kk) = s
  BY <1>0, <1>1, ProbeAll
<1>4. kk \in ends
  BY <1>2, <1>3
<1>5. ends \in SUBSET (0 .. n - 1) /\ ends # {}
  BY <1>4
<1>6. Hash!findloc_hash(tb, item) = at(Hash!Min(ends))
  BY <1>5, Zenon DEF Hash!findloc_hash
<1>7. n - 1 \in Nat
  BY <1>0
<1> HIDE DEF ends, at, n
<1>8. PICK k0 \in ends : k0 = Hash!Min(ends) /\ \A y \in ends : k0 <= y
  BY <1>5, <1>7, Extremes, HashOrder
<1> USE DEF ends
<1>9. k0 \in 0 .. n - 1 /\ tb.table[at(k0)] \in {Hash!EMPTYTAG, item}
  BY <1>8
<1>10. \A m \in 0 .. n - 1 : at(m) \in 1 .. n
  <2> TAKE m \in 0 .. n - 1
  <2>1. m \in Nat
    BY <1>7
  <2> QED BY <1>0, <2>1, ProbeIs DEF n, at
<1>11. ASSUME NEW m \in 0 .. k0 - 1
       PROVE  at(m) \in Hash!Used(tb) /\ tb.table[at(m)] # item
  <2>1. m \in 0 .. n - 1 /\ m < k0
    BY <1>7, <1>9
  <2>2. m \notin ends
    <3> HIDE DEF ends
    <3>1. m \in ends => k0 <= m
      BY <1>8
    <3> QED BY <1>9, <2>1, <3>1
  <2>3. tb.table[at(m)] \notin {Hash!EMPTYTAG, item}
    BY <2>1, <2>2
  <2>4. at(m) \in 1 .. n
    BY <1>10, <2>1
  <2> QED BY <2>3, <2>4 DEF Hash!Used, Hash!Slots, n
<1> QED BY <1>6, <1>8, <1>9, <1>10, <1>11 DEF n, at

\* The table holds what a search finds.
LEMMA IsIn ==
  ASSUME Hash!HashAssumption, NEW tb, Hash!TableInv(tb), tb.current_size < Hash!size(tb),
         NEW item \in Items
  PROVE  /\ Hash!findloc_hash(tb, item) \in 1 .. Hash!size(tb)
         /\ tb.table[Hash!findloc_hash(tb, item)]
                = (IF item \in Hash!Content(tb) THEN item ELSE Hash!EMPTYTAG)
         /\ Hash!is_in_hash(tb, item) <=> item \in Hash!Content(tb)
<1> DEFINE loc == Hash!findloc_hash(tb, item)
           n == Hash!size(tb)
<1>0. Hash!EMPTYTAG # item /\ n \in Nat
  BY ItemsAre, TableIs DEF IsTable
<1>1. PICK k0 \in 0 .. n - 1 :
            /\ loc = Hash!Probe(tb, item, k0) /\ loc \in 1 .. n
            /\ tb.table[loc] \in {Hash!EMPTYTAG, item}
            /\ \A m \in 0 .. k0 - 1 : /\ Hash!Probe(tb, item, m) \in Hash!Used(tb)
                                      /\ tb.table[Hash!Probe(tb, item, m)] # item
  BY Found
<1>2. ASSUME item \in Hash!Content(tb) PROVE tb.table[loc] = item
  <2>1. PICK s \in Hash!Used(tb) : tb.table[s] = item
    BY <1>2 DEF Hash!Content
  <2>2. PICK kk \in 0 .. n - 1 : /\ Hash!Probe(tb, item, kk) = s
                                 /\ \A m \in 0 .. kk - 1 : Hash!Probe(tb, item, m) \in Hash!Used(tb)
    BY <2>1 DEF Hash!TableInv, Hash!Reached
  <2>3. kk >= k0
    <3>1. ASSUME kk < k0 PROVE FALSE
      <4>1. kk \in 0 .. k0 - 1
        BY <1>0, <3>1
      <4> QED BY <1>1, <2>1, <2>2, <4>1
    <3> QED BY <1>0, <3>1
  <2>4. CASE kk = k0
    BY <1>1, <2>1, <2>2, <2>4
  <2>5. CASE kk # k0
    <3>1. k0 \in 0 .. kk - 1
      BY <1>0, <2>3, <2>5
    <3>2. loc \in Hash!Used(tb)
      BY <1>1, <2>2, <3>1
    <3> QED BY <1>1, <3>2 DEF Hash!Used
  <2> QED BY <2>4, <2>5
<1>3. ASSUME item \notin Hash!Content(tb) PROVE tb.table[loc] = Hash!EMPTYTAG
  <2>1. ASSUME tb.table[loc] = item PROVE FALSE
    <3>1. loc \in Hash!Used(tb)
      BY <1>0, <1>1, <2>1 DEF Hash!Used, Hash!Slots
    <3> QED BY <1>3, <2>1, <3>1 DEF Hash!Content
  <2> QED BY <1>1, <2>1
<1>4. loc # 0
  BY <1>0, <1>1
<1> QED BY <1>0, <1>1, <1>2, <1>3, <1>4, Zenon DEF Hash!is_in_hash

\* Insertion into a table that is not full adds the item, once.
LEMMA PutKeeps ==
  ASSUME Hash!HashAssumption, NEW tb, Hash!TableInv(tb), tb.current_size < Hash!size(tb),
         NEW item \in Items
  PROVE  /\ Hash!TableInv(Hash!Put(tb, item))
         /\ Hash!size(Hash!Put(tb, item)) = Hash!size(tb)
         /\ Hash!Content(Hash!Put(tb, item)) = Hash!Content(tb) \cup {item}
         /\ Hash!Put(tb, item).current_size
                = IF item \in Hash!Content(tb) THEN tb.current_size ELSE tb.current_size + 1
<1> DEFINE loc == Hash!findloc_hash(tb, item)
           n == Hash!size(tb)
<1>0. /\ Hash!EMPTYTAG # item /\ n \in Nat /\ IsTable(tb) /\ tb.current_size \in Nat /\ n >= 2
      /\ loc # 0 /\ loc \in 1 .. n
  BY ItemsAre, TableIs, IsIn DEF IsTable
<1>1. CASE item \in Hash!Content(tb)
  <2>1. tb.table[loc] # Hash!EMPTYTAG
    BY <1>0, <1>1, IsIn
  <2>2. Hash!Put(tb, item) = tb
    BY <2>1, Zenon DEF Hash!Put
  <2>3. Hash!Content(tb) = Hash!Content(tb) \cup {item}
    BY <1>1
  <2> QED BY <1>1, <2>2, <2>3
<1>2. CASE item \notin Hash!Content(tb)
  <2>1. tb.table[loc] = Hash!EMPTYTAG
    BY <1>2, IsIn
  <2> DEFINE nw == Hash!Put(tb, item)
  <2>2. nw = [tb EXCEPT !.table[loc] = item, !.current_size = @ + 1]
    BY <1>0, <2>1, Zenon DEF Hash!Put
  <2>3. /\ tb \in [table : Seq(Items \cup {Hash!EMPTYTAG}), size_bits : 0 .. WORD, current_size : Nat]
        /\ n = Len(tb.table) /\ DOMAIN tb.table = 1 .. n
    BY DEF Hash!TableInv, Hash!size
  <2>4. /\ nw.table = [tb.table EXCEPT ![loc] = item] /\ nw.size_bits = tb.size_bits
        /\ nw.current_size = tb.current_size + 1
        /\ nw = [table |-> nw.table, size_bits |-> nw.size_bits, current_size |-> nw.current_size]
    BY <2>2, <2>3
  <2> HIDE DEF nw
  <2>5. /\ nw.table \in Seq(Items \cup {Hash!EMPTYTAG}) /\ Len(nw.table) = n
        /\ DOMAIN nw.table = 1 .. n
    <3>1. nw.table \in Seq(Items \cup {Hash!EMPTYTAG})
      BY <1>0, <2>3, <2>4
    <3> QED BY <2>3, <2>4, <3>1
  <2>6. nw \in [table : Seq(Items \cup {Hash!EMPTYTAG}), size_bits : 0 .. WORD, current_size : Nat]
    BY <2>3, <2>4, <2>5
  <2>7. Hash!size(nw) = n
    BY <2>5 DEF Hash!size
  <2>8. \A s \in 1 .. n : nw.table[s] = IF s = loc THEN item ELSE tb.table[s]
    BY <2>3, <2>4
  <2>9. Hash!Used(nw) = Hash!Used(tb) \cup {loc} /\ loc \notin Hash!Used(tb)
    BY <1>0, <2>1, <2>7, <2>8 DEF Hash!Used, Hash!Slots
  <2>10. \A s \in Hash!Used(tb) : s \in 1 .. n /\ s # loc /\ nw.table[s] = tb.table[s]
    BY <2>8, <2>9 DEF Hash!Used, Hash!Slots
  <2>11. nw.table[loc] = item
    BY <1>0, <2>8
  <2>12. Hash!Content(nw) = Hash!Content(tb) \cup {item}
    <3>1. ASSUME NEW x \in Hash!Content(nw) PROVE x \in Hash!Content(tb) \cup {item}
      <4>1. PICK s \in Hash!Used(nw) : x = nw.table[s]
        BY DEF Hash!Content
      <4> QED BY <2>9, <2>10, <2>11, <4>1 DEF Hash!Content
    <3>2. ASSUME NEW x \in Hash!Content(tb) PROVE x \in Hash!Content(nw)
      <4>1. PICK s \in Hash!Used(tb) : x = tb.table[s]
        BY DEF Hash!Content
      <4> QED BY <2>9, <2>10, <4>1 DEF Hash!Content
    <3>3. item \in Hash!Content(nw)
      BY <2>9, <2>11 DEF Hash!Content
    <3> QED BY <3>1, <3>2, <3>3
  <2>13. \A x, m : Hash!Probe(nw, x, m) = Hash!Probe(tb, x, m)
    BY <2>4, <2>7, Zenon DEF Hash!Probe, Hash!Home
  <2>14. Hash!Reached(nw)
    <3> SUFFICES ASSUME NEW s \in Hash!Used(nw)
                 PROVE  \E kk \in 0 .. n - 1 :
                          /\ Hash!Probe(nw, nw.table[s], kk) = s
                          /\ \A m \in 0 .. kk - 1 : Hash!Probe(nw, nw.table[s], m) \in Hash!Used(nw)
      BY <2>7 DEF Hash!Reached
    <3>1. CASE s \in Hash!Used(tb)
      <4>1. PICK kk \in 0 .. n - 1 :
              /\ Hash!Probe(tb, tb.table[s], kk) = s
              /\ \A m \in 0 .. kk - 1 : Hash!Probe(tb, tb.table[s], m) \in Hash!Used(tb)
        BY <3>1 DEF Hash!TableInv, Hash!Reached
      <4> QED BY <2>9, <2>10, <2>13, <3>1, <4>1
    <3>2. CASE s = loc
      <4>1. PICK k0 \in 0 .. n - 1 :
              /\ loc = Hash!Probe(tb, item, k0)
              /\ \A m \in 0 .. k0 - 1 : Hash!Probe(tb, item, m) \in Hash!Used(tb)
        BY Found
      <4> QED BY <2>9, <2>11, <2>13, <3>2, <4>1
    <3> QED BY <2>9, <3>1, <3>2
  <2>15. /\ Cardinality(Hash!Used(nw)) = tb.current_size + 1
         /\ Cardinality(Hash!Content(nw)) = tb.current_size + 1
    <3>1. /\ IsFiniteSet(Hash!Used(tb)) /\ Cardinality(Hash!Used(tb)) = tb.current_size
          /\ IsFiniteSet(Hash!Content(tb)) /\ Cardinality(Hash!Content(tb)) = tb.current_size
      BY TableIs
    <3>2. Cardinality(Hash!Used(tb) \cup {loc}) = Cardinality(Hash!Used(tb)) + 1
      BY <2>9, <3>1, FS_AddElement
    <3>3. Cardinality(Hash!Content(tb) \cup {item}) = Cardinality(Hash!Content(tb)) + 1
      BY <1>2, <3>1, FS_AddElement
    <3> QED BY <2>9, <2>12, <3>1, <3>2, <3>3
  <2>16. Hash!TableInv(nw)
    BY <1>0, <2>4, <2>6, <2>7, <2>14, <2>15, HashSize DEF Hash!TableInv
  <2> QED BY <1>2, <2>4, <2>7, <2>12, <2>16 DEF nw
<1> QED BY <1>1, <1>2

\* A step of the loop in rehash(), and what it makes of the slots in S.
Reinsert(tb, item) == IF item = Hash!EMPTYTAG THEN tb ELSE Hash!Put(tb, item)

Refill(tb, old, it, S) ==
    IF S = {} THEN tb ELSE Reinsert(it[S \ {Hash!Max(S)}], old[Hash!Max(S)])

RefilledBy(tb, n, n2) ==
    \E it : /\ \A S \in SUBSET (1 .. n) : it[S] = Refill(Hash!init_hash(n2), tb.table, it, S)
            /\ Hash!rehash(tb, n2) = it[1 .. n]

\* rehash() does compute the loop: its recursion has a solution.
LEMMA Refilled ==
  ASSUME NEW tb, NEW n \in Nat, DOMAIN tb.table = 1 .. n, NEW n2
  PROVE  RefilledBy(tb, n, n2)
<1> DEFINE old == tb.table
           start == Hash!init_hash(n2)
           Small(m) == {S \in SUBSET (1 .. n) : Cardinality(S) <= m}
           Good(m, g) == \A S \in Small(m) : g[S] = Refill(start, old, g, S)
           P == {m \in Nat : \E g : Good(m, g)}
<1>0. \A S \in SUBSET (1 .. n) : IsFiniteSet(S) /\ Cardinality(S) \in Nat
  BY SomeOf
<1> HIDE DEF old, start
<1>1. 0 \in P
  <2> DEFINE g == [S \in Small(0) |-> start]
  <2>1. \A S \in Small(0) : S = {}
    BY <1>0, FS_EmptySet
  <2>2. Good(0, g)
    BY <2>1 DEF Refill
  <2> QED BY <2>2
<1>2. ASSUME NEW m \in P PROVE m + 1 \in P
  <2> m \in Nat OBVIOUS
  <2>1. PICK g : Good(m, g)
    OBVIOUS
  <2> DEFINE G == [S \in Small(m + 1) |-> Refill(start, old, g, S)]
  <2>2. ASSUME NEW S \in Small(m + 1), S # {}
        PROVE  S \ {Hash!Max(S)} \in Small(m) /\ S \ {Hash!Max(S)} \in Small(m + 1)
    <3>1. Cardinality(S \ {Hash!Max(S)}) = Cardinality(S) - 1 /\ Cardinality(S) \in Nat
      BY <2>2, Fewer, HashOrder
    <3>2. Cardinality(S) <= m + 1
      OBVIOUS
    <3>3. Cardinality(S \ {Hash!Max(S)}) <= m
      BY <3>1, <3>2
    <3>4. Cardinality(S \ {Hash!Max(S)}) <= m + 1
      BY <3>1, <3>2
    <3> QED BY <3>3, <3>4
  <2>3. ASSUME NEW S \in Small(m) PROVE S \in Small(m + 1) /\ G[S] = g[S]
    <3>1. Cardinality(S) <= m /\ Cardinality(S) \in Nat BY <1>0
    <3>2. S \in Small(m + 1) BY <3>1
    <3> QED BY <2>1, <3>2
  <2>4. ASSUME NEW S \in Small(m + 1) PROVE G[S] = Refill(start, old, G, S)
    <3>1. CASE S = {}
      BY <3>1 DEF Refill
    <3>2. CASE S # {}
      <4>1. G[S \ {Hash!Max(S)}] = g[S \ {Hash!Max(S)}]
        BY <2>2, <2>3, <3>2
      <4>2. G[S] = Refill(start, old, g, S)
        OBVIOUS
      <4> HIDE DEF G
      <4> QED BY <3>2, <4>1, <4>2, Zenon DEF Refill
    <3> QED BY <3>1, <3>2
  <2>5. Good(m + 1, G)
    BY <2>4
  <2> HIDE DEF G, Good
  <2> QED BY <2>5
<1>3. P = Nat
  <2> HIDE DEF P
  <2>1. P \in SUBSET Nat BY DEF P
  <2> QED BY <1>1, <1>2, <2>1, Induct
<1>4. PICK g : Good(n, g)
  BY <1>3
<1>5. Small(n) = SUBSET (1 .. n)
  BY SomeOf
<1>6. \A S \in SUBSET (1 .. n) : g[S] = Refill(start, old, g, S)
  BY <1>4, <1>5
<1> HIDE DEF Good, Small, P
<1> DEFINE gg == [S \in SUBSET (1 .. n) |-> g[S]]
<1>7. gg = [S \in SUBSET (1 .. n) |-> Refill(start, old, gg, S)]
  <2>1. ASSUME NEW S \in SUBSET (1 .. n)
        PROVE  gg[S] = Refill(start, old, gg, S)
    <3>1. S \ {Hash!Max(S)} \in SUBSET (1 .. n)
      OBVIOUS
    <3>2. gg[S \ {Hash!Max(S)}] = g[S \ {Hash!Max(S)}] /\ gg[S] = g[S]
      BY <3>1
    <3> HIDE DEF gg
    <3>3. g[S] = Refill(start, old, g, S)
      BY <1>6
    <3> QED BY <3>2, <3>3, Zenon DEF Refill
  <2> QED BY <2>1, Zenon
<1> HIDE DEF gg
<1> DEFINE Eq(it) == it = [S \in SUBSET (1 .. n) |-> Refill(start, old, it, S)]
           It == CHOOSE it : Eq(it)
<1>8. Eq(It)
  BY <1>7, Zenon
<1>9. Hash!rehash(tb, n2) = It[1 .. n]
  BY Zenon DEF Hash!rehash, Hash!FoldLeft, Hash!MapThenFoldSet, Refill, Reinsert, old, start
<1> HIDE DEF It
<1>10. \A S \in SUBSET (1 .. n) : It[S] = Refill(start, old, It, S)
  BY <1>8, Zenon
<1> QED BY <1>9, <1>10 DEF RefilledBy, old, start

\* An empty table is a table.
LEMMA EmptyTable ==
  ASSUME Hash!HashAssumption, NEW n \in Nat, n >= 2
  PROVE  /\ Hash!TableInv(Hash!init_hash(n)) /\ Hash!size(Hash!init_hash(n)) = n
         /\ Hash!Content(Hash!init_hash(n)) = {} /\ Hash!init_hash(n).current_size = 0
<1> DEFINE tb == Hash!init_hash(n)
           B == {b \in 0 .. WORD : Hash!Bit[b] <= n}
<1>1. Hash!size_bits(n) \in 0 .. WORD
  <2>1. WORD \in Nat
    BY ItemsAre
  <2>2. 0 \in B
    BY <2>1, BitIs
  <2>3. B \in SUBSET (0 .. WORD) /\ B # {}
    BY <2>2
  <2>4. Hash!size_bits(n) = Hash!Max(B)
    BY Zenon DEF Hash!size_bits
  <2> HIDE DEF B
  <2>5. Hash!Max(B) \in B
    BY <2>1, <2>3, Extremes, HashOrder
  <2> QED BY <2>3, <2>4, <2>5
<1>2. /\ tb.table = [s \in 1 .. n |-> Hash!EMPTYTAG] /\ tb.size_bits = Hash!size_bits(n)
      /\ tb.current_size = 0
      /\ tb = [table |-> tb.table, size_bits |-> tb.size_bits, current_size |-> tb.current_size]
  BY DEF Hash!init_hash
<1> HIDE DEF tb
<1>3. /\ tb.table \in Seq(Items \cup {Hash!EMPTYTAG}) /\ Len(tb.table) = n
      /\ \A s \in 1 .. n : tb.table[s] = Hash!EMPTYTAG
  BY <1>2
<1>4. Hash!size(tb) = n
  BY <1>3 DEF Hash!size
<1>5. Hash!Used(tb) = {} /\ Hash!Content(tb) = {}
  BY <1>3, <1>4 DEF Hash!Used, Hash!Slots, Hash!Content
<1>6. tb \in [table : Seq(Items \cup {Hash!EMPTYTAG}), size_bits : 0 .. WORD, current_size : Nat]
  BY <1>1, <1>2, <1>3
<1>7. Hash!Reached(tb)
  BY <1>5 DEF Hash!Reached
<1>8. Hash!TableInv(tb)
  BY <1>2, <1>4, <1>5, <1>6, <1>7, HashSize, FS_EmptySet DEF Hash!TableInv
<1> QED BY <1>2, <1>4, <1>5, <1>8 DEF tb

\* rehash() keeps the items, whatever order the slots have put them in; the table it
\* fills is never full.
LEMMA RehashKeeps ==
  ASSUME Hash!HashAssumption, NEW tb, Hash!TableInv(tb), tb.current_size <= Hash!size(tb)
  PROVE  LET nw == Hash!rehash(tb, 2 * Hash!size(tb)) IN
         /\ Hash!TableInv(nw) /\ Hash!size(nw) = 2 * Hash!size(tb)
         /\ Hash!Content(nw) = Hash!Content(tb) /\ nw.current_size = tb.current_size
<1> DEFINE n == Hash!size(tb)
           Kept(S) == {tb.table[s] : s \in S} \ {Hash!EMPTYTAG}
           nw == Hash!rehash(tb, 2 * n)
<1>1. /\ n \in Nat /\ n >= 2 /\ DOMAIN tb.table = 1 .. n
      /\ \A s \in 1 .. n : tb.table[s] \in Items \cup {Hash!EMPTYTAG}
  BY TableIs DEF IsTable, Hash!TableInv, Hash!size
<1>2. PICK it : /\ \A S \in SUBSET (1 .. n) :
                      it[S] = Refill(Hash!init_hash(2 * n), tb.table, it, S)
                /\ nw = it[1 .. n]
  <2>1. n \in Nat /\ DOMAIN tb.table = 1 .. n
    BY <1>1
  <2> HIDE DEF n
  <2>2. RefilledBy(tb, n, 2 * n)
    BY <2>1, Refilled
  <2> QED BY <2>2, Zenon DEF RefilledBy
<1>3. Hash!Content(tb) = Kept(1 .. n)
  BY DEF Hash!Content, Hash!Used, Hash!Slots
<1>4. \A S \in SUBSET (1 .. n) : Kept(S) \subseteq Hash!Content(tb)
  BY <1>3
<1> DEFINE Ok(S) == /\ Hash!TableInv(it[S]) /\ Hash!size(it[S]) = 2 * n
                    /\ Hash!Content(it[S]) = Kept(S)
           Q == {m \in Nat : \A S \in SUBSET (1 .. n) : Cardinality(S) = m => Ok(S)}
<1> HIDE DEF n, nw
<1>5. 0 \in Q
  <2>1. \A S \in SUBSET (1 .. n) : Cardinality(S) = 0 => S = {}
    BY <1>1, SomeOf, FS_EmptySet
  <2>2. {} \in SUBSET (1 .. n)
    OBVIOUS
  <2>3. it[{}] = Hash!init_hash(2 * n)
    BY <1>2, <2>2, Zenon DEF Refill
  <2>4. 2 * n \in Nat /\ 2 * n >= 2
    BY <1>1
  <2>5. Kept({}) = {}
    OBVIOUS
  <2>6. Ok({})
    BY <2>3, <2>4, <2>5, EmptyTable
  <2> HIDE DEF Ok
  <2> QED BY <2>1, <2>6
<1>6. ASSUME NEW m \in Q PROVE m + 1 \in Q
  <2> m \in Nat OBVIOUS
  <2> SUFFICES ASSUME NEW S \in SUBSET (1 .. n), Cardinality(S) = m + 1 PROVE Ok(S)
    <3> HIDE DEF Ok
    <3> QED OBVIOUS
  <2>1. S # {}
    <3>1. Cardinality({}) = 0 BY FS_EmptySet
    <3>2. m + 1 # 0 OBVIOUS
    <3> QED BY <3>1, <3>2
  <2> DEFINE x == Hash!Max(S)
             S1 == S \ {x}
  <2>2. x \in S /\ Cardinality(S1) = m
    <3>1. x \in S /\ Cardinality(S1) = Cardinality(S) - 1
      BY <1>1, <2>1, Fewer, HashOrder
    <3>2. (m + 1) - 1 = m OBVIOUS
    <3> QED BY <3>1, <3>2
  <2>3. it[S] = Reinsert(it[S1], tb.table[x])
    BY <1>2, <2>1, Zenon DEF Refill
  <2>4. S1 \in SUBSET (1 .. n)
    OBVIOUS
  <2>5. Ok(S1)
    <3> HIDE DEF Ok, S1
    <3> QED BY <2>2, <2>4
  <2> HIDE DEF x
  <2>6. Kept(S) = IF tb.table[x] = Hash!EMPTYTAG THEN Kept(S1) ELSE Kept(S1) \cup {tb.table[x]}
    BY <2>2
  <2>7. it[S1].current_size < 2 * n
    <3>1. Hash!Content(it[S1]) \in SUBSET Hash!Content(tb)
      BY <1>4, <2>4, <2>5
    <3>2. /\ IsFiniteSet(Hash!Content(tb)) /\ Cardinality(Hash!Content(tb)) = tb.current_size
          /\ Cardinality(Hash!Content(it[S1])) = it[S1].current_size
          /\ it[S1].current_size \in Nat /\ tb.current_size \in Nat
      <4> HIDE DEF Kept, S1
      <4> QED BY <2>5, TableIs
    <3>3. it[S1].current_size <= tb.current_size
      BY <3>1, <3>2, FS_Subset
    <3>4. tb.current_size <= n
      BY DEF n
    <3> QED BY <1>1, <3>2, <3>3, <3>4
  <2>8. CASE tb.table[x] = Hash!EMPTYTAG
    <3>1. it[S] = it[S1]
      BY <2>3, <2>8 DEF Reinsert
    <3> HIDE DEF Kept, S1
    <3> QED BY <2>5, <2>6, <2>8, <3>1
  <2>9. CASE tb.table[x] # Hash!EMPTYTAG
    <3>1. it[S] = Hash!Put(it[S1], tb.table[x])
      BY <2>3, <2>9 DEF Reinsert
    <3>2. tb.table[x] \in Items
      BY <1>1, <2>2, <2>9
    <3> HIDE DEF Kept, S1
    <3>3. /\ Hash!TableInv(it[S]) /\ Hash!size(it[S]) = Hash!size(it[S1])
          /\ Hash!Content(it[S]) = Hash!Content(it[S1]) \cup {tb.table[x]}
      BY <2>5, <2>7, <3>1, <3>2, PutKeeps
    <3> QED BY <2>5, <2>6, <2>9, <3>3
  <2> QED BY <2>8, <2>9
<1>7. Q = Nat
  <2> HIDE DEF Q
  <2>1. Q \in SUBSET Nat BY DEF Q
  <2> QED BY <1>5, <1>6, <2>1, Induct
<1>8. Ok(1 .. n)
  <2>1. n \in Q /\ Cardinality(1 .. n) = n
    BY <1>1, <1>7, SomeOf
  <2> HIDE DEF Ok
  <2> QED BY <2>1
<1>9. /\ Hash!TableInv(nw) /\ Hash!size(nw) = 2 * n /\ Hash!Content(nw) = Hash!Content(tb)
  BY <1>2, <1>3, <1>8
<1>10. nw.current_size = tb.current_size
  BY <1>9, TableIs
<1> QED BY <1>9, <1>10 DEF n, nw

\* Half of what is not full is empty, and there is room for one more.
LEMMA Room ==
  ASSUME NEW n \in Nat, n >= 2, NEW c \in Nat
  PROVE  /\ c <= n \div 2 => c < n /\ c + 1 <= n
         /\ c < n \div 2 => c + 1 <= n \div 2
         /\ (2 * n) \div 2 = n
<1>1. PICK d \in Int, r \in Int : d = n \div 2 /\ r = n % 2 /\ n = 2 * d + r /\ r \in 0 .. 1
  <2>1. n % 2 \in 0 .. 1 /\ n \div 2 \in Int /\ n = 2 * (n \div 2) + (n % 2)
    BY Z3
  <2>2. n % 2 \in Int
    BY <2>1
  <2> QED BY <2>1, <2>2, Zenon
<1>2. (2 * n) \div 2 = n
  BY Z3
<1> QED BY <1>1, <1>2

\* The table that insert_hash() searches, doubled or not, has an empty slot.
LEMMA GrownKeeps ==
  ASSUME Hash!HashAssumption, NEW tb, Hash!TableInv(tb), tb.current_size <= Hash!size(tb) \div 2
  PROVE  LET g == Hash!Grown(tb) IN
         /\ Hash!TableInv(g) /\ Hash!Content(g) = Hash!Content(tb)
         /\ g.current_size = tb.current_size
         /\ g.current_size < Hash!size(g) /\ g.current_size + 1 <= Hash!size(g) \div 2
<1> DEFINE g == Hash!Grown(tb)
           n == Hash!size(tb)
<1>1. n \in Nat /\ n >= 2 /\ tb.current_size \in Nat
  BY TableIs DEF IsTable
<1>2. /\ tb.current_size < n /\ tb.current_size + 1 <= n
      /\ tb.current_size < n \div 2 => tb.current_size + 1 <= n \div 2
      /\ (2 * n) \div 2 = n
  BY <1>1, Room
<1>3. n \div 2 \in Int
  BY <1>1, Z3
<1>4. CASE tb.current_size >= n \div 2
  <2>1. g = Hash!rehash(tb, 2 * n)
    BY <1>4, Zenon DEF Hash!Grown
  <2> HIDE DEF g, n
  <2>2. tb.current_size <= n
    BY <1>1, <1>2
  <2>3. /\ Hash!TableInv(g) /\ Hash!size(g) = 2 * n /\ Hash!Content(g) = Hash!Content(tb)
        /\ g.current_size = tb.current_size
    BY <2>1, <2>2, RehashKeeps DEF n
  <2>4. tb.current_size < 2 * n
    BY <1>1, <1>2
  <2> QED BY <1>2, <2>3, <2>4 DEF g
<1>5. CASE ~(tb.current_size >= n \div 2)
  <2>1. g = tb
    BY <1>5, Zenon DEF Hash!Grown
  <2>2. tb.current_size < n \div 2
    BY <1>1, <1>3, <1>5
  <2> QED BY <1>2, <2>1, <2>2
<1> QED BY <1>4, <1>5

\* The empty table is there at the start,
LEMMA HashStart == ASSUME Hash!HashAssumption, Hash!Init PROVE Hash!HashInv
<1>1. initial_size \in Nat /\ initial_size >= 2
  BY DEF Hash!HashAssumption
<1>2. table = Hash!init_hash(initial_size) /\ seen = {} /\ news = 0
  BY DEF Hash!Init
<1>3. 0 <= initial_size \div 2
  BY <1>1, Z3
<1> QED BY <1>1, <1>2, <1>3, EmptyTable DEF Hash!HashInv

\* and an insertion keeps table and history together.
LEMMA HashNext == ASSUME Hash!HashAssumption, Hash!HashInv, Hash!Next PROVE Hash!HashInv'
<1>1. PICK item \in Items : Hash!insert_hash(item)
  BY DEF Hash!Next
<1> DEFINE g == Hash!Grown(table)
<1>2. /\ table' = Hash!Put(g, item) /\ seen' = seen \cup {item}
      /\ news' = IF table'.current_size > g.current_size THEN news + 1 ELSE news
  BY <1>1, Zenon DEF Hash!insert_hash
<1>3. /\ Hash!TableInv(table) /\ table.current_size <= Hash!size(table) \div 2
      /\ Hash!Content(table) = seen /\ news = table.current_size
  BY DEF Hash!HashInv
<1>4. /\ Hash!TableInv(g) /\ Hash!Content(g) = seen /\ g.current_size = news
      /\ g.current_size < Hash!size(g) /\ g.current_size + 1 <= Hash!size(g) \div 2
  BY <1>3, GrownKeeps
<1> HIDE DEF g
<1>5. /\ Hash!TableInv(table') /\ Hash!size(table') = Hash!size(g)
      /\ Hash!Content(table') = seen \cup {item}
      /\ table'.current_size = IF item \in seen THEN news ELSE news + 1
  BY <1>2, <1>4, PutKeeps
<1>6. PICK c \in Nat, half \in Int : c = news /\ c = g.current_size /\ half = Hash!size(g) \div 2
  <2>1. Hash!size(g) \in Nat /\ g.current_size \in Nat
    BY <1>4, TableIs DEF IsTable
  <2>2. Hash!size(g) \div 2 \in Int
    BY <2>1, Z3
  <2> QED BY <1>4, <2>1, <2>2
<1>7. table'.current_size <= half /\ news' = table'.current_size
  BY <1>2, <1>4, <1>5, <1>6
<1>8. table'.current_size <= Hash!size(table') \div 2
  BY <1>5, <1>6, <1>7
<1> QED BY <1>2, <1>5, <1>7, <1>8 DEF Hash!HashInv

\* The table is then the set of what was inserted.
LEMMA HashImplied == ASSUME Hash!HashAssumption, Hash!HashInv PROVE Hash!IsTheSet
<1>1. /\ Hash!TableInv(table) /\ table.current_size <= Hash!size(table) \div 2
      /\ Hash!Content(table) = seen /\ news = table.current_size
  BY DEF Hash!HashInv
<1>2. Cardinality(seen) = table.current_size
  BY <1>1, TableIs
<1>3. table.current_size < Hash!size(table)
  <2>1. Hash!size(table) \in Nat /\ Hash!size(table) >= 2 /\ table.current_size \in Nat
    BY <1>1, TableIs DEF IsTable
  <2> QED BY <1>1, <2>1, Room
<1>4. \A item \in Items : Hash!is_in_hash(table, item) <=> item \in seen
  BY <1>1, <1>3, IsIn
<1> QED BY <1>1, <1>2, <1>4, HashSize DEF Hash!IsTheSet
------------------------------------------------------------------------------
(* spl_last.c: the records after the place reached, first by their types *)

\* The file has records.
IsWtmp == wtmp \in Seq(SplLast!Records) /\ wtmp # <<>>

\* A record has one of five types, and that of a login has a line.
LEMMA RecordIs ==
  ASSUME SplLast!LastAssumption, IsWtmp
  PROVE  /\ Len(wtmp) \in Nat /\ Len(wtmp) >= 1
         /\ \A k \in 1 .. Len(wtmp) :
               /\ wtmp[k].type \in {"user", "dead", "boot", "shutdown", "other"}
               /\ wtmp[k].type = "user" => wtmp[k].line # NoLine
<1>1. Len(wtmp) \in Nat /\ Len(wtmp) >= 1
  BY EmptySeq DEF IsWtmp
<1>2. ASSUME NEW k \in 1 .. Len(wtmp)
      PROVE  /\ wtmp[k].type \in {"user", "dead", "boot", "shutdown", "other"}
             /\ wtmp[k].type = "user" => wtmp[k].line # NoLine
  <2>1. wtmp[k] \in SplLast!Records
    BY <1>1 DEF IsWtmp
  <2> QED BY <2>1 DEF SplLast!Records, SplLast!LastAssumption
<1> QED BY <1>1, <1>2

\* The records of a type from place c on.
LEMMA LaterStep ==
  ASSUME SplLast!LastAssumption, IsWtmp, NEW c \in 1 .. Len(wtmp), NEW S
  PROVE  SplLast!Later(c - 1, S)
            = IF wtmp[c].type \in S THEN SplLast!Later(c, S) \cup {c} ELSE SplLast!Later(c, S)
<1>1. Len(wtmp) \in Nat
  BY RecordIs
<1>2. (c - 1) + 1 .. Len(wtmp) = {c} \cup (c + 1 .. Len(wtmp))
  BY <1>1
<1>3. SplLast!Later(c - 1, S) = {j \in {c} \cup (c + 1 .. Len(wtmp)) : wtmp[j].type \in S}
  BY <1>2, Zenon DEF SplLast!Later
<1> QED BY <1>3, Zenon DEF SplLast!Later

\* The first of them is one of them.
LEMMA FirstIs ==
  ASSUME SplLast!LastAssumption, IsWtmp, NEW c \in 0 .. Len(wtmp), NEW S, NEW none
  PROVE  LET L == SplLast!Later(c, S)
             f == SplLast!First(L, none)
         IN /\ L \in SUBSET (c + 1 .. Len(wtmp))
            /\ L = {} => f = none
            /\ L # {} => f \in L /\ \A j \in L : f <= j
<1> DEFINE L == SplLast!Later(c, S)
           f == SplLast!First(L, none)
<1>1. Len(wtmp) \in Nat
  BY RecordIs
<1>2. L \in SUBSET (c + 1 .. Len(wtmp))
  BY DEF SplLast!Later
<1>3. L = {} => f = none
  BY Zenon DEF SplLast!First
<1>4. ASSUME L # {} PROVE f \in L /\ \A j \in L : f <= j
  <2>1. L \in SUBSET (0 .. Len(wtmp))
    BY <1>1, <1>2
  <2>2. Smallest(L) \in L /\ \A y \in L : Smallest(L) <= y
    <3> HIDE DEF L
    <3> QED BY <1>1, <1>4, <2>1, Extremes
  <2>3. f = CHOOSE j \in L : \A x \in L : j <= x
    BY <1>4, Zenon DEF SplLast!First
  <2> HIDE DEF L, f
  <2> QED BY <2>2, <2>3, Zenon
<1> QED BY <1>2, <1>3, <1>4

\* A record read is the first of its type.
LEMMA FirstStep ==
  ASSUME SplLast!LastAssumption, IsWtmp, NEW c \in 1 .. Len(wtmp), NEW S, NEW none
  PROVE  SplLast!First(SplLast!Later(c - 1, S), none)
            = IF wtmp[c].type \in S THEN c ELSE SplLast!First(SplLast!Later(c, S), none)
<1>1. Len(wtmp) \in Nat
  BY RecordIs
<1>2. CASE wtmp[c].type \notin S
  BY <1>2, LaterStep
<1>3. CASE wtmp[c].type \in S
  <2> DEFINE L == SplLast!Later(c - 1, S)
             f == SplLast!First(L, none)
  <2>1. L = SplLast!Later(c, S) \cup {c}
    BY <1>3, LaterStep
  <2>2. SplLast!Later(c, S) \in SUBSET (c + 1 .. Len(wtmp))
    BY <1>1 DEF SplLast!Later
  <2>3. c - 1 \in 0 .. Len(wtmp)
    BY <1>1
  <2>4. f \in L /\ \A j \in L : f <= j
    <3>1. L # {}
      BY <2>1
    <3> QED BY <2>3, <3>1, FirstIs
  <2> HIDE DEF L, f
  <2>5. f <= c /\ (f = c \/ f \in c + 1 .. Len(wtmp))
    BY <2>1, <2>2, <2>4
  <2>6. f = c
    BY <1>1, <2>5
  <2> QED BY <1>3, <2>6 DEF f, L
<1> QED BY <1>2, <1>3

\* What the list holds after the record at c, by its type.
LEMMA OpenIs ==
  ASSUME SplLast!LastAssumption, IsWtmp, NEW c \in 0 .. Len(wtmp), NEW j
  PROVE  j \in SplLast!Open(c) <=>
            /\ j \in c + 1 .. Len(wtmp) /\ wtmp[j].type = "dead" /\ wtmp[j].line # NoLine
            /\ \A m \in c + 1 .. j - 1 :
                  /\ wtmp[m].type = "user" => wtmp[m].line # wtmp[j].line
                  /\ wtmp[m].type \notin {"boot", "shutdown"}
BY DEF SplLast!Open, SplLast!Later

\* What reading the record at c does to it.
LEMMA OpenStep ==
  ASSUME SplLast!LastAssumption, IsWtmp, NEW c \in 1 .. Len(wtmp)
  PROVE  LET was == SplLast!Open(c)
             now == SplLast!Open(c - 1)
         IN /\ wtmp[c].type \in {"boot", "shutdown"} => now = {}
            /\ wtmp[c].type = "user" => now = {j \in was : wtmp[j].line # wtmp[c].line}
            /\ wtmp[c].type = "dead" => now = IF wtmp[c].line = NoLine THEN was ELSE was \cup {c}
            /\ wtmp[c].type = "other" => now = was
<1> DEFINE was == SplLast!Open(c)
           now == SplLast!Open(c - 1)
           Passes(j) == /\ wtmp[c].type = "user" => wtmp[c].line # wtmp[j].line
                        /\ wtmp[c].type \notin {"boot", "shutdown"}
<1>1. Len(wtmp) \in Nat /\ c \in 0 .. Len(wtmp) /\ c - 1 \in 0 .. Len(wtmp) /\ (c - 1) + 1 = c
  BY RecordIs
<1>2. ASSUME NEW j \in c + 1 .. Len(wtmp) PROVE j \in now <=> j \in was /\ Passes(j)
  <2>1. (c - 1) + 1 .. j - 1 = {c} \cup (c + 1 .. j - 1)
    BY <1>1
  <2>2. j \in (c - 1) + 1 .. Len(wtmp)
    BY <1>1
  <2>3. j \in now <=>
            /\ wtmp[j].type = "dead" /\ wtmp[j].line # NoLine
            /\ \A m \in {c} \cup (c + 1 .. j - 1) :
                  /\ wtmp[m].type = "user" => wtmp[m].line # wtmp[j].line
                  /\ wtmp[m].type \notin {"boot", "shutdown"}
    BY <1>1, <2>1, <2>2, OpenIs
  <2>4. j \in was <=>
            /\ wtmp[j].type = "dead" /\ wtmp[j].line # NoLine
            /\ \A m \in c + 1 .. j - 1 :
                  /\ wtmp[m].type = "user" => wtmp[m].line # wtmp[j].line
                  /\ wtmp[m].type \notin {"boot", "shutdown"}
    BY <1>1, OpenIs
  <2> HIDE DEF was, now
  <2> QED BY <2>3, <2>4, Zenon
<1>3. c \in now <=> wtmp[c].type = "dead" /\ wtmp[c].line # NoLine
  <2>1. c \in (c - 1) + 1 .. Len(wtmp) /\ (c - 1) + 1 .. c - 1 = {}
    BY <1>1
  <2> QED BY <1>1, <2>1, OpenIs
<1>4. was \in SUBSET (c + 1 .. Len(wtmp)) /\ c \notin was
  <2>1. \A j \in was : j \in c + 1 .. Len(wtmp)
    BY <1>1, OpenIs
  <2> HIDE DEF was
  <2> QED BY <1>1, <2>1
<1>5. now \in SUBSET ({c} \cup (c + 1 .. Len(wtmp)))
  <2>1. \A j \in now : j \in (c - 1) + 1 .. Len(wtmp)
    BY <1>1, OpenIs
  <2>2. (c - 1) + 1 .. Len(wtmp) = {c} \cup (c + 1 .. Len(wtmp))
    BY <1>1
  <2> HIDE DEF now
  <2> QED BY <2>1, <2>2
<1> HIDE DEF was, now
<1>6. now = {j \in was : Passes(j)} \cup (IF wtmp[c].type = "dead" /\ wtmp[c].line # NoLine THEN {c} ELSE {})
  BY <1>2, <1>3, <1>4, <1>5
<1>7. wtmp[c].type \in {"boot", "shutdown"} => now = {}
  BY <1>6
<1>8. wtmp[c].type = "user" => now = {j \in was : wtmp[j].line # wtmp[c].line}
  BY <1>6
<1>9. wtmp[c].type = "dead" => now = IF wtmp[c].line = NoLine THEN was ELSE was \cup {c}
  BY <1>6
<1>10. wtmp[c].type = "other" => now = was
  BY <1>6
<1> QED BY <1>7, <1>8, <1>9, <1>10 DEF was, now

\* The logouts of a login are those in the list that are of its line.
LEMMA OpenLogouts ==
  ASSUME SplLast!LastAssumption, IsWtmp, NEW c \in 1 .. Len(wtmp), wtmp[c].type = "user"
  PROVE  SplLast!Logouts(c) = {j \in SplLast!Open(c) : wtmp[j].line = wtmp[c].line}
<1>1. Len(wtmp) \in Nat /\ c \in 0 .. Len(wtmp) /\ wtmp[c].line # NoLine
  BY RecordIs
<1>2. ASSUME NEW j \in c + 1 .. Len(wtmp), wtmp[j].type = "dead"
      PROVE  (SplLast!Later(c, {"boot", "shutdown"}) \cap (1 .. j) = {})
                <=> \A m \in c + 1 .. j - 1 : wtmp[m].type \notin {"boot", "shutdown"}
  <2>1. \A m \in c + 1 .. Len(wtmp) : m \in 1 .. j <=> m \in c + 1 .. j - 1 \/ m = j
    BY <1>1
  <2>2. c + 1 .. j - 1 \subseteq c + 1 .. Len(wtmp)
    BY <1>1
  <2>3. wtmp[j].type \notin {"boot", "shutdown"}
    BY <1>2
  <2>4. (SplLast!Later(c, {"boot", "shutdown"}) \cap (1 .. j) = {})
           <=> \A m \in c + 1 .. Len(wtmp) : m \in 1 .. j => wtmp[m].type \notin {"boot", "shutdown"}
    BY Zenon DEF SplLast!Later
  <2> QED BY <2>1, <2>2, <2>3, <2>4, SMT
<1>3. ASSUME NEW j PROVE j \in SplLast!Logouts(c) <=> j \in SplLast!Open(c) /\ wtmp[j].line = wtmp[c].line
  <2>1. j \in SplLast!Logouts(c) <=>
            /\ j \in c + 1 .. Len(wtmp) /\ wtmp[j].type = "dead" /\ wtmp[j].line = wtmp[c].line
            /\ \A m \in c + 1 .. j - 1 : wtmp[m].type = "user" => wtmp[m].line # wtmp[c].line
            /\ SplLast!Later(c, {"boot", "shutdown"}) \cap (1 .. j) = {}
    BY DEF SplLast!Logouts, SplLast!Later
  <2>2. j \in SplLast!Open(c) <=>
            /\ j \in c + 1 .. Len(wtmp) /\ wtmp[j].type = "dead" /\ wtmp[j].line # NoLine
            /\ \A m \in c + 1 .. j - 1 :
                  /\ wtmp[m].type = "user" => wtmp[m].line # wtmp[j].line
                  /\ wtmp[m].type \notin {"boot", "shutdown"}
    BY <1>1, OpenIs
  <2>3. CASE ~(j \in c + 1 .. Len(wtmp) /\ wtmp[j].type = "dead" /\ wtmp[j].line = wtmp[c].line)
    BY <2>1, <2>2, <2>3, Zenon
  <2>4. CASE j \in c + 1 .. Len(wtmp) /\ wtmp[j].type = "dead" /\ wtmp[j].line = wtmp[c].line
    <3>1. (SplLast!Later(c, {"boot", "shutdown"}) \cap (1 .. j) = {})
             <=> \A m \in c + 1 .. j - 1 : wtmp[m].type \notin {"boot", "shutdown"}
      BY <1>2, <2>4
    <3> QED BY <1>1, <2>1, <2>2, <2>4, <3>1, Zenon
  <2> QED BY <2>3, <2>4
<1> QED BY <1>3

\* What a list holds, and that it is in the order R.
Members(q)   == {q[m] : m \in 1 .. Len(q)}
Sorted(q, R) == \A m, k \in 1 .. Len(q) : m < k => <<q[m], q[k]>> \in R

Rising   == {p \in Int \X Int : p[1] < p[2]}
InTurn   == {p \in (Int \X Int) \X (Int \X Int) : SplLast!Before(p[1], p[2])}

\* Lists of none and one, a list with one more, and two lists in a row.
LEMMA OneMember ==
  ASSUME NEW e, NEW R
  PROVE  /\ Members(<< >>) = {} /\ Members(<<e>>) = {e}
         /\ Sorted(<< >>, R) /\ Sorted(<<e>>, R)
<1>1. Len(<< >>) = 0 /\ Len(<<e>>) = 1 /\ <<e>>[1] = e
  OBVIOUS
<1>2. 1 .. 0 = {} /\ 1 .. 1 = {1}
  OBVIOUS
<1>3. Members(<< >>) = {} /\ Members(<<e>>) = {e}
  BY <1>1, <1>2 DEF Members
<1>4. Sorted(<< >>, R)
  BY <1>1, <1>2 DEF Sorted
<1>5. Sorted(<<e>>, R)
  <2>1. \A m, k \in 1 .. 1 : ~(m < k)
    BY <1>2
  <2> QED BY <1>1, <2>1 DEF Sorted
<1> QED BY <1>3, <1>4, <1>5

LEMMA Appended ==
  ASSUME NEW S, NEW q \in Seq(S), NEW e \in S, NEW R, Sorted(q, R),
         \A x \in Members(q) : <<x, e>> \in R
  PROVE  /\ Append(q, e) \in Seq(S) /\ Members(Append(q, e)) = Members(q) \cup {e}
         /\ Sorted(Append(q, e), R)
<1> DEFINE a == Append(q, e)
           n == Len(q)
<1>1. /\ a \in Seq(S) /\ n \in Nat /\ Len(a) = n + 1 /\ a[n + 1] = e
      /\ \A m \in 1 .. n : a[m] = q[m]
  BY AppendProperties
<1>2. 1 .. n + 1 = (1 .. n) \cup {n + 1}
  BY <1>1
<1> HIDE DEF a
<1>3. Members(a) = Members(q) \cup {e}
  <2>1. Members(a) = {a[m] : m \in 1 .. n + 1}
    BY <1>1 DEF Members
  <2> HIDE DEF n
  <2>2. Members(q) = {q[m] : m \in 1 .. n}
    BY DEF Members, n
  <2>3. a[n + 1] = e /\ \A m \in 1 .. n : a[m] = q[m]
    BY <1>1
  <2>4. {a[m] : m \in (1 .. n) \cup {n + 1}} = {q[m] : m \in 1 .. n} \cup {e}
    BY <2>3
  <2> QED BY <1>2, <2>1, <2>2, <2>4
<1>4. ASSUME NEW m \in 1 .. n + 1, NEW k \in 1 .. n + 1, m < k PROVE <<a[m], a[k]>> \in R
  <2>1. m \in 1 .. n
    BY <1>1, <1>4
  <2>2. CASE k \in 1 .. n
    BY <1>1, <1>4, <2>1, <2>2 DEF Sorted
  <2>3. CASE k = n + 1
    <3>1. q[m] \in Members(q)
      BY <2>1 DEF Members
    <3> QED BY <1>1, <2>1, <2>3, <3>1
  <2> QED BY <1>2, <2>2, <2>3
<1>5. Sorted(a, R)
  BY <1>1, <1>4 DEF Sorted
<1> QED BY <1>1, <1>3, <1>5 DEF a

LEMMA Joined ==
  ASSUME NEW S, NEW p \in Seq(S), NEW q \in Seq(S), NEW R, Sorted(p, R), Sorted(q, R),
         \A x \in Members(p), y \in Members(q) : <<x, y>> \in R
  PROVE  /\ p \o q \in Seq(S) /\ Members(p \o q) = Members(p) \cup Members(q)
         /\ Sorted(p \o q, R)
<1> DEFINE a == p \o q
           n == Len(p)
           t == Len(q)
<1>1. /\ a \in Seq(S) /\ n \in Nat /\ t \in Nat /\ Len(a) = n + t
      /\ \A m \in 1 .. n : a[m] = p[m]
      /\ \A m \in n + 1 .. n + t : a[m] = q[m - n]
  BY ConcatProperties
<1> HIDE DEF a
<1>2. \A m \in 1 .. n + t : \/ m \in 1 .. n
                            \/ m \in n + 1 .. n + t /\ m - n \in 1 .. t
  BY <1>1
<1>3. \A m \in 1 .. t : n + m \in n + 1 .. n + t /\ n + m \in 1 .. n + t /\ a[n + m] = q[m]
  <2> TAKE m \in 1 .. t
  <2>1. n + m \in n + 1 .. n + t /\ n + m \in 1 .. n + t /\ (n + m) - n = m
    BY <1>1
  <2> QED BY <1>1, <2>1
<1>4. \A m \in 1 .. n : m \in 1 .. n + t
  BY <1>1
<1>5. Members(a) = Members(p) \cup Members(q)
  <2>1. Members(a) = {a[m] : m \in 1 .. n + t}
    BY <1>1 DEF Members
  <2>2. Members(p) = {p[m] : m \in 1 .. n} /\ Members(q) = {q[m] : m \in 1 .. t}
    BY DEF Members
  <2> HIDE DEF n, t
  <2>3. ASSUME NEW x \in Members(a) PROVE x \in Members(p) \cup Members(q)
    <3>1. PICK m \in 1 .. n + t : x = a[m]
      BY <2>1
    <3> QED BY <1>1, <1>2, <2>2, <3>1
  <2>4. ASSUME NEW x \in Members(p) \cup Members(q) PROVE x \in Members(a)
    <3>1. CASE x \in Members(p)
      BY <1>1, <1>4, <2>1, <2>2, <3>1
    <3>2. CASE x \in Members(q)
      <4>1. PICK m \in 1 .. t : x = q[m]
        BY <2>2, <3>2
      <4> QED BY <1>3, <2>1, <4>1
    <3> QED BY <3>1, <3>2
  <2> QED BY <2>3, <2>4
<1>6. ASSUME NEW m \in 1 .. n + t, NEW k \in 1 .. n + t, m < k PROVE <<a[m], a[k]>> \in R
  <2>1. CASE k \in 1 .. n
    <3>1. m \in 1 .. n
      BY <1>1, <1>6, <2>1
    <3> QED BY <1>1, <1>6, <2>1, <3>1 DEF Sorted
  <2>2. CASE m \in 1 .. n /\ k \in n + 1 .. n + t /\ k - n \in 1 .. t
    <3>1. p[m] \in Members(p) /\ q[k - n] \in Members(q)
      BY <2>2 DEF Members
    <3>2. a[m] = p[m] /\ a[k] = q[k - n]
      BY <1>1, <2>2
    <3> QED BY <3>1, <3>2
  <2>3. CASE m \in n + 1 .. n + t /\ m - n \in 1 .. t /\ k \in n + 1 .. n + t /\ k - n \in 1 .. t
    <3>1. m - n < k - n
      BY <1>1, <1>6
    <3>2. a[m] = q[m - n] /\ a[k] = q[k - n]
      BY <1>1, <2>3
    <3> QED BY <2>3, <3>1, <3>2 DEF Sorted
  <2>4. CASE m \in n + 1 .. n + t /\ k \in 1 .. n
    BY <1>1, <1>6, <2>4
  <2> QED BY <1>2, <2>1, <2>2, <2>3, <2>4
<1>7. Sorted(a, R)
  BY <1>1, <1>6 DEF Sorted
<1> QED BY <1>1, <1>5, <1>7 DEF a

\* The loop over the list of logouts: what a turn of it adds to the turns before.
Turn(k, it, S) ==
    IF S = {} THEN [lines |-> << >>, left |-> << >>]
    ELSE SplLast!Pair(k, it[S \ {Greatest(S)}], saved_ut_recs[Greatest(S)])

PairedBy(k) ==
    \E it : /\ \A S \in SUBSET (1 .. Len(saved_ut_recs)) : it[S] = Turn(k, it, S)
            /\ SplLast!Paired(k) = it[1 .. Len(saved_ut_recs)]

\* The order of a fold, in the instance.
LEMMA LastOrder == ASSUME NEW T PROVE SplLast!Max(T) = Greatest(T)
  BY Zenon DEF SplLast!Max, Greatest

\* Paired does compute the loop.
LEMMA PairedSolved ==
  ASSUME NEW N \in Nat, NEW k \in Int, saved_ut_recs \in Seq(1 .. N)
  PROVE  PairedBy(k)
<1> DEFINE n == Len(saved_ut_recs)
           D == [lines : Seq(Int \X Int), left : Seq(Int)]
           op == [x \in D \X (1 .. n) |-> SplLast!Pair(k, x[1], saved_ut_recs[x[2]])]
           none == [lines |-> << >>, left |-> << >>]
<1>1. n \in Nat /\ DOMAIN saved_ut_recs = 1 .. n
  OBVIOUS
<1>2. ASSUME NEW f \in D, NEW s \in 1 .. n PROVE SplLast!Pair(k, f, saved_ut_recs[s]) \in D
  <2> DEFINE r == saved_ut_recs[s]
  <2>1. r \in Int
    OBVIOUS
  <2> HIDE DEF r
  <2>2. Append(f.lines, <<k, r>>) \in Seq(Int \X Int) /\ Append(f.left, r) \in Seq(Int)
    BY <2>1, AppendProperties
  <2>3. f = [lines |-> f.lines, left |-> f.left]
    OBVIOUS
  <2>4. /\ [f EXCEPT !.lines = Append(f.lines, <<k, r>>)] \in D
        /\ [f EXCEPT !.left = Append(f.left, r)] \in D
    BY <2>2, <2>3
  <2> HIDE DEF D
  <2>5. SplLast!Pair(k, f, r) \in D
    BY <2>4, Zenon DEF SplLast!Pair
  <2> QED BY <2>5 DEF r
<1>3. op \in [D \X (1 .. n) -> D]
  <2>1. \A x \in D \X (1 .. n) : x[1] \in D /\ x[2] \in 1 .. n
    OBVIOUS
  <2> HIDE DEF D, n
  <2> QED BY <1>2, <2>1
<1>4. none \in D
  OBVIOUS
<1> HIDE DEF n, none, D, op
<1>5. PICK g \in [SUBSET (1 .. n) -> D] : \A S \in SUBSET (1 .. n) : g[S] = Folding(none, op, g, S)
  <2>1. HasFold(n, D, none, op)
    BY <1>1, <1>3, <1>4, FoldDefined
  <2> QED BY <2>1, Zenon DEF HasFold
<1>6. \A S \in SUBSET (1 .. n) : g[S] = Turn(k, g, S)
  <2> TAKE S \in SUBSET (1 .. n)
  <2>1. CASE S = {}
    BY <1>5, <2>1, Zenon DEF Folding, Turn, none
  <2>2. CASE S # {}
    <3>1. Greatest(S) \in 1 .. n /\ S \ {Greatest(S)} \in SUBSET (1 .. n)
      BY <1>1, <2>2, Fewer
    <3>2. <<g[S \ {Greatest(S)}], Greatest(S)>> \in D \X (1 .. n)
      BY <3>1
    <3>3. g[S] = op[<<g[S \ {Greatest(S)}], Greatest(S)>>]
      BY <1>5, <2>2 DEF Folding
    <3>4. g[S] = SplLast!Pair(k, g[S \ {Greatest(S)}], saved_ut_recs[Greatest(S)])
      BY <3>2, <3>3 DEF op
    <3> QED BY <2>2, <3>4, Zenon DEF Turn
  <2> QED BY <2>1, <2>2
<1> USE DEF n
<1>7. g = [S \in SUBSET (1 .. n) |-> Turn(k, g, S)]
  BY <1>5, <1>6, Zenon
<1> DEFINE Eq(it) == it = [S \in SUBSET (1 .. n) |-> Turn(k, it, S)]
           It == CHOOSE it : Eq(it)
<1>8. Eq(It)
  BY <1>7, Zenon
<1>9. SplLast!Paired(k) = It[1 .. n]
  <2>1. SplLast!Paired(k) = It[DOMAIN saved_ut_recs]
    BY <1>1, LastOrder, Zenon
       DEF SplLast!Paired, SplLast!FoldLeft, SplLast!MapThenFoldSet, Turn, Greatest, SplLast!Max
  <2> QED BY <1>1, <2>1
<1> HIDE DEF It
<1>10. \A S \in SUBSET (1 .. n) : It[S] = Turn(k, It, S)
  BY <1>8, Zenon
<1> QED BY <1>9, <1>10, Zenon DEF PairedBy

\* A list that a turn of the loop leaves, for a login k when the turns were those of R.
FoundFor(k, N, f, R) ==
    /\ f = [lines |-> f.lines, left |-> f.left]
    /\ f.lines \in Seq(Int \X Int) /\ Sorted(f.lines, InTurn)
    /\ Members(f.lines) = {<<k, r>> : r \in {x \in R : wtmp[x].line = wtmp[k].line}}
    /\ f.left \in Seq(1 .. N) /\ Sorted(f.left, Rising)
    /\ Members(f.left) = {x \in R : wtmp[x].line # wtmp[k].line}

\* A turn for the next logout.
LEMMA PairKeeps ==
  ASSUME NEW N \in Nat, NEW k \in Int, NEW f, NEW R \in SUBSET (1 .. N), FoundFor(k, N, f, R),
         NEW r \in 1 .. N, \A x \in R : x < r
  PROVE  FoundFor(k, N, SplLast!Pair(k, f, r), R \cup {r})
<1>1. CASE wtmp[r].line = wtmp[k].line
  <2> DEFINE a == Append(f.lines, <<k, r>>)
             g == [lines |-> a, left |-> f.left]
  <2>1. SplLast!Pair(k, f, r) = g
    <3>1. SplLast!Pair(k, f, r) = [f EXCEPT !.lines = Append(@, <<k, r>>)]
      BY <1>1 DEF SplLast!Pair
    <3> QED BY <3>1 DEF FoundFor
  <2>2. \A x \in Members(f.lines) : <<x, <<k, r>> >> \in InTurn
    <3>1. SUFFICES ASSUME NEW y \in R PROVE << <<k, y>>, <<k, r>> >> \in InTurn
      BY DEF FoundFor
    <3>2. y \in Int /\ r \in Int /\ y < r
      OBVIOUS
    <3> QED BY <3>2 DEF InTurn, SplLast!Before
  <2>3. <<k, r>> \in Int \X Int
    OBVIOUS
  <2>4. a \in Seq(Int \X Int) /\ Members(a) = Members(f.lines) \cup {<<k, r>>} /\ Sorted(a, InTurn)
    <3>1. f.lines \in Seq(Int \X Int) /\ Sorted(f.lines, InTurn)
      BY DEF FoundFor
    <3> DEFINE T == Int \X Int
               q == f.lines
    <3>2. <<k, r>> \in T /\ q \in Seq(T) /\ Sorted(q, InTurn)
      BY <2>3, <3>1
    <3> HIDE DEF T
    <3>3. Append(q, <<k, r>>) \in Seq(T)
      BY <3>2, Appended, <2>2
    <3>4. Members(Append(q, <<k, r>>)) = Members(q) \cup {<<k, r>>}
      BY <3>2, Appended, <2>2
    <3>5. Sorted(Append(q, <<k, r>>), InTurn)
      BY <3>2, Appended, <2>2
    <3> QED BY <3>3, <3>4, <3>5 DEF T
  <2> HIDE DEF a
  <2>5. Members(a) = {<<k, y>> : y \in {x \in R \cup {r} : wtmp[x].line = wtmp[k].line}}
    <3>1. {x \in R \cup {r} : wtmp[x].line = wtmp[k].line}
             = {x \in R : wtmp[x].line = wtmp[k].line} \cup {r}
      BY <1>1
    <3>2. Members(f.lines) = {<<k, y>> : y \in {x \in R : wtmp[x].line = wtmp[k].line}}
      BY Zenon DEF FoundFor
    <3> QED BY <2>4, <3>1, <3>2
  <2>6. Members(f.left) = {x \in R \cup {r} : wtmp[x].line # wtmp[k].line}
    BY <1>1 DEF FoundFor
  <2>7. g.lines = a /\ g.left = f.left
    OBVIOUS
  <2>8. f.left \in Seq(1 .. N) /\ Sorted(f.left, Rising)
    BY DEF FoundFor
  <2> HIDE DEF g
  <2>9. g = [lines |-> g.lines, left |-> g.left]
    BY <2>7 DEF g
  <2> QED BY <2>1, <2>4, <2>5, <2>6, <2>7, <2>8, <2>9, Zenon DEF FoundFor
<1>2. CASE wtmp[r].line # wtmp[k].line
  <2> DEFINE a == Append(f.left, r)
             g == [lines |-> f.lines, left |-> a]
  <2>1. SplLast!Pair(k, f, r) = g
    <3>1. SplLast!Pair(k, f, r) = [f EXCEPT !.left = Append(@, r)]
      BY <1>2 DEF SplLast!Pair
    <3> QED BY <3>1 DEF FoundFor
  <2>2. \A x \in Members(f.left) : <<x, r>> \in Rising
    <3>1. SUFFICES ASSUME NEW y \in R PROVE <<y, r>> \in Rising
      BY DEF FoundFor
    <3>2. y \in Int /\ r \in Int /\ y < r
      OBVIOUS
    <3> QED BY <3>2 DEF Rising
  <2>4. a \in Seq(1 .. N) /\ Members(a) = Members(f.left) \cup {r} /\ Sorted(a, Rising)
    BY <2>2, Appended DEF FoundFor
  <2> HIDE DEF a
  <2>5. Members(a) = {x \in R \cup {r} : wtmp[x].line # wtmp[k].line}
    BY <1>2, <2>4 DEF FoundFor
  <2>6. Members(f.lines) = {<<k, y>> : y \in {x \in R \cup {r} : wtmp[x].line = wtmp[k].line}}
    <3>1. {x \in R \cup {r} : wtmp[x].line = wtmp[k].line} = {x \in R : wtmp[x].line = wtmp[k].line}
      BY <1>2
    <3>2. Members(f.lines) = {<<k, y>> : y \in {x \in R : wtmp[x].line = wtmp[k].line}}
      BY Zenon DEF FoundFor
    <3> QED BY <3>1, <3>2, Zenon
  <2>7. g.lines = f.lines /\ g.left = a
    OBVIOUS
  <2>8. f.lines \in Seq(Int \X Int) /\ Sorted(f.lines, InTurn)
    BY DEF FoundFor
  <2> HIDE DEF g
  <2>9. g = [lines |-> g.lines, left |-> g.left]
    BY <2>7 DEF g
  <2> QED BY <2>1, <2>4, <2>5, <2>6, <2>7, <2>8, <2>9, Zenon DEF FoundFor
<1> QED BY <1>1, <1>2

\* After the loop the lines are those of the logouts of the line, and the others are left.
LEMMA PairedIs ==
  ASSUME NEW N \in Nat, NEW k \in Int, saved_ut_recs \in Seq(1 .. N), Sorted(saved_ut_recs, Rising)
  PROVE  FoundFor(k, N, SplLast!Paired(k), Members(saved_ut_recs))
<1> DEFINE n == Len(saved_ut_recs)
           R(j) == {saved_ut_recs[m] : m \in 1 .. j}
<1>1. n \in Nat /\ \A m \in 1 .. n : saved_ut_recs[m] \in 1 .. N
  OBVIOUS
<1>2. PICK it : /\ \A S \in SUBSET (1 .. n) : it[S] = Turn(k, it, S)
                /\ SplLast!Paired(k) = it[1 .. n]
  <2>1. PairedBy(k)
    BY PairedSolved
  <2> QED BY <2>1, Zenon DEF PairedBy
<1> DEFINE P == {j \in Nat : j <= n => FoundFor(k, N, it[1 .. j], R(j))}
<1>3. Members(saved_ut_recs) = R(n)
  BY DEF Members
<1>4. \A m, j \in 1 .. n : m < j => saved_ut_recs[m] < saved_ut_recs[j]
  BY DEF Sorted, Rising
<1> HIDE DEF n
<1>5. 0 \in P
  <2>1. 1 .. 0 = {}
    OBVIOUS
  <2> DEFINE f == [lines |-> << >>, left |-> << >>]
  <2>2. it[1 .. 0] = f
    BY <1>2, <2>1, Zenon DEF Turn
  <2>3. R(0) = {}
    BY <2>1
  <2>4. << >> \in Seq(Int \X Int) /\ << >> \in Seq(1 .. N)
    OBVIOUS
  <2>5. f.lines = << >> /\ f.left = << >> /\ f = [lines |-> f.lines, left |-> f.left]
    OBVIOUS
  <2>6. /\ {<<k, r>> : r \in {x \in {} : wtmp[x].line = wtmp[k].line}} = {}
        /\ {x \in {} : wtmp[x].line # wtmp[k].line} = {}
    OBVIOUS
  <2> HIDE DEF f
  <2>7. FoundFor(k, N, f, {})
    BY <2>4, <2>5, <2>6, OneMember, Zenon DEF FoundFor
  <2> QED BY <2>2, <2>3, <2>7
<1>6. ASSUME NEW j \in P PROVE j + 1 \in P
  <2> j \in Nat OBVIOUS
  <2> SUFFICES ASSUME j + 1 <= n PROVE FoundFor(k, N, it[1 .. j + 1], R(j + 1))
    OBVIOUS
  <2>1. FoundFor(k, N, it[1 .. j], R(j))
    BY <1>1
  <2>2. /\ Greatest(1 .. j + 1) = j + 1 /\ (1 .. j + 1) \ {j + 1} = 1 .. j
        /\ 1 .. j + 1 # {} /\ 1 .. j + 1 \in SUBSET (1 .. n)
    <3>1. j + 1 \in Nat /\ j + 1 > 0 /\ (j + 1) - 1 = j
      OBVIOUS
    <3>2. 1 .. j + 1 \in SUBSET (1 .. n)
      BY <1>1
    <3> QED BY <3>1, <3>2, LastOfFirst
  <2>3. it[1 .. j + 1] = SplLast!Pair(k, it[1 .. j], saved_ut_recs[j + 1])
    BY <1>2, <2>2, Zenon DEF Turn
  <2>4. j + 1 \in 1 .. n /\ \A m \in 1 .. j : m \in 1 .. n /\ m < j + 1
    BY <1>1
  <2>5. /\ R(j) \in SUBSET (1 .. N) /\ saved_ut_recs[j + 1] \in 1 .. N
        /\ \A x \in R(j) : x < saved_ut_recs[j + 1]
    BY <1>1, <1>4, <2>4
  <2>6. R(j + 1) = R(j) \cup {saved_ut_recs[j + 1]}
    <3>1. 1 .. j + 1 = (1 .. j) \cup {j + 1}
      OBVIOUS
    <3> QED BY <3>1
  <2> HIDE DEF R
  <2> QED BY <2>1, <2>3, <2>5, <2>6, PairKeeps
<1>7. P = Nat
  <2> HIDE DEF P
  <2>1. P \in SUBSET Nat BY DEF P
  <2> QED BY <1>5, <1>6, <2>1, Induct
<1> HIDE DEF R
<1> QED BY <1>1, <1>2, <1>3, <1>7

\* The invariant, with the file as a parameter: what the lines read so far have been
\* told to the user, and the list of logouts.
LaterIn(w, c, S) == {j \in c + 1 .. Len(w) : w[j].type \in S}
EndsIn(w, pr, k) == {e \in -1 .. Len(w) : \E m \in DOMAIN pr : pr[m] = <<k, e>>}

LogoutsIn(w, k) ==
    {j \in LaterIn(w, k, {"dead"}) :
        /\ w[j].line = w[k].line
        /\ \A m \in k + 1 .. j - 1 : w[m].type = "user" => w[m].line # w[k].line
        /\ LaterIn(w, k, {"boot", "shutdown"}) \cap 1 .. j = {}}

OpenIn(w, c) ==
    {j \in LaterIn(w, c, {"dead"}) :
        /\ w[j].line # NoLine
        /\ \A m \in c + 1 .. j - 1 : /\ w[m].type = "user" => w[m].line # w[j].line
                                     /\ w[m].type \notin {"boot", "shutdown"}}

RightIn(w, pr, k) ==
    /\ w[k].type = "user" =>
          EndsIn(w, pr, k) = IF LogoutsIn(w, k) # {} THEN LogoutsIn(w, k)
                             ELSE {IF LaterIn(w, k, {"shutdown"}) # {} THEN -1 ELSE 0}
    /\ w[k].type = "boot" => EndsIn(w, pr, k) = {SplLast!First(LaterIn(w, k, {"shutdown"}), 0)}
    /\ w[k].type = "shutdown" /\ show_sys_events /\ LaterIn(w, k, {"boot"}) # {}
          => EndsIn(w, pr, k) = {SplLast!First(LaterIn(w, k, {"boot"}), 0)}

SeenIn(w, c, la, pr) ==
    /\ la \in [boot : Int, shutdown : Int]
    /\ la.shutdown = SplLast!First(LaterIn(w, c, {"shutdown"}), 0)
    /\ LaterIn(w, c, {"boot"}) # {} => la.boot = SplLast!First(LaterIn(w, c, {"boot"}), 0)
    /\ pr \in Seq((c + 1 .. Len(w)) \X Int) /\ Sorted(pr, InTurn)
    /\ \A k \in c + 1 .. Len(w) : RightIn(w, pr, k)

ListIn(w, c, sv) == Members(sv) = OpenIn(w, c) /\ Sorted(sv, Rising)

PlaceIn(w, fl) ==
    /\ fl \in [offset : Int, is_first : BOOLEAN, saved : Int]
    /\ ~fl.is_first => fl.saved \in -1 .. Len(w) - 2 /\ (fl.saved >= 0 => fl.offset = fl.saved)

UnreadIn(w, fl) == (IF fl.is_first THEN Len(w) - 1 ELSE fl.saved) + 1

LastInvIn ==
    /\ wtmp \in Seq(SplLast!Records) /\ wtmp # <<>> /\ PlaceIn(wtmp, file)
    /\ saved_ut_recs \in Seq(1 .. Len(wtmp))
    /\ SeenIn(wtmp, UnreadIn(wtmp, file), last, printed)
    /\ IF done THEN UnreadIn(wtmp, file) = 0 ELSE ListIn(wtmp, UnreadIn(wtmp, file), saved_ut_recs)

\* The parameter is the file.
LEMMA InFile ==
  ASSUME NEW c, NEW S
  PROVE  /\ SplLast!Later(c, S) = LaterIn(wtmp, c, S) /\ SplLast!Open(c) = OpenIn(wtmp, c)
         /\ SplLast!Logouts(c) = LogoutsIn(wtmp, c) /\ SplLast!Ends(c) = EndsIn(wtmp, printed, c)
         /\ SplLast!RightEnds(c) <=> RightIn(wtmp, printed, c)
<1>1. \A T : SplLast!Later(c, T) = LaterIn(wtmp, c, T)
  BY Zenon DEF SplLast!Later, LaterIn
<1>2. SplLast!Open(c) = OpenIn(wtmp, c)
  BY Zenon DEF SplLast!Later, LaterIn, SplLast!Open, OpenIn
<1>3. SplLast!Logouts(c) = LogoutsIn(wtmp, c)
  BY Zenon DEF SplLast!Later, LaterIn, SplLast!Logouts, LogoutsIn
<1>4. SplLast!Ends(c) = EndsIn(wtmp, printed, c)
  BY Zenon DEF SplLast!Ends, EndsIn
<1>5. SplLast!RightEnds(c) <=> RightIn(wtmp, printed, c)
  BY <1>1, <1>3, <1>4, Zenon DEF SplLast!RightEnds, RightIn
<1> QED BY <1>1, <1>2, <1>3, <1>4, <1>5

\* The invariant of spl_last.c, said with it.
LEMMA LastInvIs == SplLast!LastInv <=> LastInvIn
<1> DEFINE c == SplLast!Unread
<1>1. c = UnreadIn(wtmp, file)
  BY Zenon DEF SplLast!Unread, SplLast!Saved, UnreadIn
<1>2. SplLast!LastTypes <=>
        /\ wtmp \in Seq(SplLast!Records) /\ wtmp # <<>> /\ PlaceIn(wtmp, file)
        /\ saved_ut_recs \in Seq(1 .. Len(wtmp))
        /\ last \in [boot : Int, shutdown : Int]
        /\ printed \in Seq((c + 1 .. Len(wtmp)) \X Int)
  BY Zenon DEF SplLast!LastTypes, PlaceIn
<1>3. ASSUME SplLast!LastTypes
      PROVE  /\ SplLast!ToSet(saved_ut_recs) = Members(saved_ut_recs)
             /\ Sorted(saved_ut_recs, Rising) <=>
                  \A m, k \in DOMAIN saved_ut_recs : m < k => saved_ut_recs[m] < saved_ut_recs[k]
             /\ Sorted(printed, InTurn) <=>
                  \A m, k \in DOMAIN printed : m < k => SplLast!Before(printed[m], printed[k])
  <2> DEFINE T == (c + 1 .. Len(wtmp)) \X Int
  <2>1. saved_ut_recs \in Seq(1 .. Len(wtmp)) /\ printed \in Seq(T)
    BY <1>3, <1>2
  <2>2. /\ DOMAIN saved_ut_recs = 1 .. Len(saved_ut_recs)
        /\ \A m \in 1 .. Len(saved_ut_recs) : saved_ut_recs[m] \in Int
    BY <2>1
  <2>3. T \subseteq Int \X Int
    OBVIOUS
  <2> HIDE DEF T
  <2>4. /\ DOMAIN printed = 1 .. Len(printed)
        /\ \A m \in 1 .. Len(printed) : printed[m] \in Int \X Int
    BY <2>1, <2>3
  <2>5. SplLast!ToSet(saved_ut_recs) = Members(saved_ut_recs)
    BY <2>2, Zenon DEF SplLast!ToSet, Members
  <2>6. \A x, y \in Int : <<x, y>> \in Rising <=> x < y
    BY DEF Rising
  <2>7. \A x, y \in Int \X Int : <<x, y>> \in InTurn <=> SplLast!Before(x, y)
    <3> TAKE x, y \in Int \X Int
    <3>1. /\ <<x, y>> \in (Int \X Int) \X (Int \X Int) /\ <<x, y>>[1] = x /\ <<x, y>>[2] = y
      OBVIOUS
    <3> QED BY <3>1, Zenon DEF InTurn
  <2> QED BY <2>2, <2>4, <2>5, <2>6, <2>7, Zenon DEF Sorted
<1>4. /\ \A S : SplLast!Later(c, S) = LaterIn(wtmp, c, S)
      /\ SplLast!Open(c) = OpenIn(wtmp, c)
      /\ \A k : SplLast!RightEnds(k) <=> RightIn(wtmp, printed, k)
  BY InFile
<1> HIDE DEF c
<1>5. ASSUME SplLast!LastTypes PROVE SplLast!LastInv <=> LastInvIn
  <2> USE DEF c
  <2> QED BY <1>1, <1>2, <1>3, <1>4, <1>5, Zenon DEF SplLast!LastInv, LastInvIn, SeenIn, ListIn
<1>6. ASSUME ~SplLast!LastTypes PROVE ~SplLast!LastInv /\ ~LastInvIn
  <2>1. ~SplLast!LastInv
    BY <1>6, Zenon DEF SplLast!LastInv
  <2>2. ~LastInvIn
    BY <1>1, <1>2, <1>6, Zenon DEF LastInvIn, SeenIn
  <2> QED BY <2>1, <2>2
<1> QED BY <1>5, <1>6

\* A list is of what it holds.
LEMMA MembersOf ==
  ASSUME NEW S, NEW q \in Seq(S)
  PROVE  /\ Members(q) \in SUBSET S /\ (Members(q) = {} <=> q = << >>)
         /\ \A T : Members(q) \in SUBSET T => q \in Seq(T)
<1>1. Len(q) \in Nat /\ DOMAIN q = 1 .. Len(q) /\ \A m \in 1 .. Len(q) : q[m] \in S
  OBVIOUS
<1>2. Members(q) \in SUBSET S
  BY <1>1 DEF Members
<1>3. Members(q) = {} <=> q = << >>
  <2>1. Members(q) = {} <=> Len(q) = 0
    <3>1. Len(q) # 0 => 1 \in 1 .. Len(q)
      BY <1>1
    <3>2. Len(q) = 0 => 1 .. Len(q) = {}
      BY <1>1
    <3> QED BY <3>1, <3>2, Zenon DEF Members
  <2>2. Len(q) = 0 <=> q = << >>
    BY EmptySeq
  <2> QED BY <2>1, <2>2
<1>4. ASSUME NEW T, Members(q) \in SUBSET T PROVE q \in Seq(T)
  <2>1. \A m \in 1 .. Len(q) : q[m] \in T
    BY <1>4 DEF Members
  <2>2. q = [m \in 1 .. Len(q) |-> q[m]]
    OBVIOUS
  <2> QED BY <1>1, <2>1, <2>2
<1> QED BY <1>2, <1>3, <1>4

\* The ends printed for a record.
LEMMA EndsAre ==
  ASSUME NEW w, NEW S, NEW pr \in Seq(S), NEW k
  PROVE  EndsIn(w, pr, k) = {e \in -1 .. Len(w) : <<k, e>> \in Members(pr)}
<1>1. DOMAIN pr = 1 .. Len(pr)
  OBVIOUS
<1> QED BY <1>1, Zenon DEF EndsIn, Members

\* The lines of the record read come after the others and leave those right.
LEMMA ReadOne ==
  ASSUME SplLast!LastAssumption, IsWtmp, NEW c \in 1 .. Len(wtmp),
         NEW pr \in Seq((c + 1 .. Len(wtmp)) \X Int), Sorted(pr, InTurn),
         \A k \in c + 1 .. Len(wtmp) : RightIn(wtmp, pr, k),
         NEW L \in Seq({c} \X Int), Sorted(L, InTurn), RightIn(wtmp, L, c)
  PROVE  /\ pr \o L \in Seq(((c - 1) + 1 .. Len(wtmp)) \X Int) /\ Sorted(pr \o L, InTurn)
         /\ \A k \in (c - 1) + 1 .. Len(wtmp) : RightIn(wtmp, pr \o L, k)
<1> DEFINE N == Len(wtmp)
           A == (c + 1 .. N) \X Int
           B == {c} \X Int
           C == ((c - 1) + 1 .. N) \X Int
           q == pr \o L
<1>1. N \in Nat
  BY RecordIs
<1>2. (c - 1) + 1 .. N = (c + 1 .. N) \cup {c} /\ c \notin c + 1 .. N
  BY <1>1
<1>3. Members(pr) \in SUBSET A /\ Members(L) \in SUBSET B
  <2>1. pr \in Seq(A) /\ L \in Seq(B)
    OBVIOUS
  <2> HIDE DEF A, B
  <2> QED BY <2>1, MembersOf
<1>4. A \in SUBSET C /\ B \in SUBSET C
  BY <1>2
<1>5. pr \in Seq(C) /\ L \in Seq(C)
  <2>1. pr \in Seq(A) /\ L \in Seq(B)
    OBVIOUS
  <2> HIDE DEF A, B, C
  <2> QED BY <1>3, <1>4, <2>1, MembersOf
<1>6. \A x \in Members(pr), y \in Members(L) : <<x, y>> \in InTurn
  <2>1. ASSUME NEW x \in A, NEW y \in B PROVE <<x, y>> \in InTurn
    <3>1. x \in Int \X Int /\ y \in Int \X Int /\ x[1] > y[1]
      BY <1>1
    <3> QED BY <3>1 DEF InTurn, SplLast!Before
  <2> QED BY <1>3, <2>1
<1>7. q \in Seq(C) /\ Members(q) = Members(pr) \cup Members(L) /\ Sorted(q, InTurn)
  <2>0. Sorted(pr, InTurn) /\ Sorted(L, InTurn)
    OBVIOUS
  <2> HIDE DEF C
  <2>1. q \in Seq(C)
    BY ONLY <1>5, <1>6, <2>0, Joined
  <2>2. Members(q) = Members(pr) \cup Members(L)
    BY ONLY <1>5, <1>6, <2>0, Joined
  <2>3. Sorted(q, InTurn)
    BY ONLY <1>5, <1>6, <2>0, Joined
  <2> QED BY <2>1, <2>2, <2>3
<1> HIDE DEF q
<1>8. ASSUME NEW k \in (c - 1) + 1 .. N PROVE RightIn(wtmp, q, k)
  <2>1. CASE k = c
    <3>1. \A e : <<k, e>> \notin Members(pr)
      BY <1>2, <1>3, <2>1
    <3>2. \A e : <<k, e>> \in Members(q) <=> <<k, e>> \in Members(L)
      BY <1>7, <3>1
    <3>3. EndsIn(wtmp, q, k) = EndsIn(wtmp, L, k)
      <4> HIDE DEF C
      <4>1. EndsIn(wtmp, q, k) = {e \in -1 .. Len(wtmp) : <<k, e>> \in Members(q)}
        BY <1>7, EndsAre
      <4>2. EndsIn(wtmp, L, k) = {e \in -1 .. Len(wtmp) : <<k, e>> \in Members(L)}
        BY <1>5, EndsAre
      <4> QED BY <3>2, <4>1, <4>2
    <3> QED BY <2>1, <3>3, Zenon DEF RightIn
  <2>2. CASE k \in c + 1 .. N
    <3>1. \A e : <<k, e>> \notin Members(L)
      BY <1>2, <1>3, <2>2
    <3>2. \A e : <<k, e>> \in Members(q) <=> <<k, e>> \in Members(pr)
      BY <1>7, <3>1
    <3>3. EndsIn(wtmp, q, k) = EndsIn(wtmp, pr, k)
      <4> HIDE DEF C
      <4>1. EndsIn(wtmp, q, k) = {e \in -1 .. Len(wtmp) : <<k, e>> \in Members(q)}
        BY <1>7, EndsAre
      <4>2. EndsIn(wtmp, pr, k) = {e \in -1 .. Len(wtmp) : <<k, e>> \in Members(pr)}
        BY <1>5, EndsAre
      <4> QED BY <3>2, <4>1, <4>2
    <3>4. RightIn(wtmp, pr, k)
      BY <2>2
    <3> QED BY <3>3, <3>4, Zenon DEF RightIn
  <2> QED BY <1>2, <2>1, <2>2
<1> QED BY <1>7, <1>8 DEF q

\* The times after the record read.
LEMMA TimesRead ==
  ASSUME SplLast!LastAssumption, IsWtmp, NEW c \in 1 .. Len(wtmp),
         NEW la, NEW pr, SeenIn(wtmp, c, la, pr),
         NEW l2 \in [boot : Int, shutdown : Int],
         l2.boot = IF wtmp[c].type = "boot" THEN c ELSE la.boot,
         l2.shutdown = IF wtmp[c].type = "shutdown" THEN c ELSE la.shutdown,
         NEW L \in Seq({c} \X Int), Sorted(L, InTurn), RightIn(wtmp, L, c)
  PROVE  SeenIn(wtmp, c - 1, l2, pr \o L)
<1>1. \A S : /\ LaterIn(wtmp, c - 1, S) = IF wtmp[c].type \in S THEN LaterIn(wtmp, c, S) \cup {c}
                                          ELSE LaterIn(wtmp, c, S)
             /\ \A none : SplLast!First(LaterIn(wtmp, c - 1, S), none)
                            = IF wtmp[c].type \in S THEN c
                              ELSE SplLast!First(LaterIn(wtmp, c, S), none)
  <2> TAKE S
  <2>1. /\ SplLast!Later(c - 1, S) = LaterIn(wtmp, c - 1, S)
        /\ SplLast!Later(c, S) = LaterIn(wtmp, c, S)
    BY InFile
  <2>2. SplLast!Later(c - 1, S)
            = IF wtmp[c].type \in S THEN SplLast!Later(c, S) \cup {c} ELSE SplLast!Later(c, S)
    BY LaterStep
  <2>3. ASSUME NEW none
        PROVE  SplLast!First(SplLast!Later(c - 1, S), none)
                 = IF wtmp[c].type \in S THEN c ELSE SplLast!First(SplLast!Later(c, S), none)
    BY FirstStep
  <2> QED BY <2>1, <2>2, <2>3, Zenon
<1>2. l2.shutdown = SplLast!First(LaterIn(wtmp, c - 1, {"shutdown"}), 0)
  <2>1. la.shutdown = SplLast!First(LaterIn(wtmp, c, {"shutdown"}), 0)
    BY Zenon DEF SeenIn
  <2>2. wtmp[c].type \in {"shutdown"} <=> wtmp[c].type = "shutdown"
    OBVIOUS
  <2> QED BY <1>1, <2>1, <2>2, Zenon
<1>3. ASSUME LaterIn(wtmp, c - 1, {"boot"}) # {}
      PROVE  l2.boot = SplLast!First(LaterIn(wtmp, c - 1, {"boot"}), 0)
  <2>1. LaterIn(wtmp, c, {"boot"}) # {} => la.boot = SplLast!First(LaterIn(wtmp, c, {"boot"}), 0)
    BY Zenon DEF SeenIn
  <2>2. wtmp[c].type \in {"boot"} <=> wtmp[c].type = "boot"
    OBVIOUS
  <2> QED BY <1>1, <1>3, <2>1, <2>2, Zenon
<1>4. /\ pr \o L \in Seq(((c - 1) + 1 .. Len(wtmp)) \X Int) /\ Sorted(pr \o L, InTurn)
      /\ \A k \in (c - 1) + 1 .. Len(wtmp) : RightIn(wtmp, pr \o L, k)
  <2>1. /\ pr \in Seq((c + 1 .. Len(wtmp)) \X Int) /\ Sorted(pr, InTurn)
        /\ \A k \in c + 1 .. Len(wtmp) : RightIn(wtmp, pr, k)
    BY Zenon DEF SeenIn
  <2> QED BY <2>1, ReadOne
<1> QED BY <1>2, <1>3, <1>4, Zenon DEF SeenIn

\* No line, and one line.
LEMMA NoLines ==
  ASSUME NEW c \in Int, NEW e \in Int
  PROVE  /\ << >> \in Seq({c} \X Int) /\ Sorted(<< >>, InTurn)
         /\ << <<c, e>> >> \in Seq({c} \X Int) /\ Sorted(<< <<c, e>> >>, InTurn)
         /\ EndsIn(wtmp, << <<c, e>> >>, c) = {e} \cap (-1 .. Len(wtmp))
<1>1. << >> \in Seq({c} \X Int) /\ << <<c, e>> >> \in Seq({c} \X Int)
  OBVIOUS
<1>2. EndsIn(wtmp, << <<c, e>> >>, c) = {f \in -1 .. Len(wtmp) : <<c, f>> \in Members(<< <<c, e>> >>)}
  BY <1>1, EndsAre
<1>3. \A f : <<c, f>> \in {<<c, e>>} <=> f = e
  OBVIOUS
<1>4. /\ Sorted(<< >>, InTurn) /\ Sorted(<< <<c, e>> >>, InTurn)
      /\ Members(<< <<c, e>> >>) = {<<c, e>>}
  BY OneMember
<1>5. EndsIn(wtmp, << <<c, e>> >>, c) = {f \in -1 .. Len(wtmp) : f = e}
  BY <1>2, <1>3, <1>4, Zenon
<1>6. {f \in -1 .. Len(wtmp) : f = e} = {e} \cap (-1 .. Len(wtmp))
  OBVIOUS
<1> QED BY <1>1, <1>4, <1>5, <1>6

\* The first record of a type is a place in the file or none.
LEMMA FirstPlace ==
  ASSUME SplLast!LastAssumption, IsWtmp, NEW c \in 1 .. Len(wtmp), NEW S
  PROVE  LET f == SplLast!First(LaterIn(wtmp, c, S), 0) IN
         /\ f \in 0 .. Len(wtmp)
         /\ LaterIn(wtmp, c, S) = {} => f = 0
         /\ LaterIn(wtmp, c, S) # {} => f > 0
<1>1. Len(wtmp) \in Nat
  BY RecordIs
<1> DEFINE LL == SplLast!Later(c, S)
           f == SplLast!First(LL, 0)
<1>2. /\ LL \in SUBSET (c + 1 .. Len(wtmp)) /\ (LL = {} => f = 0) /\ (LL # {} => f \in LL)
  <2>1. c \in 0 .. Len(wtmp)
    BY <1>1
  <2> QED BY <2>1, FirstIs
<1>3. LL = LaterIn(wtmp, c, S)
  BY InFile
<1> HIDE DEF LL, f
<1>4. f \in 0 .. Len(wtmp) /\ (LL # {} => f > 0)
  <2>1. CASE LL = {}
    BY <1>1, <1>2, <2>1
  <2>2. CASE LL # {}
    <3>1. f \in c + 1 .. Len(wtmp)
      BY <1>2, <2>2
    <3> QED BY <1>1, <3>1
  <2> QED BY <2>1, <2>2
<1>5. f = SplLast!First(LaterIn(wtmp, c, S), 0)
  BY <1>3 DEF f
<1> QED BY <1>2, <1>3, <1>4, <1>5

\* get_prev_utrec(): the next record is the one before those read.
LEMMA PlaceRead ==
  ASSUME SplLast!LastAssumption, IsWtmp, PlaceIn(wtmp, file), ~(SplLast!Saved < 0),
         file' = SplLast!Advance
  PROVE  /\ SplLast!At + 1 \in 1 .. Len(wtmp) /\ SplLast!At + 1 = UnreadIn(wtmp, file)
         /\ PlaceIn(wtmp, file') /\ UnreadIn(wtmp, file') = (SplLast!At + 1) - 1
<1>1. Len(wtmp) \in Nat /\ Len(wtmp) >= 1
  BY RecordIs
<1> DEFINE N == Len(wtmp)
           s == IF file.is_first THEN N - 1 ELSE file.saved
           a == IF file.is_first THEN N - 1 ELSE file.offset
<1>2. s = SplLast!Saved /\ a = SplLast!At
  BY Zenon DEF SplLast!Saved, SplLast!At
<1>3. s \in 0 .. N - 1 /\ a = s
  BY <1>1, <1>2 DEF PlaceIn
<1>4. /\ file'.is_first = FALSE /\ file'.saved = s - 1
      /\ file'.offset = (IF s - 1 >= 0 THEN a + 1 - 2 ELSE a + 1)
      /\ file' = [is_first |-> FALSE, saved |-> s - 1,
                  offset |-> IF s - 1 >= 0 THEN a + 1 - 2 ELSE a + 1]
  BY <1>2 DEF SplLast!Advance
<1>5. UnreadIn(wtmp, file) = s + 1
  BY DEF UnreadIn
<1> HIDE DEF s, a, N
<1>6. /\ s - 1 \in -1 .. N - 2 /\ s - 1 \in Int /\ a + 1 \in Int /\ a + 1 - 2 \in Int
      /\ s - 1 >= 0 => a + 1 - 2 = s - 1
      /\ (s - 1) + 1 = (a + 1) - 1 /\ a + 1 = s + 1 /\ a + 1 \in 1 .. N
  BY <1>1, <1>3 DEF N
<1>7. PlaceIn(wtmp, file')
  BY <1>4, <1>6 DEF PlaceIn, N
<1>8. UnreadIn(wtmp, file') = (s - 1) + 1
  BY <1>4 DEF UnreadIn
<1> QED BY <1>2, <1>5, <1>6, <1>7, <1>8 DEF N

\* What the program knows when it reads the record at c.
Known(c) ==
    /\ IsWtmp /\ c \in 1 .. Len(wtmp) /\ saved_ut_recs \in Seq(1 .. Len(wtmp))
    /\ SeenIn(wtmp, c, last, printed) /\ ListIn(wtmp, c, saved_ut_recs)

KnownNext(c) ==
    /\ saved_ut_recs' \in Seq(1 .. Len(wtmp))
    /\ SeenIn(wtmp, c - 1, last', printed') /\ ListIn(wtmp, c - 1, saved_ut_recs')

\* The list after the record, by its type.
LEMMA OpenNow ==
  ASSUME SplLast!LastAssumption, NEW c, Known(c)
  PROVE  LET was == OpenIn(wtmp, c)
             now == OpenIn(wtmp, c - 1)
         IN /\ wtmp[c].type \in {"boot", "shutdown"} => now = {}
            /\ wtmp[c].type = "user" => now = {j \in was : wtmp[j].line # wtmp[c].line}
            /\ wtmp[c].type = "dead" => now = IF wtmp[c].line = NoLine THEN was ELSE was \cup {c}
            /\ wtmp[c].type = "other" => now = was
<1>1. IsWtmp /\ c \in 1 .. Len(wtmp)
  BY DEF Known
<1>2. OpenIn(wtmp, c) = SplLast!Open(c) /\ OpenIn(wtmp, c - 1) = SplLast!Open(c - 1)
  BY InFile
<1> QED BY <1>1, <1>2, OpenStep

\* A boot is printed with the next shutdown and closes what is open.
LEMMA BootRead ==
  ASSUME SplLast!LastAssumption, NEW c, Known(c), SplLast!BootTime(c)
  PROVE  KnownNext(c)
<1> DEFINE L == << <<c, last.shutdown>> >>
<1>1. /\ IsWtmp /\ c \in 1 .. Len(wtmp) /\ SeenIn(wtmp, c, last, printed)
      /\ wtmp[c].type = "boot" /\ last \in [boot : Int, shutdown : Int]
      /\ last.shutdown = SplLast!First(LaterIn(wtmp, c, {"shutdown"}), 0)
      /\ c \in Int /\ last.shutdown \in Int
  BY DEF Known, SeenIn, SplLast!BootTime
<1>2. printed' = printed \o L /\ saved_ut_recs' = << >>
  BY DEF SplLast!BootTime, SplLast!Show
<1>3. /\ last' \in [boot : Int, shutdown : Int] /\ last'.boot = c /\ last'.shutdown = last.shutdown
  BY <1>1 DEF SplLast!BootTime
<1>4. RightIn(wtmp, L, c)
  <2>1. last.shutdown \in 0 .. Len(wtmp)
    BY <1>1, FirstPlace
  <2>2. {last.shutdown} \cap (-1 .. Len(wtmp)) = {last.shutdown}
    BY <1>1, <2>1, RecordIs
  <2>3. EndsIn(wtmp, L, c) = {SplLast!First(LaterIn(wtmp, c, {"shutdown"}), 0)}
    BY <1>1, <2>2, NoLines
  <2>4. wtmp[c].type # "user" /\ wtmp[c].type # "shutdown"
    BY <1>1
  <2> QED BY <2>3, <2>4, Zenon DEF RightIn
<1>5. L \in Seq({c} \X Int) /\ Sorted(L, InTurn)
  BY <1>1, NoLines
<1> HIDE DEF L
<1>6. SeenIn(wtmp, c - 1, last', printed \o L)
  BY <1>1, <1>3, <1>4, <1>5, TimesRead
<1>7. ListIn(wtmp, c - 1, << >>)
  <2>1. OpenIn(wtmp, c - 1) = {}
    BY <1>1, OpenNow
  <2> QED BY <2>1, OneMember DEF ListIn
<1>8. << >> \in Seq(1 .. Len(wtmp))
  OBVIOUS
<1> QED BY <1>2, <1>6, <1>7, <1>8, Zenon DEF KnownNext

\* With -x a shutdown is printed with the next boot; it closes what is open.
LEMMA ShutdownRead ==
  ASSUME SplLast!LastAssumption, NEW c, Known(c), SplLast!ShutdownTime(c)
  PROVE  KnownNext(c)
<1> DEFINE L == IF show_sys_events THEN << <<c, last.boot>> >> ELSE << >>
<1>1. /\ IsWtmp /\ c \in 1 .. Len(wtmp) /\ SeenIn(wtmp, c, last, printed)
      /\ wtmp[c].type = "shutdown" /\ last \in [boot : Int, shutdown : Int]
      /\ LaterIn(wtmp, c, {"boot"}) # {}
            => last.boot = SplLast!First(LaterIn(wtmp, c, {"boot"}), 0)
      /\ c \in Int /\ last.boot \in Int
  BY DEF Known, SeenIn, SplLast!ShutdownTime
<1>2. printed' = printed \o L /\ saved_ut_recs' = << >>
  BY DEF SplLast!ShutdownTime, SplLast!Show
<1>3. /\ last' \in [boot : Int, shutdown : Int] /\ last'.boot = last.boot /\ last'.shutdown = c
  BY <1>1 DEF SplLast!ShutdownTime
<1>4. RightIn(wtmp, L, c)
  <2>1. ASSUME show_sys_events, LaterIn(wtmp, c, {"boot"}) # {}
        PROVE  EndsIn(wtmp, L, c) = {SplLast!First(LaterIn(wtmp, c, {"boot"}), 0)}
    <3>1. last.boot \in 0 .. Len(wtmp)
      BY <1>1, <2>1, FirstPlace
    <3>2. {last.boot} \cap (-1 .. Len(wtmp)) = {last.boot}
      BY <1>1, <3>1, RecordIs
    <3>3. L = << <<c, last.boot>> >>
      BY <2>1
    <3> HIDE DEF L
    <3> QED BY <1>1, <2>1, <3>2, <3>3, NoLines
  <2>2. wtmp[c].type # "user" /\ wtmp[c].type # "boot"
    BY <1>1
  <2> HIDE DEF L
  <2> QED BY <2>1, <2>2, Zenon DEF RightIn
<1>5. L \in Seq({c} \X Int) /\ Sorted(L, InTurn)
  BY <1>1, NoLines
<1> HIDE DEF L
<1>6. SeenIn(wtmp, c - 1, last', printed \o L)
  BY <1>1, <1>3, <1>4, <1>5, TimesRead
<1>7. ListIn(wtmp, c - 1, << >>)
  <2>1. OpenIn(wtmp, c - 1) = {}
    BY <1>1, OpenNow
  <2> QED BY <2>1, OneMember DEF ListIn
<1>8. << >> \in Seq(1 .. Len(wtmp))
  OBVIOUS
<1> QED BY <1>2, <1>6, <1>7, <1>8, Zenon DEF KnownNext

\* A record for which nothing is printed.
LEMMA Silent ==
  ASSUME SplLast!LastAssumption, NEW c, Known(c), wtmp[c].type \in {"dead", "other"}
  PROVE  SeenIn(wtmp, c - 1, last, printed)
<1>1. /\ IsWtmp /\ c \in 1 .. Len(wtmp) /\ SeenIn(wtmp, c, last, printed)
      /\ last \in [boot : Int, shutdown : Int] /\ c \in Int
      /\ printed \in Seq((c + 1 .. Len(wtmp)) \X Int)
  BY DEF Known, SeenIn
<1>2. wtmp[c].type # "user" /\ wtmp[c].type # "boot" /\ wtmp[c].type # "shutdown"
  OBVIOUS
<1>3. RightIn(wtmp, << >>, c)
  BY <1>2, Zenon DEF RightIn
<1>4. << >> \in Seq({c} \X Int) /\ Sorted(<< >>, InTurn)
  BY <1>1, NoLines
<1>5. SeenIn(wtmp, c - 1, last, printed \o << >>)
  BY <1>1, <1>2, <1>3, <1>4, TimesRead
<1>6. printed \o << >> = printed
  BY <1>1, ConcatEmptySeq
<1> QED BY <1>5, <1>6

\* A logout is kept if it has a line,
LEMMA DeadRead ==
  ASSUME SplLast!LastAssumption, NEW c, Known(c), SplLast!DeadProcess(c)
  PROVE  KnownNext(c)
<1>1. /\ IsWtmp /\ c \in 1 .. Len(wtmp) /\ wtmp[c].type = "dead"
      /\ last' = last /\ printed' = printed
      /\ saved_ut_recs \in Seq(1 .. Len(wtmp)) /\ Members(saved_ut_recs) = OpenIn(wtmp, c)
      /\ Sorted(saved_ut_recs, Rising)
      /\ saved_ut_recs' = IF wtmp[c].line = NoLine THEN saved_ut_recs
                                                    ELSE <<c>> \o saved_ut_recs
  BY DEF Known, ListIn, SplLast!DeadProcess
<1>2. SeenIn(wtmp, c - 1, last', printed')
  BY <1>1, Silent
<1>3. CASE wtmp[c].line = NoLine
  <2>1. OpenIn(wtmp, c - 1) = OpenIn(wtmp, c)
    BY <1>1, <1>3, OpenNow
  <2> QED BY <1>1, <1>2, <1>3, <2>1, Zenon DEF KnownNext, ListIn
<1>4. CASE wtmp[c].line # NoLine
  <2>1. OpenIn(wtmp, c - 1) = OpenIn(wtmp, c) \cup {c}
    BY <1>1, <1>4, OpenNow
  <2>2. \A x \in {c}, y \in OpenIn(wtmp, c) : <<x, y>> \in Rising
    <3>1. SUFFICES ASSUME NEW y \in OpenIn(wtmp, c) PROVE <<c, y>> \in Rising
      OBVIOUS
    <3>2. y \in c + 1 .. Len(wtmp)
      BY DEF OpenIn, LaterIn
    <3>3. c \in Int /\ y \in Int /\ c < y
      BY <1>1, <3>2, RecordIs
    <3> QED BY <3>3 DEF Rising
  <2>3. <<c>> \in Seq(1 .. Len(wtmp)) /\ Members(<<c>>) = {c} /\ Sorted(<<c>>, Rising)
    <3>1. <<c>> \in Seq(1 .. Len(wtmp))
      BY <1>1
    <3>2. Members(<<c>>) = {c}
      BY OneMember
    <3>3. Sorted(<<c>>, Rising)
      BY OneMember
    <3> QED BY <3>1, <3>2, <3>3
  <2> DEFINE q == <<c>> \o saved_ut_recs
  <2>4. q \in Seq(1 .. Len(wtmp)) /\ Members(q) = {c} \cup OpenIn(wtmp, c) /\ Sorted(q, Rising)
    <3> DEFINE p == <<c>>
               T == 1 .. Len(wtmp)
    <3>1. /\ p \in Seq(T) /\ saved_ut_recs \in Seq(T) /\ Sorted(p, Rising)
          /\ Sorted(saved_ut_recs, Rising) /\ Members(p) = {c}
          /\ \A x \in Members(p), y \in Members(saved_ut_recs) : <<x, y>> \in Rising
      BY <1>1, <2>2, <2>3
    <3> HIDE DEF p, T
    <3>2. p \o saved_ut_recs \in Seq(T)
      BY <3>1, Joined
    <3>3. Members(p \o saved_ut_recs) = Members(p) \cup Members(saved_ut_recs)
      BY <3>1, Joined
    <3>4. Sorted(p \o saved_ut_recs, Rising)
      BY <3>1, Joined
    <3> QED BY <1>1, <3>1, <3>2, <3>3, <3>4 DEF p, T
  <2>5. saved_ut_recs' = q
    BY <1>1, <1>4
  <2> HIDE DEF q
  <2>6. Members(q) = OpenIn(wtmp, c - 1)
    BY <2>1, <2>4
  <2> QED BY <1>2, <2>4, <2>5, <2>6, Zenon DEF KnownNext, ListIn
<1> QED BY <1>3, <1>4

\* and other records are skipped.
LEMMA OtherRead ==
  ASSUME SplLast!LastAssumption, NEW c, Known(c), SplLast!Other(c)
  PROVE  KnownNext(c)
<1>1. /\ wtmp[c].type = "other" /\ last' = last /\ printed' = printed
      /\ saved_ut_recs' = saved_ut_recs /\ saved_ut_recs \in Seq(1 .. Len(wtmp))
      /\ ListIn(wtmp, c, saved_ut_recs)
  BY DEF Known, SplLast!Other
<1>2. SeenIn(wtmp, c - 1, last', printed')
  BY <1>1, Silent
<1>3. OpenIn(wtmp, c - 1) = OpenIn(wtmp, c)
  BY <1>1, OpenNow
<1> QED BY <1>1, <1>2, <1>3, Zenon DEF KnownNext, ListIn

\* A login is printed with the logouts of its line, which leave the list, or as
\* still open or gone.
LEMMA UserRead ==
  ASSUME SplLast!LastAssumption, NEW c, Known(c), SplLast!UserProcess(c)
  PROVE  KnownNext(c)
<1> DEFINE N == Len(wtmp)
           f == SplLast!Paired(c)
           absent == IF last.shutdown > 0 THEN -1 ELSE 0
           L == IF f.lines # << >> THEN f.lines ELSE << <<c, absent>> >>
           Ours == {j \in OpenIn(wtmp, c) : wtmp[j].line = wtmp[c].line}
<1>1. /\ IsWtmp /\ c \in 1 .. Len(wtmp) /\ SeenIn(wtmp, c, last, printed)
      /\ wtmp[c].type = "user" /\ last \in [boot : Int, shutdown : Int]
      /\ last.shutdown = SplLast!First(LaterIn(wtmp, c, {"shutdown"}), 0)
      /\ saved_ut_recs \in Seq(1 .. Len(wtmp)) /\ Members(saved_ut_recs) = OpenIn(wtmp, c)
      /\ Sorted(saved_ut_recs, Rising) /\ c \in Int /\ absent \in Int
  BY DEF Known, ListIn, SeenIn, SplLast!UserProcess
<1>2. printed' = printed \o L /\ saved_ut_recs' = f.left /\ last' = last
  BY DEF SplLast!UserProcess, SplLast!Show
<1>3. N \in Nat
  BY <1>1, RecordIs
<1>4. /\ f.lines \in Seq(Int \X Int) /\ Sorted(f.lines, InTurn)
      /\ Members(f.lines) = {<<c, y>> : y \in Ours}
      /\ f.left \in Seq(1 .. N) /\ Sorted(f.left, Rising)
      /\ Members(f.left) = {x \in OpenIn(wtmp, c) : wtmp[x].line # wtmp[c].line}
  <2>1. FoundFor(c, N, f, OpenIn(wtmp, c))
    <3> HIDE DEF f
    <3>1. FoundFor(c, N, SplLast!Paired(c), Members(saved_ut_recs))
      BY <1>1, <1>3, PairedIs
    <3> QED BY <1>1, <3>1 DEF f
  <2> HIDE DEF f
  <2> QED BY <2>1, Zenon DEF FoundFor
<1>5. Ours = LogoutsIn(wtmp, c)
  <2>1. SplLast!Logouts(c) = {j \in SplLast!Open(c) : wtmp[j].line = wtmp[c].line}
    BY <1>1, OpenLogouts
  <2>2. SplLast!Logouts(c) = LogoutsIn(wtmp, c) /\ SplLast!Open(c) = OpenIn(wtmp, c)
    BY InFile
  <2> QED BY <2>1, <2>2, Zenon
<1>6. Ours \in SUBSET (-1 .. N) /\ Ours \in SUBSET Int
  <2>1. \A j \in OpenIn(wtmp, c) : j \in c + 1 .. N
    BY DEF OpenIn, LaterIn
  <2>2. \A j \in c + 1 .. N : j \in -1 .. N /\ j \in Int
    BY <1>1, <1>3
  <2> QED BY <2>1, <2>2
<1> HIDE DEF f, Ours
<1>7. f.lines \in Seq({c} \X Int) /\ (f.lines = << >> <=> Ours = {})
  <2>1. Members(f.lines) \in SUBSET ({c} \X Int)
    BY <1>4, <1>6
  <2>2. f.lines \in Seq({c} \X Int)
    <3> DEFINE T == {c} \X Int
               U == Int \X Int
    <3>1. f.lines \in Seq(U) /\ Members(f.lines) \in SUBSET T
      BY <1>4, <2>1
    <3> HIDE DEF T, U
    <3>2. f.lines \in Seq(T)
      BY <3>1, MembersOf
    <3> QED BY <3>2 DEF T
  <2>3. Members(f.lines) = {} <=> f.lines = << >>
    BY <2>2, MembersOf
  <2>4. Members(f.lines) = {} <=> Ours = {}
    BY <1>4
  <2> QED BY <2>2, <2>3, <2>4
<1>8. /\ L \in Seq({c} \X Int) /\ Sorted(L, InTurn)
      /\ EndsIn(wtmp, L, c) = IF Ours # {} THEN Ours ELSE {absent}
  <2>1. CASE Ours = {}
    <3>1. L = << <<c, absent>> >>
      BY <1>7, <2>1
    <3>2. {absent} \cap (-1 .. Len(wtmp)) = {absent}
      BY <1>3
    <3> HIDE DEF L, absent
    <3> QED BY <1>1, <2>1, <3>1, <3>2, NoLines
  <2>2. CASE Ours # {}
    <3>1. L = f.lines
      BY <1>7, <2>2
    <3> HIDE DEF L
    <3>2. EndsIn(wtmp, L, c) = {e \in -1 .. Len(wtmp) : <<c, e>> \in Members(L)}
      <4> DEFINE T == {c} \X Int
      <4>1. L \in Seq(T)
        BY <1>7, <3>1
      <4> HIDE DEF T
      <4> QED BY <4>1, EndsAre
    <3>3. \A e : <<c, e>> \in Members(L) <=> e \in Ours
      BY <1>4, <3>1
    <3>4. EndsIn(wtmp, L, c) = Ours
      BY <1>6, <3>2, <3>3 DEF N
    <3> QED BY <1>4, <1>7, <2>2, <3>1, <3>4
  <2> QED BY <2>1, <2>2
<1>9. RightIn(wtmp, L, c)
  <2>1. last.shutdown > 0 <=> LaterIn(wtmp, c, {"shutdown"}) # {}
    <3> DEFINE T == LaterIn(wtmp, c, {"shutdown"})
    <3>1. T = {} => last.shutdown = 0
      BY <1>1, FirstPlace
    <3>2. T # {} => last.shutdown > 0
      BY <1>1, FirstPlace
    <3> HIDE DEF T
    <3>3. T = {} \/ T # {} OBVIOUS
    <3>4. ~(0 > 0) OBVIOUS
    <3> QED BY <3>1, <3>2, <3>3, <3>4 DEF T
  <2>2. absent = IF LaterIn(wtmp, c, {"shutdown"}) # {} THEN -1 ELSE 0
    BY <2>1
  <2>3. wtmp[c].type # "boot" /\ wtmp[c].type # "shutdown"
    BY <1>1
  <2> HIDE DEF L, absent
  <2> QED BY <1>5, <1>8, <2>2, <2>3, Zenon DEF RightIn
<1> HIDE DEF L
<1>10. SeenIn(wtmp, c - 1, last, printed \o L)
  <2>1. wtmp[c].type # "boot" /\ wtmp[c].type # "shutdown"
    BY <1>1
  <2> QED BY <1>1, <1>8, <1>9, <2>1, TimesRead
<1>11. OpenIn(wtmp, c - 1) = Members(f.left)
  <2>1. OpenIn(wtmp, c - 1) = {j \in OpenIn(wtmp, c) : wtmp[j].line # wtmp[c].line}
    BY <1>1, OpenNow
  <2> QED BY <1>4, <2>1, Zenon
<1>12. f.left \in Seq(1 .. Len(wtmp)) /\ Sorted(f.left, Rising)
  BY <1>4 DEF N
<1> QED BY <1>2, <1>10, <1>11, <1>12, Zenon DEF KnownNext, ListIn

\* At the start nothing has been read and nothing printed.
LEMMA LastStart == ASSUME SplLast!LastAssumption, SplLast!Init PROVE SplLast!LastInv
<1>1. PICK n \in 1 .. MaxRecords : wtmp \in [1 .. n -> SplLast!Records]
  BY DEF SplLast!Init
<1>2. /\ wtmp \in Seq(SplLast!Records) /\ Len(wtmp) = n /\ n \in Nat /\ n >= 1
      /\ wtmp # << >> /\ IsWtmp
  <2>1. n \in Nat /\ n >= 1
    BY DEF SplLast!LastAssumption
  <2>2. wtmp \in Seq(SplLast!Records)
    BY <1>1, <2>1
  <2>3. Len(wtmp) = n
    BY <1>1, <2>1
  <2>4. wtmp # << >>
    BY <2>1, <2>2, <2>3, EmptySeq
  <2> QED BY <2>1, <2>2, <2>3, <2>4 DEF IsWtmp
<1>3. /\ file = [offset |-> 1, is_first |-> TRUE, saved |-> 0] /\ saved_ut_recs = << >>
      /\ last \in [boot : {0, MaxRecords + 1}, shutdown : {0}] /\ printed = << >> /\ done = FALSE
  BY DEF SplLast!Init
<1>4. PlaceIn(wtmp, file) /\ UnreadIn(wtmp, file) = n
  BY <1>2, <1>3 DEF PlaceIn, UnreadIn
<1>5. n + 1 .. n = {}
  BY <1>2
<1>6. \A S : LaterIn(wtmp, n, S) = {}
  BY <1>2, <1>5, Zenon DEF LaterIn
<1>7. SeenIn(wtmp, n, last, printed)
  <2>1. last \in [boot : Int, shutdown : Int] /\ last.shutdown = 0
    BY <1>3 DEF SplLast!LastAssumption
  <2>2. SplLast!First({}, 0) = 0
    BY Zenon DEF SplLast!First
  <2>3. << >> \in Seq((n + 1 .. n) \X Int)
    OBVIOUS
  <2> QED BY <1>2, <1>3, <1>5, <1>6, <2>1, <2>2, <2>3, OneMember, Zenon DEF SeenIn
<1>8. ListIn(wtmp, n, saved_ut_recs)
  <2>1. OpenIn(wtmp, n) = {}
    BY <1>6 DEF OpenIn
  <2> QED BY <1>3, <2>1, OneMember DEF ListIn
<1>9. saved_ut_recs \in Seq(1 .. Len(wtmp))
  BY <1>3
<1>10. LastInvIn
  BY <1>2, <1>3, <1>4, <1>7, <1>8, <1>9, Zenon DEF LastInvIn
<1> QED BY <1>10, LastInvIs

\* The same of the state after a step.
LEMMA LastInvNext == LastInvIn' => SplLast!LastInv'
BY LastInvIs, PTL

\* Each turn keeps the invariant.
LEMMA LastNext ==
  ASSUME SplLast!LastAssumption, SplLast!LastInv, SplLast!Next PROVE SplLast!LastInv'
<1>1. /\ LastInvIn /\ IsWtmp
  BY LastInvIs DEF LastInvIn, IsWtmp
<1>2. ~done /\ wtmp' = wtmp /\ done' = (SplLast!Saved < 0)
  BY DEF SplLast!Next
<1>3. SplLast!Saved = UnreadIn(wtmp, file) - 1 /\ UnreadIn(wtmp, file) \in 0 .. Len(wtmp)
  <2>1. Len(wtmp) \in Nat /\ Len(wtmp) >= 1 BY <1>1, RecordIs
  <2>2. PlaceIn(wtmp, file) BY <1>1 DEF LastInvIn
  <2> QED BY <2>1, <2>2 DEF PlaceIn, UnreadIn, SplLast!Saved
<1>4. LastInvIn'
  <2>1. CASE SplLast!Saved < 0
    <3>1. saved_ut_recs' = << >> /\ file' = file /\ last' = last /\ printed' = printed /\ done'
      BY <1>2, <2>1 DEF SplLast!Next
    <3>2. UnreadIn(wtmp, file) = 0
      BY <1>3, <2>1
    <3>3. << >> \in Seq(1 .. Len(wtmp))
      OBVIOUS
    <3> QED BY <1>1, <1>2, <3>1, <3>2, <3>3, Zenon DEF LastInvIn
  <2>2. CASE ~(SplLast!Saved < 0)
    <3> DEFINE c == SplLast!At + 1
    <3>1. /\ file' = SplLast!Advance /\ ~done'
          /\ \/ SplLast!BootTime(c) \/ SplLast!ShutdownTime(c) \/ SplLast!UserProcess(c)
             \/ SplLast!DeadProcess(c) \/ SplLast!Other(c)
      BY <1>2, <2>2 DEF SplLast!Next
    <3>2. PlaceIn(wtmp, file)
      BY <1>1 DEF LastInvIn
    <3>3. /\ c \in 1 .. Len(wtmp) /\ c = UnreadIn(wtmp, file)
          /\ PlaceIn(wtmp, file') /\ UnreadIn(wtmp, file') = c - 1
      BY <1>1, <2>2, <3>1, <3>2, PlaceRead
    <3> HIDE DEF c
    <3>4. Known(c)
      BY <1>1, <1>2, <3>3, Zenon DEF Known, LastInvIn
    <3>5. KnownNext(c)
      BY <3>1, <3>4, BootRead, ShutdownRead, UserRead, DeadRead, OtherRead
    <3>6. wtmp \in Seq(SplLast!Records) /\ wtmp # << >>
      BY <1>1 DEF LastInvIn
    <3> QED BY <1>2, <3>1, <3>3, <3>5, <3>6, Zenon DEF KnownNext, LastInvIn
  <2> QED BY <2>1, <2>2
<1> QED BY <1>4, LastInvNext

\* At the end every record has been read, and its lines are right.
LEMMA LastImplied ==
  ASSUME SplLast!LastAssumption, SplLast!LastInv
  PROVE  SplLast!SessionsMatched /\ SplLast!SystemEvents
<1> SUFFICES ASSUME done PROVE SplLast!SessionsMatched /\ SplLast!SystemEvents
  BY DEF SplLast!SessionsMatched, SplLast!SystemEvents
<1>1. SplLast!Unread = 0 /\ wtmp \in Seq(SplLast!Records)
  BY DEF SplLast!LastInv, SplLast!LastTypes
<1>2. 0 + 1 .. Len(wtmp) = 1 .. Len(wtmp)
  OBVIOUS
<1>3. \A k \in 1 .. Len(wtmp) : SplLast!RightEnds(k)
  BY <1>1, <1>2, Zenon DEF SplLast!LastInv
<1>4. SplLast!SessionsMatched
  BY <1>3, Zenon DEF SplLast!SessionsMatched, SplLast!RightEnds
<1>5. \A m, k \in DOMAIN printed : m < k => SplLast!Before(printed[m], printed[k])
  BY Zenon DEF SplLast!LastInv
<1>6. SplLast!SystemEvents
  BY <1>3, <1>5, Zenon DEF SplLast!SystemEvents, SplLast!RightEnds, SplLast!Before
<1> QED BY <1>4, <1>6

\* A step of another program leaves it.
LEMMA SameLast == ASSUME SplLast!LastInv, UNCHANGED last_vars PROVE SplLast!LastInv'
<1>1. LastInvIn
  BY LastInvIs
<1>2. LastInvIn'
  BY <1>1, Zenon DEF LastInvIn, last_vars
<1> QED BY <1>2, LastInvNext
------------------------------------------------------------------------------
(* The programs together: the one that runs has its invariant *)

\* The program that runs has its invariant.
UtilitiesInv ==
    /\ program = "watch"  => WatchInv
    /\ program = "wait"   => WaitInv
    /\ program = "sprite" => SpriteTypeOK /\ TerminalInv /\ StaysInv
    /\ program = "sigio"  => SigioInv
    /\ program = "hash"   => Hash!HashInv
    /\ program = "last"   => SplLast!LastInv

\* It holds at the start,
LEMMA UtilitiesInit == Init => UtilitiesInv
<1> SUFFICES ASSUME Init PROVE UtilitiesInv
  OBVIOUS
<1>1. /\ Watch!WatchAssumption /\ Wait!WaitAssumption /\ Sprite!SpriteAssumption
      /\ Sigio!SigioAssumption /\ Hash!HashAssumption /\ SplLast!LastAssumption
  BY UtilitiesAssumption
<1>2. Watch!Init /\ Wait!Init /\ Sprite!Init /\ Sigio!Init /\ Hash!Init /\ SplLast!Init
  BY DEF Init
<1>3. WatchInv /\ WaitInv
  BY <1>1, <1>2, WatchInit, WaitInit
<1>4. SpriteTypeOK
  <2>1. window \in AnySize
    BY <1>1, <1>2 DEF Sprite!Init, Sprite!SpriteAssumption, AnySize
  <2>2. steered \in BOOLEAN /\ torn \in BOOLEAN
    BY <1>2, Zenon DEF Sprite!Init
  <2>3. pos \in Int \X Int /\ prev \in Int \X Int /\ screen \in Int \X Int /\ new \in 0 .. 4
    BY <1>2 DEF Sprite!Init
  <2> QED BY <1>2, <2>1, <2>2, <2>3 DEF Sprite!Init, SpriteTypeOK, Playing
<1>5. TerminalInv
  BY <1>2 DEF Sprite!Init, TerminalInv, Sprite!TerminalRestored, Sprite!Ended
<1>6. StaysInv
  BY <1>2 DEF Sprite!Init, StaysInv, Playing, Sprite!StaysInWindow, Sprite!Playing
<1>7. SigioInv
  BY <1>1, <1>2 DEF Sigio!Init, SigioInv, Sigio!SigioAssumption
<1>8. Hash!HashInv
  BY <1>1, <1>2, HashStart
<1>9. SplLast!LastInv
  BY <1>1, <1>2, LastStart
<1> QED BY <1>3, <1>4, <1>5, <1>6, <1>7, <1>8, <1>9 DEF UtilitiesInv

\* A step is one of the program that runs.
LEMMA StepOfOne ==
    ASSUME [Next]_vars
    PROVE  /\ program' = program
           /\ program = "watch"  => Watch!Next \/ UNCHANGED watch_vars
           /\ program = "wait"   => Wait!Next \/ UNCHANGED wait_vars
           /\ program = "sprite" => Sprite!Next \/ UNCHANGED sprite_vars
           /\ program = "sigio"  => Sigio!Next \/ UNCHANGED sigio_vars
           /\ program = "hash"   => Hash!Next \/ UNCHANGED hash_vars
           /\ program = "last"   => SplLast!Next \/ UNCHANGED last_vars
BY DEF Next, vars, one_vars, tty_vars, io_vars, LastStep, HashStep, WatchStep, WaitStep, CopyStep,
       TopStep, PsStep, SpriteStep, SttyStep, DuStep, PwdStep, SigioStep, WriteStep

\* A step of the others leaves the sprite's invariants.
LEMMA SameSprite ==
    ASSUME SpriteTypeOK, TerminalInv, StaysInv, UNCHANGED sprite_vars
    PROVE  SpriteTypeOK' /\ TerminalInv' /\ StaysInv'
<1>1. SpriteTypeOK'
  BY DEF sprite_vars, SpriteTypeOK
<1>2. TerminalInv'
  BY DEF sprite_vars, TerminalInv, Sprite!TerminalRestored, Sprite!Ended
<1>3. UNCHANGED <<version, screen, pos, prev, direction, new, steered, torn, sprite_pc>>
  BY DEF sprite_vars
<1>4. /\ Inside' = Inside /\ Clockwise' = Clockwise /\ InCorner' = InCorner
      /\ LeftAlone' = LeftAlone /\ Facing(direction)' = Facing(direction)
      /\ Sprite!Turned(direction)' = Sprite!Turned(direction)
  BY <1>3, SpriteStays
<1>5. Sprite!StaysInWindow'
  BY <1>3, SpriteStays DEF StaysInv
<1> QED BY <1>1, <1>2, <1>3, <1>4, <1>5 DEF StaysInv

\* A step of the others leaves the count of the children.
LEMMA SameWait == ASSUME WaitInv, UNCHANGED wait_vars PROVE WaitInv'
<1>1. WaitReaped' = WaitReaped
  BY DEF wait_vars, WaitReaped
<1> QED BY <1>1 DEF wait_vars, WaitInv, WaitTypeOK, Ended

\* A step of the others leaves the table.
LEMMA SameHash == ASSUME Hash!HashInv, UNCHANGED hash_vars PROVE Hash!HashInv'
<1>1. table' = table /\ seen' = seen /\ news' = news
  BY DEF hash_vars
<1>2. /\ Hash!TableInv(table) /\ table.current_size <= Hash!size(table) \div 2
      /\ Hash!Content(table) = seen /\ news = table.current_size
  BY DEF Hash!HashInv
<1> QED BY <1>1, <1>2 DEF Hash!HashInv

\* and every step keeps it.
LEMMA UtilitiesNext == UtilitiesInv /\ [Next]_vars => UtilitiesInv'
<1> SUFFICES ASSUME UtilitiesInv, [Next]_vars PROVE UtilitiesInv'
  OBVIOUS
<1>1. /\ Watch!WatchAssumption /\ Wait!WaitAssumption /\ Sprite!SpriteAssumption
      /\ Sigio!SigioAssumption /\ Hash!HashAssumption /\ SplLast!LastAssumption
  BY UtilitiesAssumption
<1>2. program' = program
  BY StepOfOne
<1>3. ASSUME program = "watch" PROVE WatchInv'
  <2>1. WatchInv /\ (Watch!Next \/ UNCHANGED watch_vars)
    BY <1>3, StepOfOne DEF UtilitiesInv
  <2>2. CASE UNCHANGED watch_vars
    BY <2>1, <2>2 DEF watch_vars, WatchInv, WatchTypeOK, WatchFrame
  <2> QED BY <1>1, <2>1, <2>2, WatchNext
<1>4. ASSUME program = "wait" PROVE WaitInv'
  BY <1>1, <1>4, StepOfOne, WaitNext, SameWait DEF UtilitiesInv
<1>5. ASSUME program = "sprite" PROVE SpriteTypeOK' /\ TerminalInv' /\ StaysInv'
  BY <1>1, <1>5, StepOfOne, SpriteType, SpriteTerminal, SpriteNext, SameSprite DEF UtilitiesInv
<1>6. ASSUME program = "sigio" PROVE SigioInv'
  <2>1. SigioInv /\ (Sigio!Next \/ UNCHANGED sigio_vars)
    BY <1>6, StepOfOne DEF UtilitiesInv
  <2>2. CASE UNCHANGED sigio_vars
    BY <2>1, <2>2 DEF sigio_vars, SigioInv
  <2> QED BY <1>1, <2>1, <2>2, SigioNext
<1>7. ASSUME program = "hash" PROVE Hash!HashInv'
  <2>1. Hash!HashInv /\ (Hash!Next \/ UNCHANGED hash_vars)
    BY <1>7, StepOfOne DEF UtilitiesInv
  <2> QED BY <1>1, <2>1, HashNext, SameHash
<1>8. ASSUME program = "last" PROVE SplLast!LastInv'
  <2>1. SplLast!LastInv /\ (SplLast!Next \/ UNCHANGED last_vars)
    BY <1>8, StepOfOne DEF UtilitiesInv
  <2> QED BY <1>1, <2>1, LastNext, SameLast
<1> QED BY <1>2, <1>3, <1>4, <1>5, <1>6, <1>7, <1>8 DEF UtilitiesInv

\* It says more than the property that the run checks.
LEMMA InvIsSafe == UtilitiesInv => HandlersSafe
<1> SUFFICES ASSUME UtilitiesInv PROVE HandlersSafe
  OBVIOUS
<1>1. program = "watch" => Watch!ArraysInUse
  BY WatchSafe DEF UtilitiesInv
<1>2. program = "wait" => Wait!ReapedAndCounted
  <2>1. Wait!Cardinality(WaitReaped) = Cardinality(WaitReaped)
    BY Zenon DEF Wait!Cardinality, Cardinality
  <2>2. program = "wait" => /\ sigchld_count <= Wait!Cardinality(WaitReaped)
                            /\ wait_pc \in {"leave", "exit"} => WaitReaped = Wait!Children
    BY <2>1 DEF UtilitiesInv, WaitInv
  <2> QED BY <2>2, Zenon DEF WaitReaped, Wait!ReapedAndCounted
<1>3. program = "sprite" => Sprite!StaysInWindow /\ Sprite!TerminalRestored
  BY DEF UtilitiesInv, TerminalInv, StaysInv
<1>4. program = "sigio" => Sigio!InRows
  BY DEF UtilitiesInv, SigioInv, Sigio!InRows
<1> QED BY <1>1, <1>2, <1>3, <1>4 DEF HandlersSafe

\* The programs keep their invariants, whatever the constants are.
THEOREM UtilitiesInvariant == Spec => []UtilitiesInv
BY UtilitiesInit, UtilitiesNext, PTL DEF Spec

\* watchfiles.c: the arrays are used after they are freed, or freed again, only
\* between the cleanup() and the raise() of sig_handler().
\* sighandler_wait_demo.c: no child is counted that is not reaped, and none is
\* left at the end.  sprite.c: the sprite stays in the window unless a resize or a
\* key in a corner parts it from its direction, and the terminal is restored.
\* sigio_demo.c: the sprite stays in its rows.
THEOREM ProgramsWithHandlers == Spec => []HandlersSafe
BY UtilitiesInvariant, InvIsSafe, PTL

\* hash.c: whatever collides, and however often the table has been doubled, it is
\* the set of the items inserted, and half of it is empty.
THEOREM TableIsTheSet == Spec => []IsTheSet
<1>1. UtilitiesInv => IsTheSet
  BY UtilitiesAssumption, HashImplied DEF UtilitiesInv, IsTheSet
<1> QED BY <1>1, UtilitiesInvariant, PTL

\* spl_last.c: whatever the file holds, once it has been read each login has been
\* printed with the logouts of its own session or as open or gone, each boot with the
\* next shutdown, and the lines from the newest to the oldest.
THEOREM SessionsAreMatched == Spec => []SessionsMatched
<1>1. UtilitiesInv => SessionsMatched
  BY UtilitiesAssumption, LastImplied DEF UtilitiesInv, SessionsMatched
<1> QED BY <1>1, UtilitiesInvariant, PTL
==============================================================================
