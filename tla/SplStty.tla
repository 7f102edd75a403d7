-------------------------------- MODULE SplStty --------------------------------
(***************************************************************************)
(* chapter18/spl_stty.c: each run gets the terminal's settings, changes    *)
(* the one its arguments name and sets them all, or shows them.  A word of *)
(* flags is the set of its bits that are set; bit 31 is an int's sign.     *)
(***************************************************************************)
EXTENDS Integers, FiniteSetsExt

CONSTANTS Numbers,        \* what is given for min, time and line
          Rates,          \* what is given for a speed, in baud
          Characters,     \* what is given for a character: its code, 0 if it is none
          MaxCommands     \* bound on the runs

SttyAssumption == /\ Numbers \subseteq -1 .. 999 /\ Rates \subseteq Nat
                  /\ Characters \subseteq 0 .. 127 /\ MaxCommands \in Nat

VARIABLES
    tt,             \* struct termios
    asked,          \* ghost: the settings as the commands asked for them
    commands

vars == <<tt, asked, commands>>
------------------------------------------------------------------------------
(* The tables: a flag's bit, a delay's mask and value, a character's index *)

input_flags == [ignbrk |-> 0, brkint |-> 1, ignpar |-> 2, parmrk |-> 3, inpck |-> 4, istrip |-> 5,
                inlcr |-> 6, igncr |-> 7, icrnl |-> 8, iuclc |-> 9, ixon |-> 10, ixany |-> 11,
                ixoff |-> 12, imaxbel |-> 13, iutf8 |-> 14]
output_flags == [opost |-> 0, olcuc |-> 1, onlcr |-> 2, ocrnl |-> 3, onocr |-> 4, onlret |-> 5,
                 ofill |-> 6, ofdel |-> 7]
control_flags == [cstopb |-> 6, cread |-> 7, parenb |-> 8, parodd |-> 9, hupcl |-> 10,
                  clocal |-> 11, cmspar |-> 30, crtscts |-> 31]
local_flags == [isig |-> 0, icanon |-> 1, xcase |-> 2, echo |-> 3, echoe |-> 4, echok |-> 5,
                echonl |-> 6, noflsh |-> 7, tostop |-> 8, echoctl |-> 9, echoprt |-> 10,
                echoke |-> 11, flusho |-> 12, pendin |-> 14, iexten |-> 15]
maps == [iflag |-> input_flags, oflag |-> output_flags, cflag |-> control_flags,
         lflag |-> local_flags]

Masks == [nl |-> {8}, cr |-> {9, 10}, tab |-> {11, 12}, bs |-> {13}, vt |-> {14}, ff |-> {15}]
CSIZE == {4, 5}

\* The constants of a delay, in order
Constants == [nl |-> <<"nl0", "nl1">>, cr |-> <<"cr0", "cr1", "cr2", "cr3">>, bs |-> <<"bs0", "bs1">>,
              tab |-> <<"tab0", "tab1", "tab2", "tab3">>, vt |-> <<"vt0", "vt1">>,
              ff |-> <<"ff0", "ff1">>]
Delays == UNION {{[of |-> d, name |-> Constants[d][k], level |-> k - 1] : k \in DOMAIN Constants[d]}
                 : d \in DOMAIN Masks}
          \cup {[of |-> "tab", name |-> "tabs", level |-> 3], [of |-> "tab", name |-> "-tabs", level |-> 0]}
Value(d) == LET low == Min(Masks[d.of]) IN
            {b \in Masks[d.of] : (d.level \div 2 ^ (b - low)) % 2 = 1}

cc_vars == [intr |-> 0, quit |-> 1, erase |-> 2, kill |-> 3, eof |-> 4, swtch |-> 7, start |-> 8,
            stop |-> 9, susp |-> 10, eol |-> 11, reprint |-> 12, discard |-> 13, werase |-> 14,
            lnext |-> 15, eol2 |-> 16]
VTIME == 5
VMIN == 6

baudrates == {0, 50, 75, 110, 134, 150, 200, 300, 600, 1200, 1800, 2400, 4800, 9600, 19200, 38400,
              57600, 115200, 230400}

\* The loops leave off at an entry whose mask is negative: the last one of
\* control_flags.
Searched(map) == {n \in DOMAIN map : map[n] < 31}
------------------------------------------------------------------------------
(* Showing *)

Word(bits, mask) == LET low == Min(mask) IN SumSet({2 ^ (b - low) : b \in bits \cap mask})

show_flagset(t, f) == [n \in Searched(maps[f]) |-> maps[f][n] \in t[f]]
show_odelays(t)    == [d \in DOMAIN Masks |-> Word(t.oflag, Masks[d])]
show_csize(t)      == 1 + Min(CSIZE) + Word(t.cflag, CSIZE)

\* ^c, as the code of c; 0 is <undef>
show_ccvars(t) == [n \in DOMAIN cc_vars |->
                     LET ch == t.cc[cc_vars[n]] IN IF ch > 0 THEN (ch - 1 + 65) % 128 ELSE 0]

\* -1 is "unknown"
get_speed(t) == IF t.speed \in baudrates THEN t.speed ELSE -1

show_all(t) == [speed |-> get_speed(t), line |-> t.line, cc |-> show_ccvars(t), min |-> t.cc[VMIN],
                time |-> t.cc[VTIME], flags |-> [f \in DOMAIN maps |-> show_flagset(t, f)],
                csize |-> show_csize(t), delays |-> show_odelays(t)]
------------------------------------------------------------------------------
(* Setting *)

set_switch_in_map(t, f, name, enable) ==
    [t EXCEPT ![f] = IF enable THEN @ \cup {maps[f][name]} ELSE @ \ {maps[f][name]}]

\* Mutant: the delay's other bits stay.
set_delay_or(t, d) == [t EXCEPT !.oflag = @ \cup Value(d)]

set_delay(t, d) == [t EXCEPT !.oflag = (@ \ Masks[d.of]) \cup Value(d)]

\* Mutant: the minus of -tabs is taken off like that of a flag.
Named_minus(name, minus) == {d \in Delays : d.name = name}

\* A minus is taken off a word before it is searched for, but for -tabs.
Named(name, minus) ==
    {d \in Delays : d.name = IF minus /\ name = "tabs" THEN "-tabs" ELSE name}

\* The settings after a switch is given, t if there is no such switch
set_switch(t, name, minus) ==
    LET in == {f \in DOMAIN maps : name \in Searched(maps[f])} IN
    IF in # {} THEN set_switch_in_map(t, CHOOSE f \in in : TRUE, name, ~minus)
    ELSE IF Named(name, minus) # {} THEN set_delay(t, CHOOSE d \in Named(name, minus) : TRUE)
    ELSE t

\* Mutant: the limits are not checked.
InRange_any(name, number) == number >= 0

\* get_int() takes no negative number; line has no limit.
InRange(name, number) == number >= 0 /\ (name = "line" \/ number < 256)

set_number(t, name, number) ==
    IF ~InRange(name, number) THEN t
    ELSE CASE name = "line" -> [t EXCEPT !.line = number % 256]
           [] name = "min"  -> [t EXCEPT !.cc[VMIN] = number % 256]
           [] name = "time" -> [t EXCEPT !.cc[VTIME] = number % 256]

\* The C library keeps one speed for both directions.  An input speed of 0
\* stands for the output speed.
set_speed(t, name, rate) ==
    IF rate \notin baudrates \/ (name = "ispeed" /\ rate = 0) THEN t ELSE [t EXCEPT !.speed = rate]

\* ^X is X's code less 64; one character stands for itself.
set_ccvar(t, name, value) == IF value = 0 THEN t ELSE [t EXCEPT !.cc[cc_vars[name]] = value]
------------------------------------------------------------------------------
(* main() *)

sane == [iflag |-> {8, 10, 13, 14}, oflag |-> {0, 2}, cflag |-> {4, 5, 7},
         lflag |-> {0, 1, 3, 4, 5, 9, 11, 15}, line |-> 0, speed |-> 38400,
         cc |-> [k \in 0 .. 16 |-> CASE k = 0 -> 3 [] k = 1 -> 28 [] k = 2 -> 127 [] k = 4 -> 4
                                     [] k = VMIN -> 1 [] OTHER -> 0]]

Init == tt = sane /\ commands = 0
        /\ asked = [show_all(sane) EXCEPT !.cc = [n \in DOMAIN cc_vars |-> sane.cc[cc_vars[n]]]]

Command == commands < MaxCommands /\ commands' = commands + 1

Flag(f, name, minus) ==
    /\ Command /\ tt' = set_switch(tt, name, minus)
    /\ asked' = IF name \in Searched(maps[f]) THEN [asked EXCEPT !.flags[f][name] = ~minus]
                ELSE asked

\* A minus before another delay is not looked at.
Delay(d, minus) ==
    /\ Command /\ d.name # "-tabs"
    /\ tt' = set_switch(tt, d.name, minus)
    /\ asked' = [asked EXCEPT !.delays[d.of] =
                    IF minus /\ d.name = "tabs" THEN 0 ELSE d.level]

Number(name, number) ==
    /\ Command /\ tt' = set_number(tt, name, number)
    /\ asked' = IF number \notin 0 .. 255 THEN asked
                ELSE CASE name = "line" -> [asked EXCEPT !.line = number]
                       [] name = "min"  -> [asked EXCEPT !.min = number]
                       [] name = "time" -> [asked EXCEPT !.time = number]

Speed(name, rate) ==
    /\ Command /\ tt' = set_speed(tt, name, rate)
    /\ asked' = IF rate \in baudrates /\ (rate > 0 \/ name # "ispeed") THEN
                    [asked EXCEPT !.speed = rate] ELSE asked

Character(name, value) ==
    /\ Command /\ tt' = set_ccvar(tt, name, value)
    /\ asked' = IF value = 0 THEN asked ELSE [asked EXCEPT !.cc[name] = value]

Next ==
    \/ \E minus \in BOOLEAN : \/ \E f \in DOMAIN maps : \E n \in DOMAIN maps[f] : Flag(f, n, minus)
                              \/ \E d \in Delays : Delay(d, minus)
    \/ \E n \in {"line", "min", "time"}, k \in Numbers : Number(n, k)
    \/ \E n \in {"speed", "ispeed", "ospeed"}, r \in Rates : Speed(n, r)
    \/ \E n \in DOMAIN cc_vars, c \in Characters : Character(n, c)

Spec == Init /\ [][Next]_vars
------------------------------------------------------------------------------
(* Properties *)

\* set_switch(), set_var(), show_all(): after any commands every setting shows
\* as it was asked for last, and no command has touched another setting.  A
\* character shows as ^X of its code less than 32, or as ^? of 127; line, whose
\* limit is not checked, is left out, and so is crtscts, which neither is found
\* nor shown.
ReadsBack ==
    LET shown == show_all(tt) IN
    /\ \A part \in {"speed", "min", "time", "flags", "csize", "delays"} : shown[part] = asked[part]
    /\ \A n \in DOMAIN cc_vars :
         asked.cc[n] \in 0 .. 31 \cup {127} =>
            shown.cc[n] = CASE asked.cc[n] = 0 -> 0 [] asked.cc[n] = 127 -> 63
                            [] OTHER -> asked.cc[n] + 64
    /\ 31 \in tt.cflag <=> 31 \in sane.cflag
==============================================================================
