-------------------------------- MODULE Sprite --------------------------------
(***************************************************************************)
(* chapter19/sprite.c and chapter19/sprite_curses.c: a sprite that moves   *)
(* along the window's edge, which the user steers and may resize.  The     *)
(* handler on_resize() can run between any two steps of main(); a turn and *)
(* a move take two steps each, the value read and the value stored.        *)
(*                                                                         *)
(* The count of moves, the menu and the symbol's drawing are left out.     *)
(***************************************************************************)
EXTENDS Integers

CONSTANTS Sizes,          \* the sizes <<rows, columns>> the window may have
          Reach,          \* bound: a sprite that is so far out is not followed any further
          MaxEvents       \* bound on keys, resizes and signals

SpriteAssumption == /\ Sizes \subseteq (3 .. 9) \X (2 .. 9)
                    /\ MaxEvents \in Nat /\ Reach \in Nat \ {0}

VARIABLES
    version,        \* "ansi" counts rows and columns from 1, "curses" from 0
    pc, events,
    window,         \* the size there is
    winch,          \* is SIGWINCH pending?
    size,           \* numrows and numcols, or LINES and COLS
    pos, prev,      \* the sprite's position, and (ghost) the one before
    direction,
    new,            \* the value main() has read and not used yet: a direction, 0 for none
    pause,
    term, savedtty, \* the terminal's settings, and those saved
    ws,             \* its size, as main() has read it
    steered, torn   \* ghosts: a key gave the direction; a resize parted a read and its use

terminal == <<term, savedtty, ws>>
motion   == <<pos, prev, direction, new>>
vars     == <<version, pc, events, window, winch, size, motion, pause, terminal, steered, torn>>

First == IF version = "ansi" THEN 1 ELSE 0
Window(s) == (First .. First + s[1] - 2) \X (First .. First + s[2] - 1)
Corners(s) == {First, First + s[1] - 2} \X {First, First + s[2] - 1}
Start(s) == << s[1] \div 2, First >>

UP == 1
RIGHT == 2
DOWN == 3
LEFT == 4
sprite_state == << <<-1, 0>>, <<0, 1>>, <<1, 0>>, <<0, -1>> >>

Init ==
    /\ version \in {"ansi", "curses"} /\ window \in Sizes
    /\ pc = "save_tty" /\ events = 0 /\ winch = FALSE /\ size = <<0, 0>>
    /\ pos = <<0, 0>> /\ prev = <<0, 0>> /\ direction = 0 /\ new = 0 /\ pause = FALSE
    /\ term = "user" /\ savedtty = "zero" /\ ws = <<0, 0>>
    /\ steered = FALSE /\ torn = FALSE
------------------------------------------------------------------------------
(* main() *)

\* save_tty(); in the other version initscr() saves the settings as it changes
\* them.
save_tty ==
    /\ pc = "save_tty" /\ pc' = "init_terminal"
    /\ savedtty' = term
    /\ UNCHANGED <<version, events, window, winch, size, motion, pause, term, ws, steered, torn>>

init_terminal ==
    /\ pc = "init_terminal" /\ pc' = "size"
    /\ term' = "raw"
    /\ UNCHANGED <<version, events, window, winch, size, motion, pause, savedtty, ws, steered, torn>>

\* ioctl(), then a store for each of the two: a resize may come between.
get_window_size ==
    /\ \/ pc = "size" /\ pc' = "rows" /\ ws' = window /\ UNCHANGED size
       \/ pc = "rows" /\ pc' = "cols" /\ size' = <<ws[1], size[2]>> /\ UNCHANGED ws
       \/ pc = "cols" /\ pc' = "setup" /\ size' = <<size[1], ws[2]>> /\ UNCHANGED ws
    /\ UNCHANGED <<version, events, window, winch, motion, pause, term, savedtty, steered, torn>>

setup_screen ==
    /\ pc = "setup" /\ pc' = "turn"
    /\ pos' = Start(size) /\ prev' = Start(size) /\ direction' = RIGHT
    /\ UNCHANGED <<version, events, window, winch, size, new, pause, terminal, steered, torn>>

\* Mutant: the sprite turns only when it is past the edge.
on_boundary_late(p, s, dir) ==
    \/ p[2] < First /\ dir = LEFT
    \/ p[2] > First + s[2] - 1 /\ dir = RIGHT
    \/ p[1] < First /\ dir = UP
    \/ p[1] > First + s[1] - 2 /\ dir = DOWN

\* Is the sprite next to the edge it faces?
on_boundary(p, s, dir) ==
    \/ p[2] = First /\ dir = LEFT
    \/ p[2] = First + s[2] - 1 /\ dir = RIGHT
    \/ p[1] = First /\ dir = UP
    \/ p[1] = First + s[1] - 2 /\ dir = DOWN

Followed == /\ pos[1] \in First - Reach .. First + size[1] + Reach
            /\ pos[2] \in First - Reach .. First + size[2] + Reach

Turned(dir) == (dir % 4) + 1

ReadTurn ==
    /\ pc = "turn" /\ ~pause /\ Followed /\ pc' = "assign"
    /\ new' = IF on_boundary(pos, size, direction) THEN Turned(direction) ELSE 0
    /\ UNCHANGED <<version, events, window, winch, size, pos, prev, direction, pause, terminal,
                   steered, torn>>

Turn ==
    /\ pc = "assign" /\ pc' = "draw"
    /\ direction' = IF new # 0 THEN new ELSE direction
    /\ UNCHANGED <<version, events, window, winch, size, pos, prev, new, pause, terminal,
                   steered, torn>>

\* The sprite is drawn, and the direction is passed to update_sprite().
Draw ==
    /\ pc = "draw" /\ pc' = "update"
    /\ new' = direction
    /\ UNCHANGED <<version, events, window, winch, size, pos, prev, direction, pause, terminal,
                   steered, torn>>

addto(p, adjust) == << p[1] + adjust[1], p[2] + adjust[2] >>

update_sprite ==
    /\ pc = "update" /\ pc' = "read"
    /\ pos' = addto(pos, sprite_state[new])
    /\ prev' = pos /\ new' = 0
    /\ UNCHANGED <<version, events, window, winch, size, direction, pause, terminal, steered, torn>>

Paused ==
    /\ pc = "turn" /\ pause /\ pc' = "read"
    /\ UNCHANGED <<version, events, window, winch, size, motion, pause, terminal, steered, torn>>

NoKey ==
    /\ pc = "read" /\ pc' = "turn"
    /\ UNCHANGED <<version, events, window, winch, size, motion, pause, terminal, steered, torn>>

Key ==
    /\ pc = "read" /\ events < MaxEvents /\ events' = events + 1
    /\ \/ /\ pc' = "quit" /\ UNCHANGED <<pause, direction, steered>>
       \/ /\ pause' \in BOOLEAN /\ pause' # pause
          /\ pc' = "turn" /\ UNCHANGED <<direction, steered>>
       \/ /\ direction' \in UP .. LEFT /\ steered' = TRUE
          /\ pc' = "turn" /\ UNCHANGED pause
    /\ UNCHANGED <<version, window, winch, size, pos, prev, new, terminal, torn>>
------------------------------------------------------------------------------
(* The handlers *)

Ended == pc \in {"exit", "terminated"}

\* The user resizes the window, and the kernel sends SIGWINCH.
Resize ==
    /\ ~Ended /\ events < MaxEvents /\ events' = events + 1
    /\ window' \in Sizes \ {window} /\ winch' = TRUE
    /\ UNCHANGED <<version, pc, size, motion, pause, terminal, steered, torn>>

\* Mutant: the sprite stays where it is.
on_resize_in_place ==
    /\ winch /\ ~Ended /\ winch' = FALSE /\ size' = window
    /\ direction' = RIGHT /\ steered' = FALSE /\ torn' = (pc \in {"assign", "update"})
    /\ UNCHANGED <<version, pc, events, window, pos, prev, new, pause, terminal>>

\* In sprite_curses it calls initscr(), which has an effect the first time.
on_resize ==
    /\ winch /\ ~Ended /\ winch' = FALSE
    /\ size' = window
    /\ pos' = Start(window) /\ prev' = Start(window) /\ direction' = RIGHT
    /\ steered' = FALSE /\ torn' = (pc \in {"assign", "update"})
    /\ savedtty' = IF version = "curses" /\ savedtty = "zero" THEN term ELSE savedtty
    /\ UNCHANGED <<version, pc, events, window, new, pause, term, ws>>

\* Mutant: it is done at the end of main() only.
restore_tty_quit == term' = IF pc = "quit" THEN savedtty ELSE term

\* endwin() does nothing before initscr().
restore_tty == term' = IF version = "curses" /\ savedtty = "zero" THEN term ELSE savedtty

\* SIGINT or SIGQUIT, or main() at its end.  raise(SIGTERM) ends the program;
\* sprite_curses calls endwin() and returns.
cleanup ==
    /\ ~Ended
    /\ \/ /\ pc = "quit" /\ UNCHANGED events
          /\ pc' = IF version = "curses" THEN "exit" ELSE "terminated"
       \/ events < MaxEvents /\ events' = events + 1 /\ pc' = "terminated"
    /\ restore_tty
    /\ UNCHANGED <<version, window, winch, size, motion, pause, savedtty, ws, steered, torn>>

main == save_tty \/ init_terminal \/ get_window_size \/ setup_screen \/ ReadTurn \/ Turn \/ Draw
        \/ update_sprite \/ Paused \/ NoKey \/ Key
Next == main \/ Resize \/ on_resize \/ cleanup

Spec == Init /\ [][Next]_vars
------------------------------------------------------------------------------
(* Properties *)

Playing == pc \in {"turn", "assign", "draw", "update", "read"}

\* on_boundary(): left to itself the sprite stays in the window, out of the
\* menu's row, whatever sizes the window takes; it gets out only if a resize
\* comes between a direction's reading and its use, or if a turn in a corner
\* leads out: where a key has turned it, or in a window so low that it starts in
\* the bottom row.
StaysInWindow ==
    Playing /\ pos \notin Window(size) =>
        \/ torn \/ prev \notin Window(size)
        \/ prev \in Corners(size) /\ (steered \/ Start(size) \in Corners(size))

\* cleanup(): the settings the user had are back when the program ends, at
\* whatever point a signal ends it; but sprite.c, ended before it has saved
\* them, sets all of them to zero.
TerminalRestored ==
    Ended => term = IF savedtty = "zero" /\ version = "ansi" THEN "zero" ELSE "user"
==============================================================================
