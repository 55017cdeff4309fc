-------------------------------- MODULE Console --------------------------------
(***************************************************************************)
(* What kprintf puts on the screen: _vprintf of stdio.c with the number    *)
(* conversion of string.c, the cursor and the scrolling of early_screen.c, *)
(* and the frame buffer and video modes of vesa.c.                         *)
(*                                                                         *)
(* The frame buffer holds, per cell in text mode and per pixel in graphic  *)
(* mode, the character that was drawn there, "blank", or "old" for what    *)
(* the boot loader left.  A mode is its type, width, height and depth.     *)
(***************************************************************************)
EXTENDS Integers, Sequences, SequencesExt, FiniteSets, FiniteSetsExt

CONSTANTS WordSize,      \* 2^32
          FontWidth, FontHeight,
          EarlyModes,    \* the modes the boot loader may leave
          Reported,      \* the lists of modes the BIOS may report
          Messages,      \* what is printed: sequences of characters and fields
          TextMessages,  \* more of them, in text mode only: with tabs and backspaces
          Prints         \* bound on the messages

VARIABLES
    phase,         \* how far the display is set up
    current_mode,
    vesa_modes,    \* the list, the mode reported last at the front
    screen,        \* cursor, frame buffer, and a character drawn outside of it
    page,          \* history: what was printed in this mode, as on endless paper
    lost,          \* history: the cursor came from a larger mode
    pending,       \* the rest of the message, and history: of the text it should be
    printed        \* the number of messages

consoleVars == <<phase, current_mode, vesa_modes, screen, page, lost, pending, printed>>

-----------------------------------------------------------------------------
(* _vprintf.  A format is a sequence of characters.                        *)

Digits == <<"0", "1", "2", "3", "4", "5", "6", "7", "8", "9", "a", "b", "c", "d", "e", "f">>
Value(c) == CHOOSE n \in 0 .. 15 : Digits[n + 1] = c
WidthDigits == {Digits[n] : n \in 2 .. 10}

\* Numbers are divided as unsigned ones: no sign is ever printed.
RECURSIVE vtoa(_, _)
vtoa(n, base) ==
    IF n < base THEN <<Digits[n + 1]>> ELSE Append(vtoa(n \div base, base), Digits[(n % base) + 1])

Unsigned(n) == n % WordSize

Conversion(c, arg) ==
    CASE c \in {"d", "u"} -> vtoa(Unsigned(arg), 10)
      [] c = "x"          -> vtoa(Unsigned(arg), 16)
      [] c = "s"          -> IF arg = <<>> THEN <<"(", "n", "u", "l", "l", ")">> ELSE arg[1]
      [] OTHER            -> <<arg>>

\* The fill characters, and on which side.
Filled(text, d) ==
    LET fill == [i \in 1 .. Max({0, d.num - Len(text)}) |-> d.sym]
    IN IF d.padRight THEN text \o fill ELSE fill \o text

\* The directive that starts behind a '%', at f[i].
Directive(f, i) ==
    LET a == IF f[i] \in {"0", " ", "."} THEN i + 1 ELSE i
        b == IF f[a] = "-" THEN a + 1 ELSE a
        e == Min({k \in b .. Len(f) : f[k] \notin WidthDigits})
    IN [sym |-> IF a > i THEN f[i] ELSE " ", padRight |-> b > a,
        num |-> FoldLeft(LAMBDA n, c : 10 * n + Value(c), 0, SubSeq(f, b, e - 1)),
        conv |-> f[e], at |-> e]

RECURSIVE vprintf(_, _, _)
vprintf(f, i, args) ==
    IF i > Len(f) THEN <<>>
    ELSE IF f[i] # "%" THEN <<f[i]>> \o vprintf(f, i + 1, args)
    ELSE LET d == Directive(f, i + 1)
             text == Conversion(d.conv, Head(args))
         IN (IF d.conv \in {"d", "u", "x", "s"} THEN Filled(text, d) ELSE text)
                \o vprintf(f, d.at + 1, Tail(args))

-----------------------------------------------------------------------------
(* The frame buffer.                                                       *)

\* The size of a symbol with the space around it, and of what is drawn of it.
symbol(m) == IF m.text THEN [x |-> 1, y |-> 1] ELSE [x |-> FontWidth + 2, y |-> FontHeight + 2]
glyph(m) == IF m.text THEN [x |-> 1, y |-> 1] ELSE [x |-> FontWidth, y |-> FontHeight]

fb_size(m) == m.width * m.height

\* vesa_putc at a position.
vesa_putc(m, s, x, y, c) ==
    LET drawn == {(y + iy) * m.width + x + ix :
                     ix \in 0 .. glyph(m).x - 1, iy \in 0 .. glyph(m).y - 1}
    IN IF Max(drawn) >= fb_size(m) THEN [s EXCEPT !.outside = TRUE]
       ELSE [s EXCEPT !.fb = [i \in DOMAIN @ |-> IF i \in drawn THEN c ELSE @[i]]]

\* One entry in eight of the rows at the bottom is cleared, then all move up.
vesa_scroll(m, s) ==
    LET shift == symbol(m).y * m.width
        delta == fb_size(m) - shift
        cleared == [i \in DOMAIN s.fb |->
                       IF i >= delta /\ (i - delta) % 8 = 0 THEN "blank" ELSE s.fb[i]]
    IN [s EXCEPT !.fb = [i \in DOMAIN @ |-> IF i < delta THEN cleared[i + shift] ELSE cleared[i]]]

\* Mutant: the cursor stays where it is.
screen_scroll_Stays(m, s) ==
    IF s.y >= m.height - symbol(m).y THEN vesa_scroll(m, s) ELSE s

screen_scroll(m, s) ==
    IF s.y >= m.height - symbol(m).y
    THEN [vesa_scroll(m, s) EXCEPT !.y = @ - symbol(m).y]
    ELSE s

\* The tab stops are at every fourth position, in graphic mode of pixels.
screen_putc(m, s, c) ==
    LET back == [s EXCEPT !.x = Unsigned(@ - symbol(m).x)]
        moved ==
            CASE c = "BS" -> IF s.x = 0 THEN s ELSE vesa_putc(m, back, back.x, back.y, " ")
              [] c = "TAB" -> [s EXCEPT !.x = @ + (4 - (@ % 4))]
              [] c = "LF" -> [s EXCEPT !.x = 0, !.y = @ + symbol(m).y]
              [] c = "CR" -> [s EXCEPT !.x = 0]
              [] OTHER    -> [vesa_putc(m, s, s.x, s.y, c) EXCEPT !.x = @ + symbol(m).x]
    IN screen_scroll(m, IF moved.x >= m.width
                        THEN [moved EXCEPT !.x = 0, !.y = @ + symbol(m).y] ELSE moved)

-----------------------------------------------------------------------------
(* The modes.                                                              *)

\* The modes vesa_init keeps: linear graphic modes of the memory models 4 and 6.
Kept(r) == r.ok /\ r.linear /\ r.model \in {4, 6}

Better(m, n) ==
    \/ m.width > n.width
    \/ m.width = n.width /\ m.height > n.height
    \/ m.width = n.width /\ m.height = n.height /\ m.bpp > n.bpp

BestMode(list) ==
    FoldLeft(LAMBDA best, m : IF Better(m, best) THEN m ELSE best, Head(list), list)

\* The reference for the above: endless paper, on which nothing scrolls.  A
\* character that was printed is at the line and the x of the cursor; cut tells
\* that one did not fit between the cursor and the right edge.
PagePut(m, p, c) ==
    LET At(x) == {g \in p.glyphs : g.line = p.line /\ g.x = x}
        Put(x, d) == (p.glyphs \ At(x)) \cup {[line |-> p.line, x |-> x, c |-> d]}
        moved ==
            CASE c = "BS" -> IF p.x = 0 THEN p
                             ELSE [p EXCEPT !.x = @ - symbol(m).x,
                                            !.glyphs = Put(p.x - symbol(m).x, " ")]
              [] c = "TAB" -> [p EXCEPT !.x = @ + (4 - (@ % 4))]
              [] c = "LF" -> [p EXCEPT !.x = 0, !.line = @ + 1]
              [] c = "CR" -> [p EXCEPT !.x = 0]
              [] OTHER    -> [p EXCEPT !.x = @ + symbol(m).x, !.glyphs = Put(p.x, c),
                                    !.cut = @ \/ p.x + glyph(m).x > m.width]
    IN IF moved.x >= m.width THEN [moved EXCEPT !.x = 0, !.line = @ + 1] ELSE moved

\* The text a message should give: a field is filled on one side to its width.
Field(d) == Filled(Conversion(d.conv, d.arg), d)
Text(msg) == FlattenSeq([k \in DOMAIN msg |-> IF "conv" \in DOMAIN msg[k] THEN Field(msg[k])
                                                                          ELSE <<msg[k].char>>])

\* How it is written in C.
Format(msg) ==
    FlattenSeq([k \in DOMAIN msg |->
        IF "conv" \in DOMAIN msg[k]
        THEN <<"%">> \o (IF msg[k].sym = " " THEN <<>> ELSE <<msg[k].sym>>)
                     \o (IF msg[k].padRight THEN <<"-">> ELSE <<>>)
                     \o (IF msg[k].num = 0 THEN <<>> ELSE vtoa(msg[k].num, 10)) \o <<msg[k].conv>>
        ELSE <<msg[k].char>>])
Args(msg) ==
    LET fields == SelectSeq(msg, LAMBDA e : "conv" \in DOMAIN e)
    IN [k \in DOMAIN fields |-> fields[k].arg]

-----------------------------------------------------------------------------

Blank(m, what) == [i \in 0 .. fb_size(m) - 1 |-> what]

\* vesa_init_early.
ConsoleInit ==
    /\ phase = "off" /\ vesa_modes = <<>> /\ lost = FALSE /\ printed = 0
    /\ current_mode \in EarlyModes
    /\ screen = [x |-> 0, y |-> 0, fb |-> Blank(current_mode, "old"), outside |-> FALSE]
    /\ pending = [out |-> <<>>, text |-> <<>>]
    /\ page = [x |-> 0, line |-> 0, glyphs |-> {}, cut |-> FALSE]

screen_init ==
    /\ phase = "off" /\ phase' = "early"
    /\ screen' = [screen EXCEPT !.x = 0, !.y = 0]
    /\ UNCHANGED <<current_mode, vesa_modes, page, lost, pending, printed>>

\* A caller gets kprintf_lock.  Without a _global_putchar nothing happens.
kprintf(msg) ==
    /\ printed < Prints /\ printed' = printed + 1
    /\ pending.out = <<>> /\ ~screen.outside
    /\ pending' = IF phase = "off" THEN pending
                  ELSE [out |-> vprintf(Format(msg), 1, Args(msg)), text |-> Text(msg)]
    /\ UNCHANGED <<phase, current_mode, vesa_modes, screen, page, lost>>

\* Lines that have scrolled out are forgotten.
Visible(p, m, y) ==
    [p EXCEPT !.glyphs = {g \in @ : y - (p.line - g.line) * symbol(m).y + glyph(m).y > 0}]

putchar ==
    /\ pending.out # <<>> /\ ~screen.outside
    /\ screen' = screen_putc(current_mode, screen, Head(pending.out))
    /\ page' = IF pending.text = <<>> THEN page
               ELSE Visible(PagePut(current_mode, page, Head(pending.text)), current_mode, screen'.y)
    /\ pending' = [out |-> Tail(pending.out),
                   text |-> IF pending.text = <<>> THEN <<>> ELSE Tail(pending.text)]
    /\ UNCHANGED <<phase, current_mode, vesa_modes, lost, printed>>

\* The kernel thread; each mode kept is put in front of the list.
vesa_init ==
    /\ phase = "early" /\ phase' = "modes"
    /\ \E r \in Reported : vesa_modes' = Reverse(SelectSeq(r, Kept))
    /\ UNCHANGED <<current_mode, screen, page, lost, pending, printed>>

\* vesa_set_mode of the best mode.  The BIOS clears the screen; the cursor stays.
\* The thread that calls it is the one that prints: no message is in progress.
vesa_switch_to_best_mode ==
    /\ phase = "modes" /\ phase' = "best" /\ pending.out = <<>>
    /\ \/ vesa_modes # <<>>
          /\ LET r == BestMode(vesa_modes)
                 m == [text |-> FALSE, width |-> r.width, height |-> r.height]
             IN /\ current_mode' = m
                /\ screen' = [screen EXCEPT !.fb = Blank(m, "blank")]
                /\ page' = [x |-> screen.x, line |-> 0, glyphs |-> {}, cut |-> FALSE]
                /\ lost' = (screen.x >= m.width \/ screen.y >= m.height - symbol(m).y)
       \/ UNCHANGED <<current_mode, screen, page, lost>>    \* no mode, or refused
    /\ UNCHANGED <<vesa_modes, pending, printed>>

ConsoleNext ==
    \/ screen_init
    \/ \E msg \in Messages \cup (IF current_mode.text THEN TextMessages ELSE {}) : kprintf(msg)
    \/ putchar
    \/ vesa_init
    \/ vesa_switch_to_best_mode

ConsoleSpec == ConsoleInit /\ [][ConsoleNext]_consoleVars

-----------------------------------------------------------------------------

\* Where line n of the page is, in pixels; lines that scrolled out are above 0.
Row(n) == screen.y - (page.line - n) * symbol(current_mode).y

\* No character was cut off at the right edge, and the rows cleared by scrolling
\* begin below the lowest line.
Legible ==
    LET m == current_mode
        step == symbol(m).y
        free == m.height - step
    IN /\ ~page.cut
       /\ \A y \in 0 .. free - 1 : y % step = screen.y % step => y + glyph(m).y <= free

\* The screen shows the last lines of what was printed, every field filled to its
\* width, each character whole and in its place, and nothing else; the cursor is
\* where the text ends, and no character is ever drawn outside the frame buffer.
\* This holds unless the cursor was carried over from a larger mode; the picture,
\* unless the size of the mode lets characters be cut off or cleared.
ScreenShowsText ==
    LET m == current_mode
        Covers(g, x, y) == /\ x \in g.x .. g.x + glyph(m).x - 1
                           /\ y \in Row(g.line) .. Row(g.line) + glyph(m).y - 1
    IN ~lost =>
        /\ ~screen.outside /\ pending.out = pending.text
        /\ screen.x = page.x /\ screen.x < m.width /\ screen.y < m.height - symbol(m).y
        /\ Legible => \A x \in 0 .. m.width - 1, y \in 0 .. m.height - 1 :
               LET on == {g \in page.glyphs : Covers(g, x, y)}
                   shown == screen.fb[y * m.width + x]
               IN IF on = {} THEN shown \in {"blank", "old"} ELSE \A g \in on : shown = g.c
=============================================================================
