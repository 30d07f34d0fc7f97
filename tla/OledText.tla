----------------------------- MODULE OledText -----------------------------
(***************************************************************************)
(* The display: oled_show_status of applications/data.c over               *)
(* OLED_ShowString of drivers/oled.c, and oledSetup.                       *)
(*                                                                         *)
(* cpu_status_thread draws five texts in turn; their values, and so their  *)
(* widths, are changed by the other status threads at any time.  A text is *)
(* its length; a character on the display is a glyph at a place, and a     *)
(* glyph that a later one overlaps is gone.  main sets the display up when *)
(* that thread runs already, on the same bus and in the same OLED_GRAM.    *)
(***************************************************************************)
EXTENDS Integers

VARIABLES
    Widths,     \* [Numbers -> lengths they are printed with]
    display,    \* a display is on the bus
    gram,       \* OLED_GRAM: the glyphs drawn
    screen,     \* what the display shows
    turn,       \* the text oled_show_status draws next
    drawn,      \* [Lines -> length of the text as last drawn, 0: never]
    unsent,     \* is it drawn and not yet sent to the display
    main,       \* where main is in oledSetup
    fd,         \* the display is open
    configured, \* every command of oledSetup has reached the display as sent
    after       \* history: the round of texts began after oledSetup was over

oled_vars ==
    <<Widths, display, gram, screen, turn, drawn, unsent, main, fd, configured, after>>

\* The address, usages with %0.1f, the memory size in Mb, the disk size in G
\* and the net speed with %0.1f.
Numbers == {"ip", "usage", "mem", "disk", "speed"}

Lines == 1 .. 5  \* IP, Mem, Disk, CPU, net speed
Width == 128
Height == 64
Size == 12       \* the font oled_show_status asks for
Half == Size \div 2

\* Where the five texts start.
Left(l) == IF l = 5 THEN 70 ELSE 0
Top(l) == IF l = 5 THEN 48 ELSE (l - 1) * 16

\* The lengths sprintf may produce for a text: its fixed characters and its
\* numbers ("IP  %s", "Mem: %0.1f%% of %d Mb", "Disk: %0.1f%% of %0.1f G",
\* "CPU: %0.1f%%", "%0.1f kb/s" or "%0.1f Mb/s").
Lengths(l) ==
    << {4 + w : w \in Widths["ip"]},
       {13 + u + w : u \in Widths["usage"], w \in Widths["mem"]},
       {13 + u + w : u \in Widths["usage"], w \in Widths["disk"]},
       {6 + u : u \in Widths["usage"]},
       {5 + w : w \in Widths["speed"]} >>[l]

Glyph(x, y, l, i, n) == [x |-> x, y |-> y, line |-> l, at |-> i, of |-> n]

Apart(g, x, y) ==
    \/ g.x + Half <= x \/ x + Half <= g.x
    \/ g.y + Size <= y \/ y + Size <= g.y

\* Every point of the Half by Size box is set or cleared.
OLED_ShowChar(glyphs, x, y, l, i, n) ==
    {g \in glyphs : Apart(g, x, y)} \cup {Glyph(x, y, l, i, n)}

\* Mutant: the bound of the line counts a character's height as its width.
Wraps_Wide(x) == x > Width - Size

\* The line is full.
Wraps(x) == x > Width - Half

\* The display is full.
Overflows(y) == y > Height - Size

\* OLED_ShowString's loop after i of the n characters of text l: the cursor
\* and the glyphs.
ShowString(glyphs, l, n) ==
    LET loop[i \in 0 .. n] ==
          IF i = 0 THEN [x |-> Left(l), y |-> Top(l), glyphs |-> glyphs]
          ELSE LET s == loop[i - 1]
                   x1 == IF Wraps(s.x) THEN 0 ELSE s.x
                   y1 == IF Wraps(s.x) THEN s.y + Size ELSE s.y
                   x2 == IF Overflows(y1) THEN 0 ELSE x1
                   y2 == IF Overflows(y1) THEN 0 ELSE y1
                   kept == IF Overflows(y1) THEN {} ELSE s.glyphs
               IN  [x |-> x2 + Half, y |-> y2,
                    glyphs |-> OLED_ShowChar(kept, x2, y2, l, i, n)]
    IN  loop[n].glyphs

----------------------------------------------------------------------------
Oled_Init ==
    /\ gram = {} /\ screen = {}
    /\ turn = 1 /\ drawn = [l \in Lines |-> 0] /\ unsent = FALSE
    /\ main = "open" /\ fd = FALSE /\ configured = FALSE
    /\ after = FALSE

\* One sprintf and the loop of OLED_ShowString.
Draw(l) ==
    /\ turn = l /\ ~unsent
    /\ \E n \in Lengths(l) :
          /\ gram' = ShowString(gram, l, n)
          /\ drawn' = [drawn EXCEPT ![l] = n]
    /\ unsent' = TRUE
    /\ after' = IF l = 1 THEN main = "over" ELSE after
    /\ UNCHANGED <<Widths, display, screen, turn, main, fd, configured>>

\* What the display shows when one thread sends it the glyphs: the bytes of
\* two that send at the same time end up in places of each other.
Shows(glyphs, alone) ==
    IF ~fd THEN {screen} ELSE IF alone THEN {glyphs} ELSE {glyphs, {}}

\* OLED_Refresh_Gram of cpu_status_thread.  Its commands may be taken for the
\* argument of one of oledSetup's.
Refresh ==
    /\ unsent /\ unsent' = FALSE
    /\ screen' \in Shows(gram, main \notin {"argument", "refresh"})
    /\ configured' = (configured /\ main # "argument")
    /\ turn' = (turn % 5) + 1
    /\ UNCHANGED <<Widths, display, gram, drawn, main, fd, after>>

Main(from, to) == main = from /\ main' = to

\* oledSetup opens the display, or fails: nobody looks at what it returns.
oledSetup ==
    /\ Main("open", IF display THEN "command" ELSE "over")
    /\ fd' = display /\ configured' = display
    /\ UNCHANGED <<Widths, display, gram, screen, turn, drawn, unsent, after>>

\* It sends commands, most of them with an argument.
OLED_WR_Byte ==
    /\ Main("command", "argument") \/ Main("argument", "command")
    /\ UNCHANGED <<Widths, display, gram, screen, turn, drawn, unsent, fd, configured, after>>

\* OLED_Clear: memory, then the display.
OLED_Clear ==
    /\ Main("command", "refresh")
    /\ gram' = {}
    /\ UNCHANGED <<Widths, display, screen, turn, drawn, unsent, fd, configured, after>>

Setup_Refresh ==
    /\ Main("refresh", "over")
    /\ screen' \in {gram, {}}
    /\ UNCHANGED <<Widths, display, gram, turn, drawn, unsent, fd, configured, after>>

main_thread == oledSetup \/ OLED_WR_Byte \/ OLED_Clear \/ Setup_Refresh

----------------------------------------------------------------------------
(* Properties *)

\* oled_show_status (data.c:154): a round of it that began after oledSetup was
\* over, whose commands were not torn, and whose five texts fitted their lines,
\* is on the display whole, in the places of the lines and in reading order: no
\* earlier round and nothing drawn during oledSetup has left anything in its
\* way, and no text wipes another one's.
Fits(l) == Left(l) + drawn[l] * Half <= Width
Shown(l) ==
    \A i \in 1 .. drawn[l] :
        Glyph(Left(l) + (i - 1) * Half, Top(l), l, i, drawn[l]) \in screen
StatusShown ==
    turn = 1 /\ ~unsent /\ after /\ configured /\ (\A l \in Lines : Fits(l))
        => \A l \in Lines : Shown(l)
============================================================================
