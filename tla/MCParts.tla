-------------------------------- MODULE MCParts --------------------------------
(***************************************************************************)
(* Three parts of the kernel that do not touch one another, side by side:  *)
(* the lists, the console and the interrupt routing.  One of them runs,    *)
(* the others stay as they were.                                           *)
(***************************************************************************)
EXTENDS Llist, Console, Apic

VARIABLE part

allVars == <<vars, consoleVars, apicVars, part>>

-----------------------------------------------------------------------------
(* The console: text and graphic screens of a few lines.                   *)

Char(c) == <<[char |-> c]>>
Argument(conv, arg, sym, padRight, num) ==
    <<[conv |-> conv, arg |-> arg, sym |-> sym, padRight |-> padRight, num |-> num]>>

\* %d of -1; %04x; %-12s and %3u; %s of a null pointer and %c.
MCMessages ==
    {Char("A") \o Char("LF"),
     Char("=") \o Argument("d", -1, " ", FALSE, 0) \o Char("LF"),
     Argument("x", 26, "0", FALSE, 4),
     Argument("s", << <<"h", "i">> >>, " ", TRUE, 12) \o Argument("u", 7, " ", FALSE, 3),
     Argument("s", <<>>, " ", FALSE, 0) \o Argument("c", "Z", " ", FALSE, 0) \o Char("LF")}

MCTextMessages == {Char("TAB") \o Char("B") \o Char("CR"), Char("BS") \o Char("C")}

MCEarlyModes == {[text |-> TRUE, width |-> 6, height |-> 4],
                 [text |-> FALSE, width |-> 8, height |-> 17]}

Mode(width, height, bpp) ==
    [ok |-> TRUE, linear |-> TRUE, model |-> 6, width |-> width, height |-> height, bpp |-> bpp]

\* Two modes of the same width, and one that is not kept; a mode that is too low
\* for the cursor; none.
MCReported ==
    {<<Mode(15, 12, 32), [Mode(20, 16, 32) EXCEPT !.model = 0], Mode(15, 16, 24)>>,
     <<Mode(13, 14, 32)>>,
     <<>>}

-----------------------------------------------------------------------------
(* The routing: up to two I/O APICs, of four and three pins, and overrides *)
(* to a pin of the ISA interrupts, to the pin of the same number, twice to *)
(* one pin, and to a pin of the second I/O APIC.                           *)

IoApics == {[type |-> 1, gsi_base |-> 0, max |-> 3], [type |-> 1, gsi_base |-> 4, max |-> 2]}

Override(irq, gsi, flags) == [type |-> 2, irq |-> irq, gsi |-> gsi, flags |-> flags]

MCMadts ==
    LET entries == IoApics \cup {Override(0, 2, 0), Override(1, 1, 15), Override(1, 2, 5),
                                 Override(2, 5, 13)} \cup {[type |-> t] : t \in {0, 3, 4, 5}}
    IN {m \in UNION {[1 .. n -> entries] : n \in 1 .. 4} :
           \A i, j \in DOMAIN m : m[i] = m[j] /\ m[i] \in IoApics => i = j}

-----------------------------------------------------------------------------

MCInit ==
    /\ part \in {"lists", "console", "routing"}
    /\ Init
    /\ IF part = "console" THEN ConsoleInit
       ELSE ConsoleInit /\ current_mode = CHOOSE m \in EarlyModes : TRUE
    /\ IF part = "routing" THEN ApicInit
       ELSE madt = <<>> /\ at = 0 /\ lists = [l \in DOMAIN Listed |-> <<>>]
            /\ lapic_base = "table" /\ redirection = <<>>

MCNext ==
    \/ part = "lists" /\ Next /\ UNCHANGED <<consoleVars, apicVars, part>>
    \/ part = "console" /\ ConsoleNext /\ UNCHANGED <<vars, apicVars, part>>
    \/ part = "routing" /\ ApicNext /\ UNCHANGED <<vars, consoleVars, part>>

MCSpec == MCInit /\ [][MCNext]_allVars
=============================================================================
