---------------------------------- MODULE Apic ----------------------------------
(***************************************************************************)
(* The interrupt routing of apic.c: parse_madt sorts the entries of the    *)
(* MADT into lists, and apic_configure writes the redirection tables of    *)
(* the I/O APICs.  An I/O APIC has the pins gsi_base to gsi_base + max;    *)
(* an interrupt source override (ISO) says which pin an ISA interrupt      *)
(* comes in at.                                                            *)
(***************************************************************************)
EXTENDS Integers, Sequences, SequencesExt, FiniteSets, FiniteSetsExt

CONSTANTS Madts,         \* the tables the firmware may have
          IrqLines       \* the ISA interrupts, 16

VARIABLES
    madt,          \* the entries of the table
    at,            \* the entry parse_madt is at, 0 before and after
    lists,         \* madt_cpu, madt_iso, madt_ioapic and madt_nmi
    lapic_base,
    redirection    \* I/O APIC |-> pin |-> its entry, after configuration

apicVars == <<madt, at, lists, lapic_base, redirection>>

\* The entries by type, and the lists they go to.
Listed == [cpu |-> 0, ioapic |-> 1, iso |-> 2, nmi |-> 4]
LAPIC_OVERRIDE == 5

\* What firmware left on a pin: an entry that is masked or not.
Left(masked) == [irq |-> -1, low |-> FALSE, level |-> FALSE, masked |-> masked]

ApicInit ==
    /\ madt \in Madts /\ at = 1
    /\ lists = [l \in DOMAIN Listed |-> <<>>]
    /\ lapic_base = "table"
    /\ \E masked \in BOOLEAN :
           redirection = [k \in DOMAIN madt |->
               IF madt[k].type # Listed.ioapic THEN <<>>
               ELSE [gsi \in madt[k].gsi_base .. madt[k].gsi_base + madt[k].max |-> Left(masked)]]

-----------------------------------------------------------------------------

\* A node with the data is appended.
plist_add(list, data) == Append(list, data)

\* One round of the loop of parse_madt.  An entry of a list is its place in the
\* table.
parse_madt ==
    /\ at \in DOMAIN madt /\ at' = at + 1
    /\ lists' = [l \in DOMAIN lists |->
                    IF madt[at].type = Listed[l] THEN plist_add(lists[l], at) ELSE lists[l]]
    /\ lapic_base' = IF madt[at].type = LAPIC_OVERRIDE THEN "override" ELSE lapic_base
    /\ UNCHANGED <<madt, redirection>>

\* apic_get_gsi_max: the number of the last pin, from 0.
gsi_max(k) == madt[k].max

HasPin(k, gsi) == madt[k].gsi_base <= gsi /\ gsi <= gsi_max(k) + madt[k].gsi_base

\* The last I/O APIC of the list that has the pin.
apic_find_valid_ioapic(gsi) ==
    LET valid == SelectSeq(lists.ioapic, LAMBDA k : HasPin(k, gsi))
    IN IF valid = <<>> THEN 0 ELSE Last(valid)

\* A table is r; without an I/O APIC nothing is written.
mask_gsi(r, k, gsi) == [r EXCEPT ![k][gsi].masked = TRUE]

\* Bit 1 of the flags is taken for active low, bit 3 for level triggered.
redirect_gsi(r, k, irq, gsi, flags) ==
    IF k = 0 THEN r
    ELSE [r EXCEPT ![k][gsi] = [irq |-> irq, low |-> (flags \div 2) % 2 = 1,
                                level |-> (flags \div 8) % 2 = 1, masked |-> FALSE]]

\* The bound leaves out gsi_base: the last pin is never masked, and of the second
\* I/O APIC perhaps none.
Masked(r, k) == FoldLeft(LAMBDA t, gsi : mask_gsi(t, k, gsi), r,
                         [n \in 1 .. Max({0, gsi_max(k) - madt[k].gsi_base}) |->
                             madt[k].gsi_base + n - 1])

\* The overrides of one I/O APIC, in the order of the list.
Overridden(r, k) ==
    FoldLeft(LAMBDA t, e : IF HasPin(k, madt[e].gsi)
                           THEN redirect_gsi(t, k, madt[e].irq, madt[e].gsi, madt[e].flags) ELSE t,
             r, lists.iso)

\* Mutant: the ISA interrupt is marked, not the pin it comes in at.
mapped_irqs_ByIrq ==
    {madt[e].irq : e \in {f \in Range(lists.iso) : apic_find_valid_ioapic(madt[f].gsi) # 0}}

\* The pins below 16 that have an override.
mapped_irqs ==
    {madt[e].gsi : e \in {f \in Range(lists.iso) : apic_find_valid_ioapic(madt[f].gsi) # 0}}

apic_configure ==
    LET ioapics == FoldLeft(LAMBDA r, k : Overridden(Masked(r, k), k), redirection, lists.ioapic)
        rest == SetToSortSeq((0 .. IrqLines - 1) \ mapped_irqs, <)
    IN /\ at > Len(madt) /\ at' = 0
       /\ redirection' = FoldLeft(LAMBDA r, i : redirect_gsi(r, apic_find_valid_ioapic(i), i, i, 0),
                                  ioapics, rest)
       /\ UNCHANGED <<madt, lists, lapic_base>>

ApicNext == parse_madt \/ apic_configure

ApicSpec == ApicInit /\ [][ApicNext]_apicVars

-----------------------------------------------------------------------------

Overrides(gsi) == {k \in DOMAIN madt : madt[k].type = Listed.iso /\ madt[k].gsi = gsi}

\* What the flags of an override mean: the polarity is in bits 0 and 1, the
\* trigger mode in bits 2 and 3, each 0 for the bus, 1, or 3 for low and level.
Means(e, o) == /\ e.irq = o.irq /\ ~e.masked
               /\ e.low = (o.flags % 4 = 3) /\ e.level = ((o.flags \div 4) % 4 = 3)

\* After apic_configure every pin delivers what the MADT says: with an override,
\* the interrupt and the flags of the last one for the pin; without, the
\* interrupt of the same number; and a pin above the ISA interrupts delivers
\* nothing.  Only a pin that the masking loop missed is as the firmware left it.
\* So a pin with an override does not also deliver the interrupt of its number.
RoutesRight ==
    at = 0 =>
        \A k \in Range(lists.ioapic) : \A gsi \in DOMAIN redirection[k] :
            LET e == redirection[k][gsi]
                o == Overrides(gsi)
            IN CASE o # {} -> Means(e, madt[Max(o)])
                 [] o = {} /\ gsi < IrqLines -> Means(e, [irq |-> gsi, flags |-> 0])
                 [] OTHER -> e.irq = -1 /\ (gsi < madt[k].max => e.masked)
=============================================================================
