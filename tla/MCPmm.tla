--------------------------------- MODULE MCPmm ---------------------------------
(***************************************************************************)
(* Instances of Pmm: an address space of 64 pages of 4 bytes, of which     *)
(* find_free_page looks at the first 7.                                    *)
(***************************************************************************)
EXTENDS Pmm

Entry(addr, len, available) == [addr |-> addr, len |-> len, available |-> available]

\* Low memory, then a hole, then RAM; page boundaries hit and missed.
PcMap == <<Entry(0, 3, TRUE), Entry(3, 1, FALSE), Entry(4, 23, TRUE), Entry(27, 5, FALSE)>>

\* Two blocks of RAM with a reserved page between them, and RAM beyond the
\* pages the search looks at.
HoleMap == <<Entry(0, 4, TRUE), Entry(4, 12, TRUE), Entry(16, 4, FALSE), Entry(20, 40, TRUE)>>

\* One region from address 0: below LowMemory, so nothing of it is used.
FlatMap == <<Entry(0, 64, TRUE)>>

MapSet == {PcMap, HoleMap, FlatMap}

SizeSet == {0, 1, 4, 5, 9, 255}
=============================================================================
