------------------------------ MODULE MCV86Monitor ------------------------------
EXTENDS V86Monitor

CONSTANTS bios, user

\* One handler, in another segment.
Vectors == [v \in {16} |-> [seg |-> bios, off |-> 1]]
=============================================================================
