------------------------------- MODULE MCSmpBoot -------------------------------
EXTENDS SmpBoot

CONSTANTS a, b, c, d

\* The bootstrap processor is second in the table; d is disabled.
Table == <<a, b, d, c>>
Enabled == {a, b, c}
=============================================================================
