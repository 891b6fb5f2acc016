------------------------------- MODULE MCFleet -------------------------------
EXTENDS Fleet
CONSTANTS c1, c2
\* c1 is configured to lead before c2.
Priorities == [c \in Controller |-> IF c = c1 THEN 1 ELSE 2]
=============================================================================
