------------------------------- MODULE MCGate -------------------------------
EXTENDS Gate

CONSTANTS t1, t2, a1, a2, b1, b2, c1, d1, d2

\* Two devices that met the same two people in opposite orders; one of the
\* people comes back through the second gate before the first one has told.
Whose == [s \in Scans |-> IF s \in {a1, b1, c1} THEN t1 ELSE t2]
SteppedOut == [s \in Scans |-> s = c1]
Batches == [d \in Devices |-> IF d = d1 THEN <<a1, a2>> ELSE <<c1, b2, b1>>]
=============================================================================
