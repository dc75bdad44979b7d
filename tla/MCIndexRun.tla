---------------------------- MODULE MCIndexRun ----------------------------
EXTENDS IndexRun

CONSTANTS u1, u2, t, d

MCParts == <<1, 2>>
MCDetached == [u \in Users |-> IF u = u1 THEN BOOLEAN ELSE {FALSE}]
MCTree == [f \in Files |-> 1]
============================================================================
