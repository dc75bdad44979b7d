--------------------------- MODULE MCMemoryRelay ----------------------------
(* Stores that use the relay, next to a teammate. *)
EXTENDS MemoryRelay

CONSTANTS a, b, e1, e2

\* a records e1; its teammate b records e2.
MCApart == [e \in Contents |-> IF e = e1 THEN {a} ELSE {b}]

\* The same, but a records e2 as well.
MCShared == [e \in Contents |-> IF e = e1 THEN {a} ELSE {a, b}]

\* Nobody runs a sync command by hand.
MCNone == [c \in Clients |-> {}]
=============================================================================
