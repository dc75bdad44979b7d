---------------------------- MODULE MCMemorySync ----------------------------
(* Two clients of one server. *)
EXTENDS MemorySync, TLC

CONSTANTS a, b, e1, e2

\* Both clients record e1, independently of each other; only b records e2.
MCRecorders == [e \in Contents |-> IF e = e1 THEN {a, b} ELSE {b}]

\* Each client records an entry of its own.
MCApart == [e \in Contents |-> IF e = e1 THEN {a} ELSE {b}]

\* a pushes and pulls, b runs spelunk sync.
MCCommands == [c \in Clients |-> IF c = a THEN {"push", "pull"} ELSE {"sync"}]
=============================================================================
