---------------------------- MODULE MCNotesFold ----------------------------
(* Every sequence of up to MaxLines lines of a small universe. *)
EXTENDS NotesReader

Rec(e, c, i, s, st, v, inv, sup, t) ==
  [ent |-> e, created |-> c, id |-> i, src |-> s, status |-> st,
   valid |-> v, invalid |-> inv, sup |-> sup, tags |-> t]

\* Copies of entity 1 that tie on created, then on id, then on src, and carry
\* different successors; one valid from a later time than it was recorded; a
\* state update; and copies of a second entity.
MCUniverse ==
  {Rec(1, c, i, 0, "active", Absent, Absent, sup, {}) : c \in 1 .. 2, i \in 1 .. 2, sup \in 0 .. 2}
  \cup {Rec(1, c, 2, 1, "archived", Absent, c + 1, Absent, {"t"}) : c \in 1 .. 2}
  \cup {Rec(1, 1, 1, 0, "active", 2, Absent, Absent, {}),
        Rec(2, 1, 1, 0, "active", Absent, Absent, Absent, {"u"}),
        Rec(2, 2, 2, 0, "archived", 3, 2, 1, {})}
=============================================================================
