---------------------------- MODULE MCNotesView ----------------------------
(* One process per clone; l1 and l2 are copies of one entry recorded on two *)
(* machines, l3 archives it.                                                *)
EXTENDS NotesView, TLC

CONSTANTS c1, c2, p1, p3, k1, k2, l1, l2, l3

MCCloneOf == (p1 :> c1) @@ (p3 :> c2)
MCCommitPos == (k1 :> 1) @@ (k2 :> 2)
MCLinePos == (l1 :> 1) @@ (l2 :> 2) @@ (l3 :> 3)
MCOriginal == [l \in Lines |-> IF l = l3 THEN l1 ELSE l]

Rec(id, created, status, valid, inv, sup, tags) ==
  [ent |-> 1, created |-> created, id |-> id, src |-> Absent, status |-> status,
   valid |-> valid, invalid |-> inv, sup |-> sup, tags |-> tags]

\* The update is stamped no earlier than the entry it is about.
MCRecord ==
  (l1 :> Rec(1, 2, "active", Absent, Absent, Absent, {}))
  @@ (l2 :> Rec(2, 1, "active", 2, Absent, Absent, {1}))
  @@ (l3 :> Rec(3, 2, "archived", Absent, 3, 2, {}))
=============================================================================
