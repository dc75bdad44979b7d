----------------------------- MODULE MCGitNotes -----------------------------
(* Two clones; two processes share clone c1, so the lock is contended. *)
EXTENDS GitNotes

CONSTANTS c1, c2, p1, p2, p3, l1, l2, l3

MCCloneOf == [p \in Procs |-> IF p = p3 THEN c2 ELSE c1]
MCOriginal == [l \in Lines |-> IF l = l3 THEN l1 ELSE l]
=============================================================================
