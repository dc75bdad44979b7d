---------------------------- MODULE MCNotesImport ----------------------------
(* One entry, recorded here and elsewhere on commit k1, which may be merged   *)
(* into HEAD later, and the archive of that entry.                            *)
EXTENDS NotesImport

CONSTANTS r1, r2, k1

MCEntry == {[at |-> k1, ent |-> 1, status |-> "active"]}
MCArchive == MCEntry \cup {[at |-> k1, ent |-> 1, status |-> "archived"]}
MCNone == {}
==============================================================================
