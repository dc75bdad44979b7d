----------------------------- MODULE NotesReader -----------------------------
(***************************************************************************)
(* A reader of the notes ref: it has read some lines, in the order in      *)
(* which git lists commits and notes, and what it shows is their fold.     *)
(* The properties compare NotesFold with what the copies of an entity mean *)
(* as a set.                                                               *)
(***************************************************************************)
EXTENDS NotesFold

CONSTANTS
  Universe,        \* the records that lines of the ref may hold
  CommitIds,       \* positions of the noted commits in git log order
  Limits,          \* page sizes a listing may be asked for
  Moments,         \* points in time a listing may be asked for
  MaxLines         \* bound: lines read

ASSUME ReaderAssumption ==
  /\ Universe \subseteq NoteRecord
  /\ CommitIds \subseteq Nat
  /\ Limits \subseteq Nat
  /\ Moments \subseteq Nat \ {Absent}
  /\ MaxLines \in Nat

VARIABLE read            \* records_with_commit: the lines read so far

ReadInit == read = <<>>

\* One more line, of the commit being read or of a later one.
ReadLine ==
  /\ Len(read) < MaxLines
  /\ \E k \in CommitIds, r \in Universe :
       /\ \A i \in DOMAIN read : read[i].commit =< k
       /\ read' = Append(read, [commit |-> k, rec |-> r])

ReadSpec == ReadInit /\ [][ReadLine]_read

Records == [i \in DOMAIN read |-> read[i].rec]
Copies(e) == {r \in {Records[i] : i \in DOMAIN Records} : r.ent = e}
Entities == {Records[i].ent : i \in DOMAIN Records}

-----------------------------------------------------------------------------
\* The reference: what one entity's copies mean, as a set.
MinPresent(S) == IF S \ {Absent} = {} THEN Absent ELSE Min(S \ {Absent})
IsBase(r, S) == \A s \in S : ~KeyLess(s, r)
Reference(S) ==
  LET base == CHOOSE r \in S : IsBase(r, S)
      latest == {r \in S : r.sup # Absent /\ \A s \in S : s.sup # Absent => s.created =< r.created}
      first == {r \in latest : IsBase(r, latest)}
  IN  [base EXCEPT !.status = IF \E r \in S : r.status = "archived" THEN "archived" ELSE "active",
                   !.valid = MinPresent({r.valid : r \in S}),
                   !.invalid = MinPresent({r.invalid : r \in S}),
                   !.tags = UNION {r.tags : r \in S},
                   !.sup = MinPresent({r.sup : r \in first})]

\* fold_records depends only on which copies were read, never on their order
\* or multiplicity: every machine holding the same lines shows the same entry,
\* with the successor of the most recent write (fold.rs, ADR-068 A6 and E5).
FoldIsConvergent ==
  LET folded == FoldRecords(Records)
  IN  /\ {folded[i].ent : i \in DOMAIN folded} = Entities
      /\ Len(folded) = Cardinality(Entities)
      /\ \A i \in DOMAIN folded : folded[i] = Reference(Copies(folded[i].ent))

\* An entity with an archived copy anywhere is never listed as current, and
\* the limit keeps the newest entries: folding before filtering and truncating
\* is what stops an older active copy from resurrecting the entity (collect).
NoResurrection ==
  \A limit \in Limits :
    LET shown == Collect(Records, FALSE, Absent, limit)
        live == {e \in Entities : \A r \in Copies(e) : r.status = "active"}
        shownEnts == {shown[i].ent : i \in DOMAIN shown}
        Created(e) == Reference(Copies(e)).created
    IN  /\ shownEnts \subseteq live
        /\ Len(shown) = Min({limit, Cardinality(live)})
        /\ \A e \in live \ shownEnts, f \in shownEnts : Created(e) =< Created(f)

\* A point-in-time listing shows an entity from the earliest moment a copy says
\* it is valid (its first recording if none says so) until, exclusively, the
\* earliest moment a copy says it no longer is, archived or not
\* (record_in_window).
AsOfRespectsWindow ==
  \A t \in Moments, includeArchived \in BOOLEAN :
    LET shown == Collect(Records, includeArchived, t, Len(Records))
        From(e) == {r.valid : r \in Copies(e)} \ {Absent}
    IN  {shown[i].ent : i \in DOMAIN shown} =
          {e \in Entities :
             /\ IF From(e) = {} THEN \E r \in Copies(e) : r.created =< t
                ELSE \E v \in From(e) : v =< t
             /\ \A r \in Copies(e) : r.invalid = Absent \/ r.invalid > t}
=============================================================================
