----------------------------- MODULE NotesFold -----------------------------
(***************************************************************************)
(* Reading the append-only notes ref (storage/git_notes/fold.rs and the    *)
(* read side of git_notes/mod.rs).                                         *)
(*                                                                         *)
(* The ref holds many lines per entry: copies recorded independently by    *)
(* several machines and appended state updates.  A reader folds the lines  *)
(* of each entity into one record, then filters, orders and truncates.     *)
(*                                                                         *)
(* A record keeps what the fold tells apart: ent is resolve_entity_id(),   *)
(* created and id are created_at and id, src stands for the trailing       *)
(* optional fields of base_key, sup is superseded_by_entity_id, tags       *)
(* stands for tags and linked_files.  An absent optional value is 0, which *)
(* orders before every present one, as None does.  Order and filter are    *)
(* written with the ranks of positions, so that they can be proved about.  *)
(***************************************************************************)
EXTENDS Integers, Sequences, FiniteSets, FiniteSetsExt

CONSTANTS
  EntityIds,       \* entity ids
  Tags             \* tags and linked files

Absent == 0

NoteRecord == [ent : EntityIds, created : Nat, id : Nat, src : Nat,
               status : {"active", "archived"}, valid : Nat, invalid : Nat,
               sup : Nat, tags : SUBSET Tags]

-----------------------------------------------------------------------------
(* Sequences *)

\* The elements of I in the order before: the k-th one has k - 1 before it.
InOrder(I, before) ==
  [k \in 1 .. Cardinality(I) |->
     CHOOSE i \in I : Cardinality({j \in I : <<j, i>> \in before}) = k - 1]

\* The elements of s at the positions I, in the order of s.
Subsequence(s, I) ==
  LET order == InOrder(I, {p \in I \X I : p[1] < p[2]})
  IN  [k \in DOMAIN order |-> s[order[k]]]

\* Vec::swap_remove: what is left of s, the last element in the place of the i-th.
SwapRemove(s, i) == [k \in 1 .. Len(s) - 1 |-> IF k = i THEN s[Len(s)] ELSE s[k]]

-----------------------------------------------------------------------------
(* fold.rs *)

\* Mutant: the newest copy is the base.
KeyLess_Newest(r, s) ==
  \/ r.created > s.created
  \/ r.created = s.created /\ r.id > s.id
  \/ r.created = s.created /\ r.id = s.id /\ r.src < s.src

\* base_key: earliest recording first, the trailing field breaks a tie.
KeyLess(r, s) ==
  \/ r.created < s.created
  \/ r.created = s.created /\ r.id < s.id
  \/ r.created = s.created /\ r.id = s.id /\ r.src < s.src
KeyEqual(r, s) == ~KeyLess(r, s) /\ ~KeyLess(s, r)

\* The first position in I whose copy no other copy in I precedes.
FirstLeast(records, I) ==
  CHOOSE i \in I :
    \A j \in I \ {i} :
      \/ KeyLess(records[i], records[j])
      \/ KeyEqual(records[i], records[j]) /\ i < j

\* base_index: the copy the base fields are taken from.
BaseIndex(group) == FirstLeast(group, DOMAIN group)

\* The order of resolve_superseded_by_entity_id: newest created_at first.
SuccessorLess(r, s) ==
  \/ r.created > s.created
  \/ r.created = s.created /\ KeyLess(r, s)
  \/ r.created = s.created /\ KeyEqual(r, s) /\ r.sup < s.sup

\* Mutant: the first successor that was read.
ResolveSuccessor_First(group) ==
  LET named == {i \in DOMAIN group : group[i].sup # Absent}
  IN  IF named = {} THEN Absent ELSE group[Min(named)].sup

\* resolve_superseded_by_entity_id: the successor the most recent write names.
ResolveSuccessor(group) ==
  LET named == {i \in DOMAIN group : group[i].sup # Absent}
  IN  IF named = {} THEN Absent
      ELSE group[CHOOSE i \in named : \A j \in named : ~SuccessorLess(group[j], group[i])].sup

\* min_some: the smaller of two optional values.
MinSome(a, b) ==
  IF a = Absent THEN b ELSE IF b = Absent THEN a ELSE IF a < b THEN a ELSE b

\* Mutant: the status of the copy merged last.
MergeInto_LastStatus(base, other) ==
  [base EXCEPT !.status = other.status,
               !.valid = MinSome(@, other.valid),
               !.invalid = MinSome(@, other.invalid),
               !.tags = @ \cup other.tags]

\* merge_into: archival is monotonic, times keep the smallest, tags unite.
MergeInto(base, other) ==
  [base EXCEPT !.status = IF other.status = "archived" THEN "archived" ELSE @,
               !.valid = MinSome(@, other.valid),
               !.invalid = MinSome(@, other.invalid),
               !.tags = @ \cup other.tags]

\* The loop of fold_group: the others merged into the base, one by one.
MergeAll(base, others) ==
  LET merged[k \in 0 .. Len(others)] ==
        IF k = 0 THEN base ELSE MergeInto(merged[k - 1], others[k])
  IN  merged[Len(others)]

\* fold_group: the successor is resolved over the whole group, every other
\* field by merging the remaining copies into the base copy.
FoldGroup(group) ==
  LET b == BaseIndex(group)
  IN  [MergeAll(group[b], SwapRemove(group, b)) EXCEPT !.sup = ResolveSuccessor(group)]

\* fold_records: one record per entity, in first-encounter order.
FoldRecords(records) ==
  LET CopiesOf(e) == Subsequence(records, {i \in DOMAIN records : records[i].ent = e})
      firsts == {i \in DOMAIN records : \A j \in 1 .. i - 1 : records[j].ent # records[i].ent}
      heads == Subsequence(records, firsts)
  IN  [n \in DOMAIN heads |-> FoldGroup(CopiesOf(heads[n].ent))]

\* anchor_commits: the commit of the first copy with the least base_key;
\* pairs are records_with_commit, newest commit first.
AnchorCommit(pairs, e) ==
  LET records == [i \in DOMAIN pairs |-> pairs[i].rec]
  IN  pairs[FirstLeast(records, {i \in DOMAIN pairs : pairs[i].rec.ent = e})].commit

-----------------------------------------------------------------------------
(* mod.rs: what a listing shows *)

\* Mutant: the moment an entry stops being valid still counts as valid.
RecordInWindow_Inclusive(r, includeArchived, asOf) ==
  IF asOf # Absent
  THEN /\ (IF r.valid # Absent THEN r.valid ELSE r.created) =< asOf
       /\ r.invalid = Absent \/ r.invalid >= asOf
  ELSE includeArchived \/ r.status # "archived"

\* record_in_window: a point-in-time query looks at the validity window only.
RecordInWindow(r, includeArchived, asOf) ==
  IF asOf # Absent
  THEN /\ (IF r.valid # Absent THEN r.valid ELSE r.created) =< asOf
       /\ r.invalid = Absent \/ r.invalid > asOf
  ELSE includeArchived \/ r.status # "archived"

\* sort_by_key(created_at), which is stable, of the records at the positions kept.
SortByCreated(records, kept) ==
  LET Created(i) == records[i].created
      before == {p \in kept \X kept :
                   \/ Created(p[1]) < Created(p[2])
                   \/ Created(p[1]) = Created(p[2]) /\ p[1] < p[2]}
      order == InOrder(kept, before)
  IN  [k \in DOMAIN order |-> records[order[k]]]

\* drain(..len - limit): the last limit records.
Newest(sorted, limit) == SubSeq(sorted, Max({1, Len(sorted) - limit + 1}), Len(sorted))

\* Mutant: archived lines are filtered out before the fold.
Collect_FilterFirst(records, includeArchived, asOf, limit) ==
  LET kept == {i \in DOMAIN records : RecordInWindow(records[i], includeArchived, asOf)}
      folded == FoldRecords(Subsequence(records, kept))
  IN  Newest(SortByCreated(folded, DOMAIN folded), limit)

\* collect: fold, then filter, then order, then keep the newest limit records.
Collect(records, includeArchived, asOf, limit) ==
  LET folded == FoldRecords(records)
      kept == {i \in DOMAIN folded : RecordInWindow(folded[i], includeArchived, asOf)}
  IN  Newest(SortByCreated(folded, kept), limit)
=============================================================================
