----------------------------- MODULE NotesView -----------------------------
(***************************************************************************)
(* What a user of each clone sees: the carrier of GitNotes read through    *)
(* the fold of NotesFold.  Every line carries one record; a state update   *)
(* (append_state_update) carries the entity of its original.               *)
(***************************************************************************)
EXTENDS GitNotes, NotesFold

CONSTANTS
  Record,          \* the record each line carries
  CommitPos,       \* the place of each commit in git log, newest first
  LinePos          \* the place of each line in the order of cat_sort_uniq

ASSUME ViewAssumption ==
  /\ Record \in [Lines -> NoteRecord]
  /\ \A l \in Lines : Record[l].ent = Record[Original[l]].ent
  /\ CommitPos \in [Commits -> Nat]
  /\ \A j, k \in Commits : CommitPos[j] = CommitPos[k] => j = k
  /\ LinePos \in [Lines -> Nat]
  /\ \A l, m \in Lines : LinePos[l] = LinePos[m] => l = m
  /\ IsFiniteSet(Commits) /\ IsFiniteSet(Lines)

\* The lines noted in a tree, each with its commit, and their order.
Noted(tree) == {n \in Commits \X Lines : n[2] \in tree[n[1]]}
Before(m, n) ==
  \/ CommitPos[m[1]] < CommitPos[n[1]]
  \/ m[1] = n[1] /\ LinePos[m[2]] < LinePos[n[2]]

\* records_with_commit of a notes tree: commit by commit, line by line.
Pairs(tree) ==
  LET noted == Noted(tree)
      order == InOrder(noted, {p \in noted \X noted : Before(p[1], p[2])})
  IN  [i \in DOMAIN order |-> [commit |-> order[i][1], rec |-> Record[order[i][2]]]]

Recs(tree) == LET p == Pairs(tree) IN [i \in DOMAIN p |-> p[i].rec]
EntitiesOf(tree) == {Record[n[2]].ent : n \in Noted(tree)}
Entry(tree, e) ==
  LET folded == FoldRecords(Recs(tree))
  IN  folded[CHOOSE i \in DOMAIN folded : folded[i].ent = e]
Anchor(tree, e) == AnchorCommit(Pairs(tree), e)

\* The pairs of trees a step takes some clone's working ref from and to.
Moves ==
  LET moved == {c \in Clones : working'[c] # working[c]}
  IN  {<<store[working[c]].tree, store'[working'[c]].tree>> : c \in moved}

\* Lines that reach a clone in a move.
Arrived(from, to) == (UNION {to[k] : k \in Commits}) \ (UNION {from[k] : k \in Commits})

\* A state update whose stamps (now_secs, and now_millis within a second) are
\* later than those of the entry it is about.
LaterUpdate(l) ==
  LET r == Record[l]
      s == Record[Original[l]]
  IN  /\ Original[l] # l
      /\ s.created < r.created \/ (s.created = r.created /\ s.id < r.id)

\* A state update changes neither the commit an entry is anchored to nor the
\* id its folded record shows, wherever the update was written (anchor_commits:
\* "later state-updates ... never move it"; get: "keeps the original id").
StateUpdateKeepsIdentity ==
  [][~unserialized' =>
       \A m \in Moves, e \in EntityIds :
         /\ e \in EntitiesOf(m[1])
         /\ \A l \in Arrived(m[1], m[2]) : Record[l].ent = e => LaterUpdate(l)
         => /\ Anchor(m[2], e) = Anchor(m[1], e)
            /\ Entry(m[2], e).id = Entry(m[1], e).id]_vars

\* An optional time that is kept, or replaced by an earlier one.
NotLater(is, was) == was = Absent \/ (is # Absent /\ is =< was)

\* A folded record that says at least what another said.
Extends(is, was) ==
  /\ was.status = "archived" => is.status = "archived"
  /\ was.sup # Absent => is.sup # Absent
  /\ was.tags \subseteq is.tags
  /\ NotLater(is.valid, was.valid) /\ NotLater(is.invalid, was.invalid)
  /\ ~KeyLess(was, is)

\* Nothing a clone shows of an entry is taken back, whatever lines reach it and
\* in whatever order they are read (merge_into: "never un-archive", "none is
\* ever dropped"): archived stays archived, superseded superseded, tags stay,
\* the window only opens and closes earlier, the recording shown is no later.
EntriesOnlyGrow ==
  [][~unserialized' =>
       \A m \in Moves : \A e \in EntitiesOf(m[1]) :
         e \in EntitiesOf(m[2]) /\ Extends(Entry(m[2], e), Entry(m[1], e))]_vars
=============================================================================
