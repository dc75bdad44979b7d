----------------------------- MODULE NotesImport -----------------------------
(***************************************************************************)
(* The index of team memory: how entries on a clone's notes refs become    *)
(* rows of its memory.db (spelunk-cli, memory/reconcile.rs; the markers of *)
(* spelunk-core, memory/import_state.rs).                                  *)
(*                                                                         *)
(* A read command compares the refs with two markers kept in memory.db: it *)
(* merges the tracking ref when that moved, imports the working ref when   *)
(* that moved, and stamps what it saw.  Other actors move the refs and the *)
(* rows meanwhile: local writers (row first, then the carrier), the        *)
(* pre-push hook, other worktrees, teammates, the user's fetch and merge.  *)
(*                                                                         *)
(* A notes ref is the set of its lines (GitNotes shows that it only grows) *)
(* and its OID is that set; {} is an absent ref and an absent marker.      *)
(* memory.db exists.  Embeddings, tags and the cloud_first and git-notes   *)
(* back ends, which skip the import, are left out.                         *)
(***************************************************************************)
EXTENDS Naturals, FiniteSets

CONSTANTS
  Readers,        \* processes that run a read command or spelunk init
  Commits,        \* commits that carry notes
  Base,           \* those HEAD reaches at first
  Entries,        \* entries by entity_id, numbered in created_at order
  ImportLimit,    \* GIT_NOTES_IMPORT_LIMIT
  Here, There     \* bound: the lines written in this worktree, and elsewhere

Statuses == {"active", "archived"}
Line == [at : Commits, ent : Entries, status : Statuses]
Lines == Here \cup There

ASSUME ImportAssumption ==
  /\ Entries \subseteq Nat
  /\ Lines \subseteq Line
  /\ Base \subseteq Commits
  /\ ImportLimit \in Nat \ {0}

VARIABLES
  remote, tracking, working,   \* the three notes refs
  head,                        \* commits reachable from HEAD
  rows,                        \* notes of memory.db: entry -> status or "none"
  merged, imported,            \* last_merged_tracking_oid, last_imported_working_oid
  carry,                       \* lines whose row is stored and whose append is due
  pc, kind,                    \* where a reader is; "read" or "init"
  saw,                         \* tracking OID it read
  oid,                         \* working OID it read
  mark,                        \* last_imported_working_oid it read
  moved,                       \* tracking_moved
  listed,                      \* what it listed: entry -> status or "none"
  known,                       \* entries with a row when it looked
  disturbed                    \* something the markers do not account for happened

refs == <<remote, tracking, working, head>>
db == <<rows, merged, imported>>
reader == <<pc, kind, saw, oid, mark, moved, listed, known>>
vars == <<refs, db, carry, reader, disturbed>>

Nothing == [e \in Entries |-> "none"]
EntitiesOf(ref) == {l.ent : l \in ref}
Reachable(ref) == {l \in ref : l.at \in head}

-----------------------------------------------------------------------------
(* The rest of the team, and the user's git *)

Published(l) ==
  /\ l \in There
  /\ l.status = "archived" => l.ent \in EntitiesOf(remote)
  /\ remote' = remote \cup {l}
  /\ UNCHANGED <<tracking, working, head, db, carry, reader, disturbed>>

UserFetch ==
  /\ tracking' = remote
  /\ UNCHANGED <<remote, working, head, db, carry, reader, disturbed>>

\* git merge or git pull: HEAD reaches one more commit.
UserMerge(k) ==
  /\ head' = head \cup {k}
  /\ UNCHANGED <<remote, tracking, working, db, carry, reader, disturbed>>

\* A ref that moves between a reader's listing and its reading of the OID.
Overtaken == disturbed \/ (working' # working /\ \E p \in Readers : pc[p] = "oid")

\* The pre-push hook fetches (as UserFetch does) or fails to, then merges what
\* the tracking ref holds, and imports nothing.
HookMerges ==
  /\ working' = working \cup tracking
  /\ disturbed' = Overtaken
  /\ UNCHANGED <<remote, tracking, head, db, carry, reader>>

\* Another worktree, with a memory.db of its own, appends to the shared ref.
WorktreeAppends(l) ==
  /\ l \in There
  /\ l.status = "archived" => l.ent \in EntitiesOf(working)
  /\ working' = working \cup {l}
  /\ disturbed' = Overtaken
  /\ UNCHANGED <<remote, tracking, head, db, carry, reader>>

-----------------------------------------------------------------------------
(* memory add and memory archive: the row first, then the carrier *)

\* Mutant: an insert that meets an existing row takes over its status.
AddNote_TakesStatus(e, status) == status

\* add_note, add_note_with_created_at: an insert that meets an existing row
\* leaves its status alone (recover_from_entity_id_collision).
AddNote(e, status) == IF rows[e] = "none" THEN status ELSE rows[e]

LocalAdd(l) ==
  /\ l \in Here /\ l.status = "active" /\ l.at \in head
  /\ l \notin carry \cup working
  /\ rows' = [rows EXCEPT ![l.ent] = AddNote(l.ent, "active")]
  /\ carry' = carry \cup {l}
  /\ UNCHANGED <<refs, merged, imported, reader, disturbed>>

LocalArchive(l) ==
  /\ l \in Here /\ l.status = "archived" /\ l.at \in head
  /\ rows[l.ent] = "active"
  /\ rows' = [rows EXCEPT ![l.ent] = "archived"]
  /\ carry' = carry \cup {l}
  /\ UNCHANGED <<refs, merged, imported, reader, disturbed>>

Carry(l) ==
  /\ working' = working \cup {l}
  /\ carry' = carry \ {l}
  /\ UNCHANGED <<remote, tracking, head, db, reader, disturbed>>

\* The append fails with a warning, or the command is killed before it.
CarryFails(l) ==
  /\ carry' = carry \ {l}
  /\ UNCHANGED <<refs, db, reader, disturbed>>

-----------------------------------------------------------------------------
(* refresh_read_path_from_git_notes, and the import of spelunk init *)

Goto(p, label) == pc' = [pc EXCEPT ![p] = label]

Done(p) ==
  /\ Goto(p, "idle")
  /\ kind' = [kind EXCEPT ![p] = "none"]
  /\ saw' = [saw EXCEPT ![p] = {}]
  /\ oid' = [oid EXCEPT ![p] = {}]
  /\ mark' = [mark EXCEPT ![p] = {}]
  /\ moved' = [moved EXCEPT ![p] = FALSE]
  /\ listed' = [listed EXCEPT ![p] = Nothing]
  /\ known' = [known EXCEPT ![p] = {}]

\* The tracking OID is read first.
StartRead(p) ==
  /\ pc[p] = "idle"
  /\ kind' = [kind EXCEPT ![p] = "read"]
  /\ saw' = [saw EXCEPT ![p] = tracking]
  /\ Goto(p, "working")
  /\ UNCHANGED <<refs, db, carry, oid, mark, moved, listed, known, disturbed>>

\* init fetches (or fails to), merges and imports, and asks no marker.
StartInit(p) ==
  /\ pc[p] = "idle"
  /\ kind' = [kind EXCEPT ![p] = "init"]
  /\ tracking' \in {tracking, remote}
  /\ Goto(p, "merge")
  /\ UNCHANGED <<remote, working, head, db, carry, saw, oid, mark, moved, listed, known,
                 disturbed>>

\* Then the working OID; nothing on either ref ends the refresh.
ReadWorking(p) ==
  /\ pc[p] = "working"
  /\ IF saw[p] = {} /\ working = {}
     THEN Done(p)
     ELSE /\ oid' = [oid EXCEPT ![p] = working]
          /\ Goto(p, "marks")
          /\ UNCHANGED <<kind, saw, mark, moved, listed, known>>
  /\ UNCHANGED <<refs, db, carry, disturbed>>

\* Mutant: only a moved tracking ref opens the gate.
ReadMarks_TrackingOnly(p) ==
  /\ pc[p] = "marks"
  /\ IF saw[p] = merged
     THEN Done(p)
     ELSE /\ mark' = [mark EXCEPT ![p] = imported]
          /\ moved' = [moved EXCEPT ![p] = TRUE]
          /\ Goto(p, "merge")
          /\ UNCHANGED <<kind, saw, oid, listed, known>>
  /\ UNCHANGED <<refs, db, carry, disturbed>>

\* Both markers in one SELECT.  An unmoved tracking ref needs no merge, an
\* unmoved working ref no import.
ReadMarks(p) ==
  /\ pc[p] = "marks"
  /\ IF saw[p] = merged /\ oid[p] = imported
     THEN Done(p)
     ELSE /\ mark' = [mark EXCEPT ![p] = imported]
          /\ moved' = [moved EXCEPT ![p] = saw[p] # merged]
          /\ Goto(p, IF saw[p] # merged THEN "merge" ELSE "list")
          /\ UNCHANGED <<kind, saw, oid, listed, known>>
  /\ UNCHANGED <<refs, db, carry, disturbed>>

\* What follows the merge: init always imports; a read re-reads the working
\* OID and imports if that is not the one it found recorded.
AfterMerge(p) ==
  /\ Goto(p, IF kind[p] = "init" \/ working' # mark[p] THEN "list" ELSE "stamp")
  /\ UNCHANGED <<kind, saw, oid, mark, moved, listed, known>>

\* merge_tracking_notes: Merged.
Merges(p) ==
  /\ pc[p] = "merge"
  /\ working' = working \cup tracking
  /\ AfterMerge(p)
  /\ disturbed' = Overtaken
  /\ UNCHANGED <<remote, tracking, head, db, carry>>

\* LockUnavailable or Skipped; no caller looks at the outcome.
MergeSkipped(p) ==
  /\ pc[p] = "merge"
  /\ UNCHANGED <<refs, db, carry>>
  /\ AfterMerge(p)
  /\ disturbed' = (disturbed \/ (kind[p] = "read" /\ ~(tracking \subseteq working)))

\* The newest ImportLimit entries of the ref that HEAD reaches, folded: one
\* archived copy archives an entry.
Listing(ref) ==
  LET seen == Reachable(ref)
      Newer(e) == {f \in EntitiesOf(seen) : f > e}
  IN  [e \in Entries |->
         IF e \notin EntitiesOf(seen) \/ Cardinality(Newer(e)) >= ImportLimit THEN "none"
         ELSE IF \E l \in seen : l.ent = e /\ l.status = "archived" THEN "archived"
         ELSE "active"]

\* import_git_notes_into_memory lists the working ref ...
List(p) ==
  /\ pc[p] = "list"
  /\ listed' = [listed EXCEPT ![p] = Listing(working)]
  /\ disturbed' = (disturbed \/ \E e \in EntitiesOf(working) : Listing(working)[e] = "none")
  /\ Goto(p, "oid")
  /\ UNCHANGED <<refs, db, carry, kind, saw, oid, mark, moved, known>>

\* ... reads its OID ...
ReadOid(p) ==
  /\ pc[p] = "oid"
  /\ oid' = [oid EXCEPT ![p] = working]
  /\ Goto(p, "dedup")
  /\ UNCHANGED <<refs, db, carry, kind, saw, mark, moved, listed, known, disturbed>>

\* ... and the entries that have a row (all_notes_for_dedup, every status).
ReadKnown(p) ==
  /\ pc[p] = "dedup"
  /\ known' = [known EXCEPT ![p] = {e \in Entries : rows[e] # "none"}]
  /\ Goto(p, "import")
  /\ UNCHANGED <<refs, db, carry, kind, saw, oid, mark, moved, listed, disturbed>>

AfterImport(p) ==
  IF kind[p] = "read" /\ moved[p]
  THEN Goto(p, "stamp") /\ UNCHANGED <<kind, saw, oid, mark, moved, listed, known>>
  ELSE Done(p)

\* Mutant: the marker is committed before the rows, which may then fail.
Import_MarkFirst(p) ==
  /\ pc[p] = "import"
  /\ imported' = oid[p]
  /\ \/ UNCHANGED rows
     \/ rows' = [e \in Entries |->
          IF listed[p][e] # "none" /\ e \notin known[p] THEN AddNote(e, listed[p][e]) ELSE rows[e]]
  /\ AfterImport(p)
  /\ UNCHANGED <<refs, merged, carry, disturbed>>

\* One transaction: the listed entries that had no row, and the marker.
Import(p) ==
  /\ pc[p] = "import"
  /\ rows' = [e \in Entries |->
       IF listed[p][e] # "none" /\ e \notin known[p] THEN AddNote(e, listed[p][e]) ELSE rows[e]]
  /\ imported' = oid[p]
  /\ AfterImport(p)
  /\ UNCHANGED <<refs, merged, carry, disturbed>>

\* git or SQLite returns an error: rolled back, and only logged.
ImportFails(p) ==
  /\ pc[p] \in {"list", "dedup", "import"}
  /\ AfterImport(p)
  /\ UNCHANGED <<refs, db, carry, disturbed>>

\* Mutant: the tracking OID is never recorded.
StampTracking_Forgotten(p) ==
  /\ pc[p] = "stamp"
  /\ Done(p)
  /\ UNCHANGED <<refs, db, carry, disturbed>>

\* Last, the tracking OID read at the start.
StampTracking(p) ==
  /\ pc[p] = "stamp"
  /\ merged' = saw[p]
  /\ Done(p)
  /\ UNCHANGED <<refs, rows, imported, carry, disturbed>>

\* The store cannot be opened, or the command is killed.
Killed(p) ==
  /\ pc[p] # "idle"
  /\ Done(p)
  /\ UNCHANGED <<refs, db, carry, disturbed>>

-----------------------------------------------------------------------------
Init ==
  /\ remote = {} /\ tracking = {} /\ working = {}
  /\ head = Base
  /\ rows = Nothing
  /\ merged = {} /\ imported = {}
  /\ carry = {}
  /\ pc = [p \in Readers |-> "idle"]
  /\ kind = [p \in Readers |-> "none"]
  /\ saw = [p \in Readers |-> {}]
  /\ oid = [p \in Readers |-> {}]
  /\ mark = [p \in Readers |-> {}]
  /\ moved = [p \in Readers |-> FALSE]
  /\ listed = [p \in Readers |-> Nothing]
  /\ known = [p \in Readers |-> {}]
  /\ disturbed = FALSE

\* What a running reader does when nothing fails.
Step(p) ==
  \/ ReadWorking(p) \/ ReadMarks(p) \/ Merges(p)
  \/ List(p) \/ ReadOid(p) \/ ReadKnown(p) \/ Import(p) \/ StampTracking(p)

Writers ==
  \/ \E l \in Here : LocalAdd(l) \/ LocalArchive(l)
  \/ \E l \in carry : Carry(l) \/ CarryFails(l)

\* Everyone at work, nothing failing.
CalmNext ==
  \/ \E l \in There : Published(l) \/ WorktreeAppends(l)
  \/ \E k \in Commits : UserMerge(k)
  \/ UserFetch \/ HookMerges \/ Writers
  \/ \E p \in Readers : StartRead(p) \/ Step(p)

Next ==
  \/ CalmNext
  \/ \E p \in Readers : StartInit(p) \/ MergeSkipped(p) \/ ImportFails(p) \/ Killed(p)

Spec == Init /\ [][Next]_vars

\* One user at a time on this clone, merges that find the lock, no failures.
SoloSpec ==
  Init /\ [][\/ \E l \in There : Published(l)
             \/ \E k \in Commits : UserMerge(k)
             \/ UserFetch \/ Writers
             \/ \E p \in Readers : StartRead(p) \/ Step(p)]_vars

\* The user keeps running read commands, and a running command goes on.
FairSpec ==
  Spec /\ \A p \in Readers : WF_vars(StartRead(p)) /\ WF_vars(Step(p))

-----------------------------------------------------------------------------
(* Properties *)

Labels == {"idle", "working", "marks", "merge", "list", "oid", "dedup", "import", "stamp"}
Ref == SUBSET Lines
RowStatus == Statuses \cup {"none"}

\* Every variable has its type.
TypeOK ==
  /\ remote \in Ref /\ tracking \in Ref /\ working \in Ref
  /\ head \subseteq Commits
  /\ rows \in [Entries -> RowStatus]
  /\ merged \in Ref /\ imported \in Ref
  /\ carry \subseteq Here
  /\ pc \in [Readers -> Labels]
  /\ kind \in [Readers -> {"none", "read", "init"}]
  /\ saw \in [Readers -> Ref]
  /\ oid \in [Readers -> Ref]
  /\ mark \in [Readers -> Ref]
  /\ moved \in [Readers -> BOOLEAN]
  /\ listed \in [Readers -> [Entries -> RowStatus]]
  /\ known \in [Readers -> SUBSET Entries]
  /\ disturbed \in BOOLEAN

Stored == {e \in Entries : rows[e] # "none"}

\* The markers tell the truth: a recorded tracking OID is merged, and every
\* entry of a recorded working OID has a row, through concurrent readers,
\* writers, kills and failed transactions ("a crash cannot leave the marker
\* and the store disagreeing"), unless a merge was skipped, the ref moved
\* between a listing and its OID, or the listing was not the whole ref.
GateHonest ==
  ~disturbed => merged \subseteq working /\ EntitiesOf(imported) \subseteq Stored

\* No import and no re-recording brings an archived row back.
ArchivedRowStays ==
  [][\A e \in Entries : rows[e] = "archived" => rows'[e] = "archived"]_vars

\* From some point on nothing fails.
FailuresCease == <>[][CalmNext]_vars

\* Reading goes quiet: once the refs rest, the markers catch up with them and
\* reads spawn no git process any more (the steady state of ADR-077 D2).
GateCloses == FailuresCease => <>[](merged = tracking /\ imported = working)

\* Fetched and merged entries become rows, for as long as reads go on.
EntriesBecomeVisible ==
  FailuresCease =>
    <>[](disturbed \/ EntitiesOf(Reachable(tracking \cup working)) \subseteq Stored)

Resting == merged = tracking /\ imported = working /\ \A p \in Readers : pc[p] = "idle"

\* When the gate is closed, every entry on a commit that HEAD reaches has a
\* row (noted_commits: a note "stays invisible until that commit is merged").
ReachableIsVisible == Resting => EntitiesOf(Reachable(working)) \subseteq Stored
=============================================================================
