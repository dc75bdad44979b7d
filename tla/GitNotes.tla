------------------------------ MODULE GitNotes ------------------------------
(***************************************************************************)
(* The git-notes carrier of team memory (spelunk-core, storage/git_notes). *)
(*                                                                         *)
(* Every clone of a repository keeps its memory on refs/notes/spelunk (the *)
(* working ref).  Writers append one JSON line to the note of HEAD by a    *)
(* read-modify-write that a cross-process lock serialises; teammates'      *)
(* lines arrive on a tracking ref, are union-merged into the working ref,  *)
(* and the pre-push hook publishes the result by fetch, merge, push.       *)
(*                                                                         *)
(* A line is an opaque element of Lines: JSON layout is left out, and the  *)
(* fold that turns lines into entries is in NotesFold.  git itself is      *)
(* external: a notes ref names a version, a version has a tree (the lines  *)
(* noted on each commit) and its ancestors.                                *)
(***************************************************************************)
EXTENDS Naturals, FiniteSets

CONSTANTS
  Clones,         \* clones of the repository (one git common dir each)
  Procs,          \* spelunk processes, in any worktree of a clone
  Commits,        \* commits of the user's branch that HEAD may name
  Lines,          \* the JSON lines that may be written, each at most once
  CloneOf,        \* the clone a process works in
  Original,       \* the line a state update is about; itself for a new entry
  LockBroken,     \* processes that may find the lock file unusable
  MaxAttempts,    \* MAX_PUSH_ATTEMPTS
  MaxVersion,     \* bound: versions of the notes ref ever created
  NoProc, NoLine, NoCommit

ASSUME ConstantsAssumption ==
  /\ CloneOf \in [Procs -> Clones]
  /\ Original \in [Lines -> Lines]
  /\ LockBroken \subseteq Procs
  /\ MaxAttempts \in Nat \ {0}
  /\ MaxVersion \in Nat
  /\ NoProc \notin Procs
  /\ NoLine \notin Lines
  /\ NoCommit \notin Commits

VARIABLES
  store,          \* git's object store: version -> its tree and ancestors
  top,            \* the newest version; version 0 is the absent ref
  working,        \* refs/notes/spelunk of each clone
  tracking,       \* refs/notes/origin/spelunk of each clone
  remote,         \* refs/notes/spelunk of the shared remote
  lock,           \* holder of <git-common-dir>/spelunk-notes.lock
  pc,             \* where each process is
  line,           \* the line the process is appending
  target,         \* the commit it read as HEAD
  body,           \* the note body it read there
  attempt,        \* push attempts made by a publishing process
  written,        \* lines some writer has started to append
  acked,          \* per clone, lines whose append returned Ok there
  orphans,        \* git children that outlived a killed writer
  unserialized    \* a read-modify-write ran, or may run, without the lock

refs == <<store, top, working, tracking, remote>>
locals == <<pc, line, target, body, attempt>>
history == <<written, acked, orphans, unserialized>>
vars == <<refs, lock, locals, history>>

Versions == 0 .. MaxVersion
Trees == [Commits -> SUBSET Lines]
EmptyTree == [k \in Commits |-> {}]

\* Every line noted anywhere in version v.
LinesOf(v) == UNION {store[v].tree[k] : k \in Commits}

\* The versions v descends from, itself included.
Ancestors(v) == store[v].anc

-----------------------------------------------------------------------------
\* git notes: one new version of a clone's working ref.
Commit(c, tree, parents) ==
  LET v == top + 1 IN
  /\ top < MaxVersion
  /\ top' = v
  /\ store' = [store EXCEPT ![v] =
                 [tree |-> tree,
                  anc |-> {v} \cup UNION {Ancestors(q) : q \in parents}]]
  /\ working' = [working EXCEPT ![c] = v]

\* git's best common ancestors; git notes merge takes the first it finds.
MergeBases(a, b) ==
  LET common == Ancestors(a) \cap Ancestors(b)
  IN  {x \in common : \A y \in common \ {x} : x \notin Ancestors(y)}

\* Mutant: the merge keeps only the local side.
CatSortUniq_Ours(base, ours, theirs) == ours

\* git notes merge -s cat_sort_uniq: a three-way merge of every note, which
\* concatenates, sorts and deduplicates the lines of a note both sides changed.
CatSortUniq(base, ours, theirs) ==
  [k \in Commits |->
     IF ours[k] = base[k] THEN theirs[k]
     ELSE IF theirs[k] \in {base[k], ours[k]} THEN ours[k]
     ELSE ours[k] \cup theirs[k]]

Release(p) ==
  lock' = [c \in Clones |-> IF lock[c] = p THEN NoProc ELSE lock[c]]

\* The process returns to its caller: its guard drops, its locals go.
Finish(p) ==
  /\ Release(p)
  /\ pc' = [pc EXCEPT ![p] = "idle"]
  /\ line' = [line EXCEPT ![p] = NoLine]
  /\ target' = [target EXCEPT ![p] = NoCommit]
  /\ body' = [body EXCEPT ![p] = {}]
  /\ attempt' = [attempt EXCEPT ![p] = 0]

Goto(p, label) == pc' = [pc EXCEPT ![p] = label]

-----------------------------------------------------------------------------
Init ==
  /\ store = [v \in Versions |-> [tree |-> EmptyTree, anc |-> {0}]]
  /\ top = 0
  /\ working = [c \in Clones |-> 0]
  /\ tracking = [c \in Clones |-> 0]
  /\ remote = 0
  /\ lock = [c \in Clones |-> NoProc]
  /\ pc = [p \in Procs |-> "idle"]
  /\ line = [p \in Procs |-> NoLine]
  /\ target = [p \in Procs |-> NoCommit]
  /\ body = [p \in Procs |-> {}]
  /\ attempt = [p \in Procs |-> 0]
  /\ written = {}
  /\ acked = [c \in Clones |-> {}]
  /\ orphans = {}
  /\ unserialized = FALSE

-----------------------------------------------------------------------------
(* append_to_git_notes *)

\* A new entry, or a state update of an entry that is on this clone's ref.
StartAppend(p, l) ==
  /\ pc[p] = "idle"
  /\ l \notin written
  /\ Original[l] = l \/ Original[l] \in LinesOf(working[CloneOf[p]])
  /\ Goto(p, "lock")
  /\ line' = [line EXCEPT ![p] = l]
  /\ written' = written \cup {l}
  /\ UNCHANGED <<refs, lock, target, body, attempt, acked, orphans, unserialized>>

\* lock_notes returns Acquired to a writer.
WriterLocks(p) ==
  /\ pc[p] = "lock"
  /\ lock[CloneOf[p]] = NoProc
  /\ lock' = [lock EXCEPT ![CloneOf[p]] = p]
  /\ Goto(p, "read")
  /\ UNCHANGED <<refs, line, target, body, attempt, history>>

\* lock_notes returns Contended: the writer fails rather than write unlocked.
WriterContended(p) ==
  /\ pc[p] = "lock"
  /\ lock[CloneOf[p]] \notin {NoProc, p}
  /\ Finish(p)
  /\ UNCHANGED <<refs, history>>

\* lock_notes returns Unusable: the writer goes on unlocked, with a warning.
WriterUnlocked(p) ==
  /\ pc[p] = "lock"
  /\ p \in LockBroken
  /\ unserialized' = TRUE
  /\ Goto(p, "read")
  /\ UNCHANGED <<refs, lock, line, target, body, attempt, written, acked, orphans>>

\* rev-parse HEAD, then read_note_body_with_retry.
ReadNote(p) ==
  /\ pc[p] = "read"
  /\ \E k \in Commits :
       /\ target' = [target EXCEPT ![p] = k]
       /\ body' = [body EXCEPT ![p] = store[working[CloneOf[p]]].tree[k]]
  /\ Goto(p, "write")
  /\ UNCHANGED <<refs, lock, line, attempt, history>>

\* Mutant: the note is overwritten with the new line alone.
AppendedBody_Overwrites(p) == {line[p]}

\* The body the writer gives to git notes add -f: what it read, and its line.
AppendedBody(p) == body[p] \cup {line[p]}

\* git notes add -f replaces the note of the target commit, whatever it holds.
AddNote(c, k, lines) ==
  Commit(c, [store[working[c]].tree EXCEPT ![k] = lines], {working[c]})

WriteNote(p) ==
  LET c == CloneOf[p] IN
  /\ pc[p] = "write"
  /\ AddNote(c, target[p], AppendedBody(p))
  /\ acked' = [acked EXCEPT ![c] = @ \cup {line[p]}]
  /\ Finish(p)
  /\ UNCHANGED <<tracking, remote, written, orphans, unserialized>>

\* A git command of the append fails (the read only after its last retry):
\* the error is returned and nothing is written.
AppendFails(p) ==
  /\ pc[p] \in {"read", "write"}
  /\ Finish(p)
  /\ UNCHANGED <<refs, history>>

\* lock_notes cannot resolve the lock path: a writer returns the error, a merge
\* counts as LockUnavailable.
LockPathFails(p) ==
  /\ pc[p] \in {"lock", "mergelock"}
  /\ Finish(p)
  /\ UNCHANGED <<refs, history>>

\* The process is killed: the OS drops its lock.  If it had already spawned
\* git notes add and closed its stdin, that child runs on without the lock.
Crash(p) ==
  /\ pc[p] # "idle"
  /\ \/ UNCHANGED <<orphans, unserialized>>
     \/ /\ pc[p] = "write"
        /\ orphans' = orphans \cup
             {[clone |-> CloneOf[p], commit |-> target[p], lines |-> AppendedBody(p)]}
        /\ unserialized' = TRUE
  /\ Finish(p)
  /\ UNCHANGED <<refs, written, acked>>

OrphanWrites(o) ==
  /\ AddNote(o.clone, o.commit, o.lines)
  /\ orphans' = orphans \ {o}
  /\ UNCHANGED <<tracking, remote, lock, locals, written, acked, unserialized>>

-----------------------------------------------------------------------------
(* merge_tracking_notes, from a read command and from publish_notes *)

StartReadMerge(p) ==
  /\ pc[p] = "idle"
  /\ tracking[CloneOf[p]] # 0
  /\ Goto(p, "mergelock")
  /\ UNCHANGED <<refs, lock, line, target, body, attempt, history>>

MergeLocks(p) ==
  /\ pc[p] = "mergelock"
  /\ lock[CloneOf[p]] = NoProc
  /\ lock' = [lock EXCEPT ![CloneOf[p]] = p]
  /\ Goto(p, "merge")
  /\ UNCHANGED <<refs, line, target, body, attempt, history>>

\* Every other outcome of lock_notes skips the merge: LockUnavailable, which
\* also ends a publish (SkipReason::LockUnavailable).
MergeLockUnavailable(p) ==
  /\ pc[p] = "mergelock"
  /\ p \in LockBroken \/ lock[CloneOf[p]] \notin {NoProc, p}
  /\ Finish(p)
  /\ UNCHANGED <<refs, history>>

\* After the merge the guard drops; a publish goes on to its push.
AfterMerge(p) ==
  IF attempt[p] = 0
  THEN Finish(p)
  ELSE /\ Release(p)
       /\ Goto(p, "push")
       /\ UNCHANGED <<line, target, body, attempt>>

MergeTracking(p) ==
  LET c == CloneOf[p]
      ours == working[c]
      theirs == tracking[c] IN
  /\ pc[p] = "merge"
  /\ \/ /\ theirs \in Ancestors(ours)                    \* already up to date
        /\ UNCHANGED <<store, top, working>>
     \/ /\ theirs \notin Ancestors(ours)                 \* fast-forward
        /\ ours \in Ancestors(theirs)
        /\ working' = [working EXCEPT ![c] = theirs]
        /\ UNCHANGED <<store, top>>
     \/ /\ theirs \notin Ancestors(ours)
        /\ ours \notin Ancestors(theirs)
        /\ \E base \in MergeBases(ours, theirs) :
             Commit(c, CatSortUniq(store[base].tree, store[ours].tree, store[theirs].tree),
                    {ours, theirs})
  /\ AfterMerge(p)
  /\ UNCHANGED <<tracking, remote, history>>

\* git notes merge fails: Skipped, and the caller goes on regardless.
MergeFails(p) ==
  /\ pc[p] = "merge"
  /\ AfterMerge(p)
  /\ UNCHANGED <<refs, history>>

-----------------------------------------------------------------------------
(* publish_notes *)

\* Skipped without local notes, so only a clone with notes starts a publish.
StartPublish(p) ==
  /\ pc[p] = "idle"
  /\ working[CloneOf[p]] # 0
  /\ Goto(p, "fetch")
  /\ attempt' = [attempt EXCEPT ![p] = 1]
  /\ UNCHANGED <<refs, lock, line, target, body, history>>

\* Mutant: a tracking ref that exists is never updated.
Fetch_Once(c) == tracking' = [tracking EXCEPT ![c] = IF @ = 0 THEN remote ELSE @]

\* git fetch +refs/notes/spelunk:refs/notes/origin/spelunk
Fetch(c) == tracking' = [tracking EXCEPT ![c] = IF remote = 0 THEN @ ELSE remote]

PublishFetch(p) ==
  /\ pc[p] = "fetch"
  /\ Fetch(CloneOf[p])
  /\ Goto(p, "mergelock")
  /\ UNCHANGED <<store, top, working, remote, lock, line, target, body, attempt, history>>

\* A fetch failure is not fatal.
PublishFetchFails(p) ==
  /\ pc[p] = "fetch"
  /\ Goto(p, "mergelock")
  /\ UNCHANGED <<refs, lock, line, target, body, attempt, history>>

\* Mutant: git push --force.
FastForward_Forced(c) == TRUE

\* git accepts an unforced push of a descendant only.
FastForward(c) == remote \in Ancestors(working[c])

\* The unforced push lands only if it fast-forwards the remote's ref.
PushLands(p) ==
  /\ pc[p] = "push"
  /\ FastForward(CloneOf[p])
  /\ remote' = working[CloneOf[p]]
  /\ Finish(p)
  /\ UNCHANGED <<store, top, working, tracking, history>>

\* Mutant: one attempt too many.
PushLosesRace_OffByOne(p) ==
  /\ pc[p] = "push"
  /\ ~FastForward(CloneOf[p])
  /\ IF attempt[p] =< MaxAttempts
     THEN /\ Goto(p, "fetch")
          /\ attempt' = [attempt EXCEPT ![p] = @ + 1]
          /\ UNCHANGED <<lock, line, target, body>>
     ELSE Finish(p)
  /\ UNCHANGED <<refs, history>>

\* Mutant: a lost race is retried for ever.
PushLosesRace_NoLimit(p) ==
  /\ pc[p] = "push"
  /\ ~FastForward(CloneOf[p])
  /\ Goto(p, "fetch")
  /\ UNCHANGED <<refs, lock, line, target, body, attempt, history>>

\* Rejected as a lost race: retried from the fetch, up to MaxAttempts.
PushLosesRace(p) ==
  /\ pc[p] = "push"
  /\ ~FastForward(CloneOf[p])
  /\ IF attempt[p] < MaxAttempts
     THEN /\ Goto(p, "fetch")
          /\ attempt' = [attempt EXCEPT ![p] = @ + 1]
          /\ UNCHANGED <<lock, line, target, body>>
     ELSE Finish(p)
  /\ UNCHANGED <<refs, history>>

\* Any other push error is returned at once.
PushFails(p) ==
  /\ pc[p] = "push"
  /\ Finish(p)
  /\ UNCHANGED <<refs, history>>

\* The user's own git fetch, with the refspec init configures.
UserFetch(c) ==
  /\ remote # 0
  /\ Fetch(c)
  /\ UNCHANGED <<store, top, working, remote, lock, locals, history>>

-----------------------------------------------------------------------------
\* One step of the code of process p, failures excluded.
Step(p) ==
  \/ WriterLocks(p) \/ WriterContended(p) \/ WriterUnlocked(p)
  \/ ReadNote(p) \/ WriteNote(p)
  \/ MergeLocks(p) \/ MergeLockUnavailable(p) \/ MergeTracking(p)
  \/ PublishFetch(p) \/ PushLands(p) \/ PushLosesRace(p)

\* A git command fails, or the process is killed.
GitError(p) ==
  \/ AppendFails(p) \/ LockPathFails(p) \/ MergeFails(p)
  \/ PublishFetchFails(p) \/ PushFails(p)
Failure(p) == GitError(p) \/ Crash(p)

Start(p) ==
  \/ \E l \in Lines : StartAppend(p, l)
  \/ StartReadMerge(p)
  \/ StartPublish(p)

Next ==
  \/ \E p \in Procs : Start(p) \/ Step(p) \/ Failure(p)
  \/ \E o \in orphans : OrphanWrites(o)
  \/ \E c \in Clones : UserFetch(c)

Spec == Init /\ [][Next]_vars

\* The same without failed commands and kills, which leave the refs as they
\* are (an orphaned child excepted) and only end a command early.
CalmNext ==
  \/ \E p \in Procs : Start(p) \/ Step(p)
  \/ \E c \in Clones : UserFetch(c)
CalmSpec == Init /\ [][CalmNext]_vars

\* A running process keeps running: its steps are local computation, git
\* commands that return, with or without success, and bounded waits.  A kill
\* ends a command and frees its lock, so it is left out.
LiveSpec ==
  /\ Init
  /\ [][CalmNext \/ \E p \in Procs : GitError(p)]_vars
  /\ \A p \in Procs : WF_vars(Step(p) \/ GitError(p))

-----------------------------------------------------------------------------
(* Properties *)

Labels == {"idle", "lock", "read", "write", "mergelock", "merge", "fetch", "push"}
Orphan == [clone : Clones, commit : Commits, lines : SUBSET Lines]

\* Every variable has its type.
TypeOK ==
  /\ store \in [Versions -> [tree : Trees, anc : SUBSET Versions]]
  /\ top \in Versions
  /\ working \in [Clones -> Versions]
  /\ tracking \in [Clones -> Versions]
  /\ remote \in Versions
  /\ lock \in [Clones -> Procs \cup {NoProc}]
  /\ pc \in [Procs -> Labels]
  /\ line \in [Procs -> Lines \cup {NoLine}]
  /\ target \in [Procs -> Commits \cup {NoCommit}]
  /\ body \in [Procs -> SUBSET Lines]
  /\ attempt \in [Procs -> 0 .. MaxAttempts]
  /\ written \subseteq Lines
  /\ acked \in [Clones -> SUBSET Lines]
  /\ orphans \subseteq Orphan
  /\ unserialized \in BOOLEAN

\* An entry whose append returned Ok stays on the working ref of its clone,
\* through every concurrent append, merge, fetch and publish (the data loss
\* of issue #185 that the lock is for), as long as no read-modify-write ran
\* without the lock.
NoAckedEntryLost ==
  ~unserialized => \A c \in Clones : acked[c] \subseteq LinesOf(working[c])

\* publish_notes never rewinds the shared ref: every version the remote ever
\* had stays an ancestor of what it has, even when a writer ran unlocked.
RemoteNeverRewinds == [][(remote \in Ancestors(remote)')]_vars

\* The carrier implements the append-only log it promises: lines reach a clone
\* only by an append there or from the remote, and a push leaves the remote
\* with all it had and all the pushing clone has.
Log == INSTANCE NotesLog WITH
  held <- [c \in Clones |-> LinesOf(working[c])],
  shared <- LinesOf(remote),
  broken <- unserialized
ImplementsLog == Log!Spec

\* Failures cease, developers keep fetching, pushing their branch (the pre-push
\* hook publishes) and reading memory, and a publish does not find the lock
\* taken every time (LOCK_WAIT_BUDGET is far longer than a merge).
TeamCarriesOn ==
  /\ <>[][CalmNext]_vars
  /\ \A c \in Clones : WF_vars(UserFetch(c))
  /\ \A p \in Procs :
       /\ SF_vars(StartPublish(p)) /\ SF_vars(StartReadMerge(p))
       /\ SF_vars(MergeLocks(p) /\ attempt[p] > 0)

\* Every clone ends up with every acknowledged entry of every clone, if every
\* clone keeps publishing and reading (unless serialisation was lost).
AllAcked == UNION {acked[c] : c \in Clones}
Converges ==
  TeamCarriesOn =>
    <>[](unserialized \/ \A c \in Clones : AllAcked \subseteq LinesOf(working[c]))

\* Every command ends: a publish gives up after MaxAttempts, a writer after
\* its bounded wait, whatever the other processes do.
CommandsEnd == \A p \in Procs : pc[p] # "idle" ~> pc[p] = "idle"
=============================================================================
