------------------------------ MODULE IndexRun ------------------------------
(***************************************************************************)
(* `spelunk index`: runs of the command against one project, the lock that *)
(* serialises them, the parse phase's writes to index.db, the queue of     *)
(* chunks without a vector, and the two hand-offs to a detached child.     *)
(*                                                                         *)
(* Every SQL statement outside a transaction is a step of its own, since a *)
(* process can be killed between any two.  Chunk text is <<version, part>> *)
(* of its file; ranks, summaries, conventions and graph edges, which no    *)
(* guard of the run reads, are left out.  The embed phase appears as       *)
(* EmbedJob: it saves subsets of its queue and may stop.                   *)
(***************************************************************************)
EXTENDS Naturals, FiniteSets, FiniteSetsExt

CONSTANTS
    Users,       \* terminals that run `spelunk index`
    Files, Docs, \* indexed paths; those among them read as documents or PDFs
    Versions,    \* contents a file may have
    Tree,        \* the working tree the first run finds
    Parts,       \* number of chunks of each version
    Ids,         \* bound: chunk ids in use at once
    Large,       \* files indexed above which phases 3-5 are detached (100)
    Detached,    \* values of --detach-embed each terminal uses
    Forced,      \* values of --force a run may have
    MaxEdits, MaxFaults,   \* bounds
    NoProc, NoFile,
    Gone,        \* a file that is not in the working tree
    Opaque       \* one walked but not ingested: binary, too large, unreadable, unparsable

ASSUME IndexAssumption ==
    /\ Docs \subseteq Files /\ NoFile \notin Files
    /\ Versions \subseteq Nat \ {0} /\ Parts \in [Versions -> Nat]
    /\ Tree \in [Files -> Versions]
    /\ {Gone, Opaque} \cap (Versions \cup {0}) = {} /\ Gone # Opaque
    /\ Ids \subseteq Nat /\ Large \in Nat
    /\ Detached \in [Users -> SUBSET BOOLEAN] /\ Forced \subseteq BOOLEAN
    /\ MaxEdits \in Nat /\ MaxFaults \in Nat

Procs == Users \X {"main", "child"}
Main(u) == <<u, "main">>
Child(u) == <<u, "child">>

ASSUME NoProcAssumption == NoProc \notin Procs

VARIABLES
    disk,       \* content of each file: a version, Gone or Opaque
    hash,       \* files table: version of the recorded hash, 0 for no row
    chunks,     \* chunks table: [id, file, text]
    vectors,    \* embeddings table: [id, text the vector was computed from]
    lock,       \* holder of index.lock
    pidFile,    \* index.lock.pid: the child last recorded as its holder, NoProc for any other process
    embedder,   \* "ready", "loading" or "down", as a probe sees it
    run,        \* what each process is doing
    torn,       \* history: files whose rows a run began to replace or remove
    loose,      \* history: a child could not be spawned
    edits, faults

dbVars == <<hash, chunks, vectors, torn>>
lockVars == <<lock, pidFile>>
worldVars == <<disk, embedder, edits>>
vars == <<dbVars, lockVars, worldVars, run, loose, faults>>

\* Locals of a run; `took` is history: its child got the lock.
Idle == [pc |-> "idle", detach |-> FALSE, force |-> FALSE, seen |-> {}, todo |-> {},
         file |-> NoFile, version |-> 0, part |-> 0, queue |-> {},
         ready |-> FALSE, count |-> 0, job |-> "none", took |-> FALSE]

Init ==
    /\ disk = Tree
    /\ hash = [f \in Files |-> 0] /\ chunks = {} /\ vectors = {} /\ torn = {}
    /\ lock = NoProc /\ pidFile = NoProc
    /\ embedder \in {"ready", "loading", "down"}
    /\ run = [p \in Procs |-> Idle]
    /\ loose = FALSE
    /\ edits = 0 /\ faults = 0

----------------------------------------------------------------------------
(***************************************************************************)
(* Tables and lock                                                         *)
(***************************************************************************)

ChunksOf(f) == {c \in chunks : c.file = f}
IdsOf(S) == {x.id : x \in S}
TextsOf(f) == {c.text : c \in ChunksOf(f)}
Cut(v) == {<<v, i>> : i \in 1 .. Parts[v]}

\* chunks_missing_embeddings
Missing == {[id |-> c.id, text |-> c.text] : c \in {d \in chunks : d.id \notin IdsOf(vectors)}}

\* Mutant: without AUTOINCREMENT the ids of deleted chunks come back.
NewId_Reused == Min(Ids \ IdsOf(chunks))

\* Ids nothing mentions.
Unused ==
    Ids \ (IdsOf(chunks) \cup IdsOf(vectors) \cup UNION {IdsOf(run[p].queue) : p \in Procs})

\* AUTOINCREMENT never hands out an id again: any id nothing mentions is as
\* good as a new one.
NewId == Min(Unused)

Recorded(p) == pidFile' = IF p[2] = "child" THEN p ELSE NoProc

\* Mutant: the outcome of the lock is ignored.
Acquired_Always(p) == lock' = p /\ Recorded(p)

Acquired(p) == lock = NoProc /\ lock' = p /\ Recorded(p)

Released(p) == lock' = IF lock = p THEN NoProc ELSE lock

Exits(p) ==
    /\ run' = [run EXCEPT ![p] = Idle]
    /\ Released(p)

Goes(p, pc) == run' = [run EXCEPT ![p].pc = pc]

----------------------------------------------------------------------------
(***************************************************************************)
(* Parse phase                                                             *)
(***************************************************************************)

\* The command takes the lock or fails; a walk that finds no file ends it.
\* Bounds: a terminal runs it again once its last child is gone, and asks for
\* --force at most MaxEdits times, edits included.
StartRun(u, detach, force) ==
    LET p == Main(u)
        found == {f \in Files : disk[f] # Gone}
    IN  /\ run[p].pc = "idle" /\ run[Child(u)].pc = "idle"
        /\ \/ /\ found # {}
              /\ Acquired(p)
              /\ run' = [run EXCEPT ![p] = [Idle EXCEPT !.pc = "parse", !.detach = detach,
                                            !.force = force, !.seen = found, !.todo = found]]
           \/ /\ found = {} /\ lock = NoProc
              /\ Recorded(p)
              /\ UNCHANGED <<lock, run>>
        /\ IF force THEN edits < MaxEdits /\ edits' = edits + 1 ELSE UNCHANGED edits
        /\ UNCHANGED <<dbVars, disk, embedder, loose, faults>>

\* Mutant: the hash alone decides.
Unchanged_HashOnly(f) == hash[f] = disk[f]

\* Text files are skipped only when they have chunks; documents on the hash.
Unchanged(f) == hash[f] = disk[f] /\ (f \in Docs \/ ChunksOf(f) # {})

\* Files are taken one after another; nothing depends on the walk's order.
NextFile(p) == CHOOSE f \in run[p].todo : TRUE

SkipFile(p) ==
    LET f == NextFile(p) IN
    /\ run[p].pc = "parse" /\ run[p].todo # {}
    /\ disk[f] \in {Gone, Opaque} \/ (~run[p].force /\ Unchanged(f))
    /\ run' = [run EXCEPT ![p].todo = @ \ {f}]
    /\ UNCHANGED <<dbVars, lockVars, worldVars, loose, faults>>

\* upsert_file: the new hash is committed before anything else.
UpsertFile(p) ==
    LET f == NextFile(p) IN
    /\ run[p].pc = "parse" /\ run[p].todo # {} /\ disk[f] \in Versions
    /\ run[p].force \/ ~Unchanged(f)
    /\ hash' = [hash EXCEPT ![f] = disk[f]]
    /\ torn' = torn \cup {f}
    /\ run' = [run EXCEPT ![p].pc = "clear", ![p].file = f, ![p].version = disk[f],
                          ![p].todo = @ \ {f}]
    /\ UNCHANGED <<chunks, vectors, lockVars, worldVars, loose, faults>>

\* cleanup_stale: delete_file of a path the walk did not see.
StaleFile(p, f) ==
    /\ run[p].pc = "parse" /\ run[p].todo = {}
    /\ hash[f] # 0 /\ f \notin run[p].seen
    /\ torn' = torn \cup {f}
    /\ run' = [run EXCEPT ![p].pc = "clear", ![p].file = f, ![p].version = 0]
    /\ UNCHANGED <<hash, chunks, vectors, lockVars, worldVars, loose, faults>>

\* Mutant: the vectors of every file go.
DeleteEmbeddings_All(p) ==
    /\ run[p].pc = "clear"
    /\ vectors' = {}
    /\ Goes(p, "delete")
    /\ UNCHANGED <<hash, chunks, torn, lockVars, worldVars, loose, faults>>

DeleteEmbeddings(p) ==
    /\ run[p].pc = "clear"
    /\ vectors' = {v \in vectors : v.id \notin IdsOf(ChunksOf(run[p].file))}
    /\ Goes(p, "delete")
    /\ UNCHANGED <<hash, chunks, torn, lockVars, worldVars, loose, faults>>

\* The file is done with: its row says what its chunks are.
Closed(p, count) ==
    [run[p] EXCEPT !.pc = "parse", !.file = NoFile, !.version = 0, !.part = 0, !.count = count]

Counted(p) == Min({run[p].count + 1, Large + 1})

\* Then the rows are inserted, if the version has any.
DeleteChunks(p) ==
    LET v == run[p].version
        empty == v # 0 /\ Parts[v] = 0
    IN  /\ run[p].pc = "delete"
        /\ chunks' = chunks \ ChunksOf(run[p].file)
        /\ torn' = IF empty THEN torn \ {run[p].file} ELSE torn
        /\ run' = [run EXCEPT ![p] =
                      CASE empty -> Closed(p, Counted(p))
                        [] v = 0 -> [@ EXCEPT !.pc = "unlist"]
                        [] OTHER -> [@ EXCEPT !.pc = "store", !.part = 1]]
        /\ UNCHANGED <<hash, vectors, lockVars, worldVars, loose, faults>>

DeleteRow(p) ==
    /\ run[p].pc = "unlist"
    /\ hash' = [hash EXCEPT ![run[p].file] = 0]
    /\ torn' = torn \ {run[p].file}
    /\ run' = [run EXCEPT ![p] = Closed(p, run[p].count)]
    /\ UNCHANGED <<chunks, vectors, lockVars, worldVars, loose, faults>>

LastPart(p) == run[p].part = Parts[run[p].version]

Stored(p) == IF LastPart(p) THEN Closed(p, Counted(p)) ELSE [run[p] EXCEPT !.part = @ + 1]

\* store_chunks: one autocommitted row at a time, each queued for embedding.
\* Bound: as long as Ids last.
StoreChunk(p) ==
    LET f == run[p].file
        text == <<run[p].version, run[p].part>>
        queue == run[p].queue \cup {[id |-> NewId, text |-> text]}
    IN  /\ run[p].pc = "store" /\ Unused # {}
        /\ chunks' = chunks \cup {[id |-> NewId, file |-> f, text |-> text]}
        /\ torn' = IF LastPart(p) THEN torn \ {f} ELSE torn
        /\ run' = [run EXCEPT ![p] = [Stored(p) EXCEPT !.queue = queue]]
        /\ UNCHANGED <<hash, vectors, lockVars, worldVars, loose, faults>>

\* Mutant: only this run's chunks are queued.
Backfill_None(p) == run[p].queue

\* The union with every stored chunk that has no vector yet.
Backfill(p) == run[p].queue \cup Missing

Parsed(p) ==
    /\ run[p].pc = "parse" /\ run[p].todo = {}
    /\ \A f \in Files : hash[f] # 0 => f \in run[p].seen

----------------------------------------------------------------------------
(***************************************************************************)
(* Embedding and the hand-offs.  Once parsing is over the embedder is      *)
(* probed.                                                                 *)
(***************************************************************************)

NothingToEmbed(p) ==
    /\ Parsed(p) /\ Backfill(p) = {}
    /\ Exits(p)
    /\ UNCHANGED <<dbVars, pidFile, worldVars, loose, faults>>

\* detach_embed_eligible: an embedder worth waiting for.
Eligible(p) == run[p].detach /\ embedder \in {"ready", "loading"}

\* --detach-embed: the lock is dropped before the child is spawned.
DetachEmbed(p) ==
    /\ Parsed(p) /\ Backfill(p) # {} /\ Eligible(p)
    /\ run' = [run EXCEPT ![p] = [Idle EXCEPT !.pc = "spawn", !.job = "embed",
                                  !.queue = Backfill(p), !.ready = embedder = "ready",
                                  !.count = run[p].count]]
    /\ Released(p)
    /\ UNCHANGED <<dbVars, pidFile, worldVars, loose, faults>>

\* An embedder that is not ready is skipped.
EmbedInline(p) ==
    /\ Parsed(p) /\ Backfill(p) # {} /\ ~Eligible(p)
    /\ run' = [run EXCEPT ![p] =
                  IF embedder = "ready"
                  THEN [Idle EXCEPT !.pc = "embed", !.queue = Backfill(p), !.count = run[p].count]
                  ELSE [Idle EXCEPT !.pc = "after", !.count = run[p].count]]
    /\ UNCHANGED <<dbVars, lockVars, worldVars, loose, faults>>

\* insert_embeddings: a batch of the queue in one transaction, replacing what
\* its ids had.
SaveBatch(p) ==
    /\ run[p].pc = "embed" /\ embedder = "ready"
    /\ \E batch \in SUBSET run[p].queue \ {{}} :
          /\ vectors' = {v \in vectors : v.id \notin IdsOf(batch)} \cup batch
          /\ run' = [run EXCEPT ![p].queue = @ \ batch]
    /\ UNCHANGED <<hash, chunks, torn, lockVars, worldVars, loose, faults>>

EmbedEnds(p) ==
    /\ run[p].pc = "embed" /\ run[p].queue = {}
    /\ Goes(p, "after")
    /\ UNCHANGED <<dbVars, lockVars, worldVars, loose, faults>>

\* The embed phase gives up: the embedder is not ready, or a batch fails.
EmbedStops(p) ==
    /\ run[p].pc = "embed" /\ run[p].queue # {}
    /\ IF embedder = "ready"
       THEN faults < MaxFaults /\ faults' = faults + 1
       ELSE UNCHANGED faults
    /\ run' = [run EXCEPT ![p].pc = "after", ![p].queue = {}]
    /\ UNCHANGED <<dbVars, lockVars, worldVars, loose>>

\* Many files were indexed: phases 3-5 go to a child, the lock with them.
DetachPhases(p) ==
    /\ run[p].pc = "after" /\ run[p].count > Large
    /\ run' = [run EXCEPT ![p] = [Idle EXCEPT !.pc = "spawn", !.job = "phases"]]
    /\ Released(p)
    /\ UNCHANGED <<dbVars, pidFile, worldVars, loose, faults>>

\* Phases 3-5 write ranks, summaries and conventions; then the command ends.
\* A child has indexed no file itself.
PhasesInline(p) ==
    /\ run[p].pc = "after" /\ run[p].count <= Large
    /\ Exits(p)
    /\ UNCHANGED <<dbVars, pidFile, worldVars, loose, faults>>

\* The child is a new process, so a pid recorded earlier is not its own.
Spawn(u) ==
    /\ run[Main(u)].pc = "spawn"
    /\ run' = [run EXCEPT ![Main(u)] = [Idle EXCEPT !.pc = "confirm"],
                          ![Child(u)] = [Idle EXCEPT !.pc = "boot", !.job = run[Main(u)].job]]
    /\ pidFile' = IF pidFile = Child(u) THEN NoProc ELSE pidFile
    /\ UNCHANGED <<dbVars, lock, worldVars, loose, faults>>

\* Without a child the run goes on inline, the lock already dropped.
SpawnFails(u) ==
    LET r == run[Main(u)] IN
    /\ r.pc = "spawn"
    /\ faults < MaxFaults /\ faults' = faults + 1
    /\ loose' = TRUE
    /\ run' = [run EXCEPT ![Main(u)] =
                  IF r.ready THEN [r EXCEPT !.pc = "embed", !.job = "none", !.ready = FALSE]
                             ELSE [Idle EXCEPT !.pc = "after", !.count = r.count]]
    /\ UNCHANGED <<dbVars, lockVars, worldVars>>

\* Mutant: any holder of the lock is taken for the child.
HolderIs_Anyone(u) == lock # NoProc

\* wait_for_holder_pid looks for the child's own pid.
HolderIs(u) == pidFile = Child(u)

Confirmed(u) ==
    /\ run[Main(u)].pc = "confirm" /\ HolderIs(u)
    /\ run' = [run EXCEPT ![Main(u)] = Idle]
    /\ UNCHANGED <<dbVars, lockVars, worldVars, loose, faults>>

NotConfirmed(u) ==
    /\ run[Main(u)].pc = "confirm" /\ ~HolderIs(u)
    /\ run' = [run EXCEPT ![Main(u)] = Idle]
    /\ UNCHANGED <<dbVars, lockVars, worldVars, loose, faults>>

\* The child is the same command: it gets the lock at its first try or fails.
ChildStarts(u) ==
    LET c == Child(u) IN
    /\ run[c].pc = "boot"
    /\ \/ /\ Acquired(c)
          /\ run' = [run EXCEPT ![c] = [Idle EXCEPT !.pc = IF run[c].job = "embed" THEN "wait" ELSE "after"],
                                ![Main(u)].took = run[Main(u)].pc = "confirm"]
       \/ /\ lock # NoProc
          /\ run' = [run EXCEPT ![c] = Idle]
          /\ UNCHANGED lockVars
    /\ UNCHANGED <<dbVars, worldVars, loose, faults>>

\* wait_for_embedder, then run_embed_phases rebuilds the queue from the table.
EmbedderReady(u) ==
    LET c == Child(u) IN
    /\ run[c].pc = "wait" /\ embedder = "ready"
    /\ run' = [run EXCEPT ![c].pc = "embed", ![c].queue = Missing]
    /\ UNCHANGED <<dbVars, lockVars, worldVars, loose, faults>>

WaitGivesUp(u) ==
    LET c == Child(u) IN
    /\ run[c].pc = "wait" /\ embedder = "down"
    /\ Goes(c, "after")
    /\ UNCHANGED <<dbVars, lockVars, worldVars, loose, faults>>

----------------------------------------------------------------------------
(***************************************************************************)
(* The world                                                               *)
(***************************************************************************)

\* A kill, or an error a statement returns: the OS drops the lock.
Crash(p) ==
    /\ run[p].pc # "idle"
    /\ faults < MaxFaults /\ faults' = faults + 1
    /\ Exits(p)
    /\ UNCHANGED <<dbVars, pidFile, worldVars, loose>>

Edit(f) ==
    /\ edits < MaxEdits /\ edits' = edits + 1
    /\ \E content \in (Versions \cup {Gone, Opaque}) \ {disk[f]} :
          disk' = [disk EXCEPT ![f] = content]
    /\ UNCHANGED <<dbVars, lockVars, embedder, run, loose, faults>>

EmbedderChanges ==
    /\ embedder' \in {"ready", "loading", "down"} \ {embedder}
    /\ UNCHANGED <<dbVars, lockVars, disk, edits, run, loose, faults>>

ProcessStep(p) ==
    \/ SkipFile(p) \/ UpsertFile(p) \/ \E f \in Files : StaleFile(p, f)
    \/ DeleteEmbeddings(p) \/ DeleteChunks(p) \/ DeleteRow(p) \/ StoreChunk(p)
    \/ NothingToEmbed(p) \/ DetachEmbed(p) \/ EmbedInline(p) \/ SaveBatch(p) \/ EmbedEnds(p)
    \/ DetachPhases(p) \/ PhasesInline(p)

MainStep(u) == ProcessStep(Main(u)) \/ Spawn(u) \/ Confirmed(u) \/ NotConfirmed(u)

ChildStep(u) == ProcessStep(Child(u)) \/ ChildStarts(u) \/ EmbedderReady(u) \/ WaitGivesUp(u)

Next ==
    \/ \E u \in Users, force \in Forced : \E detach \in Detached[u] : StartRun(u, detach, force)
    \/ \E u \in Users : MainStep(u) \/ ChildStep(u) \/ SpawnFails(u)
    \/ \E p \in Procs : EmbedStops(p) \/ Crash(p)
    \/ \E f \in Files : Edit(f)
    \/ EmbedderChanges

Spec == Init /\ [][Next]_vars

\* Fairness: processes run, and somebody keeps running the plain command
\* whenever the lock is free, as every notice of the command advises.  A run
\* that detaches is not enough: its child tries the lock once and may lose it
\* to the next run, and so on for ever.
FairSpec ==
    /\ Spec
    /\ \A u \in Users : WF_vars(MainStep(u)) /\ WF_vars(ChildStep(u))
    /\ SF_vars(\E u \in Users : StartRun(u, FALSE, FALSE))

----------------------------------------------------------------------------
(***************************************************************************)
(* Properties                                                              *)
(***************************************************************************)

TypeOK ==
    /\ disk \in [Files -> Versions \cup {Gone, Opaque}]
    /\ hash \in [Files -> Versions \cup {0}]
    /\ \A c \in chunks : c.id \in Ids /\ c.file \in Files
    /\ lock \in Procs \cup {NoProc} /\ pidFile \in Procs \cup {NoProc}
    /\ lock # NoProc => run[lock].pc # "idle"
    /\ torn \subseteq Files /\ loose \in BOOLEAN

\* The recorded hash tells the truth: a file no interrupted run left half
\* written has exactly the chunks of the version its hash records, each once,
\* and no chunk at all when it has no row.  Two runs never interleave their
\* writes to a file (run_lock with process_text_file and cleanup_stale).
HashMeansChunks ==
    \A f \in Files \ torn :
        /\ TextsOf(f) = IF hash[f] = 0 THEN {} ELSE Cut(hash[f])
        /\ Cardinality(ChunksOf(f)) = Cardinality(TextsOf(f))

\* A vector found under a chunk's id was computed from that chunk's text, even
\* when a run that lost its lock saves a queue it built before another run
\* replaced the chunks: ids are never reused.  And as long as every child could
\* be spawned, no vector outlives its chunk.
VectorsBelong ==
    /\ \A v \in vectors, c \in chunks : v.id = c.id => v.text = c.text
    /\ loose \/ IdsOf(vectors) \subseteq IdsOf(chunks)

\* "Embedding in the background" is said only of a child that took the lock
\* over, never because a third run holds it or because an earlier child of the
\* same terminal did (wait_for_holder_pid).
HandoffTruthful == [][\A u \in Users : Confirmed(u) => run[Main(u)].took]_vars

\* Vectors are work: one disappears only while a run is replacing or removing
\* the file of its chunk.  Whatever is killed, stopped or locked out, what an
\* embed phase saved for other files is there for the next run.
WorkIsKept ==
    [][\A v \in vectors \ vectors' :
          \E c \in chunks : c.id = v.id /\ c.file \in torn]_vars

\* From some time on the embedder is ready and nobody asks for --force, which
\* starts over whatever is there.
Quiet == embedder = "ready" /\ \A u \in Users : ~run[Main(u)].force

Nothing == \A f \in Files : disk[f] = Gone

\* Once things are Quiet, every chunk gets its vector: the backfill
\* picks up what a skipped, stopped, killed or lost embed phase left behind.
\* A project whose last file is gone is not walked any further.
EverythingEmbedded ==
    <>[]Quiet => <>[](Nothing \/ Missing = {})

\* Interrupted inside the window between upsert_file and the last insert, with
\* rows of the file left (or a document, whatever is left): the hash says
\* "unchanged" and a plain run skips it.
Stuck(f) == f \in torn /\ (f \in Docs \/ ChunksOf(f) # {})

Settled(f) ==
    \/ disk[f] \in Versions /\ hash[f] = disk[f] /\ (TextsOf(f) = Cut(disk[f]) \/ Stuck(f))
    \/ disk[f] = Gone /\ hash[f] = 0 /\ ChunksOf(f) = {}
    \/ disk[f] = Opaque

\* The index comes to agree with the working tree, whoever was interrupted or
\* lost a lock on the way, except for files that are Stuck.
IndexConverges ==
    <>[]Quiet => <>[](Nothing \/ \A f \in Files : Settled(f))
============================================================================
