---------------------------- MODULE IndexRunProofs ----------------------------
(***************************************************************************)
(* Theorems about IndexRun, for any number of terminals, files, versions,  *)
(* edits and faults: the recorded hash tells the truth, a vector belongs   *)
(* to the chunk it is found under, "embedding in the background" is true,  *)
(* and no step throws away vectors of a file it is not replacing.          *)
(*                                                                         *)
(* The argument.  Whoever is in the parse phase holds the lock (Locks), so *)
(* one process at a time writes hashes and chunks, and what it has done to *)
(* its file is known exactly (Writing); the file is torn until it is done. *)
(* An id means one text wherever it is mentioned - chunk, vector or queue  *)
(* of a process that lost its lock long ago (OneText) - since new ids are  *)
(* mentioned nowhere.  What a lock holder queues are chunks it will not    *)
(* delete again (Queued).                                                  *)
(***************************************************************************)
EXTENDS IndexRun, NatSets, FiniteSetTheorems, FunctionTheorems, TLAPS

Parsing == {"parse", "clear", "delete", "unlist", "store"}
Places == Parsing \cup {"idle", "spawn", "confirm", "boot", "wait", "embed", "after"}

Texts == Versions \X Nat
Entries == [id : Ids, text : Texts]

Runs == [pc : Places, detach : BOOLEAN, force : BOOLEAN, seen : SUBSET Files, todo : SUBSET Files,
         file : Files \cup {NoFile}, version : Versions \cup {0}, part : Nat,
         queue : SUBSET Entries, ready : BOOLEAN, count : Nat,
         job : {"none", "embed", "phases"}, took : BOOLEAN]

\* The tables and what the processes remember of them are well formed.
Types ==
  /\ hash \in [Files -> Versions \cup {0}]
  /\ chunks \in SUBSET [id : Ids, file : Files, text : Texts] /\ IsFiniteSet(chunks)
  /\ vectors \in SUBSET Entries
  /\ torn \in SUBSET Files
  /\ run \in [Procs -> Runs]

\* Who parses or waits for the embedder holds the lock; who embeds or is at
\* phases 3-5 does, or could not spawn the child it dropped the lock for.
Locks ==
  \A p \in Procs :
    /\ run[p].pc \in Parsing \cup {"wait"} => lock = p
    /\ run[p].pc \in {"embed", "after"} => lock = p \/ loose
    /\ lock = p => run[p].pc \in Parsing \cup {"wait", "embed", "after"}

-----------------------------------------------------------------------------
(* Types *)

\* The two processes of a terminal are its own and not each other's.
LEMMA ProcsProperties ==
  /\ \A u \in Users : Main(u) \in Procs /\ Child(u) \in Procs /\ Main(u) # Child(u)
  /\ \A u, w \in Users : u # w => Main(u) # Main(w) /\ Child(u) # Child(w)
  /\ \A u, w \in Users : Main(u) # Child(w)
  BY DEF Procs, Main, Child

\* A process at rest is a run.
LEMMA IdleType == Idle \in Runs
  BY DEF Idle, Runs, Places, Parsing

\* The places a run goes through.
LEMMA PlaceNames ==
  /\ \A pc \in Parsing : pc \in Places
  /\ "idle" \in Places /\ "spawn" \in Places /\ "confirm" \in Places /\ "boot" \in Places
  /\ "wait" \in Places /\ "embed" \in Places /\ "after" \in Places
  /\ "parse" \in Parsing /\ "clear" \in Parsing /\ "delete" \in Parsing
  /\ "unlist" \in Parsing /\ "store" \in Parsing
  BY DEF Places, Parsing

\* Records of a run stay records of a run, whichever locals a step assigns.
LEMMA TakesFileType ==
  ASSUME NEW r \in Runs, NEW file \in Files, NEW version \in Versions \cup {0},
         NEW todo \in SUBSET Files
  PROVE  [r EXCEPT !.pc = "clear", !.file = file, !.version = version, !.todo = todo] \in Runs
  <1>1. \A pc \in Places :
          [r EXCEPT !.pc = pc, !.file = file, !.version = version, !.todo = todo] \in Runs
    BY DEF Runs
  <1> QED
    BY <1>1, PlaceNames

\* A run that takes up a file that is gone is one.
LEMMA StaleFileType ==
  ASSUME NEW r \in Runs, NEW file \in Files
  PROVE  [r EXCEPT !.pc = "clear", !.file = file, !.version = 0] \in Runs
  <1>1. \A pc \in Places : [r EXCEPT !.pc = pc, !.file = file, !.version = 0] \in Runs
    BY DEF Runs
  <1> QED
    BY <1>1, PlaceNames

\* A run that is done with a file is one.
LEMMA ClosesType ==
  ASSUME NEW r \in Runs, NEW count \in Nat
  PROVE  [r EXCEPT !.pc = "parse", !.file = NoFile, !.version = 0, !.part = 0, !.count = count] \in Runs
  <1>1. \A pc \in Places :
          [r EXCEPT !.pc = pc, !.file = NoFile, !.version = 0, !.part = 0, !.count = count] \in Runs
    BY DEF Runs
  <1> QED
    BY <1>1, PlaceNames

\* A run that goes elsewhere is one, whatever it takes along.
LEMMA MovesType ==
  ASSUME NEW r \in Runs, NEW pc \in Places
  PROVE  /\ [r EXCEPT !.pc = pc] \in Runs
         /\ \A part \in Nat : [r EXCEPT !.pc = pc, !.part = part] \in Runs
         /\ \A queue \in SUBSET Entries : [r EXCEPT !.pc = pc, !.queue = queue] \in Runs
  BY DEF Runs

\* A run with another queue is one.
LEMMA QueueType ==
  ASSUME NEW r \in Runs, NEW queue \in SUBSET Entries
  PROVE  [r EXCEPT !.queue = queue] \in Runs
  BY DEF Runs

\* What the command starts from scratch is a run.
LEMMA FreshType ==
  ASSUME NEW pc \in Places, NEW queue \in SUBSET Entries, NEW count \in Nat,
         NEW job \in {"none", "embed", "phases"}, NEW b \in BOOLEAN
  PROVE  /\ [Idle EXCEPT !.pc = pc] \in Runs
         /\ [Idle EXCEPT !.pc = pc, !.count = count] \in Runs
         /\ [Idle EXCEPT !.pc = pc, !.queue = queue, !.count = count] \in Runs
         /\ [Idle EXCEPT !.pc = pc, !.job = job] \in Runs
         /\ [Idle EXCEPT !.pc = pc, !.job = job, !.queue = queue, !.ready = b, !.count = count] \in Runs
  BY DEF Idle, Runs

\* A run that starts is one.
LEMMA StartType ==
  ASSUME NEW detach \in BOOLEAN, NEW force \in BOOLEAN, NEW found \in SUBSET Files
  PROVE  [Idle EXCEPT !.pc = "parse", !.detach = detach, !.force = force,
                      !.seen = found, !.todo = found] \in Runs
  BY DEF Idle, Runs, Places, Parsing

\* Setting the run of one process.
LEMMA RunSet ==
  ASSUME Types, NEW p \in Procs, NEW new \in Runs, run' = [run EXCEPT ![p] = new]
  PROVE  run' \in [Procs -> Runs] /\ run'[p] = new /\ \A q \in Procs \ {p} : run'[q] = run[q]
  BY DEF Types

\* A process that goes on keeps the type of the runs.
LEMMA GoesType ==
  ASSUME Types, NEW p \in Procs, NEW pc \in Places, Goes(p, pc)
  PROVE  run' \in [Procs -> Runs]
  <1>1. [run[p] EXCEPT !.pc = pc] \in Runs
    BY DEF Types, Runs
  <1> QED
    BY <1>1 DEF Goes, Types

\* Chunks without vector are entries of a queue.
LEMMA MissingType ==
  ASSUME Types
  PROVE  Missing \in SUBSET Entries
  BY DEF Types, Missing, Entries

\* So is what a backfill adds.
LEMMA BackfillType ==
  ASSUME Types, NEW p \in Procs
  PROVE  Backfill(p) \in SUBSET Entries
  BY MissingType DEF Types, Runs, Backfill

\* A new id is one that no chunk, vector or queue mentions.
LEMMA NewIdProperties ==
  ASSUME Unused # {}
  PROVE  /\ NewId \in Ids /\ NewId \notin IdsOf(chunks) /\ NewId \notin IdsOf(vectors)
         /\ \A p \in Procs : NewId \notin IdsOf(run[p].queue)
  <1>1. Unused \in SUBSET Nat
    BY IndexAssumption DEF Unused
  <1>2. NewId \in Unused
    BY <1>1, MinProperties DEF NewId
  <1> QED
    BY <1>2 DEF Unused

\* Counting indexed files stops just above the threshold.
LEMMA CountedType ==
  ASSUME Types, NEW p \in Procs
  PROVE  Counted(p) \in Nat
  <1>1. {run[p].count + 1, Large + 1} \in SUBSET Nat /\ {run[p].count + 1, Large + 1} # {}
    BY IndexAssumption DEF Types, Runs
  <1> QED
    BY <1>1, MinProperties DEF Counted

\* The next file is one of those to do.
LEMMA NextFileProperties ==
  ASSUME Types, NEW p \in Procs, run[p].todo # {}
  PROVE  NextFile(p) \in run[p].todo /\ NextFile(p) \in Files
  <1>1. NextFile(p) \in run[p].todo
    BY DEF NextFile
  <1> QED
    BY <1>1 DEF Types, Runs

\* A run after the file it closed is one.
LEMMA ClosedType ==
  ASSUME Types, NEW p \in Procs, NEW count \in Nat
  PROVE  Closed(p, count) \in Runs
  BY ClosesType DEF Types, Closed

\* What each writing step of the parse phase does to the run of its process.
LEMMA ParseTypes ==
  ASSUME Types, NEW p \in Procs, Locks,
         \/ SkipFile(p) \/ UpsertFile(p) \/ \E f \in Files : StaleFile(p, f)
         \/ DeleteEmbeddings(p) \/ DeleteRow(p)
  PROVE  Types'
  <1>1. CASE SkipFile(p)
    <2>1. [run[p] EXCEPT !.todo = run[p].todo \ {NextFile(p)}] \in Runs
      BY DEF Types, Runs
    <2> QED
      BY <1>1, <2>1 DEF SkipFile, dbVars, Types
  <1>2. CASE UpsertFile(p)
    <2> DEFINE f == NextFile(p)
    <2>0. f \in Files
      BY <1>2, NextFileProperties DEF UpsertFile
    <2>1. [run[p] EXCEPT !.pc = "clear", !.file = f, !.version = disk[f], !.todo = @ \ {f}] \in Runs
      <3>1. run[p] \in Runs /\ run[p].todo \ {f} \in SUBSET Files /\ disk[f] \in Versions \cup {0}
        BY <1>2 DEF UpsertFile, Types, Runs
      <3> HIDE DEF f
      <3> QED
        BY <2>0, <3>1, TakesFileType
    <2> QED
      BY <1>2, <2>0, <2>1 DEF UpsertFile, Types
  <1>3. ASSUME NEW f \in Files, StaleFile(p, f)
        PROVE  Types'
    <2>1. [run[p] EXCEPT !.pc = "clear", !.file = f, !.version = 0] \in Runs
      BY StaleFileType DEF Types
    <2> QED
      BY <1>3, <2>1 DEF StaleFile, Types
  <1>4. CASE DeleteEmbeddings(p)
    BY <1>4, GoesType DEF DeleteEmbeddings, Types, Places, Parsing
  <1>5. CASE DeleteRow(p)
    <2>1. Closed(p, run[p].count) \in Runs
      BY ClosedType DEF Types, Runs
    <2>2. hash' \in [Files -> Versions \cup {0}]
      BY <1>5 DEF DeleteRow, Types
    <2> QED
      BY <1>5, <2>1, <2>2 DEF DeleteRow, Types
  <1> QED
    BY <1>1, <1>2, <1>3, <1>4, <1>5

\* Deleting the chunks of a file keeps the types.
LEMMA DeleteChunksTypes ==
  ASSUME Types, NEW p \in Procs, DeleteChunks(p)
  PROVE  Types'
  <1> DEFINE v == run[p].version
             empty == v # 0 /\ Parts[v] = 0
             new == CASE empty -> Closed(p, Counted(p))
                      [] v = 0 -> [run[p] EXCEPT !.pc = "unlist"]
                      [] OTHER -> [run[p] EXCEPT !.pc = "store", !.part = 1]
  <1>1. new \in Runs
    <2>1. Closed(p, Counted(p)) \in Runs
      BY ClosedType, CountedType
    <2>2. [run[p] EXCEPT !.pc = "unlist"] \in Runs
      BY MovesType, PlaceNames DEF Types
    <2>3. [run[p] EXCEPT !.pc = "store", !.part = 1] \in Runs
      BY MovesType, PlaceNames DEF Types
    <2> QED
      BY <2>1, <2>2, <2>3
  <1>2. run' = [run EXCEPT ![p] = new]
    BY DEF DeleteChunks
  <1>3. /\ chunks' \in SUBSET [id : Ids, file : Files, text : Texts] /\ IsFiniteSet(chunks')
    <2>1. chunks' \in SUBSET chunks
      BY DEF DeleteChunks
    <2> QED
      BY <2>1, FS_Subset DEF Types
  <1> HIDE DEF new
  <1> QED
    BY <1>1, <1>2, <1>3 DEF DeleteChunks, Types

\* The run of a process that stored a chunk, and what it stored.
LEMMA StoreChunkTypes ==
  ASSUME Types, NEW p \in Procs, StoreChunk(p), run[p].file \in Files, run[p].version \in Versions
  PROVE  Types'
  <1> DEFINE text == <<run[p].version, run[p].part>>
             queue == run[p].queue \cup {[id |-> NewId, text |-> text]}
  <1>0. run[p] \in Runs /\ text \in Texts /\ NewId \in Ids
    BY NewIdProperties DEF StoreChunk, Types, Runs, Texts
  <1>1. queue \in SUBSET Entries
    BY <1>0 DEF Runs, Entries
  <1>2. Stored(p) \in Runs
    <2>1. Closed(p, Counted(p)) \in Runs
      BY ClosedType, CountedType
    <2>2. [run[p] EXCEPT !.part = @ + 1] \in Runs
      BY <1>0 DEF Runs
    <2> QED
      BY <2>1, <2>2 DEF Stored
  <1>3. run' = [run EXCEPT ![p] = [Stored(p) EXCEPT !.queue = queue]]
    BY DEF StoreChunk
  <1>4. [Stored(p) EXCEPT !.queue = queue] \in Runs
    <2> HIDE DEF queue
    <2> QED
      BY <1>1, <1>2, QueueType
  <1>5. chunks' \in SUBSET [id : Ids, file : Files, text : Texts] /\ IsFiniteSet(chunks')
    <2>1. chunks' = chunks \cup {[id |-> NewId, file |-> run[p].file, text |-> text]}
      BY DEF StoreChunk
    <2>2. chunks' \in SUBSET [id : Ids, file : Files, text : Texts]
      BY <1>0, <2>1 DEF Types
    <2>3. IsFiniteSet(chunks')
      BY <2>1, FS_AddElement DEF Types
    <2> QED
      BY <2>2, <2>3
  <1> HIDE DEF queue, text
  <1> QED
    BY <1>3, <1>4, <1>5 DEF StoreChunk, Types

\* Saving a batch of vectors keeps the types.
LEMMA SaveBatchTypes ==
  ASSUME Types, NEW p \in Procs, SaveBatch(p)
  PROVE  Types'
  <1>1. PICK batch \in SUBSET run[p].queue \ {{}} :
          /\ vectors' = {v \in vectors : v.id \notin IdsOf(batch)} \cup batch
          /\ run' = [run EXCEPT ![p].queue = @ \ batch]
    BY DEF SaveBatch
  <1>2. run[p] \in Runs /\ run[p].queue \in SUBSET Entries
    BY DEF Types, Runs
  <1>3. [run[p] EXCEPT !.queue = @ \ batch] \in Runs
    BY <1>2, QueueType
  <1>4. vectors' \in SUBSET Entries
    BY <1>1, <1>2 DEF Types
  <1> QED
    BY <1>1, <1>3, <1>4 DEF SaveBatch, Types

-----------------------------------------------------------------------------
(* Steps that leave the tables alone *)

\* A process goes on with what it has, ...
Keeps(q) ==
  /\ run'[q].pc = run[q].pc /\ run'[q].queue = run[q].queue /\ run'[q].seen = run[q].seen
  /\ run'[q].todo \subseteq run[q].todo /\ run'[q].file = run[q].file
  /\ run'[q].version = run[q].version /\ run'[q].part = run[q].part

\* ... begins a run, or is past its parse phase, with a queue of what it had
\* and of what is missing.
Begins(q) == run'[q].pc = "parse" /\ run'[q].queue = {} /\ run'[q].todo = run'[q].seen

Passes(q) ==
  /\ run'[q].pc \notin Parsing
  /\ run'[q].queue \subseteq run[q].queue \cup Missing
  /\ run'[q].pc = "embed" => loose' \/ run[q].pc = "parse" \/ run'[q].queue \subseteq Missing

Moves(q) == Keeps(q) \/ Begins(q) \/ Passes(q)

\* One process that moves by itself leaves the others where they are.
LEMMA OneMoves ==
  ASSUME Types, UNCHANGED dbVars, NEW p \in Procs, NEW new \in Runs,
         run' = [run EXCEPT ![p] = new], Moves(p)
  PROVE  Types' /\ \A q \in Procs : Moves(q)
  <1>1. Types'
    BY RunSet DEF Types, dbVars
  <1>2. ASSUME NEW q \in Procs \ {p}
        PROVE  Moves(q)
    BY RunSet DEF Moves, Keeps
  <1> QED
    BY <1>1, <1>2

\* These steps of a process change no row.
LEMMA QuietProcessSteps ==
  ASSUME Types, NEW p \in Procs,
         \/ SkipFile(p) \/ NothingToEmbed(p) \/ DetachEmbed(p) \/ EmbedInline(p) \/ EmbedEnds(p)
         \/ DetachPhases(p) \/ PhasesInline(p) \/ EmbedStops(p) \/ Crash(p)
  PROVE  /\ Types' /\ UNCHANGED <<dbVars, loose>>
         /\ \A q \in Procs : Moves(q)
  <1>0. run[p] \in Runs /\ run[p].count \in Nat /\ Backfill(p) \in SUBSET Entries
    BY BackfillType DEF Types, Runs
  <1>1. CASE SkipFile(p)
    <2>1. [run[p] EXCEPT !.todo = @ \ {NextFile(p)}] \in Runs
      BY <1>0 DEF Runs
    <2>2. run' = [run EXCEPT ![p] = [run[p] EXCEPT !.todo = @ \ {NextFile(p)}]]
      BY <1>1 DEF SkipFile
    <2>3. Moves(p)
      BY <1>0, <2>1, <2>2, RunSet DEF Moves, Keeps, Runs
    <2> QED
      BY <1>1, <2>1, <2>2, <2>3, OneMoves DEF SkipFile
  <1>2. CASE NothingToEmbed(p) \/ PhasesInline(p) \/ Crash(p)
    <2>1. run' = [run EXCEPT ![p] = Idle] /\ UNCHANGED <<dbVars, loose>>
      BY <1>2 DEF NothingToEmbed, PhasesInline, Crash, Exits
    <2>2. Moves(p)
      BY <2>1, IdleType, RunSet DEF Moves, Passes, Idle, Parsing
    <2> QED
      BY <2>1, <2>2, IdleType, OneMoves
  <1>3. CASE DetachEmbed(p)
    <2> DEFINE new == [Idle EXCEPT !.pc = "spawn", !.job = "embed", !.queue = Backfill(p),
                                   !.ready = embedder = "ready", !.count = run[p].count]
    <2>1. new \in Runs
      BY <1>0, FreshType, PlaceNames
    <2>2. run' = [run EXCEPT ![p] = new] /\ UNCHANGED <<dbVars, loose>>
      BY <1>3 DEF DetachEmbed
    <2>3. new.pc = "spawn" /\ new.queue = run[p].queue \cup Missing
      BY DEF Idle, Backfill
    <2> HIDE DEF new
    <2>4. Moves(p)
      BY <2>1, <2>2, <2>3, RunSet DEF Moves, Passes, Parsing
    <2> QED
      BY <2>1, <2>2, <2>4, OneMoves
  <1>4. CASE EmbedInline(p)
    <2> DEFINE new == IF embedder = "ready"
                      THEN [Idle EXCEPT !.pc = "embed", !.queue = Backfill(p), !.count = run[p].count]
                      ELSE [Idle EXCEPT !.pc = "after", !.count = run[p].count]
    <2>1. new \in Runs
      BY <1>0, FreshType, PlaceNames
    <2>2. run' = [run EXCEPT ![p] = new] /\ UNCHANGED <<dbVars, loose>> /\ run[p].pc = "parse"
      BY <1>4 DEF EmbedInline, Parsed
    <2>3. new.pc \in {"embed", "after"} /\ new.queue \subseteq run[p].queue \cup Missing
      BY DEF Idle, Backfill
    <2> HIDE DEF new
    <2>4. Moves(p)
      BY <2>1, <2>2, <2>3, RunSet DEF Moves, Passes, Parsing
    <2> QED
      BY <2>1, <2>2, <2>4, OneMoves
  <1>5. CASE EmbedEnds(p) \/ EmbedStops(p)
    <2> DEFINE new == IF EmbedEnds(p) THEN [run[p] EXCEPT !.pc = "after"]
                                      ELSE [run[p] EXCEPT !.pc = "after", !.queue = {}]
    <2>1. new \in Runs
      BY <1>0, MovesType, PlaceNames
    <2>2. run' = [run EXCEPT ![p] = new] /\ UNCHANGED <<dbVars, loose>>
      BY <1>5 DEF EmbedEnds, EmbedStops, Goes
    <2>3. new.pc = "after" /\ new.queue \subseteq run[p].queue
      BY <1>0 DEF Runs
    <2> HIDE DEF new
    <2>4. Moves(p)
      BY <2>1, <2>2, <2>3, RunSet DEF Moves, Passes, Parsing
    <2> QED
      BY <2>1, <2>2, <2>4, OneMoves
  <1>6. CASE DetachPhases(p)
    <2> DEFINE new == [Idle EXCEPT !.pc = "spawn", !.job = "phases"]
    <2>1. new \in Runs
      BY FreshType, PlaceNames
    <2>2. run' = [run EXCEPT ![p] = new] /\ UNCHANGED <<dbVars, loose>>
      BY <1>6 DEF DetachPhases
    <2>3. new.pc = "spawn" /\ new.queue = {}
      BY DEF Idle
    <2> HIDE DEF new
    <2>4. Moves(p)
      BY <2>1, <2>2, <2>3, RunSet DEF Moves, Passes, Parsing
    <2> QED
      BY <2>1, <2>2, <2>4, OneMoves
  <1> QED
    BY <1>1, <1>2, <1>3, <1>4, <1>5, <1>6

\* Nor do those of a terminal, its spawns included.
LEMMA QuietUserSteps ==
  ASSUME Types, NEW u \in Users,
         \/ \E force \in Forced : \E detach \in Detached[u] : StartRun(u, detach, force)
         \/ Spawn(u) \/ SpawnFails(u) \/ Confirmed(u) \/ NotConfirmed(u)
         \/ ChildStarts(u) \/ EmbedderReady(u) \/ WaitGivesUp(u)
  PROVE  /\ Types' /\ UNCHANGED dbVars /\ (loose => loose')
         /\ \A q \in Procs : Moves(q)
  <1> DEFINE p == Main(u)
             c == Child(u)
  <1>0. /\ p \in Procs /\ c \in Procs /\ p # c
        /\ run[p] \in Runs /\ run[p].count \in Nat /\ run[p].queue \in SUBSET Entries
        /\ run[c] \in Runs /\ run[p].job \in {"none", "embed", "phases"}
    BY ProcsProperties DEF Types, Runs
  <1> HIDE DEF p, c
  <1>1. ASSUME NEW force \in Forced, NEW detach \in Detached[u], StartRun(u, detach, force)
        PROVE  /\ Types' /\ UNCHANGED <<dbVars, loose>>
               /\ \A q \in Procs : Moves(q)
    <2> DEFINE found == {f \in Files : disk[f] # Gone}
               new == [Idle EXCEPT !.pc = "parse", !.detach = detach, !.force = force,
                                   !.seen = found, !.todo = found]
    <2>1. new \in Runs
      <3>1. detach \in BOOLEAN /\ force \in BOOLEAN /\ found \in SUBSET Files
        BY IndexAssumption
      <3> HIDE DEF found
      <3> QED
        BY <3>1, StartType
    <2>2. UNCHANGED <<dbVars, loose>>
      BY <1>1 DEF StartRun
    <2>3. CASE UNCHANGED run
      BY <2>2, <2>3 DEF Moves, Keeps, Types, dbVars
    <2>4. CASE run' = [run EXCEPT ![p] = new]
      <3>1. new.pc = "parse" /\ new.queue = {} /\ new.todo = new.seen
        BY DEF Idle
      <3> HIDE DEF new
      <3>2. Moves(p)
        BY <1>0, <2>1, <2>4, <3>1, RunSet DEF Moves, Begins
      <3> QED
        BY <1>0, <2>1, <2>2, <2>4, <3>2, OneMoves
    <2> QED
      BY <1>1, <2>3, <2>4 DEF StartRun, p
  <1>2. CASE Spawn(u)
    <2> DEFINE new == [Idle EXCEPT !.pc = "boot", !.job = run[p].job]
               old == [Idle EXCEPT !.pc = "confirm"]
    <2>1. new \in Runs /\ old \in Runs
      BY <1>0, FreshType, PlaceNames
    <2>2. new.pc = "boot" /\ new.queue = {} /\ old.pc = "confirm" /\ old.queue = {}
      BY DEF Idle
    <2>3. run' = [run EXCEPT ![p] = old, ![c] = new] /\ UNCHANGED <<dbVars, loose>>
      BY <1>2 DEF Spawn, p, c
    <2> HIDE DEF new, old
    <2>4. /\ run' \in [Procs -> Runs] /\ run'[p] = old /\ run'[c] = new
          /\ \A q \in Procs \ {p, c} : run'[q] = run[q]
      BY <1>0, <2>1, <2>3 DEF Types
    <2>5. Moves(p) /\ Moves(c)
      BY <2>2, <2>4 DEF Moves, Passes, Parsing
    <2>6. \A q \in Procs \ {p, c} : Moves(q)
      BY <2>4 DEF Moves, Keeps
    <2> QED
      BY <2>3, <2>4, <2>5, <2>6 DEF Types, dbVars
  <1>3. CASE SpawnFails(u)
    <2> DEFINE new == IF run[p].ready THEN [run[p] EXCEPT !.pc = "embed", !.job = "none", !.ready = FALSE]
                                      ELSE [Idle EXCEPT !.pc = "after", !.count = run[p].count]
    <2>1. new \in Runs
      <3>1. \A pc \in Places : [run[p] EXCEPT !.pc = pc, !.job = "none", !.ready = FALSE] \in Runs
        BY <1>0 DEF Runs
      <3>2. [Idle EXCEPT !.pc = "after", !.count = run[p].count] \in Runs
        BY <1>0, FreshType, PlaceNames
      <3> QED
        BY <3>1, <3>2, PlaceNames
    <2>2. run' = [run EXCEPT ![p] = new] /\ UNCHANGED dbVars /\ loose'
      BY <1>3 DEF SpawnFails, p
    <2>3. new.pc \in {"embed", "after"} /\ new.queue \subseteq run[p].queue
      BY <1>0 DEF Idle, Runs
    <2> HIDE DEF new
    <2>4. Moves(p)
      BY <1>0, <2>1, <2>2, <2>3, RunSet DEF Moves, Passes, Parsing
    <2> QED
      BY <1>0, <2>1, <2>2, <2>4, OneMoves
  <1>4. CASE Confirmed(u) \/ NotConfirmed(u)
    <2>1. run' = [run EXCEPT ![p] = Idle] /\ UNCHANGED <<dbVars, loose>>
      BY <1>4 DEF Confirmed, NotConfirmed, p
    <2>2. Moves(p)
      BY <1>0, <2>1, IdleType, RunSet DEF Moves, Passes, Idle, Parsing
    <2> QED
      BY <1>0, <2>1, <2>2, IdleType, OneMoves
  <1>5. CASE ChildStarts(u)
    <2>0. UNCHANGED <<dbVars, loose>>
      BY <1>5 DEF ChildStarts
    <2> DEFINE new == [Idle EXCEPT !.pc = IF run[c].job = "embed" THEN "wait" ELSE "after"]
               old == [run[p] EXCEPT !.took = run[p].pc = "confirm"]
    <2>1. CASE run' = [run EXCEPT ![c] = new, ![p].took = run[p].pc = "confirm"]
      <3>1. new \in Runs
        BY FreshType, PlaceNames
      <3>2. old \in Runs
        <4>1. \A b \in BOOLEAN : [run[p] EXCEPT !.took = b] \in Runs
          BY <1>0 DEF Runs
        <4> QED
          BY <4>1
      <3>3. /\ new.pc \in {"wait", "after"} /\ new.queue = {}
            /\ old.pc = run[p].pc /\ old.queue = run[p].queue /\ old.seen = run[p].seen
            /\ old.todo = run[p].todo /\ old.file = run[p].file
            /\ old.version = run[p].version /\ old.part = run[p].part
        BY <1>0 DEF Idle, Runs
      <3>4. run' = [run EXCEPT ![c] = new, ![p] = old]
        BY <1>0, <2>1 DEF Types
      <3> HIDE DEF new, old
      <3>5. /\ run' \in [Procs -> Runs] /\ run'[p] = old /\ run'[c] = new
            /\ \A q \in Procs \ {p, c} : run'[q] = run[q]
        BY <1>0, <3>1, <3>2, <3>4 DEF Types
      <3>6. Moves(p) /\ Moves(c)
        BY <3>3, <3>5 DEF Moves, Keeps, Passes, Parsing
      <3>7. \A q \in Procs \ {p, c} : Moves(q)
        BY <3>5 DEF Moves, Keeps
      <3> QED
        BY <2>0, <3>5, <3>6, <3>7 DEF Types, dbVars
    <2>2. CASE run' = [run EXCEPT ![c] = Idle]
      <3>1. Moves(c)
        BY <1>0, <2>2, IdleType, RunSet DEF Moves, Passes, Idle, Parsing
      <3> QED
        BY <1>0, <2>0, <2>2, <3>1, IdleType, OneMoves
    <2> QED
      BY <1>5, <2>1, <2>2 DEF ChildStarts, p, c
  <1>6. CASE EmbedderReady(u) \/ WaitGivesUp(u)
    <2> DEFINE new == IF EmbedderReady(u) THEN [run[c] EXCEPT !.pc = "embed", !.queue = Missing]
                                          ELSE [run[c] EXCEPT !.pc = "after"]
    <2>1. new \in Runs
      BY <1>0, MovesType, MissingType, PlaceNames
    <2>2. run' = [run EXCEPT ![c] = new] /\ UNCHANGED <<dbVars, loose>>
      BY <1>6 DEF EmbedderReady, WaitGivesUp, Goes, c
    <2>3. \/ new.pc = "embed" /\ new.queue = Missing
          \/ new.pc = "after" /\ new.queue = run[c].queue
      BY <1>0 DEF Runs
    <2> HIDE DEF new
    <2>4. Moves(c)
      BY <1>0, <2>1, <2>2, <2>3, RunSet DEF Moves, Passes, Parsing
    <2> QED
      BY <1>0, <2>1, <2>2, <2>4, OneMoves
  <1> QED
    BY <1>1, <1>2, <1>3, <1>4, <1>5, <1>6

\* Nor does an edit, or another model in the embedder.
LEMMA WorldSteps ==
  ASSUME Types, \/ \E f \in Files : Edit(f) 
                \/ EmbedderChanges \/ UNCHANGED vars
  PROVE  /\ Types' /\ UNCHANGED <<dbVars, loose, lockVars, run>>
         /\ \A q \in Procs : Moves(q)
  <1>1. UNCHANGED <<dbVars, loose, lockVars, run>>
    BY DEF Edit, EmbedderChanges, vars
  <1> QED
    BY <1>1 DEF Moves, Keeps, Types, dbVars

-----------------------------------------------------------------------------
(* The lock *)

\* Each terminal has one command or its one child at work, and a child that is
\* recorded as holder of the lock got it while its parent was waiting for that.
Children ==
  \A u \in Users :
    /\ run[Main(u)].pc \notin {"idle", "confirm"} => run[Child(u)].pc = "idle"
    /\ run[Main(u)].pc = "confirm" /\ pidFile = Child(u) => run[Main(u)].took


\* A process goes on with or without the lock as it is, or leaves it; a
\* process that took no part has its run unchanged.
Holding == Parsing \cup {"wait", "embed", "after"}

Works(p) ==
  /\ UNCHANGED lockVars
  /\ \/ run[p].pc \in Parsing /\ run'[p].pc \in Holding \ {"wait"}
     \/ run[p].pc \in {"embed", "after"} /\ run'[p].pc \in {"embed", "after"}

Leaves(p) ==
  /\ Released(p) /\ UNCHANGED pidFile
  /\ run'[p].pc \in {"idle", "spawn"}
  /\ run[p].pc # "idle" /\ (run'[p].pc = "spawn" => run[p].pc \in Holding)

Alone(p) == \A q \in Procs \ {p} : run'[q] = run[q]

\* A process step is of the lock's holder at work or leaving.
LEMMA ProcessTurns ==
  ASSUME Types, NEW p \in Procs, ProcessStep(p) \/ EmbedStops(p) \/ Crash(p)
  PROVE  Alone(p) /\ UNCHANGED loose /\ (Works(p) \/ Leaves(p))
  <1>0. run[p] \in Runs
    BY DEF Types
  <1>1. UNCHANGED loose
    BY DEF ProcessStep, SkipFile, UpsertFile, StaleFile, DeleteEmbeddings, DeleteChunks, DeleteRow,
           StoreChunk, NothingToEmbed, DetachEmbed, EmbedInline, SaveBatch, EmbedEnds, DetachPhases,
           PhasesInline, EmbedStops, Crash
  <1>2. Alone(p)
    <2>1. \A new : run' = [run EXCEPT ![p] = new] => Alone(p)
      BY DEF Alone, Types
    <2> QED
      BY <2>1 DEF ProcessStep, SkipFile, UpsertFile, StaleFile, DeleteEmbeddings, DeleteChunks, DeleteRow,
           StoreChunk, NothingToEmbed, DetachEmbed, EmbedInline, SaveBatch, EmbedEnds, DetachPhases,
           PhasesInline, EmbedStops, Crash, Exits, Goes
  <1>3. CASE SkipFile(p) \/ UpsertFile(p) \/ (\E f \in Files : StaleFile(p, f))
             \/ DeleteEmbeddings(p) \/ DeleteRow(p)
    <2>1. run[p].pc \in Parsing /\ UNCHANGED lockVars
      BY <1>3 DEF SkipFile, UpsertFile, StaleFile, DeleteEmbeddings, DeleteRow, Parsing
    <2>2. ASSUME SkipFile(p)
          PROVE  run'[p].pc \in Parsing
      BY <1>0, <2>1, <2>2 DEF SkipFile, Types, Runs
    <2>3. ASSUME UpsertFile(p)
          PROVE  run'[p].pc \in Parsing
      <3>1. run'[p] = [run[p] EXCEPT !.pc = "clear", !.file = NextFile(p), !.version = disk[NextFile(p)],
                                     !.todo = @ \ {NextFile(p)}]
        BY <2>3 DEF UpsertFile, Types
      <3>2. run'[p].pc = "clear"
        BY <1>0, <3>1 DEF Runs
      <3> QED
        BY <3>2 DEF Parsing
    <2>4. ASSUME NEW f \in Files, StaleFile(p, f)
          PROVE  run'[p].pc \in Parsing
      <3>1. run'[p] = [run[p] EXCEPT !.pc = "clear", !.file = f, !.version = 0]
        BY <2>4 DEF StaleFile, Types
      <3>2. run'[p].pc = "clear"
        BY <1>0, <3>1 DEF Runs
      <3> QED
        BY <3>2 DEF Parsing
    <2>5. ASSUME DeleteEmbeddings(p)
          PROVE  run'[p].pc \in Parsing
      <3>1. run'[p] = [run[p] EXCEPT !.pc = "delete"]
        BY <2>5 DEF DeleteEmbeddings, Goes, Types
      <3>2. run'[p].pc = "delete"
        BY <1>0, <3>1 DEF Runs
      <3> QED
        BY <3>2 DEF Parsing
    <2>6. ASSUME DeleteRow(p)
          PROVE  run'[p].pc \in Parsing
      <3>1. run'[p] = Closed(p, run[p].count)
        BY <2>6 DEF DeleteRow, Types
      <3>2. run'[p].pc = "parse"
        BY <1>0, <3>1 DEF Closed, Runs
      <3> QED
        BY <3>2 DEF Parsing
    <2>7. run'[p].pc \in Parsing
      BY <1>3, <2>1, <2>2, <2>3, <2>4, <2>5, <2>6
    <2> QED
      BY <1>1, <1>2, <2>1, <2>7 DEF Works, Holding, Parsing
  <1>4. CASE DeleteChunks(p)
    <2> DEFINE new == CASE run[p].version # 0 /\ Parts[run[p].version] = 0 -> Closed(p, Counted(p))
                        [] run[p].version = 0 -> [run[p] EXCEPT !.pc = "unlist"]
                        [] OTHER -> [run[p] EXCEPT !.pc = "store", !.part = 1]
    <2>1. new.pc \in {"parse", "unlist", "store"}
      BY <1>0 DEF Closed, Runs
    <2>2. run' = [run EXCEPT ![p] = new] /\ run[p].pc = "delete" /\ UNCHANGED lockVars
      BY <1>4 DEF DeleteChunks
    <2> HIDE DEF new
    <2> QED
      BY <1>1, <1>2, <2>1, <2>2 DEF Works, Holding, Parsing, Types
  <1>5. CASE StoreChunk(p)
    <2> DEFINE queue == run[p].queue \cup {[id |-> NewId, text |-> <<run[p].version, run[p].part>>]}
               new == [Stored(p) EXCEPT !.queue = queue]
    <2>1. run' = [run EXCEPT ![p] = new] /\ run[p].pc = "store" /\ UNCHANGED lockVars
      BY <1>5 DEF StoreChunk
    <2> HIDE DEF queue
    <2>2. new.pc \in {"parse", "store"}
      BY <1>0, <2>1 DEF Stored, Closed, Runs
    <2> HIDE DEF new
    <2> QED
      BY <1>1, <1>2, <2>1, <2>2 DEF Works, Holding, Parsing, Types
  <1>6. CASE NothingToEmbed(p) \/ PhasesInline(p) \/ Crash(p)
    <2>1. run'[p].pc = "idle" /\ Released(p) /\ UNCHANGED pidFile /\ run[p].pc # "idle"
      BY <1>6 DEF NothingToEmbed, PhasesInline, Crash, Exits, Parsed, Idle, Types
    <2> QED
      BY <1>1, <1>2, <2>1 DEF Leaves
  <1>7. CASE DetachEmbed(p) \/ DetachPhases(p)
    <2>1. Released(p) /\ UNCHANGED pidFile /\ run[p].pc \in {"parse", "after"}
      BY <1>7 DEF DetachEmbed, DetachPhases, Parsed
    <2>2. ASSUME DetachEmbed(p)
          PROVE  run'[p].pc = "spawn"
      <3>1. run'[p] = [Idle EXCEPT !.pc = "spawn", !.job = "embed", !.queue = Backfill(p),
                                   !.ready = embedder = "ready", !.count = run[p].count]
        BY <2>2 DEF DetachEmbed, Types
      <3> QED
        BY <3>1 DEF Idle
    <2>3. ASSUME DetachPhases(p)
          PROVE  run'[p].pc = "spawn"
      <3>1. run'[p] = [Idle EXCEPT !.pc = "spawn", !.job = "phases"]
        BY <2>3 DEF DetachPhases, Types
      <3> QED
        BY <3>1 DEF Idle
    <2>4. run'[p].pc = "spawn"
      BY <1>7, <2>2, <2>3
    <2> QED
      BY <1>1, <1>2, <2>1, <2>4 DEF Leaves, Holding, Parsing
  <1>8. CASE EmbedInline(p)
    <2>1. run'[p].pc \in {"embed", "after"} /\ run[p].pc = "parse" /\ UNCHANGED lockVars
      BY <1>8 DEF EmbedInline, Parsed, Idle, Types
    <2> QED
      BY <1>1, <1>2, <2>1 DEF Works, Holding, Parsing
  <1>9. CASE SaveBatch(p) \/ EmbedEnds(p) \/ EmbedStops(p)
    <2>1. /\ run[p].pc = "embed" /\ UNCHANGED lockVars
          /\ run'[p].pc \in {"embed", "after"}
      BY <1>0, <1>9 DEF SaveBatch, EmbedEnds, EmbedStops, Goes, Types, Runs
    <2> QED
      BY <1>1, <1>2, <2>1 DEF Works
  <1> QED
    BY <1>3, <1>4, <1>5, <1>6, <1>7, <1>8, <1>9 DEF ProcessStep

\* Such a step keeps the lock's account.
LEMMA ProcessLocks ==
  ASSUME Types, Locks, Children, NEW p \in Procs, Alone(p), UNCHANGED loose, Works(p) \/ Leaves(p)
  PROVE  Locks' /\ Children'
  <1>1. Locks'
    <2>1. CASE Works(p)
      BY <2>1, NoProcAssumption DEF Locks, Alone, Works, lockVars, Holding, Parsing
    <2>2. CASE Leaves(p)
      BY <2>2, NoProcAssumption DEF Locks, Alone, Leaves, Released, Parsing
    <2> QED
      BY <2>1, <2>2
  <1>2. ASSUME NEW u \in Users
        PROVE  /\ run'[Main(u)].pc \notin {"idle", "confirm"} => run'[Child(u)].pc = "idle"
               /\ run'[Main(u)].pc = "confirm" /\ pidFile' = Child(u) => run'[Main(u)].took
    <2>0. Main(u) \in Procs /\ Child(u) \in Procs /\ Main(u) # Child(u) /\ pidFile' = pidFile
      BY ProcsProperties DEF Works, Leaves, lockVars
    <2>1. CASE p = Main(u)
      <3>1. run'[Child(u)] = run[Child(u)] /\ run'[p].pc # "confirm"
        BY <2>0, <2>1 DEF Alone, Works, Leaves, Holding, Parsing
      <3>2. run'[p].pc # "idle" => run[p].pc \notin {"idle", "confirm"}
        BY DEF Works, Leaves, Holding, Parsing
      <3> QED
        BY <2>1, <3>1, <3>2 DEF Children
    <2>2. CASE p = Child(u)
      <3>1. run'[Main(u)] = run[Main(u)] /\ run[p].pc # "idle"
        BY <2>0, <2>2 DEF Alone, Works, Leaves, Parsing
      <3> QED
        BY <2>0, <2>2, <3>1 DEF Children
    <2>3. CASE p \notin {Main(u), Child(u)}
      BY <2>0, <2>3 DEF Alone, Children
    <2> QED
      BY <2>1, <2>2, <2>3
  <1> QED
    BY <1>1, <1>2 DEF Children

\* So do the steps of a terminal, which take the lock and hand it to the child.
LEMMA UserLocks ==
  ASSUME Types, Locks, Children, NEW u \in Users,
         \/ \E force \in Forced : \E detach \in Detached[u] : StartRun(u, detach, force)
         \/ Spawn(u) \/ SpawnFails(u) \/ Confirmed(u) \/ NotConfirmed(u)
         \/ ChildStarts(u) \/ EmbedderReady(u) \/ WaitGivesUp(u)
  PROVE  Locks' /\ Children'
  <1> DEFINE p == Main(u)
             c == Child(u)
  <1>0. /\ p \in Procs /\ c \in Procs /\ p # c /\ run[p] \in Runs /\ run[c] \in Runs
        /\ p[2] = "main" /\ c[2] = "child" /\ NoProc \notin Procs
    BY ProcsProperties, NoProcAssumption DEF Types, Main, Child
  <1>a. \A w \in Users \ {u} : /\ Main(w) \in Procs \ {p, c} /\ Child(w) \in Procs \ {p, c}
                             /\ Main(w) # Child(w)
    BY ProcsProperties
  <1> HIDE DEF p, c
  <1>1. ASSUME NEW force \in Forced, NEW detach \in Detached[u], StartRun(u, detach, force)
        PROVE  Locks' /\ Children'
    <2>1. UNCHANGED loose /\ run[p].pc = "idle" /\ run[c].pc = "idle" /\ lock = NoProc
      BY <1>1 DEF StartRun, Acquired, p, c
    <2>2. /\ Alone(p) /\ pidFile' = NoProc
          /\ \/ lock' = p /\ run'[p].pc = "parse"
             \/ UNCHANGED <<lock, run>>
      <3>1. CASE UNCHANGED <<lock, run>> /\ Recorded(p)
        BY <1>0, <3>1 DEF Alone, Recorded
      <3>2. CASE \E new : /\ run' = [run EXCEPT ![p] = [Idle EXCEPT !.pc = "parse", !.detach = detach,
                                            !.force = force, !.seen = new, !.todo = new]]
                          /\ Acquired(p)
        <4>1. PICK new : run' = [run EXCEPT ![p] = [Idle EXCEPT !.pc = "parse", !.detach = detach,
                                            !.force = force, !.seen = new, !.todo = new]]
          BY <3>2
        <4>2. run'[p].pc = "parse" /\ Alone(p)
          BY <1>0, <4>1 DEF Idle, Types, Alone
        <4> QED
          BY <1>0, <3>2, <4>2 DEF Acquired, Recorded
      <3> QED
        BY <1>1, <3>1, <3>2 DEF StartRun, p
    <2>3. Locks'
      BY <1>0, <2>1, <2>2 DEF Locks, Alone, Parsing
    <2>4. ASSUME NEW w \in Users
          PROVE  /\ run'[Main(w)].pc \notin {"idle", "confirm"} => run'[Child(w)].pc = "idle"
                 /\ run'[Main(w)].pc = "confirm" /\ pidFile' = Child(w) => run'[Main(w)].took
      <3>1. pidFile' # Child(w)
        BY <1>0, <2>2, ProcsProperties
      <3>2. CASE w = u
        BY <1>0, <2>1, <2>2, <3>1, <3>2 DEF Alone, p, c
      <3>3. CASE w # u
        BY <1>a, <2>2, <3>1, <3>3 DEF Alone, Children
      <3> QED
        BY <3>2, <3>3
    <2> QED
      BY <2>3, <2>4 DEF Children
  <1>2. CASE Spawn(u)
    <2>1. /\ UNCHANGED <<loose, lock>> /\ run[p].pc = "spawn" /\ pidFile' \in {pidFile, NoProc} \ {c}
          /\ run' = [run EXCEPT ![p] = [Idle EXCEPT !.pc = "confirm"],
                                ![c] = [Idle EXCEPT !.pc = "boot", !.job = run[p].job]]
      BY <1>0, <1>2 DEF Spawn, p, c
    <2>2. /\ run'[p].pc = "confirm" /\ run'[c].pc = "boot"
          /\ \A q \in Procs \ {p, c} : run'[q] = run[q]
      BY <1>0, <2>1 DEF Idle, Types
    <2>3. run[c].pc = "idle"
      BY <2>1 DEF Children, p, c
    <2>4. Locks'
      BY <1>0, <2>1, <2>2, <2>3 DEF Locks, Parsing
    <2>5. ASSUME NEW w \in Users
          PROVE  /\ run'[Main(w)].pc \notin {"idle", "confirm"} => run'[Child(w)].pc = "idle"
                 /\ run'[Main(w)].pc = "confirm" /\ pidFile' = Child(w) => run'[Main(w)].took
      <3>1. CASE w = u
        BY <2>1, <2>2, <3>1 DEF p, c
      <3>2. CASE w # u
        <4>1. pidFile' = Child(w) => pidFile = Child(w)
          BY <1>0, <2>1, ProcsProperties
        <4> QED
          BY <1>a, <2>2, <3>2, <4>1 DEF Children
      <3> QED
        BY <3>1, <3>2
    <2> QED
      BY <2>4, <2>5 DEF Children
  <1>3. CASE SpawnFails(u) \/ Confirmed(u) \/ NotConfirmed(u)
    <2>1. UNCHANGED lockVars /\ Alone(p) /\ run[p].pc \in {"spawn", "confirm"} /\ (loose => loose')
      BY <1>3 DEF SpawnFails, Confirmed, NotConfirmed, Alone, Types, p
    <2>2. ASSUME SpawnFails(u)
          PROVE  loose' /\ run[p].pc = "spawn" /\ run'[p].pc \in {"embed", "after"}
      <3>1. /\ loose' /\ run[p].pc = "spawn"
            /\ run'[p] = IF run[p].ready THEN [run[p] EXCEPT !.pc = "embed", !.job = "none", !.ready = FALSE]
                                          ELSE [Idle EXCEPT !.pc = "after", !.count = run[p].count]
        BY <1>0, <2>2 DEF SpawnFails, Types, p
      <3> QED
        BY <1>0, <3>1 DEF Idle, Runs
    <2>3. ASSUME Confirmed(u) \/ NotConfirmed(u)
          PROVE  run'[p].pc = "idle"
      BY <1>0, <2>3 DEF Confirmed, NotConfirmed, Idle, Types, p
    <2>4. Locks'
      BY <1>0, <1>3, <2>1, <2>2, <2>3 DEF Locks, Alone, lockVars, Parsing
    <2>5. ASSUME NEW w \in Users
          PROVE  /\ run'[Main(w)].pc \notin {"idle", "confirm"} => run'[Child(w)].pc = "idle"
                 /\ run'[Main(w)].pc = "confirm" /\ pidFile' = Child(w) => run'[Main(w)].took
      <3>1. CASE w = u
        <4>1. run'[p].pc # "confirm" /\ (run'[p].pc # "idle" => run[p].pc = "spawn")
          BY <1>3, <2>2, <2>3
        <4>2. run'[c] = run[c]
          BY <1>0, <2>1 DEF Alone
        <4> QED
          BY <3>1, <4>1, <4>2 DEF Children, p, c
      <3>2. CASE w # u
        BY <1>a, <2>1, <3>2 DEF Children, Alone, lockVars
      <3> QED
        BY <3>1, <3>2
    <2> QED
      BY <2>4, <2>5 DEF Children
  <1>4. CASE ChildStarts(u)
    <2>0. UNCHANGED loose /\ run[c].pc = "boot" /\ run[p].pc \in {"idle", "confirm"}
      BY <1>4 DEF ChildStarts, Children, p, c
    <2>1. CASE /\ Acquired(c)
               /\ run' = [run EXCEPT ![c] = [Idle EXCEPT !.pc = IF run[c].job = "embed" THEN "wait" ELSE "after"],
                                     ![p].took = run[p].pc = "confirm"]
      <3>1. lock = NoProc /\ lock' = c /\ pidFile' = c
        BY <1>0, <2>1 DEF Acquired, Recorded
      <3>2. /\ run'[c].pc \in {"wait", "after"} /\ run'[p] = [run[p] EXCEPT !.took = run[p].pc = "confirm"]
            /\ \A q \in Procs \ {p, c} : run'[q] = run[q]
        BY <1>0, <2>1 DEF Idle, Types
      <3>3. run'[p].pc = run[p].pc /\ (run[p].pc = "confirm" => run'[p].took)
        BY <1>0, <3>2 DEF Runs
      <3> HIDE <2>1, <1>4
      <3>4. Locks'
        BY <1>0, <2>0, <3>1, <3>2, <3>3, ZenonT(40) DEF Locks, Parsing
      <3>5. ASSUME NEW w \in Users
            PROVE  /\ run'[Main(w)].pc \notin {"idle", "confirm"} => run'[Child(w)].pc = "idle"
                   /\ run'[Main(w)].pc = "confirm" /\ pidFile' = Child(w) => run'[Main(w)].took
        <4>1. CASE w = u
          BY <2>0, <3>3, <4>1 DEF p, c
        <4>2. CASE w # u
          BY <1>a, <3>1, <3>2, <4>2 DEF Children
        <4> QED
          BY <4>1, <4>2
      <3> QED
        BY <3>4, <3>5 DEF Children
    <2>2. CASE run' = [run EXCEPT ![c] = Idle] /\ UNCHANGED lockVars
      <3>1. run'[c].pc = "idle" /\ Alone(c)
        BY <1>0, <2>2 DEF Idle, Types, Alone
      <3>2. Locks'
        BY <1>0, <2>0, <2>2, <3>1 DEF Locks, Alone, lockVars, Parsing
      <3>3. ASSUME NEW w \in Users
            PROVE  /\ run'[Main(w)].pc \notin {"idle", "confirm"} => run'[Child(w)].pc = "idle"
                   /\ run'[Main(w)].pc = "confirm" /\ pidFile' = Child(w) => run'[Main(w)].took
        <4>1. CASE w = u
          BY <1>0, <2>0, <2>2, <3>1, <4>1 DEF Alone, Children, lockVars, p, c
        <4>2. CASE w # u
          BY <1>a, <2>2, <3>1, <4>2 DEF Alone, Children, lockVars
        <4> QED
          BY <4>1, <4>2
      <3> QED
        BY <3>2, <3>3 DEF Children
    <2> QED
      BY <1>4, <2>1, <2>2 DEF ChildStarts, p, c
  <1>5. CASE EmbedderReady(u) \/ WaitGivesUp(u)
    <2>1. UNCHANGED <<loose, lockVars>> /\ run[c].pc = "wait" /\ Alone(c)
      BY <1>5 DEF EmbedderReady, WaitGivesUp, Goes, Alone, Types, c
    <2>2. run'[c].pc \in {"embed", "after"}
      <3>1. run'[c] = IF EmbedderReady(u) THEN [run[c] EXCEPT !.pc = "embed", !.queue = Missing]
                                          ELSE [run[c] EXCEPT !.pc = "after"]
        BY <1>0, <1>5 DEF EmbedderReady, WaitGivesUp, Goes, Types, c
      <3> QED
        BY <1>0, <3>1 DEF Runs
    <2>3. Locks'
      BY <1>0, <2>1, <2>2 DEF Locks, Alone, lockVars, Parsing
    <2>4. ASSUME NEW w \in Users
          PROVE  /\ run'[Main(w)].pc \notin {"idle", "confirm"} => run'[Child(w)].pc = "idle"
                 /\ run'[Main(w)].pc = "confirm" /\ pidFile' = Child(w) => run'[Main(w)].took
      <3>1. CASE w = u
        BY <1>0, <2>1, <3>1 DEF Alone, Children, lockVars, p, c
      <3>2. CASE w # u
        BY <1>a, <2>1, <3>2 DEF Alone, Children, lockVars
      <3> QED
        BY <3>1, <3>2
    <2> QED
      BY <2>3, <2>4 DEF Children
  <1> QED
    BY <1>1, <1>2, <1>3, <1>4, <1>5

-----------------------------------------------------------------------------
(* What the tables say *)

\* A file's chunks are told apart by their texts.
Single(f) == \A b, c \in ChunksOf(f) : b.text = c.text => b = c

Pieces(v, n) == {<<v, i>> : i \in 1 .. n}

\* How far the process that is replacing or removing a file has come.
WritingOf(p) ==
  LET r == run[p] IN
  /\ r.pc \in {"clear", "delete", "unlist", "store"} => r.file \in torn
  /\ r.pc \in {"clear", "delete"} /\ r.version # 0 => hash[r.file] = r.version
  /\ r.pc = "unlist" => r.version = 0 /\ ChunksOf(r.file) = {}
  /\ r.pc = "store" =>
        /\ r.version # 0 /\ hash[r.file] = r.version
        /\ r.part \in 1 .. Parts[r.version]
        /\ TextsOf(r.file) = Pieces(r.version, r.part - 1) /\ Single(r.file)

Writing == \A p \in Procs : WritingOf(p)

\* The rows of a file nobody left half written.
Whole ==
  \A f \in Files \ torn :
    Single(f) /\ TextsOf(f) = IF hash[f] = 0 THEN {} ELSE Cut(hash[f])

\* Every mention of a chunk: its row, its vector, a place in a queue.
Named ==
  {[id |-> c.id, text |-> c.text] : c \in chunks} \cup vectors
     \cup UNION {run[p].queue : p \in Procs}

OneText == \A x, y \in Named : x.id = y.id => x = y

IdsUnique == \A b, c \in chunks : b.id = c.id => b = c

\* What a process in its parse phase has queued are chunks of files it is done
\* with; the stale file it is removing was never on its list.
QueuedOf(p) ==
  LET r == run[p]
      rest == IF r.pc \in {"clear", "delete", "unlist"} THEN {r.file} ELSE {}
  IN  /\ r.todo \subseteq r.seen
      /\ r.pc \in {"clear", "delete", "store"} /\ r.version # 0 => r.file \in r.seen \ r.todo
      /\ r.queue = {} \/ \A x \in r.queue :
            \E c \in chunks : c.id = x.id /\ c.file \in (r.seen \ r.todo) \ rest

Queued ==
  \A p \in Procs :
    /\ run[p].pc \in Parsing => QueuedOf(p)
    /\ run[p].pc = "embed" /\ ~loose => IdsOf(run[p].queue) \subseteq IdsOf(chunks)

\* Unless a run went on without its lock, a vector has a chunk, and a file
\* whose chunks are about to go has no vector.
Owned ==
  loose \/
    /\ IdsOf(vectors) \subseteq IdsOf(chunks)
    /\ \A p \in Procs : run[p].pc = "delete" => IdsOf(vectors) \cap IdsOf(ChunksOf(run[p].file)) = {}

Rows == Writing /\ Whole /\ IdsUnique

Mentions == OneText /\ Queued /\ Owned

\* A step that changes no row keeps what the rows mean.
LEMMA QuietRows ==
  ASSUME Types, Rows, UNCHANGED dbVars, \A q \in Procs : Moves(q)
  PROVE  Rows'
  <1>1. UNCHANGED <<hash, chunks, torn>>
    BY DEF dbVars
  <1>2. ASSUME NEW q \in Procs
        PROVE  WritingOf(q)'
    <2>1. WritingOf(q)
      BY DEF Rows, Writing
    <2>2. CASE Keeps(q)
      BY <1>1, <2>1, <2>2 DEF WritingOf, Keeps, TextsOf, ChunksOf, Single
    <2>3. CASE run'[q].pc \notin {"clear", "delete", "unlist", "store"}
      BY <2>3 DEF WritingOf
    <2> QED
      BY <2>2, <2>3 DEF Moves, Begins, Passes, Parsing
  <1>3. Whole' /\ IdsUnique'
    BY <1>1 DEF Rows, Whole, IdsUnique, Single, TextsOf, ChunksOf
  <1> QED
    BY <1>2, <1>3 DEF Rows, Writing

\* Nothing new is said of any id.
LEMMA FewerNames ==
  ASSUME OneText, Named' \subseteq Named
  PROVE  OneText'
  BY DEF OneText

\* And what the queues mention.
LEMMA QuietMentions ==
  ASSUME Types, Mentions, UNCHANGED dbVars, loose => loose', \A q \in Procs : Moves(q)
  PROVE  Mentions'
  <1>1. UNCHANGED <<hash, chunks, vectors, torn>>
    BY DEF dbVars
  <1>2. Missing \subseteq Named /\ IdsOf(Missing) \subseteq IdsOf(chunks)
    BY DEF Missing, Named, IdsOf
  <1>3. ASSUME NEW q \in Procs
        PROVE  run'[q].queue \subseteq run[q].queue \cup Missing
    BY DEF Moves, Keeps, Begins, Passes
  <1>4. OneText'
    <2>1. ASSUME NEW x \in UNION {run'[q].queue : q \in Procs}
          PROVE  x \in Named
      BY <1>2, <1>3, <2>1 DEF Named
    <2>2. Named' = {[id |-> c.id, text |-> c.text] : c \in chunks} \cup vectors
                     \cup UNION {run'[q].queue : q \in Procs}
      BY <1>1 DEF Named
    <2>3. Named' \subseteq Named
      BY <2>1, <2>2 DEF Named
    <2> QED
      BY <2>3, FewerNames DEF Mentions
  <1>5. ASSUME NEW q \in Procs, run'[q].pc \in Parsing
        PROVE  QueuedOf(q)'
    <2>1. CASE Keeps(q)
      <3>1. QueuedOf(q)
        BY <1>5, <2>1 DEF Mentions, Queued, Keeps
      <3> QED
        BY <1>1, <2>1, <3>1 DEF QueuedOf, Keeps
    <2>2. CASE Begins(q)
      BY <2>2 DEF QueuedOf, Begins
    <2> QED
      BY <1>5, <2>1, <2>2 DEF Moves, Passes
  <1>6. ASSUME NEW q \in Procs, run'[q].pc = "embed", ~loose'
        PROVE  IdsOf(run'[q].queue) \subseteq IdsOf(chunks')
    <2>1. CASE Keeps(q)
      BY <1>1, <1>6, <2>1 DEF Mentions, Queued, Keeps
    <2>2. CASE Begins(q)
      BY <1>6, <2>2 DEF Begins
    <2>3. CASE Passes(q)
      <3>1. CASE run'[q].queue \subseteq Missing
        BY <1>1, <1>2, <3>1 DEF IdsOf
      <3>2. CASE run[q].pc = "parse"
        <4>1. IdsOf(run[q].queue) \subseteq IdsOf(chunks)
          BY <3>2 DEF Mentions, Queued, QueuedOf, Parsing, IdsOf
        <4> QED
          BY <1>1, <1>2, <1>3, <4>1 DEF IdsOf
      <3> QED
        BY <1>6, <2>3, <3>1, <3>2 DEF Passes
    <2> QED
      BY <2>1, <2>2, <2>3 DEF Moves
  <1>7. Owned'
    <2>1. ASSUME NEW q \in Procs, run'[q].pc = "delete"
          PROVE  run[q].pc = "delete" /\ run'[q].file = run[q].file
      BY <2>1 DEF Moves, Keeps, Begins, Passes, Parsing
    <2> QED
      BY <1>1, <2>1 DEF Mentions, Owned, ChunksOf
  <1> QED
    BY <1>4, <1>5, <1>6, <1>7 DEF Mentions, Queued

-----------------------------------------------------------------------------
(* Steps of the parse phase that write *)

\* While a process parses, the others neither parse nor embed under the lock;
\* only what it does to its own file and queue is left to see.
LEMMA OneWrites ==
  ASSUME Types, Locks, NEW p \in Procs, run[p].pc \in Parsing, run'[p].pc \in Parsing,
         Alone(p), UNCHANGED loose, WritingOf(p)', QueuedOf(p)'
  PROVE  /\ Writing' /\ Queued'
         /\ \A q \in Procs \ {p} : run'[q].pc \notin Parsing
  <1>1. ASSUME NEW q \in Procs \ {p}
        PROVE  run'[q].pc \notin Parsing /\ (run'[q].pc = "embed" => loose)
    BY DEF Locks, Alone
  <1>2. ASSUME NEW q \in Procs \ {p}
        PROVE  WritingOf(q)'
    BY <1>1 DEF WritingOf, Parsing
  <1>3. run'[p].pc # "embed"
    BY DEF Parsing
  <1> QED
    BY <1>1, <1>2, <1>3 DEF Writing, Queued

\* Writing the row of a file keeps what rows and queues mean.
LEMMA UpsertFileKeeps ==
  ASSUME Types, Locks, Rows, Mentions, NEW p \in Procs, UpsertFile(p)
  PROVE  Rows' /\ Mentions'
  <1> DEFINE f == NextFile(p)
  <1>0. /\ f \in run[p].todo /\ f \in Files /\ run[p] \in Runs /\ run[p].pc = "parse"
        /\ run[p].pc \in Parsing /\ disk[f] \in Versions
        /\ Alone(p) /\ UNCHANGED <<chunks, vectors, loose>>
        /\ hash' = [hash EXCEPT ![f] = disk[f]] /\ torn' = torn \cup {f}
    BY NextFileProperties, ProcessTurns, PlaceNames DEF UpsertFile, ProcessStep, Types
  <1>1. run'[p] = [run[p] EXCEPT !.pc = "clear", !.file = f, !.version = disk[f], !.todo = @ \ {f}]
    BY DEF UpsertFile, Types
  <1> HIDE DEF f
  <1>2. /\ run'[p].pc = "clear" /\ run'[p].file = f /\ run'[p].version = disk[f]
        /\ run'[p].todo = run[p].todo \ {f} /\ run'[p].seen = run[p].seen
        /\ run'[p].queue = run[p].queue
    BY <1>0, <1>1 DEF Runs
  <1>3. /\ hash'[f] = disk[f]
        /\ \A g \in Files \ {f} : hash'[g] = hash[g]
    BY <1>0 DEF Types
  <1>4. WritingOf(p)'
    BY <1>0, <1>2, <1>3 DEF WritingOf
  <1>5. QueuedOf(p)'
    <2>1. QueuedOf(p)
      BY <1>0 DEF Mentions, Queued
    <2> QED
      BY <1>0, <1>2, <2>1 DEF QueuedOf
  <1>6. Writing' /\ Queued' /\ \A q \in Procs \ {p} : run'[q].pc \notin Parsing
    BY <1>0, <1>2, <1>4, <1>5, OneWrites, PlaceNames
  <1>7. Whole' /\ IdsUnique'
    BY <1>0, <1>3 DEF Rows, Whole, IdsUnique, Single, TextsOf, ChunksOf
  <1>8. OneText'
    <2>1. ASSUME NEW q \in Procs
          PROVE  run'[q].queue = run[q].queue
      BY <1>0, <1>2 DEF Alone
    <2> QED
      BY <1>0, <2>1, FewerNames DEF Mentions, Named
  <1>9. Owned'
    BY <1>0, <1>2, <1>6, PlaceNames DEF Mentions, Owned
  <1> QED
    BY <1>6, <1>7, <1>8, <1>9 DEF Rows, Mentions

\* So does taking up a file that is gone.
LEMMA StaleFileKeeps ==
  ASSUME Types, Locks, Rows, Mentions, NEW p \in Procs, NEW f \in Files, StaleFile(p, f)
  PROVE  Rows' /\ Mentions'
  <1>0. /\ run[p] \in Runs /\ run[p].pc = "parse" /\ run[p].pc \in Parsing /\ f \notin run[p].seen
        /\ Alone(p) /\ UNCHANGED <<hash, chunks, vectors, loose>> /\ torn' = torn \cup {f}
    BY ProcessTurns, PlaceNames DEF StaleFile, ProcessStep, Types
  <1>1. run'[p] = [run[p] EXCEPT !.pc = "clear", !.file = f, !.version = 0]
    BY DEF StaleFile, Types
  <1>2. /\ run'[p].pc = "clear" /\ run'[p].file = f /\ run'[p].version = 0
        /\ run'[p].todo = run[p].todo /\ run'[p].seen = run[p].seen
        /\ run'[p].queue = run[p].queue
    BY <1>0, <1>1 DEF Runs
  <1>3. WritingOf(p)'
    BY <1>0, <1>2 DEF WritingOf
  <1>4. QueuedOf(p)'
    <2>1. QueuedOf(p)
      BY <1>0 DEF Mentions, Queued
    <2> QED
      BY <1>0, <1>2, <2>1 DEF QueuedOf
  <1>5. Writing' /\ Queued' /\ \A q \in Procs \ {p} : run'[q].pc \notin Parsing
    BY <1>0, <1>2, <1>3, <1>4, OneWrites, PlaceNames
  <1>6. Whole' /\ IdsUnique'
    BY <1>0 DEF Rows, Whole, IdsUnique, Single, TextsOf, ChunksOf
  <1>7. OneText'
    <2>1. ASSUME NEW q \in Procs
          PROVE  run'[q].queue = run[q].queue
      BY <1>0, <1>2 DEF Alone
    <2> QED
      BY <1>0, <2>1, FewerNames DEF Mentions, Named
  <1>8. Owned'
    BY <1>0, <1>2, <1>5, PlaceNames DEF Mentions, Owned
  <1> QED
    BY <1>5, <1>6, <1>7, <1>8 DEF Rows, Mentions

\* So does deleting its vectors.
LEMMA DeleteEmbeddingsKeeps ==
  ASSUME Types, Locks, Rows, Mentions, NEW p \in Procs, DeleteEmbeddings(p)
  PROVE  Rows' /\ Mentions'
  <1>0. /\ run[p] \in Runs /\ run[p].pc = "clear" /\ run[p].pc \in Parsing
        /\ Alone(p) /\ UNCHANGED <<hash, chunks, torn, loose>>
        /\ vectors' = {v \in vectors : v.id \notin IdsOf(ChunksOf(run[p].file))}
    BY ProcessTurns, PlaceNames DEF DeleteEmbeddings, ProcessStep, Types
  <1>1. run'[p] = [run[p] EXCEPT !.pc = "delete"]
    BY DEF DeleteEmbeddings, Goes, Types
  <1>2. /\ run'[p].pc = "delete" /\ run'[p].file = run[p].file /\ run'[p].version = run[p].version
        /\ run'[p].todo = run[p].todo /\ run'[p].seen = run[p].seen
        /\ run'[p].queue = run[p].queue
    BY <1>0, <1>1 DEF Runs
  <1>3. WritingOf(p)'
    <2>1. WritingOf(p)
      BY DEF Rows, Writing
    <2> QED
      BY <1>0, <1>2, <2>1 DEF WritingOf
  <1>4. QueuedOf(p)'
    <2>1. QueuedOf(p)
      BY <1>0 DEF Mentions, Queued
    <2> QED
      BY <1>0, <1>2, <2>1 DEF QueuedOf
  <1>5. Writing' /\ Queued' /\ \A q \in Procs \ {p} : run'[q].pc \notin Parsing
    BY <1>0, <1>2, <1>3, <1>4, OneWrites, PlaceNames
  <1>6. Whole' /\ IdsUnique'
    BY <1>0 DEF Rows, Whole, IdsUnique, Single, TextsOf, ChunksOf
  <1>7. OneText'
    <2>1. ASSUME NEW q \in Procs
          PROVE  run'[q].queue = run[q].queue
      BY <1>0, <1>2 DEF Alone
    <2>2. Named' \subseteq Named
      BY <1>0, <2>1 DEF Named
    <2> QED
      BY <2>2, FewerNames DEF Mentions
  <1>8. Owned'
    <2>1. IdsOf(vectors') \subseteq IdsOf(vectors)
      BY <1>0 DEF IdsOf
    <2>2. IdsOf(vectors') \cap IdsOf(ChunksOf(run[p].file)) = {}
      BY <1>0 DEF IdsOf
    <2>3. ChunksOf(run[p].file)' = ChunksOf(run[p].file)
      BY <1>0, <1>2 DEF ChunksOf
    <2> QED
      BY <1>0, <1>5, <2>1, <2>2, <2>3, PlaceNames DEF Mentions, Owned
  <1> QED
    BY <1>5, <1>6, <1>7, <1>8 DEF Rows, Mentions

\* So does deleting its row.
LEMMA DeleteRowKeeps ==
  ASSUME Types, Locks, Rows, Mentions, NEW p \in Procs, DeleteRow(p)
  PROVE  Rows' /\ Mentions'
  <1> DEFINE f == run[p].file
  <1>0. /\ run[p] \in Runs /\ run[p].pc = "unlist" /\ run[p].pc \in Parsing
        /\ Alone(p) /\ UNCHANGED <<chunks, vectors, loose>>
        /\ hash' = [hash EXCEPT ![f] = 0] /\ torn' = torn \ {f}
    BY ProcessTurns, PlaceNames DEF DeleteRow, ProcessStep, Types
  <1>1. run'[p] = Closed(p, run[p].count)
    BY DEF DeleteRow, Types
  <1>2. /\ run'[p].pc = "parse" /\ run'[p].todo = run[p].todo /\ run'[p].seen = run[p].seen
        /\ run'[p].queue = run[p].queue
    BY <1>0, <1>1 DEF Closed, Runs
  <1>3. WritingOf(p)'
    BY <1>2 DEF WritingOf
  <1>4. QueuedOf(p)'
    <2>1. QueuedOf(p)
      BY <1>0 DEF Mentions, Queued
    <2> QED
      BY <1>0, <1>2, <2>1 DEF QueuedOf
  <1>5. Writing' /\ Queued' /\ \A q \in Procs \ {p} : run'[q].pc \notin Parsing
    BY <1>0, <1>2, <1>3, <1>4, OneWrites, PlaceNames
  <1>6. Whole'
    <2>1. WritingOf(p) /\ Whole
      BY DEF Rows, Writing
    <2>2. ChunksOf(f) = {} /\ f \in torn /\ f \in Files
      BY <1>0, <2>1 DEF WritingOf, Types
    <2> HIDE DEF f
    <2>3. hash'[f] = 0 /\ \A g \in Files \ {f} : hash'[g] = hash[g]
      BY <1>0, <2>2 DEF Types
    <2>4. ASSUME NEW g \in Files \ torn'
          PROVE  Single(g)' /\ TextsOf(g)' = IF hash'[g] = 0 THEN {} ELSE Cut(hash'[g])
      <3>1. Single(g)' <=> Single(g)
        BY <1>0 DEF Single, ChunksOf
      <3>2. TextsOf(g)' = TextsOf(g)
        BY <1>0 DEF TextsOf, ChunksOf
      <3>3. CASE g = f
        BY <2>2, <2>3, <3>1, <3>2, <3>3 DEF Single, TextsOf
      <3>4. CASE g # f
        BY <1>0, <2>1, <2>3, <3>1, <3>2, <3>4 DEF Whole
      <3> QED
        BY <3>3, <3>4
    <2> QED
      BY <2>4 DEF Whole
  <1>7. OneText'
    <2>1. ASSUME NEW q \in Procs
          PROVE  run'[q].queue = run[q].queue
      BY <1>0, <1>2 DEF Alone
    <2> QED
      BY <1>0, <2>1, FewerNames DEF Mentions, Named
  <1>8. Owned' /\ IdsUnique'
    BY <1>0, <1>2, <1>5, PlaceNames DEF Rows, Mentions, Owned, IdsUnique
  <1> QED
    BY <1>5, <1>6, <1>7, <1>8 DEF Rows, Mentions

\* Removing and adding chunks of one file leaves the chunks of the others.
LEMMA RemovedChunks ==
  ASSUME NEW CONSTANT f, chunks' = chunks \ ChunksOf(f)
  PROVE  /\ ChunksOf(f)' = {} /\ TextsOf(f)' = {} /\ Single(f)'
         /\ \A g : g # f => /\ ChunksOf(g)' = ChunksOf(g) /\ TextsOf(g)' = TextsOf(g)
                           /\ (Single(g)' <=> Single(g))
  <1>1. ChunksOf(f)' = {}
    BY DEF ChunksOf
  <1>2. ASSUME NEW CONSTANT g, g # f
        PROVE  ChunksOf(g)' = ChunksOf(g)
    BY <1>2 DEF ChunksOf
  <1> QED
    BY <1>1, <1>2 DEF TextsOf, Single

\* So does deleting its chunks.
LEMMA DeleteChunksKeeps ==
  ASSUME Types, Locks, Rows, Mentions, NEW p \in Procs, DeleteChunks(p)
  PROVE  Rows' /\ Mentions'
  <1>a. PICK f, v : f = run[p].file /\ v = run[p].version
    OBVIOUS
  <1> DEFINE empty == v # 0 /\ Parts[v] = 0
  <1>0. /\ run[p] \in Runs /\ run[p].pc = "delete" /\ run[p].pc \in Parsing
        /\ Alone(p) /\ UNCHANGED <<hash, vectors, loose>>
        /\ chunks' = chunks \ ChunksOf(f)
        /\ torn' = IF empty THEN torn \ {f} ELSE torn
    BY <1>a, ProcessTurns, PlaceNames DEF DeleteChunks, ProcessStep, Types
  <1>1. run'[p] = CASE empty -> Closed(p, Counted(p))
                    [] v = 0 -> [run[p] EXCEPT !.pc = "unlist"]
                    [] OTHER -> [run[p] EXCEPT !.pc = "store", !.part = 1]
    BY <1>a DEF DeleteChunks, Types
  <1>2. WritingOf(p) /\ QueuedOf(p) /\ Whole /\ IdsUnique /\ OneText /\ Owned
    BY <1>0 DEF Rows, Writing, Mentions, Queued
  <1>3. /\ f \in Files /\ f \in torn /\ v \in Versions \cup {0} /\ (v # 0 => hash[f] = v)
        /\ (v # 0 => f \in run[p].seen \ run[p].todo) /\ (v # 0 => Parts[v] \in Nat)
    BY <1>a, <1>0, <1>2, IndexAssumption DEF WritingOf, QueuedOf, Types, Runs
  <1>4. /\ run'[p].todo = run[p].todo /\ run'[p].seen = run[p].seen
        /\ run'[p].queue = run[p].queue
        /\ \/ run'[p].pc = "parse" /\ empty
           \/ run'[p].pc = "unlist" /\ v = 0 /\ run'[p].file = f /\ run'[p].version = 0
           \/ /\ run'[p].pc = "store" /\ v # 0 /\ Parts[v] # 0
              /\ run'[p].file = f /\ run'[p].version = v /\ run'[p].part = 1
    <2>1. CASE empty
      BY <1>0, <1>1, <2>1 DEF Closed, Runs
    <2>2. CASE ~empty /\ v = 0
      BY <1>a, <1>0, <1>1, <2>2 DEF Runs
    <2>3. CASE ~empty /\ v # 0
      BY <1>a, <1>0, <1>1, <2>3 DEF Runs
    <2> QED
      BY <2>1, <2>2, <2>3
  <1>5. /\ ChunksOf(f)' = {} /\ TextsOf(f)' = {} /\ Single(f)'
        /\ \A g : g # f => /\ ChunksOf(g)' = ChunksOf(g) /\ TextsOf(g)' = TextsOf(g)
                          /\ (Single(g)' <=> Single(g))
    BY <1>0, RemovedChunks
  <1>6. WritingOf(p)'
    <2>1. CASE run'[p].pc = "parse"
      BY <2>1 DEF WritingOf
    <2>2. CASE run'[p].pc = "unlist"
      <3>1. ChunksOf(run[p].file)' = {}
        BY <1>4, <1>5, <2>2 DEF ChunksOf
      <3> QED
        BY <1>0, <1>3, <1>4, <2>2, <3>1 DEF WritingOf
    <2>3. CASE run'[p].pc = "store"
      <3>1. run'[p].file = f /\ run'[p].version = v /\ run'[p].part = 1 /\ v # 0 /\ Parts[v] # 0
        BY <1>4, <2>3
      <3>2. TextsOf(run[p].file)' = {} /\ Single(run[p].file)'
        BY <1>5, <3>1 DEF TextsOf, ChunksOf, Single
      <3>3. Pieces(v, 1 - 1) = {} /\ 1 \in 1 .. Parts[v]
        BY <1>3, <3>1 DEF Pieces
      <3> QED
        BY <1>0, <1>3, <2>3, <3>1, <3>2, <3>3 DEF WritingOf
    <2> QED
      BY <1>4, <2>1, <2>2, <2>3
  <1>7. QueuedOf(p)'
    <2>1. ASSUME NEW x \in run[p].queue
          PROVE  \E c \in chunks' : c.id = x.id /\ c.file \in (run[p].seen \ run[p].todo) \ {f}
      <3>1. PICK c \in chunks : c.id = x.id /\ c.file \in (run[p].seen \ run[p].todo) \ {f}
        BY <1>a, <1>0, <1>2 DEF QueuedOf
      <3> QED
        BY <1>0, <3>1 DEF ChunksOf
    <2>2. run[p].todo \subseteq run[p].seen
      BY <1>2 DEF QueuedOf
    <2> QED
      BY <1>3, <1>4, <2>1, <2>2 DEF QueuedOf
  <1>8. Writing' /\ Queued' /\ \A q \in Procs \ {p} : run'[q].pc \notin Parsing
    <2>1. run'[p].pc \in Parsing
      BY <1>4 DEF Parsing
    <2> QED
      BY <1>0, <1>6, <1>7, <2>1, OneWrites
  <1>9. Whole'
    <2>1. ASSUME NEW g \in Files \ torn'
          PROVE  Single(g)' /\ TextsOf(g)' = IF hash'[g] = 0 THEN {} ELSE Cut(hash'[g])
      <3>1. CASE g = f
        <4>1. v # 0 /\ Parts[v] = 0 /\ hash'[f] = v
          BY <1>0, <1>3, <2>1, <3>1
        <4>2. Cut(v) = {}
          BY <4>1 DEF Cut
        <4> QED
          BY <1>5, <3>1, <4>1, <4>2
      <3>2. CASE g # f
        BY <1>0, <1>2, <1>5, <2>1, <3>2 DEF Whole
      <3> QED
        BY <3>1, <3>2
    <2> QED
      BY <2>1 DEF Whole
  <1>10. IdsUnique'
    BY <1>0, <1>2 DEF IdsUnique
  <1>11. OneText'
    <2>1. ASSUME NEW q \in Procs
          PROVE  run'[q].queue = run[q].queue
      BY <1>0, <1>4 DEF Alone
    <2>2. Named' \subseteq Named
      BY <1>0, <2>1 DEF Named
    <2> QED
      BY <1>2, <2>2, FewerNames
  <1>12. Owned'
    <2>1. ASSUME ~loose, NEW x \in vectors
          PROVE  x.id \in IdsOf(chunks')
      <3>1. x.id \in IdsOf(chunks) /\ x.id \notin IdsOf(ChunksOf(f))
        BY <1>a, <1>0, <1>2, <2>1 DEF Owned, IdsOf
      <3> QED
        BY <1>0, <3>1 DEF IdsOf
    <2>2. \A q \in Procs : run'[q].pc # "delete"
      BY <1>4, <1>8, PlaceNames
    <2> QED
      BY <1>0, <2>1, <2>2 DEF Owned, IdsOf
  <1> QED
    BY <1>8, <1>9, <1>10, <1>11, <1>12 DEF Rows, Mentions

\* A new chunk adds its text to its file and to no other.
LEMMA AddedChunk ==
  ASSUME NEW CONSTANT f, NEW CONSTANT i, NEW CONSTANT t,
         chunks' = chunks \cup {[id |-> i, file |-> f, text |-> t]}
  PROVE  /\ TextsOf(f)' = TextsOf(f) \cup {t}
         /\ t \notin TextsOf(f) /\ Single(f) => Single(f)'
         /\ \A g : g # f => TextsOf(g)' = TextsOf(g) /\ (Single(g)' <=> Single(g))
  <1>1. ChunksOf(f)' = ChunksOf(f) \cup {[id |-> i, file |-> f, text |-> t]}
    BY DEF ChunksOf
  <1>2. ASSUME NEW CONSTANT g, g # f
        PROVE  ChunksOf(g)' = ChunksOf(g)
    BY <1>2 DEF ChunksOf
  <1>3. TextsOf(f)' = TextsOf(f) \cup {t}
    <2> DEFINE new == [id |-> i, file |-> f, text |-> t]
    <2>1. new.text = t
      OBVIOUS
    <2> HIDE DEF new
    <2>2. {c.text : c \in ChunksOf(f) \cup {new}} = {c.text : c \in ChunksOf(f)} \cup {t}
      BY <2>1
    <2> QED
      BY <1>1, <2>2 DEF TextsOf, new
  <1>4. t \notin TextsOf(f) /\ Single(f) => Single(f)'
    <2>1. ASSUME t \notin TextsOf(f), Single(f), NEW b \in ChunksOf(f)', NEW c \in ChunksOf(f)',
                 b.text = c.text
          PROVE  b = c
      <3> DEFINE new == [id |-> i, file |-> f, text |-> t]
      <3>1. new.text = t
        OBVIOUS
      <3> HIDE DEF new
      <3>2. b \in ChunksOf(f) \/ b = new
        BY <1>1 DEF new
      <3>3. c \in ChunksOf(f) \/ c = new
        BY <1>1 DEF new
      <3>4. \A d \in ChunksOf(f) : d.text # t
        BY <2>1 DEF TextsOf
      <3> QED
        BY <2>1, <3>1, <3>2, <3>3, <3>4 DEF Single
    <2> QED
      BY <2>1 DEF Single
  <1> QED
    BY <1>2, <1>3, <1>4 DEF TextsOf, Single

\* Storing a chunk keeps them too.
LEMMA StoreChunkKeeps ==
  ASSUME Types, Locks, Rows, Mentions, NEW p \in Procs, StoreChunk(p)
  PROVE  Rows' /\ Mentions'
  <1>a. PICK f, v, n, i : f = run[p].file /\ v = run[p].version /\ n = run[p].part /\ i = NewId
    OBVIOUS
  <1>b. PICK t : t = <<v, n>>
    OBVIOUS
  <1>c. PICK x : x = [id |-> i, text |-> t]
    OBVIOUS
  <1>d. PICK new : new = [id |-> i, file |-> f, text |-> t]
    OBVIOUS
  <1>0. /\ run[p] \in Runs /\ run[p].pc = "store" /\ run[p].pc \in Parsing
        /\ Alone(p) /\ UNCHANGED <<hash, vectors, loose>>
        /\ chunks' = chunks \cup {new}
        /\ torn' = IF n = Parts[v] THEN torn \ {f} ELSE torn
    BY <1>a, <1>b, <1>d, ProcessTurns, PlaceNames DEF StoreChunk, ProcessStep, Types, LastPart
  <1>1. run'[p] = [Stored(p) EXCEPT !.queue = run[p].queue \cup {x}]
    BY <1>a, <1>b, <1>c DEF StoreChunk, Types
  <1>2. WritingOf(p) /\ QueuedOf(p) /\ Whole /\ IdsUnique /\ OneText /\ Owned
    BY <1>0 DEF Rows, Writing, Mentions, Queued
  <1>3. /\ f \in Files /\ f \in torn /\ v \in Versions /\ hash[f] = v
        /\ f \in run[p].seen \ run[p].todo /\ Parts[v] \in Nat
        /\ n \in 1 .. Parts[v] /\ TextsOf(f) = Pieces(v, n - 1) /\ Single(f)
    BY <1>a, <1>0, <1>2, IndexAssumption DEF WritingOf, QueuedOf, Types, Runs
  <1>4. /\ i \notin IdsOf(chunks) /\ i \notin IdsOf(vectors)
        /\ \A q \in Procs : i \notin IdsOf(run[q].queue)
    BY <1>a, NewIdProperties DEF StoreChunk
  <1>5. /\ run'[p].todo = run[p].todo /\ run'[p].seen = run[p].seen
        /\ run'[p].queue = run[p].queue \cup {x}
        /\ \/ run'[p].pc = "parse" /\ n = Parts[v]
           \/ /\ run'[p].pc = "store" /\ n # Parts[v]
              /\ run'[p].file = f /\ run'[p].version = v /\ run'[p].part = n + 1
    <2>1. CASE n = Parts[v]
      <3>1. run'[p] = [Closed(p, Counted(p)) EXCEPT !.queue = run[p].queue \cup {x}]
        BY <1>a, <1>1, <2>1 DEF Stored, LastPart
      <3> QED
        BY <1>0, <2>1, <3>1 DEF Closed, Runs
    <2>2. CASE n # Parts[v]
      <3>1. run'[p] = [[run[p] EXCEPT !.part = @ + 1] EXCEPT !.queue = run[p].queue \cup {x}]
        BY <1>a, <1>1, <2>2 DEF Stored, LastPart
      <3> QED
        BY <1>a, <1>0, <2>2, <3>1 DEF Runs
    <2> QED
      BY <2>1, <2>2
  <1>6. t \notin Pieces(v, n - 1) /\ Pieces(v, n) = Pieces(v, n - 1) \cup {t} /\ Cut(v) = Pieces(v, Parts[v])
    <2>1. n \in Nat /\ n >= 1
      BY <1>3
    <2>2. \A k : k \in 1 .. n <=> k \in 1 .. (n - 1) \/ k = n
      BY <2>1
    <2>3. Pieces(v, n) = Pieces(v, n - 1) \cup {t}
      BY <1>b, <2>2 DEF Pieces
    <2>4. t \notin Pieces(v, n - 1)
      BY <1>b, <2>1 DEF Pieces
    <2> QED
      BY <2>3, <2>4 DEF Pieces, Cut
  <1>7. /\ TextsOf(f)' = Pieces(v, n) /\ Single(f)'
        /\ \A g : g # f => TextsOf(g)' = TextsOf(g) /\ (Single(g)' <=> Single(g))
    BY <1>d, <1>0, <1>3, <1>6, AddedChunk
  <1>8. WritingOf(p)'
    <2>1. CASE run'[p].pc = "parse"
      BY <2>1 DEF WritingOf
    <2>2. CASE run'[p].pc = "store"
      <3>1. /\ run'[p].file = f /\ run'[p].version = v /\ run'[p].part = n + 1 /\ n # Parts[v]
        BY <1>5, <2>2
      <3>2. TextsOf(run[p].file)' = Pieces(v, n) /\ Single(run[p].file)'
        BY <1>7, <3>1 DEF TextsOf, ChunksOf, Single
      <3>3. n + 1 \in 1 .. Parts[v] /\ (n + 1) - 1 = n /\ v # 0
        BY <1>3, <3>1, IndexAssumption
      <3>4. f \in torn' /\ hash'[f] = v
        BY <1>0, <1>3, <3>1
      <3> QED
        BY <2>2, <3>1, <3>2, <3>3, <3>4 DEF WritingOf
    <2> QED
      BY <1>5, <2>1, <2>2
  <1>9. QueuedOf(p)'
    <2>1. ASSUME NEW y \in run'[p].queue
          PROVE  \E c \in chunks' : c.id = y.id /\ c.file \in run[p].seen \ run[p].todo
      <3>1. CASE y \in run[p].queue
        BY <1>0, <1>2, <3>1 DEF QueuedOf
      <3>2. CASE y = x
        BY <1>c, <1>d, <1>0, <1>3, <3>2
      <3> QED
        BY <1>5, <3>1, <3>2
    <2>2. run[p].todo \subseteq run[p].seen
      BY <1>2 DEF QueuedOf
    <2> QED
      BY <1>3, <1>5, <2>1, <2>2 DEF QueuedOf
  <1>10. Writing' /\ Queued' /\ \A q \in Procs \ {p} : run'[q].pc \notin Parsing
    <2>1. run'[p].pc \in Parsing
      BY <1>5 DEF Parsing
    <2> QED
      BY <1>0, <1>8, <1>9, <2>1, OneWrites
  <1>11. Whole'
    <2>1. ASSUME NEW g \in Files \ torn'
          PROVE  Single(g)' /\ TextsOf(g)' = IF hash'[g] = 0 THEN {} ELSE Cut(hash'[g])
      <3>1. CASE g = f
        <4>1. n = Parts[v] /\ hash'[f] = v /\ v # 0
          BY <1>0, <1>3, <2>1, <3>1, IndexAssumption
        <4> QED
          BY <1>6, <1>7, <3>1, <4>1
      <3>2. CASE g # f
        BY <1>0, <1>2, <1>7, <2>1, <3>2 DEF Whole
      <3> QED
        BY <3>1, <3>2
    <2> QED
      BY <2>1 DEF Whole
  <1>12. IdsUnique'
    <2>1. new.id = i /\ \A c \in chunks : c.id # i
      BY <1>d, <1>4 DEF IdsOf
    <2> QED
      BY <1>0, <1>2, <2>1 DEF IdsUnique
  <1>13. OneText'
    <2>1. ASSUME NEW q \in Procs
          PROVE  run'[q].queue \subseteq run[q].queue \cup {x}
      BY <1>0, <1>5 DEF Alone
    <2>2. ASSUME NEW y \in Named'
          PROVE  y \in Named \cup {x}
      <3>1. CASE y \in {[id |-> c.id, text |-> c.text] : c \in chunks'}
        BY <1>c, <1>d, <1>0, <3>1 DEF Named
      <3>2. CASE y \in vectors'
        BY <1>0, <3>2 DEF Named
      <3>3. CASE y \in UNION {run'[q].queue : q \in Procs}
        BY <2>1, <3>3 DEF Named
      <3> QED
        BY <3>1, <3>2, <3>3 DEF Named
    <2>3. x.id = i /\ \A y \in Named : y.id # i
      BY <1>c, <1>4 DEF Named, IdsOf
    <2> QED
      BY <1>2, <2>2, <2>3 DEF OneText
  <1>14. Owned'
    <2>1. IdsOf(chunks) \subseteq IdsOf(chunks')
      BY <1>0 DEF IdsOf
    <2>2. \A q \in Procs : run'[q].pc # "delete"
      BY <1>5, <1>10, PlaceNames
    <2> QED
      BY <1>0, <1>2, <2>1, <2>2 DEF Owned
  <1> QED
    BY <1>10, <1>11, <1>12, <1>13, <1>14 DEF Rows, Mentions

-----------------------------------------------------------------------------
(* Saving vectors *)

\* Saving a batch keeps them, and every vector there was.
LEMMA SaveBatchKeeps ==
  ASSUME Types, Locks, Rows, Mentions, NEW p \in Procs, SaveBatch(p)
  PROVE  /\ Rows' /\ Mentions'
         /\ vectors \subseteq vectors'
  <1>1. PICK batch \in SUBSET run[p].queue \ {{}} :
          /\ vectors' = {v \in vectors : v.id \notin IdsOf(batch)} \cup batch
          /\ run' = [run EXCEPT ![p].queue = @ \ batch]
    BY DEF SaveBatch
  <1>0. /\ run[p] \in Runs /\ run[p].pc = "embed" /\ run[p].pc \notin Parsing
        /\ Alone(p) /\ UNCHANGED <<hash, chunks, torn, loose>>
    BY ProcessTurns DEF SaveBatch, ProcessStep, Types, Parsing
  <1>2. run'[p] = [run[p] EXCEPT !.queue = run[p].queue \ batch]
    BY <1>1 DEF Types
  <1>3. run'[p].pc = "embed" /\ run'[p].queue = run[p].queue \ batch
    BY <1>0, <1>2 DEF Runs
  <1>4. OneText /\ Queued /\ Owned /\ Writing /\ Whole /\ IdsUnique
    BY DEF Rows, Mentions
  <1>5. Rows'
    <2>1. ASSUME NEW q \in Procs
          PROVE  WritingOf(q)'
      <3>1. CASE q = p
        BY <1>3, <3>1 DEF WritingOf
      <3>2. CASE q # p
        BY <1>0, <1>4, <3>2 DEF Writing, WritingOf, Alone, TextsOf, ChunksOf, Single
      <3> QED
        BY <3>1, <3>2
    <2> QED
      BY <1>0, <1>4, <2>1 DEF Rows, Writing, Whole, IdsUnique, Single, TextsOf, ChunksOf
  <1>6. OneText'
    <2>1. ASSUME NEW q \in Procs
          PROVE  run'[q].queue \subseteq run[q].queue
      BY <1>0, <1>3 DEF Alone
    <2>2. batch \subseteq Named
      BY DEF Named
    <2>3. Named' \subseteq Named
      BY <1>0, <1>1, <2>1, <2>2 DEF Named
    <2> QED
      BY <1>4, <2>3, FewerNames
  <1>7. Queued'
    <2>1. ASSUME NEW q \in Procs
          PROVE  /\ run'[q].pc \in Parsing => QueuedOf(q)'
                 /\ run'[q].pc = "embed" /\ ~loose' => IdsOf(run'[q].queue) \subseteq IdsOf(chunks')
      <3>1. CASE q = p
        <4>1. IdsOf(run'[p].queue) \subseteq IdsOf(run[p].queue)
          BY <1>3 DEF IdsOf
        <4> QED
          BY <1>0, <1>3, <1>4, <3>1, <4>1 DEF Queued
      <3>2. CASE q # p
        <4>1. run'[q] = run[q]
          BY <3>2, <1>0 DEF Alone
        <4> QED
          BY <1>0, <1>4, <4>1 DEF Queued, QueuedOf
      <3> QED
        BY <3>1, <3>2
    <2> QED
      BY <2>1 DEF Queued
  <1>8. Owned'
    <2>1. ASSUME ~loose
          PROVE  /\ IdsOf(vectors') \subseteq IdsOf(chunks)
                 /\ \A q \in Procs : run'[q].pc # "delete"
      <3>1. lock = p
        BY <1>0, <2>1 DEF Locks
      <3>2. IdsOf(batch) \subseteq IdsOf(chunks) /\ IdsOf(vectors) \subseteq IdsOf(chunks)
        BY <1>0, <1>4, <2>1 DEF Queued, Owned, IdsOf
      <3>3. IdsOf(vectors') \subseteq IdsOf(vectors) \cup IdsOf(batch)
        BY <1>1 DEF IdsOf
      <3>4. \A q \in Procs : run'[q].pc # "delete"
        BY <1>0, <1>3, <3>1, PlaceNames DEF Locks, Alone
      <3> QED
        BY <3>2, <3>3, <3>4
    <2> QED
      BY <1>0, <2>1 DEF Owned
  <1>9. vectors \subseteq vectors'
    <2>1. ASSUME NEW v \in vectors, v.id \in IdsOf(batch)
          PROVE  v \in batch
      <3>1. PICK x \in batch : x.id = v.id
        BY <2>1 DEF IdsOf
      <3>2. x \in Named /\ v \in Named
        BY DEF Named
      <3> QED
        BY <1>4, <3>1, <3>2 DEF OneText
    <2> QED
      BY <1>1, <2>1
  <1> QED
    BY <1>4, <1>5, <1>6, <1>7, <1>8, <1>9 DEF Mentions

-----------------------------------------------------------------------------
(* The invariant *)

IInv == Types /\ Locks /\ Children /\ Rows /\ Mentions

\* The invariant holds at first.
LEMMA InitInvariant ==
  Init => IInv
  <1> SUFFICES ASSUME Init
               PROVE  IInv
    OBVIOUS
  <1>0. \A p \in Procs : run[p] = Idle /\ run[p].pc = "idle" /\ run[p].queue = {}
    BY DEF Init, Idle
  <1>1. Types
    BY IdleType, FS_EmptySet DEF Init, Types
  <1>2. Locks /\ Children
    BY <1>0, NoProcAssumption, ProcsProperties DEF Init, Locks, Children, Parsing
  <1>3. Rows
    BY <1>0 DEF Init, Rows, Writing, WritingOf, Whole, IdsUnique, Single, TextsOf, ChunksOf
  <1>4. Mentions
    BY <1>0 DEF Init, Mentions, OneText, Named, Queued, Owned, IdsOf, Parsing
  <1> QED
    BY <1>1, <1>2, <1>3, <1>4 DEF IInv

\* Every step keeps the invariant.
LEMMA StepInvariant ==
  IInv /\ [Next]_vars => IInv'
  <1> SUFFICES ASSUME IInv, [Next]_vars
               PROVE  IInv'
    OBVIOUS
  <1>0. Types /\ Locks /\ Children /\ Rows /\ Mentions
    BY DEF IInv
  <1>1. ASSUME NEW p \in Procs, ProcessStep(p) \/ EmbedStops(p) \/ Crash(p)
        PROVE  IInv'
    <2>1. Locks' /\ Children'
      BY <1>0, <1>1, ProcessTurns, ProcessLocks
    <2>2. CASE \/ SkipFile(p) \/ NothingToEmbed(p) \/ DetachEmbed(p) \/ EmbedInline(p) \/ EmbedEnds(p)
               \/ DetachPhases(p) \/ PhasesInline(p) \/ EmbedStops(p) \/ Crash(p)
      <3>1. Types' /\ UNCHANGED <<dbVars, loose>> /\ \A q \in Procs : Moves(q)
        BY <1>0, <2>2, QuietProcessSteps
      <3> QED
        BY <1>0, <2>1, <3>1, QuietRows, QuietMentions DEF IInv
    <2>3. CASE UpsertFile(p)
      BY <1>0, <2>1, <2>3, ParseTypes, UpsertFileKeeps DEF IInv
    <2>4. CASE \E f \in Files : StaleFile(p, f)
      BY <1>0, <2>1, <2>4, ParseTypes, StaleFileKeeps DEF IInv
    <2>5. CASE DeleteEmbeddings(p)
      BY <1>0, <2>1, <2>5, ParseTypes, DeleteEmbeddingsKeeps DEF IInv
    <2>6. CASE DeleteRow(p)
      BY <1>0, <2>1, <2>6, ParseTypes, DeleteRowKeeps DEF IInv
    <2>7. CASE DeleteChunks(p)
      BY <1>0, <2>1, <2>7, DeleteChunksTypes, DeleteChunksKeeps DEF IInv
    <2>8. CASE StoreChunk(p)
      <3>1. run[p].file \in Files /\ run[p].version \in Versions
        BY <1>0, <2>8 DEF StoreChunk, Rows, Writing, WritingOf, Types, Runs
      <3> QED
        BY <1>0, <2>1, <2>8, <3>1, StoreChunkTypes, StoreChunkKeeps DEF IInv
    <2>9. CASE SaveBatch(p)
      BY <1>0, <2>1, <2>9, SaveBatchTypes, SaveBatchKeeps DEF IInv
    <2> QED
      BY <1>1, <2>2, <2>3, <2>4, <2>5, <2>6, <2>7, <2>8, <2>9 DEF ProcessStep
  <1>2. ASSUME NEW u \in Users,
               \/ \E force \in Forced : \E detach \in Detached[u] : StartRun(u, detach, force)
               \/ Spawn(u) \/ SpawnFails(u) \/ Confirmed(u) \/ NotConfirmed(u)
               \/ ChildStarts(u) \/ EmbedderReady(u) \/ WaitGivesUp(u)
        PROVE  IInv'
    <2>1. Locks' /\ Children'
      BY <1>0, <1>2, UserLocks
    <2>2. Types' /\ UNCHANGED dbVars /\ (loose => loose') /\ \A q \in Procs : Moves(q)
      BY <1>0, <1>2, QuietUserSteps
    <2> QED
      BY <1>0, <2>1, <2>2, QuietRows, QuietMentions DEF IInv
  <1>3. CASE (\E f \in Files : Edit(f)) \/ EmbedderChanges \/ UNCHANGED vars
    <2>1. Types' /\ UNCHANGED <<dbVars, loose, lockVars, run>> /\ \A q \in Procs : Moves(q)
      BY <1>0, <1>3, WorldSteps
    <2>2. Locks' /\ Children'
      BY <1>0, <2>1 DEF Locks, Children, lockVars
    <2> QED
      BY <1>0, <2>1, <2>2, QuietRows, QuietMentions DEF IInv
  <1>4. \A u \in Users : Main(u) \in Procs /\ Child(u) \in Procs
    BY ProcsProperties
  <1>5. CASE Next
    BY <1>1, <1>2, <1>3, <1>4, <1>5 DEF Next, MainStep, ChildStep
  <1> QED
    BY <1>3, <1>5

\* The invariant holds in every state.
LEMMA Invariance == Spec => []IInv
  BY InitInvariant, StepInvariant, PTL DEF Spec

-----------------------------------------------------------------------------
(* Theorems *)

\* Type correctness: the tables and the working tree are well formed, and the
\* lock is never held by a process that does not run.
THEOREM IndexTypeCorrect == Spec => []TypeOK
  <1> DEFINE World == /\ disk \in [Files -> Versions \cup {Gone, Opaque}]
                      /\ lock \in Procs \cup {NoProc} /\ pidFile \in Procs \cup {NoProc}
                      /\ loose \in BOOLEAN
  <1>1. Init => World
    BY IndexAssumption DEF Init
  <1>2. ASSUME IInv, World, [Next]_vars
        PROVE  World'
    <2>0. \A u \in Users : Main(u) \in Procs /\ Child(u) \in Procs
      BY ProcsProperties
    <2>1. ASSUME NEW p \in Procs, ProcessStep(p) \/ EmbedStops(p) \/ Crash(p)
          PROVE  World'
      <3>1. UNCHANGED <<loose, pidFile>> /\ (UNCHANGED lock \/ Released(p))
        BY <1>2, <2>1, ProcessTurns DEF IInv, Works, Leaves, lockVars
      <3>2. UNCHANGED disk
        BY <2>1 DEF ProcessStep, SkipFile, UpsertFile, StaleFile, DeleteEmbeddings, DeleteChunks, DeleteRow,
           StoreChunk, NothingToEmbed, DetachEmbed, EmbedInline, SaveBatch, EmbedEnds, DetachPhases,
           PhasesInline, EmbedStops, Crash, worldVars
      <3> QED
        BY <1>2, <3>1, <3>2 DEF Released
    <2>2. ASSUME NEW u \in Users,
                 \/ \E force \in Forced : \E detach \in Detached[u] : StartRun(u, detach, force)
                 \/ Spawn(u) \/ SpawnFails(u) \/ Confirmed(u) \/ NotConfirmed(u)
                 \/ ChildStarts(u) \/ EmbedderReady(u) \/ WaitGivesUp(u)
          PROVE  World'
      <3>1. UNCHANGED disk /\ (UNCHANGED loose \/ loose' = TRUE)
        BY <2>2 DEF StartRun, Spawn, SpawnFails, Confirmed, NotConfirmed, ChildStarts, EmbedderReady,
           WaitGivesUp, worldVars
      <3>2. /\ lock' \in {lock, Main(u), Child(u)}
            /\ pidFile' \in {pidFile, NoProc, Main(u), Child(u)}
        BY <2>2 DEF StartRun, Spawn, SpawnFails, Confirmed, NotConfirmed, ChildStarts, EmbedderReady,
           WaitGivesUp, lockVars, Acquired, Recorded
      <3> QED
        BY <1>2, <2>0, <3>1, <3>2
    <2>3. CASE (\E f \in Files : Edit(f)) \/ EmbedderChanges \/ UNCHANGED vars
      BY <1>2, <2>3 DEF Edit, EmbedderChanges, vars, lockVars, worldVars
    <2>4. CASE Next
      BY <2>0, <2>1, <2>2, <2>3, <2>4 DEF Next, MainStep, ChildStep
    <2> QED
      BY <1>2, <2>3, <2>4
  <1>3. ASSUME IInv, World
        PROVE  TypeOK
    <2>1. lock # NoProc => run[lock].pc # "idle"
      BY <1>3 DEF IInv, Locks, Parsing
    <2> QED
      BY <1>3, <2>1 DEF IInv, Types, TypeOK
  <1> HIDE DEF World
  <1> QED
    BY <1>1, <1>2, <1>3, Invariance, PTL DEF Spec

\* The recorded hash tells the truth: a file that no interrupted run left half
\* written has exactly the chunks of the version its hash records, each once.
THEOREM HashTellsTruth == Spec => []HashMeansChunks
  <1>1. ASSUME IInv
        PROVE  HashMeansChunks
    <2>1. ASSUME NEW f \in Files \ torn
          PROVE  /\ TextsOf(f) = IF hash[f] = 0 THEN {} ELSE Cut(hash[f])
                 /\ Cardinality(ChunksOf(f)) = Cardinality(TextsOf(f))
      <3>1. Single(f) /\ TextsOf(f) = IF hash[f] = 0 THEN {} ELSE Cut(hash[f])
        BY <1>1 DEF IInv, Rows, Whole
      <3>2. IsFiniteSet(ChunksOf(f))
        <4>1. ChunksOf(f) \subseteq chunks
          BY DEF ChunksOf
        <4> QED
          BY <1>1, <4>1, FS_Subset DEF IInv, Types
      <3> DEFINE textOf == [c \in ChunksOf(f) |-> c.text]
      <3>3. textOf \in [ChunksOf(f) -> TextsOf(f)]
        BY DEF TextsOf
      <3>4. \A b, c \in ChunksOf(f) : textOf[b] = textOf[c] => b = c
        BY <3>1 DEF Single
      <3>5. \A t \in TextsOf(f) : \E c \in ChunksOf(f) : textOf[c] = t
        BY DEF TextsOf
      <3> HIDE DEF textOf
      <3>6. textOf \in Injection(ChunksOf(f), TextsOf(f)) /\ textOf \in Surjection(ChunksOf(f), TextsOf(f))
        BY <3>3, <3>4, <3>5, Fun_IsInj, Fun_IsSurj
      <3> QED
        BY <3>1, <3>2, <3>6, FS_Surjection
    <2> QED
      BY <2>1 DEF HashMeansChunks
  <1> QED
    BY <1>1, Invariance, PTL

\* A vector found under a chunk's id was computed from that chunk's text, even
\* one saved by a run that lost its lock; and as long as every child could be
\* spawned no vector outlives its chunk.
THEOREM VectorsBelongToChunks == Spec => []VectorsBelong
  <1>1. ASSUME IInv
        PROVE  VectorsBelong
    <2>1. ASSUME NEW v \in vectors, NEW c \in chunks, v.id = c.id
          PROVE  v.text = c.text
      <3> DEFINE x == [id |-> c.id, text |-> c.text]
      <3>1. x \in Named /\ v \in Named
        BY DEF Named
      <3>2. x.id = v.id => x = v
        BY <1>1, <3>1 DEF IInv, Mentions, OneText
      <3> QED
        BY <2>1, <3>2
    <2>2. loose \/ IdsOf(vectors) \subseteq IdsOf(chunks)
      BY <1>1 DEF IInv, Mentions, Owned
    <2> QED
      BY <2>1, <2>2 DEF VectorsBelong
  <1> QED
    BY <1>1, Invariance, PTL

\* The command says "embedding in the background" only of its own child, and
\* only after that child has taken the lock over.
THEOREM HandoffIsTruthful == Spec => HandoffTruthful
  <1>1. ASSUME IInv, NEW u \in Users, Confirmed(u)
        PROVE  run[Main(u)].took
    BY <1>1 DEF IInv, Children, Confirmed, HolderIs
  <1>2. IInv /\ [Next]_vars => [\A u \in Users : Confirmed(u) => run[Main(u)].took]_vars
    BY <1>1
  <1> QED
    BY <1>2, Invariance, PTL DEF Spec, HandoffTruthful

\* No step of any process loses a vector, but for the run that is replacing or
\* removing the file the vector's chunk belongs to.
THEOREM VectorsAreKept == Spec => WorkIsKept
  <1>1. ASSUME IInv, [Next]_vars, NEW v \in vectors \ vectors'
        PROVE  \E c \in chunks : c.id = v.id /\ c.file \in torn
    <2>0. Types /\ Locks /\ Rows /\ Mentions
      BY <1>1 DEF IInv
    <2>1. vectors' # vectors
      BY <1>1
    <2>2. ASSUME NEW p \in Procs, DeleteEmbeddings(p)
          PROVE  \E c \in chunks : c.id = v.id /\ c.file \in torn
      <3>1. v.id \in IdsOf(ChunksOf(run[p].file)) /\ run[p].pc = "clear"
        BY <1>1, <2>2 DEF DeleteEmbeddings
      <3>2. run[p].file \in torn
        BY <2>0, <3>1 DEF Rows, Writing, WritingOf
      <3> QED
        BY <3>1, <3>2 DEF IdsOf, ChunksOf
    <2>3. ASSUME NEW p \in Procs
          PROVE  ~SaveBatch(p)
      BY <1>1, <2>0, SaveBatchKeeps
    <2>4. ASSUME NEW p \in Procs, ProcessStep(p)
          PROVE  DeleteEmbeddings(p)
      BY <2>1, <2>3, <2>4 DEF ProcessStep, SkipFile, UpsertFile, StaleFile, DeleteChunks, DeleteRow,
           StoreChunk, NothingToEmbed, DetachEmbed, EmbedInline, EmbedEnds, DetachPhases, PhasesInline, dbVars
    <2>5. ASSUME NEW u \in Users, MainStep(u) \/ ChildStep(u)
          PROVE  ProcessStep(Main(u)) \/ ProcessStep(Child(u))
      BY <2>1, <2>5 DEF MainStep, ChildStep, Spawn, Confirmed, NotConfirmed, ChildStarts, EmbedderReady,
           WaitGivesUp, dbVars
    <2>6. \E u \in Users : MainStep(u) \/ ChildStep(u)
      BY <1>1, <2>1 DEF Next, StartRun, SpawnFails, EmbedStops, Crash, Edit, EmbedderChanges, vars, dbVars
    <2> QED
      BY <2>2, <2>4, <2>5, <2>6, ProcsProperties
  <1>2. IInv /\ [Next]_vars =>
          [\A v \in vectors \ vectors' : \E c \in chunks : c.id = v.id /\ c.file \in torn]_vars
    BY <1>1
  <1> QED
    BY <1>2, Invariance, PTL DEF Spec, WorkIsKept
=============================================================================
