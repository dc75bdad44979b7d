----------------------------- MODULE MemorySync -----------------------------
(***************************************************************************)
(* Two-way sync of local memory stores with a team server: spelunk sync,   *)
(* memory push and memory pull (spelunk-cli, memory/sync), the rows they   *)
(* read and stamp (spelunk-core, memory/sync.rs) and the server's batch,   *)
(* since and delete handlers (spelunk-server).                             *)
(*                                                                         *)
(* An entry is its content: entity_id hashes kind, title and body, and a   *)
(* store has at most one row per entity_id.  The external_id a client      *)
(* pushes is the uuid of its row, here <<client, content>>.  sync_id is    *)
(* minted in arrival order, so it is the position in server.  Embeddings,  *)
(* tags and relates_to edges are left out.                                 *)
(***************************************************************************)
EXTENDS Naturals, Sequences, FiniteSets, FiniteSetsExt, Functions

CONSTANTS
  Clients,        \* machines with a local memory.db
  Contents,       \* entries that may be recorded, by entity_id
  ChunkSize,      \* PUSH_BATCH_CHUNK_SIZE
  PageSize,       \* MEMORY_SINCE_PULL_LIMIT
  CloudApi,       \* the server is cloud-api (external) and not spelunk-server
  Include,        \* values of --include-archived in use
  Recorders,      \* bound: the clients that may record an entry
  Commands,       \* bound: the commands a client runs
  MaxServer       \* bound: entries the server ever stores

ASSUME ConstantsAssumption ==
  /\ IsFiniteSet(Contents)
  /\ ChunkSize \in Nat \ {0}
  /\ PageSize \in Nat \ {0}
  /\ MaxServer \in Nat
  /\ CloudApi \in BOOLEAN
  /\ Include \subseteq BOOLEAN
  /\ Recorders \in [Contents -> SUBSET Clients]
  /\ Commands \in [Clients -> SUBSET {"sync", "push", "pull"}]

VARIABLES
  local,          \* notes of each client: content -> row
  server,         \* notes of the server, by sync_id
  pc, kind,       \* where a client's sync command is, and which one
  cursor,         \* max_remote_id when the command started; 0 is None
  from, pass,     \* cursor of the next page; first or confirmation pull
  page, full,     \* the rest of the page being applied, as a function from the
                  \* sync_ids to is_archived; was it a full one
  todo, tombs,    \* rows_for_sync: entries to push, sync_ids to tombstone
  reply           \* sync_ids the answered chunk is about to be stamped with

command == <<pc, kind, cursor, from, pass, page, full, todo, tombs, reply>>
vars == <<local, server, command>>

NoRow == [status |-> "none", rid |-> 0]
Row(status, rid) == [status |-> status, rid |-> rid]
Ext(c, e) == <<c, e>>

SyncIds == DOMAIN server
\* max_remote_id: the pull cursor a command derives from the store.
MaxRemoteId(c) == Max({local[c][e].rid : e \in Contents} \cup {0})

-----------------------------------------------------------------------------
(* The local store *)

LocalAdd(c, e) ==
  /\ c \in Recorders[e]
  /\ local[c][e] = NoRow
  /\ local' = [local EXCEPT ![c][e] = Row("active", 0)]
  /\ UNCHANGED <<server, command>>

LocalArchive(c, e) ==
  /\ local[c][e].status = "active"
  /\ local' = [local EXCEPT ![c][e].status = "archived"]
  /\ UNCHANGED <<server, command>>

\* set_remote_id: UPDATE ... WHERE remote_id IS NULL.
SetRemoteId(row, s) == IF row.rid = 0 THEN [row EXCEPT !.rid = s] ELSE row

\* Mutant: the status follows the feed in both directions.
Archive_Follows(row, archived) ==
  [row EXCEPT !.status = IF archived THEN "archived" ELSE "active"]

\* An archived entry archives its row; a live one changes nothing.
Archive(row, archived) == IF archived THEN [row EXCEPT !.status = "archived"] ELSE row

\* apply_remote_note: a known remote_id is only ever archived; an unknown one
\* is inserted, or adopted by the row that already has its entity_id.
ApplyRemote(rows, s, e, archived) ==
  IF \E f \in Contents : rows[f].rid = s
  THEN [f \in Contents |-> IF rows[f].rid = s THEN Archive(rows[f], archived) ELSE rows[f]]
  ELSE [rows EXCEPT ![e] =
          IF rows[e] = NoRow
          THEN Row(IF archived THEN "archived" ELSE "active", s)
          ELSE Archive(SetRemoteId(rows[e], s), archived)]

-----------------------------------------------------------------------------
(* The server *)

\* notes_since_id: live entries after the cursor, in arrival order.  The
\* cloud's feed also carries archived entries (RemoteEntry::is_archived).
InFeed(s, after) ==
  /\ s > after
  /\ server[s].status = "active" \/ (CloudApi /\ server[s].status = "archived")
Hits(after) == {s \in SyncIds : InFeed(s, after)}

\* A page: its entries' ids, each with is_archived.
NoPage == [s \in {} |-> FALSE]
Listed(S) == [s \in S |-> server[s].status = "archived"]

\* Mutant: the newest entries first.
PageOf_Newest(after) ==
  Listed({s \in Hits(after) : Cardinality({t \in Hits(after) : t > s}) < PageSize})

\* memory_since: the first PageSize of them.
PageOf(after) ==
  Listed({s \in Hits(after) : Cardinality({t \in Hits(after) : t < s}) < PageSize})

\* find_by_remote_ids looks at live rows only ...
LiveId(x) == {s \in SyncIds : server[s].ext = x /\ server[s].status = "active"}
\* Mutant: no unique index.
Indexed_None(x) == {}

\* ... but the unique index on (project_id, remote_id) covers archived rows.
Indexed(x) == {s \in SyncIds : server[s].ext = x /\ server[s].status # "deleted"}

Orders(S) ==
  {f \in [1 .. Cardinality(S) -> S] : \A i, j \in DOMAIN f : f[i] = f[j] => i = j}

\* add_note for each of the client's entries in S, in some order.
Store(c, S) ==
  /\ Len(server) + Cardinality(S) =< MaxServer
  /\ \E f \in Orders(S) :
       server' = server \o [i \in DOMAIN f |->
                              [ext |-> Ext(c, f[i]), content |-> f[i], status |-> "active"]]

\* A teammate archives or deletes an entry through the server's own routes.
ServerRetire(s, status) ==
  /\ server[s].status = "active"
  /\ server' = [server EXCEPT ![s].status = status]
  /\ UNCHANGED <<local, command>>

-----------------------------------------------------------------------------
(* The sync command *)

NoReply == [e \in Contents |-> 0]

\* The command returns to the user, with Ok or with an error.
Return(c) ==
  /\ pc' = [pc EXCEPT ![c] = "idle"]
  /\ kind' = [kind EXCEPT ![c] = "none"]
  /\ cursor' = [cursor EXCEPT ![c] = 0]
  /\ from' = [from EXCEPT ![c] = 0]
  /\ pass' = [pass EXCEPT ![c] = 1]
  /\ page' = [page EXCEPT ![c] = NoPage]
  /\ full' = [full EXCEPT ![c] = FALSE]
  /\ todo' = [todo EXCEPT ![c] = {}]
  /\ tombs' = [tombs EXCEPT ![c] = {}]
  /\ reply' = [reply EXCEPT ![c] = NoReply]

Goto(c, label) == pc' = [pc EXCEPT ![c] = label]

\* memory_sync, memory_push and memory_pull; sync_round goes straight to its
\* push when nothing was ever synced (sync_round_first).
Start(c, k) ==
  LET pulls == k = "pull" \/ (k = "sync" /\ MaxRemoteId(c) # 0) IN
  /\ pc[c] = "idle"
  /\ kind' = [kind EXCEPT ![c] = k]
  /\ cursor' = [cursor EXCEPT ![c] = IF k = "sync" THEN MaxRemoteId(c) ELSE 0]
  /\ from' = [from EXCEPT ![c] = IF pulls THEN MaxRemoteId(c) ELSE 0]
  /\ pass' = [pass EXCEPT ![c] = IF k = "pull" THEN 2 ELSE 1]
  /\ Goto(c, IF pulls THEN "pull" ELSE "rows")
  /\ UNCHANGED <<local, server, page, full, todo, tombs, reply>>

\* A short page ends a pull; a full one is always followed up.
PageApplied(c) == pc[c] = "apply" /\ page[c] = NoPage
PullOver(c) == PageApplied(c) /\ ~full[c]

\* pull_and_apply_since requests one page.
PullPage(c) ==
  LET hits == PageOf(from[c])
      more == Cardinality(DOMAIN hits) = PageSize IN
  /\ pc[c] = "pull" \/ (PageApplied(c) /\ full[c])
  /\ page' = [page EXCEPT ![c] = hits]
  /\ full' = [full EXCEPT ![c] = more]
  /\ from' = [from EXCEPT ![c] = IF more THEN Max(DOMAIN hits) ELSE 0]
  /\ Goto(c, "apply")
  /\ UNCHANGED <<local, server, kind, cursor, pass, todo, tombs, reply>>

\* Entries are applied one transaction at a time, in arrival order.
ApplyEntry(c) ==
  LET s == Min(DOMAIN page[c]) IN
  /\ pc[c] = "apply"
  /\ page[c] # NoPage
  /\ local' = [local EXCEPT ![c] = ApplyRemote(@, s, server[s].content, page[c][s])]
  /\ page' = [page EXCEPT ![c] = Restrict(@, DOMAIN @ \ {s})]
  /\ UNCHANGED <<server, pc, kind, cursor, from, pass, full, todo, tombs, reply>>

LastPullEnds(c) ==
  /\ PullOver(c) /\ pass[c] = 2
  /\ Return(c)
  /\ UNCHANGED <<local, server>>

\* Mutant: archived rows are left out.
Tombstones_LiveOnly(c) == {}

\* The archived rows the server knows, which --include-archived deletes there.
Tombstones(c) ==
  {local[c][e].rid : e \in {f \in Contents : local[c][f].status = "archived"}} \ {0}

\* After the first pull, push_local_reporting reads its rows, once.
ReadRows(c, include) ==
  /\ pc[c] = "rows" \/ (PullOver(c) /\ pass[c] = 1)
  /\ todo' = [todo EXCEPT ![c] =
       {e \in Contents : local[c][e].status = "active" /\ local[c][e].rid = 0}]
  /\ tombs' = [tombs EXCEPT ![c] = IF include THEN Tombstones(c) ELSE {}]
  /\ Goto(c, "push")
  /\ UNCHANGED <<local, server, kind, cursor, from, pass, page, full, reply>>

Chunks(c) ==
  {S \in SUBSET todo[c] :
     S # {} /\ (Cardinality(S) = ChunkSize \/ (S = todo[c] /\ Cardinality(S) < ChunkSize))}

\* The chunk's entries the server has no live row for.
Fresh(c, chunk) == {e \in chunk : LiveId(Ext(c, e)) = {}}
Conflicts(c, chunk) == {e \in Fresh(c, chunk) : Indexed(Ext(c, e)) # {}}

\* push_memory_batch answers created or skipped for every entry of a chunk;
\* both carry the entry's sync_id.
BatchAnswered(c) ==
  /\ pc[c] = "push"
  /\ \E chunk \in Chunks(c) :
       /\ Conflicts(c, chunk) = {}
       /\ Store(c, Fresh(c, chunk))
       /\ reply' = [reply EXCEPT ![c] = [e \in Contents |->
            IF e \in chunk
            THEN CHOOSE s \in DOMAIN server' : server'[s].ext = Ext(c, e) /\ server'[s].status = "active"
            ELSE 0]]
       /\ todo' = [todo EXCEPT ![c] = @ \ chunk]
  /\ Goto(c, "stamp")
  /\ UNCHANGED <<local, kind, cursor, from, pass, page, full, tombs>>

\* Mutant: the confirmation pull derives its cursor afresh.
AfterPush_FreshCursor(c) ==
  IF kind[c] = "sync"
  THEN /\ Goto(c, "pull")
       /\ from' = [from EXCEPT ![c] = MaxRemoteId(c)]
       /\ pass' = [pass EXCEPT ![c] = 2]
       /\ todo' = [todo EXCEPT ![c] = {}]
       /\ tombs' = [tombs EXCEPT ![c] = {}]
       /\ UNCHANGED <<kind, cursor, page, full, reply>>
  ELSE Return(c)

\* sync_round pulls again from the cursor it started with; push just ends.
AfterPush(c) ==
  IF kind[c] = "sync"
  THEN /\ Goto(c, "pull")
       /\ from' = [from EXCEPT ![c] = cursor[c]]
       /\ pass' = [pass EXCEPT ![c] = 2]
       /\ todo' = [todo EXCEPT ![c] = {}]
       /\ tombs' = [tombs EXCEPT ![c] = {}]
       /\ UNCHANGED <<kind, cursor, page, full, reply>>
  ELSE Return(c)

\* An insert violates the unique index: the handler fails with what it stored
\* before that entry committed.  The client stops pushing (interrupted).
BatchRejected(c) ==
  /\ pc[c] = "push"
  /\ \E chunk \in Chunks(c) :
       /\ Conflicts(c, chunk) # {}
       /\ \E S \in SUBSET (Fresh(c, chunk) \ Conflicts(c, chunk)) : Store(c, S)
  /\ AfterPush(c)
  /\ UNCHANGED local

\* The request or its answer is lost, or the server dies part way through:
\* to the client the same interruption.
BatchLost(c) ==
  /\ pc[c] = "push"
  /\ \E chunk \in Chunks(c) :
       \E S \in SUBSET (Fresh(c, chunk) \ Conflicts(c, chunk)) : Store(c, S)
  /\ AfterPush(c)
  /\ UNCHANGED local

\* Mutant: every row of the chunk gets the first id of the answer.
Stamped_FirstId(c, S) ==
  [local EXCEPT ![c] = [e \in Contents |->
     IF e \in S THEN SetRemoteId(@[e], reply[c][CHOOSE f \in S : TRUE]) ELSE @[e]]]

\* The rows of S with the ids they were answered with.
Stamped(c, S) ==
  [local EXCEPT ![c] = [e \in Contents |->
     IF e \in S THEN SetRemoteId(@[e], reply[c][e]) ELSE @[e]]]
Answered(c) == {e \in Contents : reply[c][e] # 0}

Stamp(c) ==
  /\ pc[c] = "stamp"
  /\ local' = Stamped(c, Answered(c))
  /\ reply' = [reply EXCEPT ![c] = NoReply]
  /\ Goto(c, "push")
  /\ UNCHANGED <<server, kind, cursor, from, pass, page, full, todo, tombs>>

PushEnds(c) ==
  /\ pc[c] = "push"
  /\ todo[c] = {} /\ tombs[c] = {}
  /\ AfterPush(c)
  /\ UNCHANGED <<local, server>>

\* delete_remote against cloud-api: 404 counts as success.
Tombstone(c) ==
  /\ pc[c] = "push"
  /\ todo[c] = {}
  /\ CloudApi
  /\ \E s \in tombs[c] :
       /\ server' = [server EXCEPT ![s].status = IF @ = "active" THEN "archived" ELSE @]
       /\ tombs' = [tombs EXCEPT ![c] = @ \ {s}]
  /\ UNCHANGED <<local, pc, kind, cursor, from, pass, page, full, todo, reply>>

\* spelunk-server's DELETE route takes an integer row id: a sync_id is a 400,
\* and the error ends the command.
TombstoneRefused(c) ==
  /\ pc[c] = "push"
  /\ todo[c] = {} /\ tombs[c] # {}
  /\ ~CloudApi
  /\ Return(c)
  /\ UNCHANGED <<local, server>>

\* A first pull fails, or the command is killed before it pushed anything.
FailsEarly(c) ==
  /\ pc[c] \in {"pull", "apply", "rows"}
  /\ pass[c] = 1
  /\ Return(c)
  /\ UNCHANGED <<local, server>>

\* The last pull of a command fails: the error is returned.
LastPullFails(c) ==
  /\ pc[c] \in {"pull", "apply"}
  /\ pass[c] = 2
  /\ Return(c)
  /\ UNCHANGED <<local, server>>

\* The command is killed while it pushes, or with some of a chunk stamped.
KilledPushing(c) ==
  /\ pc[c] \in {"push", "stamp"}
  /\ \E S \in SUBSET Answered(c) : local' = Stamped(c, S)
  /\ Return(c)
  /\ UNCHANGED server

-----------------------------------------------------------------------------
Init ==
  /\ local = [c \in Clients |-> [e \in Contents |-> NoRow]]
  /\ server = <<>>
  /\ pc = [c \in Clients |-> "idle"]
  /\ kind = [c \in Clients |-> "none"]
  /\ cursor = [c \in Clients |-> 0]
  /\ from = [c \in Clients |-> 0]
  /\ pass = [c \in Clients |-> 1]
  /\ page = [c \in Clients |-> NoPage]
  /\ full = [c \in Clients |-> FALSE]
  /\ todo = [c \in Clients |-> {}]
  /\ tombs = [c \in Clients |-> {}]
  /\ reply = [c \in Clients |-> NoReply]

\* What a running command does next when nothing fails.
Step(c) ==
  \/ PullPage(c) \/ ApplyEntry(c) \/ LastPullEnds(c)
  \/ \E include \in Include : ReadRows(c, include)
  \/ BatchAnswered(c) \/ BatchRejected(c) \/ Stamp(c) \/ PushEnds(c)
  \/ Tombstone(c) \/ TombstoneRefused(c)

LocalUse == \E c \in Clients, e \in Contents : LocalAdd(c, e) \/ LocalArchive(c, e)
ServerUse ==
  \E s \in SyncIds, status \in {"archived", "deleted"} : ServerRetire(s, status)

Next ==
  \/ LocalUse \/ ServerUse
  \/ \E c \in Clients :
       \/ \E k \in Commands[c] : Start(c, k)
       \/ Step(c) \/ BatchLost(c) \/ FailsEarly(c) \/ LastPullFails(c) \/ KilledPushing(c)

Spec == Init /\ [][Next]_vars

\* Every client runs spelunk sync, and confirmation pulls do not fail: what
\* sync_round is built for.  Lost batches and failing first pulls remain.
CalmNext == LocalUse \/ \E c \in Clients : Start(c, "sync") \/ Step(c)
RoundNext == CalmNext \/ \E c \in Clients : BatchLost(c) \/ FailsEarly(c)

\* Every client keeps running spelunk sync, and a running command goes on.
FairSpec ==
  /\ Init /\ [][RoundNext]_vars
  /\ \A c \in Clients : WF_vars(Step(c)) /\ WF_vars(Start(c, "sync"))

-----------------------------------------------------------------------------
(* Properties *)

Statuses == {"none", "active", "archived"}
Labels == {"idle", "pull", "apply", "rows", "push", "stamp"}
Ids == 0 .. MaxServer
Entry == [ext : Clients \X Contents, content : Contents, status : {"active", "archived", "deleted"}]

\* Every variable has its type, and no id points past the server's last entry.
TypeOK ==
  /\ local \in [Clients -> [Contents -> [status : Statuses, rid : Ids]]]
  /\ server \in Seq(Entry) /\ Len(server) =< MaxServer
  /\ pc \in [Clients -> Labels]
  /\ kind \in [Clients -> {"none", "sync", "push", "pull"}]
  /\ cursor \in [Clients -> Ids]
  /\ from \in [Clients -> Ids]
  /\ pass \in [Clients -> {1, 2}]
  /\ page \in [Clients -> UNION {[S -> BOOLEAN] : S \in SUBSET SyncIds}]
  /\ full \in [Clients -> BOOLEAN]
  /\ todo \in [Clients -> SUBSET Contents]
  /\ tombs \in [Clients -> SUBSET SyncIds]
  /\ reply \in [Clients -> [Contents -> Ids]]

\* A stamped row names the server entry that carries its own content, through
\* lost answers, retries, echoes of a client's own pushes and entries several
\* clients recorded: remote_id is what a tombstone is later sent for.
StampsMatch ==
  \A c \in Clients, e \in Contents :
    local[c][e].rid # 0 =>
      /\ local[c][e].rid \in SyncIds
      /\ server[local[c][e].rid].content = e

\* A push is idempotent: however often a chunk is resent, the server never
\* holds two entries for one external_id.
PushedOnce ==
  \A s, t \in SyncIds :
    server[s].ext = server[t].ext /\ "deleted" \notin {server[s].status, server[t].status} => s = t

\* What a stale page or a late answer says never un-archives a local entry.
NeverUnarchived ==
  [][\A c \in Clients, e \in Contents :
       local[c][e].status = "archived" => local'[c][e].status = "archived"]_vars

\* The cursor a client derives from its own rows never hides an entry: between
\* commands, every live entry of the server that the client does not have yet
\* sorts after it, so the next pull still returns it (sync_round: "re-running
\* sync ... retries the pull with an unaffected, freshly-derived cursor").
Unseen(c) == {s \in SyncIds : server[s].status = "active" /\ local[c][server[s].content] = NoRow}
NothingShadowed ==
  \A c \in Clients : pc[c] = "idle" => \A s \in Unseen(c) : s > MaxRemoteId(c)

\* From some point on no request fails.
FailuresCease == <>[][CalmNext]_vars

\* An entry recorded on one client reaches every client once requests succeed,
\* unless its recorder archives it first.
EntriesSpread ==
  FailuresCease =>
    \A c, d \in Clients, e \in Contents :
      local[c][e].status = "active" ~>
        (local[c][e].status = "archived" \/ local[d][e] # NoRow)

\* An archive travels to the server: a synced entry that is archived locally
\* stops being live there (sync/mod.rs: "archive/tombstone state travel in
\* both directions").
ArchivesPropagate ==
  FailuresCease =>
    \A c \in Clients, s \in 1 .. MaxServer :
      (\E e \in Contents : local[c][e] = Row("archived", s)) ~>
        (s \in SyncIds /\ server[s].status # "active")
=============================================================================
