----------------------------- MODULE MemoryRelay ----------------------------
(***************************************************************************)
(* The local relay: spelunk-server as a per-machine outbound client        *)
(* (spelunk-server, relay/mod.rs), and the CLI calls that hand it unpushed *)
(* rows and apply what it brings back (spelunk-cli, memory/outbox.rs).     *)
(*                                                                         *)
(* On top of MemorySync: the same stores, the same team server and its     *)
(* handlers; the sync commands themselves do not run here.  One session,   *)
(* for one (team server, project), serves every store of the machine.  It  *)
(* lives in memory only.                                                   *)
(***************************************************************************)
EXTENDS MemorySync, Integers

CONSTANTS
  Machine,        \* the clients whose stores are on this machine
  Capacity,       \* MAX_BUFFERED_ITEMS_PER_SESSION
  MaxNudge,       \* MAX_NUDGE_ENTRIES
  Anonymous,      \* skipped answers may carry no id (cloud-api, external)
  Retired,        \* bound: what teammates do to entries on the server
  MaxPushes,      \* bound: detached pushes under way
  MaxFaults       \* bound: failed requests, killed calls and restarts of the relay

ASSUME RelayAssumption ==
  /\ IsFiniteSet(Clients)
  /\ Machine \subseteq Clients
  /\ Capacity \in Nat \ {0}
  /\ MaxNudge \in Nat \ {0}
  /\ Anonymous \in BOOLEAN
  /\ Retired \subseteq {"archived", "deleted"}
  /\ MaxPushes \in Nat
  /\ MaxFaults \in Nat

VARIABLES
  registered,     \* the session exists, so its pull loop runs
  scursor,        \* RelayInner.cursor; 0 is None
  results,        \* push_results: <<client, content>> -> sync_id, NoId or Absent
  pulled,         \* pulled: sync_id -> status of the buffered entry, or "none"
  pushes,         \* detached RelaySession::push tasks: rows sent, not yet answered
  answers,        \* answers of the team server not yet buffered
  loop,           \* the pull loop: "off", "wait", "asked" or "page"
  asked, batch,   \* cursor of the catch-up under way; the page it got
  cpc,            \* where a CLI call on a store is
  offer,          \* the rows and the cursor it registers with
  peekR, peekP,   \* what the poll returned and is not applied yet
  ackR, ackP,     \* what it applied and will name in its ack
  seeded,         \* history: the highest cursor a CLI gave this session
  faults

buffers == <<registered, scursor, results, pulled, pushes, answers, loop, asked, batch, seeded>>
session == <<buffers, faults>>
call == <<cpc, offer, peekR, peekP, ackR, ackP>>
relayVars == <<session, call>>
allVars == <<vars, relayVars>>

Absent == -1
NoId == 0
Exts == Clients \X Contents
NoResults == [x \in Exts |-> Absent]
NoPulled == [s \in 1 .. MaxServer |-> "none"]
NoOffer == [rows |-> {}, since |-> 0]

\* A failure, of which a behaviour has at most MaxFaults.
Fault == faults < MaxFaults /\ faults' = faults + 1

-----------------------------------------------------------------------------
(* The CLI: nudge_after_write and poll_and_apply *)

Outbox(c) == {e \in Contents : local[c][e].status = "active" /\ local[c][e].rid = 0}

\* The rows a registration offers: the unpushed ones, at most MaxNudge.
Offered(c) ==
  LET rows == Outbox(c)
  IN  {S \in SUBSET rows : Cardinality(S) = IF Cardinality(rows) =< MaxNudge
                                            THEN Cardinality(rows) ELSE MaxNudge}

\* register_and_push reads the store.
ReadOutbox(c) ==
  /\ cpc[c] = "idle"
  /\ \E rows \in Offered(c) :
       offer' = [offer EXCEPT ![c] = [rows |-> rows, since |-> MaxRemoteId(c)]]
  /\ cpc' = [cpc EXCEPT ![c] = "register"]
  /\ UNCHANGED <<vars, session, peekR, peekP, ackR, ackP>>

\* The call goes on to its poll; nudge_after_write ends here (CallAborts).
AfterRegister(c) ==
  /\ cpc' = [cpc EXCEPT ![c] = "peek"]
  /\ offer' = [offer EXCEPT ![c] = NoOffer]
  /\ UNCHANGED <<peekR, peekP, ackR, ackP>>

\* seed_cursor: never regresses the session's own cursor.
Seed(since) == IF since > scursor THEN since ELSE scursor

\* RelayRegistry::push: create the session, seed its cursor, start the pull
\* loop on first sight, and push the rows in a detached task.
Register(c) ==
  /\ cpc[c] = "register"
  /\ Cardinality(pushes) + Cardinality(answers) < MaxPushes \/ offer[c].rows = {}
  /\ registered' = TRUE
  /\ scursor' = Seed(offer[c].since)
  /\ seeded' = IF offer[c].since > seeded THEN offer[c].since ELSE seeded
  /\ loop' = IF loop = "off" THEN "wait" ELSE loop
  /\ pushes' = pushes \cup (IF offer[c].rows = {} THEN {}
                            ELSE {[client |-> c, rows |-> offer[c].rows]})
  /\ AfterRegister(c)
  /\ UNCHANGED <<vars, results, pulled, answers, asked, batch, faults>>

\* The relay is not reachable, or the request times out before it arrives.
RegisterFails(c) ==
  /\ cpc[c] = "register"
  /\ AfterRegister(c)
  /\ Fault
  /\ UNCHANGED <<vars, buffers>>

\* RelaySession::poll is a peek: a snapshot of both buffers.
Poll(c) ==
  /\ cpc[c] = "peek"
  /\ peekR' = [peekR EXCEPT ![c] = results]
  /\ peekP' = [peekP EXCEPT ![c] = pulled]
  /\ cpc' = [cpc EXCEPT ![c] = "results"]
  /\ UNCHANGED <<vars, session, offer, ackR, ackP>>

\* poll_and_apply stamps its own rows: an external_id of another store has no
\* note here, and a result without an id cannot be applied.
Stampable(c) == {e \in Contents : peekR[c][Ext(c, e)] > 0 /\ local[c][e] # NoRow}

ApplyResult(c, e) ==
  /\ cpc[c] = "results"
  /\ e \in Stampable(c)
  /\ local' = [local EXCEPT ![c][e] = SetRemoteId(@, peekR[c][Ext(c, e)])]
  /\ peekR' = [peekR EXCEPT ![c][Ext(c, e)] = Absent]
  /\ ackR' = [ackR EXCEPT ![c] = @ \cup {Ext(c, e)}]
  /\ UNCHANGED <<server, command, session, cpc, offer, peekP, ackP>>

\* A result whose stamp fails is not acknowledged, ...
StampFails(c, e) ==
  /\ cpc[c] = "results"
  /\ e \in Stampable(c)
  /\ peekR' = [peekR EXCEPT ![c][Ext(c, e)] = Absent]
  /\ Fault
  /\ UNCHANGED <<vars, buffers, cpc, offer, peekP, ackR, ackP>>

\* All results are through: the rest of them stays buffered on the relay.
ResultsApplied(c) ==
  /\ cpc[c] = "results"
  /\ Stampable(c) = {}
  /\ peekR' = [peekR EXCEPT ![c] = NoResults]
  /\ cpc' = [cpc EXCEPT ![c] = "pulled"]
  /\ UNCHANGED <<vars, session, offer, peekP, ackR, ackP>>

ApplyPulled(c, s) ==
  /\ cpc[c] = "pulled"
  /\ peekP[c][s] # "none"
  /\ local' = [local EXCEPT ![c] =
                 ApplyRemote(@, s, server[s].content, peekP[c][s] = "archived")]
  /\ peekP' = [peekP EXCEPT ![c][s] = "none"]
  /\ ackP' = [ackP EXCEPT ![c] = @ \cup {s}]
  /\ UNCHANGED <<server, command, session, cpc, offer, peekR, ackR>>

\* ... nor is an entry that fails to apply.
ApplyFails(c, s) ==
  /\ cpc[c] = "pulled"
  /\ peekP[c][s] # "none"
  /\ peekP' = [peekP EXCEPT ![c][s] = "none"]
  /\ Fault
  /\ UNCHANGED <<vars, buffers, cpc, offer, peekR, ackR, ackP>>

CallEnds(c) ==
  /\ cpc' = [cpc EXCEPT ![c] = "idle"]
  /\ offer' = [offer EXCEPT ![c] = NoOffer]
  /\ peekR' = [peekR EXCEPT ![c] = NoResults]
  /\ peekP' = [peekP EXCEPT ![c] = NoPulled]
  /\ ackR' = [ackR EXCEPT ![c] = {}]
  /\ ackP' = [ackP EXCEPT ![c] = {}]

\* Mutant: a destructive poll; the ack clears whatever is buffered.
RetiredP_All(c) == NoPulled
RetiredP(c) == [s \in 1 .. MaxServer |-> IF s \in ackP[c] THEN "none" ELSE pulled[s]]
\* Mutant: the ack also names results that could not be applied.
RetiredR_Unapplied(c) == [x \in Exts |-> IF x[1] = c \/ x \in ackR[c] THEN Absent ELSE results[x]]
RetiredR(c) == [x \in Exts |-> IF x \in ackR[c] THEN Absent ELSE results[x]]

\* RelaySession::ack retires exactly what the CLI names.
Ack(c) ==
  /\ cpc[c] = "pulled"
  /\ peekP[c] = NoPulled
  /\ results' = RetiredR(c)
  /\ pulled' = RetiredP(c)
  /\ CallEnds(c)
  /\ UNCHANGED <<vars, registered, scursor, pushes, answers, loop, asked, batch, seeded, faults>>

\* The poll or the ack fails, or the CLI is killed part way through.
CallAborts(c) ==
  /\ cpc[c] \in {"peek", "results", "pulled"}
  /\ CallEnds(c)
  /\ Fault
  /\ UNCHANGED <<vars, buffers>>

-----------------------------------------------------------------------------
(* The relay: push *)

\* The id a skipped entry is answered with.
SkipIds(x) == LiveId(x) \cup (IF Anonymous THEN {NoId} ELSE {})

\* push_memory_batch answers the relay's request.
PushAnswered(p) ==
  LET c == p.client
      fresh == Fresh(c, p.rows) IN
  /\ Conflicts(c, p.rows) = {}
  /\ Store(c, fresh)
  /\ \E ids \in [p.rows -> 0 .. MaxServer] :
       /\ \A e \in p.rows :
            IF e \in fresh
            THEN ids[e] \in DOMAIN server' \ DOMAIN server /\ server'[ids[e]].content = e
            ELSE ids[e] \in SkipIds(Ext(c, e))
       /\ answers' = answers \cup {[client |-> c, ids |-> ids]}
  /\ pushes' = pushes \ {p}
  /\ UNCHANGED <<local, command, registered, scursor, results, pulled, loop, asked, batch, seeded, faults, call>>

\* The request fails after part of it was stored: the error is recorded, the
\* rows stay in the outbox.
PushError(p) ==
  /\ \E S \in SUBSET (Fresh(p.client, p.rows) \ Conflicts(p.client, p.rows)) : Store(p.client, S)
  /\ pushes' = pushes \ {p}
  /\ UNCHANGED <<local, command, registered, scursor, results, pulled, answers, loop, asked, batch, seeded, call>>

\* The unique index rejects the request (see BatchRejected), ...
PushRejected(p) ==
  Conflicts(p.client, p.rows) # {} /\ PushError(p) /\ UNCHANGED faults
\* ... or the request or its answer is lost.
PushLost(p) == PushError(p) /\ Fault

\* Mutant: a later answer replaces the buffered one, id or not.
Kept_Latest(old, new) == new
\* A known id is never replaced by none.
Kept(old, new) == IF new # NoId \/ old = NoId THEN new ELSE old

Buffered == {x \in Exts : results[x] # Absent}
BufferedIds == {s \in 1 .. MaxServer : pulled[s] # "none"}

\* What push_results still has room for.
Free == Capacity - Cardinality(Buffered)

\* RelaySession::push buffers an answer; new results only up to Capacity.
BufferAnswer(a) ==
  LET xs == {Ext(a.client, e) : e \in DOMAIN a.ids}
      new == xs \ Buffered IN
  /\ \E S \in SUBSET new :
       /\ Cardinality(S) = IF Cardinality(new) =< Free THEN Cardinality(new) ELSE Free
       /\ results' = [x \in Exts |->
            IF x \in S THEN a.ids[x[2]]
            ELSE IF x \in xs \cap Buffered THEN Kept(results[x], a.ids[x[2]])
            ELSE results[x]]
  /\ answers' = answers \ {a}
  /\ UNCHANGED <<vars, registered, scursor, pulled, pushes, loop, asked, batch, seeded, faults, call>>

-----------------------------------------------------------------------------
(* The relay: pull *)

\* A catch-up starts: at the start of the pull loop, after every (re)connect
\* of the stream and on every frame that carries data.
CatchUp ==
  /\ loop = "wait"
  /\ loop' = "asked"
  /\ asked' = scursor
  /\ UNCHANGED <<vars, registered, scursor, results, pulled, pushes, answers, batch, seeded, faults, call>>

\* pull_since returns one page.
CatchUpAnswered ==
  /\ loop = "asked"
  /\ loop' = "page"
  /\ batch' = PageOf(asked)
  /\ UNCHANGED <<vars, registered, scursor, results, pulled, pushes, answers, asked, seeded, faults, call>>

\* Mutant: the limit is taken per page, whatever is buffered already.
Fitting_PerPage ==
  {s \in DOMAIN batch : Cardinality({t \in DOMAIN batch : t =< s /\ pulled[t] = "none"}) =< Capacity}
\* The entries of the page before the first that does not fit: those up to it
\* that are not buffered yet find room.
Fitting ==
  {s \in DOMAIN batch :
     Cardinality({t \in DOMAIN batch : t =< s /\ pulled[t] = "none"})
       + Cardinality(BufferedIds) =< Capacity}

\* Mutant: the cursor passes the whole page.
Passed_Page == DOMAIN batch
\* How far into the page the cursor gets: as far as it was buffered.
Passed == Fitting

\* Entries are buffered by id; a buffered one is left as it is.
CatchUpBuffers ==
  /\ loop = "page"
  /\ pulled' = [s \in 1 .. MaxServer |->
       IF pulled[s] = "none" /\ s \in Fitting
       THEN IF batch[s] THEN "archived" ELSE "active"
       ELSE pulled[s]]
  /\ scursor' = Max(Passed \cup {scursor})
  /\ loop' = "wait"
  /\ asked' = 0 /\ batch' = NoPage
  /\ UNCHANGED <<vars, registered, results, pushes, answers, seeded, faults, call>>

CatchUpFails ==
  /\ loop = "asked"
  /\ loop' = "wait"
  /\ asked' = 0
  /\ Fault
  /\ UNCHANGED <<vars, registered, scursor, results, pulled, pushes, answers, batch, seeded, call>>

\* The relay process dies and is started again: its memory is gone, the next
\* registration creates and seeds a new session.
NoSession ==
  /\ registered' = FALSE
  /\ scursor' = 0 /\ seeded' = 0
  /\ results' = NoResults /\ pulled' = NoPulled
  /\ pushes' = {} /\ answers' = {}
  /\ loop' = "off" /\ asked' = 0 /\ batch' = NoPage
Restart ==
  /\ registered
  /\ Fault
  /\ NoSession
  /\ UNCHANGED <<vars, call>>

-----------------------------------------------------------------------------
RelayInit ==
  /\ Init
  /\ registered = FALSE
  /\ scursor = 0 /\ seeded = 0 /\ faults = 0
  /\ results = NoResults /\ pulled = NoPulled
  /\ pushes = {} /\ answers = {}
  /\ loop = "off" /\ asked = 0 /\ batch = NoPage
  /\ cpc = [c \in Machine |-> "idle"]
  /\ offer = [c \in Machine |-> NoOffer]
  /\ peekR = [c \in Machine |-> NoResults]
  /\ peekP = [c \in Machine |-> NoPulled]
  /\ ackR = [c \in Machine |-> {}]
  /\ ackP = [c \in Machine |-> {}]

\* A teammate's push of a new entry arrives, or a teammate retires an entry.
Teammate ==
  \/ \E c \in Clients \ Machine, e \in Contents :
       /\ c \in Recorders[e]
       /\ \A s \in SyncIds : server[s].ext # Ext(c, e)
       /\ Store(c, {e})
       /\ UNCHANGED <<local, command>>
  \/ \E s \in SyncIds, status \in Retired : ServerRetire(s, status)

\* What happens to stores and server next to the relay.
OtherUse ==
  /\ \/ Teammate
     \/ \E c \in Machine, e \in Contents : LocalAdd(c, e) \/ LocalArchive(c, e)
  /\ UNCHANGED relayVars

\* A CLI call goes on when nothing fails.
CallStep(c) ==
  \/ Register(c) \/ Poll(c) \/ ResultsApplied(c) \/ Ack(c)
  \/ \E e \in Contents : ApplyResult(c, e)
  \/ \E s \in 1 .. MaxServer : ApplyPulled(c, s)

RelayPush ==
  \/ \E p \in pushes : PushAnswered(p) \/ PushRejected(p)
  \/ \E a \in answers : BufferAnswer(a)

RelayPull == CatchUpAnswered \/ CatchUpBuffers

RelayCalm ==
  \/ OtherUse
  \/ \E c \in Machine : CallStep(c) \/ ReadOutbox(c)
  \/ RelayPush \/ CatchUp \/ RelayPull

RelayNext ==
  \/ RelayCalm
  \/ \E c \in Machine :
       \/ RegisterFails(c) \/ CallAborts(c)
       \/ \E e \in Contents : StampFails(c, e)
       \/ \E s \in 1 .. MaxServer : ApplyFails(c, s)
  \/ \E p \in pushes : PushLost(p)
  \/ CatchUpFails \/ Restart

\* The user goes on running memory commands, each of which polls; a call, a
\* detached push and a catch-up that are under way go on.
RelayFairSpec ==
  /\ RelayInit /\ [][RelayNext]_allVars
  /\ \A c \in Machine : WF_allVars(CallStep(c)) /\ WF_allVars(ReadOutbox(c))
  /\ WF_allVars(RelayPush) /\ WF_allVars(RelayPull)

-----------------------------------------------------------------------------
(* Properties *)

\* Types, and the buffers' limit: however long nobody polls, neither buffer
\* outgrows MAX_BUFFERED_ITEMS_PER_SESSION.
RelayTypeOK ==
  /\ TypeOK
  /\ registered \in BOOLEAN
  /\ scursor \in Ids /\ seeded \in Ids
  /\ faults \in 0 .. MaxFaults
  /\ results \in [Exts -> {Absent} \cup Ids]
  /\ pulled \in [1 .. MaxServer -> {"none", "active", "archived"}]
  /\ Cardinality(Buffered) =< Capacity
  /\ Cardinality(BufferedIds) =< Capacity
  /\ loop \in {"off", "wait", "asked", "page"}
  /\ cpc \in [Machine -> {"idle", "register", "peek", "results", "pulled"}]

\* The session's cursor skips nothing: an entry of the team server that the
\* session has passed on its own (not because a CLI's cursor was already past
\* it) is buffered, or a store of this machine has it.
PassedIsKept ==
  \A s \in SyncIds :
    (registered /\ seeded < s /\ s =< scursor /\ server[s].status = "active") =>
      \/ pulled[s] # "none"
      \/ \E c \in Machine : local[c][server[s].content] # NoRow

\* A push result with an id stays buffered, with an id, until its row carries
\* one: neither a repeated answer without an id nor an ack of other rows
\* retires it (relay/mod.rs: "never regresses a known remote_id to None").
ResultsKept ==
  [][\A c \in Machine, e \in Contents :
       (results[Ext(c, e)] > 0 /\ ~Restart) =>
         results'[Ext(c, e)] > 0 \/ local[c][e].rid # 0]_allVars

\* Frames and reconnects go on waking the pull loop.
WakesUp == []<><<CatchUp>>_allVars

\* A row of the outbox gets its id, unless it is archived first, here or on the
\* server, or the server answered some push without an id.
OutboxDrains ==
  \A c \in Machine, e \in Contents :
    e \in Outbox(c) ~>
      \/ e \notin Outbox(c)
      \/ Indexed(Ext(c, e)) # LiveId(Ext(c, e))
      \/ \E x \in Exts : results[x] = NoId

Live(s) == s \in SyncIds /\ server[s].status = "active"
Has(c, s) == s \in SyncIds /\ local[c][server[s].content] # NoRow

\* An entry of the team server reaches the store, unless it is retired there
\* or a registration moved the cursor past it first.
EntriesArrive ==
  WakesUp =>
    \A c \in Machine, s \in 1 .. MaxServer :
      Live(s) ~> (Has(c, s) \/ ~Live(s) \/ s =< seeded)
=============================================================================
