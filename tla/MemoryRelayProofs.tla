-------------------------- MODULE MemoryRelayProofs --------------------------
(***************************************************************************)
(* What the local relay promises, for any machine, buffer size and number  *)
(* of faults: its buffers are bounded, its cursor passes nothing it did    *)
(* not keep, and a push result stays until its row carries the id.         *)
(*                                                                         *)
(* The stores and the server keep the invariant of MemorySyncProofs (IInv) *)
(* under the relay's steps too; what the relay holds is related to them:   *)
(* results and pulled entries name entries of the server (Telling), a page *)
(* under way is gapless above the cursor it was asked for (Paging), and    *)
(* what a call is about to acknowledge is in its store (Acknowledged).     *)
(***************************************************************************)
EXTENDS MemoryRelay, MemorySyncProofs

-----------------------------------------------------------------------------
(* The inductive invariant *)

Results == [Exts -> {Absent} \cup Ids]
Entries == [1 .. MaxServer -> {"none", "active", "archived"}]
Offers == [rows : SUBSET Contents, since : Ids]
Pushes == [client : Machine, rows : SUBSET Contents]
Answers == [client : Machine, ids : UNION {[S -> Ids] : S \in SUBSET Contents}]

SessionTypes ==
  /\ registered \in BOOLEAN
  /\ scursor \in Ids /\ seeded \in Ids /\ asked \in Ids
  /\ faults \in 0 .. MaxFaults
  /\ results \in Results
  /\ pulled \in Entries
  /\ pushes \subseteq Pushes
  /\ answers \subseteq Answers
  /\ loop \in {"off", "wait", "asked", "page"}
  /\ batch \in Pages

CallTypes ==
  /\ cpc \in [Machine -> {"idle", "register", "peek", "results", "pulled"}]
  /\ offer \in [Machine -> Offers]
  /\ peekR \in [Machine -> Results]
  /\ peekP \in [Machine -> Entries]
  /\ ackR \in [Machine -> SUBSET Exts]
  /\ ackP \in [Machine -> SUBSET (1 .. MaxServer)]

\* An id names an entry with this content.
NamesEntry(s, e) == s > 0 => s \in SyncIds /\ server[s].content = e

\* What is buffered, or on its way to a buffer or a store, the server has.
Telling ==
  /\ \A x \in Exts : NamesEntry(results[x], x[2])
  /\ \A a \in answers : \A e \in DOMAIN a.ids : NamesEntry(a.ids[e], e)
  /\ \A c \in Machine, x \in Exts : NamesEntry(peekR[c][x], x[2])
  /\ \A s \in 1 .. MaxServer : pulled[s] # "none" => s \in SyncIds
  /\ \A c \in Machine, s \in 1 .. MaxServer : peekP[c][s] # "none" => s \in SyncIds

\* What a call has applied, its store has.
Acknowledged ==
  \A c \in Machine :
    /\ \A x \in ackR[c] : x[1] = c /\ local[c][x[2]].rid # 0
    /\ \A s \in ackP[c] : s \in SyncIds /\ local[c][server[s].content] # NoRow

\* The session's cursor, and the page it is about to buffer: a live entry above
\* the cursor the page was asked for is on it, or comes after it.
Paging ==
  /\ scursor =< Len(server)
  /\ \A c \in Machine : offer[c].since =< Len(server)
  /\ ~registered => scursor = 0 /\ loop = "off"
  /\ loop \in {"asked", "page"} => asked =< scursor
  /\ loop = "page" =>
       \A s \in SyncIds : \A t \in DOMAIN batch :
         (server[s].status = "active" /\ asked < s /\ s =< t) => s \in DOMAIN batch

Limits ==
  /\ Cardinality(Buffered) =< Capacity
  /\ Cardinality(BufferedIds) =< Capacity

RInv ==
  /\ IInv /\ SessionTypes /\ CallTypes /\ Telling /\ Acknowledged /\ Paging /\ Limits
  /\ PassedIsKept
-----------------------------------------------------------------------------
(* The stores and the server under the relay's steps *)

\* The stores of the machine are clients.
LEMMA MachineFacts == Machine \subseteq Clients /\ MaxServer \in Nat /\ 0 \in Ids
  BY RelayAssumption, ConstantsAssumption DEF Ids

\* Entries with new external_ids reach the server.
LEMMA StoreSound ==
  ASSUME IInv, NEW c \in Clients, NEW S \in SUBSET Contents, Store(c, S),
         \A e \in S : Indexed(Ext(c, e)) = {},
         UNCHANGED <<local, command>>
  PROVE  Sound
  <1>1. ServerOK' /\ Keeps /\ Named' /\ PushedOnce'
    BY InvParts, StoreOnce
  <1>2. CommandOK' /\ Truthful'
    BY <1>1, SameCommand
  <1>3. LocalOK' /\ \A d \in Clients : Match(local'[d]) /\ Advances(local[d], local'[d])
    BY SameLocal
  <1> QED
    BY <1>1, <1>2, <1>3, Assembled

\* A store of the machine applies something of the relay.
LEMMA StoreApplies ==
  ASSUME IInv, NEW c \in Clients, NEW rows, Match(rows), Advances(local[c], rows),
         local' = [local EXCEPT ![c] = rows], UNCHANGED <<server, command>>
  PROVE  Sound
  <1>1. ServerOK' /\ Keeps /\ Named' /\ PushedOnce'
    BY InvParts, SameServer
  <1>2. CommandOK' /\ Truthful'
    BY <1>1, SameCommand
  <1>3. LocalOK' /\ \A d \in Clients : Match(local'[d]) /\ Advances(local[d], local'[d])
    BY OneStore
  <1> QED
    BY <1>1, <1>2, <1>3, Assembled

\* What happens next to the relay is sound for sync.
LEMMA OtherUseSound ==
  ASSUME IInv, OtherUse
  PROVE  Sound
  <1>1. ASSUME NEW c \in Clients, NEW e \in Contents,
               \A s \in SyncIds : server[s].ext # Ext(c, e),
               Store(c, {e}), UNCHANGED <<local, command>>
        PROVE  Sound
    <2>1. \A f \in {e} : Indexed(Ext(c, f)) = {}
      BY <1>1 DEF Indexed
    <2> QED
      BY <1>1, <2>1, StoreSound
  <1>2. ASSUME NEW s \in SyncIds, NEW status \in Retired, ServerRetire(s, status)
        PROVE  Sound
    BY <1>2, RelayAssumption, ServerRetireSound
  <1>3. ASSUME NEW c \in Machine, NEW e \in Contents, LocalAdd(c, e) \/ LocalArchive(c, e)
        PROVE  Sound
    BY <1>3, MachineFacts, LocalAddSound, LocalArchiveSound
  <1> QED
    BY <1>1, <1>2, <1>3 DEF OtherUse, Teammate

\* A result stamps a row with the id of an entry of its content.
LEMMA ApplyResultSound ==
  ASSUME RInv, NEW c \in Machine, NEW e \in Contents, ApplyResult(c, e)
  PROVE  Sound /\ local'[c][e].rid # 0
  <1> DEFINE s == peekR[c][Ext(c, e)]
             ids == [f \in Contents |-> s]
             rows == [f \in Contents |->
                        IF f \in {e} THEN SetRemoteId(local[c][f], ids[f]) ELSE local[c][f]]
  <1>1. c \in Clients /\ Ext(c, e) \in Exts /\ Ext(c, e)[2] = e
    BY MachineFacts DEF Exts, Ext
  <1>2. s \in Ids /\ s # 0 /\ s \in SyncIds /\ server[s].content = e
    <2>1. s > 0 /\ s \in {Absent} \cup Ids
      BY <1>1 DEF ApplyResult, Stampable, RInv, CallTypes, Results
    <2>2. NamesEntry(s, e)
      BY <1>1 DEF RInv, Telling
    <2> QED
      BY <2>1, <2>2, ConstantsAssumption DEF NamesEntry, Absent, Ids
  <1>3. /\ local \in [Clients -> [Contents -> Rows]]
        /\ Match(local[c])
        /\ IInv /\ TypeOK
    BY <1>1, TypeParts, Matching, InvParts DEF RInv, IInv, LocalOK
  <1>4. local' = [local EXCEPT ![c] = rows]
    <2>1. rows = [local[c] EXCEPT ![e] = SetRemoteId(@, s)]
      BY <1>1, <1>3
    <2> HIDE DEF rows, s
    <2> QED
      BY <1>3, <2>1 DEF ApplyResult, s
  <1> HIDE DEF s
  <1>5. /\ ids \in [Contents -> Ids]
        /\ \A f \in {e} : ids[f] # 0 => ids[f] \in SyncIds /\ server[ids[f]].content = f
    BY <1>2
  <1>6. rows[e].rid # 0
    BY <1>1, <1>2, <1>3, RowStamped
  <1>7. Match(rows) /\ Advances(local[c], rows)
    <2> HIDE DEF ids
    <2> QED
      BY <1>3, <1>5, StampFacts
  <1> HIDE DEF rows
  <1>8. Sound
    BY <1>1, <1>3, <1>4, <1>7, StoreApplies DEF ApplyResult
  <1>9. local'[c] = rows
    BY <1>1, <1>3, <1>4
  <1> QED
    BY <1>6, <1>8, <1>9

\* Applying a pulled entry is a sound step of its store.
LEMMA ApplyPulledSound ==
  ASSUME RInv, NEW c \in Machine, NEW s \in 1 .. MaxServer, ApplyPulled(c, s)
  PROVE  Sound /\ s \in SyncIds /\ local'[c][server[s].content] # NoRow
  <1> DEFINE e == server[s].content
             archived == peekP[c][s] = "archived"
             rows == ApplyRemote(local[c], s, e, archived)
  <1>1. c \in Clients /\ s \in SyncIds
    BY MachineFacts DEF RInv, Telling, ApplyPulled
  <1>2. /\ local \in [Clients -> [Contents -> Rows]]
        /\ Match(local[c])
        /\ IInv /\ TypeOK
    BY <1>1, TypeParts, Matching, InvParts DEF RInv, IInv, LocalOK
  <1>3. local' = [local EXCEPT ![c] = rows]
    BY DEF ApplyPulled
  <1>4. archived \in BOOLEAN
    OBVIOUS
  <1> HIDE DEF archived
  <1>5. Match(rows) /\ Advances(local[c], rows) /\ rows[e] # NoRow
    BY <1>1, <1>2, <1>4, ApplyFacts
  <1> HIDE DEF rows
  <1>6. Sound
    BY <1>1, <1>2, <1>3, <1>5, StoreApplies DEF ApplyPulled
  <1>7. local'[c] = rows
    BY <1>1, <1>2, <1>3
  <1> QED
    BY <1>1, <1>5, <1>6, <1>7

\* A push under way is of a store of the machine.
LEMMA PushTypes ==
  ASSUME RInv, NEW p \in pushes
  PROVE  p.client \in Machine /\ p.client \in Clients /\ p.rows \in SUBSET Contents
  BY MachineFacts DEF RInv, SessionTypes, Pushes

\* An answered push is sound for sync.
LEMMA PushAnsweredSound ==
  ASSUME RInv, NEW p \in pushes, PushAnswered(p)
  PROVE  Sound
  <1> DEFINE fresh == Fresh(p.client, p.rows)
  <1>1. fresh \in SUBSET Contents
    BY PushTypes DEF Fresh
  <1>2. \A e \in fresh : Indexed(Ext(p.client, e)) = {}
    BY DEF PushAnswered, Conflicts
  <1>3. Store(p.client, fresh) /\ UNCHANGED <<local, command>>
    BY DEF PushAnswered
  <1> HIDE DEF fresh
  <1> QED
    BY <1>1, <1>2, <1>3, PushTypes, StoreSound DEF RInv

\* So is one that fails.
LEMMA PushErrorSound ==
  ASSUME RInv, NEW p \in pushes, PushError(p)
  PROVE  Sound
  <1>1. PICK S \in SUBSET (Fresh(p.client, p.rows) \ Conflicts(p.client, p.rows)) : Store(p.client, S)
    BY DEF PushError
  <1>2. S \in SUBSET Contents
    BY PushTypes DEF Fresh
  <1>3. \A e \in S : Indexed(Ext(p.client, e)) = {}
    BY DEF Conflicts
  <1>4. UNCHANGED <<local, command>>
    BY DEF PushError
  <1> QED
    BY <1>1, <1>2, <1>3, <1>4, PushTypes, StoreSound DEF RInv

-----------------------------------------------------------------------------
(* How each part of the invariant survives a step *)

\* The server never forgets what an id names.
LEMMA NamesKept ==
  ASSUME Sound, NEW s, NEW e, NamesEntry(s, e)
  PROVE  NamesEntry(s, e)'
  BY DEF Sound, Keeps, NamesEntry

\* Results and pulled items go on naming what they are about.
LEMMA TellingKept ==
  ASSUME RInv, Sound,
         \A x \in Exts : NamesEntry(results'[x], x[2]),
         \A a \in answers' \ answers : \A e \in DOMAIN a.ids : NamesEntry(a.ids[e], e)',
         \A c \in Machine, x \in Exts : NamesEntry(peekR'[c][x], x[2]),
         \A s \in 1 .. MaxServer : pulled'[s] # "none" => s \in SyncIds,
         \A c \in Machine, s \in 1 .. MaxServer : peekP'[c][s] # "none" => s \in SyncIds
  PROVE  Telling'
  <1>1. SyncIds \subseteq SyncIds'
    BY DEF Sound, Keeps
  <1>2. \A x \in Exts : NamesEntry(results[x], x[2])'
    BY DEF Sound, Keeps, NamesEntry
  <1>3. \A a \in answers' : \A e \in DOMAIN a.ids : NamesEntry(a.ids[e], e)'
    BY DEF RInv, Telling, Sound, Keeps, NamesEntry
  <1>4. \A c \in Machine, x \in Exts : NamesEntry(peekR[c][x], x[2])'
    BY DEF Sound, Keeps, NamesEntry
  <1> QED
    BY <1>1, <1>2, <1>3, <1>4 DEF Telling

\* What a store acknowledges it still has, as long as no ack is added.
LEMMA AcknowledgedKept ==
  ASSUME RInv, Sound, CallTypes,
         \A c \in Machine : ackR'[c] \subseteq ackR[c] /\ ackP'[c] \subseteq ackP[c]
  PROVE  Acknowledged'
  <1> SUFFICES ASSUME NEW c \in Machine
               PROVE  /\ \A x \in ackR'[c] : x[1] = c /\ local'[c][x[2]].rid # 0
                      /\ \A s \in ackP'[c] : s \in SyncIds' /\ local'[c][server'[s].content] # NoRow
    BY DEF Acknowledged
  <1>1. c \in Clients /\ Advances(local[c], local'[c])
    BY MachineFacts DEF Sound
  <1>2. ASSUME NEW x \in ackR'[c] PROVE x[1] = c /\ local'[c][x[2]].rid # 0
    <2>1. x \in ackR[c] /\ x \in Exts
      BY DEF CallTypes
    <2>2. x[2] \in Contents
      BY <2>1 DEF Exts
    <2>3. x[1] = c /\ local[c][x[2]].rid # 0
      BY <2>1 DEF RInv, Acknowledged
    <2> QED
      BY <1>1, <2>2, <2>3 DEF Advances
  <1>3. ASSUME NEW s \in ackP'[c]
        PROVE  s \in SyncIds' /\ local'[c][server'[s].content] # NoRow
    <2>1. s \in SyncIds /\ local[c][server[s].content] # NoRow
      BY DEF RInv, Acknowledged
    <2>2. server[s].content \in Contents
      BY <2>1, InvParts, ServerFacts DEF RInv, Entry
    <2>3. s \in SyncIds' /\ server'[s].content = server[s].content
      BY <2>1 DEF Sound, Keeps
    <2> QED
      BY <1>1, <2>1, <2>2, <2>3 DEF Advances
  <1> QED
    BY <1>2, <1>3

\* A retired entry stays retired, a new one comes last: no gap opens.
LEMMA PagingKept ==
  ASSUME RInv, Sound, scursor' = scursor, registered' = registered,
         loop' = loop, asked' = asked, batch' = batch,
         \A c \in Machine : offer'[c].since \in Nat /\ offer'[c].since =< Len(server)
  PROVE  Paging'
  <1>1. /\ Len(server) \in Nat /\ Len(server) =< Len(server') /\ Len(server') \in Nat
        /\ SyncIds = 1 .. Len(server) /\ DOMAIN batch \subseteq SyncIds /\ scursor \in Nat
    BY InvParts, ServerFacts, ServerGrows DEF RInv, SessionTypes, Pages, Ids
  <1>2. scursor' =< Len(server') /\ \A c \in Machine : offer'[c].since =< Len(server')
    BY <1>1 DEF RInv, Paging
  <1>3. ASSUME loop = "page", NEW s \in SyncIds', NEW t \in DOMAIN batch,
               server'[s].status = "active", asked < s, s =< t
        PROVE  s \in DOMAIN batch
    <2>1. t \in 1 .. Len(server)
      BY <1>1
    <2>2. s \in Nat
      BY DEF Sound, IInv, TypeOK, SyncIds
    <2>3. s \in SyncIds
      BY <1>1, <1>3, <2>1, <2>2 DEF Sound, Keeps
    <2>4. server[s].status = "active"
      BY <1>3, <2>3 DEF Sound, Keeps
    <2> QED
      BY <1>3, <2>3, <2>4 DEF RInv, Paging
  <1> QED
    BY <1>2, <1>3 DEF RInv, Paging

\* Buffers that do not grow stay within their limits.
LEMMA LimitsKept ==
  ASSUME RInv, Buffered' \subseteq Buffered, BufferedIds' \subseteq BufferedIds
  PROVE  Limits'
  <1>1. IsFiniteSet(Buffered)
    <2>1. IsFiniteSet(Exts)
      BY RelayAssumption, ConstantsAssumption, FS_Product DEF Exts
    <2> QED
      BY <2>1, FS_Subset DEF Buffered
  <1>2. IsFiniteSet(BufferedIds)
    <2>1. IsFiniteSet(1 .. MaxServer)
      BY MachineFacts, FS_Interval
    <2> QED
      BY <2>1, FS_Subset DEF BufferedIds
  <1>3. Cardinality(Buffered') =< Cardinality(Buffered) /\ IsFiniteSet(Buffered')
    BY <1>1, FS_Subset
  <1>4. Cardinality(BufferedIds') =< Cardinality(BufferedIds) /\ IsFiniteSet(BufferedIds')
    BY <1>2, FS_Subset
  <1>5. /\ Cardinality(Buffered) \in Nat /\ Cardinality(BufferedIds) \in Nat
        /\ Cardinality(Buffered') \in Nat /\ Cardinality(BufferedIds') \in Nat
    BY <1>1, <1>2, <1>3, <1>4, FS_CardinalityType
  <1>6. Capacity \in Nat /\ Cardinality(Buffered) =< Capacity /\ Cardinality(BufferedIds) =< Capacity
    BY RelayAssumption DEF RInv, Limits
  <1> DEFINE b == Buffered
             i == BufferedIds
  <1>7. Cardinality(b') =< Capacity /\ Cardinality(i') =< Capacity
    BY <1>3, <1>4, <1>5, <1>6
  <1> QED
    BY <1>7 DEF Limits

\* What the cursor passed stays in the buffer or in a store.
LEMMA PassedKept ==
  ASSUME RInv, Sound, NEW s \in SyncIds, server'[s].status = "active",
         registered, seeded < s, s =< scursor,
         \/ pulled[s] # "none" => pulled'[s] # "none"
         \/ \E c \in Machine : local[c][server[s].content] # NoRow
  PROVE  \/ pulled'[s] # "none"
         \/ \E c \in Machine : local'[c][server'[s].content] # NoRow
  <1>1. server[s].status = "active" /\ server'[s].content = server[s].content
    BY DEF Sound, Keeps
  <1>2. server[s].content \in Contents
    BY InvParts, ServerFacts DEF RInv, Entry
  <1>3. CASE \E c \in Machine : local[c][server[s].content] # NoRow
    <2>1. PICK c \in Machine : local[c][server[s].content] # NoRow
      BY <1>3
    <2>2. local'[c][server[s].content] # NoRow
      BY <1>2, <2>1, MachineFacts DEF Sound, Advances
    <2> QED
      BY <1>1, <2>2
  <1>4. CASE ~ \E c \in Machine : local[c][server[s].content] # NoRow
    BY <1>1, <1>4 DEF RInv, PassedIsKept
  <1> QED
    BY <1>3, <1>4

\* A step that leaves the session's cursor and its buffered entries alone.
LEMMA PassedIsKeptSame ==
  ASSUME RInv, Sound, registered' = registered, scursor' = scursor, seeded' = seeded,
         pulled' = pulled
  PROVE  PassedIsKept'
  <1> SUFFICES ASSUME NEW s \in SyncIds', registered, seeded < s, s =< scursor,
                      server'[s].status = "active"
               PROVE  \/ pulled'[s] # "none"
                      \/ \E c \in Machine : local'[c][server'[s].content] # NoRow
    BY DEF PassedIsKept
  <1>1. s \in SyncIds
    <2>1. /\ SyncIds = 1 .. Len(server) /\ Len(server) \in Nat
          /\ scursor =< Len(server) /\ scursor \in Nat
      BY InvParts, ServerFacts DEF RInv, Paging, SessionTypes, Ids
    <2>2. s \in Nat /\ (s \in SyncIds \/ s > Len(server))
      BY DEF Sound, IInv, Keeps, TypeOK, SyncIds
    <2> QED
      BY <2>1, <2>2
  <1> QED
    BY <1>1, PassedKept
-----------------------------------------------------------------------------
(* Each action *)

\* The parts of the invariant.
LEMMA RParts ==
  ASSUME RInv
  PROVE  /\ IInv /\ SessionTypes /\ CallTypes /\ Telling /\ Acknowledged /\ Paging /\ Limits
         /\ PassedIsKept
         /\ Len(server) \in Nat /\ SyncIds = 1 .. Len(server) /\ SyncIds \subseteq 1 .. MaxServer
         /\ scursor \in Nat /\ seeded \in Nat /\ scursor =< Len(server)
  BY InvParts, ServerFacts, ConstantsAssumption DEF RInv, SessionTypes, Paging, Ids, TypeOK

\* Empty buffers and offers.
LEMMA Nothing ==
  /\ NoResults \in Results /\ NoPulled \in Entries /\ NoOffer \in Offers
  /\ \A x \in Exts : NoResults[x] = Absent /\ ~(Absent > 0)
  /\ \A s \in 1 .. MaxServer : NoPulled[s] = "none"
  /\ NoOffer.since = 0
  BY MachineFacts DEF NoResults, NoPulled, NoOffer, Results, Entries, Offers, Absent

\* Calls that shrink what they hold, next to a session that stays as it is.
LEMMA Quiet ==
  ASSUME RInv, Sound, SessionTypes', CallTypes',
         registered' = registered, scursor' = scursor, seeded' = seeded,
         loop' = loop, asked' = asked, batch' = batch,
         results' = results, pulled' = pulled, answers' \subseteq answers,
         \A c \in Machine : offer'[c].since \in Nat /\ offer'[c].since =< Len(server),
         \A c \in Machine, x \in Exts : peekR'[c][x] \in {peekR[c][x], Absent},
         \A c \in Machine, s \in 1 .. MaxServer : peekP'[c][s] \in {peekP[c][s], "none"},
         \A c \in Machine : ackR'[c] \subseteq ackR[c] /\ ackP'[c] \subseteq ackP[c]
  PROVE  RInv'
  <1>1. \A e : NamesEntry(Absent, e)
    BY DEF NamesEntry, Absent
  <1>2. Telling'
    <2>1. \A x \in Exts : NamesEntry(results'[x], x[2])
      BY DEF RInv, Telling
    <2>2. \A c \in Machine, x \in Exts : NamesEntry(peekR'[c][x], x[2])
      BY <1>1 DEF RInv, Telling
    <2>3. /\ \A s \in 1 .. MaxServer : pulled'[s] # "none" => s \in SyncIds
          /\ \A c \in Machine, s \in 1 .. MaxServer : peekP'[c][s] # "none" => s \in SyncIds
      BY DEF RInv, Telling
    <2> QED
      BY <2>1, <2>2, <2>3, TellingKept
  <1>3. Acknowledged'
    BY RParts, AcknowledgedKept
  <1>4. Paging'
    BY PagingKept
  <1>5. Limits'
    BY LimitsKept DEF Buffered, BufferedIds
  <1>6. PassedIsKept'
    BY PassedIsKeptSame
  <1> QED
    BY <1>2, <1>3, <1>4, <1>5, <1>6 DEF RInv, Sound

\* Steps that leave the relay and the calls alone.
LEMMA RelayUntouched ==
  ASSUME RInv, Sound, UNCHANGED relayVars
  PROVE  RInv'
  <1>1. SessionTypes /\ CallTypes /\ Paging
    BY RParts
  <1>2. Pages \subseteq Pages'
    BY PagesGrow DEF Sound
  <1>3. SessionTypes'
    BY <1>1, <1>2 DEF SessionTypes, relayVars, session, buffers
  <1>4. CallTypes'
    BY <1>1 DEF CallTypes, relayVars, call
  <1>5. \A c \in Machine : offer'[c].since \in Nat /\ offer'[c].since =< Len(server)
    BY <1>1 DEF CallTypes, Paging, Offers, Ids, relayVars, call
  <1> QED
    BY <1>3, <1>4, <1>5, Quiet DEF relayVars, session, buffers, call

\* A step that leaves the stores and the server alone is sound.
LEMMA SameVars == ASSUME RInv, UNCHANGED vars PROVE Sound /\ Pages' = Pages
  BY StutterSound DEF RInv, vars, Pages, SyncIds

\* A store asks for what follows an id the server has.
LEMMA SinceBounded ==
  ASSUME RInv, NEW c \in Machine
  PROVE  offer[c].since \in Nat /\ offer[c].since =< Len(server)
  BY RParts DEF CallTypes, Paging, Offers, Ids

\* Reading the outbox keeps the invariant.
LEMMA ReadOutboxInv == ASSUME RInv, NEW c \in Machine, ReadOutbox(c) PROVE RInv'
  <1>1. Sound /\ Pages' = Pages
    BY SameVars DEF ReadOutbox
  <1>2. PICK rows \in Offered(c) :
          offer' = [offer EXCEPT ![c] = [rows |-> rows, since |-> MaxRemoteId(c)]]
    BY DEF ReadOutbox
  <1> DEFINE o == [rows |-> rows, since |-> MaxRemoteId(c)]
  <1>3. /\ o \in Offers /\ o.since \in Nat /\ o.since =< Len(server)
    <2>1. rows \in SUBSET Contents
      BY DEF Offered, Outbox
    <2>2. MaxRemoteId(c) \in Nat /\ MaxRemoteId(c) =< Len(server) /\ MaxRemoteId(c) \in Ids
      BY RParts, MachineFacts, CursorBounded, CursorFacts
    <2> HIDE DEF MaxRemoteId
    <2> QED
      BY <2>1, <2>2 DEF Offers
  <1> HIDE DEF o
  <1>4. SessionTypes /\ CallTypes
    BY RParts
  <1>5. /\ offer' = [offer EXCEPT ![c] = o]
        /\ cpc' = [cpc EXCEPT ![c] = "register"]
        /\ UNCHANGED <<vars, session, peekR, peekP, ackR, ackP>>
    BY <1>2 DEF ReadOutbox, o
  <1>6. SessionTypes'
    BY <1>1, <1>4, <1>5 DEF SessionTypes, session, buffers
  <1>7. CallTypes'
    BY <1>3, <1>4, <1>5 DEF CallTypes
  <1>8. \A d \in Machine : offer'[d].since \in Nat /\ offer'[d].since =< Len(server)
    <2> SUFFICES ASSUME NEW d \in Machine
                 PROVE  offer'[d].since \in Nat /\ offer'[d].since =< Len(server)
      OBVIOUS
    <2>1. offer'[d] \in {o, offer[d]}
      BY <1>4, <1>5 DEF CallTypes
    <2> QED
      BY <2>1, <1>3, SinceBounded
  <1> QED
    BY <1>1, <1>5, <1>6, <1>7, <1>8, Quiet DEF session, buffers

\* Where a registration leaves the call.
LEMMA AfterRegisterTypes ==
  ASSUME RInv, NEW c \in Machine, AfterRegister(c)
  PROVE  /\ CallTypes'
         /\ \A d \in Machine : offer'[d].since \in Nat /\ offer'[d].since =< Len(server)
  <1>1. CallTypes
    BY RParts
  <1>2. CallTypes'
    <2> HIDE DEF NoOffer
    <2> QED
      BY <1>1, Nothing DEF CallTypes, AfterRegister
  <1>3. ASSUME NEW d \in Machine PROVE offer'[d].since \in Nat /\ offer'[d].since =< Len(server)
    <2>1. offer'[d] \in {NoOffer, offer[d]}
      BY <1>1 DEF CallTypes, AfterRegister
    <2> QED
      BY <2>1, Nothing, RParts, SinceBounded
  <1> QED
    BY <1>2, <1>3

\* So does a registration that fails.
LEMMA RegisterFailsInv == ASSUME RInv, NEW c \in Machine, RegisterFails(c) PROVE RInv'
  <1>1. Sound /\ Pages' = Pages
    BY SameVars DEF RegisterFails
  <1>2. /\ CallTypes'
        /\ \A d \in Machine : offer'[d].since \in Nat /\ offer'[d].since =< Len(server)
    BY AfterRegisterTypes DEF RegisterFails
  <1>3. SessionTypes'
    BY <1>1, RParts, RelayAssumption DEF SessionTypes, RegisterFails, Fault, buffers
  <1> QED
    BY <1>1, <1>2, <1>3, Quiet DEF RegisterFails, AfterRegister, buffers

\* A call that ends forgets what it peeked and acknowledges no more.
LEMMA CallEndsTypes ==
  ASSUME RInv, NEW c \in Machine, CallEnds(c)
  PROVE  /\ CallTypes'
         /\ \A d \in Machine : offer'[d].since \in Nat /\ offer'[d].since =< Len(server)
         /\ \A d \in Machine, x \in Exts : peekR'[d][x] \in {peekR[d][x], Absent}
         /\ \A d \in Machine, s \in 1 .. MaxServer : peekP'[d][s] \in {peekP[d][s], "none"}
         /\ \A d \in Machine : ackR'[d] \subseteq ackR[d] /\ ackP'[d] \subseteq ackP[d]
  <1>1. CallTypes
    BY RParts
  <1>2. CallTypes'
    <2> HIDE DEF NoOffer, NoResults, NoPulled
    <2> QED
      BY <1>1, Nothing DEF CallTypes, CallEnds
  <1>3. ASSUME NEW d \in Machine PROVE offer'[d].since \in Nat /\ offer'[d].since =< Len(server)
    <2>1. offer'[d] \in {NoOffer, offer[d]}
      BY <1>1 DEF CallTypes, CallEnds
    <2> QED
      BY <2>1, Nothing, RParts, SinceBounded
  <1>4. ASSUME NEW d \in Machine
        PROVE  /\ peekR'[d] \in {peekR[d], NoResults} /\ peekP'[d] \in {peekP[d], NoPulled}
               /\ ackR'[d] \subseteq ackR[d] /\ ackP'[d] \subseteq ackP[d]
    BY <1>1 DEF CallTypes, CallEnds
  <1>5. \A d \in Machine, x \in Exts : peekR'[d][x] \in {peekR[d][x], Absent}
    BY <1>4, Nothing
  <1>6. \A d \in Machine, s \in 1 .. MaxServer : peekP'[d][s] \in {peekP[d][s], "none"}
    BY <1>4, Nothing
  <1> QED
    BY <1>2, <1>3, <1>4, <1>5, <1>6

\* A call that aborts keeps the invariant.
LEMMA CallAbortsInv == ASSUME RInv, NEW c \in Machine, CallAborts(c) PROVE RInv'
  <1>1. Sound /\ Pages' = Pages
    BY SameVars DEF CallAborts
  <1>2. CallEnds(c)
    BY DEF CallAborts
  <1>3. SessionTypes'
    BY <1>1, RParts, RelayAssumption DEF SessionTypes, CallAborts, Fault, buffers
  <1> QED
    BY <1>1, <1>2, <1>3, CallEndsTypes, Quiet DEF CallAborts, buffers

\* So does a result that cannot be stamped.
LEMMA StampFailsInv ==
  ASSUME RInv, NEW c \in Machine, NEW e \in Contents, StampFails(c, e) PROVE RInv'
  <1>1. Sound /\ Pages' = Pages
    BY SameVars DEF StampFails
  <1>2. SessionTypes'
    BY <1>1, RParts, RelayAssumption DEF SessionTypes, StampFails, Fault, buffers
  <1>3. CallTypes
    BY RParts
  <1>4. Ext(c, e) \in Exts
    BY MachineFacts DEF Ext, Exts
  <1>5. /\ peekR' \in [Machine -> Results]
        /\ \A d \in Machine, x \in Exts : peekR'[d][x] \in {peekR[d][x], Absent}
    BY <1>3, <1>4 DEF CallTypes, StampFails, Results
  <1>6. CallTypes'
    BY <1>3, <1>5 DEF CallTypes, StampFails
  <1> QED
    BY <1>1, <1>2, <1>5, <1>6, SinceBounded, Quiet DEF StampFails, buffers

\* So does the end of the results.
LEMMA ResultsAppliedInv ==
  ASSUME RInv, NEW c \in Machine, ResultsApplied(c) PROVE RInv'
  <1>1. Sound /\ Pages' = Pages
    BY SameVars DEF ResultsApplied
  <1>2. SessionTypes'
    BY <1>1, RParts DEF SessionTypes, ResultsApplied, session, buffers
  <1>3. CallTypes
    BY RParts
  <1>4. \A d \in Machine : peekR'[d] \in {peekR[d], NoResults}
    BY <1>3 DEF CallTypes, ResultsApplied
  <1>5. \A d \in Machine, x \in Exts : peekR'[d][x] \in {peekR[d][x], Absent}
    BY <1>4, Nothing
  <1>6. CallTypes'
    <2> HIDE DEF NoResults
    <2> QED
      BY <1>3, Nothing DEF CallTypes, ResultsApplied
  <1> QED
    BY <1>1, <1>2, <1>5, <1>6, SinceBounded, Quiet DEF ResultsApplied, session, buffers

\* So does an entry that cannot be applied.
LEMMA ApplyFailsInv ==
  ASSUME RInv, NEW c \in Machine, NEW s \in 1 .. MaxServer, ApplyFails(c, s) PROVE RInv'
  <1>1. Sound /\ Pages' = Pages
    BY SameVars DEF ApplyFails
  <1>2. SessionTypes'
    BY <1>1, RParts, RelayAssumption DEF SessionTypes, ApplyFails, Fault, buffers
  <1>3. CallTypes
    BY RParts
  <1>4. /\ peekP' \in [Machine -> Entries]
        /\ \A d \in Machine, t \in 1 .. MaxServer : peekP'[d][t] \in {peekP[d][t], "none"}
    BY <1>3 DEF CallTypes, ApplyFails, Entries
  <1>5. CallTypes'
    BY <1>3, <1>4 DEF CallTypes, ApplyFails
  <1> QED
    BY <1>1, <1>2, <1>4, <1>5, SinceBounded, Quiet DEF ApplyFails, buffers

\* So does a push that fails.
LEMMA PushErrorInv ==
  ASSUME RInv, NEW p \in pushes, PushError(p), faults' \in 0 .. MaxFaults
  PROVE  RInv'
  <1>1. Sound
    BY PushErrorSound
  <1>2. Pages \subseteq Pages'
    BY <1>1, PagesGrow DEF Sound
  <1>3. /\ pushes' = pushes \ {p}
        /\ UNCHANGED <<registered, scursor, results, pulled, answers, loop, asked, batch, seeded, call>>
    BY DEF PushError
  <1>4. SessionTypes'
    BY <1>2, <1>3, RParts DEF SessionTypes
  <1>5. CallTypes'
    BY <1>3, RParts DEF CallTypes, call
  <1> QED
    BY <1>1, <1>3, <1>4, <1>5, SinceBounded, Quiet DEF call
\* A registration moves the cursor only to what it offers, which `seeded' notes.
LEMMA RegisterInv == ASSUME RInv, NEW c \in Machine, Register(c) PROVE RInv'
  <1> DEFINE since == offer[c].since
  <1>1. Sound /\ Pages' = Pages
    BY SameVars DEF Register
  <1>2. /\ CallTypes'
        /\ \A d \in Machine : offer'[d].since \in Nat /\ offer'[d].since =< Len(server)
    BY AfterRegisterTypes DEF Register
  <1>3. since \in Nat /\ since \in Ids /\ since =< Len(server) /\ offer[c].rows \in SUBSET Contents
    BY RParts, SinceBounded DEF CallTypes, Offers
  <1>4. /\ registered' = TRUE
        /\ scursor' = IF since > scursor THEN since ELSE scursor
        /\ seeded' = IF since > seeded THEN since ELSE seeded
        /\ loop' = IF loop = "off" THEN "wait" ELSE loop
        /\ pushes' \subseteq pushes \cup {[client |-> c, rows |-> offer[c].rows]}
        /\ UNCHANGED <<vars, results, pulled, answers, asked, batch, faults>>
        /\ UNCHANGED <<peekR, peekP, ackR, ackP>>
    BY DEF Register, Seed, AfterRegister
  <1> HIDE DEF since
  <1>5. SessionTypes'
    <2>1. [client |-> c, rows |-> offer[c].rows] \in Pushes
      BY <1>3 DEF Pushes
    <2>2. pushes' \subseteq Pushes
      BY <1>4, <2>1, RParts DEF SessionTypes
    <2> QED
      BY <1>1, <1>3, <1>4, <2>2, RParts DEF SessionTypes
  <1>6. Telling'
    <2>1. Telling
      BY RParts
    <2> QED
      BY <1>1, <1>4, <2>1, TellingKept DEF Telling
  <1>7. Acknowledged'
    BY <1>1, <1>4, RParts, AcknowledgedKept
  <1>8. Paging'
    <2>1. scursor' =< Len(server) /\ scursor =< scursor' /\ scursor' \in Nat
      BY <1>3, <1>4, RParts
    <2>2. asked \in Nat /\ (loop \in {"asked", "page"} => asked =< scursor)
      BY RParts DEF SessionTypes, Ids, Paging
    <2>3. loop' \in {"asked", "page"} => loop' = loop
      BY <1>4
    <2>4. loop' \in {"asked", "page"} => asked =< scursor'
      BY <2>1, <2>2, <2>3, RParts
    <2>5. server' = server /\ SyncIds' = SyncIds
      BY <1>4 DEF vars, SyncIds
    <2> QED
      BY <1>2, <1>4, <2>1, <2>3, <2>4, <2>5, RParts DEF Paging
  <1>9. Limits'
    BY <1>4, LimitsKept DEF Buffered, BufferedIds
  <1>10. PassedIsKept'
    <2> SUFFICES ASSUME NEW s \in SyncIds', seeded' < s, s =< scursor', server'[s].status = "active"
                 PROVE  \/ pulled'[s] # "none"
                        \/ \E d \in Machine : local'[d][server'[s].content] # NoRow
      BY DEF PassedIsKept
    <2>1. /\ server' = server /\ local' = local /\ pulled' = pulled
          /\ s \in SyncIds /\ s \in Nat /\ s > 0
      BY <1>4, RParts DEF vars, SyncIds
    <2>2. since =< scursor /\ seeded < s /\ s =< scursor
      BY <1>3, <1>4, <2>1, RParts
    <2>3. registered
      BY <2>1, <2>2, RParts DEF Paging, SessionTypes
    <2> QED
      BY <2>1, <2>2, <2>3, RParts DEF PassedIsKept
  <1> QED
    BY <1>1, <1>5, <1>2, <1>6, <1>7, <1>8, <1>9, <1>10 DEF RInv, Sound

\* So does a poll.
LEMMA PollInv == ASSUME RInv, NEW c \in Machine, Poll(c) PROVE RInv'
  <1>1. Sound /\ Pages' = Pages
    BY SameVars DEF Poll
  <1>2. SessionTypes /\ CallTypes /\ Telling
    BY RParts
  <1>3. /\ peekR' = [peekR EXCEPT ![c] = results]
        /\ peekP' = [peekP EXCEPT ![c] = pulled]
        /\ cpc' = [cpc EXCEPT ![c] = "results"]
        /\ UNCHANGED <<vars, registered, scursor, results, pulled, pushes, answers, loop, asked,
                       batch, seeded, faults, offer, ackR, ackP>>
    BY DEF Poll, session, buffers
  <1>4. SessionTypes'
    BY <1>1, <1>2, <1>3 DEF SessionTypes
  <1>5. CallTypes'
    BY <1>2, <1>3 DEF CallTypes, SessionTypes
  <1>6. \A d \in Machine : peekR'[d] \in {peekR[d], results} /\ peekP'[d] \in {peekP[d], pulled}
    BY <1>2, <1>3 DEF CallTypes
  <1>7. Telling'
    <2>1. \A d \in Machine, x \in Exts : NamesEntry(peekR'[d][x], x[2])
      BY <1>2, <1>6 DEF Telling
    <2>2. \A d \in Machine, s \in 1 .. MaxServer : peekP'[d][s] # "none" => s \in SyncIds
      BY <1>2, <1>6 DEF Telling
    <2> QED
      BY <1>1, <1>2, <1>3, <2>1, <2>2, TellingKept DEF Telling
  <1>8. Acknowledged' /\ Paging' /\ Limits' /\ PassedIsKept'
    BY <1>1, <1>3, RParts, SinceBounded, AcknowledgedKept, PagingKept, LimitsKept, PassedIsKeptSame
       DEF Buffered, BufferedIds
  <1> QED
    BY <1>1, <1>4, <1>5, <1>7, <1>8 DEF RInv, Sound
\* So does a result that is stamped.
LEMMA ApplyResultInv ==
  ASSUME RInv, NEW c \in Machine, NEW e \in Contents, ApplyResult(c, e) PROVE RInv'
  <1> DEFINE x == Ext(c, e)
  <1>1. Sound /\ local'[c][e].rid # 0
    BY ApplyResultSound
  <1>2. SessionTypes /\ CallTypes /\ Telling /\ Acknowledged
    BY RParts
  <1>3. x \in Exts /\ x[1] = c /\ x[2] = e
    BY MachineFacts DEF Ext, Exts
  <1>4. /\ peekR' = [peekR EXCEPT ![c][x] = Absent]
        /\ ackR' = [ackR EXCEPT ![c] = @ \cup {x}]
        /\ UNCHANGED <<server, command, registered, scursor, results, pulled, pushes, answers, loop,
                       asked, batch, seeded, faults, cpc, offer, peekP, ackP>>
    BY DEF ApplyResult, session, buffers
  <1> HIDE DEF x
  <1>5. SessionTypes'
    BY <1>2, <1>4 DEF SessionTypes, Pages, SyncIds
  <1>6. /\ peekR' \in [Machine -> Results]
        /\ \A d \in Machine, y \in Exts : peekR'[d][y] \in {peekR[d][y], Absent}
    BY <1>2, <1>3, <1>4 DEF CallTypes, Results
  <1>7. /\ ackR' \in [Machine -> SUBSET Exts]
        /\ \A d \in Machine : \A y \in ackR'[d] : y \in ackR[d] \/ (d = c /\ y = x)
    BY <1>2, <1>3, <1>4 DEF CallTypes
  <1>8. CallTypes'
    BY <1>2, <1>4, <1>6, <1>7 DEF CallTypes
  <1>9. Telling'
    <2>1. \A y : NamesEntry(Absent, y)
      BY DEF NamesEntry, Absent
    <2>2. \A d \in Machine, y \in Exts : NamesEntry(peekR'[d][y], y[2])
      BY <1>2, <1>6, <2>1 DEF Telling
    <2> QED
      BY <1>1, <1>2, <1>4, <2>2, TellingKept DEF Telling
  <1>10. Acknowledged'
    <2> SUFFICES ASSUME NEW d \in Machine
                 PROVE  /\ \A y \in ackR'[d] : y[1] = d /\ local'[d][y[2]].rid # 0
                        /\ \A s \in ackP'[d] : s \in SyncIds' /\ local'[d][server'[s].content] # NoRow
      BY DEF Acknowledged
    <2>1. d \in Clients /\ Advances(local[d], local'[d])
      BY <1>1, MachineFacts DEF Sound
    <2>2. ASSUME NEW y \in ackR'[d] PROVE y[1] = d /\ local'[d][y[2]].rid # 0
      <3>1. CASE d = c /\ y = x
        BY <1>1, <1>3, <3>1
      <3>2. CASE y \in ackR[d]
        <4>1. y \in Exts /\ y[2] \in Contents
          BY <1>2, <3>2 DEF CallTypes, Exts
        <4> QED
          BY <1>2, <2>1, <3>2, <4>1 DEF Acknowledged, Advances
      <3> QED
        BY <1>7, <3>1, <3>2
    <2>3. ASSUME NEW s \in ackP'[d] PROVE s \in SyncIds' /\ local'[d][server'[s].content] # NoRow
      <3>1. /\ s \in SyncIds /\ server' = server /\ SyncIds' = SyncIds
            /\ local[d][server[s].content] # NoRow
        BY <1>2, <1>4 DEF Acknowledged, SyncIds
      <3>2. server[s].content \in Contents
        BY <3>1, RParts, InvParts, ServerFacts DEF Entry
      <3> QED
        BY <2>1, <3>1, <3>2 DEF Advances
    <2> QED
      BY <2>2, <2>3
  <1>11. Paging' /\ Limits' /\ PassedIsKept'
    BY <1>1, <1>4, RParts, SinceBounded, PagingKept, LimitsKept, PassedIsKeptSame
       DEF Buffered, BufferedIds
  <1> QED
    BY <1>1, <1>5, <1>8, <1>9, <1>10, <1>11 DEF RInv, Sound

\* So does a pulled entry that is applied.
LEMMA ApplyPulledInv ==
  ASSUME RInv, NEW c \in Machine, NEW s \in 1 .. MaxServer, ApplyPulled(c, s) PROVE RInv'
  <1>1. Sound /\ s \in SyncIds /\ local'[c][server[s].content] # NoRow
    BY ApplyPulledSound
  <1>2. SessionTypes /\ CallTypes /\ Telling /\ Acknowledged
    BY RParts
  <1>3. /\ peekP' = [peekP EXCEPT ![c][s] = "none"]
        /\ ackP' = [ackP EXCEPT ![c] = @ \cup {s}]
        /\ UNCHANGED <<server, command, registered, scursor, results, pulled, pushes, answers, loop,
                       asked, batch, seeded, faults, cpc, offer, peekR, ackR>>
    BY DEF ApplyPulled, session, buffers
  <1>4. SessionTypes'
    BY <1>2, <1>3 DEF SessionTypes, Pages, SyncIds
  <1>5. /\ peekP' \in [Machine -> Entries]
        /\ \A d \in Machine, t \in 1 .. MaxServer : peekP'[d][t] \in {peekP[d][t], "none"}
    BY <1>2, <1>3 DEF CallTypes, Entries
  <1>6. /\ ackP' \in [Machine -> SUBSET (1 .. MaxServer)]
        /\ \A d \in Machine : \A t \in ackP'[d] : t \in ackP[d] \/ (d = c /\ t = s)
    BY <1>2, <1>3 DEF CallTypes
  <1>7. CallTypes'
    BY <1>2, <1>3, <1>5, <1>6 DEF CallTypes
  <1>8. Telling'
    <2>1. \A d \in Machine, t \in 1 .. MaxServer : peekP'[d][t] # "none" => t \in SyncIds
      BY <1>2, <1>5 DEF Telling
    <2> QED
      BY <1>1, <1>2, <1>3, <2>1, TellingKept DEF Telling
  <1>9. Acknowledged'
    <2> SUFFICES ASSUME NEW d \in Machine
                 PROVE  /\ \A y \in ackR'[d] : y[1] = d /\ local'[d][y[2]].rid # 0
                        /\ \A t \in ackP'[d] : t \in SyncIds' /\ local'[d][server'[t].content] # NoRow
      BY DEF Acknowledged
    <2>1. d \in Clients /\ Advances(local[d], local'[d])
      BY <1>1, MachineFacts DEF Sound
    <2>2. ASSUME NEW y \in ackR'[d] PROVE y[1] = d /\ local'[d][y[2]].rid # 0
      <3>1. y \in Exts /\ y[2] \in Contents /\ y \in ackR[d]
        BY <1>2, <1>3 DEF CallTypes, Exts
      <3> QED
        BY <1>2, <2>1, <3>1 DEF Acknowledged, Advances
    <2>3. ASSUME NEW t \in ackP'[d] PROVE t \in SyncIds' /\ local'[d][server'[t].content] # NoRow
      <3>1. server' = server /\ SyncIds' = SyncIds
        BY <1>3 DEF SyncIds
      <3>2. CASE d = c /\ t = s
        BY <1>1, <3>1, <3>2
      <3>3. CASE t \in ackP[d]
        <4>1. t \in SyncIds /\ local[d][server[t].content] # NoRow
          BY <1>2, <3>3 DEF Acknowledged
        <4>2. server[t].content \in Contents
          BY <4>1, RParts, InvParts, ServerFacts DEF Entry
        <4> QED
          BY <2>1, <3>1, <4>1, <4>2 DEF Advances
      <3> QED
        BY <1>6, <3>2, <3>3
    <2> QED
      BY <2>2, <2>3
  <1>10. Paging' /\ Limits' /\ PassedIsKept'
    BY <1>1, <1>3, RParts, SinceBounded, PagingKept, LimitsKept, PassedIsKeptSame
       DEF Buffered, BufferedIds
  <1> QED
    BY <1>1, <1>4, <1>7, <1>8, <1>9, <1>10 DEF RInv, Sound

\* An acknowledged entry leaves the buffer only because the store has it.
LEMMA AckInv == ASSUME RInv, NEW c \in Machine, Ack(c) PROVE RInv'
  <1>1. Sound /\ Pages' = Pages
    BY SameVars DEF Ack
  <1>2. SessionTypes /\ CallTypes /\ Telling /\ Acknowledged
    BY RParts
  <1>3. /\ results' = RetiredR(c) /\ pulled' = RetiredP(c) /\ CallEnds(c)
        /\ UNCHANGED <<vars, registered, scursor, pushes, answers, loop, asked, batch, seeded, faults>>
    BY DEF Ack
  <1>4. /\ results' \in Results /\ pulled' \in Entries
        /\ \A x \in Exts : results'[x] \in {results[x], Absent}
        /\ \A s \in 1 .. MaxServer : pulled'[s] \in {pulled[s], "none"}
        /\ \A s \in 1 .. MaxServer : pulled'[s] = pulled[s] \/ s \in ackP[c]
    BY <1>2, <1>3 DEF RetiredR, RetiredP, SessionTypes, Results, Entries
  <1>5. SessionTypes'
    BY <1>1, <1>2, <1>3, <1>4 DEF SessionTypes
  <1>6. /\ CallTypes'
        /\ \A d \in Machine : offer'[d].since \in Nat /\ offer'[d].since =< Len(server)
        /\ \A d \in Machine, x \in Exts : peekR'[d][x] \in {peekR[d][x], Absent}
        /\ \A d \in Machine, s \in 1 .. MaxServer : peekP'[d][s] \in {peekP[d][s], "none"}
        /\ \A d \in Machine : ackR'[d] \subseteq ackR[d] /\ ackP'[d] \subseteq ackP[d]
    BY <1>3, CallEndsTypes
  <1>7. Telling'
    <2>1. \A y : NamesEntry(Absent, y)
      BY DEF NamesEntry, Absent
    <2>2. /\ \A x \in Exts : NamesEntry(results'[x], x[2])
          /\ \A d \in Machine, x \in Exts : NamesEntry(peekR'[d][x], x[2])
      BY <1>2, <1>4, <1>6, <2>1 DEF Telling
    <2>3. /\ \A s \in 1 .. MaxServer : pulled'[s] # "none" => s \in SyncIds
          /\ \A d \in Machine, s \in 1 .. MaxServer : peekP'[d][s] # "none" => s \in SyncIds
      BY <1>2, <1>4, <1>6 DEF Telling
    <2> QED
      BY <1>1, <1>3, <2>2, <2>3, TellingKept
  <1>8. Acknowledged' /\ Paging'
    BY <1>1, <1>2, <1>3, <1>6, AcknowledgedKept, PagingKept
  <1>9. Limits'
    BY <1>4, LimitsKept DEF Buffered, BufferedIds
  <1>10. PassedIsKept'
    <2> SUFFICES ASSUME NEW s \in SyncIds', registered, seeded < s, s =< scursor,
                        server'[s].status = "active"
                 PROVE  \/ pulled'[s] # "none"
                        \/ \E d \in Machine : local'[d][server'[s].content] # NoRow
      BY <1>3 DEF PassedIsKept
    <2>1. s \in SyncIds /\ s \in 1 .. MaxServer
      BY <1>3, RParts DEF vars, SyncIds
    <2>2. CASE s \in ackP[c]
      BY <1>1, <1>2, <2>1, <2>2, PassedKept DEF Acknowledged
    <2>3. CASE s \notin ackP[c]
      BY <1>1, <1>4, <2>1, <2>3, PassedKept
    <2> QED
      BY <2>2, <2>3
  <1> QED
    BY <1>1, <1>5, <1>6, <1>7, <1>8, <1>9, <1>10 DEF RInv, Sound
\* What there is room for can be added.
LEMMA RoomFor ==
  ASSUME NEW old, IsFiniteSet(old), NEW S, IsFiniteSet(S), NEW new \in SUBSET (old \cup S),
         NEW k \in Nat, Cardinality(old) + Cardinality(S) =< k
  PROVE  Cardinality(new) =< k
  <1>1. /\ IsFiniteSet(old \cup S)
        /\ Cardinality(old \cup S) = Cardinality(old) + Cardinality(S) - Cardinality(old \cap S)
    BY FS_Union
  <1>2. IsFiniteSet(old \cap S)
    BY FS_Subset
  <1>3. IsFiniteSet(new) /\ Cardinality(new) =< Cardinality(old \cup S)
    BY <1>1, FS_Subset
  <1>4. /\ Cardinality(old) \in Nat /\ Cardinality(S) \in Nat /\ Cardinality(old \cap S) \in Nat
        /\ Cardinality(old \cup S) \in Nat /\ Cardinality(new) \in Nat
    BY <1>1, <1>2, <1>3, FS_CardinalityType
  <1> QED
    BY <1>1, <1>3, <1>4

\* The buffers can be counted.
LEMMA FiniteBuffers == IsFiniteSet(Exts) /\ IsFiniteSet(Buffered) /\ IsFiniteSet(BufferedIds)
  <1>1. IsFiniteSet(Exts)
    BY RelayAssumption, ConstantsAssumption, FS_Product DEF Exts
  <1>2. IsFiniteSet(1 .. MaxServer)
    BY MachineFacts, FS_Interval
  <1> QED
    BY <1>1, <1>2, FS_Subset DEF Buffered, BufferedIds

\* An answer enters the buffer as far as there is room.
LEMMA BufferAnswerInv == ASSUME RInv, NEW a \in answers, BufferAnswer(a) PROVE RInv'
  <1> DEFINE xs == {Ext(a.client, e) : e \in DOMAIN a.ids}
             new == xs \ Buffered
  <1>1. Sound /\ Pages' = Pages
    BY SameVars DEF BufferAnswer
  <1>2. SessionTypes /\ CallTypes /\ Telling
    BY RParts
  <1>3. /\ a.client \in Clients /\ DOMAIN a.ids \subseteq Contents
        /\ \A e \in DOMAIN a.ids : a.ids[e] \in Ids
    BY <1>2, MachineFacts DEF SessionTypes, Answers
  <1>4. xs \subseteq Exts /\ \A x \in xs : x[2] \in DOMAIN a.ids
    BY <1>3 DEF Exts, Ext
  <1>5. PICK S \in SUBSET new :
          /\ Cardinality(S) = IF Cardinality(new) =< Free THEN Cardinality(new) ELSE Free
          /\ results' = [x \in Exts |->
               IF x \in S THEN a.ids[x[2]]
               ELSE IF x \in xs \cap Buffered THEN Kept(results[x], a.ids[x[2]])
               ELSE results[x]]
    BY DEF BufferAnswer
  <1>6. /\ answers' = answers \ {a}
        /\ UNCHANGED <<vars, registered, scursor, pulled, pushes, loop, asked, batch, seeded, faults,
                       cpc, offer, peekR, peekP, ackR, ackP>>
    BY DEF BufferAnswer, call
  <1>7. ASSUME NEW x \in Exts
        PROVE  /\ results'[x] = results[x] \/ (x \in xs /\ results'[x] = a.ids[x[2]])
               /\ results'[x] \in {Absent} \cup Ids
               /\ NamesEntry(results'[x], x[2])
               /\ x \in Buffered \cup S \/ results'[x] = Absent
    <2>1. results'[x] = results[x] \/ (x \in xs /\ results'[x] = a.ids[x[2]])
      BY <1>5 DEF Kept
    <2>2. results'[x] \in {Absent} \cup Ids
      BY <1>2, <1>3, <1>4, <2>1 DEF SessionTypes, Results
    <2>3. NamesEntry(results'[x], x[2])
      BY <1>2, <1>4, <2>1 DEF Telling
    <2>4. x \in Buffered \cup S \/ results'[x] = Absent
      BY <1>5 DEF Buffered
    <2> QED
      BY <2>1, <2>2, <2>3, <2>4
  <1>8. results' \in Results
    BY <1>5, <1>7 DEF Results
  <1>9. SessionTypes' /\ CallTypes'
    BY <1>1, <1>2, <1>6, <1>8 DEF SessionTypes, CallTypes
  <1>10. Telling'
    BY <1>1, <1>2, <1>6, <1>7, TellingKept DEF Telling
  <1>11. Limits'
    <2>1. Buffered' \in SUBSET (Buffered \cup S)
      BY <1>7 DEF Buffered
    <2>2. BufferedIds' = BufferedIds
      BY <1>6 DEF BufferedIds
    <2>3. IsFiniteSet(S) /\ IsFiniteSet(new) /\ IsFiniteSet(Buffered)
      BY <1>4, FiniteBuffers, FS_Subset
    <2>4. Cardinality(new) \in Nat /\ Cardinality(Buffered) \in Nat /\ Capacity \in Nat
      BY <2>3, FS_CardinalityType, RelayAssumption
    <2>5. Cardinality(Buffered) + Cardinality(S) =< Capacity
      <3> HIDE DEF new, xs
      <3> QED
        BY <1>5, <2>4 DEF Free
    <2>6. Cardinality(BufferedIds) =< Capacity
      BY RParts DEF Limits
    <2> DEFINE b == Buffered
    <2>7. Cardinality(b') =< Capacity
      <3> DEFINE n == b'
      <3>1. n \in SUBSET (Buffered \cup S)
        BY <2>1
      <3> HIDE DEF n
      <3>2. Cardinality(n) =< Capacity
        BY <2>3, <2>4, <2>5, <3>1, RoomFor
      <3> QED
        BY <3>2 DEF n
    <2> QED
      BY <2>2, <2>6, <2>7 DEF Limits
  <1>12. Acknowledged' /\ Paging' /\ PassedIsKept'
    BY <1>1, <1>2, <1>6, SinceBounded, AcknowledgedKept, PagingKept, PassedIsKeptSame
  <1> QED
    BY <1>1, <1>9, <1>10, <1>11, <1>12 DEF RInv, Sound

\* A step of the pull loop that only moves it on.
LEMMA LoopMoves ==
  ASSUME RInv, UNCHANGED <<vars, registered, scursor, results, pulled, pushes, answers, seeded, call>>,
         faults' \in 0 .. MaxFaults, loop' \in {"wait", "asked", "page"}, asked' \in Ids,
         batch' \in Pages, loop # "off",
         Paging'
  PROVE  RInv'
  <1>1. Sound /\ Pages' = Pages
    BY SameVars
  <1>2. SessionTypes /\ CallTypes /\ Telling
    BY RParts
  <1>3. SessionTypes' /\ CallTypes'
    BY <1>1, <1>2 DEF SessionTypes, CallTypes, call
  <1>4. Telling'
    BY <1>1, <1>2, TellingKept DEF Telling, call
  <1>5. Acknowledged' /\ Limits' /\ PassedIsKept'
    BY <1>1, <1>2, AcknowledgedKept, LimitsKept, PassedIsKeptSame DEF call, Buffered, BufferedIds
  <1> QED
    BY <1>1, <1>3, <1>4, <1>5 DEF RInv, Sound

\* A page of the catch-up keeps the invariant.
LEMMA CatchUpInv == ASSUME RInv, CatchUp PROVE RInv'
  <1>1. SessionTypes /\ Paging
    BY RParts
  <1>2. server' = server /\ SyncIds' = SyncIds /\ offer' = offer
    BY DEF CatchUp, vars, SyncIds, call
  <1>3. Paging'
    BY <1>1, <1>2, RParts DEF CatchUp, Paging
  <1> QED
    BY <1>1, <1>3, LoopMoves DEF CatchUp, SessionTypes

\* The page is a prefix of what lies above the cursor it was asked for.
LEMMA CatchUpAnsweredInv == ASSUME RInv, CatchUpAnswered PROVE RInv'
  <1>1. SessionTypes /\ Paging
    BY RParts
  <1>2. server' = server /\ SyncIds' = SyncIds /\ offer' = offer
    BY DEF CatchUpAnswered, vars, SyncIds, call
  <1> DEFINE P == PageOf(asked)
  <1>3. /\ DOMAIN P \subseteq Hits(asked) /\ P \in [DOMAIN P -> BOOLEAN]
        /\ \A s \in Hits(asked) \ DOMAIN P : \A t \in DOMAIN P : s > t
    BY <1>1, RParts, InvParts, PageFacts DEF SessionTypes
  <1>4. batch' = P
    BY DEF CatchUpAnswered
  <1> HIDE DEF P
  <1>5. Hits(asked) \subseteq SyncIds
    BY DEF Hits
  <1>6. P \in Pages
    BY <1>3, <1>5 DEF Pages
  <1>7. ASSUME NEW s \in SyncIds, NEW t \in DOMAIN P, server[s].status = "active", asked < s, s =< t
        PROVE  s \in DOMAIN P
    <2>1. s \in Hits(asked)
      BY <1>7, RParts DEF Hits, InFeed
    <2>2. s \in Nat /\ t \in Nat
      BY <1>3, <1>5, RParts
    <2> QED
      BY <1>3, <1>7, <2>1, <2>2
  <1>8. Paging'
    BY <1>1, <1>2, <1>4, <1>7 DEF CatchUpAnswered, Paging
  <1> QED
    BY <1>1, <1>4, <1>6, <1>8, LoopMoves DEF CatchUpAnswered, SessionTypes

\* So does a catch-up that fails.
LEMMA CatchUpFailsInv == ASSUME RInv, CatchUpFails PROVE RInv'
  <1>1. SessionTypes /\ Paging
    BY RParts
  <1>2. server' = server /\ SyncIds' = SyncIds /\ offer' = offer
    BY DEF CatchUpFails, vars, SyncIds, call
  <1>3. Paging'
    BY <1>1, <1>2, RParts DEF CatchUpFails, Paging
  <1>4. faults' \in 0 .. MaxFaults
    BY <1>1, RelayAssumption DEF CatchUpFails, Fault, SessionTypes
  <1> QED
    BY <1>1, <1>3, <1>4, MachineFacts, LoopMoves DEF CatchUpFails, SessionTypes
\* The cursor passes what is buffered, and no entry before it is left out.
LEMMA CatchUpBuffersInv == ASSUME RInv, CatchUpBuffers PROVE RInv'
  <1>1. Sound /\ Pages' = Pages
    BY SameVars DEF CatchUpBuffers
  <1>2. SessionTypes /\ CallTypes /\ Telling /\ Paging
    BY RParts
  <1>3. /\ pulled' = [s \in 1 .. MaxServer |->
             IF pulled[s] = "none" /\ s \in Fitting
             THEN IF batch[s] THEN "archived" ELSE "active"
             ELSE pulled[s]]
        /\ scursor' = Max(Fitting \cup {scursor})
        /\ loop' = "wait" /\ asked' = 0 /\ batch' = NoPage /\ loop = "page"
        /\ UNCHANGED <<vars, registered, results, pushes, answers, seeded, faults,
                       cpc, offer, peekR, peekP, ackR, ackP>>
    BY DEF CatchUpBuffers, Passed, call
  <1>4. Fitting \subseteq DOMAIN batch /\ DOMAIN batch \subseteq SyncIds
    BY <1>2 DEF Fitting, SessionTypes, Pages
  <1>5. registered /\ asked \in Nat /\ asked =< scursor
    BY <1>2, <1>3 DEF SessionTypes, Paging, Ids
  <1>6. SyncIds' = SyncIds /\ server' = server /\ local' = local
    BY <1>3 DEF vars, SyncIds
  <1>7. /\ scursor' \in Fitting \cup {scursor} /\ scursor =< scursor'
        /\ \A s \in Fitting : s =< scursor'
        /\ scursor' \in Nat /\ scursor' =< Len(server)
    <2> DEFINE F == Fitting \cup {scursor}
    <2>1. F \in SUBSET (0 .. Len(server)) /\ F # {} /\ Len(server) \in Nat
      BY <1>4, RParts
    <2>2. Max(F) \in F /\ \A s \in F : s =< Max(F)
      BY <2>1, MaxProperties
    <2>3. scursor' = Max(F)
      BY <1>3
    <2>4. scursor' \in F /\ \A s \in F : s =< scursor'
      BY <2>2, <2>3
    <2>5. scursor' \in 0 .. Len(server)
      BY <2>1, <2>4
    <2> QED
      BY <2>1, <2>4, <2>5
  <1>8. SessionTypes'
    <2>1. pulled' \in Entries
      BY <1>2, <1>3 DEF SessionTypes, Entries
    <2>2. scursor' \in Ids
      BY <1>7, RParts, ConstantsAssumption, InvParts DEF Ids, TypeOK
    <2>3. NoPage \in Pages
      BY <1>1, PagesGrow DEF Sound
    <2> QED
      BY <1>1, <1>2, <1>3, <2>1, <2>2, <2>3, MachineFacts DEF SessionTypes
  <1>9. CallTypes'
    BY <1>2, <1>3 DEF CallTypes
  <1>10. Telling'
    <2>1. \A s \in 1 .. MaxServer : pulled'[s] # "none" => s \in SyncIds
      BY <1>2, <1>3, <1>4 DEF Telling
    <2> QED
      BY <1>1, <1>2, <1>3, <2>1, TellingKept DEF Telling
  <1>11. Acknowledged'
    BY <1>1, <1>2, <1>3, AcknowledgedKept
  <1>12. Paging'
    BY <1>2, <1>3, <1>5, <1>6, <1>7 DEF Paging
  <1>13. Limits'
    <2>1. Buffered' = Buffered
      BY <1>3 DEF Buffered
    <2>2. Cardinality(Buffered) =< Capacity /\ Cardinality(BufferedIds) =< Capacity
      BY RParts DEF Limits
    <2> DEFINE ids == BufferedIds
    <2>3. \A s \in ids' : s \in ids \/ (s \in Fitting /\ pulled[s] = "none")
      BY <1>2, <1>3 DEF BufferedIds
    <2>4. Cardinality(ids') =< Capacity
      <3>1. CASE Fitting = {}
        <4>1. ids' = ids
          BY <1>2, <1>3, <3>1 DEF BufferedIds
        <4> QED
          BY <2>2, <4>1
      <3>2. CASE Fitting # {}
        <4>1. PICK m \in Fitting : \A s \in Fitting : s =< m
          <5>1. Fitting \in SUBSET (0 .. Len(server)) /\ Len(server) \in Nat
            BY <1>4, RParts
          <5> QED
            BY <3>2, <5>1, MaxProperties
        <4> DEFINE X == {t \in DOMAIN batch : t =< m /\ pulled[t] = "none"}
                   n == ids'
        <4>2. Cardinality(X) + Cardinality(ids) =< Capacity
          BY <4>1 DEF Fitting
        <4>3. n \in SUBSET (ids \cup X)
          BY <1>4, <2>3, <4>1
        <4>4. IsFiniteSet(X) /\ IsFiniteSet(ids)
          <5>1. IsFiniteSet(SyncIds) /\ X \in SUBSET SyncIds
            BY <1>4, RParts, InvParts, ServerFacts
          <5> QED
            BY <5>1, FiniteBuffers, FS_Subset
        <4>5. Cardinality(X) \in Nat /\ Cardinality(ids) \in Nat /\ Capacity \in Nat
          BY <4>4, FS_CardinalityType, RelayAssumption
        <4>6. Cardinality(ids) + Cardinality(X) =< Capacity
          <5> HIDE DEF X, ids
          <5> QED
            BY <4>2, <4>5
        <4> HIDE DEF X, n
        <4>7. Cardinality(n) =< Capacity
          BY <4>3, <4>4, <4>5, <4>6, RoomFor
        <4> QED
          BY <4>7 DEF n
      <3> QED
        BY <3>1, <3>2
    <2> QED
      BY <2>1, <2>2, <2>4 DEF Limits
  <1>14. PassedIsKept'
    <2> SUFFICES ASSUME NEW s \in SyncIds, seeded < s, s =< scursor', server[s].status = "active"
                 PROVE  \/ pulled'[s] # "none"
                        \/ \E d \in Machine : local'[d][server'[s].content] # NoRow
      BY <1>3, <1>6 DEF PassedIsKept
    <2>1. s \in 1 .. MaxServer /\ s \in Nat
      BY RParts
    <2>2. pulled[s] # "none" => pulled'[s] # "none"
      BY <1>3, <2>1
    <2>3. CASE s =< scursor
      BY <1>1, <1>5, <1>6, <2>2, <2>3, PassedKept
    <2>4. CASE s > scursor
      <3>1. scursor' # scursor
        BY <2>1, <2>4, RParts
      <3>2. scursor' \in Fitting /\ scursor' \in DOMAIN batch
        BY <1>4, <1>7, <3>1
      <3>3. s \in DOMAIN batch
        <4>1. asked < s
          BY <1>5, <2>1, <2>4, RParts
        <4> QED
          BY <1>2, <1>3, <3>2, <4>1 DEF Paging
      <3>4. s \in Fitting
        <4>1. PICK m \in Fitting : m = scursor'
          BY <3>2
        <4> DEFINE X == {t \in DOMAIN batch : t =< s /\ pulled[t] = "none"}
                   Y == {t \in DOMAIN batch : t =< m /\ pulled[t] = "none"}
        <4>2. m \in Nat /\ s =< m /\ \A t \in DOMAIN batch : t \in Nat
          BY <1>4, <1>7, <4>1, RParts
        <4>3. X \in SUBSET Y
          BY <2>1, <4>2
        <4>4. IsFiniteSet(Y)
          <5>1. IsFiniteSet(SyncIds) /\ Y \in SUBSET SyncIds
            BY <1>4, RParts, InvParts, ServerFacts
          <5> QED
            BY <5>1, FS_Subset
        <4>5. /\ IsFiniteSet(X) /\ Cardinality(X) =< Cardinality(Y)
              /\ Cardinality(X) \in Nat /\ Cardinality(Y) \in Nat /\ Cardinality(BufferedIds) \in Nat
          BY <4>3, <4>4, FS_Subset, FS_CardinalityType, FiniteBuffers
        <4>6. Cardinality(Y) + Cardinality(BufferedIds) =< Capacity
          BY <4>1 DEF Fitting
        <4>7. Cardinality(X) + Cardinality(BufferedIds) =< Capacity
          <5> HIDE DEF X, Y
          <5> QED
            BY <4>5, <4>6, RelayAssumption
        <4> QED
          BY <3>3, <4>7 DEF Fitting
      <3>5. pulled'[s] # "none"
        BY <1>3, <2>1, <3>4
      <3> QED
        BY <3>5
    <2> QED
      BY <2>1, <2>3, <2>4, RParts
  <1> QED
    BY <1>1, <1>8, <1>9, <1>10, <1>11, <1>12, <1>13, <1>14 DEF RInv, Sound

\* The relay's memory is gone: nothing is buffered and no cursor has passed
\* anything.
LEMMA RestartInv == ASSUME RInv, Restart PROVE RInv'
  <1>1. Sound /\ Pages' = Pages
    BY SameVars DEF Restart
  <1>2. SessionTypes /\ CallTypes /\ Telling
    BY RParts
  <1>3. /\ registered' = FALSE /\ scursor' = 0 /\ seeded' = 0
        /\ results' = NoResults /\ pulled' = NoPulled /\ pushes' = {} /\ answers' = {}
        /\ loop' = "off" /\ asked' = 0 /\ batch' = NoPage
        /\ faults' \in 0 .. MaxFaults
        /\ UNCHANGED <<vars, cpc, offer, peekR, peekP, ackR, ackP>>
    BY <1>2, RelayAssumption DEF Restart, NoSession, Fault, SessionTypes, call
  <1>4. NoPage \in Pages
    BY <1>1, PagesGrow DEF Sound
  <1>5. SessionTypes' /\ CallTypes'
    <2> HIDE DEF NoResults, NoPulled, NoPage
    <2> QED
      BY <1>1, <1>2, <1>3, <1>4, MachineFacts, Nothing DEF SessionTypes, CallTypes
  <1>6. /\ \A x \in Exts : results'[x] = Absent
        /\ \A s \in 1 .. MaxServer : pulled'[s] = "none"
    BY <1>3, Nothing
  <1>7. Telling'
    <2>1. \A y : NamesEntry(Absent, y)
      BY DEF NamesEntry, Absent
    <2>2. \A x \in Exts : NamesEntry(results'[x], x[2])
      BY <1>6, <2>1
    <2> QED
      BY <1>1, <1>2, <1>3, <1>6, <2>2, TellingKept DEF Telling
  <1>8. Acknowledged'
    BY <1>1, <1>2, <1>3, AcknowledgedKept
  <1>9. Paging'
    <2>1. server' = server /\ 0 =< Len(server)
      BY <1>3, RParts DEF vars
    <2> QED
      BY <1>3, <2>1, SinceBounded DEF Paging
  <1>10. Limits'
    <2>1. Buffered' \subseteq Buffered /\ BufferedIds' \subseteq BufferedIds
      BY <1>6 DEF Buffered, BufferedIds
    <2> QED
      BY <2>1, LimitsKept
  <1>11. PassedIsKept'
    BY <1>3 DEF PassedIsKept
  <1> QED
    BY <1>1, <1>5, <1>7, <1>8, <1>9, <1>10, <1>11 DEF RInv, Sound
\* An answer names what the push stored, or the live row it was skipped for.
LEMMA PushAnsweredInv == ASSUME RInv, NEW p \in pushes, PushAnswered(p) PROVE RInv'
  <1> DEFINE c == p.client
             fresh == Fresh(c, p.rows)
  <1>1. Sound /\ Pages \subseteq Pages'
    BY PushAnsweredSound, PagesGrow DEF Sound
  <1>2. SessionTypes /\ CallTypes /\ Telling
    BY RParts
  <1>3. PICK ids \in [p.rows -> 0 .. MaxServer] :
          /\ \A e \in p.rows :
               IF e \in fresh
               THEN ids[e] \in DOMAIN server' \ DOMAIN server /\ server'[ids[e]].content = e
               ELSE ids[e] \in SkipIds(Ext(c, e))
          /\ answers' = answers \cup {[client |-> c, ids |-> ids]}
    BY DEF PushAnswered
  <1>4. /\ pushes' = pushes \ {p}
        /\ UNCHANGED <<registered, scursor, results, pulled, loop, asked, batch, seeded, faults,
                       cpc, offer, peekR, peekP, ackR, ackP>>
    BY DEF PushAnswered, call
  <1>5. [client |-> c, ids |-> ids] \in Answers
    BY PushTypes DEF Answers, Ids
  <1>6. SessionTypes' /\ CallTypes'
    BY <1>1, <1>2, <1>3, <1>4, <1>5 DEF SessionTypes, CallTypes
  <1>7. ASSUME NEW e \in p.rows PROVE NamesEntry(ids[e], e)'
    <2>1. CASE e \in fresh
      BY <1>3, <2>1 DEF NamesEntry, SyncIds
    <2>2. CASE e \notin fresh
      <3>1. ids[e] = NoId \/ ids[e] \in LiveId(Ext(c, e))
        BY <1>3, <2>2 DEF SkipIds
      <3>2. CASE ids[e] = NoId
        BY <3>2 DEF NamesEntry, NoId
      <3>3. CASE ids[e] \in LiveId(Ext(c, e))
        <4>1. ids[e] \in SyncIds /\ server[ids[e]].ext = <<c, e>>
          BY <3>3 DEF LiveId, Ext
        <4>2. server[ids[e]].content = e
          BY <4>1, RParts, InvParts DEF Named
        <4> QED
          BY <1>1, <4>1, <4>2 DEF NamesEntry, Sound, Keeps
      <3> QED
        BY <3>1, <3>2, <3>3
    <2> QED
      BY <2>1, <2>2
  <1>8. Telling'
    <2>1. \A a \in answers' \ answers : \A e \in DOMAIN a.ids : NamesEntry(a.ids[e], e)'
      <3> SUFFICES ASSUME NEW a \in answers' \ answers, NEW e \in DOMAIN a.ids
                   PROVE  NamesEntry(a.ids[e], e)'
        OBVIOUS
      <3>1. a.ids = ids
        BY <1>3
      <3>2. e \in p.rows
        BY <3>1
      <3> QED
        BY <1>7, <3>1, <3>2
    <2> QED
      BY <1>1, <1>2, <1>4, <2>1, TellingKept DEF Telling
  <1>9. Acknowledged' /\ Paging' /\ Limits' /\ PassedIsKept'
    BY <1>1, <1>2, <1>4, SinceBounded, AcknowledgedKept, PagingKept, LimitsKept, PassedIsKeptSame
       DEF Buffered, BufferedIds
  <1> QED
    BY <1>1, <1>6, <1>8, <1>9 DEF RInv, Sound

-----------------------------------------------------------------------------
(* The theorems *)

\* The invariant holds at first.
LEMMA RelayInitSound == ASSUME RelayInit PROVE RInv
  <1>1. IInv
    BY InitSound DEF RelayInit
  <1>2. /\ server = << >> /\ Len(server) = 0 /\ SyncIds = {}
        /\ registered = FALSE /\ scursor = 0 /\ seeded = 0 /\ faults = 0
        /\ results = NoResults /\ pulled = NoPulled
        /\ pushes = {} /\ answers = {}
        /\ loop = "off" /\ asked = 0 /\ batch = NoPage
        /\ cpc = [c \in Machine |-> "idle"]
        /\ offer = [c \in Machine |-> NoOffer]
        /\ peekR = [c \in Machine |-> NoResults]
        /\ peekP = [c \in Machine |-> NoPulled]
        /\ ackR = [c \in Machine |-> {}]
        /\ ackP = [c \in Machine |-> {}]
    BY DEF RelayInit, Init, SyncIds
  <1>3. NoPage \in Pages
    <2>1. NoPage \in [{} -> BOOLEAN]
      BY DEF NoPage
    <2> QED
      BY <2>1 DEF Pages
  <1>4. SessionTypes /\ CallTypes
    <2> HIDE DEF NoResults, NoPulled, NoPage, NoOffer
    <2> QED
      <3>1. 0 \in 0 .. MaxFaults
        BY RelayAssumption
      <3>2. SessionTypes
        BY <1>2, <1>3, <3>1, MachineFacts, Nothing DEF SessionTypes
      <3>3. CallTypes
        BY <1>2, Nothing DEF CallTypes
      <3> QED
        BY <3>2, <3>3
  <1>5. Telling
    <2>1. \A y : NamesEntry(Absent, y)
      BY DEF NamesEntry, Absent
    <2> QED
      BY <1>2, <2>1, Nothing DEF Telling
  <1>6. Acknowledged
    BY <1>2 DEF Acknowledged
  <1>7. Paging
    BY <1>2, Nothing DEF Paging
  <1>8. Limits
    <2>1. Buffered = {} /\ BufferedIds = {}
      BY <1>2, Nothing DEF Buffered, BufferedIds
    <2> QED
      BY <2>1, FS_EmptySet, RelayAssumption DEF Limits
  <1>9. PassedIsKept
    BY <1>2 DEF PassedIsKept
  <1> QED
    BY <1>1, <1>4, <1>5, <1>6, <1>7, <1>8, <1>9 DEF RInv

\* Every step keeps the invariant.
LEMMA RelayStepSound == ASSUME RInv, RelayNext \/ UNCHANGED allVars PROVE RInv'
  <1>1. CASE UNCHANGED allVars
    <2>1. UNCHANGED vars /\ UNCHANGED relayVars
      BY <1>1 DEF allVars
    <2> QED
      BY <2>1, SameVars, RelayUntouched
  <1>2. CASE OtherUse
    BY <1>2, RParts, OtherUseSound, RelayUntouched DEF OtherUse
  <1>3. ASSUME NEW c \in Machine, CallStep(c) PROVE RInv'
    BY <1>3, RegisterInv, PollInv, ResultsAppliedInv, AckInv, ApplyResultInv, ApplyPulledInv
       DEF CallStep
  <1>4. ASSUME NEW c \in Machine,
               \/ ReadOutbox(c) \/ RegisterFails(c) \/ CallAborts(c)
               \/ \E e \in Contents : StampFails(c, e)
               \/ \E s \in 1 .. MaxServer : ApplyFails(c, s)
        PROVE  RInv'
    BY <1>4, ReadOutboxInv, RegisterFailsInv, CallAbortsInv, StampFailsInv, ApplyFailsInv
  <1>5. ASSUME NEW p \in pushes, PushRejected(p) \/ PushLost(p) PROVE RInv'
    <2>1. PushError(p)
      BY <1>5 DEF PushRejected, PushLost
    <2>2. faults' \in 0 .. MaxFaults
      BY <1>5, RParts, RelayAssumption DEF PushRejected, PushLost, Fault, SessionTypes
    <2> QED
      BY <2>1, <2>2, PushErrorInv
  <1>6. CASE RelayPush
    BY <1>5, <1>6, PushAnsweredInv, BufferAnswerInv DEF RelayPush
  <1>7. CASE CatchUp \/ RelayPull \/ CatchUpFails \/ Restart
    BY <1>7, CatchUpInv, CatchUpAnsweredInv, CatchUpBuffersInv, CatchUpFailsInv, RestartInv
       DEF RelayPull
  <1> QED
    BY <1>1, <1>2, <1>3, <1>4, <1>5, <1>6, <1>7 DEF RelayNext, RelayCalm

\* The invariant holds in every state.
LEMMA RelayInvariance == RelayFairSpec => []RInv
  <1>1. RelayInit => RInv
    BY RelayInitSound
  <1>2. RInv /\ [RelayNext]_allVars => RInv'
    BY RelayStepSound
  <1> QED
    BY <1>1, <1>2, PTL DEF RelayFairSpec
\* However long nobody polls, neither buffer outgrows its limit, and all the
\* relay holds is what it should be.
THEOREM RelayTypeCorrect == RelayFairSpec => []RelayTypeOK
  <1>1. RInv => RelayTypeOK
    BY RParts, InvParts DEF RelayTypeOK, SessionTypes, CallTypes, Results, Entries, Limits
  <1> QED
    BY <1>1, RelayInvariance, PTL

\* What the session's cursor passed on its own is buffered or in a store of the
\* machine, whatever polls, acks, fails, is killed or is retired meanwhile.
THEOREM CursorPassesWhatIsKept == RelayFairSpec => []PassedIsKept
  <1>1. RInv => PassedIsKept
    BY DEF RInv
  <1> QED
    BY <1>1, RelayInvariance, PTL

\* A step changes a result with an id only by a restart, by an answer that has
\* an id too, or by the ack of a call that stamped the row.
LEMMA ResultsStep ==
  ASSUME RInv, RelayNext, ~Restart, NEW c \in Machine, NEW e \in Contents, results[Ext(c, e)] > 0
  PROVE  results'[Ext(c, e)] > 0 \/ local[c][e].rid # 0
  <1> DEFINE x == Ext(c, e)
  <1>1. x \in Exts /\ x[1] = c /\ x[2] = e
    BY MachineFacts DEF Ext, Exts
  <1>2. results[x] \in Ids /\ results[x] # Absent
    BY <1>1, RParts DEF SessionTypes, Results, Absent
  <1>3. CASE results' = results
    BY <1>3
  <1>4. ASSUME NEW d \in Machine, Ack(d)
        PROVE  results'[x] > 0 \/ local[c][e].rid # 0
    <2>1. CASE x \in ackR[d]
      BY <1>1, <2>1, RParts DEF Acknowledged
    <2>2. CASE x \notin ackR[d]
      BY <1>1, <1>4, <2>2 DEF Ack, RetiredR
    <2> QED
      BY <2>1, <2>2
  <1>5. ASSUME NEW a \in answers, BufferAnswer(a)
        PROVE  results'[x] > 0
    <2>1. PICK S \in SUBSET ({Ext(a.client, f) : f \in DOMAIN a.ids} \ Buffered) :
            results' = [y \in Exts |->
              IF y \in S THEN a.ids[y[2]]
              ELSE IF y \in {Ext(a.client, f) : f \in DOMAIN a.ids} \cap Buffered
                   THEN Kept(results[y], a.ids[y[2]])
                   ELSE results[y]]
      BY <1>5 DEF BufferAnswer
    <2>2. x \in Buffered /\ x \notin S
      BY <1>1, <1>2 DEF Buffered
    <2>3. results'[x] = results[x]
          \/ (e \in DOMAIN a.ids /\ results'[x] = Kept(results[x], a.ids[e]))
      BY <1>1, <2>1, <2>2 DEF Ext
    <2>4. e \in DOMAIN a.ids => a.ids[e] \in Nat
      BY RParts DEF SessionTypes, Answers, Ids
    <2> QED
      BY <2>3, <2>4 DEF Kept, NoId
  <1>6. \/ results' = results
        \/ \E d \in Machine : Ack(d)
        \/ \E a \in answers : BufferAnswer(a)
    BY DEF RelayNext, RelayCalm, OtherUse, CallStep, RelayPush, RelayPull, ReadOutbox, Register,
           RegisterFails, Poll, ApplyResult, StampFails, ResultsApplied, ApplyPulled, ApplyFails,
           CallAborts, PushAnswered, PushRejected, PushLost, PushError, CatchUp, CatchUpAnswered,
           CatchUpBuffers, CatchUpFails, relayVars, session, buffers
  <1> QED
    BY <1>3, <1>4, <1>5, <1>6

\* A known id is never given up before its row carries one.
THEOREM ResultsStay == RelayFairSpec => ResultsKept
  <1>1. RInv /\ [RelayNext]_allVars
        => [\A c \in Machine, e \in Contents :
              (results[Ext(c, e)] > 0 /\ ~Restart) =>
                results'[Ext(c, e)] > 0 \/ local[c][e].rid # 0]_allVars
    BY ResultsStep
  <1> QED
    BY <1>1, RelayInvariance, PTL DEF RelayFairSpec, ResultsKept

\* The stores and the server keep under the relay what they keep under the sync
\* commands: no id names another entry, nothing is stored twice.
THEOREM RelayKeepsStoresSound == RelayFairSpec => [](StampsMatch /\ PushedOnce)
  <1>1. RInv => StampsMatch /\ PushedOnce
    BY DEF RInv, IInv
  <1> QED
    BY <1>1, RelayInvariance, PTL
=============================================================================
