-------------------------- MODULE MemorySyncProofs --------------------------
(***************************************************************************)
(* What MemorySync promises, for every set of clients and entries and      *)
(* every chunk and page size: a stamped row names its own entry, a resent  *)
(* chunk is stored once, nothing un-archives a row and, for clients that   *)
(* run spelunk sync, the derived cursor hides nothing.                     *)
(***************************************************************************)
EXTENDS MemorySync, NatSets, FiniteSetTheorems, SequenceTheorems, TLAPS

-----------------------------------------------------------------------------
(* The inductive invariant *)

\* An entry's external_id was made for its content.
Named == \A s \in SyncIds : server[s].ext[2] = server[s].content

\* An answer about to be stamped names an entry with the row's content.
Truthful ==
  \A c \in Clients, e \in Contents :
    reply[c][e] # 0 =>
      /\ reply[c][e] \in SyncIds
      /\ server[reply[c][e]].content = e

IInv == TypeOK /\ Named /\ Truthful /\ StampsMatch /\ PushedOnce

\* A step of any of the programs, whichever commands the clients run.
AnyNext ==
  \/ LocalUse \/ ServerUse
  \/ \E c \in Clients :
       \/ \E k \in {"sync", "push", "pull"} : Start(c, k)
       \/ Step(c) \/ BatchLost(c) \/ FailsEarly(c) \/ LastPullFails(c) \/ KilledPushing(c)

-----------------------------------------------------------------------------
(* The invariant of clients that run spelunk sync *)

\* Where a command is: which commands run at all, and in which pass.
Phased(c) ==
  /\ pc[c] # "idle" => kind[c] = "sync"
  /\ pc[c] \in {"idle", "rows", "push", "stamp"} => pass[c] = 1
  /\ CloudApi \/ tombs[c] = {}
  /\ cursor[c] =< Len(server) /\ from[c] =< Len(server)

\* Until its push stamps ids, a round's store has everything below its cursor.
Ordered(c) ==
  /\ (pass[c] = 1 /\ pc[c] \notin {"push", "stamp"}) => \A s \in Unseen(c) : s > MaxRemoteId(c)
  /\ (pass[c] = 1 /\ pc[c] # "idle") => \A s \in Unseen(c) : s > cursor[c]

\* A pull closes the gap: what is unseen is on the page or behind it.
Closing(c) ==
  /\ pc[c] = "pull" => \A s \in Unseen(c) : s > from[c]
  /\ pc[c] = "apply" =>
       \A s \in Unseen(c) \ DOMAIN page[c] :
         /\ \A t \in DOMAIN page[c] : s > t
         /\ IF full[c] THEN s > from[c] ELSE s > MaxRemoteId(c)
  /\ (pc[c] = "apply" /\ full[c]) => \A t \in DOMAIN page[c] : t =< from[c]

Round(c) == Phased(c) /\ Ordered(c) /\ Closing(c)
Gapless == \A c \in Clients : Round(c)

-----------------------------------------------------------------------------
(* Server, pages and cursors *)

Rows == [status : Statuses, rid : Ids]

\* The server's ids are the positions of its entries.
LEMMA ServerFacts ==
  ASSUME TypeOK
  PROVE  /\ Len(server) \in Nat /\ SyncIds = 1 .. Len(server)
         /\ SyncIds \subseteq Ids /\ IsFiniteSet(SyncIds)
         /\ \A s \in SyncIds : server[s] \in Entry
  <1>1. Len(server) \in Nat /\ SyncIds = 1 .. Len(server) /\ \A s \in SyncIds : server[s] \in Entry
    BY DEF TypeOK, SyncIds
  <1>2. IsFiniteSet(1 .. Len(server))
    BY <1>1, FS_Interval
  <1> QED
    BY <1>1, <1>2, ConstantsAssumption DEF TypeOK, Ids

\* max_remote_id is an id of the store, and none is greater.
LEMMA MaxRemoteIdFacts ==
  ASSUME NEW rows \in [Contents -> Rows]
  PROVE  LET S == {rows[e].rid : e \in Contents} \cup {0} IN
         /\ Max(S) \in S
         /\ Max(S) \in Ids
         /\ \A e \in Contents : rows[e].rid =< Max(S)
  <1> DEFINE S == {rows[e].rid : e \in Contents} \cup {0}
  <1>1. \A e \in Contents : rows[e].rid \in Ids
    BY DEF Rows
  <1>2. S \in SUBSET (0 .. MaxServer) /\ S # {} /\ MaxServer \in Nat
    BY <1>1, ConstantsAssumption DEF Ids
  <1>3. \A e \in Contents : rows[e].rid \in S
    OBVIOUS
  <1> HIDE DEF S
  <1>4. Max(S) \in S /\ \A x \in S : x =< Max(S)
    BY <1>2, MaxProperties
  <1>5. Max(S) \in Ids
    BY <1>2, <1>4 DEF Ids
  <1>6. Max(S) \in S /\ Max(S) \in Ids /\ \A e \in Contents : rows[e].rid =< Max(S)
    BY <1>3, <1>4, <1>5
  <1> QED
    BY <1>6 DEF S

\* An order of a set lists each of its members once.
LEMMA OrderFacts ==
  ASSUME NEW S, IsFiniteSet(S), NEW f \in Orders(S)
  PROVE  /\ Cardinality(S) \in Nat
         /\ f \in [1 .. Cardinality(S) -> S]
         /\ \A i, j \in 1 .. Cardinality(S) : f[i] = f[j] => i = j
         /\ \A e \in S : \E i \in 1 .. Cardinality(S) : f[i] = e
  <1> DEFINE n == Cardinality(S)
  <1>1. n \in Nat
    BY FS_CardinalityType
  <1>2. f \in [1 .. n -> S] /\ \A i, j \in 1 .. n : f[i] = f[j] => i = j
    BY DEF Orders
  <1>3. f \in Injection(1 .. n, S)
    BY <1>2 DEF Injection, IsInjective
  <1>4. Cardinality(1 .. n) = n
    BY <1>1, FS_Interval
  <1>5. f \in Surjection(1 .. n, S)
    BY <1>3, <1>4, FS_Injection
  <1> QED
    BY <1>1, <1>2, <1>5 DEF Surjection

\* The server keeps what it has: an entry's identity never changes, a retired
\* entry stays retired, and new entries come last.
Keeps ==
  /\ SyncIds \subseteq SyncIds'
  /\ \A s \in SyncIds :
       /\ server'[s].ext = server[s].ext
       /\ server'[s].content = server[s].content
       /\ server[s].status # "active" => server'[s].status = server[s].status
       /\ server[s].status = "deleted" => server'[s].status = "deleted"
  /\ \A s \in SyncIds' \ SyncIds : s > Len(server)

\* What the entries of S that c stores look like.
LEMMA StoreFacts ==
  ASSUME TypeOK, NEW c \in Clients, NEW S \in SUBSET Contents, Store(c, S)
  PROVE  /\ server' \in Seq(Entry) /\ Len(server') =< MaxServer
         /\ Keeps
         /\ \A s \in SyncIds : server'[s] = server[s]
         /\ \A s \in SyncIds' \ SyncIds :
              /\ server'[s].content \in S
              /\ server'[s].ext = Ext(c, server'[s].content)
              /\ server'[s].status = "active"
         /\ \A s, t \in SyncIds' \ SyncIds : server'[s].content = server'[t].content => s = t
         /\ \A e \in S : \E s \in SyncIds' \ SyncIds : server'[s].content = e
  <1>1. IsFiniteSet(S)
    BY ConstantsAssumption, FS_Subset
  <1>2. PICK f \in Orders(S) :
          server' = server \o [i \in DOMAIN f |->
                                 [ext |-> Ext(c, f[i]), content |-> f[i], status |-> "active"]]
    BY DEF Store
  <1> DEFINE n == Cardinality(S)
             new == [i \in 1 .. n |-> [ext |-> Ext(c, f[i]), content |-> f[i], status |-> "active"]]
  <1>3. /\ n \in Nat /\ f \in [1 .. n -> S]
        /\ \A i, j \in 1 .. n : f[i] = f[j] => i = j
        /\ \A e \in S : \E i \in 1 .. n : f[i] = e
    BY <1>1, OrderFacts
  <1>4. server' = server \o new
    BY <1>2, <1>3
  <1>5. new \in Seq(Entry) /\ Len(new) = n
    <2>1. \A i \in 1 .. n : new[i] \in Entry
      BY <1>3 DEF Entry, Ext
    <2> QED
      BY <1>3, <2>1
  <1>6. server \in Seq(Entry) /\ Len(server) \in Nat /\ SyncIds = 1 .. Len(server)
    BY ServerFacts DEF TypeOK
  <1>7. \A i \in 1 .. n :
          new[i].content = f[i] /\ new[i].ext = Ext(c, f[i]) /\ new[i].status = "active"
    OBVIOUS
  <1> HIDE DEF new, n
  <1>8. /\ server' \in Seq(Entry)
        /\ Len(server') = Len(server) + n
        /\ SyncIds' = 1 .. Len(server) + n
    <2>1. server' \in Seq(Entry) /\ Len(server') = Len(server) + n
      BY <1>4, <1>5, <1>6, ConcatProperties
    <2>2. DOMAIN server' = 1 .. Len(server')
      BY <2>1
    <2> QED
      BY <2>1, <2>2 DEF SyncIds
  <1>9. \A s \in SyncIds : server'[s] = server[s]
    BY <1>3, <1>4, <1>5, <1>6
  <1>10. \A s \in SyncIds' \ SyncIds :
           s - Len(server) \in 1 .. n /\ server'[s] = new[s - Len(server)] /\ s > Len(server)
    BY <1>3, <1>4, <1>5, <1>6, <1>8
  <1>11. \A i \in 1 .. n : Len(server) + i \in SyncIds' \ SyncIds /\ server'[Len(server) + i] = new[i]
    BY <1>3, <1>4, <1>5, <1>6, <1>8
  <1>12. Len(server') =< MaxServer
    BY <1>8 DEF Store, n
  <1>13. Keeps
    BY <1>3, <1>6, <1>8, <1>9, <1>10 DEF Keeps
  <1>14. \A s \in SyncIds' \ SyncIds :
           /\ server'[s].content \in S
           /\ server'[s].ext = Ext(c, server'[s].content)
           /\ server'[s].status = "active"
    BY <1>3, <1>7, <1>10
  <1>15. \A s, t \in SyncIds' \ SyncIds : server'[s].content = server'[t].content => s = t
    <2> SUFFICES ASSUME NEW s \in SyncIds' \ SyncIds, NEW t \in SyncIds' \ SyncIds,
                        server'[s].content = server'[t].content
                 PROVE  s = t
      OBVIOUS
    <2>1. s - Len(server) = t - Len(server)
      BY <1>3, <1>7, <1>10
    <2> QED
      BY <2>1, <1>6, <1>8
  <1>16. \A e \in S : \E s \in SyncIds' \ SyncIds : server'[s].content = e
    BY <1>3, <1>7, <1>11
  <1> QED
    BY <1>8, <1>9, <1>12, <1>13, <1>14, <1>15, <1>16

\* A page lists the first live entries after the cursor: what it leaves out
\* comes later, and a page that is not full leaves nothing out.
LEMMA PageFacts ==
  ASSUME TypeOK, NEW after \in Ids
  PROVE  LET P == PageOf(after) IN
         /\ DOMAIN P \subseteq Hits(after) /\ P \in [DOMAIN P -> BOOLEAN]
         /\ IsFiniteSet(DOMAIN P)
         /\ \A s \in Hits(after) \ DOMAIN P : \A t \in DOMAIN P : s > t
         /\ Cardinality(DOMAIN P) # PageSize => DOMAIN P = Hits(after)
  <1> DEFINE H == Hits(after)
             Before(s) == {t \in H : t < s}
             P == {s \in H : Cardinality(Before(s)) < PageSize}
             R == H \ P
  <1>1. H \in SUBSET Nat /\ IsFiniteSet(H)
    <2>1. H \subseteq SyncIds
      BY DEF Hits
    <2> QED
      BY <2>1, ServerFacts, FS_Subset DEF Ids
  <1>2. PageOf(after) = [s \in P |-> server[s].status = "archived"]
    BY DEF PageOf, Listed
  <1> HIDE DEF H
  <1>3. \A s \in H : IsFiniteSet(Before(s)) /\ Cardinality(Before(s)) \in Nat
    BY <1>1, FS_Subset, FS_CardinalityType
  <1>4. PageSize \in Nat /\ PageSize > 0
    BY ConstantsAssumption
  <1>5. \A s \in P, t \in H : t < s => t \in P
    <2> SUFFICES ASSUME NEW s \in P, NEW t \in H, t < s PROVE t \in P
      OBVIOUS
    <2>1. Before(t) \subseteq Before(s)
      <3>1. s \in H /\ t \in H /\ s \in Nat /\ t \in Nat
        BY <1>1
      <3> HIDE DEF P
      <3>2. \A x \in H : x \in Nat
        BY <1>1
      <3>3. \A x \in H : x < t => x < s
        <4> HIDE DEF Before
        <4> QED
          BY <3>1, <3>2
      <3> QED
        BY <3>3
    <2>2. Cardinality(Before(t)) =< Cardinality(Before(s))
      BY <2>1, <1>3, FS_Subset
    <2>3. Cardinality(Before(s)) < PageSize
      OBVIOUS
    <2> QED
      <3>1. Cardinality(Before(t)) \in Nat /\ Cardinality(Before(s)) \in Nat
        BY <1>3
      <3>2. Cardinality(Before(t)) < PageSize
        <4> HIDE DEF Before
        <4> QED
          BY <2>2, <2>3, <3>1, <1>4
      <3> QED
        BY <3>2
  <1>6. IsFiniteSet(P) /\ P \subseteq H
    BY <1>1, FS_Subset
  <1>7. \A s \in H \ P : \A t \in P : s > t
    <2> SUFFICES ASSUME NEW s \in H \ P, NEW t \in P, ~(s > t) PROVE FALSE
      OBVIOUS
    <2>1. s < t \/ s = t
      BY <1>1
    <2> QED
      BY <2>1, <1>5
  <1>8. ASSUME P # H PROVE Cardinality(P) = PageSize
    <2>1. R \in SUBSET Nat /\ R # {}
      BY <1>1, <1>8
    <2>2. PICK m \in R : \A x \in R : m <= x
      <3> HIDE DEF R
      <3> QED
        BY <2>1, MinProperties
    <2>3. Before(m) = P
      <3>1. m \in H \ P /\ \A x \in H \ P : m <= x
        BY <2>2
      <3>2. \A x \in H : x < m <=> x \in P
        <4> HIDE DEF P
        <4> QED
          BY <3>1, <1>1, <1>6, <1>7
      <3>3. P \subseteq H
        BY <1>6
      <3> HIDE DEF P
      <3> QED
        BY <3>2, <3>3
    <2>4. ~(Cardinality(P) < PageSize)
      BY <2>3
    <2>5. P # {} /\ P \in SUBSET (0 .. m) /\ m \in Nat
      <3>1. Cardinality({}) = 0
        BY FS_EmptySet
      <3>2. P # {}
        BY <2>4, <3>1, <1>4
      <3>3. m \in H \ P /\ m \in Nat /\ P \subseteq Nat
        BY <1>1, <1>6
      <3> HIDE DEF P
      <3> QED
        BY <3>2, <3>3, <1>7
    <2>6. PICK k \in P : \A x \in P : x <= k
      <3> HIDE DEF P
      <3> QED
        BY <2>5, MaxProperties
    <2>7. Before(k) = P \ {k}
      <3>1. k \in P /\ P \subseteq H
        BY <1>6
      <3> HIDE DEF P
      <3>2. \A x \in H : x \in Nat
        BY <1>1
      <3>3. \A x \in H : x < k <=> x \in P \ {k}
        <4> HIDE DEF Before
        <4> QED
          BY <3>1, <3>2, <1>5, <2>6
      <3> QED
        BY <3>1, <3>3
    <2>8. Cardinality(P \ {k}) = Cardinality(P) - 1 /\ Cardinality(P) \in Nat
      BY <1>6, FS_RemoveElement, FS_CardinalityType
    <2>9. Cardinality(Before(k)) < PageSize
      OBVIOUS
    <2>10. Cardinality(P) - 1 < PageSize
      BY <2>7, <2>8, <2>9
    <2> QED
      <3> HIDE DEF P
      <3> QED
        BY <2>4, <2>8, <2>10, <1>4
  <1>9. DOMAIN PageOf(after) = P /\ PageOf(after) \in [P -> BOOLEAN]
    BY <1>2
  <1> HIDE DEF P
  <1> QED
    BY <1>6, <1>7, <1>8, <1>9 DEF H
-----------------------------------------------------------------------------
(* What the operations do to the server ... *)

ServerOK == server \in Seq(Entry) /\ Len(server) =< MaxServer

\* Entries whose external_id no undeleted entry has are stored once.
LEMMA StoreOnce ==
  ASSUME TypeOK, Named, PushedOnce, NEW c \in Clients, NEW S \in SUBSET Contents, Store(c, S),
         \A e \in S : Indexed(Ext(c, e)) = {}
  PROVE  ServerOK' /\ Keeps /\ Named' /\ PushedOnce'
  <1>1. ServerOK' /\ Keeps
    BY StoreFacts DEF ServerOK
  <1>2. Named'
    <2> SUFFICES ASSUME NEW s \in SyncIds' PROVE server'[s].ext[2] = server'[s].content
      BY DEF Named
    <2>1. CASE s \in SyncIds
      BY <2>1, StoreFacts DEF Named
    <2>2. CASE s \notin SyncIds
      BY <2>2, StoreFacts DEF Ext
    <2> QED
      BY <2>1, <2>2
  <1>3. ASSUME NEW s \in SyncIds, NEW t \in SyncIds' \ SyncIds, server[s].ext = server'[t].ext
        PROVE  server[s].status = "deleted"
    <2>1. /\ server'[t].content \in S
          /\ server'[t].ext = Ext(c, server'[t].content)
      BY StoreFacts
    <2>2. s \notin Indexed(server'[t].ext)
      BY <2>1
    <2> QED
      BY <2>2, <1>3 DEF Indexed
  <1>4. ASSUME NEW s \in SyncIds' \ SyncIds, NEW t \in SyncIds' \ SyncIds,
               server'[s].ext = server'[t].ext
        PROVE  s = t
    <2>1. Ext(c, server'[s].content) = Ext(c, server'[t].content)
      BY <1>4, StoreFacts
    <2>2. server'[s].content = server'[t].content
      BY <2>1 DEF Ext
    <2> QED
      BY <2>2, StoreFacts
  <1>5. PushedOnce'
    <2> SUFFICES ASSUME NEW s \in SyncIds', NEW t \in SyncIds',
                        server'[s].ext = server'[t].ext,
                        server'[s].status # "deleted", server'[t].status # "deleted"
                 PROVE  s = t
      BY DEF PushedOnce
    <2>1. \A u \in SyncIds : server'[u] = server[u]
      BY StoreFacts
    <2>2. CASE s \in SyncIds /\ t \in SyncIds
      BY <2>1, <2>2 DEF PushedOnce
    <2>3. CASE s \in SyncIds /\ t \notin SyncIds
      BY <2>1, <2>3, <1>3
    <2>4. CASE s \notin SyncIds /\ t \in SyncIds
      BY <2>1, <2>4, <1>3
    <2>5. CASE s \notin SyncIds /\ t \notin SyncIds
      BY <2>5, <1>4
    <2> QED
      BY <2>2, <2>3, <2>4, <2>5
  <1> QED
    BY <1>1, <1>2, <1>5

\* Retiring a live entry keeps everything else of it.
LEMMA RetireKeeps ==
  ASSUME TypeOK, Named, PushedOnce, NEW s \in SyncIds, NEW status \in {"archived", "deleted"},
         server[s].status = "active",
         server' = [server EXCEPT ![s].status = status]
  PROVE  ServerOK' /\ Keeps /\ Named' /\ PushedOnce'
  <1>1. /\ server \in Seq(Entry) /\ Len(server) =< MaxServer
        /\ SyncIds = 1 .. Len(server) /\ Len(server) \in Nat /\ server[s] \in Entry
    BY ServerFacts DEF TypeOK
  <1> DEFINE r == [server[s] EXCEPT !.status = status]
  <1>2. /\ r \in Entry /\ r.ext = server[s].ext /\ r.content = server[s].content
        /\ r.status = status
    BY <1>1 DEF Entry
  <1>3. server' = [server EXCEPT ![s] = r]
    OBVIOUS
  <1> HIDE DEF r
  <1>4. server' \in Seq(Entry) /\ Len(server') = Len(server) /\ SyncIds' = SyncIds
    <2>1. server' \in Seq(Entry) /\ Len(server') = Len(server)
      BY <1>1, <1>2, <1>3
    <2>2. SyncIds' = 1 .. Len(server')
      BY <2>1 DEF SyncIds
    <2> QED
      BY <2>1, <2>2, <1>1
  <1>5. \A t \in SyncIds : server'[t] = IF t = s THEN r ELSE server[t]
    BY <1>1, <1>3
  <1>6. ServerOK'
    BY <1>1, <1>4 DEF ServerOK
  <1>7. Keeps
    BY <1>2, <1>4, <1>5 DEF Keeps
  <1>8. Named'
    BY <1>2, <1>4, <1>5 DEF Named
  <1>9. PushedOnce'
    BY <1>2, <1>4, <1>5 DEF PushedOnce
  <1> QED
    BY <1>6, <1>7, <1>8, <1>9

\* A step that leaves the server alone keeps its promises.
LEMMA SameServer ==
  ASSUME TypeOK, Named, PushedOnce, UNCHANGED server
  PROVE  ServerOK' /\ Keeps /\ Named' /\ PushedOnce' /\ SyncIds' = SyncIds
  <1>1. SyncIds' = SyncIds
    BY DEF SyncIds
  <1> QED
    BY <1>1 DEF TypeOK, ServerOK, Keeps, Named, PushedOnce

-----------------------------------------------------------------------------
(* ... and to the rows of a store *)

\* A store's rows name entries of their content.
Match(rows) ==
  /\ rows \in [Contents -> Rows]
  /\ \A e \in Contents :
       rows[e].rid # 0 => rows[e].rid \in SyncIds /\ server[rows[e].rid].content = e

\* A store never loses a row or its id, and no row is un-archived.
Advances(old, new) ==
  \A e \in Contents :
    /\ old[e] # NoRow => new[e] # NoRow
    /\ old[e].rid # 0 => new[e].rid = old[e].rid
    /\ old[e].status = "archived" => new[e].status = "archived"

\* What rows are made of.
LEMMA RowFacts ==
  /\ NoRow \in Rows /\ NoRow.rid = 0 /\ NoRow.status = "none"
  /\ \A r \in Rows : r.rid \in Ids /\ r.status \in Statuses
  /\ \A status \in Statuses, s \in Ids :
       Row(status, s) \in Rows /\ Row(status, s).rid = s /\ Row(status, s).status = status
  <1>1. 0 \in Ids
    BY ConstantsAssumption DEF Ids
  <1> QED
    BY <1>1 DEF NoRow, Rows, Row, Statuses

\* What set_remote_id and an archive make of a row.
LEMMA RowStamped ==
  ASSUME NEW r \in Rows, NEW s \in Ids
  PROVE  /\ SetRemoteId(r, s) \in Rows /\ SetRemoteId(r, s).status = r.status
         /\ SetRemoteId(r, s).rid = (IF r.rid = 0 THEN s ELSE r.rid)
         /\ r # NoRow => SetRemoteId(r, s) # NoRow
  <1>1. SetRemoteId(r, s) \in Rows /\ SetRemoteId(r, s).status = r.status
        /\ SetRemoteId(r, s).rid = (IF r.rid = 0 THEN s ELSE r.rid)
    BY DEF SetRemoteId, Rows
  <1>2. r = [status |-> r.status, rid |-> r.rid]
    BY DEF Rows
  <1>3. r # NoRow => r.status # "none" \/ r.rid # 0
    BY <1>2 DEF NoRow
  <1> QED
    BY <1>1, <1>3, RowFacts

\* Archiving a row changes neither its id nor that it exists.
LEMMA RowArchived ==
  ASSUME NEW r \in Rows, NEW archived \in BOOLEAN
  PROVE  /\ Archive(r, archived) \in Rows /\ Archive(r, archived).rid = r.rid
         /\ r.status = "archived" => Archive(r, archived).status = "archived"
         /\ r # NoRow => Archive(r, archived) # NoRow
  <1>1. /\ Archive(r, archived) \in Rows /\ Archive(r, archived).rid = r.rid
        /\ r.status = "archived" => Archive(r, archived).status = "archived"
        /\ Archive(r, archived) = r \/ Archive(r, archived).status = "archived"
    BY DEF Archive, Rows, Statuses
  <1> QED
    BY <1>1, RowFacts

\* apply_remote_note with an entry of the server.
LEMMA ApplyFacts ==
  ASSUME TypeOK, NEW rows, Match(rows), NEW s \in SyncIds, NEW archived \in BOOLEAN
  PROVE  LET e == server[s].content
             new == ApplyRemote(rows, s, e, archived) IN
         /\ Match(new) /\ Advances(rows, new)
         /\ e \in Contents /\ new[e] # NoRow
         /\ \A f \in Contents : new[f].rid \in {rows[f].rid, s}
  <1> DEFINE e == server[s].content
             new == ApplyRemote(rows, s, e, archived)
  <1>1. s \in Ids /\ s # 0 /\ e \in Contents
    BY ServerFacts DEF Entry
  <1>2. rows \in [Contents -> Rows]
    BY DEF Match
  <1>3. CASE \E f \in Contents : rows[f].rid = s
    <2>1. new = [f \in Contents |-> IF rows[f].rid = s THEN Archive(rows[f], archived) ELSE rows[f]]
      BY <1>3 DEF ApplyRemote
    <2>2. rows[e].rid = s
      BY <1>1, <1>3 DEF Match
    <2>3. new \in [Contents -> Rows] /\ \A f \in Contents : new[f].rid = rows[f].rid
      BY <2>1, <1>1, <1>2, RowStamped, RowArchived
    <2>4. Match(new)
      BY <2>3 DEF Match
    <2>5. Advances(rows, new)
      BY <2>1, <1>1, <1>2, RowStamped, RowArchived DEF Advances
    <2>6. new[e] # NoRow
      BY <2>2, <2>3, <1>1, RowFacts
    <2> HIDE DEF new
    <2>7. /\ Match(new) /\ Advances(rows, new) /\ new[e] # NoRow
          /\ \A f \in Contents : new[f].rid \in {rows[f].rid, s}
      BY <2>3, <2>4, <2>5, <2>6
    <2> QED
      BY <2>7, <1>1 DEF new
  <1>4. CASE ~ \E f \in Contents : rows[f].rid = s
    <2> DEFINE r == IF rows[e] = NoRow
                    THEN Row(IF archived THEN "archived" ELSE "active", s)
                    ELSE Archive(SetRemoteId(rows[e], s), archived)
    <2>1. new = [rows EXCEPT ![e] = r]
      BY <1>4 DEF ApplyRemote
    <2>2. /\ r \in Rows /\ r # NoRow /\ r.rid \in {rows[e].rid, s}
          /\ rows[e].rid # 0 => r.rid = rows[e].rid
          /\ rows[e].status = "archived" => r.status = "archived"
      <3>1. CASE rows[e] = NoRow
        <4>1. r = Row(IF archived THEN "archived" ELSE "active", s)
          BY <3>1
        <4>2. r \in Rows /\ r.rid = s
          BY <4>1, <1>1, RowFacts DEF Statuses
        <4> QED
          BY <3>1, <4>2, <1>1, RowFacts
      <3>2. CASE rows[e] # NoRow
        <4> DEFINE q == SetRemoteId(rows[e], s)
        <4>1. r = Archive(q, archived)
          BY <3>2
        <4>2. /\ q \in Rows /\ q.rid \in {rows[e].rid, s} /\ q.status = rows[e].status /\ q # NoRow
              /\ rows[e].rid # 0 => q.rid = rows[e].rid
          BY <3>2, <1>1, <1>2, RowStamped, RowArchived
        <4> HIDE DEF q, r
        <4> QED
          BY <4>1, <4>2, <1>1, RowStamped, RowArchived
      <3> QED
        BY <3>1, <3>2
    <2> HIDE DEF r
    <2>3. /\ new \in [Contents -> Rows] /\ new[e] = r
          /\ \A f \in Contents \ {e} : new[f] = rows[f]
      BY <2>1, <2>2, <1>1, <1>2
    <2> HIDE DEF new
    <2>4. Match(new)
      <3>1. r.rid # 0 => r.rid \in SyncIds /\ server[r.rid].content = e
        BY <2>2, <1>1 DEF Match
      <3> QED
        BY <3>1, <2>3 DEF Match
    <2>5. Advances(rows, new)
      BY <2>2, <2>3 DEF Advances
    <2>6. new[e] # NoRow /\ \A f \in Contents : new[f].rid \in {rows[f].rid, s}
      BY <2>2, <2>3
    <2> QED
      BY <2>4, <2>5, <2>6, <1>1 DEF new
  <1> QED
    BY <1>3, <1>4

\* Stamping rows with ids that name their content.
LEMMA StampFacts ==
  ASSUME TypeOK, NEW rows, Match(rows), NEW S \in SUBSET Contents,
         NEW ids \in [Contents -> Ids],
         \A e \in S : ids[e] # 0 => ids[e] \in SyncIds /\ server[ids[e]].content = e
  PROVE  LET new == [e \in Contents |-> IF e \in S THEN SetRemoteId(rows[e], ids[e]) ELSE rows[e]] IN
         Match(new) /\ Advances(rows, new)
  <1> DEFINE new == [e \in Contents |-> IF e \in S THEN SetRemoteId(rows[e], ids[e]) ELSE rows[e]]
  <1>1. rows \in [Contents -> Rows]
    BY DEF Match
  <1>2. \A e \in Contents :
          /\ new[e] \in Rows
          /\ new[e].status = rows[e].status
          /\ rows[e] # NoRow => new[e] # NoRow
          /\ new[e].rid = rows[e].rid \/ (e \in S /\ new[e].rid = ids[e])
          /\ rows[e].rid # 0 => new[e].rid = rows[e].rid
    BY <1>1, RowStamped
  <1>3. Advances(rows, new)
    BY <1>2 DEF Advances
  <1>4. new \in [Contents -> Rows]
    BY <1>2
  <1> HIDE DEF new
  <1>5. Match(new)
    BY <1>2, <1>4 DEF Match
  <1> QED
    BY <1>3, <1>5 DEF new
-----------------------------------------------------------------------------
(* Each action keeps the invariant *)

Pages == UNION {[S -> BOOLEAN] : S \in SUBSET SyncIds}
Kinds == {"none", "sync", "push", "pull"}

LocalOK == local \in [Clients -> [Contents -> Rows]]

CommandOK ==
  /\ pc \in [Clients -> Labels]
  /\ kind \in [Clients -> Kinds]
  /\ cursor \in [Clients -> Ids]
  /\ from \in [Clients -> Ids]
  /\ pass \in [Clients -> {1, 2}]
  /\ page \in [Clients -> Pages]
  /\ full \in [Clients -> BOOLEAN]
  /\ todo \in [Clients -> SUBSET Contents]
  /\ tombs \in [Clients -> SUBSET SyncIds]
  /\ reply \in [Clients -> [Contents -> Ids]]

\* What every step does: it keeps the invariant, what the server has and the
\* rows of every store.
Sound == IInv' /\ Keeps /\ \A c \in Clients : Advances(local[c], local'[c])

\* The type invariant by actor.
LEMMA TypeParts == TypeOK <=> LocalOK /\ ServerOK /\ CommandOK
  BY DEF TypeOK, LocalOK, ServerOK, CommandOK, Rows, Pages, Kinds

\* Stamps of a store name the entries of their rows.
LEMMA Matching == ASSUME IInv, NEW c \in Clients PROVE Match(local[c])
  BY TypeParts DEF IInv, LocalOK, StampsMatch, Match

\* The parts of a step's effect, put together.
LEMMA Assembled ==
  ASSUME IInv, ServerOK', Keeps, Named', PushedOnce', CommandOK', Truthful', LocalOK',
         \A c \in Clients : Match(local'[c]) /\ Advances(local[c], local'[c])
  PROVE  Sound
  <1>1. TypeOK'
    BY TypeParts DEF TypeOK, LocalOK, ServerOK, CommandOK, Rows, Pages, Kinds
  <1>2. StampsMatch'
    <2> SUFFICES ASSUME NEW c \in Clients, NEW e \in Contents, local'[c][e].rid # 0
                 PROVE  local'[c][e].rid \in SyncIds' /\ server'[local'[c][e].rid].content = e
      BY DEF StampsMatch
    <2>1. local'[c][e].rid \in SyncIds /\ server[local'[c][e].rid].content = e
      BY DEF Match
    <2> QED
      BY <2>1 DEF Keeps
  <1> QED
    BY <1>1, <1>2 DEF Sound, IInv

\* Stores that a step leaves alone.
LEMMA SameLocal ==
  ASSUME IInv, UNCHANGED local
  PROVE  /\ LocalOK'
         /\ \A c \in Clients : Match(local'[c]) /\ Advances(local[c], local'[c])
  BY Matching, TypeParts DEF IInv, LocalOK, Advances

\* A step that changes the rows of one store.
LEMMA OneStore ==
  ASSUME IInv, NEW c \in Clients, NEW rows, Match(rows), Advances(local[c], rows),
         local' = [local EXCEPT ![c] = rows]
  PROVE  /\ LocalOK'
         /\ \A d \in Clients : Match(local'[d]) /\ Advances(local[d], local'[d])
  <1>1. local \in [Clients -> [Contents -> Rows]] /\ rows \in [Contents -> Rows]
    BY TypeParts DEF IInv, LocalOK, Match
  <1>2. LocalOK'
    BY <1>1 DEF LocalOK
  <1>3. ASSUME NEW d \in Clients PROVE Match(local'[d]) /\ Advances(local[d], local'[d])
    <2>1. CASE d = c
      <3>1. local'[d] = rows
        BY <1>1, <2>1
      <3> QED
        BY <2>1, <3>1
    <2>2. CASE d # c
      <3>1. local'[d] = local[d]
        BY <1>1, <2>2
      <3> QED
        BY <3>1, Matching DEF Advances
    <2> QED
      BY <2>1, <2>2
  <1> QED
    BY <1>2, <1>3

\* Answers are only dropped.
LEMMA RepliesKept ==
  ASSUME IInv, Keeps, \A c \in Clients : reply'[c] \in {reply[c], NoReply}
  PROVE  Truthful'
  <1> SUFFICES ASSUME NEW c \in Clients, NEW e \in Contents, reply'[c][e] # 0
               PROVE  reply'[c][e] \in SyncIds' /\ server'[reply'[c][e]].content = e
    BY DEF Truthful
  <1>1. reply'[c] = reply[c]
    BY DEF NoReply
  <1> QED
    BY <1>1 DEF IInv, Truthful, Keeps

\* Pages and sets of ids remain such when the server grows.
LEMMA PagesGrow ==
  ASSUME Keeps
  PROVE  Pages \subseteq Pages' /\ SUBSET SyncIds \subseteq SUBSET SyncIds' /\ NoPage \in Pages
  <1>1. NoPage \in [{} -> BOOLEAN]
    BY DEF NoPage
  <1> QED
    BY <1>1 DEF Keeps, Pages

\* The command variables when a step changes nothing of them.
LEMMA SameCommand ==
  ASSUME IInv, Keeps, UNCHANGED command
  PROVE  CommandOK' /\ Truthful'
  <1>1. CommandOK'
    <2>1. CommandOK
      BY TypeParts DEF IInv
    <2> QED
      BY <2>1, PagesGrow DEF CommandOK, command
  <1>2. Truthful'
    BY RepliesKept DEF command
  <1> QED
    BY <1>1, <1>2

\* A command that ends keeps the types and the truth of answers.
LEMMA ReturnTypes ==
  ASSUME IInv, Keeps, NEW c \in Clients, Return(c)
  PROVE  CommandOK' /\ Truthful'
  <1>1. CommandOK
    BY TypeParts DEF IInv
  <1>2. NoReply \in [Contents -> Ids] /\ 0 \in Ids
    BY ConstantsAssumption DEF NoReply, Ids
  <1>3. CommandOK'
    <2> HIDE DEF NoReply
    <2> QED
      BY <1>1, <1>2, PagesGrow DEF CommandOK, Return, Labels, Kinds
  <1>4. Truthful'
    <2>1. \A d \in Clients : reply'[d] \in {reply[d], NoReply}
      BY <1>1 DEF CommandOK, Return
    <2> QED
      BY <2>1, RepliesKept
  <1> QED
    BY <1>3, <1>4

\* So does one that goes on after its push.
LEMMA AfterPushTypes ==
  ASSUME IInv, Keeps, NEW c \in Clients, AfterPush(c)
  PROVE  CommandOK' /\ Truthful'
  <1>1. CASE kind[c] = "sync"
    <2>1. CommandOK
      BY TypeParts DEF IInv
    <2>2. CommandOK'
      BY <1>1, <2>1, PagesGrow, ZenonT(40) DEF CommandOK, AfterPush, Goto, Labels
    <2>3. Truthful'
      BY <1>1, RepliesKept DEF AfterPush
    <2> QED
      BY <2>2, <2>3
  <1>2. CASE kind[c] # "sync"
    BY <1>2, ReturnTypes DEF AfterPush
  <1> QED
    BY <1>1, <1>2

\* The parts of the invariant most steps need.
LEMMA InvParts == ASSUME IInv PROVE TypeOK /\ Named /\ PushedOnce /\ CommandOK
  BY TypeParts DEF IInv

\* Recording an entry is sound.
LEMMA LocalAddSound ==
  ASSUME IInv, NEW c \in Clients, NEW e \in Contents, LocalAdd(c, e)
  PROVE  Sound
  <1>1. ServerOK' /\ Keeps /\ Named' /\ PushedOnce'
    BY InvParts, SameServer DEF LocalAdd
  <1>2. CommandOK' /\ Truthful'
    BY <1>1, SameCommand DEF LocalAdd
  <1> DEFINE rows == [local[c] EXCEPT ![e] = Row("active", 0)]
  <1>3. local' = [local EXCEPT ![c] = rows]
    BY DEF LocalAdd
  <1>4. Match(rows) /\ Advances(local[c], rows)
    <2>1. Match(local[c]) /\ local[c][e] = NoRow
      BY Matching DEF LocalAdd
    <2>2. Row("active", 0) \in Rows /\ Row("active", 0).rid = 0
      BY RowFacts, ConstantsAssumption DEF Ids, Statuses
    <2>3. /\ rows \in [Contents -> Rows]
          /\ \A f \in Contents : rows[f] = IF f = e THEN Row("active", 0) ELSE local[c][f]
      BY <2>1, <2>2 DEF Match
    <2>4. Row("active", 0) # NoRow /\ NoRow.status = "none" /\ NoRow.rid = 0
      BY RowFacts DEF Row, NoRow
    <2> HIDE DEF rows
    <2>5. Match(rows)
      BY <2>1, <2>2, <2>3 DEF Match
    <2>6. Advances(local[c], rows)
      BY <2>1, <2>3, <2>4 DEF Advances
    <2> QED
      BY <2>5, <2>6
  <1> HIDE DEF rows
  <1>5. LocalOK' /\ \A d \in Clients : Match(local'[d]) /\ Advances(local[d], local'[d])
    BY <1>3, <1>4, OneStore
  <1> QED
    BY <1>1, <1>2, <1>5, Assembled

\* So is archiving one.
LEMMA LocalArchiveSound ==
  ASSUME IInv, NEW c \in Clients, NEW e \in Contents, LocalArchive(c, e)
  PROVE  Sound
  <1>1. ServerOK' /\ Keeps /\ Named' /\ PushedOnce'
    BY InvParts, SameServer DEF LocalArchive
  <1>2. CommandOK' /\ Truthful'
    BY <1>1, SameCommand DEF LocalArchive
  <1> DEFINE r == [local[c][e] EXCEPT !.status = "archived"]
             rows == [local[c] EXCEPT ![e] = r]
  <1>3. Match(local[c]) /\ local[c] \in [Contents -> Rows] /\ local[c][e] \in Rows
    BY Matching DEF Match
  <1>4. local' = [local EXCEPT ![c] = rows]
    BY <1>3 DEF LocalArchive
  <1>5. r \in Rows /\ r.rid = local[c][e].rid /\ r.status = "archived"
    BY <1>3 DEF Rows, Statuses
  <1> HIDE DEF r
  <1>6. /\ rows \in [Contents -> Rows]
        /\ \A f \in Contents : rows[f] = IF f = e THEN r ELSE local[c][f]
    BY <1>3, <1>5
  <1> HIDE DEF rows
  <1>7. Match(rows)
    BY <1>3, <1>5, <1>6 DEF Match
  <1>8. Advances(local[c], rows)
    BY <1>5, <1>6, RowFacts DEF Advances
  <1>9. LocalOK' /\ \A d \in Clients : Match(local'[d]) /\ Advances(local[d], local'[d])
    BY <1>4, <1>7, <1>8, OneStore
  <1> QED
    BY <1>1, <1>2, <1>9, Assembled

\* So is a retirement on the server.
LEMMA ServerRetireSound ==
  ASSUME IInv, NEW s \in SyncIds, NEW status \in {"archived", "deleted"}, ServerRetire(s, status)
  PROVE  Sound
  <1>1. ServerOK' /\ Keeps /\ Named' /\ PushedOnce'
    BY InvParts, RetireKeeps DEF ServerRetire
  <1>2. CommandOK' /\ Truthful'
    BY <1>1, SameCommand DEF ServerRetire
  <1>3. LocalOK' /\ \A d \in Clients : Match(local'[d]) /\ Advances(local[d], local'[d])
    BY SameLocal DEF ServerRetire
  <1> QED
    BY <1>1, <1>2, <1>3, Assembled
\* Steps that touch neither the server nor a store.
LEMMA CommandStep ==
  ASSUME IInv, UNCHANGED <<local, server>>, CommandOK',
         \A c \in Clients : reply'[c] \in {reply[c], NoReply}
  PROVE  Sound
  <1>1. ServerOK' /\ Keeps /\ Named' /\ PushedOnce'
    BY InvParts, SameServer
  <1>2. Truthful'
    BY <1>1, RepliesKept
  <1>3. LocalOK' /\ \A d \in Clients : Match(local'[d]) /\ Advances(local[d], local'[d])
    BY SameLocal
  <1> QED
    BY <1>1, <1>2, <1>3, Assembled

\* So is the end of a command.
LEMMA ReturnSound ==
  ASSUME IInv, NEW c \in Clients, Return(c), UNCHANGED <<local, server>>
  PROVE  Sound
  <1>1. Keeps
    BY InvParts, SameServer
  <1>2. CommandOK'
    BY <1>1, ReturnTypes
  <1>3. \A d \in Clients : reply'[d] \in {reply[d], NoReply}
    BY InvParts DEF Return, CommandOK
  <1> QED
    BY <1>2, <1>3, CommandStep

\* The cursor is an id, and no stamp of the store lies above it.
LEMMA CursorFacts ==
  ASSUME IInv, NEW c \in Clients
  PROVE  /\ MaxRemoteId(c) \in Ids
         /\ \A e \in Contents : local[c][e].rid =< MaxRemoteId(c)
  <1>1. local[c] \in [Contents -> Rows]
    BY Matching DEF Match
  <1> QED
    BY <1>1, MaxRemoteIdFacts DEF MaxRemoteId

\* A command that starts is sound.
LEMMA StartSound ==
  ASSUME IInv, NEW c \in Clients, NEW k \in {"sync", "push", "pull"}, Start(c, k)
  PROVE  Sound
  <1>1. CommandOK /\ MaxRemoteId(c) \in Ids /\ 0 \in Ids
    BY InvParts, CursorFacts, ConstantsAssumption DEF Ids
  <1>2. SyncIds' = SyncIds
    BY DEF Start, SyncIds
  <1> HIDE DEF MaxRemoteId
  <1>3. CommandOK'
    BY <1>1, <1>2 DEF CommandOK, Start, Goto, Labels, Kinds, Pages
  <1> QED
    BY <1>3, CommandStep DEF Start

\* The page a cursor asks for.
LEMMA PageTypes ==
  ASSUME IInv, NEW c \in Clients
  PROVE  LET hits == PageOf(from[c]) IN
         /\ hits \in Pages
         /\ DOMAIN hits \subseteq SyncIds
         /\ Cardinality(DOMAIN hits) = PageSize =>
              /\ Max(DOMAIN hits) \in DOMAIN hits
              /\ Max(DOMAIN hits) \in Ids
              /\ \A t \in DOMAIN hits : t =< Max(DOMAIN hits)
  <1> DEFINE hits == PageOf(from[c])
             S == DOMAIN hits
  <1>1. TypeOK /\ from[c] \in Ids
    BY InvParts DEF CommandOK
  <1>2. S \subseteq Hits(from[c]) /\ hits \in [S -> BOOLEAN] /\ IsFiniteSet(S)
    BY <1>1, PageFacts
  <1>3. S \subseteq SyncIds
    BY <1>2 DEF Hits
  <1> HIDE DEF hits, S
  <1>4. hits \in Pages
    BY <1>2, <1>3 DEF Pages
  <1>5. ASSUME Cardinality(S) = PageSize
        PROVE  Max(S) \in S /\ Max(S) \in Ids /\ \A t \in S : t =< Max(S)
    <2>1. Cardinality({}) = 0
      BY FS_EmptySet
    <2>2. S # {} /\ MaxServer \in Nat
      BY <2>1, <1>5, ConstantsAssumption
    <2>3. S \in SUBSET (0 .. MaxServer)
      BY <1>1, <1>3, ServerFacts DEF Ids
    <2> QED
      BY <2>2, <2>3, MaxProperties DEF Ids
  <1> QED
    BY <1>3, <1>4, <1>5 DEF S, hits

\* So is a page that is fetched.
LEMMA PullPageSound ==
  ASSUME IInv, NEW c \in Clients, PullPage(c)
  PROVE  Sound
  <1> DEFINE hits == PageOf(from[c])
             next == IF Cardinality(DOMAIN hits) = PageSize THEN Max(DOMAIN hits) ELSE 0
  <1>1. CommandOK /\ hits \in Pages /\ next \in Ids
    <2>1. 0 \in Ids
      BY ConstantsAssumption DEF Ids
    <2> QED
      BY <2>1, InvParts, PageTypes
  <1>2. SyncIds' = SyncIds
    BY DEF PullPage, SyncIds
  <1>3. /\ page' = [page EXCEPT ![c] = hits]
        /\ full' = [full EXCEPT ![c] = (Cardinality(DOMAIN hits) = PageSize)]
        /\ from' = [from EXCEPT ![c] = next]
        /\ pc' = [pc EXCEPT ![c] = "apply"]
        /\ UNCHANGED <<local, server, kind, cursor, pass, todo, tombs, reply>>
    BY DEF PullPage, Goto
  <1> HIDE DEF hits, next
  <1>4. CommandOK'
    BY <1>1, <1>2, <1>3 DEF CommandOK, Labels, Pages
  <1> QED
    BY <1>3, <1>4, CommandStep

\* The entry applied next is the first of the page.
LEMMA NextEntry ==
  ASSUME IInv, NEW c \in Clients, page[c] # NoPage
  PROVE  LET s == Min(DOMAIN page[c]) IN
         /\ s \in DOMAIN page[c] /\ s \in SyncIds /\ page[c][s] \in BOOLEAN
         /\ \A t \in DOMAIN page[c] : s =< t
  <1>1. PICK S \in SUBSET SyncIds : page[c] \in [S -> BOOLEAN]
    BY InvParts DEF CommandOK, Pages
  <1>2. DOMAIN page[c] = S
    BY <1>1
  <1>3. S # {}
    <2> SUFFICES ASSUME S = {} PROVE page[c] = NoPage
      OBVIOUS
    <2> QED
      BY <1>1 DEF NoPage
  <1>4. S \in SUBSET Nat
    BY InvParts, ServerFacts DEF Ids
  <1>5. Min(S) \in S /\ \A t \in S : Min(S) <= t
    BY <1>3, <1>4, MinProperties
  <1> QED
    BY <1>1, <1>2, <1>5

\* So is an entry of it that is applied.
LEMMA ApplyEntrySound ==
  ASSUME IInv, NEW c \in Clients, ApplyEntry(c)
  PROVE  Sound
  <1> DEFINE s == Min(DOMAIN page[c])
             rest == Restrict(page[c], DOMAIN page[c] \ {s})
             rows == ApplyRemote(local[c], s, server[s].content, page[c][s])
  <1>1. s \in DOMAIN page[c] /\ s \in SyncIds /\ page[c][s] \in BOOLEAN
    BY NextEntry DEF ApplyEntry
  <1>2. CommandOK /\ TypeOK
    BY InvParts
  <1>3. /\ page' = [page EXCEPT ![c] = rest]
        /\ local' = [local EXCEPT ![c] = rows]
        /\ UNCHANGED <<server, pc, kind, cursor, from, pass, full, todo, tombs, reply>>
    <2>1. page \in [Clients -> Pages] /\ local \in [Clients -> [Contents -> Rows]]
      BY TypeParts DEF IInv, CommandOK, LocalOK
    <2> QED
      BY <2>1 DEF ApplyEntry
  <1>4. rest \in Pages
    <2>1. PICK S \in SUBSET SyncIds : page[c] \in [S -> BOOLEAN]
      BY <1>2 DEF CommandOK, Pages
    <2>2. rest \in [S \ {s} -> BOOLEAN]
      BY <2>1 DEF Restrict
    <2>3. S \ {s} \in SUBSET SyncIds
      OBVIOUS
    <2> HIDE DEF rest
    <2> QED
      BY <2>2, <2>3 DEF Pages
  <1>5. Match(rows) /\ Advances(local[c], rows)
    BY <1>1, <1>2, Matching, ApplyFacts
  <1> HIDE DEF rest, rows
  <1>6. ServerOK' /\ Keeps /\ Named' /\ PushedOnce' /\ SyncIds' = SyncIds
    BY <1>3, InvParts, SameServer
  <1>7. CommandOK'
    BY <1>2, <1>3, <1>4, <1>6 DEF CommandOK, Pages
  <1>8. Truthful'
    BY <1>3, <1>6, RepliesKept
  <1>9. LocalOK' /\ \A d \in Clients : Match(local'[d]) /\ Advances(local[d], local'[d])
    BY <1>3, <1>5, OneStore
  <1> QED
    BY <1>6, <1>7, <1>8, <1>9, Assembled

\* So is the reading of the rows to push.
LEMMA ReadRowsSound ==
  ASSUME IInv, NEW c \in Clients, NEW include \in Include, ReadRows(c, include)
  PROVE  Sound
  <1>1. CommandOK /\ SyncIds' = SyncIds
    BY InvParts DEF ReadRows, SyncIds
  <1>2. Tombstones(c) \in SUBSET SyncIds
    BY Matching DEF Match, Tombstones
  <1>3. CommandOK'
    <2> HIDE DEF Tombstones
    <2> QED
      BY <1>1, <1>2 DEF CommandOK, ReadRows, Goto, Labels, Pages
  <1> QED
    BY <1>3, CommandStep DEF ReadRows

\* The pushing command goes on after what the server did.
LEMMA PushStops ==
  ASSUME IInv, NEW c \in Clients, AfterPush(c), UNCHANGED local,
         ServerOK', Keeps, Named', PushedOnce'
  PROVE  Sound
  <1>1. CommandOK' /\ Truthful'
    BY AfterPushTypes
  <1>2. LocalOK' /\ \A d \in Clients : Match(local'[d]) /\ Advances(local[d], local'[d])
    BY SameLocal
  <1> QED
    BY <1>1, <1>2, Assembled

\* Part of a chunk stored before the push stopped.
LEMMA PartStored ==
  ASSUME IInv, NEW c \in Clients, NEW chunk \in Chunks(c),
         NEW S \in SUBSET (Fresh(c, chunk) \ Conflicts(c, chunk)), Store(c, S)
  PROVE  ServerOK' /\ Keeps /\ Named' /\ PushedOnce'
  <1>1. S \in SUBSET Contents
    BY InvParts DEF CommandOK, Chunks, Fresh
  <1>2. \A e \in S : Indexed(Ext(c, e)) = {}
    BY DEF Conflicts
  <1> QED
    BY <1>1, <1>2, InvParts, StoreOnce

\* So is a batch that is rejected or lost.
LEMMA BatchStopsSound ==
  ASSUME IInv, NEW c \in Clients, BatchRejected(c) \/ BatchLost(c)
  PROVE  Sound
  <1>1. ServerOK' /\ Keeps /\ Named' /\ PushedOnce'
    BY PartStored DEF BatchRejected, BatchLost
  <1>2. AfterPush(c) /\ UNCHANGED local
    BY DEF BatchRejected, BatchLost
  <1> QED
    BY <1>1, <1>2, PushStops

\* So is the end of a push.
LEMMA PushEndsSound ==
  ASSUME IInv, NEW c \in Clients, PushEnds(c)
  PROVE  Sound
  <1>1. ServerOK' /\ Keeps /\ Named' /\ PushedOnce'
    BY InvParts, SameServer DEF PushEnds
  <1> QED
    BY <1>1, PushStops DEF PushEnds

\* So is a batch that is answered.
LEMMA BatchAnsweredSound ==
  ASSUME IInv, NEW c \in Clients, BatchAnswered(c)
  PROVE  Sound
  <1> DEFINE Id(e) == CHOOSE s \in DOMAIN server' :
                        server'[s].ext = Ext(c, e) /\ server'[s].status = "active"
  <1>1. PICK chunk \in Chunks(c) :
          /\ Conflicts(c, chunk) = {}
          /\ Store(c, Fresh(c, chunk))
          /\ reply' = [reply EXCEPT ![c] = [e \in Contents |-> IF e \in chunk THEN Id(e) ELSE 0]]
          /\ todo' = [todo EXCEPT ![c] = @ \ chunk]
    BY DEF BatchAnswered
  <1>2. chunk \in SUBSET Contents
    BY InvParts DEF CommandOK, Chunks
  <1>3. Fresh(c, chunk) \in SUBSET (Fresh(c, chunk) \ Conflicts(c, chunk))
    BY <1>1
  <1>4. ServerOK' /\ Keeps /\ Named' /\ PushedOnce'
    BY <1>1, <1>3, PartStored
  <1>5. ASSUME NEW e \in chunk
        PROVE  \E s \in DOMAIN server' : server'[s].ext = Ext(c, e) /\ server'[s].status = "active"
    <2>1. TypeOK /\ Fresh(c, chunk) \in SUBSET Contents
      BY <1>2, InvParts DEF Fresh
    <2>2. CASE e \in Fresh(c, chunk)
      <3>1. PICK s \in SyncIds' \ SyncIds : server'[s].content = e
        BY <1>1, <2>1, <2>2, StoreFacts
      <3>2. server'[s].ext = Ext(c, e) /\ server'[s].status = "active"
        BY <1>1, <2>1, <3>1, StoreFacts
      <3> QED
        BY <3>1, <3>2 DEF SyncIds
    <2>3. CASE e \notin Fresh(c, chunk)
      <3>1. PICK s \in SyncIds : server[s].ext = Ext(c, e) /\ server[s].status = "active"
        BY <2>3 DEF Fresh, LiveId
      <3>2. server'[s] = server[s] /\ s \in SyncIds'
        BY <1>1, <2>1, <1>4, StoreFacts DEF Keeps
      <3> QED
        BY <3>1, <3>2 DEF SyncIds
    <2> QED
      BY <2>2, <2>3
  <1>6. \A e \in chunk : Id(e) \in SyncIds' /\ server'[Id(e)].ext = Ext(c, e)
    BY <1>5 DEF SyncIds
  <1> HIDE DEF Id
  <1>7. \A e \in chunk : server'[Id(e)].content = e
    BY <1>4, <1>6 DEF Named, Ext
  <1> DEFINE ids == [e \in Contents |-> IF e \in chunk THEN Id(e) ELSE 0]
  <1>8. ids \in [Contents -> Ids]
    <2>1. SyncIds' \subseteq Ids /\ 0 \in Ids
      <3>1. SyncIds' = 1 .. Len(server') /\ Len(server') \in Nat /\ Len(server') =< MaxServer
        BY <1>4 DEF ServerOK, SyncIds
      <3> QED
        BY <3>1, ConstantsAssumption DEF Ids
    <2> QED
      BY <2>1, <1>6
  <1>9. \A e \in Contents : ids[e] # 0 => ids[e] \in SyncIds' /\ server'[ids[e]].content = e
    BY <1>6, <1>7
  <1>10. reply' = [reply EXCEPT ![c] = ids]
    BY <1>1
  <1> HIDE DEF ids
  <1>11. CommandOK
    BY InvParts
  <1>12. CommandOK'
    <2>1. /\ pc' = [pc EXCEPT ![c] = "stamp"] /\ todo' = [todo EXCEPT ![c] = @ \ chunk]
          /\ UNCHANGED <<kind, cursor, from, pass, page, full, tombs>>
      BY <1>1 DEF BatchAnswered, Goto
    <2> QED
      BY <2>1, <1>4, <1>8, <1>10, <1>11, PagesGrow DEF CommandOK, Labels
  <1>13. Truthful'
    <2> SUFFICES ASSUME NEW d \in Clients, NEW e \in Contents, reply'[d][e] # 0
                 PROVE  reply'[d][e] \in SyncIds' /\ server'[reply'[d][e]].content = e
      BY DEF Truthful
    <2>1. CASE d = c
      BY <2>1, <1>9, <1>10, <1>11 DEF CommandOK
    <2>2. CASE d # c
      <3>1. reply'[d] = reply[d]
        BY <2>2, <1>10, <1>11 DEF CommandOK
      <3> QED
        BY <3>1, <1>4 DEF IInv, Truthful, Keeps
    <2> QED
      BY <2>1, <2>2
  <1>14. LocalOK' /\ \A d \in Clients : Match(local'[d]) /\ Advances(local[d], local'[d])
    BY SameLocal DEF BatchAnswered
  <1> QED
    BY <1>4, <1>12, <1>13, <1>14, Assembled

\* Rows stamped with the ids they were answered with.
LEMMA StampedStores ==
  ASSUME IInv, NEW c \in Clients, NEW S \in SUBSET Contents, local' = Stamped(c, S)
  PROVE  /\ LocalOK'
         /\ \A d \in Clients : Match(local'[d]) /\ Advances(local[d], local'[d])
  <1> DEFINE rows == [e \in Contents |->
                        IF e \in S THEN SetRemoteId(local[c][e], reply[c][e]) ELSE local[c][e]]
  <1>1. local \in [Clients -> [Contents -> Rows]]
    BY TypeParts DEF IInv, LocalOK
  <1>2. local' = [local EXCEPT ![c] = rows]
    BY <1>1 DEF Stamped
  <1>3. /\ reply[c] \in [Contents -> Ids]
        /\ \A e \in S : reply[c][e] # 0 =>
             reply[c][e] \in SyncIds /\ server[reply[c][e]].content = e
    BY InvParts DEF IInv, CommandOK, Truthful
  <1>4. Match(rows) /\ Advances(local[c], rows)
    BY <1>3, InvParts, Matching, StampFacts
  <1> HIDE DEF rows
  <1> QED
    BY <1>2, <1>4, OneStore

\* So is the stamp of one row.
LEMMA StampSound ==
  ASSUME IInv, NEW c \in Clients, Stamp(c)
  PROVE  Sound
  <1>1. ServerOK' /\ Keeps /\ Named' /\ PushedOnce' /\ SyncIds' = SyncIds
    BY InvParts, SameServer DEF Stamp
  <1>2. CommandOK /\ NoReply \in [Contents -> Ids]
    BY InvParts, ConstantsAssumption DEF NoReply, Ids
  <1>3. CommandOK'
    <2> HIDE DEF NoReply
    <2> QED
      BY <1>1, <1>2 DEF CommandOK, Stamp, Goto, Labels, Pages
  <1>4. Truthful'
    <2>1. \A d \in Clients : reply'[d] \in {reply[d], NoReply}
      BY <1>2 DEF CommandOK, Stamp
    <2> QED
      BY <2>1, <1>1, RepliesKept
  <1>5. LocalOK' /\ \A d \in Clients : Match(local'[d]) /\ Advances(local[d], local'[d])
    <2>1. Answered(c) \in SUBSET Contents
      BY DEF Answered
    <2> QED
      BY <2>1, StampedStores DEF Stamp
  <1> QED
    BY <1>1, <1>3, <1>4, <1>5, Assembled

\* So is a kill between the request and the stamps.
LEMMA KilledPushingSound ==
  ASSUME IInv, NEW c \in Clients, KilledPushing(c)
  PROVE  Sound
  <1>1. ServerOK' /\ Keeps /\ Named' /\ PushedOnce'
    BY InvParts, SameServer DEF KilledPushing
  <1>2. CommandOK' /\ Truthful'
    BY <1>1, ReturnTypes DEF KilledPushing
  <1>3. PICK S \in SUBSET Answered(c) : local' = Stamped(c, S)
    BY DEF KilledPushing
  <1>4. S \in SUBSET Contents
    BY DEF Answered
  <1>5. LocalOK' /\ \A d \in Clients : Match(local'[d]) /\ Advances(local[d], local'[d])
    BY <1>3, <1>4, StampedStores
  <1> QED
    BY <1>1, <1>2, <1>5, Assembled

\* So is a tombstone.
LEMMA TombstoneSound ==
  ASSUME IInv, NEW c \in Clients, Tombstone(c)
  PROVE  Sound
  <1>1. PICK s \in tombs[c] :
          /\ server' = [server EXCEPT ![s].status = IF @ = "active" THEN "archived" ELSE @]
          /\ tombs' = [tombs EXCEPT ![c] = @ \ {s}]
    BY DEF Tombstone
  <1>2. CommandOK /\ s \in SyncIds /\ server \in Seq(Entry) /\ server[s] \in Entry
    BY InvParts, ServerFacts DEF CommandOK, TypeOK
  <1>3. ServerOK' /\ Keeps /\ Named' /\ PushedOnce'
    <2>1. CASE server[s].status = "active"
      <3>1. server' = [server EXCEPT ![s].status = "archived"]
        BY <1>1, <1>2, <2>1
      <3> QED
        BY <3>1, <2>1, <1>2, InvParts, RetireKeeps
    <2>2. CASE server[s].status # "active"
      <3>1. [server[s] EXCEPT !.status = server[s].status] = server[s]
        BY <1>2 DEF Entry
      <3>2. server' = [server EXCEPT ![s] = server[s]]
        BY <1>1, <2>2, <3>1
      <3>3. server' = server
        BY <3>2, <1>2
      <3> QED
        BY <3>3, InvParts, SameServer
    <2> QED
      BY <2>1, <2>2
  <1>4. CommandOK'
    BY <1>1, <1>2, <1>3, PagesGrow DEF CommandOK, Tombstone
  <1>5. Truthful'
    BY <1>3, RepliesKept DEF Tombstone
  <1>6. LocalOK' /\ \A d \in Clients : Match(local'[d]) /\ Advances(local[d], local'[d])
    BY SameLocal DEF Tombstone
  <1> QED
    BY <1>3, <1>4, <1>5, <1>6, Assembled
-----------------------------------------------------------------------------
(* The theorems about every command *)

\* The invariant holds at first.
LEMMA InitSound == ASSUME Init PROVE IInv
  <1>1. SyncIds = {} /\ Len(server) = 0 /\ server \in Seq(Entry)
    BY DEF Init, SyncIds
  <1>2. NoRow \in Rows /\ 0 \in Ids /\ MaxServer \in Nat
    BY RowFacts, ConstantsAssumption DEF Ids
  <1>3. NoPage \in Pages
    BY DEF NoPage, Pages
  <1>4. CommandOK
    BY <1>2, <1>3 DEF Init, CommandOK, Labels, Kinds, NoReply
  <1>5. LocalOK /\ ServerOK
    BY <1>1, <1>2 DEF Init, LocalOK, ServerOK
  <1>6. TypeOK
    BY <1>4, <1>5, TypeParts
  <1>7. Named /\ PushedOnce
    BY <1>1 DEF Named, PushedOnce
  <1>8. Truthful
    BY DEF Init, Truthful, NoReply
  <1>9. StampsMatch
    BY RowFacts DEF Init, StampsMatch
  <1> QED
    BY <1>6, <1>7, <1>8, <1>9 DEF IInv

\* Doing nothing is sound.
LEMMA StutterSound == ASSUME IInv, UNCHANGED vars PROVE Sound
  <1>1. UNCHANGED <<local, server, command>>
    BY DEF vars
  <1>2. ServerOK' /\ Keeps /\ Named' /\ PushedOnce'
    BY <1>1, InvParts, SameServer
  <1>3. CommandOK' /\ Truthful'
    BY <1>1, <1>2, SameCommand
  <1>4. LocalOK' /\ \A d \in Clients : Match(local'[d]) /\ Advances(local[d], local'[d])
    BY <1>1, SameLocal
  <1> QED
    BY <1>2, <1>3, <1>4, Assembled

\* Every step of a command is sound.
LEMMA StepSound == ASSUME IInv, NEW c \in Clients, Step(c) PROVE Sound
  <1>1. CASE PullPage(c)
    BY <1>1, PullPageSound
  <1>2. CASE ApplyEntry(c)
    BY <1>2, ApplyEntrySound
  <1>3. CASE LastPullEnds(c)
    BY <1>3, ReturnSound DEF LastPullEnds
  <1>4. CASE \E include \in Include : ReadRows(c, include)
    BY <1>4, ReadRowsSound
  <1>5. CASE BatchAnswered(c)
    BY <1>5, BatchAnsweredSound
  <1>6. CASE BatchRejected(c)
    BY <1>6, BatchStopsSound
  <1>7. CASE Stamp(c)
    BY <1>7, StampSound
  <1>8. CASE PushEnds(c)
    BY <1>8, PushEndsSound
  <1>9. CASE Tombstone(c)
    BY <1>9, TombstoneSound
  <1>10. CASE TombstoneRefused(c)
    BY <1>10, ReturnSound DEF TombstoneRefused
  <1> QED
    BY <1>1, <1>2, <1>3, <1>4, <1>5, <1>6, <1>7, <1>8, <1>9, <1>10 DEF Step

\* Every step is sound, whichever commands the clients run.
LEMMA AnySound == ASSUME IInv, AnyNext \/ UNCHANGED vars PROVE Sound
  <1>1. CASE UNCHANGED vars
    BY <1>1, StutterSound
  <1>2. CASE LocalUse
    BY <1>2, LocalAddSound, LocalArchiveSound DEF LocalUse
  <1>3. CASE ServerUse
    BY <1>3, ServerRetireSound DEF ServerUse
  <1>4. ASSUME NEW c \in Clients,
               \/ \E k \in {"sync", "push", "pull"} : Start(c, k)
               \/ Step(c) \/ BatchLost(c) \/ FailsEarly(c) \/ LastPullFails(c) \/ KilledPushing(c)
        PROVE  Sound
    <2>1. CASE \E k \in {"sync", "push", "pull"} : Start(c, k)
      BY <2>1, StartSound
    <2>2. CASE Step(c)
      BY <2>2, StepSound
    <2>3. CASE BatchLost(c)
      BY <2>3, BatchStopsSound
    <2>4. CASE FailsEarly(c)
      BY <2>4, ReturnSound DEF FailsEarly
    <2>5. CASE LastPullFails(c)
      BY <2>5, ReturnSound DEF LastPullFails
    <2>6. CASE KilledPushing(c)
      BY <2>6, KilledPushingSound
    <2> QED
      BY <1>4, <2>1, <2>2, <2>3, <2>4, <2>5, <2>6
  <1> QED
    BY <1>1, <1>2, <1>3, <1>4 DEF AnyNext

\* The steps of MemorySync are among them.
LEMMA NextIsAny == Next => AnyNext
  <1>1. \A c \in Clients : Commands[c] \subseteq {"sync", "push", "pull"}
    BY ConstantsAssumption
  <1> QED
    BY <1>1 DEF Next, AnyNext

\* The invariant holds in every state.
LEMMA Invariance == Spec => []IInv
  <1>1. Init => IInv
    BY InitSound
  <1>2. IInv /\ [Next]_vars => IInv'
    BY AnySound, NextIsAny DEF Sound
  <1> QED
    BY <1>1, <1>2, PTL DEF Spec

\* Every variable has its type: no cursor, page or tombstone names an entry the
\* server does not have.
THEOREM SyncTypeCorrect == Spec => []TypeOK
  <1>1. IInv => TypeOK
    BY DEF IInv
  <1> QED
    BY <1>1, Invariance, PTL

\* A remote_id names the server entry with the row's own content, whatever
\* answers are lost, chunks resent or echoes pulled (set_remote_id,
\* apply_remote_note).
THEOREM StampsNameTheirEntry == Spec => []StampsMatch
  <1>1. IInv => StampsMatch
    BY DEF IInv
  <1> QED
    BY <1>1, Invariance, PTL

\* However often a chunk is resent, an external_id has one undeleted entry on
\* the server (find_by_remote_ids and the unique index).
THEOREM PushIsIdempotent == Spec => []PushedOnce
  <1>1. IInv => PushedOnce
    BY DEF IInv
  <1> QED
    BY <1>1, Invariance, PTL

\* No page, answer or stamp un-archives a row of a store (apply_remote_note).
THEOREM ArchivesStay == Spec => NeverUnarchived
  <1>1. IInv /\ [Next]_vars =>
          [\A c \in Clients, e \in Contents :
             local[c][e].status = "archived" => local'[c][e].status = "archived"]_vars
    BY AnySound, NextIsAny DEF Sound, Advances
  <1> QED
    BY <1>1, Invariance, PTL DEF Spec, NeverUnarchived
-----------------------------------------------------------------------------
(* Clients that run spelunk sync: the cursor hides nothing *)

\* Ids a store has are ids of the server.
LEMMA CursorBounded ==
  ASSUME IInv, NEW c \in Clients
  PROVE  /\ MaxRemoteId(c) \in Nat /\ MaxRemoteId(c) =< Len(server) /\ Len(server) \in Nat
         /\ \A e \in Contents : local[c][e].rid =< MaxRemoteId(c)
  <1>1. local[c] \in [Contents -> Rows] /\ Match(local[c])
    BY Matching DEF Match
  <1>2. SyncIds = 1 .. Len(server) /\ Len(server) \in Nat
    BY InvParts, ServerFacts
  <1>3. MaxRemoteId(c) \in {local[c][e].rid : e \in Contents} \cup {0}
    BY <1>1, MaxRemoteIdFacts DEF MaxRemoteId
  <1>4. \A e \in Contents : local[c][e].rid = 0 \/ local[c][e].rid \in 1 .. Len(server)
    BY <1>1, <1>2 DEF Match
  <1> HIDE DEF MaxRemoteId
  <1>5. MaxRemoteId(c) = 0 \/ MaxRemoteId(c) \in 1 .. Len(server)
    BY <1>3, <1>4
  <1> QED
    BY <1>2, <1>5, CursorFacts

\* Nothing becomes unseen but what is new on the server.
LEMMA UnseenShrinks ==
  ASSUME IInv, Sound, NEW c \in Clients, NEW s \in Unseen(c)'
  PROVE  s \in Unseen(c) \/ s > Len(server)
  <1>1. s \in SyncIds' /\ server'[s].status = "active" /\ local'[c][server'[s].content] = NoRow
    BY DEF Unseen
  <1>2. CASE s \notin SyncIds
    BY <1>1, <1>2 DEF Sound, Keeps
  <1>3. CASE s \in SyncIds
    <2>1. server[s].status = "active" /\ server'[s].content = server[s].content
      BY <1>1, <1>3 DEF Sound, Keeps
    <2>2. server[s].content \in Contents
      BY <1>3, InvParts, ServerFacts DEF Entry
    <2>3. local[c][server[s].content] = NoRow
      BY <1>1, <2>1, <2>2 DEF Sound, Advances
    <2> QED
      BY <1>3, <2>1, <2>3 DEF Unseen
  <1> QED
    BY <1>2, <1>3

\* A sound step never shortens the server's log.
LEMMA ServerGrows == ASSUME IInv, Sound PROVE Len(server) =< Len(server') /\ Len(server') \in Nat
  <1>1. SyncIds = 1 .. Len(server) /\ Len(server) \in Nat
    BY InvParts, ServerFacts
  <1>2. server' \in Seq(Entry)
    BY DEF Sound, IInv, TypeOK
  <1>3. SyncIds' = 1 .. Len(server') /\ Len(server') \in Nat
    BY <1>2 DEF SyncIds
  <1>4. SyncIds \subseteq SyncIds'
    BY DEF Sound, Keeps
  <1> QED
    BY <1>1, <1>3, <1>4

\* Where the numbers a command compares come from.
LEMMA RoundNumbers ==
  ASSUME IInv, NEW c \in Clients
  PROVE  /\ Unseen(c) \subseteq 1 .. Len(server)
         /\ DOMAIN page[c] \subseteq 1 .. Len(server)
         /\ cursor[c] \in Nat /\ from[c] \in Nat
  <1>1. SyncIds = 1 .. Len(server) /\ CommandOK
    BY InvParts, ServerFacts
  <1>2. DOMAIN page[c] \subseteq SyncIds
    BY <1>1 DEF CommandOK, Pages
  <1> QED
    BY <1>1, <1>2 DEF CommandOK, Ids, Unseen

\* A step that leaves a client's command and its ids alone.
LEMMA RoundUnchanged ==
  ASSUME IInv, Sound, NEW c \in Clients, Round(c),
         pc'[c] = pc[c], kind'[c] = kind[c], cursor'[c] = cursor[c], from'[c] = from[c],
         pass'[c] = pass[c], page'[c] = page[c], full'[c] = full[c],
         CloudApi \/ tombs'[c] = {},
         \A e \in Contents : local'[c][e].rid = local[c][e].rid
  PROVE  Round(c)'
  <1>1. MaxRemoteId(c)' = MaxRemoteId(c)
    <2>1. {local'[c][e].rid : e \in Contents} = {local[c][e].rid : e \in Contents}
      OBVIOUS
    <2> QED
      BY <2>1 DEF MaxRemoteId
  <1>2. /\ MaxRemoteId(c) \in Nat /\ MaxRemoteId(c) =< Len(server) /\ Len(server) \in Nat
        /\ DOMAIN page[c] \subseteq 1 .. Len(server)
        /\ cursor[c] \in Nat /\ from[c] \in Nat
        /\ Len(server) =< Len(server') /\ Len(server') \in Nat
    BY CursorBounded, RoundNumbers, ServerGrows
  <1>3. \A s \in Unseen(c)' : s \in Nat /\ (s \in Unseen(c) \/ s > Len(server))
    <2>1. Unseen(c)' \subseteq 1 .. Len(server')
      <3>1. SyncIds' = 1 .. Len(server')
        BY DEF Sound, IInv, TypeOK, SyncIds
      <3> QED
        BY <3>1 DEF Unseen
    <2> QED
      BY <2>1, <1>2, UnseenShrinks
  <1> DEFINE new == Unseen(c)'
             m == MaxRemoteId(c)'
  <1> HIDE DEF new, m
  <1>4. Phased(c)'
    BY <1>2 DEF Round, Phased
  <1>5. Ordered(c)'
    <2>1. (pass[c] = 1 /\ pc[c] \notin {"push", "stamp"}) => \A s \in new : s > m
      <3> HIDE DEF MaxRemoteId, Unseen
      <3> QED
        BY <1>1, <1>2, <1>3 DEF Round, Ordered, new, m
    <2>2. (pass[c] = 1 /\ pc[c] # "idle") => \A s \in new : s > cursor[c]
      <3> HIDE DEF MaxRemoteId, Unseen
      <3> QED
        BY <1>2, <1>3 DEF Round, Phased, Ordered, new
    <2> QED
      BY <2>1, <2>2 DEF Ordered, new, m
  <1>6. Closing(c)'
    <2>1. pc[c] = "pull" => \A s \in new : s > from[c]
      BY <1>2, <1>3 DEF Round, Phased, Closing, new
    <2>2. pc[c] = "apply" =>
            \A s \in new \ DOMAIN page[c] :
              /\ \A t \in DOMAIN page[c] : s > t
              /\ IF full[c] THEN s > from[c] ELSE s > m
      <3> SUFFICES ASSUME pc[c] = "apply", NEW s \in new \ DOMAIN page[c]
                   PROVE  /\ \A t \in DOMAIN page[c] : s > t
                          /\ IF full[c] THEN s > from[c] ELSE s > m
        OBVIOUS
      <3>1. CASE s \in Unseen(c)
        BY <3>1, <1>1 DEF Round, Closing, m
      <3>2. CASE s > Len(server)
        <4>1. s \in Nat
          BY <1>3 DEF new
        <4>2. m = MaxRemoteId(c)
          BY <1>1 DEF m
        <4> HIDE DEF MaxRemoteId
        <4> QED
          BY <3>2, <4>1, <4>2, <1>2 DEF Round, Phased
      <3> QED
        BY <3>1, <3>2, <1>3 DEF new
    <2>3. (pc[c] = "apply" /\ full[c]) => \A t \in DOMAIN page[c] : t =< from[c]
      BY DEF Round, Closing
    <2> QED
      BY <2>1, <2>2, <2>3 DEF Closing, new, m
  <1> QED
    BY <1>4, <1>5, <1>6 DEF Round

\* The commands of the clients a step is not about.
LEMMA OthersUnchanged ==
  ASSUME IInv, Sound, NEW c \in Clients, Round(c), local'[c] = local[c],
         pc'[c] = pc[c], kind'[c] = kind[c], cursor'[c] = cursor[c], from'[c] = from[c],
         pass'[c] = pass[c], page'[c] = page[c], full'[c] = full[c], tombs'[c] = tombs[c]
  PROVE  Round(c)'
  <1>1. CloudApi \/ tombs'[c] = {}
    BY DEF Round, Phased
  <1> QED
    BY <1>1, RoundUnchanged

\* A command that returns with everything below the store's ids seen.
LEMMA ReturnRound ==
  ASSUME IInv, Sound, NEW c \in Clients, Return(c), local' = local, server' = server,
         \A s \in Unseen(c) : s > MaxRemoteId(c)
  PROVE  Round(c)'
  <1>1. /\ pc'[c] = "idle" /\ cursor'[c] = 0 /\ from'[c] = 0 /\ pass'[c] = 1 /\ tombs'[c] = {}
    BY InvParts DEF CommandOK, Return
  <1>2. Unseen(c)' = Unseen(c) /\ MaxRemoteId(c)' = MaxRemoteId(c)
    BY DEF Unseen, MaxRemoteId, SyncIds
  <1>3. Len(server') \in Nat
    BY ServerGrows
  <1>4. Phased(c)'
    BY <1>1, <1>3 DEF Phased
  <1>5. Ordered(c)'
    <2> HIDE DEF Unseen, MaxRemoteId
    <2> QED
      BY <1>1, <1>2 DEF Ordered
  <1>6. Closing(c)'
    BY <1>1 DEF Closing
  <1> QED
    BY <1>4, <1>5, <1>6 DEF Round
\* A sync that starts begins a round.
LEMMA StartRound ==
  ASSUME IInv, Sound, NEW c \in Clients, Round(c), Start(c, "sync")
  PROVE  Round(c)'
  <1> DEFINE m == MaxRemoteId(c)
             pulls == m # 0
  <1>1. /\ pc[c] = "idle" /\ pass'[c] = 1 /\ kind'[c] = "sync" /\ cursor'[c] = m
        /\ from'[c] = IF pulls THEN m ELSE 0
        /\ pc'[c] = IF pulls THEN "pull" ELSE "rows"
        /\ tombs'[c] = tombs[c]
    BY InvParts DEF CommandOK, Start, Goto
  <1>2. Unseen(c)' = Unseen(c) /\ MaxRemoteId(c)' = m
    BY DEF Start, Unseen, MaxRemoteId, SyncIds
  <1>3. m \in Nat /\ m =< Len(server')
    <2>1. server' = server
      BY DEF Start
    <2> QED
      BY <2>1, CursorBounded
  <1>4. \A s \in Unseen(c) : s > m
    BY <1>1 DEF Round, Phased, Ordered
  <1> HIDE DEF m
  <1>5. Phased(c)'
    BY <1>1, <1>3, ServerGrows DEF Round, Phased
  <1>6. Ordered(c)'
    <2> HIDE DEF Unseen, MaxRemoteId
    <2> QED
      BY <1>1, <1>2, <1>4 DEF Ordered
  <1>7. Closing(c)'
    <2>1. pc'[c] = "pull" => from'[c] = m
      BY <1>1
    <2> HIDE DEF Unseen, MaxRemoteId
    <2> QED
      BY <1>1, <1>2, <1>4, <2>1 DEF Closing
  <1> QED
    BY <1>5, <1>6, <1>7 DEF Round

\* A page that is fetched keeps the round's account.
LEMMA PullPageRound ==
  ASSUME IInv, Sound, NEW c \in Clients, Round(c), PullPage(c)
  PROVE  Round(c)'
  <1> DEFINE hits == PageOf(from[c])
             P == DOMAIN hits
             more == Cardinality(P) = PageSize
             U == Unseen(c)
             m == MaxRemoteId(c)
  <1>1. /\ pc[c] = "pull" \/ (pc[c] = "apply" /\ page[c] = NoPage /\ full[c])
        /\ pc'[c] = "apply" /\ page'[c] = hits /\ full'[c] = more
        /\ from'[c] = IF more THEN Max(P) ELSE 0
        /\ pass'[c] = pass[c] /\ kind'[c] = kind[c] /\ cursor'[c] = cursor[c] /\ tombs'[c] = tombs[c]
    BY InvParts DEF CommandOK, PullPage, PageApplied, Goto
  <1>2. Unseen(c)' = U /\ MaxRemoteId(c)' = m /\ Len(server') = Len(server)
    BY DEF PullPage, Unseen, MaxRemoteId, SyncIds
  <1>3. \A s \in U : s > from[c]
    <2>1. CASE pc[c] = "pull"
      BY <2>1 DEF Round, Closing
    <2>2. CASE pc[c] = "apply" /\ page[c] = NoPage /\ full[c]
      <3>1. DOMAIN page[c] = {}
        BY <2>2 DEF NoPage
      <3> HIDE DEF NoPage
      <3> QED
        BY <2>2, <3>1 DEF Round, Closing
    <2> QED
      BY <1>1, <2>1, <2>2
  <1>4. U \subseteq Hits(from[c])
    BY <1>3 DEF Unseen, Hits, InFeed
  <1>5. /\ \A s \in U \ P : \A t \in P : s > t
        /\ ~more => U \ P = {}
    BY <1>4, InvParts, PageFacts DEF CommandOK
  <1>6. /\ P \subseteq 1 .. Len(server) /\ Len(server) \in Nat
        /\ more => Max(P) \in P /\ \A t \in P : t =< Max(P)
    BY InvParts, ServerFacts, PageTypes
  <1> HIDE DEF hits, P, U, m
  <1>7. Phased(c)'
    <2>1. from'[c] =< Len(server)
      <3>1. CASE more
        <4>1. from'[c] = Max(P) /\ Max(P) \in 1 .. Len(server)
          BY <1>1, <1>6, <3>1
        <4> QED
          BY <4>1, <1>6
      <3>2. CASE ~more
        BY <1>1, <1>6, <3>2
      <3> QED
        BY <3>1, <3>2
    <2> QED
      BY <2>1, <1>1, <1>2 DEF Round, Phased
  <1>8. Ordered(c)'
    <2>1. pc[c] \in {"pull", "apply"}
      BY <1>1
    <2>2. /\ pass[c] = 1 => \A s \in U : s > m
          /\ pass[c] = 1 => \A s \in U : s > cursor[c]
      BY <2>1 DEF Round, Ordered, U, m
    <2> HIDE DEF Unseen, MaxRemoteId
    <2> QED
      BY <1>1, <1>2, <2>2 DEF Ordered
  <1>9. Closing(c)'
    <2>1. \A s \in U \ P : IF more THEN s > Max(P) ELSE s > m
      BY <1>5, <1>6
    <2>2. DOMAIN page'[c] = P
      BY <1>1 DEF P
    <2> HIDE DEF Unseen, MaxRemoteId
    <2> QED
      BY <1>1, <1>2, <1>5, <1>6, <2>1, <2>2 DEF Closing
  <1> QED
    BY <1>7, <1>8, <1>9 DEF Round

\* So does an entry that is applied.
LEMMA ApplyEntryRound ==
  ASSUME IInv, Sound, NEW c \in Clients, Round(c), ApplyEntry(c)
  PROVE  Round(c)'
  <1> DEFINE s == Min(DOMAIN page[c])
             e == server[s].content
             P == DOMAIN page[c]
             U == Unseen(c)
             new == Unseen(c)'
             m == MaxRemoteId(c)
             n == MaxRemoteId(c)'
  <1>1. s \in P /\ s \in SyncIds /\ page[c][s] \in BOOLEAN /\ \A t \in P : s =< t
    BY NextEntry DEF ApplyEntry
  <1>2. local'[c] = ApplyRemote(local[c], s, e, page[c][s]) /\ server' = server
    <2>1. local \in [Clients -> [Contents -> Rows]]
      BY TypeParts DEF IInv, LocalOK
    <2> QED
      BY <2>1 DEF ApplyEntry
  <1>3. /\ pc[c] = "apply" /\ pc'[c] = "apply" /\ DOMAIN page'[c] = P \ {s} /\ full'[c] = full[c]
        /\ from'[c] = from[c] /\ pass'[c] = pass[c] /\ kind'[c] = kind[c]
        /\ cursor'[c] = cursor[c] /\ tombs'[c] = tombs[c]
    BY InvParts DEF CommandOK, ApplyEntry, Restrict
  <1>4. /\ e \in Contents /\ local'[c][e] # NoRow
        /\ \A f \in Contents : local'[c][f].rid \in {local[c][f].rid, s}
    BY <1>1, <1>2, InvParts, Matching, ApplyFacts
  <1>5. /\ U \subseteq 1 .. Len(server) /\ P \subseteq 1 .. Len(server)
        /\ m \in Nat /\ Len(server) \in Nat /\ s \in Nat /\ from[c] \in Nat
    BY <1>1, RoundNumbers, CursorBounded, InvParts, ServerFacts
  <1>6. n \in Nat /\ n \in {m, s} \cup {local[c][f].rid : f \in Contents}
    <2>1. local'[c] \in [Contents -> Rows]
      BY TypeParts DEF Sound, IInv, TypeOK, Rows
    <2>2. n \in {local'[c][f].rid : f \in Contents} \cup {0} /\ n \in Ids
      BY <2>1, MaxRemoteIdFacts DEF MaxRemoteId
    <2>3. n = 0 \/ n = s \/ \E f \in Contents : n = local[c][f].rid
      <3> HIDE DEF n, s
      <3> QED
        BY <2>2, <1>4
    <2>4. m \in {local[c][f].rid : f \in Contents} \cup {0}
      BY Matching, MaxRemoteIdFacts DEF MaxRemoteId, Match
    <2>5. n = 0 => n \in {m} \cup {local[c][f].rid : f \in Contents}
      <3> SUFFICES ASSUME n = 0, m # 0 PROVE FALSE
        <4> HIDE DEF n, m
        <4> QED
          BY <2>4
      <3>1. PICK f \in Contents : m = local[c][f].rid
        <4> HIDE DEF m, n
        <4> QED
          BY <2>4
      <3>2. local'[c][f].rid =< n
        BY <2>1, MaxRemoteIdFacts DEF MaxRemoteId
      <3> HIDE DEF m, n, s
      <3>3. local'[c][f].rid = 0
        BY <3>2, <2>1 DEF Rows, Ids
      <3>4. m = 0 \/ s = 0
        BY <3>1, <3>3, <1>4
      <3> QED
        BY <3>4, <1>1, InvParts, ServerFacts
    <2> HIDE DEF n, s, m
    <2> QED
      BY <2>2, <2>3, <2>5 DEF Ids
  <1>7. n =< m \/ n = s
    <2>1. \A f \in Contents : local[c][f].rid =< m
      BY CursorBounded
    <2> HIDE DEF n, m, s
    <2> QED
      BY <1>5, <1>6, <2>1
  <1>8. \A u \in new : u \in U /\ u # s
    <2> SUFFICES ASSUME NEW u \in new PROVE u \in U /\ u # s
      OBVIOUS
    <2>1. u \in SyncIds' /\ local'[c][server'[u].content] = NoRow
      BY DEF Unseen
    <2>2. u # s
      BY <2>1, <1>2, <1>4
    <2>3. u =< Len(server)
      BY <2>1, <1>2, InvParts, ServerFacts DEF SyncIds
    <2>4. u \in U \/ u > Len(server)
      BY UnseenShrinks
    <2>5. u \in Nat
      BY <2>1, <1>2, InvParts, ServerFacts DEF SyncIds
    <2> HIDE DEF U, s
    <2> QED
      BY <2>2, <2>3, <2>4, <2>5, <1>5
  <1> HIDE DEF s, e, P, U, new, n, m
  <1>9. \A u \in new : u > s
    <2> SUFFICES ASSUME NEW u \in new PROVE u > s
      OBVIOUS
    <2>1. u \in U /\ u # s /\ u \in Nat
      <3>1. u \in U /\ u # s
        BY <1>8
      <3> QED
        BY <3>1, <1>5
    <2>2. CASE u \in P
      BY <2>1, <2>2, <1>1, <1>5
    <2>3. CASE u \notin P
      BY <2>1, <2>3, <1>1, <1>3 DEF Round, Closing, P, U
    <2> QED
      BY <2>2, <2>3
  <1>10. Phased(c)'
    BY <1>2, <1>3 DEF Round, Phased
  <1>11. Ordered(c)'
    <2>1. pass[c] = 1 => \A u \in new : u > n /\ u > cursor[c]
      <3> SUFFICES ASSUME pass[c] = 1, NEW u \in new PROVE u > n /\ u > cursor[c]
        OBVIOUS
      <3>1. u \in U /\ u > s /\ u \in Nat
        <4>1. u \in U /\ u > s
          BY <1>8, <1>9
        <4> QED
          BY <4>1, <1>5
      <3>2. u > m /\ u > cursor[c]
        BY <3>1, <1>3 DEF Round, Ordered, U, m
      <3> QED
        BY <3>1, <3>2, <1>5, <1>6, <1>7
    <2> HIDE DEF Unseen, MaxRemoteId
    <2> QED
      BY <2>1, <1>3 DEF Ordered, new, n
  <1>12. Closing(c)'
    <2>1. \A u \in new \ (P \ {s}) :
            /\ \A t \in P \ {s} : u > t
            /\ IF full[c] THEN u > from[c] ELSE u > n
      <3> SUFFICES ASSUME NEW u \in new \ (P \ {s})
                   PROVE  /\ \A t \in P \ {s} : u > t
                          /\ IF full[c] THEN u > from[c] ELSE u > n
        OBVIOUS
      <3>1. u \in U \ P /\ u > s /\ u \in Nat
        <4>1. u \in U /\ u # s /\ u > s /\ u \notin P
          BY <1>8, <1>9
        <4> QED
          BY <4>1, <1>5
      <3>2. /\ \A t \in P : u > t
            /\ IF full[c] THEN u > from[c] ELSE u > m
        BY <3>1, <1>3 DEF Round, Closing, P, U, m
      <3>3. ~full[c] => u > n
        <4>1. u \in Nat /\ n \in Nat /\ m \in Nat /\ (n =< m \/ n = s) /\ u > s
          BY <3>1, <1>5, <1>6, <1>7
        <4> QED
          BY <3>2, <4>1
      <3> QED
        BY <3>2, <3>3
    <2>2. full[c] => \A t \in P \ {s} : t =< from[c]
      BY <1>3 DEF Round, Closing, P
    <2> HIDE DEF Unseen, MaxRemoteId
    <2> QED
      BY <2>1, <2>2, <1>3 DEF Closing, new, n
  <1> QED
    BY <1>10, <1>11, <1>12 DEF Round
\* What was unseen above the command's cursor, or is new, still is above it.
LEMMA AboveCursor ==
  ASSUME IInv, Sound, NEW c \in Clients, Round(c), pass[c] = 1, pc[c] # "idle"
  PROVE  \A s \in Unseen(c)' : s > cursor[c]
  <1> SUFFICES ASSUME NEW s \in Unseen(c)' PROVE s > cursor[c]
    OBVIOUS
  <1>1. s \in Nat
    <2>1. SyncIds' = 1 .. Len(server')
      BY DEF Sound, IInv, TypeOK, SyncIds
    <2> QED
      BY <2>1, ServerGrows DEF Unseen
  <1>2. CASE s \in Unseen(c)
    BY <1>2 DEF Round, Ordered
  <1>3. CASE s > Len(server)
    <2>1. cursor[c] =< Len(server) /\ cursor[c] \in Nat /\ Len(server) \in Nat
      BY RoundNumbers, CursorBounded DEF Round, Phased
    <2> QED
      BY <1>1, <1>3, <2>1
  <1> QED
    BY <1>2, <1>3, UnseenShrinks

\* A round that goes on pushing.
LEMMA PushRound ==
  ASSUME IInv, Sound, NEW c \in Clients, Round(c), pass[c] = 1, pc[c] # "idle",
         pc'[c] \in {"push", "stamp"}, CloudApi \/ tombs'[c] = {},
         kind'[c] = kind[c], cursor'[c] = cursor[c], from'[c] = from[c], pass'[c] = pass[c]
  PROVE  Round(c)'
  <1>1. cursor[c] \in Nat /\ from[c] \in Nat /\ Len(server) \in Nat
        /\ Len(server) =< Len(server') /\ Len(server') \in Nat
    BY RoundNumbers, CursorBounded, ServerGrows
  <1>2. Phased(c)'
    BY <1>1 DEF Round, Phased
  <1>3. \A s \in Unseen(c)' : s > cursor'[c]
    BY AboveCursor
  <1>4. Ordered(c)' /\ Closing(c)'
    <2> DEFINE U == Unseen(c)
    <2> HIDE DEF U
    <2>1. \A s \in U' : s > cursor'[c]
      BY <1>3 DEF U
    <2> QED
      BY <1>3 DEF Ordered, Closing
  <1> QED
    BY <1>2, <1>4 DEF Round

\* A push that is over: its round pulls again from where it started.
LEMMA AfterPushRound ==
  ASSUME IInv, Sound, NEW c \in Clients, Round(c), pc[c] = "push", AfterPush(c)
  PROVE  Round(c)'
  <1>1. kind[c] = "sync" /\ pass[c] = 1
    BY DEF Round, Phased
  <1>2. /\ pc'[c] = "pull" /\ from'[c] = cursor[c] /\ pass'[c] = 2 /\ tombs'[c] = {}
        /\ kind'[c] = "sync" /\ cursor'[c] = cursor[c]
    BY <1>1, InvParts DEF CommandOK, AfterPush, Goto
  <1>3. cursor[c] \in Nat /\ Len(server) \in Nat
        /\ Len(server) =< Len(server') /\ Len(server') \in Nat
    BY RoundNumbers, CursorBounded, ServerGrows
  <1>4. \A s \in Unseen(c)' : s > from'[c]
    BY <1>1, <1>2, AboveCursor
  <1>5. Phased(c)'
    BY <1>2, <1>3 DEF Round, Phased
  <1>6. Ordered(c)'
    BY <1>2 DEF Ordered
  <1>7. Closing(c)'
    BY <1>2, <1>4 DEF Closing
  <1> QED
    BY <1>5, <1>6, <1>7 DEF Round

\* The step of a round, of the client that takes it.
LEMMA OwnRound ==
  ASSUME IInv, Sound, NEW c \in Clients, Round(c), CloudApi \/ TRUE \notin Include,
         Start(c, "sync") \/ Step(c) \/ BatchLost(c) \/ FailsEarly(c)
  PROVE  Round(c)'
  <1>1. CASE Start(c, "sync")
    BY <1>1, StartRound
  <1>2. CASE PullPage(c)
    BY <1>2, PullPageRound
  <1>3. CASE ApplyEntry(c)
    BY <1>3, ApplyEntryRound
  <1>4. CASE LastPullEnds(c)
    <2>1. pc[c] = "apply" /\ page[c] = NoPage /\ ~full[c]
      BY <1>4 DEF LastPullEnds, PullOver, PageApplied
    <2>2. DOMAIN page[c] = {}
      BY <2>1 DEF NoPage
    <2>3. \A s \in Unseen(c) : s > MaxRemoteId(c)
      <3> HIDE DEF Unseen, MaxRemoteId
      <3> QED
        BY <2>1, <2>2 DEF Round, Closing
    <2> QED
      BY <1>4, <2>3, ReturnRound DEF LastPullEnds
  <1>5. CASE \E include \in Include : ReadRows(c, include)
    <2>1. PICK include \in Include : ReadRows(c, include)
      BY <1>5
    <2>2. /\ pc'[c] = "push" /\ tombs'[c] = IF include THEN Tombstones(c) ELSE {}
          /\ kind'[c] = kind[c] /\ cursor'[c] = cursor[c] /\ from'[c] = from[c] /\ pass'[c] = pass[c]
      BY <2>1, InvParts DEF CommandOK, ReadRows, Goto
    <2>3. pc[c] # "idle" /\ pass[c] = 1
      BY <2>1 DEF ReadRows, PullOver, PageApplied, Round, Phased
    <2>4. include => CloudApi
      BY ConstantsAssumption
    <2>5. CloudApi \/ tombs'[c] = {}
      BY <2>2, <2>4
    <2> QED
      BY <2>2, <2>3, <2>5, PushRound
  <1>6. CASE BatchAnswered(c) \/ Stamp(c) \/ Tombstone(c)
    <2>1. pc[c] \in {"push", "stamp"} /\ pass[c] = 1
      BY <1>6 DEF BatchAnswered, Stamp, Tombstone, Round, Phased
    <2>2. /\ pc'[c] \in {"push", "stamp"}
          /\ kind'[c] = kind[c] /\ cursor'[c] = cursor[c] /\ from'[c] = from[c] /\ pass'[c] = pass[c]
      BY <1>6, InvParts DEF CommandOK, BatchAnswered, Stamp, Tombstone, Goto
    <2>3. CloudApi \/ tombs'[c] = {}
      BY <1>6 DEF BatchAnswered, Stamp, Tombstone, Round, Phased
    <2> QED
      BY <2>1, <2>2, <2>3, PushRound
  <1>7. CASE BatchRejected(c) \/ BatchLost(c) \/ PushEnds(c)
    <2>1. pc[c] = "push" /\ AfterPush(c)
      BY <1>7 DEF BatchRejected, BatchLost, PushEnds
    <2> QED
      BY <2>1, AfterPushRound
  <1>8. CASE TombstoneRefused(c)
    BY <1>8 DEF TombstoneRefused, Round, Phased
  <1>9. CASE FailsEarly(c)
    <2>1. \A s \in Unseen(c) : s > MaxRemoteId(c)
      <3> HIDE DEF Unseen, MaxRemoteId
      <3> QED
        BY <1>9 DEF FailsEarly, Round, Ordered
    <2> QED
      BY <1>9, <2>1, ReturnRound DEF FailsEarly
  <1> QED
    BY <1>1, <1>2, <1>3, <1>4, <1>5, <1>6, <1>7, <1>8, <1>9 DEF Step

\* A client's step leaves the others' stores and commands alone.
Untouched(d) ==
  /\ local'[d] = local[d] /\ pc'[d] = pc[d] /\ kind'[d] = kind[d] /\ cursor'[d] = cursor[d]
  /\ from'[d] = from[d] /\ pass'[d] = pass[d] /\ page'[d] = page[d] /\ full'[d] = full[d]
  /\ tombs'[d] = tombs[d]

LEMMA StepLeavesOthers ==
  ASSUME IInv, NEW c \in Clients, NEW d \in Clients, d # c,
         Start(c, "sync") \/ Step(c) \/ BatchLost(c) \/ FailsEarly(c)
  PROVE  Untouched(d)
  <1>1. CommandOK /\ local \in [Clients -> [Contents -> Rows]]
    BY TypeParts DEF IInv, LocalOK
  <1>2. Return(c) /\ local' = local => Untouched(d)
    BY <1>1 DEF CommandOK, Return, Untouched
  <1>3. AfterPush(c) /\ local' = local => Untouched(d)
    <2>1. CASE kind[c] = "sync"
      BY <1>1, <2>1 DEF CommandOK, AfterPush, Goto, Untouched
    <2>2. CASE kind[c] # "sync"
      BY <1>2, <2>2 DEF AfterPush
    <2> QED
      BY <2>1, <2>2
  <1>4. CASE Start(c, "sync")
    BY <1>1, <1>4 DEF CommandOK, Start, Goto, Untouched
  <1>5. CASE PullPage(c)
    BY <1>1, <1>5 DEF CommandOK, PullPage, Goto, Untouched
  <1>6. CASE ApplyEntry(c)
    BY <1>1, <1>6 DEF CommandOK, ApplyEntry, Untouched
  <1>7. CASE LastPullEnds(c) \/ TombstoneRefused(c) \/ FailsEarly(c)
    BY <1>2, <1>7 DEF LastPullEnds, TombstoneRefused, FailsEarly
  <1>8. CASE \E include \in Include : ReadRows(c, include)
    BY <1>1, <1>8 DEF CommandOK, ReadRows, Goto, Untouched
  <1>9. CASE BatchAnswered(c)
    BY <1>1, <1>9 DEF CommandOK, BatchAnswered, Goto, Untouched
  <1>10. CASE Stamp(c)
    BY <1>1, <1>10 DEF CommandOK, Stamp, Stamped, Goto, Untouched
  <1>11. CASE Tombstone(c)
    BY <1>1, <1>11 DEF CommandOK, Tombstone, Untouched
  <1>12. CASE BatchRejected(c) \/ BatchLost(c) \/ PushEnds(c)
    BY <1>3, <1>12 DEF BatchRejected, BatchLost, PushEnds
  <1> QED
    BY <1>4, <1>5, <1>6, <1>7, <1>8, <1>9, <1>10, <1>11, <1>12 DEF Step

\* A row that is added or archived keeps its ids.
LEMMA LocalUseRound ==
  ASSUME IInv, Sound, Gapless, LocalUse, NEW d \in Clients
  PROVE  Round(d)'
  <1>1. PICK c \in Clients, e \in Contents : LocalAdd(c, e) \/ LocalArchive(c, e)
    BY DEF LocalUse
  <1>2. local \in [Clients -> [Contents -> Rows]] /\ UNCHANGED command
    BY <1>1, TypeParts DEF IInv, LocalOK, LocalAdd, LocalArchive
  <1>3. \A f \in Contents : local'[d][f].rid = local[d][f].rid
    <2>1. CASE LocalAdd(c, e)
      <3>1. \A f \in Contents :
              local'[d][f] = IF d = c /\ f = e THEN Row("active", 0) ELSE local[d][f]
        BY <1>2, <2>1 DEF LocalAdd
      <3>2. local[c][e].rid = 0 /\ Row("active", 0).rid = 0
        BY <2>1, RowFacts DEF LocalAdd, Row
      <3> QED
        BY <3>1, <3>2
    <2>2. CASE LocalArchive(c, e)
      <3> DEFINE r == [local[c][e] EXCEPT !.status = "archived"]
      <3>1. \A f \in Contents : local'[d][f] = IF d = c /\ f = e THEN r ELSE local[d][f]
        BY <1>2, <2>2 DEF LocalArchive
      <3>2. r.rid = local[c][e].rid
        BY <1>2 DEF Rows
      <3> QED
        BY <3>1, <3>2
    <2> QED
      BY <1>1, <2>1, <2>2
  <1>4. Round(d) /\ (CloudApi \/ tombs'[d] = {})
    BY <1>2 DEF Gapless, Round, Phased, command
  <1> QED
    BY <1>2, <1>3, <1>4, RoundUnchanged DEF command

\* Every step keeps all rounds' accounts.
LEMMA GaplessStep ==
  ASSUME IInv, Sound, Gapless, CloudApi \/ TRUE \notin Include, [RoundNext]_vars
  PROVE  Gapless'
  <1> SUFFICES ASSUME NEW d \in Clients PROVE Round(d)'
    BY DEF Gapless
  <1>1. Round(d)
    BY DEF Gapless
  <1>2. CASE UNCHANGED vars
    <2>1. UNCHANGED <<local, pc, kind, cursor, from, pass, page, full, tombs>>
      BY <1>2 DEF vars, command
    <2> QED
      BY <1>1, <2>1, OthersUnchanged
  <1>3. CASE LocalUse
    BY <1>3, LocalUseRound
  <1>4. ASSUME NEW c \in Clients, Start(c, "sync") \/ Step(c) \/ BatchLost(c) \/ FailsEarly(c)
        PROVE  Round(d)'
    <2>1. CASE c = d
      BY <1>1, <1>4, <2>1, OwnRound
    <2>2. CASE c # d
      <3>1. Untouched(d)
        BY <1>4, <2>2, StepLeavesOthers
      <3> QED
        BY <1>1, <3>1, OthersUnchanged DEF Untouched
    <2> QED
      BY <2>1, <2>2
  <1> QED
    BY <1>2, <1>3, <1>4 DEF RoundNext, CalmNext

\* At first nobody lacks anything.
LEMMA GaplessInit == ASSUME Init PROVE Gapless
  <1> SUFFICES ASSUME NEW c \in Clients PROVE Round(c)
    BY DEF Gapless
  <1>1. SyncIds = {} /\ Len(server) = 0
    BY DEF Init, SyncIds
  <1>2. Unseen(c) = {}
    BY <1>1 DEF Unseen
  <1>3. /\ pc[c] = "idle" /\ pass[c] = 1 /\ tombs[c] = {} /\ cursor[c] = 0 /\ from[c] = 0
    BY DEF Init
  <1>4. Phased(c)
    BY <1>1, <1>3 DEF Phased
  <1>5. Ordered(c) /\ Closing(c)
    <2> HIDE DEF Unseen, MaxRemoteId
    <2> QED
      BY <1>2, <1>3 DEF Ordered, Closing
  <1> QED
    BY <1>4, <1>5 DEF Round

\* The steps of rounds are steps.
LEMMA RoundIsAny == RoundNext => AnyNext
  BY DEF RoundNext, CalmNext, AnyNext

\* Clients that run spelunk sync never derive a cursor past an entry they do not
\* have, however their pushes and first pulls fail: sync_round pulls again from
\* the cursor it started with before the ids it stamped become that cursor.  It
\* takes a server that accepts the tombstones of --include-archived, or clients
\* that send none.
THEOREM CursorHidesNothing ==
  ASSUME CloudApi \/ TRUE \notin Include
  PROVE  FairSpec => []NothingShadowed
  <1>1. Init => IInv /\ Gapless
    BY InitSound, GaplessInit
  <1>2. (IInv /\ Gapless) /\ [RoundNext]_vars => (IInv /\ Gapless)'
    <2> SUFFICES ASSUME IInv, Gapless, [RoundNext]_vars PROVE IInv' /\ Gapless'
      OBVIOUS
    <2>1. Sound
      BY RoundIsAny, AnySound
    <2> QED
      BY <2>1, GaplessStep DEF Sound
  <1>3. Gapless => NothingShadowed
    BY DEF Gapless, Round, Phased, Ordered, NothingShadowed
  <1> QED
    BY <1>1, <1>2, <1>3, PTL DEF FairSpec
=============================================================================
