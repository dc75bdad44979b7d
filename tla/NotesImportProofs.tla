-------------------------- MODULE NotesImportProofs --------------------------
(***************************************************************************)
(* Theorems about NotesImport, for any number of readers, commits, entries *)
(* and lines: the markers tell the truth, and archived rows stay archived. *)
(*                                                                         *)
(* The argument.  A reader carries a debt from step to step: what it saw   *)
(* of the tracking ref is merged (Merged), and every entry of the OID it   *)
(* will stamp is among those it listed or already has a row (Covered).     *)
(* Rows are never removed and the working ref only grows, so other actors  *)
(* keep the debt covered; the transaction that stamps the OID pays it.     *)
(***************************************************************************)
EXTENDS NotesImport, TLAPS

\* What a reader saw was fetched, and what was fetched was published.
Chain == tracking \subseteq remote /\ \A p \in Readers : saw[p] \subseteq tracking

\* A line on its way to the carrier has its row.
Carried == \A l \in carry : l.ent \in Stored

\* Only a read that compared the markers is marked as moved.
Kinds ==
  \A p \in Readers :
    /\ pc[p] # "idle" => kind[p] \in {"read", "init"}
    /\ moved[p] = TRUE => kind[p] = "read" /\ pc[p] \notin {"idle", "working", "marks"}
    /\ pc[p] \in {"working", "marks"} => kind[p] = "read"
    /\ pc[p] = "merge" /\ kind[p] = "read" => moved[p] = TRUE
    /\ pc[p] = "stamp" => moved[p] = TRUE

\* After the merge, what a read saw of the tracking ref is on the working ref.
Merged ==
  \A p \in Readers : moved[p] = TRUE /\ pc[p] # "merge" => saw[p] \subseteq working

Listed(p) == {e \in Entries : listed[p][e] # "none"}

\* The OID a reader stamps holds nothing but what it listed or what is stored.
Covered ==
  \A p \in Readers :
    /\ pc[p] = "oid" => EntitiesOf(working) \subseteq Listed(p) \cup Stored
    /\ pc[p] \in {"dedup", "import"} => EntitiesOf(oid[p]) \subseteq Listed(p) \cup Stored
    /\ pc[p] = "import" => known[p] \subseteq Stored

IInv ==
  /\ TypeOK /\ Chain /\ Carried /\ Kinds
  /\ ~disturbed => Merged /\ Covered
  /\ GateHonest

-----------------------------------------------------------------------------
\* Every listing has a status for every entry.
LEMMA ListingType ==
  ASSUME NEW ref
  PROVE  Listing(ref) \in [Entries -> RowStatus]
BY DEF Listing, RowStatus, Statuses

\* The steps of Next, one by one.
LEMMA NextSteps ==
  ASSUME Next
  PROVE  \/ \E l \in There : Published(l) \/ WorktreeAppends(l)
         \/ \E k \in Commits : UserMerge(k)
         \/ UserFetch \/ HookMerges
         \/ \E l \in Here : LocalAdd(l) \/ LocalArchive(l)
         \/ \E l \in carry : Carry(l) \/ CarryFails(l)
         \/ \E p \in Readers :
              \/ StartRead(p) \/ StartInit(p) \/ ReadWorking(p) \/ ReadMarks(p)
              \/ Merges(p) \/ MergeSkipped(p) \/ List(p) \/ ReadOid(p) \/ ReadKnown(p)
              \/ Import(p) \/ ImportFails(p) \/ StampTracking(p) \/ Killed(p)
BY DEF Next, CalmNext, Writers, Step

\* What a reader is left with when it is done.
LEMMA DoneTypes ==
  ASSUME TypeOK, NEW p \in Readers, Done(p)
  PROVE  /\ pc' \in [Readers -> Labels]
         /\ kind' \in [Readers -> {"none", "read", "init"}]
         /\ saw' \in [Readers -> Ref] /\ oid' \in [Readers -> Ref] /\ mark' \in [Readers -> Ref]
         /\ moved' \in [Readers -> BOOLEAN]
         /\ listed' \in [Readers -> [Entries -> RowStatus]]
         /\ known' \in [Readers -> SUBSET Entries]
BY DEF TypeOK, Done, Goto, Labels, Ref, Nothing, RowStatus

\* Done resets one reader and leaves the others alone.
LEMMA DoneResets ==
  ASSUME TypeOK, NEW p \in Readers, Done(p)
  PROVE  /\ pc'[p] = "idle" /\ saw'[p] = {} /\ moved'[p] = FALSE
         /\ \A q \in Readers \ {p} :
              /\ pc'[q] = pc[q] /\ kind'[q] = kind[q] /\ saw'[q] = saw[q] /\ oid'[q] = oid[q]
              /\ moved'[q] = moved[q] /\ listed'[q] = listed[q] /\ known'[q] = known[q]
BY DEF TypeOK, Done, Goto

\* Every step keeps the types of refs, rows and markers.
LEMMA SharedTypes ==
  ASSUME TypeOK, [Next]_vars
  PROVE  /\ remote' \in Ref /\ tracking' \in Ref /\ working' \in Ref
         /\ head' \subseteq Commits
         /\ rows' \in [Entries -> RowStatus]
         /\ merged' \in Ref /\ imported' \in Ref
         /\ carry' \subseteq Here /\ disturbed' \in BOOLEAN
<1> DEFINE Goal ==
         /\ remote' \in Ref /\ tracking' \in Ref /\ working' \in Ref
         /\ head' \subseteq Commits
         /\ rows' \in [Entries -> RowStatus]
         /\ merged' \in Ref /\ imported' \in Ref
         /\ carry' \subseteq Here /\ disturbed' \in BOOLEAN
<1> SUFFICES Goal
  OBVIOUS
<1> USE DEF TypeOK, Ref, Lines, RowStatus, Statuses
<1>1. CASE UNCHANGED vars
  BY <1>1 DEF vars, refs, db, reader
<1>2. ASSUME NEW l \in There, Published(l) PROVE Goal
  BY <1>2, ImportAssumption DEF Published, refs, db, reader
<1>3. ASSUME NEW l \in There, WorktreeAppends(l) PROVE Goal
  BY <1>3 DEF WorktreeAppends, Overtaken, refs, db, reader
<1>4. ASSUME NEW l \in Here, LocalAdd(l) PROVE Goal
  BY <1>4, ImportAssumption DEF LocalAdd, AddNote, refs, db, reader, Line
<1>5. ASSUME NEW l \in Here, LocalArchive(l) PROVE Goal
  BY <1>5, ImportAssumption DEF LocalArchive, refs, db, reader, Line
<1>6. ASSUME NEW l \in carry, Carry(l) PROVE Goal
  BY <1>6 DEF Carry, refs, db, reader
<1>7. ASSUME NEW l \in carry, CarryFails(l) PROVE Goal
  BY <1>7 DEF CarryFails, refs, db, reader
<1>8. ASSUME NEW k \in Commits, UserMerge(k) PROVE Goal
  BY <1>8 DEF UserMerge, refs, db, reader
<1>9. CASE UserFetch
  BY <1>9 DEF UserFetch, refs, db, reader
<1>10. CASE HookMerges
  BY <1>10 DEF HookMerges, Overtaken, refs, db, reader
<1>11. ASSUME NEW p \in Readers, StartRead(p) PROVE Goal
  BY <1>11 DEF StartRead, Goto, refs, db, reader
<1>12. ASSUME NEW p \in Readers, StartInit(p) PROVE Goal
  BY <1>12 DEF StartInit, Goto, refs, db, reader
<1>13. ASSUME NEW p \in Readers, ReadWorking(p) PROVE Goal
  BY <1>13 DEF ReadWorking, Goto, Done, refs, db, reader
<1>14. ASSUME NEW p \in Readers, ReadMarks(p) PROVE Goal
  BY <1>14 DEF ReadMarks, Goto, Done, refs, db, reader
<1>15. ASSUME NEW p \in Readers, Merges(p) PROVE Goal
  BY <1>15 DEF Merges, AfterMerge, Goto, Overtaken, refs, db, reader
<1>16. ASSUME NEW p \in Readers, MergeSkipped(p) PROVE Goal
  BY <1>16 DEF MergeSkipped, AfterMerge, Goto, refs, db, reader
<1>17. ASSUME NEW p \in Readers, List(p) PROVE Goal
  BY <1>17 DEF List, Goto, refs, db, reader
<1>18. ASSUME NEW p \in Readers, ReadOid(p) PROVE Goal
  BY <1>18 DEF ReadOid, Goto, refs, db, reader
<1>19. ASSUME NEW p \in Readers, ReadKnown(p) PROVE Goal
  BY <1>19 DEF ReadKnown, Goto, refs, db, reader
<1>20. ASSUME NEW p \in Readers, Import(p) PROVE Goal
  BY <1>20 DEF Import, AfterImport, Goto, Done, AddNote, refs, db, reader
<1>21. ASSUME NEW p \in Readers, ImportFails(p) PROVE Goal
  BY <1>21 DEF ImportFails, AfterImport, Goto, Done, refs, db, reader
<1>22. ASSUME NEW p \in Readers, StampTracking(p) PROVE Goal
  BY <1>22 DEF StampTracking, Goto, Done, refs, db, reader
<1>23. ASSUME NEW p \in Readers, Killed(p) PROVE Goal
  BY <1>23 DEF Killed, Goto, Done, refs, db, reader
<1> HIDE DEF Goal
<1> QED
  BY <1>1, <1>2, <1>3, <1>4, <1>5, <1>6, <1>7, <1>8, <1>9, <1>10, <1>11, <1>12, <1>13, <1>14, <1>15, <1>16, <1>17, <1>18, <1>19, <1>20, <1>21, <1>22, <1>23, NextSteps

\* Every step keeps the types of a reader's variables.
LEMMA ReaderTypes ==
  ASSUME TypeOK, [Next]_vars
  PROVE  /\ pc' \in [Readers -> Labels]
         /\ kind' \in [Readers -> {"none", "read", "init"}]
         /\ saw' \in [Readers -> Ref] /\ oid' \in [Readers -> Ref] /\ mark' \in [Readers -> Ref]
         /\ moved' \in [Readers -> BOOLEAN]
         /\ listed' \in [Readers -> [Entries -> RowStatus]]
         /\ known' \in [Readers -> SUBSET Entries]
<1> DEFINE Goal ==
         /\ pc' \in [Readers -> Labels]
         /\ kind' \in [Readers -> {"none", "read", "init"}]
         /\ saw' \in [Readers -> Ref] /\ oid' \in [Readers -> Ref] /\ mark' \in [Readers -> Ref]
         /\ moved' \in [Readers -> BOOLEAN]
         /\ listed' \in [Readers -> [Entries -> RowStatus]]
         /\ known' \in [Readers -> SUBSET Entries]
<1> SUFFICES Goal
  OBVIOUS
<1> USE DEF TypeOK, Ref, Labels, Nothing, RowStatus
<1>1. CASE UNCHANGED vars
  BY <1>1 DEF vars, refs, db, reader
<1>2. ASSUME NEW l \in There, Published(l) PROVE Goal
  BY <1>2 DEF Published, refs, db, reader
<1>3. ASSUME NEW l \in There, WorktreeAppends(l) PROVE Goal
  BY <1>3 DEF WorktreeAppends, Overtaken, refs, db, reader
<1>4. ASSUME NEW l \in Here, LocalAdd(l) PROVE Goal
  BY <1>4 DEF LocalAdd, AddNote, refs, db, reader
<1>5. ASSUME NEW l \in Here, LocalArchive(l) PROVE Goal
  BY <1>5 DEF LocalArchive, refs, db, reader
<1>6. ASSUME NEW l \in carry, Carry(l) PROVE Goal
  BY <1>6 DEF Carry, refs, db, reader
<1>7. ASSUME NEW l \in carry, CarryFails(l) PROVE Goal
  BY <1>7 DEF CarryFails, refs, db, reader
<1>8. ASSUME NEW k \in Commits, UserMerge(k) PROVE Goal
  BY <1>8 DEF UserMerge, refs, db, reader
<1>9. CASE UserFetch
  BY <1>9 DEF UserFetch, refs, db, reader
<1>10. CASE HookMerges
  BY <1>10 DEF HookMerges, Overtaken, refs, db, reader
<1>11. ASSUME NEW p \in Readers, StartRead(p) PROVE Goal
  BY <1>11 DEF StartRead, Goto, refs, db, reader
<1>12. ASSUME NEW p \in Readers, StartInit(p) PROVE Goal
  BY <1>12 DEF StartInit, Goto, refs, db, reader
<1>13. ASSUME NEW p \in Readers, ReadWorking(p) PROVE Goal
  <2>1. CASE Done(p)
    BY <1>13, <2>1, DoneTypes DEF ReadWorking, Goto, refs, db, reader
  <2>2. CASE ~Done(p)
    BY <1>13, <2>2 DEF ReadWorking, Goto, refs, db, reader
  <2> QED BY <2>1, <2>2
<1>14. ASSUME NEW p \in Readers, ReadMarks(p) PROVE Goal
  <2>1. CASE Done(p)
    BY <1>14, <2>1, DoneTypes DEF ReadMarks, Goto, refs, db, reader
  <2>2. CASE ~Done(p)
    BY <1>14, <2>2 DEF ReadMarks, Goto, refs, db, reader
  <2> QED BY <2>1, <2>2
<1>15. ASSUME NEW p \in Readers, Merges(p) PROVE Goal
  BY <1>15 DEF Merges, AfterMerge, Goto, Overtaken, refs, db, reader
<1>16. ASSUME NEW p \in Readers, MergeSkipped(p) PROVE Goal
  BY <1>16 DEF MergeSkipped, AfterMerge, Goto, refs, db, reader
<1>17. ASSUME NEW p \in Readers, List(p) PROVE Goal
  BY <1>17, ListingType DEF List, Goto, refs, db, reader
<1>18. ASSUME NEW p \in Readers, ReadOid(p) PROVE Goal
  BY <1>18 DEF ReadOid, Goto, refs, db, reader
<1>19. ASSUME NEW p \in Readers, ReadKnown(p) PROVE Goal
  BY <1>19 DEF ReadKnown, Goto, refs, db, reader
<1>20. ASSUME NEW p \in Readers, Import(p) PROVE Goal
  <2>1. CASE Done(p)
    BY <1>20, <2>1, DoneTypes DEF Import, AfterImport, Goto, AddNote, refs, db, reader
  <2>2. CASE ~Done(p)
    BY <1>20, <2>2 DEF Import, AfterImport, Goto, AddNote, refs, db, reader
  <2> QED BY <2>1, <2>2
<1>21. ASSUME NEW p \in Readers, ImportFails(p) PROVE Goal
  <2>1. CASE Done(p)
    BY <1>21, <2>1, DoneTypes DEF ImportFails, AfterImport, Goto, refs, db, reader
  <2>2. CASE ~Done(p)
    BY <1>21, <2>2 DEF ImportFails, AfterImport, Goto, refs, db, reader
  <2> QED BY <2>1, <2>2
<1>22. ASSUME NEW p \in Readers, StampTracking(p) PROVE Goal
  BY <1>22, DoneTypes DEF StampTracking, Goto, refs, db, reader
<1>23. ASSUME NEW p \in Readers, Killed(p) PROVE Goal
  BY <1>23, DoneTypes DEF Killed, Goto, refs, db, reader
<1> HIDE DEF Goal
<1> QED
  BY <1>1, <1>2, <1>3, <1>4, <1>5, <1>6, <1>7, <1>8, <1>9, <1>10, <1>11, <1>12, <1>13, <1>14, <1>15, <1>16, <1>17, <1>18, <1>19, <1>20, <1>21, <1>22, <1>23, NextSteps

\* Rows are never removed, the working ref never shrinks, a disturbance is remembered.
LEMMA Growth ==
  ASSUME TypeOK, [Next]_vars
  PROVE  /\ Stored \subseteq Stored'
         /\ working \subseteq working'
         /\ disturbed = TRUE => disturbed' = TRUE
<1> DEFINE Goal ==
         /\ Stored \subseteq Stored'
         /\ working \subseteq working'
         /\ disturbed = TRUE => disturbed' = TRUE
<1> SUFFICES Goal
  OBVIOUS
<1> USE DEF TypeOK, Stored
<1>1. CASE UNCHANGED vars
  BY <1>1 DEF vars, refs, db, reader
<1>2. ASSUME NEW l \in There, Published(l) PROVE Goal
  BY <1>2 DEF Published, refs, db, reader
<1>3. ASSUME NEW l \in There, WorktreeAppends(l) PROVE Goal
  BY <1>3 DEF WorktreeAppends, Overtaken, refs, db, reader
<1>4. ASSUME NEW l \in Here, LocalAdd(l) PROVE Goal
  BY <1>4, ImportAssumption DEF LocalAdd, AddNote, refs, db, reader, Line, Lines
<1>5. ASSUME NEW l \in Here, LocalArchive(l) PROVE Goal
  BY <1>5, ImportAssumption DEF LocalArchive, refs, db, reader, Line, Lines
<1>6. ASSUME NEW l \in carry, Carry(l) PROVE Goal
  BY <1>6 DEF Carry, refs, db, reader
<1>7. ASSUME NEW l \in carry, CarryFails(l) PROVE Goal
  BY <1>7 DEF CarryFails, refs, db, reader
<1>8. ASSUME NEW k \in Commits, UserMerge(k) PROVE Goal
  BY <1>8 DEF UserMerge, refs, db, reader
<1>9. CASE UserFetch
  BY <1>9 DEF UserFetch, refs, db, reader
<1>10. CASE HookMerges
  BY <1>10 DEF HookMerges, Overtaken, refs, db, reader
<1>11. ASSUME NEW p \in Readers, StartRead(p) PROVE Goal
  BY <1>11 DEF StartRead, Goto, refs, db, reader
<1>12. ASSUME NEW p \in Readers, StartInit(p) PROVE Goal
  BY <1>12 DEF StartInit, Goto, refs, db, reader
<1>13. ASSUME NEW p \in Readers, ReadWorking(p) PROVE Goal
  BY <1>13 DEF ReadWorking, Goto, Done, refs, db, reader
<1>14. ASSUME NEW p \in Readers, ReadMarks(p) PROVE Goal
  BY <1>14 DEF ReadMarks, Goto, Done, refs, db, reader
<1>15. ASSUME NEW p \in Readers, Merges(p) PROVE Goal
  BY <1>15 DEF Merges, AfterMerge, Goto, Overtaken, refs, db, reader
<1>16. ASSUME NEW p \in Readers, MergeSkipped(p) PROVE Goal
  BY <1>16 DEF MergeSkipped, AfterMerge, Goto, refs, db, reader
<1>17. ASSUME NEW p \in Readers, List(p) PROVE Goal
  BY <1>17 DEF List, Goto, refs, db, reader
<1>18. ASSUME NEW p \in Readers, ReadOid(p) PROVE Goal
  BY <1>18 DEF ReadOid, Goto, refs, db, reader
<1>19. ASSUME NEW p \in Readers, ReadKnown(p) PROVE Goal
  BY <1>19 DEF ReadKnown, Goto, refs, db, reader
<1>20. ASSUME NEW p \in Readers, Import(p) PROVE Goal
  BY <1>20 DEF Import, AfterImport, Goto, Done, AddNote, refs, db, reader
<1>21. ASSUME NEW p \in Readers, ImportFails(p) PROVE Goal
  BY <1>21 DEF ImportFails, AfterImport, Goto, Done, refs, db, reader
<1>22. ASSUME NEW p \in Readers, StampTracking(p) PROVE Goal
  BY <1>22 DEF StampTracking, Goto, Done, refs, db, reader
<1>23. ASSUME NEW p \in Readers, Killed(p) PROVE Goal
  BY <1>23 DEF Killed, Goto, Done, refs, db, reader
<1> HIDE DEF Goal
<1> QED
  BY <1>1, <1>2, <1>3, <1>4, <1>5, <1>6, <1>7, <1>8, <1>9, <1>10, <1>11, <1>12, <1>13, <1>14, <1>15, <1>16, <1>17, <1>18, <1>19, <1>20, <1>21, <1>22, <1>23, NextSteps

\* What a reader saw stays fetched and published.
LEMMA ChainStep ==
  ASSUME TypeOK, Chain, [Next]_vars
  PROVE  Chain'
<1> DEFINE Goal == Chain'
<1> SUFFICES Goal
  OBVIOUS
<1> USE DEF TypeOK, Chain, Ref
<1>1. CASE UNCHANGED vars
  BY <1>1 DEF vars, refs, db, reader
<1>2. ASSUME NEW l \in There, Published(l) PROVE Goal
  BY <1>2 DEF Published, refs, db, reader
<1>3. ASSUME NEW l \in There, WorktreeAppends(l) PROVE Goal
  BY <1>3 DEF WorktreeAppends, Overtaken, refs, db, reader
<1>4. ASSUME NEW l \in Here, LocalAdd(l) PROVE Goal
  BY <1>4 DEF LocalAdd, AddNote, refs, db, reader
<1>5. ASSUME NEW l \in Here, LocalArchive(l) PROVE Goal
  BY <1>5 DEF LocalArchive, refs, db, reader
<1>6. ASSUME NEW l \in carry, Carry(l) PROVE Goal
  BY <1>6 DEF Carry, refs, db, reader
<1>7. ASSUME NEW l \in carry, CarryFails(l) PROVE Goal
  BY <1>7 DEF CarryFails, refs, db, reader
<1>8. ASSUME NEW k \in Commits, UserMerge(k) PROVE Goal
  BY <1>8 DEF UserMerge, refs, db, reader
<1>9. CASE UserFetch
  BY <1>9 DEF UserFetch, refs, db, reader
<1>10. CASE HookMerges
  BY <1>10 DEF HookMerges, Overtaken, refs, db, reader
<1>11. ASSUME NEW p \in Readers, StartRead(p) PROVE Goal
  BY <1>11 DEF StartRead, Goto, refs, db, reader
<1>12. ASSUME NEW p \in Readers, StartInit(p) PROVE Goal
  BY <1>12 DEF StartInit, Goto, refs, db, reader
<1>13. ASSUME NEW p \in Readers, ReadWorking(p) PROVE Goal
  <2>1. CASE Done(p)
    BY <1>13, <2>1, DoneResets DEF ReadWorking, Goto, refs, db, reader
  <2>2. CASE ~Done(p)
    BY <1>13, <2>2 DEF ReadWorking, Goto, refs, db, reader
  <2> QED BY <2>1, <2>2
<1>14. ASSUME NEW p \in Readers, ReadMarks(p) PROVE Goal
  <2>1. CASE Done(p)
    BY <1>14, <2>1, DoneResets DEF ReadMarks, Goto, refs, db, reader
  <2>2. CASE ~Done(p)
    BY <1>14, <2>2 DEF ReadMarks, Goto, refs, db, reader
  <2> QED BY <2>1, <2>2
<1>15. ASSUME NEW p \in Readers, Merges(p) PROVE Goal
  BY <1>15 DEF Merges, AfterMerge, Goto, Overtaken, refs, db, reader
<1>16. ASSUME NEW p \in Readers, MergeSkipped(p) PROVE Goal
  BY <1>16 DEF MergeSkipped, AfterMerge, Goto, refs, db, reader
<1>17. ASSUME NEW p \in Readers, List(p) PROVE Goal
  BY <1>17 DEF List, Goto, refs, db, reader
<1>18. ASSUME NEW p \in Readers, ReadOid(p) PROVE Goal
  BY <1>18 DEF ReadOid, Goto, refs, db, reader
<1>19. ASSUME NEW p \in Readers, ReadKnown(p) PROVE Goal
  BY <1>19 DEF ReadKnown, Goto, refs, db, reader
<1>20. ASSUME NEW p \in Readers, Import(p) PROVE Goal
  <2>1. CASE Done(p)
    BY <1>20, <2>1, DoneResets DEF Import, AfterImport, Goto, AddNote, refs, db, reader
  <2>2. CASE ~Done(p)
    BY <1>20, <2>2 DEF Import, AfterImport, Goto, AddNote, refs, db, reader
  <2> QED BY <2>1, <2>2
<1>21. ASSUME NEW p \in Readers, ImportFails(p) PROVE Goal
  <2>1. CASE Done(p)
    BY <1>21, <2>1, DoneResets DEF ImportFails, AfterImport, Goto, refs, db, reader
  <2>2. CASE ~Done(p)
    BY <1>21, <2>2 DEF ImportFails, AfterImport, Goto, refs, db, reader
  <2> QED BY <2>1, <2>2
<1>22. ASSUME NEW p \in Readers, StampTracking(p) PROVE Goal
  BY <1>22, DoneResets DEF StampTracking, Goto, refs, db, reader
<1>23. ASSUME NEW p \in Readers, Killed(p) PROVE Goal
  BY <1>23, DoneResets DEF Killed, Goto, refs, db, reader
<1> HIDE DEF Goal
<1> QED
  BY <1>1, <1>2, <1>3, <1>4, <1>5, <1>6, <1>7, <1>8, <1>9, <1>10, <1>11, <1>12, <1>13, <1>14, <1>15, <1>16, <1>17, <1>18, <1>19, <1>20, <1>21, <1>22, <1>23, NextSteps

\* A line on its way to the carrier keeps its row.
LEMMA CarriedStep ==
  ASSUME TypeOK, Carried, [Next]_vars
  PROVE  Carried'
<1> DEFINE Goal == Carried'
<1> SUFFICES Goal
  OBVIOUS
<1> USE DEF TypeOK, Carried, Stored
<1>1. CASE UNCHANGED vars
  BY <1>1 DEF vars, refs, db, reader
<1>2. ASSUME NEW l \in There, Published(l) PROVE Goal
  BY <1>2 DEF Published, refs, db, reader
<1>3. ASSUME NEW l \in There, WorktreeAppends(l) PROVE Goal
  BY <1>3 DEF WorktreeAppends, Overtaken, refs, db, reader
<1>4. ASSUME NEW l \in Here, LocalAdd(l) PROVE Goal
  BY <1>4, ImportAssumption DEF LocalAdd, AddNote, refs, db, reader, Line, Lines
<1>5. ASSUME NEW l \in Here, LocalArchive(l) PROVE Goal
  BY <1>5, ImportAssumption DEF LocalArchive, refs, db, reader, Line, Lines
<1>6. ASSUME NEW l \in carry, Carry(l) PROVE Goal
  BY <1>6 DEF Carry, refs, db, reader
<1>7. ASSUME NEW l \in carry, CarryFails(l) PROVE Goal
  BY <1>7 DEF CarryFails, refs, db, reader
<1>8. ASSUME NEW k \in Commits, UserMerge(k) PROVE Goal
  BY <1>8 DEF UserMerge, refs, db, reader
<1>9. CASE UserFetch
  BY <1>9 DEF UserFetch, refs, db, reader
<1>10. CASE HookMerges
  BY <1>10 DEF HookMerges, Overtaken, refs, db, reader
<1>11. ASSUME NEW p \in Readers, StartRead(p) PROVE Goal
  BY <1>11 DEF StartRead, Goto, refs, db, reader
<1>12. ASSUME NEW p \in Readers, StartInit(p) PROVE Goal
  BY <1>12 DEF StartInit, Goto, refs, db, reader
<1>13. ASSUME NEW p \in Readers, ReadWorking(p) PROVE Goal
  BY <1>13 DEF ReadWorking, Goto, Done, refs, db, reader
<1>14. ASSUME NEW p \in Readers, ReadMarks(p) PROVE Goal
  BY <1>14 DEF ReadMarks, Goto, Done, refs, db, reader
<1>15. ASSUME NEW p \in Readers, Merges(p) PROVE Goal
  BY <1>15 DEF Merges, AfterMerge, Goto, Overtaken, refs, db, reader
<1>16. ASSUME NEW p \in Readers, MergeSkipped(p) PROVE Goal
  BY <1>16 DEF MergeSkipped, AfterMerge, Goto, refs, db, reader
<1>17. ASSUME NEW p \in Readers, List(p) PROVE Goal
  BY <1>17 DEF List, Goto, refs, db, reader
<1>18. ASSUME NEW p \in Readers, ReadOid(p) PROVE Goal
  BY <1>18 DEF ReadOid, Goto, refs, db, reader
<1>19. ASSUME NEW p \in Readers, ReadKnown(p) PROVE Goal
  BY <1>19 DEF ReadKnown, Goto, refs, db, reader
<1>20. ASSUME NEW p \in Readers, Import(p) PROVE Goal
  BY <1>20 DEF Import, AfterImport, Goto, Done, AddNote, refs, db, reader
<1>21. ASSUME NEW p \in Readers, ImportFails(p) PROVE Goal
  BY <1>21 DEF ImportFails, AfterImport, Goto, Done, refs, db, reader
<1>22. ASSUME NEW p \in Readers, StampTracking(p) PROVE Goal
  BY <1>22 DEF StampTracking, Goto, Done, refs, db, reader
<1>23. ASSUME NEW p \in Readers, Killed(p) PROVE Goal
  BY <1>23 DEF Killed, Goto, Done, refs, db, reader
<1> HIDE DEF Goal
<1> QED
  BY <1>1, <1>2, <1>3, <1>4, <1>5, <1>6, <1>7, <1>8, <1>9, <1>10, <1>11, <1>12, <1>13, <1>14, <1>15, <1>16, <1>17, <1>18, <1>19, <1>20, <1>21, <1>22, <1>23, NextSteps

\* Only a read that compared the markers is marked as moved.
LEMMA KindsStep ==
  ASSUME pc \in [Readers -> Labels], kind \in [Readers -> {"none", "read", "init"}],
         moved \in [Readers -> BOOLEAN],
         TypeOK, Kinds, [Next]_vars
  PROVE  Kinds'
<1> DEFINE Goal == Kinds'
<1> SUFFICES Goal
  OBVIOUS
<1> USE DEF Kinds
<1>1. CASE UNCHANGED vars
  BY <1>1 DEF vars, refs, db, reader
<1>2. ASSUME NEW l \in There, Published(l) PROVE Goal
  BY <1>2 DEF Published, refs, db, reader
<1>3. ASSUME NEW l \in There, WorktreeAppends(l) PROVE Goal
  BY <1>3 DEF WorktreeAppends, Overtaken, refs, db, reader
<1>4. ASSUME NEW l \in Here, LocalAdd(l) PROVE Goal
  BY <1>4 DEF LocalAdd, AddNote, refs, db, reader
<1>5. ASSUME NEW l \in Here, LocalArchive(l) PROVE Goal
  BY <1>5 DEF LocalArchive, refs, db, reader
<1>6. ASSUME NEW l \in carry, Carry(l) PROVE Goal
  BY <1>6 DEF Carry, refs, db, reader
<1>7. ASSUME NEW l \in carry, CarryFails(l) PROVE Goal
  BY <1>7 DEF CarryFails, refs, db, reader
<1>8. ASSUME NEW k \in Commits, UserMerge(k) PROVE Goal
  BY <1>8 DEF UserMerge, refs, db, reader
<1>9. CASE UserFetch
  BY <1>9 DEF UserFetch, refs, db, reader
<1>10. CASE HookMerges
  BY <1>10 DEF HookMerges, Overtaken, refs, db, reader
<1>11. ASSUME NEW p \in Readers, StartRead(p) PROVE Goal
  BY <1>11 DEF StartRead, Goto, refs, db, reader
<1>12. ASSUME NEW p \in Readers, StartInit(p) PROVE Goal
  BY <1>12 DEF StartInit, Goto, refs, db, reader
<1>13. ASSUME NEW p \in Readers, ReadWorking(p) PROVE Goal
  <2>1. CASE Done(p)
    BY <1>13, <2>1, DoneResets, ZenonT(40) DEF ReadWorking, Goto, refs, db, reader
  <2>2. CASE ~Done(p)
    BY <1>13, <2>2 DEF ReadWorking, Goto, refs, db, reader
  <2> QED BY <2>1, <2>2
<1>14. ASSUME NEW p \in Readers, ReadMarks(p) PROVE Goal
  <2>1. CASE Done(p)
    BY <1>14, <2>1, DoneResets, ZenonT(40) DEF ReadMarks, Goto, refs, db, reader
  <2>2. CASE ~Done(p)
    BY <1>14, <2>2 DEF ReadMarks, Goto, refs, db, reader
  <2> QED BY <2>1, <2>2
<1>15. ASSUME NEW p \in Readers, Merges(p) PROVE Goal
  BY <1>15 DEF Merges, AfterMerge, Goto, Overtaken, refs, db, reader
<1>16. ASSUME NEW p \in Readers, MergeSkipped(p) PROVE Goal
  BY <1>16 DEF MergeSkipped, AfterMerge, Goto, refs, db, reader
<1>17. ASSUME NEW p \in Readers, List(p) PROVE Goal
  BY <1>17 DEF List, Goto, refs, db, reader
<1>18. ASSUME NEW p \in Readers, ReadOid(p) PROVE Goal
  BY <1>18 DEF ReadOid, Goto, refs, db, reader
<1>19. ASSUME NEW p \in Readers, ReadKnown(p) PROVE Goal
  BY <1>19 DEF ReadKnown, Goto, refs, db, reader
<1>20. ASSUME NEW p \in Readers, Import(p) PROVE Goal
  <2>1. CASE Done(p)
    BY <1>20, <2>1, DoneResets DEF Import, AfterImport, Goto, AddNote, refs, db, reader
  <2>2. CASE ~Done(p)
    BY <1>20, <2>2 DEF Import, AfterImport, Goto, AddNote, refs, db, reader
  <2> QED BY <2>1, <2>2
<1>21. ASSUME NEW p \in Readers, ImportFails(p) PROVE Goal
  <2>1. CASE Done(p)
    BY <1>21, <2>1, DoneResets, ZenonT(40) DEF ImportFails, AfterImport, Goto, refs, db, reader
  <2>2. CASE ~Done(p)
    BY <1>21, <2>2 DEF ImportFails, AfterImport, Goto, refs, db, reader
  <2> QED BY <2>1, <2>2
<1>22. ASSUME NEW p \in Readers, StampTracking(p) PROVE Goal
  BY <1>22, DoneResets, ZenonT(40) DEF StampTracking, Goto, refs, db, reader
<1>23. ASSUME NEW p \in Readers, Killed(p) PROVE Goal
  BY <1>23, DoneResets DEF Killed, Goto, refs, db, reader
<1> HIDE DEF Goal
<1> QED
  BY <1>1, <1>2, <1>3, <1>4, <1>5, <1>6, <1>7, <1>8, <1>9, <1>10, <1>11, <1>12, <1>13, <1>14, <1>15, <1>16, <1>17, <1>18, <1>19, <1>20, <1>21, <1>22, <1>23, NextSteps

\* After its merge a read is covered by the working ref.
LEMMA MergedStep ==
  ASSUME TypeOK, Chain, Kinds, Merged, ~disturbed', [Next]_vars
  PROVE  Merged'
<1> DEFINE Goal == Merged'
<1> SUFFICES Goal
  OBVIOUS
<1> USE DEF TypeOK, Chain, Kinds, Merged, Labels, Ref
<1>1. CASE UNCHANGED vars
  BY <1>1 DEF vars, refs, db, reader
<1>2. ASSUME NEW l \in There, Published(l) PROVE Goal
  BY <1>2 DEF Published, refs, db, reader
<1>3. ASSUME NEW l \in There, WorktreeAppends(l) PROVE Goal
  BY <1>3 DEF WorktreeAppends, Overtaken, refs, db, reader
<1>4. ASSUME NEW l \in Here, LocalAdd(l) PROVE Goal
  BY <1>4 DEF LocalAdd, AddNote, refs, db, reader
<1>5. ASSUME NEW l \in Here, LocalArchive(l) PROVE Goal
  BY <1>5 DEF LocalArchive, refs, db, reader
<1>6. ASSUME NEW l \in carry, Carry(l) PROVE Goal
  BY <1>6 DEF Carry, refs, db, reader
<1>7. ASSUME NEW l \in carry, CarryFails(l) PROVE Goal
  BY <1>7 DEF CarryFails, refs, db, reader
<1>8. ASSUME NEW k \in Commits, UserMerge(k) PROVE Goal
  BY <1>8 DEF UserMerge, refs, db, reader
<1>9. CASE UserFetch
  BY <1>9 DEF UserFetch, refs, db, reader
<1>10. CASE HookMerges
  BY <1>10 DEF HookMerges, Overtaken, refs, db, reader
<1>11. ASSUME NEW p \in Readers, StartRead(p) PROVE Goal
  BY <1>11 DEF StartRead, Goto, refs, db, reader
<1>12. ASSUME NEW p \in Readers, StartInit(p) PROVE Goal
  BY <1>12 DEF StartInit, Goto, refs, db, reader
<1>13. ASSUME NEW p \in Readers, ReadWorking(p) PROVE Goal
  <2>1. CASE Done(p)
    BY <1>13, <2>1, DoneResets DEF ReadWorking, Goto, refs, db, reader
  <2>2. CASE ~Done(p)
    BY <1>13, <2>2 DEF ReadWorking, Goto, refs, db, reader
  <2> QED BY <2>1, <2>2
<1>14. ASSUME NEW p \in Readers, ReadMarks(p) PROVE Goal
  <2>1. CASE Done(p)
    BY <1>14, <2>1, DoneResets DEF ReadMarks, Goto, refs, db, reader
  <2>2. CASE ~Done(p)
    BY <1>14, <2>2, SMTT(30) DEF ReadMarks, Goto, refs, db, reader
  <2> QED BY <2>1, <2>2
<1>15. ASSUME NEW p \in Readers, Merges(p) PROVE Goal
  BY <1>15 DEF Merges, AfterMerge, Goto, Overtaken, refs, db, reader
<1>16. ASSUME NEW p \in Readers, MergeSkipped(p) PROVE Goal
  BY <1>16 DEF MergeSkipped, AfterMerge, Goto, refs, db, reader
<1>17. ASSUME NEW p \in Readers, List(p) PROVE Goal
  BY <1>17 DEF List, Goto, refs, db, reader
<1>18. ASSUME NEW p \in Readers, ReadOid(p) PROVE Goal
  BY <1>18 DEF ReadOid, Goto, refs, db, reader
<1>19. ASSUME NEW p \in Readers, ReadKnown(p) PROVE Goal
  BY <1>19 DEF ReadKnown, Goto, refs, db, reader
<1>20. ASSUME NEW p \in Readers, Import(p) PROVE Goal
  <2>1. CASE Done(p)
    BY <1>20, <2>1, DoneResets DEF Import, AfterImport, Goto, AddNote, refs, db, reader
  <2>2. CASE ~Done(p)
    BY <1>20, <2>2 DEF Import, AfterImport, Goto, AddNote, refs, db, reader
  <2> QED BY <2>1, <2>2
<1>21. ASSUME NEW p \in Readers, ImportFails(p) PROVE Goal
  <2>1. CASE Done(p)
    BY <1>21, <2>1, DoneResets DEF ImportFails, AfterImport, Goto, refs, db, reader
  <2>2. CASE ~Done(p)
    BY <1>21, <2>2 DEF ImportFails, AfterImport, Goto, refs, db, reader
  <2> QED BY <2>1, <2>2
<1>22. ASSUME NEW p \in Readers, StampTracking(p) PROVE Goal
  BY <1>22, DoneResets, ZenonT(40) DEF StampTracking, Goto, refs, db, reader
<1>23. ASSUME NEW p \in Readers, Killed(p) PROVE Goal
  BY <1>23, DoneResets DEF Killed, Goto, refs, db, reader
<1> HIDE DEF Goal
<1> QED
  BY <1>1, <1>2, <1>3, <1>4, <1>5, <1>6, <1>7, <1>8, <1>9, <1>10, <1>11, <1>12, <1>13, <1>14, <1>15, <1>16, <1>17, <1>18, <1>19, <1>20, <1>21, <1>22, <1>23, NextSteps

\* A reader that is done owes nothing, and leaves the others' debts covered.
LEMMA DoneCovers ==
  ASSUME TypeOK, Covered, Stored \subseteq Stored', UNCHANGED working,
         NEW p \in Readers, Done(p)
  PROVE  Covered'
<1>1. ASSUME NEW q \in Readers
      PROVE  /\ pc'[q] = "oid" => EntitiesOf(working') \subseteq Listed(q)' \cup Stored'
             /\ pc'[q] \in {"dedup", "import"} =>
                  EntitiesOf(oid'[q]) \subseteq Listed(q)' \cup Stored'
             /\ pc'[q] = "import" => known'[q] \subseteq Stored'
  <2>1. CASE q = p
    BY <2>1, DoneResets
  <2>2. CASE q # p
    <3>1. pc'[q] = pc[q] /\ oid'[q] = oid[q] /\ listed'[q] = listed[q] /\ known'[q] = known[q]
      BY <1>1, <2>2, DoneResets
    <3>2. Listed(q)' = Listed(q) /\ EntitiesOf(working') = EntitiesOf(working)
      BY <3>1 DEF Listed, EntitiesOf
    <3> QED BY <1>1, <3>1, <3>2 DEF Covered
  <2> QED BY <2>1, <2>2
<1> QED BY <1>1 DEF Covered

\* Other actors keep what a reader is about to stamp covered.
LEMMA CoveredStep ==
  ASSUME pc \in [Readers -> Labels], oid \in [Readers -> Ref],
         listed \in [Readers -> [Entries -> RowStatus]], known \in [Readers -> SUBSET Entries],
         TypeOK, Carried, Covered, ~disturbed', [Next]_vars
  PROVE  Covered'
<1> DEFINE Goal == Covered'
<1> SUFFICES Goal
  OBVIOUS
<1>a. Stored \subseteq Stored'
  BY Growth
<1>b. EntitiesOf(working) \subseteq Entries
  BY ImportAssumption DEF EntitiesOf, TypeOK, Ref, Line
<1> USE <1>a DEF Covered, Listed
<1>1. CASE UNCHANGED vars
  BY <1>1 DEF vars, refs, db, reader
<1>2. ASSUME NEW l \in There, Published(l) PROVE Goal
  BY <1>2 DEF Published, refs, db, reader
<1>3. ASSUME NEW l \in There, WorktreeAppends(l) PROVE Goal
  BY <1>3 DEF WorktreeAppends, Overtaken, refs, db, reader
<1>4. ASSUME NEW l \in Here, LocalAdd(l) PROVE Goal
  BY <1>4 DEF LocalAdd, AddNote, refs, db, reader
<1>5. ASSUME NEW l \in Here, LocalArchive(l) PROVE Goal
  BY <1>5 DEF LocalArchive, refs, db, reader
<1>6. ASSUME NEW l \in carry, Carry(l) PROVE Goal
  BY <1>6 DEF Carry, refs, db, reader, Carried, EntitiesOf
<1>7. ASSUME NEW l \in carry, CarryFails(l) PROVE Goal
  BY <1>7 DEF CarryFails, refs, db, reader
<1>8. ASSUME NEW k \in Commits, UserMerge(k) PROVE Goal
  BY <1>8 DEF UserMerge, refs, db, reader
<1>9. CASE UserFetch
  BY <1>9 DEF UserFetch, refs, db, reader
<1>10. CASE HookMerges
  BY <1>10 DEF HookMerges, Overtaken, refs, db, reader
<1>11. ASSUME NEW p \in Readers, StartRead(p) PROVE Goal
  BY <1>11 DEF StartRead, Goto, refs, db, reader
<1>12. ASSUME NEW p \in Readers, StartInit(p) PROVE Goal
  BY <1>12 DEF StartInit, Goto, refs, db, reader
<1>13. ASSUME NEW p \in Readers, ReadWorking(p) PROVE Goal
  <2>1. CASE Done(p)
    <3>1. UNCHANGED working
      BY <1>13 DEF ReadWorking, refs
    <3> QED BY <2>1, <3>1, DoneCovers
  <2>2. CASE ~Done(p)
    BY <1>13, <2>2 DEF ReadWorking, Goto, refs, db, reader
  <2> QED BY <2>1, <2>2
<1>14. ASSUME NEW p \in Readers, ReadMarks(p) PROVE Goal
  <2>1. CASE Done(p)
    <3>1. UNCHANGED working
      BY <1>14 DEF ReadMarks, refs
    <3> QED BY <2>1, <3>1, DoneCovers
  <2>2. CASE ~Done(p)
    BY <1>14, <2>2 DEF ReadMarks, Goto, refs, db, reader
  <2> QED BY <2>1, <2>2
<1>15. ASSUME NEW p \in Readers, Merges(p) PROVE Goal
  BY <1>15 DEF Merges, AfterMerge, Goto, Overtaken, refs, db, reader
<1>16. ASSUME NEW p \in Readers, MergeSkipped(p) PROVE Goal
  BY <1>16 DEF MergeSkipped, AfterMerge, Goto, refs, db, reader
<1>17. ASSUME NEW p \in Readers, List(p) PROVE Goal
  BY <1>17, <1>b DEF List, Goto, refs, db, reader
<1>18. ASSUME NEW p \in Readers, ReadOid(p) PROVE Goal
  BY <1>18 DEF ReadOid, Goto, refs, db, reader
<1>19. ASSUME NEW p \in Readers, ReadKnown(p) PROVE Goal
  BY <1>19 DEF ReadKnown, Goto, refs, db, reader, Stored
<1>20. ASSUME NEW p \in Readers, Import(p) PROVE Goal
  <2>1. CASE Done(p)
    <3>1. UNCHANGED working
      BY <1>20 DEF Import, refs
    <3> QED BY <2>1, <3>1, DoneCovers
  <2>2. CASE ~Done(p)
    BY <1>20, <2>2 DEF Import, AfterImport, AddNote, Goto, refs, db, reader
  <2> QED BY <2>1, <2>2
<1>21. ASSUME NEW p \in Readers, ImportFails(p) PROVE Goal
  <2>1. CASE Done(p)
    <3>1. UNCHANGED working
      BY <1>21 DEF ImportFails, refs
    <3> QED BY <2>1, <3>1, DoneCovers
  <2>2. CASE ~Done(p)
    BY <1>21, <2>2 DEF ImportFails, AfterImport, Goto, refs, db, reader
  <2> QED BY <2>1, <2>2
<1>22. ASSUME NEW p \in Readers, StampTracking(p) PROVE Goal
  <2>1. UNCHANGED working /\ Done(p)
    BY <1>22 DEF StampTracking, refs
  <2> QED BY <2>1, DoneCovers
<1>23. ASSUME NEW p \in Readers, Killed(p) PROVE Goal
  <2>1. UNCHANGED working /\ Done(p)
    BY <1>23 DEF Killed, refs
  <2> QED BY <2>1, DoneCovers
<1> HIDE DEF Goal
<1> QED
  BY <1>1, <1>2, <1>3, <1>4, <1>5, <1>6, <1>7, <1>8, <1>9, <1>10, <1>11, <1>12, <1>13, <1>14, <1>15, <1>16, <1>17, <1>18, <1>19, <1>20, <1>21, <1>22, <1>23, NextSteps

\* The transaction stores every entry that was listed and had no row.
LEMMA ImportStores ==
  ASSUME TypeOK, Covered, NEW p \in Readers, Import(p)
  PROVE  EntitiesOf(imported') \subseteq Stored'
<1>1. EntitiesOf(oid[p]) \subseteq Listed(p) \cup Stored /\ known[p] \subseteq Stored
  BY DEF Import, Covered
<1>2. Listed(p) \subseteq known[p] \cup Stored'
  BY DEF Import, AddNote, Listed, Stored, TypeOK
<1>3. Stored \subseteq Stored'
  BY DEF Import, AddNote, Stored, TypeOK
<1>4. imported' = oid[p]
  BY DEF Import
<1> QED
  BY <1>1, <1>2, <1>3, <1>4

\* A step that stamps no marker leaves the markers honest.
LEMMA GateFrame ==
  ASSUME TypeOK, GateHonest, [Next]_vars, merged' = merged, imported' = imported
  PROVE  GateHonest'
<1>1. /\ Stored \subseteq Stored' /\ working \subseteq working'
      /\ disturbed = TRUE => disturbed' = TRUE
  BY Growth
<1>2. EntitiesOf(imported') = EntitiesOf(imported)
  BY DEF EntitiesOf
<1>3. disturbed \in BOOLEAN /\ disturbed' \in BOOLEAN
  BY SharedTypes DEF TypeOK
<1> QED
  BY <1>1, <1>2, <1>3 DEF GateHonest

\* Only the import and the last step of a read stamp a marker.
LEMMA GateStep ==
  ASSUME IInv, [Next]_vars
  PROVE  GateHonest'
<1> USE DEF IInv
<1>1. disturbed = TRUE => disturbed' = TRUE
  BY Growth
<1>2. disturbed \in BOOLEAN /\ disturbed' \in BOOLEAN
  BY SharedTypes DEF TypeOK
<1>3. ASSUME NEW p \in Readers, Import(p)
      PROVE  GateHonest'
  <2>1. SUFFICES ASSUME ~disturbed' PROVE merged' \subseteq working' /\ EntitiesOf(imported') \subseteq Stored'
    BY DEF GateHonest
  <2>2. ~disturbed
    BY <1>1, <1>2, <2>1
  <2>3. merged' = merged /\ working' = working
    BY <1>3 DEF Import, refs
  <2>4. merged \subseteq working
    BY <2>2 DEF GateHonest
  <2>5. EntitiesOf(imported') \subseteq Stored'
    BY <1>3, <2>2, ImportStores
  <2> QED BY <2>3, <2>4, <2>5
<1>4. ASSUME NEW p \in Readers, StampTracking(p)
      PROVE  GateHonest'
  <2>1. SUFFICES ASSUME ~disturbed' PROVE merged' \subseteq working' /\ EntitiesOf(imported') \subseteq Stored'
    BY DEF GateHonest
  <2>2. ~disturbed
    BY <1>1, <1>2, <2>1
  <2>3. merged' = saw[p] /\ working' = working /\ imported' = imported /\ rows' = rows
    BY <1>4 DEF StampTracking, refs
  <2>4. saw[p] \subseteq working
    BY <1>4, <2>2 DEF StampTracking, Kinds, Merged
  <2>5. EntitiesOf(imported') \subseteq Stored'
    BY <2>2, <2>3 DEF GateHonest, EntitiesOf, Stored
  <2> QED BY <2>3, <2>4, <2>5
<1>5. CASE merged' = merged /\ imported' = imported
  BY <1>5, GateFrame
<1>6. UNCHANGED vars => merged' = merged /\ imported' = imported
  BY DEF vars, db
<1>7. Next => \/ merged' = merged /\ imported' = imported
              \/ \E p \in Readers : Import(p) \/ StampTracking(p)
  BY NextSteps DEF Published, WorktreeAppends, UserMerge, UserFetch, HookMerges, LocalAdd,
     LocalArchive, Carry, CarryFails, StartRead, StartInit, ReadWorking, ReadMarks, Merges,
     MergeSkipped, List, ReadOid, ReadKnown, ImportFails, Killed, db
<1> QED
  BY <1>3, <1>4, <1>5, <1>6, <1>7

\* Nothing is recorded, carried or running at first.
LEMMA InitEstablishes == Init => IInv
<1> SUFFICES ASSUME Init PROVE IInv
  OBVIOUS
<1>1. TypeOK
  BY ImportAssumption DEF Init, TypeOK, Ref, Labels, RowStatus, Nothing
<1>2. Chain /\ Carried /\ Kinds /\ Merged /\ Covered
  BY DEF Init, Chain, Carried, Kinds, Merged, Covered
<1>3. GateHonest
  BY DEF Init, GateHonest, EntitiesOf
<1> QED
  BY <1>1, <1>2, <1>3 DEF IInv

\* Each part of the inductive invariant is kept by every step.
LEMMA StepPreserves == IInv /\ [Next]_vars => IInv'
<1> SUFFICES ASSUME IInv, [Next]_vars PROVE IInv'
  OBVIOUS
<1>1. TypeOK
  BY DEF IInv
<1>2. TypeOK'
  BY <1>1, SharedTypes, ReaderTypes DEF TypeOK
<1>3. Chain' /\ Carried'
  BY <1>1, ChainStep, CarriedStep DEF IInv
<1>4. Kinds'
  BY <1>1, KindsStep DEF IInv, TypeOK
<1>5. ASSUME ~disturbed' PROVE Merged' /\ Covered'
  <2>1. ~disturbed
    <3>1. disturbed = TRUE => disturbed' = TRUE
      BY <1>1, Growth
    <3>2. disturbed \in BOOLEAN
      BY <1>1 DEF TypeOK
    <3> QED BY <1>5, <3>1, <3>2
  <2>2. Merged'
    BY <1>1, <1>5, <2>1, MergedStep DEF IInv
  <2>3. Covered'
    BY <1>1, <1>5, <2>1, CoveredStep DEF IInv, TypeOK
  <2> QED BY <2>2, <2>3
<1>6. GateHonest'
  BY GateStep
<1> QED
  BY <1>2, <1>3, <1>4, <1>5, <1>6 DEF IInv

\* The inductive invariant holds in every state.
LEMMA Invariance == Spec => []IInv
  BY InitEstablishes, StepPreserves, PTL DEF Spec

\* Every variable of the import keeps its type.
THEOREM ImportTypeCorrect == Spec => []TypeOK
<1>1. IInv => TypeOK
  BY DEF IInv
<1> QED BY <1>1, Invariance, PTL

\* The markers tell the truth for any number of readers and writers: unless a
\* merge was skipped, the ref was overtaken or not listed in full, a recorded
\* tracking OID is merged and every entry of a recorded working OID has a row.
THEOREM MarkersAreHonest == Spec => []GateHonest
<1>1. IInv => GateHonest
  BY DEF IInv
<1> QED BY <1>1, Invariance, PTL

\* No import and no re-recording brings an archived row back to life.
THEOREM ArchivedNeverReturns == Spec => ArchivedRowStays
<1> DEFINE Stays == \A e \in Entries : rows[e] = "archived" => rows'[e] = "archived"
<1>1. ASSUME TypeOK, [Next]_vars PROVE [Stays]_vars
  <2>1. CASE rows' = rows
    BY <2>1
  <2>2. ASSUME NEW p \in Readers, Import(p) PROVE Stays
    BY <1>1, <2>2 DEF Import, AddNote, TypeOK
  <2>3. ASSUME NEW l \in Here, LocalAdd(l) PROVE Stays
    BY <1>1, <2>3, ImportAssumption DEF LocalAdd, AddNote, TypeOK, Line, Lines
  <2>4. ASSUME NEW l \in Here, LocalArchive(l) PROVE Stays
    BY <1>1, <2>4, ImportAssumption DEF LocalArchive, TypeOK, Line, Lines
  <2>5. Next => \/ rows' = rows
                \/ \E p \in Readers : Import(p)
                \/ \E l \in Here : LocalAdd(l) \/ LocalArchive(l)
    BY NextSteps DEF Published, WorktreeAppends, UserMerge, UserFetch, HookMerges, Carry,
       CarryFails, StartRead, StartInit, ReadWorking, ReadMarks, Merges, MergeSkipped, List,
       ReadOid, ReadKnown, ImportFails, StampTracking, Killed, db
  <2> QED BY <1>1, <2>1, <2>2, <2>3, <2>4, <2>5
<1> QED
  BY <1>1, ImportTypeCorrect, PTL DEF Spec, ArchivedRowStays
==============================================================================
