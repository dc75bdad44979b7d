---------------------------- MODULE NotesProofs ----------------------------
(***************************************************************************)
(* Theorems about team memory on git notes, in three parts.                *)
(*                                                                         *)
(* The fold (NotesFold, NotesReader): what fold_records and collect make   *)
(* of the lines read depends on the set of copies alone.                   *)
(*                                                                         *)
(* The carrier (GitNotes), for any number of clones, processes, commits    *)
(* and lines: no acknowledged entry lost, a shared ref that never rewinds, *)
(* the refinement of NotesLog.                                             *)
(*                                                                         *)
(* The view (NotesView): the carrier read through the fold.  A state       *)
(* update moves no entry to another commit and gives none another id.      *)
(***************************************************************************)
EXTENDS NotesView, NotesReader, NatSets, SequenceTheorems, TLAPS

-----------------------------------------------------------------------------
(***************************************************************************)
(* Part 1: the fold.                                                       *)
(*                                                                         *)
(* The argument.  What a mutable merge does is a fold over a sequence: by  *)
(* induction on how many copies were merged, MergeAll[k] is the record with*)
(* all of the first k copies merged into it (MergeAllMerges), and that is a*)
(* function of their set.  swap_remove reorders the others but keeps their *)
(* set.  So the folded record of a group is the reference of the set of its*)
(* copies (FoldGroupIsReference), and FoldRecords has one for each entity. *)
(* The sort of collect numbers the folded records by rank (InOrder), from  *)
(* which the page is a suffix (CollectProperties).                         *)
(***************************************************************************)

\* What InOrder makes of a finite set in strict total order: a numbering of all
\* of its elements, none twice, along the order.
LEMMA InOrderProperties ==
  ASSUME NEW I, IsFiniteSet(I), NEW before, TotalOrder(I, before)
  PROVE  LET n == Cardinality(I)
             order == InOrder(I, before)
         IN  /\ n \in Nat
             /\ order \in [1 .. n -> I]
             /\ \A i \in I : \E k \in 1 .. n : order[k] = i
             /\ \A k, l \in 1 .. n : k < l => <<order[k], order[l]>> \in before
             /\ \A k, l \in 1 .. n : order[k] = order[l] => k = l
  <1> DEFINE n == Cardinality(I)
             order == InOrder(I, before)
             Rk(i) == Rank(I, before, i)
  <1>1. n \in Nat
    BY FS_CardinalityType
  <1>2. order = [k \in 1 .. n |-> CHOOSE i \in I : Rk(i) = k - 1]
    BY DEF InOrder, Rank
  <1>3. ASSUME NEW k \in 1 .. n
        PROVE  order[k] \in I /\ Rk(order[k]) = k - 1
    <2>1. k - 1 \in 0 .. n - 1
      BY <1>1
    <2>2. \E i \in I : Rk(i) = k - 1
      <3> HIDE DEF Rk
      <3>1. \A m \in 0 .. n - 1 : \E i \in I : Rk(i) = m
        BY RanksNumber DEF Rk
      <3> QED
        BY <2>1, <3>1
    <2> HIDE DEF Rk, order
    <2> QED
      BY <1>2, <2>2
  <1>4. ASSUME NEW i \in I
        PROVE  \E k \in 1 .. n : order[k] = i
    <2>1. Rk(i) \in 0 .. n - 1
      BY RanksGrow
    <2>2. Rk(i) + 1 \in 1 .. n /\ (Rk(i) + 1) - 1 = Rk(i)
      BY <1>1, <2>1
    <2>3. order[Rk(i) + 1] \in I /\ Rk(order[Rk(i) + 1]) = Rk(i)
      BY <1>3, <2>2
    <2>4. order[Rk(i) + 1] = i
      BY <2>3, RanksNumber
    <2> QED
      BY <2>2, <2>4
  <1>5. ASSUME NEW k \in 1 .. n, NEW l \in 1 .. n, k < l
        PROVE  <<order[k], order[l]>> \in before
    <2>1. order[k] \in I /\ order[l] \in I /\ Rk(order[k]) < Rk(order[l])
      <3>1. /\ order[k] \in I /\ order[l] \in I
            /\ Rk(order[k]) = k - 1 /\ Rk(order[l]) = l - 1
        BY <1>3
      <3> HIDE DEF Rk, order
      <3> QED
        BY <1>1, <1>5, <3>1
    <2>2. \/ order[k] = order[l]
          \/ <<order[k], order[l]>> \in before
          \/ <<order[l], order[k]>> \in before
      BY <2>1 DEF TotalOrder
    <2>3. CASE <<order[l], order[k]>> \in before
      <3>1. Rk(order[l]) < Rk(order[k])
        BY <2>1, <2>3, RanksGrow
      <3>2. Rk(order[l]) \in 0 .. n - 1 /\ Rk(order[k]) \in 0 .. n - 1
        BY <2>1, RanksGrow
      <3> HIDE DEF Rk, order
      <3> QED
        BY <1>1, <2>1, <3>1, <3>2
    <2>4. CASE order[k] = order[l]
      <3>1. Rk(order[l]) \in 0 .. n - 1
        BY <2>1, RanksGrow
      <3> HIDE DEF Rk, order
      <3> QED
        BY <1>1, <2>1, <2>4, <3>1
    <2> QED
      BY <2>2, <2>3, <2>4
  <1>6. ASSUME NEW k \in 1 .. n, NEW l \in 1 .. n, order[k] = order[l]
        PROVE  k = l
    <2>1. Rk(order[k]) = k - 1 /\ Rk(order[k]) = l - 1
      BY <1>3, <1>6
    <2> HIDE DEF Rk, order
    <2> QED
      BY <1>1, <2>1
  <1>7. order \in [1 .. n -> I]
    <2> HIDE DEF Rk, order
    <2> QED
      BY <1>2, <1>3
  <1> HIDE DEF order, n
  <1>8. /\ n \in Nat
        /\ order \in [1 .. n -> I]
        /\ \A i \in I : \E k \in 1 .. n : order[k] = i
        /\ \A k, l \in 1 .. n : k < l => <<order[k], order[l]>> \in before
        /\ \A k, l \in 1 .. n : order[k] = order[l] => k = l
    BY <1>1, <1>4, <1>5, <1>6, <1>7
  <1> QED
    BY <1>8 DEF order, n

\* The positions I, in order.
Positions(I) == InOrder(I, {p \in I \X I : p[1] < p[2]})

\* They are a numbering of I which grows.
LEMMA PositionsProperties ==
  ASSUME NEW n \in Nat, NEW I \in SUBSET (1 .. n)
  PROVE  LET m == Cardinality(I)
             h == Positions(I)
         IN  /\ IsFiniteSet(I) /\ m \in Nat
             /\ h \in [1 .. m -> I]
             /\ \A i \in I : \E k \in 1 .. m : h[k] = i
             /\ \A k, l \in 1 .. m : k < l => h[k] < h[l]
             /\ \A k, l \in 1 .. m : h[k] = h[l] => k = l
  <1> DEFINE before == {p \in I \X I : p[1] < p[2]}
             h == InOrder(I, before)
  <1>1. IsFiniteSet(I) /\ Cardinality(I) \in Nat
    <2>1. IsFiniteSet(1 .. n)
      BY FS_Interval
    <2>2. IsFiniteSet(I)
      BY <2>1, FS_Subset
    <2> QED
      BY <2>2, FS_CardinalityType
  <1>2. \A i, j \in I : <<i, j>> \in before <=> i < j
    OBVIOUS
  <1>3. TotalOrder(I, before)
    <2> HIDE DEF before
    <2> QED
      BY <1>2 DEF TotalOrder
  <1>4. /\ h \in [1 .. Cardinality(I) -> I]
        /\ \A i \in I : \E k \in 1 .. Cardinality(I) : h[k] = i
        /\ \A k, l \in 1 .. Cardinality(I) : k < l => <<h[k], h[l]>> \in before
        /\ \A k, l \in 1 .. Cardinality(I) : h[k] = h[l] => k = l
    <2> HIDE DEF before
    <2> QED
      BY <1>1, <1>3, InOrderProperties
  <1>5. Positions(I) = h
    BY DEF Positions
  <1> HIDE DEF h
  <1>6. \A k, l \in 1 .. Cardinality(I) : k < l => h[k] < h[l]
    BY <1>2, <1>4
  <1> QED
    BY <1>1, <1>4, <1>5, <1>6

\* A subsequence holds the elements at the given positions.
LEMMA SubsequenceProperties ==
  ASSUME NEW s, NEW n \in Nat, NEW I \in SUBSET (1 .. n), NEW T, \A i \in I : s[i] \in T
  PROVE  LET m == Cardinality(I)
             sub == Subsequence(s, I)
         IN  /\ sub \in Seq(T) /\ Len(sub) = m /\ DOMAIN sub = 1 .. m
             /\ \A k \in 1 .. m : sub[k] = s[Positions(I)[k]]
  <1> DEFINE h == Positions(I)
             m == Cardinality(I)
  <1>1. m \in Nat /\ h \in [1 .. m -> I]
    BY PositionsProperties
  <1>2. Subsequence(s, I) = [k \in DOMAIN h |-> s[h[k]]]
    BY DEF Subsequence, Positions
  <1> HIDE DEF h, m
  <1> DEFINE sub == Subsequence(s, I)
  <1>3. sub = [k \in 1 .. m |-> s[h[k]]]
    BY <1>1, <1>2
  <1>4. \A k \in 1 .. m : s[h[k]] \in T
    BY <1>1
  <1> HIDE DEF sub
  <1>5. sub \in [1 .. m -> T]
    BY <1>3, <1>4
  <1>6. sub \in Seq(T)
    BY <1>1, <1>5
  <1> QED
    BY <1>1, <1>3, <1>6 DEF h, m, sub

-----------------------------------------------------------------------------
\* The order of base_key: a strict order whose ties agree on every field of it.
LEMMA KeyOrder ==
  ASSUME NEW r \in NoteRecord, NEW s \in NoteRecord, NEW t \in NoteRecord
  PROVE  /\ ~KeyLess(r, r)
         /\ KeyLess(r, s) => ~KeyLess(s, r)
         /\ KeyLess(r, s) /\ KeyLess(s, t) => KeyLess(r, t)
         /\ KeyEqual(r, s) <=> r.created = s.created /\ r.id = s.id /\ r.src = s.src
  BY DEF KeyLess, KeyEqual, NoteRecord

\* Position i holds the first of the least copies at the positions I.
IsFirstLeast(records, I, i) ==
  /\ i \in I
  /\ \A j \in I \ {i} :
       \/ KeyLess(records[i], records[j])
       \/ KeyEqual(records[i], records[j]) /\ i < j

\* Any records have a first least one: FirstLeast picks it.
LEMMA FirstLeastExists ==
  ASSUME NEW records, NEW n \in Nat, NEW I \in SUBSET (1 .. n), I # {},
         \A i \in I : records[i] \in NoteRecord
  PROVE  IsFirstLeast(records, I, FirstLeast(records, I))
  <1>1. ASSUME NEW J \in SUBSET I, J # {}
        PROVE  /\ \E m \in J : \A i \in J : records[m].created <= records[i].created
               /\ \E m \in J : \A i \in J : records[m].id <= records[i].id
               /\ \E m \in J : \A i \in J : records[m].src <= records[i].src
               /\ \E m \in J : \A i \in J : m <= i
    <2> DEFINE created == [i \in J |-> records[i].created]
               id == [i \in J |-> records[i].id]
               src == [i \in J |-> records[i].src]
               position == [i \in J |-> i]
    <2>1. created \in [J -> Nat] /\ id \in [J -> Nat] /\ src \in [J -> Nat] /\ position \in [J -> Nat]
      BY DEF NoteRecord
    <2>2. /\ \E m \in J : \A i \in J : created[m] <= created[i]
          /\ \E m \in J : \A i \in J : id[m] <= id[i]
          /\ \E m \in J : \A i \in J : src[m] <= src[i]
          /\ \E m \in J : \A i \in J : position[m] <= position[i]
      <3> HIDE DEF created, id, src, position
      <3> QED
        BY <1>1, <2>1, LeastArgument
    <2> QED
      BY <2>2
  <1>2. PICK a \in I : \A i \in I : records[a].created <= records[i].created
    BY <1>1
  <1> DEFINE I1 == {i \in I : records[i].created = records[a].created}
  <1>3. PICK b \in I1 : \A i \in I1 : records[b].id <= records[i].id
    BY <1>1
  <1> DEFINE I2 == {i \in I1 : records[i].id = records[b].id}
  <1>4. PICK c \in I2 : \A i \in I2 : records[c].src <= records[i].src
    BY <1>1
  <1> DEFINE I3 == {i \in I2 : records[i].src = records[c].src}
  <1>5. PICK m \in I3 : \A i \in I3 : m <= i
    BY <1>1
  <1>6. /\ m \in I /\ records[m].created = records[a].created
        /\ records[m].id = records[b].id /\ records[m].src = records[c].src
    OBVIOUS
  <1>7. ASSUME NEW j \in I \ {m}
        PROVE  \/ KeyLess(records[m], records[j])
               \/ KeyEqual(records[m], records[j]) /\ m < j
    <2>1. /\ records[j].created \in Nat /\ records[j].id \in Nat /\ records[j].src \in Nat
          /\ records[m].created \in Nat /\ records[m].id \in Nat /\ records[m].src \in Nat
          /\ j \in Nat /\ m \in Nat
      <3>1. records[j] \in NoteRecord /\ records[m] \in NoteRecord
        BY <1>6
      <3>2. j \in 1 .. n /\ m \in 1 .. n
        BY <1>6
      <3> QED
        BY <3>1, <3>2 DEF NoteRecord
    <2>2. CASE j \notin I1
      BY <1>2, <1>6, <2>1, <2>2 DEF KeyLess
    <2>3. CASE j \in I1 /\ j \notin I2
      BY <1>3, <1>6, <2>1, <2>3 DEF KeyLess
    <2>4. CASE j \in I2 /\ j \notin I3
      BY <1>4, <1>6, <2>1, <2>4 DEF KeyLess
    <2>5. CASE j \in I3
      <3>1. m < j
        BY <1>5, <2>1, <2>5
      <3>2. KeyEqual(records[m], records[j])
        BY <1>6, <2>1, <2>5 DEF KeyEqual, KeyLess
      <3> QED
        BY <3>1, <3>2
    <2> QED
      BY <2>2, <2>3, <2>4, <2>5
  <1>8. IsFirstLeast(records, I, m)
    BY <1>6, <1>7 DEF IsFirstLeast
  <1> QED
    BY <1>8 DEF FirstLeast, IsFirstLeast

\* Only one position does.
LEMMA FirstLeastUnique ==
  ASSUME NEW records, NEW n \in Nat, NEW I \in SUBSET (1 .. n),
         \A i \in I : records[i] \in NoteRecord,
         NEW i, IsFirstLeast(records, I, i)
  PROVE  i = FirstLeast(records, I)
  <1> DEFINE m == FirstLeast(records, I)
  <1>1. I # {}
    BY DEF IsFirstLeast
  <1>2. IsFirstLeast(records, I, m)
    BY <1>1, FirstLeastExists
  <1> HIDE DEF m
  <1> SUFFICES ASSUME i # m PROVE FALSE
    BY DEF m
  <1>3. /\ i \in I /\ m \in I /\ i \in Nat /\ m \in Nat
        /\ records[i] \in NoteRecord /\ records[m] \in NoteRecord
    BY <1>2 DEF IsFirstLeast
  <1>4. KeyLess(records[i], records[m]) \/ (KeyEqual(records[i], records[m]) /\ i < m)
    BY <1>3 DEF IsFirstLeast
  <1>5. KeyLess(records[m], records[i]) \/ (KeyEqual(records[m], records[i]) /\ m < i)
    BY <1>2, <1>3 DEF IsFirstLeast
  <1> QED
    BY <1>3, <1>4, <1>5, KeyOrder DEF KeyEqual

-----------------------------------------------------------------------------
\* min_some over a set of optional times: the least present one, if there is one.
LEMMA MinPresentProperties ==
  ASSUME NEW S \in SUBSET Nat
  PROVE  /\ MinPresent(S) \in Nat
         /\ MinPresent(S) = Absent <=> S \subseteq {Absent}
         /\ MinPresent(S) # Absent => MinPresent(S) \in S
         /\ \A x \in S : x # Absent => MinPresent(S) <= x
  <1>1. CASE S \ {Absent} = {}
    BY <1>1 DEF MinPresent, Absent
  <1>2. CASE S \ {Absent} # {}
    <2> DEFINE T == S \ {Absent}
    <2>1. T \in SUBSET Nat /\ T # {}
      BY <1>2
    <2>2. Min(T) \in T /\ \A x \in T : Min(T) <= x
      <3> HIDE DEF T
      <3> QED
        BY <2>1, MinProperties
    <2>3. MinPresent(S) = Min(T)
      BY <1>2 DEF MinPresent
    <2> QED
      BY <2>1, <2>2, <2>3
  <1> QED
    BY <1>1, <1>2

\* It is the only number that is so.
LEMMA MinPresentUnique ==
  ASSUME NEW S \in SUBSET Nat, NEW m \in Nat,
         m = Absent => S \subseteq {Absent},
         m # Absent => m \in S,
         \A x \in S : x # Absent => m <= x
  PROVE  m = MinPresent(S)
  <1> DEFINE q == MinPresent(S)
  <1>1. /\ q \in Nat
        /\ q = Absent <=> S \subseteq {Absent}
        /\ q # Absent => q \in S
        /\ \A x \in S : x # Absent => q <= x
    BY MinPresentProperties
  <1> HIDE DEF q
  <1>2. ASSUME m = Absent PROVE m = q
    BY <1>1, <1>2
  <1>3. ASSUME m # Absent PROVE m = q
    <2>1. q # Absent /\ q <= m /\ m <= q
      BY <1>1, <1>3
    <2> QED
      BY <1>1, <2>1
  <1>4. m = q
    BY <1>2, <1>3
  <1> QED
    BY <1>4 DEF q

\* min_some adds one value to the set.
LEMMA MinSomeAdds ==
  ASSUME NEW S \in SUBSET Nat, NEW v \in Nat
  PROVE  MinSome(MinPresent(S), v) = MinPresent(S \cup {v})
  <1> DEFINE q == MinPresent(S)
             m == MinSome(q, v)
  <1>1. /\ q \in Nat
        /\ q = Absent <=> S \subseteq {Absent}
        /\ q # Absent => q \in S
        /\ \A x \in S : x # Absent => q <= x
    BY MinPresentProperties
  <1> HIDE DEF q
  <1>2. m \in Nat /\ m \in {q, v}
    BY <1>1 DEF MinSome
  <1>3. m = Absent => q = Absent /\ v = Absent
    BY <1>1 DEF MinSome
  <1>4. (q # Absent => m <= q) /\ (v # Absent => m <= v)
    BY <1>1 DEF MinSome, Absent
  <1>5. m # Absent => m \in S \cup {v}
    BY <1>1, <1>2
  <1>6. m = Absent => S \cup {v} \subseteq {Absent}
    BY <1>1, <1>3
  <1>7. \A x \in S \cup {v} : x # Absent => m <= x
    <2> SUFFICES ASSUME NEW x \in S \cup {v}, x # Absent PROVE m <= x
      OBVIOUS
    <2>1. CASE x \in S
      <3>1. q <= x /\ x \in Nat /\ q # Absent
        BY <1>1, <2>1
      <3>2. m <= q
        BY <1>4, <3>1
      <3> HIDE DEF m
      <3> QED
        BY <1>1, <1>2, <3>1, <3>2
    <2>2. CASE x = v
      BY <1>4, <2>2
    <2> QED
      BY <2>1, <2>2
  <1> HIDE DEF m
  <1>8. m = MinPresent(S \cup {v})
    BY <1>2, <1>5, <1>6, <1>7, MinPresentUnique
  <1> QED
    BY <1>8 DEF m, q

-----------------------------------------------------------------------------
\* A record that is r with everything merged into it that the records S hold.
Merges(m, r, S) ==
  /\ m \in NoteRecord
  /\ m.ent = r.ent /\ m.created = r.created /\ m.id = r.id /\ m.src = r.src /\ m.sup = r.sup
  /\ m.status = IF \E s \in S : s.status = "archived" THEN "archived" ELSE "active"
  /\ m.valid = MinPresent({s.valid : s \in S})
  /\ m.invalid = MinPresent({s.invalid : s \in S})
  /\ m.tags = UNION {s.tags : s \in S}

\* A copy is itself with nothing more merged into it: where merge_into starts.
LEMMA MergesItself ==
  ASSUME NEW r \in NoteRecord
  PROVE  Merges(r, r, {r})
  <1>1. r.valid \in Nat /\ r.invalid \in Nat /\ r.status \in {"active", "archived"}
    BY DEF NoteRecord
  <1>2. r.valid = MinPresent({r.valid}) /\ r.invalid = MinPresent({r.invalid})
    BY <1>1, MinPresentUnique
  <1>3. {s.valid : s \in {r}} = {r.valid} /\ {s.invalid : s \in {r}} = {r.invalid}
    OBVIOUS
  <1>4. UNION {s.tags : s \in {r}} = r.tags
    OBVIOUS
  <1> QED
    BY <1>1, <1>2, <1>3, <1>4 DEF Merges

\* merge_into merges one more record.
LEMMA MergeIntoAdds ==
  ASSUME NEW m, NEW r \in NoteRecord, NEW S \in SUBSET NoteRecord, Merges(m, r, S),
         NEW o \in NoteRecord
  PROVE  Merges(MergeInto(m, o), r, S \cup {o})
  <1> DEFINE T == S \cup {o}
             q == MergeInto(m, o)
  <1>1. /\ m \in NoteRecord
        /\ o.valid \in Nat /\ o.invalid \in Nat /\ o.status \in {"active", "archived"}
        /\ o.tags \in SUBSET Tags
        /\ m.valid \in Nat /\ m.invalid \in Nat /\ m.status \in {"active", "archived"}
        /\ m.tags \in SUBSET Tags
    BY DEF Merges, NoteRecord
  <1>2. /\ {s.valid : s \in S} \in SUBSET Nat /\ {s.invalid : s \in S} \in SUBSET Nat
    BY DEF NoteRecord
  <1>3. /\ {s.valid : s \in T} = {s.valid : s \in S} \cup {o.valid}
        /\ {s.invalid : s \in T} = {s.invalid : s \in S} \cup {o.invalid}
        /\ UNION {s.tags : s \in T} = (UNION {s.tags : s \in S}) \cup o.tags
    OBVIOUS
  <1>4. /\ MinSome(m.valid, o.valid) = MinPresent({s.valid : s \in T})
        /\ MinSome(m.invalid, o.invalid) = MinPresent({s.invalid : s \in T})
    BY <1>1, <1>2, <1>3, MinSomeAdds DEF Merges
  <1>5. MinSome(m.valid, o.valid) \in Nat /\ MinSome(m.invalid, o.invalid) \in Nat
    BY <1>1 DEF MinSome
  <1>6. /\ q.ent = m.ent /\ q.created = m.created /\ q.id = m.id /\ q.src = m.src /\ q.sup = m.sup
        /\ q.status = IF o.status = "archived" THEN "archived" ELSE m.status
        /\ q.valid = MinSome(m.valid, o.valid)
        /\ q.invalid = MinSome(m.invalid, o.invalid)
        /\ q.tags = m.tags \cup o.tags
        /\ q \in NoteRecord
    BY <1>1, <1>5 DEF MergeInto, NoteRecord
  <1>7. q.status = IF \E s \in T : s.status = "archived" THEN "archived" ELSE "active"
    BY <1>6 DEF Merges
  <1> HIDE DEF q, T
  <1>8. Merges(q, r, T)
    BY <1>3, <1>4, <1>6, <1>7 DEF Merges
  <1> QED
    BY <1>8 DEF q, T

\* The loop of fold_group merges them all.
LEMMA MergeAllMerges ==
  ASSUME NEW base \in NoteRecord, NEW others \in Seq(NoteRecord)
  PROVE  Merges(MergeAll(base, others), base, {base} \cup {others[i] : i \in 1 .. Len(others)})
  <1> DEFINE n == Len(others)
             Is(f, m) == f = [k \in 0 .. m |-> IF k = 0 THEN base ELSE MergeInto(f[k - 1], others[k])]
             Seen(k) == {base} \cup {others[i] : i \in 1 .. k}
             Done(m) == \E f : Is(f, m) /\ Merges(f[m], base, Seen(m))
             S == {m \in Nat : m <= n => Done(m)}
  <1>1. n \in Nat /\ \A k \in 1 .. n : others[k] \in NoteRecord
    OBVIOUS
  <1>2. 0 \in S
    <2> DEFINE f == [k \in 0 .. 0 |-> base]
    <2>1. Is(f, 0) /\ f[0] = base
      OBVIOUS
    <2>2. Seen(0) = {base}
      OBVIOUS
    <2>3. Merges(f[0], base, Seen(0))
      BY <2>1, <2>2, MergesItself
    <2>4. \E g : Is(g, 0) /\ Merges(g[0], base, Seen(0))
      <3> HIDE DEF f
      <3> QED
        BY <2>1, <2>3
    <2>5. Done(0)
      BY <2>4
    <2> HIDE DEF Done
    <2> QED
      BY <2>5
  <1>3. ASSUME NEW m \in Nat, m \in S
        PROVE  m + 1 \in S
    <2> SUFFICES ASSUME m + 1 <= n
                 PROVE  Done(m + 1)
      <3> HIDE DEF Done
      <3> QED
        OBVIOUS
    <2>0. Done(m)
      <3> HIDE DEF Done
      <3> QED
        BY <1>1, <1>3
    <2>1. PICK f : Is(f, m) /\ Merges(f[m], base, Seen(m))
      BY <2>0
    <2> DEFINE g == [k \in 0 .. m + 1 |-> IF k = m + 1 THEN MergeInto(f[m], others[m + 1]) ELSE f[k]]
    <2>2. Is(g, m + 1) /\ g[m + 1] = MergeInto(f[m], others[m + 1])
      BY <2>1
    <2>3. Seen(m + 1) = Seen(m) \cup {others[m + 1]}
      OBVIOUS
    <2>4. Seen(m) \in SUBSET NoteRecord /\ others[m + 1] \in NoteRecord
      BY <1>1
    <2>5. Merges(MergeInto(f[m], others[m + 1]), base, Seen(m) \cup {others[m + 1]})
      <3> HIDE DEF Seen
      <3> QED
        BY <2>1, <2>4, MergeIntoAdds
    <2>6. Merges(g[m + 1], base, Seen(m + 1))
      BY <2>2, <2>3, <2>5
    <2> HIDE DEF g, Is, Seen
    <2> QED
      BY <2>2, <2>6
  <1>4. n \in S
    <2> HIDE DEF S
    <2> QED
      BY <1>1, <1>2, <1>3, NatSetInduction
  <1>0. Done(n)
    <2> HIDE DEF Done
    <2> QED
      BY <1>1, <1>4
  <1>5. PICK f : Is(f, n) /\ Merges(f[n], base, Seen(n))
    BY <1>0
  <1> DEFINE merged == CHOOSE g : Is(g, n)
  <1>6. Is(merged, n)
    BY <1>5
  <1>7. merged[n] = f[n]
    <2> DEFINE T == {k \in Nat : k <= n => merged[k] = f[k]}
    <2>1. 0 \in T
      BY <1>1, <1>5, <1>6
    <2>2. ASSUME NEW k \in Nat, k \in T
          PROVE  k + 1 \in T
      <3> SUFFICES ASSUME k + 1 <= n PROVE merged[k + 1] = f[k + 1]
        OBVIOUS
      <3>1. k + 1 \in 0 .. n /\ k + 1 # 0 /\ (k + 1) - 1 = k /\ merged[k] = f[k]
        BY <1>1, <2>2
      <3> HIDE DEF merged
      <3>2. merged[k + 1] = MergeInto(merged[k], others[k + 1])
        BY <1>6, <3>1
      <3>3. f[k + 1] = MergeInto(f[k], others[k + 1])
        BY <1>5, <3>1
      <3> QED
        BY <3>1, <3>2, <3>3
    <2>3. n \in T
      <3> HIDE DEF T
      <3> QED
        BY <1>1, <2>1, <2>2, NatSetInduction
    <2> QED
      BY <1>1, <2>3
  <1>8. MergeAll(base, others) = merged[n]
    BY DEF MergeAll
  <1> QED
    BY <1>5, <1>7, <1>8

-----------------------------------------------------------------------------
\* What a group holds.
Elems(group) == {group[i] : i \in DOMAIN group}

\* The base copy of a group is a base of the set of its copies.
LEMMA BaseIsBase ==
  ASSUME NEW group \in Seq(NoteRecord), group # <<>>
  PROVE  /\ BaseIndex(group) \in 1 .. Len(group)
         /\ group[BaseIndex(group)] \in Elems(group)
         /\ IsBase(group[BaseIndex(group)], Elems(group))
  <1> DEFINE n == Len(group)
             b == BaseIndex(group)
  <1>1. n \in Nat /\ DOMAIN group = 1 .. n /\ 1 .. n # {} /\ \A i \in 1 .. n : group[i] \in NoteRecord
    OBVIOUS
  <1>2. IsFirstLeast(group, 1 .. n, b)
    <2>1. b = FirstLeast(group, 1 .. n)
      BY <1>1 DEF BaseIndex
    <2> HIDE DEF b, n
    <2> QED
      BY <1>1, <2>1, FirstLeastExists
  <1> HIDE DEF b, n
  <1>3. b \in 1 .. n /\ group[b] \in NoteRecord /\ group[b] \in Elems(group)
    BY <1>1, <1>2 DEF IsFirstLeast, Elems
  <1>4. ASSUME NEW j \in 1 .. n
        PROVE  ~KeyLess(group[j], group[b])
    <2>1. CASE j = b
      BY <1>3, <2>1, KeyOrder
    <2>2. CASE j # b
      <3>1. KeyLess(group[b], group[j]) \/ KeyEqual(group[b], group[j])
        BY <1>2, <2>2 DEF IsFirstLeast
      <3>2. group[j] \in NoteRecord
        BY <1>1
      <3> QED
        BY <1>3, <3>1, <3>2, KeyOrder DEF KeyEqual
    <2> QED
      BY <2>1, <2>2
  <1>5. IsBase(group[b], Elems(group))
    BY <1>1, <1>4 DEF IsBase, Elems
  <1> QED
    BY <1>3, <1>5 DEF b, n

\* All bases of a set have the same base_key.
LEMMA BasesAgree ==
  ASSUME NEW S \in SUBSET NoteRecord, NEW r \in S, NEW s \in S, IsBase(r, S), IsBase(s, S)
  PROVE  r.created = s.created /\ r.id = s.id /\ r.src = s.src
  <1>1. KeyEqual(r, s)
    BY DEF IsBase, KeyEqual
  <1> QED
    BY <1>1, KeyOrder

\* What the others of a group and its base copy hold together.
LEMMA SwapRemoveElems ==
  ASSUME NEW group \in Seq(NoteRecord), NEW b \in 1 .. Len(group)
  PROVE  LET rest == SwapRemove(group, b)
         IN  /\ rest \in Seq(NoteRecord)
             /\ {group[b]} \cup {rest[i] : i \in 1 .. Len(rest)} = Elems(group)
  <1> DEFINE n == Len(group)
             rest == SwapRemove(group, b)
  <1>0. b \in 1 .. n
    OBVIOUS
  <1>1. n \in Nat /\ n >= 1 /\ DOMAIN group = 1 .. n /\ \A i \in 1 .. n : group[i] \in NoteRecord
    OBVIOUS
  <1>2. rest = [k \in 1 .. n - 1 |-> IF k = b THEN group[n] ELSE group[k]]
    BY DEF SwapRemove
  <1>3. n - 1 \in Nat /\ rest \in [1 .. n - 1 -> NoteRecord]
    BY <1>1, <1>2
  <1>4. rest \in Seq(NoteRecord) /\ Len(rest) = n - 1
    <2> HIDE DEF rest, n
    <2> QED
      BY <1>3
  <1>5. ASSUME NEW i \in 1 .. n - 1
        PROVE  rest[i] \in Elems(group)
    BY <1>1, <1>2 DEF Elems
  <1>6. ASSUME NEW i \in 1 .. n, i # b
        PROVE  \E k \in 1 .. n - 1 : rest[k] = group[i]
    <2> HIDE DEF n, rest
    <2>1. CASE i = n
      <3>1. b \in 1 .. n - 1
        BY <1>0, <1>1, <1>6, <2>1
      <3>2. rest[b] = group[i]
        BY <1>2, <2>1, <3>1
      <3> QED
        BY <3>1, <3>2
    <2>2. CASE i # n
      <3>1. i \in 1 .. n - 1
        BY <1>1, <2>2
      <3>2. rest[i] = group[i]
        BY <1>2, <1>6, <3>1
      <3> QED
        BY <3>1, <3>2
    <2> QED
      BY <2>1, <2>2
  <1> HIDE DEF rest, n
  <1>7. {group[b]} \cup {rest[i] : i \in 1 .. n - 1} = Elems(group)
    <2>1. group[b] \in Elems(group)
      BY <1>1 DEF Elems, n
    <2> QED
      BY <1>1, <1>5, <1>6, <2>1 DEF Elems
  <1> QED
    BY <1>4, <1>7 DEF rest

\* resolve_superseded_by_entity_id depends on the set of copies only.
LEMMA SuccessorOfSet ==
  ASSUME NEW group \in Seq(NoteRecord)
  PROVE  LET S == Elems(group)
             latest == {r \in S : r.sup # Absent /\ \A s \in S : s.sup # Absent => s.created =< r.created}
             first == {r \in latest : IsBase(r, latest)}
         IN  /\ ResolveSuccessor(group) = MinPresent({r.sup : r \in first})
             /\ (\E r \in S : r.sup # Absent) => ResolveSuccessor(group) # Absent
  <1> DEFINE n == Len(group)
             S == Elems(group)
             latest == {r \in S : r.sup # Absent /\ \A s \in S : s.sup # Absent => s.created =< r.created}
             first == {r \in latest : IsBase(r, latest)}
             sups == {r.sup : r \in first}
             named == {i \in DOMAIN group : group[i].sup # Absent}
  <1>1. n \in Nat /\ DOMAIN group = 1 .. n /\ \A i \in 1 .. n : group[i] \in NoteRecord
    OBVIOUS
  <1>2. S \in SUBSET NoteRecord
    BY <1>1 DEF Elems
  <1>3. sups \in SUBSET Nat
    BY <1>2 DEF NoteRecord
  <1>4. ASSUME NEW r \in NoteRecord
        PROVE  r.created \in Nat /\ r.id \in Nat /\ r.src \in Nat /\ r.sup \in Nat
    BY DEF NoteRecord
  <1>5. CASE named = {}
    <2>1. first = {}
      BY <1>5 DEF Elems
    <2>2. sups \subseteq {Absent}
      BY <2>1
    <2>3. MinPresent(sups) = Absent
      <3> HIDE DEF sups
      <3> QED
        BY <1>3, <2>2, MinPresentProperties
    <2>4. ResolveSuccessor(group) = Absent
      BY <1>5 DEF ResolveSuccessor
    <2>5. ~ \E r \in S : r.sup # Absent
      BY <1>5 DEF Elems
    <2> QED
      BY <2>3, <2>4, <2>5
  <1>6. CASE named # {}
    <2> DEFINE Least(i) == \A j \in named : ~SuccessorLess(group[j], group[i])
    <2>1. \E i \in named : Least(i)
      <3>1. PICK a \in named : \A i \in named : group[i].created <= group[a].created
        <4> DEFINE f == [i \in 1 .. n |-> group[i].created]
        <4>1. named \in SUBSET (1 .. n) /\ \A i \in named : f[i] = group[i].created /\ f[i] \in Nat
          BY <1>1, <1>4
        <4>2. \E m \in named : \A i \in named : f[i] <= f[m]
          <5> HIDE DEF f, named
          <5> QED
            BY <1>1, <1>6, <4>1, GreatestArgument
        <4> QED
          BY <4>1, <4>2
      <3> DEFINE I == {i \in named : group[i].created = group[a].created}
                 m == FirstLeast(group, I)
                 J == {i \in I : KeyEqual(group[i], group[m])}
      <3>2. I \in SUBSET (1 .. n) /\ I # {} /\ \A i \in I : group[i] \in NoteRecord
        BY <1>1
      <3>3. IsFirstLeast(group, I, m)
        <4> HIDE DEF I
        <4> QED
          BY <1>1, <3>2, FirstLeastExists
      <3>4. m \in I /\ \A i \in I : ~KeyLess(group[i], group[m])
        <4> HIDE DEF m, I
        <4> QED
          BY <3>2, <3>3, KeyOrder DEF IsFirstLeast, KeyEqual
      <3>5. m \in J
        <4> HIDE DEF m, I
        <4> QED
          BY <3>2, <3>4, KeyOrder DEF KeyEqual
      <3>6. PICK c \in J : \A i \in J : group[c].sup <= group[i].sup
        <4> DEFINE f == [i \in J |-> group[i].sup]
        <4>1. f \in [J -> Nat] /\ J # {}
          BY <1>4, <3>2, <3>5
        <4>2. \E k \in J : \A i \in J : f[k] <= f[i]
          <5> HIDE DEF f, J
          <5> QED
            BY <4>1, LeastArgument
        <4> QED
          BY <4>2
      <3> HIDE DEF m
      <3>7. ASSUME NEW j \in named
            PROVE  ~SuccessorLess(group[j], group[c])
        <4>1. /\ group[j] \in NoteRecord /\ group[c] \in NoteRecord /\ group[m] \in NoteRecord
              /\ c \in named /\ m \in named
          BY <1>1, <3>2, <3>4
        <4>2. group[j].created <= group[c].created
          BY <3>1
        <4>3. CASE group[j].created # group[c].created
          BY <1>4, <4>1, <4>2, <4>3 DEF SuccessorLess
        <4>4. CASE group[j].created = group[c].created
          <5>1. j \in I
            BY <4>4
          <5>2. KeyEqual(group[c], group[m]) /\ ~KeyLess(group[j], group[m])
            BY <3>4, <5>1
          <5>3. ~KeyLess(group[j], group[c])
            BY <4>1, <5>2, KeyOrder DEF KeyEqual, KeyLess
          <5>4. KeyEqual(group[j], group[c]) => j \in J /\ group[c].sup <= group[j].sup
            BY <3>6, <4>1, <5>1, <5>2, KeyOrder
          <5>5. group[j].created \in Nat /\ group[c].created \in Nat /\ group[j].sup \in Nat /\ group[c].sup \in Nat
            BY <1>4, <4>1
          <5> QED
            BY <4>4, <5>3, <5>4, <5>5 DEF SuccessorLess
        <4> QED
          BY <4>3, <4>4
      <3>8. c \in named
        OBVIOUS
      <3> QED
        BY <3>7, <3>8
    <2> DEFINE i == CHOOSE i \in named : Least(i)
               r == group[i]
    <2>2. i \in named /\ Least(i)
      <3> HIDE DEF Least, named
      <3> QED
        BY <2>1
    <2>3. ResolveSuccessor(group) = r.sup
      BY <1>6 DEF ResolveSuccessor
    <2> HIDE DEF i
    <2>4. r \in S /\ r.sup # Absent /\ r \in NoteRecord
      BY <1>1, <2>2 DEF Elems
    <2>5. ASSUME NEW s \in S, s.sup # Absent
          PROVE  ~SuccessorLess(s, r)
      <3>1. PICK j \in DOMAIN group : s = group[j]
        BY DEF Elems
      <3> QED
        BY <2>2, <2>5, <3>1
    <2> HIDE DEF r
    <2>6. r \in latest
      <3>1. ASSUME NEW s \in S, s.sup # Absent
            PROVE  s.created <= r.created
        <4>1. ~(s.created > r.created)
          BY <2>5, <3>1 DEF SuccessorLess
        <4> QED
          BY <1>2, <1>4, <2>4, <4>1
      <3> QED
        BY <2>4, <3>1
    <2>7. ASSUME NEW s \in latest
          PROVE  /\ s \in S /\ s \in NoteRecord /\ s.sup # Absent
                 /\ s.created = r.created /\ ~SuccessorLess(s, r)
      <3>1. s \in S /\ s \in NoteRecord /\ s.sup # Absent /\ ~SuccessorLess(s, r)
        BY <1>2, <2>5
      <3>2. s.created <= r.created /\ r.created <= s.created
        BY <2>4, <2>6, <3>1
      <3> QED
        BY <1>4, <2>4, <3>1, <3>2
    <2>8. r \in first
      <3>1. \A s \in latest : ~KeyLess(s, r)
        <4> HIDE DEF latest
        <4> QED
          BY <2>7 DEF SuccessorLess
      <3> QED
        BY <2>6, <3>1 DEF IsBase
    <2>9. ASSUME NEW s \in first
          PROVE  r.sup <= s.sup
      <3>1. s \in latest /\ IsBase(s, latest) /\ IsBase(r, latest)
        BY <2>8
      <3>2. KeyEqual(s, r)
        <4> HIDE DEF latest
        <4> QED
          BY <2>6, <3>1 DEF IsBase, KeyEqual
      <3>3. s.created = r.created /\ ~SuccessorLess(s, r) /\ s \in NoteRecord
        BY <2>7, <3>1
      <3>4. ~(s.sup < r.sup)
        BY <3>2, <3>3 DEF SuccessorLess
      <3> QED
        BY <1>4, <2>4, <3>3, <3>4
    <2>10. r.sup \in Nat /\ r.sup \in sups /\ \A x \in sups : r.sup <= x
      BY <1>4, <2>4, <2>8, <2>9
    <2>11. r.sup = MinPresent(sups)
      <3> HIDE DEF sups
      <3> QED
        BY <1>3, <2>4, <2>10, MinPresentUnique
    <2> QED
      BY <2>3, <2>4, <2>11
  <1> QED
    BY <1>5, <1>6

-----------------------------------------------------------------------------
\* Records are the same if their fields are.
LEMMA SameFields ==
  ASSUME NEW r \in NoteRecord, NEW s \in NoteRecord,
         r.ent = s.ent, r.created = s.created, r.id = s.id, r.src = s.src, r.status = s.status,
         r.valid = s.valid, r.invalid = s.invalid, r.sup = s.sup, r.tags = s.tags
  PROVE  r = s
  BY DEF NoteRecord

\* The successor that the latest copies to name one agree on, of those the first.
SuccessorIn(S) ==
  LET latest == {q \in S : q.sup # Absent /\ \A s \in S : s.sup # Absent => s.created =< q.created}
      first == {q \in latest : IsBase(q, latest)}
  IN  MinPresent({q.sup : q \in first})

\* A record that shows the recording r and, of everything else, what the copies
\* S say together.
Summarises(f, r, S) ==
  /\ f.created = r.created /\ f.id = r.id /\ f.src = r.src
  /\ f.status = IF \E s \in S : s.status = "archived" THEN "archived" ELSE "active"
  /\ f.valid = MinPresent({s.valid : s \in S})
  /\ f.invalid = MinPresent({s.invalid : s \in S})
  /\ f.tags = UNION {s.tags : s \in S}
  /\ f.sup = SuccessorIn(S)

\* A successor is one that some copy names.
LEMMA SuccessorIsNamed ==
  ASSUME NEW S \in SUBSET NoteRecord, SuccessorIn(S) # Absent
  PROVE  \E s \in S : s.sup # Absent
  <1> DEFINE latest == {q \in S : q.sup # Absent /\ \A s \in S : s.sup # Absent => s.created =< q.created}
             sups == {q.sup : q \in {q \in latest : IsBase(q, latest)}}
  <1>1. sups \in SUBSET Nat /\ \A x \in sups : \E s \in S : s.sup # Absent
    BY DEF NoteRecord
  <1>2. SuccessorIn(S) = MinPresent(sups)
    BY DEF SuccessorIn
  <1> HIDE DEF sups
  <1> QED
    BY <1>1, <1>2, MinPresentProperties

\* The reference record sums up the copies of one entity, whichever of them
\* shows its recording.
LEMMA ReferenceFields ==
  ASSUME NEW S \in SUBSET NoteRecord, NEW r \in S, IsBase(r, S), NEW e, \A s \in S : s.ent = e
  PROVE  Reference(S) \in NoteRecord /\ Reference(S).ent = e /\ Summarises(Reference(S), r, S)
  <1> DEFINE latest == {q \in S : q.sup # Absent /\ \A s \in S : s.sup # Absent => s.created =< q.created}
             first == {q \in latest : IsBase(q, latest)}
             base == CHOOSE q \in S : IsBase(q, S)
             status == IF \E s \in S : s.status = "archived" THEN "archived" ELSE "active"
             valid == MinPresent({s.valid : s \in S})
             invalid == MinPresent({s.invalid : s \in S})
             tags == UNION {s.tags : s \in S}
             sup == MinPresent({q.sup : q \in first})
  <1>1. base \in S /\ IsBase(base, S)
    OBVIOUS
  <1>2. Reference(S) = [base EXCEPT !.status = status, !.valid = valid, !.invalid = invalid,
                                    !.tags = tags, !.sup = sup]
    BY DEF Reference
  <1>3. valid \in Nat /\ invalid \in Nat
    <2>1. {s.valid : s \in S} \in SUBSET Nat /\ {s.invalid : s \in S} \in SUBSET Nat
      BY DEF NoteRecord
    <2> QED
      BY <2>1, MinPresentProperties
  <1>4. sup \in Nat
    <2>1. {q.sup : q \in first} \in SUBSET Nat
      BY DEF NoteRecord
    <2> QED
      BY <2>1, MinPresentProperties
  <1>5. tags \in SUBSET Tags /\ status \in {"active", "archived"}
    BY DEF NoteRecord
  <1> HIDE DEF base
  <1>6. base \in NoteRecord /\ base.ent = e
    BY <1>1
  <1>7. base.created = r.created /\ base.id = r.id /\ base.src = r.src
    BY <1>1, BasesAgree
  <1> HIDE DEF status, valid, invalid, tags, sup
  <1>8. LET ref == Reference(S)
        IN  /\ ref \in NoteRecord
            /\ ref.ent = e /\ ref.created = r.created /\ ref.id = r.id /\ ref.src = r.src
            /\ ref.status = status /\ ref.valid = valid /\ ref.invalid = invalid
            /\ ref.tags = tags /\ ref.sup = sup
    BY <1>2, <1>3, <1>4, <1>5, <1>6, <1>7 DEF NoteRecord
  <1>9. sup = SuccessorIn(S)
    BY DEF sup, SuccessorIn
  <1> QED
    BY <1>8, <1>9 DEF Summarises, status, valid, invalid, tags

\* fold_group makes of the copies of one entity what they mean as a set.
LEMMA FoldGroupIsReference ==
  ASSUME NEW group \in Seq(NoteRecord), group # <<>>, NEW e, \A r \in Elems(group) : r.ent = e
  PROVE  /\ FoldGroup(group) = Reference(Elems(group))
         /\ FoldGroup(group) \in NoteRecord /\ FoldGroup(group).ent = e
         /\ \E r \in Elems(group) : /\ IsBase(r, Elems(group))
                                    /\ r.created = FoldGroup(group).created /\ r.id = FoldGroup(group).id
         /\ (\E r \in Elems(group) : r.sup # Absent) => FoldGroup(group).sup # Absent
  <1> DEFINE S == Elems(group)
             sup == SuccessorIn(S)
             b == BaseIndex(group)
             rest == SwapRemove(group, b)
             m == MergeAll(group[b], rest)
             ref == Reference(S)
  <1>1. b \in 1 .. Len(group) /\ group[b] \in S /\ IsBase(group[b], S) /\ group[b] \in NoteRecord
    <2>1. b \in 1 .. Len(group) /\ group[b] \in S /\ IsBase(group[b], S)
      BY BaseIsBase
    <2> HIDE DEF b
    <2> QED
      BY <2>1
  <1>2. S \in SUBSET NoteRecord
    BY DEF Elems
  <1>3. rest \in Seq(NoteRecord) /\ {group[b]} \cup {rest[i] : i \in 1 .. Len(rest)} = S
    <2> HIDE DEF b
    <2> QED
      BY <1>1, SwapRemoveElems
  <1>4. Merges(m, group[b], S)
    <2>1. Merges(m, group[b], {group[b]} \cup {rest[i] : i \in 1 .. Len(rest)})
      <3> HIDE DEF rest, b
      <3> QED
        BY <1>1, <1>3, MergeAllMerges
    <2> HIDE DEF rest, b, m, S
    <2> QED
      BY <1>3, <2>1
  <1>5. FoldGroup(group) = [m EXCEPT !.sup = sup]
    <2>1. ResolveSuccessor(group) = sup
      BY SuccessorOfSet DEF SuccessorIn
    <2>2. FoldGroup(group) = [m EXCEPT !.sup = ResolveSuccessor(group)]
      BY DEF FoldGroup
    <2> HIDE DEF m, sup
    <2> QED
      BY <2>1, <2>2
  <1>6. ref \in NoteRecord /\ ref.ent = e /\ Summarises(ref, group[b], S)
    <2> HIDE DEF b, S
    <2> QED
      BY <1>1, <1>2, ReferenceFields DEF S
  <1>7. sup \in Nat
    <2> HIDE DEF ref
    <2> QED
      BY <1>6 DEF Summarises, NoteRecord
  <1>10. (\E r \in S : r.sup # Absent) => sup # Absent
    BY SuccessorOfSet DEF SuccessorIn
  <1> HIDE DEF ref, sup, m, rest, b
  <1>8. LET f == FoldGroup(group)
        IN  /\ f \in NoteRecord
            /\ f.ent = e /\ f.created = group[b].created /\ f.id = group[b].id /\ f.src = group[b].src
            /\ f.status = m.status /\ f.valid = m.valid /\ f.invalid = m.invalid
            /\ f.tags = m.tags /\ f.sup = sup
    BY <1>1, <1>4, <1>5, <1>7 DEF Merges, NoteRecord
  <1>9. FoldGroup(group) = ref
    <2> HIDE DEF S
    <2>1. /\ m.status = ref.status /\ m.valid = ref.valid /\ m.invalid = ref.invalid /\ m.tags = ref.tags
      BY <1>4, <1>6 DEF Merges, Summarises
    <2>2. ref \in NoteRecord /\ ref.ent = e /\ ref.sup = sup
          /\ ref.created = group[b].created /\ ref.id = group[b].id /\ ref.src = group[b].src
      BY <1>6 DEF Summarises, sup
    <2> QED
      BY <1>8, <2>1, <2>2, SameFields
  <1> QED
    BY <1>1, <1>8, <1>9, <1>10 DEF ref

\* The copies of one entity among some records, and the entities they are of.
CopiesIn(S, e) == {r \in S : r.ent = e}
EntitiesIn(S) == {r.ent : r \in S}

\* The records at some positions of a sequence, in their order.
LEMMA SubsequenceElems ==
  ASSUME NEW records \in Seq(NoteRecord), NEW I \in SUBSET (DOMAIN records)
  PROVE  LET sub == Subsequence(records, I)
         IN  /\ sub \in Seq(NoteRecord)
             /\ Len(sub) = Cardinality(I) /\ Cardinality(I) \in Nat
             /\ Elems(sub) = {records[i] : i \in I}
             /\ I # {} => sub # <<>>
  <1> DEFINE sub == Subsequence(records, I)
             n == Cardinality(I)
             h == Positions(I)
  <1>1. Len(records) \in Nat /\ I \in SUBSET (1 .. Len(records)) /\ \A i \in I : records[i] \in NoteRecord
    OBVIOUS
  <1>2. n \in Nat /\ h \in [1 .. n -> I] /\ \A i \in I : \E k \in 1 .. n : h[k] = i
    BY <1>1, PositionsProperties
  <1>3. /\ sub \in Seq(NoteRecord) /\ Len(sub) = n /\ DOMAIN sub = 1 .. n
        /\ \A k \in 1 .. n : sub[k] = records[h[k]]
    BY <1>1, SubsequenceProperties
  <1> HIDE DEF sub, n, h
  <1>5. Elems(sub) = {records[i] : i \in I}
    <2>1. Elems(sub) = {sub[k] : k \in 1 .. n}
      BY <1>3 DEF Elems
    <2>2. \A k \in 1 .. n : sub[k] \in {records[i] : i \in I}
      BY <1>2, <1>3
    <2>3. \A i \in I : \E k \in 1 .. n : sub[k] = records[i]
      BY <1>2, <1>3
    <2> QED
      BY <2>1, <2>2, <2>3
  <1>6. I # {} => sub # <<>>
    <2>1. ASSUME NEW i \in I
          PROVE  sub # <<>>
      <3>1. PICK k \in 1 .. n : h[k] = i
        BY <1>2
      <3> QED
        BY <1>2, <1>3, <3>1
    <2> QED
      BY <2>1
  <1> QED
    BY <1>2, <1>3, <1>5, <1>6 DEF n, sub

\* What the fold of any records is: one record per entity, which is what the
\* copies of the entity mean as a set.
LEMMA FoldRecordsProperties ==
  ASSUME NEW records \in Seq(NoteRecord)
  PROVE  LET folded == FoldRecords(records)
             S == Elems(records)
         IN  /\ folded \in Seq(NoteRecord)
             /\ EntitiesIn(Elems(folded)) = EntitiesIn(S)
             /\ IsFiniteSet(EntitiesIn(S)) /\ Cardinality(EntitiesIn(S)) = Len(folded)
             /\ Len(folded) <= Len(records)
             /\ \A i \in DOMAIN folded :
                  /\ folded[i] = Reference(CopiesIn(S, folded[i].ent))
                  /\ \E r \in CopiesIn(S, folded[i].ent) :
                       /\ IsBase(r, CopiesIn(S, folded[i].ent))
                       /\ r.created = folded[i].created /\ r.id = folded[i].id
                  /\ (\E r \in CopiesIn(S, folded[i].ent) : r.sup # Absent) => folded[i].sup # Absent
             /\ \A i, j \in DOMAIN folded : folded[i].ent = folded[j].ent => i = j
  <1> DEFINE S == Elems(records)
             folded == FoldRecords(records)
             At(e) == {i \in DOMAIN records : records[i].ent = e}
             firsts == {i \in DOMAIN records : \A j \in 1 .. i - 1 : records[j].ent # records[i].ent}
             heads == Subsequence(records, firsts)
             m == Cardinality(firsts)
  <1>1. /\ DOMAIN records = 1 .. Len(records) /\ Len(records) \in Nat
        /\ \A i \in DOMAIN records : records[i] \in NoteRecord
    OBVIOUS
  <1>2. ASSUME NEW i \in DOMAIN records
        PROVE  \E j \in firsts : records[j].ent = records[i].ent
    <2> DEFINE J == At(records[i].ent)
    <2>1. J \in SUBSET Nat /\ J # {}
      BY <1>1
    <2>2. Min(J) \in J /\ \A x \in J : Min(J) <= x
      <3> HIDE DEF J
      <3> QED
        BY <2>1, MinProperties
    <2> DEFINE j == Min(J)
    <2> HIDE DEF j
    <2>3. j \in J /\ \A x \in J : j <= x
      BY <2>2 DEF j
    <2>4. ASSUME NEW k \in 1 .. j - 1
          PROVE  records[k].ent # records[j].ent
      <3>1. k \in DOMAIN records /\ k < j
        BY <1>1, <2>3
      <3> QED
        BY <2>3, <3>1
    <2> QED
      BY <2>3, <2>4
  <1>3. ASSUME NEW i \in firsts, NEW j \in firsts, records[i].ent = records[j].ent
        PROVE  i = j
    BY <1>1, <1>3
  <1> DEFINE h == Positions(firsts)
  <1>4. firsts \in SUBSET (1 .. Len(records)) /\ \A i \in firsts : records[i] \in NoteRecord
    BY <1>1
  <1>5. /\ m \in Nat /\ h \in [1 .. m -> firsts]
        /\ \A i \in firsts : \E k \in 1 .. m : h[k] = i
        /\ \A k, l \in 1 .. m : h[k] = h[l] => k = l
        /\ DOMAIN heads = 1 .. m
        /\ \A k \in 1 .. m : heads[k] = records[h[k]]
    <2> HIDE DEF firsts
    <2>1. /\ m \in Nat /\ h \in [1 .. m -> firsts]
          /\ \A i \in firsts : \E k \in 1 .. m : h[k] = i
          /\ \A k, l \in 1 .. m : h[k] = h[l] => k = l
      BY <1>1, <1>4, PositionsProperties
    <2>2. DOMAIN heads = 1 .. m /\ \A k \in 1 .. m : heads[k] = records[h[k]]
      BY <1>1, <1>4, SubsequenceProperties
    <2> QED
      BY <2>1, <2>2
  <1>6. folded = [k \in 1 .. m |-> FoldGroup(Subsequence(records, At(records[h[k]].ent)))]
    <2>1. folded = [k \in DOMAIN heads |-> FoldGroup(Subsequence(records, At(heads[k].ent)))]
      BY DEF FoldRecords
    <2> HIDE DEF heads, m, At, folded, h
    <2> QED
      BY <1>5, <2>1
  <1> HIDE DEF folded, heads, m, h, firsts
  <1>7. ASSUME NEW k \in 1 .. m
        PROVE  LET e == records[h[k]].ent
                   C == CopiesIn(S, e)
               IN  /\ folded[k] \in NoteRecord /\ folded[k].ent = e
                   /\ folded[k] = Reference(C)
                   /\ \E r \in C : IsBase(r, C) /\ r.created = folded[k].created /\ r.id = folded[k].id
                   /\ (\E r \in C : r.sup # Absent) => folded[k].sup # Absent
    <2> DEFINE e == records[h[k]].ent
               C == CopiesIn(S, e)
               group == Subsequence(records, At(e))
    <2>1. h[k] \in DOMAIN records
      BY <1>5 DEF firsts
    <2>2. At(e) \in SUBSET (DOMAIN records) /\ At(e) # {}
      BY <2>1
    <2>3. group \in Seq(NoteRecord) /\ group # <<>> /\ Elems(group) = {records[i] : i \in At(e)}
      <3> HIDE DEF At, e
      <3> QED
        BY <2>2, SubsequenceElems
    <2>4. {records[i] : i \in At(e)} = C
      BY DEF CopiesIn, Elems
    <2>5. \A r \in C : r.ent = e
      BY DEF CopiesIn
    <2>6. folded[k] = FoldGroup(group)
      BY <1>6
    <2> HIDE DEF group, C, e
    <2>7. /\ FoldGroup(group) = Reference(C)
          /\ FoldGroup(group) \in NoteRecord /\ FoldGroup(group).ent = e
          /\ \E r \in C : IsBase(r, C) /\ r.created = FoldGroup(group).created /\ r.id = FoldGroup(group).id
          /\ (\E r \in C : r.sup # Absent) => FoldGroup(group).sup # Absent
      <3>1. Elems(group) = C
        BY <2>3, <2>4
      <3> QED
        BY <2>3, <2>5, <3>1, FoldGroupIsReference
    <2> QED
      BY <2>6, <2>7 DEF C, e
  <1>8. folded \in Seq(NoteRecord) /\ Len(folded) = m /\ DOMAIN folded = 1 .. m
    BY <1>5, <1>6, <1>7
  <1>9. \A k \in 1 .. m : h[k] \in firsts /\ h[k] \in DOMAIN records
    BY <1>5 DEF firsts
  <1>10. \A i, j \in 1 .. m : folded[i].ent = folded[j].ent => i = j
    BY <1>3, <1>5, <1>7, <1>9
  <1>11. \A k \in 1 .. m : folded[k].ent \in EntitiesIn(S)
    BY <1>7, <1>9 DEF EntitiesIn, Elems
  <1>12. \A e \in EntitiesIn(S) : \E k \in 1 .. m : folded[k].ent = e
    <2> TAKE e \in EntitiesIn(S)
    <2>1. PICK i \in DOMAIN records : records[i].ent = e
      BY DEF EntitiesIn, Elems
    <2>2. PICK j \in firsts : records[j].ent = e
      BY <1>2, <2>1
    <2>3. PICK k \in 1 .. m : h[k] = j
      BY <1>5
    <2> QED
      BY <1>7, <2>2, <2>3
  <1>13. EntitiesIn(Elems(folded)) = EntitiesIn(S)
    <2> HIDE DEF S
    <2>1. \A r \in Elems(folded) : \E k \in 1 .. m : r = folded[k]
      BY <1>8 DEF Elems
    <2>2. \A k \in 1 .. m : folded[k] \in Elems(folded)
      BY <1>8 DEF Elems
    <2>3. \A e \in EntitiesIn(Elems(folded)) : e \in EntitiesIn(S)
      BY <1>11, <2>1 DEF EntitiesIn
    <2>4. \A e \in EntitiesIn(S) : e \in EntitiesIn(Elems(folded))
      <3> TAKE e \in EntitiesIn(S)
      <3>1. PICK k \in 1 .. m : folded[k].ent = e
        BY <1>12
      <3> QED
        BY <2>2, <3>1 DEF EntitiesIn
    <2> QED
      BY <2>3, <2>4
  <1>14. IsFiniteSet(EntitiesIn(S)) /\ Cardinality(EntitiesIn(S)) = m
    <2> DEFINE f == [k \in 1 .. m |-> folded[k].ent]
               T == EntitiesIn(S)
    <2> HIDE DEF T
    <2>1. f \in [1 .. m -> T]
      BY <1>11 DEF T
    <2>2. f \in Injection(1 .. m, T)
      BY <1>10, <2>1 DEF Injection, IsInjective
    <2>3. f \in Surjection(1 .. m, T)
      BY <1>12, <2>1 DEF Surjection, T
    <2>4. ExistsBijection(1 .. m, T)
      BY <2>2, <2>3 DEF Bijection, ExistsBijection
    <2> QED
      BY <1>5, <2>4, FS_NatBijection, FS_CountingElements DEF T
  <1>15. m <= Len(records)
    <2>1. IsFiniteSet(1 .. Len(records)) /\ Cardinality(1 .. Len(records)) = Len(records)
      BY <1>1, FS_Interval
    <2> QED
      BY <1>4, <2>1, FS_Subset DEF m
  <1> HIDE DEF S
  <1>16. \A i \in 1 .. m :
           /\ folded[i] = Reference(CopiesIn(S, folded[i].ent))
           /\ \E r \in CopiesIn(S, folded[i].ent) :
                /\ IsBase(r, CopiesIn(S, folded[i].ent))
                /\ r.created = folded[i].created /\ r.id = folded[i].id
           /\ (\E r \in CopiesIn(S, folded[i].ent) : r.sup # Absent) => folded[i].sup # Absent
    BY <1>7
  <1> QED
    BY <1>8, <1>10, <1>13, <1>14, <1>15, <1>16 DEF folded, S

-----------------------------------------------------------------------------
\* The order a listing has: by created_at, equal ones as the fold left them.
CreatedBefore(records, kept) ==
  {p \in kept \X kept :
     \/ records[p[1]].created < records[p[2]].created
     \/ records[p[1]].created = records[p[2]].created /\ p[1] < p[2]}

\* Sorting keeps every record at the positions kept, once, oldest first.
LEMMA SortedProperties ==
  ASSUME NEW records \in Seq(NoteRecord), NEW kept \in SUBSET (DOMAIN records),
         \A i, j \in kept : records[i].ent = records[j].ent => i = j
  PROVE  LET sorted == SortByCreated(records, kept)
             m == Cardinality(kept)
         IN  /\ m \in Nat /\ IsFiniteSet(kept)
             /\ sorted \in Seq(NoteRecord) /\ Len(sorted) = m /\ DOMAIN sorted = 1 .. m
             /\ \A k \in 1 .. m : \E i \in kept : sorted[k] = records[i]
             /\ \A i \in kept : \E k \in 1 .. m : sorted[k] = records[i]
             /\ \A k, l \in 1 .. m : k < l => sorted[k].created <= sorted[l].created
             /\ \A k, l \in 1 .. m : sorted[k].ent = sorted[l].ent => k = l
  <1> DEFINE sorted == SortByCreated(records, kept)
             before == CreatedBefore(records, kept)
             order == InOrder(kept, before)
             m == Cardinality(kept)
  <1>1. /\ Len(records) \in Nat /\ kept \in SUBSET (1 .. Len(records))
        /\ \A i \in kept : records[i] \in NoteRecord /\ records[i].created \in Nat
    <2>1. \A r \in NoteRecord : r.created \in Nat
      BY DEF NoteRecord
    <2> QED
      BY <2>1
  <1>2. m \in Nat /\ IsFiniteSet(kept)
    BY <1>1, PositionsProperties
  <1>3. \A i, j \in kept :
          <<i, j>> \in before
            <=> (\/ records[i].created < records[j].created
                 \/ records[i].created = records[j].created /\ i < j)
    BY DEF CreatedBefore
  <1>4. TotalOrder(kept, before)
    <2> HIDE DEF before
    <2>1. \A i \in kept : records[i].created \in Nat /\ i \in Nat
      BY <1>1
    <2>2. \A i \in kept : <<i, i>> \notin before
      BY <1>3, <2>1
    <2>3. \A i, j \in kept : i = j \/ <<i, j>> \in before \/ <<j, i>> \in before
      <3> TAKE i, j \in kept
      <3>1. \/ records[i].created < records[j].created
            \/ records[j].created < records[i].created
            \/ records[i].created = records[j].created /\ (i < j \/ j < i \/ i = j)
        BY <2>1
      <3> QED
        BY <1>3, <3>1
    <2>4. \A i, j, k \in kept : <<i, j>> \in before /\ <<j, k>> \in before => <<i, k>> \in before
      BY <1>3, <2>1
    <2> QED
      BY <2>2, <2>3, <2>4 DEF TotalOrder
  <1>5. /\ order \in [1 .. m -> kept]
        /\ \A i \in kept : \E k \in 1 .. m : order[k] = i
        /\ \A k, l \in 1 .. m : k < l => <<order[k], order[l]>> \in before
        /\ \A k, l \in 1 .. m : order[k] = order[l] => k = l
    <2> HIDE DEF before
    <2> QED
      BY <1>2, <1>4, InOrderProperties
  <1>6. sorted = [k \in DOMAIN order |-> records[order[k]]]
    BY DEF SortByCreated, CreatedBefore
  <1> HIDE DEF order, before, m, sorted
  <1>7. sorted = [k \in 1 .. m |-> records[order[k]]]
    BY <1>5, <1>6
  <1>8. sorted \in Seq(NoteRecord) /\ Len(sorted) = m /\ DOMAIN sorted = 1 .. m
    <2>1. \A k \in 1 .. m : records[order[k]] \in NoteRecord
      BY <1>1, <1>5
    <2> QED
      BY <1>2, <1>7, <2>1
  <1>9. \A k, l \in 1 .. m : k < l => sorted[k].created <= sorted[l].created
    <2> SUFFICES ASSUME NEW k \in 1 .. m, NEW l \in 1 .. m, k < l
                 PROVE  records[order[k]].created <= records[order[l]].created
      BY <1>7
    <2>1. order[k] \in kept /\ order[l] \in kept /\ <<order[k], order[l]>> \in before
      BY <1>5
    <2> QED
      BY <1>1, <1>3, <2>1
  <1>10. \A k, l \in 1 .. m : sorted[k].ent = sorted[l].ent => k = l
    BY <1>5, <1>7
  <1>11. \A i \in kept : \E k \in 1 .. m : sorted[k] = records[i]
    BY <1>5, <1>7
  <1>12. \A k \in 1 .. m : \E i \in kept : sorted[k] = records[i]
    BY <1>5, <1>7
  <1> QED
    BY <1>2, <1>8, <1>9, <1>10, <1>11, <1>12 DEF sorted, m

\* Where the last limit elements of n start.
NewestFrom(n, limit) == IF limit < n THEN n - limit + 1 ELSE 1

\* The newest limit records are the end of the sequence.
LEMMA NewestProperties ==
  ASSUME NEW T, NEW s \in Seq(T), NEW limit \in Nat
  PROVE  LET a == NewestFrom(Len(s), limit)
             newest == Newest(s, limit)
         IN  /\ newest \in Seq(T) /\ Len(newest) = Len(s) + 1 - a /\ DOMAIN newest = 1 .. Len(newest)
             /\ \A k \in 1 .. Len(newest) : newest[k] = s[a + k - 1]
  <1> DEFINE n == Len(s)
             b == n - limit + 1
             a == NewestFrom(n, limit)
             newest == Newest(s, limit)
  <1>1. n \in Nat /\ b \in Int /\ a \in 1 .. n + 1 /\ DOMAIN s = 1 .. n /\ \A i \in 1 .. n : s[i] \in T
    BY DEF NewestFrom
  <1>2. Max({1, b}) = a
    <2>1. a \in {1, b} /\ \A y \in {1, b} : a >= y
      BY <1>1 DEF NewestFrom
    <2>2. \A x \in {1, b} : (\A y \in {1, b} : x >= y) => x = a
      BY <1>1 DEF NewestFrom
    <2>3. Max({1, b}) = CHOOSE x \in {1, b} : \A y \in {1, b} : x >= y
      BY DEF Max
    <2> HIDE DEF a, b
    <2> QED
      BY <2>1, <2>2, <2>3
  <1>3. newest = SubSeq(s, a, n)
    BY <1>2 DEF Newest
  <1> HIDE DEF a, b, n, newest
  <1>4. SubSeq(s, a, n) = [k \in 1 .. n - a + 1 |-> s[a + k - 1]]
    BY <1>1
  <1>5. \A k \in 1 .. n - a + 1 : a + k - 1 \in 1 .. n
    BY <1>1
  <1>6. newest \in [1 .. n - a + 1 -> T]
    BY <1>1, <1>3, <1>4, <1>5
  <1>7. newest \in Seq(T) /\ Len(newest) = n + 1 - a /\ DOMAIN newest = 1 .. Len(newest)
    BY <1>1, <1>6
  <1>8. \A k \in 1 .. Len(newest) : newest[k] = s[a + k - 1]
    BY <1>1, <1>3, <1>4, <1>7
  <1> QED
    BY <1>7, <1>8 DEF a, b, n, newest

\* What a listing shows: of the entities whose folded record is in the window,
\* the newest ones, as many as the limit lets through.
LEMMA CollectProperties ==
  ASSUME NEW records \in Seq(NoteRecord), NEW includeArchived \in BOOLEAN,
         NEW t \in Nat, NEW limit \in Nat
  PROVE  LET S == Elems(records)
             Folded(e) == Reference(CopiesIn(S, e))
             Window == {e \in EntitiesIn(S) : RecordInWindow(Folded(e), includeArchived, t)}
             shown == Collect(records, includeArchived, t, limit)
             shownEnts == EntitiesIn(Elems(shown))
         IN  /\ Cardinality(Window) \in Nat /\ Cardinality(Window) <= Len(records)
             /\ Len(shown) = IF limit < Cardinality(Window) THEN limit ELSE Cardinality(Window)
             /\ shownEnts \subseteq Window
             /\ Cardinality(Window) <= limit => shownEnts = Window
             /\ \A e \in Window \ shownEnts, f \in shownEnts : Folded(e).created <= Folded(f).created
  <1> DEFINE S == Elems(records)
             Folded(e) == Reference(CopiesIn(S, e))
             In(r) == RecordInWindow(r, includeArchived, t)
             Window == {e \in EntitiesIn(S) : In(Folded(e))}
             folded == FoldRecords(records)
             kept == {i \in DOMAIN folded : In(folded[i])}
             sorted == SortByCreated(folded, kept)
             shown == Newest(sorted, limit)
             m == Cardinality(kept)
             a == NewestFrom(m, limit)
  <1>1. Collect(records, includeArchived, t, limit) = shown
    BY DEF Collect
  <1>2. /\ folded \in Seq(NoteRecord) /\ Len(records) \in Nat /\ Len(folded) <= Len(records)
        /\ EntitiesIn(Elems(folded)) = EntitiesIn(S)
        /\ \A i \in DOMAIN folded : folded[i] = Folded(folded[i].ent)
        /\ \A i, j \in DOMAIN folded : folded[i].ent = folded[j].ent => i = j
    BY FoldRecordsProperties
  <1> HIDE DEF In, folded
  <1>3. /\ m \in Nat /\ IsFiniteSet(kept)
        /\ sorted \in Seq(NoteRecord) /\ Len(sorted) = m /\ DOMAIN sorted = 1 .. m
        /\ \A k \in 1 .. m : \E i \in kept : sorted[k] = folded[i]
        /\ \A i \in kept : \E k \in 1 .. m : sorted[k] = folded[i]
        /\ \A k, l \in 1 .. m : k < l => sorted[k].created <= sorted[l].created
        /\ \A k, l \in 1 .. m : sorted[k].ent = sorted[l].ent => k = l
    <2>1. kept \in SUBSET (DOMAIN folded) /\ \A i, j \in kept : folded[i].ent = folded[j].ent => i = j
      BY <1>2
    <2> HIDE DEF kept
    <2> QED
      BY <1>2, <2>1, SortedProperties
  <1>4. m <= Len(records)
    <2>1. kept \in SUBSET (1 .. Len(folded)) /\ Len(folded) \in Nat
      BY <1>2
    <2>2. IsFiniteSet(1 .. Len(folded)) /\ Cardinality(1 .. Len(folded)) = Len(folded)
      <3> DEFINE n == Len(folded)
      <3>1. n \in Nat
        BY <2>1
      <3> HIDE DEF n
      <3>2. IsFiniteSet(1 .. n) /\ Cardinality(1 .. n) = n
        BY <3>1, FS_Interval
      <3> QED
        BY <3>2 DEF n
    <2> HIDE DEF kept
    <2>3. Cardinality(kept) <= Len(folded)
      BY <2>1, <2>2, FS_Subset
    <2> QED
      BY <1>2, <1>3, <2>1, <2>3
  <1>5. /\ shown \in Seq(NoteRecord) /\ Len(shown) = m + 1 - a /\ DOMAIN shown = 1 .. Len(shown)
        /\ \A k \in 1 .. Len(shown) : shown[k] = sorted[a + k - 1]
    <2> HIDE DEF sorted, kept, m
    <2>1. sorted \in Seq(NoteRecord)
      BY <1>3
    <2>2. /\ shown \in Seq(NoteRecord) /\ Len(shown) = Len(sorted) + 1 - NewestFrom(Len(sorted), limit)
          /\ DOMAIN shown = 1 .. Len(shown)
          /\ \A k \in 1 .. Len(shown) : shown[k] = sorted[NewestFrom(Len(sorted), limit) + k - 1]
      BY <2>1, NewestProperties
    <2> QED
      BY <1>3, <2>2
  <1>6. \A i \in kept : folded[i].ent \in Window /\ folded[i] = Folded(folded[i].ent)
    <2> TAKE i \in kept
    <2>1. i \in DOMAIN folded /\ In(folded[i])
      OBVIOUS
    <2>2. folded[i].ent \in EntitiesIn(S)
      <3>1. folded[i] \in Elems(folded)
        BY <2>1 DEF Elems
      <3>2. folded[i].ent \in EntitiesIn(Elems(folded))
        BY <3>1 DEF EntitiesIn
      <3> QED
        BY <1>2, <3>2
    <2> QED
      BY <1>2, <2>1, <2>2
  <1>7. \A e \in Window : \E i \in kept : folded[i].ent = e
    <2> TAKE e \in Window
    <2>1. e \in EntitiesIn(Elems(folded)) /\ In(Folded(e))
      BY <1>2
    <2>2. PICK i \in DOMAIN folded : folded[i].ent = e
      BY <2>1 DEF EntitiesIn, Elems
    <2>3. folded[i] = Folded(e)
      BY <1>2, <2>2
    <2> QED
      BY <2>1, <2>2, <2>3
  <1>8. Cardinality(Window) = m
    <2> DEFINE f == [i \in kept |-> folded[i].ent]
    <2>1. \A i, j \in kept : folded[i].ent = folded[j].ent => i = j
      BY <1>2
    <2> HIDE DEF kept, Window
    <2>2. f \in [kept -> Window]
      BY <1>6
    <2>3. f \in Injection(kept, Window)
      BY <2>1, <2>2 DEF Injection, IsInjective
    <2>4. f \in Surjection(kept, Window)
      BY <1>7, <2>2 DEF Surjection
    <2>5. ExistsBijection(kept, Window)
      BY <2>3, <2>4 DEF Bijection, ExistsBijection
    <2> QED
      BY <1>3, <2>5, FS_Bijection
  <1> HIDE DEF kept, Window, Folded, sorted, shown, m
  <1>9. /\ \A k \in 1 .. m : sorted[k].ent \in Window /\ sorted[k] = Folded(sorted[k].ent)
        /\ \A e \in Window : \E k \in 1 .. m : sorted[k].ent = e /\ sorted[k] = Folded(e)
    <2>1. \A k \in 1 .. m : sorted[k].ent \in Window /\ sorted[k] = Folded(sorted[k].ent)
      <3> TAKE k \in 1 .. m
      <3>1. PICK i \in kept : sorted[k] = folded[i]
        BY <1>3
      <3> QED
        BY <1>6, <3>1
    <2>2. \A e \in Window : \E k \in 1 .. m : sorted[k].ent = e /\ sorted[k] = Folded(e)
      <3> TAKE e \in Window
      <3>1. PICK i \in kept : folded[i].ent = e
        BY <1>7
      <3>2. PICK k \in 1 .. m : sorted[k] = folded[i]
        BY <1>3
      <3> QED
        BY <1>6, <3>1, <3>2
    <2> QED
      BY <2>1, <2>2
  <1>10. a \in 1 .. m + 1 /\ Len(shown) = IF limit < m THEN limit ELSE m
    BY <1>3, <1>5 DEF NewestFrom
  <1>11. m \in Nat /\ a \in Nat /\ a >= 1 /\ Len(shown) = m + 1 - a
    BY <1>3, <1>5, <1>10
  <1> HIDE DEF a
  <1>12. \A e : e \in EntitiesIn(Elems(shown)) <=> \E k \in 1 .. m : k >= a /\ sorted[k].ent = e
    <2> TAKE e
    <2>1. ASSUME e \in EntitiesIn(Elems(shown))
          PROVE  \E k \in 1 .. m : k >= a /\ sorted[k].ent = e
      <3>1. PICK k \in 1 .. Len(shown) : shown[k].ent = e
        BY <1>5, <2>1 DEF EntitiesIn, Elems
      <3>2. a + k - 1 \in 1 .. m /\ a + k - 1 >= a
        BY <1>11
      <3> QED
        BY <1>5, <3>1, <3>2
    <2>2. ASSUME NEW k \in 1 .. m, k >= a, sorted[k].ent = e
          PROVE  e \in EntitiesIn(Elems(shown))
      <3> DEFINE l == k - a + 1
      <3>1. l \in 1 .. Len(shown) /\ a + l - 1 = k
        BY <1>11, <2>2
      <3> HIDE DEF l
      <3>2. shown[l].ent = e
        BY <1>5, <2>2, <3>1
      <3> QED
        BY <1>5, <3>1, <3>2 DEF EntitiesIn, Elems
    <2> QED
      BY <2>1, <2>2
  <1> DEFINE shownEnts == EntitiesIn(Elems(shown))
  <1> HIDE DEF shownEnts
  <1>13. shownEnts \subseteq Window
    BY <1>9, <1>12 DEF shownEnts
  <1>14. ASSUME m <= limit
         PROVE  shownEnts = Window
    <2>1. a = 1
      BY <1>3, <1>14 DEF a, NewestFrom
    <2>2. \A e \in Window : e \in shownEnts
      BY <1>9, <1>12, <2>1 DEF shownEnts
    <2> QED
      BY <1>13, <2>2
  <1>15. ASSUME NEW e \in Window \ shownEnts, NEW f \in shownEnts
         PROVE  Folded(e).created <= Folded(f).created
    <2>1. PICK k \in 1 .. m : sorted[k].ent = e /\ sorted[k] = Folded(e)
      BY <1>9
    <2>2. PICK l \in 1 .. m : l >= a /\ sorted[l].ent = f
      BY <1>12 DEF shownEnts
    <2>3. sorted[l] = Folded(f)
      BY <1>9, <2>2
    <2>4. k < a
      BY <1>10, <1>12, <2>1 DEF shownEnts
    <2>5. k < l
      BY <1>10, <2>2, <2>4
    <2> QED
      BY <1>3, <2>1, <2>3, <2>5
  <1>16. /\ Cardinality(Window) \in Nat /\ Cardinality(Window) <= Len(records)
         /\ Len(shown) = IF limit < Cardinality(Window) THEN limit ELSE Cardinality(Window)
         /\ shownEnts \subseteq Window
         /\ Cardinality(Window) <= limit => shownEnts = Window
         /\ \A e \in Window \ shownEnts, f \in shownEnts : Folded(e).created <= Folded(f).created
    BY <1>3, <1>4, <1>8, <1>10, <1>13, <1>14, <1>15
  <1> QED
    BY <1>1, <1>16 DEF Window, In, Folded, shownEnts

-----------------------------------------------------------------------------
\* The lines a reader has read hold records.
ReadTypeOK == read \in Seq([commit : CommitIds, rec : Universe])

\* What a reader has read has its type, whatever ReadLine adds.
THEOREM ReadType == ReadSpec => []ReadTypeOK
  <1>1. ReadInit => ReadTypeOK
    BY DEF ReadInit, ReadTypeOK
  <1>2. ReadTypeOK /\ [ReadLine]_read => ReadTypeOK'
    <2> SUFFICES ASSUME ReadTypeOK, [ReadLine]_read PROVE ReadTypeOK'
      OBVIOUS
    <2>1. CASE ReadLine
      <3>1. PICK k \in CommitIds, r \in Universe : read' = Append(read, [commit |-> k, rec |-> r])
        BY <2>1 DEF ReadLine
      <3>2. [commit |-> k, rec |-> r] \in [commit : CommitIds, rec : Universe]
        OBVIOUS
      <3> QED
        BY <3>1, <3>2 DEF ReadTypeOK
    <2>2. CASE UNCHANGED read
      BY <2>2 DEF ReadTypeOK
    <2> QED
      BY <2>1, <2>2
  <1> QED
    BY <1>1, <1>2, PTL DEF ReadSpec

\* The records, copies and entities of a reader are those the lemmas on
\* FoldRecords speak of.
LEMMA RecordsRead ==
  ASSUME ReadTypeOK
  PROVE  /\ Records \in Seq(NoteRecord)
         /\ Entities = EntitiesIn(Elems(Records))
         /\ \A e : Copies(e) = CopiesIn(Elems(Records), e)
  <1>1. Records \in Seq(NoteRecord)
    <2>1. \A i \in DOMAIN read : read[i].rec \in NoteRecord
      <3>1. \A i \in DOMAIN read : read[i] \in [commit : CommitIds, rec : Universe]
        <4> DEFINE T == [commit : CommitIds, rec : Universe]
        <4>1. read \in Seq(T)
          BY DEF ReadTypeOK
        <4> HIDE DEF T
        <4>2. \A i \in DOMAIN read : read[i] \in T
          BY <4>1
        <4> QED
          BY <4>2 DEF T
      <3>2. \A x \in [commit : CommitIds, rec : Universe] : x.rec \in Universe
        OBVIOUS
      <3>3. Universe \subseteq NoteRecord
        BY ReaderAssumption
      <3> QED
        BY <3>1, <3>2, <3>3
    <2>2. Len(read) \in Nat /\ DOMAIN read = 1 .. Len(read)
      BY DEF ReadTypeOK
    <2> QED
      BY <2>1, <2>2 DEF Records
  <1> QED
    BY <1>1 DEF Entities, Copies, EntitiesIn, CopiesIn, Elems

\* FoldIsConvergent holds of any lines whatever, in any order.
LEMMA FoldConverges ==
  ASSUME ReadTypeOK
  PROVE  FoldIsConvergent
  <1> DEFINE folded == FoldRecords(Records)
             S == Elems(Records)
  <1>1. Records \in Seq(NoteRecord) /\ Entities = EntitiesIn(S) /\ \A e : Copies(e) = CopiesIn(S, e)
    BY RecordsRead
  <1>2. /\ EntitiesIn(Elems(folded)) = EntitiesIn(S)
        /\ Cardinality(EntitiesIn(S)) = Len(folded)
        /\ \A i \in DOMAIN folded : folded[i] = Reference(CopiesIn(S, folded[i].ent))
    BY <1>1, FoldRecordsProperties
  <1> HIDE DEF folded, S
  <1>3. {folded[i].ent : i \in DOMAIN folded} = EntitiesIn(Elems(folded))
    BY DEF EntitiesIn, Elems
  <1>4. /\ {folded[i].ent : i \in DOMAIN folded} = Entities
        /\ Len(folded) = Cardinality(Entities)
        /\ \A i \in DOMAIN folded : folded[i] = Reference(Copies(folded[i].ent))
    BY <1>1, <1>2, <1>3
  <1> QED
    BY <1>4 DEF FoldIsConvergent, folded

\* Every machine that holds the same lines shows the same entries: fold_records
\* gives one record per entity, the one its copies mean as a set.
THEOREM FoldConvergence == ReadSpec => []FoldIsConvergent
  <1>1. ReadTypeOK => FoldIsConvergent
    BY FoldConverges
  <1> QED
    BY <1>1, ReadType, PTL

\* The reference record of the copies of an entity that was read.
LEMMA ReferenceOfCopies ==
  ASSUME ReadTypeOK, NEW e \in Entities
  PROVE  LET C == Copies(e)
         IN  /\ C \in SUBSET NoteRecord /\ Reference(C) \in NoteRecord
             /\ Reference(C).status = IF \E s \in C : s.status = "archived" THEN "archived" ELSE "active"
             /\ Reference(C).valid = MinPresent({s.valid : s \in C})
             /\ Reference(C).invalid = MinPresent({s.invalid : s \in C})
             /\ \E r \in C : IsBase(r, C) /\ Reference(C).created = r.created
  <1> DEFINE S == Elems(Records)
             C == Copies(e)
             folded == FoldRecords(Records)
  <1>1. Records \in Seq(NoteRecord) /\ e \in EntitiesIn(S) /\ C = CopiesIn(S, e)
    BY RecordsRead
  <1>2. C \in SUBSET NoteRecord /\ \A s \in C : s.ent = e
    BY <1>1 DEF CopiesIn, Elems
  <1>3. PICK r \in C : IsBase(r, C)
    <2>1. /\ EntitiesIn(Elems(folded)) = EntitiesIn(S)
          /\ \A i \in DOMAIN folded :
               \E r \in CopiesIn(S, folded[i].ent) : IsBase(r, CopiesIn(S, folded[i].ent))
      BY <1>1, FoldRecordsProperties
    <2> HIDE DEF folded, S, C
    <2>2. PICK i \in DOMAIN folded : folded[i].ent = e
      BY <1>1, <2>1 DEF EntitiesIn, Elems
    <2> QED
      BY <1>1, <2>1, <2>2
  <1> HIDE DEF C
  <1>4. /\ Reference(C) \in NoteRecord
        /\ Reference(C).created = r.created
        /\ Reference(C).status = IF \E s \in C : s.status = "archived" THEN "archived" ELSE "active"
        /\ Reference(C).valid = MinPresent({s.valid : s \in C})
        /\ Reference(C).invalid = MinPresent({s.invalid : s \in C})
    <2>1. Reference(C) \in NoteRecord /\ Summarises(Reference(C), r, C)
      BY <1>2, <1>3, ReferenceFields
    <2> QED
      BY <2>1 DEF Summarises
  <1> QED
    BY <1>2, <1>3, <1>4 DEF C

\* The windows of the two listings, read off the copies.
LEMMA WindowOfCopies ==
  ASSUME ReadTypeOK, NEW e \in Entities
  PROVE  LET C == Copies(e)
             from == {r.valid : r \in C} \ {Absent}
         IN  /\ RecordInWindow(Reference(C), FALSE, Absent) <=> \A r \in C : r.status = "active"
             /\ \A t \in Nat \ {Absent}, includeArchived \in BOOLEAN :
                  RecordInWindow(Reference(C), includeArchived, t)
                    <=> /\ IF from = {} THEN \E r \in C : r.created =< t
                           ELSE \E v \in from : v =< t
                        /\ \A r \in C : r.invalid = Absent \/ r.invalid > t
  <1> DEFINE C == Copies(e)
             ref == Reference(C)
             valids == {r.valid : r \in C}
             invalids == {r.invalid : r \in C}
             from == valids \ {Absent}
  <1>1. /\ C \in SUBSET NoteRecord /\ ref \in NoteRecord
        /\ ref.status = IF \E s \in C : s.status = "archived" THEN "archived" ELSE "active"
        /\ ref.valid = MinPresent(valids) /\ ref.invalid = MinPresent(invalids)
    BY ReferenceOfCopies
  <1>2. PICK base \in C : IsBase(base, C) /\ ref.created = base.created
    BY ReferenceOfCopies
  <1> HIDE DEF C, ref
  <1>3. \A r \in C : /\ r.status \in {"active", "archived"} /\ r.created \in Nat
                     /\ r.valid \in Nat /\ r.invalid \in Nat
    BY <1>1 DEF NoteRecord
  <1>4. \A r \in C : ref.created =< r.created
    <2> TAKE r \in C
    <2>1. ~KeyLess(r, base) /\ r.created \in Nat /\ base.created \in Nat
      BY <1>2, <1>3 DEF IsBase
    <2> QED
      BY <1>2, <2>1 DEF KeyLess
  <1>5. valids \in SUBSET Nat /\ invalids \in SUBSET Nat /\ ref.created \in Nat
    BY <1>2, <1>3
  <1>6. RecordInWindow(ref, FALSE, Absent) <=> \A r \in C : r.status = "active"
    <2>1. RecordInWindow(ref, FALSE, Absent) <=> ref.status # "archived"
      BY DEF RecordInWindow
    <2> QED
      BY <1>1, <1>3, <2>1
  <1>7. ASSUME NEW t \in Nat \ {Absent}, NEW includeArchived \in BOOLEAN
        PROVE  RecordInWindow(ref, includeArchived, t)
                 <=> /\ IF from = {} THEN \E r \in C : r.created =< t
                        ELSE \E v \in from : v =< t
                     /\ \A r \in C : r.invalid = Absent \/ r.invalid > t
    <2>1. RecordInWindow(ref, includeArchived, t)
            <=> /\ (IF ref.valid # Absent THEN ref.valid ELSE ref.created) =< t
                /\ ref.invalid = Absent \/ ref.invalid > t
      BY <1>7 DEF RecordInWindow
    <2>2. /\ ref.valid \in Nat
          /\ ref.valid = Absent <=> valids \subseteq {Absent}
          /\ ref.valid # Absent => ref.valid \in valids
          /\ \A x \in valids : x # Absent => ref.valid <= x
      <3> HIDE DEF valids
      <3> QED
        BY <1>1, <1>5, MinPresentProperties
    <2>3. /\ ref.invalid \in Nat
          /\ ref.invalid = Absent <=> invalids \subseteq {Absent}
          /\ ref.invalid # Absent => ref.invalid \in invalids
          /\ \A x \in invalids : x # Absent => ref.invalid <= x
      <3> HIDE DEF invalids
      <3> QED
        BY <1>1, <1>5, MinPresentProperties
    <2>4. (ref.invalid = Absent \/ ref.invalid > t)
            <=> \A x \in invalids : x = Absent \/ x > t
      <3> HIDE DEF invalids
      <3> QED
        BY <1>5, <1>7, <2>3
    <2>5. (\A x \in invalids : x = Absent \/ x > t)
            <=> \A r \in C : r.invalid = Absent \/ r.invalid > t
      OBVIOUS
    <2>6. CASE from = {}
      <3>1. ref.valid = Absent
        BY <2>2, <2>6
      <3>2. ref.created =< t <=> \E r \in C : r.created =< t
        BY <1>2, <1>3, <1>4, <1>5, <1>7
      <3> HIDE DEF from, invalids
      <3> QED
        BY <2>1, <2>4, <2>5, <2>6, <3>1, <3>2
    <2>7. CASE from # {}
      <3>1. ref.valid # Absent
        BY <2>2, <2>7
      <3>2. ref.valid =< t <=> \E v \in from : v =< t
        <4> HIDE DEF valids
        <4> QED
          BY <1>5, <1>7, <2>2, <3>1
      <3> HIDE DEF from, invalids
      <3> QED
        BY <2>1, <2>4, <2>5, <2>7, <3>1, <3>2
    <2> QED
      BY <2>6, <2>7
  <1> QED
    BY <1>6, <1>7 DEF C, ref

\* NoResurrection holds of any lines whatever, for every limit.
LEMMA ListingIsCurrent ==
  ASSUME ReadTypeOK
  PROVE  NoResurrection
  <1> DEFINE S == Elems(Records)
             live == {e \in Entities : \A r \in Copies(e) : r.status = "active"}
  <1>1. Records \in Seq(NoteRecord) /\ Entities = EntitiesIn(S) /\ \A e : Copies(e) = CopiesIn(S, e)
    BY RecordsRead
  <1>2. \A e \in Entities : RecordInWindow(Reference(Copies(e)), FALSE, Absent) <=> e \in live
    BY WindowOfCopies
  <1> HIDE DEF S
  <1>3. {e \in EntitiesIn(S) : RecordInWindow(Reference(CopiesIn(S, e)), FALSE, Absent)} = live
    BY <1>1, <1>2
  <1> HIDE DEF live
  <1> SUFFICES ASSUME NEW limit \in Limits
               PROVE  LET shown == Collect(Records, FALSE, Absent, limit)
                          shownEnts == {shown[i].ent : i \in DOMAIN shown}
                          Created(e) == Reference(Copies(e)).created
                      IN  /\ shownEnts \subseteq live
                          /\ Len(shown) = Min({limit, Cardinality(live)})
                          /\ \A e \in live \ shownEnts, f \in shownEnts : Created(e) =< Created(f)
    BY DEF NoResurrection, live
  <1> DEFINE shown == Collect(Records, FALSE, Absent, limit)
             shownEnts == {shown[i].ent : i \in DOMAIN shown}
             m == Cardinality(live)
  <1>4. limit \in Nat /\ Absent \in Nat
    BY ReaderAssumption DEF Absent
  <1>5. shownEnts = EntitiesIn(Elems(shown))
    <2> HIDE DEF shown
    <2> QED
      BY DEF EntitiesIn, Elems
  <1> HIDE DEF shown, shownEnts
  <1>6. /\ m \in Nat
        /\ Len(shown) = IF limit < m THEN limit ELSE m
        /\ shownEnts \subseteq live
        /\ \A e \in live \ shownEnts, f \in shownEnts :
             Reference(CopiesIn(S, e)).created <= Reference(CopiesIn(S, f)).created
    BY <1>1, <1>3, <1>4, <1>5, CollectProperties DEF S, shown
  <1> HIDE DEF m
  <1>7. Len(shown) = Min({limit, m})
    <2> DEFINE T == {limit, m}
    <2>1. T \in SUBSET Nat /\ T # {}
      BY <1>4, <1>6
    <2>2. Min(T) \in T /\ \A x \in T : Min(T) <= x
      <3> HIDE DEF T
      <3> QED
        BY <2>1, MinProperties
    <2> QED
      BY <1>4, <1>6, <2>2
  <1>8. \A e \in live \ shownEnts, f \in shownEnts : Reference(Copies(e)).created =< Reference(Copies(f)).created
    BY <1>1, <1>6
  <1> QED
    BY <1>6, <1>7, <1>8 DEF shown, shownEnts, m

\* No listing shows an archived entity as current, and a page drops only the
\* oldest entries, whatever was read and in whatever order.
THEOREM NoEntityResurrected == ReadSpec => []NoResurrection
  <1>1. ReadTypeOK => NoResurrection
    BY ListingIsCurrent
  <1> QED
    BY <1>1, ReadType, PTL

\* AsOfRespectsWindow holds of any lines whatever, at every moment.
LEMMA ListingIsAsOf ==
  ASSUME ReadTypeOK
  PROVE  AsOfRespectsWindow
  <1> DEFINE S == Elems(Records)
             valid(e) == {r.valid : r \in Copies(e)} \ {Absent}
             Holds(e, t) == /\ IF valid(e) = {} THEN \E r \in Copies(e) : r.created =< t
                               ELSE \E v \in valid(e) : v =< t
                            /\ \A r \in Copies(e) : r.invalid = Absent \/ r.invalid > t
  <1>1. Records \in Seq(NoteRecord) /\ Entities = EntitiesIn(S) /\ \A e : Copies(e) = CopiesIn(S, e)
    BY RecordsRead
  <1> SUFFICES ASSUME NEW t \in Moments, NEW includeArchived \in BOOLEAN
               PROVE  LET shown == Collect(Records, includeArchived, t, Len(Records))
                      IN  {shown[i].ent : i \in DOMAIN shown} = {e \in Entities : Holds(e, t)}
    BY DEF AsOfRespectsWindow
  <1> DEFINE shown == Collect(Records, includeArchived, t, Len(Records))
             Window == {e \in EntitiesIn(S) : RecordInWindow(Reference(CopiesIn(S, e)), includeArchived, t)}
  <1>2. t \in Nat \ {Absent} /\ t \in Nat /\ Len(Records) \in Nat
    BY <1>1, ReaderAssumption
  <1>3. \A e \in Entities : RecordInWindow(Reference(Copies(e)), includeArchived, t) <=> Holds(e, t)
    BY <1>2, WindowOfCopies
  <1> HIDE DEF Holds, S
  <1>4. Window = {e \in Entities : Holds(e, t)}
    BY <1>1, <1>3
  <1>5. {shown[i].ent : i \in DOMAIN shown} = EntitiesIn(Elems(shown))
    <2> HIDE DEF shown
    <2> QED
      BY DEF EntitiesIn, Elems
  <1> HIDE DEF shown, Window
  <1>6. /\ Cardinality(Window) <= Len(Records)
        /\ Cardinality(Window) <= Len(Records) => EntitiesIn(Elems(shown)) = Window
    BY <1>1, <1>2, CollectProperties DEF S, shown, Window
  <1>7. {shown[i].ent : i \in DOMAIN shown} = {e \in Entities : Holds(e, t)}
    BY <1>4, <1>5, <1>6
  <1> QED
    BY <1>7 DEF shown

\* A point-in-time listing shows exactly the entities whose copies place them in
\* the window, archived or not, whatever was read.
THEOREM AsOfWindow == ReadSpec => []AsOfRespectsWindow
  <1>1. ReadTypeOK => AsOfRespectsWindow
    BY ListingIsAsOf
  <1> QED
    BY <1>1, ReadType, PTL

-----------------------------------------------------------------------------
(***************************************************************************)
(* Part 2: the carrier.                                                    *)
(*                                                                         *)
(* The argument.  Versions form a history closed under ancestry (History); *)
(* every ref names a version that exists (RefsExist).  While no writer ran *)
(* unlocked, whoever is between its read and its write holds the lock      *)
(* (Exclusion), so the body it read is still the note of its target when it*)
(* writes (Writers), so every version extends its ancestors (Grows) and    *)
(* neither an append nor a three-way merge drops a line.                   *)
(***************************************************************************)

\* Every version has itself and the ancestors of its ancestors as ancestors.
History ==
  \A v \in 0 .. top :
    /\ v \in Ancestors(v)
    /\ Ancestors(v) \subseteq 0 .. top
    /\ \A u \in Ancestors(v) : Ancestors(u) \subseteq Ancestors(v)

\* Every ref names an existing version; what was fetched is in the remote's past.
RefsExist ==
  /\ remote \in 0 .. top
  /\ \A c \in Clones :
       /\ working[c] \in 0 .. top
       /\ tracking[c] \in 0 .. top
       /\ tracking[c] \in Ancestors(remote)

\* A process inside a critical section holds its clone's lock, or is a writer
\* whose lock was unusable.
Exclusion ==
  \A p \in Procs :
    pc[p] \in {"read", "write", "merge"} =>
      \/ lock[CloneOf[p]] = p
      \/ pc[p] # "merge" /\ unserialized

\* A writer has its line and its target, and what it read is still there.
Writers ==
  \A p \in Procs :
    /\ pc[p] \in {"lock", "read", "write"} => line[p] \in Lines
    /\ pc[p] = "write" =>
         /\ target[p] \in Commits
         /\ ~unserialized => body[p] = store[working[CloneOf[p]]].tree[target[p]]

\* A version keeps every line of its ancestors, note by note.
Grows ==
  ~unserialized =>
    \A v \in 0 .. top : \A u \in Ancestors(v), k \in Commits :
      store[u].tree[k] \subseteq store[v].tree[k]

\* Only an unlocked writer leaves a git child behind.
NoOrphans == ~unserialized => orphans = {}

IInv ==
  /\ TypeOK /\ History /\ RefsExist /\ Exclusion /\ Writers /\ Grows /\ NoOrphans
  /\ NoAckedEntryLost

-----------------------------------------------------------------------------
\* Every step either leaves all refs alone or is one of five steps of git
\* (git_notes/mod.rs and publish.rs run no other command that moves a ref).
LEMMA RefSteps ==
  ASSUME [Next]_vars
  PROVE  \/ UNCHANGED refs
         \/ \E p \in Procs : WriteNote(p) \/ MergeTracking(p) \/ PushLands(p)
         \/ \E o \in orphans : OrphanWrites(o)
         \/ \E c \in Clones : Fetch(c) /\ UNCHANGED <<store, top, working, remote, acked, unserialized>>
  <1>1. CASE UNCHANGED vars
    BY <1>1 DEF vars
  <1>2. CASE \E o \in orphans : OrphanWrites(o)
    BY <1>2
  <1>3. CASE \E c \in Clones : UserFetch(c)
    BY <1>3 DEF UserFetch, history
  <1>4. ASSUME NEW p \in Procs, Start(p) \/ Failure(p)
        PROVE  UNCHANGED refs
    BY <1>4 DEF Start, Failure, GitError, StartAppend, StartReadMerge, StartPublish, AppendFails, LockPathFails,
                MergeFails, PublishFetchFails, PushFails, Crash
  <1>5. ASSUME NEW p \in Procs, Step(p)
        PROVE  \/ UNCHANGED refs
               \/ WriteNote(p) \/ MergeTracking(p) \/ PushLands(p)
               \/ PublishFetch(p)
    BY <1>5 DEF Step, WriterLocks, WriterContended, WriterUnlocked, ReadNote, MergeLocks,
                MergeLockUnavailable, PushLosesRace
  <1>6. ASSUME NEW p \in Procs, PublishFetch(p)
        PROVE  \E c \in Clones : Fetch(c) /\ UNCHANGED <<store, top, working, remote, acked, unserialized>>
    BY <1>6, ConstantsAssumption DEF PublishFetch, history
  <1> QED
    BY <1>1, <1>2, <1>3, <1>4, <1>5, <1>6 DEF Next

\* What a new version is: git notes add and git notes merge only extend the
\* object store, and leave a history that is closed again.
LEMMA CommitExtends ==
  ASSUME TypeOK, History,
         NEW c \in Clones, NEW tree \in Trees,
         NEW parents \in SUBSET (0 .. top), Commit(c, tree, parents)
  PROVE  /\ top \in Nat /\ top' = top + 1 /\ top' \in Versions
         /\ store' \in [Versions -> [tree : Trees, anc : SUBSET Versions]]
         /\ \A v \in 0 .. top : store'[v] = store[v]
         /\ store'[top'] = [tree |-> tree, anc |-> {top'} \cup UNION {Ancestors(q) : q \in parents}]
         /\ working' = [working EXCEPT ![c] = top']
         /\ working' \in [Clones -> Versions]
         /\ History'
  <1>1. /\ top \in Nat /\ top' = top + 1 /\ top' \in Versions
        /\ 0 .. top \subseteq Versions /\ top' \notin 0 .. top
        /\ 0 .. top' = (0 .. top) \cup {top'}
    BY ConstantsAssumption DEF Commit, TypeOK, Versions
  <1> DEFINE anc == {top'} \cup UNION {Ancestors(q) : q \in parents}
  <1>2. anc \in SUBSET (0 .. top')
    BY <1>1 DEF History
  <1>3. anc \in SUBSET Versions
    BY <1>1, <1>2 DEF Versions
  <1>4. store' = [store EXCEPT ![top'] = [tree |-> tree, anc |-> anc]]
    BY DEF Commit
  <1>5. /\ store' \in [Versions -> [tree : Trees, anc : SUBSET Versions]]
        /\ \A v \in 0 .. top : store'[v] = store[v]
        /\ store'[top'] = [tree |-> tree, anc |-> anc]
    <2>1. [tree |-> tree, anc |-> anc] \in [tree : Trees, anc : SUBSET Versions]
      BY <1>3
    <2>2. store \in [Versions -> [tree : Trees, anc : SUBSET Versions]]
      BY DEF TypeOK
    <2> HIDE DEF anc
    <2> QED
      BY <1>1, <1>4, <2>1, <2>2
  <1>6. working' = [working EXCEPT ![c] = top'] /\ working' \in [Clones -> Versions]
    BY <1>1 DEF Commit, TypeOK
  <1>7. History'
    <2>1. ASSUME NEW v \in 0 .. top
          PROVE  /\ v \in store'[v].anc
                 /\ store'[v].anc \subseteq 0 .. top
                 /\ \A u \in store'[v].anc : store'[u].anc \subseteq store'[v].anc
      BY <1>5 DEF History, Ancestors
    <2>2. /\ top' \in store'[top'].anc
          /\ store'[top'].anc \subseteq 0 .. top'
      BY <1>2, <1>5
    <2>3. ASSUME NEW u \in anc
          PROVE  store'[u].anc \subseteq anc
      <3>1. CASE u = top'
        BY <3>1, <1>5
      <3>2. CASE u # top'
        <4>1. PICK q \in parents : u \in Ancestors(q)
          BY <3>2, <2>3
        <4>2. u \in 0 .. top /\ Ancestors(u) \subseteq Ancestors(q)
          BY <4>1 DEF History
        <4>3. store'[u].anc = Ancestors(u)
          BY <4>2, <1>5 DEF Ancestors
        <4> QED
          BY <4>2, <4>3
      <3> QED
        BY <3>1, <3>2
    <2>4. \A v \in 0 .. top' :
            /\ v \in store'[v].anc
            /\ store'[v].anc \subseteq 0 .. top'
            /\ \A u \in store'[v].anc : store'[u].anc \subseteq store'[v].anc
      <3>1. store'[top'].anc = anc
        BY <1>5
      <3> HIDE DEF anc
      <3> QED
        BY <1>1, <2>1, <2>2, <2>3, <3>1
    <2> QED
      BY <2>4 DEF History, Ancestors
  <1> QED
    BY <1>1, <1>5, <1>6, <1>7

\* A three-way cat_sort_uniq merge of two versions that extend their base
\* holds exactly what the two sides hold, note by note.
LEMMA MergeIsUnion ==
  ASSUME NEW base \in Trees, NEW ours \in Trees, NEW theirs \in Trees,
         \A k \in Commits : base[k] \subseteq ours[k] /\ base[k] \subseteq theirs[k]
  PROVE  CatSortUniq(base, ours, theirs) = [k \in Commits |-> ours[k] \cup theirs[k]]
  BY DEF CatSortUniq, Trees

\* The same merge of any three trees is a tree.
LEMMA MergeIsTree ==
  ASSUME NEW base \in Trees, NEW ours \in Trees, NEW theirs \in Trees
  PROVE  CatSortUniq(base, ours, theirs) \in Trees
  BY DEF CatSortUniq, Trees

\* The version append_to_git_notes makes.
LEMMA WriteCommits ==
  ASSUME IInv, NEW p \in Procs, WriteNote(p)
  PROVE  LET c == CloneOf[p] IN
         \E tree \in Trees :
           /\ tree = [store[working[c]].tree EXCEPT ![target[p]] = AppendedBody(p)]
           /\ Commit(c, tree, {working[c]})
           /\ c \in Clones
           /\ AppendedBody(p) \in SUBSET Lines
  <1>1. AppendedBody(p) \in SUBSET Lines
    BY DEF WriteNote, AppendedBody, IInv, TypeOK, Writers
  <1>2. CloneOf[p] \in Clones
    BY ConstantsAssumption
  <1>3. store[working[CloneOf[p]]].tree \in Trees
    BY <1>2 DEF IInv, TypeOK
  <1>4. [store[working[CloneOf[p]]].tree EXCEPT ![target[p]] = AppendedBody(p)] \in Trees
    BY <1>1, <1>3 DEF Trees
  <1> QED
    BY <1>1, <1>2, <1>4 DEF WriteNote, AddNote

\* The version a git child that outlived its killed writer makes.
LEMMA OrphanCommits ==
  ASSUME IInv, NEW o \in orphans, OrphanWrites(o)
  PROVE  \E tree \in Trees : Commit(o.clone, tree, {working[o.clone]}) /\ o.clone \in Clones
  <1>1. o \in Orphan
    BY DEF IInv, TypeOK
  <1>2. store[working[o.clone]].tree \in Trees
    BY <1>1 DEF IInv, TypeOK, Orphan
  <1>3. [store[working[o.clone]].tree EXCEPT ![o.commit] = o.lines] \in Trees
    BY <1>1, <1>2 DEF Trees, Orphan
  <1> QED
    BY <1>1, <1>3 DEF OrphanWrites, AddNote, Orphan

\* merge_tracking_notes leaves the ref, fast-forwards it, or makes the merge of
\* the two refs and a common ancestor.
LEMMA MergeCommits ==
  ASSUME IInv, NEW p \in Procs, MergeTracking(p)
  PROVE  LET c == CloneOf[p] IN
         /\ c \in Clones
         /\ \/ UNCHANGED <<store, top, working>>
            \/ /\ working[c] \in Ancestors(tracking[c])
               /\ working' = [working EXCEPT ![c] = tracking[c]]
               /\ UNCHANGED <<store, top>>
            \/ \E base \in Ancestors(working[c]) \cap Ancestors(tracking[c]), tree \in Trees :
                 /\ base \in 0 .. top
                 /\ tree = CatSortUniq(store[base].tree, store[working[c]].tree,
                                       store[tracking[c]].tree)
                 /\ Commit(c, tree, {working[c], tracking[c]})
  <1> DEFINE c == CloneOf[p]
  <1>1. c \in Clones
    BY ConstantsAssumption
  <1>2. ASSUME NEW base \in MergeBases(working[c], tracking[c]),
               Commit(c, CatSortUniq(store[base].tree, store[working[c]].tree,
                                     store[tracking[c]].tree), {working[c], tracking[c]})
        PROVE  \E b \in Ancestors(working[c]) \cap Ancestors(tracking[c]), tree \in Trees :
                 /\ b \in 0 .. top
                 /\ tree = CatSortUniq(store[b].tree, store[working[c]].tree,
                                       store[tracking[c]].tree)
                 /\ Commit(c, tree, {working[c], tracking[c]})
    <2>1. base \in Ancestors(working[c]) \cap Ancestors(tracking[c])
      BY DEF MergeBases
    <2>2. base \in 0 .. top
      BY <1>1, <2>1 DEF IInv, RefsExist, History
    <2>3. /\ store[base].tree \in Trees
          /\ store[working[c]].tree \in Trees
          /\ store[tracking[c]].tree \in Trees
      BY <1>1, <2>2, ConstantsAssumption DEF IInv, TypeOK, Versions
    <2>4. CatSortUniq(store[base].tree, store[working[c]].tree, store[tracking[c]].tree) \in Trees
      BY <2>3, MergeIsTree
    <2> QED
      BY <1>2, <2>1, <2>2, <2>4
  <1>3. CASE UNCHANGED <<store, top, working>>
    BY <1>1, <1>3
  <1>4. CASE /\ working[c] \in Ancestors(tracking[c])
             /\ working' = [working EXCEPT ![c] = tracking[c]]
             /\ UNCHANGED <<store, top>>
    BY <1>1, <1>4
  <1> QED
    BY <1>1, <1>2, <1>3, <1>4 DEF MergeTracking

-----------------------------------------------------------------------------
(* Preservation, one lemma per part of the invariant *)

\* The refs and the object store keep their types and their shape.
LEMMA RefsStep ==
  ASSUME IInv, [Next]_vars
  PROVE  /\ store' \in [Versions -> [tree : Trees, anc : SUBSET Versions]]
         /\ top' \in Versions
         /\ working' \in [Clones -> Versions]
         /\ tracking' \in [Clones -> Versions]
         /\ remote' \in Versions
         /\ History' /\ RefsExist'
  <1> DEFINE Goal ==
        /\ store' \in [Versions -> [tree : Trees, anc : SUBSET Versions]]
        /\ top' \in Versions
        /\ working' \in [Clones -> Versions]
        /\ tracking' \in [Clones -> Versions]
        /\ remote' \in Versions
        /\ History' /\ RefsExist'
  <1> USE DEF IInv
  <1>1. CASE UNCHANGED refs
    BY <1>1 DEF refs, TypeOK, History, RefsExist, Ancestors
  <1>2. ASSUME NEW c \in Clones, NEW tree \in Trees,
               NEW parents \in SUBSET {working[c], tracking[c]},
               Commit(c, tree, parents), UNCHANGED <<tracking, remote>>
        PROVE  Goal
    <2>1. parents \in SUBSET (0 .. top)
      BY DEF RefsExist
    <2>2. /\ top \in Nat /\ top' = top + 1 /\ top' \in Versions
          /\ store' \in [Versions -> [tree : Trees, anc : SUBSET Versions]]
          /\ \A v \in 0 .. top : store'[v] = store[v]
          /\ working' = [working EXCEPT ![c] = top']
          /\ working' \in [Clones -> Versions]
          /\ History'
      BY <1>2, <2>1, CommitExtends
    <2>3. 0 .. top \subseteq 0 .. top' /\ top' \in 0 .. top'
      BY <2>2
    <2>4. RefsExist'
      BY <1>2, <2>2, <2>3 DEF RefsExist, Ancestors, TypeOK
    <2> QED
      BY <1>2, <2>2, <2>4 DEF TypeOK
  <1>3. ASSUME NEW p \in Procs, WriteNote(p)
        PROVE  Goal
    BY <1>2, <1>3, WriteCommits DEF WriteNote
  <1>4. ASSUME NEW o \in orphans, OrphanWrites(o)
        PROVE  Goal
    BY <1>2, <1>4, OrphanCommits DEF OrphanWrites
  <1>5. ASSUME NEW p \in Procs, MergeTracking(p)
        PROVE  Goal
    <2> DEFINE c == CloneOf[p]
    <2>1. c \in Clones /\ UNCHANGED <<tracking, remote>>
      BY <1>5, ConstantsAssumption DEF MergeTracking
    <2>2. CASE UNCHANGED <<store, top, working>>
      BY <1>1, <2>1, <2>2 DEF refs
    <2>3. CASE /\ working' = [working EXCEPT ![c] = tracking[c]]
               /\ UNCHANGED <<store, top>>
      BY <2>1, <2>3 DEF TypeOK, History, RefsExist, Ancestors
    <2>4. CASE \E tree \in Trees : Commit(c, tree, {working[c], tracking[c]})
      BY <1>2, <2>1, <2>4
    <2> QED
      BY <1>5, <2>2, <2>3, <2>4, MergeCommits
  <1>6. ASSUME NEW c \in Clones, Fetch(c), UNCHANGED <<store, top, working, remote>>
        PROVE  Goal
    BY <1>6 DEF Fetch, TypeOK, History, RefsExist, Ancestors
  <1>7. ASSUME NEW p \in Procs, PushLands(p)
        PROVE  Goal
    BY <1>7, ConstantsAssumption
       DEF PushLands, FastForward, TypeOK, History, RefsExist, Ancestors
  <1> QED
    BY <1>1, <1>3, <1>4, <1>5, <1>6, <1>7, RefSteps

\* The processes' own state keeps its type.
LEMMA LocalsStep ==
  ASSUME IInv, [Next]_vars
  PROVE  /\ lock' \in [Clones -> Procs \cup {NoProc}]
         /\ pc' \in [Procs -> Labels]
         /\ line' \in [Procs -> Lines \cup {NoLine}]
         /\ target' \in [Procs -> Commits \cup {NoCommit}]
         /\ body' \in [Procs -> SUBSET Lines]
         /\ attempt' \in [Procs -> 0 .. MaxAttempts]
  <1> DEFINE Goal ==
        /\ lock' \in [Clones -> Procs \cup {NoProc}]
        /\ pc' \in [Procs -> Labels]
        /\ line' \in [Procs -> Lines \cup {NoLine}]
        /\ target' \in [Procs -> Commits \cup {NoCommit}]
        /\ body' \in [Procs -> SUBSET Lines]
        /\ attempt' \in [Procs -> 0 .. MaxAttempts]
  <1>0. TypeOK
    BY DEF IInv
  <1>1. CASE UNCHANGED <<lock, locals>>
    BY <1>0, <1>1 DEF TypeOK, locals
  <1>2. ASSUME NEW p \in Procs, Finish(p)
        PROVE  Goal
    BY <1>0, <1>2, ConstantsAssumption DEF Finish, Release, TypeOK, Labels
  <1>3. ASSUME NEW p \in Procs, Release(p) \/ UNCHANGED lock,
               UNCHANGED <<line, target, body, attempt>>,
               NEW label \in Labels, Goto(p, label)
        PROVE  Goal
    BY <1>0, <1>3 DEF Goto, Release, TypeOK
  <1>4. ASSUME NEW p \in Procs, Start(p)
        PROVE  Goal
    <2>1. ASSUME NEW l \in Lines, StartAppend(p, l)
          PROVE  Goal
      BY <1>0, <2>1 DEF StartAppend, Goto, TypeOK, Labels
    <2>2. CASE StartReadMerge(p)
      BY <1>3, <2>2 DEF StartReadMerge, Labels
    <2>3. CASE StartPublish(p)
      <3>1. 1 \in 0 .. MaxAttempts
        BY ConstantsAssumption
      <3> QED
        BY <1>0, <2>3, <3>1 DEF StartPublish, Goto, TypeOK, Labels
    <2> QED
      BY <1>4, <2>1, <2>2, <2>3 DEF Start
  <1>5. ASSUME NEW p \in Procs, AfterMerge(p)
        PROVE  Goal
    BY <1>2, <1>3, <1>5 DEF AfterMerge, Labels
  <1>6. ASSUME NEW p \in Procs, Failure(p)
        PROVE  Goal
    <2>1. CASE PublishFetchFails(p)
      BY <1>3, <2>1 DEF PublishFetchFails, Labels
    <2> QED
      BY <1>2, <1>5, <1>6, <2>1 DEF Failure, GitError, AppendFails, LockPathFails, MergeFails, PushFails, Crash
  <1>7. ASSUME NEW p \in Procs, Step(p)
        PROVE  Goal
    <2>1. CASE WriterLocks(p) \/ MergeLocks(p)
      <3>1. UNCHANGED <<line, target, body, attempt>> /\ \E label \in Labels : Goto(p, label)
        BY <2>1 DEF WriterLocks, MergeLocks, Labels
      <3>2. lock' = [lock EXCEPT ![CloneOf[p]] = p]
        BY <2>1 DEF WriterLocks, MergeLocks
      <3> QED
        BY <1>0, <3>1, <3>2 DEF Goto, TypeOK
    <2>2. CASE WriterUnlocked(p) \/ PublishFetch(p)
      BY <1>3, <2>2 DEF WriterUnlocked, PublishFetch, Labels
    <2>3. CASE ReadNote(p)
      <3>1. store[working[CloneOf[p]]].tree \in Trees
        BY <1>0, ConstantsAssumption DEF TypeOK
      <3> QED
        BY <1>0, <2>3, <3>1 DEF ReadNote, Goto, TypeOK, Labels, Trees
    <2>4. CASE PushLosesRace(p)
      <3>1. CASE Finish(p)
        BY <1>2, <3>1
      <3>2. CASE ~Finish(p)
        <4>1. /\ attempt[p] < MaxAttempts
              /\ attempt' = [attempt EXCEPT ![p] = @ + 1]
              /\ Goto(p, "fetch")
              /\ UNCHANGED <<lock, line, target, body>>
          BY <2>4, <3>2 DEF PushLosesRace
        <4>2. attempt[p] + 1 \in 0 .. MaxAttempts
          BY <1>0, <4>1, ConstantsAssumption DEF TypeOK
        <4> QED
          BY <1>0, <4>1, <4>2 DEF Goto, TypeOK, Labels
      <3> QED
        BY <3>1, <3>2
    <2> QED
      BY <1>2, <1>5, <1>7, <2>1, <2>2, <2>3, <2>4
         DEF Step, WriterContended, WriteNote, MergeLockUnavailable, MergeTracking, PushLands
  <1> QED
    BY <1>1, <1>4, <1>6, <1>7 DEF Next, vars, OrphanWrites, UserFetch

\* The history variables keep their type, and serialisation once lost stays lost.
LEMMA HistoryVarsStep ==
  ASSUME IInv, [Next]_vars
  PROVE  /\ written' \subseteq Lines
         /\ acked' \in [Clones -> SUBSET Lines]
         /\ orphans' \subseteq Orphan
         /\ unserialized' \in BOOLEAN
         /\ unserialized => unserialized'
         /\ NoOrphans'
  <1> DEFINE Goal ==
        /\ written' \subseteq Lines
        /\ acked' \in [Clones -> SUBSET Lines]
        /\ orphans' \subseteq Orphan
        /\ unserialized' \in BOOLEAN
        /\ unserialized => unserialized'
        /\ NoOrphans'
  <1>0. TypeOK /\ NoOrphans /\ Writers
    BY DEF IInv
  <1>1. CASE UNCHANGED history
    BY <1>0, <1>1 DEF history, TypeOK, NoOrphans
  <1>2. ASSUME NEW p \in Procs, NEW l \in Lines, StartAppend(p, l)
        PROVE  Goal
    BY <1>0, <1>2 DEF StartAppend, TypeOK, NoOrphans
  <1>3. ASSUME NEW p \in Procs, WriterUnlocked(p)
        PROVE  Goal
    BY <1>0, <1>3 DEF WriterUnlocked, TypeOK, NoOrphans
  <1>4. ASSUME NEW p \in Procs, WriteNote(p)
        PROVE  Goal
    <2>1. line[p] \in Lines
      BY <1>0, <1>4 DEF WriteNote, Writers
    <2> QED
      BY <1>0, <1>4, <2>1, ConstantsAssumption DEF WriteNote, TypeOK, NoOrphans
  <1>5. ASSUME NEW p \in Procs, Crash(p)
        PROVE  Goal
    <2>1. CASE UNCHANGED <<orphans, unserialized>>
      BY <1>0, <1>5, <2>1 DEF Crash, TypeOK, NoOrphans
    <2>2. CASE ~ UNCHANGED <<orphans, unserialized>>
      <3>1. pc[p] = "write" /\ UNCHANGED <<written, acked>> /\ unserialized' = TRUE
        BY <1>5, <2>2 DEF Crash
      <3>2. [clone |-> CloneOf[p], commit |-> target[p], lines |-> AppendedBody(p)] \in Orphan
        BY <1>0, <3>1, ConstantsAssumption DEF Orphan, AppendedBody, Writers, TypeOK
      <3> QED
        BY <1>0, <1>5, <2>2, <3>1, <3>2 DEF Crash, TypeOK, NoOrphans
    <2> QED
      BY <2>1, <2>2
  <1>6. ASSUME NEW o \in orphans, OrphanWrites(o)
        PROVE  Goal
    BY <1>0, <1>6 DEF OrphanWrites, TypeOK, NoOrphans
  <1>7. ASSUME NEW p \in Procs, Start(p) \/ Step(p) \/ Failure(p)
        PROVE  Goal
    BY <1>1, <1>2, <1>3, <1>4, <1>5, <1>7
       DEF Start, Step, Failure, GitError, StartReadMerge, StartPublish, WriterLocks, WriterContended,
           ReadNote, MergeLocks, MergeLockUnavailable, MergeTracking, PublishFetch, PushLands,
           PushLosesRace, AppendFails, LockPathFails, MergeFails, PublishFetchFails, PushFails
  <1> QED
    BY <1>1, <1>6, <1>7 DEF Next, vars, UserFetch

\* The lock excludes: a step of one process never puts two processes of a
\* clone between their read and their write.
LEMMA ExclusionStep ==
  ASSUME IInv, [Next]_vars
  PROVE  Exclusion'
  <1>0. TypeOK /\ Exclusion /\ (unserialized => unserialized')
    BY HistoryVarsStep DEF IInv
  <1>1. CASE UNCHANGED <<lock, pc>>
    BY <1>0, <1>1 DEF Exclusion
  \* p gives up its locks and leaves its critical section
  <1>2. ASSUME NEW p \in Procs, NEW label \in {"idle", "push"}, Release(p), Goto(p, label)
        PROVE  Exclusion'
    <2>1. ASSUME NEW q \in Procs, q # p, lock[CloneOf[q]] = q
          PROVE  lock'[CloneOf[q]] = q
      BY <1>2, <2>1, ConstantsAssumption DEF Release
    <2>2. \A q \in Procs : pc'[q] = IF q = p THEN label ELSE pc[q]
      BY <1>0, <1>2 DEF Goto, TypeOK
    <2> QED
      BY <1>0, <1>2, <2>1, <2>2 DEF Exclusion
  <1>3. ASSUME NEW p \in Procs, Finish(p)
        PROVE  Exclusion'
    BY <1>2, <1>3 DEF Finish, Goto
  <1>4. ASSUME NEW p \in Procs, AfterMerge(p)
        PROVE  Exclusion'
    BY <1>2, <1>3, <1>4 DEF AfterMerge
  \* p moves on outside its critical section
  <1>5. ASSUME NEW p \in Procs, NEW label \in {"lock", "mergelock", "fetch"},
               Goto(p, label), UNCHANGED lock
        PROVE  Exclusion'
    BY <1>0, <1>5 DEF Goto, Exclusion, TypeOK
  \* p takes a free lock and enters
  <1>6. ASSUME NEW p \in Procs, NEW label \in {"read", "merge"}, Goto(p, label),
               lock[CloneOf[p]] = NoProc, lock' = [lock EXCEPT ![CloneOf[p]] = p]
        PROVE  Exclusion'
    <2>1. lock'[CloneOf[p]] = p
      BY <1>0, <1>6, ConstantsAssumption DEF TypeOK
    <2>2. ASSUME NEW q \in Procs, lock[CloneOf[q]] = q
          PROVE  lock'[CloneOf[q]] = q
      BY <1>0, <1>6, <2>2, ConstantsAssumption DEF TypeOK
    <2>3. \A q \in Procs : pc'[q] = IF q = p THEN label ELSE pc[q]
      BY <1>0, <1>6 DEF Goto, TypeOK
    <2> QED
      BY <1>0, <2>1, <2>2, <2>3 DEF Exclusion
  <1>7. ASSUME NEW p \in Procs, WriterUnlocked(p)
        PROVE  Exclusion'
    BY <1>0, <1>7 DEF WriterUnlocked, Goto, Exclusion, TypeOK
  <1>8. ASSUME NEW p \in Procs, ReadNote(p)
        PROVE  Exclusion'
    BY <1>0, <1>8 DEF ReadNote, Goto, Exclusion, TypeOK
  <1>9. ASSUME NEW p \in Procs, Start(p)
        PROVE  Exclusion'
    BY <1>5, <1>9 DEF Start, StartAppend, StartReadMerge, StartPublish
  <1>10. ASSUME NEW p \in Procs, Step(p)
         PROVE  Exclusion'
    BY <1>3, <1>4, <1>5, <1>6, <1>7, <1>8, <1>10
       DEF Step, WriterLocks, WriterContended, WriteNote, MergeLocks, MergeLockUnavailable,
           MergeTracking, PublishFetch, PushLands, PushLosesRace
  <1>11. ASSUME NEW p \in Procs, Failure(p)
         PROVE  Exclusion'
    BY <1>3, <1>4, <1>5, <1>11
       DEF Failure, GitError, AppendFails, LockPathFails, MergeFails, PublishFetchFails, PushFails, Crash
  <1> QED
    BY <1>1, <1>9, <1>10, <1>11 DEF Next, vars, locals, OrphanWrites, UserFetch

\* While serialisation holds, only the holder of its lock moves a working ref.
LEMMA OnlyHolderMoves ==
  ASSUME IInv, [Next]_vars, ~unserialized,
         NEW c \in Clones, working'[c] # working[c]
  PROVE  lock[c] \in Procs /\ (WriteNote(lock[c]) \/ MergeTracking(lock[c]))
  <1>0. TypeOK /\ Exclusion
    BY DEF IInv
  <1>1. ASSUME NEW p \in Procs, WriteNote(p) \/ MergeTracking(p)
        PROVE  c = CloneOf[p] /\ lock[c] = p
    <2>1. working' = [working EXCEPT ![CloneOf[p]] = working'[CloneOf[p]]]
      BY <1>0, <1>1, ConstantsAssumption
         DEF WriteNote, MergeTracking, AddNote, Commit, TypeOK
    <2>2. c = CloneOf[p]
      BY <1>0, <2>1, ConstantsAssumption DEF TypeOK
    <2>3. lock[CloneOf[p]] = p
      BY <1>0, <1>1 DEF WriteNote, MergeTracking, Exclusion
    <2> QED
      BY <2>2, <2>3
  <1>2. ~ \E o \in orphans : OrphanWrites(o)
    BY DEF IInv, NoOrphans
  <1> QED
    BY <1>1, <1>2, RefSteps DEF refs, PushLands

\* git never changes a version once it is made.
LEMMA StoreKeeps ==
  ASSUME IInv, [Next]_vars
  PROVE  \A v \in 0 .. top : store'[v] = store[v]
  <1>1. ASSUME NEW c \in Clones, NEW tree \in Trees,
               NEW parents \in SUBSET {working[c], tracking[c]}, Commit(c, tree, parents)
        PROVE  \A v \in 0 .. top : store'[v] = store[v]
    <2>1. TypeOK /\ History /\ parents \in SUBSET (0 .. top)
      BY DEF IInv, RefsExist
    <2> QED
      BY <1>1, <2>1, CommitExtends
  <1>2. ASSUME NEW p \in Procs, WriteNote(p)
        PROVE  \A v \in 0 .. top : store'[v] = store[v]
    BY <1>1, <1>2, WriteCommits
  <1>3. ASSUME NEW o \in orphans, OrphanWrites(o)
        PROVE  \A v \in 0 .. top : store'[v] = store[v]
    BY <1>1, <1>3, OrphanCommits
  <1>4. ASSUME NEW p \in Procs, MergeTracking(p)
        PROVE  \A v \in 0 .. top : store'[v] = store[v]
    <2>1. \/ UNCHANGED store
          \/ \E tree \in Trees :
               Commit(CloneOf[p], tree, {working[CloneOf[p]], tracking[CloneOf[p]]})
      BY <1>4, MergeCommits
    <2>2. CloneOf[p] \in Clones
      BY ConstantsAssumption
    <2> QED
      BY <1>1, <2>1, <2>2
  <1> QED
    BY <1>2, <1>3, <1>4, RefSteps DEF refs, PushLands

\* What a step may do to a process that is writing afterwards.
LEMMA WriterSteps ==
  ASSUME IInv, [Next]_vars, NEW q \in Procs, pc'[q] \in {"lock", "read", "write"}
  PROVE  \/ UNCHANGED <<pc[q], line[q], target[q], body[q]>>
         \/ \E l \in Lines : StartAppend(q, l) /\ line'[q] = l
         \/ pc[q] = "lock" /\ pc'[q] = "read" /\ UNCHANGED line[q]
         \/ ReadNote(q)
  <1> DEFINE Goal ==
        \/ UNCHANGED <<pc[q], line[q], target[q], body[q]>>
        \/ \E l \in Lines : StartAppend(q, l) /\ line'[q] = l
        \/ pc[q] = "lock" /\ pc'[q] = "read" /\ UNCHANGED line[q]
        \/ ReadNote(q)
  <1>0. TypeOK
    BY DEF IInv
  <1>1. CASE UNCHANGED locals
    BY <1>1 DEF locals
  <1>2. ASSUME NEW p \in Procs, Finish(p)
        PROVE  Goal
    BY <1>0, <1>2 DEF Finish, TypeOK
  <1>3. ASSUME NEW p \in Procs, NEW label \in {"push", "mergelock", "fetch", "merge"},
               Goto(p, label), UNCHANGED <<line, target, body>>
        PROVE  Goal
    BY <1>0, <1>3 DEF Goto, TypeOK
  <1>4. ASSUME NEW p \in Procs, AfterMerge(p)
        PROVE  Goal
    BY <1>2, <1>3, <1>4 DEF AfterMerge
  <1>5. ASSUME NEW p \in Procs, Start(p)
        PROVE  Goal
    <2>1. ASSUME NEW l \in Lines, StartAppend(p, l)
          PROVE  Goal
      BY <1>0, <2>1 DEF StartAppend, Goto, TypeOK
    <2> QED
      BY <1>3, <1>5, <2>1 DEF Start, StartReadMerge, StartPublish
  <1>6. ASSUME NEW p \in Procs, WriterLocks(p) \/ WriterUnlocked(p)
        PROVE  Goal
    BY <1>0, <1>6 DEF WriterLocks, WriterUnlocked, Goto, TypeOK
  <1>7. ASSUME NEW p \in Procs, ReadNote(p)
        PROVE  Goal
    BY <1>0, <1>7 DEF ReadNote, Goto, TypeOK
  <1>8. ASSUME NEW p \in Procs, Step(p)
        PROVE  Goal
    BY <1>2, <1>3, <1>4, <1>6, <1>7, <1>8
       DEF Step, WriterContended, WriteNote, MergeLocks, MergeLockUnavailable, MergeTracking,
           PublishFetch, PushLands, PushLosesRace
  <1>9. ASSUME NEW p \in Procs, Failure(p)
        PROVE  Goal
    BY <1>2, <1>3, <1>4, <1>9
       DEF Failure, GitError, AppendFails, LockPathFails, MergeFails, PublishFetchFails, PushFails, Crash
  <1> QED
    BY <1>1, <1>5, <1>8, <1>9 DEF Next, vars, OrphanWrites, UserFetch

\* No step changes the note between a serialised writer's read and its write.
LEMMA WritersStep ==
  ASSUME IInv, [Next]_vars
  PROVE  Writers'
  <1> SUFFICES ASSUME NEW q \in Procs, pc'[q] \in {"lock", "read", "write"}
               PROVE  /\ line'[q] \in Lines
                      /\ pc'[q] = "write" =>
                           /\ target'[q] \in Commits
                           /\ ~unserialized' =>
                                body'[q] = store'[working'[CloneOf[q]]].tree[target'[q]]
    BY DEF Writers
  <1>0. TypeOK /\ Writers /\ Exclusion /\ RefsExist /\ (unserialized => unserialized')
    BY HistoryVarsStep DEF IInv
  <1>1. CASE \E l \in Lines : StartAppend(q, l) /\ line'[q] = l
    BY <1>0, <1>1 DEF StartAppend, Goto, TypeOK
  <1>2. CASE pc[q] = "lock" /\ pc'[q] = "read" /\ UNCHANGED line[q]
    BY <1>0, <1>2 DEF Writers
  <1>3. CASE ReadNote(q)
    BY <1>0, <1>3 DEF ReadNote, Writers, TypeOK, refs
  <1>4. CASE UNCHANGED <<pc[q], line[q], target[q], body[q]>>
    <2>1. /\ line'[q] \in Lines
          /\ pc'[q] = "write" => target'[q] \in Commits
      BY <1>0, <1>4 DEF Writers
    <2>2. ASSUME pc'[q] = "write", ~unserialized'
          PROVE  body'[q] = store'[working'[CloneOf[q]]].tree[target'[q]]
      <3>1. CloneOf[q] \in Clones /\ ~unserialized /\ pc[q] = "write"
        BY <1>0, <1>4, <2>2, ConstantsAssumption
      <3>2. lock[CloneOf[q]] = q
        BY <1>0, <3>1 DEF Exclusion
      <3>3. ~ WriteNote(q) /\ ~ MergeTracking(q)
        <4>1. ASSUME WriteNote(q) PROVE FALSE
          BY <1>0, <2>2, <4>1 DEF WriteNote, Finish, TypeOK
        <4> QED
          BY <3>1, <4>1 DEF MergeTracking
      <3>4. working'[CloneOf[q]] = working[CloneOf[q]]
        BY <3>1, <3>2, <3>3, OnlyHolderMoves
      <3>5. store'[working[CloneOf[q]]] = store[working[CloneOf[q]]]
        BY <1>0, <3>1, StoreKeeps DEF RefsExist
      <3> QED
        BY <1>0, <1>4, <3>1, <3>4, <3>5 DEF Writers
    <2> QED
      BY <2>1, <2>2
  <1> QED
    BY <1>1, <1>2, <1>3, <1>4, WriterSteps

-----------------------------------------------------------------------------
(* What the writing steps do to the lines a clone holds *)

\* The lines each clone's working ref holds: the refinement mapping for held.
Held == [c \in Clones |-> LinesOf(working[c])]

\* A version whose tree extends its parents' extends all of its ancestors, and
\* the clones that did not get it hold what they held.
LEMMA NewVersion ==
  ASSUME IInv, ~unserialized,
         NEW c \in Clones, NEW tree \in Trees,
         NEW parents \in SUBSET (0 .. top), Commit(c, tree, parents),
         UNCHANGED <<tracking, remote, unserialized>>,
         \A q \in parents, k \in Commits : store[q].tree[k] \subseteq tree[k]
  PROVE  /\ Grows'
         /\ Held' = [Held EXCEPT ![c] = UNION {tree[k] : k \in Commits}]
         /\ LinesOf(remote)' = LinesOf(remote)
  <1>0. TypeOK /\ History /\ RefsExist /\ Grows
    BY DEF IInv
  <1>1. /\ top \in Nat /\ top' = top + 1
        /\ \A v \in 0 .. top : store'[v] = store[v]
        /\ store'[top'] = [tree |-> tree, anc |-> {top'} \cup UNION {Ancestors(q) : q \in parents}]
        /\ working' = [working EXCEPT ![c] = top']
    BY <1>0, CommitExtends
  <1>2. 0 .. top' = (0 .. top) \cup {top'} /\ top' \notin 0 .. top
    BY <1>1
  <1>3. ASSUME NEW v \in 0 .. top, NEW u \in store'[v].anc, NEW k \in Commits
        PROVE  store'[u].tree[k] \subseteq store'[v].tree[k]
    <2>1. u \in Ancestors(v) /\ u \in 0 .. top
      BY <1>0, <1>1 DEF History, Ancestors
    <2> QED
      BY <1>0, <1>1, <2>1 DEF Grows
  <1>4. ASSUME NEW u \in store'[top'].anc, NEW k \in Commits
        PROVE  store'[u].tree[k] \subseteq store'[top'].tree[k]
    <2>1. CASE u = top'
      BY <2>1
    <2>2. CASE u # top'
      <3>1. PICK q \in parents : u \in Ancestors(q)
        BY <1>1, <2>2
      <3>2. u \in 0 .. top /\ store[u].tree[k] \subseteq store[q].tree[k]
        BY <1>0, <3>1 DEF History, Grows
      <3> QED
        BY <1>1, <3>1, <3>2
    <2> QED
      BY <2>1, <2>2
  <1>5. Grows'
    BY <1>2, <1>3, <1>4 DEF Grows, Ancestors
  <1>6. ASSUME NEW d \in Clones
        PROVE  LinesOf(working[d])' =
                 IF d = c THEN UNION {tree[k] : k \in Commits} ELSE LinesOf(working[d])
    BY <1>0, <1>1 DEF LinesOf, RefsExist, TypeOK
  <1>7. Held' = [Held EXCEPT ![c] = UNION {tree[k] : k \in Commits}]
    BY <1>6 DEF Held
  <1>8. LinesOf(remote)' = LinesOf(remote)
    BY <1>0, <1>1 DEF LinesOf, RefsExist
  <1> QED
    BY <1>5, <1>7, <1>8

\* append_to_git_notes adds its line to what its clone holds, and nothing else.
LEMMA AppendAdds ==
  ASSUME IInv, ~unserialized, NEW p \in Procs, WriteNote(p)
  PROVE  /\ Grows'
         /\ Held' = [Held EXCEPT ![CloneOf[p]] = @ \cup {line[p]}]
         /\ LinesOf(remote)' = LinesOf(remote)
         /\ line[p] \in Lines
  <1> DEFINE c == CloneOf[p]
             old == store[working[c]].tree
             tree == [old EXCEPT ![target[p]] = AppendedBody(p)]
  <1>1. c \in Clones /\ target[p] \in Commits /\ line[p] \in Lines /\ body[p] = old[target[p]]
    BY ConstantsAssumption DEF IInv, Writers, WriteNote
  <1>2. tree \in Trees /\ Commit(c, tree, {working[c]})
    BY WriteCommits
  <1>3. old \in Trees /\ {working[c]} \in SUBSET (0 .. top)
    BY <1>1 DEF IInv, TypeOK, RefsExist
  <1>4. /\ tree[target[p]] = old[target[p]] \cup {line[p]}
        /\ \A k \in Commits \ {target[p]} : tree[k] = old[k]
    BY <1>1, <1>3 DEF Trees, AppendedBody
  <1>5. UNION {tree[k] : k \in Commits} = LinesOf(working[c]) \cup {line[p]}
    BY <1>1, <1>4 DEF LinesOf
  <1>6. \A q \in {working[c]}, k \in Commits : store[q].tree[k] \subseteq tree[k]
    BY <1>4
  <1>7. UNCHANGED <<tracking, remote, unserialized>>
    BY DEF WriteNote
  <1>8. /\ Grows'
        /\ Held' = [Held EXCEPT ![c] = UNION {tree[k] : k \in Commits}]
        /\ LinesOf(remote)' = LinesOf(remote)
    <2> HIDE DEF tree, c
    <2> QED
      BY <1>1, <1>2, <1>3, <1>6, <1>7, NewVersion
  <1>9. Held[c] = LinesOf(working[c])
    BY <1>1 DEF Held
  <1> QED
    BY <1>1, <1>5, <1>8, <1>9

\* merge_tracking_notes only ever adds lines, and only lines the remote has.
LEMMA MergeLearns ==
  ASSUME IInv, ~unserialized, NEW p \in Procs, MergeTracking(p)
  PROVE  /\ Grows'
         /\ \E S \in SUBSET LinesOf(remote) : Held' = [Held EXCEPT ![CloneOf[p]] = @ \cup S]
         /\ LinesOf(remote)' = LinesOf(remote)
  <1> DEFINE c == CloneOf[p]
             ours == working[c]
             theirs == tracking[c]
  <1>0. TypeOK /\ History /\ RefsExist /\ Grows
    BY DEF IInv
  <1>1. c \in Clones /\ UNCHANGED <<tracking, remote, unserialized>>
    BY ConstantsAssumption DEF MergeTracking, history
  <1>2. ours \in 0 .. top /\ theirs \in 0 .. top
    BY <1>0, <1>1 DEF RefsExist
  <1>3. LinesOf(theirs) \in SUBSET LinesOf(remote)
    <2>1. theirs \in Ancestors(remote) /\ remote \in 0 .. top
      BY <1>0, <1>1 DEF RefsExist
    <2>2. \A k \in Commits : store[theirs].tree[k] \subseteq store[remote].tree[k]
      BY <1>0, <2>1 DEF Grows
    <2> QED
      BY <2>2 DEF LinesOf
  <1>4. Held[c] = LinesOf(ours)
    BY <1>1 DEF Held
  <1>5. CASE UNCHANGED <<store, top, working>>
    <2>1. Held' = Held /\ LinesOf(remote)' = LinesOf(remote) /\ Grows'
      BY <1>0, <1>1, <1>5 DEF Held, LinesOf, Grows, Ancestors
    <2>2. Held = [Held EXCEPT ![c] = @ \cup {}]
      BY <1>1 DEF Held
    <2> QED
      BY <2>1, <2>2
  <1>6. CASE /\ ours \in Ancestors(theirs)
             /\ working' = [working EXCEPT ![c] = theirs]
             /\ UNCHANGED <<store, top>>
    <2>1. \A k \in Commits : store[ours].tree[k] \subseteq store[theirs].tree[k]
      BY <1>0, <1>2, <1>6 DEF Grows
    <2>2. LinesOf(theirs) = LinesOf(ours) \cup LinesOf(theirs)
      BY <2>1 DEF LinesOf
    <2>3. Grows' /\ LinesOf(remote)' = LinesOf(remote)
      BY <1>0, <1>1, <1>6 DEF Grows, Ancestors, LinesOf
    <2>4. ASSUME NEW d \in Clones
          PROVE  LinesOf(working[d])' = IF d = c THEN LinesOf(theirs) ELSE LinesOf(working[d])
      BY <1>0, <1>6 DEF LinesOf, TypeOK
    <2>5. Held' = [Held EXCEPT ![c] = LinesOf(ours) \cup LinesOf(theirs)]
      BY <2>2, <2>4 DEF Held
    <2> QED
      BY <1>3, <1>4, <2>3, <2>5
  <1>7. ASSUME NEW base \in Ancestors(ours) \cap Ancestors(theirs), NEW tree \in Trees,
               base \in 0 .. top,
               tree = CatSortUniq(store[base].tree, store[ours].tree, store[theirs].tree),
               Commit(c, tree, {ours, theirs})
        PROVE  /\ Grows'
               /\ Held' = [Held EXCEPT ![c] = LinesOf(ours) \cup LinesOf(theirs)]
               /\ LinesOf(remote)' = LinesOf(remote)
    <2>1. store[base].tree \in Trees /\ store[ours].tree \in Trees /\ store[theirs].tree \in Trees
      BY <1>0, <1>1, <1>7, ConstantsAssumption DEF TypeOK, Versions
    <2>2. \A k \in Commits : /\ store[base].tree[k] \subseteq store[ours].tree[k]
                             /\ store[base].tree[k] \subseteq store[theirs].tree[k]
      BY <1>0, <1>2, <1>7 DEF Grows
    <2>3. tree = [k \in Commits |-> store[ours].tree[k] \cup store[theirs].tree[k]]
      <3>1. CatSortUniq(store[base].tree, store[ours].tree, store[theirs].tree)
              = [k \in Commits |-> store[ours].tree[k] \cup store[theirs].tree[k]]
        <4> HIDE DEF c, ours, theirs
        <4> QED
          BY <2>1, <2>2, MergeIsUnion, ZenonT(40)
      <3> QED
        BY <1>7, <3>1
    <2>4. UNION {tree[k] : k \in Commits} = LinesOf(ours) \cup LinesOf(theirs)
      BY <2>3 DEF LinesOf
    <2>5. \A q \in {ours, theirs}, k \in Commits : store[q].tree[k] \subseteq tree[k]
      BY <2>3
    <2> QED
      <3> HIDE DEF c, ours, theirs
      <3> QED
        BY <1>1, <1>2, <1>7, <2>4, <2>5, NewVersion
  <1> QED
    BY <1>3, <1>4, <1>5, <1>6, <1>7, MergeCommits

\* A push that lands gives the remote exactly what the pushing clone holds,
\* which includes all the remote had.
LEMMA PushPublishes ==
  ASSUME IInv, ~unserialized, NEW p \in Procs, PushLands(p)
  PROVE  /\ Grows'
         /\ Held' = Held
         /\ LinesOf(remote) \subseteq Held[CloneOf[p]]
         /\ LinesOf(remote)' = Held[CloneOf[p]]
  <1>1. CloneOf[p] \in Clones /\ Grows /\ RefsExist
    BY ConstantsAssumption DEF IInv
  <1>2. /\ remote \in Ancestors(working[CloneOf[p]])
        /\ remote' = working[CloneOf[p]]
        /\ UNCHANGED <<store, top, working, unserialized>>
    BY DEF PushLands, FastForward, history
  <1>3. Grows' /\ Held' = Held /\ LinesOf(remote)' = LinesOf(working[CloneOf[p]])
    BY <1>1, <1>2 DEF Grows, Held, LinesOf, Ancestors
  <1>4. \A k \in Commits : store[remote].tree[k] \subseteq store[working[CloneOf[p]]].tree[k]
    BY <1>1, <1>2 DEF Grows, RefsExist
  <1>5. LinesOf(remote) \subseteq LinesOf(working[CloneOf[p]])
    BY <1>4 DEF LinesOf
  <1> QED
    BY <1>1, <1>3, <1>5 DEF Held

\* A step as the log sees it: nothing, an append, a merge or a publish.
LogStep ==
  \/ UNCHANGED <<Held, LinesOf(remote), acked>>
  \/ \E p \in Procs :
       /\ Held' = [Held EXCEPT ![CloneOf[p]] = @ \cup {line[p]}]
       /\ acked' = [acked EXCEPT ![CloneOf[p]] = @ \cup {line[p]}]
       /\ line[p] \in Lines
       /\ UNCHANGED LinesOf(remote)
  \/ \E p \in Procs, S \in SUBSET LinesOf(remote) :
       /\ Held' = [Held EXCEPT ![CloneOf[p]] = @ \cup S]
       /\ UNCHANGED <<LinesOf(remote), acked>>
  \/ \E p \in Procs :
       /\ LinesOf(remote) \subseteq Held[CloneOf[p]]
       /\ LinesOf(remote)' = Held[CloneOf[p]]
       /\ UNCHANGED <<Held, acked>>

\* Every step of a serialised carrier is a step of the log or leaves what the
\* clones and the remote hold as it was.
LEMMA LogSteps ==
  ASSUME IInv, [Next]_vars, ~unserialized, ~unserialized'
  PROVE  Grows' /\ LogStep
  <1>1. ASSUME NEW p \in Procs, WriteNote(p)
        PROVE  Grows' /\ LogStep
    BY <1>1, AppendAdds DEF WriteNote, LogStep
  <1>2. ASSUME NEW p \in Procs, MergeTracking(p)
        PROVE  Grows' /\ LogStep
    <2>1. UNCHANGED acked
      BY <1>2 DEF MergeTracking, history
    <2> QED
      BY <1>2, <2>1, MergeLearns DEF LogStep
  <1>3. ASSUME NEW p \in Procs, PushLands(p)
        PROVE  Grows' /\ LogStep
    <2>1. UNCHANGED acked
      BY <1>3 DEF PushLands, history
    <2> QED
      BY <1>3, <2>1, PushPublishes DEF LogStep
  <1>4. CASE UNCHANGED <<store, top, working, remote>> /\ acked' = acked
    <2>1. Grows' /\ UNCHANGED <<Held, LinesOf(remote)>>
      BY <1>4 DEF IInv, Grows, Held, LinesOf, Ancestors
    <2> QED
      BY <1>4, <2>1 DEF LogStep
  <1>5. ~ \E o \in orphans : OrphanWrites(o)
    BY DEF IInv, NoOrphans
  <1>6. UNCHANGED acked \/ \E p \in Procs : WriteNote(p)
    BY DEF Next, Start, Step, Failure, GitError, history, vars, OrphanWrites, UserFetch,
           StartAppend, StartReadMerge, StartPublish, WriterLocks, WriterContended,
           WriterUnlocked, ReadNote, MergeLocks, MergeLockUnavailable, MergeTracking,
           PublishFetch, PushLands, PushLosesRace, AppendFails, LockPathFails, MergeFails,
           PublishFetchFails, PushFails, Crash
  <1> QED
    BY <1>1, <1>2, <1>3, <1>4, <1>5, <1>6, RefSteps DEF refs

\* An acknowledged entry stays.
LEMMA AckedStep ==
  ASSUME IInv, [Next]_vars
  PROVE  Grows' /\ NoAckedEntryLost'
  <1> SUFFICES ASSUME ~unserialized'
               PROVE  Grows' /\ NoAckedEntryLost'
    BY DEF Grows, NoAckedEntryLost
  <1>0. ~unserialized
    BY HistoryVarsStep
  <1>1. acked \in [Clones -> SUBSET Lines] /\ \A c \in Clones : acked[c] \subseteq Held[c]
    BY <1>0 DEF IInv, TypeOK, NoAckedEntryLost, Held
  <1>2. \A p \in Procs : CloneOf[p] \in Clones
    BY ConstantsAssumption
  <1>3. Held = [c \in Clones |-> Held[c]]
    BY DEF Held
  <1>4. \A c \in Clones : acked'[c] \subseteq Held'[c]
    <2> HIDE DEF Held
    <2> QED
      BY <1>0, <1>1, <1>2, <1>3, LogSteps DEF LogStep
  <1>5. NoAckedEntryLost'
    BY <1>4 DEF NoAckedEntryLost, Held
  <1> QED
    BY <1>0, <1>5, LogSteps

-----------------------------------------------------------------------------
(* What the carrier promises *)

\* A repository without notes satisfies the invariant.
LEMMA InitEstablishes == Init => IInv
  <1> SUFFICES ASSUME Init PROVE IInv
    OBVIOUS
  <1>1. 0 \in Versions /\ 0 .. 0 = {0} /\ 0 \in 0 .. MaxAttempts
    BY ConstantsAssumption DEF Versions
  <1>2. EmptyTree \in Trees
    BY DEF EmptyTree, Trees
  <1>3. TypeOK
    BY <1>1, <1>2, ConstantsAssumption DEF Init, TypeOK, Labels
  <1>4. store[0] = [tree |-> EmptyTree, anc |-> {0}]
    BY <1>1 DEF Init
  <1>5. History /\ RefsExist /\ Grows
    BY <1>1, <1>4 DEF Init, History, RefsExist, Grows, Ancestors
  <1>6. Exclusion /\ Writers /\ NoOrphans /\ NoAckedEntryLost
    BY DEF Init, Exclusion, Writers, NoOrphans, NoAckedEntryLost
  <1> QED
    BY <1>3, <1>5, <1>6 DEF IInv

\* Every step of every process keeps the invariant.
LEMMA StepPreserves == IInv /\ [Next]_vars => IInv'
  <1> SUFFICES ASSUME IInv, [Next]_vars PROVE IInv'
    OBVIOUS
  <1>1. TypeOK' /\ History' /\ RefsExist' /\ NoOrphans'
    BY RefsStep, LocalsStep, HistoryVarsStep DEF TypeOK
  <1>2. Exclusion' /\ Writers' /\ Grows' /\ NoAckedEntryLost'
    BY ExclusionStep, WritersStep, AckedStep
  <1> QED
    BY <1>1, <1>2 DEF IInv

\* The invariant holds in every reachable state.
LEMMA Invariance == Spec => []IInv
  BY InitEstablishes, StepPreserves, PTL DEF Spec

\* Every variable keeps its type.
THEOREM TypeCorrect == Spec => []TypeOK
  <1>1. IInv => TypeOK
    BY DEF IInv
  <1> QED
    BY <1>1, Invariance, PTL

\* An entry whose append returned Ok stays on the working ref of its clone,
\* whatever other processes append, merge, fetch and publish, and however they
\* fail, as long as no read-modify-write ran without the lock (issue #185).
THEOREM AckedEntriesStay == Spec => []NoAckedEntryLost
  <1>1. IInv => NoAckedEntryLost
    BY DEF IInv
  <1> QED
    BY <1>1, Invariance, PTL

\* publish_notes never rewinds the shared ref, with or without a working lock.
THEOREM SharedRefOnlyAdvances == Spec => RemoteNeverRewinds
  <1>1. IInv /\ [Next]_vars => (remote \in Ancestors(remote)') \/ UNCHANGED vars
    <2> SUFFICES ASSUME IInv, [Next]_vars
                 PROVE  remote \in store'[remote'].anc
      BY DEF Ancestors
    <2>1. CASE \E p \in Procs : PushLands(p)
      BY <2>1 DEF PushLands, FastForward, Ancestors
    <2>2. CASE UNCHANGED remote
      <3>1. remote \in 0 .. top /\ remote \in Ancestors(remote)
        BY DEF IInv, RefsExist, History
      <3> QED
        BY <2>2, <3>1, StoreKeeps DEF Ancestors
    <2>3. UNCHANGED remote \/ \E p \in Procs : PushLands(p)
      BY RefSteps DEF refs, WriteNote, MergeTracking, OrphanWrites
    <2> QED
      BY <2>1, <2>2, <2>3
  <1> QED
    BY <1>1, Invariance, PTL DEF Spec, RemoteNeverRewinds

\* The carrier implements the append-only log of NotesLog.
THEOREM RefinesLog == Spec => ImplementsLog
  <1>1. Init => Log!Init
    <2> SUFFICES ASSUME Init PROVE Log!Init
      OBVIOUS
    <2>1. store[0].tree = EmptyTree
      BY ConstantsAssumption DEF Init, Versions
    <2>2. LinesOf(0) = {}
      BY <2>1 DEF LinesOf, EmptyTree
    <2> QED
      BY <2>2 DEF Init, Log!Init
  <1>2. IInv /\ IInv' /\ [Next]_vars => [Log!Next]_(Log!vars)
    <2> SUFFICES ASSUME IInv, IInv', [Next]_vars
                 PROVE  Log!Next \/ UNCHANGED Log!vars
      OBVIOUS
    <2>1. CASE unserialized'
      <3>1. /\ \A c \in Clones : LinesOf(working[c])' \in SUBSET Lines
            /\ LinesOf(remote)' \in SUBSET Lines
        BY DEF IInv, TypeOK, LinesOf, Trees
      <3> QED
        BY <2>1, <3>1 DEF Log!Next, Log!Break
    <2>2. CASE ~unserialized'
      <3>0. ~unserialized /\ \A p \in Procs : CloneOf[p] \in Clones
        BY <2>2, HistoryVarsStep, ConstantsAssumption
      <3>1. CASE UNCHANGED <<Held, LinesOf(remote)>>
        <4>1. unserialized' = unserialized
          <5>1. unserialized \in BOOLEAN /\ unserialized' \in BOOLEAN
            BY DEF IInv, TypeOK
          <5> QED
            BY <2>2, <3>0, <5>1, Zenon
        <4> QED
          BY <3>1, <4>1 DEF Log!vars, Held
      <3>2. ASSUME NEW p \in Procs, line[p] \in Lines,
                   Held' = [Held EXCEPT ![CloneOf[p]] = @ \cup {line[p]}],
                   UNCHANGED LinesOf(remote)
            PROVE  Log!Append(CloneOf[p])
        BY <2>2, <3>0, <3>2 DEF Log!Append, Held
      <3>3. ASSUME NEW p \in Procs, NEW S \in SUBSET LinesOf(remote),
                   Held' = [Held EXCEPT ![CloneOf[p]] = @ \cup S],
                   UNCHANGED LinesOf(remote)
            PROVE  Log!Learn(CloneOf[p])
        BY <2>2, <3>0, <3>3 DEF Log!Learn, Held
      <3>4. ASSUME NEW p \in Procs, LinesOf(remote) \subseteq Held[CloneOf[p]],
                   LinesOf(remote)' = Held[CloneOf[p]], UNCHANGED Held
            PROVE  Log!Publish(CloneOf[p])
        BY <2>2, <3>0, <3>4 DEF Log!Publish, Held
      <3> QED
        BY <2>2, <3>0, <3>1, <3>2, <3>3, <3>4, LogSteps DEF Log!Next, LogStep
    <2> QED
      BY <2>1, <2>2
  <1> QED
    BY <1>1, <1>2, Invariance, PTL DEF Spec, ImplementsLog, Log!Spec

-----------------------------------------------------------------------------
(***************************************************************************)
(* Part 3: the view.                                                       *)
(*                                                                         *)
(* The argument.  A line is noted on one commit, in every version that has *)
(* it, and wherever a state update is noted so is the entry it is about    *)
(* (Provenance): a line a process may still write is noted nowhere and is no*)
(* other's (PendingFresh).  So what reaches a clone is its old lines and   *)
(* updates of them, and the anchor of an entry, the least copy in the order*)
(* of base_key, is one of the old lines still (UpdatesKeepBase).           *)
(***************************************************************************)

\* The order records_with_commit lists the noted lines of a tree in.
NotedBefore(tree) == {p \in Noted(tree) \X Noted(tree) : Before(p[1], p[2])}
NotedOrder(tree) == InOrder(Noted(tree), NotedBefore(tree))

\* Before is a strict total order: no two commits share a place in the log and
\* no two lines of a note share one in the note.
LEMMA BeforeOrders ==
  ASSUME NEW tree
  PROVE  /\ IsFiniteSet(Noted(tree)) /\ Cardinality(Noted(tree)) \in Nat
         /\ \A m, n \in Noted(tree) : <<m, n>> \in NotedBefore(tree) <=> Before(m, n)
         /\ \A m, n \in Noted(tree) : ~(Before(m, n) /\ Before(n, m))
         /\ TotalOrder(Noted(tree), NotedBefore(tree))
  <1>1. \A n \in Noted(tree) :
          /\ n = <<n[1], n[2]>> /\ n[1] \in Commits /\ n[2] \in Lines
          /\ CommitPos[n[1]] \in Nat /\ LinePos[n[2]] \in Nat
    BY ViewAssumption DEF Noted
  <1>2. \A m, n \in Noted(tree) :
          /\ CommitPos[m[1]] = CommitPos[n[1]] => m[1] = n[1]
          /\ LinePos[m[2]] = LinePos[n[2]] => m[2] = n[2]
    BY <1>1, ViewAssumption
  <1>3. IsFiniteSet(Noted(tree)) /\ Cardinality(Noted(tree)) \in Nat
    <2>1. IsFiniteSet(Commits \X Lines)
      BY ViewAssumption, FS_Product
    <2>2. IsFiniteSet(Noted(tree))
      BY <2>1, FS_Subset DEF Noted
    <2> QED
      BY <2>2, FS_CardinalityType
  <1>4. \A m, n \in Noted(tree) : <<m, n>> \in NotedBefore(tree) <=> Before(m, n)
    <2> DEFINE N == Noted(tree)
    <2> HIDE DEF N
    <2>1. \A m, n \in N : <<m, n>> \in {p \in N \X N : Before(p[1], p[2])} <=> Before(m, n)
      OBVIOUS
    <2> QED
      BY <2>1 DEF N, NotedBefore
  <1>5. \A m, n \in Noted(tree) : ~(Before(m, n) /\ Before(n, m))
    BY <1>1 DEF Before
  <1>6. \A n \in Noted(tree) : ~Before(n, n)
    BY <1>5
  <1>7. \A m, n \in Noted(tree) : m = n \/ Before(m, n) \/ Before(n, m)
    <2> TAKE m, n \in Noted(tree)
    <2>1. CASE CommitPos[m[1]] # CommitPos[n[1]]
      BY <1>1, <2>1 DEF Before
    <2>2. CASE m[1] = n[1] /\ LinePos[m[2]] # LinePos[n[2]]
      BY <1>1, <2>2 DEF Before
    <2>3. CASE m[1] = n[1] /\ m[2] = n[2]
      BY <1>1, <2>3
    <2> QED
      BY <1>2, <2>1, <2>2, <2>3
  <1>8. \A l, m, n \in Noted(tree) : Before(l, m) /\ Before(m, n) => Before(l, n)
    BY <1>1 DEF Before
  <1>9. TotalOrder(Noted(tree), NotedBefore(tree))
    BY <1>4, <1>6, <1>7, <1>8 DEF TotalOrder
  <1> QED
    BY <1>3, <1>4, <1>5, <1>9

\* What records_with_commit returns: every noted line, once, in that order.
LEMMA PairsProperties ==
  ASSUME NEW tree
  PROVE  LET m == Cardinality(Noted(tree))
             order == NotedOrder(tree)
         IN  /\ m \in Nat /\ order \in [1 .. m -> Noted(tree)]
             /\ \A n \in Noted(tree) : \E i \in 1 .. m : order[i] = n
             /\ \A i, j \in 1 .. m : i < j => Before(order[i], order[j])
             /\ DOMAIN Pairs(tree) = 1 .. m
             /\ \A i \in 1 .. m : /\ Pairs(tree)[i].commit = order[i][1]
                                  /\ Pairs(tree)[i].rec = Record[order[i][2]]
             /\ Recs(tree) \in Seq(NoteRecord) /\ DOMAIN Recs(tree) = 1 .. m
             /\ \A i \in 1 .. m : Recs(tree)[i] = Record[order[i][2]]
  <1> DEFINE noted == Noted(tree)
             m == Cardinality(noted)
             order == NotedOrder(tree)
  <1>1. /\ IsFiniteSet(noted) /\ m \in Nat
        /\ \A l, n \in noted : <<l, n>> \in NotedBefore(tree) <=> Before(l, n)
        /\ TotalOrder(noted, NotedBefore(tree))
    BY BeforeOrders
  <1>2. /\ order \in [1 .. m -> noted]
        /\ \A n \in noted : \E i \in 1 .. m : order[i] = n
        /\ \A i, j \in 1 .. m : i < j => <<order[i], order[j]>> \in NotedBefore(tree)
    <2> HIDE DEF noted
    <2> QED
      BY <1>1, InOrderProperties DEF NotedOrder, noted
  <1>3. \A i, j \in 1 .. m : i < j => Before(order[i], order[j])
    BY <1>1, <1>2
  <1>4. Pairs(tree) = [i \in DOMAIN order |-> [commit |-> order[i][1], rec |-> Record[order[i][2]]]]
    BY DEF Pairs, NotedOrder, NotedBefore
  <1>5. \A n \in noted : Record[n[2]] \in NoteRecord
    BY ViewAssumption DEF Noted
  <1> HIDE DEF order, m, noted
  <1>6. /\ DOMAIN Pairs(tree) = 1 .. m
        /\ \A i \in 1 .. m : /\ Pairs(tree)[i].commit = order[i][1]
                             /\ Pairs(tree)[i].rec = Record[order[i][2]]
    BY <1>2, <1>4
  <1> DEFINE pairs == Pairs(tree)
  <1>7. Recs(tree) = [i \in DOMAIN pairs |-> pairs[i].rec]
    BY DEF Recs
  <1> HIDE DEF pairs
  <1>8. Recs(tree) = [i \in 1 .. m |-> Record[order[i][2]]]
    BY <1>6, <1>7 DEF pairs
  <1>9. \A i \in 1 .. m : Record[order[i][2]] \in NoteRecord
    BY <1>2, <1>5
  <1>10. Recs(tree) \in Seq(NoteRecord) /\ DOMAIN Recs(tree) = 1 .. m
    BY <1>1, <1>8, <1>9
  <1>11. \A i \in 1 .. m : Recs(tree)[i] = Record[order[i][2]]
    BY <1>8
  <1> QED
    BY <1>1, <1>2, <1>3, <1>6, <1>10, <1>11 DEF m, order, noted

\* The noted line an entry is anchored by: the first of the least copies.
FirstNoted(tree, e, n) ==
  /\ n \in Noted(tree) /\ Record[n[2]].ent = e
  /\ \A m \in Noted(tree) \ {n} :
       Record[m[2]].ent = e =>
         \/ KeyLess(Record[n[2]], Record[m[2]])
         \/ KeyEqual(Record[n[2]], Record[m[2]]) /\ Before(n, m)

\* There is only one.
LEMMA FirstNotedUnique ==
  ASSUME NEW tree, NEW e, NEW m, NEW n, FirstNoted(tree, e, m), FirstNoted(tree, e, n)
  PROVE  m = n
  <1> SUFFICES ASSUME m # n PROVE FALSE
    OBVIOUS
  <1>1. m \in Noted(tree) /\ n \in Noted(tree)
    BY DEF FirstNoted
  <1>2. Record[m[2]] \in NoteRecord /\ Record[n[2]] \in NoteRecord
    BY <1>1, ViewAssumption DEF Noted
  <1>3. ~(KeyLess(Record[m[2]], Record[n[2]]) /\ KeyLess(Record[n[2]], Record[m[2]]))
    BY <1>2, KeyOrder
  <1>4. ~(Before(m, n) /\ Before(n, m))
    BY <1>1, BeforeOrders
  <1>5. \/ KeyLess(Record[m[2]], Record[n[2]])
        \/ KeyEqual(Record[m[2]], Record[n[2]]) /\ Before(m, n)
    BY <1>1 DEF FirstNoted
  <1>6. \/ KeyLess(Record[n[2]], Record[m[2]])
        \/ KeyEqual(Record[n[2]], Record[m[2]]) /\ Before(n, m)
    BY <1>1 DEF FirstNoted
  <1> QED
    BY <1>3, <1>4, <1>5, <1>6 DEF KeyEqual

\* The copies of an entry noted in a tree.
CopiesNoted(tree, e) == {Record[n[2]] : n \in {n \in Noted(tree) : Record[n[2]].ent = e}}

\* What is shown of an entry is what its noted copies mean as a set.
LEMMA EntryIsReference ==
  ASSUME NEW tree, NEW e \in EntitiesOf(tree)
  PROVE  LET C == CopiesNoted(tree, e)
         IN  /\ C \in SUBSET NoteRecord /\ (\A r \in C : r.ent = e)
             /\ Entry(tree, e) = Reference(C)
             /\ \E r \in C : IsBase(r, C)
             /\ (\E r \in C : r.sup # Absent) => Entry(tree, e).sup # Absent
  <1> DEFINE noted == Noted(tree)
             m == Cardinality(noted)
             order == NotedOrder(tree)
             recs == Recs(tree)
             C == CopiesNoted(tree, e)
             S == Elems(recs)
             folded == FoldRecords(recs)
             i == CHOOSE i \in DOMAIN folded : folded[i].ent = e
  <1>1. /\ m \in Nat /\ order \in [1 .. m -> noted]
        /\ \A n \in noted : \E k \in 1 .. m : order[k] = n
        /\ recs \in Seq(NoteRecord) /\ DOMAIN recs = 1 .. m
        /\ \A k \in 1 .. m : recs[k] = Record[order[k][2]]
    BY PairsProperties
  <1>2. Entry(tree, e) = folded[i]
    BY DEF Entry
  <1>3. /\ EntitiesIn(Elems(folded)) = EntitiesIn(S)
        /\ \A k \in DOMAIN folded :
             /\ folded[k] = Reference(CopiesIn(S, folded[k].ent))
             /\ \E r \in CopiesIn(S, folded[k].ent) : IsBase(r, CopiesIn(S, folded[k].ent))
             /\ (\E r \in CopiesIn(S, folded[k].ent) : r.sup # Absent) => folded[k].sup # Absent
    <2> HIDE DEF recs
    <2> QED
      BY <1>1, FoldRecordsProperties
  <1> HIDE DEF order, m, recs, folded
  <1>4. S = {Record[n[2]] : n \in noted}
    BY <1>1 DEF Elems
  <1>5. CopiesIn(S, e) = C
    BY <1>4 DEF CopiesIn, CopiesNoted
  <1>6. e \in EntitiesIn(S)
    BY <1>4 DEF EntitiesIn, EntitiesOf
  <1>7. i \in DOMAIN folded /\ folded[i].ent = e
    <2>1. \E k \in DOMAIN folded : folded[k].ent = e
      BY <1>3, <1>6 DEF EntitiesIn, Elems
    <2> QED
      BY <2>1
  <1> HIDE DEF i, S
  <1>8. C \in SUBSET NoteRecord /\ \A r \in C : r.ent = e
    BY ViewAssumption DEF CopiesNoted, Noted
  <1> QED
    BY <1>2, <1>3, <1>5, <1>7, <1>8

\* An entry is anchored to the commit of that line and shows the id of its record.
LEMMA FirstNotedAnchors ==
  ASSUME NEW tree, NEW e \in EntitiesOf(tree)
  PROVE  \E n \in Noted(tree) : /\ FirstNoted(tree, e, n)
                                /\ Anchor(tree, e) = n[1]
                                /\ Entry(tree, e).id = Record[n[2]].id
  <1> DEFINE noted == Noted(tree)
             m == Cardinality(noted)
             order == NotedOrder(tree)
             recs == Recs(tree)
             pairs == Pairs(tree)
             I == {i \in DOMAIN pairs : pairs[i].rec.ent = e}
             f == FirstLeast(recs, I)
  <1>1. /\ m \in Nat /\ order \in [1 .. m -> noted]
        /\ \A n \in noted : \E i \in 1 .. m : order[i] = n
        /\ \A i, j \in 1 .. m : i < j => Before(order[i], order[j])
        /\ DOMAIN pairs = 1 .. m
        /\ \A i \in 1 .. m : /\ pairs[i].commit = order[i][1]
                             /\ pairs[i].rec = Record[order[i][2]]
        /\ recs \in Seq(NoteRecord) /\ DOMAIN recs = 1 .. m
        /\ \A i \in 1 .. m : recs[i] = Record[order[i][2]]
    BY PairsProperties
  <1>2. recs = [i \in DOMAIN pairs |-> pairs[i].rec]
    BY DEF Recs
  <1> HIDE DEF recs, pairs, order, m, noted
  <1>3. Anchor(tree, e) = pairs[f].commit
    BY <1>2 DEF Anchor, AnchorCommit, pairs
  <1>4. I \in SUBSET (1 .. m) /\ \A i \in 1 .. m : i \in I <=> recs[i].ent = e
    BY <1>1
  <1>5. I # {}
    <2>1. PICK n \in noted : Record[n[2]].ent = e
      BY DEF EntitiesOf, noted
    <2>2. PICK i \in 1 .. m : order[i] = n
      BY <1>1
    <2> QED
      BY <1>1, <1>4, <2>1, <2>2
  <1> HIDE DEF I
  <1>6. IsFirstLeast(recs, I, f)
    <2>1. \A i \in I : recs[i] \in NoteRecord
      BY <1>1, <1>4
    <2> QED
      BY <1>1, <1>4, <1>5, <2>1, FirstLeastExists
  <1> HIDE DEF f
  <1> DEFINE n == order[f]
  <1>7. f \in I /\ f \in 1 .. m /\ n \in noted /\ recs[f] = Record[n[2]] /\ Record[n[2]].ent = e
    BY <1>1, <1>4, <1>6 DEF IsFirstLeast
  <1>8. FirstNoted(tree, e, n)
    <2> SUFFICES ASSUME NEW l \in noted \ {n}, Record[l[2]].ent = e
                 PROVE  \/ KeyLess(Record[n[2]], Record[l[2]])
                        \/ KeyEqual(Record[n[2]], Record[l[2]]) /\ Before(n, l)
      BY <1>7 DEF FirstNoted, noted
    <2>1. PICK j \in 1 .. m : order[j] = l
      BY <1>1
    <2>2. j \in I /\ j # f /\ recs[j] = Record[l[2]]
      BY <1>1, <1>4, <2>1
    <2>3. KeyLess(recs[f], recs[j]) \/ (KeyEqual(recs[f], recs[j]) /\ f < j)
      BY <1>6, <2>2 DEF IsFirstLeast
    <2>4. f < j => Before(n, l)
      BY <1>1, <1>7, <2>1
    <2> QED
      BY <1>7, <2>2, <2>3, <2>4
  <1>9. Anchor(tree, e) = n[1]
    BY <1>1, <1>3, <1>7
  <1>10. Entry(tree, e).id = Record[n[2]].id
    <2> DEFINE C == CopiesNoted(tree, e)
               r == Record[n[2]]
    <2>1. /\ C \in SUBSET NoteRecord /\ (\A s \in C : s.ent = e)
          /\ Entry(tree, e) = Reference(C)
      BY EntryIsReference
    <2>2. r \in C
      BY <1>7 DEF CopiesNoted, noted
    <2>3. IsBase(r, C)
      <3>1. ASSUME NEW l \in noted, Record[l[2]].ent = e
            PROVE  ~KeyLess(Record[l[2]], r)
        <4>1. Record[l[2]] \in NoteRecord /\ r \in NoteRecord
          BY <2>1, <2>2, <3>1 DEF CopiesNoted, noted
        <4>2. l = n \/ KeyLess(r, Record[l[2]]) \/ KeyEqual(r, Record[l[2]])
          BY <1>8, <3>1 DEF FirstNoted, noted
        <4> QED
          BY <4>1, <4>2, KeyOrder DEF KeyEqual
      <3> QED
        BY <3>1 DEF IsBase, CopiesNoted, noted
    <2> HIDE DEF C, r
    <2>4. Reference(C).id = r.id
      BY <2>1, <2>2, <2>3, ReferenceFields DEF Summarises
    <2> QED
      BY <2>1, <2>4 DEF r
  <1> QED
    BY <1>7, <1>8, <1>9, <1>10 DEF noted

\* A tree that adds to another the updates of what it holds, stamped later, has
\* the same base for every entry the other has, the same anchor and the same id.
LEMMA UpdatesKeepBase ==
  ASSUME NEW from \in Trees, NEW to \in Trees,
         \A k \in Commits : from[k] \subseteq to[k],
         \A j, k \in Commits, l \in Lines : l \in to[j] /\ l \in to[k] => j = k,
         \A k \in Commits : \A l \in to[k] : \E j \in Commits : Original[l] \in to[j],
         NEW e \in EntitiesOf(from),
         \A l \in Arrived(from, to) : Record[l].ent = e => LaterUpdate(l)
  PROVE  Anchor(to, e) = Anchor(from, e) /\ Entry(to, e).id = Entry(from, e).id
  <1>1. Noted(from) \subseteq Noted(to) /\ e \in EntitiesOf(to)
    BY DEF Noted, EntitiesOf
  <1>2. PICK m \in Noted(from) : /\ FirstNoted(from, e, m)
                                 /\ Anchor(from, e) = m[1]
                                 /\ Entry(from, e).id = Record[m[2]].id
    BY FirstNotedAnchors
  <1>3. PICK n \in Noted(to) : /\ FirstNoted(to, e, n)
                               /\ Anchor(to, e) = n[1]
                               /\ Entry(to, e).id = Record[n[2]].id
    BY <1>1, FirstNotedAnchors
  <1>4. n[1] \in Commits /\ n[2] \in Lines /\ n[2] \in to[n[1]] /\ n = <<n[1], n[2]>>
    BY DEF Noted
  <1>5. n[2] \notin Arrived(from, to)
    <2> SUFFICES ASSUME n[2] \in Arrived(from, to) PROVE FALSE
      OBVIOUS
    <2> DEFINE l == n[2]
    <2>1. Record[l].ent = e /\ LaterUpdate(l)
      BY <1>3 DEF FirstNoted
    <2>2. PICK j \in Commits : Original[l] \in to[j]
      BY <1>4
    <2> DEFINE o == <<j, Original[l]>>
    <2>3. Original[l] \in Lines /\ Record[Original[l]].ent = e
      BY <1>4, <2>1, ConstantsAssumption, ViewAssumption
    <2>4. o \in Noted(to) /\ o # n
      BY <1>4, <2>1, <2>2, <2>3 DEF Noted, LaterUpdate
    <2>5. Record[l] \in NoteRecord /\ Record[Original[l]] \in NoteRecord
      BY <1>4, <2>3, ViewAssumption
    <2>6. KeyLess(Record[Original[l]], Record[l])
      BY <2>1 DEF LaterUpdate, KeyLess
    <2>7. \/ KeyLess(Record[l], Record[Original[l]])
          \/ KeyEqual(Record[l], Record[Original[l]])
      BY <1>3, <2>3, <2>4 DEF FirstNoted
    <2> QED
      BY <2>5, <2>6, <2>7, KeyOrder DEF KeyEqual
  <1>6. PICK j \in Commits : n[2] \in from[j]
    BY <1>4, <1>5 DEF Arrived
  <1>7. n \in Noted(from)
    <2>1. j = n[1]
      BY <1>4, <1>6
    <2> QED
      BY <1>4, <1>6, <2>1 DEF Noted
  <1>8. FirstNoted(from, e, n)
    BY <1>1, <1>3, <1>7 DEF FirstNoted
  <1>9. m = n
    BY <1>2, <1>8, FirstNotedUnique
  <1> QED
    BY <1>2, <1>3, <1>9

\* The least present of more times is no later.
LEMMA MinPresentGrows ==
  ASSUME NEW T \in SUBSET Nat, NEW S \in SUBSET T
  PROVE  NotLater(MinPresent(T), MinPresent(S))
  <1>1. S \in SUBSET Nat
    OBVIOUS
  <1>2. MinPresent(S) # Absent => MinPresent(S) \in T
    BY <1>1, MinPresentProperties
  <1>3. MinPresent(T) = Absent => T \subseteq {Absent}
    BY MinPresentProperties
  <1> QED
    BY <1>2, <1>3, MinPresentProperties DEF NotLater

\* More copies of an entry mean at least what fewer mean.
LEMMA ReferenceExtends ==
  ASSUME NEW T \in SUBSET NoteRecord, NEW S \in SUBSET NoteRecord, S \subseteq T,
         NEW e, \A t \in T : t.ent = e, \A s \in S : s.ent = e,
         NEW r \in S, IsBase(r, S), NEW b \in T, IsBase(b, T),
         (\E t \in T : t.sup # Absent) => Reference(T).sup # Absent
  PROVE  Extends(Reference(T), Reference(S))
  <1> DEFINE was == Reference(S)
             is == Reference(T)
  <1>1. Summarises(was, r, S) /\ Summarises(is, b, T)
    BY ReferenceFields
  <1>2. was.sup # Absent => is.sup # Absent
    BY <1>1, SuccessorIsNamed DEF Summarises
  <1> HIDE DEF was, is
  <1>3. NotLater(is.valid, was.valid) /\ NotLater(is.invalid, was.invalid)
    <2>1. /\ {s.valid : s \in T} \in SUBSET Nat /\ {s.valid : s \in S} \in SUBSET {s.valid : s \in T}
          /\ {s.invalid : s \in T} \in SUBSET Nat /\ {s.invalid : s \in S} \in SUBSET {s.invalid : s \in T}
      BY DEF NoteRecord
    <2>2. /\ is.valid = MinPresent({s.valid : s \in T}) /\ was.valid = MinPresent({s.valid : s \in S})
          /\ is.invalid = MinPresent({s.invalid : s \in T}) /\ was.invalid = MinPresent({s.invalid : s \in S})
      BY <1>1 DEF Summarises
    <2> QED
      BY <2>1, <2>2, MinPresentGrows
  <1>4. ~KeyLess(was, is)
    <2>1. ~KeyLess(r, b)
      BY DEF IsBase
    <2> QED
      BY <1>1, <2>1 DEF Summarises, KeyLess
  <1>5. (was.status = "archived" => is.status = "archived") /\ was.tags \subseteq is.tags
    BY <1>1 DEF Summarises
  <1> QED
    BY <1>2, <1>3, <1>4, <1>5 DEF Extends, was, is

\* A tree with all the lines of another shows no less of each entry.
LEMMA MoreLinesExtend ==
  ASSUME NEW from, NEW to, \A k \in Commits : from[k] \subseteq to[k], NEW e \in EntitiesOf(from)
  PROVE  e \in EntitiesOf(to) /\ Extends(Entry(to, e), Entry(from, e))
  <1> DEFINE S == CopiesNoted(from, e)
             T == CopiesNoted(to, e)
  <1>1. Noted(from) \subseteq Noted(to)
    BY DEF Noted
  <1>2. e \in EntitiesOf(to) /\ S \in SUBSET T
    BY <1>1 DEF EntitiesOf, CopiesNoted
  <1>3. Entry(from, e) = Reference(S) /\ \E r \in S : IsBase(r, S)
    BY EntryIsReference
  <1>4. /\ T \in SUBSET NoteRecord /\ (\A r \in T : r.ent = e)
        /\ Entry(to, e) = Reference(T) /\ (\E r \in T : IsBase(r, T))
        /\ (\E r \in T : r.sup # Absent) => Entry(to, e).sup # Absent
    BY <1>2, EntryIsReference
  <1>6. S \in SUBSET NoteRecord /\ \A r \in S : r.ent = e
    BY EntryIsReference
  <1> HIDE DEF S, T
  <1>5. Extends(Reference(T), Reference(S))
    BY <1>2, <1>3, <1>4, <1>6, ReferenceExtends
  <1> QED
    BY <1>2, <1>3, <1>4, <1>5

-----------------------------------------------------------------------------
(* Where the lines of the carrier come from *)

\* A process that has a line it may still write.
Pending(p) == pc[p] \in {"lock", "read", "write"}

\* Every noted line was written, on one commit only, and the entry a state
\* update is about is noted wherever the update is.
Provenance ==
  ~unserialized =>
    \A v \in 0 .. top :
      /\ LinesOf(v) \subseteq written
      /\ \A l \in LinesOf(v) : Original[l] \in LinesOf(v)
      /\ \A u \in 0 .. top, j, k \in Commits, l \in Lines :
           l \in store[u].tree[j] /\ l \in store[v].tree[k] => j = k

\* A pending line is noted nowhere and is no other process's; what it is about
\* is on its clone's working ref.
PendingFresh ==
  ~unserialized =>
    \A p \in Procs : Pending(p) =>
      /\ line[p] \in written
      /\ \A v \in 0 .. top : line[p] \notin LinesOf(v)
      /\ \A q \in Procs \ {p} : Pending(q) => line[q] # line[p]
      /\ Original[line[p]] = line[p] \/ Original[line[p]] \in LinesOf(working[CloneOf[p]])

LInv == IInv /\ Provenance /\ PendingFresh

\* What a step adds to the object store: nothing, a version with one line more
\* than a clone's, or the union of two.
LEMMA TreeSteps ==
  ASSUME IInv, [Next]_vars, ~unserialized
  PROVE  \/ top' = top /\ \A v \in 0 .. top : store'[v] = store[v]
         \/ /\ top' = top + 1 /\ \A v \in 0 .. top : store'[v] = store[v]
            /\ \/ \E p \in Procs :
                    /\ WriteNote(p) /\ target[p] \in Commits
                    /\ \A k \in Commits :
                         store'[top'].tree[k] =
                           IF k = target[p] THEN store[working[CloneOf[p]]].tree[k] \cup {line[p]}
                           ELSE store[working[CloneOf[p]]].tree[k]
               \/ \E u, w \in 0 .. top : \A k \in Commits :
                    store'[top'].tree[k] = store[u].tree[k] \cup store[w].tree[k]
  <1> DEFINE Goal ==
         \/ top' = top /\ \A v \in 0 .. top : store'[v] = store[v]
         \/ /\ top' = top + 1 /\ \A v \in 0 .. top : store'[v] = store[v]
            /\ \/ \E p \in Procs :
                    /\ WriteNote(p) /\ target[p] \in Commits
                    /\ \A k \in Commits :
                         store'[top'].tree[k] =
                           IF k = target[p] THEN store[working[CloneOf[p]]].tree[k] \cup {line[p]}
                           ELSE store[working[CloneOf[p]]].tree[k]
               \/ \E u, w \in 0 .. top : \A k \in Commits :
                    store'[top'].tree[k] = store[u].tree[k] \cup store[w].tree[k]
  <1>0. TypeOK /\ History /\ RefsExist /\ Grows /\ Writers
    BY DEF IInv
  <1>1. CASE UNCHANGED <<store, top>>
    BY <1>1
  <1>2. ASSUME NEW p \in Procs, WriteNote(p)
        PROVE  Goal
    <2> DEFINE c == CloneOf[p]
               old == store[working[c]].tree
               tree == [old EXCEPT ![target[p]] = AppendedBody(p)]
    <2>1. c \in Clones /\ target[p] \in Commits /\ body[p] = old[target[p]]
      BY <1>0, <1>2, ConstantsAssumption DEF Writers, WriteNote
    <2>2. tree \in Trees /\ Commit(c, tree, {working[c]})
      BY <1>2, WriteCommits
    <2>3. old \in Trees /\ {working[c]} \in SUBSET (0 .. top)
      BY <1>0, <2>1 DEF TypeOK, RefsExist
    <2>4. \A k \in Commits : tree[k] = IF k = target[p] THEN old[k] \cup {line[p]} ELSE old[k]
      BY <2>1, <2>3 DEF Trees, AppendedBody
    <2> HIDE DEF tree, c, old
    <2>5. /\ top' = top + 1 /\ \A v \in 0 .. top : store'[v] = store[v]
          /\ store'[top'].tree = tree
      <3> DEFINE parents == {working[c]}
      <3>1. TypeOK /\ History /\ parents \in SUBSET (0 .. top) /\ Commit(c, tree, parents)
        BY <1>0, <2>2, <2>3
      <3> HIDE DEF parents
      <3>2. /\ top' = top + 1 /\ \A v \in 0 .. top : store'[v] = store[v]
            /\ store'[top'] = [tree |-> tree, anc |-> {top'} \cup UNION {Ancestors(q) : q \in parents}]
        BY <2>1, <2>2, <3>1, CommitExtends
      <3> QED
        BY <3>2
    <2> QED
      BY <1>2, <2>1, <2>4, <2>5 DEF old, c
  <1>3. ASSUME NEW p \in Procs, MergeTracking(p), ~ UNCHANGED <<store, top>>
        PROVE  Goal
    <2> DEFINE c == CloneOf[p]
               ours == working[c]
               theirs == tracking[c]
    <2>1. c \in Clones /\ ours \in 0 .. top /\ theirs \in 0 .. top
      BY <1>0, ConstantsAssumption DEF RefsExist
    <2>2. PICK base \in Ancestors(ours) \cap Ancestors(theirs), tree \in Trees :
            /\ base \in 0 .. top
            /\ tree = CatSortUniq(store[base].tree, store[ours].tree, store[theirs].tree)
            /\ Commit(c, tree, {ours, theirs})
      BY <1>3, MergeCommits
    <2>3. store[base].tree \in Trees /\ store[ours].tree \in Trees /\ store[theirs].tree \in Trees
      BY <1>0, <2>1, <2>2, ConstantsAssumption DEF TypeOK, Versions
    <2>4. \A k \in Commits : /\ store[base].tree[k] \subseteq store[ours].tree[k]
                             /\ store[base].tree[k] \subseteq store[theirs].tree[k]
      BY <1>0, <2>1, <2>2 DEF Grows
    <2> HIDE DEF c, ours, theirs
    <2>5. tree = [k \in Commits |-> store[ours].tree[k] \cup store[theirs].tree[k]]
      <3>1. CatSortUniq(store[base].tree, store[ours].tree, store[theirs].tree)
              = [k \in Commits |-> store[ours].tree[k] \cup store[theirs].tree[k]]
        BY <2>3, <2>4, MergeIsUnion, ZenonT(40)
      <3> QED
        BY <2>2, <3>1
    <2>6. /\ top' = top + 1 /\ \A v \in 0 .. top : store'[v] = store[v]
          /\ store'[top'].tree = tree
      <3> DEFINE parents == {ours, theirs}
      <3>1. TypeOK /\ History /\ parents \in SUBSET (0 .. top) /\ Commit(c, tree, parents)
        BY <1>0, <2>1, <2>2
      <3> HIDE DEF parents
      <3>2. /\ top' = top + 1 /\ \A v \in 0 .. top : store'[v] = store[v]
            /\ store'[top'] = [tree |-> tree, anc |-> {top'} \cup UNION {Ancestors(q) : q \in parents}]
        BY <2>1, <3>1, CommitExtends
      <3> QED
        BY <3>2
    <2> QED
      BY <2>1, <2>5, <2>6
  <1>4. ~ \E o \in orphans : OrphanWrites(o)
    BY DEF IInv, NoOrphans
  <1> QED
    BY <1>1, <1>2, <1>3, <1>4, RefSteps DEF refs, PushLands

\* A working ref only ever advances, and so every note of a clone grows.
LEMMA WorkingGrows ==
  ASSUME IInv, [Next]_vars, ~unserialized', NEW c \in Clones, NEW k \in Commits
  PROVE  store[working[c]].tree[k] \subseteq store'[working'[c]].tree[k]
  <1>0. /\ TypeOK /\ History /\ RefsExist /\ ~unserialized /\ Grows' /\ RefsExist' /\ History'
        /\ \A v \in 0 .. top : store'[v] = store[v]
    BY HistoryVarsStep, LogSteps, RefsStep, StoreKeeps DEF IInv
  <1>1. working[c] \in 0 .. top /\ working'[c] \in 0 .. top'
    BY <1>0 DEF RefsExist
  <1>2. working[c] \in store'[working'[c]].anc
    <2> DEFINE Goal == working[c] \in store'[working'[c]].anc
    <2>1. CASE working'[c] = working[c]
      BY <1>0, <1>1, <2>1 DEF History, Ancestors
    <2>2. ASSUME NEW d \in Clones, NEW tree \in Trees,
                 NEW parents \in SUBSET {working[d], tracking[d]}, working[d] \in parents,
                 Commit(d, tree, parents)
          PROVE  Goal
      <3>1. TypeOK /\ History /\ parents \in SUBSET (0 .. top)
        BY <1>0 DEF RefsExist
      <3>2. /\ store'[top'].anc = {top'} \cup (UNION {Ancestors(q) : q \in parents})
            /\ working' = [working EXCEPT ![d] = top']
        <4>1. /\ store'[top'] = [tree |-> tree, anc |-> {top'} \cup UNION {Ancestors(q) : q \in parents}]
              /\ working' = [working EXCEPT ![d] = top']
          BY <2>2, <3>1, CommitExtends
        <4> QED
          BY <4>1
      <3>3. CASE c = d
        <4>1. working'[c] = top' /\ working[c] \in Ancestors(working[c])
          BY <1>0, <1>1, <3>2, <3>3 DEF TypeOK, History
        <4> QED
          BY <2>2, <3>2, <3>3, <4>1
      <3>4. CASE c # d
        BY <1>0, <2>1, <3>2, <3>4 DEF TypeOK
      <3> QED
        BY <3>3, <3>4
    <2>3. ASSUME NEW p \in Procs, WriteNote(p)
          PROVE  Goal
      BY <2>2, <2>3, WriteCommits
    <2>4. ASSUME NEW p \in Procs, MergeTracking(p)
          PROVE  Goal
      <3> DEFINE d == CloneOf[p]
      <3>1. CASE UNCHANGED <<store, top, working>>
        BY <2>1, <3>1
      <3>2. CASE /\ working[d] \in Ancestors(tracking[d])
                 /\ working' = [working EXCEPT ![d] = tracking[d]]
                 /\ UNCHANGED <<store, top>>
        BY <1>0, <2>1, <3>2, ConstantsAssumption DEF Ancestors, TypeOK
      <3>3. CASE \E tree \in Trees : Commit(d, tree, {working[d], tracking[d]})
        BY <2>2, <3>3, ConstantsAssumption
      <3> QED
        BY <2>4, <3>1, <3>2, <3>3, MergeCommits
    <2>5. ~ \E o \in orphans : OrphanWrites(o)
      BY <1>0 DEF IInv, NoOrphans
    <2> QED
      BY <2>1, <2>3, <2>4, <2>5, RefSteps DEF refs, PushLands
  <1>3. store'[working[c]].tree[k] \subseteq store'[working'[c]].tree[k]
    BY <1>0, <1>1, <1>2 DEF Grows, Ancestors
  <1> QED
    BY <1>0, <1>1, <1>3

\* A process with a pending line had it already, or just started with a line
\* nobody wrote before.
LEMMA PendingSteps ==
  ASSUME IInv, [Next]_vars, NEW q \in Procs, Pending(q)'
  PROVE  \/ Pending(q) /\ line'[q] = line[q] /\ ~WriteNote(q)
         \/ \E l \in Lines : StartAppend(q, l) /\ line'[q] = l
  <1>0. TypeOK
    BY DEF IInv
  <1>1. ~WriteNote(q)
    BY <1>0 DEF WriteNote, Finish, TypeOK, Pending
  <1>2. CASE ReadNote(q)
    BY <1>1, <1>2 DEF ReadNote, Pending
  <1> QED
    BY <1>1, <1>2, WriterSteps DEF Pending

\* What was written stays written.
LEMMA WrittenStays ==
  ASSUME [Next]_vars
  PROVE  written \subseteq written'
  BY DEF Next, Start, Step, Failure, GitError, history, vars, OrphanWrites, UserFetch,
         StartAppend, StartReadMerge, StartPublish, WriterLocks, WriterContended,
         WriterUnlocked, ReadNote, WriteNote, MergeLocks, MergeLockUnavailable, MergeTracking,
         PublishFetch, PushLands, PushLosesRace, AppendFails, LockPathFails, MergeFails,
         PublishFetchFails, PushFails, Crash

\* A step takes a note of an old version to the new one, or adds a pending line.
LEMMA LinesCome ==
  ASSUME LInv, [Next]_vars, ~unserialized, NEW v \in 0 .. top',
         NEW k \in Commits, NEW l \in store'[v].tree[k]
  PROVE  \/ \E u \in 0 .. top : l \in store[u].tree[k]
         \/ \E p \in Procs : WriteNote(p) /\ k = target[p] /\ l = line[p]
  <1>0. IInv /\ top \in Nat
    BY DEF LInv, IInv, TypeOK, Versions
  <1>1. CASE v \in 0 .. top
    <2>1. store'[v] = store[v]
      BY <1>0, <1>1, StoreKeeps
    <2> QED
      BY <1>1, <2>1
  <1>2. ASSUME v = top', top' = top + 1, NEW p \in Procs, WriteNote(p),
               store'[top'].tree[k] = IF k = target[p]
                                      THEN store[working[CloneOf[p]]].tree[k] \cup {line[p]}
                                      ELSE store[working[CloneOf[p]]].tree[k]
        PROVE  \/ l \in store[working[CloneOf[p]]].tree[k]
               \/ k = target[p] /\ l = line[p]
    BY <1>2
  <1>3. \A p \in Procs : working[CloneOf[p]] \in 0 .. top
    BY <1>0, ConstantsAssumption DEF IInv, RefsExist
  <1>4. v \in 0 .. top \/ (v = top' /\ top' = top + 1)
    BY <1>0, TreeSteps
  <1> QED
    BY <1>0, <1>1, <1>2, <1>3, <1>4, TreeSteps

\* Every version keeps its lines' provenance.
LEMMA ProvenanceStep ==
  ASSUME LInv, [Next]_vars
  PROVE  Provenance'
  <1> SUFFICES ASSUME ~unserialized' PROVE Provenance'
    BY DEF Provenance
  <1>0. IInv /\ ~unserialized /\ written \subseteq written' /\ top \in Nat
    BY HistoryVarsStep, WrittenStays DEF LInv, IInv, TypeOK, Versions
  <1>1. \A p \in Procs : WriteNote(p) =>
          /\ Pending(p) /\ line[p] \in written
          /\ \A u \in 0 .. top : line[p] \notin LinesOf(u)
          /\ Original[line[p]] = line[p] \/ Original[line[p]] \in LinesOf(working[CloneOf[p]])
    BY <1>0 DEF LInv, PendingFresh, Pending, WriteNote
  <1>2. \A u \in 0 .. top :
          /\ LinesOf(u) \subseteq written
          /\ \A l \in LinesOf(u) : Original[l] \in LinesOf(u)
    BY <1>0 DEF LInv, Provenance
  <1>3. \A u, v \in 0 .. top, j, k \in Commits, l \in Lines :
          l \in store[u].tree[j] /\ l \in store[v].tree[k] => j = k
    BY <1>0 DEF LInv, Provenance
  <1>4. ASSUME NEW v \in 0 .. top', NEW k \in Commits, NEW l \in store'[v].tree[k]
        PROVE  l \in written'
    <2>1. \/ \E u \in 0 .. top : l \in store[u].tree[k]
          \/ \E p \in Procs : WriteNote(p) /\ k = target[p] /\ l = line[p]
      BY <1>0, <1>4, LinesCome
    <2> QED
      BY <1>0, <1>1, <1>2, <2>1 DEF LinesOf
  <1>5. ASSUME NEW v \in 0 .. top', NEW k \in Commits, NEW l \in store'[v].tree[k]
        PROVE  \E j \in Commits : Original[l] \in store'[v].tree[j]
    <2>1. CASE v \in 0 .. top
      <3>1. store'[v] = store[v]
        BY <1>0, <2>1, StoreKeeps
      <3> QED
        BY <1>2, <1>5, <2>1, <3>1 DEF LinesOf
    <2>2. ASSUME v = top', NEW p \in Procs, WriteNote(p), target[p] \in Commits,
                 \A i \in Commits :
                   store'[top'].tree[i] =
                     IF i = target[p] THEN store[working[CloneOf[p]]].tree[i] \cup {line[p]}
                     ELSE store[working[CloneOf[p]]].tree[i]
          PROVE  \E j \in Commits : Original[l] \in store'[v].tree[j]
      <3> DEFINE w == working[CloneOf[p]]
      <3>1. w \in 0 .. top
        BY <1>0, ConstantsAssumption DEF IInv, RefsExist
      <3>2. \A i \in Commits : store[w].tree[i] \subseteq store'[v].tree[i]
        BY <2>2
      <3>3. CASE l \in store[w].tree[k]
        <4>1. Original[l] \in LinesOf(w)
          BY <1>2, <3>1, <3>3 DEF LinesOf
        <4> HIDE DEF w
        <4> QED
          BY <3>2, <4>1 DEF LinesOf
      <3>4. CASE l = line[p]
        <4>1. l \in store'[v].tree[target[p]]
          BY <2>2, <3>4
        <4>2. Original[l] = l \/ Original[l] \in LinesOf(w)
          BY <1>1, <2>2, <3>4
        <4> HIDE DEF w
        <4> QED
          BY <2>2, <3>2, <4>1, <4>2 DEF LinesOf
      <3>5. l \in store[w].tree[k] \/ l = line[p]
        BY <1>5, <2>2
      <3> QED
        BY <3>3, <3>4, <3>5
    <2>3. ASSUME v = top', NEW u \in 0 .. top, NEW w \in 0 .. top,
                 \A i \in Commits :
                   store'[top'].tree[i] = store[u].tree[i] \cup store[w].tree[i]
          PROVE  \E j \in Commits : Original[l] \in store'[v].tree[j]
      <3>1. \E x \in {u, w} : l \in store[x].tree[k]
        BY <1>5, <2>3
      <3>2. PICK x \in {u, w} : l \in store[x].tree[k]
        BY <3>1
      <3>3. x \in 0 .. top /\ l \in LinesOf(x)
        BY <3>2 DEF LinesOf
      <3>4. PICK j \in Commits : Original[l] \in store[x].tree[j]
        BY <1>2, <3>3 DEF LinesOf
      <3>5. store[x].tree[j] \subseteq store'[v].tree[j]
        BY <2>3
      <3> QED
        BY <3>4, <3>5
    <2>4. v \in 0 .. top \/ (v = top' /\ top' = top + 1)
      BY <1>0, TreeSteps
    <2> QED
      BY <1>0, <2>1, <2>2, <2>3, <2>4, TreeSteps
  <1>6. ASSUME NEW u \in 0 .. top', NEW v \in 0 .. top', NEW j \in Commits, NEW k \in Commits,
               NEW l \in Lines, l \in store'[u].tree[j], l \in store'[v].tree[k]
        PROVE  j = k
    <2>1. \/ \E x \in 0 .. top : l \in store[x].tree[j]
          \/ \E p \in Procs : WriteNote(p) /\ j = target[p] /\ l = line[p]
      BY <1>0, <1>6, LinesCome
    <2>2. \/ \E x \in 0 .. top : l \in store[x].tree[k]
          \/ \E p \in Procs : WriteNote(p) /\ k = target[p] /\ l = line[p]
      BY <1>0, <1>6, LinesCome
    <2>3. ASSUME NEW p \in Procs, NEW q \in Procs, WriteNote(p), WriteNote(q), line[p] = line[q]
          PROVE  p = q
      BY <1>0, <1>1, <2>3 DEF LInv, PendingFresh
    <2>4. \A p \in Procs, x \in 0 .. top, i \in Commits :
            WriteNote(p) => line[p] \notin store[x].tree[i]
      BY <1>1 DEF LinesOf
    <2> QED
      BY <1>3, <2>1, <2>2, <2>3, <2>4
  <1> QED
    BY <1>4, <1>5, <1>6 DEF Provenance, LinesOf

\* A pending line stays fresh until it is written.
LEMMA PendingStep ==
  ASSUME LInv, [Next]_vars
  PROVE  PendingFresh'
  <1> SUFFICES ASSUME ~unserialized', NEW p \in Procs, Pending(p)'
               PROVE  /\ line'[p] \in written'
                      /\ \A v \in 0 .. top' : line'[p] \notin LinesOf(v)'
                      /\ \A q \in Procs \ {p} : Pending(q)' => line'[q] # line'[p]
                      /\ \/ Original[line'[p]] = line'[p]
                         \/ Original[line'[p]] \in LinesOf(working[CloneOf[p]])'
    BY DEF PendingFresh
  <1>0. IInv /\ TypeOK /\ ~unserialized /\ written \subseteq written' /\ top \in Nat
    BY HistoryVarsStep, WrittenStays DEF LInv, IInv, TypeOK, Versions
  <1>1. \A q \in Procs : Pending(q) =>
          /\ line[q] \in written
          /\ \A v \in 0 .. top : line[q] \notin LinesOf(v)
          /\ \A r \in Procs \ {q} : Pending(r) => line[r] # line[q]
          /\ Original[line[q]] = line[q] \/ Original[line[q]] \in LinesOf(working[CloneOf[q]])
    BY <1>0 DEF LInv, PendingFresh
  <1>2. CloneOf[p] \in Clones
    BY ConstantsAssumption
  <1>3. CASE Pending(p) /\ line'[p] = line[p] /\ ~WriteNote(p)
    <2>1. line'[p] \in written'
      BY <1>0, <1>1, <1>3
    <2>2. ASSUME NEW v \in 0 .. top', NEW k \in Commits, line[p] \in store'[v].tree[k]
          PROVE  FALSE
      <3>1. CASE \E u \in 0 .. top : line[p] \in store[u].tree[k]
        BY <1>1, <1>3, <3>1 DEF LinesOf
      <3>2. CASE \E q \in Procs : WriteNote(q) /\ k = target[q] /\ line[p] = line[q]
        BY <1>1, <1>3, <3>2 DEF WriteNote, Pending
      <3> QED
        BY <1>0, <2>2, <3>1, <3>2, LinesCome
    <2>3. ASSUME NEW q \in Procs \ {p}, Pending(q)'
          PROVE  line'[q] # line'[p]
      <3>1. CASE Pending(q) /\ line'[q] = line[q]
        BY <1>1, <1>3, <3>1
      <3>2. CASE \E l \in Lines : StartAppend(q, l) /\ line'[q] = l
        BY <1>1, <1>3, <3>2 DEF StartAppend
      <3> QED
        BY <1>0, <2>3, <3>1, <3>2, PendingSteps
    <2>4. \/ Original[line'[p]] = line'[p]
          \/ Original[line'[p]] \in LinesOf(working[CloneOf[p]])'
      <3>1. \A k \in Commits : store[working[CloneOf[p]]].tree[k]
                                 \subseteq store'[working'[CloneOf[p]]].tree[k]
        BY <1>0, <1>2, WorkingGrows
      <3> QED
        BY <1>1, <1>3, <3>1 DEF LinesOf
    <2> QED
      BY <1>3, <2>1, <2>2, <2>3, <2>4 DEF LinesOf
  <1>4. ASSUME NEW l \in Lines, StartAppend(p, l), line'[p] = l
        PROVE  /\ line'[p] \in written'
               /\ \A v \in 0 .. top' : line'[p] \notin LinesOf(v)'
               /\ \A q \in Procs \ {p} : Pending(q)' => line'[q] # line'[p]
               /\ \/ Original[line'[p]] = line'[p]
                  \/ Original[line'[p]] \in LinesOf(working[CloneOf[p]])'
    <2>1. /\ l \notin written /\ written' = written \cup {l}
          /\ store' = store /\ top' = top /\ working' = working
          /\ Original[l] = l \/ Original[l] \in LinesOf(working[CloneOf[p]])
          /\ line' = [line EXCEPT ![p] = l] /\ pc' = [pc EXCEPT ![p] = "lock"]
      BY <1>4 DEF StartAppend, refs, Goto
    <2>2. \A v \in 0 .. top : l \notin LinesOf(v)
      BY <1>0, <2>1 DEF LInv, Provenance
    <2>3. ASSUME NEW q \in Procs \ {p}, Pending(q)'
          PROVE  line'[q] # l
      <3>1. pc'[q] = pc[q] /\ line'[q] = line[q]
        BY <1>0, <2>1, <2>3 DEF TypeOK
      <3> QED
        BY <1>1, <2>1, <2>3, <3>1 DEF Pending
    <2> QED
      BY <1>4, <2>1, <2>2, <2>3 DEF LinesOf
  <1> QED
    BY <1>0, <1>3, <1>4, PendingSteps

\* The invariant of the view holds in every reachable state.
LEMMA ViewInvariance == Spec => []LInv
  <1>1. Init => LInv
    <2> SUFFICES ASSUME Init PROVE LInv
      OBVIOUS
    <2>1. store[0].tree = EmptyTree /\ 0 .. top = {0}
      BY ConstantsAssumption DEF Init, Versions
    <2>2. Provenance
      BY <2>1 DEF Provenance, LinesOf, EmptyTree
    <2>3. PendingFresh
      BY DEF Init, PendingFresh, Pending
    <2> QED
      BY <2>2, <2>3, InitEstablishes DEF LInv
  <1>2. LInv /\ [Next]_vars => LInv'
    <2> SUFFICES ASSUME LInv, [Next]_vars PROVE LInv'
      OBVIOUS
    <2> QED
      BY ProvenanceStep, PendingStep, StepPreserves DEF LInv
  <1> QED
    BY <1>1, <1>2, PTL DEF Spec

\* A state update that arrives in any clone, by append, merge or fast-forward,
\* moves no entry to another commit and gives none another id (anchor_commits,
\* get), as long as no read-modify-write ran without the lock.
THEOREM IdentityKept == Spec => StateUpdateKeepsIdentity
  <1>1. LInv /\ LInv' /\ [Next]_vars =>
          [~unserialized' =>
             \A m \in Moves, e \in EntityIds :
               /\ e \in EntitiesOf(m[1])
               /\ \A l \in Arrived(m[1], m[2]) : Record[l].ent = e => LaterUpdate(l)
               => /\ Anchor(m[2], e) = Anchor(m[1], e)
                  /\ Entry(m[2], e).id = Entry(m[1], e).id]_vars
    <2> SUFFICES ASSUME LInv, LInv', [Next]_vars, ~unserialized',
                        NEW m \in Moves, NEW e \in EntityIds, e \in EntitiesOf(m[1]),
                        \A l \in Arrived(m[1], m[2]) : Record[l].ent = e => LaterUpdate(l)
                 PROVE  /\ Anchor(m[2], e) = Anchor(m[1], e)
                        /\ Entry(m[2], e).id = Entry(m[1], e).id
      OBVIOUS
    <2>1. PICK c \in Clones : m = <<store[working[c]].tree, store'[working'[c]].tree>>
      BY DEF Moves
    <2> DEFINE from == store[working[c]].tree
               to == store'[working'[c]].tree
    <2>2. IInv /\ TypeOK /\ TypeOK' /\ RefsExist /\ RefsExist' /\ ~unserialized
      BY HistoryVarsStep DEF LInv, IInv
    <2>3. from \in Trees /\ to \in Trees
      BY <2>2 DEF TypeOK
    <2>4. \A k \in Commits : from[k] \subseteq to[k]
      BY <2>2, WorkingGrows
    <2>5. working'[c] \in 0 .. top'
      BY <2>2 DEF RefsExist
    <2>6. \A j, k \in Commits, l \in Lines : l \in to[j] /\ l \in to[k] => j = k
      BY <2>5 DEF LInv, Provenance
    <2>7. \A k \in Commits : \A l \in to[k] : \E j \in Commits : Original[l] \in to[j]
      <3>1. \A l \in LinesOf(working[c])' : Original[l] \in LinesOf(working[c])'
        BY <2>5 DEF LInv, Provenance
      <3> QED
        BY <3>1 DEF LinesOf
    <2>8. m[1] = from /\ m[2] = to
      BY <2>1
    <2> HIDE DEF from, to
    <2> QED
      BY <2>3, <2>4, <2>6, <2>7, <2>8, UpdatesKeepBase
  <1> QED
    BY <1>1, ViewInvariance, PTL DEF Spec, StateUpdateKeepsIdentity

\* Nothing a clone shows of an entry is taken back by an append, a merge or a
\* fast-forward (merge_into), as long as no read-modify-write ran without the
\* lock: archived stays archived, superseded superseded, tags stay, and the
\* window and the recording shown only move to earlier times.
THEOREM NothingTakenBack == Spec => EntriesOnlyGrow
  <1>1. LInv /\ [Next]_vars =>
          [~unserialized' =>
             \A m \in Moves : \A e \in EntitiesOf(m[1]) :
               e \in EntitiesOf(m[2]) /\ Extends(Entry(m[2], e), Entry(m[1], e))]_vars
    <2> SUFFICES ASSUME LInv, [Next]_vars, ~unserialized', NEW m \in Moves, NEW e \in EntitiesOf(m[1])
                 PROVE  e \in EntitiesOf(m[2]) /\ Extends(Entry(m[2], e), Entry(m[1], e))
      OBVIOUS
    <2>1. PICK c \in Clones : m = <<store[working[c]].tree, store'[working'[c]].tree>>
      BY DEF Moves
    <2>2. \A k \in Commits : m[1][k] \subseteq m[2][k]
      BY <2>1, WorkingGrows DEF LInv
    <2> QED
      BY <2>2, MoreLinesExtend
  <1> QED
    BY <1>1, ViewInvariance, PTL DEF Spec, EntriesOnlyGrow
=============================================================================
