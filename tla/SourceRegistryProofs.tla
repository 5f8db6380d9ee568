------------------------ MODULE SourceRegistryProofs ------------------------
(***************************************************************************)
(* A walk through the pages of the listing misses no source and repeats    *)
(* none.  The argument is about two things: what ORDER BY and LIMIT return *)
(* of a finite set of ids, and what a walk owes its client when sources    *)
(* are registered and switched between two pages.                          *)
(***************************************************************************)
EXTENDS SourceRegistry, FiniteSetTheorems, SequenceTheorems, TLAPS

\* A source that is owed to a walk still matches its listing.
DueStillMatches ==
    \A w \in Walks : walk[w] # None => walk[w].due \subseteq Matching(walk[w].activeOnly)

\* The next page begins after everything that was listed.
ListedUpToCursor ==
    \A w \in Walks : walk[w] # None /\ walk[w].more =>
        \A n \in DOMAIN walk[w].listed : walk[w].listed[n] <= walk[w].cursor

IInv ==
    /\ TypeOK
    /\ DueStillMatches
    /\ ListedUpToCursor
    /\ WalksAreComplete

-----------------------------------------------------------------------------
(* The n-th row is well defined: every id has a rank of its own, and every *)
(* rank up to the number of ids is the rank of one.  So the rows are the   *)
(* ids, each once, in ascending order.                                     *)
LEMMA InOrderProperties ==
    ASSUME NEW ids \in SUBSET Nat, IsFiniteSet(ids)
    PROVE  /\ Cardinality(ids) \in Nat
           /\ InOrder(ids) \in [1..Cardinality(ids) -> ids]
           /\ \A i, j \in 1..Cardinality(ids) : i < j => InOrder(ids)[i] < InOrder(ids)[j]
           /\ \A s \in ids : \E i \in 1..Cardinality(ids) : InOrder(ids)[i] = s
<1>. DEFINE upTo(s) == {t \in ids : t <= s}
            rank == [s \in ids |-> Cardinality(upTo(s))]
<1>0. PICK n \in Nat : n = Cardinality(ids)
  BY FS_CardinalityType
<1>1. ASSUME NEW s \in ids
      PROVE  IsFiniteSet(upTo(s)) /\ rank[s] \in 1..n
  <2>1. /\ IsFiniteSet(upTo(s))
        /\ Cardinality(upTo(s)) <= n
    <3>1. upTo(s) \in SUBSET ids
      OBVIOUS
    <3>. QED
      BY <1>0, <3>1, FS_Subset
  <2>2. Cardinality(upTo(s)) \in Nat
    BY <2>1, FS_CardinalityType
  <2>3. s \in upTo(s)
    OBVIOUS
  <2>4. Cardinality(upTo(s)) # 0
    BY <2>1, <2>3, FS_EmptySet
  <2>. QED
    BY <2>1, <2>2, <2>4
<1>2. ASSUME NEW s \in ids, NEW t \in ids, s < t
      PROVE  rank[s] < rank[t]
  <2>1. upTo(s) \in SUBSET upTo(t)
    <3>1. \A u \in ids : u <= s => u <= t
      BY <1>2
    <3>. QED
      BY <3>1
  <2>2. upTo(s) # upTo(t)
    <3>1. t \in upTo(t) /\ t \notin upTo(s)
      BY <1>2
    <3>. QED
      BY <3>1
  <2>3. /\ Cardinality(upTo(s)) <= Cardinality(upTo(t))
        /\ Cardinality(upTo(s)) # Cardinality(upTo(t))
    BY <1>1, <2>1, <2>2, FS_Subset
  <2>. QED
    BY <1>1, <2>3
<1>3. rank \in Injection(ids, 1..n)
  <2>1. \A s, t \in ids : rank[s] = rank[t] => s = t
    <3>. SUFFICES ASSUME NEW s \in ids, NEW t \in ids, s # t PROVE rank[s] # rank[t]
      OBVIOUS
    <3>1. s < t \/ t < s
      OBVIOUS
    <3>. QED
      BY <1>1, <1>2, <3>1
  <2>2. rank \in [ids -> 1..n]
    BY <1>1
  <2>. QED
    BY <2>1, <2>2 DEF Injection, IsInjective
<1>4. rank \in Surjection(ids, 1..n)
  <2>1. IsFiniteSet(1..n) /\ Cardinality(1..n) = n
    BY FS_Interval
  <2>. QED
    BY <1>0, <1>3, <2>1, FS_Injection
<1>5. ASSUME NEW i \in 1..n
      PROVE  InOrder(ids)[i] \in ids /\ rank[InOrder(ids)[i]] = i
  <2>1. \E s \in ids : rank[s] = i
    BY <1>4 DEF Surjection
  <2>2. \E s \in ids : Cardinality({t \in ids : t <= s}) = i
    BY <2>1
  <2>3. InOrder(ids)[i] = CHOOSE s \in ids : Cardinality({t \in ids : t <= s}) = i
    BY <1>0 DEF InOrder
  <2>. QED
    BY <2>2, <2>3
<1>6. InOrder(ids) \in [1..n -> ids]
  BY <1>0, <1>5 DEF InOrder
<1>7. ASSUME NEW i \in 1..n, NEW j \in 1..n, i < j
      PROVE  InOrder(ids)[i] < InOrder(ids)[j]
  <2>1. PICK s \in ids, t \in ids :
           s = InOrder(ids)[i] /\ t = InOrder(ids)[j] /\ rank[s] = i /\ rank[t] = j
    BY <1>5
  <2>2. ~(t < s) /\ s # t
    BY <1>2, <1>7, <2>1
  <2>. QED
    BY <2>1, <2>2
<1>8. ASSUME NEW s \in ids
      PROVE  InOrder(ids)[rank[s]] = s
  <2>1. rank[s] \in 1..n
    BY <1>1
  <2>2. rank[InOrder(ids)[rank[s]]] = rank[s] /\ InOrder(ids)[rank[s]] \in ids
    BY <1>5, <2>1
  <2>. QED
    BY <1>3, <2>2 DEF Injection, IsInjective
<1>. QED
  BY <1>0, <1>1, <1>6, <1>7, <1>8

-----------------------------------------------------------------------------
(* What a page adds to a walk: the ids after the cursor in ascending order,*)
(* up to the new cursor when more follow, and all of them otherwise.       *)
LEMMA PageProperties ==
    ASSUME IInv, NEW w \in Walks, walk[w] # None, NEW limit \in Nat \ {0},
           NEW rows, rows = Rows(w, limit)
    PROVE  LET more == Len(rows) > limit
               page == IF more THEN SubSeq(rows, 1, limit) ELSE rows
           IN  /\ page \in Seq(Sources)
               /\ \A i \in 1..Len(page) : page[i] \in After(w)
               /\ \A i, j \in 1..Len(page) : i < j => page[i] < page[j]
               /\ more => /\ rows[limit] \in After(w)
                          /\ \A i \in 1..Len(page) : page[i] <= rows[limit]
               /\ \A s \in After(w) : (more => s <= rows[limit]) =>
                      \E i \in 1..Len(page) : page[i] = s
<1>. DEFINE ids == After(w)
            size == IF Cardinality(ids) <= limit THEN Cardinality(ids) ELSE limit + 1
<1>1. ids \in SUBSET Nat /\ IsFiniteSet(ids) /\ ids \subseteq Sources
  <2>1. ids \in SUBSET Sources
    BY DEF After, Matching, Registered
  <2>. QED
    BY <2>1, SourceRegistryAssumption, FS_Subset
<1>2. PICK n \in Nat, sorted \in {InOrder(ids)} :
         /\ n = Cardinality(ids)
         /\ sorted \in [1..n -> ids] /\ Len(sorted) = n
         /\ \A i, j \in 1..n : i < j => sorted[i] < sorted[j]
         /\ \A s \in ids : \E i \in 1..n : sorted[i] = s
  <2>1. PICK n \in Nat, sorted \in {InOrder(ids)} : n = Cardinality(ids)
    BY <1>1, InOrderProperties
  <2>2. /\ sorted \in [1..n -> ids]
        /\ \A i, j \in 1..n : i < j => sorted[i] < sorted[j]
        /\ \A s \in ids : \E i \in 1..n : sorted[i] = s
    BY <1>1, <2>1, InOrderProperties
  <2>3. Len(sorted) = n
    BY <2>1 DEF InOrder
  <2>. QED
    BY <2>1, <2>2, <2>3
<1>3. PICK m \in Nat : m = (IF n <= limit THEN n ELSE limit + 1)
  OBVIOUS
<1>4. rows = SubSeq(sorted, 1, m)
  BY <1>2, <1>3 DEF Rows
<1>5. /\ rows \in Seq(ids)
      /\ Len(rows) = m
      /\ \A i \in 1..m : rows[i] = sorted[i]
  <2>1. m <= n
    BY <1>3
  <2>2. \A i \in 1..m : sorted[i] \in ids
    BY <1>2, <2>1
  <2>3. /\ SubSeq(sorted, 1, m) \in Seq(ids)
        /\ Len(SubSeq(sorted, 1, m)) = IF 1 <= m THEN m - 1 + 1 ELSE 0
        /\ \A i \in 1..m - 1 + 1 : SubSeq(sorted, 1, m)[i] = sorted[1 + i - 1]
    BY <2>2, SubSeqProperties
  <2>. QED
    BY <1>4, <2>3
<1>6. PICK more \in BOOLEAN, page \in {rows, SubSeq(rows, 1, limit)} :
         /\ more <=> Len(rows) > limit
         /\ page = IF more THEN SubSeq(rows, 1, limit) ELSE rows
  OBVIOUS
<1>7. PICK k \in Nat :
         /\ page \in Seq(ids)
         /\ Len(page) = k
         /\ \A i \in 1..k : page[i] = sorted[i]
         /\ more => k = limit /\ n > limit
         /\ ~more => k = n
         /\ k <= n
         /\ k <= m
  <2>1. CASE more
    <3>1. m = limit + 1 /\ n > limit
      BY <1>3, <1>5, <1>6, <2>1
    <3>2. \A i \in 1..limit : rows[i] \in ids
      BY <1>2, <1>5, <3>1
    <3>3. /\ SubSeq(rows, 1, limit) \in Seq(ids)
          /\ Len(SubSeq(rows, 1, limit)) = IF 1 <= limit THEN limit - 1 + 1 ELSE 0
          /\ \A i \in 1..limit - 1 + 1 : SubSeq(rows, 1, limit)[i] = rows[1 + i - 1]
      BY <3>2, SubSeqProperties
    <3>. QED
      BY <1>5, <1>6, <2>1, <3>1, <3>3
  <2>2. CASE ~more
    <3>1. m = n
      BY <1>3, <1>5, <1>6, <2>2
    <3>. QED
      BY <1>5, <1>6, <2>2, <3>1
  <2>. QED
    BY <2>1, <2>2
<1>8. page \in Seq(Sources)
  BY <1>1, <1>7
<1>9. \A i \in 1..k : page[i] \in ids
  BY <1>2, <1>7
<1>10. \A i, j \in 1..k : i < j => page[i] < page[j]
  BY <1>2, <1>7
<1>11. ASSUME more
       PROVE  /\ rows[limit] \in ids /\ rows[limit] = sorted[limit]
              /\ \A i \in 1..k : page[i] <= rows[limit]
  <2>1. m = limit + 1 /\ n > limit /\ k = limit
    BY <1>3, <1>5, <1>6, <1>7, <1>11
  <2>2. rows[limit] = sorted[limit] /\ sorted[limit] \in ids
    BY <1>2, <1>5, <2>1
  <2>3. ASSUME NEW i \in 1..k PROVE page[i] <= rows[limit]
    <3>1. i = limit \/ i < limit
      BY <2>1
    <3>2. page[i] = sorted[i] /\ sorted[i] \in Nat
      BY <1>1, <1>2, <1>7
    <3>. QED
      BY <1>1, <1>2, <2>1, <2>2, <3>1, <3>2
  <2>. QED
    BY <2>2, <2>3
<1>12. ASSUME NEW s \in ids, more => s <= rows[limit]
       PROVE  \E i \in 1..k : page[i] = s
  <2>1. PICK i \in 1..n : sorted[i] = s
    BY <1>2
  <2>2. i \in 1..k
    <3>1. CASE more
      <4>1. k = limit /\ n > limit /\ s <= sorted[limit]
        BY <1>7, <1>11, <1>12, <3>1
      <4>2. ~(limit < i)
        <5>1. limit < i => sorted[limit] < sorted[i]
          BY <1>2, <4>1
        <5>2. sorted[limit] \in Nat /\ s \in Nat
          BY <1>1, <1>2, <4>1
        <5>. QED
          BY <2>1, <4>1, <5>1, <5>2
      <4>. QED
        BY <4>1, <4>2
    <3>2. CASE ~more
      BY <1>7, <3>2
    <3>. QED
      BY <3>1, <3>2
  <2>. QED
    BY <1>7, <2>1, <2>2
<1>. QED
  BY <1>6, <1>7, <1>8, <1>9, <1>10, <1>11, <1>12

-----------------------------------------------------------------------------
(* Nothing is registered and nobody lists.                                 *)
LEMMA InitInv == Init => IInv
BY DEF Init, IInv, TypeOK, DueStillMatches, ListedUpToCursor, WalksAreComplete

(* A new source matches whatever it matched before, none; the others are   *)
(* as they were.                                                           *)
LEMMA RegisterWaterSourceInv ==
    ASSUME IInv, NEW s \in Sources, RegisterWaterSource(s)
    PROVE  IInv'
<1>1. source' = [source EXCEPT ![s] = [active |-> TRUE, version |-> 1]]
      /\ UNCHANGED <<zone, station, walk>>
  BY DEF RegisterWaterSource, NewSource
<1>2. TypeOK'
  BY <1>1 DEF IInv, TypeOK, SourceRow
<1>3. \A r \in Sources : source[r] # None => source'[r] = source[r]
  BY <1>1 DEF RegisterWaterSource, IInv, TypeOK
<1>4. DueStillMatches'
  BY <1>1, <1>3 DEF IInv, DueStillMatches, Matching, Registered
<1>5. ListedUpToCursor' /\ WalksAreComplete'
  BY <1>1 DEF IInv, ListedUpToCursor, WalksAreComplete
<1>. QED
  BY <1>2, <1>4, <1>5 DEF IInv

(* Zones and stations are not listed by a walk.                            *)
LEMMA OthersInv ==
    ASSUME IInv,
           \/ \E s \in Sources, z \in Zones : RegisterZone(z, s)
           \/ \E s \in Sources, z \in Zones, c \in Codes : RegisterStation(c, s, z)
           \/ UNCHANGED vars
    PROVE  IInv'
<1>1. UNCHANGED <<source, walk>>
  BY DEF RegisterZone, RegisterStation, vars
<1>2. /\ zone' \in [Zones -> Sources \cup {None}]
      /\ station' \in [Codes -> StationRow \cup {None}]
  BY DEF RegisterZone, RegisterStation, vars, IInv, TypeOK, StationRow
<1>. QED
  BY <1>1, <1>2 DEF IInv, TypeOK, DueStillMatches, Matching, Registered, ListedUpToCursor,
                    WalksAreComplete

(* A source switched off is no longer owed to who lists the active ones,   *)
(* and what was listed stays listed.                                       *)
LEMMA UpdateSourceActiveInv ==
    ASSUME IInv, NEW s \in Sources, NEW version \in Nat, NEW active \in BOOLEAN,
           UpdateSourceActive(s, version, active)
    PROVE  IInv'
<1>1. PICK row : row = [active |-> active, version |-> source[s].version + 1]
  OBVIOUS
<1>2. /\ source' = [source EXCEPT ![s] = row]
      /\ source[s] # None
      /\ walk' = [w \in Walks |-> StillDue(w, s, active)]
      /\ UNCHANGED <<zone, station>>
  BY <1>1 DEF UpdateSourceActive, Registered
<1>3. row \in SourceRow
  BY <1>1, <1>2 DEF IInv, TypeOK, SourceRow
<1>4. ASSUME NEW w \in Walks, walk'[w] # None
      PROVE  /\ walk[w] # None /\ walk[w] \in WalkState /\ walk'[w] \in WalkState
             /\ walk'[w].activeOnly = walk[w].activeOnly
             /\ walk'[w].cursor = walk[w].cursor
             /\ walk'[w].more = walk[w].more
             /\ walk'[w].listed = walk[w].listed
             /\ walk'[w].due \subseteq walk[w].due
             /\ walk[w].activeOnly /\ ~active => s \notin walk'[w].due
  BY <1>2, <1>4 DEF StillDue, IInv, TypeOK, WalkState
<1>5. TypeOK'
  <2>1. source' \in [Sources -> SourceRow \cup {None}]
    BY <1>2, <1>3 DEF IInv, TypeOK
  <2>2. walk' \in [Walks -> WalkState \cup {None}]
    BY <1>2, <1>4
  <2>. QED
    BY <1>2, <2>1, <2>2 DEF IInv, TypeOK
<1>6. DueStillMatches'
  <2>1. ASSUME NEW w \in Walks, walk'[w] # None, NEW t \in walk'[w].due
        PROVE  /\ t \in Sources /\ source'[t] # None
               /\ walk'[w].activeOnly => source'[t].active
    <3>1. t \in Sources /\ source[t] # None /\ (walk[w].activeOnly => source[t].active)
      BY <1>4, <2>1 DEF IInv, DueStillMatches, Matching, Registered
    <3>2. CASE t = s
      <4>1. source'[t] = row /\ row # None
        BY <1>2, <1>3, <3>1, <3>2, NoRowIsNone DEF IInv, TypeOK
      <4>2. walk'[w].activeOnly => row.active
        BY <1>1, <1>4, <2>1, <3>2
      <4>. QED
        BY <3>1, <4>1, <4>2
    <3>3. CASE t # s
      <4>1. source'[t] = source[t]
        BY <1>2, <3>1, <3>3 DEF IInv, TypeOK
      <4>. QED
        BY <1>4, <2>1, <3>1, <4>1
    <3>. QED
      BY <3>2, <3>3
  <2>. QED
    BY <2>1 DEF DueStillMatches, Matching, Registered
<1>7. ListedUpToCursor'
  BY <1>4 DEF IInv, ListedUpToCursor
<1>8. WalksAreComplete'
  BY <1>4 DEF IInv, WalksAreComplete
<1>. QED
  BY <1>5, <1>6, <1>7, <1>8 DEF IInv

(* A walk begins before the smallest id, with nothing listed.              *)
LEMMA StartWalkInv ==
    ASSUME IInv, NEW w \in Walks, NEW activeOnly \in BOOLEAN, StartWalk(w, activeOnly)
    PROVE  IInv'
<1>1. PICK begun : begun = [activeOnly |-> activeOnly, cursor |-> 0, more |-> TRUE,
                            listed |-> <<>>, due |-> Matching(activeOnly)]
  OBVIOUS
<1>2. /\ walk' = [walk EXCEPT ![w] = begun]
      /\ UNCHANGED <<source, zone, station>>
  BY <1>1 DEF StartWalk
<1>3. begun \in WalkState
  BY <1>1 DEF WalkState, Matching, Registered
<1>4. TypeOK'
  BY <1>2, <1>3 DEF IInv, TypeOK
<1>5. \A v \in Walks : walk'[v] = IF v = w THEN begun ELSE walk[v]
  BY <1>2 DEF IInv, TypeOK
<1>6. DueStillMatches'
  BY <1>1, <1>2, <1>5 DEF IInv, DueStillMatches, Matching, Registered
<1>7. ListedUpToCursor'
  BY <1>1, <1>5 DEF IInv, ListedUpToCursor
<1>8. WalksAreComplete'
  <2>1. \A s \in Sources : ~(s <= 0)
    BY SourceRegistryAssumption
  <2>2. begun.due \subseteq Sources
    BY <1>1 DEF Matching, Registered
  <2>3. {s \in begun.due : begun.more => s <= begun.cursor} = {}
    BY <1>1, <2>1, <2>2
  <2>. QED
    BY <1>1, <1>5, <2>3 DEF IInv, WalksAreComplete
<1>. QED
  BY <1>4, <1>6, <1>7, <1>8 DEF IInv

-----------------------------------------------------------------------------
(* A page lists what follows the cursor, and moves the cursor to where it  *)
(* ends: nothing owed lies between the two cursors but what it lists.      *)
LEMMA NextPageInv ==
    ASSUME IInv, NEW w \in Walks, NEW limit \in Limits, NextPage(w, limit)
    PROVE  IInv'
<1>1. limit \in Nat \ {0}
  BY SourceRegistryAssumption
<1>2. PICK old \in WalkState : old = walk[w] /\ old.more
  BY DEF NextPage, IInv, TypeOK
<1>3. PICK rows : rows = Rows(w, limit)
  OBVIOUS
<1>4. PICK more \in BOOLEAN, page \in {rows, SubSeq(rows, 1, limit)} :
         /\ more <=> Len(rows) > limit
         /\ page = IF more THEN SubSeq(rows, 1, limit) ELSE rows
  OBVIOUS
<1>5. /\ page \in Seq(Sources)
      /\ \A i \in 1..Len(page) : page[i] \in After(w)
      /\ \A i, j \in 1..Len(page) : i < j => page[i] < page[j]
      /\ more => /\ rows[limit] \in After(w)
                 /\ \A i \in 1..Len(page) : page[i] <= rows[limit]
      /\ \A s \in After(w) : (more => s <= rows[limit]) =>
             \E i \in 1..Len(page) : page[i] = s
  <2>1. walk[w] # None
    BY DEF NextPage
  <2>. QED
    BY <1>1, <1>3, <1>4, <2>1, PageProperties
<1>6. PICK new : new = [old EXCEPT !.more = more,
                                   !.cursor = IF more THEN rows[limit] ELSE old.cursor,
                                   !.listed = old.listed \o page]
  OBVIOUS
<1>7. /\ walk' = [walk EXCEPT ![w] = new]
      /\ UNCHANGED <<source, zone, station>>
  <2>1. walk' = [walk EXCEPT
                    ![w].more = Len(rows) > limit,
                    ![w].cursor = IF Len(rows) > limit THEN rows[limit] ELSE @,
                    ![w].listed = @ \o (IF Len(rows) > limit THEN SubSeq(rows, 1, limit)
                                                            ELSE rows)]
    BY <1>3 DEF NextPage, NextCursor
  <2>2. more = (Len(rows) > limit)
    BY <1>4
  <2>3. walk' = [walk EXCEPT ![w].more = more,
                             ![w].cursor = IF more THEN rows[limit] ELSE @,
                             ![w].listed = @ \o page]
    BY <1>4, <2>1, <2>2, Zenon
  <2>4. walk' = [walk EXCEPT ![w] = new]
    BY <1>2, <1>6, <2>3 DEF IInv, TypeOK, WalkState
  <2>. QED
    BY <2>4 DEF NextPage
<1>8. \A s \in After(w) : s \in Sources /\ s > old.cursor
  BY <1>2 DEF After, Matching, Registered
<1>9. /\ new.activeOnly = old.activeOnly /\ new.due = old.due /\ new.more = more
      /\ new.cursor = (IF more THEN rows[limit] ELSE old.cursor)
      /\ new.listed = old.listed \o page
  BY <1>2, <1>6 DEF WalkState
<1>10. PICK n \in Nat, k \in Nat :
          /\ n = Len(old.listed) /\ k = Len(page)
          /\ old.listed \in Seq(Sources)
          /\ DOMAIN old.listed = 1..n
          /\ new.listed \in Seq(Sources)
          /\ DOMAIN new.listed = 1..n + k
          /\ \A i \in 1..n : new.listed[i] = old.listed[i]
          /\ \A i \in 1..k : new.listed[n + i] = page[i]
  <2>1. old.listed \in Seq(Sources)
    BY <1>2 DEF WalkState
  <2>2. PICK n \in Nat, k \in Nat : n = Len(old.listed) /\ k = Len(page)
    BY <1>5, <2>1, LenProperties
  <2>3. /\ new.listed \in Seq(Sources)
        /\ Len(new.listed) = n + k
        /\ \A i \in 1..n + k :
              new.listed[i] = IF i <= n THEN old.listed[i] ELSE page[i - n]
    BY <1>5, <1>9, <2>1, <2>2, ConcatProperties
  <2>4. \A i \in 1..k : n + i \in 1..n + k /\ ~(n + i <= n) /\ n + i - n = i
    OBVIOUS
  <2>5. \A i \in 1..n : i \in 1..n + k
    OBVIOUS
  <2>6. DOMAIN new.listed = 1..n + k
    BY <2>3, LenProperties
  <2>7. DOMAIN old.listed = 1..n
    BY <2>1, <2>2, LenProperties
  <2>8. \A i \in 1..n : new.listed[i] = old.listed[i]
    BY <2>3, <2>5
  <2>9. ASSUME NEW i \in 1..k PROVE new.listed[n + i] = page[i]
    <3>1. PICK m \in 1..n + k : m = n + i /\ ~(m <= n) /\ m - n = i
      OBVIOUS
    <3>2. new.listed[m] = page[m - n]
      BY <2>3, <3>1
    <3>. QED
      BY <3>1, <3>2
  <2>. QED
    BY <2>1, <2>2, <2>3, <2>6, <2>7, <2>8, <2>9
<1>11. \A m \in 1..n + k : m \in 1..n \/ \E i \in 1..k : m = n + i
  <2>. SUFFICES ASSUME NEW m \in 1..n + k, m \notin 1..n PROVE m - n \in 1..k /\ m = n + (m - n)
    OBVIOUS
  <2>. QED
    OBVIOUS
<1>12. new \in WalkState
  <2>1. rows[limit] \in Sources \/ ~more
    BY <1>5, <1>8
  <2>2. (IF more THEN rows[limit] ELSE old.cursor) \in {0} \cup Sources
    BY <1>2, <2>1 DEF WalkState
  <2>3. PICK c \in {0} \cup Sources, l \in Seq(Sources) :
           new = [old EXCEPT !.more = more, !.cursor = c, !.listed = l]
    BY <1>6, <1>9, <1>10, <2>2
  <2>. QED
    BY <1>2, <2>3 DEF WalkState
<1>13. TypeOK'
  BY <1>7, <1>12 DEF IInv, TypeOK
<1>14. \A v \in Walks : walk'[v] = IF v = w THEN new ELSE walk[v]
  BY <1>7 DEF IInv, TypeOK
<1>15. DueStillMatches'
  <2>1. walk[w] # None /\ old = walk[w]
    BY <1>2 DEF NextPage
  <2>. SUFFICES ASSUME NEW v \in Walks, walk'[v] # None
                PROVE  (walk[v].due \subseteq Matching(walk[v].activeOnly))'
    BY DEF DueStillMatches
  <2>3. /\ walk[v] # None /\ walk'[v].due = walk[v].due
        /\ walk'[v].activeOnly = walk[v].activeOnly
    BY <1>9, <1>14, <2>1
  <2>4. Matching(walk[v].activeOnly)' = Matching(walk[v].activeOnly)
    BY <1>7, <2>3 DEF Matching, Registered
  <2>. QED
    BY <2>3, <2>4 DEF IInv, DueStillMatches
<1>16. Sources \subseteq Nat /\ old.cursor \in Nat
  <2>1. old.cursor = 0 \/ old.cursor \in Sources
    BY <1>2 DEF WalkState
  <2>2. Sources \subseteq Nat
    BY SourceRegistryAssumption
  <2>3. CASE old.cursor = 0
    BY <2>2, <2>3
  <2>4. CASE old.cursor \in Sources
    BY <2>2, <2>4
  <2>. QED
    BY <2>1, <2>3, <2>4
<1>17. \A i \in 1..n : old.listed[i] \in Nat /\ old.listed[i] <= old.cursor
  <2>1. \A i \in 1..n : old.listed[i] \in Sources
    BY <1>10
  <2>. QED
    BY <1>2, <1>10, <1>16, <2>1 DEF NextPage, IInv, ListedUpToCursor
<1>18. \A i \in 1..k : page[i] \in Nat /\ page[i] > old.cursor
  BY <1>5, <1>8, <1>10, <1>16
<1>19. ListedUpToCursor'
  <2>1. ASSUME more, NEW m \in 1..n + k
        PROVE  new.listed[m] <= rows[limit]
    <3>1. rows[limit] \in Nat /\ rows[limit] > old.cursor
      BY <1>5, <1>8, <1>16, <2>1
    <3>2. CASE m \in 1..n
      <4>1. new.listed[m] = old.listed[m]
        BY <1>10, <3>2
      <4>2. old.listed[m] \in Nat /\ old.listed[m] <= old.cursor /\ old.cursor \in Nat
        BY <1>16, <1>17, <3>2
      <4>. QED
        BY <3>1, <4>1, <4>2
    <3>3. ASSUME NEW i \in 1..k, m = n + i
          PROVE  new.listed[m] <= rows[limit]
      <4>1. new.listed[m] = page[i]
        BY <1>10, <3>3
      <4>. QED
        BY <1>5, <1>10, <2>1, <4>1
    <3>. QED
      BY <1>11, <3>2, <3>3
  <2>. QED
    BY <1>9, <1>10, <1>14, <2>1 DEF IInv, ListedUpToCursor
<1>20. \A a, b \in DOMAIN new.listed : a < b => new.listed[a] < new.listed[b]
  <2>. SUFFICES ASSUME NEW a \in 1..n + k, NEW b \in 1..n + k, a < b
                PROVE  new.listed[a] < new.listed[b]
    BY <1>10
  <2>1. CASE a \in 1..n /\ b \in 1..n
    BY <1>2, <1>10, <2>1 DEF NextPage, IInv, WalksAreComplete
  <2>2. ASSUME a \in 1..n, NEW j \in 1..k, b = n + j
        PROVE  new.listed[a] < new.listed[b]
    <3>1. new.listed[a] = old.listed[a] /\ new.listed[b] = page[j]
      BY <1>10, <2>2
    <3>2. /\ old.listed[a] \in Nat /\ old.listed[a] <= old.cursor
          /\ page[j] \in Nat /\ page[j] > old.cursor
      BY <1>17, <1>18, <2>2
    <3>. QED
      BY <1>16, <3>1, <3>2
  <2>3. ASSUME NEW i \in 1..k, a = n + i, NEW j \in 1..k, b = n + j
        PROVE  new.listed[a] < new.listed[b]
    <3>1. i < j
      BY <2>3
    <3>. QED
      BY <1>5, <1>10, <2>3, <3>1
  <2>4. ~(b \in 1..n /\ \E i \in 1..k : a = n + i)
    OBVIOUS
  <2>5. a \in 1..n \/ \E i \in 1..k : a = n + i
    BY <1>11
  <2>6. b \in 1..n \/ \E i \in 1..k : b = n + i
    BY <1>11
  <2>7. CASE b \in 1..n
    BY <2>1, <2>4, <2>5, <2>7
  <2>8. ASSUME NEW j \in 1..k, b = n + j
        PROVE  new.listed[a] < new.listed[b]
    <3>1. CASE a \in 1..n
      BY <2>2, <2>8, <3>1
    <3>2. ASSUME NEW i \in 1..k, a = n + i
          PROVE  new.listed[a] < new.listed[b]
      BY <2>3, <2>8, <3>2
    <3>. QED
      BY <2>5, <3>1, <3>2
  <2>. QED
    BY <2>6, <2>7, <2>8
<1>21. {s \in new.due : new.more => s <= new.cursor} \subseteq ToSet(new.listed)
  <2>. SUFFICES ASSUME NEW s \in old.due, more => s <= rows[limit]
                PROVE  \E m \in DOMAIN new.listed : new.listed[m] = s
    BY <1>9 DEF ToSet
  <2>1. s \in Sources /\ s \in Matching(old.activeOnly)
    BY <1>2 DEF NextPage, IInv, DueStillMatches, WalkState
  <2>2. CASE s <= old.cursor
    <3>1. s \in ToSet(old.listed)
      BY <1>2, <2>2 DEF NextPage, IInv, WalksAreComplete
    <3>2. PICK i \in 1..n : old.listed[i] = s
      BY <1>10, <3>1 DEF ToSet
    <3>3. i \in 1..n + k
      OBVIOUS
    <3>. QED
      BY <1>10, <3>2, <3>3
  <2>3. CASE s > old.cursor
    <3>1. s \in After(w)
      BY <1>2, <2>1, <2>3 DEF After
    <3>2. PICK i \in 1..k : page[i] = s
      BY <1>5, <1>10, <3>1
    <3>3. n + i \in 1..n + k
      OBVIOUS
    <3>. QED
      BY <1>10, <3>2, <3>3
  <2>4. s \in Nat
    BY <1>16, <2>1
  <2>5. s <= old.cursor \/ s > old.cursor
    BY <1>16, <2>4
  <2>. QED
    BY <2>2, <2>3, <2>5
<1>22. WalksAreComplete'
  BY <1>14, <1>20, <1>21 DEF IInv, WalksAreComplete
<1>. QED
  BY <1>13, <1>15, <1>19, <1>22 DEF IInv

-----------------------------------------------------------------------------
(* Every step of the registry and of the walks keeps the invariant.        *)
LEMMA NextInv == IInv /\ [Next]_vars => IInv'
<1>. SUFFICES ASSUME IInv, [Next]_vars PROVE IInv'
  OBVIOUS
<1>1. CASE RegistryStep
  <2>1. 1..MaxVersion \subseteq Nat
    OBVIOUS
  <2>. QED
    BY <1>1, <2>1, RegisterWaterSourceInv, OthersInv, UpdateSourceActiveInv DEF RegistryStep
<1>2. CASE WalkStep
  BY <1>2, StartWalkInv, NextPageInv DEF WalkStep
<1>3. CASE UNCHANGED vars
  BY <1>3, OthersInv
<1>. QED
  BY <1>1, <1>2, <1>3 DEF Next

(* The inductive invariant holds of every state a behaviour reaches.       *)
THEOREM Invariance == Spec => []IInv
BY InitInv, NextInv, PTL DEF Spec

(* The tables and the walks keep their types.                              *)
THEOREM TypeCorrect == Spec => []TypeOK
<1>1. IInv => TypeOK
  BY DEF IInv
<1>. QED
  BY <1>1, Invariance, PTL

(* Whoever follows next_cursor is shown every source that was there all    *)
(* along, once and in order, with pages of any sizes and any registrations *)
(* and switches in between (ListWaterSources).                             *)
THEOREM ListingIsComplete == Spec => []WalksAreComplete
<1>1. IInv => WalksAreComplete
  BY DEF IInv
<1>. QED
  BY <1>1, Invariance, PTL
=============================================================================
