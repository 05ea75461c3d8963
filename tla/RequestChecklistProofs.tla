---------------------- MODULE RequestChecklistProofs ----------------------
(***************************************************************************)
(* Theorems about RequestChecklist, for any number of requests, items,     *)
(* posts, forms and pages; and about FormFormats, for any texts: what a    *)
(* practice exports and what a client's form holds is read as it was       *)
(* written.  The two parts share nothing.                                  *)
(***************************************************************************)
EXTENDS RequestChecklist, FormFormats, FiniteSetTheorems, FunctionTheorems, SequenceTheorems,
        WellFoundedInduction, TLAPS

-----------------------------------------------------------------------------
(* Numbers given to rows. *)

\* What a set of numbered rows must be for Place to keep a list in order.
Numbered(rows) ==
  \E ids \in SUBSET (Item \ Asked) :
    /\ rows \in [ids -> [label : Label, note : Note, at : 0 .. Cardinality(ids) - 1]]
    /\ \A i, j \in ids : i # j => rows[i].at # rows[j].at

LEMMA ItemSetsAreFinite ==
  ASSUME NEW S \in SUBSET Item
  PROVE  IsFiniteSet(S) /\ Cardinality(S) \in Nat
BY FiniteAssumption, FS_Subset, FS_CardinalityType

(* Distinct numbers below n, one for each of n things, are all the numbers     *)
(* below n.                                                                    *)
LEMMA DistinctNumbersFill ==
  ASSUME NEW S \in SUBSET Item,
         NEW f \in [S -> 0 .. Cardinality(S) - 1],
         \A i, j \in S : i # j => f[i] # f[j]
  PROVE  {f[i] : i \in S} = 0 .. Cardinality(S) - 1
<1> DEFINE T == 0 .. Cardinality(S) - 1
<1>1. Cardinality(S) \in Nat
  BY ItemSetsAreFinite
<1>2. IsFiniteSet(T) /\ Cardinality(T) = Cardinality(S)
  <2>1. Cardinality(S) - 1 \in Int
    BY <1>1
  <2>2. IsFiniteSet(T) /\ Cardinality(T) = IF 0 > Cardinality(S) - 1 THEN 0 ELSE (Cardinality(S) - 1) - 0 + 1
    BY <2>1, FS_Interval
  <2> QED
    BY <1>1, <2>2
<1>3. f \in Injection(S, T)
  BY DEF Injection, IsInjective
<1>4. f \in Surjection(S, T)
  BY <1>2, <1>3, FS_Injection
<1> QED
  BY <1>4 DEF Surjection

(* Numbers that fill the places of a list are distinct.                        *)
LEMMA FillingIsDistinct ==
  ASSUME NEW S \in SUBSET Item,
         NEW f \in [S -> Nat],
         {f[i] : i \in S} = 0 .. Cardinality(S) - 1
  PROVE  \A i, j \in S : i # j => f[i] # f[j]
<1> DEFINE T == 0 .. Cardinality(S) - 1
<1>1. IsFiniteSet(S) /\ Cardinality(S) \in Nat
  BY ItemSetsAreFinite
<1>2. Cardinality(T) = Cardinality(S)
  <2>1. Cardinality(S) - 1 \in Int
    BY <1>1
  <2>2. Cardinality(T) = IF 0 > Cardinality(S) - 1 THEN 0 ELSE (Cardinality(S) - 1) - 0 + 1
    BY <2>1, FS_Interval
  <2> QED
    BY <1>1, <2>2
<1>3. f \in Surjection(S, T)
  <2>1. f \in [S -> T]
    OBVIOUS
  <2>2. \A t \in T : \E i \in S : f[i] = t
    OBVIOUS
  <2> QED
    BY <2>1, <2>2 DEF Surjection
<1>4. f \in Injection(S, T)
  BY <1>1, <1>2, <1>3, FS_SurjSameCardinalityImpliesInj
<1> QED
  BY <1>4 DEF Injection, IsInjective

LEMMA PositionsDiffer ==
  ASSUME TypeOK, PositionsCount, NEW r \in Request
  PROVE  \A i, j \in ItemsOf(r) : i # j => position[i] # position[j]
<1> DEFINE S == ItemsOf(r)
           f == [i \in S |-> position[i]]
<1>1. S \in SUBSET Item
  BY DEF ItemsOf
<1>2. f \in [S -> Nat]
  BY <1>1 DEF TypeOK
<1>3. {f[i] : i \in S} = 0 .. Cardinality(S) - 1
  BY DEF PositionsCount
<1>4. \A i, j \in S : i # j => f[i] # f[j]
  BY <1>1, <1>2, <1>3, FillingIsDistinct
<1> QED
  BY <1>4

(* Ranks among some items of one list are numbers below their count, and       *)
(* distinct.                                                                   *)
LEMMA RanksFill ==
  ASSUME TypeOK, NEW S \in SUBSET Item,
         \A i, j \in S : i # j => position[i] # position[j]
  PROVE  /\ \A i \in S : Rank(i, S) \in 0 .. Cardinality(S) - 1
         /\ \A i, j \in S : i # j => Rank(i, S) # Rank(j, S)
<1> DEFINE Below(i) == {j \in S : position[j] < position[i]}
<1>1. \A i \in S : Below(i) \in SUBSET S /\ IsFiniteSet(Below(i)) /\ Cardinality(Below(i)) \in Nat
  BY ItemSetsAreFinite
<1>2. IsFiniteSet(S) /\ Cardinality(S) \in Nat
  BY ItemSetsAreFinite
<1>3. \A i \in S : position[i] \in Nat
  BY DEF TypeOK
<1>4. ASSUME NEW i \in S
      PROVE  Cardinality(Below(i)) < Cardinality(S)
  <2>1. Cardinality(Below(i)) <= Cardinality(S) /\ (Cardinality(S) = Cardinality(Below(i)) => S = Below(i))
    BY <1>1, <1>2, FS_Subset
  <2>2. i \notin Below(i)
    BY <1>3
  <2> QED
    BY <1>1, <1>2, <2>1, <2>2
<1>5. ASSUME NEW i \in S, NEW j \in S, position[i] < position[j]
      PROVE  Cardinality(Below(i)) < Cardinality(Below(j))
  <2>1. Below(i) \in SUBSET Below(j)
    BY <1>3, <1>5
  <2>2. Cardinality(Below(i)) <= Cardinality(Below(j)) /\ (Cardinality(Below(j)) = Cardinality(Below(i)) => Below(j) = Below(i))
    BY <1>1, <2>1, FS_Subset
  <2>3. i \in Below(j) /\ i \notin Below(i)
    BY <1>3, <1>5
  <2> QED
    BY <1>1, <2>2, <2>3
<1>6. \A i \in S : Rank(i, S) = Cardinality(Below(i))
  BY DEF Rank
<1>7. ASSUME NEW i \in S
      PROVE  Rank(i, S) \in 0 .. Cardinality(S) - 1
  <2>1. Cardinality(Below(i)) \in Nat /\ Cardinality(Below(i)) < Cardinality(S)
    BY <1>1, <1>4
  <2>2. Rank(i, S) = Cardinality(Below(i))
    BY <1>6
  <2> HIDE DEF Below
  <2> QED
    BY <1>2, <2>1, <2>2
<1>8. ASSUME NEW i \in S, NEW j \in S, i # j
      PROVE  Rank(i, S) # Rank(j, S)
  <2>1. position[i] < position[j] \/ position[j] < position[i]
    BY <1>3, <1>8
  <2>2. Cardinality(Below(i)) < Cardinality(Below(j)) \/ Cardinality(Below(j)) < Cardinality(Below(i))
    BY <1>5, <2>1
  <2> QED
    BY <1>1, <1>6, <2>2
<1> QED
  BY <1>7, <1>8

-----------------------------------------------------------------------------
(* The two sources of new rows give numbered rows. *)

LEMMA RowsForAreNumbered ==
  ASSUME NEW labels \in SUBSET Label, NEW rows \in RowsFor(labels)
  PROVE  Numbered(rows)
<1> DEFINE n == Cardinality(labels)
           row == [label : labels, note : {NoNote}, at : 0 .. n - 1]
<1>1. PICK ids \in SUBSET (Item \ Asked) : Cardinality(ids) = n /\ rows \in [ids -> row]
  BY DEF RowsFor
<1>2. \A i, j \in ids : i # j => rows[i].at # rows[j].at
  BY <1>1 DEF RowsFor
<1>3. rows \in [ids -> [label : Label, note : Note, at : 0 .. Cardinality(ids) - 1]]
  BY <1>1, NoteAssumption
<1> QED
  BY <1>1, <1>2, <1>3 DEF Numbered

LEMMA CopiesAreNumbered ==
  ASSUME TypeOK, ListIsClosed, PositionsCount, NEW r \in Request,
         NEW rows \in CopiesOf(Live(r))
  PROVE  Numbered(rows)
<1> DEFINE S == Live(r)
<1>1. S \in SUBSET ItemsOf(r) /\ S \in SUBSET Item
  BY DEF Live, ItemsOf
<1>2. \A i, j \in S : i # j => position[i] # position[j]
  BY <1>1, PositionsDiffer
<1>3. /\ \A i \in S : Rank(i, S) \in 0 .. Cardinality(S) - 1
      /\ \A i, j \in S : i # j => Rank(i, S) # Rank(j, S)
  BY <1>1, <1>2, RanksFill
<1>4. \A i \in S : label[i] \in Label /\ note[i] \in Note
  BY <1>1, NoneAssumption DEF ListIsClosed, TypeOK, ItemsOf
<1>5. PICK ids \in SUBSET (Item \ Asked) : \E from \in [ids -> S] :
        /\ Cardinality(ids) = Cardinality(S)
        /\ \A i, j \in ids : i # j => from[i] # from[j]
        /\ rows = [i \in ids |-> [label |-> label[from[i]], note |-> note[from[i]], at |-> Rank(from[i], S)]]
  <2> DEFINE Sized == {s \in SUBSET (Item \ Asked) : Cardinality(s) = Cardinality(S)}
             Sources == {f \in UNION {[s -> S] : s \in Sized} : \A i, j \in DOMAIN f : i # j => f[i] # f[j]}
             Copy(f) == [i \in DOMAIN f |-> [label |-> label[f[i]], note |-> note[f[i]], at |-> Rank(f[i], S)]]
  <2>1. PICK f \in Sources : rows = Copy(f)
    BY DEF CopiesOf
  <2>2. PICK s \in Sized : f \in [s -> S]
    OBVIOUS
  <2>3. DOMAIN f = s
    BY <2>2
  <2> QED
    BY <2>1, <2>2, <2>3
<1>6. PICK from \in [ids -> S] :
        /\ Cardinality(ids) = Cardinality(S)
        /\ \A i, j \in ids : i # j => from[i] # from[j]
        /\ rows = [i \in ids |-> [label |-> label[from[i]], note |-> note[from[i]], at |-> Rank(from[i], S)]]
  BY <1>5
<1>7. rows \in [ids -> [label : Label, note : Note, at : 0 .. Cardinality(ids) - 1]]
  BY <1>3, <1>4, <1>6
<1>8. \A i, j \in ids : i # j => rows[i].at # rows[j].at
  BY <1>3, <1>6
<1> QED
  BY <1>7, <1>8 DEF Numbered

(* Numbered rows put on a request keep every list numbered without gaps, and   *)
(* touch no row that was there.                                                *)
LEMMA PlacingKeepsLists ==
  ASSUME TypeOK, PositionsCount,
         NEW r \in Request, NEW rows, Numbered(rows), Place(r, rows)
  PROVE  /\ owner' \in [Item -> Request \union {None}]
         /\ label' \in [Item -> Label \union {None}]
         /\ note' \in [Item -> Note]
         /\ position' \in [Item -> Nat]
         /\ \A i \in Item : IF owner'[i] = owner[i]
                              THEN owner[i] # None => label'[i] = label[i]
                              ELSE owner[i] = None /\ owner'[i] = r /\ label'[i] \in Label
         /\ PositionsCount'
<1>1. PICK ids \in SUBSET (Item \ Asked) :
        /\ rows \in [ids -> [label : Label, note : Note, at : 0 .. Cardinality(ids) - 1]]
        /\ \A i, j \in ids : i # j => rows[i].at # rows[j].at
  BY DEF Numbered
<1>2. DOMAIN rows = ids /\ ids \in SUBSET Item
  BY <1>1
<1>3. \A i \in ids : owner[i] = None
  BY <1>1 DEF Asked
<1>4. r # None
  BY NoneAssumption
<1> DEFINE n == Cardinality(ItemsOf(r))
           k == Cardinality(ids)
<1>5. n \in Nat /\ IsFiniteSet(ItemsOf(r)) /\ k \in Nat /\ IsFiniteSet(ids)
  BY <1>2, ItemSetsAreFinite DEF ItemsOf
<1>6. \A i \in ids : rows[i].label \in Label /\ rows[i].note \in Note /\ rows[i].at \in 0 .. k - 1
  BY <1>1
<1>7. owner' = [i \in Item |-> IF i \in ids THEN r ELSE owner[i]]
  BY <1>2 DEF Place
<1>8. label' = [i \in Item |-> IF i \in ids THEN rows[i].label ELSE label[i]]
  BY <1>2 DEF Place
<1>9. note' = [i \in Item |-> IF i \in ids THEN rows[i].note ELSE note[i]]
  BY <1>2 DEF Place
<1>10. position' = [i \in Item |-> IF i \in ids THEN n + rows[i].at ELSE position[i]]
  BY <1>2 DEF Place
<1>11. owner' \in [Item -> Request \union {None}]
  BY <1>7 DEF TypeOK
<1>12. label' \in [Item -> Label \union {None}]
  BY <1>6, <1>8 DEF TypeOK
<1>13. note' \in [Item -> Note]
  BY <1>6, <1>9 DEF TypeOK
<1>14. position' \in [Item -> Nat]
  <2>1. \A i \in ids : n + rows[i].at \in Nat
    BY <1>5, <1>6
  <2>2. \A i \in Item : position[i] \in Nat
    BY DEF TypeOK
  <2> HIDE DEF n
  <2> QED
    BY <1>10, <2>1, <2>2
<1>15. ASSUME NEW i \in Item
       PROVE  IF owner'[i] = owner[i]
                THEN owner[i] # None => label'[i] = label[i]
                ELSE owner[i] = None /\ owner'[i] = r /\ label'[i] \in Label
  BY <1>3, <1>4, <1>6, <1>7, <1>8
<1>16. ASSUME NEW q \in Request
       PROVE  {position'[i] : i \in ItemsOf(q)'} = 0 .. Cardinality(ItemsOf(q)') - 1
  <2>1. CASE q # r
    <3>1. ItemsOf(q)' = ItemsOf(q)
      BY <1>3, <1>7, <2>1, NoneAssumption DEF ItemsOf
    <3>2. \A i \in ItemsOf(q) : position'[i] = position[i]
      BY <1>3, <1>10, NoneAssumption DEF ItemsOf
    <3>3. {position'[i] : i \in ItemsOf(q)} = {position[i] : i \in ItemsOf(q)}
      BY <3>2
    <3> QED
      BY <3>1, <3>3 DEF PositionsCount
  <2>2. CASE q = r
    <3>1. ItemsOf(q)' = ItemsOf(r) \union ids
      BY <1>2, <1>7, <2>2 DEF ItemsOf
    <3>2. ItemsOf(r) \intersect ids = {}
      BY <1>3, <1>4 DEF ItemsOf
    <3>3. Cardinality(ItemsOf(q)') = n + k
      <4>1. Cardinality(ItemsOf(r) \union ids) = n + k - Cardinality(ItemsOf(r) \intersect ids)
        BY <1>5, FS_Union
      <4>2. Cardinality(ItemsOf(r) \intersect ids) = 0
        BY <3>2, FS_EmptySet
      <4> QED
        BY <1>5, <3>1, <4>1, <4>2
    <3>4. {position[i] : i \in ItemsOf(r)} = 0 .. n - 1
      BY DEF PositionsCount
    <3>5. {rows[i].at : i \in ids} = 0 .. k - 1
      <4> DEFINE at == [i \in ids |-> rows[i].at]
      <4>1. at \in [ids -> 0 .. k - 1] /\ \A i, j \in ids : i # j => at[i] # at[j]
        BY <1>1, <1>6
      <4>2. {at[i] : i \in ids} = {rows[i].at : i \in ids}
        OBVIOUS
      <4> HIDE DEF at
      <4>3. {at[i] : i \in ids} = 0 .. k - 1
        BY <1>2, <4>1, DistinctNumbersFill
      <4> QED
        BY <4>2, <4>3
    <3>6. \A i \in ItemsOf(r) : position'[i] = position[i]
      BY <1>10, <3>2 DEF ItemsOf
    <3>7. \A i \in ids : position'[i] = n + rows[i].at
      BY <1>2, <1>10
    <3> DEFINE new == {position'[i] : i \in ItemsOf(r) \union ids}
    <3>8. \A x \in new : x \in 0 .. n + k - 1
      <4>1. \A i \in ItemsOf(r) : position[i] \in 0 .. n - 1
        BY <3>4
      <4>2. \A i \in ids : rows[i].at \in 0 .. k - 1
        BY <1>6
      <4> HIDE DEF n, k
      <4>3. \A i \in ItemsOf(r) : position'[i] \in 0 .. n + k - 1
        BY <1>5, <3>6, <4>1
      <4>4. \A i \in ids : position'[i] \in 0 .. n + k - 1
        BY <1>5, <3>7, <4>2
      <4> QED
        BY <4>3, <4>4
    <3>9. \A x \in 0 .. n + k - 1 : x \in new
      <4> TAKE x \in 0 .. n + k - 1
      <4> HIDE DEF n, k
      <4>1. CASE x < n
        <5>1. x \in 0 .. n - 1
          BY <1>5, <4>1
        <5>2. PICK i \in ItemsOf(r) : position[i] = x
          BY <3>4, <5>1
        <5> QED
          BY <3>6, <5>2
      <4>2. CASE x >= n
        <5>1. x - n \in 0 .. k - 1
          BY <1>5, <4>2
        <5>2. PICK i \in ids : rows[i].at = x - n
          BY <3>5, <5>1
        <5>3. position'[i] = x
          BY <1>5, <3>7, <5>2
        <5> QED
          BY <5>3
      <4> QED
        BY <1>5, <4>1, <4>2
    <3>10. new = 0 .. n + k - 1
      BY <3>8, <3>9
    <3>11. {position'[i] : i \in ItemsOf(q)'} = new
      BY <3>1
    <3> HIDE DEF new, n, k
    <3>12. Cardinality(ItemsOf(q)') - 1 = n + k - 1
      BY <1>5, <3>3
    <3> QED
      BY <3>10, <3>11, <3>12, Zenon
  <2> QED
    BY <2>1, <2>2
<1>17. PositionsCount'
  BY <1>16 DEF PositionsCount
<1> QED
  BY <1>11, <1>12, <1>13, <1>14, <1>15, <1>17

(* A row never changes hands: what a step may do to the rows of a list.        *)
LEMMA PlacingKeepsTheRest ==
  ASSUME TypeOK, ListIsClosed, CheckedCoversFiles, PositionsCount,
         NEW r \in Request, NEW rows, Numbered(rows), Place(r, rows),
         raised \subseteq raised', r \in raised', raised' \subseteq Request,
         \A f \in Form : adding'[f] # None => adding'[f] \in raised',
         adding' \in [Form -> Request \union {None}], recorded' \subseteq Event \X Item,
         UNCHANGED <<closed, link, markVars, answers, postVars, pageVars>>
  PROVE  ListInv'
<1>1. /\ owner' \in [Item -> Request \union {None}]
      /\ label' \in [Item -> Label \union {None}]
      /\ note' \in [Item -> Note]
      /\ position' \in [Item -> Nat]
      /\ \A i \in Item : IF owner'[i] = owner[i]
                           THEN owner[i] # None => label'[i] = label[i]
                           ELSE owner[i] = None /\ owner'[i] = r /\ label'[i] \in Label
      /\ PositionsCount'
  BY PlacingKeepsLists
<1>2. TypeOK'
  BY <1>1 DEF TypeOK, markVars, postVars, pageVars
<1>3. CheckedCoversFiles'
  BY DEF CheckedCoversFiles, Files, markVars
<1>4. Asked \subseteq Asked'
  BY <1>1 DEF Asked
<1>5. \A i \in Item : owner'[i] # None => owner'[i] \in raised' /\ label'[i] \in Label
  BY <1>1 DEF ListIsClosed
<1>6. ListIsClosed'
  BY <1>4, <1>5 DEF ListIsClosed, markVars, postVars, pageVars
<1> QED
  BY <1>1, <1>2, <1>3, <1>6 DEF ListInv

-----------------------------------------------------------------------------
(* Steps that leave the lists as they are. *)

\* The rows, their words and their numbers stay what they are.
LEMMA SameWordsSameNumbers ==
  ASSUME PositionsCount, UNCHANGED <<owner, position>>
  PROVE  PositionsCount' /\ Asked' = Asked
BY DEF PositionsCount, ItemsOf, Asked

LEMMA InitEstablishes == Init => ListInv
<1> SUFFICES ASSUME Init PROVE ListInv
  OBVIOUS
<1>1. TypeOK
  BY NoteAssumption DEF Init, TypeOK, Maybe, PostState
<1>2. ListIsClosed
  BY DEF Init, ListIsClosed, Asked
<1>3. CheckedCoversFiles
  BY DEF Init, CheckedCoversFiles
<1>4. PositionsCount
  <2>1. \A r \in Request : ItemsOf(r) = {}
    BY NoneAssumption DEF Init, ItemsOf
  <2>2. 0 .. 0 - 1 = {}
    OBVIOUS
  <2>3. Cardinality({}) = 0
    BY FS_EmptySet
  <2>4. \A r \in Request : {position[i] : i \in ItemsOf(r)} = {}
    BY <2>1
  <2> QED
    BY <2>1, <2>2, <2>3, <2>4 DEF PositionsCount
<1> QED
  BY <1>1, <1>2, <1>3, <1>4 DEF ListInv

LEMMA ListStepKeeps == ListInv /\ ListStep => ListInv'
<1> SUFFICES ASSUME ListInv, ListStep PROVE ListInv'
  OBVIOUS
<1> USE DEF ListInv
<1>1. ASSUME NEW r \in Request, CreateRequest(r)
      PROVE  ListInv'
  <2>1. PICK labels \in Lines \ {{}} : \E rows \in RowsFor(labels) : Place(r, rows)
    BY <1>1 DEF CreateRequest
  <2>2. PICK rows \in RowsFor(labels) : Place(r, rows)
    BY <2>1
  <2>3. Numbered(rows)
    BY <2>1, <2>2, RowsForAreNumbered DEF Lines
  <2>4. /\ raised \subseteq raised' /\ r \in raised' /\ raised' \subseteq Request
        /\ adding' = adding /\ recorded' = {}
        /\ UNCHANGED <<closed, link, markVars, answers, postVars, pageVars>>
    BY <1>1 DEF CreateRequest, Silent, TypeOK
  <2>5. /\ adding' \in [Form -> Request \union {None}]
        /\ \A f \in Form : adding'[f] # None => adding'[f] \in raised'
    BY <2>4 DEF TypeOK, ListIsClosed
  <2> QED
    BY <2>2, <2>3, <2>4, <2>5, PlacingKeepsTheRest
<1>2. ASSUME NEW r \in Request, NEW source \in Request, ReRaise(r, source)
      PROVE  ListInv'
  <2>1. PICK rows \in CopiesOf(Live(source)) : Place(r, rows)
    BY <1>2 DEF ReRaise
  <2>2. Numbered(rows)
    BY <2>1, CopiesAreNumbered
  <2>3. /\ raised \subseteq raised' /\ r \in raised' /\ raised' \subseteq Request
        /\ adding' = adding /\ recorded' = {}
        /\ UNCHANGED <<closed, link, markVars, answers, postVars, pageVars>>
    BY <1>2 DEF ReRaise, Silent, TypeOK
  <2>4. /\ adding' \in [Form -> Request \union {None}]
        /\ \A f \in Form : adding'[f] # None => adding'[f] \in raised'
    BY <2>3 DEF TypeOK, ListIsClosed
  <2> QED
    BY <2>1, <2>2, <2>3, <2>4, PlacingKeepsTheRest
<1>3. ASSUME NEW f \in Form, AddItems(f)
      PROVE  ListInv'
  <2> DEFINE r == adding[f]
  <2>1. r \in raised /\ r \in Request
    BY <1>3 DEF AddItems, ListIsClosed, TypeOK
  <2>2. PICK lines \in Lines : \E rows \in RowsFor(Fresh(r, lines)) : Place(r, rows)
    BY <1>3 DEF AddItems
  <2>3. PICK rows \in RowsFor(Fresh(r, lines)) : Place(r, rows)
    BY <2>2
  <2>4. Numbered(rows)
    BY <2>2, <2>3, RowsForAreNumbered DEF Lines, Fresh
  <2>5. /\ raised' = raised /\ adding' = [adding EXCEPT ![f] = None]
        /\ recorded' \subseteq Event \X Item
        /\ UNCHANGED <<closed, link, markVars, answers, postVars, pageVars>>
    BY <1>3 DEF AddItems, requestVars, Event
  <2>6. /\ adding' \in [Form -> Request \union {None}]
        /\ \A g \in Form : adding'[g] # None => adding'[g] \in raised'
    BY <2>5 DEF TypeOK, ListIsClosed
  <2>7. raised \subseteq raised' /\ r \in raised' /\ raised' \subseteq Request
    BY <2>1, <2>5 DEF TypeOK
  <2> QED
    BY <2>1, <2>3, <2>4, <2>5, <2>6, <2>7, PlacingKeepsTheRest
<1>4. ASSUME NEW f \in Form, NEW r \in Request, StartAdding(f, r)
      PROVE  ListInv'
  <2> USE <1>4 DEF StartAdding, Silent, requestVars, wordVars, markVars, postVars, pageVars
  <2>1. TypeOK'
    BY DEF TypeOK
  <2>2. ListIsClosed'
    BY DEF ListIsClosed, TypeOK, Asked
  <2>3. CheckedCoversFiles'
    BY DEF CheckedCoversFiles, Files
  <2> QED
    BY <2>1, <2>2, <2>3, SameWordsSameNumbers
<1>5. ASSUME NEW i \in Item, NEW l \in Label, NEW n \in Note, Relabel(i, l, n)
      PROVE  ListInv'
  <2> USE <1>5 DEF Relabel, Tell, requestVars, markVars, postVars, pageVars
  <2>1. TypeOK'
    BY DEF TypeOK, Event
  <2>2. ListIsClosed'
    BY DEF ListIsClosed, TypeOK, Asked
  <2>3. CheckedCoversFiles'
    BY DEF CheckedCoversFiles, Files
  <2> QED
    BY <2>1, <2>2, <2>3, SameWordsSameNumbers
<1> QED
  BY <1>1, <1>2, <1>3, <1>4, <1>5 DEF ListStep

(* A check is of what has arrived, and of all of it.                           *)
LEMMA ReviewKeeps ==
  ASSUME ListInv, NEW items \in SUBSET Asked, Review(items)
  PROVE  ListInv'
<1> USE DEF ListInv, Review, requestVars, wordVars, postVars, pageVars
<1>1. items \intersect ToCheck \subseteq Asked /\ Asked \subseteq Item
  BY DEF Asked
<1>2. TypeOK'
  <2>1. covered' \in [Item -> SUBSET Post]
    BY DEF TypeOK, Files
  <2>2. recorded' \subseteq Event \X Item
    BY <1>1 DEF Event
  <2> QED
    BY <1>1, <2>1, <2>2 DEF TypeOK
<1>3. Asked' = Asked
  BY DEF Asked
<1>4. ListIsClosed'
  BY <1>1, <1>3 DEF ListIsClosed
<1>5. CheckedCoversFiles'
  <2>1. \A i \in Item : Files(i)' = Files(i)
    BY DEF Files
  <2>2. \A i \in items \intersect ToCheck : i \in Item /\ Files(i) # {} /\ covered'[i] = Files(i)
    BY <1>1 DEF ToCheck, Received
  <2>3. \A i \in reviewed : i \in Item /\ Files(i) # {} /\ covered'[i] = Files(i)
    BY DEF CheckedCoversFiles, TypeOK
  <2> QED
    BY <2>1, <2>2, <2>3 DEF CheckedCoversFiles
<1> QED
  BY <1>2, <1>4, <1>5, SameWordsSameNumbers

LEMMA PracticeStepKeeps == ListInv /\ PracticeStep => ListInv'
<1> SUFFICES ASSUME ListInv, PracticeStep PROVE ListInv'
  OBVIOUS
<1> USE DEF ListInv
<1>1. ASSUME NEW r \in Request, CloseRequest(r)
      PROVE  ListInv'
  <2> USE <1>1 DEF CloseRequest, Silent, requestVars, wordVars, markVars, postVars, pageVars
  <2>1. TypeOK'
    BY DEF TypeOK, Event
  <2>2. ListIsClosed'
    BY DEF ListIsClosed, TypeOK, Asked
  <2>3. CheckedCoversFiles'
    BY DEF CheckedCoversFiles, Files
  <2> QED
    BY <2>1, <2>2, <2>3, SameWordsSameNumbers
<1>2. ASSUME NEW r \in Request, ReopenRequest(r)
      PROVE  ListInv'
  <2> USE <1>2 DEF ReopenRequest, Silent, requestVars, wordVars, markVars, postVars, pageVars
  <2>1. TypeOK'
    BY DEF TypeOK, Event
  <2>2. ListIsClosed'
    BY DEF ListIsClosed, TypeOK, Asked
  <2>3. CheckedCoversFiles'
    BY DEF CheckedCoversFiles, Files
  <2> QED
    BY <2>1, <2>2, <2>3, SameWordsSameNumbers
<1>3. ASSUME NEW r \in Request, IssueLink(r)
      PROVE  ListInv'
  <2> USE <1>3 DEF IssueLink, Silent, requestVars, wordVars, markVars, postVars, pageVars
  <2>1. TypeOK'
    BY DEF TypeOK, Event
  <2>2. ListIsClosed'
    BY DEF ListIsClosed, TypeOK, Asked
  <2>3. CheckedCoversFiles'
    BY DEF CheckedCoversFiles, Files
  <2> QED
    BY <2>1, <2>2, <2>3, SameWordsSameNumbers
<1>4. ASSUME NEW r \in Request, LinkEnds(r)
      PROVE  ListInv'
  <2> USE <1>4 DEF LinkEnds, Silent, requestVars, wordVars, markVars, postVars, pageVars
  <2>1. TypeOK'
    BY DEF TypeOK, Event
  <2>2. ListIsClosed'
    BY DEF ListIsClosed, TypeOK, Asked
  <2>3. CheckedCoversFiles'
    BY DEF CheckedCoversFiles, Files
  <2> QED
    BY <2>1, <2>2, <2>3, SameWordsSameNumbers
<1>5. ASSUME NEW i \in Item, Withdraw(i)
      PROVE  ListInv'
  <2> USE <1>5 DEF Withdraw, Tell, requestVars, wordVars, markVars, postVars, pageVars
  <2>1. TypeOK'
    BY DEF TypeOK, Event
  <2>2. ListIsClosed'
    BY DEF ListIsClosed, TypeOK, Asked
  <2>3. CheckedCoversFiles'
    BY DEF CheckedCoversFiles, Files
  <2> QED
    BY <2>1, <2>2, <2>3, SameWordsSameNumbers
<1>6. ASSUME NEW i \in Item, Restore(i)
      PROVE  ListInv'
  <2> USE <1>6 DEF Restore, Tell, requestVars, wordVars, markVars, postVars, pageVars
  <2>1. TypeOK'
    BY DEF TypeOK, Event
  <2>2. ListIsClosed'
    BY DEF ListIsClosed, TypeOK, Asked
  <2>3. CheckedCoversFiles'
    BY DEF CheckedCoversFiles, Files
  <2> QED
    BY <2>1, <2>2, <2>3, SameWordsSameNumbers
<1>7. ASSUME NEW i \in Item, NeedsAttention(i)
      PROVE  ListInv'
  <2> USE <1>7 DEF NeedsAttention, Tell, requestVars, wordVars, markVars, postVars, pageVars
  <2>1. TypeOK'
    BY DEF TypeOK, Event
  <2>2. ListIsClosed'
    BY DEF ListIsClosed, TypeOK, Asked
  <2>3. CheckedCoversFiles'
    BY DEF CheckedCoversFiles, Files
  <2> QED
    BY <2>1, <2>2, <2>3, SameWordsSameNumbers
<1>8. ASSUME NEW i \in Item, ClearAttention(i)
      PROVE  ListInv'
  <2> USE <1>8 DEF ClearAttention, Tell, requestVars, wordVars, markVars, postVars, pageVars
  <2>1. TypeOK'
    BY DEF TypeOK, Event
  <2>2. ListIsClosed'
    BY DEF ListIsClosed, TypeOK, Asked
  <2>3. CheckedCoversFiles'
    BY DEF CheckedCoversFiles, Files
  <2> QED
    BY <2>1, <2>2, <2>3, SameWordsSameNumbers
<1>9. ASSUME NEW i \in Item, Uncheck(i)
      PROVE  ListInv'
  <2> USE <1>9 DEF Uncheck, Tell, requestVars, wordVars, markVars, postVars, pageVars
  <2>1. TypeOK'
    BY DEF TypeOK, Event
  <2>2. ListIsClosed'
    BY DEF ListIsClosed, TypeOK, Asked
  <2>3. CheckedCoversFiles'
    BY DEF CheckedCoversFiles, Files
  <2> QED
    BY <2>1, <2>2, <2>3, SameWordsSameNumbers
<1>10. ASSUME NEW v \in Page, NEW r \in Request, View(v, r)
       PROVE  ListInv'
  <2> DEFINE seen == {p \in Post : answers[p] \in Live(r)}
             open == (IF r \in closed THEN {} ELSE Live(r)) \intersect ToCheck
  <2>1. seen \subseteq Post /\ open \subseteq Asked /\ Asked \subseteq Item
    BY DEF Live, ItemsOf, ToCheck, Received, Asked
  <2>2. /\ shown' = [shown EXCEPT ![v] = seen] /\ offered' = [offered EXCEPT ![v] = open]
        /\ recorded' = {} /\ UNCHANGED <<requestVars, wordVars, markVars, answers, postVars, adding>>
    BY <1>10 DEF View, Silent
  <2> HIDE DEF seen, open
  <2> USE <2>2 DEF requestVars, wordVars, markVars, postVars
  <2>3. TypeOK'
    BY <2>1 DEF TypeOK
  <2>4. ListIsClosed'
    BY <2>1 DEF ListIsClosed, TypeOK, Asked
  <2>5. CheckedCoversFiles'
    BY DEF CheckedCoversFiles, Files
  <2> QED
    BY <2>3, <2>4, <2>5, SameWordsSameNumbers
<1>11. ASSUME NEW v \in Page, NEW r \in Request, CheckAll(v, r)
       PROVE  ListInv'
  <2>1. Live(r) \intersect Asked = Live(r) /\ Review(Live(r))
    BY <1>11, NoneAssumption DEF CheckAll, Live, ItemsOf, Asked
  <2> QED
    BY <2>1, ReviewKeeps
<1>12. ASSUME NEW v \in Page, NEW i \in Item, Check(v, i)
       PROVE  ListInv'
  BY <1>12, ReviewKeeps DEF Check, ListIsClosed
<1> QED
  BY <1>1, <1>2, <1>3, <1>4, <1>5, <1>6, <1>7, <1>8, <1>9, <1>10, <1>11, <1>12 DEF PracticeStep

LEMMA PostStepKeeps == ListInv /\ PostStep => ListInv'
<1> SUFFICES ASSUME ListInv, PostStep PROVE ListInv'
  OBVIOUS
<1> USE DEF ListInv
<1>1. ASSUME NEW p \in Post, NEW i \in Item, StartSaying(p, i)
      PROVE  ListInv'
  <2> USE <1>1 DEF StartSaying, Silent, requestVars, wordVars, markVars, pageVars
  <2>1. TypeOK'
    BY DEF TypeOK, PostState, Maybe, Says
  <2>2. ListIsClosed'
    BY DEF ListIsClosed, TypeOK, Asked
  <2>3. CheckedCoversFiles'
    BY DEF CheckedCoversFiles, Files
  <2> QED
    BY <2>1, <2>2, <2>3, SameWordsSameNumbers
<1>2. ASSUME NEW p \in Post, NEW i \in Item, StartSending(p, i)
      PROVE  ListInv'
  <2> USE <1>2 DEF StartSending, Silent, requestVars, wordVars, markVars, pageVars
  <2>1. TypeOK'
    BY DEF TypeOK, PostState, Maybe, Says
  <2>2. ListIsClosed'
    BY DEF ListIsClosed, TypeOK, Asked
  <2>3. CheckedCoversFiles'
    BY DEF CheckedCoversFiles, Files
  <2> QED
    BY <2>1, <2>2, <2>3, SameWordsSameNumbers
<1>3. ASSUME NEW p \in Post, NEW i \in Item, StartAddingFile(p, i)
      PROVE  ListInv'
  <2> USE <1>3 DEF StartAddingFile, Silent, requestVars, wordVars, markVars, pageVars
  <2>1. TypeOK'
    BY DEF TypeOK, PostState, Maybe, Says
  <2>2. ListIsClosed'
    BY DEF ListIsClosed, TypeOK, Asked
  <2>3. CheckedCoversFiles'
    BY DEF CheckedCoversFiles, Files
  <2> QED
    BY <2>1, <2>2, <2>3, SameWordsSameNumbers
<1>4. ASSUME NEW p \in Post, NEW words \in Says, FinishSaying(p, words)
      PROVE  ListInv'
  <2> DEFINE i == about[p]
             new == IF saw[p] = words THEN "nothing" ELSE words
  <2>1. i \in Asked /\ i \in Item /\ new \in Maybe
    BY <1>4 DEF FinishSaying, ListIsClosed, Asked, Maybe
  <2>2. /\ says' = says \/ says' = [says EXCEPT ![i] = new]
        /\ recorded' \subseteq Event \X Item
    BY <1>4, <2>1 DEF FinishSaying, Silent, Tell, Event
  <2>3. /\ Finish(p, "done")
        /\ UNCHANGED <<requestVars, wordVars, withdrawn, flagged, reviewed, covered, answers, adding, pageVars>>
    BY <1>4 DEF FinishSaying
  <2> HIDE DEF i, new
  <2> USE <2>1, <2>2, <2>3 DEF Finish, requestVars, wordVars, pageVars
  <2>4. TypeOK'
    BY DEF TypeOK, PostState, Maybe
  <2>5. ListIsClosed'
    BY DEF ListIsClosed, TypeOK, Asked
  <2>6. CheckedCoversFiles'
    BY DEF CheckedCoversFiles, Files
  <2> QED
    BY <2>4, <2>5, <2>6, SameWordsSameNumbers
<1>5. ASSUME NEW p \in Post, Refuse(p)
      PROVE  ListInv'
  <2> USE <1>5 DEF Refuse, Finish, Silent, requestVars, wordVars, markVars, pageVars
  <2>1. TypeOK'
    BY DEF TypeOK, PostState, Maybe
  <2>2. ListIsClosed'
    BY DEF ListIsClosed, TypeOK, Asked
  <2>3. CheckedCoversFiles'
    BY DEF CheckedCoversFiles, Files
  <2> QED
    BY <2>1, <2>2, <2>3, SameWordsSameNumbers
<1>6. ASSUME NEW p \in Post, RecordAnswer(p)
      PROVE  ListInv'
  <2>1. about[p] \in Asked /\ about[p] \in Item
    BY <1>6 DEF RecordAnswer, ListIsClosed, Asked
  <2>2. recorded' \subseteq Event \X Item
    BY <1>6, <2>1 DEF RecordAnswer, Event
  <2> USE <1>6, <2>1, <2>2 DEF RecordAnswer, Finish, requestVars, wordVars, pageVars
  <2>3. TypeOK'
    BY DEF TypeOK, PostState, Maybe
  <2>4. ListIsClosed'
    BY DEF ListIsClosed, TypeOK, Asked
  <2>5. CheckedCoversFiles'
    <3>1. \A i \in reviewed' : i \in reviewed /\ i # about[p] /\ i \in Item
      BY DEF TypeOK
    <3>2. answers[p] = None
      BY DEF ListIsClosed
    <3>3. \A i \in Item : i # about[p] => Files(i)' = Files(i)
      BY <3>2, NoneAssumption DEF Files, TypeOK
    <3> QED
      BY <3>1, <3>3 DEF CheckedCoversFiles
  <2> QED
    BY <2>3, <2>4, <2>5, SameWordsSameNumbers
<1> QED
  BY <1>1, <1>2, <1>3, <1>4, <1>5, <1>6 DEF PostStep

-----------------------------------------------------------------------------
(* What every run of the checklist keeps. *)

LEMMA NextKeeps == ListInv /\ [Next]_vars => ListInv'
<1> SUFFICES ASSUME ListInv, [Next]_vars PROVE ListInv'
  OBVIOUS
<1>1. CASE Next
  BY <1>1, ListStepKeeps, PracticeStepKeeps, PostStepKeeps DEF Next
<1>2. CASE UNCHANGED vars
  <2> USE <1>2 DEF vars, requestVars, wordVars, markVars, postVars, pageVars, ListInv
  <2>1. TypeOK'
    BY DEF TypeOK
  <2>2. ListIsClosed'
    BY DEF ListIsClosed, Asked
  <2>3. CheckedCoversFiles'
    BY DEF CheckedCoversFiles, Files
  <2> QED
    BY <2>1, <2>2, <2>3, SameWordsSameNumbers
<1> QED
  BY <1>1, <1>2

(* The rows, marks and handlers name what exists, a check covers the files     *)
(* there are, and lists are numbered without gaps, in every reachable state.   *)
THEOREM ListInvariance == Spec => []ListInv
BY InitEstablishes, NextKeeps, PTL DEF Spec

(* No answer, check or withdrawal leaves a document marked as checked that has *)
(* a file nobody was asked about: recordUpload takes the check back.           *)
THEOREM ChecksCoverFiles == Spec => []CheckedCoversFiles
<1>1. ListInv => CheckedCoversFiles
  BY DEF ListInv
<1> QED
  BY <1>1, ListInvariance, PTL

(* addItem numbers by counting the request's rows, and that stays right for    *)
(* lists that are repeated, extended, withdrawn from and restored to.          *)
THEOREM ListsAreNumbered == Spec => []PositionsCount
<1>1. ListInv => PositionsCount
  BY DEF ListInv
<1> QED
  BY <1>1, ListInvariance, PTL

(* What stateOf calls ready is exactly what is done, document by document.     *)
THEOREM ReadyRequestsAreDone == Spec => []ReadyMeansDone
<1>1. ASSUME ListInv, NEW r \in Request
      PROVE  State(r) = "ready" <=>
               \A i \in Live(r) : Files(i) # {} /\ i \in reviewed /\ Files(i) = covered[i]
                                  /\ i \notin flagged /\ says[i] = "nothing"
  <2> DEFINE toCheck == Live(r) \intersect ToCheck
             said    == Live(r) \intersect ClientSaid
             out     == Live(r) \intersect Outstanding
  <2>1. Live(r) \in SUBSET Item /\ Live(r) \in SUBSET Asked
    BY NoneAssumption DEF Live, ItemsOf, Asked
  <2>2. \A S \in SUBSET Item : Cardinality(S) \in Nat /\ (Cardinality(S) = 0 <=> S = {})
    BY ItemSetsAreFinite, FS_EmptySet
  <2>3. toCheck \in SUBSET Item /\ said \in SUBSET Item /\ out \in SUBSET Item
    BY <2>1
  <2>4. State(r) = "ready" <=> Live(r) = {} \/ (toCheck = {} /\ said = {} /\ out = {})
    <3> DEFINE a == Cardinality(Live(r))
               b == Cardinality(toCheck)
               c == Cardinality(said)
               d == Cardinality(out)
    <3>1. a \in Nat /\ b \in Nat /\ c \in Nat /\ d \in Nat
      BY <2>1, <2>2, <2>3
    <3>2. (a = 0 <=> Live(r) = {}) /\ (b = 0 <=> toCheck = {}) /\ (c = 0 <=> said = {}) /\ (d = 0 <=> out = {})
      BY <2>1, <2>2, <2>3
    <3>3. State(r) = IF a = 0 THEN "ready" ELSE IF b > 0 THEN "to-check"
                     ELSE IF c > 0 THEN "answered" ELSE IF d > 0 THEN "waiting" ELSE "ready"
      BY DEF State
    <3> HIDE DEF a, b, c, d
    <3>4. State(r) = "ready" <=> a = 0 \/ (b = 0 /\ c = 0 /\ d = 0)
      BY <3>1, <3>3
    <3> QED
      BY <3>2, <3>4
  <2>5. \A i \in Live(r) :
          /\ i \in ToCheck <=> Files(i) # {} /\ i \notin reviewed
          /\ i \in ClientSaid <=> says[i] # "nothing"
          /\ i \in Outstanding <=> Files(i) = {} \/ i \in flagged
    BY <2>1 DEF ToCheck, Received, ClientSaid, Outstanding
  <2>6. \A i \in reviewed : Files(i) # {} /\ Files(i) = covered[i]
    BY <1>1 DEF ListInv, CheckedCoversFiles
  <2> QED
    BY <2>4, <2>5, <2>6
<1>2. ListInv => ReadyMeansDone
  BY <1>1 DEF ReadyMeansDone, ListInv, TypeOK
<1> QED
  BY <1>2, ListInvariance, PTL

(* The list read after the body is the one that is added to: no line of a form *)
(* repeats what another form added while it was open.                          *)
THEOREM AddingNeverRepeats == Spec => AddingRepeatsNothing
<1>1. ASSUME ListInv, NEW f \in Form, NEW r \in Request, AddItems(f), adding[f] = r, NoLabelTwiceOn(r)
      PROVE  NoLabelTwiceOn(r)'
  <2>1. PICK lines \in Lines : \E rows \in RowsFor(Fresh(r, lines)) : Place(r, rows)
    BY <1>1 DEF AddItems
  <2>2. PICK rows \in RowsFor(Fresh(r, lines)) : Place(r, rows)
    BY <2>1
  <2> DEFINE ids == DOMAIN rows
  <2>3. /\ \A i \in ids : rows[i].label \in Fresh(r, lines)
        /\ \A i, j \in ids : i # j => rows[i].label # rows[j].label
    BY <2>2 DEF RowsFor
  <2>4. /\ owner' = [i \in Item |-> IF i \in ids THEN r ELSE owner[i]]
        /\ label' = [i \in Item |-> IF i \in ids THEN rows[i].label ELSE label[i]]
    BY <2>2 DEF Place
  <2>5. \A i \in ItemsOf(r)' : i \in ids \/ (i \in ItemsOf(r) /\ label'[i] = label[i])
    BY <2>4 DEF ItemsOf
  <2>6. \A i \in ids : i \in Item => label'[i] = rows[i].label
    BY <2>4
  <2>7. \A i, j \in ids : Fold[rows[i].label] = Fold[rows[j].label] => i = j
    BY <2>1, <2>3 DEF Lines, Fresh
  <2>8. \A i \in ids : \A j \in ItemsOf(r) : Fold[rows[i].label] # Fold[label[j]]
    BY <2>3 DEF Fresh, Folds
  <2>9. \A i \in ItemsOf(r)' : i \in Item
    BY DEF ItemsOf
  <2> HIDE DEF ids
  <2> QED
    BY <1>1, <2>5, <2>6, <2>7, <2>8, <2>9 DEF NoLabelTwiceOn
<1>2. ListInv => \A f \in Form, r \in Request :
                   adding[f] = r /\ adding'[f] = None /\ NoLabelTwiceOn(r) /\ AddItems(f) => NoLabelTwiceOn(r)'
  BY <1>1
<1> QED
  BY <1>2, ListInvariance, PTL DEF AddingRepeatsNothing

(* setItemReviewed and recordUpload write the event in the transaction that    *)
(* moves the mark, so the history can account for every check.                 *)
THEOREM HistoryAccountsForChecks == Spec => HistoryTellsOfChecks
<1> DEFINE Told ==
      \A i \in Item :
        /\ <<"item.checked", i>> \in recorded' <=> i \in reviewed' \ reviewed
        /\ i \in reviewed \ reviewed' =>
             {<<"item.check-undone", i>>, <<"item.check-cleared", i>>} \intersect recorded' # {}
<1>1. ASSUME recorded' = {}, reviewed' = reviewed
      PROVE  Told
  BY <1>1
<1>2. ASSUME NEW k \in Event \ {"item.checked"}, NEW i, Tell(k, i), reviewed' = reviewed
      PROVE  Told
  BY <1>2 DEF Tell
<1>3. ASSUME ListStep
      PROVE  Told
  <2>1. ASSUME NEW f \in Form, AddItems(f)
        PROVE  Told
    BY <2>1 DEF AddItems, markVars
  <2>2. ASSUME NEW i \in Item, NEW l \in Label, NEW n \in Note, Relabel(i, l, n)
        PROVE  Told
    BY <1>2, <2>2 DEF Relabel, markVars, Event
  <2>3. ASSUME NEW r \in Request, CreateRequest(r) \/ \E source \in Request : ReRaise(r, source)
        PROVE  Told
    BY <1>1, <2>3 DEF CreateRequest, ReRaise, Silent, markVars
  <2>4. ASSUME NEW f \in Form, NEW r \in Request, StartAdding(f, r)
        PROVE  Told
    BY <1>1, <2>4 DEF StartAdding, Silent, markVars
  <2> QED
    BY <1>3, <2>1, <2>2, <2>3, <2>4 DEF ListStep
<1>4. ASSUME NEW items, Review(items), items \intersect ToCheck \subseteq Item
      PROVE  Told
  BY <1>4 DEF Review, ToCheck
<1>5. ASSUME PracticeStep
      PROVE  Told
  <2>1. ASSUME NEW r \in Request, CloseRequest(r) \/ ReopenRequest(r) \/ IssueLink(r) \/ LinkEnds(r)
        PROVE  Told
    BY <1>1, <2>1 DEF CloseRequest, ReopenRequest, IssueLink, LinkEnds, Silent, markVars
  <2>2. ASSUME NEW i \in Item, Withdraw(i) \/ Restore(i) \/ NeedsAttention(i) \/ ClearAttention(i)
        PROVE  Told
    BY <1>2, <2>2 DEF Withdraw, Restore, NeedsAttention, ClearAttention, Event
  <2>3. ASSUME NEW i \in Item, Uncheck(i)
        PROVE  Told
    BY <2>3 DEF Uncheck, Tell
  <2>4. ASSUME NEW v \in Page, NEW r \in Request, View(v, r)
        PROVE  Told
    BY <1>1, <2>4 DEF View, Silent, markVars
  <2>5. ASSUME NEW v \in Page, NEW r \in Request, CheckAll(v, r)
        PROVE  Told
    BY <1>4, <2>5 DEF CheckAll, Live, ItemsOf
  <2>6. ASSUME NEW v \in Page, NEW i \in Item, Check(v, i)
        PROVE  Told
    BY <1>4, <2>6 DEF Check
  <2> QED
    BY <1>5, <2>1, <2>2, <2>3, <2>4, <2>5, <2>6 DEF PracticeStep
<1>6. ASSUME PostStep
      PROVE  Told
  <2>1. ASSUME NEW p \in Post, NEW i \in Item, StartSaying(p, i) \/ StartSending(p, i) \/ StartAddingFile(p, i)
        PROVE  Told
    BY <1>1, <2>1 DEF StartSaying, StartSending, StartAddingFile, Silent, markVars
  <2>2. ASSUME NEW p \in Post, NEW words \in Says, FinishSaying(p, words)
        PROVE  Told
    <3>1. reviewed' = reviewed
      BY <2>2 DEF FinishSaying
    <3>2. recorded' = {} \/ Tell("item.client-said-cleared", about[p]) \/ Tell("item.client-said", about[p])
      BY <2>2 DEF FinishSaying, Silent
    <3> QED
      BY <1>1, <1>2, <3>1, <3>2 DEF Event
  <2>3. ASSUME NEW p \in Post, Refuse(p)
        PROVE  Told
    BY <1>1, <2>3 DEF Refuse, Silent, markVars
  <2>4. ASSUME NEW p \in Post, RecordAnswer(p)
        PROVE  Told
    BY <2>4 DEF RecordAnswer
  <2> QED
    BY <1>6, <2>1, <2>2, <2>3, <2>4 DEF PostStep
<1>7. [Next]_vars => [Told]_vars
  BY <1>3, <1>5, <1>6 DEF Next
<1> QED
  BY <1>7, PTL DEF Spec, HistoryTellsOfChecks

-----------------------------------------------------------------------------
(* What follows from going one by one, for the texts below.                   *)

\* Of some numbers one is the least.
LEMMA OneIsLeast ==
  ASSUME NEW T, T \subseteq Nat, T # {}
  PROVE  \E x \in T : \A y \in T : x <= y
<1>1. PICK R : R = OpToRel(<, Nat)  OBVIOUS
<1>2. IsWellFoundedOn(R, Nat)  BY <1>1, NatLessThanWellFounded
<1>3. \A x, y \in Nat : <<y, x>> \in R <=> y < x  BY <1>1 DEF OpToRel
<1> HIDE <1>1
<1>4. PICK x \in T : \A y \in T : ~ (<<y, x>> \in R)  BY <1>2, WFMin
<1>5. ASSUME NEW y \in T PROVE x <= y
  <2>1. x \in Nat /\ y \in Nat /\ ~ (<<y, x>> \in R)  BY <1>4
  <2> QED  BY <2>1, <1>3
<1> QED  BY <1>5

\* What holds of 0, and of each number's successor with it, holds of every number.
LEMMA OneByOne ==
  ASSUME NEW S, 0 \in S, \A n \in Nat : n \in S => n + 1 \in S
  PROVE  Nat \subseteq S
<1> SUFFICES ASSUME ~ (Nat \subseteq S) PROVE FALSE  OBVIOUS
<1>1. PICK T : T = Nat \ S  OBVIOUS
<1>2. T \subseteq Nat /\ T # {}  BY <1>1
<1>3. PICK x \in T : \A y \in T : x <= y  BY <1>2, OneIsLeast
<1>4. x \in Nat /\ x # 0 /\ x \notin S  BY <1>1, <1>3
<1>5. x - 1 \in Nat /\ x - 1 + 1 = x  BY <1>4
<1>6. x - 1 \in S
  <2>1. x - 1 \in T => x <= x - 1  BY <1>3
  <2>2. ~ (x <= x - 1)  BY <1>4
  <2> QED  BY <1>1, <1>5, <2>1, <2>2
<1> QED  BY <1>4, <1>5, <1>6

\* The same up to a bound.
LEMMA OneByOneUpTo ==
  ASSUME NEW n \in Nat, NEW S, 0 \in S, \A k \in 0 .. n - 1 : k \in S => k + 1 \in S
  PROVE  0 .. n \subseteq S
<1>1. PICK T : T = {k \in Nat : k <= n => k \in S}  OBVIOUS
<1>2. 0 \in T  BY <1>1
<1>3. ASSUME NEW k \in Nat, k \in T PROVE k + 1 \in T
  <2>1. CASE k + 1 <= n
    <3>1. k \in 0 .. n - 1 /\ k \in S  BY <1>1, <1>3, <2>1
    <3> QED  BY <1>1, <3>1
  <2>2. CASE ~ (k + 1 <= n)  BY <1>1, <2>2
  <2> QED  BY <2>1, <2>2
<1>4. Nat \subseteq T  BY <1>2, <1>3, OneByOne
<1> QED  BY <1>1, <1>4

-----------------------------------------------------------------------------
(* Texts that are put together and picked apart: FlattenSeq, Only and Trim.   *)

\* Appending one element.
LEMMA OneMore ==
  ASSUME NEW S, NEW n \in Nat, NEW s \in [1 .. n -> S], NEW x \in S
  PROVE  /\ Append(s, x) \in [1 .. n + 1 -> S] /\ Len(Append(s, x)) = n + 1
         /\ Append(s, x)[n + 1] = x
         /\ \A i \in 1 .. n : Append(s, x)[i] = s[i]
<1>1. s \in Seq(S) /\ Len(s) = n  OBVIOUS
<1>2. Append(s, x) \in Seq(S) /\ Len(Append(s, x)) = n + 1  BY <1>1
<1>3. Append(s, x) \in [1 .. n + 1 -> S]
  <2>1. PICK a \in Seq(S) : a = Append(s, x) /\ Len(a) = n + 1  BY <1>2
  <2>2. a \in [1 .. Len(a) -> S]  BY LenProperties
  <2> QED  BY <2>1, <2>2
<1>4. Append(s, x)[n + 1] = x /\ \A i \in 1 .. n : Append(s, x)[i] = s[i]  BY <1>1
<1> QED  BY <1>2, <1>3, <1>4

\* Where the pieces of a text end.
Ends(q, n, off) ==
  /\ off \in [0 .. n -> Nat] /\ off[0] = 0
  /\ \A k \in 1 .. n : off[k] = off[k - 1] + Len(q[k])

\* A text of n pieces exists: the recursion that defines it has a solution.
LEMMA FlattenExists ==
  ASSUME NEW q, NEW n \in Nat
  PROVE  \E f : f = [i \in 1 .. n |-> IF i = 1 THEN q[i] ELSE f[i - 1] \o q[i]]
<1>1. PICK S : S = {m \in Nat : \E f : f = [i \in 1 .. m |-> IF i = 1 THEN q[i] ELSE f[i - 1] \o q[i]]}
  OBVIOUS
<1>2. 0 \in S
  <2>1. PICK f : f = [i \in 1 .. 0 |-> q[i]]  OBVIOUS
  <2>2. f = [i \in 1 .. 0 |-> IF i = 1 THEN q[i] ELSE f[i - 1] \o q[i]]  BY <2>1
  <2> QED  BY <1>1, <2>2, Zenon
<1>3. ASSUME NEW m \in Nat, m \in S PROVE m + 1 \in S
  <2>1. PICK f : f = [i \in 1 .. m |-> IF i = 1 THEN q[i] ELSE f[i - 1] \o q[i]]  BY <1>1, <1>3, Zenon
  <2>2. PICK g : g = [i \in 1 .. m + 1 |-> IF i \in 1 .. m THEN f[i]
                                          ELSE IF i = 1 THEN q[i] ELSE f[i - 1] \o q[i]]
    OBVIOUS
  <2>3. ASSUME NEW i \in 1 .. m + 1 PROVE g[i] = IF i = 1 THEN q[i] ELSE g[i - 1] \o q[i]
    <3>1. i # 1 => i - 1 \in 1 .. m  OBVIOUS
    <3>2. i \in 1 .. m => f[i] = IF i = 1 THEN q[i] ELSE f[i - 1] \o q[i]  BY <2>1
    <3> QED  BY <2>2, <3>1, <3>2
  <2>4. g = [i \in 1 .. m + 1 |-> IF i = 1 THEN q[i] ELSE g[i - 1] \o q[i]]  BY <2>2, <2>3
  <2>5. m + 1 \in Nat  OBVIOUS
  <2> QED  BY <1>1, <2>4, <2>5, Zenon
<1>4. n \in S  BY <1>2, <1>3, OneByOne
<1> QED  BY <1>1, <1>4, Zenon

\* Each piece ends as much further on as it is long, so the ends never go back.
LEMMA EndsGrow ==
  ASSUME NEW S, NEW n \in Nat, NEW q \in [1 .. n -> Seq(S)], NEW off, Ends(q, n, off)
  PROVE  /\ \A i \in 1 .. n : /\ off[i - 1] \in Nat /\ off[i] \in Nat /\ Len(q[i]) \in Nat
                              /\ off[i] = off[i - 1] + Len(q[i])
         /\ \A i, k \in 0 .. n : i <= k => off[i] <= off[k]
<1>1. \A a \in 0 .. n : off[a] \in Nat  BY DEF Ends
<1>2. \A i \in 1 .. n : /\ off[i - 1] \in Nat /\ off[i] \in Nat /\ Len(q[i]) \in Nat
                        /\ off[i] = off[i - 1] + Len(q[i])
  <2> SUFFICES ASSUME NEW i \in 1 .. n
               PROVE  /\ off[i - 1] \in Nat /\ off[i] \in Nat /\ Len(q[i]) \in Nat
                      /\ off[i] = off[i - 1] + Len(q[i])
    OBVIOUS
  <2>1. i - 1 \in 0 .. n /\ i \in 0 .. n /\ q[i] \in Seq(S)  OBVIOUS
  <2> QED  BY <1>1, <2>1 DEF Ends
<1>3. ASSUME NEW i \in 0 .. n, NEW k \in 0 .. n, i <= k PROVE off[i] <= off[k]
  <2>1. PICK T : T = {a \in Nat : i + a <= k => off[i] <= off[i + a]}  OBVIOUS
  <2>2. 0 \in T
    <3>1. off[i] \in Nat /\ i + 0 = i  BY <1>1
    <3> QED  BY <2>1, <3>1
  <2>3. ASSUME NEW a \in Nat, a \in T PROVE a + 1 \in T
    <3> SUFFICES ASSUME i + (a + 1) <= k PROVE off[i] <= off[i + (a + 1)]  BY <2>1
    <3>1. i + a + 1 \in 1 .. n /\ (i + a + 1) - 1 = i + a /\ i + (a + 1) = i + a + 1 /\ i + a <= k
      OBVIOUS
    <3>2. PICK b \in 1 .. n : b = i + a + 1  BY <3>1
    <3>3. off[b - 1] \in Nat /\ off[b] \in Nat /\ Len(q[b]) \in Nat /\ off[b] = off[b - 1] + Len(q[b])
      BY <1>2
    <3>4. off[i] <= off[b - 1] /\ off[i] \in Nat  BY <1>1, <2>1, <2>3, <3>1, <3>2
    <3> QED  BY <3>1, <3>2, <3>3, <3>4
  <2>4. k - i \in T
    <3>1. Nat \subseteq T  BY <2>2, <2>3, OneByOne
    <3>2. k - i \in Nat  BY <1>3
    <3> QED  BY <3>1, <3>2
  <2> QED  BY <1>3, <2>1, <2>4
<1> QED  BY <1>2, <1>3

\* The beginning of a text that is made of pieces, as far as the k-th of them.
Beginning(q, off, k, S, t) ==
  /\ t \in Seq(S) /\ Len(t) = off[k]
  /\ \A i \in 1 .. k : \A j \in 1 .. Len(q[i]) : t[off[i - 1] + j] = q[i][j]

\* One more piece at the end of a beginning.
LEMMA NextPiece ==
  ASSUME NEW S, NEW n \in Nat, NEW q \in [1 .. n -> Seq(S)], NEW off, Ends(q, n, off),
         NEW k \in 0 .. n - 1, NEW t, Beginning(q, off, k, S, t)
  PROVE  Beginning(q, off, k + 1, S, t \o q[k + 1])
<1>1. /\ k + 1 \in 1 .. n /\ (k + 1) - 1 = k /\ k \in 0 .. n /\ k + 1 \in 0 .. n
      /\ q[k + 1] \in Seq(S)
  OBVIOUS
<1>2. /\ off[k] \in Nat /\ off[k + 1] = off[k] + Len(q[k + 1])
      /\ t \in Seq(S) /\ Len(t) = off[k]
  BY <1>1 DEF Ends, Beginning
<1>3. PICK u : u = t \o q[k + 1]  OBVIOUS
<1>4. /\ u \in Seq(S) /\ Len(u) = off[k + 1]
      /\ \A i \in 1 .. off[k] : u[i] = t[i]
      /\ \A j \in 1 .. Len(q[k + 1]) : u[off[k] + j] = q[k + 1][j]
  <2>0. PICK p \in Seq(S) : p = q[k + 1]  BY <1>1
  <2>1. u \in Seq(S) /\ Len(u) = Len(t) + Len(q[k + 1])
    <3>1. PICK r \in Seq(S) : r = t  BY <1>2
    <3>2. r \o p \in Seq(S) /\ Len(r \o p) = Len(r) + Len(p)  BY ConcatProperties
    <3> QED  BY <1>3, <2>0, <3>1, <3>2
  <2>2. \A i \in 1 .. Len(u) : u[i] = IF i <= Len(t) THEN t[i] ELSE q[k + 1][i - Len(t)]
    BY <1>2, <1>3, <2>0
  <2>3. Len(q[k + 1]) \in Nat  BY <1>1
  <2>4. ASSUME NEW i \in 1 .. off[k] PROVE u[i] = t[i]
    <3>1. PICK m \in Nat, l \in Nat : m = off[k] /\ m = Len(t) /\ l = Len(q[k + 1]) /\ Len(u) = m + l
      BY <1>2, <2>1, <2>3
    <3>2. i \in 1 .. m + l /\ i <= m  BY <3>1
    <3> QED  BY <2>2, <3>1, <3>2
  <2>5. ASSUME NEW j \in 1 .. Len(q[k + 1]) PROVE u[off[k] + j] = q[k + 1][j]
    <3>1. off[k] + j \in 1 .. Len(u) /\ ~ (off[k] + j <= Len(t)) /\ off[k] + j - Len(t) = j
      BY <1>2, <2>1, <2>3
    <3>2. PICK i \in 1 .. Len(u) : i = off[k] + j  BY <3>1
    <3>3. u[i] = q[k + 1][i - Len(t)]  BY <2>2, <3>1, <3>2
    <3>4. i - Len(t) = j  BY <1>2, <3>1, <3>2
    <3> QED  BY <3>2, <3>3, <3>4
  <2> QED  BY <1>2, <2>1, <2>4, <2>5
<1>5. ASSUME NEW i \in 1 .. k + 1, NEW j \in 1 .. Len(q[i]) PROVE u[off[i - 1] + j] = q[i][j]
  <2>1. CASE i = k + 1  BY <1>1, <1>4, <2>1
  <2>2. CASE i \in 1 .. k
    <3>1. t[off[i - 1] + j] = q[i][j]  BY <2>2 DEF Beginning
    <3>2. off[i - 1] + j \in 1 .. off[k]
      <4>1. i \in 1 .. n /\ i \in 0 .. n /\ k \in 0 .. n /\ i <= k  BY <2>2
      <4>2. /\ off[i - 1] \in Nat /\ off[i] \in Nat /\ Len(q[i]) \in Nat
            /\ off[i] = off[i - 1] + Len(q[i]) /\ off[i] <= off[k] /\ off[k] \in Nat
        BY <1>2, <4>1, EndsGrow
      <4> QED  BY <4>2
    <3> QED  BY <1>4, <3>1, <3>2
  <2> QED  BY <2>1, <2>2
<1> QED  BY <1>3, <1>4, <1>5 DEF Beginning

\* Each piece of a text is where the pieces before it end.
LEMMA PiecesAreThere ==
  ASSUME NEW S, NEW n \in Nat, NEW q \in [1 .. n -> Seq(S)]
  PROVE  \E off : Ends(q, n, off) /\ Beginning(q, off, n, S, FlattenSeq(q))
<1>0. CASE n = 0
  <2>1. PICK off : off = [k \in 0 .. 0 |-> 0]  OBVIOUS
  <2>2. Ends(q, 0, off)  BY <2>1 DEF Ends
  <2>3. q = <<>> /\ Len(q) = 0  BY <1>0
  <2>4. FlattenSeq(q) = q  BY <2>3, Zenon DEF FlattenSeq
  <2>5. Beginning(q, off, 0, S, <<>>)  BY <2>1 DEF Beginning
  <2> QED  BY <1>0, <2>2, <2>3, <2>4, <2>5
<1>1. CASE n # 0
  <2>1. Len(q) = n  OBVIOUS
  <2>2. PICK g : g = CHOOSE f : f = [i \in 1 .. n |-> IF i = 1 THEN q[i] ELSE f[i - 1] \o q[i]]  OBVIOUS
  <2>3. FlattenSeq(q) = g[n]  BY <1>1, <2>1, <2>2, Zenon DEF FlattenSeq
  <2>4. g = [i \in 1 .. n |-> IF i = 1 THEN q[i] ELSE g[i - 1] \o q[i]]  BY <2>2, FlattenExists, Zenon
  <2>5. PICK t : t = [k \in 0 .. n |-> IF k = 0 THEN <<>> ELSE g[k]]  OBVIOUS
  <2>6. t[0] = <<>>  BY <2>5
  <2>7. ASSUME NEW k \in 0 .. n - 1, t[k] \in Seq(S) PROVE t[k + 1] = t[k] \o q[k + 1]
    <3>1. k + 1 \in 1 .. n /\ k + 1 # 0 /\ k + 1 \in 0 .. n /\ (k + 1) - 1 = k  OBVIOUS
    <3>2. t[k + 1] = g[k + 1] /\ q[k + 1] \in Seq(S)  BY <2>5, <3>1
    <3>3. CASE k = 0
      <4>1. g[k + 1] = q[k + 1]  BY <2>4, <3>1, <3>3
      <4>2. <<>> \o q[k + 1] = q[k + 1]  BY <3>2
      <4> QED  BY <2>6, <3>2, <3>3, <4>1, <4>2
    <3>4. CASE k # 0
      <4>1. t[k] = g[k]  BY <2>5, <3>4
      <4>2. PICK i \in 1 .. n : i = k + 1  BY <3>1
      <4>3. i # 1 /\ i - 1 = k  BY <3>4, <4>2
      <4>4. g[i] = g[i - 1] \o q[i]  BY <2>4, <4>3
      <4> QED  BY <3>2, <4>1, <4>2, <4>3, <4>4
    <3> QED  BY <3>3, <3>4
  <2>8. \A k \in 0 .. n : t[k] \in Seq(S)
    <3>1. PICK T : T = {k \in Nat : t[k] \in Seq(S)}  OBVIOUS
    <3>2. 0 \in T
      <4>1. <<>> \in Seq(S) /\ 0 \in Nat  OBVIOUS
      <4> QED  BY <2>6, <3>1, <4>1
    <3>3. ASSUME NEW k \in 0 .. n - 1, k \in T PROVE k + 1 \in T
      <4>1. t[k] \in Seq(S) /\ q[k + 1] \in Seq(S) /\ k + 1 \in Nat  BY <3>1, <3>3
      <4>2. t[k] \o q[k + 1] \in Seq(S)  BY <4>1
      <4> QED  BY <2>7, <3>1, <4>1, <4>2
    <3> QED  BY <3>1, <3>2, <3>3, OneByOneUpTo
  <2>9. PICK off : off = [k \in 0 .. n |-> Len(t[k])]  OBVIOUS
  <2>10. Ends(q, n, off)
    <3>1. off \in [0 .. n -> Nat]  BY <2>8, <2>9
    <3>2. off[0] = 0  BY <2>6, <2>9
    <3>3. ASSUME NEW k \in 1 .. n PROVE off[k] = off[k - 1] + Len(q[k])
      <4>1. PICK j \in 0 .. n - 1 : j = k - 1  OBVIOUS
      <4>2. k = j + 1 /\ j \in 0 .. n /\ k \in 0 .. n  BY <4>1
      <4>3. t[k] = t[j] \o q[k] /\ t[j] \in Seq(S) /\ q[k] \in Seq(S)  BY <2>7, <2>8, <4>2
      <4>4. off[k] = Len(t[k]) /\ off[j] = Len(t[j])  BY <2>9, <4>2
      <4> QED  BY <4>1, <4>3, <4>4
    <3> QED  BY <3>1, <3>2, <3>3 DEF Ends
  <2>11. Beginning(q, off, n, S, t[n])
    <3>1. PICK T : T = {k \in Nat : Beginning(q, off, k, S, t[k])}  OBVIOUS
    <3>2. 0 \in T
      <4>1. off[0] = 0  BY <2>10 DEF Ends
      <4>2. Beginning(q, off, 0, S, <<>>)  BY <4>1 DEF Beginning
      <4> QED  BY <2>6, <3>1, <4>2
    <3>3. ASSUME NEW k \in 0 .. n - 1, k \in T PROVE k + 1 \in T
      <4>1. Beginning(q, off, k, S, t[k]) /\ k + 1 \in Nat /\ k \in 0 .. n  BY <3>1, <3>3
      <4>2. t[k] \in Seq(S)  BY <4>1, <2>8
      <4>3. Beginning(q, off, k + 1, S, t[k] \o q[k + 1])  BY <2>10, <4>1, NextPiece
      <4>4. t[k + 1] = t[k] \o q[k + 1]  BY <2>7, <4>2
      <4> QED  BY <3>1, <4>1, <4>3, <4>4
    <3>4. n \in T
      <4>1. 0 .. n \subseteq T  BY <3>2, <3>3, OneByOneUpTo
      <4> QED  BY <4>1
    <3> QED  BY <3>1, <3>4
  <2>12. t[n] = g[n]  BY <1>1, <2>5
  <2> QED  BY <2>3, <2>10, <2>11, <2>12
<1> QED  BY <1>0, <1>1

\* What the filter has kept after each element.
Sieve(seq, kept, f) ==
  /\ f[0] = <<>>
  /\ \A i \in 1 .. Len(seq) : f[i] = IF seq[i] \in kept THEN Append(f[i - 1], seq[i]) ELSE f[i - 1]

\* What is kept is what the filter has kept when it is through.
LEMMA Sifted ==
  ASSUME NEW S, NEW seq \in Seq(S), NEW kept
  PROVE  \E f : /\ Only(seq, kept) = f[Len(seq)] /\ Sieve(seq, kept, f)
                /\ \A i \in 0 .. Len(seq) : f[i] \in Seq(S)
<1>0. Len(seq) \in Nat /\ \A i \in 1 .. Len(seq) : seq[i] \in S  OBVIOUS
<1>1. \E f : f = [i \in 0 .. Len(seq) |-> IF i = 0 THEN <<>> ELSE IF seq[i] \in kept THEN Append(f[i - 1], seq[i]) ELSE f[i - 1]]
  <2>0. PICK n \in Nat : n = Len(seq)  BY <1>0
  <2>1. PICK U : U = {m \in Nat : \E f : f = [i \in 0 .. m |->
                        IF i = 0 THEN <<>> ELSE IF seq[i] \in kept THEN Append(f[i - 1], seq[i]) ELSE f[i - 1]]}
    OBVIOUS
  <2>2. 0 \in U
    <3>1. PICK f : f = [i \in 0 .. 0 |-> <<>>]  OBVIOUS
    <3>2. f = [i \in 0 .. 0 |-> IF i = 0 THEN <<>> ELSE IF seq[i] \in kept THEN Append(f[i - 1], seq[i]) ELSE f[i - 1]]
      BY <3>1
    <3> QED  BY <2>1, <3>2, Zenon
  <2>3. ASSUME NEW m \in Nat, m \in U PROVE m + 1 \in U
    <3>1. PICK f : f = [i \in 0 .. m |->
                        IF i = 0 THEN <<>> ELSE IF seq[i] \in kept THEN Append(f[i - 1], seq[i]) ELSE f[i - 1]]
      BY <2>1, <2>3, Zenon
    <3>2. PICK g : g = [i \in 0 .. m + 1 |-> IF i \in 0 .. m THEN f[i]
                           ELSE IF seq[i] \in kept THEN Append(f[i - 1], seq[i]) ELSE f[i - 1]]
      OBVIOUS
    <3>3. ASSUME NEW i \in 0 .. m + 1
          PROVE  g[i] = IF i = 0 THEN <<>> ELSE IF seq[i] \in kept THEN Append(g[i - 1], seq[i]) ELSE g[i - 1]
      <4>1. i # 0 => i - 1 \in 0 .. m /\ i - 1 \in 0 .. m + 1  OBVIOUS
      <4>2. i \in 0 .. m => f[i] = IF i = 0 THEN <<>> ELSE IF seq[i] \in kept THEN Append(f[i - 1], seq[i]) ELSE f[i - 1]
        BY <3>1
      <4>3. i # 0 => g[i - 1] = f[i - 1]  BY <3>2, <4>1
      <4>4. i \in 0 .. m => g[i] = f[i]  BY <3>2
      <4>5. ~ (i \in 0 .. m) => i # 0 /\ g[i] = IF seq[i] \in kept THEN Append(f[i - 1], seq[i]) ELSE f[i - 1]
        BY <3>2
      <4> QED  BY <4>2, <4>3, <4>4, <4>5
    <3>4. g = [i \in 0 .. m + 1 |-> IF i = 0 THEN <<>> ELSE IF seq[i] \in kept THEN Append(g[i - 1], seq[i]) ELSE g[i - 1]]
      BY <3>2, <3>3
    <3>5. m + 1 \in Nat  OBVIOUS
    <3> QED  BY <2>1, <3>4, <3>5, Zenon
  <2>4. n \in U  BY <2>2, <2>3, OneByOne
  <2> QED  BY <2>0, <2>1, <2>4, Zenon
<1>2. PICK f : f = CHOOSE g : g = [i \in 0 .. Len(seq) |->
                      IF i = 0 THEN <<>> ELSE IF seq[i] \in kept THEN Append(g[i - 1], seq[i]) ELSE g[i - 1]]
  OBVIOUS
<1>3. Only(seq, kept) = f[Len(seq)]  BY <1>2, Zenon DEF Only
<1>4. f = [i \in 0 .. Len(seq) |-> IF i = 0 THEN <<>> ELSE IF seq[i] \in kept THEN Append(f[i - 1], seq[i]) ELSE f[i - 1]]
  BY <1>1, <1>2, Zenon
<1>5. Sieve(seq, kept, f)
  <2>1. f[0] = <<>>  BY <1>0, <1>4
  <2>2. ASSUME NEW i \in 1 .. Len(seq)
        PROVE  f[i] = IF seq[i] \in kept THEN Append(f[i - 1], seq[i]) ELSE f[i - 1]
    <3>1. i \in 0 .. Len(seq) /\ i # 0  BY <1>0
    <3> QED  BY <1>4, <3>1
  <2> QED  BY <2>1, <2>2 DEF Sieve
<1>6. \A i \in 0 .. Len(seq) : f[i] \in Seq(S)
  <2>1. PICK T : T = {i \in Nat : f[i] \in Seq(S)}  OBVIOUS
  <2>2. 0 \in T
    <3>1. <<>> \in Seq(S) /\ 0 \in Nat  OBVIOUS
    <3> QED  BY <1>5, <2>1, <3>1 DEF Sieve
  <2>3. ASSUME NEW k \in 0 .. Len(seq) - 1, k \in T PROVE k + 1 \in T
    <3>1. k + 1 \in 1 .. Len(seq) /\ (k + 1) - 1 = k /\ k + 1 \in Nat /\ f[k] \in Seq(S)  BY <1>0, <2>1, <2>3
    <3>2. f[k + 1] = IF seq[k + 1] \in kept THEN Append(f[k], seq[k + 1]) ELSE f[k]  BY <1>5, <3>1 DEF Sieve
    <3>3. Append(f[k], seq[k + 1]) \in Seq(S)  BY <1>0, <3>1, AppendProperties
    <3> QED  BY <2>1, <3>1, <3>2, <3>3
  <2>4. 0 .. Len(seq) \subseteq T  BY <1>0, <2>2, <2>3, OneByOneUpTo
  <2> QED  BY <2>1, <2>4
<1> QED  BY <1>3, <1>5, <1>6

\* A filter that keeps everything.
LEMMA AllKept ==
  ASSUME NEW S, NEW seq \in Seq(S), NEW kept, \A i \in 1 .. Len(seq) : seq[i] \in kept
  PROVE  Only(seq, kept) = seq
<1>0. Len(seq) \in Nat /\ \A i \in 1 .. Len(seq) : seq[i] \in S  OBVIOUS
<1>1. PICK f : /\ Only(seq, kept) = f[Len(seq)] /\ Sieve(seq, kept, f)
               /\ \A i \in 0 .. Len(seq) : f[i] \in Seq(S)
  BY Sifted
<1>2. PICK T : T = {i \in Nat : Len(f[i]) = i /\ \A j \in 1 .. i : f[i][j] = seq[j]}  OBVIOUS
<1>3. 0 \in T
  <2>1. f[0] = <<>> /\ 0 \in Nat /\ Len(<<>>) = 0  BY <1>1 DEF Sieve
  <2> QED  BY <1>2, <2>1
<1>4. ASSUME NEW k \in 0 .. Len(seq) - 1, k \in T PROVE k + 1 \in T
  <2>1. k + 1 \in 1 .. Len(seq) /\ (k + 1) - 1 = k /\ k + 1 \in Nat /\ k \in 0 .. Len(seq)  BY <1>0
  <2>2. f[k + 1] = Append(f[k], seq[k + 1])  BY <1>1, <2>1 DEF Sieve
  <2>3. PICK a \in Seq(S) : a = f[k] /\ Len(a) = k /\ \A j \in 1 .. k : a[j] = seq[j]  BY <1>1, <1>2, <1>4, <2>1
  <2>4. PICK x \in S : x = seq[k + 1]  BY <1>0, <2>1
  <2>5. /\ Len(Append(a, x)) = k + 1 /\ \A j \in 1 .. k : Append(a, x)[j] = a[j]
        /\ Append(a, x)[k + 1] = x
    BY <2>3, AppendProperties
  <2>6. \A j \in 1 .. k + 1 : f[k + 1][j] = seq[j]
    <3>1. ASSUME NEW j \in 1 .. k + 1 PROVE Append(a, x)[j] = seq[j]
      <4>1. CASE j \in 1 .. k  BY <2>3, <2>5, <4>1
      <4>2. CASE j = k + 1  BY <2>4, <2>5, <4>2
      <4>3. j \in 1 .. k \/ j = k + 1  BY <1>0
      <4> QED  BY <4>1, <4>2, <4>3, Zenon
    <3> QED  BY <2>2, <2>3, <2>4, <3>1
  <2> QED  BY <1>2, <2>1, <2>2, <2>3, <2>4, <2>5, <2>6
<1>5. Len(seq) \in T
  <2>1. 0 .. Len(seq) \subseteq T  BY <1>0, <1>3, <1>4, OneByOneUpTo
  <2> QED  BY <1>0, <2>1
<1>6. PICK a \in Seq(S) : a = f[Len(seq)]  BY <1>0, <1>1
<1>7. Len(a) = Len(seq) /\ \A j \in 1 .. Len(seq) : a[j] = seq[j]  BY <1>2, <1>5, <1>6
<1>8. a = seq  BY <1>7, SeqEqual
<1> QED  BY <1>1, <1>6, <1>8

\* A filter that keeps the first and the last element has them first and last.
LEMMA EndsKept ==
  ASSUME NEW S, NEW seq \in Seq(S), NEW kept, seq # <<>>,
         seq[1] \in kept, seq[Len(seq)] \in kept
  PROVE  /\ Only(seq, kept) \in Seq(S) /\ Only(seq, kept) # <<>>
         /\ Only(seq, kept)[1] = seq[1]
         /\ Only(seq, kept)[Len(Only(seq, kept))] = seq[Len(seq)]
<1>0. Len(seq) \in Nat /\ Len(seq) # 0 /\ \A i \in 1 .. Len(seq) : seq[i] \in S  OBVIOUS
<1>1. PICK f : /\ Only(seq, kept) = f[Len(seq)] /\ Sieve(seq, kept, f)
               /\ \A i \in 0 .. Len(seq) : f[i] \in Seq(S)
  BY Sifted
<1>2. PICK T : T = {i \in Nat : i # 0 => Len(f[i]) # 0 /\ f[i][1] = seq[1]}  OBVIOUS
<1>3. 0 \in T  BY <1>2
<1>4. ASSUME NEW k \in 0 .. Len(seq) - 1, k \in T PROVE k + 1 \in T
  <2>1. k + 1 \in 1 .. Len(seq) /\ (k + 1) - 1 = k /\ k + 1 \in Nat /\ k \in 0 .. Len(seq)  BY <1>0
  <2>2. f[k + 1] = IF seq[k + 1] \in kept THEN Append(f[k], seq[k + 1]) ELSE f[k]  BY <1>1, <2>1 DEF Sieve
  <2>3. PICK a \in Seq(S) : a = f[k]  BY <1>1, <2>1
  <2>4. PICK x \in S : x = seq[k + 1]  BY <1>0, <2>1
  <2>5. /\ Len(a) \in Nat /\ Len(Append(a, x)) = Len(a) + 1 /\ \A j \in 1 .. Len(a) : Append(a, x)[j] = a[j]
        /\ Append(a, x)[Len(a) + 1] = x
    BY AppendProperties
  <2>6. CASE k = 0
    <3>1. a = <<>> /\ Len(a) = 0 /\ x = seq[1] /\ f[k + 1] = Append(a, x)
      BY <1>1, <2>1, <2>2, <2>3, <2>4, <2>6 DEF Sieve
    <3>2. Append(a, x)[1] = x /\ Len(Append(a, x)) = 1  BY <2>5, <3>1
    <3> QED  BY <1>2, <2>1, <3>1, <3>2
  <2>7. CASE k # 0
    <3>1. Len(a) # 0 /\ a[1] = seq[1]  BY <1>2, <1>4, <2>3, <2>7
    <3>2. 1 \in 1 .. Len(a)  BY <2>5, <3>1
    <3>3. Append(a, x)[1] = seq[1] /\ Len(Append(a, x)) # 0  BY <2>5, <3>1, <3>2
    <3>4. f[k + 1] = Append(a, x) \/ f[k + 1] = a  BY <2>2, <2>3, <2>4
    <3> QED  BY <1>2, <2>1, <3>1, <3>3, <3>4
  <2> QED  BY <2>6, <2>7
<1>5. Len(f[Len(seq)]) # 0 /\ f[Len(seq)][1] = seq[1]
  <2>1. 0 .. Len(seq) \subseteq T  BY <1>0, <1>3, <1>4, OneByOneUpTo
  <2>2. Len(seq) \in T  BY <1>0, <2>1
  <2> QED  BY <1>0, <1>2, <2>2
<1>6. f[Len(seq)] \in Seq(S) /\ f[Len(seq)] # <<>>  BY <1>0, <1>1, <1>5
<1>7. f[Len(seq)][Len(f[Len(seq)])] = seq[Len(seq)]
  <2>1. Len(seq) \in 1 .. Len(seq) /\ Len(seq) - 1 \in 0 .. Len(seq)  BY <1>0
  <2>2. PICK a \in Seq(S) : a = f[Len(seq) - 1]  BY <1>1, <2>1
  <2>3. PICK x \in S : x = seq[Len(seq)]  BY <1>0, <2>1
  <2>4. f[Len(seq)] = Append(a, x)  BY <1>1, <2>1, <2>2, <2>3 DEF Sieve
  <2>5. Len(Append(a, x)) = Len(a) + 1 /\ Append(a, x)[Len(a) + 1] = x  BY AppendProperties
  <2> QED  BY <2>3, <2>4, <2>5
<1> QED  BY <1>1, <1>5, <1>6, <1>7

\* The least and the greatest place that has ink.
LEMMA TrimIs ==
  ASSUME NEW S, NEW c \in Seq(S), NEW m \in 1 .. Len(c), c[1] \notin Blanks, c[m] \notin Blanks,
         \A j \in m + 1 .. Len(c) : c[j] \in Blanks
  PROVE  Trim(c) = SubSeq(c, 1, m)
<1>0. Len(c) \in Nat /\ DOMAIN c = 1 .. Len(c)  OBVIOUS
<1>1. PICK ink : ink = {i \in DOMAIN c : c[i] \notin Blanks}  OBVIOUS
<1>2. 1 \in ink /\ m \in ink /\ \A i \in ink : i \in Nat /\ 1 <= i /\ i <= m  BY <1>0, <1>1
<1>3. Min(ink) = 1
  <2>1. \E x \in ink : \A y \in ink : x <= y  BY <1>2
  <2>2. Min(ink) \in ink /\ \A y \in ink : Min(ink) <= y  BY <2>1, Zenon DEF Min
  <2>3. PICK a \in ink : a = Min(ink) /\ \A y \in ink : a <= y  BY <2>2
  <2> QED  BY <1>2, <2>3
<1>4. Max(ink) = m
  <2>1. \E x \in ink : \A y \in ink : x >= y  BY <1>2
  <2>2. Max(ink) \in ink /\ \A y \in ink : Max(ink) >= y  BY <2>1, Zenon DEF Max
  <2>3. PICK a \in ink : a = Max(ink) /\ \A y \in ink : a >= y  BY <2>2
  <2> QED  BY <1>2, <2>3
<1>5. ink # {}  BY <1>2
<1>6. Trim(c) = IF ink = {} THEN <<>> ELSE SubSeq(c, Min(ink), Max(ink))  BY <1>1, Zenon DEF Trim
<1> QED  BY <1>3, <1>4, <1>5, <1>6

\* A trimmed text has ink at both ends.
LEMMA TrimmedEnds ==
  ASSUME NEW S, NEW c \in Seq(S), Trim(c) = c, c # <<>>
  PROVE  c[1] \notin Blanks /\ c[Len(c)] \notin Blanks
<1>0. Len(c) \in Nat /\ DOMAIN c = 1 .. Len(c) /\ Len(c) # 0 /\ \A i \in 1 .. Len(c) : c[i] \in S  OBVIOUS
<1>1. PICK ink : ink = {i \in DOMAIN c : c[i] \notin Blanks}  OBVIOUS
<1>2. Trim(c) = IF ink = {} THEN <<>> ELSE SubSeq(c, Min(ink), Max(ink))  BY <1>1, Zenon DEF Trim
<1>3. ink # {} /\ c = SubSeq(c, Min(ink), Max(ink))  BY <1>2
<1>4. ink \subseteq 1 .. Len(c) /\ ink \subseteq Nat  BY <1>0, <1>1
<1>5. PICK lo \in ink : \A y \in ink : lo <= y  BY <1>3, <1>4, OneIsLeast
<1>6. PICK hi \in ink : \A y \in ink : hi >= y
  <2>1. PICK T : T = {Len(c) - i : i \in ink}  OBVIOUS
  <2>2. T \subseteq Nat /\ T # {}  BY <1>0, <1>3, <1>4, <2>1
  <2>3. PICK x \in T : \A y \in T : x <= y  BY <2>2, OneIsLeast
  <2>4. PICK h \in ink : x = Len(c) - h  BY <2>1, <2>3
  <2>5. ASSUME NEW y \in ink PROVE h >= y
    <3>1. Len(c) - h <= Len(c) - y  BY <2>1, <2>3, <2>4
    <3>2. h \in Nat /\ y \in Nat  BY <1>4, <2>4
    <3> QED  BY <1>0, <3>1, <3>2
  <2> QED  BY <2>5
<1>7. Min(ink) \in ink
  <2>1. \E x \in ink : \A y \in ink : x <= y  BY <1>5
  <2> QED  BY <2>1, Zenon DEF Min
<1>8. Max(ink) \in ink
  <2>1. \E x \in ink : \A y \in ink : x >= y  BY <1>6
  <2> QED  BY <2>1, Zenon DEF Max
<1>9. PICK a, b : a = Min(ink) /\ b = Max(ink)  OBVIOUS
<1>10. a \in 1 .. Len(c) /\ b \in 1 .. Len(c)  BY <1>4, <1>7, <1>8, <1>9
<1>11. Len(SubSeq(c, a, b)) = IF a <= b THEN b - a + 1 ELSE 0
  <2>1. a \in Int /\ b \in Int /\ \A i \in a .. b : c[i] \in S  BY <1>0, <1>10
  <2> QED  BY <2>1, SubSeqProperties
<1>12. a = 1 /\ b = Len(c)  BY <1>0, <1>3, <1>9, <1>10, <1>11
<1> QED  BY <1>1, <1>7, <1>8, <1>9, <1>12

\* A text that begins and ends with ink is trimmed.
LEMMA TrimmedText ==
  ASSUME NEW S, NEW c \in Seq(S), c # <<>>, c[1] \notin Blanks, c[Len(c)] \notin Blanks
  PROVE  Trim(c) = c
<1>1. Len(c) \in 1 .. Len(c) /\ Len(c) \in Nat  OBVIOUS
<1>2. PICK m \in 1 .. Len(c) : m = Len(c)  BY <1>1
<1>3. \A j \in m + 1 .. Len(c) : c[j] \in Blanks  BY <1>1, <1>2
<1>4. Trim(c) = SubSeq(c, 1, m)  BY <1>2, <1>3, TrimIs
<1>5. SubSeq(c, 1, m) = c  BY <1>2
<1> QED  BY <1>4, <1>5

-----------------------------------------------------------------------------
(* The spreadsheet: what each character does to what has been read.           *)

\* What parseCsv has in hand between two characters.
Hand(rows, row, cell, quoted, start, skip) ==
  [rows |-> rows, row |-> row, cell |-> cell, quoted |-> quoted, atCellStart |-> start, skip |-> skip]

\* Reading the i-th character makes one of the other.
Makes(csv, i, s, t) == ReadChar(csv, s, i) = t

\* A reader field by field.
LEMMA FieldByField ==
  ASSUME NEW t, NEW rows, NEW row, NEW cell, NEW quoted, NEW start, NEW skip,
         t.rows = rows, t.row = row, t.cell = cell, t.quoted = quoted, t.skip = skip
  PROVE  [f \in {"rows", "row", "cell", "quoted", "atCellStart", "skip"} |-> IF f = "atCellStart" THEN start ELSE t[f]]
         = Hand(rows, row, cell, quoted, start, skip)
BY DEF Hand

\* A cell that ends goes to the row, and the next one begins.
LEMMA CellEnds ==
  ASSUME NEW rows, NEW row, NEW cell, NEW start
  PROVE  EndCell(Hand(rows, row, cell, FALSE, start, FALSE)) = Hand(rows, Append(row, cell), <<>>, FALSE, TRUE, FALSE)
<1>1. PICK s : s = Hand(rows, row, cell, FALSE, start, FALSE)  OBVIOUS
<1>2. DOMAIN s = {"rows", "row", "cell", "quoted", "atCellStart", "skip"}  BY <1>1 DEF Hand
<1>3. EndCell(s) = [f \in {"rows", "row", "cell", "quoted", "atCellStart", "skip"} |->
         IF f = "atCellStart" THEN TRUE ELSE IF f = "cell" THEN <<>> ELSE IF f = "row" THEN Append(s.row, s.cell) ELSE s[f]]
  BY <1>2, Zenon DEF EndCell
<1> QED  BY <1>1, <1>3 DEF Hand

\* A line that ends takes its last cell along.
LEMMA RowEnds ==
  ASSUME NEW rows, NEW row, NEW cell, NEW start
  PROVE  EndRow(Hand(rows, row, cell, FALSE, start, FALSE))
         = Hand(Append(rows, Append(row, cell)), <<>>, <<>>, FALSE, TRUE, FALSE)
<1>1. PICK s : s = Hand(rows, row, cell, FALSE, start, FALSE)  OBVIOUS
<1>2. EndCell(s) = Hand(rows, Append(row, cell), <<>>, FALSE, TRUE, FALSE)  BY <1>1, CellEnds
<1>3. PICK t : t = EndCell(s)  OBVIOUS
<1>4. DOMAIN t = {"rows", "row", "cell", "quoted", "atCellStart", "skip"}  BY <1>2, <1>3 DEF Hand
<1>5. EndRow(s) = [f \in {"rows", "row", "cell", "quoted", "atCellStart", "skip"} |->
         IF f = "row" THEN <<>> ELSE IF f = "rows" THEN Append(t.rows, Append(s.row, s.cell)) ELSE t[f]]
  BY <1>3, <1>4, Zenon DEF EndRow
<1>6. t.rows = rows /\ s.row = row /\ s.cell = cell  BY <1>1, <1>2, <1>3 DEF Hand
<1>7. PICK all : all = Append(rows, Append(row, cell))  OBVIOUS
<1>8. EndRow(s) = [f \in {"rows", "row", "cell", "quoted", "atCellStart", "skip"} |->
         IF f = "row" THEN <<>> ELSE IF f = "rows" THEN all ELSE t[f]]
  BY <1>5, <1>6, <1>7
<1>9. t.cell = <<>> /\ t.quoted = FALSE /\ t.atCellStart = TRUE /\ t.skip = FALSE  BY <1>2, <1>3 DEF Hand
<1>10. EndRow(s) = Hand(all, <<>>, <<>>, FALSE, TRUE, FALSE)  BY <1>8, <1>9 DEF Hand
<1> QED  BY <1>1, <1>7, <1>10

\* Outside quotes: a quote at the start of a cell opens it,
LEMMA QuoteOpens ==
  ASSUME NEW csv, NEW i, NEW rows, NEW row, NEW cell, csv[i] = Quote
  PROVE  Makes(csv, i, Hand(rows, row, cell, FALSE, TRUE, FALSE), Hand(rows, row, cell, TRUE, FALSE, FALSE))
<1>1. PICK s : s = Hand(rows, row, cell, FALSE, TRUE, FALSE)  OBVIOUS
<1>2. DOMAIN s = {"rows", "row", "cell", "quoted", "atCellStart", "skip"}  BY <1>1 DEF Hand
<1>3. s.skip = FALSE /\ s.quoted = FALSE /\ s.atCellStart = TRUE  BY <1>1 DEF Hand
<1>4. ReadChar(csv, s, i) = [s EXCEPT !.quoted = TRUE, !.atCellStart = FALSE]
  <2>1. ReadChar(csv, s, i) = Outside(s, csv[i])  BY <1>3, Zenon DEF ReadChar
  <2>2. Outside(s, csv[i]) = [s EXCEPT !.quoted = TRUE, !.atCellStart = FALSE]
    BY <1>3 DEF Outside, Comma, CR, LF, Quote
  <2> QED  BY <2>1, <2>2
<1>5. [s EXCEPT !.quoted = TRUE, !.atCellStart = FALSE]
      = [f \in {"rows", "row", "cell", "quoted", "atCellStart", "skip"} |->
          IF f = "atCellStart" THEN FALSE ELSE IF f = "quoted" THEN TRUE ELSE s[f]]
  BY <1>2, Zenon
<1> QED  BY <1>1, <1>4, <1>5 DEF Hand, Makes

\* a comma ends it,
LEMMA CommaEnds ==
  ASSUME NEW csv, NEW i, NEW rows, NEW row, NEW cell, NEW start, csv[i] = Comma
  PROVE  Makes(csv, i, Hand(rows, row, cell, FALSE, start, FALSE), Hand(rows, Append(row, cell), <<>>, FALSE, TRUE, FALSE))
<1>1. ReadChar(csv, Hand(rows, row, cell, FALSE, start, FALSE), i)
      = EndCell(Hand(rows, row, cell, FALSE, start, FALSE))
  BY DEF ReadChar, Outside, Hand, Quote, Comma, CR, LF
<1>2. EndCell(Hand(rows, row, cell, FALSE, start, FALSE)) = Hand(rows, Append(row, cell), <<>>, FALSE, TRUE, FALSE)
  BY CellEnds
<1> QED  BY <1>1, <1>2 DEF Makes

\* a carriage return is nothing,
LEMMA ReturnSkipped ==
  ASSUME NEW csv, NEW i, NEW rows, NEW row, NEW cell, NEW start, csv[i] = CR
  PROVE  Makes(csv, i, Hand(rows, row, cell, FALSE, start, FALSE), Hand(rows, row, cell, FALSE, start, FALSE))
BY DEF Makes, ReadChar, Outside, Hand, Quote, Comma, CR, LF

\* a line feed ends the row,
LEMMA LineEnds ==
  ASSUME NEW csv, NEW i, NEW rows, NEW row, NEW cell, NEW start, csv[i] = LF
  PROVE  Makes(csv, i, Hand(rows, row, cell, FALSE, start, FALSE), Hand(Append(rows, Append(row, cell)), <<>>, <<>>, FALSE, TRUE, FALSE))
<1>1. ReadChar(csv, Hand(rows, row, cell, FALSE, start, FALSE), i)
      = EndRow(Hand(rows, row, cell, FALSE, start, FALSE))
  BY DEF ReadChar, Outside, Hand, Quote, Comma, CR, LF
<1>2. EndRow(Hand(rows, row, cell, FALSE, start, FALSE))
      = Hand(Append(rows, Append(row, cell)), <<>>, <<>>, FALSE, TRUE, FALSE)
  BY RowEnds
<1> QED  BY <1>1, <1>2 DEF Makes

\* and any other character belongs to the cell.
LEMMA CharTaken ==
  ASSUME NEW csv, NEW i, NEW rows, NEW row, NEW cell, NEW start, csv[i] \notin {Quote, Comma, CR, LF}
  PROVE  Makes(csv, i, Hand(rows, row, cell, FALSE, start, FALSE), Hand(rows, row, Append(cell, csv[i]), FALSE, FALSE, FALSE))
<1>1. ReadChar(csv, Hand(rows, row, cell, FALSE, start, FALSE), i)
      = [Push(Hand(rows, row, cell, FALSE, start, FALSE), csv[i]) EXCEPT !.atCellStart = FALSE]
  BY DEF ReadChar, Outside, Hand
<1>2. [Push(Hand(rows, row, cell, FALSE, start, FALSE), csv[i]) EXCEPT !.atCellStart = FALSE]
      = Hand(rows, row, Append(cell, csv[i]), FALSE, FALSE, FALSE)
  <2>1. PICK s : s = Hand(rows, row, cell, FALSE, start, FALSE)  OBVIOUS
  <2>2. DOMAIN s = {"rows", "row", "cell", "quoted", "atCellStart", "skip"}  BY <2>1 DEF Hand
  <2>3. Push(s, csv[i]) = [f \in {"rows", "row", "cell", "quoted", "atCellStart", "skip"} |->
            IF f = "cell" THEN Append(s.cell, csv[i]) ELSE s[f]]
    BY <2>2, Zenon DEF Push
  <2>4. PICK t : t = Push(s, csv[i])  OBVIOUS
  <2>5. DOMAIN t = {"rows", "row", "cell", "quoted", "atCellStart", "skip"}  BY <2>3, <2>4
  <2>6. [t EXCEPT !.atCellStart = FALSE] = [f \in {"rows", "row", "cell", "quoted", "atCellStart", "skip"} |->
            IF f = "atCellStart" THEN FALSE ELSE t[f]]
    BY <2>5, Zenon
  <2>7. PICK more : more = Append(cell, csv[i])  OBVIOUS
  <2>8. t = [f \in {"rows", "row", "cell", "quoted", "atCellStart", "skip"} |->
            IF f = "cell" THEN more ELSE s[f]]
    <3>1. s.cell = cell  BY <2>1 DEF Hand
    <3> QED  BY <2>3, <2>4, <2>7, <3>1
  <2>9. t.rows = rows /\ t.row = row /\ t.cell = more /\ t.quoted = FALSE /\ t.skip = FALSE
    BY <2>1, <2>8 DEF Hand
  <2>10. [t EXCEPT !.atCellStart = FALSE] = Hand(rows, row, more, FALSE, FALSE, FALSE)
    <3>1. PICK no : no = FALSE  OBVIOUS
    <3>2. [t EXCEPT !.atCellStart = FALSE] = [f \in {"rows", "row", "cell", "quoted", "atCellStart", "skip"} |->
            IF f = "atCellStart" THEN no ELSE t[f]]
      BY <2>6, <3>1, Zenon
    <3>3. [f \in {"rows", "row", "cell", "quoted", "atCellStart", "skip"} |-> IF f = "atCellStart" THEN no ELSE t[f]]
          = Hand(rows, row, more, no, no, no)
      <4>1. t.rows = rows /\ t.row = row /\ t.cell = more /\ t.quoted = no /\ t.skip = no
        BY <2>9, <3>1, Zenon
      <4> QED  BY <4>1, FieldByField
    <3> QED  BY <3>1, <3>2, <3>3
  <2> QED  BY <2>1, <2>4, <2>7, <2>10
<1> QED  BY <1>1, <1>2 DEF Makes

\* Inside quotes: the second of two quotes has been counted,
LEMMA SecondQuote ==
  ASSUME NEW csv, NEW i, NEW rows, NEW row, NEW cell
  PROVE  Makes(csv, i, Hand(rows, row, cell, TRUE, FALSE, TRUE), Hand(rows, row, cell, TRUE, FALSE, FALSE))
BY DEF Makes, ReadChar, Hand

\* the first of two is one,
LEMMA FirstQuote ==
  ASSUME NEW csv, NEW i, NEW rows, NEW row, NEW cell, csv[i] = Quote, i < Len(csv), csv[i + 1] = Quote
  PROVE  Makes(csv, i, Hand(rows, row, cell, TRUE, FALSE, FALSE), Hand(rows, row, Append(cell, Quote), TRUE, FALSE, TRUE))
<1>1. PICK next : next = IF i < Len(csv) THEN csv[i + 1] ELSE Comma  OBVIOUS
<1>2. ReadChar(csv, Hand(rows, row, cell, TRUE, FALSE, FALSE), i)
      = Inside(Hand(rows, row, cell, TRUE, FALSE, FALSE), csv[i], next)
  BY <1>1 DEF ReadChar, Hand
<1>3. next = Quote  BY <1>1
<1>4. Inside(Hand(rows, row, cell, TRUE, FALSE, FALSE), csv[i], next) = Hand(rows, row, Append(cell, Quote), TRUE, FALSE, TRUE)
  BY <1>3 DEF Inside, Push, Hand
<1> QED  BY <1>2, <1>4 DEF Makes

\* a single one closes the cell,
LEMMA QuoteCloses ==
  ASSUME NEW csv, NEW i, NEW rows, NEW row, NEW cell, csv[i] = Quote, i < Len(csv) => csv[i + 1] # Quote
  PROVE  Makes(csv, i, Hand(rows, row, cell, TRUE, FALSE, FALSE), Hand(rows, row, cell, FALSE, FALSE, FALSE))
<1>1. PICK next : next = IF i < Len(csv) THEN csv[i + 1] ELSE Comma  OBVIOUS
<1>2. ReadChar(csv, Hand(rows, row, cell, TRUE, FALSE, FALSE), i)
      = Inside(Hand(rows, row, cell, TRUE, FALSE, FALSE), csv[i], next)
  BY <1>1 DEF ReadChar, Hand
<1>3. next # Quote
  <2>1. Comma # Quote  BY DEF Comma, Quote
  <2> QED  BY <1>1, <2>1
<1>4. Inside(Hand(rows, row, cell, TRUE, FALSE, FALSE), csv[i], next) = Hand(rows, row, cell, FALSE, FALSE, FALSE)
  BY <1>3 DEF Inside, Hand
<1> QED  BY <1>2, <1>4 DEF Makes

\* a carriage return is dropped,
LEMMA ReturnDropped ==
  ASSUME NEW csv, NEW i, NEW rows, NEW row, NEW cell, csv[i] = CR
  PROVE  Makes(csv, i, Hand(rows, row, cell, TRUE, FALSE, FALSE), Hand(rows, row, cell, TRUE, FALSE, FALSE))
<1>1. PICK next : next = IF i < Len(csv) THEN csv[i + 1] ELSE Comma  OBVIOUS
<1>2. ReadChar(csv, Hand(rows, row, cell, TRUE, FALSE, FALSE), i)
      = Inside(Hand(rows, row, cell, TRUE, FALSE, FALSE), csv[i], next)
  BY <1>1 DEF ReadChar, Hand
<1>3. Inside(Hand(rows, row, cell, TRUE, FALSE, FALSE), csv[i], next) = Hand(rows, row, cell, TRUE, FALSE, FALSE)
  BY DEF Inside, Hand, CR, Quote
<1> QED  BY <1>2, <1>3 DEF Makes

\* and any other character, a separator too, belongs to the cell.
LEMMA CharInQuotes ==
  ASSUME NEW csv, NEW i, NEW rows, NEW row, NEW cell, csv[i] \notin {Quote, CR}
  PROVE  Makes(csv, i, Hand(rows, row, cell, TRUE, FALSE, FALSE), Hand(rows, row, Append(cell, csv[i]), TRUE, FALSE, FALSE))
<1>1. PICK next : next = IF i < Len(csv) THEN csv[i + 1] ELSE Comma  OBVIOUS
<1>2. ReadChar(csv, Hand(rows, row, cell, TRUE, FALSE, FALSE), i)
      = Inside(Hand(rows, row, cell, TRUE, FALSE, FALSE), csv[i], next)
  BY <1>1 DEF ReadChar, Hand
<1>3. Inside(Hand(rows, row, cell, TRUE, FALSE, FALSE), csv[i], next) = Hand(rows, row, Append(cell, csv[i]), TRUE, FALSE, FALSE)
  BY DEF Inside, Push, Hand
<1> QED  BY <1>2, <1>3 DEF Makes

-----------------------------------------------------------------------------
(* The spreadsheet: a cell comes back as it is carried.                       *)

\* The text has a piece at some place.
There(text, a, piece) ==
  /\ a + Len(piece) <= Len(text)
  /\ \A j \in 1 .. Len(piece) : text[a + j] = piece[j]

\* A piece made of two is there when each of them is, one after the other.
LEMMA ThereInTwo ==
  ASSUME NEW S, NEW text \in Seq(S), NEW a \in Nat, NEW u \in Seq(S), NEW v \in Seq(S),
         There(text, a, u \o v)
  PROVE  There(text, a, u) /\ There(text, a + Len(u), v)
<1>1. /\ Len(u \o v) = Len(u) + Len(v) /\ Len(u) \in Nat /\ Len(v) \in Nat /\ Len(text) \in Nat
      /\ \A i \in 1 .. Len(u) + Len(v) : (u \o v)[i] = IF i <= Len(u) THEN u[i] ELSE v[i - Len(u)]
  BY ConcatProperties
<1>2. PICK w : w = u \o v  OBVIOUS
<1>3. a + (Len(u) + Len(v)) <= Len(text) /\ \A j \in 1 .. Len(u) + Len(v) : text[a + j] = w[j]
  BY <1>1, <1>2 DEF There
<1>4. \A j \in 1 .. Len(u) : text[a + j] = u[j]  BY <1>1, <1>2, <1>3
<1>5. ASSUME NEW j \in 1 .. Len(v) PROVE text[(a + Len(u)) + j] = v[j]
  <2>1. PICK i \in 1 .. Len(u) + Len(v) : i = Len(u) + j  BY <1>1
  <2>2. a + i = (a + Len(u)) + j /\ i - Len(u) = j /\ ~ (i <= Len(u))  BY <1>1, <2>1
  <2>3. text[a + i] = w[i] /\ w[i] = v[i - Len(u)]  BY <1>1, <1>2, <1>3, <2>2
  <2> QED  BY <2>2, <2>3
<1>6. a + Len(u) <= Len(text) /\ (a + Len(u)) + Len(v) <= Len(text)  BY <1>1, <1>3
<1> QED  BY <1>4, <1>5, <1>6 DEF There

\* The characters of a text.
Chars == STRING \cup {Quote, Apostrophe, Comma, CR, LF, "Client", "Email address", "-", "B", "note", "file"}

\* The pieces of a quoted cell.
Pieces(cell) == [i \in DOMAIN cell |-> IF cell[i] = Quote THEN <<Quote, Quote>> ELSE <<cell[i]>>]

\* A cell, guarded, doubled and written, is a text.
LEMMA CellTypes ==
  ASSUME NEW cell \in Seq(Chars)
  PROVE  /\ guardedText(cell) \in Seq(Chars)
         /\ Pieces(guardedText(cell)) \in [1 .. Len(guardedText(cell)) -> Seq(Chars)]
         /\ Doubled(guardedText(cell)) = FlattenSeq(Pieces(guardedText(cell)))
         /\ Doubled(guardedText(cell)) \in Seq(Chars)
         /\ csvCell(cell) \in Seq(Chars)
<1>1. guardedText(cell) \in Seq(Chars)
  <2>0. Apostrophe \in Chars  BY Zenon DEF Chars
  <2>1. <<Apostrophe>> \in Seq(Chars)  BY <2>0
  <2>2. <<Apostrophe>> \o cell \in Seq(Chars)  BY <2>1, ConcatProperties
  <2> QED  BY <2>2 DEF guardedText
<1>2. PICK g \in Seq(Chars) : g = guardedText(cell)  BY <1>1
<1>3. Pieces(g) \in [1 .. Len(g) -> Seq(Chars)]
  <2>1. DOMAIN g = 1 .. Len(g) /\ \A i \in 1 .. Len(g) : g[i] \in Chars  OBVIOUS
  <2>2. Quote \in Chars  BY Zenon DEF Chars
  <2>3. \A i \in 1 .. Len(g) : <<Quote, Quote>> \in Seq(Chars) /\ <<g[i]>> \in Seq(Chars)  BY <2>1, <2>2
  <2> QED  BY <2>1, <2>3 DEF Pieces
<1>4. Doubled(g) = FlattenSeq(Pieces(g))  BY Zenon DEF Doubled, Pieces
<1>5. Doubled(g) \in Seq(Chars)
  <2>1. \E off : Ends(Pieces(g), Len(g), off) /\ Beginning(Pieces(g), off, Len(g), Chars, FlattenSeq(Pieces(g)))
    BY <1>3, PiecesAreThere
  <2> QED  BY <1>4, <2>1 DEF Beginning
<1>6. csvCell(cell) \in Seq(Chars)
  <2>0. Quote \in Chars  BY Zenon DEF Chars
  <2>1. <<Quote>> \in Seq(Chars)  BY <2>0
  <2>2. <<Quote>> \o Doubled(g) \in Seq(Chars)  BY <1>5, <2>1, ConcatProperties
  <2>3. <<Quote>> \o Doubled(g) \o <<Quote>> \in Seq(Chars)  BY <2>1, <2>2, ConcatProperties
  <2>4. csvCell(cell) = <<Quote>> \o Doubled(g) \o <<Quote>> \/ csvCell(cell) = g  BY <1>2, Zenon DEF csvCell
  <2> QED  BY <2>3, <2>4
<1> QED  BY <1>1, <1>2, <1>3, <1>4, <1>5, <1>6

\* What parseCsv has in hand after each character.
Reads(csv, R) == R[0] = Unread /\ \A i \in 1 .. Len(csv) : R[i] = ReadChar(csv, R[i - 1], i)

\* Before a cell, and at its end.
AtStart(R, a, rows, row) == R[a] = Hand(rows, row, <<>>, FALSE, TRUE, FALSE)

Filled(R, b, rows, row, cell) == \E start : R[b] = Hand(rows, row, cell, FALSE, start, FALSE)

\* A cell without anything to quote comes back as the filter leaves it.
LEMMA PlainCell ==
  ASSUME NEW csv \in Seq(Chars), NEW R, Reads(csv, R), NEW a \in Nat, NEW g \in Seq(Chars),
         NEW kept, NEW f, Sieve(g, kept, f), NEW rows, NEW row,
         \A j \in 1 .. Len(g) : g[j] \in kept /\ g[j] \notin {Quote, Comma, CR, LF},
         There(csv, a, g), AtStart(R, a, rows, row)
  PROVE  Filled(R, a + Len(g), rows, row, f[Len(g)])
<1>0. Len(g) \in Nat /\ Len(csv) \in Nat  OBVIOUS
<1>1. PICK T : T = {j \in Nat : \E start : R[a + j] = Hand(rows, row, f[j], FALSE, start, FALSE)}  OBVIOUS
<1>2. 0 \in T
  <2>1. a + 0 = a /\ f[0] = <<>> /\ 0 \in Nat  BY DEF Sieve
  <2>2. R[a + 0] = Hand(rows, row, f[0], FALSE, TRUE, FALSE)  BY <2>1 DEF AtStart
  <2> QED  BY <1>1, <2>1, <2>2, Zenon
<1>3. ASSUME NEW k \in 0 .. Len(g) - 1, k \in T PROVE k + 1 \in T
  <2>1. PICK start : R[a + k] = Hand(rows, row, f[k], FALSE, start, FALSE)  BY <1>1, <1>3
  <2>2. k + 1 \in 1 .. Len(g) /\ (k + 1) - 1 = k /\ k + 1 \in Nat  BY <1>0
  <2>3. PICK i \in 1 .. Len(csv) : i = a + (k + 1) /\ i - 1 = a + k  BY <1>0, <2>2 DEF There
  <2>4. csv[i] = g[k + 1] /\ g[k + 1] \in kept /\ g[k + 1] \notin {Quote, Comma, CR, LF}  BY <2>2, <2>3 DEF There
  <2>5. R[i] = ReadChar(csv, Hand(rows, row, f[k], FALSE, start, FALSE), i)  BY <2>1, <2>3 DEF Reads
  <2>6. R[i] = Hand(rows, row, Append(f[k], csv[i]), FALSE, FALSE, FALSE)
    <3>1. Makes(csv, i, Hand(rows, row, f[k], FALSE, start, FALSE), Hand(rows, row, Append(f[k], csv[i]), FALSE, FALSE, FALSE))
      BY <2>4, CharTaken, Zenon
    <3> QED  BY <2>5, <3>1, Zenon DEF Makes
  <2>7. f[k + 1] = Append(f[k], g[k + 1])  BY <2>2, <2>4 DEF Sieve
  <2>8. R[a + (k + 1)] = Hand(rows, row, f[k + 1], FALSE, FALSE, FALSE)  BY <2>3, <2>4, <2>6, <2>7
  <2> QED  BY <1>1, <2>2, <2>8, Zenon
<1>4. Len(g) \in T
  <2>1. 0 .. Len(g) \subseteq T  BY <1>0, <1>2, <1>3, OneByOneUpTo
  <2> QED  BY <1>0, <2>1
<1> QED  BY <1>1, <1>4, Zenon DEF Filled

\* Places in a cell, one quote and some doubled characters on.
LEMMA FurtherOn ==
  ASSUME NEW a \in Nat, NEW x \in Nat, NEW y \in Nat, x + 1 <= y
  PROVE  (a + 1) + x + 1 \in Nat /\ (a + 1) + x + 1 >= 1 /\ (a + 1) + x + 1 <= (a + 1) + y + 1
OBVIOUS

LEMMA SecondPlace ==
  ASSUME NEW a \in Nat, NEW x \in Nat, NEW y \in Nat, NEW z \in Nat, x + 2 <= y, (a + 1) + y + 1 <= z,
         NEW i, i = (a + 1) + x + 1
  PROVE  (a + 1) + (x + 2) = i + 1 /\ (i + 1) - 1 = i /\ i < z /\ i + 1 \in 1 .. z
OBVIOUS

\* A quoted cell comes back as the filter leaves it, quotes and separators included.
LEMMA QuotedCell ==
  ASSUME NEW csv \in Seq(Chars), NEW R, Reads(csv, R), NEW a \in Nat, NEW g \in Seq(Chars),
         NEW kept, NEW f, Sieve(g, kept, f), NEW rows, NEW row,
         \A j \in 1 .. Len(g) : g[j] \in kept <=> g[j] # CR,
         NEW n \in Nat, n = Len(g), NEW q \in [1 .. n -> Seq(Chars)], q = Pieces(g),
         NEW d, Ends(q, n, d), NEW D \in Seq(Chars), Beginning(q, d, n, Chars, D),
         There(csv, a, <<Quote>>), There(csv, a + 1, D), There(csv, (a + 1) + d[n], <<Quote>>),
         (a + 1) + d[n] + 1 < Len(csv) => csv[(a + 1) + d[n] + 2] # Quote,
         AtStart(R, a, rows, row)
  PROVE  Filled(R, (a + 1) + d[n] + 1, rows, row, f[n])
<1>0. Len(csv) \in Nat /\ d[n] \in Nat /\ Len(D) = d[n] /\ d[0] = 0  BY DEF Ends, Beginning
<1>1. Len(<<Quote>>) = 1 /\ <<Quote>>[1] = Quote  OBVIOUS
<1>2. R[a + 1] = Hand(rows, row, <<>>, TRUE, FALSE, FALSE)
  <2>1. csv[a + 1] = Quote /\ a + 1 \in 1 .. Len(csv) /\ (a + 1) - 1 = a  BY <1>0, <1>1 DEF There
  <2>2. R[a + 1] = ReadChar(csv, Hand(rows, row, <<>>, FALSE, TRUE, FALSE), a + 1)  BY <2>1 DEF Reads, AtStart
  <2>3. Makes(csv, a + 1, Hand(rows, row, <<>>, FALSE, TRUE, FALSE), Hand(rows, row, <<>>, TRUE, FALSE, FALSE))
    BY <2>1, QuoteOpens, Zenon
  <2> QED  BY <2>2, <2>3, Zenon DEF Makes
<1>3. PICK T : T = {j \in Nat : R[(a + 1) + d[j]] = Hand(rows, row, f[j], TRUE, FALSE, FALSE)}  OBVIOUS
<1>4. 0 \in T
  <2>1. (a + 1) + d[0] = a + 1 /\ f[0] = <<>> /\ 0 \in Nat  BY <1>0 DEF Sieve
  <2> QED  BY <1>2, <1>3, <2>1
<1>5. ASSUME NEW k \in 0 .. n - 1, k \in T PROVE k + 1 \in T
  <2>1. k + 1 \in 1 .. n /\ (k + 1) - 1 = k /\ k + 1 \in Nat /\ k \in 0 .. n /\ k + 1 \in 0 .. n  OBVIOUS
  <2>2. PICK c : c = g[k + 1]  OBVIOUS
  <2>3. q[k + 1] = IF c = Quote THEN <<Quote, Quote>> ELSE <<c>>
    <3>1. DOMAIN g = 1 .. n  OBVIOUS
    <3> QED  BY <2>1, <2>2, <3>1 DEF Pieces
  <2>4. d[k] \in Nat /\ d[k + 1] = d[k] + Len(q[k + 1]) /\ d[k + 1] \in Nat /\ d[k + 1] <= d[n]
    <3>1. d[k] \in Nat /\ d[k + 1] \in Nat /\ d[k + 1] = d[k] + Len(q[k + 1])  BY <2>1 DEF Ends
    <3>2. \A i, j \in 0 .. n : i <= j => d[i] <= d[j]  BY EndsGrow
    <3>3. n \in 0 .. n /\ k + 1 <= n  BY <2>1
    <3> QED  BY <2>1, <3>1, <3>2, <3>3
  <2>5. \A j \in 1 .. Len(q[k + 1]) : D[d[k] + j] = q[k + 1][j]
    BY <2>1 DEF Beginning
  <2>6. PICK i : i = (a + 1) + d[k] + 1  OBVIOUS
  <2>7. R[i - 1] = Hand(rows, row, f[k], TRUE, FALSE, FALSE)
    <3>1. i - 1 = (a + 1) + d[k]  BY <2>4, <2>6
    <3>2. R[(a + 1) + d[k]] = Hand(rows, row, f[k], TRUE, FALSE, FALSE)  BY <1>3, <1>5
    <3> QED  BY <3>1, <3>2, Zenon
  <2>8. Len(q[k + 1]) = (IF c = Quote THEN 2 ELSE 1) /\ d[k + 1] = d[k] + (IF c = Quote THEN 2 ELSE 1)
    BY <2>3, <2>4
  <2>15. d[k] + 1 <= d[n] /\ (c = Quote => d[k] + 2 <= d[n] /\ d[k + 1] = d[k] + 2) /\ (c # Quote => d[k + 1] = d[k] + 1)
    <3>1. CASE c = Quote  BY <1>0, <2>4, <2>8, <3>1
    <3>2. CASE c # Quote  BY <1>0, <2>4, <2>8, <3>2
    <3> QED  BY <3>1, <3>2
  <2>16. d[k] \in Nat /\ d[n] \in Nat /\ d[k] + 1 <= d[n] /\ Len(D) = d[n] /\ Len(csv) \in Nat
    BY <1>0, <2>4, <2>15
  <2>9. csv[i] = c
    <3>1. D[d[k] + 1] = c  BY <2>3, <2>5, <2>8
    <3>2. d[k] + 1 \in 1 .. Len(D) /\ (a + 1) + (d[k] + 1) = i
      <4>1. d[k] \in Nat /\ d[n] \in Nat /\ d[k] + 1 <= d[n] /\ Len(D) = d[n]  BY <1>0, <2>4, <2>15
      <4>2. d[k] + 1 \in 1 .. Len(D)  BY <4>1
      <4>3. (a + 1) + (d[k] + 1) = i  BY <4>1, <2>6
      <4> QED  BY <4>2, <4>3
    <3> QED  BY <3>1, <3>2 DEF There
  <2>10. i \in 1 .. Len(csv) /\ (a + 1) + d[n] + 1 <= Len(csv)
    <3>1. (a + 1) + d[n] + 1 <= Len(csv)  BY <1>0, <1>1 DEF There
    <3>2. i \in Nat /\ i >= 1 /\ i <= (a + 1) + d[n] + 1
      <4>1. PICK x \in Nat, y \in Nat : x = d[k] /\ y = d[n] /\ x + 1 <= y  BY <2>16
      <4>2. i = (a + 1) + x + 1  BY <2>6, <4>1
      <4>3. (a + 1) + x + 1 \in Nat /\ (a + 1) + x + 1 >= 1 /\ (a + 1) + x + 1 <= (a + 1) + y + 1
        BY <4>1, FurtherOn
      <4> QED  BY <4>1, <4>2, <4>3
    <3> QED  BY <2>16, <3>1, <3>2
  <2>11. R[i] = ReadChar(csv, Hand(rows, row, f[k], TRUE, FALSE, FALSE), i)  BY <2>7, <2>10 DEF Reads
  <2>12. f[k + 1] = IF c # CR THEN Append(f[k], c) ELSE f[k]  BY <2>1, <2>2 DEF Sieve
  <2>13. CASE c = Quote
    <3>1. (a + 1) + d[k + 1] = i + 1 /\ (i + 1) - 1 = i /\ i < Len(csv) /\ i + 1 \in 1 .. Len(csv)
      <4>1. d[k + 1] = d[k] + 2 /\ d[k] + 2 <= d[n]  BY <2>13, <2>15, Zenon
      <4>2. PICK x \in Nat, y \in Nat, z \in Nat : x = d[k] /\ y = d[n] /\ z = Len(csv)  BY <2>16
      <4>3. x + 2 <= y /\ (a + 1) + y + 1 <= z /\ i = (a + 1) + x + 1  BY <2>6, <2>10, <4>1, <4>2, Zenon
      <4>4. (a + 1) + (x + 2) = i + 1 /\ (i + 1) - 1 = i /\ i < z /\ i + 1 \in 1 .. z  BY <4>3, SecondPlace
      <4> QED  BY <4>1, <4>2, <4>4, Zenon
    <3>2. csv[i + 1] = Quote
      <4>1. D[d[k] + 2] = Quote  BY <2>3, <2>5, <2>8, <2>13
      <4>2. d[k] + 2 \in 1 .. Len(D) /\ (a + 1) + (d[k] + 2) = i + 1
        <5>1. d[k] + 2 <= d[n]  BY <2>13, <2>15, Zenon
        <5>2. PICK x \in Nat, y \in Nat : x = d[k] /\ y = d[n] /\ y = Len(D)  BY <2>16
        <5>3. x + 2 <= y /\ i = (a + 1) + x + 1  BY <2>6, <5>1, <5>2, Zenon
        <5>4. x + 2 \in 1 .. y /\ (a + 1) + (x + 2) = i + 1  BY <5>3
        <5> QED  BY <5>2, <5>4, Zenon
      <4> QED  BY <4>1, <4>2 DEF There
    <3>3. R[i] = Hand(rows, row, Append(f[k], Quote), TRUE, FALSE, TRUE)
      <4>1. Makes(csv, i, Hand(rows, row, f[k], TRUE, FALSE, FALSE), Hand(rows, row, Append(f[k], Quote), TRUE, FALSE, TRUE))
        BY <2>9, <2>13, <3>1, <3>2, FirstQuote, Zenon
      <4> QED  BY <2>11, <4>1, Zenon DEF Makes
    <3>4. R[i + 1] = ReadChar(csv, Hand(rows, row, Append(f[k], Quote), TRUE, FALSE, TRUE), i + 1)
      BY <3>1, <3>3 DEF Reads
    <3>5. R[i + 1] = Hand(rows, row, Append(f[k], Quote), TRUE, FALSE, FALSE)
      <4>1. Makes(csv, i + 1, Hand(rows, row, Append(f[k], Quote), TRUE, FALSE, TRUE), Hand(rows, row, Append(f[k], Quote), TRUE, FALSE, FALSE))
        BY SecondQuote, Zenon
      <4> QED  BY <3>4, <4>1, Zenon DEF Makes
    <3>6. Quote # CR  BY DEF Quote, CR
    <3> QED  BY <1>3, <2>1, <2>12, <2>13, <3>1, <3>5, <3>6
  <2>14. CASE c # Quote
    <3>1. (a + 1) + d[k + 1] = i  BY <1>0, <2>4, <2>6, <2>15, <2>14
    <3>2. CASE c = CR
      <4>1. R[i] = Hand(rows, row, f[k], TRUE, FALSE, FALSE)
        <5>1. Makes(csv, i, Hand(rows, row, f[k], TRUE, FALSE, FALSE), Hand(rows, row, f[k], TRUE, FALSE, FALSE))
          BY <2>9, <3>2, ReturnDropped, Zenon
        <5> QED  BY <2>11, <5>1, Zenon DEF Makes
      <4> QED  BY <1>3, <2>1, <2>12, <3>1, <3>2, <4>1
    <3>3. CASE c # CR
      <4>1. R[i] = Hand(rows, row, Append(f[k], c), TRUE, FALSE, FALSE)
        <5>1. csv[i] \notin {Quote, CR}  BY <2>9, <2>14, <3>3
        <5>2. Makes(csv, i, Hand(rows, row, f[k], TRUE, FALSE, FALSE), Hand(rows, row, Append(f[k], csv[i]), TRUE, FALSE, FALSE))
          BY <5>1, CharInQuotes, Zenon
        <5> QED  BY <2>9, <2>11, <5>2, Zenon DEF Makes
      <4> QED  BY <1>3, <2>1, <2>12, <3>1, <3>3, <4>1
    <3> QED  BY <3>2, <3>3
  <2> QED  BY <2>13, <2>14
<1>6. R[(a + 1) + d[n]] = Hand(rows, row, f[n], TRUE, FALSE, FALSE)
  <2>1. 0 .. n \subseteq T  BY <1>4, <1>5, OneByOneUpTo
  <2>2. n \in T  BY <2>1
  <2> QED  BY <1>3, <2>2
<1>7. PICK i : i = (a + 1) + d[n] + 1  OBVIOUS
<1>8. i \in 1 .. Len(csv) /\ i - 1 = (a + 1) + d[n] /\ csv[i] = Quote /\ (i < Len(csv) => csv[i + 1] # Quote)
  <2>1. (a + 1) + d[n] + 1 <= Len(csv) /\ csv[((a + 1) + d[n]) + 1] = Quote  BY <1>0, <1>1 DEF There
  <2>2. i + 1 = (a + 1) + d[n] + 2  BY <1>0, <1>7
  <2> QED  BY <1>0, <1>7, <2>1, <2>2
<1>9. R[i] = ReadChar(csv, Hand(rows, row, f[n], TRUE, FALSE, FALSE), i)  BY <1>6, <1>8 DEF Reads
<1>10. Makes(csv, i, Hand(rows, row, f[n], TRUE, FALSE, FALSE), Hand(rows, row, f[n], FALSE, FALSE, FALSE))
  BY <1>8, QuoteCloses, Zenon
<1> QED  BY <1>7, <1>9, <1>10, Zenon DEF Makes, Filled

\* A written cell is read as it is carried, whatever follows but a quote.
LEMMA CellIsCarried ==
  ASSUME NEW csv \in Seq(Chars), NEW R, Reads(csv, R), NEW a \in Nat, NEW cell \in Seq(Chars), NEW rows, NEW row,
         There(csv, a, csvCell(cell)),
         a + Len(csvCell(cell)) < Len(csv) => csv[a + Len(csvCell(cell)) + 1] # Quote,
         AtStart(R, a, rows, row)
  PROVE  Filled(R, a + Len(csvCell(cell)), rows, row, Carried(cell))
<1>1. PICK g \in Seq(Chars) : g = guardedText(cell)  BY CellTypes
<1>2. PICK n \in Nat : n = Len(g)  OBVIOUS
<1>3. DOMAIN g = 1 .. n  BY <1>2
<1>4. PICK kept : kept = Range(g) \ {CR}  OBVIOUS
<1>5. Carried(cell) = Only(g, kept)  BY <1>1, <1>4, Zenon DEF Carried
<1>6. PICK f : Only(g, kept) = f[Len(g)] /\ Sieve(g, kept, f)  BY Sifted
<1>7. \A j \in 1 .. Len(g) : g[j] \in kept <=> g[j] # CR  BY <1>2, <1>3, <1>4 DEF Range
<1>8. CASE Has(g, {Quote, Comma, CR, LF})
  <2>1. PICK q \in [1 .. n -> Seq(Chars)] : q = Pieces(g) /\ Doubled(g) = FlattenSeq(q)  BY <1>1, <1>2, CellTypes
  <2>2. PICK d : Ends(q, n, d) /\ Beginning(q, d, n, Chars, FlattenSeq(q))  BY <2>1, PiecesAreThere
  <2>3. PICK D \in Seq(Chars) : D = FlattenSeq(q) /\ Len(D) = d[n] /\ d[n] \in Nat  BY <2>2 DEF Beginning
  <2>4. csvCell(cell) = <<Quote>> \o D \o <<Quote>>  BY <1>1, <1>8, <2>1, <2>3, Zenon DEF csvCell
  <2>5. PICK c \in Seq(Chars) : c = <<Quote>> /\ Len(c) = 1
    <3>1. Quote \in Chars  BY Zenon DEF Chars
    <3>2. <<Quote>> \in Seq(Chars) /\ Len(<<Quote>>) = 1  BY <3>1
    <3> QED  BY <3>2
  <2>6. PICK w \in Seq(Chars) : w = c \o D /\ Len(w) = 1 + d[n]
    <3>1. c \o D \in Seq(Chars) /\ Len(c \o D) = Len(c) + Len(D)  BY ConcatProperties
    <3> QED  BY <2>3, <2>5, <3>1
  <2>7. PICK x \in Seq(Chars) : x = w \o c /\ Len(x) = 1 + d[n] + 1
    <3>1. w \o c \in Seq(Chars) /\ Len(w \o c) = Len(w) + Len(c)  BY ConcatProperties
    <3> QED  BY <2>5, <2>6, <3>1
  <2>8. csvCell(cell) = x  BY <2>4, <2>5, <2>6, <2>7, Zenon
  <2>9. There(csv, a, w) /\ There(csv, a + Len(w), c)  BY <2>7, <2>8, ThereInTwo
  <2>10. There(csv, a, c) /\ There(csv, a + Len(c), D)  BY <2>6, <2>9, ThereInTwo
  <2>11. a + Len(w) = (a + 1) + d[n] /\ a + Len(c) = a + 1  BY <2>3, <2>5, <2>6
  <2>12. There(csv, a, <<Quote>>) /\ There(csv, a + 1, D) /\ There(csv, (a + 1) + d[n], <<Quote>>)
    BY <2>5, <2>9, <2>10, <2>11
  <2>13. PICK m \in Nat : m = d[n] /\ Len(csvCell(cell)) = 1 + m + 1  BY <2>3, <2>7, <2>8
  <2>14. (a + 1) + d[n] + 1 < Len(csv) => csv[(a + 1) + d[n] + 2] # Quote
    <3>1. a + Len(csvCell(cell)) = (a + 1) + d[n] + 1 /\ a + Len(csvCell(cell)) + 1 = (a + 1) + d[n] + 2
      <4>1. a + (1 + m + 1) = (a + 1) + m + 1 /\ a + (1 + m + 1) + 1 = (a + 1) + m + 2  OBVIOUS
      <4> QED  BY <2>13, <4>1
    <3> QED  BY <3>1
  <2>15. Beginning(q, d, n, Chars, D)  BY <2>2, <2>3
  <2>16. Filled(R, (a + 1) + d[n] + 1, rows, row, f[n])
    BY <1>2, <1>6, <1>7, <2>1, <2>2, <2>12, <2>14, <2>15, QuotedCell
  <2>17. a + Len(csvCell(cell)) = (a + 1) + d[n] + 1
    <3>1. a + (1 + m + 1) = (a + 1) + m + 1  OBVIOUS
    <3> QED  BY <2>13, <3>1
  <2> QED  BY <1>2, <1>5, <1>6, <2>16, <2>17, Zenon
<1>9. CASE ~ Has(g, {Quote, Comma, CR, LF})
  <2>1. csvCell(cell) = g  BY <1>1, <1>9, Zenon DEF csvCell
  <2>2. \A j \in 1 .. Len(g) : g[j] \notin {Quote, Comma, CR, LF}
    BY <1>2, <1>3, <1>9, Zenon DEF Has
  <2>3. \A j \in 1 .. Len(g) : g[j] \in kept /\ g[j] \notin {Quote, Comma, CR, LF}  BY <1>7, <2>2
  <2>4. There(csv, a, g)  BY <2>1
  <2>5. Filled(R, a + Len(g), rows, row, f[Len(g)])
    BY <1>6, <2>3, <2>4, PlainCell
  <2> QED  BY <1>5, <1>6, <2>1, <2>5, Zenon
<1> QED  BY <1>8, <1>9

-----------------------------------------------------------------------------
(* The spreadsheet: its lines.                                                *)

\* Two cells in a row.
LEMMA TwoInARow ==
  ASSUME NEW x, NEW y
  PROVE  Append(<<x>>, y) = <<x, y>>
<1>1. PICK S : x \in S /\ y \in S
  <2>1. x \in {x, y} /\ y \in {x, y}  OBVIOUS
  <2> QED  BY <2>1
<1>2. PICK s \in Seq(S) : s = <<x>> /\ Len(s) = 1 /\ s[1] = x
  <2>1. <<x>> \in Seq(S) /\ Len(<<x>>) = 1 /\ <<x>>[1] = x  BY <1>1
  <2> QED  BY <2>1
<1>3. PICK t \in Seq(S) : t = <<x, y>> /\ Len(t) = 2 /\ t[1] = x /\ t[2] = y
  <2>1. <<x, y>> \in Seq(S) /\ Len(<<x, y>>) = 2 /\ <<x, y>>[1] = x /\ <<x, y>>[2] = y  BY <1>1
  <2> QED  BY <2>1
<1>4. y \in S  BY <1>1
<1>5. PICK r \in Seq(S) : r = Append(s, y) /\ Len(r) = 2 /\ r[1] = s[1] /\ r[2] = y
  <2>1. /\ Append(s, y) \in Seq(S) /\ Len(Append(s, y)) = Len(s) + 1
        /\ \A i \in 1 .. Len(s) : Append(s, y)[i] = s[i]
        /\ Append(s, y)[Len(s) + 1] = y
    BY <1>4, AppendProperties
  <2>2. 1 \in 1 .. Len(s) /\ Len(s) + 1 = 2  BY <1>2
  <2> QED  BY <2>1, <2>2
<1>6. \A i \in 1 .. Len(r) : r[i] = t[i]  BY <1>2, <1>3, <1>5
<1>7. r = t  BY <1>3, <1>5, <1>6, SeqEqual
<1> QED  BY <1>2, <1>3, <1>5, <1>7

\* A comma ends the cell that was read,
LEMMA CommaRead ==
  ASSUME NEW csv \in Seq(Chars), NEW R, Reads(csv, R), NEW b \in Nat, b + 1 <= Len(csv), NEW rows, NEW row, NEW cell,
         Filled(R, b, rows, row, cell), csv[b + 1] = Comma
  PROVE  AtStart(R, b + 1, rows, Append(row, cell))
<1>1. PICK start : R[b] = Hand(rows, row, cell, FALSE, start, FALSE)  BY Zenon DEF Filled
<1>2. R[b + 1] = ReadChar(csv, R[b], b + 1)
  <2>1. b + 1 \in 1 .. Len(csv) /\ (b + 1) - 1 = b  OBVIOUS
  <2> QED  BY <2>1 DEF Reads
<1>3. Makes(csv, b + 1, Hand(rows, row, cell, FALSE, start, FALSE), Hand(rows, Append(row, cell), <<>>, FALSE, TRUE, FALSE))
  BY CommaEnds, Zenon
<1> QED  BY <1>1, <1>2, <1>3, Zenon DEF Makes, AtStart

\* the carriage return at the end of a line changes nothing,
LEMMA ReturnRead ==
  ASSUME NEW csv \in Seq(Chars), NEW R, Reads(csv, R), NEW b \in Nat, b + 1 <= Len(csv), NEW rows, NEW row, NEW cell,
         Filled(R, b, rows, row, cell), csv[b + 1] = CR
  PROVE  Filled(R, b + 1, rows, row, cell)
<1>1. PICK start : R[b] = Hand(rows, row, cell, FALSE, start, FALSE)  BY Zenon DEF Filled
<1>2. R[b + 1] = ReadChar(csv, R[b], b + 1)
  <2>1. b + 1 \in 1 .. Len(csv) /\ (b + 1) - 1 = b  OBVIOUS
  <2> QED  BY <2>1 DEF Reads
<1>3. Makes(csv, b + 1, Hand(rows, row, cell, FALSE, start, FALSE), Hand(rows, row, cell, FALSE, start, FALSE))
  BY ReturnSkipped, Zenon
<1> QED  BY <1>1, <1>2, <1>3, Zenon DEF Makes, Filled

\* and the line feed files the row.
LEMMA LineRead ==
  ASSUME NEW csv \in Seq(Chars), NEW R, Reads(csv, R), NEW b \in Nat, b + 1 <= Len(csv), NEW rows, NEW row, NEW cell,
         Filled(R, b, rows, row, cell), csv[b + 1] = LF
  PROVE  AtStart(R, b + 1, Append(rows, Append(row, cell)), <<>>)
<1>1. PICK start : R[b] = Hand(rows, row, cell, FALSE, start, FALSE)  BY Zenon DEF Filled
<1>2. R[b + 1] = ReadChar(csv, R[b], b + 1)
  <2>1. b + 1 \in 1 .. Len(csv) /\ (b + 1) - 1 = b  OBVIOUS
  <2> QED  BY <2>1 DEF Reads
<1>3. Makes(csv, b + 1, Hand(rows, row, cell, FALSE, start, FALSE),
            Hand(Append(rows, Append(row, cell)), <<>>, <<>>, FALSE, TRUE, FALSE))
  BY LineEnds, Zenon
<1> QED  BY <1>1, <1>2, <1>3, Zenon DEF Makes, AtStart

TwoCells(row) == csvCell(row.name) \o <<Comma>> \o csvCell(row.email)

ReadRow(row) == <<Carried(row.name), Carried(row.email)>>

People == [name : Seq(Chars), email : Seq(Chars)]

\* A line and its cells are texts.
LEMMA LineTypes ==
  ASSUME NEW row \in People
  PROVE  /\ <<Comma>> \in Seq(Chars) /\ Len(<<Comma>>) = 1 /\ <<Comma>>[1] = Comma
         /\ CRLF \in Seq(Chars) /\ Len(CRLF) = 2 /\ CRLF[1] = CR /\ CRLF[2] = LF
         /\ csvCell(row.name) \in Seq(Chars) /\ csvCell(row.email) \in Seq(Chars)
         /\ csvCell(row.name) \o <<Comma>> \in Seq(Chars)
         /\ Len(csvCell(row.name) \o <<Comma>>) = Len(csvCell(row.name)) + 1
         /\ TwoCells(row) \in Seq(Chars)
         /\ Len(TwoCells(row)) = (Len(csvCell(row.name)) + 1) + Len(csvCell(row.email))
<1>1. row.name \in Seq(Chars) /\ row.email \in Seq(Chars)  BY DEF People
<1>2. Comma \in Chars /\ CR \in Chars /\ LF \in Chars  BY Zenon DEF Chars
<1>3. <<Comma>> \in Seq(Chars) /\ Len(<<Comma>>) = 1 /\ <<Comma>>[1] = Comma  BY <1>2
<1>4. CRLF \in Seq(Chars) /\ Len(CRLF) = 2 /\ CRLF[1] = CR /\ CRLF[2] = LF  BY <1>2 DEF CRLF
<1>5. csvCell(row.name) \in Seq(Chars) /\ csvCell(row.email) \in Seq(Chars)  BY <1>1, CellTypes
<1>6. PICK u \in Seq(Chars), v \in Seq(Chars), c \in Seq(Chars) :
         u = csvCell(row.name) /\ v = csvCell(row.email) /\ c = <<Comma>> /\ Len(c) = 1
  BY <1>3, <1>5
<1>7. PICK w \in Seq(Chars) : w = u \o c /\ Len(w) = Len(u) + 1
  <2>1. u \o c \in Seq(Chars) /\ Len(u \o c) = Len(u) + Len(c)  BY ConcatProperties
  <2> QED  BY <1>6, <2>1
<1>8. PICK x \in Seq(Chars) : x = w \o v /\ Len(x) = (Len(u) + 1) + Len(v)
  <2>1. w \o v \in Seq(Chars) /\ Len(w \o v) = Len(w) + Len(v)  BY ConcatProperties
  <2> QED  BY <1>7, <2>1
<1>9. csvCell(row.name) \o <<Comma>> = w /\ TwoCells(row) = x  BY <1>6, <1>7, <1>8, Zenon DEF TwoCells
<1> QED  BY <1>3, <1>4, <1>5, <1>6, <1>7, <1>8, <1>9

\* The two cells of a line come back.
LEMMA CellsAreRead ==
  ASSUME NEW csv \in Seq(Chars), NEW R, Reads(csv, R), NEW a \in Nat, NEW row \in People, NEW rows,
         There(csv, a, TwoCells(row)),
         a + Len(TwoCells(row)) < Len(csv) => csv[a + Len(TwoCells(row)) + 1] # Quote,
         AtStart(R, a, rows, <<>>)
  PROVE  Filled(R, a + Len(TwoCells(row)), rows, <<Carried(row.name)>>, Carried(row.email))
<1>1. PICK u \in Seq(Chars), v \in Seq(Chars), c \in Seq(Chars), w \in Seq(Chars) :
         /\ u = csvCell(row.name) /\ v = csvCell(row.email) /\ c = <<Comma>> /\ Len(c) = 1 /\ c[1] = Comma
         /\ w = u \o c /\ Len(w) = Len(u) + 1 /\ TwoCells(row) = w \o v
         /\ Len(TwoCells(row)) = (Len(u) + 1) + Len(v)
  BY LineTypes, Zenon DEF TwoCells
<1>2. Len(u) \in Nat /\ Len(v) \in Nat /\ Len(csv) \in Nat  OBVIOUS
<1>3. row.name \in Seq(Chars) /\ row.email \in Seq(Chars)  BY DEF People
<1>4. There(csv, a, w) /\ There(csv, a + Len(w), v)
  <2>1. There(csv, a, w \o v)  BY <1>1
  <2> QED  BY <2>1, ThereInTwo
<1>5. There(csv, a, u) /\ There(csv, a + Len(u), c)  BY <1>1, <1>4, ThereInTwo
<1>6. PICK b \in Nat : b = a + Len(u)  BY <1>2
<1>7. b + 1 = a + Len(w) /\ b + 1 \in Nat /\ b + 1 <= Len(csv) /\ csv[b + 1] = Comma
  <2>1. b + 1 <= Len(csv) /\ csv[b + 1] = c[1]  BY <1>1, <1>2, <1>5, <1>6 DEF There
  <2> QED  BY <1>1, <1>2, <1>6, <2>1
<1>8. Filled(R, b, rows, <<>>, Carried(row.name))
  <2>1. csv[a + Len(u) + 1] # Quote  BY <1>6, <1>7 DEF Comma, Quote
  <2>2. Filled(R, a + Len(csvCell(row.name)), rows, <<>>, Carried(row.name))
    BY <1>1, <1>3, <1>5, <2>1, CellIsCarried
  <2> QED  BY <1>1, <1>6, <2>2
<1>9. AtStart(R, b + 1, rows, <<Carried(row.name)>>)
  <2>1. AtStart(R, b + 1, rows, Append(<<>>, Carried(row.name)))  BY <1>7, <1>8, CommaRead
  <2>2. Append(<<>>, Carried(row.name)) = <<Carried(row.name)>>  OBVIOUS
  <2> QED  BY <2>1, <2>2
<1>10. There(csv, b + 1, v)  BY <1>4, <1>7
<1>11. (b + 1) + Len(v) = a + Len(TwoCells(row))  BY <1>1, <1>2, <1>6
<1>12. (b + 1) + Len(v) < Len(csv) => csv[(b + 1) + Len(v) + 1] # Quote  BY <1>11
<1>13. Filled(R, (b + 1) + Len(csvCell(row.email)), rows, <<Carried(row.name)>>, Carried(row.email))
  BY <1>1, <1>3, <1>7, <1>9, <1>10, <1>12, CellIsCarried
<1> QED  BY <1>1, <1>11, <1>13

\* A line comes back as a row.
LEMMA LineIsRead ==
  ASSUME NEW csv \in Seq(Chars), NEW R, Reads(csv, R), NEW a \in Nat, NEW row \in People, NEW rows,
         There(csv, a, TwoCells(row) \o CRLF), AtStart(R, a, rows, <<>>)
  PROVE  AtStart(R, a + Len(TwoCells(row) \o CRLF), Append(rows, ReadRow(row)), <<>>)
<1>1. PICK u \in Seq(Chars), e \in Seq(Chars) : u = TwoCells(row) /\ e = CRLF /\ Len(e) = 2 /\ e[1] = CR /\ e[2] = LF
  BY LineTypes
<1>2. Len(u \o e) = Len(u) + 2 /\ Len(u) \in Nat /\ Len(csv) \in Nat
  <2>1. Len(u \o e) = Len(u) + Len(e)  BY ConcatProperties
  <2> QED  BY <1>1, <2>1
<1>3. There(csv, a, u) /\ There(csv, a + Len(u), e)  BY <1>1, ThereInTwo
<1>4. PICK b \in Nat : b = a + Len(u)  BY <1>2
<1>5. b + 1 <= Len(csv) /\ csv[b + 1] = CR /\ b + 1 \in Nat /\ (b + 1) + 1 <= Len(csv) /\ csv[(b + 1) + 1] = LF
  <2>1. b + 2 <= Len(csv) /\ csv[b + 1] = e[1] /\ csv[b + 2] = e[2]  BY <1>1, <1>2, <1>3, <1>4 DEF There
  <2>2. (b + 1) + 1 = b + 2  OBVIOUS
  <2> QED  BY <1>1, <1>2, <2>1, <2>2
<1>6. Filled(R, b, rows, <<Carried(row.name)>>, Carried(row.email))
  <2>1. csv[a + Len(u) + 1] # Quote  BY <1>4, <1>5 DEF CR, Quote
  <2>2. Filled(R, a + Len(TwoCells(row)), rows, <<Carried(row.name)>>, Carried(row.email))
    BY <1>1, <1>3, <2>1, CellsAreRead
  <2> QED  BY <1>1, <1>4, <2>2
<1>7. Filled(R, b + 1, rows, <<Carried(row.name)>>, Carried(row.email))  BY <1>5, <1>6, ReturnRead
<1>8. AtStart(R, (b + 1) + 1, Append(rows, Append(<<Carried(row.name)>>, Carried(row.email))), <<>>)
  BY <1>5, <1>7, LineRead
<1>9. Append(<<Carried(row.name)>>, Carried(row.email)) = ReadRow(row)  BY TwoInARow, Zenon DEF ReadRow
<1>10. a + Len(u \o e) = (b + 1) + 1  BY <1>2, <1>4
<1> QED  BY <1>1, <1>8, <1>9, <1>10

-----------------------------------------------------------------------------
(* The spreadsheet: all of it.                                                *)

\* A text that no trimming changes.
Inked(cell) == cell # <<>> => cell[1] \notin Blanks /\ cell[Len(cell)] \notin Blanks

\* A cell with ink at both ends has it there when it is guarded,
LEMMA GuardedInk ==
  ASSUME NEW cell \in Seq(Chars), cell # <<>>, Inked(cell)
  PROVE  /\ guardedText(cell) \in Seq(Chars) /\ guardedText(cell) # <<>> /\ Len(guardedText(cell)) # 0
         /\ guardedText(cell)[1] \notin Blanks
         /\ guardedText(cell)[Len(guardedText(cell))] \notin Blanks
<1>1. Len(cell) \in Nat /\ Len(cell) # 0 /\ cell[1] \notin Blanks /\ cell[Len(cell)] \notin Blanks  BY DEF Inked
<1>2. CASE guardedText(cell) = cell  BY <1>1, <1>2
<1>3. CASE guardedText(cell) = <<Apostrophe>> \o cell
  <2>1. PICK a \in Seq(Chars) : a = <<Apostrophe>> /\ Len(a) = 1 /\ a[1] = Apostrophe
    <3>1. Apostrophe \in Chars  BY Zenon DEF Chars
    <3>2. <<Apostrophe>> \in Seq(Chars) /\ Len(<<Apostrophe>>) = 1 /\ <<Apostrophe>>[1] = Apostrophe  BY <3>1
    <3> QED  BY <3>2
  <2>2. /\ a \o cell \in Seq(Chars) /\ Len(a \o cell) = Len(a) + Len(cell)
        /\ \A i \in 1 .. Len(a) + Len(cell) : (a \o cell)[i] = IF i <= Len(a) THEN a[i] ELSE cell[i - Len(a)]
    BY ConcatProperties
  <2>3. PICK w \in Seq(Chars) : /\ w = a \o cell /\ Len(w) = 1 + Len(cell)
                                /\ \A i \in 1 .. 1 + Len(cell) : w[i] = IF i <= 1 THEN a[i] ELSE cell[i - 1]
    BY <2>1, <2>2
  <2>4. 1 \in 1 .. 1 + Len(cell) /\ 1 + Len(cell) \in 1 .. 1 + Len(cell) /\ ~ (1 + Len(cell) <= 1)
        /\ (1 + Len(cell)) - 1 = Len(cell)
    BY <1>1
  <2>5. w[1] = Apostrophe /\ w[Len(w)] = cell[Len(cell)] /\ Len(w) # 0  BY <1>1, <2>1, <2>3, <2>4
  <2>6. Apostrophe \notin Blanks  BY DEF Apostrophe, Blanks, CR, LF, Tab
  <2>7. guardedText(cell) = w  BY <1>3, <2>1, <2>3
  <2>8. w # <<>>  BY <2>5
  <2> QED  BY <1>1, <2>5, <2>6, <2>7, <2>8
<1> QED  BY <1>2, <1>3 DEF guardedText

\* and when it is carried.
LEMMA CarriedInk ==
  ASSUME NEW cell \in Seq(Chars), Inked(cell)
  PROVE  /\ Carried(cell) \in Seq(Chars) /\ Trim(Carried(cell)) = Carried(cell)
         /\ cell # <<>> => Carried(cell) # <<>>
<1>1. CASE cell = <<>>
  <2>1. guardedText(cell) = <<>>  BY <1>1 DEF guardedText
  <2>2. PICK e \in Seq(Chars) : e = <<>> /\ Len(e) = 0
    <3>1. <<>> \in Seq(Chars) /\ Len(<<>>) = 0  OBVIOUS
    <3> QED  BY <3>1
  <2>3. Only(e, Range(e) \ {CR}) = e
    <3>1. \A i \in 1 .. Len(e) : e[i] \in Range(e) \ {CR}  BY <2>2
    <3> QED  BY <3>1, AllKept
  <2>4. Carried(cell) = e  BY <2>1, <2>2, <2>3, Zenon DEF Carried
  <2>5. Trim(e) = e
    <3>1. {i \in DOMAIN e : e[i] \notin Blanks} = {}  BY <2>2
    <3>2. Trim(e) = <<>>  BY <3>1, Zenon DEF Trim
    <3> QED  BY <2>2, <3>2
  <2> QED  BY <1>1, <2>4, <2>5
<1>2. CASE cell # <<>>
  <2>1. PICK g \in Seq(Chars) : /\ g = guardedText(cell) /\ g # <<>> /\ Len(g) # 0
                               /\ g[1] \notin Blanks /\ g[Len(g)] \notin Blanks
    BY <1>2, GuardedInk
  <2>2. PICK kept : kept = Range(g) \ {CR}  OBVIOUS
  <2>3. Carried(cell) = Only(g, kept)  BY <2>1, <2>2, Zenon DEF Carried
  <2>4. g[1] \in kept /\ g[Len(g)] \in kept
    <3>1. CR \in Blanks  BY DEF Blanks
    <3>2. 1 \in DOMAIN g /\ Len(g) \in DOMAIN g  BY <2>1
    <3>3. g[1] \in Range(g) /\ g[Len(g)] \in Range(g)  BY <3>2 DEF Range
    <3> QED  BY <2>1, <2>2, <3>1, <3>3
  <2>5. PICK o \in Seq(Chars) : o = Only(g, kept) /\ o # <<>> /\ o[1] = g[1] /\ o[Len(o)] = g[Len(g)]
    BY <2>1, <2>4, EndsKept
  <2>6. Trim(o) = o  BY <2>1, <2>5, TrimmedText
  <2> QED  BY <2>3, <2>5, <2>6
<1> QED  BY <1>1, <1>2

\* A written cell has ink at both ends, if it has anything.
LEMMA WrittenInk ==
  ASSUME NEW cell \in Seq(Chars), Inked(cell)
  PROVE  /\ csvCell(cell) \in Seq(Chars)
         /\ cell = <<>> => csvCell(cell) = <<>>
         /\ cell # <<>> => /\ Len(csvCell(cell)) # 0 /\ csvCell(cell)[1] \notin Blanks
                           /\ csvCell(cell)[Len(csvCell(cell))] \notin Blanks
<1>0. csvCell(cell) \in Seq(Chars)  BY CellTypes
<1>1. CASE cell = <<>>
  <2>1. guardedText(cell) = <<>>  BY <1>1 DEF guardedText
  <2>2. ~ Has(<<>>, {Quote, Comma, CR, LF})  BY DEF Has
  <2>3. csvCell(cell) = <<>>  BY <2>1, <2>2, Zenon DEF csvCell
  <2> QED  BY <1>0, <1>1, <2>3
<1>2. CASE cell # <<>>
  <2>1. PICK g \in Seq(Chars) : /\ g = guardedText(cell) /\ g # <<>> /\ Len(g) # 0
                               /\ g[1] \notin Blanks /\ g[Len(g)] \notin Blanks
    BY <1>2, GuardedInk
  <2>2. CASE csvCell(cell) = g  BY <1>0, <1>2, <2>1, <2>2
  <2>3. CASE csvCell(cell) = <<Quote>> \o Doubled(g) \o <<Quote>>
    <3>1. PICK c \in Seq(Chars) : c = <<Quote>> /\ Len(c) = 1 /\ c[1] = Quote
      <4>1. Quote \in Chars  BY Zenon DEF Chars
      <4>2. <<Quote>> \in Seq(Chars) /\ Len(<<Quote>>) = 1 /\ <<Quote>>[1] = Quote  BY <4>1
      <4> QED  BY <4>2
    <3>2. PICK D \in Seq(Chars) : D = Doubled(g)  BY <2>1, CellTypes
    <3>3. PICK w \in Seq(Chars) : w = c \o D /\ Len(w) = 1 + Len(D) /\ w[1] = Quote
      <4>1. /\ c \o D \in Seq(Chars) /\ Len(c \o D) = Len(c) + Len(D)
            /\ \A i \in 1 .. Len(c) + Len(D) : (c \o D)[i] = IF i <= Len(c) THEN c[i] ELSE D[i - Len(c)]
        BY ConcatProperties
      <4>2. 1 \in 1 .. Len(c) + Len(D) /\ 1 <= Len(c)  BY <3>1
      <4>3. (c \o D)[1] = Quote  BY <3>1, <4>1, <4>2
      <4> QED  BY <3>1, <4>1, <4>3
    <3>4. PICK x \in Seq(Chars) : x = w \o c /\ Len(x) = Len(w) + 1 /\ x[1] = w[1] /\ x[Len(w) + 1] = Quote
      <4>1. /\ w \o c \in Seq(Chars) /\ Len(w \o c) = Len(w) + Len(c)
            /\ \A i \in 1 .. Len(w) + Len(c) : (w \o c)[i] = IF i <= Len(w) THEN w[i] ELSE c[i - Len(w)]
        BY ConcatProperties
      <4>2. Len(w) \in Nat /\ Len(D) \in Nat /\ 1 \in 1 .. Len(w) + Len(c) /\ 1 <= Len(w)
            /\ Len(w) + 1 \in 1 .. Len(w) + Len(c) /\ ~ (Len(w) + 1 <= Len(w)) /\ (Len(w) + 1) - Len(w) = 1
        BY <3>1, <3>3
      <4>3. (w \o c)[1] = w[1] /\ (w \o c)[Len(w) + 1] = Quote  BY <3>1, <4>1, <4>2
      <4> QED  BY <3>1, <4>1, <4>3
    <3>5. csvCell(cell) = x  BY <2>3, <3>1, <3>2, <3>3, <3>4, Zenon
    <3>6. Quote \notin Blanks  BY DEF Quote, Blanks, CR, LF, Tab
    <3>7. Len(x) # 0  BY <3>4
    <3> QED  BY <1>0, <1>2, <3>3, <3>4, <3>5, <3>6, <3>7
  <2> QED  BY <2>1, <2>2, <2>3, Zenon DEF csvCell
<1> QED  BY <1>1, <1>2

\* A client as the practice keeps it: trimmed, and named.
Kept(row) == row \in People /\ row.name # <<>> /\ Inked(row.name) /\ Inked(row.email)

\* A line has ink at both ends: it begins with a name.
LEMMA LineInk ==
  ASSUME NEW row, Kept(row)
  PROVE  /\ TwoCells(row) \in Seq(Chars) /\ Len(TwoCells(row)) # 0
         /\ TwoCells(row)[1] \notin Blanks /\ TwoCells(row)[Len(TwoCells(row))] \notin Blanks
<1>0. row \in People /\ row.name \in Seq(Chars) /\ row.email \in Seq(Chars) /\ row.name # <<>>
      /\ Inked(row.name) /\ Inked(row.email)
  BY DEF Kept, People
<1>1. PICK u \in Seq(Chars), v \in Seq(Chars), c \in Seq(Chars), w \in Seq(Chars) :
         /\ u = csvCell(row.name) /\ v = csvCell(row.email) /\ c = <<Comma>> /\ Len(c) = 1 /\ c[1] = Comma
         /\ w = u \o c /\ Len(w) = Len(u) + 1 /\ TwoCells(row) = w \o v
         /\ Len(TwoCells(row)) = (Len(u) + 1) + Len(v)
  BY <1>0, LineTypes, Zenon DEF TwoCells
<1>2. Len(u) \in Nat /\ Len(v) \in Nat /\ Len(u) # 0 /\ u[1] \notin Blanks
  BY <1>0, <1>1, WrittenInk
<1>3. \A i \in 1 .. Len(u) + 1 : w[i] = IF i <= Len(u) THEN u[i] ELSE c[i - Len(u)]
  <2>1. \A i \in 1 .. Len(u) + Len(c) : (u \o c)[i] = IF i <= Len(u) THEN u[i] ELSE c[i - Len(u)]
    BY ConcatProperties
  <2> QED  BY <1>1, <2>1
<1>4. w[1] = u[1] /\ w[Len(w)] = Comma
  <2>1. 1 \in 1 .. Len(u) + 1 /\ 1 <= Len(u) /\ Len(u) + 1 \in 1 .. Len(u) + 1 /\ ~ (Len(u) + 1 <= Len(u))
        /\ (Len(u) + 1) - Len(u) = 1
    BY <1>2
  <2> QED  BY <1>1, <1>3, <2>1
<1>5. PICK x \in Seq(Chars) : /\ x = w \o v /\ Len(x) = Len(w) + Len(v)
                              /\ \A i \in 1 .. Len(w) + Len(v) : x[i] = IF i <= Len(w) THEN w[i] ELSE v[i - Len(w)]
  <2>1. /\ w \o v \in Seq(Chars) /\ Len(w \o v) = Len(w) + Len(v)
        /\ \A i \in 1 .. Len(w) + Len(v) : (w \o v)[i] = IF i <= Len(w) THEN w[i] ELSE v[i - Len(w)]
    BY ConcatProperties
  <2> QED  BY <2>1
<1>6. x[1] = u[1] /\ Len(x) # 0
  <2>1. 1 \in 1 .. Len(w) + Len(v) /\ 1 <= Len(w)  BY <1>1, <1>2
  <2> QED  BY <1>4, <1>5, <2>1
<1>7. x[Len(x)] \notin Blanks
  <2>1. Comma \notin Blanks  BY DEF Comma, Blanks, CR, LF, Tab
  <2>2. CASE row.email = <<>>
    <3>0. v = <<>>  BY <1>0, <1>1, <2>2, WrittenInk
    <3>1. Len(v) = 0  BY <3>0
    <3>2. Len(x) = Len(w) /\ Len(w) \in 1 .. Len(w) + Len(v) /\ Len(w) <= Len(w)  BY <1>1, <1>2, <1>5, <3>1
    <3>3. x[Len(w)] = w[Len(w)]  BY <1>5, <3>2
    <3> QED  BY <1>4, <2>1, <3>2, <3>3
  <2>3. CASE row.email # <<>>
    <3>1. Len(v) # 0 /\ v[Len(v)] \notin Blanks  BY <1>0, <1>1, <2>3, WrittenInk
    <3>2. PICK i \in 1 .. Len(w) + Len(v) : i = Len(x) /\ ~ (i <= Len(w)) /\ i - Len(w) = Len(v)
      <4>0. PICK a \in Nat, b \in Nat : a = Len(w) /\ b = Len(v)  OBVIOUS
      <4>3. Len(x) = Len(w) + Len(v)  BY <1>5, Zenon
      <4>1. b # 0 /\ Len(x) = a + b  BY <3>1, <4>0, <4>3
      <4>2. a + b \in 1 .. a + b /\ ~ (a + b <= a) /\ (a + b) - a = b  BY <4>1
      <4> QED  BY <4>0, <4>1, <4>2
    <3>3. x[i] = v[i - Len(w)]  BY <1>5, <3>2
    <3> QED  BY <3>1, <3>2, <3>3
  <2> QED  BY <2>2, <2>3
<1> QED  BY <1>1, <1>2, <1>5, <1>6, <1>7

\* What parseCsv makes of what it has in hand at the end.
Whole(last) == IF last.cell # <<>> \/ last.row # <<>> THEN EndRow(last).rows ELSE last.rows

Meant(all) == Only(all, {row \in Range(all) : \E i \in DOMAIN row : Trim(row[i]) # <<>>})

\* What parseCsv makes of a text, one character after the other.
LEMMA ParsedInTurn ==
  ASSUME NEW csv \in Seq(Chars)
  PROVE  \E R : Reads(csv, R) /\ parseCsv(csv) = Meant(Whole(R[Len(csv)]))
<1>0. PICK n \in Nat : n = Len(csv)  OBVIOUS
<1>1. \E f : f = [i \in 0 .. Len(csv) |-> IF i = 0 THEN Unread ELSE ReadChar(csv, f[i - 1], i)]
  <2>1. PICK U : U = {m \in Nat : \E f : f = [i \in 0 .. m |-> IF i = 0 THEN Unread ELSE ReadChar(csv, f[i - 1], i)]}
    OBVIOUS
  <2>2. 0 \in U
    <3>1. PICK f : f = [i \in 0 .. 0 |-> Unread]  OBVIOUS
    <3>2. f = [i \in 0 .. 0 |-> IF i = 0 THEN Unread ELSE ReadChar(csv, f[i - 1], i)]  BY <3>1
    <3> QED  BY <2>1, <3>2, Zenon
  <2>3. ASSUME NEW m \in Nat, m \in U PROVE m + 1 \in U
    <3>1. PICK f : f = [i \in 0 .. m |-> IF i = 0 THEN Unread ELSE ReadChar(csv, f[i - 1], i)]  BY <2>1, <2>3, Zenon
    <3>2. PICK g : g = [i \in 0 .. m + 1 |-> IF i \in 0 .. m THEN f[i] ELSE ReadChar(csv, f[i - 1], i)]  OBVIOUS
    <3>3. ASSUME NEW i \in 0 .. m + 1 PROVE g[i] = IF i = 0 THEN Unread ELSE ReadChar(csv, g[i - 1], i)
      <4>1. i # 0 => i - 1 \in 0 .. m /\ i - 1 \in 0 .. m + 1  OBVIOUS
      <4>2. i \in 0 .. m => f[i] = IF i = 0 THEN Unread ELSE ReadChar(csv, f[i - 1], i)  BY <3>1
      <4>3. i # 0 => g[i - 1] = f[i - 1]  BY <3>2, <4>1
      <4>4. i \in 0 .. m => g[i] = f[i]  BY <3>2
      <4>5. ~ (i \in 0 .. m) => i # 0 /\ g[i] = ReadChar(csv, f[i - 1], i)  BY <3>2
      <4> QED  BY <4>2, <4>3, <4>4, <4>5
    <3>4. g = [i \in 0 .. m + 1 |-> IF i = 0 THEN Unread ELSE ReadChar(csv, g[i - 1], i)]  BY <3>2, <3>3
    <3>5. m + 1 \in Nat  OBVIOUS
    <3> QED  BY <2>1, <3>4, <3>5, Zenon
  <2>4. n \in U  BY <2>2, <2>3, OneByOne
  <2> QED  BY <1>0, <2>1, <2>4, Zenon
<1>2. PICK R : R = CHOOSE f : f = [i \in 0 .. Len(csv) |-> IF i = 0 THEN Unread ELSE ReadChar(csv, f[i - 1], i)]
  OBVIOUS
<1>3. parseCsv(csv) = Meant(Whole(R[Len(csv)]))
  <2>1. parseCsv(csv) = Meant(Whole(
           (CHOOSE f : f = [i \in 0 .. Len(csv) |-> IF i = 0 THEN Unread ELSE ReadChar(csv, f[i - 1], i)])[Len(csv)]))
    BY Zenon DEF parseCsv, Meant, Whole
  <2> QED  BY <1>2, <2>1, Zenon
<1>4. R = [i \in 0 .. Len(csv) |-> IF i = 0 THEN Unread ELSE ReadChar(csv, R[i - 1], i)]  BY <1>1, <1>2, Zenon
<1>5. Reads(csv, R)
  <2>1. R[0] = Unread  BY <1>0, <1>4
  <2>2. ASSUME NEW i \in 1 .. Len(csv) PROVE R[i] = ReadChar(csv, R[i - 1], i)
    <3>1. i \in 0 .. Len(csv) /\ i # 0  BY <1>0
    <3> QED  BY <1>4, <3>1
  <2> QED  BY <2>1, <2>2 DEF Reads
<1> QED  BY <1>3, <1>5

\* A single heading is carried as it is.
LEMMA HeadingCarried ==
  ASSUME NEW x \in Chars, x \notin Formula
  PROVE  Carried(<<x>>) = <<x>>
<1>1. PICK c \in Seq(Chars) : c = <<x>> /\ Len(c) = 1 /\ c[1] = x
  <2>1. <<x>> \in Seq(Chars) /\ Len(<<x>>) = 1 /\ <<x>>[1] = x  OBVIOUS
  <2> QED  BY <2>1
<1>2. guardedText(c) = c  BY <1>1 DEF guardedText
<1>3. \A i \in 1 .. Len(c) : c[i] \in Range(c) \ {CR}
  <2>1. 1 \in DOMAIN c  BY <1>1
  <2>2. x \in Range(c)  BY <1>1, <2>1 DEF Range
  <2>3. x # CR  BY DEF Formula
  <2> QED  BY <1>1, <2>2, <2>3
<1>4. Only(c, Range(c) \ {CR}) = c  BY <1>3, AllKept
<1>5. Carried(c) = c  BY <1>2, <1>4, Zenon DEF Carried
<1> QED  BY <1>1, <1>5

\* The headings are cells like any others.
LEMMA HeadingsKept ==
  /\ Kept(Headings) /\ Headings.name = <<"Client">> /\ Headings.email = <<"Email address">>
  /\ Carried(Headings.name) = Headings.name /\ Carried(Headings.email) = Headings.email
  /\ Headings.name # Headings.email
<1>1. "Client" \in Chars /\ "Email address" \in Chars  BY Zenon DEF Chars
<1>2. PICK x \in Chars, y \in Chars : x = "Client" /\ y = "Email address"  BY <1>1
<1>3. x \notin Blanks /\ y \notin Blanks /\ x \notin Formula /\ y \notin Formula /\ x # y
  BY <1>2 DEF Blanks, Formula, CR, LF, Tab
<1>4. PICK c \in Seq(Chars), d \in Seq(Chars) : /\ c = <<x>> /\ Len(c) = 1 /\ c[1] = x
                                                /\ d = <<y>> /\ Len(d) = 1 /\ d[1] = y
  <2>1. /\ <<x>> \in Seq(Chars) /\ Len(<<x>>) = 1 /\ <<x>>[1] = x
        /\ <<y>> \in Seq(Chars) /\ Len(<<y>>) = 1 /\ <<y>>[1] = y
    OBVIOUS
  <2> QED  BY <2>1
<1>5. Headings = [name |-> c, email |-> d]  BY <1>2, <1>4, Zenon DEF Headings
<1>6. Headings.name = c /\ Headings.email = d /\ Headings \in People  BY <1>5 DEF People
<1>7. c # <<>> /\ Inked(c) /\ Inked(d) /\ c # d  BY <1>3, <1>4 DEF Inked
<1>8. Carried(c) = c /\ Carried(d) = d  BY <1>3, <1>4, HeadingCarried
<1> QED  BY <1>2, <1>4, <1>6, <1>7, <1>8 DEF Kept

\* The rows of a client list are kept so.
LEMMA RowsKept ==
  ASSUME NEW rows \in Books
  PROVE  /\ rows \in Seq(People) /\ \A i \in 1 .. Len(rows) : Kept(rows[i])
<1>1. rows \in Seq([name : Seq(STRING), email : Seq(STRING)])  BY BooksAssumption
<1>2. PICK n \in Nat : n = Len(rows) /\ DOMAIN rows = 1 .. n  BY <1>1
<1>3. ASSUME NEW i \in 1 .. n PROVE Kept(rows[i])
  <2>1. PICK row \in [name : Seq(STRING), email : Seq(STRING)] : row = rows[i]
    <3>1. PICK S : S = [name : Seq(STRING), email : Seq(STRING)]  OBVIOUS
    <3>2. rows \in Seq(S)  BY <1>1, <3>1
    <3>3. rows[i] \in S  BY <1>2, <3>2, ElementOfSeq
    <3> QED  BY <3>1, <3>3
  <2>2. row.name = Trim(row.name) /\ row.name # <<>> /\ row.email = Trim(row.email)
    BY <1>2, <2>1, BooksAssumption
  <2>3. STRING \subseteq Chars  BY Zenon DEF Chars
  <2>4. PICK a \in Seq(Chars), b \in Seq(Chars) : a = row.name /\ b = row.email
    <3>1. row.name \in Seq(STRING) /\ row.email \in Seq(STRING)  OBVIOUS
    <3>2. row.name \in Seq(Chars) /\ row.email \in Seq(Chars)  BY <2>3, <3>1, SeqMonotonic
    <3> QED  BY <3>2
  <2>5. Inked(a) /\ Inked(b)  BY <2>2, <2>4, TrimmedEnds DEF Inked
  <2>6. row = [name |-> a, email |-> b]  BY <2>4
  <2>7. row \in People  BY <2>6 DEF People
  <2> QED  BY <2>1, <2>2, <2>4, <2>5, <2>7 DEF Kept
<1>4. rows \in Seq(People)
  <2>1. \A i \in 1 .. Len(rows) : rows[i] \in People  BY <1>2, <1>3 DEF Kept
  <2>2. rows = [i \in 1 .. Len(rows) |-> rows[i]]  BY <1>1
  <2>3. rows \in [1 .. n -> People]  BY <1>2, <2>1, <2>2
  <2> QED  BY <2>3
<1> QED  BY <1>2, <1>3, <1>4

\* The rows that have been read when so many lines have.
Grid(all, k) == [i \in 1 .. k |-> ReadRow(all[i])]

\* One more row of the grid.
LEMMA GridGrows ==
  ASSUME NEW all, NEW k \in Nat
  PROVE  Append(Grid(all, k), ReadRow(all[k + 1])) = Grid(all, k + 1)
<1>1. PICK S : \A i \in 1 .. k + 1 : ReadRow(all[i]) \in S
  <2>1. PICK S : S = {ReadRow(all[i]) : i \in 1 .. k + 1}  OBVIOUS
  <2> QED  BY <2>1
<1>2. PICK g \in Seq(S) : g = Grid(all, k) /\ Len(g) = k /\ \A i \in 1 .. k : g[i] = ReadRow(all[i])
  <2>1. PICK g : g = [i \in 1 .. k |-> ReadRow(all[i])]  OBVIOUS
  <2>2. g \in [1 .. k -> S]  BY <1>1, <2>1
  <2>3. g \in Seq(S) /\ Len(g) = k  BY <2>2
  <2> QED  BY <2>1, <2>3 DEF Grid
<1>3. PICK h \in Seq(S) : h = Grid(all, k + 1) /\ Len(h) = k + 1 /\ \A i \in 1 .. k + 1 : h[i] = ReadRow(all[i])
  <2>1. PICK f : f = [i \in 1 .. k + 1 |-> ReadRow(all[i])]  OBVIOUS
  <2>2. f \in [1 .. k + 1 -> S]  BY <1>1, <2>1
  <2>3. f \in Seq(S) /\ Len(f) = k + 1  BY <2>2
  <2> QED  BY <2>1, <2>3 DEF Grid
<1>4. PICK x \in S : x = ReadRow(all[k + 1])  BY <1>1
<1>5. /\ Append(g, x) \in Seq(S) /\ Len(Append(g, x)) = k + 1
      /\ \A i \in 1 .. k : Append(g, x)[i] = g[i]
      /\ Append(g, x)[k + 1] = x
  BY <1>2, AppendProperties
<1>6. ASSUME NEW i \in 1 .. k + 1 PROVE Append(g, x)[i] = h[i]
  <2>1. CASE i \in 1 .. k  BY <1>2, <1>3, <1>5, <2>1
  <2>2. CASE i = k + 1  BY <1>3, <1>4, <1>5, <2>2
  <2>3. i \in 1 .. k \/ i = k + 1  OBVIOUS
  <2> QED  BY <2>1, <2>2, <2>3, Zenon
<1>7. Append(g, x) = h  BY <1>3, <1>5, <1>6, SeqEqual
<1> QED  BY <1>2, <1>3, <1>4, <1>7

\* Where a piece of the text is.
InPieces(S, n, q, off, t) == q \in [1 .. n -> Seq(S)] /\ Ends(q, n, off) /\ Beginning(q, off, n, S, t)

PieceAt(q, off, t, k) == There(t, off[k], q[k + 1]) /\ off[k] \in Nat /\ off[k + 1] = off[k] + Len(q[k + 1])

\* Each piece of a text of pieces is there.
LEMMA PieceIsThere ==
  ASSUME NEW S, NEW n \in Nat, NEW q, NEW off, NEW t, InPieces(S, n, q, off, t), NEW k \in 0 .. n - 1
  PROVE  PieceAt(q, off, t, k)
<1> USE DEF InPieces
<1>1. k + 1 \in 1 .. n /\ (k + 1) - 1 = k /\ k \in 0 .. n /\ k + 1 \in 0 .. n /\ n \in 0 .. n /\ k + 1 <= n  OBVIOUS
<1>2. off[k] \in Nat /\ off[k + 1] = off[k] + Len(q[k + 1]) /\ off[k + 1] <= off[n]
  <2>1. \A i \in 1 .. n : off[i - 1] \in Nat /\ off[i] = off[i - 1] + Len(q[i])  BY EndsGrow
  <2>2. \A i, j \in 0 .. n : i <= j => off[i] <= off[j]  BY EndsGrow
  <2>3. PICK i \in 1 .. n : i = k + 1 /\ i - 1 = k  BY <1>1
  <2>4. off[i - 1] \in Nat /\ off[i] = off[i - 1] + Len(q[i])  BY <2>1
  <2>5. off[k + 1] <= off[n]  BY <1>1, <2>2
  <2> QED  BY <2>3, <2>4, <2>5
<1>3. Len(t) = off[n] /\ \A j \in 1 .. Len(q[k + 1]) : t[off[k] + j] = q[k + 1][j]  BY <1>1 DEF Beginning
<1> QED  BY <1>2, <1>3 DEF There, PieceAt

\* Counting to the last character but two.
LEMMA BeforeTheEnd ==
  ASSUME NEW m \in Nat, m # 0
  PROVE  /\ m \in 1 .. m + 2 /\ 1 <= m /\ m - 1 + 1 = m
         /\ \A i \in 1 .. m : 1 + i - 1 = i
         /\ \A j \in m + 1 .. m + 2 : j = m + 1 \/ j = m + 2
OBVIOUS

\* Trimming takes the last line break away and nothing else, and every line comes back.
LEMMA SheetIsParsed ==
  ASSUME NEW n \in Nat, NEW all \in [1 .. n + 1 -> People], \A i \in 1 .. n + 1 : Kept(all[i])
  PROVE  parseCsv(Trim(FlattenSeq([i \in 1 .. n + 1 |-> TwoCells(all[i]) \o CRLF]))) = Grid(all, n + 1)
<1>1. PICK q \in [1 .. n + 1 -> Seq(Chars)] : q = [i \in 1 .. n + 1 |-> TwoCells(all[i]) \o CRLF]
  <2>1. ASSUME NEW i \in 1 .. n + 1 PROVE TwoCells(all[i]) \o CRLF \in Seq(Chars)
    <3>1. PICK u \in Seq(Chars), e \in Seq(Chars) : u = TwoCells(all[i]) /\ e = CRLF  BY LineTypes
    <3>2. u \o e \in Seq(Chars)  BY ConcatProperties
    <3> QED  BY <3>1, <3>2
  <2> QED  BY <2>1
<1>2. PICK off : Ends(q, n + 1, off) /\ Beginning(q, off, n + 1, Chars, FlattenSeq(q))
  <2>1. n + 1 \in Nat  OBVIOUS
  <2> QED  BY <2>1, PiecesAreThere
<1>3. PICK t \in Seq(Chars) : t = FlattenSeq(q) /\ Beginning(q, off, n + 1, Chars, t) /\ Len(t) = off[n + 1]
  BY <1>2 DEF Beginning
<1>4. ASSUME NEW k \in 0 .. n
      PROVE  There(t, off[k], q[k + 1]) /\ off[k] \in Nat /\ off[k + 1] = off[k] + Len(q[k + 1])
  <2>1. PICK l \in Nat : l = n + 1 /\ k \in 0 .. l - 1  OBVIOUS
  <2>2. InPieces(Chars, l, q, off, t)  BY <1>2, <1>3, <2>1 DEF InPieces
  <2>3. PieceAt(q, off, t, k)  BY <2>1, <2>2, PieceIsThere, Zenon
  <2> QED  BY <2>3 DEF PieceAt
<1>5. PICK u \in Seq(Chars), e \in Seq(Chars) :
         /\ u = TwoCells(all[n + 1]) /\ e = CRLF /\ q[n + 1] = u \o e
         /\ Len(e) = 2 /\ e[1] = CR /\ e[2] = LF /\ Len(u) # 0 /\ u[Len(u)] \notin Blanks
  <2>1. n + 1 \in 1 .. n + 1  OBVIOUS
  <2>2. q[n + 1] = TwoCells(all[n + 1]) \o CRLF  BY <1>1, <2>1
  <2>3. Kept(all[n + 1]) /\ all[n + 1] \in People  BY <2>1
  <2> QED  BY <2>2, <2>3, LineInk, LineTypes
<1>6. PICK b \in Nat, m \in Nat : b = off[n] /\ m = b + Len(u) /\ Len(t) = m + 2 /\ m # 0
  <2>1. n \in 0 .. n  OBVIOUS
  <2>2. off[n] \in Nat /\ off[n + 1] = off[n] + Len(q[n + 1])  BY <1>4, <2>1
  <2>3. Len(u \o e) = Len(u) + Len(e)  BY ConcatProperties
  <2>4. PICK x \in Nat : x = Len(u) /\ x # 0  BY <1>5
  <2>5. Len(q[n + 1]) = x + 2  BY <1>5, <2>3, <2>4
  <2>6. PICK b \in Nat : b = off[n]  BY <2>2
  <2>7. b + (x + 2) = (b + x) + 2 /\ b + x \in Nat /\ b + x # 0  BY <2>4
  <2> QED  BY <1>3, <2>2, <2>4, <2>5, <2>6, <2>7
<1>7. There(t, b, u) /\ There(t, m, e)
  <2>1. n \in 0 .. n  OBVIOUS
  <2>2. There(t, b, u \o e)  BY <1>4, <1>5, <1>6, <2>1
  <2>3. There(t, b, u) /\ There(t, b + Len(u), e)  BY <2>2, ThereInTwo
  <2> QED  BY <1>6, <2>3
<1>8. t[m] \notin Blanks /\ t[m + 1] \in Blanks /\ t[m + 2] \in Blanks
  <2>1. t[b + Len(u)] = u[Len(u)]
    <3>1. Len(u) \in 1 .. Len(u)  BY <1>5
    <3> QED  BY <1>7, <3>1 DEF There
  <2>2. t[m + 1] = CR /\ t[m + 2] = LF
    <3>1. 1 \in 1 .. Len(e) /\ 2 \in 1 .. Len(e)  BY <1>5
    <3> QED  BY <1>5, <1>7, <3>1 DEF There
  <2>3. CR \in Blanks /\ LF \in Blanks  BY DEF Blanks
  <2> QED  BY <1>5, <1>6, <2>1, <2>2, <2>3
<1>9. t[1] \notin Blanks
  <2>1. 0 \in 0 .. n /\ 1 \in 1 .. n + 1 /\ 0 + 1 = 1  OBVIOUS
  <2>2. PICK v \in Seq(Chars), d \in Seq(Chars) :
           v = TwoCells(all[1]) /\ d = CRLF /\ q[1] = v \o d /\ Len(v) # 0 /\ v[1] \notin Blanks
    <3>1. q[1] = TwoCells(all[1]) \o CRLF  BY <1>1, <2>1
    <3>2. Kept(all[1]) /\ all[1] \in People  BY <2>1
    <3> QED  BY <3>1, <3>2, LineInk, LineTypes
  <2>3. There(t, off[0], q[1]) /\ off[0] \in Nat  BY <1>4, <2>1
  <2>4. off[0] = 0  BY <1>2 DEF Ends
  <2>5. There(t, 0, v \o d)  BY <2>2, <2>3, <2>4
  <2>6. There(t, 0, v)
    <3>1. 0 \in Nat  OBVIOUS
    <3> QED  BY <2>5, <3>1, ThereInTwo
  <2>7. 1 \in 1 .. Len(v) /\ 0 + 1 = 1  BY <2>2
  <2>8. t[0 + 1] = v[1]  BY <2>6, <2>7 DEF There
  <2> QED  BY <2>2, <2>7, <2>8
<1>10. PICK csv \in Seq(Chars) : csv = Trim(t) /\ Len(csv) = m /\ \A i \in 1 .. m : csv[i] = t[i]
  <2>0. m # 0 /\ Len(t) = m + 2  BY <1>6
  <2>1. m \in 1 .. Len(t)  BY <2>0, BeforeTheEnd
  <2>2. ASSUME NEW j \in m + 1 .. Len(t) PROVE t[j] \in Blanks
    <3>1. j = m + 1 \/ j = m + 2  BY <2>0, BeforeTheEnd
    <3> QED  BY <1>8, <3>1
  <2>3. Trim(t) = SubSeq(t, 1, m)  BY <1>8, <1>9, <2>1, <2>2, TrimIs
  <2>4. /\ SubSeq(t, 1, m) \in Seq(Chars) /\ Len(SubSeq(t, 1, m)) = (IF 1 <= m THEN m - 1 + 1 ELSE 0)
        /\ \A i \in 1 .. m - 1 + 1 : SubSeq(t, 1, m)[i] = t[1 + i - 1]
    <3>1. \A i \in 1 .. m : t[i] \in Chars  BY <2>1
    <3>2. 1 \in Int /\ m \in Int  OBVIOUS
    <3> QED  BY <3>1, <3>2, SubSeqProperties
  <2>5. m - 1 + 1 = m /\ 1 <= m /\ \A i \in 1 .. m : 1 + i - 1 = i  BY <2>0, BeforeTheEnd
  <2> QED  BY <2>3, <2>4, <2>5
<1>11. PICK R : Reads(csv, R) /\ parseCsv(csv) = Meant(Whole(R[Len(csv)]))  BY ParsedInTurn
<1>12. PICK T : T = {k \in Nat : AtStart(R, off[k], Grid(all, k), <<>>)}  OBVIOUS
<1>13. 0 \in T
  <2>1. R[0] = Hand(<<>>, <<>>, <<>>, FALSE, TRUE, FALSE)  BY <1>11, Zenon DEF Reads, Unread, Hand
  <2>2. Grid(all, 0) = <<>>  BY DEF Grid
  <2>3. off[0] = 0 /\ 0 \in Nat  BY <1>2 DEF Ends
  <2>4. AtStart(R, off[0], Grid(all, 0), <<>>)  BY <2>1, <2>2, <2>3, Zenon DEF AtStart
  <2> QED  BY <1>12, <2>3, <2>4
<1>14. ASSUME NEW k \in 0 .. n - 1, k \in T PROVE k + 1 \in T
  <2>1. k \in 0 .. n /\ k + 1 \in 1 .. n + 1 /\ k + 1 \in 0 .. n + 1 /\ k + 1 <= n /\ n \in 0 .. n + 1 /\ k \in Nat /\ k + 1 \in Nat
    OBVIOUS
  <2>2. There(t, off[k], q[k + 1]) /\ off[k] \in Nat /\ off[k + 1] = off[k] + Len(q[k + 1])  BY <1>4, <2>1
  <2>3. q[k + 1] = TwoCells(all[k + 1]) \o CRLF /\ all[k + 1] \in People /\ q[k + 1] \in Seq(Chars)  BY <1>1, <2>1
  <2>4. off[k + 1] <= m
    <3>1. \A i, j \in 0 .. n + 1 : i <= j => off[i] <= off[j]
      <4>1. n + 1 \in Nat  OBVIOUS
      <4> QED  BY <1>2, <4>1, EndsGrow
    <3>2. off[k + 1] <= b  BY <1>6, <2>1, <3>1
    <3>3. b <= m  BY <1>6
    <3>4. off[k + 1] \in Nat  BY <2>2, <2>3
    <3> QED  BY <3>2, <3>3, <3>4
  <2>5. There(csv, off[k], q[k + 1])
    <3>1. PICK x \in Nat, y \in Nat : x = off[k] /\ y = Len(q[k + 1]) /\ x + y <= m  BY <2>2, <2>3, <2>4
    <3>2. x + y <= m  BY <3>1, Zenon
    <3>3. ASSUME NEW j \in 1 .. y PROVE csv[x + j] = q[k + 1][j]
      <4>1. x + j \in 1 .. m  BY <3>2
      <4>2. csv[x + j] = t[x + j]  BY <1>10, <4>1
      <4>3. t[x + j] = q[k + 1][j]  BY <2>2, <3>1 DEF There
      <4> QED  BY <4>2, <4>3
    <3>4. x + y <= Len(csv)  BY <1>10, <3>2, Zenon
    <3>5. There(csv, x, q[k + 1])  BY <3>1, <3>3, <3>4, Zenon DEF There
    <3> QED  BY <3>1, <3>5, Zenon
  <2>6. AtStart(R, off[k], Grid(all, k), <<>>)  BY <1>12, <1>14
  <2>7. AtStart(R, off[k + 1], Append(Grid(all, k), ReadRow(all[k + 1])), <<>>)
    BY <1>11, <2>2, <2>3, <2>5, <2>6, LineIsRead
  <2>8. Append(Grid(all, k), ReadRow(all[k + 1])) = Grid(all, k + 1)  BY <2>1, GridGrows
  <2> QED  BY <1>12, <2>1, <2>7, <2>8
<1>15. AtStart(R, b, Grid(all, n), <<>>)
  <2>1. 0 .. n \subseteq T  BY <1>13, <1>14, OneByOneUpTo
  <2>2. n \in T  BY <2>1
  <2> QED  BY <1>6, <1>12, <2>2
<1>16. PICK last \in People : last = all[n + 1]
  <2>1. n + 1 \in 1 .. n + 1  OBVIOUS
  <2> QED  BY <2>1
<1>17. Filled(R, m, Grid(all, n), <<Carried(last.name)>>, Carried(last.email))
  <2>1. There(csv, b, u)
    <3>1. PICK y \in Nat : y = Len(u) /\ b + y = m  BY <1>6
    <3>2. ASSUME NEW j \in 1 .. y PROVE csv[b + j] = u[j]
      <4>1. b + j \in 1 .. m  BY <3>1
      <4>2. csv[b + j] = t[b + j]  BY <1>10, <4>1
      <4>3. t[b + j] = u[j]  BY <1>7, <3>1 DEF There
      <4> QED  BY <4>2, <4>3
    <3> QED  BY <1>10, <3>1, <3>2 DEF There
  <2>2. ~ (b + Len(u) < Len(csv))  BY <1>6, <1>10
  <2>3. u = TwoCells(last)  BY <1>5, <1>16
  <2>4. Filled(R, b + Len(TwoCells(last)), Grid(all, n), <<Carried(last.name)>>, Carried(last.email))
    BY <1>11, <1>15, <2>1, <2>2, <2>3, CellsAreRead
  <2> QED  BY <1>6, <2>3, <2>4
<1>18. Whole(R[m]) = Grid(all, n + 1)
  <2>1. PICK start : R[m] = Hand(Grid(all, n), <<Carried(last.name)>>, Carried(last.email), FALSE, start, FALSE)
    BY <1>17, Zenon DEF Filled
  <2>2. R[m].row # <<>>
    <3>1. R[m].row = <<Carried(last.name)>>  BY <2>1 DEF Hand
    <3>2. <<Carried(last.name)>> # <<>>  OBVIOUS
    <3> QED  BY <3>1, <3>2
  <2>3. Whole(R[m]) = EndRow(R[m]).rows  BY <2>2, Zenon DEF Whole
  <2>4. EndRow(R[m]) = Hand(Append(Grid(all, n), Append(<<Carried(last.name)>>, Carried(last.email))), <<>>, <<>>, FALSE, TRUE, FALSE)
    <3>1. EndRow(Hand(Grid(all, n), <<Carried(last.name)>>, Carried(last.email), FALSE, start, FALSE))
          = Hand(Append(Grid(all, n), Append(<<Carried(last.name)>>, Carried(last.email))), <<>>, <<>>, FALSE, TRUE, FALSE)
      BY RowEnds
    <3> QED  BY <2>1, <3>1, Zenon
  <2>5. Whole(R[m]) = Append(Grid(all, n), Append(<<Carried(last.name)>>, Carried(last.email)))
    <3>1. PICK g : g = Append(Grid(all, n), Append(<<Carried(last.name)>>, Carried(last.email)))  OBVIOUS
    <3>2. EndRow(R[m]).rows = g  BY <2>4, <3>1 DEF Hand
    <3> QED  BY <2>3, <3>1, <3>2
  <2>6. Append(<<Carried(last.name)>>, Carried(last.email)) = ReadRow(last)  BY TwoInARow, Zenon DEF ReadRow
  <2>7. Append(Grid(all, n), ReadRow(last)) = Grid(all, n + 1)  BY <1>16, GridGrows
  <2> QED  BY <2>5, <2>6, <2>7
<1>19. Meant(Grid(all, n + 1)) = Grid(all, n + 1)
  <2>1. PICK S : \A i \in 1 .. n + 1 : ReadRow(all[i]) \in S
    <3>1. PICK U : U = {ReadRow(all[i]) : i \in 1 .. n + 1}  OBVIOUS
    <3>2. \A i \in 1 .. n + 1 : ReadRow(all[i]) \in U  BY <3>1
    <3> QED  BY <3>2, Zenon
  <2>2. PICK g \in Seq(S) : g = Grid(all, n + 1) /\ Len(g) = n + 1 /\ \A i \in 1 .. n + 1 : g[i] = ReadRow(all[i])
    <3>1. PICK g : g = [i \in 1 .. n + 1 |-> ReadRow(all[i])]  OBVIOUS
    <3>2. g \in [1 .. n + 1 -> S]  BY <2>1, <3>1
    <3>3. g \in Seq(S) /\ Len(g) = n + 1  BY <3>2
    <3> QED  BY <3>1, <3>3 DEF Grid
  <2>3. PICK kept : kept = {row \in Range(g) : \E i \in DOMAIN row : Trim(row[i]) # <<>>}  OBVIOUS
  <2>4. ASSUME NEW i \in 1 .. Len(g) PROVE g[i] \in kept
    <3>1. i \in 1 .. n + 1 /\ i \in DOMAIN g  BY <2>2
    <3>2. g[i] \in Range(g)  BY <3>1 DEF Range
    <3>3. PICK c \in Seq(Chars), d \in Seq(Chars) : /\ g[i] = <<c, d>> /\ Trim(c) = c /\ c # <<>>
      <4>1. Kept(all[i]) /\ all[i] \in People  BY <3>1
      <4>2. all[i].name \in Seq(Chars) /\ all[i].email \in Seq(Chars)  BY <4>1 DEF People
      <4>3. /\ Carried(all[i].name) \in Seq(Chars) /\ Trim(Carried(all[i].name)) = Carried(all[i].name)
            /\ Carried(all[i].name) # <<>> /\ Carried(all[i].email) \in Seq(Chars)
        BY <4>1, <4>2, CarriedInk DEF Kept
      <4>4. g[i] = <<Carried(all[i].name), Carried(all[i].email)>>  BY <2>2, <3>1, Zenon DEF ReadRow
      <4> QED  BY <4>3, <4>4
    <3>4. 1 \in DOMAIN <<c, d>> /\ <<c, d>>[1] = c  OBVIOUS
    <3>5. \E j \in DOMAIN g[i] : Trim(g[i][j]) # <<>>  BY <3>3, <3>4
    <3> QED  BY <2>3, <3>2, <3>5
  <2>5. Only(g, kept) = g  BY <2>4, AllKept
  <2>6. Meant(g) = Only(g, kept)  BY <2>3, Zenon DEF Meant
  <2> QED  BY <2>2, <2>5, <2>6
<1> QED  BY <1>1, <1>3, <1>10, <1>11, <1>18, <1>19

Find(grid, h) == {i \in DOMAIN grid[1] : Trim(grid[1][i]) = h}

CellOf(row, found, place) ==
  LET i == IF found = {} THEN place ELSE Min(found) IN IF i \in DOMAIN row THEN Trim(row[i]) ELSE <<>>

RowsOf(grid, named, mailed) ==
  IF grid = <<>> THEN <<>>
  ELSE [i \in 1 .. Len(grid) - (IF named \cup mailed = {} THEN 0 ELSE 1) |->
          LET row == grid[IF named \cup mailed = {} THEN i ELSE i + 1]
          IN  [name |-> CellOf(row, named, 1), email |-> CellOf(row, mailed, 2)]]

\* The one column that has a heading.
LEMMA OneColumn ==
  ASSUME NEW p \in {1, 2}, NEW c, NEW d, NEW place
  PROVE  CellOf(<<c, d>>, {p}, place) = Trim(IF p = 1 THEN c ELSE d)
<1>1. Min({p}) = p
  <2>1. \E x \in {p} : \A y \in {p} : x <= y  OBVIOUS
  <2>2. Min({p}) \in {p}  BY <2>1, Zenon DEF Min
  <2> QED  BY <2>2
<1>2. p \in DOMAIN <<c, d>> /\ <<c, d>>[p] = IF p = 1 THEN c ELSE d  OBVIOUS
<1>3. PICK row : row = <<c, d>>  OBVIOUS
<1>4. CellOf(row, {p}, place) = Trim(row[p])  BY <1>1, <1>2, <1>3 DEF CellOf
<1> QED  BY <1>2, <1>3, <1>4

\* An exported client list comes back row for row.
LEMMA SheetIsRead ==
  ASSUME NEW rows \in Books
  PROVE  clientRowsFromCsv(Trim(clientsCsv(rows)))
         = [i \in DOMAIN rows |-> [name |-> Carried(rows[i].name), email |-> Carried(rows[i].email)]]
<1>1. rows \in Seq(People) /\ \A i \in 1 .. Len(rows) : Kept(rows[i])  BY RowsKept
<1>2. PICK n \in Nat : n = Len(rows) /\ DOMAIN rows = 1 .. n  BY <1>1
<1>3. PICK all \in [1 .. n + 1 -> People] :
         /\ \A i \in 1 .. n + 1 : all[i] = (<<Headings>> \o rows)[i]
         /\ all[1] = Headings /\ \A i \in 1 .. n : all[i + 1] = rows[i]
  <2>1. PICK h \in Seq(People) : h = <<Headings>> /\ Len(h) = 1 /\ h[1] = Headings
    <3>1. Headings \in People  BY HeadingsKept DEF Kept
    <3>2. <<Headings>> \in Seq(People) /\ Len(<<Headings>>) = 1 /\ <<Headings>>[1] = Headings  BY <3>1
    <3> QED  BY <3>2
  <2>2. PICK r \in Seq(People) : r = rows /\ Len(r) = n  BY <1>1, <1>2
  <2>3. /\ h \o r \in Seq(People) /\ Len(h \o r) = Len(h) + Len(r)
        /\ \A i \in 1 .. Len(h) + Len(r) : (h \o r)[i] = IF i <= Len(h) THEN h[i] ELSE r[i - Len(h)]
    BY ConcatProperties
  <2>4. PICK s \in Seq(People) : /\ s = h \o r /\ Len(s) = n + 1
                                /\ \A i \in 1 .. n + 1 : s[i] = IF i <= 1 THEN h[i] ELSE r[i - 1]
    <3>1. Len(h) + Len(r) = n + 1  BY <2>1, <2>2
    <3> QED  BY <2>1, <2>3, <3>1
  <2>5. s \in [1 .. n + 1 -> People]
    <3>1. s \in [1 .. Len(s) -> People]  BY LenProperties
    <3> QED  BY <2>4, <3>1
  <2>6. s[1] = Headings
    <3>1. 1 \in 1 .. n + 1  OBVIOUS
    <3> QED  BY <2>1, <2>4, <3>1
  <2>7. ASSUME NEW i \in 1 .. n PROVE s[i + 1] = rows[i]
    <3>1. PICK j \in 1 .. n + 1 : j = i + 1 /\ ~ (j <= 1) /\ j - 1 = i  OBVIOUS
    <3>2. s[j] = r[j - 1]  BY <2>4, <3>1
    <3> QED  BY <2>2, <3>1, <3>2
  <2>8. s = <<Headings>> \o rows  BY <2>1, <2>2, <2>4
  <2> QED  BY <2>5, <2>6, <2>7, <2>8
<1>4. ASSUME NEW i \in 1 .. n + 1 PROVE Kept(all[i])
  <2>1. CASE i = 1  BY <1>3, <2>1, HeadingsKept
  <2>2. CASE i # 1
    <3>1. PICK j \in 1 .. n : i = j + 1
      <4>1. i - 1 \in 1 .. n /\ i = (i - 1) + 1  BY <2>2
      <4> QED  BY <4>1
    <3>2. Kept(rows[j])  BY <1>1, <1>2
    <3> QED  BY <1>3, <3>1, <3>2
  <2> QED  BY <2>1, <2>2
<1>5. clientsCsv(rows) = FlattenSeq([i \in 1 .. n + 1 |-> TwoCells(all[i]) \o CRLF])
  <2>1. PICK line : line = [i \in 1 .. n + 1 |-> TwoCells((<<Headings>> \o rows)[i]) \o CRLF]  OBVIOUS
  <2>2. clientsCsv(rows) = FlattenSeq(line)  BY <1>2, <2>1, Zenon DEF clientsCsv, TwoCells
  <2>3. \A i \in 1 .. n + 1 : TwoCells((<<Headings>> \o rows)[i]) \o CRLF = TwoCells(all[i]) \o CRLF
    BY <1>3, Zenon
  <2>4. line = [i \in 1 .. n + 1 |-> TwoCells(all[i]) \o CRLF]  BY <2>1, <2>3, Zenon
  <2> QED  BY <2>2, <2>4
<1>6. PICK g : /\ g = parseCsv(Trim(clientsCsv(rows))) /\ Len(g) = n + 1 /\ g # <<>>
               /\ \A i \in 1 .. n + 1 : g[i] = <<Carried(all[i].name), Carried(all[i].email)>>
  <2>1. parseCsv(Trim(clientsCsv(rows))) = Grid(all, n + 1)  BY <1>4, <1>5, SheetIsParsed
  <2>2. PICK g : g = [i \in 1 .. n + 1 |-> ReadRow(all[i])]  OBVIOUS
  <2>3. \A i \in 1 .. n + 1 : g[i] = <<Carried(all[i].name), Carried(all[i].email)>>
    <3>1. \A i \in 1 .. n + 1 : g[i] = ReadRow(all[i])  BY <2>2
    <3> QED  BY <3>1, Zenon DEF ReadRow
  <2>4. Len(g) = n + 1 /\ g # <<>>
    <3>1. PICK S : S = {ReadRow(all[i]) : i \in 1 .. n + 1}  OBVIOUS
    <3>2. g \in [1 .. n + 1 -> S]  BY <2>2, <3>1
    <3>3. Len(g) = n + 1 /\ 1 \in DOMAIN g  BY <3>2
    <3> QED  BY <3>3
  <2> QED  BY <2>1, <2>2, <2>3, <2>4 DEF Grid
<1>7. PICK c, d : /\ c = Headings.name /\ d = Headings.email /\ c # d /\ g[1] = <<c, d>> /\ Trim(c) = c /\ Trim(d) = d
  <2>1. 1 \in 1 .. n + 1  OBVIOUS
  <2>2. g[1] = <<Carried(Headings.name), Carried(Headings.email)>>  BY <1>3, <1>6, <2>1
  <2>3. /\ Carried(Headings.name) = Headings.name /\ Carried(Headings.email) = Headings.email
        /\ Headings.name # Headings.email /\ Kept(Headings)
    BY HeadingsKept
  <2>4. Headings.name \in Seq(Chars) /\ Headings.email \in Seq(Chars) /\ Inked(Headings.name) /\ Inked(Headings.email)
    BY <2>3 DEF Kept, People
  <2>5. Trim(Headings.name) = Headings.name /\ Trim(Headings.email) = Headings.email  BY <2>3, <2>4, CarriedInk
  <2> QED  BY <2>2, <2>3, <2>5
<1>8. Find(g, c) = {1} /\ Find(g, d) = {2}
  <2>1. DOMAIN g[1] = {1, 2} /\ g[1][1] = c /\ g[1][2] = d  BY <1>7
  <2> QED  BY <1>7, <2>1 DEF Find
<1>9. clientRowsFromCsv(Trim(clientsCsv(rows))) = RowsOf(g, Find(g, c), Find(g, d))
  BY <1>6, <1>7, Zenon DEF clientRowsFromCsv, RowsOf, Find, CellOf
<1>10. RowsOf(g, {1}, {2}) = [i \in 1 .. n |-> [name |-> CellOf(g[i + 1], {1}, 1), email |-> CellOf(g[i + 1], {2}, 2)]]
  <2>1. {1} \cup {2} # {}  OBVIOUS
  <2>2. Len(g) - 1 = n  BY <1>6
  <2>3. RowsOf(g, {1}, {2}) = [i \in 1 .. Len(g) - 1 |-> [name |-> CellOf(g[i + 1], {1}, 1), email |-> CellOf(g[i + 1], {2}, 2)]]
    BY <1>6, <2>1, Zenon DEF RowsOf
  <2> QED  BY <2>2, <2>3
<1>11. ASSUME NEW i \in 1 .. n
       PROVE  CellOf(g[i + 1], {1}, 1) = Carried(rows[i].name) /\ CellOf(g[i + 1], {2}, 2) = Carried(rows[i].email)
  <2>1. i + 1 \in 1 .. n + 1  OBVIOUS
  <2>2. PICK a, b : /\ a = Carried(rows[i].name) /\ b = Carried(rows[i].email) /\ g[i + 1] = <<a, b>>
    BY <1>3, <1>6, <2>1
  <2>3. Kept(rows[i]) /\ rows[i].name \in Seq(Chars) /\ rows[i].email \in Seq(Chars) /\ Inked(rows[i].name) /\ Inked(rows[i].email)
    BY <1>1, <1>2 DEF Kept, People
  <2>4. Trim(a) = a /\ Trim(b) = b  BY <2>2, <2>3, CarriedInk
  <2>5. CellOf(<<a, b>>, {1}, 1) = Trim(a) /\ CellOf(<<a, b>>, {2}, 2) = Trim(b)  BY OneColumn
  <2> QED  BY <2>2, <2>4, <2>5
<1>12. RowsOf(g, {1}, {2}) = [i \in 1 .. n |-> [name |-> Carried(rows[i].name), email |-> Carried(rows[i].email)]]
  BY <1>10, <1>11
<1> QED  BY <1>2, <1>8, <1>9, <1>12

-----------------------------------------------------------------------------
(* The form: where everything is.                                             *)

\* A pattern is at a place when its characters are.
ReadsAs(text, i, p) == SubSeq(text, i, i + Len(p) - 1) = p <=> \A j \in 1 .. Len(p) : text[i + j - 1] = p[j]

LEMMA SubSeqIs ==
  ASSUME NEW S, NEW text \in Seq(S), NEW p \in Seq(S), NEW i \in Nat, i >= 1, i + Len(p) - 1 <= Len(text)
  PROVE  ReadsAs(text, i, p)
<1>1. PICK l \in Nat : l = Len(p)  OBVIOUS
<1>2. PICK e \in Int : e = i + l - 1  OBVIOUS
<1>3. Len(text) \in Nat /\ e <= Len(text)  BY <1>1, <1>2
<1>4. /\ SubSeq(text, i, e) \in Seq(S) /\ Len(SubSeq(text, i, e)) = (IF i <= e THEN e - i + 1 ELSE 0)
      /\ \A j \in 1 .. e - i + 1 : SubSeq(text, i, e)[j] = text[i + j - 1]
  <2>1. \A j \in i .. e : text[j] \in S  BY <1>3
  <2> QED  BY <2>1, SubSeqProperties
<1>5. e - i + 1 = l /\ (IF i <= e THEN e - i + 1 ELSE 0) = l  BY <1>2
<1>6. PICK s \in Seq(S) : s = SubSeq(text, i, e) /\ Len(s) = l /\ \A j \in 1 .. l : s[j] = text[i + j - 1]
  BY <1>4, <1>5
<1>7. s = p <=> \A j \in 1 .. l : s[j] = p[j]
  <2>1. ASSUME \A j \in 1 .. l : s[j] = p[j] PROVE s = p  BY <1>1, <1>6, <2>1, SeqEqual
  <2> QED  BY <2>1
<1> QED  BY <1>1, <1>2, <1>6, <1>7 DEF ReadsAs

\* The first place of a pattern of l characters: it is there, and not before.
FirstAt(pattern, l, from, p) ==
  /\ from >= 1 /\ from <= p /\ l = Len(pattern) /\ l >= 1 /\ p + l - 1 <= Len(stream)
  /\ \A j \in 1 .. l : stream[p + j - 1] = pattern[j]
  /\ \A i \in from .. p - 1 : \E j \in 1 .. l : stream[i + j - 1] # pattern[j]

\* Then indexOf finds it there.
LEMMA FirstPlace ==
  ASSUME stream \in Seq(Chars), NEW pattern \in Seq(Chars), NEW from \in Nat, NEW p \in Nat, NEW l \in Nat,
         FirstAt(pattern, l, from, p)
  PROVE  indexOf(pattern, from) = p
<1> USE DEF FirstAt
<1>0. PICK n \in Nat : n = Len(stream)  OBVIOUS
<1>1. PICK starts : starts = {i \in from .. Len(stream) - Len(pattern) + 1 :
                                SubSeq(stream, i, i + Len(pattern) - 1) = pattern}
  OBVIOUS
<1>2. p \in starts
  <2>1. p \in from .. n - l + 1  BY <1>0
  <2>2. SubSeq(stream, p, p + Len(pattern) - 1) = pattern
    <3>1. p >= 1 /\ p + Len(pattern) - 1 <= Len(stream)  OBVIOUS
    <3>2. \A j \in 1 .. Len(pattern) : stream[p + j - 1] = pattern[j]  OBVIOUS
    <3> QED  BY <3>1, <3>2, SubSeqIs DEF ReadsAs
  <2> QED  BY <1>0, <1>1, <2>1, <2>2
<1>3. ASSUME NEW i \in starts PROVE i \in Nat /\ p <= i
  <2>1. i \in from .. n - l + 1 /\ SubSeq(stream, i, i + Len(pattern) - 1) = pattern  BY <1>0, <1>1
  <2>2. i \in Nat /\ i >= 1 /\ i + Len(pattern) - 1 <= Len(stream) /\ i >= from  BY <1>0, <2>1
  <2>3. \A j \in 1 .. Len(pattern) : stream[i + j - 1] = pattern[j]  BY <2>1, <2>2, SubSeqIs DEF ReadsAs
  <2>4. ~ (i \in from .. p - 1)  BY <2>3
  <2> QED  BY <2>2, <2>4
<1>4. Min(starts) = p
  <2>1. \E x \in starts : \A y \in starts : x <= y  BY <1>2, <1>3
  <2>2. Min(starts) \in starts /\ \A y \in starts : Min(starts) <= y  BY <2>1, Zenon DEF Min
  <2>3. PICK a \in starts : a = Min(starts) /\ \A y \in starts : a <= y  BY <2>2
  <2>4. a <= p /\ p <= a /\ a \in Nat  BY <1>2, <1>3, <2>3
  <2> QED  BY <2>3, <2>4
<1>5. indexOf(pattern, from) = IF starts = {} THEN 0 ELSE Min(starts)  BY <1>1, Zenon DEF indexOf
<1>6. starts # {}  BY <1>2
<1> QED  BY <1>4, <1>5, <1>6

Part == [head : {"note", "file"}, content : Seq(Chars)]

\* A part of a form begins after the a-th character, and the next boundary follows.
PartAt(text, a, head, c) ==
  /\ a + 15 + Len(c) <= Len(text)
  /\ text[a + 4] = CR /\ text[a + 5] = LF /\ text[a + 6] = head
  /\ text[a + 7] = CR /\ text[a + 8] = LF /\ text[a + 9] = CR /\ text[a + 10] = LF
  /\ \A j \in 1 .. Len(c) : text[a + 10 + j] = c[j]
  /\ text[a + 11 + Len(c)] = CR /\ text[a + 12 + Len(c)] = LF
  /\ text[a + 13 + Len(c)] = "-" /\ text[a + 14 + Len(c)] = "-" /\ text[a + 15 + Len(c)] = "B"

\* What the browser sends has no boundary in it.
Unbroken(c) == \A j \in 1 .. Len(c) - 2 : ~ (c[j] = "-" /\ c[j + 1] = "-" /\ c[j + 2] = "B")

\* The boundary, the closing dashes and the line break as texts.
LEMMA DashType == /\ Dash \in Seq(Chars) /\ Len(Dash) = 3 /\ Dash[1] = "-" /\ Dash[2] = "-" /\ Dash[3] = "B"
                  /\ <<"-", "-">> \in Seq(Chars) /\ Len(<<"-", "-">>) = 2
                  /\ <<"-", "-">>[1] = "-" /\ <<"-", "-">>[2] = "-"
                  /\ CRLF \in Seq(Chars) /\ Len(CRLF) = 2 /\ CRLF[1] = CR /\ CRLF[2] = LF
<1>1. "-" \in Chars /\ "B" \in Chars /\ CR \in Chars /\ LF \in Chars  BY Zenon DEF Chars
<1>2. PICK x \in Chars, y \in Chars, r \in Chars, l \in Chars : x = "-" /\ y = "B" /\ r = CR /\ l = LF  BY <1>1
<1>3. /\ <<x, x, y>> \in Seq(Chars) /\ Len(<<x, x, y>>) = 3
      /\ <<x, x, y>>[1] = x /\ <<x, x, y>>[2] = x /\ <<x, x, y>>[3] = y
  OBVIOUS
<1>4. /\ <<x, x>> \in Seq(Chars) /\ Len(<<x, x>>) = 2 /\ <<x, x>>[1] = x /\ <<x, x>>[2] = x
      /\ <<r, l>> \in Seq(Chars) /\ Len(<<r, l>>) = 2 /\ <<r, l>>[1] = r /\ <<r, l>>[2] = l
  OBVIOUS
<1>5. Dash = <<x, x, y>> /\ <<"-", "-">> = <<x, x>> /\ CRLF = <<r, l>>  BY <1>2, Zenon DEF Dash, CRLF
<1> QED  BY <1>2, <1>3, <1>4, <1>5

\* The headers of a part end where they do, and its content at the next boundary.
LEMMA HeadersEnd ==
  ASSUME stream \in Seq(Chars), NEW a \in Nat, NEW head \in {"note", "file"}, NEW c \in Seq(Chars),
         PartAt(stream, a, head, c)
  PROVE  indexOf(CRLF \o CRLF, a + 6) = a + 7
<1>0. PICK l \in Nat : l = Len(c)  OBVIOUS
<1>1. PICK n \in Nat : n = Len(stream) /\ a + 15 + l <= n  BY <1>0 DEF PartAt
<1>2. PICK e \in Seq(Chars) : e = CRLF /\ Len(e) = 2 /\ e[1] = CR /\ e[2] = LF  BY DashType
<1>3. PICK p \in Seq(Chars) : p = e \o e /\ Len(p) = 4 /\ p[1] = CR /\ p[2] = LF /\ p[3] = CR /\ p[4] = LF
  <2>1. /\ e \o e \in Seq(Chars) /\ Len(e \o e) = Len(e) + Len(e)
        /\ \A i \in 1 .. Len(e) + Len(e) : (e \o e)[i] = IF i <= Len(e) THEN e[i] ELSE e[i - Len(e)]
    BY ConcatProperties
  <2>2. PICK p : p = e \o e  OBVIOUS
  <2>3. Len(e) = 2 /\ Len(e) + Len(e) = 4  BY <1>2
  <2>4. p \in Seq(Chars) /\ Len(p) = 4  BY <2>1, <2>2, <2>3
  <2>5. \A i \in 1 .. 4 : p[i] = IF i <= 2 THEN e[i] ELSE e[i - 2]
    <3> SUFFICES ASSUME NEW i \in 1 .. 4 PROVE p[i] = IF i <= 2 THEN e[i] ELSE e[i - 2]  OBVIOUS
    <3>1. i \in 1 .. Len(e) + Len(e)  BY <2>3
    <3>2. (e \o e)[i] = IF i <= Len(e) THEN e[i] ELSE e[i - Len(e)]  BY <2>1, <3>1
    <3> QED  BY <2>2, <2>3, <3>2, Zenon
  <2>6. p[1] = e[1] /\ p[2] = e[2] /\ p[3] = e[1] /\ p[4] = e[2]  BY <2>5
  <2> QED  BY <1>2, <2>2, <2>4, <2>6
<1>4. ASSUME NEW j \in 1 .. 4 PROVE stream[(a + 7) + j - 1] = p[j]
  <2>1. /\ (a + 7) + 1 - 1 = a + 7 /\ (a + 7) + 2 - 1 = a + 8 /\ (a + 7) + 3 - 1 = a + 9 /\ (a + 7) + 4 - 1 = a + 10
    OBVIOUS
  <2>2. stream[a + 7] = CR /\ stream[a + 8] = LF /\ stream[a + 9] = CR /\ stream[a + 10] = LF  BY DEF PartAt
  <2>3. j = 1 \/ j = 2 \/ j = 3 \/ j = 4  OBVIOUS
  <2> QED  BY <1>3, <2>1, <2>2, <2>3
<1>5. ASSUME NEW i \in a + 6 .. (a + 7) - 1 PROVE \E j \in 1 .. 4 : stream[i + j - 1] # p[j]
  <2>1. i = a + 6 /\ i + 1 - 1 = a + 6 /\ 1 \in 1 .. 4  OBVIOUS
  <2>2. stream[a + 6] = head /\ head # CR  BY DEF PartAt, CR
  <2>3. stream[i + 1 - 1] # p[1]  BY <1>3, <2>1, <2>2
  <2> QED  BY <2>1, <2>3
<1>6. a + 6 \in Nat /\ a + 6 >= 1 /\ a + 7 \in Nat /\ a + 6 <= a + 7 /\ (a + 7) + 4 - 1 <= Len(stream) /\ 4 \in Nat /\ 4 >= 1
  BY <1>1
<1>7. PICK f \in Nat, q \in Nat, four \in Nat : f = a + 6 /\ q = a + 7 /\ four = 4  BY <1>6
<1>8. FirstAt(p, four, f, q)
  <2>1. four = Len(p) /\ four >= 1 /\ f >= 1 /\ f <= q /\ q + four - 1 <= Len(stream)  BY <1>3, <1>6, <1>7
  <2>2. \A j \in 1 .. four : stream[q + j - 1] = p[j]  BY <1>4, <1>7
  <2>3. \A i \in f .. q - 1 : \E j \in 1 .. four : stream[i + j - 1] # p[j]  BY <1>5, <1>7
  <2> QED  BY <2>1, <2>2, <2>3 DEF FirstAt
<1>10. indexOf(p, f) = q  BY <1>8, FirstPlace
<1> QED  BY <1>2, <1>3, <1>7, <1>10

\* The next boundary after a part is its own: there is none in what it holds.
LEMMA BoundaryNext ==
  ASSUME stream \in Seq(Chars), NEW a \in Nat, NEW head \in {"note", "file"}, NEW c \in Seq(Chars),
         PartAt(stream, a, head, c), Unbroken(c)
  PROVE  indexOf(Dash, a + 11) = a + 13 + Len(c)
<1>0. PICK l \in Nat : l = Len(c)  OBVIOUS
<1>1. PICK n \in Nat : n = Len(stream) /\ a + 15 + l <= n  BY <1>0 DEF PartAt
<1>2. PICK d \in Seq(Chars) : d = Dash /\ Len(d) = 3 /\ d[1] = "-" /\ d[2] = "-" /\ d[3] = "B"  BY DashType
<1>3. PICK p \in Nat : p = a + 13 + l  OBVIOUS
<1>4. /\ \A j \in 1 .. l : stream[a + 10 + j] = c[j]
      /\ stream[a + 11 + l] = CR /\ stream[a + 12 + l] = LF
      /\ stream[a + 13 + l] = "-" /\ stream[a + 14 + l] = "-" /\ stream[a + 15 + l] = "B"
  BY <1>0 DEF PartAt
<1>5. ASSUME NEW j \in 1 .. 3 PROVE stream[p + j - 1] = d[j]
  <2>1. p + 1 - 1 = a + 13 + l /\ p + 2 - 1 = a + 14 + l /\ p + 3 - 1 = a + 15 + l  BY <1>3
  <2>2. j = 1 \/ j = 2 \/ j = 3  OBVIOUS
  <2> QED  BY <1>2, <1>4, <2>1, <2>2
<1>6. ASSUME NEW i \in a + 11 .. p - 1 PROVE \E j \in 1 .. 3 : stream[i + j - 1] # d[j]
  <2>0. i \in Nat /\ 1 \in 1 .. 3 /\ 2 \in 1 .. 3 /\ 3 \in 1 .. 3  OBVIOUS
  <2>1. CR # "-" /\ LF # "-" /\ CR # "B"  BY DEF CR, LF
  <2>2. CASE i + 2 <= a + 10 + l
    <3>1. PICK k \in 1 .. l - 2 : i = a + 10 + k
      <4>1. i - (a + 10) \in 1 .. l - 2 /\ i = a + 10 + (i - (a + 10))  BY <1>3, <2>2
      <4> QED  BY <4>1
    <3>2. /\ k \in 1 .. l /\ k + 1 \in 1 .. l /\ k + 2 \in 1 .. l
          /\ i + 1 - 1 = a + 10 + k /\ i + 2 - 1 = a + 10 + (k + 1) /\ i + 3 - 1 = a + 10 + (k + 2)
      BY <3>1
    <3>3. stream[i + 1 - 1] = c[k] /\ stream[i + 2 - 1] = c[k + 1] /\ stream[i + 3 - 1] = c[k + 2]
      BY <1>4, <3>2
    <3>4. ~ (c[k] = "-" /\ c[k + 1] = "-" /\ c[k + 2] = "B")  BY <1>0, <3>1 DEF Unbroken
    <3> QED  BY <1>2, <2>0, <3>3, <3>4
  <2>3. CASE i = a + 9 + l
    <3>1. i + 3 - 1 = a + 11 + l  BY <2>3
    <3>2. stream[i + 3 - 1] # d[3]  BY <1>2, <1>4, <2>1, <3>1
    <3> QED  BY <2>0, <3>2
  <2>4. CASE i = a + 10 + l
    <3>1. i + 2 - 1 = a + 11 + l  BY <2>4
    <3>2. stream[i + 2 - 1] # d[2]  BY <1>2, <1>4, <2>1, <3>1
    <3> QED  BY <2>0, <3>2
  <2>5. CASE i = a + 11 + l \/ i = a + 12 + l
    <3>1. i + 1 - 1 = i  BY <2>0
    <3>2. stream[i + 1 - 1] # d[1]  BY <1>2, <1>4, <2>1, <2>5, <3>1
    <3> QED  BY <2>0, <3>2
  <2>6. i <= a + 12 + l  BY <1>3
  <2> QED  BY <2>0, <2>2, <2>3, <2>4, <2>5, <2>6
<1>7. PICK f \in Nat, three \in Nat : f = a + 11 /\ three = 3  OBVIOUS
<1>8. FirstAt(d, three, f, p)
  <2>1. three = Len(d) /\ three >= 1 /\ f >= 1 /\ f <= p /\ p + three - 1 <= Len(stream)  BY <1>1, <1>2, <1>3, <1>7
  <2>2. \A j \in 1 .. three : stream[p + j - 1] = d[j]  BY <1>5, <1>7
  <2>3. \A i \in f .. p - 1 : \E j \in 1 .. three : stream[i + j - 1] # d[j]  BY <1>6, <1>7
  <2> QED  BY <2>1, <2>2, <2>3 DEF FirstAt
<1>9. indexOf(d, f) = p  BY <1>8, FirstPlace
<1> QED  BY <1>0, <1>2, <1>3, <1>7, <1>9

\* A part as it is written.
OnPaper(head, c) == Dash \o CRLF \o <<head>> \o CRLF \o CRLF \o c \o CRLF

BoundaryAt(text, a) == a + 3 <= Len(text) /\ text[a + 1] = "-" /\ text[a + 2] = "-" /\ text[a + 3] = "B"

PartThere(text, a, head, c) ==
  /\ a + 12 + Len(c) <= Len(text)
  /\ BoundaryAt(text, a)
  /\ text[a + 4] = CR /\ text[a + 5] = LF /\ text[a + 6] = head
  /\ text[a + 7] = CR /\ text[a + 8] = LF /\ text[a + 9] = CR /\ text[a + 10] = LF
  /\ \A j \in 1 .. Len(c) : text[a + 10 + j] = c[j]
  /\ text[a + 11 + Len(c)] = CR /\ text[a + 12 + Len(c)] = LF

\* A text of n characters.
Long(u, n) == u \in Seq(Chars) /\ Len(u) = n

\* A text holds m characters v after its a-th and another n.
Follows(text, a, n, v, m) == a + n + m <= Len(text) /\ \A j \in 1 .. m : text[a + n + j] = v[j]

\* The lengths of two texts add up.
LEMMA Joined ==
  ASSUME NEW u, NEW v, NEW n \in Nat, NEW m \in Nat, Long(u, n), Long(v, m)
  PROVE  Long(u \o v, n + m)
<1> USE DEF Long
<1>1. u \o v \in Seq(Chars) /\ Len(u \o v) = Len(u) + Len(v)  BY ConcatProperties
<1> QED  BY <1>1

\* Of a text of two parts, the first is there and the second follows.
LEMMA Parted ==
  ASSUME NEW text \in Seq(Chars), NEW a \in Nat, NEW u, NEW v, NEW n \in Nat, NEW m \in Nat,
         Long(u, n), Long(v, m), There(text, a, u \o v)
  PROVE  There(text, a, u) /\ Follows(text, a, n, v, m)
<1> USE DEF Long, Follows
<1>1. There(text, a, u) /\ There(text, a + Len(u), v)  BY ThereInTwo
<1>2. a + n + m <= Len(text) /\ \A j \in 1 .. m : text[a + n + j] = v[j]  BY <1>1 DEF There
<1> QED  BY <1>1, <1>2

\* A part as it is written has everything in its place.
LEMMA PartIsWritten ==
  ASSUME NEW head \in {"note", "file"}, NEW c \in Seq(Chars)
  PROVE  /\ OnPaper(head, c) \in Seq(Chars) /\ Len(OnPaper(head, c)) = 12 + Len(c)
         /\ \A text \in Seq(Chars) : \A a \in Nat : There(text, a, OnPaper(head, c)) => PartThere(text, a, head, c)
<1>1. PICK l \in Nat : l = Len(c)  OBVIOUS
<1>2. PICK d \in Seq(Chars), e \in Seq(Chars) :
          /\ d = Dash /\ Len(d) = 3 /\ d[1] = "-" /\ d[2] = "-" /\ d[3] = "B"
          /\ e = CRLF /\ Len(e) = 2 /\ e[1] = CR /\ e[2] = LF
  BY DashType
<1>3. PICK h \in Seq(Chars) : h = <<head>> /\ Len(h) = 1 /\ h[1] = head
  <2>1. "note" \in Chars /\ "file" \in Chars  BY Zenon DEF Chars
  <2>2. PICK x \in Chars : x = head  BY <2>1, Zenon
  <2>3. <<x>> \in Seq(Chars) /\ Len(<<x>>) = 1 /\ <<x>>[1] = x  OBVIOUS
  <2> QED  BY <2>2, <2>3
<1>4. Long(d, 3) /\ Long(e, 2) /\ Long(h, 1) /\ Long(c, l)  BY <1>1, <1>2, <1>3 DEF Long
<1>5. PICK u1 : u1 = d \o e /\ Long(u1, 5)
  <2>1. 3 \in Nat /\ 2 \in Nat /\ 3 + 2 = 5  OBVIOUS
  <2>2. Long(d \o e, 3 + 2)  BY <1>4, <2>1, Joined
  <2> QED  BY <2>1, <2>2
<1>6. PICK u2 : u2 = u1 \o h /\ Long(u2, 6)
  <2>1. 5 \in Nat /\ 1 \in Nat /\ 5 + 1 = 6  OBVIOUS
  <2>2. Long(u1 \o h, 5 + 1)  BY <1>4, <1>5, <2>1, Joined
  <2> QED  BY <2>1, <2>2
<1>7. PICK u3 : u3 = u2 \o e /\ Long(u3, 8)
  <2>1. 6 \in Nat /\ 2 \in Nat /\ 6 + 2 = 8  OBVIOUS
  <2>2. Long(u2 \o e, 6 + 2)  BY <1>4, <1>6, <2>1, Joined
  <2> QED  BY <2>1, <2>2
<1>8. PICK u4 : u4 = u3 \o e /\ Long(u4, 10)
  <2>1. 8 \in Nat /\ 2 \in Nat /\ 8 + 2 = 10  OBVIOUS
  <2>2. Long(u3 \o e, 8 + 2)  BY <1>4, <1>7, <2>1, Joined
  <2> QED  BY <2>1, <2>2
<1>9. PICK u5 : u5 = u4 \o c /\ Long(u5, 10 + l)
  <2>1. 10 \in Nat /\ l \in Nat /\ 10 + l = 10 + l  OBVIOUS
  <2>2. Long(u4 \o c, 10 + l)  BY <1>4, <1>8, <2>1, Joined
  <2> QED  BY <2>1, <2>2
<1>10. PICK u6 : u6 = u5 \o e /\ Long(u6, 12 + l)
  <2>1. (10 + l) \in Nat /\ 2 \in Nat /\ (10 + l) + 2 = 12 + l  OBVIOUS
  <2>2. Long(u5 \o e, (10 + l) + 2)  BY <1>4, <1>9, <2>1, Joined
  <2> QED  BY <2>1, <2>2
<1>11. OnPaper(head, c) = u6  BY <1>2, <1>3, <1>5, <1>6, <1>7, <1>8, <1>9, <1>10, Zenon DEF OnPaper
<1>12. ASSUME NEW text \in Seq(Chars), NEW a \in Nat, There(text, a, u6) PROVE PartThere(text, a, head, c)
  <2>1. There(text, a, u5) /\ Follows(text, a, 10 + l, e, 2)
    <3>1. There(text, a, u5 \o e) /\ 10 + l \in Nat /\ 2 \in Nat  BY <1>10, <1>12
    <3>2. Long(u5, 10 + l) /\ Long(e, 2)  BY <1>4, <1>5, <1>6, <1>7, <1>8, <1>9
    <3> QED  BY <3>1, <3>2, Parted
  <2>2. There(text, a, u4) /\ Follows(text, a, 10, c, l)
    <3>1. There(text, a, u4 \o c) /\ 10 \in Nat /\ l \in Nat  BY <1>9, <2>1
    <3>2. Long(u4, 10) /\ Long(c, l)  BY <1>4, <1>5, <1>6, <1>7, <1>8, <1>9
    <3> QED  BY <3>1, <3>2, Parted
  <2>3. There(text, a, u3) /\ Follows(text, a, 8, e, 2)
    <3>1. There(text, a, u3 \o e) /\ 8 \in Nat /\ 2 \in Nat  BY <1>8, <2>2
    <3>2. Long(u3, 8) /\ Long(e, 2)  BY <1>4, <1>5, <1>6, <1>7, <1>8, <1>9
    <3> QED  BY <3>1, <3>2, Parted
  <2>4. There(text, a, u2) /\ Follows(text, a, 6, e, 2)
    <3>1. There(text, a, u2 \o e) /\ 6 \in Nat /\ 2 \in Nat  BY <1>7, <2>3
    <3>2. Long(u2, 6) /\ Long(e, 2)  BY <1>4, <1>5, <1>6, <1>7, <1>8, <1>9
    <3> QED  BY <3>1, <3>2, Parted
  <2>5. There(text, a, u1) /\ Follows(text, a, 5, h, 1)
    <3>1. There(text, a, u1 \o h) /\ 5 \in Nat /\ 1 \in Nat  BY <1>6, <2>4
    <3>2. Long(u1, 5) /\ Long(h, 1)  BY <1>4, <1>5, <1>6, <1>7, <1>8, <1>9
    <3> QED  BY <3>1, <3>2, Parted
  <2>6. There(text, a, d) /\ Follows(text, a, 3, e, 2)
    <3>1. There(text, a, d \o e) /\ 3 \in Nat /\ 2 \in Nat  BY <1>5, <2>5
    <3>2. Long(d, 3) /\ Long(e, 2)  BY <1>4, <1>5, <1>6, <1>7, <1>8, <1>9
    <3> QED  BY <3>1, <3>2, Parted
  <2>7. \A j \in 1 .. 3 : text[a + j] = d[j]  BY <1>2, <2>6 DEF There
  <2>8. 1 \in 1 .. 1 /\ 1 \in 1 .. 2 /\ 2 \in 1 .. 2 /\ 1 \in 1 .. 3 /\ 2 \in 1 .. 3 /\ 3 \in 1 .. 3  OBVIOUS
  <2>9. BoundaryAt(text, a)
    <3>1. text[a + 1] = "-" /\ text[a + 2] = "-" /\ text[a + 3] = "B"  BY <1>2, <2>7, <2>8
    <3>2. a + 3 <= Len(text)  BY <2>1 DEF Follows
    <3> QED  BY <3>1, <3>2 DEF BoundaryAt
  <2>10. text[a + 3 + 1] = CR /\ text[a + 3 + 2] = LF /\ text[a + 5 + 1] = head
    BY <1>2, <1>3, <2>5, <2>6, <2>8 DEF Follows
  <2>11. text[a + 6 + 1] = CR /\ text[a + 6 + 2] = LF /\ text[a + 8 + 1] = CR /\ text[a + 8 + 2] = LF
    BY <1>2, <2>3, <2>4, <2>8 DEF Follows
  <2>12. text[a + (10 + l) + 1] = CR /\ text[a + (10 + l) + 2] = LF  BY <1>2, <2>1, <2>8 DEF Follows
  <2>13. /\ a + 3 + 1 = a + 4 /\ a + 3 + 2 = a + 5 /\ a + 5 + 1 = a + 6 /\ a + 6 + 1 = a + 7 /\ a + 6 + 2 = a + 8
         /\ a + 8 + 1 = a + 9 /\ a + 8 + 2 = a + 10 /\ a + (10 + l) + 1 = a + 11 + l /\ a + (10 + l) + 2 = a + 12 + l
    OBVIOUS
  <2>14. a + 12 + l <= Len(text)  BY <2>1 DEF Follows
  <2>15. /\ text[a + 4] = CR /\ text[a + 5] = LF /\ text[a + 6] = head
         /\ text[a + 7] = CR /\ text[a + 8] = LF /\ text[a + 9] = CR /\ text[a + 10] = LF
         /\ text[a + 11 + l] = CR /\ text[a + 12 + l] = LF
    BY <2>10, <2>11, <2>12, <2>13, Zenon
  <2> QED  BY <1>1, <2>2, <2>9, <2>14, <2>15 DEF PartThere, Follows
<1> QED  BY <1>1, <1>10, <1>11, <1>12 DEF Long

\* With the next boundary where it ends, that is all the reader needs.
LEMMA PartAtMeans ==
  ASSUME NEW text \in Seq(Chars), NEW a \in Nat, NEW b \in Nat, NEW head \in {"note", "file"}, NEW c \in Seq(Chars),
         PartThere(text, a, head, c), BoundaryAt(text, b), b = a + 12 + Len(c)
  PROVE  PartAt(text, a, head, c)
<1>1. PICK l \in Nat : l = Len(c)  OBVIOUS
<1>2. b + 1 = a + 13 + l /\ b + 2 = a + 14 + l /\ b + 3 = a + 15 + l  BY <1>1
<1>3. PICK b1, b2, b3 : b1 = b + 1 /\ b2 = b + 2 /\ b3 = b + 3  OBVIOUS
<1>4. text[b1] = "-" /\ text[b2] = "-" /\ text[b3] = "B" /\ b3 <= Len(text)  BY <1>3 DEF BoundaryAt
<1>5. b1 = a + 13 + l /\ b2 = a + 14 + l /\ b3 = a + 15 + l  BY <1>2, <1>3
<1>6. text[a + 13 + l] = "-" /\ text[a + 14 + l] = "-" /\ text[a + 15 + l] = "B" /\ a + 15 + l <= Len(text)
  BY <1>4, <1>5, Zenon
<1> QED  BY <1>1, <1>6, Zenon DEF PartAt, PartThere

\* A form: its parts one after the other, off[k] characters before the k-th boundary,
\* each without a boundary in it, and the closing dashes.
Laid(text, parts, off, n) ==
  /\ text \in Seq(Chars) /\ parts \in Seq(Part) /\ n = Len(parts) /\ off[0] = 0
  /\ \A k \in 0 .. n : off[k] \in Nat
  /\ \A k \in 0 .. n - 1 : /\ PartAt(text, off[k], parts[k + 1].head, parts[k + 1].content)
                           /\ Unbroken(parts[k + 1].content)
                           /\ off[k + 1] = off[k] + 12 + Len(parts[k + 1].content)
  /\ text[off[n] + 4] = "-" /\ text[off[n] + 5] = "-" /\ Len(text) = off[n] + 7

\* The parts of a form are texts without a boundary.
LEMMA PartTypes ==
  ASSUME NEW parts \in Letters
  PROVE  parts \in Seq(Part) /\ \A i \in 1 .. Len(parts) : Unbroken(parts[i].content)
<1>1. parts \in Seq([head : {"note", "file"}, content : Seq(STRING)])  BY LettersAssumption
<1>2. STRING \subseteq Chars  BY Zenon DEF Chars
<1>3. [head : {"note", "file"}, content : Seq(STRING)] \subseteq Part
  <2>1. Seq(STRING) \subseteq Seq(Chars)  BY <1>2, SeqMonotonic
  <2> QED  BY <2>1 DEF Part
<1>4. parts \in Seq(Part)  BY <1>1, <1>3, SeqMonotonic
<1>5. ASSUME NEW i \in 1 .. Len(parts) PROVE Unbroken(parts[i].content)
  <2>0. PICK part \in Part : part = parts[i]  BY <1>4, ElementOfSeq
  <2>1. PICK c \in Seq(Chars) : c = parts[i].content
    <3>1. part.content \in Seq(Chars)  BY DEF Part
    <3> QED  BY <2>0, <3>1
  <2>2. \A j \in 1 .. Len(c) - 2 : SubSeq(c, j, j + 2) # Dash
    <3>1. i \in DOMAIN parts  BY <1>1
    <3> QED  BY <2>1, <3>1, LettersAssumption
  <2>3. ASSUME NEW j \in 1 .. Len(c) - 2 PROVE ~ (c[j] = "-" /\ c[j + 1] = "-" /\ c[j + 2] = "B")
    <3>1. PICK d \in Seq(Chars) : d = Dash /\ Len(d) = 3 /\ d[1] = "-" /\ d[2] = "-" /\ d[3] = "B"  BY DashType
    <3>2. j \in Nat /\ j >= 1 /\ j + Len(d) - 1 <= Len(c) /\ j + Len(d) - 1 = j + 2  BY <3>1
    <3>3. SubSeq(c, j, j + Len(d) - 1) = d <=> \A m \in 1 .. Len(d) : c[j + m - 1] = d[m]  BY <3>2, SubSeqIs DEF ReadsAs
    <3>4. PICK m \in 1 .. 3 : c[j + m - 1] # d[m]  BY <2>2, <3>1, <3>2, <3>3
    <3>5. m = 1 \/ m = 2 \/ m = 3  OBVIOUS
    <3>6. j + 1 - 1 = j /\ j + 2 - 1 = j + 1 /\ j + 3 - 1 = j + 2  OBVIOUS
    <3> QED  BY <3>1, <3>4, <3>5, <3>6
  <2> QED  BY <2>1, <2>3 DEF Unbroken
<1> QED  BY <1>4, <1>5

\* A form, composed, is laid out so.
LEMMA FormIsLaid ==
  ASSUME NEW parts \in Letters
  PROVE  \E off : Laid(Compose(parts), parts, off, Len(parts))
<1>0. parts \in Seq(Part) /\ \A i \in 1 .. Len(parts) : Unbroken(parts[i].content)  BY PartTypes
<1>1. PICK n \in Nat : n = Len(parts) /\ DOMAIN parts = 1 .. n
                       /\ \A i \in 1 .. n : parts[i].head \in {"note", "file"} /\ parts[i].content \in Seq(Chars)
  <2>1. PICK n \in Nat : n = Len(parts) /\ DOMAIN parts = 1 .. n  BY <1>0
  <2>2. \A i \in 1 .. n : parts[i] \in Part  BY <1>0, <2>1, ElementOfSeq
  <2>3. \A part \in Part : part.head \in {"note", "file"} /\ part.content \in Seq(Chars)  BY DEF Part
  <2> QED  BY <2>1, <2>2, <2>3
<1>2. PICK q : q = [i \in 1 .. n |-> OnPaper(parts[i].head, parts[i].content)]  OBVIOUS
<1>3. q \in [1 .. n -> Seq(Chars)]  BY <1>1, <1>2, PartIsWritten
<1>4. PICK off : InPieces(Chars, n, q, off, FlattenSeq(q))
  <2>1. \E off : Ends(q, n, off) /\ Beginning(q, off, n, Chars, FlattenSeq(q))  BY <1>3, PiecesAreThere
  <2> QED  BY <1>3, <2>1 DEF InPieces
<1>5. /\ off[0] = 0 /\ \A k \in 0 .. n : off[k] \in Nat
      /\ FlattenSeq(q) \in Seq(Chars) /\ Len(FlattenSeq(q)) = off[n]
  BY <1>4 DEF InPieces, Ends, Beginning
<1>6. PICK z \in Nat : z = off[n]  BY <1>5
<1>7. PICK t : t = FlattenSeq(q) /\ Long(t, z)  BY <1>5, <1>6 DEF Long
<1>8. PICK d \in Seq(Chars), x \in Seq(Chars), e \in Seq(Chars) :
          /\ d = Dash /\ Long(d, 3) /\ d[1] = "-" /\ d[2] = "-" /\ d[3] = "B"
          /\ x = <<"-", "-">> /\ Long(x, 2) /\ x[1] = "-" /\ x[2] = "-" /\ e = CRLF /\ Long(e, 2)
  BY DashType DEF Long
<1>9. PICK t1 : t1 = t \o d /\ Long(t1, z + 3)
  <2>1. 3 \in Nat  OBVIOUS
  <2>2. Long(t \o d, z + 3)  BY <1>7, <1>8, <2>1, Joined
  <2> QED  BY <2>2
<1>10. PICK t2 : t2 = t1 \o x /\ Long(t2, z + 5)
  <2>1. 2 \in Nat /\ z + 3 \in Nat /\ (z + 3) + 2 = z + 5  OBVIOUS
  <2>2. Long(t1 \o x, (z + 3) + 2)  BY <1>8, <1>9, <2>1, Joined
  <2> QED  BY <2>1, <2>2
<1>11. PICK t3 : t3 = t2 \o e /\ Long(t3, z + 7)
  <2>1. 2 \in Nat /\ z + 5 \in Nat /\ (z + 5) + 2 = z + 7  OBVIOUS
  <2>2. Long(t2 \o e, (z + 5) + 2)  BY <1>8, <1>10, <2>1, Joined
  <2> QED  BY <2>1, <2>2
<1>12. Compose(parts) = t3
  <2>1. Compose(parts) = FlattenSeq([i \in DOMAIN parts |-> OnPaper(parts[i].head, parts[i].content)])
                          \o Dash \o <<"-", "-">> \o CRLF
    BY Zenon DEF Compose, OnPaper
  <2> QED  BY <1>1, <1>2, <1>7, <1>8, <1>9, <1>10, <1>11, <2>1, Zenon
<1>13. t3 \in Seq(Chars) /\ Len(t3) = z + 7 /\ There(t3, 0, t3)
  <2>1. t3 \in Seq(Chars) /\ Len(t3) = z + 7  BY <1>11 DEF Long
  <2> QED  BY <2>1 DEF There
<1>14. There(t3, 0, t2)
  <2>1. 0 \in Nat /\ 2 \in Nat /\ z + 5 \in Nat /\ There(t3, 0, t2 \o e)  BY <1>11, <1>13
  <2> QED  BY <1>8, <1>10, <1>13, <2>1, Parted
<1>15. There(t3, 0, t1) /\ Follows(t3, 0, z + 3, x, 2)
  <2>1. 0 \in Nat /\ 2 \in Nat /\ z + 3 \in Nat /\ There(t3, 0, t1 \o x)  BY <1>10, <1>14
  <2> QED  BY <1>8, <1>9, <1>13, <2>1, Parted
<1>16. There(t3, 0, t) /\ Follows(t3, 0, z, d, 3)
  <2>1. 0 \in Nat /\ 3 \in Nat /\ There(t3, 0, t \o d)  BY <1>9, <1>15
  <2> QED  BY <1>7, <1>8, <1>13, <2>1, Parted
<1>17. BoundaryAt(t3, z) /\ t3[z + 4] = "-" /\ t3[z + 5] = "-"
  <2>1. 1 \in 1 .. 3 /\ 2 \in 1 .. 3 /\ 3 \in 1 .. 3 /\ 1 \in 1 .. 2 /\ 2 \in 1 .. 2  OBVIOUS
  <2>2. 0 + z + 1 = z + 1 /\ 0 + z + 2 = z + 2 /\ 0 + z + 3 = z + 3 /\ 0 + (z + 3) + 1 = z + 4 /\ 0 + (z + 3) + 2 = z + 5
    OBVIOUS
  <2>3. t3[0 + z + 1] = d[1] /\ t3[0 + z + 2] = d[2] /\ t3[0 + z + 3] = d[3] /\ 0 + z + 3 <= Len(t3)
    BY <1>16, <2>1 DEF Follows
  <2>4. t3[0 + (z + 3) + 1] = x[1] /\ t3[0 + (z + 3) + 2] = x[2]  BY <1>15, <2>1 DEF Follows
  <2>5. t3[z + 1] = "-" /\ t3[z + 2] = "-" /\ t3[z + 3] = "B" /\ z + 3 <= Len(t3)  BY <1>8, <2>2, <2>3, Zenon
  <2>6. t3[z + 4] = "-" /\ t3[z + 5] = "-"  BY <1>8, <2>2, <2>4, Zenon
  <2> QED  BY <2>5, <2>6 DEF BoundaryAt
<1>18. ASSUME NEW k \in 0 .. n - 1
       PROVE  /\ PartThere(t3, off[k], parts[k + 1].head, parts[k + 1].content)
              /\ off[k + 1] = off[k] + 12 + Len(parts[k + 1].content)
  <2>1. k + 1 \in 1 .. n /\ k \in 0 .. n  OBVIOUS
  <2>2. PICK h \in {"note", "file"}, c \in Seq(Chars) :
            h = parts[k + 1].head /\ c = parts[k + 1].content /\ q[k + 1] = OnPaper(h, c)
    BY <1>1, <1>2, <2>1
  <2>3. PieceAt(q, off, t, k)  BY <1>4, <1>7, PieceIsThere
  <2>4. /\ OnPaper(h, c) \in Seq(Chars) /\ Len(OnPaper(h, c)) = 12 + Len(c)
        /\ \A text \in Seq(Chars) : \A a \in Nat : There(text, a, OnPaper(h, c)) => PartThere(text, a, h, c)
    BY PartIsWritten
  <2>5. PICK w \in Seq(Chars) : /\ w = OnPaper(h, c) /\ Len(w) = 12 + Len(c)
                                /\ There(t, off[k], w) /\ off[k + 1] = off[k] + Len(w)
    BY <2>2, <2>3, <2>4 DEF PieceAt
  <2>6. PICK a \in Nat : a = off[k]  BY <1>5, <2>1
  <2>7. There(t3, a, w)
    <3>1. Len(t) = z /\ z <= Len(t3) /\ Len(w) \in Nat  BY <1>7, <1>13 DEF Long
    <3>2. a + Len(w) <= z /\ \A j \in 1 .. Len(w) : t[a + j] = w[j]  BY <2>5, <2>6, <3>1 DEF There
    <3>3. ASSUME NEW j \in 1 .. Len(w) PROVE t3[a + j] = t[a + j]
      <4>1. \A i \in 1 .. z : t3[0 + i] = t[i]  BY <1>16, <3>1 DEF There
      <4>2. a + j \in 1 .. z /\ 0 + (a + j) = a + j  BY <3>1, <3>2
      <4> QED  BY <4>1, <4>2
    <3> QED  BY <3>1, <3>2, <3>3 DEF There
  <2>8. PartThere(t3, a, h, c)  BY <1>13, <2>4, <2>5, <2>7
  <2>9. off[k + 1] = a + 12 + Len(c)
    <3>1. PICK l \in Nat : l = Len(c)  OBVIOUS
    <3>2. Len(w) = 12 + l  BY <2>5, <3>1
    <3>3. PICK m \in Nat : m = Len(w)  OBVIOUS
    <3>4. off[k + 1] = a + m  BY <2>5, <2>6, <3>3, Zenon
    <3>5. a + m = a + 12 + l  BY <3>2, <3>3
    <3> QED  BY <3>1, <3>4, <3>5, Zenon
  <2> QED  BY <2>2, <2>6, <2>8, <2>9
<1>19. ASSUME NEW k \in 0 .. n - 1 PROVE PartAt(t3, off[k], parts[k + 1].head, parts[k + 1].content)
  <2>1. k + 1 \in 1 .. n /\ k \in 0 .. n /\ k + 1 \in 0 .. n /\ (k + 1 \in 0 .. n - 1 \/ k + 1 = n)  OBVIOUS
  <2>2. BoundaryAt(t3, off[k + 1])
    <3>1. CASE k + 1 = n  BY <1>6, <1>17, <3>1
    <3>2. CASE k + 1 \in 0 .. n - 1  BY <1>18, <3>2 DEF PartThere
    <3> QED  BY <2>1, <3>1, <3>2
  <2>3. PICK a \in Nat, b \in Nat, h \in {"note", "file"}, c \in Seq(Chars) :
            a = off[k] /\ b = off[k + 1] /\ h = parts[k + 1].head /\ c = parts[k + 1].content
    BY <1>1, <1>5, <2>1
  <2>4. PartThere(t3, a, h, c) /\ b = a + 12 + Len(c) /\ BoundaryAt(t3, b)  BY <1>18, <2>2, <2>3
  <2>5. PartAt(t3, a, h, c)  BY <1>13, <2>4, PartAtMeans
  <2> QED  BY <2>3, <2>5
<1>20. Laid(t3, parts, off, n)
  <2>1. \A k \in 0 .. n - 1 : Unbroken(parts[k + 1].content)
    <3>1. \A k \in 0 .. n - 1 : k + 1 \in 1 .. n  OBVIOUS
    <3> QED  BY <1>0, <1>1, <3>1
  <2> QED  BY <1>0, <1>1, <1>5, <1>6, <1>13, <1>17, <1>18, <1>19, <2>1 DEF Laid
<1> QED  BY <1>1, <1>12, <1>20

-----------------------------------------------------------------------------
(* The form: one turn of the loop.                                            *)

Start   == turn + Len(Dash)
Closing == SubSeq(stream, Start, Start + 1) = <<"-", "-">>
Begin   == IF SubSeq(stream, Start, Start + 1) = CRLF THEN Start + 2 ELSE Start
HeadEnd == indexOf(CRLF \o CRLF, Begin)
NextOne == indexOf(Dash, HeadEnd + 4)
Body    == SubSeq(stream, HeadEnd + 4, ContentEnd(HeadEnd + 4, NextOne))

\* A turn of the loop in these terms.
LEMMA TurnIs ==
  ASSUME ReadPart
  PROVE  /\ Closing \/ HeadEnd = 0 \/ NextOne = 0 => turn' = 0 /\ got' = got
         /\ ~ (Closing \/ HeadEnd = 0 \/ NextOne = 0) =>
               /\ turn' = NextOne
               /\ got' = IF stream[Begin] = "file" THEN [got EXCEPT !.files = Append(@, Body)]
                         ELSE [got EXCEPT !.note = Body]
         /\ paper' = paper /\ stream' = stream /\ paper.kind = "form" /\ turn > 0
BY Zenon DEF ReadPart, Start, Closing, Begin, HeadEnd, NextOne, Body

\* Two characters, one after the other.
LEMMA TwoCharacters ==
  ASSUME NEW text \in Seq(Chars), NEW i \in Nat, i >= 1, i + 1 <= Len(text), NEW p \in Seq(Chars), Len(p) = 2
  PROVE  SubSeq(text, i, i + 1) = p <=> text[i] = p[1] /\ text[i + 1] = p[2]
<1>1. i + Len(p) - 1 = i + 1 /\ i + Len(p) - 1 <= Len(text)  OBVIOUS
<1>2. SubSeq(text, i, i + Len(p) - 1) = p <=> \A j \in 1 .. Len(p) : text[i + j - 1] = p[j]
  <2>1. ReadsAs(text, i, p)  BY <1>1, SubSeqIs
  <2> QED  BY <2>1, Zenon DEF ReadsAs
<1>3. (\A j \in 1 .. 2 : text[i + j - 1] = p[j]) <=> text[i] = p[1] /\ text[i + 1] = p[2]
  <2>1. 1 \in 1 .. 2 /\ 2 \in 1 .. 2 /\ i + 1 - 1 = i /\ i + 2 - 1 = i + 1 /\ \A j \in 1 .. 2 : j = 1 \/ j = 2  OBVIOUS
  <2> QED  BY <2>1
<1> QED  BY <1>1, <1>2, <1>3

\* A turn at a part takes its content, and goes on at the next boundary.
LEMMA OneTurn ==
  ASSUME NEW a \in Nat, NEW head \in {"note", "file"}, NEW c \in Seq(Chars), NEW b,
         stream \in Seq(Chars), PartAt(stream, a, head, c), Unbroken(c), b = a + 12 + Len(c), turn = a + 1
  PROVE  /\ ~ (Closing \/ HeadEnd = 0 \/ NextOne = 0)
         /\ NextOne = b + 1 /\ stream[Begin] = head /\ Body = c
<1>0. PICK l \in Nat : l = Len(c)  OBVIOUS
<1>1. /\ stream[a + 4] = CR /\ stream[a + 5] = LF /\ stream[a + 6] = head
      /\ \A j \in 1 .. l : stream[a + 10 + j] = c[j]
      /\ stream[a + 11 + l] = CR /\ stream[a + 12 + l] = LF
  BY <1>0 DEF PartAt
<1>2. PICK n \in Nat : n = Len(stream) /\ a + 15 + l <= n  BY <1>0 DEF PartAt
<1>3. Len(Dash) = 3  BY DashType
<1>4. Start = a + 4  BY <1>3 DEF Start
<1>5. PICK x \in Seq(Chars), e \in Seq(Chars) :
          /\ x = <<"-", "-">> /\ Len(x) = 2 /\ x[1] = "-" /\ e = CRLF /\ Len(e) = 2 /\ e[1] = CR /\ e[2] = LF
  BY DashType
<1>6. PICK s \in Nat : s = a + 4 /\ s >= 1 /\ s + 1 <= Len(stream) /\ s + 1 = a + 5  BY <1>2
<1>7. ~ Closing
  <2>0. s >= 1 /\ s + 1 <= Len(stream) /\ Len(x) = 2  BY <1>5, <1>6
  <2>1. SubSeq(stream, s, s + 1) = x <=> stream[s] = x[1] /\ stream[s + 1] = x[2]  BY <2>0, TwoCharacters
  <2>2. stream[s] # x[1]  BY <1>1, <1>5, <1>6 DEF CR
  <2> QED  BY <1>4, <1>5, <1>6, <2>1, <2>2 DEF Closing
<1>8. Begin = a + 6
  <2>1. SubSeq(stream, s, s + 1) = e <=> stream[s] = e[1] /\ stream[s + 1] = e[2]  BY <1>5, <1>6, TwoCharacters
  <2>2. SubSeq(stream, s, s + 1) = e  BY <1>1, <1>5, <1>6, <2>1
  <2>3. Start = s /\ s + 2 = a + 6  BY <1>4, <1>6
  <2>4. Begin = Start + 2  BY <1>5, <2>2, <2>3 DEF Begin
  <2> QED  BY <2>3, <2>4
<1>9. HeadEnd = a + 7
  <2>1. indexOf(CRLF \o CRLF, a + 6) = a + 7  BY HeadersEnd
  <2> QED  BY <1>8, <2>1 DEF HeadEnd
<1>10. NextOne = a + 13 + l
  <2>1. indexOf(Dash, a + 11) = a + 13 + l  BY <1>0, BoundaryNext
  <2>2. HeadEnd + 4 = a + 11  BY <1>9
  <2> QED  BY <2>1, <2>2 DEF NextOne
<1>11. ContentEnd(a + 11, a + 13 + l) = a + 10 + l
  <2>1. /\ (a + 13 + l) - 2 = a + 11 + l /\ (a + 13 + l) - 1 = a + 12 + l /\ (a + 13 + l) - 3 = a + 10 + l
    OBVIOUS
  <2>2. stream[(a + 13 + l) - 2] = CR /\ stream[(a + 13 + l) - 1] = LF  BY <1>1, <2>1
  <2>3. ContentEnd(a + 11, a + 13 + l) = (a + 13 + l) - 3  BY <2>2 DEF ContentEnd
  <2> QED  BY <2>1, <2>3
<1>12. SubSeq(stream, a + 11, a + 10 + l) = c
  <2>1. PICK i \in Nat : i = a + 11  OBVIOUS
  <2>2. i >= 1 /\ i + Len(c) - 1 <= Len(stream) /\ i + Len(c) - 1 = a + 10 + l  BY <1>0, <1>2, <2>1
  <2>3. SubSeq(stream, i, i + Len(c) - 1) = c <=> \A j \in 1 .. Len(c) : stream[i + j - 1] = c[j]  BY <2>2, SubSeqIs DEF ReadsAs
  <2>4. ASSUME NEW j \in 1 .. Len(c) PROVE stream[i + j - 1] = c[j]
    <3>1. i + j - 1 = a + 10 + j /\ j \in 1 .. l  BY <1>0, <2>1
    <3> QED  BY <1>1, <3>1
  <2> QED  BY <2>1, <2>2, <2>3, <2>4
<1>13. Body = c
  <2>1. HeadEnd + 4 = a + 11  BY <1>9
  <2> QED  BY <1>10, <1>11, <1>12, <2>1, Zenon DEF Body
<1>14. NextOne = b + 1 /\ NextOne # 0 /\ HeadEnd # 0
  <2>1. b + 1 = a + 13 + l /\ a + 13 + l # 0 /\ a + 7 # 0  BY <1>0
  <2> QED  BY <1>9, <1>10, <2>1
<1> QED  BY <1>1, <1>7, <1>8, <1>13, <1>14

\* A turn at the closing boundary is the last.
LEMMA LastTurn ==
  ASSUME NEW a \in Nat, stream \in Seq(Chars), stream[a + 4] = "-", stream[a + 5] = "-", Len(stream) = a + 7, turn = a + 1
  PROVE  Closing
<1>1. Len(Dash) = 3  BY DashType
<1>2. PICK x \in Seq(Chars) : x = <<"-", "-">> /\ Len(x) = 2 /\ x[1] = "-" /\ x[2] = "-"  BY DashType
<1>3. PICK s \in Nat : s = a + 4 /\ s >= 1 /\ s + 1 <= Len(stream) /\ s + 1 = a + 5 /\ Start = s  BY <1>1 DEF Start
<1>4. SubSeq(stream, s, s + 1) = x <=> stream[s] = x[1] /\ stream[s + 1] = x[2]  BY <1>2, <1>3, TwoCharacters
<1>5. SubSeq(stream, s, s + 1) = x  BY <1>2, <1>3, <1>4
<1> QED  BY <1>2, <1>3, <1>5 DEF Closing

-----------------------------------------------------------------------------
(* What has been read of a form, turn by turn.                                *)

Headed(parts, h) == {part \in Range(parts) : part.head = h}

Contents(parts) == [i \in DOMAIN parts |-> parts[i].content]

Held == [note : Seq(Chars), files : Seq(Seq(Chars))]

\* Two filters' progress over the parts: f keeps the files, and g the words.
Sorted(parts, f, g) ==
  /\ Sieve(parts, Headed(parts, "file"), f) /\ Sieve(parts, Headed(parts, "note"), g)
  /\ \A i \in 0 .. Len(parts) : f[i] \in Seq(Part) /\ g[i] \in Seq(Part)

\* What is held when the parts f of the files and g of the words have been read.
Holds(have, f, g) ==
  /\ have \in Held
  /\ have.files = Contents(f)
  /\ g # <<>> => have.note = Last(g).content

ReadSoFar(text, at, have, parts, off, f, g, k) ==
  /\ Laid(text, parts, off, Len(parts)) /\ Sorted(parts, f, g)
  /\ k \in 0 .. Len(parts) /\ Holds(have, f[k], g[k])
  /\ (at = off[k] + 1 \/ (at = 0 /\ k = Len(parts)))

\* The contents of one more part.
LEMMA ContentsGrow ==
  ASSUME NEW s \in Seq(Part), NEW p \in Part
  PROVE  Contents(Append(s, p)) = Append(Contents(s), p.content)
<1>1. PICK n \in Nat : n = Len(s) /\ DOMAIN s = 1 .. n /\ \A i \in 1 .. n : s[i] \in Part  BY ElementOfSeq
<1>2. PICK a : /\ a = Append(s, p) /\ DOMAIN a = 1 .. n + 1 /\ a[n + 1] = p /\ \A i \in 1 .. n : a[i] = s[i]
  <2>1. /\ Append(s, p) \in Seq(Part) /\ Len(Append(s, p)) = Len(s) + 1
        /\ \A i \in 1 .. Len(s) : Append(s, p)[i] = s[i]
        /\ Append(s, p)[Len(s) + 1] = p
    BY AppendProperties
  <2>2. DOMAIN Append(s, p) = 1 .. n + 1  BY <1>1, <2>1
  <2> QED  BY <1>1, <2>1, <2>2
<1>3. \A q \in Part : q.content \in Seq(Chars)  BY DEF Part
<1>4. PICK c \in Seq(Seq(Chars)) : c = Contents(s) /\ Len(c) = n /\ \A i \in 1 .. n : c[i] = s[i].content
  <2>1. PICK c : c = [i \in 1 .. n |-> s[i].content]  OBVIOUS
  <2>2. c \in [1 .. n -> Seq(Chars)]  BY <1>1, <1>3, <2>1
  <2>3. c \in Seq(Seq(Chars)) /\ Len(c) = n  BY <2>2
  <2> QED  BY <1>1, <2>1, <2>3 DEF Contents
<1>5. PICK x \in Seq(Chars) : x = p.content  BY <1>3
<1>6. PICK d \in Seq(Seq(Chars)) : /\ d = Append(c, x) /\ Len(d) = n + 1 /\ d[n + 1] = x /\ \A i \in 1 .. n : d[i] = c[i]
  <2>1. /\ Append(c, x) \in Seq(Seq(Chars)) /\ Len(Append(c, x)) = Len(c) + 1
        /\ \A i \in 1 .. Len(c) : Append(c, x)[i] = c[i]
        /\ Append(c, x)[Len(c) + 1] = x
    BY AppendProperties
  <2> QED  BY <1>4, <2>1
<1>7. Contents(a) = [i \in 1 .. n + 1 |-> a[i].content]  BY <1>2 DEF Contents
<1>8. d = [i \in 1 .. n + 1 |-> d[i]]
  <2>1. d \in [1 .. n + 1 -> Seq(Chars)]  BY <1>6, LenProperties
  <2> QED  BY <2>1
<1>9. ASSUME NEW i \in 1 .. n + 1 PROVE a[i].content = d[i]
  <2>1. i \in 1 .. n \/ i = n + 1  OBVIOUS
  <2>2. CASE i \in 1 .. n  BY <1>2, <1>4, <1>6, <2>2
  <2>3. CASE i = n + 1  BY <1>2, <1>5, <1>6, <2>3
  <2> QED  BY <2>1, <2>2, <2>3, Zenon
<1>10. Contents(a) = d  BY <1>7, <1>8, <1>9
<1> QED  BY <1>2, <1>4, <1>5, <1>6, <1>10

\* One more part read: the file it is, or the words.
LEMMA OnePartMore ==
  ASSUME NEW have, NEW s \in Seq(Part), NEW w \in Seq(Part), Holds(have, s, w), NEW p \in Part
  PROVE  /\ p.head = "file" => Holds([have EXCEPT !.files = Append(@, p.content)], Append(s, p), w)
         /\ p.head # "file" => Holds([have EXCEPT !.note = p.content], s, Append(w, p))
<1>1. p.content \in Seq(Chars)  BY DEF Part
<1>2. PICK c \in Seq(Chars) : c = p.content  BY <1>1
<1>3. have \in Held /\ have.files \in Seq(Seq(Chars)) /\ have.note \in Seq(Chars)  BY DEF Holds, Held
<1>4. PICK d \in Seq(Seq(Chars)) : d = Append(have.files, c)  BY <1>2, <1>3, AppendProperties
<1>5. PICK h \in Held : /\ h = [have EXCEPT !.files = Append(@, p.content)]
                        /\ h.files = d /\ h.note = have.note
  <2>1. PICK h : h = [have EXCEPT !.files = d]  OBVIOUS
  <2>2. h \in Held /\ h.files = d /\ h.note = have.note  BY <1>3, <2>1 DEF Held
  <2> QED  BY <1>2, <1>4, <2>1, <2>2
<1>6. PICK n \in Held : /\ n = [have EXCEPT !.note = p.content]
                        /\ n.files = have.files /\ n.note = c
  <2>1. PICK n : n = [have EXCEPT !.note = c]  OBVIOUS
  <2>2. n \in Held /\ n.files = have.files /\ n.note = c  BY <1>3, <2>1 DEF Held
  <2> QED  BY <1>2, <2>1, <2>2
<1>7. Holds(h, Append(s, p), w)
  <2>1. h.files = Contents(Append(s, p))  BY <1>2, <1>4, <1>5, ContentsGrow DEF Holds
  <2> QED  BY <1>5, <2>1 DEF Holds
<1>8. Holds(n, s, Append(w, p))
  <2>1. Last(Append(w, p)) = p
    <3>1. /\ Append(w, p) \in Seq(Part) /\ Len(Append(w, p)) = Len(w) + 1
          /\ Append(w, p)[Len(w) + 1] = p
      BY AppendProperties
    <3> QED  BY <3>1 DEF Last
  <2> QED  BY <1>2, <1>6, <2>1 DEF Holds
<1> QED  BY <1>5, <1>6, <1>7, <1>8

\* One more part, p, goes to one of the two lists.
Sorting(f, g, k, p) ==
  /\ p \in Part /\ f[k] \in Seq(Part) /\ g[k] \in Seq(Part)
  /\ p.head = "file" => f[k + 1] = Append(f[k], p) /\ g[k + 1] = g[k]
  /\ p.head # "file" => f[k + 1] = f[k] /\ g[k + 1] = Append(g[k], p)

\* What the two filters make of one more part.
LEMMA PartInTurn ==
  ASSUME NEW parts \in Seq(Part), NEW f, NEW g, Sorted(parts, f, g), NEW k \in 0 .. Len(parts) - 1, NEW p, p = parts[k + 1]
  PROVE  Sorting(f, g, k, p)
<1>0. PICK n \in Nat : n = Len(parts) /\ DOMAIN parts = 1 .. n  OBVIOUS
<1>1. k + 1 \in 1 .. n /\ (k + 1) - 1 = k /\ k \in 0 .. n  BY <1>0
<1>2. p \in Part /\ p \in Range(parts)
  <2>1. p \in Part  BY <1>0, <1>1, ElementOfSeq
  <2>2. p \in Range(parts)  BY <1>0, <1>1 DEF Range
  <2> QED  BY <2>1, <2>2
<1>3. p.head = "file" \/ (p.head = "note" /\ p.head # "file")
  <2>1. \A part \in Part : part.head \in {"note", "file"}  BY DEF Part
  <2>2. p.head = "file" \/ p.head = "note"  BY <1>2, <2>1
  <2> QED  BY <2>2
<1>4. /\ f[k + 1] = IF p \in Headed(parts, "file") THEN Append(f[k], p) ELSE f[k]
      /\ g[k + 1] = IF p \in Headed(parts, "note") THEN Append(g[k], p) ELSE g[k]
  <2>1. /\ \A i \in 1 .. n : f[i] = IF parts[i] \in Headed(parts, "file") THEN Append(f[i - 1], parts[i]) ELSE f[i - 1]
        /\ \A i \in 1 .. n : g[i] = IF parts[i] \in Headed(parts, "note") THEN Append(g[i - 1], parts[i]) ELSE g[i - 1]
    BY <1>0 DEF Sorted, Sieve
  <2>2. PICK i \in 1 .. n : i = k + 1 /\ i - 1 = k  BY <1>1
  <2> QED  BY <2>1, <2>2
<1>5. (p \in Headed(parts, "file") <=> p.head = "file") /\ (p \in Headed(parts, "note") <=> p.head = "note")
  BY <1>2, Zenon DEF Headed
<1>6. f[k] \in Seq(Part) /\ g[k] \in Seq(Part)  BY <1>0, <1>1 DEF Sorted
<1> QED  BY <1>2, <1>3, <1>4, <1>5, <1>6, Zenon DEF Sorting

\* No turn loses or adds anything.
LEMMA FormOneTurn ==
  ASSUME NEW parts, NEW off, NEW f, NEW g, NEW k,
         ReadSoFar(stream, turn, got, parts, off, f, g, k), ReadPart
  PROVE  \E j : ReadSoFar(stream', turn', got', parts, off, f, g, j)
<1>1. PICK n \in Nat : n = Len(parts)  BY DEF ReadSoFar, Laid
<1>2. Laid(stream, parts, off, n) /\ Sorted(parts, f, g) /\ k \in 0 .. n /\ Holds(got, f[k], g[k])
  BY <1>1 DEF ReadSoFar
<1>3. turn > 0 /\ stream' = stream  BY TurnIs
<1>4. turn = off[k] + 1  BY <1>3 DEF ReadSoFar
<1>5. CASE k = n
  <2>1. PICK a \in Nat : a = off[k]  BY <1>2 DEF Laid
  <2>2. stream \in Seq(Chars) /\ stream[a + 4] = "-" /\ stream[a + 5] = "-" /\ Len(stream) = a + 7
    BY <1>2, <1>5, <2>1 DEF Laid
  <2>3. turn = a + 1  BY <1>4, <2>1
  <2>4. Closing  BY <2>2, <2>3, LastTurn
  <2>5. turn' = 0 /\ got' = got  BY <2>4, TurnIs
  <2> QED  BY <1>1, <1>2, <1>3, <1>5, <2>5 DEF ReadSoFar
<1>6. CASE k # n
  <2>1. k \in 0 .. n - 1 /\ k + 1 \in 0 .. n /\ k \in 0 .. n /\ k + 1 \in 1 .. n  BY <1>1, <1>2, <1>6
  <2>2. parts \in Seq(Part) /\ stream \in Seq(Chars)  BY <1>2 DEF Laid
  <2>3. PICK p \in Part : p = parts[k + 1]  BY <1>1, <2>1, <2>2, ElementOfSeq
  <2>4. PICK a \in Nat, b \in Nat : a = off[k] /\ b = off[k + 1]  BY <1>2, <2>1 DEF Laid
  <2>5. PICK h \in {"note", "file"}, c \in Seq(Chars) : h = p.head /\ c = p.content
    <3>1. \A part \in Part : part.head \in {"note", "file"} /\ part.content \in Seq(Chars)  BY DEF Part
    <3> QED  BY <3>1
  <2>6. PartAt(stream, a, h, c) /\ Unbroken(c) /\ b = a + 12 + Len(c)
    BY <1>2, <2>1, <2>3, <2>4, <2>5 DEF Laid
  <2>7. turn = a + 1  BY <1>4, <2>4
  <2>8. ~ (Closing \/ HeadEnd = 0 \/ NextOne = 0) /\ NextOne = b + 1 /\ stream[Begin] = h /\ Body = c
    BY <2>2, <2>6, <2>7, OneTurn
  <2>9. /\ turn' = off[k + 1] + 1
        /\ got' = IF p.head = "file" THEN [got EXCEPT !.files = Append(@, p.content)] ELSE [got EXCEPT !.note = p.content]
    <3>1. /\ turn' = NextOne
          /\ got' = IF stream[Begin] = "file" THEN [got EXCEPT !.files = Append(@, Body)] ELSE [got EXCEPT !.note = Body]
      BY <2>8, TurnIs
    <3>2. NextOne = off[k + 1] + 1 /\ stream[Begin] = p.head /\ Body = p.content  BY <2>4, <2>5, <2>8, Zenon
    <3> QED  BY <3>1, <3>2, Zenon
  <2>10. /\ f[k] \in Seq(Part) /\ g[k] \in Seq(Part)
         /\ p.head = "file" => f[k + 1] = Append(f[k], p) /\ g[k + 1] = g[k]
         /\ p.head # "file" => f[k + 1] = f[k] /\ g[k + 1] = Append(g[k], p)
    <3>1. Sorted(parts, f, g)  BY <1>2
    <3>2. k \in 0 .. Len(parts) - 1  BY <1>1, <2>1
    <3>3. Sorting(f, g, k, p)  BY <2>2, <2>3, <3>1, <3>2, PartInTurn
    <3> QED  BY <3>3, Zenon DEF Sorting
  <2>11. /\ p.head = "file" => Holds([got EXCEPT !.files = Append(@, p.content)], Append(f[k], p), g[k])
         /\ p.head # "file" => Holds([got EXCEPT !.note = p.content], f[k], Append(g[k], p))
    BY <1>2, <2>10, OnePartMore
  <2>12. Holds(got', f[k + 1], g[k + 1])  BY <2>9, <2>10, <2>11
  <2> QED  BY <1>1, <1>2, <1>3, <2>1, <2>9, <2>12 DEF ReadSoFar
<1> QED  BY <1>5, <1>6

\* Before a text has been read, and after it.
SheetInvariant ==
  /\ paper.kind = "sheet" /\ paper.of \in Books /\ stream = clientsCsv(paper.of)
  /\ turn = 1 \/ (turn = 0 /\ got = clientRowsFromCsv(Trim(stream)))

FormInvariant ==
  /\ paper.kind = "form" /\ paper.of \in Letters
  /\ \E off, f, g, k : /\ ReadSoFar(stream, turn, got, paper.of, off, f, g, k)
                       /\ Only(paper.of, Headed(paper.of, "file")) = f[Len(paper.of)]
                       /\ Only(paper.of, Headed(paper.of, "note")) = g[Len(paper.of)]

ReadingInvariant == SheetInvariant \/ FormInvariant

\* A text that nobody has read.
LEMMA ReadingInit == FormatInit => ReadingInvariant
<1> SUFFICES ASSUME FormatInit PROVE ReadingInvariant  OBVIOUS
<1>1. ASSUME NEW rows \in Books, paper = [kind |-> "sheet", of |-> rows], stream = clientsCsv(rows)
      PROVE  SheetInvariant
  <2>1. paper.kind = "sheet" /\ paper.of = rows  BY <1>1
  <2> QED  BY <1>1, <2>1 DEF SheetInvariant, FormatInit
<1>2. ASSUME NEW parts \in Letters, paper = [kind |-> "form", of |-> parts], stream = Compose(parts), got = NothingYet
      PROVE  FormInvariant
  <2>1. paper.kind = "form" /\ paper.of = parts  BY <1>2
  <2>2. PICK off : Laid(stream, parts, off, Len(parts))  BY <1>2, FormIsLaid
  <2>3. parts \in Seq(Part)  BY PartTypes
  <2>4. PICK f : /\ Only(parts, Headed(parts, "file")) = f[Len(parts)] /\ Sieve(parts, Headed(parts, "file"), f)
                 /\ \A i \in 0 .. Len(parts) : f[i] \in Seq(Part)
    BY <2>3, Sifted
  <2>5. PICK g : /\ Only(parts, Headed(parts, "note")) = g[Len(parts)] /\ Sieve(parts, Headed(parts, "note"), g)
                 /\ \A i \in 0 .. Len(parts) : g[i] \in Seq(Part)
    BY <2>3, Sifted
  <2>6. Sorted(parts, f, g) /\ f[0] = <<>> /\ g[0] = <<>>  BY <2>4, <2>5 DEF Sorted, Sieve
  <2>7. Holds(got, <<>>, <<>>)
    <3>0. <<>> \in Seq(Chars) /\ <<>> \in Seq(Seq(Chars))  OBVIOUS
    <3>1. PICK c \in Seq(Chars), d \in Seq(Seq(Chars)) : c = <<>> /\ d = <<>>  BY <3>0, Zenon
    <3>2. got = [note |-> c, files |-> d]  BY <1>2, <3>1 DEF NothingYet
    <3>3. got \in Held /\ got.files = <<>>  BY <3>1, <3>2 DEF Held
    <3>4. Contents(<<>>) = <<>>  BY DEF Contents
    <3> QED  BY <3>3, <3>4 DEF Holds
  <2>8. turn = off[0] + 1 /\ 0 \in 0 .. Len(parts)
    <3>1. turn = 1 /\ off[0] = 0 /\ Len(parts) \in Nat  BY <2>2, <2>3 DEF FormatInit, Laid
    <3> QED  BY <3>1
  <2>9. ReadSoFar(stream, turn, got, parts, off, f, g, 0)  BY <2>2, <2>6, <2>7, <2>8 DEF ReadSoFar
  <2> QED  BY <1>2, <2>1, <2>4, <2>5, <2>9 DEF FormInvariant
<1> QED  BY <1>1, <1>2 DEF FormatInit, ReadingInvariant

\* No step breaks the invariant of reading.
LEMMA ReadingStep == ReadingInvariant /\ [FormatNext]_formatVars => ReadingInvariant'
<1> SUFFICES ASSUME ReadingInvariant, [FormatNext]_formatVars PROVE ReadingInvariant'  OBVIOUS
<1>1. CASE ReadSheet
  <2>1. SheetInvariant  BY <1>1 DEF ReadSheet, ReadingInvariant, FormInvariant
  <2>2. paper' = paper /\ stream' = stream /\ turn' = 0 /\ got' = clientRowsFromCsv(Trim(stream))  BY <1>1 DEF ReadSheet
  <2> QED  BY <2>1, <2>2 DEF SheetInvariant, ReadingInvariant
<1>2. CASE ReadPart
  <2>1. paper' = paper /\ paper.kind = "form"  BY <1>2, TurnIs
  <2>2. FormInvariant  BY <2>1 DEF ReadingInvariant, SheetInvariant
  <2>3. PICK off, f, g, k : /\ ReadSoFar(stream, turn, got, paper.of, off, f, g, k)
                            /\ Only(paper.of, Headed(paper.of, "file")) = f[Len(paper.of)]
                            /\ Only(paper.of, Headed(paper.of, "note")) = g[Len(paper.of)]
    BY <2>2 DEF FormInvariant
  <2>4. PICK j : ReadSoFar(stream', turn', got', paper.of, off, f, g, j)  BY <1>2, <2>3, FormOneTurn
  <2>5. FormInvariant'  BY <2>1, <2>2, <2>3, <2>4 DEF FormInvariant
  <2> QED  BY <2>5 DEF ReadingInvariant
<1>3. CASE UNCHANGED formatVars  BY <1>3 DEF formatVars, ReadingInvariant, SheetInvariant, FormInvariant
<1> QED  BY <1>1, <1>2, <1>3 DEF FormatNext

\* And what has been read is what was written.
LEMMA ReadingMeans == ReadingInvariant => WrittenIsRead
<1> SUFFICES ASSUME ReadingInvariant, turn = 0 PROVE WrittenIsRead  BY DEF WrittenIsRead
<1>1. CASE SheetInvariant
  <2>1. got = clientRowsFromCsv(Trim(stream)) /\ paper.kind = "sheet" /\ paper.of \in Books /\ stream = clientsCsv(paper.of)
    BY <1>1 DEF SheetInvariant
  <2>2. got = [i \in DOMAIN paper.of |-> [name  |-> Carried(paper.of[i].name),
                                         email |-> Carried(paper.of[i].email)]]
    BY <2>1, SheetIsRead, Zenon
  <2> QED  BY <2>1, <2>2, Zenon DEF WrittenIsRead
<1>2. CASE FormInvariant
  <2>1. PICK off, f, g, k : /\ ReadSoFar(stream, turn, got, paper.of, off, f, g, k)
                            /\ Only(paper.of, Headed(paper.of, "file")) = f[Len(paper.of)]
                            /\ Only(paper.of, Headed(paper.of, "note")) = g[Len(paper.of)]
    BY <1>2 DEF FormInvariant
  <2>2. k = Len(paper.of)
    <3>1. k \in 0 .. Len(paper.of) /\ \A i \in 0 .. Len(paper.of) : off[i] \in Nat  BY <2>1 DEF ReadSoFar, Laid
    <3>2. off[k] + 1 # 0  BY <3>1
    <3> QED  BY <2>1, <3>2 DEF ReadSoFar
  <2>3. Holds(got, Only(paper.of, Headed(paper.of, "file")), Only(paper.of, Headed(paper.of, "note")))
    BY <2>1, <2>2 DEF ReadSoFar
  <2>4. paper.kind # "sheet"  BY <1>2 DEF FormInvariant
  <2>5. /\ got.files = Contents(Only(paper.of, Headed(paper.of, "file")))
        /\ Only(paper.of, Headed(paper.of, "note")) # <<>> => got.note = Last(Only(paper.of, Headed(paper.of, "note"))).content
    BY <2>3 DEF Holds
  <2> QED  BY <2>4, <2>5, Zenon DEF WrittenIsRead, Contents, Headed
<1> QED  BY <1>1, <1>2 DEF ReadingInvariant

\* What is written is read, for any client lists and any forms: an exported list
\* comes back through parseCsv and clientRowsFromCsv row for row and cell for cell,
\* and parseMultipart returns every file and the words of a form byte for byte.
THEOREM WrittenTextsAreRead == FormatSpec => []WrittenIsRead
BY ReadingInit, ReadingStep, ReadingMeans, PTL DEF FormatSpec
=============================================================================
