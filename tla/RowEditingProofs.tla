-------------------------- MODULE RowEditingProofs --------------------------
(* Proofs about the data tab: of any user, then of a careful one.            *)
EXTENDS RowEditing, FiniteSetTheorems, SequenceTheorems, TLAPS

(* The smaller and the larger of two numbers.                               *)
LEMMA MinMax ==
  ASSUME NEW a \in Int, NEW b \in Int
  PROVE  /\ Min({a, b}) = IF a <= b THEN a ELSE b
         /\ Max({a, b}) = IF a <= b THEN b ELSE a
  BY DEF Min, Max

(* A set of numbers has a least one.                                        *)
LEMMA LeastNumber ==
  ASSUME NEW S \in SUBSET Nat, S # {}
  PROVE  \E n \in S : \A m \in S : n <= m
  <1> DEFINE R == StrictSubsetOrdering(Nat)
             Below == {0 .. m : m \in S}
  <1>1. IsWellFoundedOn(R, FiniteSubsetsOf(Nat))
    BY FS_StrictSubsetOrderingWellFounded
  <1>2. Below \subseteq FiniteSubsetsOf(Nat) /\ Below # {}
    <2>1. \A m \in S : 0 .. m \in SUBSET Nat /\ IsFiniteSet(0 .. m)
      BY FS_Interval
    <2> QED
      BY <2>1 DEF FiniteSubsetsOf
  <1>3. \A m, n \in S : m < n => <<0 .. m, 0 .. n>> \in R
    <2> SUFFICES ASSUME NEW m \in S, NEW n \in S, m < n
                 PROVE  0 .. m \subseteq 0 .. n /\ 0 .. m # 0 .. n
      BY DEF StrictSubsetOrdering
    <2>1. n \in 0 .. n /\ n \notin 0 .. m
      OBVIOUS
    <2> QED
      BY <2>1
  <1> HIDE DEF R
  <1>4. PICK U \in Below : \A V \in Below : <<V, U>> \notin R
    BY <1>1, <1>2, WFMin
  <1>5. PICK n \in S : U = 0 .. n
    BY <1>4
  <1>6. \A m \in S : ~(m < n)
    BY <1>3, <1>4, <1>5
  <1> QED
    BY <1>6

(* Every place up to the number of keys is that of a key.                    *)
LEMMA KeyAtPlace ==
  ASSUME NEW D \in SUBSET Keys, NEW i \in 1 .. Cardinality(D)
  PROVE  \E k \in D : Cardinality({j \in D : j <= k}) = i
  <1> DEFINE UpTo(k) == {j \in D : j <= k}
  <1>1. MaxKey \in Nat
    BY RowEditingAssumption
  <1>2. IsFiniteSet(D)
    <2>1. IsFiniteSet(Keys)
      BY <1>1, FS_Interval DEF Keys
    <2> QED
      BY <2>1, FS_Subset
  <1>0. \A j \in D : j \in Nat /\ 1 <= j /\ j <= MaxKey
    BY <1>1 DEF Keys
  <1>3. \A k : IsFiniteSet(UpTo(k)) /\ Cardinality(UpTo(k)) \in Nat
    BY <1>2, FS_Subset, FS_CardinalityType
  <1>4. Cardinality(UpTo(MaxKey)) = Cardinality(D)
    <2>1. UpTo(MaxKey) = D
      BY <1>0
    <2> QED
      BY <2>1
  <1>5. Cardinality(UpTo(0)) = 0
    <2>1. UpTo(0) = {}
      BY <1>0
    <2> QED
      BY <2>1, FS_EmptySet
  <1>6. Cardinality(D) \in Nat
    BY <1>2, FS_CardinalityType
  <1> DEFINE Enough == {k \in Nat : Cardinality(UpTo(k)) >= i}
  <1>7. MaxKey \in Enough
    BY <1>1, <1>4, <1>6
  <1>8. PICK k \in Enough : \A m \in Enough : k <= m
    BY <1>7, LeastNumber
  <1>9. k \in Nat /\ Cardinality(UpTo(k)) >= i
    BY <1>8
  <1>10. k # 0
    BY <1>5, <1>9
  <1>11. Cardinality(UpTo(k - 1)) < i
    <2>1. k - 1 \in Nat /\ k - 1 \notin Enough
      BY <1>8, <1>9, <1>10
    <2> QED
      BY <2>1, <1>3
  <1>12. k \in D
    <2>1. SUFFICES ASSUME k \notin D PROVE FALSE
      OBVIOUS
    <2>2. UpTo(k) = UpTo(k - 1)
      BY <2>1, <1>0, <1>9
    <2>3. Cardinality(UpTo(k)) = Cardinality(UpTo(k - 1))
      BY <2>2
    <2> QED
      BY <2>3, <1>3, <1>9, <1>11
  <1>13. UpTo(k) = UpTo(k - 1) \cup {k} /\ k \notin UpTo(k - 1)
    <2>1. k \notin UpTo(k - 1)
      BY <1>9
    <2>2. ASSUME NEW j \in UpTo(k) PROVE j \in UpTo(k - 1) \cup {k}
      BY <2>2, <1>0, <1>9
    <2>3. ASSUME NEW j \in UpTo(k - 1) PROVE j \in UpTo(k)
      BY <2>3, <1>0, <1>9
    <2>4. k \in UpTo(k)
      BY <1>9, <1>12
    <2> QED
      BY <2>1, <2>2, <2>3, <2>4
  <1>14. Cardinality(UpTo(k)) = Cardinality(UpTo(k - 1)) + 1
    <2>1. IsFiniteSet(UpTo(k - 1))
      BY <1>3
    <2> HIDE DEF UpTo
    <2> QED
      BY <1>13, <2>1, FS_AddElement
  <1>15. Cardinality(UpTo(k)) = i
    <2>1. Cardinality(UpTo(k - 1)) \in Nat
      BY <1>3
    <2> HIDE DEF UpTo
    <2> QED
      BY <1>14, <1>11, <1>9, <2>1
  <1> QED
    BY <1>12, <1>15

TableType(T) == DOMAIN T \subseteq Keys /\ \A k \in DOMAIN T : T[k] \in Vals

(* What a SELECT returns is a sequence of rows.                              *)
LEMMA FetchedType ==
  ASSUME NEW T, TableType(T), NEW offset \in Nat, NEW limit \in Nat
  PROVE  Fetched(T, offset, limit) \in Seq(Row)
  <1> DEFINE size == Cardinality(DOMAIN T)
             last == Min({size, offset + limit})
             count == Max({0, last - offset})
             KeyAt(i) == CHOOSE k \in DOMAIN T : Cardinality({j \in DOMAIN T : j <= k}) = i
  <1>1. size \in Nat
    <2>1. IsFiniteSet(Keys)
      BY RowEditingAssumption, FS_Interval DEF Keys
    <2> QED
      BY <2>1, FS_Subset, FS_CardinalityType DEF TableType
  <1>2. last \in Nat /\ last <= size
    <2>1. offset + limit \in Nat
      OBVIOUS
    <2> QED
      BY <1>1, <2>1, MinMax
  <1> HIDE DEF last
  <1>3. count \in Nat /\ \A i \in 1 .. count : offset + i \in 1 .. size
    <2>1. count = IF 0 <= last - offset THEN last - offset ELSE 0
      BY <1>2, MinMax
    <2> QED
      BY <1>1, <1>2, <2>1
  <1> HIDE DEF count, size
  <1>4. \A i \in 1 .. size : KeyAt(i) \in DOMAIN T
    BY KeyAtPlace DEF TableType, size
  <1>5. \A i \in 1 .. count : Stored(T, KeyAt(offset + i)) \in Row
    <2> SUFFICES ASSUME NEW i \in 1 .. count PROVE Stored(T, KeyAt(offset + i)) \in Row
      OBVIOUS
    <2>1. KeyAt(offset + i) \in DOMAIN T
      BY <1>3, <1>4
    <2> HIDE DEF KeyAt
    <2> QED
      BY <2>1 DEF TableType, Stored, Row
  <1>6. [i \in 1 .. count |-> Stored(T, KeyAt(offset + i))] \in Seq(Row)
    BY <1>3, <1>5
  <1> QED
    BY <1>6 DEF Fetched, count, last, size

(* Removing a row, and inserting one.                                       *)
LEMMA RemoveAtFacts ==
  ASSUME NEW S, NEW s \in Seq(S), NEW i \in 1 .. Len(s)
  PROVE  /\ RemoveAt(s, i) \in Seq(S)
         /\ Len(RemoveAt(s, i)) = Len(s) - 1
         /\ \A j \in 1 .. i - 1 : RemoveAt(s, i)[j] = s[j]
         /\ \A j \in i .. Len(s) - 1 : RemoveAt(s, i)[j] = s[j + 1]
  <1> DEFINE a == SubSeq(s, 1, i - 1)
             b == SubSeq(s, i + 1, Len(s))
  <1>1. a \in Seq(S) /\ Len(a) = i - 1 /\ \A j \in 1 .. i - 1 : a[j] = s[j]
    OBVIOUS
  <1>2. b \in Seq(S) /\ Len(b) = Len(s) - i /\ \A j \in 1 .. Len(s) - i : b[j] = s[i + j]
    OBVIOUS
  <1>3. RemoveAt(s, i) = a \o b
    BY DEF RemoveAt
  <1> HIDE DEF a, b
  <1>4. /\ a \o b \in Seq(S) /\ Len(a \o b) = Len(a) + Len(b)
        /\ \A j \in 1 .. Len(a) + Len(b) :
               (a \o b)[j] = IF j <= Len(a) THEN a[j] ELSE b[j - Len(a)]
    BY <1>1, <1>2, ConcatProperties
  <1>5. \A j \in i .. Len(s) - 1 : (a \o b)[j] = s[j + 1]
    <2> SUFFICES ASSUME NEW j \in i .. Len(s) - 1 PROVE (a \o b)[j] = s[j + 1]
      OBVIOUS
    <2>1. j - Len(a) \in 1 .. Len(s) - i /\ i + (j - Len(a)) = j + 1
      BY <1>1
    <2>2. (a \o b)[j] = b[j - Len(a)]
      BY <1>1, <1>2, <1>4
    <2>3. b[j - Len(a)] = s[i + (j - Len(a))]
      BY <1>2, <2>1
    <2> QED
      BY <2>1, <2>2, <2>3
  <1> QED
    BY <1>1, <1>2, <1>3, <1>4, <1>5

LEMMA InsertAtFacts ==
  ASSUME NEW S, NEW s \in Seq(S), NEW i \in 1 .. Len(s) + 1, NEW new \in S
  PROVE  /\ InsertAt(s, i, new) \in Seq(S)
         /\ Len(InsertAt(s, i, new)) = Len(s) + 1
         /\ \A j \in 1 .. i - 1 : InsertAt(s, i, new)[j] = s[j]
         /\ \A j \in i .. Len(s) : InsertAt(s, i, new)[j + 1] = s[j]
  <1> DEFINE a == SubSeq(s, 1, i - 1)
             b == SubSeq(s, i, Len(s))
  <1>1. a \in Seq(S) /\ Len(a) = i - 1 /\ \A j \in 1 .. i - 1 : a[j] = s[j]
    OBVIOUS
  <1>2. /\ b \in Seq(S) /\ Len(b) = Len(s) - i + 1
        /\ \A j \in 1 .. Len(s) - i + 1 : b[j] = s[i + j - 1]
    OBVIOUS
  <1>3. InsertAt(s, i, new) = a \o <<new>> \o b
    BY DEF InsertAt
  <1> HIDE DEF a, b
  <1>4. <<new>> \in Seq(S) /\ Len(<<new>>) = 1
    OBVIOUS
  <1> DEFINE c == a \o <<new>>
  <1>5. c \in Seq(S) /\ Len(c) = i /\ \A j \in 1 .. i - 1 : c[j] = a[j]
    BY <1>1, <1>4, ConcatProperties
  <1>7. InsertAt(s, i, new) = c \o b
    BY <1>3
  <1> HIDE DEF c
  <1>6. /\ c \o b \in Seq(S) /\ Len(c \o b) = Len(c) + Len(b)
        /\ \A j \in 1 .. Len(c) + Len(b) :
               (c \o b)[j] = IF j <= Len(c) THEN c[j] ELSE b[j - Len(c)]
    BY <1>2, <1>5, ConcatProperties
  <1>8. \A j \in i .. Len(s) : (c \o b)[j + 1] = s[j]
    <2> SUFFICES ASSUME NEW j \in i .. Len(s) PROVE (c \o b)[j + 1] = s[j]
      OBVIOUS
    <2>1. j + 1 - Len(c) \in 1 .. Len(s) - i + 1 /\ i + (j + 1 - Len(c)) - 1 = j
      BY <1>5
    <2>2. (c \o b)[j + 1] = b[j + 1 - Len(c)]
      BY <1>2, <1>5, <1>6
    <2>3. b[j + 1 - Len(c)] = s[i + (j + 1 - Len(c)) - 1]
      BY <1>2, <2>1
    <2> QED
      BY <2>1, <2>2, <2>3
  <1> QED
    BY <1>1, <1>2, <1>5, <1>6, <1>7, <1>8

(* The view's current row after row r is removed is one that is left.        *)
LEMMA ViewStays ==
  ASSUME rows \in Seq(Row), NEW v \in 0 .. Len(rows), NEW r \in 0 .. Len(rows)
  PROVE  /\ ViewAfter(v, r) \in Nat
         /\ ViewAfter(v, r) <= IF r = 0 THEN Len(rows) ELSE Len(rows) - 1
         /\ Neighbour(r) \in Nat
  BY DEF ViewAfter, Shifted, Neighbour

SafeInv == TypeOK /\ RowsInRange

LEMMA NoDraftType == NoDraft \in Draft /\ DefaultRow \in Row /\ ~NoDraft.inserted
  BY RowEditingAssumption DEF NoDraft, Draft, DefaultRow, Row, NoKey

(* The row being edited, while there is one.                                 *)
LEMMA EditedRow ==
  ASSUME SafeInv, Editing
  PROVE  /\ edited.row \in 1 .. Len(rows) /\ rows[edited.row] \in Row
         /\ edited.data \in Row /\ edited.inserted \in BOOLEAN /\ viewCur # 0
  BY DEF SafeInv, TypeOK, RowsInRange, Draft

LEMMA PutType ==
  ASSUME NEW T, TableType(T), NEW k \in Keys, NEW v \in Vals
  PROVE  TableType(Put(T, k, v))
  BY DEF TableType, Put

LEMMA WithoutType ==
  ASSUME NEW T, TableType(T), NEW k
  PROVE  TableType(Without(T, k))
  BY DEF TableType, Without

LEMMA InsertType ==
  ASSUME TableType(table), NEW d \in Row, NEW e \in InsertEffects(d)
  PROVE  TableType(e.table) /\ e.data \in Row
  <1>1. PICK k \in NewKeys(d) : e = [table |-> Put(table, k, d.val), data |-> [d EXCEPT !.key = k]]
    BY DEF InsertEffects
  <1>2. k \in Keys
    <2>1. d.key \in Keys \cup {NoKey}
      BY DEF Row
    <2> QED
      BY <2>1 DEF NewKeys
  <1>3. d.val \in Vals /\ [d EXCEPT !.key = k] \in Row
    BY <1>2 DEF Row
  <1> QED
    BY <1>1, <1>2, <1>3, PutType

LEMMA UpdateType ==
  ASSUME TableType(table), NEW old \in Row, NEW d \in Row, NEW e \in UpdateEffects(old, d)
  PROVE  TableType(e.table) /\ e.data \in Row
  <1>1. PICK T \in Updated(old, d) :
          e = [table |-> T, data |-> IF d.key \in DOMAIN T THEN Stored(T, d.key) ELSE d]
    BY DEF UpdateEffects
  <1>2. TableType(T)
    <2>1. CASE old.key \notin DOMAIN table
      BY <1>1, <2>1 DEF Updated
    <2>2. CASE old.key \in DOMAIN table
      <3>1. PICK k \in {d.key} \ ({NoKey} \cup (DOMAIN table \ {old.key})) :
              T = Put(Without(table, old.key), k,
                      IF d.val = old.val THEN table[old.key] ELSE d.val)
        BY <1>1, <2>2 DEF Updated
      <3>2. k \in Keys
        BY DEF Row
      <3>3. (IF d.val = old.val THEN table[old.key] ELSE d.val) \in Vals
        BY <2>2 DEF Row, TableType
      <3> QED
        BY <3>1, <3>2, <3>3, PutType, WithoutType
    <2> QED
      BY <2>1, <2>2
  <1>3. ASSUME d.key \in DOMAIN T PROVE Stored(T, d.key) \in Row
    BY <1>2, <1>3 DEF TableType, Stored, Row
  <1> QED
    BY <1>1, <1>2, <1>3

(* What saving the draft leaves on the server and reads back.                *)
LEMMA EffectsType ==
  ASSUME SafeInv, Editing, NEW e \in Effects
  PROVE  TableType(e.table) /\ e.data \in Row
  <1>1. TableType(table)
    BY DEF SafeInv, TypeOK, TableType
  <1> QED
    BY <1>1, EditedRow, InsertType, UpdateType DEF Effects

(* What applying may do: it ends the draft, or leaves it on its row; a new    *)
(* row's stays as it was; and at most the row asked for is removed.          *)
Outcome(dropped) ==
    /\ TableType(table') /\ rows' \in Seq(Row)
    /\ edited' \in Draft /\ nextEnabled' \in BOOLEAN
    /\ Len(rows') = IF dropped = 0 THEN Len(rows) ELSE Len(rows) - 1
    /\ edited'.inserted => edited' = edited
    /\ edited' = NoDraft \/ (dropped = 0 /\ Editing /\ edited'.row = edited.row)
    /\ table' # table => ~edited'.inserted

LEMMA SaveOutcome == ASSUME SafeInv, Editing, Save PROVE Outcome(0)
  <1>1. PICK e \in Effects : /\ table' = e.table
                             /\ rows' = [rows EXCEPT ![edited.row] = e.data]
                             /\ edited' = NoDraft
    BY DEF Save
  <1>2. TableType(e.table) /\ e.data \in Row
    BY EffectsType
  <1>3. rows \in Seq(Row)
    BY DEF SafeInv, TypeOK
  <1>4. rows' \in Seq(Row) /\ Len(rows') = Len(rows)
    <2>1. edited.row \in 1 .. Len(rows)
      BY EditedRow
    <2> QED
      BY <1>1, <1>2, <1>3, <2>1
  <1>5. nextEnabled' \in BOOLEAN
    BY DEF Save, EditingPrepared, CanShowMore
  <1> QED
    BY <1>1, <1>2, <1>4, <1>5, NoDraftType DEF Outcome

LEMMA BlindOutcome == ASSUME SafeInv, Editing, SaveBlindly PROVE Outcome(0)
  <1>1. PICK e \in Effects :
          /\ table' = e.table
          /\ \/ /\ edited' = [row |-> edited.row, data |-> edited.data, inserted |-> FALSE]
                /\ UNCHANGED nextEnabled
             \/ /\ edited' = [row |-> edited.row, inserted |-> FALSE,
                              data |-> IF edited.inserted THEN e.data ELSE edited.data]
                /\ EditingPrepared
    BY DEF SaveBlindly
  <1>2. TableType(e.table) /\ e.data \in Row
    BY EffectsType
  <1>3. rows' = rows /\ rows \in Seq(Row) /\ nextEnabled \in BOOLEAN
    BY DEF SafeInv, TypeOK, SaveBlindly
  <1>4. nextEnabled' \in BOOLEAN
    BY <1>1, <1>3 DEF EditingPrepared, CanShowMore
  <1>5. edited.row \in Nat /\ edited.data \in Row
    BY EditedRow
  <1>6. edited' \in Draft /\ edited'.row = edited.row /\ ~edited'.inserted
    <2>1. CASE edited' = [row |-> edited.row, data |-> edited.data, inserted |-> FALSE]
      BY <2>1, <1>5 DEF Draft
    <2>2. CASE edited' = [row |-> edited.row, inserted |-> FALSE,
                          data |-> IF edited.inserted THEN e.data ELSE edited.data]
      <3>1. (IF edited.inserted THEN e.data ELSE edited.data) \in Row
        BY <1>2, <1>5
      <3> QED
        BY <2>2, <3>1, <1>5 DEF Draft
    <2> QED
      BY <1>1, <2>1, <2>2
  <1> QED
    BY <1>1, <1>2, <1>3, <1>4, <1>6 DEF Outcome

LEMMA ApplyOutcome ==
  ASSUME SafeInv, NEW toApply, NEW dropped, NEW ok \in BOOLEAN,
         edited.inserted => toApply \in 0 .. Len(rows),
         ApplyModifications(toApply, dropped, ok)
  PROVE  Outcome(dropped)
  <1>1. /\ TableType(table) /\ rows \in Seq(Row) /\ edited \in Draft
        /\ nextEnabled \in BOOLEAN
    BY DEF SafeInv, TypeOK, TableType
  <1>2. CASE dropped = 0 /\ UNCHANGED <<table, rows, edited, nextEnabled>>
    BY <1>1, <1>2 DEF Outcome, Editing
  <1>3. CASE Differs /\ dropped = 0 /\ ((ok /\ Save) \/ (~ok /\ SaveBlindly))
    BY <1>3, SaveOutcome, BlindOutcome DEF Differs
  <1>4. CASE edited.inserted /\ dropped = toApply /\ toApply # 0 /\ DropEmpty(toApply)
    <2>1. /\ table' = table /\ nextEnabled' = nextEnabled /\ edited' = NoDraft
          /\ rows' = RemoveAt(rows, toApply)
      BY <1>4 DEF DropEmpty
    <2>2. toApply \in 1 .. Len(rows) /\ dropped # 0
      BY <1>1, <1>4
    <2> QED
      BY <1>1, <2>1, <2>2, <1>4, RemoveAtFacts, NoDraftType DEF Outcome
  <1> QED
    BY <1>2, <1>3, <1>4 DEF ApplyModifications, Refuse
(* Applying leaves the grid safe if the cursor is left on a row that is left. *)
LEMMA AppliedSafely ==
  ASSUME SafeInv, NEW dropped, Outcome(dropped), UNCHANGED <<doomed, wanted, hasResult>>,
         doomed = {}, curRow' \in Nat, viewCur' \in Nat, viewCur' <= Len(rows'),
         Editing' => viewCur' # 0,
         edited'.inserted => curRow' \in 1 .. Len(rows)
  PROVE  SafeInv'
  <1>1. /\ rows \in Seq(Row) /\ wanted \in Nat /\ hasResult \in BOOLEAN
        /\ doomed' = {} /\ wanted' = wanted /\ hasResult' = hasResult
    BY DEF SafeInv, TypeOK
  <1>2. TypeOK'
    BY <1>1 DEF TypeOK, Outcome, TableType
  <1>3. ASSUME Editing' PROVE edited'.row \in 1 .. Len(rows')
    <2>1. dropped = 0 /\ Editing /\ edited'.row = edited.row
      BY <1>3 DEF Outcome, Editing
    <2>2. Len(rows') = Len(rows)
      BY <2>1 DEF Outcome
    <2> QED
      BY <2>1, <2>2, EditedRow
  <1>4. ASSUME edited'.inserted PROVE curRow' \in 1 .. Len(rows')
    <2>1. dropped = 0
      BY <1>4, NoDraftType DEF Outcome
    <2> QED
      BY <2>1, <1>4 DEF Outcome
  <1> QED
    BY <1>1, <1>2, <1>3, <1>4 DEF SafeInv, RowsInRange

LEMMA InitSafe == Init => SafeInv
  <1> SUFFICES ASSUME Init PROVE SafeInv
    OBVIOUS
  <1>1. /\ Step \in Nat /\ InitialRows \in Nat /\ MaxKey \in Nat /\ InitialRows <= MaxKey
    BY RowEditingAssumption
  <1>2. TableType(table)
    BY <1>1 DEF Init, TableType, Keys
  <1>3. rows \in Seq(Row)
    <2>1. rows = Fetched(table, 0, Step)
      BY DEF Init
    <2> QED
      BY <1>1, <1>2, <2>1, FetchedType
  <1>4. /\ edited = NoDraft /\ curRow = 0 /\ viewCur = 0 /\ doomed = {} /\ wanted = Step
        /\ hasResult = TRUE /\ nextEnabled \in BOOLEAN
    BY DEF Init, CanShowMore
  <1>5. TypeOK
    BY <1>1, <1>2, <1>3, <1>4, NoDraftType DEF TypeOK, TableType
  <1> QED
    BY <1>3, <1>4, <1>5, NoDraftType DEF SafeInv, RowsInRange, Editing

(* Every action of Next keeps the grid safe.                                 *)
LEMMA MoveToSafe == ASSUME SafeInv, NEW r, MoveTo(r) PROVE SafeInv'
  <1> DEFINE toApply == IF viewCur # 0 THEN viewCur ELSE curRow
  <1>1. PICK dropped \in 0 .. Len(rows), ok \in BOOLEAN :
          /\ ApplyModifications(toApply, dropped, ok)
          /\ IF ok \/ viewCur = 0
             THEN viewCur' = ViewAfter(r, dropped) /\ curRow' = viewCur'
             ELSE viewCur' = viewCur /\ curRow' = curRow
    BY Zenon DEF MoveTo, cursor
  <1>2. /\ doomed = {} /\ UNCHANGED <<doomed, wanted, hasResult>>
        /\ r \in 1 .. Len(rows)
    BY DEF MoveTo, loaded
  <1>3. /\ rows \in Seq(Row) /\ viewCur \in 0 .. Len(rows) /\ curRow \in Nat
        /\ edited.inserted => viewCur # 0 /\ curRow \in 1 .. Len(rows)
    BY NoDraftType DEF SafeInv, TypeOK, RowsInRange, Editing
  <1>4. Outcome(dropped)
    BY <1>1, <1>3, ApplyOutcome
  <1>5. /\ Len(rows') = IF dropped = 0 THEN Len(rows) ELSE Len(rows) - 1
        /\ Editing' => dropped = 0 /\ Editing
        /\ edited'.inserted => edited' = edited /\ Editing'
    BY <1>4, NoDraftType DEF Outcome, Editing
  <1>6. viewCur = 0 => ~Editing
    BY EditedRow
  <1>7. CASE viewCur' = ViewAfter(r, dropped) /\ curRow' = viewCur'
    <2>1. viewCur' \in Nat /\ viewCur' <= Len(rows')
      BY <1>2, <1>3, <1>5, <1>7, ViewStays
    <2>2. Editing' => viewCur' = r
      BY <1>5, <1>7 DEF ViewAfter
    <2> QED
      BY <1>2, <1>4, <1>5, <1>7, <2>1, <2>2, AppliedSafely
  <1>8. CASE ~ok /\ viewCur # 0 /\ viewCur' = viewCur /\ curRow' = curRow
    <2>1. dropped = 0
      BY <1>1, <1>8 DEF ApplyModifications
    <2> QED
      BY <1>2, <1>3, <1>4, <1>5, <1>8, <2>1, AppliedSafely
  <1> QED
    BY <1>1, <1>7, <1>8

LEMMA SetDataSafe ==
  ASSUME SafeInv, NEW col \in {"key", "val"},
         NEW v \in IF col = "key" THEN Keys \cup {NoKey} ELSE Vals,
         SetData(col, v)
  PROVE  SafeInv'
  <1>1. /\ rows \in Seq(Row) /\ viewCur \in 1 .. Len(rows) /\ edited \in Draft
    BY DEF SetData, SafeInv, TypeOK, RowsInRange
  <1>2. Shown(viewCur) \in Row
    BY <1>1 DEF Shown, Draft
  <1> DEFINE new == [Shown(viewCur) EXCEPT ![col] = v]
  <1>3. new \in Row
    <2>1. CASE col = "key"
      BY <1>2, <2>1 DEF Row
    <2>2. CASE col = "val"
      BY <1>2, <2>2 DEF Row
    <2> QED
      BY <2>1, <2>2
  <1>4. \/ edited' = edited
        \/ edited' = [row |-> viewCur, data |-> new,
                      inserted |-> edited.inserted /\ edited.row = viewCur]
    BY DEF SetData
  <1> HIDE DEF new
  <1>5. edited' = edited \/ (edited' \in Draft /\ edited'.row = viewCur)
    <2>1. (edited.inserted /\ edited.row = viewCur) \in BOOLEAN
      OBVIOUS
    <2>2. CASE edited' = [row |-> viewCur, data |-> new,
                          inserted |-> edited.inserted /\ edited.row = viewCur]
      BY <1>1, <1>3, <2>1, <2>2 DEF Draft
    <2> QED
      BY <1>4, <2>2
  <1>6. /\ UNCHANGED <<table, rows, viewCur, doomed, wanted, hasResult>>
        /\ doomed = {} /\ curRow' = viewCur /\ nextEnabled' \in BOOLEAN
    BY DEF SetData, loaded, EditingPrepared, CanShowMore
  <1>7. TypeOK'
    BY <1>1, <1>5, <1>6 DEF SafeInv, TypeOK
  <1>8. Editing' => edited'.row \in 1 .. Len(rows')
    <2>1. edited' = edited => (Editing' <=> Editing)
      BY DEF Editing
    <2> QED
      BY <1>1, <1>5, <1>6, <2>1, EditedRow
  <1> QED
    BY <1>1, <1>6, <1>7, <1>8 DEF SafeInv, RowsInRange

LEMMA PostChangesSafe == ASSUME SafeInv, PostChanges PROVE SafeInv'
  <1>1. PICK dropped \in 0 .. Len(rows), ok \in BOOLEAN :
          /\ ApplyModifications(curRow, dropped, ok)
          /\ RowRemoved(dropped, curRow)
    BY DEF PostChanges
  <1>2. /\ doomed = {} /\ UNCHANGED <<doomed, wanted, hasResult>> /\ Editing
    BY DEF PostChanges, loaded
  <1>3. /\ rows \in Seq(Row) /\ viewCur \in 0 .. Len(rows) /\ curRow \in Nat
        /\ edited.inserted => curRow \in 1 .. Len(rows)
        /\ viewCur # 0
    BY <1>2 DEF SafeInv, TypeOK, RowsInRange
  <1>4. Outcome(dropped)
    BY <1>1, <1>3, ApplyOutcome
  <1>5. /\ Len(rows') = IF dropped = 0 THEN Len(rows) ELSE Len(rows) - 1
        /\ Editing' => dropped = 0
        /\ edited'.inserted => edited' = edited /\ Editing'
    BY <1>4, NoDraftType DEF Outcome, Editing
  <1>6. viewCur' \in Nat /\ viewCur' <= Len(rows') /\ curRow' \in Nat
    BY <1>1, <1>3, <1>5, ViewStays DEF RowRemoved
  <1>7. Editing' => viewCur' = viewCur /\ curRow' = curRow
    BY <1>1, <1>5 DEF RowRemoved, ViewAfter
  <1> QED
    BY <1>2, <1>3, <1>4, <1>5, <1>6, <1>7, AppliedSafely

LEMMA DiscardSafe == ASSUME SafeInv, DiscardModifications PROVE SafeInv'
  <1> DEFINE dropped == IF edited.inserted THEN curRow ELSE 0
  <1>1. /\ doomed = {} /\ UNCHANGED <<table, doomed, nextEnabled, wanted, hasResult>>
        /\ edited' = NoDraft
        /\ rows' = IF dropped = 0 THEN rows ELSE RemoveAt(rows, dropped)
        /\ RowRemoved(dropped, curRow)
    BY DEF DiscardModifications, loaded
  <1>2. /\ rows \in Seq(Row) /\ viewCur \in 0 .. Len(rows) /\ curRow \in Nat
        /\ dropped \in 0 .. Len(rows)
        /\ TableType(table) /\ nextEnabled \in BOOLEAN
    BY DEF SafeInv, TypeOK, RowsInRange, TableType
  <1> HIDE DEF dropped
  <1>3. /\ rows' \in Seq(Row)
        /\ Len(rows') = IF dropped = 0 THEN Len(rows) ELSE Len(rows) - 1
    <2>1. CASE dropped = 0
      BY <1>1, <1>2, <2>1
    <2>2. CASE dropped \in 1 .. Len(rows)
      BY <1>1, <1>2, <2>2, RemoveAtFacts
    <2> QED
      BY <1>2, <2>1, <2>2
  <1>4. Outcome(dropped)
    BY <1>1, <1>2, <1>3, NoDraftType DEF Outcome
  <1>5. viewCur' \in Nat /\ viewCur' <= Len(rows') /\ curRow' \in Nat
    BY <1>1, <1>2, <1>3, ViewStays DEF RowRemoved
  <1> QED
    BY <1>1, <1>4, <1>5, NoDraftType, AppliedSafely DEF Editing

LEMMA InsertRowSafe ==
  ASSUME SafeInv, NEW data \in Row, InsertRow(data)
  PROVE  SafeInv'
  <1>1. PICK n \in 1 .. Len(rows) + 1 :
          /\ rows' = InsertAt(rows, n, DefaultRow)
          /\ edited' = [row |-> n, data |-> data, inserted |-> TRUE]
          /\ curRow' = n /\ viewCur' = n
    BY DEF InsertRow
  <1>2. rows \in Seq(Row)
    BY DEF SafeInv, TypeOK
  <1>3. rows' \in Seq(Row) /\ Len(rows') = Len(rows) + 1
    BY <1>1, <1>2, NoDraftType, InsertAtFacts
  <1>4. /\ UNCHANGED <<table, doomed, wanted, hasResult>> /\ doomed = {}
        /\ nextEnabled' \in BOOLEAN
    BY DEF InsertRow, loaded, EditingPrepared, CanShowMore
  <1>5. edited' \in Draft /\ edited'.row = n
    BY <1>1, <1>2 DEF Draft
  <1>6. TypeOK'
    BY <1>1, <1>2, <1>3, <1>4, <1>5 DEF SafeInv, TypeOK
  <1> QED
    BY <1>1, <1>2, <1>3, <1>4, <1>5, <1>6 DEF SafeInv, RowsInRange

LEMMA AddRowSafe == ASSUME SafeInv, AddRow PROVE SafeInv'
  <1>1. CASE InsertEmptyRow
    <2>1. edited.data \in Row
      BY DEF SafeInv, TypeOK, Draft
    <2> QED
      BY <1>1, <2>1, NoDraftType, InsertRowSafe DEF InsertEmptyRow
  <1>2. ASSUME NEW withKeys \in BOOLEAN, DuplicateCurrentRow(withKeys) PROVE SafeInv'
    <2>1. PICK r \in 1 .. Len(rows) :
            InsertRow([Shown(r) EXCEPT !.key = IF withKeys THEN @ ELSE NoKey])
      BY <1>2 DEF DuplicateCurrentRow
    <2>2. Shown(r) \in Row
      BY DEF SafeInv, TypeOK, Shown, Draft
    <2>3. [Shown(r) EXCEPT !.key = IF withKeys THEN @ ELSE NoKey] \in Row
      BY <2>2 DEF Row
    <2> QED
      BY <2>1, <2>3, InsertRowSafe
  <1> QED
    BY <1>1, <1>2 DEF AddRow

(* The rows that are left to delete are above the one just deleted.          *)
LEMMA DoomedLeft ==
  ASSUME SafeInv, NEW r \in doomed, IsLast(r)
  PROVE  r \in 1 .. Len(rows) /\ \A q \in doomed \ {r} : q \in 1 .. r - 1
  BY DEF SafeInv, TypeOK, RowsInRange, IsLast

LEMMA DeleteNextSafe == ASSUME SafeInv, DeleteNext PROVE SafeInv'
  <1>1. PICK r \in doomed : IsLast(r) /\ (DeleteRowInDB(r) \/ FailDelete(r))
    BY DEF DeleteNext
  <1>2. /\ rows \in Seq(Row) /\ r \in 1 .. Len(rows) /\ TableType(table)
        /\ viewCur \in 0 .. Len(rows) /\ curRow \in Nat
        /\ wanted \in Nat /\ hasResult \in BOOLEAN /\ doomed \subseteq Nat
    BY <1>1, DoomedLeft DEF SafeInv, TypeOK, RowsInRange, TableType
  <1>3. CASE DeleteRowInDB(r)
    <2>1. /\ rows' = RemoveAt(rows, r) /\ edited' = NoDraft
          /\ RowRemoved(r, r) /\ doomed' = doomed \ {r}
          /\ UNCHANGED <<wanted, hasResult>>
          /\ table' = table \/ table' = Without(table, rows[WhereRow(r)].key)
          /\ nextEnabled' \in BOOLEAN
      BY <1>3 DEF DeleteRowInDB, loaded, CanShowMore
    <2>2. rows' \in Seq(Row) /\ Len(rows') = Len(rows) - 1
      BY <1>2, <2>1, RemoveAtFacts
    <2>3. TableType(table')
      BY <1>2, <2>1, WithoutType
    <2>4. viewCur' \in Nat /\ viewCur' <= Len(rows') /\ curRow' \in Nat
      BY <1>2, <2>1, <2>2, ViewStays DEF RowRemoved
    <2>5. \A q \in doomed' : q \in 1 .. Len(rows')
      BY <1>1, <1>2, <2>1, <2>2, DoomedLeft
    <2>6. TypeOK'
      BY <1>2, <2>1, <2>2, <2>3, <2>4, NoDraftType DEF TypeOK, TableType
    <2> QED
      BY <2>1, <2>4, <2>5, <2>6, NoDraftType DEF SafeInv, RowsInRange, Editing
  <1>4. CASE FailDelete(r)
    <2>1. /\ UNCHANGED <<table, rows, edited, viewCur, wanted, hasResult>>
          /\ doomed' = {} /\ curRow' = r /\ nextEnabled' \in BOOLEAN
      BY <1>4 DEF FailDelete, loaded, EditingPrepared, CanShowMore
    <2> QED
      BY <1>2, <2>1 DEF SafeInv, TypeOK, RowsInRange, Editing
  <1> QED
    BY <1>1, <1>3, <1>4

LEMMA LoadMoreSafe == ASSUME SafeInv, NEW count \in Nat, LoadMore(count) PROVE SafeInv'
  <1> DEFINE offset == Len(rows)
             limit == IF offset <= count THEN count - offset ELSE Cardinality(DOMAIN table)
             page == Fetched(table, offset, limit)
  <1>1. /\ TableType(table) /\ rows \in Seq(Row) /\ offset \in Nat
        /\ nextEnabled \in BOOLEAN /\ hasResult \in BOOLEAN
    BY DEF SafeInv, TypeOK, TableType
  <1>2. Cardinality(DOMAIN table) \in Nat
    <2>1. IsFiniteSet(Keys)
      BY RowEditingAssumption, FS_Interval DEF Keys
    <2> QED
      BY <1>1, <2>1, FS_Subset, FS_CardinalityType DEF TableType
  <1>3. page \in Seq(Row)
    <2>1. limit \in Nat
      BY <1>1, <1>2
    <2> HIDE DEF limit
    <2> QED
      BY <1>1, <2>1, FetchedType
  <1>4. /\ UNCHANGED <<table, edited, curRow, viewCur, doomed>> /\ doomed = {}
        /\ wanted' = count
        /\ \/ rows' = rows \o page /\ ValidateNext(count)
           \/ UNCHANGED <<rows, nextEnabled, hasResult>>
    BY DEF LoadMore, cursor
  <1> HIDE DEF page
  <1>5. /\ rows' \in Seq(Row) /\ Len(rows') >= Len(rows)
        /\ nextEnabled' \in BOOLEAN /\ hasResult' \in BOOLEAN
    <2>1. rows \o page \in Seq(Row) /\ Len(rows \o page) = Len(rows) + Len(page)
      BY <1>1, <1>3, ConcatProperties
    <2>2. Len(page) \in Nat /\ Len(rows) \in Nat
      BY <1>1, <1>3
    <2>3. rows' \in Seq(Row) /\ Len(rows') >= Len(rows)
      BY <1>1, <1>4, <2>1, <2>2
    <2> QED
      BY <1>1, <1>4, <2>3 DEF ValidateNext, CanShowMore
  <1>6. TypeOK'
    BY <1>4, <1>5 DEF SafeInv, TypeOK
  <1> QED
    BY <1>1, <1>4, <1>5, <1>6 DEF SafeInv, TypeOK, RowsInRange, Editing

LEMMA ReloadSafe == ASSUME SafeInv, NEW count \in Nat, Reload(count) PROVE SafeInv'
  <1>1. TableType(table) /\ rows \in Seq(Row) /\ nextEnabled \in BOOLEAN
    BY DEF SafeInv, TypeOK, TableType
  <1>2. /\ doomed = {} /\ doomed' = doomed /\ edited' = NoDraft
        /\ curRow' = 0 /\ wanted' = count
        /\ viewCur' = 0 \/ (viewCur' = viewCur /\ ~(viewCur > Len(rows')))
    BY DEF Reload
  <1>3. PICK saved \in BOOLEAN :
          /\ IF saved THEN Differs /\ \E e \in Effects : table' = e.table
             ELSE table' = table
          /\ \/ rows' = Fetched(table', 0, count) /\ ValidateNext(count)
             \/ /\ rows' = <<>> /\ hasResult' = FALSE
                /\ nextEnabled' = IF saved THEN CanShowMore(count, Len(rows)) ELSE nextEnabled
    BY DEF Reload
  <1>4. TableType(table')
    BY <1>1, <1>3, EffectsType DEF Differs
  <1>5. rows' \in Seq(Row)
    <2>1. <<>> \in Seq(Row)
      OBVIOUS
    <2> QED
      BY <1>3, <1>4, <2>1, FetchedType
  <1>6. nextEnabled' \in BOOLEAN /\ hasResult' \in BOOLEAN
    BY <1>1, <1>3 DEF ValidateNext, CanShowMore
  <1>7. viewCur' \in Nat /\ viewCur' <= Len(rows')
    <2>1. viewCur \in Nat /\ Len(rows') \in Nat
      BY <1>5 DEF SafeInv, TypeOK
    <2> QED
      BY <1>2, <2>1
  <1>8. TypeOK'
    BY <1>2, <1>4, <1>5, <1>6, <1>7, NoDraftType DEF TypeOK, TableType
  <1> QED
    BY <1>2, <1>5, <1>7, <1>8, NoDraftType DEF SafeInv, RowsInRange, Editing

LEMMA StepSafe == SafeInv /\ [Next]_vars => SafeInv'
  <1> SUFFICES ASSUME SafeInv, [Next]_vars PROVE SafeInv'
    OBVIOUS
  <1>1. ASSUME NEW r \in 1 .. Len(rows), MoveTo(r) PROVE SafeInv'
    BY <1>1, MoveToSafe
  <1>2. CASE Edit
    <2>1. ASSUME NEW v \in Vals, SetData("val", v) PROVE SafeInv'
      BY <2>1, SetDataSafe
    <2>2. ASSUME NEW k \in Keys \cup {NoKey}, SetData("key", k) PROVE SafeInv'
      BY <2>2, SetDataSafe
    <2> QED
      BY <1>2, <2>1, <2>2 DEF Edit
  <1>3. CASE PostChanges
    BY <1>3, PostChangesSafe
  <1>4. CASE DiscardModifications
    BY <1>4, DiscardSafe
  <1>5. CASE DeleteNext
    BY <1>5, DeleteNextSafe
  <1>6. CASE ShowNextRows \/ ShowAllRows
    <2>1. wanted + Step \in Nat /\ MaxLoad \in Nat
      BY RowEditingAssumption DEF SafeInv, TypeOK
    <2>2. Min({wanted + Step, MaxLoad}) \in Nat
      BY <2>1, MinMax
    <2> QED
      BY <1>6, <2>1, <2>2, LoadMoreSafe DEF ShowNextRows, ShowAllRows
  <1>7. CASE Refresh \/ ApplyColumnSort
    <2>1. wanted \in Nat /\ Step \in Nat
      BY RowEditingAssumption DEF SafeInv, TypeOK
    <2> QED
      BY <1>7, <2>1, ReloadSafe DEF Refresh, ApplyColumnSort
  <1>8. CASE AddRow
    BY <1>8, AddRowSafe
  <1>9. ASSUME NEW selected \in SUBSET (1 .. Len(rows)), DeleteSelectedRows(selected)
        PROVE  SafeInv'
    <2>1. /\ UNCHANGED <<table, rows, edited, curRow, viewCur, nextEnabled, wanted, hasResult>>
          /\ doomed' = selected
      BY <1>9 DEF DeleteSelectedRows, cursor, loaded
    <2> QED
      BY <2>1 DEF SafeInv, TypeOK, RowsInRange, Editing
  <1>10. CASE UNCHANGED vars
    BY <1>10 DEF vars, SafeInv, TypeOK, RowsInRange, Editing
  <1> QED
    BY <1>1, <1>2, <1>3, <1>4, <1>5, <1>6, <1>7, <1>8, <1>9, <1>10
    DEF Next, Rest, StartDelete

LEMMA Safe == Spec => []SafeInv
  BY InitSafe, StepSafe, PTL DEF Spec

(* The variables keep their types.                                          *)
THEOREM TypeCorrect == Spec => []TypeOK
  <1>1. SafeInv => TypeOK
    BY DEF SafeInv
  <1> QED
    BY <1>1, Safe, PTL

(* Whatever the user does, in whatever order, and whatever fails, no number   *)
(* of a row that the grid no longer has is kept: the draft's, the current     *)
(* row's while it is a new one, the view's, or one that is to be deleted.     *)
THEOREM RowsStayInRange == Spec => []RowsInRange
  <1>1. SafeInv => RowsInRange
    BY DEF SafeInv
  <1> QED
    BY <1>1, Safe, PTL

(* Every step that changes the table leaves no new row unsaved.               *)
LEMMA TableChange == SafeInv /\ [Next]_vars => (table' # table => ~edited'.inserted)
  <1> SUFFICES ASSUME SafeInv, [Next]_vars, table' # table PROVE ~edited'.inserted
    OBVIOUS
  <1>1. ASSUME NEW r, MoveTo(r) PROVE ~edited'.inserted
    <2> DEFINE toApply == IF viewCur # 0 THEN viewCur ELSE curRow
    <2>1. PICK dropped \in 0 .. Len(rows), ok \in BOOLEAN :
            ApplyModifications(toApply, dropped, ok)
      BY <1>1, Zenon DEF MoveTo
    <2>2. edited.inserted => toApply \in 0 .. Len(rows)
      BY NoDraftType DEF SafeInv, TypeOK, RowsInRange, Editing
    <2> QED
      BY <2>1, <2>2, ApplyOutcome DEF Outcome
  <1>2. CASE PostChanges
    <2>1. PICK dropped \in 0 .. Len(rows), ok \in BOOLEAN :
            ApplyModifications(curRow, dropped, ok)
      BY <1>2, Zenon DEF PostChanges
    <2>2. edited.inserted => curRow \in 0 .. Len(rows)
      BY DEF SafeInv, TypeOK, RowsInRange
    <2> QED
      BY <2>1, <2>2, ApplyOutcome DEF Outcome
  <1>3. CASE DeleteNext
    BY <1>3, NoDraftType DEF DeleteNext, DeleteRowInDB, FailDelete
  <1>4. CASE Refresh \/ ApplyColumnSort
    BY <1>4, NoDraftType DEF Refresh, ApplyColumnSort, Reload
  <1>5. \/ \E r \in 1 .. Len(rows) : MoveTo(r)
        \/ PostChanges \/ DeleteNext \/ Refresh \/ ApplyColumnSort
    BY DEF Next, Rest, Edit, SetData, DiscardModifications, ShowNextRows, ShowAllRows, LoadMore,
           AddRow, InsertEmptyRow, DuplicateCurrentRow, InsertRow, StartDelete,
           DeleteSelectedRows, vars
  <1> QED
    BY <1>1, <1>2, <1>3, <1>4, <1>5

(* Whatever fails after an INSERT was done, the row is no longer one that     *)
(* posting would insert.                                                    *)
THEOREM InsertedOnlyOnce == Spec => InsertedOnce
  <1>1. SafeInv /\ [Next]_vars =>
            [Cardinality(DOMAIN table') > Cardinality(DOMAIN table) => ~edited'.inserted]_vars
    <2> SUFFICES ASSUME SafeInv, [Next]_vars,
                        Cardinality(DOMAIN table') > Cardinality(DOMAIN table)
                 PROVE  ~edited'.inserted
      OBVIOUS
    <2>1. Cardinality(DOMAIN table) \in Nat
      <3>1. IsFiniteSet(Keys)
        BY RowEditingAssumption, FS_Interval DEF Keys
      <3>2. IsFiniteSet(DOMAIN table)
        BY <3>1, FS_Subset DEF SafeInv, TypeOK
      <3> QED
        BY <3>2, FS_CardinalityType
    <2>2. table' # table
      BY <2>1
    <2> QED
      BY <2>2, TableChange
  <1> QED
    BY <1>1, Safe, PTL DEF Spec, InsertedOnce

(* Deleting the rows from the last one up, the numbers of those that are left *)
(* go on meaning the rows that were selected.                               *)
THEOREM SelectionIsKept == Spec => SelectionStays
  <1> DEFINE Stays == \A r \in doomed' : /\ r \in 1 .. Len(rows')
                                         /\ rows'[r] \in {rows[q] : q \in doomed}
  <1>1. SafeInv /\ [Next]_vars => [doomed # {} => Stays]_vars
    <2> SUFFICES ASSUME SafeInv, Next, doomed # {} PROVE Stays
      OBVIOUS
    <2>1. DeleteNext
      BY DEF Next, Rest, Edit, MoveTo, SetData, PostChanges, DiscardModifications, ShowNextRows,
             ShowAllRows, LoadMore, Refresh, ApplyColumnSort, Reload, AddRow, InsertEmptyRow,
             DuplicateCurrentRow, InsertRow, StartDelete, DeleteSelectedRows
    <2>2. PICK r \in doomed : IsLast(r) /\ (DeleteRowInDB(r) \/ FailDelete(r))
      BY <2>1 DEF DeleteNext
    <2>3. rows \in Seq(Row) /\ r \in 1 .. Len(rows) /\ \A q \in doomed \ {r} : q \in 1 .. r - 1
      BY <2>2, DoomedLeft DEF SafeInv, TypeOK
    <2>4. CASE DeleteRowInDB(r)
      <3>1. rows' = RemoveAt(rows, r) /\ doomed' = doomed \ {r}
        BY <2>4 DEF DeleteRowInDB
      <3>2. Len(rows') = Len(rows) - 1 /\ \A q \in 1 .. r - 1 : rows'[q] = rows[q]
        BY <2>3, <3>1, RemoveAtFacts
      <3> QED
        BY <2>3, <3>1, <3>2
    <2>5. CASE FailDelete(r)
      BY <2>5 DEF FailDelete
    <2> QED
      BY <2>2, <2>4, <2>5
  <1> QED
    BY <1>1, Safe, PTL DEF Spec, SelectionStays
-----------------------------------------------------------------------------
(* While selected rows are being deleted there is no draft, a new row's      *)
(* draft is of a row, and it is of the current one.                         *)
CarefulInv ==
    /\ doomed # {} => ~Editing
    /\ edited.inserted => edited.row # 0
    /\ InsertedIsCurrent

(* Nothing is edited initially.                                             *)
LEMMA InitCareful == Init => CarefulInv
  BY DEF Init, CarefulInv, InsertedIsCurrent, Editing, NoDraft

(* Applying leaves the draft of a new row, or none of a new row, and ends it *)
(* if it does not fail.                                                     *)
LEMMA Applied ==
  ASSUME NEW toApply, NEW dropped, NEW ok \in BOOLEAN,
         ApplyModifications(toApply, dropped, ok)
  PROVE  /\ edited'.inserted => edited' = edited
         /\ ok /\ toApply # 0 => ~edited'.inserted
  <1>1. CASE Save
    BY <1>1 DEF Save, NoDraft
  <1>2. CASE ~ok /\ (Refuse \/ SaveBlindly)
    BY <1>2 DEF Refuse, SaveBlindly
  <1>3. CASE DropEmpty(toApply)
    BY <1>3 DEF DropEmpty, NoDraft
  <1>4. CASE (~edited.inserted \/ toApply = 0) /\ edited' = edited
    BY <1>4
  <1> QED
    BY <1>1, <1>2, <1>3, <1>4, Zenon DEF ApplyModifications

(* Every step of a careful user keeps the invariant.                         *)
LEMMA StepCareful == CarefulInv /\ [CarefulNext]_vars => CarefulInv'
  <1> SUFFICES ASSUME CarefulInv, [CarefulNext]_vars PROVE CarefulInv'
    OBVIOUS
  <1> USE DEF CarefulInv, InsertedIsCurrent, Editing, cursor
  <1>1. ASSUME NEW r \in 1 .. Len(rows), MoveTo(r) PROVE CarefulInv'
    <2>1. PICK dropped \in 0 .. Len(rows), ok \in BOOLEAN :
            /\ ApplyModifications(IF viewCur # 0 THEN viewCur ELSE curRow, dropped, ok)
            /\ IF ok \/ viewCur = 0
               THEN viewCur' = ViewAfter(r, dropped) /\ curRow' = viewCur'
               ELSE UNCHANGED cursor
      BY <1>1, Zenon DEF MoveTo
    <2>2. doomed' = {}
      BY <1>1 DEF MoveTo
    <2> DEFINE toApply == IF viewCur # 0 THEN viewCur ELSE curRow
    <2>3. /\ edited'.inserted => edited' = edited
          /\ ok /\ toApply # 0 => ~edited'.inserted
      BY <2>1, Applied
    <2>4. edited'.inserted => edited' = edited /\ viewCur # 0 /\ ~ok
      BY <2>3
    <2> QED
      BY <2>1, <2>2, <2>4
  <1>2. ASSUME NEW col, NEW v, SetData(col, v) PROVE CarefulInv'
    <2>1. /\ doomed' = {} /\ viewCur # 0 /\ viewCur' = viewCur /\ curRow' = viewCur
          /\ \/ edited' = edited
             \/ edited'.row = viewCur
      BY <1>2 DEF SetData
    <2> QED
      BY <2>1
  <1>3. CASE PostChanges
    <2>1. PICK dropped \in 0 .. Len(rows), ok \in BOOLEAN :
            /\ ApplyModifications(curRow, dropped, ok)
            /\ RowRemoved(dropped, curRow)
      BY <1>3, Zenon DEF PostChanges
    <2>2. doomed' = {}
      BY <1>3 DEF PostChanges
    <2>3. edited'.inserted => edited' = edited /\ (ok => curRow = 0)
      BY <2>1, Applied
    <2>4. edited'.inserted => edited' = edited /\ ~ok
      BY <2>3
    <2>5. ~ok => dropped = 0
      BY <2>1 DEF ApplyModifications
    <2>6. dropped = 0 => UNCHANGED cursor
      BY <2>1 DEF RowRemoved, ViewAfter
    <2> QED
      BY <2>2, <2>4, <2>5, <2>6
  <1>4. CASE DiscardModifications
    BY <1>4 DEF DiscardModifications, NoDraft
  <1>5. ASSUME NEW data, InsertRow(data) PROVE CarefulInv'
    BY <1>5 DEF InsertRow
  <1>6. ASSUME NEW selected, ~Editing, DeleteSelectedRows(selected) PROVE CarefulInv'
    BY <1>6 DEF DeleteSelectedRows, NoDraft
  <1>7. CASE DeleteNext
    <2>1. ASSUME NEW r \in doomed, DeleteRowInDB(r) PROVE CarefulInv'
      BY <2>1 DEF DeleteRowInDB, NoDraft
    <2>2. ASSUME NEW r \in doomed, FailDelete(r) PROVE CarefulInv'
      BY <2>2 DEF FailDelete, NoDraft
    <2> QED
      BY <1>7, <2>1, <2>2 DEF DeleteNext
  <1>8. ASSUME NEW count, LoadMore(count) PROVE CarefulInv'
    BY <1>8 DEF LoadMore
  <1>9. ASSUME NEW count, Reload(count) PROVE CarefulInv'
    BY <1>9 DEF Reload, NoDraft
  <1>10. CASE UNCHANGED vars
    BY <1>10 DEF vars
  <1> QED
    <2>1. CASE Rest
      BY <2>1, <1>1, <1>2, <1>3, <1>4, <1>7, <1>8, <1>9
         DEF Rest, Edit, ShowNextRows, ShowAllRows, Refresh, ApplyColumnSort
    <2>2. CASE AddRow
      BY <2>2, <1>5 DEF AddRow, InsertEmptyRow, DuplicateCurrentRow
    <2>3. CASE ~Editing /\ StartDelete
      BY <2>3, <1>6 DEF StartDelete
    <2> QED
      BY <2>1, <2>2, <2>3, <1>10 DEF CarefulNext

(* The new row that is being edited is the current row, for any number of    *)
(* rows, whatever fails.                                                    *)
THEOREM InsertedRowIsCurrent == CarefulSpec => []InsertedIsCurrent
  <1>1. CarefulInv => InsertedIsCurrent
    BY DEF CarefulInv
  <1> QED
    BY InitCareful, StepCareful, <1>1, PTL DEF CarefulSpec

(* A step of the loop deletes a selected row or none; nothing else runs       *)
(* meanwhile.                                                               *)
LEMMA DeleteStep ==
  ASSUME CarefulInv, [CarefulNext]_vars, doomed # {}
  PROVE  DOMAIN table \ DOMAIN table' \subseteq {rows[r].key : r \in doomed}
  <1>1. CASE DeleteNext
    <2>1. ASSUME NEW r \in doomed, DeleteRowInDB(r)
          PROVE  DOMAIN table \ DOMAIN table' \subseteq {rows[r].key}
      <3>1. WhereRow(r) = r
        BY DEF CarefulInv, WhereRow
      <3>2. table' = table \/ table' = Without(table, rows[r].key)
        BY <2>1, <3>1 DEF DeleteRowInDB
      <3> QED
        BY <3>2 DEF Without
    <2>2. ASSUME NEW r \in doomed, FailDelete(r) PROVE table' = table
      BY <2>2 DEF FailDelete
    <2> QED
      BY <1>1, <2>1, <2>2 DEF DeleteNext
  <1>2. CASE UNCHANGED vars
    BY <1>2 DEF vars
  <1>3. DeleteNext \/ UNCHANGED vars
    <2>1. ASSUME doomed = {} PROVE FALSE
      BY <2>1
    <2>2. CASE Rest
      BY <2>2 DEF Rest, MoveTo, Edit, SetData, PostChanges, DiscardModifications,
                  ShowNextRows, ShowAllRows, LoadMore, Refresh, ApplyColumnSort, Reload
    <2>3. CASE AddRow \/ StartDelete
      BY <2>3 DEF AddRow, InsertEmptyRow, DuplicateCurrentRow, InsertRow,
                  StartDelete, DeleteSelectedRows
    <2> QED
      BY <2>2, <2>3 DEF CarefulNext
  <1> QED
    BY <1>1, <1>2, <1>3

(* Deleting deletes selected rows, when nothing is being edited.             *)
THEOREM DeletesOnlySelected == CarefulSpec => DeletesSelected
  <1>1. CarefulInv /\ [CarefulNext]_vars =>
          [doomed # {} =>
             DOMAIN table \ DOMAIN table' \subseteq {rows[r].key : r \in doomed}]_vars
    BY DeleteStep
  <1> QED
    BY InitCareful, StepCareful, <1>1, PTL DEF CarefulSpec, DeletesSelected
-----------------------------------------------------------------------------
(* The grid under the draft is the table: rows S of R are the rows of T, each *)
(* once.                                                                   *)
Mirrors(T, R, S) ==
    /\ \A r \in S : R[r].key \in DOMAIN T /\ R[r] = Stored(T, R[r].key)
    /\ \A r, q \in S : R[r].key = R[q].key => r = q
    /\ \A k \in DOMAIN T : \E r \in S : R[r].key = k

(* A table has finitely many rows.                                          *)
LEMMA TableSize ==
  ASSUME NEW T, TableType(T)
  PROVE  IsFiniteSet(DOMAIN T) /\ Cardinality(DOMAIN T) \in 0 .. MaxKey
  <1>1. IsFiniteSet(Keys) /\ Cardinality(Keys) = MaxKey /\ MaxKey \in Nat
    BY RowEditingAssumption, FS_Interval DEF Keys
  <1>2. IsFiniteSet(DOMAIN T) /\ Cardinality(DOMAIN T) <= MaxKey
    BY <1>1, FS_Subset DEF TableType
  <1> QED
    BY <1>1, <1>2, FS_CardinalityType

(* As many rows of the grid as of the table.                                *)
LEMMA MirrorsCount ==
  ASSUME NEW T, TableType(T), NEW R, NEW S, Mirrors(T, R, S)
  PROVE  IsFiniteSet(S) /\ Cardinality(S) = Cardinality(DOMAIN T)
  <1> DEFINE f == [r \in S |-> R[r].key]
  <1>1. f \in [S -> DOMAIN T]
    BY DEF Mirrors
  <1>2. \A r, q \in S : f[r] = f[q] => r = q
    BY DEF Mirrors
  <1>3. \A k \in DOMAIN T : \E r \in S : f[r] = k
    BY DEF Mirrors
  <1> HIDE DEF f
  <1>4. f \in Injection(S, DOMAIN T) /\ f \in Surjection(S, DOMAIN T)
    BY <1>1, <1>2, <1>3 DEF Injection, IsInjective, Surjection
  <1> QED
    BY <1>4, TableSize, FS_Injection

(* The same rows in other places.                                           *)
LEMMA MirrorsMoved ==
  ASSUME NEW T, NEW R, NEW S, Mirrors(T, R, S), NEW Q, NEW P, NEW f,
         \A j \in P : f[j] \in S /\ Q[j] = R[f[j]],
         \A i, j \in P : f[i] = f[j] => i = j,
         \A r \in S : \E j \in P : f[j] = r
  PROVE  Mirrors(T, Q, P)
  <1>1. \A j \in P : Q[j].key \in DOMAIN T /\ Q[j] = Stored(T, Q[j].key)
    BY DEF Mirrors
  <1>2. \A i, j \in P : Q[i].key = Q[j].key => i = j
    BY DEF Mirrors
  <1>3. ASSUME NEW k \in DOMAIN T PROVE \E j \in P : Q[j].key = k
    <2>1. PICK r \in S : R[r].key = k
      BY DEF Mirrors
    <2>2. PICK j \in P : f[j] = r
      OBVIOUS
    <2> QED
      BY <2>1, <2>2
  <1> QED
    BY <1>1, <1>2, <1>3 DEF Mirrors

(* A row that is not of the table, or no longer, is removed from the grid.     *)
LEMMA MirrorsRemoved ==
  ASSUME NEW T, NEW R \in Seq(Row), NEW i \in 1 .. Len(R),
         Mirrors(T, R, (1 .. Len(R)) \ {i})
  PROVE  Mirrors(T, RemoveAt(R, i), 1 .. Len(R) - 1)
  <1> DEFINE Q == RemoveAt(R, i)
             P == 1 .. Len(R) - 1
             f == [j \in P |-> IF j < i THEN j ELSE j + 1]
  <1>1. /\ \A j \in 1 .. i - 1 : Q[j] = R[j]
        /\ \A j \in i .. Len(R) - 1 : Q[j] = R[j + 1]
    BY RemoveAtFacts
  <1> HIDE DEF Q
  <1>2. Len(R) \in Nat /\ i \in Nat
    OBVIOUS
  <1>3. \A j \in P : f[j] \in (1 .. Len(R)) \ {i} /\ Q[j] = R[f[j]]
    BY <1>1, <1>2
  <1>4. \A j, k \in P : f[j] = f[k] => j = k
    BY <1>2
  <1>5. ASSUME NEW r \in (1 .. Len(R)) \ {i} PROVE \E j \in P : f[j] = r
    <2>1. CASE r < i
      <3>1. r \in P /\ f[r] = r
        BY <1>2, <2>1
      <3> QED
        BY <3>1
    <2>2. CASE r > i
      <3>1. r - 1 \in P /\ f[r - 1] = r
        BY <1>2, <2>2
      <3> QED
        BY <3>1
    <2> QED
      BY <1>2, <2>1, <2>2
  <1> HIDE DEF f, P
  <1>6. Mirrors(T, Q, P)
    BY <1>3, <1>4, <1>5, MirrorsMoved
  <1> QED
    BY <1>6 DEF Q, P

(* A row that is not of the table is inserted into the grid.                 *)
LEMMA MirrorsInserted ==
  ASSUME NEW T, NEW R \in Seq(Row), NEW i \in 1 .. Len(R) + 1, NEW new \in Row,
         Mirrors(T, R, 1 .. Len(R))
  PROVE  Mirrors(T, InsertAt(R, i, new), (1 .. Len(R) + 1) \ {i})
  <1> DEFINE Q == InsertAt(R, i, new)
             P == (1 .. Len(R) + 1) \ {i}
             f == [j \in P |-> IF j < i THEN j ELSE j - 1]
  <1>1. /\ \A j \in 1 .. i - 1 : Q[j] = R[j]
        /\ \A j \in i .. Len(R) : Q[j + 1] = R[j]
    BY InsertAtFacts
  <1> HIDE DEF Q
  <1>2. Len(R) \in Nat /\ i \in Nat
    OBVIOUS
  <1>3. ASSUME NEW j \in P PROVE f[j] \in 1 .. Len(R) /\ Q[j] = R[f[j]]
    <2>1. CASE j < i
      BY <1>1, <1>2, <2>1
    <2>2. CASE j > i
      <3>1. j - 1 \in i .. Len(R) /\ (j - 1) + 1 = j
        BY <1>2, <2>2
      <3>2. Q[(j - 1) + 1] = R[j - 1]
        BY <1>1, <3>1
      <3> QED
        BY <2>2, <3>1, <3>2
    <2> QED
      BY <2>1, <2>2
  <1>4. \A j, k \in P : f[j] = f[k] => j = k
    BY <1>2
  <1>5. ASSUME NEW r \in 1 .. Len(R) PROVE \E j \in P : f[j] = r
    <2>1. CASE r < i
      <3>1. r \in P /\ f[r] = r
        BY <1>2, <2>1
      <3> QED
        BY <3>1
    <2>2. CASE r >= i
      <3>1. r + 1 \in P /\ f[r + 1] = r
        BY <1>2, <2>2
      <3> QED
        BY <3>1
    <2> QED
      BY <1>2, <2>1, <2>2
  <1> HIDE DEF f, P
  <1>6. Mirrors(T, Q, P)
    BY <1>3, <1>4, <1>5, MirrorsMoved
  <1> QED
    BY <1>6 DEF Q, P

(* DELETE: the row of the table goes, the row of the grid is no longer of it. *)
LEMMA MirrorsDeleted ==
  ASSUME NEW T, NEW R, NEW S, NEW i \in S, Mirrors(T, R, S)
  PROVE  Mirrors(Without(T, R[i].key), R, S \ {i})
  BY DEF Mirrors, Without, Stored

(* INSERT: a row of the grid becomes the one of a new key.                   *)
LEMMA MirrorsPut ==
  ASSUME NEW T, NEW R, NEW S, NEW i \in DOMAIN R, i \notin S, Mirrors(T, R, S),
         NEW k, k \notin DOMAIN T, NEW v
  PROVE  Mirrors(Put(T, k, v), [R EXCEPT ![i] = Stored(Put(T, k, v), k)], S \cup {i})
  <1> DEFINE U == Put(T, k, v)
             Q == [R EXCEPT ![i] = Stored(U, k)]
  <1>1. DOMAIN U = DOMAIN T \cup {k} /\ \A j \in DOMAIN T : U[j] = T[j]
    BY DEF Put
  <1>2. Q[i] = Stored(U, k) /\ Q[i].key = k
    BY DEF Stored
  <1>3. \A r \in S : Q[r] = R[r]
    OBVIOUS
  <1> HIDE DEF U, Q
  <1>4. \A r \in S : Q[r].key \in DOMAIN T /\ Q[r].key # k /\ Q[r] = Stored(U, Q[r].key)
    <2>1. \A r \in S : R[r].key \in DOMAIN T /\ R[r] = Stored(T, R[r].key)
      BY DEF Mirrors
    <2>2. \A j \in DOMAIN T : j # k /\ Stored(U, j) = Stored(T, j)
      BY <1>1 DEF Stored
    <2> QED
      BY <1>3, <2>1, <2>2
  <1>5. \A r \in S \cup {i} : Q[r].key \in DOMAIN U /\ Q[r] = Stored(U, Q[r].key)
    BY <1>1, <1>2, <1>4
  <1>6. \A r, q \in S \cup {i} : Q[r].key = Q[q].key => r = q
    BY <1>2, <1>3, <1>4 DEF Mirrors
  <1>7. \A j \in DOMAIN U : \E r \in S \cup {i} : Q[r].key = j
    BY <1>1, <1>2, <1>3 DEF Mirrors
  <1>8. Mirrors(U, Q, S \cup {i})
    BY <1>5, <1>6, <1>7 DEF Mirrors
  <1> QED
    BY <1>8 DEF U, Q

(* A whole table read from the start is the table, row by row.                *)
LEMMA FetchedAll ==
  ASSUME NEW T, TableType(T), NEW limit \in Nat, MaxKey <= limit
  PROVE  Mirrors(T, Fetched(T, 0, limit), 1 .. Len(Fetched(T, 0, limit)))
  <1> DEFINE D == DOMAIN T
             n == Cardinality(D)
             UpTo(k) == {j \in D : j <= k}
             KeyAt(i) == CHOOSE k \in D : Cardinality(UpTo(k)) = i
             F == [i \in 1 .. n |-> Stored(T, KeyAt(0 + i))]
  <1>1. /\ IsFiniteSet(D) /\ n \in Nat /\ n <= limit /\ MaxKey \in Nat
        /\ D \in SUBSET Keys /\ \A k \in D : k \in Nat
    BY TableSize, RowEditingAssumption DEF TableType, Keys
  <1>2. Fetched(T, 0, limit) = F
    <2>1. Min({n, 0 + limit}) = n
      BY <1>1, MinMax
    <2>2. Max({0, n - 0}) = n
      BY <1>1, MinMax
    <2> HIDE DEF n
    <2> QED
      BY <2>1, <2>2 DEF Fetched, n
  <1>3. \A i \in 1 .. n : KeyAt(i) \in D /\ Cardinality(UpTo(KeyAt(i))) = i
    <2> SUFFICES ASSUME NEW i \in 1 .. n
                 PROVE  KeyAt(i) \in D /\ Cardinality(UpTo(KeyAt(i))) = i
      OBVIOUS
    <2>1. \E k \in D : Cardinality(UpTo(k)) = i
      BY <1>1, KeyAtPlace
    <2> HIDE DEF UpTo, D
    <2> QED
      BY <2>1
  <1>4. ASSUME NEW k \in D, NEW m \in D, k < m
        PROVE  Cardinality(UpTo(k)) # Cardinality(UpTo(m))
    <2>1. IsFiniteSet(UpTo(m)) /\ IsFiniteSet(UpTo(k))
      BY <1>1, FS_Subset
    <2>2. UpTo(k) \in SUBSET UpTo(m)
      BY <1>1, <1>4
    <2>3. m \in UpTo(m) /\ m \notin UpTo(k)
      BY <1>1, <1>4
    <2> HIDE DEF UpTo
    <2> QED
      BY <2>1, <2>2, <2>3, FS_Subset
  <1>5. \A k \in D : Cardinality(UpTo(k)) \in 1 .. n
    <2> SUFFICES ASSUME NEW k \in D PROVE Cardinality(UpTo(k)) \in 1 .. n
      OBVIOUS
    <2>1. UpTo(k) \in SUBSET D /\ {k} \in SUBSET UpTo(k)
      BY <1>1
    <2>2. IsFiniteSet(UpTo(k)) /\ Cardinality(UpTo(k)) <= n
      BY <1>1, <2>1, FS_Subset
    <2>3. Cardinality({k}) = 1
      BY FS_Singleton
    <2>4. Cardinality({k}) <= Cardinality(UpTo(k)) /\ Cardinality(UpTo(k)) \in Nat
      BY <2>1, <2>2, FS_Subset, FS_CardinalityType
    <2> HIDE DEF UpTo, n
    <2> QED
      BY <1>1, <2>2, <2>3, <2>4
  <1>6. \A k \in D : KeyAt(Cardinality(UpTo(k))) = k
    <2> SUFFICES ASSUME NEW k \in D PROVE KeyAt(Cardinality(UpTo(k))) = k
      OBVIOUS
    <2>1. PICK m : m = KeyAt(Cardinality(UpTo(k)))
      OBVIOUS
    <2>2. m \in D /\ Cardinality(UpTo(m)) = Cardinality(UpTo(k))
      BY <1>3, <1>5, <2>1
    <2>3. ~(m < k) /\ ~(k < m)
      BY <1>4, <2>2
    <2>4. m = k
      BY <1>1, <2>2, <2>3
    <2> QED
      BY <2>1, <2>4
  <1>7. \A i \in 1 .. n : F[i].key = KeyAt(i) /\ F[i] = Stored(T, KeyAt(i))
    <2>1. \A i \in 1 .. n : F[i] = Stored(T, KeyAt(0 + i))
      OBVIOUS
    <2>2. \A i \in 1 .. n : 0 + i = i
      BY <1>1
    <2> HIDE DEF F, KeyAt, n
    <2> QED
      BY <2>1, <2>2 DEF Stored
  <1>8. Len(F) = n
    BY <1>1
  <1> HIDE DEF F, KeyAt, UpTo, n
  <1>9. \A r \in 1 .. n : F[r].key \in D /\ F[r] = Stored(T, F[r].key)
    BY <1>3, <1>7
  <1>10. \A r, q \in 1 .. n : F[r].key = F[q].key => r = q
    BY <1>3, <1>7
  <1>11. \A k \in D : \E r \in 1 .. n : F[r].key = k
    BY <1>5, <1>6, <1>7
  <1> QED
    BY <1>2, <1>8, <1>9, <1>10, <1>11 DEF Mirrors

(* There is nothing behind as many rows as the table has.                    *)
LEMMA FetchedNone ==
  ASSUME NEW T, TableType(T), NEW offset \in Nat, NEW limit \in Nat,
         Cardinality(DOMAIN T) <= offset
  PROVE  Fetched(T, offset, limit) = <<>>
  <1> DEFINE n == Cardinality(DOMAIN T)
             last == Min({n, offset + limit})
  <1>1. n \in Nat /\ n <= offset
    BY TableSize
  <1>2. last \in Int /\ last <= n
    <2> HIDE DEF n
    <2>1. offset + limit \in Nat
      OBVIOUS
    <2> QED
      BY <1>1, <2>1, MinMax
  <1> HIDE DEF last
  <1>3. Max({0, last - offset}) = 0
    <2>1. PICK d : d = last - offset
      OBVIOUS
    <2>2. d \in Int /\ d <= 0
      BY <1>1, <1>2, <2>1
    <2> HIDE DEF n
    <2>3. Max({0, d}) = IF 0 <= d THEN d ELSE 0
      BY <2>2, MinMax
    <2>4. Max({0, d}) = 0
      BY <2>2, <2>3
    <2> QED
      BY <2>1, <2>4
  <1> DEFINE count == Max({0, last - offset})
             KeyAt(i) == CHOOSE k \in DOMAIN T : Cardinality({j \in DOMAIN T : j <= k}) = i
  <1>4. Fetched(T, offset, limit) = [i \in 1 .. count |-> Stored(T, KeyAt(offset + i))]
    BY DEF Fetched, last
  <1>5. 1 .. count = {}
    BY <1>3
  <1> HIDE DEF count, KeyAt
  <1>6. Fetched(T, offset, limit) = [i \in {} |-> Stored(T, KeyAt(offset + i))]
    BY <1>4, <1>5
  <1> QED
    BY <1>6

(* A careful user's grid, of a table that fits one page.                      *)
GridInv ==
    /\ wanted >= Step
    /\ hasResult => Mirrors(table, rows, SavedRows)
    /\ ~hasResult => rows = <<>>

(* What is saved is what was entered, and its row is then the table's.        *)
LEMMA EffectsMirror ==
  ASSUME SafeInv, Editing, Mirrors(table, rows, SavedRows), NEW e \in Effects
  PROVE  /\ Mirrors(e.table, [rows EXCEPT ![edited.row] = e.data], 1 .. Len(rows))
         /\ IsStored(edited.data, e.table)
  <1> DEFINE i == edited.row
             d == edited.data
  <1>1. /\ i \in 1 .. Len(rows) /\ i \in DOMAIN rows
        /\ d \in Row /\ d = [key |-> d.key, val |-> d.val]
        /\ edited.inserted \in BOOLEAN
    <2>1. rows \in Seq(Row)
      BY DEF SafeInv, TypeOK
    <2> QED
      BY <2>1, EditedRow DEF Row
  <1>2. CASE edited.inserted
    <2>1. SavedRows = (1 .. Len(rows)) \ {i}
      BY <1>2 DEF SavedRows, Unsaved
    <2>2. PICK k \in NewKeys(d) : /\ e.table = Put(table, k, d.val)
                                  /\ e.data = [d EXCEPT !.key = k]
      BY <1>2 DEF Effects, InsertEffects
    <2>3. k \notin DOMAIN table /\ d.key \in {k, NoKey}
      <3>1. CASE d.key = NoKey
        <4>1. k \in Keys /\ \A j \in DOMAIN table : j < k
          BY <3>1 DEF NewKeys
        <4>2. k \in Int
          BY <4>1, RowEditingAssumption DEF Keys
        <4> QED
          BY <3>1, <4>1, <4>2
      <3>2. CASE d.key # NoKey
        BY <3>2 DEF NewKeys
      <3> QED
        BY <3>1, <3>2
    <2>4. Put(table, k, d.val)[k] = d.val /\ k \in DOMAIN Put(table, k, d.val)
      BY DEF Put
    <2>5. e.data = Stored(Put(table, k, d.val), k)
      <3>1. [d EXCEPT !.key = k] = [key |-> k, val |-> d.val]
        BY <1>1 DEF Row
      <3> QED
        BY <2>2, <2>4, <3>1 DEF Stored
    <2> HIDE DEF d, i
    <2>6. Mirrors(Put(table, k, d.val),
                  [rows EXCEPT ![i] = Stored(Put(table, k, d.val), k)], SavedRows \cup {i})
      <3>1. i \notin SavedRows
        BY <2>1
      <3> QED
        BY <1>1, <2>3, <3>1, MirrorsPut
    <2>7. SavedRows \cup {i} = 1 .. Len(rows)
      BY <1>1, <2>1
    <2>8. Mirrors(e.table, [rows EXCEPT ![i] = e.data], 1 .. Len(rows))
      BY <2>2, <2>5, <2>6, <2>7
    <2>9. IsStored(d, e.table)
      BY <2>2, <2>3, <2>4 DEF IsStored
    <2> QED
      BY <2>8, <2>9 DEF i, d
  <1>3. CASE ~edited.inserted
    <2> DEFINE old == rows[i]
               v == IF d.val = old.val THEN table[old.key] ELSE d.val
               U == Put(Without(table, old.key), d.key, v)
    <2>1. SavedRows = 1 .. Len(rows)
      BY <1>3 DEF SavedRows, Unsaved
    <2>2. old.key \in DOMAIN table /\ old = Stored(table, old.key)
      BY <1>1, <2>1 DEF Mirrors
    <2>3. v = d.val
      BY <2>2 DEF Stored
    <2>4. /\ e.table \in Updated(old, d)
          /\ e.data = IF d.key \in DOMAIN e.table THEN Stored(e.table, d.key) ELSE d
      BY <1>3 DEF Effects, UpdateEffects
    <2>5. /\ e.table = U
          /\ d.key \notin DOMAIN table \ {old.key}
      BY <2>2, <2>4 DEF Updated
    <2> HIDE DEF v
    <2>6. d.key \in DOMAIN U /\ U[d.key] = v
      BY DEF Put
    <2>7. e.data = Stored(U, d.key)
      BY <2>4, <2>5, <2>6
    <2>8. d.key \notin DOMAIN Without(table, old.key)
      BY <2>5 DEF Without
    <2> HIDE DEF d, i
    <2>9. Mirrors(Without(table, old.key), rows, SavedRows \ {i})
      BY <1>1, <2>1, MirrorsDeleted
    <2>10. Mirrors(U, [rows EXCEPT ![i] = Stored(U, d.key)], (SavedRows \ {i}) \cup {i})
      BY <1>1, <2>8, <2>9, MirrorsPut
    <2>11. (SavedRows \ {i}) \cup {i} = 1 .. Len(rows)
      BY <1>1, <2>1
    <2>12. Mirrors(e.table, [rows EXCEPT ![i] = e.data], 1 .. Len(rows))
      BY <2>5, <2>7, <2>10, <2>11
    <2>13. IsStored(d, e.table)
      BY <2>3, <2>5, <2>6 DEF IsStored
    <2> QED
      BY <2>12, <2>13 DEF i, d
  <1> QED
    BY <1>1, <1>2, <1>3

(* Removing a new row leaves the rows of the table.                          *)
LEMMA UnsavedRemoved ==
  ASSUME SafeInv, Mirrors(table, rows, SavedRows), edited.inserted, Editing,
         rows' = RemoveAt(rows, edited.row), edited' = NoDraft, UNCHANGED table
  PROVE  Mirrors(table', rows', SavedRows')
  <1>1. edited.row \in 1 .. Len(rows) /\ rows \in Seq(Row)
    BY EditedRow DEF SafeInv, TypeOK
  <1>2. SavedRows = (1 .. Len(rows)) \ {edited.row}
    BY DEF SavedRows, Unsaved
  <1>3. Len(rows') = Len(rows) - 1
    BY <1>1, RemoveAtFacts
  <1>4. SavedRows' = 1 .. Len(rows) - 1
    BY <1>3, NoDraftType DEF SavedRows, Unsaved
  <1>5. Mirrors(table, rows', 1 .. Len(rows) - 1)
    BY <1>1, <1>2, MirrorsRemoved
  <1> QED
    BY <1>4, <1>5

(* What applying does to a careful user's grid and draft.                    *)
LEMMA AppliedGrid ==
  ASSUME SafeInv, "reload" \notin Failing, Mirrors(table, rows, SavedRows),
         NEW toApply, NEW dropped, NEW ok \in BOOLEAN,
         edited.inserted /\ toApply # 0 => Editing /\ toApply = edited.row,
         ApplyModifications(toApply, dropped, ok)
  PROVE  /\ Mirrors(table', rows', SavedRows')
         /\ edited' = NoDraft \/ UNCHANGED <<table, rows, edited>>
         /\ Differs => edited' = edited \/ IsStored(edited.data, table')
         /\ ok /\ Differs => edited' = NoDraft
         /\ ~ok => Differs /\ dropped = 0
  <1> DEFINE Goal == /\ Mirrors(table', rows', SavedRows')
                     /\ edited' = NoDraft \/ UNCHANGED <<table, rows, edited>>
                     /\ Differs => edited' = edited \/ IsStored(edited.data, table')
                     /\ ok /\ Differs => edited' = NoDraft
                     /\ ~ok => Differs /\ dropped = 0
  <1>1. CASE Differs /\ dropped = 0 /\ ok /\ Save
    <2>1. PICK e \in Effects : /\ table' = e.table
                               /\ rows' = [rows EXCEPT ![edited.row] = e.data]
                               /\ edited' = NoDraft
      BY <1>1 DEF Save
    <2>2. /\ Mirrors(table', rows', 1 .. Len(rows))
          /\ IsStored(edited.data, table')
      BY <1>1, <2>1, EffectsMirror DEF Differs
    <2>3. Len(rows') = Len(rows)
      <3>1. rows \in Seq(Row)
        BY DEF SafeInv, TypeOK
      <3> QED
        BY <2>1, <3>1
    <2>4. SavedRows' = 1 .. Len(rows)
      BY <2>1, <2>3, NoDraftType DEF SavedRows, Unsaved
    <2> QED
      BY <1>1, <2>1, <2>2, <2>4
  <1>2. CASE Differs /\ dropped = 0 /\ ~ok /\ (Refuse \/ SaveBlindly)
    <2>1. UNCHANGED <<table, rows, edited>>
      BY <1>2 DEF Refuse, SaveBlindly
    <2> QED
      BY <1>2, <2>1 DEF SavedRows, Unsaved
  <1>3. CASE /\ edited.inserted /\ ~Differs /\ toApply # 0
             /\ ok /\ dropped = toApply /\ DropEmpty(toApply)
    <2>1. toApply = edited.row /\ Editing
      BY <1>3
    <2> QED
      BY <1>3, <2>1, UnsavedRemoved DEF DropEmpty
  <1>4. CASE ~Differs /\ ok /\ UNCHANGED <<table, rows, edited, nextEnabled>>
    BY <1>4 DEF SavedRows, Unsaved
  <1> QED
    BY <1>1, <1>2, <1>3, <1>4, Zenon DEF ApplyModifications

(* The draft with something to save is of the row the view is at.            *)
DraftInv == Differs => edited.row = viewCur

(* One page holds the table, and what was written is read back.             *)
CarefulAssumption == MaxKey <= Step /\ "reload" \notin Failing

(* A new row that is applied is the one of the draft.                         *)
LEMMA NewRowApplied ==
  ASSUME CarefulInv
  PROVE  edited.inserted => Editing /\ edited.row = curRow /\ edited.row = viewCur
  BY DEF CarefulInv, InsertedIsCurrent, Editing, NoDraft

(* Reading the table again shows it, or nothing.                            *)
LEMMA ReloadMirrors ==
  ASSUME CarefulAssumption, SafeInv, NEW count \in Nat, count >= Step, Reload(count)
  PROVE  GridInv'
  <1>1. /\ edited' = NoDraft /\ wanted' = count
        /\ \/ rows' = Fetched(table', 0, count) /\ hasResult' = TRUE
           \/ rows' = <<>> /\ hasResult' = FALSE
    BY DEF Reload, ValidateNext
  <1>2. CASE rows' = <<>> /\ hasResult' = FALSE
    BY <1>1, <1>2 DEF GridInv
  <1>3. CASE rows' = Fetched(table', 0, count) /\ hasResult' = TRUE
    <2>1. TableType(table')
      BY ReloadSafe DEF SafeInv, TypeOK, TableType
    <2>2. MaxKey <= count
      BY RowEditingAssumption DEF CarefulAssumption
    <2>3. Mirrors(table', rows', 1 .. Len(rows'))
      BY <1>3, <2>1, <2>2, FetchedAll
    <2>4. SavedRows' = 1 .. Len(rows')
      BY <1>1, NoDraftType DEF SavedRows, Unsaved
    <2> QED
      BY <1>1, <1>3, <2>3, <2>4 DEF GridInv
  <1> QED
    BY <1>1, <1>2, <1>3

(* Without a result the grid is empty, and nothing is edited or deleted.      *)
LEMMA EmptyGrid ==
  ASSUME SafeInv, CarefulInv, GridInv, ~hasResult
  PROVE  /\ rows = <<>> /\ Len(rows) = 0 /\ viewCur = 0 /\ doomed = {}
         /\ ~Editing /\ edited = NoDraft
  <1>1. rows = <<>> /\ Len(rows) = 0
    BY DEF GridInv
  <1>2. viewCur = 0 /\ doomed = {}
    <2>1. viewCur \in Nat /\ viewCur <= 0 /\ \A r \in doomed : r \in 1 .. 0
      BY <1>1 DEF SafeInv, TypeOK, RowsInRange
    <2> QED
      BY <2>1
  <1>3. ~Editing
    BY <1>1, EditedRow
  <1> QED
    BY <1>1, <1>2, <1>3 DEF Editing

(* There are no more rows to load.                                          *)
LEMMA LoadMoreMirrors ==
  ASSUME CarefulAssumption, SafeInv, GridInv, NEW count \in Nat, count >= Step,
         hasResult, LoadMore(count)
  PROVE  GridInv' /\ UNCHANGED <<table, rows, edited, viewCur>>
  <1>1. TableType(table) /\ rows \in Seq(Row) /\ Len(rows) \in Nat
    BY DEF SafeInv, TypeOK, TableType
  <1>2. Cardinality(DOMAIN table) <= Len(rows) /\ Cardinality(DOMAIN table) \in Nat
    <2>1. SavedRows \in SUBSET (1 .. Len(rows))
      BY DEF SavedRows
    <2>2. IsFiniteSet(1 .. Len(rows)) /\ Cardinality(1 .. Len(rows)) = Len(rows)
      <3>1. PICK n \in Nat : n = Len(rows)
        BY <1>1
      <3>2. IsFiniteSet(1 .. n) /\ Cardinality(1 .. n) = n
        BY FS_Interval
      <3> QED
        BY <3>1, <3>2
    <2>3. Cardinality(SavedRows) <= Len(rows)
      BY <2>1, <2>2, FS_Subset
    <2>4. Cardinality(SavedRows) = Cardinality(DOMAIN table)
      BY <1>1, MirrorsCount DEF GridInv
    <2> QED
      BY <1>1, <2>3, <2>4, TableSize, RowEditingAssumption
  <1> DEFINE limit == IF Len(rows) <= count THEN count - Len(rows)
                                            ELSE Cardinality(DOMAIN table)
  <1>3. limit \in Nat
    BY <1>1, <1>2
  <1>4. rows' = rows \o Fetched(table, Len(rows), limit) \/ rows' = rows
    BY DEF LoadMore
  <1> HIDE DEF limit
  <1>5. Fetched(table, Len(rows), limit) = <<>>
    BY <1>1, <1>2, <1>3, FetchedNone
  <1>6. rows' = rows
    BY <1>1, <1>4, <1>5
  <1>7. UNCHANGED <<table, edited, viewCur>> /\ wanted' = count /\ hasResult'
    BY DEF LoadMore, ValidateNext, cursor
  <1> QED
    BY <1>6, <1>7 DEF GridInv, SavedRows, Unsaved

(* However rows are asked for, a page of them is.                            *)
LEMMA CountsSuffice ==
  ASSUME SafeInv, GridInv
  PROVE  \A count \in {Min({wanted + Step, MaxLoad}), MaxLoad, wanted, Step} :
            count \in Nat /\ count >= Step
  <1>1. /\ wanted \in Nat /\ wanted >= Step /\ Step \in Nat /\ MaxLoad \in Nat
        /\ MaxLoad >= Step
    BY RowEditingAssumption DEF SafeInv, TypeOK, GridInv
  <1>2. PICK m : m = wanted + Step
    OBVIOUS
  <1>3. m \in Nat /\ m >= Step
    BY <1>1, <1>2
  <1>4. Min({m, MaxLoad}) = IF m <= MaxLoad THEN m ELSE MaxLoad
    BY <1>1, <1>3, MinMax
  <1> QED
    BY <1>1, <1>2, <1>3, <1>4

(* Every step of a careful user keeps the grid the table, and the draft.      *)
LEMMA StepShown ==
  ASSUME CarefulAssumption, SafeInv, CarefulInv, GridInv, DraftInv, hasResult,
         [CarefulNext]_vars
  PROVE  GridInv' /\ DraftInv'
  <1> DEFINE Goal == GridInv' /\ DraftInv'
  <1> SUFFICES Goal
    OBVIOUS
  <1>0. /\ rows \in Seq(Row) /\ Len(rows) \in Nat /\ viewCur \in Nat
        /\ Mirrors(table, rows, SavedRows) /\ "reload" \notin Failing
    BY DEF SafeInv, TypeOK, GridInv, CarefulAssumption
  <1>1. ASSUME UNCHANGED <<table, rows, wanted, hasResult, viewCur, edited>> PROVE Goal
    BY <1>1 DEF GridInv, DraftInv, SavedRows, Unsaved, Differs, Editing
  <1>2. ASSUME Mirrors(table', rows', SavedRows'), edited' = NoDraft,
               UNCHANGED <<wanted, hasResult>>
        PROVE  Goal
    BY <1>2 DEF GridInv, DraftInv, Differs, Editing
  <1>3. ~Editing => SavedRows = 1 .. Len(rows) /\ \A r : ~Unsaved(r)
    BY NoDraftType DEF Editing, SavedRows, Unsaved
  <1>4. ASSUME NEW r \in 1 .. Len(rows), MoveTo(r) PROVE Goal
    <2> DEFINE toApply == IF viewCur # 0 THEN viewCur ELSE curRow
    <2>1. PICK dropped \in 0 .. Len(rows), ok \in BOOLEAN :
            /\ ApplyModifications(toApply, dropped, ok)
            /\ IF ok \/ viewCur = 0
               THEN viewCur' = ViewAfter(r, dropped) /\ curRow' = viewCur'
               ELSE UNCHANGED cursor
      BY <1>4, Zenon DEF MoveTo
    <2>2. UNCHANGED <<wanted, hasResult>>
      BY <1>4 DEF MoveTo, loaded
    <2>3. edited.inserted => Editing /\ toApply = edited.row
      BY NewRowApplied
    <2> HIDE DEF toApply
    <2>4. /\ Mirrors(table', rows', SavedRows')
          /\ edited' = NoDraft \/ UNCHANGED <<table, rows, edited>>
          /\ ok /\ Differs => edited' = NoDraft
      BY <1>0, <2>1, <2>3, AppliedGrid
    <2>5. CASE edited' = NoDraft
      BY <1>2, <2>2, <2>4, <2>5
    <2>6. CASE edited' # NoDraft
      <3>1. ok => ~Differs
        BY <2>4, <2>6
      <3>2. Differs => viewCur # 0
        BY EditedRow DEF Differs
      <3>3. Differs => viewCur' = viewCur
        BY <2>1, <3>1, <3>2 DEF cursor
      <3> QED
        BY <2>2, <2>4, <2>6, <3>3 DEF GridInv, DraftInv, Differs, Editing
    <2> QED
      BY <2>5, <2>6
  <1>5. ASSUME NEW col, NEW v, SetData(col, v) PROVE Goal
    <2>1. /\ UNCHANGED <<table, rows, viewCur, wanted, hasResult>>
          /\ \/ edited' = edited
             \/ /\ edited'.row = viewCur
                /\ edited'.inserted = (edited.inserted /\ edited.row = viewCur)
      BY <1>5 DEF SetData, loaded
    <2>2. CASE edited' = edited
      BY <1>1, <2>1, <2>2
    <2>3. CASE /\ edited'.row = viewCur
               /\ edited'.inserted = (edited.inserted /\ edited.row = viewCur)
      <3>1. \A r : Unsaved(r)' <=> Unsaved(r)
        BY <2>3, NewRowApplied DEF Unsaved
      <3>2. SavedRows' = SavedRows
        BY <2>1, <3>1 DEF SavedRows
      <3> QED
        BY <2>1, <2>3, <3>2 DEF GridInv, DraftInv
    <2> QED
      BY <2>1, <2>2, <2>3
  <1>6. CASE PostChanges
    <2>1. PICK dropped \in 0 .. Len(rows), ok \in BOOLEAN :
            /\ ApplyModifications(curRow, dropped, ok)
            /\ RowRemoved(dropped, curRow)
      BY <1>6, Zenon DEF PostChanges
    <2>2. UNCHANGED <<wanted, hasResult>>
      BY <1>6 DEF PostChanges, loaded
    <2>3. /\ Mirrors(table', rows', SavedRows')
          /\ edited' = NoDraft \/ UNCHANGED <<table, rows, edited>>
          /\ ok /\ Differs => edited' = NoDraft
          /\ ~ok => dropped = 0
      BY <1>0, <2>1, NewRowApplied, AppliedGrid
    <2>4. CASE edited' = NoDraft
      BY <1>2, <2>2, <2>3, <2>4
    <2>5. CASE edited' # NoDraft
      <3>1. Differs => viewCur' = viewCur
        BY <2>1, <2>3, <2>5 DEF RowRemoved, ViewAfter
      <3> QED
        BY <2>2, <2>3, <2>5, <3>1 DEF GridInv, DraftInv, Differs, Editing
    <2> QED
      BY <2>4, <2>5
  <1>7. CASE DiscardModifications
    <2>1. /\ edited' = NoDraft /\ UNCHANGED <<table, wanted, hasResult>> /\ Editing
          /\ rows' = IF edited.inserted /\ curRow # 0 THEN RemoveAt(rows, curRow) ELSE rows
      BY <1>7 DEF DiscardModifications, loaded
    <2>2. CASE edited.inserted
      <3>1. curRow = edited.row /\ curRow # 0
        BY <2>2, NewRowApplied DEF CarefulInv
      <3>2. Mirrors(table', rows', SavedRows')
        BY <1>0, <2>1, <2>2, <3>1, UnsavedRemoved
      <3> QED
        BY <1>2, <2>1, <3>2
    <2>3. CASE ~edited.inserted
      <3>1. SavedRows' = SavedRows
        BY <2>1, <2>3, NoDraftType DEF SavedRows, Unsaved
      <3> QED
        BY <1>0, <1>2, <2>1, <2>3, <3>1
    <2> QED
      BY <2>2, <2>3
  <1>8. ASSUME ~Editing, NEW data, InsertRow(data) PROVE Goal
    <2>1. PICK n \in 1 .. Len(rows) + 1 :
            /\ rows' = InsertAt(rows, n, DefaultRow)
            /\ edited' = [row |-> n, data |-> data, inserted |-> TRUE]
            /\ viewCur' = n
            /\ UNCHANGED <<table, wanted, hasResult>>
      BY <1>8 DEF InsertRow, loaded
    <2>2. Len(rows') = Len(rows) + 1
      BY <1>0, <2>1, NoDraftType, InsertAtFacts
    <2>3. SavedRows' = (1 .. Len(rows) + 1) \ {n}
      BY <2>1, <2>2 DEF SavedRows, Unsaved
    <2>4. Mirrors(table, rows', (1 .. Len(rows) + 1) \ {n})
      BY <1>0, <1>3, <1>8, <2>1, NoDraftType, MirrorsInserted
    <2> QED
      BY <2>1, <2>3, <2>4 DEF GridInv, DraftInv
  <1>9. ASSUME NEW selected, DeleteSelectedRows(selected) PROVE Goal
    BY <1>1, <1>9 DEF DeleteSelectedRows, cursor, loaded
  <1>10. CASE DeleteNext
    <2>1. PICK r \in doomed : DeleteRowInDB(r) \/ FailDelete(r)
      BY <1>10 DEF DeleteNext
    <2>2. /\ ~Editing /\ r \in 1 .. Len(rows) /\ SavedRows = 1 .. Len(rows)
          /\ ~Unsaved(r) /\ WhereRow(r) = r
      BY <1>3, <2>1 DEF CarefulInv, SafeInv, RowsInRange, WhereRow
    <2>3. CASE DeleteRowInDB(r)
      <3>1. /\ table' = Without(table, rows[r].key) /\ rows' = RemoveAt(rows, r)
            /\ edited' = NoDraft /\ UNCHANGED <<wanted, hasResult>>
        BY <2>2, <2>3 DEF DeleteRowInDB, loaded
      <3>2. Mirrors(table', rows, (1 .. Len(rows)) \ {r})
        BY <1>0, <2>2, <3>1, MirrorsDeleted
      <3>3. Mirrors(table', rows', 1 .. Len(rows) - 1)
        BY <1>0, <2>2, <3>1, <3>2, MirrorsRemoved
      <3>4. SavedRows' = 1 .. Len(rows) - 1
        BY <1>0, <2>2, <3>1, NoDraftType, RemoveAtFacts DEF SavedRows, Unsaved
      <3> QED
        BY <1>2, <3>1, <3>3, <3>4
    <2>4. CASE FailDelete(r)
      BY <1>1, <2>4 DEF FailDelete, loaded
    <2> QED
      BY <2>1, <2>3, <2>4
  <1>11. ASSUME NEW count \in Nat, count >= Step, LoadMore(count) PROVE Goal
    <2>1. GridInv' /\ UNCHANGED <<table, rows, edited, viewCur>>
      BY <1>11, LoadMoreMirrors
    <2> QED
      BY <2>1 DEF DraftInv, Differs, Editing
  <1>12. ASSUME NEW count \in Nat, count >= Step, Reload(count) PROVE Goal
    <2>1. edited' = NoDraft
      BY <1>12 DEF Reload
    <2> QED
      BY <1>12, <2>1, ReloadMirrors DEF DraftInv, Differs, Editing
  <1>13. CASE UNCHANGED vars
    BY <1>1, <1>13 DEF vars
  <1> HIDE DEF Goal
  <1> QED
    <2>1. CASE Rest
      <3>1. ASSUME ShowNextRows \/ ShowAllRows PROVE Goal
        BY <1>11, <3>1, CountsSuffice DEF ShowNextRows, ShowAllRows
      <3>2. ASSUME Refresh \/ ApplyColumnSort PROVE Goal
        BY <1>12, <3>2, CountsSuffice DEF Refresh, ApplyColumnSort
      <3>3. ASSUME Edit PROVE Goal
        BY <1>5, <3>3 DEF Edit
      <3> QED
        BY <1>4, <1>6, <1>7, <1>10, <2>1, <3>1, <3>2, <3>3 DEF Rest
    <2>2. CASE ~Editing /\ AddRow
      BY <2>2, <1>8 DEF AddRow, InsertEmptyRow, DuplicateCurrentRow
    <2>3. CASE ~Editing /\ StartDelete
      BY <2>3, <1>9 DEF StartDelete
    <2> QED
      BY <2>1, <2>2, <2>3, <1>13 DEF CarefulNext

(* After a refresh that failed, the rows come back by another or by loading.  *)
LEMMA StepEmpty ==
  ASSUME CarefulAssumption, SafeInv, CarefulInv, GridInv, ~hasResult, [CarefulNext]_vars
  PROVE  GridInv' /\ DraftInv'
  <1>0. /\ rows = <<>> /\ Len(rows) = 0 /\ viewCur = 0 /\ doomed = {}
        /\ ~Editing /\ edited = NoDraft /\ TableType(table)
    BY EmptyGrid DEF SafeInv, TypeOK, TableType
  <1>1. ASSUME edited' = NoDraft PROVE DraftInv'
    BY <1>1 DEF DraftInv, Differs, Editing
  <1>2. ASSUME NEW count \in Nat, count >= Step, LoadMore(count) PROVE GridInv' /\ DraftInv'
    <2>1. UNCHANGED <<table, edited>> /\ wanted' = count
      BY <1>2 DEF LoadMore
    <2>2. CASE UNCHANGED <<rows, hasResult>>
      BY <1>0, <1>1, <1>2, <2>1, <2>2 DEF GridInv
    <2>3. CASE rows' = rows \o Fetched(table, 0, count) /\ hasResult' = TRUE
      <3>1. MaxKey <= count
        BY <1>2, RowEditingAssumption DEF CarefulAssumption
      <3>2. Mirrors(table, Fetched(table, 0, count), 1 .. Len(Fetched(table, 0, count)))
        BY <1>0, <1>2, <3>1, FetchedAll
      <3>3. rows' = Fetched(table, 0, count)
        BY <1>0, <1>2, <2>3, FetchedType
      <3>4. SavedRows' = 1 .. Len(rows')
        BY <1>0, <2>1, NoDraftType DEF SavedRows, Unsaved
      <3> QED
        BY <1>0, <1>1, <1>2, <2>1, <2>3, <3>2, <3>3, <3>4 DEF GridInv
    <2> QED
      <3>1. Len(rows) <= count /\ count - Len(rows) = count
        BY <1>0, <1>2
      <3> QED
        BY <1>0, <1>2, <2>2, <2>3, <3>1 DEF LoadMore, ValidateNext
  <1>3. ASSUME NEW count \in Nat, count >= Step, Reload(count) PROVE GridInv' /\ DraftInv'
    BY <1>1, <1>3, ReloadMirrors DEF Reload
  <1>4. CASE UNCHANGED vars
    BY <1>0, <1>1, <1>4 DEF vars, GridInv
  <1>5. ~AddRow
    BY DEF AddRow, InsertEmptyRow, DuplicateCurrentRow, InsertRow
  <1>6. ~StartDelete /\ ~Edit /\ ~PostChanges /\ ~DiscardModifications /\ ~DeleteNext
    BY <1>0 DEF StartDelete, DeleteSelectedRows, Edit, SetData, PostChanges,
                DiscardModifications, DeleteNext
  <1>7. ~\E r \in 1 .. Len(rows) : MoveTo(r)
    BY <1>0
  <1>8. CASE ShowNextRows \/ ShowAllRows
    BY <1>2, <1>8, CountsSuffice DEF ShowNextRows, ShowAllRows
  <1>9. CASE Refresh \/ ApplyColumnSort
    BY <1>3, <1>9, CountsSuffice DEF Refresh, ApplyColumnSort
  <1> QED
    BY <1>4, <1>5, <1>6, <1>7, <1>8, <1>9 DEF CarefulNext, Rest

LEMMA StepGrid ==
  ASSUME CarefulAssumption, SafeInv, CarefulInv, GridInv, DraftInv, [CarefulNext]_vars
  PROVE  GridInv' /\ DraftInv'
  BY StepShown, StepEmpty

(* The table that has just been opened is shown, and nothing is edited.       *)
LEMMA InitGrid == CarefulAssumption /\ Init => GridInv /\ DraftInv
  <1> SUFFICES ASSUME CarefulAssumption, Init PROVE GridInv /\ DraftInv
    OBVIOUS
  <1>1. TableType(table) /\ Step \in Nat /\ MaxKey <= Step
    BY RowEditingAssumption DEF Init, TableType, Keys, CarefulAssumption
  <1>2. rows = Fetched(table, 0, Step) /\ edited = NoDraft /\ wanted = Step /\ hasResult
    BY DEF Init
  <1>3. SavedRows = 1 .. Len(rows) /\ ~Differs
    BY <1>2, NoDraftType DEF SavedRows, Unsaved, Differs, Editing
  <1>4. Mirrors(table, rows, SavedRows)
    BY <1>1, <1>2, <1>3, FetchedAll
  <1> QED
    BY <1>1, <1>2, <1>3, <1>4 DEF GridInv, DraftInv

(* A careful user's steps are steps of a user.                               *)
LEMMA CarefulIsNext == [CarefulNext]_vars => [Next]_vars
  BY DEF CarefulNext, Next

GridIInv == SafeInv /\ CarefulInv /\ GridInv /\ DraftInv

LEMMA GridIInvHolds ==
  ASSUME CarefulAssumption
  PROVE  CarefulSpec => []GridIInv
  <1>1. Init => GridIInv
    BY InitSafe, InitCareful, InitGrid DEF GridIInv
  <1>2. GridIInv /\ [CarefulNext]_vars => GridIInv'
    BY StepSafe, StepCareful, StepGrid, CarefulIsNext DEF GridIInv
  <1> QED
    BY <1>1, <1>2, PTL DEF CarefulSpec

(* A table that fits the first page, statements and loads that may fail:      *)
(* after any inserting, saving, cancelling, deleting and reloading by a       *)
(* careful user the grid under the draft is the table, every row once.        *)
THEOREM GridIsTable ==
  ASSUME CarefulAssumption
  PROVE  CarefulSpec => []GridShowsTable
  <1>1. ASSUME GridIInv PROVE GridShowsTable
    <2>0. CASE ~hasResult
      BY <1>1, <2>0 DEF GridIInv, GridInv, GridShowsTable
    <2> SUFFICES ASSUME hasResult PROVE GridShowsTable
      BY <2>0
    <2>1. TableType(table) /\ Mirrors(table, rows, SavedRows)
      BY <1>1 DEF GridIInv, SafeInv, TypeOK, TableType, GridInv
    <2>2. Cardinality(SavedRows) = Cardinality(DOMAIN table)
      BY <2>1, MirrorsCount
    <2>3. {rows[r] : r \in SavedRows} \subseteq {Stored(table, k) : k \in DOMAIN table}
      BY <2>1 DEF Mirrors
    <2>4. {Stored(table, k) : k \in DOMAIN table} \subseteq {rows[r] : r \in SavedRows}
      BY <2>1 DEF Mirrors
    <2> QED
      BY <2>2, <2>3, <2>4 DEF GridShowsTable
  <1> QED
    BY <1>1, GridIInvHolds, PTL

Kept == \/ edited'.row = edited.row
        \/ IsStored(edited.data, table')
        \/ DiscardModifications
        \/ Refusable /\ (Refresh \/ ApplyColumnSort)

(* A step of a careful user keeps, saves or cancels what was typed.           *)
LEMMA StepKeeps ==
  ASSUME CarefulAssumption, GridIInv, [CarefulNext]_vars, Differs
  PROVE  Kept
  <1>0. /\ SafeInv /\ CarefulInv /\ Mirrors(table, rows, SavedRows)
        /\ Editing /\ edited.row = viewCur /\ "reload" \notin Failing /\ doomed = {}
    <2>1. hasResult
      BY EmptyGrid DEF GridIInv, Differs
    <2> QED
      BY <2>1 DEF GridIInv, GridInv, DraftInv, Differs, CarefulInv, CarefulAssumption
  <1>1. ASSUME NEW toApply, NEW dropped, NEW ok \in BOOLEAN,
               edited.inserted => toApply = edited.row,
               ApplyModifications(toApply, dropped, ok)
        PROVE  Kept
    <2>1. edited' = edited \/ IsStored(edited.data, table')
      BY <1>0, <1>1, AppliedGrid
    <2> QED
      BY <2>1 DEF Kept
  <1>2. ASSUME NEW r \in 1 .. Len(rows), MoveTo(r) PROVE Kept
    <2>1. PICK dropped \in 0 .. Len(rows), ok \in BOOLEAN :
            ApplyModifications(IF viewCur # 0 THEN viewCur ELSE curRow, dropped, ok)
      BY <1>2, Zenon DEF MoveTo
    <2>2. (IF viewCur # 0 THEN viewCur ELSE curRow) = edited.row
      BY <1>0, EditedRow
    <2> QED
      BY <1>1, <2>1, <2>2
  <1>3. CASE PostChanges
    <2>1. PICK dropped \in 0 .. Len(rows), ok \in BOOLEAN :
            ApplyModifications(curRow, dropped, ok)
      BY <1>3, Zenon DEF PostChanges
    <2> QED
      BY <1>0, <1>1, <2>1, NewRowApplied
  <1>4. ASSUME NEW count, Reload(count) PROVE Refusable \/ IsStored(edited.data, table')
    <2>1. Refusable \/ \E e \in Effects : table' = e.table
      BY <1>4 DEF Reload
    <2> QED
      BY <1>0, <2>1, EffectsMirror
  <1>5. CASE Refresh \/ ApplyColumnSort
    BY <1>4, <1>5 DEF Refresh, ApplyColumnSort, Kept
  <1>6. CASE Edit \/ ShowNextRows \/ ShowAllRows \/ UNCHANGED vars
    BY <1>0, <1>6 DEF Edit, SetData, ShowNextRows, ShowAllRows, LoadMore, vars, Kept
  <1>7. CASE DiscardModifications
    BY <1>7 DEF Kept
  <1>8. ~DeleteNext
    BY <1>0 DEF DeleteNext
  <1> QED
    BY <1>0, <1>2, <1>3, <1>5, <1>6, <1>7, <1>8 DEF CarefulNext, Rest

(* What a careful user typed is not lost without an error, whatever statement *)
(* or load fails and wherever the user goes meanwhile.                       *)
THEOREM DraftsAreKept ==
  ASSUME CarefulAssumption
  PROVE  CarefulSpec => DraftsKept
  <1>1. GridIInv /\ [CarefulNext]_vars =>
          [Differs => \/ edited'.row = edited.row
                      \/ IsStored(edited.data, table')
                      \/ DiscardModifications
                      \/ Refusable /\ (Refresh \/ ApplyColumnSort)]_vars
    BY StepKeeps DEF Kept
  <1> QED
    BY <1>1, GridIInvHolds, PTL DEF CarefulSpec, DraftsKept

=============================================================================
