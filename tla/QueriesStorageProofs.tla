------------------------- MODULE QueriesStorageProofs -------------------------
(* Safety of QueriesStorage, for any number of tabs and texts.               *)
EXTENDS QueriesStorage, FiniteSetTheorems, TLAPS

Distinct(s) == \A i, j \in 1 .. Len(s) : s[i] = s[j] => i = j

(* The settings f keep the list s.                                          *)
Lists(s, f) ==
    /\ \A i \in 1 .. Len(s) : s[i] \in DOMAIN f /\ f[s[i]] = i - 1
    /\ \A id \in DOMAIN f : \E i \in 1 .. Len(s) : s[i] = id

(* There are as many ids as places in the list.                              *)
LEMMA ListsCount ==
  ASSUME NEW s \in Seq(Ids), NEW f, Lists(s, f)
  PROVE  Cardinality(DOMAIN f) = Len(s)
<1>1. s \in [1 .. Len(s) -> DOMAIN f]
  BY DEF Lists
<1>2. \A i, j \in 1 .. Len(s) : s[i] = s[j] => i = j
  <2> SUFFICES ASSUME NEW i \in 1 .. Len(s), NEW j \in 1 .. Len(s), s[i] = s[j]
               PROVE i = j
    OBVIOUS
  <2>1. f[s[i]] = i - 1 /\ f[s[j]] = j - 1
    BY DEF Lists
  <2> QED
    BY <2>1
<1>3. DOMAIN s = 1 .. Len(s)
  OBVIOUS
<1>4. s \in Bijection(1 .. Len(s), DOMAIN f)
  BY <1>1, <1>2, <1>3 DEF Bijection, Injection, Surjection, IsInjective, Lists
<1>5. Len(s) \in Nat
  OBVIOUS
<1> QED
  BY <1>4, <1>5, FS_CountingElements DEF ExistsBijection

(* load() makes the list that is stored.                                    *)
LEMMA RestoresList ==
  ASSUME NEW s \in Seq(Ids), Lists(s, stored)
  PROVE  Restored = s
<1>1. Cardinality(DOMAIN stored) = Len(s)
  BY ListsCount
<1>2. ASSUME NEW i \in 1 .. Len(s)
      PROVE  (CHOOSE id \in DOMAIN stored : stored[id] = i - 1) = s[i]
  <2>1. s[i] \in DOMAIN stored /\ stored[s[i]] = i - 1
    BY DEF Lists
  <2>2. ASSUME NEW id \in DOMAIN stored, stored[id] = i - 1 PROVE id = s[i]
    <3>1. PICK j \in 1 .. Len(s) : s[j] = id
      BY DEF Lists
    <3>2. stored[s[j]] = j - 1
      BY DEF Lists
    <3>3. i = j
      BY <2>2, <3>1, <3>2
    <3> QED
      BY <3>1, <3>3
  <2> QED
    BY <2>1, <2>2
<1>3. Restored = [i \in 1 .. Len(s) |-> s[i]]
  BY <1>1, <1>2 DEF Restored
<1> QED
  BY <1>3

(* Closing a tab keeps the others, in their order.                           *)
LEMMA RemoveAtFacts ==
  ASSUME NEW s \in Seq(Ids), NEW i \in 2 .. Len(s)
  PROVE  /\ RemoveAt(s, i) \in Seq(Ids)
         /\ Len(RemoveAt(s, i)) = Len(s) - 1
         /\ \A j \in 1 .. Len(s) - 1 :
                RemoveAt(s, i)[j] = IF j < i THEN s[j] ELSE s[j + 1]
  BY DEF RemoveAt

-----------------------------------------------------------------------------
StoredListed == \E s \in Seq(Ids) : Lists(s, stored)

(* save() has entered the tabs it has done.                                  *)
DoneEntered ==
    IF pc \in {"backup", "writing"}
    THEN \A j \in 1 .. done : tabs[j] \in DOMAIN pending /\ pending[tabs[j]] = j - 1
    ELSE done = 0

WritesModified == pc = "writing" => done < Len(tabs) /\ modified[Current]

ListInv == TypeOK /\ Distinct(tabs) /\ StoredListed /\ DoneEntered /\ WritesModified

LEMMA ListInit == Init => ListInv
<1> SUFFICES ASSUME Init PROVE ListInv
  OBVIOUS
<1>1. <<>> \in Seq(Ids) /\ Len(<<>>) = 0 /\ DOMAIN <<>> = {}
  OBVIOUS
<1>2. TabType
  <2>1. NoTexts \in [Ids -> Texts] /\ [id \in Ids |-> FALSE] \in [Ids -> BOOLEAN]
    BY StorageAssumption DEF NoTexts
  <2> QED
    BY <1>1, <2>1 DEF Init, TabType
<1>3. SaveType
  BY <1>1 DEF Init, SaveType
<1>4. DiskType
  BY <1>1 DEF Init, DiskType
<1>5. StoredListed
  <2>1. Lists(<<>>, stored)
    BY <1>1 DEF Init, Lists
  <2> QED
    BY <1>1, <2>1 DEF StoredListed
<1> QED
  BY <1>1, <1>2, <1>3, <1>4, <1>5
  DEF Init, ListInv, TypeOK, Distinct, DoneEntered, WritesModified

(* The settings name tabs, and nothing else.                                *)
LEMMA SetIndexFacts ==
  ASSUME ListInv, pc \in {"backup", "writing"}, done < Len(tabs), SetIndex,
         UNCHANGED <<tabs, next>>
  PROVE  /\ SaveType'
         /\ Current \in Ids
         /\ \A j \in 1 .. done' : tabs'[j] \in DOMAIN pending' /\ pending'[tabs'[j]] = j - 1
<1>1. done \in Nat /\ Len(tabs) \in Nat /\ done + 1 \in 1 .. Len(tabs)
  BY DEF ListInv, TypeOK, TabType, SaveType
<1>2. Current \in Ids
  BY <1>1 DEF Current, ListInv, TypeOK, TabType
<1>3. done' = done + 1 /\ tabs' = tabs
  BY DEF SetIndex
<1>4. /\ DOMAIN pending' = DOMAIN pending \cup {Current}
      /\ pending'[Current] = done
      /\ \A id \in DOMAIN pending \ {Current} : pending'[id] = pending[id]
  BY DEF SetIndex
<1>5. SaveType'
  BY <1>1, <1>2, <1>3, <1>4 DEF SaveType, ListInv, TypeOK
<1>6. ASSUME NEW j \in 1 .. done + 1
      PROVE  tabs[j] \in DOMAIN pending' /\ pending'[tabs[j]] = j - 1
  <2>1. CASE j = done + 1
    BY <1>1, <1>4, <2>1 DEF Current
  <2>2. CASE j # done + 1
    <3>1. j \in 1 .. done /\ j \in 1 .. Len(tabs)
      BY <1>1, <2>2
    <3>2. tabs[j] \in DOMAIN pending /\ pending[tabs[j]] = j - 1
      BY <3>1 DEF ListInv, DoneEntered
    <3>3. tabs[j] # Current
      BY <1>1, <2>2, <3>1 DEF Current, ListInv, Distinct
    <3> QED
      BY <1>4, <3>2, <3>3
  <2> QED
    BY <2>1, <2>2
<1> QED
  BY <1>2, <1>3, <1>5, <1>6

(* Nothing that matters to the list is changed.                             *)
LEMMA ListKept ==
  ASSUME ListInv, UNCHANGED <<tabs, stored>> PROVE Distinct(tabs)' /\ StoredListed'
  BY DEF ListInv, Distinct, StoredListed, Lists

LEMMA StartList == ListInv /\ Start => ListInv'
<1> SUFFICES ASSUME ListInv, Start PROVE ListInv'
  OBVIOUS
<1>1. UNCHANGED <<saveVars, diskVars>> /\ pc' = "up" /\ done = 0
  BY DEF Start, ListInv, DoneEntered
<1>2. tabs' \in Seq(Ids) /\ Len(tabs') > 0 /\ Distinct(tabs')
  <2>1. CASE DOMAIN stored = {}
    <3>1. PICK id \in Ids : tabs' = <<id>>
      BY <2>1 DEF Start
    <3>2. <<id>> \in Seq(Ids) /\ Len(<<id>>) = 1
      OBVIOUS
    <3> QED
      BY <3>1, <3>2 DEF Distinct
  <2>2. CASE DOMAIN stored # {}
    <3>1. PICK s \in Seq(Ids) : Lists(s, stored)
      BY DEF ListInv, StoredListed
    <3>2. tabs' = s
      BY <2>2, <3>1, RestoresList DEF Start
    <3>3. Len(s) > 0
      <4>1. Len(s) \in Nat
        OBVIOUS
      <4> QED
        BY <2>2, <3>1, <4>1 DEF Lists
    <3>4. Distinct(s)
      <4> SUFFICES ASSUME NEW i \in 1 .. Len(s), NEW j \in 1 .. Len(s), s[i] = s[j]
                   PROVE i = j
        BY DEF Distinct
      <4>1. stored[s[i]] = i - 1 /\ stored[s[j]] = j - 1
        BY <3>1 DEF Lists
      <4> QED
        BY <4>1
    <3> QED
      BY <3>2, <3>3, <3>4
  <2> QED
    BY <2>1, <2>2
<1>3. text' \in [Ids -> Texts]
  <2>1. \A id \in Ids : OnDisk(id) \in Texts
    BY StorageAssumption DEF ListInv, TypeOK, DiskType, OnDisk
  <2>2. CASE DOMAIN stored = {}
    BY <2>2, StorageAssumption DEF Start, NoTexts
  <2>3. CASE DOMAIN stored # {}
    BY <2>1, <2>3, StorageAssumption DEF Start
  <2> QED
    BY <2>2, <2>3
<1>4. TabType'
  BY <1>1, <1>2, <1>3, StorageAssumption DEF Start, TabType, NoTexts
<1>5. SaveType'
  <2>1. 0 <= Len(tabs')
    BY <1>2
  <2> QED
    BY <1>1, <2>1 DEF saveVars, SaveType, ListInv, TypeOK
<1>6. DiskType'
  BY <1>1 DEF Start, diskVars, DiskType, ListInv, TypeOK
<1>7. StoredListed'
  BY <1>1 DEF diskVars, ListInv, StoredListed, Lists
<1> QED
  BY <1>1, <1>2, <1>4, <1>5, <1>6, <1>7
  DEF ListInv, TypeOK, DoneEntered, WritesModified, saveVars, Distinct

LEMMA UserList == ListInv /\ User => ListInv'
<1> SUFFICES ASSUME ListInv, User PROVE ListInv'
  OBVIOUS
<1> USE DEF ListInv, TypeOK
<1>t. /\ text \in [Ids -> Texts] /\ shown \in [Ids -> Texts]
      /\ modified \in [Ids -> BOOLEAN]
      /\ tabs \in Seq(Ids) /\ Len(tabs) \in Nat
  BY DEF TabType
<1>1. CASE CreateQueryTabs
  BY <1>1, ListKept
  DEF CreateQueryTabs, saveVars, diskVars, history, TabType, SaveType, DiskType, DoneEntered,
      WritesModified
<1>2. CASE Type
  <2>1. shown' \in [Ids -> Texts]
    <3>1. PICK i \in DOMAIN tabs, t \in Texts : shown' = [shown EXCEPT ![tabs[i]] = t]
      BY <1>2 DEF Type
    <3> QED
      BY <3>1, <1>t
  <2> QED
    BY <1>2, <2>1, ListKept
    DEF Type, saveVars, diskVars, history, TabType, SaveType, DiskType, DoneEntered,
        WritesModified
<1>3. CASE AppendNewUserQuery
  <2>1. PICK id \in Ids : Fresh(id) /\ tabs' = Append(tabs, id)
    BY <1>3 DEF AppendNewUserQuery
  <2>2. /\ tabs' \in Seq(Ids) /\ Len(tabs') = Len(tabs) + 1
        /\ \A j \in 1 .. Len(tabs) : tabs'[j] = tabs[j]
        /\ tabs'[Len(tabs) + 1] = id
    BY <1>t, <2>1
  <2>3. \A j \in 1 .. Len(tabs) : tabs[j] # id
    BY <1>3, <1>t, <2>1 DEF AppendNewUserQuery, Fresh, Range
  <2>4. Distinct(tabs)'
    <3> SUFFICES ASSUME NEW i \in 1 .. Len(tabs'), NEW j \in 1 .. Len(tabs'),
                        tabs'[i] = tabs'[j]
                 PROVE i = j
      BY DEF Distinct
    <3>1. CASE i \in 1 .. Len(tabs) /\ j \in 1 .. Len(tabs)
      BY <2>2, <3>1 DEF Distinct
    <3>2. CASE i = Len(tabs) + 1 \/ j = Len(tabs) + 1
      BY <1>t, <2>2, <2>3, <3>2
    <3> QED
      BY <1>t, <2>2, <3>1, <3>2
  <2>5. StoredListed'
    BY <1>3 DEF AppendNewUserQuery, diskVars, StoredListed, Lists
  <2>6. TabType'
    BY <1>3, <1>t, <2>2 DEF AppendNewUserQuery, TabType
  <2>7. SaveType' /\ DiskType'
    BY <1>3, <1>t, <2>2 DEF AppendNewUserQuery, saveVars, diskVars, history, SaveType, DiskType
  <2> QED
    BY <1>3, <2>4, <2>5, <2>6, <2>7
    DEF AppendNewUserQuery, saveVars, DoneEntered, WritesModified
<1>4. CASE RemoveUserQueryAt
  <2>1. PICK i \in 2 .. Len(tabs) : tabs' = RemoveAt(tabs, i) /\ Forget(tabs[i])
    BY <1>4 DEF RemoveUserQueryAt
  <2>2. /\ tabs' \in Seq(Ids) /\ Len(tabs') = Len(tabs) - 1
        /\ \A j \in 1 .. Len(tabs) - 1 :
               tabs'[j] = IF j < i THEN tabs[j] ELSE tabs[j + 1]
    BY <1>t, <2>1, RemoveAtFacts
  <2>3. Distinct(tabs)'
    <3> SUFFICES ASSUME NEW j \in 1 .. Len(tabs'), NEW k \in 1 .. Len(tabs'),
                        tabs'[j] = tabs'[k]
                 PROVE j = k
      BY DEF Distinct
    <3> DEFINE old(n) == IF n < i THEN n ELSE n + 1
    <3>1. /\ old(j) \in 1 .. Len(tabs) /\ old(k) \in 1 .. Len(tabs)
          /\ tabs'[j] = tabs[old(j)] /\ tabs'[k] = tabs[old(k)]
      BY <1>t, <2>2
    <3>2. old(j) = old(k)
      BY <3>1 DEF Distinct
    <3> QED
      BY <3>2
  <2>4. StoredListed'
    BY <1>4 DEF RemoveUserQueryAt, diskVars, StoredListed, Lists
  <2>5. /\ text' \in [Ids -> Texts] /\ shown' \in [Ids -> Texts]
        /\ modified' \in [Ids -> BOOLEAN] /\ spoiled' \subseteq spoiled
    BY <1>t, <2>1, StorageAssumption DEF Forget
  <2>6. TabType'
    BY <1>4, <1>t, <2>1, <2>2, <2>5 DEF RemoveUserQueryAt, TabType
  <2>7. done = 0 /\ pc = "up"
    BY <1>4 DEF RemoveUserQueryAt, DoneEntered
  <2>8. SaveType'
    BY <1>4, <2>2, <2>6, <2>7, <1>t, <2>1 DEF RemoveUserQueryAt, saveVars, SaveType
  <2>9. DiskType'
    BY <1>4, <2>5 DEF RemoveUserQueryAt, diskVars, DiskType
  <2> QED
    BY <1>4, <2>3, <2>4, <2>6, <2>7, <2>8, <2>9
    DEF RemoveUserQueryAt, saveVars, DoneEntered, WritesModified
<1>5. ASSUME NEW why \in {"remove", "exit"}, BackupQueryTabs(why) PROVE ListInv'
  <2>1. modified' \in [Ids -> BOOLEAN]
    BY <1>5, <1>t DEF BackupQueryTabs, QueryTextEdited
  <2>2. TabType'
    BY <1>5, <1>t, <2>1 DEF BackupQueryTabs, TabType
  <2>3. SaveType'
    <3>1. pending' = stored /\ done' = 0 /\ next' = why /\ tabs' = tabs
      BY <1>5 DEF BackupQueryTabs
    <3>2. DOMAIN pending' \subseteq Ids /\ \A id \in DOMAIN pending' : pending'[id] \in Nat
      BY <3>1 DEF DiskType
    <3> QED
      BY <3>1, <3>2, <1>t DEF SaveType
  <2>5. DiskType'
    BY <1>5 DEF BackupQueryTabs, DiskType, diskVars
  <2>4. Distinct(tabs)' /\ StoredListed'
    BY <1>5, ListKept DEF BackupQueryTabs, diskVars
  <2> QED
    BY <1>5, <2>2, <2>3, <2>4, <2>5 DEF BackupQueryTabs, DoneEntered, WritesModified
<1>6. CASE Exit
  <2>1. Distinct(tabs)' /\ StoredListed'
    BY <1>6, ListKept DEF Exit, tabVars, diskVars
  <2> QED
    BY <1>6, <2>1
    DEF Exit, tabVars, saveVars, diskVars, history, TabType, SaveType, DiskType, DoneEntered,
        WritesModified
<1> QED
  BY <1>1, <1>2, <1>3, <1>4, <1>5, <1>6 DEF User

LEMMA SaveList == ListInv /\ (Save \/ SaveFails) => ListInv'
<1> SUFFICES ASSUME ListInv, Save \/ SaveFails PROVE ListInv'
  OBVIOUS
<1>t. /\ text \in [Ids -> Texts] /\ modified \in [Ids -> BOOLEAN]
      /\ files \in [Ids -> Texts \cup {NoFile}]
      /\ tabs \in Seq(Ids) /\ Len(tabs) \in Nat /\ done \in Nat
  BY DEF ListInv, TypeOK, TabType, SaveType, DiskType
<1>c. done < Len(tabs) => Current \in Ids
  BY <1>t DEF Current
<1>1. CASE SkipUnmodified \/ OpenFails
  <2>1. /\ pc = "backup" /\ done < Len(tabs) /\ SetIndex
        /\ UNCHANGED <<pc, next, tabVars, diskVars, spoiled>> /\ failed' \in BOOLEAN
    BY <1>1 DEF SkipUnmodified, OpenFails, history, ListInv, TypeOK, DiskType
  <2>2. /\ SaveType'
        /\ \A j \in 1 .. done' : tabs'[j] \in DOMAIN pending' /\ pending'[tabs'[j]] = j - 1
    BY <2>1, SetIndexFacts DEF tabVars
  <2>3. Distinct(tabs)' /\ StoredListed'
    BY <2>1, ListKept DEF tabVars, diskVars
  <2>4. TabType' /\ DiskType'
    BY <2>1 DEF ListInv, TypeOK, TabType, DiskType, tabVars, diskVars
  <2> QED
    BY <2>1, <2>2, <2>3, <2>4 DEF ListInv, TypeOK, DoneEntered, WritesModified
<1>2. CASE OpenFile
  <2>1. /\ pc = "backup" /\ done < Len(tabs) /\ modified[Current] /\ pc' = "writing"
        /\ UNCHANGED <<next, done, pending, tabVars, stored, failed, spoiled>>
        /\ files' = [files EXCEPT ![Current] = Empty]
    BY <1>2 DEF OpenFile, saveVars, history
  <2>2. files' \in [Ids -> Texts \cup {NoFile}]
    BY <1>t, <2>1, StorageAssumption
  <2>3. Distinct(tabs)' /\ StoredListed'
    BY <2>1, ListKept DEF tabVars
  <2>4. TabType' /\ SaveType' /\ DiskType'
    BY <2>1, <2>2 DEF ListInv, TypeOK, TabType, SaveType, DiskType, tabVars
  <2>5. DoneEntered' /\ WritesModified'
    BY <2>1 DEF ListInv, DoneEntered, WritesModified, tabVars, Current
  <2> QED
    BY <2>3, <2>4, <2>5 DEF ListInv, TypeOK
<1>3. CASE WriteFile \/ WriteFails
  <2>1. /\ pc = "writing" /\ done < Len(tabs) /\ SetIndex /\ pc' = "backup"
        /\ modified' = [modified EXCEPT ![Current] = FALSE]
        /\ files' \in {files, [files EXCEPT ![Current] = text[Current]]}
        /\ spoiled' \subseteq spoiled \cup {Current} /\ failed' \in BOOLEAN
        /\ UNCHANGED <<next, tabs, text, widgets, shown, stored>>
    BY <1>3 DEF WriteFile, WriteFails, diskVars, ListInv, WritesModified, TypeOK, DiskType
  <2>2. /\ SaveType'
        /\ \A j \in 1 .. done' : tabs'[j] \in DOMAIN pending' /\ pending'[tabs'[j]] = j - 1
    BY <2>1, SetIndexFacts
  <2>3. Distinct(tabs)' /\ StoredListed'
    BY <2>1, ListKept
  <2>4. files' \in [Ids -> Texts \cup {NoFile}] /\ modified' \in [Ids -> BOOLEAN]
    BY <1>t, <1>c, <2>1
  <2>5. TabType' /\ DiskType'
    BY <1>c, <2>1, <2>4 DEF ListInv, TypeOK, TabType, DiskType
  <2> QED
    BY <2>1, <2>2, <2>3, <2>5 DEF ListInv, TypeOK, DoneEntered, WritesModified
<1>4. CASE RemoveVanished
  <2>1. PICK id \in Vanished :
            /\ pending' = [other \in DOMAIN pending \ {id} |-> pending[other]]
            /\ files' \in {files, [files EXCEPT ![id] = NoFile]}
    BY <1>4 DEF RemoveVanished
  <2>2. /\ pc = "backup" /\ done = Len(tabs)
        /\ UNCHANGED <<pc, done, next, tabVars, stored, failed, spoiled>>
    BY <1>4 DEF RemoveVanished, history
  <2>3. files' \in [Ids -> Texts \cup {NoFile}]
    BY <1>t, <2>1
  <2>4. Distinct(tabs)' /\ StoredListed'
    BY <2>2, ListKept DEF tabVars
  <2>5. TabType' /\ SaveType' /\ DiskType'
    BY <2>1, <2>2, <2>3 DEF ListInv, TypeOK, TabType, SaveType, DiskType, tabVars
  <2>6. \A j \in 1 .. done : tabs[j] # id
    BY <1>t, <2>1, <2>2 DEF Vanished, Range
  <2>7. DoneEntered' /\ WritesModified'
    BY <2>1, <2>2, <2>6 DEF ListInv, DoneEntered, WritesModified, tabVars
  <2> QED
    BY <2>4, <2>5, <2>7 DEF ListInv, TypeOK
<1>5. CASE SyncSettings \/ SyncFails
  <2>1. /\ Finish
        /\ stored' \in {stored, pending} /\ failed' \in BOOLEAN
    BY <1>5 DEF SyncSettings, SyncFails, ListInv, TypeOK, DiskType
  <2>2. StoredListed'
    <3>1. CASE stored' = stored
      BY <3>1 DEF ListInv, StoredListed, Lists
    <3>2. CASE stored' = pending
      <4>1. done = Len(tabs) /\ Vanished = {} /\ pc = "backup"
        BY <2>1 DEF Finish
      <4>2. \A id \in DOMAIN pending : \E i \in 1 .. Len(tabs) : tabs[i] = id
        BY <1>t, <4>1 DEF Vanished, Range
      <4>3. Lists(tabs, pending)
        BY <4>1, <4>2 DEF Lists, ListInv, DoneEntered
      <4>4. Lists(tabs, stored')
        BY <3>2, <4>3
      <4> QED
        BY <1>t, <4>4 DEF StoredListed, Lists
    <3> QED
      BY <2>1, <3>1, <3>2
  <2>3. DiskType'
    BY <2>1 DEF Finish, ListInv, TypeOK, DiskType, SaveType
  <2>4. TabType' /\ SaveType'
    <3>1. NoTexts \in [Ids -> Texts] /\ DOMAIN <<>> = {}
      BY StorageAssumption DEF NoTexts
    <3>2. TabType'
      BY <2>1, <3>1 DEF Finish, ListInv, TypeOK, TabType
    <3>3. done' = 0 /\ pending' = <<>> /\ UNCHANGED <<next, tabs>>
      BY <2>1 DEF Finish
    <3>4. SaveType'
      BY <1>t, <3>1, <3>3 DEF ListInv, TypeOK, SaveType
    <3> QED
      BY <3>2, <3>4
  <2>5. pc' \notin {"backup", "writing"} /\ done' = 0 /\ UNCHANGED tabs
    BY <2>1 DEF Finish
  <2> QED
    BY <2>2, <2>3, <2>4, <2>5 DEF ListInv, TypeOK, Distinct, DoneEntered, WritesModified
<1> QED
  BY <1>1, <1>2, <1>3, <1>4, <1>5 DEF Save, SaveFails

LEMMA ListNext == ListInv /\ [Next]_vars => ListInv'
<1> SUFFICES ASSUME ListInv, [Next]_vars PROVE ListInv'
  OBVIOUS
<1>1. CASE UNCHANGED vars
  BY <1>1
  DEF vars, tabVars, saveVars, diskVars, history, ListInv, TypeOK, TabType, SaveType, DiskType,
      Distinct, StoredListed, Lists, DoneEntered, WritesModified, Current
<1>2. CASE Crash
  <2>1. <<>> \in Seq(Ids) /\ Len(<<>>) = 0 /\ DOMAIN <<>> = {}
    OBVIOUS
  <2>2. NoTexts \in [Ids -> Texts] /\ [id \in Ids |-> FALSE] \in [Ids -> BOOLEAN]
    BY StorageAssumption DEF NoTexts
  <2>3. TabType'
    BY <1>2, <2>1, <2>2 DEF Crash, TabType
  <2>5. SaveType'
    <3>1. done' = 0 /\ pending' = <<>> /\ tabs' = <<>> /\ UNCHANGED next
      BY <1>2 DEF Crash
    <3> QED
      BY <2>1, <3>1 DEF ListInv, TypeOK, SaveType
  <2>6. DiskType'
    BY <1>2 DEF Crash, diskVars, ListInv, TypeOK, DiskType
  <2>4. StoredListed'
    BY <1>2 DEF Crash, diskVars, ListInv, StoredListed, Lists
  <2> QED
    BY <1>2, <2>1, <2>3, <2>4, <2>5, <2>6
    DEF Crash, ListInv, TypeOK, Distinct, DoneEntered, WritesModified
<1> QED
  BY <1>1, <1>2, StartList, UserList, SaveList DEF Next

LEMMA ListCorrect == Spec => []ListInv
  BY ListInit, ListNext, PTL DEF Spec

(* The variables keep their types.                                         *)
THEOREM TypeCorrect == Spec => []TypeOK
<1>1. ListInv => TypeOK
  BY DEF ListInv
<1> QED
  BY <1>1, ListCorrect, PTL

(* The settings on disk are a list without holes, after any crash.           *)
THEOREM SlotsAreFilled == Spec => []SlotsFilled
<1>1. ListInv => SlotsFilled
  <2> SUFFICES ASSUME ListInv PROVE SlotsFilled
    OBVIOUS
  <2>1. PICK s \in Seq(Ids) : Lists(s, stored)
    BY DEF ListInv, StoredListed
  <2>2. Cardinality(DOMAIN stored) = Len(s) /\ Len(s) \in Nat
    BY <2>1, ListsCount
  <2> SUFFICES ASSUME NEW i \in 0 .. Len(s) - 1
               PROVE \E id \in DOMAIN stored :
                        /\ stored[id] = i
                        /\ \A other \in DOMAIN stored : stored[other] = i => other = id
    BY <2>2 DEF SlotsFilled
  <2>3. i + 1 \in 1 .. Len(s) /\ (i + 1) - 1 = i
    BY <2>2
  <2>4. s[i + 1] \in DOMAIN stored /\ stored[s[i + 1]] = i
    BY <2>1, <2>3 DEF Lists
  <2>5. ASSUME NEW other \in DOMAIN stored, stored[other] = i PROVE other = s[i + 1]
    <3>1. PICK j \in 1 .. Len(s) : s[j] = other
      BY <2>1 DEF Lists
    <3>2. stored[s[j]] = j - 1
      BY <2>1 DEF Lists
    <3>3. j = i + 1
      BY <2>2, <2>5, <3>1, <3>2
    <3> QED
      BY <3>1, <3>3
  <2> QED
    BY <2>4, <2>5
<1> QED
  BY <1>1, ListCorrect, PTL
-----------------------------------------------------------------------------
HasTab(id) == \E i \in 1 .. Len(tabs) : tabs[i] = id

(* For one id: its text is on disk unless it is flagged or spoiled.          *)
Safe(id) == ~modified[id] /\ id \notin spoiled => OnDisk(id) = ReadBack[text[id]]

Blank(id) == text[id] = Empty /\ shown[id] = Empty /\ ~modified[id]

TextInv ==
    \A id \in Ids :
        /\ HasTab(id) /\ pc # "off" => Safe(id)
        /\ ~HasTab(id) => Blank(id)

LEMMA TextInit == Init => TextInv
  BY DEF Init, TextInv, NoTexts, HasTab, Blank

LEMMA SafeKept ==
  ASSUME NEW id \in Ids, Safe(id), text'[id] = text[id], modified'[id] = modified[id],
         files'[id] = files[id], id \in spoiled' <=> id \in spoiled
  PROVE  Safe(id)'
  BY DEF Safe, OnDisk

LEMMA StartText == ListInv /\ TextInv /\ Start => TextInv'
<1> SUFFICES ASSUME ListInv, TextInv, Start, NEW id \in Ids
             PROVE /\ HasTab(id)' => Safe(id)'
                   /\ ~HasTab(id)' => Blank(id)'
  BY DEF TextInv
<1>1. /\ files' = files /\ stored' = stored
      /\ ~modified'[id] /\ shown'[id] = Empty
  BY DEF Start, diskVars, NoTexts
<1>2. OnDisk(id)' = OnDisk(id)
  BY <1>1 DEF OnDisk
<1>3. ReadBack[OnDisk(id)] = OnDisk(id)
  BY StorageAssumption DEF OnDisk, ListInv, TypeOK, DiskType
<1>4. CASE DOMAIN stored = {}
  <2>1. PICK new \in Ids : Fresh(new) /\ tabs' = <<new>> /\ text' = NoTexts
    BY <1>4 DEF Start
  <2>2. files[new] = NoFile /\ text'[id] = Empty
    BY <2>1 DEF Fresh, NoTexts
  <2>3. HasTab(id)' => id = new
    BY <2>1 DEF HasTab
  <2>4. id = new => OnDisk(id) = Empty
    BY <2>2 DEF OnDisk
  <2> QED
    BY <1>1, <1>2, <2>2, <2>3, <2>4, StorageAssumption DEF Safe, Blank
<1>5. CASE DOMAIN stored # {}
  <2>1. PICK s \in Seq(Ids) : Lists(s, stored)
    BY DEF ListInv, StoredListed
  <2>2. tabs' = s
    BY <1>5, <2>1, RestoresList DEF Start
  <2>3. text'[id] = IF id \in DOMAIN stored THEN OnDisk(id) ELSE Empty
    BY <1>5 DEF Start
  <2>4. HasTab(id)' <=> id \in DOMAIN stored
    BY <2>1, <2>2 DEF HasTab, Lists
  <2> QED
    BY <1>1, <1>2, <1>3, <2>3, <2>4 DEF Safe, Blank
<1> QED
  BY <1>4, <1>5

LEMMA UserText == ListInv /\ TextInv /\ User => TextInv'
<1> SUFFICES ASSUME ListInv, TextInv, User, NEW id \in Ids
             PROVE /\ HasTab(id)' /\ pc' # "off" => Safe(id)'
                   /\ ~HasTab(id)' => Blank(id)'
  BY DEF TextInv
<1>t. /\ text \in [Ids -> Texts] /\ shown \in [Ids -> Texts]
      /\ modified \in [Ids -> BOOLEAN]
      /\ tabs \in Seq(Ids) /\ Len(tabs) \in Nat /\ spoiled \subseteq Ids
  BY DEF ListInv, TypeOK, TabType, DiskType
<1>i. /\ HasTab(id) /\ pc # "off" => Safe(id)
      /\ ~HasTab(id) => Blank(id)
  BY DEF TextInv
<1>1. CASE CreateQueryTabs
  <2>1. /\ UNCHANGED <<pc, tabs, text, modified, files, spoiled>> /\ shown' = text
    BY <1>1 DEF CreateQueryTabs, diskVars, history
  <2> QED
    BY <1>i, <2>1, SafeKept DEF HasTab, Blank
<1>2. CASE Type
  <2>1. UNCHANGED <<pc, tabs, text, modified, files, spoiled>>
    BY <1>2 DEF Type, diskVars, history
  <2>2. ~HasTab(id) => shown'[id] = shown[id]
    <3>1. PICK i \in DOMAIN tabs, t \in Texts : shown' = [shown EXCEPT ![tabs[i]] = t]
      BY <1>2 DEF Type
    <3>2. HasTab(tabs[i]) /\ tabs[i] \in Ids
      BY <1>t DEF HasTab
    <3> QED
      BY <1>t, <3>1, <3>2
  <2> QED
    BY <1>i, <2>1, <2>2, SafeKept DEF HasTab, Blank
<1>3. CASE AppendNewUserQuery
  <2>1. PICK new \in Ids : Fresh(new) /\ tabs' = Append(tabs, new)
    BY <1>3 DEF AppendNewUserQuery
  <2>2. UNCHANGED <<pc, text, modified, shown, files, spoiled>> /\ pc = "up"
    BY <1>3 DEF AppendNewUserQuery, diskVars, history
  <2>3. HasTab(id)' <=> HasTab(id) \/ id = new
    <3>1. /\ Len(tabs') = Len(tabs) + 1 /\ tabs'[Len(tabs) + 1] = new
          /\ \A j \in 1 .. Len(tabs) : tabs'[j] = tabs[j]
      BY <1>t, <2>1
    <3> QED
      BY <1>t, <3>1 DEF HasTab
  <2>4. ~HasTab(new)
    BY <1>t, <2>1, <2>2 DEF Fresh, Range, HasTab
  <2>5. id = new => Safe(id)
    BY <1>i, <2>1, <2>4, StorageAssumption DEF Fresh, Blank, Safe, OnDisk
  <2> QED
    BY <1>i, <2>2, <2>3, <2>5, SafeKept DEF Blank
<1>4. CASE RemoveUserQueryAt
  <2>1. PICK i \in 2 .. Len(tabs) : tabs' = RemoveAt(tabs, i) /\ Forget(tabs[i])
    BY <1>4 DEF RemoveUserQueryAt
  <2>2. /\ Len(tabs') = Len(tabs) - 1
        /\ \A j \in 1 .. Len(tabs) - 1 : tabs'[j] = IF j < i THEN tabs[j] ELSE tabs[j + 1]
    BY <1>t, <2>1, RemoveAtFacts
  <2>3. pc = "up" /\ UNCHANGED <<pc, files>> /\ tabs[i] \in Ids
    BY <1>4, <1>t DEF RemoveUserQueryAt, diskVars
  <2>4. CASE id = tabs[i]
    <3>1. ~HasTab(id)'
      <4> SUFFICES ASSUME NEW j \in 1 .. Len(tabs'), tabs'[j] = id PROVE FALSE
        BY DEF HasTab
      <4>1. CASE j < i
        BY <1>t, <2>2, <2>4, <4>1 DEF ListInv, Distinct
      <4>2. CASE j >= i
        <5>1. j + 1 \in 1 .. Len(tabs) /\ tabs[j + 1] = tabs[i] /\ j + 1 # i
          BY <1>t, <2>2, <2>4, <4>2
        <5> QED
          BY <5>1 DEF ListInv, Distinct
      <4> QED
        BY <1>t, <2>2, <4>1, <4>2
    <3>2. Blank(id)'
      BY <1>t, <2>1, <2>4 DEF Forget, Blank
    <3> QED
      BY <3>1, <3>2
  <2>5. CASE id # tabs[i]
    <3>1. HasTab(id)' <=> HasTab(id)
      <4>1. ASSUME NEW j \in 1 .. Len(tabs'), tabs'[j] = id PROVE HasTab(id)
        <5>1. CASE j < i
          BY <1>t, <2>2, <4>1, <5>1 DEF HasTab
        <5>2. CASE j >= i
          <6>1. j + 1 \in 1 .. Len(tabs) /\ tabs[j + 1] = id
            BY <1>t, <2>2, <4>1, <5>2
          <6> QED
            BY <6>1 DEF HasTab
        <5> QED
          BY <1>t, <2>2, <5>1, <5>2
      <4>2. ASSUME NEW k \in 1 .. Len(tabs), tabs[k] = id PROVE HasTab(id)'
        <5>1. CASE k < i
          <6>1. k \in 1 .. Len(tabs') /\ tabs'[k] = id
            BY <1>t, <2>2, <4>2, <5>1
          <6> QED
            BY <6>1 DEF HasTab
        <5>2. CASE k > i
          <6>1. k - 1 \in 1 .. Len(tabs') /\ tabs'[k - 1] = id
            BY <1>t, <2>2, <4>2, <5>2
          <6> QED
            BY <6>1 DEF HasTab
        <5> QED
          BY <1>t, <2>5, <4>2, <5>1, <5>2
      <4> QED
        BY <4>1, <4>2 DEF HasTab
    <3>2. /\ text'[id] = text[id] /\ modified'[id] = modified[id] /\ shown'[id] = shown[id]
          /\ id \in spoiled' <=> id \in spoiled
      BY <1>t, <2>1, <2>5 DEF Forget
    <3> QED
      BY <1>i, <2>3, <3>1, <3>2, SafeKept DEF Blank
  <2> QED
    BY <2>4, <2>5
<1>5. ASSUME NEW why \in {"remove", "exit"}, BackupQueryTabs(why)
      PROVE /\ HasTab(id)' /\ pc' # "off" => Safe(id)'
            /\ ~HasTab(id)' => Blank(id)'
  <2>1. /\ pc = "up" /\ text' = shown
        /\ modified'[id] = (modified[id] \/ text[id] # shown[id])
        /\ UNCHANGED <<tabs, shown, files, spoiled>>
    BY <1>5 DEF BackupQueryTabs, diskVars, QueryTextEdited
  <2>2. HasTab(id)' <=> HasTab(id)
    BY <2>1 DEF HasTab
  <2> QED
    BY <1>i, <2>1, <2>2 DEF Safe, OnDisk, Blank
<1>6. CASE Exit
  BY <1>6, <1>i DEF Exit, tabVars, HasTab, Blank
<1> QED
  BY <1>1, <1>2, <1>3, <1>4, <1>5, <1>6 DEF User

LEMMA SaveText == ListInv /\ TextInv /\ (Save \/ SaveFails) => TextInv'
<1> SUFFICES ASSUME ListInv, TextInv, Save \/ SaveFails, NEW id \in Ids
             PROVE /\ HasTab(id)' => Safe(id)'
                   /\ ~HasTab(id)' => Blank(id)'
  BY DEF TextInv
<1>t. /\ text \in [Ids -> Texts] /\ modified \in [Ids -> BOOLEAN]
      /\ files \in [Ids -> Texts \cup {NoFile}] /\ spoiled \subseteq Ids
      /\ tabs \in Seq(Ids) /\ Len(tabs) \in Nat /\ done \in Nat
  BY DEF ListInv, TypeOK, TabType, SaveType, DiskType
<1>p. pc # "off" /\ UNCHANGED <<tabs, text>>
  BY DEF Save, SaveFails, SkipUnmodified, OpenFails, OpenFile, WriteFile, WriteFails,
         RemoveVanished, SyncSettings, SyncFails, Finish, tabVars
<1>i. /\ HasTab(id) => Safe(id)
      /\ ~HasTab(id) => Blank(id)
  BY <1>p DEF TextInv
<1>h. HasTab(id)' <=> HasTab(id)
  BY <1>p DEF HasTab
<1>1. CASE SkipUnmodified \/ OpenFails
  <2>1. UNCHANGED <<text, modified, shown, files, spoiled>>
    BY <1>1 DEF SkipUnmodified, OpenFails, tabVars, diskVars, history
  <2> QED
    BY <1>i, <1>h, <2>1, SafeKept DEF Blank
<1>2. ASSUME OpenFile \/ WriteFile \/ WriteFails
      PROVE  /\ HasTab(id)' => Safe(id)'
             /\ ~HasTab(id)' => Blank(id)'
  <2>1. done < Len(tabs) /\ UNCHANGED shown
    BY <1>2 DEF OpenFile, WriteFile, WriteFails, tabVars, ListInv, WritesModified
  <2>2. done + 1 \in 1 .. Len(tabs) /\ Current = tabs[done + 1] /\ Current \in Ids
    BY <1>t, <2>1 DEF Current
  <2>3. CASE id # Current
    <3>1. /\ files'[id] = files[id] /\ modified'[id] = modified[id]
          /\ id \in spoiled' <=> id \in spoiled
      BY <1>t, <1>2, <2>3 DEF OpenFile, WriteFile, WriteFails, tabVars, diskVars, history
    <3> QED
      BY <1>i, <1>h, <1>p, <2>1, <3>1, SafeKept DEF Blank
  <2>4. CASE id = Current
    <3>1. HasTab(id)
      BY <2>2, <2>4 DEF HasTab
    <3>2. CASE OpenFile
      BY <1>h, <2>4, <3>1, <3>2 DEF OpenFile, tabVars, Safe
    <3>3. CASE WriteFile
      <4>1. files'[id] = text[id] /\ text[id] # NoFile
        BY <1>t, <2>4, <3>3, StorageAssumption DEF WriteFile
      <4> QED
        BY <1>h, <1>p, <3>1, <4>1 DEF Safe, OnDisk
    <3>4. CASE WriteFails
      BY <1>h, <2>4, <3>1, <3>4 DEF WriteFails, Safe
    <3> QED
      BY <1>2, <3>2, <3>3, <3>4
  <2> QED
    BY <2>3, <2>4
<1>3. CASE RemoveVanished
  <2>1. PICK gone \in Vanished : files' \in {files, [files EXCEPT ![gone] = NoFile]}
    BY <1>3 DEF RemoveVanished
  <2>2. ~HasTab(gone)
    BY <1>t, <2>1 DEF Vanished, Range, HasTab
  <2>3. HasTab(id) => files'[id] = files[id]
    BY <1>t, <2>1, <2>2
  <2>4. UNCHANGED <<modified, shown, spoiled>>
    BY <1>3 DEF RemoveVanished, tabVars, history
  <2> QED
    BY <1>i, <1>h, <1>p, <2>3, <2>4, SafeKept DEF Blank
<1>4. CASE SyncSettings \/ SyncFails
  <2>1. UNCHANGED <<modified, files, spoiled>> /\ shown'[id] = Empty
    BY <1>4 DEF SyncSettings, SyncFails, Finish, NoTexts
  <2> QED
    BY <1>i, <1>h, <1>p, <2>1, SafeKept DEF Blank
<1> QED
  BY <1>1, <1>2, <1>3, <1>4 DEF Save, SaveFails

LEMMA TextNext == ListInv /\ TextInv /\ [Next]_vars => TextInv'
<1> SUFFICES ASSUME ListInv, TextInv, [Next]_vars PROVE TextInv'
  OBVIOUS
<1>1. CASE UNCHANGED vars
  BY <1>1 DEF vars, tabVars, diskVars, history, TextInv, HasTab, Safe, OnDisk, Blank
<1>2. CASE Crash
  BY <1>2 DEF Crash, TextInv, HasTab, Blank, NoTexts
<1> QED
  BY <1>1, <1>2, StartText, UserText, SaveText DEF Next

LEMMA TextCorrect == Spec => [](ListInv /\ TextInv)
  BY ListInit, ListNext, TextInit, TextNext, PTL DEF Spec

(* What is not flagged as modified has been written.                        *)
THEOREM UnmodifiedTabsAreOnDisk == Spec => []UnmodifiedIsOnDisk
<1>1. ListInv /\ TextInv => UnmodifiedIsOnDisk
  <2> SUFFICES ASSUME ListInv, TextInv, NEW i \in DOMAIN tabs, pc # "off"
               PROVE Safe(tabs[i])
    BY DEF UnmodifiedIsOnDisk, Safe
  <2>1. tabs[i] \in Ids /\ HasTab(tabs[i])
    BY DEF HasTab, ListInv, TypeOK, TabType
  <2> QED
    BY <2>1 DEF TextInv
<1> QED
  BY <1>1, TextCorrect, PTL
-----------------------------------------------------------------------------
(* The tabs have been saved, or have just been loaded.                       *)
Settled == pc = "ended" \/ (pc = "off" /\ tabs # <<>>) \/ (pc = "up" /\ ~widgets)

(* Then, if nothing has failed, no tab is flagged and the list on disk is     *)
(* theirs, or none at all for a first tab that is empty; a save clears the    *)
(* flags one after the other; and what was on disk stays there.              *)
LeftInv ==
    /\ Settled /\ ~failed =>
           /\ \A i \in 1 .. Len(tabs) : ~modified[tabs[i]]
           /\ \/ Lists(tabs, stored)
              \/ DOMAIN stored = {} /\ Len(tabs) = 1 /\ text[tabs[1]] = Empty
    /\ pc \in {"backup", "writing"} /\ ~failed => \A i \in 1 .. done : ~modified[tabs[i]]
    /\ pc = "off" => \A i \in 1 .. Len(tabs) : Safe(tabs[i])

LEMMA LeftInit == Init => LeftInv
<1>1. Init => Len(tabs) = 0
  BY DEF Init
<1> QED
  BY <1>1 DEF Init, LeftInv, Settled

(* The list that is stored when a save is done is that of the tabs.           *)
LEMMA SavedLists ==
  ASSUME ListInv, pc = "backup", done = Len(tabs), Vanished = {}
  PROVE  Lists(tabs, pending)
<1>1. \A id \in DOMAIN pending : \E i \in 1 .. Len(tabs) : tabs[i] = id
  BY DEF Vanished, Range, ListInv, TypeOK, TabType
<1> QED
  BY <1>1 DEF Lists, ListInv, DoneEntered

LEMMA StartLeft == ListInv /\ Start => LeftInv'
<1> SUFFICES ASSUME ListInv, Start PROVE LeftInv'
  OBVIOUS
<1>1. /\ pc' = "up" /\ modified' = [id \in Ids |-> FALSE] /\ stored' = stored
  BY DEF Start, diskVars
<1>2. CASE DOMAIN stored = {}
  <2>1. PICK id \in Ids : tabs' = <<id>> /\ text' = NoTexts
    BY <1>2 DEF Start
  <2>2. Len(tabs') = 1 /\ tabs'[1] = id /\ text'[id] = Empty
    BY <2>1 DEF NoTexts
  <2>3. \A i \in 1 .. Len(tabs') : tabs'[i] = id
    BY <2>1, <2>2
  <2> QED
    BY <1>1, <1>2, <2>2, <2>3 DEF LeftInv
<1>3. CASE DOMAIN stored # {}
  <2>1. tabs' = Restored
    BY <1>3 DEF Start
  <2>2. PICK s \in Seq(Ids) : Lists(s, stored)
    BY DEF ListInv, StoredListed
  <2>3. tabs' \in Seq(Ids) /\ Lists(tabs', stored)
    BY <2>1, <2>2, RestoresList
  <2>4. \A i \in 1 .. Len(tabs') : ~modified'[tabs'[i]]
    BY <1>1, <2>3
  <2> QED
    BY <1>1, <2>3, <2>4 DEF LeftInv
<1> QED
  BY <1>2, <1>3

LEMMA UserLeft == ListInv /\ TextInv /\ LeftInv /\ User => LeftInv'
<1> SUFFICES ASSUME ListInv, TextInv, LeftInv, User PROVE LeftInv'
  OBVIOUS
<1>1. CASE CreateQueryTabs \/ Type \/ AppendNewUserQuery \/ RemoveUserQueryAt
  <2>1. pc' = "up" /\ widgets' = TRUE
    BY <1>1 DEF CreateQueryTabs, Type, AppendNewUserQuery, RemoveUserQueryAt
  <2> QED
    BY <2>1 DEF LeftInv, Settled
<1>2. CASE \E why \in {"remove", "exit"} : BackupQueryTabs(why)
  BY <1>2 DEF BackupQueryTabs, LeftInv, Settled
<1>3. CASE Exit
  <2>1. /\ Settled /\ pc # "off" /\ pc' = "off"
        /\ UNCHANGED <<tabs, text, modified, stored, files, failed, spoiled>>
    BY <1>3 DEF Exit, Settled, tabVars, diskVars, history
  <2>2. ASSUME NEW i \in 1 .. Len(tabs) PROVE Safe(tabs[i])'
    <3>1. tabs[i] \in Ids /\ HasTab(tabs[i])
      BY DEF HasTab, ListInv, TypeOK, TabType
    <3>2. Safe(tabs[i])
      BY <2>1, <3>1 DEF TextInv
    <3> QED
      BY <2>1, <3>1, <3>2 DEF Safe, OnDisk
  <2>3. ~failed' => /\ \A i \in 1 .. Len(tabs) : ~modified[tabs[i]]
                    /\ \/ Lists(tabs, stored)
                       \/ DOMAIN stored = {} /\ Len(tabs) = 1 /\ text[tabs[1]] = Empty
    BY <2>1 DEF LeftInv
  <2> QED
    BY <2>1, <2>2, <2>3 DEF LeftInv, Lists
<1> QED
  BY <1>1, <1>2, <1>3 DEF User

LEMMA SaveLeft == ListInv /\ LeftInv /\ (Save \/ SaveFails) => LeftInv'
<1> SUFFICES ASSUME ListInv, LeftInv, Save \/ SaveFails PROVE LeftInv'
  OBVIOUS
<1>t. /\ tabs \in Seq(Ids) /\ Len(tabs) \in Nat /\ done \in Nat /\ done <= Len(tabs)
      /\ modified \in [Ids -> BOOLEAN]
  BY DEF ListInv, TypeOK, TabType, SaveType
<1>1. CASE OpenFails \/ WriteFails \/ SyncFails
  <2>1. failed' /\ pc' # "off"
    BY <1>1 DEF OpenFails, WriteFails, SyncFails, Finish
  <2> QED
    BY <2>1 DEF LeftInv
<1>2. CASE SkipUnmodified
  <2>1. /\ pc = "backup" /\ pc' = "backup" /\ done < Len(tabs) /\ ~modified[tabs[done + 1]]
        /\ done' = done + 1 /\ UNCHANGED <<tabs, modified, failed>>
    BY <1>2 DEF SkipUnmodified, SetIndex, Current, tabVars, history
  <2>2. ~failed => \A i \in 1 .. done + 1 : ~modified[tabs[i]]
    BY <1>t, <2>1 DEF LeftInv
  <2> QED
    BY <2>1, <2>2 DEF LeftInv, Settled
<1>3. CASE OpenFile \/ RemoveVanished
  <2>1. /\ pc = "backup" /\ pc' \in {"backup", "writing"}
        /\ UNCHANGED <<tabs, modified, failed, done>>
    BY <1>3 DEF OpenFile, RemoveVanished, tabVars, saveVars, history
  <2> QED
    BY <2>1 DEF LeftInv, Settled
<1>4. CASE WriteFile
  <2>1. /\ pc = "writing" /\ pc' = "backup" /\ done < Len(tabs) /\ done' = done + 1
        /\ modified' = [modified EXCEPT ![tabs[done + 1]] = FALSE]
        /\ UNCHANGED <<tabs, failed>>
    BY <1>4 DEF WriteFile, SetIndex, Current, ListInv, WritesModified
  <2>2. ~failed => \A i \in 1 .. done : ~modified[tabs[i]]
    BY <2>1 DEF LeftInv
  <2>3. \A i \in 1 .. done + 1 : tabs[i] \in Ids
    BY <1>t, <2>1
  <2>4. ~failed => \A i \in 1 .. done + 1 : ~modified'[tabs[i]]
    BY <1>t, <2>1, <2>2, <2>3
  <2> QED
    BY <2>1, <2>4 DEF LeftInv, Settled
<1>5. CASE SyncSettings
  <2>1. /\ pc = "backup" /\ pc' \in {"ended", "up"} /\ done = Len(tabs) /\ Vanished = {}
        /\ stored' = pending /\ UNCHANGED <<tabs, modified, failed>>
    BY <1>5 DEF SyncSettings, Finish
  <2>2. Lists(tabs, pending)
    BY <2>1, SavedLists
  <2>3. ~failed => \A i \in 1 .. Len(tabs) : ~modified[tabs[i]]
    BY <2>1 DEF LeftInv
  <2> QED
    BY <2>1, <2>2, <2>3 DEF LeftInv
<1> QED
  BY <1>1, <1>2, <1>3, <1>4, <1>5 DEF Save, SaveFails

LEMMA LeftNext == ListInv /\ TextInv /\ LeftInv /\ [Next]_vars => LeftInv'
<1> SUFFICES ASSUME ListInv, TextInv, LeftInv, [Next]_vars PROVE LeftInv'
  OBVIOUS
<1>1. CASE Crash
  <2>1. pc' = "off" /\ tabs' = <<>> /\ Len(tabs') = 0
    BY <1>1 DEF Crash
  <2> QED
    BY <2>1 DEF LeftInv, Settled
<1>2. CASE UNCHANGED vars
  BY <1>2 DEF vars, tabVars, saveVars, diskVars, history, LeftInv, Settled, Lists, Safe, OnDisk
<1> QED
  BY <1>1, <1>2, StartLeft, UserLeft, SaveLeft DEF Next

(* Leaving the program through its window and starting it again changes        *)
(* neither the tabs nor their texts, if no write has failed.                 *)
THEOREM ExitIsSafe == Spec => []ExitKeepsTabs
<1>1. LeftInv /\ ListInv => ExitKeepsTabs
  <2> SUFFICES ASSUME LeftInv, ListInv, pc = "off", tabs # <<>>, ~failed,
                      spoiled \cap Range(tabs) = {}
               PROVE  \/ TextsOf(tabs, [id \in Ids |-> ReadBack[text[id]]])
                             = TextsOf(Restored, [id \in Ids |-> OnDisk(id)])
                      \/ /\ DOMAIN stored = {}
                         /\ TextsOf(tabs, [id \in Ids |-> ReadBack[text[id]]]) = <<Empty>>
    BY DEF ExitKeepsTabs
  <2>1. tabs \in Seq(Ids) /\ DOMAIN tabs = 1 .. Len(tabs)
    BY DEF ListInv, TypeOK, TabType
  <2>2. \A i \in 1 .. Len(tabs) : tabs[i] \notin spoiled
    BY <2>1 DEF Range
  <2>3. \A i \in 1 .. Len(tabs) : OnDisk(tabs[i]) = ReadBack[text[tabs[i]]]
    BY <2>2 DEF LeftInv, Settled, Safe
  <2> DEFINE texts == TextsOf(tabs, [id \in Ids |-> ReadBack[text[id]]])
  <2>4. texts = [i \in 1 .. Len(tabs) |-> ReadBack[text[tabs[i]]]]
    BY <2>1 DEF TextsOf
  <2> HIDE DEF texts
  <2>5. CASE Lists(tabs, stored)
    <3>1. Restored = tabs
      BY <2>1, <2>5, RestoresList
    <3>2. TextsOf(tabs, [id \in Ids |-> OnDisk(id)])
              = [i \in 1 .. Len(tabs) |-> OnDisk(tabs[i])]
      BY <2>1 DEF TextsOf
    <3> QED
      BY <2>3, <2>4, <3>1, <3>2 DEF texts
  <2>6. CASE DOMAIN stored = {} /\ Len(tabs) = 1 /\ text[tabs[1]] = Empty
    <3>1. texts = [i \in 1 .. 1 |-> Empty]
      BY <2>4, <2>6, StorageAssumption
    <3>2. [i \in 1 .. 1 |-> Empty] = <<Empty>>
      OBVIOUS
    <3> QED
      BY <2>6, <3>1, <3>2 DEF texts
  <2> QED
    BY <2>5, <2>6 DEF LeftInv, Settled
<1> QED
  BY <1>1, LeftInit, LeftNext, TextCorrect, PTL DEF Spec
-----------------------------------------------------------------------------
(* During a save the widgets show the texts that are saved.                  *)
BackedUp == pc \in {"backup", "writing"} => widgets /\ shown = text

LEMMA BackedUpNext == BackedUp /\ [Next]_vars => BackedUp'
<1> SUFFICES ASSUME BackedUp, [Next]_vars PROVE BackedUp'
  OBVIOUS
<1>1. CASE Start \/ Crash
  BY <1>1 DEF Start, Crash, BackedUp
<1>2. CASE User
  BY <1>2 DEF User, CreateQueryTabs, Type, AppendNewUserQuery, RemoveUserQueryAt, BackupQueryTabs,
              Exit, tabVars, BackedUp
<1>3. CASE Save \/ SaveFails
  BY <1>3 DEF Save, SaveFails, SkipUnmodified, OpenFails, OpenFile, WriteFile, WriteFails,
              RemoveVanished, SyncSettings, SyncFails, Finish, tabVars, BackedUp
<1>4. CASE UNCHANGED vars
  BY <1>4 DEF vars, tabVars, BackedUp
<1> QED
  BY <1>1, <1>2, <1>3, <1>4 DEF Next

(* The mapping of SavedTabs' variables.                                     *)
Desk  == IF pc = "off" THEN <<>> ELSE tabs
Words == IF widgets THEN shown ELSE text
KeptTexts == [id \in Ids |-> OnDisk(id)]

LEMMA RestoredKept == ASSUME stored' = stored PROVE Restored' = Restored
  BY DEF Restored

LEMMA TextsKept == ASSUME files' = files PROVE KeptTexts' = KeptTexts
  BY DEF KeptTexts, OnDisk

(* Nothing is restored but what is stored.                                  *)
LEMMA RestoredEmpty ==
  ASSUME ListInv
  PROVE  /\ Restored = <<>> <=> DOMAIN stored = {}
         /\ Restored \in Seq(Ids)
         /\ \A i \in 1 .. Len(Restored) : Restored[i] \in DOMAIN stored
<1>1. PICK s \in Seq(Ids) : Lists(s, stored)
  BY DEF ListInv, StoredListed
<1>2. Restored = s
  BY <1>1, RestoresList
<1>3. s = <<>> <=> DOMAIN stored = {}
  BY <1>1 DEF Lists
<1> QED
  BY <1>1, <1>2, <1>3 DEF Lists

LEMMA RefinesInit == Init => Kept!Init
<1> SUFFICES ASSUME Init PROVE Kept!Init
  OBVIOUS
<1>1. Restored = <<>>
  BY ListInit, RestoredEmpty DEF Init
<1>2. \A id \in Ids : OnDisk(id) = Empty
  BY DEF Init, OnDisk
<1> QED
  BY <1>1, <1>2 DEF Init, NoTexts, Kept!Init

(* A step that leaves the disk alone while the program runs.                 *)
LEMMA RefinesWork ==
  ASSUME pc # "off", pc' # "off", UNCHANGED <<stored, files>>
  PROVE  Kept!Work
<1>1. Restored' = Restored /\ KeptTexts' = KeptTexts
  BY RestoredKept, TextsKept
<1> QED
  BY <1>1 DEF KeptTexts, Kept!Work

LEMMA RefinesLeave ==
  ASSUME pc # "off", pc' = "off", UNCHANGED <<stored, files>>
  PROVE  Kept!Leave
<1>1. Restored' = Restored /\ KeptTexts' = KeptTexts
  BY RestoredKept, TextsKept
<1> QED
  BY <1>1 DEF KeptTexts, Kept!Leave

(* One file is written, while nothing else that is kept or shown changes.    *)
LEMMA RefinesKeepText ==
  ASSUME ListInv, BackedUp, pc \in {"backup", "writing"}, pc' \in {"backup", "writing"},
         UNCHANGED <<stored, tabs, text, widgets, shown>>,
         NEW id \in Ids, NEW content \in Texts \cup {NoFile},
         files' = [files EXCEPT ![id] = content],
         \/ content \in {NoFile, Empty}
         \/ content = text[id] /\ \E i \in 1 .. Len(tabs) : tabs[i] = id
  PROVE  Kept!KeepText
<1> DEFINE read == IF content = NoFile THEN Empty ELSE ReadBack[content]
<1>1. Restored' = Restored
  BY RestoredKept
<1>2. read \in Texts
  BY StorageAssumption
<1>3. \A other \in Ids : OnDisk(other)' = IF other = id THEN read ELSE OnDisk(other)
  BY DEF OnDisk, ListInv, TypeOK, DiskType
<1>4. KeptTexts' = [KeptTexts EXCEPT ![id] = read]
  BY <1>3 DEF KeptTexts
<1>5. read = Empty \/ (content = text[id] /\ read = ReadBack[text[id]])
  BY StorageAssumption
<1>6. Words = text /\ Words' = Words /\ Desk = tabs /\ Desk' = Desk
  BY DEF BackedUp, Words, Desk
<1>7. read = Empty \/ (Kept!OnDesk(id) /\ read = ReadBack[Words[id]])
  <2>1. CASE content \in {NoFile, Empty}
    BY <2>1, StorageAssumption
  <2>2. CASE content = text[id] /\ \E i \in 1 .. Len(tabs) : tabs[i] = id
    <3>1. Kept!OnDesk(id)
      BY <2>2 DEF Kept!OnDesk
    <3>2. content # NoFile
      BY <2>2, StorageAssumption DEF ListInv, TypeOK, TabType
    <3> QED
      BY <1>6, <2>2, <3>1, <3>2
  <2> QED
    BY <2>1, <2>2
<1> HIDE DEF read
<1> QED
  BY <1>1, <1>2, <1>4, <1>6, <1>7 DEF KeptTexts, Words, Desk, Kept!KeepText

LEMMA RefinesStart == ASSUME ListInv, Start PROVE Kept!Start
<1>1. /\ pc = "off" /\ pc' = "up" /\ widgets' = FALSE /\ UNCHANGED <<stored, files>>
  BY DEF Start, diskVars
<1>2. Restored' = Restored /\ KeptTexts' = KeptTexts
  BY <1>1, RestoredKept, TextsKept
<1>3. CASE DOMAIN stored = {}
  <2>1. PICK id \in Ids : tabs' = <<id>> /\ text' = NoTexts
    BY <1>3 DEF Start
  <2>2. text'[id] = Empty /\ Restored = <<>>
    BY <1>3, <2>1, RestoredEmpty DEF NoTexts
  <2> QED
    BY <1>1, <1>2, <2>1, <2>2 DEF KeptTexts, Kept!Start
<1>4. CASE DOMAIN stored # {}
  <2>1. tabs' = Restored /\ Restored # <<>>
    BY <1>4, RestoredEmpty DEF Start
  <2>2. \A i \in 1 .. Len(Restored) : text'[Restored[i]] = KeptTexts[Restored[i]]
    <3> SUFFICES ASSUME NEW i \in 1 .. Len(Restored)
                 PROVE  text'[Restored[i]] = KeptTexts[Restored[i]]
      OBVIOUS
    <3>1. Restored[i] \in DOMAIN stored /\ Restored[i] \in Ids
      BY RestoredEmpty DEF ListInv, TypeOK, DiskType
    <3> QED
      BY <1>4, <3>1 DEF Start, KeptTexts
  <2> QED
    BY <1>1, <1>2, <2>1, <2>2 DEF KeptTexts, Kept!Start
<1> QED
  BY <1>3, <1>4

LEMMA RefinesUser == ASSUME User PROVE Kept!Next
<1>1. CASE Exit
  <2>1. pc # "off" /\ pc' = "off" /\ UNCHANGED <<stored, files>>
    BY <1>1 DEF Exit, diskVars
  <2> QED
    BY <2>1, RefinesLeave DEF Kept!Next
<1>2. CASE ~Exit
  <2>1. pc = "up" /\ pc' # "off" /\ UNCHANGED <<stored, files>>
    BY <1>2 DEF User, CreateQueryTabs, Type, AppendNewUserQuery, RemoveUserQueryAt, BackupQueryTabs,
                diskVars
  <2> QED
    BY <2>1, RefinesWork DEF Kept!Next
<1> QED
  BY <1>1, <1>2

LEMMA RefinesSave == ASSUME ListInv, BackedUp, Save \/ SaveFails PROVE Kept!Next
<1>t. tabs \in Seq(Ids) /\ Len(tabs) \in Nat /\ done \in Nat /\ text \in [Ids -> Texts]
  BY DEF ListInv, TypeOK, TabType, SaveType
<1>c. done < Len(tabs) => Current \in Ids /\ \E i \in 1 .. Len(tabs) : tabs[i] = Current
  BY <1>t DEF Current
<1>1. CASE SkipUnmodified \/ OpenFails \/ WriteFails \/ SyncFails
  <2>1. pc # "off" /\ pc' # "off" /\ UNCHANGED <<stored, files>>
    BY <1>1 DEF SkipUnmodified, OpenFails, WriteFails, SyncFails, Finish, diskVars
  <2> QED
    BY <2>1, RefinesWork DEF Kept!Next
<1>2. CASE OpenFile
  <2>1. /\ pc = "backup" /\ pc' = "writing" /\ done < Len(tabs)
        /\ UNCHANGED <<stored, tabs, text, widgets, shown>>
        /\ files' = [files EXCEPT ![Current] = Empty]
    BY <1>2 DEF OpenFile, tabVars
  <2>2. Kept!KeepText
    BY <1>c, <2>1, RefinesKeepText, StorageAssumption
  <2> QED
    BY <2>2 DEF Kept!Next
<1>3. CASE WriteFile
  <2>1. /\ pc = "writing" /\ pc' = "backup" /\ done < Len(tabs)
        /\ UNCHANGED <<stored, tabs, text, widgets, shown>>
        /\ files' = [files EXCEPT ![Current] = text[Current]]
    BY <1>3 DEF WriteFile, ListInv, WritesModified
  <2>2. text[Current] \in Texts
    BY <1>c, <1>t, <2>1
  <2>3. Kept!KeepText
    BY <1>c, <2>1, <2>2, RefinesKeepText
  <2> QED
    BY <2>3 DEF Kept!Next
<1>4. CASE RemoveVanished
  <2>1. PICK id \in Vanished : files' \in {files, [files EXCEPT ![id] = NoFile]}
    BY <1>4 DEF RemoveVanished
  <2>2. /\ pc = "backup" /\ pc' = "backup"
        /\ UNCHANGED <<stored, tabs, text, widgets, shown>>
    BY <1>4 DEF RemoveVanished, tabVars
  <2>3. CASE files' = files
    BY <2>2, <2>3, RefinesWork DEF Kept!Next
  <2>4. CASE files' = [files EXCEPT ![id] = NoFile]
    <3>1. id \in Ids
      BY <2>1 DEF Vanished, ListInv, TypeOK, SaveType
    <3>2. Kept!KeepText
      BY <2>2, <2>4, <3>1, RefinesKeepText
    <3> QED
      BY <3>2 DEF Kept!Next
  <2> QED
    BY <2>1, <2>3, <2>4
<1>5. CASE SyncSettings
  <2>1. /\ pc = "backup" /\ pc' # "off" /\ done = Len(tabs) /\ Vanished = {}
        /\ stored' = pending /\ widgets' = FALSE
        /\ UNCHANGED <<tabs, text, files>>
    BY <1>5 DEF SyncSettings, Finish
  <2>3. Lists(tabs, pending)
    BY <2>1, SavedLists
  <2>4. Cardinality(DOMAIN pending) = Len(tabs)
    BY <1>t, <2>3, ListsCount
  <2>5. Restored' = tabs
    <3>1. ASSUME NEW i \in 1 .. Len(tabs)
          PROVE  (CHOOSE id \in DOMAIN pending : pending[id] = i - 1) = tabs[i]
      <4>1. tabs[i] \in DOMAIN pending /\ pending[tabs[i]] = i - 1
        BY <2>3 DEF Lists
      <4>2. ASSUME NEW id \in DOMAIN pending, pending[id] = i - 1 PROVE id = tabs[i]
        <5>1. PICK j \in 1 .. Len(tabs) : tabs[j] = id
          BY <2>3 DEF Lists
        <5>2. pending[tabs[j]] = j - 1
          BY <2>3 DEF Lists
        <5>3. i = j
          BY <4>2, <5>1, <5>2
        <5> QED
          BY <5>1, <5>3
      <4> QED
        BY <4>1, <4>2
    <3>2. Restored' = [i \in 1 .. Len(tabs) |-> tabs[i]]
      BY <2>1, <2>4, <3>1 DEF Restored
    <3> QED
      BY <1>t, <3>2
  <2>6. KeptTexts' = KeptTexts
    BY <2>1, TextsKept
  <2>7. Words' = Words /\ Desk' = Desk /\ Desk = tabs
    BY <2>1 DEF BackedUp, Words, Desk
  <2>8. Kept!KeepList
    BY <2>1, <2>5, <2>6, <2>7 DEF KeptTexts, Words, Desk, Kept!KeepList
  <2> QED
    BY <2>8 DEF Kept!Next
<1> QED
  BY <1>1, <1>2, <1>3, <1>4, <1>5 DEF Save, SaveFails

(* Every step of the storage is one of SavedTabs, or none: whatever fails and  *)
(* wherever the process is killed, for any number of tabs and any texts.      *)
THEOREM StorageImplementsSavedTabs == Spec => ImplementsSavedTabs
<1>1. Init => BackedUp
  BY DEF Init, BackedUp
<1>2. ListInv /\ BackedUp /\ [Next]_vars => [Kept!Next]_(Kept!vars)
  <2> SUFFICES ASSUME ListInv, BackedUp, [Next]_vars PROVE [Kept!Next]_(Kept!vars)
    OBVIOUS
  <2>1. CASE Start
    BY <2>1, RefinesStart DEF Kept!Next
  <2>2. CASE Crash
    <3>1. pc # "off" /\ pc' = "off" /\ UNCHANGED <<stored, files>>
      BY <2>2 DEF Crash, diskVars
    <3> QED
      BY <3>1, RefinesLeave DEF Kept!Next
  <2>3. CASE UNCHANGED vars
    <3>1. UNCHANGED <<pc, tabs, text, widgets, shown, stored, files>>
      BY <2>3 DEF vars, tabVars, diskVars
    <3>2. Restored' = Restored /\ KeptTexts' = KeptTexts
      BY <3>1, RestoredKept, TextsKept
    <3> QED
      BY <3>1, <3>2 DEF KeptTexts, Kept!vars
  <2> QED
    BY <2>1, <2>2, <2>3, RefinesUser, RefinesSave DEF Next
<1> QED
  BY <1>1, <1>2, RefinesInit, ListCorrect, BackedUpNext, PTL
     DEF Spec, ImplementsSavedTabs, Kept!Spec
=============================================================================
