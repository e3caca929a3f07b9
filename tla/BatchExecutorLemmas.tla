------------------------ MODULE BatchExecutorLemmas ------------------------
(***************************************************************************)
(* What each operator of BatchExecutor returns for an executor: the proofs  *)
(* about one executor and about the whole of query execution cite these     *)
(* facts instead of expanding the operators.                                *)
(***************************************************************************)
EXTENDS BatchExecutor, TLAPS

(* Which fields a step leaves alone.                                       *)
KeepsTotal(e, f)    == f.total = e.total
KeepsPosition(e, f) == f.results = e.results /\ f.index = e.index
KeepsCounts(e, f)   == /\ f.successCount = e.successCount
                       /\ f.failedCount = e.failedCount
KeepsFlags(e, f)    == /\ f.failed = e.failed
                       /\ f.aborted = e.aborted
                       /\ f.doBreak = e.doBreak

(* Pushing a query appends one pending result and moves nothing else.       *)
LEMMA PushType ==
  ASSUME NEW e \in Executors
  PROVE  LET f == Push(e) IN
         /\ f \in Executors
         /\ f.pc = "pushed"
         /\ f.results = Append(e.results, "pending")
         /\ Len(f.results) = Len(e.results) + 1
         /\ f.index = e.index
         /\ KeepsTotal(e, f) /\ KeepsCounts(e, f) /\ KeepsFlags(e, f)
  <1> DEFINE r == Append(e.results, "pending")
  <1>1. r \in Seq(Results) /\ Len(r) = Len(e.results) + 1
    BY DEF Executors, Results
  <1>2. Push(e) = [e EXCEPT !.pc = "pushed", !.results = r]
    BY DEF Push
  <1> HIDE DEF r
  <1>3. LET f == Push(e) IN
        /\ f \in Executors /\ f.pc = "pushed" /\ f.results = r /\ f.index = e.index
        /\ KeepsTotal(e, f) /\ KeepsCounts(e, f) /\ KeepsFlags(e, f)
    BY <1>1, <1>2 DEF Executors, ExecutorPC, KeepsTotal, KeepsCounts, KeepsFlags
  <1> QED
    BY <1>1, <1>3 DEF r

(* Setting an outcome replaces the last result.                             *)
LEMMA OutcomeType ==
  ASSUME NEW e \in Executors, NEW outcome \in Outcomes, Len(e.results) > 0
  PROVE  \E r \in Seq(Results) :
           /\ SetOutcome(e, outcome) = [e EXCEPT !.pc = "emit", !.results = r]
           /\ Len(r) = Len(e.results)
           /\ r[Len(e.results)] = outcome
  <1> DEFINE r == [e.results EXCEPT ![Len(e.results)] = outcome]
  <1>1. /\ r \in Seq(Results)
        /\ Len(r) = Len(e.results)
        /\ r[Len(e.results)] = outcome
    BY DEF Executors, Results, Outcomes
  <1>2. SetOutcome(e, outcome) = [e EXCEPT !.pc = "emit", !.results = r]
    BY DEF SetOutcome, Executors
  <1> QED
    BY <1>1, <1>2

(* Query::execute answers the last statement, counts it once, and leaves    *)
(* failed() alone unless it throws where the batch must end.                *)
LEMMA ExecutedType ==
  ASSUME NEW e \in Executors, NEW outcome \in Outcomes, Len(e.results) > 0
  PROVE  LET f == Executed(e, outcome) IN
         /\ f \in Executors
         /\ f.pc = "emit"
         /\ Len(f.results) = Len(e.results)
         /\ f.results[Len(e.results)] = outcome
         /\ f.total = e.total /\ f.index = e.index /\ f.aborted = e.aborted
         /\ f.successCount + f.failedCount = e.successCount + e.failedCount + 1
         /\ outcome # "error" => f.failed = e.failed /\ f.doBreak = e.doBreak
         /\ outcome = "error" =>
              /\ f.failed = (e.failed \/ StopOnError \/ IsLast(e))
              /\ f.doBreak = (e.doBreak \/ StopOnError \/ IsLast(e))
  <1>1. PICK r \in Seq(Results) :
           /\ SetOutcome(e, outcome) = [e EXCEPT !.pc = "emit", !.results = r]
           /\ Len(r) = Len(e.results)
           /\ r[Len(e.results)] = outcome
    BY OutcomeType
  <1>2. CASE outcome # "error"
    <2> DEFINE k == e.successCount + 1
    <2>1. Executed(e, outcome) = [e EXCEPT !.pc = "emit", !.results = r,
                                           !.successCount = k]
      BY <1>1, <1>2 DEF Executed, Succeed, Executors
    <2>2. k \in Int /\ k + e.failedCount = e.successCount + e.failedCount + 1
      BY DEF Executors
    <2> HIDE DEF k
    <2> QED
      BY <2>1, <2>2, <1>1, <1>2 DEF Executors, ExecutorPC
  <1>3. CASE outcome = "error"
    <2> DEFINE stop == StopOnError \/ IsLast(e)
               k == e.failedCount + 1
               failed == e.failed \/ stop
               doBreak == e.doBreak \/ stop
    <2>1. Executed(e, outcome) = [e EXCEPT !.pc = "emit", !.results = r,
                                           !.failedCount = k,
                                           !.failed = failed,
                                           !.doBreak = doBreak]
      BY <1>1, <1>3 DEF Executed, Fail, Executors
    <2>2. failed \in BOOLEAN /\ doBreak \in BOOLEAN
      BY DEF Executors
    <2>3. k \in Nat /\ e.successCount + k = e.successCount + e.failedCount + 1
      BY DEF Executors
    <2> HIDE DEF k, failed, doBreak
    <2>4. /\ Executed(e, outcome) \in Executors
          /\ Executed(e, outcome).pc = "emit"
          /\ Executed(e, outcome).results = r
          /\ Executed(e, outcome).total = e.total
          /\ Executed(e, outcome).index = e.index
          /\ Executed(e, outcome).aborted = e.aborted
          /\ Executed(e, outcome).successCount = e.successCount
          /\ Executed(e, outcome).failedCount = k
          /\ Executed(e, outcome).failed = failed
          /\ Executed(e, outcome).doBreak = doBreak
      BY <2>1, <2>2, <2>3, <1>1 DEF Executors, ExecutorPC
    <2> QED
      BY <2>3, <2>4, <1>1, <1>3 DEF failed, doBreak
  <1> QED
    BY <1>2, <1>3

(* run() forgets everything an earlier run or abort() left.                 *)
LEMMA ResetType ==
  ASSUME NEW e \in Executors, NEW n \in Nat
  PROVE  LET f == Reset(e, n) IN
         /\ f \in Executors
         /\ f.pc = "next" /\ f.total = n /\ f.results = <<>> /\ f.index = 0
         /\ f.failedCount = 0 /\ f.successCount = 0
         /\ ~f.failed /\ ~f.aborted /\ ~f.doBreak
  <1>1. <<>> \in Seq(Results)
    OBVIOUS
  <1> QED
    BY <1>1 DEF Reset, Executors, ExecutorPC

(* Send, Report and Return move pc only.                                   *)
LEMMA MoveType ==
  ASSUME NEW e \in Executors, NEW p \in ExecutorPC
  PROVE  LET f == [e EXCEPT !.pc = p] IN
         /\ f \in Executors
         /\ f.pc = p
         /\ KeepsTotal(e, f) /\ KeepsPosition(e, f)
         /\ KeepsCounts(e, f) /\ KeepsFlags(e, f)
  BY DEF Executors, KeepsTotal, KeepsPosition, KeepsCounts, KeepsFlags

(* abort() raises the flag only.                                           *)
LEMMA AbortType ==
  ASSUME NEW e \in Executors
  PROVE  LET f == Abort(e) IN
         /\ f \in Executors
         /\ f.aborted
         /\ f.pc = e.pc /\ KeepsTotal(e, f) /\ KeepsPosition(e, f)
         /\ KeepsCounts(e, f) /\ f.failed = e.failed /\ f.doBreak = e.doBreak
  BY DEF Abort, Executors, KeepsTotal, KeepsPosition, KeepsCounts

(* The end of the loop body leaves the loop on an abort or a break and      *)
(* otherwise moves the index on, but never past the last statement.         *)
LEMMA CheckType ==
  ASSUME NEW e \in Executors, e.total > 0, e.index < e.total
  PROVE  LET f == Check(e) IN
         /\ f \in Executors
         /\ KeepsTotal(e, f) /\ KeepsCounts(e, f)
         /\ f.results = e.results
         /\ f.failed = e.failed /\ f.aborted = e.aborted
         /\ e.aborted \/ e.doBreak => f.pc = "done" /\ f.doBreak
         /\ ~e.aborted /\ ~e.doBreak =>
              /\ f.pc = "next" /\ ~f.doBreak
              /\ f.index = IF e.index = e.total - 1 THEN e.index ELSE e.index + 1
  <1> USE DEF KeepsTotal, KeepsCounts
  <1>1. CASE e.aborted \/ e.doBreak
    BY <1>1 DEF Check, Executors, ExecutorPC
  <1>2. CASE ~e.aborted /\ ~e.doBreak
    <2> DEFINE i == IF e.index = e.total - 1 THEN e.index ELSE e.index + 1
    <2>1. i \in Nat
      BY DEF Executors
    <2>2. Check(e) = [e EXCEPT !.pc = "next", !.index = i]
      BY <1>2 DEF Check, IsLast, Executors
    <2> HIDE DEF i
    <2>3. /\ Check(e) \in Executors
          /\ Check(e).pc = "next" /\ Check(e).index = i
          /\ KeepsTotal(e, Check(e)) /\ KeepsCounts(e, Check(e))
          /\ KeepsFlags(e, Check(e)) /\ Check(e).results = e.results
      BY <2>1, <2>2 DEF Executors, ExecutorPC, KeepsFlags
    <2> QED
      BY <1>2, <2>3 DEF i, KeepsFlags
  <1> QED
    BY <1>1, <1>2

(* The types of the fields, for the proofs that do not open the record.     *)
LEMMA FieldTypes ==
  ASSUME NEW e \in Executors
  PROVE  /\ e.pc \in ExecutorPC
         /\ e.index \in Nat /\ e.total \in Nat
         /\ e.results \in Seq(Results) /\ Len(e.results) \in Nat
         /\ e.aborted \in BOOLEAN
  BY DEF Executors
=============================================================================
