-------------------------- MODULE ResultFeedProofs --------------------------
(***************************************************************************)
(* QueryExecution implements ResultFeed: for every number of tabs, batches   *)
(* and connections, every batch size and any number of dropped sessions, a   *)
(* step of the threads and queues is one of the promise a tab makes or is    *)
(* invisible in it.                                                        *)
(***************************************************************************)
EXTENDS QueryExecutionProofs

(* The signal that carries statement i of batch b is on its way.            *)
Queued(b, i) ==
    \E k \in 1 .. Len(events) : /\ events[k].kind = "queryFinished"
                                /\ events[k].batch = b
                                /\ events[k].index = i

(* The executor of a task has no results before its run and those of the     *)
(* task's statements then.                                                  *)
Sized(b, e) ==
    /\ e.pc = "idle" => e.results = <<>>
    /\ e.pc # "idle" => e.total = Size[b]
    /\ Len(e.results) <= Size[b]

SizeInv == \A b \in Batches : Sized(b, ex[b])

(* The signals of one batch that will reach a tab are queued in the order of *)
(* its statements, each once.                                              *)
OrderInv ==
    \A j, k \in 1 .. Len(events) :
        /\ j < k
        /\ events[j].batch = events[k].batch
        /\ events[j].kind = "queryFinished" /\ events[k].kind = "queryFinished"
        /\ listener[events[j].batch] # None
        => events[j].index < events[k].index

(* A result of the tab's task is shown or on its way, not both, and nothing   *)
(* else is shown.                                                          *)
ShownInv ==
    \A t \in Tabs : queriesTask[t] # None =>
        /\ Feed!Shown(t) \subseteq ProducedBy(queriesTask[t])
        /\ \A i \in ProducedBy(queriesTask[t]) :
              i \in Feed!Shown(t) <=> ~Queued(queriesTask[t], i)

FeedInv == SizeInv /\ OrderInv /\ ShownInv
-----------------------------------------------------------------------------
(* What a step of run() leaves of the results.                              *)

(* As many statements have been reported, with the results they had.         *)
SameReports(e, f) ==
    /\ Reported(f) = Reported(e)
    /\ \A i \in Nat : i < Reported(e) => f.results[i + 1] = e.results[i + 1]

(* An answer replaces the result of the last statement only.                *)
LEMMA ExecutedKeeps ==
  ASSUME NEW e \in Executors, NEW outcome \in Outcomes, Len(e.results) > 0
  PROVE  \A k \in 1 .. Len(e.results) - 1 :
            Executed(e, outcome).results[k] = e.results[k]
  <1> DEFINE r == [e.results EXCEPT ![Len(e.results)] = outcome]
  <1>1. \A k \in 1 .. Len(e.results) - 1 : r[k] = e.results[k]
    BY DEF Executors
  <1>2. SetOutcome(e, outcome) = [e EXCEPT !.pc = "emit", !.results = r]
    BY DEF SetOutcome, Executors
  <1>3. SetOutcome(e, "error") = [e EXCEPT !.pc = "emit",
                                  !.results = [e.results EXCEPT ![Len(e.results)] = "error"]]
    BY DEF SetOutcome, Executors
  <1>4. CASE outcome # "error"
    <2>1. Executed(e, outcome) = [SetOutcome(e, outcome) EXCEPT !.successCount = @ + 1]
      BY <1>4 DEF Executed, Succeed
    <2> HIDE DEF r
    <2>2. Executed(e, outcome).results = r
      BY <1>2, <2>1 DEF Executors
    <2> QED
      BY <1>1, <2>2
  <1>5. CASE outcome = "error"
    <2> HIDE DEF r
    <2>1. Executed(e, outcome).results = r
      BY <1>2, <1>5 DEF Executed, Fail, Executors
    <2> QED
      BY <1>1, <2>1
  <1> QED
    BY <1>4, <1>5

(* Looking at the flag keeps all results, and may push another statement.    *)
LEMMA CheckKeeps ==
  ASSUME NEW e \in Executors,
         Len(e.results) > 0, Len(e.results) <= e.total,
         e.index = Len(e.results) - 1
  PROVE  \A k \in 1 .. Len(e.results) : Advance(Check(e)).results[k] = e.results[k]
  <1> DEFINE d == Check(e)
  <1>1. e.total > 0 /\ e.index < e.total
    BY FieldTypes
  <1>2. d \in Executors /\ d.results = e.results
    BY <1>1, CheckType
  <1> HIDE DEF d
  <1>3. Push(d).results = Append(e.results, "pending")
    BY <1>2, PushType
  <1>4. Return(d).results = e.results
    BY <1>2, MoveType DEF Return, ExecutorPC, KeepsPosition
  <1>5. \/ Advance(d).results = e.results
        \/ Advance(d).results = Append(e.results, "pending")
    BY <1>2, <1>3, <1>4 DEF Advance
  <1>6. e.results \in Seq(Results)
    BY FieldTypes
  <1> QED
    BY <1>5, <1>6 DEF d

(* A run begins with nothing reported.                                      *)
LEMMA StartKeeps ==
  ASSUME NEW e \in Executors, e.pc = "idle", e.results = <<>>,
         NEW n \in Nat \ {0}
  PROVE  SameReports(e, Advance(Reset(e, n)))
  <1> DEFINE f == Advance(Reset(e, n))
  <1>1. f.pc = "pushed" /\ Len(f.results) = 1
    BY StartStep
  <1> HIDE DEF f
  <1>2. Reported(f) = 0 /\ Reported(e) = 0
    BY <1>1 DEF Reported
  <1> QED
    BY <1>2 DEF SameReports, f

(* What has been reported of a batch is what its tab may show of it.         *)
LEMMA SameProduced ==
  ASSUME NEW b \in Batches, SameReports(ex[b], ex'[b])
  PROVE  ProducedBy(b)' = ProducedBy(b)
  <1>1. \A i \in StatementIndexes : i \in Nat
    BY ExecutionAssumption DEF StatementIndexes
  <1> QED
    BY <1>1 DEF SameReports, ProducedBy, StatementIndexes

(* One executor moves: its task still holds what it should.                 *)
LEMMA SizeStep ==
  ASSUME TypeOK, SizeInv, NEW b \in Batches, NEW f,
         ex' = [ex EXCEPT ![b] = f], Sized(b, f)
  PROVE  SizeInv'
  BY DEF TypeOK, SizeInv, Sized

(* Every step keeps the sizes, and all but a report keep what is reported.   *)
LEMMA ExecutorsNext ==
  ASSUME TypeInv, SizeInv, [Next]_vars
  PROVE  /\ SizeInv'
         /\ \A b \in Batches : ReportQuery(b) \/ SameReports(ex[b], ex'[b])
  <1> USE DEF managerVars, tabVars, lifeVars, taskVars, threadVars, mainVars,
              handleVars, serverVars
  <1> DEFINE Goal == /\ SizeInv'
                     /\ \A b \in Batches : ReportQuery(b) \/ SameReports(ex[b], ex'[b])
  <1>0. \A b \in Batches : /\ ex[b] \in Executors /\ Placed(state[b], ex[b])
                           /\ Sized(b, ex[b]) /\ SameReports(ex[b], ex[b])
                           /\ Size[b] \in Nat \ {0}
    BY ExecutionAssumption
    DEF TypeInv, TypeOK, ExecutorInv, SizeInv, SameReports
  <1>1. ASSUME UNCHANGED ex PROVE Goal
    BY <1>0, <1>1 DEF SizeInv, Sized
  <1>2. ASSUME NEW b \in Batches, NEW f, ex' = [ex EXCEPT ![b] = f],
               Sized(b, f), ReportQuery(b) \/ SameReports(ex[b], f)
        PROVE  Goal
    <2>1. SizeInv'
      BY <1>2, SizeStep DEF TypeInv
    <2>2. \A d \in Batches : ex'[d] = IF d = b THEN f ELSE ex[d]
      BY <1>2 DEF TypeInv, TypeOK
    <2> QED
      BY <1>0, <1>2, <2>1, <2>2
  <1>3. ASSUME NEW b \in Batches, NEW f, ex' = [ex EXCEPT ![b] = f],
               f.results = ex[b].results, f.total = ex[b].total,
               (f.pc = "idle") = (ex[b].pc = "idle"),
               Reported(f) = Reported(ex[b]) \/ ReportQuery(b)
        PROVE  Goal
    BY <1>0, <1>2, <1>3 DEF Sized, SameReports
  <1>4. ASSUME NEW t \in Tabs, Cancel(t) PROVE Goal
    <2> DEFINE q == queriesTask[t]
               f == Abort(ex[q])
    <2>1. ex' = [ex EXCEPT ![q] = f]
      BY <1>4 DEF Cancel
    <2>2. q \in Batches => /\ f.pc = ex[q].pc /\ f.total = ex[q].total
                           /\ f.results = ex[q].results
      BY <1>0, AbortType DEF KeepsTotal, KeepsPosition
    <2> HIDE DEF q, f
    <2>3. CASE q \in Batches
      BY <1>3, <2>1, <2>2, <2>3 DEF Reported
    <2>4. CASE q \notin Batches
      BY <1>1, <2>1, <2>4 DEF TypeInv, TypeOK
    <2> QED
      BY <2>3, <2>4
  <1>5. ASSUME NEW b \in Batches, TakeTask(b) PROVE Goal
    <2> DEFINE f == Advance(Reset(ex[b], Size[b]))
    <2>1. ex' = [ex EXCEPT ![b] = f] /\ ex[b].pc = "idle" /\ ex[b].results = <<>>
      BY <1>0, <1>5 DEF TakeTask, Placed, Sized
    <2>2. /\ f.pc = "pushed" /\ Len(f.results) = 1 /\ f.total = Size[b]
          /\ SameReports(ex[b], f)
      BY <1>0, <2>1, StartStep, StartKeeps
    <2> HIDE DEF f
    <2>3. Sized(b, f)
      BY <1>0, <2>2 DEF Sized
    <2> QED
      BY <1>2, <2>1, <2>2, <2>3
  <1>6. ASSUME NEW b \in Batches, SendQuery(b) PROVE Goal
    <2>1. /\ ex' = [ex EXCEPT ![b] = Send(ex[b])] /\ ex[b].pc = "pushed"
          /\ Send(ex[b]).pc = "executing"
          /\ Send(ex[b]).total = ex[b].total /\ Send(ex[b]).results = ex[b].results
      BY <1>0, <1>6, MoveStep DEF SendQuery
    <2> QED
      BY <1>3, <2>1 DEF Reported
  <1>7. ASSUME NEW b \in Batches, ReportQuery(b) PROVE Goal
    <2>1. /\ ex' = [ex EXCEPT ![b] = Report(ex[b])] /\ ex[b].pc = "emit"
          /\ Report(ex[b]).pc = "check"
          /\ Report(ex[b]).total = ex[b].total
          /\ Report(ex[b]).results = ex[b].results
      BY <1>0, <1>7, MoveStep DEF ReportQuery
    <2> QED
      BY <1>3, <1>7, <2>1
  <1>8. ASSUME NEW b \in Batches, ExecuteQuery(b) PROVE Goal
    <2>1. PICK outcome \in Outcomes :
            ex' = [ex EXCEPT ![b] = Executed(ex[b], outcome)]
      BY <1>8 DEF ExecuteQuery, Outcomes
    <2>2. ex[b].pc = "executing" /\ Len(ex[b].results) > 0
          /\ Len(ex[b].results) \in Nat
      BY <1>0, <1>8, FieldTypes DEF ExecuteQuery, Executing, Placed, AtStatement
    <2> DEFINE f == Executed(ex[b], outcome)
    <2>3. /\ f.pc = "emit" /\ Len(f.results) = Len(ex[b].results)
          /\ f.total = ex[b].total
          /\ \A k \in 1 .. Len(ex[b].results) - 1 : f.results[k] = ex[b].results[k]
      BY <1>0, <2>2, ExecutedType, ExecutedKeeps
    <2>4. ex' = [ex EXCEPT ![b] = f]
      BY <2>1
    <2> HIDE DEF f
    <2>5. Sized(b, f) /\ SameReports(ex[b], f)
      BY <1>0, <2>2, <2>3 DEF Sized, SameReports, Reported
    <2> QED
      BY <1>2, <2>4, <2>5
  <1>9. ASSUME NEW b \in Batches, CheckAbort(b) PROVE Goal
    <2> DEFINE f == Advance(Check(ex[b]))
    <2>1. ex' = [ex EXCEPT ![b] = f] /\ ex[b].pc = "check"
      BY <1>9 DEF CheckAbort
    <2>2. /\ Len(ex[b].results) > 0 /\ Len(ex[b].results) <= ex[b].total
          /\ ex[b].index = Len(ex[b].results) - 1 /\ Len(ex[b].results) \in Nat
      BY <1>0, <2>1, FieldTypes DEF Placed, AtStatement
    <2>3. /\ f.total = ex[b].total
          /\ \/ f.pc = "done" /\ f.results = ex[b].results
             \/ /\ f.pc = "pushed" /\ Len(f.results) = Len(ex[b].results) + 1
                /\ Len(f.results) <= f.total
          /\ \A k \in 1 .. Len(ex[b].results) : f.results[k] = ex[b].results[k]
      BY <1>0, <2>2, CheckStep, CheckKeeps
    <2> HIDE DEF f
    <2>4. Sized(b, f)
      BY <1>0, <2>1, <2>2, <2>3 DEF Sized
    <2>5. SameReports(ex[b], f)
      BY <2>1, <2>2, <2>3 DEF SameReports, Reported
    <2> QED
      BY <1>2, <2>1, <2>4, <2>5
  <1> QED
    BY <1>1, <1>4, <1>5, <1>6, <1>7, <1>8, <1>9
    DEF Next, User, Worker, OpenConnection, SelectConnection, Deselect, Browse,
        OpenTab, CloseTab, Exec, CloseConnection, EndThread, KeepAlive, Deliver,
        SendOnNullHandle, EmitFinished, LeaveTask, DropSession, vars
-----------------------------------------------------------------------------
(* The queue of signals.                                                    *)

(* Facts about tabs and tasks the steps below need.                         *)
LEMMA TabFacts ==
  ASSUME TypeInv, SignalInv
  PROVE  /\ \A t \in Tabs : /\ t # None
                            /\ queriesTask[t] \in Batches \cup {None}
                            /\ queriesTask[t] # None => listener[queriesTask[t]] = t
         /\ None \notin Batches
  BY ExecutionAssumption DEF TypeInv, TypeOK, SignalInv, CurrentTask

(* A statement is reported after all those before it.                       *)
LEMMA ReportFacts ==
  ASSUME TypeInv, SignalInv, SizeInv, NEW b \in Batches, ReportQuery(b)
  PROVE  /\ ex[b].index \in Nat /\ ex[b].index = Reported(ex[b])
         /\ Reported(ex'[b]) = ex[b].index + 1
         /\ ex'[b].results = ex[b].results
         /\ \A d \in Batches : d # b => ex'[d] = ex[d]
         /\ ex[b].index \in StatementIndexes
         /\ events' = Append(events, Signal("queryFinished", b, ex[b].index))
         /\ Len(events) \in Nat /\ Len(events') = Len(events) + 1
         /\ \A k \in 1 .. Len(events) : events'[k] = events[k]
         /\ events'[Len(events')] = Signal("queryFinished", b, ex[b].index)
         /\ UNCHANGED <<tabs, isRunning, queriesTask, resultsData, listener, state>>
  <1>1. /\ state[b] = "running" /\ ex[b].pc = "emit"
        /\ ex' = [ex EXCEPT ![b] = Report(ex[b])]
        /\ events' = Append(events, Signal("queryFinished", b, ex[b].index))
        /\ UNCHANGED <<tabs, isRunning, queriesTask, resultsData, listener, state>>
    BY DEF ReportQuery, tabVars, lifeVars
  <1>2. /\ ex[b].index = Len(ex[b].results) - 1 /\ Len(ex[b].results) > 0
        /\ Len(ex[b].results) \in Nat /\ ex[b].index \in Nat
        /\ Len(ex[b].results) <= Size[b] /\ Size[b] \in Nat
    BY <1>1, FieldTypes, ExecutionAssumption
    DEF TypeInv, TypeOK, ExecutorInv, Placed, AtStatement, SizeInv, Sized
  <1>3. /\ Report(ex[b]).pc = "check" /\ Report(ex[b]).results = ex[b].results
        /\ ex'[b] = Report(ex[b])
        /\ \A d \in Batches : d # b => ex'[d] = ex[d]
    BY <1>1, MoveStep DEF TypeInv, TypeOK
  <1>4. ex[b].index \in 0 .. Size[b] - 1
    BY <1>2
  <1>5. ex[b].index \in StatementIndexes
    BY <1>4 DEF StatementIndexes
  <1>6. events \in Seq(Event) /\ Len(events) \in Nat
    BY DEF TypeInv, TypeOK
  <1>7. Signal("queryFinished", b, ex[b].index) \in Event
    BY <1>2 DEF Signal, Event
  <1>8. /\ Len(events') = Len(events) + 1
        /\ \A k \in 1 .. Len(events) : events'[k] = events[k]
        /\ events'[Len(events')] = Signal("queryFinished", b, ex[b].index)
    BY <1>1, <1>6, <1>7
  <1> QED
    BY <1>1, <1>2, <1>3, <1>5, <1>6, <1>8 DEF Reported

(* The two signals at the end of a batch are not those of a statement.      *)
LEMMA FinishFacts ==
  ASSUME TypeInv, NEW b \in Batches, EmitFinished(b)
  PROVE  /\ Len(events) \in Nat /\ Len(events') = Len(events) + 2
         /\ \A k \in 1 .. Len(events') :
               \/ k \in 1 .. Len(events) /\ events'[k] = events[k]
               \/ k > Len(events) /\ events'[k].kind # "queryFinished"
         /\ \A k \in 1 .. Len(events) : k \in 1 .. Len(events') /\ events'[k] = events[k]
         /\ UNCHANGED <<tabs, isRunning, queriesTask, resultsData, listener, ex>>
  <1> DEFINE e == Signal("queriesFinished", b, 0)
             f == Signal("taskFinished", b, 0)
  <1>1. /\ events' = events \o <<e, f>>
        /\ e.kind = "queriesFinished" /\ f.kind = "taskFinished"
        /\ e \in Event /\ f \in Event
        /\ UNCHANGED <<tabs, isRunning, queriesTask, resultsData, listener, ex>>
    BY DEF EmitFinished, Signal, Event, tabVars
  <1> HIDE DEF e, f
  <1>2. events \in Seq(Event)
    BY DEF TypeInv, TypeOK
  <1>3. /\ Len(events) \in Nat /\ Len(events') = Len(events) + 2
        /\ \A k \in 1 .. Len(events') :
              \/ k \in 1 .. Len(events) /\ events'[k] = events[k]
              \/ k = Len(events) + 1 /\ events'[k] = e
              \/ k = Len(events) + 2 /\ events'[k] = f
    BY <1>1, <1>2, TwoAppendedAt
  <1>4. \A k \in 1 .. Len(events) : k \in 1 .. Len(events') /\ events'[k] = events[k]
    BY <1>3
  <1>5. ASSUME NEW k \in 1 .. Len(events')
        PROVE  \/ k \in 1 .. Len(events) /\ events'[k] = events[k]
               \/ k > Len(events) /\ events'[k].kind # "queryFinished"
    <2>1. CASE k = Len(events) + 1 /\ events'[k] = e
      BY <1>1, <1>3, <2>1
    <2>2. CASE k = Len(events) + 2 /\ events'[k] = f
      BY <1>1, <1>3, <2>2
    <2> QED
      BY <1>3, <2>1, <2>2
  <1> QED
    BY <1>1, <1>3, <1>4, <1>5

(* Only the head of the queue is no longer queued when it is delivered.      *)
LEMMA TailQueued ==
  ASSUME TypeOK, events # <<>>, events' = Tail(events), NEW b, NEW i
  PROVE  /\ Queued(b, i)' => Queued(b, i)
         /\ Queued(b, i) =>
              \/ Queued(b, i)'
              \/ /\ events[1].kind = "queryFinished"
                 /\ events[1].batch = b /\ events[1].index = i
  <1>1. /\ Len(events) \in Nat /\ Len(events') = Len(events) - 1
        /\ \A k \in 1 .. Len(events') :
              k + 1 \in 1 .. Len(events) /\ events'[k] = events[k + 1]
    BY TailEvents
  <1>2. ASSUME NEW k \in 1 .. Len(events), k # 1
        PROVE  k - 1 \in 1 .. Len(events') /\ events'[k - 1] = events[k]
    BY <1>1, <1>2
  <1>3. ASSUME Queued(b, i)' PROVE Queued(b, i)
    <2>1. PICK k \in 1 .. Len(events') : /\ events'[k].kind = "queryFinished"
                                         /\ events'[k].batch = b
                                         /\ events'[k].index = i
      BY <1>3 DEF Queued
    <2> QED
      BY <1>1, <2>1 DEF Queued
  <1>4. ASSUME Queued(b, i)
        PROVE  \/ Queued(b, i)'
               \/ /\ events[1].kind = "queryFinished"
                  /\ events[1].batch = b /\ events[1].index = i
    <2>1. PICK k \in 1 .. Len(events) : /\ events[k].kind = "queryFinished"
                                        /\ events[k].batch = b
                                        /\ events[k].index = i
      BY <1>4 DEF Queued
    <2>2. CASE k # 1
      BY <1>2, <2>1, <2>2 DEF Queued
    <2> QED
      BY <2>1, <2>2
  <1> QED
    BY <1>3, <1>4

(* The order of the reports stays, whatever is queued and delivered.         *)
LEMMA OrderNext ==
  ASSUME TypeInv, LifeInv, SignalInv, SizeInv, OrderInv, [Next]_vars
  PROVE  OrderInv'
  <1> USE DEF managerVars, tabVars, lifeVars, taskVars, threadVars, mainVars,
              handleVars, serverVars
  <1>1. ASSUME UNCHANGED <<events, listener>> PROVE OrderInv'
    BY <1>1 DEF OrderInv
  <1>2. ASSUME NEW t \in Tabs, CloseTab(t) PROVE OrderInv'
    <2>1. events' = events /\ \A d \in Batches : listener'[d] # None => listener[d] # None
      BY <1>2 DEF CloseTab
    <2> QED
      BY <2>1, EventTypes DEF OrderInv, TypeInv
  <1>3. ASSUME NEW t \in Tabs, NEW b \in Batches, Exec(t, b) PROVE OrderInv'
    <2>1. /\ events' = events
          /\ \A d \in Batches : d # b => listener'[d] = listener[d]
          /\ \A k \in 1 .. Len(events) : events[k].batch # b
      BY <1>3 DEF Exec, TypeInv, TypeOK, LifeInv, FinishedInv
    <2> QED
      BY <2>1, EventTypes DEF OrderInv, TypeInv
  <1>4. ASSUME NEW b \in Batches, ReportQuery(b) PROVE OrderInv'
    <2> SUFFICES ASSUME NEW j \in 1 .. Len(events'), NEW k \in 1 .. Len(events'),
                        j < k, events'[j].batch = events'[k].batch,
                        events'[j].kind = "queryFinished",
                        events'[k].kind = "queryFinished",
                        listener'[events'[j].batch] # None
                 PROVE  events'[j].index < events'[k].index
      BY DEF OrderInv
    <2>1. /\ Len(events) \in Nat /\ Len(events') = Len(events) + 1
          /\ \A i \in 1 .. Len(events) : events'[i] = events[i]
          /\ events'[Len(events')] = Signal("queryFinished", b, ex[b].index)
          /\ listener' = listener
          /\ ex[b].index = Reported(ex[b])
      BY <1>4, ReportFacts
    <2>2. j \in 1 .. Len(events) /\ events'[j] = events[j]
      BY <2>1
    <2>3. CASE k \in 1 .. Len(events)
      BY <2>1, <2>2, <2>3 DEF OrderInv
    <2>4. CASE k = Len(events')
      <3>1. events'[k].batch = b /\ events'[k].index = ex[b].index
        BY <2>1, <2>4 DEF Signal
      <3>2. events[j].index < Reported(ex[b])
        BY <2>1, <2>2, <3>1 DEF SignalInv, EventsMatchTask
      <3> QED
        BY <2>1, <2>2, <3>1, <3>2
    <2> QED
      BY <2>1, <2>3, <2>4
  <1>5. ASSUME NEW b \in Batches, EmitFinished(b) PROVE OrderInv'
    BY <1>5, FinishFacts DEF OrderInv
  <1>6. CASE Deliver
    <2>1. events # <<>> /\ events' = Tail(events) /\ listener' = listener
      BY <1>6 DEF Deliver
    <2> QED
      BY <2>1, TailEvents DEF OrderInv, TypeInv
  <1> QED
    BY <1>1, <1>2, <1>3, <1>4, <1>5, <1>6
    DEF Next, User, Worker, OpenConnection, SelectConnection, Deselect, Browse,
        OpenTab, Cancel, CloseConnection, EndThread, KeepAlive, TakeTask,
        SendQuery, SendOnNullHandle, ExecuteQuery, CheckAbort, LeaveTask,
        DropSession, vars
-----------------------------------------------------------------------------
(* What the tabs show.                                                      *)
TabsProduced == [t \in Tabs |-> Produced(t)]

Shows(t) == Feed!Shown(t)

(* Showing a result adds it to those the tab shows.                         *)
LEMMA ShownAppended ==
  ASSUME TypeOK, NEW t \in Tabs, NEW i \in Nat,
         resultsData' = [resultsData EXCEPT ![t] = Append(@, i)]
  PROVE  /\ Shows(t)' = Shows(t) \cup {i}
         /\ \A u \in Tabs : u # t => Shows(u)' = Shows(u)
  <1>1. /\ resultsData[t] \in Seq(Nat)
        /\ resultsData'[t] = Append(resultsData[t], i)
        /\ \A u \in Tabs : u # t => resultsData'[u] = resultsData[u]
    BY DEF TypeOK
  <1>2. /\ Len(resultsData[t]) \in Nat
        /\ Len(resultsData'[t]) = Len(resultsData[t]) + 1
        /\ \A k \in 1 .. Len(resultsData[t]) : resultsData'[t][k] = resultsData[t][k]
        /\ resultsData'[t][Len(resultsData[t]) + 1] = i
    BY <1>1
  <1>3. ASSUME NEW x \in Shows(t)' PROVE x \in Shows(t) \cup {i}
    <2>1. PICK k \in 1 .. Len(resultsData'[t]) : x = resultsData'[t][k]
      BY <1>3 DEF Shows, Feed!Shown
    <2>2. k \in 1 .. Len(resultsData[t]) \/ k = Len(resultsData[t]) + 1
      BY <1>2
    <2> QED
      BY <1>2, <2>1, <2>2 DEF Shows, Feed!Shown
  <1>4. ASSUME NEW x \in Shows(t) \cup {i} PROVE x \in Shows(t)'
    <2>1. CASE x = i
      BY <1>2, <2>1 DEF Shows, Feed!Shown
    <2>2. CASE x \in Shows(t)
      <3>1. PICK k \in 1 .. Len(resultsData[t]) : x = resultsData[t][k]
        BY <2>2 DEF Shows, Feed!Shown
      <3>2. k \in 1 .. Len(resultsData'[t]) /\ x = resultsData'[t][k]
        BY <1>2, <3>1
      <3> QED
        BY <3>2 DEF Shows, Feed!Shown
    <2> QED
      BY <2>1, <2>2
  <1>5. \A u \in Tabs : u # t => Shows(u)' = Shows(u)
    BY <1>1 DEF Shows, Feed!Shown
  <1> QED
    BY <1>3, <1>4, <1>5

(* A tab without results shows none.                                        *)
LEMMA ShownNone ==
  ASSUME NEW t \in Tabs, resultsData'[t] = <<>>
  PROVE  Shows(t)' = {}
  BY DEF Shows, Feed!Shown

(* ShownInv with the names of this module.                                  *)
LEMMA ShownInvIs ==
  ShownInv <=> \A t \in Tabs : queriesTask[t] # None =>
                 /\ Shows(t) \subseteq ProducedBy(queriesTask[t])
                 /\ \A i \in ProducedBy(queriesTask[t]) :
                       i \in Shows(t) <=> ~Queued(queriesTask[t], i)
  BY DEF ShownInv, Shows

(* What a step shows of itself when it leaves the tabs' tasks and results.   *)
LEMMA Unseen ==
  ASSUME TypeInv, ShownInv, UNCHANGED <<isRunning, queriesTask, resultsData>>,
         \A b \in Batches : ProducedBy(b)' = ProducedBy(b),
         \A t \in Tabs, b \in Batches : queriesTask[t] = b =>
            \A i : Queued(b, i)' <=> Queued(b, i)
  PROVE  ShownInv' /\ UNCHANGED Feed!vars
  <1>0. \A t \in Tabs : queriesTask[t] \in Batches \cup {None}
    BY DEF TypeInv, TypeOK
  <1>1. \A t \in Tabs : Produced(t)' = Produced(t) /\ Shows(t)' = Shows(t)
    BY <1>0 DEF Produced, Shows, Feed!Shown
  <1>2. ShownInv'
    <2> SUFFICES ASSUME NEW t \in Tabs, NEW b \in Batches, queriesTask[t] = b
                 PROVE  /\ Shows(t) \subseteq ProducedBy(b)
                        /\ \A i \in ProducedBy(b) : i \in Shows(t) <=> ~Queued(b, i)'
      BY <1>0, <1>1 DEF ShownInv, Shows
    <2> QED
      BY ShownInvIs, ExecutionAssumption
  <1>3. UNCHANGED TabsProduced
    BY <1>1 DEF TabsProduced
  <1> QED
    BY <1>2, <1>3 DEF Feed!vars, TabsProduced

(* A closed tab forgets its results and its task, and only its own.          *)
LEMMA CloseFeed ==
  ASSUME TypeInv, TypeInv', SignalInv, ShownInv, NEW t \in Tabs, CloseTab(t),
         \A b \in Batches : ProducedBy(b)' = ProducedBy(b)
  PROVE  ShownInv' /\ Feed!Close(t)
  <1>1. /\ isRunning' = [isRunning EXCEPT ![t] = FALSE]
        /\ queriesTask' = [queriesTask EXCEPT ![t] = None]
        /\ resultsData' = [resultsData EXCEPT ![t] = <<>>]
        /\ UNCHANGED events
    BY DEF CloseTab, mainVars
  <1>2. /\ queriesTask'[t] = None /\ resultsData'[t] = <<>>
        /\ \A u \in Tabs : u # t => /\ queriesTask'[u] = queriesTask[u]
                                    /\ resultsData'[u] = resultsData[u]
        /\ \A u \in Tabs : queriesTask[u] \in Batches \cup {None}
    BY <1>1 DEF TypeInv, TypeOK
  <1>3. /\ Produced(t)' = {}
        /\ \A u \in Tabs : u # t => Produced(u)' = Produced(u) /\ Shows(u)' = Shows(u)
    BY <1>2 DEF Produced, Shows, Feed!Shown
  <1>4. \A b, i : Queued(b, i)' <=> Queued(b, i)
    BY <1>1 DEF Queued
  <1>5. ShownInv'
    BY <1>2, <1>3, <1>4 DEF ShownInv, Shows
  <1>6. TabsProduced' = [TabsProduced EXCEPT ![t] = {}]
    BY <1>3 DEF TabsProduced
  <1> QED
    BY <1>1, <1>5, <1>6 DEF Feed!Close, Feed!Clear, TabsProduced

(* A run is accepted with nothing produced and nothing shown.                *)
LEMMA ExecFeed ==
  ASSUME TypeInv, TypeInv', LifeInv, SignalInv, SizeInv, ShownInv,
         NEW t \in Tabs, NEW b \in Batches, Exec(t, b),
         \A d \in Batches : ProducedBy(d)' = ProducedBy(d)
  PROVE  ShownInv' /\ Feed!Accept(t)
  <1>1. /\ ~isRunning[t] /\ state[b] = "new"
        /\ isRunning' = [isRunning EXCEPT ![t] = TRUE]
        /\ queriesTask' = [queriesTask EXCEPT ![t] = b]
        /\ resultsData' = [resultsData EXCEPT ![t] = <<>>]
        /\ UNCHANGED events
    BY DEF Exec, mainVars
  <1>2. /\ queriesTask'[t] = b /\ resultsData'[t] = <<>> /\ b # None
        /\ \A u \in Tabs : u # t => /\ queriesTask'[u] = queriesTask[u]
                                    /\ resultsData'[u] = resultsData[u]
        /\ \A u \in Tabs : queriesTask[u] \in Batches \cup {None}
    BY <1>1, ExecutionAssumption DEF TypeInv, TypeOK
  <1>3. ProducedBy(b) = {}
    <2>1. ex[b].results = <<>> /\ ex[b].pc = "idle"
      BY <1>1 DEF TypeInv, ExecutorInv, Placed, SizeInv, Sized
    <2>2. Reported(ex[b]) = 0
      BY <2>1 DEF Reported
    <2>3. \A i \in StatementIndexes : ~(i < 0)
      BY ExecutionAssumption DEF StatementIndexes
    <2> QED
      BY <2>2, <2>3 DEF ProducedBy
  <1>4. /\ Produced(t)' = {} /\ Shows(t)' = {}
        /\ \A u \in Tabs : u # t => Produced(u)' = Produced(u) /\ Shows(u)' = Shows(u)
    BY <1>2, <1>3, ShownNone DEF Produced, Shows, Feed!Shown
  <1>5. \A d, i : Queued(d, i)' <=> Queued(d, i)
    BY <1>1 DEF Queued
  <1>6. ShownInv'
    BY <1>2, <1>3, <1>4, <1>5 DEF ShownInv, Shows
  <1>7. TabsProduced' = [TabsProduced EXCEPT ![t] = {}]
    BY <1>4 DEF TabsProduced
  <1> QED
    BY <1>1, <1>6, <1>7 DEF Feed!Accept, Feed!Clear, TabsProduced

(* The numbers a batch has produced so far.                                 *)
LEMMA ProducedNumbers ==
  ASSUME NEW b \in Batches
  PROVE  \A i \in ProducedBy(b) : i \in Nat /\ i \in StatementIndexes /\ i < Reported(ex[b])
  BY ExecutionAssumption DEF ProducedBy, StatementIndexes

(* A report produces the statement it is about, or nothing a tab shows.      *)
LEMMA ReportFeed ==
  ASSUME TypeInv, TypeInv', SignalInv, SizeInv, ShownInv,
         NEW b \in Batches, ReportQuery(b)
  PROVE  /\ ShownInv'
         /\ \/ UNCHANGED Feed!vars
            \/ \E t \in Tabs, i \in StatementIndexes : Feed!Produce(t, i)
  <1>0. PICK idx : idx = ex[b].index
    OBVIOUS
  <1> DEFINE rows == ex[b].results[idx + 1] = "rows"
  <1>1. /\ idx \in Nat /\ idx = Reported(ex[b])
        /\ Reported(ex'[b]) = idx + 1
        /\ ex'[b].results = ex[b].results
        /\ \A d \in Batches : d # b => ex'[d] = ex[d]
        /\ idx \in StatementIndexes
        /\ UNCHANGED <<tabs, isRunning, queriesTask, resultsData, listener, state>>
    BY <1>0, ReportFacts
  <1>2. \A d \in Batches : d # b => ProducedBy(d)' = ProducedBy(d)
    BY <1>1 DEF ProducedBy, StatementIndexes
  <1>3. ProducedBy(b)' = IF rows THEN ProducedBy(b) \cup {idx} ELSE ProducedBy(b)
    <2>1. \A i \in StatementIndexes : i \in Nat
      BY ExecutionAssumption DEF StatementIndexes
    <2>2. ProducedBy(b)' = {i \in StatementIndexes : /\ i < idx + 1
                                                     /\ ex[b].results[i + 1] = "rows"}
      BY <1>1 DEF ProducedBy, StatementIndexes
    <2>3. ProducedBy(b) = {i \in StatementIndexes : /\ i < idx
                                                    /\ ex[b].results[i + 1] = "rows"}
      BY <1>1 DEF ProducedBy
    <2>4. \A i \in StatementIndexes : i < idx + 1 <=> i < idx \/ i = idx
      BY <1>1, <2>1
    <2>5. \A i : i \in ProducedBy(b)' <=> i \in ProducedBy(b) \/ (rows /\ i = idx)
      BY <1>1, <2>2, <2>3, <2>4
    <2> HIDE DEF rows
    <2> QED
      BY <2>5
  <1>4. \A d, i : Queued(d, i)' <=> Queued(d, i) \/ (d = b /\ i = idx)
    <2> DEFINE e == Signal("queryFinished", b, idx)
    <2>1. /\ Len(events) \in Nat /\ Len(events') = Len(events) + 1
          /\ \A k \in 1 .. Len(events) : events'[k] = events[k]
          /\ events'[Len(events')] = e
      BY <1>0, ReportFacts
    <2>2. e.kind = "queryFinished" /\ e.batch = b /\ e.index = idx
      BY DEF Signal
    <2> HIDE DEF e
    <2> SUFFICES ASSUME NEW d, NEW i
                 PROVE  Queued(d, i)' <=> Queued(d, i) \/ (d = b /\ i = idx)
      OBVIOUS
    <2>3. ASSUME Queued(d, i)' PROVE Queued(d, i) \/ (d = b /\ i = idx)
      <3>1. PICK k \in 1 .. Len(events') : /\ events'[k].kind = "queryFinished"
                                           /\ events'[k].batch = d
                                           /\ events'[k].index = i
        BY <2>3 DEF Queued
      <3>2. CASE k \in 1 .. Len(events)
        BY <2>1, <3>1, <3>2 DEF Queued
      <3>3. CASE k = Len(events')
        BY <2>1, <2>2, <3>1, <3>3
      <3> QED
        BY <2>1, <3>2, <3>3
    <2>4. ASSUME Queued(d, i) PROVE Queued(d, i)'
      <3>1. PICK k \in 1 .. Len(events) : /\ events[k].kind = "queryFinished"
                                          /\ events[k].batch = d
                                          /\ events[k].index = i
        BY <2>4 DEF Queued
      <3>2. k \in 1 .. Len(events') /\ events'[k] = events[k]
        BY <2>1, <3>1
      <3> QED
        BY <3>1, <3>2 DEF Queued
    <2>5. Queued(b, idx)'
      <3>1. Len(events') \in 1 .. Len(events')
        BY <2>1
      <3> QED
        BY <2>1, <2>2, <3>1 DEF Queued
    <2> QED
      BY <2>3, <2>4, <2>5
  <1>5. \A i \in ProducedBy(b) : i \in Nat /\ i < idx
    BY <1>1, ProducedNumbers
  <1>6. \A t \in Tabs : queriesTask[t] \in Batches \cup {None} /\ Shows(t)' = Shows(t)
    BY <1>1 DEF TypeInv, TypeOK, Shows, Feed!Shown
  <1> HIDE DEF rows
  <1>7. ShownInv'
    <2> SUFFICES ASSUME NEW t \in Tabs, NEW q \in Batches, queriesTask[t] = q
                 PROVE  /\ Shows(t) \subseteq ProducedBy(q)'
                        /\ \A i \in ProducedBy(q)' : i \in Shows(t) <=> ~Queued(q, i)'
      BY <1>1, <1>6 DEF ShownInv, Shows
    <2>1. /\ Shows(t) \subseteq ProducedBy(q)
          /\ \A i \in ProducedBy(q) : i \in Shows(t) <=> ~Queued(q, i)
      BY ShownInvIs, ExecutionAssumption
    <2>2. CASE q # b
      BY <1>2, <1>4, <2>1, <2>2
    <2>3. CASE q = b
      <3>1. idx \notin Shows(t)
        BY <1>1, <1>5, <2>1, <2>3
      <3> QED
        BY <1>1, <1>3, <1>4, <1>5, <2>1, <2>3, <3>1
    <2> QED
      BY <2>2, <2>3
  <1>8. CASE rows /\ \E t \in Tabs : queriesTask[t] = b
    <2>1. PICK t \in Tabs : queriesTask[t] = b
      BY <1>8
    <2>2. b # None /\ isRunning[t]
      <3>1. b # None /\ t \in tabs /\ state[b] = "running"
        BY <2>1, ExecutionAssumption DEF SignalInv, CurrentTask, ReportQuery
      <3> QED
        BY <2>1, <3>1 DEF SignalInv, RunningIsAccounted
    <2>3. Produced(t) = ProducedBy(b) /\ Produced(t)' = ProducedBy(b) \cup {idx}
      BY <1>1, <1>3, <1>8, <2>1, <2>2 DEF Produced
    <2>4. ASSUME NEW u \in Tabs, u # t PROVE Produced(u)' = Produced(u)
      <3>1. queriesTask[u] # b
        BY <2>1, <2>2, <2>4 DEF SignalInv, CurrentTask
      <3> QED
        BY <1>1, <1>2, <1>6, <3>1 DEF Produced
    <2>5. /\ TabsProduced' = [TabsProduced EXCEPT ![t] = @ \cup {idx}]
          /\ TabsProduced[t] = ProducedBy(b)
      BY <2>3, <2>4 DEF TabsProduced
    <2>6. Feed!Produce(t, idx)
      BY <1>1, <1>5, <2>2, <2>5 DEF Feed!Produce, TabsProduced
    <2> QED
      BY <1>1, <1>7, <2>6
  <1>9. CASE ~(rows /\ \E t \in Tabs : queriesTask[t] = b)
    <2>1. \A t \in Tabs : Produced(t)' = Produced(t)
      BY <1>1, <1>2, <1>3, <1>6, <1>9 DEF Produced
    <2>2. UNCHANGED TabsProduced
      BY <2>1 DEF TabsProduced
    <2> QED
      BY <1>1, <1>7, <2>2 DEF Feed!vars, TabsProduced
  <1> QED
    BY <1>8, <1>9

(* Delivering a signal shows the first result on its way, ends a run when     *)
(* none is, or is not seen.                                                 *)
LEMMA DeliverFeed ==
  ASSUME TypeInv, TypeInv', SignalInv, SizeInv, OrderInv, ShownInv, Deliver,
         \A b \in Batches : ProducedBy(b)' = ProducedBy(b)
  PROVE  /\ ShownInv'
         /\ \/ UNCHANGED Feed!vars
            \/ \E t \in Tabs : Feed!Finish(t)
            \/ \E t \in Tabs, i \in StatementIndexes : Feed!Show(t, i)
  <1>0. PICK e : e = Head(events)
    OBVIOUS
  <1>t. PICK t : t = listener[e.batch]
    OBVIOUS
  <1>1. /\ events # <<>> /\ events' = Tail(events)
        /\ 1 \in 1 .. Len(events) /\ events[1] = e /\ Len(events) \in Nat
        /\ e.batch \in Batches /\ e.index \in Nat /\ listener[e.batch] = t
        /\ t \in Tabs \cup {None}
        /\ UNCHANGED <<tabs, queriesTask, listener, state, ex>>
    BY <1>0, <1>t, EventTypes DEF Deliver, TypeInv, TypeOK, taskVars, lifeVars
  <1>2. \A b, i : /\ Queued(b, i)' => Queued(b, i)
                  /\ Queued(b, i) =>
                       \/ Queued(b, i)'
                       \/ e.kind = "queryFinished" /\ e.batch = b /\ e.index = i
    BY <1>1, TailQueued DEF TypeInv
  <1>3. \A u \in Tabs : /\ queriesTask[u] \in Batches \cup {None}
                        /\ u # None
                        /\ queriesTask[u] # None => listener[queriesTask[u]] = u
    BY TabFacts
  <1>4. CASE e.kind = "queryFinished" /\ t # None /\ OnQueryFinished(t, e.index)
    <2> DEFINE i == e.index
               b == e.batch
    <2>1. /\ t \in Tabs /\ queriesTask[t] = b /\ isRunning[t]
          /\ i < Reported(ex[b])
      BY <1>1, <1>4 DEF SignalInv, EventsMatchTask
    <2>2. b # None /\ b \in Batches /\ i \in Nat
      BY <1>1, ExecutionAssumption
    <2>3. Queued(b, i)
      BY <1>1, <1>4 DEF Queued
    <2>4. ~Queued(b, i)'
      <3>1. SUFFICES ASSUME Queued(b, i)' PROVE FALSE
        OBVIOUS
      <3>2. PICK k \in 1 .. Len(events') : /\ events'[k].kind = "queryFinished"
                                           /\ events'[k].batch = b
                                           /\ events'[k].index = i
        BY <3>1 DEF Queued
      <3>3. k + 1 \in 1 .. Len(events) /\ events'[k] = events[k + 1] /\ 1 < k + 1
        BY <1>1, TailEvents DEF TypeInv
      <3> QED
        BY <1>1, <1>4, <2>2, <3>2, <3>3 DEF OrderInv
    <2>5. UNCHANGED isRunning
      BY <1>4 DEF OnQueryFinished
    <2>6. /\ Shows(t) \subseteq ProducedBy(b)
          /\ \A j \in ProducedBy(b) : j \in Shows(t) <=> ~Queued(b, j)
      BY <2>1, <2>2, ShownInvIs
    <2>7. ASSUME NEW u \in Tabs, u # t, NEW q \in Batches, queriesTask[u] = q
          PROVE  \A j : Queued(q, j)' <=> Queued(q, j)
      <3>1. q # b
        BY <1>1, <1>3, <2>7, ExecutionAssumption
      <3> QED
        BY <1>2, <3>1
    <2>8. CASE ex[b].results[i + 1] = "rows"
      <3>1. resultsData' = [resultsData EXCEPT ![t] = Append(@, i)]
        BY <1>4, <2>1, <2>8 DEF OnQueryFinished
      <3>2. /\ Shows(t)' = Shows(t) \cup {i}
            /\ \A u \in Tabs : u # t => Shows(u)' = Shows(u)
        BY <2>1, <2>2, <3>1, ShownAppended DEF TypeInv
      <3>3. i \in ProducedBy(b) /\ i \in StatementIndexes
        <4>1. /\ Size[b] \in Nat /\ Len(ex[b].results) \in Nat
              /\ Len(ex[b].results) <= Size[b]
              /\ Reported(ex[b]) <= Len(ex[b].results) /\ Reported(ex[b]) \in Int
          BY <2>2, FieldTypes, ExecutionAssumption
          DEF TypeInv, TypeOK, SizeInv, Sized, Reported
        <4>2. i \in 0 .. Size[b] - 1
          BY <2>1, <2>2, <4>1
        <4>3. i \in StatementIndexes
          BY <2>2, <4>2 DEF StatementIndexes
        <4> QED
          BY <2>1, <2>8, <4>3 DEF ProducedBy
      <3>4. ShownInv'
        <4> SUFFICES ASSUME NEW u \in Tabs, NEW q \in Batches, queriesTask[u] = q
                     PROVE  /\ Shows(u)' \subseteq ProducedBy(q)
                            /\ \A j \in ProducedBy(q) : j \in Shows(u)' <=> ~Queued(q, j)'
          BY <1>1, <1>3 DEF ShownInv, Shows
        <4>1. CASE u # t
          <5>1. /\ Shows(u) \subseteq ProducedBy(q)
                /\ \A j \in ProducedBy(q) : j \in Shows(u) <=> ~Queued(q, j)
            BY ShownInvIs, ExecutionAssumption
          <5> QED
            BY <2>7, <3>2, <4>1, <5>1
        <4>2. CASE u = t
          <5>1. q = b
            BY <2>1, <4>2
          <5>2. \A j \in ProducedBy(b) : j # i => (Queued(b, j)' <=> Queued(b, j))
            BY <1>2
          <5> QED
            BY <2>4, <2>6, <3>2, <3>3, <4>2, <5>1, <5>2
        <4> QED
          BY <4>1, <4>2
      <3>5. \A u \in Tabs : Produced(u)' = Produced(u)
        BY <1>1, <1>3 DEF Produced
      <3>6. UNCHANGED TabsProduced /\ TabsProduced[t] = ProducedBy(b)
        BY <2>1, <2>2, <3>5 DEF TabsProduced, Produced
      <3>7. Feed!Hidden(t) = ProducedBy(b) \ Shows(t)
        BY <3>6 DEF Feed!Hidden, Shows, TabsProduced
      <3>8. i \in Feed!Hidden(t)
        BY <2>3, <2>6, <3>3, <3>7
      <3>9. ASSUME NEW j \in Feed!Hidden(t) PROVE i <= j
        <4>1. Queued(b, j)
          BY <2>6, <3>7, <3>9
        <4>2. PICK k \in 1 .. Len(events) : /\ events[k].kind = "queryFinished"
                                            /\ events[k].batch = b
                                            /\ events[k].index = j
          BY <4>1 DEF Queued
        <4>3. k = 1 \/ 1 < k
          OBVIOUS
        <4>4. j \in Nat
          BY <4>2, EventTypes DEF TypeInv
        <4> QED
          BY <1>1, <1>4, <2>2, <4>2, <4>3, <4>4 DEF OrderInv
      <3>10. Feed!Show(t, i)
        BY <2>1, <2>5, <3>1, <3>6, <3>8, <3>9 DEF Feed!Show, TabsProduced
      <3> QED
        BY <2>1, <3>3, <3>4, <3>10
    <2>9. CASE ex[b].results[i + 1] # "rows"
      <3>1. UNCHANGED resultsData
        BY <1>4, <2>1, <2>9 DEF OnQueryFinished
      <3>2. i \notin ProducedBy(b)
        BY <2>9 DEF ProducedBy
      <3>3. \A u \in Tabs : Produced(u)' = Produced(u) /\ Shows(u)' = Shows(u)
        BY <1>1, <1>3, <3>1 DEF Produced, Shows, Feed!Shown
      <3>4. ShownInv'
        <4> SUFFICES ASSUME NEW u \in Tabs, NEW q \in Batches, queriesTask[u] = q
                     PROVE  /\ Shows(u) \subseteq ProducedBy(q)
                            /\ \A j \in ProducedBy(q) : j \in Shows(u) <=> ~Queued(q, j)'
          BY <1>1, <1>3, <3>3 DEF ShownInv, Shows
        <4>1. /\ Shows(u) \subseteq ProducedBy(q)
              /\ \A j \in ProducedBy(q) : j \in Shows(u) <=> ~Queued(q, j)
          BY ShownInvIs, ExecutionAssumption
        <4>2. CASE u # t
          BY <2>7, <4>1, <4>2
        <4>3. CASE u = t
          <5>1. q = b
            BY <2>1, <4>3
          <5>2. \A j \in ProducedBy(b) : Queued(b, j)' <=> Queued(b, j)
            BY <1>2, <3>2
          <5> QED
            BY <4>1, <5>1, <5>2
        <4> QED
          BY <4>2, <4>3
      <3>5. UNCHANGED TabsProduced
        BY <3>3 DEF TabsProduced
      <3> QED
        BY <2>5, <3>1, <3>4, <3>5 DEF Feed!vars, TabsProduced
    <2> QED
      BY <2>8, <2>9
  <1>5. ASSUME ~(e.kind = "queryFinished" /\ t # None)
        PROVE  \A u \in Tabs, q \in Batches : queriesTask[u] = q =>
                  \A j : Queued(q, j)' <=> Queued(q, j)
    BY <1>1, <1>2, <1>3, <1>5, ExecutionAssumption
  <1>6. CASE e.kind = "queriesFinished" /\ t # None /\ OnQueriesFinished(t)
    <2>1. t \in Tabs /\ isRunning[t] /\ queriesTask[t] = e.batch /\ e.batch # None
      BY <1>1, <1>6, ExecutionAssumption DEF SignalInv, EventsMatchTask
    <2>2. \A u \in Tabs, q \in Batches : queriesTask[u] = q =>
             \A j : Queued(q, j)' <=> Queued(q, j)
      BY <1>5, <1>6
    <2>3. /\ isRunning' = [isRunning EXCEPT ![t] = FALSE]
          /\ UNCHANGED resultsData
      BY <1>6 DEF OnQueriesFinished
    <2>4. \A u \in Tabs : Produced(u)' = Produced(u) /\ Shows(u)' = Shows(u)
      BY <1>1, <1>3, <2>3 DEF Produced, Shows, Feed!Shown
    <2>5. ShownInv'
      <3> SUFFICES ASSUME NEW u \in Tabs, NEW q \in Batches, queriesTask[u] = q
                   PROVE  /\ Shows(u) \subseteq ProducedBy(q)
                          /\ \A j \in ProducedBy(q) : j \in Shows(u) <=> ~Queued(q, j)'
        BY <1>1, <1>3, <2>4 DEF ShownInv, Shows
      <3> QED
        BY <2>2, ShownInvIs, ExecutionAssumption
    <2>6. UNCHANGED TabsProduced /\ TabsProduced[t] = ProducedBy(e.batch)
      BY <2>1, <2>4 DEF TabsProduced, Produced
    <2>7. \A j : ~Queued(e.batch, j)
      <3>1. ASSUME NEW k \in 1 .. Len(events), events[k].batch = e.batch
            PROVE  events[k].kind # "queryFinished"
        <4>1. k = 1 \/ 1 < k
          OBVIOUS
        <4> QED
          BY <1>1, <1>6, <3>1, <4>1 DEF SignalInv, FinishedLast
      <3> QED
        BY <3>1 DEF Queued
    <2>8. ProducedBy(e.batch) \subseteq Shows(t)
      BY <2>1, <2>7, ShownInvIs
    <2>9. Feed!Hidden(t) = {}
      BY <2>6, <2>8 DEF Feed!Hidden, Shows, TabsProduced
    <2>10. Feed!Finish(t)
      BY <2>1, <2>3, <2>6, <2>9 DEF Feed!Finish, TabsProduced
    <2> QED
      BY <2>1, <2>5, <2>10
  <1>7. CASE /\ UNCHANGED <<isRunning, resultsData>>
             /\ ~(e.kind = "queryFinished" /\ t # None)
    <2>1. \A u \in Tabs, q \in Batches : queriesTask[u] = q =>
             \A j : Queued(q, j)' <=> Queued(q, j)
      BY <1>5, <1>7
    <2> QED
      BY <1>1, <1>7, <2>1, Unseen
  <1>8. \/ e.kind = "queryFinished" /\ t # None /\ OnQueryFinished(t, e.index)
        \/ e.kind = "queriesFinished" /\ t # None /\ OnQueriesFinished(t)
        \/ /\ UNCHANGED <<isRunning, resultsData>>
           /\ ~(e.kind = "queryFinished" /\ t # None)
    BY <1>0, <1>t DEF Deliver, OnTaskFinished, DropSignal
  <1> QED
    BY <1>4, <1>6, <1>7, <1>8

(* The three parts hold before anything has been run.                       *)
LEMMA InitFeed ==
  ASSUME Init
  PROVE  FeedInv /\ Feed!Init
  <1>1. SizeInv
    <2>1. \A b \in Batches : ex[b] \in NewExecutors /\ Size[b] \in Nat
      BY ExecutionAssumption DEF Init
    <2>2. \A b \in Batches : ex[b].pc = "idle" /\ ex[b].results = <<>>
      BY <2>1 DEF NewExecutors
    <2> QED
      BY <2>1, <2>2 DEF SizeInv, Sized
  <1>2. OrderInv
    BY DEF Init, OrderInv
  <1>3. \A t \in Tabs : queriesTask[t] = None
    BY DEF Init
  <1>4. ShownInv
    BY <1>3 DEF ShownInv
  <1>5. TabsProduced = [t \in Tabs |-> {}]
    BY <1>3 DEF TabsProduced, Produced
  <1>6. Feed!Init
    BY <1>5 DEF Init, Feed!Init, TabsProduced
  <1> QED
    BY <1>1, <1>2, <1>4, <1>6 DEF FeedInv

(* Every step keeps what is shown, and is a step of ResultFeed or a stutter.  *)
LEMMA FeedNext ==
  ASSUME IInv, TypeInv', FeedInv, [Next]_vars
  PROVE  FeedInv' /\ [Feed!Next]_(Feed!vars)
  <1> USE DEF managerVars, tabVars, lifeVars, taskVars, threadVars, mainVars,
              handleVars, serverVars
  <1>0. /\ TypeInv /\ LifeInv /\ SignalInv /\ SizeInv /\ OrderInv /\ ShownInv
        /\ \A b \in Batches : ReportQuery(b) \/ SameReports(ex[b], ex'[b])
    BY ExecutorsNext DEF IInv, FeedInv
  <1>1. SizeInv' /\ OrderInv'
    BY <1>0, ExecutorsNext, OrderNext
  <1> SUFFICES ShownInv' /\ [Feed!Next]_(Feed!vars)
    BY <1>1 DEF FeedInv
  <1>2. ASSUME NEW b \in Batches, ReportQuery(b)
        PROVE  ShownInv' /\ [Feed!Next]_(Feed!vars)
    BY <1>0, <1>2, ReportFeed DEF Feed!Next
  <1>3. SUFFICES ASSUME \A b \in Batches : ~ReportQuery(b)
                 PROVE  ShownInv' /\ [Feed!Next]_(Feed!vars)
    BY <1>2
  <1>4. \A b \in Batches : ProducedBy(b)' = ProducedBy(b)
    BY <1>0, <1>3, SameProduced
  <1>5. ASSUME UNCHANGED <<isRunning, queriesTask, resultsData>>,
               \A b \in Batches : \A i : Queued(b, i)' <=> Queued(b, i)
        PROVE  ShownInv' /\ [Feed!Next]_(Feed!vars)
    BY <1>0, <1>4, <1>5, Unseen
  <1>6. ASSUME UNCHANGED <<isRunning, queriesTask, resultsData, events>>
        PROVE  ShownInv' /\ [Feed!Next]_(Feed!vars)
    BY <1>5, <1>6 DEF Queued
  <1>7. ASSUME NEW t \in Tabs, CloseTab(t)
        PROVE  ShownInv' /\ [Feed!Next]_(Feed!vars)
    BY <1>0, <1>4, <1>7, CloseFeed DEF Feed!Next
  <1>8. ASSUME NEW t \in Tabs, NEW b \in Batches, Exec(t, b)
        PROVE  ShownInv' /\ [Feed!Next]_(Feed!vars)
    BY <1>0, <1>4, <1>8, ExecFeed DEF Feed!Next
  <1>9. ASSUME Deliver
        PROVE  ShownInv' /\ [Feed!Next]_(Feed!vars)
    BY <1>0, <1>4, <1>9, DeliverFeed DEF Feed!Next
  <1>10. ASSUME NEW b \in Batches, EmitFinished(b)
         PROVE  ShownInv' /\ [Feed!Next]_(Feed!vars)
    <2>1. /\ Len(events) \in Nat /\ Len(events') = Len(events) + 2
          /\ \A k \in 1 .. Len(events') :
                \/ k \in 1 .. Len(events) /\ events'[k] = events[k]
                \/ k > Len(events) /\ events'[k].kind # "queryFinished"
          /\ \A k \in 1 .. Len(events) :
                k \in 1 .. Len(events') /\ events'[k] = events[k]
          /\ UNCHANGED <<isRunning, queriesTask, resultsData>>
      BY <1>0, <1>10, FinishFacts
    <2>2. \A d \in Batches : \A i : Queued(d, i)' <=> Queued(d, i)
      <3> SUFFICES ASSUME NEW d \in Batches, NEW i
                   PROVE  Queued(d, i)' <=> Queued(d, i)
        OBVIOUS
      <3>1. ASSUME Queued(d, i)' PROVE Queued(d, i)
        <4>1. PICK k \in 1 .. Len(events') : /\ events'[k].kind = "queryFinished"
                                             /\ events'[k].batch = d
                                             /\ events'[k].index = i
          BY <3>1 DEF Queued
        <4>2. k \in 1 .. Len(events) /\ events'[k] = events[k]
          BY <2>1, <4>1
        <4> QED
          BY <4>1, <4>2 DEF Queued
      <3>2. ASSUME Queued(d, i) PROVE Queued(d, i)'
        <4>1. PICK k \in 1 .. Len(events) : /\ events[k].kind = "queryFinished"
                                            /\ events[k].batch = d
                                            /\ events[k].index = i
          BY <3>2 DEF Queued
        <4>2. k \in 1 .. Len(events') /\ events'[k] = events[k]
          BY <2>1
        <4> QED
          BY <4>1, <4>2 DEF Queued
      <3> QED
        BY <3>1, <3>2
    <2> QED
      BY <1>5, <2>1, <2>2
  <1>11. CASE UNCHANGED vars
    BY <1>6, <1>11 DEF vars
  <1>12. CASE Next
    <2>1. ASSUME User PROVE ShownInv' /\ [Feed!Next]_(Feed!vars)
      BY <1>6, <1>7, <1>8, <2>1
      DEF User, OpenConnection, SelectConnection, Browse, OpenTab, Cancel,
          Deselect, CloseConnection
    <2>2. ASSUME NEW c \in Connections, KeepAlive(c) \/ EndThread(c)
          PROVE  ShownInv' /\ [Feed!Next]_(Feed!vars)
      BY <1>6, <2>2 DEF KeepAlive, EndThread
    <2>3. ASSUME NEW b \in Batches, Worker(b)
          PROVE  ShownInv' /\ [Feed!Next]_(Feed!vars)
      BY <1>3, <1>6, <1>10, <2>3
      DEF Worker, TakeTask, SendQuery, SendOnNullHandle, ExecuteQuery,
          CheckAbort, LeaveTask
    <2>4. ASSUME NEW s \in alive \cap Droppable, DropSession(s)
          PROVE  ShownInv' /\ [Feed!Next]_(Feed!vars)
      BY <1>6, <2>4 DEF DropSession
    <2> QED
      BY <1>9, <1>12, <2>1, <2>2, <2>3, <2>4 DEF Next
  <1> QED
    BY <1>11, <1>12

(* The threads and the two queues between a tab and its statements are        *)
(* invisible in what the tab shows: a result appears once, in the order of    *)
(* the statements, a run ends with nothing missing, and a late signal of      *)
(* another run or tab is not seen.                                          *)
THEOREM TabsImplementFeed == Spec => TabsFeedResults
  <1>1. Init => FeedInv /\ Feed!Init
    BY InitFeed
  <1>2. IInv /\ IInv' /\ FeedInv /\ [Next]_vars => FeedInv' /\ [Feed!Next]_(Feed!vars)
    BY FeedNext DEF IInv
  <1> QED
    BY <1>1, <1>2, IInvHolds, PTL DEF Spec, TabsFeedResults, Feed!Spec
=============================================================================
