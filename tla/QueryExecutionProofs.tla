------------------------ MODULE QueryExecutionProofs ------------------------
(***************************************************************************)
(* Theorems about QueryExecution, for every number of tabs, connections and *)
(* batches, every batch size and any number of sessions.  The invariants    *)
(* build on each other: types and the executor's position first, then the   *)
(* life of a task, then the sessions behind the handles, then the signals.  *)
(***************************************************************************)
EXTENDS QueryExecution, BatchExecutorLemmas

(* A running task is where QueryExecution lets others see it, with index    *)
(* naming the statement it is at; it has not begun before and stays         *)
(* returned after.                                                         *)
AtStatement(e) == e.pc \in {"pushed", "executing", "emit", "check"}

Placed(st, e) ==
    /\ st \in {"new", "posted", "discarded"} => e.pc = "idle"
    /\ st = "running" => AtStatement(e) \/ e.pc = "done"
    /\ st \in {"leaving", "returned"} => e.pc = "done"
    /\ AtStatement(e) => /\ Len(e.results) > 0
                         /\ Len(e.results) <= e.total
                         /\ e.index = Len(e.results) - 1

ExecutorInv == \A b \in Batches : Placed(state[b], ex[b])

TypeInv == TypeOK /\ ExecutorInv

(* A batch knows its connection from the moment it is posted.              *)
PostedInv ==
    /\ \A b \in Batches : state[b] # "new" => taskConn[b] \in Connections
    /\ \A b \in Batches : taskConn[b] # None => status[taskConn[b]] # "new"
    /\ active # None => status[active] = "open"

(* finished() is queued only by a task whose batch is over.                *)
FinishedInv ==
    \A i \in 1 .. Len(events) :
        /\ state[events[i].batch] \in {"running", "leaving", "returned"}
        /\ events[i].kind # "queryFinished" => state[events[i].batch] # "running"

LifeInv == PostedInv /\ FinishedInv /\ TaskKeptAlive

(* Sessions are numbered in the order of connecting, so neither a handle nor *)
(* the id a connection has cached names the session of another connection,   *)
(* ended or not.                                                           *)
KnownIdIsOwn ==
    \A c, d \in Connections :
        c # d /\ knownId[c] > 0 => session[d] # knownId[c]

SessionInv ==
    /\ \A c \in Connections : session[c] <= sessions /\ knownId[c] <= sessions
    /\ \A s \in alive : 1 <= s /\ s <= sessions
    /\ \A c, d \in Connections : c # d /\ session[c] > 0 => session[d] # session[c]
    /\ KnownIdIsOwn

(* The tab a task's signals go to is waiting for that task until finished() *)
(* has been delivered, and only finished() to the thread is queued behind.  *)
Waiting(b) == state[b] \in {"posted", "running"} \/ Pending("queriesFinished", b)

WaitedFor ==
    \A b \in Batches : listener[b] # None /\ Waiting(b) =>
        /\ listener[b] \in tabs
        /\ isRunning[listener[b]]
        /\ queriesTask[listener[b]] = b

FinishedOnce ==
    \A b \in Batches : state[b] = "running" => \A i \in 1 .. Len(events) :
        events[i].batch = b => events[i].kind = "queryFinished"

FinishedLast ==
    \A i, j \in 1 .. Len(events) :
        /\ i < j
        /\ events[i].batch = events[j].batch
        /\ events[i].kind # "queryFinished"
        => events[j].kind = "taskFinished"

CurrentTask ==
    /\ \A t \in Tabs : queriesTask[t] # None => /\ t \in tabs
                                                /\ listener[queriesTask[t]] = t
    /\ \A t \in Tabs : isRunning[t] => t \in tabs
    /\ \A b \in Batches : state[b] = "new" => listener[b] = None

SignalInv ==
    /\ WaitedFor
    /\ FinishedOnce
    /\ FinishedLast
    /\ CurrentTask
    /\ EventsMatchTask
    /\ RunningIsAccounted
-----------------------------------------------------------------------------
(* The executor between two points where another thread sees it.           *)

(* A run starts with its first statement pushed.                            *)
LEMMA StartStep ==
  ASSUME NEW e \in Executors, NEW n \in Nat \ {0}
  PROVE  LET f == Advance(Reset(e, n)) IN
         /\ f \in Executors
         /\ f.pc = "pushed"
         /\ Len(f.results) = 1
         /\ f.index = 0
         /\ f.total = n
  <1> DEFINE r == Reset(e, n)
  <1>1. /\ r \in Executors
        /\ r.pc = "next" /\ r.total = n /\ r.results = <<>> /\ r.index = 0
    BY ResetType
  <1> HIDE DEF r
  <1>2. HasNext(r)
    BY <1>1 DEF HasNext
  <1>3. Advance(r) = Push(r)
    BY <1>2 DEF Advance
  <1>4. /\ Push(r) \in Executors
        /\ Push(r).pc = "pushed"
        /\ Len(Push(r).results) = Len(r.results) + 1
        /\ Push(r).index = 0
        /\ Push(r).total = n
    BY <1>1, PushType DEF KeepsTotal
  <1>5. Len(r.results) = 0
    BY <1>1
  <1> QED
    BY <1>3, <1>4, <1>5 DEF r

(* After the flag is looked at, run() has returned or has pushed the next   *)
(* statement with the index on it.                                         *)
LEMMA CheckStep ==
  ASSUME NEW e \in Executors,
         Len(e.results) > 0, Len(e.results) <= e.total,
         e.index = Len(e.results) - 1
  PROVE  LET f == Advance(Check(e)) IN
         /\ f \in Executors
         /\ f.total = e.total
         /\ \/ f.pc = "done" /\ f.results = e.results
            \/ /\ f.pc = "pushed"
               /\ Len(f.results) = Len(e.results) + 1
               /\ Len(f.results) <= f.total
               /\ f.index = Len(e.results)
  <1> DEFINE d == Check(e)
  <1>0. /\ e.total \in Nat /\ e.index \in Nat /\ Len(e.results) \in Nat
        /\ e.aborted \in BOOLEAN
    BY FieldTypes
  <1>1. /\ d \in Executors
        /\ d.total = e.total
        /\ d.results = e.results
        /\ e.aborted \/ e.doBreak => d.pc = "done"
        /\ ~e.aborted /\ ~e.doBreak =>
             /\ d.pc = "next"
             /\ d.index = IF e.index = e.total - 1 THEN e.index ELSE e.index + 1
    <2>1. e.total > 0 /\ e.index < e.total
      BY <1>0
    <2> QED
      BY <2>1, CheckType DEF KeepsTotal
  <1> HIDE DEF d
  <1>2. CASE d.pc = "done"
    <2>1. Advance(d) = d
      BY <1>2 DEF Advance, HasNext, Finished
    <2> QED
      BY <2>1, <1>1, <1>2 DEF d
  <1>3. CASE d.pc = "next" /\ Len(e.results) = e.total
    <2>1. Advance(d) = Return(d)
      BY <1>0, <1>1, <1>3 DEF Advance, HasNext, Finished
    <2>2. /\ Return(d) \in Executors
          /\ Return(d).pc = "done"
          /\ Return(d).total = d.total /\ Return(d).results = d.results
      BY <1>1, MoveType DEF Return, ExecutorPC, KeepsTotal, KeepsPosition
    <2> QED
      BY <2>1, <2>2, <1>1 DEF d
  <1>4. CASE d.pc = "next" /\ Len(e.results) < e.total
    <2>1. Advance(d) = Push(d)
      BY <1>1, <1>4 DEF Advance, HasNext
    <2>2. /\ Push(d) \in Executors
          /\ Push(d).pc = "pushed"
          /\ Len(Push(d).results) = Len(d.results) + 1
          /\ Push(d).index = d.index
          /\ Push(d).total = d.total
      BY <1>1, PushType DEF KeepsTotal
    <2>3. d.index = Len(e.results)
      BY <1>0, <1>1, <1>4
    <2>4. Len(Push(d).results) <= Push(d).total
      BY <2>2, <1>0, <1>1, <1>4
    <2> QED
      BY <2>1, <2>2, <2>3, <2>4, <1>1 DEF d
  <1> QED
    BY <1>0, <1>1, <1>2, <1>3, <1>4
-----------------------------------------------------------------------------
(* The handle's operators.                                                 *)

HandleTypes(ses, id, al, n) ==
    /\ ses \in [Connections -> Nat \cup {Unconnected}]
    /\ id \in [Connections -> Nat \cup {NotFetched}]
    /\ al \subseteq Nat
    /\ n \in Nat

(* A ping and the fetch of the id after it leave the handles typed.         *)
LEMMA PingType ==
  ASSUME HandleTypes(session, knownId, alive, sessions),
         NEW c \in Connections, NEW ok \in BOOLEAN,
         PingReconnect(c, ok),
         FetchId(c, ok) \/ UNCHANGED knownId
  PROVE  HandleTypes(session', knownId', alive', sessions')
  <1> USE DEF HandleTypes, handleVars, NullHandle, Unconnected, NotFetched
  <1>1. /\ session' \in [Connections -> Nat \cup {Unconnected}]
        /\ alive' \subseteq Nat
        /\ sessions' \in Nat
    <2>1. CASE UNCHANGED handleVars
      BY <2>1
    <2>2. CASE Connect(c)
      BY <2>2 DEF Connect
    <2>3. CASE FailConnect(c)
      BY <2>3 DEF FailConnect
    <2> QED
      BY <2>1, <2>2, <2>3 DEF PingReconnect
  <1>2. knownId' \in [Connections -> Nat \cup {NotFetched}]
    BY <1>1 DEF FetchId
  <1> QED
    BY <1>1, <1>2

(* So does the cancel button.                                               *)
LEMMA KillType ==
  ASSUME TypeOK, NEW c \in Connections, KillQuery(c)
  PROVE  /\ HandleTypes(session', knownId', alive', sessions')
         /\ interrupted' \subseteq Batches
  <1>1. HandleTypes(session, knownId, alive, sessions)
    BY DEF TypeOK, HandleTypes
  <1>2. HandleTypes(session', knownId', alive', sessions')
    <2>1. CASE knownId[c] = NotFetched
      <3>1. PICK ok \in BOOLEAN : PingReconnect(c, ok) /\ FetchId(c, ok)
        BY <2>1 DEF KillQuery
      <3> QED
        BY <1>1, <3>1, PingType
    <2>2. CASE knownId[c] # NotFetched
      BY <1>1, <2>2 DEF KillQuery, handleVars
    <2> QED
      BY <2>1, <2>2
  <1>3. interrupted' \subseteq Batches
    BY DEF KillQuery, TypeOK
  <1> QED
    BY <1>2, <1>3

-----------------------------------------------------------------------------
(* Types and the executors' positions.                                     *)

(* The operators Send and Report move an executor to a named place.         *)
LEMMA MoveStep ==
  ASSUME NEW e \in Executors
  PROVE  /\ Send(e) \in Executors /\ Send(e).pc = "executing"
         /\ Report(e) \in Executors /\ Report(e).pc = "check"
         /\ \A f \in {Send(e), Report(e)} :
               f.total = e.total /\ f.results = e.results /\ f.index = e.index
  <1>1. /\ [e EXCEPT !.pc = "executing"] \in Executors
        /\ [e EXCEPT !.pc = "executing"].pc = "executing"
        /\ KeepsTotal(e, [e EXCEPT !.pc = "executing"])
        /\ KeepsPosition(e, [e EXCEPT !.pc = "executing"])
    BY MoveType DEF ExecutorPC
  <1>2. /\ [e EXCEPT !.pc = "check"] \in Executors
        /\ [e EXCEPT !.pc = "check"].pc = "check"
        /\ KeepsTotal(e, [e EXCEPT !.pc = "check"])
        /\ KeepsPosition(e, [e EXCEPT !.pc = "check"])
    BY MoveType DEF ExecutorPC
  <1> QED
    BY <1>1, <1>2 DEF Send, Report, KeepsTotal, KeepsPosition

(* The initial state is typed and no executor has been started.             *)
LEMMA InitType == Init => TypeInv
  <1> SUFFICES ASSUME Init PROVE TypeInv
    OBVIOUS
  <1>1. ASSUME NEW e \in NewExecutors PROVE e \in Executors /\ e.pc = "idle"
    <2>1. PICK garbage \in Uninitialised :
            e = [ pc |-> "idle", total |-> 0, results |-> <<>>, index |-> 0,
                  failedCount |-> 0, successCount |-> garbage, failed |-> FALSE,
                  aborted |-> FALSE, doBreak |-> FALSE ]
      BY DEF NewExecutors
    <2>2. garbage \in Int /\ <<>> \in Seq(Results)
      BY ExecutorAssumption
    <2> QED
      BY <2>1, <2>2 DEF Executors, ExecutorPC
  <1>2. ex \in [Batches -> Executors] /\ \A b \in Batches : ex[b].pc = "idle"
    BY <1>1 DEF Init
  <1>3. TypeOK
    <2>1. /\ resultsData \in [Tabs -> Seq(Nat)]
          /\ inbox \in [Connections -> Seq(Batches)]
          /\ events \in Seq(Event)
      BY DEF Init
    <2>2. /\ session \in [Connections -> Nat \cup {Unconnected}]
          /\ knownId \in [Connections -> Nat \cup {NotFetched}]
          /\ sessions \in Nat
      BY DEF Init, NullHandle, NotFetched, Unconnected
    <2> QED
      BY <1>2, <2>1, <2>2 DEF Init, TypeOK, Statuses, TaskStates
  <1>4. ExecutorInv
    BY <1>2 DEF Init, ExecutorInv, Placed, AtStatement
  <1> QED
    BY <1>3, <1>4 DEF TypeInv

(* A step of one running executor keeps the others where they are.          *)
LEMMA ExecutorStep ==
  ASSUME TypeOK, ExecutorInv, NEW b \in Batches, NEW f, NEW st,
         ex' = [ex EXCEPT ![b] = f], state' = [state EXCEPT ![b] = st],
         Placed(st, f)
  PROVE  ExecutorInv'
  BY DEF TypeOK, ExecutorInv

(* Every step preserves the types and the executors' positions.             *)
LEMMA NextType == TypeInv /\ [Next]_vars => TypeInv'
  <1> SUFFICES ASSUME TypeInv, [Next]_vars PROVE TypeInv'
    OBVIOUS
  <1> USE ExecutionAssumption
      DEF TypeInv, managerVars, tabVars, lifeVars, taskVars, threadVars,
          mainVars, handleVars, serverVars
  <1>1. ASSUME NEW c \in Connections, OpenConnection(c) PROVE TypeInv'
    <2>1. TypeOK'
      BY <1>1 DEF TypeOK, OpenConnection, Connect, Statuses
    <2>2. ExecutorInv'
      BY <1>1 DEF ExecutorInv, Placed, AtStatement, OpenConnection, TypeOK, TaskStates
    <2> QED
      BY <2>1, <2>2
  <1>2. ASSUME NEW c \in Connections, SelectConnection(c) PROVE TypeInv'
    <2>1. TypeOK'
      BY <1>2 DEF TypeOK, SelectConnection
    <2>2. ExecutorInv'
      BY <1>2 DEF ExecutorInv, Placed, AtStatement, SelectConnection, TypeOK,
                  TaskStates
    <2> QED
      BY <2>1, <2>2
  <1>3. ASSUME NEW t \in Tabs, OpenTab(t) PROVE TypeInv'
    <2>1. TypeOK'
      BY <1>3 DEF TypeOK, OpenTab
    <2>2. ExecutorInv'
      BY <1>3 DEF ExecutorInv, Placed, AtStatement, OpenTab, TypeOK, TaskStates
    <2> QED
      BY <2>1, <2>2
  <1>4. ASSUME NEW t \in Tabs, CloseTab(t) PROVE TypeInv'
    <2>1. TypeOK'
      BY <1>4 DEF TypeOK, CloseTab
    <2>2. ExecutorInv'
      BY <1>4 DEF ExecutorInv, Placed, AtStatement, CloseTab, TypeOK, TaskStates
    <2> QED
      BY <2>1, <2>2
  <1>5. ASSUME NEW c \in Connections, EndThread(c) PROVE TypeInv'
    <2>1. TypeOK'
      <3>1. state' \in [Batches -> TaskStates]
        BY <1>5 DEF TypeOK, EndThread, TaskStates
      <3>2. inbox' \in [Connections -> Seq(Batches)]
        BY <1>5 DEF TypeOK, EndThread
      <3>3. /\ owned' \in [Connections -> SUBSET Batches]
            /\ session' \in [Connections -> Nat \cup {Unconnected}]
            /\ alive' \subseteq Nat
        BY <1>5 DEF TypeOK, EndThread, NullHandle
      <3> QED
        BY <1>5, <3>1, <3>2, <3>3 DEF TypeOK, EndThread
    <2>2. ExecutorInv'
      BY <1>5 DEF ExecutorInv, Placed, AtStatement, EndThread, TypeOK, TaskStates
    <2> QED
      BY <2>1, <2>2
  <1>6. ASSUME NEW c \in Connections, KeepAlive(c) PROVE TypeInv'
    <2>1. TypeOK'
      BY <1>6 DEF TypeOK, KeepAlive, NullHandle
    <2>2. ExecutorInv'
      BY <1>6 DEF ExecutorInv, Placed, AtStatement, KeepAlive, TypeOK, TaskStates
    <2> QED
      BY <2>1, <2>2
  <1>7. ASSUME CloseConnection PROVE TypeInv'
    <2>1. TypeOK'
      BY <1>7 DEF TypeOK, CloseConnection, Statuses
    <2>2. ExecutorInv'
      BY <1>7 DEF ExecutorInv, Placed, AtStatement, CloseConnection
    <2> QED
      BY <2>1, <2>2
  <1>8. ASSUME NEW t \in Tabs, NEW b \in Batches, Exec(t, b) PROVE TypeInv'
    <2>1. active \in Connections
      BY <1>8 DEF Exec, TypeOK
    <2>2. PICK ok \in BOOLEAN :
            /\ PingReconnect(active, ok)
            /\ IF ok THEN FetchId(active, ok) ELSE UNCHANGED knownId
      BY <1>8 DEF Exec
    <2>3. HandleTypes(session', knownId', alive', sessions')
      BY <2>1, <2>2, PingType DEF TypeOK, HandleTypes
    <2>4. /\ isRunning' \in [Tabs -> BOOLEAN]
          /\ lastConn' \in [Tabs -> Connections \cup {None}]
          /\ queriesTask' \in [Tabs -> Batches \cup {None}]
          /\ resultsData' \in [Tabs -> Seq(Nat)]
          /\ state' \in [Batches -> TaskStates]
          /\ taskConn' \in [Batches -> Connections \cup {None}]
          /\ listener' \in [Batches -> Tabs \cup {None}]
          /\ inbox' \in [Connections -> Seq(Batches)]
          /\ owned' \in [Connections -> SUBSET Batches]
      BY <1>8, <2>1 DEF Exec, TypeOK, TaskStates
    <2>5. TypeOK'
      BY <1>8, <2>3, <2>4 DEF Exec, TypeOK, HandleTypes
    <2>6. ExecutorInv'
      BY <1>8 DEF ExecutorInv, Placed, AtStatement, Exec, TypeOK
    <2> QED
      BY <2>5, <2>6
  <1>9. ASSUME NEW t \in Tabs, Cancel(t) PROVE TypeInv'
    <2> DEFINE q == queriesTask[t]
               f == Abort(ex[q])
    <2>1. HandleTypes(session', knownId', alive', sessions')
          /\ interrupted' \subseteq Batches
      <3>1. CASE lastConn[t] = None
        BY <1>9, <3>1 DEF Cancel, TypeOK, HandleTypes
      <3>2. CASE lastConn[t] # None
        <4>1. lastConn[t] \in Connections /\ KillQuery(lastConn[t])
          BY <1>9, <3>2 DEF Cancel, TypeOK
        <4> QED
          BY <4>1, KillType
      <3> QED
        BY <3>1, <3>2
    <2>2. ex' = [ex EXCEPT ![q] = f]
      BY <1>9 DEF Cancel
    <2>3. q \in Batches => /\ f \in Executors
                           /\ f.pc = ex[q].pc /\ f.total = ex[q].total
                           /\ f.results = ex[q].results /\ f.index = ex[q].index
      BY AbortType DEF TypeOK, KeepsTotal, KeepsPosition
    <2> HIDE DEF q, f
    <2>4. ex' \in [Batches -> Executors]
      BY <2>2, <2>3 DEF TypeOK
    <2>5. TypeOK'
      BY <1>9, <2>1, <2>4 DEF Cancel, TypeOK, HandleTypes
    <2>6. ExecutorInv'
      <3>1. CASE q \in Batches
        <4>1. Placed(state[q], f)
          BY <2>3, <3>1 DEF ExecutorInv, Placed, AtStatement
        <4>2. state' = [state EXCEPT ![q] = state[q]]
          BY <1>9 DEF Cancel, TypeOK
        <4> QED
          BY <2>2, <3>1, <4>1, <4>2, ExecutorStep
      <3>2. CASE q \notin Batches
        <4>1. ex' = ex /\ state' = state
          BY <1>9, <2>2, <3>2 DEF Cancel, TypeOK
        <4> QED
          BY <4>1 DEF ExecutorInv
      <3> QED
        BY <3>1, <3>2
    <2> QED
      BY <2>5, <2>6
  <1>10. ASSUME Deliver PROVE TypeInv'
    <2> DEFINE e == Head(events)
               t == listener[e.batch]
    <2>1. e \in Event /\ Tail(events) \in Seq(Event)
      BY <1>10 DEF Deliver, TypeOK
    <2>2. /\ e.batch \in Batches /\ e.index \in Nat
          /\ t \in Tabs \cup {None} /\ taskConn[e.batch] \in Connections \cup {None}
      BY <2>1 DEF Event, TypeOK
    <2>3. \/ t # None /\ OnQueryFinished(t, e.index)
          \/ t # None /\ OnQueriesFinished(t)
          \/ OnTaskFinished(taskConn[e.batch], e.batch)
          \/ DropSignal
      BY <1>10 DEF Deliver
    <2> HIDE DEF e, t
    <2>4. /\ isRunning' \in [Tabs -> BOOLEAN]
          /\ resultsData' \in [Tabs -> Seq(Nat)]
          /\ owned' \in [Connections -> SUBSET Batches]
      <3>1. CASE t # None /\ OnQueryFinished(t, e.index)
        BY <2>2, <3>1 DEF OnQueryFinished, TypeOK
      <3>2. CASE t # None /\ OnQueriesFinished(t)
        BY <2>2, <3>2 DEF OnQueriesFinished, TypeOK
      <3>3. CASE OnTaskFinished(taskConn[e.batch], e.batch)
        BY <2>2, <3>3 DEF OnTaskFinished, TypeOK
      <3>4. CASE DropSignal
        BY <3>4 DEF DropSignal, TypeOK
      <3> QED
        BY <2>3, <3>1, <3>2, <3>3, <3>4
    <2>5. TypeOK'
      BY <1>10, <2>1, <2>4 DEF Deliver, TypeOK, e
    <2>6. ExecutorInv'
      BY <1>10 DEF ExecutorInv, Placed, AtStatement, Deliver
    <2> QED
      BY <2>5, <2>6
  <1>11. ASSUME NEW b \in Batches, TakeTask(b) PROVE TypeInv'
    <2> DEFINE f == Advance(Reset(ex[b], Size[b]))
    <2>1. ex' = [ex EXCEPT ![b] = f]
      BY <1>11 DEF TakeTask
    <2>2. /\ f \in Executors /\ f.pc = "pushed" /\ Len(f.results) = 1
          /\ f.index = 0 /\ f.total = Size[b] /\ Size[b] \in Nat \ {0}
      BY StartStep DEF TypeOK
    <2> HIDE DEF f
    <2>3. inbox' \in [Connections -> Seq(Batches)]
      <3>1. CASE taskConn[b] \in Connections
        <4>1. Tail(inbox[taskConn[b]]) \in Seq(Batches)
          BY <1>11, <3>1 DEF TakeTask, TypeOK
        <4> QED
          BY <1>11, <4>1 DEF TakeTask, TypeOK
      <3>2. CASE taskConn[b] = None
        BY <1>11, <3>2 DEF TakeTask, TypeOK
      <3> QED
        BY <3>1, <3>2 DEF TypeOK
    <2>4. TypeOK'
      BY <1>11, <2>1, <2>2, <2>3 DEF TakeTask, TypeOK, TaskStates
    <2>5. ExecutorInv'
      <3>1. Placed("running", f)
        BY <1>11, <2>1, <2>2 DEF TakeTask, ExecutorInv, Placed, AtStatement
      <3>2. state' = [state EXCEPT ![b] = "running"]
        BY <1>11 DEF TakeTask, TypeOK
      <3> QED
        BY <3>1, <3>2, <2>1, ExecutorStep
    <2> QED
      BY <2>4, <2>5
  <1>12. ASSUME NEW b \in Batches, SendQuery(b) PROVE TypeInv'
    <2> DEFINE f == Send(ex[b])
    <2>1. ex' = [ex EXCEPT ![b] = f]
      BY <1>12 DEF SendQuery
    <2>2. /\ f \in Executors /\ f.pc = "executing" /\ f.results = ex[b].results
          /\ f.index = ex[b].index /\ f.total = ex[b].total
      BY MoveStep DEF TypeOK
    <2> HIDE DEF f
    <2>3. TypeOK'
      BY <1>12, <2>1, <2>2 DEF SendQuery, TypeOK
    <2>4. ExecutorInv'
      <3>1. Placed("running", f)
        BY <1>12, <2>1, <2>2 DEF SendQuery, ExecutorInv, Placed, AtStatement
      <3>2. state' = [state EXCEPT ![b] = "running"]
        BY <1>12 DEF SendQuery, TypeOK
      <3> QED
        BY <3>1, <3>2, <2>1, ExecutorStep
    <2> QED
      BY <2>3, <2>4
  <1>13. ASSUME NEW b \in Batches, SendOnNullHandle(b) PROVE TypeInv'
    <2>1. TypeOK'
      BY <1>13 DEF SendOnNullHandle, TypeOK
    <2>2. ExecutorInv'
      BY <1>13 DEF ExecutorInv, Placed, AtStatement, SendOnNullHandle
    <2> QED
      BY <2>1, <2>2
  <1>14. ASSUME NEW b \in Batches, ExecuteQuery(b) PROVE TypeInv'
    <2>1. PICK outcome \in Outcomes :
            ex' = [ex EXCEPT ![b] = Executed(ex[b], outcome)]
      BY <1>14 DEF ExecuteQuery, Outcomes
    <2> DEFINE f == Executed(ex[b], outcome)
    <2>2. Len(ex[b].results) > 0
      BY <1>14 DEF ExecutorInv, Placed, AtStatement, ExecuteQuery, Executing
    <2>3. /\ f \in Executors /\ f.pc = "emit" /\ Len(f.results) = Len(ex[b].results)
          /\ f.index = ex[b].index /\ f.total = ex[b].total
      BY <2>2, ExecutedType DEF TypeOK
    <2>4. ex' = [ex EXCEPT ![b] = f]
      BY <2>1
    <2> HIDE DEF f
    <2>5. TypeOK'
      BY <1>14, <2>3, <2>4 DEF ExecuteQuery, TypeOK
    <2>6. ExecutorInv'
      <3>1. Placed("running", f)
        BY <1>14, <2>3, <2>4 DEF ExecuteQuery, Executing, ExecutorInv, Placed, AtStatement
      <3>2. state' = [state EXCEPT ![b] = "running"]
        BY <1>14 DEF ExecuteQuery, Executing, TypeOK
      <3> QED
        BY <3>1, <3>2, <2>4, ExecutorStep
    <2> QED
      BY <2>5, <2>6
  <1>15. ASSUME NEW b \in Batches, ReportQuery(b) PROVE TypeInv'
    <2> DEFINE f == Report(ex[b])
    <2>1. ex' = [ex EXCEPT ![b] = f]
      BY <1>15 DEF ReportQuery
    <2>2. /\ f \in Executors /\ f.pc = "check" /\ f.results = ex[b].results
          /\ f.index = ex[b].index /\ f.total = ex[b].total
      BY MoveStep DEF TypeOK
    <2> HIDE DEF f
    <2>3. Signal("queryFinished", b, ex[b].index) \in Event
      BY FieldTypes DEF Signal, Event, TypeOK
    <2>4. events' \in Seq(Event)
      BY <1>15, <2>3 DEF ReportQuery, TypeOK
    <2>5. TypeOK'
      BY <1>15, <2>1, <2>2, <2>4 DEF ReportQuery, TypeOK
    <2>6. ExecutorInv'
      <3>1. Placed("running", f)
        BY <1>15, <2>1, <2>2 DEF ReportQuery, ExecutorInv, Placed, AtStatement
      <3>2. state' = [state EXCEPT ![b] = "running"]
        BY <1>15 DEF ReportQuery, TypeOK
      <3> QED
        BY <3>1, <3>2, <2>1, ExecutorStep
    <2> QED
      BY <2>5, <2>6
  <1>16. ASSUME NEW b \in Batches, CheckAbort(b) PROVE TypeInv'
    <2> DEFINE f == Advance(Check(ex[b]))
    <2>1. ex' = [ex EXCEPT ![b] = f]
      BY <1>16 DEF CheckAbort
    <2>2. /\ Len(ex[b].results) > 0 /\ Len(ex[b].results) <= ex[b].total
          /\ ex[b].index = Len(ex[b].results) - 1 /\ Len(ex[b].results) \in Nat
      BY <1>16, FieldTypes DEF ExecutorInv, Placed, AtStatement, CheckAbort, TypeOK
    <2>3. /\ f \in Executors
          /\ f.total = ex[b].total
          /\ \/ f.pc = "done" /\ f.results = ex[b].results
             \/ /\ f.pc = "pushed"
                /\ Len(f.results) = Len(ex[b].results) + 1
                /\ Len(f.results) <= f.total
                /\ f.index = Len(ex[b].results)
      BY <2>2, CheckStep DEF TypeOK
    <2> HIDE DEF f
    <2>4. TypeOK'
      BY <1>16, <2>1, <2>3 DEF CheckAbort, TypeOK
    <2>5. ExecutorInv'
      <3>1. Placed("running", f)
        BY <1>16, <2>1, <2>2, <2>3 DEF CheckAbort, ExecutorInv, Placed, AtStatement
      <3>2. state' = [state EXCEPT ![b] = "running"]
        BY <1>16 DEF CheckAbort, TypeOK
      <3> QED
        BY <3>1, <3>2, <2>1, ExecutorStep
    <2> QED
      BY <2>4, <2>5
  <1>17. ASSUME NEW b \in Batches, EmitFinished(b) PROVE TypeInv'
    <2>1. /\ Signal("queriesFinished", b, 0) \in Event
          /\ Signal("taskFinished", b, 0) \in Event
      BY DEF Signal, Event
    <2>2. events' \in Seq(Event)
      BY <1>17, <2>1 DEF EmitFinished, TypeOK
    <2>3. TypeOK'
      BY <1>17, <2>2 DEF EmitFinished, TypeOK, TaskStates
    <2>4. ExecutorInv'
      BY <1>17 DEF ExecutorInv, Placed, AtStatement, EmitFinished, TypeOK
    <2> QED
      BY <2>3, <2>4
  <1>18. ASSUME NEW b \in Batches, LeaveTask(b) PROVE TypeInv'
    <2>1. TypeOK'
      BY <1>18 DEF LeaveTask, TypeOK, TaskStates
    <2>2. ExecutorInv'
      BY <1>18 DEF ExecutorInv, Placed, AtStatement, LeaveTask, TypeOK
    <2> QED
      BY <2>1, <2>2
  <1>19. ASSUME NEW s \in alive, DropSession(s) PROVE TypeInv'
    <2>1. TypeOK'
      BY <1>19 DEF DropSession, TypeOK
    <2>2. ExecutorInv'
      BY <1>19 DEF ExecutorInv, Placed, AtStatement, DropSession
    <2> QED
      BY <2>1, <2>2
  <1>20. ASSUME UNCHANGED vars PROVE TypeInv'
    BY <1>20 DEF vars, TypeOK, ExecutorInv
  <1>21. ASSUME Deselect PROVE TypeInv'
    <2>1. TypeOK'
      BY <1>21 DEF TypeOK, Deselect
    <2>2. ExecutorInv'
      BY <1>21 DEF ExecutorInv, Placed, AtStatement, Deselect
    <2> QED
      BY <2>1, <2>2
  <1>22. ASSUME NEW c \in Connections, Browse(c) PROVE TypeInv'
    <2>1. PICK ok \in BOOLEAN : PingReconnect(c, ok)
      BY <1>22 DEF Browse
    <2>2. HandleTypes(session', knownId', alive', sessions')
      BY <1>22, <2>1, PingType DEF TypeOK, HandleTypes, Browse
    <2>3. TypeOK'
      BY <1>22, <2>2 DEF Browse, TypeOK, HandleTypes
    <2>4. ExecutorInv'
      BY <1>22 DEF ExecutorInv, Placed, AtStatement, Browse
    <2> QED
      BY <2>3, <2>4
  <1> QED
    BY <1>1, <1>2, <1>3, <1>4, <1>5, <1>6, <1>7, <1>8, <1>9, <1>10, <1>11,
       <1>12, <1>13, <1>14, <1>15, <1>16, <1>17, <1>18, <1>19, <1>20, <1>21, <1>22
    DEF Next, User, Worker
-----------------------------------------------------------------------------
(* The life of a task.                                                     *)

(* The queue after the two finished() signals have been appended.           *)
LEMMA TwoAppended ==
  ASSUME NEW S, NEW q \in Seq(S), NEW a \in S, NEW b \in S
  PROVE  /\ Len(q \o <<a, b>>) = Len(q) + 2
         /\ \A i \in 1 .. Len(q) : (q \o <<a, b>>)[i] = q[i]
         /\ (q \o <<a, b>>)[Len(q) + 1] = a
         /\ (q \o <<a, b>>)[Len(q) + 2] = b
  <1>1. <<a, b>> \in Seq(S) /\ Len(<<a, b>>) = 2
    OBVIOUS
  <1> DEFINE r == <<a, b>>
  <1>2. r[1] = a /\ r[2] = b
    OBVIOUS
  <1> HIDE DEF r
  <1> QED
    BY <1>1, <1>2 DEF r

(* What the places of the longer sequence hold.                             *)
LEMMA TwoAppendedAt ==
  ASSUME NEW S, NEW q \in Seq(S), NEW a \in S, NEW b \in S,
         NEW r, r = q \o <<a, b>>
  PROVE  /\ Len(q) \in Nat /\ Len(r) = Len(q) + 2
         /\ \A i \in 1 .. Len(r) :
               \/ i \in 1 .. Len(q) /\ r[i] = q[i]
               \/ i = Len(q) + 1 /\ r[i] = a
               \/ i = Len(q) + 2 /\ r[i] = b
  <1>1. /\ Len(r) = Len(q) + 2
        /\ \A i \in 1 .. Len(q) : r[i] = q[i]
        /\ r[Len(q) + 1] = a
        /\ r[Len(q) + 2] = b
    BY TwoAppended
  <1>2. Len(q) \in Nat
    OBVIOUS
  <1> QED
    BY <1>1, <1>2

(* The queue after a signal has been taken from its head.                   *)
LEMMA TailEvents ==
  ASSUME TypeOK, events # <<>>, events' = Tail(events)
  PROVE  /\ Len(events) \in Nat /\ Len(events') = Len(events) - 1
         /\ \A i \in 1 .. Len(events') :
               i + 1 \in 1 .. Len(events) /\ events'[i] = events[i + 1]
  BY DEF TypeOK

(* Every queued signal names a batch.                                       *)
LEMMA EventTypes ==
  ASSUME TypeOK
  PROVE  \A i \in 1 .. Len(events) : /\ events[i].batch \in Batches
                                     /\ events[i].index \in Nat
  <1> SUFFICES ASSUME NEW i \in 1 .. Len(events)
               PROVE  events[i].batch \in Batches /\ events[i].index \in Nat
    OBVIOUS
  <1>1. events[i] \in Event
    BY DEF TypeOK
  <1> QED
    BY <1>1 DEF Event

(* Nothing has been posted initially.                                      *)
LEMMA InitLife == Init => LifeInv
  BY DEF Init, LifeInv, PostedInv, FinishedInv, TaskKeptAlive

(* Every step preserves the facts about the life of tasks.                  *)
LEMMA NextLife == TypeInv /\ LifeInv /\ [Next]_vars => LifeInv'
  <1> SUFFICES ASSUME TypeOK, LifeInv, [Next]_vars PROVE LifeInv'
    BY DEF TypeInv
  <1> USE ExecutionAssumption
      DEF LifeInv, managerVars, tabVars, lifeVars, taskVars, threadVars,
          mainVars, handleVars, serverVars
  <1>1. ASSUME UNCHANGED <<status, active, state, taskConn, owned, events>>
        PROVE  LifeInv'
    BY <1>1 DEF PostedInv, FinishedInv, TaskKeptAlive
  <1>2. ASSUME NEW c \in Connections, OpenConnection(c) PROVE LifeInv'
    <2>1. PostedInv'
      BY <1>2 DEF OpenConnection, PostedInv, TypeOK
    <2> QED
      BY <1>2, <2>1 DEF OpenConnection, FinishedInv, TaskKeptAlive
  <1>3. ASSUME Deselect \/ \E c \in Connections : SelectConnection(c)
        PROVE  LifeInv'
    BY <1>3 DEF SelectConnection, Deselect, PostedInv, FinishedInv, TaskKeptAlive
  <1>4. ASSUME CloseConnection PROVE LifeInv'
    <2>1. PostedInv'
      BY <1>4 DEF CloseConnection, PostedInv, TypeOK
    <2> QED
      BY <1>4, <2>1 DEF CloseConnection, FinishedInv, TaskKeptAlive
  <1>5. ASSUME NEW t \in Tabs, NEW b \in Batches, Exec(t, b) PROVE LifeInv'
    <2>1. active \in Connections /\ status[active] = "open"
      BY <1>5 DEF Exec, PostedInv, TypeOK
    <2>2. PostedInv'
      BY <1>5, <2>1 DEF Exec, PostedInv, TypeOK
    <2>3. FinishedInv'
      BY <1>5, EventTypes DEF Exec, FinishedInv, TypeOK
    <2>4. TaskKeptAlive'
      BY <1>5, <2>1 DEF Exec, TaskKeptAlive, PostedInv, TypeOK
    <2> QED
      BY <2>2, <2>3, <2>4
  <1>6. ASSUME NEW c \in Connections, EndThread(c) PROVE LifeInv'
    <2>1. PostedInv'
      BY <1>6 DEF EndThread, PostedInv, TypeOK
    <2>2. FinishedInv'
      BY <1>6, EventTypes DEF EndThread, FinishedInv, TypeOK
    <2>3. TaskKeptAlive'
      <3> SUFFICES ASSUME NEW b \in Batches, state'[b] \in {"posted", "running"}
                   PROVE  b \in owned'[taskConn'[b]]
        BY DEF TaskKeptAlive
      <3>1. state[b] = state'[b] /\ taskConn[b] # c
        BY <1>6 DEF EndThread, Idle, Runs
      <3>2. taskConn'[b] = taskConn[b] /\ taskConn[b] \in Connections
        BY <1>6, <3>1 DEF EndThread, PostedInv
      <3> QED
        BY <1>6, <3>1, <3>2 DEF EndThread, TaskKeptAlive, TypeOK
    <2> QED
      BY <2>1, <2>2, <2>3
  <1>7. ASSUME Deliver PROVE LifeInv'
    <2>1. PostedInv'
      BY <1>7 DEF Deliver, PostedInv
    <2>2. FinishedInv'
      <3>1. \A i \in 1 .. Len(events') :
               i + 1 \in 1 .. Len(events) /\ events'[i] = events[i + 1]
        BY <1>7, TailEvents DEF Deliver
      <3> QED
        BY <1>7, <3>1 DEF Deliver, FinishedInv
    <2>3. TaskKeptAlive'
      <3> DEFINE e == Head(events)
      <3>1. e = events[1] /\ 1 \in 1 .. Len(events)
        BY <1>7 DEF Deliver, TypeOK
      <3>2. CASE owned' = owned
        BY <1>7, <3>2 DEF Deliver, TaskKeptAlive
      <3>3. CASE /\ e.kind = "taskFinished"
                 /\ OnTaskFinished(taskConn[e.batch], e.batch)
        <4>1. state[e.batch] \notin {"posted", "running"}
          BY <3>1, <3>3 DEF FinishedInv
        <4> HIDE DEF e
        <4> QED
          BY <1>7, <3>3, <4>1 DEF Deliver, OnTaskFinished, TaskKeptAlive, TypeOK
      <3> QED
        BY <1>7, <3>2, <3>3
        DEF Deliver, OnQueryFinished, OnQueriesFinished, DropSignal
    <2> QED
      BY <2>1, <2>2, <2>3
  <1>8. ASSUME NEW b \in Batches, TakeTask(b) PROVE LifeInv'
    <2>1. PostedInv'
      BY <1>8 DEF TakeTask, PostedInv, TypeOK
    <2>2. FinishedInv'
      BY <1>8, EventTypes DEF TakeTask, FinishedInv, TypeOK
    <2>3. TaskKeptAlive'
      BY <1>8 DEF TakeTask, TaskKeptAlive, TypeOK
    <2> QED
      BY <2>1, <2>2, <2>3
  <1>9. ASSUME NEW b \in Batches, ReportQuery(b) PROVE LifeInv'
    <2> DEFINE e == Signal("queryFinished", b, ex[b].index)
    <2>1. events' = Append(events, e) /\ e.kind = "queryFinished" /\ e.batch = b
      BY <1>9 DEF ReportQuery, Signal
    <2> HIDE DEF e
    <2>2. \A i \in 1 .. Len(events') :
             events'[i] = IF i <= Len(events) THEN events[i] ELSE e
      BY <2>1 DEF TypeOK
    <2>3. FinishedInv'
      BY <1>9, <2>1, <2>2 DEF ReportQuery, FinishedInv, TypeOK
    <2> QED
      BY <1>9, <2>3 DEF ReportQuery, PostedInv, TaskKeptAlive
  <1>10. ASSUME NEW b \in Batches, EmitFinished(b) PROVE LifeInv'
    <2> DEFINE e == Signal("queriesFinished", b, 0)
               f == Signal("taskFinished", b, 0)
    <2>1. /\ events' = events \o <<e, f>>
          /\ e.batch = b /\ f.batch = b
          /\ e \in Event /\ f \in Event
      BY <1>10 DEF EmitFinished, Signal, Event
    <2> HIDE DEF e, f
    <2>2. \A i \in 1 .. Len(events') :
             \/ i \in 1 .. Len(events) /\ events'[i] = events[i]
             \/ events'[i] = e
             \/ events'[i] = f
      <3>1. events \in Seq(Event)
        BY DEF TypeOK
      <3> QED
        BY <2>1, <3>1, TwoAppendedAt
    <2>3. FinishedInv'
      <3>1. state' = [state EXCEPT ![b] = "leaving"] /\ state[b] = "running"
        BY <1>10 DEF EmitFinished
      <3> SUFFICES ASSUME NEW i \in 1 .. Len(events')
                   PROVE  state'[events'[i].batch] \in {"leaving", "returned"} \/
                          /\ state'[events'[i].batch] = "running"
                          /\ events'[i].kind = "queryFinished"
        BY DEF FinishedInv
      <3>2. CASE i \in 1 .. Len(events) /\ events'[i] = events[i]
        BY <3>1, <3>2, EventTypes DEF FinishedInv, TypeOK
      <3>3. CASE events'[i] = e \/ events'[i] = f
        BY <2>1, <3>1, <3>3 DEF TypeOK
      <3> QED
        BY <2>2, <3>2, <3>3
    <2>4. PostedInv'
      BY <1>10 DEF EmitFinished, PostedInv, TypeOK
    <2>5. TaskKeptAlive'
      BY <1>10 DEF EmitFinished, TaskKeptAlive, TypeOK
    <2> QED
      BY <2>3, <2>4, <2>5
  <1>11. ASSUME NEW b \in Batches, LeaveTask(b) PROVE LifeInv'
    <2>1. PostedInv'
      BY <1>11 DEF LeaveTask, PostedInv, TypeOK
    <2>2. FinishedInv'
      BY <1>11, EventTypes DEF LeaveTask, FinishedInv, TypeOK
    <2>3. TaskKeptAlive'
      BY <1>11 DEF LeaveTask, TaskKeptAlive, TypeOK
    <2> QED
      BY <2>1, <2>2, <2>3
  <1>12. ASSUME NEW t \in Tabs, OpenTab(t) \/ CloseTab(t) \/ Cancel(t)
         PROVE  LifeInv'
    BY <1>1, <1>12 DEF OpenTab, CloseTab, Cancel
  <1>13. ASSUME NEW b \in Batches,
                SendQuery(b) \/ SendOnNullHandle(b) \/ ExecuteQuery(b) \/ CheckAbort(b)
         PROVE  LifeInv'
    BY <1>1, <1>13 DEF SendQuery, SendOnNullHandle, ExecuteQuery, CheckAbort
  <1>14. ASSUME NEW c \in Connections, KeepAlive(c) \/ Browse(c) PROVE LifeInv'
    BY <1>1, <1>14 DEF KeepAlive, Browse
  <1>15. ASSUME NEW s \in alive, DropSession(s) PROVE LifeInv'
    BY <1>1, <1>15 DEF DropSession
  <1>16. ASSUME UNCHANGED vars PROVE LifeInv'
    BY <1>1, <1>16 DEF vars
  <1> QED
    BY <1>2, <1>3, <1>4, <1>5, <1>6, <1>7, <1>8, <1>9, <1>10, <1>11, <1>12,
       <1>13, <1>14, <1>15, <1>16 DEF Next, User, Worker
-----------------------------------------------------------------------------
(* The sessions behind the handles.                                        *)

(* Handles and ids are integers.                                            *)
IdTypes == /\ session \in [Connections -> Int] /\ knownId \in [Connections -> Int]
           /\ alive \subseteq Nat /\ sessions \in Nat

(* The fields that the facts about sessions use are typed.                   *)
LEMMA TypeIds == TypeOK => IdTypes
  BY DEF TypeOK, IdTypes, Unconnected, NotFetched

(* A reconnection and the fetch of the id keep sessions apart.              *)
LEMMA PingSession ==
  ASSUME TypeOK, SessionInv, NEW c \in Connections, NEW ok \in BOOLEAN,
         PingReconnect(c, ok),
         FetchId(c, ok) \/ UNCHANGED knownId
  PROVE  SessionInv'
  <1> USE DEF handleVars, NullHandle
  <1>1. IdTypes
    BY TypeIds
  <1>2. IdTypes'
    <2>1. HandleTypes(session', knownId', alive', sessions')
      BY PingType DEF HandleTypes, TypeOK
    <2> QED
      BY <2>1 DEF HandleTypes, IdTypes, Unconnected, NotFetched
  <1> DEFINE Apart == /\ \A d \in Connections : session'[d] <= sessions'
                      /\ \A s \in alive' : 1 <= s /\ s <= sessions'
                      /\ sessions <= sessions'
                      /\ \A d, e \in Connections :
                           d # e /\ session'[d] > 0 => session'[e] # session'[d]
                      /\ \A d, e \in Connections :
                           d # e /\ knownId[d] > 0 => session'[e] # knownId[d]
  <1>3. Apart
    <2>1. CASE UNCHANGED handleVars
      BY <1>1, <2>1 DEF IdTypes, SessionInv, KnownIdIsOwn
    <2>2. CASE Connect(c)
      BY <1>1, <2>2 DEF Connect, IdTypes, SessionInv, KnownIdIsOwn
    <2>3. CASE FailConnect(c)
      <3>1. PICK h \in {0, -1} : session' = [session EXCEPT ![c] = h]
        BY <2>3 DEF FailConnect, Unconnected
      <3> QED
        BY <1>1, <2>3, <3>1 DEF FailConnect, IdTypes, SessionInv, KnownIdIsOwn
    <2> QED
      BY <2>1, <2>2, <2>3 DEF PingReconnect
  <1>4. knownId' = knownId \/ \E id \in {session'[c], 0} :
                                  knownId' = [knownId EXCEPT ![c] = id]
    BY DEF FetchId
  <1>5. \A d \in Connections : knownId'[d] <= sessions'
    <2>1. \A d \in Connections : knownId[d] <= sessions'
      BY <1>1, <1>2, <1>3 DEF SessionInv, IdTypes
    <2> QED
      BY <1>1, <1>2, <1>3, <1>4, <2>1 DEF IdTypes
  <1>6. \A d, e \in Connections : d # e /\ knownId'[d] > 0 => session'[e] # knownId'[d]
    BY <1>1, <1>2, <1>3, <1>4 DEF IdTypes
  <1> QED
    BY <1>3, <1>5, <1>6 DEF SessionInv, KnownIdIsOwn

(* There is no session initially.                                          *)
LEMMA InitSession == Init => SessionInv
  BY DEF Init, SessionInv, KnownIdIsOwn, NullHandle, NotFetched

(* Every step keeps sessions, handles and cached ids apart.                 *)
LEMMA NextSession == TypeInv /\ SessionInv /\ [Next]_vars => SessionInv'
  <1> SUFFICES ASSUME TypeOK, SessionInv, [Next]_vars PROVE SessionInv'
    BY DEF TypeInv
  <1> USE ExecutionAssumption
      DEF managerVars, tabVars, lifeVars, taskVars, threadVars, mainVars,
          handleVars, serverVars
  <1>1. ASSUME UNCHANGED <<session, knownId, alive, sessions>> PROVE SessionInv'
    BY <1>1 DEF SessionInv, KnownIdIsOwn
  <1>2. ASSUME NEW c \in Connections, OpenConnection(c) PROVE SessionInv'
    BY <1>2, TypeIds DEF OpenConnection, Connect, SessionInv, KnownIdIsOwn, IdTypes
  <1>3. ASSUME NEW t \in Tabs, NEW b \in Batches, Exec(t, b) PROVE SessionInv'
    <2>1. active \in Connections
      BY <1>3 DEF Exec, TypeOK
    <2>2. PICK ok \in BOOLEAN :
            /\ PingReconnect(active, ok)
            /\ FetchId(active, ok) \/ UNCHANGED knownId
      BY <1>3 DEF Exec
    <2> QED
      BY <2>1, <2>2, PingSession
  <1>4. ASSUME NEW t \in Tabs, Cancel(t) PROVE SessionInv'
    <2>1. CASE UNCHANGED <<handleVars, knownId>>
      BY <1>1, <2>1
    <2>2. CASE /\ lastConn[t] # None
               /\ \E ok \in BOOLEAN : /\ PingReconnect(lastConn[t], ok)
                                      /\ FetchId(lastConn[t], ok)
      <3>1. lastConn[t] \in Connections
        BY <2>2 DEF TypeOK
      <3> QED
        BY <2>2, <3>1, PingSession
    <2> QED
      BY <1>4, <2>1, <2>2 DEF Cancel, KillQuery
  <1>5. ASSUME NEW c \in Connections, EndThread(c) \/ KeepAlive(c)
        PROVE  SessionInv'
    <2>1. /\ session' = [session EXCEPT ![c] = 0]
          /\ alive' \subseteq alive
          /\ UNCHANGED <<sessions, knownId>>
      BY <1>5 DEF EndThread, KeepAlive, NullHandle
    <2> QED
      BY <2>1, TypeIds DEF SessionInv, KnownIdIsOwn, IdTypes
  <1>6. ASSUME NEW s \in alive, DropSession(s) PROVE SessionInv'
    BY <1>6 DEF DropSession, SessionInv, KnownIdIsOwn
  <1>7. ASSUME Deselect \/ \E c \in Connections : SelectConnection(c)
        PROVE  SessionInv'
    BY <1>1, <1>7 DEF SelectConnection, Deselect
  <1>8. ASSUME NEW t \in Tabs, OpenTab(t) \/ CloseTab(t) PROVE SessionInv'
    BY <1>1, <1>8 DEF OpenTab, CloseTab
  <1>9. ASSUME CloseConnection \/ Deliver \/ UNCHANGED vars PROVE SessionInv'
    BY <1>1, <1>9 DEF CloseConnection, Deliver, vars
  <1>10. ASSUME NEW b \in Batches, Worker(b) PROVE SessionInv'
    BY <1>1, <1>10
    DEF Worker, TakeTask, SendQuery, SendOnNullHandle, ExecuteQuery,
        ReportQuery, CheckAbort, EmitFinished, LeaveTask
  <1>11. ASSUME NEW c \in Connections, Browse(c) PROVE SessionInv'
    <2>1. PICK ok \in BOOLEAN : PingReconnect(c, ok)
      BY <1>11 DEF Browse
    <2>2. UNCHANGED knownId
      BY <1>11 DEF Browse
    <2> QED
      BY <2>1, <2>2, PingSession
  <1> QED
    BY <1>2, <1>3, <1>4, <1>5, <1>6, <1>7, <1>8, <1>9, <1>10, <1>11
    DEF Next, User
-----------------------------------------------------------------------------
(* The signals on their way to a tab.                                      *)

(* What has been reported of a batch is a number, whatever the executor.    *)
LEMMA ReportedType ==
  ASSUME NEW e \in Executors
  PROVE  Reported(e) \in Int
  BY FieldTypes DEF Reported

(* Nothing has been queued initially.                                      *)
LEMMA InitSignal == Init => SignalInv
  <1> SUFFICES ASSUME Init PROVE SignalInv
    OBVIOUS
  <1>1. Len(events) = 0 /\ \A i \in 1 .. Len(events) : FALSE
    BY DEF Init
  <1>2. \A b \in Batches : state[b] = "new" /\ listener[b] = None
    BY DEF Init
  <1>3. \A t \in Tabs : ~isRunning[t] /\ queriesTask[t] = None
    BY DEF Init
  <1>4. RunningIsAccounted
    BY <1>3, ExecutionAssumption DEF Init, RunningIsAccounted
  <1> QED
    BY <1>1, <1>2, <1>3, <1>4
    DEF SignalInv, WaitedFor, FinishedOnce, FinishedLast, CurrentTask,
        EventsMatchTask

(* A step that touches neither tabs nor queue nor the state of a task, and   *)
(* takes no report back, preserves the signal invariant.                    *)
LEMMA SignalFrame ==
  ASSUME TypeOK, TypeOK', SignalInv,
         UNCHANGED <<tabs, isRunning, queriesTask, listener, state, events>>,
         \A b \in Batches : Reported(ex[b]) <= Reported(ex'[b])
  PROVE  SignalInv'
  <1>1. WaitedFor' /\ FinishedOnce' /\ FinishedLast' /\ CurrentTask'
    BY DEF SignalInv, WaitedFor, FinishedOnce, FinishedLast, CurrentTask,
           Waiting, Pending
  <1>2. EventsMatchTask'
    <2> SUFFICES ASSUME NEW i \in 1 .. Len(events), events[i].kind # "taskFinished",
                        listener[events[i].batch] # None
                 PROVE  LET t == listener[events[i].batch]
                        IN  /\ t \in tabs /\ isRunning[t]
                            /\ queriesTask[t] = events[i].batch
                            /\ events[i].kind = "queryFinished" =>
                                 events[i].index < Reported(ex'[events[i].batch])
      BY DEF EventsMatchTask
    <2>1. events[i].batch \in Batches /\ events[i].index \in Nat
      BY EventTypes
    <2>2. /\ Reported(ex[events[i].batch]) \in Int
          /\ Reported(ex'[events[i].batch]) \in Int
      BY <2>1, ReportedType DEF TypeOK
    <2> QED
      BY <2>1, <2>2 DEF SignalInv, EventsMatchTask
  <1>3. RunningIsAccounted'
    BY DEF SignalInv, RunningIsAccounted, Pending
  <1> QED
    BY <1>1, <1>2, <1>3 DEF SignalInv

(* The steps of the user that change tabs preserve it.                      *)
LEMMA TabSignal ==
  ASSUME TypeInv, LifeInv, SignalInv, NEW t \in Tabs, OpenTab(t) \/ CloseTab(t)
  PROVE  SignalInv'
  <1> USE ExecutionAssumption
      DEF TypeInv, managerVars, tabVars, lifeVars, taskVars, threadVars,
          mainVars, handleVars, serverVars
  <1>1. CASE OpenTab(t)
    <2>1. WaitedFor' /\ FinishedOnce' /\ FinishedLast' /\ CurrentTask'
          /\ EventsMatchTask'
      BY <1>1 DEF OpenTab, SignalInv, WaitedFor, FinishedOnce, FinishedLast,
                  CurrentTask, EventsMatchTask, Waiting, Pending
    <2>2. RunningIsAccounted'
      <3>1. ~isRunning[t] /\ queriesTask[t] = None
        BY <1>1 DEF OpenTab, SignalInv, CurrentTask, TypeOK
      <3> QED
        BY <1>1, <3>1 DEF OpenTab, SignalInv, RunningIsAccounted, Pending
    <2> QED
      BY <2>1, <2>2 DEF SignalInv
  <1>2. CASE CloseTab(t)
    <2>1. \A b \in Batches :
             listener'[b] = IF listener[b] = t THEN None ELSE listener[b]
      BY <1>2 DEF CloseTab
    <2>2. /\ tabs' = tabs \ {t}
          /\ \A u \in Tabs : u # t => /\ isRunning'[u] = isRunning[u]
                                      /\ queriesTask'[u] = queriesTask[u]
          /\ ~isRunning'[t] /\ queriesTask'[t] = None
          /\ UNCHANGED <<state, ex, events>>
      BY <1>2 DEF CloseTab, TypeOK
    <2>3. \A b \in Batches : Waiting(b)' = Waiting(b)
      BY <2>2 DEF Waiting, Pending
    <2>4. WaitedFor'
      BY <2>1, <2>2, <2>3 DEF SignalInv, WaitedFor, TypeOK
    <2>5. FinishedOnce' /\ FinishedLast'
      BY <2>2 DEF SignalInv, FinishedOnce, FinishedLast
    <2>6. CurrentTask'
      BY <2>1, <2>2 DEF SignalInv, CurrentTask, TypeOK
    <2>7. EventsMatchTask'
      BY <2>1, <2>2, EventTypes DEF SignalInv, EventsMatchTask, TypeOK
    <2>8. RunningIsAccounted'
      <3>1. \A b \in Batches : Pending("queriesFinished", b)' =
                               Pending("queriesFinished", b)
        BY <2>2 DEF Pending
      <3>2. \A u \in tabs' : /\ u \in tabs
                             /\ isRunning'[u] = isRunning[u]
                             /\ queriesTask'[u] = queriesTask[u]
        BY <2>2 DEF TypeOK
      <3> QED
        BY <2>2, <3>1, <3>2 DEF SignalInv, RunningIsAccounted
    <2> QED
      BY <2>4, <2>5, <2>6, <2>7, <2>8 DEF SignalInv
  <1> QED
    BY <1>1, <1>2

(* Posting a batch preserves it: the tab waited for nothing before.         *)
LEMMA ExecSignal ==
  ASSUME TypeInv, LifeInv, SignalInv,
         NEW t \in Tabs, NEW b \in Batches, Exec(t, b)
  PROVE  SignalInv'
  <1> USE ExecutionAssumption DEF TypeInv, mainVars, managerVars
  <1>1. /\ ~isRunning[t] /\ t \in tabs /\ state[b] = "new" /\ t # None
        /\ isRunning' = [isRunning EXCEPT ![t] = TRUE]
        /\ queriesTask' = [queriesTask EXCEPT ![t] = b]
        /\ listener' = [listener EXCEPT ![b] = t]
        /\ state' = [state EXCEPT ![b] = "posted"]
        /\ UNCHANGED <<tabs, ex, events>>
    BY DEF Exec
  <1>2. listener[b] = None /\ \A i \in 1 .. Len(events) : events[i].batch # b
    BY <1>1 DEF SignalInv, CurrentTask, LifeInv, FinishedInv
  <1>3. \A d \in Batches : d # b => Waiting(d)' = Waiting(d)
    BY <1>1 DEF Waiting, Pending, TypeOK
  <1>4. WaitedFor'
    BY <1>1, <1>3 DEF SignalInv, WaitedFor, TypeOK
  <1>5. FinishedOnce' /\ FinishedLast'
    BY <1>1, <1>2 DEF SignalInv, FinishedOnce, FinishedLast, TypeOK
  <1>6. CurrentTask'
    BY <1>1, <1>2 DEF SignalInv, CurrentTask, TypeOK
  <1>7. EventsMatchTask'
    <2> SUFFICES ASSUME NEW i \in 1 .. Len(events), events[i].kind # "taskFinished",
                        listener'[events[i].batch] # None
                 PROVE  LET u == listener'[events[i].batch]
                        IN  /\ u \in tabs' /\ isRunning'[u]
                            /\ queriesTask'[u] = events[i].batch
                            /\ events[i].kind = "queryFinished" =>
                                 events[i].index < Reported(ex'[events[i].batch])
      BY <1>1 DEF EventsMatchTask
    <2> DEFINE u == listener[events[i].batch]
    <2>1. listener'[events[i].batch] = u /\ ex' = ex /\ tabs' = tabs
      BY <1>1, <1>2, EventTypes DEF TypeOK
    <2>2. /\ u \in tabs /\ isRunning[u] /\ queriesTask[u] = events[i].batch
          /\ events[i].kind = "queryFinished" =>
               events[i].index < Reported(ex[events[i].batch])
      BY <2>1 DEF SignalInv, EventsMatchTask
    <2>3. u # t /\ isRunning'[u] = isRunning[u] /\ queriesTask'[u] = queriesTask[u]
      BY <1>1, <2>2 DEF TypeOK
    <2> QED
      BY <2>1, <2>2, <2>3
  <1>8. RunningIsAccounted'
    <2> SUFFICES ASSUME NEW u \in tabs
                 PROVE  isRunning'[u] <=>
                          \E d \in Batches :
                             /\ queriesTask'[u] = d
                             /\ \/ state'[d] \in {"posted", "running", "discarded"}
                                \/ Pending("queriesFinished", d)'
      BY <1>1 DEF RunningIsAccounted
    <2>1. CASE u = t
      BY <1>1, <2>1 DEF TypeOK
    <2>2. CASE u # t
      <3>1. queriesTask[u] # b
        <4>1. u \in Tabs /\ u # None /\ b # None
          BY DEF TypeOK
        <4>2. queriesTask[u] # None => listener[queriesTask[u]] = u
          BY <4>1 DEF SignalInv, CurrentTask
        <4> QED
          BY <1>2, <4>1, <4>2
      <3>2. isRunning'[u] = isRunning[u] /\ queriesTask'[u] = queriesTask[u]
        BY <1>1, <2>2 DEF TypeOK
      <3>3. \A d \in Batches : d # b => state'[d] = state[d]
        BY <1>1 DEF TypeOK
      <3>4. \A d \in Batches : Pending("queriesFinished", d)' =
                               Pending("queriesFinished", d)
        BY <1>1 DEF Pending
      <3> QED
        BY <3>1, <3>2, <3>3, <3>4 DEF SignalInv, RunningIsAccounted
    <2> QED
      BY <2>1, <2>2
  <1> QED
    BY <1>4, <1>5, <1>6, <1>7, <1>8 DEF SignalInv

(* A task that is taken, returns, or is dropped with its thread moves from   *)
(* one state to another of the same kind.                                   *)
LEMMA StateSignal ==
  ASSUME TypeInv, LifeInv, SignalInv,
         UNCHANGED <<tabs, isRunning, queriesTask, listener, events>>,
         TypeOK',
         \A b \in Batches :
            \/ state'[b] = state[b] /\ ex'[b] = ex[b]
            \/ state[b] = "posted" /\ state'[b] \in {"running", "discarded"}
            \/ state[b] = "leaving" /\ state'[b] = "returned" /\ ex'[b] = ex[b]
  PROVE  SignalInv'
  <1> USE DEF TypeInv
  <1>1. \A b \in Batches : Pending("queriesFinished", b)' =
                           Pending("queriesFinished", b)
    BY DEF Pending
  <1>2. \A b \in Batches : Waiting(b)' => Waiting(b)
    BY <1>1 DEF Waiting
  <1>3. WaitedFor'
    BY <1>2 DEF SignalInv, WaitedFor
  <1>4. \A b \in Batches : state[b] = "posted" =>
           \A i \in 1 .. Len(events) : events[i].batch # b
    BY DEF LifeInv, FinishedInv
  <1>5. FinishedOnce' /\ FinishedLast'
    BY <1>4 DEF SignalInv, FinishedOnce, FinishedLast
  <1>6. CurrentTask'
    BY DEF SignalInv, CurrentTask
  <1>7. EventsMatchTask'
    BY <1>4, EventTypes DEF SignalInv, EventsMatchTask
  <1>8. RunningIsAccounted'
    <2>1. \A b \in Batches :
             state'[b] \in {"posted", "running", "discarded"} <=>
             state[b] \in {"posted", "running", "discarded"}
      OBVIOUS
    <2> QED
      BY <1>1, <2>1 DEF SignalInv, RunningIsAccounted
  <1> QED
    BY <1>3, <1>5, <1>6, <1>7, <1>8 DEF SignalInv

(* A report goes behind all earlier signals of its batch and names a         *)
(* statement that now counts as reported.                                   *)
LEMMA ReportSignal ==
  ASSUME TypeInv, TypeOK', LifeInv, SignalInv, NEW b \in Batches, ReportQuery(b)
  PROVE  SignalInv'
  <1> USE DEF TypeInv, tabVars, lifeVars
  <1> DEFINE e == Signal("queryFinished", b, ex[b].index)
  <1>1. /\ events' = Append(events, e)
        /\ e.kind = "queryFinished" /\ e.batch = b /\ e.index = ex[b].index
        /\ state[b] = "running" /\ ex[b].pc = "emit"
        /\ ex' = [ex EXCEPT ![b] = Report(ex[b])]
        /\ UNCHANGED <<tabs, isRunning, queriesTask, listener, state>>
    BY DEF ReportQuery, Signal
  <1> HIDE DEF e
  <1>2. /\ Len(events) \in Nat /\ Len(events') = Len(events) + 1
        /\ \A i \in 1 .. Len(events') :
              \/ i \in 1 .. Len(events) /\ events'[i] = events[i]
              \/ i = Len(events') /\ events'[i] = e
        /\ \A i \in 1 .. Len(events) : events'[i] = events[i]
    BY <1>1 DEF TypeOK
  <1>3. \A d \in Batches : Pending("queriesFinished", d)' =
                           Pending("queriesFinished", d)
    BY <1>1, <1>2 DEF Pending
  <1>4. WaitedFor' /\ CurrentTask' /\ RunningIsAccounted'
    BY <1>1, <1>3
    DEF SignalInv, WaitedFor, Waiting, CurrentTask, RunningIsAccounted
  <1>5. FinishedOnce'
    BY <1>1, <1>2 DEF SignalInv, FinishedOnce
  <1>6. FinishedLast'
    <2> SUFFICES ASSUME NEW i \in 1 .. Len(events'), NEW j \in 1 .. Len(events'),
                        i < j, events'[i].batch = events'[j].batch,
                        events'[i].kind # "queryFinished"
                 PROVE  events'[j].kind = "taskFinished"
      BY DEF FinishedLast
    <2>1. i \in 1 .. Len(events) /\ events'[i] = events[i]
      BY <1>2
    <2>2. CASE j \in 1 .. Len(events) /\ events'[j] = events[j]
      BY <2>1, <2>2 DEF SignalInv, FinishedLast
    <2>3. CASE events'[j] = e
      BY <1>1, <2>1, <2>3 DEF SignalInv, FinishedOnce
    <2> QED
      BY <1>2, <2>2, <2>3
  <1>7. \A d \in Batches : /\ Reported(ex[d]) \in Int /\ Reported(ex'[d]) \in Int
                           /\ Reported(ex[d]) <= Reported(ex'[d])
    <2>1. /\ Reported(Report(ex[b])) = Len(ex[b].results)
          /\ Reported(ex[b]) = Len(ex[b].results) - 1
          /\ Len(ex[b].results) \in Nat
      BY <1>1, MoveStep, FieldTypes DEF Reported, TypeOK
    <2>2. \A d \in Batches : ex'[d] = IF d = b THEN Report(ex[b]) ELSE ex[d]
      BY <1>1 DEF TypeOK
    <2>3. \A d \in Batches : Reported(ex[d]) \in Int /\ Reported(ex'[d]) \in Int
      BY ReportedType DEF TypeOK
    <2>4. Reported(ex[b]) <= Reported(ex'[b])
      BY <2>1, <2>2
    <2>5. ASSUME NEW d \in Batches, d # b PROVE Reported(ex[d]) <= Reported(ex'[d])
      BY <2>2, <2>3, <2>5
    <2> QED
      BY <2>3, <2>4, <2>5
  <1>8. ex[b].index \in Int /\ ex[b].index < Reported(ex'[b])
    <2>1. /\ Reported(Report(ex[b])) = Len(ex[b].results)
          /\ ex[b].index = Len(ex[b].results) - 1
          /\ Len(ex[b].results) \in Nat
      BY <1>1, MoveStep, FieldTypes
      DEF Reported, TypeOK, ExecutorInv, Placed, AtStatement
    <2>2. ex'[b] = Report(ex[b])
      BY <1>1 DEF TypeOK
    <2> QED
      BY <2>1, <2>2
  <1>9. EventsMatchTask'
    <2> SUFFICES ASSUME NEW i \in 1 .. Len(events'),
                        events'[i].kind # "taskFinished",
                        listener[events'[i].batch] # None
                 PROVE  LET t == listener[events'[i].batch]
                        IN  /\ t \in tabs /\ isRunning[t]
                            /\ queriesTask[t] = events'[i].batch
                            /\ events'[i].kind = "queryFinished" =>
                                 events'[i].index < Reported(ex'[events'[i].batch])
      BY <1>1 DEF EventsMatchTask
    <2>1. CASE i \in 1 .. Len(events) /\ events'[i] = events[i]
      <3>1. events[i].batch \in Batches /\ events[i].index \in Nat
        BY <2>1, EventTypes
      <3>2. events[i].kind = "queryFinished" =>
              events[i].index < Reported(ex[events[i].batch])
        BY <2>1 DEF SignalInv, EventsMatchTask
      <3> QED
        BY <1>7, <2>1, <3>1, <3>2 DEF SignalInv, EventsMatchTask
    <2>2. CASE events'[i] = e
      BY <1>1, <1>8, <2>2 DEF SignalInv, WaitedFor, Waiting
    <2> QED
      BY <1>2, <2>1, <2>2
  <1> QED
    BY <1>4, <1>5, <1>6, <1>9 DEF SignalInv

(* The end of a batch goes behind its reports, once.                        *)
LEMMA FinishSignal ==
  ASSUME TypeInv, TypeOK', LifeInv, SignalInv, NEW b \in Batches, EmitFinished(b)
  PROVE  SignalInv'
  <1> USE DEF TypeInv, tabVars
  <1> DEFINE e == Signal("queriesFinished", b, 0)
             f == Signal("taskFinished", b, 0)
  <1>1. /\ events' = events \o <<e, f>>
        /\ e.kind = "queriesFinished" /\ e.batch = b
        /\ f.kind = "taskFinished" /\ f.batch = b
        /\ e \in Event /\ f \in Event
        /\ state[b] = "running"
        /\ state' = [state EXCEPT ![b] = "leaving"]
        /\ UNCHANGED <<tabs, isRunning, queriesTask, listener, ex>>
    BY DEF EmitFinished, Signal, Event
  <1> HIDE DEF e, f
  <1>2. Len(events) \in Nat /\ Len(events') = Len(events) + 2
    <2>1. events \in Seq(Event)
      BY DEF TypeOK
    <2> QED
      BY <1>1, <2>1, TwoAppendedAt
  <1>3. \A i \in 1 .. Len(events') :
           \/ i \in 1 .. Len(events) /\ events'[i] = events[i]
           \/ i = Len(events) + 1 /\ events'[i] = e
           \/ i = Len(events) + 2 /\ events'[i] = f
    <2>1. events \in Seq(Event)
      BY DEF TypeOK
    <2> QED
      BY <1>1, <2>1, TwoAppendedAt
  <1>4. \A i \in 1 .. Len(events) : i \in 1 .. Len(events') /\ events'[i] = events[i]
    BY <1>2, <1>3
  <1>5. Pending("queriesFinished", b)'
    <2>1. Len(events) + 1 \in 1 .. Len(events') /\ events'[Len(events) + 1] = e
      BY <1>2, <1>3
    <2> QED
      BY <1>1, <2>1 DEF Pending
  <1>6. \A d \in Batches : d # b => /\ state'[d] = state[d]
                                    /\ Pending("queriesFinished", d)' =
                                       Pending("queriesFinished", d)
    BY <1>1, <1>3, <1>4 DEF Pending, TypeOK
  <1>7. \A d \in Batches : Waiting(d)' => Waiting(d)
    BY <1>1, <1>6 DEF Waiting
  <1>8. WaitedFor'
    BY <1>1, <1>7 DEF SignalInv, WaitedFor
  <1>9. state'[b] = "leaving"
    BY <1>1 DEF TypeOK
  <1>10. CurrentTask'
    BY <1>1, <1>6, <1>9 DEF SignalInv, CurrentTask
  <1>11. FinishedOnce'
    BY <1>1, <1>3, <1>6, <1>9 DEF SignalInv, FinishedOnce
  <1>12. FinishedLast'
    <2> SUFFICES ASSUME NEW i \in 1 .. Len(events'), NEW j \in 1 .. Len(events'),
                        i < j, events'[i].batch = events'[j].batch,
                        events'[i].kind # "queryFinished"
                 PROVE  events'[j].kind = "taskFinished"
      BY DEF FinishedLast
    <2>1. CASE j \in 1 .. Len(events)
      <3>1. i \in 1 .. Len(events)
        BY <1>2, <2>1
      <3> QED
        BY <1>4, <2>1, <3>1 DEF SignalInv, FinishedLast
    <2>2. CASE j = Len(events) + 1 /\ events'[j] = e
      <3>1. i \in 1 .. Len(events)
        BY <1>2, <2>2
      <3> QED
        BY <1>1, <1>4, <2>2, <3>1 DEF SignalInv, FinishedOnce
    <2>3. CASE events'[j] = f
      BY <1>1, <2>3
    <2> QED
      BY <1>3, <2>1, <2>2, <2>3
  <1>13. EventsMatchTask'
    <2> SUFFICES ASSUME NEW i \in 1 .. Len(events'),
                        events'[i].kind # "taskFinished",
                        listener[events'[i].batch] # None
                 PROVE  LET t == listener[events'[i].batch]
                        IN  /\ t \in tabs /\ isRunning[t]
                            /\ queriesTask[t] = events'[i].batch
                            /\ events'[i].kind = "queryFinished" =>
                                 events'[i].index < Reported(ex[events'[i].batch])
      BY <1>1 DEF EventsMatchTask
    <2>1. CASE i \in 1 .. Len(events) /\ events'[i] = events[i]
      BY <2>1 DEF SignalInv, EventsMatchTask
    <2>2. CASE events'[i] = e
      BY <1>1, <2>2 DEF SignalInv, WaitedFor, Waiting
    <2>3. CASE events'[i] = f
      BY <1>1, <2>3
    <2> QED
      BY <1>3, <2>1, <2>2, <2>3
  <1>14. RunningIsAccounted'
    BY <1>1, <1>5, <1>6 DEF SignalInv, RunningIsAccounted
  <1> QED
    BY <1>8, <1>10, <1>11, <1>12, <1>13, <1>14 DEF SignalInv

(* Taking the head of the queue: what is still pending was pending, and     *)
(* only the head is no longer.                                             *)
LEMMA TailPending ==
  ASSUME TypeOK, events # <<>>, events' = Tail(events), NEW b \in Batches
  PROVE  /\ Pending("queriesFinished", b)' => Pending("queriesFinished", b)
         /\ Pending("queriesFinished", b) =>
              \/ Pending("queriesFinished", b)'
              \/ events[1].kind = "queriesFinished" /\ events[1].batch = b
  <1>1. /\ Len(events) \in Nat /\ Len(events') = Len(events) - 1
        /\ \A i \in 1 .. Len(events') :
              i + 1 \in 1 .. Len(events) /\ events'[i] = events[i + 1]
    BY TailEvents
  <1>2. ASSUME NEW i \in 1 .. Len(events), i # 1
        PROVE  i - 1 \in 1 .. Len(events') /\ events'[i - 1] = events[i]
    BY <1>1, <1>2
  <1>3. ASSUME Pending("queriesFinished", b)' PROVE Pending("queriesFinished", b)
    <2>1. PICK i \in 1 .. Len(events') : /\ events'[i].kind = "queriesFinished"
                                         /\ events'[i].batch = b
      BY <1>3 DEF Pending
    <2> QED
      BY <1>1, <2>1 DEF Pending
  <1>4. ASSUME Pending("queriesFinished", b)
        PROVE  \/ Pending("queriesFinished", b)'
               \/ events[1].kind = "queriesFinished" /\ events[1].batch = b
    <2>1. PICK i \in 1 .. Len(events) : /\ events[i].kind = "queriesFinished"
                                        /\ events[i].batch = b
      BY <1>4 DEF Pending
    <2>2. CASE i # 1
      BY <1>2, <2>1, <2>2 DEF Pending
    <2> QED
      BY <2>1, <2>2
  <1> QED
    BY <1>3, <1>4

(* Delivering a signal preserves it; finished() is the last a tab hears of   *)
(* its task.                                                               *)
LEMMA DeliverSignal ==
  ASSUME TypeInv, TypeOK', LifeInv, SignalInv, Deliver
  PROVE  SignalInv'
  <1> USE ExecutionAssumption DEF TypeInv, taskVars, lifeVars
  <1>0. PICK e : e = Head(events)
    OBVIOUS
  <1>t. PICK t : t = listener[e.batch]
    OBVIOUS
  <1>1. /\ events # <<>> /\ events' = Tail(events)
        /\ 1 \in 1 .. Len(events) /\ events[1] = e
        /\ e.batch \in Batches /\ listener[e.batch] = t
        /\ UNCHANGED <<tabs, queriesTask, listener, state, ex>>
    BY <1>0, <1>t, EventTypes DEF Deliver, TypeOK
  <1>2. /\ Len(events) \in Nat /\ Len(events') = Len(events) - 1
        /\ \A i \in 1 .. Len(events') :
              i + 1 \in 1 .. Len(events) /\ events'[i] = events[i + 1]
    BY <1>1, TailEvents
  <1>3. FinishedOnce' /\ FinishedLast' /\ CurrentTask'
    <2>1. FinishedOnce'
      BY <1>1, <1>2 DEF SignalInv, FinishedOnce
    <2>2. FinishedLast'
      BY <1>1, <1>2 DEF SignalInv, FinishedLast
    <2>3. \A u \in Tabs : isRunning'[u] => isRunning[u]
      BY DEF Deliver, OnQueryFinished, OnQueriesFinished, OnTaskFinished,
             DropSignal, TypeOK
    <2>4. CurrentTask'
      BY <1>1, <2>3 DEF SignalInv, CurrentTask
    <2> QED
      BY <2>1, <2>2, <2>4
  <1>4. CASE isRunning' = isRunning /\ ~(e.kind = "queriesFinished" /\ t # None)
    <2>1. WaitedFor'
      BY <1>1, <1>4, TailPending DEF SignalInv, WaitedFor, Waiting
    <2>2. EventsMatchTask'
      BY <1>1, <1>2, <1>4 DEF SignalInv, EventsMatchTask
    <2>3. \A u \in tabs, b \in Batches : queriesTask[u] = b =>
             (Pending("queriesFinished", b)' <=> Pending("queriesFinished", b))
      <3> SUFFICES ASSUME NEW u \in tabs, NEW b \in Batches, queriesTask[u] = b
                   PROVE  Pending("queriesFinished", b)' <=>
                          Pending("queriesFinished", b)
        OBVIOUS
      <3>1. u \in Tabs /\ u # None /\ b # None
        BY DEF TypeOK
      <3>2. listener[b] = u
        BY <3>1 DEF SignalInv, CurrentTask
      <3> QED
        BY <1>1, <1>4, <3>1, <3>2, TailPending
    <2>4. RunningIsAccounted'
      BY <1>1, <1>4, <2>3 DEF SignalInv, RunningIsAccounted
    <2> QED
      BY <1>3, <2>1, <2>2, <2>4 DEF SignalInv
  <1>5. CASE /\ e.kind = "queriesFinished" /\ t # None
             /\ isRunning' = [isRunning EXCEPT ![t] = FALSE]
    <2>1. t \in tabs /\ t \in Tabs /\ queriesTask[t] = e.batch
      BY <1>1, <1>5 DEF SignalInv, EventsMatchTask, TypeOK
    <2>2. ~Pending("queriesFinished", e.batch)'
      <3>1. \A i \in 1 .. Len(events') : events'[i].batch = e.batch =>
               events'[i].kind = "taskFinished"
        BY <1>1, <1>2, <1>5 DEF SignalInv, FinishedLast
      <3> QED
        BY <3>1 DEF Pending
    <2>3. state[e.batch] \in {"leaving", "returned"}
      BY <1>1, <1>5 DEF LifeInv, FinishedInv
    <2>4. /\ ~isRunning'[t]
          /\ \A u \in Tabs : u # t => isRunning'[u] = isRunning[u]
      BY <1>5, <2>1 DEF TypeOK
    <2>5. WaitedFor'
      <3> SUFFICES ASSUME NEW b \in Batches, listener[b] # None, Waiting(b)'
                   PROVE  /\ listener[b] \in tabs
                          /\ isRunning'[listener[b]]
                          /\ queriesTask[listener[b]] = b
        BY <1>1 DEF WaitedFor
      <3>1. Waiting(b) /\ b # e.batch
        BY <1>1, <2>2, <2>3, TailPending DEF Waiting
      <3>2. /\ listener[b] \in tabs /\ listener[b] \in Tabs
            /\ isRunning[listener[b]]
            /\ queriesTask[listener[b]] = b
        BY <3>1 DEF SignalInv, WaitedFor, TypeOK
      <3> QED
        BY <2>1, <2>4, <3>1, <3>2
    <2>6. EventsMatchTask'
      <3> SUFFICES ASSUME NEW i \in 1 .. Len(events'),
                          events'[i].kind # "taskFinished",
                          listener[events'[i].batch] # None
                   PROVE  LET u == listener[events'[i].batch]
                          IN  /\ u \in tabs /\ isRunning'[u]
                              /\ queriesTask[u] = events'[i].batch
                              /\ events'[i].kind = "queryFinished" =>
                                   events'[i].index < Reported(ex[events'[i].batch])
        BY <1>1 DEF EventsMatchTask
      <3> DEFINE u == listener[events'[i].batch]
      <3>1. /\ u \in tabs /\ u \in Tabs /\ isRunning[u]
            /\ queriesTask[u] = events'[i].batch
            /\ events'[i].kind = "queryFinished" =>
                 events'[i].index < Reported(ex[events'[i].batch])
        <4>1. i + 1 \in 1 .. Len(events) /\ events'[i] = events[i + 1]
          BY <1>2
        <4>2. \A u0 : u0 \in tabs => u0 \in Tabs
          BY DEF TypeOK
        <4> QED
          BY <4>1, <4>2 DEF SignalInv, EventsMatchTask
      <3>2. events'[i].batch # e.batch
        BY <1>1, <1>2, <1>5 DEF SignalInv, FinishedLast
      <3> QED
        BY <2>1, <2>4, <3>1, <3>2
    <2>7. RunningIsAccounted'
      <3> SUFFICES ASSUME NEW u \in tabs
                   PROVE  isRunning'[u] <=>
                            \E b \in Batches :
                               /\ queriesTask[u] = b
                               /\ \/ state[b] \in {"posted", "running", "discarded"}
                                  \/ Pending("queriesFinished", b)'
        BY <1>1 DEF RunningIsAccounted
      <3>1. CASE u = t
        BY <2>1, <2>2, <2>3, <2>4, <3>1
      <3>2. CASE u # t
        <4>1. u \in Tabs /\ u # None
          BY DEF TypeOK
        <4>2. ASSUME NEW b \in Batches, queriesTask[u] = b PROVE b # e.batch
          <5>1. b # None
            OBVIOUS
          <5>2. listener[b] = u
            BY <4>1, <4>2, <5>1 DEF SignalInv, CurrentTask
          <5> QED
            BY <1>1, <3>2, <5>2
        <4>3. \A b \in Batches : b # e.batch =>
                 (Pending("queriesFinished", b)' <=> Pending("queriesFinished", b))
          BY <1>1, TailPending
        <4> QED
          BY <2>4, <3>2, <4>1, <4>2, <4>3 DEF SignalInv, RunningIsAccounted
      <3> QED
        BY <3>1, <3>2
    <2> QED
      BY <1>3, <2>5, <2>6, <2>7 DEF SignalInv
  <1>6. \/ isRunning' = isRunning /\ ~(e.kind = "queriesFinished" /\ t # None)
        \/ /\ e.kind = "queriesFinished" /\ t # None
           /\ isRunning' = [isRunning EXCEPT ![t] = FALSE]
    BY <1>0, <1>t
    DEF Deliver, OnQueryFinished, OnQueriesFinished, OnTaskFinished, DropSignal
  <1> QED
    BY <1>4, <1>5, <1>6

(* Every step preserves the facts about signals.                           *)
LEMMA NextSignal ==
  TypeInv /\ TypeInv' /\ LifeInv /\ SignalInv /\ [Next]_vars => SignalInv'
  <1> SUFFICES ASSUME TypeInv, TypeOK', LifeInv, SignalInv, [Next]_vars
               PROVE  SignalInv'
    BY DEF TypeInv
  <1> USE DEF managerVars, tabVars, lifeVars, taskVars, threadVars, mainVars,
              handleVars, serverVars
  <1> DEFINE Frame == UNCHANGED <<tabs, isRunning, queriesTask, listener, state,
                                  events>>
  <1>1. ASSUME Frame, UNCHANGED ex PROVE SignalInv'
    <2>1. \A b \in Batches : Reported(ex[b]) <= Reported(ex'[b])
      BY <1>1, ReportedType DEF TypeInv, TypeOK
    <2> QED
      BY <1>1, <2>1, SignalFrame DEF TypeInv
  <1>2. ASSUME Frame, NEW b \in Batches, NEW f,
               ex' = [ex EXCEPT ![b] = f], Reported(ex[b]) = Reported(f)
        PROVE  SignalInv'
    <2>1. \A d \in Batches : /\ Reported(ex[d]) \in Int
                             /\ Reported(ex'[d]) = Reported(ex[d])
      BY <1>2, ReportedType DEF TypeInv, TypeOK
    <2>2. \A d \in Batches : Reported(ex[d]) <= Reported(ex'[d])
      BY <2>1
    <2> QED
      BY <1>2, <2>2, SignalFrame DEF TypeInv
  <1>3. ASSUME NEW c \in Connections,
               \/ OpenConnection(c) \/ SelectConnection(c)
               \/ KeepAlive(c) \/ Browse(c)
        PROVE  SignalInv'
    BY <1>1, <1>3 DEF OpenConnection, SelectConnection, KeepAlive, Browse
  <1>4. ASSUME CloseConnection \/ Deselect \/ UNCHANGED vars PROVE SignalInv'
    BY <1>1, <1>4 DEF CloseConnection, Deselect, vars
  <1>5. ASSUME NEW s \in alive, DropSession(s) PROVE SignalInv'
    BY <1>1, <1>5 DEF DropSession
  <1>6. ASSUME NEW t \in Tabs, Cancel(t) PROVE SignalInv'
    <2> DEFINE q == queriesTask[t]
               f == Abort(ex[q])
    <2>1. ex' = [ex EXCEPT ![q] = f] /\ Frame
      BY <1>6 DEF Cancel
    <2>2. q \in Batches => Reported(ex[q]) = Reported(f)
      BY AbortType DEF TypeInv, TypeOK, KeepsPosition, Reported
    <2> HIDE DEF q, f
    <2>3. CASE q \in Batches
      BY <1>2, <2>1, <2>2, <2>3
    <2>4. CASE q \notin Batches
      <3>1. UNCHANGED ex
        BY <2>1, <2>4 DEF TypeInv, TypeOK
      <3> QED
        BY <1>1, <2>1, <3>1
    <2> QED
      BY <2>3, <2>4
  <1>7. ASSUME NEW b \in Batches, SendQuery(b) PROVE SignalInv'
    <2>1. ex' = [ex EXCEPT ![b] = Send(ex[b])] /\ Frame
      BY <1>7 DEF SendQuery
    <2>2. Reported(ex[b]) = Reported(Send(ex[b]))
      BY <1>7, MoveStep DEF SendQuery, Reported, TypeInv, TypeOK
    <2> QED
      BY <1>2, <2>1, <2>2
  <1>8. ASSUME NEW b \in Batches, SendOnNullHandle(b) PROVE SignalInv'
    BY <1>1, <1>8 DEF SendOnNullHandle
  <1>9. ASSUME NEW b \in Batches, ExecuteQuery(b) PROVE SignalInv'
    <2>1. PICK outcome \in Outcomes :
            ex' = [ex EXCEPT ![b] = Executed(ex[b], outcome)]
      BY <1>9 DEF ExecuteQuery, Outcomes
    <2>2. Frame /\ ex[b].pc = "executing"
      BY <1>9 DEF ExecuteQuery, Executing
    <2>3. Len(ex[b].results) > 0
      BY <2>2 DEF TypeInv, ExecutorInv, Placed, AtStatement
    <2> DEFINE f == Executed(ex[b], outcome)
    <2>4. f.pc = "emit" /\ Len(f.results) = Len(ex[b].results)
      BY <2>3, ExecutedType DEF TypeInv, TypeOK
    <2>5. ex' = [ex EXCEPT ![b] = f]
      BY <2>1
    <2> HIDE DEF f
    <2>6. Reported(ex[b]) = Reported(f)
      BY <2>2, <2>4 DEF Reported
    <2> QED
      BY <1>2, <2>2, <2>5, <2>6
  <1>10. ASSUME NEW b \in Batches, CheckAbort(b) PROVE SignalInv'
    <2> DEFINE f == Advance(Check(ex[b]))
    <2>1. ex' = [ex EXCEPT ![b] = f] /\ Frame /\ ex[b].pc = "check"
      BY <1>10 DEF CheckAbort
    <2>2. /\ Len(ex[b].results) > 0 /\ Len(ex[b].results) <= ex[b].total
          /\ ex[b].index = Len(ex[b].results) - 1 /\ Len(ex[b].results) \in Nat
      BY <2>1, FieldTypes DEF TypeInv, TypeOK, ExecutorInv, Placed, AtStatement
    <2>3. \/ f.pc = "done" /\ f.results = ex[b].results
          \/ f.pc = "pushed" /\ Len(f.results) = Len(ex[b].results) + 1
      BY <2>2, CheckStep DEF TypeInv, TypeOK
    <2> HIDE DEF f
    <2>4. Reported(ex[b]) = Reported(f)
      BY <2>1, <2>2, <2>3 DEF Reported
    <2> QED
      BY <1>2, <2>1, <2>4
  <1>11. ASSUME NEW b \in Batches, TakeTask(b) PROVE SignalInv'
    BY <1>11, StateSignal DEF TakeTask, TypeInv, TypeOK
  <1>12. ASSUME NEW b \in Batches, LeaveTask(b) PROVE SignalInv'
    BY <1>12, StateSignal DEF LeaveTask, TypeInv, TypeOK
  <1>13. ASSUME NEW c \in Connections, EndThread(c) PROVE SignalInv'
    BY <1>13, StateSignal DEF EndThread, TypeInv, TypeOK
  <1> QED
    BY <1>3, <1>4, <1>5, <1>6, <1>7, <1>8, <1>9, <1>10, <1>11, <1>12, <1>13,
       TabSignal, ExecSignal, ReportSignal, FinishSignal, DeliverSignal
    DEF Next, User, Worker
-----------------------------------------------------------------------------
(* The inductive invariant of query execution.                             *)
IInv == TypeInv /\ LifeInv /\ SessionInv /\ SignalInv

(* It holds in every reachable state.                                      *)
THEOREM IInvHolds == Spec => []IInv
  <1>1. Init => IInv
    BY InitType, InitLife, InitSession, InitSignal DEF IInv
  <1>2. IInv /\ [Next]_vars => IInv'
    <2>1. IInv /\ [Next]_vars => TypeInv'
      BY NextType DEF IInv
    <2>2. IInv /\ [Next]_vars => LifeInv' /\ SessionInv'
      BY NextLife, NextSession DEF IInv
    <2>3. IInv /\ TypeInv' /\ [Next]_vars => SignalInv'
      BY NextSignal DEF IInv
    <2> QED
      BY <2>1, <2>2, <2>3 DEF IInv
  <1> QED
    BY <1>1, <1>2, PTL DEF Spec

(* Every variable keeps its type, the executors inside the tasks included.  *)
THEOREM TypeCorrect == Spec => []TypeOK
  <1>1. IInv => TypeOK
    BY DEF IInv, TypeInv
  <1> QED
    BY <1>1, IInvHolds, PTL

(* onQueryFinished always looks results up in the task that sent the signal, *)
(* at a statement that task has answered.                                   *)
THEOREM SignalsReachTheirTask == Spec => []EventsMatchTask
  <1>1. IInv => EventsMatchTask
    BY DEF IInv, SignalInv
  <1> QED
    BY <1>1, IInvHolds, PTL

(* The busy flag of a tab is up exactly while its task is on its way.        *)
THEOREM RunningFlagCorrect == Spec => []RunningIsAccounted
  <1>1. IInv => RunningIsAccounted
    BY DEF IInv, SignalInv
  <1> QED
    BY <1>1, IInvHolds, PTL

(* Closing or reusing a tab never destroys a task its thread has still to    *)
(* run or is running.                                                      *)
THEOREM TasksKeptAlive == Spec => []TaskKeptAlive
  <1>1. IInv => TaskKeptAlive
    BY DEF IInv, LifeInv
  <1> QED
    BY <1>1, IInvHolds, PTL

(* No step touches the handle of a connection whose thread executes.         *)
LEMMA HandleKept ==
  ASSUME IInv, [Next]_vars, NEW b \in Batches, Executing(b)
  PROVE  session'[taskConn[b]] = session[taskConn[b]]
  <1> USE DEF managerVars, tabVars, lifeVars, taskVars, threadVars, mainVars,
              handleVars, serverVars
  <1> DEFINE k == taskConn[b]
  <1>1. /\ k \in Connections /\ Busy(k) /\ ~Idle(k)
        /\ status[k] # "new" /\ k # None
        /\ session \in [Connections -> Nat \cup {Unconnected}]
    BY ExecutionAssumption
    DEF IInv, LifeInv, PostedInv, TypeInv, TypeOK, Executing, Busy, Idle, Runs
  <1> HIDE DEF k
  <1>2. ASSUME NEW c \in Connections, NEW ok \in BOOLEAN, PingReconnect(c, ok)
        PROVE  session'[k] = session[k]
    BY <1>1, <1>2 DEF PingReconnect, Connect, FailConnect
  <1>3. ASSUME NEW c \in Connections, OpenConnection(c)
        PROVE  session'[k] = session[k]
    BY <1>1, <1>3 DEF OpenConnection, Connect
  <1>4. ASSUME NEW t \in Tabs, NEW d \in Batches, Exec(t, d)
        PROVE  session'[k] = session[k]
    <2>1. active \in Connections
      BY <1>4 DEF Exec, IInv, TypeInv, TypeOK
    <2> QED
      BY <1>2, <1>4, <2>1 DEF Exec
  <1>5. ASSUME NEW t \in Tabs, Cancel(t) PROVE session'[k] = session[k]
    <2>1. lastConn[t] \in Connections \cup {None}
      BY DEF IInv, TypeInv, TypeOK
    <2> QED
      BY <1>2, <1>5, <2>1 DEF Cancel, KillQuery
  <1>6. ASSUME NEW c \in Connections, EndThread(c) \/ KeepAlive(c)
        PROVE  session'[k] = session[k]
    BY <1>1, <1>6 DEF EndThread, KeepAlive
  <1>7. ASSUME UNCHANGED session PROVE session'[k] = session[k]
    BY <1>7
  <1>8. ASSUME NEW c \in Connections, Browse(c) PROVE session'[k] = session[k]
    BY <1>2, <1>8 DEF Browse
  <1> QED
    BY <1>3, <1>4, <1>5, <1>6, <1>7, <1>8
    DEF Next, User, Worker, SelectConnection, Deselect, OpenTab, CloseTab,
        CloseConnection, Deliver, DropSession, TakeTask, SendQuery,
        SendOnNullHandle, ExecuteQuery, ReportQuery, CheckAbort, EmitFinished,
        LeaveTask, vars, k

(* The handle a statement was sent on stays as it is until the answer.       *)
THEOREM HandleIsProtected == Spec => HandleProtected
  <1>1. IInv /\ [Next]_vars =>
          [\A b \in Batches :
             Executing(b) => session'[taskConn[b]] = session[taskConn[b]]]_vars
    BY HandleKept
  <1> QED
    BY <1>1, IInvHolds, PTL DEF Spec, HandleProtected
-----------------------------------------------------------------------------
(* A tab remembers the connection of its own task, or none.                 *)
LastConnInv ==
    \A t \in Tabs : lastConn[t] # None =>
        queriesTask[t] # None /\ taskConn[queriesTask[t]] = lastConn[t]

(* Only Exec gives a batch its connection, and to a batch no tab has.        *)
LEMMA NextLastConn == IInv /\ LastConnInv /\ [Next]_vars => LastConnInv'
  <1> SUFFICES ASSUME IInv, LastConnInv, [Next]_vars PROVE LastConnInv'
    OBVIOUS
  <1> USE DEF managerVars, tabVars, lifeVars, taskVars, threadVars, mainVars,
              handleVars, serverVars
  <1>1. /\ active \in Connections \cup {None}
        /\ lastConn \in [Tabs -> Connections \cup {None}]
        /\ queriesTask \in [Tabs -> Batches \cup {None}]
        /\ taskConn \in [Batches -> Connections \cup {None}]
        /\ None \notin Tabs \cup Connections \cup Batches
        /\ \A t \in Tabs : queriesTask[t] # None => state[queriesTask[t]] # "new"
    BY ExecutionAssumption
    DEF IInv, TypeInv, TypeOK, SignalInv, CurrentTask
  <1>2. ASSUME UNCHANGED <<lastConn, queriesTask, taskConn>> PROVE LastConnInv'
    BY <1>2 DEF LastConnInv
  <1>3. ASSUME NEW t \in Tabs, NEW b \in Batches, Exec(t, b) PROVE LastConnInv'
    BY <1>1, <1>3 DEF Exec, LastConnInv
  <1>4. ASSUME NEW t \in Tabs, CloseTab(t) PROVE LastConnInv'
    BY <1>1, <1>4 DEF CloseTab, LastConnInv
  <1>5. ASSUME CloseConnection PROVE LastConnInv'
    BY <1>1, <1>5 DEF CloseConnection, LastConnInv
  <1> QED
    BY <1>2, <1>3, <1>4, <1>5
    DEF Next, User, OpenConnection, SelectConnection, Browse, Deselect, OpenTab,
        Cancel, EndThread, KeepAlive, Deliver, DropSession, Worker, TakeTask,
        SendQuery, SendOnNullHandle, ExecuteQuery, ReportQuery, CheckAbort,
        EmitFinished, LeaveTask, vars

(* The statement KILL QUERY hits is one that executes in a session that may   *)
(* bear the id.                                                            *)
LEMMA KillHits ==
  ASSUME NEW c, KillQuery(c), NEW b \in interrupted' \ interrupted
  PROVE  /\ b \in Batches /\ Executing(b)
         /\ session[taskConn[b]] \in Bearers(knownId'[c], alive')
  BY DEF KillQuery

(* Cancelling a tab never hits a statement of another connection, unless the  *)
(* session whose id the connection has cached has ended.                     *)
THEOREM CancelsStayHome == Spec => CancelStaysHome
  <1> DEFINE Home(t) == LET c == taskConn[queriesTask[t]]
                        IN  \/ knownId'[c] \notin alive'
                            \/ \A b \in interrupted' \ interrupted : taskConn[b] = c
  <1>1. ASSUME IInv, LastConnInv, [Next]_vars, NEW t \in Tabs, Cancel(t) PROVE Home(t)
    <2> DEFINE c == taskConn[queriesTask[t]]
    <2> SUFFICES ASSUME knownId'[c] \in alive', NEW b \in interrupted' \ interrupted
                 PROVE  taskConn[b] = c
      OBVIOUS
    <2>1. lastConn[t] = c /\ KillQuery(c)
      BY <1>1 DEF Cancel, LastConnInv
    <2>2. /\ b \in Batches /\ Executing(b)
          /\ session[taskConn[b]] = knownId'[c]
      BY <2>1, KillHits DEF Bearers
    <2>3. session'[taskConn[b]] = knownId'[c]
      BY <1>1, <2>2, HandleKept
    <2>4. c \in Connections /\ taskConn[b] \in Connections
      BY <1>1, <2>1, <2>2, ExecutionAssumption
      DEF Cancel, Executing, IInv, LifeInv, PostedInv, TypeInv, TypeOK, LastConnInv
    <2>5. SessionInv' /\ IdTypes'
      <3>1. SessionInv' /\ TypeInv'
        BY <1>1, NextSession, NextType DEF IInv
      <3> QED
        BY <3>1 DEF TypeInv, TypeOK, IdTypes, Unconnected, NotFetched
    <2>6. knownId'[c] > 0
      <3>1. \A s \in alive' : s \in Nat /\ 1 <= s
        BY <2>5 DEF SessionInv, IdTypes
      <3> HIDE DEF c
      <3> QED
        BY <3>1
    <2> HIDE DEF c
    <2> QED
      BY <2>3, <2>4, <2>5, <2>6 DEF SessionInv, KnownIdIsOwn
  <1>2. Init => LastConnInv
    BY DEF Init, LastConnInv
  <1>3. IInv /\ LastConnInv /\ [Next]_vars =>
          [\A t \in Tabs : Cancel(t) => Home(t)]_vars
    BY <1>1
  <1> QED
    BY <1>2, <1>3, NextLastConn, IInvHolds, PTL DEF Spec, CancelStaysHome
-----------------------------------------------------------------------------
(* A batch that waits or runs is on a connection that is open, or that the   *)
(* main thread is closing and whose handle ~MySQLConnection has not closed;   *)
(* as long as no session is dropped such a handle is that of a live session. *)

(* The connection's handle may be used by its thread.                       *)
Open(c) == status[c] = "open" \/ closing = c

HandleInv ==
    /\ closing # None => status[closing] = "closed"
    /\ \A c \in Connections : Open(c) => Live(c)
    /\ \A t \in Tabs : lastConn[t] # None => status[lastConn[t]] = "open"
    /\ \A b \in Batches : state[b] \in {"posted", "running"} => Open(taskConn[b])
    /\ HandleIsThere

(* There is no connection and no batch initially.                           *)
LEMMA InitHandle == Init => HandleInv
  BY ExecutionAssumption DEF Init, HandleInv, Open, HandleIsThere

(* A ping of a connection whose session is alive leaves the handle alone.    *)
LEMMA PingLive ==
  ASSUME NEW c, Live(c), NEW ok, PingReconnect(c, ok)
  PROVE  UNCHANGED <<session, alive>>
  BY DEF PingReconnect, handleVars

(* Every step leaves a live session behind the handles that are in use.       *)
LEMMA NextHandle ==
  ASSUME Droppable = {}, IInv, HandleInv, [Next]_vars
  PROVE  HandleInv'
  <1> USE DEF managerVars, tabVars, lifeVars, taskVars, threadVars, mainVars,
              handleVars, serverVars
  <1>1. /\ closing \in Connections \cup {None} /\ active \in Connections \cup {None}
        /\ None \notin Connections
        /\ status \in [Connections -> Statuses]
        /\ session \in [Connections -> Nat \cup {Unconnected}]
        /\ alive \subseteq Nat
        /\ state \in [Batches -> TaskStates]
        /\ taskConn \in [Batches -> Connections \cup {None}]
        /\ lastConn \in [Tabs -> Connections \cup {None}]
        /\ \A b \in Batches : state[b] # "new" => taskConn[b] \in Connections
        /\ active # None => status[active] = "open"
        /\ \A s \in alive : 1 <= s /\ s <= sessions
        /\ \A c, d \in Connections : c # d /\ session[c] > 0 => session[d] # session[c]
    BY ExecutionAssumption
    DEF IInv, TypeInv, TypeOK, LifeInv, PostedInv, SessionInv
  <1>2. ASSUME UNCHANGED <<status, closing, session, alive, crashed>>,
               lastConn' = lastConn \/ \E t \in Tabs, c \in Connections \cup {None} :
                  /\ lastConn' = [lastConn EXCEPT ![t] = c]
                  /\ c # None => status[c] = "open",
               UNCHANGED taskConn \/ \E b \in Batches, c \in Connections :
                  /\ taskConn' = [taskConn EXCEPT ![b] = c]
                  /\ status[c] = "open",
               \A b \in Batches : \/ state'[b] \in {"posted", "running"}
                                       => state[b] \in {"posted", "running"}
                                  \/ taskConn'[b] \in Connections /\ status[taskConn'[b]] = "open"
        PROVE  HandleInv'
    <2>1. \A t \in Tabs : lastConn'[t] # None => status[lastConn'[t]] = "open"
      BY <1>1, <1>2 DEF HandleInv
    <2>2. \A b \in Batches : state'[b] \in {"posted", "running"} =>
             status[taskConn'[b]] = "open" \/ closing = taskConn'[b]
      BY <1>1, <1>2 DEF HandleInv, Open
    <2> QED
      BY <1>2, <2>1, <2>2 DEF HandleInv, Open, Live, HandleIsThere
  <1>3. ASSUME UNCHANGED <<status, closing, lastConn, taskConn, state, session,
                           alive, crashed>>
        PROVE  HandleInv'
    BY <1>2, <1>3
  <1>4. ASSUME NEW c \in Connections, OpenConnection(c) PROVE HandleInv'
    <2>1. /\ status' = [status EXCEPT ![c] = "open"] /\ closing = None
          /\ session' = [session EXCEPT ![c] = sessions + 1]
          /\ alive' = alive \cup {sessions + 1}
          /\ UNCHANGED <<closing, lastConn, taskConn, state, crashed>>
      BY <1>4 DEF OpenConnection, Connect, MainFree
    <2>2. \A d \in Connections : Open(d)' => Live(d)'
      BY <1>1, <2>1 DEF HandleInv, Open, Live
    <2> QED
      BY <1>1, <2>1, <2>2 DEF HandleInv, Open, HandleIsThere
  <1>5. ASSUME NEW c \in Connections, SelectConnection(c) \/ Browse(c)
        PROVE  HandleInv'
    BY <1>3, <1>5, PingLive DEF SelectConnection, Browse, HandleInv, Open
  <1>6. ASSUME NEW t \in Tabs, OpenTab(t) PROVE HandleInv'
    BY <1>3, <1>6 DEF OpenTab
  <1>7. ASSUME NEW t \in Tabs, CloseTab(t) PROVE HandleInv'
    BY <1>2, <1>7 DEF CloseTab
  <1>8. ASSUME NEW t \in Tabs, Cancel(t) PROVE HandleInv'
    <2>1. lastConn[t] # None => Live(lastConn[t])
      BY <1>1 DEF HandleInv, Open
    <2> QED
      BY <1>3, <1>8, <2>1, PingLive DEF Cancel, KillQuery
  <1>9. ASSUME NEW t \in Tabs, NEW b \in Batches, Exec(t, b) PROVE HandleInv'
    <2>1. active \in Connections /\ status[active] = "open"
      BY <1>1, <1>9 DEF Exec
    <2>2. UNCHANGED <<session, alive>>
      BY <1>9, <2>1, PingLive DEF Exec, HandleInv, Open
    <2> QED
      BY <1>1, <1>2, <1>9, <2>1, <2>2 DEF Exec
  <1>10. ASSUME Deselect \/ Deliver PROVE HandleInv'
    BY <1>3, <1>10 DEF Deselect, Deliver
  <1>11. ASSUME CloseConnection PROVE HandleInv'
    <2>1. /\ active \in Connections /\ status[active] = "open" /\ closing = None
          /\ status' = [status EXCEPT ![active] = "closed"]
          /\ closing' = active
          /\ lastConn' = [t \in Tabs |-> IF lastConn[t] = active THEN None
                                                                 ELSE lastConn[t]]
          /\ UNCHANGED <<taskConn, state, session, alive, crashed>>
      BY <1>1, <1>11 DEF CloseConnection, MainFree
    <2>2. \A c \in Connections : Open(c)' <=> Open(c)
      BY <1>1, <2>1 DEF Open, Statuses
    <2> QED
      BY <1>1, <2>1, <2>2 DEF HandleInv, Live, HandleIsThere
  <1>12. ASSUME NEW c \in Connections, KeepAlive(c) PROVE HandleInv'
    <2>1. ~Open(c) /\ session' = [session EXCEPT ![c] = NullHandle]
      BY <1>12 DEF KeepAlive, HandleInv
    <2> QED
      BY <1>1, <1>12, <2>1 DEF KeepAlive, HandleInv, Open, Live, HandleIsThere
  <1>13. ASSUME NEW c \in Connections, EndThread(c) PROVE HandleInv'
    <2>1. /\ closing = c /\ closing' = None /\ status[c] = "closed"
          /\ UNCHANGED <<status, lastConn, taskConn, crashed>>
          /\ session' = [session EXCEPT ![c] = NullHandle]
          /\ alive' = alive \ {session[c]}
          /\ \A b \in Batches : taskConn[b] = c =>
                state'[b] \notin {"posted", "running"}
          /\ \A b \in Batches : state'[b] \in {"posted", "running"} =>
                state[b] \in {"posted", "running"} /\ taskConn[b] \in Connections
      BY <1>1, <1>13 DEF EndThread, HandleInv, Idle, Runs
    <2>2. ASSUME NEW d \in Connections, status[d] = "open"
          PROVE  Live(d)'
      <3>1. d # c /\ session[d] \in alive /\ session[d] > 0
        <4>1. d # c
          BY <2>1, <2>2
        <4>2. session[d] \in alive
          BY <2>2 DEF HandleInv, Open, Live
        <4>3. session[d] \in Nat /\ 1 <= session[d]
          BY <1>1, <4>2
        <4> QED
          BY <4>1, <4>2, <4>3
      <3>2. session[c] # session[d] /\ session'[d] = session[d]
        BY <1>1, <2>1, <3>1
      <3> QED
        BY <2>1, <3>1, <3>2 DEF Live
    <2> QED
      BY <1>1, <2>1, <2>2 DEF HandleInv, Open, HandleIsThere
  <1>14. ASSUME NEW b \in Batches, Worker(b) PROVE HandleInv'
    <2>1. ~SendOnNullHandle(b)
      <3>1. ASSUME state[b] = "running" PROVE session[taskConn[b]] # NullHandle
        BY <1>1, <3>1 DEF HandleInv, Live, NullHandle
      <3> QED
        BY <3>1 DEF SendOnNullHandle
    <2> QED
      BY <1>1, <1>2, <1>14, <2>1
      DEF Worker, TakeTask, SendQuery, ExecuteQuery, ReportQuery, CheckAbort,
          EmitFinished, LeaveTask
  <1>15. CASE UNCHANGED vars
    BY <1>3, <1>15 DEF vars
  <1> QED
    BY <1>4, <1>5, <1>6, <1>7, <1>8, <1>9, <1>10, <1>11, <1>12, <1>13, <1>14, <1>15
    DEF Next, User

(* As long as the network and the server drop no session, no statement is     *)
(* sent on a null handle, whatever is opened, closed and run meanwhile: a     *)
(* connection's handle goes only after its thread has stopped.              *)
THEOREM HandleStaysThere ==
  ASSUME Droppable = {}
  PROVE  Spec => []HandleIsThere
  <1>1. Init => HandleInv
    BY InitHandle
  <1>2. IInv /\ HandleInv /\ [Next]_vars => HandleInv'
    BY NextHandle
  <1>3. HandleInv => HandleIsThere
    BY DEF HandleInv
  <1> QED
    BY <1>1, <1>2, <1>3, IInvHolds, PTL DEF Spec
=============================================================================
