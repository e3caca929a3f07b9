--------------------------- MODULE QueryExecution ---------------------------
(***************************************************************************)
(* The execution of the statements typed into query tabs, on MySQL          *)
(* connections without an SSH tunnel: UserQuery (the model behind a tab),    *)
(* QueriesTask and its BatchExecutor (a batch), DbThread (a connection's     *)
(* worker thread and its tasks), ConnectionsManager (which connections are   *)
(* open and which is active), the connection's handle and cached server id, *)
(* and the query killer behind the cancel button.                           *)
(*                                                                         *)
(* Threads: the main thread, which runs user actions, timers and the slots   *)
(* of queued signals one at a time; one worker per connection, which runs    *)
(* the posted tasks one at a time and emits signals that Qt queues to the    *)
(* main thread; the server, which answers statements, drops sessions and     *)
(* obeys KILL QUERY.  A main-thread handler that takes the connection's      *)
(* mutex waits for the worker to leave MySQLConnection::query; nothing else  *)
(* interrupts it, so each handler is one action.                             *)
(***************************************************************************)
EXTENDS BatchExecutor, FiniteSets

CONSTANTS Tabs,         \* query tabs; a closed one may be opened again
          FirstTab,     \* the tab without a close button
          Connections,  \* Connection objects; each is opened and closed once
          Batches,      \* QueriesTask objects; each is posted once
          Size,         \* number of statements of each batch
          None,         \* the null pointer
          MaxSessions,  \* bound: sessions the server hands out
          Droppable     \* bound: sessions the network or the server may end

ASSUME ExecutionAssumption ==
    /\ FirstTab \in Tabs
    /\ Size \in [Batches -> Nat \ {0}]
    /\ None \notin Tabs \cup Connections \cup Batches
    /\ MaxSessions \in Nat
    /\ Droppable \subseteq Nat

VARIABLES
    status,      \* of a connection: "new", "open" or "closed" (_connections)
    active,      \* the active session's connection (_activeSession)
    tabs,        \* the tabs there are (UserQueriesManager::_userQueries)
    isRunning,   \* UserQuery::_isRunning
    lastConn,    \* UserQuery::_lastRunningConnection
    queriesTask, \* UserQuery::_queriesTask
    resultsData, \* UserQuery::_resultsData: the statement of each result
    state,       \* where a QueriesTask is in its life
    taskConn,    \* QueriesTask::_connection
    listener,    \* the UserQuery a task's signals are connected to
    ex,          \* QueriesTask::_executor
    inbox,       \* "run" calls queued to a connection's thread
    owned,       \* DbThread::_tasks
    events,      \* queued signals waiting for the main thread
    closing,     \* the connection whose ~DbThread main is blocked in
    session,     \* MySQLConnection::_handle: NullHandle, Unconnected when
                 \* mysql_real_connect failed, else the session it has
    knownId,     \* Connection::_connectionIdOnServer
    alive,       \* sessions alive on the server
    sessions,    \* sessions handed out so far
    interrupted, \* batches whose statement in progress was hit by KILL QUERY
    crashed      \* a null handle was passed to the client library

managerVars == <<status, active>>
tabVars     == <<tabs, isRunning, lastConn, queriesTask, resultsData>>
lifeVars    == <<state, taskConn, listener>>
taskVars    == <<lifeVars, ex>>
threadVars  == <<inbox, owned>>
mainVars    == <<events, closing>>
handleVars  == <<session, alive, sessions>>
serverVars  == <<handleVars, knownId, interrupted, crashed>>

vars == <<managerVars, tabVars, taskVars, threadVars, mainVars, serverVars>>
-----------------------------------------------------------------------------
NullHandle  == 0
Unconnected == -1
NotFetched  == -1

Statuses   == {"new", "open", "closed"}
TaskStates == {"new", "posted", "running", "leaving", "returned", "discarded"}

(* Queued signals of a task: queryFinished and finished to the UserQuery it  *)
(* is connected to, finished to the DbThread it was posted to.  Qt drops a    *)
(* signal whose receiver has been destroyed; a receiver never comes back, so *)
(* here it is looked up when the signal is delivered.                        *)
Event == [kind  : {"queryFinished", "queriesFinished", "taskFinished"},
          batch : Batches,
          index : Nat]

Signal(signal, b, i) == [kind |-> signal, batch |-> b, index |-> i]

(* The batch whose QueriesTask::run is on the stack of c's thread.          *)
Runs(c, b) == taskConn[b] = c /\ state[b] \in {"running", "leaving"}

(* Mutants of Idle: ~DbThread does not wait; it waits for the tasks' slots,  *)
(* which need the main thread it blocks.                                    *)
IdleAlways(c)    == c \in Connections
IdleOwnsNone(c)  == /\ \A b \in Batches : ~Runs(c, b)
                    /\ closing = c => owned[c] = {}

Idle(c) == \A b \in Batches : ~Runs(c, b)

(* The worker is inside MySQLConnection::query and holds the mutex.         *)
Executing(b) == state[b] = "running" /\ ex[b].pc = "executing"

(* Mutant of Busy: ping does not try the mutex.                            *)
BusyNever(c) == c \notin Connections

Busy(c) == \E b \in Batches : taskConn[b] = c /\ Executing(b)

Live(c) == session[c] \in alive

(* The main thread is in its event loop.                                   *)
MainFree == closing = None

Init ==
    /\ status = [c \in Connections |-> "new"]
    /\ active = None
    /\ tabs \in {T \in SUBSET Tabs : FirstTab \in T}
    /\ isRunning = [t \in Tabs |-> FALSE]
    /\ lastConn = [t \in Tabs |-> None]
    /\ queriesTask = [t \in Tabs |-> None]
    /\ resultsData = [t \in Tabs |-> <<>>]
    /\ state = [b \in Batches |-> "new"]
    /\ taskConn = [b \in Batches |-> None]
    /\ listener = [b \in Batches |-> None]
    /\ ex \in [Batches -> NewExecutors]
    /\ inbox = [c \in Connections |-> <<>>]
    /\ owned = [c \in Connections |-> {}]
    /\ events = <<>>
    /\ closing = None
    /\ session = [c \in Connections |-> NullHandle]
    /\ knownId = [c \in Connections |-> NotFetched]
    /\ alive = {}
    /\ sessions = 0
    /\ interrupted = {}
    /\ crashed = FALSE
-----------------------------------------------------------------------------
(* MySQLConnection's handle, on the main thread.                           *)

(* setActive(true) that succeeds: a session of its own, numbered in the order *)
(* of connecting.  The id a session has on the server is given out again     *)
(* only after it has ended: see Bearers.                                    *)
Connect(c) ==
    /\ sessions < MaxSessions
    /\ sessions' = sessions + 1
    /\ session' = [session EXCEPT ![c] = sessions + 1]
    /\ alive' = alive \cup {sessions + 1}

(* setActive(true) that throws: mysql_real_connect failed, or it connected *)
(* and the ping that follows closed the handle again.                      *)
FailConnect(c) ==
    /\ \E h \in {NullHandle, Unconnected} : session' = [session EXCEPT ![c] = h]
    /\ UNCHANGED <<alive, sessions>>

(* ping(true), which returns (ok) or throws (~ok).  It does nothing when   *)
(* the worker holds the mutex or the server answers; otherwise it closes   *)
(* the handle and connects again.                                          *)
PingReconnect(c, ok) ==
    IF Busy(c) \/ Live(c)
    THEN ok /\ UNCHANGED handleVars
    ELSE (ok /\ Connect(c)) \/ (~ok /\ FailConnect(c))

(* connectionIdOnServer(): the id is asked for once in the life of the     *)
(* connection, and is 0 when the statement that asks for it fails.  The     *)
(* statement needs the mutex.                                              *)
FetchId(c, ok) ==
    IF knownId[c] # NotFetched
    THEN UNCHANGED knownId
    ELSE /\ ~Busy(c)
         /\ \E id \in IF ok THEN {session'[c], 0} ELSE {0} :
                knownId' = [knownId EXCEPT ![c] = id]
-----------------------------------------------------------------------------
(* The main thread: what the user does.                                    *)

OpenConnection(c) ==
    /\ MainFree
    /\ status[c] = "new"
    /\ Connect(c)
    /\ status' = [status EXCEPT ![c] = "open"]
    /\ UNCHANGED <<active, tabVars, taskVars, threadVars, mainVars, knownId,
                   interrupted, crashed>>

SelectConnection(c) ==
    /\ MainFree
    /\ status[c] = "open"
    /\ active # c
    /\ active' = c
    /\ UNCHANGED <<status, tabVars, taskVars, threadVars, mainVars, serverVars>>

(* EntitiesTreeModel::onEmptySelection, which a refresh of the tree calls    *)
(* too: without a session there are no widgets of query tabs to click on,    *)
(* the UserQueries stay.                                                    *)
Deselect ==
    /\ MainFree
    /\ active # None
    /\ active' = None
    /\ UNCHANGED <<status, tabVars, taskVars, threadVars, mainVars, serverVars>>

(* A statement the main thread itself runs on an open connection, for the    *)
(* tree or the data tab: it waits for the mutex and pings first.             *)
Browse(c) ==
    /\ MainFree
    /\ status[c] = "open"
    /\ ~Busy(c)
    /\ \E ok \in BOOLEAN : PingReconnect(c, ok)
    /\ UNCHANGED <<managerVars, tabVars, taskVars, threadVars, mainVars, knownId,
                   interrupted, crashed>>

OpenTab(t) ==
    /\ MainFree
    /\ active # None
    /\ t \notin tabs
    /\ tabs' = tabs \cup {t}
    /\ UNCHANGED <<managerVars, isRunning, lastConn, queriesTask, resultsData,
                   taskVars, threadVars, mainVars, serverVars>>

(* UserQueriesManager::removeUserQueryAt and ~UserQuery.  Nothing stops the *)
(* task of the tab; the signals queued to the tab are dropped by Qt.         *)
CloseTab(t) ==
    /\ MainFree
    /\ active # None
    /\ t \in tabs \ {FirstTab}
    /\ tabs' = tabs \ {t}
    /\ isRunning' = [isRunning EXCEPT ![t] = FALSE]
    /\ lastConn' = [lastConn EXCEPT ![t] = None]
    /\ queriesTask' = [queriesTask EXCEPT ![t] = None]
    /\ resultsData' = [resultsData EXCEPT ![t] = <<>>]
    /\ listener' = [b \in Batches |-> IF listener[b] = t THEN None
                                                         ELSE listener[b]]
    /\ UNCHANGED <<managerVars, state, taskConn, ex, threadVars, mainVars,
                   serverVars>>

(* UserQuery::runInCurrentConnection, called when the tab's exec action is   *)
(* enabled: the exception of a failed reconnection is swallowed and the      *)
(* batch is posted all the same.                                            *)
Exec(t, b) ==
    /\ MainFree
    /\ t \in tabs
    /\ ~isRunning[t]
    /\ active # None
    /\ state[b] = "new"
    /\ \E ok \in BOOLEAN :
          /\ PingReconnect(active, ok)
          /\ IF ok THEN FetchId(active, ok) ELSE UNCHANGED knownId
    /\ lastConn' = [lastConn EXCEPT ![t] = active]
    /\ isRunning' = [isRunning EXCEPT ![t] = TRUE]
    /\ resultsData' = [resultsData EXCEPT ![t] = <<>>]
    /\ queriesTask' = [queriesTask EXCEPT ![t] = b]
    /\ taskConn' = [taskConn EXCEPT ![b] = active]
    /\ listener' = [listener EXCEPT ![b] = t]
    /\ state' = [state EXCEPT ![b] = "posted"]
    /\ owned' = [owned EXCEPT ![active] = @ \cup {b}]
    /\ inbox' = [inbox EXCEPT ![active] = Append(@, b)]
    /\ UNCHANGED <<managerVars, tabs, ex, mainVars, interrupted, crashed>>

(* The sessions that may bear an id: the one it was fetched from or, when     *)
(* that has ended, a later one, for a server that is started again gives the *)
(* same ids out again.                                                     *)
Bearers(id, live) == IF id \in live THEN {id} ELSE {s \in live : 0 < id /\ id < s}

(* ConnectionQueryKiller::run: KILL QUERY <id> through a helper connection,  *)
(* which may fail; the id is fetched first if it never was.                 *)
KillQuery(c) ==
    /\ IF knownId[c] = NotFetched
       THEN \E ok \in BOOLEAN : PingReconnect(c, ok) /\ FetchId(c, ok)
       ELSE UNCHANGED <<handleVars, knownId>>
    /\ \E hit \in {{}} \cup {{b \in Batches : Executing(b) /\ session[taskConn[b]] = s} :
                                  s \in Bearers(knownId'[c], alive')} :
          interrupted' = interrupted \cup hit

(* A mutant of Cancel: the query is killed on the active connection.         *)
CancelActive(t) ==
    /\ MainFree
    /\ active # None
    /\ t \in tabs
    /\ isRunning[t]
    /\ ex' = [ex EXCEPT ![queriesTask[t]] = Abort(@)]
    /\ KillQuery(active)
    /\ UNCHANGED <<managerVars, tabVars, lifeVars, threadVars, mainVars, crashed>>

(* CentralRightQueryPresenter::cancelQueries.                              *)
Cancel(t) ==
    /\ MainFree
    /\ active # None
    /\ t \in tabs
    /\ isRunning[t]
    /\ ex' = [ex EXCEPT ![queriesTask[t]] = Abort(@)]
    /\ IF lastConn[t] = None
       THEN UNCHANGED <<handleVars, knownId, interrupted>>
       ELSE KillQuery(lastConn[t])
    /\ UNCHANGED <<managerVars, tabVars, lifeVars, threadVars, mainVars, crashed>>

(* closeActiveConnection up to ~DbThread: the tabs forget the connection,   *)
(* then the main thread waits for the connection's thread.                  *)
CloseConnection ==
    /\ MainFree
    /\ active # None
    /\ status' = [status EXCEPT ![active] = "closed"]
    /\ active' = None
    /\ lastConn' = [t \in Tabs |-> IF lastConn[t] = active THEN None
                                                           ELSE lastConn[t]]
    /\ closing' = active
    /\ UNCHANGED <<tabs, isRunning, queriesTask, resultsData, taskVars,
                   threadVars, events, serverVars>>

(* The thread has left its event loop: calls still queued to it are         *)
(* dropped, ~DbThread returns and ~MySQLConnection closes the handle.       *)
EndThread(c) ==
    /\ closing = c
    /\ Idle(c)
    /\ state' = [b \in Batches |-> IF taskConn[b] = c /\ state[b] = "posted"
                                   THEN "discarded" ELSE state[b]]
    /\ inbox' = [inbox EXCEPT ![c] = <<>>]
    /\ owned' = [owned EXCEPT ![c] = {}]
    /\ closing' = None
    /\ session' = [session EXCEPT ![c] = NullHandle]
    /\ alive' = alive \ {session[c]}
    /\ UNCHANGED <<managerVars, tabVars, taskConn, listener, ex, events,
                   sessions, knownId, interrupted, crashed>>
-----------------------------------------------------------------------------
(* The main thread: its timers and the slots of queued signals.            *)

(* keepAliveTimeout -> ping(false): a handle the server does not answer on  *)
(* is closed, and not opened again.                                        *)
KeepAlive(c) ==
    /\ MainFree
    /\ ~Busy(c)
    /\ session[c] # NullHandle
    /\ ~Live(c)
    /\ session' = [session EXCEPT ![c] = NullHandle]
    /\ UNCHANGED <<managerVars, tabVars, taskVars, threadVars, mainVars, alive,
                   sessions, knownId, interrupted, crashed>>

(* Mutants of OnQueryFinished: the latest result is read; every tab that     *)
(* runs is shown the result; a statement without rows is shown; the last     *)
(* statement ends the run.                                                  *)
ShowLatest(t, i) ==
    /\ resultsData' = [resultsData EXCEPT ![t] = Append(@, ex[queriesTask[t]].index)]
    /\ i \in Nat
    /\ UNCHANGED <<isRunning, owned>>

ShowEverywhere(t, i) ==
    /\ resultsData' = [u \in Tabs |->
                          IF isRunning[u] /\ ex[queriesTask[t]].results[i + 1] = "rows"
                          THEN Append(resultsData[u], i) ELSE resultsData[u]]
    /\ UNCHANGED <<isRunning, owned>>

ShowRowless(t, i) ==
    /\ resultsData' = [resultsData EXCEPT ![t] = Append(@, i)]
    /\ UNCHANGED <<isRunning, owned>>

LastEndsRun(t, i) ==
    /\ isRunning' = [isRunning EXCEPT ![t] = @ /\ i + 1 < Size[queriesTask[t]]]
    /\ UNCHANGED <<resultsData, owned>>

(* UserQuery::onQueryFinished: the result is looked up in the tab's current  *)
(* task, whichever task sent the signal.                                    *)
OnQueryFinished(t, i) ==
    /\ resultsData' =
          IF ex[queriesTask[t]].results[i + 1] = "rows"
          THEN [resultsData EXCEPT ![t] = Append(@, i)]
          ELSE resultsData
    /\ UNCHANGED <<isRunning, owned>>

(* Mutant of OnQueriesFinished: a failed run keeps the tab busy.           *)
FailureKeepsRunning(t) ==
    /\ isRunning' = [isRunning EXCEPT ![t] = ex[queriesTask[t]].failed]
    /\ UNCHANGED <<resultsData, owned>>

(* UserQuery::onQueriesFinished.                                           *)
OnQueriesFinished(t) ==
    /\ isRunning' = [isRunning EXCEPT ![t] = FALSE]
    /\ UNCHANGED <<resultsData, owned>>

(* Mutants of OnTaskFinished: every task is released; the task of a closed   *)
(* tab is not.                                                             *)
ReleaseAll(c, b) ==
    /\ owned' = [owned EXCEPT ![c] = @ \ (Batches \cup {b})]
    /\ UNCHANGED <<isRunning, resultsData>>

ReleaseListened(c, b) ==
    /\ owned' = [owned EXCEPT ![c] = IF listener[b] = None THEN @ ELSE @ \ {b}]
    /\ UNCHANGED <<isRunning, resultsData>>

(* DbThread::onTaskFinished.                                               *)
OnTaskFinished(c, b) ==
    /\ owned' = [owned EXCEPT ![c] = @ \ {b}]
    /\ UNCHANGED <<isRunning, resultsData>>

DropSignal == UNCHANGED <<isRunning, resultsData, owned>>

Deliver ==
    /\ MainFree
    /\ events # <<>>
    /\ LET e == Head(events)
           t == listener[e.batch]
       IN  \/ e.kind = "queryFinished" /\ t # None /\ OnQueryFinished(t, e.index)
           \/ e.kind = "queriesFinished" /\ t # None /\ OnQueriesFinished(t)
           \/ e.kind = "taskFinished" /\ OnTaskFinished(taskConn[e.batch], e.batch)
           \/ e.kind # "taskFinished" /\ t = None /\ DropSignal
    /\ events' = Tail(events)
    /\ UNCHANGED <<managerVars, tabs, lastConn, queriesTask, taskVars, inbox,
                   closing, serverVars>>
-----------------------------------------------------------------------------
(* The worker of the connection a batch was posted to.                     *)

(* run() up to where it next meets another thread: the next statement is     *)
(* pushed, or run() returns.  Between these points it changes nothing that   *)
(* the main thread reads, so it goes with the step before it.               *)
Advance(e) ==
    IF HasNext(e) THEN Push(e) ELSE IF Finished(e) THEN Return(e) ELSE e

(* The thread's event loop calls the next posted QueriesTask::run, which     *)
(* starts BatchExecutor::run.                                              *)
TakeTask(b) ==
    LET c == taskConn[b]
    IN  /\ state[b] = "posted"
        /\ inbox[c] # <<>>
        /\ Head(inbox[c]) = b
        /\ Idle(c)
        /\ inbox' = [inbox EXCEPT ![c] = Tail(@)]
        /\ state' = [state EXCEPT ![b] = "running"]
        /\ ex' = [ex EXCEPT ![b] = Advance(Reset(@, Size[b]))]
        /\ UNCHANGED <<managerVars, tabVars, taskConn, listener, owned, mainVars,
                       serverVars>>

(* MySQLConnection::query takes the mutex and sends the statement; worker   *)
(* threads do not ping first.                                              *)
SendQuery(b) ==
    /\ state[b] = "running"
    /\ ex[b].pc = "pushed"
    /\ session[taskConn[b]] # NullHandle
    /\ ex' = [ex EXCEPT ![b] = Send(@)]
    /\ UNCHANGED <<managerVars, tabVars, lifeVars, threadVars, mainVars,
                   serverVars>>

SendOnNullHandle(b) ==
    /\ state[b] = "running"
    /\ ex[b].pc = "pushed"
    /\ session[taskConn[b]] = NullHandle
    /\ crashed' = TRUE
    /\ UNCHANGED <<managerVars, tabVars, taskVars, threadVars, mainVars,
                   handleVars, knownId, interrupted>>

(* The server answers; a dead session can only fail.                       *)
ExecuteQuery(b) ==
    /\ Executing(b)
    /\ \E outcome \in IF Live(taskConn[b]) THEN Outcomes ELSE {"error"} :
          ex' = [ex EXCEPT ![b] = Executed(@, outcome)]
    /\ interrupted' = interrupted \ {b}
    /\ UNCHANGED <<managerVars, tabVars, lifeVars, threadVars, mainVars,
                   handleVars, knownId, crashed>>

(* afterQueryExecution -> QueriesTask::queryFinished, queued to the tab.     *)
ReportQuery(b) ==
    /\ state[b] = "running"
    /\ ex[b].pc = "emit"
    /\ ex' = [ex EXCEPT ![b] = Report(@)]
    /\ events' = Append(events, Signal("queryFinished", b, ex[b].index))
    /\ UNCHANGED <<managerVars, tabVars, lifeVars, threadVars, closing,
                   serverVars>>

(* The loop looks at _isAborted, then goes on or leaves.                    *)
CheckAbort(b) ==
    /\ state[b] = "running"
    /\ ex[b].pc = "check"
    /\ ex' = [ex EXCEPT ![b] = Advance(Check(@))]
    /\ UNCHANGED <<managerVars, tabVars, lifeVars, threadVars, mainVars,
                   serverVars>>

(* QueriesTask::run emits finished(): the tab was connected before the      *)
(* DbThread.                                                               *)
EmitFinished(b) ==
    /\ state[b] = "running"
    /\ ex[b].pc = "done"
    /\ state' = [state EXCEPT ![b] = "leaving"]
    /\ events' = events \o <<Signal("queriesFinished", b, 0),
                            Signal("taskFinished", b, 0)>>
    /\ UNCHANGED <<managerVars, tabVars, taskConn, listener, ex, threadVars,
                   closing, serverVars>>

(* run() reads isFailed() once more and returns to the event loop.          *)
LeaveTask(b) ==
    /\ state[b] = "leaving"
    /\ state' = [state EXCEPT ![b] = "returned"]
    /\ UNCHANGED <<managerVars, tabVars, taskConn, listener, ex, threadVars,
                   mainVars, serverVars>>

Worker(b) ==
    \/ TakeTask(b) \/ SendQuery(b) \/ SendOnNullHandle(b) \/ ExecuteQuery(b)
    \/ ReportQuery(b) \/ CheckAbort(b) \/ EmitFinished(b) \/ LeaveTask(b)
-----------------------------------------------------------------------------
(* The server or the network ends a session.                               *)
DropSession(s) ==
    /\ alive' = alive \ {s}
    /\ UNCHANGED <<managerVars, tabVars, taskVars, threadVars, mainVars,
                   session, sessions, knownId, interrupted, crashed>>

User ==
    \/ \E c \in Connections :
          OpenConnection(c) \/ SelectConnection(c) \/ Browse(c)
    \/ \E t \in Tabs : OpenTab(t) \/ CloseTab(t) \/ Cancel(t)
    \/ \E t \in Tabs, b \in Batches : Exec(t, b)
    \/ Deselect \/ CloseConnection

Next ==
    /\ ~crashed
    /\ \/ User
       \/ Deliver
       \/ \E c \in Connections : KeepAlive(c) \/ EndThread(c)
       \/ \E b \in Batches : Worker(b)
       \/ \E s \in alive \cap Droppable : DropSession(s)

Spec == Init /\ [][Next]_vars

(* The event loops of both threads run and the server answers every          *)
(* statement; the user, the timer and the network promise nothing.           *)
Fairness ==
    /\ WF_vars(~crashed /\ Deliver)
    /\ \A c \in Connections : WF_vars(~crashed /\ EndThread(c))
    /\ \A b \in Batches : WF_vars(~crashed /\ Worker(b))

FairSpec == Spec /\ Fairness
-----------------------------------------------------------------------------
(* The types of the members the variables stand for; an index that leaves    *)
(* Nat or a state no handler knows would show here.                          *)
TypeOK ==
    /\ status \in [Connections -> Statuses]
    /\ active \in Connections \cup {None}
    /\ tabs \subseteq Tabs
    /\ isRunning \in [Tabs -> BOOLEAN]
    /\ lastConn \in [Tabs -> Connections \cup {None}]
    /\ queriesTask \in [Tabs -> Batches \cup {None}]
    /\ resultsData \in [Tabs -> Seq(Nat)]
    /\ state \in [Batches -> TaskStates]
    /\ taskConn \in [Batches -> Connections \cup {None}]
    /\ listener \in [Batches -> Tabs \cup {None}]
    /\ ex \in [Batches -> Executors]
    /\ inbox \in [Connections -> Seq(Batches)]
    /\ owned \in [Connections -> SUBSET Batches]
    /\ events \in Seq(Event)
    /\ closing \in Connections \cup {None}
    /\ session \in [Connections -> Nat \cup {Unconnected}]
    /\ knownId \in [Connections -> Nat \cup {NotFetched}]
    /\ alive \subseteq Nat
    /\ sessions \in Nat
    /\ interrupted \subseteq Batches
    /\ crashed \in BOOLEAN

Reported(e) ==
    IF e.pc \in {"pushed", "executing", "emit"} THEN Len(e.results) - 1
                                                ELSE Len(e.results)

Pending(signal, b) ==
    \E i \in 1 .. Len(events) : events[i].kind = signal /\ events[i].batch = b

(* A signal that will reach a tab comes from the task the tab looks results *)
(* up in, and names a statement that task has answered, so onQueryFinished  *)
(* never shows another batch's result nor reads one that is being written.  *)
EventsMatchTask ==
    \A i \in 1 .. Len(events) :
        LET e == events[i]
            t == listener[e.batch]
        IN  e.kind # "taskFinished" /\ t # None =>
                /\ t \in tabs /\ isRunning[t] /\ queriesTask[t] = e.batch
                /\ e.kind = "queryFinished" => e.index < Reported(ex[e.batch])

(* The busy flag that blocks a second run is up exactly while the tab's task *)
(* waits, runs or has its finished() on the way, or for ever when the       *)
(* connection was closed before the task was begun.                         *)
RunningIsAccounted ==
    \A t \in tabs :
        isRunning[t] <=>
            \E b \in Batches :
                /\ queriesTask[t] = b
                /\ \/ state[b] \in {"posted", "running", "discarded"}
                   \/ Pending("queriesFinished", b)

(* A task that is queued to a thread or whose batch is in progress is owned *)
(* by the DbThread, whatever the tabs do ("own task ref to avoid external    *)
(* removal", db_thread.cpp).                                                *)
TaskKeptAlive ==
    \A b \in Batches :
        state[b] \in {"posted", "running"} => b \in owned[taskConn[b]]

(* Cancelling a tab leaves the statements of other connections alone,        *)
(* wherever the tab has been moved since, unless the session whose id was     *)
(* fetched has ended: the cached id is not fetched again, and KILL QUERY hits *)
(* whoever bears it now.                                                    *)
CancelStaysHome ==
    [][\A t \in Tabs :
           Cancel(t) =>
               LET c == taskConn[queriesTask[t]]
               IN  \/ knownId'[c] \notin alive'
                   \/ \A b \in interrupted' \ interrupted : taskConn[b] = c]_vars

(* While a statement is on the wire the main thread neither closes nor       *)
(* replaces the handle it was sent on (the mutex "protects _handle", and     *)
(* ~DbThread waits for the thread before the connection is closed).         *)
HandleProtected ==
    [][\A b \in Batches :
           Executing(b) => session'[taskConn[b]] = session[taskConn[b]]]_vars

StatementIndexes == UNION {0 .. Size[b] - 1 : b \in Batches}

ProducedBy(b) ==
    {i \in StatementIndexes : /\ i < Reported(ex[b])
                              /\ ex[b].results[i + 1] = "rows"}

Produced(t) == IF queriesTask[t] = None THEN {} ELSE ProducedBy(queriesTask[t])

Feed == INSTANCE ResultFeed WITH
    Indexes  <- StatementIndexes,
    running  <- isRunning,
    produced <- [t \in Tabs |-> Produced(t)],
    shown    <- resultsData

(* The tabs keep the promise of ResultFeed: the threads and the two queues   *)
(* between a tab and its statements are invisible in what the tab shows,     *)
(* and tabs are invisible to each other.                                    *)
TabsFeedResults == Feed!Spec

Stuck(t) == queriesTask[t] # None /\ state[queriesTask[t]] = "discarded"

(* A tab that is running stops running, unless its task was dropped with    *)
(* the thread.                                                             *)
RunEnds ==
    \A t \in Tabs : isRunning[t] ~> ~isRunning[t] \/ Stuck(t) \/ crashed

(* Closing a connection under running batches gives the main thread back.   *)
CloseReturns == closing # None ~> closing = None \/ crashed

(* No task stays in DbThread::_tasks for ever.                              *)
TasksReleased ==
    \A b \in Batches : \A c \in Connections :
        b \in owned[c] ~> b \notin owned[c] \/ crashed

(* No batch is run on a handle that is not there, whatever is closed while it *)
(* waits or runs, as long as no session is dropped: the exception of a failed *)
(* reconnection is swallowed.                                               *)
HandleIsThere == ~crashed

(* db_thread.cpp, at _tasks: "own task ref to avoid external removal".  A    *)
(* task whose run() has not returned is owned by its thread or its tab;      *)
(* which is not so between its finished() and its return.                    *)
TaskOutlivesRun ==
    \A b \in Batches :
        state[b] \in {"running", "leaving"} =>
            b \in owned[taskConn[b]] \/ \E t \in tabs : queriesTask[t] = b
=============================================================================
