# meow-sql in TLA+

meow-sql is a Qt desktop client for MySQL, PostgreSQL and SQLite. This directory holds TLA+ models of the
parts of it whose correctness depends on the order in which things happen, TLC configurations that check
them on small instances, and TLAPS proofs that hold for every size. Paths below are relative to the root of
the repository, which is called `src/` in `PROJECT.json`.

## 1. The system

| Part | State it keeps | Operations | Talks to |
|---|---|---|---|
| Batch executor `db/user_query/batch_executor` | results, index, counters, `_failed`, `_isAborted` | `run` (worker), `abort` and getters (main) | signals to its task |
| Query tab model `db/user_query/user_query` | `_isRunning`, `_lastRunningConnection`, `_queriesTask`, `_resultsData`, text | run, abort, slots for the task's signals, connection closed | creates tasks, posts them, pings the connection |
| Worker thread `threads/db_thread`, `threads/queries_task` | `_tasks`, the thread's queue, the init task | `postTask`, `onTaskFinished`, destructor (quit, wait) | queued calls to the worker, queued signals to main |
| Connection `db/connection`, `db/mysql/mysql_connection` | `_handle`, `_active`, `_connectionIdOnServer`, mutex, keep-alive timer | `setActive`, `ping`, `query`, `connectionIdOnServer` | the MySQL server |
| Query killer `db/connection_query_killer` | none | `run` | a helper connection |
| Connections manager `db/connections_manager` | `_connections`, `_activeSession`, current entity | open, close, select, deselect, refresh | tree, tabs |
| Query widgets `ui/main_window/central_right*`, presenter | enabled actions, result pages | exec, cancel, new tab, close tab | `UserQuery` |
| Row editing `db/query_data`, `db/editable_grid_data`, `db/query_data_editor`, `ui/models/data_table_model` | rows, the row being edited, the row to insert | edit, insert, delete, apply, discard, fetch more, sort | synchronous statements |
| Tabs persistence `settings/queries_storage` | files and QSettings | load, save, backup | `UserQuery` |
| SSH tunnels `ssh/` | sockets, a thread or a process per tunnel | connect, accept, forward, close | inside `setActive` |
| Statement splitter `db/user_query/sentences_parser` | none (pure) | `parseByDelimiter` | exec |
| Entity tree, structure editors, user manager, exports, dialogs | caches and dialog state | sequential | |

What is hard about it: two kinds of threads share an executor, a connection handle and a task list; a run is
reported by queued signals that arrive when the tab, its task or its connection may have gone; connections
are dropped by the server and silently replaced; closing a connection blocks the main thread on a worker;
and a cancel races the run it is meant to stop. A tunnel adds a thread of its own and one per client, which wait for
each other with mutexes held; saving the tabs writes several files, any of which may fail; and the text of a
tab is scanned twice, by two pieces of code that have to agree. The list, with lines, is `hazards` in
`PROJECT.json`; every hazard there names the properties that would catch it, or says why none does.
All the components, modelled or not, are in `components`.

What makes each part correct:

* executor - the index of a signal names the result of the statement that has just run; counters agree with
  results; a failure, an abort or the end of the batch ends the run, and nothing else does;
* tab - the busy flag is up exactly while a run is in progress; each result of the run is shown once, in order, and
  no other run's;
* worker thread - a task lives as long as somebody uses it and no longer; a close gets the main thread back;
* connection - the handle is not touched while a statement is using it; the cached id is the session's;
* row editing - a statement the grid sends changes the row the user sees; the grid and the table agree;
* persistence - a saved tab is found again after a restart or a crash, with a text of its own;
* tunnels - start and stop always end, a thread never outlives what it uses, and packets keep their order;
* splitter - everything typed is run, the cursor runs the query it is in, and what is coloured as a comment or a
  literal is not taken for the end of a query.

## 2. Modules

```
BatchExecutor            operators on one executor (a record)
  BatchExecutorSpec        one executor: worker in run(), main in abort()
    MCBatchExecutor          for TLC
    BatchExecutorLemmas      what each operator does to the record   (proved)
    BatchExecutorProofs      the invariants of BatchExecutorSpec     (proved)
  QueryExecution           tabs, tasks, workers, connections, server
    MCQueryExecution         for TLC
    QueryExecutionProofs     the invariants of QueryExecution        (proved)
ResultFeed               abstract: what a tab promises; QueryExecution implements it
    ResultFeedProofs         that it does                            (proved)
RowEditing               the data tab of a table and the table on the server
  MCRowEditing             for TLC
  RowEditingProofs         invariants of any user and of a careful one (proved)
SSHTunnel                a libssh tunnel: main, tunnel and forwarding threads, clients
  MCSSHTunnel              for TLC
  SSHTunnelProofs          its safety                                  (proved)
QueriesStorage           query tabs, and saving them file by file
  MCQueriesStorage         for TLC
  QueriesStorageProofs     its safety, and that it implements SavedTabs (proved)
SavedTabs                abstract: what saving promises; QueriesStorage implements it
SentencesParser          the splitter, the highlighter, and the cursor's query
  MCSentencesParser        for TLC
  SentencesParserProofs    its safety, and that the two agree          (proved)
```

### BatchExecutor, BatchExecutorSpec

The executor is a record with one field per member of `BatchExecutor` and a `pc` for the place in `run()`. Every
operator is a stretch of `run()` between two points where another thread can look: `Reset` (the first
block), `Push`, `Send`/`Succeed`/`Fail` (the `try`/`catch` around `Query::execute`), `Report` (the signal),
`Check` (abort flag, `doBreak`, the index), `Return`. `_querySuccessCount` has no initialiser, so it starts as
any member of `Uninitialised`. `BatchExecutorSpec` interleaves these steps with `abort()` at any moment; three
history variables record which indexes were reported, whether an abort was ever asked for, and how many
statements were begun while the flag was set.

### QueryExecution

One action is one handler of the main thread, one step of a worker between two observable points, or one act
of the server.

* main thread, user: `OpenConnection`, `SelectConnection`, `Deselect`, `Browse` (any statement the main thread
  runs itself, for the tree or a grid), `OpenTab`, `CloseTab`, `Exec`, `Cancel`, `CloseConnection`;
* main thread, event loop: `Deliver` (the oldest queued signal: `OnQueryFinished`, `OnQueriesFinished`,
  `OnTaskFinished`, or dropped with its receiver), `KeepAlive`, `EndThread` (the rest of a close, once the
  worker has left);
* worker of a batch's connection: `TakeTask`, `SendQuery` or `SendOnNullHandle`, `ExecuteQuery`, `ReportQuery`,
  `CheckAbort`, `EmitFinished`, `LeaveTask`;
* server: `DropSession`.

| Variable | Code |
|---|---|
| `status`, `active` | `ConnectionsManager::_connections`, `_activeSession` |
| `tabs`, `isRunning`, `lastConn`, `queriesTask`, `resultsData` | `UserQueriesManager::_userQueries` and the members of each `UserQuery` |
| `state`, `taskConn`, `listener`, `ex` | a `QueriesTask`: where it is, `_connection`, the tab connected to its signals, `_executor` |
| `inbox`, `owned` | the calls queued to a `DbThread`'s thread, its `_tasks` |
| `events`, `closing` | the main thread's queue; the `~DbThread` it is blocked in |
| `session`, `knownId` | `MySQLConnection::_handle`, `Connection::_connectionIdOnServer` |
| `alive`, `sessions`, `interrupted`, `crashed` | the server; a batch hit by KILL QUERY; a null handle was used |

Choices a reader should know:

* A main-thread handler is atomic. It waits for the connection's mutex (`~Busy`) where the code does; while it
  waits nothing else runs on the main thread, so the wait can be put before the handler. A session that is
  dropped between two calls of one handler behaves as if it had been dropped before it, or as if the second
  call had failed (`FetchId` may yield 0).
* The mutex is the interval in which a statement is executing: `Busy(c)`. `ping` does nothing then
  (`tryLock` fails), all other main-thread uses wait.
* Signals to a tab carry the batch, not the tab; the receiver is looked up at delivery. Qt drops the queued
  signals of a destroyed object, and `CloseTab` clears `listener`, so both say the same.
* `EndThread` is enabled as soon as the worker is between two tasks, although Qt usually runs the calls already
  in the queue before the loop exits. This allows more behaviours than Qt: the window in which posted tasks are
  lost is wider in the model.
* `Cancel` does not ask for `lastConn[t]`: the enabled state of the button is refreshed when the running flag
  changes and not when the connection is closed, so the click is possible and `cancelQueries` handles it.
* The server may answer a killed statement with an error or finish it first. A killed statement is therefore not told
  apart from any other; `interrupted` only records what the killer reached. The killer's own session is not modelled.
* Sessions are numbered in the order of connecting. What KILL QUERY is given is an id on the server: `Bearers` says that
  the id of a session that has ended may be borne by any later one, as after a restart of the server; that a server does not give an id
  out while it is in use is not used, which allows more. `KillQuery` uses the
  id as the connection has it cached, however old.
* Statements are not told apart by what they do: each returns rows, none, or an error. A statement that returns
  several result sets adds them all in the same slot, so one entry of `resultsData` stands for them.
* `Browse` also stands for `USE` on selecting another database. A tab is opened, closed, run and cancelled only
  with an active session: without one the query widgets do not exist (`removeAllRootTabs`).
* A call with a null handle ends the model (`crashed`): what the process does after it is undefined.
* No SSH tunnel; the error box of `onExecQueriesFinished` (a nested event loop) is not modelled.

### ResultFeed

What a tab promises, without threads or queues: a run is accepted when none is in progress; statements produce
results in order; each is shown once, in order; the run is over only when all of them are shown; closing a tab
clears it. `QueryExecution` defines `Feed` with the refinement mapping: `produced[t]` is computed from the
executor of the tab's task. `TabsFeedResults == Feed!Spec` is checked as a property of three runs, and proved in `ResultFeedProofs`.

### RowEditing

The data tab of one MySQL table. Everything runs on the main thread; what makes it hard is that four objects
number the same rows and are brought up to date at different moments, in callbacks of one another.

| Variable | Code |
|---|---|
| `table` | the table on the server, key to value |
| `rows` | `EditableGridData::_rows` |
| `edited` | `EditableGridData::_editableRow`: its row, its data, whether it is new |
| `curRow` | `QueryData::_curRowNumber` (0 for -1) |
| `viewCur` | the row of the selection model's current index (0 if invalid) |
| `doomed` | what the loop of `DataTab::deleteSelectedRows` has not deleted yet |
| `wanted`, `nextEnabled` | `_wantedRowsCount`; the Next and Show all buttons |
| `hasResult` | the query has a result (a load has succeeded) |

One action is one thing the user does, with every handler it calls: `MoveTo` (`currentRowChanged`, which applies
the draft of the row that is left, and the queued return to it if that fails), `SetData`, `PostChanges`,
`DiscardModifications`, `InsertEmptyRow`, `DuplicateCurrentRow`, `DeleteSelectedRows` and then `DeleteRowInDB` or
`FailDelete` for one selected row after the other, `ShowNextRows`, `ShowAllRows`, `Refresh`, `ApplyColumnSort`.
`ApplyModifications` is shared by the handlers that apply; its outcomes are `Save`, `Refuse`, `SaveBlindly` (done on
the server, but not read back) and `DropEmpty` (a new row nothing was typed into).

* A row is a key and a value. Two columns are enough for what the code tells apart: a column of the WHERE clause and
  one that is not, changed or not. 0 is the NULL of a key; AUTO_INCREMENT is the next key above all others.
* The order of rows is that of keys; sorting by a column reloads the rows in that order again. What matters of a sort
  here is that it applies the draft, and resets the number of rows wanted.
* External, as the code uses them: the server's statements (`Put`, `Without`, `Stored`, `NewKeys`) and Qt's
  selection model when rows are removed (`Neighbour`, `Shifted`, `ViewAfter`): the current index leaves a row before it is
  removed, and `currentRowChanged` hears of that row in the numbers from before (`RowRemoved`).
* `EditingPrepared`: `editingPrepared` reaches `validateControls`, so the buttons are set by the number of rows
  at the start of an edit, before the row is inserted or deleted.
* A reload applies the draft; if that is refused, the view returns to the row it was on, as `currentRowChanged` queues it,
  unless the new grid has no such row.
* Inserting prepares a draft at the new row's number, and keeps the data of one that is already there (`createUpdateRow`).
* Duplicating copies any row of the grid: the position in the result is that of the last cell painted.
* Inserting when the last load failed dereferences a result that does not exist; the model's guard stops there.
* `CarefulSpec` restricts the user, not the code: rows are inserted and deletions begun only with nothing being edited.
  What fails for any other user (deleting while editing deletes the edited row, inserting while editing forgets the
  edit) is checked and proved for a careful one.
* Left out: text in an editor that is still open, the local filter (rows of the view are rows of the model), the
  WHERE filter, other clients changing the table, views, and PostgreSQL's variant without reading back.

### SSHTunnel

A tunnel in front of a MySQL connection, from `LibSSHTunnel::connect` to its destructor. Three kinds of threads: main,
the tunnel thread (an asio loop that runs one callback at a time), and one forwarding thread per client, which
copies from the SSH channel to the socket.

| Variable | Code |
|---|---|
| `mainPc`, `toClose`, `mainConn` | the main thread in `connect` and in `~LibSSHTunnel`: what its loop has left, the `LibSSHConnection` in whose destructor it is |
| `tunnelPc`, `tunnelConn` | the tunnel thread: polling, or where in which connection's callback it waits |
| `stopThread`, `connections` | `LibSSHTunnel::_stopThread`, `_connections` |
| `object`, `forwardPc`, `running`, `stop` | a `LibSSHConnection`: its life, its thread, `_threadRunning`, `_stopThread` |
| `socket`, `reading`, `writing`, `queue`, `closed`, `closePosted` | a `sockets::Connection` |
| `client`, `asked`, `taken`, `passed`, `sent`, `got` | the clients and the SSH server (external) |
| `crashed` | the process has been terminated: the tunnel thread has destroyed the tunnel and joined itself, or met an exception nobody catches |

* A callback is one action, except where it waits: `HandleAccept` / `StartReturns` around the wait of `startTunnel`, and
  `CloseCallback` / `Erase` / `JoinForwarder` around the join in `~LibSSHConnection`, during which closeCallback
  holds the connection's recursive mutex (`Locked`). Every other use of that mutex protects a single action.
* The callbacks hold a weak pointer to the tunnel. `Owned` says that it can be locked, `Held` that a callback has locked
  it; `ResetTunnel` with `Held` leaves the last pointer to the tunnel thread, and `Release` then terminates the process.
* `~LibSSHTunnel` in the order of the code: `CloseConnection` for every connection of the map is
  `sockets::Connection::close`, which needs the connection's mutex and posts closeCallback to the tunnel thread, still
  running (`Owned` is false by then, so that the callback leaves the map alone), but stops and joins no forwarding thread;
  `StopTunnelThread` and `JoinTunnelThread`; then the members, the last declared first: `FreeForwarder` and `ForwarderFreed`
  are the `~LibSSHConnection` of each pair of `_connections`, which stops its thread and joins it, and `DestroySocket` is the
  `io_context` with the listening socket and all that was pending.
* A guest may dial from `listen()` until the listening socket is destroyed (`Listening`), and waits in the backlog until it
  is accepted. The MySQL library dials when `connect()` has returned.
* `ReadData` loses what is read while the channel is not open: the result of the channel's write is not looked at.
* `ChannelFails`: `LibSSHChannel`'s constructor throws a pointer (`libssh_channel.cpp:11`), which the handler
  (`libssh_tunnel.cpp:158`) does not match.
* `asked`, `taken`, `passed` and `sent` count: a client sends a request when it has all of the answer before; the SSH server
  answers each request with `Packets` packets, which are numbered as they are read from the channel.
* Left out: authentication, a channel that ends and is then polled for ever, partial writes to the channel, that all
  threads share one libssh session without a lock, and when that session is closed. `LibSSHTunnel::disconnect` and
  `LibSSHConnection::close` have no caller.

### QueriesStorage and SavedTabs

The tabs that are open and their texts, `UserQueriesManager`'s start and `CentralRightWidget`'s backup, and
`settings::QueriesStorage`, which keeps the list in QSettings (an index per id) and each text in a file.

| Variable | Code |
|---|---|
| `tabs`, `text`, `modified` | `_userQueries`; `_currentQueryText` and `_modifiedButNotSaved` of each |
| `widgets`, `shown` | the tab widgets exist; the text each shows |
| `pc`, `next`, `done` | where `save()` is, why it was called, how many tabs its loop has done |
| `pending`, `stored` | the list in the QSettings object, and on disk |
| `files` | the backup files |
| `failed`, `spoiled` | history: a failure of the last save; tabs whose last write was cut short unnoticed |

* Everything runs on the main thread, so a save is not disturbed; but it can be interrupted, so each file is a step, and
  opening one (which truncates) and writing it are two. `Crash` may come between any two steps.
* QSettings writes its changes when the object is destroyed, by replacing the file: `SyncSettings`, or `SyncFails`.
  A flush by Qt's own timer cannot come in between, because `save()` does not return to the event loop.
* A text is a value; `ReadBack` is what `load()` makes of a file's text, which for a long one is its beginning.
* `SavedTabs` is the promise: the next start shows the list of the last completed save in its order, and
  under each tab a text that its user had there, or the beginning of one, or none if a write was cut short; what is kept
  changes only by saving. The refinement mapping reads the desk from `tabs`, the words from the widgets or the
  tabs, the list from `stored` (`Restored`), and the texts from `files` (`OnDisk`).

### SentencesParser

The two scanners as one state machine that goes through a text with the first and then, line by line, with the
second. `mode` is the comment or literal the scanner is in (the code's flags, at most one of which is set). One
action is one turn of the loop: `InSentence`, `EmptySentence`, `EndSentence` for `parseByDelimiter`;
`EnterLineComment`, `EnterBigComment`, `LeaveBigComment`, `EnterString`, `LeaveString`, `InToken`, `EndBlock` for
`parseToTokens` and `SQLSyntaxHighlighter::highlightBlock`. `Chosen` is what `execQueries` runs for a cursor. `Bounds` says of
`trimmed()` what it does: where the text without the spaces around it begins and ends. The delimiter is `;`, which is all
the application passes.

## 3. Runs

Type invariants are not in the runs: they are theorems (section 4). Each other property is
checked in the run where the code could break it.

| Run | Instance | What it shows |
|---|---|---|
| `executor_stop` | batches of 1-4 statements, stop on error | six properties of one executor, liveness included |
| `tabs` | 2 tabs, 1 connection, batches of 2 and 1, no drops | signals, busy flags, tasks' lives, a handle for every statement, and the refinement |
| `drops` | 2 tabs, 1 connection, batches of 1 and 1, two sessions, the first may be dropped | the handle in use is not replaced, and the refinement, under reconnections |
| `connections` | 2 tabs, 2 connections, batches of 1 and 1, two sessions, the first may be dropped | the refinement, and that cancels stay home unless the id is stale |
| `live` | 2 tabs, 1 connection, batches of 1 and 1, fair | runs end, closes return, tasks are released |
| `task_freed` | | **violated**: a task is destroyed inside its `run()` |
| `grid_any` | up to 3 keys, pages of 1 row, every statement may fail | row numbers stay in range, one INSERT per new row |
| `grid_careful` | careful user, 4 keys, one page, statements and loads may fail | the grid is the table, deletions and drafts are right |
| `grid_delete` | | **violated**: deleting while editing deletes the edited row |
| `tunnel` | the MySQL handle, which asks once, and a guest; fair | threads, objects, packets, and who is kept waiting |
| `storage` | three tabs, a long text; every write may fail, crashes anywhere | the list, the texts, and the refinement |
| `splitter` | all texts of up to 5 of 11 characters, up to 7 of two alphabets of 4 | the splitter, the highlighter, and that they agree |

Bounds, by the constant or definition that sets them: `MaxStatements` and `Size` (1 or 2 statements reach the
first, last and only-statement cases of the index arithmetic, 4 in the executor alone); `Batches` (two batches are
needed for a tab to be run again while signals of its first run are queued, and for two tasks in one thread's
queue); `Tabs` (two, one of which can be closed and opened); `MaxSessions` and `Droppable` (one drop and one
reconnection make a stale id; more repeat it); `TabsStayOpen`, `OpenedFirst`, `OneBatchEach` and `DroppedLate` (in `connections` only:
closing tabs is covered by `tabs`, and what is asked is which statement is hit when a tab moved from a
connection to the other is cancelled while each runs one and one of the two sessions may be lost). A QueriesTask is run once and a connection is opened once, as in the
code, so the state spaces are finite without other limits. Deadlock is not checked (`CHECK_DEADLOCK FALSE`) in the
runs of `QueryExecution`: the system really stops, when all batches have run and all connections are closed, or after a crash. `drops` and
`connections` use symmetry of batches of one size and of connections, which no definition tells apart;
`live` uses none. `HandleIsThere` holds only while the server drops no session: after a drop, a ping that cannot reconnect
leaves no handle, and the batch is posted all the same.

Bounds of the grid: `MaxKey` and `MaxGrid` (the keys the server hands out, and the grid no row is inserted into; three
rows give a first, a middle and a last one, and a removal above, at and below the current row), `Step` and `MaxLoad`
(pages of one row in `grid_any`, so that up to three pages are loaded and the last is cut by the maximum; one page holds the whole table in
`grid_careful`, because `GridShowsTable` is about a table that is loaded), `Failing` (all kinds in `grid_any`; in `grid_careful`
all but reading a row back, because after an INSERT that is not read back the grid cannot show the table). Deadlock is
checked.

Bounds of the tunnel: `Clients` (the handle, which main closes before the tunnel, and a guest, any local program that
connects; they interfere only through the tunnel thread), `Packets` (`GuestGetsTwo`: two packets for the guest, so that one is
queued while another is being sent, one for the handle), `MaxRequests` (`HandleAsks`: one request of the handle, so that data
flows both ways). Deadlock is not
checked: a destroyed tunnel, or one whose clients rest, stops.

Bounds of the storage: `Ids` (three, with symmetry: a first tab, which cannot be closed, one to close, one that takes its
place in the list), `Texts` (the empty one, a long one, and the beginning of it that is read back). Deadlock is not checked:
when all ids have been used and left on disk nothing can be opened.

Bounds of the splitter: `MaxLen` and `MaxLonger`. `Characters` has one member for each case of the scanners' conditions;
`"` is left out as it is handled as `'` is. Five characters hold an escaped encloser in a literal, an empty statement
between two others, or a comment around a delimiter; seven of the characters of comments, or of lines, hold a comment sign that
overlaps with another, and a literal over three lines. Deadlock is checked; `Terminated` is the end of the text.

Fairness (`FairSpec` of `QueryExecution`): the main thread's event loop runs (`WF` of `Deliver` and `EndThread`), each worker runs and
the server answers every statement (`WF` of `Worker(b)`). Nothing is assumed of the user, the keep-alive timer or the
network. `RunEnds` excepts a tab whose task was dropped with its thread, because that tab does stay busy: the
code emits nothing for such a task. `BatchExecutorSpec`'s is that of the worker alone. In `SSHTunnel` every thread runs once it is started:
main in `connect` and in the destructor (`WF` of `Main`), the tunnel thread (`TunnelThread`, and `Callback(c)` of each
connection, as asio starves none) and the forwarding threads, to which the SSH server answers (`Forwarder(c)`, whose polls are
with a time-out in the code); main need not let go of the tunnel, clients need not
hang up, and nothing need fail.

The violated properties are quotations of comments and of texts the program shows (`findings` in `PROJECT.json`).

Some behaviours of the models look wrong and contradict no text of the repository. They have no run of
their own; the properties that hold otherwise except them by name, or the note of their hazard tells how to reach them:

* an `abort()` between posting a batch and the first line of `run()` is forgotten (`batch_executor.cpp:26`);
* a batch is posted without a handle after a failed reconnection, and the id to kill is that of the session before,
  so that a cancel may hit another connection's statement (`user_query.cpp:46`, `mysql_connection.cpp:620`);
* duplicating copies the row that was painted last (`query_data.cpp:319`); the next page skips as many
  rows as were inserted (`data_table_model.cpp:201`); an insertion forgets what is being edited (`query_data.cpp:272`);
* a tunnel's thread waits for ever if a forwarding thread fails before it was seen running (`MissedStart`), or if it joins
  one that wants to write (`JoinsWriter`); the tunnel destroyed by its own thread terminates the process, and so does a
  client for whom no channel can be had (`crashed`); a client whose forward was refused is left waiting until it hangs up, and
  what a client sends before the channel is open is lost (`ReadData`; the library waits for the greeting first);
* a backup that is cut short clears the modified flag, so that the text is not written again (`spoiled`);
* `x;;y` runs `;y`; `/*/` ends a comment for the splitter and not for the highlighter, `*/*` begins one.

The application never calls `setStopOnError`, so the runs use its default; the proofs are for both values.

## 4. Proofs

All theorems are checked by TLAPS without any bound on the number of tabs, connections, batches, statements,
sessions, rows, clients, packets, or the length of a text. They assume only the named assumptions on the constants:
`ExecutorAssumption`, `MaxStatementsAssumption`, `ExecutionAssumption`, `RowEditingAssumption`, `TunnelAssumption`,
`StorageAssumption`, `TextsAssumption`.
Every module that models code with state has its type invariant proved (`TypeCorrect`).

`BatchExecutorProofs`: the inductive invariant `IInv` is the conjunction of the five safety invariants with
`IndexInv` (where `_currentQueryIndex` is relative to the number of results in each place of `run()`) and `FlagInv`
(how `failed`, `doBreak`, `aborted` and the history variables imply each other). It is needed because
`ReportsMatchResults` speaks of the history of signals, and only the position of the index explains why the next
signal carries the next number, the clamp at the last statement included. `BatchExecutorLemmas` says once, per operator, what
it does to the record; both proof modules cite it.

`QueryExecutionProofs`: the inductive invariant has four parts, each preserved under the ones before it.

1. `TypeInv`: types, and `Placed`: a task that has not been taken has an idle executor, one in `run()` has an executor
   whose index is at its last result.
2. `LifeInv`: a batch that has been posted knows its connection, the active connection is open, a queued signal is
   of a task that has begun, and a queued finished() of one whose batch is over; with them `TaskKeptAlive`, which
   is not inductive alone, since only they tell that the `taskFinished` being delivered is not of a
   task still to run.
3. `SessionInv`: handles and cached ids are bounded by the number of sessions handed out, and no two
   connections hold the same one; with them `KnownIdIsOwn`: no other connection has a session with the number
   a connection has cached. It is a lemma and not a result: the session may have ended, and its id be borne by another.
4. `SignalInv`: a tab a task reports to is running and has that task until finished() is delivered (`WaitedFor`),
   finished() is queued once and after the results (`FinishedOnce`, `FinishedLast`), and tasks and listeners
   point at each other (`CurrentTask`); with them `EventsMatchTask` and `RunningIsAccounted`.

`CancelStaysHome` is an action property: from `KnownIdIsOwn`, a KILL with an id whose session is alive hits only a
statement of the connection that session belongs to (`KillHits`), which stays so when the killer itself pings (`HandleKept`);
and the connection asked is the one the tab's task runs on (`LastConnInv`). For a stale id nothing is claimed.

`HandleProtected` is an action property, proved from the same invariant: a step that writes `session[c]` needs `~Busy(c)`, or
`Idle(c)`, or an unopened connection. `HandleIsThere` (`HandleStaysThere`) is proved for servers that drop no session
(`Droppable = {}`, as in the run), since it is false for others. Its invariant `HandleInv` says that an open connection has
a live session, and that a batch that waits or runs is on an open connection or on the one `~DbThread` is waiting for, whose
handle is closed only after the thread has ended.

`ResultFeedProofs` shows that `QueryExecution` implements `ResultFeed`, for any tabs, batches, connections and drops. The mapping reads what
is produced from the executor of a tab's task, so three facts are added to `IInv`: an executor has no more results than its
batch has statements (`SizeInv`), the queued `queryFinished` of one batch are in the order of its statements
(`OrderInv`), and each reported result is either shown or queued, not both (`ShownInv`). Then `Exec` is `Accept`, a report
is `Produce`, delivering `queryFinished` is `Show` and `queriesFinished` is `Finish`, closing a tab is `Close`; every other step,
reconnections and drops included, leaves all that a tab promises as it was (`Unseen`).

`RowEditingProofs`, first part, for any user: `SafeInv` is `TypeOK` and `RowsInRange`, which are inductive together:
the type of the rows needs the draft's row to be one of them, and the numbers stay in range because what is read into the grid is
a sequence of rows. `Outcome` says once what applying a draft may do, whatever fails, to the table, the rows and the
draft; every handler that applies is proved from it, and so is `InsertedOnlyOnce`. That a SELECT returns rows
(`FetchedType`) needs the key at each place to exist (`KeyAtPlace`): the least number below which there are so many keys, which
the library's well-founded ordering of finite sets provides.
`SelectionIsKept` follows from the order of the deletions (`DoomedLeft`): what is left is above what is removed.
Second part, for a careful user: `CarefulInv` adds two facts to `InsertedIsCurrent`: nothing is being edited while selected rows
are being deleted, and a new row's draft has a row. From it, `DeletesOnlySelected`: with no draft
the WHERE clause is of the row asked for.
Third part, for a careful user of a table that one page holds and whose rows can be read back (`CarefulAssumption`: `MaxKey <= Step`,
`"reload" \notin Failing`; TLC shows the properties false without either): `GridInv` says that the saved rows and the keys of the
table correspond one to one with the same values (`Mirrors`), unless a refresh has failed and the grid is empty. It gives `GridIsTable`.
`Mirrors` rather than `GridShowsTable` is inductive, because an UPDATE and a deletion act on the row of a key, and only the bijection
says which row of the grid that is. `DraftInv` adds that a draft with changes is of the view's row, so that leaving the row
applies it; hence `DraftsAreKept`.

`SSHTunnelProofs`: `TypeInv` needs `WritesQueued` (a pending write has a packet to take from the queue). `LifeInv` adds to
`ForwarderHasObject` and `NothingLeft` how the two threads share the end of the tunnel: what a connection has before its
client was accepted (`Unstarted`, `Dialled`), that an object lives exactly as long as it is in the map or being joined (`Kept`,
`CallbackKept`), that no callback holds the tunnel once main has begun to destroy it (`NotHeld`), that the loop goes through what is
in the map (`LoopInMap`), and that the members are freed by main alone, the tunnel thread having ended (`FreedAlone`).
`LoopHasTheMap` is an action property from `NotHeld`: the callbacks the loop has posted run, and leave the map as it is. `PacketInv`
numbers a client's packets through what it has got, the queue and the one in hand, which the concatenation of
`PacketsInOrder` cannot say step by step; a client that was not accepted yet has had none, so that the numbering begins at 1.

`QueriesStorageProofs`: `ListInv` says that the list on disk is that of some sequence of distinct tabs, and that a
save has entered those it has done in their places; a list of n distinct tabs fills the slots 0 to n-1
(`SlotsAreFilled`). `TextInv` is `UnmodifiedIsOnDisk` for every id, with ids that have no tab being blank, so that a
new tab begins with what is on disk for it: nothing. `LeftInv` follows a save to its end: the flags of the tabs it has
done are down, unless it has failed, and when it is over the list on disk is that of the tabs; hence `ExitIsSafe`.
`BackedUp` says that a save writes what the widgets show. With it, every step maps to one of `SavedTabs` or to a
stutter (`StorageImplementsSavedTabs`): opening a file and writing it are each a `KeepText`, replacing the settings is
`KeepList`, ends and crashes are `Leave`.

`SentencesParserProofs`: `ListInv` orders the sentences and keeps them before `lastLeftOffset`, with a character between two,
which is why the cursor right behind one is not in the next; `TakenInv` says that all before `lastLeftOffset` has been
taken; `TileInv` says the same of the tokens up to the start of the current one.
`ColoursAreTrue` (`SplitAsShown`) compares two scanners that run one after the other. What they share is a path: the flags of the
splitter at every position of the text. `PathInv` says there is one (its witness grows by a character with each step of the splitter).
`SplitPath` tells what the splitter has done at each delimiter by the flags there: one in code has ended a sentence or is the
first character of one, any other is in a sentence, as something opened the comment or literal it is in. `ShowPath` says that the highlighter, a line at
a time, has the flags of the path, but for the line feeds after a line comment, and what it has coloured so far agrees with
them. The exception `SharedSlash` of the property is what a sign of two characters needs to keep it on the path.

Model-checked only:

* liveness (`RunReturns`, `RunEnds`, `CloseReturns`, `TasksReleased`, `DestructionReturns`, `HangUpFrees`, `ClientAnswered`), which is
  beyond TLAPS under fairness.

Every safety invariant, action property and refinement of the passing runs is a theorem.

## 5. Not modelled

What is left of the components that are partly modelled, and why:

* `DbThread`'s init and deinit task, and what `mysql_thread_init` returns: the client library's per-thread data, on which no
  modelled step depends (hazard `db_thread.cpp:32`).
* Tunnels under running batches: an OpenSSH reconnection processes events inside `ping()` (`openssh_tunnel.cpp:89`), and
  `QueryExecution` would have to be split at that event loop in every handler that pings.
* Statements that end only when they are killed: cancelling as what frees a run needs them
  (`central_right_query_presenter.cpp:105`).
* The error box of `onExecQueriesFinished` and its event loop, and what result pages show when they are hidden and created again
  (`central_right_query_tab.cpp:132`, `user_query.cpp:185`, `central_right_widget.cpp:567`).
* The active session of the entity tree against the manager's (`connections_manager.cpp:154`); a mysqldump that crashes
  reports twice (`mysql_dump_console.cpp:61`).
* The grid's text in an open editor, filters, other clients, a row read back by another handler in PostgreSQL
  (`central_right_data_tab.cpp:615`, `query_data.cpp:302`).
* Two instances of the program on the same files: nothing in the code handles it.

That each task's executor implements `BatchExecutorSpec` is not stated: some steps of `QueryExecution` are two steps of
`BatchExecutorSpec` at once, so there is no mapping step by step. The two share the operators of `BatchExecutor` and the lemmas
about them instead.

Left out for good: PostgreSQL and SQLite connections (their tasks run synchronously on the main thread), text
building and parsing (table editors, user privileges, exports), dialogs, settings, tables of constants, the generated SQLite
parser, and `third_party/`. `components` in `PROJECT.json` gives the reason for each.
