------------------------------ MODULE SSHTunnel ------------------------------
(***************************************************************************)
(* A tunnel through libssh: LibSSHTunnel, the sockets::Connection of every   *)
(* local client it accepts, and the LibSSHConnection that forwards one.      *)
(*                                                                         *)
(* Threads: the main thread, which starts the tunnel in                     *)
(* MySQLConnection::setActive and later lets go of it; the tunnel thread,    *)
(* which runs the callbacks of the sockets one at a time; one forwarding     *)
(* thread per client, from the SSH channel to the socket.  Outside: the      *)
(* clients (the MySQL library is one, a guest may be any local program) and   *)
(* the SSH server.                                                          *)
(*                                                                         *)
(* A callback is one action, split where it waits for another thread.  The   *)
(* recursive mutex of a Connection is held across such a wait only by        *)
(* closeCallback; anywhere else it makes an action of what it protects.      *)
(***************************************************************************)
EXTENDS Naturals, Sequences

CONSTANTS Clients,     \* sockets that may connect to the local port
          Handle,      \* the one of the MySQL handle
          None,        \* the null pointer
          Packets,     \* packets of the greeting and of every answer to a client
          MaxRequests  \* bound: requests each client sends

ASSUME TunnelAssumption ==
    /\ Handle \in Clients /\ None \notin Clients
    /\ Packets \in [Clients -> Nat \ {0}] /\ MaxRequests \in [Clients -> Nat]

VARIABLES
    mainPc,      \* where the main thread is in the life of the tunnel
    toClose,     \* what the loop of ~LibSSHTunnel has not closed yet
    mainConn,    \* the LibSSHConnection in whose destructor it is
    tunnelPc,    \* where the tunnel thread is
    tunnelConn,  \* the connection its callback is about
    stopThread,  \* LibSSHTunnel::_stopThread
    connections, \* LibSSHTunnel::_connections
    crashed,     \* the process has been terminated
    object,      \* LibSSHConnection: "none", "alive" or "dead"
    forwardPc,   \* where a forwarding thread is
    running,     \* LibSSHConnection::_threadRunning
    stop,        \* LibSSHConnection::_stopThread
    socket,      \* Connection::_socket
    reading,     \* an async_read_some is pending
    writing,     \* an async_write is pending
    queue,       \* Connection::_writeQueue
    closed,      \* Connection::_closed
    closePosted, \* closeCallback is queued
    client,      \* "new", "open" or "gone"
    asked,       \* requests the client has sent
    taken,       \* of these, the ones read from the socket
    passed,      \* of these, the ones written to an open channel
    sent,        \* packets read from the channel
    got          \* packets the client has got, in order

mainVars    == <<mainPc, toClose, mainConn>>
tunnelVars  == <<tunnelPc, tunnelConn, stopThread, connections, crashed>>
forwardVars == <<object, forwardPc, running, stop>>
socketVars  == <<socket, reading, writing, queue, closed, closePosted>>
dataVars    == <<client, asked, taken, passed, sent, got>>

vars == <<mainVars, tunnelVars, forwardVars, socketVars, dataVars>>
-----------------------------------------------------------------------------
MainStates    == {"new", "listening", "starting", "up", "destroying", "joining", "freeing",
                  "gone", "left"}
TunnelStates  == {"none", "begin", "poll", "starting", "erasing", "joining", "ended"}
ForwardStates == {"none", "begin", "opening", "polling", "writing", "ended"}

(* What the tunnel thread does when it is not in a callback about c.         *)
At(state, c) == tunnelPc = state /\ tunnelConn = c
Go(state, c) == tunnelPc' = state /\ tunnelConn' = c

(* A mutant of Owned: the callbacks keep a plain pointer to the tunnel.       *)
OwnedAlways == mainPc # "new"

(* The weak pointer of the callbacks can be locked: the main thread still    *)
(* has its shared one.                                                     *)
Owned == mainPc \in {"listening", "starting", "up"}

(* The tunnel thread holds a shared pointer to the tunnel.                   *)
Held == tunnelPc \in {"starting", "erasing"}

(* It lets go; if the main thread has done so before, ~LibSSHTunnel runs on   *)
(* the tunnel thread and joins itself, which terminates the process.         *)
Release == crashed' = (mainPc = "left")

(* Connection::_mutex is held across a wait.                                *)
Locked(c) == tunnelConn = c /\ tunnelPc \in {"erasing", "joining"}

Init ==
    /\ mainPc = "new" /\ toClose = {} /\ mainConn = None
    /\ tunnelPc = "none" /\ tunnelConn = None
    /\ stopThread = FALSE /\ connections = {} /\ crashed = FALSE
    /\ object = [c \in Clients |-> "none"]
    /\ forwardPc = [c \in Clients |-> "none"]
    /\ running = [c \in Clients |-> FALSE]
    /\ stop = [c \in Clients |-> FALSE]
    /\ socket = [c \in Clients |-> "none"]
    /\ reading = [c \in Clients |-> FALSE]
    /\ writing = [c \in Clients |-> FALSE]
    /\ queue = [c \in Clients |-> <<>>]
    /\ closed = [c \in Clients |-> FALSE]
    /\ closePosted = [c \in Clients |-> FALSE]
    /\ client = [c \in Clients |-> "new"]
    /\ asked = [c \in Clients |-> 0]
    /\ taken = [c \in Clients |-> 0]
    /\ passed = [c \in Clients |-> 0]
    /\ sent = [c \in Clients |-> 0]
    /\ got = [c \in Clients |-> <<>>]
-----------------------------------------------------------------------------
(* The main thread.                                                        *)

(* LibSSHTunnel::connect throws before there is a thread.                   *)
FailConnect ==
    /\ mainPc = "new" /\ mainPc' = "gone"
    /\ UNCHANGED <<toClose, mainConn, tunnelVars, forwardVars, socketVars, dataVars>>

(* It listens, ...                                                         *)
Listen ==
    /\ mainPc = "new" /\ mainPc' = "listening"
    /\ UNCHANGED <<toClose, mainConn, tunnelVars, forwardVars, socketVars, dataVars>>

(* ... starts the thread, ...                                               *)
StartThread ==
    /\ mainPc = "listening" /\ mainPc' = "starting"
    /\ tunnelPc' = "begin"
    /\ UNCHANGED <<toClose, mainConn, tunnelConn, stopThread, connections, crashed,
                   forwardVars, socketVars, dataVars>>

(* ... and returns when the thread has said that it runs.                    *)
ConnectReturns ==
    /\ mainPc = "starting" /\ tunnelPc # "begin"
    /\ mainPc' = "up"
    /\ UNCHANGED <<toClose, mainConn, tunnelVars, forwardVars, socketVars, dataVars>>

(* _sshTunnel.reset(), after the MySQL handle has been closed.  If the tunnel *)
(* thread holds a pointer too, the destructor is left to it.                 *)
ResetTunnel ==
    /\ mainPc = "up" /\ client[Handle] # "open"
    /\ IF Held THEN mainPc' = "left" /\ UNCHANGED toClose
       ELSE mainPc' = "destroying" /\ toClose' = connections
    /\ UNCHANGED <<mainConn, tunnelVars, forwardVars, socketVars, dataVars>>

(* Connection::close.                                                       *)
Close(c) ==
    /\ closed' = [closed EXCEPT ![c] = TRUE]
    /\ closePosted' = [closePosted EXCEPT ![c] = @ \/ ~closed[c]]

(* The loop of ~LibSSHTunnel: it posts closeCallback to the tunnel thread,   *)
(* which still runs, and neither stops nor joins the forwarding thread.      *)
CloseConnection(c) ==
    /\ mainPc = "destroying" /\ c \in toClose /\ ~Locked(c)
    /\ Close(c)
    /\ toClose' = toClose \ {c}
    /\ UNCHANGED <<mainPc, mainConn, tunnelVars, forwardVars, socket, reading, writing,
                   queue, dataVars>>

StopTunnelThread ==
    /\ mainPc = "destroying" /\ toClose = {}
    /\ mainPc' = "joining"
    /\ stopThread' = TRUE
    /\ UNCHANGED <<toClose, mainConn, tunnelPc, tunnelConn, connections, crashed,
                   forwardVars, socketVars, dataVars>>

JoinTunnelThread ==
    /\ mainPc = "joining" /\ tunnelPc = "ended"
    /\ mainPc' = "freeing"
    /\ UNCHANGED <<toClose, mainConn, tunnelVars, forwardVars, socketVars, dataVars>>

(* The members are destroyed, the last one declared first: _connections,     *)
(* whose pairs hold the last pointers to the LibSSHConnections.  A           *)
(* ~LibSSHConnection stops its forwarding thread, ...                        *)
FreeForwarder(c) ==
    /\ mainPc = "freeing" /\ mainConn = None /\ c \in connections
    /\ mainConn' = c
    /\ stop' = [stop EXCEPT ![c] = TRUE]
    /\ UNCHANGED <<mainPc, toClose, tunnelVars, object, forwardPc, running, socketVars,
                   dataVars>>

(* A mutant of ForwarderFreed: ~LibSSHConnection does not join.              *)
FreedUnjoined(c) ==
    /\ mainConn = c /\ mainConn' = None
    /\ connections' = connections \ {c}
    /\ object' = [object EXCEPT ![c] = "dead"]
    /\ UNCHANGED <<mainPc, toClose, tunnelPc, tunnelConn, stopThread, crashed, forwardPc,
                   running, stop, socketVars, dataVars>>

(* ... and joins it.                                                       *)
ForwarderFreed(c) ==
    /\ mainConn = c /\ forwardPc[c] = "ended"
    /\ mainConn' = None
    /\ connections' = connections \ {c}
    /\ object' = [object EXCEPT ![c] = "dead"]
    /\ UNCHANGED <<mainPc, toClose, tunnelPc, tunnelConn, stopThread, crashed, forwardPc,
                   running, stop, socketVars, dataVars>>

(* The io_context goes, and with it what is queued or pending, the listening *)
(* socket and every Connection that only a callback still held.             *)
SocketGone ==
    /\ mainPc' = "gone"
    /\ socket' = [c \in Clients |-> IF socket[c] = "none" THEN "none" ELSE "closed"]
    /\ reading' = [c \in Clients |-> FALSE] /\ writing' = [c \in Clients |-> FALSE]
    /\ closePosted' = [c \in Clients |-> FALSE]
    /\ UNCHANGED <<toClose, mainConn, tunnelVars, forwardVars, queue, closed, dataVars>>

(* A mutant of DestroySocket: _socket is declared after _connections.        *)
SocketFirst == mainPc = "freeing" /\ mainConn = None /\ SocketGone

DestroySocket == mainPc = "freeing" /\ mainConn = None /\ connections = {} /\ SocketGone

Destroying ==
    \/ StopTunnelThread \/ JoinTunnelThread \/ DestroySocket
    \/ \E c \in Clients : CloseConnection(c) \/ FreeForwarder(c) \/ ForwarderFreed(c)
-----------------------------------------------------------------------------
(* The tunnel thread.                                                      *)

ThreadBegins ==
    /\ tunnelPc = "begin" /\ Go("poll", None)
    /\ UNCHANGED <<mainVars, stopThread, connections, crashed, forwardVars, socketVars,
                   dataVars>>

PollingStops ==
    /\ tunnelPc = "poll" /\ stopThread
    /\ Go("ended", None)
    /\ UNCHANGED <<mainVars, stopThread, connections, crashed, forwardVars, socketVars,
                   dataVars>>

Insert(c) == connections' = connections \cup {c}

(* Socket::handleAccept and LibSSHTunnel::onNewConnection up to the wait of   *)
(* startTunnel; with no tunnel left the connection is dropped.               *)
HandleAccept(c) ==
    /\ tunnelPc = "poll" /\ socket[c] = "backlog"
    /\ IF Owned
       THEN /\ socket' = [socket EXCEPT ![c] = "open"]
            /\ Insert(c)
            /\ object' = [object EXCEPT ![c] = "alive"]
            /\ forwardPc' = [forwardPc EXCEPT ![c] = "begin"]
            /\ Go("starting", c)
       ELSE /\ socket' = [socket EXCEPT ![c] = "closed"]
            /\ UNCHANGED <<connections, object, forwardPc, tunnelPc, tunnelConn>>
    /\ UNCHANGED <<mainVars, stopThread, crashed, running, stop, reading, writing, queue,
                   closed, closePosted, dataVars>>

(* There is no channel to be had: the exception is thrown as a pointer,       *)
(* which the handler does not catch.                                        *)
ChannelFails(c) ==
    /\ tunnelPc = "poll" /\ socket[c] = "backlog" /\ Owned
    /\ crashed' = TRUE
    /\ UNCHANGED <<mainVars, tunnelPc, tunnelConn, stopThread, connections, forwardVars,
                   socketVars, dataVars>>

(* The waiter sees _threadRunning; the rest of handleAccept is               *)
(* Connection::accept.                                                      *)
StartReturns(c) ==
    /\ At("starting", c) /\ running[c]
    /\ Go("poll", None) /\ Release
    /\ reading' = [reading EXCEPT ![c] = ~closed[c]]
    /\ UNCHANGED <<mainVars, stopThread, connections, forwardVars, socket, writing, queue,
                   closed, closePosted, dataVars>>

(* The peer or this side has closed the socket.                             *)
Broken(c) == client[c] = "gone" \/ socket[c] = "closed"

ChannelOpen(c) == forwardPc[c] \in {"polling", "writing"}

(* readCallback with data, which is lost unless the channel is open: nobody   *)
(* looks at what its write returns.                                         *)
ReadData(c) ==
    /\ tunnelPc = "poll" /\ reading[c] /\ taken[c] < asked[c]
    /\ taken' = [taken EXCEPT ![c] = @ + 1]
    /\ passed' = [passed EXCEPT ![c] = IF ChannelOpen(c) THEN @ + 1 ELSE @]
    /\ reading' = [reading EXCEPT ![c] = ~closed[c]]
    /\ UNCHANGED <<mainVars, tunnelVars, forwardVars, socket, writing, queue, closed,
                   closePosted, client, asked, sent, got>>

(* A mutant of ReadError: it does not close.                                *)
ReadErrorKeeps(c) ==
    /\ tunnelPc = "poll" /\ reading[c] /\ Broken(c)
    /\ reading' = [reading EXCEPT ![c] = FALSE]
    /\ UNCHANGED <<mainVars, tunnelVars, forwardVars, socket, writing, queue, closed,
                   closePosted, dataVars>>

ReadError(c) ==
    /\ tunnelPc = "poll" /\ reading[c] /\ Broken(c)
    /\ reading' = [reading EXCEPT ![c] = FALSE]
    /\ Close(c)
    /\ UNCHANGED <<mainVars, tunnelVars, forwardVars, socket, writing, queue, dataVars>>

(* A mutant of WriteDone: only write() begins to write.                      *)
WriteDoneStops(c) ==
    /\ tunnelPc = "poll" /\ writing[c] /\ socket[c] = "open"
    /\ got' = [got EXCEPT ![c] = IF client[c] = "gone" THEN @ ELSE Append(@, Head(queue[c]))]
    /\ queue' = [queue EXCEPT ![c] = Tail(@)]
    /\ writing' = [writing EXCEPT ![c] = FALSE]
    /\ UNCHANGED <<mainVars, tunnelVars, forwardVars, socket, reading, closed, closePosted,
                   client, asked, taken, passed, sent>>

(* writeCallback: the next packet of the queue is written.                   *)
WriteDone(c) ==
    /\ tunnelPc = "poll" /\ writing[c] /\ socket[c] = "open"
    /\ got' = [got EXCEPT ![c] = IF client[c] = "gone" THEN @ ELSE Append(@, Head(queue[c]))]
    /\ queue' = [queue EXCEPT ![c] = Tail(@)]
    /\ writing' = [writing EXCEPT ![c] = ~closed[c] /\ Len(queue[c]) > 1]
    /\ UNCHANGED <<mainVars, tunnelVars, forwardVars, socket, reading, closed, closePosted,
                   client, asked, taken, passed, sent>>

WriteError(c) ==
    /\ tunnelPc = "poll" /\ writing[c] /\ Broken(c)
    /\ writing' = [writing EXCEPT ![c] = FALSE]
    /\ Close(c)
    /\ UNCHANGED <<mainVars, tunnelVars, forwardVars, socket, reading, queue, dataVars>>

(* closeCallback up to LibSSHTunnel::onConnectionClosed, if there is a tunnel.*)
CloseCallback(c) ==
    /\ tunnelPc = "poll" /\ closePosted[c]
    /\ closePosted' = [closePosted EXCEPT ![c] = FALSE]
    /\ socket' = [socket EXCEPT ![c] = "closed"]
    /\ IF object[c] = "alive" /\ Owned THEN Go("erasing", c)
       ELSE UNCHANGED <<tunnelPc, tunnelConn>>
    /\ UNCHANGED <<mainVars, stopThread, connections, crashed, forwardVars, reading, writing,
                   queue, closed, dataVars>>

(* The pair is erased, and with the last pointer ~LibSSHConnection begins.    *)
Erase(c) ==
    /\ At("erasing", c)
    /\ connections' = connections \ {c}
    /\ Release
    /\ stop' = [stop EXCEPT ![c] = TRUE]
    /\ Go("joining", c)
    /\ UNCHANGED <<mainVars, stopThread, object, forwardPc, running, socketVars, dataVars>>

(* It has joined the forwarding thread; closeCallback returns.               *)
JoinForwarder(c) ==
    /\ At("joining", c) /\ forwardPc[c] = "ended"
    /\ object' = [object EXCEPT ![c] = "dead"]
    /\ Go("poll", None)
    /\ UNCHANGED <<mainVars, stopThread, connections, crashed, forwardPc, running, stop,
                   socketVars, dataVars>>

Callback(c) ==
    \/ HandleAccept(c) \/ StartReturns(c)
    \/ ReadData(c) \/ ReadError(c) \/ WriteDone(c) \/ WriteError(c)
    \/ CloseCallback(c) \/ Erase(c) \/ JoinForwarder(c)
-----------------------------------------------------------------------------
(* The forwarding thread of a client: LibSSHConnection::threadFunc.          *)

ForwarderBegins(c) ==
    /\ forwardPc[c] = "begin"
    /\ forwardPc' = [forwardPc EXCEPT ![c] = "opening"]
    /\ running' = [running EXCEPT ![c] = TRUE]
    /\ UNCHANGED <<mainVars, tunnelVars, object, stop, socketVars, dataVars>>

OpenForward(c) ==
    /\ forwardPc[c] = "opening"
    /\ forwardPc' = [forwardPc EXCEPT ![c] = "polling"]
    /\ UNCHANGED <<mainVars, tunnelVars, object, running, stop, socketVars, dataVars>>

(* The SSH server refuses, or has not answered for five seconds.            *)
RefuseForward(c) ==
    /\ forwardPc[c] = "opening"
    /\ forwardPc' = [forwardPc EXCEPT ![c] = "ended"]
    /\ running' = [running EXCEPT ![c] = FALSE]
    /\ UNCHANGED <<mainVars, tunnelVars, object, stop, socketVars, dataVars>>

(* Data: the greeting, or the answer to a request.                          *)
PollData(c) ==
    /\ forwardPc[c] = "polling"
    /\ sent[c] < Packets[c] * (passed[c] + 1)
    /\ sent' = [sent EXCEPT ![c] = @ + 1]
    /\ forwardPc' = [forwardPc EXCEPT ![c] = "writing"]
    /\ UNCHANGED <<mainVars, tunnelVars, object, running, stop, socketVars, client, asked,
                   taken, passed, got>>

(* A mutant of PollStops: close() is not noticed while the channel is silent. *)
PollStopsOnData(c) ==
    /\ forwardPc[c] = "polling" /\ stop[c] /\ sent[c] < Packets[c] * (passed[c] + 1)
    /\ forwardPc' = [forwardPc EXCEPT ![c] = "ended"]
    /\ UNCHANGED <<mainVars, tunnelVars, object, running, stop, socketVars, dataVars>>

PollStops(c) ==
    /\ forwardPc[c] = "polling" /\ stop[c]
    /\ forwardPc' = [forwardPc EXCEPT ![c] = "ended"]
    /\ UNCHANGED <<mainVars, tunnelVars, object, running, stop, socketVars, dataVars>>

(* Polling or reading fails.  The socket is not told.                        *)
PollError(c) ==
    /\ forwardPc[c] = "polling"
    /\ forwardPc' = [forwardPc EXCEPT ![c] = "ended"]
    /\ stop' = [stop EXCEPT ![c] = TRUE]
    /\ UNCHANGED <<mainVars, tunnelVars, object, running, socketVars, dataVars>>

(* A mutant of Write: a second async_write is begun at once, so the packet    *)
(* goes before those that are queued.                                       *)
WriteAtOnce(c) ==
    /\ forwardPc[c] = "writing" /\ ~Locked(c)
    /\ forwardPc' = [forwardPc EXCEPT ![c] = "polling"]
    /\ queue' = [queue EXCEPT ![c] = <<sent[c]>> \o @]
    /\ writing' = [writing EXCEPT ![c] = ~closed[c]]
    /\ UNCHANGED <<mainVars, tunnelVars, object, running, stop, socket, reading, closed,
                   closePosted, dataVars>>

(* Connection::write, which needs the mutex.                                *)
Write(c) ==
    /\ forwardPc[c] = "writing" /\ ~Locked(c)
    /\ forwardPc' = [forwardPc EXCEPT ![c] = "polling"]
    /\ queue' = [queue EXCEPT ![c] = Append(@, sent[c])]
    /\ writing' = [writing EXCEPT ![c] = @ \/ (~closed[c] /\ queue[c] = <<>>)]
    /\ UNCHANGED <<mainVars, tunnelVars, object, running, stop, socket, reading, closed,
                   closePosted, dataVars>>

Forwarder(c) ==
    \/ ForwarderBegins(c) \/ OpenForward(c) \/ PollData(c) \/ PollStops(c) \/ Write(c)

Fails(c) == ChannelFails(c) \/ RefuseForward(c) \/ PollError(c)
-----------------------------------------------------------------------------
(* The clients: the library connects, waits for the greeting, sends a        *)
(* request when it has the answer to the one before, and hangs up.           *)

Awaiting(c) == client[c] = "open" /\ Len(got[c]) < Packets[c] * (asked[c] + 1)

(* The port can be dialled from listen() until the listening socket goes.    *)
Listening == mainPc \in MainStates \ {"new", "gone"}

(* A guest may dial at any time, the MySQL library when connect() has         *)
(* returned.                                                               *)
Dial(c) ==
    /\ Listening /\ client[c] = "new"
    /\ c = Handle => mainPc = "up"
    /\ client' = [client EXCEPT ![c] = "open"]
    /\ socket' = [socket EXCEPT ![c] = "backlog"]
    /\ UNCHANGED <<mainVars, tunnelVars, forwardVars, reading, writing, queue, closed,
                   closePosted, asked, taken, passed, sent, got>>

Ask(c) ==
    /\ client[c] = "open" /\ ~Awaiting(c) /\ asked[c] < MaxRequests[c]
    /\ asked' = [asked EXCEPT ![c] = @ + 1]
    /\ UNCHANGED <<mainVars, tunnelVars, forwardVars, socketVars, client, taken, passed,
                   sent, got>>

HangUp(c) ==
    /\ client[c] = "open"
    /\ client' = [client EXCEPT ![c] = "gone"]
    /\ UNCHANGED <<mainVars, tunnelVars, forwardVars, socketVars, asked, taken, passed,
                   sent, got>>

Client(c) == Dial(c) \/ Ask(c) \/ HangUp(c)
-----------------------------------------------------------------------------
(* The main thread, once it has begun something, and the tunnel thread        *)
(* between callbacks.                                                      *)
Main         == StartThread \/ ConnectReturns \/ Destroying
TunnelThread == ThreadBegins \/ PollingStops

Next ==
    /\ ~crashed
    /\ \/ FailConnect \/ Listen \/ Main \/ ResetTunnel \/ TunnelThread
       \/ \E c \in Clients :
              Callback(c) \/ Forwarder(c) \/ Fails(c) \/ Client(c)

Spec == Init /\ [][Next]_vars

(* Every thread runs, and the SSH server answers; the main thread need not   *)
(* let go of the tunnel, clients need not hang up, and nothing need fail.     *)
Fairness ==
    /\ WF_vars(~crashed /\ Main) /\ WF_vars(~crashed /\ TunnelThread)
    /\ \A c \in Clients : /\ WF_vars(~crashed /\ Callback(c))
                          /\ WF_vars(~crashed /\ Forwarder(c))

FairSpec == Spec /\ Fairness
-----------------------------------------------------------------------------
MainType ==
    /\ mainPc \in MainStates /\ toClose \subseteq Clients
    /\ mainConn \in Clients \cup {None}

TunnelType ==
    /\ tunnelPc \in TunnelStates /\ tunnelConn \in Clients \cup {None}
    /\ stopThread \in BOOLEAN /\ crashed \in BOOLEAN
    /\ connections \subseteq Clients

ForwardType ==
    /\ object \in [Clients -> {"none", "alive", "dead"}]
    /\ forwardPc \in [Clients -> ForwardStates]
    /\ running \in [Clients -> BOOLEAN] /\ stop \in [Clients -> BOOLEAN]

SocketType ==
    /\ socket \in [Clients -> {"none", "backlog", "open", "closed"}]
    /\ reading \in [Clients -> BOOLEAN] /\ writing \in [Clients -> BOOLEAN]
    /\ queue \in [Clients -> Seq(Nat)]
    /\ closed \in [Clients -> BOOLEAN] /\ closePosted \in [Clients -> BOOLEAN]

DataType ==
    /\ client \in [Clients -> {"new", "open", "gone"}]
    /\ asked \in [Clients -> Nat] /\ taken \in [Clients -> Nat]
    /\ passed \in [Clients -> Nat] /\ sent \in [Clients -> Nat]
    /\ got \in [Clients -> Seq(Nat)]

(* The variables keep their types.                                         *)
TypeOK == MainType /\ TunnelType /\ ForwardType /\ SocketType /\ DataType

(* A forwarding thread never outlives the LibSSHConnection whose members it  *)
(* uses, nor the io_context it writes to: whichever of two threads destroys   *)
(* the object joins it first, and the socket is destroyed after all of them.  *)
ForwarderHasObject ==
    \A c \in Clients :
        forwardPc[c] \notin {"none", "ended"} => object[c] = "alive" /\ mainPc # "gone"

(* The loop of ~LibSSHTunnel over _connections, which no lock protects, is   *)
(* not disturbed by the tunnel thread, which meanwhile runs the              *)
(* closeCallbacks that the loop posts: with no pointer to the tunnel to be    *)
(* had, they leave the map alone.                                           *)
LoopUndisturbed ==
    [][mainPc = "destroying" => connections' = connections]_vars

(* When ~LibSSHTunnel has returned, no thread of the tunnel is left, and no   *)
(* client is left with a socket that nobody reads.                          *)
NothingLeft ==
    mainPc = "gone" =>
        /\ tunnelPc \in {"none", "ended"}
        /\ \A c \in Clients : /\ forwardPc[c] \in {"none", "ended"}
                              /\ object[c] # "alive"
                              /\ socket[c] \in {"none", "closed"}

InHand(c) == IF forwardPc[c] = "writing" THEN <<sent[c]>> ELSE <<>>

(* What the client has got, what is queued for it and what is being queued    *)
(* are the packets that came through the channel, once and in order,         *)
(* although the forwarding thread queues what the tunnel thread sends.       *)
PacketsInOrder ==
    \A c \in Clients :
        client[c] = "open" /\ socket[c] = "open" =>
            got[c] \o queue[c] \o InHand(c) = [i \in 1 .. sent[c] |-> i]

(* The two ways for the tunnel thread to wait for ever: the forwarding       *)
(* thread took _threadRunning back before the waiter woke up; closeCallback  *)
(* joins, under the mutex, a thread that needs it to write.                  *)
MissedStart(c) == At("starting", c) /\ forwardPc[c] = "ended"
JoinsWriter(c) == At("joining", c) /\ forwardPc[c] = "writing"

TunnelStuck == crashed \/ \E c \in Clients : MissedStart(c) \/ JoinsWriter(c)

(* Letting go of the tunnel returns, with callbacks queued and forwarding    *)
(* threads in any state, unless the tunnel thread is stuck in one of these    *)
(* two ways: a forwarding thread that writes after the tunnel thread has      *)
(* ended, or while its connection is being closed, holds up no one.          *)
DestructionReturns ==
    mainPc \in {"destroying", "joining", "freeing"} ~> mainPc = "gone" \/ TunnelStuck

(* A client that hangs up is forgotten, and its forwarding thread ends: by   *)
(* closeCallback while the tunnel lives on, else by the destructor.          *)
HangUpFrees ==
    \A c \in Clients :
        client[c] = "gone" ~> \/ c \notin connections /\ forwardPc[c] \in {"none", "ended"}
                              \/ TunnelStuck

(* A client gets its greeting and its answers: unless the forward was refused *)
(* or its channel has failed, the tunnel thread is stuck, or the tunnel is    *)
(* destroyed under a guest.                                                *)
ClientAnswered ==
    \A c \in Clients :
        Awaiting(c) ~> \/ ~Awaiting(c) \/ forwardPc[c] = "ended"
                       \/ TunnelStuck \/ ~Owned
=============================================================================
