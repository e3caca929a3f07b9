--------------------------- MODULE SSHTunnelProofs ---------------------------
(* Safety of SSHTunnel, for any number of clients, packets and requests.     *)
EXTENDS SSHTunnel, SequenceTheorems, TLAPS

(* A write is pending only for a packet of the queue.                        *)
WritesQueued == \A c \in Clients : writing[c] => Len(queue[c]) > 0

TypeInv == TypeOK /\ WritesQueued

(* What a callback, a forwarding thread, a client and the destructor's loop   *)
(* may do to the sockets.                                                  *)
SocketStep(c) ==
    \/ HandleAccept(c) \/ StartReturns(c) \/ ReadData(c) \/ ReadError(c) \/ WriteDone(c)
    \/ WriteError(c) \/ CloseCallback(c) \/ Write(c) \/ Dial(c) \/ CloseConnection(c)

LEMMA TypeInit == Init => TypeInv
<1> SUFFICES ASSUME Init PROVE TypeInv
  OBVIOUS
<1> USE TunnelAssumption DEF Init
<1>1. MainType
  BY DEF MainType, MainStates
<1>2. TunnelType
  BY DEF TunnelType, TunnelStates
<1>3. ForwardType
  BY DEF ForwardType, ForwardStates
<1>4. SocketType
  <2>1. <<>> \in Seq(Nat)
    OBVIOUS
  <2> QED
    BY <2>1 DEF SocketType
<1>5. DataType
  <2>1. <<>> \in Seq(Nat)
    OBVIOUS
  <2> QED
    BY <2>1 DEF DataType
<1>6. WritesQueued
  BY DEF WritesQueued
<1> QED
  BY <1>1, <1>2, <1>3, <1>4, <1>5, <1>6 DEF TypeInv, TypeOK

LEMMA MainTypeNext == MainType /\ TunnelType /\ Next => MainType'
  BY TunnelAssumption
  DEF MainType, TunnelType, MainStates, Next, Main, TunnelThread, FailConnect, Listen,
      StartThread, ConnectReturns,
      ResetTunnel, Destroying, StopTunnelThread, JoinTunnelThread, CloseConnection, Close,
      FreeForwarder, ForwarderFreed, DestroySocket, SocketGone, ThreadBegins, PollingStops,
      Callback, HandleAccept, StartReturns, ReadData, ReadError, WriteDone,
      WriteError, CloseCallback, Erase, JoinForwarder, Forwarder, Fails,
      ForwarderBegins, OpenForward, PollData, PollStops, Write, ChannelFails,
      RefuseForward, PollError, Client, Dial, Ask, HangUp, mainVars, tunnelVars, forwardVars,
      socketVars, dataVars

LEMMA TunnelTypeNext == TunnelType /\ Next => TunnelType'
<1> SUFFICES ASSUME TunnelType, Next PROVE TunnelType'
  OBVIOUS
<1> USE TunnelAssumption DEF TunnelType, TunnelStates
<1>1. CASE FailConnect \/ Listen \/ Main \/ ResetTunnel
  BY <1>1
  DEF FailConnect, Listen, Main, StartThread, ConnectReturns, ResetTunnel, Destroying,
      StopTunnelThread, JoinTunnelThread, CloseConnection, FreeForwarder, ForwarderFreed,
      DestroySocket, SocketGone, tunnelVars
<1>2. CASE TunnelThread
  BY <1>2 DEF TunnelThread, ThreadBegins, PollingStops, Go
<1>3. ASSUME NEW c \in Clients, Callback(c) PROVE TunnelType'
  BY <1>3
  DEF Callback, HandleAccept, Insert, StartReturns, ReadData, ReadError, WriteDone,
      WriteError, CloseCallback, Erase, JoinForwarder, Go, Release, tunnelVars
<1>4. ASSUME NEW c \in Clients, Forwarder(c) \/ Fails(c) \/ Client(c)
      PROVE TunnelType'
  BY <1>4
  DEF Forwarder, Fails, ForwarderBegins, OpenForward, PollData, PollStops, Write,
      ChannelFails, RefuseForward, PollError, Client, Dial, Ask, HangUp, tunnelVars
<1> QED
  BY <1>1, <1>2, <1>3, <1>4 DEF Next

LEMMA ForwardTypeNext == ForwardType /\ Next => ForwardType'
<1> SUFFICES ASSUME ForwardType, Next PROVE ForwardType'
  OBVIOUS
<1> USE DEF ForwardType, ForwardStates
<1>1. CASE FailConnect \/ Listen \/ StartThread \/ ConnectReturns \/ ResetTunnel
           \/ StopTunnelThread \/ JoinTunnelThread \/ DestroySocket \/ TunnelThread
  BY <1>1
  DEF FailConnect, Listen, StartThread, ConnectReturns, ResetTunnel, StopTunnelThread,
      JoinTunnelThread, DestroySocket, SocketGone, TunnelThread, ThreadBegins, PollingStops,
      forwardVars
<1>2. ASSUME NEW c \in Clients, CloseConnection(c) PROVE ForwardType'
  BY <1>2 DEF CloseConnection, forwardVars
<1>3. ASSUME NEW c \in Clients, FreeForwarder(c) \/ ForwarderFreed(c) PROVE ForwardType'
  BY <1>3 DEF FreeForwarder, ForwarderFreed
<1>4. ASSUME NEW c \in Clients, Callback(c) PROVE ForwardType'
  BY <1>4
  DEF Callback, HandleAccept, StartReturns, ReadData, ReadError, WriteDone, WriteError,
      CloseCallback, Erase, JoinForwarder, forwardVars
<1>5. ASSUME NEW c \in Clients, Forwarder(c) \/ Fails(c) PROVE ForwardType'
  BY <1>5
  DEF Forwarder, Fails, ForwarderBegins, OpenForward, PollData, PollStops, Write,
      ChannelFails, RefuseForward, PollError, forwardVars
<1>6. ASSUME NEW c \in Clients, Client(c) PROVE ForwardType'
  BY <1>6 DEF Client, Dial, Ask, HangUp, forwardVars
<1> QED
  BY <1>1, <1>2, <1>3, <1>4, <1>5, <1>6 DEF Next, Main, Destroying

(* The steps that touch no socket.                                         *)
LEMMA SocketSteps ==
    Next => \/ UNCHANGED socketVars
            \/ SocketGone
            \/ \E c \in Clients : SocketStep(c)
  BY DEF SocketStep, Next, Main, TunnelThread, FailConnect, Listen, StartThread, ConnectReturns,
      ResetTunnel, Destroying, StopTunnelThread, JoinTunnelThread, CloseConnection, Close,
      FreeForwarder, ForwarderFreed, DestroySocket, SocketGone, ThreadBegins, PollingStops,
      Callback, HandleAccept, StartReturns, ReadData, ReadError, WriteDone,
      WriteError, CloseCallback, Erase, JoinForwarder, Forwarder, Fails,
      ForwarderBegins, OpenForward, PollData, PollStops, Write, ChannelFails,
      RefuseForward, PollError, Client, Dial, Ask, HangUp, mainVars, tunnelVars, forwardVars,
      socketVars, dataVars

LEMMA SocketTypeNext ==
    SocketType /\ WritesQueued /\ DataType /\ Next => SocketType' /\ WritesQueued'
<1> SUFFICES ASSUME SocketType, WritesQueued, DataType, Next
             PROVE SocketType' /\ WritesQueued'
  OBVIOUS
<1> USE DEF SocketType, WritesQueued
<1>1. CASE UNCHANGED socketVars
  BY <1>1 DEF socketVars
<1>2. CASE SocketGone
  BY <1>2 DEF SocketGone
<1>3. ASSUME NEW c \in Clients, SocketStep(c) PROVE SocketType' /\ WritesQueued'
  <2>1. CASE HandleAccept(c) \/ StartReturns(c) \/ ReadData(c) \/ CloseCallback(c) \/ Dial(c)
    BY <2>1 DEF HandleAccept, StartReturns, ReadData, CloseCallback, Dial
  <2>2. CASE ReadError(c) \/ WriteError(c) \/ CloseConnection(c)
    BY <2>2 DEF ReadError, WriteError, CloseConnection, Close
  <2>3. CASE WriteDone(c)
    <3> DEFINE q == queue[c]
    <3>1. q \in Seq(Nat) /\ Len(q) > 0
      BY <2>3 DEF WriteDone
    <3>2. Tail(q) \in Seq(Nat) /\ Len(Tail(q)) = Len(q) - 1
      BY <3>1
    <3>3. /\ queue' = [queue EXCEPT ![c] = Tail(q)]
          /\ writing' = [writing EXCEPT ![c] = ~closed[c] /\ Len(q) > 1]
          /\ UNCHANGED <<socket, reading, closed, closePosted>>
      BY <2>3 DEF WriteDone
    <3>4. Len(q) \in Nat
      BY <3>1
    <3> HIDE DEF q
    <3>5. SocketType'
      BY <3>2, <3>3
    <3>6. ASSUME NEW d \in Clients, writing'[d] PROVE Len(queue'[d]) > 0
      <4>1. CASE d = c
        <5>1. Len(q) > 1
          BY <3>3, <3>6, <4>1
        <5>2. Len(Tail(q)) > 0
          BY <5>1, <3>2, <3>4
        <5> QED
          BY <5>2, <3>3, <4>1
      <4>2. CASE d # c
        BY <3>3, <3>6, <4>2
      <4> QED
        BY <4>1, <4>2
    <3> QED
      BY <3>5, <3>6
  <2>4. CASE Write(c)
    <3> DEFINE q == Append(queue[c], sent[c])
    <3>1. q \in Seq(Nat) /\ Len(q) > 0
      <4>1. queue[c] \in Seq(Nat) /\ sent[c] \in Nat
        BY DEF DataType
      <4> QED
        BY <4>1
    <3>2. /\ queue' = [queue EXCEPT ![c] = q]
          /\ writing' = [writing EXCEPT ![c] = @ \/ (~closed[c] /\ queue[c] = <<>>)]
          /\ UNCHANGED <<socket, reading, closed, closePosted>>
      BY <2>4 DEF Write
    <3> HIDE DEF q
    <3> QED
      BY <3>1, <3>2
  <2> QED
    BY <1>3, <2>1, <2>2, <2>3, <2>4 DEF SocketStep
<1> QED
  BY <1>1, <1>2, <1>3, SocketSteps

LEMMA DataTypeNext == DataType /\ SocketType /\ WritesQueued /\ Next => DataType'
<1> SUFFICES ASSUME DataType, SocketType, WritesQueued, Next PROVE DataType'
  OBVIOUS
<1>1. \/ UNCHANGED dataVars
      \/ \E c \in Clients : ReadData(c) \/ WriteDone(c) \/ PollData(c) \/ Client(c)
  BY DEF Next, Main, TunnelThread, FailConnect, Listen, StartThread, ConnectReturns,
      ResetTunnel, Destroying, StopTunnelThread, JoinTunnelThread, CloseConnection, Close,
      FreeForwarder, ForwarderFreed, DestroySocket, SocketGone, ThreadBegins, PollingStops,
      Callback, HandleAccept, StartReturns, ReadData, ReadError, WriteDone,
      WriteError, CloseCallback, Erase, JoinForwarder, Forwarder, Fails,
      ForwarderBegins, OpenForward, PollData, PollStops, Write, ChannelFails,
      RefuseForward, PollError, Client, Dial, Ask, HangUp, mainVars, tunnelVars, forwardVars,
      socketVars, dataVars
<1>2. CASE UNCHANGED dataVars
  BY <1>2 DEF dataVars, DataType
<1>3. ASSUME NEW c \in Clients, ReadData(c) \/ PollData(c) \/ Client(c) PROVE DataType'
  <2>1. CASE ReadData(c)
    BY <2>1 DEF DataType, ReadData
  <2>5. CASE PollData(c)
    <3>1. sent' = [sent EXCEPT ![c] = @ + 1] /\ UNCHANGED <<client, asked, taken, passed, got>>
      BY <2>5 DEF PollData
    <3> QED
      BY <3>1 DEF DataType
  <2>2. CASE Dial(c)
    BY <2>2 DEF DataType, Dial
  <2>3. CASE Ask(c)
    BY <2>3 DEF DataType, Ask
  <2>4. CASE HangUp(c)
    BY <2>4 DEF DataType, HangUp
  <2> QED
    BY <1>3, <2>1, <2>2, <2>3, <2>4, <2>5 DEF Client
<1>4. ASSUME NEW c \in Clients, WriteDone(c) PROVE DataType'
  <2> DEFINE g == IF client[c] = "gone" THEN got[c] ELSE Append(got[c], Head(queue[c]))
  <2>1. queue[c] \in Seq(Nat) /\ Len(queue[c]) > 0 /\ got[c] \in Seq(Nat)
    BY <1>4 DEF WriteDone, SocketType, WritesQueued, DataType
  <2>2. Head(queue[c]) \in Nat
    BY <2>1
  <2>3. g \in Seq(Nat)
    BY <2>1, <2>2
  <2>4. got' = [got EXCEPT ![c] = g] /\ UNCHANGED <<client, asked, taken, passed, sent>>
    BY <1>4 DEF WriteDone
  <2> HIDE DEF g
  <2> QED
    BY <2>3, <2>4 DEF DataType
<1> QED
  BY <1>1, <1>2, <1>3, <1>4

LEMMA TypeNext == TypeInv /\ [Next]_vars => TypeInv'
<1> SUFFICES ASSUME TypeInv, [Next]_vars PROVE TypeInv'
  OBVIOUS
<1>1. CASE UNCHANGED vars
  BY <1>1
  DEF vars, mainVars, tunnelVars, forwardVars, socketVars, dataVars, TypeInv, TypeOK,
      MainType, TunnelType, ForwardType, SocketType, DataType, WritesQueued
<1>2. CASE Next
  BY <1>2, MainTypeNext, TunnelTypeNext, ForwardTypeNext, SocketTypeNext, DataTypeNext
  DEF TypeInv, TypeOK
<1> QED
  BY <1>1, <1>2

(* The variables keep their types.                                         *)
THEOREM TypeCorrect == Spec => []TypeOK
<1>1. TypeInv => TypeOK
  BY DEF TypeInv
<1> QED
  BY <1>1, TypeInit, TypeNext, PTL DEF Spec
-----------------------------------------------------------------------------
(* Before it listens the tunnel has done nothing; before it is started it    *)
(* has no thread.                                                          *)
Unstarted ==
    /\ mainPc \in {"new", "listening"} => tunnelPc = "none"
    /\ mainPc = "new" => \A c \in Clients : client[c] = "new"

(* A client gets a socket, an object and a thread in this order.             *)
Dialled ==
    \A c \in Clients :
        /\ client[c] = "new" => socket[c] = "none"
        /\ socket[c] \in {"none", "backlog"} => object[c] = "none"
        /\ object[c] = "none" <=> forwardPc[c] = "none"
        /\ reading[c] \/ writing[c] \/ closePosted[c] => object[c] # "none"

(* An object lives exactly as long as the map has it, or its destructor runs  *)
(* in closeCallback.                                                        *)
Kept ==
    \A c \in Clients : object[c] = "alive" <=> c \in connections \/ At("joining", c)

CallbackKept ==
    /\ tunnelPc \in {"starting", "erasing"} => tunnelConn \in connections
    /\ tunnelPc = "joining" => tunnelConn \notin connections

(* Once the main thread has begun to destroy the tunnel, no callback has it. *)
NotHeld == mainPc \in {"destroying", "joining", "freeing", "gone"} => ~Held

(* The loop of ~LibSSHTunnel finds in the map what it began with.            *)
LoopInMap == mainPc = "destroying" => toClose \subseteq connections

(* The members are destroyed with the tunnel thread joined, and the          *)
(* LibSSHConnection being destroyed is one of the map.                       *)
FreedAlone ==
    /\ mainPc \in {"freeing", "gone"} => tunnelPc \in {"none", "ended"}
    /\ mainConn # None => mainPc = "freeing" /\ mainConn \in connections

LifeInv ==
    /\ Unstarted /\ Dialled /\ Kept /\ CallbackKept /\ NotHeld /\ LoopInMap /\ FreedAlone
    /\ ForwarderHasObject /\ NothingLeft

LEMMA LifeInit == Init => LifeInv
  BY TunnelAssumption
  DEF Init, LifeInv, Unstarted, Dialled, Kept, CallbackKept, NotHeld, LoopInMap, FreedAlone,
      ForwarderHasObject, NothingLeft, Held, At

LEMMA LifeNext == TypeInv /\ LifeInv /\ [Next]_vars => LifeInv'
<1> SUFFICES ASSUME TypeInv, LifeInv, [Next]_vars PROVE LifeInv'
  OBVIOUS
<1> USE TunnelAssumption DEF LifeInv, Unstarted, Dialled, Kept, CallbackKept, NotHeld,
        LoopInMap, FreedAlone, ForwarderHasObject, NothingLeft, Held, At,
        mainVars, tunnelVars, forwardVars, socketVars, dataVars
<1>t. /\ object \in [Clients -> {"none", "alive", "dead"}]
      /\ forwardPc \in [Clients -> ForwardStates]
      /\ socket \in [Clients -> {"none", "backlog", "open", "closed"}]
      /\ client \in [Clients -> {"new", "open", "gone"}]
      /\ reading \in [Clients -> BOOLEAN] /\ writing \in [Clients -> BOOLEAN]
      /\ closePosted \in [Clients -> BOOLEAN]
      /\ connections \subseteq Clients /\ toClose \subseteq Clients
      /\ tunnelPc \in TunnelStates /\ mainPc \in MainStates
  BY DEF TypeInv, TypeOK, MainType, TunnelType, ForwardType, SocketType, DataType
<1>1. CASE UNCHANGED vars
  BY <1>1 DEF vars
<1>2. CASE FailConnect \/ Listen \/ StartThread \/ ConnectReturns \/ ResetTunnel
  BY <1>2, <1>t DEF FailConnect, Listen, StartThread, ConnectReturns, ResetTunnel
<1>3. CASE Destroying
  <2>1. CASE StopTunnelThread
    BY <2>1, <1>t DEF StopTunnelThread
  <2>2. CASE JoinTunnelThread
    BY <2>2, <1>t DEF JoinTunnelThread
  <2>3. ASSUME NEW c \in Clients, CloseConnection(c) PROVE LifeInv'
    BY <2>3, <1>t DEF CloseConnection, Close
  <2>4. ASSUME NEW c \in Clients, FreeForwarder(c) PROVE LifeInv'
    BY <2>4, <1>t DEF FreeForwarder
  <2>5. ASSUME NEW c \in Clients, ForwarderFreed(c) PROVE LifeInv'
    BY <2>5, <1>t DEF ForwarderFreed
  <2>6. CASE DestroySocket
    BY <2>6, <1>t DEF DestroySocket, SocketGone, ForwardStates
  <2> QED
    BY <1>3, <2>1, <2>2, <2>3, <2>4, <2>5, <2>6 DEF Destroying
<1>4. CASE TunnelThread
  BY <1>4, <1>t DEF TunnelThread, ThreadBegins, PollingStops, Go
<1>5. ASSUME NEW c \in Clients, Callback(c) PROVE LifeInv'
  <2>1. CASE HandleAccept(c)
    BY <2>1, <1>t DEF HandleAccept, Insert, Go, Owned, ForwardStates
  <2>2. CASE StartReturns(c)
    BY <2>2, <1>t DEF StartReturns, Go, Release
  <2>3. CASE ReadData(c) \/ ReadError(c)
    BY <2>3, <1>t DEF ReadData, ReadError, Close
  <2>7. CASE WriteDone(c)
    <3>1. /\ object[c] # "none"
          /\ writing' = [writing EXCEPT ![c] = writing'[c]]
          /\ UNCHANGED <<mainVars, tunnelVars, forwardVars, socket, reading, closePosted,
                         client>>
      BY <2>7, <1>t DEF WriteDone
    <3> QED
      BY <3>1, <1>t
  <2>8. CASE WriteError(c)
    BY <2>8, <1>t DEF WriteError, Close
  <2>4. CASE CloseCallback(c)
    <3>1. CASE object[c] = "alive" /\ Owned
      BY <3>1, <2>4, <1>t DEF CloseCallback, Go, Owned
    <3>2. CASE ~(object[c] = "alive" /\ Owned)
      <4>1. /\ socket' = [socket EXCEPT ![c] = "closed"]
            /\ UNCHANGED <<mainVars, tunnelVars, forwardVars, client>>
            /\ closePosted' = [closePosted EXCEPT ![c] = FALSE]
            /\ UNCHANGED <<reading, writing>>
        BY <3>2, <2>4 DEF CloseCallback, dataVars
      <4>2. object[c] # "none" /\ socket[c] \notin {"none", "backlog"}
        BY <2>4, <1>t DEF CloseCallback
      <4> QED
        BY <4>1, <4>2, <1>t
    <3> QED
      BY <3>1, <3>2
  <2>5. CASE Erase(c)
    BY <2>5, <1>t DEF Erase, Go, Release
  <2>6. CASE JoinForwarder(c)
    BY <2>6, <1>t DEF JoinForwarder, Go
  <2> QED
    BY <1>5, <2>1, <2>2, <2>3, <2>4, <2>5, <2>6, <2>7, <2>8 DEF Callback
<1>6. ASSUME NEW c \in Clients, Forwarder(c) \/ RefuseForward(c) \/ PollError(c)
      PROVE LifeInv'
  <2>1. /\ forwardPc[c] \in {"begin", "opening", "polling", "writing"}
        /\ \E pc \in ForwardStates \ {"none", "begin"} :
               forwardPc' = [forwardPc EXCEPT ![c] = pc]
        /\ UNCHANGED <<mainVars, tunnelVars, object, socket, client, reading, closePosted>>
        /\ \A d \in Clients \ {c} : writing'[d] = writing[d]
    BY <1>6, <1>t
    DEF Forwarder, ForwarderBegins, OpenForward, PollData, PollStops, Write, RefuseForward,
        PollError, ForwardStates, socketVars, dataVars
  <2>2. PICK pc \in ForwardStates \ {"none", "begin"} :
               forwardPc' = [forwardPc EXCEPT ![c] = pc]
    BY <2>1
  <2> QED
    BY <2>1, <2>2, <1>t
<1>7. ASSUME NEW c \in Clients, ChannelFails(c) PROVE LifeInv'
  BY <1>7, <1>t DEF ChannelFails
<1>8. ASSUME NEW c \in Clients, Client(c) PROVE LifeInv'
  BY <1>8, <1>t DEF Client, Dial, Listening, Ask, HangUp
<1> QED
  BY <1>1, <1>2, <1>3, <1>4, <1>5, <1>6, <1>7, <1>8 DEF Next, Main, Fails

LEMMA LifeCorrect == Spec => [](TypeInv /\ LifeInv)
  BY TypeInit, TypeNext, LifeInit, LifeNext, PTL DEF Spec

(* No forwarding thread outlives the object it uses.                         *)
THEOREM ForwardersHaveObjects == Spec => []ForwarderHasObject
<1>1. LifeInv => ForwarderHasObject
  BY DEF LifeInv
<1> QED
  BY <1>1, LifeCorrect, PTL

(* When the tunnel has been destroyed nothing of it is left.                 *)
THEOREM DestructionComplete == Spec => []NothingLeft
<1>1. LifeInv => NothingLeft
  BY DEF LifeInv
<1> QED
  BY <1>1, LifeCorrect, PTL

(* The destructor's loop has the map for itself.                             *)
THEOREM LoopHasTheMap == Spec => LoopUndisturbed
<1>1. TypeInv /\ LifeInv /\ [Next]_vars
          => [mainPc = "destroying" => connections' = connections]_vars
  <2> SUFFICES ASSUME LifeInv, Next, mainPc = "destroying"
               PROVE connections' = connections
    BY DEF vars
  <2>1. ~Held /\ ~Owned /\ mainConn = None
    BY DEF LifeInv, NotHeld, FreedAlone, Owned
  <2> QED
    BY <2>1, TunnelAssumption
    DEF Next, Main, TunnelThread, Held, Owned, At, FailConnect, Listen, StartThread,
        ConnectReturns, ResetTunnel, Destroying, StopTunnelThread, JoinTunnelThread,
        CloseConnection, FreeForwarder, ForwarderFreed, DestroySocket, SocketGone,
        ThreadBegins, PollingStops, Callback, HandleAccept, StartReturns, ReadData,
        ReadError, WriteDone, WriteError, CloseCallback, Erase, JoinForwarder, Forwarder,
        Fails, ForwarderBegins, OpenForward, PollData, PollStops, Write, ChannelFails,
        RefuseForward, PollError, Client, Dial, Ask, HangUp, tunnelVars
<1> QED
  BY <1>1, LifeCorrect, PTL DEF Spec, LoopUndisturbed
-----------------------------------------------------------------------------
Hand(c) == IF forwardPc[c] = "writing" THEN 1 ELSE 0

(* The numbers of n packets: those the client has got, those queued, and h    *)
(* in hand follow each other.                                               *)
Numbers(g, q, n, h) ==
    /\ n = Len(g) + Len(q) + h
    /\ \A i \in 1 .. Len(g) : g[i] = i
    /\ \A i \in 1 .. Len(q) : q[i] = Len(g) + i

Numbered(c) == Numbers(got[c], queue[c], sent[c], Hand(c))

Fresh(c) == sent[c] = 0 /\ got[c] = <<>> /\ queue[c] = <<>>

PacketInv ==
    \A c \in Clients :
        /\ object[c] = "none" => Fresh(c)
        /\ client[c] = "open" /\ socket[c] = "open" => Numbered(c)

LEMMA PacketInit == Init => PacketInv
  BY DEF Init, PacketInv, Fresh

(* A client of which nothing changes.                                       *)
LEMMA PacketKept ==
  ASSUME NEW c \in Clients, PacketInv,
         UNCHANGED <<sent[c], got[c], queue[c]>>,
         object'[c] = "none" => object[c] = "none",
         forwardPc'[c] = "writing" <=> forwardPc[c] = "writing",
         client'[c] = "open" /\ socket'[c] = "open" => client[c] = "open" /\ socket[c] = "open"
  PROVE  /\ object'[c] = "none" => Fresh(c)'
         /\ client'[c] = "open" /\ socket'[c] = "open" => Numbered(c)'
  BY DEF PacketInv, Fresh, Numbered, Hand

LEMMA NumbersNone == Numbers(<<>>, <<>>, 0, 0)
<1>1. Len(<<>>) = 0
  OBVIOUS
<1> QED
  BY <1>1 DEF Numbers

(* The tunnel thread's write is done: the first packet of the queue goes to   *)
(* the client.                                                              *)
LEMMA NumbersSent ==
  ASSUME NEW q \in Seq(Nat), Len(q) > 0, NEW g \in Seq(Nat), NEW n \in Nat, NEW h \in Nat,
         Numbers(g, q, n, h)
  PROVE  Numbers(Append(g, Head(q)), Tail(q), n, h)
<1>0. Len(g) \in Nat /\ Len(q) \in Nat
  OBVIOUS
<1>1. Head(q) = Len(g) + 1 /\ Head(q) \in Nat
  BY <1>0, HeadTailProperties DEF Numbers
<1> DEFINE next == Append(g, Head(q))
           rest == Tail(q)
<1>2. /\ Len(next) = Len(g) + 1
      /\ \A i \in 1 .. Len(g) : next[i] = g[i]
      /\ next[Len(g) + 1] = Head(q)
  BY <1>1, AppendProperties
<1>3. Len(rest) = Len(q) - 1 /\ \A i \in 1 .. Len(q) - 1 : rest[i] = q[i + 1]
  BY HeadTailProperties
<1> HIDE DEF next, rest
<1>4. \A i \in 1 .. Len(next) : next[i] = i
  <2> SUFFICES ASSUME NEW i \in 1 .. Len(g) + 1 PROVE next[i] = i
    BY <1>2
  <2>1. CASE i = Len(g) + 1
    BY <1>1, <1>2, <2>1
  <2>2. CASE i # Len(g) + 1
    <3>1. i \in 1 .. Len(g)
      BY <1>0, <2>2
    <3>2. g[i] = i
      BY <3>1 DEF Numbers
    <3> QED
      BY <1>2, <3>1, <3>2
  <2> QED
    BY <2>1, <2>2
<1>5. \A i \in 1 .. Len(rest) : rest[i] = Len(next) + i
  BY <1>0, <1>2, <1>3 DEF Numbers
<1>6. Numbers(next, rest, n, h)
  BY <1>0, <1>2, <1>3, <1>4, <1>5 DEF Numbers
<1> QED
  BY <1>6 DEF next, rest

LEMMA NumbersRead ==
  ASSUME NEW q \in Seq(Nat), NEW g \in Seq(Nat), NEW n \in Nat, Numbers(g, q, n, 0)
  PROVE  Numbers(g, q, n + 1, 1)
<1>1. Len(g) \in Nat /\ Len(q) \in Nat
  OBVIOUS
<1> QED
  BY <1>1 DEF Numbers

LEMMA NumbersQueued ==
  ASSUME NEW q \in Seq(Nat), NEW g \in Seq(Nat), NEW n \in Nat, Numbers(g, q, n, 1)
  PROVE  Numbers(g, Append(q, n), n, 0)
<1>0. Len(g) \in Nat /\ Len(q) \in Nat
  OBVIOUS
<1> DEFINE longer == Append(q, n)
<1>1. /\ Len(longer) = Len(q) + 1
      /\ \A i \in 1 .. Len(q) : longer[i] = q[i]
      /\ longer[Len(q) + 1] = n
  BY AppendProperties
<1> HIDE DEF longer
<1>2. n = Len(g) + Len(q) + 1
  BY DEF Numbers
<1>3. \A i \in 1 .. Len(longer) : longer[i] = Len(g) + i
  <2> SUFFICES ASSUME NEW i \in 1 .. Len(q) + 1 PROVE longer[i] = Len(g) + i
    BY <1>1
  <2>1. CASE i = Len(q) + 1
    BY <1>0, <1>1, <1>2, <2>1
  <2>2. CASE i # Len(q) + 1
    <3>1. i \in 1 .. Len(q)
      BY <1>0, <2>2
    <3>2. q[i] = Len(g) + i
      BY <3>1 DEF Numbers
    <3> QED
      BY <1>1, <3>1, <3>2
  <2> QED
    BY <2>1, <2>2
<1>4. \A i \in 1 .. Len(g) : g[i] = i
  BY DEF Numbers
<1>5. n = Len(g) + Len(longer) + 0
  BY <1>0, <1>1, <1>2
<1>6. Numbers(g, longer, n, 0)
  BY <1>3, <1>4, <1>5 DEF Numbers
<1> QED
  BY <1>6 DEF longer

(* The packets 1 to n.                                                      *)
Counted(s, n) == s = [i \in 1 .. n |-> i]

LEMMA NumbersInOrder ==
  ASSUME NEW q \in Seq(Nat), NEW g \in Seq(Nat), NEW n \in Nat,
         NEW hand \in Seq(Nat), Len(hand) <= 1, \A i \in 1 .. Len(hand) : hand[i] = n,
         Numbers(g, q, n, Len(hand))
  PROVE  Counted(g \o q \o hand, n)
<1>0. Len(g) \in Nat /\ Len(q) \in Nat /\ Len(hand) \in Nat
  OBVIOUS
<1> DEFINE gone == g \o q
<1>1. /\ gone \in Seq(Nat) /\ Len(gone) = Len(g) + Len(q)
      /\ \A i \in 1 .. Len(g) + Len(q) :
             gone[i] = IF i <= Len(g) THEN g[i] ELSE q[i - Len(g)]
  BY ConcatProperties
<1> HIDE DEF gone
<1>2. \A i \in 1 .. Len(gone) : gone[i] = i
  <2> SUFFICES ASSUME NEW i \in 1 .. Len(gone) PROVE gone[i] = i
    OBVIOUS
  <2>1. CASE i <= Len(g)
    <3>1. i \in 1 .. Len(g) /\ i \in 1 .. Len(g) + Len(q)
      BY <1>0, <1>1, <2>1
    <3>2. g[i] = i
      BY <3>1 DEF Numbers
    <3> QED
      BY <1>1, <2>1, <3>1, <3>2
  <2>2. CASE i > Len(g)
    <3>1. i - Len(g) \in 1 .. Len(q)
      BY <1>0, <1>1, <2>2
    <3>2. q[i - Len(g)] = Len(g) + (i - Len(g))
      BY <3>1 DEF Numbers
    <3> QED
      BY <1>0, <1>1, <2>2, <3>2
  <2> QED
    BY <1>0, <2>1, <2>2
<1> DEFINE h == Len(hand)
<1>3. n = Len(gone) + h /\ Len(gone) \in Nat /\ h \in 0 .. 1
  <2>1. n = Len(g) + Len(q) + Len(hand)
    BY DEF Numbers
  <2>2. \A k \in Nat : k <= 1 => k = 0 \/ k = 1
    OBVIOUS
  <2>3. Len(hand) = 0 \/ Len(hand) = 1
    BY <1>0, <2>2
  <2> QED
    BY <1>0, <1>1, <2>1, <2>3
<1> DEFINE all == gone \o hand
<1>4. /\ all \in Seq(Nat) /\ Len(all) = Len(gone) + Len(hand)
      /\ \A i \in 1 .. Len(gone) + Len(hand) :
             all[i] = IF i <= Len(gone) THEN gone[i] ELSE hand[i - Len(gone)]
  BY <1>1, ConcatProperties
<1> HIDE DEF all
<1>5. \A i \in 1 .. n : all[i] = i
  <2> SUFFICES ASSUME NEW i \in 1 .. n PROVE all[i] = i
    OBVIOUS
  <2>0. i \in 1 .. Len(gone) + Len(hand)
    BY <1>3
  <2>1. CASE i <= Len(gone)
    <3>1. i \in 1 .. Len(gone)
      BY <1>3, <2>1
    <3> QED
      BY <1>2, <1>4, <2>0, <2>1, <3>1
  <2>2. CASE i > Len(gone)
    <3>1. h = 1 /\ i = n /\ i - Len(gone) = 1
      BY <1>3, <2>2
    <3>2. all[i] = hand[i - Len(gone)]
      BY <1>3, <1>4, <2>0, <2>2
    <3>3. hand[i - Len(gone)] = hand[1]
      BY <3>1
    <3> QED
      BY <3>1, <3>2, <3>3
  <2> QED
    BY <1>3, <2>1, <2>2
<1>6. Len(all) = n
  BY <1>3, <1>4
<1>7. all = [i \in 1 .. n |-> i]
  BY <1>4, <1>5, <1>6
<1> QED
  BY <1>7 DEF Counted, all, gone

LEMMA PacketNext == TypeInv /\ LifeInv /\ PacketInv /\ [Next]_vars => PacketInv'
<1> SUFFICES ASSUME TypeInv, LifeInv, PacketInv, [Next]_vars, NEW c \in Clients
             PROVE  /\ object'[c] = "none" => Fresh(c)'
                    /\ client'[c] = "open" /\ socket'[c] = "open" => Numbered(c)'
  BY DEF PacketInv
<1> DEFINE Goal == /\ object'[c] = "none" => Fresh(c)'
                   /\ client'[c] = "open" /\ socket'[c] = "open" => Numbered(c)'
<1>t. /\ object \in [Clients -> {"none", "alive", "dead"}]
      /\ forwardPc \in [Clients -> ForwardStates]
      /\ socket \in [Clients -> {"none", "backlog", "open", "closed"}]
      /\ client \in [Clients -> {"new", "open", "gone"}]
      /\ queue \in [Clients -> Seq(Nat)] /\ got \in [Clients -> Seq(Nat)]
      /\ sent \in [Clients -> Nat] /\ writing \in [Clients -> BOOLEAN]
      /\ \A d \in Clients : writing[d] => Len(queue[d]) > 0
  BY DEF TypeInv, TypeOK, ForwardType, SocketType, DataType, WritesQueued
<1>l. /\ client[c] = "new" => socket[c] = "none"
      /\ socket[c] \in {"none", "backlog"} => object[c] = "none"
      /\ object[c] = "none" <=> forwardPc[c] = "none"
      /\ writing[c] => object[c] # "none"
  BY DEF LifeInv, Dialled
<1>n. Len(queue[c]) \in Nat /\ Len(got[c]) \in Nat /\ sent[c] \in Nat
  BY <1>t
<1>1. CASE UNCHANGED vars
  BY <1>1, PacketKept DEF vars, forwardVars, socketVars, dataVars
<1>2. CASE FailConnect \/ Listen \/ StartThread \/ ConnectReturns \/ ResetTunnel
           \/ TunnelThread
  BY <1>2, PacketKept
  DEF FailConnect, Listen, StartThread, ConnectReturns, ResetTunnel, TunnelThread,
      ThreadBegins, PollingStops, forwardVars, socketVars, dataVars
<1>3. CASE Destroying
  <2>1. CASE DestroySocket
    BY <2>1, PacketKept DEF DestroySocket, SocketGone, forwardVars, dataVars
  <2>2. CASE StopTunnelThread \/ JoinTunnelThread
             \/ \E d \in Clients : CloseConnection(d) \/ FreeForwarder(d)
    BY <2>2, PacketKept
    DEF StopTunnelThread, JoinTunnelThread, CloseConnection, FreeForwarder, forwardVars,
        socketVars, dataVars
  <2>3. ASSUME NEW d \in Clients, ForwarderFreed(d) PROVE Goal
    BY <2>3, <1>t, PacketKept DEF ForwarderFreed, socketVars, dataVars
  <2> QED
    BY <1>3, <2>1, <2>2, <2>3 DEF Destroying
<1>4. ASSUME NEW d \in Clients, Callback(d) PROVE Goal
  <2>1. CASE HandleAccept(d)
    <3>1. CASE d = c /\ Owned
      <4>1. Fresh(c) /\ UNCHANGED <<sent, got, queue>> /\ forwardPc'[c] = "begin"
        BY <2>1, <3>1, <1>t, <1>l DEF HandleAccept, PacketInv, dataVars
      <4>2. Fresh(c)' /\ Numbered(c)'
        BY <4>1, NumbersNone DEF Fresh, Numbered, Hand
      <4> QED
        BY <4>2
    <3>2. CASE d # c \/ ~Owned
      BY <2>1, <3>2, <1>t, PacketKept DEF HandleAccept, dataVars
    <3> QED
      BY <3>1, <3>2
  <2>2. CASE WriteDone(d)
    <3>1. UNCHANGED <<object, forwardPc, socket, client, sent>>
      BY <2>2 DEF WriteDone, forwardVars
    <3>2. CASE d # c
      BY <2>2, <3>1, <3>2, <1>t, PacketKept DEF WriteDone
    <3>3. CASE d = c
      <4>1. /\ object[c] # "none" /\ Len(queue[c]) > 0
            /\ queue'[c] = Tail(queue[c])
            /\ client[c] = "open" => got'[c] = Append(got[c], Head(queue[c]))
        BY <2>2, <3>3, <1>t, <1>l DEF WriteDone
      <4>2. ASSUME client[c] = "open", socket[c] = "open" PROVE Numbered(c)'
        <5>1. Numbered(c)
          BY <4>2 DEF PacketInv
        <5>2. queue[c] \in Seq(Nat) /\ got[c] \in Seq(Nat)
          BY <1>t
        <5>3. Hand(c)' = Hand(c) /\ Hand(c) \in Nat /\ sent'[c] = sent[c]
          BY <3>1 DEF Hand
        <5>4. Numbers(got'[c], queue'[c], sent[c], Hand(c))
          BY <1>n, <4>1, <4>2, <5>1, <5>2, <5>3, NumbersSent DEF Numbered
        <5> QED
          BY <5>3, <5>4 DEF Numbered
      <4> QED
        BY <3>1, <4>1, <4>2
    <3> QED
      BY <3>2, <3>3
  <2>3. CASE CloseCallback(d)
    BY <2>3, <1>t, PacketKept DEF CloseCallback, forwardVars, dataVars
  <2>4. CASE JoinForwarder(d)
    BY <2>4, <1>t, PacketKept DEF JoinForwarder, socketVars, dataVars
  <2>5. CASE StartReturns(d) \/ ReadData(d) \/ ReadError(d) \/ WriteError(d) \/ Erase(d)
    BY <2>5, PacketKept
    DEF StartReturns, ReadData, ReadError, WriteError, Erase, forwardVars, socketVars, dataVars
  <2> QED
    BY <1>4, <2>1, <2>2, <2>3, <2>4, <2>5 DEF Callback
<1>5. ASSUME NEW d \in Clients, Forwarder(d) \/ Fails(d) PROVE Goal
  <2>1. CASE PollData(d)
    <3>1. /\ UNCHANGED <<object, socket, client, got, queue>>
          /\ sent' = [sent EXCEPT ![d] = @ + 1]
          /\ forwardPc[d] = "polling" /\ forwardPc' = [forwardPc EXCEPT ![d] = "writing"]
      BY <2>1 DEF PollData, socketVars
    <3>2. CASE d # c
      BY <3>1, <3>2, <1>t, PacketKept
    <3>3. CASE d = c
      <4>1. object[c] # "none" /\ sent'[c] = sent[c] + 1 /\ Hand(c) = 0 /\ Hand(c)' = 1
        BY <3>1, <3>3, <1>t, <1>l DEF Hand
      <4> QED
        BY <1>n, <1>t, <3>1, <4>1, NumbersRead DEF PacketInv, Numbered
    <3> QED
      BY <3>2, <3>3
  <2>2. CASE Write(d)
    <3>1. /\ UNCHANGED <<object, socket, client, got, sent>>
          /\ queue' = [queue EXCEPT ![d] = Append(@, sent[d])]
          /\ forwardPc[d] = "writing" /\ forwardPc' = [forwardPc EXCEPT ![d] = "polling"]
      BY <2>2 DEF Write, dataVars
    <3>2. CASE d # c
      BY <3>1, <3>2, <1>t, PacketKept
    <3>3. CASE d = c
      <4>1. /\ object[c] # "none" /\ Hand(c) = 1 /\ Hand(c)' = 0
            /\ queue'[c] = Append(queue[c], sent[c])
        BY <3>1, <3>3, <1>t, <1>l DEF Hand
      <4> QED
        BY <1>n, <1>t, <3>1, <4>1, NumbersQueued DEF PacketInv, Numbered
    <3> QED
      BY <3>2, <3>3
  <2>3. CASE \/ ForwarderBegins(d) \/ OpenForward(d) \/ PollStops(d) \/ RefuseForward(d)
             \/ PollError(d)
    BY <2>3, <1>t, PacketKept
    DEF ForwarderBegins, OpenForward, PollStops, RefuseForward, PollError, ForwardStates,
        socketVars, dataVars
  <2>4. CASE ChannelFails(d)
    BY <2>4, PacketKept DEF ChannelFails, forwardVars, socketVars, dataVars
  <2> QED
    BY <1>5, <2>1, <2>2, <2>3, <2>4 DEF Forwarder, Fails
<1>6. ASSUME NEW d \in Clients, Client(d) PROVE Goal
  <2>1. CASE Dial(d)
    BY <2>1, <1>t, PacketKept DEF Dial, forwardVars
  <2>2. CASE Ask(d) \/ HangUp(d)
    BY <2>2, <1>t, PacketKept DEF Ask, HangUp, forwardVars, socketVars
  <2> QED
    BY <1>6, <2>1, <2>2 DEF Client
<1> QED
  BY <1>1, <1>2, <1>3, <1>4, <1>5, <1>6 DEF Next, Main

(* A client gets the packets that came through its channel, each once and in  *)
(* the order in which they came.                                            *)
THEOREM PacketsKeepOrder == Spec => []PacketsInOrder
<1>1. TypeInv /\ PacketInv => PacketsInOrder
  <2> SUFFICES ASSUME TypeInv, PacketInv, NEW c \in Clients,
                      client[c] = "open", socket[c] = "open"
               PROVE  got[c] \o queue[c] \o InHand(c) = [i \in 1 .. sent[c] |-> i]
    BY DEF PacketsInOrder
  <2>1. /\ got[c] \in Seq(Nat) /\ queue[c] \in Seq(Nat) /\ sent[c] \in Nat
        /\ Len(got[c]) \in Nat /\ Len(queue[c]) \in Nat
    BY DEF TypeInv, TypeOK, SocketType, DataType
  <2>2. Numbered(c)
    BY DEF PacketInv
  <2>3. /\ InHand(c) \in Seq(Nat) /\ Len(InHand(c)) = Hand(c) /\ Len(InHand(c)) <= 1
        /\ \A i \in 1 .. Len(InHand(c)) : InHand(c)[i] = sent[c]
    BY <2>1 DEF InHand, Hand
  <2>4. Numbers(got[c], queue[c], sent[c], Len(InHand(c)))
    BY <2>2, <2>3 DEF Numbered
  <2>5. Counted(got[c] \o queue[c] \o InHand(c), sent[c])
    BY <2>1, <2>3, <2>4, NumbersInOrder
  <2> QED
    BY <2>5 DEF Counted
<1>2. Spec => []PacketInv
  BY PacketInit, PacketNext, LifeCorrect, PTL DEF Spec
<1> QED
  BY <1>1, <1>2, LifeCorrect, PTL
=============================================================================
