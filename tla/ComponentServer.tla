-------------------------- MODULE ComponentServer --------------------------
(***************************************************************************)
(* The server of an application in event mode (class Server under          *)
(* ComponentServer): one thread accepts connections, another walks the     *)
(* vector of connections under a mutex and reads from each, and the main   *)
(* loop of the application pops what was read.  The Execution Manager's    *)
(* client makes one connection per event: it connects, sends and closes.   *)
(*                                                                         *)
(* Connection k carries event k.  The accepted sockets are blocking:       *)
(* O_NONBLOCK is given to F_SETFD, which has no such flag.                 *)
(***************************************************************************)
EXTENDS Naturals, Sequences, FiniteSets

CONSTANTS
    MaxEvents,        \* bound: events the Execution Manager sends
    MaxFds,           \* file descriptors the process has for its server
    Backlog           \* connections the kernel holds: listen(1) holds two

NoClient == 0         \* a connection without client, or a moved-from pointer

ASSUME ServerAssumption ==
    MaxEvents \in Nat /\ MaxFds \in Nat \ {0, 1} /\ Backlog \in Nat

VARIABLES
    connected,        \* connections the client has made, ...
    sent,             \* ... events it has sent and ...
    closed,           \* ... connections it has closed again
    unread,           \* events in the sockets
    backlog,          \* connections not yet accepted
    acceptor,         \* where m_serverThread is in onRunning
    accepted,         \* the connection it is about to push
    active,           \* m_activeConnections
    receiver,         \* where m_receiveThread is in handleConnections
    cursor,           \* the slot its walk has reached
    walkEnd,          \* end() as the walk computed it
    dataQueue,        \* m_recvDataQueue
    handled,          \* events the application has popped
    leaked,           \* sockets of Client's constructor, never closed
    owner,            \* where the application is in stop()
    crashed,          \* the process has died of a null pointer
    overlapped        \* history: a connection was made before the one
                      \* before it was dropped

clientVars == <<connected, sent, closed, overlapped>>
acceptorVars == <<backlog, acceptor, accepted, leaked>>
receiverVars == <<receiver, cursor, walkEnd>>
appVars == <<dataQueue, handled, owner>>
vars == <<clientVars, unread, acceptorVars, active, receiverVars, appVars,
          crashed>>

isStarted == owner = "up"
Live == ({active[i] : i \in 1 .. Len(active)} \cup {accepted}) \ {NoClient}
UsedFds == 1 + Cardinality(Live) + leaked

(* The constructor and start().                                            *)
Init ==
    /\ connected = 0 /\ sent = 0 /\ closed = 0 /\ unread = {}
    /\ backlog = <<>> /\ acceptor = "loop" /\ accepted = NoClient
    /\ active = <<>> /\ receiver = "loop" /\ cursor = 0 /\ walkEnd = 0
    /\ dataQueue = <<>> /\ handled = <<>> /\ leaked = 0
    /\ owner = "up" /\ crashed = FALSE /\ overlapped = FALSE

-----------------------------------------------------------------------------
(* The Execution Manager's SetComponentState, one event after another.     *)
Connect ==
    /\ connected = closed
    /\ connected < MaxEvents
    /\ Len(backlog) < Backlog
    /\ owner # "closed"
    /\ connected' = connected + 1
    /\ backlog' = Append(backlog, connected')
    /\ overlapped' = (overlapped \/ backlog # <<>> \/ Live # {})
    /\ UNCHANGED <<sent, closed, unread, acceptor, accepted, leaked, active,
                   receiverVars, appVars, crashed>>

SendMessage ==
    /\ sent < connected
    /\ sent' = sent + 1
    /\ unread' = unread \cup {sent'}
    /\ UNCHANGED <<connected, closed, overlapped, acceptorVars, active,
                   receiverVars, appVars, crashed>>

(* Mutant: the client is destroyed before it has sent.                     *)
CloseUnsent ==
    /\ closed < connected
    /\ closed' = closed + 1
    /\ UNCHANGED <<connected, sent, overlapped, unread, acceptorVars, active,
                   receiverVars, appVars, crashed>>

CloseClient ==
    /\ closed < sent
    /\ closed' = closed + 1
    /\ UNCHANGED <<connected, sent, overlapped, unread, acceptorVars, active,
                   receiverVars, appVars, crashed>>

-----------------------------------------------------------------------------
(* onRunning.                                                              *)
AcceptorLoop ==
    /\ acceptor = "loop"
    /\ acceptor' = IF isStarted THEN "accept" ELSE "ended"
    /\ UNCHANGED <<clientVars, unread, backlog, accepted, leaked, active,
                   receiverVars, appVars, crashed>>

(* accept blocks for a connection.  makeProxyClient then opens a socket of *)
(* its own, which setClientFd overwrites.                                  *)
AcceptConnection ==
    /\ acceptor = "accept"
    /\ UsedFds < MaxFds
    /\ backlog # <<>>
    /\ accepted' = Head(backlog)
    /\ backlog' = Tail(backlog)
    /\ leaked' = leaked + IF UsedFds + 1 < MaxFds THEN 1 ELSE 0
    /\ acceptor' = "push"
    /\ UNCHANGED <<clientVars, unread, active, receiverVars, appVars, crashed>>

(* Without a descriptor to give, accept fails at once, and the connection  *)
(* has no client.  Bound: one such connection in the vector of a server    *)
(* that is started, since the walk never gets past the first.              *)
AcceptFails ==
    /\ acceptor = "accept"
    /\ UsedFds = MaxFds
    /\ isStarted => \A i \in 1 .. Len(active) : active[i] # NoClient
    /\ accepted' = NoClient
    /\ acceptor' = "push"
    /\ UNCHANGED <<clientVars, unread, backlog, leaked, active, receiverVars,
                   appVars, crashed>>

(* Mutant: the receiver sleeps with the mutex held.                        *)
PushAfterReceiver ==
    /\ acceptor = "push"
    /\ receiver = "ended"
    /\ active' = Append(active, accepted)
    /\ accepted' = NoClient
    /\ acceptor' = "loop"
    /\ UNCHANGED <<clientVars, unread, backlog, leaked, receiverVars, appVars,
                   crashed>>

(* push_back, under the mutex.                                             *)
PushConnection ==
    /\ acceptor = "push"
    /\ receiver # "walk"
    /\ active' = Append(active, accepted)
    /\ accepted' = NoClient
    /\ acceptor' = "loop"
    /\ UNCHANGED <<clientVars, unread, backlog, leaked, receiverVars, appVars,
                   crashed>>

-----------------------------------------------------------------------------
(* Mutant: the walk goes on to the slot past the last.                     *)
BeginWalkPastEnd ==
    /\ receiver = "loop"
    /\ receiver' = IF isStarted THEN "walk" ELSE "ended"
    /\ cursor' = 1
    /\ walkEnd' = Len(active) + 1
    /\ UNCHANGED <<clientVars, unread, acceptorVars, active, appVars, crashed>>

(* Mutant: the receiver does not look at m_isStarted.                      *)
BeginWalkAlways ==
    /\ receiver = "loop"
    /\ receiver' = "walk"
    /\ cursor' = 1
    /\ walkEnd' = Len(active)
    /\ UNCHANGED <<clientVars, unread, acceptorVars, active, appVars, crashed>>

(* handleConnections: the walk holds the mutex from begin to end.          *)
BeginWalk ==
    /\ receiver = "loop"
    /\ receiver' = IF isStarted THEN "walk" ELSE "ended"
    /\ cursor' = 1
    /\ walkEnd' = Len(active)
    /\ UNCHANGED <<clientVars, unread, acceptorVars, active, appVars, crashed>>

EndWalk ==
    /\ receiver = "walk"
    /\ cursor > walkEnd
    /\ receiver' = "loop"
    /\ UNCHANGED <<clientVars, unread, acceptorVars, active, cursor, walkEnd,
                   appVars, crashed>>

(* Past the end of a vector that has shrunk lies what erase moved from.    *)
Slot == IF cursor \in 1 .. Len(active) THEN active[cursor] ELSE NoClient
AtSlot == receiver = "walk" /\ cursor \in 1 .. walkEnd

(* remove and erase: onRunning pushes every connection once, so that the   *)
(* one at the cursor is the only one that equals it.                       *)
WithoutSlot ==
    SubSeq(active, 1, cursor - 1) \o SubSeq(active, cursor + 1, Len(active))

(* readFromSocket, for a positive getRecvBytes ...                         *)
ReadEvent ==
    /\ AtSlot
    /\ Slot \in unread
    /\ unread' = unread \ {Slot}
    /\ dataQueue' = Append(dataQueue, Slot)
    /\ cursor' = cursor + 1
    /\ UNCHANGED <<clientVars, acceptorVars, active, receiver, walkEnd,
                   handled, owner, crashed>>

(* Mutant: what was read is queued although nothing was.                   *)
QueueAtEof ==
    /\ AtSlot
    /\ Slot \in 1 .. closed \ unread
    /\ active' = WithoutSlot
    /\ dataQueue' = Append(dataQueue, Slot)
    /\ cursor' = cursor + 1
    /\ UNCHANGED <<clientVars, unread, acceptorVars, receiver, walkEnd,
                   handled, owner, crashed>>

(* ... for zero: the connection is erased from the vector the loop walks,  *)
(* which goes on to the next slot ...                                      *)
EraseAtEof ==
    /\ AtSlot
    /\ Slot \in 1 .. closed \ unread
    /\ active' = WithoutSlot
    /\ cursor' = cursor + 1
    /\ UNCHANGED <<clientVars, unread, acceptorVars, receiver, walkEnd,
                   appVars, crashed>>

(* ... and without a connection or without its client.                     *)
ReadNull ==
    /\ AtSlot
    /\ Slot = NoClient
    /\ crashed' = TRUE
    /\ UNCHANGED <<clientVars, unread, acceptorVars, active, receiverVars,
                   appVars>>

-----------------------------------------------------------------------------
(* The application: performAction takes one element at a time, and the     *)
(* destructor of Server calls stop, which joins both threads.              *)
GetQueueElement ==
    /\ owner = "up"
    /\ dataQueue # <<>>
    /\ handled' = Append(handled, Head(dataQueue))
    /\ dataQueue' = Tail(dataQueue)
    /\ UNCHANGED <<clientVars, unread, acceptorVars, active, receiverVars,
                   owner, crashed>>

Stop ==
    /\ owner = "up"
    /\ owner' = "joinAcceptor"
    /\ UNCHANGED <<clientVars, unread, acceptorVars, active, receiverVars,
                   dataQueue, handled, crashed>>

JoinAcceptor ==
    /\ owner = "joinAcceptor"
    /\ acceptor = "ended"
    /\ owner' = "joinReceiver"
    /\ UNCHANGED <<clientVars, unread, acceptorVars, active, receiverVars,
                   dataQueue, handled, crashed>>

JoinReceiver ==
    /\ owner = "joinReceiver"
    /\ receiver = "ended"
    /\ owner' = "closed"
    /\ UNCHANGED <<clientVars, unread, acceptorVars, active, receiverVars,
                   dataQueue, handled, crashed>>

-----------------------------------------------------------------------------
OnRunning == AcceptorLoop \/ AcceptConnection \/ AcceptFails \/ PushConnection
HandleConnections == BeginWalk \/ EndWalk \/ ReadEvent \/ EraseAtEof \/ ReadNull
Client == SendMessage \/ CloseClient
Owner == GetQueueElement \/ JoinAcceptor \/ JoinReceiver

Next == /\ ~crashed
        /\ \/ OnRunning
           \/ HandleConnections
           \/ Client
           \/ Owner
           \/ Connect
           \/ Stop

Spec == Init /\ [][Next]_vars

(* The threads are scheduled, a connected client goes on to send and close *)
(* and the main loop goes round.  The mutex is free while the receiver     *)
(* sleeps between two walks, so the acceptor gets it in the end: strong    *)
(* fairness.  Nothing need be sent, and nobody need stop.                  *)
FairSpec ==
    /\ Spec
    /\ SF_vars(~crashed /\ OnRunning)
    /\ WF_vars(~crashed /\ HandleConnections)
    /\ WF_vars(~crashed /\ Client)
    /\ WF_vars(~crashed /\ Owner)

-----------------------------------------------------------------------------
Events == 1 .. MaxEvents

(* The vector holds connections and no event twice; the server's           *)
(* descriptors stay within the limit of the process.                       *)
ServerTypeOK ==
    /\ connected \in 0 .. MaxEvents
    /\ closed \in 0 .. sent /\ sent \in 0 .. connected
    /\ connected \in {closed, closed + 1}
    /\ unread \in SUBSET Events
    /\ backlog \in Seq(Events) /\ Len(backlog) <= Backlog
    /\ acceptor \in {"loop", "accept", "push", "ended"}
    /\ accepted \in Events \cup {NoClient}
    /\ active \in Seq(Events \cup {NoClient})
    /\ receiver \in {"loop", "walk", "ended"}
    /\ cursor \in Nat /\ walkEnd \in Nat
    /\ dataQueue \in Seq(Events) /\ handled \in Seq(Events)
    /\ leaked \in Nat
    /\ UsedFds <= MaxFds
    /\ owner \in {"up", "joinAcceptor", "joinReceiver", "closed"}
    /\ crashed \in BOOLEAN /\ overlapped \in BOOLEAN

(* The walk has erased a connection that was not the last one, and is      *)
(* bound to read past the end of the vector.                               *)
Doomed == receiver = "walk" /\ walkEnd > Len(active) /\ cursor <= walkEnd

(* Every event the Execution Manager has sent is in a socket, in the queue *)
(* or with the application, once, and the application gets them in the     *)
(* order they were sent, although every event comes over a connection of   *)
(* its own: until the server walks into a slot it has erased.              *)
EventsInOrder ==
    ~Doomed /\ ~crashed =>
        LET received == handled \o dataQueue
        IN  /\ \A i \in 1 .. Len(received) : received[i] = i
            /\ unread = (Len(received) + 1) .. sent

(* A server whose events come one at a time, each after the connection of  *)
(* the one before has been dropped, survives them until its leaked sockets *)
(* have used up the descriptors of the process.                            *)
SurvivesOneAtATime ==
    crashed => overlapped \/ leaked + 2 >= MaxFds

(* Under fair scheduling an event that was sent is handled in the end,     *)
(* unless the server crashes or is told to stop: the blocking recv under   *)
(* the mutex does not keep the acceptor out for ever.                      *)
EventsArrive ==
    \A k \in Events :
        sent >= k ~> (\E i \in 1 .. Len(handled) : handled[i] = k)
                     \/ crashed \/ ~isStarted

(* Under fair scheduling a server that is told to stop joins its threads   *)
(* and closes its socket, whatever connections are open and wherever the   *)
(* threads are, with one exception: the acceptor waits in accept for a     *)
(* connection that nobody makes.                                           *)
StopWaitsOnlyForAccept ==
    ~isStarted ~> \/ owner = "closed" \/ crashed
                  \/ acceptor = "accept" /\ backlog = <<>>

(* The server does not crash while it has descriptors left.                *)
SurvivesTraffic == crashed => leaked + 2 >= MaxFds

(* A server that is told to stop joins its threads and closes its socket.  *)
StopEnds == ~isStarted ~> owner = "closed" \/ crashed

=============================================================================
