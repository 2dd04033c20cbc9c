----------------------- MODULE ComponentServerProofs -----------------------
(***************************************************************************)
(* Proofs about ComponentServer, for any number of events, any listen      *)
(* queue and any number of descriptors: its types and descriptors, the     *)
(* order in which events reach the application, and what a server needs to *)
(* survive its connections.                                                *)
(***************************************************************************)
EXTENDS ComponentServer, SequenceTheorems, FiniteSetTheorems, TLAPS

(* Connections 1 to Taken have left the listen queue.                      *)
Taken == connected - Len(backlog)
Received == Len(handled) + Len(dataQueue)

(* Connections pass from the client through the listen queue and the       *)
(* acceptor into the vector without overtaking each other; those without   *)
(* a client may lie between them.                                          *)
ConnectionsInOrder ==
    /\ Len(backlog) <= connected
    /\ \A i \in 1 .. Len(backlog) : backlog[i] = Taken + i
    /\ accepted <= Taken
    /\ acceptor # "push" => accepted = NoClient
    /\ \A i \in 1 .. Len(active) :
          active[i] <= Taken /\ (accepted # NoClient => active[i] < accepted)
    /\ \A i, j \in 1 .. Len(active) :
          i < j /\ active[j] # NoClient => active[i] < active[j]

(* A connection that has left the listen queue is dropped only after its   *)
(* client has closed it and its event was read.                            *)
NoneLost ==
    \A k \in 1 .. Taken : k \notin Live => k <= closed /\ k \notin unread

(* The vector does not grow under a walk.                                  *)
WalkInBounds ==
    receiver = "walk" =>
        cursor >= 1 /\ cursor <= walkEnd + 1 /\ Len(active) <= walkEnd

(* The events received are the first ones, the others are in the sockets,  *)
(* and a walk has passed only connections whose event is received.         *)
ReadSoFar ==
    /\ \A i \in 1 .. Len(handled) : handled[i] = i
    /\ \A i \in 1 .. Len(dataQueue) : dataQueue[i] = Len(handled) + i
    /\ Received <= sent
    /\ unread = (Received + 1) .. sent
    /\ receiver = "walk" =>
          \A i \in 1 .. Len(active) : i < cursor => active[i] <= Received

(* That is so as long as the walk skips nothing.                           *)
ReadInOrder == ~Doomed /\ ~crashed => ReadSoFar

ServerInv ==
    ServerTypeOK /\ ConnectionsInOrder /\ NoneLost /\ WalkInBounds /\ ReadInOrder

(* While no two connections have overlapped there is at most the latest.   *)
OnlyTheLatest ==
    ~overlapped =>
        /\ Live \subseteq {connected}
        /\ Len(backlog) <= 1
        /\ backlog # <<>> => Live = {}

Excused == overlapped \/ leaked + 2 >= MaxFds

(* A connection without client needs a lack of descriptors, and a walk     *)
(* that erases one connection before another needs two of them.            *)
NullIsExcused ==
    /\ \A i \in 1 .. Len(active) : active[i] = NoClient => Excused
    /\ acceptor = "push" /\ accepted = NoClient => Excused
    /\ Doomed => Excused

-----------------------------------------------------------------------------
Slots == Events \cup {NoClient}

(* Erasing shifts what lies behind the cursor by one slot.                 *)
LEMMA ErasedVector ==
    ASSUME ServerTypeOK, EraseAtEof
    PROVE  /\ active' \in Seq(Slots)
           /\ cursor \in 1 .. Len(active) /\ active[cursor] = Slot
           /\ Len(active') = Len(active) - 1
           /\ \A i \in 1 .. Len(active') :
                 active'[i] = IF i < cursor THEN active[i] ELSE active[i + 1]
<1>1. active \in Seq(Slots) /\ cursor \in Nat /\ Len(active) \in Nat
  BY LenProperties DEF ServerTypeOK, Slots
<1>2. \A i \in 1 .. Len(active) : active[i] \in Slots
  BY <1>1, ElementOfSeq
<1>3. cursor \in 1 .. Len(active) /\ active[cursor] = Slot
  BY <1>1 DEF EraseAtEof, Slot, NoClient
<1> DEFINE front == SubSeq(active, 1, cursor - 1)
           back == SubSeq(active, cursor + 1, Len(active))
<1>4. /\ front \in Seq(Slots) /\ Len(front) = cursor - 1
      /\ \A i \in 1 .. cursor - 1 : front[i] = active[i]
  <2>1. cursor - 1 \in Int /\ \A i \in 1 .. cursor - 1 : active[i] \in Slots
    BY <1>1, <1>2, <1>3
  <2> HIDE DEF Slots
  <2>2. /\ front \in Seq(Slots)
        /\ Len(front) = IF 1 <= cursor - 1 THEN cursor - 1 - 1 + 1 ELSE 0
        /\ \A i \in 1 .. cursor - 1 - 1 + 1 : front[i] = active[1 + i - 1]
    BY <2>1, SubSeqProperties
  <2> QED  BY <1>1, <1>3, <2>2
<1>5. /\ back \in Seq(Slots) /\ Len(back) = Len(active) - cursor
      /\ \A i \in 1 .. Len(active) - cursor : back[i] = active[cursor + i]
  <2>1. /\ cursor + 1 \in Int /\ Len(active) \in Int
        /\ \A i \in cursor + 1 .. Len(active) : active[i] \in Slots
    BY <1>1, <1>2, <1>3
  <2> HIDE DEF Slots
  <2>2. /\ back \in Seq(Slots)
        /\ Len(back) = IF cursor + 1 <= Len(active)
                       THEN Len(active) - (cursor + 1) + 1 ELSE 0
        /\ \A i \in 1 .. Len(active) - (cursor + 1) + 1 :
              back[i] = active[(cursor + 1) + i - 1]
    BY <2>1, SubSeqProperties
  <2> QED  BY <1>1, <1>3, <2>2
<1>6. active' = front \o back
  BY DEF EraseAtEof, WithoutSlot
<1> HIDE DEF front, back
<1>7. /\ front \o back \in Seq(Slots)
      /\ Len(front \o back) = Len(front) + Len(back)
      /\ \A i \in 1 .. Len(front) + Len(back) :
            (front \o back)[i] = IF i <= Len(front) THEN front[i]
                                 ELSE back[i - Len(front)]
  BY <1>4, <1>5, ConcatProperties
<1>8. Len(active') = Len(active) - 1
  BY <1>1, <1>3, <1>4, <1>5, <1>6, <1>7
<1>9. ASSUME NEW i \in 1 .. Len(active')
      PROVE  active'[i] = IF i < cursor THEN active[i] ELSE active[i + 1]
  <2>1. i \in Nat /\ 1 <= i /\ i <= Len(front) + Len(back)
    BY <1>1, <1>3, <1>4, <1>5, <1>8
  <2>2. CASE i < cursor
    BY <1>1, <1>3, <1>4, <1>6, <1>7, <2>1, <2>2
  <2>3. CASE ~(i < cursor)
    <3>1. active'[i] = back[i - (cursor - 1)]
      BY <1>1, <1>3, <1>4, <1>6, <1>7, <2>1, <2>3
    <3>2. i - (cursor - 1) \in 1 .. Len(active) - cursor
      BY <1>1, <1>3, <1>4, <1>5, <2>1, <2>3
    <3>3. cursor + (i - (cursor - 1)) = i + 1
      BY <1>1, <2>1
    <3> QED  BY <1>5, <2>3, <3>1, <3>2, <3>3
  <2> QED  BY <2>2, <2>3
<1> QED
  BY <1>3, <1>6, <1>7, <1>8, <1>9

(* The descriptors of the accepted clients can be counted.                 *)
LEMMA LiveIsFinite ==
    ASSUME ServerTypeOK
    PROVE  /\ Live \subseteq Events
           /\ IsFiniteSet(Live) /\ Cardinality(Live) \in Nat
<1>1. Live \subseteq Events
  <2>1. \A i \in 1 .. Len(active) : active[i] \in Events \cup {NoClient}
    BY ElementOfSeq DEF ServerTypeOK
  <2> QED  BY <2>1 DEF Live, ServerTypeOK
<1>2. IsFiniteSet(Events)
  BY FS_Interval, ServerAssumption DEF Events
<1> QED
  BY <1>1, <1>2, FS_Subset, FS_CardinalityType

(* No step but accept can bring a descriptor.                              *)
LEMMA LiveShrinks ==
    ASSUME ServerTypeOK, Live' \subseteq Live, leaked' = leaked
    PROVE  UsedFds' <= MaxFds
<1>1. Cardinality(Live') <= Cardinality(Live) /\ Cardinality(Live') \in Nat
  BY LiveIsFinite, FS_Subset, FS_CardinalityType
<1> QED
  BY <1>1, LiveIsFinite, ServerAssumption DEF UsedFds, ServerTypeOK

(* Erasing takes exactly the erased connection out of what is live.        *)
LEMMA LiveAfterErase ==
    ASSUME ServerTypeOK, EraseAtEof
    PROVE  /\ Live' \subseteq Live
           /\ \A k \in Live : k \in Live' \/ k = Slot
<1>1. /\ cursor \in 1 .. Len(active) /\ active[cursor] = Slot
      /\ Len(active') = Len(active) - 1
      /\ \A i \in 1 .. Len(active') :
            active'[i] = IF i < cursor THEN active[i] ELSE active[i + 1]
  BY ErasedVector
<1>2. Len(active) \in Nat /\ cursor \in Nat /\ accepted' = accepted
  BY LenProperties DEF ServerTypeOK, EraseAtEof, acceptorVars
<1>3. \A i \in 1 .. Len(active') : \E j \in 1 .. Len(active) : active'[i] = active[j]
  BY <1>1, <1>2
<1>4. ASSUME NEW j \in 1 .. Len(active), active[j] # Slot
      PROVE  \E i \in 1 .. Len(active') : active'[i] = active[j]
  <2>1. CASE j < cursor
    BY <1>1, <1>2, <2>1
  <2>2. CASE j > cursor
    <3>1. j - 1 \in 1 .. Len(active') /\ ~(j - 1 < cursor) /\ (j - 1) + 1 = j
      BY <1>1, <1>2, <2>2
    <3> QED  BY <1>1, <3>1
  <2> QED  BY <1>1, <1>2, <1>4, <2>1, <2>2
<1> QED
  BY <1>2, <1>3, <1>4 DEF Live

-----------------------------------------------------------------------------
(* The server's sequences hold connections and events, and its accepted    *)
(* and leaked sockets stay within the descriptors of the process: a failed *)
(* accept brings none, and the constructor leaks one only if there is one. *)
LEMMA TypeStep == ServerTypeOK /\ [Next]_vars => ServerTypeOK'
<1> SUFFICES ASSUME ServerTypeOK, [Next]_vars PROVE ServerTypeOK'
  OBVIOUS
<1> USE ServerAssumption
<1>0. /\ connected \in Nat /\ sent \in Nat /\ closed \in Nat
      /\ Len(backlog) \in Nat /\ Len(active) \in Nat
  BY LenProperties DEF ServerTypeOK
<1>1. CASE UNCHANGED vars
  <2>1. Live' = Live /\ leaked' = leaked
    BY <1>1 DEF Live, vars, acceptorVars
  <2> QED
    BY <1>1, <2>1, LiveShrinks
    DEF ServerTypeOK, vars, clientVars, acceptorVars, receiverVars, appVars
<1>2. CASE Connect
  <2>1. connected' \in Events
    BY <1>0, <1>2 DEF Connect, Events
  <2>2. backlog' \in Seq(Events) /\ Len(backlog') <= Backlog
    BY <1>0, <1>2, <2>1, AppendProperties DEF Connect, ServerTypeOK
  <2>3. Live' = Live /\ leaked' = leaked
    BY <1>2 DEF Connect, Live
  <2>4. UsedFds' <= MaxFds
    BY <2>3, LiveShrinks
  <2> QED
    BY <1>0, <1>2, <2>1, <2>2, <2>4
    DEF Connect, ServerTypeOK, receiverVars, appVars, Events
<1>3. CASE SendMessage \/ CloseClient
  <2>1. Live' = Live /\ leaked' = leaked
    BY <1>3 DEF SendMessage, CloseClient, Live, acceptorVars
  <2>2. UsedFds' <= MaxFds
    BY <2>1, LiveShrinks
  <2>3. CASE SendMessage
    <3>1. sent' \in Events /\ sent' \in 0 .. connected /\ closed \in 0 .. sent'
      BY <1>0, <2>3 DEF SendMessage, ServerTypeOK, Events
    <3>2. unread' \in SUBSET Events
      BY <2>3, <3>1 DEF SendMessage, ServerTypeOK
    <3> QED
      BY <2>2, <2>3, <3>1, <3>2
      DEF SendMessage, ServerTypeOK, acceptorVars, receiverVars, appVars
  <2>4. CASE CloseClient
    <3>1. closed' \in 0 .. sent /\ connected \in {closed', closed' + 1}
      BY <1>0, <2>4 DEF CloseClient, ServerTypeOK
    <3> QED
      BY <2>2, <2>4, <3>1
      DEF CloseClient, ServerTypeOK, acceptorVars, receiverVars, appVars
  <2> QED
    BY <1>3, <2>3, <2>4
<1>4. CASE AcceptorLoop
  <2>1. Live' = Live /\ leaked' = leaked
    BY <1>4 DEF AcceptorLoop, Live
  <2>2. UsedFds' <= MaxFds
    BY <2>1, LiveShrinks
  <2> QED
    BY <1>4, <2>2
    DEF AcceptorLoop, ServerTypeOK, clientVars, receiverVars, appVars
<1>5. CASE AcceptConnection
  <2>1. /\ Head(backlog) \in Events /\ Tail(backlog) \in Seq(Events)
        /\ Len(Tail(backlog)) = Len(backlog) - 1
    BY <1>5, HeadTailProperties DEF AcceptConnection, ServerTypeOK
  <2>2. Live' \subseteq Live \cup {Head(backlog)}
    BY <1>5 DEF AcceptConnection, Live
  <2>3. Cardinality(Live') <= Cardinality(Live) + 1 /\ Cardinality(Live') \in Nat
    <3>1. /\ IsFiniteSet(Live \cup {Head(backlog)})
          /\ Cardinality(Live \cup {Head(backlog)}) <= Cardinality(Live) + 1
          /\ Cardinality(Live \cup {Head(backlog)}) \in Nat
      <4>1. /\ IsFiniteSet(Live \cup {Head(backlog)})
            /\ Cardinality(Live \cup {Head(backlog)}) =
                  IF Head(backlog) \in Live THEN Cardinality(Live)
                  ELSE Cardinality(Live) + 1
        BY LiveIsFinite, FS_AddElement
      <4> QED  BY <4>1, LiveIsFinite
    <3>2. /\ IsFiniteSet(Live')
          /\ Cardinality(Live') <= Cardinality(Live \cup {Head(backlog)})
      BY <2>2, <3>1, FS_Subset
    <3> QED
      BY <3>1, <3>2, LiveIsFinite, FS_CardinalityType
  <2>4. leaked \in Nat /\ leaked' \in Nat /\ UsedFds' <= MaxFds
    <3>1. leaked \in Nat /\ MaxFds \in Nat /\ Cardinality(Live) \in Nat
      BY LiveIsFinite DEF ServerTypeOK
    <3>2. CASE UsedFds + 1 < MaxFds
      <4>1. leaked' = leaked + 1
        BY <1>5, <3>2 DEF AcceptConnection
      <4> QED  BY <2>3, <3>1, <3>2, <4>1 DEF UsedFds
    <3>3. CASE ~(UsedFds + 1 < MaxFds)
      <4>1. leaked' = leaked + 0 /\ UsedFds < MaxFds
        BY <1>5, <3>3 DEF AcceptConnection
      <4> QED  BY <2>3, <3>1, <3>3, <4>1 DEF UsedFds
    <3> QED  BY <3>2, <3>3
  <2> QED
    BY <1>0, <1>5, <2>1, <2>4
    DEF AcceptConnection, ServerTypeOK, clientVars, receiverVars, appVars
<1>6. CASE AcceptFails
  <2>1. Live' \subseteq Live /\ leaked' = leaked
    BY <1>6 DEF AcceptFails, Live
  <2>2. UsedFds' <= MaxFds
    BY <2>1, LiveShrinks
  <2> QED
    BY <1>6, <2>2
    DEF AcceptFails, ServerTypeOK, clientVars, receiverVars, appVars
<1>7. CASE PushConnection
  <2>1. /\ active' \in Seq(Events \cup {NoClient})
        /\ Len(active') = Len(active) + 1
        /\ \A i \in 1 .. Len(active) : active'[i] = active[i]
        /\ active'[Len(active) + 1] = accepted
    BY <1>7, AppendProperties DEF PushConnection, ServerTypeOK
  <2>2. \A i \in 1 .. Len(active') : i \in 1 .. Len(active) \/ i = Len(active) + 1
    BY <1>0, <2>1
  <2>3. Live' \subseteq Live /\ leaked' = leaked
    BY <1>7, <2>1, <2>2 DEF PushConnection, Live
  <2>4. UsedFds' <= MaxFds
    BY <2>3, LiveShrinks
  <2> QED
    BY <1>7, <2>1, <2>4
    DEF PushConnection, ServerTypeOK, clientVars, receiverVars, appVars
<1>8. CASE BeginWalk \/ EndWalk
  <2>1. Live' = Live /\ leaked' = leaked
    BY <1>8 DEF BeginWalk, EndWalk, Live, acceptorVars
  <2>2. UsedFds' <= MaxFds
    BY <2>1, LiveShrinks
  <2>3. /\ receiver' \in {"loop", "walk", "ended"}
        /\ cursor' \in Nat /\ walkEnd' \in Nat
    BY <1>0, <1>8 DEF BeginWalk, EndWalk, ServerTypeOK
  <2> QED
    BY <1>8, <2>2, <2>3
    DEF BeginWalk, EndWalk, ServerTypeOK, clientVars, acceptorVars, appVars
<1>9. CASE ReadEvent
  <2>1. Live' = Live /\ leaked' = leaked
    BY <1>9 DEF ReadEvent, Live, acceptorVars
  <2>2. UsedFds' <= MaxFds
    BY <2>1, LiveShrinks
  <2>3. dataQueue' \in Seq(Events)
    BY <1>9, AppendProperties DEF ReadEvent, ServerTypeOK
  <2> QED
    BY <1>9, <2>2, <2>3
    DEF ReadEvent, ServerTypeOK, clientVars, acceptorVars
<1>10. CASE EraseAtEof
  <2>1. Live' \subseteq Live /\ leaked' = leaked
    BY <1>10, LiveAfterErase DEF EraseAtEof, acceptorVars
  <2>2. UsedFds' <= MaxFds
    BY <2>1, LiveShrinks
  <2>3. active' \in Seq(Events \cup {NoClient})
    BY <1>10, ErasedVector DEF Slots
  <2> QED
    BY <1>10, <2>2, <2>3
    DEF EraseAtEof, ServerTypeOK, clientVars, acceptorVars, appVars
<1>11. CASE ReadNull
  <2>1. Live' = Live /\ leaked' = leaked
    BY <1>11 DEF ReadNull, Live, acceptorVars
  <2>2. UsedFds' <= MaxFds
    BY <2>1, LiveShrinks
  <2> QED
    BY <1>11, <2>2
    DEF ReadNull, ServerTypeOK, clientVars, acceptorVars, receiverVars, appVars
<1>12. CASE GetQueueElement
  <2>1. Live' = Live /\ leaked' = leaked
    BY <1>12 DEF GetQueueElement, Live, acceptorVars
  <2>2. UsedFds' <= MaxFds
    BY <2>1, LiveShrinks
  <2>3. Head(dataQueue) \in Events /\ dataQueue' \in Seq(Events)
    BY <1>12, HeadTailProperties DEF GetQueueElement, ServerTypeOK
  <2>4. handled' \in Seq(Events)
    BY <1>12, <2>3, AppendProperties DEF GetQueueElement, ServerTypeOK
  <2> QED
    BY <1>12, <2>2, <2>3, <2>4
    DEF GetQueueElement, ServerTypeOK, clientVars, acceptorVars, receiverVars
<1>13. CASE Stop \/ JoinAcceptor \/ JoinReceiver
  <2>1. Live' = Live /\ leaked' = leaked
    BY <1>13 DEF Stop, JoinAcceptor, JoinReceiver, Live, acceptorVars
  <2>2. UsedFds' <= MaxFds
    BY <2>1, LiveShrinks
  <2> QED
    BY <1>13, <2>2
    DEF Stop, JoinAcceptor, JoinReceiver, ServerTypeOK, clientVars,
        acceptorVars, receiverVars
<1> QED
  BY <1>1, <1>2, <1>3, <1>4, <1>5, <1>6, <1>7, <1>8, <1>9, <1>10, <1>11,
     <1>12, <1>13
  DEF Next, OnRunning, HandleConnections, Client, Owner

(* For any limits, the vectors, queues and descriptors of the server stay  *)
(* within their bounds.                                                    *)
THEOREM ServerTypeCorrect == Spec => []ServerTypeOK
<1>1. Init => ServerTypeOK
  <2> SUFFICES ASSUME Init PROVE ServerTypeOK
    OBVIOUS
  <2>1. Live = {} /\ Cardinality(Live) = 0
    BY FS_EmptySet DEF Init, Live
  <2>2. UsedFds <= MaxFds
    BY <2>1, ServerAssumption DEF Init, UsedFds
  <2>3. /\ <<>> \in Seq(Events) /\ <<>> \in Seq(Events \cup {NoClient})
        /\ Len(<<>>) = 0
    BY EmptySeq
  <2>4. /\ connected \in 0 .. MaxEvents
        /\ closed \in 0 .. sent /\ sent \in 0 .. connected
        /\ connected \in {closed, closed + 1}
        /\ cursor \in Nat /\ walkEnd \in Nat /\ leaked \in Nat
    BY ServerAssumption DEF Init
  <2>5. /\ backlog \in Seq(Events) /\ Len(backlog) <= Backlog
        /\ active \in Seq(Events \cup {NoClient})
        /\ dataQueue \in Seq(Events) /\ handled \in Seq(Events)
    BY <2>3, ServerAssumption DEF Init
  <2> QED
    BY <2>2, <2>4, <2>5 DEF Init, ServerTypeOK
<1> QED
  BY <1>1, TypeStep, PTL DEF Spec

-----------------------------------------------------------------------------
(* What the types say of numbers.                                          *)
LEMMA Numbers ==
    ASSUME ServerTypeOK
    PROVE  /\ connected \in Nat /\ sent \in Nat /\ closed \in Nat
           /\ closed <= sent /\ sent <= connected /\ connected <= closed + 1
           /\ accepted \in Nat /\ cursor \in Nat /\ walkEnd \in Nat
           /\ Len(backlog) \in Nat /\ Len(active) \in Nat
           /\ Len(handled) \in Nat /\ Len(dataQueue) \in Nat
           /\ \A i \in 1 .. Len(active) : active[i] \in Nat
           /\ \A i \in 1 .. Len(backlog) : backlog[i] \in Nat /\ backlog[i] # 0
<1>1. /\ connected \in Nat /\ sent \in Nat /\ closed \in Nat
      /\ closed <= sent /\ sent <= connected /\ connected <= closed + 1
      /\ accepted \in Nat /\ cursor \in Nat /\ walkEnd \in Nat
  BY ServerAssumption DEF ServerTypeOK, Events, NoClient
<1>2. /\ Len(backlog) \in Nat /\ Len(active) \in Nat
      /\ Len(handled) \in Nat /\ Len(dataQueue) \in Nat
  BY LenProperties DEF ServerTypeOK
<1>3. \A i \in 1 .. Len(active) : active[i] \in Events \cup {NoClient}
  BY ElementOfSeq DEF ServerTypeOK
<1>4. \A i \in 1 .. Len(backlog) : backlog[i] \in Events
  BY ElementOfSeq DEF ServerTypeOK
<1> QED
  BY <1>1, <1>2, <1>3, <1>4, ServerAssumption DEF Events, NoClient

(* A new connection goes to the end of the listen queue.                   *)
LEMMA Connected ==
    ASSUME ServerTypeOK, Connect
    PROVE  /\ connected' = connected + 1 /\ Len(backlog') = Len(backlog) + 1
           /\ \A i \in 1 .. Len(backlog) : backlog'[i] = backlog[i]
           /\ backlog'[Len(backlog) + 1] = connected + 1
           /\ Taken' = Taken
<1>1. connected' = connected + 1 /\ connected' \in Events
  BY Numbers, ServerAssumption DEF Connect, Events
<1>2. /\ Len(backlog') = Len(backlog) + 1
      /\ \A i \in 1 .. Len(backlog) : backlog'[i] = backlog[i]
      /\ backlog'[Len(backlog) + 1] = connected + 1
  BY <1>1, AppendProperties DEF Connect, ServerTypeOK
<1>3. Taken' = Taken
  BY <1>1, <1>2, Numbers DEF Taken
<1> QED
  BY <1>1, <1>2, <1>3

(* accept takes the first connection out of the listen queue.              *)
LEMMA AcceptedOne ==
    ASSUME ServerTypeOK, AcceptConnection
    PROVE  /\ Len(backlog) >= 1 /\ Len(backlog') = Len(backlog) - 1
           /\ accepted' = backlog[1]
           /\ \A i \in 1 .. Len(backlog') : backlog'[i] = backlog[i + 1]
<1>1. backlog \in Seq(Events) /\ backlog # <<>>
  BY DEF ServerTypeOK, AcceptConnection
<1>2. Len(backlog) \in Nat \ {0}
  BY <1>1, EmptySeq
<1>3. Head(backlog) = backlog[1]
  BY <1>1
<1> QED
  BY <1>1, <1>2, <1>3, HeadTailProperties DEF AcceptConnection

(* push_back hands the accepted connection over to the vector.             *)
LEMMA Pushed ==
    ASSUME ServerTypeOK, PushConnection
    PROVE  /\ Len(active') = Len(active) + 1
           /\ \A i \in 1 .. Len(active) : active'[i] = active[i]
           /\ active'[Len(active) + 1] = accepted
           /\ \A i \in 1 .. Len(active') :
                 i \in 1 .. Len(active) \/ i = Len(active) + 1
           /\ Live' = Live
<1>1. /\ Len(active') = Len(active) + 1
      /\ \A i \in 1 .. Len(active) : active'[i] = active[i]
      /\ active'[Len(active) + 1] = accepted
  BY AppendProperties DEF PushConnection, ServerTypeOK
<1>2. \A i \in 1 .. Len(active') : i \in 1 .. Len(active) \/ i = Len(active) + 1
  BY <1>1, Numbers
<1>3. 1 .. Len(active) \subseteq 1 .. Len(active') /\ Len(active) + 1 \in 1 .. Len(active')
  BY <1>1, Numbers
<1>4. accepted' = NoClient
  BY DEF PushConnection
<1> QED
  BY <1>1, <1>2, <1>3, <1>4 DEF Live

Moves == Connect \/ AcceptConnection \/ AcceptFails \/ PushConnection
         \/ EraseAtEof

(* The other steps of both threads, of the client and of the application   *)
(* move no connection.                                                     *)
LEMMA StillSteps ==
    ASSUME [Next]_vars, ~Moves
    PROVE  /\ connected' = connected /\ backlog' = backlog
           /\ accepted' = accepted /\ active' = active
           /\ overlapped' = overlapped /\ leaked' = leaked
           /\ acceptor' = "push" <=> acceptor = "push"
           /\ Live' = Live
<1> SUFFICES /\ connected' = connected /\ backlog' = backlog
             /\ accepted' = accepted /\ active' = active
             /\ overlapped' = overlapped /\ leaked' = leaked
             /\ acceptor' = "push" <=> acceptor = "push"
  BY DEF Live
<1>1. CASE UNCHANGED vars
  BY <1>1 DEF vars, clientVars, acceptorVars
<1>2. CASE AcceptorLoop
  BY <1>2 DEF AcceptorLoop, clientVars
<1>3. CASE Client
  BY <1>3 DEF Client, SendMessage, CloseClient, acceptorVars
<1>4. CASE HandleConnections
  BY <1>4 DEF HandleConnections, BeginWalk, EndWalk, ReadEvent, ReadNull,
              Moves, clientVars, acceptorVars
<1>5. CASE Owner \/ Stop
  BY <1>5 DEF Owner, GetQueueElement, JoinAcceptor, JoinReceiver, Stop,
              clientVars, acceptorVars
<1> QED
  BY <1>1, <1>2, <1>3, <1>4, <1>5 DEF Next, OnRunning, Moves

-----------------------------------------------------------------------------
(* No step lets a connection overtake another.                             *)
LEMMA OrderStep ==
    ServerTypeOK /\ ConnectionsInOrder /\ [Next]_vars => ConnectionsInOrder'
<1> SUFFICES ASSUME ServerTypeOK, ConnectionsInOrder, [Next]_vars
             PROVE  ConnectionsInOrder'
  OBVIOUS
<1> USE Numbers
<1>1. CASE Connect
  <2>1. Taken' = Taken
    BY <1>1, Connected
  <2>2. Len(backlog') <= connected' /\ accepted' = accepted /\ active' = active
        /\ acceptor' = acceptor
    BY <1>1, Connected DEF Connect, ConnectionsInOrder
  <2>3. ASSUME NEW i \in 1 .. Len(backlog') PROVE backlog'[i] = Taken + i
    <3>1. CASE i \in 1 .. Len(backlog)
      BY <1>1, <3>1, Connected DEF ConnectionsInOrder
    <3>2. CASE i = Len(backlog) + 1
      BY <1>1, <3>2, Connected DEF ConnectionsInOrder, Taken
    <3> QED  BY <1>1, <3>1, <3>2, Connected
  <2> QED
    BY <2>1, <2>2, <2>3 DEF ConnectionsInOrder
<1>2. CASE AcceptConnection
  <2>1. /\ Taken' = Taken + 1 /\ accepted' = Taken + 1
        /\ connected' = connected /\ active' = active /\ acceptor' = "push"
    BY <1>2, AcceptedOne
    DEF AcceptConnection, Taken, ConnectionsInOrder, clientVars
  <2>2. \A i \in 1 .. Len(backlog') : backlog'[i] = Taken' + i
    <3> TAKE i \in 1 .. Len(backlog')
    <3>1. i + 1 \in 1 .. Len(backlog) /\ backlog'[i] = backlog[i + 1] /\ i \in Nat
      BY <1>2, AcceptedOne
    <3>2. Taken \in Nat
      BY DEF Taken, ConnectionsInOrder
    <3>3. backlog[i + 1] = Taken + (i + 1)
      BY <3>1 DEF ConnectionsInOrder
    <3> QED  BY <2>1, <3>1, <3>2, <3>3
  <2>3. Len(backlog') <= connected'
    BY <1>2, <2>1, AcceptedOne DEF ConnectionsInOrder
  <2>4. Taken \in Nat
    BY DEF Taken, ConnectionsInOrder
  <2> QED
    BY <2>1, <2>2, <2>3, <2>4 DEF ConnectionsInOrder
<1>3. CASE AcceptFails
  <2>1. Taken \in Nat /\ Taken' = Taken
    BY <1>3 DEF AcceptFails, Taken, ConnectionsInOrder, clientVars
  <2> QED
    BY <1>3, <2>1 DEF AcceptFails, ConnectionsInOrder, NoClient, clientVars
<1>4. CASE PushConnection
  <2>1. /\ Taken \in Nat /\ Taken' = Taken /\ accepted' = NoClient
        /\ backlog' = backlog /\ connected' = connected /\ acceptor' # "push"
    BY <1>4 DEF PushConnection, Taken, ConnectionsInOrder, clientVars
  <2>2. \A i \in 1 .. Len(active') : active'[i] <= Taken
    BY <1>4, Pushed DEF ConnectionsInOrder
  <2>3. ASSUME NEW i \in 1 .. Len(active'), NEW j \in 1 .. Len(active'),
               i < j, active'[j] # NoClient
        PROVE  active'[i] < active'[j]
    <3>1. i \in 1 .. Len(active)
      BY <1>4, <2>3, Pushed
    <3>2. CASE j \in 1 .. Len(active)
      BY <1>4, <2>3, <3>1, <3>2, Pushed DEF ConnectionsInOrder
    <3>3. CASE j = Len(active) + 1
      BY <1>4, <2>3, <3>1, <3>3, Pushed DEF ConnectionsInOrder
    <3> QED  BY <1>4, <3>2, <3>3, Pushed
  <2> QED
    BY <2>1, <2>2, <2>3 DEF ConnectionsInOrder, NoClient
<1>5. CASE EraseAtEof
  <2>1. /\ Taken \in Nat /\ Taken' = Taken /\ accepted' = accepted
        /\ backlog' = backlog /\ connected' = connected /\ acceptor' = acceptor
    BY <1>5 DEF EraseAtEof, Taken, ConnectionsInOrder, clientVars, acceptorVars
  <2> DEFINE from(i) == IF i < cursor THEN i ELSE i + 1
  <2>2. \A i \in 1 .. Len(active') : /\ from(i) \in 1 .. Len(active)
                                     /\ active'[i] = active[from(i)]
    BY <1>5, ErasedVector
  <2>3. \A i, j \in 1 .. Len(active') : i < j => from(i) < from(j)
    OBVIOUS
  <2> HIDE DEF from
  <2> QED
    BY <2>1, <2>2, <2>3 DEF ConnectionsInOrder
<1>6. CASE ~Moves
  BY <1>6, StillSteps DEF ConnectionsInOrder, Taken
<1> QED
  BY <1>1, <1>2, <1>3, <1>4, <1>5, <1>6 DEF Moves

(* A connection leaves the vector only when nothing more can come from it. *)
LEMMA LostStep ==
    ServerTypeOK /\ ConnectionsInOrder /\ NoneLost /\ [Next]_vars => NoneLost'
<1> SUFFICES ASSUME ServerTypeOK, ConnectionsInOrder, NoneLost, [Next]_vars,
                    NEW k \in 1 .. Taken', k \notin Live'
             PROVE  k <= closed' /\ k \notin unread'
  BY DEF NoneLost
<1> USE Numbers
<1>0. Taken \in Nat
  BY DEF Taken, ConnectionsInOrder
<1>1. CASE Connect
  <2>1. Taken' = Taken
    BY <1>1, Connected
  <2>2. Live' = Live /\ closed' = closed /\ unread' = unread
    BY <1>1 DEF Connect, Live
  <2> QED  BY <2>1, <2>2 DEF NoneLost
<1>2. CASE AcceptConnection
  <2>1. Taken' = Taken + 1 /\ accepted' = Taken + 1
    BY <1>2, AcceptedOne
    DEF AcceptConnection, Taken, ConnectionsInOrder, clientVars
  <2>2. accepted = NoClient /\ active' = active
        /\ closed' = closed /\ unread' = unread
    BY <1>2 DEF AcceptConnection, ConnectionsInOrder, clientVars
  <2>3. Taken + 1 \in Live'
    BY <1>0, <2>1 DEF Live, NoClient
  <2>4. k \in 1 .. Taken /\ k \notin Live
    BY <1>0, <2>1, <2>2, <2>3 DEF Live
  <2> QED  BY <2>2, <2>4 DEF NoneLost
<1>3. CASE AcceptFails
  <2>1. accepted = NoClient /\ accepted' = NoClient /\ active' = active
        /\ closed' = closed /\ unread' = unread
        /\ connected' = connected /\ backlog' = backlog
    BY <1>3 DEF AcceptFails, ConnectionsInOrder, clientVars
  <2> QED  BY <2>1 DEF NoneLost, Live, Taken
<1>4. CASE PushConnection
  <2>1. closed' = closed /\ unread' = unread
        /\ connected' = connected /\ backlog' = backlog
    BY <1>4 DEF PushConnection, clientVars
  <2> QED  BY <1>4, <2>1, Pushed DEF NoneLost, Taken
<1>5. CASE EraseAtEof
  <2>1. closed' = closed /\ unread' = unread
        /\ connected' = connected /\ backlog' = backlog
    BY <1>5 DEF EraseAtEof, clientVars, acceptorVars
  <2>2. Slot \in 1 .. closed \ unread
    BY <1>5 DEF EraseAtEof
  <2>3. k \in 1 .. Taken
    BY <2>1 DEF Taken
  <2>4. CASE k = Slot
    BY <2>1, <2>2, <2>4
  <2>5. CASE k # Slot
    <3>1. k \notin Live
      BY <1>5, <2>5, LiveAfterErase
    <3> QED  BY <2>1, <2>3, <3>1 DEF NoneLost
  <2> QED  BY <2>4, <2>5
<1>6. CASE ~Moves
  <2>1. k \in 1 .. Taken /\ k \notin Live
    BY <1>6, StillSteps DEF Taken
  <2>2. k <= closed /\ k \notin unread
    BY <2>1 DEF NoneLost
  <2>3. closed <= closed' /\ closed' \in Nat /\ unread' \subseteq unread \cup {sent + 1}
    <3>1. CASE UNCHANGED vars
      BY <3>1 DEF vars, clientVars
    <3>2. CASE AcceptorLoop
      BY <3>2 DEF AcceptorLoop, clientVars
    <3>3. CASE Client
      BY <3>3 DEF Client, SendMessage, CloseClient
    <3>4. CASE HandleConnections
      BY <1>6, <3>4 DEF HandleConnections, BeginWalk, EndWalk, ReadEvent,
                        ReadNull, Moves, clientVars
    <3>5. CASE Owner \/ Stop
      BY <3>5 DEF Owner, GetQueueElement, JoinAcceptor, JoinReceiver, Stop,
                  clientVars
    <3> QED
      BY <1>6, <3>1, <3>2, <3>3, <3>4, <3>5 DEF Next, OnRunning, Moves
  <2> QED
    BY <2>1, <2>2, <2>3
<1> QED
  BY <1>1, <1>2, <1>3, <1>4, <1>5, <1>6 DEF Moves

(* The mutex keeps the acceptor out of a walk.                             *)
LEMMA WalkStep ==
    ServerTypeOK /\ WalkInBounds /\ [Next]_vars => WalkInBounds'
<1> SUFFICES ASSUME ServerTypeOK, WalkInBounds, [Next]_vars
             PROVE  WalkInBounds'
  OBVIOUS
<1> USE Numbers DEF WalkInBounds
<1>1. CASE Connect \/ AcceptConnection \/ AcceptFails
  BY <1>1 DEF Connect, AcceptConnection, AcceptFails, receiverVars
<1>2. CASE PushConnection
  BY <1>2 DEF PushConnection, receiverVars
<1>3. CASE EraseAtEof
  <2>1. Len(active') = Len(active) - 1
    BY <1>3, ErasedVector
  <2> QED
    BY <1>3, <2>1 DEF EraseAtEof, AtSlot
<1>4. CASE BeginWalk
  BY <1>4 DEF BeginWalk
<1>5. CASE EndWalk \/ ReadEvent \/ ReadNull
  BY <1>5 DEF EndWalk, ReadEvent, ReadNull, AtSlot, receiverVars
<1>6. CASE UNCHANGED vars \/ AcceptorLoop \/ Client \/ Owner \/ Stop
  BY <1>6 DEF vars, AcceptorLoop, Client, SendMessage, CloseClient, Owner,
              GetQueueElement, JoinAcceptor, JoinReceiver, Stop, receiverVars
<1> QED
  BY <1>1, <1>2, <1>3, <1>4, <1>5, <1>6
  DEF Next, OnRunning, HandleConnections

(* A walk that has erased what was not the last connection goes on to its  *)
(* crash.                                                                  *)
LEMMA DoomStays ==
    ASSUME ServerTypeOK, [Next]_vars, ~Doomed', ~crashed'
    PROVE  ~Doomed /\ ~crashed
<1> SUFFICES ASSUME Doomed PROVE FALSE
  BY DEF Next, vars
<1> USE Numbers DEF Doomed
<1>1. CASE Connect \/ AcceptConnection \/ AcceptFails
  BY <1>1 DEF Connect, AcceptConnection, AcceptFails, receiverVars
<1>2. CASE PushConnection \/ BeginWalk \/ EndWalk
  BY <1>2 DEF PushConnection, BeginWalk, EndWalk
<1>3. CASE ReadEvent
  <2>1. cursor \in 1 .. Len(active)
    BY <1>3, ServerAssumption DEF ReadEvent, Slot, ServerTypeOK, Events, NoClient
  <2> QED
    BY <1>3, <2>1 DEF ReadEvent
<1>4. CASE EraseAtEof
  <2>1. Len(active') = Len(active) - 1 /\ cursor \in 1 .. Len(active)
    BY <1>4, ErasedVector
  <2> QED
    BY <1>4, <2>1 DEF EraseAtEof
<1>5. CASE ReadNull
  BY <1>5 DEF ReadNull
<1>6. CASE UNCHANGED vars \/ AcceptorLoop \/ Client \/ Owner \/ Stop
  BY <1>6 DEF vars, AcceptorLoop, Client, SendMessage, CloseClient, Owner,
              GetQueueElement, JoinAcceptor, JoinReceiver, Stop, receiverVars
<1> QED
  BY <1>1, <1>2, <1>3, <1>4, <1>5, <1>6
  DEF Next, OnRunning, HandleConnections

(* The walk meets the events in the order in which they were sent: the     *)
(* next one is not in the listen queue, not with the acceptor, not behind  *)
(* the cursor and not before it.                                           *)
LEMMA NextEventFirst ==
    ASSUME ServerTypeOK, ConnectionsInOrder, NoneLost, ReadSoFar,
           AtSlot, Slot \in unread
    PROVE  Slot = Received + 1
<1> USE Numbers
<1>1. Received \in Nat /\ Taken \in Nat
  BY DEF Received, Taken, ConnectionsInOrder
<1>2. /\ cursor \in 1 .. Len(active) /\ Slot = active[cursor]
      /\ Slot \in Nat /\ Slot # NoClient
  BY ServerAssumption DEF Slot, ServerTypeOK, Events, NoClient
<1>3. Received + 1 <= Slot /\ Slot <= sent
  BY <1>1, <1>2 DEF ReadSoFar
<1> SUFFICES ASSUME Received + 1 < Slot PROVE FALSE
  BY <1>1, <1>2, <1>3
<1>4. Slot <= Taken
  BY <1>2 DEF ConnectionsInOrder
<1>5. Received + 1 \in unread
  BY <1>1, <1>2, <1>3 DEF ReadSoFar
<1>6. Received + 1 \in Live
  BY <1>1, <1>2, <1>4, <1>5 DEF NoneLost
<1>7. Received + 1 # accepted
  BY <1>1, <1>2 DEF ConnectionsInOrder, NoClient
<1>8. PICK j \in 1 .. Len(active) : active[j] = Received + 1
  BY <1>6, <1>7 DEF Live
<1>9. j < cursor
  <2>1. j # cursor
    BY <1>1, <1>2, <1>8
  <2>2. cursor < j => active[cursor] < active[j]
    BY <1>1, <1>2, <1>8 DEF ConnectionsInOrder, NoClient
  <2> QED  BY <1>1, <1>2, <1>8, <2>1, <2>2
<1> QED
  BY <1>1, <1>8, <1>9 DEF ReadSoFar, AtSlot

(* Every step keeps the events in order until the walk is doomed.          *)
LEMMA ReadStep ==
    ServerInv /\ [Next]_vars => ReadInOrder'
<1> SUFFICES ASSUME ServerInv, [Next]_vars, ~Doomed', ~crashed'
             PROVE  ReadSoFar'
  BY DEF ReadInOrder
<1>0. /\ ServerTypeOK /\ ConnectionsInOrder /\ NoneLost /\ WalkInBounds
      /\ ~Doomed /\ ~crashed /\ ReadSoFar
  BY DoomStays DEF ServerInv, ReadInOrder
<1> USE <1>0, Numbers
<1>1. Received \in Nat
  BY DEF Received
<1>2. CASE Connect \/ AcceptConnection \/ AcceptFails \/ AcceptorLoop
  BY <1>2 DEF Connect, AcceptConnection, AcceptFails, AcceptorLoop, ReadSoFar,
              Received, clientVars, receiverVars, appVars
<1>3. CASE SendMessage
  <2>1. /\ sent' = sent + 1 /\ unread' = unread \cup {sent + 1}
        /\ UNCHANGED <<handled, dataQueue, active, receiver, cursor>>
    BY <1>3 DEF SendMessage, receiverVars, appVars
  <2>2. Received' = Received
    BY <2>1 DEF Received
  <2>3. Received <= sent' /\ unread' = (Received + 1) .. sent'
    BY <1>1, <2>1 DEF ReadSoFar
  <2> QED
    BY <2>1, <2>2, <2>3 DEF ReadSoFar
<1>4. CASE CloseClient
  BY <1>4 DEF CloseClient, ReadSoFar, Received, receiverVars, appVars
<1>5. CASE PushConnection
  BY <1>5 DEF PushConnection, ReadSoFar, Received, clientVars, receiverVars,
              appVars
<1>6. CASE BeginWalk
  <2>1. \A i \in 1 .. Len(active) : ~(i < 1)
    OBVIOUS
  <2> QED
    BY <1>6, <2>1 DEF BeginWalk, ReadSoFar, Received, clientVars, appVars
<1>7. CASE EndWalk
  BY <1>7 DEF EndWalk, ReadSoFar, Received, clientVars, appVars
<1>8. CASE ReadEvent
  <2>1. Slot = Received + 1
    BY <1>8, NextEventFirst DEF ReadEvent
  <2>2. /\ dataQueue' = Append(dataQueue, Slot) /\ unread' = unread \ {Slot}
        /\ cursor' = cursor + 1
        /\ UNCHANGED <<handled, sent, active, receiver>>
    BY <1>8 DEF ReadEvent, clientVars
  <2>3. Slot \in Events
    BY <1>8 DEF ReadEvent, ServerTypeOK
  <2>4. /\ Len(dataQueue') = Len(dataQueue) + 1
        /\ \A i \in 1 .. Len(dataQueue) : dataQueue'[i] = dataQueue[i]
        /\ dataQueue'[Len(dataQueue) + 1] = Received + 1
    BY <2>1, <2>2, <2>3, AppendProperties DEF ServerTypeOK
  <2>5. Received' = Received + 1
    BY <2>2, <2>4 DEF Received
  <2>6. \A i \in 1 .. Len(dataQueue') : dataQueue'[i] = Len(handled') + i
    <3> TAKE i \in 1 .. Len(dataQueue')
    <3>1. CASE i \in 1 .. Len(dataQueue)
      BY <2>2, <2>4, <3>1 DEF ReadSoFar
    <3>2. CASE i = Len(dataQueue) + 1
      BY <2>2, <2>4, <3>2 DEF Received
    <3> QED  BY <2>4, <3>1, <3>2
  <2>7. Received' <= sent' /\ unread' = (Received' + 1) .. sent'
    <3>1. Slot \in (Received + 1) .. sent
      BY <1>8 DEF ReadEvent, ReadSoFar
    <3> QED  BY <1>1, <2>1, <2>2, <2>5, <3>1 DEF ReadSoFar
  <2>8. ASSUME NEW i \in 1 .. Len(active), i < cursor + 1
        PROVE  active[i] <= Received + 1
    <3>1. CASE i < cursor
      BY <1>1, <1>8, <3>1 DEF ReadSoFar, ReadEvent, AtSlot
    <3>2. CASE i = cursor
      BY <1>1, <2>1, <3>2 DEF Slot
    <3> QED  BY <2>8, <3>1, <3>2
  <2> QED
    BY <2>2, <2>5, <2>6, <2>7, <2>8 DEF ReadSoFar
<1>9. CASE EraseAtEof
  <2>1. UNCHANGED <<handled, dataQueue, sent, unread, receiver>>
    BY <1>9 DEF EraseAtEof, clientVars, appVars
  <2>2. Received' = Received
    BY <2>1 DEF Received
  <2>3. /\ Len(active') = Len(active) - 1 /\ cursor \in 1 .. Len(active)
        /\ \A i \in 1 .. Len(active') :
              active'[i] = IF i < cursor THEN active[i] ELSE active[i + 1]
    BY <1>9, ErasedVector
  <2>4. cursor = Len(active)
    BY <1>9, <2>3 DEF EraseAtEof, AtSlot, Doomed, WalkInBounds
  <2>5. \A i \in 1 .. Len(active') : active'[i] <= Received
    BY <1>9, <2>3, <2>4 DEF ReadSoFar, EraseAtEof, AtSlot
  <2> QED
    BY <2>1, <2>2, <2>5 DEF ReadSoFar
<1>10. CASE ReadNull
  BY <1>10 DEF ReadNull
<1>11. CASE GetQueueElement
  <2>1. /\ dataQueue \in Seq(Events) /\ handled \in Seq(Events)
        /\ dataQueue # <<>>
        /\ handled' = Append(handled, Head(dataQueue))
        /\ dataQueue' = Tail(dataQueue)
        /\ UNCHANGED <<sent, unread, active, receiver, cursor>>
    BY <1>11 DEF GetQueueElement, ServerTypeOK, clientVars, receiverVars
  <2>2. /\ Len(dataQueue) \in Nat \ {0} /\ Head(dataQueue) = dataQueue[1]
        /\ Head(dataQueue) \in Events
    BY <2>1, EmptySeq, HeadTailProperties
  <2>3. /\ Len(dataQueue') = Len(dataQueue) - 1
        /\ \A i \in 1 .. Len(dataQueue') : dataQueue'[i] = dataQueue[i + 1]
    BY <2>1, HeadTailProperties
  <2>4. Head(dataQueue) = Len(handled) + 1
    BY <2>2 DEF ReadSoFar
  <2>5. /\ Len(handled') = Len(handled) + 1
        /\ \A i \in 1 .. Len(handled) : handled'[i] = handled[i]
        /\ handled'[Len(handled) + 1] = Len(handled) + 1
    BY <2>1, <2>2, <2>4, AppendProperties
  <2>6. Received' = Received
    BY <2>2, <2>3, <2>5 DEF Received
  <2>7. \A i \in 1 .. Len(handled') : handled'[i] = i
    <3> TAKE i \in 1 .. Len(handled')
    <3>1. CASE i \in 1 .. Len(handled)
      BY <2>5, <3>1 DEF ReadSoFar
    <3>2. CASE i = Len(handled) + 1
      BY <2>5, <3>2
    <3>3. i \in 1 .. Len(handled) \/ i = Len(handled) + 1
      BY <2>5
    <3> QED  BY <3>1, <3>2, <3>3
  <2>8. \A i \in 1 .. Len(dataQueue') : dataQueue'[i] = Len(handled') + i
    <3> TAKE i \in 1 .. Len(dataQueue')
    <3>1. i + 1 \in 1 .. Len(dataQueue) /\ dataQueue'[i] = dataQueue[i + 1]
      BY <2>2, <2>3
    <3>2. dataQueue[i + 1] = Len(handled) + (i + 1)
      BY <3>1 DEF ReadSoFar
    <3> QED  BY <2>5, <3>1, <3>2
  <2> QED
    BY <2>1, <2>6, <2>7, <2>8 DEF ReadSoFar
<1>12. CASE Stop \/ JoinAcceptor \/ JoinReceiver \/ UNCHANGED vars
  BY <1>12 DEF Stop, JoinAcceptor, JoinReceiver, vars, ReadSoFar, Received,
               clientVars, receiverVars, appVars
<1> QED
  BY <1>2, <1>3, <1>4, <1>5, <1>6, <1>7, <1>8, <1>9, <1>10, <1>11, <1>12
  DEF Next, OnRunning, HandleConnections, Client, Owner

-----------------------------------------------------------------------------
(* The inductive invariant behind EventsInOrder: the events in the queue   *)
(* are in order because the connections are, because none is dropped with  *)
(* its event unread, and because a walk that skips nothing reads them one  *)
(* after another.                                                          *)
LEMMA ServerInvariant == Spec => []ServerInv
<1>1. Init => ConnectionsInOrder /\ NoneLost /\ WalkInBounds /\ ReadInOrder
  <2> SUFFICES ASSUME Init
               PROVE  ConnectionsInOrder /\ NoneLost /\ WalkInBounds /\ ReadInOrder
    OBVIOUS
  <2>1. /\ Len(backlog) = 0 /\ Len(active) = 0 /\ Len(handled) = 0
        /\ Len(dataQueue) = 0
    BY EmptySeq DEF Init
  <2>2. Taken = 0 /\ Received = 0
    <3>1. connected = 0
      BY DEF Init
    <3> QED  BY <2>1, <3>1 DEF Taken, Received
  <2>3. ConnectionsInOrder
    BY <2>1, <2>2 DEF Init, ConnectionsInOrder, NoClient
  <2>4. NoneLost
    BY <2>2 DEF NoneLost
  <2>5. WalkInBounds
    BY DEF Init, WalkInBounds
  <2>6. ReadInOrder
    BY <2>1, <2>2 DEF Init, ReadInOrder, ReadSoFar
  <2> QED  BY <2>3, <2>4, <2>5, <2>6
<1>2. ServerInv /\ [Next]_vars
         => ConnectionsInOrder' /\ NoneLost' /\ WalkInBounds' /\ ReadInOrder'
  BY OrderStep, LostStep, WalkStep, ReadStep DEF ServerInv
<1> QED
  BY <1>1, <1>2, ServerTypeCorrect, PTL DEF Spec, ServerInv

(* However many events are sent, and however the two threads of the server *)
(* interleave, the application gets them once and in the order sent, until *)
(* the walk runs into a slot it has erased.                                *)
THEOREM EventsComeInOrder == Spec => []EventsInOrder
<1>1. ServerInv => EventsInOrder
  <2> SUFFICES ASSUME ServerInv, ~Doomed, ~crashed
               PROVE  LET received == handled \o dataQueue
                      IN  /\ \A i \in 1 .. Len(received) : received[i] = i
                          /\ unread = (Len(received) + 1) .. sent
    BY DEF EventsInOrder
  <2> DEFINE received == handled \o dataQueue
  <2>1. ServerTypeOK /\ ReadSoFar
    BY DEF ServerInv, ReadInOrder
  <2>2. /\ Len(received) = Len(handled) + Len(dataQueue)
        /\ \A i \in 1 .. Len(handled) + Len(dataQueue) :
              received[i] = IF i <= Len(handled) THEN handled[i]
                            ELSE dataQueue[i - Len(handled)]
    BY <2>1, ConcatProperties DEF ServerTypeOK
  <2> HIDE DEF received
  <2>3. ASSUME NEW i \in 1 .. Len(received) PROVE received[i] = i
    <3>1. CASE i <= Len(handled)
      <4>1. i \in 1 .. Len(handled)
        BY <2>1, <2>2, <3>1, Numbers
      <4>2. received[i] = handled[i]
        BY <2>1, <2>2, <3>1, <4>1, Numbers
      <4> QED  BY <2>1, <4>1, <4>2 DEF ReadSoFar
    <3>2. CASE ~(i <= Len(handled))
      <4>1. i - Len(handled) \in 1 .. Len(dataQueue)
        BY <2>1, <2>2, <3>2, Numbers
      <4>2. dataQueue[i - Len(handled)] = Len(handled) + (i - Len(handled))
        BY <2>1, <4>1 DEF ReadSoFar
      <4> QED  BY <2>1, <2>2, <3>2, <4>2, Numbers
    <3> QED  BY <3>1, <3>2
  <2>4. unread = (Len(received) + 1) .. sent
    BY <2>1, <2>2 DEF ReadSoFar, Received
  <2> QED  BY <2>3, <2>4 DEF received
<1> QED
  BY <1>1, ServerInvariant, PTL

-----------------------------------------------------------------------------
(* Connections that do not overlap come and go one after another.          *)
LEMMA LatestStep ==
    ServerInv /\ OnlyTheLatest /\ [Next]_vars => OnlyTheLatest'
<1> SUFFICES ASSUME ServerInv, OnlyTheLatest, [Next]_vars, ~overlapped'
             PROVE  /\ Live' \subseteq {connected'}
                    /\ Len(backlog') <= 1
                    /\ backlog' # <<>> => Live' = {}
  BY DEF OnlyTheLatest
<1>0. ServerTypeOK /\ ConnectionsInOrder
  BY DEF ServerInv
<1>1. CASE Connect
  <2>1. ~overlapped /\ backlog = <<>> /\ Live = {}
    BY <1>1 DEF Connect
  <2>2. Live' = {}
    BY <1>1, <2>1 DEF Connect, Live
  <2>3. Len(backlog) = 0 /\ Len(backlog') = Len(backlog) + 1
    BY <1>0, <1>1, <2>1, Connected
  <2> QED  BY <2>2, <2>3
<1>2. CASE AcceptConnection
  <2>1. /\ ~overlapped /\ backlog # <<>> /\ connected' = connected
        /\ active' = active
    BY <1>2 DEF AcceptConnection, clientVars
  <2>2. Live = {} /\ Len(backlog) <= 1
    BY <2>1 DEF OnlyTheLatest
  <2>3. /\ Len(backlog) = 1 /\ Len(backlog') = 0 /\ accepted' = backlog[1]
    BY <1>0, <1>2, <2>2, AcceptedOne, Numbers
  <2>4. backlog[1] = Taken + 1
    BY <1>0, <2>3 DEF ConnectionsInOrder
  <2>5. accepted' = connected
    BY <1>0, <2>3, <2>4, Numbers DEF Taken
  <2>6. Live' \subseteq {connected}
    BY <2>1, <2>2, <2>5 DEF Live
  <2>7. backlog' \in Seq(Events)
    BY <1>0, TypeStep DEF ServerTypeOK
  <2>8. backlog' = <<>>
    BY <2>3, <2>7, EmptySeq
  <2> QED  BY <2>1, <2>3, <2>6, <2>8
<1>3. CASE AcceptFails
  <2>1. /\ ~overlapped /\ backlog' = backlog /\ connected' = connected
        /\ active' = active /\ accepted' = NoClient
    BY <1>3 DEF AcceptFails, clientVars
  <2>2. Live' \subseteq Live
    BY <2>1 DEF Live
  <2> QED  BY <2>1, <2>2 DEF OnlyTheLatest
<1>4. CASE PushConnection
  <2>1. /\ ~overlapped /\ backlog' = backlog /\ connected' = connected
    BY <1>4 DEF PushConnection, clientVars
  <2> QED  BY <1>0, <1>4, <2>1, Pushed DEF OnlyTheLatest
<1>5. CASE EraseAtEof
  <2>1. /\ ~overlapped /\ backlog' = backlog /\ connected' = connected
    BY <1>5 DEF EraseAtEof, clientVars, acceptorVars
  <2> QED  BY <1>0, <1>5, <2>1, LiveAfterErase DEF OnlyTheLatest
<1>6. CASE ~Moves
  BY <1>6, StillSteps DEF OnlyTheLatest
<1> QED
  BY <1>1, <1>2, <1>3, <1>4, <1>5, <1>6 DEF Moves

(* An excuse is never taken back.                                          *)
LEMMA ExcuseStays ==
    ASSUME ServerTypeOK, [Next]_vars, Excused PROVE Excused'
<1>0. leaked \in Nat
  BY DEF ServerTypeOK
<1>1. CASE Connect
  BY <1>1 DEF Connect, Excused
<1>2. CASE AcceptConnection
  <2>1. overlapped' = overlapped
    BY <1>2 DEF AcceptConnection, clientVars
  <2>2. leaked' = leaked \/ leaked' = leaked + 1
    BY <1>0, <1>2 DEF AcceptConnection
  <2>3. MaxFds \in Nat
    BY ServerAssumption
  <2>4. leaked + 2 >= MaxFds => leaked' + 2 >= MaxFds
    BY <1>0, <2>2, <2>3
  <2> QED  BY <2>1, <2>4 DEF Excused
<1>3. CASE AcceptFails \/ PushConnection \/ EraseAtEof
  BY <1>3 DEF AcceptFails, PushConnection, EraseAtEof, Excused, clientVars,
              acceptorVars
<1>4. CASE ~Moves
  BY <1>4, StillSteps DEF Excused
<1> QED
  BY <1>1, <1>2, <1>3, <1>4 DEF Moves

(* Without an excuse there is one connection, and erasing it ends the      *)
(* walk.                                                                   *)
LEMMA EraseTheOnly ==
    ASSUME ServerInv, OnlyTheLatest, NullIsExcused, EraseAtEof, ~Excused
    PROVE  ~Doomed'
<1>0. ServerTypeOK /\ ConnectionsInOrder /\ WalkInBounds
  BY DEF ServerInv
<1> USE <1>0, Numbers
<1>1. \A i \in 1 .. Len(active) : active[i] # NoClient /\ active[i] = connected
  <2>1. Live \subseteq {connected}
    BY DEF OnlyTheLatest, Excused
  <2>2. \A i \in 1 .. Len(active) : active[i] # NoClient
    BY DEF NullIsExcused
  <2>3. \A i \in 1 .. Len(active) : active[i] \in Live
    BY <2>2 DEF Live
  <2> QED  BY <2>1, <2>2, <2>3
<1>2. Len(active) <= 1
  <2> SUFFICES ASSUME Len(active) > 1 PROVE FALSE
    OBVIOUS
  <2>1. 1 \in 1 .. Len(active) /\ 2 \in 1 .. Len(active)
    OBVIOUS
  <2>2. active[1] < active[2]
    BY <1>1, <2>1 DEF ConnectionsInOrder
  <2> QED  BY <1>1, <2>1, <2>2
<1>3. cursor \in 1 .. Len(active)
  BY ErasedVector
<1>4. walkEnd <= Len(active)
  BY DEF NullIsExcused, Doomed, EraseAtEof, AtSlot
<1>5. cursor' = cursor + 1 /\ walkEnd' = walkEnd
  BY DEF EraseAtEof
<1> QED
  BY <1>2, <1>3, <1>4, <1>5 DEF Doomed

(* With at most one live connection accept fails only for want of sockets  *)
(* that were leaked.                                                       *)
LEMMA FailureIsExcused ==
    ASSUME ServerInv, OnlyTheLatest, AcceptFails PROVE Excused
<1> SUFFICES ASSUME ~overlapped PROVE leaked + 2 >= MaxFds
  BY DEF Excused
<1>1. Cardinality(Live) <= 1 /\ Cardinality(Live) \in Nat
  <2>1. Live \in SUBSET {connected}
    BY DEF OnlyTheLatest
  <2>2. IsFiniteSet({connected}) /\ Cardinality({connected}) = 1
    BY FS_Singleton
  <2>3. Cardinality(Live) <= Cardinality({connected})
    BY <2>1, <2>2, FS_Subset
  <2>4. Cardinality(Live) \in Nat
    BY LiveIsFinite DEF ServerInv
  <2> QED  BY <2>2, <2>3, <2>4
<1>2. 1 + Cardinality(Live) + leaked = MaxFds
  BY DEF AcceptFails, UsedFds
<1> QED
  BY <1>1, <1>2, ServerAssumption DEF ServerInv, ServerTypeOK

(* Nulls enter the vector, and the walk runs into one, only with an        *)
(* excuse.                                                                 *)
LEMMA NullStep ==
    ServerInv /\ OnlyTheLatest /\ NullIsExcused /\ [Next]_vars
        => NullIsExcused'
<1> SUFFICES ASSUME ServerInv, OnlyTheLatest, NullIsExcused, [Next]_vars,
                    ~Excused'
             PROVE  /\ \A i \in 1 .. Len(active') : active'[i] # NoClient
                    /\ ~(acceptor' = "push" /\ accepted' = NoClient)
                    /\ ~Doomed'
  BY DEF NullIsExcused
<1>0. ServerTypeOK /\ ConnectionsInOrder /\ WalkInBounds
  BY DEF ServerInv
<1>1. ~Excused
  BY <1>0, ExcuseStays
<1>2. /\ \A i \in 1 .. Len(active) : active[i] # NoClient
      /\ ~(acceptor = "push" /\ accepted = NoClient)
      /\ ~Doomed
  BY <1>1 DEF NullIsExcused
<1> USE <1>0, <1>1, <1>2, Numbers
<1>3. CASE Connect
  BY <1>3 DEF Connect, Doomed, receiverVars
<1>4. CASE AcceptConnection
  <2>1. accepted' # NoClient
    BY <1>4, AcceptedOne DEF NoClient
  <2> QED  BY <1>4, <2>1 DEF AcceptConnection, Doomed, receiverVars
<1>5. CASE AcceptFails
  BY <1>5, FailureIsExcused
<1>6. CASE PushConnection
  <2>1. /\ acceptor = "push" /\ receiver # "walk" /\ receiver' = receiver
        /\ acceptor' = "loop"
    BY <1>6 DEF PushConnection, receiverVars
  <2>2. \A i \in 1 .. Len(active') : active'[i] # NoClient
    BY <1>6, <2>1, Pushed
  <2> QED  BY <2>1, <2>2 DEF Doomed
<1>7. CASE EraseAtEof
  <2>1. \A i \in 1 .. Len(active') : active'[i] # NoClient
    <3> TAKE i \in 1 .. Len(active')
    <3>1. i \in 1 .. Len(active) /\ i + 1 \in 1 .. Len(active)
      BY <1>7, ErasedVector
    <3>2. active'[i] = active[i] \/ active'[i] = active[i + 1]
      BY <1>7, ErasedVector
    <3> QED  BY <3>1, <3>2
  <2>2. acceptor' = acceptor /\ accepted' = accepted
    BY <1>7 DEF EraseAtEof, acceptorVars
  <2> QED  BY <1>7, <2>1, <2>2, EraseTheOnly
<1>8. CASE ~Moves
  <2>1. /\ active' = active /\ accepted' = accepted
        /\ acceptor' = "push" <=> acceptor = "push"
    BY <1>8, StillSteps
  <2>2. ~Doomed'
    <3>1. CASE BeginWalk
      BY <3>1 DEF BeginWalk, Doomed
    <3>2. CASE EndWalk
      BY <3>2 DEF EndWalk, Doomed
    <3>3. CASE ReadEvent
      BY <3>3 DEF ReadEvent, Doomed
    <3>4. CASE UNCHANGED receiverVars
      BY <2>1, <3>4 DEF Doomed, receiverVars
    <3> QED
      BY <1>8, <3>1, <3>2, <3>3, <3>4
      DEF Next, OnRunning, HandleConnections, Client, Owner, Moves, AcceptorLoop,
          ReadNull, SendMessage, CloseClient, GetQueueElement, Stop,
          JoinAcceptor, JoinReceiver, vars
  <2> QED  BY <2>1, <2>2
<1> QED
  BY <1>3, <1>4, <1>5, <1>6, <1>7, <1>8 DEF Moves

(* The walk dies of a null in the vector or past its end.                  *)
LEMMA CrashStep ==
    ServerInv /\ NullIsExcused /\ SurvivesOneAtATime /\ [Next]_vars
        => SurvivesOneAtATime'
<1> SUFFICES ASSUME ServerInv, NullIsExcused, SurvivesOneAtATime, [Next]_vars
             PROVE  SurvivesOneAtATime'
  OBVIOUS
<1>0. ServerTypeOK /\ WalkInBounds
  BY DEF ServerInv
<1>1. CASE ReadNull
  <2>1. AtSlot /\ Slot = NoClient
    BY <1>1 DEF ReadNull
  <2>2. cursor \notin 1 .. Len(active) => Doomed
    BY <1>0, <2>1, Numbers DEF Doomed, AtSlot
  <2>3. cursor \in 1 .. Len(active) => active[cursor] = NoClient
    BY <2>1 DEF Slot
  <2>4. Excused
    BY <2>2, <2>3 DEF NullIsExcused
  <2> QED  BY <1>0, <2>4, ExcuseStays DEF SurvivesOneAtATime, Excused
<1>2. CASE ~ReadNull
  <2>1. crashed' => crashed
    BY <1>2 DEF Next, OnRunning, HandleConnections, Client, Owner, AcceptorLoop,
        AcceptConnection, AcceptFails, PushConnection, BeginWalk, EndWalk,
        ReadEvent, EraseAtEof, SendMessage, CloseClient, GetQueueElement,
        Stop, JoinAcceptor, JoinReceiver, Connect, vars
  <2>2. crashed => Excused
    BY DEF SurvivesOneAtATime, Excused
  <2> QED
    BY <1>0, <2>1, <2>2, ExcuseStays DEF SurvivesOneAtATime, Excused
<1> QED  BY <1>1, <1>2

(* A server whose connections do not overlap crashes only when its leaked  *)
(* sockets have used up the descriptors of the process, however many       *)
(* descriptors it has and however long it runs.                            *)
THEOREM OneAtATimeSurvives == Spec => []SurvivesOneAtATime
<1>1. Init => OnlyTheLatest /\ NullIsExcused /\ SurvivesOneAtATime
  <2> SUFFICES ASSUME Init
               PROVE  OnlyTheLatest /\ NullIsExcused /\ SurvivesOneAtATime
    OBVIOUS
  <2>1. /\ Len(backlog) = 0 /\ Len(active) = 0 /\ backlog = <<>>
        /\ accepted = NoClient
    BY EmptySeq DEF Init
  <2>2. Live = {}
    BY <2>1 DEF Live
  <2>3. receiver = "loop" /\ acceptor = "loop" /\ crashed = FALSE
    BY DEF Init
  <2> QED
    BY <2>1, <2>2, <2>3
    DEF OnlyTheLatest, NullIsExcused, Doomed, SurvivesOneAtATime
<1> QED
  BY <1>1, LatestStep, NullStep, CrashStep, ServerInvariant, PTL DEF Spec

=============================================================================
