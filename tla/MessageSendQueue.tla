-------------------------- MODULE MessageSendQueue --------------------------
(***************************************************************************)
(* The send queue to one remote node, the connections that serve it and    *)
(* the message counter of the service (modules/communicator:               *)
(* message_send_queue.cpp, the write side of tcp_connection.cpp and        *)
(* requestStop and the counters of service.cpp).                           *)
(*                                                                         *)
(* Any thread calls send(); the handlers of the connections and the tick   *)
(* run on the I/O thread, one at a time.  A connection is written to by    *)
(* one coroutine, which sleeps when the queue is empty and is triggered    *)
(* through the notification callback of the queue.  Connections break, a   *)
(* new one takes the queue over, and entries are kept across connections.  *)
(***************************************************************************)
EXTENDS Integers, Sequences, FiniteSets, Functions

CONSTANTS
    Msg,            \* messages that are counted and acknowledged
    Sender,         \* the threads that call send()
    Conn,           \* connections to the remote that may come to exist
    Initiator,      \* the connections this node initiated
    Greater,        \* is the id of this node greater than the remote's?
    MessageTimeout, \* messageTimeoutMS
    MayFail,        \* do established connections break?
    MayDrop,        \* does the connection timeout expire?
    MayStop,        \* is the service asked to stop?
    Untracked,      \* a keepalive or ACK packet: not counted, not acknowledged
    Nil

ASSUME QueueAssumption ==
    /\ Initiator \subseteq Conn
    /\ Untracked \notin Msg /\ Nil \notin Msg \cup Conn \cup {Untracked}
    /\ {Greater, MayFail, MayDrop, MayStop} \subseteq BOOLEAN
    /\ MessageTimeout \in Nat \ {0}

VARIABLES
    queued,             \* m_internal->queued
    waitingForACK,
    notificationFunc,   \* the connection the callback belongs to, or Nil
    availableToSendTo,
    acked,              \* m_ACKdMessageCount >= 1
    dropped,            \* m_dropped
    trackedQueueSize,   \* a size_t; read as a signed number it is never ambiguous
    serviceKnows,       \* m_serviceKnowsAboutWrites
    counter,            \* outgoingMessageCounter of the service
    stopRequested, stopped,
    conn,               \* life of a connection
    killed,             \* the connections that were told to end
    currentlySending,   \* the connections whose flag of that name is set
    writer,             \* where the writeHandler coroutine of a connection is
    writing,            \* the entry whose buffer the socket writes from
    wire,               \* messages fully written, acknowledgement outstanding
    sendPc, sendMsg,    \* the senders
    fate,               \* what the callback of a message was told
    unknownACK          \* an ACK came for a message not waiting for one

queueVars == <<queued, waitingForACK, acked, dropped, fate, unknownACK>>
notifyVars == <<notificationFunc, availableToSendTo>>
countVars == <<trackedQueueSize, serviceKnows, counter, stopped>>
connVars == <<conn, killed, currentlySending, writer, writing, wire>>
sendVars == <<sendPc, sendMsg>>
vars == <<queueVars, notifyVars, countVars, stopRequested, connVars, sendVars>>

Entry == Msg \cup {Untracked}

Init ==
    /\ queued = <<>> /\ waitingForACK = {}
    /\ notificationFunc = Nil /\ availableToSendTo = FALSE
    /\ acked = FALSE /\ dropped = FALSE
    /\ trackedQueueSize = 0 /\ serviceKnows = FALSE /\ counter = 0
    /\ stopRequested = FALSE /\ stopped = FALSE
    /\ conn = [c \in Conn |-> "none"]
    /\ killed = {} /\ currentlySending = Conn
    /\ writer = [c \in Conn |-> "none"]
    /\ writing = [c \in Conn |-> Nil]
    /\ wire = [c \in Conn |-> {}]
    /\ sendPc = [s \in Sender |-> "idle"] /\ sendMsg = [s \in Sender |-> Nil]
    /\ fate = [m \in Msg |-> "unsent"]
    /\ unknownACK = FALSE

\* The I/O thread runs one handler at a time, until the context is stopped.
IoFree == ~stopped /\ \A c \in Conn : writer[c] # "clear" /\ conn[c] # "dying"

Alive(c) == conn[c] \in {"open", "up"}

\* Faulty variant: keepalives and ACKs are tracked, too.
Tracked_Everything(e) == TRUE

\* parac_message_kind_is_count_tracked and ..._is_waiting_for_ack
Tracked(e) == e \in Msg

\* Service::removeOutgoingMessageFromCounter
RemoveFromCounter(n) ==
    /\ counter' = counter - n
    /\ stopped' = (stopped \/ (stopRequested /\ counter = n))

\* TCPConnection::conditionallyTriggerWriteHandler: a writer that is not
\* sending re-enters its loop, directly or posted to the I/O thread.
Trigger(c) ==
    IF c \in currentlySending
      THEN UNCHANGED <<currentlySending, writer>>
      ELSE /\ currentlySending' = currentlySending \cup {c}
           /\ writer' = [writer EXCEPT ![c] = "loop"]

\* deregisterNotificationCB, whichever connection asks for it.
Deregister ==
    /\ notificationFunc' = IF availableToSendTo THEN Nil ELSE notificationFunc
    /\ availableToSendTo' = FALSE
    /\ serviceKnows' = FALSE
    /\ IF serviceKnows /\ trackedQueueSize # 0
         THEN RemoveFromCounter(trackedQueueSize)
         ELSE UNCHANGED <<counter, stopped>>

-----------------------------------------------------------------------------
(* send(), on any thread                                                   *)

\* A dropped queue swallows the message: no callback is called.
SendStart(s) ==
    /\ sendPc[s] = "idle"
    /\ \E m \in Msg :
         /\ fate[m] = "unsent"
         /\ fate' = [fate EXCEPT ![m] = IF dropped THEN "swallowed" ELSE "pending"]
         /\ sendMsg' = [sendMsg EXCEPT ![s] = IF dropped THEN Nil ELSE m]
    /\ sendPc' = [sendPc EXCEPT ![s] = IF dropped THEN "idle" ELSE "queue"]
    /\ UNCHANGED <<queued, waitingForACK, acked, dropped, unknownACK, notifyVars,
                   countVars, stopRequested, connVars>>

SendQueue(s) ==
    /\ sendPc[s] = "queue"
    /\ queued' = Append(queued, sendMsg[s])
    /\ sendPc' = [sendPc EXCEPT ![s] = "notify"]
    /\ UNCHANGED <<waitingForACK, acked, dropped, fate, unknownACK, notifyVars,
                   countVars, stopRequested, connVars, sendMsg>>

SendDone(s) ==
    /\ sendPc' = [sendPc EXCEPT ![s] = "idle"]
    /\ sendMsg' = [sendMsg EXCEPT ![s] = Nil]

\* The message is counted only if a writer took the notification.
SendNotify(s) ==
    /\ sendPc[s] = "notify"
    /\ \/ /\ availableToSendTo /\ notificationFunc # Nil
          /\ Alive(notificationFunc)
          /\ Trigger(notificationFunc)
          /\ sendPc' = [sendPc EXCEPT ![s] = "count"]
          /\ UNCHANGED <<notifyVars, serviceKnows, counter, stopped, sendMsg>>
       \/ /\ availableToSendTo /\ notificationFunc # Nil
          /\ ~Alive(notificationFunc)
          /\ Deregister
          /\ SendDone(s)
          /\ UNCHANGED <<currentlySending, writer>>
       \/ /\ ~(availableToSendTo /\ notificationFunc # Nil)
          /\ availableToSendTo' = FALSE
          /\ SendDone(s)
          /\ UNCHANGED <<notificationFunc, serviceKnows, counter, stopped,
                         currentlySending, writer>>
    /\ UNCHANGED <<queueVars, trackedQueueSize, stopRequested, conn, killed, writing, wire>>

SendCount(s) ==
    /\ sendPc[s] = "count"
    /\ trackedQueueSize' = trackedQueueSize + 1
    /\ sendPc' = [sendPc EXCEPT ![s] = "service"]
    /\ UNCHANGED <<queueVars, notifyVars, serviceKnows, counter, stopped, stopRequested,
                   connVars, sendMsg>>

SendService(s) ==
    /\ sendPc[s] = "service"
    /\ counter' = IF serviceKnows THEN counter + 1 ELSE counter
    /\ SendDone(s)
    /\ UNCHANGED <<queueVars, notifyVars, trackedQueueSize, serviceKnows, stopped,
                   stopRequested, connVars>>

SendStep(s) == SendQueue(s) \/ SendNotify(s) \/ SendCount(s) \/ SendService(s)

-----------------------------------------------------------------------------
(* A connection comes up                                                   *)

\* The TCPConnection exists; its coroutine writes the initiator message.
Open(c) ==
    /\ IoFree
    /\ conn[c] = "none"
    /\ conn' = [conn EXCEPT ![c] = "open"]
    /\ writer' = [writer EXCEPT ![c] = "initiator"]
    /\ UNCHANGED <<queueVars, notifyVars, countVars, stopRequested, killed,
                   currentlySending, writing, wire, sendVars>>

InitiatorWritten(c) ==
    /\ IoFree
    /\ writer[c] = "initiator"
    /\ writer' = [writer EXCEPT ![c] = "loop"]
    /\ UNCHANGED <<queueVars, notifyVars, countVars, stopRequested, conn, killed,
                   currentlySending, writing, wire, sendVars>>

\* Faulty variant: a second connection does not end the one it replaces.
Overtakes_Silently(c) == FALSE

\* The arbitration of registerNotificationCB: a second connection is refused,
\* or overtakes the first one if that was not used yet.
Refused(c) ==
    \/ dropped
    \/ /\ notificationFunc # Nil
       /\ (c \in Initiator) = Greater => acked

Overtakes(c) == ~Refused(c) /\ notificationFunc # Nil

\* handleInitiatorMessage with registerNotificationCB.  A refused connection
\* never learns of the queue, and ends.
Refuse(c) ==
    /\ IoFree
    /\ conn[c] = "open" /\ Refused(c)
    /\ conn' = [conn EXCEPT ![c] = "dead"]
    /\ writer' = [writer EXCEPT ![c] = "none"]
    /\ UNCHANGED <<queueVars, notifyVars, countVars, stopRequested, killed,
                   currentlySending, writing, wire, sendVars>>

\* The writers that registering c sets going: the one that was overtaken, to
\* end, and its own, if entries are waiting already.
Woken(c) ==
    {d \in Conn \ currentlySending :
        \/ d = c /\ queued # <<>>
        \/ Overtakes(c) /\ d = notificationFunc /\ Alive(d)}

Register(c) ==
    /\ IoFree
    /\ conn[c] = "open" /\ ~Refused(c)
    /\ conn' = [conn EXCEPT ![c] = "up"]
    /\ killed' = IF Overtakes(c) /\ Alive(notificationFunc)
                   THEN killed \cup {notificationFunc} ELSE killed
    /\ currentlySending' = currentlySending \cup Woken(c)
    /\ writer' = [d \in Conn |-> IF d \in Woken(c) THEN "loop" ELSE writer[d]]
    /\ notificationFunc' = c
    /\ availableToSendTo' = TRUE
    /\ IF trackedQueueSize # 0 /\ ~Overtakes(c) /\ ~serviceKnows
         THEN serviceKnows' = TRUE /\ counter' = counter + trackedQueueSize
         ELSE UNCHANGED <<serviceKnows, counter>>
    /\ UNCHANGED <<queueVars, trackedQueueSize, stopped, stopRequested, writing, wire,
                   sendVars>>

-----------------------------------------------------------------------------
(* The writeHandler coroutine                                              *)

\* The top of its loop.  A killed connection sends its end packet past the
\* queue and never writes again.
WriterLoop(c) ==
    /\ IoFree
    /\ writer[c] = "loop"
    /\ \/ /\ c \in killed
          /\ writer' = [writer EXCEPT ![c] = "ended"]
          /\ UNCHANGED writing
       \/ /\ c \notin killed
          /\ conn[c] = "open" \/ queued = <<>>
          /\ writer' = [writer EXCEPT ![c] = "clear"]
          /\ UNCHANGED writing
       \/ /\ c \notin killed
          /\ conn[c] = "up" /\ queued # <<>>
          /\ writer' = [writer EXCEPT ![c] = "header"]
          /\ writing' = [writing EXCEPT ![c] = Head(queued)]
    /\ UNCHANGED <<queueVars, notifyVars, countVars, stopRequested, conn, killed,
                   currentlySending, wire, sendVars>>

\* Faulty variant: the flag stays set.
WriterClear_KeepsFlag(c) ==
    /\ writer[c] = "clear"
    /\ writer' = [writer EXCEPT ![c] = "yield"]
    /\ UNCHANGED <<queueVars, notifyVars, countVars, stopRequested, conn, killed,
                   currentlySending, writing, wire, sendVars>>

\* The queue was seen empty; only now the flag is cleared.
WriterClear(c) ==
    /\ writer[c] = "clear"
    /\ currentlySending' = currentlySending \ {c}
    /\ writer' = [writer EXCEPT ![c] = "yield"]
    /\ UNCHANGED <<queueVars, notifyVars, countVars, stopRequested, conn, killed, writing,
                   wire, sendVars>>

\* Faulty variant: the entry is not kept for its ACK.
Pop_Forgets ==
    /\ queued' = Tail(queued)
    /\ UNCHANGED <<waitingForACK, trackedQueueSize, counter, stopped>>

\* popFromQueued
Pop ==
    /\ queued' = Tail(queued)
    /\ IF Tracked(Head(queued))
         THEN /\ waitingForACK' = waitingForACK \cup {Head(queued)}
              /\ trackedQueueSize' = trackedQueueSize - 1
              /\ IF serviceKnows THEN RemoveFromCounter(1)
                                 ELSE UNCHANGED <<counter, stopped>>
         ELSE UNCHANGED <<waitingForACK, trackedQueueSize, counter, stopped>>

\* The queue was cleared under a writer that nobody told to end: front() and
\* popFromQueued of the empty queue are undefined, and the writer is not
\* followed any further.
Lost(c) == c \notin killed /\ queued = <<>>

\* The header has been written.  The handler looks at the front again.
HeaderWritten(c) ==
    /\ IoFree
    /\ writer[c] = "header" /\ ~Lost(c)
    /\ \/ /\ c \in killed
          /\ writer' = [writer EXCEPT ![c] = "loop"]
          /\ writing' = [writing EXCEPT ![c] = Nil]
          /\ UNCHANGED <<queued, waitingForACK, trackedQueueSize, counter, stopped>>
       \/ /\ c \notin killed /\ Tracked(Head(queued))
          /\ writer' = [writer EXCEPT ![c] = "body"]
          /\ writing' = [writing EXCEPT ![c] = Head(queued)]
          /\ UNCHANGED <<queued, waitingForACK, trackedQueueSize, counter, stopped>>
       \/ /\ c \notin killed /\ ~Tracked(Head(queued))
          /\ Pop
          /\ writer' = [writer EXCEPT ![c] = "loop"]
          /\ writing' = [writing EXCEPT ![c] = Nil]
    /\ UNCHANGED <<acked, dropped, fate, unknownACK, notifyVars, serviceKnows, stopRequested,
                   conn, killed, currentlySending, wire, sendVars>>

\* The body has been written, so the remote will see the message.  A killed
\* connection leaves the entry to its successor.
BodyWritten(c) ==
    /\ IoFree
    /\ writer[c] = "body" /\ ~Lost(c)
    /\ wire' = [wire EXCEPT ![c] = @ \cup {writing[c]}]
    /\ IF c \in killed
         THEN UNCHANGED <<queued, waitingForACK, trackedQueueSize, counter, stopped>>
         ELSE Pop
    /\ writer' = [writer EXCEPT ![c] = "loop"]
    /\ writing' = [writing EXCEPT ![c] = Nil]
    /\ UNCHANGED <<acked, dropped, fate, unknownACK, notifyVars, serviceKnows, stopRequested,
                   conn, killed, currentlySending, sendVars>>

\* A keepalive (the timer of an idle writer) or an ACK for the remote: queued
\* and notified like any message, but never counted.
SendUntracked(c) ==
    /\ IoFree
    /\ conn[c] = "up" /\ ~dropped
    /\ Untracked \notin Range(queued)
    /\ queued' = Append(queued, Untracked)
    /\ IF availableToSendTo /\ notificationFunc # Nil
         THEN Trigger(notificationFunc) /\ UNCHANGED availableToSendTo
         ELSE availableToSendTo' = FALSE /\ UNCHANGED <<currentlySending, writer>>
    /\ UNCHANGED <<waitingForACK, acked, dropped, fate, unknownACK, notificationFunc,
                   countVars, stopRequested, conn, killed, writing, wire, sendVars>>

-----------------------------------------------------------------------------
(* The read side, as far as it touches the queue                           *)

\* A connection that ends takes its coroutine and its socket with it; the
\* State of one that was registered is destructed next.
End(c) ==
    /\ conn' = [conn EXCEPT ![c] = IF @ = "up" THEN "dying" ELSE "dead"]
    /\ writer' = [writer EXCEPT ![c] = "none"]
    /\ writing' = [writing EXCEPT ![c] = Nil]

\* The remote acknowledges a message; handleACK.  The reader of a killed
\* connection ends after the packet.
ReceiveACK(c) ==
    /\ IoFree
    /\ conn[c] = "up"
    /\ \E m \in wire[c] :
         /\ wire' = [wire EXCEPT ![c] = @ \ {m}]
         /\ IF m \in waitingForACK
              THEN /\ waitingForACK' = waitingForACK \ {m}
                   /\ fate' = [fate EXCEPT ![m] = "acknowledged"]
                   /\ acked' = TRUE
                   /\ UNCHANGED unknownACK
              ELSE unknownACK' = TRUE /\ UNCHANGED <<waitingForACK, fate, acked>>
    /\ IF c \in killed THEN End(c) ELSE UNCHANGED <<conn, writer, writing>>
    /\ UNCHANGED <<queued, dropped, notifyVars, countVars, stopRequested, killed,
                   currentlySending, sendVars>>

\* End of file, an error, a read timeout or an end packet from the remote; a
\* remote that is sent an end packet always closes.
ConnectionEnds(c) ==
    /\ IoFree
    /\ Alive(c)
    /\ MayFail \/ c \in killed
    /\ End(c)
    /\ wire' = [wire EXCEPT ![c] = {}]
    /\ UNCHANGED <<queueVars, notifyVars, countVars, stopRequested, killed,
                   currentlySending, sendVars>>

\* TCPConnection::State::~State
Destruct(c) ==
    /\ conn[c] = "dying"
    /\ conn' = [conn EXCEPT ![c] = "dead"]
    /\ wire' = [wire EXCEPT ![c] = {}]
    /\ IF stopped THEN UNCHANGED <<notifyVars, serviceKnows, counter, stopped>>
                  ELSE Deregister
    /\ UNCHANGED <<queueVars, trackedQueueSize, stopRequested, killed, currentlySending,
                   writer, writing, sendVars>>

-----------------------------------------------------------------------------
(* The tick of the service's timer                                         *)

\* Faulty variant: a message is queued again while its ACK may be on its way.
TickVerdict_Resends(age) == IF age > MessageTimeout \div 2 THEN "resend" ELSE "keep"

\* What tick() decides for a message sent `age` ago: it subtracts the current
\* time from the time of sending.
TickVerdict(age) ==
    LET dur == 0 - age
    IN  IF dur > MessageTimeout \div 2 THEN "resend"
        ELSE IF dur > MessageTimeout THEN "timeout" ELSE "keep"

Of(verdict, age) == {m \in waitingForACK : TickVerdict(age[m]) = verdict}

Tick ==
    /\ IoFree
    /\ \E age \in [waitingForACK -> 0..2 * MessageTimeout] :
         /\ \E resent \in Bijection(1..Cardinality(Of("resend", age)), Of("resend", age)) :
              queued' = queued \o resent
         /\ waitingForACK' = Of("keep", age)
         /\ fate' = [m \in Msg |-> IF m \in Of("timeout", age) THEN "failed" ELSE fate[m]]
         /\ trackedQueueSize' = trackedQueueSize - Cardinality(Of("timeout", age))
         /\ IF serviceKnows /\ Of("timeout", age) # {}
              THEN RemoveFromCounter(Cardinality(Of("timeout", age)))
              ELSE UNCHANGED <<counter, stopped>>
    /\ UNCHANGED <<acked, dropped, unknownACK, notifyVars, serviceKnows, stopRequested,
                   connVars, sendVars>>

\* Nothing was heard for the connection timeout: the connection is killed,
\* and clear() fails every entry.
TickDrop ==
    /\ IoFree
    /\ MayDrop /\ ~dropped
    /\ killed' = IF notificationFunc \in Conn /\ Alive(notificationFunc)
                   THEN killed \cup {notificationFunc} ELSE killed
    /\ IF notificationFunc \in Conn /\ Alive(notificationFunc)
         THEN Trigger(notificationFunc)
         ELSE UNCHANGED <<currentlySending, writer>>
    /\ IF notificationFunc # Nil
         THEN Deregister
         ELSE UNCHANGED <<notifyVars, serviceKnows, counter, stopped>>
    /\ fate' = [m \in Msg |-> IF m \in Range(queued) \cup waitingForACK
                                THEN "failed" ELSE fate[m]]
    /\ trackedQueueSize' =
         trackedQueueSize - Cardinality({i \in 1..Len(queued) : Tracked(queued[i])})
    /\ queued' = <<>> /\ waitingForACK' = {}
    /\ dropped' = TRUE
    /\ UNCHANGED <<acked, unknownACK, stopRequested, conn, writing, wire, sendVars>>

\* Service::requestStop
RequestStop ==
    /\ MayStop /\ ~stopRequested
    /\ stopRequested' = TRUE
    /\ stopped' = (stopped \/ counter = 0)
    /\ UNCHANGED <<queueVars, notifyVars, trackedQueueSize, serviceKnows, counter,
                   connVars, sendVars>>

-----------------------------------------------------------------------------
WriteStep(c) ==
    InitiatorWritten(c) \/ WriterLoop(c) \/ WriterClear(c) \/ HeaderWritten(c)
    \/ BodyWritten(c)

ConnStep(c) == Refuse(c) \/ Register(c) \/ ReceiveACK(c) \/ Destruct(c)

Next ==
    \/ \E s \in Sender : SendStart(s) \/ SendStep(s)
    \/ \E c \in Conn : Open(c) \/ WriteStep(c) \/ ConnStep(c) \/ SendUntracked(c)
                       \/ ConnectionEnds(c)
    \/ Tick \/ TickDrop \/ RequestStop

Spec == Init /\ [][Next]_vars

\* Every thread runs, sockets make progress, the remote answers what it got,
\* and the timers fire.  Nobody has to call send, and nothing has to break.
\* The I/O thread takes ready handlers in the order they became ready: one
\* that is ready again and again whenever the thread is free is run.  With no
\* connection nothing is heard of the remote, and the queue is dropped.
Fairness ==
    /\ \A s \in Sender : WF_vars(SendStep(s))
    /\ \A c \in Conn : /\ SF_vars(WriteStep(c))
                       /\ SF_vars(ConnStep(c))
                       /\ SF_vars(SendUntracked(c))
                       /\ SF_vars(ConnectionEnds(c) /\ c \in killed)
    /\ SF_vars(Tick)
    /\ WF_vars(TickDrop /\ \A c \in Conn : conn[c] # "up")

FairSpec == Spec /\ Fairness

-----------------------------------------------------------------------------
(* Properties                                                              *)

\* Every variable keeps its type.
TypeOK ==
    /\ queued \in Seq(Entry)
    /\ waitingForACK \subseteq Msg
    /\ notificationFunc \in Conn \cup {Nil}
    /\ {availableToSendTo, acked, dropped, serviceKnows, stopRequested, stopped,
        unknownACK} \subseteq BOOLEAN
    /\ trackedQueueSize \in Int /\ counter \in Int
    /\ conn \in [Conn -> {"none", "open", "up", "dying", "dead"}]
    /\ killed \subseteq Conn /\ currentlySending \subseteq Conn
    /\ writer \in [Conn -> {"none", "initiator", "loop", "clear", "yield", "header", "body",
                            "ended"}]
    /\ writing \in [Conn -> Entry \cup {Nil}]
    /\ wire \in [Conn -> SUBSET Msg]
    /\ sendPc \in [Sender -> {"idle", "queue", "notify", "count", "service"}]
    /\ sendMsg \in [Sender -> Msg \cup {Nil}]
    /\ fate \in [Msg -> {"unsent", "swallowed", "pending", "acknowledged", "failed"}]

\* No counted message is in q twice.
Distinct(q) == \A i, j \in 1..Len(q) : q[i] \in Msg /\ q[i] = q[j] => i = j

\* Sender s is between the first check of send() and queueing m.
Holds(s, m) == sendPc[s] = "queue" /\ sendMsg[s] = m

\* Between the first check of send() and its end of life a message is in
\* exactly one place: with its sender, queued, or waiting for its ACK.  So no
\* connection loss, overtaking or drop loses an entry or reports it twice.
Conserved ==
    /\ Distinct(queued)
    /\ \A s, r \in Sender, m \in Msg : Holds(s, m) /\ Holds(r, m) => s = r
    /\ \A m \in Msg :
         /\ m \in Range(queued) => m \notin waitingForACK
         /\ \A s \in Sender : Holds(s, m) => m \notin Range(queued) \cup waitingForACK
         /\ fate[m] = "pending" <=>
              m \in Range(queued) \cup waitingForACK \/ \E s \in Sender : Holds(s, m)

\* While connections only follow one another, an ACK that arrives finds its
\* message waiting, also when its predecessor broke half-way (handleACK uses
\* the entry it looks up without a check).  A connection that is told to end
\* may still get an ACK for an entry it left to its successor.
ACKsAreExpected == unknownACK => dropped \/ killed # {}

\* Two connections never write from the front of the queue at the same time
\* unless the older one was told to end, as long as no connection that was told
\* to end is gone: its destructor deregisters whichever connection is
\* registered, so the next one registers without ending that one.
OneWriter ==
    \A c, d \in Conn \ killed :
        writer[c] \in {"header", "body"} /\ writer[d] \in {"header", "body"} =>
            c = d \/ \E k \in killed : ~Alive(k)

\* A message that is queued while a connection is registered reaches the
\* remote over it and is acknowledged, although its sender may find the writer
\* awake that is about to sleep (a keepalive wakes the writer again), unless
\* the connection ends, is overtaken or deregistered.
Delivered ==
    \A m \in Msg, c \in Conn :
        (m \in Range(queued) /\ conn[c] = "up" /\ notificationFunc = c)
          ~> (\/ fate[m] = "acknowledged"
              \/ conn[c] # "up" \/ notificationFunc # c \/ stopped)

\* A message that was sent is acknowledged or marked as failed in the end,
\* also when its connection is lost.
MessageEnds ==
    \A m \in Msg : (m \in waitingForACK) ~> (fate[m] \in {"acknowledged", "failed"})

\* The buffer a connection writes from belongs to an entry of the queue: the
\* reference front() returned is not used after popFromQueued.
EntryRefValid ==
    \A c \in Conn : writing[c] # Nil => writing[c] \in Range(queued)

\* A connection that registered its callback, was not overtaken and still
\* lives is the one that is notified.
RegisteredIsNotified ==
    \A c \in Conn : conn[c] = "up" /\ c \notin killed => notificationFunc = c

\* A service that is asked to stop stops.
ServiceStops == stopRequested ~> stopped

=============================================================================
