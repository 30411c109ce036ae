----------------------- MODULE MessageSendQueue_proofs -----------------------
(***************************************************************************)
(* The send queue, for every number of messages, senders and connections:  *)
(* entries are conserved, unkilled writers exclude one another, and ACKs   *)
(* find their message.                                                     *)
(***************************************************************************)
EXTENDS MessageSendQueue, FiniteSetTheorems, TLAPS

\* The types the argument needs, and what a writer and a sender hold.
QueueTypes ==
    /\ queued \in Seq(Entry)
    /\ waitingForACK \subseteq Msg
    /\ notificationFunc \in Conn \cup {Nil}
    /\ conn \in [Conn -> {"none", "open", "up", "dying", "dead"}]
    /\ killed \subseteq Conn
    /\ currentlySending \subseteq Conn
    /\ writer \in [Conn -> {"none", "initiator", "loop", "clear", "yield", "header", "body",
                            "ended"}]
    /\ writing \in [Conn -> Entry \cup {Nil}]
    /\ wire \in [Conn -> SUBSET Msg]
    /\ sendPc \in [Sender -> {"idle", "queue", "notify", "count", "service"}]
    /\ sendMsg \in [Sender -> Msg \cup {Nil}]
    /\ fate \in [Msg -> {"unsent", "swallowed", "pending", "acknowledged", "failed"}]
    /\ \A c \in Conn : writer[c] = "body" => writing[c] \in Msg
    /\ \A s \in Sender : sendPc[s] = "queue" => sendMsg[s] \in Msg

KilledGone == \E k \in killed : ~Alive(k)

\* Only a registered connection writes, and until a connection that was told
\* to end is gone, an unkilled one is the connection the queue notifies.
Registered ==
    /\ \A c \in killed : conn[c] # "none"
    /\ \A c \in Conn : writer[c] \in {"header", "body"} => conn[c] = "up"
    /\ \A c \in Conn \ killed :
         /\ conn[c] = "up" => KilledGone \/ notificationFunc = c
         /\ conn[c] = "dying" => KilledGone \/ notificationFunc \in {c, Nil}

\* As long as nothing was dropped or told to end: what is on a wire waits for
\* its ACK, no two wires carry the same message, and the body being written
\* is that of the front of the queue.
Expected ==
    /\ \A c \in Conn : wire[c] \subseteq waitingForACK
    /\ \A c, d \in Conn : c # d => \A m \in wire[c] : m \notin wire[d]
    /\ \A c \in Conn : writer[c] = "body" => queued # <<>> /\ writing[c] = Head(queued)

Undisturbed == ~dropped /\ killed = {}

ACKInv == Undisturbed => unknownACK = FALSE /\ Expected

Inv == QueueTypes /\ Conserved /\ Registered /\ ACKInv

-----------------------------------------------------------------------------
(* Sequences                                                               *)

\* Appending an entry adds it to the range, and keeps counted messages
\* distinct if it is new (SendQueue and SendUntracked append).
LEMMA AppendFacts ==
    ASSUME NEW q \in Seq(Entry), NEW e \in Entry
    PROVE  /\ Append(q, e) \in Seq(Entry)
           /\ Append(q, e) # <<>>
           /\ q # <<>> => Head(Append(q, e)) = Head(q)
           /\ Range(Append(q, e)) = Range(q) \cup {e}
           /\ Distinct(q) /\ e \notin Msg \cap Range(q) => Distinct(Append(q, e))
<1>1. /\ Len(q) \in Nat /\ DOMAIN q = 1..Len(q)
      /\ Len(Append(q, e)) = Len(q) + 1
      /\ DOMAIN Append(q, e) = 1..(Len(q) + 1)
      /\ \A i \in 1..Len(q) : Append(q, e)[i] = q[i]
      /\ Append(q, e)[Len(q) + 1] = e
  OBVIOUS
<1>2. Append(q, e) \in Seq(Entry) /\ Append(q, e) # <<>>
  <2>1. Append(q, e) \in Seq(Entry)
    OBVIOUS
  <2>2. Append(q, e) # <<>>
    BY <1>1
  <2>3. QED
    BY <2>1, <2>2
<1>3. q # <<>> => Head(Append(q, e)) = Head(q)
  OBVIOUS
<1>4. Range(Append(q, e)) = Range(q) \cup {e}
  BY <1>1 DEF Range
<1>5. ASSUME Distinct(q), e \notin Msg \cap Range(q)
      PROVE  Distinct(Append(q, e))
  BY <1>1, <1>5 DEF Distinct, Range
<1>6. QED
  BY <1>2, <1>3, <1>4, <1>5

\* Popping the front takes it out of the range, if it was counted for good.
LEMMA TailFacts ==
    ASSUME NEW q \in Seq(Entry), q # <<>>
    PROVE  /\ Tail(q) \in Seq(Entry)
           /\ Head(q) \in Entry
           /\ Range(q) = Range(Tail(q)) \cup {Head(q)}
           /\ Distinct(q) => Distinct(Tail(q))
           /\ Distinct(q) /\ Head(q) \in Msg => Head(q) \notin Range(Tail(q))
<1>1. /\ Len(q) \in Nat /\ Len(q) > 0 /\ DOMAIN q = 1..Len(q)
      /\ Len(Tail(q)) = Len(q) - 1
      /\ DOMAIN Tail(q) = 1..(Len(q) - 1)
      /\ \A i \in 1..(Len(q) - 1) : Tail(q)[i] = q[i + 1]
      /\ Head(q) = q[1]
      /\ Tail(q) \in Seq(Entry) /\ Head(q) \in Entry
  OBVIOUS
<1>2. Range(q) = Range(Tail(q)) \cup {Head(q)}
  <2>1. ASSUME NEW i \in 1..Len(q) PROVE q[i] \in Range(Tail(q)) \cup {Head(q)}
    <3>1. CASE i = 1
      BY <1>1, <3>1
    <3>2. CASE i # 1
      <4>1. i - 1 \in 1..(Len(q) - 1) /\ Tail(q)[i - 1] = q[i]
        BY <1>1, <3>2
      <4>2. QED
        BY <1>1, <4>1, Zenon DEF Range
    <3>3. QED
      BY <3>1, <3>2
  <2>2. ASSUME NEW i \in 1..(Len(q) - 1) PROVE Tail(q)[i] \in Range(q)
    <3>1. i + 1 \in 1..Len(q) /\ Tail(q)[i] = q[i + 1]
      BY <1>1
    <3>2. QED
      BY <1>1, <3>1 DEF Range
  <2>3. Head(q) \in Range(q)
    BY <1>1 DEF Range
  <2>4. QED
    BY <1>1, <2>1, <2>2, <2>3 DEF Range
<1>3. ASSUME Distinct(q) PROVE Distinct(Tail(q))
  BY <1>1, <1>3 DEF Distinct
<1>4. ASSUME Distinct(q), Head(q) \in Msg PROVE Head(q) \notin Range(Tail(q))
  BY <1>1, <1>4 DEF Distinct, Range
<1>5. QED
  BY <1>1, <1>2, <1>3, <1>4

\* tick() resends, times out and forgets nothing: the age it computes is
\* never positive.
LEMMA TickKeeps ==
    ASSUME QueueTypes, Tick
    PROVE  /\ queued' = queued /\ waitingForACK' = waitingForACK /\ fate' = fate
           /\ UNCHANGED <<dropped, unknownACK, notifyVars, connVars, sendVars>>
<1>1. PICK age \in [waitingForACK -> 0..2 * MessageTimeout] :
         /\ \E resent \in Bijection(1..Cardinality(Of("resend", age)), Of("resend", age)) :
              queued' = queued \o resent
         /\ waitingForACK' = Of("keep", age)
         /\ fate' = [m \in Msg |-> IF m \in Of("timeout", age) THEN "failed" ELSE fate[m]]
  BY DEF Tick
<1>2. \A m \in waitingForACK : TickVerdict(age[m]) = "keep"
  <2>1. MessageTimeout \in Nat /\ MessageTimeout \div 2 \in Int /\ MessageTimeout \div 2 >= 0
    BY QueueAssumption
  <2>2. QED
    BY <2>1 DEF TickVerdict
<1>3. Of("resend", age) = {} /\ Of("timeout", age) = {} /\ Of("keep", age) = waitingForACK
  BY <1>2 DEF Of
<1>4. PICK resent \in Bijection(1..Cardinality({}), {}) : queued' = queued \o resent
  BY <1>1, <1>3
<1>5. queued' = queued
  <2>1. Cardinality({}) = 0 /\ 1..0 = {}
    BY FS_EmptySet
  <2>2. resent \in [1..0 -> {}]
    BY <2>1 DEF Bijection, Injection, Surjection
  <2>3. resent = <<>>
    BY <2>2
  <2>4. queued' = queued \o <<>> /\ queued \in Seq(Entry)
    BY <1>4, <2>3 DEF QueueTypes
  <2>5. \A q \in Seq(Entry) : q \o <<>> = q
    OBVIOUS
  <2>6. QED
    BY <2>4, <2>5
<1>6. fate' = fate
  BY <1>1, <1>3 DEF QueueTypes
<1>7. UNCHANGED <<dropped, unknownACK, notifyVars, connVars, sendVars>>
  BY DEF Tick
<1>8. QED
  BY <1>1, <1>3, <1>5, <1>6, <1>7

-----------------------------------------------------------------------------
(* Types                                                                   *)

\* conditionallyTriggerWriteHandler only sends writers to their loop.
LEMMA TriggerFacts ==
    ASSUME QueueTypes, NEW c \in Conn, Trigger(c)
    PROVE  /\ writer' \in [Conn -> {"none", "initiator", "loop", "clear", "yield", "header",
                                    "body", "ended"}]
           /\ currentlySending' \subseteq Conn
           /\ \A d \in Conn : writer'[d] \in {writer[d], "loop"}
BY DEF QueueTypes, Trigger

\* popFromQueued takes the front of the queue, to the entries waiting for
\* their ACK if it is counted.
LEMMA PopFacts ==
    ASSUME QueueTypes, queued # <<>>, Pop
    PROVE  /\ queued' = Tail(queued) /\ queued' \in Seq(Entry)
           /\ waitingForACK' \subseteq Msg
           /\ waitingForACK' = waitingForACK \cup (Msg \cap {Head(queued)})
BY TailFacts DEF QueueTypes, Pop, Tracked

\* Every step of a sender keeps the types.
LEMMA SenderTypes ==
    ASSUME QueueTypes, NEW s \in Sender, SendStart(s) \/ SendStep(s)
    PROVE  QueueTypes'
<1> USE DEF queueVars, notifyVars, countVars, connVars, sendVars
<1>1. CASE SendStart(s)
  BY <1>1 DEF QueueTypes, SendStart
<1>2. CASE SendQueue(s)
  <2>1. sendMsg[s] \in Entry /\ queued' = Append(queued, sendMsg[s])
    BY <1>2 DEF SendQueue, QueueTypes, Entry
  <2>2. queued' \in Seq(Entry)
    BY <2>1, AppendFacts DEF QueueTypes
  <2>3. QED
    BY <1>2, <2>2 DEF QueueTypes, SendQueue
<1>3. CASE SendNotify(s)
  <2>1. notificationFunc' \in Conn \cup {Nil}
    BY <1>3 DEF SendNotify, Deregister, QueueTypes
  <2>2. /\ writer' \in [Conn -> {"none", "initiator", "loop", "clear", "yield", "header",
                                 "body", "ended"}]
        /\ currentlySending' \subseteq Conn
        /\ \A d \in Conn : writer'[d] \in {writer[d], "loop"}
    BY <1>3, TriggerFacts DEF SendNotify, QueueTypes
  <2>3. /\ sendPc' \in [Sender -> {"idle", "queue", "notify", "count", "service"}]
        /\ sendMsg' \in [Sender -> Msg \cup {Nil}]
        /\ \A r \in Sender : sendPc'[r] = "queue" => sendMsg'[r] \in Msg
    BY <1>3 DEF SendNotify, SendDone, QueueTypes
  <2>4. UNCHANGED <<queued, waitingForACK, fate, conn, killed, writing, wire>>
    BY <1>3 DEF SendNotify
  <2>5. QED
    BY <2>1, <2>2, <2>3, <2>4 DEF QueueTypes
<1>4. CASE SendCount(s)
  BY <1>4 DEF QueueTypes, SendCount
<1>5. CASE SendService(s)
  BY <1>5 DEF QueueTypes, SendService, SendDone
<1>6. QED
  BY <1>1, <1>2, <1>3, <1>4, <1>5 DEF SendStep

\* Every step of a writer keeps the types.
LEMMA WriterTypes ==
    ASSUME QueueTypes, NEW c \in Conn, WriteStep(c)
    PROVE  QueueTypes'
<1> USE DEF queueVars, notifyVars, countVars, connVars, sendVars
<1>1. CASE InitiatorWritten(c)
  BY <1>1 DEF QueueTypes, InitiatorWritten
<1>2. CASE WriterLoop(c)
  <2>1. queued # <<>> => Head(queued) \in Entry
    BY TailFacts DEF QueueTypes
  <2>2. QED
    BY <1>2, <2>1 DEF QueueTypes, WriterLoop
<1>3. CASE WriterClear(c)
  BY <1>3 DEF QueueTypes, WriterClear
<1>4. CASE HeaderWritten(c)
  <2>1. /\ writer' \in [Conn -> {"none", "initiator", "loop", "clear", "yield", "header",
                                 "body", "ended"}]
        /\ writing' \in [Conn -> Entry \cup {Nil}]
        /\ \A d \in Conn : writer'[d] = "body" => writing'[d] \in Msg
    BY <1>4 DEF HeaderWritten, QueueTypes, Tracked, Entry
  <2>2. queued' \in Seq(Entry) /\ waitingForACK' \subseteq Msg
    BY <1>4, PopFacts DEF HeaderWritten, QueueTypes, Lost
  <2>3. QED
    BY <1>4, <2>1, <2>2 DEF HeaderWritten, QueueTypes
<1>5. CASE BodyWritten(c)
  <2>1. queued' \in Seq(Entry) /\ waitingForACK' \subseteq Msg
    BY <1>5, PopFacts DEF BodyWritten, QueueTypes, Lost
  <2>2. wire' \in [Conn -> SUBSET Msg]
    BY <1>5 DEF BodyWritten, QueueTypes
  <2>3. QED
    BY <1>5, <2>1, <2>2 DEF BodyWritten, QueueTypes
<1>6. QED
  BY <1>1, <1>2, <1>3, <1>4, <1>5 DEF WriteStep

\* Opening, registering and ending a connection keeps the types.
LEMMA ConnectionTypes ==
    ASSUME QueueTypes, NEW c \in Conn,
           Open(c) \/ ConnStep(c) \/ SendUntracked(c) \/ ConnectionEnds(c)
    PROVE  QueueTypes'
<1> USE DEF queueVars, notifyVars, countVars, connVars, sendVars
<1>1. CASE Open(c)
  BY <1>1 DEF QueueTypes, Open
<1>2. CASE Refuse(c)
  BY <1>2 DEF QueueTypes, Refuse
<1>3. CASE Register(c)
  <2>1. Woken(c) \subseteq Conn
    BY DEF Woken
  <2>2. /\ writer' \in [Conn -> {"none", "initiator", "loop", "clear", "yield", "header",
                                 "body", "ended"}]
        /\ \A d \in Conn : writer'[d] \in {writer[d], "loop"}
    BY <1>3 DEF Register, QueueTypes
  <2>3. killed' \subseteq Conn /\ currentlySending' \subseteq Conn
    BY <1>3, <2>1 DEF Register, Overtakes, QueueTypes
  <2>4. QED
    BY <1>3, <2>2, <2>3 DEF Register, QueueTypes
<1>4. CASE ReceiveACK(c)
  <2>1. /\ waitingForACK' \subseteq Msg
        /\ wire' \in [Conn -> SUBSET Msg]
        /\ fate' \in [Msg -> {"unsent", "swallowed", "pending", "acknowledged", "failed"}]
    BY <1>4 DEF ReceiveACK, QueueTypes
  <2>2. /\ conn' \in [Conn -> {"none", "open", "up", "dying", "dead"}]
        /\ writer' \in [Conn -> {"none", "initiator", "loop", "clear", "yield", "header",
                                 "body", "ended"}]
        /\ writing' \in [Conn -> Entry \cup {Nil}]
        /\ \A d \in Conn : writer'[d] = "body" => writing'[d] \in Msg
    BY <1>4 DEF ReceiveACK, End, QueueTypes
  <2>3. QED
    BY <1>4, <2>1, <2>2 DEF ReceiveACK, QueueTypes
<1>5. CASE Destruct(c)
  <2>1. notificationFunc' \in Conn \cup {Nil}
    BY <1>5 DEF Destruct, Deregister, QueueTypes
  <2>2. QED
    BY <1>5, <2>1 DEF Destruct, QueueTypes
<1>6. CASE SendUntracked(c)
  <2>1. queued' \in Seq(Entry)
    BY <1>6, AppendFacts DEF SendUntracked, QueueTypes, Entry
  <2>2. /\ writer' \in [Conn -> {"none", "initiator", "loop", "clear", "yield", "header",
                                 "body", "ended"}]
        /\ currentlySending' \subseteq Conn
        /\ \A d \in Conn : writer'[d] \in {writer[d], "loop"}
    BY <1>6, TriggerFacts DEF SendUntracked, QueueTypes
  <2>3. QED
    BY <1>6, <2>1, <2>2 DEF SendUntracked, QueueTypes
<1>7. CASE ConnectionEnds(c)
  BY <1>7 DEF ConnectionEnds, End, QueueTypes
<1>8. QED
  BY <1>1, <1>2, <1>3, <1>4, <1>5, <1>6, <1>7 DEF ConnStep

\* A tick that drops the queue keeps the types.
LEMMA DropTypes ==
    ASSUME QueueTypes, TickDrop
    PROVE  QueueTypes'
<1>1. /\ writer' \in [Conn -> {"none", "initiator", "loop", "clear", "yield", "header",
                               "body", "ended"}]
      /\ currentlySending' \subseteq Conn
      /\ \A d \in Conn : writer'[d] \in {writer[d], "loop"}
  BY TriggerFacts DEF TickDrop, QueueTypes
<1>2. notificationFunc' \in Conn \cup {Nil} /\ killed' \subseteq Conn
  BY DEF TickDrop, Deregister, QueueTypes, notifyVars
<1>3. fate' \in [Msg -> {"unsent", "swallowed", "pending", "acknowledged", "failed"}]
  BY DEF TickDrop, QueueTypes
<1>4. QED
  BY <1>1, <1>2, <1>3 DEF TickDrop, QueueTypes, sendVars

\* Every step keeps the types.
LEMMA NextTypes ==
    ASSUME QueueTypes, [Next]_vars
    PROVE  QueueTypes'
<1>1. CASE \E s \in Sender : SendStart(s) \/ SendStep(s)
  BY <1>1, SenderTypes
<1>2. CASE \E c \in Conn : WriteStep(c)
  BY <1>2, WriterTypes
<1>3. CASE \E c \in Conn : Open(c) \/ ConnStep(c) \/ SendUntracked(c) \/ ConnectionEnds(c)
  BY <1>3, ConnectionTypes
<1>4. CASE Tick
  BY <1>4, TickKeeps DEF QueueTypes, notifyVars, connVars, sendVars
<1>5. CASE TickDrop
  BY <1>5, DropTypes
<1>6. CASE RequestStop
  BY <1>6 DEF RequestStop, QueueTypes, queueVars, notifyVars, connVars, sendVars
<1>7. CASE UNCHANGED vars
  BY <1>7 DEF vars, QueueTypes, queueVars, notifyVars, connVars, sendVars
<1>8. QED
  BY <1>1, <1>2, <1>3, <1>4, <1>5, <1>6, <1>7 DEF Next

-----------------------------------------------------------------------------
(* Conservation                                                            *)

\* What is not a sender's step, a pop, an ACK or a drop leaves every entry
\* where it is.
LEMMA ConservedFrame ==
    ASSUME Conserved, UNCHANGED <<queued, waitingForACK, sendVars, fate>>
    PROVE  Conserved'
BY DEF Conserved, Holds, sendVars, Distinct

\* Sending a message puts it into one place after the other.
LEMMA SenderConserves ==
    ASSUME QueueTypes, Conserved, NEW s \in Sender, SendStart(s) \/ SendStep(s)
    PROVE  Conserved'
<1> USE DEF queueVars, notifyVars, countVars, connVars, sendVars
<1>1. CASE SendStart(s)
  <2>1. PICK m \in Msg :
          /\ fate[m] = "unsent"
          /\ fate' = [fate EXCEPT ![m] = IF dropped THEN "swallowed" ELSE "pending"]
          /\ sendMsg' = [sendMsg EXCEPT ![s] = IF dropped THEN Nil ELSE m]
    BY <1>1, Zenon DEF SendStart
  <2>2. /\ m \notin Range(queued) \cup waitingForACK
        /\ \A r \in Sender : ~Holds(r, m)
    BY <2>1 DEF Conserved
  <2>3. UNCHANGED <<queued, waitingForACK>>
    BY <1>1 DEF SendStart
  <2>4. CASE dropped
    <3>1. \A r \in Sender, n \in Msg : Holds(r, n)' <=> Holds(r, n)
      BY <1>1, <2>1, <2>4 DEF SendStart, Holds, QueueTypes
    <3>2. \A n \in Msg : fate'[n] = "pending" <=> fate[n] = "pending"
      BY <2>1, <2>4 DEF QueueTypes
    <3>3. QED
      BY <2>3, <3>1, <3>2 DEF Conserved, Distinct
  <2>5. CASE ~dropped
    <3>1. \A r \in Sender, n \in Msg : Holds(r, n)' <=> Holds(r, n) \/ (r = s /\ n = m)
      BY <1>1, <2>1, <2>5 DEF SendStart, Holds, QueueTypes
    <3>2. \A n \in Msg : fate'[n] = "pending" <=> fate[n] = "pending" \/ n = m
      BY <2>1, <2>5 DEF QueueTypes
    <3>3. QED
      BY <2>2, <2>3, <3>1, <3>2 DEF Conserved, Distinct
  <2>6. QED
    BY <2>4, <2>5
<1>2. CASE SendQueue(s)
  <2> DEFINE m == sendMsg[s]
  <2>1. m \in Msg /\ Holds(s, m) /\ m \in Entry
    BY <1>2 DEF SendQueue, QueueTypes, Holds, Entry
  <2>2. \A r \in Sender, n \in Msg : Holds(r, n)' <=> Holds(r, n) /\ r # s
    BY <1>2 DEF SendQueue, Holds, QueueTypes
  <2>3. m \notin Range(queued) \cup waitingForACK
    BY <2>1 DEF Conserved
  <2>4. Range(queued') = Range(queued) \cup {m} /\ Distinct(queued')
    BY <1>2, <2>1, <2>3, AppendFacts DEF SendQueue, QueueTypes, Conserved
  <2>5. \A r \in Sender, n \in Msg : Holds(r, n) /\ n = m => r = s
    BY <2>1 DEF Conserved
  <2>6. \A n \in Msg : Holds(s, n) => n = m
    BY DEF Holds
  <2>7. waitingForACK' = waitingForACK /\ fate' = fate
    BY <1>2 DEF SendQueue
  <2> HIDE DEF m
  <2>8. QED
    BY <2>1, <2>2, <2>3, <2>4, <2>5, <2>6, <2>7 DEF Conserved
<1>3. CASE SendNotify(s) \/ SendCount(s) \/ SendService(s)
  <2>1. \A r \in Sender, n \in Msg : Holds(r, n)' <=> Holds(r, n)
    BY <1>3 DEF SendNotify, SendCount, SendService, SendDone, Holds, QueueTypes
  <2>2. UNCHANGED <<queued, waitingForACK, fate>>
    BY <1>3 DEF SendNotify, SendCount, SendService
  <2>3. QED
    BY <2>1, <2>2 DEF Conserved, Distinct
<1>4. QED
  BY <1>1, <1>2, <1>3 DEF SendStep

\* A pop moves the front to the entries waiting for their ACK.
LEMMA PopConserves ==
    ASSUME QueueTypes, Conserved, queued # <<>>, Pop, UNCHANGED <<sendVars, fate>>
    PROVE  Conserved'
<1>1. /\ queued' = Tail(queued)
      /\ waitingForACK' = waitingForACK \cup (Msg \cap {Head(queued)})
  BY PopFacts
<1>2. /\ Range(queued) = Range(queued') \cup {Head(queued)}
      /\ Distinct(queued')
      /\ Head(queued) \in Msg => Head(queued) \notin Range(queued')
  BY <1>1, TailFacts DEF QueueTypes, Conserved
<1>3. \A r \in Sender, n \in Msg : Holds(r, n)' <=> Holds(r, n)
  BY DEF Holds, sendVars
<1>4. QED
  BY <1>1, <1>2, <1>3 DEF Conserved

\* An ACK ends the life of one waiting message.
LEMMA ACKConserves ==
    ASSUME QueueTypes, Conserved, NEW c \in Conn, ReceiveACK(c)
    PROVE  Conserved'
<1>1. PICK m \in wire[c] :
         IF m \in waitingForACK
           THEN /\ waitingForACK' = waitingForACK \ {m}
                /\ fate' = [fate EXCEPT ![m] = "acknowledged"]
           ELSE UNCHANGED <<waitingForACK, fate>>
  BY DEF ReceiveACK
<1>2. queued' = queued /\ \A r \in Sender, n \in Msg : Holds(r, n)' <=> Holds(r, n)
  BY DEF ReceiveACK, Holds, sendVars
<1>3. CASE m \in waitingForACK
  <2>1. \A n \in Msg : fate'[n] = "pending" <=> fate[n] = "pending" /\ n # m
    BY <1>1, <1>3 DEF QueueTypes
  <2>2. m \in Msg /\ m \notin Range(queued) /\ \A r \in Sender : ~Holds(r, m)
    BY <1>3 DEF Conserved, QueueTypes
  <2>3. QED
    BY <1>1, <1>2, <1>3, <2>1, <2>2 DEF Conserved, Distinct
<1>4. CASE m \notin waitingForACK
  BY <1>1, <1>2, <1>4 DEF Conserved, Distinct
<1>5. QED
  BY <1>3, <1>4

\* clear() fails exactly the entries it takes out.
LEMMA DropConserves ==
    ASSUME QueueTypes, Conserved, TickDrop
    PROVE  Conserved'
<1>1. /\ queued' = <<>> /\ waitingForACK' = {}
      /\ fate' = [m \in Msg |-> IF m \in Range(queued) \cup waitingForACK
                                   THEN "failed" ELSE fate[m]]
  BY DEF TickDrop
<1>2. \A r \in Sender, n \in Msg : Holds(r, n)' <=> Holds(r, n)
  BY DEF TickDrop, Holds, sendVars
<1>3. Range(queued') = {} /\ Distinct(queued')
  BY <1>1 DEF Range, Distinct
<1>4. \A n \in Msg : fate'[n] = "pending" <=>
                       fate[n] = "pending" /\ n \notin Range(queued) \cup waitingForACK
  BY <1>1
<1>5. QED
  BY <1>1, <1>2, <1>3, <1>4 DEF Conserved

\* Every step conserves the messages.
LEMMA NextConserves ==
    ASSUME QueueTypes, Conserved, [Next]_vars
    PROVE  Conserved'
<1> USE DEF queueVars, notifyVars, countVars, connVars, sendVars
<1>1. CASE \E s \in Sender : SendStart(s) \/ SendStep(s)
  BY <1>1, SenderConserves
<1>2. ASSUME NEW c \in Conn, HeaderWritten(c) PROVE Conserved'
  <2>1. CASE c \notin killed /\ ~Tracked(Head(queued))
    <3>1. queued # <<>> /\ Pop /\ UNCHANGED <<sendVars, fate>>
      BY <1>2, <2>1 DEF HeaderWritten, Lost
    <3>2. QED
      BY <3>1, PopConserves
  <2>2. CASE ~(c \notin killed /\ ~Tracked(Head(queued)))
    <3>1. UNCHANGED <<queued, waitingForACK, sendVars, fate>>
      BY <1>2, <2>2 DEF HeaderWritten
    <3>2. QED
      BY <3>1, ConservedFrame
  <2>3. QED
    BY <2>1, <2>2
<1>3. ASSUME NEW c \in Conn, BodyWritten(c) PROVE Conserved'
  <2>1. CASE c \notin killed
    <3>1. queued # <<>> /\ Pop /\ UNCHANGED <<sendVars, fate>>
      BY <1>3, <2>1 DEF BodyWritten, Lost
    <3>2. QED
      BY <3>1, PopConserves
  <2>2. CASE c \in killed
    <3>1. UNCHANGED <<queued, waitingForACK, sendVars, fate>>
      BY <1>3, <2>2 DEF BodyWritten
    <3>2. QED
      BY <3>1, ConservedFrame
  <2>3. QED
    BY <2>1, <2>2
<1>4. ASSUME NEW c \in Conn, ReceiveACK(c) PROVE Conserved'
  BY <1>4, ACKConserves
<1>5. ASSUME NEW c \in Conn, SendUntracked(c) PROVE Conserved'
  <2>1. /\ Range(queued') = Range(queued) \cup {Untracked}
        /\ Distinct(queued')
    BY <1>5, AppendFacts DEF SendUntracked, QueueTypes, Conserved, Entry
  <2>2. UNCHANGED <<waitingForACK, fate>>
        /\ \A r \in Sender, n \in Msg : Holds(r, n)' <=> Holds(r, n)
    BY <1>5 DEF SendUntracked, Holds
  <2>3. Untracked \notin Msg
    BY QueueAssumption
  <2>4. QED
    BY <2>1, <2>2, <2>3 DEF Conserved
<1>6. ASSUME NEW c \in Conn,
             \/ InitiatorWritten(c) \/ WriterLoop(c) \/ WriterClear(c) \/ Open(c)
             \/ Refuse(c) \/ Register(c) \/ Destruct(c) \/ ConnectionEnds(c)
      PROVE  Conserved'
  <2>1. UNCHANGED <<queued, waitingForACK, sendVars, fate>>
    BY <1>6 DEF InitiatorWritten, WriterLoop, WriterClear, Open, Refuse, Register, Destruct,
                ConnectionEnds
  <2>2. QED
    BY <2>1, ConservedFrame
<1>7. CASE Tick
  <2>1. UNCHANGED <<queued, waitingForACK, sendVars, fate>>
    BY <1>7, TickKeeps
  <2>2. QED
    BY <2>1, ConservedFrame
<1>8. CASE TickDrop
  BY <1>8, DropConserves
<1>9. CASE RequestStop \/ UNCHANGED vars
  <2>1. UNCHANGED <<queued, waitingForACK, sendVars, fate>>
    BY <1>9 DEF RequestStop, vars
  <2>2. QED
    BY <2>1, ConservedFrame
<1>10. QED
  BY <1>1, <1>2, <1>3, <1>4, <1>5, <1>6, <1>7, <1>8, <1>9 DEF Next, WriteStep, ConnStep

-----------------------------------------------------------------------------
(* Writers                                                                 *)

\* Steps that leave the connections and the registration alone.
LEMMA RegisteredFrame ==
    ASSUME Registered, UNCHANGED <<conn, killed, notificationFunc>>,
           \A c \in Conn : writer'[c] \in {"header", "body"} =>
                             writer[c] \in {"header", "body"} \/ conn[c] = "up"
    PROVE  Registered'
BY DEF Registered, KilledGone, Alive

\* A sender that finds the registered connection gone deregisters it.
LEMMA SenderRegistered ==
    ASSUME QueueTypes, Registered, NEW s \in Sender, SendStart(s) \/ SendStep(s)
    PROVE  Registered'
<1> USE DEF queueVars, notifyVars, countVars, connVars, sendVars
<1>1. CASE SendStart(s) \/ SendQueue(s) \/ SendCount(s) \/ SendService(s)
  <2>1. UNCHANGED <<conn, killed, notificationFunc, writer>>
    BY <1>1 DEF SendStart, SendQueue, SendCount, SendService
  <2>2. QED
    BY <2>1, RegisteredFrame
<1>2. CASE SendNotify(s)
  <2>1. UNCHANGED <<conn, killed>>
    BY <1>2 DEF SendNotify
  <2>2. CASE /\ availableToSendTo /\ notificationFunc # Nil
             /\ Alive(notificationFunc)
    <3>1. notificationFunc' = notificationFunc /\ Trigger(notificationFunc)
      BY <1>2, <2>2, Zenon DEF SendNotify
    <3>2. \A d \in Conn : writer'[d] \in {writer[d], "loop"}
      BY <2>2, <3>1, TriggerFacts DEF QueueTypes
    <3>3. QED
      BY <2>1, <3>1, <3>2, RegisteredFrame
  <2>3. CASE /\ availableToSendTo /\ notificationFunc # Nil
             /\ ~Alive(notificationFunc)
    <3>1. notificationFunc' \in {notificationFunc, Nil} /\ writer' = writer
      BY <1>2, <2>3, Zenon DEF SendNotify, Deregister
    <3>2. QED
      BY <2>1, <2>3, <3>1 DEF Registered, KilledGone, Alive
  <2>4. CASE ~(availableToSendTo /\ notificationFunc # Nil)
    <3>1. UNCHANGED <<notificationFunc, writer>>
      BY <1>2, <2>4 DEF SendNotify
    <3>2. QED
      BY <2>1, <3>1, RegisteredFrame
  <2>5. QED
    BY <2>2, <2>3, <2>4
<1>3. QED
  BY <1>1, <1>2 DEF SendStep

\* Only the loop of a registered connection that may write starts to write.
LEMMA WriterRegistered ==
    ASSUME QueueTypes, Registered, NEW c \in Conn, WriteStep(c)
    PROVE  Registered'
<1> USE DEF notifyVars
<1>1. UNCHANGED <<conn, killed, notificationFunc>>
  BY DEF WriteStep, InitiatorWritten, WriterLoop, WriterClear, HeaderWritten, BodyWritten
<1>2. \A d \in Conn : writer'[d] \in {"header", "body"} =>
                        writer[d] \in {"header", "body"} \/ conn[d] = "up"
  BY DEF WriteStep, InitiatorWritten, WriterLoop, WriterClear, HeaderWritten, BodyWritten,
         QueueTypes
<1>3. QED
  BY <1>1, <1>2, RegisteredFrame

\* A connection that ends does not write any more, and its destructor leaves
\* no other unkilled connection behind, unless it had been told to end.
LEMMA ConnectionRegistered ==
    ASSUME QueueTypes, Registered, NEW c \in Conn,
           Open(c) \/ ConnStep(c) \/ SendUntracked(c) \/ ConnectionEnds(c)
    PROVE  Registered'
<1> USE DEF notifyVars
<1>1. CASE Open(c)
  <2>1. /\ conn[c] = "none" /\ conn' = [conn EXCEPT ![c] = "open"]
        /\ writer' = [writer EXCEPT ![c] = "initiator"]
        /\ UNCHANGED <<killed, notificationFunc>>
    BY <1>1 DEF Open
  <2>2. QED
    BY <2>1 DEF Registered, KilledGone, Alive, QueueTypes
<1>2. CASE Refuse(c)
  <2>1. /\ conn[c] = "open" /\ conn' = [conn EXCEPT ![c] = "dead"]
        /\ writer' = [writer EXCEPT ![c] = "none"]
        /\ UNCHANGED <<killed, notificationFunc>>
    BY <1>2 DEF Refuse
  <2>2. QED
    BY <2>1 DEF Registered, KilledGone, Alive, QueueTypes
<1>3. CASE Register(c)
  <2>1. /\ conn[c] = "open" /\ conn' = [conn EXCEPT ![c] = "up"]
        /\ notificationFunc' = c
        /\ killed' = IF notificationFunc # Nil /\ Alive(notificationFunc)
                       THEN killed \cup {notificationFunc} ELSE killed
        /\ \A d \in Conn : conn[d] # "dying"
    BY <1>3 DEF Register, Overtakes, IoFree
  <2>2. \A d \in Conn : writer'[d] \in {writer[d], "loop"}
    BY <1>3 DEF Register, QueueTypes
  <2>3. KilledGone => KilledGone'
    BY <2>1 DEF Registered, KilledGone, Alive, QueueTypes
  <2>4. ASSUME NEW d \in Conn \ killed', d # c, conn'[d] = "up"
        PROVE  KilledGone
    BY <2>1, <2>4, QueueAssumption DEF Registered, Alive, QueueTypes
  <2>5. \A d \in Conn : conn'[d] # "dying"
    BY <2>1 DEF QueueTypes
  <2>6. \A d \in killed' : conn'[d] # "none"
    BY <2>1 DEF Registered, Alive, QueueTypes
  <2>7. \A d \in Conn : writer'[d] \in {"header", "body"} => conn'[d] = "up"
    BY <2>1, <2>2 DEF Registered, QueueTypes
  <2>8. QED
    BY <2>1, <2>3, <2>4, <2>5, <2>6, <2>7 DEF Registered
<1>4. ASSUME conn[c] \in {"open", "up"}, End(c), UNCHANGED <<killed, notificationFunc>>
      PROVE  Registered'
  BY <1>4 DEF End, Registered, KilledGone, Alive, QueueTypes
<1>5. CASE ReceiveACK(c)
  <2>1. conn[c] = "up" /\ UNCHANGED <<killed, notificationFunc>>
    BY <1>5 DEF ReceiveACK
  <2>2. CASE c \in killed
    BY <1>4, <1>5, <2>1, <2>2 DEF ReceiveACK
  <2>3. CASE c \notin killed
    <3>1. UNCHANGED <<conn, writer>>
      BY <1>5, <2>3 DEF ReceiveACK
    <3>2. QED
      BY <2>1, <3>1, RegisteredFrame
  <2>4. QED
    BY <2>2, <2>3
<1>6. CASE Destruct(c)
  <2>1. /\ conn[c] = "dying" /\ conn' = [conn EXCEPT ![c] = "dead"]
        /\ notificationFunc' \in {notificationFunc, Nil}
        /\ UNCHANGED <<killed, writer>>
    BY <1>6 DEF Destruct, Deregister
  <2>2. KilledGone => KilledGone'
    BY <2>1 DEF KilledGone, Alive, QueueTypes
  <2>3. c \in killed => KilledGone
    BY <2>1 DEF KilledGone, Alive
  <2>4. ASSUME NEW d \in Conn \ killed, d # c, conn[d] = "up", c \notin killed
        PROVE  KilledGone
    BY <2>1, <2>4, QueueAssumption DEF Registered, QueueTypes
  <2>5. ASSUME NEW d \in Conn \ killed, conn[d] = "dying"
        PROVE  KilledGone \/ notificationFunc' \in {d, Nil}
    BY <2>1, <2>5 DEF Registered
  <2>6. \A d \in Conn : conn'[d] = IF d = c THEN "dead" ELSE conn[d]
    BY <2>1 DEF QueueTypes
  <2>7. \A d \in killed' : conn'[d] # "none"
    BY <2>1, <2>6 DEF Registered, QueueTypes
  <2>8. \A d \in Conn : writer'[d] \in {"header", "body"} => conn'[d] = "up"
    BY <2>1, <2>6 DEF Registered
  <2>9. QED
    BY <2>1, <2>2, <2>3, <2>4, <2>5, <2>6, <2>7, <2>8 DEF Registered
<1>7. CASE SendUntracked(c)
  <2>1. UNCHANGED <<conn, killed, notificationFunc>>
    BY <1>7 DEF SendUntracked
  <2>2. \A d \in Conn : writer'[d] \in {writer[d], "loop"}
    BY <1>7, TriggerFacts DEF SendUntracked, QueueTypes
  <2>3. QED
    BY <2>1, <2>2, RegisteredFrame
<1>8. CASE ConnectionEnds(c)
  BY <1>4, <1>8 DEF ConnectionEnds, Alive
<1>9. QED
  BY <1>1, <1>2, <1>3, <1>5, <1>6, <1>7, <1>8 DEF ConnStep

\* Every step keeps the registration.
LEMMA NextRegistered ==
    ASSUME QueueTypes, Registered, [Next]_vars
    PROVE  Registered'
<1>1. CASE \E s \in Sender : SendStart(s) \/ SendStep(s)
  BY <1>1, SenderRegistered
<1>2. CASE \E c \in Conn : WriteStep(c)
  BY <1>2, WriterRegistered
<1>3. CASE \E c \in Conn : Open(c) \/ ConnStep(c) \/ SendUntracked(c) \/ ConnectionEnds(c)
  BY <1>3, ConnectionRegistered
<1>4. CASE TickDrop
  <2>1. /\ conn' = conn
        /\ killed' = IF notificationFunc \in Conn /\ Alive(notificationFunc)
                       THEN killed \cup {notificationFunc} ELSE killed
        /\ notificationFunc' \in {notificationFunc, Nil}
    BY <1>4 DEF TickDrop, Deregister, notifyVars
  <2>2. \A d \in Conn : writer'[d] \in {writer[d], "loop"}
    BY <1>4, TriggerFacts DEF TickDrop, QueueTypes
  <2>3. QED
    BY <2>1, <2>2, QueueAssumption DEF Registered, KilledGone, Alive, QueueTypes
<1>5. CASE Tick \/ RequestStop \/ UNCHANGED vars
  <2>1. UNCHANGED <<conn, killed, notificationFunc, writer>>
    BY <1>5, TickKeeps DEF RequestStop, vars, connVars, notifyVars
  <2>2. QED
    BY <2>1, RegisteredFrame
<1>6. QED
  BY <1>1, <1>2, <1>3, <1>4, <1>5 DEF Next

\* Unkilled writers exclude one another.
LEMMA RegisteredWriters ==
    ASSUME QueueTypes, Registered
    PROVE  OneWriter
BY QueueAssumption DEF Registered, KilledGone, OneWriter, QueueTypes

-----------------------------------------------------------------------------
(* Acknowledgements                                                        *)

\* Steps that touch neither the front of the queue nor what waits for an ACK,
\* and write nothing.
LEMMA ExpectedFrame ==
    ASSUME ACKInv, Undisturbed' => Undisturbed, unknownACK' = unknownACK,
           waitingForACK' = waitingForACK,
           queued # <<>> => queued' # <<>> /\ Head(queued') = Head(queued),
           \A c \in Conn : wire'[c] \subseteq wire[c],
           \A c \in Conn : writer'[c] = "body" => writer[c] = "body" /\ writing'[c] = writing[c]
    PROVE  ACKInv'
<1> SUFFICES ASSUME Undisturbed' PROVE unknownACK' = FALSE /\ Expected'
  BY DEF ACKInv
<1>1. unknownACK = FALSE /\ Expected
  BY DEF ACKInv
<1>2. QED
  BY <1>1 DEF Expected

\* A sender only appends to the queue and wakes a writer.
LEMMA SenderExpected ==
    ASSUME QueueTypes, ACKInv, NEW s \in Sender, SendStart(s) \/ SendStep(s)
    PROVE  ACKInv'
<1> USE DEF queueVars, notifyVars, countVars, connVars, sendVars
<1>1. UNCHANGED <<dropped, killed, unknownACK, waitingForACK, wire, writing>>
  BY DEF SendStart, SendStep, SendQueue, SendNotify, SendCount, SendService
<1>2. queued # <<>> => queued' # <<>> /\ Head(queued') = Head(queued)
  <2>1. CASE SendQueue(s)
    <3>1. sendMsg[s] \in Entry /\ queued' = Append(queued, sendMsg[s])
      BY <2>1 DEF SendQueue, QueueTypes, Entry
    <3>2. QED
      BY <3>1, AppendFacts DEF QueueTypes
  <2>2. CASE ~SendQueue(s)
    BY <2>2 DEF SendStart, SendStep, SendNotify, SendCount, SendService
  <2>3. QED
    BY <2>1, <2>2
<1>3. \A d \in Conn : writer'[d] \in {writer[d], "loop"}
  BY TriggerFacts DEF SendStart, SendStep, SendQueue, SendNotify, SendCount, SendService,
                      QueueTypes
<1>4. QED
  BY <1>1, <1>2, <1>3, ExpectedFrame DEF Undisturbed

\* The writer of the front puts on its wire what it makes wait for the ACK.
LEMMA WriterExpected ==
    ASSUME Inv, NEW c \in Conn, WriteStep(c)
    PROVE  ACKInv'
<1> USE DEF queueVars, notifyVars, countVars, connVars, sendVars
<1>1. QueueTypes /\ Conserved /\ ACKInv /\ OneWriter
  BY RegisteredWriters DEF Inv
<1>2. UNCHANGED <<dropped, killed, unknownACK>>
  BY DEF WriteStep, InitiatorWritten, WriterLoop, WriterClear, HeaderWritten, BodyWritten
<1>3. CASE InitiatorWritten(c) \/ WriterLoop(c) \/ WriterClear(c)
  <2>1. UNCHANGED <<queued, waitingForACK, wire>>
    BY <1>3 DEF InitiatorWritten, WriterLoop, WriterClear
  <2>2. \A d \in Conn : writer'[d] = "body" => writer[d] = "body" /\ writing'[d] = writing[d]
    BY <1>1, <1>3 DEF InitiatorWritten, WriterLoop, WriterClear, QueueTypes
  <2>3. QED
    BY <1>1, <1>2, <2>1, <2>2, ExpectedFrame DEF Undisturbed
<1>4. SUFFICES ASSUME Undisturbed, HeaderWritten(c) \/ BodyWritten(c)
               PROVE  Expected'
  BY <1>1, <1>2, <1>3, Zenon DEF ACKInv, Undisturbed, WriteStep
<1>5. /\ Expected /\ c \notin killed /\ queued # <<>>
      /\ \A d \in Conn : d # c => writer[d] # "body"
  BY <1>1, <1>4 DEF ACKInv, Undisturbed, OneWriter, HeaderWritten, BodyWritten, Lost
<1>6. CASE HeaderWritten(c) /\ Tracked(Head(queued))
  <2>1. /\ UNCHANGED <<queued, waitingForACK, wire>>
        /\ writing' = [writing EXCEPT ![c] = Head(queued)]
        /\ writer' = [writer EXCEPT ![c] = "body"]
    BY <1>5, <1>6 DEF HeaderWritten
  <2>2. QED
    BY <1>1, <1>5, <2>1 DEF Expected, QueueTypes
<1>7. CASE HeaderWritten(c) /\ ~Tracked(Head(queued))
  <2>1. /\ wire' = wire /\ waitingForACK' = waitingForACK
        /\ writer' = [writer EXCEPT ![c] = "loop"]
    BY <1>5, <1>7 DEF HeaderWritten, Pop
  <2>2. \A d \in Conn : writer'[d] # "body"
    BY <1>1, <1>5, <2>1 DEF QueueTypes
  <2>3. QED
    BY <1>5, <2>1, <2>2 DEF Expected
<1>8. CASE BodyWritten(c)
  <2>1. /\ wire' = [wire EXCEPT ![c] = @ \cup {Head(queued)}]
        /\ writer' = [writer EXCEPT ![c] = "loop"]
        /\ Head(queued) \in Msg /\ Pop
    BY <1>1, <1>5, <1>8, Zenon DEF BodyWritten, Expected, QueueTypes
  <2>2. waitingForACK' = waitingForACK \cup {Head(queued)}
    BY <1>1, <1>5, <2>1, PopFacts
  <2>3. Head(queued) \notin waitingForACK
    BY <1>1, <1>5, <2>1, TailFacts DEF Conserved, QueueTypes
  <2>4. \A d \in Conn : writer'[d] # "body"
    BY <1>1, <1>5, <2>1 DEF QueueTypes
  <2>5. \A d \in Conn : wire'[d] = IF d = c THEN wire[d] \cup {Head(queued)} ELSE wire[d]
    BY <1>1, <2>1, Zenon DEF QueueTypes
  <2>6. QED
    BY <1>5, <2>2, <2>3, <2>4, <2>5, Zenon DEF Expected
<1>9. QED
  BY <1>4, <1>6, <1>7, <1>8

\* The ACK of a message that is on a wire finds it waiting.
LEMMA ConnectionExpected ==
    ASSUME Inv, NEW c \in Conn,
           Open(c) \/ ConnStep(c) \/ SendUntracked(c) \/ ConnectionEnds(c)
    PROVE  ACKInv'
<1> USE DEF queueVars, notifyVars, countVars, connVars, sendVars
<1>1. QueueTypes /\ ACKInv
  BY DEF Inv
<1>2. CASE Open(c) \/ Refuse(c) \/ Register(c) \/ Destruct(c) \/ ConnectionEnds(c)
  <2>1. UNCHANGED <<queued, waitingForACK, unknownACK, dropped>> /\ killed \subseteq killed'
    BY <1>2 DEF Open, Refuse, Register, Destruct, ConnectionEnds
  <2>2. \A d \in Conn : writer'[d] = "body" => writer[d] = "body" /\ writing'[d] = writing[d]
    <3>1. CASE Open(c) \/ Refuse(c)
      BY <1>1, <3>1 DEF Open, Refuse, QueueTypes
    <3>2. CASE Register(c)
      BY <1>1, <3>2 DEF Register, QueueTypes
    <3>3. CASE Destruct(c)
      BY <3>3 DEF Destruct
    <3>4. CASE ConnectionEnds(c)
      BY <1>1, <3>4 DEF ConnectionEnds, End, QueueTypes
    <3>5. QED
      BY <1>2, <3>1, <3>2, <3>3, <3>4
  <2>3. \A d \in Conn : wire'[d] \subseteq wire[d]
    <3>1. wire' = wire \/ wire' = [wire EXCEPT ![c] = {}]
      BY <1>2 DEF Open, Refuse, Register, Destruct, ConnectionEnds
    <3>2. QED
      BY <1>1, <3>1 DEF QueueTypes
  <2>4. Undisturbed' => Undisturbed
    BY <2>1 DEF Undisturbed
  <2>5. QED
    BY <1>1, <2>1, <2>2, <2>3, <2>4, ExpectedFrame
<1>3. CASE SendUntracked(c)
  <2>1. UNCHANGED <<waitingForACK, unknownACK, dropped, killed, wire, writing>>
    BY <1>3 DEF SendUntracked
  <2>2. queued # <<>> => queued' # <<>> /\ Head(queued') = Head(queued)
    BY <1>1, <1>3, AppendFacts DEF SendUntracked, QueueTypes, Entry
  <2>3. \A d \in Conn : writer'[d] \in {writer[d], "loop"}
    BY <1>1, <1>3, TriggerFacts DEF SendUntracked, QueueTypes
  <2>4. QED
    BY <1>1, <2>1, <2>2, <2>3, ExpectedFrame DEF Undisturbed
<1>4. CASE ReceiveACK(c)
  <2>1. UNCHANGED <<queued, dropped, killed>>
    BY <1>4 DEF ReceiveACK
  <2>2. SUFFICES ASSUME Undisturbed PROVE unknownACK' = FALSE /\ Expected'
    BY <2>1 DEF ACKInv, Undisturbed
  <2>3. Expected /\ unknownACK = FALSE /\ c \notin killed
    BY <1>1, <2>2 DEF ACKInv, Undisturbed
  <2>4. PICK m \in wire[c] :
          /\ wire' = [wire EXCEPT ![c] = @ \ {m}]
          /\ waitingForACK' = waitingForACK \ {m} /\ unknownACK' = unknownACK
    BY <1>4, <2>3, Zenon DEF ReceiveACK, Expected
  <2>5. UNCHANGED <<writer, writing>>
    BY <1>4, <2>3 DEF ReceiveACK
  <2>6. \A d \in Conn : wire'[d] = IF d = c THEN wire[d] \ {m} ELSE wire[d]
    BY <1>1, <2>4, Zenon DEF QueueTypes
  <2>7. unknownACK' = FALSE
    BY <2>3, <2>4, Zenon
  <2>8. Expected'
    <3>1. waitingForACK' = waitingForACK \ {m} /\ m \in wire[c]
      BY <2>4
    <3>2. \A d \in Conn : wire'[d] \subseteq waitingForACK'
      BY <2>3, <2>6, <3>1, Zenon DEF Expected
    <3>3. \A d, e \in Conn : d # e => \A n \in wire'[d] : n \notin wire'[e]
      BY <2>3, <2>6, Zenon DEF Expected
    <3>4. \A d \in Conn : writer'[d] = "body" => queued' # <<>> /\ writing'[d] = Head(queued')
      BY <2>1, <2>3, <2>5 DEF Expected
    <3>5. QED
      BY <3>2, <3>3, <3>4 DEF Expected
  <2>9. QED
    BY <2>7, <2>8
<1>5. QED
  BY <1>2, <1>3, <1>4 DEF ConnStep

\* Every step keeps ACKs expected.
LEMMA NextExpected ==
    ASSUME Inv, [Next]_vars
    PROVE  ACKInv'
<1> USE DEF Inv
<1>1. CASE \E s \in Sender : SendStart(s) \/ SendStep(s)
  BY <1>1, SenderExpected
<1>2. CASE \E c \in Conn : WriteStep(c)
  BY <1>2, WriterExpected
<1>3. CASE \E c \in Conn : Open(c) \/ ConnStep(c) \/ SendUntracked(c) \/ ConnectionEnds(c)
  BY <1>3, ConnectionExpected
<1>4. CASE TickDrop
  BY <1>4 DEF TickDrop, ACKInv, Undisturbed
<1>5. CASE Tick \/ RequestStop \/ UNCHANGED vars
  <2>1. UNCHANGED <<queued, waitingForACK, dropped, unknownACK, killed, wire, writer, writing>>
    BY <1>5, TickKeeps DEF RequestStop, vars, queueVars, connVars
  <2>2. QED
    BY <2>1, ExpectedFrame DEF Undisturbed
<1>6. QED
  BY <1>1, <1>2, <1>3, <1>4, <1>5 DEF Next

-----------------------------------------------------------------------------
(* The theorems                                                            *)

\* The inductive invariant holds at the start.
LEMMA InitInv ==
    ASSUME Init
    PROVE  Inv
<1>1. QueueTypes
  BY DEF Init, QueueTypes
<1>2. Conserved
  <2>1. Range(queued) = {} /\ Distinct(queued) /\ waitingForACK = {}
    BY DEF Init, Range, Distinct
  <2>2. \A s \in Sender, m \in Msg : ~Holds(s, m)
    BY DEF Init, Holds
  <2>3. \A m \in Msg : m \notin Range(queued) \cup waitingForACK
    BY <2>1
  <2>4. \A m \in Msg : fate[m] # "pending"
    BY DEF Init
  <2>5. QED
    BY <2>1, <2>2, <2>3, <2>4 DEF Conserved
<1>3. Registered /\ ACKInv
  BY DEF Init, Registered, ACKInv, Expected
<1>4. QED
  BY <1>1, <1>2, <1>3 DEF Inv

\* The inductive invariant of the send queue.
THEOREM QueueInvariant == Spec => []Inv
<1>1. Init => Inv
  BY InitInv
<1>2. Inv /\ [Next]_vars => Inv'
  BY NextTypes, NextConserves, NextRegistered, NextExpected DEF Inv
<1>3. QED
  BY <1>1, <1>2, PTL DEF Spec

\* From its first check in send() to its end a message is in exactly one of
\* the hands of its sender, queued and waitingForACK, however connections
\* break, overtake one another or are dropped (message_send_queue.cpp).
THEOREM QueueConserves == Spec => []Conserved
<1>1. Inv => Conserved
  BY DEF Inv
<1>2. QED
  BY <1>1, QueueInvariant, PTL

\* No two connections that were not told to end write the front of the queue
\* at once, until one that was told to end is gone.
THEOREM QueueOneWriter == Spec => []OneWriter
<1>1. Inv => OneWriter
  BY RegisteredWriters DEF Inv
<1>2. QED
  BY <1>1, QueueInvariant, PTL

\* handleACK finds the entry it looks up, unless the queue was dropped or a
\* connection was told to end.
THEOREM QueueACKsExpected == Spec => []ACKsAreExpected
<1>1. Inv => ACKsAreExpected
  BY DEF Inv, ACKInv, Undisturbed, ACKsAreExpected
<1>2. QED
  BY <1>1, QueueInvariant, PTL

=============================================================================
