---------------------------- MODULE Connections ----------------------------
(* How the communicators of two nodes find each other, agree on one of the  *)
(* connections between them, use it, lose it and end it                     *)
(* (modules/communicator: service, tcp_acceptor, udp_acceptor,              *)
(* tcp_connection_initiator, tcp_connection, file_sender).                  *)
(*                                                                          *)
(* Everything that touches a socket runs on the I/O thread of its node, one *)
(* handler at a time.  A connection has an initiating end "i" and an        *)
(* accepting end "a".  Both write an initiator message first; an end that   *)
(* has read the other's registers with the queue of messages to that node,  *)
(* or is refused.  What happens to a message inside the queue is the        *)
(* subject of MessageSendQueue: here the writer of a connection writes and  *)
(* pops messages in the step that triggers it, a file takes steps of its    *)
(* own, and the counter of outgoing messages is exact.                      *)
EXTENDS NodeLife, Integers, Sequences, SequencesExt

CONSTANTS
    MaxPort,        \* the largest port number; the default listen port is 1
    Setups,         \* the configurations to start from
    SameAddress,    \* nodes that recognize their own listen address
    Retries,        \* connectionRetries
    First,          \* [Node -> what it sends to a node it meets]
    FileSize,       \* of the formula, in units of the receive buffer
    EagainLimit,    \* how often in a row sendfile may find the socket full
    Follows,        \* nodes with automatic shutdown
    MaxConns,       \* connections that exist at a time (a bound)
    MaxDials,       \* initiators of a node that an announcement adds to (a bound)
    Nil

\* A remote is named by the string it is configured or announced with, which
\* stands for a host and a port.
Remote == Node \X (1..MaxPort)
Conn == 1..MaxConns
Side == {"i", "a"}
Kind == {"INIT", "MESSAGE", "FILE", "OFFLINE", "ACK", "END"}

ASSUME ConnectionsAssumption ==
    /\ {MaxPort, MaxConns, FileSize} \subseteq Nat \ {0}
    /\ {Retries, EagainLimit, MaxDials} \subseteq Nat
    /\ Setups \subseteq [known : [Node -> SUBSET Remote], taken : SUBSET Remote,
                            announcing : SUBSET Node, exiting : SUBSET Node, faults : Nat]
    /\ First \in [Node -> Seq(Kind)]

VARIABLES
    setup,          \* the known remotes, the ports other programs hold, the
                    \* nodes with UDP announcements; as bounds, those whose
                    \* workers request the exit, and the number of faults
    listenPort,     \* [Node -> tcp_listen_port, 0 before the first bind]
    listening,      \* nodes with a listening socket
    accepting,      \* nodes whose accept loop has not ended
    attempts,       \* [Node -> SUBSET Remote], connectionInitiationAttempts
    initiators,     \* the TCPConnectionInitiators
    conn,           \* [Conn -> the nodes, remote and connectionTry, or Nil]
    end,            \* [Conn -> [Side -> TCPConnection::State]]
    queue,          \* [Node -> the MessageSendQueue to the other node]
    disk,           \* [Node -> the parts in the received file]
    handed,         \* [Node -> the parts when the broker was given it, or Nil]
    faults          \* the kinds of fault that happened

dialVars == <<listenPort, listening, accepting, attempts>>
connVars == <<initiators, conn, end, queue>>
fileVars == <<disk, handed>>
vars == <<lifeVars, setup, dialVars, connVars, fileVars, faults>>

Peer(n) == CHOOSE m \in Node : m # n
Opp(s) == IF s = "i" THEN "a" ELSE "i"
Owner(c, s) == IF s = "i" THEN conn[c].from ELSE conn[c].to

\* The end that n has of a connection to the other node.
SideOf(n, c) == IF conn[c].from = n THEN "i" ELSE "a"

\* TCPConnection::State.  The end the kernel accepted but the accept loop has
\* not seen yet is "none".
NoEnd == [st |-> "none", inbox |-> <<>>, left |-> 0, restart |-> FALSE,
          killed |-> FALSE, writer |-> "asleep", offset |-> 0, eagain |-> 0]
DeadEnd == [NoEnd EXCEPT !.st = "dead"]
NoEnds == [s \in Side |-> NoEnd]
NoQueue == [func |-> 0, known |-> FALSE, acked |-> FALSE, dropped |-> FALSE, entries |-> <<>>]

Live(e) == e.st \in {"init", "up"}

Init ==
    /\ LifeInit
    /\ setup \in Setups
    /\ listenPort = [n \in Node |-> 0]
    /\ listening = {} /\ accepting = {}
    /\ attempts = [n \in Node |-> {}]
    /\ initiators = {}
    /\ conn = [c \in Conn |-> Nil] /\ end = [c \in Conn |-> NoEnds]
    /\ queue = [n \in Node |-> NoQueue]
    /\ disk = [n \in Node |-> {}] /\ handed = [n \in Node |-> Nil]
    /\ faults = {}

FaultKind == {"load", "bind", "resolve", "accept", "abort", "break", "eagain", "sendfile"}
Fault(k) ==
    /\ k \notin faults /\ Cardinality(faults) < setup.faults
    /\ faults' = faults \cup {k}

-----------------------------------------------------------------------------
(* What a handler does to the state it shares with the others: a record S   *)
(* goes through the calls that the handler makes.                           *)

Now == [I |-> initiators, C |-> conn, E |-> end, Q |-> queue, stopped |-> stopped,
        stopRequested |-> stopRequested, exit |-> exit, workerStop |-> workerStop]

Commit(S) ==
    /\ initiators' = S.I /\ conn' = S.C /\ end' = S.E /\ queue' = S.Q
    /\ stopped' = S.stopped /\ stopRequested' = S.stopRequested
    /\ exit' = S.exit /\ workerStop' = S.workerStop

\* Packets written for the end s of c to read, and one that it reads.
Put(S, c, s, ps) ==
    IF S.E[c][s].st = "dead" \/ S.C[c].broken THEN S ELSE [S EXCEPT !.E[c][s].inbox = @ \o ps]
Take(S, c, s) == [S EXCEPT !.E[c][s].inbox = Tail(@)]

\* The entries the service waits for before it stops: not the ACKs, and none
\* while there is no connection.
Outgoing(q) == IF q.func = 0 THEN 0 ELSE Len(SelectSeq(q.entries, LAMBDA e : e # "ACK"))

\* A changed queue of n; the last outgoing entry stops a service asked to.
Requeue(S, n, q) ==
    [S EXCEPT !.Q[n] = q,
              !.stopped = IF n \in S.stopRequested /\ Outgoing(S.Q[n]) > 0 /\ Outgoing(q) = 0
                          THEN @ \cup {n} ELSE @]

\* A FileSender starts at the first byte.
StartFile(S, c, s) ==
    [S EXCEPT !.E[c][s].writer = "file", !.E[c][s].offset = 0, !.E[c][s].eagain = 0]

\* writeHandler with an entry at the front of the queue: a message is
\* written and popped (popFromQueued), a file is left to the FileSender.
WriteEntry(S, c, s, k) ==
    LET n == Owner(c, s)
        W == Put(S, c, Opp(s), <<<<k, 0>>>>)
    IN  IF n \in S.stopped \/ S.E[c][s].writer # "asleep" THEN S
        ELSE IF k = "FILE" THEN StartFile(W, c, s)
        ELSE Requeue(W, n, [W.Q[n] EXCEPT !.entries = Tail(@)])

\* conditionallyTriggerWriteHandler: a writer that is not sending goes through
\* the queue.  A killed one writes the end message by itself, and no more.
Trigger(S, c, s) ==
    LET n == Owner(c, s)
    IN  IF S.E[c][s].writer # "asleep" \/ ~(io[n] = "loop" /\ n \notin S.stopped) THEN S
        ELSE IF S.E[c][s].killed
          THEN [Put(S, c, Opp(s), <<<<"END", 0>>>>) EXCEPT !.E[c][s].writer = "ended"]
        ELSE FoldLeft(LAMBDA T, k : WriteEntry(T, c, s, k), S, S.Q[n].entries)

Kill(S, c, s) == Trigger([S EXCEPT !.E[c][s].killed = TRUE], c, s)

\* MessageSendQueue::send
Send(S, n, k) ==
    LET T == [S EXCEPT !.Q[n].entries = Append(@, k)]
        c == S.Q[n].func
    IN  IF S.Q[n].dropped THEN S ELSE IF c = 0 THEN T ELSE Trigger(T, c, SideOf(n, c))

\* A new initiator for a remote.
Initiator(I, n, r, try, cb, pc) ==
    [slot |-> CHOOSE k \in 1..(Cardinality(I) + 1) : \A i \in I : i.slot # k,
     node |-> n, remote |-> r, try |-> try, cb |-> cb, pc |-> pc]
Initiated(I, n, r, try, cb, pc) == I \cup {Initiator(I, n, r, try, cb, pc)}

\* Faulty variant: the queue goes on notifying.
Deregister_Never(S, n) == S

\* deregisterNotificationCB: whichever connection is registered.
Deregister(S, n) == Requeue(S, n, [S.Q[n] EXCEPT !.func = 0])

\* ~State of an end that is given up: it deregisters if it ever registered,
\* and the initiating side comes back with a delay if its mode is to restart.
Close(S, c, s) ==
    LET n == Owner(c, s)
        D == IF S.E[c][s].st = "up" THEN Deregister(S, n) ELSE S
        again == s = "i" /\ S.E[c][s].restart /\ S.C[c].try < Retries /\ n \notin D.stopped
        last == S.E[c][Opp(s)].st = "dead"
    IN  [D EXCEPT !.I = IF again THEN Initiated(@, n, S.C[c].remote, S.C[c].try + 1, FALSE, "delayed")
                                 ELSE @,
                  !.C[c] = IF last THEN Nil ELSE @,
                  !.E[c] = IF last THEN NoEnds ELSE [@ EXCEPT ![s] = DeadEnd]]

\* request_exit on the I/O thread: within one handler.
RequestExit(S, n) ==
    LET stop == [S EXCEPT !.stopRequested = @ \cup {n},
                          !.stopped = IF Outgoing(S.Q[n]) = 0 THEN @ \cup {n} ELSE @]
        tell == IF S.Q[n].func # 0 THEN Send(stop, n, "OFFLINE") ELSE stop
    IN  IF S.exit[n] # "no" THEN S
        ELSE [tell EXCEPT !.exit[n] = "done", !.workerStop = @ \cup {n}]

\* No handler has anything to do at once.  The network timeout (5 s) and the
\* connection timeout (30 s) are long against what takes milliseconds.
Settled ==
    /\ \A n \in Node : io[n] \in {"loop", "returned"} \/ life[n] = "gone"
    /\ \A i \in initiators : ~(i.pc = "connecting" /\ Running(i.node))
    /\ \A c \in Conn, s \in Side :
         conn[c] # Nil /\ Running(Owner(c, s)) =>
           /\ end[c][s].inbox = <<>> \/ ~Live(end[c][s])
           /\ ~(Live(end[c][s]) /\ (conn[c].broken \/ end[c][Opp(s)].st = "dead"))
           /\ end[c][s].writer # "file"
           /\ end[c][s].st = "none" => s = "a" /\ conn[c].to \notin accepting

-----------------------------------------------------------------------------
(* Looking for connections                                                 *)

\* Service::connectToRemote for the remotes R: one attempt at a time for each.
Dial(n, R) ==
    /\ attempts' = [attempts EXCEPT ![n] = @ \cup R]
    /\ initiators' = FoldSet(LAMBDA r, I : Initiated(I, n, r, 0, TRUE, "connecting"),
                             initiators, R \ attempts[n])

\* TCPAcceptor::start tries the ports below the largest one; the port last
\* tried stays the advertised one.  Any other error ends the search.
FreePort(n) == {p \in 1..(MaxPort - 1) : <<n, p>> \notin setup.taken
                                        /\ \A q \in 1..(p - 1) : <<n, q>> \in setup.taken}
Bind(n) ==
    \/ /\ FreePort(n) # {}
       /\ listenPort' = [listenPort EXCEPT ![n] = CHOOSE p \in FreePort(n) : TRUE]
       /\ listening' = listening \cup {n} /\ accepting' = accepting \cup {n}
       /\ UNCHANGED faults
    \/ /\ FreePort(n) = {}
       /\ listenPort' = [listenPort EXCEPT ![n] = MaxPort - 1]
       /\ UNCHANGED <<listening, accepting, faults>>
    \/ /\ Fault("bind")
       /\ listenPort' = [listenPort EXCEPT ![n] = 1]
       /\ UNCHANGED <<listening, accepting>>

\* Service::run up to its loop.
StartService(n) ==
    /\ io[n] = "created"
    /\ io' = [io EXCEPT ![n] = "loop"]
    /\ Bind(n)
    /\ Dial(n, setup.known[n])
    /\ UNCHANGED <<mainVars, exitVars, setup, conn, end, queue, fileVars>>

\* UDPAcceptor::startAnnouncements: a timer announces the node for as long as
\* its I/O thread runs, by the port that it last tried to bind.
Announces(m) == m \in setup.announcing /\ Running(m)
Announcement(m) == <<m, listenPort[m]>>

\* UDPAcceptor::readHandler: an announcement of a node not known yet.
ReceiveAnnouncement(n) ==
    LET m == Peer(n)
    IN  /\ Running(n) /\ Announces(m)
        /\ ~queue[n].known
        /\ Announcement(m) \notin attempts[n]
        /\ Cardinality({i \in initiators : i.node = n})
             + Cardinality({c \in Conn : conn[c] # Nil /\ n \in {conn[c].from, conn[c].to}}) < MaxDials
        /\ Dial(n, {Announcement(m)})
        /\ UNCHANGED <<lifeVars, setup, listenPort, listening, accepting, conn, end, queue,
                       fileVars, faults>>

\* Faulty variant: the attempt stays.
EndAttempt_Kept(i) == UNCHANGED attempts

\* The callback of an initiator, called or run by its destructor, ends the
\* attempt.
EndAttempt(i) == attempts' = [attempts EXCEPT ![i.node] = IF i.cb THEN @ \ {i.remote} ELSE @]

\* isEndpointSameAsLocalTCPAcceptor
IsLocal(i) ==
    /\ i.node \in SameAddress /\ i.node \in listening
    /\ i.remote = <<i.node, listenPort[i.node]>>

Reachable(r) == r[1] \in listening /\ r[2] = listenPort[r[1]]

\* The host is not resolved, or it is this node: the initiator gives up.
GiveUp(i) ==
    /\ i.pc = "connecting" /\ Running(i.node)
    /\ \/ i.cb /\ Fault("resolve")
       \/ IsLocal(i) /\ UNCHANGED faults
    /\ EndAttempt(i)
    /\ initiators' = initiators \ {i}
    /\ UNCHANGED <<lifeVars, setup, listenPort, listening, accepting, conn, end, queue, fileVars>>

\* Faulty variant: the connection is not to be restarted.
Connect_EndsAfterShutdown(i) ==
    /\ i.pc = "connecting" /\ Running(i.node) /\ ~IsLocal(i) /\ Reachable(i.remote)
    /\ \E c \in Conn :
         /\ conn[c] = Nil /\ \A d \in 1..(c - 1) : conn[d] # Nil
         /\ conn' = [conn EXCEPT ![c] = [from |-> i.node, to |-> i.remote[1], remote |-> i.remote,
                                         try |-> i.try, broken |-> FALSE]]
         /\ end' = [end EXCEPT ![c] = [i |-> [NoEnd EXCEPT !.st = "init"],
                                       a |-> [NoEnd EXCEPT !.inbox = <<<<"INIT", 0>>>>]]]
    /\ EndAttempt(i)
    /\ initiators' = initiators \ {i}
    /\ UNCHANGED <<lifeVars, setup, listenPort, listening, accepting, queue, fileVars, faults>>

\* Connected: the TCPConnection writes its initiator message.
Connect(i) ==
    /\ i.pc = "connecting" /\ Running(i.node) /\ ~IsLocal(i) /\ Reachable(i.remote)
    /\ \E c \in Conn :
         /\ conn[c] = Nil /\ \A d \in 1..(c - 1) : conn[d] # Nil
         /\ conn' = [conn EXCEPT ![c] = [from |-> i.node, to |-> i.remote[1], remote |-> i.remote,
                                         try |-> i.try, broken |-> FALSE]]
         /\ end' = [end EXCEPT ![c] = [i |-> [NoEnd EXCEPT !.st = "init", !.restart = TRUE],
                                       a |-> [NoEnd EXCEPT !.inbox = <<<<"INIT", 0>>>>]]]
    /\ EndAttempt(i)
    /\ initiators' = initiators \ {i}
    /\ UNCHANGED <<lifeVars, setup, listenPort, listening, accepting, queue, fileVars, faults>>

\* Faulty variant: one retry too many.
Refused_OneMore(i) ==
    /\ i.pc = "connecting" /\ Running(i.node) /\ ~IsLocal(i) /\ ~Reachable(i.remote)
    /\ IF i.try <= Retries
         THEN /\ initiators' = (initiators \ {i}) \cup {[i EXCEPT !.pc = "waiting"]}
              /\ UNCHANGED attempts
         ELSE EndAttempt(i) /\ initiators' = initiators \ {i}
    /\ UNCHANGED <<lifeVars, setup, listenPort, listening, accepting, conn, end, queue,
                   fileVars, faults>>

\* Every endpoint refused: retried later, or given up after the last try.
Refused(i) ==
    /\ i.pc = "connecting" /\ Running(i.node) /\ ~IsLocal(i) /\ ~Reachable(i.remote)
    /\ IF i.try < Retries
         THEN /\ initiators' = (initiators \ {i}) \cup {[i EXCEPT !.pc = "waiting"]}
              /\ UNCHANGED attempts
         ELSE EndAttempt(i) /\ initiators' = initiators \ {i}
    /\ UNCHANGED <<lifeVars, setup, listenPort, listening, accepting, conn, end, queue,
                   fileVars, faults>>

\* retryConnection: a new initiator has a copy of the callback, and the old
\* one's destructor calls its own.
Retry(i) ==
    /\ i.pc = "waiting" /\ Running(i.node) /\ Settled
    /\ initiators' = Initiated(initiators \ {i}, i.node, i.remote, i.try + 1, i.cb, "connecting")
    /\ EndAttempt(i)
    /\ UNCHANGED <<lifeVars, setup, listenPort, listening, accepting, conn, end, queue,
                   fileVars, faults>>

\* The timeout that a closed connection set expires.
Reconnect(i) ==
    /\ i.pc = "delayed" /\ Running(i.node) /\ Settled
    /\ initiators' = (initiators \ {i}) \cup {[i EXCEPT !.pc = "connecting"]}
    /\ UNCHANGED <<lifeVars, setup, dialVars, conn, end, queue, fileVars, faults>>

\* TCPAcceptor::loop
Accept(c) ==
    /\ conn[c] # Nil /\ end[c]["a"].st = "none"
    /\ Running(conn[c].to) /\ conn[c].to \in accepting
    /\ Commit(Put([Now EXCEPT !.E[c]["a"].st = "init"], c, "i", <<<<"INIT", 0>>>>))
    /\ UNCHANGED <<mainVars, io, setup, dialVars, fileVars, faults>>

\* The first error ends the loop, the socket goes on listening.
AcceptFails(n) ==
    /\ Running(n) /\ n \in accepting /\ Fault("accept")
    /\ accepting' = accepting \ {n}
    /\ UNCHANGED <<lifeVars, setup, listenPort, listening, attempts, connVars, fileVars>>

-----------------------------------------------------------------------------
(* readHandler                                                             *)

\* The end s of c reads a packet of kind k.
Reads(c, s, k) ==
    /\ conn[c] # Nil /\ Live(end[c][s]) /\ Running(Owner(c, s))
    /\ end[c][s].inbox # <<>> /\ end[c][s].inbox[1][1] = k

\* After a packet was handled a killed connection ends.
Keep(S, c, s) == IF S.E[c][s].killed THEN Close(S, c, s) ELSE S

\* Faulty variant: the first connection stays.
RefusesRegistration_Always(n, s) == queue[n].dropped \/ queue[n].func # 0

\* registerNotificationCB refuses a dropped remote; a connection that is
\* already registered stays if it was used, or if it is the one that the node
\* with the greater id initiated.
RefusesRegistration(n, s) ==
    \/ queue[n].dropped
    \/ queue[n].func # 0 /\ (queue[n].acked \/ (s = "i") # (n > Peer(n)))

\* A registered connection takes the queue over; the first one makes the node
\* known to the broker, which sends what it has to say.
Register(S, c, s) ==
    LET n == Owner(c, s)
        q == S.Q[n]
        K == IF q.func = 0 THEN S ELSE Kill(S, q.func, SideOf(n, q.func))
        R == [K EXCEPT !.E[c][s].st = "up", !.Q[n].func = c, !.Q[n].known = TRUE]
        F == IF q.known THEN R ELSE FoldLeft(LAMBDA T, k : Send(T, n, k), R, First[n])
    IN  Trigger(F, c, s)

\* handleInitiatorMessage: a connection of the node with itself is given up,
\* a refused one for good.
ReadInitiator(c, s) ==
    LET S == Take(Now, c, s)
    IN  /\ Reads(c, s, "INIT")
        /\ IF conn[c].from = conn[c].to THEN Commit(Close(S, c, s))
           ELSE IF RefusesRegistration(Owner(c, s), s)
             THEN Commit(Close([S EXCEPT !.E[c][s].restart = FALSE], c, s))
           ELSE Commit(Register(S, c, s))
        /\ UNCHANGED <<mainVars, io, setup, dialVars, fileVars, faults>>

\* Faulty variant: what is received is not acknowledged.
ReadMessage_NoACK(c, s) ==
    /\ Reads(c, s, "MESSAGE")
    /\ Commit(Keep(Take(Now, c, s), c, s))
    /\ UNCHANGED <<mainVars, io, setup, dialVars, fileVars, faults>>

\* handleReceivedMessage: acknowledged, or the connection is aborted when the
\* broker cannot read the message.  An offline peer may take this node along.
ReadMessage(c, s) ==
    LET n == Owner(c, s)
        S == Take(Now, c, s)
    IN  /\ \/ /\ Reads(c, s, "MESSAGE")
              /\ \/ Commit(Keep(Send(S, n, "ACK"), c, s)) /\ UNCHANGED faults
                 \/ Commit(Close(S, c, s)) /\ Fault("abort")
           \/ /\ Reads(c, s, "OFFLINE")
              /\ LET X == IF n \in Follows THEN RequestExit(S, n) ELSE S
                 IN  Commit(Keep(Send(X, n, "ACK"), c, s))
              /\ UNCHANGED faults
        /\ UNCHANGED <<mainVars, io, setup, dialVars, fileVars>>

\* handleReceivedACK
ReadACK(c, s) ==
    /\ Reads(c, s, "ACK")
    /\ Commit(Keep([Take(Now, c, s) EXCEPT !.Q[Owner(c, s)].acked = TRUE], c, s))
    /\ UNCHANGED <<mainVars, io, setup, dialVars, fileVars, faults>>

\* handleReceivedFileStart opens the file anew.
ReadFile(c, s) ==
    /\ Reads(c, s, "FILE")
    /\ disk' = [disk EXCEPT ![Owner(c, s)] = {}]
    /\ Commit([Take(Now, c, s) EXCEPT !.E[c][s].left = FileSize])
    /\ UNCHANGED <<mainVars, io, setup, dialVars, handed, faults>>

\* Faulty variant: the file is handed over one part too early.
ReadPart_Early(c, s) ==
    LET n == Owner(c, s)
        S == [Take(Now, c, s) EXCEPT !.E[c][s].left = @ - 1]
    IN  /\ Reads(c, s, "PART")
        /\ disk' = [disk EXCEPT ![n] = @ \cup {end[c][s].inbox[1][2]}]
        /\ IF end[c][s].left = 2
             THEN /\ handed' = [handed EXCEPT ![n] = disk'[n]]
                  /\ Commit(Keep(Send(S, n, "ACK"), c, s))
             ELSE Commit(S) /\ UNCHANGED handed
        /\ UNCHANGED <<mainVars, io, setup, dialVars, faults>>

\* handleReceivedFileChunk; after the last part handleReceivedFile.
ReadPart(c, s) ==
    LET n == Owner(c, s)
        part == end[c][s].inbox[1][2]
        S == [Take(Now, c, s) EXCEPT !.E[c][s].left = @ - 1]
    IN  /\ Reads(c, s, "PART")
        /\ disk' = [disk EXCEPT ![n] = @ \cup {part}]
        /\ IF end[c][s].left = 1
             THEN /\ handed' = [handed EXCEPT ![n] = disk'[n]]
                  /\ Commit(Keep(Send(S, n, "ACK"), c, s))
             ELSE Commit(S) /\ UNCHANGED handed
        /\ UNCHANGED <<mainVars, io, setup, dialVars, faults>>

\* The other side ended the connection for good.
ReadEnd(c, s) ==
    /\ Reads(c, s, "END")
    /\ Commit(Close([Take(Now, c, s) EXCEPT !.E[c][s].restart = FALSE], c, s))
    /\ UNCHANGED <<mainVars, io, setup, dialVars, fileVars, faults>>

\* End of file, or a reset connection.
ReadEOF(c, s) ==
    /\ conn[c] # Nil /\ Live(end[c][s]) /\ Running(Owner(c, s))
    /\ conn[c].broken \/ (end[c][s].inbox = <<>> /\ end[c][Opp(s)].st = "dead")
    /\ Commit(Close(Now, c, s))
    /\ UNCHANGED <<mainVars, io, setup, dialVars, fileVars, faults>>

\* The connection is reset: what was on its way is lost.
Break(c) ==
    /\ conn[c] # Nil /\ ~conn[c].broken /\ Fault("break")
    /\ conn' = [conn EXCEPT ![c].broken = TRUE]
    /\ end' = [end EXCEPT ![c] = [s \in Side |-> [@[s] EXCEPT !.inbox = <<>>]]]
    /\ UNCHANGED <<lifeVars, setup, dialVars, initiators, queue, fileVars>>

-----------------------------------------------------------------------------
(* FileSender                                                              *)

\* send_chunk: sendfile takes some of the file, all of it was taken, the
\* socket is full (waits, or fails once too often), or another error.
SendChunk(c, s) ==
    LET e == end[c][s]
        full == end[c][Opp(s)].inbox # <<>>
    IN  /\ conn[c] # Nil /\ e.st = "up" /\ e.writer = "file" /\ Running(Owner(c, s))
        /\ \/ \E k \in 1..(FileSize - e.offset) :
                /\ Commit([Put(Now, c, Opp(s), [j \in 1..k |-> <<"PART", e.offset + j>>])
                             EXCEPT !.E[c][s].offset = @ + k, !.E[c][s].eagain = 0])
                /\ UNCHANGED faults
           \/ /\ e.offset = FileSize /\ (e.killed \/ queue[Owner(c, s)].entries # <<>>)
              /\ LET n == Owner(c, s)
                     S == [Now EXCEPT !.E[c][s].writer = "asleep"]
                     P == IF e.killed THEN S
                          ELSE Requeue(S, n, [S.Q[n] EXCEPT !.entries = Tail(@)])
                 IN  Commit(Trigger(P, c, s))
              /\ UNCHANGED faults
           \/ /\ e.offset < FileSize /\ full
              /\ \/ /\ e.eagain < EagainLimit
                    /\ Commit([Now EXCEPT !.E[c][s].eagain = @ + 1])
                    /\ UNCHANGED faults
                 \/ e.eagain = EagainLimit /\ Commit(Close(Now, c, s)) /\ Fault("eagain")
           \/ e.offset < FileSize /\ Commit(Close(Now, c, s)) /\ Fault("sendfile")
        /\ UNCHANGED <<mainVars, io, setup, dialVars, fileVars>>

-----------------------------------------------------------------------------
(* Timeouts                                                                *)

\* Nothing, not even a keepalive, is read from c: the other end is not the
\* one its queue writes to.
Silent(c, s) ==
    LET m == Owner(c, Opp(s))
    IN  ~(end[c][Opp(s)].st = "up" /\ queue[m].func = c /\ Running(m))

ReadTimeout(c, s) ==
    /\ conn[c] # Nil /\ Live(end[c][s]) /\ Running(Owner(c, s))
    /\ Settled /\ Silent(c, s)
    /\ Commit(Close(Now, c, s))
    /\ UNCHANGED <<mainVars, io, setup, dialVars, fileVars, faults>>

\* MessageSendQueue::tick: nothing was heard of the node for too long.
Drop(n) ==
    LET q == queue[n]
        K == IF q.func = 0 THEN Now
             ELSE Deregister(Kill(Now, q.func, SideOf(n, q.func)), n)
        S == [K EXCEPT !.Q[n].entries = <<>>]
        X == IF n \in Follows THEN RequestExit(S, n) ELSE S
    IN  /\ Running(n) /\ q.known /\ ~q.dropped
        /\ Settled /\ ~Running(Peer(n))
        /\ Commit([X EXCEPT !.Q[n].dropped = TRUE])
        /\ UNCHANGED <<mainVars, io, setup, dialVars, fileVars, faults>>

-----------------------------------------------------------------------------
(* The end of a node                                                       *)

\* TimeoutController's destructor runs the timeouts out: delayed initiators
\* are started, and deleted, and no handler serves them any more.
RunOut(n) == initiators' = {i \in initiators : i.node # n \/ i.pc # "delayed"}

\* The context is stopped.
ServiceReturns(n) ==
    /\ io[n] = "loop" /\ n \in stopped
    /\ io' = [io EXCEPT ![n] = "returned"]
    /\ RunOut(n)
    /\ UNCHANGED <<mainVars, exitVars, setup, dialVars, conn, end, queue, fileVars, faults>>

\* sendOfflineAnnouncementToPeers
AnnounceOffline(n) ==
    /\ ExitBroker(n)
    /\ LET S == IF queue[n].func # 0 THEN Send(Now, n, "OFFLINE") ELSE Now
       IN  end' = S.E /\ queue' = S.Q
    /\ UNCHANGED <<setup, dialVars, initiators, conn, fileVars, faults>>

\* The modules are deleted, with all that the service owns.
DeleteModules(n) ==
    LET ends(c) == [s \in Side |-> IF Owner(c, s) = n THEN DeadEnd ELSE end[c][s]]
        over == {c \in Conn : conn[c] # Nil /\ \A s \in Side : ends(c)[s].st = "dead"}
    IN  /\ ExitModules(n)
        /\ listening' = listening \ {n} /\ accepting' = accepting \ {n}
        /\ attempts' = [attempts EXCEPT ![n] = {}]
        /\ initiators' = {i \in initiators : i.node # n}
        /\ conn' = [c \in Conn |-> IF c \in over THEN Nil ELSE conn[c]]
        /\ end' = [c \in Conn |-> IF conn[c] = Nil \/ c \in over THEN NoEnds ELSE ends(c)]
        /\ queue' = [queue EXCEPT ![n] = NoQueue]
        /\ UNCHANGED <<setup, listenPort, fileVars, faults>>

Process(n) ==
    /\ \/ LoadModules(n) \/ InitCommunicator(n) \/ InitOthers(n)
       \/ JoinWorkers(n) \/ JoinIO(n) \/ WorkerReturns(n) \/ ExitRunner(n)
       \/ (n \in setup.exiting /\ ExitCommunicator(n, Outgoing(queue[n])))
    /\ UNCHANGED <<setup, dialVars, connVars, fileVars, faults>>

\* A module is missing, or its configuration or pre_init fails.
LoadFails(n) ==
    /\ Fault("load") /\ Main(n, "start", "gone")
    /\ UNCHANGED <<worker, io, exitVars, setup, dialVars, connVars, fileVars>>

Read(c, s) ==
    \/ ReadInitiator(c, s) \/ ReadMessage(c, s) \/ ReadACK(c, s) \/ ReadFile(c, s)
    \/ ReadPart(c, s) \/ ReadEnd(c, s) \/ ReadEOF(c, s)

Next ==
    \/ \E n \in Node :
         \/ Process(n) \/ LoadFails(n) \/ AnnounceOffline(n) \/ DeleteModules(n)
         \/ StartService(n) \/ ReceiveAnnouncement(n) \/ AcceptFails(n)
         \/ Drop(n) \/ ServiceReturns(n)
    \/ \E i \in initiators : GiveUp(i) \/ Connect(i) \/ Refused(i) \/ Retry(i) \/ Reconnect(i)
    \/ \E c \in Conn :
         \/ Accept(c) \/ Break(c)
         \/ \E s \in Side : Read(c, s) \/ SendChunk(c, s) \/ ReadTimeout(c, s)

Spec == Init /\ [][Next]_vars

-----------------------------------------------------------------------------
(* Properties                                                              *)

\* Every variable keeps its type, and nobody dials a remote more often than
\* connectionRetries allows.
TypeOK ==
    /\ LifeTypeOK
    /\ setup \in Setups
    /\ listenPort \in [Node -> 0..MaxPort] /\ {listening, accepting} \subseteq SUBSET Node
    /\ attempts \in [Node -> SUBSET Remote]
    /\ \A i \in initiators : i.node \in Node /\ i.remote \in Remote /\ i.try \in 0..Retries
    /\ \A c \in Conn : conn[c] # Nil => {conn[c].from, conn[c].to} \subseteq Node
    /\ \A n \in Node : queue[n].func \in 0..MaxConns
    /\ faults \subseteq FaultKind

\* A remote is dialled by one attempt at a time, and one that is over does not
\* keep the remote from being dialled again: every entry of
\* connectionInitiationAttempts has an initiator whose callback, called or run
\* by its destructor, erases it (service.cpp connectToRemote,
\* tcp_connection_initiator.cpp retryConnection and ~TCPConnectionInitiator).
NoStuckAttempt ==
    \A n \in Node : \A r \in attempts[n] :
      \E i \in initiators : i.node = n /\ i.remote = r /\ i.cb

\* The queue never notifies a connection that is gone or was told to end:
\* the notification callback points into a TCPConnection::State, which
\* deregisters when it is destroyed, and a connection that another one
\* replaces is killed in the step that replaces it.
FuncAlive ==
    \A n \in Node : LET c == queue[n].func IN
      c # 0 => conn[c] # Nil /\ end[c][SideOf(n, c)].st = "up" /\ ~end[c][SideOf(n, c)].killed

\* As long as no message was acknowledged, the two ends agree, by the ids,
\* which of two connections stays: the nodes do not each end the one that the
\* other keeps (MessageSendQueue::registerNotificationCB).  Afterwards they may
\* disagree, because each counts the ACKs that it received itself.
WinnerSurvives ==
    (/\ Settled /\ initiators = {} /\ faults = {}
     /\ \A n \in Node : Running(n) /\ exit[n] = "no" /\ queue[n].known /\ ~queue[n].acked) =>
      \E c \in Conn : /\ conn[c] # Nil
                      /\ \A s \in Side : end[c][s].st = "up" /\ ~end[c][s].killed

Linked == \E c \in Conn : \A n \in Node : queue[n].func = c

\* Both nodes are configured with the address of the other.
BothDial == \A n \in Node : \E r \in setup.known[n] : r[1] # n

\* Nothing is going to happen any more without a fault or an exit.
AtRest ==
    /\ Settled /\ initiators = {}
    /\ \A n \in Node : Running(n) /\ exit[n] = "no"
    /\ \A n \in Node : Peer(n) \in setup.announcing => queue[n].known
    /\ \A c \in Conn, s \in Side : conn[c] # Nil /\ Live(end[c][s]) => ~Silent(c, s)

\* Nodes of which one dials the other do not come to rest apart from each
\* other, as long as there are fewer faults than retries and the acceptor and
\* the resolver did their work: refused connections are retried, and the
\* initiating side of a lost one comes back (retryConnection, ~State).
NoIsolation ==
    AtRest /\ ~BothDial /\ faults \cap {"bind", "resolve", "accept"} = {} => Linked

\* The formula that the broker of such a node is given is the whole file,
\* however the transfer was chunked, interrupted and begun anew (FileSender,
\* handleReceivedFileStart, handleReceivedFileChunk, handleReceivedFile).
FileWhole == \A n \in Node : handed[n] # Nil /\ ~BothDial => handed[n] = 1..FileSize

\* When such nodes come to rest, without announcements, and nothing failed,
\* what each had to say to the other when they met was read and acknowledged
\* (create_with_connection on the first registration; the trigger at the end
\* of handleInitiatorMessage).  With announcements it may be written to one of
\* two connections dialled at once that the other side refuses, and be lost.
FormulaArrives ==
    AtRest /\ ~BothDial /\ setup.announcing = {} /\ faults = {} =>
      \A n \in Node : /\ queue[n].entries = <<>> /\ (First[n] # <<>> => queue[n].acked)
                      /\ First[n] = <<"FILE">> => handed[Peer(n)] # Nil

\* Nodes of which each dials the other are connected when they come to rest.
\* This does not hold, however many retries there are: a connection that lost
\* against the other one deregisters that one when it dies, a third one then
\* registers, and so on until the tries are used up.
NoIsolationBoth == AtRest /\ BothDial /\ faults = {} => Linked

\* A file handed to the broker is whole also if both nodes dial.  This does
\* not hold: two connections may carry the file to the same path at the same
\* time, and the second one truncates it.
FileWholeBoth == \A n \in Node : handed[n] # Nil => handed[n] = 1..FileSize

\* The modules, with the sockets, queues and worker objects they own, are
\* deleted when none of their threads runs and no request_exit is on its way
\* through them (main, parac_thread_registry_wait_for_exit, ~ModuleLoader).
JoinedBeforeDelete ==
    \A n \in Node : life[n] \in {"joined", "gone"} =>
      /\ io[n] \in {"none", "returned"} /\ worker[n] \in {"none", "returned"}
      /\ exit[n] \in {"no", "done"}

=============================================================================
