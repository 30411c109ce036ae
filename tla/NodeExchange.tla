---------------------------- MODULE NodeExchange ----------------------------
(* What compute nodes tell one another: descriptions, known remotes, solver *)
(* configuration, formula, status, tasks and learned clauses.               *)
(*                                                                          *)
(* Each node has the I/O thread of its communicator, which handles received *)
(* messages and runs the callbacks of acknowledged ones, and a worker       *)
(* thread.  The two meet in ComputeNodeStore, ComputeNode and               *)
(* CaDiCaLManager.  A connection is a FIFO channel in each direction; it    *)
(* also carries the ACKs whose callback changes state.                      *)
(*                                                                          *)
(* One client, whose formula everybody works on, and any set of daemons.    *)
(* The modules of a node are initialised before its first connection.       *)
EXTENDS Integers, Sequences, FiniteSets, FiniteSetsExt

CONSTANTS
    Client, Daemon,     \* the node with the formula, and the others
    Task,               \* tasks that may be created (a bound)
    Workers,            \* available_worker_count of every node
    AutoShutdown,       \* --auto-shutdown-after-finished-client
    Learner,            \* nodes that find a clause (a bound)
    Losing, Failing,    \* nodes that lose a connection, that fail to parse (bounds)
    Nil

ASSUME WorkersAssumption == Workers \in Nat \ {0}

Node == {Client} \cup Daemon
Pair == {x \in Node \X Node : x[1] # x[2]}

VARIABLES
    (* ComputeNodeStore *)
    nodes,              \* [Node -> SUBSET Node], the nodes the store has
    sendable,           \* [Node -> SUBSET Node], available_to_send_to
    description,        \* [Node -> SUBSET Node], whose description was received
    dialled,            \* pairs connect_to_remote was called for
    (* ComputeNode *)
    status,             \* [Node -> [Node -> Status]], m_status of a node at a node
    remotelyKnown,      \* [Node -> [Node -> Status or Nil]], m_remotelyKnownLocalStatus
    sendingStatusTo,    \* pairs whose m_sendingStatusTo is set
    afterParsing,       \* pairs with a callback in m_cbAfterParsingIsDone
    (* solver instances for the client's formula *)
    instance, configured, manager,  \* nodes that have one, got its config, have a CaDiCaLManager
    parser,             \* [Node -> state of the ParserTask]
    knownPeers,         \* [Node -> SUBSET Node]
    learnedClauses,     \* [Node -> SUBSET Node], clauses, named by who found them
    initiallyFrom,      \* [Node -> Node or Nil], learnedClausesInitiallyFrom
    (* tasks *)
    home,               \* [Task -> Node or Nil], who created it
    place,              \* [Task -> state at home, or the node it is offloaded to]
    guest,              \* [Task -> [Node -> state]], the copies of peers
    (* threads and network *)
    io, worker,         \* [Node -> control state of the thread]
    down,               \* nodes that exited or died
    chan,               \* [Pair -> Seq(message)]
    faults              \* the nodes that had their fault

storeVars == <<nodes, sendable, description, dialled>>
statusVars == <<remotelyKnown, sendingStatusTo, chan>>
solverVars == <<instance, configured, manager, parser>>
clauseVars == <<knownPeers, learnedClauses, initiallyFrom>>
taskVars == <<home, place, guest>>
vars == <<nodes, sendable, description, dialled, status, remotelyKnown, sendingStatusTo,
          afterParsing, instance, configured, manager, parser, knownPeers, learnedClauses,
          initiallyFrom, home, place, guest, io, worker, down, chan, faults>>

-----------------------------------------------------------------------------
(* Status                                                                  *)

\* The entry of the formula in solverInstances.  formula_received is not sent
\* and never set.
SizeModulus == 2 ^ 20   \* a stand-in for the 2 ^ 64 of the counter
Status == [entry : BOOLEAN, parsed : BOOLEAN, size : 0..(SizeModulus - 1)]
NoEntry == [entry |-> FALSE, parsed |-> FALSE, size |-> 0]

\* Faulty variant: the count is not kept in the width of the counter.
Resized_Unbounded(s, d) == [s EXCEPT !.entry = TRUE, !.size = @ + d]

\* ++ and -- of solverInstances[originator].workQueueSize create the entry.
Resized(s, d) == [s EXCEPT !.entry = TRUE, !.size = (@ + d) % SizeModulus]

\* computeUtilization() < num / den; a node without description counts as
\* fully used.
Below(n, p, num, den) ==
    (p = n \/ p \in description[n]) /\ den * status[n][p].size < num * Workers

\* isDiffWorthwhile compares all of both statuses.
isDiffWorthwhile(n, p, s) == remotelyKnown[n][p] = Nil \/ remotelyKnown[n][p] # s

\* Channels after n sent the messages ms to the nodes of P, and after n took
\* the first message p sent to it.  What nobody will read is not kept.
Deaf(p, n) == p \in down \/ n \in nodes[p] \ sendable[p]
Push(ch, n, P, ms) ==
    IF P = {} THEN ch
    ELSE [x \in Pair |-> IF x[1] = n /\ x[2] \in P /\ ~Deaf(x[2], n) THEN ch[x] \o ms
                         ELSE ch[x]]
Pop(ch, p, n) == [ch EXCEPT ![<<p, n>>] = Tail(@)]
ACK(kind, st) == [kind |-> "ack", of |-> kind, status |-> st]

\* Faulty variant: m_sendingStatusTo is set without being tested.
Recipients_Unflagged(n, P, s) == {p \in P \cap sendable[n] : isDiffWorthwhile(n, p, s)}

\* conditionallySendStatusTo(s) for the nodes of P: a node that is not
\* available, has a status in flight or knows s is passed over.
Recipients(n, P, s) ==
    {p \in P \cap sendable[n] : <<n, p>> \notin sendingStatusTo /\ isDiffWorthwhile(n, p, s)}
WithStatus(ch, n, P, s) == Push(ch, n, Recipients(n, P, s), <<[kind |-> "status", status |-> s]>>)

\* Faulty variant: m_remotelyKnownLocalStatus is assigned before m_sendingStatusTo is
\* tested.
conditionallySendStatusTo_Remembers(n, P, s) ==
    /\ sendingStatusTo' = sendingStatusTo \cup {<<n, p>> : p \in Recipients(n, P, s)}
    /\ remotelyKnown' = [remotelyKnown EXCEPT ![n] =
                            [p \in Node |-> IF p \in P \cap sendable[n] THEN s ELSE @[p]]]

conditionallySendStatusTo(n, P, s) ==
    LET T == Recipients(n, P, s)
    IN  /\ sendingStatusTo' = sendingStatusTo \cup {<<n, p>> : p \in T}
        /\ remotelyKnown' = [remotelyKnown EXCEPT ![n] =
                                [p \in Node |-> IF p \in T THEN s ELSE @[p]]]

\* sendStatusToPeers(false) by the thread th reaches all peers, or none when
\* the other thread holds nodesMutex; a thread with nothing to do does not.
TryLock(n, th) ==
    IF \/ th = "worker" /\ (io[n].pc # "idle" \/ \E p \in Node \ {n} : chan[<<p, n>>] # <<>>)
       \/ th = "io" /\ (worker[n].pc # "idle" \/ parser[n] = "queued"
                        \/ \E t \in Task : \/ home[t] = n /\ place[t] = "queued"
                                           \/ guest[t][n] = "queued")
    THEN {Node, {}} ELSE {Node}

\* The status is sent on a change of the queue, and an offload target looked
\* for, if the node is the client or has parsed the formula.
Announces(n) == n = Client \/ status[n][n].parsed
OnChange(n, th) == IF Announces(n) THEN TryLock(n, th) ELSE {{}}

-----------------------------------------------------------------------------
(* Threads                                                                 *)

\* pc and what the thread keeps in local variables: the peer or task
\* concerned, the peers still to be offered a task, the local status it read,
\* and where it goes on after offering tasks.
Idle == [pc |-> "idle", peer |-> Nil, todo |-> <<>>, seen |-> NoEntry, next |-> "idle"]
At(pc, x) == [Idle EXCEPT !.pc = pc, !.peer = x]

Alive(n) == n \notin down

\* The bound on faults and clauses: there is one fault, or one clause found.
Undisturbed == faults = {} /\ \A n \in Node : n \notin learnedClauses[n]
Fault(n, S) == n \in S /\ Undisturbed /\ faults' = {n}
Stopped(n, ch) == /\ down' = down \cup {n}
                  /\ io' = [io EXCEPT ![n] = Idle]
                  /\ worker' = [worker EXCEPT ![n] = Idle]
                  /\ chan' = [x \in Pair |-> IF x[2] = n THEN <<>> ELSE ch[x]]

\* tryOffloadingTasks() visits the peers in the order of their utilization up
\* to its own node; peers with equal utilization may be in any order.
Targets(n, known) ==
    LET own == known[n].size
        size(p) == known[p].size
        P == {p \in description[n] : size(p) <= own /\ size(p) <= 2 * Workers}
    IN  {q \in UNION {[1..k -> P] : k \in 0..Cardinality(P)} :
            /\ \A i, j \in DOMAIN q : i < j => q[i] # q[j] /\ size(q[i]) <= size(q[j])
            /\ \A p \in P : size(p) < own => \E i \in DOMAIN q : q[i] = p}

\* incrementThisNodeWorkQueueSize of n: count, send the status, then look for
\* a peer to offload to if there is enough work.  The loop is skipped when the
\* other thread is in it.
Looking(n) == "offload" \in {io[n].pc, worker[n].pc}
AfterIncrement(n, known, next, x) ==
    IF Announces(n) /\ 2 * known[n].size > Workers /\ ~Looking(n)
    THEN {[At("offload", x) EXCEPT !.todo = q, !.seen = known[n], !.next = next] :
             q \in Targets(n, known)}
    ELSE {At(next, x)}

-----------------------------------------------------------------------------
(* Connections                                                             *)

\* init of the solver module: the client has an instance and its parser queued.
InitSolver ==
    /\ instance = {Client} /\ configured = {} /\ manager = {}
    /\ parser = [n \in Node |-> IF n = Client THEN "queued" ELSE "none"]

Init ==
    /\ nodes = [n \in Node |-> {n}]
    /\ sendable = [n \in Node |-> {}]
    /\ description = [n \in Node |-> {}]
    /\ dialled = {<<d, Client>> : d \in Daemon}
    /\ status = [n \in Node |-> [p \in Node |->
                    IF n = Client /\ p = Client THEN Resized(NoEntry, 1) ELSE NoEntry]]
    /\ remotelyKnown = [n \in Node |-> [p \in Node |-> Nil]]
    /\ sendingStatusTo = {} /\ afterParsing = {}
    /\ InitSolver
    /\ knownPeers = [n \in Node |-> {}]
    /\ learnedClauses = [n \in Node |-> {}]
    /\ initiallyFrom = [n \in Node |-> Nil]
    /\ home = [t \in Task |-> Nil]
    /\ place = [t \in Task |-> "unborn"]
    /\ guest = [t \in Task |-> [n \in Node |-> "none"]]
    /\ io = [n \in Node |-> Idle]
    /\ worker = [n \in Node |-> Idle]
    /\ down = {}
    /\ chan = [x \in Pair |-> <<>>]
    /\ faults = {}

create(n, p) == nodes' = [nodes EXCEPT ![n] = @ \cup {p}]

\* create_with_connection: one end of a dialled connection registers; its own
\* description is the first message to the peer.
Connect(n, p) ==
    /\ Alive(n) /\ Alive(p) /\ io[n] = Idle
    /\ {<<n, p>>, <<p, n>>} \cap dialled # {}
    /\ p \notin nodes[n]
    /\ create(n, p)
    /\ sendable' = [sendable EXCEPT ![n] = @ \cup {p}]
    /\ chan' = Push(chan, n, {p}, <<[kind |-> "description"]>>)
    /\ UNCHANGED <<description, dialled, status, remotelyKnown, sendingStatusTo, afterParsing,
                   solverVars, clauseVars, taskVars, io, worker, down, faults>>

\* n handles the first message of p, of the given kind.
Receives(n, p, kind) ==
    /\ Alive(n) /\ io[n] = Idle
    /\ p \in sendable[n]
    /\ chan[<<p, n>>] # <<>>
    /\ Head(chan[<<p, n>>]).kind = kind

add_instance(n) == instance' = instance \cup {n}
solver_config == [kind |-> "config"]
KnownRemotes(n, p) == [kind |-> "remotes", remotes |-> nodes[n] \ {n, p}]

\* receiveMessageDescriptionFrom: a client's description creates the solver
\* instance; the peer is told of the other nodes; the client sends its
\* configuration.
receiveDescription(n, p) ==
    /\ Receives(n, p, "description")
    /\ description' = [description EXCEPT ![n] = @ \cup {p}]
    /\ IF p = Client THEN add_instance(n) ELSE UNCHANGED instance
    /\ chan' = Push(Pop(chan, p, n), n, {p},
                    <<KnownRemotes(n, p)>> \o IF n = Client THEN <<solver_config>> ELSE <<>>)
    /\ status' = IF n = Client THEN [status EXCEPT ![n][p] = Resized(@, 0)] ELSE status
    /\ UNCHANGED <<nodes, sendable, dialled, remotelyKnown, sendingStatusTo, afterParsing,
                   configured, manager, parser, clauseVars, taskVars, io, worker, down, faults>>

\* receiveMessageKnownRemotesFrom: connect to the nodes not in the store.
receiveKnownRemotes(n, p) ==
    /\ Receives(n, p, "remotes")
    /\ dialled' = dialled \cup {<<n, r>> : r \in Head(chan[<<p, n>>]).remotes \ nodes[n]}
    /\ chan' = Pop(chan, p, n)
    /\ UNCHANGED <<nodes, sendable, description, status, remotelyKnown, sendingStatusTo,
                   afterParsing, solverVars, clauseVars, taskVars, io, worker, down, faults>>

-----------------------------------------------------------------------------
(* Configuration and formula                                               *)

\* PARAC_MESSAGE_SOLVER_DESCRIPTION: accepted once.
receiveConfig(n, p) ==
    /\ Receives(n, p, "config")
    /\ n \in instance
    /\ configured' = configured \cup {n}
    /\ chan' = Push(Pop(chan, p, n), n, {p},
                    <<ACK("config", IF n \in configured THEN "already" ELSE "ok")>>)
    /\ UNCHANGED <<storeVars, status, remotelyKnown, sendingStatusTo, afterParsing, instance,
                   manager, parser, clauseVars, taskVars, io, worker, down, faults>>

\* The callback of the configuration message: once it was accepted, the
\* formula is sent; otherwise there is only a warning.
ConfigAcknowledged(n, p) ==
    /\ Receives(n, p, "ack")
    /\ Head(chan[<<p, n>>]).of = "config"
    /\ chan' = IF Head(chan[<<p, n>>]).status = "ok"
               THEN Push(Pop(chan, p, n), n, {p}, <<[kind |-> "file"]>>)
               ELSE Pop(chan, p, n)
    /\ UNCHANGED <<storeVars, status, remotelyKnown, sendingStatusTo, afterParsing, solverVars,
                   clauseVars, taskVars, io, worker, down, faults>>

\* parse_formula_file: the ParserTask is created and queued.
parse_formula_file(n) ==
    /\ parser' = [parser EXCEPT ![n] = "queued"]
    /\ status' = [status EXCEPT ![n][n] = Resized(@, 1)]

instance_handle_formula(n) == n \notin manager /\ parse_formula_file(n)

\* receiveFileFrom
receiveFile(n, p) ==
    /\ Receives(n, p, "file")
    /\ n \in instance
    /\ instance_handle_formula(n)
    /\ chan' = Pop(chan, p, n)
    /\ UNCHANGED <<storeVars, remotelyKnown, sendingStatusTo, afterParsing, instance,
                   configured, manager, clauseVars, taskVars, io, worker, down, faults>>

-----------------------------------------------------------------------------
(* Status messages                                                         *)

\* receiveMessageStatusFrom, first part: the status is replaced.  If the
\* formula was known and has just been parsed there, the peer is to be
\* registered with the local solver instance.
receiveStatus(n, p) ==
    LET new == Head(chan[<<p, n>>]).status
        old == status[n][p]
    IN  /\ Receives(n, p, "status")
        /\ status' = [status EXCEPT ![n][p] = new]
        /\ io' = [io EXCEPT ![n] = At(IF old.entry /\ ~old.parsed /\ new.parsed
                                     THEN "check" ELSE "react", p)]
        /\ chan' = Pop(chan, p, n)
        /\ UNCHANGED <<storeVars, remotelyKnown, sendingStatusTo, afterParsing, solverVars,
                       clauseVars, taskVars, worker, down, faults>>

\* Faulty variant: a new peer does not get the clauses known so far.
addPossiblyNewNodePeer_Silent(n, P) ==
    /\ knownPeers' = [knownPeers EXCEPT ![n] = @ \cup P]
    /\ UNCHANGED chan

\* addPossiblyNewNodePeer for the peers of P: a new peer gets the clauses
\* known so far, unless they came from it.
addPossiblyNewNodePeer(n, P) ==
    LET T == (P \ knownPeers[n]) \ {initiallyFrom[n]}
    IN  /\ knownPeers' = [knownPeers EXCEPT ![n] = @ \cup P]
        /\ chan' = IF learnedClauses[n] = {} THEN chan
                   ELSE Push(chan, n, T \cap sendable[n],
                             <<[kind |-> "clauses", clauses |-> learnedClauses[n]]>>)

\* runCBAfterParsingOfFormulaIsDone: check, register, check again.
CheckParsed(n) ==
    /\ Alive(n) /\ io[n].pc = "check"
    /\ IF status[n][n].parsed
       THEN /\ n \in manager
            /\ addPossiblyNewNodePeer(n, {io[n].peer})
            /\ io' = [io EXCEPT ![n].pc = "react"]
       ELSE /\ io' = [io EXCEPT ![n].pc = "register"]
            /\ UNCHANGED <<knownPeers, chan>>
    /\ UNCHANGED <<storeVars, status, remotelyKnown, sendingStatusTo, afterParsing, solverVars,
                   learnedClauses, initiallyFrom, taskVars, worker, down, faults>>

RegisterCallback(n) ==
    /\ Alive(n) /\ io[n].pc = "register"
    /\ afterParsing' = afterParsing \cup {<<n, io[n].peer>>}
    /\ io' = [io EXCEPT ![n].pc = "recheck"]
    /\ UNCHANGED <<storeVars, status, statusVars, solverVars, clauseVars, taskVars, worker, down,
                   faults>>

\* Faulty variant: no second check.
RecheckParsed_Omitted(n) ==
    /\ Alive(n) /\ io[n].pc = "recheck"
    /\ io' = [io EXCEPT ![n].pc = "react"]
    /\ UNCHANGED <<storeVars, status, statusVars, afterParsing, solverVars, clauseVars, taskVars,
                   worker, down, faults>>

RecheckParsed(n) ==
    /\ Alive(n) /\ io[n].pc = "recheck"
    /\ io' = [io EXCEPT ![n].pc = "react"]
    /\ IF status[n][n].parsed
       THEN n \in manager /\ addPossiblyNewNodePeer(n, {io[n].peer})
       ELSE UNCHANGED <<knownPeers, chan>>
    /\ UNCHANGED <<storeVars, status, remotelyKnown, sendingStatusTo, afterParsing, solverVars,
                   learnedClauses, initiallyFrom, taskVars, worker, down, faults>>

\* Faulty variant: whether the peer has parsed the formula is not asked.
Offloadable_Unparsed(n, p) ==
    IF p \in description[n] THEN {t \in Task : home[t] = n /\ place[t] = "queued"} ELSE {}

\* pop_offload: a queued task of this node's own, for a peer that has parsed.
Offloadable(n, p) ==
    IF p \in description[n] /\ status[n][p].parsed
    THEN {t \in Task : home[t] = n /\ place[t] = "queued"} ELSE {}

\* Faulty variant: the task stays in the queue of this node.
OffloadTask_StaysQueued(n, p, t, th, ms) ==
    LET s == status[n][n]
    IN  /\ status' = [status EXCEPT ![n][p] = Resized(@, 1)]
        /\ conditionallySendStatusTo(n, {p}, s)
        /\ chan' = Push(WithStatus(chan, n, {p}, s), n, {p} \cap sendable[n],
                        <<[kind |-> "task", task |-> t]>> \o ms)
        /\ UNCHANGED place

\* tryToOffloadTask with a task: the local queue shrinks, which is announced;
\* the peer is charged with the task and gets the status before the task.  A
\* message to a dropped peer is swallowed.
OffloadTask(n, p, t, th, ms) ==
    LET s == Resized(status[n][n], -1)
    IN  /\ place' = [place EXCEPT ![t] = p]
        /\ status' = [status EXCEPT ![n][n] = s, ![n][p] = Resized(@, 1)]
        /\ \E P \in {Q \cup {p} : Q \in OnChange(n, th)} :
               /\ conditionallySendStatusTo(n, P, s)
               /\ chan' = Push(WithStatus(chan, n, P, s), n, {p} \cap sendable[n],
                               <<[kind |-> "task", task |-> t]>> \o ms)

\* receiveMessageStatusFrom, second part: offer the peer a task if it has
\* little work, or ask for work by sending the own status.
React(n) ==
    LET p == io[n].peer
        offers == Below(n, p, 3, 2) /\ ~Below(n, n, 1, 2)
        ack == <<ACK("status", "ok")>>
    IN  /\ Alive(n) /\ io[n].pc = "react"
        /\ io' = [io EXCEPT ![n] = Idle]
        /\ \/ /\ offers
              /\ \E t \in Offloadable(n, p) : OffloadTask(n, p, t, "io", ack)
           \/ /\ IF offers THEN Offloadable(n, p) = {} ELSE ~Below(n, n, 1, 1)
              /\ chan' = Push(chan, n, {p}, ack)
              /\ UNCHANGED <<status, remotelyKnown, sendingStatusTo, place>>
           \/ /\ ~offers /\ Below(n, n, 1, 1)
              /\ \E P \in IF Below(n, n, 1, 2) THEN {Node} ELSE TryLock(n, "io") :
                     /\ conditionallySendStatusTo(n, P, status[n][n])
                     /\ chan' = Push(WithStatus(chan, n, P, status[n][n]), n, {p}, ack)
              /\ UNCHANGED <<status, place>>
        /\ UNCHANGED <<storeVars, afterParsing, solverVars, clauseVars, home, guest, worker, down,
                       faults>>

\* The callback of a status message (PARAC_TO_BE_DELETED): read the local
\* status; then clear m_sendingStatusTo and send what was read if it differs
\* from what the peer knows.
StatusAcknowledged(n, p) ==
    /\ Receives(n, p, "ack")
    /\ Head(chan[<<p, n>>]).of = "status"
    /\ io' = [io EXCEPT ![n] = [At("clear", p) EXCEPT !.seen = status[n][n]]]
    /\ chan' = Pop(chan, p, n)
    /\ UNCHANGED <<storeVars, status, remotelyKnown, sendingStatusTo, afterParsing, solverVars,
                   clauseVars, taskVars, worker, down, faults>>

ClearSending(n) ==
    LET p == io[n].peer
        s == io[n].seen
        P == IF isDiffWorthwhile(n, p, s) THEN {p} \cap sendable[n] ELSE {}
    IN  /\ Alive(n) /\ io[n].pc = "clear"
        /\ sendingStatusTo' = (sendingStatusTo \ {<<n, p>>}) \cup {<<n, q>> : q \in P}
        /\ remotelyKnown' = IF P = {} THEN remotelyKnown ELSE [remotelyKnown EXCEPT ![n][p] = s]
        /\ chan' = Push(chan, n, P, <<[kind |-> "status", status |-> s]>>)
        /\ io' = [io EXCEPT ![n] = Idle]
        /\ UNCHANGED <<storeVars, status, afterParsing, solverVars, clauseVars, taskVars, worker,
                       down, faults>>

-----------------------------------------------------------------------------
(* Tasks                                                                   *)

\* insert_into_tasksWaitingForWorkerQueue by one of n's threads, th being io
\* or worker, when n has the statuses known: count, send the status, go on to offload.
Enqueue(n, th, next, x, ch, known) ==
    LET s == Resized(known[n], 1)
        counted == [known EXCEPT ![n] = s]
    IN  /\ status' = [status EXCEPT ![n] = counted]
        /\ \E P \in OnChange(n, th) : /\ conditionallySendStatusTo(n, P, s)
                                   /\ chan' = WithStatus(ch, n, P, s)
        /\ \E c \in AfterIncrement(n, counted, next, x) :
               IF th = "io" THEN io' = [io EXCEPT ![n] = c] /\ UNCHANGED worker
               ELSE worker' = [worker EXCEPT ![n] = c] /\ UNCHANGED io

\* PARAC_MESSAGE_SOLVER_TASK: a task of a peer arrives.
receiveTask(n, p) ==
    LET t == Head(chan[<<p, n>>]).task
    IN  /\ Receives(n, p, "task")
        /\ n \in manager
        /\ guest' = [guest EXCEPT ![t][n] = "queued"]
        /\ Enqueue(n, "io", "idle", Nil, Pop(chan, p, n), status[n])
        /\ UNCHANGED <<storeVars, afterParsing, solverVars, clauseVars, home, place, down,
                       faults>>

\* One round of the loop of tryOffloadingTasks; local work must not run out.
OfferTask(n, th) ==
    LET me == IF th = "io" THEN io[n] ELSE worker[n]
        ends == me.todo = <<>> \/ 2 * (me.seen.size - 1) < Workers
        offers == ~ends /\ Offloadable(n, Head(me.todo)) # {}
        left == IF ends THEN At(me.next, me.peer)
                ELSE [me EXCEPT !.todo = Tail(@), !.seen = IF offers THEN Resized(@, -1) ELSE @]
    IN  /\ Alive(n) /\ me.pc = "offload"
        /\ IF th = "io" THEN io' = [io EXCEPT ![n] = left] /\ UNCHANGED worker
           ELSE worker' = [worker EXCEPT ![n] = left] /\ UNCHANGED io
        /\ IF offers
           THEN \E t \in Offloadable(n, Head(me.todo)) : OffloadTask(n, Head(me.todo), t, th, <<>>)
           ELSE UNCHANGED <<status, statusVars, place>>
        /\ UNCHANGED <<storeVars, afterParsing, solverVars, clauseVars, home, guest, down,
                       faults>>

\* The result of an offloaded task arrives.
receiveResult(n, p) ==
    LET t == Head(chan[<<p, n>>]).task
    IN  /\ Receives(n, p, "result")
        /\ place' = [place EXCEPT ![t] = IF @ = p THEN "done" ELSE @]
        /\ chan' = Pop(chan, p, n)
        /\ UNCHANGED <<storeVars, status, remotelyKnown, sendingStatusTo, afterParsing,
                       solverVars, clauseVars, home, guest, io, worker, down, faults>>

\* PARAC_MESSAGE_SOLVER_NEW_LEARNED_CLAUSE: kept for the local solvers, not
\* passed on.
receiveClauses(n, p) ==
    /\ Receives(n, p, "clauses")
    /\ n \in manager
    /\ learnedClauses' = [learnedClauses EXCEPT ![n] = @ \cup Head(chan[<<p, n>>]).clauses]
    /\ initiallyFrom' = [initiallyFrom EXCEPT ![n] = IF @ = Nil THEN p ELSE @]
    /\ chan' = Pop(chan, p, n)
    /\ UNCHANGED <<storeVars, status, remotelyKnown, sendingStatusTo, afterParsing, solverVars,
                   knownPeers, taskVars, io, worker, down, faults>>

-----------------------------------------------------------------------------
(* The worker                                                              *)

WorkerAt(n, pc) == Alive(n) /\ worker[n].pc = pc
WorkerTo(n, pc) == worker' = [worker EXCEPT ![n].pc = pc]

newTask(n) ==
    LET t == CHOOSE x \in Task : home[x] = Nil
    IN  /\ \E x \in Task : home[x] = Nil
        /\ home' = [home EXCEPT ![t] = n]
        /\ place' = [place EXCEPT ![t] = "queued"]

\* parserDone of initiate_root_solver_on_file and of
\* initiate_peer_solver_on_file: the manager is created; on the client the root
\* task too.
initiate_root(n) ==
    /\ newTask(n)
    /\ configured' = configured \cup {n}
    /\ Enqueue(n, "worker", "assess", Nil, chan, status[n])
initiate_peer(n) ==
    WorkerTo(n, "assess") /\ UNCHANGED <<home, place, configured, status, statusVars, io>>

\* ParserTask::work
Parse(n) ==
    /\ WorkerAt(n, "idle") /\ parser[n] = "queued"
    /\ parser' = [parser EXCEPT ![n] = "parsed"]
    /\ manager' = manager \cup {n}
    /\ IF n = Client THEN initiate_root(n) ELSE initiate_peer(n)
    /\ UNCHANGED <<storeVars, afterParsing, instance, clauseVars, guest, down, faults>>

\* request_exit: the peers are told.
RequestExit(n, ch) == Stopped(n, Push(ch, n, sendable[n], <<[kind |-> "offline"]>>))

\* The formula cannot be parsed: the client exits, a daemon goes on.  So does
\* a client that does not find the file, for which parserDone is not called.
ParseFails(n) ==
    /\ WorkerAt(n, "idle") /\ parser[n] = "queued"
    /\ Fault(n, Failing)
    /\ parser' = [parser EXCEPT ![n] = "failed"]
    /\ \/ n = Client /\ RequestExit(n, chan)
       \/ WorkerTo(n, "assess") /\ UNCHANGED <<io, down, chan>>
    /\ UNCHANGED <<storeVars, status, remotelyKnown, sendingStatusTo, afterParsing, instance,
                   configured, manager, clauseVars, taskVars>>

\* assess_task of the finished ParserTask: it leaves the work queue ...
AssessParser(n) ==
    LET s == Resized(status[n][n], -1)
    IN  /\ WorkerAt(n, "assess")
        /\ WorkerTo(n, "parsed")
        /\ status' = [status EXCEPT ![n][n] = s]
        /\ \E P \in OnChange(n, "worker") :
               conditionallySendStatusTo(n, P, s) /\ chan' = WithStatus(chan, n, P, s)
        /\ UNCHANGED <<storeVars, afterParsing, solverVars, clauseVars, taskVars, io, down,
                       faults>>

\* ... and formulaParsed sets the flag, runs the waiting callbacks and tells
\* every peer.
SetParsed(n) ==
    /\ WorkerAt(n, "parsed")
    /\ WorkerTo(n, "callbacks")
    /\ status' = [status EXCEPT ![n][n].parsed = TRUE]
    /\ UNCHANGED <<storeVars, statusVars, afterParsing, solverVars, clauseVars, taskVars, io,
                   down, faults>>

Waiting(n) == {p \in Node : <<n, p>> \in afterParsing}

RunCallbacks(n) ==
    /\ WorkerAt(n, "callbacks")
    /\ Waiting(n) = {} \/ n \in manager
    /\ addPossiblyNewNodePeer(n, Waiting(n))
    /\ afterParsing' = {x \in afterParsing : x[1] # n}
    /\ WorkerTo(n, "announce")
    /\ UNCHANGED <<storeVars, status, remotelyKnown, sendingStatusTo, solverVars, learnedClauses,
                   initiallyFrom, taskVars, io, down, faults>>

AnnounceParsed(n) ==
    /\ WorkerAt(n, "announce") /\ io[n].pc # "offload"
    /\ WorkerTo(n, "idle")
    /\ conditionallySendStatusTo(n, Node, status[n][n])
    /\ chan' = WithStatus(chan, n, Node, status[n][n])
    /\ UNCHANGED <<storeVars, status, afterParsing, solverVars, clauseVars, taskVars, io, down,
                   faults>>

\* pop_work: a task of this node or of a peer.
TakeTask(n) ==
    /\ WorkerAt(n, "idle")
    /\ \E t \in Task :
          /\ worker' = [worker EXCEPT ![n] = At("run", t)]
          /\ \/ /\ home[t] = n /\ place[t] = "queued"
                /\ place' = [place EXCEPT ![t] = "running"] /\ UNCHANGED guest
             \/ /\ guest[t][n] = "queued"
                /\ guest' = [guest EXCEPT ![t][n] = "running"] /\ UNCHANGED place
    /\ UNCHANGED <<storeVars, status, statusVars, afterParsing, solverVars, clauseVars, home, io,
                   down, faults>>

\* The running task splits; the new task is queued at this node.
Split(n) ==
    /\ WorkerAt(n, "run")
    /\ newTask(n)
    /\ Enqueue(n, "worker", "run", worker[n].peer, chan, status[n])
    /\ UNCHANGED <<storeVars, afterParsing, solverVars, clauseVars, guest, down, faults>>

\* applyAndDistributeNewLearnedClause: keep the clause, then send it to the
\* peers known at that time.
Learn(n) ==
    /\ WorkerAt(n, "run") /\ n \in Learner /\ Undisturbed
    /\ learnedClauses' = [learnedClauses EXCEPT ![n] = @ \cup {n}]
    /\ WorkerTo(n, "distribute")
    /\ UNCHANGED <<storeVars, status, statusVars, afterParsing, solverVars, knownPeers,
                   initiallyFrom, taskVars, io, down, faults>>

Distribute(n) ==
    /\ WorkerAt(n, "distribute")
    /\ chan' = Push(chan, n, knownPeers[n] \cap sendable[n],
                    <<[kind |-> "clauses", clauses |-> {n}]>>)
    /\ WorkerTo(n, "run")
    /\ UNCHANGED <<storeVars, status, remotelyKnown, sendingStatusTo, afterParsing, solverVars,
                   clauseVars, taskVars, io, down, faults>>

\* Faulty variant: the counter shrinks though the task was aborted meanwhile.
Finish_Counts(n) ==
    LET t == worker[n].peer
        s == Resized(status[n][n], -1)
        visits == guest[t][n] = "running"
    IN  /\ WorkerAt(n, "run")
        /\ worker' = [worker EXCEPT ![n] = Idle]
        /\ place' = IF home[t] = n /\ place[t] = "running" THEN [place EXCEPT ![t] = "done"]
                    ELSE place
        /\ guest' = [guest EXCEPT ![t][n] = "none"]
        /\ status' = [status EXCEPT ![n][n] = s]
        /\ conditionallySendStatusTo(n, Node, s)
        /\ chan' = WithStatus(IF visits THEN Push(chan, n, {home[t]} \cap sendable[n],
                                                  <<[kind |-> "result", task |-> t]>>) ELSE chan,
                              n, Node, s)
        /\ UNCHANGED <<storeVars, afterParsing, solverVars, clauseVars, home, io, down, faults>>

\* The task ends: a received one sends its result home; one that was aborted
\* meanwhile leaves no trace.
Finish(n) ==
    LET t == worker[n].peer
        s == Resized(status[n][n], -1)
        here == home[t] = n /\ place[t] = "running"
        visits == guest[t][n] = "running"
        result == [kind |-> "result", task |-> t]
    IN  /\ WorkerAt(n, "run")
        /\ worker' = [worker EXCEPT ![n] = Idle]
        /\ place' = IF here THEN [place EXCEPT ![t] = "done"] ELSE place
        /\ guest' = IF visits THEN [guest EXCEPT ![t][n] = "none"] ELSE guest
        /\ status' = IF here \/ visits THEN [status EXCEPT ![n][n] = s] ELSE status
        /\ \E P \in IF here \/ visits THEN OnChange(n, "worker") ELSE {{}} :
              /\ conditionallySendStatusTo(n, P, s)
              /\ chan' = WithStatus(IF visits THEN Push(chan, n, {home[t]} \cap sendable[n],
                                                        <<result>>) ELSE chan, n, P, s)
        /\ UNCHANGED <<storeVars, afterParsing, solverVars, clauseVars, home, io, down, faults>>

-----------------------------------------------------------------------------
(* Exit and faults                                                         *)

\* The client has its answer: a task found an assignment, or the last one
\* ended.
Exit(n) ==
    /\ n = Client /\ Alive(n) /\ \E t \in Task : place[t] = "done"
    /\ RequestExit(n, chan)
    /\ UNCHANGED <<storeVars, status, remotelyKnown, sendingStatusTo, afterParsing, solverVars,
                   clauseVars, taskVars, faults>>

\* receiveMessageOfflineAnnouncement: a daemon may follow its client.
Follows(n, p) == AutoShutdown /\ n # Client /\ p = Client /\ p \in description[n]
receiveOffline(n, p) ==
    /\ Receives(n, p, "offline")
    /\ IF Follows(n, p) THEN RequestExit(n, Pop(chan, p, n))
       ELSE chan' = Pop(chan, p, n) /\ UNCHANGED <<io, worker, down>>
    /\ UNCHANGED <<storeVars, status, remotelyKnown, sendingStatusTo, afterParsing, solverVars,
                   clauseVars, taskVars, faults>>

\* The assertion on cadicalManager fails: the parser failed here, but was
\* announced as done.
AssertionFails(n) ==
    /\ Alive(n) /\ n \notin manager
    /\ \/ \E p \in Node \ {n} : Receives(n, p, "task") \/ Receives(n, p, "clauses")
       \/ io[n].pc \in {"check", "recheck"} /\ status[n][n].parsed
       \/ worker[n].pc = "callbacks" /\ Waiting(n) # {}
    /\ Stopped(n, chan)
    /\ UNCHANGED <<storeVars, status, remotelyKnown, sendingStatusTo, afterParsing, solverVars, clauseVars, taskVars,
                   faults>>

\* A connection is lost for good at n: the callbacks of all messages run, then
\* connection_dropped.
Drop(n, p) ==
    /\ Alive(n) /\ io[n] = Idle /\ p \in sendable[n]
    /\ Fault(n, Losing)
    /\ sendable' = [sendable EXCEPT ![n] = @ \ {p}]
    /\ sendingStatusTo' = sendingStatusTo \ {<<n, p>>}
    /\ chan' = [chan EXCEPT ![<<n, p>>] = <<>>, ![<<p, n>>] = <<>>]
    /\ io' = [io EXCEPT ![n] = At("undo", p)]
    /\ UNCHANGED <<nodes, description, dialled, status, remotelyKnown, afterParsing, solverVars,
                   clauseVars, taskVars, worker, down>>

\* undo_offload by the callbacks of the task messages without ACK, which take
\* the task off the peer's count, and undoAllOffloadsTo.
UndoOffload(n) ==
    LET p == io[n].peer
        T == {t \in Task : home[t] = n /\ place[t] = p}
    IN  /\ Alive(n) /\ io[n].pc = "undo"
        /\ \/ \E t \in T : /\ place' = [place EXCEPT ![t] = "queued"]
                           /\ \E unacknowledged \in {0, 1} :
                                  Enqueue(n, "io", "undo", p, chan,
                                          [status[n] EXCEPT ![p] = Resized(@, -unacknowledged)])
           \/ /\ T = {}
              /\ io' = [io EXCEPT ![n].pc = "abort"]
              /\ UNCHANGED <<place, status, statusVars, worker>>
        /\ UNCHANGED <<storeVars, afterParsing, solverVars, clauseVars, home, guest, down,
                       faults>>

\* abort_tasks_received_from, and the shutdown that may follow.
AbortReceived(n) ==
    LET p == io[n].peer
        T == {t \in Task : home[t] = p /\ guest[t][n] # "none"}
        s == Resized(status[n][n], -1)
    IN  /\ Alive(n) /\ io[n].pc = "abort"
        /\ \/ /\ \E t \in T : guest' = [guest EXCEPT ![t][n] = "none"]
              /\ status' = [status EXCEPT ![n][n] = s]
              /\ \E P \in OnChange(n, "io") : conditionallySendStatusTo(n, P, s)
                                    /\ chan' = WithStatus(chan, n, P, s)
              /\ UNCHANGED <<io, worker, down>>
           \/ /\ T = {}
              /\ IF Follows(n, p) THEN RequestExit(n, chan)
                 ELSE io' = [io EXCEPT ![n] = Idle] /\ UNCHANGED <<chan, worker, down>>
              /\ UNCHANGED <<guest, status, remotelyKnown, sendingStatusTo>>
        /\ UNCHANGED <<storeVars, afterParsing, solverVars, clauseVars, home, place, faults>>

-----------------------------------------------------------------------------
receiveMessage(n, p) ==
    \/ receiveDescription(n, p) \/ receiveKnownRemotes(n, p)
    \/ receiveConfig(n, p) \/ ConfigAcknowledged(n, p) \/ receiveFile(n, p)
    \/ receiveStatus(n, p) \/ StatusAcknowledged(n, p)
    \/ receiveTask(n, p) \/ receiveResult(n, p) \/ receiveClauses(n, p)
    \/ receiveOffline(n, p)

ioStep(n) ==
    \/ CheckParsed(n) \/ RegisterCallback(n) \/ RecheckParsed(n) \/ React(n)
    \/ ClearSending(n) \/ OfferTask(n, "io")
    \/ UndoOffload(n) \/ AbortReceived(n)

workerStep(n) ==
    \/ Parse(n) \/ AssessParser(n) \/ SetParsed(n) \/ RunCallbacks(n) \/ AnnounceParsed(n)
    \/ TakeTask(n) \/ OfferTask(n, "worker") \/ Distribute(n) \/ Finish(n)

Next ==
    \E n \in Node :
        \/ ioStep(n) \/ workerStep(n)
        \/ Split(n) \/ Learn(n) \/ ParseFails(n) \/ Exit(n) \/ AssertionFails(n)
        \/ \E p \in Node \ {n} : Connect(n, p) \/ receiveMessage(n, p) \/ Drop(n, p)

Spec == Init /\ [][Next]_vars

-----------------------------------------------------------------------------
(* Properties                                                              *)

Message ==
    [kind : {"description", "config", "file", "offline"}]
    \cup [kind : {"remotes"}, remotes : SUBSET Node]
    \cup [kind : {"status"}, status : Status]
    \cup [kind : {"task", "result"}, task : Task]
    \cup [kind : {"clauses"}, clauses : SUBSET Node]
    \cup [kind : {"ack"}, of : {"config", "status"}, status : {"ok", "already"}]

\* Every variable keeps its type, and no node ever counts less than no work.
TypeOK ==
    /\ nodes \in [Node -> SUBSET Node] /\ sendable \in [Node -> SUBSET Node]
    /\ description \in [Node -> SUBSET Node]
    /\ dialled \subseteq Pair /\ sendingStatusTo \subseteq Pair /\ afterParsing \subseteq Pair
    /\ \A n, p \in Node : /\ status[n][p] \in Status
                          /\ remotelyKnown[n][p] = Nil \/ remotelyKnown[n][p] \in Status
    /\ instance \subseteq Node /\ configured \subseteq Node /\ manager \subseteq Node
    /\ parser \in [Node -> {"none", "queued", "parsed", "failed"}]
    /\ knownPeers \in [Node -> SUBSET Node] /\ learnedClauses \in [Node -> SUBSET Node]
    /\ initiallyFrom \in [Node -> Node \cup {Nil}]
    /\ home \in [Task -> Node \cup {Nil}]
    /\ place \in [Task -> Node \cup {"unborn", "queued", "running", "done"}]
    /\ guest \in [Task -> [Node -> {"none", "queued", "running"}]]
    /\ down \subseteq Node /\ faults \subseteq Node
    /\ \A x \in Pair : \A i \in DOMAIN chan[x] : chan[x][i] \in Message

\* Both ends of a connection still use it.
Connected(n, p) ==
    /\ Alive(n) /\ Alive(p)
    /\ p \in sendable[n] /\ n \in sendable[p]

Queued(n, p, kind) == {i \in DOMAIN chan[<<n, p>>] : chan[<<n, p>>][i].kind = kind}

\* A message for the solver module finds there what its handler asserts: the
\* instance the client's description created, a configuration before the
\* formula, one formula, and a CaDiCaLManager (or a parser that failed) before
\* tasks and clauses (solver.cpp, instance_handle_message and
\* instance_handle_formula; broker_compute_node.cpp, receiveFileFrom).
SolverReady ==
    \A n \in Node : \A p \in sendable[n] :
        Alive(n) /\ chan[<<p, n>>] # <<>> =>
            LET kind == Head(chan[<<p, n>>]).kind
            IN  /\ kind \in {"config", "file", "task", "clauses"} => n \in instance
                /\ kind = "config" => n \notin configured
                /\ kind = "file" => n \in configured /\ parser[n] = "none"
                /\ kind \in {"task", "clauses"} => n \in manager \/ parser[n] = "failed"

\* m_sendingStatusTo is set exactly while a status is on its way to the peer,
\* being handled there, or on its way back as an ACK: at most one status is in
\* flight, and the flag is never left set, which would silence the node for
\* good (conditionallySendStatusTo and the callback of the message).
FlagMeansInFlight ==
    \A n, p \in Node : n # p /\ Connected(n, p) =>
        LET stages == [sent |-> Cardinality(Queued(n, p, "status")),
                       handled |-> IF io[p].pc \in {"check", "register", "recheck", "react"}
                                      /\ io[p].peer = n THEN 1 ELSE 0,
                       acked |-> Cardinality({i \in Queued(p, n, "ack") :
                                                 chan[<<p, n>>][i].of = "status"}),
                       called |-> IF io[n].pc = "clear" /\ io[n].peer = p THEN 1 ELSE 0]
            flying == stages.sent + stages.handled + stages.acked + stages.called
        IN  flying = IF <<n, p>> \in sendingStatusTo THEN 1 ELSE 0

\* What a node believes its peer knows of it is what the peer has, once the
\* status is delivered: the formula parsed or not, so a node never takes for
\* announced what its peer was not told (m_remotelyKnownLocalStatus against
\* the peer's m_status).
KnowledgeAgrees ==
    \A n, p \in Node : n # p /\ Connected(n, p) /\ Queued(n, p, "status") = {} =>
        /\ remotelyKnown[n][p] # Nil => status[p][n].parsed = remotelyKnown[n][p].parsed
        /\ remotelyKnown[n][p] = Nil => ~status[p][n].parsed

\* A peer that finished parsing while this node had not is registered with the
\* local CaDiCaLManager in the end: the callback is either still to be called
\* or the peer is known, whichever way the I/O thread's check, registration
\* and second check interleave with the worker's formulaParsed
\* (runCBAfterParsingOfFormulaIsDone).
PeersRegistered ==
    \A n, p \in Node :
        /\ Alive(n) /\ n \in manager
        /\ status[n][p].parsed /\ p # n
        /\ <<n, p>> \in afterParsing \/ p \in knownPeers[n]
        /\ worker[n].pc \notin {"assess", "parsed", "callbacks", "offload"} /\ status[n][n].parsed
        /\ ~(io[n].pc = "recheck" /\ io[n].peer = p)
        => p \in knownPeers[n]

\* A clause a node found reaches every peer it knows: it is there or on its
\* way, also when the peer is registered while the clause is being
\* distributed.  The exception is the peer the first clauses came from, which
\* is never sent the older ones (addPossiblyNewNodePeer,
\* applyAndDistributeNewLearnedClause).
ClausesShared ==
    \A n \in Node : \A p \in knownPeers[n] \ {initiallyFrom[n]} :
        /\ Connected(n, p) /\ n \in learnedClauses[n] /\ worker[n].pc # "distribute"
        => \/ n \in learnedClauses[p]
           \/ \E i \in Queued(n, p, "clauses") : n \in chan[<<n, p>>][i].clauses

\* The counter a node announces is the work it has: its parser, its own tasks
\* that are not offloaded and the tasks of peers, through offloads, results,
\* lost connections and aborts.
LoadCounted ==
    \A n \in Node : Alive(n) =>
        status[n][n].size =
            Cardinality({t \in Task : home[t] = n /\ place[t] \in {"queued", "running"}})
            + Cardinality({t \in Task : guest[t][n] # "none"})
            + IF \/ parser[n] = "queued" \/ worker[n].pc = "assess"
                 \/ worker[n].pc = "offload" /\ worker[n].next = "assess" THEN 1 ELSE 0

\* Without a lost connection a task is in one place: at home, on its way to a
\* peer, at the peer, or on its way back as a result.
ExecutedOnce ==
    faults = {} /\ down = {} =>
        \A t \in Task :
            Cardinality({n \in Node : guest[t][n] # "none"})
            + Cardinality({m \in Pair \X {"task", "result"} :
                              \E i \in Queued(m[1][1], m[1][2], m[2]) : chan[m[1]][i].task = t})
            = IF place[t] \in Node THEN 1 ELSE 0

\* Does not hold, and no run checks it: a peer whose first status already says
\* "parsed" makes no jump from parsing to parsed, so it is never registered
\* and the clauses found here are not sent to it (receiveMessageStatusFrom).
EveryPeerRegistered ==
    \A n, p \in Node :
        /\ n # p /\ Connected(n, p) /\ n \in manager
        /\ status[n][p].parsed /\ status[n][n].parsed
        /\ io[n] = Idle /\ worker[n].pc \in {"idle", "run"}
        => p \in knownPeers[n]

=============================================================================
