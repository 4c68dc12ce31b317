----------------------------- MODULE ChannelHub -----------------------------
(***************************************************************************)
(* A channel process (apps/channel/src): the registry of its agents, the    *)
(* read-write lock around it, the tools of its agents, the events by which  *)
(* the daemon tells of spawned and ended agents, the heartbeat monitor with *)
(* its crash handler, and the states of the process.                        *)
(*                                                                         *)
(* An operation awaits the lock and then runs its section without another   *)
(* await.  A grant resolves a promise: the section runs in a later          *)
(* microtask, and sections granted together run in any order.  Timers fire  *)
(* when no microtask is left.                                               *)
(***************************************************************************)
EXTENDS Integers, FiniteSets, Sequences

CONSTANTS
    Agents,
    NoAgent,         \* no entry
    MissThreshold,   \* DEFAULT_HEARTBEAT_MISS_THRESHOLD
    MaxOps,          \* bound: operations that agents and the daemon begin
    MaxAtOnce        \* bound: operations under way

VARIABLES
    agents,          \* the registry's map
    readers, writer, \* the lock: how many read, whether one writes
    waitQueue,       \* the operations that wait for it, in order
    ops,             \* operations under way
    channel,         \* the state of the process
    opsMade,         \* number of operations begun
    sections,        \* number of write sections run
    applied          \* history: the last event of the daemon applied to each agent

lockVars == <<readers, writer, waitQueue>>
vars == <<agents, lockVars, ops, channel, opsMade, sections, applied>>

Tools == {"register", "deregister", "look"}
Events == {"spawned", "terminated", "registered", "health_changed"}

Init ==
    /\ agents = [a \in Agents |-> NoAgent]
    /\ readers = 0 /\ writer = FALSE /\ waitQueue = <<>>
    /\ ops = {}
    /\ channel = "STARTING"
    /\ opsMade = 0 /\ sections = 0
    /\ applied = [a \in Agents |-> 0]

Has(a) == agents[a] # NoAgent

\* An entry: its health, the heartbeat ticks since its last heartbeat, its misses,
\* and when it was made.
Entry(n) ==
    [health |-> "HEALTHY", ticks |-> 0, misses |-> 0, made |-> n]

-----------------------------------------------------------------------------
(* RWLock, as the state [readers, writer, queue, granted] after an operation. *)

Lock == [readers |-> readers, writer |-> writer, queue |-> waitQueue, granted |-> {}]
Reads(w) == w.type = "read"
Waiter(op, type) == [n |-> op.n, type |-> type]

AcquireRead(op) ==
    IF ~writer /\ \A k \in DOMAIN waitQueue : Reads(waitQueue[k])
    THEN [Lock EXCEPT !.readers = @ + 1, !.granted = {op.n}]
    ELSE [Lock EXCEPT !.queue = Append(@, Waiter(op, "read"))]

\* A form of AcquireWrite that lets the last one in first.
AcquireWriteFirst(op) ==
    IF ~writer /\ readers = 0
    THEN [Lock EXCEPT !.writer = TRUE, !.granted = {op.n}]
    ELSE [Lock EXCEPT !.queue = <<Waiter(op, "write")>> \o @]

AcquireWrite(op) ==
    IF ~writer /\ readers = 0
    THEN [Lock EXCEPT !.writer = TRUE, !.granted = {op.n}]
    ELSE [Lock EXCEPT !.queue = Append(@, Waiter(op, "write"))]

\* The number of readers at the head of the queue.
ReadersAhead(queue) ==
    CHOOSE n \in 0..Len(queue) :
        /\ \A k \in 1..n : Reads(queue[k])
        /\ n = Len(queue) \/ ~Reads(queue[n + 1])

\* processQueue: one writer, or the readers up to the next writer.
ProcessQueue(l) ==
    LET r == ReadersAhead(l.queue)
    IN  IF l.queue = <<>> \/ l.writer \/ (r = 0 /\ l.readers > 0) THEN l
        ELSE IF r = 0 THEN [l EXCEPT !.queue = Tail(@), !.writer = TRUE,
                                     !.granted = {Head(l.queue).n}]
        ELSE [l EXCEPT !.queue = SubSeq(@, r + 1, Len(@)), !.readers = @ + r,
                       !.granted = {l.queue[k].n : k \in 1..r}]

\* A form of ReleaseRead that leaves the queue to the next release.
ReleaseReadAlone == [Lock EXCEPT !.readers = @ - 1]

ReleaseRead ==
    LET l == [Lock EXCEPT !.readers = @ - 1]
    IN  IF l.readers = 0 THEN ProcessQueue(l) ELSE l

ReleaseWrite == ProcessQueue([Lock EXCEPT !.writer = FALSE])

\* Operations, of which those granted the lock go on.
Resumed(set, granted) ==
    {IF op.n \in granted THEN [op EXCEPT !.runs = TRUE] ELSE op : op \in set}

\* The lock becomes l, for the operations of `set`.
Locked(l, set) ==
    /\ readers' = l.readers /\ writer' = l.writer /\ waitQueue' = l.queue
    /\ ops' = Resumed(set, l.granted)

-----------------------------------------------------------------------------
(* Operations. *)

\* Its next section only reads.
OnlyReads(op) == op.do = "look" \/ (op.do = "register" /\ op.seen < 0)

\* An operation begins and asks for the lock.  The heartbeat's crash handlers have
\* the thread for themselves; events are heard while the bridge is attached.
Begin(do, a) ==
    LET op == [n |-> opsMade + 1, do |-> do, a |-> a, runs |-> FALSE, seen |-> -1]
    IN  /\ opsMade < MaxOps /\ Cardinality(ops) < MaxAtOnce
        /\ \A other \in ops : other.do # "crash"
        /\ do \in Events => channel = "RUNNING"
        /\ opsMade' = opsMade + 1
        /\ Locked(IF OnlyReads(op) THEN AcquireRead(op) ELSE AcquireWrite(op),
                  ops \cup {op})
        /\ UNCHANGED <<agents, channel, sections, applied>>

\* The section of a tool that only looks: sendMessage, broadcastMessage,
\* getAgentStatus and listAgents.
Look(op) ==
    /\ op.runs /\ op.do = "look"
    /\ Locked(ReleaseRead, ops \ {op})
    /\ UNCHANGED <<agents, sections>>

\* registerAgent up to its write lock: an agent that is known is refused, and so is
\* one that fails a check of the request.
CheckUnique(op) ==
    /\ op.runs /\ op.do = "register" /\ op.seen < 0
    /\ Locked(ReleaseRead,
              IF Has(op.a) THEN ops \ {op}
              ELSE (ops \ {op}) \cup {[op EXCEPT !.runs = FALSE, !.seen = sections]})
    /\ UNCHANGED <<agents, sections>>

Validate(op) ==
    /\ op.do = "register" /\ op.seen >= 0 /\ ~op.runs
    /\ \A k \in DOMAIN waitQueue : waitQueue[k].n # op.n
    /\ \/ Locked(Lock, ops \ {op})
       \/ Locked(AcquireWrite(op), ops)
    /\ UNCHANGED <<agents, sections>>

\* What a write section makes of the registry.
Replace(a, entry) == [agents EXCEPT ![a] = entry]
Register(op) == agents' = Replace(op.a, Entry(sections + 1))

\* A form of Spawned that does not look for an entry.
SpawnedUnchecked(op) ==
    agents' = Replace(op.a, Entry(sections + 1))

\* onAgentSpawned: an agent that is known is not replaced.
Spawned(op) ==
    agents' = IF Has(op.a) THEN agents ELSE Replace(op.a, Entry(sections + 1))

\* onAgentTerminated, deregisterAgent, handleAgentCrash
Dropped(op) == agents' = Replace(op.a, NoAgent)

\* onAgentHealthChanged
SetHealth(op) ==
    IF Has(op.a)
    THEN \E health \in {"HEALTHY", "TERMINATED"} :
            agents' = [agents EXCEPT ![op.a].health = health]
    ELSE UNCHANGED agents

Write(op) ==
    /\ op.runs /\ ~OnlyReads(op)
    /\ CASE op.do = "register" -> Register(op)
         [] op.do = "spawned" -> Spawned(op)
         [] op.do \in {"terminated", "deregister", "crash"} -> Dropped(op)
         [] op.do = "health_changed" -> SetHealth(op)
         [] op.do = "registered" -> UNCHANGED agents
    /\ sections' = sections + 1
    /\ applied' = IF op.do \in Events THEN [applied EXCEPT ![op.a] = op.n] ELSE applied
    /\ Locked(ReleaseWrite, ops \ {op})
    /\ UNCHANGED <<channel, opsMade>>

Reading(op) ==
    /\ Look(op) \/ CheckUnique(op) \/ Validate(op)
    /\ UNCHANGED <<channel, opsMade, applied>>

\* A tick of the heartbeat monitor: an agent whose heartbeat is older than the
\* interval misses one, and is dead at the threshold.
Missed(e) ==
    IF e = NoAgent \/ e.health = "TERMINATED" THEN e
    ELSE IF e.ticks = 0 THEN [e EXCEPT !.ticks = 1]
    ELSE [e EXCEPT !.misses = @ + 1,
                   !.health = CASE e.misses + 1 >= MissThreshold -> "TERMINATED"
                                [] e.misses + 1 = 1 -> "DEGRADED"
                                [] OTHER -> "UNREACHABLE"]

\* The crash handler of the k-th agent found dead.
Crash(k, a) ==
    [n |-> opsMade + k, do |-> "crash", a |-> a, runs |-> k = 1, seen |-> -1]

\* The first of the agents found dead gets the lock at once, the others wait for it.
Tick ==
    LET dead == {a \in Agents : Has(a) /\ agents[a].health # "TERMINATED"
                                       /\ Missed(agents[a]).health = "TERMINATED"}
        count == Cardinality(dead)
    IN  /\ channel = "RUNNING" /\ ops = {}
        /\ agents' = [a \in Agents |-> Missed(agents[a])]
        /\ writer' = (dead # {})
        /\ \E order \in [1..count -> dead] :
              /\ \A j, k \in 1..count : order[j] = order[k] => j = k
              /\ ops' = {Crash(k, order[k]) : k \in 1..count}
              /\ waitQueue' = [k \in 1..(count - 1) |->
                                 Waiter(Crash(k + 1, order[k + 1]), "write")]
        /\ opsMade' = opsMade + count
        /\ UNCHANGED <<readers, channel, sections, applied>>

\* start, shutdown, the end of its grace period, and forceTerminate.
ChangeState ==
    /\ \/ channel = "STARTING" /\ channel' \in {"RUNNING", "DRAINING", "TERMINATED"}
       \/ channel = "RUNNING" /\ channel' \in {"DRAINING", "TERMINATED"}
       \/ channel = "DRAINING" /\ channel' = "TERMINATED"
    /\ UNCHANGED <<agents, lockVars, ops, opsMade, sections, applied>>

Next ==
    \/ \E do \in Tools \cup Events, a \in Agents : Begin(do, a)
    \/ \E op \in ops : Reading(op) \/ Write(op)
    \/ Tick \/ ChangeState

Spec == Init /\ [][Next]_vars

-----------------------------------------------------------------------------
(* Properties. *)

\* A section that writes runs alone, the lock counts its sections rightly, and
\* nobody waits for a lock that is free: no grant is lost.
LockServesAll ==
    /\ readers = Cardinality({op \in ops : op.runs /\ OnlyReads(op)})
    /\ Cardinality({op \in ops : op.runs /\ ~OnlyReads(op)}) = IF writer THEN 1 ELSE 0
    /\ writer => readers = 0
    /\ waitQueue # <<>> => writer \/ readers > 0
    /\ \A k \in DOMAIN waitQueue : \E op \in ops : op.n = waitQueue[k].n /\ ~op.runs

Ended(op) == \A other \in ops' : other.n # op.n

\* An agent's entry is replaced only by a registration that had looked before the
\* entry was made: an event of the daemon never replaces one.  A crash handler
\* removes none but the dead.
EntriesStayOwn ==
    [][\A op \in ops :
         Has(op.a) /\ agents'[op.a] # agents[op.a] /\ Ended(op) =>
            /\ op.do # "spawned"
            /\ op.do = "register" => op.seen < agents[op.a].made
            /\ op.do = "crash" => agents[op.a].health = "TERMINATED"]_vars

\* The daemon's events are applied to an agent in the order in which they came.
EventsApplyInOrder == [][\A a \in Agents : applied'[a] >= applied[a]]_vars
=============================================================================
