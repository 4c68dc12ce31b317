---------------------------- MODULE ChildDaemons ----------------------------
(***************************************************************************)
(* The process tree one daemon keeps: spawn, fork and branch, the          *)
(* supervisor, and the shutdown that takes the children down               *)
(* (apps/runner/src/daemon/daemon-entry.ts with spawn-validator.ts,        *)
(* supervisor.ts, permission-lattice.ts and generation-counter.ts).        *)
(*                                                                         *)
(* A spawn suspends where it reads the child's configuration: once before  *)
(* the permission lattice is checked, once between the launch of the       *)
(* process and its registration.  A supervisor tick and the cascade never  *)
(* suspend across a macrotask: spawnDaemon and the termination of an entry *)
(* do no asynchronous I/O, so each is one action.                          *)
(*                                                                         *)
(* Processes are numbered, 0 is the daemon itself; the number of a process *)
(* that is gone and forgotten is used again.                               *)
(* An id is one the caller gave or one made of the parent's id and its     *)
(* generation number (GenerationCounter).  A child's configuration may     *)
(* name any path and declare any capabilities.  Nothing calls              *)
(* gracefulStopAgent, so no entry is ever draining.                        *)
(***************************************************************************)
EXTENDS Integers, FiniteSets, SequencesExt

CONSTANTS
    Names,           \* ids of children
    Root,            \* the daemon's own agent
    Strays,          \* ids a caller may name as parent that are never registered
    None,            \* no parent
    MaxDepth,        \* COMPOSITE_AGENT_MAX_DEPTH
    Strategies,      \* restart strategies a caller may choose
    Budgets,         \* values of maxRestarts
    Slots,           \* bound: spawns, forks and branches under way at once
    MaxProcs         \* bound: processes launched

ASSUME ChildAssumption ==
    /\ Strategies \subseteq {"one-for-one", "one-for-all", "rest-for-one"}
    /\ Budgets \subseteq Nat
    /\ Slots \subseteq Nat /\ IsFiniteSet(Slots)
    /\ MaxProcs \in Nat
    /\ Root \notin Names
    /\ None \notin Names \cup {Root} \cup Strays

VARIABLES
    phase,           \* of the daemon: "up", "saving", "reaped", "exited"
    registry,        \* agentRegistry, in the order of insertion: sequence of entries
    alive,           \* the processes launched that still run
    watched,         \* supervisedChildren, in the order of insertion, which is that of
                     \* their order fields: both are kept or renewed together
    monitor,         \* the supervisor's interval is set
    broken,          \* ids whose process can never be launched again
    calls,           \* calls[s]: the spawn, fork or branch in slot s
    late             \* history: processes launched after the cascade

treeVars == <<registry, alive>>
superVars == <<watched, monitor, broken>>
vars == <<phase, treeVars, superVars, calls, late>>

Parents == Names \cup {Root} \cup Strays
Idle == [at |-> "idle"]

\* The child a call is about.
Child(c) == Head(c.wants)

\* AgentRegistryEntry.  An entry is known by the process it was registered with.
Entry(id, pid, parent) ==
    [id |-> id, pid |-> pid, born |-> pid, parent |-> parent,
     status |-> "running", kids |-> <<>>, origin |-> FALSE]

Init ==
    /\ phase = "up"
    /\ registry = <<>>
    /\ alive = {}
    /\ watched = <<>> /\ monitor = FALSE /\ broken \in SUBSET Names
    /\ calls = [s \in Slots |-> Idle]
    /\ late = {}

-----------------------------------------------------------------------------
(* The registry. *)

Registered(id) == \E k \in DOMAIN registry : registry[k].id = id
EntryOf(id) == registry[CHOOSE k \in DOMAIN registry : registry[k].id = id]

\* A form of Put that keeps the old entry beside the new one.
PutBeside(reg, e) == Append(reg, e)

\* agentRegistry.set: an entry of the same id is replaced where it stands.
Put(reg, e) ==
    IF \E k \in DOMAIN reg : reg[k].id = e.id
    THEN [k \in DOMAIN reg |-> IF reg[k].id = e.id THEN e ELSE reg[k]]
    ELSE Append(reg, e)

\* computeAgentDepth, which gives up on a chain longer than it can be.
DepthOf(id) ==
    LET up[n \in 0..(MaxDepth + 2), a \in Parents] ==
            IF n = 0 \/ ~Registered(a) \/ EntryOf(a).parent = None THEN 0
            ELSE 1 + up[n - 1, EntryOf(a).parent]
    IN  up[MaxDepth + 2, id]

\* validateSpawnConstraints with what handleSpawnChild passes it: the depth, and
\* the capabilities of a child's configuration where that could be read.  Every
\* child is registered with no capability to pass on.
WithinLattice(parent, declared) ==
    /\ DepthOf(parent) + 1 <= MaxDepth
    /\ declared => parent = Root

\* The id is taken: by an entry of any status, the daemon's own included.
Collides(id) == Registered(id)

\* The end of the start: the daemon registers its own agent.  Its server has
\* accepted calls since before the core was started, and a signal may have come.
SelfRegister ==
    /\ phase # "exited" /\ ~Registered(Root)
    /\ registry' = Put(registry, Entry(Root, 0, None))
    /\ UNCHANGED <<phase, alive, superVars, calls, late>>

-----------------------------------------------------------------------------
(* Spawn, fork and branch. *)

\* A call arrives, by RPC or from the agent's own tools, for children in turn.
Ask(s, fork, parent, wants) ==
    /\ phase # "exited"
    /\ calls[s] = Idle
    /\ \A t \in Slots : t < s => calls[t] # Idle
    /\ calls' = [calls EXCEPT ![s] =
            [at |-> IF fork THEN "snapshot" ELSE "check", fork |-> fork,
             parent |-> parent, wants |-> wants,
             over |-> 0, known |-> FALSE, pid |-> 0]]
    /\ UNCHANGED <<phase, treeVars, superVars, late>>

SpawnChild(s, parent, id) == Ask(s, FALSE, parent, <<id>>)

\* One child with a copy of the parent's session, or several of the same copy.
Fork(s, parent, id) == Ask(s, TRUE, parent, <<id>>)
Branch(s, parent, ids) == Ask(s, TRUE, parent, ids)

Goto(s, label) == calls' = [calls EXCEPT ![s].at = label]
End(s) == calls' = [calls EXCEPT ![s] = Idle]

\* The call goes on to its next child, or returns.
NextChild(s) ==
    LET c == calls[s]
    IN  IF Len(c.wants) > 1
        THEN calls' = [calls EXCEPT ![s] = [c EXCEPT !.at = "check", !.wants = Tail(c.wants),
                                                     !.over = 0, !.known = FALSE, !.pid = 0]]
        ELSE End(s)

\* loadSnapshotOrThrow: the parent's session is read, or there is none.
LoadSnapshot(s) ==
    /\ phase # "exited" /\ calls[s].at = "snapshot"
    /\ Goto(s, "check") \/ End(s)
    /\ UNCHANGED <<phase, treeVars, superVars, late>>

\* The processes that run or are remembered, and a number for the next one.
Used(running, reg) ==
    running \cup {reg[k].pid : k \in DOMAIN reg} \cup {reg[k].born : k \in DOMAIN reg}
            \cup {calls[s].over : s \in {t \in Slots : calls[t] # Idle}}
            \cup {calls[s].pid : s \in {t \in Slots : calls[t] # Idle}}
Fresh(used) == CHOOSE n \in 1..(Cardinality(used) + 1) : n \notin used

\* spawnDaemon, and the call's wait for the configuration of the new process.
Launch(s, c) ==
    LET pid == Fresh(Used(alive, registry))
    IN  /\ Cardinality(Used(alive, registry)) <= MaxProcs
        /\ alive' = alive \cup {pid}
        /\ calls' = [calls EXCEPT ![s] = [c EXCEPT !.at = "register", !.pid = pid]]
        /\ late' = IF phase = "reaped" THEN late \cup {pid} ELSE late
    /\ UNCHANGED registry

\* handleSpawnChild up to its first await, or up to the second for a parent that
\* is not registered: no lattice is checked then.  Whatever the id, the call may
\* end here because the path of its configuration is outside the parent's.
Check(s) ==
    /\ phase # "exited" /\ calls[s].at = "check"
    /\ IF phase # "up"
       THEN End(s) /\ UNCHANGED <<treeVars, late>>
       ELSE LET parent == calls[s].parent
                c == [calls[s] EXCEPT !.known = Registered(parent),
                          !.over = IF Registered(parent) THEN EntryOf(parent).born ELSE 0]
            IN  \/ End(s) /\ UNCHANGED <<treeVars, late>>
                \/ /\ ~Collides(Child(c)) /\ c.known
                   /\ calls' = [calls EXCEPT ![s] = [c EXCEPT !.at = "lattice"]]
                   /\ UNCHANGED <<treeVars, late>>
                \/ ~Collides(Child(c)) /\ ~c.known /\ Launch(s, c)
    /\ UNCHANGED <<phase, superVars>>

\* The configuration is read, and declares capabilities, or declares none or cannot
\* be read: the lattice is checked, and the child is launched.
CheckLattice(s) ==
    /\ phase # "exited" /\ calls[s].at = "lattice"
    /\ \E declared \in BOOLEAN :
        IF WithinLattice(calls[s].parent, declared)
        THEN Launch(s, calls[s])
        ELSE End(s) /\ UNCHANGED <<treeVars, late>>
    /\ UNCHANGED <<phase, superVars>>

\* A form of IsParent for a handler that looks the parent up again.
IsNamedParent(e, c) == e.id = c.parent

\* The entry handleSpawnChild found as parent before its first await, if any.
IsParent(e, c) == c.known /\ e.id = c.parent /\ e.born = c.over

\* The new process's configuration is read: handleSpawnChild registers the child,
\* in place of any entry of that id, and adds it to the children of the parent's
\* entry it found at the start, which may have been replaced since.
Register(s) ==
    /\ phase # "exited" /\ calls[s].at = "register"
    /\ LET c == calls[s]
           reg == Put(registry, Entry(Child(c), c.pid, c.parent))
       IN  registry' = [k \in DOMAIN reg |->
                IF IsParent(reg[k], c)
                THEN [reg[k] EXCEPT !.kids = Append(@, Child(c))] ELSE reg[k]]
    /\ IF calls[s].fork THEN Goto(s, "inject") ELSE End(s)
    /\ late' = IF phase = "reaped" THEN late \cup {calls[s].pid} ELSE late
    /\ UNCHANGED <<phase, alive, superVars>>

\* injectForkSnapshot: the entry is marked, and the snapshot written as the
\* child's first session; a failed write ends a branch with the children it has.
Inject(s) ==
    /\ phase # "exited" /\ calls[s].at = "inject"
    /\ registry' = [k \in DOMAIN registry |->
            IF registry[k].id = Child(calls[s]) THEN [registry[k] EXCEPT !.origin = TRUE]
                                            ELSE registry[k]]
    /\ NextChild(s) \/ End(s)
    /\ UNCHANGED <<phase, alive, superVars, late>>

-----------------------------------------------------------------------------
(* The supervisor.  A watched child keeps its place in the order, and its count *)
(* of restarts, when it is supervised again.                                    *)

IsWatched(id) == \E k \in DOMAIN watched : watched[k].id = id

Supervise(id, strategy, budget) ==
    /\ phase # "exited"
    /\ Registered(id) /\ id # Root
    /\ watched' =
        IF IsWatched(id)
        THEN [k \in DOMAIN watched |-> IF watched[k].id # id THEN watched[k]
                  ELSE [watched[k] EXCEPT !.strategy = strategy, !.max = budget]]
        ELSE Append(watched, [id |-> id, strategy |-> strategy, max |-> budget,
                              count |-> 0])
    /\ monitor' = TRUE
    /\ UNCHANGED <<phase, broken, treeVars, calls, late>>

\* A process of the tree dies; the tree is followed while the daemon runs.
Crash(p) ==
    /\ phase # "exited" /\ p \in alive
    /\ alive' = alive \ {p}
    /\ UNCHANGED <<phase, registry, superVars, calls, late>>

\* A watched child whose process is gone though its entry says it runs.
Crashed(id) ==
    /\ IsWatched(id) /\ Registered(id)
    /\ EntryOf(id).status = "running" /\ EntryOf(id).pid \notin alive

\* withinRestartBudget does not hold.
Spent(w) == w.count >= w.max

\* selectRestartSet.
RestartSet(k) ==
    {watched[j].id : j \in CASE watched[k].strategy = "one-for-all"  -> DOMAIN watched
                             [] watched[k].strategy = "rest-for-one" -> k..Len(watched)
                             [] OTHER                                -> {k}}

\* A form of Attempted that counts only restarts that succeed.
Succeeded(w, bad) == [w EXCEPT !.count = IF w.id \in bad THEN @ ELSE @ + 1]

\* The count of restarts after an attempt, which fails for the ids in bad: the
\* attempt counts before the launch.
Attempted(w, bad) == [w EXCEPT !.count = @ + 1]

\* restartSupervisedChild for the ids of a set, of which those in bad cannot be
\* launched: a child with no restart left is no longer supervised; of the others,
\* a process that still runs is killed, and a new one takes its number.
Restart(ids, bad) ==
    LET spent == {watched[j].id : j \in {i \in DOMAIN watched : Spent(watched[i])}}
        tried == ids \ spent
        pids(S) == {EntryOf(id).pid : id \in S}
        kept == {j \in DOMAIN watched : watched[j].id \notin ids \cap spent}
    IN  /\ \E at \in [1..Cardinality(kept) -> kept] :
            /\ \A i, j \in DOMAIN at : i < j => at[i] < at[j]
            /\ watched' = [j \in DOMAIN at |->
                    IF watched[at[j]].id \in ids THEN Attempted(watched[at[j]], bad)
                                                ELSE watched[at[j]]]
        /\ alive' = (alive \ pids(tried)) \cup pids(tried \ bad)
        /\ registry' = [k \in DOMAIN registry |->
                IF registry[k].id \in tried \ bad
                THEN [registry[k] EXCEPT !.status = "running"] ELSE registry[k]]
        /\ late' = IF phase = "reaped" THEN late \cup pids(tried \ bad) ELSE late

\* superviseTick: the first crashed child in the map, and the set it takes along.
Tick ==
    /\ phase # "exited" /\ monitor
    /\ \E k \in DOMAIN watched :
        /\ Crashed(watched[k].id)
        /\ \A j \in 1..(k - 1) : ~Crashed(watched[j].id)
        /\ \E bad \in {B \in SUBSET Names : broken \subseteq B} : Restart(RestartSet(k), bad)
    /\ UNCHANGED <<phase, monitor, broken, calls>>

-----------------------------------------------------------------------------
(* The end of the daemon. *)

\* A signal or agent.stop: shutdown up to the saving of the sessions.
StopBegins ==
    /\ phase = "up"
    /\ phase' = "saving" /\ monitor' = FALSE
    /\ UNCHANGED <<treeVars, watched, broken, calls, late>>

Ids == {registry[k].id : k \in DOMAIN registry}

\* The children of the entries of these ids that are not terminated yet.
LiveKids(S) ==
    {registry[k].id : k \in {j \in DOMAIN registry :
        /\ registry[j].status # "terminated"
        /\ \E p \in DOMAIN registry : registry[p].id \in S /\ Contains(registry[p].kids, registry[j].id)}}

\* cascadeTermination: the ids a walk ends that begins at the entries without a
\* parent and goes down from each child it meets.  Nothing is launched or registered
\* on the way, so the order of the walk, grandchildren first, is of no account.
ReapedByRoots ==
    LET roots == {registry[k].id : k \in {j \in DOMAIN registry : registry[j].parent = None}}
    IN  {id \in Ids : \A S \in SUBSET Ids : LiveKids(roots \cup S) \subseteq S => id \in S}

\* The children the cascade ends, then those no root leads to.
Reaped ==
    ReapedByRoots \cup
    {registry[k].id : k \in {j \in DOMAIN registry :
        registry[j].parent # None /\ registry[j].status # "terminated"}}

\* The cascade: every child gets SIGTERM and its entry is terminated.
Cascade ==
    /\ phase = "saving"
    /\ phase' = "reaped"
    /\ alive' = alive \ {EntryOf(id).pid : id \in Reaped}
    /\ registry' = [k \in DOMAIN registry |->
            IF registry[k].id \in Reaped
            THEN [registry[k] EXCEPT !.status = "terminated"] ELSE registry[k]]
    /\ UNCHANGED <<superVars, calls, late>>

\* The process goes: after the cascade, because a save failed before it, or because
\* thirty seconds have passed.  Its memory goes with it, and its children are not
\* followed further.
Exit ==
    /\ phase \in {"saving", "reaped"}
    /\ phase' = "exited" /\ monitor' = FALSE
    /\ registry' = <<>> /\ alive' = {} /\ watched' = <<>> /\ late' = {}
    /\ calls' = [s \in Slots |-> Idle]
    /\ UNCHANGED broken

Work(s) ==
    LoadSnapshot(s) \/ Check(s) \/ CheckLattice(s) \/ Register(s) \/ Inject(s)

Next ==
    \/ SelfRegister
    \/ \E s \in Slots : Work(s)
    \/ \E s \in Slots, p \in Parents, w \in Names :
        \/ SpawnChild(s, p, w)
        \/ Fork(s, p, w)
        \/ \E v \in Names : Branch(s, p, <<w, v>>)
    \/ \E k \in DOMAIN registry, st \in Strategies, b \in Budgets :
        Supervise(registry[k].id, st, b)
    \/ \E p \in alive : Crash(p)
    \/ Tick
    \/ StopBegins \/ Cascade \/ Exit

Spec == Init /\ [][Next]_vars /\ WF_vars(Tick)

-----------------------------------------------------------------------------
(* Properties. *)

TypeOK ==
    /\ phase \in {"up", "saving", "reaped", "exited"}
    /\ alive \subseteq Nat /\ late \subseteq Nat
    /\ \A j, k \in DOMAIN registry : registry[j].id = registry[k].id => j = k
    /\ \A k \in DOMAIN registry : registry[k].status \in {"running", "terminated"}
    /\ \A k \in DOMAIN watched :
        /\ Registered(watched[k].id)
        /\ watched[k].count \in Nat /\ watched[k].max \in Budgets

\* No entry is below itself: among any ids there is one without a child among them.
\* So the recursion of cascadeTermination, which marks an entry only on its way back,
\* ends: a child is spawned under an entry that is there before it.
WalkEnds ==
    \A S \in SUBSET Ids :
        S # {} => \E k \in DOMAIN registry :
            registry[k].id \in S /\ ToSet(registry[k].kids) \cap S = {}

\* Once the cascade has run, every entry is terminated and its process gone, but
\* for the processes launched or registered after it: the entries no root leads
\* to, whose parent was never registered or was replaced, are ended too.
NoneLeftBehind ==
    phase = "reaped" =>
        \A k \in DOMAIN registry :
            \/ registry[k].id = Root
            \/ registry[k].pid \in late
            \/ registry[k].status = "terminated" /\ registry[k].pid \notin alive

\* The registry is a tree in which every walk to the root ends, and nothing of it that
\* the cascade should have reached runs on after a shutdown.
TreeIsSound == TypeOK /\ WalkEnds /\ NoneLeftBehind

\* A watched child that crashed runs again, is given up, or the daemon stops: a
\* child before it in the map whose launch keeps failing does not hold it up.
CrashedComeBack ==
    \A n \in Names :
        Crashed(n) /\ monitor ~> ~Crashed(n) \/ ~monitor

\* What handleSpawnChild says of a registered id, and AgentSpawnConfig: it is never replaced by
\* another process's entry.
NoSilentOverwrite ==
    [][\A k \in DOMAIN registry :
        \/ phase' = "exited"
        \/ registry'[k].born = registry[k].born]_vars
=============================================================================
