---------------------------- MODULE SandboxProofs ----------------------------
(***************************************************************************)
(* Theorems of Sandbox, for any plugins, any pool and any bounds on loads, *)
(* restarts and calls.                                                     *)
(*                                                                         *)
(* Every load makes a state of its own for the plugin, and a state keeps   *)
(* its callbacks after the plugin has been loaded again: what may still    *)
(* come to an old one decides everything.  Lineage says that it is         *)
(* nothing: only the last state of a plugin is loading, can lose its       *)
(* worker, is registered, is waited for by a shutdown or is about to be    *)
(* restarted.  LoadsUnderWay ties a load of a restart to the crash handler *)
(* that awaits it, Known accounts for each worker that runs, and Stopping  *)
(* draws the conclusion for shutdownAll: after it, whatever dies has been  *)
(* told to, so nothing is started again.  Once the process has exited,     *)
(* there is no one left to act on what a state says.                       *)
(*                                                                         *)
(* On these rest the two that count: Owned, that a worker of the pool is   *)
(* idle once or one plugin's, and Budget, that the crashes in a row are    *)
(* those the last state has counted or is about to inherit.                *)
(*                                                                         *)
(* What runs in the workers is Inside, inductive with all of the above:    *)
(* Copies, that a worker has code or a load of no plugin but one whose     *)
(* last state has it, and Home, that what was sent for an earlier tenant   *)
(* of a worker finds nothing of a later one, as long as the release of     *)
(* the worker waited for its reset.                                        *)
(***************************************************************************)
EXTENDS Sandbox, SequenceTheorems, TLAPS

\* A message names a state that was made, and a call its number.
Msgs ==
    {m \in [kind : {"init", "tool", "reset"}, s : States, call : 0..MaxCalls \cup {1}] :
        m.kind = "tool" => m.call # 0}

Records == [plugin : Plugins, worker : Workers, crashes : Nat, crashedBefore : BOOLEAN,
            restarting : BOOLEAN, load : {"init", "closing", "loaded", "failed"},
            parent : 0..MaxLoads, restart : {"no", "backoff", "loading"}]

Closings ==
    {c \in [s : States, w : Workers \cup {0}, pool : Nat, acked : BOOLEAN,
            by : {"load", "dispose", "all"}] : c.w = 0 => c.acked}

\* Workers are numbered as they are made, and few enough for the arrays.
Numbered ==
    /\ spawned \in Nat /\ alive \in SUBSET (1..spawned)
    /\ \/ pools = 0 /\ pool = 0 /\ spawned <= Len(st)
       \/ pools = 1 /\ pool \in {0, 1} /\ spawned <= Len(st) + PoolSize
       \/ pools = 2 /\ pool \in {0, 2} /\ spawned <= Len(st) + 2 * PoolSize
    /\ pool = 0 /\ pools # 0 => stage = "stopped" /\ pools = 1
    /\ stage # "stopped" => pools # 2
    /\ pools = 0 => idle = <<>>

WorkersTyped ==
    /\ hooks \in [Workers -> Plugins \cup {None}]
    /\ inbox \in [Workers -> Seq(Msgs)]
    /\ doing \in SUBSET [w : alive, m : Msgs, code : Plugins \cup {None}]

PoolTyped == idle \in Seq(1..spawned) /\ busy \in [Plugins -> 0..spawned]

StatesTyped ==
    /\ st \in Seq(Records) /\ Len(st) <= MaxLoads
    /\ \A i \in States : st[i].worker <= spawned /\ st[i].parent < i /\ st[i].crashes <= i
    /\ reg \in [Plugins -> {0} \cup States]

WaitsTyped ==
    /\ rpcs \in SUBSET [s : States, call : 0..MaxCalls]
    /\ closings \in SUBSET Closings
    /\ \A c \in closings : c.pool <= pools

RestTyped ==
    /\ stage \in {"loading", "up", "disposing", "closing", "stopped", "exited"}
    /\ turn \in 0..Len(LoadOrder) /\ calls \in 0..MaxCalls
    /\ streak \in [Plugins -> Nat] /\ diedUnloaded \in SUBSET Plugins
    /\ unreset \in SUBSET Workers /\ stragglers \in BOOLEAN

Typed == Numbered /\ WorkersTyped /\ PoolTyped /\ StatesTyped /\ WaitsTyped /\ RestTyped

\* The last state made for its plugin.
Latest(i) == \A k \in States : st[k].plugin = st[i].plugin => k <= i

Loading(i) == st[i].load \in {"init", "closing"}

\* Only the last state of a plugin can be loading, heard of when its worker dies,
\* registered, waited for by a closing, or about to be restarted.
Lineage ==
    \A i \in States :
        /\ st[i].parent # 0 => st[st[i].parent].plugin = st[i].plugin
        /\ Loading(i) => Latest(i)
        /\ st[i].worker \in alive /\ ~st[i].restarting => Latest(i) /\ st[i].crashes < i
        /\ st[i].restart = "backoff" =>
              Latest(i) /\ st[i].worker \notin alive /\ ~Loading(i) /\ reg[st[i].plugin] = 0

\* A load under way, and the crash handler that awaits it.
LoadsUnderWay ==
    \A i \in States :
        /\ AwaitsInit(i) <=> st[i].load = "init"
        /\ AwaitsInit(i) => reg[st[i].plugin] = i
        /\ st[i].load = "closing" => st[i].restarting
        /\ Loading(i) /\ st[i].parent # 0 => st[st[i].parent].restart = "loading"
        /\ st[i].restart = "loading" => \E k \in States : st[k].parent = i /\ Loading(k)

\* The loads without such a handler are the startup's.
Registry ==
    /\ \A i \in States : Loading(i) /\ st[i].parent = 0 => stage = "loading"
    /\ \A p \in Plugins : reg[p] # 0 =>
          LET i == reg[p] IN st[i].plugin = p /\ Latest(i) /\ st[i].restart = "no"
    /\ stage = "loading" =>
          \A i \in States : \E k \in 1..turn : k \in DOMAIN LoadOrder /\ LoadOrder[k] = st[i].plugin

ClosingsOK ==
    \A c \in closings :
        /\ Latest(c.s) /\ st[c.s].restarting /\ st[c.s].restart = "no"
        /\ c.w \in {0, st[c.s].worker} /\ (c.pool = 0 => c.w = st[c.s].worker)
        /\ c.by = "load" => st[c.s].load = "closing"
        /\ c.by = "dispose" => stage = "disposing"
        /\ c.by = "all" => stage = "closing"
        /\ c.by = "load" => \A d \in closings : d.by = "load" /\ d.s = c.s => d = c

\* Where the workers are that run: the pool knows its own until it is stopped, and one
\* of a plugin's own that was told to shut down is waited for.
Known ==
    /\ \A p \in Plugins : busy[p] # 0 =>
          Pooled(p) /\ \E i \in States : st[i].plugin = p /\ Latest(i) /\ st[i].worker = busy[p]
    /\ stage # "stopped" =>
          \A w \in alive :
              \/ \E k \in DOMAIN idle : idle[k] = w
              \/ \E p \in Plugins : busy[p] = w
              \/ \E i \in States : st[i].worker = w /\ ~Pooled(st[i].plugin)
    /\ \A i \in States :
          ~Pooled(st[i].plugin) /\ st[i].worker \in alive /\ st[i].restarting =>
              \E c \in closings : c.s = i /\ c.w = st[i].worker /\ c.pool = 0

Stopping ==
    stage \in {"closing", "stopped"} /\ ~stragglers =>
        /\ \A i \in States : st[i].restart = "no"
                                /\ (st[i].restarting \/ st[i].worker \notin alive)
        /\ stage = "stopped" => alive = {}

Safe == Lineage /\ LoadsUnderWay /\ Registry /\ ClosingsOK /\ Known /\ Stopping

Core == Typed /\ Lineage /\ LoadsUnderWay /\ (stage # "exited" => Safe)

\* Until the plugins are disposed of, a worker of the pool is on the idle list once or
\* has one plugin, a plugin's own worker is neither, a registered plugin has the worker
\* of its state, and a release under way returns the worker its plugin has.
Owned ==
    stage \in {"loading", "up"} =>
        /\ \A k, n \in DOMAIN idle : k # n => idle[k] # idle[n]
        /\ \A p, q \in Plugins : p # q /\ busy[p] # 0 => busy[p] # busy[q]
        /\ \A k \in DOMAIN idle, p \in Plugins : idle[k] # busy[p]
        /\ \A i \in States : ~Pooled(st[i].plugin) =>
              /\ \A k \in DOMAIN idle : idle[k] # st[i].worker
              /\ \A p \in Plugins : busy[p] # st[i].worker
        /\ \A p \in Plugins : reg[p] # 0 /\ Pooled(p) => busy[p] = st[reg[p]].worker
        /\ \A c \in closings : c.pool # 0 =>
              Pooled(st[c.s].plugin) /\ busy[st[c.s].plugin] = c.w

\* The crashes in a row are those the plugin's last state has counted, or while it is
\* being restarted the state before it, unless a load that had not succeeded crashed.
Budget ==
    /\ \A i \in States : st[i].restart = "backoff" =>
          /\ st[i].crashes <= MaxRestarts
          /\ st[i].load # "loaded" => st[i].plugin \in diedUnloaded
    /\ \A i \in States : Latest(i) /\ st[i].plugin \notin diedUnloaded =>
          /\ st[i].load = "loaded" => streak[st[i].plugin] <= st[i].crashes
          /\ Loading(i) => streak[st[i].plugin] <= IF st[i].parent = 0 THEN 0 ELSE st[st[i].parent].crashes
    /\ \A p \in Plugins : (\A i \in States : st[i].plugin # p) => streak[p] = 0

\* The invariant.
IInv == Core /\ Owned /\ Budget

-----------------------------------------------------------------------------
(* The numbers. *)

LEMMA Constants ==
    /\ PoolSize \in Nat /\ MaxRestarts \in Nat /\ MaxLoads \in Nat /\ MaxCalls \in Nat
    /\ None \notin Plugins /\ LoadOrder \in Seq(Plugins)
    /\ Len(LoadOrder) \in Nat /\ DOMAIN LoadOrder = 1..Len(LoadOrder)
    /\ \A j, k \in DOMAIN LoadOrder : j # k => LoadOrder[j] # LoadOrder[k]
<1>1. LoadOrder \in Seq(Plugins)
  BY SandboxAssumption
<1>2. Len(LoadOrder) \in Nat /\ DOMAIN LoadOrder = 1..Len(LoadOrder)
  BY <1>1
<1> QED
  BY <1>1, <1>2, SandboxAssumption

LEMMA WorkersFit ==
    ASSUME Typed
    PROVE  /\ 1..spawned \subseteq Workers /\ alive \subseteq Workers /\ spawned \in Nat
           /\ States = 1..Len(st) /\ Len(st) \in Nat /\ Len(st) <= MaxLoads
<1>1. States = 1..Len(st) /\ Len(st) \in Nat /\ Len(st) <= MaxLoads
  BY DEF Typed, StatesTyped, States
<1>2. spawned \in Nat /\ spawned <= MaxLoads + 2 * PoolSize /\ alive \subseteq 1..spawned
  BY <1>1, Constants DEF Typed, Numbered
<1> QED
  BY <1>1, <1>2, Constants DEF Workers

-----------------------------------------------------------------------------
(* What a step does to the last two, which need the others and not each other. *)

Further == (Owned => Owned') /\ (Budget => Budget')

\* What never changes in a state.
Shaped ==
    /\ st' \in Seq(Records) /\ States' = States
    /\ \A k \in States : /\ st'[k].plugin = st[k].plugin /\ st'[k].worker = st[k].worker
                         /\ st'[k].parent = st[k].parent

LEMMA ShapedLatest ==
    ASSUME Shaped
    PROVE  \A k \in States : Latest(k)' <=> Latest(k)
BY DEF Shaped, Latest

\* A step that moves no worker.
LEMMA OwnedKept ==
    ASSUME Typed, Owned, Shaped, UNCHANGED <<idle, busy>>,
           stage' \in {"loading", "up"} => stage \in {"loading", "up"},
           \A p \in Plugins : reg'[p] \in {0, reg[p]},
           \A c \in closings' : c.pool # 0 /\ stage' \in {"loading", "up"} =>
              \/ \E d \in closings : d.s = c.s /\ d.w = c.w /\ d.pool # 0
              \/ c.s \in States /\ Pooled(st[c.s].plugin) /\ busy[st[c.s].plugin] = c.w
    PROVE  Owned'
<1> SUFFICES ASSUME stage' \in {"loading", "up"} PROVE Owned'
  BY DEF Owned
<1>1. stage \in {"loading", "up"}
  OBVIOUS
<1>2. /\ States' = States
      /\ \A k \in States : st'[k].plugin = st[k].plugin /\ st'[k].worker = st[k].worker
  BY DEF Shaped
<1>3. \A i \in States : ~Pooled(st'[i].plugin) =>
          /\ \A k \in DOMAIN idle : idle[k] # st'[i].worker
          /\ \A p \in Plugins : busy[p] # st'[i].worker
  BY <1>1, <1>2 DEF Owned, Pooled
<1>4. \A p \in Plugins : reg'[p] # 0 /\ Pooled(p) => busy[p] = st'[reg'[p]].worker
  <2> TAKE p \in Plugins
  <2>1. reg[p] \in {0} \cup States
    BY DEF Typed, StatesTyped
  <2> QED
    BY <1>1, <1>2, <2>1 DEF Owned, Pooled
<1>5. \A c \in closings' : c.pool # 0 => Pooled(st'[c.s].plugin) /\ busy[st'[c.s].plugin] = c.w
  <2> SUFFICES ASSUME NEW c \in closings', c.pool # 0
               PROVE  Pooled(st'[c.s].plugin) /\ busy[st'[c.s].plugin] = c.w
    OBVIOUS
  <2>1. CASE \E d \in closings : d.s = c.s /\ d.w = c.w /\ d.pool # 0
    <3>1. PICK d \in closings : d.s = c.s /\ d.w = c.w /\ d.pool # 0
      BY <2>1
    <3>2. d.s \in States
      BY DEF Typed, WaitsTyped, Closings
    <3> QED
      BY <1>1, <1>2, <3>1, <3>2 DEF Owned
  <2>2. CASE c.s \in States /\ Pooled(st[c.s].plugin) /\ busy[st[c.s].plugin] = c.w
    BY <1>2, <2>2
  <2> QED
    BY <2>1, <2>2
<1>6. Owned => /\ \A k, n \in DOMAIN idle : k # n => idle[k] # idle[n]
               /\ \A p, q \in Plugins : p # q /\ busy[p] # 0 => busy[p] # busy[q]
               /\ \A k \in DOMAIN idle, p \in Plugins : idle[k] # busy[p]
  BY <1>1 DEF Owned
<1> QED
  BY <1>2, <1>3, <1>4, <1>5, <1>6 DEF Owned, Pooled

\* A step in which loads end or give up and nothing dies.
LEMMA BudgetKept ==
    ASSUME Typed, Lineage, Budget, Shaped, UNCHANGED <<streak, diedUnloaded>>,
           \A k \in States :
              /\ st'[k].crashes = st[k].crashes
              /\ st'[k].restart = "backoff" => st[k].restart = "backoff"
              /\ \/ st'[k].load = st[k].load
                 \/ Loading(k) /\ st'[k].load \in {"closing", "failed"}
    PROVE  Budget'
<1>1. /\ States' = States
      /\ \A k \in States : /\ st'[k].plugin = st[k].plugin
                           /\ st'[k].parent = st[k].parent /\ st'[k].crashes = st[k].crashes
  BY DEF Shaped
<1>2. \A i \in States : st'[i].restart = "backoff" =>
          /\ st'[i].crashes <= MaxRestarts
          /\ st'[i].load # "loaded" => st'[i].plugin \in diedUnloaded
  BY <1>1 DEF Budget, Lineage
<1>3. ASSUME NEW i \in States, Latest(i)', st'[i].plugin \notin diedUnloaded
      PROVE  /\ st'[i].load = "loaded" => streak[st'[i].plugin] <= st'[i].crashes
             /\ Loading(i)' => streak[st'[i].plugin] <=
                                  IF st'[i].parent = 0 THEN 0 ELSE st'[st'[i].parent].crashes
  <2>1. Latest(i) /\ st[i].plugin \notin diedUnloaded
    BY <1>1, <1>3, ShapedLatest
  <2>2. st'[i].load = "loaded" => st[i].load = "loaded"
    OBVIOUS
  <2>3. Loading(i)' => Loading(i)
    BY DEF Loading
  <2>4. st[i].parent = 0 \/ st[i].parent \in States
    <3>1. Len(st) \in Nat /\ States = 1..Len(st) /\ i \in States /\ st[i].parent < i
      BY WorkersFit DEF Typed, StatesTyped
    <3>2. st[i] \in Records
      BY DEF Typed, StatesTyped, States
    <3>3. st[i].parent \in Nat
      BY <3>2, Constants DEF Records
    <3> QED
      BY <3>1, <3>3
  <2> QED
    BY <1>1, <2>1, <2>2, <2>3, <2>4 DEF Budget
<1>4. ASSUME NEW p \in Plugins, \A i \in States : st'[i].plugin # p PROVE streak[p] = 0
  BY <1>1, <1>4 DEF Budget
<1> QED
  BY <1>1, <1>2, <1>3, <1>4 DEF Budget

-----------------------------------------------------------------------------
(* Steps that change no state of a plugin. *)

SameClosings ==
    /\ \A c \in closings' : \E d \in closings :
          c.s = d.s /\ c.w = d.w /\ c.pool = d.pool /\ c.by = d.by
    /\ \A d \in closings : \E c \in closings' :
          c.s = d.s /\ c.w = d.w /\ c.pool = d.pool /\ c.by = d.by
    /\ \A c, d \in closings' : c.by = "load" /\ d.by = "load" /\ c.s = d.s => c = d

Stages ==
    \/ stage' = stage /\ turn' = turn
    \/ stage = "loading" /\ StartupLoads = {} /\ stage' = "up"
    \/ stage = "up" /\ stage' = "disposing"

LEMMA QuietSafe ==
    ASSUME Typed, Safe, UNCHANGED <<spawned, poolVars, st, reg, historyVars>>,
           alive' \subseteq alive, SameClosings, Stages,
           \A i \in States : AwaitsInit(i)' <=> AwaitsInit(i)
    PROVE  Safe'
<1>1. /\ spawned' = spawned /\ st' = st /\ reg' = reg /\ stragglers' = stragglers
      /\ idle' = idle /\ busy' = busy /\ States' = States
  BY DEF poolVars, historyVars, States
<1>2. \A i \in States : (Latest(i)' <=> Latest(i)) /\ (Loading(i)' <=> Loading(i))
  BY <1>1 DEF Latest, Loading
<1>3. Lineage'
  BY <1>1, <1>2 DEF Safe, Lineage
<1>4. LoadsUnderWay'
  <2> SUFFICES ASSUME NEW i \in States
               PROVE  /\ AwaitsInit(i)' <=> st[i].load = "init"
                      /\ AwaitsInit(i)' => reg[st[i].plugin] = i
                      /\ st[i].load = "closing" => st[i].restarting
                      /\ Loading(i) /\ st[i].parent # 0 => st[st[i].parent].restart = "loading"
                      /\ st[i].restart = "loading" => \E k \in States : st[k].parent = i /\ Loading(k)
    BY <1>1, <1>2 DEF LoadsUnderWay
  <2> QED
    BY DEF Safe, LoadsUnderWay
<1>5. Registry'
  <2>1. \A i \in States : Loading(i) /\ st[i].parent = 0 => i \in StartupLoads
    BY DEF StartupLoads, Loading
  <2>2. \A i \in States : Loading(i) /\ st[i].parent = 0 => stage' = "loading"
    BY <2>1 DEF Safe, Registry, Stages
  <2> QED
    BY <1>1, <1>2, <2>2 DEF Safe, Registry, Stages, Typed, StatesTyped
<1>6. ClosingsOK'
  <2> SUFFICES ASSUME NEW c \in closings'
               PROVE  /\ Latest(c.s)' /\ st[c.s].restarting /\ st[c.s].restart = "no"
                      /\ c.w \in {0, st[c.s].worker} /\ (c.pool = 0 => c.w = st[c.s].worker)
                      /\ c.by = "load" => st[c.s].load = "closing"
                      /\ c.by = "dispose" => stage' = "disposing"
                      /\ c.by = "all" => stage' = "closing"
                      /\ c.by = "load" => \A d \in closings' : d.by = "load" /\ d.s = c.s => d = c
    BY <1>1 DEF ClosingsOK
  <2>1. PICK d \in closings : c.s = d.s /\ c.w = d.w /\ c.pool = d.pool /\ c.by = d.by
    BY DEF SameClosings
  <2>2. d.s \in States
    BY DEF Typed, WaitsTyped, Closings
  <2>3. d.by = "dispose" => stage' = "disposing"
    BY DEF Safe, ClosingsOK, Stages
  <2>4. d.by = "all" => stage' = "closing"
    BY DEF Safe, ClosingsOK, Stages
  <2>5. c.by = "load" => \A e \in closings' : e.by = "load" /\ e.s = c.s => e = c
    BY DEF SameClosings
  <2> QED
    BY <2>1, <2>2, <2>3, <2>4, <2>5, <1>2 DEF Safe, ClosingsOK
<1>7. Known'
  <2>1. \A p \in Plugins : busy[p] # 0 =>
          Pooled(p) /\ \E i \in States : st[i].plugin = p /\ Latest(i)' /\ st[i].worker = busy[p]
    BY <1>2 DEF Safe, Known
  <2>2. stage' # "stopped" => stage # "stopped"
    BY DEF Stages
  <2>3. \A i \in States :
          ~Pooled(st[i].plugin) /\ st[i].worker \in alive' /\ st[i].restarting =>
              \E c \in closings' : c.s = i /\ c.w = st[i].worker /\ c.pool = 0
    BY DEF Safe, Known, SameClosings
  <2> QED
    BY <1>1, <2>1, <2>2, <2>3 DEF Safe, Known, Pooled
<1>8. Stopping'
  BY <1>1 DEF Safe, Stopping, Stages
<1> QED
  BY <1>3, <1>4, <1>5, <1>6, <1>7, <1>8 DEF Safe

LEMMA QuietTyped ==
    ASSUME Typed, UNCHANGED <<spawned, poolVars, st, reg, historyVars>>,
           alive' \subseteq alive, SameClosings, Stages,
           turn' \in 0..Len(LoadOrder), calls' \in 0..MaxCalls,
           hooks' \in [Workers -> Plugins \cup {None}], inbox' \in [Workers -> Seq(Msgs)],
           doing' \in SUBSET [w : alive', m : Msgs, code : Plugins \cup {None}],
           rpcs' \in SUBSET [s : States, call : 0..MaxCalls], closings' \in SUBSET Closings
    PROVE  Typed'
<1>1. /\ spawned' = spawned /\ st' = st /\ reg' = reg /\ idle' = idle /\ busy' = busy
      /\ pool' = pool /\ pools' = pools /\ streak' = streak /\ diedUnloaded' = diedUnloaded
      /\ unreset' = unreset /\ stragglers' = stragglers
  BY DEF poolVars, historyVars
<1>2. States' = States /\ Msgs' = Msgs /\ Closings' = Closings
  BY <1>1 DEF States, Msgs, Closings
<1>3. Numbered'
  BY <1>1 DEF Typed, Numbered, Stages
<1>4. WorkersTyped'
  BY <1>2 DEF WorkersTyped
<1>5. PoolTyped' /\ StatesTyped'
  BY <1>1, <1>2 DEF Typed, PoolTyped, StatesTyped
<1>6. WaitsTyped'
  BY <1>1, <1>2 DEF Typed, WaitsTyped, SameClosings
<1>7. RestTyped'
  BY <1>1 DEF Typed, RestTyped, Stages
<1> QED
  BY <1>3, <1>4, <1>5, <1>6, <1>7 DEF Typed

LEMMA QuietFurther ==
    ASSUME Typed, UNCHANGED <<st, reg, poolVars, historyVars>>, SameClosings, Stages
    PROVE  Further
<1>1. /\ st' = st /\ reg' = reg /\ idle' = idle /\ busy' = busy /\ States' = States
      /\ streak' = streak /\ diedUnloaded' = diedUnloaded
  BY DEF poolVars, historyVars, States
<1>2. Shaped
  BY <1>1 DEF Shaped, Typed, StatesTyped
<1>3. stage' \in {"loading", "up"} => stage \in {"loading", "up"}
  BY DEF Stages
<1>4. Owned => Owned'
  BY <1>1, <1>2, <1>3, OwnedKept DEF SameClosings
<1>5. Budget => Budget'
  BY <1>1 DEF Budget, Latest, Loading
<1> QED
  BY <1>4, <1>5 DEF Further

LEMMA ClosingsStay ==
    ASSUME Safe, closings' = closings
    PROVE  SameClosings
BY DEF Safe, ClosingsOK, SameClosings

\* The tool calls that are answered or forgotten are no loads.
LEMMA ToolsAreNoLoads ==
    ASSUME Typed, NEW m \in Msgs, m.kind = "tool",
           rpcs' = rpcs \ {[s |-> m.s, call |-> m.call]}
    PROVE  \A i \in States : AwaitsInit(i)' <=> AwaitsInit(i)
BY DEF AwaitsInit, Msgs

LEMMA AcknowledgeFacts ==
    ASSUME Typed, Safe, NEW w, Acknowledge(w)
    PROVE  SameClosings /\ closings' \in SUBSET Closings
<1> DEFINE f(c) == IF c.w = w /\ c.pool # 0 THEN [c EXCEPT !.acked = TRUE] ELSE c
<1>1. closings' = {f(c) : c \in closings}
  BY DEF Acknowledge
<1>2. \A c \in closings : /\ f(c) \in Closings /\ f(c).s = c.s /\ f(c).w = c.w
                          /\ f(c).pool = c.pool /\ f(c).by = c.by
  <2> TAKE c \in closings
  <2>1. c \in Closings
    BY DEF Typed, WaitsTyped
  <2> QED
    BY <2>1 DEF Closings
<1>3. \A c, d \in closings : c.by = "load" /\ d.by = "load" /\ c.s = d.s => c = d
  BY DEF Safe, ClosingsOK
<1> HIDE DEF f
<1>4. \A c, d \in closings' : c.by = "load" /\ d.by = "load" /\ c.s = d.s => c = d
  BY <1>1, <1>2, <1>3
<1> QED
  BY <1>1, <1>2, <1>4 DEF SameClosings

LEMMA StartedKeeps ==
    ASSUME Typed, Safe, Started \/ Stop
    PROVE  Typed' /\ Safe' /\ Further
<1>1. UNCHANGED <<workerVars, poolVars, managerVars, calls, historyVars>> /\ Stages
  BY DEF Started, Stop, Stages
<1>2. turn' \in 0..Len(LoadOrder)
  BY DEF Started, Stop, Typed, RestTyped
<1>3. SameClosings /\ \A i \in States : AwaitsInit(i)' <=> AwaitsInit(i)
  BY <1>1, ClosingsStay DEF managerVars, AwaitsInit
<1>4. UNCHANGED <<spawned, alive, hooks, inbox, doing, poolVars, st, reg, rpcs, closings, calls, historyVars>>
  BY <1>1 DEF workerVars, managerVars
<1>5. Typed'
  BY <1>1, <1>2, <1>3, <1>4, QuietTyped DEF Typed, WorkersTyped, WaitsTyped, RestTyped
<1>6. Safe' /\ Further
  BY <1>1, <1>3, <1>4, QuietSafe, QuietFurther
<1> QED
  BY <1>5, <1>6


LEMMA BeginKeeps ==
    ASSUME Typed, Safe, NEW w \in alive, Begin(w)
    PROVE  Typed' /\ Safe' /\ Further
<1> DEFINE m == Head(inbox[w])
<1>1. /\ UNCHANGED <<alive, spawned, hooks, poolVars, st, reg, loaderVars, historyVars>>
      /\ inbox' = [inbox EXCEPT ![w] = Tail(inbox[w])]
  BY DEF Begin
<1>2. w \in Workers
  BY WorkersFit
<1>3. inbox[w] \in Seq(Msgs) /\ inbox[w] # <<>>
  BY <1>2 DEF Begin, Typed, WorkersTyped
<1>4. m \in Msgs /\ Tail(inbox[w]) \in Seq(Msgs)
  BY <1>3, HeadTailProperties
<1>5. inbox' \in [Workers -> Seq(Msgs)]
  BY <1>1, <1>4 DEF Typed, WorkersTyped
<1>6. Stages /\ turn' = turn /\ calls' = calls /\ alive' = alive /\ hooks' = hooks
  BY <1>1 DEF Stages, loaderVars
<1> HIDE DEF m
<1>7. /\ doing' \in SUBSET [w : alive', m : Msgs, code : Plugins \cup {None}]
      /\ rpcs' \in SUBSET [s : States, call : 0..MaxCalls] /\ closings' \in SUBSET Closings
      /\ SameClosings /\ \A i \in States : AwaitsInit(i)' <=> AwaitsInit(i)
  <2>1. CASE doing' = doing \cup {[w |-> w, m |-> m, code |-> hooks[w]]} /\ UNCHANGED <<rpcs, closings>>
    <3>1. [w |-> w, m |-> m, code |-> hooks[w]] \in [w : alive', m : Msgs, code : Plugins \cup {None}]
      BY <1>2, <1>4, <1>6 DEF Typed, WorkersTyped
    <3> QED
      BY <2>1, <3>1, <1>6, ClosingsStay DEF Typed, WorkersTyped, WaitsTyped, AwaitsInit
  <2>2. CASE m.kind = "tool" /\ rpcs' = rpcs \ {[s |-> m.s, call |-> m.call]} /\ UNCHANGED <<doing, closings>>
    <3>1. \A i \in States : AwaitsInit(i)' <=> AwaitsInit(i)
      BY <2>2, <1>4, ToolsAreNoLoads
    <3> QED
      BY <2>2, <3>1, <1>6, ClosingsStay DEF Typed, WorkersTyped, WaitsTyped
  <2>3. CASE Acknowledge(w) /\ UNCHANGED <<doing, rpcs>>
    BY <2>3, <1>6, AcknowledgeFacts DEF Typed, WorkersTyped, WaitsTyped, AwaitsInit
  <2> QED
    BY <2>1, <2>2, <2>3 DEF Begin, m
<1>8. turn' \in 0..Len(LoadOrder) /\ calls' \in 0..MaxCalls /\ hooks' \in [Workers -> Plugins \cup {None}]
  BY <1>6 DEF Typed, RestTyped, WorkersTyped
<1>9. UNCHANGED <<spawned, poolVars, st, reg, historyVars>> /\ alive' \subseteq alive
  BY <1>1
<1>10. Typed'
  BY <1>5, <1>6, <1>7, <1>8, <1>9, QuietTyped
<1>11. Safe' /\ Further
  BY <1>6, <1>7, <1>9, QuietSafe, QuietFurther
<1> QED
  BY <1>10, <1>11

\* The end of what a worker was doing, for a call and for a reset.
LEMMA CallEndsKeeps ==
    ASSUME Typed, Safe, NEW d \in doing, ToolEnds(d) \/ ResetEnds(d)
    PROVE  Typed' /\ Safe' /\ Further
<1>1. /\ UNCHANGED <<alive, spawned, poolVars, turn, calls, historyVars, inbox, st, reg, stage>>
      /\ doing' = doing \ {d}
  BY DEF ToolEnds, ResetEnds, Ends
<1>2. d.m \in Msgs /\ d.w \in Workers
  BY WorkersFit DEF Typed, WorkersTyped
<1>3. hooks' \in [Workers -> Plugins \cup {None}]
  BY DEF ToolEnds, ResetEnds, Typed, WorkersTyped
<1>4. /\ rpcs' \in SUBSET [s : States, call : 0..MaxCalls] /\ closings' \in SUBSET Closings
      /\ SameClosings /\ \A i \in States : AwaitsInit(i)' <=> AwaitsInit(i)
  <2>1. CASE ToolEnds(d)
    <3>1. d.m.kind = "tool" /\ rpcs' = rpcs \ {[s |-> d.m.s, call |-> d.m.call]} /\ closings' = closings
      BY <2>1 DEF ToolEnds
    <3>2. \A i \in States : AwaitsInit(i)' <=> AwaitsInit(i)
      BY <3>1, <1>2, ToolsAreNoLoads
    <3> QED
      BY <3>1, <3>2, ClosingsStay DEF Typed, WaitsTyped
  <2>2. CASE ResetEnds(d)
    <3>1. Acknowledge(d.w) /\ rpcs' = rpcs
      BY <2>2 DEF ResetEnds
    <3> QED
      BY <3>1, AcknowledgeFacts DEF Typed, WaitsTyped, AwaitsInit
  <2> QED
    BY <2>1, <2>2
<1>5. UNCHANGED <<spawned, poolVars, st, reg, historyVars>> /\ alive' \subseteq alive /\ Stages
  BY <1>1 DEF Stages
<1>6. /\ turn' \in 0..Len(LoadOrder) /\ calls' \in 0..MaxCalls /\ inbox' \in [Workers -> Seq(Msgs)]
      /\ doing' \in SUBSET [w : alive', m : Msgs, code : Plugins \cup {None}]
  BY <1>1 DEF Typed, RestTyped, WorkersTyped
<1>7. Typed'
  BY <1>3, <1>4, <1>5, <1>6, QuietTyped
<1>8. Safe' /\ Further
  BY <1>4, <1>5, QuietSafe, QuietFurther
<1> QED
  BY <1>7, <1>8

\* What goes with workers that end.
LEMMA GoneFacts ==
    ASSUME Typed, NEW ws, Gone(ws)
    PROVE  /\ alive' \subseteq alive /\ hooks' \in [Workers -> Plugins \cup {None}]
           /\ inbox' \in [Workers -> Seq(Msgs)]
           /\ doing' \in SUBSET [w : alive', m : Msgs, code : Plugins \cup {None}]
<1>1. \A d \in doing' : d \in doing /\ d \in [w : alive', m : Msgs, code : Plugins \cup {None}]
  BY DEF Gone, Typed, WorkersTyped
<1>2. <<>> \in Seq(Msgs)
  OBVIOUS
<1> QED
  BY <1>1, <1>2 DEF Gone, Typed, WorkersTyped

LEMMA QuitKeeps ==
    ASSUME Typed, Safe, NEW w, Quit(w)
    PROVE  Typed' /\ Safe' /\ Further
<1>1. UNCHANGED <<spawned, poolVars, managerVars, loaderVars, historyVars>> /\ Gone({w})
  BY DEF Quit
<1>2. /\ alive' \subseteq alive /\ hooks' \in [Workers -> Plugins \cup {None}]
      /\ inbox' \in [Workers -> Seq(Msgs)]
      /\ doing' \in SUBSET [w : alive', m : Msgs, code : Plugins \cup {None}]
  BY <1>1, GoneFacts
<1>3. /\ UNCHANGED <<spawned, poolVars, st, reg, rpcs, closings, historyVars, turn, calls>>
      /\ Stages /\ SameClosings /\ \A i \in States : AwaitsInit(i)' <=> AwaitsInit(i)
  BY <1>1, ClosingsStay DEF managerVars, loaderVars, Stages, AwaitsInit
<1>4. Typed'
  BY <1>2, <1>3, QuietTyped DEF Typed, WaitsTyped, RestTyped
<1>5. Safe' /\ Further
  BY <1>2, <1>3, QuietSafe, QuietFurther
<1> QED
  BY <1>4, <1>5

LEMMA PostFacts ==
    ASSUME Typed, NEW M, Msgs \subseteq M, NEW ws, NEW m \in M, Post(ws, m)
    PROVE  inbox' \in [Workers -> Seq(M)]
<1>1. \A w \in Workers : inbox[w] \in Seq(M)
  BY DEF Typed, WorkersTyped
<1> QED
  BY <1>1 DEF Post

LEMMA InvokeToolKeeps ==
    ASSUME Typed, Safe, NEW p \in Plugins, InvokeTool(p)
    PROVE  Typed' /\ Safe' /\ Further
<1> DEFINE m == Message("tool", reg[p], calls + 1)
<1>1. /\ UNCHANGED <<alive, spawned, hooks, doing, poolVars, st, reg, closings, stage, turn, historyVars>>
      /\ calls' = calls + 1 /\ calls < MaxCalls /\ reg[p] # 0
      /\ rpcs' = rpcs \cup {[s |-> reg[p], call |-> calls + 1]}
      /\ Post({st[reg[p]].worker}, m)
  BY DEF InvokeTool
<1>2. reg[p] \in States /\ calls + 1 \in 1..MaxCalls
  BY <1>1, Constants DEF Typed, StatesTyped, RestTyped
<1>3. m \in Msgs
  BY <1>2 DEF Msgs, Message
<1> HIDE DEF m
<1>4. inbox' \in [Workers -> Seq(Msgs)]
  BY <1>1, <1>3, PostFacts
<1>5. /\ UNCHANGED <<spawned, poolVars, st, reg, historyVars>> /\ alive' \subseteq alive /\ Stages
      /\ SameClosings
  BY <1>1, ClosingsStay DEF Stages
<1>6. \A i \in States : AwaitsInit(i)' <=> AwaitsInit(i)
  BY <1>1, <1>2 DEF AwaitsInit
<1>7. Typed'
  BY <1>1, <1>2, <1>4, <1>5, QuietTyped DEF Typed, WorkersTyped, WaitsTyped, RestTyped
<1>8. Safe' /\ Further
  BY <1>5, <1>6, QuietSafe, QuietFurther
<1> QED
  BY <1>7, <1>8

-----------------------------------------------------------------------------
(* Steps that change states and make none. *)

\* A plugin has one last state.
LEMMA OneLatest ==
    ASSUME Typed, NEW i \in States, NEW k \in States, Latest(i), Latest(k),
           st[i].plugin = st[k].plugin
    PROVE  i = k
BY WorkersFit DEF Latest

\* The crash handler that awaits a load.
LEMMA ParentFacts ==
    ASSUME Typed, Safe, NEW i \in States, st[i].parent # 0
    PROVE  /\ st[i].parent \in States /\ st[i].parent < i
           /\ st[st[i].parent].plugin = st[i].plugin /\ ~Latest(st[i].parent)
<1>1. st[i].parent \in States /\ st[i].parent < i
  <2>1. st[i] \in Records /\ st[i].parent < i
    BY WorkersFit DEF Typed, StatesTyped
  <2>2. st[i].parent \in Nat
    BY <2>1, Constants DEF Records
  <2> QED
    BY <2>1, <2>2, WorkersFit
<1>2. st[st[i].parent].plugin = st[i].plugin
  BY DEF Safe, Lineage
<1>3. ~Latest(st[i].parent)
  <2> SUFFICES ASSUME Latest(st[i].parent) PROVE FALSE
    OBVIOUS
  <2>1. i <= st[i].parent
    BY <1>1, <1>2 DEF Latest
  <2> QED
    BY <1>1, <2>1, WorkersFit
<1> QED
  BY <1>1, <1>2, <1>3

\* A load under way is its plugin's only one, and the only one its crash handler awaits.
LEMMA OneLoad ==
    ASSUME Typed, Safe, NEW i \in States, NEW k \in States, Loading(i), Loading(k),
           st[i].plugin = st[k].plugin \/ (st[i].parent # 0 /\ st[i].parent = st[k].parent)
    PROVE  i = k
<1>1. st[i].plugin = st[k].plugin
  BY ParentFacts
<1>2. Latest(i) /\ Latest(k)
  BY DEF Safe, Lineage
<1> QED
  BY <1>1, <1>2, OneLatest

\* The loads I end, the states V hear of their workers' death, and the plugins of the
\* states R lose their entries.
LoadsEnd(I, V, R) ==
    /\ I \subseteq States /\ V \subseteq States /\ R \subseteq States
    /\ \A k \in I : Loading(k)
    /\ \A k \in V : /\ st[k].worker \in alive \ alive' /\ ~st[k].restarting
                    /\ (AwaitsInit(k) => k \in I) /\ st[k].plugin \in {st[i].plugin : i \in R}
    /\ \A k \in R : Latest(k) /\ ~AwaitsInit(k)'
    /\ \A k \in States : /\ st'[k].load = st[k].load \/ (k \in I /\ st'[k].load \in {"loaded", "failed"})
                         /\ k \in I => st'[k].load \in {"loaded", "failed"}
                         /\ k \notin V => st'[k].restarting = st[k].restarting
                         /\ IF \E i \in I : st[i].parent = k THEN st'[k].restart = "no"
                            ELSE IF k \in V THEN st'[k].restart \in {"no", "backoff"}
                            ELSE \/ st'[k].restart = st[k].restart
                                 \/ st[k].restart = "backoff" /\ st'[k].restart = "no"
                         /\ k \notin V => st'[k].crashes = st[k].crashes \/ st'[k].crashes < k
                         /\ AwaitsInit(k)' <=> AwaitsInit(k) /\ k \notin I
    /\ \A p \in Plugins : reg'[p] = IF \E i \in R : st[i].plugin = p THEN 0 ELSE reg[p]
    /\ alive' \subseteq alive

LEMMA LoadsEndSafe ==
    ASSUME Typed, Safe, Shaped, NEW I, NEW V, NEW R, LoadsEnd(I, V, R)
    PROVE  Lineage' /\ LoadsUnderWay'
<1>1. \A k \in States : /\ Latest(k)' <=> Latest(k)
                        /\ st[k].plugin \in Plugins
                        /\ st'[k].plugin = st[k].plugin /\ st'[k].worker = st[k].worker
                        /\ st'[k].parent = st[k].parent
  <2> TAKE k \in States
  <2>1. st[k] \in Records
    BY WorkersFit DEF Typed, StatesTyped
  <2> QED
    BY <2>1, ShapedLatest DEF Shaped, Records
<1>2. States' = States
  BY DEF Shaped
<1>3. \A k \in States : Loading(k)' <=> Loading(k) /\ k \notin I
  BY DEF LoadsEnd, Loading
<1>4. \A i \in I, k \in States : Loading(k) /\ k \notin I /\ st[k].parent # 0 => st[i].parent # st[k].parent
  BY OneLoad DEF LoadsEnd
<1>5. Lineage'
  <2> SUFFICES ASSUME NEW k \in States
               PROVE  /\ st[k].parent # 0 => st'[st[k].parent].plugin = st[k].plugin
                      /\ Loading(k)' => Latest(k)
                      /\ st[k].worker \in alive' /\ ~st'[k].restarting => Latest(k) /\ st'[k].crashes < k
                      /\ st'[k].restart = "backoff" =>
                            Latest(k) /\ st[k].worker \notin alive' /\ ~Loading(k)' /\ reg'[st[k].plugin] = 0
    BY <1>1, <1>2 DEF Lineage
  <2>1. st[k].parent # 0 => st'[st[k].parent].plugin = st[k].plugin
    BY <1>1, ParentFacts
  <2>2. Loading(k)' => Latest(k)
    BY <1>3 DEF Safe, Lineage
  <2>3. st[k].worker \in alive' /\ ~st'[k].restarting => Latest(k) /\ st'[k].crashes < k
    BY DEF Safe, Lineage, LoadsEnd
  <2>4. ASSUME st'[k].restart = "backoff"
        PROVE  Latest(k) /\ st[k].worker \notin alive' /\ ~Loading(k)' /\ reg'[st[k].plugin] = 0
    <3>1. CASE k \in V
      <4>1. Latest(k) /\ st[k].worker \notin alive'
        BY <3>1 DEF Safe, Lineage, LoadsEnd
      <4>2. ~Loading(k)'
        BY <3>1, <1>3 DEF Safe, LoadsUnderWay, LoadsEnd, Loading
      <4>3. reg'[st[k].plugin] = 0
        BY <3>1, <1>1 DEF LoadsEnd
      <4> QED
        BY <4>1, <4>2, <4>3
    <3>2. CASE k \notin V
      <4>1. st[k].restart = "backoff"
        BY <2>4, <3>2 DEF LoadsEnd
      <4> QED
        BY <4>1, <1>1, <1>3 DEF Safe, Lineage, LoadsEnd
    <3> QED
      BY <3>1, <3>2
  <2> QED
    BY <2>1, <2>2, <2>3, <2>4
<1>6. LoadsUnderWay'
  <2> SUFFICES ASSUME NEW k \in States
               PROVE  /\ AwaitsInit(k)' <=> st'[k].load = "init"
                      /\ AwaitsInit(k)' => reg'[st[k].plugin] = k
                      /\ st'[k].load = "closing" => st'[k].restarting
                      /\ Loading(k)' /\ st[k].parent # 0 => st'[st[k].parent].restart = "loading"
                      /\ st'[k].restart = "loading" =>
                            \E m \in States : st[m].parent = k /\ Loading(m)'
    BY <1>1, <1>2 DEF LoadsUnderWay
  <2>1. AwaitsInit(k)' <=> st'[k].load = "init"
    BY DEF Safe, LoadsUnderWay, LoadsEnd
  <2>2. AwaitsInit(k)' => reg'[st[k].plugin] = k
    <3> SUFFICES ASSUME AwaitsInit(k)' PROVE reg'[st[k].plugin] = k
      OBVIOUS
    <3>1. AwaitsInit(k) /\ Loading(k)
      BY DEF LoadsEnd, Safe, LoadsUnderWay, Loading
    <3>2. reg[st[k].plugin] = k /\ Latest(k)
      BY <3>1 DEF Safe, LoadsUnderWay, Lineage
    <3>3. ~\E i \in R : st[i].plugin = st[k].plugin
      BY <3>2, OneLatest DEF LoadsEnd
    <3> QED
      BY <1>1, <3>2, <3>3 DEF LoadsEnd
  <2>3. st'[k].load = "closing" => st'[k].restarting
    BY DEF Safe, LoadsUnderWay, LoadsEnd
  <2>4. ASSUME Loading(k)', st[k].parent # 0
        PROVE  st'[st[k].parent].restart = "loading"
    <3>1. Loading(k) /\ k \notin I
      BY <2>4, <1>3
    <3>2. st[k].parent \in States /\ ~Latest(st[k].parent)
      BY <2>4, ParentFacts
    <3>3. st[k].parent \notin V
      BY <3>2 DEF Safe, Lineage, LoadsEnd
    <3>4. ~\E i \in I : st[i].parent = st[k].parent
      BY <2>4, <3>1, <1>4
    <3> QED
      BY <2>4, <3>1, <3>2, <3>3, <3>4 DEF Safe, LoadsUnderWay, LoadsEnd
  <2>5. ASSUME st'[k].restart = "loading"
        PROVE  \E m \in States : st[m].parent = k /\ Loading(m)'
    <3>1. k \notin V /\ ~\E i \in I : st[i].parent = k
      BY <2>5 DEF LoadsEnd
    <3>2. st[k].restart = "loading"
      BY <2>5, <3>1 DEF LoadsEnd
    <3> QED
      BY <3>1, <3>2, <1>3 DEF Safe, LoadsUnderWay
  <2> QED
    BY <2>1, <2>2, <2>3, <2>4, <2>5
<1> QED
  BY <1>5, <1>6

InPool(w) == (\E k \in DOMAIN idle : idle[k] = w) \/ (\E p \in Plugins : busy[p] = w)

\* What else such a step may do: closings end, workers are given back or stopped.
Around(I) ==
    /\ closings' \subseteq closings /\ stragglers' = stragglers /\ turn' = turn
    /\ stage' = stage \/ (stage # "loading" /\ stage' # "loading")
    /\ \A c \in closings' : /\ c.by = "load" => c.s \notin I
                            /\ c.by = "dispose" => stage' = "disposing"
                            /\ c.by = "all" => stage' = "closing"
    /\ \A c \in closings : c.pool = 0 /\ c.w \in alive' => c \in closings'
    /\ \A p \in Plugins : busy'[p] \in {0, busy[p]}
    /\ stage' # "stopped" => stage # "stopped" /\ \A w \in alive' : InPool(w) => InPool(w)'
    /\ stage' \in {"closing", "stopped"} => stage \in {"closing", "stopped"}
    /\ stage' = "stopped" /\ ~stragglers => alive' = {}

LEMMA AroundSafe ==
    ASSUME Typed, Safe, Shaped, NEW I, NEW V, NEW R, LoadsEnd(I, V, R), Around(I)
    PROVE  Safe'
<1>1. Lineage' /\ LoadsUnderWay'
  BY LoadsEndSafe
<1>2. \A k \in States : /\ Latest(k)' <=> Latest(k)
                        /\ st'[k].plugin = st[k].plugin /\ st'[k].worker = st[k].worker
                        /\ st'[k].parent = st[k].parent
  BY ShapedLatest DEF Shaped
<1>3. States' = States
  BY DEF Shaped
<1>4. \A c \in closings : c.s \in States
  BY DEF Typed, WaitsTyped, Closings
<1>5. ClosingsOK'
  <2> SUFFICES ASSUME NEW c \in closings'
               PROVE  /\ Latest(c.s)' /\ st'[c.s].restarting /\ st'[c.s].restart = "no"
                      /\ c.w \in {0, st'[c.s].worker} /\ (c.pool = 0 => c.w = st'[c.s].worker)
                      /\ c.by = "load" => st'[c.s].load = "closing"
                      /\ c.by = "dispose" => stage' = "disposing"
                      /\ c.by = "all" => stage' = "closing"
                      /\ c.by = "load" => \A d \in closings' : d.by = "load" /\ d.s = c.s => d = c
    BY DEF ClosingsOK
  <2>1. c \in closings /\ c.s \in States
    BY <1>4 DEF Around
  <2>2. c.s \notin V
    BY <2>1 DEF Safe, ClosingsOK, LoadsEnd
  <2>3. st'[c.s].restarting /\ st'[c.s].restart = "no"
    BY <2>1, <2>2 DEF Safe, ClosingsOK, LoadsEnd
  <2>4. c.by = "load" => st'[c.s].load = "closing"
    BY <2>1 DEF Safe, ClosingsOK, LoadsEnd, Around
  <2>5. /\ c.by = "dispose" => stage' = "disposing"
        /\ c.by = "all" => stage' = "closing"
    BY DEF Around
  <2>6. c.by = "load" => \A d \in closings' : d.by = "load" /\ d.s = c.s => d = c
    BY <2>1 DEF Safe, ClosingsOK, Around
  <2>7. Latest(c.s)' /\ c.w \in {0, st'[c.s].worker} /\ (c.pool = 0 => c.w = st'[c.s].worker)
    <3>1. Latest(c.s) /\ c.w \in {0, st[c.s].worker} /\ (c.pool = 0 => c.w = st[c.s].worker)
      BY <2>1 DEF Safe, ClosingsOK
    <3> QED
      BY <3>1, <2>1, <1>2
  <2> QED
    BY <2>3, <2>4, <2>5, <2>6, <2>7
<1>6. Known'
  <2>1. ASSUME NEW p \in Plugins, busy'[p] # 0
        PROVE  Pooled(p) /\ \E i \in States : st'[i].plugin = p /\ Latest(i)' /\ st'[i].worker = busy'[p]
    BY <2>1, <1>2 DEF Safe, Known, Around
  <2>2. ASSUME stage' # "stopped", NEW w \in alive'
        PROVE  InPool(w)' \/ \E i \in States : st'[i].worker = w /\ ~Pooled(st'[i].plugin)
    <3>1. w \in alive /\ stage # "stopped" /\ (InPool(w) => InPool(w)')
      BY <2>2 DEF LoadsEnd, Around
    <3> QED
      BY <3>1, <1>2 DEF Safe, Known, InPool
  <2>3. ASSUME NEW i \in States, ~Pooled(st'[i].plugin), st'[i].worker \in alive', st'[i].restarting
        PROVE  \E c \in closings' : c.s = i /\ c.w = st'[i].worker /\ c.pool = 0
    <3>1. ~Pooled(st[i].plugin) /\ st[i].worker \in alive' /\ st[i].worker \in alive
      BY <2>3, <1>2 DEF LoadsEnd
    <3>2. st[i].restarting
      BY <2>3, <3>1 DEF LoadsEnd
    <3>3. PICK c \in closings : c.s = i /\ c.w = st[i].worker /\ c.pool = 0
      BY <3>1, <3>2 DEF Safe, Known
    <3> QED
      BY <3>1, <3>3, <1>2 DEF Around
  <2> QED
    BY <2>1, <2>2, <2>3, <1>3 DEF Known, InPool, Pooled
<1>7. Stopping'
  <2> SUFFICES ASSUME stage' \in {"closing", "stopped"}, ~stragglers'
               PROVE  /\ \A i \in States : st'[i].restart = "no"
                                              /\ (st'[i].restarting \/ st'[i].worker \notin alive')
                      /\ stage' = "stopped" => alive' = {}
    BY <1>3 DEF Stopping
  <2>1. \A i \in States : st[i].restart = "no" /\ (st[i].restarting \/ st[i].worker \notin alive)
    BY DEF Safe, Stopping, Around
  <2>2. V = {}
    BY <2>1 DEF LoadsEnd
  <2> QED
    BY <2>1, <2>2, <1>2 DEF LoadsEnd, Around
<1>8. Registry'
  <2>1. ASSUME NEW p \in Plugins, reg'[p] # 0
        PROVE  \E k \in States : /\ k = reg'[p] /\ st'[k].plugin = p /\ Latest(k)'
                                  /\ st'[k].restart = "no"
    <3>1. reg'[p] = reg[p] /\ ~\E i \in R : st[i].plugin = p
      BY <2>1 DEF LoadsEnd
    <3>2. reg[p] \in States /\ st[reg[p]].plugin = p /\ Latest(reg[p]) /\ st[reg[p]].restart = "no"
      BY <2>1, <3>1 DEF Safe, Registry, Typed, StatesTyped
    <3>3. reg[p] \notin V
      BY <3>1, <3>2 DEF LoadsEnd
    <3>4. st'[reg[p]].restart = "no"
      BY <3>2, <3>3 DEF LoadsEnd
    <3> QED
      BY <3>1, <3>2, <3>4, <1>2
  <2>2. stage' = "loading" => stage = "loading" /\ turn' = turn
    BY DEF Around
  <2>4. \A i \in States : Loading(i)' /\ st[i].parent = 0 => stage' = "loading"
    BY DEF LoadsEnd, Loading, Safe, Registry, Around
  <2>3. (\A p \in Plugins : reg[p] # 0 =>
           LET i == reg[p] IN st[i].plugin = p /\ Latest(i) /\ st[i].restart = "no")'
    BY <2>1 DEF Latest
  <2> QED
    BY <2>2, <2>3, <2>4, <1>2, <1>3 DEF Registry, Safe
<1> QED
  BY <1>1, <1>5, <1>6, <1>7, <1>8 DEF Safe

\* What FailLoads does to each state, and to the map.
LEMMA FailLoadsFacts ==
    ASSUME Typed, NEW states, NEW entries, NEW I, NEW next, DOMAIN states = States,
           \A k \in States : states[k] \in Records, FailLoads(states, entries, I, next)
    PROVE  /\ st' \in Seq(Records) /\ States' = States /\ Len(st') = Len(st)
           /\ \A k \in States :
                 /\ st'[k].plugin = states[k].plugin /\ st'[k].worker = states[k].worker
                 /\ st'[k].parent = states[k].parent /\ st'[k].restarting = states[k].restarting
                 /\ st'[k].crashes = states[k].crashes
                 /\ st'[k].load = IF k \in I THEN "failed" ELSE states[k].load
                 /\ st'[k].restart = IF \E i \in I : states[i].parent = k THEN "no" ELSE states[k].restart
<1> DEFINE s(k) == [states[k] EXCEPT
                       !.load = IF k \in I THEN "failed" ELSE @,
                       !.restart = IF \E i \in I : states[i].parent = k THEN "no" ELSE @]
<1>1. \A k \in States : /\ s(k) \in Records
                        /\ s(k).plugin = states[k].plugin /\ s(k).worker = states[k].worker
                        /\ s(k).parent = states[k].parent /\ s(k).restarting = states[k].restarting
                        /\ s(k).crashes = states[k].crashes
                        /\ s(k).load = IF k \in I THEN "failed" ELSE states[k].load
                        /\ s(k).restart = IF \E i \in I : states[i].parent = k THEN "no" ELSE states[k].restart
  BY DEF Records
<1>2. st' = [k \in States |-> s(k)]
  BY DEF FailLoads
<1> HIDE DEF s
<1>3. st' \in Seq(Records) /\ Len(st') = Len(st) /\ DOMAIN st' = States
  BY <1>1, <1>2, WorkersFit
<1> QED
  BY <1>1, <1>2, <1>3 DEF States

LEMMA ShapedTyped ==
    ASSUME Typed, Shaped, spawned' = spawned, pools' = pools, Len(st') = Len(st),
           reg' \in [Plugins -> {0} \cup States], \A k \in States : st'[k].crashes <= k,
           rpcs' \subseteq rpcs, closings' \in SUBSET Closings, \A c \in closings' : c.pool <= pools
    PROVE  StatesTyped' /\ WaitsTyped' /\ Msgs' = Msgs
<1>1. States' = States /\ Msgs' = Msgs /\ Closings' = Closings
  BY DEF Shaped, Msgs, Closings
<1>2. StatesTyped'
  BY <1>1 DEF Typed, StatesTyped, Shaped
<1>3. WaitsTyped'
  BY <1>1 DEF Typed, WaitsTyped
<1> QED
  BY <1>1, <1>2, <1>3

LEMMA ElementsTyped ==
    ASSUME Typed
    PROVE  \A k \in States : /\ st[k] \in Records /\ st[k].plugin \in Plugins
                             /\ st[k].worker \in Workers /\ st[k].crashes \in Nat /\ st[k].crashes <= k
                             /\ k \in Nat /\ k >= 1
<1> SUFFICES ASSUME NEW k \in States
             PROVE  /\ st[k] \in Records /\ st[k].plugin \in Plugins
                    /\ st[k].worker \in Workers /\ st[k].crashes \in Nat /\ st[k].crashes <= k
                    /\ k \in Nat /\ k >= 1
  OBVIOUS
<1>1. st[k] \in Records /\ k \in Nat /\ k >= 1 /\ st[k].crashes <= k
  BY WorkersFit DEF Typed, StatesTyped
<1> QED
  BY <1>1 DEF Records

LEMMA RpcTimeoutKeeps ==
    ASSUME Typed, Safe, NEW r \in rpcs, RpcTimeout(r)
    PROVE  Core' /\ Further
<1> DEFINE I == {i \in {r.s} : r.call = 0}
<1>1. /\ UNCHANGED <<workerVars, poolVars, closings, turn, calls, historyVars>>
      /\ rpcs' = rpcs \ {r} /\ FailLoads(st, reg, I, stage)
  BY DEF RpcTimeout
<1>2. /\ r.s \in States /\ r = [s |-> r.s, call |-> r.call]
      /\ \A k \in States : st[k] \in Records
  BY ElementsTyped DEF Typed, WaitsTyped
<1>3. DOMAIN st = States
  BY DEF States
<1>4. /\ st' \in Seq(Records) /\ States' = States /\ Len(st') = Len(st)
      /\ \A k \in States :
            /\ st'[k].plugin = st[k].plugin /\ st'[k].worker = st[k].worker
            /\ st'[k].parent = st[k].parent /\ st'[k].restarting = st[k].restarting
            /\ st'[k].crashes = st[k].crashes
            /\ st'[k].load = IF k \in I THEN "failed" ELSE st[k].load
            /\ st'[k].restart = IF \E i \in I : st[i].parent = k THEN "no" ELSE st[k].restart
  BY <1>1, <1>2, <1>3, FailLoadsFacts
<1>5. /\ reg' = [p \in Plugins |-> IF \E i \in I : st[i].plugin = p THEN 0 ELSE reg[p]]
      /\ stage' = IF \E i \in I : st[i].parent = 0 THEN "exited" ELSE stage
  BY <1>1 DEF FailLoads
<1>6. Shaped
  BY <1>4 DEF Shaped
<1>7. \A k \in I : k \in States /\ AwaitsInit(k)
  BY <1>2 DEF AwaitsInit
<1>8. \A k \in States : AwaitsInit(k)' <=> AwaitsInit(k) /\ k \notin I
  BY <1>1, <1>2 DEF AwaitsInit
<1> HIDE DEF I
<1>9. Typed'
  <2>1. StatesTyped' /\ WaitsTyped' /\ Msgs' = Msgs
    <3>1. reg' \in [Plugins -> {0} \cup States] /\ \A k \in States : st'[k].crashes <= k
      BY <1>4, <1>5 DEF Typed, StatesTyped
    <3> QED
      BY <1>1, <1>4, <1>6, <3>1, ShapedTyped DEF workerVars, poolVars, Typed, WaitsTyped
  <2>2. Numbered' /\ WorkersTyped' /\ PoolTyped'
    <3>1. UNCHANGED <<spawned, alive, pool, pools, idle, busy, hooks, inbox, doing>>
      BY <1>1 DEF workerVars, poolVars
    <3>2. pool = 0 /\ pools # 0 => stage' = "stopped"
      BY <1>5, <1>7 DEF Typed, Numbered, Safe, LoadsUnderWay, Registry, Loading
    <3>3. stage' # "stopped" => pools # 2
      BY <1>5, <1>7 DEF Typed, Numbered, Safe, LoadsUnderWay, Registry, Loading
    <3> QED
      BY <2>1, <3>1, <3>2, <3>3, <1>4 DEF Typed, Numbered, WorkersTyped, PoolTyped
  <2>3. RestTyped'
    BY <1>1, <1>5 DEF Typed, RestTyped, historyVars
  <2> QED
    BY <2>1, <2>2, <2>3 DEF Typed
<1>10. alive' = alive /\ turn' = turn /\ idle' = idle /\ busy' = busy
  BY <1>1 DEF workerVars, poolVars
<1>11. \A k \in I : Loading(k) /\ Latest(k) /\ st[k].load = "init"
  BY <1>7 DEF Safe, LoadsUnderWay, Lineage, Loading
<1>12. LoadsEnd(I, {}, I)
  BY <1>4, <1>5, <1>7, <1>8, <1>10, <1>11, ElementsTyped DEF LoadsEnd
<1>13. ASSUME stage' # "exited" PROVE Safe'
  <2>1. stage' = stage
    BY <1>5, <1>13
  <2>2. Around(I)
    <3>1. closings' = closings /\ stragglers' = stragglers
      BY <1>1 DEF historyVars
    <3>2. \A c \in closings : /\ c.by = "load" => c.s \notin I
                              /\ c.by = "dispose" => stage' = "disposing"
                              /\ c.by = "all" => stage' = "closing"
      BY <2>1, <1>11 DEF Safe, ClosingsOK
    <3>3. stage = "stopped" /\ ~stragglers => alive = {}
      BY DEF Safe, Stopping
    <3> QED
      BY <3>1, <3>2, <3>3, <2>1, <1>10 DEF Around, InPool
  <2> QED
    BY <1>6, <1>12, <2>2, AroundSafe
<1>14. Further
  <2>1. Owned => Owned'
    <3>1. \A p \in Plugins : reg'[p] \in {0, reg[p]}
      BY <1>5
    <3>2. stage' \in {"loading", "up"} => stage' = stage
      BY <1>5
    <3>3. \A c \in closings' : c \in closings
      BY <1>1
    <3> QED
      BY <1>6, <1>10, <3>1, <3>2, <3>3, OwnedKept
  <2>2. Budget => Budget'
    <3>1. UNCHANGED <<streak, diedUnloaded>>
      BY <1>1 DEF historyVars
    <3> QED
      BY <1>4, <1>6, <1>11, <3>1, BudgetKept DEF Safe
  <2> QED
    BY <2>1, <2>2 DEF Further
<1> QED
  BY <1>6, <1>9, <1>12, <1>13, <1>14, LoadsEndSafe DEF Core

LEMMA InitSucceedsKeeps ==
    ASSUME Typed, Safe, NEW d \in doing, InitSucceeds(d)
    PROVE  Typed' /\ Safe' /\ Further
<1> DEFINE i == d.m.s
           j == st[i].parent
<1>1. /\ UNCHANGED <<alive, spawned, poolVars, turn, calls, historyVars, inbox, reg, closings, stage>>
      /\ doing' = doing \ {d} /\ hooks' = [hooks EXCEPT ![d.w] = st[i].plugin]
  BY DEF InitSucceeds, Ends
<1>2. /\ d.m \in Msgs /\ d.w \in Workers /\ i \in States
  BY WorkersFit DEF Typed, WorkersTyped, Msgs
<1>3. hooks' \in [Workers -> Plugins \cup {None}]
  BY <1>1, <1>2, ElementsTyped DEF Typed, WorkersTyped
<1>4. doing' \in SUBSET [w : alive', m : Msgs, code : Plugins \cup {None}]
  BY <1>1 DEF Typed, WorkersTyped
<1>5. CASE ~AwaitsInit(i)
  <2>1. rpcs' = rpcs /\ st' = st
    BY <1>5 DEF InitSucceeds
  <2>2. /\ UNCHANGED <<spawned, poolVars, st, reg, historyVars>> /\ alive' \subseteq alive /\ Stages
        /\ SameClosings /\ \A k \in States : AwaitsInit(k)' <=> AwaitsInit(k)
    BY <1>1, <2>1, ClosingsStay DEF Stages, AwaitsInit
  <2>3. Typed'
    BY <1>1, <1>3, <1>4, <2>1, <2>2, QuietTyped DEF Typed, WorkersTyped, WaitsTyped, RestTyped
  <2>4. Safe' /\ Further
    BY <2>2, QuietSafe, QuietFurther
  <2> QED
    BY <2>3, <2>4
<1>6. CASE AwaitsInit(i)
  <2> DEFINE s(k) == [st[k] EXCEPT
                         !.load = IF k = i THEN "loaded" ELSE @,
                         !.restart = IF k = j THEN "no" ELSE @,
                         !.crashes = IF Inherits(k, j) THEN st[j].crashes ELSE @,
                         !.crashedBefore = @ \/ Inherits(k, j)]
  <2>1. rpcs' = rpcs \ {[s |-> i, call |-> 0]} /\ st' = [k \in States |-> s(k)]
    BY <1>6 DEF InitSucceeds
  <2>2. st[i].load = "init" /\ Loading(i) /\ Latest(i) /\ reg[st[i].plugin] = i
    BY <1>2, <1>6 DEF Safe, LoadsUnderWay, Lineage, Loading
  <2>3. j # 0 => j \in States /\ j < i /\ st[j].plugin = st[i].plugin
    BY <1>2, ParentFacts
  <2>4. \A k \in States : Inherits(k, j) => k = i /\ j \in States /\ st[j].crashes \in Nat /\ st[j].crashes < i
    BY <2>2, <2>3, <1>2, ElementsTyped DEF Inherits
  <2>5. \A k \in States : /\ s(k) \in Records
                          /\ s(k).plugin = st[k].plugin /\ s(k).worker = st[k].worker
                          /\ s(k).parent = st[k].parent /\ s(k).restarting = st[k].restarting
                          /\ s(k).load = IF k = i THEN "loaded" ELSE st[k].load
                          /\ s(k).restart = IF k = j THEN "no" ELSE st[k].restart
                          /\ s(k).crashes = IF Inherits(k, j) THEN st[j].crashes ELSE st[k].crashes
    <3> TAKE k \in States
    <3>1. st[k] \in Records
      BY ElementsTyped
    <3>2. (IF Inherits(k, j) THEN st[j].crashes ELSE st[k].crashes) \in Nat
      BY <2>4, ElementsTyped
    <3>3. (st[k].crashedBefore \/ Inherits(k, j)) \in BOOLEAN
      OBVIOUS
    <3> HIDE DEF i, j
    <3> QED
      BY <3>1, <3>2, <3>3 DEF Records
  <2> HIDE DEF s
  <2>6. st' \in Seq(Records) /\ Len(st') = Len(st) /\ DOMAIN st' = States
    BY <2>1, <2>5, WorkersFit
  <2>7. \A k \in States :
            /\ st'[k].plugin = st[k].plugin /\ st'[k].worker = st[k].worker
            /\ st'[k].parent = st[k].parent /\ st'[k].restarting = st[k].restarting
            /\ st'[k].load = IF k = i THEN "loaded" ELSE st[k].load
            /\ st'[k].restart = IF k = j THEN "no" ELSE st[k].restart
            /\ st'[k].crashes = IF Inherits(k, j) THEN st[j].crashes ELSE st[k].crashes
    BY <2>1, <2>5
  <2>8. Shaped
    BY <2>6, <2>7 DEF Shaped, States
  <2>9. \A k \in States : st'[k].crashes <= k /\ (st'[k].crashes = st[k].crashes \/ st'[k].crashes < k)
    <3> TAKE k \in States
    <3>1. CASE Inherits(k, j)
      BY <3>1, <2>4, <2>7, ElementsTyped
    <3>2. CASE ~Inherits(k, j)
      BY <3>2, <2>7, ElementsTyped
    <3> QED
      BY <3>1, <3>2
  <2>10. \A k \in States : AwaitsInit(k)' <=> AwaitsInit(k) /\ k \notin {i}
    BY <2>1 DEF AwaitsInit
  <2> HIDE DEF i, j
  <2>11. Typed'
    <3>1. StatesTyped' /\ WaitsTyped' /\ Msgs' = Msgs
      <4>1. reg' \in [Plugins -> {0} \cup States]
        BY <1>1 DEF Typed, StatesTyped
      <4> QED
        BY <1>1, <2>1, <2>6, <2>8, <2>9, <4>1, ShapedTyped DEF poolVars, Typed, WaitsTyped
    <3>2. Numbered' /\ PoolTyped'
      BY <1>1, <2>6 DEF Typed, Numbered, PoolTyped, poolVars
    <3>3. WorkersTyped'
      BY <1>1, <1>3, <1>4, <3>1 DEF Typed, WorkersTyped
    <3>4. RestTyped'
      BY <1>1 DEF Typed, RestTyped, historyVars
    <3> QED
      BY <3>1, <3>2, <3>3, <3>4 DEF Typed
  <2>12. LoadsEnd({i}, {}, {})
    <3>1. \A k \in States : (\E n \in {i} : st[n].parent = k) <=> k = j
      BY DEF j
    <3> QED
      BY <1>1, <1>2, <2>2, <2>7, <2>9, <2>10, <3>1 DEF LoadsEnd, Typed, StatesTyped
  <2>13. Around({i})
    <3>1. closings' = closings /\ stragglers' = stragglers /\ idle' = idle /\ busy' = busy
          /\ stage' = stage /\ turn' = turn /\ alive' = alive
      BY <1>1 DEF historyVars, poolVars
    <3>2. \A c \in closings : /\ c.by = "load" => c.s \notin {i}
                              /\ c.by = "dispose" => stage = "disposing"
                              /\ c.by = "all" => stage = "closing"
      BY <2>2 DEF Safe, ClosingsOK
    <3>3. stage = "stopped" /\ ~stragglers => alive = {}
      BY DEF Safe, Stopping
    <3> QED
      BY <3>1, <3>2, <3>3 DEF Around, InPool
  <2>14. Safe'
    BY <2>8, <2>12, <2>13, AroundSafe
  <2>15. Owned => Owned'
    <3>1. idle' = idle /\ busy' = busy /\ reg' = reg /\ stage' = stage /\ closings' = closings
      BY <1>1 DEF poolVars
    <3> QED
      BY <2>8, <3>1, OwnedKept
  <2>16. ASSUME Budget PROVE Budget'
    <3>1. /\ States' = States /\ UNCHANGED <<streak, diedUnloaded>>
          /\ \A k \in States : Latest(k)' <=> Latest(k)
      BY <1>1, <2>8, ShapedLatest DEF historyVars, Shaped
    <3>2. st[i].restart = "no" /\ st[i].crashes \in Nat /\ i # j /\ i # 0
      <4>1. st[i].plugin \in Plugins /\ i \in Nat /\ i >= 1 /\ st[i].crashes \in Nat
        BY <1>2, ElementsTyped
      <4> QED
        BY <2>2, <2>3, <4>1 DEF Safe, Registry
    <3>3. \A k \in States : st'[k].restart = "backoff" =>
              /\ st'[k].crashes <= MaxRestarts
              /\ st'[k].load # "loaded" => st'[k].plugin \in diedUnloaded
      <4> SUFFICES ASSUME NEW k \in States, st'[k].restart = "backoff"
                   PROVE  /\ st'[k].crashes <= MaxRestarts
                          /\ st'[k].load # "loaded" => st'[k].plugin \in diedUnloaded
        OBVIOUS
      <4>1. st[k].restart = "backoff" /\ k # i
        BY <2>7, <3>2
      <4> QED
        BY <2>4, <2>7, <2>16, <4>1 DEF Budget
    <3>4. \A k \in States : Latest(k)' /\ st'[k].plugin \notin diedUnloaded =>
              /\ st'[k].load = "loaded" => streak[st'[k].plugin] <= st'[k].crashes
              /\ Loading(k)' => streak[st'[k].plugin] <=
                                   IF st'[k].parent = 0 THEN 0 ELSE st'[st'[k].parent].crashes
      <4> SUFFICES ASSUME NEW k \in States, Latest(k), st[k].plugin \notin diedUnloaded
                   PROVE  /\ st'[k].load = "loaded" => streak[st[k].plugin] <= st'[k].crashes
                          /\ Loading(k)' => streak[st[k].plugin] <=
                                              IF st[k].parent = 0 THEN 0 ELSE st'[st[k].parent].crashes
        BY <2>7, <3>1
      <4>1. CASE k = i
        <5>1. streak[st[i].plugin] <= IF j = 0 THEN 0 ELSE st[j].crashes
          BY <1>2, <2>2, <2>16, <4>1 DEF Budget, j
        <5>2. ~Loading(i)'
          BY <1>2, <2>7 DEF Loading
        <5>3. CASE j = 0
          <6>1. ~Inherits(i, j)
            BY <5>3 DEF Inherits
          <6>2. streak[st[i].plugin] \in Nat
            BY <1>2, ElementsTyped DEF Typed, RestTyped
          <6> QED
            BY <1>2, <2>7, <3>2, <4>1, <5>1, <5>2, <5>3, <6>1, <6>2
        <5>4. CASE j # 0
          <6>1. Inherits(i, j)
            BY <2>2, <2>3, <5>4 DEF Inherits
          <6> QED
            BY <1>2, <2>7, <4>1, <5>1, <5>2, <5>4, <6>1
        <5> QED
          BY <5>3, <5>4
      <4>2. CASE k # i
        <5>1. st'[k].load = st[k].load /\ st'[k].crashes = st[k].crashes
          BY <2>4, <2>7, <4>2
        <5>2. Loading(k)' => Loading(k)
          BY <5>1 DEF Loading
        <5>3. ASSUME st[k].parent # 0
              PROVE  st'[st[k].parent].crashes = st[st[k].parent].crashes
          <6>1. st[k].parent \in States /\ ~Latest(st[k].parent)
            BY <5>3, ParentFacts
          <6> QED
            BY <2>2, <2>4, <2>7, <6>1
        <5> QED
          BY <2>16, <5>1, <5>2, <5>3 DEF Budget
      <4> QED
        BY <4>1, <4>2
    <3>5. \A p \in Plugins : (\A k \in States : st'[k].plugin # p) => streak[p] = 0
      BY <2>7, <2>16 DEF Budget
    <3> QED
      BY <3>1, <3>3, <3>4, <3>5 DEF Budget
  <2> QED
    BY <2>11, <2>14, <2>15, <2>16 DEF Further
<1> QED
  BY <1>5, <1>6

LEMMA CloseEndsKeeps ==
    ASSUME Typed, Safe, NEW c \in closings, CloseEnds(c)
    PROVE  Core' /\ Further
<1> DEFINE i == c.s
           p == st[i].plugin
           I == {n \in {i} : c.by = "load" \/ AwaitsInit(n)}
           Given == c.pool # 0 /\ c.pool = pool /\ c.w # 0
<1>1. /\ UNCHANGED <<spawned, pool, pools, turn, calls, streak, diedUnloaded, stragglers>>
      /\ closings' = closings \ {c} /\ rpcs' = {r \in rpcs : r.s # i}
      /\ FailLoads(st, Without(reg, {i}), I, stage)
      /\ unreset' = IF c.acked THEN unreset ELSE unreset \cup {c.w}
  BY DEF CloseEnds
<1>2. /\ IF Given THEN busy' = [busy EXCEPT ![p] = 0] /\ idle' = Append(idle, c.w)
                  ELSE UNCHANGED <<busy, idle>>
      /\ IF c.pool = 0 THEN Gone({c.w}) ELSE UNCHANGED <<alive, hooks, inbox, doing>>
  BY DEF CloseEnds
<1>3. /\ i \in States /\ c \in Closings /\ p \in Plugins /\ st[i].worker \in Workers
      /\ \A k \in States : st[k] \in Records
  BY ElementsTyped DEF Typed, WaitsTyped, Closings
<1>4. /\ Latest(i) /\ st[i].restarting /\ c.w \in {0, st[i].worker}
      /\ (c.pool = 0 => c.w = st[i].worker) /\ (c.by = "load" => st[i].load = "closing")
  BY DEF Safe, ClosingsOK
<1>5. DOMAIN st = States
  BY DEF States
<1>6. /\ st' \in Seq(Records) /\ States' = States /\ Len(st') = Len(st)
      /\ \A k \in States :
            /\ st'[k].plugin = st[k].plugin /\ st'[k].worker = st[k].worker
            /\ st'[k].parent = st[k].parent /\ st'[k].restarting = st[k].restarting
            /\ st'[k].crashes = st[k].crashes
            /\ st'[k].load = IF k \in I THEN "failed" ELSE st[k].load
            /\ st'[k].restart = IF \E n \in I : st[n].parent = k THEN "no" ELSE st[k].restart
  BY <1>1, <1>3, <1>5, FailLoadsFacts
<1>7. \A k \in I : k = i /\ Loading(k)
  BY <1>3, <1>4 DEF Safe, LoadsUnderWay, Loading
<1>8. /\ \A q \in Plugins : reg'[q] = IF st[i].plugin = q THEN 0 ELSE reg[q]
      /\ reg' \in [Plugins -> {0} \cup States]
      /\ stage' = IF \E n \in I : st[n].parent = 0 THEN "exited" ELSE stage
  BY <1>1 DEF FailLoads, Without, Typed, StatesTyped
<1>9. Shaped
  BY <1>6 DEF Shaped
<1>10. \A k \in States : AwaitsInit(k)' <=> AwaitsInit(k) /\ k # i
  BY <1>1 DEF AwaitsInit
<1>11. AwaitsInit(i) => i \in I
  OBVIOUS
<1>12. alive' \subseteq alive /\ (c.pool = 0 => c.w \notin alive')
  BY <1>2 DEF Gone
<1>13. stage' # "exited" => stage' = stage
  BY <1>8
<1>14. stage' = "exited" => stage = "loading" \/ stage = "exited"
  BY <1>3, <1>7, <1>8 DEF Safe, Registry
<1>15. /\ idle' \in Seq(1..spawned) /\ busy' \in [Plugins -> 0..spawned]
       /\ \A q \in Plugins : busy'[q] \in {0, busy[q]}
       /\ pools = 0 => idle' = idle
  <2>1. CASE Given
    <3>1. c.w \in 1..spawned
      BY <2>1, <1>3, <1>4, WorkersFit DEF Typed, StatesTyped, Workers
    <3>2. spawned \in Nat
      BY WorkersFit
    <3>3. pools # 0
      BY <2>1 DEF Typed, Numbered
    <3>4. idle' = Append(idle, c.w) /\ busy' = [busy EXCEPT ![p] = 0]
      BY <2>1, <1>2
    <3>5. idle \in Seq(1..spawned) /\ busy \in [Plugins -> 0..spawned]
      BY DEF Typed, PoolTyped
    <3>6. idle' \in Seq(1..spawned)
      BY <3>1, <3>4, <3>5, AppendProperties
    <3>7. busy' \in [Plugins -> 0..spawned]
      BY <1>3, <3>2, <3>4, <3>5
    <3>8. \A q \in Plugins : busy'[q] \in {0, busy[q]}
      BY <3>4, <3>5
    <3> QED
      BY <3>3, <3>6, <3>7, <3>8
  <2>2. CASE ~Given
    BY <2>2, <1>2 DEF Typed, PoolTyped
  <2> QED
    BY <2>1, <2>2
<1> HIDE DEF I
<1>16. Typed'
  <2>1. StatesTyped' /\ WaitsTyped' /\ Msgs' = Msgs
    <3>1. \A k \in States : st'[k].crashes <= k
      BY <1>6, ElementsTyped
    <3>2. closings' \in SUBSET Closings /\ \A e \in closings' : e.pool <= pools
      BY <1>1 DEF Typed, WaitsTyped
    <3> QED
      BY <1>1, <1>6, <1>8, <1>9, <3>1, <3>2, ShapedTyped
  <2>2. PoolTyped'
    BY <1>1, <1>15 DEF PoolTyped
  <2>3. Numbered'
    <3>1. stage' = "stopped" <=> stage = "stopped"
      BY <1>13, <1>14
    <3>2. spawned' = spawned /\ pool' = pool /\ pools' = pools /\ Len(st') = Len(st)
      BY <1>1, <1>6
    <3> QED
      BY <1>12, <1>15, <3>1, <3>2 DEF Typed, Numbered
  <2>4. WorkersTyped'
    <3>1. CASE c.pool = 0
      BY <3>1, <1>2, <2>1, GoneFacts DEF WorkersTyped
    <3>2. CASE c.pool # 0
      BY <3>2, <1>2, <2>1 DEF Typed, WorkersTyped
    <3> QED
      BY <3>1, <3>2
  <2>5. RestTyped'
    <3>1. c.acked \/ c.w \in Workers
      BY <1>3, <1>4 DEF Closings
    <3> QED
      BY <1>1, <1>8, <3>1 DEF Typed, RestTyped
  <2> QED
    BY <2>1, <2>2, <2>3, <2>4, <2>5 DEF Typed
<1>17. LoadsEnd(I, {}, {i})
  <2>1. \A k \in States : AwaitsInit(k)' <=> AwaitsInit(k) /\ k \notin I
    BY <1>7, <1>10, <1>11
  <2>2. Latest(i) /\ ~AwaitsInit(i)'
    BY <1>3, <1>4, <1>10
  <2> HIDE DEF i
  <2> QED
    BY <1>3, <1>6, <1>7, <1>8, <1>12, <2>1, <2>2 DEF LoadsEnd
<1>18. ASSUME stage' # "exited" PROVE Safe'
  <2>1. stage' = stage /\ turn' = turn
    BY <1>1, <1>13, <1>18
  <2>2. Around(I)
    <3>1. closings' \subseteq closings /\ stragglers' = stragglers
      BY <1>1
    <3>2. ASSUME NEW e \in closings'
          PROVE  /\ e.by = "load" => e.s \notin I
                 /\ e.by = "dispose" => stage' = "disposing"
                 /\ e.by = "all" => stage' = "closing"
      <4>1. e \in closings /\ e # c
        BY <3>2, <1>1
      <4>2. ASSUME e.by = "load", e.s \in I PROVE FALSE
        <5>1. e.s = i /\ st[i].load = "closing"
          BY <4>1, <4>2, <1>7 DEF Safe, ClosingsOK
        <5>2. ~AwaitsInit(i)
          BY <5>1, <1>3 DEF Safe, LoadsUnderWay
        <5>3. c.by = "load"
          BY <5>1, <5>2, <4>2 DEF I
        <5> QED
          BY <5>1, <5>3, <4>1, <4>2 DEF Safe, ClosingsOK
      <4> QED
        BY <4>1, <4>2, <2>1 DEF Safe, ClosingsOK
    <3>3. \A e \in closings : e.pool = 0 /\ e.w \in alive' => e \in closings'
      BY <1>1, <1>12
    <3>4. ASSUME NEW w \in alive', InPool(w), stage # "stopped" PROVE InPool(w)'
      <4>1. CASE Given
        <5>1. idle' = Append(idle, c.w) /\ idle \in Seq(1..spawned) /\ c.w \in 1..spawned
          BY <4>1, <1>2, <1>3, <1>4, WorkersFit DEF Typed, PoolTyped, StatesTyped, Workers
        <5>2. Len(idle) + 1 \in DOMAIN idle' /\ idle'[Len(idle) + 1] = c.w
          BY <5>1
        <5>3. \A k \in DOMAIN idle : k \in DOMAIN idle' /\ idle'[k] = idle[k]
          BY <5>1
        <5>4. CASE \E k \in DOMAIN idle : idle[k] = w
          BY <5>3, <5>4 DEF InPool
        <5>5. CASE busy[p] = w
          <6>1. w # 0
            BY WorkersFit, <1>12 DEF Workers
          <6>2. PICK k \in States : st[k].plugin = p /\ Latest(k) /\ st[k].worker = w
            BY <5>5, <6>1, <1>3 DEF Safe, Known
          <6>3. k = i
            BY <6>2, <1>3, <1>4, OneLatest
          <6> QED
            BY <6>2, <6>3, <5>2, <1>4, <4>1 DEF InPool
        <5>6. CASE \E q \in Plugins : busy[q] = w /\ q # p
          <6>1. PICK q \in Plugins : busy[q] = w /\ q # p
            BY <5>6
          <6>2. busy'[q] = w
            BY <6>1, <4>1, <1>2 DEF Typed, PoolTyped
          <6> QED
            BY <6>2 DEF InPool
        <5> QED
          BY <3>4, <5>4, <5>5, <5>6 DEF InPool
      <4>2. CASE ~Given
        BY <3>4, <4>2, <1>2 DEF InPool
      <4> QED
        BY <4>1, <4>2
    <3>5. stage = "stopped" /\ ~stragglers => alive' = {}
      BY <1>12 DEF Safe, Stopping
    <3> QED
      BY <3>1, <3>2, <3>3, <3>4, <3>5, <1>15, <2>1 DEF Around
  <2> QED
    BY <1>9, <1>17, <2>2, AroundSafe
<1>19. Owned => Owned'
  <2>1. CASE ~Given
    <3>1. idle' = idle /\ busy' = busy
      BY <2>1, <1>2
    <3>2. \A q \in Plugins : reg'[q] \in {0, reg[q]}
      BY <1>8
    <3>3. \A e \in closings' : e \in closings
      BY <1>1
    <3>4. stage' \in {"loading", "up"} => stage \in {"loading", "up"}
      BY <1>13
    <3> QED
      BY <1>9, <3>1, <3>2, <3>3, <3>4, OwnedKept
  <2>2. ASSUME Owned, Given, stage' \in {"loading", "up"} PROVE Owned'
    <3>1. stage \in {"loading", "up"}
      BY <1>13, <2>2
    <3>2. /\ idle' = Append(idle, c.w) /\ busy' = [busy EXCEPT ![p] = 0] /\ idle \in Seq(1..spawned)
          /\ busy \in [Plugins -> 0..spawned]
      BY <2>2, <1>2 DEF Typed, PoolTyped
    <3>3. busy[p] = c.w /\ c.w # 0 /\ Pooled(p)
      BY <2>2, <3>1 DEF Owned
    <3>4. /\ Len(idle) \in Nat /\ DOMAIN idle = 1..Len(idle) /\ DOMAIN idle' = 1..(Len(idle) + 1)
          /\ idle'[Len(idle) + 1] = c.w /\ \A k \in DOMAIN idle : idle'[k] = idle[k]
      BY <3>2
    <3>5. \A k \in DOMAIN idle' : k \in DOMAIN idle \/ k = Len(idle) + 1
      BY <3>4
    <3>6. \A q \in Plugins : busy'[q] = IF q = p THEN 0 ELSE busy[q]
      BY <3>2
    <3>7. /\ \A k, n \in DOMAIN idle : k # n => idle[k] # idle[n]
          /\ \A q, r \in Plugins : q # r /\ busy[q] # 0 => busy[q] # busy[r]
          /\ \A k \in DOMAIN idle, q \in Plugins : idle[k] # busy[q]
          /\ \A m \in States : ~Pooled(st[m].plugin) =>
                /\ \A k \in DOMAIN idle : idle[k] # st[m].worker
                /\ \A q \in Plugins : busy[q] # st[m].worker
      BY <2>2, <3>1 DEF Owned
    <3> HIDE DEF p
    <3>8. \A k, n \in DOMAIN idle' : k # n => idle'[k] # idle'[n]
      BY <1>3, <3>3, <3>4, <3>5, <3>7
    <3>9. \A q, r \in Plugins : q # r /\ busy'[q] # 0 => busy'[q] # busy'[r]
      BY <3>6, <3>7
    <3>10. \A k \in DOMAIN idle', q \in Plugins : idle'[k] # busy'[q]
      <4> SUFFICES ASSUME NEW k \in DOMAIN idle', NEW q \in Plugins PROVE idle'[k] # busy'[q]
        OBVIOUS
      <4>1. CASE k \in DOMAIN idle
        <5>1. idle[k] \in 1..spawned /\ spawned \in Nat
          BY <3>2, <4>1, WorkersFit
        <5>2. idle[k] # 0
          BY <5>1
        <5> QED
          BY <3>4, <3>6, <3>7, <4>1, <5>2
      <4>2. CASE k = Len(idle) + 1
        BY <1>3, <3>3, <3>4, <3>6, <3>7, <4>2
      <4> QED
        BY <3>5, <4>1, <4>2
    <3>11. \A m \in States : ~Pooled(st[m].plugin) =>
              /\ \A k \in DOMAIN idle' : idle'[k] # st[m].worker
              /\ \A q \in Plugins : busy'[q] # st[m].worker
      <4> SUFFICES ASSUME NEW m \in States, ~Pooled(st[m].plugin)
                   PROVE  /\ \A k \in DOMAIN idle' : idle'[k] # st[m].worker
                          /\ \A q \in Plugins : busy'[q] # st[m].worker
        OBVIOUS
      <4>1. st[m].worker # 0
        BY ElementsTyped, Constants DEF Workers
      <4>2. busy[p] # st[m].worker
        BY <1>3, <3>7
      <4> QED
        BY <3>3, <3>4, <3>5, <3>6, <3>7, <4>1, <4>2
    <3>12. \A q \in Plugins : reg'[q] # 0 /\ Pooled(q) => busy'[q] = st[reg'[q]].worker /\ reg'[q] \in States
      <4> SUFFICES ASSUME NEW q \in Plugins, reg'[q] # 0, Pooled(q)
                   PROVE  busy'[q] = st[reg'[q]].worker /\ reg'[q] \in States
        OBVIOUS
      <4>1. q # p /\ reg'[q] = reg[q]
        BY <1>8 DEF p
      <4> QED
        BY <1>8, <2>2, <3>1, <3>6, <4>1 DEF Owned
    <3>13. \A e \in closings' : e.pool # 0 =>
              e.s \in States /\ Pooled(st[e.s].plugin) /\ busy'[st[e.s].plugin] = e.w
      <4> SUFFICES ASSUME NEW e \in closings', e.pool # 0
                   PROVE  e.s \in States /\ Pooled(st[e.s].plugin) /\ busy'[st[e.s].plugin] = e.w
        OBVIOUS
      <4>1. e \in closings /\ e # c /\ e \in Closings /\ e.s \in States
        BY <1>1 DEF Typed, WaitsTyped, Closings
      <4>2. e.by = "load" /\ c.by = "load"
        BY <1>3, <3>1, <4>1 DEF Closings, Safe, ClosingsOK
      <4>3. e.s # i
        BY <4>1, <4>2 DEF Safe, ClosingsOK
      <4>4. st[e.s].plugin # p
        <5>1. Latest(e.s)
          BY <4>1 DEF Safe, ClosingsOK
        <5> QED
          BY <1>3, <1>4, <4>1, <4>3, <5>1, OneLatest DEF p
      <4>5. st[e.s].plugin \in Plugins
        BY <4>1, ElementsTyped
      <4> QED
        BY <2>2, <3>1, <3>6, <4>1, <4>4, <4>5 DEF Owned
    <3>14. /\ States' = States
           /\ \A m \in States : st'[m].plugin = st[m].plugin /\ st'[m].worker = st[m].worker
      BY <1>6
    <3> QED
      BY <3>8, <3>9, <3>10, <3>11, <3>12, <3>13, <3>14 DEF Owned, Pooled
  <2> QED
    BY <2>1, <2>2 DEF Owned
<1>20. Budget => Budget'
  BY <1>1, <1>6, <1>7, <1>9, BudgetKept DEF Safe
<1> QED
  BY <1>9, <1>16, <1>17, <1>18, <1>19, <1>20, LoadsEndSafe DEF Core, Further

\* The death of workers, and what the crash handlers do.
LEMMA DieFacts ==
    ASSUME Typed, Safe, NEW ws, NEW quiet \in BOOLEAN, NEW next, Die(ws, quiet, next),
           next = stage \/ (stage = "closing" /\ next = "stopped"),
           NEW V, V = Victims(ws \cap alive)
    PROVE  /\ Shaped /\ Len(st') = Len(st) /\ spawned' = spawned /\ rpcs' \subseteq rpcs
           /\ reg' \in [Plugins -> {0} \cup States] /\ \A k \in States : st'[k].crashes <= k
           /\ streak' \in [Plugins -> Nat] /\ diedUnloaded' \in SUBSET Plugins
           /\ stage' = next \/ (stage' = "exited" /\ stage = "loading")
           /\ LoadsEnd({i \in V : AwaitsInit(i)}, V, V)
           /\ \A p \in Plugins : reg'[p] \in {0, reg[p]}
           /\ Budget => Budget'
<1> DEFINE I == {i \in V : AwaitsInit(i)}
           states == [k \in States |-> IF k \in V THEN Crashed(k, quiet) ELSE st[k]]
           n(k) == IF quiet /\ st[k].crashedBefore THEN 1 ELSE st[k].crashes + 1
<1>1. /\ Gone(ws) /\ rpcs' = {r \in rpcs : r.s \notin V} /\ spawned' = spawned
      /\ FailLoads(states, Without(reg, V), I, next)
      /\ streak' = [p \in Plugins |->
                       IF p \notin {st[i].plugin : i \in V} THEN streak[p]
                       ELSE IF quiet THEN 1 ELSE streak[p] + 1]
      /\ diedUnloaded' = diedUnloaded \cup {st[i].plugin : i \in {k \in V : st[k].load # "loaded"}}
  BY DEF Die
<1>2. V \subseteq States /\ I \subseteq V
  BY DEF Victims
<1>3. \A k \in V : /\ st[k].worker \in ws \cap alive /\ ~st[k].restarting
                   /\ Latest(k) /\ st[k].crashes < k /\ (Loading(k) => k \in I)
  BY DEF Victims, Safe, Lineage, LoadsUnderWay, Loading
<1>4. \A k \in V : n(k) \in Nat /\ n(k) <= k
  <2> TAKE k \in V
  <2>1. st[k].crashes \in Nat /\ st[k].crashes < k /\ k \in Nat /\ k >= 1
    BY <1>2, <1>3, ElementsTyped
  <2> QED
    BY <2>1
<1> HIDE DEF n
<1>5. \A k \in States : /\ states[k] \in Records
                        /\ states[k].plugin = st[k].plugin /\ states[k].worker = st[k].worker
                        /\ states[k].parent = st[k].parent /\ states[k].load = st[k].load
                        /\ k \notin V => states[k] = st[k]
                        /\ k \in V => states[k].restart \in {"no", "backoff"} /\ states[k].crashes = n(k)
  <2> SUFFICES ASSUME NEW k \in States
               PROVE  /\ states[k] \in Records
                      /\ states[k].plugin = st[k].plugin /\ states[k].worker = st[k].worker
                      /\ states[k].parent = st[k].parent /\ states[k].load = st[k].load
                      /\ k \notin V => states[k] = st[k]
                      /\ k \in V => states[k].restart \in {"no", "backoff"} /\ states[k].crashes = n(k)
    OBVIOUS
  <2>1. st[k] \in Records
    BY ElementsTyped
  <2>2. CASE k \in V
    <3>1. states[k] = [st[k] EXCEPT !.crashes = n(k), !.crashedBefore = TRUE,
                                    !.restarting = n(k) <= MaxRestarts,
                                    !.restart = IF n(k) <= MaxRestarts THEN "backoff" ELSE "no"]
      BY <2>2 DEF Crashed, n
    <3>2. n(k) \in Nat /\ (n(k) <= MaxRestarts) \in BOOLEAN
      BY <2>2, <1>4
    <3> HIDE DEF states
    <3> QED
      BY <2>1, <2>2, <3>1, <3>2 DEF Records
  <2>3. CASE k \notin V
    BY <2>1, <2>3
  <2> QED
    BY <2>2, <2>3
<1>6. DOMAIN states = States
  OBVIOUS
<1> HIDE DEF states, I
<1>7. /\ st' \in Seq(Records) /\ States' = States /\ Len(st') = Len(st)
      /\ \A k \in States :
            /\ st'[k].plugin = states[k].plugin /\ st'[k].worker = states[k].worker
            /\ st'[k].parent = states[k].parent /\ st'[k].restarting = states[k].restarting
            /\ st'[k].crashes = states[k].crashes
            /\ st'[k].load = IF k \in I THEN "failed" ELSE states[k].load
            /\ st'[k].restart = IF \E i \in I : states[i].parent = k THEN "no" ELSE states[k].restart
  <2>1. \A k \in States : states[k] \in Records
    BY <1>5
  <2>2. FailLoads(states, Without(reg, V), I, next)
    BY <1>1
  <2> QED
    BY <1>6, <2>1, <2>2, FailLoadsFacts
<1>8. Shaped
  BY <1>5, <1>7 DEF Shaped
<1>9. /\ \A p \in Plugins : reg'[p] = IF \E i \in V : st[i].plugin = p THEN 0 ELSE reg[p]
      /\ reg' \in [Plugins -> {0} \cup States]
      /\ stage' = IF \E i \in I : st[i].parent = 0 THEN "exited" ELSE next
  BY <1>1, <1>2, <1>5 DEF FailLoads, Without, Typed, StatesTyped
<1>10. \A k \in States : /\ st'[k].crashes <= k
                         /\ k \notin V => st'[k].crashes = st[k].crashes
  <2> TAKE k \in States
  <2>1. st'[k].crashes = states[k].crashes /\ st[k].crashes <= k
    BY <1>7, ElementsTyped
  <2>2. CASE k \in V
    BY <2>1, <2>2, <1>4, <1>5
  <2>3. CASE k \notin V
    BY <2>1, <2>3, <1>5
  <2> QED
    BY <2>2, <2>3
<1>11. streak' \in [Plugins -> Nat] /\ diedUnloaded' \in SUBSET Plugins
  <2>1. \A k \in V : st[k].plugin \in Plugins
    BY <1>2, ElementsTyped
  <2>2. streak \in [Plugins -> Nat] /\ diedUnloaded \in SUBSET Plugins
    BY DEF Typed, RestTyped
  <2>3. diedUnloaded' \in SUBSET Plugins
    BY <1>1, <2>1, <2>2
  <2>4. \A p \in Plugins : (IF p \notin {st[i].plugin : i \in V} THEN streak[p]
                             ELSE IF quiet THEN 1 ELSE streak[p] + 1) \in Nat
    BY <2>2
  <2> QED
    BY <1>1, <2>3, <2>4
<1>12. stage' = next \/ (stage' = "exited" /\ stage = "loading")
  <2>1. ASSUME NEW i \in I, st[i].parent = 0 PROVE stage = "loading"
    BY <2>1, <1>1, <1>2 DEF Safe, LoadsUnderWay, Registry, Loading, I
  <2> QED
    BY <1>9, <2>1
<1>13. LoadsEnd(I, V, V)
  <2>1. \A k \in I : Loading(k) /\ AwaitsInit(k)
    BY <1>2 DEF Safe, LoadsUnderWay, Loading, I
  <2>2. \A k \in V : /\ st[k].worker \in alive \ alive' /\ ~st[k].restarting
                     /\ (AwaitsInit(k) => k \in I) /\ st[k].plugin \in {st[i].plugin : i \in V}
    BY <1>1, <1>3 DEF Gone, I
  <2>3. \A k \in States : AwaitsInit(k)' <=> AwaitsInit(k) /\ k \notin V
    BY <1>1 DEF AwaitsInit
  <2>4. \A k \in V : Latest(k) /\ ~AwaitsInit(k)'
    BY <1>2, <1>3, <2>3
  <2>5. \A k \in States : AwaitsInit(k)' <=> AwaitsInit(k) /\ k \notin I
    BY <1>2, <2>3, <2>2
  <2>6. \A k \in States : (\E i \in I : states[i].parent = k) <=> (\E i \in I : st[i].parent = k)
    BY <1>2, <1>5
  <2>7. alive' \subseteq alive
    BY <1>1 DEF Gone
  <2>8. \A k \in States : /\ st'[k].load = st[k].load \/ (k \in I /\ st'[k].load \in {"loaded", "failed"})
                          /\ k \in I => st'[k].load \in {"loaded", "failed"}
                          /\ k \notin V => st'[k].restarting = st[k].restarting
                          /\ IF \E i \in I : st[i].parent = k THEN st'[k].restart = "no"
                             ELSE IF k \in V THEN st'[k].restart \in {"no", "backoff"}
                             ELSE st'[k].restart = st[k].restart
    <3> TAKE k \in States
    <3>1. states[k].load = st[k].load /\ (k \notin V => states[k] = st[k])
          /\ (k \in V => states[k].restart \in {"no", "backoff"})
      BY <1>5
    <3>2. /\ st'[k].restarting = states[k].restarting
          /\ st'[k].load = IF k \in I THEN "failed" ELSE states[k].load
          /\ st'[k].restart = IF \E i \in I : states[i].parent = k THEN "no" ELSE states[k].restart
      BY <1>7
    <3>3. (\E i \in I : states[i].parent = k) <=> (\E i \in I : st[i].parent = k)
      BY <2>6
    <3> QED
      BY <3>1, <3>2, <3>3
  <2> QED
    BY <1>2, <1>9, <1>10, <2>1, <2>2, <2>4, <2>5, <2>7, <2>8 DEF LoadsEnd
<1>14. ASSUME Budget PROVE Budget'
  <2>1. \A k \in V : states[k].restart = IF n(k) <= MaxRestarts THEN "backoff" ELSE "no"
    <3> TAKE k \in V
    <3>1. st[k] \in Records
      BY <1>2, ElementsTyped
    <3>2. states[k] = [st[k] EXCEPT !.crashes = n(k), !.crashedBefore = TRUE,
                                    !.restarting = n(k) <= MaxRestarts,
                                    !.restart = IF n(k) <= MaxRestarts THEN "backoff" ELSE "no"]
      BY <1>2 DEF states, Crashed, n
    <3> QED
      BY <3>1, <3>2 DEF Records
  <2>2. \A k \in States :
            /\ st'[k].crashes = IF k \in V THEN n(k) ELSE st[k].crashes
            /\ st'[k].load = IF k \in I THEN "failed" ELSE st[k].load
            /\ st'[k].restart = "backoff" => IF k \in V THEN n(k) <= MaxRestarts ELSE st[k].restart = "backoff"
    <3> TAKE k \in States
    <3>1. /\ states[k].load = st[k].load /\ (k \notin V => states[k] = st[k])
          /\ (k \in V => states[k].crashes = n(k))
      BY <1>5
    <3>2. /\ st'[k].crashes = states[k].crashes
          /\ st'[k].load = IF k \in I THEN "failed" ELSE states[k].load
          /\ st'[k].restart = "backoff" => states[k].restart = "backoff"
      BY <1>7
    <3>3. k \in V /\ states[k].restart = "backoff" => n(k) <= MaxRestarts
      BY <2>1
    <3> QED
      BY <3>1, <3>2, <3>3
  <2>3. /\ States' = States
        /\ \A k \in States : st'[k].plugin = st[k].plugin /\ st'[k].parent = st[k].parent
    BY <1>8 DEF Shaped
  <2>4. /\ diedUnloaded \subseteq diedUnloaded'
        /\ \A k \in V : st[k].load # "loaded" => st[k].plugin \in diedUnloaded'
    BY <1>1
  <2>5. \A k \in States, m \in V : Latest(k) /\ st[k].plugin = st[m].plugin => k = m
    BY <1>2, <1>3, OneLatest
  <2>6. \A k \in States : st'[k].restart = "backoff" =>
            /\ st'[k].crashes <= MaxRestarts
            /\ st'[k].load # "loaded" => st'[k].plugin \in diedUnloaded'
    <3> SUFFICES ASSUME NEW k \in States, st'[k].restart = "backoff"
                 PROVE  /\ st'[k].crashes <= MaxRestarts
                        /\ st'[k].load # "loaded" => st[k].plugin \in diedUnloaded'
      BY <2>3
    <3>1. CASE k \in V
      <4>1. st'[k].load # "loaded" => st[k].load # "loaded"
        BY <2>2, <1>2, <1>3 DEF Safe, LoadsUnderWay, I
      <4> QED
        BY <2>2, <2>4, <3>1, <4>1
    <3>2. CASE k \notin V
      BY <1>2, <1>14, <2>2, <2>4, <3>2 DEF Budget
    <3> QED
      BY <3>1, <3>2
  <2>7. \A k \in States : Latest(k)' /\ st'[k].plugin \notin diedUnloaded' =>
            /\ st'[k].load = "loaded" => streak'[st'[k].plugin] <= st'[k].crashes
            /\ Loading(k)' => streak'[st'[k].plugin] <=
                                 IF st'[k].parent = 0 THEN 0 ELSE st'[st'[k].parent].crashes
    <3> SUFFICES ASSUME NEW k \in States, Latest(k), st[k].plugin \notin diedUnloaded'
                 PROVE  /\ st'[k].load = "loaded" => streak'[st[k].plugin] <= st'[k].crashes
                        /\ Loading(k)' => streak'[st[k].plugin] <=
                                            IF st[k].parent = 0 THEN 0 ELSE st'[st[k].parent].crashes
      BY <1>8, <2>3, ShapedLatest
    <3>1. st[k].plugin \in Plugins /\ st[k].crashes \in Nat
      BY ElementsTyped
    <3>2. CASE k \in V
      <4>1. st[k].load = "loaded" /\ k \notin I
        BY <2>4, <3>2, <1>3 DEF Safe, LoadsUnderWay, I
      <4>2. ~Loading(k)'
        BY <2>2, <4>1 DEF Loading
      <4>3. streak'[st[k].plugin] = IF quiet THEN 1 ELSE streak[st[k].plugin] + 1
        BY <1>1, <3>1, <3>2
      <4>4. streak[st[k].plugin] <= st[k].crashes /\ streak[st[k].plugin] \in Nat
        BY <1>14, <2>4, <3>1, <4>1 DEF Budget, Typed, RestTyped
      <4>5. st'[k].crashes = IF quiet /\ st[k].crashedBefore THEN 1 ELSE st[k].crashes + 1
        BY <2>2, <3>2 DEF n
      <4>6. (IF quiet THEN 1 ELSE streak[st[k].plugin] + 1)
              <= (IF quiet /\ st[k].crashedBefore THEN 1 ELSE st[k].crashes + 1)
        BY <3>1, <4>4
      <4> QED
        BY <4>2, <4>3, <4>5, <4>6
    <3>3. CASE k \notin V
      <4>1. streak'[st[k].plugin] = streak[st[k].plugin]
        BY <1>1, <2>5, <3>1, <3>3
      <4>2. st'[k].load = st[k].load /\ st'[k].crashes = st[k].crashes
        BY <1>2, <2>2, <3>3
      <4>3. ASSUME st[k].parent # 0
            PROVE  st'[st[k].parent].crashes = st[st[k].parent].crashes
        <5>1. st[k].parent \in States /\ ~Latest(st[k].parent)
          BY <4>3, ParentFacts
        <5> QED
          BY <1>3, <2>2, <5>1
      <4>4. Loading(k)' => Loading(k)
        BY <4>2 DEF Loading
      <4> QED
        BY <1>14, <2>4, <4>1, <4>2, <4>3, <4>4 DEF Budget
    <3> QED
      BY <3>2, <3>3
  <2>8. \A p \in Plugins : (\A k \in States : st'[k].plugin # p) => streak'[p] = 0
    <3> SUFFICES ASSUME NEW p \in Plugins, \A k \in States : st[k].plugin # p PROVE streak'[p] = 0
      BY <2>3
    <3>1. streak'[p] = streak[p]
      BY <1>1, <1>2
    <3> QED
      BY <1>14, <3>1 DEF Budget
  <2> QED
    BY <2>3, <2>6, <2>7, <2>8 DEF Budget
<1>15. \A p \in Plugins : reg'[p] \in {0, reg[p]}
  BY <1>9
<1> QED
  BY <1>1, <1>7, <1>8, <1>9, <1>10, <1>11, <1>12, <1>13, <1>14, <1>15 DEF I

LEMMA CrashKeeps ==
    ASSUME Typed, Safe, NEW w, NEW quiet \in BOOLEAN, Crash(w, quiet)
    PROVE  Core' /\ Further
<1> DEFINE V == Victims({w} \cap alive)
           I == {i \in V : AwaitsInit(i)}
<1>1. Die({w}, quiet, stage) /\ UNCHANGED <<poolVars, closings, turn, calls, unreset, stragglers>>
  BY DEF Crash
<1>2. Gone({w})
  BY <1>1 DEF Die
<1>3. /\ Shaped /\ Len(st') = Len(st) /\ spawned' = spawned /\ rpcs' \subseteq rpcs
      /\ reg' \in [Plugins -> {0} \cup States] /\ \A k \in States : st'[k].crashes <= k
      /\ streak' \in [Plugins -> Nat] /\ diedUnloaded' \in SUBSET Plugins
      /\ stage' = stage \/ (stage' = "exited" /\ stage = "loading")
      /\ LoadsEnd(I, V, V)
      /\ \A p \in Plugins : reg'[p] \in {0, reg[p]}
      /\ Budget => Budget'
  <2> HIDE DEF V
  <2>1. V = Victims({w} \cap alive)
    BY DEF V
  <2>2. PICK next : next = stage
    OBVIOUS
  <2>3. Die({w}, quiet, next)
    BY <1>1, <2>2
  <2> QED
    BY <2>1, <2>2, <2>3, DieFacts
<1>4. I \subseteq States /\ \A k \in I : AwaitsInit(k)
  BY DEF Victims
<1> HIDE DEF I, V
<1>5. /\ UNCHANGED <<idle, busy, pool, pools, closings, turn, calls, unreset, stragglers>>
      /\ alive' \subseteq alive /\ hooks' \in [Workers -> Plugins \cup {None}]
      /\ inbox' \in [Workers -> Seq(Msgs)]
      /\ doing' \in SUBSET [w : alive', m : Msgs, code : Plugins \cup {None}]
  BY <1>1, <1>2, GoneFacts DEF poolVars
<1>6. Typed'
  <2>1. StatesTyped' /\ WaitsTyped' /\ Msgs' = Msgs
    BY <1>3, <1>5, ShapedTyped DEF Typed, WaitsTyped
  <2>2. Numbered' /\ PoolTyped'
    BY <1>3, <1>5 DEF Typed, Numbered, PoolTyped
  <2>3. WorkersTyped'
    BY <1>5, <2>1 DEF WorkersTyped
  <2>4. RestTyped'
    BY <1>3, <1>5 DEF Typed, RestTyped
  <2> QED
    BY <2>1, <2>2, <2>3, <2>4 DEF Typed
<1>7. ASSUME stage' # "exited" PROVE Safe'
  <2>1. stage' = stage
    BY <1>3, <1>7
  <2>2. Around(I)
    <3>1. \A c \in closings : /\ c.by = "load" => c.s \notin I
                              /\ c.by = "dispose" => stage = "disposing"
                              /\ c.by = "all" => stage = "closing"
      BY <1>4 DEF Safe, ClosingsOK, LoadsUnderWay
    <3>2. stage = "stopped" /\ ~stragglers => alive = {}
      BY DEF Safe, Stopping
    <3> QED
      BY <3>1, <3>2, <2>1, <1>5 DEF Around, InPool
  <2> QED
    BY <1>3, <2>1, <2>2, AroundSafe
<1>8. Owned => Owned'
  <2>1. stage' \in {"loading", "up"} => stage \in {"loading", "up"}
    BY <1>3
  <2> QED
    BY <1>3, <1>5, <2>1, OwnedKept
<1> QED
  BY <1>3, <1>6, <1>7, <1>8, LoadsEndSafe DEF Core, Further

LEMMA StopPoolKeeps ==
    ASSUME Typed, Safe, NEW quiet \in BOOLEAN, StopPool(quiet)
    PROVE  Typed' /\ Safe' /\ Further
<1> DEFINE ws == {idle[k] : k \in DOMAIN idle} \cup ({busy[p] : p \in Plugins} \ {0})
           V == Victims(ws \cap alive)
           I == {i \in V : AwaitsInit(i)}
<1>1. /\ Die(ws, quiet, "stopped") /\ UNCHANGED <<pools, closings, turn, calls, unreset, stragglers>>
      /\ pool' = 0 /\ idle' = <<>> /\ busy' = [p \in Plugins |-> 0]
      /\ stage = "closing" /\ \A c \in closings : c.by # "all"
  BY DEF StopPool, PoolStops
<1>2. Gone(ws)
  BY <1>1 DEF Die
<1>3. \A w \in alive' : w \in alive /\ ~InPool(w)
  <2>1. 0 \notin alive
    BY WorkersFit DEF Workers
  <2> QED
    BY <1>2, <2>1 DEF Gone, InPool
<1> HIDE DEF ws
<1>4. /\ Shaped /\ Len(st') = Len(st) /\ spawned' = spawned /\ rpcs' \subseteq rpcs
      /\ reg' \in [Plugins -> {0} \cup States] /\ \A k \in States : st'[k].crashes <= k
      /\ streak' \in [Plugins -> Nat] /\ diedUnloaded' \in SUBSET Plugins
      /\ stage' = "stopped" /\ LoadsEnd(I, V, V) /\ (Budget => Budget')
  <2>1. V = Victims(ws \cap alive)
    BY DEF V
  <2>2. Die(ws, quiet, "stopped") /\ stage = "closing"
    BY <1>1
  <2>3. /\ Shaped /\ Len(st') = Len(st) /\ spawned' = spawned /\ rpcs' \subseteq rpcs
        /\ reg' \in [Plugins -> {0} \cup States] /\ \A k \in States : st'[k].crashes <= k
        /\ streak' \in [Plugins -> Nat] /\ diedUnloaded' \in SUBSET Plugins
        /\ stage' = "stopped" \/ (stage' = "exited" /\ stage = "loading")
        /\ LoadsEnd(I, V, V) /\ (Budget => Budget')
    <3> HIDE DEF V
    <3> QED
      BY <2>1, <2>2, DieFacts
  <2> HIDE DEF I, V
  <2> QED
    BY <2>2, <2>3
<1>5. I \subseteq States /\ \A k \in I : AwaitsInit(k)
  BY DEF Victims
<1> HIDE DEF I, V
<1>6. /\ alive' \subseteq alive /\ hooks' \in [Workers -> Plugins \cup {None}]
      /\ inbox' \in [Workers -> Seq(Msgs)]
      /\ doing' \in SUBSET [w : alive', m : Msgs, code : Plugins \cup {None}]
  BY <1>2, GoneFacts
<1>7. Typed'
  <2>1. StatesTyped' /\ WaitsTyped' /\ Msgs' = Msgs
    BY <1>1, <1>4, ShapedTyped DEF Typed, WaitsTyped
  <2>2. Numbered'
    <3>1. pools = 0 \/ pools = 1
      BY <1>1 DEF Typed, Numbered
    <3> QED
      BY <1>1, <1>4, <1>6, <3>1 DEF Typed, Numbered
  <2>3. PoolTyped'
    BY <1>1, <1>4, WorkersFit DEF PoolTyped
  <2>4. WorkersTyped'
    BY <1>6, <2>1 DEF WorkersTyped
  <2>5. RestTyped'
    BY <1>1, <1>4 DEF Typed, RestTyped
  <2> QED
    BY <2>1, <2>2, <2>3, <2>4, <2>5 DEF Typed
<1>8. ASSUME ~stragglers PROVE alive' = {}
  <2> SUFFICES ASSUME NEW w \in alive' PROVE FALSE
    OBVIOUS
  <2>1. w \in alive /\ ~InPool(w)
    BY <1>3
  <2>2. PICK i \in States : st[i].worker = w /\ ~Pooled(st[i].plugin)
    BY <2>1, <1>1 DEF Safe, Known, InPool
  <2>3. st[i].restarting /\ \A k \in States : st[k].restart = "no"
    BY <1>1, <1>8, <2>1, <2>2 DEF Safe, Stopping
  <2>4. PICK c \in closings : c.s = i
    BY <2>1, <2>2, <2>3 DEF Safe, Known
  <2>5. c.by = "load"
    <3>1. c.by \in {"load", "dispose", "all"}
      BY DEF Typed, WaitsTyped, Closings
    <3> QED
      BY <3>1, <1>1 DEF Safe, ClosingsOK
  <2>6. Loading(i)
    BY <2>4, <2>5 DEF Safe, ClosingsOK, Loading
  <2> QED
    BY <2>3, <2>6, <1>1, ParentFacts DEF Safe, LoadsUnderWay, Registry
<1>9. Around(I)
  <2>1. \A c \in closings : c.by # "all" /\ c.by # "dispose" /\ (c.by = "load" => c.s \notin I)
    BY <1>1, <1>5 DEF Safe, ClosingsOK, LoadsUnderWay
  <2>2. \A p \in Plugins : busy'[p] = 0
    BY <1>1
  <2> QED
    BY <1>1, <1>4, <1>8, <2>1, <2>2 DEF Around
<1>10. Safe'
  BY <1>4, <1>9, AroundSafe
<1>11. Owned'
  BY <1>4 DEF Owned
<1> QED
  BY <1>4, <1>7, <1>10, <1>11 DEF Further

LEMMA RestartRejectedKeeps ==
    ASSUME Typed, Safe, NEW j \in States, RestartRejected(j)
    PROVE  Typed' /\ Safe' /\ Further
<1>1. /\ UNCHANGED <<workerVars, poolVars, rpcs, closings, loaderVars, historyVars>>
      /\ st[j].restart = "backoff" /\ st' = [st EXCEPT ![j] = [st[j] EXCEPT !.restart = "no"]]
      /\ reg' = [reg EXCEPT ![st[j].plugin] = 0]
  BY DEF RestartRejected
<1>2. reg' = reg
  <2>1. reg[st[j].plugin] = 0 /\ reg \in [Plugins -> {0} \cup States]
    BY <1>1 DEF Safe, Lineage, Typed, StatesTyped
  <2> QED
    BY <1>1, <2>1
<1>3. [st[j] EXCEPT !.restart = "no"] \in Records
  BY ElementsTyped DEF Records
<1>4. st' \in Seq(Records) /\ Len(st') = Len(st)
  BY <1>1, <1>3, WorkersFit DEF Typed, StatesTyped
<1>5. States' = States
  BY <1>1 DEF States
<1>6. \A k \in States :
          /\ st'[k].plugin = st[k].plugin /\ st'[k].worker = st[k].worker
          /\ st'[k].parent = st[k].parent /\ st'[k].restarting = st[k].restarting
          /\ st'[k].crashes = st[k].crashes /\ st'[k].load = st[k].load
          /\ st'[k].restart = IF k = j THEN "no" ELSE st[k].restart
  <2> TAKE k \in States
  <2>1. st[k] \in Records
    BY ElementsTyped
  <2>2. st'[k] = IF k = j THEN [st[j] EXCEPT !.restart = "no"] ELSE st[k]
    BY <1>1 DEF States
  <2> QED
    BY <2>1, <2>2 DEF Records
<1>7. Shaped
  BY <1>4, <1>5, <1>6 DEF Shaped
<1>8. UNCHANGED <<alive, spawned, hooks, inbox, doing, pool, pools, idle, busy, stage, turn, calls,
                  streak, diedUnloaded, unreset, stragglers>>
  BY <1>1 DEF workerVars, poolVars, loaderVars, historyVars
<1>9. Typed'
  <2>1. StatesTyped' /\ WaitsTyped' /\ Msgs' = Msgs
    BY <1>1, <1>2, <1>4, <1>6, <1>7, <1>8, ShapedTyped DEF Typed, WaitsTyped, StatesTyped
  <2> QED
    BY <2>1, <1>4, <1>8 DEF Typed, Numbered, PoolTyped, WorkersTyped, RestTyped
<1>10. LoadsEnd({}, {}, {})
  <2>1. \A k \in States : AwaitsInit(k)' <=> AwaitsInit(k)
    BY <1>1 DEF AwaitsInit
  <2> QED
    BY <1>1, <1>2, <1>6, <1>8, <2>1 DEF LoadsEnd
<1>11. Around({})
  <2>1. \A c \in closings : /\ c.by = "dispose" => stage = "disposing"
                            /\ c.by = "all" => stage = "closing"
    BY DEF Safe, ClosingsOK
  <2>2. stage = "stopped" /\ ~stragglers => alive = {}
    BY DEF Safe, Stopping
  <2> QED
    BY <1>1, <1>8, <2>1, <2>2 DEF Around, InPool
<1>12. Owned => Owned'
  BY <1>1, <1>2, <1>7, <1>8, OwnedKept
<1>13. Budget => Budget'
  BY <1>6, <1>7, <1>8, BudgetKept DEF Safe
<1> QED
  BY <1>7, <1>9, <1>10, <1>11, <1>12, <1>13, AroundSafe DEF Further

-----------------------------------------------------------------------------
(* Steps that tell plugins to shut down. *)

\* The registered states S are shut down; a load that does so gives up waiting.
Shutting(S, by) ==
    /\ ShutdownPlugins(S, by) /\ by \in {"load", "dispose", "all"} /\ S \subseteq States
    /\ \A k \in S : reg[st[k].plugin] = k /\ (by = "load" => AwaitsInit(k))
    /\ UNCHANGED <<alive, spawned, poolVars, reg>>
    /\ rpcs' \subseteq rpcs
    /\ \A k \in States : AwaitsInit(k)' <=> AwaitsInit(k) /\ ~(by = "load" /\ k \in S)

LEMMA ClosingFacts ==
    ASSUME Typed, Safe, NEW i \in States, Latest(i), NEW by \in {"load", "dispose", "all"}
    PROVE  /\ Closing(i, by) \in Closings /\ Closing(i, by).pool <= pools
           /\ Closing(i, by).s = i /\ Closing(i, by).by = by
           /\ Closing(i, by).w \in {0, st[i].worker}
           /\ Closing(i, by).pool = 0 => Closing(i, by).w = st[i].worker
           /\ ~Pooled(st[i].plugin) => Closing(i, by).pool = 0
<1> DEFINE w == IF Release(i) THEN busy[st[i].plugin] ELSE st[i].worker
<1>1. st[i].plugin \in Plugins /\ st[i].worker \in Workers
  BY ElementsTyped
<1>2. w \in {0, st[i].worker}
  <2>1. CASE busy[st[i].plugin] = 0
    BY <2>1
  <2>2. CASE busy[st[i].plugin] # 0
    <3>1. PICK k \in States : st[k].plugin = st[i].plugin /\ Latest(k) /\ st[k].worker = busy[st[i].plugin]
      BY <1>1, <2>2 DEF Safe, Known
    <3>2. k = i
      BY <3>1, OneLatest
    <3> QED
      BY <3>1, <3>2
  <2> QED
    BY <2>1, <2>2
<1>3. pool \in Nat /\ pools \in Nat /\ pool <= pools
  BY DEF Typed, Numbered
<1>4. Release(i) => pool # 0 /\ Pooled(st[i].plugin)
  BY DEF Release
<1>5. Closing(i, by) = [s |-> i, w |-> w, pool |-> IF Release(i) THEN pool ELSE 0,
                        acked |-> w = 0, by |-> by]
  BY DEF Closing
<1>6. ~Release(i) => w = st[i].worker
  OBVIOUS
<1> HIDE DEF w
<1>7. w \in Workers \cup {0} /\ (w = 0) \in BOOLEAN /\ (IF Release(i) THEN pool ELSE 0) \in Nat
  BY <1>1, <1>2, <1>3
<1>8. Closing(i, by) \in Closings
  <2>1. CASE w = 0
    <3>1. Closing(i, by) = [s |-> i, w |-> 0, pool |-> IF Release(i) THEN pool ELSE 0,
                            acked |-> TRUE, by |-> by]
      BY <2>1, <1>5
    <3> QED
      BY <3>1, <1>7 DEF Closings
  <2>2. CASE w # 0
    <3>1. Closing(i, by) = [s |-> i, w |-> w, pool |-> IF Release(i) THEN pool ELSE 0,
                            acked |-> FALSE, by |-> by]
      BY <2>2, <1>5
    <3> QED
      BY <2>2, <3>1, <1>7 DEF Closings
  <2> QED
    BY <2>1, <2>2
<1> QED
  BY <1>2, <1>3, <1>4, <1>5, <1>6, <1>8

LEMMA ShuttingFacts ==
    ASSUME Typed, Safe, NEW S, NEW by, Shutting(S, by)
    PROVE  /\ Shaped /\ Len(st') = Len(st) /\ \A k \in S : Latest(k) /\ st[k].restart = "no"
           /\ \A k \in States :
                 /\ st'[k].crashes = st[k].crashes /\ st'[k].restart = st[k].restart
                 /\ st'[k].restarting = (k \in S \/ st[k].restarting)
                 /\ st'[k].load = IF k \in S /\ by = "load" THEN "closing" ELSE st[k].load
           /\ closings' \in SUBSET Closings /\ \A c \in closings' : c.pool <= pools
           /\ inbox' \in [Workers -> Seq(Msgs)]
<1>1. S \subseteq States /\ by \in {"load", "dispose", "all"}
  BY DEF Shutting
<1>2. \A k \in S : Latest(k) /\ st[k].restart = "no"
  <2> TAKE k \in S
  <2>1. k \in States /\ reg[st[k].plugin] = k /\ st[k].plugin \in Plugins /\ k # 0
    BY <1>1, ElementsTyped DEF Shutting
  <2> QED
    BY <2>1 DEF Safe, Registry
<1> DEFINE s(k) == IF k \notin S THEN st[k]
                   ELSE [st[k] EXCEPT !.restarting = TRUE,
                                      !.load = IF by = "load" THEN "closing" ELSE @]
<1>3. st' = [k \in States |-> s(k)] /\ closings' = closings \cup {Closing(i, by) : i \in S}
  BY DEF Shutting, ShutdownPlugins
<1>4. \A k \in States : /\ s(k) \in Records
                        /\ s(k).plugin = st[k].plugin /\ s(k).worker = st[k].worker
                        /\ s(k).parent = st[k].parent /\ s(k).crashes = st[k].crashes
                        /\ s(k).restart = st[k].restart
                        /\ s(k).restarting = (k \in S \/ st[k].restarting)
                        /\ s(k).load = IF k \in S /\ by = "load" THEN "closing" ELSE st[k].load
  <2> TAKE k \in States
  <2>1. st[k] \in Records
    BY ElementsTyped
  <2>2. CASE k \in S
    BY <2>1, <2>2 DEF Records
  <2>3. CASE k \notin S
    BY <2>1, <2>3 DEF Records
  <2> QED
    BY <2>2, <2>3
<1> HIDE DEF s
<1>5. st' \in Seq(Records) /\ Len(st') = Len(st) /\ DOMAIN st' = States
  BY <1>3, <1>4, WorkersFit
<1>6. Shaped
  BY <1>3, <1>4, <1>5 DEF Shaped, States
<1>7. closings' \in SUBSET Closings /\ \A c \in closings' : c.pool <= pools
  BY <1>1, <1>2, <1>3, ClosingFacts DEF Typed, WaitsTyped
<1>8. inbox' \in [Workers -> Seq(Msgs)]
  <2> DEFINE mine(w) == {i \in S : Release(i) /\ busy[st[i].plugin] = w}
             m(w) == Message("reset", CHOOSE i \in mine(w) : TRUE, IF by = "load" THEN 1 ELSE 0)
  <2>1. inbox' = [w \in Workers |-> IF w \in alive /\ mine(w) # {} THEN Append(inbox[w], m(w)) ELSE inbox[w]]
    BY DEF Shutting, ShutdownPlugins
  <2>2. \A w \in Workers : mine(w) # {} => m(w) \in Msgs
    <3> TAKE w \in Workers
    <3>1. mine(w) # {} => (CHOOSE i \in mine(w) : TRUE) \in States
      BY <1>1
    <3> HIDE DEF mine
    <3>2. (IF by = "load" THEN 1 ELSE 0) \in 0..MaxCalls \cup {1}
      BY Constants
    <3> QED
      BY <3>1, <3>2 DEF Message, Msgs
  <2>3. \A w \in Workers : inbox[w] \in Seq(Msgs)
    BY DEF Typed, WorkersTyped
  <2> HIDE DEF m, mine
  <2> QED
    BY <2>1, <2>2, <2>3
<1> QED
  BY <1>2, <1>3, <1>4, <1>5, <1>6, <1>7, <1>8

\* Who shuts plugins down, and when.
Occasion(S, by) ==
    \/ by = "load" /\ UNCHANGED <<stage, turn, stragglers>>
    \/ by = "dispose" /\ stage = "disposing" /\ UNCHANGED stage
    \/ /\ by = "all" /\ stage = "disposing" /\ stage' = "closing"
       /\ \A c \in closings : c.by # "dispose"
       /\ S = {reg[p] : p \in Plugins} \ {0}
       /\ stragglers' = \E i \in States : st[i].restart # "no" \/ Unowned(i)

LEMMA ShuttingSafe ==
    ASSUME Typed, Safe, NEW S, NEW by, Shutting(S, by), Occasion(S, by)
    PROVE  Safe'
<1>1. /\ Shaped /\ \A k \in S : Latest(k) /\ st[k].restart = "no"
      /\ \A k \in States :
            /\ st'[k].crashes = st[k].crashes /\ st'[k].restart = st[k].restart
            /\ st'[k].restarting = (k \in S \/ st[k].restarting)
            /\ st'[k].load = IF k \in S /\ by = "load" THEN "closing" ELSE st[k].load
  BY ShuttingFacts
<1>2. \A k \in States : /\ Latest(k)' <=> Latest(k)
                        /\ st'[k].plugin = st[k].plugin /\ st'[k].worker = st[k].worker
                        /\ st'[k].parent = st[k].parent /\ st[k].plugin \in Plugins
  BY <1>1, ShapedLatest, ElementsTyped DEF Shaped
<1>3. /\ States' = States /\ alive' = alive /\ reg' = reg /\ idle' = idle /\ busy' = busy
      /\ S \subseteq States /\ by \in {"load", "dispose", "all"}
      /\ \A k \in S : by = "load" => AwaitsInit(k) /\ st[k].load = "init"
      /\ \A k \in States : AwaitsInit(k)' <=> AwaitsInit(k) /\ ~(by = "load" /\ k \in S)
      /\ closings' = closings \cup {Closing(i, by) : i \in S}
  BY <1>1 DEF Shutting, Shaped, poolVars, ShutdownPlugins, Safe, LoadsUnderWay
<1>4. stage' = stage \/ (stage = "disposing" /\ stage' = "closing")
  BY DEF Occasion
<1>5. \A k \in States : Loading(k)' <=> Loading(k)
  BY <1>1, <1>3 DEF Loading
<1>6. Lineage'
  <2> SUFFICES ASSUME NEW k \in States
               PROVE  /\ st[k].parent # 0 => st'[st[k].parent].plugin = st[k].plugin
                      /\ Loading(k) => Latest(k)
                      /\ st[k].worker \in alive /\ ~st'[k].restarting => Latest(k) /\ st[k].crashes < k
                      /\ st[k].restart = "backoff" =>
                            Latest(k) /\ st[k].worker \notin alive /\ ~Loading(k) /\ reg[st[k].plugin] = 0
    BY <1>1, <1>2, <1>3, <1>5 DEF Lineage
  <2>1. st[k].parent # 0 => st'[st[k].parent].plugin = st[k].plugin
    BY <1>2, ParentFacts
  <2> QED
    BY <2>1, <1>1 DEF Safe, Lineage
<1>7. LoadsUnderWay'
  <2> SUFFICES ASSUME NEW k \in States
               PROVE  /\ AwaitsInit(k)' <=> st'[k].load = "init"
                      /\ AwaitsInit(k)' => reg[st[k].plugin] = k
                      /\ st'[k].load = "closing" => st'[k].restarting
                      /\ Loading(k) /\ st[k].parent # 0 => st'[st[k].parent].restart = "loading"
                      /\ st[k].restart = "loading" => \E m \in States : st[m].parent = k /\ Loading(m)
    BY <1>1, <1>2, <1>3, <1>5 DEF LoadsUnderWay
  <2>1. AwaitsInit(k)' <=> st'[k].load = "init"
    BY <1>1, <1>3 DEF Safe, LoadsUnderWay
  <2>2. AwaitsInit(k)' => reg[st[k].plugin] = k
    BY <1>3 DEF Safe, LoadsUnderWay
  <2>3. st'[k].load = "closing" => st'[k].restarting
    BY <1>1 DEF Safe, LoadsUnderWay
  <2>4. Loading(k) /\ st[k].parent # 0 => st'[st[k].parent].restart = "loading"
    BY <1>1, ParentFacts DEF Safe, LoadsUnderWay
  <2>5. st[k].restart = "loading" => \E m \in States : st[m].parent = k /\ Loading(m)
    BY DEF Safe, LoadsUnderWay
  <2> QED
    BY <2>1, <2>2, <2>3, <2>4, <2>5
<1>8. Registry'
  <2>1. (\A p \in Plugins : reg[p] # 0 =>
           LET i == reg[p] IN st[i].plugin = p /\ Latest(i) /\ st[i].restart = "no")'
    <3> SUFFICES ASSUME NEW p \in Plugins, reg[p] # 0, NEW i \in States, i = reg[p]
                 PROVE  st'[i].plugin = p /\ Latest(i)' /\ st'[i].restart = "no"
      BY <1>3 DEF Latest, Typed, StatesTyped
    <3> QED
      BY <1>1, <1>2 DEF Safe, Registry
  <2>2. (stage' = "loading" => stage = "loading" /\ turn' = turn) /\ (stage = "loading" => stage' = "loading")
    BY DEF Occasion
  <2>3. \A k \in States : Loading(k)' /\ st'[k].parent = 0 => stage' = "loading"
    BY <2>2, <1>2, <1>5 DEF Safe, Registry
  <2> QED
    BY <2>1, <2>2, <2>3, <1>2, <1>3 DEF Safe, Registry
<1>9. ClosingsOK'
  <2>1. ASSUME NEW c \in closings'
        PROVE  /\ c.s \in States
               /\ Latest(c.s) /\ st'[c.s].restarting /\ st[c.s].restart = "no"
               /\ c.w \in {0, st[c.s].worker} /\ (c.pool = 0 => c.w = st[c.s].worker)
               /\ c.by = "load" => st'[c.s].load = "closing"
               /\ c.by = "dispose" => stage' = "disposing"
               /\ c.by = "all" => stage' = "closing"
    <3>1. CASE c \in closings
      <4>1. /\ Latest(c.s) /\ st[c.s].restarting /\ st[c.s].restart = "no"
            /\ c.w \in {0, st[c.s].worker} /\ (c.pool = 0 => c.w = st[c.s].worker)
            /\ c.by = "load" => st[c.s].load = "closing"
            /\ c.by = "dispose" => stage = "disposing"
            /\ c.by = "all" => stage = "closing"
        BY <3>1 DEF Safe, ClosingsOK
      <4>2. c.s \in States
        BY <3>1 DEF Typed, WaitsTyped, Closings
      <4>3. c.by = "dispose" => stage' = "disposing"
        BY <3>1, <4>1 DEF Occasion
      <4>4. c.by = "all" => stage' = "closing"
        BY <4>1 DEF Occasion
      <4> QED
        BY <1>1, <4>1, <4>2, <4>3, <4>4
    <3>2. CASE c \notin closings
      <4>1. PICK i \in S : c = Closing(i, by)
        BY <3>2, <1>3
      <4>2. i \in States /\ Latest(i) /\ st[i].restart = "no"
        BY <4>1, <1>1, <1>3
      <4>3. /\ c.s = i /\ c.by = by /\ c.w \in {0, st[i].worker}
            /\ c.pool = 0 => c.w = st[i].worker
        BY <4>1, <4>2, <1>3, ClosingFacts
      <4>4. (by = "dispose" => stage' = "disposing") /\ (by = "all" => stage' = "closing")
        BY DEF Occasion
      <4> QED
        BY <1>1, <4>1, <4>2, <4>3, <4>4
    <3> QED
      BY <3>1, <3>2
  <2>2. ASSUME NEW c \in closings', NEW d \in closings', c.by = "load", d.by = "load", d.s = c.s
        PROVE  d = c
    <3>1. ASSUME NEW i \in S PROVE Closing(i, by).s = i /\ Closing(i, by).by = by
      BY <3>1, <1>1, <1>3, ClosingFacts
    <3>2. ASSUME NEW e \in closings, e.by = "load", e.s \in S, by = "load" PROVE FALSE
      BY <3>2, <1>3 DEF Safe, ClosingsOK
    <3>3. \A e \in closings' : e \in closings \/ (e.s \in S /\ e.by = by /\ e = Closing(e.s, by))
      BY <3>1, <1>3
    <3>4. CASE c \in closings /\ d \in closings
      BY <2>2, <3>4 DEF Safe, ClosingsOK
    <3>5. CASE ~(c \in closings /\ d \in closings)
      BY <2>2, <3>2, <3>3, <3>5
    <3> QED
      BY <3>4, <3>5
  <2>3. \A c \in closings' : /\ Latest(c.s)' <=> Latest(c.s)
                             /\ st'[c.s].worker = st[c.s].worker /\ st'[c.s].restart = st[c.s].restart
    BY <2>1, <1>1, <1>2
  <2> QED
    BY <2>1, <2>2, <2>3 DEF ClosingsOK
<1>10. Known'
  <2>1. \A p \in Plugins : busy[p] # 0 =>
          Pooled(p) /\ \E i \in States : st'[i].plugin = p /\ Latest(i)' /\ st'[i].worker = busy[p]
    BY <1>2 DEF Safe, Known
  <2>2. stage' # "stopped" =>
          \A w \in alive :
              \/ \E k \in DOMAIN idle : idle[k] = w
              \/ \E p \in Plugins : busy[p] = w
              \/ \E i \in States : st'[i].worker = w /\ ~Pooled(st'[i].plugin)
    BY <1>2, <1>4 DEF Safe, Known
  <2>3. ASSUME NEW i \in States, ~Pooled(st[i].plugin), st[i].worker \in alive, st'[i].restarting
        PROVE  \E c \in closings' : c.s = i /\ c.w = st[i].worker /\ c.pool = 0
    <3>1. CASE i \in S
      <4>1. Closing(i, by) \in closings'
        BY <3>1, <1>3
      <4>2. /\ Closing(i, by).s = i /\ Closing(i, by).pool = 0 /\ Closing(i, by).w = st[i].worker
        BY <2>3, <3>1, <1>1, <1>3, ClosingFacts
      <4> QED
        BY <4>1, <4>2
    <3>2. CASE i \notin S
      <4>1. st[i].restarting
        BY <2>3, <3>2, <1>1
      <4>2. PICK c \in closings : c.s = i /\ c.w = st[i].worker /\ c.pool = 0
        BY <2>3, <4>1 DEF Safe, Known
      <4> QED
        BY <4>2, <1>3
    <3> QED
      BY <3>1, <3>2
  <2>4. \A i \in States : ~Pooled(st'[i].plugin) /\ st'[i].worker \in alive /\ st'[i].restarting =>
              \E c \in closings' : c.s = i /\ c.w = st'[i].worker /\ c.pool = 0
    BY <2>3, <1>2
  <2> QED
    BY <2>1, <2>2, <2>4, <1>3 DEF Known, Pooled
<1>11. Stopping'
  <2> SUFFICES ASSUME stage' \in {"closing", "stopped"}, ~stragglers'
               PROVE  /\ \A i \in States : st[i].restart = "no"
                                              /\ (st'[i].restarting \/ st[i].worker \notin alive)
                      /\ stage' = "stopped" => alive = {}
    BY <1>1, <1>2, <1>3 DEF Stopping
  <2>1. CASE stage' = stage /\ stragglers' = stragglers
    BY <2>1, <1>1 DEF Safe, Stopping
  <2>2. CASE stage = "disposing" /\ stage' = "closing" /\ by = "all"
    <3>1. \A i \in States : st[i].restart = "no" /\ ~Unowned(i)
      BY <2>2 DEF Occasion
    <3>2. S = {reg[p] : p \in Plugins} \ {0}
      BY <2>2 DEF Occasion
    <3>3. \A i \in States : reg[st[i].plugin] = i => i \in S
      BY <3>2, <1>2, ElementsTyped
    <3> QED
      BY <2>2, <3>1, <3>3, <1>1 DEF Unowned
  <2> QED
    BY <2>1, <2>2 DEF Occasion
<1> QED
  BY <1>6, <1>7, <1>8, <1>9, <1>10, <1>11 DEF Safe

LEMMA ShuttingFurther ==
    ASSUME Typed, Safe, NEW S, NEW by, Shutting(S, by), Occasion(S, by), UNCHANGED <<streak, diedUnloaded>>
    PROVE  Further
<1>1. /\ Shaped
      /\ \A k \in States :
            /\ st'[k].crashes = st[k].crashes /\ st'[k].restart = st[k].restart
            /\ st'[k].load = IF k \in S /\ by = "load" THEN "closing" ELSE st[k].load
  BY ShuttingFacts
<1>2. Owned => Owned'
  <2>1. idle' = idle /\ busy' = busy /\ reg' = reg /\ S \subseteq States
        /\ closings' = closings \cup {Closing(i, by) : i \in S}
    BY DEF Shutting, ShutdownPlugins, poolVars
  <2>2. \A c \in closings' : c.pool # 0 =>
            \/ \E d \in closings : d.s = c.s /\ d.w = c.w /\ d.pool # 0
            \/ c.s \in States /\ Pooled(st[c.s].plugin) /\ busy[st[c.s].plugin] = c.w
    <3> SUFFICES ASSUME NEW i \in S, Closing(i, by).pool # 0
                 PROVE  /\ Closing(i, by).s = i /\ Pooled(st[i].plugin)
                        /\ busy[st[i].plugin] = Closing(i, by).w
      BY <2>1
    <3>1. Release(i)
      BY DEF Closing
    <3> QED
      BY <3>1 DEF Closing, Release
  <2>3. stage' \in {"loading", "up"} => stage \in {"loading", "up"}
    BY DEF Occasion
  <2> QED
    BY <1>1, <2>1, <2>2, <2>3, OwnedKept
<1>3. Budget => Budget'
  <2>1. \A k \in S : by = "load" => Loading(k)
    BY DEF Shutting, Safe, LoadsUnderWay, Loading
  <2> QED
    BY <1>1, <2>1, BudgetKept DEF Safe
<1> QED
  BY <1>2, <1>3 DEF Further

LEMMA InitFailsKeeps ==
    ASSUME Typed, Safe, NEW d \in doing, NEW kept \in BOOLEAN, InitFails(d, kept)
    PROVE  Typed' /\ Safe' /\ Further
<1> DEFINE i == d.m.s
<1>1. /\ UNCHANGED <<alive, spawned, poolVars, turn, calls, historyVars, reg, stage>>
      /\ doing' = doing \ {d} /\ rpcs' = rpcs \ {[s |-> i, call |-> 0]}
      /\ hooks' = IF kept THEN [hooks EXCEPT ![d.w] = st[i].plugin] ELSE hooks
  BY DEF InitFails, Ends
<1>2. d.m \in Msgs /\ d.w \in Workers /\ i \in States
  BY WorkersFit DEF Typed, WorkersTyped, Msgs
<1>3. hooks' \in [Workers -> Plugins \cup {None}]
  BY <1>1, <1>2, ElementsTyped DEF Typed, WorkersTyped
<1>4. doing' \in SUBSET [w : alive', m : Msgs, code : Plugins \cup {None}]
  BY <1>1 DEF Typed, WorkersTyped
<1>5. CASE ~AwaitsInit(i)
  <2>1. UNCHANGED <<st, inbox, closings>> /\ rpcs' = rpcs
    BY <1>1, <1>5 DEF InitFails, AwaitsInit
  <2>2. /\ UNCHANGED <<spawned, poolVars, st, reg, historyVars>> /\ alive' \subseteq alive /\ Stages
        /\ SameClosings /\ \A k \in States : AwaitsInit(k)' <=> AwaitsInit(k)
    BY <1>1, <2>1, ClosingsStay DEF Stages, AwaitsInit
  <2>3. Typed'
    BY <1>1, <1>3, <1>4, <2>1, <2>2, QuietTyped DEF Typed, WorkersTyped, WaitsTyped, RestTyped
  <2>4. Safe' /\ Further
    BY <2>2, QuietSafe, QuietFurther
  <2> QED
    BY <2>3, <2>4
<1>6. CASE AwaitsInit(i)
  <2>1. ShutdownPlugins({i}, "load")
    BY <1>6 DEF InitFails
  <2>2. reg[st[i].plugin] = i
    BY <1>2, <1>6 DEF Safe, LoadsUnderWay
  <2>3. \A k \in States : AwaitsInit(k)' <=> AwaitsInit(k) /\ k # i
    BY <1>1 DEF AwaitsInit
  <2> HIDE DEF i
  <2>4. Shutting({i}, "load") /\ Occasion({i}, "load")
    BY <1>1, <1>2, <1>6, <2>1, <2>2, <2>3 DEF Shutting, Occasion, historyVars
  <2>5. /\ Shaped /\ Len(st') = Len(st)
        /\ \A k \in States : st'[k].crashes = st[k].crashes
        /\ closings' \in SUBSET Closings /\ \A c \in closings' : c.pool <= pools
        /\ inbox' \in [Workers -> Seq(Msgs)]
    BY <2>4, ShuttingFacts
  <2>6. Typed'
    <3>1. StatesTyped' /\ WaitsTyped' /\ Msgs' = Msgs
      <4>1. reg' \in [Plugins -> {0} \cup States] /\ \A k \in States : st'[k].crashes <= k
        BY <1>1, <2>5, ElementsTyped DEF Typed, StatesTyped
      <4> QED
        BY <1>1, <2>5, <4>1, ShapedTyped DEF poolVars
    <3>2. Numbered' /\ PoolTyped'
      BY <1>1, <2>5 DEF Typed, Numbered, PoolTyped, poolVars
    <3>3. WorkersTyped'
      BY <1>3, <1>4, <2>5, <3>1 DEF WorkersTyped
    <3>4. RestTyped'
      BY <1>1 DEF Typed, RestTyped, historyVars
    <3> QED
      BY <3>1, <3>2, <3>3, <3>4 DEF Typed
  <2>7. UNCHANGED <<streak, diedUnloaded>>
    BY <1>1 DEF historyVars
  <2> QED
    BY <2>4, <2>6, <2>7, ShuttingSafe, ShuttingFurther
<1> QED
  BY <1>5, <1>6

\* The two steps of disposeAll that shut plugins down.
LEMMA DisposeKeeps ==
    ASSUME Typed, Safe, DisposeNext \/ ShutdownAll
    PROVE  Typed' /\ Safe' /\ Further
<1>1. PICK S, by :
          /\ ShutdownPlugins(S, by) /\ by \in {"dispose", "all"} /\ S \subseteq {reg[p] : p \in Plugins} \ {0}
          /\ Occasion(S, by)
  <2>1. CASE DisposeNext
    <3> DEFINE p == LoadOrder[turn + 1]
               S == {reg[p]} \ {0}
    <3>1. turn + 1 \in DOMAIN LoadOrder /\ p \in Plugins
      BY <2>1, Constants DEF DisposeNext, Typed, RestTyped, Plugins
    <3>2. ShutdownPlugins(S, "dispose") /\ stage = "disposing" /\ stage' = stage
      BY <2>1 DEF DisposeNext
    <3>3. S \subseteq {reg[q] : q \in Plugins} \ {0}
      BY <3>1
    <3> HIDE DEF S
    <3> QED
      BY <3>2, <3>3 DEF Occasion
  <2>2. CASE ShutdownAll
    BY <2>2 DEF ShutdownAll, Occasion
  <2> QED
    BY <2>1, <2>2
<1>2. UNCHANGED <<alive, spawned, hooks, doing, poolVars, reg, rpcs, calls, streak, diedUnloaded, unreset>>
  BY DEF DisposeNext, ShutdownAll, historyVars
<1>3. \A k \in S : k \in States /\ reg[st[k].plugin] = k
  BY <1>1 DEF Typed, StatesTyped, Safe, Registry
<1>4. Shutting(S, by)
  BY <1>1, <1>2, <1>3 DEF Shutting, AwaitsInit
<1>5. /\ Shaped /\ Len(st') = Len(st)
      /\ \A k \in States : st'[k].crashes = st[k].crashes
      /\ closings' \in SUBSET Closings /\ \A c \in closings' : c.pool <= pools
      /\ inbox' \in [Workers -> Seq(Msgs)]
  BY <1>4, ShuttingFacts
<1>6. stage = "disposing" /\ stage' \in {"disposing", "closing"}
  BY DEF DisposeNext, ShutdownAll
<1>7. Typed'
  <2>1. StatesTyped' /\ WaitsTyped' /\ Msgs' = Msgs
    <3>1. reg' \in [Plugins -> {0} \cup States] /\ \A k \in States : st'[k].crashes <= k
      BY <1>2, <1>5, ElementsTyped DEF Typed, StatesTyped
    <3> QED
      BY <1>2, <1>5, <3>1, ShapedTyped DEF poolVars
  <2>2. Numbered' /\ PoolTyped'
    BY <1>2, <1>5, <1>6 DEF Typed, Numbered, PoolTyped, poolVars
  <2>3. WorkersTyped'
    BY <1>2, <1>5, <2>1 DEF Typed, WorkersTyped
  <2>4. RestTyped'
    <3>1. turn' \in 0..Len(LoadOrder)
      <4>1. turn \in 0..Len(LoadOrder) /\ Len(LoadOrder) \in Nat
        BY Constants DEF Typed, RestTyped
      <4>2. turn' = turn \/ (turn < Len(LoadOrder) /\ turn' = turn + 1)
        BY DEF DisposeNext, ShutdownAll
      <4> QED
        BY <4>1, <4>2
    <3>2. stragglers' \in BOOLEAN
      BY DEF DisposeNext, ShutdownAll, Typed, RestTyped, historyVars
    <3> QED
      BY <1>2, <1>6, <3>1, <3>2 DEF Typed, RestTyped
  <2> QED
    BY <2>1, <2>2, <2>3, <2>4 DEF Typed
<1> QED
  BY <1>1, <1>2, <1>4, <1>7, ShuttingSafe, ShuttingFurther

-----------------------------------------------------------------------------
(* Steps that load a plugin. *)

Apart(ws) == \A k, n \in DOMAIN ws : k # n => ws[k] # ws[n]

\* A worker that nobody else has is taken off the list, or is new.
Taken(p) ==
    /\ busy'[p] > spawned \/ \E n \in DOMAIN idle : busy'[p] = idle[n]
    /\ \A k \in DOMAIN idle' :
          /\ idle'[k] > spawned \/ \E n \in DOMAIN idle : idle'[k] = idle[n]
          /\ idle'[k] # busy'[p]
    /\ Apart(idle')

LEMMA AcquireFacts ==
    ASSUME Typed, NEW p \in Plugins, Acquire(p)
    PROVE  /\ spawned' \in Nat /\ spawned <= spawned'
           /\ \/ pool = 0 /\ pool' = pools + 1 /\ pools' = pools + 1 /\ spawned' <= spawned + PoolSize + 1
              \/ pool # 0 /\ pool' = pool /\ pools' = pools /\ spawned' <= spawned + 1
           /\ idle' \in Seq(1..spawned') /\ busy' \in [Plugins -> 0..spawned']
           /\ busy'[p] \in 1..spawned' /\ \A q \in Plugins \ {p} : busy'[q] = busy[q]
           /\ \A w \in (spawned + 1)..spawned' : InPool(w)'
           /\ pool # 0 \/ pools = 0 => \A w : (\E k \in DOMAIN idle : idle[k] = w) => InPool(w)'
           /\ Apart(idle) => Taken(p)
<1> DEFINE ready == IF pool = 0 THEN [k \in 1..PoolSize |-> spawned + k] ELSE idle
           last == IF pool = 0 THEN spawned + PoolSize ELSE spawned
           n == Len(ready)
<1>1. /\ pools' = IF pool = 0 THEN pools + 1 ELSE pools
      /\ pool' = IF pool = 0 THEN pools' ELSE pool
      /\ idle' = IF ready = <<>> THEN <<>> ELSE SubSeq(ready, 1, n - 1)
      /\ spawned' = IF ready = <<>> THEN last + 1 ELSE last
      /\ busy' = [busy EXCEPT ![p] = IF ready = <<>> THEN spawned' ELSE ready[n]]
  <2>1. last \in Nat
    BY WorkersFit, Constants
  <2>2. LET more == IF ready = <<>> THEN 1 ELSE 0
        IN  /\ pools' = IF pool = 0 THEN pools + 1 ELSE pools
            /\ pool' = IF pool = 0 THEN pools' ELSE pool
            /\ idle' = IF more = 1 THEN <<>> ELSE SubSeq(ready, 1, n - 1)
            /\ spawned' = last + more
            /\ busy' = [busy EXCEPT ![p] = IF more = 1 THEN spawned' ELSE ready[n]]
    BY DEF Acquire
  <2> HIDE DEF ready, last, n
  <2>3. CASE ready = <<>>
    BY <2>1, <2>2, <2>3
  <2>4. CASE ready # <<>>
    <3>1. spawned' = last + 0
      BY <2>2, <2>4
    <3>2. spawned' = last
      BY <2>1, <3>1
    <3>3. (IF ready = <<>> THEN 1 ELSE 0) # 1
      BY <2>4
    <3>4. idle' = SubSeq(ready, 1, n - 1) /\ busy' = [busy EXCEPT ![p] = ready[n]]
      BY <2>2, <3>3, Zenon
    <3>5. pool' = (IF pool = 0 THEN pools' ELSE pool) /\ pools' = IF pool = 0 THEN pools + 1 ELSE pools
      BY <2>2
    <3> QED
      BY <2>4, <3>2, <3>4, <3>5
  <2> QED
    BY <2>3, <2>4
<1>2. /\ spawned \in Nat /\ PoolSize \in Nat /\ last \in Nat /\ spawned <= last
      /\ idle \in Seq(1..spawned) /\ busy \in [Plugins -> 0..spawned]
  BY WorkersFit, Constants DEF Typed, PoolTyped
<1>3. /\ ready \in Seq(1..last) /\ n \in Nat /\ DOMAIN ready = 1..n
      /\ \A k \in 1..n : ready[k] \in 1..last
      /\ \A w \in (spawned + 1)..last : \E k \in 1..n : ready[k] = w
      /\ pool # 0 \/ pools = 0 => \A k \in DOMAIN idle : \E m \in 1..n : ready[m] = idle[k]
      /\ \A k \in 1..n : ready[k] > spawned \/ \E m \in DOMAIN idle : ready[k] = idle[m]
      /\ Apart(idle) => \A k, m \in 1..n : k # m => ready[k] # ready[m]
  <2>1. CASE pool = 0
    <3>1. ready = [k \in 1..PoolSize |-> spawned + k] /\ last = spawned + PoolSize
      BY <2>1
    <3>2. ready \in Seq(1..last) /\ n = PoolSize /\ DOMAIN ready = 1..PoolSize
      BY <1>2, <3>1
    <3>3. \A w \in (spawned + 1)..last : w - spawned \in 1..PoolSize /\ ready[w - spawned] = w
      BY <1>2, <3>1
    <3>4. \A k \in 1..PoolSize : ready[k] \in 1..last
      BY <1>2, <3>1
    <3>5. pools = 0 => DOMAIN idle = {}
      BY DEF Typed, Numbered
    <3>6. /\ \A k \in 1..PoolSize : ready[k] > spawned
          /\ \A k, m \in 1..PoolSize : k # m => ready[k] # ready[m]
      BY <1>2, <3>1
    <3> HIDE DEF ready, last
    <3> QED
      BY <1>2, <2>1, <3>2, <3>3, <3>4, <3>5, <3>6
  <2>2. CASE pool # 0
    <3>1. ready = idle /\ last = spawned
      BY <2>2
    <3> HIDE DEF ready, last
    <3> QED
      BY <1>2, <3>1 DEF Apart
  <2> QED
    BY <2>1, <2>2
<1>4. last = IF pool = 0 THEN spawned + PoolSize ELSE spawned
  OBVIOUS
<1> HIDE DEF ready, last
<1>5. CASE ready = <<>>
  <2>1. n = 0
    BY <1>5, EmptySeq
  <2>2. last = spawned
    <3> SUFFICES ASSUME last # spawned PROVE FALSE
      OBVIOUS
    <3>1. spawned + 1 \in (spawned + 1)..last
      BY <1>2
    <3> QED
      BY <1>3, <2>1, <3>1
  <2>3. idle' = <<>> /\ spawned' = spawned + 1 /\ busy' = [busy EXCEPT ![p] = spawned + 1]
    BY <1>1, <1>5, <2>2
  <2>4. busy' \in [Plugins -> 0..spawned'] /\ busy'[p] = spawned + 1 /\ \A q \in Plugins \ {p} : busy'[q] = busy[q]
    BY <1>2, <2>3
  <2>5. idle' \in Seq(1..spawned')
    BY <2>3
  <2>6. \A w \in (spawned + 1)..spawned' : InPool(w)'
    BY <1>2, <2>3, <2>4 DEF InPool
  <2>7. pool # 0 \/ pools = 0 => \A w : (\E k \in DOMAIN idle : idle[k] = w) => InPool(w)'
    BY <1>3, <2>1
  <2>8. Taken(p)
    BY <1>2, <2>3, <2>4 DEF Taken, Apart
  <2> HIDE DEF n
  <2> QED
    BY <1>1, <1>2, <2>3, <2>4, <2>5, <2>6, <2>7, <2>8
<1>6. CASE ready # <<>>
  <2>1. n >= 1
    BY <1>3, <1>6, EmptySeq
  <2>2. idle' = SubSeq(ready, 1, n - 1) /\ spawned' = last /\ busy' = [busy EXCEPT ![p] = ready[n]]
    BY <1>1, <1>6
  <2>3. idle' \in Seq(1..last) /\ DOMAIN idle' = 1..(n - 1) /\ \A k \in 1..(n - 1) : idle'[k] = ready[k]
    BY <1>3, <2>1, <2>2
  <2>4. busy' \in [Plugins -> 0..last] /\ busy'[p] = ready[n] /\ \A q \in Plugins \ {p} : busy'[q] = busy[q]
    BY <1>2, <1>3, <2>1, <2>2
  <2>5. \A w : (\E k \in 1..n : ready[k] = w) => InPool(w)'
    <3> SUFFICES ASSUME NEW w, NEW k \in 1..n, ready[k] = w PROVE InPool(w)'
      OBVIOUS
    <3>1. CASE k = n
      BY <2>4, <3>1 DEF InPool
    <3>2. CASE k # n
      <4>1. k \in 1..(n - 1)
        <5>1. n \in Nat /\ k \in 1..n
          BY <1>3
        <5> HIDE DEF n
        <5> QED
          BY <5>1, <3>2
      <4>2. k \in DOMAIN idle' /\ idle'[k] = w
        BY <2>3, <4>1
      <4> QED
        BY <4>2 DEF InPool
    <3> QED
      BY <3>1, <3>2
  <2>6. \A w \in (spawned + 1)..spawned' : InPool(w)'
    BY <1>3, <2>2, <2>5
  <2>7. pool # 0 \/ pools = 0 => \A w : (\E k \in DOMAIN idle : idle[k] = w) => InPool(w)'
    BY <1>3, <2>5
  <2> HIDE DEF n
  <2>8. busy'[p] \in 1..spawned'
    BY <1>3, <2>1, <2>2, <2>4
  <2>9. ASSUME Apart(idle) PROVE Taken(p)
    <3>1. \A k, m \in 1..n : k # m => ready[k] # ready[m]
      BY <1>3, <2>9
    <3>2. n \in 1..n /\ \A k \in 1..(n - 1) : k \in 1..n /\ k # n
      BY <1>3, <2>1
    <3>3. Apart(idle')
      BY <2>3, <3>1, <3>2 DEF Apart
    <3> QED
      BY <1>3, <2>3, <2>4, <3>1, <3>2, <3>3 DEF Taken
  <2> QED
    BY <1>1, <1>2, <1>4, <2>2, <2>3, <2>4, <2>6, <2>7, <2>8, <2>9
<1> QED
  BY <1>5, <1>6

\* What a load makes.
Made(p, parent) ==
    LET i == Len(st) + 1
    IN  /\ i \in 1..MaxLoads /\ i \notin States /\ States' = States \cup {i} /\ Len(st') = i
        /\ st' \in Seq(Records)
        /\ st'[i].plugin = p /\ st'[i].parent = parent /\ st'[i].load = "init"
        /\ st'[i].crashes = 0 /\ st'[i].restarting = FALSE /\ st'[i].restart = "no"
        /\ st'[i].worker \in 1..spawned' /\ (Pooled(p) => st'[i].worker = busy'[p])
        /\ \A k \in States :
              /\ k < i
              /\ st'[k].plugin = st[k].plugin /\ st'[k].parent = st[k].parent
              /\ st'[k].load = st[k].load /\ st'[k].crashes = st[k].crashes
              /\ st'[k].restarting = st[k].restarting /\ st'[k].worker = st[k].worker
              /\ st'[k].restart = IF k = parent THEN "loading" ELSE st[k].restart
        /\ reg' = [reg EXCEPT ![p] = i] /\ rpcs' = rpcs \cup {[s |-> i, call |-> 0]}
        /\ Post({st'[i].worker}, Message("init", i, 0))
        /\ UNCHANGED <<hooks, doing, closings, calls, historyVars>>
        /\ spawned' \in Nat /\ spawned <= spawned'
        /\ alive' = alive \cup ((spawned + 1)..spawned')
        /\ idle' \in Seq(1..spawned') /\ busy' \in [Plugins -> 0..spawned']
        /\ \A q \in Plugins \ {p} : busy'[q] = busy[q]
        /\ ~Pooled(p) => busy' = busy /\ idle' = idle /\ st'[i].worker > spawned
        /\ Pooled(p) /\ Apart(idle) => Taken(p)
        /\ \/ pool = 0 /\ pool' = pools + 1 /\ pools' = pools + 1 /\ spawned' <= spawned + PoolSize + 1
           \/ pool' = pool /\ pools' = pools /\ spawned' <= spawned + 1
        /\ pools' = 0 => idle' = idle
        /\ \A w \in (spawned + 1)..spawned' : InPool(w)' \/ (~Pooled(p) /\ w = st'[i].worker)
        /\ pool # 0 \/ pools = 0 =>
              \A w : (\E k \in DOMAIN idle : idle[k] = w) => InPool(w)'

LEMMA LoadMakes ==
    ASSUME Typed, NEW p \in Plugins, NEW parent \in {0} \cup States, LoadInSandbox(p, parent)
    PROVE  Made(p, parent)
<1> DEFINE i == Len(st) + 1
           w == IF Pooled(p) THEN busy'[p] ELSE spawned'
           s(k) == IF k = i THEN NewState(p, w, parent)
                   ELSE IF k = parent THEN [st[k] EXCEPT !.restart = "loading"]
                   ELSE st[k]
<1>1. /\ Len(st) < MaxLoads /\ alive' = alive \cup ((spawned + 1)..spawned')
      /\ st' = [k \in 1..i |-> s(k)]
      /\ reg' = [reg EXCEPT ![p] = i] /\ rpcs' = rpcs \cup {[s |-> i, call |-> 0]}
      /\ Post({w}, Message("init", i, 0))
      /\ UNCHANGED <<hooks, doing, closings, calls, historyVars>>
  BY DEF LoadInSandbox
<1>2. /\ i \in 1..MaxLoads /\ i \notin States /\ 1..i = States \cup {i} /\ i \in Nat /\ parent \in 0..MaxLoads
      /\ parent # i /\ \A k \in States : k < i
  BY <1>1, WorkersFit, Constants
<1>3. /\ spawned' \in Nat /\ spawned <= spawned'
      /\ idle' \in Seq(1..spawned') /\ busy' \in [Plugins -> 0..spawned']
      /\ w \in 1..spawned' /\ (Pooled(p) => w = busy'[p])
      /\ \A q \in Plugins \ {p} : busy'[q] = busy[q]
      /\ ~Pooled(p) => busy' = busy /\ idle' = idle /\ w > spawned
      /\ Pooled(p) /\ Apart(idle) => Taken(p)
      /\ \/ pool = 0 /\ pool' = pools + 1 /\ pools' = pools + 1 /\ spawned' <= spawned + PoolSize + 1
         \/ pool' = pool /\ pools' = pools /\ spawned' <= spawned + 1
      /\ pools' = 0 => idle' = idle
      /\ \A v \in (spawned + 1)..spawned' : InPool(v)' \/ (~Pooled(p) /\ v = w)
      /\ pool # 0 \/ pools = 0 =>
            \A v : (\E k \in DOMAIN idle : idle[k] = v) => InPool(v)'
  <2>1. CASE Pooled(p)
    <3>1. Acquire(p) /\ w = busy'[p]
      BY <2>1 DEF LoadInSandbox
    <3>2. pool # 0 => pools # 0
      BY DEF Typed, Numbered
    <3>3. pool' = pool /\ pools' = pools /\ pools' = 0 => pool = 0
      BY <3>2
    <3>4. pools \in Nat
      BY DEF Typed, Numbered
    <3> HIDE DEF w
    <3> QED
      BY <2>1, <3>1, <3>2, <3>4, AcquireFacts
  <2>2. CASE ~Pooled(p)
    <3>1. w = spawned' /\ spawned' = spawned + 1 /\ UNCHANGED <<pool, pools, idle, busy>>
      BY <2>2 DEF LoadInSandbox, poolVars
    <3>2. /\ spawned \in Nat /\ idle \in Seq(1..spawned) /\ busy \in [Plugins -> 0..spawned]
      BY WorkersFit DEF Typed, PoolTyped
    <3> HIDE DEF w
    <3>3. idle' \in Seq(1..spawned') /\ busy' \in [Plugins -> 0..spawned']
      BY <3>1, <3>2
    <3>4. spawned' \in Nat /\ spawned <= spawned' /\ w \in 1..spawned' /\ spawned' <= spawned + 1 /\ w > spawned
          /\ \A v \in (spawned + 1)..spawned' : v = w
      BY <3>1, <3>2
    <3> QED
      BY <2>2, <3>1, <3>3, <3>4 DEF InPool
  <2> QED
    BY <2>1, <2>2
<1>4. spawned' <= MaxLoads + 2 * PoolSize
  <2>1. /\ Len(st) \in Nat /\ Len(st) + 1 <= MaxLoads /\ spawned \in Nat /\ spawned' \in Nat
        /\ PoolSize \in Nat /\ MaxLoads \in Nat
    BY <1>1, <1>3, WorkersFit, Constants
  <2>2. \/ pools = 0 /\ pool = 0 /\ spawned <= Len(st)
        \/ pools = 1 /\ spawned <= Len(st) + PoolSize
        \/ pools = 2 /\ pool = 2 /\ spawned <= Len(st) + 2 * PoolSize
        \/ pools = 2 /\ pool = 0 /\ spawned <= Len(st) + 2 * PoolSize
    BY DEF Typed, Numbered
  <2>3. pool = 0 /\ pools # 0 => pools = 1
    BY DEF Typed, Numbered
  <2>4. spawned' <= spawned + PoolSize + 1 \/ spawned' <= spawned + 1
    BY <1>3
  <2>5. pools = 2 => spawned' <= spawned + 1
    BY <1>3, <2>2, <2>3
  <2> HIDE DEF w
  <2> QED
    BY <2>1, <2>2, <2>4, <2>5
<1>5. w \in Workers
  BY <1>3, <1>4, Constants DEF Workers
<1>6. \A k \in 1..i : s(k) \in Records
  <2> TAKE k \in 1..i
  <2>1. CASE k = i
    <3> HIDE DEF w
    <3>1. NewState(p, w, parent) \in Records
      BY <1>2, <1>5 DEF NewState, Records
    <3> QED
      BY <2>1, <3>1
  <2>2. CASE k # i
    <3>1. k \in States
      BY <1>2, <2>2
    <3>2. st[k] \in Records
      BY <3>1, ElementsTyped
    <3>3. [st[k] EXCEPT !.restart = "loading"] \in Records
      BY <3>2 DEF Records
    <3> QED
      BY <2>2, <3>2, <3>3
  <2> QED
    BY <2>1, <2>2
<1>7. \A k \in States :
          /\ s(k).plugin = st[k].plugin /\ s(k).parent = st[k].parent
          /\ s(k).load = st[k].load /\ s(k).crashes = st[k].crashes
          /\ s(k).restarting = st[k].restarting /\ s(k).worker = st[k].worker
          /\ s(k).restart = IF k = parent THEN "loading" ELSE st[k].restart
  <2> TAKE k \in States
  <2>1. st[k] \in Records /\ k # i
    BY <1>2, ElementsTyped
  <2>2. s(k) = IF k = parent THEN [st[k] EXCEPT !.restart = "loading"] ELSE st[k]
    BY <2>1
  <2> HIDE DEF s, i
  <2> QED
    BY <2>1, <2>2 DEF Records
<1>8. s(i) = NewState(p, w, parent)
  OBVIOUS
<1>9. /\ s(i).plugin = p /\ s(i).parent = parent /\ s(i).load = "init" /\ s(i).crashes = 0
      /\ s(i).restarting = FALSE /\ s(i).restart = "no" /\ s(i).worker = w
  <2> HIDE DEF s, w, i
  <2> QED
    BY <1>8 DEF NewState
<1> HIDE DEF s
<1>10. st' \in Seq(Records) /\ Len(st') = i /\ DOMAIN st' = 1..i /\ \A k \in 1..i : st'[k] = s(k)
  <2> HIDE DEF i
  <2> QED
    BY <1>1, <1>2, <1>6
<1>11. States' = States \cup {i}
  BY <1>2, <1>10 DEF States
<1> HIDE DEF w
<1>12. st'[i].worker = w /\ i \in 1..i
  BY <1>2, <1>9, <1>10
<1>13. \A k \in States : st'[k] = s(k)
  BY <1>2, <1>10
<1>14. st'[i] = s(i)
  BY <1>10, <1>12
<1>15. Post({st'[i].worker}, Message("init", i, 0))
  BY <1>1, <1>12
<1> QED
  BY <1>1, <1>2, <1>3, <1>7, <1>9, <1>10, <1>11, <1>12, <1>13, <1>14, <1>15 DEF Made

LEMMA LoadTyped ==
    ASSUME Typed, NEW p \in Plugins, NEW parent \in {0} \cup States, Made(p, parent), stage' = stage,
           turn' \in 0..Len(LoadOrder)
    PROVE  Typed'
<1> DEFINE i == Len(st) + 1
<1>1. /\ i \in 1..MaxLoads /\ States' = States \cup {i} /\ Len(st') = i
      /\ st' \in Seq(Records)
      /\ st'[i].parent = parent /\ st'[i].crashes = 0 /\ st'[i].worker \in 1..spawned'
      /\ \A k \in States : /\ st'[k].parent = st[k].parent /\ st'[k].crashes = st[k].crashes
                           /\ st'[k].worker = st[k].worker
      /\ reg' = [reg EXCEPT ![p] = i] /\ rpcs' = rpcs \cup {[s |-> i, call |-> 0]}
      /\ Post({st'[i].worker}, Message("init", i, 0))
      /\ UNCHANGED <<hooks, doing, closings, calls, historyVars>>
      /\ spawned' \in Nat /\ spawned <= spawned'
      /\ alive' = alive \cup ((spawned + 1)..spawned')
      /\ idle' \in Seq(1..spawned') /\ busy' \in [Plugins -> 0..spawned']
      /\ \/ pool = 0 /\ pool' = pools + 1 /\ pools' = pools + 1 /\ spawned' <= spawned + PoolSize + 1
         \/ pool' = pool /\ pools' = pools /\ spawned' <= spawned + 1
      /\ pools' = 0 => idle' = idle
  BY DEF Made
<1>2. Msgs \subseteq Msgs' /\ Closings \subseteq Closings'
  BY <1>1 DEF Msgs, Closings
<1>3. Numbered'
  <2>1. /\ Len(st) \in Nat /\ spawned \in Nat /\ PoolSize \in Nat /\ Len(st') = Len(st) + 1
        /\ alive \subseteq 1..spawned
    BY <1>1, WorkersFit, Constants DEF Typed, Numbered
  <2>2. alive' \in SUBSET (1..spawned')
    BY <1>1, <2>1
  <2>3. /\ \/ pools = 0 /\ pool = 0 /\ spawned <= Len(st)
           \/ pools = 1 /\ pool \in {0, 1} /\ spawned <= Len(st) + PoolSize
           \/ pools = 2 /\ pool \in {0, 2} /\ spawned <= Len(st) + 2 * PoolSize
        /\ pool = 0 /\ pools # 0 => stage = "stopped" /\ pools = 1
        /\ stage # "stopped" => pools # 2
        /\ pools = 0 => idle = <<>>
    BY DEF Typed, Numbered
  <2>4. \/ pools' = 0 /\ pool' = 0 /\ spawned' <= Len(st')
        \/ pools' = 1 /\ pool' \in {0, 1} /\ spawned' <= Len(st') + PoolSize
        \/ pools' = 2 /\ pool' \in {0, 2} /\ spawned' <= Len(st') + 2 * PoolSize
    BY <1>1, <2>1, <2>3
  <2>5. /\ pool' = 0 /\ pools' # 0 => stage = "stopped" /\ pools' = 1
        /\ stage # "stopped" => pools' # 2
        /\ pools' = 0 => idle' = <<>>
    BY <1>1, <2>3
  <2> QED
    BY <1>1, <2>2, <2>4, <2>5 DEF Numbered
<1>4. PoolTyped'
  BY <1>1 DEF PoolTyped
<1>5. StatesTyped'
  <2>1. /\ \A k \in States : /\ st[k].worker <= spawned /\ st[k].parent < k /\ st[k].crashes <= k
                             /\ st[k].worker \in Nat
        /\ reg \in [Plugins -> {0} \cup States] /\ i \in Nat /\ MaxLoads \in Nat
    BY ElementsTyped, WorkersFit, Constants DEF Typed, StatesTyped, Workers
  <2>2. Len(st') <= MaxLoads
    BY <1>1, <2>1
  <2>3. parent < i
    BY <2>1, WorkersFit
  <2>4. ASSUME NEW k \in States' PROVE st'[k].worker <= spawned' /\ st'[k].parent < k /\ st'[k].crashes <= k
    <3>1. CASE k = i
      <4>1. st'[k].worker <= spawned' /\ st'[k].parent = parent /\ st'[k].crashes = 0
        BY <1>1, <3>1
      <4> HIDE DEF i
      <4> QED
        BY <2>1, <2>3, <3>1, <4>1
    <3>2. CASE k # i
      <4>1. k \in States
        BY <1>1, <2>4, <3>2
      <4>2. st'[k].parent = st[k].parent /\ st'[k].crashes = st[k].crashes /\ st'[k].worker = st[k].worker
        BY <1>1, <4>1
      <4>3. st[k].worker <= spawned /\ st[k].parent < k /\ st[k].crashes <= k /\ st[k].worker \in Nat
        BY <2>1, <4>1
      <4>4. spawned <= spawned' /\ spawned \in Nat /\ spawned' \in Nat
        BY <1>1, WorkersFit
      <4> QED
        BY <4>2, <4>3, <4>4
    <3> QED
      BY <3>1, <3>2
  <2>5. reg' \in [Plugins -> {0} \cup States']
    BY <1>1, <2>1
  <2> QED
    BY <1>1, <2>2, <2>4, <2>5 DEF StatesTyped
<1>6. WaitsTyped'
  <2>1. rpcs' \in SUBSET [s : States', call : 0..MaxCalls]
    BY <1>1, Constants DEF Typed, WaitsTyped
  <2>2. \A c \in closings : c.pool \in Nat /\ c.pool <= pools
    BY DEF Typed, WaitsTyped, Closings
  <2>3. pools \in Nat /\ pools' \in Nat /\ pools <= pools'
    BY <1>1 DEF Typed, Numbered
  <2>4. closings' \in SUBSET Closings' /\ \A c \in closings' : c.pool <= pools'
    BY <1>1, <1>2, <2>2, <2>3 DEF Typed, WaitsTyped
  <2> QED
    BY <2>1, <2>4 DEF WaitsTyped
<1>7. WorkersTyped'
  <2>1. Message("init", i, 0) \in Msgs'
    BY <1>1, Constants DEF Message, Msgs
  <2>2. inbox' \in [Workers -> Seq(Msgs')]
    BY <1>1, <1>2, <2>1, PostFacts
  <2>3. doing' \in SUBSET [w : alive', m : Msgs', code : Plugins \cup {None}]
    <3>1. alive \subseteq alive' /\ doing' = doing
      BY <1>1
    <3> QED
      BY <1>2, <3>1 DEF Typed, WorkersTyped
  <2> QED
    BY <1>1, <2>2, <2>3 DEF Typed, WorkersTyped
<1>8. RestTyped'
  BY <1>1 DEF Typed, RestTyped, historyVars
<1> QED
  BY <1>3, <1>4, <1>5, <1>6, <1>7, <1>8 DEF Typed

\* Whose turn it is: the next plugin of the startup, or a crash handler's after its backoff.
Cause(p, parent) ==
    IF parent = 0
    THEN /\ stage = "loading" /\ turn + 1 \in DOMAIN LoadOrder
         /\ turn' = turn + 1 /\ LoadOrder[turn + 1] = p
    ELSE /\ parent \in States /\ st[parent].restart = "backoff" /\ st[parent].plugin = p
         /\ turn' = turn

\* The plugin has nothing that the load could take the place of.
LEMMA CauseFacts ==
    ASSUME Typed, Safe, NEW p \in Plugins, NEW parent, Cause(p, parent), stage # "exited"
    PROVE  /\ \A k \in States : st[k].plugin = p =>
                 /\ ~Loading(k) /\ (st[k].worker \notin alive \/ st[k].restarting)
                 /\ st[k].restart = "backoff" => k = parent
                 /\ \A c \in closings : c.s # k
                 /\ Latest(k) => st[k].worker \notin alive
           /\ \A k \in States : st[k].parent # 0 /\ Loading(k) => st[k].parent # parent
<1>1. CASE parent = 0
  <2>1. \A k \in States : st[k].plugin # p
    <3> SUFFICES ASSUME NEW k \in States, st[k].plugin = p PROVE FALSE
      OBVIOUS
    <3>1. PICK m \in 1..turn : m \in DOMAIN LoadOrder /\ LoadOrder[m] = p
      BY <1>1 DEF Safe, Registry, Cause
    <3>2. turn \in Nat /\ m # turn + 1
      BY Constants DEF Typed, RestTyped
    <3> QED
      BY <1>1, <3>1, <3>2, Constants DEF Cause
  <2> QED
    BY <1>1, <2>1
<1>2. CASE parent # 0
  <2>1. /\ parent \in States /\ st[parent].restart = "backoff" /\ st[parent].plugin = p
        /\ Latest(parent) /\ st[parent].worker \notin alive /\ ~Loading(parent)
    BY <1>2 DEF Cause, Safe, Lineage
  <2>2. \A k \in States : st[k].plugin = p /\ Latest(k) => k = parent
    BY <2>1, OneLatest
  <2>3. \A c \in closings : Latest(c.s) /\ st[c.s].restart = "no"
    BY DEF Safe, ClosingsOK
  <2>4. \A k \in States : st[k].plugin = p =>
                 /\ ~Loading(k) /\ (st[k].worker \notin alive \/ st[k].restarting)
                 /\ st[k].restart = "backoff" => k = parent
                 /\ Latest(k) => st[k].worker \notin alive
    BY <2>1, <2>2 DEF Safe, Lineage
  <2>5. \A k \in States, c \in closings : st[k].plugin = p => c.s # k
    BY <2>1, <2>2, <2>3
  <2>6. \A k \in States : st[k].parent # 0 /\ Loading(k) => st[k].parent # parent
    BY <2>1 DEF Safe, LoadsUnderWay
  <2> QED
    BY <2>4, <2>5, <2>6
<1> QED
  BY <1>1, <1>2

LEMMA LoadSafe ==
    ASSUME Typed, Safe, NEW p \in Plugins, NEW parent, Made(p, parent),
           Cause(p, parent), stage' = stage, stage # "exited"
    PROVE  Safe'
<1>0. PICK i : i = Len(st) + 1
  OBVIOUS
<1>1. /\ i \in 1..MaxLoads /\ i \notin States /\ States' = States \cup {i} /\ i # 0
      /\ st'[i].plugin = p /\ st'[i].parent = parent /\ st'[i].load = "init"
      /\ st'[i].crashes = 0 /\ st'[i].restarting = FALSE /\ st'[i].restart = "no"
      /\ st'[i].worker \in 1..spawned' /\ (Pooled(p) => st'[i].worker = busy'[p])
      /\ \A k \in States :
            /\ k < i
            /\ st'[k].plugin = st[k].plugin /\ st'[k].parent = st[k].parent
            /\ st'[k].load = st[k].load /\ st'[k].crashes = st[k].crashes
            /\ st'[k].restarting = st[k].restarting /\ st'[k].worker = st[k].worker
            /\ st'[k].restart = IF k = parent THEN "loading" ELSE st[k].restart
  BY <1>0, Constants DEF Made
<1>2. /\ reg' = [reg EXCEPT ![p] = i] /\ rpcs' = rpcs \cup {[s |-> i, call |-> 0]}
      /\ closings' = closings /\ stragglers' = stragglers
      /\ alive' = alive \cup ((spawned + 1)..spawned')
      /\ \A q \in Plugins \ {p} : busy'[q] = busy[q]
      /\ ~Pooled(p) => busy' = busy
      /\ \A w \in (spawned + 1)..spawned' : InPool(w)' \/ (~Pooled(p) /\ w = st'[i].worker)
      /\ pool # 0 \/ pools = 0 =>
            \A w : (\E k \in DOMAIN idle : idle[k] = w) => InPool(w)'
  BY <1>0 DEF Made, historyVars
<1>3. /\ \A k \in States : st[k].plugin = p =>
             /\ ~Loading(k) /\ (st[k].worker \notin alive \/ st[k].restarting)
             /\ st[k].restart = "backoff" => k = parent
             /\ \A c \in closings : c.s # k
             /\ Latest(k) => st[k].worker \notin alive
      /\ \A k \in States : st[k].parent # 0 /\ Loading(k) => st[k].parent # parent
  BY CauseFacts
<1>4. \A k \in States : /\ st[k].plugin \in Plugins /\ k \in Nat /\ k # 0
                        /\ st[k].worker \in alive' => st[k].worker \in alive
  <2> TAKE k \in States
  <2>1. st[k].plugin \in Plugins /\ k \in Nat /\ k # 0 /\ st[k].worker \in Nat
    BY ElementsTyped DEF Workers
  <2>2. st[k].worker <= spawned /\ spawned \in Nat
    BY WorkersFit DEF Typed, StatesTyped
  <2> QED
    BY <1>2, <2>1, <2>2
<1>5. i \in Nat
  BY <1>1, Constants
<1>6. Latest(i)'
  BY <1>1, <1>4, <1>5 DEF Latest
<1>7. \A k \in States : /\ st[k].plugin # p => (Latest(k)' <=> Latest(k))
                        /\ Loading(k)' <=> Loading(k)
                        /\ k # i
  BY <1>1 DEF Latest, Loading
<1>8. Loading(i)' /\ AwaitsInit(i)'
  BY <1>1, <1>2 DEF Loading, AwaitsInit
<1>9. \A k \in States : AwaitsInit(k)' <=> AwaitsInit(k)
  BY <1>2, <1>7 DEF AwaitsInit
<1>10. reg'[p] = i /\ \A q \in Plugins : q # p => reg'[q] = reg[q]
  BY <1>2 DEF Typed, StatesTyped
<1>11. parent # 0 => parent \in States /\ st[parent].plugin = p /\ st[parent].restart = "backoff"
  BY DEF Cause
<1>12. Lineage'
  <2>1. ASSUME NEW k \in States
        PROVE  /\ st'[k].parent # 0 => st'[st'[k].parent].plugin = st'[k].plugin
               /\ Loading(k)' => Latest(k)'
               /\ st'[k].worker \in alive' /\ ~st'[k].restarting => Latest(k)' /\ st'[k].crashes < k
               /\ st'[k].restart = "backoff" =>
                     Latest(k)' /\ st'[k].worker \notin alive' /\ ~Loading(k)' /\ reg'[st'[k].plugin] = 0
    <3>1. st'[k].parent # 0 => st'[st'[k].parent].plugin = st'[k].plugin
      BY <1>1, ParentFacts
    <3>2. Loading(k)' => Latest(k)'
      BY <1>3, <1>7 DEF Safe, Lineage
    <3>3. st'[k].worker \in alive' /\ ~st'[k].restarting => Latest(k)' /\ st'[k].crashes < k
      BY <1>1, <1>3, <1>4, <1>7 DEF Safe, Lineage
    <3>4. ASSUME st'[k].restart = "backoff"
          PROVE  Latest(k)' /\ st'[k].worker \notin alive' /\ ~Loading(k)' /\ reg'[st'[k].plugin] = 0
      <4>1. k # parent /\ st[k].restart = "backoff"
        BY <1>1, <3>4
      <4>2. st[k].plugin # p
        BY <1>3, <4>1
      <4> QED
        BY <4>1, <4>2, <1>1, <1>4, <1>7, <1>10 DEF Safe, Lineage
    <3> QED
      BY <3>1, <3>2, <3>3, <3>4
  <2>2. /\ st'[i].parent # 0 => st'[st'[i].parent].plugin = st'[i].plugin
        /\ st'[i].crashes < i
    BY <1>1, <1>5, <1>11
  <2> QED
    BY <2>1, <2>2, <1>1, <1>6 DEF Lineage
<1>13. LoadsUnderWay'
  <2>1. ASSUME NEW k \in States
        PROVE  /\ AwaitsInit(k)' <=> st'[k].load = "init"
               /\ AwaitsInit(k)' => reg'[st'[k].plugin] = k
               /\ st'[k].load = "closing" => st'[k].restarting
               /\ Loading(k)' /\ st'[k].parent # 0 => st'[st'[k].parent].restart = "loading"
               /\ st'[k].restart = "loading" => \E m \in States' : st'[m].parent = k /\ Loading(m)'
    <3>1. AwaitsInit(k)' <=> st'[k].load = "init"
      BY <1>1, <1>9 DEF Safe, LoadsUnderWay
    <3>2. AwaitsInit(k)' => reg'[st'[k].plugin] = k
      BY <1>1, <1>3, <1>4, <1>9, <1>10 DEF Safe, LoadsUnderWay, Loading
    <3>3. st'[k].load = "closing" => st'[k].restarting
      BY <1>1 DEF Safe, LoadsUnderWay
    <3>4. Loading(k)' /\ st'[k].parent # 0 => st'[st'[k].parent].restart = "loading"
      BY <1>1, <1>7, ParentFacts DEF Safe, LoadsUnderWay
    <3>5. ASSUME st'[k].restart = "loading"
          PROVE  \E m \in States' : st'[m].parent = k /\ Loading(m)'
      <4>1. CASE k = parent
        BY <4>1, <1>1, <1>8
      <4>2. CASE k # parent
        <5>1. PICK m \in States : st[m].parent = k /\ Loading(m)
          BY <3>5, <4>2, <1>1 DEF Safe, LoadsUnderWay
        <5> QED
          BY <5>1, <1>1, <1>7
      <4> QED
        BY <4>1, <4>2
    <3> QED
      BY <3>1, <3>2, <3>3, <3>4, <3>5
  <2>2. st'[i].parent # 0 => st'[st'[i].parent].restart = "loading"
    BY <1>1, <1>11
  <2> QED
    BY <2>1, <2>2, <1>1, <1>8, <1>10 DEF LoadsUnderWay
<1>14. Registry'
  <2>1. (\A q \in Plugins : reg[q] # 0 =>
           LET n == reg[q] IN st[n].plugin = q /\ Latest(n) /\ st[n].restart = "no")'
    <3>1. ASSUME NEW q \in Plugins, q # p, reg[q] # 0, NEW n \in States, n = reg[q]
          PROVE  st'[n].plugin = q /\ Latest(n)' /\ st'[n].restart = "no"
      <4>1. st[n].plugin = q /\ Latest(n) /\ st[n].restart = "no"
        BY <3>1 DEF Safe, Registry
      <4>2. n # parent
        BY <4>1, <3>1, <1>4, <1>5, <1>11
      <4> QED
        BY <3>1, <4>1, <4>2, <1>1, <1>7
    <3>2. \A q \in Plugins : reg[q] \in {0} \cup States
      BY DEF Typed, StatesTyped
    <3> QED
      BY <3>1, <3>2, <1>1, <1>6, <1>10 DEF Latest
  <2>2. ASSUME stage' = "loading", NEW k \in States'
        PROVE  \E m \in 1..turn' : m \in DOMAIN LoadOrder /\ LoadOrder[m] = st'[k].plugin
    <3>1. turn \in Nat
      BY Constants DEF Typed, RestTyped
    <3>2. turn' = turn \/ turn' = turn + 1
      BY DEF Cause
    <3>3. ASSUME NEW n \in States
          PROVE  \E m \in 1..turn' : m \in DOMAIN LoadOrder /\ LoadOrder[m] = st[n].plugin
      <4>1. PICK m \in 1..turn : m \in DOMAIN LoadOrder /\ LoadOrder[m] = st[n].plugin
        BY <2>2 DEF Safe, Registry
      <4>2. m \in 1..turn'
        BY <3>1, <3>2
      <4> QED
        BY <4>1, <4>2
    <3>4. CASE k = i
      <4>1. CASE parent = 0
        BY <3>1, <3>4, <4>1, <1>1 DEF Cause
      <4>2. CASE parent # 0
        BY <3>3, <3>4, <4>2, <1>1, <1>11
      <4> QED
        BY <4>1, <4>2
    <3>5. CASE k # i
      BY <2>2, <3>3, <3>5, <1>1
    <3> QED
      BY <3>4, <3>5
  <2>3. \A k \in States' : Loading(k)' /\ st'[k].parent = 0 => stage' = "loading"
    <3>1. \A k \in States : Loading(k) /\ st[k].parent = 0 => stage = "loading"
      BY DEF Safe, Registry
    <3>2. parent = 0 => stage = "loading"
      BY DEF Cause
    <3> QED
      BY <3>1, <3>2, <1>1, <1>7
  <2> QED
    BY <2>1, <2>2, <2>3 DEF Registry
<1>15. ClosingsOK'
  <2> SUFFICES ASSUME NEW c \in closings
               PROVE  /\ Latest(c.s)' /\ st'[c.s].restarting /\ st'[c.s].restart = "no"
                      /\ c.w \in {0, st'[c.s].worker} /\ (c.pool = 0 => c.w = st'[c.s].worker)
                      /\ c.by = "load" => st'[c.s].load = "closing"
                      /\ c.by = "dispose" => stage = "disposing"
                      /\ c.by = "all" => stage = "closing"
                      /\ c.by = "load" => \A d \in closings : d.by = "load" /\ d.s = c.s => d = c
    BY <1>2 DEF ClosingsOK
  <2>1. c.s \in States
    BY DEF Typed, WaitsTyped, Closings
  <2>2. st[c.s].plugin # p
    BY <2>1, <1>3
  <2>3. c.s # parent
    BY <2>1, <2>2, <1>4, <1>11
  <2>4. /\ Latest(c.s) /\ st[c.s].restarting /\ st[c.s].restart = "no"
        /\ c.w \in {0, st[c.s].worker} /\ (c.pool = 0 => c.w = st[c.s].worker)
        /\ c.by = "load" => st[c.s].load = "closing"
        /\ c.by = "dispose" => stage = "disposing"
        /\ c.by = "all" => stage = "closing"
        /\ c.by = "load" => \A d \in closings : d.by = "load" /\ d.s = c.s => d = c
    BY DEF Safe, ClosingsOK
  <2> QED
    BY <2>1, <2>2, <2>3, <2>4, <1>1, <1>7
<1>16. Known'
  <2>1. ASSUME NEW q \in Plugins, busy'[q] # 0
        PROVE  Pooled(q) /\ \E k \in States' : st'[k].plugin = q /\ Latest(k)' /\ st'[k].worker = busy'[q]
    <3>1. CASE q # p
      <4>1. Pooled(q) /\ \E k \in States : st[k].plugin = q /\ Latest(k) /\ st[k].worker = busy[q]
        BY <2>1, <3>1, <1>2 DEF Safe, Known
      <4> QED
        BY <3>1, <4>1, <1>1, <1>2, <1>7
    <3>2. CASE q = p
      <4>1. Pooled(p)
        BY <2>1, <3>2, <1>2 DEF Safe, Known
      <4> QED
        BY <3>2, <4>1, <1>1, <1>6
    <3> QED
      BY <3>1, <3>2
  <2>2. ASSUME stage # "stopped", NEW w \in alive'
        PROVE  InPool(w)' \/ \E k \in States' : st'[k].worker = w /\ ~Pooled(st'[k].plugin)
    <3>1. CASE w \in (spawned + 1)..spawned'
      BY <3>1, <1>1, <1>2
    <3>2. CASE w \in alive
      <4>1. pool # 0 \/ pools = 0
        BY <2>2 DEF Typed, Numbered
      <4>2. CASE \E k \in DOMAIN idle : idle[k] = w
        BY <4>1, <4>2, <1>2
      <4>3. CASE \E q \in Plugins : busy[q] = w
        <5>1. PICK q \in Plugins : busy[q] = w
          BY <4>3
        <5>2. w # 0
          BY <3>2, WorkersFit DEF Workers
        <5>3. q # p
          BY <3>2, <5>1, <5>2, <1>3 DEF Safe, Known
        <5> QED
          BY <5>1, <5>3, <1>2 DEF InPool
      <4>4. CASE \E k \in States : st[k].worker = w /\ ~Pooled(st[k].plugin)
        BY <4>4, <1>1
      <4> QED
        BY <2>2, <3>2, <4>2, <4>3, <4>4 DEF Safe, Known
    <3> QED
      BY <2>2, <3>1, <3>2, <1>2
  <2>3. ASSUME NEW k \in States', ~Pooled(st'[k].plugin), st'[k].worker \in alive', st'[k].restarting
        PROVE  \E c \in closings : c.s = k /\ c.w = st'[k].worker /\ c.pool = 0
    <3>1. k \in States
      BY <2>3, <1>1
    <3> QED
      BY <2>3, <3>1, <1>1, <1>4 DEF Safe, Known
  <2> QED
    BY <2>1, <2>2, <2>3, <1>2 DEF Known, InPool, Pooled
<1>17. Stopping'
  <2> SUFFICES ASSUME stage \in {"closing", "stopped"}, ~stragglers PROVE FALSE
    BY <1>2 DEF Stopping
  <2>1. parent # 0
    BY DEF Cause
  <2> QED
    BY <2>1, <1>11 DEF Safe, Stopping
<1> QED
  BY <1>12, <1>13, <1>14, <1>15, <1>16, <1>17 DEF Safe

\* The worker that a load takes is nobody else's.
LEMMA LoadOwned ==
    ASSUME Typed, Safe, Owned, NEW p \in Plugins, NEW parent, Made(p, parent), Cause(p, parent),
           stage' = stage, stage # "exited"
    PROVE  Owned'
<1> SUFFICES ASSUME stage \in {"loading", "up"} PROVE Owned'
  BY DEF Owned
<1>1. PICK i : i = Len(st) + 1
  OBVIOUS
<1>2. /\ i \notin States /\ States' = States \cup {i} /\ i # 0
      /\ st'[i].plugin = p /\ st'[i].worker \in 1..spawned' /\ (Pooled(p) => st'[i].worker = busy'[p])
      /\ \A k \in States : st'[k].plugin = st[k].plugin /\ st'[k].worker = st[k].worker
      /\ reg' = [reg EXCEPT ![p] = i] /\ closings' = closings
      /\ spawned' \in Nat /\ spawned <= spawned' /\ idle' \in Seq(1..spawned')
      /\ busy' \in [Plugins -> 0..spawned'] /\ \A q \in Plugins \ {p} : busy'[q] = busy[q]
      /\ ~Pooled(p) => busy' = busy /\ idle' = idle /\ st'[i].worker > spawned
      /\ Pooled(p) /\ Apart(idle) => Taken(p)
  BY <1>1, WorkersFit DEF Made
<1>3. /\ Apart(idle)
      /\ \A q, r \in Plugins : q # r /\ busy[q] # 0 => busy[q] # busy[r]
      /\ \A k \in DOMAIN idle, q \in Plugins : idle[k] # busy[q]
      /\ \A m \in States : ~Pooled(st[m].plugin) =>
            /\ \A k \in DOMAIN idle : idle[k] # st[m].worker
            /\ \A q \in Plugins : busy[q] # st[m].worker
  BY DEF Owned, Apart
<1>4. /\ spawned \in Nat /\ \A q \in Plugins : busy[q] \in 0..spawned
      /\ \A k \in DOMAIN idle : idle[k] \in 1..spawned
      /\ \A m \in States : st[m].worker \in Workers /\ st[m].worker <= spawned
  BY WorkersFit, ElementsTyped DEF Typed, PoolTyped, StatesTyped
<1>5. \A w \in Workers : w \in Nat /\ w # 0
  BY Constants DEF Workers
<1>6. Apart(idle')
  BY <1>2, <1>3 DEF Taken
<1>7. \A k \in DOMAIN idle' : idle'[k] > spawned \/ \E n \in DOMAIN idle : idle'[k] = idle[n]
  BY <1>2, <1>3 DEF Taken
<1>8. Pooled(p) => /\ busy'[p] # 0 /\ \A k \in DOMAIN idle' : idle'[k] # busy'[p]
                   /\ \A q \in Plugins \ {p} : busy[q] # busy'[p]
                   /\ \A m \in States : ~Pooled(st[m].plugin) => busy'[p] # st[m].worker
  <2> SUFFICES ASSUME Pooled(p)
               PROVE  /\ busy'[p] # 0 /\ \A k \in DOMAIN idle' : idle'[k] # busy'[p]
                      /\ \A q \in Plugins \ {p} : busy[q] # busy'[p]
                      /\ \A m \in States : ~Pooled(st[m].plugin) => busy'[p] # st[m].worker
    OBVIOUS
  <2>1. Taken(p)
    BY <1>2, <1>3
  <2>2. busy'[p] > spawned \/ \E n \in DOMAIN idle : busy'[p] = idle[n]
    BY <2>1 DEF Taken
  <2>3. CASE busy'[p] > spawned
    <3>1. busy'[p] \in Nat
      BY <1>2
    <3> QED
      BY <1>4, <1>5, <2>1, <2>3, <3>1 DEF Taken
  <2>4. CASE \E n \in DOMAIN idle : busy'[p] = idle[n]
    <3>1. PICK n \in DOMAIN idle : busy'[p] = idle[n]
      BY <2>4
    <3>2. idle[n] # 0
      BY <1>4
    <3> QED
      BY <1>3, <2>1, <3>1, <3>2 DEF Taken
  <2> QED
    BY <2>2, <2>3, <2>4
<1>9. \A k \in DOMAIN idle', q \in Plugins : idle'[k] # busy'[q]
  <2> SUFFICES ASSUME NEW k \in DOMAIN idle', NEW q \in Plugins PROVE idle'[k] # busy'[q]
    OBVIOUS
  <2>1. CASE Pooled(p) /\ q = p
    BY <1>8, <2>1
  <2>2. CASE ~(Pooled(p) /\ q = p)
    <3>1. busy'[q] = busy[q]
      BY <1>2, <2>2
    <3>2. CASE idle'[k] > spawned
      BY <1>4, <3>1, <3>2
    <3>3. CASE \E n \in DOMAIN idle : idle'[k] = idle[n]
      BY <1>3, <3>1, <3>3
    <3> QED
      BY <1>7, <3>2, <3>3
  <2> QED
    BY <2>1, <2>2
<1>10. \A q, r \in Plugins : q # r /\ busy'[q] # 0 => busy'[q] # busy'[r]
  <2> SUFFICES ASSUME NEW q \in Plugins, NEW r \in Plugins, q # r, busy'[q] # 0 PROVE busy'[q] # busy'[r]
    OBVIOUS
  <2>1. CASE ~Pooled(p)
    BY <1>2, <1>3, <2>1
  <2>2. CASE Pooled(p)
    BY <1>2, <1>3, <1>8, <2>2
  <2> QED
    BY <2>1, <2>2
<1>11. ASSUME NEW m \in States', ~Pooled(st'[m].plugin)
       PROVE  /\ \A k \in DOMAIN idle' : idle'[k] # st'[m].worker
              /\ \A q \in Plugins : busy'[q] # st'[m].worker
  <2>1. CASE m = i
    <3>1. ~Pooled(p) /\ idle' = idle /\ busy' = busy /\ st'[i].worker > spawned /\ st'[i].worker \in Nat
      BY <1>2, <1>11, <2>1
    <3> QED
      BY <1>4, <2>1, <3>1
  <2>2. CASE m \in States
    <3>1. ~Pooled(st[m].plugin) /\ st'[m].worker = st[m].worker /\ st[m].worker <= spawned /\ st[m].worker \in Nat
      BY <1>2, <1>4, <1>5, <1>11, <2>2
    <3>2. \A k \in DOMAIN idle' : idle'[k] # st[m].worker
      <4> TAKE k \in DOMAIN idle'
      <4>1. CASE idle'[k] > spawned
        BY <1>4, <3>1, <4>1
      <4>2. CASE \E n \in DOMAIN idle : idle'[k] = idle[n]
        BY <1>3, <2>2, <3>1, <4>2
      <4> QED
        BY <1>7, <4>1, <4>2
    <3>3. \A q \in Plugins : busy'[q] # st[m].worker
      <4> TAKE q \in Plugins
      <4>1. CASE Pooled(p) /\ q = p
        BY <1>8, <2>2, <3>1, <4>1
      <4>2. CASE ~(Pooled(p) /\ q = p)
        <5>1. busy'[q] = busy[q]
          BY <1>2, <4>2
        <5> QED
          BY <1>3, <2>2, <3>1, <5>1
      <4> QED
        BY <4>1, <4>2
    <3> QED
      BY <3>1, <3>2, <3>3
  <2> QED
    BY <1>2, <1>11, <2>1, <2>2
<1>12. \A q \in Plugins : reg'[q] # 0 /\ Pooled(q) => busy'[q] = st'[reg'[q]].worker
  <2> TAKE q \in Plugins
  <2>1. CASE q = p
    BY <1>2, <2>1 DEF Typed, StatesTyped
  <2>2. CASE q # p
    <3>1. reg'[q] = reg[q] /\ reg[q] \in {0} \cup States /\ busy'[q] = busy[q]
      BY <1>2, <2>2 DEF Typed, StatesTyped
    <3> QED
      BY <1>2, <3>1 DEF Owned
  <2> QED
    BY <2>1, <2>2
<1>13. ASSUME NEW c \in closings, c.pool # 0
       PROVE  Pooled(st'[c.s].plugin) /\ busy'[st'[c.s].plugin] = c.w
  <2>1. c.s \in States /\ st[c.s].plugin # p
    BY CauseFacts DEF Typed, WaitsTyped, Closings
  <2>2. st[c.s].plugin \in Plugins
    BY <2>1, ElementsTyped
  <2>3. Pooled(st[c.s].plugin) /\ busy[st[c.s].plugin] = c.w
    BY <1>13 DEF Owned
  <2> QED
    BY <1>2, <2>1, <2>2, <2>3
<1> QED
  BY <1>2, <1>6, <1>9, <1>10, <1>11, <1>12, <1>13 DEF Owned, Apart, Pooled

\* A restarted plugin starts with the count of the state before.
LEMMA LoadBudget ==
    ASSUME Typed, Safe, Budget, NEW p \in Plugins, NEW parent, Made(p, parent), Cause(p, parent),
           stage # "exited"
    PROVE  Budget'
<1>1. PICK i : i = Len(st) + 1
  OBVIOUS
<1>2. /\ i \notin States /\ States' = States \cup {i} /\ \A k \in States : k < i
      /\ st'[i].plugin = p /\ st'[i].parent = parent /\ st'[i].load = "init"
      /\ st'[i].restart = "no"
      /\ \A k \in States : /\ st'[k].plugin = st[k].plugin /\ st'[k].parent = st[k].parent
                           /\ st'[k].load = st[k].load /\ st'[k].crashes = st[k].crashes
                           /\ st'[k].restart = IF k = parent THEN "loading" ELSE st[k].restart
      /\ UNCHANGED historyVars
  BY <1>1 DEF Made
<1>3. streak' = streak /\ diedUnloaded' = diedUnloaded
  BY <1>2 DEF historyVars
<1>4. \A k \in States' : st'[k].restart = "backoff" =>
          /\ st'[k].crashes <= MaxRestarts
          /\ st'[k].load # "loaded" => st'[k].plugin \in diedUnloaded
  BY <1>2 DEF Budget
<1>5. ASSUME NEW k \in States', Latest(k)', st'[k].plugin \notin diedUnloaded
      PROVE  /\ st'[k].load = "loaded" => streak[st'[k].plugin] <= st'[k].crashes
             /\ Loading(k)' => streak[st'[k].plugin] <=
                                  IF st'[k].parent = 0 THEN 0 ELSE st'[st'[k].parent].crashes
  <2>1. CASE k = i
    <3>1. CASE parent = 0
      <4>1. \A m \in States : st[m].plugin # p
        <5> SUFFICES ASSUME NEW m \in States, st[m].plugin = p PROVE FALSE
          OBVIOUS
        <5>1. stage = "loading" /\ turn + 1 \in DOMAIN LoadOrder /\ LoadOrder[turn + 1] = p
          BY <3>1 DEF Cause
        <5>2. PICK n \in 1..turn : n \in DOMAIN LoadOrder /\ LoadOrder[n] = p
          BY <5>1 DEF Safe, Registry
        <5>3. turn \in Nat
          BY DEF Typed, RestTyped
        <5> QED
          BY <5>1, <5>2, <5>3, Constants
      <4>2. streak[p] = 0
        BY <4>1 DEF Budget
      <4> QED
        BY <1>2, <2>1, <3>1, <4>2
    <3>2. CASE parent # 0
      <4>1. parent \in States /\ st[parent].restart = "backoff" /\ st[parent].plugin = p
        BY <3>2 DEF Cause
      <4>2. Latest(parent) /\ st[parent].load = "loaded"
        BY <1>2, <1>5, <2>1, <4>1 DEF Budget, Safe, Lineage
      <4>3. streak[p] <= st[parent].crashes
        BY <1>2, <1>5, <2>1, <4>1, <4>2 DEF Budget
      <4> QED
        BY <1>2, <2>1, <3>2, <4>1, <4>3
    <3> QED
      BY <3>1, <3>2
  <2>2. CASE k \in States
    <3>1. Latest(k) /\ st[k].plugin \notin diedUnloaded
      BY <1>2, <1>5, <2>2 DEF Latest
    <3>2. Loading(k)' => Loading(k)
      BY <1>2, <2>2 DEF Loading
    <3>3. st[k].parent # 0 => st[k].parent \in States
      BY <2>2, ParentFacts
    <3> QED
      BY <1>2, <2>2, <3>1, <3>2, <3>3 DEF Budget
  <2> QED
    BY <1>2, <2>1, <2>2
<1>6. ASSUME NEW q \in Plugins, \A k \in States' : st'[k].plugin # q PROVE streak[q] = 0
  BY <1>2, <1>6 DEF Budget
<1> QED
  BY <1>3, <1>4, <1>5, <1>6 DEF Budget

LEMMA RestartKeeps ==
    ASSUME Typed, Safe, NEW j \in States, Restart(j), stage # "exited"
    PROVE  Typed' /\ Safe' /\ Further
<1>1. PICK p : p = st[j].plugin
  OBVIOUS
<1>2. p \in Plugins /\ j # 0
  BY <1>1, ElementsTyped
<1>3. LoadInSandbox(p, j) /\ stage' = stage /\ turn' = turn /\ st[j].restart = "backoff"
  BY <1>1 DEF Restart
<1>4. Made(p, j)
  BY <1>2, <1>3, LoadMakes
<1>5. Cause(p, j)
  BY <1>1, <1>2, <1>3 DEF Cause
<1>6. turn' \in 0..Len(LoadOrder)
  BY <1>3 DEF Typed, RestTyped
<1> QED
  BY <1>2, <1>3, <1>4, <1>5, <1>6, LoadTyped, LoadSafe, LoadOwned, LoadBudget DEF Further

LEMMA LoadNextKeeps ==
    ASSUME Typed, Safe, LoadNext
    PROVE  Core' /\ Further
<1>1. /\ stage = "loading" /\ turn' = turn + 1 /\ turn + 1 \in DOMAIN LoadOrder
      /\ turn' \in 0..Len(LoadOrder)
  BY Constants DEF LoadNext, Typed, RestTyped
<1>2. PICK p : p = LoadOrder[turn']
  OBVIOUS
<1>3. p = LoadOrder[turn + 1] /\ p \in Plugins
  BY <1>1, <1>2 DEF Plugins
<1>4. CASE LoadInSandbox(LoadOrder[turn'], 0) /\ UNCHANGED stage
  <2>1. LoadInSandbox(p, 0)
    BY <1>2, <1>4
  <2>2. Made(p, 0)
    BY <1>3, <2>1, LoadMakes
  <2>3. Cause(p, 0)
    BY <1>1, <1>3 DEF Cause
  <2>4. Typed' /\ Safe' /\ Further
    BY <1>1, <1>3, <1>4, <2>2, <2>3, LoadTyped, LoadSafe, LoadOwned, LoadBudget DEF Further
  <2> QED
    BY <2>4 DEF Core, Safe
<1>5. CASE stage' = "exited" /\ UNCHANGED <<workerVars, poolVars, managerVars, calls, historyVars>>
  <2>1. UNCHANGED <<alive, spawned, hooks, inbox, doing, pool, pools, idle, busy, st, reg, rpcs, closings,
                    calls, streak, diedUnloaded, unreset, stragglers>>
    BY <1>5 DEF workerVars, poolVars, managerVars, historyVars
  <2>2. States' = States /\ Msgs' = Msgs /\ Closings' = Closings
    BY <2>1 DEF States, Msgs, Closings
  <2>3. Numbered' /\ PoolTyped' /\ WorkersTyped'
    BY <1>1, <1>5, <2>1, <2>2 DEF Typed, Numbered, PoolTyped, WorkersTyped
  <2>4. StatesTyped' /\ WaitsTyped'
    BY <2>1, <2>2 DEF Typed, StatesTyped, WaitsTyped
  <2>5. RestTyped'
    BY <1>1, <1>5, <2>1 DEF Typed, RestTyped
  <2>6. Lineage' /\ LoadsUnderWay'
    BY <2>1, <2>2 DEF Safe, Lineage, LoadsUnderWay, Latest, Loading, AwaitsInit
  <2>7. Further
    BY <1>5, <2>1, <2>2 DEF Further, Owned, Budget, Latest, Loading
  <2> QED
    BY <1>5, <2>3, <2>4, <2>5, <2>6, <2>7 DEF Typed, Core
<1> QED
  BY <1>4, <1>5 DEF LoadNext

-----------------------------------------------------------------------------
(* The invariant, and what follows from it. *)

LEMMA IInvInit == Init => IInv
<1> SUFFICES ASSUME Init PROVE IInv
  OBVIOUS
<1>1. /\ alive = {} /\ spawned = 0 /\ hooks = [w \in Workers |-> None]
      /\ inbox = [w \in Workers |-> <<>>] /\ doing = {}
      /\ pool = 0 /\ pools = 0 /\ idle = <<>> /\ busy = [p \in Plugins |-> 0]
      /\ st = <<>> /\ reg = [p \in Plugins |-> 0] /\ rpcs = {} /\ closings = {}
      /\ stage = "loading" /\ turn = 0 /\ calls = 0
      /\ streak = [p \in Plugins |-> 0] /\ diedUnloaded = {} /\ unreset = {} /\ stragglers = FALSE
  BY DEF Init
<1>2. Len(st) = 0 /\ States = {} /\ st \in Seq(Records)
  BY <1>1, EmptySeq DEF States
<1>3. Numbered
  BY <1>1, <1>2 DEF Numbered
<1>4. WorkersTyped /\ PoolTyped
  BY <1>1 DEF WorkersTyped, PoolTyped
<1>5. StatesTyped /\ WaitsTyped
  BY <1>1, <1>2, Constants DEF StatesTyped, WaitsTyped
<1>6. RestTyped
  <2>1. 0 \in 0..Len(LoadOrder) /\ 0 \in 0..MaxCalls
    BY Constants
  <2>2. turn \in 0..Len(LoadOrder) /\ calls \in 0..MaxCalls
    BY <1>1, <2>1
  <2>3. streak \in [Plugins -> Nat] /\ diedUnloaded \in SUBSET Plugins
    BY <1>1
  <2>4. unreset \in SUBSET Workers /\ stragglers \in BOOLEAN
    BY <1>1
  <2> QED
    BY <1>1, <2>2, <2>3, <2>4 DEF RestTyped
<1>7. Owned /\ Budget
  BY <1>1, <1>2 DEF Owned, Budget
<1>8. Lineage /\ LoadsUnderWay /\ Registry
  BY <1>1, <1>2 DEF Lineage, LoadsUnderWay, Registry
<1>9. ClosingsOK /\ Known /\ Stopping
  BY <1>1, <1>2 DEF ClosingsOK, Known, Stopping
<1> QED
  BY <1>3, <1>4, <1>5, <1>6, <1>7, <1>8, <1>9 DEF IInv, Core, Typed, Safe

LEMMA IInvNext == IInv /\ [Next]_vars => IInv'
<1> SUFFICES ASSUME IInv, [Next]_vars PROVE IInv'
  OBVIOUS
<1>1. CASE UNCHANGED vars
  <2>1. UNCHANGED <<alive, spawned, hooks, inbox, doing, pool, pools, idle, busy, st, reg, rpcs, closings,
                    stage, turn, calls, streak, diedUnloaded, unreset, stragglers>>
    BY <1>1 DEF vars, workerVars, poolVars, managerVars, loaderVars, historyVars
  <2>2. States' = States /\ Msgs' = Msgs /\ Closings' = Closings
    BY <2>1 DEF States, Msgs, Closings
  <2>3. Typed'
    BY <2>1, <2>2 DEF IInv, Core, Typed, Numbered, WorkersTyped, PoolTyped, StatesTyped, WaitsTyped, RestTyped
  <2>4. Lineage' /\ LoadsUnderWay'
    BY <2>1, <2>2 DEF IInv, Core, Lineage, LoadsUnderWay, Latest, Loading, AwaitsInit
  <2>5. stage # "exited" => Registry' /\ ClosingsOK'
    BY <2>1, <2>2 DEF IInv, Core, Safe, Registry, ClosingsOK, Latest, Loading
  <2>6. stage # "exited" => Known' /\ Stopping'
    BY <2>1, <2>2 DEF IInv, Core, Safe, Known, Stopping, Latest, Pooled
  <2>7. Owned' /\ Budget'
    BY <2>1, <2>2 DEF IInv, Owned, Budget, Latest, Loading, Pooled
  <2> QED
    BY <2>1, <2>3, <2>4, <2>5, <2>6, <2>7 DEF IInv, Core, Safe
<1>2. CASE Next
  <2>1. stage # "exited" /\ Typed /\ Safe
    BY <1>2 DEF Next, IInv, Core
  <2>2. (Core' /\ Further => IInv') /\ (Typed' /\ Safe' => Core')
    BY DEF IInv, Core, Safe, Further
  <2>3. CASE Resume
    <3>1. ASSUME NEW c \in closings, CloseEnds(c) PROVE IInv'
      BY <2>1, <2>2, <3>1, CloseEndsKeeps
    <3>2. ASSUME NEW quiet \in BOOLEAN, StopPool(quiet) PROVE IInv'
      BY <2>1, <2>2, <3>2, StopPoolKeeps
    <3> QED
      BY <2>3, <3>1, <3>2 DEF Resume
  <2>4. CASE WorkerStep
    <3>1. ASSUME NEW w \in alive, Begin(w) PROVE IInv'
      BY <2>1, <2>2, <3>1, BeginKeeps
    <3>2. ASSUME NEW w \in alive, Quit(w) PROVE IInv'
      BY <2>1, <2>2, <3>2, QuitKeeps
    <3>3. ASSUME NEW w \in alive, NEW quiet \in BOOLEAN, Crash(w, quiet) PROVE IInv'
      BY <2>1, <2>2, <3>3, CrashKeeps
    <3>4. ASSUME NEW d \in doing, ToolEnds(d) \/ ResetEnds(d) PROVE IInv'
      BY <2>1, <2>2, <3>4, CallEndsKeeps
    <3>5. ASSUME NEW d \in doing, InitSucceeds(d) PROVE IInv'
      BY <2>1, <2>2, <3>5, InitSucceedsKeeps
    <3>6. ASSUME NEW d \in doing, NEW kept \in BOOLEAN, InitFails(d, kept) PROVE IInv'
      BY <2>1, <2>2, <3>6, InitFailsKeeps
    <3> QED
      BY <2>4, <3>1, <3>2, <3>3, <3>4, <3>5, <3>6 DEF WorkerStep
  <2>5. CASE MainStep
    <3>1. ASSUME NEW j \in States, Restart(j) PROVE IInv'
      BY <2>1, <2>2, <3>1, RestartKeeps
    <3>2. ASSUME NEW j \in States, RestartRejected(j) PROVE IInv'
      BY <2>1, <2>2, <3>2, RestartRejectedKeeps
    <3>3. ASSUME NEW c \in closings, CloseTimeout(c) PROVE IInv'
      BY <2>1, <2>2, <3>3, CloseEndsKeeps DEF CloseTimeout
    <3>4. ASSUME NEW r \in rpcs, RpcTimeout(r) PROVE IInv'
      BY <2>1, <2>2, <3>4, RpcTimeoutKeeps
    <3>5. ASSUME LoadNext PROVE IInv'
      BY <2>1, <2>2, <3>5, LoadNextKeeps
    <3>6. ASSUME Started PROVE IInv'
      BY <2>1, <2>2, <3>6, StartedKeeps
    <3>7. ASSUME DisposeNext \/ ShutdownAll PROVE IInv'
      BY <2>1, <2>2, <3>7, DisposeKeeps
    <3> QED
      BY <2>5, <3>1, <3>2, <3>3, <3>4, <3>5, <3>6, <3>7 DEF MainStep
  <2>6. CASE UserStep
    <3>1. ASSUME Stop PROVE IInv'
      BY <2>1, <2>2, <3>1, StartedKeeps
    <3>2. ASSUME NEW p \in Plugins, InvokeTool(p) PROVE IInv'
      BY <2>1, <2>2, <3>2, InvokeToolKeeps
    <3> QED
      BY <2>6, <3>1, <3>2 DEF UserStep
  <2> QED
    BY <1>2, <2>3, <2>4, <2>5, <2>6 DEF Next
<1> QED
  BY <1>1, <1>2

\* Safety needs no fairness.
Steps == Init /\ [][Next]_vars

\* In every behaviour, the states of a plugin succeed each other as the callbacks of
\* the sandbox manager assume (sandbox-manager.ts, handleWorkerCrash).
THEOREM SandboxInvariant == Steps => []IInv
<1> QED
  BY IInvInit, IInvNext, PTL DEF Steps

\* When the plugins have been disposed of no worker is left, unless shutdownAll found a
\* restart under way or a worker whose restart timed out (plugin-loader.ts, disposeAll;
\* sandbox-manager.ts, shutdownAll).
THEOREM SandboxStopLeavesNothing == Steps => []StopLeavesNothing
<1>1. IInv => StopLeavesNothing
  BY DEF IInv, Core, Safe, Stopping, StopLeavesNothing
<1> QED
  BY <1>1, SandboxInvariant, PTL

\* One crash handler at a time restarts a plugin, and a load under way is the one its
\* plugin is registered with (sandbox-manager.ts, handleWorkerCrash and loadInSandbox).
THEOREM SandboxOneRestart == Steps => []OneRestart
<1>1. IInv => OneRestart
  <2> SUFFICES ASSUME IInv PROVE OneRestart
    OBVIOUS
  <2>1. \A i \in States : AwaitsInit(i) => reg[st[i].plugin] = i
    BY DEF IInv, Core, LoadsUnderWay
  <2>2. \A k \in States : st[k].restart \in {"no", "backoff", "loading"}
    BY ElementsTyped DEF IInv, Core, Records
  <2>3. \A k \in States : k \in Nat
    BY ElementsTyped DEF IInv, Core
  <2>4. ASSUME NEW k \in States, st[k].restart # "no"
        PROVE  \E m \in States : /\ Latest(m) /\ st[m].plugin = st[k].plugin
                                 /\ IF st[k].restart = "backoff" THEN m = k /\ ~Loading(m)
                                    ELSE Loading(m) /\ st[m].parent = k
    <3>1. CASE st[k].restart = "backoff"
      BY <3>1 DEF IInv, Core, Lineage
    <3>2. CASE st[k].restart # "backoff"
      <4>1. PICK m \in States : st[m].parent = k /\ Loading(m)
        BY <2>2, <2>4, <3>2 DEF IInv, Core, LoadsUnderWay
      <4>2. k # 0
        BY ElementsTyped DEF IInv, Core
      <4>3. st[m].plugin = st[k].plugin /\ Latest(m)
        BY <4>1, <4>2 DEF IInv, Core, Lineage
      <4> QED
        BY <3>2, <4>1, <4>3
    <3> QED
      BY <3>1, <3>2
  <2>5. \A j, k \in States :
          j # k /\ st[j].restart # "no" /\ st[k].restart # "no" => st[j].plugin # st[k].plugin
    <3> SUFFICES ASSUME NEW j \in States, NEW k \in States, st[j].restart # "no", st[k].restart # "no",
                        st[j].plugin = st[k].plugin
                 PROVE  j = k
      OBVIOUS
    <3>1. PICK m \in States : /\ Latest(m) /\ st[m].plugin = st[j].plugin
                              /\ IF st[j].restart = "backoff" THEN m = j /\ ~Loading(m)
                                 ELSE Loading(m) /\ st[m].parent = j
      BY <2>4
    <3>2. PICK n \in States : /\ Latest(n) /\ st[n].plugin = st[k].plugin
                              /\ IF st[k].restart = "backoff" THEN n = k /\ ~Loading(n)
                                 ELSE Loading(n) /\ st[n].parent = k
      BY <2>4
    <3>3. m = n
      BY <3>1, <3>2, OneLatest DEF IInv, Core
    <3> QED
      BY <3>1, <3>2, <3>3
  <2> QED
    BY <2>1, <2>5 DEF OneRestart
<1> QED
  BY <1>1, SandboxInvariant, PTL

\* The types; in particular a state's crashes and the workers made stay within what the
\* loads allow (sandbox-manager.ts, worker-pool.ts).
THEOREM SandboxTyped == Steps => []TypeOK
<1>1. IInv => TypeOK
  <2> SUFFICES ASSUME IInv PROVE TypeOK
    OBVIOUS
  <2>1. Typed
    BY DEF IInv, Core
  <2>2. /\ 1..spawned \subseteq Workers /\ alive \subseteq Workers /\ spawned \in Nat
        /\ States = 1..Len(st) /\ Len(st) \in Nat /\ Len(st) <= MaxLoads
        /\ PoolSize \in Nat /\ MaxLoads \in Nat
    BY <2>1, WorkersFit, Constants
  <2>3. spawned \in 0..(MaxLoads + 2 * PoolSize) /\ pool \in 0..pools /\ pools \in 0..2
    <3>1. /\ pool \in {0, pools} /\ pools \in {0, 1, 2} /\ spawned <= Len(st) + 2 * PoolSize
      BY <2>1, <2>2 DEF Typed, Numbered
    <3> QED
      BY <2>2, <3>1
  <2>4. Msgs \subseteq Messages
    BY <2>2 DEF Msgs, Messages
  <2>5. hooks \in [Workers -> Plugins \cup {None}] /\ inbox \in [Workers -> Seq(Messages)]
    <3>1. \A w \in Workers : inbox[w] \in Seq(Messages)
      <4> TAKE w \in Workers
      <4>1. inbox[w] \in Seq(Msgs)
        BY <2>1 DEF Typed, WorkersTyped
      <4> QED
        BY <2>4, <4>1
    <3> QED
      BY <2>1, <3>1 DEF Typed, WorkersTyped
  <2>6. doing \subseteq [w : alive, m : Messages, code : Plugins \cup {None}]
    BY <2>1, <2>4 DEF Typed, WorkersTyped
  <2>7. idle \in Seq(Workers) /\ busy \in [Plugins -> Workers \cup {0}]
    <3>1. idle \in Seq(1..spawned) /\ busy \in [Plugins -> 0..spawned]
      BY <2>1 DEF Typed, PoolTyped
    <3>2. 0..spawned \subseteq Workers \cup {0}
      BY <2>2
    <3> QED
      BY <2>2, <3>1, <3>2
  <2>8. st \in Seq(States_) /\ Len(st) <= MaxLoads /\ reg \in [Plugins -> {0} \cup States]
    <3>1. \A k \in 1..Len(st) : st[k] \in States_
      <4> TAKE k \in 1..Len(st)
      <4>1. st[k] \in Records /\ st[k].crashes \in Nat /\ st[k].crashes <= k /\ k <= MaxLoads /\ k \in Nat
        BY <2>1, <2>2, ElementsTyped
      <4>2. st[k].crashes \in 0..(MaxLoads + 1)
        BY <2>2, <4>1
      <4> QED
        BY <4>1, <4>2 DEF Records, States_
    <3>2. st \in Seq(Records)
      BY <2>1 DEF Typed, StatesTyped
    <3>3. st \in Seq(States_)
      BY <3>1, <3>2
    <3> QED
      BY <2>1, <2>2, <3>3 DEF Typed, StatesTyped
  <2>9. closings \subseteq [s : States, w : Workers \cup {0}, pool : 0..pools,
                            acked : BOOLEAN, by : {"load", "dispose", "all"}]
    <3>1. \A c \in closings : c \in Closings /\ c.pool <= pools
      BY <2>1 DEF Typed, WaitsTyped
    <3>2. pools \in Nat
      BY <2>3
    <3> QED
      BY <3>1, <3>2 DEF Closings
  <2> QED
    BY <2>1, <2>2, <2>3, <2>5, <2>6, <2>7, <2>8, <2>9 DEF TypeOK, Typed, WaitsTyped, RestTyped
<1> QED
  BY <1>1, SandboxInvariant, PTL

\* Until the plugins are disposed of, a worker of the pool is idle or has one plugin,
\* and the worker of a registered plugin is no other's (worker-pool.ts, acquire and
\* release; sandbox-manager.ts, loadInSandbox).
THEOREM SandboxOneOwner == Steps => []OneOwner
<1>1. IInv => OneOwner
  <2> SUFFICES ASSUME IInv, stage \in {"loading", "up"} PROVE OneOwner
    BY DEF OneOwner
  <2>1. Typed /\ Owned
    BY DEF IInv, Core
  <2>2. ASSUME NEW p \in Plugins, reg[p] # 0, NEW q \in Plugins \ {p}
        PROVE  busy[q] # st[reg[p]].worker
    <3>1. reg[p] \in States /\ st[reg[p]].worker \in Workers /\ st[reg[p]].plugin = p
      <4>1. stage # "exited"
        OBVIOUS
      <4> QED
        BY <2>1, <2>2, <4>1, ElementsTyped DEF Typed, StatesTyped, IInv, Core, Safe, Registry
    <3>2. st[reg[p]].worker # 0
      BY <3>1, Constants DEF Workers
    <3>3. CASE Pooled(p)
      BY <2>1, <2>2, <3>2, <3>3 DEF Owned
    <3>4. CASE ~Pooled(p)
      BY <2>1, <2>2, <3>1, <3>4 DEF Owned
    <3> QED
      BY <3>3, <3>4
  <2> QED
    BY <2>1, <2>2 DEF Owned, OneOwner
<1> QED
  BY <1>1, SandboxInvariant, PTL

\* A plugin is restarted at most maxRestarts times in a row, unless it crashed in a
\* worker whose load had not succeeded (sandbox-manager.ts, handleWorkerCrash).
THEOREM SandboxRestartsAreBounded == Steps => []RestartsAreBounded
<1>1. IInv => RestartsAreBounded
  <2> SUFFICES ASSUME IInv, NEW j \in States, st[j].restart = "backoff", st[j].plugin \notin diedUnloaded
               PROVE  streak[st[j].plugin] <= MaxRestarts
    BY DEF RestartsAreBounded
  <2>1. st[j].crashes <= MaxRestarts /\ st[j].load = "loaded" /\ Latest(j)
    BY DEF IInv, Core, Budget, Lineage
  <2>2. streak[st[j].plugin] <= st[j].crashes
    BY <2>1 DEF IInv, Budget
  <2>3. st[j].plugin \in Plugins /\ st[j].crashes \in Nat
    BY ElementsTyped DEF IInv, Core
  <2>4. streak[st[j].plugin] \in Nat
    BY <2>3 DEF IInv, Core, Typed, RestTyped
  <2> QED
    BY <2>1, <2>2, <2>3, <2>4, Constants
<1> QED
  BY <1>1, SandboxInvariant, PTL

-----------------------------------------------------------------------------
(* What runs in a worker. *)

\* Nothing in worker w is to load a plugin or to reset it.
AtRest(w) ==
    /\ \A k \in DOMAIN inbox[w] : inbox[w][k].kind = "tool"
    /\ \A d \in doing : d.w = w => d.m.kind = "tool"

\* The states that are the last their worker was taken for.
Tenants == {i \in States : \A k \in States : st[k].worker = st[i].worker => k <= i}

\* A worker has the hooks of a plugin whose last state has it, and is to load no other.
Copies ==
    /\ \A w \in Workers :
          /\ w \notin alive => hooks[w] = None /\ inbox[w] = <<>>
          /\ hooks[w] # None =>
                \E i \in States : Latest(i) /\ st[i].plugin = hooks[w] /\ st[i].worker = w
          /\ \A k \in DOMAIN inbox[w] : inbox[w][k].kind = "init" =>
                Latest(inbox[w][k].s) /\ st[inbox[w][k].s].worker = w
    /\ \A d \in doing : d.m.kind = "init" => Latest(d.m.s) /\ st[d.m.s].worker = d.w

\* At most one message to load or to reset is in worker w, and is for its tenant.
OneTask(w) ==
    /\ \A k, n \in DOMAIN inbox[w] : inbox[w][k].kind # "tool" /\ inbox[w][n].kind # "tool" => k = n
    /\ \A d, e \in doing : d.w = w /\ e.w = w /\ d.m.kind # "tool" /\ e.m.kind # "tool" => d = e
    /\ \A k \in DOMAIN inbox[w], d \in doing :
          d.w = w => inbox[w][k].kind = "tool" \/ d.m.kind = "tool"
    /\ \A k \in DOMAIN inbox[w] : inbox[w][k].kind # "tool" => inbox[w][k].s \in Tenants
    /\ \A d \in doing : d.w = w /\ d.m.kind # "tool" => d.m.s \in Tenants

\* A call of an earlier tenant waits before the load of the next one and finds no hooks.
CallsHome(w) ==
    /\ \A k \in DOMAIN inbox[w] :
          inbox[w][k].kind = "tool" /\ inbox[w][k].s \notin Tenants =>
              hooks[w] = None /\ \E n \in DOMAIN inbox[w] : n > k /\ inbox[w][n].kind # "tool"
    /\ \A d \in doing : d.w = w /\ d.m.kind = "tool" => d.code = st[d.m.s].plugin

\* Who has worker w, and that nothing of others is left in it.
Tenancy(w) ==
    /\ OneTask(w) /\ CallsHome(w)
    /\ \A i \in States : st[i].worker = w /\ i \in Tenants /\ hooks[w] # None => hooks[w] = st[i].plugin
    /\ \A i \in States : st[i].worker = w /\ st[i].load = "loaded" /\ w \in alive =>
          hooks[w] = st[i].plugin /\ AtRest(w)
    /\ \A c \in closings : c.pool # 0 /\ c.w = w /\ c.acked => hooks[w] = None /\ AtRest(w)
    /\ (\E k \in DOMAIN idle : idle[k] = w) => hooks[w] = None /\ AtRest(w)

\* Until the plugins are disposed of.
Live == stage \in {"loading", "up"}

\* All that has come to a worker was sent by states it was taken for, the last of them is
\* the registered one, and unless a reset was not waited for the worker is its alone.
Home ==
    Live =>
        /\ \A w \in Workers : \A k \in DOMAIN inbox[w] : st[inbox[w][k].s].worker = w
        /\ \A d \in doing : st[d.m.s].worker = d.w
        /\ \A p \in Plugins : reg[p] # 0 => reg[p] \in Tenants
        /\ \A w \in Workers \ unreset : Tenancy(w)

-----------------------------------------------------------------------------
(* Steps that make no state of a plugin, by what they do to the workers. *)

\* A step that makes no state of a plugin.
SameTenants ==
    /\ States' = States
    /\ \A k \in States : st'[k].plugin = st[k].plugin /\ st'[k].worker = st[k].worker

LEMMA TenantsStay ==
    ASSUME SameTenants
    PROVE  Tenants' = Tenants /\ \A k \in States : Latest(k)' <=> Latest(k)
BY DEF SameTenants, Tenants, Latest

\* A message of a worker was there before, is a call or is a reset.
LEMMA CopiesKept ==
    ASSUME Typed, Copies, SameTenants,
           \A w \in Workers : w \notin alive' => hooks'[w] = None /\ inbox'[w] = <<>>,
           \A w \in Workers :
              \/ hooks'[w] \in {None, hooks[w]}
              \/ \E d \in doing : d.m.kind = "init" /\ d.w = w /\ hooks'[w] = st[d.m.s].plugin,
           \A w \in Workers : \A k \in DOMAIN inbox'[w] : inbox'[w][k].kind = "init" =>
              \E n \in DOMAIN inbox[w] : inbox[w][n] = inbox'[w][k],
           \A d \in doing' : d.m.kind = "init" =>
              d \in doing \/ (d.w \in Workers /\ \E n \in DOMAIN inbox[d.w] : inbox[d.w][n] = d.m)
    PROVE  Copies'
<1>1. \A w \in Workers : inbox[w] \in Seq(Msgs)
  BY DEF Typed, WorkersTyped
<1>2. \A d \in doing : d.m.s \in States /\ d.w \in Workers
  BY WorkersFit DEF Typed, WorkersTyped, Msgs
<1>3. ASSUME NEW w \in Workers, NEW k \in DOMAIN inbox[w] PROVE inbox[w][k].s \in States
  <2>1. inbox[w][k] \in Msgs
    BY <1>1
  <2> QED
    BY <2>1 DEF Msgs
<1>4. ASSUME NEW w \in Workers, hooks'[w] # None
      PROVE  \E i \in States : Latest(i)' /\ st'[i].plugin = hooks'[w] /\ st'[i].worker = w
  <2>1. CASE hooks'[w] = hooks[w]
    <3>1. PICK i \in States : Latest(i) /\ st[i].plugin = hooks[w] /\ st[i].worker = w
      BY <1>4, <2>1 DEF Copies
    <3> QED
      BY <2>1, <3>1, TenantsStay DEF SameTenants
  <2>2. CASE \E d \in doing : d.m.kind = "init" /\ d.w = w /\ hooks'[w] = st[d.m.s].plugin
    <3>1. PICK d \in doing : d.m.kind = "init" /\ d.w = w /\ hooks'[w] = st[d.m.s].plugin
      BY <2>2
    <3>2. d.m.s \in States /\ Latest(d.m.s) /\ st[d.m.s].worker = w
      BY <1>2, <3>1 DEF Copies
    <3> QED
      BY <3>1, <3>2, TenantsStay DEF SameTenants
  <2> QED
    BY <1>4, <2>1, <2>2
<1>5. ASSUME NEW w \in Workers, NEW k \in DOMAIN inbox'[w], inbox'[w][k].kind = "init"
      PROVE  \E i \in States : i = inbox'[w][k].s /\ Latest(i)' /\ st'[i].worker = w
  <2>1. PICK n \in DOMAIN inbox[w] : inbox[w][n] = inbox'[w][k]
    BY <1>5
  <2>2. PICK i : i = inbox[w][n].s
    OBVIOUS
  <2>3. i \in States /\ Latest(i) /\ st[i].worker = w
    BY <1>3, <1>5, <2>1, <2>2 DEF Copies
  <2>4. Latest(i)' /\ st'[i].worker = w
    BY <2>3, TenantsStay DEF SameTenants
  <2> QED
    BY <2>1, <2>2, <2>3, <2>4
<1>6. ASSUME NEW d \in doing', d.m.kind = "init"
      PROVE  Latest(d.m.s)' /\ st'[d.m.s].worker = d.w
  <2>1. d.m.s \in States /\ Latest(d.m.s) /\ st[d.m.s].worker = d.w
    BY <1>2, <1>3, <1>6 DEF Copies
  <2> QED
    BY <2>1, TenantsStay DEF SameTenants
<1>7. \A w \in Workers : \A k \in DOMAIN inbox'[w] : inbox'[w][k].kind = "init" =>
          Latest(inbox[w][k].s)' /\ st'[inbox'[w][k].s].worker = w
  BY <1>5 DEF Latest
<1> QED
  BY <1>4, <1>6, <1>7 DEF Copies, SameTenants

\* What stays of worker w when a step is about another, and of the states it was taken for.
Untouched(w) ==
    /\ hooks'[w] = hooks[w] /\ inbox'[w] = inbox[w]
    /\ \A d \in doing' : d.w = w => d \in doing
    /\ w \in alive' => w \in alive
    /\ (\E k \in DOMAIN idle' : idle'[k] = w) =>
          \/ \E k \in DOMAIN idle : idle[k] = w
          \/ \E b \in closings : b.pool # 0 /\ b.w = w /\ b.acked
    /\ \A c \in closings' : c.pool # 0 /\ c.w = w /\ c.acked =>
          \E b \in closings : b.pool # 0 /\ b.w = w /\ b.acked
    /\ \A i \in States :
          /\ i \in States' /\ st'[i].plugin = st[i].plugin /\ st'[i].worker = st[i].worker
          /\ st[i].worker = w /\ st'[i].load = "loaded" => st[i].load = "loaded"
    /\ \A i \in States' \ States : st'[i].worker # w

\* What has come to worker w is for states that it was taken for.
Addressed(w) ==
    /\ \A k \in DOMAIN inbox[w] : inbox[w][k].s \in States /\ st[inbox[w][k].s].worker = w
    /\ \A d \in doing : d.w = w => d.m.s \in States /\ st[d.m.s].worker = w

LEMMA TenancyKept ==
    ASSUME NEW w \in Workers, Tenancy(w), Addressed(w), Untouched(w)
    PROVE  Tenancy(w)'
<1>1. \A i \in States : st[i].worker = w => (i \in Tenants' <=> i \in Tenants)
  BY DEF Untouched, Tenants
<1>2. hooks'[w] = hooks[w] /\ inbox'[w] = inbox[w] /\ \A d \in doing' : d.w = w => d \in doing
  BY DEF Untouched
<1>3. OneTask(w)'
  BY <1>1, <1>2 DEF Tenancy, OneTask, Addressed
<1>4. CallsHome(w)'
  <2>1. \A d \in doing' : d.w = w /\ d.m.kind = "tool" => d.code = st'[d.m.s].plugin
    BY <1>2 DEF Tenancy, CallsHome, Addressed, Untouched
  <2> QED
    BY <1>1, <1>2, <2>1 DEF Tenancy, CallsHome, Addressed
<1>5. AtRest(w) => AtRest(w)'
  BY <1>2 DEF AtRest
<1>6. \A i \in States' : st'[i].worker = w /\ i \in Tenants' /\ hooks'[w] # None => hooks'[w] = st'[i].plugin
  BY <1>1, <1>2 DEF Tenancy, Untouched
<1>7. \A i \in States' : st'[i].worker = w /\ st'[i].load = "loaded" /\ w \in alive' =>
          hooks'[w] = st'[i].plugin /\ AtRest(w)'
  BY <1>2, <1>5 DEF Tenancy, Untouched
<1>8. \A c \in closings' : c.pool # 0 /\ c.w = w /\ c.acked => hooks'[w] = None /\ AtRest(w)'
  BY <1>2, <1>5 DEF Tenancy, Untouched
<1>9. (\E k \in DOMAIN idle' : idle'[k] = w) => hooks'[w] = None /\ AtRest(w)'
  BY <1>2, <1>5 DEF Tenancy, Untouched
<1> QED
  BY <1>3, <1>4, <1>6, <1>7, <1>8, <1>9 DEF Tenancy

\* Nothing runs in a worker that has ended.
LEMMA TenancyEnds ==
    ASSUME NEW w \in Workers, w \notin alive', hooks'[w] = None, inbox'[w] = <<>>,
           \A d \in doing' : d.w # w
    PROVE  Tenancy(w)'
<1>1. DOMAIN inbox'[w] = {}
  OBVIOUS
<1>2. OneTask(w)' /\ CallsHome(w)' /\ AtRest(w)'
  BY <1>1 DEF OneTask, CallsHome, AtRest
<1> QED
  BY <1>2 DEF Tenancy

LEMMA HomeAddresses ==
    ASSUME Typed, Home, Live
    PROVE  \A w \in Workers : Addressed(w)
<1>1. \A w \in Workers : inbox[w] \in Seq(Msgs)
  BY DEF Typed, WorkersTyped
<1>2. \A d \in doing : d.m.s \in States
  BY DEF Typed, WorkersTyped, Msgs
<1>3. ASSUME NEW w \in Workers, NEW k \in DOMAIN inbox[w] PROVE inbox[w][k].s \in States
  <2>1. inbox[w][k] \in Msgs
    BY <1>1
  <2> QED
    BY <2>1 DEF Msgs
<1> QED
  BY <1>2, <1>3 DEF Home, Live, Addressed

\* A step that makes no state, and sends nothing to a worker but for its own.
LEMMA HomeKept ==
    ASSUME Typed, Live' => Home /\ Live, SameTenants,
           Live' => \A w \in Workers : \A k \in DOMAIN inbox'[w] :
              \/ \E n \in DOMAIN inbox[w] : inbox[w][n] = inbox'[w][k]
              \/ inbox'[w][k].s \in States /\ st[inbox'[w][k].s].worker = w,
           Live' => \A d \in doing' :
              d \in doing \/ (d.w \in Workers /\ \E n \in DOMAIN inbox[d.w] : inbox[d.w][n] = d.m),
           Live' => \A p \in Plugins : reg'[p] \in {0, reg[p]},
           Live' => \A w \in Workers \ unreset' : Tenancy(w)'
    PROVE  Home'
<1> SUFFICES ASSUME Live' PROVE Home'
  BY DEF Home, Live
<1>1. \A w \in Workers : Addressed(w)
  BY HomeAddresses
<1>2. \A w \in Workers : \A k \in DOMAIN inbox'[w] : st'[inbox'[w][k].s].worker = w
  BY <1>1 DEF Addressed, SameTenants
<1>3. \A d \in doing' : st'[d.m.s].worker = d.w
  <2>1. \A d \in doing : d.w \in Workers
    BY WorkersFit DEF Typed, WorkersTyped
  <2> QED
    BY <1>1, <2>1 DEF Addressed, SameTenants
<1>4. \A p \in Plugins : reg'[p] # 0 => reg'[p] \in Tenants'
  BY TenantsStay DEF Home, Live
<1> QED
  BY <1>2, <1>3, <1>4 DEF Home, Live

\* What is in the workers is theirs who have them.
Inside == Copies /\ Home

-----------------------------------------------------------------------------
(* What each step leaves in the workers. *)

LEMMA StartedInside ==
    ASSUME Typed, Inside, Started \/ Stop
    PROVE  Inside'
<1>1. UNCHANGED <<alive, hooks, inbox, doing, idle, closings, st, reg, unreset>> /\ States' = States
  BY DEF Started, Stop, workerVars, poolVars, managerVars, historyVars, States
<1>2. SameTenants
  BY <1>1 DEF SameTenants
<1>3. Copies'
  BY <1>1, <1>2, CopiesKept DEF Inside, Copies
<1>4. Live' => Live
  BY DEF Started, Stop, Live
<1>5. \A w \in Workers : Untouched(w)
  BY <1>1 DEF Untouched
<1>6. Live' => \A w \in Workers \ unreset' : Tenancy(w)'
  BY <1>1, <1>4, <1>5, TenancyKept, HomeAddresses DEF Inside, Home
<1>7. Home'
  BY <1>1, <1>2, <1>4, <1>6, HomeKept DEF Inside
<1> QED
  BY <1>3, <1>7 DEF Inside

\* An acknowledgement is of the release of the worker it comes from.
LEMMA Acknowledged ==
    ASSUME Typed, NEW w, Acknowledge(w)
    PROVE  \A c \in closings' : c \in closings \/ (c.w = w /\ c.pool # 0)
<1>1. closings' = {IF b.w = w /\ b.pool # 0 THEN [b EXCEPT !.acked = TRUE] ELSE b : b \in closings}
  BY DEF Acknowledge
<1>2. ASSUME NEW b \in closings, NEW c, c = [b EXCEPT !.acked = TRUE] PROVE c.w = b.w /\ c.pool = b.pool
  <2>1. b \in Closings
    BY DEF Typed, WaitsTyped
  <2> QED
    BY <1>2, <2>1 DEF Closings
<1> QED
  BY <1>1, <1>2

\* A worker begins its next message; the others go on.
LEMMA BeginInside ==
    ASSUME Typed, Inside, NEW w \in alive, Begin(w)
    PROVE  Inside'
<1>1. PICK q, m : q = inbox[w] /\ m = Head(q)
  OBVIOUS
<1>2. w \in Workers /\ q \in Seq(Msgs) /\ q # <<>>
  BY <1>1, WorkersFit DEF Begin, Typed, WorkersTyped
<1>3. /\ m = q[1] /\ 1 \in DOMAIN q /\ Tail(q) \in Seq(Msgs) /\ m \in Msgs
      /\ \A k \in DOMAIN Tail(q) : k + 1 \in DOMAIN q /\ Tail(q)[k] = q[k + 1] /\ k + 1 # 1
      /\ \A k \in DOMAIN q : k # 1 => k - 1 \in DOMAIN Tail(q) /\ Tail(q)[k - 1] = q[k]
  BY <1>1, <1>2, HeadTailProperties
<1>4. /\ UNCHANGED <<alive, hooks, idle, st, reg, stage, unreset>> /\ States' = States
      /\ inbox' = [inbox EXCEPT ![w] = Tail(q)]
  BY <1>1 DEF Begin, poolVars, loaderVars, historyVars, States
<1>5. inbox'[w] = Tail(q) /\ \A v \in Workers : v # w => inbox'[v] = inbox[v]
  BY <1>2, <1>4 DEF Typed, WorkersTyped
<1>6. \/ /\ m.kind = "init" \/ hooks[w] # None
         /\ doing' = doing \cup {[w |-> w, m |-> m, code |-> hooks[w]]} /\ closings' = closings
      \/ /\ m.kind = "tool" /\ hooks[w] = None
         /\ UNCHANGED <<doing, closings>>
      \/ /\ m.kind = "reset" /\ hooks[w] = None
         /\ Acknowledge(w) /\ doing' = doing
  BY <1>1 DEF Begin
<1>7. SameTenants /\ Tenants' = Tenants
  BY <1>4, TenantsStay DEF SameTenants
<1>8. \A v \in Workers : \A k \in DOMAIN inbox'[v] : \E n \in DOMAIN inbox[v] : inbox[v][n] = inbox'[v][k]
  <2> TAKE v \in Workers
  <2>1. CASE v = w
    BY <2>1, <1>1, <1>3, <1>5
  <2>2. CASE v # w
    BY <2>2, <1>5
  <2> QED
    BY <2>1, <2>2
<1>9. \A d \in doing' : d \in doing \/ (d.w \in Workers /\ \E n \in DOMAIN inbox[d.w] : inbox[d.w][n] = d.m)
  BY <1>1, <1>2, <1>3, <1>6
<1>10. Copies'
  <2>1. \A v \in Workers : v \notin alive' => hooks'[v] = None /\ inbox'[v] = <<>>
    BY <1>4, <1>5 DEF Inside, Copies
  <2>2. \A v \in Workers : hooks'[v] \in {None, hooks[v]}
    BY <1>4
  <2> QED
    BY <1>7, <1>8, <1>9, <2>1, <2>2, CopiesKept DEF Inside
<1>11. ASSUME NEW v \in Workers, v # w PROVE Untouched(v)
  <2>1. \A c \in closings' : c.pool # 0 /\ c.w = v /\ c.acked =>
          \E b \in closings : b.pool # 0 /\ b.w = v /\ b.acked
    BY <1>6, <1>11, Acknowledged
  <2> QED
    BY <1>4, <1>5, <1>6, <1>11, <2>1 DEF Untouched
<1>12. ASSUME Live, Tenancy(w), Addressed(w) PROVE Tenancy(w)'
  <2>1. \A d \in doing' : d.w = w => d \in doing \/ (d = [w |-> w, m |-> m, code |-> hooks[w]] /\ (m.kind = "init" \/ hooks[w] # None))
    BY <1>6
  <2>2. OneTask(w)'
    <3>1. \A k, n \in DOMAIN Tail(q) : Tail(q)[k].kind # "tool" /\ Tail(q)[n].kind # "tool" => k = n
      BY <1>1, <1>3, <1>12 DEF Tenancy, OneTask
    <3>2. \A d, e \in doing' : d.w = w /\ e.w = w /\ d.m.kind # "tool" /\ e.m.kind # "tool" => d = e
      BY <1>1, <1>3, <1>12, <2>1 DEF Tenancy, OneTask
    <3>3. \A k \in DOMAIN Tail(q), d \in doing' :
              d.w = w => Tail(q)[k].kind = "tool" \/ d.m.kind = "tool"
      BY <1>1, <1>3, <1>12, <2>1 DEF Tenancy, OneTask
    <3>4. \A k \in DOMAIN Tail(q) : Tail(q)[k].kind # "tool" => Tail(q)[k].s \in Tenants
      BY <1>1, <1>3, <1>12 DEF Tenancy, OneTask
    <3>5. \A d \in doing' : d.w = w /\ d.m.kind # "tool" => d.m.s \in Tenants
      BY <1>1, <1>3, <1>12, <2>1 DEF Tenancy, OneTask
    <3> QED
      BY <1>5, <1>7, <3>1, <3>2, <3>3, <3>4, <3>5 DEF OneTask
  <2>3. CallsHome(w)'
    <3>1. ASSUME NEW k \in DOMAIN Tail(q), Tail(q)[k].kind = "tool", Tail(q)[k].s \notin Tenants
          PROVE  hooks[w] = None /\ \E n \in DOMAIN Tail(q) : n > k /\ Tail(q)[n].kind # "tool"
      <4>1. k + 1 \in DOMAIN q /\ q[k + 1] = Tail(q)[k]
        BY <1>3
      <4>2. PICK n \in DOMAIN q : n > k + 1 /\ q[n].kind # "tool" /\ hooks[w] = None
        BY <1>1, <1>12, <3>1, <4>1 DEF Tenancy, CallsHome
      <4>3. k \in Nat /\ n \in Nat /\ n # 1 /\ k >= 1 /\ n - 1 > k
        BY <1>2, <1>3, <4>2
      <4>4. n - 1 \in DOMAIN Tail(q) /\ Tail(q)[n - 1] = q[n]
        BY <1>3, <4>3
      <4> QED
        BY <4>2, <4>3, <4>4
    <3>2. ASSUME NEW d \in doing', d.w = w, d.m.kind = "tool" PROVE d.code = st[d.m.s].plugin
      <4>1. CASE d \in doing
        BY <1>12, <3>2, <4>1 DEF Tenancy, CallsHome
      <4>2. CASE d \notin doing
        <5>1. d.m = m /\ d.code = hooks[w] /\ hooks[w] # None
          BY <2>1, <3>2, <4>2
        <5>2. m.s \in States /\ st[m.s].worker = w
          BY <1>1, <1>3, <1>12 DEF Addressed
        <5>3. m.s \in Tenants
          BY <1>1, <1>3, <1>12, <3>2, <5>1 DEF Tenancy, CallsHome
        <5> QED
          BY <1>12, <5>1, <5>2, <5>3 DEF Tenancy
      <4> QED
        BY <4>1, <4>2
    <3> QED
      <4>1. \A k \in DOMAIN inbox'[w] :
          inbox'[w][k].kind = "tool" /\ inbox'[w][k].s \notin Tenants' =>
              hooks'[w] = None /\ \E n \in DOMAIN inbox'[w] : n > k /\ inbox'[w][n].kind # "tool"
        <5>1. PICK t : t = Tail(q)
          OBVIOUS
        <5>2. \A k \in DOMAIN t : t[k].kind = "tool" /\ t[k].s \notin Tenants =>
                 hooks[w] = None /\ \E n \in DOMAIN t : n > k /\ t[n].kind # "tool"
          BY <3>1, <5>1
        <5>3. inbox'[w] = t /\ hooks' = hooks
          BY <1>4, <1>5, <5>1
        <5> QED
          BY <1>7, <5>2, <5>3
      <4>2. \A d \in doing' : d.w = w /\ d.m.kind = "tool" => d.code = st'[d.m.s].plugin
        BY <1>4, <3>2
      <4> QED
        BY <4>1, <4>2 DEF CallsHome
  <2>4. ASSUME AtRest(w) PROVE AtRest(w)'
    <3>1. \A k \in DOMAIN q : q[k].kind = "tool"
      BY <1>1, <2>4 DEF AtRest
    <3> QED
      BY <1>3, <1>5, <2>1, <2>4, <3>1 DEF AtRest
  <2>5. ASSUME m.kind = "reset", doing' = doing PROVE AtRest(w)'
    <3>1. \A k \in DOMAIN q : k # 1 => q[k].kind = "tool"
      BY <1>1, <1>3, <1>12, <2>5 DEF Tenancy, OneTask
    <3>2. \A d \in doing : d.w = w => d.m.kind = "tool"
      BY <1>1, <1>3, <1>12, <2>5 DEF Tenancy, OneTask
    <3> QED
      BY <1>3, <1>5, <2>5, <3>1, <3>2 DEF AtRest
  <2>6. \A c \in closings' : c.pool # 0 /\ c.w = w /\ c.acked => hooks'[w] = None /\ AtRest(w)'
    <3>1. CASE closings' = closings
      BY <1>4, <1>12, <2>4, <3>1 DEF Tenancy
    <3>2. CASE m.kind = "reset" /\ hooks[w] = None /\ doing' = doing
      BY <1>4, <2>5, <3>2
    <3> QED
      BY <1>6, <3>1, <3>2
  <2> QED
    BY <1>4, <1>7, <1>12, <2>2, <2>3, <2>4, <2>6 DEF Tenancy
<1>13. Live' => Live
  BY <1>4 DEF Live
<1>14. Live' => \A v \in Workers \ unreset' : Tenancy(v)'
  BY <1>2, <1>4, <1>11, <1>12, <1>13, TenancyKept, HomeAddresses DEF Inside, Home
<1>15. Home'
  BY <1>4, <1>7, <1>8, <1>9, <1>13, <1>14, HomeKept DEF Inside
<1> QED
  BY <1>10, <1>15 DEF Inside

\* A call that ends leaves everything; a reset leaves its worker empty.
LEMMA ToolEndsInside ==
    ASSUME Typed, Inside, NEW d \in doing, ToolEnds(d)
    PROVE  Inside'
<1>1. /\ UNCHANGED <<alive, hooks, inbox, closings, idle, st, reg, stage, unreset>> /\ States' = States
      /\ doing' \subseteq doing
  BY DEF ToolEnds, Ends, poolVars, historyVars, States
<1>2. SameTenants
  BY <1>1 DEF SameTenants
<1>3. Copies'
  BY <1>1, <1>2, CopiesKept DEF Inside, Copies
<1>4. Live' => Live
  BY <1>1 DEF Live
<1>5. \A w \in Workers : Untouched(w)
  BY <1>1 DEF Untouched
<1>6. Live' => \A w \in Workers \ unreset' : Tenancy(w)'
  BY <1>1, <1>4, <1>5, TenancyKept, HomeAddresses DEF Inside, Home
<1>7. Home'
  BY <1>1, <1>2, <1>4, <1>6, HomeKept DEF Inside
<1> QED
  BY <1>3, <1>7 DEF Inside

LEMMA ResetEndsInside ==
    ASSUME Typed, Inside, NEW d \in doing, ResetEnds(d)
    PROVE  Inside'
<1>0. PICK w : w = d.w
  OBVIOUS
<1>1. /\ UNCHANGED <<alive, inbox, idle, st, reg, stage, unreset>> /\ States' = States
      /\ doing' = doing \ {d} /\ d.m.kind = "reset" /\ w \in Workers /\ Acknowledge(w)
  BY <1>0, WorkersFit DEF ResetEnds, Ends, poolVars, historyVars, States, Typed, WorkersTyped
<1>2. hooks'[w] = None /\ \A v \in Workers : v # w => hooks'[v] = hooks[v]
  BY <1>0, <1>1 DEF ResetEnds, Typed, WorkersTyped
<1>3. SameTenants /\ Tenants' = Tenants
  BY <1>1, TenantsStay DEF SameTenants
<1>4. Copies'
  <2>1. \A v \in Workers : hooks'[v] \in {None, hooks[v]}
    BY <1>2
  <2>2. \A v \in Workers : v \notin alive' => hooks'[v] = None /\ inbox'[v] = <<>>
    BY <1>1, <2>1 DEF Inside, Copies
  <2> QED
    BY <1>1, <1>3, <2>1, <2>2, CopiesKept DEF Inside
<1>5. ASSUME NEW v \in Workers, v # w PROVE Untouched(v)
  <2>1. \A c \in closings' : c.pool # 0 /\ c.w = v /\ c.acked =>
          \E b \in closings : b.pool # 0 /\ b.w = v /\ b.acked
    BY <1>1, <1>5, Acknowledged
  <2> QED
    BY <1>1, <1>2, <1>5, <2>1 DEF Untouched
<1>6. ASSUME Tenancy(w), Addressed(w) PROVE Tenancy(w)'
  <2>1. /\ \A k \in DOMAIN inbox[w] : inbox[w][k].kind = "tool"
        /\ \A e \in doing' : e.w = w => e.m.kind = "tool"
    BY <1>0, <1>1, <1>6 DEF Tenancy, OneTask
  <2>2. AtRest(w)'
    BY <1>1, <2>1 DEF AtRest
  <2>3. OneTask(w)'
    BY <1>1, <2>1 DEF OneTask
  <2>4. CallsHome(w)'
    BY <1>1, <1>2, <1>3, <1>6 DEF Tenancy, CallsHome
  <2>5. ~AtRest(w)
    BY <1>0, <1>1 DEF AtRest
  <2> QED
    BY <1>1, <1>2, <1>6, <2>2, <2>3, <2>4, <2>5 DEF Tenancy
<1>7. Live' => Live
  BY <1>1 DEF Live
<1>8. Live' => \A v \in Workers \ unreset' : Tenancy(v)'
  BY <1>1, <1>5, <1>6, <1>7, TenancyKept, HomeAddresses DEF Inside, Home
<1>9. Home'
  BY <1>1, <1>3, <1>7, <1>8, HomeKept DEF Inside
<1> QED
  BY <1>4, <1>9 DEF Inside

\* Workers that end take with them what was in them, whatever their states become.
LEMMA GoneInside ==
    ASSUME Typed, Inside, NEW ws, Gone(ws), SameTenants,
           Live' => Live /\ unreset \subseteq unreset' /\ closings' \subseteq closings,
           Live' => \A w \in Workers \ unreset' : (\E k \in DOMAIN idle' : idle'[k] = w) =>
              \/ \E k \in DOMAIN idle : idle[k] = w
              \/ \E b \in closings : b.pool # 0 /\ b.w = w /\ b.acked,
           Live' => \A k \in States : st'[k].load = "loaded" => st[k].load = "loaded",
           Live' => \A p \in Plugins : reg'[p] \in {0, reg[p]}
    PROVE  Inside'
<1>1. /\ alive' = alive \ ws
      /\ doing' = {d \in doing : d.w \notin ws}
      /\ \A w \in Workers : hooks'[w] = IF w \in ws THEN None ELSE hooks[w]
      /\ \A w \in Workers : inbox'[w] = IF w \in ws THEN <<>> ELSE inbox[w]
  BY DEF Gone
<1>2. \A w \in Workers : w \notin alive' => hooks'[w] = None /\ inbox'[w] = <<>>
  BY <1>1 DEF Inside, Copies
<1>3. \A w \in Workers : \A k \in DOMAIN inbox'[w] : \E n \in DOMAIN inbox[w] : inbox[w][n] = inbox'[w][k]
  <2> TAKE w \in Workers
  <2>1. CASE w \in ws
    BY <1>1, <2>1
  <2>2. CASE w \notin ws
    BY <1>1, <2>2
  <2> QED
    BY <2>1, <2>2
<1>4. Copies'
  BY <1>1, <1>2, <1>3, CopiesKept DEF Inside
<1>5. ASSUME Live', NEW w \in Workers \ unreset', w \notin ws PROVE Untouched(w)
  BY <1>1, <1>5 DEF Untouched, SameTenants
<1>6. ASSUME NEW w \in Workers, w \in ws PROVE Tenancy(w)'
  BY <1>1, <1>6, TenancyEnds
<1>7. Live' => \A w \in Workers \ unreset' : Tenancy(w)'
  BY <1>5, <1>6, TenancyKept, HomeAddresses DEF Inside, Home
<1>8. Home'
  BY <1>1, <1>3, <1>7, HomeKept DEF Inside
<1> QED
  BY <1>4, <1>8 DEF Inside

LEMMA QuitInside ==
    ASSUME Typed, Inside, NEW w, Quit(w)
    PROVE  Inside'
<1>1. /\ UNCHANGED <<st, reg, closings, idle, stage, unreset>> /\ Gone({w}) /\ States' = States
  BY DEF Quit, poolVars, managerVars, loaderVars, historyVars, States
<1> QED
  BY <1>1, GoneInside DEF SameTenants, Live

LEMMA CrashInside ==
    ASSUME Typed, Safe, Inside, NEW w, NEW quiet \in BOOLEAN, Crash(w, quiet)
    PROVE  Inside'
<1>1. PICK V, next : V = Victims({w} \cap alive) /\ next = stage
  OBVIOUS
<1>2. Die({w}, quiet, next) /\ UNCHANGED <<idle, closings, unreset>> /\ Gone({w})
  BY <1>1 DEF Crash, Die, poolVars
<1>3. /\ Shaped /\ (stage' = stage \/ (stage' = "exited" /\ stage = "loading"))
      /\ LoadsEnd({i \in V : AwaitsInit(i)}, V, V)
      /\ \A p \in Plugins : reg'[p] \in {0, reg[p]}
  BY <1>1, <1>2, DieFacts
<1>4. \A k \in States : st'[k].load = "loaded" => st[k].load = "loaded"
  <2> TAKE k \in States
  <2>1. PICK r, i : r = (IF k \in V THEN Crashed(k, quiet) ELSE st[k]) /\ i = {n \in V : AwaitsInit(n)}
    OBVIOUS
  <2>2. st[k] \in Records
    BY ElementsTyped
  <2>3. PICK n : n = IF quiet /\ st[k].crashedBefore THEN 1 ELSE st[k].crashes + 1
    OBVIOUS
  <2>4. \/ r = st[k]
        \/ r = [st[k] EXCEPT !.crashes = n, !.crashedBefore = TRUE,
                             !.restarting = n <= MaxRestarts,
                             !.restart = IF n <= MaxRestarts THEN "backoff" ELSE "no"]
    BY <2>1, <2>3 DEF Crashed
  <2>5. r.load = st[k].load /\ DOMAIN r = DOMAIN st[k]
    BY <2>2, <2>4 DEF Records
  <2>6. st'[k] = [r EXCEPT !.load = IF k \in i THEN "failed" ELSE @,
                          !.restart = IF \E m \in i : (IF m \in V THEN Crashed(m, quiet) ELSE st[m]).parent = k
                                      THEN "no" ELSE @]
    <3>1. i \subseteq States
      BY <1>1, <2>1 DEF Victims
    <3> QED
      BY <1>1, <1>2, <2>1, <3>1 DEF Die, FailLoads
  <2>7. "load" \in DOMAIN r
    BY <2>2, <2>5 DEF Records
  <2> QED
    BY <2>5, <2>6, <2>7
<1>5. SameTenants
  BY <1>3 DEF Shaped, SameTenants
<1> QED
  BY <1>2, <1>3, <1>4, <1>5, GoneInside DEF Live

LEMMA StopPoolInside ==
    ASSUME Typed, Safe, Inside, NEW quiet \in BOOLEAN, StopPool(quiet)
    PROVE  Inside'
<1>1. PICK ws, next, V :
          /\ ws = {idle[k] : k \in DOMAIN idle} \cup ({busy[p] : p \in Plugins} \ {0})
          /\ next = "stopped" /\ V = Victims(ws \cap alive)
  OBVIOUS
<1>2. Die(ws, quiet, next) /\ Gone(ws) /\ stage = "closing"
  BY <1>1 DEF StopPool, PoolStops, Die
<1>3. Shaped /\ (stage' = next \/ (stage' = "exited" /\ stage = "loading"))
  BY <1>1, <1>2, DieFacts
<1>4. SameTenants /\ ~Live'
  BY <1>1, <1>3 DEF Shaped, SameTenants, Live
<1> QED
  BY <1>2, <1>4, GoneInside

LEMMA NoneGone ==
    ASSUME Typed, UNCHANGED <<alive, hooks, inbox, doing>>
    PROVE  Gone({})
BY DEF Typed, WorkersTyped, Gone

LEMMA RpcTimeoutInside ==
    ASSUME Typed, Inside, NEW r \in rpcs, RpcTimeout(r)
    PROVE  Inside'
<1>1. PICK I, next, states, entries :
          /\ I = {i \in {r.s} : r.call = 0} /\ next = stage /\ states = st /\ entries = reg
  OBVIOUS
<1>2. /\ UNCHANGED <<alive, hooks, inbox, doing, idle, closings, unreset>>
      /\ FailLoads(states, entries, I, next)
  BY <1>1 DEF RpcTimeout, workerVars, poolVars, historyVars
<1>3. DOMAIN states = States /\ \A k \in States : states[k] \in Records
  BY <1>1, ElementsTyped DEF States
<1>4. SameTenants /\ \A k \in States : st'[k].load = "loaded" => st[k].load = "loaded"
  BY <1>1, <1>2, <1>3, FailLoadsFacts DEF SameTenants
<1>5. /\ \A p \in Plugins : reg'[p] \in {0, reg[p]}
      /\ stage' \in {"exited", stage}
  BY <1>1, <1>2 DEF FailLoads
<1>6. Gone({})
  BY <1>2, NoneGone
<1> QED
  BY <1>2, <1>4, <1>5, <1>6, GoneInside DEF Live

LEMMA RestartRejectedInside ==
    ASSUME Typed, Inside, NEW j \in States, RestartRejected(j)
    PROVE  Inside'
<1>1. /\ UNCHANGED <<alive, hooks, inbox, doing, idle, closings, unreset, stage>>
      /\ st' = [st EXCEPT ![j].restart = "no"] /\ reg' = [reg EXCEPT ![st[j].plugin] = 0]
  BY DEF RestartRejected, workerVars, poolVars, historyVars, loaderVars
<1>2. States' = States
  BY <1>1 DEF States
<1>3. \A k \in States : /\ st'[k].plugin = st[k].plugin /\ st'[k].worker = st[k].worker
                        /\ st'[k].load = st[k].load
  <2> TAKE k \in States
  <2>1. st[k] \in Records /\ k \in DOMAIN st
    BY ElementsTyped DEF States
  <2> QED
    BY <1>1, <2>1 DEF Records
<1>4. \A p \in Plugins : reg'[p] \in {0, reg[p]}
  BY <1>1 DEF Typed, StatesTyped
<1>5. Gone({})
  BY <1>1, NoneGone
<1> QED
  BY <1>1, <1>2, <1>3, <1>4, <1>5, GoneInside DEF Live, SameTenants

\* A release that was acknowledged gives back an empty worker.
LEMMA CloseEndsInside ==
    ASSUME Typed, Inside, NEW c \in closings, CloseEnds(c)
    PROVE  Inside'
<1>1. PICK I, next, states, entries :
          /\ I = {i \in {c.s} : c.by = "load" \/ AwaitsInit(i)} /\ next = stage /\ states = st
          /\ entries = Without(reg, {c.s})
  OBVIOUS
<1>2. /\ FailLoads(states, entries, I, next) /\ closings' = closings \ {c}
      /\ unreset' = IF c.acked THEN unreset ELSE unreset \cup {c.w}
      /\ \/ UNCHANGED idle
         \/ c.pool # 0 /\ idle' = Append(idle, c.w)
      /\ \/ Gone({c.w})
         \/ UNCHANGED <<alive, hooks, inbox, doing>>
  BY <1>1 DEF CloseEnds
<1>3. DOMAIN states = States /\ \A k \in States : states[k] \in Records
  BY <1>1, ElementsTyped DEF States
<1>4. SameTenants /\ \A k \in States : st'[k].load = "loaded" => st[k].load = "loaded"
  BY <1>1, <1>2, <1>3, FailLoadsFacts DEF SameTenants
<1>5. /\ \A p \in Plugins : reg'[p] \in {0, reg[p]}
      /\ stage' \in {"exited", stage}
  BY <1>1, <1>2 DEF FailLoads, Without
<1>6. PICK ws : Gone(ws)
  BY <1>2, NoneGone
<1>7. \A w \in Workers \ unreset' : (\E k \in DOMAIN idle' : idle'[k] = w) =>
          \/ \E k \in DOMAIN idle : idle[k] = w
          \/ \E b \in closings : b.pool # 0 /\ b.w = w /\ b.acked
  <2>1. CASE idle' = idle
    BY <2>1
  <2>2. CASE c.pool # 0 /\ idle' = Append(idle, c.w)
    <3>1. idle \in Seq(1..spawned)
      BY DEF Typed, PoolTyped
    <3>2. \A k \in DOMAIN idle' : idle'[k] = c.w \/ (k \in DOMAIN idle /\ idle'[k] = idle[k])
      BY <2>2, <3>1
    <3> QED
      BY <1>2, <2>2, <3>2
  <2> QED
    BY <1>2, <2>1, <2>2
<1> QED
  BY <1>2, <1>4, <1>5, <1>6, <1>7, GoneInside DEF Live

\* The worker has the plugin's code, and no call of an earlier plugin waits in it.
LEMMA InitSucceedsInside ==
    ASSUME Typed, Inside, NEW d \in doing, InitSucceeds(d)
    PROVE  Inside'
<1>0. PICK w, i, j : w = d.w /\ i = d.m.s /\ j = st[i].parent
  OBVIOUS
<1>1. /\ UNCHANGED <<alive, inbox, closings, idle, reg, stage, unreset>>
      /\ doing' = doing \ {d} /\ d.m.kind = "init"
      /\ hooks' = [hooks EXCEPT ![w] = st[i].plugin]
  BY <1>0 DEF InitSucceeds, Ends, poolVars, historyVars
<1>2. w \in Workers /\ w \in alive /\ i \in States
  BY <1>0, WorkersFit DEF Typed, WorkersTyped, Msgs
<1>3. hooks'[w] = st[i].plugin /\ \A v \in Workers : v # w => hooks'[v] = hooks[v]
  BY <1>1, <1>2 DEF Typed, WorkersTyped
<1>4. /\ SameTenants
      /\ \A k \in States : st'[k].load = st[k].load \/ (k = i /\ st'[k].load = "loaded")
  <2>1. CASE st' = st
    BY <2>1 DEF SameTenants, States
  <2>2. CASE st' = [k \in States |->
                       [st[k] EXCEPT
                           !.load = IF k = i THEN "loaded" ELSE @,
                           !.restart = IF k = j THEN "no" ELSE @,
                           !.crashes = IF Inherits(k, j) THEN st[j].crashes ELSE @,
                           !.crashedBefore = @ \/ Inherits(k, j)]]
    <3>1. States' = States
      BY <2>2 DEF States
    <3>2. ASSUME NEW k \in States
          PROVE  /\ st'[k].plugin = st[k].plugin /\ st'[k].worker = st[k].worker
                 /\ st'[k].load = st[k].load \/ (k = i /\ st'[k].load = "loaded")
      <4>1. st[k] \in Records
        BY ElementsTyped
      <4>2. PICK a, b, c, e :
               st'[k] = [st[k] EXCEPT !.load = a, !.restart = b, !.crashes = c, !.crashedBefore = e]
               /\ a = IF k = i THEN "loaded" ELSE st[k].load
        BY <2>2
      <4> QED
        BY <4>1, <4>2 DEF Records
    <3> QED
      BY <3>1, <3>2 DEF SameTenants
  <2> QED
    BY <1>0, <2>1, <2>2 DEF InitSucceeds
<1>5. Tenants' = Tenants
  BY <1>4, TenantsStay
<1>6. Copies'
  <2>1. \A v \in Workers : \/ hooks'[v] \in {None, hooks[v]}
                           \/ \E e \in doing : e.m.kind = "init" /\ e.w = v /\ hooks'[v] = st[e.m.s].plugin
    BY <1>0, <1>1, <1>3
  <2>2. \A v \in Workers : v \notin alive' => hooks'[v] = None /\ inbox'[v] = <<>>
    BY <1>1, <1>2, <1>3 DEF Inside, Copies
  <2> QED
    BY <1>1, <1>4, <2>1, <2>2, CopiesKept DEF Inside
<1>7. ASSUME Addressed(w), NEW v \in Workers, v # w PROVE Untouched(v)
  <2>1. st[i].worker = w
    BY <1>0, <1>7 DEF Addressed
  <2> QED
    BY <1>1, <1>3, <1>4, <1>7, <2>1 DEF Untouched, SameTenants
<1>8. ASSUME Tenancy(w), Addressed(w) PROVE Tenancy(w)'
  <2>1. /\ \A k \in DOMAIN inbox[w] : inbox[w][k].kind = "tool"
        /\ \A e \in doing' : e.w = w => e.m.kind = "tool"
        /\ i \in Tenants /\ st[i].worker = w
    BY <1>0, <1>1, <1>8 DEF Tenancy, OneTask, Addressed
  <2>2. AtRest(w)'
    BY <1>1, <2>1 DEF AtRest
  <2>3. OneTask(w)'
    BY <1>1, <2>1 DEF OneTask
  <2>4. \A k \in DOMAIN inbox[w] : inbox[w][k].s \in Tenants
    BY <2>1, <1>8 DEF Tenancy, CallsHome
  <2>5. CallsHome(w)'
    <3>1. \A e \in doing' : e.w = w /\ e.m.kind = "tool" => e.code = st'[e.m.s].plugin
      BY <1>1, <1>4, <1>8 DEF Tenancy, CallsHome, Addressed, SameTenants
    <3> QED
      BY <1>1, <1>5, <2>4, <3>1 DEF CallsHome
  <2>6. ~AtRest(w)
    BY <1>0, <1>1 DEF AtRest
  <2>7. \A k \in States : st[k].worker = w /\ k \in Tenants => k = i
    <3> SUFFICES ASSUME NEW k \in States, st[k].worker = w, k \in Tenants PROVE k = i
      OBVIOUS
    <3>1. k <= i /\ i <= k
      BY <2>1 DEF Tenants
    <3> QED
      BY <3>1, <1>2, ElementsTyped
  <2>8. \A k \in States : st[k].worker = w /\ st[k].load = "loaded" => FALSE
    BY <1>2, <1>8, <2>6 DEF Tenancy
  <2>9. \A k \in States' : st'[k].worker = w /\ k \in Tenants' /\ hooks'[w] # None => hooks'[w] = st'[k].plugin
    BY <1>3, <1>4, <1>5, <2>7 DEF SameTenants
  <2>10. \A k \in States' : st'[k].worker = w /\ st'[k].load = "loaded" /\ w \in alive' =>
            hooks'[w] = st'[k].plugin /\ AtRest(w)'
    BY <1>3, <1>4, <2>2, <2>8 DEF SameTenants
  <2>11. \A c \in closings' : c.pool # 0 /\ c.w = w /\ c.acked => hooks'[w] = None /\ AtRest(w)'
    BY <1>1, <1>8, <2>6 DEF Tenancy
  <2>12. (\E k \in DOMAIN idle' : idle'[k] = w) => hooks'[w] = None /\ AtRest(w)'
    BY <1>1, <1>8, <2>6 DEF Tenancy
  <2> QED
    BY <2>3, <2>5, <2>9, <2>10, <2>11, <2>12 DEF Tenancy
<1>9. Live' => Live
  BY <1>1 DEF Live
<1>10. Live' => \A v \in Workers \ unreset' : Tenancy(v)'
  BY <1>1, <1>2, <1>7, <1>8, <1>9, TenancyKept, HomeAddresses DEF Inside, Home
<1>11. Home'
  BY <1>1, <1>4, <1>9, <1>10, HomeKept DEF Inside
<1> QED
  BY <1>6, <1>11 DEF Inside

\* A call goes to the worker that its plugin has.
LEMMA InvokeToolInside ==
    ASSUME Typed, Inside, NEW p \in Plugins, InvokeTool(p)
    PROVE  Inside'
<1>0. PICK i, w, m : i = reg[p] /\ w = st[i].worker /\ m = Message("tool", i, calls + 1)
  OBVIOUS
<1>1. /\ UNCHANGED <<alive, hooks, doing, closings, idle, st, reg, stage, unreset>> /\ States' = States
      /\ calls' = calls + 1 /\ Post({w}, Message("tool", i, calls')) /\ reg[p] # 0
  BY <1>0 DEF InvokeTool, poolVars, historyVars, States
<1>2. i \in States /\ w \in Workers /\ m.kind = "tool" /\ m.s = i
  BY <1>0, <1>1, ElementsTyped DEF Typed, StatesTyped, Message
<1>3. inbox' = [v \in Workers |-> IF v \in {w} \cap alive THEN Append(inbox[v], m) ELSE inbox[v]]
  BY <1>0, <1>1 DEF Post
<1>4. SameTenants /\ Tenants' = Tenants
  BY <1>1, TenantsStay DEF SameTenants
<1>5. PICK q : q = inbox[w]
  OBVIOUS
<1>6. /\ q \in Seq(Msgs) /\ Append(q, m)[Len(q) + 1] = m /\ DOMAIN Append(q, m) = 1..(Len(q) + 1)
      /\ DOMAIN q = 1..Len(q) /\ Len(q) \in Nat
      /\ \A k \in DOMAIN Append(q, m) : k \in DOMAIN q \/ k = Len(q) + 1
      /\ \A k \in DOMAIN q : k \in DOMAIN Append(q, m) /\ Append(q, m)[k] = q[k]
  <2>1. q \in Seq(Msgs)
    BY <1>2, <1>5 DEF Typed, WorkersTyped
  <2> QED
    BY <2>1
<1>7. \A v \in Workers : v # w \/ w \notin alive => inbox'[v] = inbox[v]
  BY <1>3
<1>8. w \in alive => inbox'[w] = Append(q, m)
  BY <1>2, <1>3, <1>5
<1>9. \A v \in Workers : \A k \in DOMAIN inbox'[v] :
          \/ \E n \in DOMAIN inbox[v] : inbox[v][n] = inbox'[v][k]
          \/ inbox'[v][k] = m /\ v = w
  <2> TAKE v \in Workers
  <2>1. CASE v = w /\ w \in alive
    BY <2>1, <1>5, <1>6, <1>8
  <2>2. CASE v # w \/ w \notin alive
    BY <2>2, <1>7
  <2> QED
    BY <2>1, <2>2
<1>10. Copies'
  <2>1. \A v \in Workers : v \notin alive' => hooks'[v] = None /\ inbox'[v] = <<>>
    BY <1>1, <1>7 DEF Inside, Copies
  <2>2. \A v \in Workers : \A k \in DOMAIN inbox'[v] : inbox'[v][k].kind = "init" =>
              \E n \in DOMAIN inbox[v] : inbox[v][n] = inbox'[v][k]
    BY <1>2, <1>9
  <2> QED
    BY <1>1, <1>4, <2>1, <2>2, CopiesKept DEF Inside
<1>11. ASSUME NEW v \in Workers, v # w \/ w \notin alive PROVE Untouched(v)
  BY <1>1, <1>7, <1>11 DEF Untouched
<1>12. ASSUME w \in alive, i \in Tenants, Tenancy(w), Addressed(w) PROVE Tenancy(w)'
  <2>1. PICK t : t = Append(q, m)
    OBVIOUS
  <2>2. inbox'[w] = t /\ inbox[w] = q
    BY <1>5, <1>8, <1>12, <2>1
  <2>3. /\ \A k \in DOMAIN t : t[k].kind # "tool" \/ t[k].s \notin Tenants => k \in DOMAIN q /\ t[k] = q[k]
        /\ \A k \in DOMAIN q : k \in DOMAIN t /\ t[k] = q[k]
    BY <1>2, <1>6, <1>12, <2>1
  <2>4. OneTask(w)'
    BY <1>1, <1>4, <1>12, <2>2, <2>3 DEF Tenancy, OneTask
  <2>5. CallsHome(w)'
    <3>1. \A k \in DOMAIN t : t[k].kind = "tool" /\ t[k].s \notin Tenants =>
              hooks[w] = None /\ \E n \in DOMAIN t : n > k /\ t[n].kind # "tool"
      BY <1>12, <2>2, <2>3 DEF Tenancy, CallsHome
    <3> QED
      BY <1>1, <1>4, <1>12, <2>2, <3>1 DEF Tenancy, CallsHome
  <2>6. AtRest(w) => AtRest(w)'
    BY <1>1, <2>2, <2>3 DEF AtRest
  <2> QED
    BY <1>1, <1>4, <1>12, <2>4, <2>5, <2>6 DEF Tenancy
<1>13. Live' => Live
  BY <1>1 DEF Live
<1>14. Live' => \A v \in Workers \ unreset' : Tenancy(v)'
  BY <1>0, <1>1, <1>11, <1>12, <1>13, TenancyKept, HomeAddresses DEF Inside, Home
<1>15. Live' => \A v \in Workers : \A k \in DOMAIN inbox'[v] :
              \/ \E n \in DOMAIN inbox[v] : inbox[v][n] = inbox'[v][k]
              \/ inbox'[v][k].s \in States /\ st[inbox'[v][k].s].worker = v
  BY <1>0, <1>2, <1>9
<1>16. Home'
  BY <1>1, <1>4, <1>13, <1>14, <1>15, HomeKept DEF Inside
<1> QED
  BY <1>10, <1>16 DEF Inside

\* What shutdownPlugin sends, and what then waits.
LEMMA ShutdownSends ==
    ASSUME Typed, NEW S \in SUBSET States, NEW by, ShutdownPlugins(S, by)
    PROVE  /\ SameTenants
           /\ \A k \in States : st'[k].load = "loaded" => st[k].load = "loaded"
           /\ \A w \in Workers :
                 \/ inbox'[w] = inbox[w]
                 \/ /\ w \in alive
                    /\ \E i \in S : \E n : /\ Release(i) /\ busy[st[i].plugin] = w
                                       /\ inbox'[w] = Append(inbox[w], Message("reset", i, n))
           /\ \A c \in closings' : c \in closings \/ ~(c.acked /\ c.w \in Workers)
<1>1. SameTenants /\ \A k \in States : st'[k].load = "loaded" => st[k].load = "loaded"
  <2>1. States' = States
    BY DEF ShutdownPlugins, States
  <2>2. ASSUME NEW k \in States
        PROVE  /\ st'[k].plugin = st[k].plugin /\ st'[k].worker = st[k].worker
               /\ st'[k].load = "loaded" => st[k].load = "loaded"
    <3>1. st[k] \in Records
      BY ElementsTyped
    <3>2. \/ st'[k] = st[k]
          \/ \E a : /\ st'[k] = [st[k] EXCEPT !.restarting = TRUE, !.load = a]
                    /\ a \in {"closing", st[k].load}
      BY DEF ShutdownPlugins
    <3> QED
      BY <3>1, <3>2 DEF Records
  <2> QED
    BY <2>1, <2>2 DEF SameTenants
<1>2. ASSUME NEW w \in Workers
      PROVE  \/ inbox'[w] = inbox[w]
             \/ /\ w \in alive
                /\ \E i \in S : \E n : /\ Release(i) /\ busy[st[i].plugin] = w
                                   /\ inbox'[w] = Append(inbox[w], Message("reset", i, n))
  <2> DEFINE mine(v) == {i \in S : Release(i) /\ busy[st[i].plugin] = v}
             n == IF by = "load" THEN 1 ELSE 0
             m(v) == Message("reset", CHOOSE i \in mine(v) : TRUE, n)
  <2>1. inbox' = [v \in Workers |-> IF v \in alive /\ mine(v) # {} THEN Append(inbox[v], m(v)) ELSE inbox[v]]
    BY DEF ShutdownPlugins
  <2>2. PICK i : i = CHOOSE j \in mine(w) : TRUE
    OBVIOUS
  <2>3. mine(w) # {} => i \in mine(w)
    BY <2>2
  <2>4. m(w) = Message("reset", i, n)
    BY <2>2
  <2>5. i \in mine(w) => i \in S /\ Release(i) /\ busy[st[i].plugin] = w
    OBVIOUS
  <2> HIDE DEF m, n, mine
  <2> QED
    BY <2>1, <2>3, <2>4, <2>5
<1>3. ASSUME NEW c \in closings', c \notin closings PROVE ~(c.acked /\ c.w \in Workers)
  <2>1. PICK i \in S : c = Closing(i, by)
    BY <1>3 DEF ShutdownPlugins
  <2>2. c.acked = (c.w = 0)
    BY <2>1 DEF Closing
  <2>3. 0 \notin Workers
    BY DEF Workers
  <2> QED
    BY <2>2, <2>3
<1> QED
  BY <1>1, <1>2, <1>3

LEMMA ShutdownCopies ==
    ASSUME Typed, Copies, NEW S \in SUBSET States, NEW by, ShutdownPlugins(S, by),
           UNCHANGED <<alive, hooks, doing>>
    PROVE  Copies'
<1>0. /\ SameTenants
      /\ \A w \in Workers :
            \/ inbox'[w] = inbox[w]
            \/ /\ w \in alive
               /\ \E i \in S : \E n : /\ Release(i) /\ busy[st[i].plugin] = w
                                     /\ inbox'[w] = Append(inbox[w], Message("reset", i, n))
  BY ShutdownSends
<1>1. ASSUME NEW w \in Workers, NEW k \in DOMAIN inbox'[w], inbox'[w][k].kind = "init"
      PROVE  \E n \in DOMAIN inbox[w] : inbox[w][n] = inbox'[w][k]
  <2>1. CASE inbox'[w] = inbox[w]
    BY <2>1
  <2>2. CASE \E i \in S : \E n : inbox'[w] = Append(inbox[w], Message("reset", i, n))
    <3>1. PICK i, n : inbox'[w] = Append(inbox[w], Message("reset", i, n))
      BY <2>2
    <3>2. inbox[w] \in Seq(Msgs)
      BY DEF Typed, WorkersTyped
    <3>3. Message("reset", i, n).kind = "reset"
      BY DEF Message
    <3> QED
      BY <1>1, <3>1, <3>2, <3>3
  <2> QED
    BY <1>0, <2>1, <2>2
<1>2. \A w \in Workers : w \notin alive' => hooks'[w] = None /\ inbox'[w] = <<>>
  BY <1>0 DEF Copies
<1> QED
  BY <1>0, <1>1, <1>2, CopiesKept

LEMMA DisposeInside ==
    ASSUME Typed, Inside, DisposeNext \/ ShutdownAll
    PROVE  Inside'
<1>1. PICK S, by : ShutdownPlugins(S, by) /\ S \subseteq States
  <2>1. CASE DisposeNext
    <3>1. PICK p : p = LoadOrder[turn + 1]
      OBVIOUS
    <3>2. turn + 1 \in DOMAIN LoadOrder /\ p \in Plugins
      BY <2>1, <3>1, Constants DEF DisposeNext, Typed, RestTyped, Plugins
    <3>3. {reg[p]} \ {0} \subseteq States
      BY <3>2 DEF Typed, StatesTyped
    <3> QED
      BY <2>1, <3>1, <3>3 DEF DisposeNext
  <2>2. CASE ShutdownAll
    <3>1. {reg[p] : p \in Plugins} \ {0} \subseteq States
      BY DEF Typed, StatesTyped
    <3> QED
      BY <2>2, <3>1 DEF ShutdownAll
  <2> QED
    BY <2>1, <2>2
<1>2. UNCHANGED <<alive, hooks, doing>> /\ ~Live'
  BY DEF DisposeNext, ShutdownAll, Live
<1> QED
  BY <1>1, <1>2, ShutdownCopies DEF Inside, Home, Live

\* A worker whose load failed is told to reset, if it is of the pool.
LEMMA InitFailsInside ==
    ASSUME Typed, Safe, Owned, Inside, NEW d \in doing, NEW kept \in BOOLEAN, InitFails(d, kept)
    PROVE  Inside'
<1>0. PICK w, i, q : w = d.w /\ i = d.m.s /\ q = inbox[w]
  OBVIOUS
<1>1. /\ UNCHANGED <<alive, idle, reg, stage, unreset>>
      /\ doing' = doing \ {d} /\ d.m.kind = "init"
      /\ hooks' = IF kept THEN [hooks EXCEPT ![w] = st[i].plugin] ELSE hooks
      /\ \/ AwaitsInit(i) /\ ShutdownPlugins({i}, "load")
         \/ UNCHANGED <<st, inbox, closings>>
  BY <1>0 DEF InitFails, Ends, poolVars, historyVars
<1>2. /\ w \in Workers /\ w \in alive /\ i \in States /\ q \in Seq(Msgs)
  BY <1>0, WorkersFit DEF Typed, WorkersTyped, Msgs
<1>3. hooks'[w] \in {st[i].plugin, hooks[w]} /\ \A v \in Workers : v # w => hooks'[v] = hooks[v]
  BY <1>1, <1>2 DEF Typed, WorkersTyped
<1>4. /\ SameTenants
      /\ \A k \in States : st'[k].load = "loaded" => st[k].load = "loaded"
      /\ \A c \in closings' : c \in closings \/ ~(c.acked /\ c.w \in Workers)
      /\ \A v \in Workers :
            \/ inbox'[v] = inbox[v]
            \/ /\ AwaitsInit(i) /\ Release(i) /\ busy[st[i].plugin] = v /\ v \in alive
               /\ \E n : inbox'[v] = Append(inbox[v], Message("reset", i, n))
  <2>1. CASE UNCHANGED <<st, inbox, closings>>
    BY <2>1 DEF SameTenants, States
  <2>2. CASE AwaitsInit(i) /\ ShutdownPlugins({i}, "load")
    <3>1. PICK S, by : S = {i} /\ by = "load"
      OBVIOUS
    <3>2. S \in SUBSET States /\ ShutdownPlugins(S, by)
      BY <1>2, <2>2, <3>1
    <3>3. /\ SameTenants
          /\ \A k \in States : st'[k].load = "loaded" => st[k].load = "loaded"
          /\ \A c \in closings' : c \in closings \/ ~(c.acked /\ c.w \in Workers)
          /\ \A v \in Workers :
                \/ inbox'[v] = inbox[v]
                \/ /\ v \in alive
                   /\ \E j \in S : \E n : /\ Release(j) /\ busy[st[j].plugin] = v
                                         /\ inbox'[v] = Append(inbox[v], Message("reset", j, n))
      BY <3>2, ShutdownSends
    <3> QED
      BY <2>2, <3>1, <3>3
  <2> QED
    BY <1>1, <2>1, <2>2
<1>5. Tenants' = Tenants
  BY <1>4, TenantsStay
<1>6. ASSUME NEW v \in Workers, NEW k \in DOMAIN inbox'[v]
      PROVE  \/ k \in DOMAIN inbox[v] /\ inbox[v][k] = inbox'[v][k]
             \/ inbox'[v][k].kind = "reset" /\ inbox'[v][k].s = i /\ k = Len(inbox[v]) + 1
                /\ AwaitsInit(i) /\ Release(i) /\ busy[st[i].plugin] = v
  <2>1. CASE inbox'[v] = inbox[v]
    BY <2>1
  <2>2. CASE AwaitsInit(i) /\ Release(i) /\ busy[st[i].plugin] = v
             /\ \E n : inbox'[v] = Append(inbox[v], Message("reset", i, n))
    <3>1. PICK n : inbox'[v] = Append(inbox[v], Message("reset", i, n))
      BY <2>2
    <3>2. inbox[v] \in Seq(Msgs)
      BY DEF Typed, WorkersTyped
    <3>3. Message("reset", i, n).kind = "reset" /\ Message("reset", i, n).s = i
      BY DEF Message
    <3> QED
      BY <2>2, <1>6, <3>1, <3>2, <3>3
  <2> QED
    BY <1>4, <2>1, <2>2
<1>7. Copies'
  <2>1. \A v \in Workers : \/ hooks'[v] \in {None, hooks[v]}
                           \/ \E e \in doing : e.m.kind = "init" /\ e.w = v /\ hooks'[v] = st[e.m.s].plugin
    BY <1>0, <1>1, <1>3
  <2>2. \A v \in Workers : v \notin alive' => hooks'[v] = None /\ inbox'[v] = <<>>
    BY <1>1, <1>2, <1>3, <1>4 DEF Inside, Copies
  <2>3. \A v \in Workers : \A k \in DOMAIN inbox'[v] : inbox'[v][k].kind = "init" =>
           \E n \in DOMAIN inbox[v] : inbox[v][n] = inbox'[v][k]
    BY <1>6
  <2> QED
    BY <1>1, <1>4, <2>1, <2>2, <2>3, CopiesKept DEF Inside
<1>8. ASSUME Live, Addressed(w), AwaitsInit(i), Release(i)
      PROVE  busy[st[i].plugin] = w
  <2>1. st[i].plugin \in Plugins /\ reg[st[i].plugin] = i /\ i # 0
    BY <1>2, <1>8, ElementsTyped DEF Safe, LoadsUnderWay
  <2>2. Pooled(st[i].plugin) /\ st[i].worker = w
    BY <1>0, <1>8 DEF Release, Addressed
  <2> QED
    BY <1>8, <2>1, <2>2 DEF Owned, Live
<1>9. ASSUME Live, Addressed(w), NEW v \in Workers, v # w PROVE Untouched(v)
  <2>1. inbox'[v] = inbox[v]
    BY <1>4, <1>8, <1>9
  <2> QED
    BY <1>1, <1>3, <1>4, <1>9, <2>1 DEF Untouched, SameTenants
<1>10. ASSUME Tenancy(w), Addressed(w) PROVE Tenancy(w)'
  <2>1. /\ \A k \in DOMAIN q : q[k].kind = "tool"
        /\ \A e \in doing' : e.w = w => e.m.kind = "tool"
        /\ i \in Tenants /\ st[i].worker = w
    BY <1>0, <1>1, <1>10 DEF Tenancy, OneTask, Addressed
  <2>2. \A k \in DOMAIN q : q[k].s \in Tenants
    BY <1>0, <2>1, <1>10 DEF Tenancy, CallsHome
  <2>3. \A k \in DOMAIN inbox'[w] :
           \/ inbox'[w][k].kind = "tool" /\ inbox'[w][k].s \in Tenants
           \/ inbox'[w][k].kind = "reset" /\ inbox'[w][k].s \in Tenants /\ k = Len(q) + 1
    BY <1>0, <1>2, <1>6, <2>1, <2>2
  <2>4. OneTask(w)'
    BY <1>5, <2>1, <2>3 DEF OneTask
  <2>5. CallsHome(w)'
    <3>1. \A e \in doing' : e.w = w /\ e.m.kind = "tool" => e.code = st'[e.m.s].plugin
      BY <1>1, <1>4, <1>10 DEF Tenancy, CallsHome, Addressed, SameTenants
    <3> QED
      BY <1>5, <2>3, <3>1 DEF CallsHome
  <2>6. ~AtRest(w)
    BY <1>0, <1>1 DEF AtRest
  <2>7. \A k \in States : st[k].worker = w /\ k \in Tenants => k = i
    <3> SUFFICES ASSUME NEW k \in States, st[k].worker = w, k \in Tenants PROVE k = i
      OBVIOUS
    <3>1. k <= i /\ i <= k
      BY <2>1 DEF Tenants
    <3> QED
      BY <3>1, <1>2, ElementsTyped
  <2>8. \A k \in States : st[k].worker = w /\ st[k].load = "loaded" => FALSE
    BY <1>2, <1>10, <2>6 DEF Tenancy
  <2>9. \A k \in States' : st'[k].worker = w /\ k \in Tenants' /\ hooks'[w] # None => hooks'[w] = st'[k].plugin
    BY <1>3, <1>4, <1>5, <1>10, <2>7 DEF SameTenants, Tenancy
  <2>10. \A k \in States' : st'[k].worker = w /\ st'[k].load = "loaded" => FALSE
    BY <1>4, <2>8 DEF SameTenants
  <2>11. \A c \in closings' : c.pool # 0 /\ c.w = w /\ c.acked => FALSE
    BY <1>2, <1>4, <1>10, <2>6 DEF Tenancy
  <2>12. (\E k \in DOMAIN idle' : idle'[k] = w) => FALSE
    BY <1>1, <1>10, <2>6 DEF Tenancy
  <2> QED
    BY <2>4, <2>5, <2>9, <2>10, <2>11, <2>12 DEF Tenancy
<1>11. Live' => Live
  BY <1>1 DEF Live
<1>12. Live' => \A v \in Workers \ unreset' : Tenancy(v)'
  BY <1>1, <1>2, <1>9, <1>10, <1>11, TenancyKept, HomeAddresses DEF Inside, Home
<1>13. Live' => \A v \in Workers : \A k \in DOMAIN inbox'[v] :
              \/ \E n \in DOMAIN inbox[v] : inbox[v][n] = inbox'[v][k]
              \/ inbox'[v][k].s \in States /\ st[inbox'[v][k].s].worker = v
  <2> SUFFICES ASSUME Live, NEW v \in Workers, NEW k \in DOMAIN inbox'[v],
                      inbox'[v][k].s = i, AwaitsInit(i), Release(i), busy[st[i].plugin] = v
               PROVE  st[i].worker = v
    BY <1>2, <1>6, <1>11
  <2>1. Addressed(w)
    BY <1>2, HomeAddresses DEF Inside
  <2> QED
    BY <1>0, <1>8, <2>1 DEF Addressed
<1>14. Home'
  BY <1>1, <1>4, <1>11, <1>12, <1>13, HomeKept DEF Inside
<1> QED
  BY <1>7, <1>14 DEF Inside

\* The plugin that is loaded has no worker that runs; the one it gets is empty.
LEMMA LoadCopies ==
    ASSUME Typed, Safe, Copies, NEW p \in Plugins, NEW parent, Made(p, parent), Cause(p, parent),
           stage # "exited"
    PROVE  Copies'
<1>1. PICK i, w, m : i = Len(st) + 1 /\ w = st'[i].worker /\ m = Message("init", i, 0)
  OBVIOUS
<1>2. /\ i \notin States /\ States' = States \cup {i} /\ st'[i].plugin = p
      /\ \A k \in States : k < i /\ st'[k].plugin = st[k].plugin /\ st'[k].worker = st[k].worker
      /\ Post({w}, m) /\ UNCHANGED <<hooks, doing>> /\ alive \subseteq alive'
  BY <1>1 DEF Made
<1>3. m.kind = "init" /\ m.s = i
  BY <1>1 DEF Message
<1>4. \A k \in States : Latest(k) /\ st[k].worker \in alive => Latest(k)'
  <2>1. \A k \in States : Latest(k) /\ st[k].worker \in alive => st[k].plugin # p
    BY CauseFacts
  <2> QED
    BY <1>2, <2>1 DEF Latest
<1>5. i \in States' /\ Latest(i)' /\ i \in Nat
  <2>1. i \in Nat /\ States \subseteq Nat
    BY <1>1, WorkersFit
  <2> QED
    BY <1>2, <2>1 DEF Latest
<1>6. inbox' = [v \in Workers |-> IF v \in {w} \cap alive' THEN Append(inbox[v], m) ELSE inbox[v]]
  BY <1>2 DEF Post
<1>7. ASSUME NEW v \in Workers, v \notin alive' PROVE hooks'[v] = None /\ inbox'[v] = <<>>
  <2>1. v \notin alive
    BY <1>2, <1>7
  <2> QED
    BY <1>2, <1>6, <1>7, <2>1 DEF Copies
<1>8. ASSUME NEW v \in Workers, hooks'[v] # None
      PROVE  \E k \in States' : Latest(k)' /\ st'[k].plugin = hooks'[v] /\ st'[k].worker = v
  <2>1. v \in alive /\ hooks'[v] = hooks[v]
    BY <1>2, <1>8 DEF Copies
  <2>2. PICK k \in States : Latest(k) /\ st[k].plugin = hooks[v] /\ st[k].worker = v
    BY <1>8, <2>1 DEF Copies
  <2>3. Latest(k)'
    BY <1>4, <2>1, <2>2
  <2> QED
    BY <1>2, <2>1, <2>2, <2>3
<1>9. ASSUME NEW v \in Workers, NEW k \in DOMAIN inbox'[v], inbox'[v][k].kind = "init"
      PROVE  \E n \in States' : n = inbox'[v][k].s /\ Latest(n)' /\ st'[n].worker = v
  <2>1. inbox[v] \in Seq(Msgs)
    BY DEF Typed, WorkersTyped
  <2>2. CASE k \in DOMAIN inbox[v] /\ inbox'[v][k] = inbox[v][k]
    <3>1. inbox[v][k] \in Msgs
      BY <2>1, <2>2
    <3>2. PICK n : n = inbox[v][k].s
      OBVIOUS
    <3>3. n \in States /\ Latest(n) /\ st[n].worker = v
      BY <1>9, <2>2, <3>1, <3>2 DEF Copies, Msgs
    <3>4. v \in alive
      BY <2>2 DEF Copies
    <3>5. Latest(n)'
      BY <1>4, <3>3, <3>4
    <3> QED
      BY <1>2, <2>2, <3>2, <3>3, <3>5
  <2>3. CASE v = w /\ inbox'[v][k] = m
    BY <1>1, <1>3, <1>5, <2>3
  <2>4. \/ k \in DOMAIN inbox[v] /\ inbox'[v][k] = inbox[v][k]
        \/ v = w /\ inbox'[v][k] = m
    <3>1. CASE v \in {w} \cap alive'
      <4>1. inbox'[v] = Append(inbox[v], m)
        BY <1>6, <3>1
      <4> QED
        BY <1>9, <2>1, <3>1, <4>1
    <3>2. CASE v \notin {w} \cap alive'
      BY <1>6, <1>9, <3>2
    <3> QED
      BY <3>1, <3>2
  <2> QED
    BY <2>2, <2>3, <2>4
<1>10. ASSUME NEW d \in doing', d.m.kind = "init"
       PROVE  Latest(d.m.s)' /\ st'[d.m.s].worker = d.w
  <2>1. d \in doing /\ d.m.s \in States /\ d.w \in alive
    BY <1>2 DEF Typed, WorkersTyped, Msgs
  <2>2. Latest(d.m.s) /\ st[d.m.s].worker = d.w
    BY <1>10, <2>1 DEF Copies
  <2> QED
    BY <1>2, <1>4, <2>1, <2>2
<1>11. \A v \in Workers : \A k \in DOMAIN inbox'[v] : inbox'[v][k].kind = "init" =>
          Latest(inbox[v][k].s)' /\ st'[inbox'[v][k].s].worker = v
  BY <1>9 DEF Latest
<1> QED
  BY <1>7, <1>8, <1>10, <1>11 DEF Copies

LEMMA LoadHome ==
    ASSUME Typed, Safe, Owned, Inside, NEW p \in Plugins, NEW parent, Made(p, parent), Live
    PROVE  Home'
<1>1. PICK i, w, m : i = Len(st) + 1 /\ w = st'[i].worker /\ m = Message("init", i, 0)
  OBVIOUS
<1>2. /\ i \notin States /\ States' = States \cup {i} /\ st'[i].plugin = p /\ st'[i].load = "init"
      /\ \A k \in States : /\ k < i /\ st'[k].plugin = st[k].plugin /\ st'[k].worker = st[k].worker
                           /\ st'[k].load = st[k].load
      /\ Post({w}, m) /\ UNCHANGED <<hooks, doing, closings, unreset>>
      /\ reg' = [reg EXCEPT ![p] = i]
      /\ spawned' \in Nat /\ spawned <= spawned' /\ w \in 1..spawned'
      /\ alive' = alive \cup ((spawned + 1)..spawned')
      /\ Pooled(p) => w = busy'[p]
      /\ ~Pooled(p) => idle' = idle /\ w > spawned
      /\ Pooled(p) /\ Apart(idle) => Taken(p)
  BY <1>1 DEF Made, historyVars
<1>3. m.kind = "init" /\ m.s = i
  BY <1>1 DEF Message
<1>4. /\ spawned \in Nat /\ alive \subseteq 1..spawned /\ i \in Nat
      /\ \A k \in DOMAIN idle : idle[k] \in 1..spawned
      /\ \A q \in Plugins : busy[q] \in 0..spawned
      /\ \A k \in States : st[k].worker \in 1..spawned
  BY <1>1, WorkersFit, ElementsTyped DEF Typed, Numbered, PoolTyped, StatesTyped, Workers
<1>5. /\ w > spawned \/ \E n \in DOMAIN idle : w = idle[n]
      /\ \A k \in DOMAIN idle' : /\ idle'[k] # w
                                 /\ idle'[k] > spawned \/ \E n \in DOMAIN idle : idle'[k] = idle[n]
  <2>1. Apart(idle)
    BY DEF Owned, Apart, Live
  <2>2. CASE Pooled(p)
    BY <1>2, <2>1, <2>2 DEF Taken
  <2>3. CASE ~Pooled(p)
    BY <1>2, <1>4, <2>3
  <2> QED
    BY <2>2, <2>3
<1>6. \A k \in States : k \in Tenants' <=> k \in Tenants /\ st[k].worker # w
  BY <1>1, <1>2, <1>4, WorkersFit DEF Tenants
<1>7. i \in Tenants'
  <2>1. \A k \in States' : k \in Nat /\ k <= i
    BY <1>2, <1>4, WorkersFit
  <2> QED
    BY <1>2, <2>1 DEF Tenants
<1>8. inbox' = [v \in Workers |-> IF v \in {w} \cap alive' THEN Append(inbox[v], m) ELSE inbox[v]]
  BY <1>2 DEF Post
<1>9. \A v \in Workers : Addressed(v)
  BY HomeAddresses DEF Inside
<1>10. \A q \in Plugins \ {p} : reg[q] # 0 => st[reg[q]].worker # w
  <2> SUFFICES ASSUME NEW q \in Plugins, reg[q] # 0, st[reg[q]].worker = w PROVE FALSE
    OBVIOUS
  <2>1. reg[q] \in States /\ st[reg[q]].plugin = q
    BY DEF Typed, StatesTyped, Safe, Registry
  <2>2. PICK n \in DOMAIN idle : w = idle[n]
    BY <1>4, <1>5, <2>1
  <2> QED
    BY <2>1, <2>2 DEF Owned, Live
<1>11. \A c \in closings : c.pool # 0 => c.w # w
  <2> SUFFICES ASSUME NEW c \in closings, c.pool # 0, c.w = w PROVE FALSE
    OBVIOUS
  <2>1. c.s \in States /\ busy[st[c.s].plugin] = w /\ st[c.s].plugin \in Plugins
    BY ElementsTyped DEF Owned, Live, Typed, WaitsTyped, Closings
  <2>2. PICK n \in DOMAIN idle : w = idle[n]
    BY <1>4, <1>5, <2>1
  <2> QED
    BY <2>1, <2>2 DEF Owned, Live
<1>12. ASSUME NEW v \in Workers, v # w, v <= spawned PROVE Untouched(v)
  <2>1. v \in alive' => v \in alive
    BY <1>2, <1>4, <1>12
  <2>2. inbox'[v] = inbox[v]
    BY <1>8, <1>12
  <2>3. (\E k \in DOMAIN idle' : idle'[k] = v) => \E k \in DOMAIN idle : idle[k] = v
    BY <1>4, <1>5, <1>12 DEF Workers
  <2>4. \A k \in States : /\ k \in States' /\ st'[k].plugin = st[k].plugin /\ st'[k].worker = st[k].worker
                          /\ st'[k].load = st[k].load
    BY <1>2
  <2>5. \A k \in States' \ States : st'[k].worker # v
    BY <1>1, <1>2, <1>12
  <2> QED
    BY <1>2, <2>1, <2>2, <2>3, <2>4, <2>5 DEF Untouched
<1>13. ASSUME NEW v \in Workers, v > spawned
       PROVE  /\ v \notin alive /\ hooks[v] = None /\ inbox[v] = <<>> /\ \A d \in doing : d.w # v
              /\ \A k \in States : st[k].worker # v
  <2>1. v \notin alive
    BY <1>4, <1>13 DEF Workers
  <2> QED
    BY <1>4, <1>13, <2>1 DEF Inside, Copies, Typed, WorkersTyped
<1>14. ASSUME NEW v \in Workers, v # w, v > spawned PROVE Tenancy(v)'
  <2>1. hooks'[v] = None /\ inbox'[v] = <<>> /\ \A d \in doing' : d.w # v
    BY <1>2, <1>8, <1>13, <1>14
  <2>2. \A k \in States' : st'[k].worker # v
    BY <1>1, <1>2, <1>13, <1>14
  <2>3. OneTask(v)' /\ CallsHome(v)' /\ AtRest(v)'
    BY <2>1 DEF OneTask, CallsHome, AtRest
  <2> QED
    BY <2>1, <2>2, <2>3 DEF Tenancy
<1>15. ASSUME w \in Workers, w \notin unreset PROVE Tenancy(w)'
  <2>1. CASE w \notin alive'
    <3>1. w \notin alive
      BY <1>2, <2>1
    <3>2. hooks'[w] = None /\ inbox'[w] = <<>> /\ \A d \in doing' : d.w # w
      BY <1>2, <1>8, <1>15, <2>1, <3>1 DEF Inside, Copies, Typed, WorkersTyped
    <3> QED
      BY <1>15, <2>1, <3>2, TenancyEnds
  <2>2. CASE w \in alive'
    <3>1. /\ hooks[w] = None /\ AtRest(w)
          /\ \A k \in States : st[k].worker = w /\ st[k].load = "loaded" => w \notin alive
          /\ \A d \in doing : d.w = w => d.code = st[d.m.s].plugin /\ d.m.kind = "tool" /\ d.m.s \in States
          /\ w > spawned => \A k \in States : st[k].worker # w
      <4>1. CASE w > spawned
        BY <1>13, <1>15, <4>1 DEF AtRest
      <4>2. CASE w <= spawned
        <5>1. \E n \in DOMAIN idle : idle[n] = w
          BY <1>2, <1>4, <1>5, <4>2
        <5>2. Tenancy(w) /\ hooks[w] = None /\ AtRest(w)
          BY <1>15, <5>1 DEF Inside, Home, Tenancy
        <5>3. \A k \in States : st[k].worker = w /\ st[k].load = "loaded" => w \notin alive
          BY <5>2, ElementsTyped, Constants DEF Tenancy
        <5>4. \A d \in doing : d.w = w => d.code = st[d.m.s].plugin /\ d.m.kind = "tool" /\ d.m.s \in States
          BY <1>9, <1>15, <5>2 DEF Tenancy, CallsHome, AtRest, Addressed
        <5>5. ~(w > spawned)
          BY <1>2, <1>4, <4>2
        <5> QED
          BY <5>2, <5>3, <5>4, <5>5
      <4> QED
        BY <1>2, <1>4, <4>1, <4>2
    <3>2. PICK q, t : q = inbox[w] /\ t = Append(q, m)
      OBVIOUS
    <3>3. inbox'[w] = t
      BY <1>8, <1>15, <2>2, <3>2
    <3>4. q \in Seq(Msgs)
      BY <1>15, <3>2 DEF Typed, WorkersTyped
    <3>5. /\ \A k \in DOMAIN t : (k < Len(q) + 1 /\ t[k].kind = "tool") \/ (k = Len(q) + 1 /\ t[k] = m)
          /\ Len(q) + 1 \in DOMAIN t /\ t[Len(q) + 1] = m
      <4>1. \A k \in DOMAIN q : q[k].kind = "tool"
        BY <3>1, <3>2 DEF AtRest
      <4>2. DOMAIN q = 1..Len(q) /\ Len(q) \in Nat
        BY <3>4
      <4>3. DOMAIN t = 1..(Len(q) + 1) /\ t[Len(q) + 1] = m /\ \A k \in 1..Len(q) : t[k] = q[k]
        BY <3>2, <3>4
      <4>4. \A k \in DOMAIN t : k \in 1..Len(q) \/ k = Len(q) + 1
        BY <4>2, <4>3
      <4>5. \A k \in 1..Len(q) : k < Len(q) + 1
        BY <4>2
      <4>6. Len(q) + 1 \in DOMAIN t
        BY <4>2, <4>3
      <4> QED
        BY <4>1, <4>2, <4>3, <4>4, <4>5, <4>6
    <3>6. \A d \in doing' : d.w = w => d.m.kind = "tool" /\ d.code = st'[d.m.s].plugin
      BY <1>2, <3>1
    <3>7. OneTask(w)'
      <4>1. \A k \in DOMAIN t : t[k].kind # "tool" => k = Len(q) + 1 /\ t[k].s \in Tenants'
        BY <1>3, <1>7, <3>5
      <4> QED
        BY <3>3, <3>6, <4>1 DEF OneTask
    <3>8. CallsHome(w)'
      <4>1. \A k \in DOMAIN t : t[k].kind = "tool" => \E n \in DOMAIN t : n > k /\ t[n].kind # "tool"
        <5>1. \A k \in DOMAIN t : t[k].kind = "tool" => Len(q) + 1 > k
          BY <1>3, <3>5
        <5>2. t[Len(q) + 1].kind # "tool"
          BY <1>3, <3>5
        <5> QED
          BY <3>5, <5>1, <5>2
      <4>2. hooks'[w] = None
        BY <1>2, <3>1
      <4> QED
        BY <3>3, <3>6, <4>1, <4>2 DEF CallsHome
    <3>9. \A k \in States' : ~(st'[k].worker = w /\ st'[k].load = "loaded" /\ w \in alive')
      BY <1>2, <1>4, <3>1
    <3>10. hooks'[w] = None /\ (\A k \in DOMAIN idle' : idle'[k] # w) /\ \A c \in closings' : c.pool # 0 => c.w # w
      BY <1>2, <1>5, <1>11, <3>1
    <3> QED
      BY <3>7, <3>8, <3>9, <3>10 DEF Tenancy
  <2> QED
    BY <2>1, <2>2
<1>16. \A v \in Workers \ unreset' : Tenancy(v)'
  <2> SUFFICES ASSUME NEW v \in Workers, v \notin unreset PROVE Tenancy(v)'
    BY <1>2
  <2>1. v \in Nat
    BY DEF Workers
  <2>2. Tenancy(v)
    BY DEF Inside, Home
  <2> QED
    BY <1>4, <1>9, <1>12, <1>14, <1>15, <2>1, <2>2, TenancyKept
<1>17. \A v \in Workers : \A k \in DOMAIN inbox'[v] : st'[inbox'[v][k].s].worker = v
  <2> SUFFICES ASSUME NEW v \in Workers, NEW k \in DOMAIN inbox'[v] PROVE st'[inbox'[v][k].s].worker = v
    OBVIOUS
  <2>1. inbox[v] \in Seq(Msgs)
    BY DEF Typed, WorkersTyped
  <2>2. \/ k \in DOMAIN inbox[v] /\ inbox'[v][k] = inbox[v][k]
        \/ v = w /\ inbox'[v][k] = m
    <3>1. CASE v \in {w} \cap alive'
      <4>1. inbox'[v] = Append(inbox[v], m)
        BY <1>8, <3>1
      <4> QED
        BY <2>1, <3>1, <4>1
    <3>2. CASE v \notin {w} \cap alive'
      BY <1>8, <3>2
    <3> QED
      BY <3>1, <3>2
  <2> QED
    BY <1>1, <1>2, <1>3, <1>9, <2>2 DEF Addressed
<1>18. \A d \in doing' : st'[d.m.s].worker = d.w
  <2>1. \A d \in doing : d.m.s \in States /\ st[d.m.s].worker = d.w
    BY DEF Inside, Home, Typed, WorkersTyped, Msgs
  <2> QED
    BY <1>2, <2>1
<1>19. \A q \in Plugins : reg'[q] # 0 => reg'[q] \in Tenants'
  <2> SUFFICES ASSUME NEW q \in Plugins, reg'[q] # 0 PROVE reg'[q] \in Tenants'
    OBVIOUS
  <2>1. CASE q = p
    BY <1>2, <1>7, <2>1 DEF Typed, StatesTyped
  <2>2. CASE q # p
    <3>1. reg'[q] = reg[q] /\ reg[q] \in States /\ reg[q] \in Tenants
      BY <1>2, <2>2 DEF Typed, StatesTyped, Inside, Home
    <3> QED
      BY <1>6, <1>10, <2>2, <3>1
  <2> QED
    BY <2>1, <2>2
<1> QED
  BY <1>16, <1>17, <1>18, <1>19 DEF Home

LEMMA LoadInside ==
    ASSUME Typed, Safe, Owned, Inside, NEW p \in Plugins, NEW parent \in {0} \cup States,
           LoadInSandbox(p, parent), Cause(p, parent), stage' = stage, stage # "exited"
    PROVE  Inside'
<1>1. Made(p, parent)
  BY LoadMakes
<1>2. Copies'
  BY <1>1, LoadCopies DEF Inside
<1>3. Home'
  BY <1>1, LoadHome DEF Home, Live
<1> QED
  BY <1>2, <1>3 DEF Inside

LEMMA LoadStepsInside ==
    ASSUME Typed, Safe, Owned, Inside, stage # "exited",
           LoadNext \/ \E j \in States : Restart(j)
    PROVE  Inside'
<1>1. ASSUME NEW j \in States, Restart(j) PROVE Inside'
  <2>1. PICK p : p = st[j].plugin
    OBVIOUS
  <2>2. p \in Plugins /\ j # 0 /\ LoadInSandbox(p, j) /\ UNCHANGED <<stage, turn>>
    BY <1>1, <2>1, ElementsTyped DEF Restart
  <2>3. Cause(p, j)
    BY <1>1, <2>1, <2>2 DEF Cause, Restart
  <2> QED
    BY <2>2, <2>3, LoadInside
<1>2. CASE LoadNext
  <2>1. /\ stage = "loading" /\ turn' = turn + 1 /\ turn + 1 \in DOMAIN LoadOrder
    BY <1>2, Constants DEF LoadNext, Typed, RestTyped
  <2>2. PICK p : p = LoadOrder[turn']
    OBVIOUS
  <2>3. p = LoadOrder[turn + 1] /\ p \in Plugins
    BY <2>1, <2>2 DEF Plugins
  <2>4. CASE LoadInSandbox(LoadOrder[turn'], 0) /\ UNCHANGED stage
    <3>1. LoadInSandbox(p, 0) /\ Cause(p, 0)
      BY <2>1, <2>2, <2>3, <2>4 DEF Cause
    <3> QED
      BY <2>3, <2>4, <3>1, LoadInside
  <2>5. CASE stage' = "exited" /\ UNCHANGED <<workerVars, poolVars, managerVars, calls, historyVars>>
    <3>1. /\ UNCHANGED <<alive, hooks, inbox, doing, st>> /\ States' = States /\ ~Live'
      BY <2>5 DEF workerVars, managerVars, States, Live
    <3>2. Gone({}) /\ SameTenants
      BY <3>1, NoneGone DEF SameTenants
    <3> QED
      BY <3>1, <3>2, GoneInside
  <2> QED
    BY <1>2, <2>4, <2>5 DEF LoadNext
<1> QED
  BY <1>1, <1>2

-----------------------------------------------------------------------------
(* The invariant of the workers, and what follows from it. *)

LEMMA InsideInit == Init => Inside
<1> SUFFICES ASSUME Init PROVE Inside
  OBVIOUS
<1>1. /\ alive = {} /\ hooks = [w \in Workers |-> None] /\ inbox = [w \in Workers |-> <<>>]
      /\ doing = {} /\ idle = <<>> /\ st = <<>> /\ reg = [p \in Plugins |-> 0] /\ closings = {}
  BY DEF Init
<1>2. States = {}
  BY <1>1, EmptySeq DEF States
<1>3. Copies
  BY <1>1 DEF Copies
<1>4. ASSUME NEW w \in Workers PROVE Tenancy(w)
  <2>1. OneTask(w) /\ CallsHome(w) /\ AtRest(w)
    BY <1>1 DEF OneTask, CallsHome, AtRest
  <2> QED
    BY <1>1, <1>2, <2>1 DEF Tenancy
<1>5. Home
  BY <1>1, <1>4 DEF Home
<1> QED
  BY <1>3, <1>5 DEF Inside

LEMMA InsideNext == IInv /\ Inside /\ [Next]_vars => Inside'
<1> SUFFICES ASSUME IInv, Inside, [Next]_vars PROVE Inside'
  OBVIOUS
<1>0. Typed /\ Owned
  BY DEF IInv, Core
<1>1. CASE UNCHANGED vars
  <2>1. /\ UNCHANGED <<alive, hooks, inbox, doing, idle, closings, st, reg, stage, unreset>>
        /\ States' = States
    BY <1>1 DEF vars, workerVars, poolVars, managerVars, loaderVars, historyVars, States
  <2>2. Gone({}) /\ SameTenants
    BY <1>0, <2>1, NoneGone DEF SameTenants
  <2> QED
    BY <1>0, <2>1, <2>2, GoneInside DEF Live
<1>2. CASE Next
  <2>1. stage # "exited" /\ Safe
    BY <1>2 DEF Next, IInv, Core
  <2>2. CASE Resume
    <3>1. ASSUME NEW c \in closings, CloseEnds(c) PROVE Inside'
      BY <1>0, <3>1, CloseEndsInside
    <3>2. ASSUME NEW quiet \in BOOLEAN, StopPool(quiet) PROVE Inside'
      BY <1>0, <2>1, <3>2, StopPoolInside
    <3> QED
      BY <2>2, <3>1, <3>2 DEF Resume
  <2>3. CASE WorkerStep
    <3>1. ASSUME NEW w \in alive, Begin(w) PROVE Inside'
      BY <1>0, <3>1, BeginInside
    <3>2. ASSUME NEW w \in alive, Quit(w) PROVE Inside'
      BY <1>0, <3>2, QuitInside
    <3>3. ASSUME NEW w \in alive, NEW quiet \in BOOLEAN, Crash(w, quiet) PROVE Inside'
      BY <1>0, <2>1, <3>3, CrashInside
    <3>4. ASSUME NEW d \in doing, ToolEnds(d) PROVE Inside'
      BY <1>0, <3>4, ToolEndsInside
    <3>5. ASSUME NEW d \in doing, ResetEnds(d) PROVE Inside'
      BY <1>0, <3>5, ResetEndsInside
    <3>6. ASSUME NEW d \in doing, InitSucceeds(d) PROVE Inside'
      BY <1>0, <3>6, InitSucceedsInside
    <3>7. ASSUME NEW d \in doing, NEW kept \in BOOLEAN, InitFails(d, kept) PROVE Inside'
      BY <1>0, <2>1, <3>7, InitFailsInside
    <3> QED
      BY <2>3, <3>1, <3>2, <3>3, <3>4, <3>5, <3>6, <3>7 DEF WorkerStep
  <2>4. CASE MainStep
    <3>1. ASSUME LoadNext \/ \E j \in States : Restart(j) PROVE Inside'
      BY <1>0, <2>1, <3>1, LoadStepsInside
    <3>2. ASSUME NEW j \in States, RestartRejected(j) PROVE Inside'
      BY <1>0, <3>2, RestartRejectedInside
    <3>3. ASSUME NEW c \in closings, CloseTimeout(c) PROVE Inside'
      BY <1>0, <3>3, CloseEndsInside DEF CloseTimeout
    <3>4. ASSUME NEW r \in rpcs, RpcTimeout(r) PROVE Inside'
      BY <1>0, <3>4, RpcTimeoutInside
    <3>5. ASSUME Started PROVE Inside'
      BY <1>0, <3>5, StartedInside
    <3>6. ASSUME DisposeNext \/ ShutdownAll PROVE Inside'
      BY <1>0, <3>6, DisposeInside
    <3> QED
      BY <2>4, <3>1, <3>2, <3>3, <3>4, <3>5, <3>6 DEF MainStep
  <2>5. CASE UserStep
    <3>1. ASSUME Stop PROVE Inside'
      BY <1>0, <3>1, StartedInside
    <3>2. ASSUME NEW p \in Plugins, InvokeTool(p) PROVE Inside'
      BY <1>0, <3>2, InvokeToolInside
    <3> QED
      BY <2>5, <3>1, <3>2 DEF UserStep
  <2> QED
    BY <1>2, <2>2, <2>3, <2>4, <2>5 DEF Next
<1> QED
  BY <1>1, <1>2

\* In every behaviour, what is in a worker is for the plugin that has it, whatever was
\* released, timed out or crashed (worker-pool.ts, release; plugin-worker-runner.ts).
THEOREM SandboxInside == Steps => []Inside
<1> QED
  BY SandboxInvariant, InsideInit, InsideNext, PTL DEF Steps

\* A plugin runs in one worker at a time (sandbox-manager.ts, handleWorkerCrash: the
\* worker it had is dead before another is loaded).
THEOREM SandboxOneCopy == Steps => []OneCopy
<1>1. IInv /\ Inside => OneCopy
  <2> SUFFICES ASSUME IInv, Copies, NEW v \in alive, NEW w \in alive, hooks[v] # None, hooks[v] = hooks[w]
               PROVE  v = w
    BY DEF OneCopy, Inside
  <2>1. v \in Workers /\ w \in Workers
    BY WorkersFit DEF IInv, Core
  <2>2. PICK i \in States : Latest(i) /\ st[i].plugin = hooks[v] /\ st[i].worker = v
    BY <2>1 DEF Copies
  <2>3. PICK k \in States : Latest(k) /\ st[k].plugin = hooks[w] /\ st[k].worker = w
    BY <2>1 DEF Copies
  <2>4. i = k
    BY <2>2, <2>3, OneLatest DEF IInv, Core
  <2> QED
    BY <2>2, <2>3, <2>4
<1> QED
  BY <1>1, SandboxInvariant, SandboxInside, PTL

\* A plugin that is loaded is there: no late reset or other plugin's load has replaced it
\* in its worker, until the plugins are disposed of, unless the worker came back without
\* an acknowledged reset (worker-pool.ts, release).
THEOREM SandboxLoadedStays == Steps => []LoadedStays
<1>1. IInv /\ Inside => LoadedStays
  <2> SUFFICES ASSUME IInv, Inside, Live, NEW p \in Plugins, reg[p] # 0,
                      st[reg[p]].load = "loaded", st[reg[p]].worker \in alive \ unreset
               PROVE  hooks[st[reg[p]].worker] = p
    BY DEF LoadedStays, Live
  <2>1. Typed /\ Safe
    BY DEF IInv, Core, Live
  <2>2. reg[p] \in States /\ st[reg[p]].plugin = p /\ st[reg[p]].worker \in Workers
    BY <2>1, ElementsTyped DEF Typed, StatesTyped, Safe, Registry
  <2>3. Tenancy(st[reg[p]].worker)
    BY <2>2 DEF Inside, Home
  <2> QED
    BY <2>2, <2>3 DEF Tenancy
<1> QED
  BY <1>1, SandboxInvariant, SandboxInside, PTL

\* Code of one plugin never runs another's call, with the same exceptions
\* (plugin-worker-runner.ts, INVOKE_TOOL).
THEOREM SandboxCallsStayHome == Steps => []CallsStayHome
<1>1. IInv /\ Inside => CallsStayHome
  <2> SUFFICES ASSUME IInv, Inside, Live, NEW d \in doing, d.m.kind = "tool", d.w \notin unreset
               PROVE  d.code = st[d.m.s].plugin
    BY DEF CallsStayHome, Live
  <2>1. d.w \in Workers
    BY WorkersFit DEF IInv, Core, Typed, WorkersTyped
  <2>2. CallsHome(d.w)
    BY <2>1 DEF Inside, Home, Tenancy
  <2> QED
    BY <2>2 DEF CallsHome
<1> QED
  BY <1>1, SandboxInvariant, SandboxInside, PTL

\* What the manager promises of the workers that are there (sandbox-manager.ts,
\* loadInSandbox, handleWorkerCrash; worker-pool.ts, acquire, release).
THEOREM SandboxPluginsKeepWorkers == Steps => []PluginsKeepWorkers
<1>1. TypeOK /\ OneOwner /\ LoadedStays /\ CallsStayHome /\ OneCopy /\ OneRestart
         /\ RestartsAreBounded => PluginsKeepWorkers
  BY DEF PluginsKeepWorkers
<1> QED
  BY <1>1, SandboxTyped, SandboxOneOwner, SandboxLoadedStays, SandboxCallsStayHome,
     SandboxOneCopy, SandboxOneRestart, SandboxRestartsAreBounded, PTL

\* What it promises from the first load to the disposal (shutdownAll).
THEOREM SandboxWorkersAreAccountedFor == Spec => []WorkersAreAccountedFor
<1>1. PluginsKeepWorkers /\ StopLeavesNothing => WorkersAreAccountedFor
  BY DEF WorkersAreAccountedFor
<1> QED
  BY <1>1, SandboxPluginsKeepWorkers, SandboxStopLeavesNothing, PTL DEF Spec, Steps
=============================================================================
