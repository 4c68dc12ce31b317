----------------------------- MODULE CoreParts -----------------------------
(***************************************************************************)
(* The components of the core that share no state, in one specification: a *)
(* behaviour chooses at its start the one that moves, and the others keep   *)
(* their initial states.                                                    *)
(***************************************************************************)
EXTENDS Integers, EventQueueClient

CONSTANT None

VARIABLE part     \* the component that moves

\* The safety monitor under its tools.
CONSTANTS Prints, MaxLoopTicks, MaxTokenUsage, RepetitiveFailThreshold,
          FrustrationThreshold, ErrorWindowSize, RateNum, RateDen, MaxLog
VARIABLES monitor, log, verdict
monitorVars == <<monitor, log, verdict>>
Monitor == INSTANCE SafetyMonitorHistory

\* The workers of the sandboxed plugins.
CONSTANTS LoadOrder, Dedicated, PoolSize, MaxRestarts, MaxLoads, MaxToolCalls
VARIABLES alive, spawned, hooks, inbox, doing, pool, pools, idle, busy, st, reg, rpcs,
          closings, stage, turn, toolCalls, streak, diedUnloaded, unreset, stragglers
poolVars == <<alive, spawned, hooks, inbox, doing, pool, pools, idle, busy, st, reg, rpcs,
              closings, stage, turn, toolCalls, streak, diedUnloaded, unreset, stragglers>>
Pool == INSTANCE Sandbox WITH MaxCalls <- MaxToolCalls, calls <- toolCalls

\* The bus and the requests of a sandboxed plugin.
CONSTANTS Types, Blocked, Tenants, RateLimit, MaxSubs, MaxBusEvents, MaxRequests, MaxWire
VARIABLES tenant, tenancy, subscriptions, busHandlers, subs, since, toMain, toWorker,
          events, heard, emitted, asked, pending, awaiting, answered
busVars == <<tenant, tenancy, subscriptions, busHandlers, subs, since, toMain, toWorker,
             events, heard, emitted, asked, pending, awaiting, answered>>
Bus == INSTANCE SandboxBus WITH
    MaxEvents <- MaxBusEvents, stage <- tenancy, handlers <- busHandlers

\* Two halves that are explored apart: the plugin subscribes and emits, or it asks.
Subscribing == asked' = 0
Asking ==
    /\ subs' = <<>> /\ events' = <<>>
    /\ \A k \in DOMAIN toMain' : toMain'[k].kind # "emit"

\* Plugins that may name each other or a service.
CONSTANTS Count, Services, HookSets
VARIABLES batch, manifest, factories, phase, toLoad, order, loaded, skipped, tool, guide,
          contextManager, listeners, at, running, disposed
loadVars == <<batch, manifest, factories, phase, toLoad, order, loaded, skipped, tool,
              guide, contextManager, listeners, at, running, disposed>>
Loading == INSTANCE PluginLoading WITH hooks <- factories

\* The audit log of a sandboxed plugin, and the agent's audit trail.
CONSTANTS BufferSize, MaxFileSize, AuditFiles, MaxLogged, MaxFlushes
VARIABLES auditBuffer, dirReady, stream, streams, currentFileSize, flushes, disposal,
          logged, deleted, lost
auditVars == <<auditBuffer, dirReady, stream, streams, currentFileSize, flushes, disposal,
               logged, deleted, lost>>
Audit == INSTANCE AuditLog WITH MaxFiles <- AuditFiles, buffer <- auditBuffer

CONSTANTS MaxSize, TrailFiles, MaxEntries, MaxTrouble
VARIABLES trail, currentSize, lastHash, audited, unaudited, trouble, broken
trailVars == <<trail, currentSize, lastHash, audited, unaudited, trouble, broken>>
Trail == INSTANCE AuditTrail WITH MaxFiles <- TrailFiles, skipped <- unaudited

\* The gear arbiter.
CONSTANTS Gears, DefaultGear, Risks, NoRisk, Destructive, RiskDelta, BaseThreshold,
          MinThreshold, MaxThreshold, Floor, Ceiling, SnehaWeight, ManaWeight, Signals,
          SustainedTicks, CooldownTicks, MaxBoost, QualityAlpha, Qualities, Caps,
          MaxAuditDelta, Deltas, Confidences, MaxHistory, MaxCycles, ExtraKeys,
          MaxArbiters, MaxRoutes
VARIABLES forcedGear, emergency, historicalBuffer, extras, cycles, route, routes, lately,
          uses, decided
gearVars == <<forcedGear, emergency, historicalBuffer, extras, cycles, route, routes,
              lately, uses, decided>>
Gear == INSTANCE GearRouting

\* Plain inputs beside commands.
CONSTANTS Names, PlainInput, MaxInputs, MaxHandlers
VARIABLES commandHandlers, inputs, typed, said
inputVars == <<commandHandlers, inputs, typed, said>>
Commands == INSTANCE SlashCommands WITH
    Plain <- PlainInput, handlers <- commandHandlers, queue <- typed

\* What the code's configuration has: thresholds, windows and limits of at least one, a
\* default gear that exists, a name for plain input that no command has, finitely many
\* services, and a trail of at least two files.
ASSUME CoreAssumption ==
    /\ {RepetitiveFailThreshold, FrustrationThreshold, ErrorWindowSize} \subseteq Nat \ {0}
    /\ {RateNum, RateDen} \subseteq Nat
    /\ LoadOrder \in Seq(Pool!Plugins)
    /\ \A j, k \in DOMAIN LoadOrder : j # k => LoadOrder[j] # LoadOrder[k]
    /\ Dedicated \subseteq Pool!Plugins /\ None \notin Pool!Plugins
    /\ {PoolSize, MaxRestarts, MaxLoads, MaxToolCalls} \subseteq Nat
    /\ Tenants \in Nat \ {0} /\ MaxRequests \in Nat
    /\ SustainedTicks \in Nat \ {0} /\ {CooldownTicks, MaxHistory} \subseteq Nat
    /\ DefaultGear \in Gears /\ MaxCycles \in [Gears -> Nat \ {0}]
    /\ MaxHandlers \in Nat /\ PlainInput \notin Names
    /\ Count \in Nat /\ Loading!IsFiniteSet(Services) /\ None \notin Loading!Plugins
    /\ MaxSize \in Nat \ {0} /\ TrailFiles \in Nat /\ TrailFiles >= 2 /\ AuditFiles \in Nat

-----------------------------------------------------------------------------
PartsInit ==
    /\ part \in {"queue", "monitor", "pool", "bus", "rpc", "loading", "audit",
                 "trail", "gear", "commands"}
    /\ Init /\ Monitor!Init /\ Pool!Init /\ Bus!Init /\ Loading!Init
    /\ Audit!Init /\ Trail!Init /\ Gear!Init /\ Commands!Init
    /\ part # "loading" => ~batch /\ \A p \in DOMAIN factories : factories[p] = {}

PartsNext ==
    \/ part = "queue" /\ Next
       /\ UNCHANGED <<part, monitorVars, poolVars, busVars, loadVars, auditVars, trailVars, gearVars, inputVars>>
    \/ part = "monitor" /\ Monitor!Next
       /\ UNCHANGED <<part, vars, poolVars, busVars, loadVars, auditVars, trailVars, gearVars, inputVars>>
    \/ part = "pool" /\ Pool!Next
       /\ UNCHANGED <<part, vars, monitorVars, busVars, loadVars, auditVars, trailVars, gearVars, inputVars>>
    \/ part = "bus" /\ Bus!Next /\ Subscribing
       /\ UNCHANGED <<part, vars, monitorVars, poolVars, loadVars, auditVars, trailVars, gearVars, inputVars>>
    \/ part = "rpc" /\ Bus!Next /\ Asking
       /\ UNCHANGED <<part, vars, monitorVars, poolVars, loadVars, auditVars, trailVars, gearVars, inputVars>>
    \/ part = "loading" /\ Loading!Next
       /\ UNCHANGED <<part, vars, monitorVars, poolVars, busVars, auditVars, trailVars, gearVars, inputVars>>
    \/ part = "audit" /\ Audit!Next
       /\ UNCHANGED <<part, vars, monitorVars, poolVars, busVars, loadVars, trailVars, gearVars, inputVars>>
    \/ part = "trail" /\ Trail!Next
       /\ UNCHANGED <<part, vars, monitorVars, poolVars, busVars, loadVars, auditVars, gearVars, inputVars>>
    \/ part = "gear" /\ Gear!Next
       /\ UNCHANGED <<part, vars, monitorVars, poolVars, busVars, loadVars, auditVars, trailVars, inputVars>>
    \/ part = "commands" /\ Commands!Next
       /\ UNCHANGED <<part, vars, monitorVars, poolVars, busVars, loadVars, auditVars, trailVars, gearVars>>

allVars == <<part, vars, monitorVars, poolVars, busVars, loadVars, auditVars,
             trailVars, gearVars, inputVars>>
PartsSpec == PartsInit /\ [][PartsNext]_allVars

-----------------------------------------------------------------------------
\* What is typed arrives: only clear() strands the loop that waits for it, and a
\* command is answered, refused or queued once, behind no handler that was not asked.
InputsArrive ==
    /\ OnlyClearStrands
    /\ [](part = "queue" => TypeOK)
    /\ [](part = "commands" => Commands!TypeOK /\ Commands!InputsEndOnce)

\* The safety monitor's sliding summaries are what the whole log of executions gives,
\* and its verdicts follow from that log.
EvidenceHalts ==
    part = "monitor" =>
        /\ Monitor!TypeOK
        /\ Monitor!SummariesMatchLog /\ Monitor!NoSilentStreak /\ Monitor!HaltsOnEvidence

\* A worker of the pool has one plugin, that plugin's code and only its calls, and a
\* plugin one worker, one restart at a time and a bounded number of them.
PluginsKeepWorkers == part = "pool" => Pool!PluginsKeepWorkers

\* A sandboxed plugin hears each event it is subscribed to once for each handler, and
\* each of its requests is answered by the response to it.
PluginsHearTheirs ==
    part \in {"bus", "rpc"} => Bus!TypeOK /\ Bus!HandlersHearAll /\ Bus!AnsweredByTheirs

\* Plugins are loaded in the least order their dependencies allow, or refused for a
\* reason, nothing that was named is missing before one that is loaded, and a plugin is
\* disposed of at rest.
LoadingIsSound ==
    part = "loading" =>
        /\ Loading!TypeOK
        /\ Loading!OrderIsLeast /\ Loading!NamedOnesAreLoaded /\ Loading!DisposedAtRest
        /\ Loading!RefusedForReason

\* No entry of the sandbox log disappears but by rotation, unless a write failed, and
\* each file of the audit trail verifies, with nothing missing between two entries.
EntriesAreKept ==
    /\ part = "audit" => Audit!EntriesAreKept
    /\ part = "trail" => Trail!FilesVerify /\ Trail!NoneLostWithin

\* A gear that stalls is left by the next route, and the emergency begins and ends at
\* exactly the tick the readings call for.
GearsAnswer ==
    part = "gear" => Gear!TypeOK /\ Gear!NoGearOutstays /\ Gear!EmergencyIsExact

-----------------------------------------------------------------------------
(***************************************************************************)
(* Values that MCCoreParts.cfg gives to constants.  The thresholds 3 / 5 / *)
(* 10 / 0.8 of the safety monitor are scaled there so that a window stays   *)
(* longer than a streak; the numbers of the gears are those of the code in  *)
(* hundredths.                                                              *)
(***************************************************************************)

\* The order of two pooled plugins.
TwoPlugins == <<"p1", "p3">>

\* What sneha subtracts.
Sneha == -15

\* What a destructive input adds to the threshold.
DestructiveDelta == [r \in Risks |-> 20]

\* The first gear ends earlier, and at less than full confidence.
GearCaps == [g \in Gears |-> IF g = 1 THEN 95 ELSE 100]
GearCycles == [g \in Gears |-> IF g = 1 THEN 2 ELSE 3]

\* What audits change, one of it beyond the bound.
AuditDeltas == {-50, 0, 3}
=============================================================================
