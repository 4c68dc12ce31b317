---------------------------- MODULE RunnerParts -----------------------------
(***************************************************************************)
(* The components of the runner that share no state, in one specification, *)
(* as in CoreParts.                                                         *)
(***************************************************************************)
EXTENDS Integers, Sequences, FiniteSets

CONSTANT None

VARIABLE part     \* the component that moves

\* The commands that start, attach to and stop the daemon of one agent.
CONSTANTS Pids, Terminals
VARIABLES procs, pidFile, listening, commands, raced
daemonsVars == <<procs, pidFile, listening, commands, raced>>
Daemons == INSTANCE DaemonProcesses WITH Commands <- Terminals, socket <- listening

\* The processes that update one file under its lock.
CONSTANTS LockProcs, Tasks, MaxUpdates, MaxAgeings
VARIABLES locks, lockFile, file, updates, alive, count, expected, robbed, hurt
locksVars == <<locks, lockFile, file, updates, alive, count, expected, robbed,
               hurt>>
Locks == INSTANCE FileLocks WITH
    Procs <- LockProcs, MaxOps <- MaxUpdates, ops <- updates

\* The foreground runner, and the numbers a daemon gives to children.
CONSTANTS RunKeys, Denials, BufferSize, DedupeWindow, MaxRuns, MaxWork, MaxLogged, MaxDenied
VARIABLES stage, runs, binding, resume, plugin, told, snapshot, checkpoint,
          temporary, session, wanted, trouble, logged, logBuffer, log, seen, denied,
          auditBuffer, audit
foregroundVars == <<stage, runs, binding, resume, plugin, told, snapshot,
                    checkpoint, temporary, session, wanted, trouble, logged,
                    logBuffer, log, seen, denied, auditBuffer, audit>>
Foreground == INSTANCE ForegroundRunner WITH
    Keys <- RunKeys, Window <- DedupeWindow, said <- told, asked <- wanted

CONSTANTS Parents, Stem, MaxNumbers, MaxRestarts
VARIABLES files, cache, given, blurred, restarts
numbersVars == <<files, cache, given, blurred, restarts>>
Numbers == INSTANCE GenerationCounter WITH
    Unread <- None, MaxTrouble <- MaxRestarts, trouble <- restarts

\* The plugins of the system directory.
CONSTANTS Catalog, Workspace, Versions, MaxCommands, MaxFaults, MaxBoots
VARIABLES dirs, lock, source, cmd, found, imports, installs, faults, boots,
          interrupted, disturbed
installVars == <<dirs, lock, source, cmd, found, imports, installs, faults, boots,
                 interrupted, disturbed>>
Install == INSTANCE PluginInstall WITH
    MaxTrouble <- MaxFaults, cache <- imports, commands <- installs, trouble <- faults

\* The configuration of the system and of the project.
CONSTANTS Dirs, ToolNames, Limits, MaxPaths
VARIABLES step, cwd, marked, system, project, root, config
configVars == <<step, cwd, marked, system, project, root, config>>
Config == INSTANCE ProjectConfig WITH Tools <- ToolNames, stage <- step

\* What the theorems ask of the constants: None is none of the values it stands beside,
\* bounds are numbers, a buffer and a window hold something, the catalog names a plugin,
\* a version and a limit are never 0, and paths are sequences of names.
ASSUME RunnerAssumption ==
    /\ None \notin Pids /\ None \notin Nat /\ None \notin RunKeys
    /\ None \notin LockProcs \X Tasks
    /\ None \notin [by : LockProcs \X Tasks, written : BOOLEAN, old : BOOLEAN]
    /\ None \notin [state : 0..MaxWork, key : RunKeys \cup {None}]
    /\ MaxUpdates \in Nat /\ MaxAgeings \in Nat /\ MaxNumbers \in Nat
    /\ MaxRuns \in Nat /\ MaxWork \in Nat
    /\ BufferSize \in Nat \ {0} /\ DedupeWindow \in Nat \ {0}
    /\ Catalog \in Seq(Install!Plugins) /\ Catalog # <<>>
    /\ Versions \subseteq Nat \ {0} /\ Versions # {}
    /\ Dirs \subseteq Seq(STRING) /\ Limits \subseteq Nat \ {0}

-----------------------------------------------------------------------------
PartsInit ==
    /\ part \in {"daemons", "locks", "foreground", "numbers", "install", "config"}
    /\ Daemons!Init /\ Locks!Init /\ Foreground!Init
    /\ Numbers!Init /\ Install!Init /\ Config!Init
    /\ part # "locks" => file.kind = "plain"
    /\ part # "config" =>
         /\ cwd = <<>> /\ marked = {}
         /\ system \in [paths : {{}}, tools : {ToolNames}, limit : Limits]

PartsNext ==
    \/ part = "daemons" /\ Daemons!Next
       /\ UNCHANGED <<part, locksVars, foregroundVars, numbersVars,
                      installVars, configVars>>
    \/ part = "locks" /\ Locks!Next
       /\ UNCHANGED <<part, daemonsVars, foregroundVars, numbersVars,
                      installVars, configVars>>
    \/ part = "foreground" /\ Foreground!Next
       /\ UNCHANGED <<part, daemonsVars, locksVars, numbersVars,
                      installVars, configVars>>
    \/ part = "numbers" /\ Numbers!Next
       /\ UNCHANGED <<part, daemonsVars, locksVars, foregroundVars,
                      installVars, configVars>>
    \/ part = "install" /\ Install!Next
       /\ UNCHANGED <<part, daemonsVars, locksVars, foregroundVars,
                      numbersVars, configVars>>
    \/ part = "config" /\ Config!Next
       /\ UNCHANGED <<part, daemonsVars, locksVars, foregroundVars,
                      numbersVars, installVars>>

allVars == <<part, daemonsVars, locksVars, foregroundVars,
             numbersVars, installVars, configVars>>
PartsSpec == PartsInit /\ [][PartsNext]_allVars

-----------------------------------------------------------------------------
\* One daemon is found per agent unless two starts overlapped, and the updates of a
\* file are sequential unless a live holder was robbed of its lock.
OneHolds ==
    /\ part = "daemons" => Daemons!TypeOK /\ Daemons!OneDaemonIsFound
    /\ part = "locks" =>
         Locks!TypeOK /\ Locks!OneAtATimeInside /\ Locks!UnrobbedIsSequential

\* What an orderly exit had is there for the next run, each journal in its order, and
\* no number given to a child is given again after a restart.
RestartsGoOn ==
    /\ [](part = "foreground" =>
            /\ Foreground!TypeOK /\ Foreground!OrderlyExitKeeps
            /\ Foreground!JournalsKeepOrder /\ Foreground!CascadeRunsThrough)
    /\ [](part = "numbers" => Numbers!TypeOK /\ Numbers!NumbersAreFresh)
    /\ Numbers!NumbersRise

\* The plugin lock names what is whole, and an agent meets a broken plugin only where
\* a command was cut off.
InstallTellsTruth ==
    part = "install" =>
        Install!TypeOK /\ Install!LockTellsTruth /\ Install!BrokenOnesWereDisturbed

\* A project takes away and never adds, and leaves shared paths where they were.
ProjectsOnlyRestrict ==
    part = "config" =>
        Config!TypeOK /\ Config!ProjectsOnlyRestrict /\ Config!SharedPathsStay
=============================================================================
