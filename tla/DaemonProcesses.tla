--------------------------- MODULE DaemonProcesses ---------------------------
(***************************************************************************)
(* The processes of one agent's daemon and the two files by which the       *)
(* commands of other processes find it: the pid file, which the daemon      *)
(* itself writes when it boots and removes when it has shut down, and the   *)
(* socket it listens on (daemon/pid-manager.ts, daemon/launcher.ts, the     *)
(* boot and the shutdown of daemon-entry.ts, and the commands daemon-start, *)
(* daemon-stop and attach).  Agents share no files, so one agent is enough. *)
(*                                                                         *)
(* The commands and the daemons are processes of their own; a step of a     *)
(* command is what it does between two waits, except that a start looks     *)
(* and launches in two steps.  A pid is not used again.                     *)
(***************************************************************************)
EXTENDS Integers, FiniteSets

CONSTANTS Pids,       \* the processes there can ever be
          Commands,   \* the terminals at which commands are typed
          None

VARIABLES procs,      \* what each process is doing
          pidFile,    \* the pid in the pid file, or None
          socket,     \* the process that bound the socket file, or None
          commands,   \* what each command is doing, and the pid it has read
          raced       \* a start went ahead before another's daemon had written its pid

vars == <<procs, pidFile, socket, commands, raced>>

\* Stages of a daemon: booting -> written -> serving -> closing -> deaf -> leaving -> dead
Unpidded == {"booting"}
Named == {"written", "serving", "closing", "deaf"}
Live == Unpidded \cup Named \cup {"leaving"}

\* A terminal without a command.  How the last one ended makes no difference.
Idle == [kind |-> "none", at |-> "prompt", pid |-> None]
Outcomes == {"started", "attached", "stopped", "refused", "notFound", "failed"}

Goes(c, at) ==
    commands' = [commands EXCEPT ![c] = IF at \in Outcomes THEN Idle ELSE [@ EXCEPT !.at = at]]

Init ==
    /\ procs = [p \in Pids |-> "unborn"]
    /\ pidFile = None /\ socket = None
    /\ commands = [c \in Commands |-> Idle]
    /\ raced = FALSE

\* isProcessRunning: signal 0 reaches every process that has not died
Running(p) == p # None /\ procs[p] \in Live

\* cleanupStale: of a dead process both files go, of an unknown one the socket
Cleaned ==
    IF Running(pidFile) THEN UNCHANGED <<pidFile, socket>>
                        ELSE pidFile' = None /\ socket' = None

\* The check of daemon-start: the pid file names a process that runs.
\* (AlreadyServing, for a mutant: one that answers.)
AlreadyServing == Running(pidFile) /\ procs[pidFile] = "serving"
AlreadyRunning == Running(pidFile)

-----------------------------------------------------------------------------
Begin(c) ==
    /\ commands[c].kind = "none"
    /\ \E k \in {"start", "stop", "attach"} :
         commands' = [commands EXCEPT ![c] = [kind |-> k, at |-> "look", pid |-> None]]
    /\ UNCHANGED <<procs, pidFile, socket, raced>>

\* daemon-start, up to its launch: it gives up when the daemon runs already.
\* attach connects then, and otherwise starts the daemon by the same command.
LookStart(c) ==
    /\ commands[c].kind \in {"start", "attach"} /\ commands[c].at = "look"
    /\ Goes(c, IF ~AlreadyRunning THEN "launch"
               ELSE IF commands[c].kind = "attach" THEN "connect" ELSE "refused")
    /\ raced' = (\/ raced
                 \/ ~AlreadyRunning /\ \E p \in Pids : procs[p] \in Unpidded
                 \/ ~AlreadyRunning /\ \E d \in Commands : commands[d].at = "launch")
    /\ UNCHANGED <<procs, pidFile, socket>>

\* spawnDaemon: stale files are removed and the process is launched, detached
Launch(c) ==
    /\ commands[c].at = "launch"
    /\ \E p \in Pids : procs[p] = "unborn"
    /\ procs' = [procs EXCEPT ![CHOOSE p \in Pids : procs[p] = "unborn"] = "booting"]
    /\ Cleaned
    /\ Goes(c, "wait")
    /\ UNCHANGED raced

\* waitForEndpoint: a socket file, whoever made it, or five seconds; the ping that
\* follows only warns
Ready(c) ==
    /\ commands[c].at = "wait" /\ socket # None
    /\ Goes(c, IF commands[c].kind = "attach" THEN "connect" ELSE "started")
    /\ UNCHANGED <<procs, pidFile, socket, raced>>
NotReady(c) ==
    /\ commands[c].at = "wait" /\ socket = None
    /\ Goes(c, "failed")
    /\ UNCHANGED <<procs, pidFile, socket, raced>>

\* Who answers at the socket
Answers(p) == socket = p /\ procs[p] \in {"serving", "closing"}

Connect(c) ==
    /\ commands[c].at = "connect"
    /\ Goes(c, IF \E p \in Pids : Answers(p) THEN "attached" ELSE "failed")
    /\ UNCHANGED <<procs, pidFile, socket, raced>>

\* What SIGTERM does to a process: the default until the handlers are installed,
\* then the shutdown, once
Signalled(p) ==
    procs' = [procs EXCEPT ![p] = CASE @ \in {"booting", "written"} -> "dead"
                                    [] @ = "serving" -> "closing"
                                    [] OTHER -> @]

\* daemon-stop: no pid, a stale pid, or a process to stop
LookStop(c) ==
    /\ commands[c].kind = "stop" /\ commands[c].at = "look"
    /\ IF pidFile = None THEN Goes(c, "notFound") /\ UNCHANGED <<pidFile, socket>>
       ELSE IF ~Running(pidFile) THEN Goes(c, "stopped") /\ Cleaned
       ELSE /\ commands' = [commands EXCEPT ![c].at = "ask", ![c].pid = pidFile]
            /\ UNCHANGED <<pidFile, socket>>
    /\ UNCHANGED <<procs, raced>>

\* tryIPCStop: whoever answers at the socket is asked to stop
AskStop(c) ==
    /\ commands[c].at = "ask"
    /\ \/ \E p \in Pids : Answers(p) /\ Signalled(p) /\ Goes(c, "waitExit")
       \/ (~\E p \in Pids : Answers(p)) /\ Goes(c, "term") /\ UNCHANGED procs
    /\ UNCHANGED <<pidFile, socket, raced>>

\* The process that was to stop is gone
Exited(c) ==
    /\ commands[c].at \in {"waitExit", "waitTerm", "waitKill"}
    /\ ~Running(commands[c].pid)
    /\ Goes(c, "stopped")
    /\ UNCHANGED <<procs, pidFile, socket, raced>>

\* It is not, after 10 s, 5 s or 1 s: SIGTERM, SIGKILL, and giving up
WaitedInVain(c) ==
    /\ Running(commands[c].pid)
    /\ \/ commands[c].at = "waitExit" /\ Goes(c, "term")
       \/ commands[c].at = "waitTerm" /\ Goes(c, "kill")
       \/ commands[c].at = "waitKill" /\ Goes(c, "failed")
    /\ UNCHANGED <<procs, pidFile, socket, raced>>

\* process.kill throws when there is no such process
Escalate(c) ==
    /\ commands[c].at \in {"term", "kill"}
    /\ IF ~Running(commands[c].pid) THEN Goes(c, "failed") /\ UNCHANGED procs
       ELSE IF commands[c].at = "term" THEN Goes(c, "waitTerm") /\ Signalled(commands[c].pid)
       ELSE /\ Goes(c, "waitKill")
            /\ procs' = [procs EXCEPT ![commands[c].pid] = "dead"]
    /\ UNCHANGED <<pidFile, socket, raced>>

-----------------------------------------------------------------------------
Becomes(p, from, to) == procs[p] = from /\ procs' = [procs EXCEPT ![p] = to]

\* main(): the pid file first, then configuration, core and plugins, then the server,
\* which unlinks whatever is at its path
WritePid(p) ==
    /\ Becomes(p, "booting", "written")
    /\ pidFile' = p
    /\ UNCHANGED <<socket, commands, raced>>
Listen(p) ==
    /\ Becomes(p, "written", "serving")
    /\ socket' = p
    /\ UNCHANGED <<pidFile, commands, raced>>

\* shutdown(): the server stops, the core stops and the pid file is removed, the
\* buffers are flushed and the process exits
StopServer(p) ==
    /\ Becomes(p, "closing", "deaf")
    /\ socket' = None
    /\ UNCHANGED <<pidFile, commands, raced>>
RemovePid(p) ==
    /\ Becomes(p, "deaf", "leaving")
    /\ pidFile' = None
    /\ UNCHANGED <<socket, commands, raced>>

\* The end: of a shutdown, of a failed start, of a shutdown that failed or took 30 s,
\* and by a crash.  Nobody removes the files.
Die(p) ==
    /\ procs[p] \in Live
    /\ procs' = [procs EXCEPT ![p] = "dead"]
    /\ UNCHANGED <<pidFile, socket, commands, raced>>

\* SIGTERM or SIGHUP from a parent daemon, a terminal or the operating system
Signal(p) ==
    /\ procs[p] \in Live
    /\ Signalled(p)
    /\ UNCHANGED <<pidFile, socket, commands, raced>>

Next ==
    \/ \E c \in Commands :
         \/ Begin(c) \/ LookStart(c) \/ Launch(c) \/ Ready(c) \/ NotReady(c) \/ Connect(c)
         \/ LookStop(c) \/ AskStop(c) \/ Exited(c) \/ WaitedInVain(c) \/ Escalate(c)
    \/ \E p \in Pids :
         WritePid(p) \/ Listen(p) \/ StopServer(p) \/ RemovePid(p) \/ Die(p) \/ Signal(p)

Spec == Init /\ [][Next]_vars

-----------------------------------------------------------------------------
TypeOK ==
    /\ procs \in [Pids -> Live \cup {"unborn", "dead"}]
    /\ pidFile \in Pids \cup {None}
    /\ socket \in Pids \cup {None}
    /\ commands \in [Commands ->
         [kind : {"none", "start", "stop", "attach"},
          at : {"prompt", "look", "launch", "wait", "connect", "ask", "waitExit", "term",
                "waitTerm", "kill", "waitKill"},
          pid : Pids \cup {None}]]
    /\ raced \in BOOLEAN

\* One daemon per agent, which its files name: unless two starts have overlapped, at
\* most one process stands between its launch and the removal of its pid file, whatever
\* crashed before and whoever is stopping or cleaning up; from the time it has written
\* it the pid file names this process, and from the time it listens so does the socket.
\* (daemon-start.ts:48-61, pid-manager.ts:58-77, launcher.ts:80-81)
OneDaemonIsFound ==
    ~raced =>
      /\ Cardinality({p \in Pids : procs[p] \in Unpidded \cup Named}) <= 1
      /\ \A p \in Pids : procs[p] \in Named => pidFile = p
      /\ \A p \in Pids : procs[p] \in {"serving", "closing"} => socket = p
=============================================================================
