----------------------------- MODULE ChannelIpc -----------------------------
(***************************************************************************)
(* The daemon's end of a forked channel process, and the receiver in it:   *)
(* apps/runner/src/daemon/channel-ipc.ts.                                  *)
(*                                                                         *)
(* start() forks a process, makes it the current child and waits for a     *)
(* READY line on its stdout, an exit or the timeout; send() drops what     *)
(* comes before ready or after a disconnect; terminate() kills the child.  *)
(* A rejected start leaves its process as the current child, an exit after *)
(* READY is not listened for, and neither start() nor a READY that comes   *)
(* after terminate() looks at what was there before.                       *)
(***************************************************************************)
EXTENDS Naturals, Sequences, FiniteSets

CONSTANTS
  Procs,         \* processes that may be forked, each once
  None,
  MaxEvents,     \* bound on registry events
  MaxCalls       \* bound on terminate()

VARIABLES
  procs,         \* per process: life, READY line, connection, signal
  child, ready,  \* fields of ChannelIpc
  waiting,       \* starts that wait for READY, by process
  heard,         \* processes whose READY a start took
  outlived,      \* ready was TRUE without a child that said it
  wire,          \* per process: events written and not yet received
  got,           \* per process: events its receiver was given
  events, calls

vars == <<procs, child, ready, waiting, heard, outlived, wire, got, events, calls>>

Fresh == [life |-> "none", said |-> FALSE, connected |-> FALSE, signalled |-> FALSE]

Init ==
  /\ procs = [p \in Procs |-> Fresh]
  /\ child = None
  /\ ready = FALSE
  /\ waiting = {}
  /\ heard = {}
  /\ outlived = FALSE
  /\ wire = [p \in Procs |-> <<>>]
  /\ got = [p \in Procs |-> <<>>]
  /\ events = 0
  /\ calls = 0

Running(p) == procs[p].life = "running"

Start(p) ==
  /\ procs[p].life = "none"
  /\ procs' = [procs EXCEPT ![p].life = "running", ![p].connected = TRUE]
  /\ child' = p
  /\ waiting' = waiting \cup {p}
  /\ outlived' = (outlived \/ ready)
  /\ UNCHANGED <<ready, heard, wire, got, events, calls>>

\* The channel process writes the line once it listens.
SayReady(p) ==
  /\ Running(p)
  /\ ~procs[p].said
  /\ procs' = [procs EXCEPT ![p].said = TRUE]
  /\ UNCHANGED <<child, ready, waiting, heard, outlived, wire, got, events, calls>>

HearReady(p) ==
  /\ p \in waiting
  /\ procs[p].said
  /\ waiting' = waiting \ {p}
  /\ heard' = heard \cup {p}
  /\ ready' = TRUE
  /\ outlived' = (outlived \/ child # p)
  /\ UNCHANGED <<procs, child, wire, got, events, calls>>

\* The timeout, an error of the process or its exit: the start is rejected.
GiveUp(p) ==
  /\ p \in waiting
  /\ waiting' = waiting \ {p}
  /\ UNCHANGED <<procs, child, ready, heard, outlived, wire, got, events, calls>>

Exit(p) ==
  /\ Running(p)
  /\ procs' = [procs EXCEPT ![p].life = "gone"]
  /\ wire' = [wire EXCEPT ![p] = <<>>]
  /\ UNCHANGED <<child, ready, waiting, heard, outlived, got, events, calls>>

\* The daemon notices the closed pipe later than it closes.
Disconnect(p) ==
  /\ procs[p].life = "gone"
  /\ procs[p].connected
  /\ procs' = [procs EXCEPT ![p].connected = FALSE]
  /\ UNCHANGED <<child, ready, waiting, heard, outlived, wire, got, events, calls>>

\* Mutant: whether the channel is ready is not asked.
OpenUnready == child # None /\ procs[child].connected

Open == ready /\ child # None /\ procs[child].connected


\* An event that finds no open channel is dropped with a warning.
SendEvent ==
  /\ events < MaxEvents
  /\ events' = events + 1
  /\ wire' = IF Open /\ Running(child)
             THEN [wire EXCEPT ![child] = Append(@, [event |-> events + 1, heard |-> child \in heard])]
             ELSE wire
  /\ UNCHANGED <<procs, child, ready, waiting, heard, outlived, got, calls>>

\* listenForRegistryEvents, once the process listens.
Receive(p) ==
  /\ Running(p)
  /\ procs[p].said
  /\ wire[p] # <<>>
  /\ wire' = [wire EXCEPT ![p] = Tail(@)]
  /\ got' = [got EXCEPT ![p] = Append(@, Head(wire[p]))]
  /\ UNCHANGED <<procs, child, ready, waiting, heard, outlived, events, calls>>

Terminate ==
  /\ calls < MaxCalls
  /\ calls' = calls + 1
  /\ procs' = IF child = None THEN procs ELSE [procs EXCEPT ![child].signalled = TRUE]
  /\ child' = None
  /\ ready' = FALSE
  /\ UNCHANGED <<waiting, heard, outlived, wire, got, events>>

Next ==
  \/ \E p \in Procs : Start(p) \/ SayReady(p) \/ HearReady(p) \/ GiveUp(p)
                      \/ Exit(p) \/ Disconnect(p) \/ Receive(p)
  \/ SendEvent
  \/ Terminate

Spec == Init /\ [][Next]_vars

-----------------------------------------------------------------------------
TypeOK ==
  /\ child \in Procs \cup {None}
  /\ ready \in BOOLEAN
  /\ waiting \subseteq Procs
  /\ heard \subseteq Procs
  /\ \A p \in Procs : procs[p].life \in {"none", "running", "gone"}

Written(p) == got[p] \o wire[p]

\* An event goes only to a process whose READY line the daemon has taken, unless
\* ready was left over from a process that is no longer the child.
ReadyComesFirst ==
  outlived \/ \A p \in Procs : \A i \in DOMAIN Written(p) : Written(p)[i].heard

\* Does not hold: a start while the last child has died, without terminate().
ReadyAlwaysFirst == \A p \in Procs : \A i \in DOMAIN Written(p) : Written(p)[i].heard
=============================================================================
