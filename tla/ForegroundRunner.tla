-------------------------- MODULE ForegroundRunner --------------------------
(***************************************************************************)
(* The foreground runner (openstarry start) from one launch to the next:    *)
(* what it restores, what it journals while it runs and what it does once   *)
(* it is told to stop (apps/runner/src/commands/start.ts, the checkpoint    *)
(* and session files of utils/, and observability.ts with the structured    *)
(* log, the audit sink, the shutdown hooks and the HMAC key it composes).   *)
(*                                                                         *)
(* A checkpoint path is configured, and so are the log and the audit sink.  *)
(* One runner runs at a time.  A plugin's state and the conversation are    *)
(* numbers that grow; a signature is the key it was made with.              *)
(***************************************************************************)
EXTENDS FiniteSets, Sequences, Functions

CONSTANTS
    Keys, None,      \* HMAC keys
    Denials,         \* keys of audit events: what was denied to whom, and when
    BufferSize,      \* maxSize of both buffered writers
    Window,          \* capacity of the dedupe window
    MaxRuns, MaxWork, MaxLogged, MaxDenied   \* bounds

VARIABLES
    stage,           \* of the runner
    runs,
    binding,         \* the captured key, None once cleared
    resume,          \* --resume
    plugin, said,    \* the state of the plugins, and the default session's messages
    snapshot,        \* the state that checkpoint() returned
    checkpoint,      \* the checkpoint file: its state and its key
    temporary,       \* a temporary file beside it, or None
    session,         \* the session file: messages
    asked,           \* history: plugin, said and the key when the stop was asked for
    trouble,         \* history: a write, the stop or a hook failed in this run
    logged, logBuffer, log,        \* entries of this run: made, buffered, in the file
    seen, denied, auditBuffer, audit  \* the dedupe window, and the same for denials

files == <<checkpoint, temporary, session>>
memory == <<plugin, said, snapshot>>
logVars == <<logged, logBuffer, log>>
auditVars == <<seen, denied, auditBuffer, audit>>
runVars == <<runs, binding, resume, asked, trouble>>
vars == <<stage, files, memory, logVars, auditVars, runVars>>

Unasked == [plugin |-> 0, said |-> 0, key |-> None]

Init ==
    /\ stage = "down" /\ runs = 0 /\ binding = None /\ resume = FALSE
    /\ plugin = 0 /\ said = 0 /\ snapshot = 0
    /\ checkpoint = None /\ temporary = None /\ session = 0
    /\ asked = Unasked /\ trouble = FALSE
    /\ logged = 0 /\ logBuffer = <<>> /\ log = <<>>
    /\ seen = <<>> /\ denied = <<>> /\ auditBuffer = <<>> /\ audit = <<>>

-----------------------------------------------------------------------------
(* Starting. *)

\* captureHmacKey takes the key out of the environment.
Launch(key, flag) ==
    /\ stage \in {"down", "crashed", "stopped", "flushed"} /\ runs < MaxRuns
    /\ stage' = "restoring" /\ runs' = runs + 1
    /\ binding' = key /\ resume' = flag
    /\ plugin' = 0 /\ said' = 0 /\ snapshot' = 0
    /\ trouble' = FALSE
    /\ logged' = 0 /\ logBuffer' = <<>> /\ log' = <<>>
    /\ seen' = <<>> /\ denied' = <<>> /\ auditBuffer' = <<>> /\ audit' = <<>>
    /\ UNCHANGED <<files, asked>>

Verified(file) == binding # None /\ file # None /\ file.key = binding

\* readSnapshotStore and restore: whatever does not verify leaves the plugins fresh.
Restore ==
    /\ stage = "restoring"
    /\ plugin' = IF Verified(checkpoint) THEN checkpoint.state ELSE 0
    /\ stage' = "resuming"
    /\ UNCHANGED <<files, said, snapshot, logVars, auditVars, runVars>>

\* restoreCliSession with --resume, then core.start.
Resume ==
    /\ stage = "resuming"
    /\ said' = IF resume THEN session ELSE 0
    /\ stage' = "running"
    /\ UNCHANGED <<files, plugin, snapshot, logVars, auditVars, runVars>>

\* Until core.stop turns go on, beside the first steps of a shutdown too.
Alive == stage \in {"running", "writing", "renaming", "saving", "stopping"}

Work ==
    /\ Alive
    /\ \/ plugin < MaxWork /\ plugin' = plugin + 1 /\ UNCHANGED said
       \/ said < MaxWork /\ said' = said + 1 /\ UNCHANGED plugin
    /\ UNCHANGED <<stage, files, snapshot, logVars, auditVars, runVars>>

-----------------------------------------------------------------------------
(* The structured log and the audit sink: both write when they are flushed.  *)

\* BufferedWriter.push: a full buffer drops its oldest entry.
Pushed(buffer, x) ==
    IF Len(buffer) >= BufferSize THEN Append(Tail(buffer), x) ELSE Append(buffer, x)

\* onOverflow: the first time, a line of its own past the buffer.
Overflow == 0
Reported(buffer, lines) ==
    IF Len(buffer) >= BufferSize /\ Overflow \notin Range(lines)
    THEN Append(lines, Overflow) ELSE lines

Emit ==
    /\ logged' = logged + 1
    /\ logBuffer' = Pushed(logBuffer, logged + 1)
    /\ log' = Reported(logBuffer, log)

Log ==
    /\ stage \in {"restoring", "running"} /\ logged < MaxLogged
    /\ Emit
    /\ UNCHANGED <<stage, files, memory, auditVars, runVars>>

\* A form of Observed that makes room by forgetting what came last.
ObservedOverLast(d) == IF Len(seen) = Window THEN seen ELSE Append(seen, d)

\* DedupeWindow.observe of a key that is new: the oldest makes room for it.
Observed(d) == IF Len(seen) = Window THEN Append(Tail(seen), d) ELSE Append(seen, d)

\* A tool that is not allowed was asked for: published, deduplicated, buffered.
Deny(d) ==
    /\ Alive /\ Len(denied) < MaxDenied
    /\ IF d \in Range(seen) THEN UNCHANGED auditVars
       ELSE /\ seen' = Observed(d)
            /\ denied' = Append(denied, d)
            /\ auditBuffer' = Pushed(auditBuffer, Len(denied) + 1)
            /\ audit' = Reported(auditBuffer, audit)
    /\ UNCHANGED <<stage, files, memory, logVars, runVars>>

-----------------------------------------------------------------------------
(* The shutdown of start.ts. *)

\* A form of Stages that stops the core before anything is saved.
StagesStopFirst ==
    [running |-> "stopping", stopping |-> IF binding = None THEN "saving" ELSE "writing",
     writing |-> "renaming", renaming |-> "saving", saving |-> "flushing log"]

\* What follows what, the checkpoint only with a key.
Stages ==
    [running |-> IF binding = None THEN "saving" ELSE "writing",
     writing |-> "renaming", renaming |-> "saving",
     saving |-> "stopping", stopping |-> "flushing log"]

\* checkpoint() asks the plugins before anything is awaited.
Enter(next, state) ==
    /\ stage' = next
    /\ snapshot' = IF next = "writing" THEN state ELSE snapshot

\* The first signal, or __QUIT__.  Later ones find shuttingDown set.
Signal ==
    /\ stage = "running"
    /\ asked' = [plugin |-> plugin, said |-> said, key |-> binding]
    /\ Enter(Stages["running"], plugin)
    /\ UNCHANGED <<files, plugin, said, logVars, auditVars, runs, binding, resume, trouble>>

\* writeSnapshotStore, a temporary file first.
Write ==
    /\ stage = "writing"
    /\ temporary' = [state |-> snapshot, key |-> binding]
    /\ stage' = Stages["writing"]
    /\ UNCHANGED <<checkpoint, session, memory, logVars, auditVars, runVars>>

Rename ==
    /\ stage = "renaming"
    /\ checkpoint' = temporary /\ temporary' = None
    /\ stage' = Stages["renaming"]
    /\ UNCHANGED <<session, memory, logVars, auditVars, runVars>>

\* Either fails: it is reported, and the shutdown goes on.
CheckpointFails ==
    /\ stage \in {"writing", "renaming"}
    /\ trouble' = TRUE
    /\ stage' = Stages["renaming"]
    /\ UNCHANGED <<files, memory, logVars, auditVars, runs, binding, resume, asked>>

\* saveCliSessions: a session without messages is not saved.
SaveSessions ==
    /\ stage = "saving"
    /\ session' = IF said = 0 THEN session ELSE said
    /\ stage' = Stages["saving"]
    /\ UNCHANGED <<checkpoint, temporary, memory, logVars, auditVars, runVars>>

SaveFails ==
    /\ stage = "saving"
    /\ trouble' = TRUE
    /\ stage' = Stages["saving"]
    /\ UNCHANGED <<files, memory, logVars, auditVars, runs, binding, resume, asked>>

\* core.stop disposes the plugins; runner:shutdown is logged after it.
StopCore ==
    /\ stage = "stopping"
    /\ plugin' = 0
    /\ Emit
    /\ Enter(Stages["stopping"], 0)
    /\ UNCHANGED <<files, said, auditVars, runVars>>

\* What core.stop throws ends the shutdown and the process, with exit code 1.
StopFails ==
    /\ stage = "stopping"
    /\ trouble' = TRUE /\ stage' = "stopped"
    /\ UNCHANGED <<files, memory, logVars, auditVars, runs, binding, resume, asked>>

\* A form of AfterHook that ends the cascade with the hook that failed.
AfterHookUnlessFailed(next, failed) == IF failed THEN "flushed" ELSE next

\* trigger: what a hook throws is caught, and the next one runs.
AfterHook(next, failed) == next

\* The sink throws at the k-th of the flushed lines: the others are gone with it.
FlushLog ==
    /\ stage = "flushing log"
    /\ \E k \in 0..Len(logBuffer) :
         LET failed == k < Len(logBuffer)
         IN  /\ log' = log \o SubSeq(logBuffer, 1, k)
             /\ trouble' = (trouble \/ failed)
             /\ stage' = AfterHook("flushing audit", failed)
    /\ logBuffer' = <<>>
    /\ UNCHANGED <<files, memory, logged, auditVars, runs, binding, resume, asked>>

FlushAudit ==
    /\ stage = "flushing audit"
    /\ \E k \in 0..Len(auditBuffer) :
         LET failed == k < Len(auditBuffer)
         IN  /\ audit' = audit \o SubSeq(auditBuffer, 1, k)
             /\ trouble' = (trouble \/ failed)
             /\ stage' = AfterHook("clearing", failed)
    /\ auditBuffer' = <<>>
    /\ UNCHANGED <<files, memory, logVars, seen, denied, runs, binding, resume, asked>>

\* The last hook drops the key; then shutdown resolves, and the process exits.
ClearKey ==
    /\ stage = "clearing"
    /\ binding' = None /\ stage' = "flushed"
    /\ UNCHANGED <<files, memory, logVars, auditVars, runs, resume, asked, trouble>>

\* The process dies, or its start fails: what was buffered is gone.
Crash ==
    /\ Alive \/ stage \in {"restoring", "resuming"}
    /\ stage' = "crashed" /\ trouble' = TRUE
    /\ UNCHANGED <<files, memory, logVars, auditVars, runs, binding, resume, asked>>

Next ==
    \/ \E key \in Keys \cup {None}, flag \in BOOLEAN : Launch(key, flag)
    \/ Restore \/ Resume \/ Work
    \/ Log \/ \E d \in Denials : Deny(d)
    \/ Signal \/ Write \/ Rename \/ CheckpointFails \/ SaveSessions \/ SaveFails
    \/ StopCore \/ StopFails \/ FlushLog \/ FlushAudit \/ ClearKey \/ Crash

Spec == Init /\ [][Next]_vars

-----------------------------------------------------------------------------
(* Properties. *)

\* Every variable of the runner has its type.
TypeOK ==
    /\ runs \in 0..MaxRuns /\ binding \in Keys \cup {None}
    /\ {plugin, said, snapshot, session} \subseteq 0..MaxWork
    /\ Len(logBuffer) <= BufferSize /\ Len(auditBuffer) <= BufferSize
    /\ Len(seen) <= Window

\* After a shutdown in which nothing failed, the files hold at least what there was when
\* it was asked for: the state of the plugins if there was a key, and the conversation
\* ("persist checkpoint before core.stop() so plugin state is captured").
OrderlyExitKeeps ==
    stage = "flushed" /\ ~trouble =>
      /\ asked.said > 0 => session >= asked.said
      /\ asked.key # None => /\ checkpoint # None /\ checkpoint.key = asked.key
                             /\ checkpoint.state >= asked.plugin

\* A journal's lines are in the order of their events, each once; what is missing from a
\* journal whose flush did not fail is older than all that the flush wrote; two accepted
\* denials with the same key have at least the window between them.
JournalsKeepOrder ==
    LET increasing(lines) ==
          \A j, k \in 1..Len(lines) :
            j < k /\ Overflow \notin {lines[j], lines[k]} => lines[j] < lines[k]
    IN  /\ increasing(log) /\ increasing(audit)
        /\ stage = "flushed" /\ ~trouble =>
             /\ \A n \in 1..logged : n > logged - BufferSize => n \in Range(log)
             /\ \A n \in 1..Len(denied) :
                  n > Len(denied) - BufferSize => n \in Range(audit)
        /\ \A j, k \in 1..Len(denied) : j < k /\ denied[j] = denied[k] => k - j > Window

\* Once the shutdown cascade is over the key is gone and nothing is left in a buffer,
\* though a flush failed (trigger: "Hook failures must never halt the cascade").
CascadeRunsThrough ==
    stage = "flushed" => binding = None /\ logBuffer = <<>> /\ auditBuffer = <<>>
=============================================================================
