------------------------------ MODULE AuditLog ------------------------------
(***************************************************************************)
(* The audit log of a sandboxed plugin                                      *)
(* (packages/core/src/sandbox/audit-logger.ts): a buffer, flushes that any  *)
(* number of callers start, the stream of the current file, its rotation    *)
(* and the disposal.                                                        *)
(*                                                                         *)
(* A flush writes until it has to wait: for the stream to drain, or for the *)
(* files of a rotation.  A stream that has ended, or that could not open,   *)
(* drains no more: a flush that waits for it then waits for ever.  An entry *)
(* is a number, and a file holds MaxFileSize of them.                       *)
(***************************************************************************)
EXTENDS FiniteSets, Sequences, Functions

CONSTANTS
    BufferSize,
    MaxFileSize,
    MaxFiles,
    MaxLogged,       \* bound: entries
    MaxFlushes       \* bound: flushes under way

VARIABLES
    buffer,
    dirReady,
    stream,          \* the current stream by number, 0 if there is none
    streams,         \* the streams made: their state, and the entries of their files
    currentFileSize,
    flushes,         \* flushes under way
    disposal,        \* "no", "flushing", "closing", "done"
    logged,          \* number of entries logged
    deleted,         \* history: entries of files that a rotation removed
    lost             \* history: entries that no file will get

fileVars == <<dirReady, stream, streams, currentFileSize>>
vars == <<buffer, fileVars, flushes, disposal, logged, deleted, lost>>

Init ==
    /\ buffer = <<>> /\ dirReady = FALSE
    /\ stream = 0 /\ streams = <<>> /\ currentFileSize = 0
    /\ flushes = {} /\ disposal = "no"
    /\ logged = 0 /\ deleted = {} /\ lost = {}

\* A form of Taken that leaves the entries in the buffer.
TakenCopied(entries) == entries

\* What the buffer keeps when a flush takes its entries.
Taken(entries) == <<>>

\* The flush that takes some entries; by: "dispose" when the disposal waits for it.
\* Its entries name it.
Flush(entries, by) ==
    [entries |-> entries, stream |-> 0, by |-> by, at |-> "dir"]

\* Flushes with a wait between them: one that writes has the thread.
NobodyWrites == \A f \in flushes : f.at # "write"

\* addEntry: a full buffer is flushed.
Log ==
    LET entries == Append(buffer, logged + 1)
        full == Len(entries) >= BufferSize
    IN  /\ NobodyWrites /\ logged < MaxLogged
        /\ full => Cardinality(flushes) < MaxFlushes
        /\ logged' = logged + 1
        /\ buffer' = IF full THEN Taken(entries) ELSE entries
        /\ flushes' = IF full THEN flushes \cup {Flush(entries, "full")} ELSE flushes
        /\ UNCHANGED <<fileVars, disposal, deleted, lost>>

\* The timer's flush, until the disposal clears the timer.
FlushTimer ==
    /\ NobodyWrites /\ disposal = "no"
    /\ buffer # <<>> /\ Cardinality(flushes) < MaxFlushes
    /\ buffer' = Taken(buffer)
    /\ flushes' = flushes \cup {Flush(buffer, "timer")}
    /\ UNCHANGED <<fileVars, disposal, logged, deleted, lost>>

Becomes(f, g) == flushes' = (flushes \ {f}) \cup {g}
Loses(f) == lost' = lost \cup Range(f.entries)

\* A flush fails: its error is reported, its entries are gone.
Fails(f) ==
    /\ flushes' = flushes \ {f}
    /\ Loses(f)

\* ensureDir and getStream: the stream there is, open or not, or a new one.
Prepare(f) ==
    /\ f.at = "dir"
    /\ \/ /\ ~dirReady
          /\ Fails(f)
          /\ UNCHANGED fileVars
       \/ /\ dirReady' = TRUE
          /\ UNCHANGED lost
          /\ IF stream # 0
             THEN /\ Becomes(f, [f EXCEPT !.at = "write", !.stream = stream])
                  /\ UNCHANGED <<stream, streams, currentFileSize>>
             ELSE /\ stream' = Len(streams) + 1
                  /\ streams' = Append(streams, [state |-> "opening", entries |-> <<>>])
                  /\ currentFileSize' = 0
                  /\ Becomes(f, [f EXCEPT !.at = "open", !.stream = Len(streams) + 1])
    /\ UNCHANGED <<buffer, disposal, logged, deleted>>

\* The stream is open, or cannot be opened; it stays the current one all the same.
Opened(f) ==
    /\ f.at = "open"
    /\ \/ /\ Becomes(f, [f EXCEPT !.at = "write"])
          /\ streams' = [streams EXCEPT ![f.stream].state =
                            IF @ = "opening" THEN "open" ELSE @]
          /\ UNCHANGED lost
       \/ /\ streams[f.stream].state = "opening"
          /\ Fails(f)
          /\ streams' = [streams EXCEPT ![f.stream].state = "failed"]
    /\ UNCHANGED <<buffer, dirReady, stream, currentFileSize, disposal, logged, deleted>>

IfFull(size) == IF size >= MaxFileSize THEN "rotate" ELSE "write"

Takes(s) == streams[s].state \in {"opening", "open"}

\* stream.write of the next entry, and what the flush goes on to: the stream is full,
\* the file is full, or there is no more.
Write(f) ==
    LET rest == [f EXCEPT !.entries = Tail(@)]
    IN  /\ f.at = "write" /\ f.entries # <<>> /\ Takes(f.stream)
        /\ streams' = [streams EXCEPT ![f.stream].entries = Append(@, Head(f.entries))]
        /\ currentFileSize' = currentFileSize + 1
        /\ \E full \in BOOLEAN :
             Becomes(f, IF full THEN [rest EXCEPT !.at = "drain"]
                        ELSE [rest EXCEPT !.at = IfFull(currentFileSize')])
        /\ UNCHANGED <<buffer, dirReady, stream, disposal, logged, deleted, lost>>

\* A write after the stream's end: it fails, and no drain follows.
WriteAfterEnd(f) ==
    /\ f.at = "write" /\ f.entries # <<>> /\ ~Takes(f.stream)
    /\ Becomes(f, [f EXCEPT !.at = "stuck", !.entries = <<>>])
    /\ Loses(f)
    /\ UNCHANGED <<buffer, fileVars, disposal, logged, deleted>>

Drained(f) ==
    /\ f.at = "drain" /\ NobodyWrites
    /\ IF Takes(f.stream)
       THEN /\ Becomes(f, [f EXCEPT !.at = IfFull(currentFileSize)])
            /\ UNCHANGED lost
       ELSE /\ Becomes(f, [f EXCEPT !.at = "stuck", !.entries = <<>>])
            /\ Loses(f)
    /\ UNCHANGED <<buffer, fileVars, disposal, logged, deleted>>

\* A stream ends; what was written to it reaches its file.
End(s) == IF s = 0 THEN streams ELSE [streams EXCEPT ![s].state = "ended"]

\* rotate and cleanupOldFiles: the current stream ends, whichever the flush writes to,
\* and only the newest files stay.  Removing them may fail.
Rotate(f) ==
    LET old == 1..(Len(streams) - MaxFiles)
    IN  /\ f.at = "rotate"
        /\ stream' = 0
        /\ \/ /\ streams' = [s \in DOMAIN streams |->
                            IF s \in old THEN [End(stream)[s] EXCEPT !.entries = <<>>]
                            ELSE End(stream)[s]]
              /\ deleted' = deleted \cup UNION {Range(streams[s].entries) : s \in old}
           \/ streams' = End(stream) /\ UNCHANGED deleted
        /\ Becomes(f, [f EXCEPT !.at = "write"])
        /\ UNCHANGED <<buffer, dirReady, currentFileSize, disposal, logged, lost>>

Finish(f) ==
    /\ f.at = "write" /\ f.entries = <<>>
    /\ flushes' = flushes \ {f}
    /\ UNCHANGED <<buffer, fileVars, disposal, logged, deleted, lost>>

\* dispose: it waits for a flush of its own, and not for those under way.
Dispose ==
    /\ disposal = "no" /\ NobodyWrites
    /\ disposal' = "flushing"
    /\ buffer' = Taken(buffer)
    /\ flushes' = flushes \cup (IF buffer = <<>> THEN {} ELSE {Flush(buffer, "dispose")})
    /\ UNCHANGED <<fileVars, logged, deleted, lost>>

DisposeEnds ==
    /\ disposal = "flushing" /\ NobodyWrites
    /\ \A f \in flushes : f.by # "dispose"
    /\ disposal' = "done"
    /\ stream' = 0 /\ streams' = End(stream)
    /\ UNCHANGED <<buffer, dirReady, currentFileSize, flushes, logged, deleted, lost>>

Step(f) == Prepare(f) \/ Opened(f) \/ Drained(f) \/ Rotate(f)

Next ==
    \/ Log \/ FlushTimer \/ Dispose \/ DisposeEnds
    \/ \E f \in flushes : \/ NobodyWrites /\ Step(f)
                          \/ Write(f) \/ WriteAfterEnd(f) \/ Finish(f)

-----------------------------------------------------------------------------
(* Properties. *)

Written == (UNION {Range(s.entries) : s \in Range(streams)}) \cup deleted
UnderWay == UNION {Range(f.entries) : f \in flushes}

\* Every entry is in one place: the buffer, one flush, one line of one file, or lost
\* with its flush.
EntriesAreKept ==
    /\ Written \cup UnderWay \cup Range(buffer) \cup lost = 1..logged
    /\ Cardinality(Written) + Cardinality(UnderWay) + Len(buffer)
         + Cardinality(lost) = logged
    /\ \A s, t \in DOMAIN streams : \A j \in DOMAIN streams[s].entries :
          \A k \in DOMAIN streams[t].entries :
             streams[s].entries[j] = streams[t].entries[k] => s = t /\ j = k
=============================================================================
