------------------------- MODULE SessionPersistence -------------------------
(***************************************************************************)
(* The sessions a daemon keeps on disk: the debounced saves of its inputs, *)
(* the steps of a save, the hourly cleanup and the shutdown                *)
(* (apps/runner/src/daemon/session-persistence.ts and its callers in       *)
(* daemon-entry.ts).                                                       *)
(*                                                                         *)
(* A save writes three files in turn, each to a temporary file that is     *)
(* renamed, and awaits every operation; a deletion unlinks two and         *)
(* rewrites the index.  These are jobs, one step per file operation, and   *)
(* any number may be under way.  A snapshot is known by the call of save() *)
(* that took it, a later one being longer; truncation to maxHistorySize is *)
(* left out.  A crash may follow any step: what load() then finds is what  *)
(* the files hold.                                                         *)
(*                                                                         *)
(* writeFile opens (and truncates) its file, then writes: a file that is   *)
(* renamed in between takes the open descriptor along.                     *)
(***************************************************************************)
EXTENDS Naturals, FiniteSets, Sequences

CONSTANTS
    Sessions,
    SaveEvery,       \* calls of save() after which it does not wait (5)
    IdleTTL,         \* session.persistence.idleTTL, in days
    MaxCalls,        \* bound: calls of save() for a session
    MaxFailures,     \* bound: file operations that fail
    MaxDay,          \* bound: days the daemon runs
    MaxJobs          \* bound: jobs under way at once

ASSUME PersistenceAssumption ==
    /\ SaveEvery \in Nat \ {0}
    /\ {IdleTTL, MaxCalls, MaxFailures, MaxDay, MaxJobs} \subseteq Nat

VARIABLES
    count,           \* count[s]: pendingMessageCounts
    timer,           \* timer[s]: the armed or fired timer debouncedSaves knows, 0 if none
    armed,           \* timers that have not fired, by the call that set them
    jobs,            \* saves and deletions under way
    tmp, final,      \* the temporary and the final files
    doomed,          \* sessions the cleanup under way has still to delete
    stopping,        \* the shutdown's phase, and the sessions it has still to save
    day,
    failures,
    calls,           \* calls[s]: calls of save() for s so far
    landed,          \* history: the call whose snapshot was last put on disk
    lastUse,         \* history: day of the last call of save() for s
    overlapped,      \* history: sessions used while a job of theirs was under way
    crowded          \* history: two jobs were under way at once

storeVars == <<count, timer, armed>>
fileVars == <<tmp, final>>
clockVars == <<day, failures>>
vars == <<storeVars, jobs, fileVars, doomed, stopping, clockVars,
          calls, landed, lastUse, overlapped, crowded>>

Index == <<"index">>
Files == {Index} \cup (Sessions \X {"meta", "messages"})

\* What a file holds: no file, nothing yet, a whole text, or pieces of two.
Absent == [kind |-> "absent"]
Empty  == [kind |-> "empty"]
Mixed  == [kind |-> "mixed"]
Whole(data) == [kind |-> "whole", data |-> data]
IsWhole(c) == c.kind = "whole"

Init ==
    /\ count = [s \in Sessions |-> 0]
    /\ timer = [s \in Sessions |-> 0]
    /\ armed = {}
    /\ jobs = {}
    /\ tmp = [f \in Files |-> Absent] /\ final = [f \in Files |-> Absent]
    /\ doomed = {}
    /\ stopping = [phase |-> "no", left |-> {}]
    /\ day = 0 /\ failures = 0
    /\ calls = [s \in Sessions |-> 0]
    /\ landed = [s \in Sessions |-> 0]
    /\ lastUse = [s \in Sessions |-> 0]
    /\ overlapped = {} /\ crowded = FALSE

Running == stopping.phase \in {"no", "saving"}

-----------------------------------------------------------------------------
(* Jobs. *)

Rewrite(file) == <<<<file, "open">>, <<file, "write">>, <<file, "rename">>>>
UpdateIndex == <<<<"index", "read">>>> \o Rewrite("index")

\* saveImmediate and delete, as the file operations they await in turn.
Program(kind) ==
    IF kind = "delete"
    THEN <<<<"meta", "unlink">>, <<"messages", "unlink">>>> \o UpdateIndex
    ELSE Rewrite("meta") \o Rewrite("messages") \o UpdateIndex

\* call: the call of save() it carries out; pos: its next operation; at: where
\* the file it has opened is by now; idx: the index it has read.
NewJob(kind, s, call) ==
    [kind |-> kind, s |-> s, call |-> call, pos |-> 1, at |-> "none", idx |-> {}]

JobsOf(s) == {j \in jobs : j.s = s}

\* A job of s begins beside those under way.
Begin(j) ==
    /\ Cardinality(jobs) < MaxJobs
    /\ jobs' = jobs \cup {j}
    /\ crowded' = (crowded \/ jobs # {})

Op(j) == Program(j.kind)[j.pos]
File(j) == IF Op(j)[1] = "index" THEN Index ELSE <<j.s, Op(j)[1]>>

(* Faulty forms of NewIndex, for the mutation runs of the README. *)
NewIndexRelists(j) == {e \in j.idx : e.s # j.s} \cup {[s |-> j.s, n |-> j.call]}
NewIndexKeeps(j) ==
    IF j.kind = "delete" THEN j.idx
    ELSE {e \in j.idx : e.s # j.s} \cup {[s |-> j.s, n |-> j.call]}

\* The index with the job's session listed anew, or no longer.
NewIndex(j) ==
    LET others == {e \in j.idx : e.s # j.s}
    IN  IF j.kind = "delete" THEN others ELSE others \cup {[s |-> j.s, n |-> j.call]}

\* Session metadata does not change as long as the session lives.
DataOf(j) ==
    CASE Op(j)[1] = "meta" -> 0
      [] Op(j)[1] = "messages" -> j.call
      [] OTHER -> NewIndex(j)

Longer(f, a, b) == IF f = Index THEN Cardinality(a) > Cardinality(b) ELSE a > b

\* What a file that holds c may hold once `data` is written from its start.
Over(f, c, data) ==
    CASE c.kind = "whole" -> {IF Longer(f, c.data, data) THEN Mixed ELSE Whole(data)}
      [] c.kind = "mixed" -> {Mixed, Whole(data)}
      [] OTHER -> {Whole(data)}

Without(j) == jobs \ {j}

\* Descriptors of f other than j's follow its inode to where it is now.
Moved(j, from, to) ==
    {IF File(k) = File(j) /\ k.at = from THEN [k EXCEPT !.at = to] ELSE k : k \in Without(j)}

\* j has done its operation and goes on; `others` are the other jobs.
Advance(j, others) == jobs' = others \cup {[j EXCEPT !.pos = @ + 1, !.at = "none"]}

\* A save is complete: the message count starts anew and the timer is forgotten,
\* whichever timer that is by now.
Settle(j) ==
    \/ /\ j.kind = "delete"
       /\ UNCHANGED <<count, timer>>
    \/ /\ j.kind # "delete"
       /\ count' = [count EXCEPT ![j.s] = 0]
       /\ timer' = [timer EXCEPT ![j.s] = 0]

\* The job ends early, its save rejected: a timer's is logged, an input's is
\* reported to its client, and the shutdown gives up and exits.
Abandon(j) ==
    /\ jobs' = Without(j)
    /\ stopping' = IF j.kind = "stop" THEN [phase |-> "exited", left |-> {}] ELSE stopping
    /\ UNCHANGED <<count, timer>>

-----------------------------------------------------------------------------
(* The file operations. *)

Performs(j, op) ==
    /\ Running
    /\ Op(j)[2] = op
    /\ UNCHANGED <<armed, doomed, clockVars, calls, lastUse, overlapped, crowded>>

\* A faulty form of Open: the final file itself is opened.
OpenFinal(j) ==
    /\ Performs(j, "open")
    /\ final' = [final EXCEPT ![File(j)] = Empty]
    /\ jobs' = Without(j) \cup {[j EXCEPT !.pos = @ + 1, !.at = "final"]}
    /\ UNCHANGED <<tmp, stopping, count, timer, landed>>

Open(j) ==
    /\ Performs(j, "open")
    /\ tmp' = [tmp EXCEPT ![File(j)] = Empty]
    /\ jobs' = Without(j) \cup {[j EXCEPT !.pos = @ + 1, !.at = "tmp"]}
    /\ UNCHANGED <<final, stopping, count, timer, landed>>

Write(j) ==
    /\ Performs(j, "write")
    /\ LET f == File(j)
       IN  \/ /\ j.at = "tmp"
              /\ \E c \in Over(f, tmp[f], DataOf(j)) : tmp' = [tmp EXCEPT ![f] = c]
              /\ UNCHANGED final
           \/ /\ j.at = "final"
              /\ \E c \in Over(f, final[f], DataOf(j)) : final' = [final EXCEPT ![f] = c]
              /\ UNCHANGED tmp
           \/ /\ j.at = "gone"
              /\ UNCHANGED fileVars
    /\ Advance(j, Without(j))
    /\ UNCHANGED <<stopping, count, timer, landed>>

\* The descriptors open on the file that is replaced lose it.
Renamed(j) ==
    {IF File(k) # File(j) THEN k
     ELSE IF k.at = "tmp" THEN [k EXCEPT !.at = "final"]
     ELSE IF k.at = "final" THEN [k EXCEPT !.at = "gone"]
     ELSE k : k \in Without(j)}

\* Renaming replaces the final file, unless another job has renamed the temporary
\* file away; the index is the last file of a job.
Rename(j) ==
    /\ Performs(j, "rename")
    /\ LET f == File(j)
       IN  \/ /\ tmp[f] = Absent
              /\ Abandon(j)
              /\ UNCHANGED <<fileVars, landed>>
           \/ /\ tmp[f] # Absent
              /\ final' = [final EXCEPT ![f] = tmp[f]]
              /\ tmp' = [tmp EXCEPT ![f] = Absent]
              /\ landed' = IF Op(j)[1] = "messages" THEN [landed EXCEPT ![j.s] = j.call]
                                                     ELSE landed
              /\ UNCHANGED stopping
              /\ \/ f # Index /\ Advance(j, Renamed(j)) /\ UNCHANGED <<count, timer>>
                 \/ f = Index /\ jobs' = Renamed(j) /\ Settle(j)

\* A save rebuilds an index it cannot read; a deletion leaves it alone.
ReadIndex(j) ==
    /\ Performs(j, "read")
    /\ LET c == final[Index]
       IN  \/ /\ IsWhole(c) \/ j.kind # "delete"
              /\ jobs' = Without(j) \cup
                          {[j EXCEPT !.pos = @ + 1, !.idx = IF IsWhole(c) THEN c.data ELSE {}]}
           \/ /\ ~IsWhole(c) /\ j.kind = "delete"
              /\ jobs' = Without(j)
    /\ UNCHANGED <<fileVars, stopping, count, timer, landed>>

Unlink(j) ==
    /\ Performs(j, "unlink")
    /\ final' = [final EXCEPT ![File(j)] = Absent]
    /\ Advance(j, Moved(j, "final", "gone"))
    /\ UNCHANGED <<tmp, stopping, count, timer, landed>>

\* The operation fails: a deletion goes on to the index, or gives that up.
Fails(j) ==
    /\ Running
    /\ failures < MaxFailures
    /\ failures' = failures + 1
    /\ \/ /\ Op(j)[2] = "unlink"
          /\ jobs' = Without(j) \cup {[j EXCEPT !.pos = 3]}
          /\ UNCHANGED <<stopping, count, timer>>
       \/ /\ Op(j)[2] # "unlink"
          /\ Abandon(j)
    /\ UNCHANGED <<armed, fileVars, doomed, day, calls, landed, lastUse, overlapped, crowded>>

-----------------------------------------------------------------------------
(* Who saves and deletes. *)

(* Faulty forms of the next definitions, for the mutation runs of the README. *)
DueLate(n) == n > SaveEvery
CancelNone(s) == armed
SetNone(timers, s, call) == timers

\* Five or more pending messages do not wait.
Due(n) == n >= SaveEvery

\* clearTimeout on the timer the map knows: the timers that stay armed.
Cancel(s) == {t \in armed : ~(t.s = s /\ t.call = timer[s])}

SetTimer(timers, s, call) == timers \cup {[s |-> s, call |-> call]}

\* save(): a call that is due saves at once, the others set a timer with the
\* snapshot of now.
Save(s, kind) ==
    LET call == calls[s] + 1
    IN  /\ call <= MaxCalls
        /\ calls' = [calls EXCEPT ![s] = call]
        /\ lastUse' = [lastUse EXCEPT ![s] = day]
        /\ count' = [count EXCEPT ![s] = @ + 1]
        /\ overlapped' = overlapped \cup {k \in {s} : JobsOf(k) # {}}
        /\ \/ /\ Due(count'[s])
              /\ armed' = Cancel(s)
              /\ Begin(NewJob(kind, s, call))
              /\ UNCHANGED timer
           \/ /\ ~Due(count'[s])
              /\ armed' = SetTimer(Cancel(s), s, call)
              /\ timer' = [timer EXCEPT ![s] = call]
              /\ UNCHANGED <<jobs, crowded>>
        /\ UNCHANGED <<fileVars, doomed, clockVars, landed>>

\* handleInput, after it has pushed the input.
Input(s) ==
    /\ Running
    /\ Save(s, "call")
    /\ UNCHANGED stopping

\* Ten seconds after the call.
Fire(t) ==
    /\ Running
    /\ armed' = armed \ {t}
    /\ Begin(NewJob("timer", t.s, t.call))
    /\ overlapped' = overlapped \cup {k \in {t.s} : JobsOf(k) # {}}
    /\ UNCHANGED <<count, timer, fileVars, doomed, stopping, clockVars,
                   calls, landed, lastUse>>

\* listSessions: an index that cannot be read is rebuilt from the directory.
Listed ==
    CASE final[Index].kind = "whole"  -> {e.s : e \in final[Index].data}
      [] final[Index].kind = "absent" -> {}
      [] OTHER -> {s \in Sessions : IsWhole(final[<<s, "meta">>])}

\* cleanupExpired.  A session's updatedAt is the day of its creation, day 0: the
\* session manager never changes it.
Cleanup ==
    /\ stopping.phase = "no"
    /\ doomed = {} /\ \A j \in jobs : j.kind # "delete"
    /\ day > IdleTTL
    /\ Listed # {}
    /\ doomed' = Listed
    /\ UNCHANGED <<storeVars, jobs, fileVars, stopping, clockVars,
                   calls, landed, lastUse, overlapped, crowded>>

\* One deletion after the other.
DeleteNext(s) ==
    /\ Running
    /\ s \in doomed /\ \A j \in jobs : j.kind # "delete"
    /\ doomed' = doomed \ {s}
    /\ Begin(NewJob("delete", s, 0))
    /\ overlapped' = overlapped \cup
           {k \in {s} : JobsOf(k) # {} \/ \E t \in armed : t.s = k}
    /\ UNCHANGED <<storeVars, fileVars, stopping, clockVars, calls, landed, lastUse>>

NextDay ==
    /\ Running
    /\ day < MaxDay
    /\ day' = day + 1
    /\ UNCHANGED <<storeVars, jobs, fileVars, doomed, stopping, failures,
                   calls, landed, lastUse, overlapped, crowded>>

Shutdown ==
    /\ stopping.phase = "no"
    /\ stopping' = [phase |-> "saving", left |-> Sessions]
    /\ UNCHANGED <<storeVars, jobs, fileVars, doomed, clockVars,
                   calls, landed, lastUse, overlapped, crowded>>

AwaitsSave == \E j \in jobs : j.kind = "stop"

\* The shutdown's loop over the sessions awaits save(), which waits for the disk
\* only when it saves at once.
ShutdownSave(s) ==
    /\ stopping.phase = "saving" /\ s \in stopping.left
    /\ ~AwaitsSave
    /\ stopping' = [stopping EXCEPT !.left = @ \ {s}]
    /\ Save(s, "stop")

\* process.exit: timers and whatever is under way are gone.
Ends(phase) ==
    /\ stopping' = [phase |-> phase, left |-> {}]
    /\ armed' = {} /\ jobs' = {} /\ doomed' = {}
    /\ UNCHANGED <<count, timer, fileVars, clockVars,
                   calls, landed, lastUse, overlapped, crowded>>

Exit ==
    /\ stopping.phase = "saving" /\ stopping.left = {}
    /\ ~AwaitsSave
    /\ Ends("saved")

JobStep ==
    \E j \in jobs : Open(j) \/ Write(j) \/ Rename(j) \/ ReadIndex(j) \/ Unlink(j) \/ Fails(j)

Next ==
    \/ \E s \in Sessions : Input(s) \/ DeleteNext(s) \/ ShutdownSave(s)
    \/ \E t \in armed : Fire(t)
    \/ JobStep
    \/ Cleanup \/ NextDay
    \/ Shutdown \/ Exit

\* Timers fire and file operations end.
Fairness == WF_vars(JobStep) /\ WF_vars(\E t \in armed : Fire(t))

Spec == Init /\ [][Next]_vars /\ Fairness

-----------------------------------------------------------------------------
(* Properties. *)

Messages(s) == final[<<s, "messages">>]

Contents == {Absent, Empty, Mixed} \cup [kind : {"whole"}, data : 0..MaxCalls]
IndexContents == {Absent, Empty, Mixed}
                     \cup [kind : {"whole"}, data : SUBSET [s : Sessions, n : 1..MaxCalls]]

TypeOK ==
    /\ count \in [Sessions -> Nat] /\ timer \in [Sessions -> 0..MaxCalls]
    /\ armed \subseteq [s : Sessions, call : 1..MaxCalls]
    /\ \A j \in jobs :
          /\ j.kind \in {"call", "timer", "stop", "delete"} /\ j.s \in Sessions
          /\ j.call \in 0..MaxCalls
          /\ j.pos \in DOMAIN Program(j.kind)
          /\ j.at \in {"none", "tmp", "final", "gone"}
          /\ j.idx \in SUBSET [s : Sessions, n : 1..MaxCalls]
    /\ \A f \in Files \ {Index} : tmp[f] \in Contents /\ final[f] \in Contents
    /\ tmp[Index] \in IndexContents /\ final[Index] \in IndexContents
    /\ doomed \subseteq Sessions
    /\ stopping \in [phase : {"no", "saving", "saved", "exited"},
                      left : SUBSET Sessions]
    /\ day \in 0..MaxDay /\ failures \in 0..MaxFailures
    /\ calls \in [Sessions -> 0..MaxCalls]
    /\ \A s \in Sessions : landed[s] \in 0..calls[s]
    /\ lastUse \in [Sessions -> 0..MaxDay]
    /\ overlapped \subseteq Sessions /\ crowded \in BOOLEAN

\* Whenever the process ends, load() finds each session's files whole or finds
\* none: no step of a save leaves less, unless saves of the session overlapped.
FilesAreWhole ==
    \A s \in Sessions \ overlapped :
        \A name \in {"meta", "messages"} : final[<<s, name>>].kind \in {"absent", "whole"}

\* A crash loses fewer than SaveEvery calls of save(), unless an operation failed
\* or saves of the session overlapped: what is not on disk is counted, and at the
\* limit a save is under way.
LossIsBounded ==
    \A s \in Sessions \ overlapped :
        LET loss == calls[s] - landed[s]
        IN  /\ loss <= count[s]
            /\ loss < SaveEvery \/ JobsOf(s) # {} \/ failures > 0 \/ ~Running

\* A session at rest has its newest snapshot on disk: no call of save() is
\* forgotten by a timer that was cleared or a map entry that was deleted.
AtRestIsSaved ==
    \A s \in Sessions \ overlapped :
        Running /\ failures = 0 /\ JobsOf(s) = {} /\ (\A t \in armed : t.s # s) =>
            /\ landed[s] = calls[s]
            /\ IsWhole(Messages(s)) => Messages(s).data = calls[s]

\* At rest the index lists the sessions on disk with their message counts, unless
\* two jobs, of whatever sessions, were ever under way at once.
IndexAgrees ==
    Running /\ ~crowded /\ failures = 0 /\ jobs = {} =>
        LET listed == IF IsWhole(final[Index]) THEN final[Index].data ELSE {}
        IN  listed = {[s |-> s, n |-> Messages(s).data] :
                         s \in {k \in Sessions : IsWhole(Messages(k))}}

\* Every call's snapshot, or a newer one, reaches the disk while the daemon runs.
CallsLand ==
    \A s \in Sessions, n \in 1..MaxCalls :
        calls[s] >= n ~>
            (landed[s] >= n \/ s \in overlapped \/ failures > 0 \/ ~Running)

-----------------------------------------------------------------------------
(* What the repository says and the code does not do. *)

\* "[daemon] All sessions saved", and then the daemon exits.
ShutdownSaves ==
    stopping.phase = "saved" =>
        \A s \in Sessions : Messages(s) = Whole(calls[s])

\* "Cleanup expired sessions based on idle TTL": only sessions not used for as long.
OnlyIdleExpire == \A j \in jobs : j.kind = "delete" => day - lastUse[j.s] > IdleTTL
=============================================================================
