------------------------------ MODULE FileLocks ------------------------------
(***************************************************************************)
(* One file of a secure store (packages/shared/src/security/secure-store.ts)*)
(* under the two locks of file-lock.ts: a mutex inside each process, and a  *)
(* lock file between the processes, which names its holder and which a      *)
(* waiting process removes when it takes it for stale.                      *)
(*                                                                         *)
(* Every file operation is a step.  Encryption is abstracted to the kind of *)
(* the content: sealed by this machine, plain (of an older version),        *)
(* foreign (another machine's key), or torn by a write that has not ended.  *)
(* A lock file is removed as stale when it is old, its process is gone, or  *)
(* it cannot be parsed, as one that was created and not written yet.        *)
(***************************************************************************)
EXTENDS Integers, FiniteSets

CONSTANTS Procs,       \* the processes that share the directory
          Tasks,       \* the operations a process can have under way
          MaxOps,      \* bound on the operations
          MaxAgeings,  \* bound on the locks held longer than staleMs
          None

Holders == Procs \X Tasks
ProcOf(h) == h[1]

VARIABLES locks,      \* the process's mutex: the operation that runs, or None
          lockFile,   \* the lock file: its creator, whether it is written, its age
          file,       \* the stored file
          ops,        \* what each operation is doing
          alive,      \* the processes that run
          count,      \* operations begun, and locks that have aged
          expected,   \* the version an undisturbed store would hold
          robbed,     \* a lock was removed whose holder was at work
          hurt        \* a process died between two steps of a write

vars == <<locks, lockFile, file, ops, alive, count, expected, robbed, hurt>>

Absent == [kind |-> "absent", version |-> 0]
Rest == [op |-> "none", at |-> "idle", raw |-> Absent]

\* The store may hold a file of before, by an older version or from another machine
Init ==
    /\ locks = [p \in Procs |-> None]
    /\ lockFile = None
    /\ \E k \in {"absent", "plain", "foreign"} : file = [kind |-> k, version |-> 0]
    /\ ops = [h \in Holders |-> Rest]
    /\ alive = Procs
    /\ count = [ops |-> 0, ageings |-> 0]
    /\ expected = 0
    /\ robbed = FALSE /\ hurt = FALSE

At(h, at) == ops[h].at = at /\ ProcOf(h) \in alive
Goes(h, at) == ops' = [ops EXCEPT ![h].at = at]

\* The steps between the two locks' acquisition and release
Section == {"run", "write", "fill"}
InSection(h) == ops[h].at \in Section /\ ProcOf(h) \in alive

-----------------------------------------------------------------------------
\* write, writeSecure, delete and readSecure, each under withLock
Call(h) ==
    /\ At(h, "idle") /\ count.ops < MaxOps
    /\ \E op \in {"write", "delete", "readSecure"} :
         ops' = [ops EXCEPT ![h] = [Rest EXCEPT !.op = op, !.at = "mutex"]]
    /\ count' = [count EXCEPT !.ops = @ + 1]
    /\ UNCHANGED <<locks, lockFile, file, alive, expected, robbed, hurt>>

\* withProcessLock: an operation waits for the one that runs, and looks again.
\* (FreeEarly, for a mutant: the mutex is given up before the lock file.)
FreeEarly(p) == locks[p] = None \/ \E t \in Tasks : ops[<<p, t>>].at = "release"
Free(p) == locks[p] = None

Enter(h) ==
    /\ At(h, "mutex") /\ Free(ProcOf(h))
    /\ locks' = [locks EXCEPT ![ProcOf(h)] = h]
    /\ Goes(h, "create")
    /\ UNCHANGED <<lockFile, file, alive, count, expected, robbed, hurt>>

\* The end of an operation for its process, whatever its outcome
Leave(h) ==
    /\ locks' = [locks EXCEPT ![ProcOf(h)] = IF @ = h THEN None ELSE @]
    /\ ops' = [ops EXCEPT ![h] = Rest]

\* acquireFileLock: O_EXCL creates the lock file or finds one.
\* (VacantUnsigned, for a mutant: it takes over one that is not written yet.)
VacantUnsigned == lockFile = None \/ ~lockFile.written
Vacant == lockFile = None

Create(h) ==
    /\ At(h, "create")
    /\ IF Vacant
       THEN /\ lockFile' = [by |-> h, written |-> FALSE, old |-> FALSE]
            /\ Goes(h, "sign")
       ELSE Goes(h, "judge") /\ UNCHANGED lockFile
    /\ UNCHANGED <<locks, file, alive, count, expected, robbed, hurt>>

\* The holder writes its pid and the time into it; the file may be another's by now
Sign(h) ==
    /\ At(h, "sign")
    /\ lockFile' = IF lockFile # None /\ lockFile.by = h THEN [lockFile EXCEPT !.written = TRUE]
                                                         ELSE lockFile
    /\ Goes(h, "run")
    /\ UNCHANGED <<locks, file, alive, count, expected, robbed, hurt>>

\* tryCleanStaleLock: what is read decides
Stale == \/ lockFile = None      \* gone since: the unlink is tried anyway
         \/ ~lockFile.written
         \/ lockFile.old
         \/ ProcOf(lockFile.by) \notin alive

Judge(h) ==
    /\ At(h, "judge")
    /\ Goes(h, IF Stale THEN "unlink" ELSE "wait")
    /\ UNCHANGED <<locks, lockFile, file, alive, count, expected, robbed, hurt>>

\* ... and the unlink takes whatever lock is there
Unlink(h) ==
    /\ At(h, "unlink")
    /\ lockFile' = None
    /\ robbed' = (robbed \/ (lockFile # None /\ ProcOf(lockFile.by) \in alive))
    /\ Goes(h, "wait")
    /\ UNCHANGED <<locks, file, alive, count, expected, hurt>>

\* Backoff and another try, or the timeout
Retry(h) ==
    /\ At(h, "wait")
    /\ \/ Goes(h, "create") /\ UNCHANGED locks
       \/ Leave(h)
    /\ UNCHANGED <<lockFile, file, alive, count, expected, robbed, hurt>>

\* A holder needs longer than staleMs
Age ==
    /\ lockFile # None /\ lockFile.written /\ ~lockFile.old
    /\ count.ageings < MaxAgeings
    /\ lockFile' = [lockFile EXCEPT !.old = TRUE]
    /\ count' = [count EXCEPT !.ageings = @ + 1]
    /\ UNCHANGED <<locks, file, ops, alive, expected, robbed, hurt>>

-----------------------------------------------------------------------------
\* delete, and the reading of readSecure.  A file that no key of this machine opens
\* is removed; a plain one is written again, sealed.
Run(h) ==
    /\ At(h, "run")
    /\ LET op == ops[h].op
           gone == op = "delete" \/ (op = "readSecure" /\ file.kind = "foreign")
       IN /\ file' = IF gone THEN Absent ELSE file
          /\ expected' = IF gone THEN 0 ELSE expected
          /\ ops' = [ops EXCEPT ![h].raw = file,
                                ![h].at = IF op = "write" \/ (op = "readSecure" /\ file.kind = "plain")
                                          THEN "write" ELSE "release"]
    /\ UNCHANGED <<locks, lockFile, alive, count, robbed, hurt>>

\* writeFile truncates, and then writes; a write's content is new, a migration's is
\* what was read
Truncate(h) ==
    /\ At(h, "write")
    /\ file' = [kind |-> "torn", version |-> 0]
    /\ Goes(h, "fill")
    /\ UNCHANGED <<locks, lockFile, alive, count, expected, robbed, hurt>>
Fill(h) ==
    /\ At(h, "fill")
    /\ LET version == IF ops[h].op = "write" THEN count.ops ELSE ops[h].raw.version
       IN /\ file' = [kind |-> "sealed", version |-> version]
          /\ expected' = IF ops[h].op = "write" THEN version ELSE expected
    /\ Goes(h, "release")
    /\ UNCHANGED <<locks, lockFile, alive, count, robbed, hurt>>

\* The release removes the lock file, its own or not, and then the mutex
Release(h) ==
    /\ At(h, "release")
    /\ lockFile' = None
    /\ robbed' = (robbed \/ (lockFile # None /\ lockFile.by # h))
    /\ Leave(h)
    /\ UNCHANGED <<file, alive, count, expected, hurt>>

\* A process dies, with its mutex and its operations, and leaves its files
Crash(p) ==
    /\ p \in alive /\ Cardinality(alive) > 1
    /\ alive' = alive \ {p}
    /\ hurt' = (hurt \/ \E t \in Tasks : ops[<<p, t>>].at \in {"write", "fill"})
    /\ ops' = [h \in Holders |-> IF ProcOf(h) = p THEN Rest ELSE ops[h]]
    /\ locks' = [locks EXCEPT ![p] = None]
    /\ UNCHANGED <<lockFile, file, count, expected, robbed>>

Next ==
    \/ \E h \in Holders :
         \/ Call(h) \/ Enter(h) \/ Create(h) \/ Sign(h) \/ Judge(h) \/ Unlink(h) \/ Retry(h)
         \/ Run(h) \/ Truncate(h) \/ Fill(h) \/ Release(h)
    \/ Age
    \/ \E p \in Procs : Crash(p)

Spec == Init /\ [][Next]_vars

-----------------------------------------------------------------------------
TypeOK ==
    /\ locks \in [Procs -> Holders \cup {None}]
    /\ lockFile \in [by : Holders, written : BOOLEAN, old : BOOLEAN] \cup {None}
    /\ file.kind \in {"absent", "plain", "foreign", "sealed", "torn"}
    /\ \A h \in Holders :
         ops[h].at \in {"idle", "mutex", "create", "sign", "judge", "unlink", "wait", "release"}
                       \cup Section
    /\ alive \in SUBSET Procs /\ expected \in 0..MaxOps

\* Inside one process the operations on a file follow one another, however many wait.
\* (file-lock.ts:21-46)
OneAtATimeInside ==
    \A g, h \in Holders :
      g # h /\ ProcOf(g) = ProcOf(h) /\ ProcOf(g) \in alive =>
        ~(ops[g].at \notin {"idle", "mutex"} /\ ops[h].at \notin {"idle", "mutex"})

\* As long as no lock was taken from a holder at work, the store behaves as one that is
\* used by one operation at a time: two sections never overlap, and a file at rest is
\* that of the last write or deletion, unless a process died while it wrote it.
\* (file-lock.ts:105-146, secure-store.ts:153-166)
UnrobbedIsSequential ==
    ~robbed =>
      /\ \A g, h \in Holders : InSection(g) /\ InSection(h) => g = h
      /\ ~hurt /\ (\A h \in Holders : ~InSection(h)) =>
           file.kind # "torn" /\ file.version = expected

\* What the store promises of several processes: "Multiple runners sharing the same
\* storage directory are safe without external coordination" (secure-store.ts:135-136).
\* A waiting process takes a lock that is created and not yet written for a stale one.
OneAtATime ==
    \A g, h \in Holders : InSection(g) /\ InSection(h) => g = h
=============================================================================
