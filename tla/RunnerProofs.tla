---------------------------- MODULE RunnerProofs ----------------------------
(***************************************************************************)
(* Theorems of the components RunnerParts composes.                         *)
(***************************************************************************)
EXTENDS RunnerParts, FiniteSetTheorems, SequenceTheorems, WellFoundedInduction, TLAPS


FileKinds == {"absent", "plain", "foreign", "sealed", "torn"}
LockLabels == {"idle", "mutex", "create", "sign", "judge", "unlink", "wait", "release"} \cup Locks!Section
Texts == [kind : FileKinds, version : 0..MaxUpdates]
LockFiles == [by : Locks!Holders, written : BOOLEAN, old : BOOLEAN]
LockOperations == [op : {"none", "write", "delete", "readSecure"}, at : LockLabels, raw : Texts]

\* None is neither an operation nor a lock file.
LockBounds ==
    /\ None \notin Locks!Holders /\ None \notin LockFiles
    /\ MaxUpdates \in Nat /\ MaxAgeings \in Nat

-----------------------------------------------------------------------------
(* The inductive invariant. *)

LocksState ==
    /\ locks \in [LockProcs -> Locks!Holders \cup {None}]
    /\ lockFile \in LockFiles \cup {None}
    /\ file \in Texts
    /\ updates \in [Locks!Holders -> LockOperations]
    /\ alive \in SUBSET LockProcs /\ expected \in 0..MaxUpdates
    /\ count \in [ops : 0..MaxUpdates, ageings : 0..MaxAgeings]

\* What a process did died with it.
Buried == \A h \in Locks!Holders : Locks!ProcOf(h) \notin alive => updates[h].at = "idle"

\* The mutex of a process names the operation that is past it.
Mutexed == \A h \in Locks!Holders : updates[h].at \notin {"idle", "mutex"} => locks[Locks!ProcOf(h)] = h

\* From the creation of the lock file to its release.
Holding == {"sign", "release"} \cup Locks!Section

\* The lock file names the operation that holds it.
Locked == \A h \in Locks!Holders : updates[h].at \in Holding => lockFile # None /\ lockFile.by = h

\* A file that is not being filled is whole and the last one written, and a
\* migration under way has read that one.
Stored ==
    /\ (\A h \in Locks!Holders : updates[h].at # "fill") => file.kind # "torn" /\ file.version = expected
    /\ \A h \in Locks!Holders : updates[h].at \in {"write", "fill"} /\ updates[h].op # "write" =>
           updates[h].raw.version = expected

LocksInv ==
    /\ LocksState /\ Buried /\ Mutexed
    /\ ~robbed => Locked
    /\ ~robbed /\ ~hurt => Stored

-----------------------------------------------------------------------------
LEMMA HolderParts == \A h \in Locks!Holders : h = <<Locks!ProcOf(h), h[2]>> /\ Locks!ProcOf(h) \in LockProcs
BY DEF Locks!Holders, Locks!ProcOf

LEMMA LocksInit ==
    ASSUME LockBounds, Locks!Init
    PROVE  LocksInv
<1>1. Locks!Rest \in LockOperations /\ Locks!Rest.at = "idle"
  BY DEF LockBounds, Locks!Rest, LockOperations, LockLabels, Texts, FileKinds, Locks!Absent
<1>2. LocksState
  BY <1>1 DEF LockBounds, Locks!Init, LocksState, Texts, FileKinds
<1>3. \A h \in Locks!Holders : updates[h].at = "idle"
  BY <1>1 DEF Locks!Init
<1>4. Buried /\ Mutexed /\ Locked
  BY <1>3 DEF Buried, Mutexed, Locked, Holding, Locks!Section
<1>5. Stored
  BY <1>3 DEF Locks!Init, Stored
<1> QED
  BY <1>2, <1>4, <1>5 DEF LocksInv

\* An operation that goes to another label, and no other operation with it.
LEMMA GoesTo ==
    ASSUME LocksState, NEW h \in Locks!Holders, NEW next \in LockLabels, Locks!Goes(h, next)
    PROVE  /\ updates' \in [Locks!Holders -> LockOperations]
           /\ updates'[h].at = next /\ updates'[h].op = updates[h].op /\ updates'[h].raw = updates[h].raw
           /\ \A g \in Locks!Holders : g # h => updates'[g] = updates[g]
BY DEF LocksState, Locks!Goes, LockOperations

LEMMA LeavesTo ==
    ASSUME LockBounds, LocksState, Mutexed, NEW h \in Locks!Holders, Locks!Leave(h)
    PROVE  /\ updates' \in [Locks!Holders -> LockOperations] /\ updates'[h].at = "idle"
           /\ \A g \in Locks!Holders : g # h => updates'[g] = updates[g]
           /\ locks' \in [LockProcs -> Locks!Holders \cup {None}]
           /\ Mutexed'
<1>1. Locks!Rest.at = "idle" /\ Locks!Rest \in LockOperations
  BY DEF LockBounds, Locks!Rest, LockOperations, LockLabels, Texts, FileKinds, Locks!Absent
<1>3. /\ updates' \in [Locks!Holders -> LockOperations] /\ updates'[h].at = "idle"
      /\ \A g \in Locks!Holders : g # h => updates'[g] = updates[g]
  BY <1>1 DEF LocksState, Locks!Leave
<1>4. /\ locks' \in [LockProcs -> Locks!Holders \cup {None}]
      /\ \A p \in LockProcs : locks'[p] = locks[p] \/ locks[p] = h
  BY HolderParts DEF LocksState, Locks!Leave
<1>5. Mutexed'
  BY <1>3, <1>4, HolderParts DEF Mutexed
<1> QED
  BY <1>3, <1>4, <1>5

\* The operation that holds the lock file is the only one that does.
LEMMA OneHolder ==
    ASSUME Locked, NEW g \in Locks!Holders, NEW h \in Locks!Holders,
           updates[g].at \in Holding, updates[h].at \in Holding
    PROVE  g = h
BY DEF Locked

-----------------------------------------------------------------------------
(* The steps. *)

LEMMA CallKeeps ==
    ASSUME LockBounds, LocksInv, NEW h \in Locks!Holders, Locks!Call(h)
    PROVE  LocksInv'
<1>1. LocksState /\ Buried /\ Mutexed /\ updates[h].at = "idle" /\ Locks!ProcOf(h) \in alive
  BY DEF LocksInv, Locks!Call, Locks!At
<1>2. PICK op \in {"write", "delete", "readSecure"} :
          updates' = [updates EXCEPT ![h] = [Locks!Rest EXCEPT !.op = op, !.at = "mutex"]]
  BY DEF Locks!Call
<1> DEFINE o == [Locks!Rest EXCEPT !.op = op, !.at = "mutex"]
<1>3. o \in LockOperations /\ o.at = "mutex"
  <2>1. Locks!Rest \in LockOperations
    BY DEF LockBounds, Locks!Rest, LockOperations, LockLabels, Texts, FileKinds, Locks!Absent
  <2> QED
    BY <2>1 DEF LockOperations, LockLabels
<1> HIDE DEF o
<1>4. /\ updates' \in [Locks!Holders -> LockOperations] /\ updates'[h].at = "mutex"
      /\ \A g \in Locks!Holders : g # h => updates'[g] = updates[g]
  BY <1>1, <1>2, <1>3 DEF LocksState, o
<1>5. UNCHANGED <<locks, lockFile, file, alive, expected, robbed, hurt>>
  BY DEF Locks!Call
<1>6. count' \in [ops : 0..MaxUpdates, ageings : 0..MaxAgeings]
  BY <1>1 DEF Locks!Call, LocksState, LockBounds
<1>7. LocksState'
  BY <1>1, <1>4, <1>5, <1>6 DEF LocksState
<1>8. Buried' /\ Mutexed'
  BY <1>1, <1>4, <1>5 DEF Buried, Mutexed
<1>9. (~robbed => Locked)'
  BY <1>4, <1>5 DEF LocksInv, Locked, Holding, Locks!Section
<1>10. (~robbed /\ ~hurt => Stored)'
  BY <1>1, <1>4, <1>5 DEF LocksInv, Stored
<1> QED
  BY <1>7, <1>8, <1>9, <1>10 DEF LocksInv

\* The steps that take or judge a lock and leave the file alone.
LEMMA EnterKeeps ==
    ASSUME LockBounds, LocksInv, NEW h \in Locks!Holders, Locks!Enter(h)
    PROVE  LocksInv'
<1>1. /\ LocksState /\ Buried /\ Mutexed /\ updates[h].at = "mutex" /\ Locks!ProcOf(h) \in alive
      /\ locks[Locks!ProcOf(h)] = None
  BY DEF LocksInv, Locks!Enter, Locks!At, Locks!Free
<1>2. /\ updates' \in [Locks!Holders -> LockOperations] /\ updates'[h].at = "create"
      /\ \A g \in Locks!Holders : g # h => updates'[g] = updates[g]
  BY <1>1, GoesTo DEF Locks!Enter, LockLabels
<1>3. /\ locks' = [locks EXCEPT ![Locks!ProcOf(h)] = h]
      /\ UNCHANGED <<lockFile, file, alive, count, expected, robbed, hurt>>
  BY DEF Locks!Enter
<1>4. LocksState'
  BY <1>1, <1>2, <1>3, HolderParts DEF LocksState
<1>5. Buried'
  BY <1>1, <1>2, <1>3 DEF Buried
<1>6. Mutexed'
  <2> SUFFICES ASSUME NEW g \in Locks!Holders, updates'[g].at \notin {"idle", "mutex"}
               PROVE  locks'[Locks!ProcOf(g)] = g
    BY DEF Mutexed
  <2>1. CASE g = h
    BY <1>1, <1>3, <2>1, HolderParts DEF LocksState
  <2>2. CASE g # h
    <3>1. locks[Locks!ProcOf(g)] = g
      BY <1>1, <1>2, <2>2 DEF Mutexed
    <3>2. Locks!ProcOf(g) # Locks!ProcOf(h)
      BY <1>1, <3>1 DEF LockBounds
    <3> QED
      BY <1>1, <1>3, <3>1, <3>2, HolderParts DEF LocksState
  <2> QED
    BY <2>1, <2>2
<1>7. (~robbed => Locked)'
  BY <1>2, <1>3 DEF LocksInv, Locked, Holding, Locks!Section
<1>8. (~robbed /\ ~hurt => Stored)'
  BY <1>1, <1>2, <1>3 DEF LocksInv, Stored
<1> QED
  BY <1>4, <1>5, <1>6, <1>7, <1>8 DEF LocksInv

LEMMA CreateKeeps ==
    ASSUME LockBounds, LocksInv, NEW h \in Locks!Holders, Locks!Create(h)
    PROVE  LocksInv'
<1>1. LocksState /\ Buried /\ Mutexed /\ updates[h].at = "create" /\ Locks!ProcOf(h) \in alive
  BY DEF LocksInv, Locks!Create, Locks!At
<1>2. UNCHANGED <<locks, file, alive, count, expected, robbed, hurt>>
  BY DEF Locks!Create
<1>3. \/ /\ lockFile = None /\ Locks!Goes(h, "sign")
         /\ lockFile' = [by |-> h, written |-> FALSE, old |-> FALSE]
      \/ Locks!Goes(h, "judge") /\ UNCHANGED lockFile
  BY DEF Locks!Create, Locks!Vacant
<1>4. /\ updates' \in [Locks!Holders -> LockOperations] /\ updates'[h].at \in {"sign", "judge"}
      /\ \A g \in Locks!Holders : g # h => updates'[g] = updates[g]
  BY <1>1, <1>3, GoesTo DEF LockLabels
<1>5. lockFile' \in LockFiles \cup {None}
  <2>1. [by |-> h, written |-> FALSE, old |-> FALSE] \in LockFiles
    BY DEF LockFiles
  <2> QED
    BY <1>1, <1>3, <2>1 DEF LocksState
<1>6. LocksState'
  BY <1>1, <1>2, <1>4, <1>5 DEF LocksState
<1>7. Buried' /\ Mutexed'
  BY <1>1, <1>2, <1>4 DEF Buried, Mutexed
<1>8. (~robbed => Locked)'
  <2> SUFFICES ASSUME ~robbed, NEW g \in Locks!Holders, updates'[g].at \in Holding
               PROVE  lockFile' # None /\ lockFile'.by = g
    BY <1>2 DEF Locked
  <2>1. Locked
    BY DEF LocksInv
  <2>2. CASE lockFile = None /\ Locks!Goes(h, "sign") /\ lockFile' = [by |-> h, written |-> FALSE, old |-> FALSE]
    <3>1. g = h
      BY <1>4, <2>1, <2>2 DEF Locked
    <3>2. lockFile' \in LockFiles
      BY <2>2 DEF LockFiles
    <3> QED
      BY <2>2, <3>1, <3>2 DEF LockBounds
  <2>3. CASE Locks!Goes(h, "judge") /\ UNCHANGED lockFile
    <3>1. updates'[h].at = "judge"
      BY <1>1, <2>3, GoesTo DEF LockLabels
    <3> QED
      BY <1>4, <2>1, <2>3, <3>1 DEF Locked, Holding, Locks!Section
  <2> QED
    BY <1>3, <2>2, <2>3
<1>9. (~robbed /\ ~hurt => Stored)'
  BY <1>1, <1>2, <1>4 DEF LocksInv, Stored
<1> QED
  BY <1>6, <1>7, <1>8, <1>9 DEF LocksInv

LEMMA SignKeeps ==
    ASSUME LockBounds, LocksInv, NEW h \in Locks!Holders, Locks!Sign(h)
    PROVE  LocksInv'
<1>1. LocksState /\ Buried /\ Mutexed /\ updates[h].at = "sign" /\ Locks!ProcOf(h) \in alive
  BY DEF LocksInv, Locks!Sign, Locks!At
<1>2. /\ UNCHANGED <<locks, file, alive, count, expected, robbed, hurt>>
      /\ lockFile' = lockFile \/ (lockFile \in LockFiles /\ lockFile' = [lockFile EXCEPT !.written = TRUE])
  BY <1>1 DEF Locks!Sign, LocksState
<1>3. /\ updates' \in [Locks!Holders -> LockOperations] /\ updates'[h].at = "run"
      /\ \A g \in Locks!Holders : g # h => updates'[g] = updates[g]
  BY <1>1, GoesTo DEF Locks!Sign, LockLabels, Locks!Section
<1>4. /\ lockFile' \in LockFiles \cup {None}
      /\ lockFile # None => lockFile' # None /\ lockFile'.by = lockFile.by
  <2>1. lockFile \in LockFiles =>
            /\ [lockFile EXCEPT !.written = TRUE] \in LockFiles
            /\ [lockFile EXCEPT !.written = TRUE].by = lockFile.by
    BY DEF LockFiles
  <2> QED
    BY <1>1, <1>2, <2>1 DEF LocksState, LockBounds
<1>5. LocksState'
  BY <1>1, <1>2, <1>3, <1>4 DEF LocksState
<1>6. Buried' /\ Mutexed'
  BY <1>1, <1>2, <1>3 DEF Buried, Mutexed
<1>7. (~robbed => Locked)'
  BY <1>1, <1>2, <1>3, <1>4 DEF LocksInv, Locked, Holding, Locks!Section
<1>8. (~robbed /\ ~hurt => Stored)'
  BY <1>1, <1>2, <1>3 DEF LocksInv, Stored
<1> QED
  BY <1>5, <1>6, <1>7, <1>8 DEF LocksInv

LEMMA JudgeKeeps ==
    ASSUME LockBounds, LocksInv, NEW h \in Locks!Holders, Locks!Judge(h)
    PROVE  LocksInv'
<1>1. LocksState /\ Buried /\ Mutexed /\ updates[h].at = "judge" /\ Locks!ProcOf(h) \in alive
  BY DEF LocksInv, Locks!Judge, Locks!At
<1>2. UNCHANGED <<locks, lockFile, file, alive, count, expected, robbed, hurt>>
  BY DEF Locks!Judge
<1>3. /\ updates' \in [Locks!Holders -> LockOperations] /\ updates'[h].at \in {"unlink", "wait"}
      /\ \A g \in Locks!Holders : g # h => updates'[g] = updates[g]
  BY <1>1, GoesTo DEF Locks!Judge, LockLabels
<1>4. LocksState'
  BY <1>1, <1>2, <1>3 DEF LocksState
<1>5. Buried' /\ Mutexed'
  BY <1>1, <1>2, <1>3 DEF Buried, Mutexed
<1>6. (~robbed => Locked)'
  BY <1>2, <1>3 DEF LocksInv, Locked, Holding, Locks!Section
<1>7. (~robbed /\ ~hurt => Stored)'
  BY <1>1, <1>2, <1>3 DEF LocksInv, Stored
<1> QED
  BY <1>4, <1>5, <1>6, <1>7 DEF LocksInv

\* A lock that is removed was nobody's who is at work, or the removal is remembered.
LEMMA UnlinkKeeps ==
    ASSUME LockBounds, LocksInv, NEW h \in Locks!Holders, Locks!Unlink(h)
    PROVE  LocksInv'
<1>1. LocksState /\ Buried /\ Mutexed /\ updates[h].at = "unlink" /\ Locks!ProcOf(h) \in alive
  BY DEF LocksInv, Locks!Unlink, Locks!At
<1>2. /\ UNCHANGED <<locks, file, alive, count, expected, hurt>>
      /\ lockFile' = None
      /\ robbed' = (robbed \/ (lockFile # None /\ Locks!ProcOf(lockFile.by) \in alive))
  BY DEF Locks!Unlink
<1>3. /\ updates' \in [Locks!Holders -> LockOperations] /\ updates'[h].at = "wait"
      /\ \A g \in Locks!Holders : g # h => updates'[g] = updates[g]
  BY <1>1, GoesTo DEF Locks!Unlink, LockLabels
<1>4. LocksState'
  BY <1>1, <1>2, <1>3 DEF LocksState
<1>5. Buried' /\ Mutexed'
  BY <1>1, <1>2, <1>3 DEF Buried, Mutexed
<1>6. (~robbed => Locked)'
  <2> SUFFICES ASSUME ~robbed', NEW g \in Locks!Holders, updates'[g].at \in Holding
               PROVE  FALSE
    BY DEF Locked
  <2>1. g # h /\ updates[g].at \in Holding
    BY <1>3 DEF Holding, Locks!Section
  <2>2. lockFile # None /\ lockFile.by = g
    BY <1>2, <2>1 DEF LocksInv, Locked
  <2>3. updates[g].at = "idle"
    BY <1>1, <1>2, <2>2 DEF Buried
  <2> QED
    BY <2>1, <2>3 DEF Holding, Locks!Section
<1>7. (~robbed /\ ~hurt => Stored)'
  BY <1>1, <1>2, <1>3 DEF LocksInv, Stored
<1> QED
  BY <1>4, <1>5, <1>6, <1>7 DEF LocksInv

LEMMA RetryKeeps ==
    ASSUME LockBounds, LocksInv, NEW h \in Locks!Holders, Locks!Retry(h)
    PROVE  LocksInv'
<1>1. LocksState /\ Buried /\ Mutexed /\ updates[h].at = "wait" /\ Locks!ProcOf(h) \in alive
  BY DEF LocksInv, Locks!Retry, Locks!At
<1>2. UNCHANGED <<lockFile, file, alive, count, expected, robbed, hurt>>
  BY DEF Locks!Retry
<1>3. /\ updates' \in [Locks!Holders -> LockOperations] /\ updates'[h].at \in {"create", "idle"}
      /\ \A g \in Locks!Holders : g # h => updates'[g] = updates[g]
      /\ locks' \in [LockProcs -> Locks!Holders \cup {None}]
      /\ Mutexed'
  <2>1. CASE Locks!Goes(h, "create") /\ UNCHANGED locks
    <3>1. /\ updates' \in [Locks!Holders -> LockOperations] /\ updates'[h].at = "create"
          /\ \A g \in Locks!Holders : g # h => updates'[g] = updates[g]
      BY <1>1, <2>1, GoesTo DEF LockLabels
    <3> QED
      BY <1>1, <2>1, <3>1 DEF LocksState, Mutexed
  <2>2. CASE Locks!Leave(h)
    BY <1>1, <2>2, LeavesTo
  <2> QED
    BY <2>1, <2>2 DEF Locks!Retry
<1>4. LocksState'
  BY <1>1, <1>2, <1>3 DEF LocksState
<1>5. Buried'
  BY <1>1, <1>2, <1>3 DEF Buried
<1>6. (~robbed => Locked)'
  BY <1>2, <1>3 DEF LocksInv, Locked, Holding, Locks!Section
<1>7. (~robbed /\ ~hurt => Stored)'
  BY <1>1, <1>2, <1>3 DEF LocksInv, Stored
<1> QED
  BY <1>3, <1>4, <1>5, <1>6, <1>7 DEF LocksInv

LEMMA AgeKeeps ==
    ASSUME LockBounds, LocksInv, Locks!Age
    PROVE  LocksInv'
<1>1. LocksState /\ Buried /\ Mutexed
  BY DEF LocksInv
<1>2. /\ UNCHANGED <<locks, file, updates, alive, expected, robbed, hurt>>
      /\ lockFile # None /\ lockFile' = [lockFile EXCEPT !.old = TRUE]
      /\ count' = [count EXCEPT !.ageings = @ + 1] /\ count.ageings < MaxAgeings
  BY DEF Locks!Age
<1>3. lockFile' \in LockFiles /\ lockFile'.by = lockFile.by /\ lockFile' # None
  BY <1>1, <1>2 DEF LocksState, LockFiles, LockBounds
<1>4. LocksState'
  <2>1. count' \in [ops : 0..MaxUpdates, ageings : 0..MaxAgeings]
    BY <1>1, <1>2 DEF LocksState, LockBounds
  <2> QED
    BY <1>1, <1>2, <1>3, <2>1 DEF LocksState
<1>5. Buried' /\ Mutexed'
  BY <1>1, <1>2 DEF Buried, Mutexed
<1>6. (~robbed => Locked)'
  BY <1>2, <1>3 DEF LocksInv, Locked
<1>7. (~robbed /\ ~hurt => Stored)'
  BY <1>2 DEF LocksInv, Stored
<1> QED
  BY <1>4, <1>5, <1>6, <1>7 DEF LocksInv

\* delete ends, or the reading decides.
LEMMA RunKeeps ==
    ASSUME LockBounds, LocksInv, NEW h \in Locks!Holders, Locks!Run(h)
    PROVE  LocksInv'
<1> DEFINE op == updates[h].op
           gone == op = "delete" \/ (op = "readSecure" /\ file.kind = "foreign")
           next == IF op = "write" \/ (op = "readSecure" /\ file.kind = "plain")
                   THEN "write" ELSE "release"
<1>1. LocksState /\ Buried /\ Mutexed /\ updates[h].at = "run" /\ Locks!ProcOf(h) \in alive
  BY DEF LocksInv, Locks!Run, Locks!At
<1>2. /\ UNCHANGED <<locks, lockFile, alive, count, robbed, hurt>>
      /\ file' = IF gone THEN Locks!Absent ELSE file
      /\ expected' = IF gone THEN 0 ELSE expected
      /\ updates' = [updates EXCEPT ![h].raw = file, ![h].at = next]
  BY DEF Locks!Run
<1>3. /\ updates' \in [Locks!Holders -> LockOperations] /\ updates'[h].at = next
      /\ updates'[h].raw = file /\ updates'[h].op = op
      /\ \A g \in Locks!Holders : g # h => updates'[g] = updates[g]
  <2>1. next \in LockLabels /\ file \in Texts
    BY <1>1 DEF LocksState, LockLabels, Locks!Section
  <2> HIDE DEF next
  <2> QED
    BY <1>1, <1>2, <2>1 DEF LocksState, LockOperations
<1>4. LocksState'
  <2>1. Locks!Absent \in Texts
    BY DEF LockBounds, Texts, FileKinds, Locks!Absent
  <2>2. file' \in Texts /\ expected' \in 0..MaxUpdates
    BY <1>1, <1>2, <2>1 DEF LocksState, LockBounds
  <2> QED
    BY <1>1, <1>2, <1>3, <2>2 DEF LocksState
<1>5. Buried' /\ Mutexed'
  BY <1>1, <1>2, <1>3 DEF Buried, Mutexed
<1>6. (~robbed => Locked)'
  BY <1>1, <1>2, <1>3 DEF LocksInv, Locked, Holding, Locks!Section
<1>7. ASSUME ~robbed', ~hurt'
      PROVE  Stored'
  <2>1. Stored /\ Locked
    BY <1>2, <1>7 DEF LocksInv
  <2>2. \A g \in Locks!Holders : g # h => updates[g].at \notin Holding
    BY <1>1, <2>1, OneHolder DEF Holding, Locks!Section
  <2>3. \A g \in Locks!Holders : g # h => updates'[g].at \notin {"write", "fill"}
    BY <1>3, <2>2 DEF Holding, Locks!Section
  <2>4. file.kind # "torn" /\ file.version = expected
    BY <1>1, <2>1, <2>2 DEF Stored, Holding, Locks!Section
  <2>5. file'.kind # "torn" /\ file'.version = expected'
    BY <1>2, <2>4 DEF Locks!Absent
  <2>6. updates'[h].at = "write" /\ op # "write" => file.version = expected'
    <3>1. updates'[h].at = "write" /\ op # "write" => op = "readSecure" /\ file.kind = "plain"
      BY <1>3
    <3> QED
      BY <1>2, <2>4, <3>1
  <2>7. \A g \in Locks!Holders : updates'[g].at \in {"write", "fill"} /\ updates'[g].op # "write" =>
            updates'[g].raw.version = expected'
    BY <1>3, <2>3, <2>6
  <2> QED
    BY <2>5, <2>7 DEF Stored
<1> QED
  BY <1>4, <1>5, <1>6, <1>7 DEF LocksInv

LEMMA TruncateKeeps ==
    ASSUME LockBounds, LocksInv, NEW h \in Locks!Holders, Locks!Truncate(h)
    PROVE  LocksInv'
<1>1. LocksState /\ Buried /\ Mutexed /\ updates[h].at = "write" /\ Locks!ProcOf(h) \in alive
  BY DEF LocksInv, Locks!Truncate, Locks!At
<1>2. /\ UNCHANGED <<locks, lockFile, alive, count, expected, robbed, hurt>>
      /\ file' = [kind |-> "torn", version |-> 0]
  BY DEF Locks!Truncate
<1>3. /\ updates' \in [Locks!Holders -> LockOperations] /\ updates'[h].at = "fill"
      /\ updates'[h].op = updates[h].op /\ updates'[h].raw = updates[h].raw
      /\ \A g \in Locks!Holders : g # h => updates'[g] = updates[g]
  BY <1>1, GoesTo DEF Locks!Truncate, LockLabels, Locks!Section
<1>4. LocksState'
  <2>1. file' \in Texts
    BY <1>2 DEF LockBounds, Texts, FileKinds
  <2> QED
    BY <1>1, <1>2, <1>3, <2>1 DEF LocksState
<1>5. Buried' /\ Mutexed'
  BY <1>1, <1>2, <1>3 DEF Buried, Mutexed
<1>6. (~robbed => Locked)'
  BY <1>1, <1>2, <1>3 DEF LocksInv, Locked, Holding, Locks!Section
<1>7. ASSUME ~robbed', ~hurt'
      PROVE  Stored'
  <2>1. Stored
    BY <1>2, <1>7 DEF LocksInv
  <2> QED
    BY <1>1, <1>2, <1>3, <2>1 DEF Stored
<1> QED
  BY <1>4, <1>5, <1>6, <1>7 DEF LocksInv

\* A write's content is new; a migration's is the version that it has read.
LEMMA FillKeeps ==
    ASSUME LockBounds, LocksInv, NEW h \in Locks!Holders, Locks!Fill(h)
    PROVE  LocksInv'
<1> DEFINE version == IF updates[h].op = "write" THEN count.ops ELSE updates[h].raw.version
<1>1. LocksState /\ Buried /\ Mutexed /\ updates[h].at = "fill" /\ Locks!ProcOf(h) \in alive
  BY DEF LocksInv, Locks!Fill, Locks!At
<1>2. /\ UNCHANGED <<locks, lockFile, alive, count, robbed, hurt>>
      /\ file' = [kind |-> "sealed", version |-> version]
      /\ expected' = IF updates[h].op = "write" THEN version ELSE expected
  BY DEF Locks!Fill
<1>3. /\ updates' \in [Locks!Holders -> LockOperations] /\ updates'[h].at = "release"
      /\ \A g \in Locks!Holders : g # h => updates'[g] = updates[g]
  BY <1>1, GoesTo DEF Locks!Fill, LockLabels
<1>4. LocksState'
  <2>1. version \in 0..MaxUpdates
    BY <1>1 DEF LocksState, LockOperations, Texts
  <2>2. file' \in Texts /\ expected' \in 0..MaxUpdates
    BY <1>1, <1>2, <2>1 DEF Texts, FileKinds, LocksState
  <2> QED
    BY <1>1, <1>2, <1>3, <2>2 DEF LocksState
<1>5. Buried' /\ Mutexed'
  BY <1>1, <1>2, <1>3 DEF Buried, Mutexed
<1>6. (~robbed => Locked)'
  BY <1>1, <1>2, <1>3 DEF LocksInv, Locked, Holding, Locks!Section
<1>7. ASSUME ~robbed', ~hurt'
      PROVE  Stored'
  <2>1. Stored /\ Locked
    BY <1>2, <1>7 DEF LocksInv
  <2>2. \A g \in Locks!Holders : g # h => updates[g].at \notin Holding
    BY <1>1, <2>1, OneHolder DEF Holding, Locks!Section
  <2>3. \A g \in Locks!Holders : updates'[g].at \notin {"write", "fill"}
    BY <1>3, <2>2 DEF Holding, Locks!Section
  <2>4. version = expected'
    BY <1>1, <1>2, <2>1 DEF Stored
  <2>5. file'.kind # "torn" /\ file'.version = expected'
    BY <1>2, <2>4
  <2> QED
    BY <2>3, <2>5 DEF Stored
<1> QED
  BY <1>4, <1>5, <1>6, <1>7 DEF LocksInv

LEMMA ReleaseKeeps ==
    ASSUME LockBounds, LocksInv, NEW h \in Locks!Holders, Locks!Release(h)
    PROVE  LocksInv'
<1>1. LocksState /\ Buried /\ Mutexed /\ updates[h].at = "release" /\ Locks!ProcOf(h) \in alive
  BY DEF LocksInv, Locks!Release, Locks!At
<1>2. /\ UNCHANGED <<file, alive, count, expected, hurt>>
      /\ lockFile' = None
      /\ robbed' = (robbed \/ (lockFile # None /\ lockFile.by # h))
  BY DEF Locks!Release
<1>3. /\ updates' \in [Locks!Holders -> LockOperations] /\ updates'[h].at = "idle"
      /\ \A g \in Locks!Holders : g # h => updates'[g] = updates[g]
      /\ locks' \in [LockProcs -> Locks!Holders \cup {None}]
      /\ Mutexed'
  BY <1>1, LeavesTo DEF Locks!Release
<1>4. LocksState'
  BY <1>1, <1>2, <1>3 DEF LocksState
<1>5. Buried'
  BY <1>1, <1>2, <1>3 DEF Buried
<1>6. (~robbed => Locked)'
  <2> SUFFICES ASSUME ~robbed', NEW g \in Locks!Holders, updates'[g].at \in Holding
               PROVE  FALSE
    BY DEF Locked
  <2>1. g # h /\ updates[g].at \in Holding /\ updates[h].at \in Holding
    BY <1>1, <1>3 DEF Holding, Locks!Section
  <2> QED
    BY <1>2, <2>1, OneHolder DEF LocksInv
<1>7. (~robbed /\ ~hurt => Stored)'
  BY <1>1, <1>2, <1>3 DEF LocksInv, Stored
<1> QED
  BY <1>3, <1>4, <1>5, <1>6, <1>7 DEF LocksInv

LEMMA CrashKeeps ==
    ASSUME LockBounds, LocksInv, NEW p \in LockProcs, Locks!Crash(p)
    PROVE  LocksInv'
<1>1. LocksState /\ Buried /\ Mutexed
  BY DEF LocksInv
<1>2. /\ UNCHANGED <<lockFile, file, count, expected, robbed>>
      /\ alive' = alive \ {p}
      /\ hurt' = (hurt \/ \E t \in Tasks : updates[<<p, t>>].at \in {"write", "fill"})
      /\ updates' = [h \in Locks!Holders |-> IF Locks!ProcOf(h) = p THEN Locks!Rest ELSE updates[h]]
      /\ locks' = [locks EXCEPT ![p] = None]
  BY DEF Locks!Crash
<1>3. Locks!Rest \in LockOperations /\ Locks!Rest.at = "idle"
  BY DEF LockBounds, Locks!Rest, LockOperations, LockLabels, Texts, FileKinds, Locks!Absent
<1>4. /\ updates' \in [Locks!Holders -> LockOperations]
      /\ \A h \in Locks!Holders : Locks!ProcOf(h) = p => updates'[h].at = "idle"
      /\ \A h \in Locks!Holders : Locks!ProcOf(h) # p => updates'[h] = updates[h]
  BY <1>1, <1>2, <1>3 DEF LocksState
<1>5. LocksState'
  BY <1>1, <1>2, <1>4 DEF LocksState
<1>6. Buried'
  BY <1>1, <1>2, <1>4 DEF Buried
<1>7. Mutexed'
  BY <1>1, <1>2, <1>4, HolderParts DEF Mutexed, LocksState
<1>8. (~robbed => Locked)'
  BY <1>2, <1>4 DEF LocksInv, Locked, Holding, Locks!Section
<1>9. ASSUME ~robbed', ~hurt'
      PROVE  Stored'
  <2>1. Stored
    BY <1>2, <1>9 DEF LocksInv
  <2>2. \A h \in Locks!Holders : Locks!ProcOf(h) = p => updates[h].at \notin {"write", "fill"}
    <3> SUFFICES ASSUME NEW h \in Locks!Holders, Locks!ProcOf(h) = p
                 PROVE  updates[h].at \notin {"write", "fill"}
      OBVIOUS
    <3>1. h[2] \in Tasks /\ h = <<p, h[2]>>
      BY DEF Locks!Holders, Locks!ProcOf
    <3> QED
      BY <1>2, <1>9, <3>1
  <2> QED
    BY <1>2, <1>4, <2>1, <2>2 DEF Stored
<1> QED
  BY <1>5, <1>6, <1>7, <1>8, <1>9 DEF LocksInv

-----------------------------------------------------------------------------
LEMMA LocksNext ==
    ASSUME LockBounds, LocksInv, [Locks!Next]_Locks!vars
    PROVE  LocksInv'
<1>1. CASE UNCHANGED Locks!vars
  BY <1>1 DEF Locks!vars, LocksInv, LocksState, Buried, Mutexed, Locked, Stored
<1> QED
  BY <1>1, CallKeeps, EnterKeeps, CreateKeeps, SignKeeps, JudgeKeeps, UnlinkKeeps, RetryKeeps,
     RunKeeps, TruncateKeeps, FillKeeps, ReleaseKeeps, AgeKeeps, CrashKeeps DEF Locks!Next

LEMMA LocksInvHolds == ASSUME LockBounds PROVE Locks!Spec => []LocksInv
<1>1. Locks!Init => LocksInv
  BY LocksInit
<1>2. LocksInv /\ [Locks!Next]_Locks!vars => LocksInv'
  BY LocksNext
<1> QED
  BY <1>1, <1>2, PTL DEF Locks!Spec

\* The state of the locks keeps its type.
THEOREM LocksTyped == ASSUME LockBounds PROVE Locks!Spec => []Locks!TypeOK
<1>1. LocksInv => Locks!TypeOK
  BY DEF LocksInv, LocksState, Locks!TypeOK, Texts, FileKinds, LockOperations, LockLabels, LockFiles
<1> QED
  BY <1>1, LocksInvHolds, PTL

\* withProcessLock: inside a process no two operations on a file are under way past
\* the mutex, whatever becomes of the lock file.
THEOREM LocksSerializeInside == ASSUME LockBounds PROVE Locks!Spec => []Locks!OneAtATimeInside
<1>1. LocksInv => Locks!OneAtATimeInside
  BY DEF LocksInv, Mutexed, Locks!OneAtATimeInside
<1> QED
  BY <1>1, LocksInvHolds, PTL

\* acquireFileLock and the store: as long as no lock was taken from a holder at work,
\* sections exclude one another between the processes too, and at rest the file holds
\* the last write or deletion, unless a process died while writing it.
THEOREM LocksUnrobbedIsSequential == ASSUME LockBounds PROVE Locks!Spec => []Locks!UnrobbedIsSequential
<1>1. LocksInv => Locks!UnrobbedIsSequential
  <2> SUFFICES ASSUME LocksInv, ~robbed
               PROVE  /\ \A g, h \in Locks!Holders : Locks!InSection(g) /\ Locks!InSection(h) => g = h
                      /\ ~hurt /\ (\A h \in Locks!Holders : ~Locks!InSection(h)) =>
                             file.kind # "torn" /\ file.version = expected
    BY DEF Locks!UnrobbedIsSequential
  <2>1. \A g, h \in Locks!Holders : Locks!InSection(g) /\ Locks!InSection(h) => g = h
    BY OneHolder DEF LocksInv, Locks!InSection, Holding
  <2>2. ASSUME ~hurt, \A h \in Locks!Holders : ~Locks!InSection(h)
        PROVE  file.kind # "torn" /\ file.version = expected
    <3>1. \A h \in Locks!Holders : updates[h].at # "fill"
      BY <2>2 DEF LocksInv, Buried, Locks!InSection, Locks!Section
    <3> QED
      BY <2>2, <3>1 DEF LocksInv, Stored
  <2> QED
    BY <2>1, <2>2
<1> QED
  BY <1>1, LocksInvHolds, PTL


OwnFile(p) == Stem[p] \notin blurred /\ ~Numbers!Shared(p)

\* The cache agrees with the file, and what was given was written.
FollowsFile(p) ==
  /\ cache[p] \in {None, files[Stem[p]]}
  /\ \A n \in 1 .. MaxNumbers :
       /\ given[p][n] <= 1
       /\ n > Numbers!Written(Stem[p]) => given[p][n] = 0

NumbersInv == Numbers!TypeOK /\ \A p \in Parents : OwnFile(p) => FollowsFile(p)

-----------------------------------------------------------------------------
\* The next number is a number, and for what is cached it is the one after it.
LEMMA LastIsNumber ==
  ASSUME MaxNumbers \in Nat, None \notin Nat, Numbers!TypeOK, NEW p \in Parents
  PROVE  /\ Numbers!Last(p) \in 0 .. MaxNumbers
         /\ cache[p] # None => Numbers!Last(p) = cache[p] /\ cache[p] \in 1 .. MaxNumbers
<1>1. Stem[p] \in Numbers!Stems
  BY DEF Numbers!Stems
<1>2. /\ files[Stem[p]] \in {None} \cup 1 .. MaxNumbers
      /\ cache[p] \in {None} \cup 1 .. MaxNumbers
  BY <1>1 DEF Numbers!TypeOK
<1> QED BY <1>2 DEF Numbers!Last, Numbers!Written

\* A sound parent's next number is the one after the number in its file.
LEMMA LastIsWritten ==
  ASSUME NEW p \in Parents, cache[p] \in {None, files[Stem[p]]}
  PROVE  Numbers!Last(p) = Numbers!Written(Stem[p])
BY DEF Numbers!Last, Numbers!Written

\* What numbering q leaves alone of another parent, and what it does to q.
LEMMA NumberEffect ==
  ASSUME MaxNumbers \in Nat, None \notin Nat, Numbers!TypeOK,
         NEW q \in Parents, NEW kept \in BOOLEAN, Numbers!Number(q, kept)
  PROVE  /\ Numbers!Last(q) + 1 \in 1 .. MaxNumbers
         /\ cache' \in [Parents -> {None} \cup 1 .. MaxNumbers]
         /\ files' \in [Numbers!Stems -> {None} \cup 1 .. MaxNumbers]
         /\ given' \in [Parents -> [1 .. MaxNumbers -> Nat]]
         /\ cache'[q] = Numbers!Last(q) + 1
         /\ kept => files'[Stem[q]] = Numbers!Last(q) + 1
         /\ \A n \in 1 .. MaxNumbers :
              given'[q][n] = IF n = Numbers!Last(q) + 1 THEN given[q][n] + 1 ELSE given[q][n]
         /\ \A p \in Parents \ {q} : cache'[p] = cache[p] /\ given'[p] = given[p]
         /\ \A f \in Numbers!Stems \ {Stem[q]} : files'[f] = files[f]
<1> DEFINE n == Numbers!Last(q) + 1
<1>1. Stem[q] \in Numbers!Stems
  BY DEF Numbers!Stems
<1>2. n \in 1 .. MaxNumbers
  BY LastIsNumber DEF Numbers!Number
<1>3. /\ cache' = [cache EXCEPT ![q] = n]
      /\ given' = [given EXCEPT ![q][n] = @ + 1]
      /\ files' = IF kept THEN [files EXCEPT ![Stem[q]] = n] ELSE files
  BY DEF Numbers!Number
<1> HIDE DEF n
<1>4. /\ cache' \in [Parents -> {None} \cup 1 .. MaxNumbers]
      /\ cache'[q] = n
      /\ \A p \in Parents \ {q} : cache'[p] = cache[p]
  BY <1>2, <1>3 DEF Numbers!TypeOK
<1>5. /\ files' \in [Numbers!Stems -> {None} \cup 1 .. MaxNumbers]
      /\ kept => files'[Stem[q]] = n
      /\ \A f \in Numbers!Stems \ {Stem[q]} : files'[f] = files[f]
  BY <1>1, <1>2, <1>3 DEF Numbers!TypeOK
<1>6. /\ given' \in [Parents -> [1 .. MaxNumbers -> Nat]]
      /\ \A p \in Parents \ {q} : given'[p] = given[p]
      /\ \A k \in 1 .. MaxNumbers :
           given'[q][k] = IF k = n THEN given[q][k] + 1 ELSE given[q][k]
  <2>1. given[q] \in [1 .. MaxNumbers -> Nat] /\ given[q][n] + 1 \in Nat
    BY <1>2 DEF Numbers!TypeOK
  <2> QED BY <1>2, <1>3, <2>1 DEF Numbers!TypeOK
<1> QED BY <1>2, <1>4, <1>5, <1>6 DEF n

-----------------------------------------------------------------------------
\* The state keeps its types, and a sound parent's cache and given numbers follow its
\* file, whatever is numbered, lost, damaged or restarted.
LEMMA NumbersNext ==
  ASSUME MaxNumbers \in Nat, None \notin Nat
  PROVE  NumbersInv /\ [Numbers!Next]_Numbers!vars => NumbersInv'
<1> SUFFICES ASSUME NumbersInv, [Numbers!Next]_Numbers!vars PROVE NumbersInv'
  OBVIOUS
<1>0. Numbers!TypeOK /\ \A p \in Parents : OwnFile(p) => FollowsFile(p)
  BY DEF NumbersInv
<1>s. \A p \in Parents : Stem[p] \in Numbers!Stems
  BY DEF Numbers!Stems
<1>1. ASSUME NEW q \in Parents, Numbers!NumberKept(q) PROVE NumbersInv'
  <2>1. Numbers!Number(q, TRUE) /\ blurred' = blurred
    BY <1>1 DEF Numbers!NumberKept
  <2>2. Numbers!TypeOK'
    BY <1>0, <2>1, NumberEffect DEF Numbers!TypeOK
  <2>3. ASSUME NEW p \in Parents, OwnFile(p)' PROVE FollowsFile(p)'
    <3>1. OwnFile(p) /\ FollowsFile(p)
      BY <1>0, <2>1, <2>3 DEF OwnFile, Numbers!Shared
    <3>2. CASE p = q
      <4>1. Numbers!Last(p) = Numbers!Written(Stem[p])
        BY <3>1, LastIsWritten DEF FollowsFile
      <4>2. /\ cache'[p] = Numbers!Last(p) + 1 /\ files'[Stem[p]] = Numbers!Last(p) + 1
            /\ Numbers!Last(p) + 1 \in 1 .. MaxNumbers
            /\ \A n \in 1 .. MaxNumbers :
                 given'[p][n] = IF n = Numbers!Last(p) + 1 THEN given[p][n] + 1 ELSE given[p][n]
        BY <1>0, <2>1, <3>2, NumberEffect
      <4>3. Numbers!Written(Stem[p])' = Numbers!Last(p) + 1
        BY <4>2 DEF Numbers!Written
      <4>4. /\ \A n \in 1 .. MaxNumbers : given[p][n] <= 1 /\ given[p][n] \in Nat
            /\ \A n \in 1 .. MaxNumbers : n > Numbers!Last(p) => given[p][n] = 0
        BY <1>0, <3>1, <4>1 DEF FollowsFile, Numbers!TypeOK
      <4>5. ASSUME NEW n \in 1 .. MaxNumbers
            PROVE  /\ given'[p][n] <= 1
                   /\ n > Numbers!Last(p) + 1 => given'[p][n] = 0
        <5>1. Numbers!Last(p) \in Nat
          BY <1>0, LastIsNumber
        <5> QED BY <4>2, <4>4, <5>1
      <4> QED BY <4>2, <4>3, <4>5 DEF FollowsFile
    <3>3. CASE p # q
      <4>1. Stem[p] # Stem[q]
        BY <3>1, <3>3 DEF OwnFile, Numbers!Shared
      <4>2. cache'[p] = cache[p] /\ given'[p] = given[p] /\ files'[Stem[p]] = files[Stem[p]]
        BY <1>0, <1>s, <2>1, <3>3, <4>1, NumberEffect
      <4> QED BY <3>1, <4>2 DEF FollowsFile, Numbers!Written
    <3> QED BY <3>2, <3>3
  <2> QED BY <2>2, <2>3 DEF NumbersInv
<1>2. ASSUME NEW q \in Parents, Numbers!NumberLost(q) PROVE NumbersInv'
  <2>1. Numbers!Number(q, FALSE) /\ blurred' = blurred \cup {Stem[q]}
    BY <1>2 DEF Numbers!NumberLost, Numbers!Blur
  <2>2. Numbers!TypeOK'
    BY <1>0, <1>s, <2>1, NumberEffect DEF Numbers!TypeOK
  <2>3. ASSUME NEW p \in Parents, OwnFile(p)' PROVE FollowsFile(p)'
    <3>1. OwnFile(p) /\ FollowsFile(p) /\ Stem[p] # Stem[q]
      BY <1>0, <2>1, <2>3 DEF OwnFile, Numbers!Shared
    <3>2. cache'[p] = cache[p] /\ given'[p] = given[p] /\ files'[Stem[p]] = files[Stem[p]]
      BY <1>0, <1>s, <2>1, <3>1, NumberEffect
    <3> QED BY <3>1, <3>2 DEF FollowsFile, Numbers!Written
  <2> QED BY <2>2, <2>3 DEF NumbersInv
<1>3. ASSUME NEW f \in Numbers!Stems, Numbers!Damaged(f) PROVE NumbersInv'
  <2>1. /\ files' = [files EXCEPT ![f] = None] /\ blurred' = blurred \cup {f}
        /\ cache' = cache /\ given' = given
    BY <1>3 DEF Numbers!Damaged, Numbers!Blur
  <2>2. Numbers!TypeOK'
    BY <1>0, <2>1 DEF Numbers!TypeOK
  <2>3. ASSUME NEW p \in Parents, OwnFile(p)' PROVE FollowsFile(p)'
    <3>1. OwnFile(p) /\ FollowsFile(p) /\ Stem[p] # f
      BY <1>0, <2>1, <2>3 DEF OwnFile, Numbers!Shared
    <3>2. files'[Stem[p]] = files[Stem[p]]
      BY <1>0, <1>s, <2>1, <3>1 DEF Numbers!TypeOK
    <3> QED BY <2>1, <3>1, <3>2 DEF FollowsFile, Numbers!Written
  <2> QED BY <2>2, <2>3 DEF NumbersInv
<1>4. CASE Numbers!Restart
  <2>1. cache' = [p \in Parents |-> None] /\ files' = files /\ given' = given
        /\ blurred' = blurred
    BY <1>4 DEF Numbers!Restart
  <2>2. Numbers!TypeOK'
    BY <1>0, <2>1 DEF Numbers!TypeOK
  <2>3. ASSUME NEW p \in Parents, OwnFile(p)' PROVE FollowsFile(p)'
    <3>1. OwnFile(p) /\ FollowsFile(p)
      BY <1>0, <2>1, <2>3 DEF OwnFile, Numbers!Shared
    <3> QED BY <2>1, <3>1 DEF FollowsFile, Numbers!Written
  <2> QED BY <2>2, <2>3 DEF NumbersInv
<1>5. CASE UNCHANGED Numbers!vars
  BY <1>0, <1>5 DEF Numbers!vars, NumbersInv, Numbers!TypeOK, OwnFile, Numbers!Shared, FollowsFile, Numbers!Written
<1> QED BY <1>1, <1>2, <1>3, <1>4, <1>5 DEF Numbers!Next

LEMMA NumbersInit ==
  ASSUME MaxNumbers \in Nat
  PROVE  Numbers!Init => NumbersInv
BY DEF Numbers!Init, NumbersInv, Numbers!TypeOK, FollowsFile

\* Files, caches and the numbers given keep their types.
LEMMA NumbersTyped ==
  ASSUME MaxNumbers \in Nat, None \notin Nat
  PROVE  Numbers!Spec => []Numbers!TypeOK
<1>1. Numbers!Init => NumbersInv
  BY NumbersInit
<1>2. NumbersInv /\ [Numbers!Next]_Numbers!vars => NumbersInv'
  BY NumbersNext
<1>3. NumbersInv => Numbers!TypeOK
  BY DEF NumbersInv
<1> QED BY <1>1, <1>2, <1>3, PTL DEF Numbers!Spec

\* No child gets the number of an earlier one of its parent, as long as the parent's file
\* is its own, is written and is not damaged: through any number of restarts
\* (generation-counter.ts reads the file again and writes before it answers).
THEOREM NumbersStayFresh ==
  ASSUME MaxNumbers \in Nat, None \notin Nat
  PROVE  Numbers!Spec => []Numbers!NumbersAreFresh
<1>1. Numbers!Init => NumbersInv
  BY NumbersInit
<1>2. NumbersInv /\ [Numbers!Next]_Numbers!vars => NumbersInv'
  BY NumbersNext
<1>3. NumbersInv => Numbers!NumbersAreFresh
  BY DEF NumbersInv, OwnFile, FollowsFile, Numbers!NumbersAreFresh
<1> QED BY <1>1, <1>2, <1>3, PTL DEF Numbers!Spec

\* While the daemon runs, a parent's numbers only rise, whatever happens to the files.
THEOREM NumbersOnlyRise ==
  ASSUME MaxNumbers \in Nat, None \notin Nat
  PROVE  Numbers!Spec => Numbers!NumbersRise
<1> DEFINE Rise == \A p \in Parents :
                     (cache[p] # None /\ cache'[p] # None) => cache'[p] >= cache[p]
<1>1. Numbers!Init => NumbersInv
  BY NumbersInit
<1>2. NumbersInv /\ [Numbers!Next]_Numbers!vars => NumbersInv'
  BY NumbersNext
<1>3. NumbersInv /\ [Numbers!Next]_Numbers!vars => [Rise]_Numbers!vars
  <2> SUFFICES ASSUME NumbersInv, Numbers!Next, NEW p \in Parents,
                      cache[p] # None, cache'[p] # None
               PROVE  cache'[p] >= cache[p]
    OBVIOUS
  <2>0. Numbers!TypeOK
    BY DEF NumbersInv
  <2>1. cache[p] \in 1 .. MaxNumbers /\ Numbers!Last(p) = cache[p]
    BY <2>0, LastIsNumber
  <2>2. ASSUME NEW q \in Parents, NEW kept \in BOOLEAN, Numbers!Number(q, kept)
        PROVE  cache'[p] >= cache[p]
    <3>1. cache'[p] = IF p = q THEN Numbers!Last(q) + 1 ELSE cache[p]
      BY <2>0, <2>2, NumberEffect
    <3> QED BY <2>1, <3>1
  <2>3. ASSUME NEW q \in Parents, Numbers!NumberKept(q) \/ Numbers!NumberLost(q)
        PROVE  cache'[p] >= cache[p]
    BY <2>2, <2>3 DEF Numbers!NumberKept, Numbers!NumberLost
  <2>4. ASSUME NEW f \in Numbers!Stems, Numbers!Damaged(f) PROVE cache'[p] >= cache[p]
    BY <2>1, <2>4 DEF Numbers!Damaged
  <2>5. CASE Numbers!Restart
    BY <2>5 DEF Numbers!Restart
  <2> QED BY <2>3, <2>4, <2>5 DEF Numbers!Next
<1> QED BY <1>1, <1>2, <1>3, PTL DEF Numbers!Spec, Numbers!NumbersRise


-----------------------------------------------------------------------------
(* The processes of one agent's daemon (DaemonProcesses).                  *)

DaemonBounds == None \notin Pids

\* From its launch until it has removed its pid file a process stands for the daemon.
Standing(p) == procs[p] \in Daemons!Unpidded \cup Daemons!Named

\* As long as no start raced another's daemon, one process stands, or one command is
\* about to launch one; the pid file names it once it is written, the socket while it
\* serves.
Alone ==
    /\ \A p, q \in Pids : Standing(p) /\ Standing(q) => p = q
    /\ \A c \in Terminals : commands[c].at = "launch" =>
          /\ \A p \in Pids : ~Standing(p)
          /\ \A d \in Terminals : commands[d].at = "launch" => d = c
    /\ \A p \in Pids : procs[p] \in Daemons!Named => pidFile = p
    /\ \A p \in Pids : procs[p] \in {"serving", "closing"} => listening = p

DaemonInv == Daemons!TypeOK /\ (~raced => Alone)

LEMMA DaemonInit ==
    ASSUME Daemons!Init
    PROVE  DaemonInv
BY DEF Daemons!Init, DaemonInv, Daemons!TypeOK, Alone, Standing, Daemons!Idle, Daemons!Unpidded, Daemons!Named, Daemons!Live

\* A command goes on, or its terminal is idle again.
LEMMA CommandGoes ==
    ASSUME Daemons!TypeOK, NEW c \in Terminals, NEW next, Daemons!Goes(c, next),
           next \in Daemons!Outcomes \cup {"launch", "wait", "connect", "waitExit", "term", "waitTerm",
                                 "kill", "waitKill"}
    PROVE  /\ commands' \in [Terminals ->
                [kind : {"none", "start", "stop", "attach"},
                 at : {"prompt", "look", "launch", "wait", "connect", "ask", "waitExit", "term",
                       "waitTerm", "kill", "waitKill"},
                 pid : Pids \cup {None}]]
           /\ \A d \in Terminals : d # c => commands'[d] = commands[d]
           /\ commands'[c].at = "launch" => next = "launch"
BY DEF Daemons!TypeOK, Daemons!Goes, Daemons!Outcomes, Daemons!Idle

\* Commands other than a start leave the processes and what names them alone.
LEMMA SameDaemon ==
    ASSUME DaemonInv, UNCHANGED <<procs, pidFile, listening, raced>>,
           commands' \in [Terminals ->
                [kind : {"none", "start", "stop", "attach"},
                 at : {"prompt", "look", "launch", "wait", "connect", "ask", "waitExit", "term",
                       "waitTerm", "kill", "waitKill"},
                 pid : Pids \cup {None}]],
           \A c \in Terminals : commands'[c].at = "launch" => commands[c].at = "launch"
    PROVE  DaemonInv'
BY DEF DaemonInv, Daemons!TypeOK, Alone, Standing

\* What only ends processes, or stops one from serving, leaves the others as they are.
Later(from, to) ==
    \/ to = from
    \/ to = "dead"
    \/ from = "serving" /\ to = "closing"

LEMMA OnlyEnds ==
    ASSUME DaemonInv, UNCHANGED <<pidFile, listening, raced>>,
           procs' \in [Pids -> Daemons!Live \cup {"unborn", "dead"}],
           \A p \in Pids : Later(procs[p], procs'[p]),
           commands' \in [Terminals ->
                [kind : {"none", "start", "stop", "attach"},
                 at : {"prompt", "look", "launch", "wait", "connect", "ask", "waitExit", "term",
                       "waitTerm", "kill", "waitKill"},
                 pid : Pids \cup {None}]],
           \A c \in Terminals : commands'[c].at = "launch" => commands[c].at = "launch"
    PROVE  DaemonInv'
<1>1. Daemons!TypeOK'
  BY DEF DaemonInv, Daemons!TypeOK
<1>2. \A p \in Pids : Standing(p)' => Standing(p)
  BY DEF Standing, Later, Daemons!Unpidded, Daemons!Named
<1>3. \A p \in Pids : procs'[p] \in Daemons!Named => procs[p] \in Daemons!Named
  BY DEF Later, Daemons!Named
<1>4. \A p \in Pids : procs'[p] \in {"serving", "closing"} => procs[p] \in {"serving", "closing"}
  BY DEF Later
<1>5. ~raced => Alone'
  BY <1>2, <1>3, <1>4 DEF DaemonInv, Alone
<1> QED
  BY <1>1, <1>5 DEF DaemonInv

LEMMA SignalEnds ==
    ASSUME Daemons!TypeOK, NEW p \in Pids, Daemons!Signalled(p)
    PROVE  /\ procs' \in [Pids -> Daemons!Live \cup {"unborn", "dead"}]
           /\ \A q \in Pids : Later(procs[q], procs'[q])
BY DEF Daemons!TypeOK, Daemons!Signalled, Later, Daemons!Live, Daemons!Named, Daemons!Unpidded

\* Stale files are removed only when no process is named.
LEMMA CleansStale ==
    ASSUME DaemonBounds, DaemonInv, Daemons!Cleaned
    PROVE  /\ pidFile' \in Pids \cup {None} /\ listening' \in Pids \cup {None}
           /\ \A p \in Pids : procs[p] \in Daemons!Named /\ ~raced => pidFile' = pidFile /\ listening' = listening
<1>1. pidFile' \in Pids \cup {None} /\ listening' \in Pids \cup {None}
  BY DEF Daemons!Cleaned, DaemonInv, Daemons!TypeOK
<1>2. ASSUME NEW p \in Pids, procs[p] \in Daemons!Named, ~raced
      PROVE  pidFile' = pidFile /\ listening' = listening
  <2>1. Daemons!Running(pidFile)
    BY <1>2 DEF DaemonInv, Alone, Daemons!Running, Daemons!Live, DaemonBounds
  <2> QED
    BY <2>1 DEF Daemons!Cleaned
<1> QED
  BY <1>1, <1>2

LEMMA DaemonNext ==
    ASSUME DaemonBounds, DaemonInv, [Daemons!Next]_Daemons!vars
    PROVE  DaemonInv'
<1>0. Daemons!TypeOK
  BY DEF DaemonInv
<1>1. ASSUME NEW c \in Terminals, Daemons!Begin(c)
      PROVE  DaemonInv'
  <2>1. /\ commands' \in [Terminals ->
                [kind : {"none", "start", "stop", "attach"},
                 at : {"prompt", "look", "launch", "wait", "connect", "ask", "waitExit", "term",
                       "waitTerm", "kill", "waitKill"},
                 pid : Pids \cup {None}]]
        /\ \A d \in Terminals : commands'[d].at = "launch" => commands[d].at = "launch"
    BY <1>0, <1>1 DEF Daemons!Begin, Daemons!TypeOK
  <2> QED
    BY <1>1, <2>1, SameDaemon DEF Daemons!Begin
<1>2. ASSUME NEW c \in Terminals, Daemons!LookStart(c)
      PROVE  DaemonInv'
  <2> DEFINE next == IF ~Daemons!AlreadyRunning THEN "launch"
                   ELSE IF commands[c].kind = "attach" THEN "connect" ELSE "refused"
  <2>1. Daemons!Goes(c, next) /\ next \in Daemons!Outcomes \cup {"launch", "connect"} /\ UNCHANGED <<procs, pidFile, listening>>
    BY <1>2 DEF Daemons!LookStart, Daemons!Outcomes
  <2>2. /\ commands' \in [Terminals ->
                [kind : {"none", "start", "stop", "attach"},
                 at : {"prompt", "look", "launch", "wait", "connect", "ask", "waitExit", "term",
                       "waitTerm", "kill", "waitKill"},
                 pid : Pids \cup {None}]]
        /\ \A d \in Terminals : d # c => commands'[d] = commands[d]
        /\ commands'[c].at = "launch" => next = "launch"
    BY <1>0, <2>1, CommandGoes
  <2>3. raced' \in BOOLEAN
    BY <1>2 DEF Daemons!LookStart
  <2>4. ASSUME ~raced'
        PROVE  Alone'
    <3>1. Alone /\ ~raced
      BY <1>2, <2>4 DEF Daemons!LookStart, DaemonInv
    <3>2. CASE Daemons!AlreadyRunning
      <4>1. next \in {"connect", "refused"}
        BY <3>2
      <4>2. \A d \in Terminals : commands'[d].at = "launch" => commands[d].at = "launch"
        BY <2>2, <4>1
      <4> QED
        BY <2>1, <3>1, <4>2 DEF Alone, Standing
    <3>3. CASE ~Daemons!AlreadyRunning
      <4>1. \A p \in Pids : procs[p] \notin Daemons!Unpidded
        BY <1>2, <2>4, <3>3 DEF Daemons!LookStart
      <4>2. \A d \in Terminals : commands[d].at # "launch"
        BY <1>2, <2>4, <3>3 DEF Daemons!LookStart
      <4>3. \A p \in Pids : procs[p] \notin Daemons!Named
        BY <3>1, <3>3 DEF Alone, Daemons!AlreadyRunning, Daemons!Running, Daemons!Live, DaemonBounds
      <4> QED
        BY <2>1, <2>2, <3>1, <4>1, <4>2, <4>3 DEF Alone, Standing
    <3> QED
      BY <3>2, <3>3
  <2> QED
    BY <1>0, <2>1, <2>2, <2>3, <2>4 DEF DaemonInv, Daemons!TypeOK
<1>3. ASSUME NEW c \in Terminals, Daemons!Launch(c)
      PROVE  DaemonInv'
  <2>1. PICK p \in Pids : procs[p] = "unborn" /\ procs' = [procs EXCEPT ![p] = "booting"]
    BY <1>3 DEF Daemons!Launch
  <2>2. Daemons!Goes(c, "wait") /\ Daemons!Cleaned /\ raced' = raced /\ commands[c].at = "launch"
    BY <1>3 DEF Daemons!Launch
  <2>3. /\ commands' \in [Terminals ->
                [kind : {"none", "start", "stop", "attach"},
                 at : {"prompt", "look", "launch", "wait", "connect", "ask", "waitExit", "term",
                       "waitTerm", "kill", "waitKill"},
                 pid : Pids \cup {None}]]
        /\ \A d \in Terminals : d # c => commands'[d] = commands[d]
        /\ commands'[c].at # "launch"
    BY <1>0, <2>2, CommandGoes
  <2>4. /\ pidFile' \in Pids \cup {None} /\ listening' \in Pids \cup {None}
    BY <2>2, CleansStale
  <2>5. Daemons!TypeOK'
    BY <1>0, <2>1, <2>2, <2>3, <2>4 DEF Daemons!TypeOK, Daemons!Live, Daemons!Unpidded
  <2>6. ASSUME ~raced
        PROVE  Alone'
    <3>1. \A q \in Pids : ~Standing(q)
      BY <2>2, <2>6 DEF DaemonInv, Alone
    <3>2. \A q \in Pids : Standing(q)' => q = p
      BY <1>0, <2>1, <3>1 DEF Standing, Daemons!TypeOK
    <3>3. \A q \in Pids : procs'[q] \notin Daemons!Named
      BY <1>0, <2>1, <3>1 DEF Standing, Daemons!TypeOK, Daemons!Named
    <3>4. \A d \in Terminals : commands'[d].at # "launch"
      BY <2>2, <2>3, <2>6 DEF DaemonInv, Alone
    <3> QED
      BY <3>2, <3>3, <3>4 DEF Alone, Daemons!Named
  <2> QED
    BY <2>2, <2>5, <2>6 DEF DaemonInv
<1>4. ASSUME NEW c \in Terminals,
             Daemons!Ready(c) \/ Daemons!NotReady(c) \/ Daemons!Connect(c) \/ Daemons!Exited(c) \/ Daemons!WaitedInVain(c)
      PROVE  DaemonInv'
  <2>1. PICK next \in Daemons!Outcomes \cup {"connect", "term", "kill"} : Daemons!Goes(c, next)
    BY <1>4 DEF Daemons!Ready, Daemons!NotReady, Daemons!Connect, Daemons!Exited, Daemons!WaitedInVain, Daemons!Outcomes
  <2>2. UNCHANGED <<procs, pidFile, listening, raced>>
    BY <1>4 DEF Daemons!Ready, Daemons!NotReady, Daemons!Connect, Daemons!Exited, Daemons!WaitedInVain
  <2>3. next # "launch"
    BY DEF Daemons!Outcomes
  <2> QED
    BY <1>0, <2>1, <2>2, <2>3, CommandGoes, SameDaemon
<1>5. ASSUME NEW c \in Terminals, Daemons!LookStop(c)
      PROVE  DaemonInv'
  <2>1. CASE \E next \in {"notFound", "stopped"} : Daemons!Goes(c, next) /\ (UNCHANGED <<pidFile, listening>> \/ Daemons!Cleaned)
    <3>1. PICK next \in {"notFound", "stopped"} : Daemons!Goes(c, next)
      BY <2>1
    <3>2. /\ commands' \in [Terminals ->
                [kind : {"none", "start", "stop", "attach"},
                 at : {"prompt", "look", "launch", "wait", "connect", "ask", "waitExit", "term",
                       "waitTerm", "kill", "waitKill"},
                 pid : Pids \cup {None}]]
          /\ \A d \in Terminals : commands'[d].at = "launch" => commands[d].at = "launch"
      <4>1. next \in Daemons!Outcomes \cup {"launch", "wait", "connect", "waitExit", "term", "waitTerm",
                                 "kill", "waitKill"} /\ next # "launch"
        BY <3>1 DEF Daemons!Outcomes
      <4> QED
        BY <1>0, <3>1, <4>1, CommandGoes
    <3>3. procs' = procs /\ raced' = raced
      BY <1>5 DEF Daemons!LookStop
    <3>4. CASE UNCHANGED <<pidFile, listening>>
      BY <3>2, <3>3, <3>4, SameDaemon
    <3>5. CASE Daemons!Cleaned
      <4>1. /\ pidFile' \in Pids \cup {None} /\ listening' \in Pids \cup {None}
            /\ \A p \in Pids : procs[p] \in Daemons!Named /\ ~raced => pidFile' = pidFile /\ listening' = listening
        BY <3>5, CleansStale
      <4>2. ~raced => Alone'
        BY <3>2, <3>3, <4>1 DEF DaemonInv, Alone, Standing, Daemons!Named
      <4> QED
        BY <1>0, <3>2, <3>3, <4>1, <4>2 DEF DaemonInv, Daemons!TypeOK
    <3> QED
      BY <2>1, <3>4, <3>5
  <2>2. CASE /\ commands' = [commands EXCEPT ![c].at = "ask", ![c].pid = pidFile]
             /\ UNCHANGED <<pidFile, listening>>
    <3>1. /\ commands' \in [Terminals ->
                [kind : {"none", "start", "stop", "attach"},
                 at : {"prompt", "look", "launch", "wait", "connect", "ask", "waitExit", "term",
                       "waitTerm", "kill", "waitKill"},
                 pid : Pids \cup {None}]]
          /\ \A d \in Terminals : commands'[d].at = "launch" => commands[d].at = "launch"
      BY <1>0, <2>2 DEF Daemons!TypeOK
    <3> QED
      BY <1>5, <2>2, <3>1, SameDaemon DEF Daemons!LookStop
  <2> QED
    BY <1>5, <2>1, <2>2 DEF Daemons!LookStop
<1>6. ASSUME NEW c \in Terminals, Daemons!AskStop(c)
      PROVE  DaemonInv'
  <2>1. PICK next \in {"waitExit", "term"} : Daemons!Goes(c, next)
    BY <1>6 DEF Daemons!AskStop
  <2>2. /\ procs' \in [Pids -> Daemons!Live \cup {"unborn", "dead"}]
        /\ \A p \in Pids : Later(procs[p], procs'[p])
    BY <1>0, <1>6, SignalEnds DEF Daemons!AskStop, Later, Daemons!TypeOK
  <2> QED
    BY <1>0, <1>6, <2>1, <2>2, CommandGoes, OnlyEnds DEF Daemons!AskStop
<1>7. ASSUME NEW c \in Terminals, Daemons!Escalate(c)
      PROVE  DaemonInv'
  <2>1. PICK next \in {"failed", "waitTerm", "waitKill"} : Daemons!Goes(c, next)
    BY <1>7 DEF Daemons!Escalate
  <2>2. next \in Daemons!Outcomes \cup {"waitTerm", "waitKill"} /\ next # "launch"
    BY DEF Daemons!Outcomes
  <2>3. /\ procs' \in [Pids -> Daemons!Live \cup {"unborn", "dead"}]
        /\ \A p \in Pids : Later(procs[p], procs'[p])
    <3>1. CASE UNCHANGED procs
      BY <1>0, <3>1 DEF Later, Daemons!TypeOK
    <3>2. CASE Daemons!Signalled(commands[c].pid) /\ Daemons!Running(commands[c].pid)
      BY <1>0, <3>2, SignalEnds DEF Daemons!TypeOK, Daemons!Running
    <3>3. CASE procs' = [procs EXCEPT ![commands[c].pid] = "dead"]
      BY <1>0, <3>3 DEF Daemons!TypeOK, Later
    <3> QED
      BY <1>7, <3>1, <3>2, <3>3 DEF Daemons!Escalate
  <2> QED
    BY <1>0, <1>7, <2>1, <2>2, <2>3, CommandGoes, OnlyEnds DEF Daemons!Escalate
<1>8. ASSUME NEW p \in Pids, Daemons!Die(p) \/ Daemons!Signal(p)
      PROVE  DaemonInv'
  <2>1. /\ procs' \in [Pids -> Daemons!Live \cup {"unborn", "dead"}]
        /\ \A q \in Pids : Later(procs[q], procs'[q])
    <3>1. CASE Daemons!Signal(p)
      BY <1>0, <3>1, SignalEnds DEF Daemons!Signal
    <3>2. CASE Daemons!Die(p)
      BY <1>0, <3>2 DEF Daemons!Die, Later, Daemons!TypeOK
    <3> QED
      BY <1>8, <3>1, <3>2
  <2> QED
    BY <1>0, <1>8, <2>1, OnlyEnds DEF Daemons!Die, Daemons!Signal, Daemons!TypeOK
<1>9. ASSUME NEW p \in Pids, Daemons!WritePid(p) \/ Daemons!Listen(p) \/ Daemons!StopServer(p) \/ Daemons!RemovePid(p)
      PROVE  DaemonInv'
  <2>1. /\ procs[p] \in {"booting", "written", "closing", "deaf"}
        /\ procs' = [procs EXCEPT ![p] = CASE @ = "booting" -> "written" [] @ = "written" -> "serving"
                                           [] @ = "closing" -> "deaf" [] OTHER -> "leaving"]
    BY <1>9 DEF Daemons!WritePid, Daemons!Listen, Daemons!StopServer, Daemons!RemovePid, Daemons!Becomes
  <2>2. UNCHANGED <<commands, raced>>
    BY <1>9 DEF Daemons!WritePid, Daemons!Listen, Daemons!StopServer, Daemons!RemovePid
  <2>3. Daemons!TypeOK'
    BY <1>0, <1>9, <2>1, <2>2 DEF Daemons!WritePid, Daemons!Listen, Daemons!StopServer, Daemons!RemovePid, Daemons!TypeOK, Daemons!Live, Daemons!Unpidded, Daemons!Named
  <2>4. ASSUME ~raced
        PROVE  Alone'
    <3>1. Standing(p) /\ Alone
      BY <2>1, <2>4 DEF Standing, Daemons!Unpidded, Daemons!Named, DaemonInv
    <3>2. \A q \in Pids : q # p => procs'[q] = procs[q] /\ ~Standing(q)
      BY <1>0, <2>1, <3>1 DEF Daemons!TypeOK, Alone
    <3>3. \A q \in Pids : q # p => procs'[q] \notin Daemons!Named /\ ~Standing(q)'
      BY <3>2 DEF Standing
    <3>4. procs'[p] \in Daemons!Named => pidFile' = p
      BY <1>0, <1>9, <3>1, <2>1 DEF Daemons!WritePid, Daemons!Listen, Daemons!StopServer, Daemons!RemovePid, Daemons!Becomes, Alone, Daemons!Named, Daemons!TypeOK
    <3>5. procs'[p] \in {"serving", "closing"} => listening' = p
      BY <1>0, <1>9, <2>1 DEF Daemons!WritePid, Daemons!Listen, Daemons!StopServer, Daemons!RemovePid, Daemons!Becomes, Daemons!TypeOK
    <3> QED
      BY <2>2, <3>1, <3>3, <3>4, <3>5 DEF Alone, Daemons!Named
  <2> QED
    BY <2>2, <2>3, <2>4 DEF DaemonInv
<1>10. CASE UNCHANGED Daemons!vars
  BY <1>10 DEF Daemons!vars, DaemonInv, Daemons!TypeOK, Alone, Standing
<1> QED
  BY <1>1, <1>2, <1>3, <1>4, <1>5, <1>6, <1>7, <1>8, <1>9, <1>10 DEF Daemons!Next

\* The instance counts as FiniteSets does.
LEMMA SameCardinality == ASSUME NEW S PROVE Daemons!Cardinality(S) = Cardinality(S)
BY DEF Daemons!Cardinality, Cardinality, Daemons!IsFiniteSet, IsFiniteSet

LEMMA DaemonIsFound ==
    ASSUME DaemonInv
    PROVE  Daemons!OneDaemonIsFound
<1> SUFFICES ASSUME ~raced PROVE Daemons!OneDaemonIsFound
  BY DEF Daemons!OneDaemonIsFound
<1> DEFINE S == {p \in Pids : procs[p] \in Daemons!Unpidded \cup Daemons!Named}
<1>1. Alone
  BY DEF DaemonInv
<1>2. \A p, q \in S : p = q
  BY <1>1 DEF Alone, Standing
<1>3. Cardinality(S) <= 1
  <2> HIDE DEF S
  <2>1. CASE S = {}
    BY <2>1, FS_EmptySet
  <2>2. CASE S # {}
    <3>1. PICK p : S = {p}
      BY <1>2, <2>2
    <3> QED
      BY <3>1, FS_Singleton
  <2> QED
    BY <2>1, <2>2
<1> QED
  BY <1>1, <1>3, SameCardinality DEF Daemons!OneDaemonIsFound, Alone

\* One daemon stands for an agent, its pid file and socket name it, unless two starts
\* overlapped (daemon-start.ts, pid-manager.ts, launcher.ts, daemon-entry.ts).
THEOREM DaemonsOneIsFound ==
    ASSUME DaemonBounds
    PROVE  Daemons!Spec => [](Daemons!TypeOK /\ Daemons!OneDaemonIsFound)
<1>1. Daemons!Init => DaemonInv
  BY DaemonInit
<1>2. DaemonInv /\ [Daemons!Next]_Daemons!vars => DaemonInv'
  BY DaemonNext
<1>3. DaemonInv => Daemons!TypeOK /\ Daemons!OneDaemonIsFound
  BY DaemonIsFound DEF DaemonInv
<1> QED
  BY <1>1, <1>2, <1>3, PTL DEF Daemons!Spec


-----------------------------------------------------------------------------
(* The foreground runner from one launch to the next (ForegroundRunner).   *)

\* A writer's buffer and the dedupe window hold something.
ForegroundBounds ==
    /\ BufferSize \in Nat \ {0} /\ DedupeWindow \in Nat \ {0}
    /\ MaxRuns \in Nat /\ MaxWork \in Nat
    /\ None \notin RunKeys
    /\ None \notin [state : 0..MaxWork, key : RunKeys \cup {None}]

Stopping == {"writing", "renaming", "saving", "stopping", "flushing log",
             "flushing audit", "clearing", "flushed"}
Checkpoints == [state : 0..MaxWork, key : RunKeys \cup {None}]

ForegroundTyped ==
    /\ stage \in Stopping \cup {"down", "restoring", "resuming", "running", "stopped",
                                "crashed"}
    /\ runs \in 0..MaxRuns /\ binding \in RunKeys \cup {None}
    /\ resume \in BOOLEAN /\ trouble \in BOOLEAN
    /\ plugin \in 0..MaxWork /\ told \in 0..MaxWork
    /\ snapshot \in 0..MaxWork /\ session \in 0..MaxWork
    /\ checkpoint \in Checkpoints \cup {None} /\ temporary \in Checkpoints \cup {None}
    /\ wanted \in [plugin : 0..MaxWork, said : 0..MaxWork, key : RunKeys \cup {None}]

\* What a shutdown in which nothing failed has come to: the snapshot, the temporary
\* file and the checkpoint hold in their turn what there was when it was asked for.
Keeping ==
    stage \in Stopping /\ ~trouble =>
        /\ stage # "flushed" => wanted.key = binding
        /\ stage \in {"writing", "renaming", "saving"} => told >= wanted.said
        /\ stage \in {"writing", "renaming"} => snapshot >= wanted.plugin
        /\ stage = "renaming" => temporary = [state |-> snapshot, key |-> binding]
        /\ stage \notin {"writing", "renaming"} /\ wanted.key # None =>
              /\ checkpoint # None /\ checkpoint.key = wanted.key
              /\ checkpoint.state >= wanted.plugin
        /\ stage \notin {"writing", "renaming", "saving"} /\ wanted.said > 0 =>
              session >= wanted.said

\* Before its flush a journal has at most the line of an overflow, and its buffer the
\* latest entries in their order.
Unflushed(made, buffer, lines) ==
    /\ made \in Nat /\ buffer \in Seq(Nat)
    /\ Len(buffer) <= BufferSize /\ Len(buffer) <= made
    /\ Len(buffer) = made \/ Len(buffer) = BufferSize
    /\ \A k \in 1..Len(buffer) : buffer[k] = (made - Len(buffer)) + k
    /\ lines \in {<<>>, <<Foreground!Overflow>>}

Increasing(lines) ==
    \A j, k \in 1..Len(lines) :
        j < k /\ Foreground!Overflow \notin {lines[j], lines[k]} => lines[j] < lines[k]

\* After it the lines are in order, and the latest are there unless something failed.
Flushed(made, buffer, lines, failed) ==
    /\ made \in Nat /\ buffer = <<>> /\ lines \in Seq(Nat)
    /\ Increasing(lines)
    /\ ~failed => \A n \in 1..made : n > made - BufferSize => n \in Foreground!Range(lines)

LogFlushed == {"flushing audit", "clearing", "flushed"}
AuditFlushed == {"clearing", "flushed"}

Journals ==
    /\ IF stage \in LogFlushed THEN Flushed(logged, logBuffer, log, trouble)
       ELSE Unflushed(logged, logBuffer, log)
    /\ IF stage \in AuditFlushed THEN Flushed(Len(denied), auditBuffer, audit, trouble)
       ELSE Unflushed(Len(denied), auditBuffer, audit)

\* The window holds the latest accepted denials; equal ones are further apart.
Deduplicated ==
    /\ denied \in Seq(Denials) /\ seen \in Seq(Denials)
    /\ Len(seen) <= DedupeWindow /\ Len(seen) <= Len(denied)
    /\ Len(seen) = Len(denied) \/ Len(seen) = DedupeWindow
    /\ \A k \in 1..Len(seen) : seen[k] = denied[(Len(denied) - Len(seen)) + k]
    /\ \A j, k \in 1..Len(denied) : j < k /\ denied[j] = denied[k] => k - j > DedupeWindow

ForegroundInv ==
    /\ ForegroundTyped /\ Keeping /\ Journals /\ Deduplicated
    /\ stage = "flushed" => binding = None

-----------------------------------------------------------------------------
LEMMA ForegroundInit ==
    ASSUME ForegroundBounds, Foreground!Init
    PROVE  ForegroundInv
<1>1. ForegroundTyped
  <2>1. 0 \in 0..MaxRuns /\ 0 \in 0..MaxWork
    BY DEF ForegroundBounds
  <2>2. Foreground!Unasked \in [plugin : 0..MaxWork, said : 0..MaxWork, key : RunKeys \cup {None}]
    BY <2>1 DEF Foreground!Unasked
  <2>3. stage \in {"down"}
    BY DEF Foreground!Init
  <2> QED
    BY <2>1, <2>2, <2>3 DEF Foreground!Init, ForegroundTyped
<1>2. Unflushed(0, <<>>, <<>>) /\ Len(denied) = 0
  BY DEF ForegroundBounds, Unflushed, Foreground!Init
<1>3. Journals
  BY <1>2 DEF Foreground!Init, Journals, LogFlushed, AuditFlushed
<1>4. Deduplicated
  BY DEF ForegroundBounds, Foreground!Init, Deduplicated
<1> QED
  BY <1>1, <1>3, <1>4 DEF Foreground!Init, ForegroundInv, Keeping, Stopping

\* BufferedWriter.push keeps the latest entries in their order.
LEMMA PushedKeeps ==
    ASSUME ForegroundBounds, NEW made, NEW buffer, NEW lines, Unflushed(made, buffer, lines)
    PROVE  Unflushed(made + 1, Foreground!Pushed(buffer, made + 1), Foreground!Reported(buffer, lines))
<1>1. made \in Nat /\ buffer \in Seq(Nat) /\ made + 1 \in Nat
  BY DEF Unflushed
<1>2. Foreground!Reported(buffer, lines) \in {<<>>, <<Foreground!Overflow>>}
  <2>1. CASE lines = <<>>
    <3>1. Append(lines, Foreground!Overflow) = <<Foreground!Overflow>>
      BY <2>1
    <3> QED
      BY <2>1, <3>1 DEF Foreground!Reported
  <2>2. CASE lines = <<Foreground!Overflow>>
    <3>1. Foreground!Overflow \in Foreground!Range(lines)
      BY <2>2 DEF Foreground!Range
    <3> QED
      BY <2>2, <3>1 DEF Foreground!Reported
  <2> QED
    BY <2>1, <2>2 DEF Unflushed
<1> DEFINE n == Len(buffer)
<1>3. n \in Nat /\ n <= BufferSize /\ n <= made /\ (n = made \/ n = BufferSize)
      /\ BufferSize \in Nat \ {0}
  BY <1>1 DEF Unflushed, ForegroundBounds
<1>4. \A k \in 1..n : buffer[k] = (made - n) + k
  BY DEF Unflushed
<1>5. CASE n >= BufferSize
  <2> DEFINE b == Append(Tail(buffer), made + 1)
  <2>1. buffer # <<>> /\ n = BufferSize
    BY <1>1, <1>3, <1>5
  <2>2. Tail(buffer) \in Seq(Nat) /\ Len(Tail(buffer)) = n - 1
        /\ \A k \in 1..(n - 1) : Tail(buffer)[k] = buffer[k + 1]
    BY <1>1, <2>1, HeadTailProperties
  <2>3. b \in Seq(Nat) /\ Len(b) = n
        /\ \A k \in 1..n : b[k] = IF k = n THEN made + 1 ELSE Tail(buffer)[k]
    <3>1. /\ b \in Seq(Nat) /\ Len(b) = Len(Tail(buffer)) + 1
          /\ \A k \in 1..Len(Tail(buffer)) : b[k] = Tail(buffer)[k]
          /\ b[Len(Tail(buffer)) + 1] = made + 1
      BY <1>1, <2>2, AppendProperties
    <3> HIDE DEF b, n
    <3> QED
      BY <3>1, <2>1, <2>2, <1>1, <1>3
  <2> HIDE DEF b
  <2>4. \A k \in 1..n : b[k] = ((made + 1) - n) + k
    <3> SUFFICES ASSUME NEW k \in 1..n PROVE b[k] = ((made + 1) - n) + k
      OBVIOUS
    <3> HIDE DEF n
    <3>1. CASE k = n
      BY <3>1, <2>3, <1>1, <1>3
    <3>2. CASE k # n
      <4>1. k \in 1..(n - 1) /\ k + 1 \in 1..n
        BY <3>2, <1>3
      <4>2. b[k] = buffer[k + 1]
        BY <3>2, <4>1, <2>2, <2>3
      <4>3. buffer[k + 1] = (made - n) + (k + 1)
        BY <4>1, <1>4
      <4> QED
        BY <4>2, <4>3, <1>1, <1>3
    <3> QED
      BY <3>1, <3>2
  <2>5. Foreground!Pushed(buffer, made + 1) = b
    BY <1>5 DEF Foreground!Pushed, b
  <2>6. /\ Len(b) <= BufferSize /\ Len(b) <= made + 1 /\ Len(b) = BufferSize
        /\ \A k \in 1..Len(b) : b[k] = ((made + 1) - Len(b)) + k
    <3> HIDE DEF n
    <3> QED
      BY <2>1, <2>3, <2>4, <1>1, <1>3
  <2> QED
    BY <1>1, <1>2, <2>3, <2>5, <2>6 DEF Unflushed
<1>6. CASE ~(n >= BufferSize)
  <2> DEFINE b == Append(buffer, made + 1)
  <2>1. b \in Seq(Nat) /\ Len(b) = n + 1
        /\ \A k \in 1..(n + 1) : b[k] = IF k = n + 1 THEN made + 1 ELSE buffer[k]
    BY <1>1, <1>3, AppendProperties
  <2>2. Foreground!Pushed(buffer, made + 1) = b
    BY <1>6 DEF Foreground!Pushed, b
  <2> HIDE DEF b
  <2>3. n = made /\ n + 1 <= BufferSize
    <3> HIDE DEF n
    <3> QED
      BY <1>3, <1>6
  <2>4. \A k \in 1..(n + 1) : b[k] = k
    <3> HIDE DEF n
    <3> QED
      BY <2>1, <1>4, <1>3, <2>3
  <2>5. /\ Len(b) <= BufferSize /\ Len(b) <= made + 1 /\ Len(b) = made + 1
        /\ \A k \in 1..Len(b) : b[k] = ((made + 1) - Len(b)) + k
    <3> HIDE DEF n
    <3> QED
      BY <2>1, <2>3, <2>4, <1>1, <1>3
  <2> QED
    BY <1>1, <1>2, <2>1, <2>2, <2>5 DEF Unflushed
<1> QED
  BY <1>5, <1>6

\* A flush that got to the k-th line has written those, in their order.
LEMMA FlushKeeps ==
    ASSUME ForegroundBounds, NEW made, NEW buffer, NEW lines, Unflushed(made, buffer, lines),
           NEW k \in 0..Len(buffer)
    PROVE  Flushed(made, <<>>, lines \o SubSeq(buffer, 1, k), k < Len(buffer))
<1> DEFINE n == Len(buffer)
           s == SubSeq(buffer, 1, k)
           m == Len(lines)
           all == lines \o s
<1>1. made \in Nat /\ buffer \in Seq(Nat) /\ n \in Nat /\ n <= made
      /\ (n = made \/ n = BufferSize) /\ BufferSize \in Nat
  BY DEF Unflushed, ForegroundBounds
<1>2. \A i \in 1..n : buffer[i] = (made - n) + i
  BY DEF Unflushed
<1>3. lines \in Seq(Nat) /\ m \in {0, 1} /\ (\A i \in 1..m : lines[i] = 0)
  <2>1. CASE lines = <<>>
    BY <2>1
  <2>2. CASE lines = <<Foreground!Overflow>>
    <3>1. lines \in Seq(Nat) /\ Len(lines) = 1 /\ lines[1] = 0
      BY <2>2 DEF Foreground!Overflow
    <3> QED
      BY <3>1
  <2> QED
    BY <2>1, <2>2 DEF Unflushed
<1>4. s \in Seq(Nat) /\ Len(s) = k /\ \A i \in 1..k : s[i] = buffer[i]
  BY <1>1, SubSeqProperties
<1>5. /\ all \in Seq(Nat) /\ Len(all) = m + k
      /\ \A i \in 1..(m + k) : all[i] = IF i <= m THEN lines[i] ELSE s[i - m]
  BY <1>3, <1>4, ConcatProperties
<1> HIDE DEF n, s, m, all
<1>6. k \in Nat /\ k <= n
  BY <1>1 DEF n
<1>7. \A i \in 1..(m + k) : /\ i <= m => all[i] = 0
                            /\ i > m => all[i] = (made - n) + (i - m)
  <2> SUFFICES ASSUME NEW i \in 1..(m + k)
               PROVE  /\ i <= m => all[i] = 0
                      /\ i > m => all[i] = (made - n) + (i - m)
    OBVIOUS
  <2>0. all[i] = IF i <= m THEN lines[i] ELSE s[i - m]
    BY <1>5
  <2> i \in Int /\ m \in Int
    BY <1>3, <1>6
  <2>1. CASE i <= m
    <3>1. i \in 1..m
      BY <2>1
    <3> QED
      BY <2>0, <2>1, <3>1, <1>3
  <2>2. CASE i > m
    <3>1. i - m \in 1..k /\ i - m \in 1..n
      BY <2>2, <1>1, <1>3, <1>6
    <3>2. all[i] = s[i - m]
      BY <2>0, <2>2
    <3>3. s[i - m] = buffer[i - m]
      BY <3>1, <1>4
    <3>4. buffer[i - m] = (made - n) + (i - m)
      BY <3>1, <1>2
    <3> QED
      BY <2>2, <3>2, <3>3, <3>4, <1>3
  <2> QED
    BY <2>1, <2>2, <1>3, <1>6
<1>8. Increasing(all)
  BY <1>1, <1>3, <1>5, <1>6, <1>7 DEF Increasing, Foreground!Overflow
<1>9. ASSUME ~(k < n), NEW x \in 1..made, x > made - BufferSize
      PROVE  x \in Foreground!Range(all)
  <2> DEFINE i == m + (x - (made - n))
  <2>1. i \in 1..(m + k) /\ i > m /\ all[i] = x
    BY <1>1, <1>3, <1>6, <1>7, <1>9
  <2> HIDE DEF i
  <2>2. i \in DOMAIN all
    BY <1>5, <2>1
  <2> QED
    BY <2>1, <2>2 DEF Foreground!Range
<1> QED
  BY <1>1, <1>5, <1>8, <1>9 DEF Flushed, n, all, s

LEMMA FailedFlush ==
    ASSUME NEW made, NEW buffer, NEW lines, NEW failed \in BOOLEAN, NEW more \in BOOLEAN,
           Flushed(made, buffer, lines, failed), failed => more
    PROVE  Flushed(made, buffer, lines, more)
BY DEF Flushed

\* A denial that is new comes after the window of every equal one.
LEMMA ObservedKeeps ==
    ASSUME ForegroundBounds, Deduplicated, NEW d \in Denials, d \notin Foreground!Range(seen),
           seen' = Foreground!Observed(d), denied' = Append(denied, d)
    PROVE  Deduplicated' /\ Len(denied') = Len(denied) + 1
<1> DEFINE n == Len(denied)
           w == Len(seen)
<1>1. n \in Nat /\ w \in Nat /\ w <= DedupeWindow /\ w <= n /\ (w = n \/ w = DedupeWindow)
      /\ DedupeWindow \in Nat \ {0} /\ denied \in Seq(Denials) /\ seen \in Seq(Denials)
  BY DEF Deduplicated, ForegroundBounds
<1>2. /\ denied' \in Seq(Denials) /\ Len(denied') = n + 1
      /\ \A k \in 1..(n + 1) : denied'[k] = IF k = n + 1 THEN d ELSE denied[k]
  BY <1>1, AppendProperties
<1>3. \A k \in 1..w : seen[k] = denied[(n - w) + k] /\ seen[k] # d
  BY <1>1 DEF Deduplicated, Foreground!Range
<1>4. \A j, k \in 1..n : j < k /\ denied[j] = denied[k] => k - j > DedupeWindow
  BY DEF Deduplicated
<1>5. /\ seen' \in Seq(Denials) /\ Len(seen') = IF w = DedupeWindow THEN w ELSE w + 1
      /\ \A k \in 1..Len(seen') : seen'[k] = IF k = Len(seen') THEN d
                                             ELSE IF w = DedupeWindow THEN seen[k + 1] ELSE seen[k]
  <2>1. CASE w = DedupeWindow
    <3>1. seen # <<>>
      BY <1>1, <2>1
    <3>2. Tail(seen) \in Seq(Denials) /\ Len(Tail(seen)) = w - 1
          /\ \A k \in 1..(w - 1) : Tail(seen)[k] = seen[k + 1]
      BY <1>1, <3>1, HeadTailProperties
    <3>3. seen' = Append(Tail(seen), d)
      BY <2>1 DEF Foreground!Observed
    <3>4. Len(seen') = w /\ seen' \in Seq(Denials)
          /\ \A k \in 1..w : seen'[k] = IF k = w THEN d ELSE Tail(seen)[k]
      <4>1. /\ seen' \in Seq(Denials) /\ Len(seen') = Len(Tail(seen)) + 1
            /\ \A k \in 1..Len(Tail(seen)) : seen'[k] = Tail(seen)[k]
            /\ seen'[Len(Tail(seen)) + 1] = d
        BY <3>2, <3>3, AppendProperties
      <4> HIDE DEF w
      <4> QED
        BY <4>1, <3>2, <1>1
    <3> HIDE DEF w
    <3> QED
      BY <3>2, <3>4, <2>1, <1>1
  <2>2. CASE w # DedupeWindow
    <3>1. seen' = Append(seen, d)
      BY <2>2 DEF Foreground!Observed
    <3>2. Len(seen') = w + 1 /\ seen' \in Seq(Denials)
          /\ \A k \in 1..(w + 1) : seen'[k] = IF k = w + 1 THEN d ELSE seen[k]
      BY <3>1, <1>1, AppendProperties
    <3> HIDE DEF w
    <3> QED
      BY <3>2, <2>2, <1>1
  <2> QED
    BY <2>1, <2>2
<1> DEFINE v == Len(seen')
<1>6. v = IF w = DedupeWindow THEN w ELSE w + 1
  BY <1>5
<1> HIDE DEF n, w, v
<1>7. \A k \in 1..v : seen'[k] = denied'[((n + 1) - v) + k]
  <2> SUFFICES ASSUME NEW k \in 1..v PROVE seen'[k] = denied'[((n + 1) - v) + k]
    OBVIOUS
  <2>1. CASE k = v
    BY <2>1, <1>1, <1>2, <1>5, <1>6 DEF v
  <2>2. CASE k # v /\ w = DedupeWindow
    <3>1. seen'[k] = seen[k + 1] /\ k + 1 \in 1..w
      BY <2>2, <1>1, <1>5, <1>6 DEF v
    <3>2. seen[k + 1] = denied[(n - w) + (k + 1)]
      BY <3>1, <1>3
    <3>3. ((n + 1) - v) + k = (n - w) + (k + 1) /\ (n - w) + (k + 1) \in 1..n
      BY <3>1, <2>2, <1>1, <1>6
    <3> QED
      BY <3>1, <3>2, <3>3, <1>1, <1>2
  <2>3. CASE k # v /\ w # DedupeWindow
    <3>1. seen'[k] = seen[k] /\ k \in 1..w
      BY <2>3, <1>1, <1>5, <1>6 DEF v
    <3>2. seen[k] = denied[(n - w) + k]
      BY <3>1, <1>3
    <3>3. ((n + 1) - v) + k = (n - w) + k /\ (n - w) + k \in 1..n
      BY <3>1, <2>3, <1>1, <1>6
    <3> QED
      BY <3>1, <3>2, <3>3, <1>1, <1>2
  <2> QED
    BY <2>1, <2>2, <2>3
<1>8. \A j, k \in 1..(n + 1) : j < k /\ denied'[j] = denied'[k] => k - j > DedupeWindow
  <2> SUFFICES ASSUME NEW j \in 1..(n + 1), NEW k \in 1..(n + 1), j < k, denied'[j] = denied'[k]
               PROVE  k - j > DedupeWindow
    OBVIOUS
  <2>1. CASE k # n + 1
    BY <2>1, <1>1, <1>2, <1>4
  <2>2. CASE k = n + 1
    <3>1. j \in 1..n /\ denied[j] = d
      BY <2>2, <1>1, <1>2
    <3>2. j <= n - w
      <4> SUFFICES ASSUME j > n - w PROVE FALSE
        BY <3>1, <1>1
      <4> DEFINE i == j - (n - w)
      <4>1. i \in 1..w /\ (n - w) + i = j
        BY <3>1, <1>1
      <4> HIDE DEF i
      <4> QED
        BY <4>1, <1>3, <3>1
    <3> QED
      BY <2>2, <3>1, <3>2, <1>1
  <2> QED
    BY <2>1, <2>2
<1>9. v \in Nat /\ v <= DedupeWindow /\ v <= n + 1 /\ (v = n + 1 \/ v = DedupeWindow)
  BY <1>1, <1>6
<1>10. /\ Len(seen') <= DedupeWindow /\ Len(seen') <= Len(denied')
       /\ Len(seen') = Len(denied') \/ Len(seen') = DedupeWindow
       /\ \A k \in 1..Len(seen') : seen'[k] = denied'[(Len(denied') - Len(seen')) + k]
       /\ \A j, k \in 1..Len(denied') : j < k /\ denied'[j] = denied'[k] => k - j > DedupeWindow
  BY <1>2, <1>7, <1>8, <1>9 DEF v
<1> QED
  BY <1>2, <1>5, <1>10 DEF Deduplicated, n

\* Nothing of a journal moves.
LEMMA LogStays ==
    ASSUME Journals, UNCHANGED Foreground!logVars, UNCHANGED Foreground!auditVars, trouble => trouble',
           stage' \in LogFlushed <=> stage \in LogFlushed,
           stage' \in AuditFlushed <=> stage \in AuditFlushed, trouble \in BOOLEAN,
           trouble' \in BOOLEAN
    PROVE  Journals'
BY FailedFlush DEF Journals, Foreground!logVars, Foreground!auditVars, Flushed

LEMMA WindowStays ==
    ASSUME Deduplicated, UNCHANGED <<seen, denied>>
    PROVE  Deduplicated'
BY DEF Deduplicated

LEMMA LaunchKeeps ==
    ASSUME ForegroundBounds, ForegroundInv, NEW key \in RunKeys \cup {None},
           NEW flag \in BOOLEAN, Foreground!Launch(key, flag)
    PROVE  ForegroundInv'
<1>1. ForegroundTyped'
  <2>1. runs' \in 0..MaxRuns /\ 0 \in 0..MaxWork
    BY DEF ForegroundBounds, ForegroundInv, ForegroundTyped, Foreground!Launch
  <2> QED
    BY <2>1 DEF ForegroundInv, ForegroundTyped, Foreground!Launch, Foreground!files
<1>2. Unflushed(0, <<>>, <<>>)
  BY DEF ForegroundBounds, Unflushed
<1>3. /\ stage' = "restoring" /\ logged' = 0 /\ logBuffer' = <<>> /\ log' = <<>>
      /\ seen' = <<>> /\ denied' = <<>> /\ auditBuffer' = <<>> /\ audit' = <<>>
  BY DEF Foreground!Launch
<1>4. Journals'
  BY <1>2, <1>3 DEF Journals, LogFlushed, AuditFlushed
<1>5. Deduplicated'
  BY <1>3 DEF Deduplicated, ForegroundBounds
<1> QED
  BY <1>1, <1>3, <1>4, <1>5 DEF ForegroundInv, Keeping, Stopping

LEMMA RunKeepsRunner ==
    ASSUME ForegroundBounds, ForegroundInv, Foreground!Restore \/ Foreground!Resume \/ Foreground!Work \/ Foreground!Crash
    PROVE  ForegroundInv'
<1> USE DEF ForegroundInv
<1>1. plugin' \in 0..MaxWork /\ told' \in 0..MaxWork
  <2>1. CASE Foreground!Restore
    <3>1. checkpoint # None => checkpoint.state \in 0..MaxWork
      BY DEF ForegroundTyped, Checkpoints
    <3>2. 0 \in 0..MaxWork
      BY DEF ForegroundBounds
    <3> QED
      BY <2>1, <3>1, <3>2 DEF ForegroundTyped, Foreground!Restore, Foreground!Verified
  <2>2. CASE Foreground!Resume
    BY <2>2 DEF ForegroundBounds, ForegroundTyped, Foreground!Resume
  <2>3. CASE Foreground!Work
    BY <2>3 DEF ForegroundBounds, ForegroundTyped, Foreground!Work
  <2>4. CASE Foreground!Crash
    BY <2>4 DEF ForegroundTyped, Foreground!Crash, Foreground!memory
  <2> QED
    BY <2>1, <2>2, <2>3, <2>4
<1>2. ForegroundTyped'
  BY <1>1 DEF ForegroundTyped, Foreground!Restore, Foreground!Resume, Foreground!Work, Foreground!Crash, Foreground!files, Foreground!memory, Foreground!runVars, Stopping
<1>2a. Keeping'
  <2>1. CASE Foreground!Restore \/ Foreground!Resume \/ Foreground!Crash
    BY <2>1 DEF Keeping, Foreground!Restore, Foreground!Resume, Foreground!Crash, Stopping
  <2>2. CASE Foreground!Work
    <3>1. told' >= told /\ told \in Nat /\ told' \in Nat /\ wanted.said \in Nat
      BY <2>2 DEF ForegroundBounds, ForegroundTyped, Foreground!Work
    <3>2. UNCHANGED <<stage, Foreground!files, snapshot, Foreground!runVars>>
      BY <2>2 DEF Foreground!Work
    <3>3. stage' \in {"writing", "renaming", "saving"} /\ ~trouble' => told' >= wanted'.said
      <4>1. stage' = stage /\ trouble' = trouble /\ wanted' = wanted
        BY <3>2 DEF Foreground!runVars
      <4>2. stage \in {"writing", "renaming", "saving"} /\ ~trouble => told >= wanted.said
        BY DEF Keeping, Stopping
      <4> QED
        BY <3>1, <4>1, <4>2
    <3> QED
      BY <3>2, <3>3 DEF Keeping, Foreground!files, Foreground!runVars
  <2> QED
    BY <2>1, <2>2
<1>3. UNCHANGED Foreground!logVars /\ UNCHANGED Foreground!auditVars /\ (trouble => trouble')
  BY DEF Foreground!Restore, Foreground!Resume, Foreground!Work, Foreground!Crash, Foreground!runVars
<1>4. /\ stage' \in LogFlushed <=> stage \in LogFlushed
      /\ stage' \in AuditFlushed <=> stage \in AuditFlushed
  BY DEF Foreground!Restore, Foreground!Resume, Foreground!Work, Foreground!Crash, Foreground!Alive, LogFlushed, AuditFlushed
<1>5. Journals' /\ Deduplicated'
  BY <1>2, <1>3, <1>4, LogStays, WindowStays DEF ForegroundTyped, Foreground!auditVars
<1> QED
  BY <1>2, <1>2a, <1>5 DEF Foreground!Restore, Foreground!Resume, Foreground!Work, Foreground!Crash, Foreground!runVars, Foreground!Alive

LEMMA ShutdownKeeps ==
    ASSUME ForegroundBounds, ForegroundInv,
           Foreground!Signal \/ Foreground!Write \/ Foreground!Rename \/ Foreground!CheckpointFails \/ Foreground!SaveSessions \/ Foreground!SaveFails \/ Foreground!StopFails
    PROVE  ForegroundInv'
<1> USE DEF ForegroundInv
<1>1. ForegroundTyped'
  <2>1. CASE Foreground!Signal
    <3>1. wanted' \in [plugin : 0..MaxWork, said : 0..MaxWork, key : RunKeys \cup {None}]
      BY <2>1 DEF ForegroundTyped, Foreground!Signal
    <3> QED
      BY <2>1, <3>1 DEF ForegroundTyped, Foreground!Signal, Foreground!Stages, Foreground!Enter, Foreground!files, Stopping
  <2>2. CASE Foreground!Write
    <3>1. temporary' \in Checkpoints
      BY <2>2 DEF ForegroundTyped, Foreground!Write, Checkpoints
    <3> QED
      BY <2>2, <3>1 DEF ForegroundTyped, Foreground!Write, Foreground!Stages, Foreground!memory, Foreground!runVars, Stopping
  <2>3. CASE Foreground!Rename
    BY <2>3 DEF ForegroundTyped, Foreground!Rename, Foreground!Stages, Foreground!memory, Foreground!runVars, Stopping
  <2>4. CASE Foreground!SaveSessions
    BY <2>4 DEF ForegroundTyped, Foreground!SaveSessions, Foreground!Stages, Foreground!memory, Foreground!runVars, Stopping
  <2>5. CASE Foreground!CheckpointFails \/ Foreground!SaveFails \/ Foreground!StopFails
    BY <2>5 DEF ForegroundTyped, Foreground!CheckpointFails, Foreground!SaveFails, Foreground!StopFails, Foreground!Stages, Foreground!files, Foreground!memory,
                Stopping
  <2> QED
    BY <2>1, <2>2, <2>3, <2>4, <2>5
<1>2. Keeping'
  <2>1. CASE Foreground!Signal
    BY <2>1 DEF ForegroundBounds, ForegroundTyped, Keeping, Foreground!Signal, Foreground!Stages, Foreground!Enter, Foreground!files,
                Stopping
  <2>2. CASE Foreground!Write
    BY <2>2 DEF ForegroundBounds, ForegroundTyped, Keeping, Foreground!Write, Foreground!Stages, Foreground!memory, Foreground!runVars,
                Stopping
  <2>3. CASE Foreground!Rename
    BY <2>3 DEF ForegroundBounds, ForegroundTyped, Keeping, Foreground!Rename, Foreground!Stages, Foreground!memory, Foreground!runVars,
                Stopping, Checkpoints
  <2>4. CASE Foreground!SaveSessions
    BY <2>4 DEF ForegroundBounds, ForegroundTyped, Keeping, Foreground!SaveSessions, Foreground!Stages, Foreground!memory,
                Foreground!runVars, Stopping
  <2>5. CASE Foreground!CheckpointFails \/ Foreground!SaveFails \/ Foreground!StopFails
    BY <2>5 DEF Keeping, Foreground!CheckpointFails, Foreground!SaveFails, Foreground!StopFails
  <2> QED
    BY <2>1, <2>2, <2>3, <2>4, <2>5
<1>3. UNCHANGED Foreground!logVars /\ UNCHANGED Foreground!auditVars /\ (trouble => trouble')
  BY DEF Foreground!Signal, Foreground!Write, Foreground!Rename, Foreground!CheckpointFails, Foreground!SaveSessions, Foreground!SaveFails, Foreground!StopFails, Foreground!runVars
<1>4. /\ stage' \notin LogFlushed /\ stage \notin LogFlushed
      /\ stage' \notin AuditFlushed /\ stage \notin AuditFlushed
      /\ stage' # "flushed"
  BY DEF Foreground!Signal, Foreground!Write, Foreground!Rename, Foreground!CheckpointFails, Foreground!SaveSessions, Foreground!SaveFails, Foreground!StopFails, Foreground!Stages,
         Foreground!Enter, LogFlushed, AuditFlushed
<1>5. Journals' /\ Deduplicated'
  BY <1>1, <1>3, <1>4, LogStays, WindowStays DEF ForegroundTyped, Foreground!auditVars
<1> QED
  BY <1>1, <1>2, <1>4, <1>5

LEMMA LogKeeps ==
    ASSUME ForegroundBounds, ForegroundInv, Foreground!Log \/ Foreground!StopCore
    PROVE  ForegroundInv'
<1> USE DEF ForegroundInv
<1>1. ForegroundTyped'
  <2>1. CASE Foreground!Log
    BY <2>1 DEF ForegroundTyped, Foreground!Log, Foreground!files, Foreground!memory, Foreground!runVars
  <2>2. CASE Foreground!StopCore
    <3>1. 0 \in 0..MaxWork
      BY DEF ForegroundBounds
    <3> QED
      BY <2>2, <3>1 DEF ForegroundTyped, Foreground!StopCore, Foreground!Stages, Foreground!Enter, Foreground!files, Foreground!runVars, Stopping
  <2> QED
    BY <2>1, <2>2
<1>2. Keeping'
  BY DEF ForegroundTyped, Keeping, Foreground!Log, Foreground!StopCore, Foreground!Stages, Foreground!Enter, Foreground!files, Foreground!memory, Foreground!runVars,
         Stopping
<1>3. /\ stage' \notin LogFlushed /\ stage \notin LogFlushed
      /\ stage' \notin AuditFlushed /\ stage \notin AuditFlushed
      /\ stage' # "flushed" /\ UNCHANGED Foreground!auditVars
  BY DEF Foreground!Log, Foreground!StopCore, Foreground!Stages, Foreground!Enter, LogFlushed, AuditFlushed
<1>4. /\ logged' = logged + 1 /\ logBuffer' = Foreground!Pushed(logBuffer, logged + 1)
      /\ log' = Foreground!Reported(logBuffer, log)
  BY DEF Foreground!Log, Foreground!StopCore, Foreground!Emit
<1>5. Unflushed(logged, logBuffer, log)
  BY <1>3 DEF Journals
<1>6. Unflushed(logged + 1, Foreground!Pushed(logBuffer, logged + 1), Foreground!Reported(logBuffer, log))
  BY <1>5, PushedKeeps
<1>7. Unflushed(Len(denied), auditBuffer, audit)
  BY <1>3 DEF Journals
<1>8. Unflushed(logged, logBuffer, log)' /\ Unflushed(Len(denied), auditBuffer, audit)'
  BY <1>3, <1>4, <1>6, <1>7 DEF Foreground!auditVars, Unflushed
<1>9. Journals' /\ Deduplicated'
  BY <1>3, <1>8, WindowStays DEF Journals, Foreground!auditVars
<1> QED
  BY <1>1, <1>2, <1>3, <1>9

LEMMA DenyKeeps ==
    ASSUME ForegroundBounds, ForegroundInv, NEW d \in Denials, Foreground!Deny(d)
    PROVE  ForegroundInv'
<1> USE DEF ForegroundInv
<1>1. ForegroundTyped' /\ Keeping' /\ stage' = stage /\ UNCHANGED <<Foreground!logVars, trouble, binding>>
  BY DEF ForegroundTyped, Keeping, Foreground!Deny, Foreground!files, Foreground!memory, Foreground!logVars, Foreground!runVars
<1>2. CASE d \in Foreground!Range(seen)
  <2>1. UNCHANGED Foreground!auditVars
    BY <1>2 DEF Foreground!Deny
  <2>2. Journals' /\ Deduplicated'
    BY <1>1, <2>1, LogStays, WindowStays DEF ForegroundTyped, Foreground!auditVars
  <2> QED
    BY <1>1, <2>2
<1>3. CASE d \notin Foreground!Range(seen)
  <2>1. /\ seen' = Foreground!Observed(d) /\ denied' = Append(denied, d)
        /\ auditBuffer' = Foreground!Pushed(auditBuffer, Len(denied) + 1)
        /\ audit' = Foreground!Reported(auditBuffer, audit)
    BY <1>3 DEF Foreground!Deny
  <2>2. Deduplicated' /\ Len(denied') = Len(denied) + 1
    BY <1>3, <2>1, ObservedKeeps
  <2>3. stage \notin LogFlushed /\ stage \notin AuditFlushed
    BY DEF Foreground!Deny, Foreground!Alive, LogFlushed, AuditFlushed
  <2>4. Unflushed(logged, logBuffer, log) /\ Unflushed(Len(denied), auditBuffer, audit)
    BY <2>3 DEF Journals
  <2>5. Unflushed(Len(denied) + 1, Foreground!Pushed(auditBuffer, Len(denied) + 1),
                  Foreground!Reported(auditBuffer, audit))
    BY <2>4, PushedKeeps
  <2>6. Unflushed(logged, logBuffer, log)' /\ Unflushed(Len(denied), auditBuffer, audit)'
    BY <1>1, <2>1, <2>2, <2>4, <2>5 DEF Foreground!logVars, Unflushed
  <2>7. Journals'
    BY <1>1, <2>3, <2>6 DEF Journals
  <2> QED
    BY <1>1, <2>2, <2>7
<1> QED
  BY <1>2, <1>3

LEMMA FlushesKeep ==
    ASSUME ForegroundBounds, ForegroundInv, Foreground!FlushLog \/ Foreground!FlushAudit \/ Foreground!ClearKey
    PROVE  ForegroundInv'
<1> USE DEF ForegroundInv
<1>1. ForegroundTyped' /\ Deduplicated' /\ (trouble => trouble')
  <2>1. UNCHANGED <<Foreground!files, Foreground!memory, runs, resume, wanted, seen, denied>>
        /\ binding' \in {binding, None} /\ (trouble => trouble')
        /\ trouble' \in BOOLEAN
        /\ stage' \in {"flushing audit", "clearing", "flushed"}
    BY DEF ForegroundTyped, Foreground!FlushLog, Foreground!FlushAudit, Foreground!ClearKey, Foreground!AfterHook, Foreground!auditVars, Foreground!logVars
  <2> QED
    BY <2>1, WindowStays DEF ForegroundTyped, Foreground!files, Foreground!memory, Stopping
<1>2. Keeping'
  BY DEF ForegroundTyped, Keeping, Foreground!FlushLog, Foreground!FlushAudit, Foreground!ClearKey, Foreground!AfterHook, Foreground!files, Foreground!memory,
         Stopping
<1>3. stage' = "flushed" => binding' = None
  BY DEF Foreground!FlushLog, Foreground!FlushAudit, Foreground!ClearKey, Foreground!AfterHook
<1>4. CASE Foreground!FlushLog
  <2>1. PICK k \in 0..Len(logBuffer) :
            /\ log' = log \o SubSeq(logBuffer, 1, k)
            /\ trouble' = (trouble \/ k < Len(logBuffer))
    BY <1>4 DEF Foreground!FlushLog
  <2>2. /\ stage = "flushing log" /\ stage' = "flushing audit" /\ logBuffer' = <<>>
        /\ logged' = logged /\ UNCHANGED Foreground!auditVars
    BY <1>4 DEF Foreground!FlushLog, Foreground!AfterHook
  <2>3. Unflushed(logged, logBuffer, log) /\ Unflushed(Len(denied), auditBuffer, audit)
    BY <2>2 DEF Journals, LogFlushed, AuditFlushed
  <2>4. Flushed(logged, <<>>, log \o SubSeq(logBuffer, 1, k), k < Len(logBuffer))
    BY <2>3, FlushKeeps
  <2>5. Flushed(logged', logBuffer', log', trouble')
    BY <2>1, <2>2, <2>4 DEF Flushed
  <2>6. Unflushed(Len(denied'), auditBuffer', audit')
    BY <2>2, <2>3 DEF Foreground!auditVars
  <2>7. Journals'
    BY <2>2, <2>5, <2>6 DEF Journals, LogFlushed, AuditFlushed
  <2> QED
    BY <1>1, <1>2, <1>3, <2>7
<1>5. CASE Foreground!FlushAudit
  <2>1. PICK k \in 0..Len(auditBuffer) :
            /\ audit' = audit \o SubSeq(auditBuffer, 1, k)
            /\ trouble' = (trouble \/ k < Len(auditBuffer))
    BY <1>5 DEF Foreground!FlushAudit
  <2>2. /\ stage = "flushing audit" /\ stage' = "clearing" /\ auditBuffer' = <<>>
        /\ denied' = denied /\ UNCHANGED Foreground!logVars
    BY <1>5 DEF Foreground!FlushAudit, Foreground!AfterHook
  <2>3. Flushed(logged, logBuffer, log, trouble) /\ Unflushed(Len(denied), auditBuffer, audit)
    BY <2>2 DEF Journals, LogFlushed, AuditFlushed
  <2>4. Flushed(Len(denied), <<>>, audit \o SubSeq(auditBuffer, 1, k), k < Len(auditBuffer))
    BY <2>3, FlushKeeps
  <2>5. Flushed(Len(denied'), auditBuffer', audit', trouble')
    BY <2>1, <2>2, <2>4 DEF Flushed
  <2>6. Flushed(logged', logBuffer', log', trouble')
    BY <1>1, <2>2, <2>3 DEF Foreground!logVars, Flushed
  <2>7. Journals'
    BY <2>2, <2>5, <2>6 DEF Journals, LogFlushed, AuditFlushed
  <2> QED
    BY <1>1, <1>2, <1>3, <2>7
<1>6. CASE Foreground!ClearKey
  <2>1. stage = "clearing" /\ stage' = "flushed" /\ UNCHANGED <<Foreground!logVars, Foreground!auditVars, trouble>>
    BY <1>6 DEF Foreground!ClearKey
  <2>2. Journals'
    BY <1>1, <2>1, LogStays DEF LogFlushed, AuditFlushed, ForegroundTyped
  <2> QED
    BY <1>1, <1>2, <1>3, <2>2
<1> QED
  BY <1>4, <1>5, <1>6

LEMMA ForegroundNext ==
    ASSUME ForegroundBounds, ForegroundInv, [Foreground!Next]_Foreground!vars
    PROVE  ForegroundInv'
<1>1. CASE UNCHANGED Foreground!vars
  <2>1. UNCHANGED <<stage, Foreground!files, Foreground!memory, Foreground!logVars, Foreground!auditVars, Foreground!runVars>>
    BY <1>1 DEF Foreground!vars
  <2>2. ForegroundTyped' /\ Keeping' /\ Deduplicated'
    BY <2>1, WindowStays
       DEF ForegroundInv, ForegroundTyped, Keeping, Foreground!files, Foreground!memory, Foreground!auditVars, Foreground!runVars
  <2>3. Journals'
    BY <2>1, LogStays DEF ForegroundInv, ForegroundTyped, Foreground!runVars
  <2> QED
    BY <2>1, <2>2, <2>3 DEF ForegroundInv, Foreground!runVars
<1> QED
  BY <1>1, LaunchKeeps, RunKeepsRunner, ShutdownKeeps, LogKeeps, DenyKeeps, FlushesKeep DEF Foreground!Next

LEMMA ForegroundGoesOn ==
    ASSUME ForegroundBounds, ForegroundInv
    PROVE  Foreground!TypeOK /\ Foreground!OrderlyExitKeeps /\ Foreground!JournalsKeepOrder /\ Foreground!CascadeRunsThrough
<1> USE DEF ForegroundInv
<1>1. Foreground!TypeOK
  <2>1. /\ Len(logBuffer) <= BufferSize /\ Len(auditBuffer) <= BufferSize
    BY DEF Journals, Flushed, Unflushed, ForegroundBounds
  <2> QED
    BY <2>1 DEF Foreground!TypeOK, ForegroundTyped, Deduplicated
<1>2. Foreground!OrderlyExitKeeps
  BY DEF Foreground!OrderlyExitKeeps, Keeping, Stopping
<1>3. Foreground!JournalsKeepOrder
  <2>1. ASSUME NEW made, NEW buffer, NEW lines, Unflushed(made, buffer, lines)
        PROVE  Increasing(lines)
    <3>1. CASE lines = <<>>
      BY <3>1 DEF Increasing
    <3>2. CASE lines = <<Foreground!Overflow>>
      BY <3>2 DEF Increasing
    <3> QED
      BY <2>1, <3>1, <3>2 DEF Unflushed
  <2>2. Increasing(log) /\ Increasing(audit)
    BY <2>1 DEF Journals, Flushed
  <2>3. stage = "flushed" /\ ~trouble =>
             /\ \A n \in 1..logged : n > logged - BufferSize => n \in Foreground!Range(log)
             /\ \A n \in 1..Len(denied) :
                  n > Len(denied) - BufferSize => n \in Foreground!Range(audit)
    BY DEF Journals, Flushed, LogFlushed, AuditFlushed
  <2>4. \A j, k \in 1..Len(denied) : j < k /\ denied[j] = denied[k] => k - j > DedupeWindow
    BY DEF Deduplicated
  <2> QED
    BY <2>2, <2>3, <2>4 DEF Foreground!JournalsKeepOrder, Increasing
<1>4. Foreground!CascadeRunsThrough
  BY DEF Foreground!CascadeRunsThrough, Journals, Flushed, LogFlushed, AuditFlushed
<1> QED
  BY <1>1, <1>2, <1>3, <1>4

\* What an orderly exit had is in the files; a journal keeps its order and its latest
\* lines; the cascade runs through (start.ts, structured-logger.ts, audit-sink.ts).
THEOREM ForegroundRestartsGoOn ==
    ASSUME ForegroundBounds
    PROVE  Foreground!Spec => [](Foreground!TypeOK /\ Foreground!OrderlyExitKeeps /\ Foreground!JournalsKeepOrder /\ Foreground!CascadeRunsThrough)
<1>1. Foreground!Init => ForegroundInv
  BY ForegroundInit
<1>2. ForegroundInv /\ [Foreground!Next]_Foreground!vars => ForegroundInv'
  BY ForegroundNext
<1>3. ForegroundInv => Foreground!TypeOK /\ Foreground!OrderlyExitKeeps /\ Foreground!JournalsKeepOrder /\ Foreground!CascadeRunsThrough
  BY ForegroundGoesOn
<1> QED
  BY <1>1, <1>2, <1>3, PTL DEF Foreground!Spec


-----------------------------------------------------------------------------
(* The plugin directory and its lock (PluginInstall).                      *)

\* The catalog names a plugin, and a version is never 0.
InstallBounds ==
    /\ Catalog \in Seq(Install!Plugins) /\ Catalog # <<>>
    /\ Versions \subseteq Nat \ {0} /\ Versions # {}

Directories == [there : {TRUE}, pkg : Versions \cup {0}, main : BOOLEAN, clean : BOOLEAN]
PluginCommands ==
    [op : {"install", "uninstall", "sync"}, todo : Seq(Install!Plugins) \ {<<>>}, force : BOOLEAN,
     pc : {"check", "remove", "copy", "sanitise", "readLock", "openLock", "writeLock"},
     seen : SUBSET Install!Plugins]

InstallTyped ==
    /\ dirs \in [Install!Plugins -> {Install!Absent} \cup Directories]
    /\ lock \in {Install!Torn} \cup SUBSET Install!Plugins
    /\ source \in [Install!Plugins -> Versions]
    /\ cmd \in {Install!NoCommand} \cup PluginCommands
    /\ found \in [Install!Plugins -> {"unasked", "entry", "none", "loaded", "broken"}]
    /\ imports \in [Install!Plugins -> {"unknown", "entry", "none"}]
    /\ interrupted \in SUBSET Install!Plugins /\ disturbed \in SUBSET Install!Plugins

Locking == {"readLock", "openLock", "writeLock"}

\* What a command has made of the directory it is at.
Progress ==
    cmd # Install!NoCommand =>
        /\ cmd.pc = "remove" => dirs[Install!Current].there
        /\ cmd.pc = "copy" => cmd.op # "uninstall"
        /\ cmd.pc = "sanitise" =>
              cmd.op # "uninstall" /\ dirs[Install!Current].there /\ dirs[Install!Current].pkg # 0
              /\ dirs[Install!Current].main
        /\ cmd.pc \in Locking => cmd.op # "sync"
        /\ cmd.pc \in Locking /\ cmd.op = "install" => Install!Whole(dirs[Install!Current])
        /\ cmd.pc \in Locking /\ cmd.op = "uninstall" => ~dirs[Install!Current].there

\* While the command is at p the lock may name it though it is not whole.
At2(p) ==
    /\ cmd # Install!NoCommand /\ Install!Current = p
    /\ cmd.pc \in {"remove", "copy", "sanitise"} \/ (cmd.op = "uninstall" /\ cmd.pc # "check")

InstalledWhole(p) == Install!Whole(dirs[p]) \/ p \in interrupted

LockIsSound ==
    /\ \A p \in Install!ReadLock : InstalledWhole(p) \/ At2(p)
    /\ cmd # Install!NoCommand /\ cmd.pc \in {"openLock", "writeLock"} =>
          \A p \in cmd.seen \ {Install!Current} : InstalledWhole(p)

\* A directory without its entry file was left so by a command that was cut off, or is
\* being worked on.
Partial(p) == dirs[p].there /\ ~dirs[p].main
PartialOnes ==
    \A p \in Install!Plugins : Partial(p) =>
        \/ p \in interrupted
        \/ cmd # Install!NoCommand /\ Install!Current = p /\ cmd.pc \in {"remove", "copy"} /\ p \in disturbed

\* What an agent found is still there, or a command worked in it since.
FoundStays ==
    \A p \in Install!Plugins :
        /\ found[p] = "unasked" <=> imports[p] = "unknown"
        /\ found[p] = "entry" =>
              \/ p \in disturbed
              \/ dirs[p].there /\ (dirs[p].main \/ p \in interrupted)
        /\ found[p] = "broken" => p \in disturbed

InstallInv == InstallTyped /\ Progress /\ LockIsSound /\ PartialOnes /\ FoundStays

LEMMA CurrentOne ==
    ASSUME InstallTyped, cmd # Install!NoCommand
    PROVE  cmd \in PluginCommands /\ Install!Current \in Install!Plugins
BY DEF InstallTyped, PluginCommands, Install!Current

LEMMA NoCommandIsNone ==
    /\ Install!NoCommand.op = "none"
    /\ \A c \in PluginCommands : c # Install!NoCommand /\ c.op # "none"
BY DEF Install!NoCommand, PluginCommands

LEMMA InstallInit ==
    ASSUME InstallBounds, Install!Init
    PROVE  InstallInv
<1>1. (CHOOSE v \in Versions : TRUE) \in Versions
  BY DEF InstallBounds
<1> QED
  BY <1>1 DEF Install!Init, InstallInv, InstallTyped, Progress, LockIsSound, PartialOnes, Partial,
     FoundStays, Install!ReadLock, Install!Absent, Install!Torn

\* Between two plugins of a command the lock tells the truth, and what is partial was
\* left so by a command that was cut off.
Settled ==
    /\ \A p \in Install!ReadLock : InstalledWhole(p)
    /\ \A p \in Install!Plugins : Partial(p) => p \in interrupted

LEMMA SettledAtCheck ==
    ASSUME InstallInv, cmd = Install!NoCommand \/ cmd.pc = "check"
    PROVE  Settled
BY DEF InstallInv, LockIsSound, At2, PartialOnes, Settled

LEMMA SettledKeeps ==
    ASSUME InstallTyped', Settled', FoundStays', cmd' = Install!NoCommand \/ cmd'.pc = "check"
    PROVE  InstallInv'
BY DEF InstallInv, Progress, LockIsSound, PartialOnes, Settled, Locking

LEMMA NextOne ==
    ASSUME InstallTyped, cmd # Install!NoCommand, Install!NextPlugin
    PROVE  /\ cmd' \in {Install!NoCommand} \cup PluginCommands
           /\ cmd' = Install!NoCommand \/ cmd'.pc = "check"
<1>1. cmd \in PluginCommands
  BY CurrentOne
<1>2. CASE Len(cmd.todo) = 1
  BY <1>2 DEF Install!NextPlugin
<1>3. CASE Len(cmd.todo) # 1
  <2>1. cmd.todo \in Seq(Install!Plugins) /\ Len(cmd.todo) \in Nat /\ Len(cmd.todo) > 1
    <3>1. cmd.todo \in Seq(Install!Plugins) /\ cmd.todo # <<>>
      BY <1>1 DEF PluginCommands
    <3>2. Len(cmd.todo) \in Nat /\ Len(cmd.todo) # 0
      BY <3>1, EmptySeq, Zenon
    <3> DEFINE n == Len(cmd.todo)
    <3>3. n \in Nat /\ n # 0 /\ n # 1
      BY <1>3, <3>2
    <3> HIDE DEF n
    <3>4. n > 1
      BY <3>3
    <3> QED
      BY <3>1, <3>3, <3>4 DEF n
  <2>2. Tail(cmd.todo) \in Seq(Install!Plugins) /\ Tail(cmd.todo) # <<>>
    <3>1. cmd.todo # <<>>
      BY <1>1 DEF PluginCommands
    <3>2. Tail(cmd.todo) \in Seq(Install!Plugins) /\ Len(Tail(cmd.todo)) = Len(cmd.todo) - 1
      BY <2>1, <3>1, HeadTailProperties
    <3>3. Len(Tail(cmd.todo)) # 0
      <4> DEFINE n == Len(cmd.todo)
      <4>1. n \in Nat /\ n > 1
        BY <2>1
      <4>2. Len(Tail(cmd.todo)) = n - 1
        BY <3>2
      <4> HIDE DEF n
      <4>3. n - 1 # 0
        BY <4>1
      <4> QED
        BY <4>2, <4>3
    <3>4. Len(<<>>) = 0
      OBVIOUS
    <3> QED
      BY <3>2, <3>3, <3>4
  <2>3. cmd' = [cmd EXCEPT !.todo = Tail(@), !.pc = "check"]
    BY <1>3 DEF Install!NextPlugin
  <2> QED
    BY <1>1, <2>2, <2>3 DEF PluginCommands
<1> QED
  BY <1>2, <1>3

LEMMA GoesOn ==
    ASSUME InstallTyped, cmd # Install!NoCommand,
           NEW pc \in {"remove", "copy", "sanitise", "readLock", "openLock", "writeLock"}, Install!Goto(pc)
    PROVE  /\ cmd' \in PluginCommands /\ cmd' # Install!NoCommand /\ cmd'.op = cmd.op /\ cmd'.pc = pc
           /\ cmd'.todo = cmd.todo /\ cmd'.seen = cmd.seen /\ Install!Current' = Install!Current
<1>1. cmd \in PluginCommands
  BY CurrentOne
<1>2. cmd' = [cmd EXCEPT !.pc = pc]
  BY DEF Install!Goto
<1>3. cmd' \in PluginCommands /\ cmd'.op = cmd.op /\ cmd'.pc = pc /\ cmd'.todo = cmd.todo
      /\ cmd'.seen = cmd.seen
  BY <1>1, <1>2 DEF PluginCommands
<1> QED
  BY <1>3, NoCommandIsNone DEF Install!Current

\* Files left alone are as sound as before.
LEMMA SameFiles ==
    ASSUME UNCHANGED <<dirs, lock, interrupted>>
    PROVE  /\ \A p : InstalledWhole(p)' = InstalledWhole(p)
           /\ \A p : Partial(p)' = Partial(p)
           /\ Install!ReadLock' = Install!ReadLock
BY DEF InstalledWhole, Install!Whole, Partial, Install!ReadLock

LEMMA BeginKeeps ==
    ASSUME InstallBounds, InstallInv,
           NEW op \in {"install", "uninstall", "sync"}, NEW todo \in Seq(Install!Plugins) \ {<<>>},
           NEW force \in BOOLEAN, Install!Begin(op, todo, force)
    PROVE  InstallInv'
<1>1. cmd' \in PluginCommands /\ cmd'.pc = "check"
  BY DEF Install!Begin, PluginCommands
<1>2. UNCHANGED <<dirs, lock, source, found, imports, interrupted, disturbed>> /\ cmd = Install!NoCommand
  BY DEF Install!Begin, Install!fileVars, Install!agentVars
<1>3. Settled'
  BY <1>2, SettledAtCheck, SameFiles DEF Settled
<1>4. InstallTyped' /\ FoundStays'
  BY <1>1, <1>2 DEF InstallInv, InstallTyped, FoundStays
<1> QED
  BY <1>1, <1>3, <1>4, SettledKeeps

LEMMA BeginsKeep ==
    ASSUME InstallBounds, InstallInv, Install!InstallOne \/ Install!InstallAll \/ Install!Uninstall \/ Install!Sync
    PROVE  InstallInv'
<1>1. \A p \in Install!Plugins : <<p>> \in Seq(Install!Plugins) \ {<<>>}
  OBVIOUS
<1>2. Install!Scanned \subseteq Seq(Install!Plugins) \ {<<>>}
  <2>1. Len(Catalog) \in Nat
    BY DEF InstallBounds
  <2>2. SUFFICES ASSUME NEW n \in 1..Len(Catalog), NEW s \in [1..n -> Install!Plugins]
                 PROVE  s \in Seq(Install!Plugins) \ {<<>>}
    BY DEF Install!Scanned
  <2>3. n \in Nat /\ n # 0
    BY <2>1
  <2>4. s \in Seq(Install!Plugins) /\ Len(s) = n
    BY <2>3
  <2> QED
    BY <2>3, <2>4
<1>3. Catalog \in Seq(Install!Plugins) \ {<<>>}
  BY DEF InstallBounds
<1>4. CASE Install!InstallOne
  BY <1>1, <1>4, BeginKeeps DEF Install!InstallOne
<1>5. CASE Install!InstallAll
  BY <1>3, <1>5, BeginKeeps DEF Install!InstallAll
<1>6. CASE Install!Uninstall
  BY <1>1, <1>6, BeginKeeps DEF Install!Uninstall
<1>7. CASE Install!Sync
  BY <1>2, <1>7, BeginKeeps DEF Install!Sync
<1> QED
  BY <1>4, <1>5, <1>6, <1>7

LEMMA CheckKeeps ==
    ASSUME InstallBounds, InstallInv, Install!Check
    PROVE  InstallInv'
<1>1. cmd # Install!NoCommand /\ cmd.pc = "check" /\ cmd.op \in {"install", "uninstall", "sync"}
  BY NoCommandIsNone DEF Install!Check, Install!At
<1>2. UNCHANGED <<dirs, lock, source, found, imports, interrupted, disturbed>>
  BY DEF Install!Check, Install!fileVars, Install!agentVars
<1>3. Settled' /\ InstallTyped /\ FoundStays'
  BY <1>1, <1>2, SettledAtCheck, SameFiles DEF Settled, InstallInv, FoundStays
<1>4. CASE Install!NextPlugin
  <2>1. /\ cmd' \in {Install!NoCommand} \cup PluginCommands
        /\ cmd' = Install!NoCommand \/ cmd'.pc = "check"
    BY <1>1, <1>3, <1>4, NextOne
  <2>2. InstallTyped'
    BY <1>2, <1>3, <2>1 DEF InstallTyped
  <2> QED
    BY <1>3, <2>1, <2>2, SettledKeeps
<1>5. CASE Install!Goto(CASE dirs[Install!Current].there -> "remove"
                 [] ~dirs[Install!Current].there /\ cmd.op = "uninstall" -> "readLock"
                 [] OTHER -> "copy")
  <2> DEFINE pc == CASE dirs[Install!Current].there -> "remove"
                     [] ~dirs[Install!Current].there /\ cmd.op = "uninstall" -> "readLock"
                     [] OTHER -> "copy"
  <2>1. pc \in {"remove", "readLock", "copy"}
    OBVIOUS
  <2>2. /\ cmd' \in PluginCommands /\ cmd' # Install!NoCommand /\ cmd'.op = cmd.op /\ cmd'.pc = pc
        /\ cmd'.todo = cmd.todo /\ cmd'.seen = cmd.seen /\ Install!Current' = Install!Current
    BY <1>1, <1>3, <1>5, <2>1, GoesOn
  <2>3. InstallTyped'
    BY <1>2, <1>3, <2>2 DEF InstallTyped
  <2>4. Progress'
    <3>1. dirs'[Install!Current'] = dirs[Install!Current]
      BY <1>2, <2>2
    <3>2. \/ pc = "remove" /\ dirs[Install!Current].there
          \/ pc = "readLock" /\ cmd.op = "uninstall" /\ ~dirs[Install!Current].there
          \/ pc = "copy" /\ cmd.op # "uninstall"
      OBVIOUS
    <3> HIDE DEF pc
    <3> QED
      BY <2>2, <3>1, <3>2 DEF Progress, Locking
  <2>5. LockIsSound' /\ PartialOnes'
    BY <1>3, <2>1, <2>2 DEF LockIsSound, PartialOnes, Settled
  <2> QED
    BY <1>3, <2>3, <2>4, <2>5 DEF InstallInv
<1> QED
  BY <1>4, <1>5 DEF Install!Check

LEMMA PackFailsKeeps ==
    ASSUME InstallBounds, InstallInv, Install!PackFails
    PROVE  InstallInv'
<1>1. cmd # Install!NoCommand /\ cmd.pc = "check" /\ Install!NextPlugin
  BY NoCommandIsNone DEF Install!PackFails, Install!At
<1>2. UNCHANGED <<dirs, lock, source, found, imports, interrupted, disturbed>>
  BY DEF Install!PackFails, Install!fileVars, Install!agentVars
<1>3. Settled' /\ InstallTyped /\ FoundStays'
  BY <1>1, <1>2, SettledAtCheck, SameFiles DEF Settled, InstallInv, FoundStays
<1>4. /\ cmd' \in {Install!NoCommand} \cup PluginCommands
      /\ cmd' = Install!NoCommand \/ cmd'.pc = "check"
  BY <1>1, <1>3, NextOne
<1>5. InstallTyped'
  BY <1>2, <1>3, <1>4 DEF InstallTyped
<1> QED
  BY <1>3, <1>4, <1>5, SettledKeeps

-----------------------------------------------------------------------------
\* Work in the directory of the command's plugin leaves the others alone.
LEMMA WorksOnOne ==
    ASSUME InstallTyped, cmd # Install!NoCommand, NEW d \in {Install!Absent} \cup Directories,
           dirs' = [dirs EXCEPT ![Install!Current] = d], UNCHANGED <<lock, interrupted>>
    PROVE  /\ dirs' \in [Install!Plugins -> {Install!Absent} \cup Directories] /\ dirs'[Install!Current] = d
           /\ \A p \in Install!Plugins : p # Install!Current => InstalledWhole(p)' = InstalledWhole(p) /\ Partial(p)' = Partial(p)
                                              /\ dirs'[p] = dirs[p]
           /\ Install!ReadLock' = Install!ReadLock
<1>1. Install!Current \in Install!Plugins
  BY CurrentOne
<1> QED
  BY <1>1 DEF InstallTyped, InstalledWhole, Install!Whole, Partial, Install!ReadLock

LEMMA WorkFound ==
    ASSUME InstallInv, cmd # Install!NoCommand, Install!Works(Install!Current), UNCHANGED <<found, imports>>,
           \A p \in Install!Plugins : p # Install!Current => dirs'[p] = dirs[p],
           \A p \in Install!Plugins : p # Install!Current /\ p \in interrupted => p \in interrupted'
    PROVE  FoundStays' /\ disturbed' \in SUBSET Install!Plugins /\ Install!Current \in disturbed'
<1>1. disturbed' = disturbed \cup {Install!Current} /\ Install!Current \in Install!Plugins
  BY CurrentOne DEF Install!Works, InstallInv
<1> QED
  BY <1>1 DEF FoundStays, InstallInv, InstallTyped

LEMMA LockTyped ==
    ASSUME InstallTyped
    PROVE  Install!ReadLock \subseteq Install!Plugins
BY DEF InstallTyped, Install!ReadLock

\* A step that works in the directory and goes on with it.
LEMMA WorkKeeps ==
    ASSUME InstallBounds, InstallInv, cmd # Install!NoCommand,
           cmd.pc \in {"remove", "copy", "sanitise"}, NEW d \in {Install!Absent} \cup Directories,
           dirs' = [dirs EXCEPT ![Install!Current] = d], UNCHANGED <<lock, interrupted, source, found, imports>>,
           Install!Works(Install!Current), cmd' \in PluginCommands, cmd' # Install!NoCommand, cmd'.op = cmd.op,
           Install!Current' = Install!Current, cmd'.pc \in {"remove", "copy", "sanitise", "readLock"},
           \/ cmd'.pc = "remove" /\ d.there
           \/ cmd'.pc = "copy" /\ cmd.op # "uninstall"
           \/ cmd'.pc = "sanitise" /\ cmd.op # "uninstall" /\ d.there /\ d.pkg # 0 /\ d.main
           \/ cmd'.pc = "readLock" /\ cmd.op = "install" /\ Install!Whole(d)
           \/ cmd'.pc = "readLock" /\ cmd.op = "uninstall" /\ ~d.there
    PROVE  InstallInv'
<1>0. InstallTyped
  BY DEF InstallInv
<1>1. /\ dirs' \in [Install!Plugins -> {Install!Absent} \cup Directories] /\ dirs'[Install!Current] = d
      /\ \A p \in Install!Plugins : p # Install!Current => InstalledWhole(p)' = InstalledWhole(p) /\ Partial(p)' = Partial(p)
                                         /\ dirs'[p] = dirs[p]
      /\ Install!ReadLock' = Install!ReadLock
  BY <1>0, WorksOnOne
<1>2. FoundStays' /\ disturbed' \in SUBSET Install!Plugins /\ Install!Current \in disturbed'
  BY <1>1, WorkFound
<1>3. InstallTyped'
  BY <1>0, <1>1, <1>2 DEF InstallTyped
<1>4. Progress'
  BY <1>1 DEF Progress, Locking
<1>5. LockIsSound'
  <2>1. cmd'.pc \notin {"openLock", "writeLock"}
    OBVIOUS
  <2>2. ASSUME NEW p \in Install!ReadLock' PROVE (InstalledWhole(p) \/ At2(p))'
    <3>1. p \in Install!ReadLock /\ p \in Install!Plugins
      BY <1>0, <1>1, LockTyped
    <3>2. CASE p # Install!Current
      BY <1>1, <3>1, <3>2 DEF InstallInv, LockIsSound, At2
    <3>3. CASE p = Install!Current
      <4>1. CASE cmd'.pc = "readLock" /\ cmd.op = "install"
        BY <1>1, <3>3, <4>1 DEF InstalledWhole
      <4>2. CASE ~(cmd'.pc = "readLock" /\ cmd.op = "install")
        BY <3>3, <4>2 DEF At2
      <4> QED
        BY <4>1, <4>2
    <3> QED
      BY <3>2, <3>3
  <2> QED
    BY <2>1, <2>2 DEF LockIsSound
<1>6. PartialOnes'
  <2> SUFFICES ASSUME NEW p \in Install!Plugins, Partial(p)'
               PROVE  p \in interrupted' \/
                      (cmd' # Install!NoCommand /\ Install!Current' = p /\ cmd'.pc \in {"remove", "copy"} /\ p \in disturbed')
    BY DEF PartialOnes
  <2>1. CASE p # Install!Current
    BY <1>1, <2>1 DEF InstallInv, PartialOnes
  <2>2. CASE p = Install!Current
    <3>1. cmd'.pc \in {"remove", "copy"}
      BY <1>1, <2>2 DEF Partial, Install!Whole
    <3> QED
      BY <1>2, <2>2, <3>1
  <2> QED
    BY <2>1, <2>2
<1> QED
  BY <1>2, <1>3, <1>4, <1>5, <1>6 DEF InstallInv

LEMMA RemainsTyped ==
    ASSUME NEW d \in Directories
    PROVE  Install!Remains(d) \subseteq Directories
BY DEF Install!Remains, Directories

LEMMA RemoveKeeps ==
    ASSUME InstallBounds, InstallInv, Install!Remove
    PROVE  InstallInv'
<1>1. cmd # Install!NoCommand /\ cmd.pc = "remove" /\ cmd.op \in {"install", "uninstall", "sync"}
  BY NoCommandIsNone DEF Install!Remove, Install!At
<1>2. UNCHANGED <<lock, interrupted, source, found, imports>> /\ Install!Works(Install!Current) /\ InstallTyped
  BY DEF Install!Remove, Install!agentVars, InstallInv
<1>3. cmd \in PluginCommands /\ Install!Current \in Install!Plugins
  BY <1>1, <1>2, CurrentOne
<1>4. CASE /\ dirs' = [dirs EXCEPT ![Install!Current] = Install!Absent]
           /\ Install!Goto(IF cmd.op = "uninstall" THEN "readLock" ELSE "copy")
  <2> DEFINE pc == IF cmd.op = "uninstall" THEN "readLock" ELSE "copy"
  <2>1. pc \in {"readLock", "copy"}
    OBVIOUS
  <2>2. /\ cmd' \in PluginCommands /\ cmd' # Install!NoCommand /\ cmd'.op = cmd.op /\ cmd'.pc = pc
        /\ cmd'.todo = cmd.todo /\ cmd'.seen = cmd.seen /\ Install!Current' = Install!Current
    BY <1>1, <1>2, <1>4, <2>1, GoesOn
  <2>3. ~Install!Absent.there
    BY DEF Install!Absent
  <2> QED
    BY <1>1, <1>2, <1>4, <2>2, <2>3, WorkKeeps
<1>5. CASE /\ \E d \in Install!Remains(dirs[Install!Current]) : dirs' = [dirs EXCEPT ![Install!Current] = d]
           /\ UNCHANGED cmd
  <2>1. dirs[Install!Current] \in Directories
    BY <1>1, <1>2, <1>3 DEF InstallInv, Progress, InstallTyped, Install!Absent
  <2>2. PICK d \in Install!Remains(dirs[Install!Current]) : dirs' = [dirs EXCEPT ![Install!Current] = d]
    BY <1>5
  <2>3. d \in Directories /\ d.there
    BY <2>1, RemainsTyped DEF Directories
  <2>4. Install!Current' = Install!Current
    BY <1>5 DEF Install!Current
  <2> QED
    BY <1>1, <1>2, <1>3, <1>5, <2>2, <2>3, <2>4, WorkKeeps
<1> QED
  BY <1>4, <1>5 DEF Install!Remove

LEMMA CopyKeeps ==
    ASSUME InstallBounds, InstallInv, Install!Copy
    PROVE  InstallInv'
<1> DEFINE packed == cmd.op = "install" /\ Install!Current \notin Workspace
           whole == [Install!Copied(source[Install!Current]) EXCEPT !.clean = packed]
<1>1. cmd # Install!NoCommand /\ cmd.pc = "copy" /\ cmd.op \in {"install", "sync"}
  BY NoCommandIsNone DEF Install!Copy, Install!At
<1>2. UNCHANGED <<lock, interrupted, source, found, imports>> /\ Install!Works(Install!Current) /\ InstallTyped
  BY DEF Install!Copy, Install!agentVars, InstallInv
<1>3. cmd \in PluginCommands /\ Install!Current \in Install!Plugins
  BY <1>1, <1>2, CurrentOne
<1>4. whole \in Directories /\ whole.there /\ whole.pkg # 0 /\ whole.main /\ (packed => Install!Whole(whole))
  <2>1. source[Install!Current] \in Versions /\ source[Install!Current] # 0
    BY <1>2, <1>3 DEF InstallTyped, InstallBounds
  <2>2. packed \in BOOLEAN
    OBVIOUS
  <2> HIDE DEF packed
  <2>3. PICK d : d = Install!Copied(source[Install!Current])
    OBVIOUS
  <2>4. d \in Directories /\ d.there /\ d.pkg # 0 /\ d.main
    BY <2>1, <2>3 DEF Install!Copied, Install!Dir, Directories
  <2>5. whole = [d EXCEPT !.clean = packed]
    BY <2>3
  <2> HIDE DEF whole
  <2>6. whole \in Directories /\ whole.there /\ whole.pkg = d.pkg /\ whole.main = d.main
        /\ whole.clean = packed
    BY <2>2, <2>4, <2>5 DEF Directories
  <2> QED
    BY <2>4, <2>6 DEF Install!Whole
<1>5. CASE dirs' = [dirs EXCEPT ![Install!Current] = whole] /\ Install!Goto(IF packed THEN "readLock" ELSE "sanitise")
  <2> HIDE DEF whole
  <2> DEFINE pc == IF packed THEN "readLock" ELSE "sanitise"
  <2>1. pc \in {"readLock", "sanitise"}
    OBVIOUS
  <2>2. /\ cmd' \in PluginCommands /\ cmd' # Install!NoCommand /\ cmd'.op = cmd.op /\ cmd'.pc = pc
        /\ cmd'.todo = cmd.todo /\ cmd'.seen = cmd.seen /\ Install!Current' = Install!Current
    BY <1>1, <1>2, <1>5, <2>1, GoesOn
  <2> QED
    BY <1>1, <1>2, <1>4, <1>5, <2>2, WorkKeeps
<1>6. CASE /\ \E d \in Install!Remains(whole) : dirs' = [dirs EXCEPT ![Install!Current] = d]
           /\ UNCHANGED cmd
  <2> HIDE DEF whole
  <2>1. PICK d \in Install!Remains(whole) : dirs' = [dirs EXCEPT ![Install!Current] = d]
    BY <1>6
  <2>2. d \in Directories
    BY <1>4, RemainsTyped
  <2>3. Install!Current' = Install!Current
    BY <1>6 DEF Install!Current
  <2> QED
    BY <1>1, <1>2, <1>3, <1>6, <2>1, <2>2, <2>3, WorkKeeps
<1> QED
  BY <1>5, <1>6 DEF Install!Copy

LEMMA SanitiseKeeps ==
    ASSUME InstallBounds, InstallInv, Install!Sanitise
    PROVE  InstallInv'
<1>1. cmd # Install!NoCommand /\ cmd.pc = "sanitise" /\ cmd.op \in {"install", "sync"}
  BY NoCommandIsNone DEF Install!Sanitise, Install!At
<1>2. UNCHANGED <<lock, source, found, imports>> /\ Install!Works(Install!Current) /\ InstallTyped
  BY DEF Install!Sanitise, Install!agentVars, InstallInv
<1>3. cmd \in PluginCommands /\ Install!Current \in Install!Plugins
  BY <1>1, <1>2, CurrentOne
<1>4. dirs[Install!Current] \in Directories /\ dirs[Install!Current].pkg # 0 /\ dirs[Install!Current].main
  BY <1>1, <1>2, <1>3 DEF InstallInv, Progress, InstallTyped, Install!Absent
<1>5. PICK d : d = [dirs[Install!Current] EXCEPT !.clean = TRUE]
  OBVIOUS
<1>6. d \in Directories /\ d.there /\ d.pkg # 0 /\ d.main /\ Install!Whole(d)
  BY <1>4, <1>5 DEF Directories, Install!Whole
<1>7. dirs' = [dirs EXCEPT ![Install!Current] = d]
  BY <1>5 DEF Install!Sanitise
<1>8. CASE cmd.op = "install"
  <2>1. Install!Goto("readLock") /\ UNCHANGED interrupted
    BY <1>8 DEF Install!Sanitise
  <2>2. /\ cmd' \in PluginCommands /\ cmd' # Install!NoCommand /\ cmd'.op = cmd.op /\ cmd'.pc = "readLock"
        /\ cmd'.todo = cmd.todo /\ cmd'.seen = cmd.seen /\ Install!Current' = Install!Current
    BY <1>1, <1>2, <2>1, GoesOn
  <2> QED
    BY <1>1, <1>2, <1>6, <1>7, <1>8, <2>1, <2>2, WorkKeeps
<1>9. CASE cmd.op # "install"
  <2>1. Install!NextPlugin /\ interrupted' = interrupted \ {Install!Current}
    BY <1>9 DEF Install!Sanitise, Install!Mended
  <2>2. /\ cmd' \in {Install!NoCommand} \cup PluginCommands
        /\ cmd' = Install!NoCommand \/ cmd'.pc = "check"
    BY <1>1, <1>2, <2>1, NextOne
  <2>3. /\ dirs' \in [Install!Plugins -> {Install!Absent} \cup Directories] /\ dirs'[Install!Current] = d
        /\ \A p \in Install!Plugins : p # Install!Current => dirs'[p] = dirs[p]
    BY <1>2, <1>3, <1>6, <1>7 DEF InstallTyped
  <2>4. FoundStays' /\ disturbed' \in SUBSET Install!Plugins
    BY <1>1, <1>2, <2>1, <2>3, WorkFound
  <2>5. InstallTyped'
    BY <1>2, <2>1, <2>2, <2>3, <2>4 DEF InstallTyped
  <2>6. Settled'
    <3>1. ASSUME NEW p \in Install!Plugins, p # Install!Current
          PROVE  InstalledWhole(p)' = InstalledWhole(p) /\ Partial(p)' = Partial(p) /\ (p \in interrupted' <=> p \in interrupted)
      BY <2>1, <2>3, <3>1 DEF InstalledWhole, Install!Whole, Partial
    <3>2. ASSUME NEW p \in Install!Plugins, p = Install!Current
          PROVE  InstalledWhole(p)' /\ ~Partial(p)'
      BY <1>6, <2>3, <3>2 DEF InstalledWhole, Partial, Install!Whole
    <3>3. \A p \in Install!ReadLock : p \in Install!Plugins /\ (InstalledWhole(p) \/ p = Install!Current)
      BY <1>2, LockTyped DEF InstallInv, LockIsSound, At2
    <3>4. \A p \in Install!Plugins : Partial(p) => p \in interrupted \/ p = Install!Current
      BY DEF InstallInv, PartialOnes
    <3>5. Install!ReadLock' = Install!ReadLock
      BY <1>2 DEF Install!ReadLock
    <3> QED
      BY <3>1, <3>2, <3>3, <3>4, <3>5 DEF Settled
  <2> QED
    BY <2>2, <2>4, <2>5, <2>6, SettledKeeps
<1> QED
  BY <1>8, <1>9

-----------------------------------------------------------------------------
(* The lock file, the ends of a command, and agents. *)

LEMMA SameInstalled ==
    ASSUME InstallInv, UNCHANGED <<dirs, lock, interrupted, disturbed, found, imports>>
    PROVE  /\ \A p : InstalledWhole(p)' = InstalledWhole(p)
           /\ \A p : Partial(p)' = Partial(p)
           /\ Install!ReadLock' = Install!ReadLock /\ FoundStays'
BY SameFiles DEF InstallInv, FoundStays

LEMMA ReadLockFileKeeps ==
    ASSUME InstallBounds, InstallInv, Install!ReadLockFile
    PROVE  InstallInv'
<1>1. cmd # Install!NoCommand /\ cmd.pc = "readLock"
  BY NoCommandIsNone DEF Install!ReadLockFile, Install!At
<1>2. UNCHANGED <<dirs, lock, source, found, imports, interrupted, disturbed>> /\ InstallTyped
  BY DEF Install!ReadLockFile, Install!fileVars, Install!agentVars, InstallInv
<1>3. cmd \in PluginCommands /\ Install!Current \in Install!Plugins /\ Install!ReadLock \in SUBSET Install!Plugins
  BY <1>1, <1>2, CurrentOne, LockTyped
<1>4. cmd' = [cmd EXCEPT !.pc = "openLock", !.seen = Install!ReadLock]
  BY DEF Install!ReadLockFile
<1>5. cmd' \in PluginCommands /\ cmd'.op = cmd.op /\ cmd'.pc = "openLock" /\ cmd'.todo = cmd.todo
      /\ cmd'.seen = Install!ReadLock
  BY <1>3, <1>4 DEF PluginCommands
<1>6. cmd' # Install!NoCommand /\ Install!Current' = Install!Current
  BY <1>5, NoCommandIsNone DEF Install!Current
<1>7. InstallTyped' /\ Progress'
  BY <1>1, <1>2, <1>5, <1>6 DEF InstallInv, InstallTyped, Progress, Locking
<1>8. LockIsSound'
  BY <1>1, <1>2, <1>5, <1>6, SameInstalled DEF InstallInv, LockIsSound, At2
<1>9. PartialOnes' /\ FoundStays'
  BY <1>1, <1>2, <1>6, SameInstalled DEF InstallInv, PartialOnes
<1> QED
  BY <1>7, <1>8, <1>9 DEF InstallInv

LEMMA OpenLockFileKeeps ==
    ASSUME InstallBounds, InstallInv, Install!OpenLockFile
    PROVE  InstallInv'
<1>1. cmd # Install!NoCommand /\ cmd.pc = "openLock" /\ lock' = Install!Torn /\ Install!Goto("writeLock")
  BY NoCommandIsNone DEF Install!OpenLockFile, Install!At
<1>2. UNCHANGED <<dirs, source, found, imports, interrupted, disturbed>> /\ InstallTyped
  BY DEF Install!OpenLockFile, Install!agentVars, InstallInv
<1>3. /\ cmd' \in PluginCommands /\ cmd' # Install!NoCommand /\ cmd'.op = cmd.op /\ cmd'.pc = "writeLock"
      /\ cmd'.todo = cmd.todo /\ cmd'.seen = cmd.seen /\ Install!Current' = Install!Current
  BY <1>1, <1>2, GoesOn
<1>4. InstallTyped' /\ Progress'
  BY <1>1, <1>2, <1>3 DEF InstallInv, InstallTyped, Progress, Locking
<1>5. /\ \A p : InstalledWhole(p)' = InstalledWhole(p)
      /\ \A p : Partial(p)' = Partial(p)
      /\ Install!ReadLock' = {}
  BY <1>1, <1>2 DEF InstalledWhole, Install!Whole, Partial, Install!ReadLock
<1>6. LockIsSound'
  BY <1>1, <1>3, <1>5 DEF InstallInv, LockIsSound
<1>7. PartialOnes' /\ FoundStays'
  BY <1>1, <1>2, <1>3, <1>5 DEF InstallInv, PartialOnes, FoundStays
<1> QED
  BY <1>4, <1>6, <1>7 DEF InstallInv

LEMMA WriteLockFileKeeps ==
    ASSUME InstallBounds, InstallInv, Install!WriteLockFile
    PROVE  InstallInv'
<1>1. cmd # Install!NoCommand /\ cmd.pc = "writeLock" /\ Install!NextPlugin /\ cmd.op \in {"install", "uninstall"}
  BY NoCommandIsNone DEF Install!WriteLockFile, Install!At
<1>2. UNCHANGED <<dirs, source, found, imports, disturbed>> /\ InstallTyped
  BY DEF Install!WriteLockFile, Install!agentVars, InstallInv
<1>3. cmd \in PluginCommands /\ Install!Current \in Install!Plugins /\ cmd.seen \in SUBSET Install!Plugins
  BY <1>1, <1>2, CurrentOne DEF PluginCommands
<1>4. /\ lock' = IF cmd.op = "install" THEN cmd.seen \cup {Install!Current} ELSE cmd.seen \ {Install!Current}
      /\ interrupted' = interrupted \ {Install!Current}
  BY DEF Install!WriteLockFile, Install!Entered, Install!Mended
<1>5. /\ cmd' \in {Install!NoCommand} \cup PluginCommands
      /\ cmd' = Install!NoCommand \/ cmd'.pc = "check"
  BY <1>1, <1>2, NextOne
<1>6. InstallTyped'
  BY <1>2, <1>3, <1>4, <1>5 DEF InstallTyped
<1>7. /\ cmd.op = "install" => Install!Whole(dirs[Install!Current])
      /\ cmd.op = "uninstall" => ~dirs[Install!Current].there
      /\ \A p \in cmd.seen \ {Install!Current} : InstalledWhole(p)
  BY <1>1 DEF InstallInv, Progress, Locking, LockIsSound
<1>8. \A p \in Install!Plugins : Partial(p) => p \in interrupted /\ p # Install!Current
  BY <1>1, <1>7 DEF InstallInv, PartialOnes, Partial, Install!Whole
<1>9. Settled'
  <2>1. ASSUME NEW p \in Install!Plugins, p # Install!Current
        PROVE  InstalledWhole(p)' = InstalledWhole(p)
    BY <1>2, <1>4, <2>1 DEF InstalledWhole, Install!Whole
  <2>2. ASSUME NEW p \in Install!Plugins, p = Install!Current, cmd.op = "install"
        PROVE  InstalledWhole(p)'
    BY <1>2, <1>7, <2>2 DEF InstalledWhole, Install!Whole
  <2>3. ASSUME NEW p \in Install!ReadLock'
        PROVE  InstalledWhole(p)'
    <3>1. p \in Install!Plugins /\ p \in lock'
      BY <1>3, <1>4, <2>3 DEF Install!ReadLock
    <3>2. CASE p = Install!Current
      BY <1>1, <1>4, <2>2, <3>1, <3>2
    <3>3. CASE p # Install!Current
      BY <1>4, <1>7, <2>1, <3>1, <3>3
    <3> QED
      BY <3>2, <3>3
  <2>4. \A p \in Install!Plugins : Partial(p)' => p \in interrupted'
    BY <1>2, <1>4, <1>8 DEF Partial
  <2> QED
    BY <2>3, <2>4 DEF Settled
<1>10. FoundStays'
  <2>1. ASSUME NEW p \in Install!Plugins, found[p] = "entry"
        PROVE  p \in disturbed \/ (dirs[p].there /\ (dirs[p].main \/ p \in interrupted'))
    <3>1. p \in disturbed \/ (dirs[p].there /\ (dirs[p].main \/ p \in interrupted))
      BY <2>1 DEF InstallInv, FoundStays
    <3>2. p = Install!Current => ~dirs[p].there \/ dirs[p].main
      BY <1>1, <1>7 DEF Install!Whole
    <3> QED
      BY <1>4, <3>1, <3>2
  <2> QED
    BY <1>2, <2>1 DEF InstallInv, FoundStays
<1> QED
  BY <1>5, <1>6, <1>9, <1>10, SettledKeeps

\* A command that ends early: what it was at counts as cut off.
LEMMA CutOffSettles ==
    ASSUME InstallInv, cmd # Install!NoCommand, Install!CutOff, UNCHANGED <<dirs, lock, found, imports, disturbed>>
    PROVE  Settled' /\ FoundStays' /\ interrupted' \in SUBSET Install!Plugins
<1>1. InstallTyped /\ Install!Current \in Install!Plugins /\ cmd \in PluginCommands
  BY CurrentOne DEF InstallInv
<1>2. /\ interrupted \subseteq interrupted' /\ interrupted' \in SUBSET Install!Plugins
      /\ cmd.pc \in {"remove", "copy", "sanitise"} \/ cmd.op = "uninstall" => Install!Current \in interrupted'
  BY <1>1 DEF Install!CutOff, InstallTyped
<1>3. \A p : InstalledWhole(p) => InstalledWhole(p)'
  BY <1>2 DEF InstalledWhole, Install!Whole
<1>4. \A p : At2(p) => p \in interrupted'
  BY <1>2 DEF At2
<1>5. \A p \in Install!ReadLock : InstalledWhole(p)'
  BY <1>3, <1>4 DEF InstallInv, LockIsSound, InstalledWhole
<1>6. \A p \in Install!Plugins : Partial(p) => p \in interrupted'
  BY <1>2 DEF InstallInv, PartialOnes
<1>7. Settled'
  BY <1>5, <1>6 DEF Settled, Install!ReadLock, Partial
<1>8. FoundStays'
  BY <1>2 DEF InstallInv, FoundStays
<1> QED
  BY <1>2, <1>7, <1>8

LEMMA EndsKeep ==
    ASSUME InstallBounds, InstallInv, Install!Fail \/ Install!Killed
    PROVE  InstallInv'
<1>1. cmd # Install!NoCommand /\ Install!CutOff /\ UNCHANGED <<dirs, lock, source, found, imports, disturbed>>
  BY NoCommandIsNone DEF Install!Fail, Install!Killed, Install!At, Install!fileVars, Install!agentVars
<1>2. Settled' /\ FoundStays' /\ interrupted' \in SUBSET Install!Plugins /\ InstallTyped
  BY <1>1, CutOffSettles DEF InstallInv
<1>3. /\ cmd' \in {Install!NoCommand} \cup PluginCommands
      /\ cmd' = Install!NoCommand \/ cmd'.pc = "check"
  BY <1>1, <1>2, NextOne DEF Install!Fail, Install!Killed
<1>4. InstallTyped'
  BY <1>1, <1>2, <1>3 DEF InstallTyped
<1> QED
  BY <1>2, <1>3, <1>4, SettledKeeps

LEMMA ReleasedKeeps ==
    ASSUME InstallBounds, InstallInv, NEW q \in Install!Plugins, Install!Released(q)
    PROVE  InstallInv'
<1>1. UNCHANGED <<dirs, lock, cmd, found, imports, interrupted, disturbed>> /\ cmd = Install!NoCommand
  BY DEF Install!Released, Install!fileVars, Install!agentVars
<1>2. InstallTyped'
  BY <1>1 DEF Install!Released, InstallInv, InstallTyped
<1>3. Settled'
  BY <1>1, SettledAtCheck, SameInstalled DEF Settled
<1>4. FoundStays'
  BY <1>1, SameInstalled
<1> QED
  BY <1>1, <1>2, <1>3, <1>4, SettledKeeps

LEMMA BootKeeps ==
    ASSUME InstallBounds, InstallInv, Install!Boot
    PROVE  InstallInv'
<1>1. UNCHANGED <<dirs, lock, source, cmd, interrupted>> /\ InstallTyped
  BY DEF Install!Boot, Install!fileVars, InstallInv
<1>2. /\ found' = [p \in Install!Plugins |-> "unasked"] /\ imports' = [p \in Install!Plugins |-> "unknown"]
      /\ disturbed' = IF cmd = Install!NoCommand THEN {} ELSE Install!Elements(cmd.todo)
  BY DEF Install!Boot
<1>3. cmd # Install!NoCommand => Install!Elements(cmd.todo) \in SUBSET Install!Plugins /\ Install!Current \in Install!Elements(cmd.todo)
  <2> SUFFICES ASSUME cmd # Install!NoCommand
               PROVE  Install!Elements(cmd.todo) \in SUBSET Install!Plugins /\ Install!Current \in Install!Elements(cmd.todo)
    OBVIOUS
  <2>1. cmd.todo \in Seq(Install!Plugins) /\ cmd.todo # <<>>
    BY <1>1, CurrentOne DEF PluginCommands
  <2>2. DOMAIN cmd.todo = 1..Len(cmd.todo) /\ Len(cmd.todo) \in Nat /\ Len(cmd.todo) # 0
        /\ \A i \in 1..Len(cmd.todo) : cmd.todo[i] \in Install!Plugins
    BY <2>1, EmptySeq
  <2>3. Install!Current = cmd.todo[1] /\ 1 \in 1..Len(cmd.todo)
    BY <2>1, <2>2 DEF Install!Current
  <2> QED
    BY <2>2, <2>3 DEF Install!Elements
<1>4. InstallTyped'
  BY <1>1, <1>2, <1>3 DEF InstallTyped
<1>5. /\ \A p : InstalledWhole(p)' = InstalledWhole(p)
      /\ \A p : Partial(p)' = Partial(p)
      /\ Install!ReadLock' = Install!ReadLock /\ Install!Current' = Install!Current
  BY <1>1, SameFiles DEF Install!Current
<1>6. Progress' /\ LockIsSound'
  BY <1>1, <1>5 DEF InstallInv, Progress, LockIsSound, At2
<1>7. PartialOnes'
  BY <1>1, <1>2, <1>3, <1>5 DEF InstallInv, PartialOnes
<1>8. FoundStays'
  BY <1>2 DEF FoundStays
<1> QED
  BY <1>4, <1>6, <1>7, <1>8 DEF InstallInv

\* What an agent finds and imports changes no file.
LEMMA AgentKeeps ==
    ASSUME InstallInv, UNCHANGED <<dirs, lock, source, cmd, interrupted>>,
           disturbed \subseteq disturbed', InstallTyped', FoundStays'
    PROVE  InstallInv'
<1>1. /\ \A p : InstalledWhole(p)' = InstalledWhole(p)
      /\ \A p : Partial(p)' = Partial(p)
      /\ Install!ReadLock' = Install!ReadLock /\ Install!Current' = Install!Current
  BY SameFiles DEF Install!Current
<1>2. Progress' /\ LockIsSound'
  BY <1>1 DEF InstallInv, Progress, LockIsSound, At2
<1>3. PartialOnes'
  BY <1>1 DEF InstallInv, PartialOnes
<1> QED
  BY <1>2, <1>3 DEF InstallInv

LEMMA FindKeeps ==
    ASSUME InstallInv, NEW q \in Install!Plugins, Install!Find(q)
    PROVE  InstallInv'
<1>1. UNCHANGED <<dirs, lock, source, cmd, interrupted, disturbed>> /\ InstallTyped
  BY DEF Install!Find, Install!fileVars, InstallInv
<1>2. PICK c \in {"entry", "none"} :
         /\ imports' = [imports EXCEPT ![q] = c] /\ found' = [found EXCEPT ![q] = c]
         /\ c = "entry" => dirs[q].there
  BY <1>1 DEF Install!Find, InstallTyped, InstallInv, FoundStays
<1>3. InstallTyped'
  BY <1>1, <1>2 DEF InstallTyped
<1>4. FoundStays'
  <2>1. dirs[q].there => dirs[q].main \/ q \in interrupted \/ q \in disturbed
    BY DEF InstallInv, PartialOnes, Partial
  <2> QED
    BY <1>1, <1>2, <2>1 DEF InstallInv, FoundStays, InstallTyped
<1> QED
  BY <1>1, <1>3, <1>4, AgentKeeps

LEMMA ImportKeeps ==
    ASSUME InstallInv, NEW q \in Install!Plugins, Install!Import(q)
    PROVE  InstallInv'
<1>1. UNCHANGED <<dirs, lock, source, cmd, imports, interrupted>> /\ InstallTyped /\ found[q] = "entry"
  BY DEF Install!Import, Install!fileVars, InstallInv
<1>2. PICK c \in {"loaded", "broken"} :
         /\ found' = [found EXCEPT ![q] = c]
         /\ c = "broken" => ~(dirs[q].there /\ dirs[q].main)
  BY DEF Install!Import
<1>3. disturbed' = disturbed \cup (interrupted \cap {q})
  BY DEF Install!Import
<1>4. InstallTyped'
  BY <1>1, <1>2, <1>3 DEF InstallTyped
<1>5. FoundStays'
  BY <1>1, <1>2, <1>3 DEF InstallInv, FoundStays, InstallTyped
<1> QED
  BY <1>1, <1>3, <1>4, <1>5, AgentKeeps

LEMMA InstallNext ==
    ASSUME InstallBounds, InstallInv, [Install!Next]_Install!vars
    PROVE  InstallInv'
<1>1. CASE UNCHANGED Install!vars
  BY <1>1, AgentKeeps DEF Install!vars, Install!fileVars, Install!agentVars, InstallInv, InstallTyped, FoundStays
<1> QED
  BY <1>1, BeginsKeep, CheckKeeps, PackFailsKeeps, RemoveKeeps, CopyKeeps, SanitiseKeeps,
     ReadLockFileKeeps, OpenLockFileKeeps, WriteLockFileKeeps, EndsKeep, ReleasedKeeps,
     BootKeeps, FindKeeps, ImportKeeps DEF Install!Next

LEMMA InstallTells ==
    ASSUME InstallInv
    PROVE  Install!TypeOK /\ Install!LockTellsTruth /\ Install!BrokenOnesWereDisturbed
<1>1. Install!TypeOK
  BY DEF InstallInv, InstallTyped, Install!TypeOK, Directories
<1>2. Install!LockTellsTruth
  BY DEF InstallInv, LockIsSound, InstalledWhole, At2, Install!LockTellsTruth
<1>3. Install!BrokenOnesWereDisturbed
  BY DEF InstallInv, FoundStays, Install!BrokenOnesWereDisturbed
<1> QED
  BY <1>1, <1>2, <1>3

\* The plugin lock names what is whole, and an agent meets a broken plugin only where a
\* command was cut off or at work (plugin-installer.ts, plugin-lock.ts, plugin-resolver.ts).
THEOREM InstallLockIsTrue ==
    ASSUME InstallBounds
    PROVE  Install!Spec => [](Install!TypeOK /\ Install!LockTellsTruth /\ Install!BrokenOnesWereDisturbed)
<1>1. Install!Init => InstallInv
  BY InstallInit
<1>2. InstallInv /\ [Install!Next]_Install!vars => InstallInv'
  BY InstallNext
<1>3. InstallInv => Install!TypeOK /\ Install!LockTellsTruth /\ Install!BrokenOnesWereDisturbed
  BY InstallTells
<1> QED
  BY <1>1, <1>2, <1>3, PTL DEF Install!Spec


\* A non-empty set of natural numbers has a least one.
LEMMA LeastNat ==
    ASSUME NEW T \in SUBSET Nat, T # {}
    PROVE  \E n \in T : \A m \in T : n <= m
<1> DEFINE R == {ss \in Nat \X Nat : ss[1] < ss[2]}
<1>1. \A m, n \in Nat : <<m, n>> \in R <=> m < n
  OBVIOUS
<1>2. IsWellFoundedOn(R, Nat)
  BY NatLessThanWellFounded DEF OpToRel
<1> HIDE DEF R
<1>3. PICK n \in T : \A m \in T : ~(<<m, n>> \in R)
  BY <1>2, WFMin
<1>4. ASSUME NEW m \in T PROVE n <= m
  <2>1. m \in Nat /\ n \in Nat
    OBVIOUS
  <2>2. ~(m < n)
    BY <1>1, <1>3, <2>1
  <2> QED
    BY <2>1, <2>2
<1> QED
  BY <1>4

-----------------------------------------------------------------------------
(* How "start" makes a configuration (ProjectConfig).                      *)

\* Paths are sequences of names, and limits are not 0.
ConfigBounds == Dirs \subseteq Seq(STRING) /\ Limits \subseteq Nat \ {0}

\* What lies below a path below p lies below p.
LEMMA AboveTransitive ==
    ASSUME ConfigBounds, NEW p \in Dirs, NEW q \in Dirs, NEW d \in Dirs, Config!Above(p, q), Config!Above(q, d)
    PROVE  Config!Above(p, d)
<1>1. p \in Seq(STRING) /\ q \in Seq(STRING) /\ d \in Seq(STRING)
  BY DEF ConfigBounds
<1>2. Len(p) \in Nat /\ Len(q) \in Nat /\ Len(d) \in Nat /\ Len(p) <= Len(q) /\ Len(q) <= Len(d)
  BY <1>1 DEF Config!Above
<1>3. SubSeq(q, 1, Len(p)) = p /\ SubSeq(d, 1, Len(q)) = q
  BY DEF Config!Above
<1>4. \A i \in 1..Len(p) : d[i] = p[i]
  BY <1>1, <1>2, <1>3
<1>5. SubSeq(d, 1, Len(p)) = p
  BY <1>1, <1>2, <1>4
<1> QED
  BY <1>2, <1>5 DEF Config!Above

LEMMA UnderMonotone ==
    ASSUME ConfigBounds, NEW P \in SUBSET Dirs, NEW Q \in SUBSET Dirs,
           \A q \in Q : \E p \in P : Config!Above(p, q)
    PROVE  Config!Under(Q) \subseteq Config!Under(P)
BY AboveTransitive DEF Config!Under

\* Of the directories above one there is a nearest.
LEMMA NearestIsOne ==
    ASSUME ConfigBounds, NEW ds \in SUBSET Dirs, ds # {}, NEW c \in Dirs,
           \A d \in ds : Config!Above(d, c)
    PROVE  Config!Nearest(ds) \in ds
<1> DEFINE T == {Len(c) - Len(d) : d \in ds}
<1>1. \A d \in ds : Len(d) \in Nat /\ Len(c) \in Nat /\ Len(d) <= Len(c)
  BY DEF ConfigBounds, Config!Above
<1>2. T \in SUBSET Nat /\ T # {}
  BY <1>1
<1>3. PICK n \in T : \A m \in T : n <= m
  BY <1>2, LeastNat
<1>4. PICK d \in ds : n = Len(c) - Len(d)
  OBVIOUS
<1>5. ASSUME NEW e \in ds PROVE Len(e) <= Len(d)
  <2>1. n <= Len(c) - Len(e)
    BY <1>3
  <2> QED
    BY <1>1, <1>4, <2>1
<1> QED
  BY <1>5 DEF Config!Nearest

-----------------------------------------------------------------------------
(* The inductive invariant. *)

ConfigTyped ==
    /\ step \in {"detect", "directory", "config", "permissions", "plugins", "merge",
                  "validate", "default", "started", "aborted"}
    /\ cwd \in Dirs /\ marked \in SUBSET Dirs
    /\ system \in [paths : SUBSET Dirs, tools : SUBSET ToolNames, limit : Limits \cup {0}]
    /\ project \in [given : SUBSET {"paths", "tools"}, paths : SUBSET Dirs,
                    tools : SUBSET ToolNames, denied : SUBSET ToolNames,
                    limit : Limits \cup {0}, plugins : SUBSET Dirs]
    /\ config \in [paths : SUBSET Dirs, tools : SUBSET ToolNames, limit : Limits \cup {0}]
    /\ root = Config!NoProject \/ root \in marked

\* Before its files are read the project says nothing.
Unsaid == project.given = {} /\ project.denied = {} /\ project.limit = 0

\* Until the merge the configuration is the system's.
AsLoaded ==
    step \in {"detect", "directory", "config", "permissions", "plugins", "merge"} =>
        config = system

SaidLater == step \in {"detect", "directory", "config", "permissions"} => Unsaid

\* A project that is looked at was found.
Found ==
    step \in {"directory", "config", "permissions", "plugins", "merge"} => root \in Dirs

\* What the project allows lies inside of it, once it is validated.
Validated ==
    step \in {"plugins", "merge", "validate", "default", "started"}
      /\ "paths" \in project.given => root \in Dirs /\ \A p \in project.paths : Config!Above(root, p)

\* Then it is the two merged, which leaves no empty list of paths where both gave one.
MergedConfig == config.tools = Config!MergedTools /\ config.limit = Config!Smaller(system.limit, project.limit)
AsMerged ==
    /\ step \in {"validate", "default", "started"} => MergedConfig
    /\ step \in {"validate", "default"} => config.paths = Config!MergedPaths
    /\ step \in {"validate", "default", "started"} =>
          ("paths" \in project.given /\ system.paths # {} => Config!MergedPaths # {})
    /\ step = "started" =>
          config.paths = IF Config!MergedPaths = {} /\ "paths" \notin project.given
                         THEN {cwd} ELSE Config!MergedPaths

ConfigInv == ConfigTyped /\ AsLoaded /\ SaidLater /\ Found /\ Validated /\ AsMerged

\* A project that says nothing leaves the system's configuration as it is.
LEMMA UnsaidMerges ==
    ASSUME ConfigBounds, ConfigTyped, Unsaid
    PROVE  /\ Config!MergedPaths = system.paths /\ Config!MergedTools = system.tools
           /\ Config!Smaller(system.limit, project.limit) = system.limit
BY DEF ConfigBounds, ConfigTyped, Unsaid, Config!MergedPaths, Config!MergedTools, Config!Smaller

LEMMA MergedTyped ==
    ASSUME ConfigBounds, ConfigTyped
    PROVE  /\ Config!MergedPaths \in SUBSET Dirs /\ Config!MergedTools \in SUBSET ToolNames
           /\ Config!Smaller(system.limit, project.limit) \in Limits \cup {0}
BY DEF ConfigTyped, Config!MergedPaths, Config!Kept, Config!MergedTools, Config!Smaller

LEMMA ConfigInit ==
    ASSUME ConfigBounds, Config!Init
    PROVE  ConfigInv
BY DEF Config!Init, Config!Lists, ConfigInv, ConfigTyped, AsLoaded, SaidLater, Unsaid, Found, Validated, AsMerged

LEMMA ConfigNext ==
    ASSUME ConfigBounds, ConfigInv, [Config!Next]_Config!vars
    PROVE  ConfigInv'
<1> USE DEF ConfigInv
<1>1. CASE Config!Detect
  <2> DEFINE above == {d \in marked : Config!Above(d, cwd)}
  <2>1. above # {} => Config!Nearest(above) \in above
    BY NearestIsOne DEF ConfigTyped
  <2>2. Unsaid
    BY <1>1 DEF Config!Detect, SaidLater
  <2> HIDE DEF above
  <2>3. CASE above = {}
    <3>1. step' = "validate" /\ UNCHANGED <<Config!inputs, config, root>> /\ config = system
      BY <1>1, <2>3 DEF Config!Detect, above, AsLoaded
    <3>2. Config!MergedPaths = system.paths /\ Config!MergedTools = system.tools
          /\ Config!Smaller(system.limit, project.limit) = system.limit
      BY <2>2, UnsaidMerges
    <3>3. MergedConfig' /\ config'.paths = Config!MergedPaths' /\ "paths" \notin project'.given
      BY <3>1, <3>2, <2>2 DEF Config!inputs, MergedConfig, Config!MergedPaths, Config!Kept, Config!MergedTools, Unsaid
    <3> QED
      BY <3>1, <3>3 DEF ConfigTyped, AsLoaded, SaidLater, Found, Validated, AsMerged, Config!inputs
  <2>4. CASE above # {}
    <3>1. step' = "directory" /\ UNCHANGED <<Config!inputs, config>> /\ root' \in marked
      BY <1>1, <2>1, <2>4 DEF Config!Detect, above
    <3> QED
      BY <1>1, <2>2, <3>1 DEF Config!Detect, ConfigTyped, AsLoaded, SaidLater, Found, Validated, AsMerged, Unsaid, Config!inputs
  <2> QED
    BY <2>3, <2>4
<1>2. CASE Config!CheckDirectory \/ Config!CheckConfig
  BY <1>2 DEF Config!CheckDirectory, Config!CheckConfig, Config!Abort, ConfigTyped, AsLoaded, SaidLater, Found, Validated,
     AsMerged, Unsaid, Config!inputs
<1>3. CASE Config!CheckPermissions
  <2>1. step = "permissions" /\ UNCHANGED <<cwd, marked, system, root, config>> /\ Unsaid
    BY <1>3 DEF Config!CheckPermissions, SaidLater
  <2>2. CASE step' = "aborted" /\ project' = project
    BY <2>1, <2>2 DEF ConfigTyped, AsLoaded, SaidLater, Found, Validated, AsMerged
  <2>3. CASE step' = "plugins" /\ project' = project
    BY <2>1, <2>3 DEF ConfigTyped, AsLoaded, SaidLater, Found, Validated, AsMerged, Unsaid
  <2>4. CASE \E stated \in SUBSET {"paths", "tools"}, paths \in Config!Lists,
                tools, refused \in SUBSET ToolNames, limit \in Limits \cup {0} :
               /\ project' = [project EXCEPT !.given = stated, !.paths = paths, !.tools = tools,
                                !.denied = refused, !.limit = limit]
               /\ IF \E p \in paths : ~Config!PathSafe(p) THEN Config!Abort ELSE step' = "plugins"
    <3>1. PICK stated \in SUBSET {"paths", "tools"}, paths \in Config!Lists,
                tools \in SUBSET ToolNames, refused \in SUBSET ToolNames, limit \in Limits \cup {0} :
               /\ project' = [project EXCEPT !.given = stated, !.paths = paths, !.tools = tools,
                                !.denied = refused, !.limit = limit]
               /\ IF \E p \in paths : ~Config!PathSafe(p) THEN Config!Abort ELSE step' = "plugins"
      BY <2>4
    <3>2. /\ project' \in [given : SUBSET {"paths", "tools"}, paths : SUBSET Dirs,
                    tools : SUBSET ToolNames, denied : SUBSET ToolNames,
                    limit : Limits \cup {0}, plugins : SUBSET Dirs]
          /\ project'.paths = paths
      BY <3>1 DEF ConfigTyped, Config!Lists
    <3>3. step' \in {"aborted", "plugins"}
          /\ (step' = "plugins" => \A p \in paths : Config!Above(root, p))
      BY <3>1 DEF Config!Abort, Config!PathSafe
    <3>4. ConfigTyped'
      BY <2>1, <3>2, <3>3 DEF ConfigTyped
    <3>5. Validated'
      BY <2>1, <3>2, <3>3 DEF Found, Validated
    <3> QED
      BY <2>1, <3>3, <3>4, <3>5 DEF AsLoaded, SaidLater, Found, AsMerged
  <2> QED
    BY <1>3, <2>2, <2>3, <2>4 DEF Config!CheckPermissions, Config!Abort
<1>4. CASE Config!CheckPlugins
  BY <1>4 DEF Config!CheckPlugins, Config!Abort, ConfigTyped, AsLoaded, SaidLater, Found, Validated, AsMerged
<1>5. CASE Config!Merge
  <2>1. /\ Config!MergedPaths \in SUBSET Dirs /\ Config!MergedTools \in SUBSET ToolNames
        /\ Config!Smaller(system.limit, project.limit) \in Limits \cup {0}
    BY MergedTyped
  <2>2. Config!MergedPaths' = Config!MergedPaths /\ Config!MergedTools' = Config!MergedTools
    BY <1>5 DEF Config!Merge, Config!inputs, Config!MergedPaths, Config!Kept, Config!MergedTools
  <2>3. UNCHANGED <<cwd, marked, system, project, root>> /\ step = "merge"
    BY <1>5 DEF Config!Merge, Config!inputs
  <2>4. CASE step' = "aborted" /\ UNCHANGED config
    BY <2>3, <2>4 DEF ConfigTyped, AsLoaded, SaidLater, Found, Validated, AsMerged
  <2>5. CASE /\ ~("paths" \in project.given /\ system.paths # {} /\ Config!MergedPaths = {})
             /\ step' = "validate"
             /\ config' = [paths |-> Config!MergedPaths, tools |-> Config!MergedTools,
                           limit |-> Config!Smaller(system.limit, project.limit)]
    <3>1. ConfigTyped'
      BY <2>1, <2>3, <2>5 DEF ConfigTyped
    <3>2. MergedConfig' /\ config'.paths = Config!MergedPaths'
      BY <2>2, <2>3, <2>5 DEF MergedConfig
    <3> QED
      BY <2>2, <2>3, <2>5, <3>1, <3>2 DEF AsLoaded, SaidLater, Found, Validated, AsMerged
  <2> QED
    BY <1>5, <2>4, <2>5 DEF Config!Merge, Config!Abort
<1>6. CASE Config!Validate
  <2>1. UNCHANGED <<cwd, marked, system, project, root, config>> /\ step = "validate"
        /\ step' \in {"aborted", "default"}
    BY <1>6 DEF Config!Validate, Config!Abort, Config!inputs
  <2>2. Config!MergedPaths' = Config!MergedPaths /\ MergedConfig' = MergedConfig
    BY <2>1 DEF Config!MergedPaths, Config!Kept, MergedConfig, Config!MergedTools
  <2> QED
    BY <2>1, <2>2 DEF ConfigTyped, AsLoaded, SaidLater, Found, Validated, AsMerged
<1>7. CASE Config!DefaultPaths
  <2>1. UNCHANGED <<cwd, marked, system, project, root>> /\ step = "default"
        /\ step' = "started"
        /\ config' = [config EXCEPT !.paths = IF @ = {} /\ "paths" \notin project.given THEN {cwd} ELSE @]
    BY <1>7 DEF Config!DefaultPaths, Config!inputs
  <2>2. Config!MergedPaths' = Config!MergedPaths /\ Config!MergedTools' = Config!MergedTools
    BY <2>1 DEF Config!MergedPaths, Config!Kept, Config!MergedTools
  <2>3. /\ config'.tools = config.tools /\ config'.limit = config.limit
        /\ config'.paths = IF Config!MergedPaths = {} /\ "paths" \notin project.given
                           THEN {cwd} ELSE Config!MergedPaths
    BY <2>1 DEF ConfigTyped, AsMerged
  <2>4. ConfigTyped'
    BY <2>1 DEF ConfigTyped
  <2>5. MergedConfig'
    BY <2>1, <2>2, <2>3 DEF AsMerged, MergedConfig
  <2> QED
    BY <2>1, <2>2, <2>3, <2>4, <2>5 DEF AsLoaded, SaidLater, Found, Validated, AsMerged
<1>8. CASE UNCHANGED Config!vars
  <2>1. Config!MergedPaths' = Config!MergedPaths /\ MergedConfig' = MergedConfig
    BY <1>8 DEF Config!vars, Config!MergedPaths, Config!Kept, MergedConfig, Config!MergedTools
  <2> QED
    BY <1>8, <2>1 DEF Config!vars, ConfigTyped, AsLoaded, SaidLater, Found, Validated, AsMerged, Unsaid
<1> QED
  BY <1>1, <1>2, <1>3, <1>4, <1>5, <1>6, <1>7, <1>8 DEF Config!Next

LEMMA ConfigRestricts ==
    ASSUME ConfigBounds, ConfigInv
    PROVE  Config!ProjectsOnlyRestrict
<1> SUFFICES ASSUME step = "started" PROVE Config!ProjectsOnlyRestrict
  BY DEF Config!ProjectsOnlyRestrict
<1>0. ConfigTyped /\ MergedConfig
  BY DEF ConfigInv, AsMerged
<1>1. config.paths = IF Config!MergedPaths = {} /\ "paths" \notin project.given THEN {cwd} ELSE Config!MergedPaths
  BY DEF ConfigInv, AsMerged
<1>2. Config!Under(config.paths) \subseteq
         Config!Under(CASE system.paths # {} -> system.paths
                 [] system.paths = {} /\ "paths" \in project.given -> {root}
                 [] OTHER -> {cwd})
  <2>1. CASE system.paths # {} /\ "paths" \notin project.given
    BY <1>1, <2>1 DEF Config!MergedPaths
  <2>2. CASE system.paths # {} /\ "paths" \in project.given
    <3>1. config.paths = Config!Kept(project.paths)
      BY <1>1, <2>2 DEF Config!MergedPaths
    <3> QED
      BY <1>0, <2>2, <3>1, UnderMonotone DEF Config!Kept, ConfigTyped
  <2>3. CASE system.paths = {} /\ "paths" \in project.given
    <3>1. config.paths = project.paths
      BY <1>1, <2>3 DEF Config!MergedPaths
    <3>2. root \in Dirs /\ \A p \in project.paths : Config!Above(root, p)
      BY <2>3 DEF ConfigInv, Validated
    <3>3. Config!Under(project.paths) \subseteq Config!Under({root})
      <4>1. {root} \in SUBSET Dirs /\ \A q \in project.paths : \E p \in {root} : Config!Above(p, q)
        BY <3>2
      <4> QED
        BY <1>0, <4>1, UnderMonotone DEF ConfigTyped
    <3> QED
      BY <2>3, <3>1, <3>3
  <2>4. CASE system.paths = {} /\ "paths" \notin project.given
    BY <1>1, <2>4 DEF Config!MergedPaths
  <2> QED
    BY <2>1, <2>2, <2>3, <2>4
<1>3. (system.tools # {} => config.tools \subseteq system.tools) /\ config.tools \cap project.denied = {}
  BY <1>0 DEF MergedConfig, Config!MergedTools
<1>4. \A l \in {system.limit, project.limit} \ {0} : config.limit <= l /\ config.limit # 0
  <2>1. system.limit \in Nat /\ project.limit \in Nat
    <3>1. system.limit \in Limits \cup {0} /\ project.limit \in Limits \cup {0}
      BY <1>0 DEF ConfigTyped
    <3>2. \A l \in Limits \cup {0} : l \in Nat
      <4>1. \A l \in Limits : l \in Nat
        BY Zenon DEF ConfigBounds
      <4> QED
        BY <4>1
    <3> QED
      BY <3>1, <3>2
  <2> QED
    BY <1>0, <2>1 DEF MergedConfig, Config!Smaller
<1> QED
  BY <1>2, <1>3, <1>4 DEF Config!ProjectsOnlyRestrict

LEMMA ConfigSharedPathsStay ==
    ASSUME ConfigBounds, ConfigInv
    PROVE  Config!SharedPathsStay
<1> SUFFICES ASSUME step = "started", "paths" \in project.given, system.paths # {},
                    \A p \in project.paths : \E s \in system.paths : Config!Above(s, p)
             PROVE  Config!Under(config.paths) = Config!Under(system.paths) \cap Config!Under(project.paths)
  BY DEF Config!SharedPathsStay
<1>1. config.paths = project.paths
  BY DEF ConfigInv, AsMerged, Config!MergedPaths, Config!Kept
<1>2. Config!Under(project.paths) \subseteq Config!Under(system.paths)
  BY UnderMonotone DEF ConfigInv, ConfigTyped
<1> QED
  BY <1>1, <1>2

\* A project only restricts what the system allows, and takes away nothing both allow
\* unless it asked for more (config-merger.ts, permission-validator.ts, start.ts).
THEOREM ConfigOnlyRestricts ==
    ASSUME ConfigBounds
    PROVE  Config!Spec => [](Config!TypeOK /\ Config!ProjectsOnlyRestrict /\ Config!SharedPathsStay)
<1>1. Config!Init => ConfigInv
  BY ConfigInit
<1>2. ConfigInv /\ [Config!Next]_Config!vars => ConfigInv'
  BY ConfigNext
<1>3. ConfigInv => Config!TypeOK /\ Config!ProjectsOnlyRestrict /\ Config!SharedPathsStay
  BY ConfigRestricts, ConfigSharedPathsStay DEF ConfigInv, ConfigTyped, Config!TypeOK
<1> QED
  BY <1>1, <1>2, <1>3, PTL DEF Config!Spec

-----------------------------------------------------------------------------
(* The components in one specification (RunnerParts): each moves as it does *)
(* by itself, or not at all.                                               *)

LEMMA RunnerBounds ==
    /\ LockBounds /\ ForegroundBounds /\ DaemonBounds /\ InstallBounds /\ ConfigBounds
    /\ MaxNumbers \in Nat /\ None \notin Nat
BY RunnerAssumption
   DEF LockBounds, Locks!Holders, LockFiles, ForegroundBounds, DaemonBounds, InstallBounds,
       ConfigBounds

LEMMA PartsBegin ==
    PartsInit => /\ Daemons!Init /\ Locks!Init /\ Foreground!Init
                 /\ Numbers!Init /\ Install!Init /\ Config!Init
BY DEF PartsInit

LEMMA PartsStep ==
    [PartsNext]_allVars => /\ [Daemons!Next]_Daemons!vars /\ [Locks!Next]_Locks!vars
                           /\ [Foreground!Next]_Foreground!vars
                           /\ [Numbers!Next]_Numbers!vars /\ [Install!Next]_Install!vars
                           /\ [Config!Next]_Config!vars
<1> SUFFICES ASSUME [PartsNext]_allVars
             PROVE  /\ [Daemons!Next]_Daemons!vars /\ [Locks!Next]_Locks!vars
                    /\ [Foreground!Next]_Foreground!vars
                    /\ [Numbers!Next]_Numbers!vars /\ [Install!Next]_Install!vars
                    /\ [Config!Next]_Config!vars
  OBVIOUS
<1>1. /\ Daemons!Next \/ UNCHANGED daemonsVars
      /\ Locks!Next \/ UNCHANGED locksVars
      /\ Foreground!Next \/ UNCHANGED foregroundVars
      /\ Numbers!Next \/ UNCHANGED numbersVars
      /\ Install!Next \/ UNCHANGED installVars
      /\ Config!Next \/ UNCHANGED configVars
  BY DEF PartsNext, allVars
<1>2. UNCHANGED daemonsVars => UNCHANGED Daemons!vars
  BY DEF daemonsVars, Daemons!vars
<1>3. UNCHANGED locksVars => UNCHANGED Locks!vars
  BY DEF locksVars, Locks!vars
<1>4. UNCHANGED foregroundVars => UNCHANGED Foreground!vars
  BY DEF foregroundVars, Foreground!vars, Foreground!files, Foreground!memory,
         Foreground!logVars, Foreground!auditVars, Foreground!runVars
<1>5. UNCHANGED numbersVars => UNCHANGED Numbers!vars
  BY DEF numbersVars, Numbers!vars
<1>6. UNCHANGED installVars => UNCHANGED Install!vars
  BY DEF installVars, Install!vars
<1>7. UNCHANGED configVars => UNCHANGED Config!vars
  BY DEF configVars, Config!vars
<1> QED
  BY <1>1, <1>2, <1>3, <1>4, <1>5, <1>6, <1>7

LEMMA PartsAreTheirs ==
    PartsSpec => Daemons!Spec /\ Locks!Spec /\ Foreground!Spec /\ Numbers!Spec /\ Install!Spec
                 /\ Config!Spec
BY PartsBegin, PartsStep, PTL
   DEF PartsSpec, Daemons!Spec, Locks!Spec, Foreground!Spec, Numbers!Spec, Install!Spec,
       Config!Spec

\* One daemon is found per agent unless two starts overlapped, and the updates of a file
\* are sequential unless a live holder was robbed of its lock (daemon-start.ts,
\* file-lock.ts): of any agents' commands, processes and operations.
THEOREM RunnerOneHolds == PartsSpec => []OneHolds
<1>1. /\ Daemons!TypeOK /\ Daemons!OneDaemonIsFound
      /\ Locks!TypeOK /\ Locks!OneAtATimeInside /\ Locks!UnrobbedIsSequential
      => OneHolds
  BY DEF OneHolds
<1> QED
  BY <1>1, RunnerBounds, PartsAreTheirs, DaemonsOneIsFound, LocksTyped, LocksSerializeInside,
     LocksUnrobbedIsSequential, PTL

\* What an orderly exit had is there for the next run, each journal in its order, and no
\* number given to a child is given again (start.ts, generation-counter.ts).
THEOREM RunnerRestartsGoOn == PartsSpec => RestartsGoOn
<1>1. /\ Foreground!TypeOK /\ Foreground!OrderlyExitKeeps
      /\ Foreground!JournalsKeepOrder /\ Foreground!CascadeRunsThrough
      => (part = "foreground" =>
            /\ Foreground!TypeOK /\ Foreground!OrderlyExitKeeps
            /\ Foreground!JournalsKeepOrder /\ Foreground!CascadeRunsThrough)
  OBVIOUS
<1>2. Numbers!TypeOK /\ Numbers!NumbersAreFresh
      => (part = "numbers" => Numbers!TypeOK /\ Numbers!NumbersAreFresh)
  OBVIOUS
<1> QED
  BY <1>1, <1>2, RunnerBounds, PartsAreTheirs, ForegroundRestartsGoOn, NumbersTyped,
     NumbersStayFresh, NumbersOnlyRise, PTL DEF RestartsGoOn

\* The plugin lock names what is whole, and an agent meets a broken plugin only where a
\* command was cut off or at work (plugin-installer.ts, plugin-lock.ts).
THEOREM RunnerInstallTellsTruth == PartsSpec => []InstallTellsTruth
<1>1. Install!TypeOK /\ Install!LockTellsTruth /\ Install!BrokenOnesWereDisturbed
      => InstallTellsTruth
  BY DEF InstallTellsTruth
<1> QED
  BY <1>1, RunnerBounds, PartsAreTheirs, InstallLockIsTrue, PTL

\* A project takes away and never adds, and leaves shared paths where they were
\* (config-merger.ts, start.ts).
THEOREM RunnerProjectsOnlyRestrict == PartsSpec => []ProjectsOnlyRestrict
<1>1. Config!TypeOK /\ Config!ProjectsOnlyRestrict /\ Config!SharedPathsStay
      => ProjectsOnlyRestrict
  BY DEF ProjectsOnlyRestrict
<1> QED
  BY <1>1, RunnerBounds, PartsAreTheirs, ConfigOnlyRestricts, PTL
=============================================================================
