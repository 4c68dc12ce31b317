----------------------------- MODULE AuditTrail -----------------------------
(***************************************************************************)
(* The audit trail of an agent: a file of hash-chained entries, rotated by  *)
(* size (packages/core/src/observability/audit-trail-writer.ts), and its    *)
(* verifier (audit-chain-verifier.ts).                                      *)
(*                                                                         *)
(* Everything is synchronous: a step writes one entry, or restarts the      *)
(* program.  A hash is the pair of the entry and the hash before it, so two *)
(* entries hash alike only if they and all before them are alike.           *)
(***************************************************************************)
EXTENDS Integers, Sequences

CONSTANTS
    MaxSize,         \* maxSizeBytes, in entries
    MaxFiles,        \* maxFiles; 1 acts as 2, since a rotated file is always kept
    MaxEntries,      \* bound: entries
    MaxTrouble       \* bound: failed operations and restarts

VARIABLES
    trail,           \* trail[0]: the file; trail[i]: the file rotated i times
    currentSize,
    lastHash,
    audited,         \* number of entries audited
    skipped,         \* history: entries that failed to be written
    trouble,         \* number of failures and restarts
    broken           \* history: entries that began a chain within a file

vars == <<trail, currentSize, lastHash, audited, skipped, trouble, broken>>

Zero == <<>>                   \* the hash '0'
Places == 0..(MaxFiles - 1)    \* the file and the rotated ones

Init ==
    /\ trail = [i \in Places |-> <<>>]
    /\ currentSize = 0 /\ lastHash = Zero
    /\ audited = 0 /\ skipped = {} /\ trouble = 0 /\ broken = {}

\* A line: what it tells of, the hash before it and its own.
Line(n, prev) == [entry |-> n, prevHash |-> prev, entryHash |-> <<n, prev>>]

\* A form of Rotated that moves the youngest file first.
RotatedFromFront(t) ==
    [i \in Places |-> IF i = 0 THEN <<>> ELSE t[0]]

\* rotate: the oldest file goes, every other is one older.
Rotated(t) ==
    [i \in Places |-> IF i = 0 THEN <<>> ELSE t[i - 1]]

\* A form of Chained that goes on with the chain of the file before.
ChainedOn(n) == Line(n, lastHash)

\* The first line of a new file.
Chained(n) == Line(n, Zero)

\* writeEntry, when everything it does succeeds.
Append1(n) ==
    IF currentSize + 1 > MaxSize
    THEN /\ trail' = [Rotated(trail) EXCEPT ![0] = <<Chained(n)>>]
         /\ currentSize' = 1
         /\ lastHash' = Chained(n).entryHash
         /\ UNCHANGED broken
    ELSE /\ trail' = [trail EXCEPT ![0] = Append(@, Line(n, lastHash))]
         /\ currentSize' = currentSize + 1
         /\ lastHash' = Line(n, lastHash).entryHash
         /\ broken' = broken \cup (IF lastHash = Zero /\ trail[0] # <<>> THEN {n} ELSE {})

Audit ==
    /\ audited < MaxEntries
    /\ audited' = audited + 1
    /\ Append1(audited + 1)
    /\ UNCHANGED <<skipped, trouble>>

\* The file cannot be written; a rotation before has been done.
AuditFails ==
    /\ audited < MaxEntries /\ trouble < MaxTrouble
    /\ audited' = audited + 1 /\ trouble' = trouble + 1
    /\ skipped' = skipped \cup {audited + 1}
    /\ IF currentSize + 1 > MaxSize
       THEN trail' = Rotated(trail) /\ currentSize' = 0 /\ lastHash' = Zero
       ELSE UNCHANGED <<trail, currentSize, lastHash>>
    /\ UNCHANGED broken

\* The file cannot be renamed: the older ones have moved, the chain begins again, and
\* the size stays, so that the next entry rotates too.
RotationFails ==
    /\ audited < MaxEntries /\ trouble < MaxTrouble
    /\ currentSize + 1 > MaxSize /\ trail[0] # <<>>
    /\ audited' = audited + 1 /\ trouble' = trouble + 1
    /\ trail' = [Rotated(trail) EXCEPT ![0] = Append(trail[0], Chained(audited + 1)),
                                       ![1] = <<>>]
    /\ currentSize' = currentSize + 1
    /\ lastHash' = Chained(audited + 1).entryHash
    /\ broken' = broken \cup {audited + 1}
    /\ UNCHANGED skipped

\* The program is started again on the file it finds.
Restart ==
    /\ trouble < MaxTrouble
    /\ trouble' = trouble + 1
    /\ currentSize' = Len(trail[0])
    /\ lastHash' = Zero
    /\ UNCHANGED <<trail, audited, skipped, broken>>

Next == Audit \/ AuditFails \/ RotationFails \/ Restart

-----------------------------------------------------------------------------
\* verifyAuditChain: the number of the lines in order, all of them if the file is good.
Verified(file) ==
    LET good(k) == /\ file[k].prevHash = (IF k = 1 THEN Zero ELSE file[k - 1].entryHash)
                   /\ file[k].entryHash = <<file[k].entry, file[k].prevHash>>
    IN  CHOOSE n \in 0..Len(file) :
            /\ \A k \in 1..n : good(k)
            /\ n = Len(file) \/ ~good(n + 1)

\* A file verifies up to the first entry that began a chain within it, which only a
\* restart or a rotation that failed makes it do, and no further.
FilesVerify ==
    \A i \in Places :
        LET cut == {k \in DOMAIN trail[i] : trail[i][k].entry \in broken}
        IN  Verified(trail[i]) = IF cut = {} THEN Len(trail[i])
                                 ELSE (CHOOSE k \in cut : \A j \in cut : k <= j) - 1

\* The entries a file holds, and all files do.
Holds(i) == {trail[i][k].entry : k \in DOMAIN trail[i]}
Kept == UNION {Holds(i) : i \in Places}

\* The files hold the latest entries that could be written, in order, the older the
\* higher the number of their file: a rotation loses only the oldest file, and while
\* nothing fails none before MaxFiles are full.
NoneLostWithin ==
    /\ \A i, j \in Places : \A k \in DOMAIN trail[i], l \in DOMAIN trail[j] :
          i > j \/ (i = j /\ k < l) => trail[i][k].entry < trail[j][l].entry
    /\ \A n \in Kept : n..audited \subseteq Kept \cup skipped
    /\ trouble = 0 => \/ Kept = 1..audited
                      \/ \A i \in Places \ {0} : Len(trail[i]) = MaxSize
=============================================================================
