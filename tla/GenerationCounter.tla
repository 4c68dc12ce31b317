-------------------------- MODULE GenerationCounter --------------------------
(***************************************************************************)
(* The birth-order numbers a daemon gives the children of each parent:     *)
(* apps/runner/src/daemon/generation-counter.ts, as handleSpawnChild and   *)
(* the fork and branch of daemon-entry.ts use it.                          *)
(*                                                                         *)
(* A number is cached and then written to the parent's file, by a          *)
(* temporary file and a rename, before it is returned.  A file that is     *)
(* missing, unreadable or not a number counts as 0, a failed write is only *)
(* a warning.  Two parents whose ids differ in other characters than       *)
(* letters, digits, points, underscores and dashes share a file.           *)
(***************************************************************************)
EXTENDS Naturals, FiniteSets

CONSTANTS
  Parents,
  Stem,          \* the file of each parent
  Unread,        \* a file that is missing or holds no number; nothing cached
  MaxNumbers,    \* bound on the numbers one parent gives
  MaxTrouble     \* bound on restarts, failed reads and failed writes

VARIABLES
  files,         \* per stem: the number written, or Unread
  cache,         \* per parent: the number this process remembers
  given,         \* per parent: the numbers given, with how often
  blurred,       \* stems of which a read or a write went wrong
  trouble

vars == <<files, cache, given, blurred, trouble>>

Stems == {Stem[p] : p \in Parents}

Init ==
  /\ files = [f \in Stems |-> Unread]
  /\ cache = [p \in Parents |-> Unread]
  /\ given = [p \in Parents |-> [n \in 1 .. MaxNumbers |-> 0]]
  /\ blurred = {}
  /\ trouble = 0

\* What the file says, 0 when it says nothing.
Written(f) == IF files[f] = Unread THEN 0 ELSE files[f]

\* Mutant: a parent this process has not numbered yet starts at 0.
LastCached(p) == IF cache[p] = Unread THEN 0 ELSE cache[p]

\* The file is read once per process and parent, whatever is written to it later.
Last(p) == IF cache[p] = Unread THEN Written(Stem[p]) ELSE cache[p]

\* A spawn takes the next number of its parent; the write may fail.
Number(p, kept) ==
  LET n == Last(p) + 1 IN
  /\ n <= MaxNumbers
  /\ cache' = [cache EXCEPT ![p] = n]
  /\ given' = [given EXCEPT ![p][n] = @ + 1]
  /\ files' = IF kept THEN [files EXCEPT ![Stem[p]] = n] ELSE files

NumberKept(p) == Number(p, TRUE) /\ UNCHANGED <<blurred, trouble>>

Blur(f) ==
  /\ trouble < MaxTrouble
  /\ trouble' = trouble + 1
  /\ blurred' = blurred \cup {f}

NumberLost(p) == Blur(Stem[p]) /\ Number(p, FALSE)

\* The file is damaged or removed: the number it held is gone.
Damaged(f) ==
  /\ files[f] # Unread
  /\ Blur(f)
  /\ files' = [files EXCEPT ![f] = Unread]
  /\ UNCHANGED <<cache, given>>

\* The daemon ends, at any point, and a new one starts.
Restart ==
  /\ trouble < MaxTrouble
  /\ trouble' = trouble + 1
  /\ cache' = [p \in Parents |-> Unread]
  /\ UNCHANGED <<files, given, blurred>>

Next ==
  \/ \E p \in Parents : NumberKept(p) \/ NumberLost(p)
  \/ \E f \in Stems : Damaged(f)
  \/ Restart

Spec == Init /\ [][Next]_vars

-----------------------------------------------------------------------------
TypeOK ==
  /\ files \in [Stems -> {Unread} \cup 1 .. MaxNumbers]
  /\ cache \in [Parents -> {Unread} \cup 1 .. MaxNumbers]
  /\ given \in [Parents -> [1 .. MaxNumbers -> Nat]]
  /\ blurred \subseteq Stems

Shared(p) == \E q \in Parents \ {p} : Stem[q] = Stem[p]

\* No child gets the number of an earlier one of its parent, through any restarts,
\* unless the file was damaged, could not be written, or serves another parent too.
NumbersAreFresh ==
  \A p \in Parents : \A n \in 1 .. MaxNumbers :
    (Stem[p] \notin blurred /\ ~Shared(p)) => given[p][n] <= 1

\* Within one run the numbers of a parent rise whatever happens to the files.
NumbersRise ==
  [][\A p \in Parents : (cache[p] # Unread /\ cache'[p] # Unread) => cache'[p] >= cache[p]]_vars

\* Does not hold: two parents of one file.
AllNumbersAreFresh ==
  \A p \in Parents : \A n \in 1 .. MaxNumbers : Stem[p] \notin blurred => given[p][n] <= 1
=============================================================================
