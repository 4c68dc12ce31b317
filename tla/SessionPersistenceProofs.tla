---------------------- MODULE SessionPersistenceProofs ----------------------
(***************************************************************************)
(* Theorems of SessionPersistence, for every set of sessions and every     *)
(* bound: the type invariant, and that the files stay whole, the loss is   *)
(* bounded and a session at rest is saved.                                 *)
(*                                                                         *)
(* The three hold together or not at all.  Safe(s), for a session whose    *)
(* jobs have not overlapped, says that one job of s runs at a time; that   *)
(* its temporary files hold what its position in the program makes them    *)
(* hold, so that only whole files are renamed; that an armed timer is the  *)
(* one the map knows and carries the last call, so that a save that is due *)
(* cancels every snapshot it overtakes; and that a save past its messages  *)
(* has landed the last call, so that the count it resets hides none.  The  *)
(* jobs of other sessions move descriptors of the one file they share, the *)
(* index, and of nothing of s (OthersJob); a step of the session's own job *)
(* leaves that job or none (OwnStep, OwnEnd).                              *)
(***************************************************************************)
EXTENDS SessionPersistence, SequenceTheorems, TLAPS

-----------------------------------------------------------------------------
(* The names of the files. *)

LEMMA FileNames ==
    ASSUME NEW s \in Sessions
    PROVE  /\ <<s, "meta">> \in Files /\ <<s, "messages">> \in Files /\ Index \in Files
           /\ <<s, "meta">> # Index /\ <<s, "messages">> # Index
           /\ <<s, "meta">> # <<s, "messages">>
<1>1. <<s, "meta">> \in Files /\ <<s, "messages">> \in Files /\ Index \in Files
  BY DEF Files
<1>2. <<s, "meta">> # <<s, "messages">>
  OBVIOUS
<1>3. <<s, "meta">> # Index /\ <<s, "messages">> # Index
  <2>1. Len(Index) = 1 /\ Len(<<s, "meta">>) = 2 /\ Len(<<s, "messages">>) = 2
    BY DEF Index
  <2> QED
    BY <2>1
<1> QED
  BY <1>1, <1>2, <1>3

LEMMA OwnFiles ==
    ASSUME NEW s \in Sessions, NEW r \in Sessions, r # s
    PROVE  \A a, b \in {"meta", "messages"} : <<s, a>> # <<r, b>>
OBVIOUS

-----------------------------------------------------------------------------
(* The programs of the jobs, operation by operation. *)

LEMMA Rewrites ==
    ASSUME NEW S, NEW f,
           <<f, "open">> \in S, <<f, "write">> \in S, <<f, "rename">> \in S
    PROVE  /\ Rewrite(f) \in Seq(S) /\ Len(Rewrite(f)) = 3
           /\ Rewrite(f)[1] = <<f, "open">>
           /\ Rewrite(f)[2] = <<f, "write">>
           /\ Rewrite(f)[3] = <<f, "rename">>
BY DEF Rewrite

LEMMA Programs ==
    /\ LET P == Program("delete")
       IN  /\ DOMAIN P = 1..6
           /\ P[1] = <<"meta", "unlink">> /\ P[2] = <<"messages", "unlink">>
           /\ P[3] = <<"index", "read">> /\ P[4] = <<"index", "open">>
           /\ P[5] = <<"index", "write">> /\ P[6] = <<"index", "rename">>
    /\ \A kind : kind # "delete" =>
          LET P == Program(kind)
          IN  /\ DOMAIN P = 1..10
              /\ P[1] = <<"meta", "open">> /\ P[2] = <<"meta", "write">>
              /\ P[3] = <<"meta", "rename">> /\ P[4] = <<"messages", "open">>
              /\ P[5] = <<"messages", "write">> /\ P[6] = <<"messages", "rename">>
              /\ P[7] = <<"index", "read">> /\ P[8] = <<"index", "open">>
              /\ P[9] = <<"index", "write">> /\ P[10] = <<"index", "rename">>
<1> DEFINE S == {"meta", "messages", "index"} \X {"open", "write", "rename", "read", "unlink"}
           r == <<<<"index", "read">>>>
           u == <<<<"meta", "unlink">>, <<"messages", "unlink">>>>
           A == Rewrite("meta")
           B == Rewrite("messages")
           C == Rewrite("index")
           D == A \o B
           U == r \o C
<1>1. \A f \in {"meta", "messages", "index"}, o \in {"open", "write", "rename", "read", "unlink"} :
          <<f, o>> \in S
  OBVIOUS
<1>2. <<"index", "read">> \in S /\ <<"meta", "unlink">> \in S /\ <<"messages", "unlink">> \in S
  BY <1>1
<1> HIDE DEF S
<1>3. /\ A \in Seq(S) /\ Len(A) = 3
      /\ A[1] = <<"meta", "open">> /\ A[2] = <<"meta", "write">> /\ A[3] = <<"meta", "rename">>
  BY <1>1, Rewrites
<1>4. /\ B \in Seq(S) /\ Len(B) = 3
      /\ B[1] = <<"messages", "open">> /\ B[2] = <<"messages", "write">>
      /\ B[3] = <<"messages", "rename">>
  BY <1>1, Rewrites
<1>5. /\ C \in Seq(S) /\ Len(C) = 3
      /\ C[1] = <<"index", "open">> /\ C[2] = <<"index", "write">> /\ C[3] = <<"index", "rename">>
  BY <1>1, Rewrites
<1>6. r \in Seq(S) /\ Len(r) = 1 /\ r[1] = <<"index", "read">>
  BY <1>2
<1>7. /\ u \in Seq(S) /\ Len(u) = 2
      /\ u[1] = <<"meta", "unlink">> /\ u[2] = <<"messages", "unlink">>
  BY <1>2
<1> HIDE DEF r, u, A, B, C
<1>8. /\ D \in Seq(S) /\ Len(D) = 6
      /\ D[1] = A[1] /\ D[2] = A[2] /\ D[3] = A[3] /\ D[4] = B[1] /\ D[5] = B[2] /\ D[6] = B[3]
  <2>1. /\ A \o B \in Seq(S) /\ Len(A \o B) = Len(A) + Len(B)
        /\ \A i \in 1..Len(A) + Len(B) :
              (A \o B)[i] = IF i <= Len(A) THEN A[i] ELSE B[i - Len(A)]
    BY <1>3, <1>4, ConcatProperties, Zenon
  <2>2. /\ D \in Seq(S) /\ Len(D) = 6
        /\ \A i \in 1..6 : D[i] = IF i <= 3 THEN A[i] ELSE B[i - 3]
    BY <1>3, <1>4, <2>1
  <2> HIDE DEF D
  <2> QED
    BY <2>2
<1>9. /\ U \in Seq(S) /\ Len(U) = 4
      /\ U[1] = r[1] /\ U[2] = C[1] /\ U[3] = C[2] /\ U[4] = C[3]
  <2>1. /\ r \o C \in Seq(S) /\ Len(r \o C) = Len(r) + Len(C)
        /\ \A i \in 1..Len(r) + Len(C) :
              (r \o C)[i] = IF i <= Len(r) THEN r[i] ELSE C[i - Len(r)]
    BY <1>5, <1>6, ConcatProperties, Zenon
  <2>2. /\ U \in Seq(S) /\ Len(U) = 4
        /\ \A i \in 1..4 : U[i] = IF i <= 1 THEN r[i] ELSE C[i - 1]
    BY <1>5, <1>6, <2>1
  <2> HIDE DEF U
  <2> QED
    BY <2>2
<1> HIDE DEF D, U
<1> DEFINE P == D \o U
           Q == u \o U
<1>10. /\ DOMAIN P = 1..10
       /\ P[1] = D[1] /\ P[2] = D[2] /\ P[3] = D[3] /\ P[4] = D[4] /\ P[5] = D[5]
       /\ P[6] = D[6] /\ P[7] = U[1] /\ P[8] = U[2] /\ P[9] = U[3] /\ P[10] = U[4]
  <2>1. /\ D \o U \in Seq(S) /\ Len(D \o U) = Len(D) + Len(U)
        /\ \A i \in 1..Len(D) + Len(U) :
              (D \o U)[i] = IF i <= Len(D) THEN D[i] ELSE U[i - Len(D)]
    BY <1>8, <1>9, ConcatProperties, Zenon
  <2>2. /\ P \in Seq(S) /\ Len(P) = 10
        /\ \A i \in 1..10 : P[i] = IF i <= 6 THEN D[i] ELSE U[i - 6]
    BY <1>8, <1>9, <2>1
  <2> HIDE DEF P
  <2> QED
    BY <2>2
<1>11. /\ DOMAIN Q = 1..6
       /\ Q[1] = u[1] /\ Q[2] = u[2] /\ Q[3] = U[1] /\ Q[4] = U[2] /\ Q[5] = U[3] /\ Q[6] = U[4]
  <2>1. /\ u \o U \in Seq(S) /\ Len(u \o U) = Len(u) + Len(U)
        /\ \A i \in 1..Len(u) + Len(U) :
              (u \o U)[i] = IF i <= Len(u) THEN u[i] ELSE U[i - Len(u)]
    BY <1>7, <1>9, ConcatProperties, Zenon
  <2>2. /\ Q \in Seq(S) /\ Len(Q) = 6
        /\ \A i \in 1..6 : Q[i] = IF i <= 2 THEN u[i] ELSE U[i - 2]
    BY <1>7, <1>9, <2>1
  <2> HIDE DEF Q
  <2> QED
    BY <2>2
<1>12. Program("delete") = Q
  BY DEF Program, UpdateIndex, U, u, r, C
<1>13. \A kind : kind # "delete" => Program(kind) = A \o B \o U
  BY DEF Program, UpdateIndex, U, r, A, B, C
<1>14. A \o B \o U = P
  BY Zenon DEF P, D
<1> HIDE DEF P, Q
<1> QED
  BY <1>3, <1>4, <1>5, <1>6, <1>7, <1>8, <1>9, <1>10, <1>11, <1>12, <1>13, <1>14, Zenon

-----------------------------------------------------------------------------
(* The inductive invariant. *)

Kinds == {"call", "timer", "stop", "delete"}
Entries == [s : Sessions, n : 1..MaxCalls]
Jobs == [kind : Kinds, s : Sessions, call : 0..MaxCalls, pos : 1..10,
         at : {"none", "tmp", "final", "gone"}, idx : SUBSET Entries]

\* A job is for a call that has been made, and at one of its operations.
JobOK(j) ==
    /\ j \in Jobs
    /\ j.pos \in DOMAIN Program(j.kind)
    /\ j.call <= calls[j.s] /\ (j.kind # "delete" => j.call >= 1)

ContentsOf(f) == IF f = Index THEN IndexContents ELSE Contents

\* What types the next state: functions with their domains, and no timer and no
\* job for a call that has not been made.
CallsTyped ==
    /\ count \in [Sessions -> Nat] /\ timer \in [Sessions -> 0..MaxCalls]
    /\ armed \subseteq [s : Sessions, call : 1..MaxCalls]
    /\ \A t \in armed : t.call <= calls[t.s]
    /\ calls \in [Sessions -> 0..MaxCalls]
    /\ landed \in [Sessions -> Nat]
    /\ \A s \in Sessions : landed[s] <= calls[s]
JobsTyped == \A j \in jobs : JobOK(j)
FilesTyped ==
    /\ tmp \in [Files -> Contents \cup IndexContents]
    /\ final \in [Files -> Contents \cup IndexContents]
    /\ \A f \in Files : tmp[f] \in ContentsOf(f) /\ final[f] \in ContentsOf(f)
RestTyped ==
    /\ doomed \subseteq Sessions
    /\ stopping \in [phase : {"no", "saving", "saved", "exited"},
                      left : SUBSET Sessions]
    /\ day \in 0..MaxDay /\ failures \in 0..MaxFailures
    /\ lastUse \in [Sessions -> 0..MaxDay]
    /\ overlapped \subseteq Sessions /\ crowded \in BOOLEAN
Typed == CallsTyped /\ JobsTyped /\ FilesTyped /\ RestTyped

\* At most one job of s is under way.
OneJob(s) == \A j, k \in jobs : j.s = s /\ k.s = s => j = k

\* The armed timer of s is the one the map knows, for the last call of save(), and
\* no job of s runs beside it.
OneTimer(s) ==
    \A t \in armed : t.s = s =>
        /\ t.call = timer[s] /\ t.call = calls[s]
        /\ \A j \in jobs : j.s # s

\* The save of s under way is for the last call, its temporary file holds what the
\* operations done so far put there, and behind the messages the call has landed.
Underway(s) ==
    \A j \in jobs : j.s = s /\ j.kind # "delete" =>
        /\ j.call = calls[s]
        /\ j.pos = 2 => j.at = "tmp" /\ tmp[<<s, "meta">>] = Empty
        /\ j.pos = 3 => IsWhole(tmp[<<s, "meta">>])
        /\ j.pos = 5 => j.at = "tmp" /\ tmp[<<s, "messages">>] = Empty
        /\ j.pos = 6 => tmp[<<s, "messages">>] = Whole(j.call)
        /\ j.pos >= 7 => landed[s] = calls[s]

\* The final files of s are whole, and the messages those of the call that landed.
OnDisk(s) ==
    /\ final[<<s, "meta">>].kind \in {"absent", "whole"}
    /\ Messages(s) = Absent \/ Messages(s) = Whole(landed[s])

NoSave(s) == \A j \in jobs : j.s = s => j.kind = "delete"

\* The calls that have not landed are counted, fewer than SaveEvery when no save is
\* under way, and none when no timer is armed either.
Accounted(s) ==
    /\ calls[s] <= landed[s] + count[s]
    /\ Running /\ failures = 0 /\ NoSave(s) =>
          /\ calls[s] < landed[s] + SaveEvery
          /\ (\A t \in armed : t.s # s) => landed[s] = calls[s]

Safe(s) == OneJob(s) /\ OneTimer(s) /\ Underway(s) /\ OnDisk(s) /\ Accounted(s)

IInv == Typed /\ \A s \in Sessions \ overlapped : Safe(s)

-----------------------------------------------------------------------------
(* A job's operation, by its position. *)

LEMMA SaveOps ==
    ASSUME NEW j, JobOK(j), j.kind # "delete"
    PROVE  /\ j.pos \in 1..10
           /\ Op(j)[1] = (CASE j.pos \in 1..3 -> "meta" [] j.pos \in 4..6 -> "messages"
                           [] OTHER -> "index")
           /\ Op(j)[2] = (CASE j.pos \in {1, 4, 8} -> "open" [] j.pos \in {2, 5, 9} -> "write"
                           [] j.pos \in {3, 6, 10} -> "rename" [] OTHER -> "read")
<1> DEFINE P == Program(j.kind)
<1>1. /\ DOMAIN P = 1..10
      /\ P[1] = <<"meta", "open">> /\ P[2] = <<"meta", "write">>
      /\ P[3] = <<"meta", "rename">> /\ P[4] = <<"messages", "open">>
      /\ P[5] = <<"messages", "write">> /\ P[6] = <<"messages", "rename">>
      /\ P[7] = <<"index", "read">> /\ P[8] = <<"index", "open">>
      /\ P[9] = <<"index", "write">> /\ P[10] = <<"index", "rename">>
  BY Programs
<1>2. j.pos \in DOMAIN P /\ Op(j) = P[j.pos]
  BY DEF JobOK, Op
<1> HIDE DEF P
<1>3. j.pos \in 1..10 /\ Op(j) = P[j.pos]
  BY <1>1, <1>2
<1> QED
  BY <1>1, <1>3

LEMMA DeleteOps ==
    ASSUME NEW j, JobOK(j), j.kind = "delete"
    PROVE  /\ j.pos \in 1..6
           /\ Op(j)[1] = (CASE j.pos = 1 -> "meta" [] j.pos = 2 -> "messages"
                           [] OTHER -> "index")
           /\ Op(j)[2] = (CASE j.pos \in {1, 2} -> "unlink" [] j.pos = 3 -> "read"
                           [] j.pos = 4 -> "open" [] j.pos = 5 -> "write"
                           [] OTHER -> "rename")
<1> DEFINE P == Program(j.kind)
<1>1. /\ DOMAIN P = 1..6
      /\ P[1] = <<"meta", "unlink">> /\ P[2] = <<"messages", "unlink">>
      /\ P[3] = <<"index", "read">> /\ P[4] = <<"index", "open">>
      /\ P[5] = <<"index", "write">> /\ P[6] = <<"index", "rename">>
  BY Programs
<1>2. j.pos \in DOMAIN P /\ Op(j) = P[j.pos]
  BY DEF JobOK, Op
<1> HIDE DEF P
<1>3. j.pos \in 1..6 /\ Op(j) = P[j.pos]
  BY <1>1, <1>2
<1> QED
  BY <1>1, <1>3

LEMMA FileOf ==
    ASSUME NEW j, JobOK(j)
    PROVE  /\ Op(j)[1] \in {"meta", "messages", "index"}
           /\ File(j) \in Files
           /\ Op(j)[1] = "index" <=> File(j) = Index
           /\ Op(j)[1] # "index" => File(j) = <<j.s, Op(j)[1]>>
<1>1. Op(j)[1] \in {"meta", "messages", "index"}
  BY SaveOps, DeleteOps
<1>2. j.s \in Sessions
  BY DEF JobOK, Jobs
<1> QED
  BY <1>1, <1>2, FileNames DEF File

\* A job that has not renamed the index has an operation left.
LEMMA GoesOn ==
    ASSUME NEW j, JobOK(j), Op(j)[2] = "rename" => Op(j)[1] # "index"
    PROVE  j.pos + 1 \in DOMAIN Program(j.kind) /\ j.pos + 1 \in 1..10
<1>1. CASE j.kind = "delete"
  BY <1>1, DeleteOps, Programs
<1>2. CASE j.kind # "delete"
  <2>1. DOMAIN Program(j.kind) = 1..10
    BY <1>2, Programs
  <2> QED
    BY <1>2, <2>1, SaveOps
<1> QED
  BY <1>1, <1>2

-----------------------------------------------------------------------------
(* The other jobs at a step of a job. *)

\* l is k, with its descriptor moved if it is one of j's file.
Alike(j, k, l) ==
    /\ l \in Jobs
    /\ l.s = k.s /\ l.kind = k.kind /\ l.call = k.call /\ l.pos = k.pos
    /\ l.at = k.at \/ File(k) = File(j)

\* T holds the jobs but j, with no more than descriptors of j's file moved.
Carries(j, T) ==
    /\ \A l \in T : \E k \in jobs : k # j /\ Alike(j, k, l)
    /\ \A k \in jobs : k # j => \E l \in T : Alike(j, k, l)
    /\ \A s : OneJob(s) => \A k, l \in T : k.s = s /\ l.s = s => k = l

LEMMA Carried ==
    ASSUME JobsTyped, NEW j \in jobs
    PROVE  /\ Carries(j, Without(j))
           /\ Carries(j, Moved(j, "final", "gone"))
           /\ Carries(j, Renamed(j))
<1>1. \A k \in jobs : k \in Jobs
  BY DEF JobsTyped, JobOK
<1>2. Carries(j, Without(j))
  BY <1>1 DEF Carries, Alike, Without, OneJob
<1>3. Carries(j, Moved(j, "final", "gone"))
  <2> DEFINE F(k) == IF File(k) = File(j) /\ k.at = "final" THEN [k EXCEPT !.at = "gone"] ELSE k
  <2>1. Moved(j, "final", "gone") = {F(k) : k \in Without(j)}
    BY DEF Moved
  <2>2. \A k \in jobs : Alike(j, k, F(k))
    BY <1>1 DEF Alike, Jobs
  <2> HIDE DEF F
  <2>3. \A l \in Moved(j, "final", "gone") : \E k \in jobs : k # j /\ l = F(k)
    BY <2>1 DEF Without
  <2>4. \A k \in jobs : k # j => F(k) \in Moved(j, "final", "gone")
    BY <2>1 DEF Without
  <2>5. \A k \in jobs : F(k).s = k.s
    BY <2>2 DEF Alike
  <2>6. ASSUME NEW s, OneJob(s), NEW k \in Moved(j, "final", "gone"),
               NEW l \in Moved(j, "final", "gone"), k.s = s, l.s = s
        PROVE  k = l
    BY <2>3, <2>5, <2>6 DEF OneJob
  <2> QED
    BY <2>2, <2>3, <2>4, <2>6 DEF Carries
<1>4. Carries(j, Renamed(j))
  <2> DEFINE F(k) == IF File(k) # File(j) THEN k
                     ELSE IF k.at = "tmp" THEN [k EXCEPT !.at = "final"]
                     ELSE IF k.at = "final" THEN [k EXCEPT !.at = "gone"]
                     ELSE k
  <2>1. Renamed(j) = {F(k) : k \in Without(j)}
    BY DEF Renamed
  <2>2. \A k \in jobs : Alike(j, k, F(k))
    BY <1>1 DEF Alike, Jobs
  <2> HIDE DEF F
  <2>3. \A l \in Renamed(j) : \E k \in jobs : k # j /\ l = F(k)
    BY <2>1 DEF Without
  <2>4. \A k \in jobs : k # j => F(k) \in Renamed(j)
    BY <2>1 DEF Without
  <2>5. \A k \in jobs : F(k).s = k.s
    BY <2>2 DEF Alike
  <2>6. ASSUME NEW s, OneJob(s), NEW k \in Renamed(j), NEW l \in Renamed(j), k.s = s, l.s = s
        PROVE  k = l
    BY <2>3, <2>5, <2>6 DEF OneJob
  <2> QED
    BY <2>2, <2>3, <2>4, <2>6 DEF Carries
<1> QED
  BY <1>2, <1>3, <1>4

\* The step's jobs are typed when the one it moves on is.
LEMMA JobsStayTyped ==
    ASSUME JobsTyped, NEW j \in jobs, NEW T, Carries(j, T), UNCHANGED calls,
           \A l \in jobs' : l \in T \/ JobOK(l)
    PROVE  JobsTyped'
<1> SUFFICES ASSUME NEW l \in jobs' PROVE JobOK(l)
  BY DEF JobsTyped, JobOK
<1>1. CASE l \in T
  <2>1. PICK k \in jobs : Alike(j, k, l)
    BY <1>1 DEF Carries
  <2>2. JobOK(k)
    BY DEF JobsTyped
  <2> QED
    BY <2>1, <2>2 DEF JobOK, Alike
<1> QED
  BY <1>1

\* The session of the job has no other, if it had one only.
LEMMA NoneBeside ==
    ASSUME JobsTyped, NEW j \in jobs, NEW T, Carries(j, T), OneJob(j.s)
    PROVE  \A l \in T : l.s # j.s
BY DEF Carries, Alike, OneJob

-----------------------------------------------------------------------------
(* A step that is not about s. *)

\* All that s is accountable for is as before.
Undisturbed(s) ==
    /\ calls'[s] = calls[s] /\ landed'[s] = landed[s]
    /\ count'[s] = count[s] /\ timer'[s] = timer[s]
    /\ \A t \in armed' : t.s = s => t \in armed
    /\ \A t \in armed : t.s = s => t \in armed'
    /\ \A a \in {"meta", "messages"} :
          tmp'[<<s, a>>] = tmp[<<s, a>>] /\ final'[<<s, a>>] = final[<<s, a>>]
    /\ Running' => Running
    /\ failures' = 0 => failures = 0

\* And so are its jobs, but for where the index they have opened has gone.
SameJobs(s) ==
    /\ \A l \in jobs' : l.s = s =>
          \E k \in jobs : /\ k.s = s /\ l.kind = k.kind /\ l.call = k.call /\ l.pos = k.pos
                          /\ l.at = k.at \/ k.pos \notin {2, 5} \/ k.kind = "delete"
    /\ \A k \in jobs : k.s = s => \E l \in jobs' : l.s = s /\ l.kind = k.kind
    /\ OneJob(s) => OneJob(s)'

LEMMA Elsewhere ==
    ASSUME NEW s \in Sessions, Safe(s), Undisturbed(s), SameJobs(s)
    PROVE  Safe(s)'
<1>1. OneJob(s)'
  BY DEF Safe, SameJobs
<1>2. OneTimer(s)'
  BY DEF Safe, OneTimer, Undisturbed, SameJobs
<1>3. Underway(s)'
  <2> SUFFICES ASSUME NEW l \in jobs', l.s = s, l.kind # "delete"
               PROVE  /\ l.call = calls[s]
                      /\ l.pos = 2 => l.at = "tmp" /\ tmp[<<s, "meta">>] = Empty
                      /\ l.pos = 3 => IsWhole(tmp[<<s, "meta">>])
                      /\ l.pos = 5 => l.at = "tmp" /\ tmp[<<s, "messages">>] = Empty
                      /\ l.pos = 6 => tmp[<<s, "messages">>] = Whole(l.call)
                      /\ l.pos >= 7 => landed[s] = calls[s]
    BY DEF Underway, Undisturbed
  <2>1. PICK k \in jobs : /\ k.s = s /\ l.kind = k.kind /\ l.call = k.call /\ l.pos = k.pos
                          /\ l.at = k.at \/ k.pos \notin {2, 5} \/ k.kind = "delete"
    BY DEF SameJobs
  <2> QED
    BY <2>1 DEF Safe, Underway
<1>4. OnDisk(s)'
  BY DEF Safe, OnDisk, Undisturbed, Messages
<1>5. NoSave(s)' => NoSave(s)
  BY DEF NoSave, SameJobs
<1>6. (\A t \in armed' : t.s # s) => \A t \in armed : t.s # s
  BY DEF Undisturbed
<1>7. Accounted(s)'
  BY <1>5, <1>6 DEF Safe, Accounted, Undisturbed
<1> QED
  BY <1>1, <1>2, <1>3, <1>4, <1>7 DEF Safe

\* A step of a job of another session.
LEMMA OthersJob ==
    ASSUME JobsTyped, NEW j \in jobs, NEW T, Carries(j, T), NEW s \in Sessions, s # j.s,
           T \subseteq jobs', \A l \in jobs' : l \in T \/ l.s = j.s
    PROVE  SameJobs(s)
<1>1. ASSUME NEW k \in jobs, k.s = s, File(k) = File(j)
      PROVE  k.pos \notin {2, 5} \/ k.kind = "delete"
  <2>1. JobOK(k) /\ JobOK(j) /\ j.s \in Sessions
    BY DEF JobsTyped, JobOK, Jobs
  <2>2. CASE Op(k)[1] # "index" /\ Op(j)[1] # "index"
    <3>1. Op(k)[1] \in {"meta", "messages"} /\ Op(j)[1] \in {"meta", "messages"}
      BY <2>1, <2>2, FileOf
    <3>2. File(k) = <<s, Op(k)[1]>> /\ File(j) = <<j.s, Op(j)[1]>>
      BY <1>1, <2>1, <2>2, FileOf
    <3> QED
      BY <1>1, <2>1, <3>1, <3>2, OwnFiles
  <2>3. CASE Op(k)[1] = "index" \/ Op(j)[1] = "index"
    <3>1. Op(k)[1] = "index"
      BY <1>1, <2>1, <2>3, FileOf
    <3>2. k.kind # "delete" => k.pos >= 7
      BY <2>1, <3>1, SaveOps
    <3> QED
      BY <3>2
  <2> QED
    BY <2>2, <2>3
<1>2. ASSUME NEW l \in jobs', l.s = s
      PROVE  \E k \in jobs : /\ k.s = s /\ l.kind = k.kind /\ l.call = k.call /\ l.pos = k.pos
                             /\ l.at = k.at \/ k.pos \notin {2, 5} \/ k.kind = "delete"
  <2>1. PICK k \in jobs : Alike(j, k, l)
    BY <1>2 DEF Carries
  <2> QED
    BY <1>1, <1>2, <2>1 DEF Alike
<1>3. \A k \in jobs : k.s = s => \E l \in jobs' : l.s = s /\ l.kind = k.kind
  BY DEF Carries, Alike
<1>4. OneJob(s) => OneJob(s)'
  BY DEF Carries, OneJob
<1> QED
  BY <1>2, <1>3, <1>4 DEF SameJobs

-----------------------------------------------------------------------------
(* A step of a job, for its own session. *)

LEMMA NotTheirs ==
    ASSUME NEW j, JobOK(j), NEW s \in Sessions, s # j.s
    PROVE  \A a \in {"meta", "messages"} : File(j) # <<s, a>> /\ <<s, a>> \in Files
<1>1. j.s \in Sessions
  BY DEF JobOK, Jobs
<1> QED
  BY <1>1, FileOf, FileNames, OwnFiles

\* The job goes on as l: what remains to show is what l and the files are like.
LEMMA OwnStep ==
    ASSUME Typed, NEW j \in jobs, NEW T, Carries(j, T), Safe(j.s),
           NEW l, jobs' = T \cup {l}, l.s = j.s, l.kind = j.kind, l.call = j.call,
           UNCHANGED <<armed, calls, count, timer>>,
           Running' => Running, failures' = 0 => failures = 0,
           landed'[j.s] = landed[j.s] \/ (j.kind # "delete" /\ landed'[j.s] = calls[j.s]),
           OnDisk(j.s)',
           l.kind # "delete" =>
               /\ l.pos = 2 => l.at = "tmp" /\ tmp'[<<j.s, "meta">>] = Empty
               /\ l.pos = 3 => IsWhole(tmp'[<<j.s, "meta">>])
               /\ l.pos = 5 => l.at = "tmp" /\ tmp'[<<j.s, "messages">>] = Empty
               /\ l.pos = 6 => tmp'[<<j.s, "messages">>] = Whole(l.call)
               /\ l.pos >= 7 => landed'[j.s] = calls[j.s]
    PROVE  Safe(j.s)'
<1> DEFINE s == j.s
<1>1. s \in Sessions
  BY DEF Typed, JobsTyped, JobOK, Jobs
<1>2. \A k \in jobs' : k.s = s => k = l
  BY NoneBeside DEF Safe, Typed
<1>3. \A t \in armed : t.s # s
  BY DEF Safe, OneTimer
<1>4. OneJob(s)'
  BY <1>2 DEF OneJob
<1>5. OneTimer(s)'
  BY <1>3 DEF OneTimer
<1>6. Underway(s)'
  <2>1. j.kind # "delete" => j.call = calls[s]
    BY DEF Safe, Underway
  <2> SUFFICES ASSUME NEW k \in jobs', k.s = s, k.kind # "delete"
               PROVE  /\ k.call = calls[s]
                      /\ k.pos = 2 => k.at = "tmp" /\ tmp'[<<s, "meta">>] = Empty
                      /\ k.pos = 3 => IsWhole(tmp'[<<s, "meta">>])
                      /\ k.pos = 5 => k.at = "tmp" /\ tmp'[<<s, "messages">>] = Empty
                      /\ k.pos = 6 => tmp'[<<s, "messages">>] = Whole(k.call)
                      /\ k.pos >= 7 => landed'[s] = calls[s]
    BY DEF Underway, IsWhole
  <2>2. k = l
    BY <1>2
  <2> QED
    BY <2>1, <2>2
<1>7. Accounted(s)'
  <2>1. calls[s] \in Nat /\ landed[s] \in Nat /\ count[s] \in Nat
    BY <1>1 DEF Typed, CallsTyped
  <2>2. (calls[s] <= landed[s] + count[s])'
    BY <2>1 DEF Safe, Accounted
  <2>3. CASE j.kind = "delete"
    <3>1. NoSave(s)
      BY <2>3 DEF Safe, OneJob, NoSave
    <3> QED
      BY <1>3, <2>2, <2>3, <3>1 DEF Safe, Accounted
  <2>4. CASE j.kind # "delete"
    <3>1. ~NoSave(s)'
      BY <2>4 DEF NoSave
    <3> QED
      BY <2>2, <3>1 DEF Accounted
  <2> QED
    BY <2>3, <2>4
<1> QED
  BY <1>4, <1>5, <1>6, <1>7 DEF Safe

\* The job is over.
LEMMA OwnEnd ==
    ASSUME Typed, NEW j \in jobs, NEW T, Carries(j, T), Safe(j.s),
           jobs' = T, UNCHANGED armed, OnDisk(j.s)',
           (\A t \in armed : t.s # j.s) => Accounted(j.s)'
    PROVE  Safe(j.s)'
<1> DEFINE s == j.s
<1>1. \A k \in jobs' : k.s # s
  BY NoneBeside DEF Safe, Typed
<1>2. \A t \in armed : t.s # s
  BY DEF Safe, OneTimer
<1>3. OneJob(s)' /\ OneTimer(s)' /\ Underway(s)'
  BY <1>1, <1>2 DEF OneJob, OneTimer, Underway
<1> QED
  BY <1>2, <1>3 DEF Safe

-----------------------------------------------------------------------------
(* The file operations. *)

\* The next operation of a job, reached from the one it performs.
LEMMA NextOp ==
    ASSUME NEW j, JobOK(j), NEW at \in {"none", "tmp", "final", "gone"}, NEW l,
           l = [j EXCEPT !.pos = @ + 1, !.at = at],
           Op(j)[2] = "rename" => Op(j)[1] # "index"
    PROVE  /\ JobOK(l) /\ l.kind = j.kind /\ l.s = j.s /\ l.call = j.call
           /\ l.pos = j.pos + 1 /\ l.at = at
<1>1. j.pos + 1 \in DOMAIN Program(j.kind) /\ j.pos + 1 \in 1..10
  BY GoesOn
<1> QED
  BY <1>1 DEF JobOK, Jobs

LEMMA ContentsUnion ==
    \A f \in Files : ContentsOf(f) \subseteq Contents \cup IndexContents
BY DEF ContentsOf

LEMMA TypedParts ==
    ASSUME Typed
    PROVE  CallsTyped /\ JobsTyped /\ FilesTyped /\ RestTyped
BY DEF Typed

LEMMA OpenKeeps ==
    ASSUME IInv, NEW j \in jobs, Open(j)
    PROVE  IInv'
<1> DEFINE l == [j EXCEPT !.pos = @ + 1, !.at = "tmp"]
<1>1. JobOK(j) /\ j.s \in Sessions /\ Typed /\ JobsTyped /\ FilesTyped
  BY DEF IInv, Typed, JobsTyped, JobOK, Jobs
<1>2. /\ jobs' = Without(j) \cup {l}
      /\ Op(j)[2] = "open"
      /\ tmp' = [tmp EXCEPT ![File(j)] = Empty]
      /\ UNCHANGED <<armed, doomed, day, failures, calls, lastUse, overlapped, crowded,
                     final, stopping, count, timer, landed>>
  BY DEF Open, Performs, clockVars
<1>3. /\ JobOK(l) /\ l.kind = j.kind /\ l.s = j.s /\ l.call = j.call
      /\ l.pos = j.pos + 1 /\ l.at = "tmp"
  BY <1>1, <1>2, NextOp
<1>4. Carries(j, Without(j))
  BY <1>1, Carried
<1> HIDE DEF l
<1>5. Running' => Running
  BY <1>2 DEF Running
<1>6. Typed'
  <2>1. JobsTyped'
    BY <1>1, <1>2, <1>3, <1>4, JobsStayTyped
  <2>2. FilesTyped'
    <3>1. \A f \in Files : Empty \in ContentsOf(f)
      BY DEF ContentsOf, Contents, IndexContents
    <3> QED
      BY <1>1, <1>2, <3>1, ContentsUnion DEF FilesTyped
  <2> QED
    BY <1>1, <1>2, <2>1, <2>2 DEF Typed, CallsTyped, RestTyped
<1>7. ASSUME NEW s \in Sessions \ overlapped, s # j.s
      PROVE  Safe(s)'
  <2>1. \A a \in {"meta", "messages"} : tmp'[<<s, a>>] = tmp[<<s, a>>]
    BY <1>1, <1>2, <1>7, NotTheirs DEF FilesTyped
  <2>2. Undisturbed(s)
    BY <1>2, <1>5, <2>1 DEF Undisturbed
  <2>3. SameJobs(s)
    BY <1>1, <1>2, <1>3, <1>4, <1>7, OthersJob
  <2> QED
    BY <1>7, <2>2, <2>3, Elsewhere DEF IInv
<1>8. ASSUME j.s \notin overlapped
      PROVE  Safe(j.s)'
  <2>1. Safe(j.s)
    BY <1>1, <1>8 DEF IInv
  <2>2. OnDisk(j.s)'
    BY <1>2, <2>1 DEF Safe, OnDisk, Messages
  <2>3. ASSUME j.kind # "delete"
        PROVE  /\ l.pos = 2 => l.at = "tmp" /\ tmp'[<<j.s, "meta">>] = Empty
               /\ l.pos = 3 => IsWhole(tmp'[<<j.s, "meta">>])
               /\ l.pos = 5 => l.at = "tmp" /\ tmp'[<<j.s, "messages">>] = Empty
               /\ l.pos = 6 => tmp'[<<j.s, "messages">>] = Whole(l.call)
               /\ l.pos >= 7 => landed'[j.s] = calls[j.s]
    <3>1. j.pos \in {1, 4, 8}
      BY <1>1, <1>2, <2>3, SaveOps
    <3>2. tmp'[File(j)] = Empty
      BY <1>1, <1>2, FileOf DEF FilesTyped
    <3>3. j.pos = 1 => File(j) = <<j.s, "meta">>
      BY <1>1, <2>3, SaveOps, FileOf
    <3>4. j.pos = 4 => File(j) = <<j.s, "messages">>
      BY <1>1, <2>3, SaveOps, FileOf
    <3>5. j.pos = 8 => landed[j.s] = calls[j.s]
      BY <2>1, <2>3 DEF Safe, Underway
    <3> QED
      BY <1>2, <1>3, <3>1, <3>2, <3>3, <3>4, <3>5
  <2> QED
    BY <1>1, <1>2, <1>3, <1>4, <1>5, <2>1, <2>2, <2>3, OwnStep
<1> QED
  BY <1>2, <1>6, <1>7, <1>8 DEF IInv

\* What a write leaves is of the file's type.
LEMMA OverTyped ==
    ASSUME NEW j, JobOK(j), NEW c \in ContentsOf(File(j)), calls \in [Sessions -> 0..MaxCalls]
    PROVE  Over(File(j), c, DataOf(j)) \subseteq ContentsOf(File(j))
<1>1. j \in Jobs /\ j.s \in Sessions /\ j.idx \subseteq Entries /\ j.call \in 0..MaxCalls
  BY DEF JobOK, Jobs
<1>2. Over(File(j), c, DataOf(j)) \subseteq {Mixed, Whole(DataOf(j))}
  BY DEF Over
<1>3. CASE Op(j)[1] = "index"
  <2>1. File(j) = Index
    BY <1>3, FileOf
  <2>2. NewIndex(j) \subseteq Entries
    <3>1. j.kind # "delete" => [s |-> j.s, n |-> j.call] \in Entries
      BY <1>1 DEF JobOK, Entries
    <3> QED
      BY <1>1, <3>1 DEF NewIndex
  <2>3. DataOf(j) = NewIndex(j)
    BY <1>3 DEF DataOf
  <2>4. Mixed \in IndexContents /\ Whole(DataOf(j)) \in IndexContents
    BY <2>2, <2>3 DEF IndexContents, Whole, Entries
  <2> QED
    BY <1>2, <2>1, <2>4 DEF ContentsOf
<1>4. CASE Op(j)[1] # "index"
  <2>1. File(j) # Index
    BY <1>4, FileOf
  <2>2. DataOf(j) \in 0..MaxCalls
    BY <1>1, <1>4, FileOf, PersistenceAssumption DEF DataOf
  <2>3. Mixed \in Contents /\ Whole(DataOf(j)) \in Contents
    BY <2>2 DEF Contents, Whole
  <2> QED
    BY <1>2, <2>1, <2>3 DEF ContentsOf
<1> QED
  BY <1>3, <1>4

LEMMA WriteKeeps ==
    ASSUME IInv, NEW j \in jobs, Write(j)
    PROVE  IInv'
<1> DEFINE l == [j EXCEPT !.pos = @ + 1, !.at = "none"]
           f == File(j)
<1>1. /\ JobOK(j) /\ j.s \in Sessions /\ Typed /\ JobsTyped /\ FilesTyped /\ f \in Files
      /\ calls \in [Sessions -> 0..MaxCalls]
  BY FileOf DEF IInv, Typed, JobsTyped, JobOK, Jobs, CallsTyped
<1>2. /\ jobs' = Without(j) \cup {l}
      /\ Op(j)[2] = "write"
      /\ UNCHANGED <<armed, doomed, day, failures, calls, lastUse, overlapped, crowded,
                     stopping, count, timer, landed>>
  BY DEF Write, Performs, clockVars, Advance
<1>3. \/ /\ j.at = "tmp" /\ UNCHANGED final
         /\ \E c \in Over(f, tmp[f], DataOf(j)) : tmp' = [tmp EXCEPT ![f] = c]
      \/ /\ j.at = "final" /\ UNCHANGED tmp
         /\ \E c \in Over(f, final[f], DataOf(j)) : final' = [final EXCEPT ![f] = c]
      \/ j.at = "gone" /\ UNCHANGED <<tmp, final>>
  BY DEF Write, fileVars
<1> HIDE DEF f
<1>4. /\ JobOK(l) /\ l.kind = j.kind /\ l.s = j.s /\ l.call = j.call /\ l.pos = j.pos + 1
      /\ l.at = "none"
  <2>1. j.pos + 1 \in DOMAIN Program(j.kind) /\ j.pos + 1 \in 1..10
    BY <1>1, <1>2, GoesOn
  <2> QED
    BY <1>1, <2>1 DEF JobOK, Jobs
<1>5. Carries(j, Without(j))
  BY <1>1, Carried
<1> HIDE DEF l
<1>6. Running' => Running
  BY <1>2 DEF Running
<1>7. Typed'
  <2>1. JobsTyped'
    BY <1>1, <1>2, <1>4, <1>5, JobsStayTyped
  <2>2. FilesTyped'
    <3>1. tmp[f] \in ContentsOf(f) /\ final[f] \in ContentsOf(f)
      BY <1>1 DEF FilesTyped
    <3>2. /\ Over(f, tmp[f], DataOf(j)) \subseteq ContentsOf(f)
          /\ Over(f, final[f], DataOf(j)) \subseteq ContentsOf(f)
      BY <1>1, <3>1, OverTyped DEF f
    <3>3. \A c \in ContentsOf(f) : c \in Contents \cup IndexContents
      BY <1>1, ContentsUnion
    <3> QED
      BY <1>1, <1>3, <3>2, <3>3 DEF FilesTyped
  <2> QED
    BY <1>1, <1>2, <2>1, <2>2 DEF Typed, CallsTyped, RestTyped
<1>8. ASSUME NEW s \in Sessions \ overlapped, s # j.s
      PROVE  Safe(s)'
  <2>1. \A a \in {"meta", "messages"} :
            tmp'[<<s, a>>] = tmp[<<s, a>>] /\ final'[<<s, a>>] = final[<<s, a>>]
    <3>1. \A a \in {"meta", "messages"} : f # <<s, a>> /\ <<s, a>> \in Files
      BY <1>1, <1>8, NotTheirs DEF f
    <3> QED
      BY <1>1, <1>3, <3>1 DEF FilesTyped
  <2>2. Undisturbed(s)
    BY <1>2, <1>6, <2>1 DEF Undisturbed
  <2>3. SameJobs(s)
    BY <1>1, <1>2, <1>4, <1>5, <1>8, OthersJob
  <2> QED
    BY <1>8, <2>2, <2>3, Elsewhere DEF IInv
<1>9. ASSUME j.s \notin overlapped
      PROVE  Safe(j.s)'
  <2>1. Safe(j.s)
    BY <1>1, <1>9 DEF IInv
  <2>2. ASSUME f # Index
        PROVE  /\ j.kind # "delete" /\ j.pos \in {2, 5} /\ l.pos = j.pos + 1
               /\ UNCHANGED final /\ tmp'[f] = Whole(DataOf(j))
               /\ j.pos = 2 => f = <<j.s, "meta">>
               /\ j.pos = 5 => f = <<j.s, "messages">> /\ DataOf(j) = j.call
    <3>1. Op(j)[1] # "index"
      BY <1>1, <2>2, FileOf DEF f
    <3>2. j.kind # "delete"
      BY <1>1, <1>2, <3>1, DeleteOps
    <3>3. j.pos \in {2, 5}
      BY <1>1, <1>2, <3>1, <3>2, SaveOps
    <3>4. /\ j.pos = 2 => Op(j)[1] = "meta" /\ f = <<j.s, "meta">>
          /\ j.pos = 5 => Op(j)[1] = "messages" /\ f = <<j.s, "messages">>
      BY <1>1, <3>1, <3>2, SaveOps, FileOf DEF f
    <3>5. j.at = "tmp" /\ tmp[f] = Empty
      BY <2>1, <3>2, <3>3, <3>4 DEF Safe, Underway
    <3>6. Over(f, tmp[f], DataOf(j)) = {Whole(DataOf(j))}
      BY <3>5 DEF Over, Empty
    <3>7. UNCHANGED final /\ tmp' = [tmp EXCEPT ![f] = Whole(DataOf(j))]
      BY <1>3, <3>5, <3>6
    <3>8. tmp'[f] = Whole(DataOf(j))
      BY <1>1, <3>7 DEF FilesTyped
    <3>9. j.pos = 5 => DataOf(j) = j.call
      BY <3>4 DEF DataOf
    <3> QED
      BY <1>4, <3>2, <3>3, <3>4, <3>7, <3>8, <3>9
  <2>3. OnDisk(j.s)'
    <3>1. CASE f # Index
      BY <1>2, <2>1, <2>2, <3>1 DEF Safe, OnDisk, Messages
    <3>2. CASE f = Index
      <4>1. \A a \in {"meta", "messages"} : final'[<<j.s, a>>] = final[<<j.s, a>>]
        BY <1>1, <1>3, <3>2, FileNames DEF FilesTyped
      <4> QED
        BY <1>2, <2>1, <4>1 DEF Safe, OnDisk, Messages
    <3> QED
      BY <3>1, <3>2
  <2>4. ASSUME j.kind # "delete"
        PROVE  /\ l.pos = 2 => l.at = "tmp" /\ tmp'[<<j.s, "meta">>] = Empty
               /\ l.pos = 3 => IsWhole(tmp'[<<j.s, "meta">>])
               /\ l.pos = 5 => l.at = "tmp" /\ tmp'[<<j.s, "messages">>] = Empty
               /\ l.pos = 6 => tmp'[<<j.s, "messages">>] = Whole(l.call)
               /\ l.pos >= 7 => landed'[j.s] = calls[j.s]
    <3>1. j.pos \in {2, 5, 9} /\ j.pos \in 1..10
      BY <1>1, <1>2, <2>4, SaveOps
    <3>2. CASE j.pos = 9
      <4>1. landed[j.s] = calls[j.s]
        BY <2>1, <2>4, <3>2 DEF Safe, Underway
      <4> QED
        BY <1>2, <1>4, <3>2, <4>1
    <3>3. CASE j.pos \in {2, 5}
      <4>1. f # Index
        BY <1>1, <2>4, <3>3, SaveOps, FileOf DEF f
      <4> QED
        BY <1>4, <2>2, <3>3, <4>1 DEF IsWhole, Whole
    <3> QED
      BY <3>1, <3>2, <3>3
  <2> QED
    BY <1>1, <1>2, <1>4, <1>5, <1>6, <2>1, <2>3, <2>4, OwnStep
<1> QED
  BY <1>2, <1>7, <1>8, <1>9 DEF IInv

LEMMA ReadIndexKeeps ==
    ASSUME IInv, NEW j \in jobs, ReadIndex(j)
    PROVE  IInv'
<1> DEFINE c == final[Index]
           l == [j EXCEPT !.pos = @ + 1, !.idx = IF IsWhole(c) THEN c.data ELSE {}]
<1>1. JobOK(j) /\ j.s \in Sessions /\ Typed /\ JobsTyped /\ FilesTyped
  BY DEF IInv, Typed, JobsTyped, JobOK, Jobs
<1>2. /\ Op(j)[2] = "read"
      /\ UNCHANGED <<armed, doomed, day, failures, calls, lastUse, overlapped, crowded,
                     tmp, final, stopping, count, timer, landed>>
      /\ \/ (IsWhole(c) \/ j.kind # "delete") /\ jobs' = Without(j) \cup {l}
         \/ j.kind = "delete" /\ jobs' = Without(j)
  BY DEF ReadIndex, Performs, clockVars, fileVars
<1>3. JobOK(l) /\ l.kind = j.kind /\ l.s = j.s /\ l.call = j.call /\ l.pos = j.pos + 1
  <2>1. j.pos + 1 \in DOMAIN Program(j.kind) /\ j.pos + 1 \in 1..10
    BY <1>1, <1>2, GoesOn
  <2>2. c \in IndexContents
    BY <1>1, FileNames DEF FilesTyped, ContentsOf
  <2>3. IsWhole(c) => c.data \in SUBSET Entries
    BY <2>2 DEF IndexContents, IsWhole, Absent, Empty, Mixed, Entries
  <2> DEFINE i == IF IsWhole(c) THEN c.data ELSE {}
  <2>4. i \in SUBSET Entries
    BY <2>3
  <2>5. l = [j EXCEPT !.pos = @ + 1, !.idx = i]
    OBVIOUS
  <2> HIDE DEF i, l
  <2> QED
    BY <1>1, <2>1, <2>4, <2>5 DEF JobOK, Jobs
<1>4. Carries(j, Without(j))
  BY <1>1, Carried
<1> HIDE DEF l, c
<1>5. Running' => Running
  BY <1>2 DEF Running
<1>6. Typed'
  <2>1. JobsTyped'
    BY <1>1, <1>2, <1>3, <1>4, JobsStayTyped
  <2> QED
    BY <1>1, <1>2, <2>1 DEF Typed, CallsTyped, RestTyped, FilesTyped
<1>7. ASSUME NEW s \in Sessions \ overlapped, s # j.s
      PROVE  Safe(s)'
  <2>1. Undisturbed(s)
    BY <1>2, <1>5 DEF Undisturbed
  <2>2. SameJobs(s)
    BY <1>1, <1>2, <1>3, <1>4, <1>7, OthersJob
  <2> QED
    BY <1>7, <2>1, <2>2, Elsewhere DEF IInv
<1>8. ASSUME j.s \notin overlapped
      PROVE  Safe(j.s)'
  <2>1. Safe(j.s)
    BY <1>1, <1>8 DEF IInv
  <2>2. OnDisk(j.s)'
    BY <1>2, <2>1 DEF Safe, OnDisk, Messages
  <2>3. CASE jobs' = Without(j) \cup {l}
    <3>1. l.kind # "delete" => l.pos = 8 /\ landed'[j.s] = calls[j.s]
      <4>1. j.kind # "delete" => j.pos = 7
        BY <1>1, <1>2, SaveOps
      <4> QED
        BY <1>2, <1>3, <2>1, <4>1 DEF Safe, Underway
    <3>2. l.kind # "delete" =>
              /\ l.pos = 2 => l.at = "tmp" /\ tmp'[<<j.s, "meta">>] = Empty
              /\ l.pos = 3 => IsWhole(tmp'[<<j.s, "meta">>])
              /\ l.pos = 5 => l.at = "tmp" /\ tmp'[<<j.s, "messages">>] = Empty
              /\ l.pos = 6 => tmp'[<<j.s, "messages">>] = Whole(l.call)
              /\ l.pos >= 7 => landed'[j.s] = calls[j.s]
      BY <3>1
    <3> QED
      BY <1>1, <1>2, <1>3, <1>4, <1>5, <2>1, <2>2, <2>3, <3>2, OwnStep
  <2>4. CASE j.kind = "delete" /\ jobs' = Without(j)
    <3>1. NoSave(j.s)
      BY <2>1, <2>4 DEF Safe, OneJob, NoSave
    <3>2. (\A t \in armed : t.s # j.s) => Accounted(j.s)'
      BY <1>2, <1>5, <2>1, <3>1 DEF Safe, Accounted
    <3> QED
      BY <1>1, <1>2, <1>4, <2>1, <2>2, <2>4, <3>2, OwnEnd
  <2> QED
    BY <1>2, <2>3, <2>4
<1> QED
  BY <1>2, <1>6, <1>7, <1>8 DEF IInv

LEMMA UnlinkKeeps ==
    ASSUME IInv, NEW j \in jobs, Unlink(j)
    PROVE  IInv'
<1> DEFINE l == [j EXCEPT !.pos = @ + 1, !.at = "none"]
           T == Moved(j, "final", "gone")
<1>1. JobOK(j) /\ j.s \in Sessions /\ Typed /\ JobsTyped /\ FilesTyped
  BY DEF IInv, Typed, JobsTyped, JobOK, Jobs
<1>2. /\ jobs' = T \cup {l}
      /\ Op(j)[2] = "unlink"
      /\ final' = [final EXCEPT ![File(j)] = Absent]
      /\ UNCHANGED <<armed, doomed, day, failures, calls, lastUse, overlapped, crowded,
                     tmp, stopping, count, timer, landed>>
  BY DEF Unlink, Performs, clockVars, Advance
<1>3. /\ JobOK(l) /\ l.kind = j.kind /\ l.s = j.s /\ l.call = j.call
      /\ l.pos = j.pos + 1 /\ l.at = "none"
  <2>1. j.pos + 1 \in DOMAIN Program(j.kind) /\ j.pos + 1 \in 1..10
    BY <1>1, <1>2, GoesOn
  <2> QED
    BY <1>1, <2>1 DEF JobOK, Jobs
<1>4. Carries(j, T)
  BY <1>1, Carried
<1>5. j.kind = "delete" /\ File(j) \in Files
  BY <1>1, <1>2, SaveOps, FileOf
<1> HIDE DEF l, T
<1>6. Running' => Running
  BY <1>2 DEF Running
<1>7. Typed'
  <2>1. JobsTyped'
    BY <1>1, <1>2, <1>3, <1>4, JobsStayTyped
  <2>2. FilesTyped'
    <3>1. \A f \in Files : Absent \in ContentsOf(f)
      BY DEF ContentsOf, Contents, IndexContents
    <3> QED
      BY <1>1, <1>2, <3>1, ContentsUnion DEF FilesTyped
  <2> QED
    BY <1>1, <1>2, <2>1, <2>2 DEF Typed, CallsTyped, RestTyped
<1>8. ASSUME NEW s \in Sessions \ overlapped, s # j.s
      PROVE  Safe(s)'
  <2>1. \A a \in {"meta", "messages"} : final'[<<s, a>>] = final[<<s, a>>]
    BY <1>1, <1>2, <1>8, NotTheirs DEF FilesTyped
  <2>2. Undisturbed(s)
    BY <1>2, <1>6, <2>1 DEF Undisturbed
  <2>3. SameJobs(s)
    BY <1>1, <1>2, <1>3, <1>4, <1>8, OthersJob
  <2> QED
    BY <1>8, <2>2, <2>3, Elsewhere DEF IInv
<1>9. ASSUME j.s \notin overlapped
      PROVE  Safe(j.s)'
  <2>1. Safe(j.s)
    BY <1>1, <1>9 DEF IInv
  <2>2. OnDisk(j.s)'
    <3>1. \A f \in Files : final'[f] = final[f] \/ final'[f] = Absent
      BY <1>1, <1>2, <1>5 DEF FilesTyped
    <3>2. Absent.kind = "absent"
      BY DEF Absent
    <3> QED
      BY <1>1, <1>2, <2>1, <3>1, <3>2, FileNames DEF Safe, OnDisk, Messages
  <2> QED
    BY <1>1, <1>2, <1>3, <1>4, <1>5, <1>6, <2>1, <2>2, OwnStep
<1> QED
  BY <1>2, <1>7, <1>8, <1>9 DEF IInv

\* A job that ends early, at an operation that failed or behind the point where its
\* snapshot has landed.
LEMMA AbandonKeeps ==
    ASSUME IInv, NEW j \in jobs, Abandon(j), Running,
           UNCHANGED <<armed, tmp, final, doomed, day, calls, landed, lastUse, overlapped, crowded>>,
           failures' \in 0..MaxFailures, failures' = 0 => failures = 0,
           j.s \notin overlapped /\ j.kind # "delete" =>
               failures' # 0 \/ landed[j.s] = calls[j.s]
    PROVE  IInv'
<1>1. /\ JobOK(j) /\ j.s \in Sessions /\ Typed /\ JobsTyped /\ FilesTyped /\ RestTyped
  BY DEF IInv, Typed, JobsTyped, JobOK, Jobs
<1>2. /\ jobs' = Without(j) /\ UNCHANGED <<count, timer>>
      /\ stopping' = stopping \/ stopping' = [phase |-> "exited", left |-> {}]
  BY DEF Abandon
<1>3. Carries(j, Without(j))
  BY <1>1, Carried
<1>4. Typed'
  <2>1. JobsTyped'
    BY <1>1, <1>2, <1>3, JobsStayTyped
  <2>2. RestTyped'
    BY <1>1, <1>2 DEF RestTyped
  <2> QED
    BY <1>1, <1>2, <2>1, <2>2 DEF Typed, CallsTyped, FilesTyped
<1>5. ASSUME NEW s \in Sessions \ overlapped, s # j.s
      PROVE  Safe(s)'
  <2>1. Undisturbed(s)
    BY <1>2 DEF Undisturbed
  <2>2. SameJobs(s)
    BY <1>1, <1>2, <1>3, <1>5, OthersJob
  <2> QED
    BY <1>5, <2>1, <2>2, Elsewhere DEF IInv
<1>6. ASSUME j.s \notin overlapped
      PROVE  Safe(j.s)'
  <2>1. Safe(j.s)
    BY <1>1, <1>6 DEF IInv
  <2>2. OnDisk(j.s)'
    BY <2>1 DEF Safe, OnDisk, Messages
  <2>3. ASSUME \A t \in armed : t.s # j.s
        PROVE  Accounted(j.s)'
    <3>1. calls[j.s] \in Nat /\ landed[j.s] \in Nat /\ SaveEvery \in Nat \ {0}
      BY <1>1, PersistenceAssumption DEF Typed, CallsTyped
    <3>2. CASE j.kind = "delete"
      <4>1. NoSave(j.s)
        BY <2>1, <3>2 DEF Safe, OneJob, NoSave
      <4> QED
        BY <1>2, <2>1, <2>3, <4>1 DEF Safe, Accounted
    <3>3. CASE j.kind # "delete"
      BY <1>2, <1>6, <2>1, <3>1, <3>3 DEF Safe, Accounted
    <3> QED
      BY <3>2, <3>3
  <2> QED
    BY <1>1, <1>2, <1>3, <2>1, <2>2, <2>3, OwnEnd
<1> QED
  BY <1>4, <1>5, <1>6 DEF IInv

LEMMA FailsKeeps ==
    ASSUME IInv, NEW j \in jobs, Fails(j)
    PROVE  IInv'
<1>1. /\ JobOK(j) /\ j.s \in Sessions /\ Typed /\ JobsTyped /\ RestTyped
  BY DEF IInv, Typed, JobsTyped, JobOK, Jobs
<1>2. /\ Running /\ failures' = failures + 1
      /\ UNCHANGED <<armed, tmp, final, doomed, day, calls, landed, lastUse, overlapped, crowded>>
  BY DEF Fails, fileVars
<1>3. failures' \in 0..MaxFailures /\ failures' # 0
  BY <1>1, PersistenceAssumption DEF Fails, RestTyped
<1>4. CASE Op(j)[2] # "unlink"
  <2>1. Abandon(j)
    BY <1>4 DEF Fails
  <2> QED
    BY <1>2, <1>3, <2>1, AbandonKeeps
<1>5. CASE Op(j)[2] = "unlink"
  <2> DEFINE l == [j EXCEPT !.pos = 3]
  <2>1. /\ jobs' = Without(j) \cup {l}
        /\ UNCHANGED <<stopping, count, timer>>
    BY <1>5 DEF Fails
  <2>2. j.kind = "delete"
    BY <1>1, <1>5, SaveOps
  <2>3. JobOK(l) /\ l.kind = j.kind /\ l.s = j.s /\ l.call = j.call
    <3>1. 3 \in DOMAIN Program(j.kind)
      BY <2>2, Programs
    <3> QED
      BY <1>1, <3>1 DEF JobOK, Jobs
  <2>4. Carries(j, Without(j))
    BY <1>1, Carried
  <2> HIDE DEF l
  <2>5. Running' => Running
    BY <2>1 DEF Running
  <2>6. Typed'
    <3>1. JobsTyped'
      BY <1>1, <1>2, <2>1, <2>3, <2>4, JobsStayTyped
    <3> QED
      BY <1>1, <1>2, <1>3, <2>1, <3>1 DEF Typed, CallsTyped, RestTyped, FilesTyped
  <2>7. ASSUME NEW s \in Sessions \ overlapped, s # j.s
        PROVE  Safe(s)'
    <3>1. Undisturbed(s)
      BY <1>2, <1>3, <2>1, <2>5 DEF Undisturbed
    <3>2. SameJobs(s)
      BY <1>1, <2>1, <2>3, <2>4, <2>7, OthersJob
    <3> QED
      BY <2>7, <3>1, <3>2, Elsewhere DEF IInv
  <2>8. ASSUME j.s \notin overlapped
        PROVE  Safe(j.s)'
    <3>1. Safe(j.s)
      BY <1>1, <2>8 DEF IInv
    <3>2. OnDisk(j.s)'
      BY <1>2, <3>1 DEF Safe, OnDisk, Messages
    <3> QED
      BY <1>1, <1>2, <1>3, <2>1, <2>2, <2>3, <2>4, <2>5, <3>1, <3>2, OwnStep
  <2> QED
    BY <1>2, <2>6, <2>7, <2>8 DEF IInv
<1> QED
  BY <1>4, <1>5

\* The temporary file replaces the final one.
Replaces(j) ==
    /\ Running /\ Op(j)[2] = "rename" /\ tmp[File(j)] # Absent
    /\ final' = [final EXCEPT ![File(j)] = tmp[File(j)]]
    /\ tmp' = [tmp EXCEPT ![File(j)] = Absent]
    /\ landed' = IF Op(j)[1] = "messages" THEN [landed EXCEPT ![j.s] = j.call] ELSE landed
    /\ UNCHANGED <<stopping, armed, doomed, day, failures, calls, lastUse, overlapped, crowded>>

\* What the rename of a file keeps, for every session but the job's.
LEMMA ReplacesElsewhere ==
    ASSUME IInv, NEW j \in jobs, Replaces(j), NEW s \in Sessions, s # j.s,
           count'[s] = count[s], timer'[s] = timer[s]
    PROVE  Undisturbed(s)
<1>1. JobOK(j) /\ j.s \in Sessions /\ Typed
  BY DEF IInv, Typed, JobsTyped, JobOK, Jobs
<1>2. \A a \in {"meta", "messages"} :
          tmp'[<<s, a>>] = tmp[<<s, a>>] /\ final'[<<s, a>>] = final[<<s, a>>]
  <2>1. \A a \in {"meta", "messages"} : File(j) # <<s, a>> /\ <<s, a>> \in Files
    BY <1>1, NotTheirs
  <2> QED
    BY <1>1, <2>1 DEF Replaces, Typed, FilesTyped
<1>3. landed'[s] = landed[s]
  BY <1>1 DEF Replaces, Typed, CallsTyped
<1>4. Running' => Running
  BY DEF Replaces, Running
<1> QED
  BY <1>2, <1>3, <1>4 DEF Undisturbed, Replaces

LEMMA ReplacesTyped ==
    ASSUME IInv, NEW j \in jobs, Replaces(j), JobsTyped',
           count' \in [Sessions -> Nat], timer' \in [Sessions -> 0..MaxCalls]
    PROVE  Typed'
<1>1. /\ JobOK(j) /\ j.s \in Sessions /\ File(j) \in Files
      /\ CallsTyped /\ FilesTyped /\ RestTyped
  BY FileOf DEF IInv, Typed, JobsTyped, JobOK, Jobs
<1>2. FilesTyped'
  <2>1. \A f \in Files : Absent \in ContentsOf(f)
    BY DEF ContentsOf, Contents, IndexContents
  <2> QED
    BY <1>1, <2>1, ContentsUnion DEF FilesTyped, Replaces
<1>3. CallsTyped'
  <2>1. j.call \in Nat /\ j.call <= calls[j.s]
    BY <1>1 DEF JobOK, Jobs
  <2>2. landed' \in [Sessions -> Nat] /\ \A s \in Sessions : landed'[s] <= calls[s]
    BY <1>1, <2>1 DEF CallsTyped, Replaces
  <2> QED
    BY <1>1, <2>2 DEF CallsTyped, Replaces
<1>4. RestTyped'
  BY <1>1 DEF RestTyped, Replaces
<1> QED
  BY <1>2, <1>3, <1>4 DEF Typed

\* And for the job's session: its files stay whole, and no call lands later than
\* the messages.
LEMMA ReplacesOwn ==
    ASSUME IInv, NEW j \in jobs, Replaces(j), j.s \notin overlapped
    PROVE  /\ OnDisk(j.s)'
           /\ File(j) # Index => j.kind # "delete" /\ j.pos \in {3, 6}
           /\ landed'[j.s] = landed[j.s] \/ (j.kind # "delete" /\ landed'[j.s] = calls[j.s])
           /\ j.kind # "delete" /\ j.pos \in {6, 10} => landed'[j.s] = calls[j.s]
<1> DEFINE s == j.s
<1>1. JobOK(j) /\ s \in Sessions /\ Typed /\ Safe(s)
  BY DEF IInv, Typed, JobsTyped, JobOK, Jobs
<1>2. /\ <<s, "meta">> \in Files /\ <<s, "messages">> \in Files
      /\ <<s, "meta">> # Index /\ <<s, "messages">> # Index
      /\ <<s, "meta">> # <<s, "messages">>
  BY <1>1, FileNames
<1>3. File(j) \in Files /\ final \in [Files -> Contents \cup IndexContents] /\ landed \in [Sessions -> Nat]
  BY <1>1, FileOf DEF Typed, FilesTyped, CallsTyped
<1>4. CASE File(j) = Index
  <2>1. Op(j)[1] = "index"
    BY <1>1, <1>4, FileOf
  <2>2. landed' = landed
    BY <2>1 DEF Replaces
  <2>3. \A a \in {"meta", "messages"} : final'[<<s, a>>] = final[<<s, a>>]
    BY <1>2, <1>3, <1>4 DEF Replaces
  <2>4. OnDisk(s)'
    BY <1>1, <2>2, <2>3 DEF Safe, OnDisk, Messages
  <2>5. j.kind # "delete" => j.pos >= 7
    BY <1>1, <2>1, SaveOps
  <2>6. j.kind # "delete" => landed[s] = calls[s]
    BY <1>1, <2>5 DEF Safe, Underway
  <2> QED
    BY <1>4, <2>2, <2>4, <2>6
<1>5. CASE File(j) # Index
  <2>1. Op(j)[1] # "index" /\ Op(j)[2] = "rename"
    BY <1>1, <1>5, FileOf DEF Replaces
  <2>2. j.kind # "delete"
    BY <1>1, <2>1, DeleteOps
  <2>3. j.pos \in {3, 6}
    BY <1>1, <2>1, <2>2, SaveOps
  <2>4. CASE j.pos = 3
    <3>1. Op(j)[1] = "meta" /\ File(j) = <<s, "meta">>
      BY <1>1, <2>1, <2>2, <2>4, SaveOps, FileOf
    <3>2. IsWhole(tmp[<<s, "meta">>])
      BY <1>1, <2>2, <2>4 DEF Safe, Underway
    <3>3. landed' = landed /\ final'[<<s, "messages">>] = final[<<s, "messages">>]
      BY <1>2, <1>3, <3>1 DEF Replaces
    <3>4. final'[<<s, "meta">>].kind = "whole"
      BY <1>2, <1>3, <3>1, <3>2 DEF Replaces, IsWhole
    <3>5. OnDisk(s)'
      BY <1>1, <3>3, <3>4 DEF Safe, OnDisk, Messages
    <3> QED
      BY <2>2, <2>4, <3>3, <3>5
  <2>5. CASE j.pos = 6
    <3>1. Op(j)[1] = "messages" /\ File(j) = <<s, "messages">>
      BY <1>1, <2>1, <2>2, <2>5, SaveOps, FileOf
    <3>2. tmp[<<s, "messages">>] = Whole(j.call) /\ j.call = calls[s]
      BY <1>1, <2>2, <2>5 DEF Safe, Underway
    <3>3. landed'[s] = j.call /\ final'[<<s, "meta">>] = final[<<s, "meta">>]
      BY <1>1, <1>2, <1>3, <3>1 DEF Replaces
    <3>4. final'[<<s, "messages">>] = Whole(j.call)
      BY <1>2, <1>3, <3>1, <3>2 DEF Replaces
    <3>5. OnDisk(s)'
      BY <1>1, <3>3, <3>4 DEF Safe, OnDisk, Messages
    <3> QED
      BY <2>2, <2>5, <3>2, <3>3, <3>5
  <2> QED
    BY <2>3, <2>4, <2>5
<1> QED
  BY <1>4, <1>5

LEMMA RenameKeeps ==
    ASSUME IInv, NEW j \in jobs, Rename(j)
    PROVE  IInv'
<1>1. JobOK(j) /\ j.s \in Sessions /\ Typed /\ JobsTyped /\ CallsTyped
  BY DEF IInv, Typed, JobsTyped, JobOK, Jobs
<1>2. /\ Running /\ Op(j)[2] = "rename"
      /\ UNCHANGED <<armed, doomed, day, failures, calls, lastUse, overlapped, crowded>>
  BY DEF Rename, Performs, clockVars
<1>3. CASE tmp[File(j)] = Absent
  <2>1. Abandon(j) /\ UNCHANGED <<tmp, final, landed>>
    BY <1>3 DEF Rename, fileVars
  <2>2. failures' \in 0..MaxFailures
    BY <1>1, <1>2 DEF Typed, RestTyped
  <2>3. ASSUME j.s \notin overlapped, j.kind # "delete"
        PROVE  landed[j.s] = calls[j.s]
    <3>1. Safe(j.s)
      BY <1>1, <2>3 DEF IInv
    <3>2. j.pos \in {3, 6, 10}
      BY <1>1, <1>2, <2>3, SaveOps
    <3>3. j.pos # 3
      <4>1. j.pos = 3 => File(j) = <<j.s, "meta">>
        BY <1>1, <2>3, SaveOps, FileOf
      <4> QED
        BY <1>3, <2>3, <3>1, <4>1 DEF Safe, Underway, IsWhole, Absent
    <3>4. j.pos # 6
      <4>1. j.pos = 6 => File(j) = <<j.s, "messages">>
        BY <1>1, <2>3, SaveOps, FileOf
      <4>2. Whole(j.call).kind # Absent.kind
        BY DEF Whole, Absent
      <4> QED
        BY <1>3, <2>3, <3>1, <4>1, <4>2 DEF Safe, Underway
    <3> QED
      BY <2>3, <3>1, <3>2, <3>3, <3>4 DEF Safe, Underway
  <2> QED
    BY <1>2, <2>1, <2>2, <2>3, AbandonKeeps
<1>4. ASSUME tmp[File(j)] # Absent
      PROVE  /\ Replaces(j)
             /\ \/ /\ File(j) # Index /\ UNCHANGED <<count, timer>>
                   /\ jobs' = Renamed(j) \cup {[j EXCEPT !.pos = @ + 1, !.at = "none"]}
                \/ File(j) = Index /\ jobs' = Renamed(j) /\ Settle(j)
  BY <1>2, <1>4 DEF Rename, Replaces, Advance
<1>5. Carries(j, Renamed(j))
  BY <1>1, Carried
<1>6. CASE Replaces(j) /\ File(j) # Index
  <2> DEFINE l == [j EXCEPT !.pos = @ + 1, !.at = "none"]
  <2>1. jobs' = Renamed(j) \cup {l} /\ UNCHANGED <<count, timer>>
    BY <1>4, <1>6 DEF Replaces
  <2>2. JobOK(l) /\ l.kind = j.kind /\ l.s = j.s /\ l.call = j.call /\ l.pos = j.pos + 1
    <3>1. Op(j)[1] # "index"
      BY <1>1, <1>6, FileOf
    <3>2. j.pos + 1 \in DOMAIN Program(j.kind) /\ j.pos + 1 \in 1..10
      BY <1>1, <3>1, GoesOn
    <3> QED
      BY <1>1, <3>2 DEF JobOK, Jobs
  <2> HIDE DEF l
  <2>3. JobsTyped'
    BY <1>1, <1>2, <1>5, <2>1, <2>2, JobsStayTyped
  <2>4. Typed'
    BY <1>1, <1>6, <2>1, <2>3, ReplacesTyped DEF CallsTyped
  <2>5. ASSUME NEW s \in Sessions \ overlapped, s # j.s
        PROVE  Safe(s)'
    <3>1. Undisturbed(s)
      BY <1>6, <2>1, <2>5, ReplacesElsewhere
    <3>2. SameJobs(s)
      BY <1>1, <1>5, <2>1, <2>2, <2>5, OthersJob
    <3> QED
      BY <2>5, <3>1, <3>2, Elsewhere DEF IInv
  <2>6. ASSUME j.s \notin overlapped
        PROVE  Safe(j.s)'
    <3>1. Safe(j.s)
      BY <1>1, <2>6 DEF IInv
    <3>2. /\ OnDisk(j.s)' /\ j.kind # "delete" /\ j.pos \in {3, 6}
          /\ landed'[j.s] = landed[j.s] \/ (j.kind # "delete" /\ landed'[j.s] = calls[j.s])
          /\ j.pos = 6 => landed'[j.s] = calls[j.s]
      BY <1>6, <2>6, ReplacesOwn
    <3>3. /\ l.pos = 2 => l.at = "tmp" /\ tmp'[<<j.s, "meta">>] = Empty
          /\ l.pos = 3 => IsWhole(tmp'[<<j.s, "meta">>])
          /\ l.pos = 5 => l.at = "tmp" /\ tmp'[<<j.s, "messages">>] = Empty
          /\ l.pos = 6 => tmp'[<<j.s, "messages">>] = Whole(l.call)
          /\ l.pos >= 7 => landed'[j.s] = calls[j.s]
      BY <2>2, <3>2
    <3>4. Running' => Running
      BY <1>2
    <3> QED
      BY <1>1, <1>2, <1>5, <2>1, <2>2, <3>1, <3>2, <3>3, <3>4, OwnStep
  <2> QED
    BY <1>2, <2>4, <2>5, <2>6 DEF IInv
<1>7. CASE Replaces(j) /\ File(j) = Index
  <2>1. jobs' = Renamed(j) /\ Settle(j)
    BY <1>4, <1>7 DEF Replaces
  <2>2. /\ count' \in [Sessions -> Nat] /\ timer' \in [Sessions -> 0..MaxCalls]
        /\ \A s \in Sessions : s # j.s => count'[s] = count[s] /\ timer'[s] = timer[s]
    BY <1>1, <2>1, PersistenceAssumption DEF Settle, CallsTyped
  <2>3. JobsTyped'
    BY <1>1, <1>2, <1>5, <2>1, JobsStayTyped
  <2>4. Typed'
    BY <1>7, <2>2, <2>3, ReplacesTyped
  <2>5. ASSUME NEW s \in Sessions \ overlapped, s # j.s
        PROVE  Safe(s)'
    <3>1. Undisturbed(s)
      BY <1>7, <2>2, <2>5, ReplacesElsewhere
    <3>2. SameJobs(s)
      BY <1>1, <1>5, <2>1, <2>5, OthersJob
    <3> QED
      BY <2>5, <3>1, <3>2, Elsewhere DEF IInv
  <2>6. ASSUME j.s \notin overlapped
        PROVE  Safe(j.s)'
    <3>1. Safe(j.s)
      BY <1>1, <2>6 DEF IInv
    <3>2. OnDisk(j.s)'
      BY <1>7, <2>6, ReplacesOwn
    <3>3. /\ calls[j.s] \in Nat /\ landed[j.s] \in Nat /\ SaveEvery \in Nat \ {0}
          /\ Op(j)[1] = "index" /\ landed' = landed
      BY <1>1, <1>7, FileOf, PersistenceAssumption DEF CallsTyped, Replaces
    <3>4. CASE j.kind = "delete"
      <4>1. NoSave(j.s)
        BY <3>1, <3>4 DEF Safe, OneJob, NoSave
      <4>2. UNCHANGED <<count, timer>> /\ (Running' => Running)
        BY <1>2, <2>1, <3>4 DEF Settle
      <4>3. (\A t \in armed : t.s # j.s) => Accounted(j.s)'
        BY <1>2, <3>1, <3>3, <4>1, <4>2 DEF Safe, Accounted
      <4> QED
        BY <1>1, <1>2, <1>5, <2>1, <3>1, <3>2, <4>3, OwnEnd
    <3>5. CASE j.kind # "delete"
      <4>1. j.pos = 10
        BY <1>1, <1>2, <3>3, <3>5, SaveOps
      <4>2. landed'[j.s] = calls[j.s]
        BY <1>7, <2>6, <3>5, <4>1, ReplacesOwn
      <4>3. count'[j.s] \in Nat
        BY <1>1, <2>2
      <4>4. Accounted(j.s)'
        BY <1>2, <3>3, <4>2, <4>3 DEF Accounted
      <4> QED
        BY <1>1, <1>2, <1>5, <2>1, <3>1, <3>2, <4>4, OwnEnd
    <3> QED
      BY <3>4, <3>5
  <2> QED
    BY <1>2, <2>4, <2>5, <2>6 DEF IInv
<1> QED
  BY <1>3, <1>4, <1>6, <1>7

-----------------------------------------------------------------------------
(* Who saves and deletes. *)

LEMMA NewJobOK ==
    ASSUME NEW kind \in Kinds, NEW s \in Sessions, NEW call \in 0..MaxCalls,
           call <= calls[s], kind # "delete" => call >= 1
    PROVE  /\ JobOK(NewJob(kind, s, call))
           /\ NewJob(kind, s, call).kind = kind /\ NewJob(kind, s, call).s = s
           /\ NewJob(kind, s, call).call = call /\ NewJob(kind, s, call).pos = 1
<1>1. 1 \in DOMAIN Program(kind)
  BY Programs DEF Kinds
<1> QED
  BY <1>1 DEF JobOK, Jobs, NewJob

\* A job that begins changes nothing for another session.
LEMMA BeginsElsewhere ==
    ASSUME NEW s \in Sessions, NEW l, l.s # s, jobs' = jobs \/ jobs' = jobs \cup {l}
    PROVE  SameJobs(s)
BY DEF SameJobs, OneJob

LEMMA SaveKeeps ==
    ASSUME IInv, NEW s \in Sessions, NEW kind \in {"call", "stop"}, Save(s, kind),
           Running,
           stopping' \in [phase : {"no", "saving", "saved", "exited"}, left : SUBSET Sessions]
    PROVE  IInv'
<1>1. /\ Typed /\ CallsTyped /\ JobsTyped /\ RestTyped
      /\ calls[s] \in Nat /\ count[s] \in Nat /\ landed[s] \in Nat /\ landed[s] <= calls[s]
      /\ MaxCalls \in Nat /\ SaveEvery \in Nat \ {0}
  BY PersistenceAssumption DEF IInv, Typed, CallsTyped
<1> PICK call \in 1..MaxCalls : call = calls[s] + 1
  BY <1>1 DEF Save
<1> DEFINE l == NewJob(kind, s, call)
<1>2. /\ calls' = [calls EXCEPT ![s] = call]
      /\ lastUse' = [lastUse EXCEPT ![s] = day]
      /\ count' = [count EXCEPT ![s] = @ + 1]
      /\ overlapped' = overlapped \cup {k \in {s} : JobsOf(k) # {}}
      /\ UNCHANGED <<tmp, final, doomed, day, failures, landed>>
  BY DEF Save, fileVars, clockVars
<1>3. \/ /\ armed' = Cancel(s) /\ jobs' = jobs \cup {l} /\ UNCHANGED timer
         /\ crowded' = (crowded \/ jobs # {})
      \/ /\ ~Due(count'[s])
         /\ armed' = SetTimer(Cancel(s), s, call)
         /\ timer' = [timer EXCEPT ![s] = call]
         /\ UNCHANGED <<jobs, crowded>>
  BY DEF Save, Begin
<1>4. calls'[s] = call /\ count'[s] = count[s] + 1 /\ calls' \in [Sessions -> 0..MaxCalls]
      /\ \A r \in Sessions : calls[r] <= calls'[r]
  BY <1>1, <1>2 DEF CallsTyped
<1>5. JobOK(l)' /\ l.kind = kind /\ l.s = s /\ l.call = call /\ l.pos = 1
  <2>1. 1 \in DOMAIN Program(kind)
    BY Programs
  <2> QED
    BY <1>1, <1>2, <1>4, <2>1 DEF JobOK, Jobs, NewJob, Kinds
<1> HIDE DEF l
<1>6. \A t \in armed' : \/ t \in armed /\ ~(t.s = s /\ t.call = timer[s])
                        \/ t = [s |-> s, call |-> call]
  BY <1>3 DEF Cancel, SetTimer
<1>7. \A t \in armed : t.s # s => t \in armed'
  BY <1>3 DEF Cancel, SetTimer
<1>8. Typed'
  <2>1. JobsTyped'
    <3> SUFFICES ASSUME NEW k \in jobs' PROVE JobOK(k)'
      BY DEF JobsTyped
    <3>1. CASE k \in jobs
      <4>1. JobOK(k) /\ k.s \in Sessions /\ k.call \in Nat /\ calls[k.s] \in Nat
        BY <1>1, <3>1 DEF JobsTyped, JobOK, Jobs, CallsTyped
      <4>2. calls[k.s] <= calls'[k.s] /\ calls'[k.s] \in Nat
        BY <1>4, <4>1
      <4> QED
        BY <4>1, <4>2 DEF JobOK
    <3> QED
      BY <1>3, <1>5, <3>1
  <2>2. CallsTyped'
    <3>1. \A t \in armed' : t \in [s : Sessions, call : 1..MaxCalls] /\ t.call <= calls'[t.s]
      <4> SUFFICES ASSUME NEW t \in armed'
                   PROVE  t \in [s : Sessions, call : 1..MaxCalls] /\ t.call <= calls'[t.s]
        OBVIOUS
      <4>1. CASE t \in armed
        <5>1. t \in [s : Sessions, call : 1..MaxCalls] /\ t.call <= calls[t.s]
          BY <1>1, <4>1 DEF CallsTyped
        <5>2. t.s \in Sessions /\ t.call \in Nat /\ calls[t.s] \in Nat /\ calls'[t.s] \in Nat
          BY <1>1, <1>4, <5>1 DEF CallsTyped
        <5> QED
          BY <1>4, <5>1, <5>2
      <4>2. CASE t = [s |-> s, call |-> call]
        BY <1>2, <1>4, <4>2
      <4> QED
        BY <1>6, <4>1, <4>2
    <3>2. count' \in [Sessions -> Nat] /\ timer' \in [Sessions -> 0..MaxCalls]
      BY <1>1, <1>2, <1>3 DEF CallsTyped
    <3>3. \A r \in Sessions : landed[r] <= calls'[r]
      BY <1>1, <1>4 DEF CallsTyped
    <3>4. armed' \subseteq [s : Sessions, call : 1..MaxCalls]
      BY <3>1
    <3>5. landed' \in [Sessions -> Nat] /\ \A r \in Sessions : landed'[r] <= calls'[r]
      BY <1>1, <1>2, <3>3 DEF CallsTyped
    <3> QED
      BY <1>4, <3>1, <3>2, <3>4, <3>5 DEF CallsTyped
  <2>3. RestTyped'
    BY <1>1, <1>2, <1>3 DEF RestTyped
  <2>4. FilesTyped'
    BY <1>1, <1>2 DEF Typed, FilesTyped
  <2> QED
    BY <2>1, <2>2, <2>3, <2>4 DEF Typed
<1>9. ASSUME NEW r \in Sessions \ overlapped, r # s
      PROVE  Safe(r)'
  <2>1. calls'[r] = calls[r] /\ count'[r] = count[r] /\ timer'[r] = timer[r]
    BY <1>1, <1>2, <1>3, <1>9 DEF CallsTyped
  <2>2. \A t \in armed' : t.s = r => t \in armed
    BY <1>6, <1>9
  <2>3. Undisturbed(r)
    BY <1>2, <1>7, <1>9, <2>1, <2>2 DEF Undisturbed
  <2>4. SameJobs(r)
    BY <1>3, <1>5, <1>9, BeginsElsewhere
  <2> QED
    BY <1>9, <2>3, <2>4, Elsewhere DEF IInv
<1>10. ASSUME s \notin overlapped'
       PROVE  Safe(s)'
  <2>1. s \notin overlapped /\ Safe(s) /\ \A k \in jobs : k.s # s
    BY <1>2, <1>10 DEF JobsOf, IInv
  <2>2. OneJob(s)'
    BY <1>3, <2>1 DEF OneJob
  <2>3. \A t \in armed' : t.s = s => t = [s |-> s, call |-> call]
    BY <1>6, <2>1 DEF Safe, OneTimer
  <2>4. OnDisk(s)'
    BY <1>2, <2>1 DEF Safe, OnDisk, Messages
  <2>5. calls'[s] <= landed'[s] + count'[s]
    BY <1>1, <1>2, <1>4, <2>1 DEF Safe, Accounted
  <2>6. CASE jobs' = jobs \cup {l} /\ armed' = Cancel(s)
    <3>1. \A t \in armed' : t.s # s
      BY <2>1, <2>6 DEF Safe, OneTimer, Cancel
    <3>2. OneTimer(s)'
      BY <3>1 DEF OneTimer
    <3>3. Underway(s)'
      BY <1>4, <1>5, <2>1, <2>6 DEF Underway
    <3>4. ~NoSave(s)'
      BY <1>5, <2>6 DEF NoSave
    <3> QED
      BY <2>2, <2>4, <2>5, <3>2, <3>3, <3>4 DEF Safe, Accounted
  <2>7. CASE /\ ~Due(count'[s])
             /\ armed' = SetTimer(Cancel(s), s, call)
             /\ timer' = [timer EXCEPT ![s] = call]
             /\ UNCHANGED <<jobs, crowded>>
    <3>1. timer'[s] = call /\ [s |-> s, call |-> call] \in armed'
      BY <1>1, <2>7 DEF CallsTyped, SetTimer
    <3>2. OneTimer(s)'
      BY <1>4, <2>1, <2>3, <2>7, <3>1 DEF OneTimer
    <3>3. Underway(s)'
      BY <2>1, <2>7 DEF Underway
    <3>4. count'[s] < SaveEvery
      BY <1>1, <1>4, <2>7 DEF Due
    <3>5. calls'[s] < landed'[s] + SaveEvery
      BY <1>1, <1>2, <1>4, <2>5, <3>4
    <3>6. ~(\A t \in armed' : t.s # s)
      BY <3>1
    <3> QED
      BY <2>2, <2>4, <2>5, <3>2, <3>3, <3>5, <3>6 DEF Safe, Accounted
  <2> QED
    BY <1>3, <2>6, <2>7
<1> QED
  BY <1>2, <1>8, <1>9, <1>10 DEF IInv

LEMMA FireKeeps ==
    ASSUME IInv, NEW t \in armed, Fire(t)
    PROVE  IInv'
<1> DEFINE l == NewJob("timer", t.s, t.call)
<1>1. /\ Typed /\ CallsTyped /\ JobsTyped
      /\ t \in [s : Sessions, call : 1..MaxCalls] /\ t.call <= calls[t.s]
  BY DEF IInv, Typed, CallsTyped
<1>2. /\ armed' = armed \ {t}
      /\ jobs' = jobs \cup {l} /\ crowded' = (crowded \/ jobs # {})
      /\ overlapped' = overlapped \cup {k \in {t.s} : JobsOf(k) # {}}
      /\ UNCHANGED <<count, timer, tmp, final, doomed, stopping, day, failures,
                     calls, landed, lastUse>>
  BY DEF Fire, Begin, fileVars, clockVars
<1>3. JobOK(l) /\ l.kind = "timer" /\ l.s = t.s /\ l.call = t.call /\ l.pos = 1
  <2>1. "timer" \in Kinds /\ t.s \in Sessions /\ t.call \in 0..MaxCalls /\ t.call >= 1
    BY <1>1, PersistenceAssumption DEF Kinds
  <2> QED
    BY <1>1, <2>1, NewJobOK
<1> HIDE DEF l
<1>4. Typed'
  <2>1. JobsTyped'
    BY <1>1, <1>2, <1>3 DEF JobsTyped, JobOK
  <2> QED
    BY <1>1, <1>2, <2>1 DEF Typed, CallsTyped, RestTyped, FilesTyped
<1>5. Running' => Running
  BY <1>2 DEF Running
<1>6. ASSUME NEW r \in Sessions \ overlapped, r # t.s
      PROVE  Safe(r)'
  <2>1. Undisturbed(r)
    BY <1>2, <1>5, <1>6 DEF Undisturbed
  <2>2. SameJobs(r)
    BY <1>2, <1>3, <1>6, BeginsElsewhere
  <2> QED
    BY <1>6, <2>1, <2>2, Elsewhere DEF IInv
<1>7. ASSUME t.s \notin overlapped'
      PROVE  Safe(t.s)'
  <2>1. t.s \notin overlapped /\ Safe(t.s) /\ \A k \in jobs : k.s # t.s
    BY <1>1, <1>2, <1>7 DEF JobsOf, IInv
  <2>2. t.call = timer[t.s] /\ t.call = calls[t.s]
    BY <2>1 DEF Safe, OneTimer
  <2>3. \A u \in armed' : u.s # t.s
    <3> SUFFICES ASSUME NEW u \in armed, u.s = t.s PROVE u = t
      BY <1>2
    <3>1. u.call = timer[t.s] /\ u \in [s : Sessions, call : 1..MaxCalls]
      BY <1>1, <2>1 DEF Safe, OneTimer, CallsTyped
    <3> QED
      BY <1>1, <2>2, <3>1
  <2>4. OneTimer(t.s)'
    BY <2>3 DEF OneTimer
  <2>5. OneJob(t.s)' /\ Underway(t.s)'
    BY <1>2, <1>3, <2>1, <2>2 DEF OneJob, Underway
  <2>6. OnDisk(t.s)'
    BY <1>2, <2>1 DEF Safe, OnDisk, Messages
  <2>7. ~NoSave(t.s)'
    BY <1>2, <1>3 DEF NoSave
  <2>8. Accounted(t.s)'
    BY <1>2, <2>1, <2>7 DEF Safe, Accounted
  <2> QED
    BY <2>4, <2>5, <2>6, <2>8 DEF Safe
<1> QED
  BY <1>2, <1>4, <1>6, <1>7 DEF IInv

LEMMA DeleteNextKeeps ==
    ASSUME IInv, NEW s \in Sessions, DeleteNext(s)
    PROVE  IInv'
<1> DEFINE l == NewJob("delete", s, 0)
<1>1. Typed /\ CallsTyped /\ JobsTyped
  BY DEF IInv, Typed
<1>2. /\ doomed' = doomed \ {s}
      /\ jobs' = jobs \cup {l} /\ crowded' = (crowded \/ jobs # {})
      /\ overlapped' = overlapped \cup {k \in {s} : JobsOf(k) # {} \/ \E t \in armed : t.s = k}
      /\ UNCHANGED <<count, timer, armed, tmp, final, stopping, day, failures,
                     calls, landed, lastUse>>
  BY DEF DeleteNext, Begin, storeVars, fileVars, clockVars
<1>3. JobOK(l) /\ l.kind = "delete" /\ l.s = s
  <2>1. "delete" \in Kinds /\ 0 \in 0..MaxCalls /\ 0 <= calls[s]
    BY <1>1, PersistenceAssumption DEF Kinds, CallsTyped
  <2> QED
    BY <2>1, NewJobOK
<1> HIDE DEF l
<1>4. Typed'
  <2>1. JobsTyped'
    BY <1>1, <1>2, <1>3 DEF JobsTyped, JobOK
  <2> QED
    BY <1>1, <1>2, <2>1 DEF Typed, CallsTyped, RestTyped, FilesTyped
<1>5. Running' => Running
  BY <1>2 DEF Running
<1>6. ASSUME NEW r \in Sessions \ overlapped, r # s
      PROVE  Safe(r)'
  <2>1. Undisturbed(r)
    BY <1>2, <1>5, <1>6 DEF Undisturbed
  <2>2. SameJobs(r)
    BY <1>2, <1>3, <1>6, BeginsElsewhere
  <2> QED
    BY <1>6, <2>1, <2>2, Elsewhere DEF IInv
<1>7. ASSUME s \notin overlapped'
      PROVE  Safe(s)'
  <2>1. /\ s \notin overlapped /\ Safe(s)
        /\ \A k \in jobs : k.s # s
        /\ \A t \in armed : t.s # s
    BY <1>2, <1>7 DEF JobsOf, IInv
  <2>2. OneJob(s)' /\ OneTimer(s)' /\ Underway(s)'
    BY <1>2, <1>3, <2>1 DEF OneJob, OneTimer, Underway
  <2>3. OnDisk(s)'
    BY <1>2, <2>1 DEF Safe, OnDisk, Messages
  <2>4. NoSave(s)
    BY <2>1 DEF NoSave
  <2>5. Accounted(s)'
    BY <1>2, <1>5, <2>1, <2>4 DEF Safe, Accounted
  <2> QED
    BY <2>2, <2>3, <2>5 DEF Safe
<1> QED
  BY <1>2, <1>4, <1>6, <1>7 DEF IInv

\* The sessions listSessions() names are known.
LEMMA ListedTyped ==
    ASSUME FilesTyped
    PROVE  Listed \subseteq Sessions
<1>1. final[Index] \in IndexContents
  BY FileNames DEF FilesTyped, ContentsOf, Files
<1>2. final[Index].kind = "whole" => final[Index].data \subseteq [s : Sessions, n : 1..MaxCalls]
  BY <1>1 DEF IndexContents, Absent, Empty, Mixed
<1> QED
  BY <1>2 DEF Listed

\* The steps that touch neither the disk nor what is accounted for.
LEMMA IdleKeeps ==
    ASSUME IInv, Cleanup \/ NextDay \/ Shutdown \/ UNCHANGED vars
    PROVE  IInv'
<1>1. Typed /\ CallsTyped /\ JobsTyped /\ FilesTyped /\ RestTyped
  BY DEF IInv, Typed
<1>2. /\ UNCHANGED <<count, timer, armed, jobs, tmp, final, failures,
                     calls, landed, lastUse, overlapped, crowded>>
      /\ Running' => Running
  BY DEF Cleanup, NextDay, Shutdown, vars, storeVars, fileVars, clockVars, Running
<1>3. RestTyped'
  <2>1. CASE Cleanup
    BY <1>1, <2>1, ListedTyped DEF RestTyped, Cleanup, clockVars
  <2>2. CASE NextDay
    <3>1. day' \in 0..MaxDay
      BY <1>1, <2>2, PersistenceAssumption DEF NextDay, RestTyped
    <3> QED
      BY <1>1, <2>2, <3>1 DEF RestTyped, NextDay
  <2>3. CASE Shutdown
    BY <1>1, <2>3 DEF RestTyped, Shutdown, clockVars
  <2>4. CASE UNCHANGED vars
    BY <1>1, <2>4 DEF RestTyped, vars, clockVars
  <2> QED
    BY <2>1, <2>2, <2>3, <2>4
<1>4. Typed'
  BY <1>1, <1>2, <1>3 DEF Typed, CallsTyped, JobsTyped, JobOK, FilesTyped
<1>5. ASSUME NEW s \in Sessions \ overlapped
      PROVE  Safe(s)'
  <2>1. Undisturbed(s) /\ SameJobs(s)
    BY <1>2 DEF Undisturbed, SameJobs, OneJob
  <2> QED
    BY <1>5, <2>1, Elsewhere DEF IInv
<1> QED
  BY <1>2, <1>4, <1>5 DEF IInv

\* The process exits: nothing is under way, and what the disk holds stays.
LEMMA ExitKeeps ==
    ASSUME IInv, Exit
    PROVE  IInv'
<1>1. Typed /\ CallsTyped /\ FilesTyped /\ RestTyped
  BY DEF IInv, Typed
<1>2. /\ stopping' = [phase |-> "saved", left |-> {}]
      /\ armed' = {} /\ jobs' = {} /\ doomed' = {}
      /\ UNCHANGED <<count, timer, tmp, final, day, failures,
                     calls, landed, lastUse, overlapped, crowded>>
  BY DEF Exit, Ends, fileVars, clockVars
<1>3. Typed'
  BY <1>1, <1>2 DEF Typed, CallsTyped, JobsTyped, FilesTyped, RestTyped
<1>4. ~Running'
  BY <1>2 DEF Running
<1>5. ASSUME NEW s \in Sessions \ overlapped
      PROVE  Safe(s)'
  <2>1. Safe(s)
    BY <1>5 DEF IInv
  <2>2. OneJob(s)' /\ OneTimer(s)' /\ Underway(s)'
    BY <1>2 DEF OneJob, OneTimer, Underway
  <2>3. OnDisk(s)' /\ Accounted(s)'
    BY <1>2, <1>4, <2>1 DEF Safe, OnDisk, Messages, Accounted
  <2> QED
    BY <2>2, <2>3 DEF Safe
<1> QED
  BY <1>2, <1>3, <1>5 DEF IInv

-----------------------------------------------------------------------------
(* The invariant holds. *)

LEMMA InitHolds ==
    ASSUME Init
    PROVE  IInv
<1>1. Typed
  <2>1. CallsTyped /\ JobsTyped
    BY PersistenceAssumption DEF Init, CallsTyped, JobsTyped
  <2>2. FilesTyped
    <3>1. \A f \in Files : Absent \in ContentsOf(f) /\ Absent \in Contents \cup IndexContents
      BY DEF ContentsOf, Contents, IndexContents
    <3> QED
      BY <3>1 DEF Init, FilesTyped
  <2>3. RestTyped
    <3>1. 0 \in 0..MaxDay /\ 0 \in 0..MaxFailures
      BY PersistenceAssumption
    <3>2. stopping \in [phase : {"no", "saving", "saved", "exited"}, left : SUBSET Sessions]
      BY DEF Init
    <3> QED
      BY <3>1, <3>2 DEF Init, RestTyped
  <2> QED
    BY <2>1, <2>2, <2>3 DEF Typed
<1>2. ASSUME NEW s \in Sessions
      PROVE  Safe(s)
  <2>1. OneJob(s) /\ OneTimer(s) /\ Underway(s)
    BY DEF Init, OneJob, OneTimer, Underway
  <2>2. OnDisk(s)
    <3>1. final[<<s, "meta">>] = Absent /\ final[<<s, "messages">>] = Absent
      BY FileNames DEF Init
    <3> QED
      BY <3>1 DEF OnDisk, Messages, Absent
  <2>3. Accounted(s)
    BY PersistenceAssumption DEF Init, Accounted
  <2> QED
    BY <2>1, <2>2, <2>3 DEF Safe
<1> QED
  BY <1>1, <1>2 DEF IInv

LEMMA NextKeeps ==
    ASSUME IInv, [Next]_vars
    PROVE  IInv'
<1>1. RestTyped
  BY DEF IInv, Typed
<1>2. ASSUME NEW s \in Sessions, Input(s)
      PROVE  IInv'
  <2>1. Save(s, "call") /\ Running /\ UNCHANGED stopping
    BY <1>2 DEF Input
  <2> QED
    BY <1>1, <2>1, SaveKeeps DEF RestTyped
<1>3. ASSUME NEW s \in Sessions, ShutdownSave(s)
      PROVE  IInv'
  <2>1. /\ Save(s, "stop") /\ Running
        /\ stopping' \in [phase : {"no", "saving", "saved", "exited"}, left : SUBSET Sessions]
    BY <1>1, <1>3 DEF ShutdownSave, Running, RestTyped
  <2> QED
    BY <2>1, SaveKeeps
<1>4. ASSUME NEW s \in Sessions, DeleteNext(s)
      PROVE  IInv'
  BY <1>4, DeleteNextKeeps
<1>5. ASSUME NEW t \in armed, Fire(t)
      PROVE  IInv'
  BY <1>5, FireKeeps
<1>6. CASE JobStep
  BY <1>6, OpenKeeps, WriteKeeps, RenameKeeps, ReadIndexKeeps, UnlinkKeeps, FailsKeeps DEF JobStep
<1>7. CASE Cleanup \/ NextDay \/ Shutdown \/ UNCHANGED vars
  BY <1>7, IdleKeeps
<1>8. CASE Exit
  BY <1>8, ExitKeeps
<1> QED
  BY <1>2, <1>3, <1>4, <1>5, <1>6, <1>7, <1>8 DEF Next

LEMMA IInvHolds == Spec => []IInv
<1>1. Init => IInv
  BY InitHolds
<1>2. IInv /\ [Next]_vars => IInv'
  BY NextKeeps
<1> QED
  BY <1>1, <1>2, PTL DEF Spec

-----------------------------------------------------------------------------
(* What it shows. *)

\* The state of the store keeps its type.
THEOREM PersistTyped == Spec => []TypeOK
<1>1. IInv => TypeOK
  <2> SUFFICES ASSUME IInv PROVE TypeOK
    OBVIOUS
  <2>1. CallsTyped /\ JobsTyped /\ FilesTyped /\ RestTyped
    BY DEF IInv, Typed
  <2>2. /\ \A f \in Files \ {Index} : tmp[f] \in Contents /\ final[f] \in Contents
        /\ tmp[Index] \in IndexContents /\ final[Index] \in IndexContents
    BY <2>1 DEF FilesTyped, ContentsOf, Files
  <2>3. \A s \in Sessions : landed[s] \in 0..calls[s]
    BY <2>1 DEF CallsTyped
  <2> QED
    BY <2>1, <2>2, <2>3
    DEF TypeOK, CallsTyped, JobsTyped, JobOK, Jobs, Kinds, Entries, RestTyped
<1> QED
  BY <1>1, IInvHolds, PTL

\* Whenever the daemon ends, a session's files are whole or absent, unless saves of
\* the session overlapped: no step of saveImmediate shows a torn file.
THEOREM PersistFilesAreWhole == Spec => []FilesAreWhole
<1>1. IInv => FilesAreWhole
  <2> SUFFICES ASSUME IInv, NEW s \in Sessions \ overlapped
               PROVE  /\ final[<<s, "meta">>].kind \in {"absent", "whole"}
                      /\ final[<<s, "messages">>].kind \in {"absent", "whole"}
    BY DEF FilesAreWhole
  <2>1. OnDisk(s)
    BY DEF IInv, Safe
  <2> QED
    BY <2>1 DEF OnDisk, Messages, Absent, Whole
<1> QED
  BY <1>1, IInvHolds, PTL

\* The calls of save() that a crash loses are counted, and fewer than SaveEvery
\* unless a job of the session is under way or an operation failed.
THEOREM PersistLossIsBounded == Spec => []LossIsBounded
<1>1. IInv => LossIsBounded
  <2> SUFFICES ASSUME IInv, NEW s \in Sessions \ overlapped
               PROVE  /\ calls[s] - landed[s] <= count[s]
                      /\ \/ calls[s] - landed[s] < SaveEvery \/ JobsOf(s) # {}
                         \/ failures > 0 \/ ~Running
    BY DEF LossIsBounded
  <2>1. calls[s] \in Nat /\ landed[s] \in Nat /\ count[s] \in Nat /\ failures \in Nat /\ SaveEvery \in Nat
    BY PersistenceAssumption DEF IInv, Typed, CallsTyped, RestTyped
  <2>2. Accounted(s)
    BY DEF IInv, Safe
  <2>3. JobsOf(s) = {} => NoSave(s)
    BY DEF JobsOf, NoSave
  <2> QED
    BY <2>1, <2>2, <2>3 DEF Accounted
<1> QED
  BY <1>1, IInvHolds, PTL

\* With no timer armed and no job under way the last call's snapshot is on disk: a
\* timer that was cleared, or a count that was reset, forgot no call.
THEOREM PersistAtRestIsSaved == Spec => []AtRestIsSaved
<1>1. IInv => AtRestIsSaved
  <2> SUFFICES ASSUME IInv, NEW s \in Sessions \ overlapped,
                      Running, failures = 0, JobsOf(s) = {}, \A t \in armed : t.s # s
               PROVE  /\ landed[s] = calls[s]
                      /\ IsWhole(Messages(s)) => Messages(s).data = calls[s]
    BY DEF AtRestIsSaved
  <2>1. NoSave(s)
    BY DEF JobsOf, NoSave
  <2>2. Accounted(s) /\ OnDisk(s)
    BY DEF IInv, Safe
  <2>3. landed[s] = calls[s]
    BY <2>1, <2>2 DEF Accounted
  <2> QED
    BY <2>2, <2>3 DEF OnDisk, IsWhole, Whole, Absent
<1> QED
  BY <1>1, IInvHolds, PTL

-----------------------------------------------------------------------------
(* The index.  As long as no two jobs were under way at once and no operation failed,  *)
(* a job that has not come to the index leaves it as it was, and one that has is on    *)
(* its way to list what is on disk.                                                    *)

\* What the index lists, and what it should.
Listing == IF IsWhole(final[Index]) THEN final[Index].data ELSE {}
OnFile ==
    {[s |-> s, n |-> Messages(s).data] : s \in {k \in Sessions : IsWhole(Messages(k))}}

\* The one job under way: what it reads is the index, what it renames is what it has to
\* write, and the index it is going to write lists what is on disk.
Solo(j) ==
    /\ Op(j)[1] # "index" => OnFile = Listing
    /\ Op(j)[1] = "index" => OnFile = NewIndex([j EXCEPT !.idx = Listing])
    /\ Op(j)[1] = "index" /\ Op(j)[2] # "read" => j.idx = Listing
    /\ Op(j)[2] = "write" => j.at = "tmp" /\ tmp[File(j)] = Empty
    /\ Op(j)[2] = "rename" => tmp[File(j)] = Whole(DataOf(j))

Untroubled == ~crowded /\ failures = 0 /\ Running

Indexed ==
    Untroubled =>
        /\ \A j, k \in jobs : j = k
        /\ jobs = {} => OnFile = Listing
        /\ \A j \in jobs : Solo(j)

\* The operations in their order, of a save and of a deletion alike.
LEMMA OpFollows ==
    ASSUME NEW j, JobOK(j), NEW l, JobOK(l), l.kind = j.kind, l.s = j.s, l.pos = j.pos + 1
    PROVE  /\ Op(j)[2] = "open" => Op(l)[1] = Op(j)[1] /\ Op(l)[2] = "write" /\ File(l) = File(j)
           /\ Op(j)[2] = "write" => Op(l)[1] = Op(j)[1] /\ Op(l)[2] = "rename" /\ File(l) = File(j)
           /\ Op(j)[2] = "read" => Op(j)[1] = "index" /\ Op(l)[1] = "index" /\ Op(l)[2] = "open"
           /\ Op(j)[2] \in {"rename", "unlink"} /\ Op(j)[1] = "meta" =>
                 Op(l)[1] = "messages" /\ Op(l)[2] \in {"open", "unlink"}
           /\ Op(j)[2] \in {"rename", "unlink"} /\ Op(j)[1] = "messages" =>
                 Op(l)[1] = "index" /\ Op(l)[2] = "read"
<1>1. CASE j.kind = "delete"
  <2>1. Op(j)[1] = (CASE j.pos = 1 -> "meta" [] j.pos = 2 -> "messages" [] OTHER -> "index")
    BY <1>1, DeleteOps
  <2>2. Op(l)[1] = (CASE l.pos = 1 -> "meta" [] l.pos = 2 -> "messages" [] OTHER -> "index")
    BY <1>1, DeleteOps
  <2>3. Op(j)[2] = (CASE j.pos \in {1, 2} -> "unlink" [] j.pos = 3 -> "read"
                     [] j.pos = 4 -> "open" [] j.pos = 5 -> "write" [] OTHER -> "rename")
    BY <1>1, DeleteOps
  <2>4. Op(l)[2] = (CASE l.pos \in {1, 2} -> "unlink" [] l.pos = 3 -> "read"
                     [] l.pos = 4 -> "open" [] l.pos = 5 -> "write" [] OTHER -> "rename")
    BY <1>1, DeleteOps
  <2>5. j.pos \in 1..6 /\ l.pos \in 1..6
    BY <1>1, DeleteOps
  <2> QED
    BY <2>1, <2>2, <2>3, <2>4, <2>5 DEF File
<1>2. CASE j.kind # "delete"
  <2>1. Op(j)[1] = (CASE j.pos \in 1..3 -> "meta" [] j.pos \in 4..6 -> "messages"
                     [] OTHER -> "index")
    BY <1>2, SaveOps
  <2>2. Op(l)[1] = (CASE l.pos \in 1..3 -> "meta" [] l.pos \in 4..6 -> "messages"
                     [] OTHER -> "index")
    BY <1>2, SaveOps
  <2>3. Op(j)[2] = (CASE j.pos \in {1, 4, 8} -> "open" [] j.pos \in {2, 5, 9} -> "write"
                     [] j.pos \in {3, 6, 10} -> "rename" [] OTHER -> "read")
    BY <1>2, SaveOps
  <2>4. Op(l)[2] = (CASE l.pos \in {1, 4, 8} -> "open" [] l.pos \in {2, 5, 9} -> "write"
                     [] l.pos \in {3, 6, 10} -> "rename" [] OTHER -> "read")
    BY <1>2, SaveOps
  <2>5. j.pos \in 1..10 /\ l.pos \in 1..10
    BY <1>2, SaveOps
  <2> QED
    BY <2>1, <2>2, <2>3, <2>4, <2>5 DEF File
<1> QED
  BY <1>1, <1>2

LEMMA IndexInit ==
    ASSUME Init
    PROVE  Indexed
<1>1. Index \in Files /\ \A s \in Sessions : <<s, "messages">> \in Files
  BY DEF Files
<1>2. Listing = {} /\ OnFile = {}
  BY <1>1 DEF Init, Listing, OnFile, Messages, IsWhole, Absent
<1> QED
  BY <1>2 DEF Init, Indexed

\* Steps that touch no job and no file.
LEMMA IndexIdle ==
    ASSUME Indexed, Untroubled' => Untroubled, UNCHANGED <<jobs, fileVars>>
    PROVE  Indexed'
<1>1. Listing' = Listing
  BY DEF Listing, fileVars
<1>2. OnFile' = OnFile
  BY DEF OnFile, Messages, fileVars
<1>3. ASSUME NEW j, Solo(j)
      PROVE  Solo(j)'
  <2>1. Op(j)' = Op(j) /\ File(j)' = File(j) /\ DataOf(j)' = DataOf(j)
    BY DEF Op, File, DataOf, NewIndex
  <2>2. NewIndex([j EXCEPT !.idx = Listing])' = NewIndex([j EXCEPT !.idx = Listing])
    BY <1>1 DEF NewIndex
  <2> QED
    BY <1>1, <1>2, <1>3, <2>1, <2>2 DEF Solo, fileVars
<1> QED
  BY <1>1, <1>2, <1>3 DEF Indexed

\* A job that begins undisturbed begins alone, at its first file.
LEMMA IndexBegins ==
    ASSUME IInv, Indexed, NEW kind \in Kinds, NEW s \in Sessions, NEW call \in 0..MaxCalls,
           Begin(NewJob(kind, s, call)), UNCHANGED fileVars, Untroubled' => Untroubled
    PROVE  Indexed'
<1> DEFINE j == NewJob(kind, s, call)
<1> SUFFICES ASSUME Untroubled' PROVE Indexed'
  BY DEF Indexed
<1>1. jobs = {} /\ jobs' = {j} /\ Untroubled
  BY DEF Begin, Untroubled
<1>2. OnFile = Listing /\ OnFile' = OnFile /\ Listing' = Listing
  BY <1>1 DEF Indexed, OnFile, Listing, Messages, fileVars
<1>3. Op(j)[1] = "meta" /\ Op(j)[2] \in {"open", "unlink"}
  <2>1. Op(j) = Program(kind)[1]
    BY DEF Op, NewJob
  <2> QED
    BY <2>1, Programs
<1>4. Solo(j)'
  BY <1>2, <1>3 DEF Solo, Op, NewJob, Listing, OnFile, Messages, fileVars
<1> QED
  BY <1>1, <1>4 DEF Indexed

-----------------------------------------------------------------------------
\* The one job j goes on as l; what is on disk and in the index is as Solo says.
LEMMA IndexGoesOn ==
    ASSUME NEW l, jobs' = {l}, Solo(l)'
    PROVE  Indexed'
BY DEF Indexed

LEMMA IndexOpens ==
    ASSUME IInv, Indexed, NEW j \in jobs, Open(j)
    PROVE  Indexed'
<1> SUFFICES ASSUME Untroubled' PROVE Indexed'
  BY DEF Indexed
<1> DEFINE l == [j EXCEPT !.pos = @ + 1, !.at = "tmp"]
<1>1. Untroubled /\ JobOK(j) /\ FilesTyped
  BY DEF Open, Performs, Untroubled, Running, IInv, Typed, JobsTyped, clockVars
<1>2. Solo(j) /\ jobs = {j}
  BY <1>1 DEF Indexed
<1>3. /\ Op(j)[2] = "open" /\ final' = final
      /\ tmp' = [tmp EXCEPT ![File(j)] = Empty] /\ jobs' = {l}
  BY <1>2 DEF Open, Performs, Without
<1>4. /\ JobOK(l) /\ l.kind = j.kind /\ l.s = j.s /\ l.call = j.call
      /\ l.pos = j.pos + 1 /\ l.at = "tmp"
  <2>1. JobOK(j) /\ Op(j)[2] # "rename"
    BY <1>1, <1>3
  <2> QED
    BY <2>1, NextOp
<1>5. l.idx = j.idx
  BY <1>1 DEF JobOK, Jobs
<1>6. Op(l)[1] = Op(j)[1] /\ Op(l)[2] = "write" /\ File(l) = File(j)
  BY <1>1, <1>3, <1>4, OpFollows
<1> HIDE DEF l
<1>7. tmp'[File(l)] = Empty
  BY <1>1, <1>3, <1>6, FileOf DEF FilesTyped
<1>8. OnFile' = OnFile /\ Listing' = Listing
  BY <1>3 DEF OnFile, Listing, Messages
<1>9. NewIndex([l EXCEPT !.idx = Listing]) = NewIndex([j EXCEPT !.idx = Listing])
  BY <1>1, <1>4 DEF NewIndex, JobOK, Jobs
<1>10. Solo(l)'
  <2>1. Op(l)' = Op(l) /\ File(l)' = File(l)
    BY DEF Op, File
  <2>2. NewIndex([l EXCEPT !.idx = Listing])' = NewIndex([l EXCEPT !.idx = Listing])
    BY <1>8 DEF NewIndex
  <2> QED
    BY <1>2, <1>3, <1>4, <1>5, <1>6, <1>7, <1>8, <1>9, <2>1, <2>2 DEF Solo
<1> QED
  BY <1>3, <1>10, IndexGoesOn

LEMMA IndexWrites ==
    ASSUME IInv, Indexed, NEW j \in jobs, Write(j)
    PROVE  Indexed'
<1> SUFFICES ASSUME Untroubled' PROVE Indexed'
  BY DEF Indexed
<1> DEFINE l == [j EXCEPT !.pos = @ + 1, !.at = "none"]
<1>1. Untroubled /\ JobOK(j) /\ FilesTyped
  BY DEF Write, Performs, Untroubled, Running, IInv, Typed, JobsTyped, clockVars
<1>2. Solo(j) /\ jobs = {j}
  BY <1>1 DEF Indexed
<1>3. /\ Op(j)[2] = "write" /\ jobs' = {l}
  BY <1>2 DEF Write, Performs, Advance, Without
<1>4. j.at = "tmp" /\ tmp[File(j)] = Empty
  BY <1>2, <1>3 DEF Solo
<1>5. final' = final /\ \E c \in Over(File(j), tmp[File(j)], DataOf(j)) :
                            tmp' = [tmp EXCEPT ![File(j)] = c]
  BY <1>4 DEF Write
<1>6. tmp' = [tmp EXCEPT ![File(j)] = Whole(DataOf(j))]
  BY <1>4, <1>5 DEF Over, Empty
<1>7. /\ JobOK(l) /\ l.kind = j.kind /\ l.s = j.s /\ l.call = j.call
      /\ l.pos = j.pos + 1 /\ l.at = "none"
  <2>1. JobOK(j) /\ Op(j)[2] # "rename"
    BY <1>1, <1>3
  <2> QED
    BY <2>1, NextOp
<1>8. l.idx = j.idx
  BY <1>1 DEF JobOK, Jobs
<1>9. Op(l)[1] = Op(j)[1] /\ Op(l)[2] = "rename" /\ File(l) = File(j)
  BY <1>1, <1>3, <1>7, OpFollows
<1> HIDE DEF l
<1>10. DataOf(l) = DataOf(j)
  BY <1>7, <1>8, <1>9 DEF DataOf, NewIndex
<1>11. tmp'[File(l)] = Whole(DataOf(l))
  BY <1>1, <1>6, <1>9, <1>10, FileOf DEF FilesTyped
<1>12. OnFile' = OnFile /\ Listing' = Listing
  BY <1>5 DEF OnFile, Listing, Messages
<1>13. NewIndex([l EXCEPT !.idx = Listing]) = NewIndex([j EXCEPT !.idx = Listing])
  BY <1>1, <1>7 DEF NewIndex, JobOK, Jobs
<1>14. Solo(l)'
  <2>1. Op(l)' = Op(l) /\ File(l)' = File(l) /\ DataOf(l)' = DataOf(l)
    BY DEF Op, File, DataOf, NewIndex
  <2>2. NewIndex([l EXCEPT !.idx = Listing])' = NewIndex([l EXCEPT !.idx = Listing])
    BY <1>12 DEF NewIndex
  <2> QED
    BY <1>2, <1>3, <1>7, <1>8, <1>9, <1>11, <1>12, <1>13, <2>1, <2>2 DEF Solo
<1> QED
  BY <1>3, <1>14, IndexGoesOn

LEMMA IndexReads ==
    ASSUME IInv, Indexed, NEW j \in jobs, ReadIndex(j)
    PROVE  Indexed'
<1> SUFFICES ASSUME Untroubled' PROVE Indexed'
  BY DEF Indexed
<1>l. PICK l : l = [j EXCEPT !.pos = @ + 1, !.idx = Listing]
  OBVIOUS
<1>1. Untroubled /\ JobOK(j) /\ FilesTyped
  BY DEF ReadIndex, Performs, Untroubled, Running, IInv, Typed, JobsTyped, clockVars
<1>2. Solo(j) /\ jobs = {j}
  BY <1>1 DEF Indexed
<1>3. Op(j)[2] = "read" /\ UNCHANGED fileVars
  BY DEF ReadIndex, Performs
<1>4. OnFile' = OnFile /\ Listing' = Listing
  BY <1>3 DEF OnFile, Listing, Messages, fileVars
<1>5. Op(j)[1] = "index"
  <2>1. CASE j.kind = "delete"
    BY <1>1, <1>3, <2>1, DeleteOps
  <2>2. CASE j.kind # "delete"
    BY <1>1, <1>3, <2>2, SaveOps
  <2> QED
    BY <2>1, <2>2
<1>6. OnFile = NewIndex([j EXCEPT !.idx = Listing])
  BY <1>2, <1>5 DEF Solo
<1>7. CASE jobs' = {l}
  <2>1. /\ JobOK(l) /\ l.kind = j.kind /\ l.s = j.s /\ l.call = j.call
        /\ l.pos = j.pos + 1 /\ l.idx = Listing
    <3>1. j.pos + 1 \in DOMAIN Program(j.kind) /\ j.pos + 1 \in 1..10
      BY <1>1, <1>3, GoesOn
    <3>2. Listing \in SUBSET Entries
      BY <1>1, FileNames DEF FilesTyped, ContentsOf, IndexContents, Listing, IsWhole, Entries,
         Absent, Empty, Mixed, Files
    <3> QED
      BY <1>l, <1>1, <3>1, <3>2 DEF JobOK, Jobs
  <2>2. Op(l)[1] = "index" /\ Op(l)[2] = "open"
    BY <1>1, <1>3, <2>1, OpFollows
  <2>3. NewIndex([l EXCEPT !.idx = Listing]) = NewIndex([j EXCEPT !.idx = Listing])
    BY <1>l, <1>1, <2>1 DEF NewIndex, JobOK, Jobs
  <2>4. Op(l)' = Op(l)
    BY DEF Op
  <2>5. NewIndex([l EXCEPT !.idx = Listing])' = NewIndex([l EXCEPT !.idx = Listing])
    BY <1>4 DEF NewIndex
  <2>6. Solo(l)'
    BY <1>4, <1>6, <2>1, <2>2, <2>3, <2>4, <2>5 DEF Solo
  <2> QED
    BY <1>7, <2>6, IndexGoesOn
<1>8. CASE ~IsWhole(final[Index]) /\ j.kind = "delete" /\ jobs' = {}
  <2>1. Listing = {} /\ OnFile = {}
    BY <1>1, <1>6, <1>8 DEF Listing, NewIndex, JobOK, Jobs
  <2> QED
    BY <1>4, <1>8, <2>1 DEF Indexed
<1> QED
  BY <1>l, <1>2, <1>7, <1>8 DEF ReadIndex, Without, Listing

\* What is on disk when the messages of s are replaced by those of a call or removed.
LEMMA OnFileWithout ==
    ASSUME NEW s \in Sessions, FilesTyped, final' = [final EXCEPT ![<<s, "messages">>] = Absent]
    PROVE  OnFile' = {e \in OnFile : e.s # s}
<1>1. \A r \in Sessions : <<r, "messages">> \in Files /\ (r # s => <<r, "messages">> # <<s, "messages">>)
  BY DEF Files
<1>2. /\ ~IsWhole(Messages(s)')
      /\ \A r \in Sessions : r # s => Messages(r)' = Messages(r)
  BY <1>1 DEF Messages, IsWhole, Absent, FilesTyped
<1>3. OnFile' = {[s |-> r, n |-> Messages(r).data] : r \in {k \in Sessions \ {s} : IsWhole(Messages(k))}}
  <2>1. {k \in Sessions : IsWhole(Messages(k)')} = {k \in Sessions \ {s} : IsWhole(Messages(k))}
    BY <1>2
  <2> QED
    BY <1>2, <2>1 DEF OnFile
<1> QED
  BY <1>3 DEF OnFile

LEMMA OnFileWith ==
    ASSUME NEW s \in Sessions, NEW n, FilesTyped,
           final' = [final EXCEPT ![<<s, "messages">>] = Whole(n)]
    PROVE  OnFile' = {e \in OnFile : e.s # s} \cup {[s |-> s, n |-> n]}
<1>1. \A r \in Sessions : <<r, "messages">> \in Files /\ (r # s => <<r, "messages">> # <<s, "messages">>)
  BY DEF Files
<1>2. /\ IsWhole(Messages(s)') /\ Messages(s)'.data = n
      /\ \A r \in Sessions : r # s => Messages(r)' = Messages(r)
  BY <1>1 DEF Messages, IsWhole, Whole, FilesTyped
<1>3. \A e : e \in OnFile' <=> \E r \in Sessions : IsWhole(Messages(r)') /\ e = [s |-> r, n |-> Messages(r)'.data]
  BY DEF OnFile
<1>4. \A e : e \in OnFile <=> \E r \in Sessions : IsWhole(Messages(r)) /\ e = [s |-> r, n |-> Messages(r).data]
  BY DEF OnFile
<1>5. \A e : e \in OnFile' => e \in {f \in OnFile : f.s # s} \cup {[s |-> s, n |-> n]}
  BY <1>2, <1>3, <1>4
<1>6. \A e : e \in {f \in OnFile : f.s # s} \cup {[s |-> s, n |-> n]} => e \in OnFile'
  BY <1>2, <1>3, <1>4
<1> QED
  BY <1>5, <1>6

\* Other files say nothing of the messages on disk.
LEMMA OnFileApart ==
    ASSUME NEW f \in Files, NEW c, FilesTyped, final' = [final EXCEPT ![f] = c],
           \A s \in Sessions : f # <<s, "messages">>
    PROVE  OnFile' = OnFile
<1>1. \A s \in Sessions : Messages(s)' = Messages(s)
  BY DEF Messages, Files, FilesTyped
<1> QED
  BY <1>1 DEF OnFile

LEMMA IndexUnlinks ==
    ASSUME IInv, Indexed, NEW j \in jobs, Unlink(j)
    PROVE  Indexed'
<1> SUFFICES ASSUME Untroubled' PROVE Indexed'
  BY DEF Indexed
<1> DEFINE l == [j EXCEPT !.pos = @ + 1, !.at = "none"]
<1>1. Untroubled /\ JobOK(j) /\ FilesTyped /\ j.s \in Sessions
  BY DEF Unlink, Performs, Untroubled, Running, IInv, Typed, JobsTyped, clockVars, JobOK, Jobs
<1>2. Solo(j) /\ jobs = {j}
  BY <1>1 DEF Indexed
<1>3. Op(j)[2] = "unlink" /\ tmp' = tmp /\ final' = [final EXCEPT ![File(j)] = Absent] /\ jobs' = {l}
  BY <1>2 DEF Unlink, Performs, Advance, Moved, Without
<1>4. j.kind = "delete" /\ Op(j)[1] \in {"meta", "messages"}
  <2>1. j.kind = "delete"
    BY <1>1, <1>3, SaveOps
  <2> QED
    BY <1>1, <1>3, <2>1, DeleteOps
<1>5. /\ JobOK(l) /\ l.kind = j.kind /\ l.s = j.s /\ l.call = j.call
      /\ l.pos = j.pos + 1 /\ l.at = "none"
  <2>1. JobOK(j) /\ Op(j)[2] # "rename"
    BY <1>1, <1>3
  <2> QED
    BY <2>1, NextOp
<1>6. OnFile = Listing
  BY <1>2, <1>4 DEF Solo
<1>7. File(j) = <<j.s, Op(j)[1]>> /\ File(j) \in Files /\ File(j) # Index
  BY <1>1, <1>4, FileOf
<1>8. Listing' = Listing
  BY <1>1, <1>3, <1>7, FileNames DEF Listing, FilesTyped
<1>9. CASE Op(j)[1] = "meta"
  <2>1. Op(l)[1] = "messages" /\ Op(l)[2] \in {"open", "unlink"}
    BY <1>1, <1>3, <1>5, <1>9, OpFollows
  <2>2. OnFile' = OnFile
    BY <1>1, <1>3, <1>7, <1>9, OnFileApart
  <2> HIDE DEF l
  <2>3. Op(l)' = Op(l)
    BY DEF Op
  <2>4. Solo(l)'
    BY <1>6, <1>8, <2>1, <2>2, <2>3 DEF Solo
  <2> QED
    BY <1>3, <2>4, IndexGoesOn
<1>10. CASE Op(j)[1] = "messages"
  <2>1. Op(l)[1] = "index" /\ Op(l)[2] = "read"
    BY <1>1, <1>3, <1>5, <1>10, OpFollows
  <2>2. OnFile' = {e \in Listing : e.s # j.s}
    BY <1>1, <1>3, <1>6, <1>7, <1>10, OnFileWithout
  <2>3. NewIndex([l EXCEPT !.idx = Listing]) = {e \in Listing : e.s # j.s}
    BY <1>4, <1>5 DEF NewIndex, JobOK, Jobs
  <2> HIDE DEF l
  <2>4. Op(l)' = Op(l)
    BY DEF Op
  <2>5. NewIndex([l EXCEPT !.idx = Listing])' = NewIndex([l EXCEPT !.idx = Listing])
    BY <1>8 DEF NewIndex
  <2>6. Solo(l)'
    BY <1>8, <2>1, <2>2, <2>3, <2>4, <2>5 DEF Solo
  <2> QED
    BY <1>3, <2>6, IndexGoesOn
<1> QED
  BY <1>4, <1>9, <1>10

LEMMA IndexRenames ==
    ASSUME IInv, Indexed, NEW j \in jobs, Rename(j)
    PROVE  Indexed'
<1> SUFFICES ASSUME Untroubled' PROVE Indexed'
  BY DEF Indexed
<1> DEFINE l == [j EXCEPT !.pos = @ + 1, !.at = "none"]
<1>1. Untroubled /\ JobOK(j) /\ FilesTyped /\ j.s \in Sessions
  <2>1. failures' = failures /\ crowded' = crowded /\ Running
    BY DEF Rename, Performs, clockVars
  <2>2. JobOK(j) /\ FilesTyped
    BY DEF IInv, Typed, JobsTyped
  <2> QED
    BY <2>1, <2>2 DEF Untroubled, JobOK, Jobs
<1>2. Solo(j) /\ jobs = {j}
  BY <1>1 DEF Indexed
<1>3. Op(j)[2] = "rename"
  BY DEF Rename, Performs
<1>4. tmp[File(j)] = Whole(DataOf(j))
  BY <1>2, <1>3 DEF Solo
<1>5. tmp[File(j)] # Absent
  BY <1>4 DEF Whole, Absent
<1>6. Renamed(j) = {}
  BY <1>2 DEF Renamed, Without
<1>7. /\ final' = [final EXCEPT ![File(j)] = Whole(DataOf(j))]
      /\ \/ File(j) # Index /\ jobs' = {l}
         \/ File(j) = Index /\ jobs' = {}
  BY <1>4, <1>5, <1>6 DEF Rename, Advance
<1>8. File(j) \in Files /\ Op(j)[1] \in {"meta", "messages", "index"}
      /\ (Op(j)[1] = "index" <=> File(j) = Index) /\ (Op(j)[1] # "index" => File(j) = <<j.s, Op(j)[1]>>)
  BY <1>1, FileOf
<1>9. CASE Op(j)[1] = "index"
  <2>1. DataOf(j) = NewIndex([j EXCEPT !.idx = Listing])
    BY <1>1, <1>2, <1>3, <1>9 DEF DataOf, Solo, NewIndex, JobOK, Jobs
  <2>2. Listing' = DataOf(j)
    BY <1>1, <1>7, <1>8, <1>9 DEF Listing, IsWhole, Whole, FilesTyped
  <2>3. OnFile' = OnFile
    BY <1>1, <1>7, <1>8, <1>9, OnFileApart, FileNames
  <2>4. OnFile' = Listing'
    BY <1>2, <1>9, <2>1, <2>2, <2>3 DEF Solo
  <2> QED
    BY <1>7, <1>8, <1>9, <2>4 DEF Indexed
<1>10. CASE Op(j)[1] # "index"
  <2>1. jobs' = {l} /\ OnFile = Listing
    BY <1>2, <1>7, <1>8, <1>10 DEF Solo
  <2>2. /\ JobOK(l) /\ l.kind = j.kind /\ l.s = j.s /\ l.call = j.call
        /\ l.pos = j.pos + 1 /\ l.at = "none"
    <3>1. JobOK(j) /\ Op(j)[1] # "index"
      BY <1>1, <1>10
    <3> QED
      BY <3>1, NextOp
  <2>3. Listing' = Listing
    BY <1>1, <1>7, <1>8, <1>10, FileNames DEF Listing, FilesTyped
  <2>4. Op(l)' = Op(l)
    BY DEF Op
  <2>5. CASE Op(j)[1] = "meta"
    <3>1. Op(l)[1] = "messages" /\ Op(l)[2] \in {"open", "unlink"}
      BY <1>1, <1>3, <2>2, <2>5, OpFollows
    <3>2. OnFile' = OnFile
      BY <1>1, <1>7, <1>8, <2>5, OnFileApart
    <3> HIDE DEF l
    <3>3. Solo(l)'
      BY <2>1, <2>3, <2>4, <3>1, <3>2 DEF Solo
    <3> QED
      BY <2>1, <3>3, IndexGoesOn
  <2>6. CASE Op(j)[1] = "messages"
    <3>1. Op(l)[1] = "index" /\ Op(l)[2] = "read"
      BY <1>1, <1>3, <2>2, <2>6, OpFollows
    <3>2. j.kind # "delete" /\ DataOf(j) = j.call
      <4>1. j.kind # "delete"
        BY <1>1, <1>3, <2>6, DeleteOps
      <4> QED
        BY <2>6, <4>1 DEF DataOf
    <3>3. OnFile' = {e \in Listing : e.s # j.s} \cup {[s |-> j.s, n |-> j.call]}
      BY <1>1, <1>7, <1>8, <2>1, <2>6, <3>2, OnFileWith
    <3>4. NewIndex([l EXCEPT !.idx = Listing]) = {e \in Listing : e.s # j.s} \cup {[s |-> j.s, n |-> j.call]}
      BY <2>2, <3>2 DEF NewIndex, JobOK, Jobs
    <3> HIDE DEF l
    <3>5. NewIndex([l EXCEPT !.idx = Listing])' = NewIndex([l EXCEPT !.idx = Listing])
      BY <2>3 DEF NewIndex
    <3>6. Solo(l)'
      BY <2>3, <2>4, <3>1, <3>3, <3>4, <3>5 DEF Solo
    <3> QED
      BY <2>1, <3>6, IndexGoesOn
  <2> QED
    BY <1>8, <1>10, <2>5, <2>6
<1> QED
  BY <1>9, <1>10

LEMMA IndexNext ==
    ASSUME IInv, Indexed, [Next]_vars
    PROVE  Indexed'
<1>1. ASSUME NEW s \in Sessions, NEW kind \in {"call", "stop"}, Save(s, kind), Running
      PROVE  Indexed'
  <2>1. Untroubled' => Untroubled
    BY <1>1 DEF Save, Begin, Untroubled, clockVars
  <2>2. CASE UNCHANGED jobs
    BY <1>1, <2>1, <2>2, IndexIdle DEF Save
  <2>3. CASE Begin(NewJob(kind, s, calls[s] + 1))
    <3>1. calls[s] + 1 \in 0..MaxCalls /\ kind \in Kinds
      BY <1>1, PersistenceAssumption DEF Save, IInv, Typed, CallsTyped, Kinds
    <3> QED
      BY <1>1, <2>1, <2>3, <3>1, IndexBegins DEF Save
  <2> QED
    BY <1>1, <2>2, <2>3 DEF Save
<1>2. ASSUME NEW s \in Sessions, Input(s) \/ ShutdownSave(s)
      PROVE  Indexed'
  BY <1>1, <1>2 DEF Input, ShutdownSave, Running
<1>3. ASSUME NEW s \in Sessions, DeleteNext(s)
      PROVE  Indexed'
  <2>1. Untroubled' => Untroubled
    BY <1>3 DEF DeleteNext, Begin, Untroubled, clockVars
  <2>2. 0 \in 0..MaxCalls /\ "delete" \in Kinds
    BY PersistenceAssumption DEF Kinds
  <2> QED
    BY <1>3, <2>1, <2>2, IndexBegins DEF DeleteNext
<1>4. ASSUME NEW t \in armed, Fire(t)
      PROVE  Indexed'
  <2>1. Untroubled' => Untroubled
    BY <1>4 DEF Fire, Begin, Untroubled, clockVars
  <2>2. t.s \in Sessions /\ t.call \in 0..MaxCalls /\ "timer" \in Kinds
    BY <1>4, PersistenceAssumption DEF IInv, Typed, CallsTyped, Kinds
  <2> QED
    BY <1>4, <2>1, <2>2, IndexBegins DEF Fire
<1>5. CASE JobStep
  <2>1. PICK j \in jobs : Open(j) \/ Write(j) \/ Rename(j) \/ ReadIndex(j) \/ Unlink(j) \/ Fails(j)
    BY <1>5 DEF JobStep
  <2>2. CASE Fails(j)
    <3>1. failures' # 0
      BY <2>2 DEF Fails, IInv, Typed, RestTyped
    <3> QED
      BY <3>1 DEF Indexed, Untroubled
  <2> QED
    BY <2>1, <2>2, IndexOpens, IndexWrites, IndexRenames, IndexReads, IndexUnlinks
<1>6. CASE Cleanup \/ NextDay \/ Shutdown \/ UNCHANGED vars
  <2>1. UNCHANGED <<jobs, fileVars>> /\ (Untroubled' => Untroubled)
    BY <1>6 DEF Cleanup, NextDay, Shutdown, vars, clockVars, Untroubled, Running
  <2> QED
    BY <2>1, IndexIdle
<1>7. CASE Exit
  BY <1>7 DEF Exit, Ends, Indexed, Untroubled, Running
<1> QED
  BY <1>2, <1>3, <1>4, <1>5, <1>6, <1>7 DEF Next

\* With no job under way the index lists the sessions on disk with the number of their
\* messages, unless two jobs were ever under way at once or an operation failed
\* (updateIndex reads the index and writes it in two steps).
THEOREM PersistIndexAgrees == Spec => []IndexAgrees
<1>1. Init => Indexed
  BY IndexInit
<1>2. IInv /\ Indexed /\ [Next]_vars => Indexed'
  BY IndexNext
<1>3. Indexed => IndexAgrees
  BY DEF Indexed, Untroubled, IndexAgrees, Listing, OnFile
<1> QED
  BY <1>1, <1>2, <1>3, IInvHolds, PTL DEF Spec
=============================================================================
