------------------------ MODULE ChildDaemonsProofs -------------------------
(***************************************************************************)
(* Theorem of ChildDaemons, for every set of ids, of calls under way and   *)
(* of strategies: the registry is a tree that every walk gets to the end   *)
(* of, and a shutdown leaves behind only what was launched or registered   *)
(* after its cascade.                                                      *)
(*                                                                         *)
(* The tree has no cycle because what is hung below an entry is an entry   *)
(* that has just been registered and has no child yet (PutGrounds,         *)
(* LinkGrounds), and is not that entry itself: the parent was registered   *)
(* when the process of the child was launched, so the two have not the     *)
(* same process (NotItsOwn).  The cascade reaches every child because no   *)
(* entry is terminated before it (NoneYet) and only the daemon's own has   *)
(* no parent (Rooted); what it ended runs again only where a tick launches *)
(* it, which the history records.                                          *)
(***************************************************************************)
EXTENDS ChildDaemons, FiniteSetTheorems, SequenceTheorems, TLAPS

Entries ==
    [id : Names \cup {Root}, pid : Nat, born : Nat, parent : Parents \cup {None},
     status : {"running", "terminated"}, kids : Seq(Names), origin : BOOLEAN]

Watches == [id : Names, strategy : Strategies, max : Budgets, count : Nat]

Calls ==
    [at : {"snapshot", "check", "lattice", "register", "inject"}, fork : BOOLEAN,
     parent : Parents, wants : Seq(Names) \ {<<>>}, over : Nat, known : BOOLEAN, pid : Nat]

Typed ==
    /\ phase \in {"up", "saving", "reaped", "exited"}
    /\ registry \in Seq(Entries)
    /\ alive \in SUBSET Nat /\ IsFiniteSet(alive) /\ late \in SUBSET Nat
    /\ watched \in Seq(Watches)
    /\ calls \in [Slots -> Calls \cup {Idle}]

\* An id has one entry, of a registry and of this one.
OneEach(reg) == \A j, k \in DOMAIN reg : reg[j].id = reg[k].id => j = k

\* Only the daemon's own entry has no parent.
Rooted(reg) == \A k \in DOMAIN reg : reg[k].parent = None => reg[k].id = Root

\* Among any ids of the registry there is one without a child among them.
Grounded(reg) ==
    \A S \in SUBSET {reg[k].id : k \in DOMAIN reg} :
        S # {} => \E k \in DOMAIN reg : reg[k].id \in S /\ ToSet(reg[k].kids) \cap S = {}

\* A call that found its parent registered has launched another process than it.
NotItsOwn ==
    \A s \in Slots : calls[s].at = "register" /\ calls[s].known => calls[s].pid # calls[s].over

\* No entry is terminated before the cascade.
NoneYet == phase \in {"up", "saving"} => \A k \in DOMAIN registry : registry[k].status = "running"

Followed == \A k \in DOMAIN watched : Registered(watched[k].id)

IInv ==
    /\ Typed
    /\ OneEach(registry) /\ Rooted(registry) /\ Grounded(registry)
    /\ NotItsOwn /\ NoneYet /\ Followed /\ NoneLeftBehind

-----------------------------------------------------------------------------
(* Process ids. *)

LEMMA FiniteImage ==
    ASSUME NEW T, IsFiniteSet(T), NEW f
    PROVE  IsFiniteSet({f[x] : x \in T})
<1> DEFINE U == {f[x] : x \in T}
           g == [x \in T |-> f[x]]
<1>1. g \in Surjection(T, U)
  BY DEF Surjection
<1> HIDE DEF g
<1> QED
  BY <1>1, FS_Surjection

\* A number that is not used can be found among the first ones.
LEMMA FreshIsFree ==
    ASSUME NEW used, IsFiniteSet(used)
    PROVE  Fresh(used) \in Nat \ {0} /\ Fresh(used) \notin used
<1> DEFINE n == Cardinality(used) + 1
<1>1. Cardinality(used) \in Nat
  BY FS_CardinalityType
<1>2. \E i \in 1..n : i \notin used
  <2> SUFFICES ASSUME 1..n \subseteq used PROVE FALSE
    OBVIOUS
  <2>1. Cardinality(1..n) <= Cardinality(used)
    BY FS_Subset
  <2>2. Cardinality(1..n) = n
    BY <1>1, FS_Interval
  <2> QED
    BY <1>1, <2>1, <2>2
<1>3. Fresh(used) \in 1..n /\ Fresh(used) \notin used
  BY <1>2 DEF Fresh
<1> QED
  BY <1>1, <1>3

LEMMA UsedIsFinite ==
    ASSUME Typed
    PROVE  LET used == Used(alive, registry)
           IN  /\ IsFiniteSet(used) /\ alive \subseteq used
               /\ \A k \in DOMAIN registry : registry[k].pid \in used /\ registry[k].born \in used
               /\ \A s \in Slots : calls[s] # Idle => calls[s].over \in used
<1> DEFINE D == DOMAIN registry
           B == {t \in Slots : calls[t] # Idle}
           P == [k \in D |-> registry[k].pid]
           Q == [k \in D |-> registry[k].born]
           O == [t \in B |-> calls[t].over]
           R == [t \in B |-> calls[t].pid]
<1>1. IsFiniteSet(D)
  <2>1. D = 1..Len(registry) /\ Len(registry) \in Nat
    BY DEF Typed
  <2> QED
    BY <2>1, FS_Interval
<1>2. IsFiniteSet(B)
  BY ChildAssumption, FS_Subset
<1>3. IsFiniteSet({P[k] : k \in D}) /\ IsFiniteSet({Q[k] : k \in D})
  <2> HIDE DEF D, P, Q
  <2> QED
    BY <1>1, FiniteImage
<1>4. IsFiniteSet({O[t] : t \in B}) /\ IsFiniteSet({R[t] : t \in B})
  <2> HIDE DEF B, O, R
  <2> QED
    BY <1>2, FiniteImage
<1>5. Used(alive, registry) = (((alive \cup {P[k] : k \in D}) \cup {Q[k] : k \in D})
                                 \cup {O[t] : t \in B}) \cup {R[t] : t \in B}
  BY DEF Used
<1>6. IsFiniteSet(Used(alive, registry))
  <2> HIDE DEF D, B, P, Q, O, R
  <2>1. IsFiniteSet(alive)
    BY DEF Typed
  <2>2. IsFiniteSet(alive \cup {P[k] : k \in D})
    BY <2>1, <1>3, FS_Union
  <2>3. IsFiniteSet((alive \cup {P[k] : k \in D}) \cup {Q[k] : k \in D})
    BY <2>2, <1>3, FS_Union
  <2>4. IsFiniteSet(((alive \cup {P[k] : k \in D}) \cup {Q[k] : k \in D}) \cup {O[t] : t \in B})
    BY <2>3, <1>4, FS_Union
  <2>5. IsFiniteSet((((alive \cup {P[k] : k \in D}) \cup {Q[k] : k \in D})
                       \cup {O[t] : t \in B}) \cup {R[t] : t \in B})
    BY <2>4, <1>4, FS_Union
  <2> QED
    BY <2>5, <1>5
<1>7. alive \subseteq Used(alive, registry)
  BY DEF Used
<1>8. \A k \in D : registry[k].pid \in Used(alive, registry) /\ registry[k].born \in Used(alive, registry)
  BY DEF Used
<1>9. \A s \in Slots : calls[s] # Idle => calls[s].over \in Used(alive, registry)
  BY DEF Used
<1> QED
  BY <1>6, <1>7, <1>8, <1>9

-----------------------------------------------------------------------------
(* The registry. *)

LEMMA EntryFacts ==
    ASSUME registry \in Seq(Entries), OneEach(registry)
    PROVE  /\ \A k \in DOMAIN registry : EntryOf(registry[k].id) = registry[k]
           /\ \A id : Registered(id) =>
                \E k \in DOMAIN registry : registry[k].id = id /\ EntryOf(id) = registry[k]
<1>1. ASSUME NEW k \in DOMAIN registry PROVE EntryOf(registry[k].id) = registry[k]
  BY <1>1 DEF EntryOf, OneEach
<1> QED
  BY <1>1 DEF Registered

\* What Put leaves: the new entry, and those of the other ids.
LEMMA PutFacts ==
    ASSUME NEW reg \in Seq(Entries), OneEach(reg), NEW e \in Entries
    PROVE  LET new == Put(reg, e)
           IN  /\ new \in Seq(Entries) /\ OneEach(new)
               /\ \E k \in DOMAIN new : new[k] = e
               /\ \A k \in DOMAIN new : \/ new[k] = e
                                        \/ new[k].id # e.id /\ \E j \in DOMAIN reg : new[k] = reg[j]
               /\ \A j \in DOMAIN reg : \E k \in DOMAIN new : new[k].id = reg[j].id
<1>1. CASE \E k \in DOMAIN reg : reg[k].id = e.id
  <2> DEFINE new == [k \in DOMAIN reg |-> IF reg[k].id = e.id THEN e ELSE reg[k]]
  <2>1. Put(reg, e) = new
    BY <1>1 DEF Put
  <2>2. new \in Seq(Entries)
    OBVIOUS
  <2>3. DOMAIN new = DOMAIN reg /\ \A k \in DOMAIN new : new[k].id = reg[k].id
    OBVIOUS
  <2>4. OneEach(new)
    BY <2>3 DEF OneEach
  <2>5. \E k \in DOMAIN new : new[k] = e
    BY <1>1
  <2>6. \A k \in DOMAIN new : \/ new[k] = e
                              \/ new[k].id # e.id /\ \E j \in DOMAIN reg : new[k] = reg[j]
    OBVIOUS
  <2> QED
    BY <2>1, <2>2, <2>3, <2>4, <2>5, <2>6
<1>2. CASE ~\E k \in DOMAIN reg : reg[k].id = e.id
  <2> DEFINE new == Append(reg, e)
  <2>1. Put(reg, e) = new
    BY <1>2 DEF Put
  <2>2. /\ new \in Seq(Entries) /\ DOMAIN new = 1..(Len(reg) + 1) /\ DOMAIN reg = 1..Len(reg)
        /\ Len(reg) \in Nat /\ new[Len(reg) + 1] = e
        /\ \A k \in 1..Len(reg) : new[k] = reg[k]
    OBVIOUS
  <2> HIDE DEF new
  <2>3. OneEach(new)
    <3> SUFFICES ASSUME NEW j \in DOMAIN new, NEW k \in DOMAIN new, new[j].id = new[k].id
                 PROVE  j = k
      BY DEF OneEach
    <3>1. j = Len(reg) + 1 \/ j \in DOMAIN reg
      BY <2>2
    <3>2. k = Len(reg) + 1 \/ k \in DOMAIN reg
      BY <2>2
    <3> QED
      BY <3>1, <3>2, <2>2, <1>2 DEF OneEach
  <2>4. \E k \in DOMAIN new : new[k] = e
    BY <2>2
  <2>5. \A k \in DOMAIN new : \/ new[k] = e
                              \/ new[k].id # e.id /\ \E j \in DOMAIN reg : new[k] = reg[j]
    <3> TAKE k \in DOMAIN new
    <3>1. k = Len(reg) + 1 \/ k \in DOMAIN reg
      BY <2>2
    <3> QED
      BY <3>1, <2>2, <1>2
  <2>6. \A j \in DOMAIN reg : \E k \in DOMAIN new : new[k].id = reg[j].id
    BY <2>2
  <2> QED
    BY <2>1, <2>2, <2>3, <2>4, <2>5, <2>6
<1> QED
  BY <1>1, <1>2

\* A new entry without children makes no cycle.
LEMMA PutGrounds ==
    ASSUME NEW reg \in Seq(Entries), OneEach(reg), Grounded(reg),
           NEW e \in Entries, e.kids = <<>>
    PROVE  Grounded(Put(reg, e))
<1> DEFINE new == Put(reg, e)
<1>1. /\ OneEach(new)
      /\ \E k \in DOMAIN new : new[k] = e
      /\ \A k \in DOMAIN new : \/ new[k] = e
                               \/ new[k].id # e.id /\ \E j \in DOMAIN reg : new[k] = reg[j]
      /\ \A j \in DOMAIN reg : \E k \in DOMAIN new : new[k].id = reg[j].id
  BY PutFacts
<1> HIDE DEF new
<1> SUFFICES ASSUME NEW S \in SUBSET {new[k].id : k \in DOMAIN new}, S # {}
             PROVE  \E k \in DOMAIN new : new[k].id \in S /\ ToSet(new[k].kids) \cap S = {}
  BY DEF Grounded, new
<1>2. CASE e.id \in S
  <2>1. ToSet(e.kids) = {}
    BY DEF ToSet
  <2> QED
    BY <1>1, <1>2, <2>1
<1>3. CASE e.id \notin S
  <2>1. S \subseteq {reg[j].id : j \in DOMAIN reg}
    BY <1>1, <1>3
  <2>2. PICK j \in DOMAIN reg : reg[j].id \in S /\ ToSet(reg[j].kids) \cap S = {}
    BY <2>1 DEF Grounded
  <2>3. PICK k \in DOMAIN new : new[k].id = reg[j].id
    BY <1>1
  <2>4. new[k] # e
    BY <2>2, <2>3, <1>3
  <2>5. PICK i \in DOMAIN reg : new[k] = reg[i]
    BY <2>4, <1>1
  <2>6. i = j
    BY <2>3, <2>5 DEF OneEach
  <2> QED
    BY <2>2, <2>5, <2>6
<1> QED
  BY <1>2, <1>3

\* Nor does an entry without children that is hung below others.
LEMMA LinkGrounds ==
    ASSUME NEW reg \in Seq(Entries), Grounded(reg), NEW id, NEW new,
           DOMAIN new = DOMAIN reg,
           \A k \in DOMAIN reg :
               /\ new[k].id = reg[k].id
               /\ ToSet(new[k].kids) \subseteq ToSet(reg[k].kids) \cup {id},
           \A k \in DOMAIN reg : reg[k].id = id => new[k].kids = <<>>
    PROVE  Grounded(new)
<1> SUFFICES ASSUME NEW S \in SUBSET {new[k].id : k \in DOMAIN new}, S # {}
             PROVE  \E k \in DOMAIN new : new[k].id \in S /\ ToSet(new[k].kids) \cap S = {}
  BY DEF Grounded
<1>1. S \subseteq {reg[k].id : k \in DOMAIN reg}
  OBVIOUS
<1>2. CASE id \in S
  <2>1. PICK k \in DOMAIN reg : reg[k].id = id
    BY <1>1, <1>2
  <2>2. ToSet(new[k].kids) = {}
    BY <2>1 DEF ToSet
  <2> QED
    BY <1>2, <2>1, <2>2
<1>3. CASE id \notin S
  <2>1. PICK k \in DOMAIN reg : reg[k].id \in S /\ ToSet(reg[k].kids) \cap S = {}
    BY <1>1 DEF Grounded
  <2> QED
    BY <1>3, <2>1
<1> QED
  BY <1>2, <1>3

-----------------------------------------------------------------------------
(* Steps that leave the entries where they are. *)

\* Changes of an entry's status, mark or process: ids, parents and children stay.
LEMMA ShapeKeeps ==
    ASSUME registry \in Seq(Entries), DOMAIN registry' = DOMAIN registry,
           \A k \in DOMAIN registry :
               /\ registry'[k].id = registry[k].id /\ registry'[k].parent = registry[k].parent
               /\ registry'[k].kids = registry[k].kids,
           OneEach(registry), Rooted(registry), Grounded(registry)
    PROVE  /\ OneEach(registry') /\ Rooted(registry') /\ Grounded(registry')
           /\ \A id : Registered(id) => Registered(id)'
<1>1. OneEach(registry')
  BY DEF OneEach
<1>2. Rooted(registry')
  BY DEF Rooted
<1>3. Grounded(registry')
  <2>1. \A k \in DOMAIN registry : k \in DOMAIN registry' /\ registry'[k].id = registry[k].id
                                      /\ registry'[k].kids = registry[k].kids
    OBVIOUS
  <2>2. {registry'[k].id : k \in DOMAIN registry'} = {registry[k].id : k \in DOMAIN registry}
    BY <2>1
  <2> SUFFICES ASSUME NEW S \in SUBSET {registry'[k].id : k \in DOMAIN registry'}, S # {}
               PROVE  \E k \in DOMAIN registry' :
                          registry'[k].id \in S /\ ToSet(registry'[k].kids) \cap S = {}
    BY DEF Grounded
  <2>3. PICK k \in DOMAIN registry : registry[k].id \in S /\ ToSet(registry[k].kids) \cap S = {}
    BY <2>2 DEF Grounded
  <2> QED
    BY <2>1, <2>3
<1>4. \A id : Registered(id) => Registered(id)'
  BY DEF Registered
<1> QED
  BY <1>1, <1>2, <1>3, <1>4

LEMMA SameRegistry ==
    ASSUME IInv, registry' = registry
    PROVE  /\ OneEach(registry') /\ Rooted(registry') /\ Grounded(registry')
           /\ \A id : Registered(id) => Registered(id)'
BY ShapeKeeps DEF IInv, Typed

\* A step of the calls alone.
LEMMA CallsKeep ==
    ASSUME IInv, UNCHANGED <<phase, treeVars, superVars, late>>,
           calls' \in [Slots -> Calls \cup {Idle}], NotItsOwn'
    PROVE  IInv'
<1>1. Typed'
  BY DEF IInv, Typed, treeVars, superVars
<1>2. OneEach(registry') /\ Rooted(registry') /\ Grounded(registry')
  BY SameRegistry DEF treeVars
<1>3. NoneYet' /\ Followed' /\ NoneLeftBehind'
  BY DEF IInv, NoneYet, Followed, NoneLeftBehind, Registered, treeVars, superVars
<1> QED
  BY <1>1, <1>2, <1>3 DEF IInv

\* A call of slot s, replaced by one that is not in "register", or by none.
LEMMA CallMoves ==
    ASSUME IInv, NEW s \in Slots, NEW c \in Calls \cup {Idle}, c.at # "register",
           calls' = [calls EXCEPT ![s] = c], UNCHANGED <<phase, treeVars, superVars, late>>
    PROVE  IInv'
<1>1. calls' \in [Slots -> Calls \cup {Idle}]
  BY DEF IInv, Typed
<1>2. NotItsOwn'
  BY DEF IInv, Typed, NotItsOwn
<1> QED
  BY <1>1, <1>2, CallsKeep

LEMMA Moved ==
    ASSUME NEW c \in Calls, NEW label \in {"snapshot", "check", "lattice", "register", "inject"}
    PROVE  [c EXCEPT !.at = label] \in Calls /\ [c EXCEPT !.at = label].at = label
BY DEF Calls

LEMMA AtWork ==
    ASSUME IInv, NEW s \in Slots, calls[s].at # "idle"
    PROVE  calls[s] \in Calls
BY DEF IInv, Typed, Idle

LEMMA EndKeeps ==
    ASSUME IInv, NEW s \in Slots, End(s), UNCHANGED <<phase, treeVars, superVars, late>>
    PROVE  IInv'
BY CallMoves DEF End, Idle

LEMMA AskKeeps ==
    ASSUME IInv, NEW s \in Slots, NEW fork \in BOOLEAN, NEW parent \in Parents,
           NEW wants \in Seq(Names) \ {<<>>}, Ask(s, fork, parent, wants)
    PROVE  IInv'
<1> DEFINE c == [at |-> IF fork THEN "snapshot" ELSE "check", fork |-> fork,
                 parent |-> parent, wants |-> wants, over |-> 0, known |-> FALSE, pid |-> 0]
<1>1. c \in Calls /\ c.at # "register"
  BY DEF Calls
<1>2. calls' = [calls EXCEPT ![s] = c] /\ UNCHANGED <<phase, treeVars, superVars, late>>
  BY DEF Ask
<1> HIDE DEF c
<1> QED
  BY <1>1, <1>2, CallMoves

LEMMA LoadSnapshotKeeps ==
    ASSUME IInv, NEW s \in Slots, LoadSnapshot(s)
    PROVE  IInv'
<1>1. CASE End(s)
  BY <1>1, EndKeeps DEF LoadSnapshot
<1>2. CASE Goto(s, "check")
  <2> DEFINE c == [calls[s] EXCEPT !.at = "check"]
  <2>1. calls[s] \in Calls
    BY AtWork DEF LoadSnapshot
  <2>2. c \in Calls /\ c.at = "check"
    BY <2>1, Moved
  <2>3. calls' = [calls EXCEPT ![s] = c]
    BY <1>2 DEF Goto, IInv, Typed
  <2> HIDE DEF c
  <2> QED
    BY <2>2, <2>3, CallMoves DEF LoadSnapshot
<1> QED
  BY <1>1, <1>2 DEF LoadSnapshot

-----------------------------------------------------------------------------
(* The launch of a process. *)

\* A call launches a process that no entry has and no call names as its parent's.
LEMMA LaunchKeeps ==
    ASSUME IInv, NEW s \in Slots, NEW c \in Calls, Launch(s, c), UNCHANGED <<phase, superVars>>,
           c.known => \/ \E k \in DOMAIN registry : c.over = registry[k].born
                      \/ calls[s] # Idle /\ c.over = calls[s].over
    PROVE  IInv'
<1> DEFINE used == Used(alive, registry)
           pid == Fresh(used)
           d == [c EXCEPT !.at = "register", !.pid = pid]
<1>1. Typed
  BY DEF IInv
<1>2. /\ IsFiniteSet(used) /\ alive \subseteq used
      /\ \A k \in DOMAIN registry : registry[k].pid \in used /\ registry[k].born \in used
      /\ \A t \in Slots : calls[t] # Idle => calls[t].over \in used
  BY <1>1, UsedIsFinite
<1>3. pid \in Nat /\ pid \notin used
  BY <1>2, FreshIsFree
<1>4. /\ alive' = alive \cup {pid} /\ calls' = [calls EXCEPT ![s] = d] /\ registry' = registry
      /\ late' = IF phase = "reaped" THEN late \cup {pid} ELSE late
  BY DEF Launch
<1>5. d \in Calls /\ d.over = c.over /\ d.known = c.known /\ d.pid = pid
  BY <1>3 DEF Calls
<1>6. c.known => c.over \in used
  BY <1>2
<1> HIDE DEF used, pid, d
<1>7. Typed'
  <2>1. alive' \in SUBSET Nat /\ late' \in SUBSET Nat
    BY <1>1, <1>3, <1>4 DEF Typed
  <2>2. IsFiniteSet(alive')
    BY <1>1, <1>4, FS_AddElement DEF Typed
  <2>3. calls' \in [Slots -> Calls \cup {Idle}]
    BY <1>1, <1>4, <1>5 DEF Typed
  <2> QED
    BY <1>1, <1>4, <2>1, <2>2, <2>3 DEF Typed, superVars
<1>8. NotItsOwn'
  BY <1>1, <1>3, <1>4, <1>5, <1>6 DEF IInv, Typed, NotItsOwn
<1>9. OneEach(registry') /\ Rooted(registry') /\ Grounded(registry')
  BY <1>4, SameRegistry
<1>10. NoneYet' /\ Followed'
  BY <1>4 DEF IInv, NoneYet, Followed, Registered, superVars
<1>11. NoneLeftBehind'
  BY <1>2, <1>3, <1>4 DEF IInv, NoneLeftBehind
<1> QED
  BY <1>7, <1>8, <1>9, <1>10, <1>11 DEF IInv

LEMMA CheckKeeps ==
    ASSUME IInv, NEW s \in Slots, Check(s)
    PROVE  IInv'
<1> DEFINE parent == calls[s].parent
           c == [calls[s] EXCEPT !.known = Registered(parent),
                     !.over = IF Registered(parent) THEN EntryOf(parent).born ELSE 0]
<1>1. calls[s] \in Calls
  BY AtWork DEF Check
<1>2. registry \in Seq(Entries) /\ OneEach(registry)
  BY DEF IInv, Typed
<1>3. Registered(parent) => \E k \in DOMAIN registry : EntryOf(parent) = registry[k]
  BY <1>2, EntryFacts
<1>4. c.known => \E k \in DOMAIN registry : c.over = registry[k].born
  BY <1>1, <1>3 DEF Calls
<1>5. Registered(parent) \in BOOLEAN
  BY DEF Registered
<1>6. Registered(parent) => EntryOf(parent).born \in Nat
  <2> SUFFICES ASSUME Registered(parent) PROVE EntryOf(parent).born \in Nat
    OBVIOUS
  <2>1. PICK k \in DOMAIN registry : EntryOf(parent) = registry[k]
    BY <1>3
  <2>2. registry[k] \in Entries
    BY <1>2
  <2> QED
    BY <2>1, <2>2 DEF Entries
<1>7. c \in Calls
  BY <1>1, <1>5, <1>6 DEF Calls
<1>8. CASE End(s) /\ UNCHANGED <<treeVars, late>>
  BY <1>8, EndKeeps DEF Check
<1>9. CASE calls' = [calls EXCEPT ![s] = [c EXCEPT !.at = "lattice"]] /\ UNCHANGED <<treeVars, late>>
  <2> DEFINE d == [c EXCEPT !.at = "lattice"]
  <2>1. d \in Calls /\ d.at = "lattice"
    BY <1>7, Moved
  <2>2. calls' = [calls EXCEPT ![s] = d]
    BY <1>9
  <2>3. UNCHANGED <<phase, treeVars, superVars, late>>
    BY <1>9 DEF Check
  <2> HIDE DEF d
  <2> QED
    BY <2>1, <2>2, <2>3, CallMoves
<1>10. CASE Launch(s, c)
  <2>1. UNCHANGED <<phase, superVars>>
    BY DEF Check
  <2> HIDE DEF c
  <2> QED
    BY <1>4, <1>7, <1>10, <2>1, LaunchKeeps
<1> QED
  BY <1>8, <1>9, <1>10 DEF Check

LEMMA CheckLatticeKeeps ==
    ASSUME IInv, NEW s \in Slots, CheckLattice(s)
    PROVE  IInv'
<1>1. calls[s] \in Calls /\ calls[s] # Idle
  BY AtWork DEF CheckLattice, Idle
<1>2. UNCHANGED <<phase, superVars>>
  BY DEF CheckLattice
<1>3. CASE Launch(s, calls[s])
  BY <1>1, <1>2, <1>3, LaunchKeeps
<1>4. CASE End(s) /\ UNCHANGED <<treeVars, late>>
  BY <1>2, <1>4, EndKeeps
<1> QED
  BY <1>3, <1>4 DEF CheckLattice

-----------------------------------------------------------------------------
(* Registration. *)

LEMMA SelfRegisterKeeps ==
    ASSUME IInv, SelfRegister
    PROVE  IInv'
<1> DEFINE e == Entry(Root, 0, None)
<1>1. Typed /\ OneEach(registry) /\ Rooted(registry) /\ Grounded(registry)
  BY DEF IInv
<1>2. e \in Entries /\ e.kids = <<>> /\ e.id = Root /\ e.status = "running"
  BY DEF Entry, Entries
<1>3. registry' = Put(registry, e) /\ UNCHANGED <<phase, alive, superVars, calls, late>>
  BY DEF SelfRegister
<1> HIDE DEF e
<1>4. /\ registry' \in Seq(Entries) /\ OneEach(registry')
      /\ \A k \in DOMAIN registry' : \/ registry'[k] = e
                                     \/ \E j \in DOMAIN registry : registry'[k] = registry[j]
      /\ \A j \in DOMAIN registry : \E k \in DOMAIN registry' : registry'[k].id = registry[j].id
  <2> DEFINE new == Put(registry, e)
  <2>1. /\ new \in Seq(Entries) /\ OneEach(new)
        /\ \A k \in DOMAIN new : \/ new[k] = e
                                 \/ new[k].id # e.id /\ \E j \in DOMAIN registry : new[k] = registry[j]
        /\ \A j \in DOMAIN registry : \E k \in DOMAIN new : new[k].id = registry[j].id
    BY <1>1, <1>2, PutFacts DEF Typed
  <2>2. registry' = new
    BY <1>3
  <2> HIDE DEF new
  <2> QED
    BY <2>1, <2>2
<1>5. Grounded(registry')
  BY <1>1, <1>2, <1>3, PutGrounds DEF Typed
<1>6. Rooted(registry')
  BY <1>1, <1>2, <1>4 DEF Rooted
<1>7. Typed'
  BY <1>1, <1>3, <1>4 DEF Typed, superVars
<1>8. NotItsOwn' /\ NoneYet'
  BY <1>2, <1>3, <1>4 DEF IInv, NotItsOwn, NoneYet
<1>9. \A id : Registered(id) => Registered(id)'
  BY <1>4 DEF Registered
<1>10. Followed'
  BY <1>3, <1>9 DEF IInv, Followed, superVars
<1>11. NoneLeftBehind'
  BY <1>2, <1>3, <1>4 DEF IInv, NoneLeftBehind
<1> QED
  BY <1>4, <1>5, <1>6, <1>7, <1>8, <1>10, <1>11 DEF IInv

LEMMA RegisterKeeps ==
    ASSUME IInv, NEW s \in Slots, Register(s)
    PROVE  IInv'
<1> DEFINE c == calls[s]
           id == Child(c)
           e == Entry(id, c.pid, c.parent)
           reg == Put(registry, e)
<1>1. Typed /\ OneEach(registry) /\ Rooted(registry) /\ Grounded(registry)
  BY DEF IInv
<1>2. c \in Calls /\ c.at = "register"
  BY AtWork DEF Register
<1>3. id \in Names
  BY <1>2 DEF Calls, Child
<1>4. /\ e \in Entries /\ e.kids = <<>> /\ e.id = id /\ e.status = "running"
      /\ e.parent # None /\ e.born = c.pid /\ e.pid = c.pid
  BY <1>2, <1>3, ChildAssumption DEF Calls, Entry, Entries, Parents
<1>5. /\ registry' = [k \in DOMAIN reg |->
            IF IsParent(reg[k], c) THEN [reg[k] EXCEPT !.kids = Append(@, id)] ELSE reg[k]]
      /\ late' = IF phase = "reaped" THEN late \cup {c.pid} ELSE late
      /\ UNCHANGED <<phase, alive, superVars>>
  BY DEF Register
<1>6. c.known => c.pid # c.over
  BY <1>2 DEF IInv, NotItsOwn
<1> HIDE DEF e
<1>7. /\ reg \in Seq(Entries) /\ OneEach(reg)
      /\ \A k \in DOMAIN reg : \/ reg[k] = e
                               \/ reg[k].id # e.id /\ \E j \in DOMAIN registry : reg[k] = registry[j]
      /\ \A j \in DOMAIN registry : \E k \in DOMAIN reg : reg[k].id = registry[j].id
  BY <1>1, <1>4, PutFacts DEF Typed
<1>8. Grounded(reg)
  BY <1>1, <1>4, PutGrounds DEF Typed
<1>9. ~IsParent(e, c)
  BY <1>4, <1>6 DEF IsParent
<1> HIDE DEF reg, id
<1>10. DOMAIN registry' = DOMAIN reg /\ registry' \in Seq(Entries)
  <2>1. \A k \in DOMAIN reg : [reg[k] EXCEPT !.kids = Append(@, id)] \in Entries
    <3> TAKE k \in DOMAIN reg
    <3>1. reg[k] \in Entries
      BY <1>7
    <3>2. Append(reg[k].kids, id) \in Seq(Names)
      BY <3>1, <1>3 DEF Entries
    <3> QED
      BY <3>1, <3>2 DEF Entries
  <2>2. DOMAIN reg = 1..Len(reg) /\ Len(reg) \in Nat /\ \A k \in DOMAIN reg : reg[k] \in Entries
    BY <1>7
  <2> QED
    BY <1>5, <2>1, <2>2
<1>11. \A k \in DOMAIN reg :
          /\ registry'[k].id = reg[k].id /\ registry'[k].pid = reg[k].pid
          /\ registry'[k].parent = reg[k].parent /\ registry'[k].status = reg[k].status
          /\ \/ registry'[k].kids = reg[k].kids
             \/ IsParent(reg[k], c) /\ registry'[k].kids = Append(reg[k].kids, id)
  <2> TAKE k \in DOMAIN reg
  <2>1. reg[k] \in Entries
    BY <1>7
  <2> QED
    BY <2>1, <1>5 DEF Entries
<1>12. OneEach(registry')
  BY <1>7, <1>10, <1>11 DEF OneEach
<1>13. Rooted(registry')
  BY <1>1, <1>4, <1>7, <1>10, <1>11 DEF Rooted
<1>14. Grounded(registry')
  <2>1. \A k \in DOMAIN reg : ToSet(registry'[k].kids) \subseteq ToSet(reg[k].kids) \cup {id}
    <3> TAKE k \in DOMAIN reg
    <3>0. reg[k] \in Entries
      BY <1>7
    <3>1. reg[k].kids \in Seq(Names)
      BY <3>0 DEF Entries
    <3>2. ToSet(Append(reg[k].kids, id)) \subseteq ToSet(reg[k].kids) \cup {id}
      BY <3>1, <1>3 DEF ToSet
    <3> QED
      BY <3>2, <1>11
  <2>2. \A k \in DOMAIN reg : reg[k].id = id => registry'[k].kids = <<>>
    <3> SUFFICES ASSUME NEW k \in DOMAIN reg, reg[k].id = id PROVE registry'[k].kids = <<>>
      OBVIOUS
    <3>1. reg[k] = e
      BY <1>4, <1>7
    <3> QED
      BY <3>1, <1>4, <1>9, <1>11
  <2>3. \A k \in DOMAIN reg :
            /\ registry'[k].id = reg[k].id
            /\ ToSet(registry'[k].kids) \subseteq ToSet(reg[k].kids) \cup {id}
    BY <1>11, <2>1
  <2>4. reg \in Seq(Entries) /\ DOMAIN registry' = DOMAIN reg
    BY <1>7, <1>10
  <2> QED
    BY <1>8, <2>2, <2>3, <2>4, LinkGrounds
<1>15. calls' \in [Slots -> Calls \cup {Idle}] /\ NotItsOwn'
  <2>1. CASE calls' = [calls EXCEPT ![s].at = "inject"]
    <3> DEFINE d == [calls[s] EXCEPT !.at = "inject"]
    <3>1. d \in Calls /\ d.at = "inject"
      BY <1>2, Moved
    <3>2. calls' = [calls EXCEPT ![s] = d]
      BY <2>1, <1>1 DEF Typed
    <3> HIDE DEF d
    <3> QED
      BY <3>1, <3>2, <1>1 DEF IInv, Typed, NotItsOwn
  <2>2. CASE calls' = [calls EXCEPT ![s] = Idle]
    BY <2>2, <1>1 DEF IInv, Typed, NotItsOwn, Idle
  <2> QED
    BY <2>1, <2>2 DEF Register, Goto, End
<1>16. Typed'
  <2>1. late' \in SUBSET Nat
    BY <1>1, <1>2, <1>5 DEF Typed, Calls
  <2> QED
    BY <1>1, <1>5, <1>10, <1>15, <2>1 DEF Typed, superVars
<1>17. NoneYet'
  BY <1>4, <1>5, <1>7, <1>10, <1>11 DEF IInv, NoneYet
<1>18. \A n : Registered(n) => Registered(n)'
  BY <1>7, <1>10, <1>11 DEF Registered
<1>19. Followed'
  BY <1>5, <1>18 DEF IInv, Followed, superVars
<1>20. NoneLeftBehind'
  <2> SUFFICES ASSUME phase = "reaped", NEW k \in DOMAIN reg
               PROVE  \/ reg[k].id = Root \/ reg[k].pid \in late'
                      \/ reg[k].status = "terminated" /\ reg[k].pid \notin alive
    BY <1>5, <1>10, <1>11 DEF NoneLeftBehind
  <2>1. CASE reg[k] = e
    BY <2>1, <1>4, <1>5
  <2>2. CASE reg[k] # e
    BY <2>2, <1>5, <1>7 DEF IInv, NoneLeftBehind
  <2> QED
    BY <2>1, <2>2
<1> QED
  BY <1>12, <1>13, <1>14, <1>15, <1>16, <1>17, <1>19, <1>20 DEF IInv

LEMMA InjectKeeps ==
    ASSUME IInv, NEW s \in Slots, Inject(s)
    PROVE  IInv'
<1>1. Typed /\ OneEach(registry) /\ Rooted(registry) /\ Grounded(registry)
  BY DEF IInv
<1>2. calls[s] \in Calls
  BY AtWork DEF Inject
<1>3. /\ registry' = [k \in DOMAIN registry |->
            IF registry[k].id = Child(calls[s]) THEN [registry[k] EXCEPT !.origin = TRUE]
                                                ELSE registry[k]]
      /\ UNCHANGED <<phase, alive, superVars, late>>
  BY DEF Inject
<1>4. \A k \in DOMAIN registry :
          /\ registry'[k] \in Entries
          /\ registry'[k].id = registry[k].id /\ registry'[k].parent = registry[k].parent
          /\ registry'[k].kids = registry[k].kids /\ registry'[k].pid = registry[k].pid
          /\ registry'[k].status = registry[k].status
  <2> TAKE k \in DOMAIN registry
  <2>1. registry[k] \in Entries
    BY <1>1 DEF Typed
  <2> QED
    BY <2>1, <1>3 DEF Entries
<1>5. DOMAIN registry' = DOMAIN registry /\ registry' \in Seq(Entries)
  <2>1. DOMAIN registry = 1..Len(registry) /\ Len(registry) \in Nat
    BY <1>1 DEF Typed
  <2>2. DOMAIN registry' = 1..Len(registry)
    BY <2>1, <1>3
  <2>3. registry' \in [1..Len(registry) -> Entries]
    BY <2>1, <2>2, <1>3, <1>4
  <2> QED
    BY <2>1, <2>2, <2>3
<1>6. /\ OneEach(registry') /\ Rooted(registry') /\ Grounded(registry')
      /\ \A id : Registered(id) => Registered(id)'
  BY <1>1, <1>4, <1>5, ShapeKeeps DEF Typed
<1>7. calls' \in [Slots -> Calls \cup {Idle}] /\ NotItsOwn'
  <2>1. CASE End(s)
    BY <2>1, <1>1 DEF IInv, Typed, NotItsOwn, End, Idle
  <2>2. CASE NextChild(s) /\ Len(calls[s].wants) > 1
    <3> DEFINE d == [calls[s] EXCEPT !.at = "check", !.wants = Tail(calls[s].wants), !.over = 0,
                                     !.known = FALSE, !.pid = 0]
    <3>1. calls[s].wants \in Seq(Names)
      BY <1>2 DEF Calls
    <3>2. Tail(calls[s].wants) \in Seq(Names) /\ Tail(calls[s].wants) # <<>>
      <4> DEFINE w == calls[s].wants
      <4>1. w \in Seq(Names) /\ Len(w) \in Nat /\ Len(w) > 1
        BY <2>2, <3>1
      <4> HIDE DEF w
      <4>2. Tail(w) \in Seq(Names) /\ Len(Tail(w)) = Len(w) - 1
        BY <4>1
      <4>3. Tail(w) # <<>>
        <5>1. Len(Tail(w)) # 0
          BY <4>1, <4>2
        <5>2. Len(<<>>) = 0
          BY EmptySeq
        <5> QED
          BY <5>1, <5>2, Zenon
      <4> QED
        BY <4>2, <4>3 DEF w
    <3>3. d \in Calls /\ d.at = "check"
      BY <1>2, <3>2 DEF Calls
    <3>4. calls' = [calls EXCEPT ![s] = d]
      BY <2>2 DEF NextChild
    <3> HIDE DEF d
    <3> QED
      BY <3>3, <3>4, <1>1 DEF IInv, Typed, NotItsOwn
  <2> QED
    BY <2>1, <2>2 DEF Inject, NextChild
<1>8. Typed'
  BY <1>1, <1>3, <1>5, <1>7 DEF Typed, superVars
<1>9. NoneYet' /\ Followed' /\ NoneLeftBehind'
  BY <1>3, <1>4, <1>5, <1>6 DEF IInv, NoneYet, Followed, NoneLeftBehind, superVars
<1> QED
  BY <1>6, <1>7, <1>8, <1>9 DEF IInv

-----------------------------------------------------------------------------
(* The supervisor. *)

LEMMA SuperviseKeeps ==
    ASSUME IInv, NEW id, NEW strategy \in Strategies, NEW budget \in Budgets,
           Supervise(id, strategy, budget)
    PROVE  IInv'
<1> DEFINE w == [id |-> id, strategy |-> strategy, max |-> budget, count |-> 0]
<1>1. Typed /\ UNCHANGED <<phase, treeVars, calls, late>>
  BY DEF IInv, Supervise
<1>2. Registered(id) /\ id \in Names
  <2>1. PICK k \in DOMAIN registry : registry[k].id = id
    BY DEF Supervise, Registered
  <2>2. registry[k] \in Entries
    BY <1>1 DEF Typed
  <2> QED
    BY <2>1, <2>2 DEF Supervise, Entries
<1>3. watched \in Seq(Watches) /\ w \in Watches
  BY <1>1, <1>2, ChildAssumption DEF Typed, Watches
<1>4. watched' \in Seq(Watches) /\ \A k \in DOMAIN watched' : Registered(watched'[k].id)
  <2>1. CASE IsWatched(id)
    <3>1. watched' = [k \in DOMAIN watched |-> IF watched[k].id # id THEN watched[k]
                          ELSE [watched[k] EXCEPT !.strategy = strategy, !.max = budget]]
      BY <2>1 DEF Supervise
    <3>2. DOMAIN watched = 1..Len(watched) /\ Len(watched) \in Nat
      BY <1>3
    <3>3. \A k \in DOMAIN watched : watched'[k] \in Watches /\ watched'[k].id = watched[k].id
      <4> TAKE k \in DOMAIN watched
      <4>1. watched[k] \in Watches
        BY <1>3
      <4> QED
        BY <3>1, <4>1 DEF Watches
    <3>4. watched' \in [1..Len(watched) -> Watches]
      BY <3>1, <3>2, <3>3
    <3>5. watched' \in Seq(Watches)
      BY <3>2, <3>4
    <3>6. \A k \in DOMAIN watched : Registered(watched[k].id)
      BY DEF IInv, Followed
    <3>7. DOMAIN watched' = DOMAIN watched
      BY <3>2, <3>4
    <3> QED
      BY <3>3, <3>5, <3>6, <3>7
  <2>2. CASE ~IsWatched(id)
    <3>1. watched' = Append(watched, w)
      BY <2>2 DEF Supervise
    <3>2. w.id = id
      OBVIOUS
    <3> HIDE DEF w
    <3>3. \A k \in DOMAIN watched' : \/ watched'[k] = w
                                     \/ k \in DOMAIN watched /\ watched'[k] = watched[k]
      BY <1>3, <3>1
    <3> QED
      BY <1>2, <1>3, <3>1, <3>2, <3>3 DEF IInv, Followed
  <2> QED
    BY <2>1, <2>2
<1>5. Typed'
  BY <1>1, <1>4 DEF Typed, treeVars
<1>6. OneEach(registry') /\ Rooted(registry') /\ Grounded(registry')
  BY <1>1, SameRegistry DEF treeVars
<1>7. NotItsOwn' /\ NoneYet' /\ NoneLeftBehind'
  BY <1>1 DEF IInv, NotItsOwn, NoneYet, NoneLeftBehind, treeVars
<1>8. Followed'
  BY <1>1, <1>4 DEF Followed, Registered, treeVars
<1> QED
  BY <1>5, <1>6, <1>7, <1>8 DEF IInv

LEMMA CrashKeeps ==
    ASSUME IInv, NEW p, Crash(p)
    PROVE  IInv'
<1>1. UNCHANGED <<phase, registry, superVars, calls, late>> /\ alive' = alive \ {p}
  BY DEF Crash
<1>2. IsFiniteSet(alive') /\ alive' \in SUBSET Nat
  BY <1>1, FS_RemoveElement DEF IInv, Typed
<1>3. Typed'
  BY <1>1, <1>2 DEF IInv, Typed, superVars
<1>4. OneEach(registry') /\ Rooted(registry') /\ Grounded(registry')
  BY <1>1, SameRegistry
<1>5. NotItsOwn' /\ NoneYet' /\ NoneLeftBehind' /\ Followed'
  BY <1>1 DEF IInv, NotItsOwn, NoneYet, NoneLeftBehind, Followed, Registered, superVars
<1> QED
  BY <1>3, <1>4, <1>5 DEF IInv

\* The processes a tick launches take the numbers of entries, and are in the history
\* once the cascade has run.
LEMMA TickKeeps ==
    ASSUME IInv, Tick
    PROVE  IInv'
<1>1. Typed /\ OneEach(registry) /\ Rooted(registry) /\ Grounded(registry)
  BY DEF IInv
<1>2. PICK k \in DOMAIN watched, bad \in SUBSET Names : Restart(RestartSet(k), bad)
  BY DEF Tick
<1> DEFINE ids == RestartSet(k)
           spent == {watched[j].id : j \in {i \in DOMAIN watched : Spent(watched[i])}}
           tried == ids \ spent
           revived == {EntryOf(id).pid : id \in tried \ bad}
           killed == {EntryOf(id).pid : id \in tried}
           kept == {j \in DOMAIN watched : watched[j].id \notin ids \cap spent}
<1>3. /\ \E at \in [1..Cardinality(kept) -> kept] :
            watched' = [j \in DOMAIN at |->
                    IF watched[at[j]].id \in ids THEN Attempted(watched[at[j]], bad)
                                                ELSE watched[at[j]]]
      /\ alive' = (alive \ killed) \cup revived
      /\ registry' = [i \in DOMAIN registry |->
            IF registry[i].id \in tried \ bad
            THEN [registry[i] EXCEPT !.status = "running"] ELSE registry[i]]
      /\ late' = IF phase = "reaped" THEN late \cup revived ELSE late
      /\ UNCHANGED <<phase, monitor, broken, calls>>
  BY <1>2 DEF Restart, Tick
<1>4. DOMAIN watched = 1..Len(watched) /\ Len(watched) \in Nat
  BY <1>1 DEF Typed
<1>5. ids \subseteq {watched[j].id : j \in DOMAIN watched}
  BY <1>4 DEF RestartSet
<1>6. IsFiniteSet(DOMAIN watched)
  BY <1>4, FS_Interval
<1> HIDE DEF ids, spent
<1>7. IsFiniteSet(kept) /\ Cardinality(kept) \in Nat
  BY <1>6, FS_Subset, FS_CardinalityType
<1>8. revived \in SUBSET Nat /\ IsFiniteSet(revived)
  <2>1. \A id \in tried : \E j \in DOMAIN watched : id = watched[j].id
    BY <1>5
  <2>2. \A id \in tried : EntryOf(id).pid \in Nat
    <3> TAKE id \in tried
    <3>1. Registered(id)
      BY <2>1 DEF IInv, Followed
    <3>2. PICK i \in DOMAIN registry : EntryOf(id) = registry[i]
      BY <1>1, <3>1, EntryFacts DEF Typed
    <3>3. registry[i] \in Entries
      BY <1>1 DEF Typed
    <3> QED
      BY <3>2, <3>3 DEF Entries
  <2>3. revived \subseteq {registry[i].pid : i \in DOMAIN registry}
    <3> SUFFICES ASSUME NEW id \in tried \ bad
                 PROVE  \E i \in DOMAIN registry : EntryOf(id).pid = registry[i].pid
      OBVIOUS
    <3>1. Registered(id)
      BY <2>1 DEF IInv, Followed
    <3> QED
      BY <1>1, <3>1, EntryFacts DEF Typed
  <2>4. IsFiniteSet(Used(alive, registry)) /\ {registry[i].pid : i \in DOMAIN registry} \subseteq Used(alive, registry)
    BY <1>1, UsedIsFinite
  <2>5. IsFiniteSet(revived)
    BY <2>3, <2>4, FS_Subset
  <2> QED
    BY <2>2, <2>5
<1>9. \A i \in DOMAIN registry :
          /\ registry'[i] \in Entries
          /\ registry'[i].id = registry[i].id /\ registry'[i].parent = registry[i].parent
          /\ registry'[i].kids = registry[i].kids /\ registry'[i].pid = registry[i].pid
          /\ \/ registry'[i].status = registry[i].status /\ registry[i].id \notin tried \ bad
             \/ registry'[i].status = "running" /\ registry[i].pid \in revived
  <2> TAKE i \in DOMAIN registry
  <2>1. registry[i] \in Entries
    BY <1>1 DEF Typed
  <2>2. registry[i].id \in tried \ bad => registry[i].pid \in revived
    BY <1>1, EntryFacts DEF Typed
  <2> HIDE DEF tried, revived
  <2> QED
    BY <2>1, <2>2, <1>3 DEF Entries
<1> HIDE DEF tried, revived, killed
<1>10. DOMAIN registry' = DOMAIN registry /\ registry' \in Seq(Entries)
  <2>1. DOMAIN registry = 1..Len(registry) /\ Len(registry) \in Nat
    BY <1>1 DEF Typed
  <2>2. DOMAIN registry' = 1..Len(registry)
    BY <2>1, <1>3
  <2>3. registry' \in [1..Len(registry) -> Entries]
    BY <2>1, <2>2, <1>3, <1>9
  <2> QED
    BY <2>1, <2>2, <2>3
<1>11. /\ OneEach(registry') /\ Rooted(registry') /\ Grounded(registry')
       /\ \A id : Registered(id) => Registered(id)'
  BY <1>1, <1>9, <1>10, ShapeKeeps DEF Typed
<1>12. watched' \in Seq(Watches) /\ \A j \in DOMAIN watched' : \E i \in DOMAIN watched : watched'[j].id = watched[i].id
  <2> DEFINE n == Cardinality(kept)
  <2>1. PICK at \in [1..n -> kept] :
            watched' = [j \in DOMAIN at |->
                    IF watched[at[j]].id \in ids THEN Attempted(watched[at[j]], bad)
                                                ELSE watched[at[j]]]
    BY <1>3
  <2>2. n \in Nat /\ kept \subseteq DOMAIN watched
    BY <1>7
  <2> HIDE DEF n, kept
  <2>3. \A j \in 1..n : watched'[j] \in Watches /\ watched'[j].id = watched[at[j]].id
    <3> TAKE j \in 1..n
    <3>1. watched[at[j]] \in Watches
      BY <1>1, <2>2 DEF Typed
    <3>2. /\ Attempted(watched[at[j]], bad) \in Watches
          /\ Attempted(watched[at[j]], bad).id = watched[at[j]].id
      BY <3>1 DEF Attempted, Watches
    <3> QED
      BY <2>1, <3>1, <3>2
  <2>4. DOMAIN watched' = 1..n /\ watched' = [j \in 1..n |-> watched'[j]]
    BY <2>1
  <2>5. watched' \in [1..n -> Watches]
    BY <2>3, <2>4
  <2> QED
    BY <2>2, <2>3, <2>4, <2>5
<1>13. Typed'
  <2>1. alive' \in SUBSET Nat /\ late' \in SUBSET Nat
    BY <1>1, <1>3, <1>8 DEF Typed
  <2>2. IsFiniteSet(alive')
    <3>1. IsFiniteSet(alive \ killed)
      BY <1>1, FS_Difference DEF Typed
    <3> QED
      BY <3>1, <1>3, <1>8, FS_Union
  <2> QED
    BY <1>1, <1>3, <1>10, <1>12, <2>1, <2>2 DEF Typed
<1>14. NotItsOwn' /\ NoneYet'
  BY <1>3, <1>9, <1>10 DEF IInv, NotItsOwn, NoneYet
<1>15. Followed'
  BY <1>11, <1>12 DEF IInv, Followed
<1>16. NoneLeftBehind'
  BY <1>3, <1>9, <1>10 DEF IInv, NoneLeftBehind
<1> QED
  BY <1>11, <1>13, <1>14, <1>15, <1>16 DEF IInv

-----------------------------------------------------------------------------
(* The end of the daemon. *)

LEMMA StopBeginsKeeps ==
    ASSUME IInv, StopBegins
    PROVE  IInv'
<1>1. /\ phase = "up" /\ phase' = "saving"
      /\ UNCHANGED <<treeVars, watched, calls, late>>
  BY DEF StopBegins
<1>2. Typed'
  BY <1>1 DEF IInv, Typed, treeVars
<1>3. OneEach(registry') /\ Rooted(registry') /\ Grounded(registry')
  BY <1>1, SameRegistry DEF treeVars
<1>4. NotItsOwn' /\ NoneYet' /\ NoneLeftBehind' /\ Followed'
  BY <1>1 DEF IInv, NotItsOwn, NoneYet, NoneLeftBehind, Followed, Registered, treeVars
<1> QED
  BY <1>2, <1>3, <1>4 DEF IInv

\* The cascade ends every entry but the daemon's own.
LEMMA CascadeKeeps ==
    ASSUME IInv, Cascade
    PROVE  IInv'
<1> DEFINE ended == {EntryOf(id).pid : id \in Reaped}
<1>1. Typed /\ OneEach(registry) /\ Rooted(registry) /\ Grounded(registry)
  BY DEF IInv
<1>2. /\ phase = "saving" /\ phase' = "reaped" /\ alive' = alive \ ended
      /\ registry' = [k \in DOMAIN registry |->
            IF registry[k].id \in Reaped
            THEN [registry[k] EXCEPT !.status = "terminated"] ELSE registry[k]]
      /\ UNCHANGED <<superVars, calls, late>>
  BY DEF Cascade
<1>3. \A k \in DOMAIN registry : registry[k].id # Root => registry[k].id \in Reaped
  <2> SUFFICES ASSUME NEW k \in DOMAIN registry, registry[k].id # Root
               PROVE  registry[k].id \in Reaped
    OBVIOUS
  <2>1. registry[k].parent # None
    BY <1>1 DEF Rooted
  <2>2. registry[k].status = "running"
    BY <1>2 DEF IInv, NoneYet
  <2> QED
    BY <2>1, <2>2 DEF Reaped
<1>4. \A k \in DOMAIN registry : registry[k].id \in Reaped => registry[k].pid \in ended
  BY <1>1, EntryFacts DEF Typed
<1> HIDE DEF ended
<1>5. \A k \in DOMAIN registry :
          /\ registry'[k] \in Entries
          /\ registry'[k].id = registry[k].id /\ registry'[k].parent = registry[k].parent
          /\ registry'[k].kids = registry[k].kids /\ registry'[k].pid = registry[k].pid
          /\ registry[k].id \in Reaped => registry'[k].status = "terminated"
  <2> TAKE k \in DOMAIN registry
  <2>1. registry[k] \in Entries
    BY <1>1 DEF Typed
  <2> QED
    BY <2>1, <1>2 DEF Entries
<1>6. DOMAIN registry' = DOMAIN registry /\ registry' \in Seq(Entries)
  <2>1. DOMAIN registry = 1..Len(registry) /\ Len(registry) \in Nat
    BY <1>1 DEF Typed
  <2>2. DOMAIN registry' = 1..Len(registry)
    BY <2>1, <1>2
  <2>3. registry' \in [1..Len(registry) -> Entries]
    BY <2>1, <2>2, <1>2, <1>5
  <2> QED
    BY <2>1, <2>2, <2>3
<1>7. /\ OneEach(registry') /\ Rooted(registry') /\ Grounded(registry')
      /\ \A id : Registered(id) => Registered(id)'
  BY <1>1, <1>5, <1>6, ShapeKeeps DEF Typed
<1>8. Typed'
  <2>1. IsFiniteSet(alive') /\ alive' \in SUBSET Nat
    BY <1>1, <1>2, FS_Difference DEF Typed
  <2> QED
    BY <1>1, <1>2, <1>6, <2>1 DEF Typed, superVars
<1>9. NotItsOwn' /\ NoneYet' /\ Followed'
  BY <1>2, <1>7 DEF IInv, NotItsOwn, NoneYet, Followed, superVars
<1>10. NoneLeftBehind'
  BY <1>2, <1>3, <1>4, <1>5, <1>6 DEF NoneLeftBehind
<1> QED
  BY <1>7, <1>8, <1>9, <1>10 DEF IInv

LEMMA ExitKeeps ==
    ASSUME IInv, Exit
    PROVE  IInv'
<1>1. /\ phase' = "exited" /\ registry' = <<>> /\ alive' = {} /\ watched' = <<>> /\ late' = {}
      /\ calls' = [s \in Slots |-> Idle]
  BY DEF Exit
<1>2. Typed'
  BY <1>1, FS_EmptySet DEF Typed
<1>3. OneEach(registry') /\ Rooted(registry') /\ Grounded(registry')
  BY <1>1 DEF OneEach, Rooted, Grounded
<1>4. NotItsOwn' /\ NoneYet' /\ Followed' /\ NoneLeftBehind'
  BY <1>1 DEF NotItsOwn, NoneYet, Followed, NoneLeftBehind, Idle
<1> QED
  BY <1>2, <1>3, <1>4 DEF IInv

-----------------------------------------------------------------------------
(* The invariant holds, and what it shows. *)

LEMMA InitHolds == Init => IInv
<1> SUFFICES ASSUME Init PROVE IInv
  OBVIOUS
<1>1. Typed
  BY FS_EmptySet DEF Init, Typed
<1>2. OneEach(registry) /\ Rooted(registry) /\ Grounded(registry)
  BY DEF Init, OneEach, Rooted, Grounded
<1>3. NotItsOwn /\ NoneYet /\ Followed /\ NoneLeftBehind
  BY DEF Init, NotItsOwn, NoneYet, Followed, NoneLeftBehind, Idle
<1> QED
  BY <1>1, <1>2, <1>3 DEF IInv

LEMMA NextKeeps == IInv /\ [Next]_vars => IInv'
<1> SUFFICES ASSUME IInv, [Next]_vars PROVE IInv'
  OBVIOUS
<1>1. CASE SelfRegister
  BY <1>1, SelfRegisterKeeps
<1>2. CASE \E s \in Slots : Work(s)
  BY <1>2, LoadSnapshotKeeps, CheckKeeps, CheckLatticeKeeps, RegisterKeeps, InjectKeeps DEF Work
<1>3. CASE \E s \in Slots, p \in Parents, w \in Names :
              \/ SpawnChild(s, p, w)
              \/ Fork(s, p, w)
              \/ \E v \in Names : Branch(s, p, <<w, v>>)
  <2>1. PICK s \in Slots, p \in Parents, w \in Names :
              \/ SpawnChild(s, p, w)
              \/ Fork(s, p, w)
              \/ \E v \in Names : Branch(s, p, <<w, v>>)
    BY <1>3
  <2>2. <<w>> \in Seq(Names) \ {<<>>} /\ \A v \in Names : <<w, v>> \in Seq(Names) \ {<<>>}
    OBVIOUS
  <2> QED
    BY <2>1, <2>2, AskKeeps DEF SpawnChild, Fork, Branch
<1>4. CASE \E k \in DOMAIN registry, st \in Strategies, b \in Budgets :
              Supervise(registry[k].id, st, b)
  BY <1>4, SuperviseKeeps
<1>5. CASE \E p \in alive : Crash(p)
  BY <1>5, CrashKeeps
<1>6. CASE Tick
  BY <1>6, TickKeeps
<1>7. CASE StopBegins \/ Cascade \/ Exit
  BY <1>7, StopBeginsKeeps, CascadeKeeps, ExitKeeps
<1>8. CASE UNCHANGED vars
  <2>1. UNCHANGED <<phase, treeVars, superVars, calls, late>>
    BY <1>8 DEF vars
  <2>2. calls' \in [Slots -> Calls \cup {Idle}] /\ NotItsOwn'
    BY <2>1 DEF IInv, Typed, NotItsOwn
  <2> QED
    BY <2>1, <2>2, CallsKeep
<1> QED
  BY <1>1, <1>2, <1>3, <1>4, <1>5, <1>6, <1>7, <1>8 DEF Next

\* The registry is a tree, with one entry of each id and no entry below itself, so that
\* every walk of cascadeTermination ends; and after the shutdown's cascade no child
\* is left in it whose process runs, but those launched or registered since.
THEOREM ChildTreeIsSound == Spec => []TreeIsSound
<1>1. Init => IInv
  BY InitHolds
<1>2. IInv /\ [Next]_vars => IInv'
  BY NextKeeps
<1>3. IInv => TreeIsSound
  <2> SUFFICES ASSUME IInv PROVE TreeIsSound
    OBVIOUS
  <2>1. \A k \in DOMAIN registry : registry[k] \in Entries
    BY DEF IInv, Typed
  <2>2. \A k \in DOMAIN watched : watched[k] \in Watches
    BY DEF IInv, Typed
  <2>3. TypeOK
    BY <2>1, <2>2 DEF IInv, Typed, OneEach, Followed, TypeOK, Entries, Watches
  <2>4. WalkEnds
    BY DEF IInv, Grounded, WalkEnds, Ids
  <2> QED
    BY <2>3, <2>4 DEF TreeIsSound, IInv
<1> QED
  BY <1>1, <1>2, <1>3, PTL DEF Spec

=============================================================================
